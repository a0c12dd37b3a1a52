-------------------------------- MODULE Ipc --------------------------------
(***************************************************************************)
(* /dev/stroopwafel (ipc.c): the IPC thread of MCP, its clients, and what    *)
(* its requests act on: the two buffers that name the next firmware, which   *)
(* MCP reads when it reloads IOSU (main.c points MCP at them), memory behind  *)
(* its caches, and the boot parameters minute has left in PRSH.               *)
(***************************************************************************)
EXTENDS Cache, FiniteSets

CONSTANTS
  Clients,     \* callers; a call is synchronous
  Requests,    \* Requests[c]: what client c asks for
  QueueLen,    \* slots of messageQueue
  MapResults,  \* what IOSU answers to a mapping
  Boots,       \* the boot parameters, [boot, on_slc, location]
  None         \* an absent value

\* A client that waits waits for something; an IOCTLV has one vector for the addresses
\* and one for each piece of data.
ASSUME IpcAssumption ==
  /\ Addrs \subseteq Nat /\ Absent \notin Code
  /\ \A c \in Clients :
       /\ None \notin Requests[c]
       /\ \A r \in Requests[c] : r.command = "IOCTLV" =>
            /\ r.num_in \in Nat /\ r.addrs \in Seq(Nat) /\ r.odd \in BOOLEAN
            /\ r.data \in Seq(Seq(Code))
            /\ Len(r.data) = IF r.num_in = 0 THEN 0 ELSE r.num_in - 1

VARIABLES
  boot,     \* the parameters of this boot; never changed
  pc,       \* where ipc_thread is
  queue,    \* the messages not received yet
  msg,      \* the message being handled
  i,        \* the loop variable of IOCTLV_WRITE_MEMORY
  res,      \* the result of the handler, and what it put into buffer_io
  waiting,  \* waiting[c]: the request client c waits for
  answer,   \* answer[c]: result and output of client c's last call
  fw,       \* fw_img_path_buffer and fw_img_filename_buffer
  hw,       \* memory and caches
  reload,   \* MCP reading the buffers
  last      \* history: what the last completed IOCTL_SET_FW_PATH asked for

vars == <<boot, pc, queue, msg, i, res, waiting, answer, fw, hw, reload, last>>
thread == <<pc, msg, i, res>>
callers == <<queue, waiting, answer>>

INVALID_ARG == "invalid_arg"
INVALID_SIZE == "invalid_size"
UNKNOWN_VALUE == "unknown_value"
Partial == "partial"       \* a buffer in the middle of strncpy
NoOut == [device |-> None, file |-> None]

NoAnswer == [value |-> None, out |-> NoOut]
NoReload == [pc |-> "idle", path |-> None, name |-> None,
             asked |-> [path |-> None, name |-> None]]

\* init_config: where the firmware is, before anybody calls SET_FW_PATH
MinuteOnSlc(b) == IF b.location # None THEN b.location \in {"slc", "slc_min"} ELSE b.on_slc
MinuteFile(b) == IF b.location \in {"sd_min", "slc_min"} THEN "minute.img" ELSE "fw.img"
BootPath(b) == [path |-> IF MinuteOnSlc(b) THEN "/vol/system/hax" ELSE "/vol/sdcard",
                name |-> MinuteFile(b)]

Init ==
  /\ boot \in Boots
  /\ pc = "init"
  /\ queue = <<>>
  /\ msg = None /\ i = 0
  /\ res = NoAnswer
  /\ waiting = [c \in Clients |-> None]
  /\ answer = [c \in Clients |-> NoAnswer]
  /\ fw = BootPath(boot)
  /\ hw = [ram |-> [a \in Addrs |-> CHOOSE v \in Code : TRUE],
           dc |-> [a \in Addrs |-> Absent], ic |-> [a \in Addrs |-> Absent]]
  /\ reload = NoReload
  /\ last = BootPath(boot)

-----------------------------------------------------------------------------
(* The thread *)

\* iosStartThread is called even if there is no thread; it fails then
ipc_init ==
  /\ pc = "init"
  /\ pc' \in {"register", "off"}
  /\ UNCHANGED <<boot, msg, i, res, callers, fw, hw, reload, last>>

\* if the name is taken the queue is destroyed and the thread ends
register ==
  /\ pc = "register"
  /\ pc' \in {"receive", "off"}
  /\ UNCHANGED <<boot, msg, i, res, callers, fw, hw, reload, last>>

receive ==
  /\ pc = "receive" /\ queue # <<>>
  /\ msg' = Head(queue) /\ queue' = Tail(queue)
  /\ pc' = "dispatch"
  /\ UNCHANGED <<boot, i, res, waiting, answer, fw, hw, reload, last>>

\* res < 0: nothing was received; usleep(10000), once more
receive_error ==
  /\ pc = "receive" /\ pc' = "sleep"
  /\ UNCHANGED <<boot, msg, i, res, callers, fw, hw, reload, last>>
woken ==
  /\ pc = "sleep" /\ pc' = "receive"
  /\ UNCHANGED <<boot, msg, i, res, callers, fw, hw, reload, last>>

Finish(value, out) == pc' = "reply" /\ res' = [value |-> value, out |-> out]

\* OPEN, CLOSE, and the commands the device does not have
dispatch ==
  /\ pc = "dispatch" /\ msg.req.command \notin {"IOCTL", "IOCTLV"}
  /\ Finish(IF msg.req.command \in {"OPEN", "CLOSE"} THEN "0" ELSE UNKNOWN_VALUE, NoOut)
  /\ UNCHANGED <<boot, msg, i, callers, fw, hw, reload, last>>

-----------------------------------------------------------------------------
(* ipc_ioctl. in and io say whether a buffer is missing ("null"), shorter than
   the structure ("short") or big enough ("full"). *)

ioctl(code) == pc = "dispatch" /\ msg.req.command = "IOCTL" /\ msg.req.code = code

GET_API_VERSION ==
  /\ ioctl("GET_API_VERSION")
  /\ Finish(IF msg.req.io = "full" THEN "4" ELSE INVALID_ARG, NoOut)
  /\ UNCHANGED <<boot, msg, i, callers, fw, hw, reload, last>>

MAP_MEMORY ==
  /\ ioctl("MAP_MEMORY")
  /\ \E r \in MapResults : Finish(IF msg.req.in = "full" THEN r ELSE INVALID_ARG, NoOut)
  /\ UNCHANGED <<boot, msg, i, callers, fw, hw, reload, last>>

\* minute_location is the value itself, not a pointer to it: *p_location is
\* whatever is at that address. "sd" is the null pointer.
GET_MINUTE_PATH ==
  /\ ioctl("GET_MINUTE_PATH")
  /\ \E found \in {"sd", "slc", "sd_min", "slc_min"} :
       LET read == IF boot.location \in {None, "sd"} THEN None ELSE found
           b == [boot EXCEPT !.location = read]
       IN  IF msg.req.io = "full"
             THEN Finish("260", [device |-> IF MinuteOnSlc(b) THEN "slc" ELSE "sd",
                                 file |-> MinuteFile(b)])
             ELSE Finish(INVALID_ARG, NoOut)
  /\ UNCHANGED <<boot, msg, i, callers, fw, hw, reload, last>>

GET_PLUGIN_PATH ==
  /\ ioctl("GET_PLUGIN_PATH")
  /\ IF msg.req.io = "full"
       THEN Finish("260", [device |-> CASE boot.boot = "slc" -> "slc"
                                        [] boot.boot = "sd" -> "sd"
                                        [] OTHER -> "unknown",
                           file |-> "ios_plugins"])
       ELSE Finish(INVALID_ARG, NoOut)
  /\ UNCHANGED <<boot, msg, i, callers, fw, hw, reload, last>>

unknown_ioctl ==
  /\ ioctl("unknown")
  /\ Finish(INVALID_ARG, NoOut)
  /\ UNCHANGED <<boot, msg, i, callers, fw, hw, reload, last>>

\* A path has a directory or None (no slash), and a name; fw_img_filename_buffer
\* keeps 31 characters of it.
Cut(p) == IF p.long THEN "cut" ELSE p.name

\* The first strncpy begins.
SET_FW_PATH ==
  /\ ioctl("SET_FW_PATH")
  /\ \/ msg.req.in = "null" /\ Finish("0", NoOut) /\ UNCHANGED fw
     \/ /\ msg.req.in # "null" /\ msg.req.path.dir # None
        /\ fw' = [fw EXCEPT !.path = Partial]
        /\ pc' = "path" /\ UNCHANGED res
     \/ /\ msg.req.in # "null" /\ msg.req.path.dir = None
        /\ fw' = [fw EXCEPT !.name = Partial]
        /\ pc' = "name" /\ UNCHANGED res
  /\ UNCHANGED <<boot, msg, i, callers, hw, reload, last>>

\* with a slash: the path is complete, and the copy of the name begins
set_path ==
  /\ pc = "path" /\ pc' = "name"
  /\ fw' = [path |-> msg.req.path.dir, name |-> Partial]
  /\ UNCHANGED <<boot, msg, i, res, callers, hw, reload, last>>

\* Mutant: without a slash the old path stays.
set_name_mutant ==
  /\ pc = "name"
  /\ fw' = [fw EXCEPT !.name = Cut(msg.req.path)]
  /\ last' = [path |-> IF msg.req.path.dir = None THEN "" ELSE msg.req.path.dir,
              name |-> msg.req.path.name]
  /\ Finish("0", NoOut)
  /\ UNCHANGED <<boot, msg, i, callers, hw, reload>>

\* the name is complete; without a slash the path is emptied after it
set_name ==
  /\ pc = "name"
  /\ fw' = [path |-> IF msg.req.path.dir = None THEN "" ELSE fw.path,
            name |-> Cut(msg.req.path)]
  /\ last' = [path |-> IF msg.req.path.dir = None THEN "" ELSE msg.req.path.dir,
              name |-> msg.req.path.name]
  /\ Finish("0", NoOut)
  /\ UNCHANGED <<boot, msg, i, callers, hw, reload>>

-----------------------------------------------------------------------------
(* ipc_ioctlv. vec[1] is vector[0]: addrs are its words, odd says that its length
   is no multiple of four; the other vectors are data, <<>> if null or empty. *)

ioctlv(code) == pc = "dispatch" /\ msg.req.command = "IOCTLV" /\ msg.req.code = code

WriteArgs(r) ==
  IF r.num_in < 1 \/ r.num_io # 0 THEN INVALID_ARG
  ELSE IF r.odd \/ r.num_in # 1 + Len(r.addrs) THEN INVALID_SIZE
  ELSE "0"

\* Mutant: the loop starts one vector too late.
WRITE_MEMORY_mutant ==
  /\ ioctlv("WRITE_MEMORY")
  /\ IF WriteArgs(msg.req) = "0"
       THEN pc' = "write" /\ i' = 2 /\ UNCHANGED res
       ELSE Finish(WriteArgs(msg.req), NoOut) /\ UNCHANGED i
  /\ UNCHANGED <<boot, msg, callers, fw, hw, reload, last>>

WRITE_MEMORY ==
  /\ ioctlv("WRITE_MEMORY")
  /\ IF WriteArgs(msg.req) = "0"
       THEN pc' = "write" /\ i' = 1 /\ UNCHANGED res
       ELSE Finish(WriteArgs(msg.req), NoOut) /\ UNCHANGED i
  /\ UNCHANGED <<boot, msg, callers, fw, hw, reload, last>>

copy ==
  /\ pc = "write" /\ i <= Len(msg.req.addrs)
  /\ hw' = KERN_memcpy(hw, msg.req.addrs[i], msg.req.data[i])
  /\ pc' = "flush"
  /\ UNCHANGED <<boot, msg, i, res, callers, fw, reload, last>>

flush ==
  /\ pc = "flush"
  /\ hw' = flush_dcache(hw, msg.req.addrs[i], Len(msg.req.data[i]))
  /\ pc' = "write" /\ i' = i + 1
  /\ UNCHANGED <<boot, msg, res, callers, fw, reload, last>>

\* Mutant: the instruction cache is not invalidated.
written_mutant ==
  /\ pc = "write" /\ i > Len(msg.req.addrs)
  /\ Finish("0", NoOut)
  /\ UNCHANGED <<boot, msg, i, callers, fw, hw, reload, last>>

written ==
  /\ pc = "write" /\ i > Len(msg.req.addrs)
  /\ hw' = ic_invalidateall(hw)
  /\ Finish("0", NoOut)
  /\ UNCHANGED <<boot, msg, i, callers, fw, reload, last>>

\* The function called is the caller's business; here it only is fetched.
EXECUTE ==
  /\ ioctlv("EXECUTE")
  /\ IF msg.req.num_in < 1 \/ Len(msg.req.addrs) < 1
       THEN Finish(INVALID_ARG, NoOut) /\ UNCHANGED hw
       ELSE /\ Finish("0", NoOut)
            /\ hw' = IF msg.req.addrs[1] # 0 THEN FillLine(hw, msg.req.addrs[1]) ELSE hw
  /\ UNCHANGED <<boot, msg, i, callers, fw, reload, last>>

unknown_ioctlv ==
  /\ ioctlv("unknown")
  /\ Finish(INVALID_ARG, NoOut)
  /\ UNCHANGED <<boot, msg, i, callers, fw, hw, reload, last>>

-----------------------------------------------------------------------------

\* Mutant: a message with an unknown command is dropped.
iosResourceReply_mutant ==
  /\ pc = "reply" /\ pc' = "receive"
  /\ msg' = None /\ res' = NoAnswer /\ i' = 0
  /\ IF res.value = UNKNOWN_VALUE THEN UNCHANGED <<waiting, answer>>
       ELSE /\ waiting' = [waiting EXCEPT ![msg.from] = None]
            /\ answer' = [answer EXCEPT ![msg.from] = res]
  /\ UNCHANGED <<boot, queue, fw, hw, reload, last>>

iosResourceReply ==
  /\ pc = "reply" /\ pc' = "receive"
  /\ msg' = None /\ res' = NoAnswer /\ i' = 0
  /\ waiting' = [waiting EXCEPT ![msg.from] = None]
  /\ answer' = [answer EXCEPT ![msg.from] = res]
  /\ UNCHANGED <<boot, queue, fw, hw, reload, last>>

Thread ==
  \/ ipc_init \/ register \/ receive \/ receive_error \/ woken
  \/ dispatch
  \/ GET_API_VERSION \/ MAP_MEMORY \/ GET_MINUTE_PATH \/ GET_PLUGIN_PATH
  \/ SET_FW_PATH \/ set_path \/ set_name \/ unknown_ioctl
  \/ WRITE_MEMORY \/ copy \/ flush \/ written \/ EXECUTE \/ unknown_ioctlv
  \/ iosResourceReply

-----------------------------------------------------------------------------
(* The others *)

\* IOSU queues a call of a registered device if there is room.
Call(c) ==
  /\ pc \notin {"init", "register", "off"}
  /\ waiting[c] = None /\ Len(queue) < QueueLen
  /\ \E r \in Requests[c] :
       /\ waiting' = [waiting EXCEPT ![c] = r]
       /\ queue' = Append(queue, [from |-> c, req |-> r])
  /\ answer' = [answer EXCEPT ![c] = NoAnswer]
  /\ UNCHANGED <<boot, thread, fw, hw, reload, last>>

Setting == pc \in {"path", "name"}

\* MCP, another thread, reads the path and then the name. If a SET_FW_PATH is
\* under way at either moment or was completed in between, it may get anything.
ReloadPath ==
  /\ reload.pc = "idle"
  /\ reload' = IF Setting THEN [NoReload EXCEPT !.pc = "mixed"]
               ELSE [NoReload EXCEPT !.pc = "name", !.path = fw.path, !.asked = last]
  /\ UNCHANGED <<boot, thread, callers, fw, hw, last>>
ReloadName ==
  /\ reload.pc = "name"
  /\ reload' = IF Setting \/ reload.asked # last THEN [NoReload EXCEPT !.pc = "mixed"]
               ELSE [reload EXCEPT !.pc = "done", !.name = fw.name]
  /\ UNCHANGED <<boot, thread, callers, fw, hw, last>>
ReloadFailed ==
  /\ reload.pc \in {"done", "mixed"}
  /\ reload' = NoReload
  /\ UNCHANGED <<boot, thread, callers, fw, hw, last>>

\* code elsewhere in the line is run, a dirty line is written back
CacheMoves ==
  /\ \E a \in Addrs : hw' \in {FillLine(hw, a), EvictLine(hw, a)}
  /\ UNCHANGED <<boot, thread, callers, fw, reload, last>>

Next ==
  \/ Thread
  \/ \E c \in Clients : Call(c)
  \/ ReloadPath \/ ReloadName \/ ReloadFailed
  \/ CacheMoves

\* MCP schedules the thread, and receiving fails only now and then.
Spec == Init /\ [][Next]_vars /\ WF_vars(Thread) /\ SF_vars(receive)

-----------------------------------------------------------------------------
(* Properties *)

Errors == {INVALID_ARG, INVALID_SIZE, UNKNOWN_VALUE}

\* The requests ipc.c takes. IPC.md:14-15 and 22 describe the vectors of WRITE_MEMORY
\* and EXECUTE otherwise, and such requests are refused or misread; SET_FW_PATH is not
\* mentioned there, and succeeds without a path too and then does nothing.
Accepted(r) ==
  CASE r.command \in {"OPEN", "CLOSE"} -> TRUE
    [] r.command = "IOCTL" -> \/ r.code = "SET_FW_PATH"
                              \/ r.code = "MAP_MEMORY" /\ r.in = "full"
                              \/ r.code \in {"GET_API_VERSION", "GET_MINUTE_PATH", "GET_PLUGIN_PATH"}
                                 /\ r.io = "full"
    [] r.command = "IOCTLV" -> \/ r.code = "WRITE_MEMORY" /\ ~r.odd /\ r.num_io = 0
                                  /\ r.num_in = 1 + Len(r.data) /\ Len(r.data) = Len(r.addrs)
                               \/ r.code = "EXECUTE" /\ r.num_in >= 1 /\ Len(r.addrs) >= 1
    [] OTHER -> FALSE

Answers(r) ==
  IF ~Accepted(r) THEN Errors
  ELSE CASE r.command = "IOCTL" /\ r.code = "MAP_MEMORY" -> MapResults
         [] r.command = "IOCTL" /\ r.code = "GET_API_VERSION" -> {"4"}
         [] r.command = "IOCTL" /\ r.code \in {"GET_MINUTE_PATH", "GET_PLUGIN_PATH"} -> {"260"}
         [] OTHER -> {"0"}

\* word a is one that piece k of the data goes to
Covers(r, k, a) == a >= r.addrs[k] /\ a - r.addrs[k] < Len(r.data[k])

\* The first n pieces are in memory, later ones over earlier ones.
Written(r, n) ==
  \A a \in Addrs, k \in 1..n :
    Covers(r, k, a) /\ (\A m \in (k + 1)..n : ~Covers(r, m, a)) =>
      Load(hw, a) = r.data[k][a - r.addrs[k] + 1]

\* What request r asks for is the case (what a function that was called has done is
\* not in the model).
InPlace(r) ==
  /\ r.command = "IOCTLV" /\ r.code = "WRITE_MEMORY" /\ Accepted(r) => Written(r, Len(r.addrs))
  /\ r.command = "IOCTL" /\ r.code = "SET_FW_PATH" /\ r.in # "null" =>
       fw = [path |-> IF r.path.dir = None THEN "" ELSE r.path.dir, name |-> Cut(r.path)]

\* /dev/stroopwafel is a resource manager as IOSU expects one: each call returns
\* once; if it says that it succeeded, all that was to be written is in memory, or the
\* buffers name the new firmware; and it is refused only if ipc.c does not take it.
AbstractRpc == INSTANCE Rpc WITH
  result <- [c \in Clients |-> answer[c].value],
  done <- {r \in UNION {Requests[c] : c \in Clients} : InPlace(r)}
ImplementsRpc == AbstractRpc!Spec

\* IPC.md on IOCTLV_WRITE_MEMORY: "After writing, the implementation ensures cache
\* coherency". Unless a write is under way, code is fetched as it was last stored.
CodeCoherent ==
  pc \notin {"write", "flush"} => \A a \in Addrs : Fetch(hw, a) = Load(hw, a)

\* A reload loads the file that the last completed IOCTL_SET_FW_PATH named, or the
\* one minute was loaded from, unless another one comes in its way or the name does
\* not fit: no part of an older path is left. One that another comes in the way of
\* is "mixed": nothing keeps MCP from reading the buffers in the middle of it.
ReloadUsesPath ==
  reload.pc = "done" =>
    /\ reload.path = reload.asked.path
    /\ reload.name \in {reload.asked.name, "cut"}

\* Every call returns, whatever it asks for and however often receiving fails.
Answered == \A c \in Clients : waiting[c] # None ~> waiting[c] = None
=============================================================================
