----------------------------- MODULE IpcProofs -----------------------------
(***************************************************************************)
(* Proofs about Ipc: for any number of clients, any requests, any memory,     *)
(* any cache line and any length of the queue.                                *)
(***************************************************************************)
EXTENDS Ipc, TLAPS

\* where the thread has a message
Busy == {"dispatch", "path", "name", "write", "flush", "reply"}

-----------------------------------------------------------------------------
(* Caches *)

\* The data cache holds nothing but the piece that is being written, and outside a
\* write the instruction cache holds what is in RAM.
Coherent ==
  /\ hw = [ram |-> hw.ram, dc |-> hw.dc, ic |-> hw.ic]
  /\ pc # "flush" => \A a \in Addrs : hw.dc[a] = Absent
  /\ pc = "flush" =>
       \A a \in Addrs : \/ hw.dc[a] = Absent
                        \/ /\ a >= msg.req.addrs[i]
                           /\ a - msg.req.addrs[i] < Len(msg.req.data[i])
  /\ pc \notin {"write", "flush"} => \A a \in Addrs : hw.ic[a] \in {Absent, hw.ram[a]}

\* the thread's steps that leave memory alone and do not write it
QuietSteps ==
  \/ ipc_init \/ register \/ receive \/ receive_error \/ woken \/ dispatch
  \/ GET_API_VERSION \/ MAP_MEMORY \/ GET_MINUTE_PATH \/ GET_PLUGIN_PATH
  \/ SET_FW_PATH \/ set_path \/ set_name \/ unknown_ioctl \/ unknown_ioctlv
  \/ iosResourceReply

\* They are no part of a write.
LEMMA QuietLemma ==
  ASSUME QuietSteps
  PROVE  hw' = hw /\ pc \notin {"write", "flush"} /\ pc' \notin {"write", "flush"}
BY DEF QuietSteps, ipc_init, register, receive, receive_error, woken, dispatch,
       GET_API_VERSION, MAP_MEMORY, GET_MINUTE_PATH, GET_PLUGIN_PATH, SET_FW_PATH, set_path,
       set_name, unknown_ioctl, unknown_ioctlv, iosResourceReply, Finish, ioctl, ioctlv

\* Filling a line of the instruction cache takes words from RAM.
LEMMA FillWord ==
  ASSUME hw = [ram |-> hw.ram, dc |-> hw.dc, ic |-> hw.ic], NEW a
  PROVE  LET h == FillLine(hw, a)
         IN  /\ h = [ram |-> hw.ram, dc |-> hw.dc, ic |-> h.ic]
             /\ \A b \in Addrs : h.ic[b] \in {hw.ram[b], hw.ic[b]}
<1> DEFINE h == FillLine(hw, a)
           ic == [b \in Addrs |-> IF LineOf(b) = LineOf(a) THEN hw.ram[b] ELSE hw.ic[b]]
<1>1. h = [ram |-> hw.ram, dc |-> hw.dc, ic |-> ic]
  BY DEF FillLine
<1>2. \A b \in Addrs : ic[b] \in {hw.ram[b], hw.ic[b]}
  OBVIOUS
<1> HIDE DEF ic, h
<1>3. h.ic = ic
  BY <1>1
<1> QED
  BY <1>1, <1>2, <1>3 DEF h

\* Cleaning a line of the data cache forgets its words, changes RAM only where the
\* cache held something, and does not change what a load sees.
LEMMA CleanWord ==
  ASSUME hw = [ram |-> hw.ram, dc |-> hw.dc, ic |-> hw.ic], NEW S
  PROVE  LET h == Clean(hw, S)
         IN  /\ h = [ram |-> h.ram, dc |-> h.dc, ic |-> hw.ic]
             /\ \A b \in Addrs : h.dc[b] \in {Absent, hw.dc[b]}
             /\ \A b \in Addrs \cap S : h.dc[b] = Absent
             /\ \A b \in Addrs : hw.dc[b] = Absent => h.ram[b] = hw.ram[b]
             /\ \A b \in Addrs : Load(h, b) = Load(hw, b)
<1> DEFINE h == Clean(hw, S)
           inS(a) == \E b \in S : LineOf(a) = LineOf(b)
           ram == [b \in Addrs |-> IF inS(b) THEN Load(hw, b) ELSE hw.ram[b]]
           dc == [b \in Addrs |-> IF inS(b) THEN Absent ELSE hw.dc[b]]
<1>1. h = [hw EXCEPT !.ram = ram, !.dc = dc]
  BY Zenon DEF Clean
<1>2. \A b \in Addrs : dc[b] \in {Absent, hw.dc[b]}
  OBVIOUS
<1>3. \A b \in Addrs \cap S : dc[b] = Absent
  OBVIOUS
<1>4. \A b \in Addrs : hw.dc[b] = Absent => ram[b] = hw.ram[b]
  BY DEF Load
<1>7. \A b \in Addrs : (IF dc[b] # Absent THEN dc[b] ELSE ram[b]) = Load(hw, b)
  BY DEF Load
<1> HIDE DEF ram, dc, h
<1>5. h = [ram |-> ram, dc |-> dc, ic |-> hw.ic]
  BY <1>1
<1>6. h.ram = ram /\ h.dc = dc
  BY <1>5
<1>8. \A b \in Addrs : Load(h, b) = Load(hw, b)
  BY <1>6, <1>7 DEF Load
<1> QED
  BY <1>2, <1>3, <1>4, <1>5, <1>6, <1>8 DEF h

\* Every step keeps the caches in order.
LEMMA CoherentStep == Coherent /\ [Next]_vars => Coherent'
<1> SUFFICES ASSUME Coherent, [Next]_vars PROVE Coherent'
  OBVIOUS
<1>1. CASE QuietSteps
  BY <1>1, QuietLemma DEF Coherent
<1>2. CASE WRITE_MEMORY
  BY <1>2 DEF WRITE_MEMORY, ioctlv, Finish, Coherent
<1>3. CASE copy
  <2> DEFINE dest == msg.req.addrs[i]
             data == msg.req.data[i]
             dc == [a \in Addrs |-> IF a >= dest /\ a - dest < Len(data)
                                      THEN data[a - dest + 1] ELSE hw.dc[a]]
  <2>1. pc = "write" /\ pc' = "flush" /\ UNCHANGED <<msg, i>>
        /\ hw' = KERN_memcpy(hw, dest, data)
    BY <1>3 DEF copy
  <2>2. hw' = [ram |-> hw.ram, dc |-> dc, ic |-> hw.ic]
    BY <2>1 DEF KERN_memcpy, Coherent
  <2>3. \A a \in Addrs : dc[a] = Absent \/ (a >= dest /\ a - dest < Len(data))
    BY <2>1 DEF Coherent
  <2> HIDE DEF dc
  <2>4. hw'.dc = dc /\ hw' = [ram |-> hw'.ram, dc |-> hw'.dc, ic |-> hw'.ic]
    BY <2>2
  <2> QED
    BY <2>1, <2>3, <2>4 DEF Coherent
<1>4. CASE flush
  <2> DEFINE S == {a \in Addrs : a >= msg.req.addrs[i] /\ a - msg.req.addrs[i] < Len(msg.req.data[i])}
  <2>1. pc = "flush" /\ pc' = "write" /\ hw' = Clean(hw, S)
    BY <1>4 DEF flush, flush_dcache
  <2>2. /\ hw' = [ram |-> hw'.ram, dc |-> hw'.dc, ic |-> hw.ic]
        /\ \A b \in Addrs : hw'.dc[b] \in {Absent, hw.dc[b]}
        /\ \A b \in Addrs \cap S : hw'.dc[b] = Absent
    BY ZenonT(60), <2>1, CleanWord DEF Coherent
  <2>3. \A b \in Addrs : hw.dc[b] = Absent \/ b \in S
    BY <2>1 DEF Coherent
  <2>4. \A b \in Addrs : hw'.dc[b] = Absent
    BY <2>2, <2>3
  <2>5. hw' = [ram |-> hw'.ram, dc |-> hw'.dc, ic |-> hw'.ic]
    BY <2>2
  <2> QED
    BY <2>1, <2>4, <2>5 DEF Coherent
<1>5. CASE written
  <2>1. pc = "write" /\ pc' = "reply" /\ hw' = ic_invalidateall(hw)
    BY <1>5 DEF written, Finish
  <2> DEFINE ic == [a \in Addrs |-> Absent]
  <2>2. hw' = [ram |-> hw.ram, dc |-> hw.dc, ic |-> ic]
    BY <2>1 DEF ic_invalidateall, Coherent
  <2>3. \A a \in Addrs : ic[a] = Absent
    OBVIOUS
  <2> HIDE DEF ic
  <2>4. hw'.ic = ic /\ hw'.dc = hw.dc /\ hw' = [ram |-> hw'.ram, dc |-> hw'.dc, ic |-> hw'.ic]
    BY <2>2
  <2> QED
    BY <2>1, <2>3, <2>4 DEF Coherent
<1>6. ASSUME NEW a, hw' = FillLine(hw, a), pc # "flush" \/ UNCHANGED <<msg, i>>,
             pc' = pc \/ {pc, pc'} \cap {"write", "flush"} = {}
      PROVE  Coherent'
  <2>1. /\ hw' = [ram |-> hw.ram, dc |-> hw.dc, ic |-> hw'.ic]
        /\ \A b \in Addrs : hw'.ic[b] \in {hw.ram[b], hw.ic[b]}
    BY <1>6, FillWord DEF Coherent
  <2>2. hw'.ram = hw.ram /\ hw'.dc = hw.dc
        /\ hw' = [ram |-> hw'.ram, dc |-> hw'.dc, ic |-> hw'.ic]
    BY <2>1
  <2> QED
    BY <1>6, <2>1, <2>2 DEF Coherent
<1>7. CASE EXECUTE
  <2>1. pc = "dispatch" /\ pc' = "reply"
        /\ (hw' = hw \/ \E a : hw' = FillLine(hw, a))
    BY <1>7 DEF EXECUTE, ioctlv, Finish
  <2>2. CASE hw' = hw
    BY <2>1, <2>2 DEF Coherent
  <2> QED
    BY <1>6, <2>1, <2>2
<1>8. CASE CacheMoves
  <2>1. UNCHANGED <<pc, msg, i>>
    BY <1>8 DEF CacheMoves, thread
  <2>2. PICK a \in Addrs : hw' = FillLine(hw, a) \/ hw' = Clean(hw, {a})
    BY <1>8 DEF CacheMoves, EvictLine
  <2>3. CASE hw' = Clean(hw, {a})
    <3>1. /\ hw' = [ram |-> hw'.ram, dc |-> hw'.dc, ic |-> hw.ic]
          /\ \A b \in Addrs : hw'.dc[b] \in {Absent, hw.dc[b]}
          /\ \A b \in Addrs : hw.dc[b] = Absent => hw'.ram[b] = hw.ram[b]
      BY <2>3, CleanWord DEF Coherent
    <3>2. hw'.ic = hw.ic /\ hw' = [ram |-> hw'.ram, dc |-> hw'.dc, ic |-> hw'.ic]
      BY <3>1
    <3> QED
      BY <2>1, <3>1, <3>2 DEF Coherent
  <2> QED
    BY <1>6, <2>1, <2>2, <2>3
<1>9. CASE \/ \E c \in Clients : Call(c)
           \/ ReloadPath \/ ReloadName \/ ReloadFailed \/ UNCHANGED vars
  <2>1. UNCHANGED <<pc, msg, i, hw>>
    BY <1>9 DEF Call, ReloadPath, ReloadName, ReloadFailed, thread, vars
  <2> QED
    BY <2>1 DEF Coherent
<1> QED
  BY <1>1, <1>2, <1>3, <1>4, <1>5, <1>7, <1>8, <1>9 DEF Next, Thread, QuietSteps

\* Whatever is written, in whatever order the caches move: code is fetched as it was
\* last stored, unless a write is under way.
THEOREM CoherentCode == Spec => []CodeCoherent
<1>1. Init => Coherent
  BY DEF Init, Coherent
<1>2. Coherent => CodeCoherent
  BY DEF Coherent, CodeCoherent, Fetch, Load
<1> QED
  BY <1>1, <1>2, CoherentStep, PTL DEF Spec

-----------------------------------------------------------------------------
(* The firmware's path *)

\* Between two SET_FW_PATH the buffers hold what the last one asked for; in the middle
\* of one the path is already the new one when the name is copied. What a reload
\* has read of the path was asked for.
Pathed ==
  /\ fw = [path |-> fw.path, name |-> fw.name]
  /\ reload = [pc |-> reload.pc, path |-> reload.path, name |-> reload.name,
               asked |-> reload.asked]
  /\ ~Setting => fw.path = last.path /\ fw.name \in {last.name, "cut"}
  /\ pc = "name" /\ msg.req.path.dir # None => fw.path = msg.req.path.dir
  /\ reload.pc \in {"name", "done"} => reload.path = reload.asked.path
  /\ reload.pc = "done" => reload.name \in {reload.asked.name, "cut"}

\* Every step keeps the buffers and the reload in order.
LEMMA PathedStep == Pathed /\ [Next]_vars => Pathed'
<1> SUFFICES ASSUME Pathed, [Next]_vars PROVE Pathed'
  OBVIOUS
<1> USE DEF Pathed, Setting
<1>1. CASE SET_FW_PATH
  <2>1. pc = "dispatch" /\ UNCHANGED <<msg, reload, last>>
    BY <1>1 DEF SET_FW_PATH, ioctl
  <2>2. CASE pc' = "reply" /\ UNCHANGED fw
    BY <2>1, <2>2
  <2>3. CASE pc' = "path" /\ fw' = [fw EXCEPT !.path = Partial]
    BY <2>1, <2>3
  <2>4. CASE pc' = "name" /\ fw' = [fw EXCEPT !.name = Partial] /\ msg.req.path.dir = None
    BY <2>1, <2>4
  <2> QED
    BY <1>1, <2>2, <2>3, <2>4 DEF SET_FW_PATH, Finish
<1>2. CASE set_path
  BY <1>2 DEF set_path
<1>3. CASE set_name
  <2>1. /\ pc = "name" /\ pc' = "reply" /\ UNCHANGED <<msg, reload>>
        /\ fw' = [path |-> IF msg.req.path.dir = None THEN "" ELSE fw.path,
                  name |-> Cut(msg.req.path)]
        /\ last' = [path |-> IF msg.req.path.dir = None THEN "" ELSE msg.req.path.dir,
                    name |-> msg.req.path.name]
    BY <1>3 DEF set_name, Finish
  <2>2. Cut(msg.req.path) \in {msg.req.path.name, "cut"}
    BY DEF Cut
  <2> QED
    BY <2>1, <2>2
<1>4. CASE ReloadPath
  <2>1. reload.pc = "idle" /\ UNCHANGED <<pc, msg, fw, last>>
    BY <1>4 DEF ReloadPath, thread
  <2>2. CASE Setting
    BY <1>4, <2>1, <2>2 DEF ReloadPath, NoReload
  <2>3. CASE ~Setting
    <3>1. reload' = [pc |-> "name", path |-> fw.path, name |-> None, asked |-> last]
      BY <1>4, <2>3 DEF ReloadPath, NoReload
    <3> QED
      BY <2>1, <2>3, <3>1
  <2> QED
    BY <2>2, <2>3
<1>5. CASE ReloadName
  <2>1. reload.pc = "name" /\ UNCHANGED <<pc, msg, fw, last>>
    BY <1>5 DEF ReloadName, thread
  <2>2. CASE Setting \/ reload.asked # last
    BY <1>5, <2>1, <2>2 DEF ReloadName, NoReload
  <2>3. CASE ~Setting /\ reload.asked = last
    <3>1. reload' = [pc |-> "done", path |-> reload.path, name |-> fw.name,
                     asked |-> reload.asked]
      BY <1>5, <2>3 DEF ReloadName
    <3> QED
      BY <2>1, <2>3, <3>1
  <2> QED
    BY <2>2, <2>3
<1>6. CASE ReloadFailed
  BY <1>6 DEF ReloadFailed, NoReload, thread
<1>7. CASE CacheMoves \/ (\E c \in Clients : Call(c)) \/ UNCHANGED vars
  <2>1. UNCHANGED <<pc, msg, fw, reload, last>>
    BY <1>7 DEF CacheMoves, Call, vars, thread
  <2> QED
    BY <2>1
<1>8. CASE \/ ipc_init \/ register \/ receive \/ receive_error \/ woken \/ dispatch
           \/ GET_API_VERSION \/ MAP_MEMORY \/ GET_MINUTE_PATH \/ GET_PLUGIN_PATH
           \/ unknown_ioctl \/ WRITE_MEMORY \/ copy \/ flush \/ written \/ EXECUTE
           \/ unknown_ioctlv \/ iosResourceReply
  <2>1. ~Setting /\ ~Setting' /\ UNCHANGED <<fw, reload, last>>
    BY <1>8 DEF ipc_init, register, receive, receive_error, woken, dispatch,
         GET_API_VERSION, MAP_MEMORY, GET_MINUTE_PATH, GET_PLUGIN_PATH, unknown_ioctl,
         WRITE_MEMORY, copy, flush, written, EXECUTE, unknown_ioctlv, iosResourceReply,
         Finish, ioctl, ioctlv
  <2> QED
    BY <2>1
<1> QED
  BY <1>1, <1>2, <1>3, <1>4, <1>5, <1>6, <1>7, <1>8 DEF Next, Thread

\* Whatever paths are set while MCP reloads: a reload that was not disturbed loads the
\* file the last completed IOCTL_SET_FW_PATH named, or the one of the boot.
THEOREM ReloadsPath == Spec => []ReloadUsesPath
<1>1. Init => Pathed
  BY DEF Init, Pathed, BootPath, NoReload
<1>2. Pathed => ReloadUsesPath
  BY DEF Pathed, ReloadUsesPath
<1> QED
  BY <1>1, <1>2, PathedStep, PTL DEF Spec

-----------------------------------------------------------------------------
(* The calls *)

Messages == [from : Clients, req : UNION {Requests[c] : c \in Clients}]

\* m is the call its client waits for, w being what the clients wait for
Open(m, w) == m.req \in Requests[m.from] /\ w[m.from] = m.req

\* Every message not answered yet is what its client waits for, and a client has only
\* one: in the queue or with the thread.
Queued ==
  /\ waiting = [c \in Clients |-> waiting[c]]
  /\ answer = [c \in Clients |-> answer[c]]
  /\ queue \in Seq(Messages)
  /\ \A k \in 1..Len(queue) : Open(queue[k], waiting)
  /\ \A j, k \in 1..Len(queue) : queue[j].from = queue[k].from => j = k
  /\ pc \in Busy =>
       /\ msg \in Messages /\ Open(msg, waiting)
       /\ \A k \in 1..Len(queue) : queue[k].from # msg.from

\* What the thread will answer is an answer to its message.
Handled ==
  /\ pc \in {"path", "name"} => msg.req.command = "IOCTL" /\ msg.req.code = "SET_FW_PATH"
  /\ pc \in {"write", "flush"} =>
       /\ msg.req.command = "IOCTLV" /\ msg.req.code = "WRITE_MEMORY"
       /\ WriteArgs(msg.req) = "0"
  /\ pc = "reply" => res.value \in Answers(msg.req)

Served == Queued /\ Handled

\* the thread's steps between receiving a message and answering it
Handlers ==
  \/ dispatch
  \/ GET_API_VERSION \/ MAP_MEMORY \/ GET_MINUTE_PATH \/ GET_PLUGIN_PATH
  \/ SET_FW_PATH \/ set_path \/ set_name \/ unknown_ioctl
  \/ WRITE_MEMORY \/ copy \/ flush \/ written \/ EXECUTE \/ unknown_ioctlv

\* A request that ipc.c takes succeeds and one that it does not fails: what each
\* handler answers.
LEMMA AnswerIoctl ==
  ASSUME NEW r, r.command = "IOCTL"
  PROVE  /\ r.code = "SET_FW_PATH" => "0" \in Answers(r)
         /\ r.code = "GET_API_VERSION" =>
              (IF r.io = "full" THEN "4" ELSE INVALID_ARG) \in Answers(r)
         /\ r.code = "MAP_MEMORY" => \A x \in MapResults :
              (IF r.in = "full" THEN x ELSE INVALID_ARG) \in Answers(r)
         /\ r.code \in {"GET_MINUTE_PATH", "GET_PLUGIN_PATH"} =>
              (IF r.io = "full" THEN "260" ELSE INVALID_ARG) \in Answers(r)
         /\ r.code = "unknown" => INVALID_ARG \in Answers(r)
<1> USE DEF Answers, Accepted, INVALID_ARG, Errors
<1>1. CASE r.code = "SET_FW_PATH"
  BY <1>1
<1>2. CASE r.code = "GET_API_VERSION"
  BY <1>2
<1>3. CASE r.code = "MAP_MEMORY"
  BY <1>3
<1>4. CASE r.code \in {"GET_MINUTE_PATH", "GET_PLUGIN_PATH"}
  BY <1>4
<1>5. CASE r.code = "unknown"
  BY <1>5
<1> QED
  BY <1>1, <1>2, <1>3, <1>4, <1>5

\* ... and the vector requests.
LEMMA AnswerIoctlv ==
  ASSUME NEW c \in Clients, NEW r \in Requests[c], r.command = "IOCTLV"
  PROVE  /\ r.code = "WRITE_MEMORY" => WriteArgs(r) \in Answers(r)
         /\ r.code = "EXECUTE" =>
              (IF r.num_in < 1 \/ Len(r.addrs) < 1 THEN INVALID_ARG ELSE "0") \in Answers(r)
         /\ r.code = "unknown" => INVALID_ARG \in Answers(r)
<1>1. /\ r.num_in \in Nat /\ Len(r.addrs) \in Nat /\ r.odd \in BOOLEAN
      /\ Len(r.data) = IF r.num_in = 0 THEN 0 ELSE r.num_in - 1
  BY IpcAssumption
<1>2. ASSUME r.code = "WRITE_MEMORY" PROVE WriteArgs(r) \in Answers(r)
  <2>1. Accepted(r) <=> ~r.odd /\ r.num_io = 0 /\ r.num_in = 1 + Len(r.data)
                          /\ Len(r.data) = Len(r.addrs)
    BY <1>2 DEF Accepted
  <2>2. CASE Accepted(r)
    <3>1. WriteArgs(r) = "0"
      BY <1>1, <2>1, <2>2 DEF WriteArgs
    <3>2. Answers(r) = {"0"}
      BY <2>2 DEF Answers
    <3> QED
      BY <3>1, <3>2
  <2>3. CASE ~Accepted(r)
    <3>1. WriteArgs(r) \in {INVALID_ARG, INVALID_SIZE}
      BY <1>1, <2>1, <2>3 DEF WriteArgs
    <3>2. Answers(r) = {INVALID_ARG, INVALID_SIZE, UNKNOWN_VALUE}
      BY <2>3 DEF Answers, Errors
    <3> QED
      BY <3>1, <3>2
  <2> QED
    BY <2>2, <2>3
<1>3. ASSUME r.code = "EXECUTE"
      PROVE  (IF r.num_in < 1 \/ Len(r.addrs) < 1 THEN INVALID_ARG ELSE "0") \in Answers(r)
  <2>1. Accepted(r) <=> r.num_in >= 1 /\ Len(r.addrs) >= 1
    BY <1>3 DEF Accepted
  <2>2. Answers(r) = IF Accepted(r) THEN {"0"} ELSE {INVALID_ARG, INVALID_SIZE, UNKNOWN_VALUE}
    BY DEF Answers, Errors
  <2> QED
    BY <1>1, <2>1, <2>2
<1>4. ASSUME r.code = "unknown" PROVE INVALID_ARG \in Answers(r)
  BY <1>4 DEF Answers, Accepted, Errors
<1> QED
  BY <1>2, <1>3, <1>4

\* ... and the other commands.
LEMMA AnswerOther ==
  ASSUME NEW r, r.command \notin {"IOCTL", "IOCTLV"}
  PROVE  (IF r.command \in {"OPEN", "CLOSE"} THEN "0" ELSE UNKNOWN_VALUE) \in Answers(r)
<1>1. Accepted(r) <=> r.command \in {"OPEN", "CLOSE"}
  BY DEF Accepted
<1>2. Answers(r) = IF Accepted(r) THEN {"0"} ELSE {INVALID_ARG, INVALID_SIZE, UNKNOWN_VALUE}
  BY DEF Answers, Errors
<1> QED
  BY <1>1, <1>2

\* A handler keeps its message and comes to an answer that fits it.
LEMMA HandlerStep ==
  ASSUME Served, Handlers
  PROVE  /\ pc \in Busy /\ pc' \in Busy /\ UNCHANGED <<msg, queue, waiting, answer>>
         /\ Handled'
<1>1. pc \in Busy /\ pc' \in Busy /\ UNCHANGED <<msg, queue, waiting, answer>>
  BY DEF Handlers, dispatch, GET_API_VERSION, MAP_MEMORY, GET_MINUTE_PATH, GET_PLUGIN_PATH,
         SET_FW_PATH, set_path, set_name, unknown_ioctl, WRITE_MEMORY, copy, flush, written,
         EXECUTE, unknown_ioctlv, Finish, ioctl, ioctlv, Busy, callers
<1>2. PICK c \in Clients : msg.req \in Requests[c]
  BY <1>1 DEF Served, Queued, Open, Messages
<1>3. Handled'
  <2> DEFINE r == msg.req
  <2>1. ASSUME pc' = "reply", res'.value \in Answers(r) PROVE Handled'
    BY <1>1, <2>1 DEF Handled
  <2>2. CASE dispatch
    <3>1. /\ pc' = "reply" /\ r.command \notin {"IOCTL", "IOCTLV"}
          /\ res'.value = IF r.command \in {"OPEN", "CLOSE"} THEN "0" ELSE UNKNOWN_VALUE
      BY <2>2 DEF dispatch, Finish
    <3> QED
      BY <2>1, <3>1, AnswerOther
  <2>3. CASE GET_API_VERSION
    <3>1. /\ pc' = "reply" /\ r.command = "IOCTL" /\ r.code = "GET_API_VERSION"
          /\ res'.value = IF r.io = "full" THEN "4" ELSE INVALID_ARG
      BY <2>3 DEF GET_API_VERSION, Finish, ioctl
    <3> QED
      BY <2>1, <3>1, AnswerIoctl
  <2>4. CASE MAP_MEMORY
    <3>1. /\ pc' = "reply" /\ r.command = "IOCTL" /\ r.code = "MAP_MEMORY"
          /\ \E x \in MapResults : res'.value = IF r.in = "full" THEN x ELSE INVALID_ARG
      BY <2>4 DEF MAP_MEMORY, Finish, ioctl
    <3>2. PICK x \in MapResults : res'.value = IF r.in = "full" THEN x ELSE INVALID_ARG
      BY <3>1
    <3>3. (IF r.in = "full" THEN x ELSE INVALID_ARG) \in Answers(r)
      BY <3>1, AnswerIoctl
    <3> QED
      BY <2>1, <3>1, <3>2, <3>3
  <2>5. CASE GET_MINUTE_PATH \/ GET_PLUGIN_PATH
    <3>1. /\ pc' = "reply" /\ r.command = "IOCTL"
          /\ r.code \in {"GET_MINUTE_PATH", "GET_PLUGIN_PATH"}
          /\ res'.value = IF r.io = "full" THEN "260" ELSE INVALID_ARG
      BY <2>5 DEF GET_MINUTE_PATH, GET_PLUGIN_PATH, Finish, ioctl
    <3> QED
      BY <2>1, <3>1, AnswerIoctl
  <2>6. CASE SET_FW_PATH
    <3>1. /\ r.command = "IOCTL" /\ r.code = "SET_FW_PATH"
          /\ pc' \in {"path", "name"} \/ (pc' = "reply" /\ res'.value = "0")
      BY <2>6 DEF SET_FW_PATH, Finish, ioctl
    <3>2. CASE pc' \in {"path", "name"}
      BY <1>1, <3>1, <3>2 DEF Handled
    <3> QED
      BY <2>1, <3>1, <3>2, AnswerIoctl
  <2>7. CASE set_path
    BY <1>1, <2>7 DEF set_path, Served, Handled
  <2>8. CASE set_name
    <3>1. r.command = "IOCTL" /\ r.code = "SET_FW_PATH" /\ pc' = "reply" /\ res'.value = "0"
      BY <2>8 DEF set_name, Finish, Served, Handled
    <3> QED
      BY <2>1, <3>1, AnswerIoctl
  <2>9. CASE unknown_ioctl
    <3>1. /\ r.command = "IOCTL" /\ r.code = "unknown" /\ pc' = "reply"
          /\ res'.value = INVALID_ARG
      BY <2>9 DEF unknown_ioctl, Finish, ioctl
    <3> QED
      BY <2>1, <3>1, AnswerIoctl
  <2>10. CASE WRITE_MEMORY
    <3>1. /\ r.command = "IOCTLV" /\ r.code = "WRITE_MEMORY"
          /\ \/ pc' = "write" /\ WriteArgs(r) = "0"
             \/ pc' = "reply" /\ res'.value = WriteArgs(r)
      BY <2>10 DEF WRITE_MEMORY, Finish, ioctlv
    <3>2. CASE pc' = "write" /\ WriteArgs(r) = "0"
      BY <1>1, <3>1, <3>2 DEF Handled
    <3> QED
      BY <1>2, <2>1, <3>1, <3>2, AnswerIoctlv
  <2>11. CASE copy \/ flush
    BY <1>1, <2>11 DEF copy, flush, Served, Handled
  <2>12. CASE written
    <3>1. /\ r.command = "IOCTLV" /\ r.code = "WRITE_MEMORY" /\ pc' = "reply"
          /\ res'.value = "0" /\ WriteArgs(r) = "0"
      BY <2>12 DEF written, Finish, Served, Handled
    <3> QED
      BY <1>2, <2>1, <3>1, AnswerIoctlv
  <2>13. CASE EXECUTE
    <3>1. /\ r.command = "IOCTLV" /\ r.code = "EXECUTE" /\ pc' = "reply"
          /\ res'.value = IF r.num_in < 1 \/ Len(r.addrs) < 1 THEN INVALID_ARG ELSE "0"
      BY <2>13 DEF EXECUTE, Finish, ioctlv
    <3> QED
      BY <1>2, <2>1, <3>1, AnswerIoctlv
  <2>14. CASE unknown_ioctlv
    <3>1. /\ r.command = "IOCTLV" /\ r.code = "unknown" /\ pc' = "reply"
          /\ res'.value = INVALID_ARG
      BY <2>14 DEF unknown_ioctlv, Finish, ioctlv
    <3> QED
      BY <1>2, <2>1, <3>1, AnswerIoctlv
  <2> QED
    BY <2>2, <2>3, <2>4, <2>5, <2>6, <2>7, <2>8, <2>9, <2>10, <2>11, <2>12, <2>13, <2>14
       DEF Handlers
<1> QED
  BY <1>1, <1>3

\* the other steps, those that neither call nor answer nor receive
Elsewhere ==
  \/ ipc_init \/ register \/ receive_error \/ woken
  \/ ReloadPath \/ ReloadName \/ ReloadFailed \/ CacheMoves

\* They leave the calls alone.
LEMMA ElsewhereStep ==
  ASSUME Elsewhere \/ UNCHANGED vars
  PROVE  /\ UNCHANGED <<msg, res, queue, waiting, answer>>
         /\ pc' = pc \/ pc' \notin Busy
BY DEF Elsewhere, ipc_init, register, receive_error, woken, ReloadPath, ReloadName,
       ReloadFailed, CacheMoves, Busy, callers, thread, vars

\* Every step keeps account of the calls.
LEMMA ServedStep == Served /\ [Next]_vars => Served'
<1> SUFFICES ASSUME Served, [Next]_vars PROVE Served'
  OBVIOUS
<1>1. CASE Elsewhere \/ UNCHANGED vars
  BY <1>1, ElsewhereStep DEF Served, Queued, Handled, Open, Busy
<1>2. CASE Handlers
  <2>1. /\ pc \in Busy /\ pc' \in Busy /\ UNCHANGED <<msg, queue, waiting, answer>>
        /\ Handled'
    BY <1>2, HandlerStep
  <2>2. Queued'
    BY <2>1 DEF Served, Queued, Open
  <2> QED
    BY <2>1, <2>2 DEF Served
<1>3. CASE receive
  <2>1. /\ queue \in Seq(Messages) /\ Len(queue) > 0 /\ msg' = queue[1]
        /\ queue' = Tail(queue) /\ pc' = "dispatch" /\ UNCHANGED <<waiting, answer>>
    BY <1>3 DEF receive, Served, Queued
  <2>2. /\ queue' \in Seq(Messages) /\ Len(queue') = Len(queue) - 1
        /\ \A k \in 1..Len(queue') : queue'[k] = queue[k + 1] /\ k + 1 \in 1..Len(queue)
    BY <2>1
  <2>3. msg' \in Messages /\ 1 \in 1..Len(queue)
    BY <2>1
  <2>4. \A k \in 1..Len(queue) : Open(queue[k], waiting)
    BY DEF Served, Queued
  <2>5. \A j, k \in 1..Len(queue) : queue[j].from = queue[k].from => j = k
    BY DEF Served, Queued
  <2>6. Open(msg', waiting') /\ \A k \in 1..Len(queue') : Open(queue'[k], waiting')
    BY <2>1, <2>2, <2>3, <2>4
  <2>7. \A k \in 1..Len(queue') : queue'[k].from # msg'.from
    BY <2>1, <2>2, <2>3, <2>5
  <2>8. \A j, k \in 1..Len(queue') : queue'[j].from = queue'[k].from => j = k
    <3> TAKE j, k \in 1..Len(queue')
    <3>1. queue'[j] = queue[j + 1] /\ queue'[k] = queue[k + 1]
          /\ j + 1 \in 1..Len(queue) /\ k + 1 \in 1..Len(queue)
      BY <2>2
    <3>2. queue[j + 1].from = queue[k + 1].from => j + 1 = k + 1
      BY <2>5, <3>1
    <3> QED
      BY <3>1, <3>2
  <2>9. waiting' = [c \in Clients |-> waiting'[c]] /\ answer' = [c \in Clients |-> answer'[c]]
    BY <2>1 DEF Served, Queued
  <2>10. Queued'
    BY <2>2, <2>3, <2>6, <2>7, <2>8, <2>9 DEF Queued
  <2>11. Handled'
    BY <2>1 DEF Handled
  <2> QED
    BY <2>10, <2>11 DEF Served
<1>4. CASE iosResourceReply
  <2>1. /\ pc = "reply" /\ pc' = "receive" /\ queue' = queue
        /\ waiting' = [waiting EXCEPT ![msg.from] = None]
        /\ answer' = [answer EXCEPT ![msg.from] = res]
    BY <1>4 DEF iosResourceReply
  <2>2. /\ msg.from \in Clients
        /\ \A k \in 1..Len(queue) : queue[k].from # msg.from /\ queue[k] \in Messages
    <3>1. pc \in Busy
      BY <2>1 DEF Busy
    <3>2. msg \in Messages /\ \A k \in 1..Len(queue) : queue[k].from # msg.from
      BY <3>1 DEF Served, Queued
    <3>3. queue \in Seq(Messages)
      BY DEF Served, Queued
    <3>4. \A k \in 1..Len(queue) : queue[k] \in Messages
      BY <3>3
    <3> QED
      BY <3>2, <3>4 DEF Messages
  <2>3. \A k \in 1..Len(queue) : waiting'[queue[k].from] = waiting[queue[k].from]
    BY <2>1, <2>2 DEF Served, Queued, Messages
  <2>4. waiting' = [c \in Clients |-> waiting'[c]] /\ answer' = [c \in Clients |-> answer'[c]]
    BY <2>1, <2>2 DEF Served, Queued
  <2>5. Queued'
    BY <2>1, <2>3, <2>4 DEF Served, Queued, Open, Busy
  <2>6. Handled'
    BY <2>1 DEF Handled
  <2> QED
    BY <2>5, <2>6 DEF Served
<1>5. ASSUME NEW c \in Clients, Call(c) PROVE Served'
  <2>1. PICK r \in Requests[c] : /\ waiting' = [waiting EXCEPT ![c] = r]
                                 /\ queue' = Append(queue, [from |-> c, req |-> r])
    BY <1>5 DEF Call
  <2>2. waiting[c] = None /\ UNCHANGED <<pc, msg, i, res>>
        /\ answer' = [answer EXCEPT ![c] = NoAnswer]
    BY <1>5 DEF Call, thread
  <2> DEFINE m == [from |-> c, req |-> r]
  <2>3. m \in Messages /\ m.from = c /\ m.req = r
    BY DEF Messages
  <2>4. ASSUME NEW q, q \in Messages, Open(q, waiting) PROVE q.from # c
    BY <2>2, <2>4, IpcAssumption DEF Open, Messages
  <2>5. queue \in Seq(Messages) /\ \A k \in 1..Len(queue) : queue[k] \in Messages /\ Open(queue[k], waiting)
    BY DEF Served, Queued
  <2> HIDE DEF m
  <2>6. /\ queue' \in Seq(Messages) /\ Len(queue') = Len(queue) + 1
        /\ queue'[Len(queue) + 1] = m
        /\ \A k \in 1..Len(queue) : queue'[k] = queue[k]
    <3>1. queue' = Append(queue, m)
      BY <2>1 DEF m
    <3> QED
      BY <2>3, <2>5, <3>1
  <2>7. \A k \in 1..Len(queue) : queue[k].from # c
    BY <2>4, <2>5
  <2>8. waiting' = [d \in Clients |-> waiting'[d]] /\ answer' = [d \in Clients |-> answer'[d]]
    BY <2>1, <2>2 DEF Served, Queued
  <2>9. waiting'[c] = r /\ \A d \in Clients \ {c} : waiting'[d] = waiting[d]
    BY <2>1 DEF Served, Queued
  <2>10. \A k \in 1..Len(queue') : Open(queue'[k], waiting')
    <3>1. \A k \in 1..Len(queue) : Open(queue'[k], waiting')
      BY <2>5, <2>6, <2>7, <2>9 DEF Open, Messages
    <3>2. Open(queue'[Len(queue) + 1], waiting')
      BY <2>3, <2>6, <2>9 DEF Open
    <3>3. \A k \in 1..Len(queue') : k \in 1..Len(queue) \/ k = Len(queue) + 1
      BY <2>5, <2>6
    <3> QED
      BY <3>1, <3>2, <3>3
  <2>11. \A j, k \in 1..Len(queue') : queue'[j].from = queue'[k].from => j = k
    BY <2>3, <2>5, <2>6, <2>7 DEF Served, Queued
  <2>12. pc' \in Busy =>
           /\ msg' \in Messages /\ Open(msg', waiting')
           /\ \A k \in 1..Len(queue') : queue'[k].from # msg'.from
    <3> SUFFICES ASSUME pc \in Busy
                 PROVE  /\ msg \in Messages /\ Open(msg, waiting')
                        /\ \A k \in 1..Len(queue') : queue'[k].from # msg.from
      BY <2>2
    <3>1. msg \in Messages /\ Open(msg, waiting) /\ \A k \in 1..Len(queue) : queue[k].from # msg.from
      BY DEF Served, Queued
    <3>2. msg.from # c /\ msg.from \in Clients
      BY <2>4, <3>1 DEF Messages
    <3>3. Open(msg, waiting')
      BY <2>2, <2>9, <3>1, <3>2 DEF Open
    <3> QED
      BY <2>3, <2>5, <2>6, <3>1, <3>2, <3>3
  <2>13. Queued'
    BY <2>6, <2>8, <2>10, <2>11, <2>12 DEF Queued
  <2>14. Handled'
    BY <2>2 DEF Served, Handled
  <2> QED
    BY <2>13, <2>14 DEF Served
<1> QED
  BY <1>1, <1>2, <1>3, <1>4, <1>5 DEF Next, Thread, Handlers, Elsewhere

-----------------------------------------------------------------------------
(* What a success says *)

\* How far a write has come, and that a success is only answered when what was asked
\* for is in place.
Effective ==
  /\ pc = "write" => /\ i \in 1..(Len(msg.req.addrs) + 1)
                     /\ Written(msg.req, i - 1)
  /\ pc = "flush" => i \in 1..Len(msg.req.addrs) /\ Written(msg.req, i)
  /\ pc = "reply" /\ res.value \notin Errors => InPlace(msg.req)

\* The vectors of a write that was accepted.
LEMMA Vectors ==
  ASSUME Served, pc \in Busy, msg.req.command = "IOCTLV"
  PROVE  /\ msg.req.addrs \in Seq(Nat) /\ msg.req.data \in Seq(Seq(Code))
         /\ WriteArgs(msg.req) = "0" => Len(msg.req.data) = Len(msg.req.addrs)
<1>1. PICK c \in Clients : msg.req \in Requests[c]
  BY DEF Served, Queued, Open, Messages
<1> DEFINE r == msg.req
<1>2. /\ r.num_in \in Nat /\ r.addrs \in Seq(Nat) /\ r.data \in Seq(Seq(Code))
      /\ Len(r.data) = IF r.num_in = 0 THEN 0 ELSE r.num_in - 1
  BY <1>1, IpcAssumption
<1>3. WriteArgs(r) = "0" => r.num_in >= 1 /\ r.num_in = 1 + Len(r.addrs)
  BY <1>2 DEF WriteArgs, INVALID_ARG, INVALID_SIZE
<1> QED
  BY <1>2, <1>3

\* Pieces stay written as long as loads see the same.
LEMMA SameLoads ==
  ASSUME NEW r, NEW n, Written(r, n), \A a \in Addrs : Load(hw', a) = Load(hw, a)
  PROVE  Written(r, n)'
BY DEF Written, Covers, Load

\* A copy writes piece i, over what earlier pieces have left there.
LEMMA CopyWrites == Coherent /\ Served /\ Effective /\ copy => Written(msg.req, i)'
<1> SUFFICES ASSUME Coherent, Served, Effective, copy PROVE Written(msg.req, i)'
  OBVIOUS
<1> DEFINE r == msg.req
           dc == [a \in Addrs |-> IF Covers(r, i, a) THEN r.data[i][a - r.addrs[i] + 1]
                                  ELSE hw.dc[a]]
<1>1. /\ pc = "write" /\ UNCHANGED <<msg, i>>
      /\ hw' = KERN_memcpy(hw, r.addrs[i], r.data[i])
      /\ i <= Len(r.addrs)
  BY DEF copy
<1>2. /\ r.addrs \in Seq(Nat) /\ r.data \in Seq(Seq(Code))
      /\ Len(r.data) = Len(r.addrs)
  BY <1>1, Vectors DEF Served, Handled, Busy
<1>3. i \in 1..Len(r.addrs) /\ Written(r, i - 1)
  BY <1>1, <1>2 DEF Effective
<1>4. hw' = [hw EXCEPT !.dc = dc]
  BY <1>1 DEF KERN_memcpy, Covers, Coherent
<1>5. \A a \in Addrs : Covers(r, i, a) => dc[a] = r.data[i][a - r.addrs[i] + 1]
                                         /\ r.data[i][a - r.addrs[i] + 1] # Absent
  <2> TAKE a \in Addrs
  <2> HAVE Covers(r, i, a)
  <2>1. a \in Nat
    BY IpcAssumption
  <2>2. r.addrs[i] \in Nat /\ r.data[i] \in Seq(Code)
    <3>1. i \in 1..Len(r.data)
      BY <1>2, <1>3
    <3> HIDE DEF r
    <3> QED
      BY <1>2, <1>3, <3>1
  <2>4. a - r.addrs[i] + 1 \in 1..Len(r.data[i])
    <3>1. a >= r.addrs[i] /\ a - r.addrs[i] < Len(r.data[i])
      BY DEF Covers
    <3>2. Len(r.data[i]) \in Nat
      BY <2>2
    <3> QED
      BY <2>1, <2>2, <3>1, <3>2
  <2>3. r.data[i][a - r.addrs[i] + 1] \in Code
    BY <2>2, <2>4
  <2> QED
    BY <2>3, IpcAssumption
<1>6. \A a \in Addrs : ~Covers(r, i, a) => dc[a] = hw.dc[a]
  OBVIOUS
<1> HIDE DEF dc
<1>7. \A a \in Addrs : Load(hw', a) = IF dc[a] # Absent THEN dc[a] ELSE hw.ram[a]
  BY <1>4 DEF Load, Coherent
<1>8. \A a \in Addrs : Covers(r, i, a) => Load(hw', a) = r.data[i][a - r.addrs[i] + 1]
  BY <1>5, <1>7
<1>9. \A a \in Addrs : ~Covers(r, i, a) => Load(hw', a) = Load(hw, a)
  BY <1>6, <1>7 DEF Load
<1>10. ASSUME NEW a \in Addrs, NEW k \in 1..i, Covers(r, k, a),
              \A m \in (k + 1)..i : ~Covers(r, m, a)
       PROVE  Load(hw', a) = r.data[k][a - r.addrs[k] + 1]
  <2>1. CASE k = i
    BY <1>8, <1>10, <2>1
  <2>2. CASE k # i
    <3>1. k \in 1..(i - 1) /\ i \in (k + 1)..i
      BY <1>3, <2>2
    <3>2. \A m \in (k + 1)..(i - 1) : ~Covers(r, m, a)
      BY <1>3, <1>10
    <3>3. Load(hw, a) = r.data[k][a - r.addrs[k] + 1]
      BY <1>3, <1>10, <3>1, <3>2 DEF Written
    <3> QED
      BY <1>9, <1>10, <3>1, <3>3
  <2> QED
    BY <2>1, <2>2
<1>11. r' = r /\ i' = i
  BY <1>1
<1>12. \A a, k : Covers(r, k, a)' <=> Covers(r, k, a)
  BY <1>11 DEF Covers
<1>13. \A a : Load(hw, a)' = Load(hw', a)
  BY DEF Load
<1> QED
  BY <1>10, <1>11, <1>12, <1>13 DEF Written

\* Moving lines and filling the instruction cache does not change what a load sees.
LEMMA LoadsStay ==
  ASSUME Coherent, CacheMoves \/ EXECUTE \/ flush \/ written
  PROVE  \A a \in Addrs : Load(hw', a) = Load(hw, a)
<1>1. ASSUME NEW S, hw' = Clean(hw, S) PROVE \A a \in Addrs : Load(hw', a) = Load(hw, a)
  BY <1>1, CleanWord DEF Coherent
<1>2. ASSUME NEW a, hw' = FillLine(hw, a) PROVE \A b \in Addrs : Load(hw', b) = Load(hw, b)
  <2>1. hw' = [ram |-> hw.ram, dc |-> hw.dc, ic |-> hw'.ic]
    BY <1>2, FillWord DEF Coherent
  <2> QED
    BY <2>1 DEF Load
<1>3. CASE CacheMoves
  BY <1>1, <1>2, <1>3 DEF CacheMoves, EvictLine
<1>4. CASE EXECUTE
  BY <1>2, <1>4 DEF EXECUTE, Load
<1>5. CASE flush
  BY <1>1, <1>5 DEF flush, flush_dcache
<1>6. CASE written
  <2>1. hw' = [ram |-> hw.ram, dc |-> hw.dc, ic |-> hw'.ic]
    BY <1>6 DEF written, ic_invalidateall, Coherent
  <2> QED
    BY <2>1 DEF Load
<1> QED
  BY <1>3, <1>4, <1>5, <1>6

\* Every step keeps account of what is written and what a success says.
LEMMA EffectiveStep ==
  Coherent /\ Pathed /\ Served /\ Effective /\ [Next]_vars => Effective'
<1> SUFFICES ASSUME Coherent, Pathed, Served, Effective, [Next]_vars PROVE Effective'
  OBVIOUS
<1> DEFINE r == msg.req
<1>1. ASSUME pc' \notin {"write", "flush", "reply"} PROVE Effective'
  BY <1>1 DEF Effective
<1>2. ASSUME pc' = "reply", UNCHANGED msg, res'.value \notin Errors => InPlace(r)'
      PROVE  Effective'
  BY <1>2 DEF Effective
<1>3. ASSUME UNCHANGED <<pc, msg, i, res, fw>>, \A a \in Addrs : Load(hw', a) = Load(hw, a)
      PROVE  Effective'
  <2>1. \A n : Written(r, n) => Written(r, n)'
    BY <1>3, SameLoads DEF Written, Covers, Load
  <2>2. InPlace(r) => InPlace(r)'
    BY <1>3, <2>1 DEF InPlace, Accepted, Cut
  <2> QED
    BY <1>3, <2>1, <2>2 DEF Effective
<1>4. CASE CacheMoves
  BY <1>3, <1>4, LoadsStay DEF CacheMoves, thread
<1>5. CASE \/ \E c \in Clients : Call(c)
           \/ ReloadPath \/ ReloadName \/ ReloadFailed \/ UNCHANGED vars
  <2>1. UNCHANGED <<pc, msg, i, res, fw, hw>>
    BY <1>5 DEF Call, ReloadPath, ReloadName, ReloadFailed, thread, vars
  <2>2. \A a \in Addrs : Load(hw', a) = Load(hw, a)
    BY <2>1
  <2> QED
    BY <1>3, <2>1, <2>2
<1>6. CASE ipc_init \/ register \/ receive \/ receive_error \/ woken \/ iosResourceReply
  BY <1>1, <1>6 DEF ipc_init, register, receive, receive_error, woken, iosResourceReply
<1>7. CASE dispatch \/ GET_API_VERSION \/ MAP_MEMORY \/ GET_MINUTE_PATH
           \/ GET_PLUGIN_PATH \/ unknown_ioctl \/ EXECUTE \/ unknown_ioctlv
  <2>1. /\ pc' = "reply" /\ UNCHANGED msg
        /\ r.command \in {"IOCTL", "IOCTLV"} => r.code \notin {"WRITE_MEMORY", "SET_FW_PATH"}
    BY <1>7 DEF dispatch, GET_API_VERSION, MAP_MEMORY, GET_MINUTE_PATH, GET_PLUGIN_PATH,
         unknown_ioctl, EXECUTE, unknown_ioctlv, Finish, ioctl, ioctlv
  <2>2. InPlace(r)'
    BY <2>1 DEF InPlace
  <2> QED
    BY <1>2, <2>1, <2>2
<1>8. CASE SET_FW_PATH
  <2>1. UNCHANGED msg /\ r.command = "IOCTL"
        /\ (pc' \in {"path", "name"} \/ (pc' = "reply" /\ r.in = "null"))
    BY <1>8 DEF SET_FW_PATH, Finish, ioctl
  <2>2. CASE pc' \in {"path", "name"}
    BY <1>1, <2>2
  <2>3. CASE pc' = "reply" /\ r.in = "null"
    <3>1. InPlace(r)'
      BY <2>1, <2>3 DEF InPlace
    <3> QED
      BY <1>2, <2>1, <2>3, <3>1
  <2> QED
    BY <2>1, <2>2, <2>3
<1>9. CASE set_path
  BY <1>1, <1>9 DEF set_path
<1>10. CASE set_name
  <2>1. /\ pc = "name" /\ pc' = "reply" /\ UNCHANGED msg
        /\ fw' = [path |-> IF r.path.dir = None THEN "" ELSE fw.path, name |-> Cut(r.path)]
    BY <1>10 DEF set_name, Finish
  <2>2. r.command = "IOCTL" /\ (r.path.dir # None => fw.path = r.path.dir)
    BY <2>1 DEF Served, Handled, Pathed
  <2>3. InPlace(r)'
    BY <2>1, <2>2 DEF InPlace, Cut
  <2> QED
    BY <1>2, <2>1, <2>3
<1>11. CASE WRITE_MEMORY
  <2>1. UNCHANGED msg /\ pc \in Busy /\ r.command = "IOCTLV"
    BY <1>11 DEF WRITE_MEMORY, ioctlv, Busy
  <2>2. CASE pc' = "write" /\ i' = 1
    <3>1. r.addrs \in Seq(Nat)
      BY <2>1, Vectors
    <3>2. Written(r, 0)'
      BY DEF Written
    <3>3. i' \in 1..(Len(r.addrs) + 1) /\ i' - 1 = 0
      BY <2>2, <3>1
    <3> QED
      BY <2>1, <2>2, <3>2, <3>3 DEF Effective
  <2>3. CASE pc' = "reply" /\ res'.value = WriteArgs(r) /\ WriteArgs(r) # "0"
    <3>1. res'.value \in Errors
      BY <2>3 DEF WriteArgs, Errors
    <3> QED
      BY <1>2, <2>1, <2>3, <3>1
  <2> QED
    BY <1>11, <2>2, <2>3 DEF WRITE_MEMORY, Finish
<1>12. CASE copy
  <2>1. pc = "write" /\ pc' = "flush" /\ UNCHANGED <<msg, i>> /\ i <= Len(r.addrs)
    BY <1>12 DEF copy
  <2>2. r.addrs \in Seq(Nat)
    BY <2>1, Vectors DEF Served, Handled, Busy
  <2>3. i' \in 1..Len(msg'.req.addrs)
    BY <2>1, <2>2 DEF Effective
  <2> QED
    BY <1>12, <2>1, <2>3, CopyWrites DEF Effective
<1>13. CASE flush
  <2>1. pc = "flush" /\ pc' = "write" /\ UNCHANGED msg /\ i' = i + 1
    BY <1>13 DEF flush
  <2>2. r.addrs \in Seq(Nat)
    BY <2>1, Vectors DEF Served, Handled, Busy
  <2>3. i' \in 1..(Len(r.addrs) + 1) /\ i' - 1 = i
    BY <2>1, <2>2 DEF Effective
  <2>4. Written(r, i)
    BY <2>1 DEF Effective
  <2>5. \A a \in Addrs : Load(hw', a) = Load(hw, a)
    BY <1>13, LoadsStay
  <2>6. Written(msg.req, i - 1)'
    BY <2>1, <2>3, <2>4, <2>5 DEF Written, Covers, Load
  <2> QED
    BY <2>1, <2>3, <2>6 DEF Effective
<1>14. CASE written
  <2>1. pc = "write" /\ pc' = "reply" /\ UNCHANGED msg /\ i > Len(r.addrs)
    BY <1>14 DEF written, Finish
  <2>2. r.addrs \in Seq(Nat) /\ r.command = "IOCTLV"
    BY <2>1, Vectors DEF Served, Handled, Busy
  <2>3. Written(r, Len(r.addrs))
    <3>1. i - 1 = Len(r.addrs)
      BY <2>1, <2>2 DEF Effective
    <3> QED
      BY <2>1, <3>1 DEF Effective
  <2>4. \A a \in Addrs : Load(hw', a) = Load(hw, a)
    BY <1>14, LoadsStay
  <2>5. Written(r, Len(r.addrs))'
    BY <2>1, <2>3, <2>4 DEF Written, Covers, Load
  <2>6. InPlace(r)'
    BY <2>1, <2>2, <2>5 DEF InPlace
  <2> QED
    BY <1>2, <2>1, <2>6
<1> QED
  BY <1>4, <1>5, <1>6, <1>7, <1>8, <1>9, <1>10, <1>11, <1>12, <1>13, <1>14
     DEF Next, Thread

\* what the clients have been answered and what is the case, as the abstract service
\* sees them
Results == [c \in Clients |-> answer[c].value]
Done == {r \in UNION {Requests[c] : c \in Clients} : InPlace(r)}

\* Every step is one of the abstract service.
LEMMA RpcStep ==
  Served /\ Effective /\ [Next]_vars => AbstractRpc!Next
<1> SUFFICES ASSUME Served, Effective, [Next]_vars PROVE AbstractRpc!Next
  OBVIOUS
<1>6. ASSUME UNCHANGED <<waiting, answer>> PROVE AbstractRpc!Next
  BY <1>6 DEF AbstractRpc!Next, AbstractRpc!Work
<1>1. CASE Elsewhere \/ UNCHANGED vars
  BY <1>1, <1>6, ElsewhereStep
<1>2. CASE Handlers
  BY <1>2, <1>6, HandlerStep
<1>3. CASE receive
  BY <1>3, <1>6 DEF receive
<1>4. CASE iosResourceReply
  <2>1. pc = "reply"
    BY <1>4 DEF iosResourceReply
  <2>2. msg \in Messages /\ msg.req \in Requests[msg.from] /\ waiting[msg.from] = msg.req
    BY <2>1 DEF Served, Queued, Busy, Open
  <2>3. PICK c \in Clients : c = msg.from
    BY <2>2 DEF Messages
  <2>4. /\ waiting' = [waiting EXCEPT ![c] = None]
        /\ answer' = [answer EXCEPT ![c] = res]
    BY <1>4, <2>3 DEF iosResourceReply
  <2>5. waiting[c] # None
    BY <2>2, <2>3, IpcAssumption
  <2>6. res.value \in Answers(waiting[c])
    BY <2>1, <2>2, <2>3 DEF Served, Handled
  <2>7. Results' = [Results EXCEPT ![c] = res.value]
    <3>1. answer = [d \in Clients |-> answer[d]]
      BY DEF Served, Queued
    <3>2. \A d \in Clients : answer'[d] = IF d = c THEN res ELSE answer[d]
      BY <2>4, <3>1
    <3> QED
      BY <3>2 DEF Results
  <2>9. res.value \notin Errors => waiting[c] \in Done
    BY <2>1, <2>2, <2>3 DEF Effective, Done, Messages
  <2>8. AbstractRpc!Return(c)
    BY <2>4, <2>5, <2>6, <2>7, <2>9 DEF AbstractRpc!Return, Results, Done
  <2> QED
    BY <2>8 DEF AbstractRpc!Next
<1>5. ASSUME NEW c \in Clients, Call(c)
      PROVE  AbstractRpc!Next
  <2>1. /\ waiting[c] = None
        /\ \E r \in Requests[c] : waiting' = [waiting EXCEPT ![c] = r]
        /\ answer' = [answer EXCEPT ![c] = NoAnswer]
    BY <1>5 DEF Call
  <2>2. Results' = [Results EXCEPT ![c] = None]
    <3>1. answer = [d \in Clients |-> answer[d]]
      BY DEF Served, Queued
    <3>2. \A d \in Clients : answer'[d] = IF d = c THEN NoAnswer ELSE answer[d]
      BY <2>1, <3>1
    <3>3. NoAnswer.value = None
      BY DEF NoAnswer
    <3> QED
      BY <3>2, <3>3 DEF Results
  <2>3. AbstractRpc!Call(c)
    BY <2>1, <2>2 DEF AbstractRpc!Call, Results
  <2> QED
    BY <2>3 DEF AbstractRpc!Next
<1> QED
  BY <1>1, <1>2, <1>3, <1>4, <1>5 DEF Next, Thread, Handlers, Elsewhere

\* /dev/stroopwafel implements a resource manager: each call returns at most once, with
\* an answer to that very call, however the calls of the clients interleave with its
\* thread; when it says that it succeeded, memory reads as all pieces of the write say,
\* or the buffers name the new firmware, whatever lines the caches have moved.
THEOREM RpcRefinement == Spec => ImplementsRpc
<1> DEFINE Inv == Coherent /\ Pathed /\ Served /\ Effective
<1>1. Init => AbstractRpc!Init
  <2> SUFFICES ASSUME Init PROVE AbstractRpc!Init
    OBVIOUS
  <2>1. answer = [c \in Clients |-> NoAnswer] /\ waiting = [c \in Clients |-> None]
    BY DEF Init
  <2>2. Results = [c \in Clients |-> None]
    BY <2>1 DEF Results, NoAnswer
  <2> QED
    BY <2>1, <2>2 DEF AbstractRpc!Init, Results
<1>2. Init => Inv
  BY DEF Init, Coherent, Pathed, BootPath, NoReload, Served, Queued, Handled, Effective, Busy
<1>3. Inv /\ [Next]_vars => Inv'
  BY CoherentStep, PathedStep, ServedStep, EffectiveStep
<1>4. Inv /\ [Next]_vars => AbstractRpc!Next
  BY RpcStep
<1> QED
  BY <1>1, <1>2, <1>3, <1>4, PTL DEF Spec, ImplementsRpc, AbstractRpc!Spec
=============================================================================
