----------------------------- MODULE SdRedirect -----------------------------
(***************************************************************************)
(* redNAND's SLC redirection at run time: the IOS-FS functions that          *)
(* rednand_apply_slc_patches sends to patch_asm.S. Threads of IOS-FS read    *)
(* and write SLC and SLCCMPT blocks; those of a redirected device become SD  *)
(* card commands, one at a time under sdcard_access_mutex, and so does what  *)
(* IOS-FS reads and writes on redMLC, the part of the card that rednand.c    *)
(* attaches as a device of another type. The SDIO driver, the NAND driver,   *)
(* the md thread and IOSU's semaphores are external.                         *)
(***************************************************************************)
EXTENDS Integers, FiniteSets

CONSTANTS
  Threads,    \* threads of IOS-FS that do block I/O
  Devices,    \* "slc" and "slccmpt"
  Configs,    \* the partitions rednand_init may find in its configuration
  Blocks,     \* the block numbers of the devices
  Sectors,    \* the sectors of the SD card
  Values,     \* what a sector can hold
  Requests,   \* the requests IOS-FS makes
  FatIo,      \* the I/O of the FAT driver on its own partition of the card
  MlcIo,      \* the requests to redMLC, in sectors of the card: redMLC's
              \* read and write functions have added the partition's offset
  MaxRegs     \* bound: how often the card is registered

VARIABLES
  conf,       \* conf.off[d], conf.size[d]: redslc_off_sectors, redslc_size_sectors
              \* and the same for slccmpt, conf.mlc: there is a redMLC; never
              \* changed
  boot,       \* createDevThread_hook for /dev/mmc: "start", "sleep", "done"
  card,       \* the SDIO driver has initialised the card
  ready,      \* flag 0x20 of FS_MMC_SDCARD_STRUCT: the card accepts commands
  access,     \* the count of sdcard_access_mutex
  md,         \* the md thread: "idle" or "register" (in registerMdDevice_hook)
  regs,       \* registrations so far
  pc,         \* pc[t]: where t is in the patched functions
  req,        \* req[t]: its request
  opsem,      \* opsem[t]: the count of the semaphore in its stack frame
  result,     \* result[t]: the result in its stack frame
  data,       \* data[t]: its buffer
  cmds,       \* commands the driver has accepted and not finished
  sd,         \* the contents of the SD card
  nand        \* the contents of the NAND

svars == <<conf, boot, card, ready, access, md, regs>>
tvars == <<pc, req, opsem, result, data>>
vars == <<svars, tvars, cmds, sd, nand>>

-----------------------------------------------------------------------------
(* IOSU's semaphores (created with a maximum of 1). *)

iosWaitSemaphore == access = 1 /\ access' = 0
iosSignalSemaphore == access' = 1

-----------------------------------------------------------------------------
(* Start-up: sdcard_init, called by createDevThread_hook. *)

\* mutant: the mutex is created with a count of 2
sdcard_init_mutant ==
  /\ boot = "start"
  /\ boot' = "sleep"
  /\ access' = 2
  /\ UNCHANGED <<conf, card, ready, md, regs, tvars, cmds, sd, nand>>

sdcard_init ==
  /\ boot = "start"
  /\ boot' = "sleep"
  /\ access' = 1
  /\ UNCHANGED <<conf, card, ready, md, regs, tvars, cmds, sd, nand>>

\* msleep(1000) is over, whether the card is initialised or not
sdcard_init_end ==
  /\ boot = "sleep"
  /\ boot' = "done"
  /\ ready' = TRUE
  /\ UNCHANGED <<conf, card, access, md, regs, tvars, cmds, sd, nand>>

\* external: /dev/mmc has initialised the card
CardInitialised ==
  /\ boot # "start"
  /\ ~card
  /\ card' = TRUE
  /\ UNCHANGED <<conf, boot, ready, access, md, regs, tvars, cmds, sd, nand>>

\* mutant: the card is registered without the mutex
registerMdDevice_mutant ==
  /\ boot = "done" /\ card
  /\ regs < MaxRegs
  /\ md = "idle"
  /\ ready' = FALSE
  /\ md' = "register"
  /\ regs' = regs + 1
  /\ UNCHANGED <<conf, boot, card, access, tvars, cmds, sd, nand>>

\* the md thread registers the SD card: registerMdDevice_hook up to the call
\* of FS_REGISTERMDPHYSICALDEVICE. It gets the card once IOS-FS has created
\* its device threads (external).
registerMdDevice_hook ==
  /\ boot = "done" /\ card
  /\ regs < MaxRegs
  /\ md = "idle"
  /\ iosWaitSemaphore
  /\ ready' = FALSE
  /\ md' = "register"
  /\ regs' = regs + 1
  /\ UNCHANGED <<conf, boot, card, tvars, cmds, sd, nand>>

\* ... and the rest. A registration that succeeds sets the flag again.
registerMdDevice_hook_end ==
  /\ md = "register"
  /\ md' = "idle"
  /\ \E ok \in BOOLEAN : ready' = ok
  /\ iosSignalSemaphore
  /\ UNCHANGED <<conf, boot, card, regs, tvars, cmds, sd, nand>>

-----------------------------------------------------------------------------
(* From a request to a command. *)

\* of SLC and SLCCMPT; redMLC has the card's own
BlockSize(d) == IF d \in Devices THEN 2048 ELSE 512

\* sdcard_readwrite_block_size_adjust: how often cnt and offset_blocks are
\* doubled until the block size is 0x200
block_size_adjust(bs) == IF bs > 1024 THEN 4 ELSE IF bs > 512 THEN 2 ELSE 1

\* mutant: ldrne and ldreq swapped
slc_offset_mutant(d) == conf.off[CHOOSE e \in Devices : e # d] \div 4

\* slcReadWrite_patch: the offset of the partition, in SLC blocks;
\* sdcardReadWrite_patch: 0
slc_offset(d) == IF d \in Devices THEN conf.off[d] \div 4 ELSE 0

\* readWriteCallback_patch adds it and sdcard_readwrite scales it
first_sector(r) == block_size_adjust(BlockSize(r.dev)) * (r.blk + slc_offset(r.dev))

sector_count(r) == block_size_adjust(BlockSize(r.dev)) * r.cnt

\* the paramstruct of a redirected request
Command(t, r) ==
  [thread |-> t, kind |-> "redirected", op |-> r.op, val |-> r.val,
   first |-> first_sector(r), cnt |-> sector_count(r)]

Redirected(d) == conf.size[d] # 0

NoRequest == CHOOSE r \in Requests : TRUE

-----------------------------------------------------------------------------
(* Threads of IOS-FS. *)

\* slcRead1_patch, slcRead2_patch, slcWrite1_patch and slcWrite2_patch
slcReadWrite_patch(t, r) ==
  /\ boot = "done"
  /\ pc[t] = "idle"
  /\ req' = [req EXCEPT ![t] = r]
  /\ pc' = [pc EXCEPT ![t] = IF Redirected(r.dev) THEN "acquire" ELSE "nand"]
  /\ UNCHANGED <<svars, opsem, result, data, cmds, sd, nand>>

\* mutant: the mutex is not taken
acquire_mutant(t) ==
  /\ pc[t] = "acquire"
  /\ opsem' = [opsem EXCEPT ![t] = 0]
  /\ pc' = [pc EXCEPT ![t] = "issue"]
  /\ UNCHANGED <<svars, req, result, data, cmds, sd, nand>>

\* sdcard_readwrite takes the mutex, then creates and takes its own semaphore
sdcard_readwrite_acquire(t) ==
  /\ pc[t] = "acquire"
  /\ iosWaitSemaphore
  /\ opsem' = [opsem EXCEPT ![t] = 0]
  /\ pc' = [pc EXCEPT ![t] = "issue"]
  /\ UNCHANGED <<conf, boot, card, ready, md, regs, req, result, data, cmds, sd, nand>>

\* mutant: an accepted command is not waited for
issue_mutant(t) ==
  /\ pc[t] = "issue"
  /\ ready /\ card
  /\ cmds' = cmds \cup {Command(t, req[t])}
  /\ pc' = [pc EXCEPT ![t] = "release"]
  /\ UNCHANGED <<svars, req, opsem, result, data, sd, nand>>

\* FS_SDIO_DOREADWRITECOMMAND returns 0
sdcard_readwrite_issue(t) ==
  /\ pc[t] = "issue"
  /\ ready /\ card
  /\ cmds' = cmds \cup {Command(t, req[t])}
  /\ pc' = [pc EXCEPT ![t] = "wait"]
  /\ UNCHANGED <<svars, req, opsem, result, data, sd, nand>>

\* FS_SDIO_DOREADWRITECOMMAND returns an error
sdcard_readwrite_reject(t) ==
  /\ pc[t] = "issue"
  /\ pc' = [pc EXCEPT ![t] = "failed"]
  /\ result' = [result EXCEPT ![t] = "rejected"]
  /\ data' = [data EXCEPT ![t] = << >>]
  /\ UNCHANGED <<svars, req, opsem, cmds, sd, nand>>

\* the callback has signalled the semaphore in the stack frame
sdcard_readwrite_wait(t) ==
  /\ pc[t] = "wait"
  /\ opsem[t] = 1
  /\ opsem' = [opsem EXCEPT ![t] = 0]
  /\ pc' = [pc EXCEPT ![t] = "release"]
  /\ UNCHANGED <<svars, req, result, data, cmds, sd, nand>>

\* mutant: the error path returns with the mutex held
release_mutant(t) ==
  /\ pc[t] \in {"release", "failed"}
  /\ IF pc[t] = "failed" THEN UNCHANGED access ELSE iosSignalSemaphore
  /\ pc' = [pc EXCEPT
       ![t] = IF pc[t] = "release" /\ req[t].cb THEN "callback" ELSE "return"]
  /\ UNCHANGED <<conf, boot, card, ready, md, regs, req, opsem, result, data, cmds, sd, nand>>

\* sdcard_readwrite_skip_wait, and the return to readWriteCallback_patch, which
\* calls the callback of the request only if the command was accepted
sdcard_readwrite_release(t) ==
  /\ pc[t] \in {"release", "failed"}
  /\ iosSignalSemaphore
  /\ pc' = [pc EXCEPT
       ![t] = IF pc[t] = "release" /\ req[t].cb THEN "callback" ELSE "return"]
  /\ UNCHANGED <<conf, boot, card, ready, md, regs, req, opsem, result, data, cmds, sd, nand>>

\* the callback of the request runs and gets the driver's result
readWriteCallback_patch(t) ==
  /\ pc[t] = "callback"
  /\ pc' = [pc EXCEPT ![t] = "return"]
  /\ UNCHANGED <<svars, req, opsem, result, data, cmds, sd, nand>>

\* the patched function returns to IOS-FS, with an error if the driver rejected
\* the command and 0 otherwise, and its stack frame is gone
Return(t) ==
  /\ pc[t] = "return"
  /\ pc' = [pc EXCEPT ![t] = "idle"]
  /\ req' = [req EXCEPT ![t] = NoRequest]
  /\ result' = [result EXCEPT ![t] = "none"]
  /\ data' = [data EXCEPT ![t] = << >>]
  /\ UNCHANGED <<svars, opsem, cmds, sd, nand>>

\* sdcardRead_patch, sdcardWrite_patch: I/O on redMLC, whose device is not a
\* DEVICETYPE_SDCARD, goes the way of a redirected request
sdcardReadWrite_patch_mlc(t, r) ==
  /\ boot = "done" /\ conf.mlc
  /\ pc[t] = "idle"
  /\ req' = [req EXCEPT ![t] = r]
  /\ pc' = [pc EXCEPT ![t] = "acquire"]
  /\ UNCHANGED <<svars, opsem, result, data, cmds, sd, nand>>

\* ... and I/O on the card itself, a DEVICETYPE_SDCARD, goes on to the original
\* function without the mutex: nothing sets redmlc_size_sectors
sdcardReadWrite_patch(t, io) ==
  /\ boot = "done"
  /\ pc[t] = "idle"
  /\ ready /\ card
  /\ cmds' = cmds \cup {[thread |-> t, kind |-> "native", op |-> io.op,
                          val |-> io.val, first |-> io.sector, cnt |-> 1]}
  /\ pc' = [pc EXCEPT ![t] = "native"]
  /\ UNCHANGED <<svars, req, opsem, result, data, sd, nand>>

-----------------------------------------------------------------------------
(* The drivers (external). *)

SectorsOf(c) == c.first..(c.first + c.cnt - 1)

\* the blocks of a request
Span(r) == r.blk..(r.blk + r.cnt - 1)

\* content of a block held in four sectors
BlockAt(s) == [i \in 0..3 |-> sd[s + i]]

\* The first n sectors of a write reach the card.
Transfer(c, n) ==
  sd' = [s \in Sectors |-> IF c.op = "write" /\ s \in SectorsOf(c) /\ s < c.first + n
                           THEN c.val ELSE sd[s]]

\* what a command leaves in the buffer (what redMLC reads is not kept)
ReadData(c, r) == [b \in Span(r) |-> BlockAt(c.first + 4 * (b - r.blk))]

Buffer(c, r) == IF c.op = "read" /\ r.dev \in Devices THEN ReadData(c, r) ELSE << >>

\* sdcard_readwrite_callback, called by the driver at the end of command c
sdcard_readwrite_callback(t, res, d) ==
  /\ result' = [result EXCEPT ![t] = res]
  /\ data' = [data EXCEPT ![t] = d]
  /\ opsem' = [opsem EXCEPT ![t] = 1]
  /\ UNCHANGED pc

\* a native command ends in the card's own callback
NativeDone(t) ==
  /\ pc' = [pc EXCEPT ![t] = "idle"]
  /\ UNCHANGED <<result, data, opsem>>

DriverOk(c) ==
  /\ c \in cmds
  /\ cmds' = cmds \ {c}
  /\ Transfer(c, c.cnt)
  /\ \/ c.kind = "native" /\ NativeDone(c.thread)
     \/ /\ c.kind = "redirected"
        /\ sdcard_readwrite_callback(c.thread, "ok", Buffer(c, req[c.thread]))
  /\ UNCHANGED <<svars, req, nand>>

\* the card reports an error after any number of sectors
DriverError(c) ==
  /\ c \in cmds
  /\ cmds' = cmds \ {c}
  /\ \E n \in 0..c.cnt : Transfer(c, n)
  /\ \/ c.kind = "native" /\ NativeDone(c.thread)
     \/ c.kind = "redirected" /\ sdcard_readwrite_callback(c.thread, "error", << >>)
  /\ UNCHANGED <<svars, req, nand>>

Uniform(v) == [i \in 0..3 |-> v]

NandIo(t) ==
  LET r == req[t] IN
  /\ pc[t] = "nand"
  /\ pc' = [pc EXCEPT ![t] = "return"]
  /\ nand' = [nand EXCEPT ![r.dev] =
       [b \in Blocks |-> IF r.op = "write" /\ b \in Span(r) THEN Uniform(r.val) ELSE @[b]]]
  /\ result' = [result EXCEPT ![t] = "ok"]
  /\ data' = [data EXCEPT ![t] =
       IF r.op = "write" THEN << >> ELSE [b \in Span(r) |-> nand[r.dev][b]]]
  /\ UNCHANGED <<svars, req, opsem, cmds, sd>>

-----------------------------------------------------------------------------
Init ==
  /\ conf \in Configs
  /\ boot = "start" /\ card = FALSE /\ ready = FALSE /\ access = 0
  /\ md = "idle" /\ regs = 0
  /\ pc = [t \in Threads |-> "idle"]
  /\ req = [t \in Threads |-> NoRequest]
  /\ opsem = [t \in Threads |-> 0]
  /\ result = [t \in Threads |-> "none"]
  /\ data = [t \in Threads |-> << >>]
  /\ cmds = {}
  /\ \E v \in Values :
       /\ sd = [s \in Sectors |-> v]
       /\ nand = [d \in Devices |-> [b \in Blocks |-> Uniform(v)]]

\* the steps a thread takes once it is inside the patched functions
Step(t) ==
  \/ sdcard_readwrite_acquire(t)
  \/ sdcard_readwrite_issue(t)
  \/ sdcard_readwrite_reject(t)
  \/ sdcard_readwrite_wait(t)
  \/ sdcard_readwrite_release(t)
  \/ readWriteCallback_patch(t)
  \/ Return(t)
  \/ NandIo(t)

Driver(t) == \E c \in cmds : c.thread = t /\ (DriverOk(c) \/ DriverError(c))

Next ==
  \/ sdcard_init \/ sdcard_init_end \/ CardInitialised
  \/ registerMdDevice_hook \/ registerMdDevice_hook_end
  \/ \E t \in Threads :
       \/ Step(t)
       \/ Driver(t)
       \/ \E r \in Requests : slcReadWrite_patch(t, r)
       \/ \E r \in MlcIo : sdcardReadWrite_patch_mlc(t, r)
       \/ \E io \in FatIo : sdcardReadWrite_patch(t, io)

Spec == Init /\ [][Next]_vars

\* Threads are scheduled and a thread in the queue of a semaphore gets it some
\* time; the driver finishes or fails what it accepted; a registration ends.
FairSpec ==
  /\ Spec
  /\ \A t \in Threads : /\ WF_vars(Step(t))
                        /\ SF_vars(sdcard_readwrite_acquire(t))
                        /\ WF_vars(Driver(t))
  /\ WF_vars(registerMdDevice_hook_end)

-----------------------------------------------------------------------------
(* Properties *)

Places == {"idle", "acquire", "issue", "wait", "release", "failed", "callback",
           "return", "nand", "native"}

\* The type invariant of the redirection's state.
TypeOK ==
  /\ conf \in Configs
  /\ boot \in {"start", "sleep", "done"}
  /\ card \in BOOLEAN /\ ready \in BOOLEAN
  /\ access \in {0, 1}
  /\ md \in {"idle", "register"}
  /\ regs \in 0..MaxRegs
  /\ pc \in [Threads -> Places]
  /\ req \in [Threads -> Requests \cup MlcIo]
  /\ opsem \in [Threads -> {0, 1}]
  /\ result \in [Threads -> {"none", "ok", "error", "rejected"}]
  /\ sd \in [Sectors -> Values]
  /\ nand \in [Devices -> [Blocks -> [0..3 -> Values]]]

\* t is in sdcard_readwrite and has taken sdcard_access_mutex
Holds(t) == pc[t] \in {"issue", "wait", "release", "failed"}

\* sdcard_access_mutex does its job: never two redirected requests in
\* sdcard_readwrite at a time, and none while registerMdDevice_hook registers
\* the card.
MutualExclusion ==
  /\ \A t, u \in Threads : Holds(t) /\ Holds(u) => t = u
  /\ md = "register" => \A t \in Threads : ~Holds(t)

\* The flag that makes the card usable is not cleared under a redirected
\* command: while the driver works on one the card stays ready and is not
\* being registered.
ReadyWhileBusy ==
  \A c \in cmds : c.kind = "redirected" => ready /\ card /\ md = "idle"

\* sdcard_readwrite_callback writes to the stack frame of the thread that
\* issued the command and signals the semaphore in it: the thread is still
\* there, waiting, and nobody has signalled it yet.
CallbackFindsFrame ==
  \A c \in cmds :
    c.kind = "redirected" => pc[c.thread] = "wait" /\ opsem[c.thread] = 0

\* what the FS sees of a device: its partition, or the NAND if it is not
\* redirected
StoreOf(d) == [b \in Blocks |-> IF Redirected(d) THEN BlockAt(conf.off[d] + 4 * b)
                                                ELSE nand[d][b]]

WithContent(r) == [r EXCEPT !.val = Uniform(@)]

\* What the request of a thread is told of the result in its stack frame. The
\* function returns an error only for a command the driver rejected; of one that
\* fails later nobody but the request's callback hears.
Reply(r, res) == CASE res = "rejected" -> "error"
                   [] res # "rejected" /\ r.cb -> res
                   [] OTHER -> "ok"

\* what the FS sees of a thread at place p with a request, a semaphore count, a
\* result and a buffer
OpView(p, r, sem, res, buf) ==
  LET open == [phase |-> "open", req |-> r]
      done == [phase |-> "done", req |-> r, result |-> Reply(r, res), data |-> buf]
  IN CASE p \in {"idle", "native"}           -> [phase |-> "idle"]
       [] p \in {"acquire", "issue", "nand"} -> open
       [] p = "wait" -> IF sem = 0 THEN open ELSE done
       [] OTHER      -> done

\* what it does on redMLC is not seen on SLC and SLCCMPT
OpOf(t) == IF req[t].dev \in Devices
           THEN OpView(pc[t], WithContent(req[t]), opsem[t], result[t], data[t])
           ELSE [phase |-> "idle"]

Store == INSTANCE BlockStore WITH
  Contents <- [0..3 -> Values],
  Requests <- {WithContent(r) : r \in Requests},
  store <- [d \in Devices |-> StoreOf(d)],
  op <- [t \in Threads |-> OpOf(t)]

\* Redirection is invisible: SLC and SLCCMPT behave as two separate block
\* devices, whichever of them lives on the card, whatever the FAT driver and
\* redMLC do to the rest of it, and whatever requests, failures and
\* registrations interleave; with the exception BlockStore makes for requests
\* without a callback.
ImplementsBlockStore == Store!Spec

\* Every request to a redirected device is answered, also when the driver
\* rejects the command or reports an error.
Answered == \A t \in Threads : pc[t] = "acquire" ~> pc[t] = "idle"
=============================================================================
