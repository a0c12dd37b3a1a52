-------------------------- MODULE SdRedirectProofs --------------------------
(***************************************************************************)
(* Proofs about SdRedirect, for any number of threads, any partitions that   *)
(* satisfy LayoutAssumption and any card.                                    *)
(***************************************************************************)
EXTENDS SdRedirectLayout, TLAPS

\* The access mutex is taken exactly as long as somebody is inside.
LockHeld ==
  /\ \A t \in Threads : Holds(t) => access = 0
  /\ md = "register" => access = 0

\* Nobody does block I/O or registers the card before sdcard_init is done.
QuietAtBoot ==
  boot # "done" => md = "idle" /\ \A t \in Threads : pc[t] = "idle"

\* The driver has at most one command of a thread.
OneCommand == \A c, d \in cmds : c.thread = d.thread => c = d

\* What the driver is working on: the request of a thread that waits for it, or
\* I/O of the FAT driver.
CommandsMatch ==
  \A c \in cmds :
    /\ c.thread \in Threads
    /\ \/ /\ pc[c.thread] = "native"
          /\ \E io \in FatIo :
               c = [thread |-> c.thread, kind |-> "native", op |-> io.op,
                    val |-> io.val, first |-> io.sector, cnt |-> 1]
       \/ /\ pc[c.thread] = "wait" /\ opsem[c.thread] = 0
          /\ c = Command(c.thread, req[c.thread])
          /\ ready /\ card /\ md = "idle"

\* Of the requests to SLC and SLCCMPT, only those to a redirected one reach
\* sdcard_readwrite, where a command is issued with the operation's semaphore
\* taken.
PathMatches ==
  \A t \in Threads :
    /\ pc[t] = "issue" => opsem[t] = 0
    /\ pc[t] \in {"acquire", "issue", "wait"} /\ req[t] \in Requests
         => Redirected(req[t].dev)
    /\ pc[t] = "nand" => req[t] \in Requests /\ ~Redirected(req[t].dev)

\* data has a value for every thread.
DataFunction == data = [t \in Threads |-> data[t]]

IInv == /\ TypeOK
        /\ MutualExclusion
        /\ LockHeld
        /\ QuietAtBoot
        /\ OneCommand
        /\ CommandsMatch
        /\ PathMatches
        /\ DataFunction

-----------------------------------------------------------------------------
\* The request of an idle thread is a request.
LEMMA NoRequestType == NoRequest \in Requests
<1>1. \E r \in Requests : TRUE
  BY RequestAssumption
<1> QED
  BY <1>1, Zenon DEF NoRequest

\* The initial states satisfy the inductive invariant.
LEMMA InitInv == Init => IInv
<1> SUFFICES ASSUME Init PROVE IInv
  OBVIOUS
<1>1. NoRequest \in Requests
  BY NoRequestType
<1>2. TypeOK
  <2>1. PICK v \in Values :
          /\ sd = [x \in Sectors |-> v]
          /\ nand = [d \in Devices |-> [b \in Blocks |-> Uniform(v)]]
    BY DEF Init
  <2>2. Uniform(v) \in [0..3 -> Values]
    BY DEF Uniform
  <2>3. nand \in [Devices -> [Blocks -> [0..3 -> Values]]]
    BY <2>1, <2>2, Zenon
  <2>4. sd \in [Sectors -> Values]
    BY <2>1
  <2>5. regs \in 0..MaxRegs
    BY BoundAssumption DEF Init
  <2>6. pc \in [Threads -> Places] /\ req \in [Threads -> Requests \cup MlcIo]
    BY <1>1 DEF Init, Places
  <2>7. opsem \in [Threads -> {0, 1}] /\ result \in [Threads -> {"none", "ok", "error", "rejected"}]
    BY DEF Init
  <2> QED
    BY <2>3, <2>4, <2>5, <2>6, <2>7 DEF Init, TypeOK
<1>3. /\ MutualExclusion /\ LockHeld /\ QuietAtBoot
      /\ OneCommand /\ CommandsMatch /\ PathMatches /\ DataFunction
  BY DEF Init, MutualExclusion, LockHeld, QuietAtBoot, OneCommand, CommandsMatch,
         PathMatches, DataFunction, Holds
<1> QED
  BY <1>2, <1>3 DEF IInv

\* A command that CommandsMatch allows has a value and a direction of the right
\* type.
LEMMA CommandTypes ==
  ASSUME IInv, NEW c \in cmds
  PROVE  /\ c.thread \in Threads
         /\ c.kind \in {"native", "redirected"}
         /\ c.op \in {"read", "write"}
         /\ c.val \in Values
         /\ c.kind = "native" => pc[c.thread] = "native"
         /\ c.kind = "redirected" => pc[c.thread] = "wait" /\ opsem[c.thread] = 0
<1>1. c.thread \in Threads
  BY DEF IInv, CommandsMatch
<1>2. req[c.thread] \in Requests \cup MlcIo
  BY <1>1 DEF IInv, TypeOK
<1>3. req[c.thread].op \in {"read", "write"} /\ req[c.thread].val \in Values
  BY <1>2, RequestAssumption
<1>4. CASE pc[c.thread] = "native"
  <2>1. PICK io \in FatIo :
          c = [thread |-> c.thread, kind |-> "native", op |-> io.op,
               val |-> io.val, first |-> io.sector, cnt |-> 1]
    BY <1>4 DEF IInv, CommandsMatch
  <2>2. io.op \in {"read", "write"} /\ io.val \in Values
    BY RequestAssumption
  <2> QED
    BY <1>1, <1>4, <2>1, <2>2
<1>5. CASE pc[c.thread] = "wait" /\ opsem[c.thread] = 0
  <2>1. c = Command(c.thread, req[c.thread])
    BY <1>5 DEF IInv, CommandsMatch
  <2> QED
    BY <1>1, <1>3, <1>5, <2>1 DEF Command
<1> QED
  BY <1>4, <1>5 DEF IInv, CommandsMatch

\* The start-up and registration steps.
LEMMA SystemStep ==
  ASSUME IInv,
         \/ sdcard_init \/ sdcard_init_end \/ CardInitialised
         \/ registerMdDevice_hook \/ registerMdDevice_hook_end
  PROVE  IInv'
<1> USE DEF IInv, TypeOK, MutualExclusion, LockHeld, QuietAtBoot, OneCommand,
            CommandsMatch, PathMatches, DataFunction, Holds, tvars, iosWaitSemaphore, Command,
            iosSignalSemaphore, Redirected, first_sector, sector_count, slc_offset
<1>1. CASE sdcard_init
  BY <1>1 DEF sdcard_init
<1>2. CASE sdcard_init_end
  BY <1>2 DEF sdcard_init_end
<1>3. CASE CardInitialised
  BY <1>3 DEF CardInitialised
<1>4. CASE registerMdDevice_hook
  <2>1. \A t \in Threads : pc[t] # "wait"
    BY <1>4 DEF registerMdDevice_hook
  <2>2. CommandsMatch'
    BY <1>4, <2>1 DEF registerMdDevice_hook
  <2>5. regs' \in 0..MaxRegs
    BY <1>4, BoundAssumption DEF registerMdDevice_hook
  <2>3. TypeOK'
    BY <1>4, <2>5 DEF registerMdDevice_hook
  <2>4. (MutualExclusion /\ LockHeld /\ QuietAtBoot /\ OneCommand /\ PathMatches /\ DataFunction)'
    BY <1>4 DEF registerMdDevice_hook
  <2> QED
    BY <2>2, <2>3, <2>4
<1>5. CASE registerMdDevice_hook_end
  BY <1>5 DEF registerMdDevice_hook_end
<1> QED
  BY <1>1, <1>2, <1>3, <1>4, <1>5

\* Storing into a buffer keeps DataFunction.
LEMMA DataStep ==
  ASSUME DataFunction, NEW t, NEW x, data' = [data EXCEPT ![t] = x]
  PROVE  /\ DataFunction'
         /\ t \in Threads => data'[t] = x
         /\ \A u \in Threads \ {t} : data'[u] = data[u]
<1>1. DOMAIN data = Threads
  BY Zenon DEF DataFunction
<1>2. data' = [u \in DOMAIN data |-> IF u = t THEN x ELSE data[u]]
  OBVIOUS
<1>3. data' = [u \in Threads |-> IF u = t THEN x ELSE data[u]]
  BY <1>1, <1>2
<1>4. \A u \in Threads : data'[u] = IF u = t THEN x ELSE data[u]
  BY <1>3
<1> QED
  BY <1>3, <1>4 DEF DataFunction

\* The steps of a thread between its request and its answer.
LEMMA ThreadStep ==
  ASSUME IInv, NEW t \in Threads, Step(t)
  PROVE  IInv'
<1> USE DEF IInv, TypeOK, MutualExclusion, LockHeld, QuietAtBoot, OneCommand,
            CommandsMatch, PathMatches, Holds, svars, Places, iosWaitSemaphore,
            iosSignalSemaphore, Redirected, first_sector, sector_count, slc_offset
<1>1. CASE sdcard_readwrite_acquire(t)
  BY <1>1 DEF sdcard_readwrite_acquire, Command, DataFunction
<1>2. CASE sdcard_readwrite_issue(t)
  <2>1. \A c \in cmds : c.thread # t
    BY <1>2 DEF sdcard_readwrite_issue
  <2>2. Command(t, req[t]).thread = t
    BY DEF Command
  <2>3. OneCommand'
    BY <1>2, <2>1, <2>2 DEF sdcard_readwrite_issue
  <2>4. md = "idle"
    BY <1>2 DEF sdcard_readwrite_issue
  <2>5. CommandsMatch'
    <3> SUFFICES ASSUME NEW c \in cmds'
                 PROVE  /\ c.thread \in Threads
                        /\ \/ /\ pc'[c.thread] = "native"
                              /\ \E io \in FatIo :
                                   c = [thread |-> c.thread, kind |-> "native", op |-> io.op,
                                        val |-> io.val, first |-> io.sector, cnt |-> 1]
                           \/ /\ pc'[c.thread] = "wait" /\ opsem'[c.thread] = 0
                              /\ c = Command(c.thread, req[c.thread])
                              /\ ready' /\ card' /\ md' = "idle"
      BY <1>2 DEF sdcard_readwrite_issue, Command
    <3>1. CASE c = Command(t, req[t])
      BY <1>2, <2>2, <2>4, <3>1 DEF sdcard_readwrite_issue
    <3>2. CASE c \in cmds
      BY <1>2, <2>1, <3>2 DEF sdcard_readwrite_issue
    <3> QED
      BY <1>2, <3>1, <3>2 DEF sdcard_readwrite_issue
  <2> QED
    BY <1>2, <2>3, <2>5 DEF sdcard_readwrite_issue, DataFunction
<1>3. CASE sdcard_readwrite_reject(t)
  <2>1. DataFunction'
    BY <1>3, DataStep DEF sdcard_readwrite_reject
  <2> QED
    BY <1>3, <2>1 DEF sdcard_readwrite_reject, Command
<1>4. CASE sdcard_readwrite_wait(t)
  BY <1>4 DEF sdcard_readwrite_wait, Command, DataFunction
<1>5. CASE sdcard_readwrite_release(t)
  BY <1>5 DEF sdcard_readwrite_release, Command, DataFunction
<1>6. CASE readWriteCallback_patch(t)
  BY <1>6 DEF readWriteCallback_patch, Command, DataFunction
<1>7. CASE Return(t)
  <2>1. DataFunction'
    BY <1>7, DataStep DEF Return
  <2>2. NoRequest \in Requests
    BY NoRequestType
  <2> QED
    BY <1>7, <2>1, <2>2 DEF Return, Command
<1>8. CASE NandIo(t)
  <2>1. DataFunction'
    BY <1>8, DataStep DEF NandIo
  <2>2. req[t].dev \in Devices /\ req[t].val \in Values
    BY <1>8, RequestAssumption DEF NandIo
  <2>3. Uniform(req[t].val) \in [0..3 -> Values]
    BY <2>2 DEF Uniform
  <2>4. nand' \in [Devices -> [Blocks -> [0..3 -> Values]]]
    BY <1>8, <2>2, <2>3 DEF NandIo
  <2> QED
    BY <1>8, <2>1, <2>4 DEF NandIo, Command
<1> QED
  BY <1>1, <1>2, <1>3, <1>4, <1>5, <1>6, <1>7, <1>8 DEF Step

\* A thread of IOS-FS enters the patched functions.
LEMMA RequestStep ==
  ASSUME IInv, NEW t \in Threads,
         \/ \E r \in Requests : slcReadWrite_patch(t, r)
         \/ \E r \in MlcIo : sdcardReadWrite_patch_mlc(t, r)
         \/ \E io \in FatIo : sdcardReadWrite_patch(t, io)
  PROVE  IInv'
<1> USE DEF IInv, TypeOK, MutualExclusion, LockHeld, QuietAtBoot, OneCommand,
            CommandsMatch, PathMatches, Holds, svars, Places, DataFunction
<1>1. \A c \in cmds : pc[t] = "idle" => c.thread # t
  OBVIOUS
<1>2. ASSUME NEW r \in Requests, slcReadWrite_patch(t, r) PROVE IInv'
  BY ZenonT(60), <1>1, <1>2 DEF slcReadWrite_patch, Command, Redirected, first_sector, sector_count,
                    slc_offset
<1>3. ASSUME NEW io \in FatIo, sdcardReadWrite_patch(t, io) PROVE IInv'
  <2> DEFINE new == [thread |-> t, kind |-> "native", op |-> io.op, val |-> io.val,
                     first |-> io.sector, cnt |-> 1]
  <2>1. cmds' = cmds \cup {new} /\ new.thread = t
    BY <1>3 DEF sdcardReadWrite_patch
  <2>2. OneCommand'
    BY <1>1, <1>3, <2>1 DEF sdcardReadWrite_patch
  <2>3. CommandsMatch'
    <3> SUFFICES ASSUME NEW c \in cmds'
                 PROVE  /\ c.thread \in Threads
                        /\ \/ /\ pc'[c.thread] = "native"
                              /\ \E x \in FatIo :
                                   c = [thread |-> c.thread, kind |-> "native", op |-> x.op,
                                        val |-> x.val, first |-> x.sector, cnt |-> 1]
                           \/ /\ pc'[c.thread] = "wait" /\ opsem'[c.thread] = 0
                              /\ c = Command(c.thread, req[c.thread])
                              /\ ready' /\ card' /\ md' = "idle"
      BY <1>3 DEF sdcardReadWrite_patch, Command, first_sector, sector_count, slc_offset
    <3>1. CASE c = new
      BY <1>3, <2>1, <3>1 DEF sdcardReadWrite_patch
    <3>2. CASE c \in cmds
      BY <1>1, <1>3, <3>2 DEF sdcardReadWrite_patch
    <3> QED
      BY <2>1, <3>1, <3>2
  <2>4. (TypeOK /\ MutualExclusion /\ LockHeld /\ QuietAtBoot /\ PathMatches /\ DataFunction)'
    BY <1>3 DEF sdcardReadWrite_patch, Redirected
  <2> QED
    BY <2>2, <2>3, <2>4
<1>4. ASSUME NEW r \in MlcIo, sdcardReadWrite_patch_mlc(t, r) PROVE IInv'
  <2>1. r \notin Requests
    BY RequestAssumption
  <2> QED
    BY ZenonT(60), <1>1, <1>4, <2>1
       DEF sdcardReadWrite_patch_mlc, Command, Redirected, first_sector, sector_count, slc_offset
<1> QED
  BY <1>2, <1>3, <1>4

\* The driver finishes a command.
LEMMA DriverStep ==
  ASSUME IInv, NEW c \in cmds, DriverOk(c) \/ DriverError(c)
  PROVE  IInv'
<1> DEFINE t == c.thread
<1>1. t \in Threads /\ c.val \in Values
  BY CommandTypes
<1>2. cmds' = cmds \ {c} /\ UNCHANGED <<svars, req, nand>>
  BY DEF DriverOk, DriverError
<1>3. sd' \in [Sectors -> Values]
  <2>1. PICK n : Transfer(c, n)
    BY DEF DriverOk, DriverError
  <2> QED
    BY <1>1, <2>1 DEF Transfer, IInv, TypeOK
<1>4. \A d \in cmds' : d \in cmds /\ d.thread # t
  BY <1>2 DEF IInv, OneCommand
<1>5. CASE c.kind = "native"
  <2>1. NativeDone(t) /\ pc[t] = "native"
    BY <1>5, CommandTypes DEF DriverOk, DriverError
  <2>2. (TypeOK /\ MutualExclusion /\ LockHeld /\ QuietAtBoot /\ PathMatches /\ DataFunction)'
    BY <1>1, <1>2, <1>3, <2>1
       DEF NativeDone, IInv, TypeOK, MutualExclusion, LockHeld, QuietAtBoot, PathMatches,
           DataFunction, Holds, svars, Places, Redirected
  <2>3. (OneCommand /\ CommandsMatch)'
    BY <1>1, <1>2, <1>4, <2>1
       DEF NativeDone, IInv, TypeOK, OneCommand, CommandsMatch, svars, Command,
           first_sector, sector_count, slc_offset
  <2> QED
    BY <2>2, <2>3 DEF IInv
<1>6. CASE c.kind = "redirected"
  <2>0. PICK res \in {"ok", "error"} : \E x : sdcard_readwrite_callback(t, res, x)
    BY <1>6 DEF DriverOk, DriverError
  <2>1. PICK x : sdcard_readwrite_callback(t, res, x)
    BY <2>0
  <2>2. DataFunction'
    BY <2>1, DataStep DEF sdcard_readwrite_callback, IInv
  <2>3. pc[t] = "wait"
    BY <1>6, CommandTypes
  <2>4. (TypeOK /\ MutualExclusion /\ LockHeld /\ QuietAtBoot /\ PathMatches)'
    BY <1>1, <1>2, <1>3, <2>1, <2>3
       DEF sdcard_readwrite_callback, IInv, TypeOK, MutualExclusion, LockHeld, QuietAtBoot,
           PathMatches, Holds, svars, Places, Redirected
  <2>5. (OneCommand /\ CommandsMatch)'
    BY <1>1, <1>2, <1>4, <2>1
       DEF sdcard_readwrite_callback, IInv, TypeOK, OneCommand, CommandsMatch, svars, Command,
           first_sector, sector_count, slc_offset
  <2> QED
    BY <2>2, <2>4, <2>5 DEF IInv
<1> QED
  BY <1>5, <1>6, CommandTypes

\* Every step keeps the inductive invariant.
LEMMA NextInv == IInv /\ [Next]_vars => IInv'
<1> SUFFICES ASSUME IInv, [Next]_vars PROVE IInv'
  OBVIOUS
<1>1. CASE \/ sdcard_init \/ sdcard_init_end \/ CardInitialised
           \/ registerMdDevice_hook \/ registerMdDevice_hook_end
  BY <1>1, SystemStep
<1>2. ASSUME NEW t \in Threads, Step(t) PROVE IInv'
  BY <1>2, ThreadStep
<1>3. ASSUME NEW t \in Threads, Driver(t) PROVE IInv'
  BY <1>3, DriverStep DEF Driver
<1>4. ASSUME NEW t \in Threads,
             \/ \E r \in Requests : slcReadWrite_patch(t, r)
             \/ \E r \in MlcIo : sdcardReadWrite_patch_mlc(t, r)
             \/ \E io \in FatIo : sdcardReadWrite_patch(t, io)
      PROVE  IInv'
  BY <1>4, RequestStep
<1>5. CASE UNCHANGED vars
  BY <1>5 DEF vars, svars, tvars, IInv, TypeOK, MutualExclusion, LockHeld, QuietAtBoot,
              OneCommand, CommandsMatch, PathMatches, DataFunction, Holds, Command,
              Redirected, first_sector, sector_count, slc_offset
<1> QED
  BY <1>1, <1>2, <1>3, <1>4, <1>5 DEF Next

\* The inductive invariant holds in every reachable state.
LEMMA Invariance == Spec => []IInv
<1>1. Init => IInv
  BY InitInv
<1>2. IInv /\ [Next]_vars => IInv'
  BY NextInv
<1> QED
  BY <1>1, <1>2, PTL DEF Spec

\* Every reachable state of the redirection has the types of TypeOK; the counts
\* of the semaphores are 0 or 1.
THEOREM TypeCorrect == Spec => []TypeOK
<1>1. IInv => TypeOK
  BY DEF IInv
<1> QED
  BY <1>1, Invariance, PTL

\* For any number of threads, sdcard_access_mutex keeps redirected requests from
\* overlapping with each other and with the registration of the card.
THEOREM Exclusion == Spec => []MutualExclusion
<1>1. IInv => MutualExclusion
  BY DEF IInv
<1> QED
  BY <1>1, Invariance, PTL

\* The card stays ready and registered while a redirected command is at work.
THEOREM Readiness == Spec => []ReadyWhileBusy
<1>1. IInv => ReadyWhileBusy
  <2> SUFFICES ASSUME IInv, NEW c \in cmds, c.kind = "redirected"
               PROVE  ready /\ card /\ md = "idle"
    BY DEF ReadyWhileBusy
  <2>1. pc[c.thread] = "wait"
    BY CommandTypes
  <2> QED
    BY <2>1 DEF IInv, CommandsMatch
<1> QED
  BY <1>1, Invariance, PTL

\* sdcard_readwrite_callback always finds the stack frame and the semaphore it
\* was given, whenever the driver calls it.
THEOREM FrameSafety == Spec => []CallbackFindsFrame
<1>1. IInv => CallbackFindsFrame
  BY CommandTypes DEF CallbackFindsFrame
<1> QED
  BY <1>1, Invariance, PTL

-----------------------------------------------------------------------------
(* The redirected devices implement BlockStore. *)

\* The sectors of block b of a redirected device are on the card.
LEMMA BlockSectors ==
  ASSUME IInv, NEW d \in Devices, Redirected(d), NEW b \in Blocks, NEW i \in 0..3
  PROVE  /\ conf.off[d] \in Nat /\ conf.size[d] \in Nat /\ b \in Nat
         /\ conf.off[d] % 4 = 0
         /\ conf.off[d] + 4 * b + i < conf.off[d] + conf.size[d]
         /\ conf.off[d] + 4 * b + i \in Sectors
<1>1. conf \in Configs
  BY DEF IInv, TypeOK
<1>2. /\ conf.off[d] \in Nat /\ conf.size[d] \in Nat /\ b \in Nat
      /\ conf.off[d] % 4 = 0 /\ 4 * b + 3 < conf.size[d]
      /\ conf.off[d]..(conf.off[d] + conf.size[d] - 1) \subseteq Sectors
  BY <1>1, LayoutAssumption DEF Redirected
<1>3. /\ conf.off[d] + 4 * b + i < conf.off[d] + conf.size[d]
      /\ conf.off[d] + 4 * b + i \in conf.off[d]..(conf.off[d] + conf.size[d] - 1)
  BY <1>2
<1> QED
  BY <1>2, <1>3

\* Two redirected devices do not share a sector.
LEMMA PartitionsDisjoint ==
  ASSUME IInv, NEW d \in Devices, NEW e \in Devices, d # e,
         Redirected(d), Redirected(e)
  PROVE  \/ conf.off[d] + conf.size[d] <= conf.off[e]
         \/ conf.off[e] + conf.size[e] <= conf.off[d]
BY LayoutAssumption DEF IInv, TypeOK, Redirected

\* slcReadWrite_patch, readWriteCallback_patch and the block size loop together
\* compute the right sectors.
LEMMA CommandSectors ==
  ASSUME IInv, NEW r \in Requests, Redirected(r.dev)
  PROVE  /\ r.dev \in Devices /\ r.blk \in Nat /\ r.cnt \in Nat
         /\ conf.off[r.dev] \in Nat
         /\ first_sector(r) = conf.off[r.dev] + 4 * r.blk
         /\ sector_count(r) = 4 * r.cnt
<1>1. r.dev \in Devices /\ r.blk \in Nat /\ r.cnt \in Nat
  BY RequestAssumption
<1>2. conf.off[r.dev] \in Nat /\ conf.off[r.dev] % 4 = 0
  BY <1>1, LayoutAssumption DEF IInv, TypeOK, Redirected
<1>3. block_size_adjust(BlockSize(r.dev)) = 4 /\ slc_offset(r.dev) = conf.off[r.dev] \div 4
  BY <1>1 DEF block_size_adjust, BlockSize, slc_offset
<1>4. 4 * (conf.off[r.dev] \div 4) = conf.off[r.dev]
  BY <1>2
<1> QED
  BY <1>1, <1>2, <1>3, <1>4 DEF first_sector, sector_count

\* A request to redMLC becomes a command for the very sector it names.
LEMMA MlcSector ==
  ASSUME NEW r \in MlcIo, NEW t
  PROVE  /\ r.dev \notin Devices /\ r \notin Requests
         /\ Command(t, r).first = r.blk /\ Command(t, r).cnt = 1
<1>1. r.dev = "mlc" /\ r.blk \in Nat /\ r.cnt = 1
  BY RequestAssumption, LayoutAssumption
<1>2. r.dev \notin Devices /\ r \notin Requests
  BY <1>1, RequestAssumption
<1>3. block_size_adjust(BlockSize(r.dev)) = 1 /\ slc_offset(r.dev) = 0
  BY <1>2 DEF block_size_adjust, BlockSize, slc_offset
<1> QED
  BY <1>1, <1>2, <1>3 DEF Command, first_sector, sector_count

\* The last block of a request is a block of the device.
LEMMA SpanFits ==
  ASSUME NEW r \in Requests
  PROVE  /\ \A b \in Int : b \in Span(r) <=> r.blk <= b /\ b < r.blk + r.cnt
         /\ r.cnt > 0 => r.blk + r.cnt - 1 \in Blocks
         /\ Span(r) \subseteq Blocks
<1>1. r.blk \in Nat /\ r.cnt \in Nat /\ Span(r) \subseteq Blocks
  BY RequestAssumption
<1> QED
  BY <1>1 DEF Span

\* A sector that a command does not write keeps its content.
LEMMA TransferFrame ==
  ASSUME IInv, NEW c, NEW n, Transfer(c, n), NEW s \in Sectors,
         s \notin SectorsOf(c)
  PROVE  sd'[s] = sd[s]
BY DEF Transfer, IInv, TypeOK

\* A redirected command changes only the blocks of its request.
LEMMA RedirectedFrame ==
  ASSUME IInv, NEW r \in Requests, Redirected(r.dev), NEW t \in Threads,
         NEW n, Transfer(Command(t, r), n), UNCHANGED <<conf, nand>>,
         NEW d \in Devices, NEW b \in Blocks, d # r.dev \/ b \notin Span(r)
  PROVE  StoreOf(d)'[b] = StoreOf(d)[b]
<1> DEFINE c == Command(t, r)
<1>1. /\ r.dev \in Devices /\ r.blk \in Nat /\ r.cnt \in Nat
      /\ conf.off[r.dev] \in Nat
      /\ c.first = conf.off[r.dev] + 4 * r.blk /\ c.cnt = 4 * r.cnt
  BY CommandSectors DEF Command
<1>2. CASE Redirected(d)
  <2>1. ASSUME NEW i \in 0..3
        PROVE  sd'[conf.off[d] + 4 * b + i] = sd[conf.off[d] + 4 * b + i]
    <3> DEFINE s == conf.off[d] + 4 * b + i
    <3>1. /\ conf.off[d] \in Nat /\ conf.size[d] \in Nat /\ b \in Nat
          /\ s < conf.off[d] + conf.size[d] /\ s \in Sectors
      BY <1>2, BlockSectors
    <3>2. s \notin SectorsOf(c)
      <4> SUFFICES ASSUME s \in SectorsOf(c) PROVE FALSE
        OBVIOUS
      <4>1. /\ conf.off[r.dev] + 4 * r.blk <= s
            /\ s < conf.off[r.dev] + 4 * r.blk + 4 * r.cnt
            /\ r.cnt > 0
        BY <1>1, <3>1 DEF SectorsOf
      <4>2. CASE d = r.dev
        <5>1. r.blk <= b /\ b < r.blk + r.cnt
          BY <1>1, <3>1, <4>1, <4>2
        <5> QED
          BY <3>1, <4>2, <5>1, SpanFits
      <4>3. CASE d # r.dev
        <5>1. r.blk + r.cnt - 1 \in Blocks
          BY <4>1, SpanFits
        <5>2. conf.off[r.dev] + 4 * (r.blk + r.cnt - 1) + 3
                < conf.off[r.dev] + conf.size[r.dev]
          BY <1>1, <5>1, BlockSectors
        <5>3. conf.size[r.dev] \in Nat
          BY <1>1, <5>1, BlockSectors
        <5> HIDE DEF s
        <5>4. \/ conf.off[d] + conf.size[d] <= conf.off[r.dev]
              \/ conf.off[r.dev] + conf.size[r.dev] <= conf.off[d]
          BY <1>1, <1>2, <4>3, PartitionsDisjoint
        <5>5. s >= conf.off[d] /\ s \in Nat
          BY <3>1 DEF s
        <5> QED
          BY <1>1, <3>1, <4>1, <5>2, <5>3, <5>4, <5>5
      <4> QED
        BY <4>2, <4>3
    <3> QED
      BY <3>1, <3>2, TransferFrame
  <2>2. BlockAt(conf.off[d] + 4 * b)' = BlockAt(conf.off[d] + 4 * b)
    BY <2>1 DEF BlockAt
  <2> QED
    BY <1>2, <2>2 DEF StoreOf, Redirected
<1>3. CASE ~Redirected(d)
  BY <1>3 DEF StoreOf, Redirected
<1> QED
  BY <1>2, <1>3

\* I/O of the FAT driver and on redMLC changes no block of SLC or SLCCMPT.
LEMMA OtherFrame ==
  ASSUME IInv, NEW s \in OtherSectors, NEW c, c.first = s, c.cnt = 1,
         NEW n, Transfer(c, n), UNCHANGED <<conf, nand>>,
         NEW d \in Devices, NEW b \in Blocks
  PROVE  StoreOf(d)'[b] = StoreOf(d)[b]
<1>1. CASE Redirected(d)
  <2>1. ASSUME NEW i \in 0..3
        PROVE  sd'[conf.off[d] + 4 * b + i] = sd[conf.off[d] + 4 * b + i]
    <3>1. /\ conf.off[d] \in Nat /\ conf.size[d] \in Nat /\ b \in Nat
          /\ conf.off[d] + 4 * b + i < conf.off[d] + conf.size[d]
          /\ conf.off[d] + 4 * b + i \in Sectors
      BY <1>1, BlockSectors
    <3>2. s < conf.off[d] \/ conf.off[d] + conf.size[d] <= s
      BY <1>1, LayoutAssumption DEF IInv, TypeOK, Redirected
    <3>3. s \in Nat
      BY RequestAssumption, LayoutAssumption DEF OtherSectors
    <3>4. conf.off[d] + 4 * b + i \notin SectorsOf(c)
      BY <3>1, <3>2, <3>3 DEF SectorsOf
    <3> QED
      BY <3>1, <3>4, TransferFrame
  <2>2. BlockAt(conf.off[d] + 4 * b)' = BlockAt(conf.off[d] + 4 * b)
    BY <2>1 DEF BlockAt
  <2> QED
    BY <1>1, <2>2 DEF StoreOf, Redirected
<1>2. CASE ~Redirected(d)
  BY <1>2 DEF StoreOf, Redirected
<1> QED
  BY <1>1, <1>2

\* A write that ends well leaves its value in every block of its request.
LEMMA WriteEffect ==
  ASSUME IInv, NEW r \in Requests, Redirected(r.dev), NEW t \in Threads,
         r.op = "write", Transfer(Command(t, r), Command(t, r).cnt), UNCHANGED conf,
         NEW b \in Span(r)
  PROVE  StoreOf(r.dev)'[b] = Uniform(r.val)
<1> DEFINE c == Command(t, r)
<1>1. /\ r.dev \in Devices /\ r.blk \in Nat /\ r.cnt \in Nat
      /\ conf.off[r.dev] \in Nat
      /\ c.first = conf.off[r.dev] + 4 * r.blk /\ c.cnt = 4 * r.cnt
      /\ c.val = r.val /\ c.op = "write"
  BY CommandSectors DEF Command
<1>2. b \in Blocks /\ b \in Nat
  BY SpanFits, LayoutAssumption
<1>3. r.blk <= b /\ b < r.blk + r.cnt
  BY <1>2, SpanFits
<1>4. ASSUME NEW i \in 0..3
      PROVE  sd'[conf.off[r.dev] + 4 * b + i] = r.val
  <2>1. conf.off[r.dev] + 4 * b + i \in Sectors
    BY <1>1, <1>2, BlockSectors
  <2>2. /\ conf.off[r.dev] + 4 * b + i \in SectorsOf(c)
        /\ conf.off[r.dev] + 4 * b + i < c.first + c.cnt
    BY <1>1, <1>2, <1>3 DEF SectorsOf
  <2> QED
    BY <1>1, <2>1, <2>2 DEF Transfer
<1>5. BlockAt(conf.off[r.dev] + 4 * b)' = Uniform(r.val)
  BY <1>4 DEF BlockAt, Uniform
<1> QED
  BY <1>2, <1>5 DEF StoreOf, Redirected

\* A read gets what the blocks of its request hold.
LEMMA ReadEffect ==
  ASSUME IInv, NEW r \in Requests, Redirected(r.dev), NEW t \in Threads
  PROVE  ReadData(Command(t, r), r) = [b \in Span(r) |-> StoreOf(r.dev)[b]]
<1>1. /\ r.dev \in Devices /\ r.blk \in Nat /\ r.cnt \in Nat
      /\ conf.off[r.dev] \in Nat
      /\ Command(t, r).first = conf.off[r.dev] + 4 * r.blk
  BY CommandSectors DEF Command
<1>2. ASSUME NEW b \in Span(r)
      PROVE  BlockAt(Command(t, r).first + 4 * (b - r.blk)) = StoreOf(r.dev)[b]
  <2>1. b \in Blocks /\ b \in Nat
    BY SpanFits, LayoutAssumption
  <2>2. Command(t, r).first + 4 * (b - r.blk) = conf.off[r.dev] + 4 * b
    BY <1>1, <2>1
  <2>3. StoreOf(r.dev)[b] = BlockAt(conf.off[r.dev] + 4 * b)
    BY <2>1 DEF StoreOf
  <2> QED
    BY <2>2, <2>3
<1> QED
  BY <1>2 DEF ReadData

\* The cases of OpView.
LEMMA OpViewCases ==
  ASSUME NEW r, NEW sem, NEW res, NEW buf
  PROVE  /\ OpView("idle", r, sem, res, buf) = Store!NoOp
         /\ OpView("native", r, sem, res, buf) = Store!NoOp
         /\ \A p \in {"acquire", "issue", "nand"} :
              OpView(p, r, sem, res, buf) = Store!Open(r)
         /\ OpView("wait", r, 0, res, buf) = Store!Open(r)
         /\ OpView("wait", r, 1, res, buf) = Store!Done(r, Reply(r, res), buf)
         /\ \A p \in {"release", "failed", "callback", "return"} :
              OpView(p, r, sem, res, buf) = Store!Done(r, Reply(r, res), buf)
BY DEF OpView, Store!NoOp, Store!Open, Store!Done

\* What a request is told of an error that comes late, of one that comes at once,
\* and of none.
LEMMA ReplyCases ==
  ASSUME NEW r, r.cb \in BOOLEAN
  PROVE  /\ Reply(r, "ok") = "ok"
         /\ Reply(r, "rejected") = "error"
         /\ Reply(r, "error") = IF r.cb THEN "error" ELSE "ok"
BY DEF Reply

\* A request as BlockStore sees it.
LEMMA ContentRequest ==
  ASSUME NEW r \in Requests
  PROVE  /\ WithContent(r) \in {WithContent(x) : x \in Requests}
         /\ WithContent(r).dev = r.dev
         /\ WithContent(r).op = r.op
         /\ WithContent(r).cb = r.cb /\ r.cb \in BOOLEAN
         /\ WithContent(r).val = Uniform(r.val)
         /\ Span(WithContent(r)) = Span(r)
<1>1. r \in [dev : Devices, op : {"read", "write"}, blk : Nat, cnt : Nat,
             val : Values, cb : BOOLEAN]
  BY RequestAssumption
<1>2. /\ WithContent(r).dev = r.dev /\ WithContent(r).op = r.op
      /\ WithContent(r).val = Uniform(r.val)
      /\ WithContent(r).blk = r.blk /\ WithContent(r).cnt = r.cnt
      /\ WithContent(r).cb = r.cb
  BY <1>1 DEF WithContent
<1> QED
  BY <1>1, <1>2 DEF Span

AStore == [d \in Devices |-> StoreOf(d)]
AOp == [t \in Threads |-> OpOf(t)]

\* What the FS sees of a thread with a request to SLC or SLCCMPT, and of one with
\* a request to redMLC.
LEMMA OpOfCases ==
  /\ \A t \in Threads : req[t] \in Requests =>
       OpOf(t) = OpView(pc[t], WithContent(req[t]), opsem[t], result[t], data[t])
  /\ \A t \in Threads : req[t] \in MlcIo => OpOf(t) = Store!NoOp
  /\ \A t \in Threads : req'[t] \in Requests =>
       OpOf(t)' = OpView(pc'[t], WithContent(req'[t]), opsem'[t], result'[t], data'[t])
  /\ \A t \in Threads : req'[t] \in MlcIo => OpOf(t)' = Store!NoOp
BY RequestAssumption, MlcSector DEF OpOf, Store!NoOp

\* A step of t changes what the FS sees of t alone.
LEMMA OpFrame ==
  ASSUME NEW t \in Threads,
         \A u \in Threads \ {t} :
           /\ pc'[u] = pc[u] /\ req'[u] = req[u] /\ opsem'[u] = opsem[u]
           /\ result'[u] = result[u] /\ data'[u] = data[u]
  PROVE  AOp' = [AOp EXCEPT ![t] = OpOf(t)']
<1>1. \A u \in Threads \ {t} : OpOf(u)' = OpOf(u)
  BY DEF OpOf
<1> QED
  BY <1>1 DEF AOp

\* A step after which nothing on the card or the NAND differs.
LEMMA StoreFrame ==
  ASSUME UNCHANGED <<conf, sd, nand>>
  PROVE  UNCHANGED AStore
BY DEF AStore, StoreOf, BlockAt, Redirected

\* The steps of BlockStore, in terms of the refinement mapping.
LEMMA AbstractSteps ==
  ASSUME NEW t \in Threads, NEW r \in Requests,
         AOp' = [AOp EXCEPT ![t] = OpOf(t)']
  PROVE  LET w == WithContent(r) IN
    /\ /\ OpOf(t)' = OpOf(t)
       /\ UNCHANGED AStore
       => UNCHANGED Store!vars
    /\ /\ OpOf(t) = Store!NoOp /\ OpOf(t)' = Store!Open(w)
       /\ UNCHANGED AStore
       => Store!Next
    /\ /\ \E res, buf : OpOf(t) = Store!Done(w, res, buf)
       /\ OpOf(t)' = Store!NoOp
       /\ UNCHANGED AStore
       => Store!Next
    /\ /\ OpOf(t) = Store!Open(w)
       /\ OpOf(t)' = Store!Done(w, "ok", [b \in Span(r) |-> AStore[r.dev][b]])
       /\ r.op = "read" /\ UNCHANGED AStore
       => Store!Next
    /\ /\ OpOf(t) = Store!Open(w) /\ OpOf(t)' = Store!Done(w, "ok", << >>)
       /\ r.op = "write"
       /\ \A d \in Devices, b \in Blocks :
            (d # r.dev \/ b \notin Span(r)) => AStore'[d][b] = AStore[d][b]
       /\ \A b \in Span(r) : AStore'[r.dev][b] = Uniform(r.val)
       => Store!Next
    /\ /\ OpOf(t) = Store!Open(w)
       /\ \/ OpOf(t)' = Store!Done(w, "error", << >>)
          \/ ~r.cb /\ OpOf(t)' = Store!Done(w, "ok", << >>)
       /\ \A d \in Devices, b \in Blocks :
            (d # r.dev \/ b \notin Span(r)) => AStore'[d][b] = AStore[d][b]
       /\ r.op = "read" => UNCHANGED AStore
       => Store!Next
<1> DEFINE w == WithContent(r)
<1>1. /\ w \in {WithContent(x) : x \in Requests}
      /\ w.dev = r.dev /\ w.op = r.op /\ w.val = Uniform(r.val) /\ Span(w) = Span(r)
      /\ w.cb = r.cb
  BY ContentRequest
<1>2. AOp[t] = OpOf(t)
  BY DEF AOp
<1> HIDE DEF w
<1>3. /\ OpOf(t)' = OpOf(t)
      /\ UNCHANGED AStore
      => UNCHANGED Store!vars
  <2> SUFFICES ASSUME OpOf(t)' = OpOf(t), UNCHANGED AStore PROVE UNCHANGED Store!vars
    OBVIOUS
  <2>1. AOp' = AOp
    BY DEF AOp
  <2> QED
    BY <2>1 DEF Store!vars, AOp, AStore
<1>4. /\ OpOf(t) = Store!NoOp /\ OpOf(t)' = Store!Open(w)
      /\ UNCHANGED AStore
      => Store!Invoke(t)
  BY <1>1, <1>2 DEF Store!Invoke, AOp, AStore
<1>5. /\ \E res, buf : OpOf(t) = Store!Done(w, res, buf)
      /\ OpOf(t)' = Store!NoOp
      /\ UNCHANGED AStore
      => Store!Return(t)
  BY <1>2 DEF Store!Return, Store!Done, Store!NoOp, AOp, AStore
<1>6. /\ OpOf(t) = Store!Open(w)
      /\ OpOf(t)' = Store!Done(w, "ok", [b \in Span(r) |-> AStore[r.dev][b]])
      /\ r.op = "read" /\ UNCHANGED AStore
      => Store!Read(t, w)
  BY <1>1, <1>2 DEF Store!Read, Store!Answer, AOp, AStore
<1>7. /\ OpOf(t) = Store!Open(w) /\ OpOf(t)' = Store!Done(w, "ok", << >>)
      /\ r.op = "write"
      /\ \A d \in Devices, b \in Blocks :
           (d # r.dev \/ b \notin Span(r)) => AStore'[d][b] = AStore[d][b]
      /\ \A b \in Span(r) : AStore'[r.dev][b] = Uniform(r.val)
      => Store!Write(t, w)
  BY <1>1, <1>2 DEF Store!Write, Store!Answer, Store!OnlySpan, AOp, AStore
<1>8. /\ OpOf(t) = Store!Open(w)
      /\ \/ OpOf(t)' = Store!Done(w, "error", << >>)
         \/ ~r.cb /\ OpOf(t)' = Store!Done(w, "ok", << >>)
      /\ \A d \in Devices, b \in Blocks :
           (d # r.dev \/ b \notin Span(r)) => AStore'[d][b] = AStore[d][b]
      /\ r.op = "read" => UNCHANGED AStore
      => Store!Fail(t, w)
  BY <1>1, <1>2 DEF Store!Fail, Store!Answer, Store!OnlySpan, AOp, AStore
<1>9. Store!Invoke(t) \/ Store!Return(t) \/ Store!Read(t, w) \/ Store!Write(t, w)
        \/ Store!Fail(t, w) => Store!Next
  BY <1>1 DEF Store!Next
<1> QED
  BY <1>3, <1>4, <1>5, <1>6, <1>7, <1>8, <1>9 DEF w

\* The steps of a thread with a request to SLC or SLCCMPT are steps of BlockStore
\* or invisible.
LEMMA RefineThread ==
  ASSUME IInv, NEW t \in Threads, Step(t), req[t] \in Requests
  PROVE  Store!Next \/ UNCHANGED Store!vars
<1> DEFINE r == req[t]
           w == WithContent(r)
<1>0. r \in Requests /\ opsem[t] \in {0, 1} /\ w.cb = r.cb /\ r.cb \in BOOLEAN
  BY ContentRequest DEF IInv, TypeOK
<1> USE DEF IInv, TypeOK, svars
<1>1. \A u \in Threads \ {t} :
        /\ pc'[u] = pc[u] /\ req'[u] = req[u] /\ opsem'[u] = opsem[u]
        /\ result'[u] = result[u] /\ data'[u] = data[u]
  <2>1. CASE sdcard_readwrite_acquire(t) \/ sdcard_readwrite_issue(t)
             \/ sdcard_readwrite_wait(t) \/ sdcard_readwrite_release(t)
             \/ readWriteCallback_patch(t)
    BY <2>1 DEF sdcard_readwrite_acquire, sdcard_readwrite_issue, sdcard_readwrite_wait,
                sdcard_readwrite_release, readWriteCallback_patch
  <2>2. CASE sdcard_readwrite_reject(t) \/ Return(t) \/ NandIo(t)
    <3>0. PICK x : data' = [data EXCEPT ![t] = x]
      BY <2>2 DEF sdcard_readwrite_reject, Return, NandIo
    <3>1. \A u \in Threads \ {t} : data'[u] = data[u]
      BY <3>0, DataStep
    <3> QED
      BY <2>2, <3>1 DEF sdcard_readwrite_reject, Return, NandIo
  <2> QED
    BY <2>1, <2>2 DEF Step
<1>2. AOp' = [AOp EXCEPT ![t] = OpOf(t)']
  BY <1>1, OpFrame
<1>3. CASE sdcard_readwrite_acquire(t)
  <2>1. OpOf(t) = Store!Open(w) /\ OpOf(t)' = Store!Open(w)
    BY <1>3, <1>0, OpOfCases, OpViewCases DEF sdcard_readwrite_acquire
  <2>2. UNCHANGED AStore
    BY <1>3, StoreFrame DEF sdcard_readwrite_acquire
  <2> QED
    BY <1>0, <1>2, <2>1, <2>2, AbstractSteps
<1>4. CASE sdcard_readwrite_issue(t)
  <2>1. opsem[t] = 0
    BY <1>4 DEF PathMatches, sdcard_readwrite_issue
  <2>4. pc[t] = "issue" /\ pc'[t] = "wait" /\ opsem'[t] = 0 /\ req'[t] = r
    BY <1>4, <2>1 DEF sdcard_readwrite_issue
  <2>5. OpOf(t) = Store!Open(w)
    BY <2>4, <1>0, OpOfCases, OpViewCases
  <2>6. OpOf(t)' = OpView("wait", w, 0, result'[t], data'[t])
    BY <1>0, <2>4, OpOfCases
  <2>2. OpOf(t) = Store!Open(w) /\ OpOf(t)' = Store!Open(w)
    BY <2>5, <2>6, OpViewCases
  <2>3. UNCHANGED AStore
    BY <1>4, StoreFrame DEF sdcard_readwrite_issue
  <2> QED
    BY <1>0, <1>2, <2>2, <2>3, AbstractSteps
<1>5. CASE sdcard_readwrite_reject(t)
  <2>0. data' = [data EXCEPT ![t] = << >>]
    BY <1>5 DEF sdcard_readwrite_reject
  <2>4. data'[t] = << >>
    BY <2>0, DataStep
  <2>1. /\ pc'[t] = "failed" /\ req'[t] = r /\ result'[t] = "rejected"
        /\ data'[t] = << >> /\ pc[t] = "issue"
    BY <1>5, <2>4 DEF sdcard_readwrite_reject
  <2>2. OpOf(t) = Store!Open(w) /\ OpOf(t)' = Store!Done(w, "error", << >>)
    BY <1>0, <2>1, OpOfCases, OpViewCases, ReplyCases
  <2>3. UNCHANGED AStore
    BY <1>5, StoreFrame DEF sdcard_readwrite_reject
  <2> QED
    BY <1>0, <1>2, <2>2, <2>3, AbstractSteps
<1>6. CASE sdcard_readwrite_wait(t)
  <2>1. /\ OpOf(t) = Store!Done(w, Reply(w, result[t]), data[t])
        /\ OpOf(t)' = Store!Done(w, Reply(w, result[t]), data[t])
    BY <1>6, <1>0, OpOfCases, OpViewCases DEF sdcard_readwrite_wait
  <2>2. UNCHANGED AStore
    BY <1>6, StoreFrame DEF sdcard_readwrite_wait
  <2> QED
    BY <1>0, <1>2, <2>1, <2>2, AbstractSteps
<1>7. CASE sdcard_readwrite_release(t) \/ readWriteCallback_patch(t)
  <2>1. /\ pc[t] \in {"release", "failed", "callback", "return"}
        /\ pc'[t] \in {"release", "failed", "callback", "return"}
        /\ UNCHANGED <<req, opsem, result, data, conf, sd, nand>>
    BY <1>7 DEF sdcard_readwrite_release, readWriteCallback_patch
  <2>2. /\ OpOf(t) = Store!Done(w, Reply(w, result[t]), data[t])
        /\ OpOf(t)' = Store!Done(w, Reply(w, result[t]), data[t])
    BY <1>0, <2>1, OpOfCases, OpViewCases
  <2>3. UNCHANGED AStore
    BY <2>1, StoreFrame
  <2> QED
    BY <1>0, <1>2, <2>2, <2>3, AbstractSteps
<1>8. CASE Return(t)
  <2>1. pc[t] = "return" /\ pc'[t] = "idle" /\ req'[t] = NoRequest
    BY <1>8 DEF Return
  <2>2. /\ OpOf(t) = Store!Done(w, Reply(w, result[t]), data[t])
        /\ OpOf(t)' = Store!NoOp
    BY <1>0, <2>1, NoRequestType, OpOfCases, OpViewCases
  <2>3. UNCHANGED AStore
    BY <1>8, StoreFrame DEF Return
  <2> QED
    BY <1>0, <1>2, <2>2, <2>3, AbstractSteps
<1>9. CASE NandIo(t)
  <2> DEFINE buf == IF r.op = "write" THEN << >> ELSE [b \in Span(r) |-> nand[r.dev][b]]
  <2>1. /\ pc[t] = "nand" /\ pc'[t] = "return" /\ req'[t] = r /\ result'[t] = "ok"
        /\ data'[t] = buf
    <3>1. data' = [data EXCEPT ![t] = buf]
      BY <1>9 DEF NandIo
    <3> HIDE DEF buf
    <3>2. data'[t] = buf
      BY <3>1, DataStep
    <3> QED
      BY <1>9, <3>2 DEF NandIo
  <2>2. OpOf(t) = Store!Open(w) /\ OpOf(t)' = Store!Done(w, "ok", buf)
    BY <1>0, <2>1, OpOfCases, OpViewCases, ReplyCases
  <2>3. ~Redirected(r.dev) /\ r.dev \in Devices /\ r.op \in {"read", "write"}
    BY <1>0, <2>1, RequestAssumption DEF PathMatches
  <2>4. Span(r) \subseteq Blocks
    BY <1>0, RequestAssumption
  <2>5. AStore[r.dev] = [b \in Blocks |-> nand[r.dev][b]]
    BY <2>3 DEF AStore, StoreOf
  <2>6. conf' = conf /\ sd' = sd
    BY <1>9 DEF NandIo
  <2>7. \A b \in Blocks : nand'[r.dev][b] =
          IF r.op = "write" /\ b \in Span(r) THEN Uniform(r.val) ELSE nand[r.dev][b]
    BY <1>9, <2>3 DEF NandIo
  <2>8. \A d \in Devices : d # r.dev => nand'[d] = nand[d]
    BY <1>9 DEF NandIo
  <2>9. \A d \in Devices, b \in Blocks :
          AStore'[d][b] = IF d = r.dev /\ r.op = "write" /\ b \in Span(r)
                          THEN Uniform(r.val) ELSE AStore[d][b]
    BY <2>3, <2>6, <2>7, <2>8 DEF AStore, StoreOf, BlockAt, Redirected
  <2>10. CASE r.op = "write"
    <3>1. OpOf(t)' = Store!Done(w, "ok", << >>)
      BY <2>2, <2>10
    <3>2. \A d \in Devices, b \in Blocks :
            (d # r.dev \/ b \notin Span(r)) => AStore'[d][b] = AStore[d][b]
      BY <2>9
    <3>3. \A b \in Span(r) : AStore'[r.dev][b] = Uniform(r.val)
      BY <2>3, <2>4, <2>9, <2>10
    <3> QED
      BY <1>0, <1>2, <2>2, <2>10, <3>1, <3>2, <3>3, AbstractSteps
  <2>11. CASE r.op = "read"
    <3>1. \A b \in Span(r) : AStore[r.dev][b] = nand[r.dev][b]
      BY <2>4, <2>5
    <3>2. OpOf(t)' = Store!Done(w, "ok", [b \in Span(r) |-> AStore[r.dev][b]])
      BY <2>2, <2>11, <3>1
    <3>3. nand' = nand
      BY <1>9, <2>7, <2>8, <2>11 DEF NandIo
    <3>4. UNCHANGED AStore
      BY <2>6, <3>3, StoreFrame
    <3> QED
      BY <1>0, <1>2, <2>2, <2>11, <3>2, <3>4, AbstractSteps
  <2> QED
    BY <2>3, <2>10, <2>11
<1> QED
  BY <1>3, <1>4, <1>5, <1>6, <1>7, <1>8, <1>9 DEF Step

\* What a thread does for a request to redMLC is invisible on SLC and SLCCMPT.
LEMMA MlcThread ==
  ASSUME IInv, NEW t \in Threads, Step(t), req[t] \in MlcIo
  PROVE  UNCHANGED Store!vars
<1> USE DEF IInv, TypeOK, svars
<1>1. ~NandIo(t)
  BY MlcSector DEF NandIo, PathMatches
<1>2. /\ UNCHANGED <<conf, sd, nand>>
      /\ \A u \in Threads \ {t} :
           /\ pc'[u] = pc[u] /\ req'[u] = req[u] /\ opsem'[u] = opsem[u]
           /\ result'[u] = result[u]
  BY <1>1 DEF Step, sdcard_readwrite_acquire, sdcard_readwrite_issue, sdcard_readwrite_wait,
              sdcard_readwrite_release, readWriteCallback_patch, sdcard_readwrite_reject, Return
<1>3. \A u \in Threads \ {t} : data'[u] = data[u]
  <2>1. CASE data' = data
    BY <2>1
  <2>2. CASE \E x : data' = [data EXCEPT ![t] = x]
    BY <2>2, DataStep
  <2> QED
    BY <1>1, <2>1, <2>2
       DEF Step, sdcard_readwrite_acquire, sdcard_readwrite_issue, sdcard_readwrite_wait,
           sdcard_readwrite_release, readWriteCallback_patch, sdcard_readwrite_reject, Return
<1>4. req'[t] \in MlcIo \/ (req'[t] = NoRequest /\ pc'[t] = "idle")
  BY <1>1 DEF Step, sdcard_readwrite_acquire, sdcard_readwrite_issue, sdcard_readwrite_wait,
              sdcard_readwrite_release, readWriteCallback_patch, sdcard_readwrite_reject, Return
<1>5. OpOf(t) = Store!NoOp /\ OpOf(t)' = Store!NoOp
  BY <1>4, OpOfCases, OpViewCases, NoRequestType
<1>6. AOp' = [AOp EXCEPT ![t] = OpOf(t)']
  BY <1>2, <1>3, OpFrame
<1>7. UNCHANGED AStore
  BY <1>2, StoreFrame
<1> QED
  BY <1>5, <1>6, <1>7, NoRequestType, AbstractSteps

\* A request is an Invoke of BlockStore; I/O on redMLC and on the card itself is
\* invisible.
LEMMA RefineRequest ==
  ASSUME IInv, NEW t \in Threads,
         \/ \E r \in Requests : slcReadWrite_patch(t, r)
         \/ \E r \in MlcIo : sdcardReadWrite_patch_mlc(t, r)
         \/ \E io \in FatIo : sdcardReadWrite_patch(t, io)
  PROVE  Store!Next \/ UNCHANGED Store!vars
<1> USE DEF IInv, TypeOK, svars
<1>1. ASSUME NEW r \in Requests, slcReadWrite_patch(t, r) PROVE Store!Next
  <2>1. AOp' = [AOp EXCEPT ![t] = OpOf(t)']
    BY <1>1, OpFrame DEF slcReadWrite_patch
  <2>2. pc[t] = "idle" /\ pc'[t] \in {"acquire", "nand"} /\ req'[t] = r
    BY <1>1 DEF slcReadWrite_patch
  <2>3. OpOf(t) = Store!NoOp /\ OpOf(t)' = Store!Open(WithContent(r))
    BY <2>2, OpOfCases, OpViewCases
  <2>4. UNCHANGED AStore
    BY <1>1, StoreFrame DEF slcReadWrite_patch
  <2> QED
    BY <2>1, <2>3, <2>4, AbstractSteps
<1>2. ASSUME NEW io \in FatIo, sdcardReadWrite_patch(t, io) PROVE UNCHANGED Store!vars
  <2>1. AOp' = [AOp EXCEPT ![t] = OpOf(t)']
    BY <1>2, OpFrame DEF sdcardReadWrite_patch
  <2>2. pc[t] = "idle" /\ pc'[t] = "native"
    BY <1>2 DEF sdcardReadWrite_patch
  <2>4. req'[t] = req[t] /\ req[t] \in Requests \cup MlcIo
    BY <1>2 DEF sdcardReadWrite_patch
  <2>3. OpOf(t) = Store!NoOp /\ OpOf(t)' = Store!NoOp
    BY <2>2, <2>4, OpOfCases, OpViewCases
  <2>5. UNCHANGED AStore
    BY <1>2, StoreFrame DEF sdcardReadWrite_patch
  <2> QED
    BY <2>1, <2>3, <2>5, NoRequestType, AbstractSteps
<1>3. ASSUME NEW r \in MlcIo, sdcardReadWrite_patch_mlc(t, r) PROVE UNCHANGED Store!vars
  <2>1. AOp' = [AOp EXCEPT ![t] = OpOf(t)']
    BY <1>3, OpFrame DEF sdcardReadWrite_patch_mlc
  <2>2. pc[t] = "idle" /\ req[t] \in Requests \cup MlcIo /\ req'[t] = r
    BY <1>3 DEF sdcardReadWrite_patch_mlc
  <2>3. OpOf(t) = Store!NoOp /\ OpOf(t)' = Store!NoOp
    BY <2>2, OpOfCases, OpViewCases
  <2>4. UNCHANGED AStore
    BY <1>3, StoreFrame DEF sdcardReadWrite_patch_mlc
  <2> QED
    BY <2>1, <2>3, <2>4, NoRequestType, AbstractSteps
<1> QED
  BY <1>1, <1>2, <1>3

\* The end of a command for SLC or SLCCMPT is the moment its request takes
\* effect; the end of any other command is invisible.
LEMMA RefineDriver ==
  ASSUME IInv, NEW c \in cmds, DriverOk(c) \/ DriverError(c)
  PROVE  Store!Next \/ UNCHANGED Store!vars
<1> DEFINE t == c.thread
           r == req[t]
           w == WithContent(r)
<1>1. t \in Threads /\ r \in Requests \cup MlcIo
  BY CommandTypes DEF IInv, TypeOK
<1>2. UNCHANGED <<conf, nand, req>>
  BY DEF DriverOk, DriverError, svars
<1>3. CASE c.kind = "native"
  <2>1. NativeDone(t) /\ pc[t] = "native"
    BY <1>3, CommandTypes DEF DriverOk, DriverError
  <2>2. AOp' = [AOp EXCEPT ![t] = OpOf(t)']
    BY <1>1, <1>2, <2>1, OpFrame DEF NativeDone, IInv, TypeOK
  <2>3. OpOf(t) = Store!NoOp /\ OpOf(t)' = Store!NoOp
    <3>1. pc'[t] = "idle" /\ req'[t] = r
      BY <1>1, <1>2, <2>1 DEF NativeDone, IInv, TypeOK
    <3> QED
      BY <1>1, <2>1, <3>1, OpOfCases, OpViewCases
  <2>4. PICK io \in FatIo : c.first = io.sector /\ c.cnt = 1
    BY <1>1, <2>1 DEF IInv, CommandsMatch
  <2>5. PICK n : Transfer(c, n)
    BY DEF DriverOk, DriverError
  <2>6. \A d \in Devices, b \in Blocks : StoreOf(d)'[b] = StoreOf(d)[b]
    BY <1>2, <2>4, <2>5, OtherFrame DEF OtherSectors
  <2>7. \A d \in Devices : StoreOf(d)' = StoreOf(d)
    BY <1>2, <2>6 DEF StoreOf
  <2>8. UNCHANGED AStore
    BY <2>7 DEF AStore
  <2> QED
    BY <1>1, <2>2, <2>3, <2>8, NoRequestType, AbstractSteps
<1>4. ASSUME c.kind = "redirected", r \in MlcIo PROVE UNCHANGED Store!vars
  <2>1. c = Command(t, r) /\ c.first = r.blk /\ c.cnt = 1
    BY <1>1, <1>4, CommandTypes, MlcSector DEF IInv, CommandsMatch
  <2>2. OpOf(t) = Store!NoOp /\ OpOf(t)' = Store!NoOp
    BY <1>1, <1>2, <1>4, OpOfCases
  <2>3. PICK res, buf : sdcard_readwrite_callback(t, res, buf)
    BY <1>4 DEF DriverOk, DriverError
  <2>4. \A u \in Threads \ {t} :
          /\ pc'[u] = pc[u] /\ req'[u] = req[u] /\ opsem'[u] = opsem[u]
          /\ result'[u] = result[u] /\ data'[u] = data[u]
    <3>1. \A u \in Threads \ {t} : data'[u] = data[u]
      BY <2>3, DataStep DEF sdcard_readwrite_callback, IInv
    <3> QED
      BY <1>2, <2>3, <3>1 DEF sdcard_readwrite_callback, IInv, TypeOK
  <2>5. AOp' = [AOp EXCEPT ![t] = OpOf(t)']
    BY <1>1, <2>4, OpFrame
  <2>6. PICK n : Transfer(c, n)
    BY DEF DriverOk, DriverError
  <2>7. \A d \in Devices, b \in Blocks : StoreOf(d)'[b] = StoreOf(d)[b]
    BY <1>2, <1>4, <2>1, <2>6, OtherFrame DEF OtherSectors
  <2>8. \A d \in Devices : StoreOf(d)' = StoreOf(d)
    BY <1>2, <2>7 DEF StoreOf
  <2>9. UNCHANGED AStore
    BY <2>8 DEF AStore
  <2> QED
    BY <1>1, <2>2, <2>5, <2>9, NoRequestType, AbstractSteps
<1>5. ASSUME c.kind = "redirected", r \in Requests PROVE Store!Next
  <2>0. w.cb = r.cb /\ r.cb \in BOOLEAN
    BY <1>5, ContentRequest
  <2>1. /\ pc[t] = "wait" /\ opsem[t] = 0 /\ c = Command(t, r) /\ Redirected(r.dev)
    BY <1>1, <1>5, CommandTypes DEF IInv, CommandsMatch, PathMatches
  <2>2. /\ r.dev \in Devices /\ r.op \in {"read", "write"} /\ c.op = r.op
    BY <1>1, <1>5, <2>1, RequestAssumption DEF Command
  <2>3. OpOf(t) = Store!Open(w)
    BY <1>1, <1>5, <2>1, OpOfCases, OpViewCases
  <2>4. ASSUME NEW res, NEW buf, sdcard_readwrite_callback(t, res, buf)
        PROVE  /\ AOp' = [AOp EXCEPT ![t] = OpOf(t)']
               /\ OpOf(t)' = Store!Done(w, Reply(w, res), buf)
    <3>0. data'[t] = buf /\ \A u \in Threads \ {t} : data'[u] = data[u]
      BY <1>1, <2>4, DataStep DEF sdcard_readwrite_callback, IInv
    <3>1. \A u \in Threads : data'[u] = IF u = t THEN buf ELSE data[u]
      BY <3>0
    <3>2. \A u \in Threads :
            /\ result'[u] = IF u = t THEN res ELSE result[u]
            /\ opsem'[u] = IF u = t THEN 1 ELSE opsem[u]
            /\ pc'[u] = pc[u] /\ req'[u] = req[u]
      BY <1>2, <2>4 DEF sdcard_readwrite_callback, IInv, TypeOK
    <3>3. AOp' = [AOp EXCEPT ![t] = OpOf(t)']
      BY <1>1, <3>1, <3>2, OpFrame
    <3>4. pc'[t] = "wait" /\ opsem'[t] = 1 /\ req'[t] = r /\ result'[t] = res /\ data'[t] = buf
      BY <1>1, <1>5, <2>1, <3>1, <3>2
    <3> QED
      BY <1>1, <1>5, <3>3, <3>4, OpOfCases, OpViewCases
  <2>5. PICK n : Transfer(c, n)
    BY DEF DriverOk, DriverError
  <2>6. \A d \in Devices, b \in Blocks :
          (d # r.dev \/ b \notin Span(r)) => AStore'[d][b] = AStore[d][b]
    BY <1>1, <1>2, <1>5, <2>1, <2>5, RedirectedFrame DEF AStore
  <2>7. r.op = "read" => UNCHANGED AStore
    <3> SUFFICES ASSUME r.op = "read" PROVE UNCHANGED AStore
      OBVIOUS
    <3>1. sd' = sd
      BY <2>2, <2>5 DEF Transfer, IInv, TypeOK
    <3> QED
      BY <1>2, <3>1, StoreFrame
  <2>8. CASE DriverError(c)
    <3>1. sdcard_readwrite_callback(t, "error", << >>)
      BY <1>5, <2>8 DEF DriverError
    <3>2. /\ AOp' = [AOp EXCEPT ![t] = OpOf(t)']
          /\ \/ OpOf(t)' = Store!Done(w, "error", << >>)
             \/ ~r.cb /\ OpOf(t)' = Store!Done(w, "ok", << >>)
      BY <2>0, <2>4, <3>1, ReplyCases
    <3> QED
      BY <1>1, <1>5, <2>3, <2>6, <2>7, <3>2, AbstractSteps
  <2>9. CASE DriverOk(c) /\ r.op = "write"
    <3>1. sdcard_readwrite_callback(t, "ok", << >>) /\ Transfer(c, c.cnt)
      BY <1>5, <2>2, <2>9 DEF DriverOk, Buffer
    <3>2. AOp' = [AOp EXCEPT ![t] = OpOf(t)'] /\ OpOf(t)' = Store!Done(w, "ok", << >>)
      BY <2>0, <2>4, <3>1, ReplyCases
    <3>3. \A b \in Span(r) : AStore'[r.dev][b] = Uniform(r.val)
      BY <1>1, <1>2, <1>5, <2>1, <2>2, <2>9, <3>1, WriteEffect DEF AStore
    <3> QED
      BY <1>1, <1>5, <2>3, <2>6, <2>9, <3>2, <3>3, AbstractSteps
  <2>10. CASE DriverOk(c) /\ r.op = "read"
    <3>1. sdcard_readwrite_callback(t, "ok", ReadData(c, r))
      BY <1>5, <2>2, <2>10 DEF DriverOk, Buffer
    <3>2. ReadData(c, r) = [b \in Span(r) |-> AStore[r.dev][b]]
      BY <1>1, <1>5, <2>1, <2>2, ReadEffect DEF AStore
    <3>3. /\ AOp' = [AOp EXCEPT ![t] = OpOf(t)']
          /\ OpOf(t)' = Store!Done(w, "ok", [b \in Span(r) |-> AStore[r.dev][b]])
      BY <2>0, <2>4, <3>1, <3>2, ReplyCases
    <3> QED
      BY <1>1, <1>5, <2>3, <2>7, <2>10, <3>3, AbstractSteps
  <2> QED
    BY <2>2, <2>8, <2>9, <2>10
<1> QED
  BY <1>1, <1>3, <1>4, <1>5, CommandTypes

\* For any number of threads and any layout that satisfies LayoutAssumption,
\* redirected and unredirected SLC and SLCCMPT together behave as two separate
\* block devices with atomic requests; a request that brings a callback learns how
\* it ended, and one without may have failed unnoticed.
THEOREM Refinement == Spec => ImplementsBlockStore
<1>1. Init => Store!Init
  <2> SUFFICES ASSUME Init PROVE Store!Init
    OBVIOUS
  <2>0. IInv
    BY InitInv
  <2>1. [t \in Threads |-> OpOf(t)] = [t \in Threads |-> Store!NoOp]
    BY NoRequestType, OpOfCases, OpViewCases DEF Init
  <2>2. \A d \in Devices, b \in Blocks : StoreOf(d)[b] \in [0..3 -> Values]
    <3> SUFFICES ASSUME NEW d \in Devices, NEW b \in Blocks
                 PROVE  StoreOf(d)[b] \in [0..3 -> Values]
      OBVIOUS
    <3>1. CASE Redirected(d)
      <4>1. \A i \in 0..3 : sd[conf.off[d] + 4 * b + i] \in Values
        BY <2>0, <3>1, BlockSectors DEF IInv, TypeOK
      <4> QED
        BY <3>1, <4>1 DEF StoreOf, BlockAt
    <3>2. CASE ~Redirected(d)
      BY <2>0, <3>2 DEF StoreOf, IInv, TypeOK
    <3> QED
      BY <3>1, <3>2
  <2>3. \A d \in Devices : StoreOf(d) \in [Blocks -> [0..3 -> Values]]
    BY <2>2 DEF StoreOf
  <2> QED
    BY <2>1, <2>3 DEF Store!Init
<1>2. IInv /\ [Next]_vars => [Store!Next]_Store!vars
  <2> SUFFICES ASSUME IInv, [Next]_vars PROVE Store!Next \/ UNCHANGED Store!vars
    OBVIOUS
  <2>1. ASSUME UNCHANGED <<conf, tvars, sd, nand>> PROVE UNCHANGED Store!vars
    BY <2>1 DEF tvars, Store!vars, StoreOf, BlockAt, Redirected, OpOf
  <2>2. CASE \/ sdcard_init \/ sdcard_init_end \/ CardInitialised
             \/ registerMdDevice_hook \/ registerMdDevice_hook_end
    BY <2>1, <2>2 DEF sdcard_init, sdcard_init_end, CardInitialised, registerMdDevice_hook,
                      registerMdDevice_hook_end
  <2>3. CASE UNCHANGED vars
    BY <2>1, <2>3 DEF vars, svars
  <2>4. ASSUME NEW t \in Threads, Step(t) PROVE Store!Next \/ UNCHANGED Store!vars
    <3>1. req[t] \in Requests \cup MlcIo
      BY DEF IInv, TypeOK
    <3> QED
      BY <2>4, <3>1, RefineThread, MlcThread
  <2>5. ASSUME NEW t \in Threads, Driver(t) PROVE Store!Next \/ UNCHANGED Store!vars
    BY <2>5, RefineDriver DEF Driver
  <2>6. ASSUME NEW t \in Threads,
               \/ \E r \in Requests : slcReadWrite_patch(t, r)
               \/ \E r \in MlcIo : sdcardReadWrite_patch_mlc(t, r)
               \/ \E io \in FatIo : sdcardReadWrite_patch(t, io)
        PROVE  Store!Next \/ UNCHANGED Store!vars
    BY <2>6, RefineRequest
  <2> QED
    BY <2>2, <2>3, <2>4, <2>5, <2>6 DEF Next
<1> QED
  BY <1>1, <1>2, Invariance, PTL DEF Spec, Store!Spec, ImplementsBlockStore
=============================================================================
