----------------------------- MODULE ScfmProofs -----------------------------
(***************************************************************************)
(* Proofs about ScfmMigration, for every size of the file and of the blocks. *)
(* The failures they allow are Tolerated: with the others the code does lose *)
(* the cache (runs scfm_check and README.md).                                *)
(***************************************************************************)
EXTENDS ScfmMigration, SequenceTheorems, TLAPS

\* the file on SLCCMPT can always be looked for and its end be read
Tolerated == "mount" \notin Faults /\ "open_cmpt" \notin Faults /\ "check" \notin Faults

\* The parts of the inductive invariant: what is known of the two files at each
\* place of the migration.
Copying ==
  pc \in {"memalign", "read", "write"} =>
    Exists(slc) /\ offset < Total /\ cmpt = SubSeq(slc, 1, offset)

Partial ==
  /\ pc \in {"remove_cmpt", "open_src", "open_dst"} => Exists(slc) /\ ~Whole(cmpt)
  /\ pc \in {"open_dst", "memalign"} => offset = 0

Copied ==
  pc \in {"cleanup", "result"} =>
    IF res = "ok" THEN Whole(cmpt) /\ cmpt = slc ELSE Exists(slc) /\ ~Whole(cmpt)

Migrated ==
  /\ pc \in {"patch", "remove_slc"} => Whole(cmpt)
  /\ pc = "check" => Exists(cmpt)

Chosen ==
  /\ pc \in {"return", "scfm", "run"} =>
       IF use = "cmpt" THEN Whole(cmpt) ELSE Exists(slc) /\ ~Whole(cmpt)
  /\ pc = "remove_slc" => use = "cmpt"
  /\ pc \notin {"remove_slc", "return", "scfm", "run"} => use = "slc"

IInv == TypeOK /\ OneWhole /\ Copying /\ Partial /\ Copied /\ Migrated /\ Chosen

-----------------------------------------------------------------------------
(* Files *)

\* Appending the next n units of s to its first k gives its first k + n.
LEMMA CopyLemma ==
  ASSUME NEW s \in Seq(Values), NEW k \in Nat, NEW n \in Nat, k + n <= Len(s)
  PROVE  /\ SubSeq(s, 1, k) \o SubSeq(s, k + 1, k + n) = SubSeq(s, 1, k + n)
         /\ SubSeq(s, 1, k + n) \in Seq(Values)
         /\ Len(SubSeq(s, 1, k + n)) = k + n
<1> DEFINE a == SubSeq(s, 1, k)
           b == SubSeq(s, k + 1, k + n)
           c == SubSeq(s, 1, k + n)
<1>1. a \in Seq(Values) /\ Len(a) = k /\ \A i \in 1..k : a[i] = s[i]
  BY SubSeqProperties
<1>2. b \in Seq(Values) /\ Len(b) = n /\ \A i \in 1..n : b[i] = s[k + i]
  BY SubSeqProperties
<1>3. c \in Seq(Values) /\ Len(c) = k + n /\ \A i \in 1..(k + n) : c[i] = s[i]
  BY SubSeqProperties
<1>4. a \o b \in Seq(Values) /\ Len(a \o b) = k + n
  BY <1>1, <1>2, ConcatProperties
<1>5. \A i \in 1..(k + n) : (a \o b)[i] = s[i]
  BY <1>1, <1>2, ConcatProperties
<1>6. a \o b = c
  BY <1>3, <1>4, <1>5, SeqEqual
<1> QED
  BY <1>3, <1>6

\* A copy of all units is the file itself.
LEMMA CopySelf ==
  ASSUME NEW s \in Seq(Values)
  PROVE  SubSeq(s, 1, Len(s)) = s
BY SubSeqProperties, SeqEqual

\* The first k units are k.
LEMMA PrefixLen ==
  ASSUME NEW s \in Seq(Values), NEW k \in Nat, k <= Len(s)
  PROVE  Len(SubSeq(s, 1, k)) = k
BY SubSeqProperties

\* SCFM's writes keep the length of a file.
LEMMA WriteLemma ==
  ASSUME NEW s \in Seq(Values), NEW i \in 1..Len(s), NEW v \in Values
  PROVE  [s EXCEPT ![i] = v] \in Seq(Values) /\ Len([s EXCEPT ![i] = v]) = Len(s)
BY ExceptSeq

\* A sequence of values is not a missing file.
LEMMA SeqExists == \A f \in Seq(Values) : Exists(f)
BY SizeAssumption DEF Exists

-----------------------------------------------------------------------------
(* The inductive invariant *)

\* The initial states satisfy the inductive invariant.
LEMMA InitInv == Init => IInv
<1> SUFFICES ASSUME Init PROVE IInv
  OBVIOUS
<1>1. PICK v \in Values : slc = [i \in 1..Total |-> v]
  BY DEF Init
<1>2. slc \in Seq(Values) /\ Len(slc) = Total
  BY <1>1, SizeAssumption
<1>3. Whole(slc)
  BY <1>2, SeqExists DEF Whole
<1> QED
  BY <1>2, <1>3, SizeAssumption DEF Init, IInv, TypeOK, OneWhole, Copying, Partial, Copied,
                                    Migrated, Chosen, Exists

\* The steps around the copy leave the files as they are or delete one that is
\* not needed.
LEMMA OuterStep ==
  ASSUME Tolerated, IInv,
         \/ scfm_mount_slcs \/ open_cmpt \/ cmpt_exists \/ remove_cmpt
         \/ migration_returned \/ patch_for_slccmpt \/ remove_slc \/ scfm_migrate_return
         \/ do_migration_ret \/ PowerLoss
  PROVE  IInv'
<1> USE SizeAssumption DEF IInv, TypeOK, OneWhole, Copying, Partial, Copied, Migrated,
          Chosen, Whole, Exists, Goto, MayFail, Tolerated, files, regs
<1>1. CASE scfm_mount_slcs
  BY <1>1 DEF scfm_mount_slcs
<1>2. CASE open_cmpt
  BY <1>2 DEF open_cmpt
<1>3. CASE cmpt_exists
  BY <1>3 DEF cmpt_exists
<1>4. CASE remove_cmpt
  BY <1>4 DEF remove_cmpt
<1>5. CASE migration_returned
  BY <1>5 DEF migration_returned
<1>6. CASE patch_for_slccmpt
  BY <1>6 DEF patch_for_slccmpt
<1>7. CASE remove_slc
  BY <1>7 DEF remove_slc
<1>8. CASE scfm_migrate_return
  BY <1>8 DEF scfm_migrate_return
<1>9. CASE do_migration_ret
  BY <1>9 DEF do_migration_ret
<1>10. CASE PowerLoss
  BY <1>10 DEF PowerLoss
<1> QED
  BY <1>1, <1>2, <1>3, <1>4, <1>5, <1>6, <1>7, <1>8, <1>9, <1>10

\* The steps of the copy keep the file on SLCCMPT a beginning of the one on SLC.
LEMMA CopyStep ==
  ASSUME IInv, open_src \/ open_dst \/ memalign \/ copy_read \/ copy_write
  PROVE  IInv'
<1> USE SizeAssumption DEF IInv, TypeOK, OneWhole, Copying, Partial, Copied, Migrated,
          Chosen, Whole, Exists, Goto, MayFail, files, regs
<1>1. CASE open_src
  <2>1. Exists(slc) /\ ~Whole(cmpt) /\ UNCHANGED <<slc, cmpt, use>> /\ offset' = 0
    BY <1>1 DEF open_src
  <2>2. CASE pc' = "open_dst" /\ opened' = {"src"} /\ UNCHANGED res
    BY <1>1, <2>1, <2>2 DEF open_src
  <2>3. CASE pc' = "cleanup" /\ res' = "error" /\ UNCHANGED opened
    BY <1>1, <2>1, <2>3 DEF open_src
  <2> QED
    BY <1>1, <2>2, <2>3 DEF open_src
<1>2. CASE open_dst
  <2>1. Exists(slc) /\ ~Whole(cmpt) /\ offset = 0 /\ use = "slc" /\ UNCHANGED <<slc, use, buf, offset>>
    BY <1>2 DEF open_dst
  <2>2. CASE pc' = "memalign" /\ cmpt' = << >> /\ handles' = {"src", "dst"}
             /\ opened' = opened \cup {"dst"} /\ UNCHANGED res
    <3>1. cmpt' = SubSeq(slc', 1, offset')
      BY <2>1, <2>2, SubSeqEmpty
    <3>2. cmpt' \in Seq(Values) /\ Len(cmpt') = 0
      BY <2>2
    <3>3. TypeOK'
      BY <2>1, <2>2, <3>2
    <3>4. OneWhole' /\ Copying'
      BY <2>1, <2>2, <3>1
    <3> QED
      BY <2>1, <2>2, <3>3, <3>4
  <2>3. CASE pc' = "cleanup" /\ res' = "error" /\ UNCHANGED <<cmpt, opened, handles>>
    BY <2>1, <2>3
  <2> QED
    BY <1>2, <2>2, <2>3 DEF open_dst
<1>3. CASE memalign
  BY <1>3 DEF memalign
<1>4. CASE copy_read
  BY <1>4 DEF copy_read
<1>5. CASE copy_write
  <2> DEFINE n == cur_size
  <2>1. n \in 1..Total /\ offset + n <= Total
    BY <1>5 DEF copy_write, cur_size, Min
  <2>2. /\ slc \in Seq(Values) /\ Len(slc) = Total /\ offset \in Nat
        /\ cmpt = SubSeq(slc, 1, offset) /\ Exists(slc) /\ use = "slc"
    BY <1>5 DEF copy_write
  <2>3. ASSUME NEW k \in 0..n
        PROVE  /\ cmpt \o SubSeq(slc, offset + 1, offset + k) = SubSeq(slc, 1, offset + k)
               /\ SubSeq(slc, 1, offset + k) \in Seq(Values)
               /\ Len(SubSeq(slc, 1, offset + k)) = offset + k
    <3> HIDE DEF n
    <3>1. k \in Nat /\ offset + k <= Len(slc)
      BY <2>1, <2>2
    <3> QED
      BY <2>2, <3>1, CopyLemma
  <2> HIDE DEF n
  <2>4. CASE \E k \in 0..(n - 1) :
               /\ cmpt' = cmpt \o SubSeq(slc, offset + 1, offset + k)
               /\ pc' = "cleanup" /\ res' = "error"
               /\ UNCHANGED <<slc, use, opened, handles, buf, offset>>
    <3>1. PICK k \in 0..(n - 1) : cmpt' = cmpt \o SubSeq(slc, offset + 1, offset + k)
      BY <2>4
    <3>2. k \in 0..n
      BY <2>1
    <3>3. cmpt' \in Seq(Values) /\ Len(cmpt') = offset + k
      BY <2>3, <3>1, <3>2
    <3>4. Len(cmpt') < Total
      BY <2>1, <2>2, <3>3
    <3>5. pc' = "cleanup" /\ res' = "error" /\ UNCHANGED <<slc, use, opened, handles, buf, offset>>
      BY <2>4
    <3>6. TypeOK'
      BY <3>3, <3>4, <3>5
    <3>7. OneWhole'
      BY <2>2, <3>5
    <3> QED
      BY <2>2, <3>4, <3>5, <3>6, <3>7
  <2>5. CASE /\ cmpt' = cmpt \o SubSeq(slc, offset + 1, offset + n)
             /\ offset' = offset + n
             /\ IF offset' = Total THEN pc' = "cleanup" /\ res' = "ok"
                                   ELSE pc' = "read" /\ UNCHANGED res
             /\ UNCHANGED <<slc, use, opened, handles, buf>>
    <3>1. n \in 0..n
      BY <2>1
    <3>2. /\ cmpt' = SubSeq(slc', 1, offset')
          /\ cmpt' \in Seq(Values) /\ Len(cmpt') = offset'
      BY <2>3, <2>5, <3>1
    <3>3. offset' \in 0..Total
      BY <2>1, <2>2, <2>5
    <3>4. cmpt' # Missing
      BY <3>2
    <3>5. \/ pc' = "cleanup" /\ res' = "ok" /\ offset' = Total
          \/ pc' = "read" /\ res' = res /\ offset' < Total
      BY <2>5, <3>3
    <3>6. TypeOK'
      BY SMTT(30), <2>5, <3>2, <3>3, <3>5
    <3>7. OneWhole'
      BY <2>2, <2>5
    <3>8. Copying'
      BY <2>2, <2>5, <3>2, <3>5
    <3>9. Copied'
      <4>1. offset' = Total => cmpt' = slc'
        BY <2>2, <2>5, <3>2, CopySelf
      <4> QED
        BY <3>2, <3>4, <3>5, <4>1
    <3> QED
      BY <2>2, <2>5, <3>5, <3>6, <3>7, <3>8, <3>9
  <2> QED
    BY <1>5, <2>4, <2>5 DEF copy_write, n
<1> QED
  BY <1>1, <1>2, <1>3, <1>4, <1>5

\* SCFM works on the file that was chosen.
LEMMA ScfmStep ==
  ASSUME IInv, ScfmStart \/ \E i \in 1..Total, v \in Values : ScfmWrite(i, v)
  PROVE  IInv'
<1> USE SizeAssumption DEF IInv, TypeOK, OneWhole, Copying, Partial, Copied, Migrated,
          Chosen, Whole, Exists, Goto, files, regs
<1>1. CASE ScfmStart
  BY <1>1 DEF ScfmStart, InUse
<1>2. CASE \E i \in 1..Total, v \in Values : ScfmWrite(i, v)
  <2>1. PICK i \in 1..Total, v \in Values : ScfmWrite(i, v)
    BY <1>2
  <2> QED
    BY <2>1, WriteLemma DEF ScfmWrite
<1> QED
  BY <1>1, <1>2

\* Every step preserves the inductive invariant.
LEMMA NextInv == Tolerated /\ IInv /\ [Next]_vars => IInv'
<1> SUFFICES ASSUME Tolerated, IInv, [Next]_vars PROVE IInv'
  OBVIOUS
<1>1. CASE \/ scfm_mount_slcs \/ open_cmpt \/ cmpt_exists \/ remove_cmpt
           \/ migration_returned \/ patch_for_slccmpt \/ remove_slc \/ scfm_migrate_return
           \/ do_migration_ret \/ PowerLoss
  BY <1>1, OuterStep
<1>2. CASE open_src \/ open_dst \/ memalign \/ copy_read \/ copy_write
  BY <1>2, CopyStep
<1>3. CASE ScfmStart \/ \E i \in 1..Total, v \in Values : ScfmWrite(i, v)
  BY <1>3, ScfmStep
<1>4. CASE UNCHANGED vars
  BY <1>4 DEF vars, IInv, TypeOK, OneWhole, Copying, Partial, Copied, Migrated, Chosen, Whole, Exists
<1> QED
  BY <1>1, <1>2, <1>3, <1>4 DEF Next, Migration

\* The inductive invariant holds in every behaviour with the failures Tolerated.
THEOREM Invariance == Tolerated => (Spec => []IInv)
<1> SUFFICES ASSUME Tolerated PROVE Spec => []IInv
  OBVIOUS
<1>1. IInv /\ [Next]_vars => IInv'
  BY NextInv
<1> QED
  BY <1>1, InitInv, PTL DEF Spec

\* The files and the boot keep their types.
THEOREM TypeCorrect == Tolerated => (Spec => []TypeOK)
<1> SUFFICES ASSUME Tolerated PROVE Spec => []TypeOK
  OBVIOUS
<1>1. IInv => TypeOK
  BY DEF IInv
<1> QED
  BY <1>1, Invariance, PTL

\* However large the file and the blocks are, and wherever power is lost, one
\* whole cache file exists at every moment of the migration.
THEOREM NothingLost == Tolerated => (Spec => []OneWhole)
<1> SUFFICES ASSUME Tolerated PROVE Spec => []OneWhole
  OBVIOUS
<1>1. IInv => OneWhole
  BY DEF IInv
<1> QED
  BY <1>1, Invariance, PTL

-----------------------------------------------------------------------------
(* The refinement *)

\* While a file is missing or partly written, the other one counts.
LEMMA PartialNotWhole ==
  ASSUME IInv, pc \in {"memalign", "read", "write"}
  PROVE  ~Whole(cmpt)
<1>1. slc \in Seq(Values) /\ offset \in Nat /\ offset < Len(slc) /\ Len(slc) = Total
  BY DEF IInv, TypeOK, Copying, Exists
<1>2. Len(SubSeq(slc, 1, offset)) = offset
  BY <1>1, PrefixLen
<1> QED
  BY <1>1, <1>2 DEF IInv, Copying, Whole

\* A whole file is one of the images of the abstract cache, and not empty.
LEMMA WholeIsImage ==
  ASSUME NEW f \in Seq(Values), Len(f) = Total
  PROVE  f \in [1..Total -> Values] /\ f # << >>
BY SizeAssumption

\* No step of the migration changes the contents of the cache.
LEMMA MigrationKeepsCurrent ==
  ASSUME Tolerated, IInv, IInv', Migration
  PROVE  Current' = Current /\ pc # "run" /\ pc' # "run"
<1> USE DEF Goto
<1>1. CASE UNCHANGED files
  <2>1. Current' = Current
    BY <1>1 DEF Current, Whole, Exists, files
  <2> QED
    BY <2>1 DEF Migration, scfm_mount_slcs, open_cmpt, cmpt_exists, remove_cmpt,
        migration_returned, patch_for_slccmpt, remove_slc, scfm_migrate_return, open_src,
        open_dst, memalign, copy_read, copy_write, do_migration_ret
<1>2. CASE remove_cmpt
  BY <1>2 DEF remove_cmpt, IInv, Partial, Current, Whole, Exists
<1>3. CASE remove_slc
  BY <1>3 DEF remove_slc, IInv, Migrated, Current, Whole, Exists
<1>4. CASE open_dst
  <2>1. ~Whole(cmpt) /\ slc' = slc /\ pc = "open_dst" /\ pc' \in {"memalign", "cleanup"}
    BY <1>4 DEF open_dst, IInv, Partial
  <2>2. CASE cmpt' = cmpt
    BY <2>1, <2>2 DEF Current, Whole, Exists
  <2>3. CASE cmpt' = << >>
    BY <2>1, <2>3, SizeAssumption DEF Current, Whole, Exists
  <2> QED
    BY <1>4, <2>2, <2>3 DEF open_dst
<1>5. CASE copy_write
  <2>1. pc = "write" /\ slc' = slc
    BY <1>5 DEF copy_write
  <2>2. ~Whole(cmpt)
    BY <2>1, PartialNotWhole
  <2>3. \/ pc' = "cleanup" /\ res' = "ok"
        \/ pc' = "cleanup" /\ res' = "error"
        \/ pc' = "read"
    BY <1>5 DEF copy_write
  <2>4. CASE pc' = "cleanup" /\ res' = "ok"
    <3>1. cmpt' = slc'
      BY <2>4 DEF IInv, Copied
    <3> QED
      BY <2>1, <2>2, <2>4, <3>1 DEF Current
  <2>5. CASE pc' = "cleanup" /\ res' = "error"
    <3>1. ~Whole(cmpt')
      BY <2>5 DEF IInv, Copied, Whole, Exists
    <3> QED
      BY <2>1, <2>2, <2>5, <3>1 DEF Current, Whole, Exists
  <2>6. CASE pc' = "read"
    <3>1. slc \in Seq(Values) /\ offset' \in Nat /\ offset' < Total /\ Len(slc) = Total
      BY <2>1, <2>6 DEF IInv, TypeOK, Copying, Exists
    <3>2. \A k \in Nat : k < Total => Len(SubSeq(slc, 1, k)) = k
      BY <3>1, PrefixLen
    <3>3. ~Whole(cmpt')
      BY <2>1, <2>6, <3>1, <3>2 DEF IInv, Copying, Whole
    <3> QED
      BY <2>1, <2>2, <2>6, <3>3 DEF Current, Whole, Exists
  <2> QED
    BY <2>3, <2>4, <2>5, <2>6
<1> QED
  BY <1>1, <1>2, <1>3, <1>4, <1>5 DEF Migration, scfm_mount_slcs, open_cmpt, cmpt_exists,
     migration_returned, patch_for_slccmpt, scfm_migrate_return, open_src, memalign,
     copy_read, do_migration_ret, files

\* Where SCFM starts and runs, the file it was told to use is the one that counts.
LEMMA UsesCurrent ==
  ASSUME IInv, pc \in {"scfm", "run"}
  PROVE  /\ InUse = Current
         /\ InUse \in [1..Total -> Values] /\ InUse # << >> /\ Exists(InUse)
<1>1. InUse = Current /\ InUse \in Seq(Values) /\ Len(InUse) = Total /\ Exists(InUse)
  BY DEF IInv, TypeOK, Chosen, InUse, Current, Whole, Exists
<1> QED
  BY <1>1, WholeIsImage

\* Every step is one of the abstract cache, or changes nothing of it.
LEMMA StepRefines ==
  Tolerated /\ IInv /\ IInv' /\ [Next]_vars
    => [Cache!Next]_<<Current, IF pc = "run" THEN InUse ELSE << >> >>
<1> DEFINE view == IF pc = "run" THEN InUse ELSE << >>
<1> SUFFICES ASSUME Tolerated, IInv, IInv', [Next]_vars
             PROVE  Cache!Next \/ (Current' = Current /\ view' = view)
  OBVIOUS
<1>1. CASE Migration
  <2>1. Current' = Current /\ pc # "run" /\ pc' # "run"
    BY <1>1, MigrationKeepsCurrent
  <2> QED
    BY <2>1
<1>2. CASE ScfmStart
  <2>1. pc = "scfm" /\ pc' = "run" /\ use' = use
    BY <1>2 DEF ScfmStart, Goto
  <2>2. UNCHANGED files
    BY <1>2, <2>1, UsesCurrent DEF ScfmStart
  <2>3. Current' = Current /\ InUse' = InUse /\ InUse = Current
    BY <2>1, <2>2, UsesCurrent DEF Current, InUse, Whole, Exists, files
  <2>4. Cache!Start
    BY <2>1, <2>3 DEF Cache!Start
  <2> QED
    BY <2>4 DEF Cache!Next
<1>3. CASE \E i \in 1..Total, v \in Values : ScfmWrite(i, v)
  <2>1. pc = "run" /\ pc' = "run"
    BY <1>3 DEF ScfmWrite
  <2>2. InUse # << >>
    BY <2>1, UsesCurrent
  <2>3. InUse' = Current' /\ InUse' \in [1..Total -> Values]
    <3>1. InUse' = Current' /\ InUse' \in Seq(Values) /\ Len(InUse') = Total
      BY <2>1 DEF IInv, TypeOK, Chosen, InUse, Current, Whole, Exists
    <3> QED
      BY <3>1, WholeIsImage
  <2>4. Cache!Write
    BY <2>1, <2>2, <2>3 DEF Cache!Write
  <2> QED
    BY <2>4 DEF Cache!Next
<1>4. CASE PowerLoss
  <2>1. pc' # "run" /\ UNCHANGED files
    BY <1>4 DEF PowerLoss, Goto
  <2>2. Current' = Current
    BY <2>1 DEF Current, Whole, Exists, files
  <2>3. Cache!Off
    BY <2>1, <2>2 DEF Cache!Off
  <2> QED
    BY <2>3 DEF Cache!Next
<1>5. CASE UNCHANGED vars
  BY <1>5 DEF vars, Current, InUse, Whole, Exists
<1> QED
  BY <1>1, <1>2, <1>3, <1>4, <1>5 DEF Next

\* SCFM starts with what it last wrote, for every size of the file and wherever
\* power is lost.
THEOREM Refinement == Tolerated => (Spec => ImplementsCache)
<1> SUFFICES ASSUME Tolerated PROVE Spec => ImplementsCache
  OBVIOUS
<1>1. Init => Cache!Init
  <2> SUFFICES ASSUME Init PROVE Cache!Init
    OBVIOUS
  <2>1. ~Whole(cmpt) /\ pc # "run" /\ slc \in [1..Total -> Values]
    BY DEF Init, Whole, Exists
  <2> QED
    BY <2>1 DEF Cache!Init, Current
<1>2. IInv /\ IInv' /\ [Next]_vars
        => [Cache!Next]_<<Current, IF pc = "run" THEN InUse ELSE << >> >>
  BY StepRefines
<1> QED
  BY <1>1, <1>2, Invariance, PTL DEF Spec, ImplementsCache, Cache!Spec

-----------------------------------------------------------------------------
(* What the migration leaves behind *)

\* Outside the copy nothing is open; inside it r5 and r6 hold what is, and with a
\* buffer they hold all of it. No fault is excluded here.
Held ==
  /\ pc \in {"mount", "open_cmpt", "remove_cmpt", "open_src", "result", "patch",
            "remove_slc", "return", "scfm", "run"} => opened = {} /\ buf = 0
  /\ pc \in {"check", "open_dst", "memalign"} => buf = 0
  /\ pc = "open_dst" => opened = {"src"}
  /\ pc \in {"memalign", "read", "write"} => opened = {"src", "dst"} /\ handles = opened
  /\ pc = "cleanup" /\ buf # 0 => opened = handles

\* scfm_do_migration_ret finds its return address only if it freed a buffer: without
\* one the result it pushed is still on the stack.
LEMMA ReturnNeedsBuffer == StackAtEnd[4 + 7] = "lr" <=> buf # 0
<1>1. Frame[4 + 7] = "lr"
  BY DEF Frame
<1>2. (<<"r0">> \o Frame)[4 + 7] = "r9"
  BY DEF Frame
<1>3. CASE buf # 0
  <2>1. StackAtEnd = Frame
    BY <1>3 DEF StackAtEnd
  <2>2. StackAtEnd[4 + 7] = "lr"
    BY <1>1, <2>1, Zenon
  <2> QED
    BY <1>3, <2>2, Zenon
<1>4. CASE ~(buf # 0)
  <2>1. StackAtEnd = <<"r0">> \o Frame
    BY <1>4 DEF StackAtEnd
  <2>2. StackAtEnd[4 + 7] = "r9"
    BY <1>2, <2>1, Zenon
  <2>3. "r9" # "lr"
    OBVIOUS
  <2> QED
    BY <1>4, <2>2, <2>3, Zenon
<1> QED
  BY <1>3, <1>4, Zenon

\* Every step keeps account of what is open, whichever calls fail.
LEMMA HeldStep == Held /\ [Next]_vars => Held'
<1> SUFFICES ASSUME Held, [Next]_vars PROVE Held'
  OBVIOUS
<1> USE DEF Held, Goto, regs
<1>1. CASE scfm_mount_slcs
  BY <1>1 DEF scfm_mount_slcs
<1>2. CASE open_cmpt
  BY <1>2 DEF open_cmpt
<1>3. CASE cmpt_exists
  BY <1>3 DEF cmpt_exists
<1>4. CASE remove_cmpt
  BY <1>4 DEF remove_cmpt
<1>5. CASE migration_returned
  BY <1>5 DEF migration_returned
<1>6. CASE patch_for_slccmpt
  BY <1>6 DEF patch_for_slccmpt
<1>7. CASE remove_slc
  BY <1>7 DEF remove_slc
<1>8. CASE scfm_migrate_return
  BY <1>8 DEF scfm_migrate_return
<1>9. CASE open_src
  BY <1>9 DEF open_src
<1>10. CASE open_dst
  BY <1>10 DEF open_dst
<1>11. CASE memalign
  BY <1>11 DEF memalign
<1>12. CASE copy_read
  BY <1>12 DEF copy_read
<1>13. CASE copy_write
  <2>1. pc = "write" /\ pc' \in {"cleanup", "read"} /\ UNCHANGED <<opened, handles, buf>>
    BY <1>13 DEF copy_write
  <2> QED
    BY <2>1
<1>14. CASE do_migration_ret
  <2>1. /\ pc = "cleanup" /\ buf' = 0 /\ opened' = opened \ handles
        /\ pc' = IF buf # 0 THEN "result" ELSE "wild"
    BY <1>14, ReturnNeedsBuffer DEF do_migration_ret
  <2> QED
    BY <2>1
<1>15. CASE ScfmStart
  BY <1>15 DEF ScfmStart
<1>16. CASE \E i \in 1..Total, v \in Values : ScfmWrite(i, v)
  BY <1>16 DEF ScfmWrite
<1>17. CASE PowerLoss
  BY <1>17 DEF PowerLoss
<1>18. CASE UNCHANGED vars
  BY <1>18 DEF vars
<1> QED
  BY <1>1, <1>2, <1>3, <1>4, <1>5, <1>6, <1>7, <1>8, <1>9, <1>10, <1>11, <1>12, <1>13,
     <1>14, <1>15, <1>16, <1>17, <1>18 DEF Next, Migration

\* Whichever calls fail, scfmInit goes on with all files of the migration closed and
\* its buffer freed: the one path that leaks a file (scfm.img cannot be created on
\* SLCCMPT) never comes back.
THEOREM CleansUp == Spec => []CleanedUp
<1>1. Init => Held
  BY DEF Init, Held
<1>2. Held => CleanedUp
  BY DEF Held, CleanedUp
<1> QED
  BY <1>1, <1>2, HeldStep, PTL DEF Spec

\* the calls of scfm_do_migration that come before it has a buffer
EarlyCalls == {"open_src", "open_dst", "memalign"}

\* On the way out of the copy there is a buffer to free.
Buffered == pc \in {"read", "write", "cleanup"} => buf # 0

\* A migration that fails returns to its caller unless it fails before it has a
\* buffer: a file that cannot be read or written is survived.
THEOREM LateFailuresDefaultBack ==
  Tolerated /\ Faults \cap EarlyCalls = {} => (Spec => []DefaultsBack)
<1> SUFFICES ASSUME Tolerated, Faults \cap EarlyCalls = {} PROVE Spec => []DefaultsBack
  OBVIOUS
<1> DEFINE J == Buffered /\ pc # "wild"
<1>1. Init => J
  BY DEF Init, Buffered
<1>2. IInv /\ J /\ [Next]_vars => J'
  <2> SUFFICES ASSUME IInv, J, [Next]_vars PROVE J'
    OBVIOUS
  <2> USE DEF Buffered, Goto, regs
  <2>1. CASE open_src
    <3>1. Exists(slc) /\ ~MayFail("open_src")
      BY <2>1 DEF open_src, IInv, Partial, MayFail, EarlyCalls
    <3> QED
      BY <2>1, <3>1 DEF open_src
  <2>2. CASE open_dst
    BY <2>2 DEF open_dst, MayFail, EarlyCalls
  <2>3. CASE memalign
    BY <2>3 DEF memalign, MayFail, EarlyCalls
  <2>4. CASE copy_read
    BY <2>4 DEF copy_read
  <2>5. CASE copy_write
    <3>1. pc = "write" /\ pc' \in {"cleanup", "read"} /\ buf' = buf
      BY <2>5 DEF copy_write
    <3> QED
      BY <3>1
  <2>6. CASE do_migration_ret
    BY <2>6, ReturnNeedsBuffer DEF do_migration_ret
  <2>7. CASE \/ scfm_mount_slcs \/ open_cmpt \/ cmpt_exists \/ remove_cmpt
             \/ migration_returned \/ patch_for_slccmpt \/ remove_slc \/ scfm_migrate_return
    BY <2>7 DEF scfm_mount_slcs, open_cmpt, cmpt_exists, remove_cmpt, migration_returned,
                patch_for_slccmpt, remove_slc, scfm_migrate_return
  <2>8. CASE \/ ScfmStart \/ PowerLoss \/ UNCHANGED vars
             \/ \E i \in 1..Total, v \in Values : ScfmWrite(i, v)
    BY <2>8 DEF ScfmStart, PowerLoss, ScfmWrite, vars
  <2> QED
    BY <2>1, <2>2, <2>3, <2>4, <2>5, <2>6, <2>7, <2>8 DEF Next, Migration
<1>3. J => DefaultsBack
  BY DEF DefaultsBack
<1> QED
  BY <1>1, <1>2, <1>3, Invariance, PTL DEF Spec
=============================================================================
