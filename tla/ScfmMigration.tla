--------------------------- MODULE ScfmMigration ---------------------------
(***************************************************************************)
(* The migration of SCFM's cache file from SLC to SLCCMPT                    *)
(* (patch_asm.S, built with MLC_ACCELERATE), which scfmInit is made to call  *)
(* at every boot. Power may be lost between any two operations on the file   *)
(* systems; a finished operation is durable. The calls that can fail are a   *)
(* parameter.                                                                *)
(***************************************************************************)
EXTENDS Naturals, Sequences

CONSTANTS
  Total,      \* size of scfm.img, 0x8004000 in the code
  BlkSize,    \* SCFM_MIGRATION_BLK_SIZE, does not divide Total in the code
  Faults,     \* the calls that may fail, see Calls
  Values,     \* what a unit of the file can hold
  Missing     \* stands for a file that does not exist

Calls == {"mount", "open_cmpt", "check", "remove_cmpt", "open_src", "open_dst",
          "memalign", "read", "write", "remove_slc"}

ASSUME SizeAssumption ==
  /\ Total \in Nat \ {0} /\ BlkSize \in Nat \ {0}
  /\ Values # {}
  /\ Missing \notin Seq(Values)
  /\ Faults \subseteq Calls

VARIABLES
  pc,         \* where the boot is
  slc, cmpt,  \* scfm.img on SLC and on SLCCMPT: a sequence, or Missing
  use,        \* the one scfmInit will look for
  opened,     \* file handles not closed
  handles,    \* those in r5 and r6
  buf,        \* r7: 1 if it points to the copy buffer, 0 if NULL
  offset,     \* current offset, r10
  res         \* result of scfm_do_migration

vars == <<pc, slc, cmpt, use, opened, handles, buf, offset, res>>
files == <<slc, cmpt>>
regs == <<opened, handles, buf, offset, res>>

Exists(f) == f # Missing

MayFail(call) == call \in Faults

Goto(p) == pc' = p

Min(a, b) == IF a < b THEN a ELSE b

-----------------------------------------------------------------------------
(* scfm_try_slc_cache_migration *)

scfm_mount_slcs ==
  /\ pc = "mount"
  /\ \/ Goto("open_cmpt")
     \/ MayFail("mount") /\ Goto("return")
  /\ UNCHANGED <<files, use, regs>>

\* opens scfm.img on SLCCMPT for reading
open_cmpt ==
  /\ pc = "open_cmpt"
  /\ \/ Exists(cmpt) /\ Goto("check") /\ opened' = {"cmpt"}
     \/ ~Exists(cmpt) /\ Goto("open_src") /\ UNCHANGED opened
     \/ MayFail("open_cmpt") /\ Goto("return") /\ UNCHANGED opened
  /\ UNCHANGED <<files, use, handles, buf, offset, res>>

\* mutant: any file is good enough
cmpt_exists_mutant ==
  /\ pc = "check"
  /\ Goto("patch")
  /\ opened' = {}
  /\ UNCHANGED <<files, use, handles, buf, offset, res>>

\* scfm_migrate_cmpt_exists reads the last word of the file and closes it
cmpt_exists ==
  /\ pc = "check"
  /\ \/ Len(cmpt) = Total /\ Goto("patch")
     \/ Len(cmpt) # Total /\ Goto("remove_cmpt")
     \/ MayFail("check") /\ Goto("remove_cmpt")
  /\ opened' = {}
  /\ UNCHANGED <<files, use, handles, buf, offset, res>>

\* mutant: a copy that cannot be deleted is looked at again
remove_cmpt_mutant ==
  /\ pc = "remove_cmpt"
  /\ \/ cmpt' = Missing /\ Goto("open_src")
     \/ MayFail("remove_cmpt") /\ Goto("open_cmpt") /\ UNCHANGED cmpt
  /\ UNCHANGED <<slc, use, regs>>

remove_cmpt ==
  /\ pc = "remove_cmpt"
  /\ \/ cmpt' = Missing /\ Goto("open_src")
     \/ MayFail("remove_cmpt") /\ Goto("return") /\ UNCHANGED cmpt
  /\ UNCHANGED <<slc, use, regs>>

\* behind the call of scfm_do_migration
migration_returned ==
  /\ pc = "result"
  /\ Goto(IF res = "ok" THEN "patch" ELSE "return")
  /\ UNCHANGED <<files, use, regs>>

\* scfm_migrate_patch_for_slccmpt: the path and the name scfmInit looks for
patch_for_slccmpt ==
  /\ pc = "patch"
  /\ use' = "cmpt"
  /\ Goto("remove_slc")
  /\ UNCHANGED <<files, regs>>

\* the result is not looked at
remove_slc ==
  /\ pc = "remove_slc"
  /\ \/ slc' = Missing
     \/ MayFail("remove_slc") /\ UNCHANGED slc
  /\ Goto("return")
  /\ UNCHANGED <<cmpt, use, regs>>

\* scfm_migrate_return: unmounts both and goes back to scfmInit
scfm_migrate_return ==
  /\ pc = "return"
  /\ Goto("scfm")
  /\ UNCHANGED <<files, use, regs>>

-----------------------------------------------------------------------------
(* scfm_do_migration *)

open_src ==
  /\ pc = "open_src"
  /\ handles' = {}
  /\ buf' = 0
  /\ offset' = 0
  /\ \/ /\ Exists(slc)
        /\ Goto("open_dst")
        /\ opened' = {"src"}
        /\ UNCHANGED res
     \/ /\ ~Exists(slc) \/ MayFail("open_src")
        /\ Goto("cleanup")
        /\ res' = "error"
        /\ UNCHANGED opened
  /\ UNCHANGED <<files, use>>

\* mode w+ creates or truncates the file; r5 and r6 are loaded behind it
open_dst ==
  /\ pc = "open_dst"
  /\ \/ /\ cmpt' = << >>
        /\ Goto("memalign")
        /\ opened' = opened \cup {"dst"}
        /\ handles' = {"src", "dst"}
        /\ UNCHANGED res
     \/ /\ MayFail("open_dst")
        /\ Goto("cleanup")
        /\ res' = "error"
        /\ UNCHANGED <<cmpt, opened, handles>>
  /\ UNCHANGED <<slc, use, buf, offset>>

memalign ==
  /\ pc = "memalign"
  /\ \/ buf' = 1 /\ Goto("read") /\ UNCHANGED res
     \/ MayFail("memalign") /\ Goto("cleanup") /\ res' = "error" /\ UNCHANGED buf
  /\ UNCHANGED <<files, use, opened, handles, offset>>

\* r9: a whole block, or what is left
cur_size == Min(BlkSize, Total - offset)

\* FSAREADFILEOFFSET, into the buffer
copy_read ==
  /\ pc = "read"
  /\ \/ Goto("write") /\ UNCHANGED res
     \/ MayFail("read") /\ Goto("cleanup") /\ res' = "error"
  /\ UNCHANGED <<files, use, opened, handles, buf, offset>>

\* mutant: the loop ends after one block
copy_write_mutant ==
  /\ pc = "write"
  /\ cmpt' = cmpt \o SubSeq(slc, offset + 1, offset + cur_size)
  /\ offset' = offset + cur_size
  /\ res' = "ok"
  /\ Goto("cleanup")
  /\ UNCHANGED <<slc, use, opened, handles, buf>>

\* mutant: a block that was partly written is written again behind it
copy_write_mutant_retry ==
  /\ pc = "write"
  /\ \/ /\ cmpt' = cmpt \o SubSeq(slc, offset + 1, offset + cur_size)
        /\ offset' = offset + cur_size
        /\ IF offset' = Total THEN Goto("cleanup") /\ res' = "ok"
                              ELSE Goto("read") /\ UNCHANGED res
     \/ /\ MayFail("write")
        /\ \E n \in 0..(cur_size - 1) :
             cmpt' = cmpt \o SubSeq(slc, offset + 1, offset + n)
        /\ Goto("read")
        /\ UNCHANGED <<offset, res>>
  /\ UNCHANGED <<slc, use, opened, handles, buf>>

\* FSAWRITEFILEOFFSET; an error may leave any part of the block behind
copy_write ==
  /\ pc = "write"
  /\ \/ /\ cmpt' = cmpt \o SubSeq(slc, offset + 1, offset + cur_size)
        /\ offset' = offset + cur_size
        /\ IF offset' = Total THEN Goto("cleanup") /\ res' = "ok"
                              ELSE Goto("read") /\ UNCHANGED res
     \/ /\ MayFail("write")
        /\ \E n \in 0..(cur_size - 1) :
             cmpt' = cmpt \o SubSeq(slc, offset + 1, offset + n)
        /\ Goto("cleanup")
        /\ res' = "error"
        /\ UNCHANGED offset
  /\ UNCHANGED <<slc, use, opened, handles, buf>>

\* the stack of scfm_do_migration, from sp: its locals and what it pushed
Frame == <<"local", "local", "local", "local",
           "r4", "r5", "r6", "r7", "r8", "r9", "lr">>

\* what scfm_do_migration_ret leaves of it: the result is pushed, and popped
\* only behind the call that frees the buffer
StackAtEnd == IF buf # 0 THEN Frame ELSE <<"r0">> \o Frame

\* mutant: the files are left open
do_migration_ret_mutant ==
  /\ pc = "cleanup"
  /\ buf' = 0
  /\ Goto(IF StackAtEnd[4 + 7] = "lr" THEN "result" ELSE "wild")
  /\ UNCHANGED <<files, use, opened, handles, offset, res>>

\* scfm_do_migration_ret: closes r5 and r6, frees the buffer, drops the locals
\* and pops seven registers, the last of them into the PC
do_migration_ret ==
  /\ pc = "cleanup"
  /\ opened' = opened \ handles
  /\ buf' = 0
  /\ Goto(IF StackAtEnd[4 + 7] = "lr" THEN "result" ELSE "wild")
  /\ UNCHANGED <<files, use, handles, offset, res>>

-----------------------------------------------------------------------------
(* SCFM and the power supply (external). *)

InUse == IF use = "cmpt" THEN cmpt ELSE slc

\* scfmInit opens the file, or makes a new one if there is none
ScfmStart ==
  /\ pc = "scfm"
  /\ Goto("run")
  /\ \/ Exists(InUse) /\ UNCHANGED files
     \/ /\ ~Exists(InUse)
        /\ \E v \in Values : LET new == [i \in 1..Total |-> v] IN
             /\ slc' = IF use = "slc" THEN new ELSE slc
             /\ cmpt' = IF use = "cmpt" THEN new ELSE cmpt
  /\ UNCHANGED <<use, regs>>

ScfmWrite(i, v) ==
  /\ pc = "run"
  /\ slc' = IF use = "slc" THEN [slc EXCEPT ![i] = v] ELSE slc
  /\ cmpt' = IF use = "cmpt" THEN [cmpt EXCEPT ![i] = v] ELSE cmpt
  /\ UNCHANGED <<pc, use, regs>>

\* power is lost, and IOSU boots again
PowerLoss ==
  /\ pc # "mount"
  /\ Goto("mount")
  /\ use' = "slc"
  /\ opened' = {} /\ handles' = {} /\ buf' = 0
  /\ offset' = 0 /\ res' = "none"
  /\ UNCHANGED files

-----------------------------------------------------------------------------
Init ==
  /\ pc = "mount"
  /\ \E v \in Values : slc = [i \in 1..Total |-> v]
  /\ cmpt = Missing
  /\ use = "slc"
  /\ opened = {} /\ handles = {} /\ buf = 0
  /\ offset = 0 /\ res = "none"

Migration ==
  \/ scfm_mount_slcs \/ open_cmpt \/ cmpt_exists \/ remove_cmpt
  \/ migration_returned \/ patch_for_slccmpt \/ remove_slc \/ scfm_migrate_return
  \/ open_src \/ open_dst \/ memalign \/ copy_read \/ copy_write \/ do_migration_ret

Next ==
  \/ Migration
  \/ ScfmStart
  \/ \E i \in 1..Total, v \in Values : ScfmWrite(i, v)
  \/ PowerLoss

\* The boot goes on as long as there is power.
Spec == Init /\ [][Next]_vars /\ WF_vars(Migration \/ ScfmStart)

-----------------------------------------------------------------------------
(* Properties *)

Whole(f) == Exists(f) /\ Len(f) = Total

\* The type invariant of the files and of the boot.
TypeOK ==
  /\ pc \in {"mount", "open_cmpt", "check", "remove_cmpt", "open_src", "open_dst",
             "memalign", "read", "write", "cleanup", "result", "patch", "remove_slc",
             "return", "scfm", "run", "wild"}
  /\ slc = Missing \/ (slc \in Seq(Values) /\ Len(slc) = Total)
  /\ cmpt = Missing \/ (cmpt \in Seq(Values) /\ Len(cmpt) <= Total)
  /\ use \in {"slc", "cmpt"}
  /\ opened \subseteq {"cmpt", "src", "dst"} /\ handles \subseteq {"src", "dst"}
  /\ buf \in {0, 1}
  /\ offset \in 0..Total
  /\ res \in {"none", "ok", "error"}

\* At every moment at least one whole cache file exists, so losing power, or
\* failing, never leaves the console without its cache (config.h: "The migration
\* process is stable and safe").
OneWhole == Whole(slc) \/ Whole(cmpt)

\* A migration that fails returns to its caller, which goes on with the file on
\* SLC ("return here to silently default back to slc scfm.img").
DefaultsBack == pc # "wild"

\* the file that counts
Current == IF Whole(cmpt) THEN cmpt ELSE slc

Cache == INSTANCE PersistentCache WITH
  Image <- [1..Total -> Values],
  cache <- Current,
  view <- IF pc = "run" THEN InUse ELSE << >>

\* SCFM always starts with what it last wrote: no partial copy, no copy left
\* over from an earlier boot and no new file is ever taken for the cache.
ImplementsCache == Cache!Spec

\* When scfmInit goes on, all files and the buffer of the migration are released. (If
\* opening the copy fails, it does not go on: see DefaultsBack.)
CleanedUp == pc \in {"scfm", "run"} => opened = {} /\ buf = 0

\* A boot that no power loss cuts off, the one after the last of them, gets to the
\* point where SCFM runs, whatever fails on the way and whatever was left behind
\* by earlier ones.
Boots == <>[][~PowerLoss]_vars => <>[](pc = "run")
=============================================================================
