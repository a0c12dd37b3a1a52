------------------------------ MODULE FsaCopy ------------------------------
(***************************************************************************)
(* fsa_copydir and the other users of the FSA calls in wupserver.c: the       *)
(* variants of wupserver_main that restore an MLC backup from the SD card     *)
(* (in a comment) or install a title (EMERGENCY_INSTALL).                     *)
(*                                                                           *)
(* Paths are sequences of names, the same below /vol/sdcard/mlc01 and below    *)
(* /vol/storage_mlc01. Any call can fail.                                     *)
(***************************************************************************)
EXTENDS Fsa, FiniteSets

CONSTANTS
  Dirs,       \* the directories on the card
  Backup,     \* Backup[p]: the content of file p on the card
  OldMlc,     \* OldMlc[p]: what the MLC holds there, <<>> too if there is no file
  BlockSize,  \* block_size
  MaxTries    \* how often mount_sd tries

\* the names of directories and files
Names == {"usr", "sys"} \cup UNION {{p[i] : i \in DOMAIN p} : p \in Dirs \cup DOMAIN Backup}

\* The files of the backup are in the directories usr and sys, or deeper in others
\* that are on the card too.
ASSUME FsaCopyAssumption ==
  /\ Dirs \cup DOMAIN Backup \subseteq Seq(Names) /\ Dirs \cap DOMAIN Backup = {}
  /\ \A p \in DOMAIN Backup : /\ Len(p) > 1 /\ SubSeq(p, 1, 1) \in {<<"usr">>, <<"sys">>}
                             /\ \A n \in 1..Len(p) - 1 : SubSeq(p, 1, n) \in Dirs
  /\ {Backup, OldMlc} \subseteq [DOMAIN Backup -> Seq(0..255)]
  /\ BlockSize \in Nat \ {0} /\ MaxTries \in Nat

VARIABLES
  main,     \* where wupserver_main is
  tries,    \* i of mount_sd
  stack,    \* the activations of fsa_copydir
  mlc,      \* mlc[p]: content of file p on the MLC
  open,     \* the handles that are open at the FSA service
  call,     \* the last FSA or MCP call
  failed    \* history: some call has failed

copyvars == <<main, tries, stack, mlc, open, call, failed>>

CopyInit ==
  /\ main = "FSA_Open" /\ tries = 0
  /\ stack = <<>>
  /\ mlc = OldMlc
  /\ open = {}
  /\ call = "FSA_FlushVolume" /\ failed = FALSE

Entries(p) == {q \in Dirs \cup DOMAIN Backup : Len(q) = Len(p) + 1 /\ SubSeq(q, 1, Len(p)) = p}

-----------------------------------------------------------------------------
(* fsa_copydir: the activation on top of the stack. entry is dir_entry, todo what
   FSA_ReadDir has not returned yet. *)

top == stack[Len(stack)]
At(pc) == stack # <<>> /\ top.pc = pc
Goto(pc) == stack' = [stack EXCEPT ![Len(stack)].pc = pc]
Frame(p) == [dir |-> p, pc |-> "opendir", todo |-> Entries(p), entry |-> p, off |-> 0]
Return == stack' = SubSeq(stack, 1, Len(stack) - 1)

Does(op) == call' = op /\ UNCHANGED failed
Fails(op) == call' = op /\ failed' = TRUE
Dir == <<"dir", top.dir>>
Src == <<"src", top.entry>>
Dst == <<"dst", top.entry>>

opendir ==
  /\ At("opendir")
  /\ \/ Does("FSA_OpenDir") /\ Goto("makedir") /\ open' = open \cup {Dir}
     \/ Fails("FSA_OpenDir") /\ Return /\ UNCHANGED open
  /\ UNCHANGED <<main, tries, mlc>>

\* FSA_MakeDir, which may find the directory, and the allocation of dir_entry;
\* if one of them fails the directory is closed
makedir ==
  /\ At("makedir")
  /\ \/ Does("FSA_MakeDir") /\ Goto("readdir") /\ UNCHANGED open
     \/ Fails("FSA_CloseDir") /\ Return /\ open' = open \ {Dir}
  /\ UNCHANGED <<main, tries, mlc>>

\* The end of the directory, and an error that is taken for it
closedir ==
  /\ At("readdir")
  /\ IF top.todo = {} THEN Does("FSA_CloseDir") ELSE Fails("FSA_CloseDir")
  /\ Return /\ open' = open \ {Dir}
  /\ UNCHANGED <<main, tries, mlc>>

\* an entry, and the two names; a directory is copied by the next activation
readdir ==
  /\ At("readdir")
  /\ \E q \in top.todo :
       LET me == [top EXCEPT !.entry = q, !.todo = @ \ {q}]
       IN  stack' = IF q \in Dirs
                      THEN [stack EXCEPT ![Len(stack)] = me] \o <<Frame(q)>>
                      ELSE [stack EXCEPT ![Len(stack)] = [me EXCEPT !.pc = "opensrc", !.off = 0]]
  /\ Does("FSA_ReadDir")
  /\ UNCHANGED <<main, tries, mlc, open>>

\* no memory for the names or the buffer, or no source file
opensrc ==
  /\ At("opensrc")
  /\ \/ Does("FSA_OpenFile") /\ Goto("opendst") /\ open' = open \cup {Src}
     \/ Fails("FSA_CloseDir") /\ Return /\ open' = open \ {Dir}
  /\ UNCHANGED <<main, tries, mlc>>

\* Mutant: the source file is forgotten.
opendst_mutant ==
  /\ At("opendst")
  /\ \/ /\ Does("FSA_OpenFile") /\ Goto("copy") /\ open' = open \cup {Dst}
        /\ mlc' = [mlc EXCEPT ![top.entry] = <<>>]
     \/ Fails("FSA_CloseDir") /\ Return /\ open' = open \ {Dir} /\ UNCHANGED mlc
  /\ UNCHANGED <<main, tries>>

\* mode "w" empties the file
opendst ==
  /\ At("opendst")
  /\ \/ /\ Does("FSA_OpenFile") /\ Goto("copy") /\ open' = open \cup {Dst}
        /\ mlc' = [mlc EXCEPT ![top.entry] = <<>>]
     \/ Fails("FSA_CloseDir") /\ Return /\ open' = open \ {Src, Dir} /\ UNCHANGED mlc
  /\ UNCHANGED <<main, tries>>

fsize == Len(Backup[top.entry])
cur_size == IF fsize - top.off < BlockSize THEN fsize - top.off ELSE BlockSize

\* Mutant: a block that was written in part does not end the loop.
copy_mutant ==
  /\ At("copy") /\ top.off < fsize
  /\ \E n \in 0..cur_size :
       /\ mlc' = [mlc EXCEPT ![top.entry] = @ \o SubSeq(Backup[top.entry], top.off + 1, top.off + n)]
       /\ stack' = [stack EXCEPT ![Len(stack)].off = @ + cur_size]
       /\ IF n = cur_size THEN Does("FSA_WriteFile") ELSE Fails("FSA_WriteFile")
  /\ UNCHANGED <<main, tries, open>>

\* One block read and written; an error or a short count ends the loop
copy ==
  /\ At("copy") /\ top.off < fsize
  /\ \/ Fails("FSA_ReadFile") /\ Goto("close") /\ UNCHANGED mlc
     \/ \E n \in 0..cur_size :
          /\ mlc' = [mlc EXCEPT ![top.entry] = @ \o SubSeq(Backup[top.entry], top.off + 1, top.off + n)]
          /\ IF n = cur_size
               THEN stack' = [stack EXCEPT ![Len(stack)].off = @ + cur_size] /\ Does("FSA_WriteFile")
               ELSE Goto("close") /\ Fails("FSA_WriteFile")
  /\ UNCHANGED <<main, tries, open>>

\* both files are closed; FSA_ChangeMode is called for the directory, not the file
close ==
  /\ At("close") \/ (At("copy") /\ top.off = fsize)
  /\ Does("FSA_ChangeMode") /\ Goto("readdir") /\ open' = open \ {Src, Dst}
  /\ UNCHANGED <<main, tries, mlc>>

fsa_copydir ==
  opendir \/ makedir \/ closedir \/ readdir \/ opensrc \/ opendst \/ copy \/ close

-----------------------------------------------------------------------------
(* wupserver_main *)

Then(pc) == main' = pc
Stage(pc) == main = pc /\ stack = <<>>

\* retried until it works
FSA_Open ==
  /\ Stage("FSA_Open") /\ Then("mount_sd")
  /\ UNCHANGED <<tries, stack, mlc, open, call, failed>>

\* gives up after some attempts
mount_sd ==
  /\ Stage("mount_sd") /\ call' = "FSA_Mount"
  /\ \/ Then("wait_sd") /\ tries' = 0
     \/ tries < MaxTries /\ tries' = tries + 1 /\ UNCHANGED main
  /\ UNCHANGED <<stack, mlc, open, failed>>

\* opens a directory until it works, and closes it
wait_storages_ready(next) ==
  /\ \/ Stage("wait_sd") /\ Then("wait_mlc")
     \/ Stage("wait_mlc") /\ Then(next)
  /\ call' = "FSA_CloseDir"
  /\ UNCHANGED <<tries, stack, mlc, open, failed>>

\* the two directories of the backup
copydirs ==
  /\ \/ Stage("usr") /\ Then("sys")
     \/ Stage("sys") /\ Then("flush")
  /\ stack' = <<Frame(<<main>>)>>
  /\ UNCHANGED <<tries, mlc, open, call, failed>>

flush_volumes ==
  /\ Stage("flush") /\ Then("done") /\ Does("FSA_FlushVolume")
  /\ UNCHANGED <<tries, stack, mlc, open>>

\* MCP_InstallTarget, MCP_InstallGetInfo and MCP_Install, results ignored; again
emergency_install ==
  /\ \/ Stage("install") /\ Then("info") /\ call' = "MCP_InstallTarget"
     \/ Stage("info") /\ Then("install2") /\ call' = "MCP_InstallGetInfo"
     \/ Stage("install2") /\ Then("mount_sd") /\ call' = "MCP_Install"
  /\ UNCHANGED <<tries, stack, mlc, open, failed>>

Restore ==
  FSA_Open \/ mount_sd \/ wait_storages_ready("usr") \/ copydirs \/ fsa_copydir \/ flush_volumes
Install == FSA_Open \/ mount_sd \/ wait_storages_ready("install") \/ emergency_install

\* any other plugin, or a hook
PluginCall ==
  /\ \E op \in Ops : call' = op
  /\ UNCHANGED <<main, tries, stack, mlc, open, failed>>

-----------------------------------------------------------------------------
(* Properties *)

\* Every call of services/fsa.c arrives as it was made: no argument is put over
\* another one or behind the end of the request, a path that has to be cut stays
\* terminated (three calls have no room for that), and no more is copied from the
\* answer than there is.
CallsArrive ==
  /\ \A i \in DOMAIN Messages[call].put :
       Arrives(call, i) /\ (Terminated(call, i) \/ call \in {"MCP_InstallGetInfo", "MCP_Install", "FSA_Format"})
  /\ OutFits(call)

\* The handles of an activation
Holds(f) ==
  (IF f.pc = "opendir" THEN {} ELSE {<<"dir", f.dir>>})
  \cup (IF f.pc \in {"opendst", "copy", "close"} THEN {<<"src", f.entry>>} ELSE {})
  \cup (IF f.pc \in {"copy", "close"} THEN {<<"dst", f.entry>>} ELSE {})

\* fsa_copydir closes what it has opened on each way out, at every depth: what is
\* open at FSA belongs to an activation that has not returned.
HandlesClosed == open = UNION {Holds(stack[k]) : k \in DOMAIN stack}

IsPrefixOf(s, t) == Len(s) <= Len(t) /\ s = SubSeq(t, 1, Len(s))

\* A restored file is a first part of its backup or still the old one, whatever
\* fails; if nothing has failed all of them are complete.
CopyRight ==
  /\ \A p \in DOMAIN Backup : mlc[p] = OldMlc[p] \/ IsPrefixOf(mlc[p], Backup[p])
  /\ main = "done" /\ ~failed => mlc = Backup
=============================================================================
