--------------------------- MODULE TrampolineExec ---------------------------
(***************************************************************************)
(* Execution of patched code: what the CPU does in the trampolines of       *)
(* trampoline_asm.S once kern_main is done and IOSU runs. The stack is      *)
(* modelled word by word, because the trampolines hand the replaced         *)
(* function and the return address to the hook through it.                  *)
(***************************************************************************)
EXTENDS Trampoline

VARIABLES
  running,   \* kern_main has returned: no more installations
  cpu        \* the thread that calls a patched address

evars == <<mem, next, tramp, proto, alive, order, running, cpu>>

\* A place in code: the first instruction at an address, or the instruction
\* behind the blx of a trampoline. Also the words of the stack.
At(loc) == [loc |-> loc, part |-> "entry"]
Behind(loc) == [loc |-> loc, part |-> "tail"]
Reg == [loc |-> 0, part |-> "reg"]
Idle == [loc |-> 0, part |-> "idle"]

\* What the thread did, in order: a hook ran (did: and went on to the code it
\* hooked), or an original instruction.
HookRan(h, did) == [hook |-> h, ins |-> 0, did |-> did]
InsRan(arg) == [hook |-> "none", ins |-> arg, did |-> TRUE]

InitCpu == [pc |-> Idle, lr |-> Reg, stack |-> << >>, log |-> << >>, site |-> 0]

\* the trampoline mapped at an address
TrampAt(a) == {t \in DOMAIN tramp : \E i \in Mirrors : Alias(t, i) = a}

\* registers a trampoline pushes on top of the chain and the saved lr, and the
\* words its tail drops before it pops the return address
RegsPushed == [blre |-> 0, blre_regs |-> 9, t_blre |-> 0, t_blre_regs |-> 4]
\* mutant: the tail forgets that r4-r12 are on the stack
TailDropMutant == [blre |-> 1, blre_regs |-> 1, t_blre |-> 1, t_blre_regs |-> 1]

TailDrop == [blre |-> 1, blre_regs |-> 10, t_blre |-> 1, t_blre_regs |-> 1]

BlreKinds == DOMAIN RegsPushed

Drop(seq, n) == SubSeq(seq, n + 1, Len(seq))

-----------------------------------------------------------------------------
\* kern_main returns and IOSU boots
Boot ==
  /\ alive
  /\ ~running
  /\ running' = TRUE
  /\ UNCHANGED <<vars, cpu>>

\* a thread of IOSU reaches the patched address
Call(s) ==
  /\ running
  /\ cpu.pc = Idle
  /\ cpu' = [InitCpu EXCEPT !.pc = At(s), !.site = s]
  /\ UNCHANGED <<vars, running>>

\* the CPU executes the word at the site
ExecSite ==
  /\ cpu.pc = At(cpu.site)
  /\ cpu' =
       CASE mem[cpu.site].op = "bl" ->
              [cpu EXCEPT !.pc = At(Target(cpu.site)), !.lr = At(cpu.site + 4)]
         [] mem[cpu.site].op = "b" -> [cpu EXCEPT !.pc = At(Target(cpu.site))]
         [] mem[cpu.site].op = "ins" ->
              [cpu EXCEPT !.pc = At(cpu.site + 4),
                          !.log = Append(@, InsRan(mem[cpu.site].arg))]
  /\ UNCHANGED <<vars, running>>

\* the trampoline the CPU is at the start of
Here(t) == cpu.pc.part = "entry" /\ t \in TrampAt(cpu.pc.loc)

\* trampoline_blre_proto, trampoline_blre_regs_proto and the thumb versions.
\* The hook finds the replaced function behind the saved registers, and calls
\* it or not.
ExecBlre(t, callsOrg) ==
  LET w == tramp[t].words
      kind == tramp[t].kind
      stack == [i \in 1..RegsPushed[kind] |-> Reg]
                 \o <<At(w.chain.arg), cpu.lr>> \o cpu.stack
      org == stack[RegsPushed[kind] + 1]
  IN /\ Here(t)
     /\ kind \in BlreKinds
     /\ cpu' = [cpu EXCEPT
          !.stack = stack,
          !.lr = Behind(t),
          !.pc = IF callsOrg THEN org ELSE Behind(t),
          !.log = Append(@, HookRan(w.target, callsOrg))]
     /\ UNCHANGED <<vars, running>>

\* the code behind the blx of the same prototypes
ExecBlreTail(t) ==
  LET rest == Drop(cpu.stack, TailDrop[tramp[t].kind]) IN
  /\ cpu.pc = Behind(t)
  /\ cpu' = [cpu EXCEPT !.pc = Head(rest), !.stack = Tail(rest)]
  /\ UNCHANGED <<vars, running>>

\* where "bx lr" or "ldr pc" at the end of a trampoline goes
Jump(to) == IF to = BxLr THEN cpu.lr ELSE At(to.arg)

\* bytes in front of trampoline_hookbefore_proto_orgins
OrginsOffset == 20

\* trampoline_hookbefore_proto, t_hookbefore_proto and t_hookbefore_bl_proto:
\* registers saved, hook, registers restored, then the continuation. A B that
\* was relocated jumps as far from its new place as it did from the old one.
ExecHookBefore(t) ==
  LET w == tramp[t].words
      c == Continuation(w)
      ran == IF c.ins.op = "ins" THEN <<InsRan(c.ins.arg)>> ELSE << >>
  IN /\ Here(t)
     /\ tramp[t].kind \in {"hookbefore", "t_hookbefore", "t_hookbefore_bl"}
     /\ cpu' = [cpu EXCEPT
          !.pc = IF c.ins.op = "b"
                 THEN At(extract_arm(@.loc + OrginsOffset, c.ins.arg))
                 ELSE Jump(c.to),
          !.log = @ \o <<HookRan(w.target, TRUE)>> \o ran]
     /\ UNCHANGED <<vars, running>>

\* trampoline_hookbefore_lr_proto: a hook that returns true skips the
\* relocated instruction
ExecHookBeforeLr(t, skip) ==
  LET w == tramp[t].words
      c == Continuation(w)
      ran == IF c.ins = Nop \/ skip THEN << >> ELSE <<InsRan(c.ins.arg)>>
  IN /\ Here(t)
     /\ tramp[t].kind = "hookbefore_lr"
     /\ cpu' = [cpu EXCEPT
          !.pc = Jump(c.to),
          !.log = @ \o <<HookRan(w.target, ~(skip /\ c.ins # Nop))>> \o ran]
     /\ UNCHANGED <<vars, running>>

\* the function the original instruction called or jumped to
OrigTarget(s) == extract_target(s, Orig[s].arg)

AtFunction(s) ==
  cpu.pc # Idle /\ Orig[s].op # "ins" /\ cpu.pc = At(OrigTarget(s))

\* a called function runs and returns; a jump leaves the site for good
ExecFunction ==
  LET s == cpu.site IN
  /\ AtFunction(s)
  /\ cpu' = [cpu EXCEPT
       !.log = Append(@, InsRan(Orig[s].arg)),
       !.pc = IF Orig[s].op = "bl" THEN cpu.lr ELSE Idle]
  /\ UNCHANGED <<vars, running>>

\* the code behind the site runs
Resume ==
  /\ cpu.pc = At(cpu.site + 4)
  /\ cpu' = [cpu EXCEPT !.pc = Idle]
  /\ UNCHANGED <<vars, running>>

Exec ==
  \/ ExecSite
  \/ \E t \in DOMAIN tramp :
       \/ \E c \in BOOLEAN : ExecBlre(t, c) \/ ExecHookBeforeLr(t, c)
       \/ ExecBlreTail(t)
       \/ ExecHookBefore(t)
  \/ ExecFunction
  \/ Resume

InstallStep ==
  /\ ~running
  /\ Next
  /\ UNCHANGED <<running, cpu>>

EInit == Init /\ running = FALSE /\ cpu = InitCpu

ENext == InstallStep \/ Boot \/ (\E s \in Sites : Call(s)) \/ Exec

\* A CPU that is not at rest executes the next instruction; hooks and replaced
\* functions return.
ESpec == EInit /\ [][ENext]_evars /\ WF_evars(Exec)

-----------------------------------------------------------------------------
(* Properties *)

\* a hook of trampoline_t_blreplace_with_regs is installed at s
ThumbRegs(s) ==
  s \in Sites /\ \E i \in DOMAIN order[s] : tramp[order[s][i]].kind = "t_blre_regs"

\* README.md on trampoline_t_blreplace_with_regs: "Same as
\* trampoline_t_blreplace but also pushes r4-r7 on the stack". So when its tail
\* has run, the PC is a return address, and not a register the prototype saved.
ThumbRegsReturns == cpu.pc # Reg

\* The thread only ever executes the patched site, the code behind it, an
\* installed trampoline or the function the original instruction branched to:
\* no branch encoded or decoded by patch.h and trampoline.c, and no word popped
\* into the PC by a trampoline, leads anywhere else. Sites with a hook of
\* trampoline_t_blreplace_with_regs are the subject of ThumbRegsReturns.
NoWildBranch ==
  LET pc == cpu.pc IN
  \/ ThumbRegs(cpu.site)
  \/ pc = Idle
  \/ pc.part = "tail" /\ pc.loc \in DOMAIN tramp
  \/ /\ pc.part = "entry"
     /\ \/ pc.loc \in {cpu.site, cpu.site + 4}
        \/ AtFunction(cpu.site)
        \/ TrampAt(pc.loc) # {}

\* the site was executed to the end
Finished == cpu.pc = Idle /\ cpu.site \in Sites

\* Execution of a site runs its hooks from the newest to the oldest, each once,
\* until a replacement decides not to call the function it replaced or a
\* hook_before_v2 hook skips the instruction; if none does, the original
\* instruction or call follows, exactly once and with nothing left on the stack.
RunsHooksNewestFirst ==
  Finished =>
    LET hs == HooksAt(cpu.site)
        n == Len(hs)
        log == cpu.log
        m == Len(log)
    IN /\ \A i \in 1..m : i <= n => log[i].hook = hs[n + 1 - i]
       /\ \A i \in 1..(m - 1) : log[i].did
       /\ \/ m = n + 1 /\ log[m] = InsRan(Orig[cpu.site].arg)
          \/ m \in 1..n /\ ~log[m].did
       /\ cpu.stack = << >>

\* hook_before_v2 leaves lr alone, which is what trampoline_hookbefore_lr_proto
\* exists for: an address that was not a call, hooked any number of times in this
\* way, still has the caller's lr in the end.
LrPreserved ==
  /\ Finished
  /\ Orig[cpu.site].op # "bl"
  /\ \A i \in DOMAIN order[cpu.site] : tramp[order[cpu.site][i]].kind = "hookbefore_lr"
  => cpu.lr = Reg

\* Every execution of a patched site ends: the chain of trampolines has no
\* cycle and no dead end.
CallReturns == (cpu.pc # Idle /\ ~ThumbRegs(cpu.site)) ~> cpu.pc = Idle
=============================================================================
