----------------------------- MODULE Trampoline -----------------------------
(***************************************************************************)
(* Installation of trampolines: wafel_core/source/trampoline.c, the        *)
(* prototypes it copies (trampoline_asm.S) and the branch encoders of       *)
(* include/wafel/patch.h. It runs in kern_main, before the MMU and before   *)
(* any other IOSU code, so the operations are steps of one thread.          *)
(*                                                                         *)
(* Addresses are the real ones, as signed 32-bit integers (0xE5F00000 is    *)
(* -0x1A100000). The thumb bit of a branch target is left out.              *)
(***************************************************************************)
EXTENDS Integers, Sequences

CONSTANTS
  Sites,     \* the addresses that get patched
  Thumb,     \* the sites that hold thumb code
  Orig,      \* Orig[s]: the instruction the IOSU image has at s
  Hooks,     \* functions that plugins and wafel_core hook in
  OverB,     \* hook_before gets called where hook_before_v2 has left a B
  Base,      \* wafel_plugin_base_addr
  BufStart,  \* trampoline_buffer
  BufSize    \* its size (2048 in patch_asm.S)

VARIABLES
  mem,       \* mem[s]: the instruction at site s now
  next,      \* trampoline_next
  tramp,     \* the trampolines in the buffer, by address
  proto,     \* the shared prototypes, whose words the installers overwrite
  alive,     \* FALSE after crash_and_burn
  order      \* history: the trampolines installed for s, oldest first

vars == <<mem, next, tramp, proto, alive, order>>

-----------------------------------------------------------------------------
(* Words of code and data. *)

\* A word is an instruction or a code address. "bl" and "b" hold an encoded
\* offset, "ins" an instruction that does not use the PC.
Word(op, arg) == [op |-> op, arg |-> arg]
Addr(a) == Word("addr", a)
Zero == Word("zero", 0)
Nop == Word("nop", 0)
BxLr == Word("bx_lr", 0)
LdrPc == Word("ldr_pc", 0)   \* ldr pc, trampoline_hookbefore_proto_chain

\* sizes in bytes of the code between <kind>_proto and <kind>_proto_end
Size == [blre |-> 32, blre_regs |-> 36, hookbefore |-> 32, hookbefore_lr |-> 44,
         t_blre |-> 28, t_blre_regs |-> 28, t_hookbefore |-> 28,
         t_hookbefore_bl |-> 28]

Kinds == DOMAIN Size

\* The words of a prototype the installers fill in; chain is "_ret" in
\* hookbefore_lr and the closing bx lr in t_hookbefore.
ProtoWords(chain, orgins) == [target |-> "none", chain |-> chain, orgins |-> orgins]

InitProto == [k \in Kinds |->
  CASE k = "hookbefore"   -> ProtoWords(BxLr, LdrPc)
    [] k = "t_hookbefore" -> ProtoWords(BxLr, Nop)
    [] OTHER              -> ProtoWords(Zero, Nop)]

-----------------------------------------------------------------------------
(* Branches: BL and B of ARM, the BL pair of thumb. *)

ArmBlock == 67108864     \* 1 << 26
ThumbBlock == 8388608    \* 1 << 23

Block(s) == IF s \in Thumb THEN ThumbBlock ELSE ArmBlock

\* the offset field of _BL_TRAMPOLINE and _BRANCH_PATCH: 24 bits of words
encode_arm(addr, dst) == ((dst - addr - 8) \div 4) % 16777216

\* the offset field of _BL_T_TRAMPOLINE: 11 low and 10 high bits of halfwords
encode_thumb(addr, dst) == ((dst - addr - 4) \div 2) % 2097152

encode(s, dst) == IF s \in Thumb THEN encode_thumb(s, dst) ELSE encode_arm(s, dst)

\* two's complement: a field of range m as a signed number
sext(off, m) == IF off >= m \div 2 THEN off - m ELSE off

\* mutant: the prefetch of the ARM pipeline is forgotten
extract_arm_mutant(addr, off) == addr + sext(off * 4, ArmBlock)

\* extract_target
extract_arm(addr, off) == addr + sext(off * 4, ArmBlock) + 8

\* the offset arithmetic of extract_bl_t_target
extract_thumb(addr, off) == addr + sext(off * 2, ThumbBlock) + 4

extract_target(s, off) ==
  IF s \in Thumb THEN extract_thumb(s, off) ELSE extract_arm(s, off)

\* extract_bl_target, extract_b_target and extract_bl_t_target on what is at s
Target(s) == extract_target(s, mem[s].arg)

-----------------------------------------------------------------------------
(* The buffer and its mirrors. *)

BufEnd == BufStart + BufSize

align(x, to) == x + (to - 1) - ((x - 1) % to)

\* MCP, FS, NET, NSEC, BSP and KERN, in the order trampoline_find_mapping tries
AltBase == <<85983232, 274726912, 304087040, -516947968, -437256192, 136314880>>

Mirrors == 0..6

\* the address of t through mirror i; 0 is t's own mapping
Alias(t, i) == IF i = 0 THEN t ELSE t - Base + AltBase[i]

\* the mirrors trampoline_find_mapping accepts
Usable(s, t) == {i \in Mirrors : Alias(t, i) \div Block(s) = s \div Block(s)}

\* the one it returns
trampoline_find_mapping(s, t) ==
  Alias(t, CHOOSE i \in Usable(s, t) : \A j \in Usable(s, t) : i <= j)

\* trampoline_copy, trampoline_find_mapping and the branch written at s; w are
\* the words of the copy once the installer has finished with it. Running out
\* of buffer or of mirrors ends in crash_and_burn.
NoSpace(kind) ==
  /\ align(next, 4) + Size[kind] >= BufEnd
  /\ next' = align(next, 4)
  /\ alive' = FALSE
  /\ UNCHANGED <<mem, tramp, order>>

\* mutants: the memcpy is lost; only the start is compared with the end of the
\* buffer; trampoline_next is not moved
copy_mutant_lost(kind, w) ==
  /\ align(next, 4) + Size[kind] < BufEnd
  /\ next' = align(next, 4) + Size[kind]
  /\ UNCHANGED tramp

CopyTo(base, kind, w) ==
  tramp' = [a \in DOMAIN tramp \cup {base} |->
              IF a = base THEN [kind |-> kind, words |-> w] ELSE tramp[a]]

copy_mutant_size(kind, w) ==
  /\ align(next, 4) < BufEnd
  /\ next' = align(next, 4) + Size[kind]
  /\ CopyTo(align(next, 4), kind, w)

copy_mutant_next(kind, w) ==
  /\ align(next, 4) + Size[kind] < BufEnd
  /\ next' = align(next, 4)
  /\ CopyTo(align(next, 4), kind, w)

trampoline_copy(kind, w) ==
  LET base == align(next, 4) IN
  /\ base + Size[kind] < BufEnd
  /\ next' = base + Size[kind]
  /\ tramp' = [a \in DOMAIN tramp \cup {base} |->
                 IF a = base THEN [kind |-> kind, words |-> w] ELSE tramp[a]]

NoMapping(s, kind, w) ==
  /\ trampoline_copy(kind, w)
  /\ Usable(s, align(next, 4)) = {}
  /\ alive' = FALSE
  /\ UNCHANGED <<mem, order>>

Branch(s, kind, w, op) ==
  LET base == align(next, 4) IN
  /\ trampoline_copy(kind, w)
  /\ Usable(s, base) # {}
  /\ mem' = [mem EXCEPT
       ![s] = Word(op, encode(s, trampoline_find_mapping(s, base)))]
  /\ order' = [order EXCEPT ![s] = Append(@, base)]
  /\ UNCHANGED alive

trampoline_install(s, kind, w, op) ==
  \/ NoSpace(kind)
  \/ NoMapping(s, kind, w)
  \/ Branch(s, kind, w, op)

-----------------------------------------------------------------------------
(* The installers. Their guards are what README.md asks of the caller: a   *)
(* replaced call is a BL, and the original instruction that hook_before     *)
(* relocates does not use the PC. hook_before_v2 also takes a B.            *)

IsCall(s) == mem[s].op = "bl"

\* The caller of hook_before knows the original instruction. The B that an
\* earlier hook_before_v2 wrote over it is no concern of his (OverB), but the
\* code then relocates that B, which does use the PC.
MayRelocate(s) ==
  /\ Orig[s].op # "b"
  /\ mem[s].op = "b" => OverB

blreplace(s, h, kind) ==
  LET w == [proto[kind] EXCEPT !.target = h, !.chain = Addr(Target(s))] IN
  /\ alive
  /\ IsCall(s)
  /\ proto' = [proto EXCEPT ![kind] = w]
  /\ trampoline_install(s, kind, w, "bl")

trampoline_blreplace(s, h) == s \notin Thumb /\ blreplace(s, h, "blre")

trampoline_blreplace_with_regs(s, h) ==
  s \notin Thumb /\ blreplace(s, h, "blre_regs")

trampoline_t_blreplace(s, h) == s \in Thumb /\ blreplace(s, h, "t_blre")

trampoline_t_blreplace_with_regs(s, h) ==
  s \in Thumb /\ blreplace(s, h, "t_blre_regs")

\* mutants: the words of the copy go into the prototype; the overwritten
\* instruction is not relocated
hook_before_mutant_proto(s, h) ==
  LET w == IF IsCall(s)
           THEN [proto["hookbefore"] EXCEPT !.target = h, !.chain = Addr(Target(s))]
           ELSE [proto["hookbefore"] EXCEPT !.target = h, !.orgins = mem[s]]
  IN /\ alive /\ s \notin Thumb /\ MayRelocate(s)
     /\ proto' = [proto EXCEPT !["hookbefore"] = w]
     /\ trampoline_install(s, "hookbefore", w, "bl")

hook_before_mutant_lost(s, h) ==
  LET p == [proto["hookbefore"] EXCEPT !.target = h]
      w == IF IsCall(s) THEN [p EXCEPT !.chain = Addr(Target(s))] ELSE p
  IN /\ alive /\ s \notin Thumb /\ MayRelocate(s)
     /\ proto' = [proto EXCEPT !["hookbefore"] = p]
     /\ trampoline_install(s, "hookbefore", w, "bl")

\* target goes into the prototype, chain or orgins only into the copy
trampoline_hook_before(s, h) ==
  LET p == [proto["hookbefore"] EXCEPT !.target = h]
      w == IF IsCall(s) THEN [p EXCEPT !.chain = Addr(Target(s))]
                        ELSE [p EXCEPT !.orgins = mem[s]]
  IN /\ alive
     /\ s \notin Thumb
     /\ MayRelocate(s)
     /\ proto' = [proto EXCEPT !["hookbefore"] = p]
     /\ trampoline_install(s, "hookbefore", w, "bl")

\* mutants: an earlier branch is not followed; the site always gets a BL
hook_before_v2_mutant_ret(s, h) ==
  LET p == [proto["hookbefore_lr"] EXCEPT !.target = h, !.chain = Addr(s + 4)]
      w == IF mem[s].op \in {"bl", "b"} THEN p ELSE [p EXCEPT !.orgins = mem[s]]
  IN /\ alive /\ s \notin Thumb
     /\ proto' = [proto EXCEPT !["hookbefore_lr"] = p]
     /\ trampoline_install(s, "hookbefore_lr", w, IF IsCall(s) THEN "bl" ELSE "b")

hook_before_v2_mutant_bl(s, h) ==
  LET isB == mem[s].op \in {"bl", "b"}
      p == [proto["hookbefore_lr"] EXCEPT
              !.target = h, !.chain = Addr(IF isB THEN Target(s) ELSE s + 4)]
      w == IF isB THEN p ELSE [p EXCEPT !.orgins = mem[s]]
  IN /\ alive /\ s \notin Thumb
     /\ proto' = [proto EXCEPT !["hookbefore_lr"] = p]
     /\ trampoline_install(s, "hookbefore_lr", w, "bl")

\* target and ret go into the prototype, orgins only into the copy
trampoline_hook_before_v2(s, h) ==
  LET isB == mem[s].op \in {"bl", "b"}
      ret == IF isB THEN Target(s) ELSE s + 4
      p == [proto["hookbefore_lr"] EXCEPT !.target = h, !.chain = Addr(ret)]
      w == IF isB THEN p ELSE [p EXCEPT !.orgins = mem[s]]
  IN /\ alive
     /\ s \notin Thumb
     /\ proto' = [proto EXCEPT !["hookbefore_lr"] = p]
     /\ trampoline_install(s, "hookbefore_lr", w, IF IsCall(s) THEN "bl" ELSE "b")

trampoline_t_hook_before_bl(s, h) ==
  LET w == [proto["t_hookbefore_bl"] EXCEPT !.target = h, !.chain = Addr(Target(s))]
  IN /\ IsCall(s)
     /\ proto' = [proto EXCEPT !["t_hookbefore_bl"] = w]
     /\ trampoline_install(s, "t_hookbefore_bl", w, "bl")

trampoline_t_hook_before_ins(s, h) ==
  LET w == [proto["t_hookbefore"] EXCEPT !.target = h, !.orgins = mem[s]]
  IN /\ ~IsCall(s)
     /\ proto' = [proto EXCEPT !["t_hookbefore"] = w]
     /\ trampoline_install(s, "t_hookbefore", w, "bl")

trampoline_t_hook_before(s, h) ==
  /\ alive
  /\ s \in Thumb
  /\ \/ trampoline_t_hook_before_bl(s, h)
     \/ trampoline_t_hook_before_ins(s, h)

-----------------------------------------------------------------------------
Init ==
  /\ mem = Orig
  /\ next = BufStart
  /\ tramp = << >>
  /\ proto = InitProto
  /\ alive = TRUE
  /\ order = [s \in Sites |-> << >>]

Install(s, h) ==
  \/ trampoline_blreplace(s, h)
  \/ trampoline_blreplace_with_regs(s, h)
  \/ trampoline_hook_before(s, h)
  \/ trampoline_hook_before_v2(s, h)
  \/ trampoline_t_blreplace(s, h)
  \/ trampoline_t_blreplace_with_regs(s, h)
  \/ trampoline_t_hook_before(s, h)

Next == \E s \in Sites, h \in Hooks : Install(s, h)

Spec == Init /\ [][Next]_vars

-----------------------------------------------------------------------------
(* Properties *)

Instr == [op : {"bl", "b", "ins"}, arg : Int]
CodeWord == [op : {"bl", "b", "ins", "addr", "zero", "nop", "bx_lr", "ldr_pc"},
             arg : Int]
Words == [target : Hooks \cup {"none"}, chain : CodeWord, orgins : CodeWord]

\* The type invariant: what the site words, the buffer's contents and the
\* prototypes of trampoline.c may hold.
TypeOK ==
  /\ mem \in [Sites -> Instr]
  /\ next \in Int
  /\ DOMAIN tramp \subseteq Int
  /\ tramp \in [DOMAIN tramp -> [kind : Kinds, words : Words]]
  /\ proto \in [Kinds -> Words]
  /\ alive \in BOOLEAN
  /\ order \in [Sites -> Seq(DOMAIN tramp)]

\* trampoline_copy never writes outside trampoline_buffer and never over a
\* trampoline that is already installed, whatever mix of sizes was installed.
BufferSafe ==
  /\ next \in BufStart..BufEnd /\ next % 4 = 0
  /\ \A a \in DOMAIN tramp :
       /\ a % 4 = 0
       /\ BufStart <= a
       /\ a + Size[tramp[a].kind] <= next
       /\ \A b \in DOMAIN tramp : a < b => a + Size[tramp[a].kind] <= b

\* The words of a prototype that only some installations fill in still have
\* the value trampoline_asm.S gives them, so no hook inherits the original
\* instruction or the branch target of another site ("can't do this on the
\* proto as that would overwrite the other case", trampoline.c:147).
PrototypesClean ==
  /\ proto["hookbefore"].chain = BxLr
  /\ proto["hookbefore"].orgins = LdrPc
  /\ proto["t_hookbefore"].chain = BxLr
  /\ \A k \in Kinds \ {"hookbefore", "t_hookbefore"} : proto[k].orgins = Nop

\* What a trampoline executes after its hook: a relocated instruction (or
\* nothing), then a jump.
Continuation(w) == [ins |-> IF w.orgins = LdrPc THEN Nop ELSE w.orgins, to |-> w.chain]

JumpTo(a) == [ins |-> Nop, to |-> Addr(a)]

\* The oldest trampoline of s does what the original instruction did.
RunsOriginal(s, w) ==
  IF Orig[s].op = "ins"
  THEN /\ Continuation(w).ins = Orig[s]
       /\ Continuation(w).to \in {BxLr, Addr(s + 4)}
       /\ mem[s].op = "b" => Continuation(w).to = Addr(s + 4)
  ELSE /\ Continuation(w) = JumpTo(extract_target(s, Orig[s].arg))
       /\ mem[s].op = Orig[s].op

SiteIntact(s) ==
  LET o == order[s]
      n == Len(o)
  IN IF n = 0
     THEN mem[s] = Orig[s]
     ELSE /\ mem[s].op \in {"bl", "b"}
          /\ Target(s) = trampoline_find_mapping(s, o[n])
          /\ \A i \in 2..n : Continuation(tramp[o[i]].words)
                               = JumpTo(trampoline_find_mapping(s, o[i - 1]))
          /\ RunsOriginal(s, tramp[o[1]].words)

\* Hooking an address several times keeps the chain whole (README.md: "These
\* trampolines support hooking the same address multiple times"): the site
\* branches to the newest trampoline, each trampoline goes on to the one
\* installed before it, and the oldest one to the original code. It holds as long
\* as OverB is FALSE: trampoline_hook_before looks for a BL only.
ChainIntact == \A s \in Sites : SiteIntact(s)

\* The trampolines implement the hook chain: the hooks found by following
\* order[s] in the buffer are those the abstract specification has.
HooksAt(s) == [i \in 1..Len(order[s]) |-> tramp[order[s][i]].words.target]

Chain == INSTANCE HookChain WITH hooks <- [s \in Sites |-> HooksAt(s)]

ImplementsHookChain == Chain!Spec
=============================================================================
