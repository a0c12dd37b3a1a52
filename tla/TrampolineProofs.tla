-------------------------- MODULE TrampolineProofs --------------------------
(***************************************************************************)
(* Proofs about Trampoline for every set of sites, every buffer size and    *)
(* every layout that satisfies the assumptions of TrampolineLayout.         *)
(***************************************************************************)
EXTENDS TrampolineLayout, SequenceTheorems, TLAPS

(* Arithmetic of trampoline.c and patch.h *)

\* align(x, 4) rounds up to a multiple of 4 and keeps one.
LEMMA AlignLemma ==
  ASSUME NEW x \in Nat \ {0}, x % 4 = 0
  PROVE  align(x, 4) = x
BY DEF align

\* A BL or B written by _BL_TRAMPOLINE or _BRANCH_PATCH is decoded by
\* extract_target to the address it was written for, within +/- 32MB.
LEMMA ArmRoundTrip ==
  ASSUME NEW a \in Int, NEW d \in Int, (d - a) % 4 = 0,
         -33554424 <= d - a, d - a <= 33554439
  PROVE  extract_arm(a, encode_arm(a, d)) = d
<1> DEFINE q == (d - a - 8) \div 4
<1>1. q \in Int /\ d = a + 8 + 4 * q
  BY SMT
<1>2. -8388608 <= q /\ q <= 8388607
  BY SMT, <1>1
<1>3. CASE q >= 0
  <2>1. q % 16777216 = q
    BY SMT, <1>2, <1>3
  <2> QED
    BY SMT, <2>1, <1>1, <1>2, <1>3 DEF extract_arm, encode_arm, sext, ArmBlock
<1>4. CASE q < 0
  <2>1. q % 16777216 = q + 16777216
    BY SMT, <1>2, <1>4
  <2> QED
    BY SMT, <2>1, <1>1, <1>2, <1>4 DEF extract_arm, encode_arm, sext, ArmBlock
<1> QED
  BY SMT, <1>1, <1>3, <1>4

\* The thumb BL pair written by _BL_T_TRAMPOLINE is decoded correctly for a
\* forward offset below 4MB.
LEMMA ThumbRoundTrip ==
  ASSUME NEW a \in Int, NEW d \in Int, (d - a) % 2 = 0,
         4 <= d - a, d - a <= 4194307
  PROVE  extract_thumb(a, encode_thumb(a, d)) = d
<1> DEFINE q == (d - a - 4) \div 2
<1>1. q \in Int /\ d = a + 4 + 2 * q
  BY SMT
<1>2. 0 <= q /\ q <= 2097151
  BY SMT, <1>1
<1>3. q % 2097152 = q
  BY SMT, <1>2
<1> QED
  BY SMT, <1>1, <1>2, <1>3 DEF extract_thumb, encode_thumb, sext, ThumbBlock

\* The kinds of trampoline and the lengths of their prototypes.
LEMMA KindsLemma ==
  /\ Kinds = {"blre", "blre_regs", "hookbefore", "hookbefore_lr", "t_blre",
              "t_blre_regs", "t_hookbefore", "t_hookbefore_bl"}
  /\ \A k \in Kinds : Size[k] \in {28, 32, 36, 44}
BY DEF Kinds, Size

\* Every mirror is word aligned, and the choice of trampoline_find_mapping is
\* one of the usable ones.
LEMMA AliasLemma ==
  ASSUME NEW t \in Int, t % 4 = 0, NEW i \in Mirrors
  PROVE  Alias(t, i) \in Int /\ Alias(t, i) % 4 = 0
<1>1. Base \in Int /\ Base % 4 = 0
  BY SMT, LayoutAssumption
<1>2. i \in {0, 1, 2, 3, 4, 5, 6}
  BY DEF Mirrors
<1> QED
  BY SMT, <1>1, <1>2 DEF Alias, AltBase

\* trampoline_find_mapping returns a word-aligned address in one of the mirrors.
LEMMA MappingLemma ==
  ASSUME NEW s \in Sites, NEW t \in Int, t % 4 = 0, Usable(s, t) # {}
  PROVE  /\ trampoline_find_mapping(s, t) \in Int
         /\ trampoline_find_mapping(s, t) % 4 = 0
         /\ \E i \in Mirrors : trampoline_find_mapping(s, t) = Alias(t, i)
<1> DEFINE U == Usable(s, t)
           First(i) == i \in U /\ \A j \in U : i <= j
<1>1. U \subseteq {0, 1, 2, 3, 4, 5, 6}
  BY DEF Usable, Mirrors
<1>2. \E i : First(i)
  <2>1. CASE 0 \in U  BY <2>1, <1>1
  <2>2. CASE 0 \notin U /\ 1 \in U  BY <2>2, <1>1
  <2>3. CASE U \cap {0, 1} = {} /\ 2 \in U  BY <2>3, <1>1
  <2>4. CASE U \cap {0, 1, 2} = {} /\ 3 \in U  BY <2>4, <1>1
  <2>5. CASE U \cap {0, 1, 2, 3} = {} /\ 4 \in U  BY <2>5, <1>1
  <2>6. CASE U \cap {0, 1, 2, 3, 4} = {} /\ 5 \in U  BY <2>6, <1>1
  <2>7. CASE U \cap {0, 1, 2, 3, 4, 5} = {}  BY <2>7, <1>1
  <2> QED  BY <2>1, <2>2, <2>3, <2>4, <2>5, <2>6, <2>7
<1> DEFINE m == CHOOSE i \in Usable(s, t) : \A j \in Usable(s, t) : i <= j
<1>3. m \in Usable(s, t)
  BY <1>2
<1>4. m \in Mirrors
  BY <1>3 DEF Usable
<1> QED
  BY <1>4, AliasLemma DEF trampoline_find_mapping

\* A branch to the mapping trampoline_find_mapping returns leads there.
LEMMA BranchLemma ==
  ASSUME NEW s \in Sites, NEW t \in BufStart..BufEnd, t % 4 = 0, Usable(s, t) # {}
  PROVE  /\ encode(s, trampoline_find_mapping(s, t)) \in Int
         /\ extract_target(s, encode(s, trampoline_find_mapping(s, t)))
              = trampoline_find_mapping(s, t)
<1> DEFINE d == trampoline_find_mapping(s, t)
<1>1. t \in Int /\ s \in Int
  BY SMT, LayoutAssumption DEF BufEnd
<1>2. d \in Int /\ d % 4 = 0
  BY SMT, <1>1, MappingLemma
<1>3. IF s \in Thumb THEN 4 <= d - s /\ d - s <= 4194307
                   ELSE -33554424 <= d - s /\ d - s <= 33554439
  BY SMT, ReachAssumption
<1> HIDE DEF d
<1>4. CASE s \in Thumb
  <2>1. (d - s) % 2 = 0
    BY SMT, <1>1, <1>2, <1>4, LayoutAssumption
  <2>2. extract_thumb(s, encode_thumb(s, d)) = d
    BY SMT, <2>1, <1>1, <1>2, <1>3, <1>4, ThumbRoundTrip
  <2>3. encode_thumb(s, d) \in Int
    BY SMT, <1>1, <1>2 DEF encode_thumb
  <2> QED
    BY SMT, <2>2, <2>3, <1>4 DEF encode, extract_target, d
<1>5. CASE s \notin Thumb
  <2>1. (d - s) % 4 = 0
    BY SMT, <1>1, <1>2, <1>5, LayoutAssumption
  <2>2. extract_arm(s, encode_arm(s, d)) = d
    BY SMT, <2>1, <1>1, <1>2, <1>3, <1>5, ArmRoundTrip
  <2>3. encode_arm(s, d) \in Int
    BY SMT, <1>1, <1>2 DEF encode_arm
  <2> QED
    BY SMT, <2>2, <2>3, <1>5 DEF encode, extract_target, d
<1> QED
  BY SMT, <1>4, <1>5

-----------------------------------------------------------------------------
(* The inductive invariant *)

\* trampoline_t_hook_before tells a call from an instruction by the BL alone.
ThumbNoJump == \A s \in Thumb : mem[s].op # "b"

BlreProtos == {"blre", "blre_regs", "t_blre", "t_blre_regs"}

\* A site that holds a B has only trampolines of hook_before_v2. A relocated
\* instruction is in a trampoline that goes on where the site would have: behind it
\* if it was reached by a B, and to lr if it was by a BL.
SiteReturns(s) ==
  /\ \A i \in 1..Len(order[s]) :
       /\ Usable(s, order[s][i]) # {}
       /\ mem[s].op = "b" => tramp[order[s][i]].kind = "hookbefore_lr"
  /\ Len(order[s]) > 0 /\ Orig[s].op = "ins" =>
       /\ tramp[order[s][1]].kind \notin BlreProtos
       /\ tramp[order[s][1]].kind = "hookbefore_lr" => mem[s].op = "b"
       /\ tramp[order[s][1]].words.chain = IF mem[s].op = "b" THEN Addr(s + 4) ELSE BxLr

ReturnsFit == \A s \in Sites : SiteReturns(s)

\* What holds of the buffer and the prototypes even if hook_before relocates a B.
Laid == TypeOK /\ BufferSafe /\ PrototypesClean /\ ThumbNoJump

\* and the rest, if it does not
IInv == Laid /\ ChainIntact /\ ReturnsFit

\* What every installer guarantees of the words it gives a trampoline,
PlainWords(s, kind, w, op) ==
  /\ kind \in Kinds
  /\ w \in Words
  /\ w.target \in Hooks
  /\ op \in {"bl", "b"}
  /\ s \in Thumb => op = "bl"

\* and, if it does not relocate a B: the copy goes on to what the site did before,
\* and a call stays a call.
GoodWords(s, kind, w, op) ==
  /\ PlainWords(s, kind, w, op)
  /\ IF mem[s].op = "ins"
     THEN /\ Continuation(w).ins = mem[s]
          /\ Continuation(w).to \in {BxLr, Addr(s + 4)}
          /\ op = "b" => Continuation(w).to = Addr(s + 4)
     ELSE /\ Continuation(w) = JumpTo(Target(s))
          /\ op = mem[s].op
  /\ op = "b" => kind = "hookbefore_lr"
  /\ mem[s].op = "ins" =>
       /\ kind \notin BlreProtos
       /\ kind = "hookbefore_lr" => op = "b"
       /\ w.chain = IF op = "b" THEN Addr(s + 4) ELSE BxLr

\* and of the prototypes
GoodProto(p) ==
  /\ p \in [Kinds -> Words]
  /\ p["hookbefore"].chain = BxLr
  /\ p["hookbefore"].orgins = LdrPc
  /\ p["t_hookbefore"].chain = BxLr
  /\ \A k \in Kinds \ {"hookbefore", "t_hookbefore"} : p[k].orgins = Nop

\* The words the trampolines are filled with are words of code.
LEMMA WordsLemma ==
  /\ Zero \in CodeWord /\ Nop \in CodeWord /\ BxLr \in CodeWord /\ LdrPc \in CodeWord
  /\ \A a \in Int : Addr(a) \in CodeWord
  /\ Instr \subseteq CodeWord
  /\ \A i \in Instr : i # LdrPc
  /\ Nop # LdrPc
BY DEF Zero, Nop, BxLr, LdrPc, Addr, Word, CodeWord, Instr

\* The extract functions decode an offset to an address.
LEMMA TargetLemma ==
  ASSUME NEW s \in Sites, NEW off \in Int
  PROVE  extract_target(s, off) \in Int
BY SMT, LayoutAssumption
DEF extract_target, extract_arm, extract_thumb, sext, ArmBlock, ThumbBlock

\* A site whose word, list of trampolines and trampolines stay stays intact.
LEMMA SiteStable ==
  ASSUME TypeOK, NEW r \in Sites, SiteIntact(r),
         mem'[r] = mem[r], order'[r] = order[r],
         \A i \in 1..Len(order[r]) : tramp'[order[r][i]] = tramp[order[r][i]]
  PROVE  SiteIntact(r)'
<1> DEFINE o == order[r]
           n == Len(order[r])
<1>1. n \in Nat
  BY DEF TypeOK
<1>2. CASE n = 0
  BY <1>2 DEF SiteIntact
<1>3. CASE n > 0
  <2>1. RunsOriginal(r, tramp[order[r][1]].words)'
    BY <1>1, <1>3 DEF SiteIntact, RunsOriginal
  <2>2. \A i \in 2..n : Continuation(tramp'[o[i]].words)
                          = JumpTo(trampoline_find_mapping(r, o[i - 1]))
    BY <1>1, <1>3 DEF SiteIntact
  <2>3. mem'[r].op \in {"bl", "b"} /\ Target(r)' = trampoline_find_mapping(r, o[n])
    BY <1>1, <1>3 DEF SiteIntact, Target
  <2> QED
    BY <2>1, <2>2, <2>3, <1>1, <1>3 DEF SiteIntact
<1> QED
  BY <1>1, <1>2, <1>3

\* and goes on returning to the same place
LEMMA ReturnsStable ==
  ASSUME TypeOK, NEW r \in Sites, SiteReturns(r),
         mem'[r] = mem[r], order'[r] = order[r],
         \A i \in 1..Len(order[r]) : tramp'[order[r][i]] = tramp[order[r][i]]
  PROVE  SiteReturns(r)'
<1>1. Len(order[r]) \in Nat
  BY DEF TypeOK
<1> QED
  BY <1>1 DEF SiteReturns

\* trampoline_next is inside the buffer and already aligned.
LEMMA NextLemma ==
  ASSUME Laid
  PROVE  /\ next \in BufStart..BufEnd /\ next % 4 = 0
         /\ BufStart \in Nat \ {0} /\ BufSize \in Nat \ {0}
         /\ BufEnd \in Int /\ next \in Nat \ {0}
         /\ align(next, 4) = next
<1>1. /\ next \in BufStart..BufEnd /\ next % 4 = 0
      /\ BufStart \in Nat \ {0} /\ BufSize \in Nat \ {0}
      /\ BufEnd \in Int /\ next \in Nat \ {0}
  BY LayoutAssumption DEF Laid, IInv, BufferSafe, BufEnd
<1> QED
  BY <1>1, AlignLemma

\* trampoline_copy adds one trampoline and leaves the others alone.
LEMMA CopyLemma ==
  ASSUME Laid, NEW kind \in Kinds, NEW w \in Words, trampoline_copy(kind, w)
  PROVE  /\ align(next, 4) \notin DOMAIN tramp
         /\ DOMAIN tramp' = DOMAIN tramp \cup {align(next, 4)}
         /\ tramp' \in [DOMAIN tramp' -> [kind : Kinds, words : Words]]
         /\ tramp'[align(next, 4)].kind = kind
         /\ tramp'[align(next, 4)].words = w
         /\ \A a \in DOMAIN tramp : tramp'[a] = tramp[a]
         /\ BufferSafe'
         /\ next' \in Int
         /\ DOMAIN tramp' \subseteq Int
<1> DEFINE base == align(next, 4)
<1>1. /\ next \in BufStart..BufEnd /\ next % 4 = 0
      /\ BufStart \in Nat \ {0} /\ BufSize \in Nat \ {0}
      /\ BufEnd \in Int /\ next \in Nat \ {0}
  BY NextLemma
<1>2. base = next
  BY NextLemma
<1>3. kind \in Kinds /\ Size[kind] \in {28, 32, 36, 44}
  BY KindsLemma
<1>4. \A a \in DOMAIN tramp : /\ a \in Int
                              /\ tramp[a].kind \in Kinds
                              /\ Size[tramp[a].kind] \in {28, 32, 36, 44}
                              /\ BufStart <= a
                              /\ a + Size[tramp[a].kind] <= next
                              /\ a % 4 = 0
                              /\ \A b \in DOMAIN tramp :
                                   a < b => a + Size[tramp[a].kind] <= b
  BY KindsLemma DEF Laid, IInv, TypeOK, BufferSafe
<1>5. base \notin DOMAIN tramp
  BY <1>4, <1>1, <1>2
<1>6. tramp' = [a \in DOMAIN tramp \cup {base} |->
                 IF a = base THEN [kind |-> kind, words |-> w] ELSE tramp[a]]
  BY DEF trampoline_copy
<1>7. DOMAIN tramp' = DOMAIN tramp \cup {base}
  BY <1>6
<1>8. tramp'[base] = [kind |-> kind, words |-> w]
  BY <1>6
<1>9. \A a \in DOMAIN tramp : tramp'[a] = tramp[a]
  BY <1>6, <1>5
<1>10. tramp' \in [DOMAIN tramp' -> [kind : Kinds, words : Words]]
  BY <1>6, <1>7, <1>8, <1>9, <1>3 DEF Laid, IInv, TypeOK
<1>11. next' = next + Size[kind] /\ next + Size[kind] < BufEnd
  BY <1>2 DEF trampoline_copy
<1>12. next' \in BufStart..BufEnd /\ next' % 4 = 0 /\ next' \in Int
  BY <1>11, <1>1, <1>3
<1>13. \A a \in DOMAIN tramp' : /\ a \in Int
                                /\ a % 4 = 0
                                /\ BufStart <= a
                                /\ a + Size[tramp'[a].kind] <= next'
  BY <1>4, <1>7, <1>8, <1>9, <1>11, <1>1, <1>2, <1>3
<1>14. \A a, b \in DOMAIN tramp' : a < b => a + Size[tramp'[a].kind] <= b
  BY <1>4, <1>7, <1>8, <1>9, <1>1, <1>2, <1>3
<1>15. BufferSafe'
  BY <1>12, <1>13, <1>14 DEF BufferSafe, BufEnd
<1> QED
  BY <1>5, <1>7, <1>8, <1>9, <1>10, <1>12, <1>13, <1>15

\* trampoline_install lays the trampoline out properly.
LEMMA InstallLaid ==
  ASSUME Laid, NEW s \in Sites, NEW kind, NEW w, NEW op,
         PlainWords(s, kind, w, op), GoodProto(proto'),
         trampoline_install(s, kind, w, op), alive
  PROVE  Laid'
<1> DEFINE base == align(next, 4)
<1>1. base = next /\ next \in BufStart..BufEnd /\ next % 4 = 0
  BY NextLemma
<1>2. PrototypesClean' /\ proto' \in [Kinds -> Words]
  BY DEF GoodProto, PrototypesClean
<1>3. CASE NoSpace(kind)
  <2>1. UNCHANGED <<mem, tramp, order, next>> /\ alive' = FALSE
    BY <1>3, <1>1 DEF NoSpace
  <2> QED
    BY <2>1, <1>2 DEF Laid, TypeOK, BufferSafe, ThumbNoJump
<1>4. ASSUME trampoline_copy(kind, w)
      PROVE  /\ base \in DOMAIN tramp'
             /\ tramp' \in [DOMAIN tramp' -> [kind : Kinds, words : Words]]
             /\ BufferSafe' /\ next' \in Int /\ DOMAIN tramp' \subseteq Int
             /\ \A r \in Sites : order[r] \in Seq(DOMAIN tramp')
  <2>1. DOMAIN tramp \subseteq DOMAIN tramp'
    BY <1>4, CopyLemma DEF PlainWords
  <2> QED
    BY <2>1, <1>4, CopyLemma DEF PlainWords, Laid, TypeOK
<1>5. CASE NoMapping(s, kind, w)
  <2>1. trampoline_copy(kind, w) /\ UNCHANGED <<mem, order>> /\ alive' = FALSE
    BY <1>5 DEF NoMapping
  <2> QED
    BY <2>1, <1>2, <1>4 DEF Laid, TypeOK, ThumbNoJump
<1>6. CASE Branch(s, kind, w, op)
  <2> DEFINE to == trampoline_find_mapping(s, base)
  <2>1. /\ trampoline_copy(kind, w)
        /\ Usable(s, base) # {}
        /\ mem' = [mem EXCEPT ![s] = Word(op, encode(s, to))]
        /\ order' = [order EXCEPT ![s] = Append(@, base)]
        /\ alive' = alive
    BY <1>6 DEF Branch
  <2>2. encode(s, to) \in Int
    BY <2>1, <1>1, BranchLemma
  <2> HIDE DEF to, base
  <2>3. /\ mem' \in [Sites -> Instr]
        /\ \A r \in Sites : mem'[r] = mem[r] \/ (r = s /\ mem'[r].op = op)
    BY <2>1, <2>2 DEF Word, Laid, TypeOK, PlainWords, Instr
  <2>4. Append(order[s], base) \in Seq(DOMAIN tramp')
    BY <2>1, <1>4
  <2>5. order' \in [Sites -> Seq(DOMAIN tramp')]
    BY <2>1, <2>4, <1>4 DEF Laid, TypeOK
  <2>6. ThumbNoJump'
    BY <2>3, LayoutAssumption DEF Laid, ThumbNoJump, PlainWords
  <2> QED
    BY <2>1, <2>3, <2>5, <2>6, <1>2, <1>4 DEF Laid, TypeOK
<1> QED
  BY <1>3, <1>5, <1>6 DEF trampoline_install

\* It also keeps the chains whole when its caller gives it good words.
LEMMA InstallLemma ==
  ASSUME IInv, NEW s \in Sites, NEW kind, NEW w, NEW op,
         GoodWords(s, kind, w, op), GoodProto(proto'),
         trampoline_install(s, kind, w, op), alive
  PROVE  IInv'
<1> DEFINE base == align(next, 4)
<1> USE DEF GoodWords, PlainWords
<1>1. /\ next \in BufStart..BufEnd /\ next % 4 = 0
      /\ BufStart \in Nat \ {0} /\ BufSize \in Nat \ {0}
      /\ BufEnd \in Int /\ next \in Nat \ {0}
  BY NextLemma DEF IInv
<1>2. base = next
  BY NextLemma DEF IInv
<1>4. Laid'
  BY InstallLaid DEF IInv
<1>5. CASE NoSpace(kind)
  <2>1. UNCHANGED <<mem, tramp, order, next>> /\ alive' = FALSE
    BY <1>5, <1>2 DEF NoSpace
  <2>2. ChainIntact'
    BY <2>1 DEF IInv, ChainIntact, SiteIntact, RunsOriginal, Target
  <2>3. ReturnsFit'
    BY <2>1, ReturnsStable DEF Laid, IInv, ReturnsFit
  <2> QED
    BY <2>2, <2>3, <1>4 DEF IInv
<1>6. ASSUME trampoline_copy(kind, w)
      PROVE  /\ base \notin DOMAIN tramp
             /\ tramp'[base].kind = kind
             /\ tramp'[base].words = w
             /\ \A a \in DOMAIN tramp : tramp'[a] = tramp[a]
             /\ DOMAIN tramp' = DOMAIN tramp \cup {base}
  BY <1>6, CopyLemma DEF IInv
<1>7. CASE NoMapping(s, kind, w)
  <2>1. trampoline_copy(kind, w) /\ UNCHANGED <<mem, order>> /\ alive' = FALSE
    BY <1>7 DEF NoMapping
  <2>4. \A r \in Sites : \A i \in 1..Len(order[r]) :
          tramp'[order[r][i]] = tramp[order[r][i]]
    BY <2>1, <1>6 DEF Laid, IInv, TypeOK
  <2>5. ChainIntact'
    BY <2>1, <2>4, SiteStable DEF Laid, IInv, ChainIntact
  <2>7. ReturnsFit'
    BY <2>1, <2>4, ReturnsStable DEF Laid, IInv, ReturnsFit
  <2> QED
    BY <2>5, <2>7, <1>4 DEF IInv
<1>8. CASE Branch(s, kind, w, op)
  <2> DEFINE to == trampoline_find_mapping(s, base)
  <2>1. /\ trampoline_copy(kind, w)
        /\ Usable(s, base) # {}
        /\ mem' = [mem EXCEPT ![s] = Word(op, encode(s, to))]
        /\ order' = [order EXCEPT ![s] = Append(@, base)]
        /\ alive' = alive
    BY <1>8 DEF Branch
  <2>2. encode(s, to) \in Int /\ extract_target(s, encode(s, to)) = to
    BY <2>1, <1>1, <1>2, BranchLemma
  <2> HIDE DEF to, base
  <2>3. /\ mem'[s] = [op |-> op, arg |-> encode(s, to)]
        /\ \A r \in Sites \ {s} : mem'[r] = mem[r]
        /\ mem' \in [Sites -> Instr]
    BY <2>1, <2>2 DEF Word, Laid, IInv, TypeOK, GoodWords, Instr
  <2>4. /\ order'[s] = Append(order[s], base)
        /\ \A r \in Sites \ {s} : order'[r] = order[r]
        /\ order' \in [Sites -> Seq(DOMAIN tramp')]
    <3>1. \A r \in Sites : order[r] \in Seq(DOMAIN tramp')
      BY <2>1, <1>6 DEF Laid, IInv, TypeOK
    <3>2. Append(order[s], base) \in Seq(DOMAIN tramp')
      BY <3>1, <2>1, <1>6
    <3> QED
      BY <2>1, <3>1, <3>2 DEF Laid, IInv, TypeOK
  <2>7. \A r \in Sites : \A i \in 1..Len(order[r]) :
          tramp'[order[r][i]] = tramp[order[r][i]]
    BY <2>1, <1>6 DEF Laid, IInv, TypeOK
  <2>8. ASSUME NEW r \in Sites \ {s} PROVE SiteIntact(r)'
    BY <2>3, <2>4, <2>7, SiteStable DEF Laid, IInv, ChainIntact
  <2>9. SiteIntact(s)'
    <3> DEFINE o == order[s]
               n == Len(order[s])
    <3>1. /\ o \in Seq(DOMAIN tramp) /\ n \in Nat
          /\ Len(order'[s]) = n + 1
          /\ order'[s][n + 1] = base
          /\ \A i \in 1..n : order'[s][i] = o[i] /\ o[i] \in DOMAIN tramp
      BY <2>4 DEF Laid, IInv, TypeOK
    <3>2. mem'[s].op = op /\ Target(s)' = to
      BY <2>2, <2>3 DEF Target
    <3>3. tramp'[base].words = w
      BY <2>1, <1>6
    <3>4. CASE n = 0
      <4>1. mem[s] = Orig[s]
        BY <3>4 DEF Laid, IInv, ChainIntact, SiteIntact
      <4>2. RunsOriginal(s, w)'
        BY <4>1, <3>2 DEF RunsOriginal, GoodWords, Target, JumpTo, Continuation,
                          IInv, TypeOK, Instr
      <4> QED
        BY <4>2, <3>1, <3>2, <3>3, <3>4 DEF to, GoodWords, SiteIntact
    <3>5. CASE n > 0
      <4>2. /\ mem[s].op \in {"bl", "b"}
            /\ Target(s) = trampoline_find_mapping(s, o[n])
            /\ \A i \in 2..n : Continuation(tramp[o[i]].words)
                                 = JumpTo(trampoline_find_mapping(s, o[i - 1]))
            /\ RunsOriginal(s, tramp[o[1]].words)
        BY <3>5 DEF Laid, IInv, ChainIntact, SiteIntact
      <4>3. Continuation(w) = JumpTo(trampoline_find_mapping(s, o[n])) /\ op = mem[s].op
        BY <4>2 DEF GoodWords
      <4>4. RunsOriginal(s, tramp[o[1]].words)'
        BY <4>2, <4>3, <3>1, <3>2, <3>5, <2>4, <2>7 DEF RunsOriginal
      <4>5. \A i \in 2..(n + 1) : Continuation(tramp'[order'[s][i]].words)
                 = JumpTo(trampoline_find_mapping(s, order'[s][i - 1]))
        <5>1. ASSUME NEW i \in 2..n
              PROVE Continuation(tramp'[order'[s][i]].words)
                      = JumpTo(trampoline_find_mapping(s, order'[s][i - 1]))
          BY <4>2, <3>1, <2>7
        <5>2. Continuation(tramp'[order'[s][n + 1]].words)
                = JumpTo(trampoline_find_mapping(s, order'[s][n]))
          BY <4>3, <3>1, <3>3, <3>5
        <5>3. \A i \in 2..(n + 1) : i \in 2..n \/ (i = n + 1 /\ i - 1 = n)
          BY <3>1
        <5> QED
          BY <5>1, <5>2, <5>3
      <4>6. RunsOriginal(s, tramp[order[s][1]].words)'
        BY <4>4, <3>1, <3>5 DEF RunsOriginal
      <4> QED
        BY <4>5, <4>6, <3>1, <3>2 DEF to, GoodWords, SiteIntact
    <3> QED
      BY <3>1, <3>4, <3>5
  <2>10. ChainIntact'
    BY <2>8, <2>9 DEF ChainIntact
  <2>11. SiteReturns(s)'
    <3> DEFINE n == Len(order[s])
    <3>1. /\ n \in Nat /\ Len(order'[s]) = n + 1 /\ order'[s][n + 1] = base
          /\ \A i \in 1..n : order'[s][i] = order[s][i]
      BY <2>4 DEF Laid, IInv, TypeOK
    <3>2. /\ mem'[s].op = op /\ op \in {"bl", "b"}
          /\ tramp'[base].words = w /\ tramp'[base].kind = kind
          /\ Usable(s, base) # {}
      BY <2>1, <2>3, <1>6 DEF GoodWords
    <3>3. CASE n = 0
      <4>1. mem[s] = Orig[s]
        BY <3>3 DEF Laid, IInv, ChainIntact, SiteIntact
      <4>2. \A i \in 1..(n + 1) : i = n + 1
        BY <3>3
      <4> QED
        BY <4>1, <4>2, <3>1, <3>2, <3>3 DEF SiteReturns, GoodWords
    <3>4. CASE n > 0
      <4>1. op = mem[s].op /\ SiteReturns(s)
        BY <3>4 DEF Laid, IInv, ChainIntact, SiteIntact, ReturnsFit, GoodWords
      <4>2. \A i \in 1..(n + 1) : i \in 1..n \/ i = n + 1
        BY <3>1
      <4>3. \A i \in 1..(n + 1) :
              /\ Usable(s, order'[s][i]) # {}
              /\ mem'[s].op = "b" => tramp'[order'[s][i]].kind = "hookbefore_lr"
        <5>1. ASSUME NEW i \in 1..n
              PROVE  /\ Usable(s, order'[s][i]) # {}
                     /\ mem'[s].op = "b" => tramp'[order'[s][i]].kind = "hookbefore_lr"
          BY <4>1, <3>1, <3>2, <2>7 DEF SiteReturns
        <5>2. /\ Usable(s, order'[s][n + 1]) # {}
              /\ mem'[s].op = "b" => tramp'[order'[s][n + 1]].kind = "hookbefore_lr"
          BY <3>1, <3>2 DEF GoodWords
        <5> QED
          BY <4>2, <5>1, <5>2
      <4>4. 1 \in 1..n /\ order'[s][1] = order[s][1]
        BY <3>1, <3>4
      <4>5. tramp'[order'[s][1]] = tramp[order[s][1]]
        BY <4>4, <2>7
      <4> QED
        BY <4>1, <4>3, <4>5, <3>1, <3>2, <3>4 DEF SiteReturns
    <3> QED
      BY <3>1, <3>3, <3>4
  <2>12. ReturnsFit'
    BY <2>3, <2>4, <2>7, <2>11, ReturnsStable DEF Laid, IInv, ReturnsFit
  <2> QED
    BY <2>10, <2>12, <1>4 DEF IInv
<1> QED
  BY <1>5, <1>7, <1>8 DEF trampoline_install

-----------------------------------------------------------------------------
(* The installers *)

\* a trampoline for hook h is installed at s
PlainInstall(s, h) ==
  /\ alive
  /\ GoodProto(proto')
  /\ \E kind \in Kinds, w \in Words, op \in {"bl", "b"} :
       /\ PlainWords(s, kind, w, op)
       /\ w.target = h
       /\ trampoline_install(s, kind, w, op)

\* with good words
GoodInstall(s, h) ==
  /\ alive
  /\ GoodProto(proto')
  /\ \E kind \in Kinds, w \in Words, op \in {"bl", "b"} :
       /\ GoodWords(s, kind, w, op)
       /\ w.target = h
       /\ trampoline_install(s, kind, w, op)

\* What Laid says about a site and a prototype before an installation.
LEMMA SiteFacts ==
  ASSUME Laid, NEW s \in Sites
  PROVE  /\ mem[s] \in Instr /\ mem[s] # LdrPc /\ mem[s] \in CodeWord
         /\ Target(s) \in Int /\ s + 4 \in Int
         /\ Addr(Target(s)) \in CodeWord /\ Addr(s + 4) \in CodeWord
         /\ GoodProto(proto)
<1>1. mem[s] \in Instr /\ mem[s].arg \in Int
  BY DEF Laid, IInv, TypeOK, Instr
<1>2. Target(s) \in Int
  BY <1>1, TargetLemma DEF Target
<1>3. s + 4 \in Int
  BY LayoutAssumption
<1>4. GoodProto(proto)
  BY DEF Laid, IInv, TypeOK, PrototypesClean, GoodProto
<1> QED
  BY <1>1, <1>2, <1>3, <1>4, WordsLemma

\* The four blreplace functions make a proper installation.
LEMMA BlreplaceStep ==
  ASSUME Laid, NEW s \in Sites, NEW h \in Hooks, NEW kind \in BlreProtos,
         blreplace(s, h, kind)
  PROVE  GoodInstall(s, h)
<1> DEFINE w == [proto[kind] EXCEPT !.target = h, !.chain = Addr(Target(s))]
<1>1. kind \in Kinds \ {"hookbefore", "t_hookbefore"}
  BY KindsLemma DEF BlreProtos
<1>2. proto[kind] \in Words /\ proto[kind].orgins = Nop
  BY <1>1, SiteFacts DEF GoodProto
<1>3. /\ w \in Words /\ w.target = h
      /\ w.chain = Addr(Target(s)) /\ w.orgins = Nop
  BY <1>2, SiteFacts DEF Words
<1>4. alive /\ mem[s].op = "bl" /\ proto' = [proto EXCEPT ![kind] = w]
      /\ trampoline_install(s, kind, w, "bl")
  BY DEF blreplace, IsCall
<1> HIDE DEF w
<1>5. GoodProto(proto')
  BY <1>1, <1>3, <1>4, SiteFacts, KindsLemma DEF GoodProto
<1>6. GoodWords(s, kind, w, "bl")
  BY <1>1, <1>3, <1>4, WordsLemma DEF GoodWords, PlainWords, Continuation, JumpTo, BlreProtos
<1> QED
  BY <1>3, <1>4, <1>5, <1>6 DEF GoodInstall, GoodWords, PlainWords

\* trampoline_hook_before makes a proper installation unless it relocates a B.
LEMMA HookBeforeStep ==
  ASSUME Laid, NEW s \in Sites, NEW h \in Hooks, trampoline_hook_before(s, h)
  PROVE  PlainInstall(s, h) /\ (~OverB => GoodInstall(s, h))
<1> DEFINE p == [proto["hookbefore"] EXCEPT !.target = h]
           w == IF IsCall(s) THEN [p EXCEPT !.chain = Addr(Target(s))]
                             ELSE [p EXCEPT !.orgins = mem[s]]
<1>1. "hookbefore" \in Kinds
  BY KindsLemma
<1>2. /\ proto["hookbefore"] \in Words
      /\ proto["hookbefore"].chain = BxLr /\ proto["hookbefore"].orgins = LdrPc
  BY <1>1, SiteFacts DEF GoodProto
<1>3. p \in Words /\ p.target = h /\ p.chain = BxLr /\ p.orgins = LdrPc
  BY <1>2 DEF Words
<1>4. /\ alive /\ s \notin Thumb /\ (~OverB => mem[s].op # "b")
      /\ proto' = [proto EXCEPT !["hookbefore"] = p]
      /\ trampoline_install(s, "hookbefore", w, "bl")
  BY DEF trampoline_hook_before, MayRelocate
<1>5. GoodProto(proto')
  BY <1>1, <1>3, <1>4, SiteFacts, KindsLemma DEF GoodProto
<1>6. /\ PlainWords(s, "hookbefore", w, "bl") /\ w.target = h
      /\ ~OverB => GoodWords(s, "hookbefore", w, "bl")
  <2> USE DEF PlainWords
  <2> HIDE DEF p
  <2>1. CASE IsCall(s)
    <3>1. w \in Words /\ w.target = h /\ w.chain = Addr(Target(s)) /\ w.orgins = LdrPc
      BY <2>1, <1>3, SiteFacts DEF Words
    <3> HIDE DEF w
    <3> QED
      BY <2>1, <3>1, <1>1, WordsLemma DEF GoodWords, Continuation, JumpTo, IsCall, BlreProtos
  <2>2. CASE ~IsCall(s)
    <3>1. w \in Words /\ w.target = h /\ w.chain = BxLr /\ w.orgins = mem[s]
      BY <2>2, <1>3, SiteFacts DEF Words
    <3> HIDE DEF w
    <3>2. (~OverB => mem[s].op = "ins") /\ mem[s] # LdrPc
      BY <2>2, <1>4, SiteFacts DEF IsCall, Instr
    <3> QED
      BY <3>1, <3>2, <1>1, <1>4 DEF GoodWords, PlainWords, Continuation, BlreProtos
  <2> QED
    BY <2>1, <2>2
<1> HIDE DEF w
<1> QED
  BY <1>1, <1>4, <1>5, <1>6 DEF GoodInstall, PlainInstall, PlainWords

\* trampoline_hook_before_v2 makes a proper installation.
LEMMA HookBeforeV2Step ==
  ASSUME Laid, NEW s \in Sites, NEW h \in Hooks, trampoline_hook_before_v2(s, h)
  PROVE  GoodInstall(s, h)
<1> DEFINE isB == mem[s].op \in {"bl", "b"}
           ret == IF isB THEN Target(s) ELSE s + 4
           p == [proto["hookbefore_lr"] EXCEPT !.target = h, !.chain = Addr(ret)]
           w == IF isB THEN p ELSE [p EXCEPT !.orgins = mem[s]]
           op == IF IsCall(s) THEN "bl" ELSE "b"
<1>1. "hookbefore_lr" \in Kinds \ {"hookbefore", "t_hookbefore"}
  BY KindsLemma
<1>2. proto["hookbefore_lr"] \in Words /\ proto["hookbefore_lr"].orgins = Nop
  BY <1>1, SiteFacts DEF GoodProto
<1>3. p \in Words /\ p.target = h /\ p.chain = Addr(ret) /\ p.orgins = Nop
  BY <1>2, SiteFacts DEF Words
<1>4. /\ alive /\ s \notin Thumb
      /\ proto' = [proto EXCEPT !["hookbefore_lr"] = p]
      /\ trampoline_install(s, "hookbefore_lr", w, op)
  BY DEF trampoline_hook_before_v2
<1>5. GoodProto(proto')
  <2> HIDE DEF p
  <2> QED
    BY <1>1, <1>3, <1>4, SiteFacts, KindsLemma DEF GoodProto
<1>6. GoodWords(s, "hookbefore_lr", w, op) /\ w.target = h
  <2> HIDE DEF p
  <2>1. CASE isB
    <3>1. w = p /\ ret = Target(s) /\ op = mem[s].op /\ mem[s].op # "ins"
      BY <2>1 DEF IsCall
    <3> HIDE DEF w, op, ret
    <3> QED
      BY <2>1, <3>1, <1>1, <1>3, <1>4, WordsLemma DEF GoodWords, PlainWords, Continuation, JumpTo, BlreProtos
  <2>2. CASE ~isB
    <3>1. mem[s].op = "ins" /\ mem[s] # LdrPc /\ op = "b" /\ ret = s + 4
      BY <2>2, SiteFacts DEF Instr, IsCall
    <3>2. w \in Words /\ w.target = h /\ w.chain = Addr(s + 4) /\ w.orgins = mem[s]
      BY <2>2, <3>1, <1>3, SiteFacts DEF Words
    <3> HIDE DEF w, op, ret
    <3> QED
      BY <3>1, <3>2, <1>1, <1>4 DEF GoodWords, PlainWords, Continuation, BlreProtos
  <2> QED
    BY <2>1, <2>2
<1> HIDE DEF w, op
<1> QED
  BY <1>4, <1>5, <1>6 DEF GoodInstall, GoodWords, PlainWords

\* trampoline_t_hook_before makes a proper installation.
LEMMA ThumbHookBeforeStep ==
  ASSUME Laid, NEW s \in Sites, NEW h \in Hooks, trampoline_t_hook_before(s, h)
  PROVE  GoodInstall(s, h)
<1>1. alive /\ s \in Thumb
  BY DEF trampoline_t_hook_before
<1>2. CASE trampoline_t_hook_before_bl(s, h)
  <2> DEFINE k == "t_hookbefore_bl"
             w == [proto[k] EXCEPT !.target = h, !.chain = Addr(Target(s))]
  <2>1. k \in Kinds \ {"hookbefore", "t_hookbefore"}
    BY KindsLemma
  <2>2. proto[k] \in Words /\ proto[k].orgins = Nop
    BY <2>1, SiteFacts DEF GoodProto
  <2>3. w \in Words /\ w.target = h /\ w.chain = Addr(Target(s)) /\ w.orgins = Nop
    BY <2>2, SiteFacts DEF Words
  <2>4. /\ mem[s].op = "bl" /\ proto' = [proto EXCEPT ![k] = w]
        /\ trampoline_install(s, k, w, "bl")
    BY <1>2 DEF trampoline_t_hook_before_bl, IsCall
  <2> HIDE DEF w
  <2>5. GoodProto(proto')
    BY <2>1, <2>3, <2>4, SiteFacts, KindsLemma DEF GoodProto
  <2>6. GoodWords(s, k, w, "bl")
    BY <2>1, <2>3, <2>4, WordsLemma DEF GoodWords, PlainWords, Continuation, JumpTo, BlreProtos
  <2> QED
    BY <1>1, <2>3, <2>4, <2>5, <2>6 DEF GoodInstall, GoodWords, PlainWords
<1>3. CASE trampoline_t_hook_before_ins(s, h)
  <2> DEFINE k == "t_hookbefore"
             w == [proto[k] EXCEPT !.target = h, !.orgins = mem[s]]
  <2>1. k \in Kinds
    BY KindsLemma
  <2>2. proto[k] \in Words /\ proto[k].chain = BxLr
    BY <2>1, SiteFacts DEF GoodProto
  <2>3. w \in Words /\ w.target = h /\ w.chain = BxLr /\ w.orgins = mem[s]
    BY <2>2, SiteFacts DEF Words
  <2>4. /\ mem[s].op # "bl" /\ proto' = [proto EXCEPT ![k] = w]
        /\ trampoline_install(s, k, w, "bl")
    BY <1>3 DEF trampoline_t_hook_before_ins, IsCall
  <2>5. mem[s].op = "ins" /\ mem[s] # LdrPc
    BY <1>1, <2>4, SiteFacts DEF Instr, Laid, IInv, ThumbNoJump
  <2> HIDE DEF w
  <2>6. GoodProto(proto')
    BY <2>1, <2>3, <2>4, SiteFacts, KindsLemma DEF GoodProto
  <2>7. GoodWords(s, k, w, "bl")
    BY <2>1, <2>3, <2>5 DEF GoodWords, PlainWords, Continuation, BlreProtos
  <2> QED
    BY <1>1, <2>3, <2>4, <2>6, <2>7 DEF GoodInstall, GoodWords, PlainWords
<1> QED
  BY <1>2, <1>3 DEF trampoline_t_hook_before

-----------------------------------------------------------------------------
(* The theorems *)

\* The initial states satisfy the inductive invariant.
LEMMA InitInv == Init => IInv
<1> SUFFICES ASSUME Init PROVE IInv
  OBVIOUS
<1>1. InitProto \in [Kinds -> Words]
  BY WordsLemma DEF InitProto, ProtoWords, Words
<1>2. GoodProto(InitProto)
  BY <1>1, KindsLemma DEF GoodProto, InitProto, ProtoWords
<1>3. DOMAIN tramp = {}
  BY DEF Init
<1>4. TypeOK
  BY <1>1, <1>3, LayoutAssumption DEF Init, TypeOK
<1>5. BufferSafe
  BY <1>3, LayoutAssumption DEF Init, BufferSafe, BufEnd
<1>6. PrototypesClean
  BY <1>2 DEF Init, PrototypesClean, GoodProto
<1>7. ThumbNoJump
  BY LayoutAssumption DEF Init, ThumbNoJump
<1>8. ChainIntact
  BY DEF Init, ChainIntact, SiteIntact
<1>9. ReturnsFit
  <2>1. SUFFICES ASSUME NEW s \in Sites PROVE SiteReturns(s)
    BY DEF ReturnsFit
  <2>2. Len(order[s]) = 0
    BY DEF Init
  <2> QED
    BY <2>2 DEF SiteReturns
<1> QED
  BY <1>4, <1>5, <1>6, <1>7, <1>8, <1>9 DEF Laid, IInv

\* A good installation is an installation.
LEMMA GoodIsPlain ==
  ASSUME NEW s, NEW h, GoodInstall(s, h)
  PROVE  PlainInstall(s, h)
BY DEF GoodInstall, PlainInstall, GoodWords

\* Every installer makes an installation, and a good one unless OverB.
LEMMA InstallGood ==
  ASSUME Laid, NEW s \in Sites, NEW h \in Hooks, Install(s, h)
  PROVE  PlainInstall(s, h) /\ (~OverB => GoodInstall(s, h))
<1>1. CASE trampoline_blreplace(s, h)
  BY <1>1, BlreplaceStep, GoodIsPlain DEF trampoline_blreplace, BlreProtos
<1>2. CASE trampoline_blreplace_with_regs(s, h)
  BY <1>2, BlreplaceStep, GoodIsPlain DEF trampoline_blreplace_with_regs, BlreProtos
<1>3. CASE trampoline_hook_before(s, h)
  BY <1>3, HookBeforeStep
<1>4. CASE trampoline_hook_before_v2(s, h)
  BY <1>4, HookBeforeV2Step, GoodIsPlain
<1>5. CASE trampoline_t_blreplace(s, h)
  BY <1>5, BlreplaceStep, GoodIsPlain DEF trampoline_t_blreplace, BlreProtos
<1>6. CASE trampoline_t_blreplace_with_regs(s, h)
  BY <1>6, BlreplaceStep, GoodIsPlain DEF trampoline_t_blreplace_with_regs, BlreProtos
<1>7. CASE trampoline_t_hook_before(s, h)
  BY <1>7, ThumbHookBeforeStep, GoodIsPlain
<1> QED
  BY <1>1, <1>2, <1>3, <1>4, <1>5, <1>6, <1>7 DEF Install

\* Every step keeps the layout,
LEMMA NextLaid == Laid /\ [Next]_vars => Laid'
<1> SUFFICES ASSUME Laid, [Next]_vars PROVE Laid'
  OBVIOUS
<1>1. CASE Next
  <2>1. PICK s \in Sites, h \in Hooks : Install(s, h)
    BY <1>1 DEF Next
  <2>2. PlainInstall(s, h)
    BY <2>1, InstallGood
  <2> QED
    BY <2>2, InstallLaid DEF PlainInstall
<1>2. CASE UNCHANGED vars
  BY <1>2 DEF vars, Laid, TypeOK, BufferSafe, PrototypesClean, ThumbNoJump
<1> QED
  BY <1>1, <1>2

\* and, unless hook_before relocates a B, the chains.
LEMMA NextInv ==
  ASSUME ~OverB, IInv, [Next]_vars
  PROVE  IInv'
<1>1. CASE Next
  <2>1. PICK s \in Sites, h \in Hooks : Install(s, h)
    BY <1>1 DEF Next
  <2>2. GoodInstall(s, h)
    BY <2>1, InstallGood DEF IInv
  <2> QED
    BY <2>2, InstallLemma DEF GoodInstall
<1>2. CASE UNCHANGED vars
  <2>1. UNCHANGED <<mem, next, tramp, proto, alive, order>>
    BY <1>2 DEF vars
  <2>2. Laid'
    BY <1>2, NextLaid DEF IInv
  <2>3. ChainIntact' /\ ReturnsFit'
    BY <2>1, SiteStable, ReturnsStable DEF Laid, IInv, ChainIntact, ReturnsFit
  <2> QED
    BY <2>2, <2>3 DEF IInv
<1> QED
  BY <1>1, <1>2

\* Every reachable state has the types of TypeOK.
THEOREM TypeCorrect == Spec => []TypeOK
<1>1. Init => Laid
  BY InitInv DEF IInv
<1>2. Laid => TypeOK
  BY DEF Laid
<1> QED
  BY <1>1, <1>2, NextLaid, PTL DEF Spec

\* No installation, in any number and order, writes outside the trampoline
\* buffer or over another trampoline.
THEOREM BufferSafety == Spec => []BufferSafe
<1>1. Init => Laid
  BY InitInv DEF IInv
<1>2. Laid => BufferSafe
  BY DEF Laid
<1> QED
  BY <1>1, <1>2, NextLaid, PTL DEF Spec

\* No installation leaves data of its site in a prototype that a later
\* installation at another site would inherit.
THEOREM PrototypeSafety == Spec => []PrototypesClean
<1>1. Init => Laid
  BY InitInv DEF IInv
<1>2. Laid => PrototypesClean
  BY DEF Laid
<1> QED
  BY <1>1, <1>2, NextLaid, PTL DEF Spec

\* As long as trampoline_hook_before is not used on a B that an earlier
\* trampoline_hook_before_v2 left, an address can be hooked any number of times, by
\* any of the installers in any order: its chain of trampolines is whole and ends
\* in the original code. (With that one order it is not: MCHookOverB.cfg.)
THEOREM ChainSafety ==
  ASSUME ~OverB
  PROVE  Spec => []ChainIntact
<1>1. IInv => ChainIntact
  BY DEF IInv
<1>2. IInv /\ [Next]_vars => IInv'
  BY NextInv
<1> QED
  BY <1>1, <1>2, InitInv, PTL DEF Spec

-----------------------------------------------------------------------------
(* Refinement of HookChain *)

\* An installation appends its hook to the chain of its site, or crashes.
LEMMA RefineStep ==
  ASSUME Laid, NEW s \in Sites, NEW h \in Hooks, PlainInstall(s, h)
  PROVE  Chain!Next
<1> DEFINE base == align(next, 4)
           hooks == [r \in Sites |-> HooksAt(r)]
           T == Hooks \cup {"none"}
<1>1. PICK kind \in Kinds, w \in Words, op \in {"bl", "b"} :
        w.target = h /\ trampoline_install(s, kind, w, op)
  BY DEF PlainInstall
<1>2. alive = TRUE
  BY DEF PlainInstall, Laid, TypeOK
<1>3. \A r \in Sites : /\ order[r] \in Seq(DOMAIN tramp)
                       /\ Len(order[r]) \in Nat
                       /\ \A i \in 1..Len(order[r]) :
                            /\ order[r][i] \in DOMAIN tramp
                            /\ tramp[order[r][i]].words.target \in T
  BY DEF Laid, TypeOK, Words
<1>4. CASE NoSpace(kind)
  <2>1. UNCHANGED <<tramp, order>> /\ alive' = FALSE
    BY <1>4 DEF NoSpace
  <2>2. hooks' = hooks
    BY <2>1 DEF HooksAt
  <2> QED
    BY <2>1, <2>2, <1>2 DEF Chain!Next, Chain!Crash
<1>5. CASE NoMapping(s, kind, w)
  <2>1. trampoline_copy(kind, w) /\ order' = order /\ alive' = FALSE
    BY <1>5 DEF NoMapping
  <2>2. \A a \in DOMAIN tramp : tramp'[a] = tramp[a]
    BY <2>1, CopyLemma
  <2>3. \A r \in Sites : HooksAt(r)' = HooksAt(r)
    BY <2>1, <2>2, <1>3 DEF HooksAt
  <2>4. hooks' = hooks
    BY <2>3
  <2> QED
    BY <2>1, <2>4, <1>2 DEF Chain!Next, Chain!Crash
<1>6. CASE Branch(s, kind, w, op)
  <2>1. /\ trampoline_copy(kind, w)
        /\ order' = [order EXCEPT ![s] = Append(@, base)]
        /\ alive' = alive
    BY <1>6 DEF Branch
  <2>2. /\ \A a \in DOMAIN tramp : tramp'[a] = tramp[a]
        /\ tramp'[base].words = w
    BY <2>1, CopyLemma
  <2>3. \A r \in Sites \ {s} : order'[r] = order[r]
    BY <2>1 DEF Laid, TypeOK
  <2>4. \A r \in Sites \ {s} : HooksAt(r)' = HooksAt(r)
    BY <2>2, <2>3, <1>3 DEF HooksAt
  <2> DEFINE n == Len(order[s])
  <2> HIDE DEF base
  <2>5. order'[s] = Append(order[s], base)
    BY <2>1 DEF Laid, TypeOK
  <2>6. /\ Len(order'[s]) = n + 1
        /\ order'[s][n + 1] = base
        /\ \A i \in 1..n : order'[s][i] = order[s][i]
    BY <2>5, <1>3
  <2>7. HooksAt(s)' = Append(HooksAt(s), h)
    <3> DEFINE A == HooksAt(s)
    <3>1. A = [i \in 1..n |-> tramp[order[s][i]].words.target]
      BY DEF HooksAt
    <3>2. A \in Seq(T) /\ Len(A) = n
      BY <3>1, <1>3
    <3>3. HooksAt(s)' = [i \in 1..(n + 1) |-> tramp'[order'[s][i]].words.target]
      BY <2>6 DEF HooksAt
    <3>4. \A i \in 1..(n + 1) :
            tramp'[order'[s][i]].words.target = IF i <= n THEN A[i] ELSE h
      BY <3>1, <2>2, <2>6, <1>1, <1>3
    <3> DEFINE B == [i \in 1..(n + 1) |-> tramp'[order'[s][i]].words.target]
    <3> HIDE DEF A
    <3>5. B \in Seq(T) /\ Len(B) = n + 1 /\ \A i \in 1..(n + 1) :
            B[i] = IF i <= n THEN A[i] ELSE h
      BY <3>2, <3>4, <1>3
    <3> HIDE DEF B
    <3>6. /\ Append(A, h) \in Seq(T)
          /\ Len(Append(A, h)) = n + 1
          /\ \A i \in 1..(n + 1) : Append(A, h)[i] = IF i <= n THEN A[i] ELSE h
      BY <3>2, <1>3
    <3>7. B = Append(A, h)
      BY <3>5, <3>6, SeqEqual
    <3> QED
      BY <3>3, <3>7 DEF A, B
  <2>8. hooks' = [hooks EXCEPT ![s] = Append(@, h)]
    BY <2>4, <2>7
  <2> HIDE DEF hooks
  <2>9. alive /\ alive' = alive
    BY <2>1, <1>2
  <2> QED
    BY <2>8, <2>9 DEF Chain!Next, Chain!Install, hooks
<1> QED
  BY <1>1, <1>4, <1>5, <1>6 DEF trampoline_install

\* The trampolines implement the hook chain: every installation, by any of the
\* seven installers, appends one hook to one address and changes no other.
THEOREM Refinement == Spec => ImplementsHookChain
<1>1. Init => Chain!Init
  BY DEF Init, Chain!Init, HooksAt
<1>2. Laid /\ [Next]_vars => [Chain!Next]_<<[s \in Sites |-> HooksAt(s)], alive>>
  <2> SUFFICES ASSUME Laid, [Next]_vars
               PROVE  [Chain!Next]_<<[s \in Sites |-> HooksAt(s)], alive>>
    OBVIOUS
  <2>1. CASE Next
    BY <2>1, InstallGood, RefineStep DEF Next
  <2>2. CASE UNCHANGED vars
    BY <2>2 DEF vars, HooksAt
  <2> QED
    BY <2>1, <2>2
<1>3. Init => Laid
  BY InitInv DEF IInv
<1> QED
  BY <1>1, <1>2, <1>3, NextLaid, PTL DEF Spec, ImplementsHookChain, Chain!Spec
=============================================================================
