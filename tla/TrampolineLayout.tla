-------------------------- MODULE TrampolineLayout --------------------------
(***************************************************************************)
(* What the memory layout has to provide for trampoline.c to be correct.   *)
(***************************************************************************)
EXTENDS Trampoline

ASSUME LayoutAssumption ==
  /\ Sites \subseteq Int \ {0}
  /\ Thumb \subseteq Sites
  /\ Orig \in [Sites -> Instr]
  /\ \A s \in Sites \ Thumb : s % 4 = 0
  /\ \A s \in Thumb : s % 2 = 0 /\ Orig[s].op # "b"
  /\ Base \in Int /\ Base % 4 = 0
  /\ BufStart \in Nat \ {0} /\ BufStart % 4 = 0
  /\ BufSize \in Nat \ {0}
  /\ "none" \notin Hooks
  /\ OverB \in BOOLEAN

\* trampoline_find_mapping accepts any mirror in the same 64MB (8MB) block,
\* which is neither sufficient for the range of a branch nor, for thumb, for
\* _BL_T_TRAMPOLINE, which can only encode a forward offset below 4MB.
ASSUME ReachAssumption ==
  \A s \in Sites, t \in BufStart..BufEnd :
    Usable(s, t) # {} =>
      LET d == trampoline_find_mapping(s, t) - s IN
      IF s \in Thumb THEN 4 <= d /\ d <= 4194307
                     ELSE -33554424 <= d /\ d <= 33554439

\* the function a patched branch led to
Callee(s) == IF Orig[s].op = "ins" THEN {} ELSE {extract_target(s, Orig[s].arg)}

\* The mirrors of the buffer are apart from each other and from the patched code
\* and what it called, and no patched branch led to itself or to the instruction
\* behind it. Else one place in memory would be two of them.
ASSUME ApartAssumption ==
  /\ \A i, j \in Mirrors : Alias(BufStart, i) < Alias(BufStart, j) =>
       Alias(BufEnd, i) < Alias(BufStart, j)
  /\ \A i, j \in Mirrors : Alias(BufStart, i) = Alias(BufStart, j) => i = j
  /\ \A s \in Sites : \A x \in {s, s + 4} \cup Callee(s), i \in Mirrors :
       x < Alias(BufStart, i) \/ Alias(BufEnd, i) < x
  /\ \A s \in Sites : Callee(s) \cap {s, s + 4} = {}
=============================================================================
