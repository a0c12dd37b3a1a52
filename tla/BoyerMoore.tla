----------------------------- MODULE BoyerMoore -----------------------------
(***************************************************************************)
(* The string search of bm.c. Strings are sequences; positions count from 0  *)
(* as in C, so pat[i] of the code is pat[i + 1] here.                         *)
(***************************************************************************)
EXTENDS Integers, Sequences, SequencesExt

NULL == -1

\* distance of the rightmost c that is not the last character
make_delta1(pat, c) ==
  LET at == {i \in 0..Len(pat) - 2 : pat[i + 1] = c}
  IN  IF at = {} THEN Len(pat) ELSE Len(pat) - 1 - Max(at)

is_prefix(word, pos) == \A i \in 0..Len(word) - pos - 1 : word[i + 1] = word[pos + i + 1]

suffix_length(word, pos) ==
  Min({i \in 0..pos : i = pos \/ word[pos - i + 1] # word[Len(word) - i]})

\* the first loop: p + 1 or a later position where a suffix is a prefix
PrefixShift(pat, p) ==
  LET from == {q \in p + 1..Len(pat) : is_prefix(pat, q)}
  IN  Min(from) + Len(pat) - 1 - p

\* where the second loop writes delta2[j]
SuffixAt(pat, j) ==
  {p \in 0..Len(pat) - 2 : LET slen == suffix_length(pat, p)
                           IN  j = Len(pat) - 1 - slen /\ pat[p - slen + 1] # pat[Len(pat) - slen]}
SuffixShift(pat, p) == Len(pat) - 1 - p + suffix_length(pat, p)

\* Mutant: the largest instead of the smallest shift is kept.
make_delta2_mutant(pat) ==
  [j \in 0..Len(pat) - 1 |-> IF SuffixAt(pat, j) = {} THEN PrefixShift(pat, j)
                             ELSE SuffixShift(pat, Min(SuffixAt(pat, j)))]

\* the second loop overwrites with ever smaller shifts: the last p counts
make_delta2(pat) ==
  [j \in 0..Len(pat) - 1 |-> IF SuffixAt(pat, j) = {} THEN PrefixShift(pat, j)
                             ELSE SuffixShift(pat, Max(SuffixAt(pat, j)))]

\* k characters back from i, where str and pat differ
Differ(str, pat, i) == {k \in 0..Len(pat) - 1 : str[i - k + 1] # pat[Len(pat) - k]}

\* what the loop makes of i when k characters match
Skip(str, pat, delta2, i, k) ==
  i - k + Max({make_delta1(pat, str[i - k + 1]), delta2[Len(pat) - 1 - k]})

\* the position found, or NULL; from[i] is the search with i as the loop variable
boyer_moore_search(str, pat) ==
  LET delta2 == make_delta2(pat)
      from[i \in Len(pat) - 1..Len(str) + Len(pat) - 1] ==
        IF i >= Len(str) THEN NULL
        ELSE IF Differ(str, pat, i) = {} THEN i - Len(pat) + 1
        ELSE from[Skip(str, pat, delta2, i, Min(Differ(str, pat, i)))]
  IN  from[Len(pat) - 1]

\* What it is for: the first place where pat occurs.
FirstOccurrence(str, pat) ==
  LET at == {i \in 0..Len(str) - Len(pat) : SubSeq(str, i + 1, i + Len(pat)) = pat}
  IN  IF at = {} THEN NULL ELSE Min(at)
=============================================================================
