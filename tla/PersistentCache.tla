-------------------------- MODULE PersistentCache --------------------------
(***************************************************************************)
(* What SCFM needs of the place its cache file is kept in: when it starts it *)
(* finds what it last wrote, however often power was lost in between. The    *)
(* cache holds data the MLC does not have yet, so an older state is as bad   *)
(* as none.                                                                  *)
(***************************************************************************)
EXTENDS Naturals, Sequences

CONSTANT Image      \* the possible contents of the cache file

VARIABLES cache,    \* its contents
          view      \* what SCFM works with, << >> when it is not running

Init == cache \in Image /\ view = << >>

Start == /\ view = << >>
         /\ view' = cache
         /\ UNCHANGED cache

Write == /\ view # << >>
         /\ \E i \in Image : cache' = i /\ view' = i

Off == /\ view' = << >>
       /\ UNCHANGED cache

Next == Start \/ Write \/ Off

Spec == Init /\ [][Next]_<<cache, view>>
=============================================================================
