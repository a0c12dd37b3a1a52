----------------------------- MODULE HookChain -----------------------------
(***************************************************************************)
(* What the trampoline API promises to the code that installs hooks        *)
(* (README.md, "hooking IOSU using trampolines"): a patched address keeps   *)
(* every hook ever installed at it, in the order of installation, and a     *)
(* new one goes in front of the old ones without disturbing any address.    *)
(* The only way out is crash_and_burn, after which nothing is installed.    *)
(***************************************************************************)
EXTENDS Sequences

CONSTANTS Sites,   \* the patched addresses
          Hooks    \* the functions that get hooked in

VARIABLES hooks,   \* hooks[s]: the hooks of s, oldest first
          alive    \* FALSE after crash_and_burn

Init == /\ hooks = [s \in Sites |-> << >>]
        /\ alive = TRUE

Install(s, h) == /\ alive
                 /\ hooks' = [hooks EXCEPT ![s] = Append(@, h)]
                 /\ UNCHANGED alive

Crash == /\ alive
         /\ alive' = FALSE
         /\ UNCHANGED hooks

Next == \/ \E s \in Sites, h \in Hooks : Install(s, h)
        \/ Crash

Spec == Init /\ [][Next]_<<hooks, alive>>
=============================================================================
