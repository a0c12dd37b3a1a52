------------------------------- MODULE Cache -------------------------------
(***************************************************************************)
(* Memory as the ARM core of the Wii U sees it: RAM, a write-back data cache *)
(* and an instruction cache that do not know of each other, and what brings  *)
(* them together: the kernel's flush_dcache and ic_invalidateall of           *)
(* latte/cache.c, which runs with interrupts off (irq_kill .. irq_restore)    *)
(* and so is one step to the threads of IOSU.                                 *)
(***************************************************************************)
EXTENDS Naturals, Sequences

CONSTANTS
  Addrs,     \* the words of memory
  Code,      \* what a word can hold
  LINESIZE   \* words in a cache line

Absent == "absent"
Memories == [ram : [Addrs -> Code], dc : [Addrs -> Code \cup {Absent}],
             ic : [Addrs -> Code \cup {Absent}]]

\* What a load, an instruction fetch and a copy see and do.
Load(h, a) == IF h.dc[a] # Absent THEN h.dc[a] ELSE h.ram[a]
Fetch(h, a) == IF h.ic[a] # Absent THEN h.ic[a] ELSE h.ram[a]
KERN_memcpy(h, dest, data) ==
  [h EXCEPT !.dc = [a \in Addrs |-> IF a >= dest /\ a - dest < Len(data)
                                      THEN data[a - dest + 1] ELSE @[a]]]

LineOf(a) == a \div LINESIZE

\* Write back and forget the lines of the data cache that hold words of S.
Clean(h, S) ==
  LET inS(a) == \E b \in S : LineOf(a) = LineOf(b)
  IN  [h EXCEPT !.ram = [a \in Addrs |-> IF inS(a) THEN Load(h, a) ELSE @[a]],
                !.dc = [a \in Addrs |-> IF inS(a) THEN Absent ELSE @[a]]]

flush_dcache(h, dest, size) == Clean(h, {a \in Addrs : a >= dest /\ a - dest < size})

ic_invalidateall(h) == [h EXCEPT !.ic = [a \in Addrs |-> Absent]]

\* The caches fetch and write back lines whenever they like.
FillLine(h, a) ==
  [h EXCEPT !.ic = [b \in Addrs |-> IF LineOf(b) = LineOf(a) THEN h.ram[b] ELSE @[b]]]
EvictLine(h, a) == Clean(h, {a})
=============================================================================
