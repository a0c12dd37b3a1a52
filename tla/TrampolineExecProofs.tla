------------------------ MODULE TrampolineExecProofs ------------------------
(***************************************************************************)
(* Proofs about the execution of trampolines, for every chain of hooks that *)
(* the installers of trampoline.c can build, as long as hook_before is not  *)
(* used on a B that hook_before_v2 left (~OverB).                           *)
(***************************************************************************)
EXTENDS TrampolineExec, TrampolineProofs

Places == [loc : Int, part : {"entry", "tail", "reg", "idle"}]
Entries == [hook : Hooks \cup {"none"}, ins : Int, did : BOOLEAN]
Cpus == [pc : Places, lr : Places, stack : Seq(Places), log : Seq(Entries), site : Int]

-----------------------------------------------------------------------------
(* The inductive invariant *)

\* The i-th newest hook of s.
Newest(s, i) == tramp[order[s][Len(order[s]) + 1 - i]].words.target

\* A return address that is at place i of the stack st, or in r if i is 0, is that
\* of the site, with nothing behind it, or it leads to the tail of a trampoline of
\* the site that replaced a call, and that tail finds the next one in F. The
\* tail of trampoline_t_blreplace_with_regs finds a saved register.
FrameAt(s, F, r, st, i) ==
  LET a == IF i = 0 THEN r ELSE st[i] IN
  \/ i = Len(st) /\ a = At(s + 4)
  \/ \E j \in 1..Len(order[s]) :
       /\ a = Behind(order[s][j])
       /\ tramp[order[s][j]].kind \in BlreKinds
       /\ IF tramp[order[s][j]].kind = "t_blre_regs"
          THEN i + 2 <= Len(st) /\ st[i + 2] = Reg
          ELSE i + RegsPushed[tramp[order[s][j]].kind] + 2 \in F

\* Returning to r with the stack st runs the tails of all trampolines that are
\* still to be left, and then the code behind the site. F are the places of
\* the return addresses.
Unwinds(s, r, st) ==
  \E F \in SUBSET (0..Len(st)) : 0 \in F /\ \A i \in F : FrameAt(s, F, r, st, i)

\* what returning to r does at this site; a B changes neither lr nor the stack
Returns(c, r) ==
  IF mem[c.site].op = "bl" THEN Unwinds(c.site, r, c.stack)
  ELSE c.stack = << >> /\ c.lr = Reg

\* all hooks so far have gone on
Went(s, log) ==
  /\ Len(log) <= Len(order[s])
  /\ \A i \in 1..Len(log) : log[i] = HookRan(Newest(s, i), TRUE)

\* the hooks ran, newest first, and the last thing that did says it was the last
Ended(s, log) ==
  LET m == Len(log)
      n == Len(order[s])
  IN /\ \A i \in 1..m : i <= n => log[i].hook = Newest(s, i)
     /\ \A i \in 1..(m - 1) : log[i].did
     /\ \/ m = n + 1 /\ log[m] = InsRan(Orig[s].arg)
        \/ m \in 1..n /\ ~log[m].did

\* between two calls
Resting(c) ==
  /\ c.pc = Idle
  /\ \/ c = InitCpu
     \/ /\ c.site \in Sites
        /\ Ended(c.site, c.log)
        /\ c.stack = << >>
        /\ mem[c.site].op # "bl" => c.lr = Reg

\* at the patched address
Starting(c) == c = [InitCpu EXCEPT !.pc = At(c.site), !.site = c.site]

\* at the trampoline behind those that ran, or at the original function
Below(c) ==
  LET k == Len(c.log)
      n == Len(order[c.site])
  IN IF k < n THEN c.pc = At(trampoline_find_mapping(c.site, order[c.site][n - k]))
     ELSE k = n /\ Orig[c.site].op # "ins" /\ c.pc = At(OrigTarget(c.site))

Descending(c) == Went(c.site, c.log) /\ Below(c) /\ Returns(c, c.lr)

\* on the way back
Ascending(c) ==
  /\ Ended(c.site, c.log)
  /\ Returns(c, c.pc)
  /\ mem[c.site].op # "bl" => c.pc = At(c.site + 4)

\* returned to a register
Lost(c) == c.pc = Reg /\ ThumbRegs(c.site)

Thread(c) ==
  /\ c \in Cpus
  /\ \/ Resting(c)
     \/ c.site \in Sites /\ (Starting(c) \/ Descending(c) \/ Ascending(c) \/ Lost(c))

EInv == IInv /\ (~running => cpu = InitCpu) /\ Thread(cpu)

-----------------------------------------------------------------------------
(* Places in code *)

\* Code, the code behind a call, a saved register and rest are told apart.
LEMMA PlaceLemma ==
  /\ \A a, b : At(a) = At(b) => a = b
  /\ \A a, b : Behind(a) = Behind(b) => a = b
  /\ \A a, b : At(a) # Behind(b)
  /\ \A a : At(a) # Reg /\ At(a) # Idle /\ Behind(a) # Reg /\ Behind(a) # Idle
  /\ Reg # Idle
BY DEF At, Behind, Reg, Idle

\* They are places.
LEMMA PlaceTypes ==
  /\ \A a \in Int : At(a) \in Places /\ Behind(a) \in Places
  /\ Reg \in Places /\ Idle \in Places
BY DEF At, Behind, Reg, Idle, Places

\* The addresses of a site.
LEMMA SiteTypes ==
  ASSUME NEW s \in Sites
  PROVE  /\ s \in Int /\ s # 0 /\ s + 4 \in Int /\ Callee(s) \subseteq Int
         /\ Orig[s] \in Instr /\ Orig[s].arg \in Int
         /\ OrigTarget(s) \in Int
         /\ Orig[s].op # "ins" => Callee(s) = {OrigTarget(s)}
<1>1. s \in Int /\ s # 0 /\ s + 4 \in Int
  BY LayoutAssumption
<1>2. Orig[s] \in Instr /\ Orig[s].arg \in Int
  BY LayoutAssumption DEF Instr
<1>3. OrigTarget(s) \in Int
  BY <1>2, TargetLemma DEF OrigTarget
<1> QED
  BY <1>1, <1>2, <1>3 DEF Callee, OrigTarget

\* A mirror of the buffer is the buffer, moved.
LEMMA AliasShift ==
  ASSUME NEW t \in Int, NEW i \in Mirrors
  PROVE  /\ Alias(BufStart, i) \in Int
         /\ Alias(t, i) = Alias(BufStart, i) + (t - BufStart)
<1>1. Base \in Int /\ BufStart \in Int
  BY LayoutAssumption
<1>2. i \in {0, 1, 2, 3, 4, 5, 6}
  BY DEF Mirrors
<1>3. i = 0 \/ AltBase[i] \in Int
  BY <1>2 DEF AltBase
<1> QED
  BY <1>1, <1>3 DEF Alias

\* the trampolines are in the buffer
LEMMA InBuffer ==
  ASSUME IInv, NEW t \in DOMAIN tramp
  PROVE  /\ t \in Int /\ BufStart <= t /\ t <= BufEnd
         /\ BufStart \in Int /\ BufEnd \in Int /\ t % 4 = 0
<1>1. /\ t \in Int /\ t % 4 = 0 /\ BufStart <= t /\ t + Size[tramp[t].kind] <= next
      /\ tramp[t].kind \in Kinds /\ next \in BufStart..BufEnd
  BY DEF Laid, IInv, TypeOK, BufferSafe
<1>2. Size[tramp[t].kind] \in {28, 32, 36, 44}
  BY <1>1, KindsLemma
<1>3. BufStart \in Int /\ BufEnd \in Int
  BY LayoutAssumption DEF BufEnd
<1> QED
  BY <1>1, <1>2, <1>3

\* No two trampolines are at the same address, through whatever mirrors.
LEMMA AliasUnique ==
  ASSUME IInv, NEW t \in DOMAIN tramp, NEW u \in DOMAIN tramp,
         NEW i \in Mirrors, NEW j \in Mirrors, Alias(t, i) = Alias(u, j)
  PROVE  t = u
<1>1. /\ t \in Int /\ BufStart <= t /\ t <= BufEnd /\ u \in Int /\ BufStart <= u /\ u <= BufEnd
      /\ BufStart \in Int /\ BufEnd \in Int
  BY InBuffer
<1> DEFINE a == Alias(BufStart, i)
           b == Alias(BufStart, j)
<1>2. /\ a \in Int /\ b \in Int
      /\ Alias(t, i) = a + (t - BufStart) /\ Alias(u, j) = b + (u - BufStart)
      /\ Alias(BufEnd, i) = a + (BufEnd - BufStart) /\ Alias(BufEnd, j) = b + (BufEnd - BufStart)
  BY <1>1, AliasShift
<1>3. /\ a < b => a + (BufEnd - BufStart) < b
      /\ b < a => b + (BufEnd - BufStart) < a
  BY <1>2, ApartAssumption
<1>4. a \in Int /\ b \in Int /\ a + (t - BufStart) = b + (u - BufStart)
  BY <1>2
<1> HIDE DEF a, b
<1> QED
  BY <1>1, <1>3, <1>4

\* The address of the j-th trampoline of s, as seen from s, is that of no other.
LEMMA OneTrampoline ==
  ASSUME IInv, NEW s \in Sites, NEW j \in 1..Len(order[s])
  PROVE  /\ order[s][j] \in DOMAIN tramp /\ order[s][j] \in Int
         /\ trampoline_find_mapping(s, order[s][j]) \in Int
         /\ order[s][j] \in TrampAt(trampoline_find_mapping(s, order[s][j]))
         /\ \A t \in TrampAt(trampoline_find_mapping(s, order[s][j])) : t = order[s][j]
<1>1. order[s][j] \in DOMAIN tramp
  BY DEF Laid, IInv, TypeOK
<1>2. PICK t : t = order[s][j]
  OBVIOUS
<1>3. t \in Int /\ t % 4 = 0 /\ Usable(s, t) # {}
  BY <1>1, <1>2, InBuffer DEF Laid, IInv, ReturnsFit, SiteReturns
<1>4. PICK i \in Mirrors : trampoline_find_mapping(s, t) = Alias(t, i)
  BY <1>3, MappingLemma
<1>5. trampoline_find_mapping(s, t) \in Int
  BY <1>3, MappingLemma
<1>6. ASSUME NEW u \in TrampAt(Alias(t, i)) PROVE u = t
  <2>1. u \in DOMAIN tramp /\ \E k \in Mirrors : Alias(u, k) = Alias(t, i)
    BY <1>6 DEF TrampAt
  <2> QED
    BY <2>1, <1>1, <1>2, AliasUnique
<1>7. t \in TrampAt(Alias(t, i))
  BY <1>1, <1>2 DEF TrampAt
<1> QED
  BY <1>1, <1>2, <1>3, <1>4, <1>5, <1>6, <1>7

\* and the code that was patched is in none
LEMMA NoTrampoline ==
  ASSUME IInv, NEW s \in Sites, NEW x \in {s, s + 4} \cup Callee(s), NEW t \in TrampAt(x)
  PROVE  FALSE
<1>1. PICK i \in Mirrors : t \in DOMAIN tramp /\ Alias(t, i) = x
  BY DEF TrampAt
<1>2. t \in Int /\ BufStart <= t /\ t <= BufEnd /\ BufStart \in Int /\ BufEnd \in Int
  BY <1>1, InBuffer
<1>3. /\ Alias(BufStart, i) \in Int
      /\ Alias(t, i) = Alias(BufStart, i) + (t - BufStart)
      /\ Alias(BufEnd, i) = Alias(BufStart, i) + (BufEnd - BufStart)
  BY <1>2, AliasShift
<1>4. x < Alias(BufStart, i) \/ Alias(BufEnd, i) < x
  BY ApartAssumption
<1>5. x \in Int
  BY SiteTypes
<1> QED
  BY <1>1, <1>2, <1>3, <1>4, <1>5
-----------------------------------------------------------------------------
(* The stack *)

\* How much the trampolines that replace a call push and drop.
LEMMA FrameSizes ==
  /\ BlreKinds = BlreProtos
  /\ \A k \in BlreKinds : RegsPushed[k] \in Nat /\ TailDrop[k] \in Nat
  /\ \A k \in BlreKinds \ {"t_blre_regs"} : TailDrop[k] = RegsPushed[k] + 1
  /\ RegsPushed["t_blre_regs"] = 4 /\ TailDrop["t_blre_regs"] = 1
BY DEF BlreKinds, BlreProtos, RegsPushed, TailDrop

\* what a trampoline that replaces a call leaves: registers, the replaced function,
\* lr, and what was there
Frame(R, a, r, st) == [i \in 1..R |-> Reg] \o <<a, r>> \o st

IsFrame(new, R, a, r, st) ==
  /\ new \in Seq(Places)
  /\ Len(new) = R + 2 + Len(st)
  /\ \A i \in 1..R : new[i] = Reg
  /\ new[R + 1] = a /\ new[R + 2] = r
  /\ \A i \in 1..Len(st) : new[i + R + 2] = st[i]

\* What a trampoline pushes is on top of what was there.
LEMMA Pushed ==
  ASSUME NEW R \in Nat, NEW a \in Places, NEW r \in Places, NEW st \in Seq(Places)
  PROVE  IsFrame(Frame(R, a, r, st), R, a, r, st)
<1> DEFINE regs == [i \in 1..R |-> Reg]
           two == <<a, r>>
           top == regs \o two
<1>1. regs \in Seq(Places) /\ Len(regs) = R /\ \A i \in 1..R : regs[i] = Reg
  BY PlaceTypes
<1>2. two \in Seq(Places) /\ Len(two) = 2 /\ two[1] = a /\ two[2] = r
  OBVIOUS
<1> HIDE DEF regs, two
<1>3. /\ top \in Seq(Places) /\ Len(top) = R + 2
      /\ \A i \in 1..R : top[i] = Reg
      /\ top[R + 1] = a /\ top[R + 2] = r
  <2>1. /\ top \in Seq(Places) /\ Len(top) = Len(regs) + Len(two)
        /\ \A i \in 1..Len(regs) : top[i] = regs[i]
        /\ \A i \in 1..Len(two) : top[Len(regs) + i] = two[i]
    <3>1. regs \in Seq(Places)
      BY <1>1
    <3>2. two \in Seq(Places)
      BY <1>2
    <3>3. top \in Seq(Places) /\ Len(top) = Len(regs) + Len(two)
      BY <3>1, <3>2
    <3>4. \A i \in 1..Len(regs) : top[i] = regs[i]
      BY <3>1, <3>2
    <3>5. \A i \in 1..Len(two) : top[Len(regs) + i] = two[i]
      BY <3>1, <3>2
    <3> QED
      BY <3>3, <3>4, <3>5
  <2>2. 1 \in 1..Len(two) /\ 2 \in 1..Len(two)
    BY <1>2
  <2> HIDE DEF top
  <2> QED
    BY <1>1, <1>2, <2>1, <2>2
<1> HIDE DEF top
<1>4. /\ top \o st \in Seq(Places) /\ Len(top \o st) = R + 2 + Len(st)
      /\ \A i \in 1..R + 2 : (top \o st)[i] = top[i]
      /\ \A i \in 1..Len(st) : (top \o st)[i + R + 2] = st[i]
  BY <1>3
<1>5. \A i \in 1..R : i \in 1..R + 2
  OBVIOUS
<1>6. R + 1 \in 1..R + 2 /\ R + 2 \in 1..R + 2
  OBVIOUS
<1> DEFINE new == top \o st
<1> HIDE DEF new
<1>7. IsFrame(new, R, a, r, st)
  BY <1>3, <1>4, <1>5, <1>6 DEF new, IsFrame
<1> QED
  BY <1>7 DEF new, top, regs, two, Frame

\* what is left behind the first d words and the next one
IsRest(new, st, d) ==
  /\ new \in Seq(Places)
  /\ Len(new) = Len(st) - (d + 1)
  /\ \A i \in 1..Len(st) - (d + 1) : new[i] = st[i + (d + 1)]

\* What the tail of a trampoline drops and pops.
LEMMA Popped ==
  ASSUME NEW st \in Seq(Places), NEW d \in Nat, d < Len(st)
  PROVE  /\ Head(Drop(st, d)) = st[d + 1] /\ st[d + 1] \in Places
         /\ IsRest(Tail(Drop(st, d)), st, d)
<1> DEFINE rest == SubSeq(st, d + 1, Len(st))
<1>1. /\ rest \in Seq(Places) /\ Len(rest) = Len(st) - d
      /\ \A i \in 1..Len(st) - d : rest[i] = st[i + d]
  OBVIOUS
<1>2. Drop(st, d) = rest
  BY DEF Drop
<1> HIDE DEF rest
<1>3. rest # << >> /\ Len(rest) \in Nat /\ Len(rest) > 0
  BY <1>1
<1>4. /\ Head(rest) = rest[1]
      /\ Tail(rest) \in Seq(Places) /\ Len(Tail(rest)) = Len(rest) - 1
      /\ \A i \in 1..Len(rest) - 1 : Tail(rest)[i] = rest[i + 1]
  BY <1>1, <1>3, HeadTailProperties
<1>5. rest[1] = st[d + 1] /\ st[d + 1] \in Places
  BY <1>1
<1>6. ASSUME NEW i \in 1..Len(st) - (d + 1) PROVE Tail(rest)[i] = st[i + (d + 1)]
  <2>1. i \in 1..Len(rest) - 1 /\ i + 1 \in 1..Len(st) - d /\ (i + 1) + d = i + (d + 1)
    BY <1>1
  <2> QED
    BY <2>1, <1>1, <1>4
<1>7. Len(Tail(rest)) = Len(st) - (d + 1)
  BY <1>1, <1>4
<1> QED
  BY <1>2, <1>4, <1>5, <1>6, <1>7 DEF IsRest

\* A thread that returns to the code behind the site has nothing left on the stack.
LEMMA Unwound ==
  ASSUME NEW s, NEW st \in Seq(Places), Unwinds(s, At(s + 4), st)
  PROVE  st = << >>
<1>1. PICK F \in SUBSET (0..Len(st)) : 0 \in F /\ \A i \in F : FrameAt(s, F, At(s + 4), st, i)
  BY DEF Unwinds
<1>2. FrameAt(s, F, At(s + 4), st, 0)
  BY <1>1
<1>3. 0 = Len(st)
  BY <1>2, PlaceLemma DEF FrameAt
<1> QED
  BY <1>3

\* A return address leads behind the site or to the tail of one of its trampolines.
LEMMA ReturnPlace ==
  ASSUME NEW s, NEW r, NEW st \in Seq(Places), Unwinds(s, r, st), r # At(s + 4)
  PROVE  \E j \in 1..Len(order[s]) :
           r = Behind(order[s][j]) /\ tramp[order[s][j]].kind \in BlreKinds
<1>1. PICK F \in SUBSET (0..Len(st)) : 0 \in F /\ \A i \in F : FrameAt(s, F, r, st, i)
  BY DEF Unwinds
<1>2. FrameAt(s, F, r, st, 0)
  BY <1>1
<1> QED
  BY <1>2 DEF FrameAt

\* An empty stack is unwound by returning behind the site.
LEMMA UnwindsNone ==
  ASSUME NEW s
  PROVE  Unwinds(s, At(s + 4), << >>)
<1>1. FrameAt(s, {0}, At(s + 4), << >>, 0)
  BY DEF FrameAt
<1>2. {0} \in SUBSET (0..Len(<< >>))
  OBVIOUS
<1> QED
  BY <1>1, <1>2 DEF Unwinds
\* A trampoline that replaced a call pushes what its tail will need.
LEMMA UnwindsPush ==
  ASSUME NEW s, NEW r \in Places, NEW st \in Seq(Places), Unwinds(s, r, st),
         NEW j \in 1..Len(order[s]), NEW a \in Places,
         tramp[order[s][j]].kind \in BlreKinds
  PROVE  LET new == Frame(RegsPushed[tramp[order[s][j]].kind], a, r, st)
         IN  new \in Seq(Places) /\ Unwinds(s, Behind(order[s][j]), new)
<1>1. PICK kind, t : t = order[s][j] /\ kind = tramp[t].kind
  OBVIOUS
<1>2. PICK R \in Nat : R = RegsPushed[kind]
  BY <1>1, FrameSizes
<1> DEFINE new == Frame(R, a, r, st)
<1>3. /\ new \in Seq(Places)
      /\ Len(new) = R + 2 + Len(st)
      /\ \A i \in 1..R : new[i] = Reg
      /\ new[R + 1] = a /\ new[R + 2] = r
      /\ \A i \in 1..Len(st) : new[i + R + 2] = st[i]
  <2>1. IsFrame(Frame(R, a, r, st), R, a, r, st)
    BY Pushed
  <2> QED BY <2>1 DEF IsFrame
<1>4. Frame(RegsPushed[tramp[order[s][j]].kind], a, r, st) = new
  BY <1>1, <1>2
<1> HIDE DEF new
<1>5. CASE kind = "t_blre_regs"
  <2>1. R = 4
    BY <1>2, <1>5, FrameSizes
  <2>2. 0 + 2 <= Len(new) /\ new[0 + 2] = Reg
    BY <2>1, <1>3
  <2>3. FrameAt(s, {0}, Behind(t), new, 0)
    BY <2>2, <1>1, <1>5 DEF FrameAt
  <2>4. {0} \in SUBSET (0..Len(new))
    BY <1>3
  <2>5. Unwinds(s, Behind(t), new)
    BY Zenon, <2>3, <2>4 DEF Unwinds
  <2> QED
    BY <2>5, <1>1, <1>3, <1>4
<1>6. CASE kind # "t_blre_regs"
  <2>1. PICK F \in SUBSET (0..Len(st)) : 0 \in F /\ \A i \in F : FrameAt(s, F, r, st, i)
    BY DEF Unwinds
  <2> DEFINE G == {0} \cup {i + R + 2 : i \in F}
  <2>2. G \in SUBSET (0..Len(new))
    BY <2>1, <1>3
  <2>3. 0 + R + 2 \in G
    BY <2>1
  <2>4. FrameAt(s, G, Behind(t), new, 0)
    <3> HIDE DEF G
    <3> QED
      BY <2>3, <1>1, <1>2, <1>6 DEF FrameAt
  <2>5. ASSUME NEW i \in F PROVE FrameAt(s, G, Behind(t), new, i + R + 2)
    <3>1. i \in Nat /\ i <= Len(st) /\ FrameAt(s, F, r, st, i)
      BY <2>1
    <3>2. PICK x : x = IF i = 0 THEN r ELSE st[i]
      OBVIOUS
    <3>3. i + R + 2 # 0 /\ new[i + R + 2] = x
      <4>1. CASE i = 0
        BY <4>1, <3>2, <1>3
      <4>2. CASE i # 0
        <5>1. i \in 1..Len(st)
          BY <4>2, <3>1
        <5> QED
          BY <5>1, <4>2, <3>2, <1>3
      <4> QED
        BY <4>1, <4>2
    <3>4. CASE i = Len(st) /\ x = At(s + 4)
      BY <3>3, <3>4, <1>3 DEF FrameAt
    <3>5. CASE \E k \in 1..Len(order[s]) :
                 /\ x = Behind(order[s][k])
                 /\ tramp[order[s][k]].kind \in BlreKinds
                 /\ IF tramp[order[s][k]].kind = "t_blre_regs"
                    THEN i + 2 <= Len(st) /\ st[i + 2] = Reg
                    ELSE i + RegsPushed[tramp[order[s][k]].kind] + 2 \in F
      <4>1. PICK k \in 1..Len(order[s]) :
                 /\ x = Behind(order[s][k])
                 /\ tramp[order[s][k]].kind \in BlreKinds
                 /\ IF tramp[order[s][k]].kind = "t_blre_regs"
                    THEN i + 2 <= Len(st) /\ st[i + 2] = Reg
                    ELSE i + RegsPushed[tramp[order[s][k]].kind] + 2 \in F
        BY <3>5
      <4>2. PICK l : l = tramp[order[s][k]].kind
        OBVIOUS
      <4>3. CASE l = "t_blre_regs"
        <5>1. i + 2 \in 1..Len(st) /\ st[i + 2] = Reg
          BY <4>1, <4>2, <4>3, <3>1
        <5>2. (i + 2) + R + 2 = (i + R + 2) + 2
          BY <3>1
        <5>3. new[(i + R + 2) + 2] = Reg /\ (i + R + 2) + 2 <= Len(new)
          BY <5>1, <5>2, <1>3
        <5> QED
          BY <5>3, <4>1, <4>2, <4>3, <3>3 DEF FrameAt
      <4>4. CASE l # "t_blre_regs"
        <5>1. PICK Q \in Nat : Q = RegsPushed[l]
          BY <4>1, <4>2, FrameSizes
        <5>2. i + Q + 2 \in F
          BY <5>1, <4>1, <4>2, <4>4
        <5>3. (i + Q + 2) + R + 2 \in G
          BY <5>2
        <5>4. (i + Q + 2) + R + 2 = (i + R + 2) + Q + 2
          BY <3>1
        <5> HIDE DEF G
        <5>5. (i + R + 2) + RegsPushed[tramp[order[s][k]].kind] + 2 \in G
          BY <5>1, <5>3, <5>4, <4>2
        <5> QED
          BY <5>5, <4>1, <4>2, <4>4, <3>3 DEF FrameAt
      <4> QED
        BY <4>3, <4>4
    <3> QED
      BY <3>1, <3>2, <3>4, <3>5 DEF FrameAt
  <2>6. \A i \in G : FrameAt(s, G, Behind(t), new, i)
    <3>1. \A i \in G : i = 0 \/ \E k \in F : i = k + R + 2
      OBVIOUS
    <3> HIDE DEF G
    <3> QED
      BY <3>1, <2>4, <2>5
  <2>7. 0 \in G
    OBVIOUS
  <2> HIDE DEF G
  <2>8. Unwinds(s, Behind(t), new)
    BY Zenon, <2>2, <2>6, <2>7 DEF Unwinds
  <2> QED
    BY <2>8, <1>1, <1>3, <1>4
<1> QED
  BY <1>5, <1>6
\* The tail of a trampoline that replaced a call, except for the one with thumb
\* registers, finds the return address its head was called with.
LEMMA UnwindsPop ==
  ASSUME NEW s, NEW t, NEW st \in Seq(Places), Unwinds(s, Behind(t), st),
         NEW kind, kind = tramp[t].kind
  PROVE  /\ \E j \in 1..Len(order[s]) : t = order[s][j]
         /\ kind \in BlreKinds
         /\ Head(Drop(st, TailDrop[kind])) \in Places
         /\ Tail(Drop(st, TailDrop[kind])) \in Seq(Places)
         /\ IF kind = "t_blre_regs" THEN Head(Drop(st, TailDrop[kind])) = Reg
            ELSE Unwinds(s, Head(Drop(st, TailDrop[kind])), Tail(Drop(st, TailDrop[kind])))
<1>1. PICK F \in SUBSET (0..Len(st)) : 0 \in F /\ \A i \in F : FrameAt(s, F, Behind(t), st, i)
  BY DEF Unwinds
<1>2. FrameAt(s, F, Behind(t), st, 0)
  BY <1>1
<1>3. PICK j \in 1..Len(order[s]) :
        /\ t = order[s][j] /\ kind \in BlreKinds
        /\ IF kind = "t_blre_regs" THEN 0 + 2 <= Len(st) /\ st[0 + 2] = Reg
           ELSE 0 + RegsPushed[kind] + 2 \in F
  BY <1>2, PlaceLemma DEF FrameAt
<1>4. PICK d \in Nat : d = TailDrop[kind]
  BY <1>3, FrameSizes
<1>5. CASE kind = "t_blre_regs"
  <2>1. d = 1 /\ d < Len(st) /\ st[d + 1] = Reg
    BY <1>3, <1>4, <1>5, FrameSizes
  <2>2. /\ Head(Drop(st, d)) = st[d + 1] /\ st[d + 1] \in Places
        /\ Tail(Drop(st, d)) \in Seq(Places)
    BY <2>1, Popped DEF IsRest
  <2> QED
    BY <2>1, <2>2, <1>3, <1>4, <1>5
<1>6. CASE kind # "t_blre_regs"
  <2>1. d + 1 \in F /\ d < Len(st)
    <3>1. d = RegsPushed[kind] + 1 /\ RegsPushed[kind] \in Nat
      BY <1>3, <1>4, <1>6, FrameSizes
    <3>2. 0 + RegsPushed[kind] + 2 = d + 1
      BY <3>1
    <3>3. d + 1 \in F
      BY <3>2, <1>3, <1>6
    <3>4. d + 1 \in 0..Len(st)
      BY <3>3
    <3> QED
      BY <3>3, <3>4
  <2>2. PICK r, new : r = Head(Drop(st, d)) /\ new = Tail(Drop(st, d))
    OBVIOUS
  <2>3. /\ r = st[d + 1] /\ r \in Places
        /\ new \in Seq(Places) /\ Len(new) = Len(st) - (d + 1)
        /\ \A i \in 1..Len(st) - (d + 1) : new[i] = st[i + (d + 1)]
    <3>1. r = st[d + 1] /\ r \in Places /\ IsRest(new, st, d)
      BY <2>1, <2>2, Popped
    <3> QED
      BY <3>1 DEF IsRest
  <2> DEFINE G == {i \in 0..Len(new) : i + (d + 1) \in F}
  <2>4. 0 \in G /\ G \in SUBSET (0..Len(new))
    BY <2>1, <2>3
  <2>5. ASSUME NEW i \in G PROVE FrameAt(s, G, r, new, i)
    <3>1. i \in Nat /\ i <= Len(new) /\ i + (d + 1) \in F /\ i + (d + 1) # 0
      BY <2>3
    <3>2. FrameAt(s, F, Behind(t), st, i + (d + 1))
      BY <3>1, <1>1
    <3>3. PICK x : x = IF i = 0 THEN r ELSE new[i]
      OBVIOUS
    <3>4. x = st[i + (d + 1)]
      <4>1. CASE i = 0
        BY <4>1, <3>3, <2>3
      <4>2. CASE i # 0
        <5>1. i \in 1..Len(st) - (d + 1)
          BY <4>2, <3>1, <2>3
        <5> QED
          BY <5>1, <4>2, <3>3, <2>3
      <4> QED
        BY <4>1, <4>2
    <3> HIDE DEF G
    <3>5. CASE i + (d + 1) = Len(st) /\ x = At(s + 4)
      <4>1. i = Len(new)
        BY <3>5, <3>1, <2>3
      <4> QED
        BY <4>1, <3>3, <3>5 DEF FrameAt
    <3>6. CASE \E k \in 1..Len(order[s]) :
                 /\ x = Behind(order[s][k])
                 /\ tramp[order[s][k]].kind \in BlreKinds
                 /\ IF tramp[order[s][k]].kind = "t_blre_regs"
                    THEN i + (d + 1) + 2 <= Len(st) /\ st[i + (d + 1) + 2] = Reg
                    ELSE i + (d + 1) + RegsPushed[tramp[order[s][k]].kind] + 2 \in F
      <4>1. PICK k \in 1..Len(order[s]) :
                 /\ x = Behind(order[s][k])
                 /\ tramp[order[s][k]].kind \in BlreKinds
                 /\ IF tramp[order[s][k]].kind = "t_blre_regs"
                    THEN i + (d + 1) + 2 <= Len(st) /\ st[i + (d + 1) + 2] = Reg
                    ELSE i + (d + 1) + RegsPushed[tramp[order[s][k]].kind] + 2 \in F
        BY <3>6
      <4>2. PICK l : l = tramp[order[s][k]].kind
        OBVIOUS
      <4>3. CASE l = "t_blre_regs"
        <5>1. i + 2 \in 1..Len(st) - (d + 1) /\ (i + 2) + (d + 1) = i + (d + 1) + 2
          <6>1. i + (d + 1) + 2 <= Len(st)
            BY <4>1, <4>2, <4>3
          <6> QED
            BY <6>1, <3>1
        <5>2. new[i + 2] = Reg /\ i + 2 <= Len(new)
          <6>1. st[i + (d + 1) + 2] = Reg
            BY <4>1, <4>2, <4>3
          <6>2. new[i + 2] = st[(i + 2) + (d + 1)]
            BY <5>1, <2>3
          <6>3. i + 2 <= Len(new)
            BY <5>1, <2>3
          <6> QED
            BY <6>1, <6>2, <6>3, <5>1
        <5> QED
          BY <5>2, <4>1, <4>2, <4>3, <3>3 DEF FrameAt
      <4>4. CASE l # "t_blre_regs"
        <5>1. PICK Q \in Nat : Q = RegsPushed[l]
          BY <4>1, <4>2, FrameSizes
        <5>2. i + (d + 1) + Q + 2 \in F
          BY <5>1, <4>1, <4>2, <4>4
        <5>3. (i + Q + 2) + (d + 1) \in F /\ i + Q + 2 \in 0..Len(new)
          <6>1. (i + Q + 2) + (d + 1) = i + (d + 1) + Q + 2
            BY <3>1
          <6>2. i + (d + 1) + Q + 2 \in 0..Len(st)
            BY <5>2
          <6>3. (i + Q + 2) + (d + 1) <= Len(st) /\ i + Q + 2 \in Nat
            BY <6>1, <6>2, <3>1
          <6>4. i + Q + 2 <= Len(new)
            BY <6>3, <2>3
          <6>5. i + Q + 2 \in 0..Len(new)
            BY <6>3, <6>4, <2>3
          <6> QED
            BY <6>1, <6>5, <5>2
        <5>4. i + Q + 2 \in G
          BY <5>3 DEF G
        <5>5. i + RegsPushed[tramp[order[s][k]].kind] + 2 \in G
          BY <5>1, <5>4, <4>2
        <5> QED
          BY <5>5, <4>1, <4>2, <4>4, <3>3 DEF FrameAt
      <4> QED
        BY <4>3, <4>4
    <3> QED
      BY <3>1, <3>2, <3>4, <3>5, <3>6 DEF FrameAt
  <2> HIDE DEF G
  <2>6. Unwinds(s, r, new)
    BY Zenon, <2>4, <2>5 DEF Unwinds
  <2> QED
    BY <2>2, <2>3, <2>6, <1>3, <1>4, <1>6
<1> QED
  BY <1>5, <1>6

-----------------------------------------------------------------------------
(* Where the thread can be *)

\* A thread that is not at rest is at the site, at the next trampoline, at the
\* original function, behind the site, at the tail of a trampoline, or lost.
LEMMA Whereabouts ==
  ASSUME NEW c, Thread(c), c.pc # Idle
  PROVE  /\ c \in Cpus /\ c.site \in Sites
         /\ \/ Starting(c) /\ c.pc = At(c.site)
            \/ /\ Descending(c) /\ Len(c.log) < Len(order[c.site])
               /\ c.pc = At(trampoline_find_mapping(c.site,
                              order[c.site][Len(order[c.site]) - Len(c.log)]))
            \/ /\ Descending(c) /\ Len(c.log) = Len(order[c.site])
               /\ Orig[c.site].op # "ins" /\ c.pc = At(OrigTarget(c.site))
            \/ Ascending(c) /\ c.pc = At(c.site + 4) /\ c.stack = << >>
            \/ /\ Ascending(c) /\ mem[c.site].op = "bl"
               /\ \E j \in 1..Len(order[c.site]) : c.pc = Behind(order[c.site][j])
            \/ Lost(c) /\ c.pc = Reg
<1>1. /\ c \in Cpus /\ c.site \in Sites
      /\ Starting(c) \/ Descending(c) \/ Ascending(c) \/ Lost(c)
  BY DEF Thread, Resting
<1>2. c.stack \in Seq(Places)
  BY <1>1 DEF Cpus
<1>3. CASE Starting(c)
  BY <1>1, <1>3 DEF Starting, InitCpu
<1>4. CASE Descending(c)
  BY <1>1, <1>4 DEF Descending, Below
<1>5. CASE Ascending(c)
  <2>1. CASE mem[c.site].op # "bl"
    BY <2>1, <1>1, <1>5 DEF Ascending, Returns
  <2>2. CASE mem[c.site].op = "bl"
    <3>1. Unwinds(c.site, c.pc, c.stack)
      BY <2>2, <1>5 DEF Ascending, Returns
    <3>2. CASE c.pc = At(c.site + 4)
      <4>1. Unwinds(c.site, At(c.site + 4), c.stack)
        BY <3>1, <3>2
      <4>2. c.stack = << >>
        BY <4>1, <1>2, Unwound
      <4> QED
        BY <4>2, <3>2, <1>1, <1>5
    <3>3. CASE c.pc # At(c.site + 4)
      BY <3>1, <3>3, <2>2, <1>1, <1>2, <1>5, ReturnPlace
    <3> QED
      BY <3>2, <3>3
  <2> QED
    BY <2>1, <2>2
<1>6. CASE Lost(c)
  BY <1>1, <1>6 DEF Lost
<1> QED
  BY <1>1, <1>3, <1>4, <1>5, <1>6
-----------------------------------------------------------------------------
(* The log *)

\* A site has finitely many hooks.
LEMMA CountLemma ==
  ASSUME IInv, NEW s \in Sites
  PROVE  order[s] \in Seq(DOMAIN tramp) /\ Len(order[s]) \in Nat
<1>1. order[s] \in Seq(DOMAIN tramp)
  BY DEF Laid, IInv, TypeOK
<1> QED
  BY <1>1

\* What an entry of the log holds.
LEMMA EntryTypes ==
  /\ \A h \in Hooks \cup {"none"} : \A b \in BOOLEAN : HookRan(h, b) \in Entries
  /\ \A a \in Int : InsRan(a) \in Entries
  /\ \A h : HookRan(h, TRUE).hook = h /\ HookRan(h, TRUE).did
  /\ \A h : HookRan(h, FALSE).hook = h /\ ~HookRan(h, FALSE).did
BY DEF HookRan, InsRan, Entries

\* Appending one or two entries.
LEMMA Logged ==
  ASSUME NEW log \in Seq(Entries), NEW e \in Entries
  PROVE  /\ log \o <<e>> \o << >> = Append(log, e)
         /\ \A f \in Entries : log \o <<e>> \o <<f>> = Append(Append(log, e), f)
<1>1. \A l \in Seq(Entries), f \in Entries : l \o <<f>> = Append(l, f) /\ Append(l, f) \in Seq(Entries)
  OBVIOUS
<1>2. \A l \in Seq(Entries) : l \o << >> = l
  BY ConcatEmptySeq
<1> QED
  BY <1>1, <1>2

\* What an appended entry does to a log.
LEMMA LogGrows ==
  ASSUME NEW log \in Seq(Entries), NEW e \in Entries
  PROVE  /\ Append(log, e) \in Seq(Entries)
         /\ Len(Append(log, e)) = Len(log) + 1
         /\ \A i \in 1..Len(log) : Append(log, e)[i] = log[i]
         /\ Append(log, e)[Len(log) + 1] = e
OBVIOUS

\* The hook of the next trampoline has run and goes on.
LEMMA LogHook ==
  ASSUME IInv, NEW s \in Sites, NEW log \in Seq(Entries), Went(s, log),
         Len(log) < Len(order[s]), NEW e \in Entries,
         e = HookRan(tramp[order[s][Len(order[s]) - Len(log)]].words.target, TRUE)
  PROVE  Went(s, Append(log, e))
<1>1. PICK n \in Nat : n = Len(order[s])
  BY CountLemma
<1>2. PICK k \in Nat : k = Len(log)
  OBVIOUS
<1>3. PICK new : new = Append(log, e)
  OBVIOUS
<1>4. /\ new \in Seq(Entries) /\ Len(new) = k + 1 /\ new[k + 1] = e
      /\ \A i \in 1..k : new[i] = log[i]
  BY <1>2, <1>3, LogGrows
<1>5. e = HookRan(Newest(s, k + 1), TRUE)
  <2>1. n + 1 - (k + 1) = n - k
    OBVIOUS
  <2> QED
    BY <2>1, <1>1, <1>2 DEF Newest
<1>6. \A i \in 1..k : log[i] = HookRan(Newest(s, i), TRUE)
  BY <1>2 DEF Went
<1>7. \A i \in 1..k + 1 : i \in 1..k \/ i = k + 1
  OBVIOUS
<1>8. \A i \in 1..k + 1 : new[i] = HookRan(Newest(s, i), TRUE)
  BY <1>4, <1>5, <1>6, <1>7
<1>9. k + 1 <= n
  BY <1>1, <1>2
<1> QED
  BY <1>1, <1>3, <1>4, <1>8, <1>9 DEF Went

\* At the start no hook has run.
LEMMA LogEmpty ==
  ASSUME IInv, NEW s \in Sites
  PROVE  Went(s, << >>)
<1>1. PICK n \in Nat : n = Len(order[s])
  BY CountLemma
<1>2. PICK l : l = << >> /\ Len(l) = 0
  OBVIOUS
<1>3. \A i \in 1..0 : FALSE
  OBVIOUS
<1>4. Went(s, l)
  BY <1>1, <1>2, <1>3 DEF Went
<1> QED
  BY <1>2, <1>4

\* The hook of the next trampoline has run and was the last.
LEMMA LogStop ==
  ASSUME IInv, NEW s \in Sites, NEW log \in Seq(Entries), Went(s, log),
         Len(log) < Len(order[s]), NEW e \in Entries,
         e = HookRan(tramp[order[s][Len(order[s]) - Len(log)]].words.target, FALSE)
  PROVE  Ended(s, Append(log, e))
<1>1. PICK n \in Nat : n = Len(order[s])
  BY CountLemma
<1>2. PICK k \in Nat : k = Len(log)
  OBVIOUS
<1>3. PICK new : new = Append(log, e)
  OBVIOUS
<1>4. /\ new \in Seq(Entries) /\ Len(new) = k + 1 /\ new[k + 1] = e
      /\ \A i \in 1..k : new[i] = log[i]
  BY <1>2, <1>3, LogGrows
<1>5. e = HookRan(Newest(s, k + 1), FALSE)
  <2>1. n + 1 - (k + 1) = n - k
    OBVIOUS
  <2> QED
    BY <2>1, <1>1, <1>2 DEF Newest
<1>6. ASSUME NEW i \in 1..k PROVE new[i].hook = Newest(s, i) /\ new[i].did
  <2>1. new[i] = HookRan(Newest(s, i), TRUE)
    BY <1>2, <1>4 DEF Went
  <2> QED
    BY Zenon, <2>1, EntryTypes
<1>7. new[k + 1].hook = Newest(s, k + 1) /\ ~new[k + 1].did
  BY Zenon, <1>4, <1>5, EntryTypes
<1>8. \A i \in 1..k + 1 : i \in 1..k \/ i = k + 1
  OBVIOUS
<1>9. k + 1 \in 1..n /\ (k + 1) - 1 = k
  BY <1>1, <1>2
<1>10. \A i \in 1..k + 1 : new[i].hook = Newest(s, i)
  BY <1>6, <1>7, <1>8
<1> QED
  BY <1>1, <1>3, <1>4, <1>6, <1>7, <1>9, <1>10 DEF Ended

\* All hooks have run, and then the original instruction.
LEMMA LogOriginal ==
  ASSUME IInv, NEW s \in Sites, NEW log \in Seq(Entries), Went(s, log),
         Len(log) = Len(order[s]), NEW e \in Entries, e = InsRan(Orig[s].arg)
  PROVE  Ended(s, Append(log, e))
<1>1. PICK n \in Nat : n = Len(log)
  OBVIOUS
<1>2. PICK new : new = Append(log, e)
  OBVIOUS
<1>3. /\ new \in Seq(Entries) /\ Len(new) = n + 1 /\ new[n + 1] = e
      /\ \A i \in 1..n : new[i] = log[i]
  BY <1>1, <1>2, LogGrows
<1>4. ASSUME NEW i \in 1..n PROVE new[i].hook = Newest(s, i) /\ new[i].did
  <2>1. new[i] = HookRan(Newest(s, i), TRUE)
    BY <1>1, <1>3 DEF Went
  <2> QED
    BY Zenon, <2>1, EntryTypes
<1>5. \A i \in 1..n + 1 : i <= n => i \in 1..n
  OBVIOUS
<1>6. (n + 1) - 1 = n
  OBVIOUS
<1>7. Len(order[s]) = n
  BY <1>1
<1> QED
  BY <1>2, <1>3, <1>4, <1>5, <1>6, <1>7 DEF Ended

-----------------------------------------------------------------------------
(* The steps of the CPU *)

\* What the j-th trampoline of a site goes on to: the one installed before it, or
\* what the original instruction did.
LEMMA ChainAt ==
  ASSUME IInv, NEW s \in Sites, NEW j \in 1..Len(order[s]), NEW w, NEW kind,
         w = tramp[order[s][j]].words, kind = tramp[order[s][j]].kind
  PROVE  /\ w \in Words /\ kind \in Kinds
         /\ mem[s].op \in {"bl", "b"}
         /\ mem[s].op = "b" => kind = "hookbefore_lr"
         /\ j # 1 => Continuation(w) = JumpTo(trampoline_find_mapping(s, order[s][j - 1]))
         /\ j = 1 /\ Orig[s].op # "ins" =>
              Continuation(w) = JumpTo(OrigTarget(s)) /\ mem[s].op = Orig[s].op
         /\ j = 1 /\ Orig[s].op = "ins" =>
              /\ Continuation(w).ins = Orig[s]
              /\ Continuation(w).to = IF mem[s].op = "b" THEN Addr(s + 4) ELSE BxLr
              /\ kind \notin BlreKinds
<1>1. order[s] \in Seq(DOMAIN tramp) /\ Len(order[s]) \in Nat
  BY CountLemma
<1>2. Len(order[s]) # 0 /\ Len(order[s]) > 0
  BY <1>1
<1>3. w \in Words /\ kind \in Kinds
  BY <1>1 DEF Laid, IInv, TypeOK
<1>4. SiteIntact(s) /\ SiteReturns(s)
  BY DEF Laid, IInv, ChainIntact, ReturnsFit
<1>5. /\ mem[s].op \in {"bl", "b"}
      /\ \A i \in 2..Len(order[s]) : Continuation(tramp[order[s][i]].words)
            = JumpTo(trampoline_find_mapping(s, order[s][i - 1]))
      /\ RunsOriginal(s, tramp[order[s][1]].words)
  BY <1>2, <1>4 DEF SiteIntact
<1>6. mem[s].op = "b" => kind = "hookbefore_lr"
  BY <1>4 DEF SiteReturns
<1>7. j # 1 => j \in 2..Len(order[s])
  BY <1>1
<1>8. j # 1 => Continuation(w) = JumpTo(trampoline_find_mapping(s, order[s][j - 1]))
  BY <1>5, <1>7
<1>9. j = 1 /\ Orig[s].op # "ins" =>
        Continuation(w) = JumpTo(OrigTarget(s)) /\ mem[s].op = Orig[s].op
  BY <1>5 DEF RunsOriginal, OrigTarget
<1>10. ASSUME j = 1, Orig[s].op = "ins"
       PROVE  /\ Continuation(w).ins = Orig[s]
              /\ Continuation(w).to = IF mem[s].op = "b" THEN Addr(s + 4) ELSE BxLr
              /\ kind \notin BlreKinds
  <2>1. Continuation(w).ins = Orig[s]
    BY <1>5, <1>10 DEF RunsOriginal
  <2>2. /\ kind \notin BlreProtos
        /\ w.chain = IF mem[s].op = "b" THEN Addr(s + 4) ELSE BxLr
    BY <1>2, <1>4, <1>10 DEF SiteReturns
  <2>3. Continuation(w).to = w.chain
    BY DEF Continuation
  <2> QED
    BY <2>1, <2>2, <2>3, FrameSizes
<1> QED
  BY <1>3, <1>5, <1>6, <1>8, <1>9, <1>10

\* A thread that is at the start of a trampoline is at the one whose turn it is.
LEMMA Enter ==
  ASSUME IInv, NEW c, Thread(c), c.pc.part = "entry", NEW t \in TrampAt(c.pc.loc)
  PROVE  /\ c \in Cpus /\ c.site \in Sites /\ Descending(c)
         /\ Len(c.log) < Len(order[c.site])
         /\ Len(order[c.site]) - Len(c.log) \in 1..Len(order[c.site])
         /\ t = order[c.site][Len(order[c.site]) - Len(c.log)]
<1>1. /\ c.pc # Idle /\ c.pc # Reg /\ \A a : c.pc # Behind(a)
  BY DEF Idle, Reg, Behind
<1>2. c \in Cpus /\ c.site \in Sites
  BY <1>1, Whereabouts
<1>3. PICK s \in Sites : s = c.site
  BY <1>2
<1>4. \A a : c.pc = At(a) => c.pc.loc = a
  BY DEF At
<1>5. c.pc # At(s) /\ c.pc # At(s + 4)
  <2>1. \A x \in {s, s + 4} : t \notin TrampAt(x)
    BY NoTrampoline
  <2> QED
    BY <2>1, <1>4
<1>6. Orig[s].op # "ins" => c.pc # At(OrigTarget(s))
  <2>1. Orig[s].op # "ins" => OrigTarget(s) \in Callee(s)
    BY SiteTypes
  <2>2. \A x \in Callee(s) : t \notin TrampAt(x)
    BY NoTrampoline
  <2> QED
    BY <2>1, <2>2, <1>4
<1>7. /\ Descending(c) /\ Len(c.log) < Len(order[s])
      /\ c.pc = At(trampoline_find_mapping(s, order[s][Len(order[s]) - Len(c.log)]))
  BY <1>1, <1>3, <1>5, <1>6, Whereabouts
<1>8. PICK n \in Nat, k \in Nat : n = Len(order[s]) /\ k = Len(c.log)
  BY <1>2, CountLemma DEF Cpus
<1>9. n - k \in 1..n
  <2>1. k < n
    BY <1>7, <1>8
  <2> QED
    BY <2>1
<1>10. t \in TrampAt(trampoline_find_mapping(s, order[s][n - k]))
  BY <1>4, <1>7, <1>8
<1>11. t = order[s][n - k]
  BY <1>8, <1>9, <1>10, OneTrampoline
<1> QED
  BY <1>2, <1>3, <1>7, <1>8, <1>9, <1>11

\* the parts of a thread's state
LEMMA CpuParts ==
  ASSUME NEW c \in Cpus
  PROVE  /\ c.pc \in Places /\ c.lr \in Places /\ c.stack \in Seq(Places)
         /\ c.log \in Seq(Entries) /\ c.site \in Int
BY DEF Cpus

Cpu(p, r, st, log, s) == [pc |-> p, lr |-> r, stack |-> st, log |-> log, site |-> s]

\* The state that a step leaves.
LEMMA CpuSet ==
  ASSUME NEW p \in Places, NEW r \in Places, NEW st \in Seq(Places),
         NEW log \in Seq(Entries), NEW s \in Int, NEW d, d = Cpu(p, r, st, log, s)
  PROVE  /\ d \in Cpus
         /\ d.pc = p /\ d.lr = r /\ d.stack = st /\ d.log = log /\ d.site = s
BY DEF Cpu, Cpus

\* where a trampoline that does not replace a call goes, and what it did
HookTo(w, r) ==
  IF Continuation(w).to = BxLr THEN r ELSE At(Continuation(w).to.arg)

HookDid(w, skip) == ~(skip /\ Continuation(w).ins # Nop)

HookLog(w, skip, log) ==
  log \o <<HookRan(w.target, HookDid(w, skip))>>
      \o IF Continuation(w).ins = Nop \/ skip THEN << >>
         ELSE <<InsRan(Continuation(w).ins.arg)>>

\* A hook that goes on to a jump.
LEMMA HookJump ==
  ASSUME NEW w \in Words, NEW skip \in BOOLEAN, NEW a \in Int, Continuation(w) = JumpTo(a),
         NEW r, NEW log \in Seq(Entries)
  PROVE  /\ HookTo(w, r) = At(a)
         /\ HookRan(w.target, TRUE) \in Entries
         /\ HookLog(w, skip, log) = Append(log, HookRan(w.target, TRUE))
<1>1. PICK x : x = Continuation(w)
  OBVIOUS
<1>2. x.ins = Nop /\ x.to = Addr(a)
  BY <1>1 DEF JumpTo
<1>3. Addr(a) # BxLr /\ Addr(a).arg = a
  BY DEF Addr, BxLr, Word
<1>4. HookTo(w, r) = At(a)
  BY <1>1, <1>2, <1>3 DEF HookTo
<1>5. HookDid(w, skip) = TRUE
  BY <1>1, <1>2 DEF HookDid
<1>6. PICK e : e = HookRan(w.target, TRUE)
  OBVIOUS
<1>7. e \in Entries
  <2>1. w.target \in Hooks \cup {"none"}
    BY DEF Words
  <2> QED
    BY <2>1, <1>6, EntryTypes
<1>8. HookLog(w, skip, log) = log \o <<e>> \o << >>
  BY <1>1, <1>2, <1>5, <1>6 DEF HookLog
<1>9. HookLog(w, skip, log) = Append(log, e)
  BY <1>7, <1>8, Logged
<1> QED
  BY <1>4, <1>6, <1>7, <1>9

\* One that goes over a relocated instruction, or skips it.
LEMMA HookIns ==
  ASSUME NEW w \in Words, NEW skip \in BOOLEAN, NEW i \in Instr, Continuation(w).ins = i,
         NEW log \in Seq(Entries)
  PROVE  /\ HookRan(w.target, ~skip) \in Entries /\ InsRan(i.arg) \in Entries
         /\ HookLog(w, skip, log) =
              IF skip THEN Append(log, HookRan(w.target, FALSE))
              ELSE Append(Append(log, HookRan(w.target, TRUE)), InsRan(i.arg))
<1>1. PICK x : x = Continuation(w)
  OBVIOUS
<1>2. x.ins = i /\ i # Nop /\ i.arg \in Int
  BY <1>1 DEF Instr, Nop, Word
<1>3. \A b \in BOOLEAN : HookRan(w.target, b) \in Entries
  <2>1. w.target \in Hooks \cup {"none"}
    BY DEF Words
  <2> QED
    BY <2>1, EntryTypes
<1>4. PICK f \in Entries : f = InsRan(i.arg)
  BY <1>2, EntryTypes
<1>5. CASE skip
  <2>1. PICK e \in Entries : e = HookRan(w.target, FALSE)
    BY <1>3
  <2>2. HookDid(w, skip) = FALSE
    BY <1>1, <1>2, <1>5 DEF HookDid
  <2>3. HookLog(w, skip, log) = log \o <<e>> \o << >>
    BY <2>1, <2>2, <1>5 DEF HookLog
  <2>4. HookLog(w, skip, log) = Append(log, e)
    BY <2>3, Logged
  <2> QED
    BY <2>1, <2>4, <1>3, <1>4, <1>5
<1>6. CASE ~skip
  <2>1. PICK e \in Entries : e = HookRan(w.target, TRUE)
    BY <1>3
  <2>2. HookDid(w, skip) = TRUE
    BY <1>6 DEF HookDid
  <2>3. HookLog(w, skip, log) = log \o <<e>> \o <<f>>
    BY <2>1, <2>2, <1>1, <1>2, <1>4, <1>6 DEF HookLog
  <2>4. HookLog(w, skip, log) = Append(Append(log, e), f)
    BY <2>3, Logged
  <2> QED
    BY <2>1, <2>4, <1>3, <1>4, <1>6
<1> QED
  BY <1>5, <1>6

\* It is the turn of the j-th trampoline of the site.
Turn(c, j) ==
  /\ Descending(c)
  /\ j \in 1..Len(order[c.site])
  /\ j = Len(order[c.site]) - Len(c.log)

\* its position and the entry it will leave in the log
LEMMA TurnLemma ==
  ASSUME IInv, NEW c \in Cpus, c.site \in Sites, NEW j, Turn(c, j)
  PROVE  /\ j \in 1..Len(order[c.site]) /\ Len(c.log) < Len(order[c.site])
         /\ j = Len(order[c.site]) - Len(c.log)
         /\ j - 1 = Len(order[c.site]) - (Len(c.log) + 1)
         /\ Len(order[c.site]) \in Nat /\ Len(c.log) \in Nat
<1>1. PICK n \in Nat : n = Len(order[c.site])
  BY CountLemma
<1>2. PICK k \in Nat : k = Len(c.log)
  <2>1. c.log \in Seq(Entries)
    BY CpuParts
  <2> QED
    BY <2>1
<1>3. j \in 1..n /\ j = n - k
  BY <1>1, <1>2 DEF Turn
<1>4. k < n /\ j - 1 = n - (k + 1)
  BY <1>3
<1> QED
  BY <1>1, <1>2, <1>3, <1>4

\* A hook that does not replace the call has run, and the trampoline goes on to the
\* next one or to the original function.
LEMMA AfterHookJump ==
  ASSUME IInv, NEW c \in Cpus, c.site \in Sites, NEW j, Turn(c, j),
         NEW w \in Words, w = tramp[order[c.site][j]].words,
         NEW a \in Int, a = IF j = 1 THEN OrigTarget(c.site)
                            ELSE trampoline_find_mapping(c.site, order[c.site][j - 1]),
         j = 1 => Orig[c.site].op # "ins",
         NEW d \in Cpus, d.site = c.site, d.pc = At(a),
         d.log = Append(c.log, HookRan(w.target, TRUE)), Returns(d, d.lr)
  PROVE  Thread(d)
<1>1. PICK s \in Sites : s = c.site
  OBVIOUS
<1>2. PICK n \in Nat, k \in Nat : n = Len(order[s]) /\ k = Len(c.log)
  BY <1>1, TurnLemma
<1>3. /\ j \in 1..n /\ j = n - k /\ j - 1 = n - (k + 1) /\ k < n
  BY <1>1, <1>2, TurnLemma
<1>4. PICK e : e = HookRan(w.target, TRUE)
  OBVIOUS
<1>5. e \in Entries
  <2>1. w.target \in Hooks \cup {"none"}
    BY DEF Words
  <2> QED
    BY <2>1, <1>4, EntryTypes
<1>6. c.log \in Seq(Entries)
  BY CpuParts
<1>7. Len(d.log) = k + 1
  BY <1>2, <1>4, <1>5, <1>6, LogGrows
<1>8. Went(s, d.log)
  <2>1. e = HookRan(tramp[order[s][Len(order[s]) - Len(c.log)]].words.target, TRUE)
    BY <1>1, <1>2, <1>3, <1>4
  <2>2. Len(c.log) < Len(order[s])
    BY <1>2, <1>3
  <2>3. Went(s, c.log)
    BY <1>1 DEF Turn, Descending
  <2>4. Went(s, Append(c.log, e))
    BY <2>1, <2>2, <2>3, <1>5, <1>6, LogHook
  <2> QED
    BY <2>4, <1>4
<1>9. Below(d)
  <2>1. CASE j = 1
    <3>1. k + 1 = n
      BY <2>1, <1>3
    <3>2. /\ Len(d.log) = n /\ Len(order[d.site]) = n
          /\ Orig[d.site].op # "ins" /\ d.pc = At(OrigTarget(d.site))
      BY <3>1, <2>1, <1>1, <1>2, <1>7
    <3> QED
      BY <3>2 DEF Below
  <2>2. CASE j # 1
    <3>1. k + 1 < n
      BY <2>2, <1>3
    <3>2. /\ Len(d.log) = k + 1 /\ Len(order[d.site]) = n
          /\ d.pc = At(trampoline_find_mapping(d.site, order[d.site][n - (k + 1)]))
      BY <2>2, <1>1, <1>2, <1>3, <1>7
    <3> QED
      BY <3>1, <3>2 DEF Below
  <2> QED
    BY <2>1, <2>2
<1> QED
  BY <1>1, <1>8, <1>9 DEF Thread, Descending

\* Or it goes over the relocated instruction to the code behind the site.
\* skip: the hook of hook_before_v2 said so.
LEMMA AfterHookIns ==
  ASSUME IInv, NEW c \in Cpus, c.site \in Sites, NEW j, Turn(c, j), j = 1,
         Orig[c.site].op = "ins",
         NEW w \in Words, w = tramp[order[c.site][j]].words, Continuation(w).ins = Orig[c.site],
         NEW skip \in BOOLEAN, NEW log, log = HookLog(w, skip, c.log)
  PROVE  log \in Seq(Entries) /\ Ended(c.site, log)
<1>1. PICK s \in Sites : s = c.site
  OBVIOUS
<1>2. PICK n \in Nat, k \in Nat : n = Len(order[s]) /\ k = Len(c.log)
  BY <1>1, TurnLemma
<1>3. k < n /\ j = n - k
  BY <1>1, <1>2, TurnLemma
<1>4. c.log \in Seq(Entries) /\ Orig[s] \in Instr /\ Went(s, c.log)
  BY <1>1, CpuParts, SiteTypes DEF Turn, Descending
<1>5. Len(c.log) < Len(order[s]) /\ Len(order[s]) - Len(c.log) = j
  BY <1>2, <1>3
<1>6. CASE skip
  <2>1. PICK e : e = HookRan(w.target, FALSE)
    OBVIOUS
  <2>2. e \in Entries /\ log = Append(c.log, e)
    BY <2>1, <1>1, <1>4, <1>6, HookIns
  <2>3. e = HookRan(tramp[order[s][Len(order[s]) - Len(c.log)]].words.target, FALSE)
    BY <2>1, <1>1, <1>5
  <2>4. Ended(s, log)
    BY <2>2, <2>3, <1>4, <1>5, LogStop
  <2> QED
    BY <2>2, <2>4, <1>1, <1>4, LogGrows
<1>7. CASE ~skip
  <2>1. PICK e, f, l : e = HookRan(w.target, TRUE) /\ f = InsRan(Orig[s].arg)
                         /\ l = Append(c.log, e)
    OBVIOUS
  <2>2. e \in Entries /\ f \in Entries /\ log = Append(l, f)
    BY <2>1, <1>1, <1>4, <1>7, HookIns
  <2>3. e = HookRan(tramp[order[s][Len(order[s]) - Len(c.log)]].words.target, TRUE)
    BY <2>1, <1>1, <1>5
  <2>4. l \in Seq(Entries) /\ Len(l) = k + 1
    BY <2>1, <2>2, <1>2, <1>4, LogGrows
  <2>5. Went(s, l)
    BY <2>1, <2>2, <2>3, <1>4, <1>5, LogHook
  <2>6. Len(l) = Len(order[s])
    <3>1. k + 1 = n
      BY <1>3
    <3> QED
      BY <3>1, <2>4, <1>2
  <2>7. Ended(s, log)
    BY <2>1, <2>2, <2>4, <2>5, <2>6, LogOriginal
  <2> QED
    BY <2>2, <2>4, <2>7, <1>1, LogGrows
<1> QED
  BY <1>6, <1>7

\* Whatever the hook and the trampoline, the thread is where it should be.
LEMMA AfterHook ==
  ASSUME IInv, NEW c \in Cpus, c.site \in Sites, NEW j, Turn(c, j),
         NEW w, w = tramp[order[c.site][j]].words, NEW skip \in BOOLEAN,
         NEW p, p = HookTo(w, c.lr), NEW log, log = HookLog(w, skip, c.log),
         NEW d, d = Cpu(p, c.lr, c.stack, log, c.site)
  PROVE  Thread(d)
<1>1. PICK s \in Sites : s = c.site
  OBVIOUS
<1>2. j \in 1..Len(order[s])
  BY <1>1 DEF Turn
<1>3. PICK kind : kind = tramp[order[s][j]].kind
  OBVIOUS
<1>4. /\ w \in Words
      /\ mem[s].op \in {"bl", "b"}
      /\ j # 1 => Continuation(w) = JumpTo(trampoline_find_mapping(s, order[s][j - 1]))
      /\ j = 1 /\ Orig[s].op # "ins" => Continuation(w) = JumpTo(OrigTarget(s))
      /\ j = 1 /\ Orig[s].op = "ins" =>
           /\ Continuation(w).ins = Orig[s]
           /\ Continuation(w).to = IF mem[s].op = "b" THEN Addr(s + 4) ELSE BxLr
  <2>1. w = tramp[order[s][j]].words
    BY <1>1
  <2> QED
    BY SMTT(60), <2>1, <1>2, <1>3, ChainAt
<1>5. c.lr \in Places /\ c.stack \in Seq(Places) /\ c.log \in Seq(Entries)
  BY CpuParts
<1>6. Returns(c, c.lr)
  BY DEF Turn, Descending
<1>7. ASSUME p \in Places, log \in Seq(Entries)
      PROVE  /\ d \in Cpus /\ d.pc = p /\ d.lr = c.lr /\ d.stack = c.stack
             /\ d.log = log /\ d.site = s /\ Returns(d, c.lr)
  <2>1. c.site \in Int
    BY CpuParts
  <2>2. /\ d \in Cpus /\ d.pc = p /\ d.lr = c.lr /\ d.stack = c.stack
        /\ d.log = log /\ d.site = c.site
    BY <2>1, <1>5, <1>7 DEF Cpu, Cpus
  <2> QED
    BY <2>2, <1>1, <1>6 DEF Returns
<1>8. CASE j # 1 \/ Orig[s].op # "ins"
  <2>1. PICK a : a = IF j = 1 THEN OrigTarget(s)
                     ELSE trampoline_find_mapping(s, order[s][j - 1])
    OBVIOUS
  <2>2. a \in Int
    <3>1. CASE j = 1
      BY <3>1, <2>1, SiteTypes
    <3>2. CASE j # 1
      <4>1. j - 1 \in 1..Len(order[s])
        BY <3>2, <1>2, CountLemma
      <4> QED
        BY <4>1, <3>2, <2>1, OneTrampoline
    <3> QED
      BY <3>1, <3>2
  <2>3. Continuation(w) = JumpTo(a)
    BY <2>1, <1>4, <1>8
  <2>4. PICK e \in Entries : e = HookRan(w.target, TRUE) /\ log = Append(c.log, e)
    BY <2>2, <2>3, <1>4, <1>5, HookJump
  <2>5. p = At(a)
    BY <2>2, <2>3, <1>4, <1>5, HookJump
  <2>6. p \in Places /\ log \in Seq(Entries)
    BY <2>2, <2>4, <2>5, <1>5, PlaceTypes, LogGrows
  <2>7. /\ d \in Cpus /\ d.pc = At(a) /\ d.site = c.site
        /\ d.log = Append(c.log, HookRan(w.target, TRUE)) /\ Returns(d, d.lr)
    BY <2>4, <2>5, <2>6, <1>1, <1>7
  <2>8. /\ a = IF j = 1 THEN OrigTarget(c.site)
               ELSE trampoline_find_mapping(c.site, order[c.site][j - 1])
        /\ j = 1 => Orig[c.site].op # "ins"
    BY <2>1, <1>1, <1>8
  <2>9. w \in Words
    BY <1>4
  <2> QED
    BY ZenonT(60), <2>2, <2>7, <2>8, <2>9, AfterHookJump
<1>9. CASE j = 1 /\ Orig[s].op = "ins"
  <2>1. p = (IF mem[s].op = "b" THEN At(s + 4) ELSE c.lr) /\ p \in Places
    <3>1. Addr(s + 4) # BxLr /\ Addr(s + 4).arg = s + 4
      BY DEF Addr, BxLr, Word
    <3>2. At(s + 4) \in Places
      BY SiteTypes, PlaceTypes
    <3> QED
      BY <3>1, <3>2, <1>4, <1>5, <1>9 DEF HookTo
  <2>2. log \in Seq(Entries) /\ Ended(s, log)
    BY <1>1, <1>4, <1>9, AfterHookIns
  <2>3. /\ d \in Cpus /\ d.pc = p /\ d.lr = c.lr /\ d.stack = c.stack
        /\ d.log = log /\ d.site = s /\ Returns(d, c.lr)
    BY <2>1, <2>2, <1>7
  <2>4. CASE mem[s].op = "b"
    <3>1. d.stack = << >> /\ d.lr = Reg /\ d.pc = At(s + 4)
      BY <2>1, <2>3, <2>4 DEF Returns
    <3>2. Ascending(d)
      BY <3>1, <2>2, <2>3, <2>4 DEF Ascending, Returns
    <3> QED
      BY <3>2, <2>3 DEF Thread
  <2>5. CASE mem[s].op = "bl"
    <3>1. d.pc = c.lr
      BY <2>1, <2>3, <2>5
    <3>2. Ascending(d)
      BY <3>1, <2>2, <2>3, <2>5 DEF Ascending
    <3> QED
      BY <3>2, <2>3 DEF Thread
  <2> QED
    BY <2>4, <2>5, <1>4
<1> QED
  BY <1>8, <1>9

\* A trampoline that replaces a call finds what the call led to in its chain word.
LEMMA BlreChain ==
  ASSUME IInv, NEW s \in Sites, NEW j \in 1..Len(order[s]), NEW w, NEW kind,
         w = tramp[order[s][j]].words, kind = tramp[order[s][j]].kind, kind \in BlreKinds
  PROVE  /\ w \in Words /\ mem[s].op = "bl"
         /\ j = 1 => Orig[s].op # "ins"
         /\ w.chain.arg \in Int
         /\ w.chain.arg = IF j = 1 THEN OrigTarget(s)
                          ELSE trampoline_find_mapping(s, order[s][j - 1])
<1>1. kind # "hookbefore_lr"
  BY FrameSizes DEF BlreProtos
<1>2. /\ w \in Words /\ mem[s].op = "bl"
      /\ j # 1 => Continuation(w) = JumpTo(trampoline_find_mapping(s, order[s][j - 1]))
      /\ j = 1 => Orig[s].op # "ins"
      /\ j = 1 => Continuation(w) = JumpTo(OrigTarget(s))
  BY <1>1, ChainAt
<1>3. \A a : Continuation(w) = JumpTo(a) => w.chain = Addr(a)
  BY DEF Continuation, JumpTo
<1>4. \A a : Addr(a).arg = a
  BY DEF Addr, Word
<1>5. \A a : Continuation(w) = JumpTo(a) => w.chain.arg = a
  BY <1>3, <1>4
<1>6. w.chain.arg \in Int
  BY <1>2 DEF Words, CodeWord
<1> QED
  BY <1>2, <1>5, <1>6

\* The hook of trampoline t, which replaces a call, is given what the trampoline
\* pushed, and calls the replaced function or returns.
BlreStep(c, t, calls, d) ==
  LET org == At(tramp[t].words.chain.arg) IN
  d = Cpu(IF calls THEN org ELSE Behind(t), Behind(t),
          Frame(RegsPushed[tramp[t].kind], org, c.lr, c.stack),
          Append(c.log, HookRan(tramp[t].words.target, calls)), c.site)

BlreDone(c, w, a, t, calls, d) ==
  /\ d \in Cpus /\ d.site = c.site /\ d.lr = Behind(t)
  /\ d.pc = IF calls THEN At(a) ELSE Behind(t)
  /\ Unwinds(c.site, Behind(t), d.stack)
  /\ HookRan(w.target, calls) \in Entries
  /\ d.log = Append(c.log, HookRan(w.target, calls))

\* What that does to the parts of the thread's state.
LEMMA BlreParts ==
  ASSUME IInv, NEW c \in Cpus, NEW s \in Sites, s = c.site,
         NEW j \in 1..Len(order[s]), NEW t, t = order[s][j], tramp[t].kind \in BlreKinds,
         NEW w \in Words, w = tramp[t].words, NEW a \in Int, w.chain.arg = a,
         Unwinds(s, c.lr, c.stack), NEW calls \in BOOLEAN, NEW d, BlreStep(c, t, calls, d)
  PROVE  BlreDone(c, w, a, t, calls, d)
<1>1. c.lr \in Places /\ c.stack \in Seq(Places) /\ c.log \in Seq(Entries) /\ c.site \in Int
  BY CpuParts
<1>2. At(a) \in Places /\ Behind(t) \in Places
  <2>1. t \in Int
    BY OneTrampoline
  <2> QED
    BY <2>1, PlaceTypes
<1>3. PICK st : st = Frame(RegsPushed[tramp[order[s][j]].kind], At(a), c.lr, c.stack)
  OBVIOUS
<1>4. st \in Seq(Places) /\ Unwinds(s, Behind(order[s][j]), st)
  BY <1>1, <1>2, <1>3, UnwindsPush
<1>5. PICK e : e = HookRan(w.target, calls)
  OBVIOUS
<1>6. e \in Entries
  <2>1. w.target \in Hooks \cup {"none"}
    BY DEF Words
  <2> QED
    BY <2>1, <1>5, EntryTypes
<1>7. PICK log : log = Append(c.log, e)
  OBVIOUS
<1>8. log \in Seq(Entries)
  BY <1>1, <1>6, <1>7, LogGrows
<1>9. PICK p : p = IF calls THEN At(a) ELSE Behind(t)
  OBVIOUS
<1>10. p \in Places
  BY <1>2, <1>9
<1>11. d = Cpu(p, Behind(t), st, log, c.site)
  BY <1>3, <1>5, <1>7, <1>9 DEF BlreStep
<1>12. /\ d \in Cpus /\ d.pc = p /\ d.lr = Behind(t) /\ d.stack = st
       /\ d.log = log /\ d.site = c.site
  BY <1>1, <1>2, <1>4, <1>8, <1>10, <1>11 DEF Cpu, Cpus
<1> QED
  BY <1>4, <1>5, <1>6, <1>7, <1>9, <1>12 DEF BlreDone

\* It leaves the thread where it should be.
LEMMA AfterBlre ==
  ASSUME IInv, NEW c \in Cpus, c.site \in Sites, NEW j, Turn(c, j),
         NEW t, t = order[c.site][j], tramp[t].kind \in BlreKinds,
         NEW calls \in BOOLEAN, NEW d, BlreStep(c, t, calls, d)
  PROVE  Thread(d)
<1>1. PICK s \in Sites : s = c.site
  OBVIOUS
<1>2. j \in 1..Len(order[s])
  BY <1>1 DEF Turn
<1>3. PICK w, a : w = tramp[t].words /\ a = w.chain.arg
  OBVIOUS
<1>4. /\ w \in Words /\ mem[s].op = "bl" /\ (j = 1 => Orig[s].op # "ins") /\ a \in Int
      /\ a = IF j = 1 THEN OrigTarget(s) ELSE trampoline_find_mapping(s, order[s][j - 1])
  <2>1. PICK kind : kind = tramp[order[s][j]].kind
    OBVIOUS
  <2>2. w = tramp[order[s][j]].words /\ kind \in BlreKinds
    BY <2>1, <1>1, <1>3
  <2>3. /\ w \in Words /\ mem[s].op = "bl" /\ (j = 1 => Orig[s].op # "ins")
        /\ w.chain.arg \in Int
        /\ w.chain.arg = IF j = 1 THEN OrigTarget(s)
                         ELSE trampoline_find_mapping(s, order[s][j - 1])
    BY <2>1, <2>2, <1>2, BlreChain
  <2> QED
    BY <2>3, <1>3
<1>5. Went(s, c.log) /\ Returns(c, c.lr)
  BY <1>1 DEF Turn, Descending
<1>6. Unwinds(s, c.lr, c.stack)
  BY <1>1, <1>4, <1>5 DEF Returns
<1>7. /\ d \in Cpus /\ d.site = s /\ d.lr = Behind(t)
      /\ d.pc = IF calls THEN At(a) ELSE Behind(t)
      /\ Unwinds(s, Behind(t), d.stack)
      /\ HookRan(w.target, calls) \in Entries
      /\ d.log = Append(c.log, HookRan(w.target, calls))
  <2>1. s = c.site /\ t = order[s][j] /\ w = tramp[t].words /\ w.chain.arg = a
    BY <1>1, <1>3
  <2>2. a \in Int /\ w \in Words /\ Unwinds(s, c.lr, c.stack)
    BY <1>4, <1>6
  <2>3. BlreDone(c, w, a, t, calls, d)
    BY <2>1, <2>2, <1>2, BlreParts
  <2> QED
    BY <2>1, <2>3 DEF BlreDone
<1>8. Returns(d, Behind(t))
  BY <1>4, <1>7 DEF Returns
<1>9. CASE calls
  <2>1. d.pc = At(a) /\ d.log = Append(c.log, HookRan(w.target, TRUE)) /\ Returns(d, d.lr)
    BY <1>7, <1>8, <1>9
  <2>2. a = IF j = 1 THEN OrigTarget(c.site)
            ELSE trampoline_find_mapping(c.site, order[c.site][j - 1])
    BY <1>1, <1>4
  <2> QED
    BY <2>1, <2>2, <1>1, <1>3, <1>4, <1>7, AfterHookJump
<1>10. CASE ~calls
  <2>1. PICK e \in Entries : e = HookRan(w.target, FALSE)
    BY <1>7, <1>10
  <2>2. d.log = Append(c.log, e)
    BY <2>1, <1>7, <1>10
  <2>3. Len(order[s]) - Len(c.log) = j /\ Len(c.log) < Len(order[s])
    BY <1>1, TurnLemma
  <2>4. e = HookRan(tramp[order[s][Len(order[s]) - Len(c.log)]].words.target, FALSE)
    BY <2>1, <2>3, <1>1, <1>3
  <2>5. c.log \in Seq(Entries)
    BY CpuParts
  <2>6. Ended(s, d.log)
    BY <2>2, <2>3, <2>4, <2>5, <1>5, LogStop
  <2>7. Ascending(d)
    BY <2>6, <1>4, <1>7, <1>8, <1>10 DEF Ascending
  <2> QED
    BY <2>7, <1>7 DEF Thread
<1> QED
  BY <1>9, <1>10

\* The tail of its trampoline returns to where it was called from.
LEMMA AfterTail ==
  ASSUME IInv, NEW c, Thread(c), NEW t, c.pc = Behind(t), NEW rest,
         rest = Drop(c.stack, TailDrop[tramp[t].kind]),
         NEW d, d = Cpu(Head(rest), c.lr, Tail(rest), c.log, c.site)
  PROVE  c \in Cpus /\ Thread(d)
<1>1. c.pc # Idle /\ c.pc # Reg /\ \A a : c.pc # At(a)
  BY PlaceLemma
<1>2. c \in Cpus /\ c.site \in Sites /\ Ascending(c) /\ mem[c.site].op = "bl"
  BY <1>1, Whereabouts
<1>3. PICK s \in Sites : s = c.site
  BY <1>2
<1>4. c.lr \in Places /\ c.stack \in Seq(Places) /\ c.log \in Seq(Entries) /\ c.site \in Int
  BY <1>2, CpuParts
<1>5. Unwinds(s, Behind(t), c.stack) /\ Ended(s, c.log)
  BY <1>2, <1>3 DEF Ascending, Returns
<1>6. PICK kind, r, new : kind = tramp[t].kind /\ r = Head(rest) /\ new = Tail(rest)
  OBVIOUS
<1>7. rest = Drop(c.stack, TailDrop[kind])
  BY <1>6
<1>8. /\ \E j \in 1..Len(order[s]) : t = order[s][j]
      /\ r \in Places /\ new \in Seq(Places)
      /\ IF kind = "t_blre_regs" THEN r = Reg ELSE Unwinds(s, r, new)
  BY <1>4, <1>5, <1>6, <1>7, UnwindsPop
<1>9. /\ d \in Cpus /\ d.pc = r /\ d.lr = c.lr /\ d.stack = new
      /\ d.log = c.log /\ d.site = c.site
  BY <1>4, <1>6, <1>8 DEF Cpu, Cpus
<1>10. CASE kind = "t_blre_regs"
  <2>1. order[s] \in Seq(DOMAIN tramp)
    BY CountLemma
  <2>2. DOMAIN order[s] = 1..Len(order[s])
    BY <2>1
  <2>3. ThumbRegs(s)
    BY <2>2, <1>6, <1>8, <1>10 DEF ThumbRegs
  <2> QED
    BY <2>3, <1>2, <1>3, <1>8, <1>9, <1>10 DEF Thread, Lost
<1>11. CASE kind # "t_blre_regs"
  <2>1. Ascending(d)
    BY <1>2, <1>3, <1>5, <1>8, <1>9, <1>11 DEF Ascending, Returns
  <2> QED
    BY <2>1, <1>2, <1>3, <1>9 DEF Thread
<1> QED
  BY <1>2, <1>10, <1>11

\* The site, the code behind it, the original function and the trampolines are
\* different places, so the place tells how far the thread is.
LEMMA Position ==
  ASSUME IInv, NEW c, Thread(c), c.pc # Idle, NEW s, s = c.site
  PROVE  /\ c \in Cpus /\ s \in Sites
         /\ c.pc = At(s) => Starting(c)
         /\ Orig[s].op # "ins" /\ c.pc = At(OrigTarget(s)) =>
              Descending(c) /\ Len(c.log) = Len(order[s])
         /\ c.pc = At(s + 4) => Ascending(c) /\ c.stack = << >>
<1>1. c \in Cpus /\ s \in Sites
  BY Whereabouts
<1>2. s \in Int /\ s # s + 4
  <2>1. s \in Int
    BY <1>1, SiteTypes
  <2> QED
    BY <2>1
<1>3. Orig[s].op # "ins" => OrigTarget(s) \in Callee(s) /\ OrigTarget(s) \notin {s, s + 4}
  BY <1>1, SiteTypes, ApartAssumption
<1>4. ASSUME NEW j \in 1..Len(order[s])
      PROVE  trampoline_find_mapping(s, order[s][j]) \notin {s, s + 4} \cup Callee(s)
  <2>1. order[s][j] \in TrampAt(trampoline_find_mapping(s, order[s][j]))
    BY <1>1, OneTrampoline
  <2> QED
    BY <2>1, <1>1, NoTrampoline
<1>5. PICK n \in Nat, k \in Nat : n = Len(order[s]) /\ k = Len(c.log)
  <2>1. c.log \in Seq(Entries)
    BY <1>1, CpuParts
  <2> QED
    BY <2>1, <1>1, CountLemma
<1>6. PICK f : f = trampoline_find_mapping(s, order[s][n - k])
  OBVIOUS
<1>7. k < n => f # s /\ f # s + 4 /\ (Orig[s].op # "ins" => f # OrigTarget(s))
  <2>1. k < n => n - k \in 1..n
    OBVIOUS
  <2> QED
    BY <2>1, <1>3, <1>4, <1>5, <1>6
<1>8. \/ Starting(c) /\ c.pc = At(s)
      \/ Descending(c) /\ k < n /\ c.pc = At(f)
      \/ Descending(c) /\ k = n /\ Orig[s].op # "ins" /\ c.pc = At(OrigTarget(s))
      \/ Ascending(c) /\ c.pc = At(s + 4) /\ c.stack = << >>
      \/ \E j \in 1..Len(order[s]) : c.pc = Behind(order[s][j])
      \/ c.pc = Reg
  BY <1>5, <1>6, Whereabouts
<1> QED
  BY <1>1, <1>2, <1>3, <1>5, <1>7, <1>8, PlaceLemma

\* The site branches to the newest trampoline, or still to the original function.
LEMMA AfterBranch ==
  ASSUME IInv, NEW s \in Sites, mem[s].op # "ins",
         NEW r, r = IF mem[s].op = "bl" THEN At(s + 4) ELSE Reg,
         NEW d, d = Cpu(At(Target(s)), r, << >>, << >>, s)
  PROVE  Thread(d)
<1>1. PICK n \in Nat : n = Len(order[s])
  BY CountLemma
<1>2. SiteIntact(s)
  BY DEF Laid, IInv, ChainIntact
<1>3. PICK a : a = Target(s)
  OBVIOUS
<1>4. CASE n = 0
  <2>1. mem[s] = Orig[s]
    BY <1>1, <1>2, <1>4 DEF SiteIntact
  <2> QED
    <3>1. a = OrigTarget(s) /\ Orig[s].op # "ins"
      BY <2>1, <1>3 DEF Target, OrigTarget
    <3>2. a \in Int
      BY <3>1, SiteTypes
    <3>3. r \in Places /\ At(a) \in Places /\ s \in Int
      BY <3>2, SiteTypes, PlaceTypes
    <3>4. << >> \in Seq(Places) /\ << >> \in Seq(Entries) /\ Len(<< >>) = 0
      OBVIOUS
    <3>5. /\ d \in Cpus /\ d.pc = At(a) /\ d.lr = r /\ d.stack = << >>
          /\ d.log = << >> /\ d.site = s
      BY <3>3, <3>4, <1>3 DEF Cpu, Cpus
    <3>6. Went(s, << >>)
      BY LogEmpty
    <3>7. Below(d)
      <4>1. Orig[d.site].op # "ins" /\ d.pc = At(OrigTarget(d.site))
        BY <3>1, <3>5
      <4>2. Len(d.log) = n
        BY <3>4, <3>5, <1>4
      <4>3. Len(order[d.site]) = n
        BY <3>5, <1>1
      <4> QED
        BY <4>1, <4>2, <4>3 DEF Below
    <3>8. Returns(d, r)
      BY <3>5, UnwindsNone DEF Returns
    <3> QED
      BY <3>5, <3>6, <3>7, <3>8 DEF Thread, Descending
<1>5. CASE n # 0
  <2>1. a = trampoline_find_mapping(s, order[s][n])
    BY <1>1, <1>2, <1>3, <1>5 DEF SiteIntact
  <2>2. n \in 1..n
    BY <1>5
  <2>3. a \in Int
    BY <2>1, <2>2, <1>1, OneTrampoline
  <2>4. r \in Places /\ At(a) \in Places /\ s \in Int
    BY <2>3, SiteTypes, PlaceTypes
  <2>5. << >> \in Seq(Places) /\ << >> \in Seq(Entries) /\ Len(<< >>) = 0
    OBVIOUS
  <2>6. /\ d \in Cpus /\ d.pc = At(a) /\ d.lr = r /\ d.stack = << >>
        /\ d.log = << >> /\ d.site = s
    BY <2>4, <2>5, <1>3 DEF Cpu, Cpus
  <2>7. Went(s, << >>)
    BY LogEmpty
  <2>8. 0 < n /\ n - 0 = n
    BY <1>5
  <2>9. Below(d)
    BY <2>1, <2>5, <2>6, <2>8, <1>1 DEF Below
  <2>10. Returns(d, r)
    BY <2>6, UnwindsNone DEF Returns
  <2> QED
    BY <2>6, <2>7, <2>9, <2>10 DEF Thread, Descending
<1> QED
  BY <1>4, <1>5

\* A site that nobody hooked runs its instruction.
LEMMA AfterIns ==
  ASSUME IInv, NEW s \in Sites, mem[s].op = "ins",
         NEW log, log = Append(<< >>, InsRan(mem[s].arg)),
         NEW d, d = Cpu(At(s + 4), Reg, << >>, log, s)
  PROVE  Thread(d)
<1>1. PICK n \in Nat : n = Len(order[s])
  BY CountLemma
<1>2. SiteIntact(s)
  BY DEF Laid, IInv, ChainIntact
<1>3. n = 0 /\ mem[s] = Orig[s]
  <2>1. CASE n # 0
    BY <2>1, <1>1, <1>2 DEF SiteIntact
  <2>2. CASE n = 0
    BY <2>2, <1>1, <1>2 DEF SiteIntact
  <2> QED
    BY <2>1, <2>2
<1>4. PICK e : e = InsRan(Orig[s].arg)
  OBVIOUS
<1>5. e \in Entries
  BY <1>4, SiteTypes, EntryTypes
<1>6. << >> \in Seq(Places) /\ << >> \in Seq(Entries) /\ Len(<< >>) = 0
  OBVIOUS
<1>7. log = Append(<< >>, e)
  BY <1>3, <1>4
<1>8. Went(s, << >>)
  BY LogEmpty
<1>9. log \in Seq(Entries) /\ Ended(s, log)
  <2>1. Len(<< >>) = Len(order[s])
    BY <1>1, <1>3, <1>6
  <2>2. Ended(s, Append(<< >>, e))
    BY <2>1, <1>4, <1>5, <1>6, <1>8, LogOriginal
  <2> QED
    BY <2>2, <1>5, <1>6, <1>7, LogGrows
<1>10. At(s + 4) \in Places /\ Reg \in Places /\ s \in Int
  BY SiteTypes, PlaceTypes
<1>11. /\ d \in Cpus /\ d.pc = At(s + 4) /\ d.lr = Reg /\ d.stack = << >>
       /\ d.log = log /\ d.site = s
  BY <1>6, <1>9, <1>10 DEF Cpu, Cpus
<1>12. Ascending(d)
  BY <1>9, <1>11 DEF Ascending, Returns
<1> QED
  BY <1>11, <1>12 DEF Thread

\* A called function keeps its call, and a jump stays a jump.
LEMMA CallKept ==
  ASSUME IInv, NEW s \in Sites, Orig[s].op # "ins"
  PROVE  mem[s].op = Orig[s].op
<1>1. PICK n \in Nat : n = Len(order[s])
  BY CountLemma
<1>2. CASE n = 0
  BY <1>1, <1>2 DEF Laid, IInv, ChainIntact, SiteIntact
<1>3. CASE n # 0
  BY <1>1, <1>3 DEF Laid, IInv, ChainIntact, SiteIntact, RunsOriginal
<1> QED
  BY <1>2, <1>3

\* The original function has run. It returns if it was called.
LEMMA AfterFunction ==
  ASSUME IInv, NEW c, Thread(c), c.pc # Idle, NEW s, s = c.site,
         Orig[s].op # "ins", c.pc = At(OrigTarget(s)),
         NEW log, log = Append(c.log, InsRan(Orig[s].arg)),
         NEW p, p = IF Orig[s].op = "bl" THEN c.lr ELSE Idle,
         NEW d, d = Cpu(p, c.lr, c.stack, log, s)
  PROVE  Thread(d)
<1>1. c \in Cpus /\ s \in Sites /\ Descending(c) /\ Len(c.log) = Len(order[s])
  BY Position
<1>2. c.lr \in Places /\ c.stack \in Seq(Places) /\ c.log \in Seq(Entries) /\ s \in Int
  BY <1>1, CpuParts
<1>3. Went(s, c.log) /\ Returns(c, c.lr)
  BY <1>1 DEF Descending
<1>4. PICK e : e = InsRan(Orig[s].arg)
  OBVIOUS
<1>5. e \in Entries
  BY <1>1, <1>4, SiteTypes, EntryTypes
<1>6. Ended(s, log)
  BY <1>1, <1>2, <1>3, <1>4, <1>5, LogOriginal
<1>7. log \in Seq(Entries)
  BY <1>2, <1>4, <1>5, LogGrows
<1>8. p \in Places
  BY <1>2, PlaceTypes
<1>9. /\ d \in Cpus /\ d.pc = p /\ d.lr = c.lr /\ d.stack = c.stack
      /\ d.log = log /\ d.site = s
  BY <1>2, <1>7, <1>8 DEF Cpu, Cpus
<1>10. mem[s].op = Orig[s].op
  BY <1>1, CallKept
<1>11. CASE Orig[s].op = "bl"
  <2>1. Ascending(d)
    BY <1>3, <1>6, <1>9, <1>10, <1>11 DEF Ascending, Returns
  <2> QED
    BY <2>1, <1>1, <1>9 DEF Thread
<1>12. CASE Orig[s].op # "bl"
  <2>1. c.stack = << >> /\ c.lr = Reg
    BY <1>3, <1>10, <1>12 DEF Returns
  <2>2. Resting(d)
    BY <2>1, <1>1, <1>6, <1>9, <1>12 DEF Resting
  <2> QED
    BY <2>2, <1>9 DEF Thread
<1> QED
  BY <1>11, <1>12

\* The code behind the site is reached with an empty stack.
LEMMA AfterResume ==
  ASSUME IInv, NEW c, Thread(c), c.pc # Idle, NEW s, s = c.site, c.pc = At(s + 4),
         NEW d, d = Cpu(Idle, c.lr, c.stack, c.log, s)
  PROVE  Thread(d)
<1>1. c \in Cpus /\ s \in Sites /\ Ascending(c) /\ c.stack = << >>
  BY Position
<1>2. c.lr \in Places /\ c.stack \in Seq(Places) /\ c.log \in Seq(Entries) /\ s \in Int
  BY <1>1, CpuParts
<1>3. /\ d \in Cpus /\ d.pc = Idle /\ d.lr = c.lr /\ d.stack = c.stack
      /\ d.log = c.log /\ d.site = s
  BY <1>2, PlaceTypes DEF Cpu, Cpus
<1>4. mem[s].op # "bl" => c.lr = Reg
  BY <1>1 DEF Ascending, Returns
<1>5. Resting(d)
  BY <1>1, <1>3, <1>4 DEF Resting, Ascending
<1> QED
  BY <1>3, <1>5 DEF Thread

\* A call starts at the site.
LEMMA AfterCall ==
  ASSUME NEW s \in Sites, NEW d, d = Cpu(At(s), Reg, << >>, << >>, s)
  PROVE  Thread(d)
<1>1. At(s) \in Places /\ Reg \in Places /\ s \in Int
  BY SiteTypes, PlaceTypes
<1>2. << >> \in Seq(Places) /\ << >> \in Seq(Entries)
  OBVIOUS
<1>3. d \in Cpus /\ d.site = s
  BY <1>1, <1>2 DEF Cpu, Cpus
<1>4. d = [InitCpu EXCEPT !.pc = At(s), !.site = s]
  <2>1. PICK x : x = [InitCpu EXCEPT !.pc = At(s), !.site = s]
    OBVIOUS
  <2>2. x = [pc |-> At(s), lr |-> Reg, stack |-> << >>, log |-> << >>, site |-> s]
    BY <2>1 DEF InitCpu
  <2>3. d = x
    BY <2>2 DEF Cpu
  <2> QED
    BY <2>1, <2>3
<1>5. Starting(d)
  BY <1>3, <1>4 DEF Starting
<1> QED
  BY <1>3, <1>5 DEF Thread

\* What a thread can do depends on the code and the trampolines only.
LEMMA ThreadStable ==
  ASSUME UNCHANGED vars, NEW c, c = cpu', Thread(c)
  PROVE  Thread(cpu)'
<1>1. mem' = mem /\ tramp' = tramp /\ order' = order
  BY DEF vars
<1>2. Went(c.site, c.log) => Went(cpu.site, cpu.log)'
  BY <1>1 DEF Went, Newest
<1>3. Ended(c.site, c.log) => Ended(cpu.site, cpu.log)'
  BY <1>1 DEF Ended, Newest
<1>4. Returns(c, c.lr) => Returns(cpu, cpu.lr)'
  BY <1>1 DEF Returns, Unwinds, FrameAt
<1>5. Returns(c, c.pc) => Returns(cpu, cpu.pc)'
  BY <1>1 DEF Returns, Unwinds, FrameAt
<1>6. Below(c) => Below(cpu)'
  BY <1>1 DEF Below
<1>7. Lost(c) => Lost(cpu)'
  BY <1>1 DEF Lost, ThumbRegs
<1>8. Starting(c) => Starting(cpu)'
  BY DEF Starting
<1>9. Descending(c) => Descending(cpu)'
  BY <1>2, <1>4, <1>6 DEF Descending
<1>10. Ascending(c) => Ascending(cpu)'
  BY <1>1, <1>3, <1>5 DEF Ascending
<1>11. Resting(c) => Resting(cpu)'
  BY <1>1, <1>3 DEF Resting
<1> QED
  BY <1>7, <1>8, <1>9, <1>10, <1>11 DEF Thread

\* The word at the site is executed.
LEMMA StepSite ==
  ASSUME IInv, Thread(cpu), ExecSite
  PROVE  Thread(cpu)'
<1>1. PICK c, d : c = cpu /\ d = cpu'
  OBVIOUS
<1>2. PICK s : s = c.site
  OBVIOUS
<1>3. /\ c.pc = At(s) /\ UNCHANGED vars
      /\ mem[s].op = "bl" => d = [c EXCEPT !.pc = At(Target(s)), !.lr = At(s + 4)]
      /\ mem[s].op = "b" => d = [c EXCEPT !.pc = At(Target(s))]
      /\ mem[s].op = "ins" => d = [c EXCEPT !.pc = At(s + 4),
                                            !.log = Append(c.log, InsRan(mem[s].arg))]
  BY <1>1, <1>2 DEF ExecSite
<1>4. Thread(c) /\ c.pc # Idle
  BY <1>1, <1>3, PlaceLemma
<1>5. c \in Cpus /\ s \in Sites /\ Starting(c)
  BY <1>2, <1>3, <1>4, Position
<1>6. c.lr = Reg /\ c.stack = << >> /\ c.log = << >> /\ c.site = s
  BY <1>2, <1>5 DEF Starting, InitCpu
<1>7. mem[s].op \in {"bl", "b", "ins"}
  BY <1>5 DEF Laid, IInv, TypeOK, Instr
<1>8. Thread(d)
  <2>1. CASE mem[s].op = "bl"
    <3>1. d = Cpu(At(Target(s)), At(s + 4), << >>, << >>, s)
      BY <2>1, <1>3, <1>5, <1>6 DEF Cpu, Cpus
    <3> QED
      BY <3>1, <2>1, <1>5, AfterBranch
  <2>2. CASE mem[s].op = "b"
    <3>1. d = Cpu(At(Target(s)), Reg, << >>, << >>, s)
      BY <2>2, <1>3, <1>5, <1>6 DEF Cpu, Cpus
    <3> QED
      BY <3>1, <2>2, <1>5, AfterBranch
  <2>3. CASE mem[s].op = "ins"
    <3>1. PICK log : log = Append(<< >>, InsRan(mem[s].arg))
      OBVIOUS
    <3>2. d = [c EXCEPT !.pc = At(s + 4), !.log = log]
      BY <3>1, <2>3, <1>3, <1>6
    <3>3. d = Cpu(At(s + 4), Reg, << >>, log, s)
      BY <3>2, <1>5, <1>6 DEF Cpu, Cpus
    <3> QED
      BY <3>1, <3>3, <2>3, <1>5, AfterIns
  <2> QED
    BY <2>1, <2>2, <2>3, <1>7
<1> QED
  BY <1>1, <1>3, <1>8, ThreadStable

\* A trampoline that replaces a call is entered.
LEMMA StepBlre ==
  ASSUME IInv, Thread(cpu), NEW t, NEW calls \in BOOLEAN, ExecBlre(t, calls)
  PROVE  Thread(cpu)'
<1>1. PICK c, d : c = cpu /\ d = cpu'
  OBVIOUS
<1>2. PICK w, kind : w = tramp[t].words /\ kind = tramp[t].kind
  OBVIOUS
<1>3. PICK st : st = Frame(RegsPushed[kind], At(w.chain.arg), c.lr, c.stack)
  OBVIOUS
<1>4. PICK log : log = Append(c.log, HookRan(w.target, calls))
  OBVIOUS
<1>5. /\ c.pc.part = "entry" /\ t \in TrampAt(c.pc.loc) /\ kind \in BlreKinds
      /\ UNCHANGED vars
  BY <1>1, <1>2 DEF ExecBlre, Here
<1>6. d = [c EXCEPT !.stack = st, !.lr = Behind(t),
                    !.pc = IF calls THEN st[RegsPushed[kind] + 1] ELSE Behind(t),
                    !.log = log]
  BY <1>1, <1>2, <1>3, <1>4 DEF ExecBlre, Frame
<1>7. Thread(c)
  BY <1>1
<1>8. PICK j : j = Len(order[c.site]) - Len(c.log)
  OBVIOUS
<1>9. c \in Cpus /\ c.site \in Sites /\ Turn(c, j) /\ t = order[c.site][j]
  BY <1>5, <1>7, <1>8, Enter DEF Turn
<1>10. st[RegsPushed[kind] + 1] = At(w.chain.arg)
  <2>1. w.chain.arg \in Int
    <3>1. j \in 1..Len(order[c.site])
      BY <1>9 DEF Turn
    <3> QED
      BY <3>1, <1>2, <1>5, <1>9, BlreChain
  <2>2. PICK R \in Nat, a \in Places : R = RegsPushed[kind] /\ a = At(w.chain.arg)
    BY <2>1, <1>5, FrameSizes, PlaceTypes
  <2>3. c.lr \in Places /\ c.stack \in Seq(Places)
    BY <1>9, CpuParts
  <2>4. IsFrame(st, R, a, c.lr, c.stack)
    BY <2>2, <2>3, <1>3, Pushed
  <2> QED
    BY <2>2, <2>4 DEF IsFrame
<1>11. PICK p : p = IF calls THEN At(w.chain.arg) ELSE Behind(t)
  OBVIOUS
<1>12. d = [c EXCEPT !.stack = st, !.lr = Behind(t), !.pc = p, !.log = log]
  BY <1>6, <1>10, <1>11
<1>13. d = Cpu(p, Behind(t), st, log, c.site)
  BY <1>9, <1>12 DEF Cpu, Cpus
<1>14. BlreStep(c, t, calls, d)
  BY <1>2, <1>3, <1>4, <1>11, <1>13 DEF BlreStep
<1>15. Thread(d)
  BY <1>2, <1>5, <1>9, <1>14, AfterBlre
<1> QED
  BY <1>1, <1>5, <1>15, ThreadStable

\* It is left.
LEMMA StepTail ==
  ASSUME IInv, Thread(cpu), NEW t, ExecBlreTail(t)
  PROVE  Thread(cpu)'
<1>1. PICK c, d : c = cpu /\ d = cpu'
  OBVIOUS
<1>2. PICK rest : rest = Drop(c.stack, TailDrop[tramp[t].kind])
  OBVIOUS
<1>3. /\ c.pc = Behind(t) /\ UNCHANGED vars
      /\ d = [c EXCEPT !.pc = Head(rest), !.stack = Tail(rest)]
  BY <1>1, <1>2 DEF ExecBlreTail
<1>4. Thread(c)
  BY <1>1
<1>5. c \in Cpus
  BY <1>4 DEF Thread
<1>6. d = Cpu(Head(rest), c.lr, Tail(rest), c.log, c.site)
  BY <1>3, <1>5 DEF Cpu, Cpus
<1>7. Thread(d)
  BY <1>2, <1>3, <1>4, <1>6, AfterTail
<1> QED
  BY <1>1, <1>3, <1>7, ThreadStable

\* A trampoline whose hook runs before what it hooked is executed.
LEMMA StepHook ==
  ASSUME IInv, Thread(cpu), NEW t, NEW skip \in BOOLEAN,
         \/ ExecHookBeforeLr(t, skip)
         \/ ExecHookBefore(t) /\ skip = FALSE
  PROVE  Thread(cpu)'
<1>1. PICK c, d : c = cpu /\ d = cpu'
  OBVIOUS
<1>2. PICK w : w = tramp[t].words
  OBVIOUS
<1>3. c.pc.part = "entry" /\ t \in TrampAt(c.pc.loc) /\ UNCHANGED vars
  BY <1>1 DEF ExecHookBefore, ExecHookBeforeLr, Here
<1>4. PICK p, log : p = HookTo(w, c.lr) /\ log = HookLog(w, skip, c.log)
  OBVIOUS
<1>5. Thread(c)
  BY <1>1
<1>6. PICK j : j = Len(order[c.site]) - Len(c.log)
  OBVIOUS
<1>7. c \in Cpus /\ c.site \in Sites /\ Turn(c, j) /\ t = order[c.site][j]
  BY <1>3, <1>5, <1>6, Enter DEF Turn
<1>8. Continuation(w).ins = Nop \/ Continuation(w).ins.op = "ins"
  <2>1. PICK s, kind : s \in Sites /\ s = c.site /\ kind = tramp[t].kind
    BY <1>7
  <2>2. j \in 1..Len(order[s]) /\ w = tramp[order[s][j]].words /\ kind = tramp[order[s][j]].kind
    BY <2>1, <1>2, <1>7 DEF Turn
  <2>3. \/ \E a : Continuation(w) = JumpTo(a)
        \/ Continuation(w).ins = Orig[s] /\ Orig[s].op = "ins"
    BY <2>1, <2>2, ChainAt
  <2> QED
    BY <2>3 DEF JumpTo
<1>9. d = [c EXCEPT !.pc = p, !.log = log]
  <2>1. CASE ExecHookBeforeLr(t, skip)
    BY <2>1, <1>1, <1>2, <1>4 DEF ExecHookBeforeLr, Jump, HookTo, HookLog, HookDid
  <2>2. CASE ExecHookBefore(t) /\ skip = FALSE
    <3>1. HookDid(w, skip) = TRUE
      BY <2>2 DEF HookDid
    <3>2. log = c.log \o <<HookRan(w.target, TRUE)>>
                  \o (IF Continuation(w).ins = Nop THEN << >>
                      ELSE <<InsRan(Continuation(w).ins.arg)>>)
      BY <3>1, <2>2, <1>4 DEF HookLog
    <3>3. Continuation(w).ins.op # "b" /\ (Continuation(w).ins.op # "ins" <=> Continuation(w).ins = Nop)
      BY <1>8 DEF Nop, Word
    <3> QED
      BY <3>2, <3>3, <2>2, <1>1, <1>2, <1>4 DEF ExecHookBefore, Jump, HookTo
  <2> QED
    BY <2>1, <2>2
<1>10. d = Cpu(p, c.lr, c.stack, log, c.site)
  BY <1>9, <1>7 DEF Cpu, Cpus
<1>11. Thread(d)
  <2>1. w = tramp[order[c.site][j]].words
    BY <1>2, <1>7
  <2> QED
    BY <2>1, <1>4, <1>7, <1>10, AfterHook
<1> QED
  BY <1>1, <1>3, <1>11, ThreadStable

\* The original function, or the code behind the site, is executed.
LEMMA StepOut ==
  ASSUME IInv, Thread(cpu), ExecFunction \/ Resume
  PROVE  Thread(cpu)'
<1>1. PICK c, d, s : c = cpu /\ d = cpu' /\ s = c.site
  OBVIOUS
<1>2. Thread(c) /\ c \in Cpus
  BY <1>1 DEF Thread
<1>3. CASE ExecFunction
  <2>1. PICK log, p : /\ log = Append(c.log, InsRan(Orig[s].arg))
                      /\ p = IF Orig[s].op = "bl" THEN c.lr ELSE Idle
    OBVIOUS
  <2>2. /\ c.pc # Idle /\ Orig[s].op # "ins" /\ c.pc = At(OrigTarget(s))
        /\ UNCHANGED vars
    BY <1>1, <1>3 DEF ExecFunction, AtFunction
  <2>3. d = [c EXCEPT !.log = log, !.pc = p]
    BY <2>1, <1>1, <1>3 DEF ExecFunction
  <2>4. d = Cpu(p, c.lr, c.stack, log, s)
    BY <2>3, <1>1, <1>2 DEF Cpu, Cpus
  <2>5. Thread(d)
    BY <2>1, <2>2, <2>4, <1>1, <1>2, AfterFunction
  <2> QED
    BY <2>2, <2>5, <1>1, ThreadStable
<1>4. CASE Resume
  <2>1. c.pc = At(s + 4) /\ UNCHANGED vars /\ d = [c EXCEPT !.pc = Idle]
    BY <1>1, <1>4 DEF Resume
  <2>2. c.pc # Idle
    BY <2>1, PlaceLemma
  <2>3. d = Cpu(Idle, c.lr, c.stack, c.log, s)
    BY <2>1, <1>1, <1>2 DEF Cpu, Cpus
  <2>4. Thread(d)
    BY <2>1, <2>2, <2>3, <1>1, <1>2, AfterResume
  <2> QED
    BY <2>1, <2>4, <1>1, ThreadStable
<1> QED
  BY <1>3, <1>4

\* Every step of the CPU keeps the thread on its way.
LEMMA StepExec ==
  ASSUME IInv, Thread(cpu), Exec
  PROVE  Thread(cpu)' /\ UNCHANGED <<vars, running>>
<1>1. UNCHANGED <<vars, running>>
  <2>1. CASE ExecSite \/ ExecFunction \/ Resume
    BY <2>1 DEF ExecSite, ExecFunction, Resume
  <2>2. ASSUME NEW t, NEW b, ExecBlre(t, b) \/ ExecHookBeforeLr(t, b)
        PROVE  UNCHANGED <<vars, running>>
    BY <2>2 DEF ExecBlre, ExecHookBeforeLr
  <2>3. ASSUME NEW t, ExecBlreTail(t) \/ ExecHookBefore(t)
        PROVE  UNCHANGED <<vars, running>>
    BY <2>3 DEF ExecBlreTail, ExecHookBefore
  <2> QED
    BY <2>1, <2>2, <2>3 DEF Exec
<1>2. CASE ExecSite
  BY <1>1, <1>2, StepSite
<1>3. ASSUME NEW t \in DOMAIN tramp, NEW b \in BOOLEAN, ExecBlre(t, b)
      PROVE  Thread(cpu)'
  BY <1>3, StepBlre
<1>4. ASSUME NEW t \in DOMAIN tramp, NEW b \in BOOLEAN, ExecHookBeforeLr(t, b)
      PROVE  Thread(cpu)'
  BY <1>4, StepHook
<1>5. ASSUME NEW t \in DOMAIN tramp, ExecBlreTail(t)
      PROVE  Thread(cpu)'
  BY <1>5, StepTail
<1>6. ASSUME NEW t \in DOMAIN tramp, ExecHookBefore(t)
      PROVE  Thread(cpu)'
  <2>1. PICK skip \in BOOLEAN : skip = FALSE
    OBVIOUS
  <2> QED
    BY <2>1, <1>6, StepHook
<1>7. CASE ExecFunction \/ Resume
  BY <1>1, <1>7, StepOut
<1> QED
  BY <1>1, <1>2, <1>3, <1>4, <1>5, <1>6, <1>7 DEF Exec

-----------------------------------------------------------------------------
(* The invariant *)

\* Nothing has been called yet.
LEMMA InitThread == Thread(InitCpu)
<1>1. Idle \in Places /\ Reg \in Places /\ 0 \in Int
  BY PlaceTypes
<1>2. << >> \in Seq(Places) /\ << >> \in Seq(Entries)
  OBVIOUS
<1>3. InitCpu \in Cpus
  BY <1>1, <1>2 DEF InitCpu, Cpus
<1>4. InitCpu.pc = Idle
  BY DEF InitCpu
<1> QED
  BY <1>3, <1>4 DEF Thread, Resting

\* A thread at rest executes nothing.
LEMMA InitStops ==
  ASSUME cpu.pc = Idle
  PROVE  ~Exec
<1>1. /\ \A a : Idle # At(a) /\ Idle # Behind(a)
      /\ Idle.part # "entry"
  BY PlaceLemma DEF Idle
<1>2. ~ExecSite /\ ~ExecFunction /\ ~Resume
  BY <1>1 DEF ExecSite, ExecFunction, AtFunction, Resume
<1>3. ASSUME NEW t PROVE ~Here(t) /\ ~ExecBlreTail(t)
  BY <1>1 DEF Here, ExecBlreTail
<1>4. ASSUME NEW t, NEW b PROVE ~ExecBlre(t, b) /\ ~ExecHookBeforeLr(t, b)
  BY <1>3 DEF ExecBlre, ExecHookBeforeLr
<1>5. ASSUME NEW t PROVE ~ExecHookBefore(t)
  BY <1>3 DEF ExecHookBefore
<1> QED
  BY <1>2, <1>3, <1>4, <1>5 DEF Exec

\* The invariant holds when the thread has not started.
LEMMA EInitInv == EInit => EInv
<1> SUFFICES ASSUME EInit PROVE EInv
  OBVIOUS
<1>1. IInv
  BY InitInv DEF EInit
<1>2. cpu = InitCpu
  BY DEF EInit
<1>3. Thread(cpu)
  BY <1>2, InitThread
<1> QED
  BY <1>1, <1>2, <1>3 DEF EInv

\* Installation keeps the chains whole, and nothing is executed meanwhile; the
\* execution keeps the thread on its way and changes no code.
LEMMA ENextInv ==
  ASSUME ~OverB, EInv, [ENext]_evars
  PROVE  EInv'
<1>1. IInv /\ (~running => cpu = InitCpu) /\ Thread(cpu)
  BY DEF EInv
<1>2. ASSUME UNCHANGED vars PROVE IInv'
  BY <1>1, <1>2, NextInv
<1>3. CASE InstallStep
  <2>1. Next /\ running' = running /\ cpu' = cpu /\ cpu = InitCpu
    BY <1>1, <1>3 DEF InstallStep
  <2>2. IInv'
    BY <2>1, <1>1, NextInv
  <2>3. Thread(InitCpu)'
    BY InitThread, PTL
  <2>4. Thread(cpu)'
    BY <2>1, <2>3
  <2> QED
    BY <2>1, <2>2, <2>4 DEF EInv
<1>4. CASE Boot
  <2>1. UNCHANGED vars /\ running' = TRUE /\ cpu' = cpu
    BY <1>4 DEF Boot
  <2>2. PICK c : c = cpu
    OBVIOUS
  <2>3. Thread(cpu)'
    BY <2>1, <2>2, <1>1, ThreadStable
  <2> QED
    BY <2>1, <2>3, <1>2 DEF EInv
<1>5. ASSUME NEW s \in Sites, Call(s) PROVE EInv'
  <2>1. PICK d : d = cpu'
    OBVIOUS
  <2>2. /\ UNCHANGED vars /\ running /\ running' = running
        /\ d = [InitCpu EXCEPT !.pc = At(s), !.site = s]
    BY <2>1, <1>5 DEF Call
  <2>3. d = [pc |-> At(s), lr |-> Reg, stack |-> << >>, log |-> << >>, site |-> s]
    BY <2>2 DEF InitCpu
  <2>4. d = Cpu(At(s), Reg, << >>, << >>, s)
    BY <2>3 DEF Cpu
  <2>5. Thread(d)
    BY <2>4, AfterCall
  <2>6. Thread(cpu)'
    BY <2>1, <2>2, <2>5, ThreadStable
  <2> QED
    BY <2>2, <2>6, <1>2 DEF EInv
<1>6. CASE Exec
  <2>1. Thread(cpu)' /\ UNCHANGED <<vars, running>>
    BY <1>1, <1>6, StepExec
  <2>2. running
    <3>1. CASE ~running
      <4>1. cpu.pc = Idle
        BY <3>1, <1>1 DEF InitCpu
      <4> QED
        BY <4>1, <1>6, InitStops
    <3> QED
      BY <3>1
  <2> QED
    BY <2>1, <2>2, <1>2 DEF EInv
<1>7. CASE UNCHANGED evars
  <2>1. UNCHANGED vars /\ running' = running /\ cpu' = cpu
    BY <1>7 DEF evars, vars
  <2>2. PICK c : c = cpu
    OBVIOUS
  <2>3. Thread(cpu)'
    BY <2>1, <2>2, <1>1, ThreadStable
  <2> QED
    BY <2>1, <2>3, <1>1, <1>2 DEF EInv
<1> QED
  BY <1>3, <1>4, <1>5, <1>6, <1>7 DEF ENext

\* A thread that is at rest after a call has done what it should.
LEMMA Rested ==
  ASSUME NEW c, Thread(c), c.pc = Idle, NEW s \in Sites, s = c.site
  PROVE  /\ Ended(s, c.log) /\ c.stack = << >>
         /\ mem[s].op # "bl" => c.lr = Reg
<1>1. c.stack \in Seq(Places)
  BY CpuParts DEF Thread
<1>2. ~Starting(c) /\ ~Below(c) /\ ~Lost(c)
  BY PlaceLemma DEF Starting, InitCpu, Below, Lost
<1>3. ~Ascending(c)
  <2>1. c.pc # At(s + 4) /\ \A a : c.pc # Behind(a)
    BY PlaceLemma
  <2>2. ~Unwinds(s, c.pc, c.stack)
    BY <2>1, <1>1, ReturnPlace
  <2> QED
    BY <2>1, <2>2 DEF Ascending, Returns
<1>4. Resting(c)
  BY <1>2, <1>3 DEF Thread, Descending
<1>5. c # InitCpu
  <2>1. s # 0
    BY SiteTypes
  <2> QED
    BY <2>1 DEF InitCpu
<1> QED
  BY <1>4, <1>5 DEF Resting

-----------------------------------------------------------------------------
(* Theorems *)

\* No branch that patch.h and trampoline.c encode, and no word that a trampoline
\* pops into the PC, leads a thread anywhere but to the site, the code behind it, an
\* installed trampoline or the function the original instruction branched to.
THEOREM NoWildBranches ==
  ASSUME ~OverB
  PROVE  ESpec => []NoWildBranch
<1>1. EInv => NoWildBranch
  <2> SUFFICES ASSUME EInv PROVE NoWildBranch
    OBVIOUS
  <2>1. IInv /\ Thread(cpu)
    BY DEF EInv
  <2>2. PICK c, s : c = cpu /\ s = c.site
    OBVIOUS
  <2>3. CASE c.pc = Idle
    BY <2>2, <2>3 DEF NoWildBranch
  <2>4. CASE c.pc # Idle
    <3>1. Thread(c) /\ c \in Cpus /\ s \in Sites
      BY <2>1, <2>2, <2>4, Whereabouts
    <3>2. \A a : At(a).part = "entry" /\ At(a).loc = a
      BY DEF At
    <3>3. \A a : Behind(a).part = "tail" /\ Behind(a).loc = a
      BY DEF Behind
    <3>4. CASE c.pc = At(s) \/ c.pc = At(s + 4)
      BY <3>2, <3>4, <2>2 DEF NoWildBranch
    <3>5. CASE Orig[s].op # "ins" /\ c.pc = At(OrigTarget(s))
      BY <3>2, <3>5, <2>2, <2>4 DEF NoWildBranch, AtFunction
    <3>6. CASE \E j \in 1..Len(order[s]) : c.pc = Behind(order[s][j])
      <4>1. PICK j \in 1..Len(order[s]) : c.pc = Behind(order[s][j])
        BY <3>6
      <4>2. order[s][j] \in DOMAIN tramp
        BY <3>1, <2>1, OneTrampoline
      <4> QED
        BY <4>1, <4>2, <3>3, <2>2 DEF NoWildBranch
    <3>7. CASE Lost(c)
      BY <3>7, <2>2 DEF Lost, NoWildBranch
    <3>8. CASE /\ Len(c.log) < Len(order[s])
               /\ c.pc = At(trampoline_find_mapping(s, order[s][Len(order[s]) - Len(c.log)]))
      <4>1. PICK n \in Nat, k \in Nat : n = Len(order[s]) /\ k = Len(c.log)
        <5>1. c.log \in Seq(Entries)
          BY <3>1, CpuParts
        <5> QED
          BY <5>1, <3>1, <2>1, CountLemma
      <4>2. k < n
        BY <4>1, <3>8
      <4>3. n - k \in 1..n
        BY <4>2
      <4>4. order[s][n - k] \in TrampAt(trampoline_find_mapping(s, order[s][n - k]))
        BY <4>1, <4>3, <3>1, <2>1, OneTrampoline
      <4>5. TrampAt(c.pc.loc) # {} /\ c.pc.part = "entry"
        BY <4>1, <4>4, <3>2, <3>8
      <4> QED
        BY <4>5, <2>2 DEF NoWildBranch
    <3> QED
      BY <3>1, <3>4, <3>5, <3>6, <3>7, <3>8, <2>2, <2>4, Whereabouts
  <2> QED
    BY <2>3, <2>4
<1>2. EInv /\ [ENext]_evars => EInv'
  BY ENextInv
<1> QED
  BY <1>1, <1>2, EInitInv, PTL DEF ESpec

\* A site that was executed to the end ran its hooks from the newest to the oldest,
\* each once, up to the one that decided to stop, or else the original instruction
\* once after all of them, and left nothing on the stack. It holds for every mix of
\* trampolines that the installers can put at one address, but for a hook_before on
\* the B of a hook_before_v2.
THEOREM HooksInOrder ==
  ASSUME ~OverB
  PROVE  ESpec => []RunsHooksNewestFirst
<1>1. EInv => RunsHooksNewestFirst
  <2> SUFFICES ASSUME EInv, Finished PROVE RunsHooksNewestFirst
    BY DEF RunsHooksNewestFirst
  <2>1. IInv /\ Thread(cpu) /\ cpu.pc = Idle /\ cpu.site \in Sites
    BY DEF EInv, Finished
  <2>2. PICK c : c = cpu
    OBVIOUS
  <2>3. PICK s \in Sites : s = c.site
    BY <2>1, <2>2
  <2>4. Thread(c) /\ c.pc = Idle
    BY <2>1, <2>2
  <2>5. Ended(s, c.log) /\ c.stack = << >>
    BY <2>1, <2>3, <2>4, Rested
  <2>6. PICK n \in Nat : n = Len(order[s])
    BY <2>1, CountLemma
  <2>7. PICK hs : hs = HooksAt(s)
    OBVIOUS
  <2>8. hs = [i \in 1..n |-> tramp[order[s][i]].words.target]
    BY <2>6, <2>7 DEF HooksAt
  <2>9. Len(hs) = n
    BY <2>8
  <2>10. \A i \in Nat \ {0} : i <= n => hs[n + 1 - i] = Newest(s, i)
    BY <2>6, <2>8 DEF Newest
  <2>11. PICK log : log = c.log
    OBVIOUS
  <2>12. PICK m \in Nat : m = Len(log)
    <3>1. c.log \in Seq(Entries)
      BY <2>4, CpuParts DEF Thread
    <3> QED
      BY <3>1, <2>11
  <2>13. /\ \A i \in 1..m : i <= n => log[i].hook = Newest(s, i)
         /\ \A i \in 1..(m - 1) : log[i].did
         /\ \/ m = n + 1 /\ log[m] = InsRan(Orig[s].arg)
            \/ m \in 1..n /\ ~log[m].did
    BY <2>5, <2>6, <2>11, <2>12 DEF Ended
  <2>14. \A i \in 1..m : i <= n => log[i].hook = hs[n + 1 - i]
    BY <2>10, <2>13
  <2> QED
    BY <2>2, <2>3, <2>5, <2>7, <2>9, <2>11, <2>12, <2>13, <2>14 DEF RunsHooksNewestFirst
<1>2. EInv /\ [ENext]_evars => EInv'
  BY ENextInv
<1> QED
  BY <1>1, <1>2, EInitInv, PTL DEF ESpec

\* hook_before_v2 leaves lr alone: an address that was not a call and has only its
\* hooks, however many, is left with the lr of the caller.
THEOREM LrKept ==
  ASSUME ~OverB
  PROVE  ESpec => []LrPreserved
<1>1. EInv => LrPreserved
  <2> SUFFICES ASSUME EInv, Finished, Orig[cpu.site].op # "bl",
                      \A i \in DOMAIN order[cpu.site] :
                        tramp[order[cpu.site][i]].kind = "hookbefore_lr"
               PROVE  cpu.lr = Reg
    BY DEF LrPreserved
  <2>1. IInv /\ Thread(cpu) /\ cpu.pc = Idle /\ cpu.site \in Sites
    BY DEF EInv, Finished
  <2>2. PICK c : c = cpu
    OBVIOUS
  <2>3. PICK s \in Sites : s = c.site
    BY <2>1, <2>2
  <2>4. Thread(c) /\ c.pc = Idle
    BY <2>1, <2>2
  <2>5. mem[s].op # "bl" => c.lr = Reg
    BY <2>1, <2>3, <2>4, Rested
  <2>6. PICK n \in Nat : n = Len(order[s])
    BY <2>1, CountLemma
  <2>7. Orig[s].op # "bl"
    BY <2>2, <2>3
  <2>8. mem[s].op # "bl"
    <3>1. CASE Orig[s].op # "ins"
      BY <3>1, <2>1, <2>7, CallKept
    <3>2. CASE Orig[s].op = "ins" /\ n = 0
      BY <3>2, <2>1, <2>6 DEF Laid, IInv, ChainIntact, SiteIntact
    <3>3. CASE Orig[s].op = "ins" /\ n # 0
      <4>1. order[s] \in Seq(DOMAIN tramp)
        BY <2>1, CountLemma
      <4>2. 1 \in DOMAIN order[s] /\ Len(order[s]) > 0
        BY <4>1, <3>3, <2>6
      <4>3. tramp[order[s][1]].kind = "hookbefore_lr"
        BY <4>2, <2>2, <2>3
      <4>4. SiteReturns(s)
        BY <2>1 DEF Laid, IInv, ReturnsFit
      <4> QED
        BY <4>2, <4>3, <4>4, <3>3 DEF SiteReturns
    <3> QED
      BY <3>1, <3>2, <3>3
  <2> QED
    BY <2>2, <2>5, <2>8
<1>2. EInv /\ [ENext]_evars => EInv'
  BY ENextInv
<1> QED
  BY <1>1, <1>2, EInitInv, PTL DEF ESpec
=============================================================================
