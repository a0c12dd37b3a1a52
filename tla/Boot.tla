-------------------------------- MODULE Boot --------------------------------
(***************************************************************************)
(* kern_main and mcp_main (main.c): program headers of the IOSU image         *)
(* (ios_dynamic.c), the boot parameters (prsh.c), linking of the plugins      *)
(* minute has loaded behind wafel_core (dynamic.c), the search for code to    *)
(* patch (bm.c), and the calls of the plugins' entry points.                  *)
(*                                                                           *)
(* Addresses are small numbers that keep the order of the real ones.          *)
(***************************************************************************)
EXTENDS BoyerMoore

CONSTANTS
  Boots,     \* what minute can have prepared, see MCBoot
  Mirrors,   \* MCP_ALT_BASE .. KERN_ALT_BASE, in the order of init_phdrs
  MirrorSz,  \* code_trampoline_sz
  RamdiskEnd,
  MaxBack    \* how far patch_general looks back for a prologue

VARIABLES
  boot,      \* this boot: sections, phdrs, notes, prsh, text, pattern; never changed
  stage,     \* where kern_main and mcp_main are
  cur,       \* next_plugin, as an index into the list of sections; 0 at its end
  elf,       \* the memory from 0x1D000000: program headers, then notes
  prsh,      \* header and initialized of prsh.c
  elfs,      \* the registered plugins
  word,      \* word[k][o]: the word at offset o of section k
  relocated, \* the plugins whose is_relocated is set
  patched,   \* what patch_general and patch_55x have found and patched
  called     \* the entry points called, in order

vars == <<boot, stage, cur, elf, prsh, elfs, word, relocated, patched, called>>

-----------------------------------------------------------------------------
(* ios_dynamic.c. elf is an array of cells of the size of a program header. *)

IOS_SEG_PHDRS == 0
IOS_SEG_NOTES == 1
IOS_SEG_ELFINFO == 2

NumPhdrs(e) == e[IOS_SEG_PHDRS].memsz

\* the upper bound is inclusive; an address of no segment stays as it is
ios_elf_vaddr_to_paddr(e, addr) ==
  LET hit == {i \in IOS_SEG_ELFINFO..NumPhdrs(e) - 1 :
                addr >= e[i].vaddr /\ addr <= e[i].vaddr + e[i].memsz}
  IN  IF hit = {} THEN addr ELSE addr - e[Min(hit)].vaddr + e[Min(hit)].paddr

\* the index of the new header
PhdrIndex(e, addr) ==
  Min({i \in IOS_SEG_ELFINFO..NumPhdrs(e) - 1 : addr < e[i].vaddr} \cup {NumPhdrs(e)})

\* memmove of n cells
Move(e, to, from, n) ==
  [k \in DOMAIN e |-> IF k \in to..to + n - 1 THEN e[k - to + from] ELSE e[k]]

\* Mutant: memcpy, which copies the notes over themselves.
ios_elf_add_phdr_mutant(e, addr, phdr) ==
  LET i == PhdrIndex(e, addr)
      notes == e[IOS_SEG_NOTES]
      e1 == [k \in DOMAIN e |-> IF k \in notes.vaddr + 1..notes.vaddr + notes.memsz
                                  THEN e[notes.vaddr] ELSE e[k]]
      e2 == Move([e1 EXCEPT ![IOS_SEG_NOTES].vaddr = @ + 1], i + 1, i, NumPhdrs(e) - i)
  IN  [e2 EXCEPT ![IOS_SEG_PHDRS].memsz = @ + 1, ![i] = phdr]

\* ios_elf_add_phdr, and its caller that fills the new header
ios_elf_add_phdr(e, addr, phdr) ==
  LET i == PhdrIndex(e, addr)
      notes == e[IOS_SEG_NOTES]
      e1 == [Move(e, notes.vaddr + 1, notes.vaddr, notes.memsz) EXCEPT ![IOS_SEG_NOTES].vaddr = @ + 1]
      e2 == Move(e1, i + 1, i, NumPhdrs(e) - i)
  IN  [e2 EXCEPT ![IOS_SEG_PHDRS].memsz = @ + 1, ![i] = phdr]

\* A cell of the notes is a sequence of [type, val]; AT_ENTRY belongs to the
\* AT_UID before it.
ios_elf_get_notes(e) ==
  FlattenSeq([k \in 1..e[IOS_SEG_NOTES].memsz |-> e[e[IOS_SEG_NOTES].vaddr + k - 1]])

\* in the notes n
Entrypoint(n, uid) ==
  LET cur_uid(i) == LET u == {j \in 1..i : n[j].type = "AT_UID"}
                    IN  IF u = {} THEN "UID_INVALID" ELSE n[Max(u)].val
      hit == {i \in DOMAIN n : n[i].type = "AT_ENTRY" /\ cur_uid(i) = uid}
  IN  IF hit = {} THEN "0" ELSE n[Min(hit)].val
ios_elf_get_module_entrypoint(e, uid) == Entrypoint(ios_elf_get_notes(e), uid)

-----------------------------------------------------------------------------
(* dynamic.c. A section has the address base, is an ELF or data, and an ELF has
   a symbol table (sym[s] is st_value, 0 if s is undefined), an array of
   relocations, and the dynamic array that says where they are. *)

Section(k) == boot.sections[k]
IsElf(k) == Section(k).elf

\* minute chains the sections in order
wafel_plugin_next(k) == IF k < Len(boot.sections) THEN k + 1 ELSE 0

wafel_get_symbol_addr(k, name) ==
  IF name \in DOMAIN Section(k).sym /\ Section(k).sym[name] # 0
    THEN Section(k).base + Section(k).sym[name] ELSE 0

\* the definition after skip others, in the order of registration
wafel_find_symbol_multiple(name, skip) ==
  LET defs == {i \in DOMAIN elfs : wafel_get_symbol_addr(elfs[i], name) # 0}
      hit == {i \in defs : Cardinality({j \in defs : j < i}) = skip}
  IN  IF hit = {} THEN 0 ELSE wafel_get_symbol_addr(elfs[Min(hit)], name)
wafel_find_symbol(name) == wafel_find_symbol_multiple(name, 0)

\* The value of the last entry with one of the tags, and the sum of all of them,
\* in the dynamic array of section s.
DynLast(s, tags) ==
  LET at == {i \in DOMAIN s.dyn : s.dyn[i].tag \in tags}
  IN  IF at = {} THEN 0 ELSE s.dyn[Max(at)].val
DynSum(s, tags) ==
  FoldLeft(LAMBDA n, d : IF d.tag \in tags THEN n + d.val ELSE n, 0, s.dyn)

\* the relocations wafel_link_plugin goes through: both tables, from the start
\* of the one named last; and those __wafel_dynamic goes through
LinkTable(s) ==
  LET first == DynLast(s, {"REL", "JMPREL"})
      relsz == DynSum(s, {"RELSZ", "PLTRELSZ"})
  IN  IF first = 0 THEN <<>> ELSE SubSeq(s.rel, first, first + relsz - 1)
RelTable(s) ==
  LET first == DynLast(s, {"REL"})
  IN  IF first = 0 THEN <<>> ELSE SubSeq(s.rel, first, first + DynLast(s, {"RELSZ"}) - 1)

\* the definition in the plugin itself comes first
SymVal(k, r) ==
  IF r.name \in DOMAIN Section(k).sym /\ Section(k).sym[r.name] # 0
    THEN Section(k).base + Section(k).sym[r.name] ELSE wafel_find_symbol(r.name)

\* the relocations of table t that are for offset o and of one of the types
For(t, o, types) == {i \in DOMAIN t : t[i].offset = o /\ t[i].type \in types}

SYMBOLIC == {"GLOB_DAT", "JUMP_SLOT", "ABS32"}

\* Mutant: the table of DT_JMPREL is left out.
wafel_link_plugin_mutant(k) ==
  LET t == RelTable(Section(k))
  IN  word' = [word EXCEPT ![k] = [o \in DOMAIN @ |->
                 IF For(t, o, SYMBOLIC) = {} THEN word[k][o]
                 ELSE SymVal(k, t[Max(For(t, o, SYMBOLIC))])]]

\* a word gets the symbol of the last relocation that is for it
wafel_link_plugin(k) ==
  LET t == LinkTable(Section(k))
  IN  word' = [word EXCEPT ![k] = [o \in DOMAIN @ |->
                 IF For(t, o, SYMBOLIC) = {} THEN word[k][o]
                 ELSE SymVal(k, t[Max(For(t, o, SYMBOLIC))])]]

\* Mutant: the type of a relocation is not looked at.
__wafel_dynamic_mutant(k) ==
  LET t == RelTable(Section(k))
      move(o) == For(t, o, SYMBOLIC \cup {"RELATIVE"}) # {} /\ word[k][o] < Section(k).base
  IN  /\ relocated' = relocated \cup {k}
      /\ word' = [word EXCEPT ![k] = [o \in DOMAIN @ |->
                    IF move(o) THEN word[k][o] + Section(k).base ELSE word[k][o]]]

\* a word that is moved is not below the plugin any more, and is not moved again
__wafel_dynamic(k) ==
  LET t == RelTable(Section(k))
      move(o) == For(t, o, {"RELATIVE"}) # {} /\ word[k][o] < Section(k).base
  IN  /\ relocated' = relocated \cup {k}
      /\ word' = IF k \in relocated THEN word
                 ELSE [word EXCEPT ![k] = [o \in DOMAIN @ |->
                        IF move(o) THEN word[k][o] + Section(k).base ELSE word[k][o]]]

-----------------------------------------------------------------------------
(* What minute, the firmware and the linker guarantee. *)

Load(vaddr, paddr, memsz) == [vaddr |-> vaddr, paddr |-> paddr, memsz |-> memsz]

\* ios_elf_vaddr_to_paddr finds no address of y in x, which it looks at first; x
\* includes its upper bound
Clear(x, y) == x.vaddr + x.memsz < y.vaddr \/ y.vaddr + y.memsz <= x.vaddr

ASSUME MirrorsAssumption ==
  /\ Mirrors \in Seq(Nat) /\ Mirrors # <<>>
  /\ MirrorSz \in Nat /\ RamdiskEnd \in Nat

\* Segments and mirrors are apart, the segment below wafel_core is the ramdisk, which
\* is where its addresses say, and there is memory behind the notes.
ASSUME ImageAssumption ==
  \A b \in Boots :
    LET e == b.elf
        base == b.sections[1].base
        at == PhdrIndex(e, base)
        segments == IOS_SEG_ELFINFO..NumPhdrs(e) - 1
        mirror(m) == Load(Mirrors[m], base, MirrorSz)
    IN  /\ NumPhdrs(e) \in Nat
        /\ \A i \in 0..NumPhdrs(e) - 1 : e[i] \in [vaddr : Nat, paddr : Nat, memsz : Nat]
        /\ NumPhdrs(e) <= e[IOS_SEG_NOTES].vaddr
        /\ 0..e[IOS_SEG_NOTES].vaddr + e[IOS_SEG_NOTES].memsz + Len(Mirrors) \subseteq DOMAIN e
        /\ base \in 0..RamdiskEnd
        /\ at - 1 \in segments
        /\ e[at - 1].vaddr = e[at - 1].paddr /\ e[at - 1].vaddr + e[at - 1].memsz = RamdiskEnd
        /\ \A i, j \in segments : i < j => Clear(e[i], e[j])
        /\ \A i \in segments, m \in DOMAIN Mirrors :
             IF i < at THEN Clear(e[i], mirror(m)) ELSE Clear(mirror(m), e[i])
        /\ \A m, q \in DOMAIN Mirrors : m # q => Clear(mirror(m), mirror(q))

\* What ld makes of a plugin: the tables of relocations are behind each other, .rel.dyn
\* in front, and the dynamic array names its start last; no word is relocated twice.
WellLinked(s) ==
  /\ s.rel \in Seq([type : SYMBOLIC \cup {"RELATIVE"}, offset : DOMAIN s.word, name : STRING])
  /\ LinkTable(s) = s.rel
  /\ \E n \in 0..Len(s.rel) : /\ RelTable(s) = SubSeq(s.rel, 1, n)
                              /\ \A i \in n + 1..Len(s.rel) : s.rel[i].type # "RELATIVE"
  /\ \A i, j \in DOMAIN s.rel : i # j => s.rel[i].offset # s.rel[j].offset
  /\ \A i \in DOMAIN s.rel : s.rel[i].type = "RELATIVE" => s.word[s.rel[i].offset] \in 0..s.base - 1

ASSUME SectionsAssumption ==
  \A b \in Boots :
    /\ Len(b.sections) \in Nat \ {0} /\ DOMAIN b.sections = 1..Len(b.sections)
    /\ b.sections[1].elf
    /\ \A k \in DOMAIN b.sections : LET s == b.sections[k]
                                    IN  /\ s.elf \in BOOLEAN /\ s.base \in Nat
                                        /\ \A name \in DOMAIN s.sym : s.sym[name] \in Nat
                                        /\ k # 1 /\ s.elf => WellLinked(s)

ASSUME TextAssumption ==
  \A b \in Boots : /\ b.text \in Seq(STRING)
                   /\ b.otp_pattern \in Seq(STRING) \ {<<>>} /\ b.mmu_pattern \in Seq(STRING) \ {<<>>}

-----------------------------------------------------------------------------
(* kern_main *)

Init ==
  /\ boot \in Boots
  /\ stage = "phdrs" /\ cur = 1
  /\ elf = boot.elf
  /\ prsh = [header |-> FALSE, initialized |-> FALSE]
  /\ elfs = <<>>
  /\ word = [k \in DOMAIN boot.sections |-> boot.sections[k].word]
  /\ relocated = {1}
  /\ patched = [found |-> NULL, otp |-> NULL, mmu |-> NULL, sites |-> {}]
  /\ called = <<>>

\* Mutant: the ramdisk keeps its size.
init_phdrs_mutant ==
  LET base == Section(1).base
  IN  /\ stage = "phdrs" /\ stage' = "mirrors"
      /\ elf' = ios_elf_add_phdr(elf, base, Load(base, base, RamdiskEnd - base))
      /\ UNCHANGED <<boot, cur, prsh, elfs, word, relocated, patched, called>>

\* a header for what minute has loaded at the end of the ramdisk, which shrinks
init_phdrs ==
  LET base == Section(1).base
      sz == RamdiskEnd - base
  IN  /\ stage = "phdrs" /\ stage' = "mirrors"
      /\ elf' = [ios_elf_add_phdr(elf, base, Load(base, base, sz))
                   EXCEPT ![PhdrIndex(elf, base) - 1].memsz = @ - sz]
      /\ UNCHANGED <<boot, cur, prsh, elfs, word, relocated, patched, called>>

\* a mirror is inserted as if it had the address of wafel_core; after the last
\* one init_linking begins
add_mirror ==
  LET base == Section(1).base
  IN  /\ stage = "mirrors"
      /\ elf' = ios_elf_add_phdr(elf, base, Load(Mirrors[cur], base, MirrorSz))
      /\ IF cur < Len(Mirrors) THEN cur' = cur + 1 /\ UNCHANGED <<stage, elfs>>
           ELSE cur' = 1 /\ stage' = "register" /\ elfs' = <<1>>
      /\ UNCHANGED <<boot, prsh, word, relocated, patched, called>>

\* the loops over all sections: next is the stage after the last one
Advance(next) ==
  LET n == wafel_plugin_next(cur)
  IN  IF n = 0 THEN stage' = next /\ cur' = 1 ELSE cur' = n /\ UNCHANGED stage
Visit(k) == k # 0 /\ IsElf(k)

wafel_register_plugin ==
  /\ stage = "register" /\ Advance("link")
  /\ elfs' = IF Visit(wafel_plugin_next(cur)) THEN Append(elfs, wafel_plugin_next(cur)) ELSE elfs
  /\ UNCHANGED <<boot, elf, prsh, word, relocated, patched, called>>

link ==
  /\ stage = "link" /\ Advance("config")
  /\ IF Visit(wafel_plugin_next(cur)) THEN wafel_link_plugin(wafel_plugin_next(cur))
       ELSE UNCHANGED word
  /\ UNCHANGED <<boot, elf, prsh, elfs, relocated, patched, called>>

\* kern_main on is_55x: the version by MCP's entry point and by two words of the kernel
Is55x(e) == ios_elf_get_module_entrypoint(e, "IOS_MCP") = "mcp_55x" /\ boot.is_55x

\* prsh.c. Without a header prsh_init goes on with a null pointer; a header with too
\* many entries is looked for again.
prsh_init ==
  IF prsh.initialized /\ ~(prsh.header /\ boot.prsh.total_entries > 256) THEN UNCHANGED prsh
  ELSE prsh' = [header |-> boot.prsh.magic, initialized |-> TRUE]
prsh_get_entry(name) ==
  prsh'.header /\ boot.prsh.total_entries <= 256 /\ name \in boot.prsh.names

\* init_config, what it dies of; Rednand has what it does. A redNAND configuration that
\* is not initialised counts as no entry.
init_config ==
  /\ stage = "config" /\ prsh_init
  /\ stage' = IF /\ prsh_get_entry("minute_boot")
                 /\ prsh_get_entry("rednand") => Is55x(elf)
                 /\ \A name \in {"rednand", "seeprom"} :
                      prsh_get_entry(name) => name \in boot.prsh.whole
                THEN "general" ELSE "dead"
  /\ UNCHANGED <<boot, cur, elf, elfs, word, relocated, patched, called>>

\* words from a match back to the prologue of the function, MaxBack of them at most
BackToPrologue(text, at) ==
  Max({p \in at - MaxBack..at : p = at - MaxBack \/ (p >= 0 /\ text[p + 1] = "push")})

\* If the OTP code is not found the stub is copied to low memory; without a
\* match for the other patch it stops.
patch_general ==
  LET found == boyer_moore_search(boot.text, boot.otp_pattern)
      mmu == boyer_moore_search(boot.text, boot.mmu_pattern)
  IN  /\ stage = "general" /\ prsh_init
      /\ patched' = [patched EXCEPT
           !.found = IF prsh_get_entry("otp") THEN found ELSE NULL,
           !.otp = IF prsh_get_entry("otp") /\ found # NULL
                     THEN BackToPrologue(boot.text, found) ELSE NULL,
           !.mmu = mmu]
      /\ stage' = IF mmu = NULL THEN "dead" ELSE "55x"
      /\ UNCHANGED <<boot, cur, elf, elfs, word, relocated, called>>

\* the list of patches at fixed addresses of 5.5.x
patch_55x ==
  /\ stage = "55x" /\ stage' = "kern_entry"
  /\ patched' = IF Is55x(elf)
                  THEN [patched EXCEPT !.sites = {<<a, ios_elf_vaddr_to_paddr(elf, a)>> : a \in boot.sites}]
                  ELSE patched
  /\ UNCHANGED <<boot, cur, elf, prsh, elfs, word, relocated, called>>

\* A plugin's start-up code (crt0.S) clears its bss and calls __wafel_dynamic of
\* wafel_core through its own import, before the plugin's kern_main.
kern_entry(k) ==
  /\ called' = Append(called, <<"kern_entry", k>>)
  /\ IF word[k][Section(k).import] = wafel_get_symbol_addr(1, "__wafel_dynamic")
       THEN __wafel_dynamic(k) /\ Advance("mcp_entry")
       ELSE stage' = "dead" /\ UNCHANGED <<cur, word, relocated>>
mcp_entry(k) ==
  /\ called' = Append(called, <<"mcp_entry", k>>)
  /\ Advance("done")
  /\ UNCHANGED <<word, relocated>>

\* kern_main's calls, and mcp_main's when IOSU starts MCP
call_plugin_entry ==
  /\ stage \in {"kern_entry", "mcp_entry"}
  /\ LET k == wafel_plugin_next(cur)
     IN  IF Visit(k) /\ wafel_get_symbol_addr(k, stage) # 0
           THEN IF stage = "kern_entry" THEN kern_entry(k) ELSE mcp_entry(k)
           ELSE /\ Advance(IF stage = "kern_entry" THEN "mcp_entry" ELSE "done")
                /\ UNCHANGED <<word, relocated, called>>
  /\ UNCHANGED <<boot, elf, prsh, elfs, patched>>

Next ==
  \/ init_phdrs \/ add_mirror \/ wafel_register_plugin \/ link \/ init_config
  \/ patch_general \/ patch_55x \/ call_plugin_entry

\* kern_main is the only thread there is
Spec == Init /\ [][Next]_vars /\ WF_vars(Next)

-----------------------------------------------------------------------------
(* Properties *)

\* the first section that defines a symbol, wafel_core before the plugins
Provider(name) ==
  LET defs == {k \in DOMAIN boot.sections : IsElf(k) /\ wafel_get_symbol_addr(k, name) # 0}
  IN  IF defs = {} THEN 0 ELSE wafel_get_symbol_addr(Min(defs), name)

\* When a plugin has been entered (dynamic.c), all its relocations are done, from
\* both tables: an import is the first definition among all plugins, those behind
\* it in the list too, or null, and an address inside it was moved once.
ImportsBound ==
  \A k \in relocated \ {1} : \A i \in DOMAIN Section(k).rel :
    LET r == Section(k).rel[i]
        own == wafel_get_symbol_addr(k, r.name)
    IN  word[k][r.offset] =
          IF r.type = "RELATIVE" THEN Section(k).word[r.offset] + Section(k).base
          ELSE IF own # 0 THEN own ELSE Provider(r.name)

\* ios_elf_vaddr_to_paddr finds what kern_main's patches are meant for: patched
\* addresses of IOSU's segments keep their place although seven headers were
\* inserted, the mirrors show wafel_core, and what minute loaded is not ramdisk.
MapSound ==
  stage \notin {"phdrs", "mirrors"} =>
    LET base == Section(1).base
        old == IOS_SEG_ELFINFO..NumPhdrs(boot.elf) - 1
    IN  /\ \A i \in old : \A a \in boot.elf[i].vaddr..boot.elf[i].vaddr + boot.elf[i].memsz - 1 :
             ios_elf_vaddr_to_paddr(elf, a) = a - boot.elf[i].vaddr + boot.elf[i].paddr
        /\ \A m \in DOMAIN Mirrors, d \in 0..MirrorSz - 1 :
             ios_elf_vaddr_to_paddr(elf, Mirrors[m] + d) = base + d
        /\ \A i, j \in IOS_SEG_ELFINFO..NumPhdrs(elf) - 1 :
             i < j => \/ elf[i].vaddr + elf[i].memsz <= elf[j].vaddr
                      \/ elf[j].vaddr + elf[j].memsz <= elf[i].vaddr

\* The notes, by which kern_main tells the firmware's version, survive the growth
\* of the table of program headers in front of them.
NotesIntact == ios_elf_get_notes(elf) = ios_elf_get_notes(boot.elf)

Prepared ==
  /\ boot.prsh.magic /\ boot.prsh.total_entries <= 256
  /\ "minute_boot" \in boot.prsh.names
  /\ "rednand" \in boot.prsh.names => Is55x(boot.elf)
  /\ boot.prsh.names \cap {"rednand", "seeprom"} \subseteq boot.prsh.whole

\* boyer_moore_search finds the first match, and there is none if it finds none.
SearchFindsFirst ==
  Prepared /\ stage \in {"dead", "55x", "kern_entry", "mcp_entry", "done"} =>
    /\ patched.mmu = FirstOccurrence(boot.text, boot.mmu_pattern)
    /\ "otp" \in boot.prsh.names =>
         patched.found = FirstOccurrence(boot.text, boot.otp_pattern)

\* The plugins that have an entry point, in the order minute has chained them.
Having(entry) ==
  LET has(k) == k # 1 /\ IsElf(k) /\ wafel_get_symbol_addr(k, entry) # 0
  IN  [i \in 1..Len(SelectSeq([k \in DOMAIN boot.sections |-> k], has)) |->
         <<entry, SelectSeq([k \in DOMAIN boot.sections |-> k], has)[i]>>]

\* kern_main and mcp_main come to their end and have then called every plugin once
\* at each entry point, in order, whatever data is between them, if minute passed
\* its parameters, whole and for this firmware, and the code to patch is there.
BootCompletes ==
  Prepared /\ FirstOccurrence(boot.text, boot.mmu_pattern) # NULL =>
    <>(stage = "done" /\ called = Having("kern_entry") \o Having("mcp_entry"))
=============================================================================
