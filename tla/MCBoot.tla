------------------------------- MODULE MCBoot -------------------------------
(***************************************************************************)
(* Boot for two plugins and a data section in different orders, with linker   *)
(* tables in the order of GNU ld, for kernel texts over three words, and for  *)
(* parameters that are missing, corrupt, cut, or not for this firmware.       *)
(***************************************************************************)
EXTENDS Boot

Rel(type, offset, name) == [type |-> type, offset |-> offset, name |-> name]
Tag(tag, val) == [tag |-> tag, val |-> val]

\* base, symbols, words, relocations and the dynamic array of the sections
Core == [elf |-> TRUE, base |-> 58, sym |-> [s \in {"__wafel_dynamic", "printf"} |->
           IF s = "printf" THEN 1 ELSE 2], rel |-> <<>>, dyn |-> <<>>, word |-> <<>>, import |-> 0]
DataSection(base) == [elf |-> FALSE, base |-> base, sym |-> <<>>, rel |-> <<>>, dyn |-> <<>>,
                      word |-> <<>>, import |-> 0]

\* imports printf, a function of the other plugin, and one nobody has; .rel.dyn
\* (a relative word and data) in front of .rel.plt
User(base) ==
  [elf |-> TRUE, base |-> base,
   sym |-> [s \in {"kern_entry", "mcp_entry", "helper", "mine"} |->
              CASE s = "kern_entry" -> 1 [] s = "mcp_entry" -> 2 [] s = "mine" -> 4 [] OTHER -> 0],
   rel |-> <<Rel("RELATIVE", 1, "no"), Rel("GLOB_DAT", 2, "mine"), Rel("ABS32", 3, "nobody"),
             Rel("JUMP_SLOT", 4, "__wafel_dynamic"), Rel("JUMP_SLOT", 5, "helper")>>,
   dyn |-> <<Tag("PLTRELSZ", 2), Tag("JMPREL", 4), Tag("REL", 1), Tag("RELSZ", 3)>>,
   word |-> <<7, 0, 0, 9, 9>>, import |-> 4]

\* defines helper, and a printf of its own that nobody else gets; no mcp_entry;
\* only jump slots
Helper(base) ==
  [elf |-> TRUE, base |-> base,
   sym |-> [s \in {"kern_entry", "helper", "printf"} |->
              CASE s = "kern_entry" -> 1 [] s = "helper" -> 2 [] OTHER -> 3],
   rel |-> <<Rel("JUMP_SLOT", 1, "__wafel_dynamic"), Rel("JUMP_SLOT", 2, "printf")>>,
   dyn |-> <<Tag("PLTRELSZ", 2), Tag("JMPREL", 1)>>,
   word |-> <<0, 0>>, import |-> 1]

Chains == {<<Core>>, <<Core, User(60), Helper(62)>>, <<Core, DataSection(60), Helper(61), User(62)>>,
           <<Core, User(60), DataSection(61), User(62)>>}

\* PHDRS and NOTES; ELFINFO; MCP, kernel, FS, the ramdisk, and segments behind it
Seg(vaddr, paddr, memsz) == [vaddr |-> vaddr, paddr |-> paddr, memsz |-> memsz]
Note(type, val) == [type |-> type, val |-> val]
MCElf ==
  LET phdrs == <<Seg(0, 0, 8), Seg(8, 8, 2), Seg(40, 40, 3), Seg(10, 10, 4), Seg(20, 34, 2),
                 Seg(50, 50, 14), Seg(80, 30, 3), Seg(100, 46, 2)>>
  IN  [c \in 0..19 |->
         CASE c < 8 -> phdrs[c + 1]
           [] c = 8 -> <<Note("AT_UID", "IOS_KERNEL"), Note("AT_ENTRY", "kernel")>>
           [] c = 9 -> <<Note("AT_UID", "IOS_MCP"), Note("AT_PRIORITY", "1"), Note("AT_ENTRY", "mcp_55x")>>
           [] OTHER -> <<>>]
MCMirrors == <<15, 24, 28, 85, 90, 18>>

Params == [magic |-> TRUE, total_entries |-> 8, names |-> {"minute_boot", "otp"},
           whole |-> {"rednand", "seeprom"}]
MCBoot1 ==
  [sections |-> <<Core, User(60), Helper(62)>>, elf |-> MCElf, prsh |-> Params, is_55x |-> TRUE,
   sites |-> {10, 21, 82}, text |-> <<"push", "a", "b", "a", "a">>,
   otp_pattern |-> <<"b", "a">>, mmu_pattern |-> <<"a", "a">>]

Words == {"push", "a"}
MCBoots ==
  {[MCBoot1 EXCEPT !.sections = c] : c \in Chains}
    \cup {[MCBoot1 EXCEPT !.prsh = p] :
            p \in {[Params EXCEPT !.magic = FALSE], [Params EXCEPT !.total_entries = 257],
                   [Params EXCEPT !.names = {"otp"}], [Params EXCEPT !.names = {"minute_boot"}]}}
    \cup {[MCBoot1 EXCEPT !.is_55x = is, !.prsh.names = @ \cup more, !.prsh.whole = whole] :
            is \in BOOLEAN, more \in SUBSET {"rednand", "seeprom"},
            whole \in SUBSET {"rednand", "seeprom"}}
    \cup {[MCBoot1 EXCEPT !.sections = <<Core>>, !.text = t, !.otp_pattern = p,
                           !.mmu_pattern = <<"a">>] :
            t \in [1..7 -> Words], p \in [1..3 -> Words] \cup {<<"a", "push">>}}
=============================================================================
