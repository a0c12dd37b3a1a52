-------------------------- MODULE MCThumbBackward --------------------------
(***************************************************************************)
(* Instance of Trampoline with a thumb call of IOS-NET, whose code lies      *)
(* behind its mirror of the trampolines (NET_ALT_BASE), so that the BL the   *)
(* installer writes has to go backward.                                      *)
(***************************************************************************)
EXTENDS Trampoline

NetCall == 305139712       \* 0x12301000

MCSites == {NetCall}

MCOrig == [s \in MCSites |-> Word("bl", 4096)]

MCBase == 662700032        \* 0x27800000
MCBufStart == 662732800    \* 0x27808000

\* README.md on BL_T_TRAMPOLINE_K: "same as BL_TRAMPOLINE_K(_addr, _dst) but
\* for thumb", and that one "generates a relative BL at the address to dst". So
\* the BL trampoline_t_install writes at a hooked thumb address leads to the
\* mapping of the trampoline it just copied.
ThumbHookReached ==
  \A s \in Thumb :
    order[s] # << >> =>
      Target(s) = trampoline_find_mapping(s, order[s][Len(order[s])])
=============================================================================
