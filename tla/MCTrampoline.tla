---------------------------- MODULE MCTrampoline ----------------------------
(***************************************************************************)
(* Instance of TrampolineExec: a BL, a plain instruction and a B of IOS-FS, *)
(* a thumb BL of IOS-MCP, and a thumb site of IOS-BSP that no mirror        *)
(* reaches. The buffer holds three trampolines, or two of hook_before_v2.   *)
(***************************************************************************)
EXTENDS TrampolineExec, TrampolineLayout

ArmCall  == 276552416      \* 0x107BDAE0
ArmIns   == 276551508      \* 0x107BD754
ArmJump  == 276509232      \* 0x107B3230
ThumbCall == 84935126      \* 0x051001D6
ThumbFar == -436207616     \* 0xE6000000

MCSites == {ArmCall, ArmIns, ArmJump, ThumbCall, ThumbFar}
MCThumb == {ThumbCall, ThumbFar}

MCOrig == [s \in MCSites |->
  CASE s = ArmCall   -> Word("bl", ((276000000 - s - 8) \div 4) % 16777216)
    [] s = ArmJump   -> Word("b", ((276100000 - s - 8) \div 4) % 16777216)
    [] s = ThumbCall -> Word("bl", ((84300000 - s - 4) \div 2) % 4194304)
    [] OTHER         -> Word("ins", s)]

MCBase == 662700032        \* 0x27800000
MCBufStart == 662732800    \* 0x27808000
=============================================================================
