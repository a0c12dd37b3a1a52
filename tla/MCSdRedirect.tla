---------------------------- MODULE MCSdRedirect ----------------------------
(***************************************************************************)
(* Instance of SdRedirect: SLC is redirected to two blocks of the card, and  *)
(* SLCCMPT to the two blocks behind it, or not at all and there is a redMLC; *)
(* the FAT driver reads the sector in front, redMLC writes the one behind.   *)
(***************************************************************************)
EXTENDS SdRedirectLayout

MCDevices == {"slc", "slccmpt"}

MCConfigs ==
  {[off |-> [slc |-> 4, slccmpt |-> 12], size |-> [slc |-> 8, slccmpt |-> n],
    mlc |-> n = 0] : n \in {0, 8}}

MCSectors == 0..20

MCFatIo == {[sector |-> 3, op |-> "read", val |-> 1]}

MCMlcIo == {[dev |-> "mlc", op |-> "write", blk |-> 20, cnt |-> 1, val |-> 1, cb |-> TRUE]}

\* reads and writes that meet and that do not, with and without a callback
MCRequests ==
  {[dev |-> "slc", op |-> "write", blk |-> 1, cnt |-> 1, val |-> 1, cb |-> TRUE],
   [dev |-> "slc", op |-> "read", blk |-> 0, cnt |-> 2, val |-> 0, cb |-> TRUE],
   [dev |-> "slccmpt", op |-> "write", blk |-> 0, cnt |-> 1, val |-> 1, cb |-> FALSE]}
=============================================================================
