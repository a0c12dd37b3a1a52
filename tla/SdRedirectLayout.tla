-------------------------- MODULE SdRedirectLayout --------------------------
(***************************************************************************)
(* What the partitions have to provide: patch_asm.S checks none of it.       *)
(***************************************************************************)
EXTENDS SdRedirect

\* The sectors that others use: the FAT driver and redMLC.
OtherSectors == {io.sector : io \in FatIo} \cup {r.blk : r \in MlcIo}

\* A partition starts at a multiple of four sectors (slcReadWrite_patch drops
\* the rest), holds every block of its device, and overlaps neither the other
\* one nor what the FAT driver and redMLC use.
ASSUME LayoutAssumption ==
  /\ Sectors \subseteq Nat /\ Blocks \subseteq Nat
  /\ \A c \in Configs :
       /\ c.off \in [Devices -> Nat] /\ c.size \in [Devices -> Nat]
       /\ \A d \in Devices : c.size[d] # 0 =>
            /\ c.off[d] % 4 = 0
            /\ \A b \in Blocks : 4 * b + 3 < c.size[d]
            /\ c.off[d]..(c.off[d] + c.size[d] - 1) \subseteq Sectors
            /\ \A s \in OtherSectors : s < c.off[d] \/ c.off[d] + c.size[d] <= s
            /\ \A e \in Devices : e # d /\ c.size[e] # 0 =>
                 c.off[d] + c.size[d] <= c.off[e] \/ c.off[e] + c.size[e] <= c.off[d]

\* IOS-FS asks for blocks the device has; redMLC is neither SLC nor SLCCMPT.
ASSUME RequestAssumption ==
  /\ Values # {} /\ Requests # {}
  /\ Requests \subseteq [dev : Devices, op : {"read", "write"}, blk : Nat, cnt : Nat,
                         val : Values, cb : BOOLEAN]
  /\ \A r \in Requests : Span(r) \subseteq Blocks
  /\ "mlc" \notin Devices
  /\ MlcIo \subseteq [dev : {"mlc"}, op : {"read", "write"}, blk : Sectors, cnt : {1},
                      val : Values, cb : BOOLEAN]
  /\ FatIo \subseteq [sector : Sectors, op : {"read", "write"}, val : Values]

\* The bound of the model.
ASSUME BoundAssumption == MaxRegs \in Nat
=============================================================================
