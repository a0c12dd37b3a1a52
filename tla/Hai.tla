-------------------------------- MODULE Hai --------------------------------
(***************************************************************************)
(* The virtual Wii reads the disk image of a title without IOSU: MCP asks     *)
(* IOS-FS which blocks the image has, writes them to a companion file and     *)
(* starts vWii, whose HAI driver reads those blocks of the raw medium. With   *)
(* redMLC, IOSU reaches the same image through a partition of the SD card     *)
(* (sal_partition.c), so the companion file and the driver are patched        *)
(* (hai.c, rednand.c). This module puts that on top of Rednand.               *)
(***************************************************************************)
EXTENDS Rednand, Sequences

CONSTANTS
  WordBits,         \* width of u32
  partition_offset, \* redMLC's first sector on the SD card
  UnitShift,        \* address_unit_base_lbas: an address unit has 2^UnitShift sectors
  Images            \* sequences of extents [unit, len], the images of titles

\* The partition begins at an address unit, and the card's units have addresses of
\* one word, as its sectors have of two. (The powers are naturals: the provers do not
\* know ^.)
ASSUME HaiAssumption ==
  /\ 2^WordBits \in Nat \ {0} /\ 2^UnitShift \in Nat \ {0} /\ 2^UnitShift <= 2^WordBits
  /\ partition_offset \in Nat
  /\ partition_offset = (partition_offset \div 2^UnitShift) * 2^UnitShift
  /\ Images \subseteq Seq([unit : Nat, len : Nat \ {0}])
  /\ \A image \in Images : \A n \in DOMAIN image :
       image[n].unit + image[n].len + partition_offset \div 2^UnitShift <= 2^WordBits

VARIABLES
  haidev,           \* the device type FSA_GetFileBlockAddress was last called for
  mcp               \* MCP's start of vWii: at, disk, image, buffer, dev, slot

haivars == <<haidev, mcp>>

HaiInit ==
  /\ Init
  /\ haidev = "none"
  /\ mcp = [at |-> "idle", disk |-> "none", image |-> <<>>, buffer |-> <<>>,
            dev |-> "none", slot |-> "emmc"]

-----------------------------------------------------------------------------
(* sal_partition.c *)

\* ADD_OFFSET on the two words of a block address
ADD_OFFSET(hi, lo) ==
  LET combined == hi * 2^WordBits + lo + partition_offset
  IN  [hi |-> (combined \div 2^WordBits) % 2^WordBits, lo |-> combined % 2^WordBits]

\* The raw sector IOSU reaches as sector s of a device: read_wrapper and
\* write_wrapper for the one patch_partition_attach_arg was called for, the
\* driver's own functions for the others.
read_wrapper(disk, s) ==
  IF disk = "redmlc"
    THEN LET lba == ADD_OFFSET(s \div 2^WordBits, s % 2^WordBits)
         IN  <<"sd", lba.hi * 2^WordBits + lba.lo>>
    ELSE <<disk, s>>

-----------------------------------------------------------------------------
(* hai.c and the hooks of rednand.c *)

hai_from_mlc == haidev = "mlc"

\* the extents of a companion file, moved by offset sectors
hai_companion_add_offset(buffer, offset) ==
  [i \in DOMAIN buffer |->
     [buffer[i] EXCEPT !.unit = (@ + offset \div 2^UnitShift) % 2^WordBits]]

\* MCP asks for the blocks of an image on an attached device, and the hook
\* hai_apply_getdev_patch installed for redMLC notes the type of the device.
\* MCP may give a start of vWii up and begin another.
get_block_addr_haidev_patch(a, image) ==
  /\ Running /\ mcp.at # "vwii"
  /\ a \in attached /\ key[a.disk] # "none"
  /\ haidev' = IF red.mlc THEN a.type ELSE haidev
  /\ mcp' = [mcp EXCEPT !.at = "blocks", !.disk = a.disk, !.image = image,
                        !.buffer = image, !.dev = a.type]
  /\ UNCHANGED vars

\* hai_path_sprintf_hook_force_mlc: the device HAI is told, if the eMMC is
\* mounted as USB
ForcedDevice(dev) == IF red.mount_sys THEN "mlc" ELSE dev

\* the companion file is written
hai_write_file_patch ==
  /\ mcp.at = "blocks"
  /\ mcp' = [mcp EXCEPT !.at = "companion",
               !.buffer = IF hai_from_mlc /\ red.mlc
                            THEN hai_companion_add_offset(@, partition_offset) ELSE @,
               !.dev = ForcedDevice(@)]
  /\ UNCHANGED <<vars, haidev>>

\* hai_redirect_mlc2sd renames every occurrence of the eMMC in HAI's code
Redirected(slot) == IF slot = "emmc" THEN "sd" ELSE slot

\* Mutant: the device of the image is not looked at.
rednand_patch_hai_mutant ==
  /\ mcp.at = "companion"
  /\ mcp' = [mcp EXCEPT !.at = "vwii", !.slot = IF red.mlc THEN Redirected(@) ELSE @]
  /\ UNCHANGED <<vars, haidev>>

\* c2w_patches, when vWii is started
rednand_patch_hai ==
  /\ mcp.at = "companion"
  /\ mcp' = [mcp EXCEPT !.at = "vwii",
                        !.slot = IF hai_from_mlc /\ red.mlc THEN Redirected(@) ELSE @]
  /\ UNCHANGED <<vars, haidev>>

HaiNext ==
  \/ Next /\ UNCHANGED haivars
  \/ \E a \in attached, image \in Images : get_block_addr_haidev_patch(a, image)
  \/ hai_write_file_patch
  \/ rednand_patch_hai

HaiSpec ==
  HaiInit /\ [][HaiNext]_<<vars, haivars>>
    /\ WF_vars(Startup /\ UNCHANGED haivars) /\ WF_vars(Md /\ UNCHANGED haivars)

-----------------------------------------------------------------------------
(* Properties *)

Sectors(extents) ==
  UNION {{e.unit * 2^UnitShift + j : j \in 0..e.len * 2^UnitShift - 1} :
           e \in {extents[i] : i \in DOMAIN extents}}

\* HAI's raw medium (external): the string redirected or not, or a USB drive
Medium == IF mcp.dev = "mlc" THEN mcp.slot ELSE "usb"

\* vWii reads the image it was started for: the sectors the companion file names
\* (hai_companion_add_offset) on the medium HAI opens (rednand_patch_hai) are
\* those IOSU has the image in (read_wrapper), whether the image is on redMLC or on
\* the eMMC, as MLC or as USB, and whatever start of vWii was given up before.
HaiReadsImage ==
  mcp.at = "vwii" =>
    {<<Medium, s>> : s \in Sectors(mcp.buffer)} =
      {read_wrapper(mcp.disk, s) : s \in Sectors(mcp.image)}
=============================================================================
