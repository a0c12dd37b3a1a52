----------------------------- MODULE MCRednand -----------------------------
(***************************************************************************)
(* Rednand and Hai for every configuration the newest minute can write, and,  *)
(* with everything asked for, older and newer versions of the configuration,  *)
(* a minute that is too old, another IOSU version and a truncated SEEPROM.   *)
(***************************************************************************)
EXTENDS Hai

Current == [minute : {TRUE}, is_55x : {TRUE}, rednand : {TRUE}, ver : {3},
            slc : BOOLEAN, slccmpt : BOOLEAN, mlc : BOOLEAN, disable_scfm : BOOLEAN,
            scfm_on_slccmpt : {FALSE}, mlc_nocrypto : BOOLEAN,
            sys_mount_mlc : BOOLEAN, seeprom : {"none", "full"}]

Everything == [minute |-> TRUE, is_55x |-> TRUE, rednand |-> TRUE, ver |-> 3,
               slc |-> FALSE, slccmpt |-> TRUE, mlc |-> TRUE, disable_scfm |-> TRUE,
               scfm_on_slccmpt |-> FALSE, mlc_nocrypto |-> TRUE,
               sys_mount_mlc |-> TRUE, seeprom |-> "none"]

MCBoots ==
  Current
    \cup {[Everything EXCEPT !.ver = v] : v \in {0, 1, 2, 4}}
    \cup {[Everything EXCEPT !.minute = FALSE], [Everything EXCEPT !.is_55x = FALSE],
          [Everything EXCEPT !.rednand = FALSE], [Everything EXCEPT !.seeprom = "small"],
          [Everything EXCEPT !.scfm_on_slccmpt = TRUE]}

\* one word of the drive key and one other
MCWords == {"drive_key", "boot1_version"}
MCDriveKey == {"drive_key"}

\* an image in two extents; behind the partition's offset one of them ends above
\* the lower word of a sector's address
MCImages == {<<[unit |-> 0, len |-> 1], [unit |-> 2, len |-> 1]>>}
=============================================================================
