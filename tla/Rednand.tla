------------------------------ MODULE Rednand ------------------------------
(***************************************************************************)
(* redNAND's decisions: init_config (main.c) reads what minute left in PRSH, *)
(* rednand_init (rednand.c) and redseeprom_enable patch IOS-FS and IOS-BSP    *)
(* accordingly, and the hooks they install act when IOSU attaches the eMMC    *)
(* and the SD card, mounts WFS on them and uses the SEEPROM. Start-up is one  *)
(* thread; afterwards the threads of IOSU interleave.                         *)
(***************************************************************************)
EXTENDS Naturals, FiniteSets

CONSTANTS
  Boots,     \* what PRSH and the IOSU version can be, see MCRednand
  Words,     \* words of the SEEPROM
  DriveKey,  \* the words 0x40..0x47 of them
  Data       \* what a word can hold

\* what init_config and rednand_init look at
BootRecords ==
  [minute : BOOLEAN, is_55x : BOOLEAN, rednand : BOOLEAN, ver : Nat,
   slc : BOOLEAN, slccmpt : BOOLEAN, mlc : BOOLEAN, disable_scfm : BOOLEAN,
   scfm_on_slccmpt : BOOLEAN, mlc_nocrypto : BOOLEAN, sys_mount_mlc : BOOLEAN,
   seeprom : {"none", "small", "full"}]

ASSUME RednandAssumption == Boots \subseteq BootRecords /\ DriveKey \subseteq Words

VARIABLES
  boot,      \* the boot this is; never changed
  stage,     \* how far kern_main's start-up is
  red,       \* the globals of rednand.c and sal_partition.c
  patch,     \* the patched places of IOS-FS
  bsp,       \* the patched SEEPROM functions of IOS-BSP
  attached,  \* the devices IOSU's storage layer knows
  busy,      \* what the md thread is in the middle of attaching
  handle,    \* sysmlc_server_handle and mlc_server_handle: set or not
  key,       \* key[d]: the key WFS uses for device d
  rom        \* the SEEPROM, its copy in RAM, and their write enables

vars == <<boot, stage, red, patch, bsp, attached, busy, handle, key, rom>>
fsvars == <<attached, busy, handle, key>>

\* The storage devices: the eMMC and the SD card, and the SD card again as MLC.
Disks == {"emmc", "sd", "redmlc"}

-----------------------------------------------------------------------------
(* Start-up *)

NoRed == [slc |-> FALSE, slccmpt |-> FALSE, mlc |-> FALSE, disable_scfm |-> FALSE,
          mlc_nocrypto |-> FALSE, mount_sys |-> FALSE]

\* the unpatched IOSU: call is what 0x107bdae0 does with the eMMC, chain the
\* function sysmlc_attach_hook calls
NoPatch == [call |-> "scfm", chain |-> "none", emmc_type |-> "mlc", scfm_type |-> "mlc",
            scfm |-> TRUE, skip_emmc |-> FALSE, sd_hook |-> FALSE, crypto |-> FALSE]

Init ==
  /\ boot \in Boots
  /\ stage = "config"
  /\ red = NoRed
  /\ patch = NoPatch
  /\ bsp = [read |-> "orig", write |-> "orig", control |-> "orig"]
  /\ attached = {}
  /\ busy = "none"
  /\ handle = {}
  /\ key = [d \in Disks |-> "none"]
  /\ rom = [phys |-> [w \in Words |-> "factory"], phys_enabled |-> FALSE,
            copy |-> [w \in Words |-> "factory"], enabled |-> FALSE]

crash_and_burn == stage' = "dead"

\* init_config up to the call of rednand_init, which checks the size of the
\* configuration (ver is the newest version of rednand_config that fits)
init_config ==
  /\ stage = "config"
  /\ \/ ~boot.minute /\ crash_and_burn
     \/ boot.minute /\ ~boot.rednand /\ stage' = "seeprom"
     \/ /\ boot.minute /\ boot.rednand
        /\ IF boot.is_55x /\ boot.ver >= 1 THEN stage' = "init" ELSE crash_and_burn
  /\ UNCHANGED <<boot, red, patch, bsp, fsvars, rom>>


\* Mutant: sysMLC as USB is not given up with redMLC behind SCFM.
rednand_init_mutant ==
  /\ stage = "init"
  /\ stage' = "scfm"
  /\ red' = [slc |-> boot.slc, slccmpt |-> boot.slccmpt, mlc |-> boot.mlc,
             disable_scfm |-> boot.disable_scfm,
             mlc_nocrypto |-> boot.ver >= 2 /\ boot.mlc_nocrypto,
             mount_sys |-> boot.ver >= 3 /\ boot.sys_mount_mlc /\ ~boot.slc]
  /\ UNCHANGED <<boot, patch, bsp, fsvars, rom>>

\* rednand_init takes over the configuration. sysMLC as USB is given up with
\* redSLC, and with redMLC unless SCFM is disabled.
rednand_init ==
  LET c == boot
      mount == c.ver >= 3 /\ c.sys_mount_mlc
  IN /\ stage = "init"
     /\ stage' = "scfm"
     /\ red' = [slc |-> c.slc, slccmpt |-> c.slccmpt, mlc |-> c.mlc,
                disable_scfm |-> c.disable_scfm,
                mlc_nocrypto |-> c.ver >= 2 /\ c.mlc_nocrypto,
                mount_sys |-> mount /\ ~c.slc /\ (c.mlc => c.disable_scfm)]
     /\ UNCHANGED <<boot, patch, bsp, fsvars, rom>>

apply_scfm_disable_patches ==
  /\ stage = "scfm"
  /\ stage' = "slc"
  /\ patch' = IF red.disable_scfm /\ ~red.mount_sys
              THEN [patch EXCEPT !.scfm = FALSE, !.call = "sal"]
              ELSE patch
  /\ UNCHANGED <<boot, red, bsp, fsvars, rom>>

\* of rednand_apply_slc_patches, the part about the SEEPROM; SdRedirect is
\* about the rest
rednand_apply_slc_patches ==
  /\ stage = "slc"
  /\ stage' = "mount"
  /\ bsp' = IF red.slc \/ red.slccmpt
            THEN [bsp EXCEPT !.write = "skip", !.control = "skip"]
            ELSE bsp
  /\ UNCHANGED <<boot, red, patch, fsvars, rom>>


\* Mutant: the type the eMMC is attached with is not patched.
mount_sys_mutant ==
  /\ stage = "mount"
  /\ stage' = "mlc"
  /\ patch' = IF red.mount_sys
              THEN [patch EXCEPT !.scfm_type = "usb", !.call = "hook", !.chain = patch.call]
              ELSE patch
  /\ UNCHANGED <<boot, red, bsp, fsvars, rom>>

\* trampoline_blreplace keeps the call it replaces
rednand_apply_mount_sys_mlc_patches ==
  /\ stage = "mount"
  /\ stage' = "mlc"
  /\ patch' = IF red.mount_sys
              THEN [patch EXCEPT !.emmc_type = "usb", !.scfm_type = "usb",
                                 !.call = "hook", !.chain = patch.call]
              ELSE patch
  /\ UNCHANGED <<boot, red, bsp, fsvars, rom>>


\* Mutant: the eMMC is skipped although it is to be mounted as USB.
mlc_patches_mutant ==
  /\ stage = "mlc"
  /\ stage' = "crypto"
  /\ patch' = IF red.mlc THEN [patch EXCEPT !.sd_hook = TRUE, !.skip_emmc = TRUE, !.call = "fail"]
              ELSE patch
  /\ UNCHANGED <<boot, red, bsp, fsvars, rom>>

rednand_apply_mlc_patches ==
  /\ stage = "mlc"
  /\ stage' = "crypto"
  /\ patch' = IF ~red.mlc THEN patch
              ELSE IF red.mount_sys THEN [patch EXCEPT !.sd_hook = TRUE]
              ELSE [patch EXCEPT !.sd_hook = TRUE, !.skip_emmc = TRUE, !.call = "fail"]
  /\ UNCHANGED <<boot, red, bsp, fsvars, rom>>

\* the end of rednand_init: a build without MLC_ACCELERATE stops if the
\* configuration wants SCFM on SLCCMPT
rednand_install_crypto_hooks ==
  /\ stage = "crypto"
  /\ patch' = [patch EXCEPT !.crypto = red.mlc_nocrypto \/ red.mount_sys]
  /\ stage' = IF boot.scfm_on_slccmpt THEN "dead" ELSE "seeprom"
  /\ UNCHANGED <<boot, red, bsp, fsvars, rom>>


\* Mutant: redseeprom_enable leaves the write function alone.
redseeprom_enable_mutant ==
  /\ stage = "seeprom"
  /\ stage' = IF boot.seeprom = "small" THEN "dead" ELSE "running"
  /\ bsp' = IF boot.seeprom = "full" THEN [read |-> "copy", write |-> "orig", control |-> "orig"]
            ELSE bsp
  /\ UNCHANGED <<boot, red, patch, fsvars, rom>>

\* the end of init_config, and redseeprom_enable
redseeprom_enable ==
  /\ stage = "seeprom"
  /\ \/ /\ boot.seeprom = "none"
        /\ stage' = "running"
        /\ UNCHANGED bsp
     \/ /\ boot.seeprom = "small"
        /\ crash_and_burn
        /\ UNCHANGED bsp
     \/ /\ boot.seeprom = "full"
        /\ stage' = "running"
        /\ bsp' = [read |-> "copy", write |-> "copy", control |-> "copy"]
  /\ UNCHANGED <<boot, red, patch, fsvars, rom>>

-----------------------------------------------------------------------------
(* Attaching devices: the md thread of IOS-FS (external), and our hooks. *)

Running == stage = "running"

Known(d) == \E a \in attached : a.disk = d

Attach(d, type, via) == attached' = attached \cup {[disk |-> d, type |-> type, via |-> via]}

\* skip_mlc_attch_hook jumps over the attachment of the eMMC; the patched call
\* would return an error
AttachEmmc ==
  /\ Running /\ busy = "none"
  /\ ~Known("emmc")
  /\ ~patch.skip_emmc
  /\ patch.call \in {"scfm", "sal"}
  /\ Attach("emmc", patch.emmc_type, patch.call)
  /\ UNCHANGED <<boot, stage, red, patch, bsp, busy, handle, key, rom>>


\* Mutant: the eMMC is attached before its handle is noted.
sysmlc_attach_hook_mutant ==
  /\ Running /\ busy = "none"
  /\ ~Known("emmc")
  /\ ~patch.skip_emmc
  /\ patch.call = "hook"
  /\ Attach("emmc", patch.emmc_type, patch.chain)
  /\ busy' = "emmc"
  /\ UNCHANGED <<boot, stage, red, patch, bsp, handle, key, rom>>

\* sysmlc_attach_hook notes the handle before it calls the attach function
sysmlc_attach_hook ==
  /\ Running /\ busy = "none"
  /\ ~Known("emmc")
  /\ ~patch.skip_emmc
  /\ patch.call = "hook"
  /\ handle' = handle \cup {"emmc"}
  /\ busy' = "emmc"
  /\ UNCHANGED <<boot, stage, red, patch, bsp, attached, key, rom>>

sysmlc_attach_hook_call ==
  /\ busy = "emmc"
  /\ Attach("emmc", patch.emmc_type, patch.chain)
  /\ busy' = "none"
  /\ UNCHANGED <<boot, stage, red, patch, bsp, handle, key, rom>>

\* the SD card is attached by IOSU
AttachSd ==
  /\ Running /\ busy = "none"
  /\ ~Known("sd")
  /\ Attach("sd", "sd", "sal")
  /\ busy' = IF patch.sd_hook THEN "sd" ELSE "none"
  /\ UNCHANGED <<boot, stage, red, patch, bsp, handle, key, rom>>

\* ... and then by rednand_register_sd_as_mlc: patch_partition_attach_arg and
\* mlc_server_handle first
rednand_register_sd_as_mlc ==
  /\ busy = "sd"
  /\ handle' = handle \cup {"redmlc"}
  /\ busy' = "redmlc"
  /\ UNCHANGED <<boot, stage, red, patch, bsp, attached, key, rom>>

rednand_register_sd_as_mlc_attach ==
  /\ busy = "redmlc"
  /\ Attach("redmlc", "mlc", IF red.disable_scfm THEN "sal" ELSE "scfm")
  /\ busy' = "none"
  /\ UNCHANGED <<boot, stage, red, patch, bsp, handle, key, rom>>

\* the key IOSU uses for a type of device (external)
DefaultKey(type) == IF type = "usb" THEN "usb" ELSE "mlc"

\* WFS initialises an attached device in a thread of its own, at any time after
\* it became known; wfs_initDeviceParams_exit_hook has the last word
wfs_initDeviceParams_exit_hook(a) ==
  /\ a \in attached
  /\ a.type \in {"mlc", "usb"}
  /\ key[a.disk] = "none"
  /\ key' = [key EXCEPT ![a.disk] =
       IF patch.crypto /\ a.disk = "emmc" /\ "emmc" \in handle THEN "mlc"
       ELSE IF patch.crypto /\ a.disk = "redmlc" /\ "redmlc" \in handle
                            /\ red.mlc_nocrypto THEN "nocrypto"
       ELSE DefaultKey(a.type)]
  /\ UNCHANGED <<boot, stage, red, patch, bsp, attached, busy, handle, rom>>

-----------------------------------------------------------------------------
(* The SEEPROM *)

\* redseeprom_write_control, or eepromDrv's own (external): 1 disables, 2 enables, 3 and
\* anything else are refused ("erase all" is never used, the code says)
redseeprom_write_control(cmd) ==
  /\ Running
  /\ rom' = CASE bsp.control = "copy" /\ cmd \in {1, 2} -> [rom EXCEPT !.enabled = (cmd = 2)]
              [] bsp.control = "orig" /\ cmd \in {1, 2} -> [rom EXCEPT !.phys_enabled = (cmd = 2)]
              [] bsp.control = "skip" \/ cmd \notin {1, 2} -> rom
  /\ UNCHANGED <<boot, stage, red, patch, bsp, fsvars>>

\* redseeprom_write_word, or eepromDrvWriteWord (external)
redseeprom_write_word(w, v) ==
  /\ Running
  /\ rom' = CASE bsp.write = "copy" ->
                   IF rom.enabled THEN [rom EXCEPT !.copy[w] = v] ELSE rom
              [] bsp.write = "orig" ->
                   IF rom.phys_enabled THEN [rom EXCEPT !.phys[w] = v] ELSE rom
              [] bsp.write = "skip" -> rom
  /\ UNCHANGED <<boot, stage, red, patch, bsp, fsvars>>

\* redseeprom_read_word: the drive key always comes from the chip
redseeprom_read_word(w) ==
  IF bsp.read = "copy" /\ w \notin DriveKey THEN rom.copy[w] ELSE rom.phys[w]

-----------------------------------------------------------------------------
Startup ==
  \/ init_config \/ rednand_init \/ apply_scfm_disable_patches
  \/ rednand_apply_slc_patches \/ rednand_apply_mount_sys_mlc_patches
  \/ rednand_apply_mlc_patches \/ rednand_install_crypto_hooks \/ redseeprom_enable

Md ==
  \/ AttachEmmc \/ sysmlc_attach_hook \/ sysmlc_attach_hook_call
  \/ AttachSd \/ rednand_register_sd_as_mlc \/ rednand_register_sd_as_mlc_attach

Next ==
  \/ Startup
  \/ Md
  \/ \E a \in attached : wfs_initDeviceParams_exit_hook(a)
  \/ \E cmd \in 1..4 : redseeprom_write_control(cmd)
  \/ \E w \in Words, v \in Data : redseeprom_write_word(w, v)

\* Start-up and the md thread run on.
Spec == Init /\ [][Next]_vars /\ WF_vars(Startup) /\ WF_vars(Md)

-----------------------------------------------------------------------------
(* Properties *)

\* Whatever the configuration, IOSU never sees two devices as its MLC, and with
\* redMLC the eMMC is not the one it sees: the patches of
\* rednand_apply_mlc_patches and rednand_apply_mount_sys_mlc_patches, which
\* overwrite each other's call at 0x107bdae0, leave exactly one of the two.
OneMlc ==
  \A a, b \in attached : a.type = "mlc" /\ b.type = "mlc" => a = b /\ (red.mlc => a.disk = "redmlc")

\* A device attached through SCFM finds SCFM initialised and looking for its
\* type, and there is only one: FSSCFMInit is stubbed by
\* apply_scfm_disable_patches only if nothing will call FSSCFM_attach_device.
ScfmFits ==
  \A a, b \in attached :
    a.via = "scfm" /\ b.via = "scfm" => a = b /\ patch.scfm /\ a.type = patch.scfm_type

\* WFS uses the key each medium was encrypted with: the eMMC the MLC key even if
\* IOSU takes it for a USB drive, redMLC the MLC key unless the configuration
\* says it is in plain text. WFS may ask as soon as a device is attached, so
\* the hooks have to know its server handle by then.
KeysRight ==
  /\ key["emmc"] \in {"none", "mlc"}
  /\ key["redmlc"] \in {"none", IF red.mlc_nocrypto THEN "nocrypto" ELSE "mlc"}

\* The chip is never written with a redirected SLC ("the SEEPROM version should
\* NOT be synced to the SD card version", rednand.c) or a copy in RAM, whichever
\* of the two sets of patches to the same functions came last, and the drive
\* key is always read from the chip.
SeepromIntact ==
  red.slc \/ red.slccmpt \/ bsp.read = "copy" =>
    /\ \A w \in Words : rom.phys[w] = "factory"
    /\ \A w \in DriveKey : redseeprom_read_word(w) = "factory"

\* Start-up ends, and then every device the configuration asks for appears: an
\* MLC unless the eMMC was given away as USB with nothing in its place, and
\* the eMMC as USB if that was asked for and allowed.
DevicesAppear ==
  /\ <>(stage \in {"running", "dead"})
  /\ Running /\ (red.mount_sys => red.mlc) ~> \E a \in attached : a.type = "mlc"
  /\ Running /\ red.mount_sys ~> \E a \in attached : a.disk = "emmc" /\ a.type = "usb"
=============================================================================
