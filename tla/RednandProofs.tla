--------------------------- MODULE RednandProofs ---------------------------
(***************************************************************************)
(* Proofs about Rednand and Hai: for every configuration minute can leave in  *)
(* PRSH, every SEEPROM, every partition and every image.                      *)
(***************************************************************************)
EXTENDS Hai, TLAPS

-----------------------------------------------------------------------------
(* The inductive invariant of Rednand. Start-up applies its patches one after
   the other to the same places, so the invariant says what they add up to at
   each stage, as a function of the configuration taken over. *)

RedRecords == [slc : BOOLEAN, slccmpt : BOOLEAN, mlc : BOOLEAN, disable_scfm : BOOLEAN,
               mlc_nocrypto : BOOLEAN, mount_sys : BOOLEAN]

\* no SCFM at all: what the eMMC is attached with is replaced
ScfmOff(r) == r.disable_scfm /\ ~r.mount_sys

EmmcSkipped(r) == r.mlc /\ ~r.mount_sys

\* what the eMMC is attached with before the other patches replace it
FirstCall(r) == IF ScfmOff(r) THEN "sal" ELSE "scfm"

AfterScfm(r) ==
  [call |-> FirstCall(r), chain |-> "none", emmc_type |-> "mlc", scfm_type |-> "mlc",
   scfm |-> ~ScfmOff(r), skip_emmc |-> FALSE, sd_hook |-> FALSE, crypto |-> FALSE]

EmmcType(r) == IF r.mount_sys THEN "usb" ELSE "mlc"
Chain(r) == IF r.mount_sys THEN "scfm" ELSE "none"

AfterMount(r) ==
  [call |-> IF r.mount_sys THEN "hook" ELSE FirstCall(r), chain |-> Chain(r),
   emmc_type |-> EmmcType(r), scfm_type |-> EmmcType(r),
   scfm |-> ~ScfmOff(r), skip_emmc |-> FALSE, sd_hook |-> FALSE, crypto |-> FALSE]

LastCall(r) == IF r.mount_sys THEN "hook" ELSE IF r.mlc THEN "fail" ELSE FirstCall(r)

AfterMlc(r) ==
  [call |-> LastCall(r), chain |-> Chain(r), emmc_type |-> EmmcType(r),
   scfm_type |-> EmmcType(r), scfm |-> ~ScfmOff(r), skip_emmc |-> EmmcSkipped(r),
   sd_hook |-> r.mlc, crypto |-> FALSE]

AfterCrypto(r) ==
  [call |-> LastCall(r), chain |-> Chain(r), emmc_type |-> EmmcType(r),
   scfm_type |-> EmmcType(r), scfm |-> ~ScfmOff(r), skip_emmc |-> EmmcSkipped(r),
   sd_hook |-> r.mlc, crypto |-> r.mlc_nocrypto \/ r.mount_sys]

\* What is taken over from the configuration, and the patches by then.
Patched ==
  /\ boot \in BootRecords
  /\ red \in RedRecords
  /\ red.mount_sys => ~red.slc /\ (red.mlc => red.disable_scfm)
  /\ stage \in {"config", "init"} => red = NoRed /\ patch = NoPatch
  /\ stage = "scfm" => patch = NoPatch
  /\ stage \in {"slc", "mount"} => patch = AfterScfm(red)
  /\ stage = "mlc" => patch = AfterMount(red)
  /\ stage = "crypto" => patch = AfterMlc(red)
  /\ stage \in {"seeprom", "running"} => patch = AfterCrypto(red)
  /\ stage \in {"config", "init", "scfm", "slc", "mount", "mlc", "crypto", "seeprom",
                "running", "dead"}

\* the devices that can appear, and how
Emmc(r) == [disk |-> "emmc", type |-> EmmcType(r), via |-> FirstCall(r)]
SdCard == [disk |-> "sd", type |-> "sd", via |-> "sal"]
RedMlc(r) == [disk |-> "redmlc", type |-> "mlc",
              via |-> IF r.disable_scfm THEN "sal" ELSE "scfm"]

\* The devices are attached as the configuration says, and the handles WFS will be
\* asked for are noted first.
Attached ==
  /\ ~Running => attached = {} /\ busy = "none"
  /\ \A a \in attached :
       \/ a = Emmc(red) /\ ~EmmcSkipped(red)
       \/ a = SdCard
       \/ a = RedMlc(red) /\ red.mlc
  /\ busy \in {"none", "emmc", "sd", "redmlc"}
  /\ busy = "emmc" => red.mount_sys /\ "emmc" \in handle
  /\ busy \in {"sd", "redmlc"} => red.mlc
  /\ busy = "redmlc" => "redmlc" \in handle
  /\ \A a \in attached : a.disk = "emmc" /\ red.mount_sys => "emmc" \in handle
  /\ \A a \in attached : a.disk = "redmlc" => "redmlc" \in handle

\* WFS has keys for attached devices only, and no key for the SD card.
Keyed ==
  /\ key \in [Disks -> {"none", "mlc", "usb", "nocrypto"}]
  /\ ~Running => \A d \in Disks : key[d] = "none"
  /\ key["sd"] = "none"
  /\ KeysRight

\* Whichever functions of IOS-BSP are patched, the chip's write function is among
\* them if it has to be.
Guarded ==
  /\ bsp \in [read : {"orig", "copy"}, write : {"orig", "skip", "copy"},
              control : {"orig", "skip", "copy"}]
  /\ stage \in {"config", "init", "scfm", "slc"} => bsp.write = "orig"
  /\ stage \in {"mount", "mlc", "crypto", "seeprom"} =>
       (red.slc \/ red.slccmpt => bsp.write = "skip")
  /\ stage \notin {"running", "dead"} => bsp.read = "orig"
  /\ Running => (red.slc \/ red.slccmpt \/ bsp.read = "copy" => bsp.write # "orig")

SeepromKept ==
  /\ rom.phys \in [Words -> Data \cup {"factory"}]
  /\ rom.copy \in [Words -> Data \cup {"factory"}]
  /\ rom = [phys |-> rom.phys, phys_enabled |-> rom.phys_enabled,
            copy |-> rom.copy, enabled |-> rom.enabled]
  /\ ~Running \/ red.slc \/ red.slccmpt \/ bsp.read = "copy" =>
       \A w \in Words : rom.phys[w] = "factory"

RInv == Patched /\ Attached /\ Keyed /\ Guarded /\ SeepromKept

-----------------------------------------------------------------------------
(* Rednand *)

\* The initial states satisfy the inductive invariant.
LEMMA InitRInv == Init => RInv
<1> SUFFICES ASSUME Init PROVE RInv
  OBVIOUS
<1>1. Patched
  BY RednandAssumption DEF Init, Patched, RedRecords, NoRed
<1>2. Attached
  BY DEF Init, Attached, Running
<1>3. Keyed
  BY DEF Init, Keyed, KeysRight, Disks, Running
<1>4. Guarded
  BY DEF Init, Guarded, Running
<1>5. SeepromKept
  BY DEF Init, SeepromKept, Running
<1> QED
  BY <1>1, <1>2, <1>3, <1>4, <1>5 DEF RInv

\* The patches add up to what the invariant says.
LEMMA StartupPatched ==
  ASSUME Patched, Startup
  PROVE  Patched'
<1> USE DEF Patched
<1>1. CASE init_config
  <2>1. /\ UNCHANGED <<boot, red, patch>> /\ stage = "config"
        /\ stage' \in {"dead", "seeprom", "init"}
    BY <1>1 DEF init_config, crash_and_burn
  <2>2. NoPatch = AfterCrypto(NoRed)
    BY DEF NoPatch, AfterCrypto, LastCall, FirstCall, Chain, EmmcType, ScfmOff, EmmcSkipped,
           NoRed
  <2> QED
    BY <2>1, <2>2
<1>2. CASE rednand_init
  <2>1. red' \in RedRecords
    BY <1>2 DEF rednand_init, BootRecords, RedRecords
  <2>2. red'.mount_sys => ~red'.slc /\ (red'.mlc => red'.disable_scfm)
    BY <1>2 DEF rednand_init, BootRecords
  <2>3. stage' = "scfm" /\ UNCHANGED <<boot, patch>> /\ patch = NoPatch
    BY <1>2 DEF rednand_init
  <2> QED
    BY <2>1, <2>2, <2>3
<1>3. CASE apply_scfm_disable_patches
  <2>1. stage' = "slc" /\ UNCHANGED <<boot, red>> /\ patch = NoPatch
    BY <1>3 DEF apply_scfm_disable_patches
  <2>2. patch' = AfterScfm(red)
    <3>1. CASE ScfmOff(red)
      BY <1>3, <2>1, <3>1 DEF apply_scfm_disable_patches, AfterScfm, FirstCall, ScfmOff, NoPatch
    <3>2. CASE ~ScfmOff(red)
      BY <1>3, <2>1, <3>2 DEF apply_scfm_disable_patches, AfterScfm, FirstCall, ScfmOff, NoPatch
    <3> QED
      BY <3>1, <3>2
  <2> QED
    BY <2>1, <2>2
<1>4. CASE rednand_apply_slc_patches
  BY <1>4 DEF rednand_apply_slc_patches
<1>5. CASE rednand_apply_mount_sys_mlc_patches
  <2>1. stage' = "mlc" /\ UNCHANGED <<boot, red>> /\ patch = AfterScfm(red)
    BY <1>5 DEF rednand_apply_mount_sys_mlc_patches
  <2>2. patch' = AfterMount(red)
    <3> USE DEF rednand_apply_mount_sys_mlc_patches, AfterScfm, AfterMount, FirstCall,
                ScfmOff, Chain, EmmcType
    <3>1. CASE red.mount_sys
      BY <1>5, <2>1, <3>1
    <3>2. CASE ~red.mount_sys
      BY <1>5, <2>1, <3>2
    <3> QED
      BY <3>1, <3>2
  <2> QED
    BY <2>1, <2>2
<1>6. CASE rednand_apply_mlc_patches
  <2>1. stage' = "crypto" /\ UNCHANGED <<boot, red>> /\ patch = AfterMount(red)
    BY <1>6 DEF rednand_apply_mlc_patches
  <2>2. patch' = AfterMlc(red)
    <3> USE DEF rednand_apply_mlc_patches, AfterMount, AfterMlc, LastCall, EmmcSkipped, RedRecords
    <3>1. CASE ~red.mlc
      BY <1>6, <2>1, <3>1
    <3>2. CASE red.mlc /\ red.mount_sys
      BY <1>6, <2>1, <3>2
    <3>3. CASE red.mlc /\ ~red.mount_sys
      BY <1>6, <2>1, <3>3
    <3> QED
      BY <3>1, <3>2, <3>3
  <2> QED
    BY <2>1, <2>2
<1>7. CASE rednand_install_crypto_hooks
  <2>1. stage' \in {"dead", "seeprom"} /\ UNCHANGED <<boot, red>> /\ patch = AfterMlc(red)
    BY <1>7 DEF rednand_install_crypto_hooks
  <2>2. patch' = AfterCrypto(red)
    BY <1>7, <2>1 DEF rednand_install_crypto_hooks, AfterCrypto, AfterMlc
  <2> QED
    BY <2>1, <2>2
<1>8. CASE redseeprom_enable
  <2>1. stage' \in {"dead", "running"} /\ stage = "seeprom" /\ UNCHANGED <<boot, red, patch>>
    BY <1>8 DEF redseeprom_enable, crash_and_burn
  <2> QED
    BY <2>1
<1> QED
  BY <1>1, <1>2, <1>3, <1>4, <1>5, <1>6, <1>7, <1>8 DEF Startup

\* Start-up guards the SEEPROM and attaches nothing.
LEMMA StartupGuards ==
  ASSUME RInv, Startup
  PROVE  Guarded' /\ Attached' /\ Keyed' /\ SeepromKept'
<1>1. ~Running /\ UNCHANGED <<attached, busy, handle, key, rom>>
  BY DEF Startup, Running, init_config, rednand_init, apply_scfm_disable_patches,
         rednand_apply_slc_patches, rednand_apply_mount_sys_mlc_patches,
         rednand_apply_mlc_patches, rednand_install_crypto_hooks, redseeprom_enable, fsvars
<1>2. Attached'
  BY <1>1 DEF RInv, Attached
<1>3. Keyed'
  <2>1. \A d \in Disks : key'[d] = "none"
    BY <1>1 DEF RInv, Keyed
  <2> QED
    BY <1>1, <2>1 DEF RInv, Keyed, KeysRight, Disks
<1>4. SeepromKept'
  BY <1>1 DEF RInv, SeepromKept
<1>5. Guarded'
  <2> USE DEF RInv, Guarded, Running
  <2>1. CASE init_config
    BY <2>1 DEF init_config, crash_and_burn, Patched, NoRed
  <2>2. CASE rednand_init
    BY <2>2 DEF rednand_init
  <2>3. CASE apply_scfm_disable_patches
    BY <2>3 DEF apply_scfm_disable_patches
  <2>4. CASE rednand_apply_slc_patches
    BY <2>4 DEF rednand_apply_slc_patches
  <2>5. CASE rednand_apply_mount_sys_mlc_patches
    BY <2>5 DEF rednand_apply_mount_sys_mlc_patches
  <2>6. CASE rednand_apply_mlc_patches
    BY <2>6 DEF rednand_apply_mlc_patches
  <2>7. CASE rednand_install_crypto_hooks
    BY <2>7 DEF rednand_install_crypto_hooks
  <2>8. CASE redseeprom_enable
    BY <2>8 DEF redseeprom_enable, crash_and_burn
  <2> QED
    BY <2>1, <2>2, <2>3, <2>4, <2>5, <2>6, <2>7, <2>8 DEF Startup
<1> QED
  BY <1>2, <1>3, <1>4, <1>5

\* In a running system the patches and the configuration stay.
LEMMA RunningPatch ==
  ASSUME Patched, Running
  PROVE  /\ patch.call = LastCall(red) /\ patch.chain = Chain(red)
         /\ patch.emmc_type = EmmcType(red) /\ patch.scfm_type = EmmcType(red)
         /\ patch.scfm <=> ~ScfmOff(red)
         /\ patch.skip_emmc <=> EmmcSkipped(red)
         /\ patch.sd_hook <=> red.mlc
         /\ patch.crypto <=> red.mlc_nocrypto \/ red.mount_sys
<1>1. patch = AfterCrypto(red) /\ red \in RedRecords
  BY DEF Patched, Running
<1>2. /\ patch.call = LastCall(red) /\ patch.chain = Chain(red)
      /\ patch.emmc_type = EmmcType(red) /\ patch.scfm_type = EmmcType(red)
  BY <1>1 DEF AfterCrypto
<1>3. patch.scfm <=> ~ScfmOff(red)
  BY <1>1 DEF AfterCrypto
<1>4. patch.skip_emmc <=> EmmcSkipped(red)
  BY <1>1 DEF AfterCrypto
<1>5. patch.sd_hook <=> red.mlc
  BY <1>1 DEF AfterCrypto, RedRecords
<1>6. patch.crypto <=> red.mlc_nocrypto \/ red.mount_sys
  BY <1>1 DEF AfterCrypto, RedRecords
<1> QED
  BY <1>2, <1>3, <1>4, <1>5, <1>6

\* Attaching a device, with its hooks, keeps to the configuration.
LEMMA MdStep ==
  ASSUME RInv, Md
  PROVE  RInv'
<1>1. Running /\ UNCHANGED <<boot, stage, red, patch, bsp, key, rom>>
  BY DEF Md, AttachEmmc, sysmlc_attach_hook, sysmlc_attach_hook_call, AttachSd,
         rednand_register_sd_as_mlc, rednand_register_sd_as_mlc_attach, RInv, Attached
<1>2. Patched' /\ Keyed' /\ Guarded' /\ SeepromKept'
  <2>1. Patched'
    BY <1>1 DEF RInv, Patched
  <2>2. Keyed'
    BY <1>1 DEF RInv, Keyed, KeysRight, Running
  <2>3. Guarded'
    BY <1>1 DEF RInv, Guarded, Running
  <2>4. SeepromKept'
    BY <1>1 DEF RInv, SeepromKept, Running
  <2> QED
    BY <2>1, <2>2, <2>3, <2>4
<1>3. Attached /\ Patched
  BY DEF RInv
<1>4. red \in RedRecords
  BY <1>3 DEF Patched
<1>5. Attached'
  <2> USE DEF Attached, Running
  <2>1. CASE AttachEmmc
    <3>1. ~red.mount_sys /\ ~EmmcSkipped(red) /\ patch.call = FirstCall(red)
      BY <1>1, <1>3, <1>4, <2>1, RunningPatch DEF AttachEmmc, LastCall, EmmcSkipped, RedRecords
    <3>2. attached' = attached \cup {Emmc(red)} /\ UNCHANGED <<busy, handle>>
      BY <1>1, <1>3, <2>1, <3>1, RunningPatch DEF AttachEmmc, Attach, Emmc
    <3>3. Emmc(red).disk = "emmc"
      BY DEF Emmc
    <3> QED
      BY <1>1, <1>3, <3>1, <3>2, <3>3
  <2>2. CASE sysmlc_attach_hook
    <3>1. red.mount_sys
      BY <1>1, <1>3, <1>4, <2>2, RunningPatch
         DEF sysmlc_attach_hook, LastCall, FirstCall, RedRecords
    <3> QED
      BY <1>1, <1>3, <2>2, <3>1 DEF sysmlc_attach_hook
  <2>3. CASE sysmlc_attach_hook_call
    <3>1. red.mount_sys /\ ~EmmcSkipped(red) /\ "emmc" \in handle
      BY <1>3, <2>3 DEF sysmlc_attach_hook_call, EmmcSkipped
    <3>2. patch.chain = FirstCall(red)
      BY <1>1, <1>3, <3>1, RunningPatch DEF Chain, FirstCall, ScfmOff
    <3>3. attached' = attached \cup {Emmc(red)} /\ handle' = handle /\ busy' = "none"
      BY <1>1, <1>3, <2>3, <3>2, RunningPatch DEF sysmlc_attach_hook_call, Attach, Emmc
    <3>4. Emmc(red).disk = "emmc"
      BY DEF Emmc
    <3> QED
      BY <1>1, <1>3, <3>1, <3>3, <3>4
  <2>4. CASE AttachSd
    <3>1. attached' = attached \cup {SdCard} /\ handle' = handle
      BY <2>4 DEF AttachSd, Attach, SdCard
    <3>2. busy' = "none" \/ (busy' = "sd" /\ red.mlc)
      BY <1>1, <1>3, <2>4, RunningPatch DEF AttachSd
    <3>3. SdCard.disk = "sd"
      BY DEF SdCard
    <3> QED
      BY <1>1, <1>3, <3>1, <3>2, <3>3
  <2>5. CASE rednand_register_sd_as_mlc
    BY <1>1, <1>3, <2>5 DEF rednand_register_sd_as_mlc
  <2>6. CASE rednand_register_sd_as_mlc_attach
    <3>1. red.mlc /\ "redmlc" \in handle
      BY <1>3, <2>6 DEF rednand_register_sd_as_mlc_attach
    <3>2. attached' = attached \cup {RedMlc(red)} /\ handle' = handle /\ busy' = "none"
      BY <2>6 DEF rednand_register_sd_as_mlc_attach, Attach, RedMlc
    <3>3. RedMlc(red).disk = "redmlc"
      BY DEF RedMlc
    <3> QED
      BY <1>1, <1>3, <3>1, <3>2, <3>3
  <2> QED
    BY <2>1, <2>2, <2>3, <2>4, <2>5, <2>6 DEF Md
<1> QED
  BY <1>2, <1>5 DEF RInv

\* WFS gets the right key for a device whenever it asks.
LEMMA WfsStep ==
  ASSUME RInv, NEW a \in attached, wfs_initDeviceParams_exit_hook(a)
  PROVE  RInv'
<1>1. Running /\ UNCHANGED <<boot, stage, red, patch, bsp, attached, busy, handle, rom>>
  BY DEF wfs_initDeviceParams_exit_hook, RInv, Attached
<1>2. Patched' /\ Attached' /\ Guarded' /\ SeepromKept'
  <2>1. Patched'
    BY <1>1 DEF RInv, Patched
  <2>2. Attached'
    BY <1>1 DEF RInv, Attached, Running
  <2>3. Guarded'
    BY <1>1 DEF RInv, Guarded, Running
  <2>4. SeepromKept'
    BY <1>1 DEF RInv, SeepromKept, Running
  <2> QED
    BY <2>1, <2>2, <2>3, <2>4
<1>3. red \in RedRecords /\ (patch.crypto <=> red.mlc_nocrypto \/ red.mount_sys)
  BY <1>1, RunningPatch DEF RInv, Patched
<1>4. key \in [Disks -> {"none", "mlc", "usb", "nocrypto"}]
  BY DEF RInv, Keyed
<1>5. \/ a = Emmc(red) /\ a.disk = "emmc" /\ a.type = EmmcType(red)
        /\ (red.mount_sys => "emmc" \in handle)
      \/ a = RedMlc(red) /\ a.disk = "redmlc" /\ a.type = "mlc" /\ "redmlc" \in handle
  BY DEF wfs_initDeviceParams_exit_hook, RInv, Attached, Emmc, SdCard, RedMlc
<1>6. Keyed'
  <2>1. CASE a.disk = "emmc"
    <3>1. key' = [key EXCEPT !["emmc"] = "mlc"]
      <4>1. CASE red.mount_sys
        BY <1>3, <1>5, <2>1, <4>1 DEF wfs_initDeviceParams_exit_hook
      <4>2. CASE ~red.mount_sys
        BY <1>3, <1>5, <2>1, <4>2 DEF wfs_initDeviceParams_exit_hook, EmmcType, DefaultKey
      <4> QED
        BY <4>1, <4>2
    <3> QED
      BY <1>1, <1>4, <3>1 DEF RInv, Keyed, KeysRight, Running, Disks
  <2>2. CASE a.disk = "redmlc"
    <3>1. key' = [key EXCEPT !["redmlc"] = IF red.mlc_nocrypto THEN "nocrypto" ELSE "mlc"]
      <4>1. CASE red.mlc_nocrypto
        BY <1>3, <1>5, <2>2, <4>1 DEF wfs_initDeviceParams_exit_hook
      <4>2. CASE ~red.mlc_nocrypto
        BY <1>3, <1>5, <2>2, <4>2 DEF wfs_initDeviceParams_exit_hook, DefaultKey
      <4> QED
        BY <4>1, <4>2
    <3> QED
      BY <1>1, <1>4, <3>1 DEF RInv, Keyed, KeysRight, Running, Disks
  <2> QED
    BY <1>5, <2>1, <2>2
<1> QED
  BY <1>2, <1>6 DEF RInv

\* The SEEPROM's chip is written only where that is allowed.
LEMMA SeepromStep ==
  ASSUME RInv,
         \/ \E cmd \in 1..4 : redseeprom_write_control(cmd)
         \/ \E w \in Words, v \in Data : redseeprom_write_word(w, v)
  PROVE  RInv'
<1>1. Running /\ UNCHANGED <<boot, stage, red, patch, bsp, attached, busy, handle, key>>
  BY DEF redseeprom_write_control, redseeprom_write_word, fsvars
<1>2. Patched' /\ Attached' /\ Keyed' /\ Guarded'
  <2>1. Patched'
    BY <1>1 DEF RInv, Patched
  <2>2. Attached'
    BY <1>1 DEF RInv, Attached, Running
  <2>3. Keyed'
    BY <1>1 DEF RInv, Keyed, KeysRight, Running
  <2>4. Guarded'
    BY <1>1 DEF RInv, Guarded, Running
  <2> QED
    BY <2>1, <2>2, <2>3, <2>4
<1>3. bsp.write \in {"orig", "skip", "copy"} /\ bsp.control \in {"orig", "skip", "copy"}
  BY DEF RInv, Guarded
<1>4. SeepromKept
  BY DEF RInv
<1>5. SeepromKept'
  <2>1. ASSUME NEW cmd \in 1..4, redseeprom_write_control(cmd)
        PROVE  SeepromKept'
    <3>1. \/ rom' = [rom EXCEPT !.enabled = (cmd = 2)]
          \/ rom' = [rom EXCEPT !.phys_enabled = (cmd = 2)]
          \/ rom' = rom
      BY <1>3, <2>1 DEF redseeprom_write_control
    <3>2. rom'.phys = rom.phys /\ rom'.copy = rom.copy
      BY <1>4, <3>1 DEF SeepromKept
    <3>3. rom' = [phys |-> rom'.phys, phys_enabled |-> rom'.phys_enabled,
                  copy |-> rom'.copy, enabled |-> rom'.enabled]
      BY <1>4, <3>1 DEF SeepromKept
    <3> QED
      BY <1>1, <1>4, <3>2, <3>3 DEF SeepromKept, Running
  <2>2. ASSUME NEW w \in Words, NEW v \in Data, redseeprom_write_word(w, v)
        PROVE  SeepromKept'
    <3>1. \/ rom' = [rom EXCEPT !.copy[w] = v]
          \/ rom' = [rom EXCEPT !.phys[w] = v] /\ bsp.write = "orig"
          \/ rom' = rom
      BY <1>3, <2>2 DEF redseeprom_write_word
    <3>2. CASE rom' = rom
      BY <1>1, <1>4, <3>2 DEF SeepromKept, Running
    <3>3. CASE rom' = [rom EXCEPT !.copy[w] = v]
      <4>1. rom'.phys = rom.phys /\ rom'.copy = [rom.copy EXCEPT ![w] = v]
        BY <1>4, <3>3 DEF SeepromKept
      <4>2. rom' = [phys |-> rom'.phys, phys_enabled |-> rom'.phys_enabled,
                    copy |-> rom'.copy, enabled |-> rom'.enabled]
        BY <1>4, <3>3 DEF SeepromKept
      <4>3. rom'.copy \in [Words -> Data \cup {"factory"}]
        BY <1>4, <4>1 DEF SeepromKept
      <4> QED
        BY <1>1, <1>4, <4>1, <4>2, <4>3 DEF SeepromKept, Running
    <3>4. CASE rom' = [rom EXCEPT !.phys[w] = v] /\ bsp.write = "orig"
      <4>1. rom'.copy = rom.copy /\ rom'.phys = [rom.phys EXCEPT ![w] = v]
        BY <1>4, <3>4 DEF SeepromKept
      <4>2. rom' = [phys |-> rom'.phys, phys_enabled |-> rom'.phys_enabled,
                    copy |-> rom'.copy, enabled |-> rom'.enabled]
        BY <1>4, <3>4 DEF SeepromKept
      <4>3. rom'.phys \in [Words -> Data \cup {"factory"}]
        BY <1>4, <4>1 DEF SeepromKept
      <4>4. ~(red.slc \/ red.slccmpt \/ bsp.read = "copy")
        BY <1>1, <3>4 DEF RInv, Guarded
      <4> QED
        BY <1>1, <1>4, <4>1, <4>2, <4>3, <4>4 DEF SeepromKept, Running
    <3> QED
      BY <3>1, <3>2, <3>3, <3>4
  <2> QED
    BY <2>1, <2>2
<1> QED
  BY <1>2, <1>5 DEF RInv

\* Every step preserves the inductive invariant.
LEMMA NextRInv == RInv /\ [Next]_vars => RInv'
<1> SUFFICES ASSUME RInv, [Next]_vars PROVE RInv'
  OBVIOUS
<1>1. CASE Startup
  <2>1. Patched'
    BY <1>1, StartupPatched DEF RInv
  <2> QED
    BY <1>1, <2>1, StartupGuards DEF RInv
<1>2. CASE Md
  BY <1>2, MdStep
<1>3. CASE \E a \in attached : wfs_initDeviceParams_exit_hook(a)
  BY <1>3, WfsStep
<1>4. CASE \/ \E cmd \in 1..4 : redseeprom_write_control(cmd)
           \/ \E w \in Words, v \in Data : redseeprom_write_word(w, v)
  BY <1>4, SeepromStep
<1>5. CASE UNCHANGED vars
  BY <1>5 DEF vars, RInv, Patched, Attached, Keyed, KeysRight, Guarded, SeepromKept, Running
<1> QED
  BY <1>1, <1>2, <1>3, <1>4, <1>5 DEF Next

\* What the invariant says of the devices, the keys and the chip.
LEMMA RInvImplies == RInv => OneMlc /\ ScfmFits /\ KeysRight /\ SeepromIntact
<1> SUFFICES ASSUME RInv PROVE OneMlc /\ ScfmFits /\ KeysRight /\ SeepromIntact
  OBVIOUS
<1>1. red \in RedRecords /\ (red.mount_sys => (red.mlc => red.disable_scfm))
  BY DEF RInv, Patched
<1>2. \A a \in attached :
        \/ a = Emmc(red) /\ ~EmmcSkipped(red)
        \/ a = SdCard
        \/ a = RedMlc(red) /\ red.mlc
  BY DEF RInv, Attached
<1>3. OneMlc
  BY <1>1, <1>2 DEF OneMlc, Emmc, SdCard, RedMlc, EmmcSkipped, EmmcType, RedRecords
<1>4. ScfmFits
  <2> SUFFICES ASSUME NEW a \in attached, NEW b \in attached, a.via = "scfm", b.via = "scfm"
               PROVE  a = b /\ patch.scfm /\ a.type = patch.scfm_type
    BY DEF ScfmFits
  <2>1. Running
    BY DEF RInv, Attached
  <2>2. (patch.scfm <=> ~ScfmOff(red)) /\ patch.scfm_type = EmmcType(red)
    BY <2>1, RunningPatch DEF RInv
  <2>3. ASSUME NEW d \in attached, d.via = "scfm"
        PROVE  \/ d = Emmc(red) /\ ~EmmcSkipped(red) /\ ~ScfmOff(red)
               \/ d = RedMlc(red) /\ red.mlc /\ ~red.disable_scfm
    BY <1>2, <2>3 DEF Emmc, SdCard, RedMlc, FirstCall
  <2>4. a = b
    BY <1>1, <2>3 DEF EmmcSkipped, ScfmOff
  <2>5. patch.scfm
    BY <1>1, <2>2, <2>3 DEF EmmcSkipped, ScfmOff
  <2>6. a.type = patch.scfm_type
    BY <1>1, <2>2, <2>3 DEF EmmcType, Emmc, RedMlc
  <2> QED
    BY <2>4, <2>5, <2>6
<1>5. SeepromIntact
  BY RednandAssumption DEF RInv, SeepromKept, SeepromIntact, redseeprom_read_word
<1> QED
  BY <1>3, <1>4, <1>5 DEF RInv, Keyed

\* Rednand alone keeps its invariant, whatever else runs.
THEOREM RednandInvariance == Spec => []RInv
BY InitRInv, NextRInv, PTL DEF Spec

-----------------------------------------------------------------------------
(* Hai *)

\* Where MCP's start of vWii is: the image is on the eMMC or on redMLC, and what the
\* hooks have noted and patched fits that device.
Fits ==
  /\ mcp = [at |-> mcp.at, disk |-> mcp.disk, image |-> mcp.image, buffer |-> mcp.buffer,
            dev |-> mcp.dev, slot |-> mcp.slot]
  /\ mcp.at \in {"idle", "blocks", "companion", "vwii"}
  /\ mcp.at # "vwii" => mcp.slot = "emmc"
  /\ mcp.at # "idle" =>
       /\ Running
       /\ mcp.image \in Images
       /\ mcp.disk \in {"emmc", "redmlc"}
       /\ hai_from_mlc /\ red.mlc <=> mcp.disk = "redmlc"
  /\ mcp.at = "blocks" =>
       /\ mcp.buffer = mcp.image
       /\ mcp.dev = IF mcp.disk = "emmc" THEN EmmcType(red) ELSE "mlc"
  /\ mcp.at \in {"companion", "vwii"} =>
       /\ mcp.buffer = IF mcp.disk = "redmlc"
                         THEN hai_companion_add_offset(mcp.image, partition_offset)
                         ELSE mcp.image
       /\ mcp.dev = "mlc"
  /\ mcp.at = "vwii" => mcp.slot = IF mcp.disk = "redmlc" THEN "sd" ELSE "emmc"

HInv == RInv /\ Fits

\* Once start-up is over the configuration stays.
LEMMA RunningStays ==
  ASSUME Running, [Next]_vars
  PROVE  Running' /\ red' = red
<1>1. CASE Startup
  BY <1>1 DEF Startup, Running, init_config, rednand_init, apply_scfm_disable_patches,
         rednand_apply_slc_patches, rednand_apply_mount_sys_mlc_patches,
         rednand_apply_mlc_patches, rednand_install_crypto_hooks, redseeprom_enable
<1>2. CASE Md
  BY <1>2 DEF Running, Md, AttachEmmc, sysmlc_attach_hook, sysmlc_attach_hook_call, AttachSd,
         rednand_register_sd_as_mlc, rednand_register_sd_as_mlc_attach
<1>3. CASE \E a \in attached : wfs_initDeviceParams_exit_hook(a)
  BY <1>3 DEF Running, wfs_initDeviceParams_exit_hook
<1>4. CASE \/ \E cmd \in 1..4 : redseeprom_write_control(cmd)
           \/ \E w \in Words, v \in Data : redseeprom_write_word(w, v)
  BY <1>4 DEF Running, redseeprom_write_control, redseeprom_write_word
<1>5. CASE UNCHANGED vars
  BY <1>5 DEF vars, Running
<1> QED
  BY <1>1, <1>2, <1>3, <1>4, <1>5 DEF Next

\* The device WFS has a key for is the eMMC or redMLC, as the configuration says.
LEMMA KeyedDevice ==
  ASSUME RInv, NEW a \in attached, key[a.disk] # "none"
  PROVE  \/ a.disk = "emmc" /\ a.type = EmmcType(red) /\ ~EmmcSkipped(red)
         \/ a.disk = "redmlc" /\ a.type = "mlc" /\ red.mlc
BY DEF RInv, Attached, Keyed, Emmc, SdCard, RedMlc

\* Every step of Hai preserves its invariant.
LEMMA NextHInv == HInv /\ [HaiNext]_<<vars, haivars>> => HInv'
<1> SUFFICES ASSUME HInv, [HaiNext]_<<vars, haivars>> PROVE HInv'
  OBVIOUS
<1>1. RInv /\ Fits /\ red \in RedRecords
  BY DEF HInv, RInv, Patched
<1>2. CASE [Next]_vars /\ UNCHANGED haivars
  <2>1. RInv'
    BY <1>1, <1>2, NextRInv
  <2>2. UNCHANGED <<haidev, mcp>>
    BY <1>2 DEF haivars
  <2>3. mcp.at # "idle" => Running' /\ red' = red
    BY <1>1, <1>2, RunningStays DEF Fits
  <2>4. Fits'
    BY <1>1, <2>2, <2>3 DEF Fits, hai_from_mlc, EmmcType, hai_companion_add_offset
  <2> QED
    BY <2>1, <2>4 DEF HInv
<1>3. CASE UNCHANGED vars /\ ~UNCHANGED haivars
  <2>1. RInv'
    BY <1>1, <1>3, NextRInv
  <2>2. Running' = Running /\ red' = red
    BY <1>3 DEF vars, Running
  <2>3. ASSUME NEW a \in attached, NEW image \in Images, get_block_addr_haidev_patch(a, image)
        PROVE  Fits'
    <3>1. /\ Running /\ mcp.at # "vwii"
          /\ haidev' = IF red.mlc THEN a.type ELSE haidev
          /\ mcp' = [mcp EXCEPT !.at = "blocks", !.disk = a.disk, !.image = image,
                                !.buffer = image, !.dev = a.type]
      BY <2>3 DEF get_block_addr_haidev_patch
    <3>2. \/ a.disk = "emmc" /\ a.type = EmmcType(red) /\ ~EmmcSkipped(red)
          \/ a.disk = "redmlc" /\ a.type = "mlc" /\ red.mlc
      BY <1>1, <2>3, KeyedDevice DEF get_block_addr_haidev_patch
    <3>3. mcp' = [at |-> "blocks", disk |-> a.disk, image |-> image, buffer |-> image,
                  dev |-> a.type, slot |-> "emmc"]
      BY <1>1, <3>1 DEF Fits
    <3>4. (haidev' = "mlc" /\ red.mlc) <=> a.disk = "redmlc"
      BY <1>1, <3>1, <3>2 DEF EmmcType, EmmcSkipped, RedRecords
    <3>5. a.type = IF a.disk = "emmc" THEN EmmcType(red) ELSE "mlc"
      BY <3>2
    <3>6. /\ mcp'.at = "blocks" /\ mcp'.disk = a.disk /\ mcp'.image = image
          /\ mcp'.buffer = image /\ mcp'.dev = a.type /\ mcp'.slot = "emmc"
          /\ mcp' = [at |-> mcp'.at, disk |-> mcp'.disk, image |-> mcp'.image,
                     buffer |-> mcp'.buffer, dev |-> mcp'.dev, slot |-> mcp'.slot]
      BY <3>3
    <3>7. hai_from_mlc' /\ red'.mlc <=> mcp'.disk = "redmlc"
      BY <2>2, <3>4, <3>6 DEF hai_from_mlc
    <3>8. mcp'.dev = IF mcp'.disk = "emmc" THEN EmmcType(red') ELSE "mlc"
      BY <2>2, <3>5, <3>6
    <3>9. mcp'.disk \in {"emmc", "redmlc"} /\ mcp'.image \in Images /\ Running'
      BY <2>2, <3>1, <3>2, <3>6
    <3> QED
      BY <3>6, <3>7, <3>8, <3>9 DEF Fits
  <2>4. ASSUME hai_write_file_patch PROVE Fits'
    <3> DEFINE buffer == IF mcp.disk = "redmlc"
                           THEN hai_companion_add_offset(mcp.image, partition_offset)
                           ELSE mcp.image
    <3>1. /\ mcp.at = "blocks" /\ haidev' = haidev
          /\ mcp' = [mcp EXCEPT !.at = "companion",
                       !.buffer = IF hai_from_mlc /\ red.mlc
                                    THEN hai_companion_add_offset(@, partition_offset) ELSE @,
                       !.dev = ForcedDevice(@)]
      BY <2>4 DEF hai_write_file_patch
    <3>2. ForcedDevice(mcp.dev) = "mlc"
      BY <1>1, <3>1 DEF Fits, ForcedDevice, EmmcType
    <3>3. (IF hai_from_mlc /\ red.mlc
             THEN hai_companion_add_offset(mcp.buffer, partition_offset) ELSE mcp.buffer) = buffer
      BY <1>1, <3>1 DEF Fits
    <3> HIDE DEF buffer
    <3>4. mcp' = [at |-> "companion", disk |-> mcp.disk, image |-> mcp.image,
                  buffer |-> buffer, dev |-> "mlc", slot |-> "emmc"]
      BY <1>1, <3>1, <3>2, <3>3 DEF Fits
    <3>5. mcp.disk \in {"emmc", "redmlc"} /\ mcp.image \in Images /\ Running
          /\ (hai_from_mlc /\ red.mlc <=> mcp.disk = "redmlc")
      BY <1>1, <3>1 DEF Fits
    <3>6. /\ mcp'.at = "companion" /\ mcp'.disk = mcp.disk /\ mcp'.image = mcp.image
          /\ mcp'.buffer = buffer /\ mcp'.dev = "mlc" /\ mcp'.slot = "emmc"
          /\ mcp' = [at |-> mcp'.at, disk |-> mcp'.disk, image |-> mcp'.image,
                     buffer |-> mcp'.buffer, dev |-> mcp'.dev, slot |-> mcp'.slot]
      BY <3>4
    <3>7. hai_from_mlc' /\ red'.mlc <=> mcp'.disk = "redmlc"
      BY <2>2, <3>1, <3>5, <3>6 DEF hai_from_mlc
    <3>8. mcp'.buffer = IF mcp'.disk = "redmlc"
                          THEN hai_companion_add_offset(mcp'.image, partition_offset)
                          ELSE mcp'.image
      BY <3>6 DEF buffer
    <3>9. mcp'.disk \in {"emmc", "redmlc"} /\ mcp'.image \in Images /\ Running'
      BY <2>2, <3>5, <3>6
    <3> QED
      BY <3>6, <3>7, <3>8, <3>9 DEF Fits
  <2>5. ASSUME rednand_patch_hai PROVE Fits'
    <3>1. /\ mcp.at = "companion" /\ haidev' = haidev
          /\ mcp' = [mcp EXCEPT !.at = "vwii",
                       !.slot = IF hai_from_mlc /\ red.mlc THEN Redirected(@) ELSE @]
      BY <2>5 DEF rednand_patch_hai
    <3>2. mcp' = [at |-> "vwii", disk |-> mcp.disk, image |-> mcp.image,
                  buffer |-> mcp.buffer, dev |-> mcp.dev,
                  slot |-> IF mcp.disk = "redmlc" THEN "sd" ELSE "emmc"]
      BY <1>1, <3>1 DEF Fits, Redirected
    <3>3. /\ mcp'.at = "vwii" /\ mcp'.disk = mcp.disk /\ mcp'.image = mcp.image
          /\ mcp'.buffer = mcp.buffer /\ mcp'.dev = mcp.dev
          /\ mcp'.slot = IF mcp.disk = "redmlc" THEN "sd" ELSE "emmc"
          /\ mcp' = [at |-> mcp'.at, disk |-> mcp'.disk, image |-> mcp'.image,
                     buffer |-> mcp'.buffer, dev |-> mcp'.dev, slot |-> mcp'.slot]
      BY <3>2
    <3>4. hai_from_mlc' /\ red'.mlc <=> mcp'.disk = "redmlc"
      BY <1>1, <2>2, <3>1, <3>3 DEF Fits, hai_from_mlc
    <3>5. mcp'.buffer = IF mcp'.disk = "redmlc"
                          THEN hai_companion_add_offset(mcp'.image, partition_offset)
                          ELSE mcp'.image
      BY <1>1, <3>1, <3>3 DEF Fits
    <3>6. mcp'.disk \in {"emmc", "redmlc"} /\ mcp'.image \in Images /\ Running'
          /\ mcp'.dev = "mlc"
      BY <1>1, <2>2, <3>1, <3>3 DEF Fits
    <3> QED
      BY <3>3, <3>4, <3>5, <3>6 DEF Fits
  <2>6. HaiNext
    BY <1>3 DEF haivars
  <2>7. Fits'
    BY <1>3, <2>3, <2>4, <2>5, <2>6, Zenon DEF HaiNext
  <2> QED
    BY <2>1, <2>7 DEF HInv
<1> QED
  BY <1>2, <1>3 DEF HaiNext, get_block_addr_haidev_patch, hai_write_file_patch,
                    rednand_patch_hai, vars, haivars

-----------------------------------------------------------------------------
(* The arithmetic of sectors and address units *)

Extents == [unit : Nat, len : Nat \ {0}]

\* A number is its quotient and its remainder.
LEMMA DivMod ==
  ASSUME NEW W \in Nat \ {0}, NEW c \in Nat
  PROVE  /\ c \div W \in Nat /\ c % W \in Nat /\ c % W < W
         /\ c = (c \div W) * W + (c % W)
<1> DEFINE q == c \div W
           r == c % W
<1>1. q \in Nat /\ r \in Nat /\ r < W /\ c = W * q + r
  OBVIOUS
<1> HIDE DEF q, r
<1>2. c = q * W + r
  BY <1>1
<1> QED
  BY <1>1, <1>2 DEF q, r

\* The elements of a sequence.
LEMMA Elements ==
  ASSUME NEW T, NEW x \in Seq(T)
  PROVE  DOMAIN x = 1..Len(x) /\ \A m \in 1..Len(x) : x[m] \in T
OBVIOUS

\* A number that fits in two words is what its two words say.
LEMMA TwoWords ==
  ASSUME NEW W \in Nat \ {0}, NEW c \in Nat, c < W * W
  PROVE  ((c \div W) % W) * W + (c % W) = c
<1> DEFINE q == c \div W
           r == c % W
<1>1. q \in Nat /\ r \in Nat /\ r < W /\ c = q * W + r
  BY DivMod
<1> HIDE DEF q, r
<1>2. q < W
  <2>1. ASSUME q >= W PROVE FALSE
    <3>1. q * W >= W * W
      BY <1>1, <2>1
    <3> QED
      BY <1>1, <3>1
  <2> QED
    BY <1>1, <2>1
<1>3. q % W = q
  BY <1>1, <1>2
<1>4. (q % W) * W + r = c
  BY <1>1, <1>3
<1> QED
  BY <1>4 DEF q, r

\* ADD_OFFSET adds the partition's offset to a sector, if the sum has an address.
LEMMA AddOffset ==
  ASSUME NEW s \in Nat, s + partition_offset < 2^WordBits * 2^WordBits
  PROVE  read_wrapper("redmlc", s) = <<"sd", s + partition_offset>>
<1> DEFINE W == 2^WordBits
           lba == ADD_OFFSET(s \div W, s % W)
           c == s + partition_offset
<1>1. W \in Nat \ {0} /\ partition_offset \in Nat
  BY HaiAssumption
<1>2. c \in Nat /\ c < W * W
  BY <1>1
<1>3. lba = [hi |-> (((s \div W) * W + (s % W) + partition_offset) \div W) % W,
             lo |-> ((s \div W) * W + (s % W) + partition_offset) % W]
  BY DEF ADD_OFFSET
<1> HIDE DEF W, lba
<1>4. (s \div W) * W + (s % W) = s
  BY <1>1, DivMod
<1>5. lba = [hi |-> (c \div W) % W, lo |-> c % W]
  BY <1>3, <1>4
<1> HIDE DEF c
<1>6. lba.hi * W + lba.lo = c
  BY <1>1, <1>2, <1>5, TwoWords
<1>7. read_wrapper("redmlc", s) = <<"sd", lba.hi * W + lba.lo>>
  BY DEF read_wrapper, W, lba
<1> QED
  BY <1>6, <1>7 DEF c

\* What it means to be a sector of some extents.
LEMMA InSectors ==
  ASSUME NEW x, NEW s
  PROVE  s \in Sectors(x) <=>
           \E n \in DOMAIN x : \E j \in 0..x[n].len * 2^UnitShift - 1 :
             s = x[n].unit * 2^UnitShift + j
BY DEF Sectors

\* The sectors of an image, moved by the partition's offset, still have addresses.
LEMMA SectorBounds ==
  ASSUME NEW image \in Images, NEW n \in DOMAIN image,
         NEW j \in 0..image[n].len * 2^UnitShift - 1
  PROVE  LET s == image[n].unit * 2^UnitShift + j
         IN  /\ s \in Nat /\ s + partition_offset < 2^WordBits * 2^WordBits
             /\ (image[n].unit + partition_offset \div 2^UnitShift) * 2^UnitShift + j
                  = s + partition_offset
<1> DEFINE W == 2^WordBits
           U == 2^UnitShift
           k == partition_offset \div U
           u == image[n].unit
           l == image[n].len
<1>1. /\ W \in Nat \ {0} /\ U \in Nat \ {0} /\ U <= W
      /\ partition_offset \in Nat /\ partition_offset = k * U
  BY HaiAssumption
<1>2. u \in Nat /\ l \in Nat
  <2>1. image \in Seq(Extents)
    BY HaiAssumption DEF Extents
  <2>2. image[n] \in Extents
    BY <2>1, Elements
  <2> QED
    BY <2>2 DEF Extents
<1>3. u + l + k <= W
  BY HaiAssumption
<1>4. j \in 0..l * U - 1
  OBVIOUS
<1> HIDE DEF W, U, u, l
<1>5. k \in Nat
  BY <1>1
<1> HIDE DEF k
<1>6. u * U \in Nat /\ l * U \in Nat /\ k * U \in Nat /\ j \in Nat /\ j < l * U
  BY <1>1, <1>2, <1>4, <1>5
<1>7. (u + l + k) * U = u * U + l * U + k * U
  BY <1>1, <1>2, <1>5
<1>8. (u + l + k) * U <= W * U
  BY <1>1, <1>2, <1>3, <1>5
<1>9. W * U <= W * W
  BY <1>1
<1>10. W * U \in Nat /\ W * W \in Nat
  BY <1>1
<1>11. u * U + j + partition_offset < W * W
  BY <1>1, <1>6, <1>7, <1>8, <1>9, <1>10
<1>12. (u + k) * U + j = u * U + j + partition_offset
  BY <1>1, <1>2, <1>5, <1>6
<1> QED
  BY <1>6, <1>11, <1>12 DEF W, U, k, u

\* Moving an image's extents moves each of its sectors, no address wraps around.
LEMMA MovedExtent ==
  ASSUME NEW image \in Images, NEW n \in DOMAIN image
  PROVE  LET b == hai_companion_add_offset(image, partition_offset)
         IN  /\ DOMAIN b = DOMAIN image /\ b[n].len = image[n].len
             /\ b[n].unit = image[n].unit + partition_offset \div 2^UnitShift
<1> DEFINE W == 2^WordBits
           k == partition_offset \div 2^UnitShift
           b == hai_companion_add_offset(image, partition_offset)
<1>1. image[n] \in Extents
  <2>1. image \in Seq(Extents)
    BY HaiAssumption DEF Extents
  <2>2. image[n] \in Extents
    BY <2>1, Elements
  <2> QED
    BY <2>2
<1>2. W \in Nat \ {0} /\ k \in Nat /\ image[n].unit + image[n].len + k <= W
  BY SMTT(30), HaiAssumption
<1>3. b[n] = [image[n] EXCEPT !.unit = (@ + k) % W] /\ DOMAIN b = DOMAIN image
  BY DEF hai_companion_add_offset
<1> HIDE DEF W, k, b
<1>4. image[n].unit + k \in Nat /\ image[n].unit + k < W
  BY <1>1, <1>2 DEF Extents
<1>5. (image[n].unit + k) % W = image[n].unit + k
  BY <1>2, <1>4
<1> QED
  BY <1>1, <1>3, <1>5 DEF k, b, Extents

\* The sectors of the companion file are those of the image behind the offset.
LEMMA MovedSectors ==
  ASSUME NEW image \in Images
  PROVE  {<<"sd", s>> : s \in Sectors(hai_companion_add_offset(image, partition_offset))}
           = {read_wrapper("redmlc", s) : s \in Sectors(image)}
<1> DEFINE b == hai_companion_add_offset(image, partition_offset)
           U == 2^UnitShift
<1> HIDE DEF b
<1>1. ASSUME NEW n \in DOMAIN image, NEW j \in 0..image[n].len * U - 1
      PROVE  /\ image[n].unit * U + j \in Sectors(image)
             /\ b[n].unit * U + j \in Sectors(b)
             /\ n \in DOMAIN b /\ j \in 0..b[n].len * U - 1
             /\ read_wrapper("redmlc", image[n].unit * U + j) = <<"sd", b[n].unit * U + j>>
  <2>1. /\ DOMAIN b = DOMAIN image /\ b[n].len = image[n].len
        /\ b[n].unit = image[n].unit + partition_offset \div U
    BY MovedExtent DEF b
  <2> DEFINE s == image[n].unit * U + j
  <2>2. /\ s \in Nat /\ s + partition_offset < 2^WordBits * 2^WordBits
        /\ (image[n].unit + partition_offset \div U) * U + j = s + partition_offset
    BY SectorBounds
  <2>3. read_wrapper("redmlc", s) = <<"sd", s + partition_offset>>
    BY <2>2, AddOffset
  <2>4. s \in Sectors(image)
    BY InSectors
  <2>5. b[n].unit * U + j \in Sectors(b)
    BY <2>1, InSectors
  <2> QED
    BY <2>1, <2>2, <2>3, <2>4, <2>5
<1>2. DOMAIN b = DOMAIN image
  BY DEF b, hai_companion_add_offset
<1>3. ASSUME NEW s \in Sectors(b)
      PROVE  <<"sd", s>> \in {read_wrapper("redmlc", t) : t \in Sectors(image)}
  <2>1. PICK n \in DOMAIN b : \E j \in 0..b[n].len * U - 1 : s = b[n].unit * U + j
    BY InSectors
  <2>2. PICK j \in 0..b[n].len * U - 1 : s = b[n].unit * U + j
    BY <2>1
  <2>3. n \in DOMAIN image /\ b[n].len = image[n].len
    BY <1>2, MovedExtent DEF b
  <2>4. j \in 0..image[n].len * U - 1
    BY <2>3
  <2>5. /\ image[n].unit * U + j \in Sectors(image)
        /\ read_wrapper("redmlc", image[n].unit * U + j) = <<"sd", s>>
    BY <1>1, <2>2, <2>3, <2>4
  <2> QED
    BY <2>5
<1>4. ASSUME NEW t \in Sectors(image)
      PROVE  \E s \in Sectors(b) : read_wrapper("redmlc", t) = <<"sd", s>>
  <2>1. PICK n \in DOMAIN image : \E j \in 0..image[n].len * U - 1 : t = image[n].unit * U + j
    BY InSectors
  <2>2. PICK j \in 0..image[n].len * U - 1 : t = image[n].unit * U + j
    BY <2>1
  <2> QED
    BY <1>1, <2>2
<1>5. {<<"sd", s>> : s \in Sectors(b)} = {read_wrapper("redmlc", t) : t \in Sectors(image)}
  BY <1>3, <1>4
<1> QED
  BY <1>5 DEF b

\* What the invariant says of vWii.
LEMMA HInvImplies == HInv => HaiReadsImage
<1> SUFFICES ASSUME HInv, mcp.at = "vwii"
             PROVE  {<<Medium, s>> : s \in Sectors(mcp.buffer)} =
                      {read_wrapper(mcp.disk, s) : s \in Sectors(mcp.image)}
  BY DEF HaiReadsImage
<1>1. mcp.image \in Images /\ mcp.disk \in {"emmc", "redmlc"} /\ Medium = mcp.slot
  BY DEF HInv, Fits, Medium
<1>2. CASE mcp.disk = "redmlc"
  <2>1. mcp.buffer = hai_companion_add_offset(mcp.image, partition_offset) /\ Medium = "sd"
    BY <1>1, <1>2 DEF HInv, Fits
  <2> QED
    BY <1>1, <1>2, <2>1, MovedSectors
<1>3. CASE mcp.disk = "emmc"
  <2>1. mcp.buffer = mcp.image /\ Medium = "emmc"
    BY <1>1, <1>3 DEF HInv, Fits
  <2>2. \A s : read_wrapper(mcp.disk, s) = <<"emmc", s>>
    BY <1>3 DEF read_wrapper
  <2> QED
    BY <2>1, <2>2
<1> QED
  BY <1>1, <1>2, <1>3

-----------------------------------------------------------------------------
(* The theorems *)

\* Hai keeps its invariant and that of Rednand.
THEOREM HaiInvariance == HaiSpec => []HInv
<1>1. HaiInit => HInv
  <2> SUFFICES ASSUME HaiInit PROVE HInv
    OBVIOUS
  <2>1. RInv
    BY InitRInv DEF HaiInit
  <2>2. Fits
    BY DEF HaiInit, Fits
  <2> QED
    BY <2>1, <2>2 DEF HInv
<1> QED
  BY <1>1, NextHInv, PTL DEF HaiSpec

\* For every configuration: IOSU never sees two devices as its MLC, and with redMLC
\* never the eMMC as that.
THEOREM SingleMlc == HaiSpec => []OneMlc
<1>1. HInv => OneMlc
  BY RInvImplies DEF HInv
<1> QED
  BY <1>1, HaiInvariance, PTL

\* For every configuration: a device attached through SCFM finds SCFM initialised,
\* looking for its type and not taken by another.
THEOREM ScfmSuits == HaiSpec => []ScfmFits
<1>1. HInv => ScfmFits
  BY RInvImplies DEF HInv
<1> QED
  BY <1>1, HaiInvariance, PTL

\* For every configuration, and whenever WFS asks: the hooks hand out the key the
\* medium was encrypted with.
THEOREM RightKeys == HaiSpec => []KeysRight
<1>1. HInv => KeysRight
  BY RInvImplies DEF HInv
<1> QED
  BY <1>1, HaiInvariance, PTL

\* For every configuration and every SEEPROM: the chip is not written with a
\* redirected SLC or a copy in RAM, and the drive key is the chip's.
THEOREM ChipIntact == HaiSpec => []SeepromIntact
<1>1. HInv => SeepromIntact
  BY RInvImplies DEF HInv
<1> QED
  BY <1>1, HaiInvariance, PTL

\* For every partition that begins at an address unit and every image that fits on
\* the card: vWii reads the sectors IOSU has the image in, on the right medium.
THEOREM VWiiReadsImage == HaiSpec => []HaiReadsImage
<1>1. HInv => HaiReadsImage
  BY HInvImplies
<1> QED
  BY <1>1, HaiInvariance, PTL
=============================================================================
