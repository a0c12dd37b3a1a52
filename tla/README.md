# Verification of stroopwafel

stroopwafel is a custom firmware for the Wii U's IOSU. `wafel_core` is loaded
next to the IOSU image, patches it before it starts (`kern_main`), and some of its
code then runs inside IOSU's processes: hooks reached through trampolines,
replaced file system functions, a resource manager and threads of plugins. This
directory holds TLA+ models of the parts that carry logic of their own, the TLC
configurations that check them, and TLAPS proofs.

## Inventory

| part | state it keeps | operations | what makes it correct |
|---|---|---|---|
| Trampolines (`trampoline.c`, `trampoline_asm.S`, `patch.h`) | patched words, the trampoline buffer, the prototypes | seven installers; execution of eight kinds of trampoline | every hook runs once, newest first, then the original code; nothing else is overwritten or executed |
| SLC redirection (`patch_asm.S`, `rednand.c`) | `sdcard_access_mutex`, the ready flag, stack frames of waiting threads, the card | `slcRead/Write*_patch`, `sdcard_readwrite` and its callback, `sdcard_init`, `registerMdDevice_hook` | redirected SLC and SLCCMPT are two ordinary block devices; every request is answered |
| redNAND configuration (`rednand.c`, `init_config`, `sal_partition.c`) | the configuration, the patches it selects, server handles | `rednand_init`, attach hooks, key hook | one MLC, a usable SCFM, the right key for each medium |
| SEEPROM (`redseeprom.c`, `rednand.c`) | the copy, its write enable | read, write, write control | the chip stays as it was |
| SCFM migration (`patch_asm.S`, `MLC_ACCELERATE`) | `scfm.img` on SLC and SLCCMPT | migrate at boot | no power loss loses the cache; no failure derails the boot |
| IPC (`ipc.c`) | firmware path, the message queue | ioctl, ioctlv | each message answered once, with success only if it was done; written code is what runs; a reload nothing comes in the way of gets the path of the last request |
| HAI (`hai.c`, `sal_partition.c`) | `haidev`, the companion file | block addresses, companion file, start of vWii | vWii reads the sectors IOSU has the image in |
| wupserver (`wupserver.c`, `wupclient.py`) | connection, `serverKilled` | six commands, restore, install | request and answer stay in step; server survives its clients; a restore keeps no handle |
| Plugins (`dynamic.c`), image access (`ios_dynamic.c`), PRSH (`prsh.c`) | plugin list, program headers, boot parameters | register, link, lookup | every import resolved or null; addresses translate to their own segment |
| Caches (`latte/cache.c`) | - | flush, invalidate | instructions are fetched as they were written |
| Serial, timer, GPIO (`latte/`, `utils.c`) | hardware registers | output, delay | waiting times |
| FSA, sockets, network (`services/`, `socket.c`) | service handles | wrappers | every field of a message arrives where the service reads it |
| single-function patches (OTP, crypto, reload, cafe2wii) | none | replaced functions | fixed code for one firmware version |
| salt-patch, anpack, debug_exts, example | files | host tools, logging | - |

How they interact: `kern_main` is one thread and runs before IOSU. It reads PRSH
(`init_config`), which selects the patches of redNAND; patches and plugins install
trampolines; plugins are linked against `wafel_core` and each other. Afterwards
IOSU's threads run concurrently: threads of IOS-FS and the md thread go through
the redirection and the attach hooks, the SDIO driver calls back, MCP runs the IPC
thread and the plugins.

What is hard to test: chains of hooks built in many orders by code that does not
know of each other; stack layouts and branch arithmetic written by hand; block
I/O of several threads sharing one card with its own registration and with
failing commands; sets of patches that overwrite each other under some
configurations only; power loss in the middle of a migration. `PROJECT.json`
lists these hazards at their lines with the properties that cover them.

## Plan

Done: 1-10. The list is in order of importance.

1. `HookChain`, `Trampoline`, `TrampolineExec`, with proofs.
2. `BlockStore`, `SdRedirect`, with proofs.
3. `Rednand`: configuration, attachment, keys, SEEPROM.
4. `PersistentCache`, `ScfmMigration`: the migration with power loss between any
   two steps, with proofs.
5. `Rpc`, `Cache`, `Ipc`: the resource manager, its clients, the reader of the
   firmware path, and the caches.
6. `WupServer`, `FsaCopy`, `Fsa`, composed in `Wup`: client and server over a byte
   stream, the restore, and the messages they use.
7. `Boot`, `BoyerMoore`: program headers, linking, PRSH, the search, entry points.
8. `Hai` on top of `Rednand`.

9. Proofs of the safety of 3, 5, 6 and 8 and of the execution of trampolines.
10. Proofs of the safety of 7, of the search itself, and of the server of 6.

Left: `udelay`'s wrapping timer and the serial console.

## Modules

### Trampolines

`HookChain` is the promise: a patched address keeps all its hooks, in order.
`Trampoline` has one action per installer. `mem[s]` is the word at site `s`,
`tramp` the trampolines in the buffer by address, `proto` the words of the shared
prototypes that installers overwrite, `next` is `trampoline_next`. Addresses and
offset fields are the real ones, so `encode_*` (the macros of `patch.h`) and
`extract_*` are checked as arithmetic. `order` is a history variable: the
trampolines of each site, oldest first. `TrampolineExec` adds a CPU that runs a
patched site: the word at the site, each trampoline's pushes, its hook, its tail.
The stack is modelled word by word because the trampolines pass the replaced
function and the return address through it. A hook chooses freely whether to call
the function it replaced (`blreplace`) or to skip the instruction
(`hook_before_v2`).

Installers are called as README.md of the repository demands: `blreplace` at a BL,
`hook_before` at a BL or an instruction that does not use the PC. It also says that an
address can be hooked several times; so `hook_before` may come to one where
`hook_before_v2` has left a B, which nobody who hooks it can see. The code copies that B,
relative to the PC as it is, into the trampoline, and the chain is broken there.
The action does what the code does. `OverB` says whether installers are called
that way: with FALSE the run `trampoline` and the proofs show what holds; with TRUE TLC
finds `ChainIntact` violated (`tlc -config MCHookOverB.cfg MCTrampoline`). Sizes are counted in the prototypes:
`hookbefore_lr` has nine instructions and two words, 44 bytes. `TrampolineLayout` states what the memory layout
has to provide, because `trampoline_find_mapping` does not check it: the mirror it
picks is within reach of the branch, and ahead of thumb code (`ReachAssumption`);
and the mirrors of the buffer overlap neither each other nor the code that is
patched or called (`ApartAssumption`), or one address would be two places.

### SLC redirection

`BlockStore` is the promise: separate devices with atomic requests; a failed
write harms only its own blocks; a request that brings a callback learns how it
ended. One without does not: `sdcard_readwrite` returns 0 once the driver has
accepted the command, and the result that comes later is passed to a callback only
(`Reply`). `SdRedirect` has the threads of IOS-FS inside the
patched functions (`pc[t]`, and the semaphore, result and buffer in each stack
frame), the md thread in `registerMdDevice_hook`, start-up, the FAT driver's
own I/O, which does not take the mutex, and I/O on redMLC, which does:
`sdcardReadWrite_patch` sends every device that is not a `DEVICETYPE_SDCARD` the
way of a redirected request. The refinement maps the partitions on the
card, or the NAND of a device that is not redirected, to the abstract store, and
what threads do on redMLC to nothing.

External, modelled from how the code uses it: the SDIO driver accepts a command
only if the card is ready, calls back exactly once for an accepted command and
never for a rejected one, and may fail after any number of sectors; IOS-FS does
block I/O, and the md thread gets the card, once `createDevThread_hook` has
returned; semaphores have a maximum of 1. The flag at +0x28 that
`registerMdDevice_hook` clears together with the one at +0x24 is folded into
`ready`. `SdRedirectLayout` states what the partitions have to provide; the
code checks none of it (an offset that is not a multiple of four sectors is
rounded down, and there is no check against the partition's size).

### redNAND configuration

`Rednand` runs `init_config` and `rednand_init` step by step for a boot
configuration, recording the places each set of patches changes: the call at
0x107bdae0, the device types, SCFM's init, the attach hooks, the key hook, the
three SEEPROM functions. Then the md thread attaches the eMMC and the SD card
through whatever is patched in, WFS chooses keys at any time after that, and
SEEPROM users write. External: which key WFS takes by default, and the layers a
device is attached through. A panic and `crash_and_burn` are the stage "dead".

The repository's README lists "SEEPROM writes are disabled (for safety)" among the
features; the code does it only together with redSLC or redSLCCMPT, and a comment
in `rednand.c` says why.
`SeepromIntact` is about what the code means to do.

`Hai` adds MCP's start of vWii to `Rednand`. `mcp` is where MCP is, the image, the
companion file's extents, and the device HAI will open; `haidev` is the variable
of `hai.c`. An image has the sectors `read_wrapper` leads to; HAI reads the units
of the companion file from the raw medium. Assumed: each start of vWii makes its
companion file anew, only MCP asks for block addresses, the partition begins at
a multiple of the address unit (`hai_companion_add_offset` would round it
down), and there is no USB drive besides the eMMC mounted as one
(`hai_path_sprintf_hook_force_mlc` would name "mlc" for it too). `hai_setdev`, which
lets a plugin fix the device, is left out: no plugin of the repository calls it.

### SCFM migration

`PersistentCache` is the promise: when SCFM starts it finds what it last wrote.
`ScfmMigration` follows `scfm_try_slc_cache_migration` and `scfm_do_migration` from
one call of IOS-FS to the next: `pc` is the place, `slc` and `cmpt` are the two
copies of `scfm.img`, `use` says which one scfmInit was patched to look for.
`PowerLoss` can happen between any two calls and starts the next boot. `Faults` is
the set of calls that may fail. The refinement takes the copy on SLCCMPT for the
cache if it is whole, else the file on SLC. `do_migration_ret` returns through the
stack as it is at that point, because the code pushes the result before it frees the
buffer and pops it only if there is one.

External: a finished operation of IOS-FS is durable and an unfinished write leaves
some part of its block; scfmInit makes a new file if it finds none. Reading the
buffer and writing it are separate steps, but nothing else writes the file on SLC
in between, so the buffer's contents are not a variable.
`scfm_do_migration` also changes r10 without saving it; what scfmInit keeps in r10 is
not known, so no property speaks of it.

### IPC

`Rpc` is the promise: a call is answered once, and a success is answered only when what
the request asked for is the case (`done`). For a write that is that memory reads as all
pieces say, later ones over earlier ones (`Written`), for a firmware path that both buffers
hold it. `Ipc` has the clients, the message queue, and the thread of `ipc.c` as far
apart as its steps can be seen: the two parts of the firmware path are written one
after the other (`set_path`, `set_name`), and a write to memory is a copy and a
flush per piece and one `ic_invalidateall` at the end. `ReloadPath` and `ReloadName`
are MCP reading the two buffers for a reload. `Cache` is memory with a write-back
data cache and an instruction cache, which fill and evict lines whenever they
like (`CacheMoves`). Requests have paths that fit the buffers. Nothing keeps MCP from
reading them in the middle of a SET_FW_PATH: a reload that one comes in the way of is
"mixed" in the model, reads anything, and no property speaks of it.

`Accepted` is the requests `ipc.c` takes, not those `IPC.md` describes. `IPC.md` has one
destination and the total length in the first vector of WRITE_MEMORY, while `ipc_ioctlv` takes
an array of addresses and one vector per piece; and it has the
function in the pointer of EXECUTE, while the code calls what the pointer points at. The
prover's `ImplementsRpc` is about the code's format. Another thing a reader should know:
GET_MINUTE_PATH dereferences the PRSH entry
`minute_location` where `init_config` takes the entry itself for the value; the model
lets it answer either way.

### Start-up

`Boot` is `kern_main` and `mcp_main` for what minute may have prepared (`Boots`):
`init_phdrs` and `add_mirror` insert seven program headers in front of the notes,
`wafel_register_plugin` and `link` go through the sections, `init_config` and
`patch_general` look into PRSH, and `call_plugin_entry` enters each plugin, whose
start-up code (`crt0.S`) relocates it. Memory from 0x1D000000 is an array of
cells (`elf`), so that moving the notes and the headers can go wrong. Words of a
plugin are those with relocations. `init_config` has here what it dies of, and in
`Rednand` what it does. `patch_55x` is the set of addresses it patches:
the patches themselves are fixed bytes for one firmware version.
`wafel_link_plugin` and `__wafel_dynamic` say what their loops leave in each word: the
symbol of the last relocation for it, and the base added once, as a word that has been
moved is not below the base any more. `BoyerMoore` is `bm.c`, both tables and the search,
without RECURSIVE operators.

The upper bound of a segment in `ios_elf_vaddr_to_paddr` is inclusive, so an address just
behind a segment is taken for its own if the segment is looked at first. `init_phdrs`
makes such a pair, the ramdisk it has cut and what minute loaded behind it; `MapSound` holds
all the same, because both are where their addresses say. Of the firmware's own
segments and the mirrors `ImageAssumption` asks that no other pair is like that.

### wupserver

`WupServer` is the server from the interface's status to `closesocket`, and
`wupclient.py`. A connection is two queues of bytes' worth of data; `recv` takes any
part of what has arrived, `send` puts any part of what is left. `Faults` says what the
network and the memory do: `coalesce` lets a command and its data arrive together,
`alloc` lets an allocation fail. `Fsa` has the layout of every message of `fsa.c`,
field by field, and what it means for one to arrive. `FsaCopy` is `fsa_copydir`
with its stack of calls, any call of which may fail, and the rest of
`wupserver_main`; `Wup` selects one of the builds: the server, the restore (in a
comment in `wupserver_main`), the installation (`EMERGENCY_INSTALL`), or a plugin that
calls any function of `fsa.c`.

With `"alloc"` in `Faults` `CommandsDone` does not hold: `recv` returns -100, the
unsigned offset wraps, the loop ends, and the command is answered with success.
A client that closes its end in the middle of a write makes `recv` return 0 for ever;
`Answered` speaks of servers this has not happened to, but of all that have lost clients
otherwise, in the middle of a command too. An answer is one cell, so one of which `send`
takes only a part, which the code does not look at, is not in the model. After a reset
`CommandsDone` says only that no word gets a value its client did not mean for it. Other remarks: the
listening socket stays open after a kill; `fsa_copydir` leaks its strings and the entry on
error paths, and its ChangeMode is for the directory, not the file;
`FSA_Format` does not pass its flags on; `wupserver.c` names a type
`directoryEntry_s` this repository does not define, and is modelled with
`FSDirectoryEntry`.

## Runs

| run | result | what it shows |
|---|---|---|
| `trampoline` | pass | all sequences of installations at five sites until the buffer is full (three trampolines) or a site is out of reach, then execution of each site |
| `sd_redirect` | pass | two threads, three kinds of request, FAT I/O and one registration, with both devices redirected or SLC and a redMLC |
| `rednand` | pass | every configuration of the current format, the older and newer formats, and the ones that are rejected; then devices, keys, SEEPROM users and starts of vWii in any order |
| `scfm` | pass | every interleaving of the migration, power loss, SCFM's writes and failing reads, writes and deletions, over any number of boots |
| `ipc` | pass | two clients with requests the device takes and refuses, failing receives, a reload at any moment, and caches that move lines |
| `boot` | pass | several chains of plugins, boot parameters that are missing, corrupt, cut or not for the firmware, and all texts and patterns of `MCBoot` |
| `wupserver` | pass | two clients in turn with every command, segments of any size, lost connections; the restore and install builds with failing calls |
| `thumb_regs` | violation | the tail of `trampoline_t_blre_regs_proto` pops r5 into the PC |
| `thumb_backward` | violation | the thumb BL macro loses the sign of a backward branch |
| `scfm_check` | violation | a read error while the migrated cache is verified deletes its only copy |
| `scfm_frame` | violation | a migration that fails before it has a buffer returns through a shifted stack frame |
| `wup_framing` | violation | data that arrives together with its write command is lost, and the rest goes to the wrong address |

Bounds. Three trampolines make chains of three hooks at one site (two if they are of `hook_before_v2`, which are longer),
and every pair of kinds that suits a site meets in every order, but for `hook_before` on the
B of `hook_before_v2`, which breaks the chain; 112 bytes do not divide evenly by any mix of
sizes, so the last installation fails with room left. Two threads suffice for
every conflict over the mutex, and `MaxRegs = 1` registration meets each step of
both; a partition of two blocks has a block in front of and behind each request.
`Rednand` has one word of the drive key and one other word; `Hai` has words of three
bits, so that an image crosses the carry between the halves of a sector's address.
`Ipc` has two words on two cache lines, and writes of one piece over both lines
or of two pieces; two clients are one being served and one waiting. `Boot` has two plugins with data between
them, symbols defined twice, later or not at all, and texts with overlapping
near-matches. `WupServer` has data of two pieces, the least that can be cut, and
two clients, one of which finds what the other left. A file of five units in blocks of two has, as in the code, whole
blocks and a shorter last one; the states are finite without a bound on boots.

`scfm` allows the failures the migration copes with. With `"mount"` or
`"open_cmpt"` in `Faults`, `ImplementsCache` does not hold: the boot falls back to
the file on SLC, which after a completed migration is a leftover or gets made anew,
while the newer one is on SLCCMPT; with `"check"` not even `OneWhole` holds.

Deadlock is checked in `sd_redirect`. It is off where `crash_and_burn` stops the
console on purpose.

Fairness. `trampoline`: the CPU executes and hooks return. `sd_redirect`: threads are
scheduled, the driver finishes or fails what it accepted, a registration ends;
acquiring the mutex is strongly fair because IOSU queues the waiters of a
semaphore. `rednand`: start-up and the md thread run on. `scfm`: a boot goes on while there is
power; `Boots` is about the boot after the last power loss; before each loss the
state can be any reachable one, so it is about every boot that is not cut off.
`ipc`: the thread runs, and a receive that may fail does not fail for ever (strong
fairness of `receive`). `boot`: the only thread there is runs. `wupserver`: the server
runs, a waiting client is accepted in the end, and a client that has begun a
command finishes it or leaves.

## Proofs

`TrampolineProofs`, `TrampolineExecProofs`, `SdRedirectProofs`, `ScfmProofs`,
`RednandProofs`, `IpcProofs`, `BootProofs` and `WupProofs` hold for every value of the
constants that satisfies the named assumptions, which TLC evaluates for the instances. All
invariants, action properties and refinements of the passing runs are proved.

*Trampolines: installation.* `Laid` is `TypeOK /\ BufferSafe /\ PrototypesClean /\
ThumbNoJump` and holds in any case; so does the refinement of `HookChain`. `IInv` is
`Laid /\ ChainIntact /\ ReturnsFit`; it, and all that is proved of the execution, assumes
`~OverB`. `ChainIntact` alone is not inductive: an
installer decodes the branch at the site, so the new trampoline continues
correctly only if that word still decodes to the mapping of the last one
(`ArmRoundTrip`, `ThumbRoundTrip`: decoding inverts encoding within reach), if the
copy is disjoint from the trampolines of other sites (`BufferSafe`), and if the
prototype it was copied from holds no other site's words (`PrototypesClean`).
`ThumbNoJump` says that thumb sites never hold a B. `ReturnsFit` is what the
execution needs: a site with a B has only trampolines of `hook_before_v2`, and one
with a relocated instruction continues behind the site if it was reached by a B
and to lr if it was by a BL. All installers reduce to one lemma about a proper
installation (`PlainInstall` in any case, `GoodInstall` with `~OverB`). From `Laid` each
step is a step of `HookChain`, which says only which hooks a site has, not that they are
reached.

*Trampolines: execution.* `EInv` says where a thread can be (`Thread`): at rest, at
the site, on the way down with all hooks so far in the log and the PC at the next
trampoline or the original function (`Descending`), on the way back with a log that
is final (`Ascending`), or in a register saved by `trampoline_t_blreplace_with_regs`
(`Lost`). On the way down lr, and on the way back the PC, unwinds the stack
(`Unwinds`): there is a set of places on it that hold return addresses, each leads to the
tail of a trampoline of the site, that tail drops exactly what lies before the next
one, and the last leads behind the site. It is a set instead of a recursive
definition, which the prover could not handle; entering a trampoline that replaced a call
adds a place (`UnwindsPush`) and its tail removes one (`UnwindsPop`). That the PC tells
which trampoline the CPU is in needs `ApartAssumption` (`OneTrampoline`,
`NoTrampoline`). `NoWildBranch`, `RunsHooksNewestFirst` and `LrPreserved` follow for
any number and mix of hooks.

*SLC redirection.* `IInv` adds to the type and to `MutualExclusion` who holds the
mutex when its count is 0 (`LockHeld`), that nothing happens before start-up is
done (`QuietAtBoot`), that a thread has at most one command, which was made from
its request (`OneCommand`, `CommandsMatch`), and that a thread is on the path its
device's configuration selects (`PathMatches`). The refinement needs that a
command covers exactly the sectors of its request's blocks (`CommandSectors`), and
that partitions are disjoint, so that no other command, of the FAT driver or of redMLC, can
change a block between the driver's work and the answer.

*SCFM migration.* The theorems assume `Tolerated`: mounting, and looking for and
verifying the copy, do not fail; all other calls may. `IInv` adds to `OneWhole`
what is known of the two files at each place: during the copy the file on SLCCMPT
is a proper prefix of the one on SLC (`Copying`), before it SLC has the file and
SLCCMPT has no whole one (`Partial`), a successful copy is equal to its source
(`Copied`), and the file SCFM is told to use is the one that counts (`Chosen`).
Appending a block to a prefix gives a longer one (`CopyLemma`), so the step that
makes the copy whole makes it equal to the source and leaves the abstract cache
unchanged.

`CleanedUp` needs no such assumption: `Held` says at each place what is open and
that the registers know of it. `LateFailuresDefaultBack` says
what is left of the promise that `scfm_frame` refutes: with `Tolerated`, and if no call before
there is a buffer fails, every failure returns to the caller.

*redNAND and HAI.* `RInv` says what the patches applied so far add up to, as a
function of the configuration, at each stage of start-up (`Patched`), how devices
can be attached and that a handle is noted before its device can be asked for
(`Attached`), which keys WFS has by then (`Keyed`), and which functions of IOS-BSP
guard the chip (`Guarded`, `SeepromKept`). No property is inductive without `Patched`: each
set of patches overwrites places of earlier ones. `HInv` adds that what the hooks noted
and patched fits the image MCP is starting (`Fits`); `HaiReadsImage` then is
arithmetic, that adding units to an extent moves each of its sectors by the
partition's offset without a carry getting lost (`MovedSectors`), assuming that
the image ends on the card (`HaiAssumption`).

*IPC.* `Coherent`: outside a piece that is being written the data cache is empty, and
outside a write the instruction cache agrees with RAM. `Pathed`: outside
SET_FW_PATH the two buffers hold what the last one asked for. `Served`: a message in the
queue or with the thread is the one its client waits for, no client has two, and
the result the thread has computed is one the abstract service allows. `Effective`: how
many pieces of the write are in memory as a load sees it, and that a success is only
about to be answered when all are. A copy keeps the words that only earlier pieces cover
(`CopyWrites`); filling, cleaning and invalidating lines changes no load (`LoadsStay`).
From these each step is a step of `Rpc`.

*wupserver.* `CallsArrive` is about the layouts: the fields of each message do not
overlap, fit, and leave the zero behind each string alone, for every call in the
tables of `Fsa`. For `fsa_copydir` `Nested` says that an activation that called another waits in
`readdir` and has the shorter path, `Opened` that the open handles are those of the
activations. `FileInv` adds what the activation on top has written (`Writes`), that a file
is old or a prefix of its backup (`Parts`), and why one may still be incomplete
(`Whole`: something failed, or an activation has it, or a directory above it, still to
do). The depth of the tree is not bounded.

`CommandsCarriedOut` is about the server and any number of clients in turn, for
`Faults` without `coalesce` and `alloc`, with which `CommandsDone` does not hold. `NetInv`
says in which of four states a client that is there can be (`ClientOK`): idle with
empty queues, its command still to be received (`PendingClient`), being served, or
answered; that what a client that has left has sent is at most one command (`GoneOK`),
so that the server never takes data for a command; and what is in memory when
`off` units of a write have arrived (`StoredOK`). Two facts carry the proof: what a served
client has sent is the units from `off` on, in order (`DataCells`), and what it has
received together with what is on its way to it is the first `off` units of memory
(`Reading`). After a reset the offset may have wrapped and the server goes on as if it
had received something; all that is left then is that every word is as it was or as
the write wanted it. The assumptions are that a length is less than 2^32
(`OffMod`), that clients come one after the other, that a write has data, and that
nobody reads the word `repeated_write` polls, which is written from outside.

*Start-up.* `SearchCorrect` has no state: `boyer_moore_search` finds the first
occurrence for every text and pattern. A shift passes over no occurrence, by
`Delta1Safe` for the bad character and `Delta2Safe` for the two loops of `make_delta2`, and
goes forward, so the result from each position is that from the next one
(`FoundStep`). In place of induction the proofs take the least counterexample
(`LeastNatural`, from the well-foundedness of the naturals): a fact of the library that
needs no operator as a parameter.

`IInv` of `Boot` says what the table of program headers is after each insertion, in terms
of the one minute prepared (`HeadersOK`): the old headers up to the ramdisk, which is
shorter, wafel_core, the mirrors so far in some order, then the other old headers. `TableOK` says that it and the notes behind it fit and do not overlap, and
`ClearOK` that a lookup which meets an earlier segment first is not misled. From
that shape `MapSound` follows (`MapFromShape`). For the plugins it says which are registered
(`ElfsOK`), that a section that was not reached yet has the words minute loaded
(`Raw`), that the others are linked (`Linked`), and that a relocated one has its
addresses moved (`RelocatedOK`). `ImageAssumption` and `WellLinked` are what the proofs
ask of the firmware and of the linker: segments are apart and the ramdisk is the one
below wafel_core; `.rel.dyn` comes before `.rel.plt`, the dynamic array names its
start last, since `wafel_link_plugin` starts at the table named last and goes through as many
entries as both have, and no word is relocated twice.

Only model-checked, and why:

- liveness (`CallReturns`, `Answered`, `DevicesAppear`, `Boots`, `BootCompletes`):
  fairness and ENABLED are out of the prover's reach. What they need of safety, such as that a
  plugin entered is linked, is proved.

## Not modelled

- `salt-patch` and `anpack`: host tools that rewrite a file from beginning to end;
  they have no state between runs.
- Serial console, GPIO and timer: register accesses and delays.
- The register sequences of `latte/cache.c` (`ahb_flush_to`, `ahb_flush_from`), which
  its authors took from IOS as they are; `Cache` has what the calls achieve.
- OTP, crypto, reload and cafe2wii patches: replaced instructions for one firmware
  version. (`c2w_boot_hook_fixup_c2w_ptrs` replaces the first pointer it finds,
  while its comment says all.)
- The debug extensions and the example plugin: logging.
- Outside `Ipc`, cache maintenance: patches before IOSU runs are assumed to be what
  the CPU fetches.
