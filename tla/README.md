# TLA+ models of the OSIP tool (src/flash_stitched)

## The system

`update_osip` manages the OSIP (OS Image Profile) tables of an eMMC device.
The device holds three things:

* the **primary** table at byte 0;
* the **backup** table at `BACKUP_LOC` = 0xE0. Each table is a `struct OSIP_header` of 200 bytes with seven 24-byte `struct OSII` descriptors, so both tables lie in the first 424 bytes of LBA 0;
* the **OS images**, each at `logical_start_block * block_size`.

The program is made of these parts:

| part | source | what it does |
|---|---|---|
| main | `update_osip.c` 29-219 | Parses the flags, then runs the phases in a fixed order: backup, restore, update, invalidate, check. The first checked failure ends the run (`goto error`). |
| table manager | `osip_utils.c` `read_OSIP_loc`, `backup_handle`, `restore_handle`, `write_OSII_entry`, `update_handle`, `invalidate_handle`; `manage_device.c` `write_OSIP` | Reads and writes whole tables or single descriptors. |
| cracker / flasher | `osip_utils.c` `flash_stitch_image`, `write_stitch_image`, `check_image_valid`; `manage_device.c` `crack_stitched_image` | Splits a stitched `.bin` file into its descriptor and payload, stages the descriptor, writes the payload and reads it back. |
| payload API | `manage_device.c` `write_payload_os_image`, `invalidate_payload_osip_record`, `restore_payload_osip_record`, `get_page_size` | A second, older update path for the payload slot. `update_osip` does not use it. |
| other tools | `ifwi-update.c`, `ifwi_version_check.c`, `loadfw.c` | Pass a firmware buffer to a kernel driver through one ioctl. |

Everything is single-threaded and synchronous. The tool does not run concurrently with itself. The hard behaviours are these:

* power can fail between any two device writes;
* several device calls have their result ignored;
* unsigned arithmetic can wrap;
* the order of writes decides what a crash leaves behind.

## Modules

### OsipDevice: the tool on one device

This module is the core model.

**State:**

| variable | what it is |
|---|---|
| `primary`, `backup` | the two tables (`OSIP_header` records) |
| `disk` | each logical block holds the `os_rev` of the image whose bytes it holds, 0, or `Torn` while a write is under way |
| `pc` | the phase of the running `main` |
| `inv` | its command line, including the OSII fields of `-m -n -a -e -l -s -t` (`Fields`; `NoArg` for an option not given) |
| `status` | `none` before the first run, `running`, or how the last run ended: `ok`, `error` or `crashed` |
| `mem`, `osii` | `write_stitch_image`'s local table and its new descriptor |

**Actions:** there is one action per device write of each handler, and one per early return.

| actions | source |
|---|---|
| `Start` | `main` |
| `BackupHandle` | `backup_handle` |
| `RestoreRefused`, `RestoreWritePrimary`, `RestoreZeroBackup` | `restore_handle` |
| `StitchReject` | `write_stitch_image`, lines 110-125 |
| `StitchPrepare` | lines 126-140 |
| `StitchStagePrimary`, `StitchStageBackup` | lines 142-148 |
| `StitchWriteBegin`, `StitchWriteEnd` | lines 150-163 |
| `CheckImageValid` | `check_image_valid` |
| `UpdateHandle` | `update_handle` |
| `InvalidateRefused` | main, lines 198-203 |
| `InvalidateHandle` | `invalidate_handle` |

* **Phase order:** `FirstPhase`, `AfterBackup`, `AfterRestore` and `AfterUpdate` give main's order of phases.
* **`IoError`:** a device call whose result the code checks fails. The run then ends with an error.
* **Ignored-result failures:** for a call whose result the code ignores, the action has a second outcome, the call failing while the handler goes on (`Ignored`). The constant `UncheckedCalls` lists the call sites whose failure a run includes:

  | site | call | what the failure does |
  |---|---|---|
  | `pos_write` | POS table write, line 140 | nothing is written |
  | `backup_read` | backup read, line 142 | the zeroed buffer reads as "no backup" |
  | `stage_write` | staged table write, line 146 | nothing is written |
  | `backup_entry_write` | `write_OSII_entry`, line 148 | nothing is written |
  | `payload_write` | payload write, line 156 | the write returns -1, which the `size_t` comparison never sees |
  | `update_read` | `update_handle`'s read, line 409 | the zeroed buffer is written back |
* **`Crash`:** power fails in any phase. What was written stays written.

**Abstractions:**

* `os_rev_major`/`minor` become one field `os_rev`.
* The XOR header checksum is left out. Nothing in the repository reads it back.
* The payload bytes are the `os_rev` of the image.
* `uint32` products by 512 are computed as `(x % 2^23) * 512`, which equals `(x * 512) % 2^32` and stays within TLC's integers.
* A payload written over the tables leaves them unsigned (`ZeroTable`).
* `update_handle` overrides a field with the option's value unless the value is all ones in the field's width (`Set16`, `Set32`, `Set8`, lines 413-426); `-t` is truncated to the uint8 attribute. Init starts with `status = "none"` and an arbitrary command line (`CHOOSE`), so no exit property holds vacuously in the initial state.

### OsipProcedure: the documented procedure

The usage text documents a procedure, and this module restricts the operator to it. There are three kinds of run:

* `--backup --invalidate <attr of slot n>`;
* `--update n --image x.bin`, only while slot n is not bootable;
* `--restore`, after an update that exited 0 or after a restore that did not.

The steps, crashes and failures are those of `OsipDevice`.

### ManageDevice: the payload API

The state is the primary table, the sectors of the device (512-byte units, the firmware's), the running call and the two locals of `write_payload_os_image` that outlive a device write (`bsize`, `lba`), and the device's `erase_size`, fixed for a behaviour.

| action | source |
|---|---|
| `Start` | a client calls one of the three functions |
| `WritePrepare` | lines 351-388: both sysfs sizes, crack, size check, read, MAX/MIN placement, size conversion, `write_OSIP` (result ignored). A page size of 0 traps at line 385 (`status = "killed"`) before anything is written |
| `PayloadWriteBegin`, `PayloadWriteEnd` | lines 390-405: the payload at `lba * block_size`, fsync, return 0, no read-back |
| `InvalidatePayload` | `invalidate_osip_record(0)`, lines 290-320 |
| `RestorePayload` | `restore_payload_osip_record`, lines 322-343 |
| `IoError`, `Crash` | a checked call fails; power fails |

`Faults` names the failures the code does not see: `table_write` (line 388), `payload_write` (the -1 of line 396) and `sysfs_read` (a `get_page_size` returning -1, one read independently of the other).

### OsipChecksum: the header checksum

`write_OSIP`'s loop (lines 240-248) as three actions, `Clear`, `Step` and `Store`, over the struct's bytes and, past `sizeof(struct OSIP_header)`, the bytes of the caller's frame (`stack`). `ChecksumVerifies` compares the stored byte with the XOR a reader computes over the device, where the bytes past the struct are the device's own (`device`). The XOR is `^^` of the community module Bitwise folded with `FoldFunctionOnSet`. The model's struct has 8 bytes, checksum at offset 7 as in the code, and bytes of 2 bits; XOR works bit by bit, so the width does not matter.

### OsipLayout: offsets of one flash

The byte offset of the backup descriptor `write_OSII_entry` writes (lines 359-365) for any `--update` argument, the payload's sector (line 155, uint32) and the sector `check_image_valid` reads back (line 67, int). One action, `Flash`, computes them from the arguments chosen in Init. Both products go to `lseek` as an `off_t`. The width of `off_t` is fixed by the build, not by the code, so Init also chooses it from `OffBits`: 32 bits on a 32-bit Android target without large-file support, 64 bits otherwise. A negative `off_t` makes `lseek` fail unchecked, and the transfer then starts at byte 0 of the freshly opened device. With 32 bits, the uint32 of line 155 is negative from block 2^22 on, just like the int of line 67.

### Proof modules

`OsipDeviceProofs`, `ManageDeviceProofs`, `OsipLayoutProofs` and `OsipProcedureProofs` each EXTEND their component's module and TLAPS. They hold the inductive invariants, the lemmas and the theorems listed under Proofs. The hypotheses a theorem needs about the constants are named definitions in these modules. They are not assumptions of the components, so the runs check the components under their own constants. `OsipProcedureProofs` also EXTENDS `OsipDeviceProofs` to reuse its lemmas, and `MC_OsipProcedure` EXTENDS it so that the procedure run checks its inductive invariant.

### MC modules

`MC_OsipDevice` and `MC_OsipProcedure` fix a device with three slots:

* slot 0 is the payload OS at LBA 2;
* slot 1 is the POS at LBA 1;
* slot 2 is empty, and its `logical_start_block` is 0;
* the blocks are LBA 0 to 3.

The images are a good one-page image, a two-page image, one with two OSII records (refused by the cracker) and one cut to 1000 bytes (refused by the size check). The `--invalidate` lists are empty, one matching attribute, or one unknown attribute. The device runs keep only the good image and the lists `<<>>` and `<<1>>`; the device run adds the option sets "none" and `-t 257`, which wraps to attribute 1, so that a POS updated with it shares the payload's attribute and `--invalidate 1` meets two matches. With all four images and three lists the run takes minutes; the refused images are exercised by the procedure run.

`MC_ManageDevice` has the payload at sector 2 above the POS at sector 1, and one-page, two-page, two-record and wrong-size images. Its erase sizes are 512 KiB (page size 512, as the rest of the tool assumes) and 512 bytes (page size 0). `MC_OsipLayout` gives the slots -1, 0, 1, 6, 7 and 8 (the cfg syntax has no negative numbers).

## Runs

| run | cfg | expect | properties | what it shows |
|---|---|---|---|---|
| device | MC_OsipDevice.cfg | pass | TypeOK, PrimarySigValid, PlacementPreserved, FlashedSlotIntactOnExit | Any command line, with or without `-t`, repeated, with crashes and failed checked calls, keeps the primary signed and every slot at its block; a run that flashed an image with no `--invalidate` and exits 0 leaves the staged table (backup if signed, else primary) naming the image over blocks that hold it. About 57,000 states, 16 s. |
| device_faults | MC_OsipDevice_faults.cfg | pass | ImageVerifiedOnExit | With every ignored call able to fail, a run that flashed an image exits 0 only with the image on its blocks. `check_image_valid` is what catches the unseen -1 of the payload write. About 400,000 states. |
| update_read | MC_OsipDevice_updateread.cfg | violation | PrimarySigValid | A failing read in `update_handle` writes a zeroed, unsigned primary. |
| clobber | MC_OsipDevice_clobber.cfg | violation | PrimarySigValid | An update of the empty slot 2 writes its payload at offset 0, over both tables. |
| device_commit | MC_OsipDevice_commit.cfg | violation | SizeCommittedOnExit | `--backup --update 0 --image` with a two-page image exits 0 with the old size in the primary. |
| procedure | MC_OsipProcedure.cfg | pass | NoTornBoot, ProcInv, PayloadSparesBootable | The procedure on slot 0 never leaves a bootable descriptor over torn blocks, whatever step power fails at, even with unseen failures of the payload write, the staging writes and `update_handle`'s read. After the last of these the primary is unsigned (see update_read), so no torn image can boot, but neither can any other. The run also checks the inductive invariant `ProcInv` that the proof of `NoTornBoot` uses, and the action property that no step writes a block under a slot the signed primary boots. About 5,800 states. |
| procedure_pos | MC_OsipProcedure_pos.cfg | violation | NoTornBoot | The procedure on the POS slot fails this: line 140 commits the table before the payload. |
| manage | MC_ManageDevice.cfg | pass | TypeOK, PosIntact, PayloadDescribedOnSuccess | Any sequence of payload API calls with crashes keeps the POS's sectors intact, and a `write_payload_os_image` that returns 0 leaves the payload descriptor naming the image, in 512-byte pages, over sectors that hold it. About 1,100 states. |
| manage_sysfs | MC_ManageDevice_sysfs.cfg | violation | PayloadDescribedOnSuccess | With the second sysfs read failing and an erase size of 512 bytes, the only one this configuration gives, the block size is 0 and the page size -1: the table gets size 0, the payload is written at byte 0 over the tables, and the call returns 0. |
| checksum | MC_OsipChecksum.cfg | pass | ChecksumVerifies | For every table (2-bit bytes) and every `header_size` up to the struct's size, the stored checksum verifies against the device. About 1.5 million states, 40 s. |
| layout | MC_OsipLayout.cfg | pass | EntryInDescriptors, VerifyReadsWritten, PayloadAtSlot | For slots 0-6, blocks below 2^22 and either width of `off_t`, the backup entry lands in the backup's descriptor array, the payload lands on the slot's blocks, and the read-back reads the written blocks. |
| layout_verify | MC_OsipLayout_verify.cfg | violation | PayloadAtSlot | With a 32-bit `off_t`, at block 2^22 the uint32 of line 155 is a negative offset. `lseek` fails unchecked and the payload is written at byte 0, over both tables. The read-back of line 67 also starts at 0, so `check_image_valid` passes. |

**Further counterexamples.** Each configuration below checks one property that the code violates, and TLC finds the trace in seconds. They are kept beside the runs above, and the findings list them:

| cfg | module | property | what it shows |
|---|---|---|---|
| MC_OsipDevice_lba.cfg | MC_OsipDevice | PlacementPreserved | `-l 3` moves a slot (finding 8) |
| MC_OsipDevice_imagefields.cfg | MC_OsipDevice | FlashedSlotIntactOnExit | `--image` with `-s 2` (finding 9) |
| MC_OsipDevice_invalidate.cfg | MC_OsipDevice | InvalidateHasBackup | finding 3 |
| MC_OsipProcedure_backup.cfg | MC_OsipProcedure | BackupIsRecoveryPath | finding 2 |
| MC_OsipProcedure_backupread.cfg | MC_OsipProcedure | NoTornBoot | finding 5 |
| MC_OsipProcedure_entrywrite.cfg | MC_OsipProcedure | NoTornBoot | finding 7 |
| MC_ManageDevice_torn.cfg | MC_ManageDevice | NoTornBoot | finding 11 |
| MC_ManageDevice_unseen.cfg | MC_ManageDevice | PayloadDescribedOnSuccess | finding 12 |
| MC_ManageDevice_units.cfg | MC_ManageDevice | PayloadDescribedOnSuccess | finding 14 |
| MC_OsipChecksum_overread.cfg | MC_OsipChecksum | ChecksumVerifies | finding 15 |
| MC_OsipLayout_slot.cfg | MC_OsipLayout | EntryInDescriptors | finding 16 |
| MC_OsipLayout_verify64.cfg | MC_OsipLayout | VerifyReadsWritten | with a 64-bit `off_t`, the read-back starts at sector 0 (finding 17) |
| MC_ManageDevice_halfblock.cfg | MC_ManageDevice | PosIntact | finding 18 |
| MC_OsipProcedure_twoslots.cfg | MC_OsipProcedure | NoTornBoot | slots 0 and 2 are both updated (finding 19) |
| MC_OsipProcedure_unbooted.cfg | MC_OsipProcedure | NoTornBoot | slot 0 is not bootable before the first update (finding 20) |
| MC_OsipProcedure_unbootable.cfg | MC_OsipProcedure | NoTornBoot | an image with load address 0 is flashed (finding 20) |
| MC_OsipProcedure_fields.cfg | MC_OsipProcedure | NoTornBoot | `--update` with `-a 1` (finding 21) |

**Bounds.** Three slots are enough for the interesting cases:

* the payload slot;
* the POS slot (POS = 1), where the code takes a different branch;
* an unused slot at LBA 0.

Four blocks let two images and an empty block coexist. A size of up to 2 pages makes images of one and two blocks. Runs are unbounded in number: the state space is finite because the device has finitely many contents. For `ManageDevice`, six sectors hold the tables, the POS, the payload and a two-page payload at the 1 KiB units of a 1 MiB erase size. For the layout, the block numbers include the last four below 2^22, where the signed product is still positive, and both widths of `off_t` are checked.

**Fairness:** none is assumed. The tool makes no progress promise to check, because a run can always crash or fail. Every property here is a safety property.

## Findings

1. `osip_utils.c:140`: for the POS slot the table is committed before the payload is written, against the spec's order of payload, then table (procedure_pos).
2. `osip_utils.c:148`: the backup gets the new descriptor before the payload exists, so after a crash it is not a recovery path.
3. `update_osip.c:199`: invalidate checks the `--backup` flag, not that a backup exists.
4. `osip_utils.c:155`: the payload offset is never checked against the table region. An unused slot (lba 0) is written over both tables (clobber).
5. `osip_utils.c:142`: a failed read of the backup is taken for "no backup".
6. `osip_utils.c:409`: `update_handle` writes a zeroed table when its read fails (update_read).
7. `osip_utils.c:148`: a failed `write_OSII_entry` goes unseen, and a later restore installs a stale descriptor.
8. `osip_utils.c:417`: `-l` changes a slot's `logical_start_block`, which the comment at `update_osip.c:54` says should not change.
9. `osip_utils.c:412-428` with `update_osip.c:189-196`: explicit fields are applied after the flash and override the image's descriptor, and the run exits 0.
10. `osip_utils.c:147-148`: with a signed backup the new descriptor reaches only the backup; the primary keeps the old size (device_commit), against spec section 4.5 step 5 and section 8.
11. `manage_device.c:388`: `write_payload_os_image` writes the table before the payload.
12. `manage_device.c:396`: a payload write returning -1 is not seen, and nothing is read back.
13. `manage_device.c:385`: with the second sysfs read failing the size is 0; with a block size of 0 the payload lands on the tables (manage_sysfs).
14. `manage_device.c:385`: page and block size come from `erase_size / 1024`, not the 512-byte sector the firmware uses.
15. `manage_device.c:245`: the checksum loop is bounded by `header_size`, not by the struct.
16. `osip_utils.c:360` and `update_osip.c:117`: `--update` is never range checked; `-1` overwrites fields of the backup's header.
17. `osip_utils.c:155` and `osip_utils.c:67`: the payload offset is a uint32 and the read-back offset a signed int, and both go to `lseek` unchecked. With a 32-bit `off_t`, both are negative from block 2^22 (2 GiB) on. Both seeks then fail, the payload is written at byte 0 over both tables, and the read-back, also at 0, passes (layout_verify). With a 64-bit `off_t` only the read-back fails: it reads sector 0 and reports a good write as disrupted (MC_OsipLayout_verify64.cfg).
18. `manage_device.c:395`: an erase size of 256 KiB gives a 256-byte block. The payload at sector 2 is then written from byte 512, which is sector 1, the POS. The MAX/MIN placement of lines 377-382 keeps the POS only when the block is at least one sector. This was found while proving `PosIntactThm`, whose hypothesis `BlockNotBelowSector` it shows is needed.
19. `osip_utils.c:318-322` with `osip_utils.c:148`: `restore_handle` writes the whole backup table, not just the slot that was updated. When the procedure is used for two slots, the backup can hold the new descriptor of a slot whose update never finished. A restore after an update of the other slot then makes that slot boot over blocks that do not hold its image. This and findings 20-21 were found while building the inductive invariant of `NoTornBootSafe`.
20. `osip_utils.c:143-146`: the staging choice rests only on whether a signed backup exists. If the slot is not bootable when no backup exists, the table is committed to the primary before the payload. The operator may then update it without a prepare run, because the usage text only asks that the slot not be bootable. A restore of an image whose load address is 0 leaves a slot like this: the restore erases the backup (lines 328-335), and the slot cannot be booted.
21. `osip_utils.c:419-422`: an `-a` or `-e` option given with `--update` turns the primary's invalidated descriptor back into a bootable one. That descriptor still has the old revision, and its blocks now hold the new payload.

## Proofs (TLAPS)

Thirteen theorems in four modules. Each proof starts from an inductive invariant that TLC first checked as an invariant of a run. It has one case per action, and under a case one step per conjunct the action can disturb.

**Scope.** `OsipDevice`, `OsipProcedure` and `ManageDevice` place a payload at its block number, with no 32-bit wrap and no negative `off_t`. `OsipLayout` shows that this is exact below block 2^22 (2 GiB) whatever the width of `off_t`, and only there. So the theorems about these modules hold for every value of their constants whose slots lie below block 2^22. A slot further out is covered by finding 17 and by `PayloadAtSlotThm`, not by them.

### OsipDeviceProofs

* **`TypeCorrect`:** `Spec => []TypeOK`. Its inductive invariant is `TypeOK` strengthened by `PhaseOK`: the phases of `write_stitch_image` and `update_handle` run only with a slot, and those of `write_stitch_image` only with an image. It rests on `FieldsAssumption`, the type of the parsed options, and on the lemmas `OverrideOSIIType` and `UpdatedTableType`.
* **`PrimarySigSafe`:** under `NoClobber`, `UpdateReadSucceeds` and `LbaKept`, `Spec => []PrimarySigValid`. The three hypotheses are exactly what findings 4, 6 and 8 show is needed:
  * `NoClobber`: no slot the operator may update has a payload offset inside the first 424 bytes;
  * `UpdateReadSucceeds`: `"update_read"` is not in `UncheckedCalls`;
  * `LbaKept`: no option set carries `-l`.

  The theorem holds for every other set of failing ignored calls and every other option.
* **`PlacementSafe`:** under the same hypotheses, `Spec => []PlacementPreserved`.
* **`ImageVerifiedSafe`:** `Spec => []ImageVerifiedOnExit`, with no hypothesis. It holds for every set of failing ignored calls. Its invariant `Verified` adds that, in `update_handle` and `invalidate`, the descriptor `write_stitch_image` built names blocks that hold the image. Lemma `ImagePhases` says a run with `--image` reaches neither phase nor the exit before `write_stitch_image`.
* **`FlashedSlotSafe`:** `Spec => []FlashedSlotIntactOnExit`, under five hypotheses:
  * `NoClobber`, `UpdateReadSucceeds` and `LbaKept`;
  * `StagingSeen`: the read of the backup and the two staging writes of lines 142-148 report their failures (findings 5 and 7);
  * `FlashedFieldsKept`: no `-m/-n` or `-s` option (finding 9).

  The POS and payload writes may fail. The invariant `FlashInv` is `SigInv /\ Verified /\ FlashTracked`:
  * the new descriptor carries the image's revision;
  * until it is staged, the local table holds it;
  * from then on, the staged table's slot names the same revision, block and size;
  * in `invalidate` the run has an `--invalidate` list.

  `SigInv` is needed because the payload write must not zero the tables. `Verified` is needed because the image must be on the blocks. Lemma `OverrideKeepsImage` shows that `update_handle`'s override keeps the image under these hypotheses.

`PrimarySigSafe` and `PlacementSafe` rest on the inductive invariant `SigInv`, which says:

* the primary is signed and every slot sits at its provisioned block;
* a signed backup is in place too;
* while `write_stitch_image` holds its local table (`update_stage`), that table is a signed, in-place copy of the primary;
* until the payload has been written, the new descriptor's block is the slot's provisioned block.

The last two conjuncts are needed because the primary is written from `mem` (line 146) and the payload from `osii` (line 155) one step after they were computed. The lemmas are the type lemmas (`SetSlotType`, `NewOSIIType`, `InvalidateTableType`, `OverrideOSIIType`, `UpdatedTableType`) and `InvalidatePlaced`.

### ManageDeviceProofs

* **`TypeCorrect`:** `Spec => []TypeOK` for every value of the constants. Its invariant adds `CallMatchesPc`: each phase belongs to the operation that is running.
* **`PosIntactThm`:** `Spec => []PosIntact` for any set of `Faults`, under two hypotheses:
  * `BlockNotBelowSector`: every erase size gives a block of 0 or of at least 512 bytes. Finding 18 shows this is needed;
  * `PosProvisioned`: the POS ends at or below the payload's start, and its sectors hold it.

  The invariant `PosInv` says:
  * the table keeps the POS descriptor and below-payload placement that `WritePrepare`'s MAX/MIN gives (`PosDesc`, `PosBelowPayload`);
  * while the payload is written, its start is at or above the POS's end, and once the write began sector 0 is not touched (`BlockCov`).

  Lemma `PayloadMissesBelow` shows that a write at `lba * block` with such a block misses every sector below `lba`.
* **`PayloadDescribedThm`:** `Spec => []PayloadDescribedOnSuccess`, under three hypotheses:
  * `Faults = {}`: findings 11 and 12 show unseen failures break it;
  * `BlockIsSector`: the block is 0 or exactly 512 bytes (finding 14);
  * `PayloadOffTable`: the provisioned payload does not start at sector 0.

  The invariant `DescInv` says that, during the payload write, the block is one sector, the write starts at the descriptor's block, and the descriptor holds the image's revision and size (`PayloadWriting`).

### OsipLayoutProofs

* **`EntryInDescriptorsThm`**, **`PayloadAtSlotThm`** and **`VerifyReadsWrittenThm`** characterise the three layout properties exactly, once the flash is done, for either width of `off_t`:
  * the backup entry lands in the descriptor array if and only if `--update` is in 0..6;
  * the payload lands on the slot's blocks if and only if the block is below 2^22 with a 32-bit `off_t`, or below 2^23 with a 64-bit one;
  * the read-back reads the written sectors if and only if `off_t` is 32 bits, or the block, taken mod 2^23, is below 2^22.

  So the violations of findings 16 and 17 are all there is. The lemmas are `EntryOffsetInTable`, `WriteAtBlock` and `VerifyMatchesWrite`, and the invariant is `Flashed`. The one assumption is `LayoutAssumption`, which limits `OffBits` to {32, 64}.

### OsipProcedureProofs

* **`NoTornBootSafe`:** `ProcSpec => []NoTornBoot`. Power may fail at any step, and the payload, POS, staging and `update_handle` writes may fail unseen. The theorem has six hypotheses. The first five are each needed, because without any one of them TLC finds `NoTornBoot` violated:
  * `PayloadSlotsOnly`: the POS is not updated (finding 1);
  * `OneSlot`: one slot is updated (finding 19);
  * `BackupCallsSeen`: the backup read and the backup entry write report failures (findings 5 and 7);
  * `SlotFieldsKept`: no `-l`, `-a` or `-e` option is given (findings 8 and 21);
  * `BootableImages`: every image, and the updated slot as provisioned, is bootable (finding 20);
  * `SlotsApart`: the provisioned bootable images do not share blocks, and no payload of the updated slot, up to `MaxSize` blocks, reaches another bootable slot. This is the device's layout, not a property of the code.
* **`PayloadSparesBootableSafe`:** under the same hypotheses, `ProcSpec => PayloadSparesBootable`. No step writes a block under a slot that the signed primary boots. It follows from the same invariant, because the only block write is `write_stitch_image`'s payload write.

`NoTornBoot` is not inductive on its own. A state can satisfy it while the backup holds a bootable new descriptor whose payload is still being written. A restore after a crash would then install that descriptor. The inductive invariant `ProcInv` adds what holds between the steps of the runs:

* `RunOfPhase`: each phase belongs to the run the operator started;
* `Shaped`: in both tables a slot that is never updated boots only as provisioned, and an updated slot sits at its provisioned block, or at block 0 in a zeroed table;
* `MemStaged`, `NewDesc`, `WrittenAt` and `StageAt`: the local table, the new descriptor and the written blocks agree with the slot being updated and its provisioned block;
* `DiskInv`: while a table is signed, the blocks outside every update region keep their provisioned contents;
* `BackupWhenInvalid`, `InvalidWhileUpdating`, `StagedInBackup`, `InvalidateBacked` and `BackupReady`: while the primary's slot is invalid or its payload is being written, a signed backup holds a bootable, placed copy of it;
* `OsiiHeld`: after `check_image_valid` the new image is on its blocks;
* `RestoreCopied`: between `restore_handle`'s two writes the primary equals the backup;
* `SignedPlaced`: a signed primary keeps each update slot at its provisioned block.

The procedure run checks `ProcInv` as an invariant. The lemmas are:

* `KeptWrite` and `WriteInside`: a payload write changes only blocks in the updated slot's region;
* `InvalidateKeeps`, `InvalidateGood`, `UpdatedKeeps`, `UpdatedShaped` and `ZeroShaped`: how each table operation acts on the slots;
* `SetSlotFacts`: the staged table, stated over the named operators `StagedTable` and `EntryWritten` so that the provers can instantiate it;
* `ProcStep`: one case per action of `ProcNext`.

**Left to TLC:**

* `OsipChecksum`'s `ChecksumVerifies`: the module uses Bitwise, which TLAPS cannot take, and a fold over a set, which would need induction over data.
* `PayloadDescribedOnSuccess` with failing calls, and the other violated properties, whose counterexamples the runs give.
* Any liveness or ENABLED reasoning, which is out of TLAPS's reach. No liveness property is stated, since no fairness is justified.

## Not modelled

* Short writes that `write(...) < 0` accepts in `write_OSIP` and `backup_handle`, and `fsync` failures. The tables are one sector, and a sector write is taken to be atomic.
* The stack corruption of more than ten `--invalidate` options (`update_osip.c:107`), and of `desc[n]` for an `n` outside 0..6 (`osip_utils.c:133`). What is overwritten depends on the frame layout; `OsipLayout` models the device writes such an `n` causes.
* The ifwi, version-check and loadfw tools. Each is one ioctl around file I/O.
* The `--check` phase and the dump functions, which only read and print.

## Plan

1. An abstract staged-table specification that both update paths are checked to refine (INSTANCE ... WITH), with a TLAPS proof of the refinement.
2. A proof that `OsipChecksum`'s loop computes the checksum. This needs the checksum written without Bitwise and an induction TLAPS can instantiate.
