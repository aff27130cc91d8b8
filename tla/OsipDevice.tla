----------------------------- MODULE OsipDevice -----------------------------
(***************************************************************************)
(* The OSIP tool of src/flash_stitched: main (update_osip.c), its        *)
(* handlers (osip_utils.c), write_OSIP and the cracker (manage_device.c). *)
(* The eMMC device holds the primary OSIP table at byte 0, the backup      *)
(* table at BACKUP_LOC and the OS images at logical_start_block *          *)
(* block_size.  One run of the tool (main) performs, in this fixed order,  *)
(* the backup, restore, update and invalidate phases its flags ask for;    *)
(* each phase is one or more steps below, one per device write.  Power may *)
(* fail between any two steps (Crash); the device keeps what was written.  *)
(*                                                                         *)
(* Data abstraction: a descriptor keeps its fields, os_rev_major/minor are *)
(* one field os_rev naming the image, a disk block holds the os_rev of the *)
(* image whose bytes it holds (0: none, Torn: a write was cut).  The       *)
(* checksum is recomputed on every write_OSIP and is left out here.        *)
(***************************************************************************)
EXTENDS Integers, Sequences

CONSTANTS
    OSII_TOTAL,    \* descriptor slots in a table (7 in osip.h)
    Revs,          \* os_rev values naming images (0 is "no image")
    Attrs,         \* attribute values a descriptor may carry
    Addrs,         \* ddr_load_address / entery_point values, 0 included
    MaxLba,        \* last logical block of the device in the model
    MaxSize,       \* bound on size_of_os_image (device pages)
    Images,        \* the stitched .bin files the operator may pass
    InvalArgs,     \* the --invalidate argument lists the operator may pass
    UpdateSlots,   \* the --update slot numbers the operator may pass
    InitPrimary,   \* the provisioned primary table at the start
    Torn,          \* model value: content of a block whose write was cut
    NoSlot,        \* model value: no --update flag
    NoImage,       \* model value: no --image flag
    Fields,        \* the explicit OSII options (-m -l -a -e -s -t) main may parse
    NoArg,         \* model value: an OSII option that is not given
    UncheckedCalls \* the calls with an ignored result whose failure is modelled

Slots == 0 .. (OSII_TOTAL - 1)
Lbas == 0 .. MaxLba

\* osip.h constants
OSIP_SIG == 609439524               \* 0x24534f24, "$OS$"
BACKUP_LOC == 224                   \* 0xE0
POS == 1
MMC_PAGE_SIZE == 512
MMC_PAGES_PER_BLOCK == 1
STITCHED_IMAGE_PAGE_SIZE == 512
STITCHED_IMAGE_BLOCK_SIZE == 512
OSIP_HEADER_BYTES == 200            \* sizeof(struct OSIP_header)

get_page_size == MMC_PAGE_SIZE
get_block_size == get_page_size * MMC_PAGES_PER_BLOCK

OSII == [os_rev : {0} \cup Revs,
         logical_start_block : Lbas,
         ddr_load_address : Addrs,
         entery_point : Addrs,
         size_of_os_image : 0 .. MaxSize,
         attribute : Attrs]

OSIP_header == [sig : {OSIP_SIG, 0}, num_images : 0 .. 255,
                desc : [Slots -> OSII]]

\* A stitched image: its LBA0 block is an OSIP header, desc[0] describes it.
StitchedImage == [num_images : 0 .. 255,
                  desc : [os_rev : Revs, logical_start_block : Nat,
                          ddr_load_address : Addrs, entery_point : Addrs,
                          size_of_os_image : Nat,
                          attribute : Attrs],
                  file_size : Nat]

Content == {0} \cup Revs \cup {Torn}

\* The explicit OSII options of main (update_osip.c 122-155): each is absent
\* or the int atoi returned.  os_rev_major/minor (-m, -n) are one option.
\* A uint32 field keeps a non-negative int as it is; -1 converts to the
\* all-ones value main's memset (line 42) uses for "not given".
FieldArgs == [rev : Revs \cup {NoArg}, lba : Lbas \cup {-1, NoArg},
              addr : Addrs \cup {-1, NoArg}, entry : Addrs \cup {-1, NoArg},
              size : (0 .. MaxSize) \cup {-1, NoArg}, attr : Int \cup {NoArg}]

NoFields == [rev |-> NoArg, lba |-> NoArg, addr |-> NoArg, entry |-> NoArg,
             size |-> NoArg, attr |-> NoArg]

\* uint32 arithmetic: x * 512 wraps at 2^32, so (x * 512) % 2^32 is
\* (x % 2^23) * 512; written this way it stays within TLC's integers.
Wrap23(x) == x % 8388608

\* Mutant: the size is left in bytes, the division by the page size dropped.
Mutant_DeviceSize(img) ==
    Wrap23(img.desc.size_of_os_image) * STITCHED_IMAGE_PAGE_SIZE

\* Pages of the image after the conversion of write_stitch_image (line 135):
\* ((size * 512) % 2^32) / get_page_size.
DeviceSize(img) ==
    (Wrap23(img.desc.size_of_os_image) * STITCHED_IMAGE_PAGE_SIZE)
        \div get_page_size

\* The device calls of an update whose result the code never looks at:
\* write_OSIP of the POS table (osip_utils.c 140), the read of the backup
\* (142), write_OSIP of the staged table (146), write_OSII_entry into the
\* backup (148), the payload write whose -1 is compared as a size_t (156)
\* and update_handle's read of the primary (409).
UncheckedCallSites ==
    {"pos_write", "backup_read", "stage_write", "backup_entry_write",
     "payload_write", "update_read"}

ASSUME ConstantsAssumption ==
    /\ OSII_TOTAL \in Nat \ {0, 1}
    /\ 0 \notin Revs /\ Torn \notin Revs
    /\ 0 \in Addrs /\ 0 \in Attrs /\ Attrs \subseteq 0 .. 255
    /\ MaxLba \in Nat /\ MaxSize \in Nat
    /\ Images \subseteq StitchedImage
    /\ \A img \in Images : Wrap23(img.desc.size_of_os_image) \in 0 .. MaxSize
    /\ InvalArgs \subseteq Seq(Nat) /\ InvalArgs # {}
    /\ UpdateSlots \subseteq Slots
    /\ NoSlot \notin Slots /\ NoImage \notin Images
    /\ InitPrimary \in OSIP_header /\ InitPrimary.sig = OSIP_SIG
    /\ UncheckedCalls \subseteq UncheckedCallSites

\* The explicit options main may parse: an attribute truncates to a value of
\* Attrs, or to 255, which update_handle takes for "not given".
ASSUME FieldsAssumption ==
    /\ NoArg \notin Int /\ NoFields \in Fields /\ Fields \subseteq FieldArgs
    /\ \A f \in Fields : f.attr # NoArg => f.attr % 256 \in Attrs \cup {255}

ZeroOSII == [os_rev |-> 0, logical_start_block |-> 0, ddr_load_address |-> 0,
             entery_point |-> 0, size_of_os_image |-> 0, attribute |-> 0]
ZeroTable == [sig |-> 0, num_images |-> 0, desc |-> [s \in Slots |-> ZeroOSII]]

\* A descriptor the boot firmware may still load and jump to.
Bootable(d) == d.ddr_load_address # 0 \/ d.entery_point # 0

\* The blocks an image of size pages starting at lba occupies.
Covered(lba, size) == {l \in Lbas : lba <= l /\ l < lba + size}

\* Byte offset of the payload write, lba * block_size in 32 bits (line 155).
PayloadOffset(lba) == Wrap23(lba) * get_block_size

\* The write overlaps the primary or the backup table.
ClobbersTables(lba) == PayloadOffset(lba) < BACKUP_LOC + OSIP_HEADER_BYTES

InitDisk ==
    [l \in Lbas |->
        IF \E s \in Slots : Bootable(InitPrimary.desc[s])
                            /\ l \in Covered(InitPrimary.desc[s].logical_start_block,
                                             InitPrimary.desc[s].size_of_os_image)
        THEN InitPrimary.desc[CHOOSE s \in Slots :
                 Bootable(InitPrimary.desc[s])
                 /\ l \in Covered(InitPrimary.desc[s].logical_start_block,
                                  InitPrimary.desc[s].size_of_os_image)].os_rev
        ELSE 0]

-----------------------------------------------------------------------------
(* The command line of one run of main.                                    *)

Invocation == [backup : BOOLEAN, restore : BOOLEAN,
               update : UpdateSlots \cup {NoSlot},
               image : Images \cup {NoImage}, inval : InvalArgs,
               fields : Fields]

\* getopt_long loop: at least one flag; --image and the OSII options only
\* matter with --update
Invocations ==
    {i \in Invocation :
        /\ i.backup \/ i.restore \/ i.update # NoSlot \/ i.inval # << >>
        /\ i.update = NoSlot => i.image = NoImage /\ i.fields = NoFields}

\* The order of the phases in main (update_osip.c lines 177-206).
AfterUpdate(i) == IF i.inval # << >> THEN "invalidate" ELSE "idle"
\* Mutant: the image of --image is never flashed (the fwBinFile test of
\* line 190 dropped with its branch).
Mutant_AfterRestore(i) ==
    IF i.update = NoSlot THEN AfterUpdate(i) ELSE "update_handle"

AfterRestore(i) ==
    IF i.update = NoSlot THEN AfterUpdate(i)
    ELSE IF i.image # NoImage THEN "update_prepare" ELSE "update_handle"
AfterBackup(i) == IF i.restore THEN "restore_primary" ELSE AfterRestore(i)
FirstPhase(i) == IF i.backup THEN "backup" ELSE AfterBackup(i)

Phases == {"idle", "backup", "restore_primary", "restore_zero",
           "update_prepare", "update_stage", "payload_write", "payload_sync",
           "verify", "update_handle", "invalidate"}

\* The phases whose device calls have their result checked.
CheckedPhases == Phases \ {"idle", "update_stage"}

-----------------------------------------------------------------------------
(* The stitched image cracker and the invalidate loop.                     *)

\* crack_stitched_image (osip_utils.c 273-288)
Crackable(img) == img.num_images = 1

\* the size check of write_stitch_image (lines 119-125): the uint32 product
\* against size - 512 in size_t, which wraps to above 2^32 for a file
\* shorter than one block.
SizeMatches(img) ==
    /\ img.file_size >= STITCHED_IMAGE_BLOCK_SIZE
    /\ Wrap23(img.desc.size_of_os_image) * STITCHED_IMAGE_PAGE_SIZE
         = img.file_size - STITCHED_IMAGE_BLOCK_SIZE

\* Mutant: the image's own logical_start_block is kept (lines 132-133 dropped).
Mutant_NewOSII(img, t, n) ==
    [os_rev |-> img.desc.os_rev,
     logical_start_block |-> img.desc.logical_start_block,
     ddr_load_address |-> img.desc.ddr_load_address,
     entery_point |-> img.desc.entery_point,
     size_of_os_image |-> DeviceSize(img),
     attribute |-> img.desc.attribute]

\* The descriptor write_stitch_image installs in slot n (lines 132-138).
NewOSII(img, t, n) ==
    [os_rev |-> img.desc.os_rev,
     logical_start_block |-> t.desc[n].logical_start_block,
     ddr_load_address |-> img.desc.ddr_load_address,
     entery_point |-> img.desc.entery_point,
     size_of_os_image |-> DeviceSize(img),
     attribute |-> img.desc.attribute]

\* invalidate_handle keeps logical_start_block, size and attribute.
InvalidOSII(d) ==
    [ZeroOSII EXCEPT !.logical_start_block = d.logical_start_block,
                     !.size_of_os_image = d.size_of_os_image,
                     !.attribute = d.attribute]

\* Slot j is the first one whose attribute is the i-th argument.  The loop
\* never changes an attribute, so every argument finds the slot it would
\* find on the table as read.
FirstMatch(t, a, j) ==
    /\ t.desc[j].attribute = a
    /\ \A k \in Slots : k < j => t.desc[k].attribute # a

AllFound(t, args) ==
    \A i \in 1 .. Len(args) : \E j \in Slots : t.desc[j].attribute = args[i]

InvalidateTable(t, args) ==
    [t EXCEPT !.desc =
        [j \in Slots |->
            IF \E i \in 1 .. Len(args) : FirstMatch(t, args[i], j)
            THEN InvalidOSII(t.desc[j]) ELSE t.desc[j]]]

\* update_handle's tests against the all-ones values (lines 413-426).
Set16(a) == a # NoArg /\ a % 65536 # 65535
Set32(a) == a # NoArg /\ a # -1
Set8(a) == a # NoArg /\ a % 256 # 255

\* update_handle lines 412-426: each option that was given replaces the
\* field of the slot as read; the attribute is atoi's int truncated to uint8.
OverrideOSII(d, f) ==
    [os_rev |-> IF Set16(f.rev) THEN f.rev ELSE d.os_rev,
     logical_start_block |-> IF Set32(f.lba) THEN f.lba ELSE d.logical_start_block,
     ddr_load_address |-> IF Set32(f.addr) THEN f.addr ELSE d.ddr_load_address,
     entery_point |-> IF Set32(f.entry) THEN f.entry ELSE d.entery_point,
     size_of_os_image |-> IF Set32(f.size) THEN f.size ELSE d.size_of_os_image,
     attribute |-> IF Set8(f.attr) THEN f.attr % 256 ELSE d.attribute]

\* The table update_handle writes when it read t: slot n overridden.
UpdatedTable(t, n, f) == [t EXCEPT !.desc[n] = OverrideOSII(t.desc[n], f)]

-----------------------------------------------------------------------------
VARIABLES
    primary,   \* the OSIP table at byte 0
    backup,    \* the OSIP table at BACKUP_LOC
    disk,      \* the content of each logical block
    pc,        \* the phase the running main is in
    inv,       \* the command line of the running (or last) run, any one before the first
    status,    \* "none" before the first run, "running", or how the last run ended
    mem,       \* write_stitch_image's local copy osip of the primary
    osii       \* write_stitch_image's new descriptor

device == <<primary, backup, disk>>
vars == <<primary, backup, disk, pc, inv, status, mem, osii>>

TypeOK ==
    /\ primary \in OSIP_header
    /\ backup \in OSIP_header
    /\ disk \in [Lbas -> Content]
    /\ pc \in Phases
    /\ inv \in Invocations
    /\ status \in {"none", "running", "ok", "error", "crashed"}
    /\ mem \in OSIP_header
    /\ osii \in OSII

Init ==
    /\ primary = InitPrimary
    /\ backup = ZeroTable
    /\ disk = InitDisk
    /\ pc = "idle"
    /\ inv = CHOOSE i \in Invocations : TRUE
    /\ status = "none"
    /\ mem = ZeroTable
    /\ osii = ZeroOSII

\* write_OSIP (manage_device.c 234-271): the header checksum is recomputed
\* (left out here) and the whole table is written at byte 0 and flushed.
write_OSIP(t) == primary' = t

\* A call at site c whose result is ignored: it does A, or, when its failure
\* is modelled, it fails and leaves v as it was while the handler goes on.
Ignored(c, A, v) == A \/ (c \in UncheckedCalls /\ UNCHANGED v)

\* Go on with phase p of the same run; "idle" means main exits 0.
Goto(p) == pc' = p /\ status' = IF p = "idle" THEN "ok" ELSE status

\* goto error: main prints "Program Early Terminated!" and exits -1.
Fail == pc' = "idle" /\ status' = "error"

\* main starts with the command line i.
Start(i) ==
    /\ pc = "idle"
    /\ inv' = i
    /\ pc' = FirstPhase(i)
    /\ status' = "running"
    /\ mem' = ZeroTable
    /\ osii' = ZeroOSII
    /\ UNCHANGED device

\* A device call whose result the code checks fails (open, read, write or
\* lseek of the phase): the run ends with an error, nothing more is written.
IoError ==
    /\ pc \in CheckedPhases
    /\ Fail
    /\ UNCHANGED <<primary, backup, disk, inv, mem, osii>>

\* Power fails while main runs: the device keeps what was written so far.
Crash ==
    /\ pc # "idle"
    /\ pc' = "idle"
    /\ status' = "crashed"
    /\ UNCHANGED <<primary, backup, disk, inv, mem, osii>>

\* main (update_osip.c 177-182) and backup_handle: the primary, as read, is written
\* to BACKUP_LOC and flushed.
BackupHandle ==
    /\ pc = "backup"
    /\ backup' = primary
    /\ Goto(AfterBackup(inv))
    /\ UNCHANGED <<primary, disk, inv, mem, osii>>

\* restore_handle lines 312-322: a backup without the signature is refused,
\* otherwise write_OSIP writes it to the primary.
RestoreRefused ==
    /\ pc = "restore_primary"
    /\ backup.sig # OSIP_SIG
    /\ Fail
    /\ UNCHANGED <<primary, backup, disk, inv, mem, osii>>

\* Mutant: the signature check of line 316 dropped.
Mutant_RestoreWritePrimary ==
    /\ pc = "restore_primary"
    /\ primary' = backup
    /\ pc' = "restore_zero"
    /\ UNCHANGED <<backup, disk, inv, status, mem, osii>>

RestoreWritePrimary ==
    /\ pc = "restore_primary"
    /\ backup.sig = OSIP_SIG
    /\ write_OSIP(backup)
    /\ pc' = "restore_zero"
    /\ UNCHANGED <<backup, disk, inv, status, mem, osii>>

\* restore_handle lines 324-347: the backup region is zeroed and flushed;
\* the reboot reason is sent over IPC, whose failure is only printed.
RestoreZeroBackup ==
    /\ pc = "restore_zero"
    /\ backup' = ZeroTable
    /\ Goto(AfterRestore(inv))
    /\ UNCHANGED <<primary, disk, inv, mem, osii>>

\* write_stitch_image lines 115-125: an image that is not a single-OSII
\* stitched image, or whose size disagrees with its descriptor, is refused.
StitchReject ==
    /\ pc = "update_prepare"
    /\ ~Crackable(inv.image) \/ ~SizeMatches(inv.image)
    /\ Fail
    /\ UNCHANGED <<primary, backup, disk, inv, mem, osii>>

\* write_stitch_image lines 126-140: the primary is read, slot n gets the
\* image's descriptor at the slot's own logical_start_block; for the POS
\* slot the new table is written to the primary at once.
StitchPrepare ==
    /\ pc = "update_prepare"
    /\ Crackable(inv.image) /\ SizeMatches(inv.image)
    /\ LET n == inv.update
           new == NewOSII(inv.image, primary, n)
           tbl == [primary EXCEPT !.num_images = 1, !.desc[n] = new]
       IN  /\ mem' = tbl
           /\ osii' = new
           /\ \/ n = POS /\ Ignored("pos_write", write_OSIP(tbl), primary)
              \/ n # POS /\ UNCHANGED primary
    /\ pc' = "update_stage"
    /\ UNCHANGED <<backup, disk, inv, status>>

\* write_stitch_image lines 142-148: with no backup the new table goes to
\* the primary, with a backup only the new descriptor goes to the backup.
\* A failed read of the backup leaves bck_osip zeroed by read_OSIP_loc
\* (line 247), which reads as "no backup".
StitchStagePrimary ==
    /\ pc = "update_stage"
    /\ backup.sig # OSIP_SIG \/ "backup_read" \in UncheckedCalls
    /\ Ignored("stage_write", write_OSIP(mem), primary)
    /\ pc' = "payload_write"
    /\ UNCHANGED <<backup, disk, inv, status, mem, osii>>

\* Mutant: the new table is written to the primary in both cases.
Mutant_StitchStageBackup ==
    /\ pc = "update_stage"
    /\ backup.sig = OSIP_SIG
    /\ Ignored("backup_entry_write",
               backup' = [backup EXCEPT !.desc[inv.update] = osii], backup)
    /\ primary' = mem
    /\ pc' = "payload_write"
    /\ UNCHANGED <<disk, inv, status, mem, osii>>

StitchStageBackup ==
    /\ pc = "update_stage"
    /\ backup.sig = OSIP_SIG
    /\ Ignored("backup_entry_write",
               backup' = [backup EXCEPT !.desc[inv.update] = osii], backup)
    /\ pc' = "payload_write"
    /\ UNCHANGED <<primary, disk, inv, status, mem, osii>>

\* write_stitch_image lines 150-156: the write of the payload starts; until
\* fsync returns the blocks it covers hold no complete image.  A write at
\* an offset inside the first 424 bytes overwrites both tables.
StitchWriteBegin ==
    /\ pc = "payload_write"
    /\ LET lba == osii.logical_start_block IN
       /\ disk' = [l \in Lbas |->
                     IF l \in Covered(lba, osii.size_of_os_image)
                     THEN Torn ELSE disk[l]]
       /\ \/ ClobbersTables(lba) /\ primary' = ZeroTable /\ backup' = ZeroTable
          \/ ~ClobbersTables(lba) /\ UNCHANGED <<primary, backup>>
    /\ pc' = "payload_sync"
    /\ UNCHANGED <<inv, status, mem, osii>>

\* write_stitch_image lines 156-163: write and fsync complete.  A write
\* that returns -1 passes the check of line 156 (the -1 is converted to
\* size_t), and the blocks keep what the cut write left in them.
StitchWriteEnd ==
    /\ pc = "payload_sync"
    /\ Ignored("payload_write",
               disk' = [l \in Lbas |->
                          IF l \in Covered(osii.logical_start_block,
                                           osii.size_of_os_image)
                          THEN osii.os_rev ELSE disk[l]],
               disk)
    /\ pc' = "verify"
    /\ UNCHANGED <<primary, backup, inv, status, mem, osii>>

\* The blocks of descriptor d hold the image d names.
HoldsImage(d) ==
    \A l \in Covered(d.logical_start_block, d.size_of_os_image) :
        disk[l] = d.os_rev

\* Mutant: the image is not read back, the run goes on in any case.
Mutant_CheckImageValid ==
    /\ pc = "verify"
    /\ Goto("update_handle")
    /\ UNCHANGED <<primary, backup, disk, inv, mem, osii>>

\* check_image_valid (lines 53-97): the written blocks are read back and
\* compared with the image; a mismatch fails the run.
CheckImageValid ==
    /\ pc = "verify"
    /\ \/ HoldsImage(osii) /\ Goto("update_handle")
       \/ ~HoldsImage(osii) /\ Fail
    /\ UNCHANGED <<primary, backup, disk, inv, mem, osii>>

\* update_handle (lines 402-439): the primary is read, the options given
\* override the fields of slot n, write_OSIP writes the table back (the
\* dump read of line 437 only prints).  The result of the read (line 409)
\* is ignored: when it fails the buffer zeroed by read_OSIP_loc is used.
UpdateHandle ==
    /\ pc = "update_handle"
    /\ \/ write_OSIP(UpdatedTable(primary, inv.update, inv.fields))
       \/ /\ "update_read" \in UncheckedCalls
          /\ write_OSIP(UpdatedTable(ZeroTable, inv.update, inv.fields))
    /\ Goto(AfterUpdate(inv))
    /\ UNCHANGED <<backup, disk, inv, mem, osii>>

\* main (update_osip.c 198-203): --invalidate without --backup on the command line is
\* refused before the table is read.
InvalidateRefused ==
    /\ pc = "invalidate"
    /\ ~inv.backup
    /\ Fail
    /\ UNCHANGED <<primary, backup, disk, inv, mem, osii>>

\* invalidate_handle (lines 441-482): every argument must match a slot,
\* otherwise nothing is written; the whole table is written once at the end.
InvalidateHandle ==
    /\ pc = "invalidate"
    /\ inv.backup
    /\ \/ /\ AllFound(primary, inv.inval)
          /\ write_OSIP(InvalidateTable(primary, inv.inval))
          /\ Goto("idle")
       \/ /\ ~AllFound(primary, inv.inval)
          /\ Fail
          /\ UNCHANGED primary
    /\ UNCHANGED <<backup, disk, inv, mem, osii>>

Step ==
    \/ BackupHandle
    \/ RestoreRefused \/ RestoreWritePrimary \/ RestoreZeroBackup
    \/ StitchReject \/ StitchPrepare
    \/ StitchStagePrimary \/ StitchStageBackup
    \/ StitchWriteBegin \/ StitchWriteEnd \/ CheckImageValid
    \/ UpdateHandle \/ InvalidateRefused \/ InvalidateHandle

Next ==
    \/ \E i \in Invocations : Start(i)
    \/ Step
    \/ IoError
    \/ Crash

Spec == Init /\ [][Next]_vars

-----------------------------------------------------------------------------
(* Properties.                                                             *)

\* The blocks of slot s of table t hold the image the slot describes.
Intact(t, s) == HoldsImage(t.desc[s])

\* A run of main that flashed an image exits 0 only when the image's blocks
\* hold it: a payload write returning -1 is not seen at osip_utils.c line
\* 156, and only check_image_valid stands between it and exit(0).
ImageVerifiedOnExit ==
    pc = "idle" /\ status = "ok" /\ inv.image # NoImage => HoldsImage(osii)

\* The table a flashed descriptor is staged in (write_stitch_image lines
\* 142-148): the backup when it is signed, the primary otherwise.
Staged == IF backup.sig = OSIP_SIG THEN backup ELSE primary

\* A run of main with --update n --image x.bin that exits 0 leaves slot n
\* of the table it staged into describing x.bin, and the blocks that slot
\* names hold it: flash_stitch_image, check_image_valid and update_handle
\* run in that order (update_osip.c 189-196) and nothing after them may
\* undo what the flash wrote.  (A run that also passes --invalidate may,
\* as asked, invalidate the slot it flashed.)
FlashedSlotIntactOnExit ==
    pc = "idle" /\ status = "ok" /\ inv.image # NoImage /\ inv.inval = << >> =>
        /\ Staged.desc[inv.update].os_rev = inv.image.desc.os_rev
        /\ Intact(Staged, inv.update)

\* After update_slot(n, image) succeeds the primary's slot n has the
\* image's size in device pages (spec section 8): the code commits the
\* new descriptor to the primary only when there is no signed backup.
SizeCommittedOnExit ==
    pc = "idle" /\ status = "ok" /\ inv.image # NoImage =>
        primary.desc[inv.update].size_of_os_image = DeviceSize(inv.image)

\* Whatever sequence of runs, crashes and failed device calls, the primary
\* table keeps the "$OS$" signature: no handler writes a table it did not
\* read from a signed primary or backup (restore_handle's check, line 316;
\* the payload offset check against the tables, line 155).
PrimarySigValid == primary.sig = OSIP_SIG

\* No run ever moves an image: every slot of the primary, and of a signed
\* backup, keeps the logical_start_block it was provisioned with
\* (write_stitch_image copies the slot's own block into the image's
\* descriptor before the memcpy, lines 132-138).
PlacementPreserved ==
    /\ \A s \in Slots : primary.desc[s].logical_start_block
                            = InitPrimary.desc[s].logical_start_block
    /\ backup.sig = OSIP_SIG =>
         \A s \in Slots : backup.desc[s].logical_start_block
                              = InitPrimary.desc[s].logical_start_block

\* invalidate_handle only changes the primary while a signed backup exists:
\* the spec makes an existing backup the precondition of invalidate, the
\* code (update_osip.c line 199) checks that --backup was on the command line.
InvalidateHasBackup ==
    [][pc = "invalidate" /\ primary' # primary => backup.sig = OSIP_SIG]_vars
=============================================================================
