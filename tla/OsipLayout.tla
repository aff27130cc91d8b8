----------------------------- MODULE OsipLayout -----------------------------
(***************************************************************************)
(* Where on the device the writes and the read-back of one image flash    *)
(* land (src/flash_stitched/osip_utils.c), from the two numbers the       *)
(* command line gives: the slot of --update, taken by atoi with no range  *)
(* check (update_osip.c line 117), and the slot's logical_start_block.    *)
(*   - write_OSII_entry (lines 350-375) writes a 24-byte descriptor at    *)
(*     BACKUP_LOC + OSIP_PREAMBLE + 24 * n, in size_t arithmetic;          *)
(*   - the payload is written at lba * block_size, a uint32 (line 155);   *)
(*   - check_image_valid reads it back from lba * 512 computed in int     *)
(*     (line 67).                                                          *)
(* Both products are passed to lseek as an off_t, whose width the build   *)
(* chooses: 32 bits on a 32-bit Android target without large-file        *)
(* support, 64 bits otherwise.  A negative off_t makes lseek fail,        *)
(* unchecked, and the transfer starts at offset 0 of the freshly opened   *)
(* device.  A 32-bit off_t turns a uint32 with the sign bit set negative. *)
(* Offsets of the image are kept in 512-byte sectors, so that the 32-bit  *)
(* products stay within TLC's integers: lba * 512 mod 2^32 is             *)
(* (lba mod 2^23) sectors.                                                *)
(***************************************************************************)
EXTENDS Integers

CONSTANTS
    UpdateArgs,   \* values atoi may give for --update
    LbaArgs,      \* logical_start_block values of the slot
    OffBits       \* the widths off_t may have in the build

ASSUME LayoutAssumption ==
    /\ UpdateArgs \subseteq Int /\ LbaArgs \subseteq Nat
    /\ OffBits \subseteq {32, 64}

OSII_TOTAL == 7
OSII_BYTES == 24                  \* sizeof(struct OSII)
OSIP_PREAMBLE == 32               \* 0x20
BACKUP_LOC == 224                 \* 0xE0
OSIP_HEADER_BYTES == OSIP_PREAMBLE + OSII_TOTAL * OSII_BYTES
R_START == 0
R_BCK == 1
TableBase(loc) == IF loc = R_START THEN 0 ELSE BACKUP_LOC

\* Mutant: the preamble left out of the entry's offset.
Mutant_EntryOffset(loc, n) == TableBase(loc) + OSII_BYTES * n

\* Lines 359-365: the offset write_OSII_entry seeks to.
EntryOffset(loc, n) == TableBase(loc) + OSIP_PREAMBLE + OSII_BYTES * n

\* lba * 512 in 32 bits, in sectors, and whether its sign bit is set.
Product(lba) == lba % 8388608
SignBit(lba) == Product(lba) >= 4194304

\* Mutant: the payload is written one block late.
Mutant_WriteSector(lba, bits) ==
    IF bits = 32 /\ SignBit(lba + 1) THEN 0 ELSE Product(lba + 1)

\* Line 155: lba * block_size in uint32, block_size 512, in sectors; as a
\* 32-bit off_t a product with the sign bit set is negative, lseek fails
\* and the write starts at 0.
WriteSector(lba, bits) ==
    IF bits = 32 /\ SignBit(lba) THEN 0 ELSE Product(lba)

\* Mutant: the read-back starts one block late, past a header the device
\* does not hold.
Mutant_VerifySector(lba) ==
    IF SignBit(lba + 1) THEN 0 ELSE Product(lba + 1)

\* Line 67: lba * 512 in a 32-bit int, in sectors; a product with the
\* sign bit set is negative, lseek rejects it and the read starts at 0.
VerifySector(lba) ==
    IF SignBit(lba) THEN 0 ELSE Product(lba)

VARIABLES
    update_num,   \* the slot of --update
    lba,          \* the slot's logical_start_block
    entry,        \* first byte of the backup descriptor write
    written,      \* first sector of the payload write
    verified,     \* first sector check_image_valid reads
    off_bits,     \* the width of off_t in this build
    pc

vars == <<update_num, lba, entry, written, verified, off_bits, pc>>

Init ==
    /\ update_num \in UpdateArgs /\ lba \in LbaArgs /\ off_bits \in OffBits
    /\ entry = 0 /\ written = 0 /\ verified = 0
    /\ pc = "start"

\* write_stitch_image with a signed backup (lines 142-157): the backup
\* entry of slot n, the payload, and the read-back.
Flash ==
    /\ pc = "start"
    /\ entry' = EntryOffset(R_BCK, update_num)
    /\ written' = WriteSector(lba, off_bits)
    /\ verified' = VerifySector(lba)
    /\ pc' = "done"
    /\ UNCHANGED <<update_num, lba, off_bits>>

Next == Flash

Spec == Init /\ [][Next]_vars

\* The 24 bytes write_OSII_entry writes for the slot of --update lie
\* within the backup table's descriptor array: nothing of the backup's
\* header, and nothing after the table in sector 0, is overwritten.
EntryInDescriptors ==
    pc = "done" =>
        /\ BACKUP_LOC + OSIP_PREAMBLE <= entry
        /\ entry + OSII_BYTES <= BACKUP_LOC + OSIP_HEADER_BYTES

\* check_image_valid reads back the blocks the payload was written to.
VerifyReadsWritten == pc = "done" => verified = written

\* write_stitch_image's payload write (line 155) lands on the slot's own
\* blocks, whatever the width of off_t: nowhere else, and in particular
\* not over the tables in sector 0.
PayloadAtSlot == pc = "done" => written = lba
=============================================================================
