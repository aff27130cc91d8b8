-------------------------- MODULE OsipLayoutProofs --------------------------
(***************************************************************************)
(* Proofs about the offsets of one flash (module OsipLayout): for every   *)
(* --update argument and every logical_start_block, exactly which of them *)
(* keep write_OSII_entry inside the backup's descriptors, which put the   *)
(* payload on the slot's blocks, and which make check_image_valid read    *)
(* back the blocks the payload went to, for either width of off_t.        *)
(***************************************************************************)
EXTENDS OsipLayout, TLAPS

\* What Flash has computed once it has run.
Flashed ==
    /\ update_num \in UpdateArgs /\ lba \in LbaArgs /\ off_bits \in OffBits
    /\ pc \in {"start", "done"}
    /\ pc = "done" =>
         /\ entry = EntryOffset(R_BCK, update_num)
         /\ written = WriteSector(lba, off_bits)
         /\ verified = VerifySector(lba)

LEMMA FlashedInvariant == Spec => []Flashed
  <1>1. Init => Flashed
    BY DEF Init, Flashed
  <1>2. Flashed /\ [Next]_vars => Flashed'
    BY DEF Flashed, Next, Flash, vars
  <1>3. QED
    BY <1>1, <1>2, PTL DEF Spec

\* The offset of lines 359-365 lies in the backup's descriptor array
\* exactly when the slot is one of the seven.
LEMMA EntryOffsetInTable ==
  ASSUME NEW n \in Int
  PROVE  /\ BACKUP_LOC + OSIP_PREAMBLE <= EntryOffset(R_BCK, n)
         /\ EntryOffset(R_BCK, n) + OSII_BYTES <= BACKUP_LOC + OSIP_HEADER_BYTES
         <=> n \in 0 .. (OSII_TOTAL - 1)
  BY DEF EntryOffset, TableBase, R_BCK, R_START, BACKUP_LOC, OSIP_PREAMBLE,
         OSII_BYTES, OSIP_HEADER_BYTES, OSII_TOTAL

\* The read-back of line 67 starts where the write of line 155 did exactly
\* when off_t is 32 bits wide, so that both lseeks fail together, or when
\* lba * 512, taken mod 2^32, does not have the sign bit set.
LEMMA VerifyMatchesWrite ==
  ASSUME NEW l \in Nat, NEW b \in {32, 64}
  PROVE  VerifySector(l) = WriteSector(l, b) <=> b = 32 \/ l % 8388608 < 4194304
  BY DEF VerifySector, WriteSector, SignBit, Product

\* The write of line 155 starts at the slot's own block exactly when the
\* block is below 2^22 (32-bit off_t) or 2^23 (64-bit off_t).
LEMMA WriteAtBlock ==
  ASSUME NEW l \in Nat, NEW b \in {32, 64}
  PROVE  WriteSector(l, b) = l <=> l < (IF b = 32 THEN 4194304 ELSE 8388608)
  BY DEF WriteSector, SignBit, Product

\* write_OSII_entry, for the slot of --update, writes inside the backup
\* table's descriptor array (EntryInDescriptors) whenever atoi gives a
\* slot in 0..6, and only then: any other --update argument overwrites the
\* backup's header or the bytes after the table.
THEOREM EntryInDescriptorsThm ==
  Spec => [](pc = "done" =>
               (EntryInDescriptors <=> update_num \in 0 .. (OSII_TOTAL - 1)))
  <1>1. Flashed => (pc = "done" =>
               (EntryInDescriptors <=> update_num \in 0 .. (OSII_TOTAL - 1)))
    BY EntryOffsetInTable, LayoutAssumption DEF Flashed, EntryInDescriptors
  <1>2. QED
    BY <1>1, FlashedInvariant, PTL

\* check_image_valid reads back the blocks the payload was written to
\* (VerifyReadsWritten) exactly when off_t is 32 bits wide or the slot's
\* logical_start_block, taken mod 2^23, is below 2^22.  With a 64-bit
\* off_t, from 2^22 on lba * 512 overflows only the int of line 67, and the
\* read starts at sector 0 while the write went to the slot.
THEOREM VerifyReadsWrittenThm ==
  Spec => [](pc = "done" =>
               (VerifyReadsWritten <=> off_bits = 32 \/ lba % 8388608 < 4194304))
  <1>1. Flashed => (pc = "done" =>
               (VerifyReadsWritten <=> off_bits = 32 \/ lba % 8388608 < 4194304))
    <2> SUFFICES ASSUME Flashed, pc = "done"
                 PROVE  VerifyReadsWritten <=> off_bits = 32 \/ lba % 8388608 < 4194304
      OBVIOUS
    <2>1. lba \in Nat /\ off_bits \in {32, 64}
      BY LayoutAssumption DEF Flashed
    <2>2. QED
      BY <2>1, VerifyMatchesWrite DEF Flashed, VerifyReadsWritten
  <1>2. QED
    BY <1>1, FlashedInvariant, PTL

\* The payload write of line 155 lands on the slot's blocks (PayloadAtSlot)
\* exactly when the slot's logical_start_block is below 2^22 with a 32-bit
\* off_t, or below 2^23 with a 64-bit one.  Past that, a 32-bit build
\* writes the payload at sector 0 over both tables, where the read-back of
\* line 67 also starts, so check_image_valid passes.
THEOREM PayloadAtSlotThm ==
  Spec => [](pc = "done" =>
               (PayloadAtSlot <=> lba < (IF off_bits = 32 THEN 4194304 ELSE 8388608)))
  <1>1. Flashed => (pc = "done" =>
               (PayloadAtSlot <=> lba < (IF off_bits = 32 THEN 4194304 ELSE 8388608)))
    <2> SUFFICES ASSUME Flashed, pc = "done"
                 PROVE  PayloadAtSlot <=> lba < (IF off_bits = 32 THEN 4194304 ELSE 8388608)
      OBVIOUS
    <2>1. lba \in Nat /\ off_bits \in {32, 64}
      BY LayoutAssumption DEF Flashed
    <2>2. QED
      BY <2>1, WriteAtBlock DEF Flashed, PayloadAtSlot
  <1>2. QED
    BY <1>1, FlashedInvariant, PTL
=============================================================================
