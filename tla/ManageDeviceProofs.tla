------------------------- MODULE ManageDeviceProofs -------------------------
(***************************************************************************)
(* Proofs about the payload API of src/flash_stitched/manage_device.c     *)
(* (module ManageDevice), for every value of the constants that satisfies *)
(* ManageAssumption and the hypotheses each theorem states.               *)
(***************************************************************************)
EXTENDS ManageDevice, TLAPS

(***************************************************************************)
(* Hypotheses on the device.                                               *)
(***************************************************************************)

\* get_block_size (lines 128-135) is erase_size / 1024 bytes; the payload
\* write seeks to lba * block_size (line 395).  Blocks of at least one
\* sector (512 KiB erase blocks or more), or a page size of 0, which kills
\* the process at line 385 before anything is written.
BlockNotBelowSector ==
    \A e \in EraseSizes : e \div KBYTES = 0 \/ e \div KBYTES >= SECTOR

\* The 512 KiB erase block the rest of the tool assumes, or a page size of 0.
BlockIsSector ==
    \A e \in EraseSizes : e \div KBYTES \in {0, SECTOR}

\* The provisioned table puts the POS below the payload, and the device
\* holds the POS in the sectors its descriptor names.
PosProvisioned ==
    LET pos == InitPrimary.desc[POS_OSII_REC] IN
    /\ pos.logical_start_block + pos.size_of_os_image
         <= InitPrimary.desc[PAYLOAD_OSII_REC].logical_start_block
    /\ \A l \in Covered(pos.logical_start_block, pos.size_of_os_image) :
         InitDisk[l] = pos.os_rev

\* The provisioned payload descriptor does not name sector 0, the tables.
PayloadOffTable ==
    InitPrimary.desc[PAYLOAD_OSII_REC].logical_start_block >= 1

(***************************************************************************)
(* Inductive invariants.                                                   *)
(***************************************************************************)

\* The running call is the one pc belongs to.
CallMatchesPc ==
    /\ pc \in {"write_prepare", "payload_write", "payload_sync"} => call.op = "write"
    /\ pc = "invalidate" => call.op = "invalidate"
    /\ pc = "restore" => call.op = "restore"

\* The sectors the running payload write covers.
BlockCov == PayloadSectors(lba, bsize, call.image)

PosDesc == primary.desc[POS_OSII_REC]

PosBelowPayload ==
    PosDesc.logical_start_block + PosDesc.size_of_os_image
        <= primary.desc[PAYLOAD_OSII_REC].logical_start_block

\* A payload write in progress uses a block of 0 or of at least a sector.
BlockOk ==
    pc \in {"payload_write", "payload_sync"} => bsize = 0 \/ bsize >= SECTOR

\* While the table is signed, the POS lies below the payload and holds its
\* image, and a payload write in progress starts at or above the POS's end
\* and, once started without wiping the tables, does not reach sector 0.
PosSigned ==
    /\ PosBelowPayload
    /\ HoldsImage(PosDesc)
    /\ pc \in {"payload_write", "payload_sync"} =>
         /\ lba >= PosDesc.logical_start_block + PosDesc.size_of_os_image
         /\ pc = "payload_sync" => 0 \notin BlockCov

\* PosIntact strengthened into an inductive invariant.
PosInv ==
    /\ TypeOK
    /\ CallMatchesPc
    /\ BlockOk
    /\ primary.sig = OSIP_SIG => PosSigned

\* The payload descriptor never names sector 0, the tables.
PayloadOff == primary.desc[PAYLOAD_OSII_REC].logical_start_block >= 1

\* From the table write on, the running call's table names the image at
\* the block its payload goes to, in 512-byte units, with a size that
\* matches the file.
PayloadWriting ==
    pc \in {"payload_write", "payload_sync"} =>
        LET d == primary.desc[PAYLOAD_OSII_REC] IN
        /\ bsize = SECTOR
        /\ lba = d.logical_start_block
        /\ d.os_rev = call.image.desc.os_rev
        /\ d.size_of_os_image = call.image.desc.size_of_os_image
        /\ SizeMatches(call.image)

\* PayloadDescribedOnSuccess strengthened into an inductive invariant.
DescInv ==
    /\ TypeOK
    /\ CallMatchesPc
    /\ PayloadOff
    /\ PayloadWriting
    /\ PayloadDescribedOnSuccess

(***************************************************************************)
(* Lemmas about the operators write_payload_os_image builds its table and *)
(* its write with.                                                         *)
(***************************************************************************)

USE ManageAssumption

\* The memset of line 305 and a wiped table are well-formed.
LEMMA ZeroTableType == ZeroOSII \in OSII /\ ZeroTable \in OSIP_header
  BY DEF ZeroOSII, ZeroTable, OSII, OSIP_header, Slots

\* The two records of manage_device.h are slots of every table.
LEMMA RecType ==
  ASSUME NEW t \in OSIP_header
  PROVE  /\ PAYLOAD_OSII_REC \in Slots /\ POS_OSII_REC \in Slots
         /\ t.desc[PAYLOAD_OSII_REC] \in OSII /\ t.desc[POS_OSII_REC] \in OSII
  BY DEF OSIP_header, Slots, PAYLOAD_OSII_REC, POS_OSII_REC

\* Line 385 yields a block count.
LEMMA NewSizeType ==
  ASSUME NEW img \in StitchedImage, NEW p \in Int
  PROVE  NewSize(img, p) \in Nat
  <1>1. img.desc.size_of_os_image * STITCHED_IMAGE_PAGE_SIZE \in Nat
    BY DEF StitchedImage, OSII, STITCHED_IMAGE_PAGE_SIZE
  <1>2. CASE p > 0
    BY <1>1, <1>2 DEF NewSize
  <1>3. CASE ~(p > 0)
    BY <1>3 DEF NewSize
  <1>4. QED
    BY <1>2, <1>3

\* Lines 376-387 build a well-formed table from a well-formed one.
LEMMA PayloadTableType ==
  ASSUME NEW t \in OSIP_header, NEW img \in StitchedImage, NEW p \in Int
  PROVE  /\ PayloadLba(t) \in Nat
         /\ PayloadTable(t, img, p) \in OSIP_header
  <1>0. /\ PAYLOAD_OSII_REC \in Slots /\ POS_OSII_REC \in Slots
        /\ t.desc[PAYLOAD_OSII_REC] \in OSII /\ t.desc[POS_OSII_REC] \in OSII
    BY RecType
  <1>1. PayloadLba(t) \in Nat
    BY <1>0 DEF PayloadLba, Max2, OSII
  <1>2. Min2(t.desc[PAYLOAD_OSII_REC].logical_start_block,
             t.desc[POS_OSII_REC].logical_start_block) \in Nat
    BY <1>0 DEF Min2, OSII
  <1>3. [img.desc EXCEPT !.logical_start_block = PayloadLba(t),
                         !.size_of_os_image = NewSize(img, p)] \in OSII
    BY <1>1, NewSizeType DEF StitchedImage, OSII
  <1>4. [t.desc[POS_OSII_REC] EXCEPT !.logical_start_block =
            Min2(t.desc[PAYLOAD_OSII_REC].logical_start_block,
                 t.desc[POS_OSII_REC].logical_start_block)] \in OSII
    BY <1>0, <1>2 DEF OSII
  <1> DEFINE pos == [t.desc[POS_OSII_REC] EXCEPT !.logical_start_block =
                       Min2(t.desc[PAYLOAD_OSII_REC].logical_start_block,
                            t.desc[POS_OSII_REC].logical_start_block)]
             pay == [img.desc EXCEPT !.logical_start_block = PayloadLba(t),
                                     !.size_of_os_image = NewSize(img, p)]
             desc == [t.desc EXCEPT ![POS_OSII_REC] = pos, ![PAYLOAD_OSII_REC] = pay]
  <1>5. desc \in [Slots -> OSII]
    BY <1>0, <1>3, <1>4 DEF OSIP_header
  <1>6. PayloadTable(t, img, p) = [t EXCEPT !.num_images = 1, !.desc = desc]
    BY DEF PayloadTable
  <1>7. ASSUME NEW D \in [Slots -> OSII]
        PROVE  [t EXCEPT !.num_images = 1, !.desc = D] \in OSIP_header
    <2>1. [t EXCEPT !.num_images = 1] \in OSIP_header
      BY DEF OSIP_header
    <2>2. QED
      BY <2>1 DEF OSIP_header
  <1>8. QED
    BY <1>1, <1>5, <1>6, <1>7

\* Lines 376-387 keep the signature.
LEMMA PayloadTableSig ==
  ASSUME NEW t \in OSIP_header, NEW img, NEW p
  PROVE  PayloadTable(t, img, p).sig = t.sig
  BY DEF PayloadTable, OSIP_header

\* The provisioned device holds, in each sector, an os_rev or 0.
LEMMA InitDiskType == InitDisk \in [Sectors -> Content]
  <1> SUFFICES ASSUME NEW l \in Sectors PROVE InitDisk[l] \in Content
    BY DEF InitDisk
  <1>1. CASE \E s \in Slots : l \in Covered(InitPrimary.desc[s].logical_start_block,
                                            InitPrimary.desc[s].size_of_os_image)
    <2> DEFINE s0 == CHOOSE s \in Slots :
                       l \in Covered(InitPrimary.desc[s].logical_start_block,
                                     InitPrimary.desc[s].size_of_os_image)
    <2>1. s0 \in Slots
      BY <1>1
    <2>2. InitPrimary.desc[s0].os_rev \in Content
      BY <2>1 DEF OSIP_header, OSII, Content
    <2>3. QED
      BY <1>1, <2>2 DEF InitDisk
  <1>2. CASE ~\E s \in Slots : l \in Covered(InitPrimary.desc[s].logical_start_block,
                                             InitPrimary.desc[s].size_of_os_image)
    BY <1>2 DEF InitDisk, Content
  <1>3. QED
    BY <1>1, <1>2

\* get_page_size returns an integer.
LEMMA PageSizeType ==
  ASSUME NEW e \in EraseSizes PROVE PageSizeResults(e) \subseteq Int
  BY DEF PageSizeResults, KBYTES

\* The image of a running write_payload_os_image call.
LEMMA CallImage ==
  ASSUME NEW c \in Calls, c.op = "write"
  PROVE  c.image \in StitchedImage
  BY DEF Calls

(***************************************************************************)
(* Type correctness.                                                       *)
(***************************************************************************)

TypeInv == TypeOK /\ CallMatchesPc

LEMMA TypeInvInit == Init => TypeInv
  BY InitDiskType DEF Init, TypeInv, TypeOK, CallMatchesPc, Calls,
                      PageSizeResults

LEMMA TypeInvNext == TypeInv /\ [Next]_vars => TypeInv'
  <1> SUFFICES ASSUME TypeInv, [Next]_vars PROVE TypeInv'
    OBVIOUS
  <1> USE DEF TypeInv, TypeOK, CallMatchesPc
  <1>1. ASSUME NEW c \in Calls, Start(c) PROVE TypeInv'
    BY <1>1 DEF Start, Calls
  <1>2. CASE WritePrepare
    <2> DEFINE img == call.image
    <2>1. img \in StitchedImage
      BY <1>2, CallImage DEF WritePrepare
    <2>2. PICK b, p \in PageSizeResults(erase_size) :
            \/ /\ b < 0 \/ ~Crackable(img) \/ ~SizeMatches(img)
               /\ Fail
               /\ UNCHANGED <<primary, bsize, lba>>
            \/ /\ b >= 0 /\ Crackable(img) /\ SizeMatches(img) /\ p = 0
               /\ pc' = "idle" /\ status' = "killed"
               /\ UNCHANGED <<primary, bsize, lba>>
            \/ /\ b >= 0 /\ Crackable(img) /\ SizeMatches(img) /\ p # 0
               /\ Ignored("table_write", primary' = PayloadTable(primary, img, p), primary)
               /\ bsize' = b
               /\ lba' = PayloadLba(primary)
               /\ pc' = "payload_write"
               /\ UNCHANGED status
      BY <1>2 DEF WritePrepare
    <2>3. p \in Int
      BY PageSizeType
    <2>4. PayloadTable(primary, img, p) \in OSIP_header /\ PayloadLba(primary) \in Nat
      BY <2>1, <2>3, PayloadTableType
    <2>5. QED
      BY <1>2, <2>2, <2>4 DEF WritePrepare, Fail, Ignored
  <1>3. CASE PayloadWriteBegin
    BY <1>3, ZeroTableType DEF PayloadWriteBegin, Content
  <1>4. CASE PayloadWriteEnd
    <2>1. call.image \in StitchedImage
      BY <1>4, CallImage DEF PayloadWriteEnd
    <2>2. call.image.desc.os_rev \in Content
      BY <2>1 DEF StitchedImage, OSII, Content
    <2>3. QED
      BY <1>4, <2>2 DEF PayloadWriteEnd, Ignored, Return0
  <1>5. CASE InvalidatePayload
    <2>1. PAYLOAD_OSII_REC \in Slots
      BY DEF PAYLOAD_OSII_REC, Slots
    <2>2. LET d == primary.desc[PAYLOAD_OSII_REC] IN
          [ZeroOSII EXCEPT !.logical_start_block = d.logical_start_block,
                           !.size_of_os_image = d.size_of_os_image] \in OSII
      BY <2>1, ZeroTableType DEF OSIP_header, OSII
    <2>3. QED
      BY <1>5, <2>1, <2>2 DEF InvalidatePayload, OSIP_header, Return0
  <1>6. CASE RestorePayload
    <2>1. /\ PAYLOAD_OSII_REC \in Slots /\ POS_OSII_REC \in Slots
          /\ primary.desc[PAYLOAD_OSII_REC] \in OSII /\ primary.desc[POS_OSII_REC] \in OSII
      BY RecType
    <2> DEFINE pay == primary.desc[PAYLOAD_OSII_REC]
               pos == primary.desc[POS_OSII_REC]
               nd == [pay EXCEPT !.ddr_load_address = pos.ddr_load_address,
                                 !.entery_point = pos.entery_point]
    <2>2. nd \in OSII
      BY <2>1 DEF OSII
    <2>3. [primary.desc EXCEPT ![PAYLOAD_OSII_REC] = nd] \in [Slots -> OSII]
      BY <2>1, <2>2 DEF OSIP_header
    <2>4. primary' = [primary EXCEPT !.desc = [primary.desc EXCEPT ![PAYLOAD_OSII_REC] = nd]]
      BY <1>6 DEF RestorePayload
    <2>5. primary' \in OSIP_header
      BY <2>3, <2>4 DEF OSIP_header
    <2>6. QED
      BY <1>6, <2>5 DEF RestorePayload, Return0
  <1>7. CASE IoError
    BY <1>7 DEF IoError, Fail
  <1>8. CASE Crash
    BY <1>8 DEF Crash
  <1>9. CASE UNCHANGED vars
    BY <1>9 DEF vars
  <1>10. QED
    BY <1>1, <1>2, <1>3, <1>4, <1>5, <1>6, <1>7, <1>8, <1>9 DEF Next

\* Every state write_payload_os_image, invalidate_payload_osip_record and
\* restore_payload_osip_record reach, in any order and with any crash or
\* ignored failure, has well-formed tables and sectors (TypeOK).
THEOREM TypeCorrect == Spec => []TypeOK
  <1>1. Spec => []TypeInv
    BY TypeInvInit, TypeInvNext, PTL DEF Spec
  <1>2. QED
    BY <1>1, PTL DEF TypeInv

(***************************************************************************)
(* The POS survives every sequence of calls (PosIntact).                  *)
(***************************************************************************)

\* With a block of at least one sector, a payload write that starts at a
\* block at or above the end of a descriptor's sectors, and does not reach
\* sector 0, misses all of them; a block of 0 makes a write that does not
\* reach sector 0 an empty one.
LEMMA PayloadMissesBelow ==
  ASSUME NEW l0 \in Nat, NEW b \in Nat, b = 0 \/ b >= SECTOR,
         NEW img \in StitchedImage, NEW s \in Nat, NEW n \in Nat, s + n <= l0,
         0 \notin PayloadSectors(l0, b, img)
  PROVE  \A l \in PayloadSectors(l0, b, img) : l \notin Covered(s, n)
  <1> DEFINE start == (l0 * b) \div SECTOR
             cnt == PayloadBytes(img) \div SECTOR
  <1>1. PayloadSectors(l0, b, img) = Covered(start, cnt)
    BY DEF PayloadSectors
  <1>0. cnt \in Int
    BY DEF PayloadBytes, StitchedImage, STITCHED_IMAGE_BLOCK_SIZE, SECTOR
  <1>2. CASE b >= SECTOR
    <2>1. l0 * b >= l0 * SECTOR
      BY <1>2 DEF SECTOR
    <2>2. start >= l0
      BY <2>1 DEF SECTOR
    <2>3. ASSUME NEW l \in PayloadSectors(l0, b, img) PROVE l \in Int /\ l >= start
      BY <1>1 DEF Covered, Sectors
    <2>4. QED
      BY <2>2, <2>3 DEF Covered, SECTOR
  <1>3. CASE b = 0
    <2>1. start = 0
      BY <1>3 DEF SECTOR
    <2>2. 0 \in Sectors
      BY DEF Sectors
    <2>3. PayloadSectors(l0, b, img) = {}
      BY <1>0, <1>1, <2>1, <2>2 DEF Covered, Sectors
    <2>4. QED
      BY <2>3
  <1>4. QED
    BY <1>2, <1>3

\* write_payload_os_image leaves the POS descriptor as it is when the POS
\* lies below the payload: MIN (line 380) picks the POS's own block, and
\* MAX (line 378) the payload's.
LEMMA PayloadTableKeepsPos ==
  ASSUME NEW t \in OSIP_header, NEW img \in StitchedImage, NEW p \in Int,
         t.desc[POS_OSII_REC].logical_start_block + t.desc[POS_OSII_REC].size_of_os_image
           <= t.desc[PAYLOAD_OSII_REC].logical_start_block
  PROVE  /\ PayloadTable(t, img, p).sig = t.sig
         /\ PayloadTable(t, img, p).desc[POS_OSII_REC] = t.desc[POS_OSII_REC]
         /\ PayloadLba(t) = t.desc[PAYLOAD_OSII_REC].logical_start_block
         /\ PayloadTable(t, img, p).desc[PAYLOAD_OSII_REC].logical_start_block
              = PayloadLba(t)
  <1>0. /\ PAYLOAD_OSII_REC \in Slots /\ POS_OSII_REC \in Slots
        /\ t.desc[PAYLOAD_OSII_REC] \in OSII /\ t.desc[POS_OSII_REC] \in OSII
    BY RecType
  <1>1. Min2(t.desc[PAYLOAD_OSII_REC].logical_start_block,
             t.desc[POS_OSII_REC].logical_start_block)
          = t.desc[POS_OSII_REC].logical_start_block
    BY <1>0 DEF Min2, OSII
  <1>2. PayloadLba(t) = t.desc[PAYLOAD_OSII_REC].logical_start_block
    BY <1>0 DEF PayloadLba, Max2, OSII
  <1>3. [t.desc[POS_OSII_REC] EXCEPT !.logical_start_block =
            t.desc[POS_OSII_REC].logical_start_block] = t.desc[POS_OSII_REC]
    BY <1>0 DEF OSII
  <1>4. PAYLOAD_OSII_REC # POS_OSII_REC
    BY DEF PAYLOAD_OSII_REC, POS_OSII_REC
  <1>5. QED
    BY <1>0, <1>1, <1>2, <1>3, <1>4 DEF PayloadTable, OSIP_header

\* invalidate_osip_record and restore_payload_osip_record change only the
\* payload descriptor, and keep its block.
LEMMA PayloadOnlyKeepsPos ==
  ASSUME TypeOK, InvalidatePayload \/ RestorePayload
  PROVE  /\ primary'.sig = primary.sig
         /\ primary'.desc[POS_OSII_REC] = primary.desc[POS_OSII_REC]
         /\ primary'.desc[PAYLOAD_OSII_REC].logical_start_block
              = primary.desc[PAYLOAD_OSII_REC].logical_start_block
         /\ UNCHANGED <<disk, lba, bsize, call>> /\ pc' = "idle"
  <1>0. /\ PAYLOAD_OSII_REC \in Slots /\ POS_OSII_REC \in Slots
        /\ primary.desc[PAYLOAD_OSII_REC] \in OSII
        /\ PAYLOAD_OSII_REC # POS_OSII_REC
    BY RecType DEF TypeOK, PAYLOAD_OSII_REC, POS_OSII_REC
  <1>1. CASE InvalidatePayload
    BY <1>0, <1>1 DEF InvalidatePayload, ZeroOSII, Return0, TypeOK, OSIP_header
  <1>2. CASE RestorePayload
    BY <1>0, <1>2 DEF RestorePayload, Return0, TypeOK, OSIP_header, OSII
  <1>3. QED
    BY <1>1, <1>2

LEMMA PosInvInit == PosProvisioned /\ Init => PosInv
  BY TypeInvInit DEF PosProvisioned, Init, PosInv, TypeInv, BlockOk, PosSigned,
                     PosBelowPayload, PosDesc, HoldsImage

LEMMA PosInvNext ==
  ASSUME BlockNotBelowSector
  PROVE  PosInv /\ [Next]_vars => PosInv'
  <1> SUFFICES ASSUME PosInv, [Next]_vars PROVE PosInv'
    OBVIOUS
  <1>0. TypeOK' /\ CallMatchesPc'
    BY TypeInvNext DEF PosInv, TypeInv
  <1> DEFINE end == PosDesc.logical_start_block + PosDesc.size_of_os_image
  <1>a. /\ PosDesc \in OSII /\ primary.desc[PAYLOAD_OSII_REC] \in OSII
        /\ end \in Nat
    BY RecType DEF PosInv, TypeOK, PosDesc, OSII
  <1> SUFFICES /\ BlockOk'
               /\ primary'.sig = OSIP_SIG => PosSigned'
    BY <1>0 DEF PosInv
  <1>1. ASSUME NEW c \in Calls, Start(c)
        PROVE  BlockOk' /\ (primary'.sig = OSIP_SIG => PosSigned')
    <2>1. pc' \notin {"payload_write", "payload_sync"}
      BY <1>1 DEF Start
    <2>2. QED
      BY <1>0, <1>1, <2>1 DEF Start, PosInv, BlockOk, PosSigned, PosBelowPayload,
                               PosDesc, HoldsImage
  <1>2. CASE WritePrepare
    <2> DEFINE img == call.image
    <2>1. img \in StitchedImage
      BY <1>2, CallImage DEF WritePrepare, PosInv, TypeOK, CallMatchesPc
    <2>2. PICK b, p \in PageSizeResults(erase_size) :
            \/ /\ b < 0 \/ ~Crackable(img) \/ ~SizeMatches(img)
               /\ Fail
               /\ UNCHANGED <<primary, bsize, lba>>
            \/ /\ b >= 0 /\ Crackable(img) /\ SizeMatches(img) /\ p = 0
               /\ pc' = "idle" /\ status' = "killed"
               /\ UNCHANGED <<primary, bsize, lba>>
            \/ /\ b >= 0 /\ Crackable(img) /\ SizeMatches(img) /\ p # 0
               /\ Ignored("table_write", primary' = PayloadTable(primary, img, p), primary)
               /\ bsize' = b
               /\ lba' = PayloadLba(primary)
               /\ pc' = "payload_write"
               /\ UNCHANGED status
      BY <1>2 DEF WritePrepare
    <2>3. CASE pc' = "idle"
      <3>1. UNCHANGED <<primary, disk>>
        BY <1>2, <2>2, <2>3 DEF WritePrepare
      <3>2. QED
        BY <2>3, <3>1 DEF PosInv, BlockOk, PosSigned, PosBelowPayload, PosDesc,
                         HoldsImage
    <2>4. CASE pc' # "idle"
      <3>1. /\ b >= 0
            /\ primary' \in {primary, PayloadTable(primary, img, p)}
            /\ bsize' = b /\ lba' = PayloadLba(primary) /\ pc' = "payload_write"
        BY <2>2, <2>4 DEF Fail, Ignored
      <3>2. b = erase_size \div KBYTES
        BY <3>1 DEF PageSizeResults
      <3>3. BlockOk'
        BY <3>1, <3>2 DEF BlockNotBelowSector, BlockOk, PosInv, TypeOK
      <3>4. ASSUME primary'.sig = OSIP_SIG PROVE PosSigned'
        <4>1. p \in Int
          BY PageSizeType DEF PosInv, TypeOK
        <4>2. /\ primary.sig = OSIP_SIG
              /\ PosSigned
          BY <3>1, <3>4, <4>1, <2>1, PayloadTableSig DEF PosInv, TypeOK
        <4>3. /\ primary'.desc[POS_OSII_REC] = PosDesc
              /\ primary'.desc[PAYLOAD_OSII_REC].logical_start_block
                   = primary.desc[PAYLOAD_OSII_REC].logical_start_block
              /\ lba' = primary.desc[PAYLOAD_OSII_REC].logical_start_block
          BY <3>1, <4>1, <4>2, <2>1, PayloadTableKeepsPos DEF PosInv, TypeOK,
             PosSigned, PosBelowPayload, PosDesc
        <4>4. QED
          BY <1>2, <3>1, <4>2, <4>3 DEF WritePrepare, PosSigned, PosBelowPayload,
                                       PosDesc, HoldsImage
      <3>5. QED
        BY <3>3, <3>4
    <2>5. QED
      BY <2>3, <2>4
  <1>3. CASE PayloadWriteBegin
    <2>1. BlockOk'
      BY <1>3 DEF PayloadWriteBegin, BlockOk, PosInv
    <2>2. ASSUME primary'.sig = OSIP_SIG PROVE PosSigned'
      <3>1. 0 \notin BlockCov
        BY <1>3, <2>2, ZeroTableType, ManageAssumption
           DEF PayloadWriteBegin, BlockCov, ZeroTable, OSIP_SIG
      <3>2. primary' = primary /\ primary.sig = OSIP_SIG
        BY <1>3, <2>2, <3>1 DEF PayloadWriteBegin, BlockCov
      <3>3. /\ lba \in Nat /\ bsize \in Nat /\ (bsize = 0 \/ bsize >= SECTOR)
            /\ call.image \in StitchedImage
            /\ lba >= end
        BY <1>3, <3>2, CallImage, PageSizeType
           DEF PayloadWriteBegin, PosInv, TypeOK, CallMatchesPc, BlockOk, PosSigned,
               SECTOR
      <3>4. \A l \in BlockCov : l \notin Covered(PosDesc.logical_start_block,
                                                  PosDesc.size_of_os_image)
        BY <1>a, <3>1, <3>3, PayloadMissesBelow DEF BlockCov, OSII
      <3>5. HoldsImage(PosDesc)'
        <4>1. disk' = [l \in Sectors |-> IF l \in BlockCov THEN Torn ELSE disk[l]]
          BY <1>3 DEF PayloadWriteBegin, BlockCov
        <4>2. QED
          BY <3>2, <3>4, <4>1 DEF PosInv, PosSigned, HoldsImage, PosDesc, Covered
      <3>6. QED
        BY <1>3, <3>1, <3>2, <3>5 DEF PayloadWriteBegin, BlockCov, PosInv,
                                     PosSigned, PosBelowPayload, PosDesc
    <2>3. QED
      BY <2>1, <2>2
  <1>4. CASE PayloadWriteEnd
    <2>1. BlockOk'
      BY <1>4 DEF PayloadWriteEnd, Return0, BlockOk
    <2>2. ASSUME primary'.sig = OSIP_SIG PROVE PosSigned'
      <3>1. primary' = primary /\ primary.sig = OSIP_SIG
        BY <1>4, <2>2 DEF PayloadWriteEnd
      <3>2. /\ lba \in Nat /\ bsize \in Nat /\ (bsize = 0 \/ bsize >= SECTOR)
            /\ call.image \in StitchedImage
            /\ lba >= end /\ 0 \notin BlockCov
        BY <1>4, <3>1, CallImage, PageSizeType
           DEF PayloadWriteEnd, PosInv, TypeOK, CallMatchesPc, BlockOk, PosSigned,
               SECTOR
      <3>3. \A l \in BlockCov : l \notin Covered(PosDesc.logical_start_block,
                                                  PosDesc.size_of_os_image)
        BY <1>a, <3>2, PayloadMissesBelow DEF BlockCov, OSII
      <3>4. HoldsImage(PosDesc)'
        <4>1. \/ disk' = [l \in Sectors |-> IF l \in BlockCov
                                              THEN call.image.desc.os_rev ELSE disk[l]]
              \/ disk' = disk
          BY <1>4 DEF PayloadWriteEnd, Ignored, BlockCov
        <4>2. QED
          BY <3>1, <3>3, <4>1 DEF PosInv, PosSigned, HoldsImage, PosDesc, Covered
      <3>5. QED
        BY <1>4, <3>1, <3>4 DEF PayloadWriteEnd, Return0, PosInv, PosSigned,
                               PosBelowPayload, PosDesc
    <2>3. QED
      BY <2>1, <2>2
  <1>5. CASE InvalidatePayload \/ RestorePayload
    <2>1. /\ primary'.sig = primary.sig
          /\ primary'.desc[POS_OSII_REC] = primary.desc[POS_OSII_REC]
          /\ primary'.desc[PAYLOAD_OSII_REC].logical_start_block
               = primary.desc[PAYLOAD_OSII_REC].logical_start_block
          /\ UNCHANGED <<disk, lba, bsize, call>> /\ pc' = "idle"
      BY <1>5, PayloadOnlyKeepsPos DEF PosInv
    <2>2. QED
      BY <2>1 DEF PosInv, BlockOk, PosSigned, PosBelowPayload, PosDesc, HoldsImage
  <1>6. CASE IoError \/ Crash
    BY <1>6 DEF IoError, Crash, Fail, PosInv, BlockOk, PosSigned, PosBelowPayload,
                PosDesc, HoldsImage
  <1>7. CASE UNCHANGED vars
    BY <1>7 DEF vars, PosInv, BlockOk, PosSigned, PosBelowPayload, PosDesc,
                HoldsImage, BlockCov
  <1>8. QED
    BY <1>1, <1>2, <1>3, <1>4, <1>5, <1>6, <1>7 DEF Next

\* The provisioning OS survives every sequence of write_payload_os_image,
\* invalidate and restore calls, crashes and ignored failures (PosIntact),
\* on a device provisioned with the POS below the payload whose erase
\* blocks give a block size of at least one sector: the MAX/MIN placement
\* of lines 377-382 keeps the payload's write above the POS.
THEOREM PosIntactThm ==
  ASSUME BlockNotBelowSector, PosProvisioned
  PROVE  Spec => []PosIntact
  <1>1. Init => PosInv
    BY PosInvInit
  <1>2. PosInv /\ [Next]_vars => PosInv'
    BY PosInvNext
  <1>3. PosInv => PosIntact
    BY DEF PosInv, PosSigned, PosIntact, PosDesc
  <1>4. QED
    BY <1>1, <1>2, <1>3, PTL DEF Spec

(***************************************************************************)
(* A successful write leaves the image described (PayloadDescribedOnSuccess)*)
(***************************************************************************)

\* Lines 376-387 put the image's descriptor, at the higher of the two
\* blocks and with its size converted, in the payload slot.
LEMMA PayloadTableDesc ==
  ASSUME NEW t \in OSIP_header, NEW img \in StitchedImage, NEW p \in Int
  PROVE  /\ PayloadTable(t, img, p).desc[PAYLOAD_OSII_REC]
              = [img.desc EXCEPT !.logical_start_block = PayloadLba(t),
                                 !.size_of_os_image = NewSize(img, p)]
         /\ PayloadLba(t) >= t.desc[PAYLOAD_OSII_REC].logical_start_block
  <1>0. /\ PAYLOAD_OSII_REC \in Slots /\ POS_OSII_REC \in Slots
        /\ t.desc[PAYLOAD_OSII_REC] \in OSII /\ t.desc[POS_OSII_REC] \in OSII
    BY RecType
  <1>1. PayloadLba(t) >= t.desc[PAYLOAD_OSII_REC].logical_start_block
    BY <1>0 DEF PayloadLba, Max2, OSII
  <1>2. QED
    BY <1>0, <1>1 DEF PayloadTable, OSIP_header

\* With 512-byte pages the size conversion of line 385 is the identity.
LEMMA NewSizeSector ==
  ASSUME NEW img \in StitchedImage
  PROVE  NewSize(img, SECTOR) = img.desc.size_of_os_image
  BY DEF NewSize, StitchedImage, OSII, SECTOR, STITCHED_IMAGE_PAGE_SIZE

\* A payload of n 512-byte pages written at block l of 512 bytes covers
\* the sectors a descriptor of block l and size n names.
LEMMA SectorWriteCovers ==
  ASSUME NEW img \in StitchedImage, SizeMatches(img), NEW l0 \in Nat
  PROVE  PayloadSectors(l0, SECTOR, img)
           = Covered(l0, img.desc.size_of_os_image)
  <1>1. PayloadBytes(img) \div SECTOR = img.desc.size_of_os_image
    BY DEF SizeMatches, PayloadBytes, StitchedImage, OSII, SECTOR,
           STITCHED_IMAGE_PAGE_SIZE, STITCHED_IMAGE_BLOCK_SIZE
  <1>2. (l0 * SECTOR) \div SECTOR = l0
    BY DEF SECTOR
  <1>3. QED
    BY <1>1, <1>2 DEF PayloadSectors

LEMMA DescInvInit == PayloadOffTable /\ Init => DescInv
  BY TypeInvInit DEF PayloadOffTable, Init, DescInv, TypeInv, PayloadOff,
                     PayloadWriting, PayloadDescribedOnSuccess

LEMMA DescInvNext ==
  ASSUME Faults = {}, BlockIsSector
  PROVE  DescInv /\ [Next]_vars => DescInv'
  <1> SUFFICES ASSUME DescInv, [Next]_vars PROVE DescInv'
    OBVIOUS
  <1>0. TypeOK' /\ CallMatchesPc'
    BY TypeInvNext DEF DescInv, TypeInv
  <1> SUFFICES PayloadOff' /\ PayloadWriting' /\ PayloadDescribedOnSuccess'
    BY <1>0 DEF DescInv
  <1> DEFINE d == primary.desc[PAYLOAD_OSII_REC]
  <1>1. ASSUME NEW c \in Calls, Start(c)
        PROVE  PayloadOff' /\ PayloadWriting' /\ PayloadDescribedOnSuccess'
    BY <1>1 DEF Start, DescInv, PayloadOff, PayloadWriting, PayloadDescribedOnSuccess
  <1>2. CASE WritePrepare
    <2> DEFINE img == call.image
    <2>1. img \in StitchedImage
      BY <1>2, CallImage DEF WritePrepare, DescInv, TypeOK, CallMatchesPc
    <2>2. PICK b, p \in PageSizeResults(erase_size) :
            \/ /\ b < 0 \/ ~Crackable(img) \/ ~SizeMatches(img)
               /\ Fail
               /\ UNCHANGED <<primary, bsize, lba>>
            \/ /\ b >= 0 /\ Crackable(img) /\ SizeMatches(img) /\ p = 0
               /\ pc' = "idle" /\ status' = "killed"
               /\ UNCHANGED <<primary, bsize, lba>>
            \/ /\ b >= 0 /\ Crackable(img) /\ SizeMatches(img) /\ p # 0
               /\ Ignored("table_write", primary' = PayloadTable(primary, img, p), primary)
               /\ bsize' = b
               /\ lba' = PayloadLba(primary)
               /\ pc' = "payload_write"
               /\ UNCHANGED status
      BY <1>2 DEF WritePrepare
    <2>3. CASE pc' = "idle"
      <3>1. UNCHANGED primary /\ status' # "ok"
        BY <2>2, <2>3 DEF Fail
      <3>2. QED
        BY <2>3, <3>1 DEF DescInv, PayloadOff, PayloadWriting, PayloadDescribedOnSuccess
    <2>4. CASE pc' # "idle"
      <3>1. /\ SizeMatches(img) /\ p # 0
            /\ primary' = PayloadTable(primary, img, p)
            /\ bsize' = b /\ lba' = PayloadLba(primary) /\ pc' = "payload_write"
        BY <2>2, <2>4 DEF Fail, Ignored
      <3>2. b = erase_size \div KBYTES /\ p = erase_size \div KBYTES
        BY DEF PageSizeResults
      <3>3. p = SECTOR /\ b = SECTOR
        BY <3>1, <3>2 DEF BlockIsSector, DescInv, TypeOK
      <3>4. /\ primary'.desc[PAYLOAD_OSII_REC]
                = [img.desc EXCEPT !.logical_start_block = PayloadLba(primary),
                                   !.size_of_os_image = img.desc.size_of_os_image]
            /\ PayloadLba(primary) >= d.logical_start_block
        <4>1. primary \in OSIP_header /\ p \in Int
          BY <3>3 DEF DescInv, TypeOK, SECTOR
        <4>2. /\ PayloadTable(primary, img, p).desc[PAYLOAD_OSII_REC]
                 = [img.desc EXCEPT !.logical_start_block = PayloadLba(primary),
                                    !.size_of_os_image = NewSize(img, p)]
              /\ PayloadLba(primary) >= d.logical_start_block
          BY <2>1, <4>1, PayloadTableDesc
        <4>3. NewSize(img, p) = img.desc.size_of_os_image
          BY <2>1, <3>3, NewSizeSector
        <4>4. QED
          BY <3>1, <4>2, <4>3
      <3>5. img.desc \in OSII
        BY <2>1 DEF StitchedImage
      <3> DEFINE nd == primary'.desc[PAYLOAD_OSII_REC]
      <3>6. PayloadLba(primary) \in Nat
        BY <2>1, <3>3, PayloadTableType DEF DescInv, TypeOK, SECTOR
      <3>7. /\ nd.logical_start_block = PayloadLba(primary)
            /\ nd.os_rev = img.desc.os_rev
            /\ nd.size_of_os_image = img.desc.size_of_os_image
        BY <3>4, <3>5 DEF OSII
      <3>8. PayloadOff'
        <4>1. d.logical_start_block \in Nat /\ d.logical_start_block >= 1
          BY RecType DEF DescInv, PayloadOff, TypeOK, OSII
        <4>2. nd.logical_start_block >= 1
          BY <3>4, <3>6, <3>7, <4>1
        <4>3. QED
          BY <4>2 DEF PayloadOff
      <3>9. PayloadWriting'
        BY <1>2, <3>1, <3>3, <3>7 DEF WritePrepare, PayloadWriting
      <3>10. PayloadDescribedOnSuccess'
        BY <3>1 DEF PayloadDescribedOnSuccess
      <3>11. QED
        BY <3>8, <3>9, <3>10
    <2>5. QED
      BY <2>3, <2>4
  <1>3. CASE PayloadWriteBegin
    <2>1. /\ call.image \in StitchedImage /\ SizeMatches(call.image)
          /\ lba \in Nat /\ lba >= 1 /\ bsize = SECTOR
      BY <1>3, CallImage DEF PayloadWriteBegin, DescInv, TypeOK, CallMatchesPc,
                             PayloadOff, PayloadWriting
    <2>2. 0 \notin PayloadSectors(lba, bsize, call.image)
      BY <2>1, SectorWriteCovers DEF Covered
    <2>3. UNCHANGED primary
      BY <1>3, <2>2 DEF PayloadWriteBegin
    <2>4. QED
      BY <1>3, <2>3 DEF PayloadWriteBegin, DescInv, PayloadOff, PayloadWriting,
                        PayloadDescribedOnSuccess
  <1>4. CASE PayloadWriteEnd
    <2>1. /\ call.image \in StitchedImage /\ SizeMatches(call.image)
          /\ lba \in Nat /\ bsize = SECTOR /\ lba = d.logical_start_block
          /\ d.os_rev = call.image.desc.os_rev
          /\ d.size_of_os_image = call.image.desc.size_of_os_image
      BY <1>4, CallImage DEF PayloadWriteEnd, DescInv, TypeOK, CallMatchesPc,
                             PayloadWriting
    <2>2. PayloadSectors(lba, bsize, call.image)
            = Covered(d.logical_start_block, d.size_of_os_image)
      BY <2>1, SectorWriteCovers
    <2>3. disk' = [l \in Sectors |->
                     IF l \in Covered(d.logical_start_block, d.size_of_os_image)
                     THEN d.os_rev ELSE disk[l]]
      BY <1>4, <2>1, <2>2 DEF PayloadWriteEnd, Ignored
    <2>4. HoldsImage(d)'
      BY <1>4, <2>3 DEF PayloadWriteEnd, HoldsImage, Covered
    <2>5. QED
      BY <1>4, <2>1, <2>4 DEF PayloadWriteEnd, Return0, DescInv, PayloadOff,
                              PayloadWriting, PayloadDescribedOnSuccess
  <1>5. CASE InvalidatePayload \/ RestorePayload
    <2>1. /\ primary'.desc[PAYLOAD_OSII_REC].logical_start_block = d.logical_start_block
          /\ pc' = "idle" /\ UNCHANGED call
          /\ call.op # "write"
      BY <1>5, PayloadOnlyKeepsPos DEF DescInv, CallMatchesPc, InvalidatePayload,
                                        RestorePayload
    <2>2. QED
      BY <2>1 DEF DescInv, PayloadOff, PayloadWriting, PayloadDescribedOnSuccess
  <1>6. CASE IoError \/ Crash
    BY <1>6 DEF IoError, Crash, Fail, DescInv, PayloadOff, PayloadWriting,
                PayloadDescribedOnSuccess
  <1>7. CASE UNCHANGED vars
    BY <1>7 DEF vars, DescInv, PayloadOff, PayloadWriting, PayloadDescribedOnSuccess,
                HoldsImage
  <1>8. QED
    BY <1>1, <1>2, <1>3, <1>4, <1>5, <1>6, <1>7 DEF Next

\* When write_payload_os_image returns 0, the payload descriptor names the
\* image, in 512-byte pages, and its sectors hold it
\* (PayloadDescribedOnSuccess), whatever calls, crashes and failed calls
\* came before, on a device whose erase blocks give 512-byte pages, whose
\* provisioned payload lies off sector 0, and whose device calls report
\* their failures.
THEOREM PayloadDescribedThm ==
  ASSUME Faults = {}, BlockIsSector, PayloadOffTable
  PROVE  Spec => []PayloadDescribedOnSuccess
  <1>1. Init => DescInv
    BY DescInvInit
  <1>2. DescInv /\ [Next]_vars => DescInv'
    BY DescInvNext
  <1>3. DescInv => PayloadDescribedOnSuccess
    BY DEF DescInv
  <1>4. QED
    BY <1>1, <1>2, <1>3, PTL DEF Spec

=============================================================================
