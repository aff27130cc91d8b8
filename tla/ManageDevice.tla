---------------------------- MODULE ManageDevice ----------------------------
(***************************************************************************)
(* The payload API of src/flash_stitched/manage_device.c, the older update *)
(* path beside update_osip: write_payload_os_image, invalidate_payload_-   *)
(* osip_record and restore_payload_osip_record, with read_OSIP, write_OSIP *)
(* and get_page_size, which reads the page size from the sysfs erase_size  *)
(* file on every call.  A client calls them one at a time, in any order;   *)
(* power may fail between any two device writes.                           *)
(*                                                                         *)
(* The device is addressed in 512-byte sectors, the unit osip.h gives the  *)
(* boot firmware and update_osip on eMMC: a descriptor covers the sectors  *)
(* logical_start_block .. + size_of_os_image - 1.  A sector holds the      *)
(* os_rev of the image whose bytes it holds, 0, or Torn.  The tables lie   *)
(* in sector 0.                                                            *)
(***************************************************************************)
EXTENDS Integers

CONSTANTS
    OSII_TOTAL,    \* descriptor slots in a table
    Revs,          \* os_rev values naming images (0 is "no image")
    Addrs,         \* ddr_load_address / entery_point values, 0 included
    MaxSector,     \* last sector of the device in the model
    Images,        \* the stitched images a client may pass
    InitPrimary,   \* the provisioned table
    EraseSizes,    \* the numbers the sysfs erase_size file may hold
    Faults,        \* the device calls whose failure the code does not see
    Torn           \* model value: content of a sector whose write was cut

Sectors == 0 .. MaxSector
Slots == 0 .. (OSII_TOTAL - 1)

OSIP_SIG == 609439524               \* 0x24534f24
PAYLOAD_OSII_REC == 0
POS_OSII_REC == 1
STITCHED_IMAGE_PAGE_SIZE == 512
STITCHED_IMAGE_BLOCK_SIZE == 512
SECTOR == 512
KBYTES == 1024

OSII == [os_rev : {0} \cup Revs, logical_start_block : Nat,
         ddr_load_address : Addrs, entery_point : Addrs,
         size_of_os_image : Nat]
OSIP_header == [sig : {OSIP_SIG, 0}, num_images : 0 .. 255, desc : [Slots -> OSII]]
StitchedImage == [num_images : 0 .. 255, desc : OSII, file_size : Nat]
Content == {0} \cup Revs \cup {Torn}

\* write_OSIP's result (line 388) and the payload write's -1 (line 396,
\* compared as a size_t) go unseen; a failed read of erase_size makes
\* get_page_size return -1.
FaultSites == {"table_write", "payload_write", "sysfs_read"}

ASSUME ManageAssumption ==
    /\ OSII_TOTAL \in Nat /\ OSII_TOTAL >= 2
    /\ 0 \notin Revs /\ Torn \notin Revs /\ 0 \in Addrs
    /\ MaxSector \in Nat /\ Images \subseteq StitchedImage
    /\ InitPrimary \in OSIP_header /\ InitPrimary.sig = OSIP_SIG
    /\ EraseSizes \subseteq Nat /\ EraseSizes # {} /\ Faults \subseteq FaultSites

\* Mutant: the revision cleared to 0xFFFF, update_osip's "unset" value.
Mutant_ZeroOSII == [os_rev |-> 65535, logical_start_block |-> 0, ddr_load_address |-> 0,
                    entery_point |-> 0, size_of_os_image |-> 0]

\* Line 305: the memset of invalidate_osip_record, and a wiped table.
ZeroOSII == [os_rev |-> 0, logical_start_block |-> 0, ddr_load_address |-> 0,
             entery_point |-> 0, size_of_os_image |-> 0]
ZeroTable == [sig |-> 0, num_images |-> 0, desc |-> [s \in Slots |-> ZeroOSII]]

Bootable(d) == d.ddr_load_address # 0 \/ d.entery_point # 0

\* The sectors a descriptor names, as the firmware reads it.
Covered(start, n) == {l \in Sectors : start <= l /\ l < start + n}

\* get_page_size (lines 100-126): erase_size / 1024, or -1 when the sysfs
\* file cannot be read; get_block_size multiplies by MMC_PAGES_PER_BLOCK, 1.
PageSizeResults(e) ==
    {e \div KBYTES} \cup (IF "sysfs_read" \in Faults THEN {-1} ELSE {})

\* crack_stitched_image (273-288) and the size check (363-370).
Crackable(img) == img.num_images = 1
SizeMatches(img) ==
    /\ img.file_size >= STITCHED_IMAGE_BLOCK_SIZE
    /\ img.desc.size_of_os_image * STITCHED_IMAGE_PAGE_SIZE
         = img.file_size - STITCHED_IMAGE_BLOCK_SIZE

PayloadBytes(img) == img.file_size - STITCHED_IMAGE_BLOCK_SIZE

\* Line 385: (size * 512) / page_size in uint32; a page size of -1 is
\* converted to 2^32 - 1, which the product of a small image never reaches.
NewSize(img, p) ==
    IF p > 0 THEN (img.desc.size_of_os_image * STITCHED_IMAGE_PAGE_SIZE) \div p
    ELSE 0

\* The sectors the payload write covers: offset lba * block_size (line 395).
PayloadSectors(lba, b, img) ==
    Covered((lba * b) \div SECTOR, PayloadBytes(img) \div SECTOR)

Max2(x, y) == IF x > y THEN x ELSE y
Min2(x, y) == IF x < y THEN x ELSE y

\* Mutant: the payload is placed at the lower of the two blocks.
Mutant_PayloadLba(t) ==
    Min2(t.desc[PAYLOAD_OSII_REC].logical_start_block,
         t.desc[POS_OSII_REC].logical_start_block)

\* Lines 377-379: the payload goes above the POS.
PayloadLba(t) ==
    Max2(t.desc[PAYLOAD_OSII_REC].logical_start_block,
         t.desc[POS_OSII_REC].logical_start_block)

\* Mutant: the memcpy of line 387 done before the block is set (line 377),
\* so the table keeps the image's own block.
Mutant_PayloadTable(t, img, p) ==
    [t EXCEPT !.num_images = 1,
              !.desc[POS_OSII_REC].logical_start_block =
                  Min2(t.desc[PAYLOAD_OSII_REC].logical_start_block,
                       t.desc[POS_OSII_REC].logical_start_block),
              !.desc[PAYLOAD_OSII_REC] =
                  [img.desc EXCEPT !.size_of_os_image = NewSize(img, p)]]

\* Lines 376-387: the table as write_payload_os_image writes it.
PayloadTable(t, img, p) ==
    [t EXCEPT !.num_images = 1,
              !.desc[POS_OSII_REC].logical_start_block =
                  Min2(t.desc[PAYLOAD_OSII_REC].logical_start_block,
                       t.desc[POS_OSII_REC].logical_start_block),
              !.desc[PAYLOAD_OSII_REC] =
                  [img.desc EXCEPT !.logical_start_block = PayloadLba(t),
                                   !.size_of_os_image = NewSize(img, p)]]

-----------------------------------------------------------------------------
Calls == [op : {"write"}, image : Images]
         \cup [op : {"invalidate", "restore"}]

VARIABLES
    primary,   \* the OSIP table at byte 0
    disk,      \* the content of each sector
    pc,        \* where the running API call is
    call,      \* the running (or last) call
    status,    \* "none", "running", or how the last call ended
    bsize,     \* write_payload_os_image's block_size
    lba,       \* write_payload_os_image's osii->logical_start_block
    erase_size \* the device's erase_size, fixed for a behaviour

vars == <<primary, disk, pc, call, status, bsize, lba, erase_size>>

InitDisk ==
    [l \in Sectors |->
        IF \E s \in Slots : l \in Covered(InitPrimary.desc[s].logical_start_block,
                                          InitPrimary.desc[s].size_of_os_image)
        THEN InitPrimary.desc[CHOOSE s \in Slots :
                 l \in Covered(InitPrimary.desc[s].logical_start_block,
                               InitPrimary.desc[s].size_of_os_image)].os_rev
        ELSE 0]

TypeOK ==
    /\ primary \in OSIP_header
    /\ disk \in [Sectors -> Content]
    /\ pc \in {"idle", "write_prepare", "payload_write", "payload_sync",
               "invalidate", "restore"}
    /\ call \in Calls
    /\ status \in {"none", "running", "ok", "error", "crashed", "killed"}
    /\ bsize \in PageSizeResults(erase_size) \cup {0}
    /\ lba \in Nat
    /\ erase_size \in EraseSizes

Init ==
    /\ primary = InitPrimary
    /\ disk = InitDisk
    /\ pc = "idle"
    /\ call = [op |-> "restore"]
    /\ status = "none"
    /\ bsize = 0
    /\ lba = 0
    /\ erase_size \in EraseSizes

Ignored(c, A, v) == A \/ (c \in Faults /\ UNCHANGED v)

Fail == pc' = "idle" /\ status' = "error"
Return0 == pc' = "idle" /\ status' = "ok"

\* A client calls one of the API functions.
Start(c) ==
    /\ pc = "idle"
    /\ call' = c
    /\ pc' = CASE c.op = "write" -> "write_prepare"
               [] c.op = "invalidate" -> "invalidate"
               [] OTHER -> "restore"
    /\ status' = "running"
    /\ UNCHANGED <<primary, disk, bsize, lba, erase_size>>

\* A checked device call fails (open, read_OSIP, write_OSIP of invalidate
\* and restore, a short payload write): the call returns -1.
IoError ==
    /\ pc \in {"write_prepare", "payload_write", "payload_sync",
               "invalidate", "restore"}
    /\ Fail
    /\ UNCHANGED <<primary, disk, call, bsize, lba, erase_size>>

Crash ==
    /\ pc # "idle"
    /\ pc' = "idle" /\ status' = "crashed"
    /\ UNCHANGED <<primary, disk, call, bsize, lba, erase_size>>

\* write_payload_os_image lines 351-388: both sizes are read from sysfs,
\* the image is cracked and checked, the table read, the new table built
\* and written, write_OSIP's result unchecked.  A page size of 0 (an
\* erase_size below 1024) divides by zero at line 385: SIGFPE kills the
\* process before anything is written.
WritePrepare ==
    /\ pc = "write_prepare"
    /\ \E b, p \in PageSizeResults(erase_size) :
        LET img == call.image IN
        \/ /\ b < 0 \/ ~Crackable(img) \/ ~SizeMatches(img)
           /\ Fail
           /\ UNCHANGED <<primary, bsize, lba>>
        \/ /\ b >= 0 /\ Crackable(img) /\ SizeMatches(img) /\ p = 0
           /\ pc' = "idle" /\ status' = "killed"
           /\ UNCHANGED <<primary, bsize, lba>>
        \/ /\ b >= 0 /\ Crackable(img) /\ SizeMatches(img) /\ p # 0
           /\ Ignored("table_write", primary' = PayloadTable(primary, img, p), primary)
           /\ bsize' = b
           /\ lba' = PayloadLba(primary)
           /\ pc' = "payload_write"
           /\ UNCHANGED status
    /\ UNCHANGED <<disk, call, erase_size>>

\* Lines 390-396: the payload write starts at lba * block_size; a write
\* that reaches sector 0 overwrites the tables.
PayloadWriteBegin ==
    /\ pc = "payload_write"
    /\ LET cov == PayloadSectors(lba, bsize, call.image) IN
       /\ disk' = [l \in Sectors |-> IF l \in cov THEN Torn ELSE disk[l]]
       /\ IF 0 \in cov THEN primary' = ZeroTable ELSE UNCHANGED primary
    /\ pc' = "payload_sync"
    /\ UNCHANGED <<call, status, bsize, lba, erase_size>>

\* Lines 396-405: write and fsync complete and the call returns 0; nothing
\* is read back.  A -1 from write passes the size_t comparison.
PayloadWriteEnd ==
    /\ pc = "payload_sync"
    /\ LET cov == PayloadSectors(lba, bsize, call.image) IN
       Ignored("payload_write",
               disk' = [l \in Sectors |->
                          IF l \in cov THEN call.image.desc.os_rev ELSE disk[l]],
               disk)
    /\ Return0
    /\ UNCHANGED <<primary, call, bsize, lba, erase_size>>

\* invalidate_osip_record(PAYLOAD_OSII_REC), lines 290-320: the payload
\* descriptor keeps its block, size and attribute, the rest is zeroed.
InvalidatePayload ==
    /\ pc = "invalidate"
    /\ LET d == primary.desc[PAYLOAD_OSII_REC] IN
       primary' = [primary EXCEPT !.desc[PAYLOAD_OSII_REC] =
                     [ZeroOSII EXCEPT !.logical_start_block = d.logical_start_block,
                                      !.size_of_os_image = d.size_of_os_image]]
    /\ Return0
    /\ UNCHANGED <<disk, call, bsize, lba, erase_size>>

\* restore_payload_osip_record, lines 322-343: the payload descriptor gets
\* the POS's load address and entry point.
RestorePayload ==
    /\ pc = "restore"
    /\ primary' = [primary EXCEPT
                     !.desc[PAYLOAD_OSII_REC].ddr_load_address =
                         primary.desc[POS_OSII_REC].ddr_load_address,
                     !.desc[PAYLOAD_OSII_REC].entery_point =
                         primary.desc[POS_OSII_REC].entery_point]
    /\ Return0
    /\ UNCHANGED <<disk, call, bsize, lba, erase_size>>

Next ==
    \/ \E c \in Calls : Start(c)
    \/ WritePrepare \/ PayloadWriteBegin \/ PayloadWriteEnd
    \/ InvalidatePayload \/ RestorePayload
    \/ IoError \/ Crash

Spec == Init /\ [][Next]_vars

-----------------------------------------------------------------------------
(* Properties.                                                             *)

\* The sectors descriptor d names hold the image d names.
HoldsImage(d) ==
    \A l \in Covered(d.logical_start_block, d.size_of_os_image) :
        disk[l] = d.os_rev

\* The provisioning OS survives every sequence of API calls and crashes:
\* write_payload_os_image places the payload above the POS (MAX and MIN,
\* lines 377-382), so its write never reaches the POS's sectors.
PosIntact ==
    primary.sig = OSIP_SIG => HoldsImage(primary.desc[POS_OSII_REC])

\* When write_payload_os_image returns 0, the payload descriptor names the
\* image, with its size in 512-byte pages, and the sectors it names hold it.
PayloadDescribedOnSuccess ==
    pc = "idle" /\ status = "ok" /\ call.op = "write" =>
        LET d == primary.desc[PAYLOAD_OSII_REC] IN
        /\ d.os_rev = call.image.desc.os_rev
        /\ d.size_of_os_image = call.image.desc.size_of_os_image
        /\ HoldsImage(d)

\* No bootable descriptor of a signed table names sectors that do not hold
\* its image, whatever step power fails at.
NoTornBoot ==
    primary.sig = OSIP_SIG =>
        \A s \in Slots : Bootable(primary.desc[s]) => HoldsImage(primary.desc[s])
=============================================================================
