------------------------- MODULE OsipProcedureProofs -------------------------
(***************************************************************************)
(* Proof that the documented procedure (prepare, update, restore) never    *)
(* leaves a signed primary with a bootable slot over blocks that do not    *)
(* hold its image (NoTornBoot), on a device and command lines that meet    *)
(* the conditions below.                                                   *)
(***************************************************************************)
EXTENDS OsipProcedure, OsipDeviceProofs

-----------------------------------------------------------------------------
(* The conditions.  Each of the first five is needed: without it TLC      *)
(* finds NoTornBoot violated (README.md, findings 1, 5, 7, 8 and 19-21).   *)

\* The procedure updates a payload slot: write_stitch_image commits the
\* table of the POS before its payload (osip_utils.c line 140).
PayloadSlotsOnly == POS \notin UpdateSlots

\* One slot is updated: --restore installs the whole backup, so a slot
\* staged by a failed update of one slot would come back with a restore
\* after an update of another one (finding 19).
OneSlot == \A n, m \in UpdateSlots : n = m

\* write_stitch_image sees its failures to read the backup and to write the
\* backup entry (lines 142 and 148).
BackupCallsSeen ==
    UncheckedCalls \cap {"backup_read", "backup_entry_write"} = {}

\* No --update run passes -l, -a or -e, which would move the slot or make
\* its invalidated descriptor bootable in update_handle (lines 417-422;
\* findings 8 and 21).
SlotFieldsKept ==
    \A f \in Fields : ~Set32(f.lba) /\ ~Set32(f.addr) /\ ~Set32(f.entry)

\* Every image flashed is bootable, and so is the updated slot as
\* provisioned: a slot that is not bootable while no backup exists sends
\* the new table to the primary before the payload (line 146; finding 20).
BootableImages ==
    /\ \A img \in Images : Bootable(img.desc)
    /\ \A n \in UpdateSlots : Bootable(InitPrimary.desc[n])

\* The provisioned logical_start_block of slot s.
InitLsb(s) == InitPrimary.desc[s].logical_start_block

\* The blocks a payload of slot n may occupy.
Region(n) == Covered(InitLsb(n), MaxSize)

\* The blocks InitPrimary's slot s describes.
InitCovered(s) ==
    Covered(InitLsb(s), InitPrimary.desc[s].size_of_os_image)

\* The provisioned bootable images do not share blocks, and no image of an
\* updated slot reaches the blocks of another bootable slot.
SlotsApart ==
    /\ \A s, t \in Slots :
         s # t /\ Bootable(InitPrimary.desc[s]) /\ Bootable(InitPrimary.desc[t])
           => InitCovered(s) \cap InitCovered(t) = {}
    /\ \A n \in UpdateSlots, s \in Slots :
         s # n /\ Bootable(InitPrimary.desc[s]) => Region(n) \cap InitCovered(s) = {}

ProcedureConditions ==
    /\ PayloadSlotsOnly /\ OneSlot /\ BackupCallsSeen /\ SlotFieldsKept
    /\ BootableImages /\ SlotsApart

-----------------------------------------------------------------------------
(* The inductive invariant.                                                *)

\* The blocks updates may write.
Written == UNION {Region(n) : n \in UpdateSlots}

\* Image d is on the blocks of disk dk (HoldsImage with the disk a
\* parameter, so that lemmas apply to the next state's disk too).
HoldsOn(dk, d) ==
    \A l \in Covered(d.logical_start_block, d.size_of_os_image) : dk[l] = d.os_rev

\* Every bootable slot of table t holds its image on disk dk.
Good(dk, t) == \A s \in Slots : Bootable(t.desc[s]) => HoldsOn(dk, t.desc[s])

\* The blocks no update writes keep what they were provisioned with.
KeptOn(dk) == \A l \in Lbas \ Written : dk[l] = InitDisk[l]

\* A slot no update touches is bootable only as provisioned; an updated
\* slot sits at its provisioned block, or at 0 in a zeroed table.
Shaped(t) ==
    /\ \A s \in Slots \ UpdateSlots :
         Bootable(t.desc[s]) => t.desc[s] = InitPrimary.desc[s]
    /\ \A n \in UpdateSlots : t.desc[n].logical_start_block \in {InitLsb(n), 0}

Signed == primary.sig = OSIP_SIG \/ backup.sig = OSIP_SIG

\* The last run lets the operator --restore next.
RestoreReady ==
    inv.restore \/ (inv.update # NoSlot /\ inv.image # NoImage /\ status = "ok")

\* Which run of the procedure a phase belongs to.
RunOfPhase ==
    /\ pc # "idle" => status = "running"
    /\ pc \in {"backup", "invalidate"} =>
         inv.update = NoSlot /\ ~inv.restore /\ inv.inval # << >>
    /\ pc \in UpdatePhases =>
         ~inv.restore /\ inv.inval = << >> /\ inv.image # NoImage
    /\ pc \in {"restore_primary", "restore_zero"} =>
         inv.restore /\ inv.update = NoSlot /\ inv.inval = << >>

\* write_stitch_image's local table is the primary with the new descriptor.
MemStaged ==
    pc = "update_stage" =>
        mem.sig = primary.sig /\ Shaped(mem) /\ mem.desc[inv.update] = osii

\* The new descriptor is bootable and sits at the slot's block (or at 0,
\* built from a zeroed primary, where its payload overwrites the tables).
NewDesc ==
    pc \in {"update_stage", "payload_write", "payload_sync", "verify",
            "update_handle"} =>
        /\ osii.logical_start_block \in {InitLsb(inv.update), 0}
        /\ Bootable(osii)

\* Once the payload write began, a signed table means it went to the slot.
WrittenAt ==
    pc \in {"payload_sync", "verify", "update_handle"} /\ Signed =>
        osii.logical_start_block = InitLsb(inv.update)

DiskInv == Signed => KeptOn(disk)

\* An updated slot is invalid in a signed primary only with a signed backup.
BackupWhenInvalid ==
    \A n \in UpdateSlots :
        primary.sig = OSIP_SIG /\ ~Bootable(primary.desc[n]) => backup.sig = OSIP_SIG

\* An update runs on a slot the signed primary does not boot.
InvalidWhileUpdating ==
    pc \in UpdatePhases /\ primary.sig = OSIP_SIG => ~Bootable(primary.desc[inv.update])

\* From staging on, a signed backup holds the new descriptor.
StagedInBackup ==
    pc \in {"payload_write", "payload_sync", "verify", "update_handle"}
    /\ backup.sig = OSIP_SIG => backup.desc[inv.update] = osii

\* After check_image_valid the image is on its blocks.
OsiiHeld == pc = "update_handle" => HoldsOn(disk, osii)

\* invalidate_handle runs after backup_handle copied the primary.
InvalidateBacked == pc = "invalidate" /\ primary.sig = OSIP_SIG => backup.sig = OSIP_SIG

\* Between restore_handle's two writes the primary is the backup.
RestoreCopied == pc = "restore_zero" => primary = backup

\* When the operator may restore, a signed backup boots the updated slot,
\* at its provisioned block, from blocks that hold its image.
BackupReady ==
    RestoreReady /\ backup.sig = OSIP_SIG =>
        \A n \in UpdateSlots :
            /\ Bootable(backup.desc[n]) /\ HoldsOn(disk, backup.desc[n])
            /\ backup.desc[n].logical_start_block = InitLsb(n)

\* A signed primary has every updated slot at its provisioned block.
SignedPlaced ==
    primary.sig = OSIP_SIG =>
        \A n \in UpdateSlots : primary.desc[n].logical_start_block = InitLsb(n)

\* Built from a signed primary, the new descriptor sits at the slot's block.
StageAt ==
    pc \in {"update_stage", "payload_write"} /\ primary.sig = OSIP_SIG =>
        osii.logical_start_block = InitLsb(inv.update)

\* The procedure's inductive invariant: NoTornBoot strengthened by what
\* write_stitch_image, update_handle, invalidate_handle and restore_handle
\* keep between their steps: the tables stay shaped and in place, the new
\* descriptor and the staged table agree with the slot being updated, and
\* while the primary's slot is invalid or being rewritten a signed backup
\* holds a bootable copy of it that restore_handle would install.
ProcInv ==
    /\ TypeInv
    /\ RunOfPhase
    /\ Shaped(primary) /\ Shaped(backup)
    /\ MemStaged /\ NewDesc /\ WrittenAt /\ DiskInv
    /\ NoTornBoot
    /\ BackupWhenInvalid /\ InvalidWhileUpdating /\ StagedInBackup /\ OsiiHeld
    /\ InvalidateBacked /\ RestoreCopied /\ BackupReady
    /\ SignedPlaced /\ StageAt

-----------------------------------------------------------------------------
(* Lemmas on the tables and the disk.                                      *)

USE ConstantsAssumption DEF write_OSIP, Ignored

\* A step of the procedure is a step of the device.
LEMMA ProcStepIsStep == [ProcNext]_vars => [Next]_vars
BY DEF ProcNext, Next

\* A payload at block 0 overwrites both tables (line 155).
LEMMA ClobbersZero == ClobbersTables(0)
BY DEF ClobbersTables, PayloadOffset, Wrap23, get_block_size, get_page_size,
       MMC_PAGE_SIZE, MMC_PAGES_PER_BLOCK, BACKUP_LOC, OSIP_HEADER_BYTES

\* The table write_stitch_image builds, and the backup after
\* write_OSII_entry, with descriptor d in slot n.
StagedTable(t, n, d) == [t EXCEPT !.num_images = 1, !.desc[n] = d]
EntryWritten(t, n, d) == [t EXCEPT !.desc[n] = d]

\* Setting one descriptor of a table leaves its signature and other slots.
LEMMA SetSlotFacts ==
    ASSUME NEW t \in OSIP_header, NEW n \in Slots, NEW d
    PROVE  /\ StagedTable(t, n, d).sig = t.sig
           /\ StagedTable(t, n, d).desc[n] = d
           /\ \A s \in Slots \ {n} : StagedTable(t, n, d).desc[s] = t.desc[s]
           /\ EntryWritten(t, n, d).sig = t.sig
           /\ EntryWritten(t, n, d).desc[n] = d
           /\ \A s \in Slots \ {n} : EntryWritten(t, n, d).desc[s] = t.desc[s]
<1>. DEFINE nd == [t.desc EXCEPT ![n] = d]
<1>1. t.desc \in [Slots -> OSII]
  BY DEF OSIP_header
<1>2. nd[n] = d /\ \A s \in Slots \ {n} : nd[s] = t.desc[s]
  BY <1>1
<1>3. [t EXCEPT !.desc[n] = d] = [t EXCEPT !.desc = nd]
  OBVIOUS
<1>4. [t EXCEPT !.num_images = 1, !.desc[n] = d]
        = [[t EXCEPT !.num_images = 1] EXCEPT !.desc = nd]
  OBVIOUS
<1>. QED BY <1>2, <1>3, <1>4 DEF OSIP_header, StagedTable, EntryWritten

\* A provisioned bootable slot holds its image on the provisioned disk.
LEMMA InitHolds ==
    ASSUME SlotsApart, NEW s \in Slots, Bootable(InitPrimary.desc[s])
    PROVE  HoldsOn(InitDisk, InitPrimary.desc[s])
<1> SUFFICES ASSUME NEW l \in InitCovered(s)
             PROVE  InitDisk[l] = InitPrimary.desc[s].os_rev
  BY DEF HoldsOn, InitCovered, InitLsb
<1>. DEFINE P(c) == Bootable(InitPrimary.desc[c])
                    /\ l \in Covered(InitPrimary.desc[c].logical_start_block,
                                     InitPrimary.desc[c].size_of_os_image)
            ch == CHOOSE c \in Slots : P(c)
<1>1. l \in Lbas /\ P(s)
  BY DEF InitCovered, InitLsb, Covered
<1>2. InitDisk[l] = InitPrimary.desc[ch].os_rev
  BY <1>1 DEF InitDisk
<1>3. ch \in Slots /\ P(ch)
  BY <1>1
<1>4. l \in InitCovered(ch) \cap InitCovered(s)
  BY <1>1, <1>3 DEF InitCovered, InitLsb
<1>5. ch = s
  BY <1>1, <1>3, <1>4 DEF SlotsApart
<1>. QED BY <1>2, <1>5

\* A bootable slot no update touches keeps its image on a disk that keeps
\* the blocks no update writes.
LEMMA FixedHolds ==
    ASSUME SlotsApart, NEW dk, KeptOn(dk),
           NEW s \in Slots \ UpdateSlots, Bootable(InitPrimary.desc[s])
    PROVE  HoldsOn(dk, InitPrimary.desc[s])
<1> SUFFICES ASSUME NEW l \in InitCovered(s)
             PROVE  dk[l] = InitPrimary.desc[s].os_rev
  BY DEF HoldsOn, InitCovered, InitLsb
<1>1. l \in Lbas
  BY DEF InitCovered, Covered
<1>2. \A n \in UpdateSlots : l \notin Region(n)
  BY DEF SlotsApart
<1>3. l \in Lbas \ Written
  BY <1>1, <1>2 DEF Written
<1>4. dk[l] = InitDisk[l]
  BY <1>3 DEF KeptOn
<1>5. InitDisk[l] = InitPrimary.desc[s].os_rev
  BY InitHolds DEF HoldsOn, InitCovered, InitLsb
<1>. QED BY <1>4, <1>5

\* A shaped table whose updated slots hold their images is good.
LEMMA GoodTable ==
    ASSUME SlotsApart, NEW dk, KeptOn(dk), NEW t, Shaped(t),
           \A n \in UpdateSlots : Bootable(t.desc[n]) => HoldsOn(dk, t.desc[n])
    PROVE  Good(dk, t)
<1> SUFFICES ASSUME NEW s \in Slots, Bootable(t.desc[s])
             PROVE  HoldsOn(dk, t.desc[s])
  BY DEF Good
<1>1. CASE s \in UpdateSlots
  BY <1>1
<1>2. CASE s \notin UpdateSlots
  <2>1. t.desc[s] = InitPrimary.desc[s]
    BY <1>2 DEF Shaped
  <2>. QED BY <2>1, <1>2, FixedHolds
<1>. QED BY <1>1, <1>2

\* A payload of an updated slot, written at its provisioned block, stays
\* inside the blocks updates may write.
LEMMA WriteInside ==
    ASSUME NEW n \in UpdateSlots, NEW d \in OSII, d.logical_start_block = InitLsb(n)
    PROVE  Covered(d.logical_start_block, d.size_of_os_image) \subseteq Written
<1>1. d.size_of_os_image \in 0 .. MaxSize /\ d.logical_start_block \in Lbas
  BY DEF OSII
<1>2. Covered(d.logical_start_block, d.size_of_os_image) \subseteq Region(n)
  BY <1>1 DEF Covered, Region, Lbas
<1>. QED BY <1>2 DEF Written

\* Writing inside Written keeps the other blocks.
LEMMA KeptWrite ==
    ASSUME NEW dk, KeptOn(dk), NEW c, c \subseteq Written, NEW v
    PROVE  KeptOn([l \in Lbas |-> IF l \in c THEN v ELSE dk[l]])
BY DEF KeptOn

\* invalidate_handle keeps the signature and each slot, or makes it
\* unbootable at the same block.
LEMMA InvalidateKeeps ==
    ASSUME NEW t \in OSIP_header, NEW args
    PROVE  /\ InvalidateTable(t, args).sig = t.sig
           /\ \A s \in Slots :
                \/ InvalidateTable(t, args).desc[s] = t.desc[s]
                \/ /\ ~Bootable(InvalidateTable(t, args).desc[s])
                   /\ InvalidateTable(t, args).desc[s].logical_start_block
                        = t.desc[s].logical_start_block
<1>. DEFINE C(j) == \E i \in 1 .. Len(args) : FirstMatch(t, args[i], j)
<1>1. /\ InvalidateTable(t, args).sig = t.sig
      /\ \A s \in Slots : InvalidateTable(t, args).desc[s]
                            = IF C(s) THEN InvalidOSII(t.desc[s]) ELSE t.desc[s]
  BY DEF InvalidateTable, OSIP_header
<1>2. ASSUME NEW d \in OSII
      PROVE  ~Bootable(InvalidOSII(d))
             /\ InvalidOSII(d).logical_start_block = d.logical_start_block
  BY DEF InvalidOSII, ZeroOSII, Bootable, OSII
<1>3. \A s \in Slots : t.desc[s] \in OSII
  BY DEF OSIP_header
<1>. QED BY <1>1, <1>2, <1>3

LEMMA InvalidateGood ==
    ASSUME NEW t \in OSIP_header, NEW args, NEW dk
    PROVE  /\ Shaped(t) => Shaped(InvalidateTable(t, args))
           /\ Good(dk, t) => Good(dk, InvalidateTable(t, args))
           /\ InvalidateTable(t, args).sig = t.sig
<1>. DEFINE u == InvalidateTable(t, args)
<1>1. u.sig = t.sig
  BY InvalidateKeeps
<1>2. \A s \in Slots : Bootable(u.desc[s]) => u.desc[s] = t.desc[s]
  BY InvalidateKeeps
<1>3. \A s \in Slots : u.desc[s].logical_start_block = t.desc[s].logical_start_block
  BY InvalidateKeeps
<1>4. Shaped(t) => Shaped(u)
  BY <1>2, <1>3 DEF Shaped
<1>5. Good(dk, t) => Good(dk, u)
  BY <1>2 DEF Good
<1>. QED BY <1>1, <1>4, <1>5

\* update_handle without -l, -a or -e keeps the slot's block and whether
\* it is bootable, and the other slots.
LEMMA UpdatedKeeps ==
    ASSUME SlotFieldsKept, NEW t \in OSIP_header, NEW n \in Slots, NEW f \in Fields
    PROVE  /\ UpdatedTable(t, n, f).sig = t.sig
           /\ UpdatedTable(t, n, f).desc[n].logical_start_block
                = t.desc[n].logical_start_block
           /\ Bootable(UpdatedTable(t, n, f).desc[n]) <=> Bootable(t.desc[n])
           /\ \A s \in Slots \ {n} : UpdatedTable(t, n, f).desc[s] = t.desc[s]
<1>1. ~Set32(f.lba) /\ ~Set32(f.addr) /\ ~Set32(f.entry)
  BY DEF SlotFieldsKept
<1>2. OverrideOSII(t.desc[n], f).logical_start_block = t.desc[n].logical_start_block
      /\ OverrideOSII(t.desc[n], f).ddr_load_address = t.desc[n].ddr_load_address
      /\ OverrideOSII(t.desc[n], f).entery_point = t.desc[n].entery_point
  BY <1>1 DEF OverrideOSII
<1>. QED BY <1>2, SetSlotFacts DEF UpdatedTable, Bootable

LEMMA UpdatedShaped ==
    ASSUME SlotFieldsKept, NEW t \in OSIP_header, NEW n \in UpdateSlots,
           NEW f \in Fields, Shaped(t)
    PROVE  Shaped(UpdatedTable(t, n, f))
<1>. DEFINE u == UpdatedTable(t, n, f)
<1>1. /\ u.desc[n].logical_start_block = t.desc[n].logical_start_block
      /\ \A s \in Slots \ {n} : u.desc[s] = t.desc[s]
  BY UpdatedKeeps
<1>2. \A s \in Slots \ UpdateSlots : Bootable(u.desc[s]) => u.desc[s] = InitPrimary.desc[s]
  BY <1>1 DEF Shaped
<1>3. \A m \in UpdateSlots : u.desc[m].logical_start_block \in {InitLsb(m), 0}
  BY <1>1 DEF Shaped
<1>. QED BY <1>2, <1>3 DEF Shaped

LEMMA ZeroShaped == Shaped(ZeroTable) /\ ZeroTable.sig # OSIP_SIG
BY DEF Shaped, ZeroTable, ZeroOSII, Bootable, OSIP_SIG

-----------------------------------------------------------------------------
(* The invariant holds initially.                                          *)

LEMMA ProcInit ==
    ASSUME ProcedureConditions
    PROVE  Init => ProcInv
<1> SUFFICES ASSUME Init PROVE ProcInv
  OBVIOUS
<1>1. TypeInv
  BY TypeInit
<1>2. Shaped(primary) /\ Shaped(backup)
  BY ZeroShaped DEF Init, Shaped, InitLsb
<1>3. Good(InitDisk, InitPrimary)
  BY InitHolds DEF Good, ProcedureConditions
<1>4. NoTornBoot
  BY <1>3 DEF Init, NoTornBoot, Intact, HoldsImage, Good, HoldsOn
<1>5. BackupWhenInvalid
  BY DEF Init, BackupWhenInvalid, ProcedureConditions, BootableImages
<1>6. BackupReady /\ DiskInv
  BY ZeroShaped DEF Init, BackupReady, DiskInv, Signed, KeptOn
<1>. QED BY <1>1, <1>2, <1>4, <1>5, <1>6
         DEF ProcInv, Init, RunOfPhase, MemStaged, NewDesc, WrittenAt,
             InvalidWhileUpdating, StagedInBackup, OsiiHeld, InvalidateBacked,
             RestoreCopied, UpdatePhases, StitchPhases, SignedPlaced, StageAt,
             InitLsb

-----------------------------------------------------------------------------
(* Every step of the procedure keeps the invariant.                        *)

LEMMA ProcStep ==
    ASSUME ProcedureConditions
    PROVE  ProcInv /\ [ProcNext]_vars => ProcInv'
<1> SUFFICES ASSUME ProcInv, [ProcNext]_vars PROVE ProcInv'
  OBVIOUS
<1>c. PayloadSlotsOnly /\ OneSlot /\ BackupCallsSeen /\ SlotFieldsKept
      /\ BootableImages /\ SlotsApart
  BY DEF ProcedureConditions
<1>a. /\ TypeInv /\ RunOfPhase /\ Shaped(primary) /\ Shaped(backup)
      /\ MemStaged /\ NewDesc /\ WrittenAt /\ DiskInv /\ NoTornBoot
      /\ BackupWhenInvalid /\ InvalidWhileUpdating /\ StagedInBackup /\ OsiiHeld
      /\ InvalidateBacked /\ RestoreCopied /\ BackupReady
      /\ SignedPlaced /\ StageAt
  BY DEF ProcInv
<1>b. TypeOK /\ PhaseOK
  BY <1>a DEF TypeInv
<1>t. TypeInv'
  BY <1>a, TypeStep, ProcStepIsStep
<1>g. NoTornBoot <=> (primary.sig = OSIP_SIG => Good(disk, primary))
  BY DEF NoTornBoot, Intact, HoldsImage, Good, HoldsOn
<1>h. NoTornBoot' <=> (primary'.sig = OSIP_SIG => Good(disk', primary'))
  BY DEF NoTornBoot, Intact, HoldsImage, Good, HoldsOn
<1>. USE <1>a, <1>b, <1>c
<1> SUFFICES /\ RunOfPhase' /\ Shaped(primary') /\ Shaped(backup')
             /\ MemStaged' /\ NewDesc' /\ WrittenAt' /\ DiskInv'
             /\ (primary'.sig = OSIP_SIG => Good(disk', primary'))
             /\ BackupWhenInvalid' /\ InvalidWhileUpdating' /\ StagedInBackup'
             /\ OsiiHeld' /\ InvalidateBacked' /\ RestoreCopied' /\ BackupReady'
             /\ SignedPlaced' /\ StageAt'
  BY <1>t, <1>h DEF ProcInv
\* A run that ends in an error or a crash, having written nothing.
<1>q. ASSUME pc' = "idle", status' \in {"error", "crashed"},
             UNCHANGED <<primary, backup, disk, inv, mem, osii>>
      PROVE  /\ RunOfPhase' /\ Shaped(primary') /\ Shaped(backup')
             /\ MemStaged' /\ NewDesc' /\ WrittenAt' /\ DiskInv'
             /\ (primary'.sig = OSIP_SIG => Good(disk', primary'))
             /\ BackupWhenInvalid' /\ InvalidWhileUpdating' /\ StagedInBackup'
             /\ OsiiHeld' /\ InvalidateBacked' /\ RestoreCopied' /\ BackupReady'
             /\ SignedPlaced' /\ StageAt'
  <2>1. RestoreReady' => RestoreReady
    BY <1>q DEF RestoreReady
  <2>2. BackupReady'
    BY <1>q, <2>1 DEF BackupReady
  <2>3. primary.sig = OSIP_SIG => Good(disk, primary)
    BY <1>g
  <2>. QED BY <1>q, <2>2, <2>3
         DEF RunOfPhase, MemStaged, NewDesc, WrittenAt, DiskInv, Signed, KeptOn,
             BackupWhenInvalid, InvalidWhileUpdating, StagedInBackup, OsiiHeld,
             InvalidateBacked, RestoreCopied, UpdatePhases, StitchPhases, SignedPlaced, StageAt
<1>1. CASE \E i \in Invocations : OperatorRun(i) /\ Start(i)
  <2>1. PICK i \in Invocations : OperatorRun(i) /\ Start(i)
    BY <1>1
  <2>2. /\ pc = "idle" /\ inv' = i /\ status' = "running"
        /\ UNCHANGED <<primary, backup, disk>>
    BY <2>1 DEF Start, device
  <2>3. \/ PrepareRun(i) /\ pc' = "backup"
        \/ UpdateRun(i) /\ pc' = "update_prepare"
        \/ RestoreRun(i) /\ pc' = "restore_primary"
    BY <2>1 DEF OperatorRun, PrepareRun, UpdateRun, RestoreRun, Start,
                FirstPhase, AfterBackup, AfterRestore
  <2>4. RunOfPhase'
    <3>1. CASE PrepareRun(i) /\ pc' = "backup"
      <4>1. PICK n \in UpdateSlots :
              /\ i.backup /\ ~i.restore /\ i.update = NoSlot
              /\ i.inval = << primary.desc[n].attribute >>
        BY <3>1 DEF PrepareRun
      <4>2. i.inval # << >>
        BY <4>1
      <4>. QED BY <2>2, <3>1, <4>1, <4>2 DEF RunOfPhase, UpdatePhases, StitchPhases
    <3>2. CASE UpdateRun(i) /\ pc' = "update_prepare"
      BY <2>2, <3>2 DEF RunOfPhase, UpdateRun, UpdatePhases, StitchPhases
    <3>3. CASE RestoreRun(i) /\ pc' = "restore_primary"
      BY <2>2, <3>3 DEF RunOfPhase, RestoreRun, UpdatePhases, StitchPhases
    <3>. QED BY <2>3, <3>1, <3>2, <3>3
  <2>5. InvalidWhileUpdating'
    BY <2>2, <2>3 DEF InvalidWhileUpdating, UpdateRun, UpdatePhases, StitchPhases
  <2>6. BackupReady'
    <3>1. CASE RestoreRun(i)
      <4>1. RestoreReady
        BY <3>1 DEF RestoreRun, RestoreReady
      <4>. QED BY <2>2, <4>1 DEF BackupReady
    <3>2. CASE ~RestoreRun(i)
      <4>1. ~i.restore
        BY <2>3, <3>2 DEF PrepareRun, UpdateRun
      <4>. QED BY <2>2, <4>1 DEF BackupReady, RestoreReady
    <3>. QED BY <3>1, <3>2
  <2>7. primary.sig = OSIP_SIG => Good(disk, primary)
    BY <1>g
  <2>. QED BY <2>2, <2>3, <2>4, <2>5, <2>6, <2>7
         DEF MemStaged, NewDesc, WrittenAt, DiskInv, Signed, KeptOn,
             BackupWhenInvalid, StagedInBackup, OsiiHeld,
             InvalidateBacked, RestoreCopied, SignedPlaced, StageAt
<1>2. CASE IoError
  BY <1>2, <1>q DEF IoError, Fail
<1>3. CASE Crash
  BY <1>3, <1>q DEF Crash
<1>5. CASE RestoreRefused
  BY <1>5, <1>q DEF RestoreRefused, Fail
<1>8. CASE StitchReject
  BY <1>8, <1>q DEF StitchReject, Fail
<1>16. CASE InvalidateRefused
  BY <1>16, <1>q DEF InvalidateRefused, Fail
<1>18. CASE UNCHANGED vars
  <2>1. primary.sig = OSIP_SIG => Good(disk, primary)
    BY <1>g
  <2>. QED BY <1>18, <2>1
         DEF vars, RunOfPhase, MemStaged, NewDesc, WrittenAt, DiskInv, Signed,
             KeptOn, BackupWhenInvalid, InvalidWhileUpdating, StagedInBackup,
             OsiiHeld, InvalidateBacked, RestoreCopied, BackupReady, RestoreReady, SignedPlaced, StageAt
<1>4. CASE BackupHandle
  <2>1. /\ pc = "backup" /\ backup' = primary /\ pc' = "invalidate"
        /\ status' = status /\ UNCHANGED <<primary, disk, inv, mem, osii>>
    BY <1>4 DEF BackupHandle, Goto, AfterBackup, AfterRestore, AfterUpdate, RunOfPhase
  <2>2. /\ status = "running" /\ inv.update = NoSlot /\ ~inv.restore
        /\ inv.inval # << >>
    BY <2>1 DEF RunOfPhase
  <2>3. primary.sig = OSIP_SIG => Good(disk, primary)
    BY <1>g
  <2>4. RunOfPhase'
    BY <2>1, <2>2 DEF RunOfPhase, UpdatePhases, StitchPhases
  <2>5. BackupReady'
    BY <2>1, <2>2 DEF BackupReady, RestoreReady
  <2>. QED BY <2>1, <2>3, <2>4, <2>5
         DEF MemStaged, NewDesc, WrittenAt, DiskInv, Signed, KeptOn,
             BackupWhenInvalid, InvalidWhileUpdating, StagedInBackup, OsiiHeld,
             InvalidateBacked, RestoreCopied, UpdatePhases, StitchPhases, SignedPlaced, StageAt
<1>6. CASE RestoreWritePrimary
  <2>1. /\ pc = "restore_primary" /\ backup.sig = OSIP_SIG /\ primary' = backup
        /\ pc' = "restore_zero" /\ UNCHANGED <<backup, disk, inv, status, mem, osii>>
    BY <1>6 DEF RestoreWritePrimary
  <2>2. inv.restore /\ status = "running"
    BY <2>1 DEF RunOfPhase
  <2>3. KeptOn(disk)
    BY <2>1 DEF DiskInv, Signed
  <2>4. \A n \in UpdateSlots : Bootable(backup.desc[n]) /\ HoldsOn(disk, backup.desc[n])
    BY <2>1, <2>2 DEF BackupReady, RestoreReady
  <2>5. Good(disk, backup)
    BY <2>3, <2>4, GoodTable
  <2>6. RunOfPhase'
    BY <2>1 DEF RunOfPhase, UpdatePhases, StitchPhases
  <2>7. BackupReady'
    BY <2>1 DEF BackupReady, RestoreReady
  <2>8. SignedPlaced'
    BY <2>1, <2>2 DEF SignedPlaced, BackupReady, RestoreReady
  <2>. QED BY <2>1, <2>3, <2>5, <2>6, <2>7, <2>8
         DEF MemStaged, NewDesc, WrittenAt, DiskInv, Signed,
             BackupWhenInvalid, InvalidWhileUpdating, StagedInBackup, OsiiHeld,
             InvalidateBacked, RestoreCopied, UpdatePhases, StitchPhases, SignedPlaced, StageAt
<1>7. CASE RestoreZeroBackup
  <2>1. /\ pc = "restore_zero" /\ backup' = ZeroTable /\ pc' = "idle"
        /\ status' = "ok" /\ UNCHANGED <<primary, disk, inv, mem, osii>>
    BY <1>7 DEF RestoreZeroBackup, Goto, AfterRestore, AfterUpdate, RunOfPhase
  <2>2. primary = backup /\ inv.restore
    BY <2>1 DEF RestoreCopied, RunOfPhase
  <2>3. BackupWhenInvalid'
    <3>1. primary.sig = OSIP_SIG => \A n \in UpdateSlots : Bootable(primary.desc[n])
      BY <2>2 DEF BackupReady, RestoreReady
    <3>. QED BY <2>1, <3>1 DEF BackupWhenInvalid
  <2>4. DiskInv'
    BY <2>1, <2>2, ZeroShaped DEF DiskInv, Signed
  <2>5. primary.sig = OSIP_SIG => Good(disk, primary)
    BY <1>g
  <2>6. BackupReady' /\ Shaped(backup')
    BY <2>1, ZeroShaped DEF BackupReady
  <2>. QED BY <2>1, <2>3, <2>4, <2>5, <2>6
         DEF RunOfPhase, MemStaged, NewDesc, WrittenAt, InvalidWhileUpdating,
             StagedInBackup, OsiiHeld, InvalidateBacked, RestoreCopied,
             UpdatePhases, StitchPhases, SignedPlaced, StageAt
<1>9. CASE StitchPrepare
  <2>. DEFINE N == inv.update
              new == NewOSII(inv.image, primary, N)
              tbl == [primary EXCEPT !.num_images = 1, !.desc[N] = new]
  <2>1. N \in UpdateSlots /\ N \in Slots /\ N # POS /\ inv.image \in Images
    BY <1>9 DEF StitchPrepare, PhaseOK, StitchPhases, UpdatePhases, PayloadSlotsOnly
  <2>2. /\ pc = "update_prepare" /\ mem' = tbl /\ osii' = new
        /\ pc' = "update_stage" /\ UNCHANGED <<primary, backup, disk, inv, status>>
    BY <1>9, <2>1 DEF StitchPrepare
  <2>3. /\ tbl.sig = primary.sig /\ tbl.desc[N] = new
        /\ \A s \in Slots \ {N} : tbl.desc[s] = primary.desc[s]
    <3>1. tbl = StagedTable(primary, N, new) /\ primary \in OSIP_header
      BY DEF StagedTable, TypeOK
    <3>2. /\ StagedTable(primary, N, new).sig = primary.sig
          /\ StagedTable(primary, N, new).desc[N] = new
          /\ \A s \in Slots \ {N} : StagedTable(primary, N, new).desc[s] = primary.desc[s]
      BY <2>1, <3>1, SetSlotFacts
    <3>. QED BY <3>1, <3>2
  <2>4. /\ new.logical_start_block = primary.desc[N].logical_start_block
        /\ Bootable(new)
    BY <2>1 DEF NewOSII, Bootable, BootableImages
  <2>5. new.logical_start_block \in {InitLsb(N), 0}
    BY <2>1, <2>4 DEF Shaped
  <2>6. Shaped(tbl)
    <3>1. \A s \in Slots \ UpdateSlots : Bootable(tbl.desc[s]) => tbl.desc[s] = InitPrimary.desc[s]
      BY <2>1, <2>3 DEF Shaped
    <3>2. \A m \in UpdateSlots : tbl.desc[m].logical_start_block \in {InitLsb(m), 0}
      BY <2>1, <2>3, <2>5 DEF OneSlot
    <3>. QED BY <3>1, <3>2 DEF Shaped
  <2>7. RunOfPhase' /\ BackupReady'
    BY <2>2 DEF RunOfPhase, BackupReady, RestoreReady, UpdatePhases, StitchPhases
  <2>8. primary.sig = OSIP_SIG => Good(disk, primary)
    BY <1>g
  <2>9. StageAt'
    BY <2>1, <2>2, <2>4 DEF StageAt, SignedPlaced
  <2>. QED BY <2>2, <2>3, <2>4, <2>5, <2>6, <2>7, <2>8, <2>9
         DEF MemStaged, NewDesc, WrittenAt, DiskInv, Signed, KeptOn,
             BackupWhenInvalid, InvalidWhileUpdating, StagedInBackup, OsiiHeld,
             InvalidateBacked, RestoreCopied, UpdatePhases, StitchPhases, SignedPlaced, StageAt
<1>10. CASE StitchStagePrimary
  <2>. DEFINE N == inv.update
  <2>1. /\ pc = "update_stage" /\ backup.sig # OSIP_SIG
        /\ primary' \in {mem, primary} /\ pc' = "payload_write"
        /\ UNCHANGED <<backup, disk, inv, status, mem, osii>>
    BY <1>10 DEF StitchStagePrimary, BackupCallsSeen
  <2>2. N \in UpdateSlots
    BY <2>1 DEF PhaseOK, StitchPhases, UpdatePhases
  <2>3. primary.sig # OSIP_SIG
    BY <2>1, <2>2 DEF InvalidWhileUpdating, BackupWhenInvalid, UpdatePhases, StitchPhases
  <2>4. primary'.sig # OSIP_SIG /\ Shaped(primary')
    BY <2>1, <2>3 DEF MemStaged
  <2>5. RunOfPhase' /\ BackupReady'
    BY <2>1 DEF RunOfPhase, BackupReady, UpdatePhases, StitchPhases
  <2>. QED BY <2>1, <2>4, <2>5
         DEF MemStaged, NewDesc, WrittenAt, DiskInv, Signed,
             BackupWhenInvalid, InvalidWhileUpdating, StagedInBackup, OsiiHeld,
             InvalidateBacked, RestoreCopied, SignedPlaced, StageAt
<1>11. CASE StitchStageBackup
  <2>. DEFINE N == inv.update
  <2>1. /\ pc = "update_stage" /\ backup.sig = OSIP_SIG
        /\ backup' = [backup EXCEPT !.desc[N] = osii] /\ pc' = "payload_write"
        /\ UNCHANGED <<primary, disk, inv, status, mem, osii>>
    BY <1>11 DEF StitchStageBackup, BackupCallsSeen
  <2>2. N \in UpdateSlots /\ N \in Slots
    BY <2>1 DEF PhaseOK, StitchPhases, UpdatePhases
  <2>3. /\ backup'.sig = backup.sig /\ backup'.desc[N] = osii
        /\ \A s \in Slots \ {N} : backup'.desc[s] = backup.desc[s]
    <3>1. backup' = EntryWritten(backup, N, osii) /\ backup \in OSIP_header
      BY <2>1 DEF EntryWritten, TypeOK
    <3>. QED BY <2>2, <3>1, SetSlotFacts
  <2>4. osii.logical_start_block \in {InitLsb(N), 0}
    BY <2>1 DEF NewDesc
  <2>5. Shaped(backup')
    <3>1. \A s \in Slots \ UpdateSlots : Bootable(backup'.desc[s]) => backup'.desc[s] = InitPrimary.desc[s]
      BY <2>2, <2>3 DEF Shaped
    <3>2. \A m \in UpdateSlots : backup'.desc[m].logical_start_block \in {InitLsb(m), 0}
      BY <2>2, <2>3, <2>4 DEF OneSlot
    <3>. QED BY <3>1, <3>2 DEF Shaped
  <2>6. RunOfPhase' /\ BackupReady'
    BY <2>1 DEF RunOfPhase, BackupReady, RestoreReady, UpdatePhases, StitchPhases
  <2>7. primary.sig = OSIP_SIG => Good(disk, primary)
    BY <1>g
  <2>. QED BY <2>1, <2>3, <2>5, <2>6, <2>7
         DEF MemStaged, NewDesc, WrittenAt, DiskInv, Signed,
             BackupWhenInvalid, InvalidWhileUpdating, StagedInBackup, OsiiHeld,
             InvalidateBacked, RestoreCopied, UpdatePhases, StitchPhases, SignedPlaced, StageAt
<1>12. CASE StitchWriteBegin
  <2>. DEFINE N == inv.update
              lba == osii.logical_start_block
              cov == Covered(lba, osii.size_of_os_image)
  <2>1. /\ pc = "payload_write" /\ pc' = "payload_sync"
        /\ disk' = [l \in Lbas |-> IF l \in cov THEN Torn ELSE disk[l]]
        /\ UNCHANGED <<inv, status, mem, osii>>
    BY <1>12 DEF StitchWriteBegin
  <2>2. N \in UpdateSlots
    BY <2>1 DEF PhaseOK, StitchPhases, UpdatePhases
  <2>3. RunOfPhase' /\ BackupReady'
    BY <2>1 DEF RunOfPhase, BackupReady, RestoreReady, UpdatePhases, StitchPhases
  <2>4. CASE ClobbersTables(lba) /\ primary' = ZeroTable /\ backup' = ZeroTable
    BY <2>1, <2>3, <2>4, ZeroShaped
       DEF MemStaged, NewDesc, WrittenAt, DiskInv, Signed, BackupWhenInvalid,
           InvalidWhileUpdating, StagedInBackup, OsiiHeld, InvalidateBacked,
           RestoreCopied, SignedPlaced, StageAt
  <2>5. CASE ~ClobbersTables(lba) /\ UNCHANGED <<primary, backup>>
    <3>1. lba = InitLsb(N)
      BY <2>1, <2>5, ClobbersZero DEF NewDesc
    <3>2. cov \subseteq Written
      BY <2>2, <3>1, WriteInside DEF TypeOK
    <3>3. Signed => KeptOn(disk')
      BY <2>1, <3>2, KeptWrite DEF DiskInv
    <3>4. primary.sig = OSIP_SIG => Good(disk', primary)
      <4>1. primary.sig = OSIP_SIG => ~Bootable(primary.desc[N])
        BY <2>1 DEF InvalidWhileUpdating, UpdatePhases, StitchPhases
      <4>2. \A n \in UpdateSlots : n = N
        BY <2>2 DEF OneSlot
      <4>. QED BY <3>3, <4>1, <4>2, GoodTable DEF Signed
    <3>. QED BY <2>1, <2>3, <2>5, <3>1, <3>3, <3>4
             DEF MemStaged, NewDesc, WrittenAt, DiskInv, Signed,
                 BackupWhenInvalid, InvalidWhileUpdating, StagedInBackup,
                 OsiiHeld, InvalidateBacked, RestoreCopied, UpdatePhases, StitchPhases, SignedPlaced, StageAt
  <2>. QED BY <1>12, <2>4, <2>5 DEF StitchWriteBegin
<1>13. CASE StitchWriteEnd
  <2>. DEFINE N == inv.update
              cov == Covered(osii.logical_start_block, osii.size_of_os_image)
  <2>1. /\ pc = "payload_sync" /\ pc' = "verify"
        /\ disk' \in {[l \in Lbas |-> IF l \in cov THEN osii.os_rev ELSE disk[l]], disk}
        /\ UNCHANGED <<primary, backup, inv, status, mem, osii>>
    BY <1>13 DEF StitchWriteEnd
  <2>2. N \in UpdateSlots
    BY <2>1 DEF PhaseOK, StitchPhases, UpdatePhases
  <2>3. RunOfPhase' /\ BackupReady'
    BY <2>1 DEF RunOfPhase, BackupReady, RestoreReady, UpdatePhases, StitchPhases
  <2>4. Signed => KeptOn(disk')
    <3>1. Signed => cov \subseteq Written
      BY <2>1, <2>2, WriteInside DEF WrittenAt, TypeOK
    <3>2. CASE disk' = [l \in Lbas |-> IF l \in cov THEN osii.os_rev ELSE disk[l]]
      BY <3>1, <3>2, KeptWrite DEF DiskInv
    <3>3. CASE disk' = disk
      BY <3>3 DEF DiskInv
    <3>. QED BY <2>1, <3>2, <3>3
  <2>5. primary.sig = OSIP_SIG => Good(disk', primary)
    <3>1. primary.sig = OSIP_SIG => ~Bootable(primary.desc[N])
      BY <2>1 DEF InvalidWhileUpdating, UpdatePhases, StitchPhases
    <3>2. \A n \in UpdateSlots : n = N
      BY <2>2 DEF OneSlot
    <3>. QED BY <2>4, <3>1, <3>2, GoodTable DEF Signed
  <2>. QED BY <2>1, <2>3, <2>4, <2>5
           DEF MemStaged, NewDesc, WrittenAt, DiskInv, Signed,
               BackupWhenInvalid, InvalidWhileUpdating, StagedInBackup,
               OsiiHeld, InvalidateBacked, RestoreCopied, UpdatePhases, StitchPhases, SignedPlaced, StageAt
<1>14. CASE CheckImageValid
  <2>1. /\ pc = "verify" /\ UNCHANGED <<primary, backup, disk, inv, mem, osii>>
    BY <1>14 DEF CheckImageValid
  <2>2. CASE HoldsImage(osii) /\ Goto("update_handle")
    <3>1. pc' = "update_handle" /\ status' = "running"
      BY <2>1, <2>2 DEF Goto, RunOfPhase
    <3>2. OsiiHeld'
      BY <2>1, <2>2, <3>1 DEF OsiiHeld, HoldsImage, HoldsOn
    <3>3. RunOfPhase' /\ BackupReady'
      BY <2>1, <3>1 DEF RunOfPhase, BackupReady, RestoreReady, UpdatePhases, StitchPhases
    <3>4. primary.sig = OSIP_SIG => Good(disk, primary)
      BY <1>g
    <3>. QED BY <2>1, <3>1, <3>2, <3>3, <3>4
             DEF MemStaged, NewDesc, WrittenAt, DiskInv, Signed, KeptOn,
                 BackupWhenInvalid, InvalidWhileUpdating, StagedInBackup,
                 InvalidateBacked, RestoreCopied, UpdatePhases, StitchPhases, SignedPlaced, StageAt
  <2>3. CASE ~HoldsImage(osii) /\ Fail
    BY <2>1, <2>3, <1>q DEF Fail
  <2>. QED BY <1>14, <2>2, <2>3 DEF CheckImageValid
<1>15. CASE UpdateHandle
  <2>. DEFINE N == inv.update
              f == inv.fields
              upd == UpdatedTable(primary, N, f)
              zup == UpdatedTable(ZeroTable, N, f)
  <2>1. /\ pc = "update_handle" /\ pc' = "idle" /\ status' = "ok"
        /\ primary' \in {upd, zup}
        /\ UNCHANGED <<backup, disk, inv, mem, osii>>
    BY <1>15 DEF UpdateHandle, Goto, AfterUpdate, RunOfPhase, UpdatePhases
  <2>2. N \in UpdateSlots /\ N \in Slots /\ f \in Fields /\ primary \in OSIP_header
    BY <2>1 DEF PhaseOK, UpdatePhases, TypeOK, Invocations, Invocation
  <2>3. \A m \in UpdateSlots : m = N
    BY <2>2 DEF OneSlot
  <2>4. /\ upd.sig = primary.sig
        /\ Bootable(upd.desc[N]) <=> Bootable(primary.desc[N])
        /\ \A s \in Slots \ {N} : upd.desc[s] = primary.desc[s]
        /\ upd.desc[N].logical_start_block = primary.desc[N].logical_start_block
        /\ zup.sig = ZeroTable.sig
    <3>1. SlotFieldsKept
      BY DEF ProcedureConditions
    <3>2. /\ upd.sig = primary.sig
          /\ Bootable(upd.desc[N]) <=> Bootable(primary.desc[N])
          /\ \A s \in Slots \ {N} : upd.desc[s] = primary.desc[s]
          /\ upd.desc[N].logical_start_block = primary.desc[N].logical_start_block
      BY <2>2, <3>1, UpdatedKeeps
    <3>3. zup.sig = ZeroTable.sig
      BY <2>2, <3>1, ZeroTypes, UpdatedKeeps
    <3>. QED BY <3>2, <3>3
  <2>5. Shaped(primary')
    BY <2>1, <2>2, ZeroTypes, ZeroShaped, UpdatedShaped
  <2>6. primary'.sig = OSIP_SIG =>
          primary' = upd /\ primary.sig = OSIP_SIG /\ ~Bootable(primary.desc[N])
    BY <2>1, <2>4, ZeroShaped DEF InvalidWhileUpdating, UpdatePhases
  <2>7. primary'.sig = OSIP_SIG => Good(disk', primary')
    <3>1. primary.sig = OSIP_SIG => Good(disk, primary)
      BY <1>g
    <3>. QED BY <2>1, <2>4, <2>6, <3>1 DEF Good
  <2>8. BackupWhenInvalid' /\ DiskInv'
    BY <2>1, <2>2, <2>6 DEF BackupWhenInvalid, DiskInv, Signed
  <2>9. BackupReady'
    <3>1. backup.sig = OSIP_SIG =>
            /\ backup.desc[N] = osii /\ Bootable(osii) /\ HoldsOn(disk, osii)
            /\ osii.logical_start_block = InitLsb(N)
      BY <2>1 DEF StagedInBackup, NewDesc, OsiiHeld, WrittenAt, Signed
    <3>. QED BY <2>1, <2>3, <3>1 DEF BackupReady
  <2>10. SignedPlaced'
    BY <2>3, <2>4, <2>6 DEF SignedPlaced
  <2>. QED BY <2>1, <2>5, <2>7, <2>8, <2>9, <2>10
           DEF RunOfPhase, MemStaged, NewDesc, WrittenAt, InvalidWhileUpdating,
               StagedInBackup, OsiiHeld, InvalidateBacked, RestoreCopied,
               UpdatePhases, StitchPhases, SignedPlaced, StageAt
<1>17. CASE InvalidateHandle
  <2>1. /\ pc = "invalidate" /\ UNCHANGED <<backup, disk, inv, mem, osii>>
    BY <1>17 DEF InvalidateHandle
  <2>2. CASE AllFound(primary, inv.inval)
             /\ primary' = InvalidateTable(primary, inv.inval) /\ Goto("idle")
    <3>1. pc' = "idle" /\ status' = "ok" /\ inv.update = NoSlot /\ ~inv.restore
      BY <2>1, <2>2 DEF Goto, RunOfPhase
    <3>2. primary \in OSIP_header
      BY DEF TypeOK
    <3>3. /\ Shaped(primary')
          /\ primary'.sig = primary.sig
          /\ (Good(disk, primary) => Good(disk, primary'))
      BY <2>2, <3>2, InvalidateGood
    <3>4. primary.sig = OSIP_SIG => Good(disk, primary)
      BY <1>g
    <3>5. BackupWhenInvalid' /\ DiskInv' /\ BackupReady'
      BY <2>1, <3>1, <3>3 DEF BackupWhenInvalid, InvalidateBacked, DiskInv, Signed,
                              BackupReady, RestoreReady
    <3>6. SignedPlaced'
      <4>1. \A m \in Slots : primary'.desc[m].logical_start_block
                               = primary.desc[m].logical_start_block
        BY <2>2, <3>2, InvalidateKeeps
      <4>. QED BY <3>3, <4>1 DEF SignedPlaced
    <3>. QED BY <2>1, <3>1, <3>3, <3>4, <3>5, <3>6
             DEF RunOfPhase, MemStaged, NewDesc, WrittenAt, InvalidWhileUpdating,
                 StagedInBackup, OsiiHeld, InvalidateBacked, RestoreCopied,
                 UpdatePhases, StitchPhases, SignedPlaced, StageAt
  <2>3. CASE ~AllFound(primary, inv.inval) /\ Fail /\ UNCHANGED primary
    BY <2>1, <2>3, <1>q DEF Fail
  <2>. QED BY <1>17, <2>2, <2>3 DEF InvalidateHandle
<1>. QED BY <1>1, <1>2, <1>3, <1>4, <1>5, <1>6, <1>7, <1>8, <1>9, <1>10,
            <1>11, <1>12, <1>13, <1>14, <1>15, <1>16, <1>17, <1>18
         DEF ProcNext, Step

-----------------------------------------------------------------------------
\* Run the way the usage text asks (prepare, update, restore), with
\* crashes and failing device calls anywhere, update_osip never leaves a
\* signed primary whose bootable slot lies over blocks that do not hold
\* its image; on an operator who updates one payload slot that the
\* primary and the provisioned image both boot, with write_stitch_image's
\* backup read and backup entry write checked and no -l, -a or -e.
THEOREM NoTornBootSafe ==
    ASSUME PayloadSlotsOnly, OneSlot, BackupCallsSeen, SlotFieldsKept,
           BootableImages, SlotsApart
    PROVE  ProcSpec => []NoTornBoot
<1>1. ProcedureConditions
  BY DEF ProcedureConditions
<1>2. Init => ProcInv
  BY <1>1, ProcInit
<1>3. ProcInv /\ [ProcNext]_vars => ProcInv'
  BY <1>1, ProcStep
<1>4. ProcInv => NoTornBoot
  BY DEF ProcInv
<1>. QED BY <1>2, <1>3, <1>4, PTL DEF ProcSpec

-----------------------------------------------------------------------------
(* The payload write spares the slots the primary boots.                  *)

\* Only write_stitch_image's payload write changes blocks.
LEMMA DiskSteps ==
    [ProcNext]_vars => disk' = disk \/ StitchWriteBegin \/ StitchWriteEnd
BY DEF ProcNext, Step, Start, device, IoError, Crash, BackupHandle,
       RestoreRefused, RestoreWritePrimary, RestoreZeroBackup, StitchReject,
       StitchPrepare, StitchStagePrimary, StitchStageBackup, CheckImageValid,
       UpdateHandle, InvalidateRefused, InvalidateHandle, vars

LEMMA SparesStep ==
    ASSUME ProcedureConditions
    PROVE  ProcInv /\ [ProcNext]_vars => SparesBootable
<1> SUFFICES ASSUME ProcInv, [ProcNext]_vars, primary.sig = OSIP_SIG,
                    NEW s \in Slots, Bootable(primary.desc[s]),
                    NEW l \in Covered(primary.desc[s].logical_start_block,
                                      primary.desc[s].size_of_os_image)
             PROVE  disk'[l] = disk[l]
  BY DEF SparesBootable
<1>1. CASE disk' = disk
  BY <1>1
<1>2. CASE StitchWriteBegin \/ StitchWriteEnd
  <2>. DEFINE N == inv.update
              cov == Covered(osii.logical_start_block, osii.size_of_os_image)
  <2>1. /\ pc \in {"payload_write", "payload_sync"}
        /\ disk' \in {[m \in Lbas |-> IF m \in cov THEN Torn ELSE disk[m]],
                      [m \in Lbas |-> IF m \in cov THEN osii.os_rev ELSE disk[m]],
                      disk}
    BY <1>2 DEF StitchWriteBegin, StitchWriteEnd
  <2>2. N \in UpdateSlots /\ TypeOK
    BY <2>1 DEF ProcInv, TypeInv, PhaseOK, StitchPhases, UpdatePhases
  <2>3. osii.logical_start_block = InitLsb(N)
    BY <2>1 DEF ProcInv, StageAt, WrittenAt, Signed
  <2>4. cov \subseteq Written
    BY <2>2, <2>3, WriteInside DEF TypeOK
  <2>5. s \notin UpdateSlots
    <3>1. ~Bootable(primary.desc[N])
      BY <2>1 DEF ProcInv, InvalidWhileUpdating, UpdatePhases, StitchPhases
    <3>. QED BY <2>2, <3>1 DEF ProcedureConditions, OneSlot
  <2>6. primary.desc[s] = InitPrimary.desc[s]
    BY <2>5 DEF ProcInv, Shaped
  <2>7. l \in Lbas /\ l \notin Written
    <3>1. l \in InitCovered(s) /\ Bootable(InitPrimary.desc[s])
      BY <2>6 DEF InitCovered, InitLsb
    <3>2. \A n \in UpdateSlots : l \notin Region(n)
      BY <2>5, <3>1 DEF ProcedureConditions, SlotsApart
    <3>. QED BY <3>1, <3>2 DEF Written, InitCovered, Covered
  <2>. QED BY <2>1, <2>4, <2>7
<1>. QED BY <1>1, <1>2, DiskSteps

\* Run the way the usage text asks, under the conditions of NoTornBootSafe,
\* update_osip writes a payload only to blocks that no slot of the signed
\* primary boots from: the invalidated slot's own region, apart from every
\* other image.
THEOREM PayloadSparesBootableSafe ==
    ASSUME PayloadSlotsOnly, OneSlot, BackupCallsSeen, SlotFieldsKept,
           BootableImages, SlotsApart
    PROVE  ProcSpec => PayloadSparesBootable
<1>1. ProcedureConditions
  BY DEF ProcedureConditions
<1>2. Init => ProcInv
  BY <1>1, ProcInit
<1>3. ProcInv /\ [ProcNext]_vars => ProcInv'
  BY <1>1, ProcStep
<1>4. ProcInv /\ [ProcNext]_vars => [SparesBootable]_vars
  BY <1>1, SparesStep
<1>. QED BY <1>2, <1>3, <1>4, PTL DEF ProcSpec, PayloadSparesBootable
=============================================================================
