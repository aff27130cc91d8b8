--------------------------- MODULE OsipDeviceProofs ---------------------------
(***************************************************************************)
(* Proofs about OsipDevice for every value of its constants.               *)
(***************************************************************************)
EXTENDS OsipDevice, TLAPS

USE ConstantsAssumption DEF write_OSIP, Ignored

\* The phases of write_stitch_image.
StitchPhases == {"update_prepare", "update_stage", "payload_write", "payload_sync", "verify"}

\* The phases of the --update branch of main.
UpdatePhases == StitchPhases \cup {"update_handle"}

\* write_stitch_image only runs with a slot and an image to flash,
\* update_handle with a slot.
PhaseOK ==
    /\ pc \in UpdatePhases => inv.update \in UpdateSlots
    /\ pc \in StitchPhases => inv.image \in Images

TypeInv == TypeOK /\ PhaseOK

LEMMA ZeroTypes == ZeroOSII \in OSII /\ ZeroTable \in OSIP_header
BY DEF ZeroOSII, ZeroTable, OSII, OSIP_header, Lbas

LEMMA InvalidOSIIType ==
    ASSUME NEW d \in OSII PROVE InvalidOSII(d) \in OSII
BY DEF InvalidOSII, ZeroOSII, OSII

LEMMA InvalidateTableType ==
    ASSUME NEW t \in OSIP_header, NEW args \in Seq(Nat)
    PROVE  InvalidateTable(t, args) \in OSIP_header
<1>1. \A j \in Slots : t.desc[j] \in OSII
  BY DEF OSIP_header
<1>. QED BY <1>1, InvalidOSIIType DEF InvalidateTable, OSIP_header

LEMMA DeviceSizeType ==
    ASSUME NEW img \in Images PROVE DeviceSize(img) \in 0 .. MaxSize
<1>1. Wrap23(img.desc.size_of_os_image) \in 0 .. MaxSize
  OBVIOUS
<1>2. DeviceSize(img) = Wrap23(img.desc.size_of_os_image)
  BY <1>1 DEF DeviceSize, get_page_size, MMC_PAGE_SIZE, STITCHED_IMAGE_PAGE_SIZE
<1>. QED BY <1>1, <1>2

LEMMA NewOSIIType ==
    ASSUME NEW img \in Images, NEW t \in OSIP_header, NEW n \in Slots
    PROVE  NewOSII(img, t, n) \in OSII
<1>1. img \in StitchedImage
  OBVIOUS
<1>2. t.desc[n] \in OSII
  BY DEF OSIP_header
<1>. QED BY <1>1, <1>2, DeviceSizeType DEF NewOSII, OSII, StitchedImage

\* Setting one descriptor of a table (and its image count) keeps the
\* table well formed.
LEMMA SetSlotType ==
    ASSUME NEW t \in OSIP_header, NEW n \in Slots, NEW d \in OSII
    PROVE  /\ [t EXCEPT !.num_images = 1, !.desc[n] = d] \in OSIP_header
           /\ [t EXCEPT !.desc[n] = d] \in OSIP_header
<1>. DEFINE nd == [t.desc EXCEPT ![n] = d]
<1>1. t.desc \in [Slots -> OSII] /\ t.sig \in {OSIP_SIG, 0} /\ t.num_images \in 0 .. 255
  BY DEF OSIP_header
<1>2. nd \in [Slots -> OSII]
  BY <1>1
<1>3. [t EXCEPT !.desc[n] = d] = [t EXCEPT !.desc = nd]
  OBVIOUS
<1>4. [t EXCEPT !.num_images = 1, !.desc[n] = d]
        = [[t EXCEPT !.num_images = 1] EXCEPT !.desc = nd]
  OBVIOUS
<1>5. [t EXCEPT !.desc = nd] \in OSIP_header
  BY <1>1, <1>2 DEF OSIP_header
<1>6. [t EXCEPT !.num_images = 1] \in OSIP_header
  <2>1. 1 \in 0 .. 255
    OBVIOUS
  <2>. QED BY <1>1, <2>1 DEF OSIP_header
<1>7. [[t EXCEPT !.num_images = 1] EXCEPT !.desc = nd] \in OSIP_header
  BY <1>2, <1>6 DEF OSIP_header
<1>. QED BY <1>3, <1>4, <1>5, <1>7

\* The options update_handle applies keep a descriptor well formed.
LEMMA OverrideOSIIType ==
    ASSUME NEW d \in OSII, NEW f \in Fields
    PROVE  OverrideOSII(d, f) \in OSII
<1>1. f \in FieldArgs
  BY FieldsAssumption
<1>2. Set8(f.attr) => f.attr % 256 \in Attrs
  BY <1>1, FieldsAssumption DEF Set8
<1>. QED BY <1>1, <1>2 DEF OverrideOSII, OSII, FieldArgs, Set16, Set32

LEMMA UpdatedTableType ==
    ASSUME NEW t \in OSIP_header, NEW n \in Slots, NEW f \in Fields
    PROVE  UpdatedTable(t, n, f) \in OSIP_header
<1>1. t.desc[n] \in OSII
  BY DEF OSIP_header
<1>. QED BY <1>1, OverrideOSIIType, SetSlotType DEF UpdatedTable

LEMMA InvocationsNonEmpty == Invocations # {}
<1>. PICK a \in InvalArgs : TRUE
  OBVIOUS
<1>. DEFINE w == [backup |-> TRUE, restore |-> FALSE, update |-> NoSlot,
                  image |-> NoImage, inval |-> a, fields |-> NoFields]
<1>1. w \in Invocations
  BY FieldsAssumption DEF Invocations, Invocation
<1>. QED BY <1>1

LEMMA InitDiskType == InitDisk \in [Lbas -> Content]
<1>1. \A s \in Slots : InitPrimary.desc[s].os_rev \in {0} \cup Revs
  BY DEF OSIP_header, OSII
<1>. QED BY <1>1 DEF InitDisk, Content

\* Where each phase of main leads: never into update_prepare without a
\* slot and an image, always to a phase of Phases.
LEMMA PhaseOrder ==
    ASSUME NEW i \in Invocations
    PROVE  /\ FirstPhase(i) \in Phases /\ AfterBackup(i) \in Phases
           /\ AfterRestore(i) \in Phases /\ AfterUpdate(i) \in Phases
           /\ FirstPhase(i) \in StitchPhases => i.update \in UpdateSlots /\ i.image \in Images
           /\ AfterBackup(i) \in StitchPhases => i.update \in UpdateSlots /\ i.image \in Images
           /\ AfterRestore(i) \in StitchPhases => i.update \in UpdateSlots /\ i.image \in Images
           /\ FirstPhase(i) \in UpdatePhases => i.update \in UpdateSlots
           /\ AfterBackup(i) \in UpdatePhases => i.update \in UpdateSlots
           /\ AfterRestore(i) \in UpdatePhases => i.update \in UpdateSlots
           /\ AfterUpdate(i) \notin UpdatePhases
BY DEF Invocations, Invocation, FirstPhase, AfterBackup, AfterRestore,
       AfterUpdate, Phases, StitchPhases, UpdatePhases

LEMMA TypeInit == Init => TypeInv
BY ZeroTypes, InitDiskType, InvocationsNonEmpty
   DEF Init, TypeInv, TypeOK, PhaseOK, Phases, StitchPhases, UpdatePhases

LEMMA TypeStep == TypeInv /\ [Next]_vars => TypeInv'
<1> SUFFICES ASSUME TypeInv, [Next]_vars PROVE TypeInv'
  OBVIOUS
<1>. USE DEF TypeInv, TypeOK, PhaseOK
<1>1. CASE \E i \in Invocations : Start(i)
  <2>1. PICK i \in Invocations : Start(i)
    BY <1>1
  <2>. QED BY <2>1, ZeroTypes, PhaseOrder DEF Start, device, UpdatePhases
<1>2. CASE IoError
  BY <1>2 DEF IoError, Fail, Phases, StitchPhases, UpdatePhases
<1>3. CASE Crash
  BY <1>3 DEF Crash, Phases, StitchPhases, UpdatePhases
<1>4. CASE BackupHandle
  BY <1>4, PhaseOrder DEF BackupHandle, Goto, Phases, StitchPhases, UpdatePhases
<1>5. CASE RestoreRefused
  BY <1>5 DEF RestoreRefused, Fail, Phases, StitchPhases, UpdatePhases
<1>6. CASE RestoreWritePrimary
  BY <1>6 DEF RestoreWritePrimary, Phases, StitchPhases, UpdatePhases
<1>7. CASE RestoreZeroBackup
  BY <1>7, ZeroTypes, PhaseOrder DEF RestoreZeroBackup, Goto, Phases, StitchPhases, UpdatePhases
<1>8. CASE StitchReject
  BY <1>8 DEF StitchReject, Fail, Phases, StitchPhases, UpdatePhases
<1>9. CASE StitchPrepare
  <2>. DEFINE n == inv.update
              new == NewOSII(inv.image, primary, n)
  <2>1. n \in Slots /\ inv.image \in Images
    BY <1>9 DEF StitchPrepare, StitchPhases, UpdatePhases
  <2>2. new \in OSII
    BY <2>1, NewOSIIType
  <2>3. [primary EXCEPT !.num_images = 1, !.desc[n] = new] \in OSIP_header
    BY <2>1, <2>2, SetSlotType
  <2>. QED BY <1>9, <2>2, <2>3 DEF StitchPrepare, Phases, StitchPhases, UpdatePhases
<1>10. CASE StitchStagePrimary
  BY <1>10 DEF StitchStagePrimary, Phases, StitchPhases, UpdatePhases
<1>11. CASE StitchStageBackup
  <2>1. inv.update \in Slots
    BY <1>11 DEF StitchStageBackup, StitchPhases, UpdatePhases
  <2>2. [backup EXCEPT !.desc[inv.update] = osii] \in OSIP_header
    BY <2>1, SetSlotType
  <2>. QED BY <1>11, <2>2 DEF StitchStageBackup, Phases, StitchPhases, UpdatePhases
<1>12. CASE StitchWriteBegin
  BY <1>12, ZeroTypes DEF StitchWriteBegin, Content, Phases, StitchPhases, UpdatePhases
<1>13. CASE StitchWriteEnd
  <2>1. osii.os_rev \in Content
    BY DEF OSII, Content
  <2>. QED BY <1>13, <2>1 DEF StitchWriteEnd, Phases, StitchPhases, UpdatePhases
<1>14. CASE CheckImageValid
  BY <1>14 DEF CheckImageValid, Goto, Fail, Phases, StitchPhases, UpdatePhases
<1>15. CASE UpdateHandle
  <2>1. inv.update \in Slots /\ inv.fields \in Fields
    BY <1>15 DEF UpdateHandle, UpdatePhases, Invocations, Invocation
  <2>2. /\ UpdatedTable(primary, inv.update, inv.fields) \in OSIP_header
        /\ UpdatedTable(ZeroTable, inv.update, inv.fields) \in OSIP_header
    BY <2>1, ZeroTypes, UpdatedTableType
  <2>. QED BY <1>15, <2>2, PhaseOrder
         DEF UpdateHandle, Goto, Phases, StitchPhases, UpdatePhases
<1>16. CASE InvalidateRefused
  BY <1>16 DEF InvalidateRefused, Fail, Phases, StitchPhases, UpdatePhases
<1>17. CASE InvalidateHandle
  <2>1. inv.inval \in Seq(Nat)
    BY DEF Invocations, Invocation
  <2>. QED BY <1>17, <2>1, InvalidateTableType DEF InvalidateHandle, Goto, Fail, Phases, StitchPhases, UpdatePhases
<1>18. CASE UNCHANGED vars
  BY <1>18 DEF vars
<1>. QED BY <1>1, <1>2, <1>3, <1>4, <1>5, <1>6, <1>7, <1>8, <1>9, <1>10,
            <1>11, <1>12, <1>13, <1>14, <1>15, <1>16, <1>17, <1>18
         DEF Next, Step

-----------------------------------------------------------------------------
(* The primary keeps its signature.                                        *)

\* No slot an operator may update starts where its payload would overwrite
\* the tables (the condition osip_utils.c line 155 never checks).
NoClobber ==
    \A n \in UpdateSlots : ~ClobbersTables(InitPrimary.desc[n].logical_start_block)

\* update_handle's read of the primary, whose result line 409 ignores,
\* succeeds; every other ignored call may fail.
UpdateReadSucceeds == "update_read" \notin UncheckedCalls

\* No --update run passes an explicit -l option, the one main's comment
\* (update_osip.c line 54) says should not change the block.
LbaKept == \A f \in Fields : ~Set32(f.lba)

\* Every slot of table t sits at its provisioned logical_start_block.
Placed(t) ==
    \A s \in Slots : t.desc[s].logical_start_block
                        = InitPrimary.desc[s].logical_start_block

\* The inductive invariant: write_stitch_image's local table is a signed copy
\* of the primary in place, and its new descriptor sits at the slot's
\* provisioned block, until both have been written.
SigInv ==
    /\ TypeInv
    /\ primary.sig = OSIP_SIG /\ Placed(primary)
    /\ backup.sig = OSIP_SIG => Placed(backup)
    /\ pc = "update_stage" => mem.sig = OSIP_SIG /\ Placed(mem)
    /\ pc \in {"update_stage", "payload_write"} =>
         /\ inv.update \in UpdateSlots
         /\ osii.logical_start_block
              = InitPrimary.desc[inv.update].logical_start_block

\* invalidate_handle keeps the signature and every logical_start_block.
LEMMA InvalidatePlaced ==
    ASSUME NEW t \in OSIP_header, NEW args \in Seq(Nat), Placed(t)
    PROVE  /\ InvalidateTable(t, args).sig = t.sig
           /\ Placed(InvalidateTable(t, args))
<1>1. \A j \in Slots : t.desc[j] \in OSII
  BY DEF OSIP_header
<1>2. \A j \in Slots : InvalidOSII(t.desc[j]).logical_start_block
                         = t.desc[j].logical_start_block
  BY <1>1 DEF InvalidOSII, ZeroOSII, OSII
<1>. QED BY <1>2 DEF InvalidateTable, Placed, OSIP_header

LEMMA SigInit == Init => SigInv
<1> SUFFICES ASSUME Init PROVE SigInv
  OBVIOUS
<1>1. TypeInv
  BY TypeInit
<1>2. ZeroTable.sig # OSIP_SIG
  BY DEF ZeroTable, OSIP_SIG
<1>. QED BY <1>1, <1>2 DEF Init, SigInv, Placed

LEMMA SigStep ==
    NoClobber /\ UpdateReadSucceeds /\ LbaKept /\ SigInv /\ [Next]_vars => SigInv'
<1> SUFFICES ASSUME NoClobber, UpdateReadSucceeds, LbaKept, SigInv, [Next]_vars
             PROVE SigInv'
  OBVIOUS
<1>0. TypeInv'
  BY TypeStep DEF SigInv
<1>. USE DEF SigInv
<1>1. CASE \E i \in Invocations : Start(i)
  <2>1. PICK i \in Invocations : Start(i)
    BY <1>1
  <2>2. FirstPhase(i) \notin {"update_stage", "payload_write"}
    BY DEF FirstPhase, AfterBackup, AfterRestore, AfterUpdate
  <2>. QED BY <1>0, <2>1, <2>2 DEF Start, device, Placed
<1>2. CASE IoError
  BY <1>0, <1>2 DEF IoError, Fail, Placed
<1>3. CASE Crash
  BY <1>0, <1>3 DEF Crash, Placed
<1>4. CASE BackupHandle
  <2>1. AfterBackup(inv) \notin {"update_stage", "payload_write"}
    BY DEF AfterBackup, AfterRestore, AfterUpdate
  <2>. QED BY <1>0, <1>4, <2>1 DEF BackupHandle, Goto, Placed
<1>5. CASE RestoreRefused
  BY <1>0, <1>5 DEF RestoreRefused, Fail, Placed
<1>6. CASE RestoreWritePrimary
  BY <1>0, <1>6 DEF RestoreWritePrimary, Placed
<1>7. CASE RestoreZeroBackup
  <2>1. AfterRestore(inv) \notin {"update_stage", "payload_write"}
    BY DEF AfterRestore, AfterUpdate
  <2>2. ZeroTable.sig # OSIP_SIG
    BY DEF ZeroTable, OSIP_SIG
  <2>. QED BY <1>0, <1>7, <2>1, <2>2 DEF RestoreZeroBackup, Goto, Placed
<1>8. CASE StitchReject
  BY <1>0, <1>8 DEF StitchReject, Fail, Placed
<1>9. CASE StitchPrepare
  <2>. DEFINE n == inv.update
              new == NewOSII(inv.image, primary, n)
              tbl == [primary EXCEPT !.num_images = 1, !.desc[n] = new]
  <2>1. n \in UpdateSlots /\ n \in Slots
    BY <1>9 DEF StitchPrepare, TypeInv, PhaseOK, StitchPhases, UpdatePhases
  <2>2. new.logical_start_block = InitPrimary.desc[n].logical_start_block
    BY <2>1 DEF NewOSII, Placed
  <2>3. primary.desc \in [Slots -> OSII]
    BY DEF TypeInv, TypeOK, OSIP_header
  <2>4. tbl.sig = OSIP_SIG /\ Placed(tbl)
    BY <2>1, <2>2, <2>3 DEF Placed
  <2>. QED BY <1>0, <1>9, <2>1, <2>2, <2>4 DEF StitchPrepare, Placed
<1>10. CASE StitchStagePrimary
  BY <1>0, <1>10 DEF StitchStagePrimary, Placed
<1>11. CASE StitchStageBackup
  <2>1. backup.desc \in [Slots -> OSII] /\ inv.update \in Slots
    BY <1>11 DEF StitchStageBackup, TypeInv, TypeOK, OSIP_header
  <2>2. Placed([backup EXCEPT !.desc[inv.update] = osii])
    BY <1>11, <2>1 DEF StitchStageBackup, Placed
  <2>. QED BY <1>0, <1>11, <2>2 DEF StitchStageBackup
<1>12. CASE StitchWriteBegin
  <2>1. ~ClobbersTables(osii.logical_start_block)
    BY <1>12 DEF StitchWriteBegin, NoClobber
  <2>. QED BY <1>0, <1>12, <2>1 DEF StitchWriteBegin, Placed
<1>13. CASE StitchWriteEnd
  BY <1>0, <1>13 DEF StitchWriteEnd, Placed
<1>14. CASE CheckImageValid
  BY <1>0, <1>14 DEF CheckImageValid, Goto, Fail, Placed
<1>15. CASE UpdateHandle
  <2>1. AfterUpdate(inv) \notin {"update_stage", "payload_write"}
    BY DEF AfterUpdate
  <2>2. inv.update \in Slots /\ inv.fields \in Fields
    BY <1>15 DEF UpdateHandle, TypeInv, PhaseOK, UpdatePhases, TypeOK,
                 Invocations, Invocation
  <2>3. primary.desc \in [Slots -> OSII]
    BY DEF TypeInv, TypeOK, OSIP_header
  <2>4. ~Set32(inv.fields.lba)
    BY <2>2 DEF LbaKept
  <2>5. LET t == UpdatedTable(primary, inv.update, inv.fields)
        IN  t.sig = OSIP_SIG /\ Placed(t)
    BY <2>2, <2>3, <2>4 DEF UpdatedTable, OverrideOSII, Placed
  <2>. QED BY <1>0, <1>15, <2>1, <2>5 DEF UpdateHandle, UpdateReadSucceeds, Goto
<1>16. CASE InvalidateRefused
  BY <1>0, <1>16 DEF InvalidateRefused, Fail, Placed
<1>17. CASE InvalidateHandle
  <2>1. inv.inval \in Seq(Nat) /\ primary \in OSIP_header
    BY DEF Invocations, Invocation, TypeInv, TypeOK
  <2>2. InvalidateTable(primary, inv.inval).sig = OSIP_SIG
        /\ Placed(InvalidateTable(primary, inv.inval))
    BY <2>1, InvalidatePlaced
  <2>. QED BY <1>0, <1>17, <2>2 DEF InvalidateHandle, Goto, Fail
<1>18. CASE UNCHANGED vars
  BY <1>0, <1>18 DEF vars, Placed
<1>. QED BY <1>1, <1>2, <1>3, <1>4, <1>5, <1>6, <1>7, <1>8, <1>9, <1>10,
            <1>11, <1>12, <1>13, <1>14, <1>15, <1>16, <1>17, <1>18
         DEF Next, Step


\* Every state of every behaviour of the tool is well typed: the tables,
\* the disk, main's phase and write_stitch_image's locals stay in range.
THEOREM TypeCorrect == Spec => []TypeOK
<1>1. TypeInv => TypeOK
  BY DEF TypeInv
<1>. QED BY TypeInit, TypeStep, <1>1, PTL DEF Spec
\* On a device where no updatable slot starts inside the first 424 bytes,
\* as long as update_handle's read of the primary does not fail and no
\* run passes -l, the
\* primary table keeps the "$OS$" signature through every sequence of
\* runs, crashes and failed device calls: restore_handle only copies a
\* signed backup (line 316), write_stitch_image only writes a signed copy
\* of the primary (lines 126-148), invalidate_handle keeps the header.
THEOREM PrimarySigSafe ==
    ASSUME NoClobber, UpdateReadSucceeds, LbaKept PROVE Spec => []PrimarySigValid
<1>1. SigInv => PrimarySigValid
  BY DEF SigInv, PrimarySigValid
<1>2. SigInv /\ [Next]_vars => SigInv'
  BY SigStep
<1>. QED BY SigInit, <1>1, <1>2, PTL DEF Spec

\* On such a device, with the same read succeeding and no -l, every slot of the primary, and of a signed backup,
\* keeps the logical_start_block it was provisioned with.
THEOREM PlacementSafe ==
    ASSUME NoClobber, UpdateReadSucceeds, LbaKept PROVE Spec => []PlacementPreserved
<1>1. SigInv => PlacementPreserved
  BY DEF SigInv, PlacementPreserved, Placed
<1>2. SigInv /\ [Next]_vars => SigInv'
  BY SigStep
<1>. QED BY SigInit, <1>1, <1>2, PTL DEF Spec
-----------------------------------------------------------------------------
(* A run that flashed an image exits 0 only with the image on the device. *)

\* ImageVerifiedOnExit strengthened: from a successful check_image_valid on,
\* through update_handle and invalidate_handle, the image's blocks hold it.
Verified ==
    /\ TypeInv
    /\ inv.image # NoImage /\ pc \in {"update_handle", "invalidate"} =>
         HoldsImage(osii)
    /\ ImageVerifiedOnExit

\* A run with --image goes through write_stitch_image before it reaches
\* update_handle, invalidate_handle or the end of main.
LEMMA ImagePhases ==
    ASSUME NEW i \in Invocations, i.image # NoImage
    PROVE  {FirstPhase(i), AfterBackup(i), AfterRestore(i)}
             \cap {"idle", "update_handle", "invalidate"} = {}
BY DEF Invocations, Invocation, FirstPhase, AfterBackup, AfterRestore, AfterUpdate

LEMMA VerifiedInit == Init => Verified
BY TypeInit DEF Init, Verified, ImageVerifiedOnExit

LEMMA VerifiedStep == Verified /\ [Next]_vars => Verified'
<1> SUFFICES ASSUME Verified, [Next]_vars PROVE Verified'
  OBVIOUS
<1>0. TypeInv'
  BY TypeStep DEF Verified
<1> SUFFICES /\ inv'.image # NoImage /\ pc' \in {"update_handle", "invalidate"} =>
                 HoldsImage(osii)'
             /\ ImageVerifiedOnExit'
  BY <1>0 DEF Verified
<1>2. CASE \E i \in Invocations : Start(i)
  <2>1. PICK i \in Invocations : Start(i)
    BY <1>2
  <2>2. i.image # NoImage => FirstPhase(i) \notin {"idle", "update_handle", "invalidate"}
    BY ImagePhases
  <2>. QED BY <2>1, <2>2 DEF Start, ImageVerifiedOnExit
<1>3. CASE IoError \/ Crash \/ RestoreRefused \/ StitchReject \/ InvalidateRefused
  BY <1>3 DEF IoError, Crash, RestoreRefused, StitchReject, InvalidateRefused, Fail,
              ImageVerifiedOnExit
<1>4. CASE BackupHandle \/ RestoreZeroBackup
  <2>1. inv \in Invocations /\ UNCHANGED inv
    BY <1>4 DEF Verified, TypeInv, TypeOK, BackupHandle, RestoreZeroBackup
  <2>2. inv.image # NoImage =>
          /\ AfterBackup(inv) \notin {"idle", "update_handle", "invalidate"}
          /\ AfterRestore(inv) \notin {"idle", "update_handle", "invalidate"}
    BY <2>1, ImagePhases
  <2>3. inv.image = NoImage => ImageVerifiedOnExit'
    BY <2>1 DEF ImageVerifiedOnExit
  <2>. QED BY <1>4, <2>1, <2>2, <2>3 DEF BackupHandle, RestoreZeroBackup, Goto,
                                         ImageVerifiedOnExit
<1>5. CASE RestoreWritePrimary \/ StitchPrepare \/ StitchStagePrimary \/ StitchStageBackup
           \/ StitchWriteBegin \/ StitchWriteEnd
  BY <1>5 DEF RestoreWritePrimary, StitchPrepare, StitchStagePrimary, StitchStageBackup,
              StitchWriteBegin, StitchWriteEnd, ImageVerifiedOnExit
<1>6. CASE CheckImageValid
  BY <1>6 DEF CheckImageValid, Goto, Fail, ImageVerifiedOnExit, HoldsImage
<1>7. CASE UpdateHandle
  <2>1. UNCHANGED <<disk, osii, inv>> /\ pc = "update_handle"
        /\ pc' \in {"invalidate", "idle"}
    BY <1>7 DEF UpdateHandle, Goto, AfterUpdate
  <2>. QED BY <2>1 DEF Verified, ImageVerifiedOnExit, HoldsImage
<1>8. CASE InvalidateHandle
  <2>1. UNCHANGED <<disk, osii, inv>> /\ pc = "invalidate" /\ pc' = "idle"
    BY <1>8 DEF InvalidateHandle, Goto, Fail
  <2>. QED BY <2>1 DEF Verified, ImageVerifiedOnExit, HoldsImage
<1>9. CASE UNCHANGED vars
  BY <1>9 DEF vars, Verified, ImageVerifiedOnExit, HoldsImage
<1>. QED BY <1>2, <1>3, <1>4, <1>5, <1>6, <1>7, <1>8, <1>9 DEF Next, Step

\* For every value of the constants, whichever ignored device calls fail:
\* a run of main with --image that exits 0 leaves the image in the blocks
\* its descriptor names (ImageVerifiedOnExit).  The payload write's -1 is
\* not seen at osip_utils.c line 156, but check_image_valid runs after it
\* and nothing between the check and exit(0) writes a block.
THEOREM ImageVerifiedSafe == Spec => []ImageVerifiedOnExit
<1>1. Verified => ImageVerifiedOnExit
  BY DEF Verified
<1>. QED BY VerifiedInit, VerifiedStep, <1>1, PTL DEF Spec

-----------------------------------------------------------------------------
(* A flashed slot is left describing the image, and its blocks hold it.   *)

\* write_stitch_image's reads and writes of the tables report their
\* failures: the read of the backup (osip_utils.c line 142), the write of
\* the staged table (146) and the backup entry (148).
StagingSeen ==
    UncheckedCalls \cap {"backup_read", "stage_write", "backup_entry_write"} = {}

\* No --update run passes -m/-n or -s, the options that would override the
\* flashed slot's revision or size in update_handle (lines 413-424).
FlashedFieldsKept == \A f \in Fields : ~Set16(f.rev) /\ ~Set32(f.size)

\* Two descriptors name the same image in the same blocks.
SameImage(d, e) ==
    /\ d.os_rev = e.os_rev
    /\ d.logical_start_block = e.logical_start_block
    /\ d.size_of_os_image = e.size_of_os_image

\* From write_stitch_image's prepare step on, its new descriptor names the
\* image; the local table holds it until it is staged, and from then on the
\* staged table's slot names what it names.
FlashTracked ==
    inv.image # NoImage =>
        /\ pc \in {"update_stage", "payload_write", "payload_sync", "verify",
                   "update_handle"} =>
             osii.os_rev = inv.image.desc.os_rev
        /\ pc = "update_stage" => mem.desc[inv.update] = osii
        /\ pc \in {"payload_write", "payload_sync", "verify", "update_handle"} =>
             SameImage(Staged.desc[inv.update], osii)
        /\ pc = "invalidate" => inv.inval # << >>

\* FlashedSlotIntactOnExit strengthened into an inductive invariant.
FlashInv ==
    /\ SigInv
    /\ Verified
    /\ FlashTracked
    /\ FlashedSlotIntactOnExit

LEMMA SameImageHolds ==
    ASSUME NEW d, NEW e, SameImage(d, e) PROVE HoldsImage(d) <=> HoldsImage(e)
BY DEF SameImage, HoldsImage

\* Without -m/-n, -l and -s, update_handle's override keeps the image.
LEMMA OverrideKeepsImage ==
    ASSUME LbaKept, FlashedFieldsKept, NEW d, NEW f \in Fields
    PROVE  SameImage(OverrideOSII(d, f), d)
BY DEF LbaKept, FlashedFieldsKept, OverrideOSII, SameImage

LEMMA FlashInit == Init => FlashInv
<1> SUFFICES ASSUME Init PROVE FlashInv
  OBVIOUS
<1>. QED BY SigInit, VerifiedInit DEF Init, FlashInv, FlashTracked,
                                      FlashedSlotIntactOnExit

LEMMA FlashStep ==
    ASSUME NoClobber, UpdateReadSucceeds, LbaKept, StagingSeen, FlashedFieldsKept
    PROVE  FlashInv /\ [Next]_vars => FlashInv'
<1> SUFFICES ASSUME FlashInv, [Next]_vars PROVE FlashInv'
  OBVIOUS
<1>0. SigInv' /\ Verified' /\ TypeInv /\ TypeInv'
  BY SigStep, VerifiedStep, TypeStep DEF FlashInv, SigInv
<1> SUFFICES FlashTracked' /\ FlashedSlotIntactOnExit'
  BY <1>0 DEF FlashInv
<1>a. TypeOK /\ PhaseOK /\ SigInv /\ Verified /\ FlashTracked
  BY DEF FlashInv, SigInv, TypeInv
<1>. USE <1>a
<1>. DEFINE n == inv.update
<1>1. CASE \E i \in Invocations : Start(i)
  <2>1. PICK i \in Invocations : Start(i)
    BY <1>1
  <2>2. i.image # NoImage =>
          FirstPhase(i) \in {"backup", "restore_primary", "update_prepare"}
    BY DEF Invocations, Invocation, FirstPhase, AfterBackup, AfterRestore
  <2>. QED BY <2>1, <2>2 DEF Start, FlashTracked, FlashedSlotIntactOnExit
<1>2. CASE IoError \/ Crash \/ RestoreRefused \/ StitchReject \/ InvalidateRefused
  BY <1>2 DEF IoError, Crash, RestoreRefused, StitchReject, InvalidateRefused, Fail,
              FlashTracked, FlashedSlotIntactOnExit
<1>3. CASE BackupHandle \/ RestoreWritePrimary \/ RestoreZeroBackup
  <2>1. inv \in Invocations /\ UNCHANGED inv
    BY <1>3 DEF TypeInv, TypeOK, BackupHandle, RestoreWritePrimary, RestoreZeroBackup
  <2>2. inv.image # NoImage =>
          /\ AfterBackup(inv) \in {"restore_primary", "update_prepare"}
          /\ AfterRestore(inv) = "update_prepare"
    BY <2>1 DEF Invocations, Invocation, AfterBackup, AfterRestore
  <2>. QED BY <1>3, <2>1, <2>2 DEF BackupHandle, RestoreWritePrimary, RestoreZeroBackup,
                                  Goto, FlashTracked, FlashedSlotIntactOnExit
<1>4. CASE StitchPrepare
  <2>1. n \in Slots /\ primary \in OSIP_header
    BY <1>4 DEF StitchPrepare, TypeInv, TypeOK, PhaseOK, StitchPhases, UpdatePhases
  <2>. DEFINE new == NewOSII(inv.image, primary, n)
  <2>2. [primary EXCEPT !.num_images = 1, !.desc[n] = new].desc[n] = new
    BY <2>1 DEF OSIP_header
  <2>3. new.os_rev = inv.image.desc.os_rev
    BY DEF NewOSII
  <2>. QED BY <1>4, <2>2, <2>3 DEF StitchPrepare, FlashTracked, FlashedSlotIntactOnExit
<1>5. CASE StitchStagePrimary
  <2>1. primary' = mem /\ backup.sig # OSIP_SIG
    BY <1>5 DEF StitchStagePrimary, StagingSeen
  <2>2. Staged' = mem
    BY <1>5, <2>1 DEF StitchStagePrimary, Staged
  <2>. QED BY <1>5, <2>2 DEF StitchStagePrimary, FlashTracked, FlashedSlotIntactOnExit,
                             SameImage
<1>6. CASE StitchStageBackup
  <2>1. backup' = [backup EXCEPT !.desc[n] = osii] /\ backup.sig = OSIP_SIG
    BY <1>6 DEF StitchStageBackup, StagingSeen
  <2>2. n \in Slots /\ backup \in OSIP_header
    BY <1>6 DEF StitchStageBackup, TypeInv, TypeOK, PhaseOK, StitchPhases, UpdatePhases
  <2>3. Staged'.desc[n] = osii
    BY <1>6, <2>1, <2>2 DEF StitchStageBackup, Staged, OSIP_header
  <2>. QED BY <1>6, <2>3 DEF StitchStageBackup, FlashTracked, FlashedSlotIntactOnExit,
                             SameImage
<1>7. CASE StitchWriteBegin \/ StitchWriteEnd
  <2>1. UNCHANGED <<primary, backup, inv, status, osii>>
    <3>1. CASE StitchWriteBegin
      <4>1. ~ClobbersTables(osii.logical_start_block)
        BY <3>1 DEF StitchWriteBegin, NoClobber, SigInv
      <4>. QED BY <3>1, <4>1 DEF StitchWriteBegin
    <3>2. CASE StitchWriteEnd
      BY <3>2 DEF StitchWriteEnd
    <3>. QED BY <1>7, <3>1, <3>2
  <2>2. pc \in {"payload_write", "payload_sync"} /\ pc' \in {"payload_sync", "verify"}
    BY <1>7 DEF StitchWriteBegin, StitchWriteEnd
  <2>. QED BY <2>1, <2>2 DEF FlashTracked, FlashedSlotIntactOnExit, Staged
<1>8. CASE CheckImageValid
  BY <1>8 DEF CheckImageValid, Goto, Fail, FlashTracked, FlashedSlotIntactOnExit, Staged
<1>9. CASE UpdateHandle
  <2>1. /\ primary' = UpdatedTable(primary, n, inv.fields)
        /\ UNCHANGED <<backup, disk, inv, osii>>
        /\ pc = "update_handle" /\ pc' = AfterUpdate(inv)
        /\ status' = IF AfterUpdate(inv) = "idle" THEN "ok" ELSE status
    BY <1>9 DEF UpdateHandle, UpdateReadSucceeds, Goto
  <2>2. FlashTracked'
    BY <2>1 DEF FlashTracked, AfterUpdate
  <2>3. CASE pc' = "idle" /\ inv.image # NoImage
    <3>1. n \in Slots /\ primary \in OSIP_header /\ inv.fields \in Fields
      BY <2>1 DEF TypeInv, TypeOK, PhaseOK, UpdatePhases, Invocations, Invocation
    <3>2. SameImage(Staged'.desc[n], Staged.desc[n])
      <4>1. CASE backup.sig = OSIP_SIG
        BY <2>1, <4>1 DEF Staged, SameImage
      <4>2. CASE backup.sig # OSIP_SIG
        <5>1. Staged'.desc[n] = OverrideOSII(primary.desc[n], inv.fields)
          BY <2>1, <3>1, <4>2 DEF Staged, UpdatedTable, OSIP_header
        <5>. QED BY <5>1, <3>1, <4>2, OverrideKeepsImage DEF Staged
      <4>. QED BY <4>1, <4>2
    <3>3. SameImage(Staged'.desc[n], osii) /\ HoldsImage(osii)
          /\ osii.os_rev = inv.image.desc.os_rev
      BY <2>1, <2>3, <3>2 DEF FlashInv, FlashTracked, Verified, SameImage
    <3>4. Intact(Staged, n)'
      <4>1. HoldsImage(Staged'.desc[n])
        BY <3>3, SameImageHolds
      <4>. QED BY <4>1, <2>1 DEF Intact, HoldsImage
    <3>. QED BY <2>1, <2>2, <2>3, <3>3, <3>4 DEF FlashedSlotIntactOnExit, Intact,
                                               SameImage
  <2>4. CASE ~(pc' = "idle" /\ inv.image # NoImage)
    BY <2>1, <2>2, <2>4 DEF FlashedSlotIntactOnExit
  <2>. QED BY <2>2, <2>3, <2>4
<1>10. CASE InvalidateHandle
  BY <1>10 DEF InvalidateHandle, Goto, Fail, FlashInv, FlashTracked,
                FlashedSlotIntactOnExit
<1>11. CASE UNCHANGED vars
  BY <1>11 DEF vars, FlashInv, FlashTracked, FlashedSlotIntactOnExit, Staged,
               Intact, HoldsImage
<1>. QED BY <1>1, <1>2, <1>3, <1>4, <1>5, <1>6, <1>7, <1>8, <1>9, <1>10, <1>11
         DEF Next, Step

\* On a device where no updatable slot starts inside the tables, when
\* write_stitch_image sees its failures to read the backup and to stage
\* the new entry (osip_utils.c lines 142-148), update_handle's read of the
\* primary succeeds and no option overrides the slot's revision, block or
\* size: a run of main with --update n --image that exits 0 leaves slot n
\* of the table it staged into naming the image, and that slot's blocks
\* hold it (FlashedSlotIntactOnExit), whichever of the POS and payload
\* writes fail and however runs crash.
THEOREM FlashedSlotSafe ==
    ASSUME NoClobber, UpdateReadSucceeds, LbaKept, StagingSeen, FlashedFieldsKept
    PROVE  Spec => []FlashedSlotIntactOnExit
<1>1. FlashInv => FlashedSlotIntactOnExit
  BY DEF FlashInv
<1>2. FlashInv /\ [Next]_vars => FlashInv'
  BY FlashStep
<1>. QED BY FlashInit, <1>1, <1>2, PTL DEF Spec
=============================================================================
