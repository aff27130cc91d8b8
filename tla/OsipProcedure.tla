---------------------------- MODULE OsipProcedure ----------------------------
(***************************************************************************)
(* update_osip run the way its usage text asks: "--invalidate ... used     *)
(* with --backup", the image flashed into an invalidated slot, and         *)
(* --restore to make the staged descriptor the primary one.  The operator  *)
(* sees the primary with --check and the exit status of the last run:      *)
(*   prepare:  --backup --invalidate <attribute of slot n>                 *)
(*   update:   --update n --image x.bin, only while slot n is not bootable *)
(*   restore:  --restore, after an update that exited 0, or again after a  *)
(*             restore that did not exit 0.                                *)
(* The runs themselves, crashes and failing device calls are those of      *)
(* OsipDevice.                                                             *)
(***************************************************************************)
EXTENDS OsipDevice

PrepareRun(i) ==
    \E n \in UpdateSlots :
        /\ i.backup /\ ~i.restore /\ i.update = NoSlot
        /\ i.inval = << primary.desc[n].attribute >>

UpdateRun(i) ==
    /\ ~i.backup /\ ~i.restore /\ i.inval = << >>
    /\ i.update # NoSlot /\ i.image # NoImage
    /\ ~Bootable(primary.desc[i.update])

RestoreRun(i) ==
    /\ i.restore /\ ~i.backup /\ i.update = NoSlot /\ i.inval = << >>
    /\ \/ inv.update # NoSlot /\ inv.image # NoImage /\ status = "ok"
       \/ inv.restore /\ status # "ok"

OperatorRun(i) == PrepareRun(i) \/ UpdateRun(i) \/ RestoreRun(i)

ProcNext ==
    \/ \E i \in Invocations : OperatorRun(i) /\ Start(i)
    \/ Step
    \/ IoError
    \/ Crash

ProcSpec == Init /\ [][ProcNext]_vars

-----------------------------------------------------------------------------
\* If power fails at any point of the procedure, the primary table describes
\* no image the firmware could boot whose blocks do not hold that image: the
\* payload is only written while the primary slot is invalidated, and the
\* new descriptor reaches the primary only through restore, after the
\* payload was written and read back (write_stitch_image lines 139-165).
NoTornBoot ==
    primary.sig = OSIP_SIG =>
        \A s \in Slots : Bootable(primary.desc[s]) => Intact(primary, s)

\* A step that changes no block under a slot the signed primary boots.
SparesBootable ==
    primary.sig = OSIP_SIG =>
        \A s \in Slots :
            Bootable(primary.desc[s]) =>
                \A l \in Covered(primary.desc[s].logical_start_block,
                                 primary.desc[s].size_of_os_image) :
                    disk'[l] = disk[l]

\* No step of the procedure changes a block under a slot that the signed
\* primary boots: write_stitch_image's payload write (lines 150-163), the
\* only write of blocks, goes to the invalidated slot and stays clear of
\* every other bootable image.
PayloadSparesBootable == [][SparesBootable]_vars

\* The backup is the recovery path: whenever it is signed, restoring it would
\* give a table whose bootable slots all hold their images.
BackupIsRecoveryPath ==
    backup.sig = OSIP_SIG =>
        \A s \in Slots : Bootable(backup.desc[s]) => Intact(backup, s)
=============================================================================
