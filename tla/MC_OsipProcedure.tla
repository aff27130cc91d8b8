-------------------------- MODULE MC_OsipProcedure --------------------------
(* The device of MC_OsipDevice; the operator passes the attribute of the   *)
(* slot being updated, and the images include one of two pages.            *)
EXTENDS OsipProcedure, OsipProcedureProofs

MC_OSII(rev, lba, addr, size, attr) ==
    [os_rev |-> rev, logical_start_block |-> lba, ddr_load_address |-> addr,
     entery_point |-> addr, size_of_os_image |-> size, attribute |-> attr]

MC_Primary ==
    [sig |-> OSIP_SIG, num_images |-> 1,
     desc |-> [s \in Slots |->
                 CASE s = 0 -> MC_OSII(1, 2, 1, 1, 1)
                   [] s = 1 -> MC_OSII(2, 1, 1, 1, 2)
                   [] OTHER -> MC_OSII(0, 0, 0, 0, 0)]]

\* a one-page and a two-page image for slot 0, a one-page one for the POS
MC_Good == [num_images |-> 1, desc |-> MC_OSII(3, 3, 1, 1, 1), file_size |-> 1024]
MC_Long == [num_images |-> 1, desc |-> MC_OSII(4, 0, 1, 2, 1), file_size |-> 1536]
MC_Pos == [num_images |-> 1, desc |-> MC_OSII(3, 0, 1, 1, 2), file_size |-> 1024]
MC_Multi == [MC_Good EXCEPT !.num_images = 2]

MC_Images == {MC_Good, MC_Long, MC_Multi}
MC_PosImages == {MC_Pos, MC_Multi}
MC_InvalArgs == {<< >>, <<1>>, <<2>>}
MC_NoFieldSet == {NoFields}

\* Counterexample instances: a primary with a third bootable slot at block 4,
\* with slot 0 bootable (addr 1) or not (addr 0); one image that is not
\* bootable (load address 0); and an -a option.
MC_Primary3(a0) ==
    [sig |-> OSIP_SIG, num_images |-> 1,
     desc |-> [s \in Slots |->
                 CASE s = 0 -> MC_OSII(1, 2, a0, 1, 1)
                   [] s = 1 -> MC_OSII(2, 1, 1, 1, 2)
                   [] s = 2 -> MC_OSII(3, 4, 1, 1, 3)
                   [] OTHER -> MC_OSII(0, 0, 0, 0, 0)]]
MC_Booted3 == MC_Primary3(1)
MC_Unbooted3 == MC_Primary3(0)
MC_Fresh == [num_images |-> 1, desc |-> MC_OSII(4, 0, 1, 1, 1), file_size |-> 1024]
MC_NoBoot == [MC_Fresh EXCEPT !.desc.ddr_load_address = 0, !.desc.entery_point = 0]
MC_FreshImages == {MC_Fresh}
MC_NoBootImages == {MC_Fresh, MC_NoBoot}
MC_InvalArgs3 == {<< >>, <<1>>, <<3>>}
MC_AddrFieldSet == {NoFields, [NoFields EXCEPT !.addr = 1]}
=============================================================================
