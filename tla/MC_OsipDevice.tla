--------------------------- MODULE MC_OsipDevice ---------------------------
(* A provisioned device with three slots: the payload OS in slot 0 at LBA  *)
(* 2, the provisioning OS in slot 1 at LBA 1 (the POS sits lowest, as the  *)
(* comment of manage_device.c says), slot 2 empty.  LBA 0 holds the tables.*)
EXTENDS OsipDevice

MC_OSII(rev, lba, addr, size, attr) ==
    [os_rev |-> rev, logical_start_block |-> lba, ddr_load_address |-> addr,
     entery_point |-> addr, size_of_os_image |-> size, attribute |-> attr]

MC_InitPrimary ==
    [sig |-> OSIP_SIG, num_images |-> 1,
     desc |-> <<MC_OSII(1, 2, 1, 1, 1), MC_OSII(2, 1, 1, 1, 2),
                MC_OSII(0, 0, 0, 0, 0)>>]

\* desc of a table is indexed from 0
MC_Table(t) == [t EXCEPT !.desc = [s \in Slots |-> t.desc[s + 1]]]

\* A one-page image of rev 3 (spec scenario B), the same header with two
\* OSII records, and the same image cut to 1000 bytes (scenario C).
MC_Good == [num_images |-> 1, desc |-> MC_OSII(3, 3, 1, 1, 1), file_size |-> 1024]
MC_Multi == [MC_Good EXCEPT !.num_images = 2]
MC_Short == [MC_Good EXCEPT !.file_size = 1000]

MC_Images == {MC_Good, MC_Multi, MC_Short}
MC_InvalArgs == {<< >>, <<1>>, <<5>>}
MC_Primary == MC_Table(MC_InitPrimary)

\* Inputs of the run where ignored calls fail: the good image only.
MC_FaultImages == {MC_Good}

\* A two-page image: its size differs from that of the provisioned slots.
MC_Long == [num_images |-> 1, desc |-> MC_OSII(3, 3, 1, 2, 1), file_size |-> 1536]
MC_LongImages == {MC_Long}
MC_FaultInvalArgs == {<< >>, <<1>>}

\* Explicit OSII options: none, and -t 257, truncated to attribute 1: the
\* POS updated with it shares the payload's attribute.
MC_Fields == {NoFields, [NoFields EXCEPT !.attr = 257]}
MC_NoFieldSet == {NoFields}
\* -l 3 moves a slot; -s 2 claims two pages.
MC_LbaFields == {NoFields, [NoFields EXCEPT !.lba = 3]}
MC_SizeFields == {NoFields, [NoFields EXCEPT !.size = 2]}
=============================================================================
