--------------------------- MODULE MC_ManageDevice ---------------------------
(* A device with the payload (slot 0) at sector 2 above the POS (slot 1)  *)
(* at sector 1, and four images: one and two pages, one with two          *)
(* descriptors, one whose file size disagrees with its descriptor.        *)
EXTENDS ManageDevice, TLC

MC_OSII(rev, lsb, addr, size) ==
    [os_rev |-> rev, logical_start_block |-> lsb, ddr_load_address |-> addr,
     entery_point |-> addr, size_of_os_image |-> size]

MC_InitPrimary ==
    [sig |-> OSIP_SIG, num_images |-> 2,
     desc |-> (0 :> MC_OSII(1, 2, 1, 1)) @@ (1 :> MC_OSII(2, 1, 1, 1))]

MC_Images ==
    {[num_images |-> 1, desc |-> MC_OSII(3, 4, 1, 1), file_size |-> 1024],
     [num_images |-> 1, desc |-> MC_OSII(4, 4, 1, 2), file_size |-> 1536],
     [num_images |-> 2, desc |-> MC_OSII(3, 4, 1, 1), file_size |-> 1024],
     [num_images |-> 1, desc |-> MC_OSII(3, 4, 1, 2), file_size |-> 1024]}

\* 512 KiB erase blocks, as the 512-byte page of the rest of the tool
\* assumes, and an erase_size below 1 KiB, whose page size is 0.
MC_EraseSizes == {524288, 512}
\* an erase size below 1 KiB only, whose page size is 0
MC_SmallErase == {512}
MC_EraseUnits == {1048576}
=============================================================================
