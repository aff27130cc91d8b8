---------------------------- MODULE OsipChecksum ----------------------------
(***************************************************************************)
(* The header checksum of write_OSIP, src/flash_stitched/manage_device.c   *)
(* lines 236-248: the checksum byte is cleared, the bytes of the table are *)
(* XORed from offset 0 up to header_size, and the result is stored in the  *)
(* checksum byte before the table, sizeof(struct OSIP_header) bytes, is   *)
(* written at offset 0.  header_size is whatever the table read from the  *)
(* device holds (a uint16); nothing bounds it by the size of the struct,  *)
(* so the loop may run past the struct into the stack frame, while the    *)
(* reader who checks the sum (spec section 3) XORs the device's bytes.    *)
(***************************************************************************)
EXTENDS Integers, Bitwise, Functions

CONSTANTS
    TableSize,        \* sizeof(struct OSIP_header): 200 in the code
    CHECKSUM_OFFSET,  \* offset of header_checksum: 7
    Bytes,            \* byte values the model uses
    MaxHeaderSize     \* largest header_size the model reads

ASSUME ChecksumAssumption ==
    /\ TableSize \in Nat /\ CHECKSUM_OFFSET \in 0 .. (TableSize - 1)
    /\ Bytes \subseteq 0 .. 255 /\ 0 \in Bytes
    /\ MaxHeaderSize \in Nat /\ MaxHeaderSize >= TableSize

Struct == 0 .. (TableSize - 1)
Beyond == TableSize .. (MaxHeaderSize - 1)

\* XOR of the bytes f[j], j \in S: the checksum as spec section 3 defines it.
XorOver(f, S) == FoldFunctionOnSet(LAMBDA x, y : x ^^ y, 0, f, S)

VARIABLES
    osip,         \* the bytes of the struct being written
    header_size,  \* osip->header_size
    stack,        \* the bytes that follow the struct in the caller's frame
    device,       \* the device bytes that follow the table
    i,            \* the loop index
    checksum,     \* the running XOR
    pc

vars == <<osip, header_size, stack, device, i, checksum, pc>>

\* A table as read_OSIP returns it, with any header_size it may hold.
Init ==
    /\ osip \in [Struct -> Bytes]
    /\ header_size \in 0 .. MaxHeaderSize
    /\ stack \in [Beyond -> Bytes] /\ device \in [Beyond -> Bytes]
    /\ i = 0 /\ checksum = 0
    /\ pc = "clear"

\* buf[i] of line 246: the struct, then whatever follows it in memory.
Buf(j) == IF j < TableSize THEN osip[j] ELSE stack[j]

\* Mutant: line 244 dropped, the old checksum byte is summed.
Mutant_ClearChecksum == UNCHANGED osip

\* Line 244: osip->header_checksum = 0.
ClearChecksum == osip' = [osip EXCEPT ![CHECKSUM_OFFSET] = 0]

Clear ==
    /\ pc = "clear"
    /\ ClearChecksum
    /\ pc' = "loop"
    /\ UNCHANGED <<header_size, stack, device, i, checksum>>

\* Lines 245-247: one turn of the loop.
Step ==
    /\ pc = "loop" /\ i < header_size
    /\ checksum' = checksum ^^ Buf(i)
    /\ i' = i + 1
    /\ UNCHANGED <<osip, header_size, stack, device, pc>>

\* Line 248 and the write of lines 256-257: the sum is stored and the
\* struct's bytes reach the device; what follows them there is unchanged.
Store ==
    /\ pc = "loop" /\ i >= header_size
    /\ osip' = [osip EXCEPT ![CHECKSUM_OFFSET] = checksum]
    /\ pc' = "written"
    /\ UNCHANGED <<header_size, stack, device, i, checksum>>

Next == Clear \/ Step \/ Store

Spec == Init /\ [][Next]_vars

\* The bytes at offsets 0 .. header_size - 1 of the device after the write.
OnDevice == [j \in 0 .. (MaxHeaderSize - 1) |->
                IF j < TableSize THEN osip[j] ELSE device[j]]

\* The checksum write_OSIP stores is the XOR of the device's bytes
\* [0, header_size) with the checksum byte taken as 0, so a reader who
\* checks it (spec sections 3 and 8) accepts the table write_OSIP wrote.
ChecksumVerifies ==
    pc = "written" =>
        osip[CHECKSUM_OFFSET] =
            XorOver([OnDevice EXCEPT ![CHECKSUM_OFFSET] = 0], 0 .. (header_size - 1))
=============================================================================
