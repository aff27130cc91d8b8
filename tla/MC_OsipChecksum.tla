--------------------------- MODULE MC_OsipChecksum ---------------------------
(* The checksum loop on an 8-byte structure whose checksum byte is its    *)
(* last, as offset 7 of struct OSIP_header; bytes take four values.       *)
EXTENDS OsipChecksum
=============================================================================
