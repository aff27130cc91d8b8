---------------------------- MODULE MC_OsipLayout ----------------------------
EXTENDS OsipLayout

\* atoi results around the seven slots: "-1", the slots' ends, "7", "8".
MC_SlotArgs == {-1, 0, 1, 6, 7, 8}
=============================================================================
