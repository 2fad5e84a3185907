----------------------------- MODULE MCDataNode -----------------------------
(* Instances of DataNode for TLC.                                          *)
EXTENDS DataNode

\* Keys strictly between the two ends of the key type, in the order of Int.
MCKey == 1 .. 3
MCUniqueKey == 1 .. 5
\* Keys up to the greatest value of the key type, which is the sentinel.
MCKeyWithMax == {1, 9}
MCLowest == 0
MCEndSentinel == 9
=============================================================================
