---------------------------- MODULE MCSavedIndex ----------------------------
(* An instance of SavedIndex for TLC: keys at the ends of the parts and in *)
(* them, loads that leave parts empty, and data nodes loaded with no more  *)
(* than two keys.                                                          *)
EXTENDS SavedIndex

MCKey == {3, 4, 7, 13}
MCLoad == {{4}, {0, 3}, {3, 4, 11}, {0, 3, 7, 8, 15}}
MCLow == {{}, {4}, {4, 8, 12}}
=============================================================================
