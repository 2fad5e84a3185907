---------------------------- MODULE MCBitmapScan ----------------------------
(* An instance of BitmapScan for TLC.                                      *)
EXTENDS BitmapScan

\* A last word without bits to spare, and one with some.
MCEndShape == {<<4, 3>>, <<4, 8>>}
=============================================================================
