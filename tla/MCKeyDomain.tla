----------------------------- MODULE MCKeyDomain -----------------------------
(* An instance of KeyDomain for TLC: a type of four bits, without sign.    *)
EXTENDS KeyDomain

MCKey == {1, 5, 8, 10, 14}
MCLoad == {{5}, {5, 8}}
=============================================================================
