------------------------------- MODULE MCWatch -------------------------------
(* Small instances of Watch: two contents that can be analysed, one that       *)
(* cannot.                                                                     *)
EXTENDS Watch

CONSTANTS c1, c2, x1

MCContents == {c1, c2, x1}
MCBroken == {x1}
=============================================================================
