----------------------------- MODULE MCRegAlloc -----------------------------
(* Small register files for RegAlloc.                                        *)
EXTENDS RegAlloc

Callee2 == <<"x19", "x20">>
Caller1 == <<"x8">>
Callee1 == <<"x19">>
=============================================================================
