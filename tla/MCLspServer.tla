----------------------------- MODULE MCLspServer -----------------------------
(* LspServer with two documents and two non-empty texts. *)
EXTENDS LspServer

CONSTANTS u1, u2, t1, t2

MCUri == {u1, u2}
MCText == {t1, t2}
=============================================================================
