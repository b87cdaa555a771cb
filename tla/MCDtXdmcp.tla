----------------------------- MODULE MCDtXdmcp -----------------------------
(* Small instances of DtXdmcp for TLC. *)
EXTENDS DtXdmcp

CONSTANTS t1, t2

=============================================================================
