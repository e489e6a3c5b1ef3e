--------------------------- MODULE MCAuditLogger ---------------------------
(***************************************************************************)
(* Instances of AuditLogger for TLC.                                       *)
(***************************************************************************)
EXTENDS AuditLogger
====
