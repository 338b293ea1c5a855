----------------------------- MODULE MCAuditCtl -----------------------------
(* A ring of two slots, one or two records per read, and writers that can  *)
(* overwrite the whole ring between any two system calls of auditctl.      *)
EXTENDS AuditCtl

MCBodies == {"PipeWrite", "audit_read", "ipc_stat"}
=============================================================================
