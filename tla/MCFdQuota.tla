----------------------------- MODULE MCFdQuota -----------------------------
(* Two process slots; limits small enough that every one of them is hit.   *)
EXTENDS FdQuota
=============================================================================
