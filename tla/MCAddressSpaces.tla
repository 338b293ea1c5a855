------------------------- MODULE MCAddressSpaces -------------------------
(* Three processes, programs of one and of two pages, a machine that holds *)
(* three small processes and not three large ones.                         *)
EXTENDS AddressSpaces
=============================================================================
