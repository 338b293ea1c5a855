---- MODULE MCBlockCache ----
(* Four blocks of two contents, a cache of three, and operations that hold *)
(* up to all three of them at a time.                                      *)
EXTENDS BlockCache
====
