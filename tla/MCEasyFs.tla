---- MODULE MCEasyFs ----
(* Blocks of two cells, one direct block and two entries to an indirect    *)
(* block: the six blocks of a file of twelve cells use every level of the  *)
(* tree.  A write of 1 + 4 + 1 cells ends once inside a block, once at the *)
(* last direct block and once at the last block below indirect1, and the   *)
(* next one goes on from there.  The device has 12 blocks for data under a *)
(* bitmap of 16 bits, too few for two such files.                          *)
EXTENDS EasyFs, TLC

BuffersDef == {<<1, 4, 1>>}
ModesDef == {{}, {"CREATE"}, {"TRUNC"}}
Perms == Permutations(Names) \union Permutations(Handles)
====
