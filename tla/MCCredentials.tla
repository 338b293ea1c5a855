--------------------------- MODULE MCCredentials ---------------------------
(* Three processes, root and two other users, one signal and a number that *)
(* is not one.                                                             *)
EXTENDS Credentials, TLC

(* All tasks but the first are alike.                                      *)
Alike == Permutations(Tasks \ {INITPROC})
=============================================================================
