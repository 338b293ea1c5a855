---------------------------- MODULE MCUserMemory ----------------------------
(* Pages of four bytes, words of two, sixteen pages of which eight are the *)
(* user half.  Pages 2 to 4 hold the arguments of a caller; pages 0, 1, 6  *)
(* and 7, at the two ends of the user half, are any.                       *)
EXTENDS UserMemory

Kernel == 14 :> {"R", "W"} @@ 15 :> {"R", "X"}
Fixed == [vpn \in 2 .. 4 |-> {"U", "R", "W"}] @@ Kernel
Kinds == {{"U", "R"}, {"U", "R", "W"}, {"U", "X"}}
Ends == {0, 1, 6, 7}

WithFrames(flags) == [vpn \in DOMAIN flags |-> [ppn |-> 15 - vpn, flags |-> flags[vpn]]]

MCTables == UNION {{WithFrames(f @@ Fixed) : f \in [mapped -> Kinds]} : mapped \in SUBSET Ends}
MCPointers == {0, 1, 3, 4, 5, 7, 22, 23, 24, 26, 27, 28, 30, 31, 32, 60, 248, 255}
MCLengths == (1 .. 5) \cup {0, 9, 10, 255}
MCTypes == {[size |-> 1, align |-> 1], [size |-> 2, align |-> 2], [size |-> 4, align |-> 2]}
MCArgLists == {<< <<1>> >>, << << >>, <<13>> >>, << <<1, 2>>, <<9>> >>, << <<1, 2>>, <<3, 9>> >>,
               << <<1>>, <<2>>, <<3>> >>, << <<1, 2, 3, 4, 5, 6, 7>> >>,
               << <<1, 2, 3, 4, 5, 6, 7, 1>> >>}
MCNewTable == WithFrames((1 :> {"U", "R", "X"}) @@ (2 :> {"U", "R", "W"})
                          @@ [vpn \in 4 .. 6 |-> {"U", "R", "W"}] @@ Kernel)
=============================================================================
