------------------------------ MODULE MCShell ------------------------------
(* At most six pipe descriptors to a process: three commands have room for *)
(* their pipes and redirections, four do not, and five make pipe() fail.   *)
EXTENDS Shell

MCProgram == [hello |-> [reads |-> FALSE, writes |-> 2],
              count |-> [reads |-> TRUE, writes |-> 2],
              quiet |-> [reads |-> FALSE, writes |-> 0]]

MCLines ==
  {<< <<a>> >> : a \in {"hello", "count", "nosuch"}}
    \cup { << <<"count", "<", "f", ">", "g">> >>, << <<"count", "<", "g">> >>, << <<"count", "<">> >>,
           << <<"hello", ">", "g">>, <<"count">> >>, << <<"hello">>, << >>, <<"count">> >> }
    \cup { << <<a>>, <<b>> >> : a \in {"hello", "nosuch"}, b \in {"count", "quiet"}}
    \cup { << <<"count", "<", "f">>, <<a>>, <<b, ">", "g">> >> :
             a \in DOMAIN MCProgram, b \in DOMAIN MCProgram }
    \cup { << <<"hello">>, <<a>>, <<b>> >> : a \in {"count", "nosuch"}, b \in DOMAIN MCProgram }
    \cup { [i \in 1 .. n |-> <<"hello">>] : n \in {4, 5} }
=============================================================================
