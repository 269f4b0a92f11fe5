---------------------------- MODULE MCPhpObjects ----------------------------
(* Each of the sixteen factories in a script of one variable, and one with *)
(* two variables that calls a signature and a KEM factory.                 *)
EXTENDS PhpObjects

MCScripts ==
  [names : { {name} : name \in Signatures \cup Kems }, vars : {{"x"}}]
    \cup {[names |-> {"aimer128f", "smaugt128"}, vars |-> {"x", "y"}]}
MCMaxCell == 7
=============================================================================
