----------------------------- MODULE MCSession -----------------------------
(* Initial trees for the runs of Session. *)
EXTENDS Session, TLC

\* Every pair of trees up to a permutation of the contents.
SomeContent == CHOOSE c \in Content : TRUE
MCBase == [n \in Node |-> IF n = Initiator THEN {Absent, SomeContent}
                         ELSE Content \cup {Absent}]
=============================================================================
