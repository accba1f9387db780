------------------------------ MODULE Transfer ------------------------------
(***************************************************************************)
(* What a share promises about the bytes of one archive, whatever becomes  *)
(* of the messages that carry them: the extractor is given the chunks in   *)
(* order and once each, and the transfer is complete only when it has been *)
(* given all of them.  Anything else ends abandoned.                       *)
(***************************************************************************)
EXTENDS Naturals

CONSTANT Chunks   \* how many chunks the archive is cut into

VARIABLES
    given,        \* chunks the extractor has been given so far: 0 .. given - 1
    outcome       \* "running", "complete" or "abandoned"

vars == <<given, outcome>>

Init == given = 0 /\ outcome = "running"

HandOver ==
    /\ outcome = "running"
    /\ given < Chunks
    /\ given' = given + 1
    /\ UNCHANGED outcome

Complete ==
    /\ outcome = "running"
    /\ given = Chunks
    /\ outcome' = "complete"
    /\ UNCHANGED given

Abandon ==
    /\ outcome = "running"
    /\ outcome' = "abandoned"
    /\ UNCHANGED given

Next == HandOver \/ Complete \/ Abandon

Spec == Init /\ [][Next]_vars
=============================================================================
