------------------------------ MODULE MCTurns ------------------------------
(* Instances of Turns.                                                     *)
EXTENDS Turns, TLC

(* One channel, or two.                                                    *)
OneOrTwo == {{"web"}, {"web", "phone"}}

(* A session four topics deep.                                             *)
Frames == [n \in 1 .. 4 |-> [label |-> IF n % 2 = 1 THEN "order" ELSE "general", at |-> 0]]
MCOldStacks == {Frames}
=============================================================================
