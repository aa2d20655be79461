-------------------------- MODULE MCSessionService --------------------------
(* Instances of SessionService: which request carries which event. *)
EXTENDS SessionService, TLC

CONSTANTS r1, r2, r3, r4, e1, e2, e3, c1

\* r1 and r2 carry one event, r3 and r4 another of the same conversation.
EachTwice == [r \in Requests |-> IF r \in {r1, r2} THEN e1 ELSE e2]

\* r1 and r2 carry the same event, r3 and r4 two others.
OneTwice == [r \in Requests |-> CASE r \in {r1, r2} -> e1 [] r = r3 -> e2 [] r = r4 -> e3]

OneConversation == [e \in Events |-> c1]

UnitTurns == [r \in Requests |-> 1]

\* A long exchange and short ones: some appends leave nothing to compact.
MixedTurns == [r \in Requests |-> IF r \in {r1, r2} THEN 3 ELSE 1]

\* The two calls for an event are interchangeable, and so are the workers.
Interchangeable == Permutations({r1, r2}) \cup Permutations({r3, r4}) \cup Permutations(Workers)
=============================================================================
