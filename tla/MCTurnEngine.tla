----------------------------- MODULE MCTurnEngine -----------------------------
(* Small instances of TurnEngine for TLC: two turns, of one or two sessions. *)
EXTENDS TurnEngine

CONSTANTS first, second, own, other

SameSession == [t \in Turn |-> own]
OneThenTwo  == [t \in Turn |-> IF t = first THEN 1 ELSE 2]
TwoSessions == [t \in Turn |-> IF t = first THEN own ELSE other]

\* Bound: one turn is left as soon as it begins a second iteration, which leaves
\* room for the other to be compacted half-way and go on.
FirstIsShort == iteration[first] <= 1
=============================================================================
