------------------------------- MODULE History -------------------------------
(***************************************************************************)
(* What a history of messages has to be before a provider accepts it, and  *)
(* RepairAndProject of session/manager.go, which makes it so.  A history   *)
(* is a sequence of records with a kind and the ids of the tool calls the  *)
(* message makes or answers; other fields are the user's business.  Part   *)
(* of a history, each message at its place, is a history with gaps.        *)
(***************************************************************************)
EXTENDS Naturals, Sequences, FiniteSets, Functions

\* A "bare" response makes calls and has no text; a "file" is a result kept
\* in a scratch file, an "excerpt" what a log keeps of a result.
IsCalls(m)  == m.kind \in {"calls", "bare"}
IsResult(m) == m.kind \in {"result", "file", "excerpt"}

\* declaredIDs and respondedIDs
Declared(msgs)  == UNION {m.calls : m \in {x \in Range(msgs) : IsCalls(x)}}
Responded(msgs) == UNION {m.calls : m \in {x \in Range(msgs) : IsResult(x)}}

\* Defect: calls without a result go, results without a call stay.
KeptCalls(msgs) ==
    Restrict(msgs, {i \in DOMAIN msgs :
                        IsCalls(msgs[i]) => msgs[i].calls \subseteq Responded(msgs)})

\* RepairAndProject: a result without its call goes, as does a call without
\* a result; a response that has none left keeps its text.  What is kept is
\* still at its place in msgs.
Kept(msgs) ==
    LET valid == Declared(msgs) \cap Responded(msgs)
        Strip(m) == [m EXCEPT !.calls = @ \cap valid,
                              !.kind = IF IsCalls(m) /\ m.calls \cap valid = {}
                                       THEN "text" ELSE @]
    IN  [i \in {k \in DOMAIN msgs : IsResult(msgs[k]) => msgs[k].calls \subseteq valid}
            |-> Strip(msgs[i])]

\* The messages of a history with gaps, as a sequence.
Rank(history, i) == Cardinality({k \in DOMAIN history : k <= i})
WithoutGaps(history) ==
    [n \in 1..Cardinality(DOMAIN history) |->
        history[CHOOSE i \in DOMAIN history : Rank(history, i) = n]]

Repaired(msgs) == WithoutGaps(Kept(msgs))

\* Every tool call has one result, after it, and every result answers a call.
WellFormed(msgs) ==
    /\ Declared(msgs) = Responded(msgs)
    /\ \A id \in Declared(msgs) :
        \E i, j \in DOMAIN msgs :
            /\ i < j
            /\ {k \in DOMAIN msgs : IsCalls(msgs[k]) /\ id \in msgs[k].calls} = {i}
            /\ {k \in DOMAIN msgs : IsResult(msgs[k]) /\ id \in msgs[k].calls} = {j}
=============================================================================
