--------------------------- MODULE MessageService ---------------------------
(***************************************************************************)
(* What the agent loop promises to whoever puts a message on the bus,      *)
(* without threads, locks, queues or contexts: every message the loop      *)
(* takes is settled exactly once, and it may only be left without a reply  *)
(* when its turn delivered the reply itself (Quiet), or after somebody     *)
(* withdrew it: a "/stop" of the same session key, or the shutdown.        *)
(* AgentLoop is shown to implement this module.                            *)
(***************************************************************************)
EXTENDS Naturals

CONSTANTS Msg,          \* the inbound messages
          Key,          \* the session keys
          KeyOf,        \* the session key of each message
          Stops,        \* the messages whose text is "/stop"
          Quiet         \* messages whose turn sends its own response

VARIABLES status,       \* what became of each message
          answers,      \* how many final replies each message got
          down          \* the loop is shutting down

vars == <<status, answers, down>>

Open    == {"pending", "withdrawn"}
Settled == {"answered", "silent", "abandoned"}

Init == /\ status  = [m \in Msg |-> "new"]
        /\ answers = [m \in Msg |-> 0]
        /\ down    = FALSE

\* A message taken while shutting down is withdrawn from the start.
Taken == IF down THEN "withdrawn" ELSE "pending"

Accept(m) ==
    /\ status[m] = "new"
    /\ m \notin Stops
    /\ status' = [status EXCEPT ![m] = Taken]
    /\ UNCHANGED <<answers, down>>

\* "/stop" withdraws every message of its key that was taken before it.
AcceptStop(m) ==
    /\ status[m] = "new"
    /\ m \in Stops
    /\ status' = [n \in Msg |->
                    IF n = m THEN Taken
                    ELSE IF status[n] = "pending" /\ KeyOf[n] = KeyOf[m]
                         THEN "withdrawn" ELSE status[n]]
    /\ UNCHANGED <<answers, down>>

Shutdown ==
    /\ ~down
    /\ down' = TRUE
    /\ status' = [m \in Msg |->
                    IF status[m] = "pending" THEN "withdrawn" ELSE status[m]]
    /\ UNCHANGED answers

Answer(m) ==
    /\ status[m] \in Open
    /\ status'  = [status EXCEPT ![m] = "answered"]
    /\ answers' = [answers EXCEPT ![m] = @ + 1]
    /\ UNCHANGED down

SettleSilently(m) ==
    /\ status[m] \in Open
    /\ m \in Quiet
    /\ status' = [status EXCEPT ![m] = "silent"]
    /\ UNCHANGED <<answers, down>>

Abandon(m) ==
    /\ status[m] = "withdrawn"
    /\ status' = [status EXCEPT ![m] = "abandoned"]
    /\ UNCHANGED <<answers, down>>

Next == \/ Shutdown
        \/ \E m \in Msg : \/ Accept(m)
                          \/ AcceptStop(m)
                          \/ Answer(m)
                          \/ SettleSilently(m)
                          \/ Abandon(m)

Spec == Init /\ [][Next]_vars
=============================================================================
