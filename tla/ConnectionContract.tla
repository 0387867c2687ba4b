-------------------------- MODULE ConnectionContract --------------------------
(***************************************************************************)
(* What TFGenericTCPClient promises to the user of connect(): each         *)
(* accepted call ends in exactly one report through its connect callback;  *)
(* a report Connected is followed by at most one report through its        *)
(* disconnect callback, a failure by none; and at most one accepted call   *)
(* is live (waiting for its report, or connected) at any time.             *)
(***************************************************************************)
EXTENDS Naturals

CONSTANT MaxAttempts   \* how many calls of connect() are ever accepted

Attempts == 1..MaxAttempts

VARIABLE phase         \* what the user has been told about each accepted call

Phases == {"unused", "pending", "connected", "failed", "closed"}

TypeOK == phase \in [Attempts -> Phases]

Live(a) == phase[a] \in {"pending", "connected"}

Init == phase = [a \in Attempts |-> "unused"]

\* connect() returns having stored both callbacks.
Accept(a) ==
    /\ phase[a] = "unused"
    /\ \A b \in Attempts : ~Live(b)
    /\ phase' = [phase EXCEPT ![a] = "pending"]

\* The connect callback runs with Connected.
Establish(a) ==
    /\ phase[a] = "pending"
    /\ phase' = [phase EXCEPT ![a] = "connected"]

\* The connect callback runs with any other result.
Fail(a) ==
    /\ phase[a] = "pending"
    /\ phase' = [phase EXCEPT ![a] = "failed"]

\* The disconnect callback runs.
Finish(a) ==
    /\ phase[a] = "connected"
    /\ phase' = [phase EXCEPT ![a] = "closed"]

Next == \E a \in Attempts : Accept(a) \/ Establish(a) \/ Fail(a) \/ Finish(a)

Spec == Init /\ [][Next]_phase

=============================================================================
