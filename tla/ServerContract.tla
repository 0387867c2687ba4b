---------------------------- MODULE ServerContract -----------------------------
(***************************************************************************)
(* What TFModbusTCPServer promises to the user of start(): a connection    *)
(* is announced once, its requests are handed over while it is announced,  *)
(* and it is taken back once, with one reason.  A server that is stopped   *)
(* announces nothing and hands nothing over, and does not start again      *)
(* before it has taken back every connection.                              *)
(***************************************************************************)
EXTENDS Naturals, FiniteSets

CONSTANTS
    Connections,    \* the connections that peers may make
    Reasons,        \* what a disconnect callback can be called with
    MaxClients      \* how many connections are kept

VARIABLES
    running,        \* start() succeeded, and stop() was not called since
    told,           \* what the user was told of each connection
    handled         \* how many of its requests were handed to the user

Announced == {c \in Connections : told[c] = "connected"}

Init ==
    /\ running = FALSE
    /\ told = [c \in Connections |-> "unknown"]
    /\ handled = [c \in Connections |-> 0]

Start ==
    /\ ~running
    /\ Announced = {}
    /\ running' = TRUE
    /\ UNCHANGED <<told, handled>>

Stop ==
    /\ running
    /\ running' = FALSE
    /\ UNCHANGED <<told, handled>>

\* The connect callback.  One connection more than are kept may be announced, until
\* it or another one is taken back.
Announce(c) ==
    /\ running
    /\ told[c] = "unknown"
    /\ Cardinality(Announced) <= MaxClients
    /\ told' = [told EXCEPT ![c] = "connected"]
    /\ UNCHANGED <<running, handled>>

\* The request callback.
Handle(c) ==
    /\ running
    /\ told[c] = "connected"
    /\ Cardinality(Announced) <= MaxClients
    /\ handled' = [handled EXCEPT ![c] = @ + 1]
    /\ UNCHANGED <<running, told>>

\* The disconnect callback.
TakeBack(c, reason) ==
    /\ told[c] = "connected"
    /\ reason = "ServerStopped" <=> ~running
    /\ told' = [told EXCEPT ![c] = reason]
    /\ UNCHANGED <<running, handled>>

Next ==
    \/ Start \/ Stop
    \/ \E c \in Connections :
           Announce(c) \/ Handle(c) \/ \E reason \in Reasons : TakeBack(c, reason)

Spec == Init /\ [][Next]_<<running, told, handled>>

=============================================================================
