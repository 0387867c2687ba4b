---------------------------- MODULE PoolContract ------------------------------
(***************************************************************************)
(* What TFGenericTCPClientPool promises to the users of acquire(): each    *)
(* has a share of its own, with the reports of a client of its own, and    *)
(* the shares of one host see one and the same connection: a share is told *)
(* Connected only while it is open, fails only while it is not, and the    *)
(* next connection opens only after all who had this one know of its end.  *)
(***************************************************************************)
EXTENDS Naturals, Sequences

CONSTANTS
    Hosts,
    MaxAcquires   \* how many calls of acquire() are ever accepted

Acquires == 1..MaxAcquires

VARIABLES
    phase,      \* what the user was told about each
    goal,       \* the hosts they asked for, in the order they were accepted
    open        \* the hosts that the pool is connected to

Told(state, h) == {a \in 1..Len(goal) : phase[a] = state /\ goal[a] = h}

Init ==
    /\ phase = [a \in Acquires |-> "unused"]
    /\ goal = <<>>
    /\ open = {}

\* acquire() of a host that is connected reports at once.
Accept(h) ==
    /\ Len(goal) < MaxAcquires
    /\ goal' = Append(goal, h)
    /\ phase' = [phase EXCEPT ![Len(goal')] = IF h \in open THEN "connected" ELSE "pending"]
    /\ UNCHANGED open

Open(h) ==
    /\ h \notin open
    /\ Told("connected", h) = {}
    /\ Told("pending", h) # {}
    /\ open' = open \cup {h}
    /\ UNCHANGED <<phase, goal>>

Close(h) ==
    /\ h \in open
    /\ open' = open \ {h}
    /\ UNCHANGED <<phase, goal>>

Establish(a) ==
    /\ phase[a] = "pending"
    /\ goal[a] \in open
    /\ phase' = [phase EXCEPT ![a] = "connected"]
    /\ UNCHANGED <<goal, open>>

Fail(a) ==
    /\ phase[a] = "pending"
    /\ goal[a] \notin open
    /\ phase' = [phase EXCEPT ![a] = "failed"]
    /\ UNCHANGED <<goal, open>>

Finish(a) ==
    /\ phase[a] = "connected"
    /\ phase' = [phase EXCEPT ![a] = "closed"]
    /\ UNCHANGED <<goal, open>>

Next ==
    \/ \E h \in Hosts : Accept(h) \/ Open(h) \/ Close(h)
    \/ \E a \in 1..Len(goal) : Establish(a) \/ Fail(a) \/ Finish(a)

Spec == Init /\ [][Next]_<<phase, goal, open>>

=============================================================================
