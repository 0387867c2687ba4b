------------------------- MODULE TransactionContract --------------------------
(***************************************************************************)
(* What TFModbusTCPClient promises to the user of transact(): an accepted  *)
(* transaction waits in a queue of bounded length; transactions end in the *)
(* order in which they were accepted, and each ends once, with one result. *)
(***************************************************************************)
EXTENDS Naturals, Sequences

CONSTANTS
    Transactions,   \* the calls of transact() that may be accepted
    Results,        \* what a transaction callback can be called with
    Capacity        \* how many transactions are open at the same time

VARIABLES
    queue,          \* the open transactions, oldest first
    status          \* what the user knows of each transaction

Init ==
    /\ queue = <<>>
    /\ status = [t \in Transactions |-> "unused"]

\* transact() returns having queued the transaction.
Accept(t) ==
    /\ status[t] = "unused"
    /\ Len(queue) < Capacity
    /\ queue' = Append(queue, t)
    /\ status' = [status EXCEPT ![t] = "open"]

\* The callback of the oldest open transaction is called.
Complete(t, result) ==
    /\ queue # <<>>
    /\ t = Head(queue)
    /\ queue' = Tail(queue)
    /\ status' = [status EXCEPT ![t] = result]

Next == \E t \in Transactions :
            Accept(t) \/ \E result \in Results : Complete(t, result)

Spec == Init /\ [][Next]_<<queue, status>>

=============================================================================
