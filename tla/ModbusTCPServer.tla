--------------------------- MODULE ModbusTCPServer ----------------------------
(***************************************************************************)
(* TFModbusTCPServer: a list of client connections that is taken apart and *)
(* put together again in each tick(), with callbacks of the user in        *)
(* between.  The user may call start(), stop() and tick() whenever user    *)
(* code runs, in a callback too.  Peers connect, send requests and leave   *)
(* as they like; what they send is cut by recv() anywhere.                 *)
(*                                                                         *)
(* "pc" says where control is: with the "user" (in the main loop or, if    *)
(* after # "main", in a callback the server goes on from at "after"), or   *)
(* at the place in tick() or stop() it is named for.  Peers act and time   *)
(* passes while the user has control: what happens while the server runs   *)
(* is not seen by it before its next call of select() or recv(), and       *)
(* neither has to report all that has arrived.                             *)
(*                                                                         *)
(* Calls of start(), stop() and tick() that change nothing are stuttering  *)
(* steps: refused ones, a start() that fails, and a tick() in which        *)
(* select() fails or finds nothing to do.                                  *)
(***************************************************************************)
EXTENDS Naturals, FiniteSets, SequencesExt

CONSTANTS
    MaxConnections,    \* bound: connections that peers make
    MaxRequests,       \* bound: requests a peer sends on one connection
    MaxBacklog,        \* the connections listen() lets wait
    MaxClients,        \* TF_MODBUS_TCP_SERVER_MAX_CLIENT_COUNT
    MinDisplaceDelay,  \* TF_MODBUS_TCP_SERVER_MIN_DISPLACE_DELAY
    MaxIdleDuration,   \* TF_MODBUS_TCP_SERVER_MAX_IDLE_DURATION
    IdleCheckInterval, \* TF_MODBUS_TCP_SERVER_IDLE_CHECK_INTERVAL
    HeaderLength,      \* TF_MODBUS_TCP_HEADER_LENGTH
    PayloadLength      \* the payload length of each request of a connection

Connections == 1..MaxConnections
Requests == 1..MaxRequests

ASSUME CountsAssumption ==
    /\ MaxConnections \in Nat /\ MaxRequests \in Nat /\ MaxBacklog \in Nat
    /\ MaxClients \in Nat \ {0}
ASSUME TimesAssumption ==
    /\ MinDisplaceDelay \in Nat /\ MaxIdleDuration \in Nat /\ IdleCheckInterval \in Nat
ASSUME LengthsAssumption ==
    HeaderLength \in Nat \ {0} /\ PayloadLength \in [Requests -> Nat \ {0}]

None == 0

VARIABLES
    running,           \* server_fd >= 0
    callbacks,         \* whether the three callbacks are set
    non_reentrant,
    clients,           \* the list at client_sentinel; stale while tick() rebuilds it
    last_alive,        \* kept as the time since then, as far as it matters
    last_idle_check,   \* so is this
    header_used, header_checked, payload_used,   \* of pending_request, by client
    pc, after,
    readable,          \* what select() reported, None being the listening socket
    current,           \* the connection that tick() is busy with
    pending, finished, \* the lists at pending_head, also stop()'s, and finished_head
    sockets,           \* the connections whose socket is open
    backlog,           \* the connections that wait to be accepted
    arrived,           \* how many connections were made
    sent, gone,        \* how many requests the peer sent, and whether it has left
    read,              \* how many bytes of them were received
    told, handled      \* what the user was told, and given to handle

lifeVars    == <<running, callbacks>>
aliveVars   == <<last_alive, last_idle_check>>
requestVars == <<header_used, header_checked, payload_used, read>>
listVars    == <<clients, current, pending, finished>>
peerVars    == <<backlog, arrived, sent, gone>>
userVars    == <<told, handled>>
vars == <<lifeVars, non_reentrant, listVars, aliveVars, requestVars, pc, after,
          readable, sockets, peerVars, userVars>>

Reasons == {"NoFreeClient", "SocketReceiveFailed", "SocketSendFailed",
            "DisconnectedByPeer", "ProtocolError", "Displaced", "Idle", "ServerStopped"}

MaxPayloadLength == Max({0} \cup {PayloadLength[k] : k \in Requests})

MaxAge == IF MinDisplaceDelay < MaxIdleDuration THEN MaxIdleDuration ELSE MinDisplaceDelay

-----------------------------------------------------------------------------
(* The requests of a connection, as a sequence of bytes.                   *)

\* Where the k-th request ends.
End[k \in 0..MaxRequests] ==
    IF k = 0 THEN 0 ELSE End[k - 1] + HeaderLength + PayloadLength[k]

Unread(c) == End[sent[c]] - read[c]

\* The request that the header of pending_request is taken from.
Request(c) == LET start == read[c] - header_used[c] - payload_used[c]
              IN  CHOOSE k \in Requests : End[k - 1] <= start /\ start < End[k]

\* Bug: one byte more than the header is read into it.
HeaderAndMore(c) == HeaderLength + 1 - header_used[c]

HeaderMissing(c)  == HeaderLength - header_used[c]
PayloadMissing(c) == PayloadLength[Request(c)] - payload_used[c]

Init ==
    /\ running = FALSE /\ callbacks = FALSE
    /\ non_reentrant = FALSE
    /\ clients = <<>>
    /\ last_alive = [c \in Connections |-> 0]
    /\ last_idle_check = 0
    /\ header_used = [c \in Connections |-> 0]
    /\ header_checked = [c \in Connections |-> FALSE]
    /\ payload_used = [c \in Connections |-> 0]
    /\ pc = "user" /\ after = "main"
    /\ readable = {}
    /\ current = None
    /\ pending = <<>> /\ finished = <<>>
    /\ sockets = {}
    /\ backlog = <<>> /\ arrived = 0
    /\ sent = [c \in Connections |-> 0]
    /\ gone = [c \in Connections |-> FALSE]
    /\ read = [c \in Connections |-> 0]
    /\ told = [c \in Connections |-> "unknown"]
    /\ handled = [c \in Connections |-> 0]

-----------------------------------------------------------------------------
(* Callbacks.                                                              *)

\* Control goes to a callback, and on from there at "next".
CallBack(next) ==
    /\ pc' = "user"
    /\ after' = next

\* What was sent on a connection is lost with it, read or not.
Forget(c) ==
    /\ last_alive' = [last_alive EXCEPT ![c] = 0]
    /\ header_used' = [header_used EXCEPT ![c] = 0]
    /\ header_checked' = [header_checked EXCEPT ![c] = FALSE]
    /\ payload_used' = [payload_used EXCEPT ![c] = 0]
    /\ read' = [read EXCEPT ![c] = 0]
    /\ sent' = [sent EXCEPT ![c] = 0]
    /\ gone' = [gone EXCEPT ![c] = FALSE]

\* disconnect(): the socket is closed, the user is told, and the client is deleted.
Disconnect(c, reason, next) ==
    /\ sockets' = sockets \ {c}
    /\ told' = [told EXCEPT ![c] = reason]
    /\ Forget(c)
    /\ CallBack(next)
    /\ UNCHANGED <<running, callbacks, non_reentrant, last_idle_check, readable,
                   backlog, arrived, handled>>

CallbackReturns ==
    /\ pc = "user"
    /\ after # "main"
    /\ pc' = after
    /\ after' = "main"
    /\ UNCHANGED <<lifeVars, non_reentrant, listVars, aliveVars, requestVars, readable,
                   sockets, peerVars, userVars>>

-----------------------------------------------------------------------------
(* start() and stop().                                                     *)

Start ==
    /\ pc = "user"
    /\ ~non_reentrant
    /\ ~running
    /\ running' = TRUE
    /\ callbacks' = TRUE
    /\ UNCHANGED <<non_reentrant, listVars, aliveVars, requestVars, pc, after, readable,
                   sockets, peerVars, userVars>>

\* The listening socket is closed, and with it what waited there.
Stop ==
    /\ pc = "user"
    /\ ~non_reentrant
    /\ running
    /\ running' = FALSE
    /\ backlog' = <<>>
    /\ non_reentrant' = TRUE
    /\ pending' = clients
    /\ clients' = <<>>
    /\ pc' = "stop"
    /\ UNCHANGED <<callbacks, current, finished, aliveVars, requestVars, after, readable,
                   sockets, arrived, sent, gone, userVars>>

StopClient ==
    /\ pc = "stop"
    /\ pending # <<>>
    /\ pending' = Tail(pending)
    /\ Disconnect(Head(pending), "ServerStopped", "stop")
    /\ UNCHANGED <<clients, current, finished>>

Stopped ==
    /\ pc = "stop"
    /\ pending = <<>>
    /\ callbacks' = FALSE
    /\ non_reentrant' = FALSE
    /\ pc' = "user"
    /\ UNCHANGED <<running, listVars, aliveVars, requestVars, after, readable, sockets,
                   peerVars, userVars>>

-----------------------------------------------------------------------------
(* tick(): select() and the new connection.                                *)

\* Bug: tick() always returns early when nothing can be read.
IdleCheckNever == FALSE

IdleCheckDue == last_idle_check >= IdleCheckInterval

\* Bug: the listening socket is missing from the set that select() looks at.
ReportableClients == {c \in sockets : Unread(c) > 0 \/ gone[c]}

Reportable == {c \in sockets : Unread(c) > 0 \/ gone[c]}
                  \cup (IF backlog = <<>> THEN {} ELSE {None})

Tick ==
    /\ pc = "user"
    /\ ~non_reentrant
    /\ running
    /\ readable' \in SUBSET Reportable
    /\ readable' # {} \/ IdleCheckDue
    /\ non_reentrant' = TRUE
    /\ pc' = IF None \in readable' THEN "accept" ELSE "idle_check"
    /\ UNCHANGED <<lifeVars, listVars, aliveVars, requestVars, after, sockets, peerVars,
                   userVars>>

\* accept() fails, and tick() returns before any client was served.
AcceptFails ==
    /\ pc = "accept"
    /\ readable' = {}
    /\ non_reentrant' = FALSE
    /\ pc' = "user"
    /\ UNCHANGED <<lifeVars, listVars, aliveVars, requestVars, after, sockets, peerVars,
                   userVars>>

\* The user is told of every connection, and only then is a place looked for.
Accept ==
    /\ pc = "accept"
    /\ current' = Head(backlog)
    /\ backlog' = Tail(backlog)
    /\ sockets' = sockets \cup {current'}
    /\ told' = [told EXCEPT ![current'] = "connected"]
    /\ CallBack("displace")
    /\ UNCHANGED <<lifeVars, non_reentrant, clients, aliveVars, requestVars, pending,
                   finished, readable, arrived, sent, gone, handled>>

\* Bug: > instead of >=.
FullTooLate == Len(clients) > MaxClients

Full == Len(clients) >= MaxClients

\* The list is sorted by last_alive, so this is its last node.
LeastAlive == clients[Len(clients)]

\* Bug: the deadline is taken for elapsed only after it has passed.
DisplaceableLate(c) == last_alive[c] > MinDisplaceDelay

Displaceable(c) == last_alive[c] >= MinDisplaceDelay

\* Bug: the list keeps the client that was displaced.
DisplaceKeepsNode ==
    /\ pc = "displace"
    /\ Full /\ Displaceable(LeastAlive)
    /\ Disconnect(LeastAlive, "Displaced", "place")
    /\ UNCHANGED listVars

Displace ==
    /\ pc = "displace"
    /\ Full /\ Displaceable(LeastAlive)
    /\ clients' = Front(clients)
    /\ Disconnect(LeastAlive, "Displaced", "place")
    /\ UNCHANGED <<current, pending, finished>>

DisplaceNone ==
    /\ pc = "displace"
    /\ ~(Full /\ Displaceable(LeastAlive))
    /\ pc' = "place"
    /\ UNCHANGED <<lifeVars, non_reentrant, listVars, aliveVars, requestVars, after,
                   readable, sockets, peerVars, userVars>>

TurnAway ==
    /\ pc = "place"
    /\ Full
    /\ Disconnect(current, "NoFreeClient", "idle_check")
    /\ current' = None
    /\ UNCHANGED <<clients, pending, finished>>

Admit ==
    /\ pc = "place"
    /\ ~Full
    /\ clients' = <<current>> \o clients
    /\ last_alive' = [last_alive EXCEPT ![current] = 0]
    /\ header_used' = [header_used EXCEPT ![current] = 0]
    /\ header_checked' = [header_checked EXCEPT ![current] = FALSE]
    /\ payload_used' = [payload_used EXCEPT ![current] = 0]
    /\ current' = None
    /\ pc' = "idle_check"
    /\ UNCHANGED <<lifeVars, non_reentrant, pending, finished, last_idle_check, read,
                   after, readable, sockets, peerVars, userVars>>

-----------------------------------------------------------------------------
(* tick(): the list is taken apart.  Clients that were read from go to the *)
(* head of the new list, the others to its tail.                           *)

StartLoop ==
    /\ pc = "idle_check"
    /\ last_idle_check' = 0
    /\ pending' = clients
    /\ finished' = <<>>
    /\ pc' = "loop"
    /\ UNCHANGED <<lifeVars, non_reentrant, clients, current, last_alive, requestVars,
                   after, readable, sockets, peerVars, userVars>>

Idle(c) == last_alive[c] >= MaxIdleDuration

LoopIdle ==
    /\ pc = "loop"
    /\ pending # <<>> /\ Idle(Head(pending))
    /\ pending' = Tail(pending)
    /\ Disconnect(Head(pending), "Idle", "loop")
    /\ UNCHANGED <<clients, current, finished>>

\* Bug: a client that was not read from goes to the head of the list, too.
KeptAtHead(c) == <<c>> \o finished

KeptUnread(c) == Append(finished, c)

LoopUnreadable ==
    /\ pc = "loop"
    /\ pending # <<>> /\ ~Idle(Head(pending))
    /\ Head(pending) \notin readable
    /\ pending' = Tail(pending)
    /\ finished' = KeptUnread(Head(pending))
    /\ UNCHANGED <<lifeVars, non_reentrant, clients, current, aliveVars, requestVars,
                   pc, after, readable, sockets, peerVars, userVars>>

LoopReadable ==
    /\ pc = "loop"
    /\ pending # <<>> /\ ~Idle(Head(pending))
    /\ Head(pending) \in readable
    /\ pending' = Tail(pending)
    /\ current' = Head(pending)
    /\ last_alive' = [last_alive EXCEPT ![current'] = 0]
    /\ pc' = IF HeaderMissing(current') > 0 THEN "recv_header" ELSE "check_header"
    /\ UNCHANGED <<lifeVars, non_reentrant, clients, finished, last_idle_check,
                   requestVars, after, readable, sockets, peerVars, userVars>>

LoopEnds ==
    /\ pc = "loop"
    /\ pending = <<>>
    /\ clients' = finished
    /\ finished' = <<>>
    /\ readable' = {}
    /\ non_reentrant' = FALSE
    /\ pc' = "user"
    /\ UNCHANGED <<lifeVars, current, pending, aliveVars, requestVars, after, sockets,
                   peerVars, userVars>>

\* The loop goes on, with or without the client it was busy with.
Keep ==
    /\ finished' = <<current>> \o finished
    /\ current' = None
    /\ pc' = "loop"
    /\ UNCHANGED <<lifeVars, non_reentrant, clients, pending, aliveVars, after, readable,
                   sockets, peerVars, userVars>>

Drop(reason) ==
    /\ Disconnect(current, reason, "loop")
    /\ current' = None
    /\ UNCHANGED <<clients, pending, finished>>

-----------------------------------------------------------------------------
(* tick(): one request of the current client.                              *)

\* n more bytes of pending_request are there.
HeaderGrows(n) ==
    /\ pc = "recv_header"
    /\ n <= HeaderMissing(current)
    /\ header_used' = [header_used EXCEPT ![current] = @ + n]
    /\ IF n = HeaderMissing(current)
       THEN /\ pc' = "check_header"
            /\ UNCHANGED <<lifeVars, non_reentrant, listVars, aliveVars, after, readable,
                           sockets, peerVars, userVars>>
       ELSE Keep
    /\ UNCHANGED <<header_checked, payload_used>>

PayloadGrows(n) ==
    /\ pc = "recv_payload"
    /\ n <= PayloadMissing(current)
    /\ payload_used' = [payload_used EXCEPT ![current] = @ + n]
    /\ IF n = PayloadMissing(current)
       THEN /\ pc' = "execute"
            /\ UNCHANGED <<lifeVars, non_reentrant, listVars, aliveVars, after, readable,
                           sockets, peerVars, userVars>>
       ELSE Keep
    /\ UNCHANGED <<header_used, header_checked>>

RecvSome ==
    /\ pc \in {"recv_header", "recv_payload"}
    /\ \E n \in 1..Unread(current) :
           /\ HeaderGrows(n) \/ PayloadGrows(n)
           /\ read' = [read EXCEPT ![current] = @ + n]

\* EAGAIN
RecvNothing ==
    /\ pc \in {"recv_header", "recv_payload"}
    /\ Keep
    /\ UNCHANGED requestVars

\* recv() returns zero when all was read, or an error, that the peer has reset the
\* connection: then what was not read is lost.
RecvFails ==
    /\ pc \in {"recv_header", "recv_payload"}
    /\ gone[current]
    /\ \/ Unread(current) = 0 /\ Drop("DisconnectedByPeer")
       \/ Drop("SocketReceiveFailed")

CheckHeader ==
    /\ pc = "check_header"
    /\ header_checked' = [header_checked EXCEPT ![current] = TRUE]
    /\ pc' = IF PayloadMissing(current) > 0 THEN "recv_payload" ELSE "execute"
    /\ UNCHANGED <<lifeVars, non_reentrant, listVars, aliveVars, header_used, payload_used,
                   read, after, readable, sockets, peerVars, userVars>>

HeaderIsBad ==
    /\ pc = "check_header"
    /\ ~header_checked[current]
    /\ Drop("ProtocolError")

\* The request is given to the user, and its exception code decides what comes next.
CallRequest ==
    /\ pc = "execute"
    /\ handled' = [handled EXCEPT ![current] = @ + 1]
    /\ CallBack("respond")
    /\ UNCHANGED <<lifeVars, non_reentrant, listVars, aliveVars, requestVars, readable,
                   sockets, peerVars, told>>

\* IllegalFunction and IllegalDataValue are found without the user.
Refuse ==
    /\ pc = "execute"
    /\ pc' = "respond"
    /\ UNCHANGED <<lifeVars, non_reentrant, listVars, aliveVars, requestVars, after,
                   readable, sockets, peerVars, userVars>>

PayloadIsBad ==
    /\ pc = "execute"
    /\ Drop("ProtocolError")

\* Bug: payload_used is not reset for the next request.
ResetHeader(c) ==
    /\ header_used' = [header_used EXCEPT ![c] = 0]
    /\ header_checked' = [header_checked EXCEPT ![c] = FALSE]
    /\ UNCHANGED payload_used

ResetRequest(c) ==
    /\ header_used' = [header_used EXCEPT ![c] = 0]
    /\ header_checked' = [header_checked EXCEPT ![c] = FALSE]
    /\ payload_used' = [payload_used EXCEPT ![c] = 0]

\* The response was sent, as far as it could be, or the user asked for none.
Responded ==
    /\ pc = "respond"
    /\ ResetRequest(current)
    /\ UNCHANGED read
    /\ Keep

SendFails ==
    /\ pc = "respond"
    /\ gone[current]
    /\ Drop("SocketSendFailed")

-----------------------------------------------------------------------------
(* Peers and time.                                                         *)

\* A peer connects, the listening socket permitting.
Connect ==
    /\ pc = "user"
    /\ running
    /\ arrived < MaxConnections
    /\ Len(backlog) < MaxBacklog
    /\ arrived' = arrived + 1
    /\ backlog' = Append(backlog, arrived')
    /\ UNCHANGED <<lifeVars, non_reentrant, listVars, aliveVars, requestVars, pc, after,
                   readable, sockets, sent, gone, userVars>>

Send(c) ==
    /\ pc = "user"
    /\ c <= arrived /\ told[c] \in {"unknown", "connected"} /\ ~gone[c]
    /\ sent[c] < MaxRequests
    /\ sent' = [sent EXCEPT ![c] = @ + 1]
    /\ UNCHANGED <<lifeVars, non_reentrant, listVars, aliveVars, requestVars, pc, after,
                   readable, sockets, backlog, arrived, gone, userVars>>

Leave(c) ==
    /\ pc = "user"
    /\ c <= arrived /\ told[c] \in {"unknown", "connected"} /\ ~gone[c]
    /\ gone' = [gone EXCEPT ![c] = TRUE]
    /\ UNCHANGED <<lifeVars, non_reentrant, listVars, aliveVars, requestVars, pc, after,
                   readable, sockets, backlog, arrived, sent, userVars>>

Older(age, bound) == IF age < bound THEN age + 1 ELSE age

Elapse ==
    /\ pc = "user"
    /\ last_alive' = [c \in Connections |->
                         IF c \in sockets THEN Older(last_alive[c], MaxAge) ELSE last_alive[c]]
    /\ last_idle_check' = Older(last_idle_check, IdleCheckInterval)
    /\ UNCHANGED <<lifeVars, non_reentrant, listVars, requestVars, pc, after, readable,
                   sockets, peerVars, userVars>>

-----------------------------------------------------------------------------

Serve ==
    \/ RecvSome \/ RecvNothing \/ RecvFails
    \/ CheckHeader \/ HeaderIsBad
    \/ CallRequest \/ Refuse \/ PayloadIsBad
    \/ Responded \/ SendFails

LibraryStep ==
    \/ StopClient \/ Stopped
    \/ AcceptFails \/ Accept
    \/ Displace \/ DisplaceNone \/ TurnAway \/ Admit
    \/ StartLoop \/ LoopIdle \/ LoopUnreadable \/ LoopReadable \/ LoopEnds
    \/ Serve

Next ==
    \/ Start \/ Stop \/ Tick
    \/ CallbackReturns
    \/ LibraryStep
    \/ Connect \/ \E c \in Connections : Send(c) \/ Leave(c)
    \/ Elapse

Spec == Init /\ [][Next]_vars

\* The library runs on, callbacks return, time passes, and the main loop calls tick()
\* again and again in a moment when select() reports all there is.  accept() does not
\* fail for ever, nor does recv() say EAGAIN for ever when there is something to read.
Fairness ==
    /\ WF_vars(LibraryStep)
    /\ WF_vars(CallbackReturns)
    /\ SF_vars(Tick /\ readable' = Reportable)
    /\ SF_vars(Accept)
    /\ \A c \in Connections : SF_vars(current = c /\ (RecvSome \/ RecvFails))
    /\ SF_vars(Elapse)

FairSpec == Spec /\ Fairness

-----------------------------------------------------------------------------
(* Properties.                                                             *)

Labels == {"user", "stop", "accept", "displace", "place", "idle_check", "loop",
           "recv_header", "check_header", "recv_payload", "execute", "respond"}
Resumes == {"main", "stop", "displace", "place", "idle_check", "loop", "respond"}

\* Every variable has the type of the C++ member it stands for, and what is used of a
\* request fits its buffers.
TypeOK ==
    /\ running \in BOOLEAN /\ callbacks \in BOOLEAN
    /\ non_reentrant \in BOOLEAN
    /\ clients \in Seq(Connections)
    /\ last_alive \in [Connections -> 0..MaxAge]
    /\ last_idle_check \in 0..IdleCheckInterval
    /\ header_used \in [Connections -> 0..HeaderLength]
    /\ header_checked \in [Connections -> BOOLEAN]
    /\ payload_used \in [Connections -> 0..MaxPayloadLength]
    /\ pc \in Labels /\ after \in Resumes
    /\ readable \subseteq Connections \cup {None}
    /\ current \in Connections \cup {None}
    /\ pending \in Seq(Connections) /\ finished \in Seq(Connections)
    /\ sockets \subseteq Connections
    /\ backlog \in Seq(Connections)
    /\ arrived \in 0..MaxConnections
    /\ sent \in [Connections -> 0..MaxRequests]
    /\ gone \in [Connections -> BOOLEAN]
    /\ read \in [Connections -> Nat]
    /\ told \in [Connections -> Reasons \cup {"unknown", "connected"}]
    /\ handled \in [Connections -> 0..MaxRequests]

\* Where the server is, or goes on when the callback has returned.
At == IF pc = "user" THEN after ELSE pc

InLoop == At \in {"loop", "recv_header", "check_header", "recv_payload", "execute", "respond"}

\* The clients that the server can still reach, in the order of its lists.
Reached == (IF current = None THEN <<>> ELSE <<current>>)
               \o (IF InLoop THEN finished \o pending ELSE clients \o pending)

\* However tick() and stop() take the list apart, every connection that was announced
\* and not taken back is in one list, once, and its socket is open; no other is.  And the
\* callbacks that they call for it are set.
ListIntact ==
    /\ At # "main" => callbacks
    /\ IsInjective(Reached)
    /\ ToSet(Reached) = sockets
    /\ sockets = {c \in Connections : told[c] = "connected"}

\* The next byte of a client is taken for what it is: pending_request holds the first
\* bytes of a request that follows whole ones, of which each was handled at most once.
InStep ==
    \A c \in sockets :
        \E k \in 0..sent[c] :
            /\ read[c] = End[k] + header_used[c] + payload_used[c]
            /\ handled[c] <= k + (IF At = "respond" /\ c = current THEN 1 ELSE 0)
            /\ payload_used[c] > 0 => header_used[c] = HeaderLength /\ header_checked[c]

\* Only the client is displaced that was silent for longest, and for long enough.
DisplacesLeastAlive ==
    [][\A c \in sockets :
           told'[c] = "Displaced" =>
               /\ last_alive[c] >= MinDisplaceDelay
               /\ \A d \in sockets \ {current} : last_alive[d] <= last_alive[c]]_vars

\* A connection is turned away only if every place is taken by a client that has not
\* been silent long enough to be displaced.
TurnsAwayOnlyWhenBusy ==
    [][\A c \in sockets :
           told'[c] = "NoFreeClient" =>
               /\ Cardinality(sockets \ {c}) >= MaxClients
               /\ \A d \in sockets \ {c} : last_alive[d] < MinDisplaceDelay]_vars

\* The server keeps the promises of ServerContract.
Contract == INSTANCE ServerContract
ImplementsContract == Contract!Spec

\* Every connection that was announced is taken back: no client can keep its place for
\* ever by being silent, and none that has left keeps it.
EachIsTakenBack ==
    \A c \in Connections : told[c] = "connected" ~> told[c] # "connected"

\* Every connection that waits is accepted, or refused by stop().
EachIsAccepted ==
    \A c \in Connections : c \in ToSet(backlog) ~> c \notin ToSet(backlog)

=============================================================================
