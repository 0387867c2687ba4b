-------------------------- MODULE GenericTCPClient ----------------------------
(***************************************************************************)
(* TFGenericTCPClient: the connection life cycle every client of the       *)
(* library is built on.  The object is single threaded.  Its hard part is  *)
(* that it calls its user back, from inside tick() and disconnect(), and   *)
(* that the user may call it again from there; and that the answer of the  *)
(* resolver may come at any later turn of the main loop.                   *)
(*                                                                         *)
(* The call stack is explicit.  "pc" says where control is:                *)
(*   "user"       with the user: the main loop if stack = <<>>, else the   *)
(*                callback last invoked by the top frame                   *)
(*   "callbacks"  with the library, about to make the next call the top    *)
(*                frame has to make                                        *)
(*   "tick_hook", "connect", "opened", "recv", "leave"   inside tick() or  *)
(*                connect(), see the actions                               *)
(* A frame is a library function that is calling back: the calls it still  *)
(* has to make, from the std::function objects it moved to its locals, and *)
(* where it goes on afterwards.                                            *)
(*                                                                         *)
(* An accepted call of connect() is an attempt, numbered in order; its     *)
(* number stands for its host, port and both callbacks, 0 for nullptr.     *)
(***************************************************************************)
EXTENDS Naturals, Sequences

CONSTANTS
    Sockets,         \* the file descriptors the kernel can hand out
    NoSocket,        \* -1
    MaxAttempts,     \* bound: calls of connect() that are accepted
    ResolveIds,      \* the range of resolve_id, 2^32 in the code
    ConnectTimeout,  \* TF_GENERIC_TCP_CLIENT_CONNECT_TIMEOUT
    MaxDepth         \* bound: how deep the user nests calls inside callbacks

ASSUME SocketsAssumption == NoSocket \notin Sockets
ASSUME MaxAttemptsAssumption == MaxAttempts \in Nat
ASSUME ResolveIdsAssumption == ResolveIds \in Nat /\ MaxAttempts < ResolveIds
ASSUME ConnectTimeoutAssumption == ConnectTimeout \in Nat
ASSUME MaxDepthAssumption == MaxDepth \in Nat \ {0}

Null == 0
Attempts == 1..MaxAttempts

VARIABLES
    non_reentrant, host, connect_callback, pending_disconnect_callback,
    disconnect_callback, resolve_pending, resolve_id, pending_host_address,
    pending_host_address_valid, pending_socket_fd, connect_deadline, socket_fd,
    pc, stack,
    resolves,      \* calls of the resolver that it has not answered yet
    open_sockets,  \* descriptors the kernel has open for this client
    peer,          \* the attempt whose host the last ::connect() went to
    accepted,      \* how many calls of connect() were accepted
    delivered      \* what the callbacks of each attempt were called with

callbackVars == <<connect_callback, pending_disconnect_callback, disconnect_callback>>
addressVars  == <<resolve_id, pending_host_address, resolves>>
controlVars  == <<non_reentrant, pc, stack>>
historyVars  == <<accepted, delivered>>
connectionVars == <<host, callbackVars, resolve_pending, pending_host_address_valid,
                    pending_socket_fd, socket_fd, open_sockets>>
vars == <<connectionVars, addressVars, connect_deadline, peer, controlVars, historyVars>>

-----------------------------------------------------------------------------
Init ==
    /\ non_reentrant = FALSE
    /\ host = Null
    /\ connect_callback = Null
    /\ pending_disconnect_callback = Null
    /\ disconnect_callback = Null
    /\ resolve_pending = FALSE
    /\ resolve_id = 0
    /\ pending_host_address = Null
    /\ pending_host_address_valid = FALSE
    /\ pending_socket_fd = NoSocket
    /\ connect_deadline = 0
    /\ socket_fd = NoSocket
    /\ pc = "user"
    /\ stack = <<>>
    /\ resolves = {}
    /\ open_sockets = {}
    /\ peer = Null
    /\ accepted = 0
    /\ delivered = [a \in Attempts \cup {Null} |-> <<>>]

-----------------------------------------------------------------------------
(* Calling back.                                                           *)

Call(a, event) == [attempt |-> a, event |-> event]

Reports == {"Connected", "Failed", "Disconnected"}

\* A subclass's transaction callback; a call of connect() that is turned down
\* at once through the callback it was given.  They concern no attempt.
TransactionCall == Call(Null, "Transaction")
RefusalCall == Call(Null, "Refused")

Top == stack[Len(stack)]

Suspend(calls, resume) ==
    /\ stack' = Append(stack, [todo |-> calls, resume |-> resume])
    /\ pc' = "callbacks"

\* The library makes the next call of the top frame.
InvokeCallback ==
    /\ pc = "callbacks"
    /\ Top.todo # <<>>
    /\ stack' = [stack EXCEPT ![Len(stack)].todo = Tail(@)]
    /\ delivered' = LET c == Head(Top.todo) IN
                    IF c.event \in Reports
                    THEN [delivered EXCEPT ![c.attempt] = Append(@, c.event)]
                    ELSE delivered
    /\ pc' = "user"
    /\ UNCHANGED <<connectionVars, addressVars, connect_deadline, peer,
                   non_reentrant, accepted>>

\* The user's callback returns.
CallbackReturns ==
    /\ pc = "user"
    /\ stack # <<>>
    /\ pc' = "callbacks"
    /\ UNCHANGED <<connectionVars, addressVars, connect_deadline, peer,
                   non_reentrant, stack, historyVars>>

\* The library has made all calls of the top frame and goes on.
Resume ==
    /\ pc = "callbacks"
    /\ Top.todo = <<>>
    /\ pc' = Top.resume
    /\ stack' = SubSeq(stack, 1, Len(stack) - 1)
    /\ UNCHANGED <<connectionVars, addressVars, connect_deadline, peer,
                   non_reentrant, historyVars>>

\* NonReentrantScope: entered by connect(), disconnect() and tick() ...
EnterScope == ~non_reentrant /\ non_reentrant' = TRUE

\* ... and left when the function returns to its caller.
LeaveScope ==
    /\ pc = "leave"
    /\ non_reentrant' = FALSE
    /\ pc' = "user"
    /\ UNCHANGED <<connectionVars, addressVars, connect_deadline, peer, stack,
                   historyVars>>

-----------------------------------------------------------------------------
(* Closing.                                                                *)

\* Bug: only the connected socket is closed.
ClosesConnectedOnly ==
    /\ open_sockets' = open_sockets \ {socket_fd}
    /\ pending_socket_fd' = NoSocket
    /\ socket_fd' = NoSocket

CloseSockets ==
    /\ open_sockets' = open_sockets \ {pending_socket_fd, socket_fd}
    /\ pending_socket_fd' = NoSocket
    /\ socket_fd' = NoSocket

\* Bug: the disconnect callback of an attempt that never connected is kept.
ClearsTwoCallbacks ==
    /\ connect_callback' = Null
    /\ disconnect_callback' = Null
    /\ UNCHANGED pending_disconnect_callback

ClearCallbacks ==
    /\ connect_callback' = Null
    /\ pending_disconnect_callback' = Null
    /\ disconnect_callback' = Null

\* close(), up to its call of close_hook().
Close ==
    /\ CloseSockets
    /\ host' = Null
    /\ ClearCallbacks
    /\ resolve_pending' = FALSE
    /\ pending_host_address_valid' = FALSE

\* What close_hook() may call: a connected subclass aborts its transactions.
\* One call stands for any number of them.
CloseHookCalls == IF socket_fd # NoSocket THEN {<<>>, <<TransactionCall>>} ELSE {<<>>}

\* abort_connect(), called by a function that goes on at "resume".  Like the
\* code it calls connect_callback whether or not there is one.
AbortConnect(resume) ==
    /\ Close
    /\ \E calls \in CloseHookCalls :
           Suspend(Append(calls, Call(connect_callback, "Failed")), resume)

\* The protected disconnect(reason, error_number).
DisconnectWithReason(resume) ==
    /\ Close
    /\ \E calls \in CloseHookCalls :
           Suspend(Append(calls, Call(disconnect_callback, "Disconnected")), resume)

-----------------------------------------------------------------------------
(* The user's calls.                                                       *)

UserMayCall == pc = "user"
UserMayNest == UserMayCall /\ Len(stack) < MaxDepth

\* connect(), accepted.
ConnectAccepted ==
    /\ UserMayCall
    /\ ~non_reentrant
    /\ host = Null
    /\ accepted < MaxAttempts
    /\ accepted' = accepted + 1
    /\ host' = accepted'
    /\ connect_callback' = accepted'
    /\ pending_disconnect_callback' = accepted'
    /\ UNCHANGED <<disconnect_callback, resolve_pending, pending_host_address_valid,
                   pending_socket_fd, socket_fd, open_sockets, addressVars,
                   connect_deadline, peer, controlVars, delivered>>

\* Bug: the scope is entered before non_reentrant is looked at, and lifts the
\* guard of the function it was called from when it is left.
RefusalLiftsGuard ==
    /\ UserMayNest
    /\ non_reentrant
    /\ Suspend(<<RefusalCall>>, "leave")
    /\ UNCHANGED <<connectionVars, addressVars, connect_deadline, peer,
                   non_reentrant, historyVars>>

\* connect(), turned down with NonReentrant: before any scope is entered.
ConnectNonReentrant ==
    /\ UserMayNest
    /\ non_reentrant
    /\ Suspend(<<RefusalCall>>, "user")
    /\ UNCHANGED <<connectionVars, addressVars, connect_deadline, peer,
                   non_reentrant, historyVars>>

\* connect(), turned down with InvalidArgument (at any time) or AlreadyConnected
\* (when there is a host), in the scope of connect().
ConnectRefused ==
    /\ UserMayNest
    /\ EnterScope
    /\ Suspend(<<RefusalCall>>, "leave")
    /\ UNCHANGED <<connectionVars, addressVars, connect_deadline, peer, historyVars>>

ConnectCallIfAny == IF connect_callback # Null
                    THEN <<Call(connect_callback, "Failed")>> ELSE <<>>
DisconnectCallIfAny == IF disconnect_callback # Null
                       THEN <<Call(disconnect_callback, "Disconnected")>> ELSE <<>>

\* Bug: only an established connection is reported.
ReportsConnectedOnly == DisconnectCallIfAny

\* AbortRequested to the connect callback, Requested to the disconnect callback,
\* each if there is one.
DisconnectCalls == ConnectCallIfAny \o DisconnectCallIfAny

\* Bug: disconnect() is not guarded against calls from its own callbacks.
DisconnectUnguarded ==
    /\ UserMayNest
    /\ ~non_reentrant
    /\ host # Null
    /\ Close
    /\ \E calls \in CloseHookCalls : Suspend(calls \o DisconnectCalls, "user")
    /\ UNCHANGED <<addressVars, connect_deadline, peer, non_reentrant, historyVars>>

\* The public disconnect(); NonReentrant and NotConnected change nothing.
Disconnect ==
    /\ UserMayNest
    /\ EnterScope
    /\ host # Null
    /\ Close
    /\ \E calls \in CloseHookCalls : Suspend(calls \o DisconnectCalls, "leave")
    /\ UNCHANGED <<addressVars, connect_deadline, peer, historyVars>>

\* tick(); NonReentrant and no host change nothing.
Tick ==
    /\ UserMayNest
    /\ EnterScope
    /\ host # Null
    /\ pc' = "tick_hook"
    /\ UNCHANGED <<connectionVars, addressVars, connect_deadline, peer, stack, historyVars>>

-----------------------------------------------------------------------------
(* The steps of tick().                                                    *)

\* The subclass's tick_hook(): it may finish transactions, one after another,
\* and disconnect when sending fails.  Both only happen while connected.
TickHook ==
    /\ pc = "tick_hook"
    /\ \/ /\ pc' = "connect"
          /\ UNCHANGED <<connectionVars, stack>>
       \/ /\ socket_fd # NoSocket
          /\ Suspend(<<TransactionCall>>, "tick_hook")
          /\ UNCHANGED connectionVars
       \/ /\ socket_fd # NoSocket
          /\ DisconnectWithReason("connect")
    /\ UNCHANGED <<addressVars, connect_deadline, peer, non_reentrant, historyVars>>

Connecting == pc = "connect" /\ host # Null /\ socket_fd = NoSocket

\* tick() has nothing to connect.
SkipConnect ==
    /\ pc = "connect"
    /\ host = Null \/ socket_fd # NoSocket
    /\ pc' = "recv"
    /\ UNCHANGED <<connectionVars, addressVars, connect_deadline, peer, non_reentrant,
                   stack, historyVars>>

NeedsAddress ==
    /\ Connecting
    /\ ~resolve_pending
    /\ ~pending_host_address_valid
    /\ pending_socket_fd = NoSocket

\* TFNetwork::resolve() is called and will answer later.
ResolveLater ==
    /\ NeedsAddress
    /\ resolve_pending' = TRUE
    /\ resolve_id' = (resolve_id + 1) % ResolveIds
    /\ resolves' = resolves \cup {[id |-> resolve_id', host |-> host]}
    /\ pc' = "leave"
    /\ UNCHANGED <<host, callbackVars, pending_host_address_valid, pending_socket_fd,
                   socket_fd, open_sockets, pending_host_address, connect_deadline,
                   peer, non_reentrant, stack, historyVars>>

\* TFNetwork::resolve() is called and answers before it returns.
ResolveNow ==
    /\ NeedsAddress
    /\ resolve_id' = (resolve_id + 1) % ResolveIds
    /\ \/ /\ pending_host_address' = host
          /\ pending_host_address_valid' = TRUE
          /\ UNCHANGED <<host, callbackVars, resolve_pending, pending_socket_fd,
                         socket_fd, open_sockets, pc, stack>>
       \/ /\ AbortConnect("leave")
          /\ UNCHANGED pending_host_address
    /\ UNCHANGED <<resolves, connect_deadline, peer, non_reentrant, historyVars>>

\* tick() waits for the answer of the resolver.
WaitForResolver ==
    /\ Connecting
    /\ resolve_pending
    /\ pending_socket_fd = NoSocket
    /\ ~pending_host_address_valid
    /\ pc' = "leave"
    /\ UNCHANGED <<connectionVars, addressVars, connect_deadline, peer, non_reentrant,
                   stack, historyVars>>

\* socket(); the address type is unknown, or there is no descriptor left.
OpenSocket ==
    /\ Connecting
    /\ pending_socket_fd = NoSocket
    /\ pending_host_address_valid
    /\ \/ \E fd \in Sockets \ open_sockets :
              /\ pending_socket_fd' = fd
              /\ open_sockets' = open_sockets \cup {fd}
              /\ pc' = "opened"
              /\ UNCHANGED <<host, callbackVars, resolve_pending,
                             pending_host_address_valid, socket_fd, stack>>
       \/ AbortConnect("leave")
    /\ UNCHANGED <<addressVars, connect_deadline, peer, non_reentrant, historyVars>>

\* Bug: one tick too many.
LongerDeadline == ConnectTimeout + 1

\* calculate_deadline(): the time left when connect_deadline is set.
NewDeadline == ConnectTimeout

\* fcntl() twice and ::connect(), each of which may fail.
ConnectSocket ==
    /\ pc = "opened"
    /\ \/ /\ peer' = pending_host_address
          /\ pending_host_address_valid' = FALSE
          /\ connect_deadline' = NewDeadline
          /\ pc' = "connect"
          /\ UNCHANGED <<host, callbackVars, resolve_pending, pending_socket_fd,
                         socket_fd, open_sockets, stack>>
       \/ /\ AbortConnect("leave")
          /\ UNCHANGED <<connect_deadline, peer>>
    /\ UNCHANGED <<addressVars, non_reentrant, historyVars>>

\* The socket is pending: the deadline first, then select() and getsockopt().
Polling == Connecting /\ pending_socket_fd # NoSocket

ConnectTimesOut ==
    /\ Polling
    /\ connect_deadline = 0
    /\ AbortConnect("leave")
    /\ UNCHANGED <<addressVars, connect_deadline, peer, non_reentrant, historyVars>>

\* Bug: every look at the socket grants it the whole timeout again.
DeadlineRearmed ==
    /\ Polling
    /\ connect_deadline > 0
    /\ connect_deadline' = ConnectTimeout
    /\ pc' = "leave"
    /\ UNCHANGED <<connectionVars, addressVars, peer, non_reentrant, stack, historyVars>>

StillConnecting ==
    /\ Polling
    /\ connect_deadline > 0
    /\ pc' = "leave"
    /\ UNCHANGED <<connectionVars, addressVars, connect_deadline, peer, non_reentrant,
                   stack, historyVars>>

ConnectFails ==
    /\ Polling
    /\ connect_deadline > 0
    /\ AbortConnect("leave")
    /\ UNCHANGED <<addressVars, connect_deadline, peer, non_reentrant, historyVars>>

Connected ==
    /\ Polling
    /\ connect_deadline > 0
    /\ socket_fd' = pending_socket_fd
    /\ pending_socket_fd' = NoSocket
    /\ connect_callback' = Null
    /\ disconnect_callback' = pending_disconnect_callback
    /\ pending_disconnect_callback' = Null
    /\ Suspend(<<Call(connect_callback, "Connected")>>, "recv")
    /\ UNCHANGED <<host, resolve_pending, pending_host_address_valid, open_sockets,
                   addressVars, connect_deadline, peer, non_reentrant, historyVars>>

\* The loop over recv_hook(): it may finish transactions, one after another, and
\* ends when there is no data left, when its time is up, or by disconnecting.
Receive ==
    /\ pc = "recv"
    /\ \/ /\ pc' = "leave"
          /\ UNCHANGED <<connectionVars, stack>>
       \/ /\ socket_fd # NoSocket
          /\ Suspend(<<TransactionCall>>, "recv")
          /\ UNCHANGED connectionVars
       \/ /\ socket_fd # NoSocket
          /\ DisconnectWithReason("leave")
    /\ UNCHANGED <<addressVars, connect_deadline, peer, non_reentrant, historyVars>>

-----------------------------------------------------------------------------
(* The environment.                                                        *)

AtMainLoop == pc = "user" /\ stack = <<>>

\* Bugs: an answer is taken for the resolve in progress without a look at its
\* id, or for one in progress when none is.
AnyAnswerIsCurrent(r) == resolve_pending
LastAnswerIsCurrent(r) == r.id = resolve_id

AnswerIsCurrent(r) == resolve_pending /\ r.id = resolve_id

\* The lambda given to TFNetwork::resolve(), run by the main loop.  No scope is
\* entered: non_reentrant is FALSE in the callback a failure calls.
ResolveAnswer(r) ==
    /\ AtMainLoop
    /\ r \in resolves
    /\ resolves' = resolves \ {r}
    /\ \/ /\ ~AnswerIsCurrent(r)
          /\ UNCHANGED <<connectionVars, pending_host_address, pc, stack>>
       \/ /\ AnswerIsCurrent(r)
          /\ AbortConnect("user")
          /\ UNCHANGED pending_host_address
       \/ /\ AnswerIsCurrent(r)
          /\ resolve_pending' = FALSE
          /\ pending_host_address' = r.host
          /\ pending_host_address_valid' = TRUE
          /\ UNCHANGED <<host, callbackVars, pending_socket_fd, socket_fd, open_sockets,
                         pc, stack>>
    /\ UNCHANGED <<resolve_id, connect_deadline, peer, non_reentrant, historyVars>>

\* Time passes.  connect_deadline is kept as the time left; it is only read
\* while a socket is pending.
Elapse ==
    /\ UserMayCall
    /\ pending_socket_fd # NoSocket
    /\ connect_deadline > 0
    /\ connect_deadline' = connect_deadline - 1
    /\ UNCHANGED <<connectionVars, addressVars, peer, controlVars, historyVars>>

-----------------------------------------------------------------------------
UserStep == ConnectAccepted \/ ConnectNonReentrant \/ ConnectRefused \/ Disconnect \/ Tick

LibraryStep ==
    \/ InvokeCallback \/ Resume \/ LeaveScope
    \/ TickHook \/ SkipConnect \/ ResolveLater \/ ResolveNow \/ WaitForResolver
    \/ OpenSocket \/ ConnectSocket
    \/ ConnectTimesOut \/ StillConnecting \/ ConnectFails \/ Connected
    \/ Receive

Next ==
    \/ UserStep
    \/ CallbackReturns
    \/ LibraryStep
    \/ \E r \in resolves : ResolveAnswer(r)
    \/ Elapse

Spec == Init /\ [][Next]_vars

\* The library runs on; callbacks return; the main loop keeps calling tick();
\* time passes; and the resolver answers.  Strong fairness, because the user may
\* keep making calls that change nothing in between.
Fairness ==
    /\ WF_vars(LibraryStep)
    /\ \A d \in 1..MaxDepth : SF_vars(CallbackReturns /\ Len(stack) = d)
    /\ SF_vars(Tick /\ stack = <<>>)
    /\ SF_vars(Elapse)
    /\ SF_vars(\E r \in resolves : ResolveAnswer(r))

FairSpec == Spec /\ Fairness

-----------------------------------------------------------------------------
(* What the user sees, and the properties.                                 *)

\* get_connection_status().
ConnectionStatus ==
    IF socket_fd # NoSocket THEN "Connected"
    ELSE IF host # Null THEN "InProgress" ELSE "Disconnected"

Scoped == {"tick_hook", "connect", "opened", "recv", "leave"}
Labels == Scoped \cup {"user", "callbacks"}
Calls == [attempt : Attempts \cup {Null}, event : Reports \cup {"Transaction", "Refused"}]
Frames == [todo : Seq(Calls), resume : {"user", "tick_hook", "connect", "recv", "leave"}]

\* Every variable has the type of the C++ member it stands for.
TypeOK ==
    /\ non_reentrant \in BOOLEAN
    /\ {host, connect_callback, pending_disconnect_callback, disconnect_callback,
        pending_host_address, peer} \subseteq Attempts \cup {Null}
    /\ resolve_pending \in BOOLEAN
    /\ resolve_id \in 0..(ResolveIds - 1)
    /\ pending_host_address_valid \in BOOLEAN
    /\ {pending_socket_fd, socket_fd} \subseteq Sockets \cup {NoSocket}
    /\ connect_deadline \in 0..ConnectTimeout
    /\ pc \in Labels
    /\ stack \in Seq(Frames)
    /\ pc = "callbacks" => stack # <<>>
    /\ resolves \subseteq [id : 0..(ResolveIds - 1), host : Attempts]
    /\ open_sockets \subseteq Sockets
    /\ accepted \in 0..MaxAttempts
    /\ delivered \in [Attempts \cup {Null} -> Seq(Reports)]

\* The descriptors the kernel holds for the client are exactly the ones its
\* members name: none is leaked, none is used after it was closed, on any of the
\* paths through close(), abort_connect() and disconnect().
NoSocketLeak == open_sockets = {pending_socket_fd, socket_fd} \ {NoSocket}

\* The callbacks an attempt may still run are exactly those its state calls for:
\* its connect callback until it is connected, its disconnect callback from then
\* on, and the callbacks of no earlier attempt.
CallbackOwnership ==
    CASE ConnectionStatus = "Disconnected" ->
            connect_callback = Null /\ pending_disconnect_callback = Null
                                    /\ disconnect_callback = Null
      [] ConnectionStatus = "InProgress" ->
            connect_callback = host /\ pending_disconnect_callback = host
                                    /\ disconnect_callback = Null
      [] ConnectionStatus = "Connected" ->
            connect_callback = Null /\ pending_disconnect_callback = Null
                                    /\ disconnect_callback = host

\* No empty std::function is ever called: abort_connect() and the protected
\* disconnect() call theirs without looking (TFGenericTCPClient.cpp:631, 641).
NoEmptyCall ==
    \A i \in 1..Len(stack) : \A j \in 1..Len(stack[i].todo) :
        stack[i].todo[j].event \in Reports => stack[i].todo[j].attempt # Null

\* An address the resolver delivers late, for an attempt that was given up in the
\* meantime, never becomes the address a later attempt connects to.
OwnHostOnly == pending_socket_fd # NoSocket \/ socket_fd # NoSocket =>
                   pc = "opened" \/ peer = host

\* non_reentrant is set exactly while connect(), disconnect() or tick() has not
\* returned, however deep the calls are nested: a refused inner call does not
\* lift the guard of the outer one.
ScopeMatchesGuard ==
    non_reentrant <=>
        \/ pc \in Scoped
        \/ \E i \in 1..Len(stack) : stack[i].resume # "user"

\* The frames that still have a call to make about attempt a.
Owing(a) == {i \in 1..Len(stack) :
                 \E j \in 1..Len(stack[i].todo) : stack[i].todo[j].attempt = a}

\* Whenever the user's code runs, get_connection_status() agrees with what the
\* callbacks have told: Connected after the report Connected and before any
\* other, InProgress before any report; and an attempt the client no longer
\* holds was reported to its end, or its last report is one call away.
StatusMatchesReports == pc = "user" =>
    /\ ConnectionStatus = "InProgress" => delivered[host] = <<>>
    /\ ConnectionStatus = "Connected" => delivered[host] = <<"Connected">>
    /\ \A a \in 1..accepted : a # host =>
           \/ delivered[a] \in {<<"Failed">>, <<"Connected", "Disconnected">>}
           \/ \E i \in 1..Len(stack) : Owing(a) = {i}

\* The contract with the user of connect(): see ConnectionContract.
Phase(a) ==
    CASE delivered[a] = <<>> -> IF a <= accepted THEN "pending" ELSE "unused"
      [] delivered[a] = <<"Connected">> -> "connected"
      [] delivered[a] = <<"Failed">> -> "failed"
      [] delivered[a] = <<"Connected", "Disconnected">> -> "closed"
      [] OTHER -> "broken"

Contract == INSTANCE ConnectionContract WITH phase <- [a \in Attempts |-> Phase(a)]

\* Every sequence of calls the callbacks see is one the contract allows: each
\* accepted connect() is reported once as connected or failed, only a connected
\* one is reported disconnected, once, and no connect() is accepted before the
\* last report of the one before it.
ImplementsContract == Contract!Spec

\* Every accepted connect() is reported, whatever the resolver and the peer do,
\* as long as the resolver answers: nothing else ends the wait for it, but after
\* it the connect deadline does.
AttemptsAreReported ==
    \A a \in Attempts : (accepted >= a) ~> (delivered[a] # <<>>)
=============================================================================
