----------------------------- MODULE ClientPool -------------------------------
(***************************************************************************)
(* TFGenericTCPClientPool: clients shared by several users.  A slot holds  *)
(* a client and the shares of its users; acquire() joins the slot that is  *)
(* connected, or connecting, to the same host and port, or takes another;  *)
(* release() gives a share back; tick() runs the clients and deletes the   *)
(* slots that nobody shares any more.                                      *)
(*                                                                         *)
(* "stack" holds what the library has still to do, the next thing on top.  *)
(* pc is "user" while user code runs: the main loop if the stack is empty, *)
(* a callback otherwise; "library" while the pool runs.                    *)
(*                                                                         *)
(* An accepted acquire() is a number.  It stands for its callbacks, its    *)
(* share and the shared client the user gets, and the first acquire() of a *)
(* slot for the slot object and its client; 0 for nullptr.  A client keeps *)
(* the promises of ConnectionContract (see GenericTCPClient), and runs     *)
(* nowhere but in calls of the pool and when the resolver answers late.    *)
(*                                                                         *)
(* Where the code touches an object that was deleted, compares a null host *)
(* or calls an empty std::function, pc becomes "undefined".  Calls that    *)
(* are turned down change nothing and are stuttering steps.                *)
(***************************************************************************)
EXTENDS Naturals, FiniteSets, SequencesExt

CONSTANTS
    Hosts,        \* pairs of a host and a port
    MaxSlots,     \* TF_GENERIC_TCP_CLIENT_POOL_MAX_SLOT_COUNT
    MaxShares,    \* TF_GENERIC_TCP_CLIENT_POOL_MAX_SHARE_COUNT
    MaxAcquires,  \* bound: calls of acquire() that are accepted
    LateAnswers   \* whether TFNetwork::resolve() may answer after it has returned

ASSUME HostsAssumption == Hosts # {}
ASSUME CountsAssumption ==
    MaxSlots \in Nat \ {0} /\ MaxShares \in Nat \ {0} /\ MaxAcquires \in Nat
ASSUME LateAnswersAssumption == LateAnswers \in BOOLEAN

None == 0
Slots == 1..MaxSlots
Places == 1..MaxShares
Acquires == 1..MaxAcquires

VARIABLES
    non_reentrant,
    client,          \* by slot: the client of slots[i], None if slots[i] is nullptr
    delete_pending, share_count,
    shares,          \* by slot and place
    callback,        \* by share: what std::function objects it holds
    attempt,         \* by slot: the acquire() whose host the client has, None if closed
    link,            \* by slot: how far the client is with it
    resolves,        \* calls of the resolver that it has not answered yet
    pc, stack,
    goal,            \* by accepted acquire(): its host and port
    told             \* by accepted acquire(): the calls of its callbacks

slotVars   == <<client, delete_pending, share_count, shares, callback>>
clientVars == <<attempt, link, resolves>>
vars == <<non_reentrant, slotVars, clientVars, pc, stack, goal, told>>

acquired == Len(goal)

Init ==
    /\ non_reentrant = FALSE
    /\ client = [i \in Slots |-> None]
    /\ delete_pending = [i \in Slots |-> FALSE]
    /\ share_count = [i \in Slots |-> 0]
    /\ shares = [i \in Slots |-> [k \in Places |-> None]]
    /\ callback = [a \in Acquires |-> "none"]
    /\ attempt = [i \in Slots |-> None]
    /\ link = [i \in Slots |-> "closed"]
    /\ resolves = {}
    /\ pc = "user"
    /\ stack = <<>>
    /\ goal = <<>>
    /\ told = [a \in Acquires |-> <<>>]

-----------------------------------------------------------------------------
(* What the library has still to do, and calling back.                     *)

Leave == [op |-> "leave"]                      \* ~NonReentrantScope()
Loop(op, i, k, level) ==                       \* a loop over shares, at place k
    [op |-> op, slot |-> i, object |-> client[i], place |-> k, level |-> level]
Drop(i, k) == [op |-> "drop", slot |-> i, place |-> k]
Retire(i, disconnect) ==
    [op |-> "retire", slot |-> i, object |-> client[i], disconnect |-> disconnect]
TickSlot(i) == [op |-> "tick", slot |-> i]
Receive(i) == [op |-> "receive", slot |-> i]

Top == Last(stack)
Rest == Front(stack)

Doing(op) == pc = "library" /\ Top.op = op

\* Back in the caller, which is the user's code below the last item.
GoOn(items) == IF items = <<>> THEN "user" ELSE "library"

Tell(a, event, level) ==
    told' = [told EXCEPT ![a] = Append(@, [event |-> event, level |-> level])]

CallbackReturns ==
    /\ pc = "user"
    /\ stack # <<>>
    /\ pc' = "library"
    /\ UNCHANGED <<non_reentrant, slotVars, clientVars, stack, goal, told>>

LeaveScope ==
    /\ Doing("leave")
    /\ non_reentrant' = FALSE
    /\ stack' = Rest
    /\ pc' = "user"
    /\ UNCHANGED <<slotVars, clientVars, goal, told>>

\* The build may do anything, and this model says nothing of it.
Undefined ==
    /\ pc' = "undefined"
    /\ UNCHANGED <<non_reentrant, slotVars, clientVars, stack, goal, told>>

TheLeast(S) == CHOOSE n \in S : \A m \in S : n <= m

Used(i) == {k \in Places : shares[i][k] # None}

-----------------------------------------------------------------------------
(* Giving up a share: the private release().                               *)

\* Bug: the level is taken before the share is counted out.
LevelBefore(i) == IF share_count[i] = 0 THEN "Primary" ELSE "Secondary"

LevelAfter(i) == IF share_count'[i] = 0 THEN "Primary" ELSE "Secondary"

\* The last call of the share's callbacks, if it still holds one.
LastCall(a, i) ==
    CASE callback[a] = "connect"    -> Tell(a, "Failed", LevelAfter(i)) /\ pc' = "user"
      [] callback[a] = "disconnect" -> Tell(a, "Closed", LevelAfter(i)) /\ pc' = "user"
      [] OTHER -> pc' = "library" /\ UNCHANGED told

\* Bug: the share is not counted out.
KeepCount(i) == share_count

CountOut(i) == [share_count EXCEPT ![i] = @ - 1]

\* Up to the callback; then the library goes on with "rest".
ReleaseShare(i, k, disconnect, rest) ==
    LET a == shares[i][k] IN
    /\ shares' = [shares EXCEPT ![i][k] = None]
    /\ share_count' = CountOut(i)
    /\ callback' = [callback EXCEPT ![a] = "none"]
    /\ LastCall(a, i)
    /\ stack' = Append(rest, Retire(i, disconnect))
    /\ UNCHANGED <<client, delete_pending>>

\* close() of the client.
CloseClient(i) ==
    /\ attempt' = [attempt EXCEPT ![i] = None]
    /\ link' = [link EXCEPT ![i] = "closed"]

\* The slot was deleted while a pointer to it was kept.
IsGone(item) == client[item.slot] # item.object

\* Bug: a slot whose client is closed already is not marked.
MarkIfDisconnected(i) == share_count[i] = 0 /\ Top.disconnect

MarkForDeletion(i) == share_count[i] = 0

\* Bug: only the slot is given up, its client is left as it is.
LeaveClient(i) == UNCHANGED clientVars

\* The client's disconnect() when it has a host: its callbacks find no share, for
\* only the last one to go takes the client with it.
DisconnectClient(i) ==
    /\ CloseClient(i)
    /\ UNCHANGED resolves

\* After the callback: the last share takes the slot with it, but not before tick().
RetireSlot ==
    /\ Doing("retire")
    /\ ~IsGone(Top)
    /\ LET i == Top.slot IN
       /\ delete_pending' = [delete_pending EXCEPT ![i] = @ \/ MarkForDeletion(i)]
       /\ IF share_count[i] = 0 /\ Top.disconnect
          THEN DisconnectClient(i)
          ELSE UNCHANGED clientVars
    /\ stack' = Rest
    /\ pc' = GoOn(Rest)
    /\ UNCHANGED <<client, shares, share_count, callback, non_reentrant, goal, told>>

-----------------------------------------------------------------------------
(* acquire().                                                              *)

Live(i) == client[i] # None /\ ~delete_pending[i]

HasHost(i, h) == attempt[i] # None /\ goal[attempt[i]] = h

\* Bug: a slot that is still connecting is not shared.
MatchingConnected(h) == {i \in Slots : Live(i) /\ HasHost(i, h) /\ link[i] = "connected"}

Matching(h) == {i \in Slots : Live(i) /\ HasHost(i, h)}

\* Bug: acquire() is not refused in a callback of the pool.
AcquireAnyTime == pc = "user" /\ acquired < MaxAcquires

MayAcquire == pc = "user" /\ ~non_reentrant /\ acquired < MaxAcquires

\* strcmp() with the host of a closed client, before a slot matches.
AcquireUndefined(h) ==
    /\ MayAcquire
    /\ \E i \in Slots : Live(i) /\ attempt[i] = None /\ \A j \in Matching(h) : i < j
    /\ Undefined

Comparable(h) ==
    \A i \in Slots : Live(i) /\ attempt[i] = None => \E j \in Matching(h) : j < i

\* The new share a of slot i, at place k.
PlaceShare(i, k, a, held) ==
    /\ shares' = [shares EXCEPT ![i][k] = a]
    /\ share_count' = [share_count EXCEPT ![i] = @ + 1]
    /\ callback' = [callback EXCEPT ![a] = held]

\* Bug: every share waits to be told by the client's connect callback.
NeverTold(i) == FALSE

ToldAtOnce(i) == link[i] = "connected"

\* A slot for this host and port is there, and has a place.
AcquireShare(h) ==
    /\ MayAcquire
    /\ Comparable(h)
    /\ Matching(h) # {}
    /\ LET i == TheLeast(Matching(h))
           a == acquired + 1
       IN  /\ Used(i) # Places
           /\ IF ToldAtOnce(i)
              THEN /\ PlaceShare(i, TheLeast(Places \ Used(i)), a, "disconnect")
                   /\ Tell(a, "Connected", "Secondary")
                   /\ non_reentrant' = TRUE
                   /\ stack' = Append(stack, Leave)
              ELSE /\ PlaceShare(i, TheLeast(Places \ Used(i)), a, "connect")
                   /\ UNCHANGED <<told, non_reentrant, stack>>
           /\ goal' = Append(goal, h)
    /\ UNCHANGED <<client, delete_pending, clientVars, pc>>

\* The first slot that is to be deleted, or else the first empty one.
FreeSlot ==
    TheLeast(IF \E i \in Slots : delete_pending[i]
             THEN {i \in Slots : delete_pending[i]} ELSE {i \in Slots : client[i] = None})

\* A slot is made or revived, and its client told to connect.  A client that still
\* has a host says AlreadyConnected.
AcquireSlot(h) ==
    /\ MayAcquire
    /\ Comparable(h)
    /\ Matching(h) = {}
    /\ \E i \in Slots : ~Live(i)
    /\ LET i == FreeSlot
           a == acquired + 1
       IN  /\ delete_pending' = [delete_pending EXCEPT ![i] = FALSE]
           /\ client' = [client EXCEPT ![i] = IF @ = None THEN a ELSE @]
           /\ PlaceShare(i, 1, a, "connect")
           /\ goal' = Append(goal, h)
           /\ IF attempt[i] = None
              THEN /\ attempt' = [attempt EXCEPT ![i] = a]
                   /\ link' = [link EXCEPT ![i] = "fresh"]
                   /\ UNCHANGED <<non_reentrant, pc, stack>>
              ELSE /\ non_reentrant' = TRUE
                   /\ pc' = "library"
                   /\ stack' = stack \o <<Leave, Loop("refuse", i, 1, "Primary")>>
                   /\ UNCHANGED <<attempt, link>>
    /\ UNCHANGED <<resolves, told>>

-----------------------------------------------------------------------------
(* The callbacks that acquire() gives to the client.  Each looks at one    *)
(* share after another.                                                    *)

Looping == pc = "library" /\ Top.op \in {"accept", "refuse", "close", "force"}

\* What is deleted is read: the next place in a loop, share_count when a share is retired.
ReadDeleted ==
    /\ Doing("retire") \/ (Looping /\ Top.place <= MaxShares)
    /\ IsGone(Top)
    /\ Undefined

Ahead == {k \in Used(Top.slot) : k >= Top.place}

LoopEnds ==
    /\ Looping
    /\ Top.place > MaxShares \/ (~IsGone(Top) /\ Ahead = {})
    /\ stack' = Rest
    /\ pc' = GoOn(Rest)
    /\ UNCHANGED <<non_reentrant, slotVars, clientVars, goal, told>>

LoopAt(ops, i, k) ==
    /\ Looping
    /\ Top.op \in ops
    /\ i = Top.slot
    /\ ~IsGone(Top)
    /\ Ahead # {}
    /\ k = TheLeast(Ahead)

NextPlace(k) == [Top EXCEPT !.place = k + 1, !.level = "Secondary"]

\* The connect callback is called without a look at whether there is one.
TellUndefined(i, k) ==
    /\ LoopAt({"accept", "refuse"}, i, k)
    /\ callback[shares[i][k]] # "connect"
    /\ Undefined

TellConnected(i, k) ==
    /\ LoopAt({"accept"}, i, k)
    /\ callback[shares[i][k]] = "connect"
    /\ callback' = [callback EXCEPT ![shares[i][k]] = "disconnect"]
    /\ Tell(shares[i][k], "Connected", Top.level)
    /\ stack' = Append(Rest, NextPlace(k))
    /\ pc' = "user"
    /\ UNCHANGED <<non_reentrant, client, delete_pending, share_count, shares,
                   clientVars, goal>>

\* The share is given up after its callback has returned.
TellFailed(i, k) ==
    /\ LoopAt({"refuse"}, i, k)
    /\ callback[shares[i][k]] = "connect"
    /\ callback' = [callback EXCEPT ![shares[i][k]] = "none"]
    /\ Tell(shares[i][k], "Failed", Top.level)
    /\ stack' = Rest \o <<NextPlace(k), Drop(i, k)>>
    /\ pc' = "user"
    /\ UNCHANGED <<non_reentrant, client, delete_pending, share_count, shares,
                   clientVars, goal>>

\* Whatever share is at that place of that slot by then, if any.
DropShare ==
    /\ Doing("drop")
    /\ IF shares[Top.slot][Top.place] # None
       THEN ReleaseShare(Top.slot, Top.place, FALSE, Rest)
       ELSE stack' = Rest /\ UNCHANGED <<slotVars, pc, told>>
    /\ UNCHANGED <<non_reentrant, clientVars, goal>>

\* The disconnect callback ("close"), and the other shares of a forced release().
TellClosed(i, k) ==
    /\ LoopAt({"close", "force"}, i, k)
    /\ ReleaseShare(i, k, Top.op = "force", Append(Rest, NextPlace(k)))
    /\ UNCHANGED <<non_reentrant, clientVars, goal>>

-----------------------------------------------------------------------------
(* The public release().                                                   *)

\* Bug: release() is not refused in a callback of the pool.
ReleaseUnguarded(a, force) ==
    \E i \in Slots, k \in Places :
        /\ pc = "user"
        /\ shares[i][k] = a
        /\ ReleaseShare(i, k, TRUE,
               stack \o (IF force THEN <<Leave, Loop("force", i, 1, "Primary")>> ELSE <<Leave>>))
        /\ non_reentrant' = TRUE
        /\ UNCHANGED <<clientVars, goal>>

Release(a, force) ==
    \E i \in Slots, k \in Places :
        /\ pc = "user"
        /\ ~non_reentrant
        /\ shares[i][k] = a
        /\ ReleaseShare(i, k, TRUE,
               stack \o (IF force THEN <<Leave, Loop("force", i, 1, "Primary")>> ELSE <<Leave>>))
        /\ non_reentrant' = TRUE
        /\ UNCHANGED <<clientVars, goal>>

-----------------------------------------------------------------------------
(* tick().                                                                 *)

Tick ==
    /\ pc = "user"
    /\ ~non_reentrant
    /\ non_reentrant' = TRUE
    /\ stack' = stack \o <<Leave, TickSlot(1)>>
    /\ pc' = "library"
    /\ UNCHANGED <<slotVars, clientVars, goal, told>>

TickEnds ==
    /\ Doing("tick")
    /\ Top.slot > MaxSlots
    /\ stack' = Rest
    /\ pc' = "library"
    /\ UNCHANGED <<non_reentrant, slotVars, clientVars, goal, told>>

TickAt(i) == Doing("tick") /\ i = Top.slot /\ i <= MaxSlots

TickNext(i) ==
    /\ stack' = Append(Rest, TickSlot(i + 1))
    /\ UNCHANGED <<non_reentrant, pc, goal, told>>

\* An empty slot is skipped; one to be deleted is deleted, the client as it is.
TickDelete(i) ==
    /\ TickAt(i)
    /\ ~Live(i)
    /\ client' = [client EXCEPT ![i] = None]
    /\ delete_pending' = [delete_pending EXCEPT ![i] = FALSE]
    /\ CloseClient(i)
    /\ TickNext(i)
    /\ UNCHANGED <<share_count, shares, callback, resolves>>

ClientTicks(i) == TickAt(i) /\ Live(i)

\* The client's tick(): nothing to do, or nothing that the pool is told of.
ClientWaits(i) ==
    /\ ClientTicks(i)
    /\ \/ UNCHANGED <<link, resolves>>
       \/ /\ link[i] = "fresh"
          /\ link' = [link EXCEPT ![i] = "resolved"]
          /\ UNCHANGED resolves
       \/ /\ LateAnswers
          /\ link[i] = "fresh"
          /\ link' = [link EXCEPT ![i] = "waiting"]
          /\ resolves' = resolves \cup {[client |-> client[i], attempt |-> attempt[i]]}
    /\ TickNext(i)
    /\ UNCHANGED <<slotVars, attempt>>

\* The client goes on to its loop of recv_hook(), after the callbacks.
ClientConnects(i) ==
    /\ ClientTicks(i)
    /\ link[i] \in {"fresh", "resolved"}
    /\ link' = [link EXCEPT ![i] = "connected"]
    /\ stack' = Rest \o <<TickSlot(i + 1), Receive(i), Loop("accept", i, 1, "Primary")>>
    /\ UNCHANGED <<non_reentrant, slotVars, attempt, resolves, pc, goal, told>>

ClientFails(i) ==
    /\ ClientTicks(i)
    /\ link[i] \in {"fresh", "resolved"}
    /\ CloseClient(i)
    /\ stack' = Rest \o <<TickSlot(i + 1), Loop("refuse", i, 1, "Primary")>>
    /\ UNCHANGED <<non_reentrant, slotVars, resolves, pc, goal, told>>

ClientDisconnects(i) ==
    /\ ClientTicks(i)
    /\ link[i] = "connected"
    /\ CloseClient(i)
    /\ stack' = Rest \o <<TickSlot(i + 1), Loop("close", i, 1, "Primary")>>
    /\ UNCHANGED <<non_reentrant, slotVars, resolves, pc, goal, told>>

ClientReceives ==
    /\ Doing("receive")
    /\ LET i == Top.slot IN
       \/ /\ stack' = Rest
          /\ UNCHANGED <<attempt, link>>
       \/ /\ link[i] = "connected"
          /\ CloseClient(i)
          /\ stack' = Append(Rest, Loop("close", i, 1, "Primary"))
    /\ UNCHANGED <<non_reentrant, slotVars, resolves, pc, goal, told>>

-----------------------------------------------------------------------------
(* The resolver answers late, from the main loop: neither the client nor   *)
(* the pool is guarded then.                                               *)

IsCurrent(r, i) == client[i] = r.client /\ attempt[i] = r.attempt /\ link[i] = "waiting"

\* The lambda runs in a client that was deleted, or for an attempt that is over.
AnswerTooLate(r) ==
    /\ \A i \in Slots : ~IsCurrent(r, i)
    /\ pc' = IF \E i \in Slots : client[i] = r.client THEN pc ELSE "undefined"
    /\ UNCHANGED <<attempt, link, stack>>

AnswerFailure(r, i) ==
    /\ IsCurrent(r, i)
    /\ CloseClient(i)
    /\ stack' = <<Loop("refuse", i, 1, "Primary")>>
    /\ pc' = "library"

AnswerAddress(r, i) ==
    /\ IsCurrent(r, i)
    /\ link' = [link EXCEPT ![i] = "resolved"]
    /\ UNCHANGED <<attempt, pc, stack>>

Answer(r) ==
    /\ pc = "user" /\ stack = <<>>
    /\ r \in resolves
    /\ resolves' = resolves \ {r}
    /\ AnswerTooLate(r) \/ \E i \in Slots : AnswerFailure(r, i) \/ AnswerAddress(r, i)
    /\ UNCHANGED <<non_reentrant, slotVars, goal, told>>

-----------------------------------------------------------------------------
UserStep ==
    \/ \E h \in Hosts : AcquireUndefined(h) \/ AcquireShare(h) \/ AcquireSlot(h)
    \/ \E a \in Acquires, force \in BOOLEAN : Release(a, force)
    \/ Tick

ClientStep ==
    \E i \in Slots : ClientWaits(i) \/ ClientConnects(i) \/ ClientFails(i) \/ ClientDisconnects(i)

LibraryStep ==
    \/ LeaveScope
    \/ ReadDeleted
    \/ RetireSlot \/ DropShare \/ LoopEnds
    \/ \E i \in Slots, k \in Places :
           TellUndefined(i, k) \/ TellConnected(i, k) \/ TellFailed(i, k) \/ TellClosed(i, k)
    \/ TickEnds \/ \E i \in Slots : TickDelete(i)
    \/ ClientStep
    \/ ClientReceives

AnswerStep == \E r \in resolves : Answer(r)

\* Nothing is said of what follows.
Anything == pc = "undefined" /\ UNCHANGED vars

Next == UserStep \/ CallbackReturns \/ LibraryStep \/ AnswerStep \/ Anything

Spec == Init /\ [][Next]_vars

\* The pool runs on, callbacks return, the main loop calls tick() again and again, the
\* resolver answers, and no client waits for ever for its peer.
Fairness ==
    /\ WF_vars(LibraryStep)
    /\ WF_vars(CallbackReturns)
    /\ SF_vars(Tick)
    /\ SF_vars(AnswerStep)
    /\ \A i \in Slots : SF_vars(ClientConnects(i) \/ ClientFails(i))

FairSpec == Spec /\ Fairness

-----------------------------------------------------------------------------
(* Properties.                                                             *)

Objects == Acquires \cup {None}
Levels == {"Primary", "Secondary"}
Links == {"closed", "fresh", "waiting", "resolved", "connected"}
Items ==
    [op : {"leave"}]
    \cup [op : {"accept", "refuse", "close", "force"}, slot : Slots, object : Objects,
          place : 1..(MaxShares + 1), level : Levels]
    \cup [op : {"drop"}, slot : Slots, place : Places]
    \cup [op : {"retire"}, slot : Slots, object : Objects, disconnect : BOOLEAN]
    \cup [op : {"tick"}, slot : 1..(MaxSlots + 1)]
    \cup [op : {"receive"}, slot : Slots]
Calls == [event : {"Connected", "Failed", "Closed"}, level : Levels]

\* Every variable has the type of the C++ member it stands for.
TypeOK ==
    /\ non_reentrant \in BOOLEAN
    /\ client \in [Slots -> Objects]
    /\ delete_pending \in [Slots -> BOOLEAN]
    /\ share_count \in [Slots -> 0..MaxShares]
    /\ shares \in [Slots -> [Places -> Objects]]
    /\ callback \in [Acquires -> {"none", "connect", "disconnect"}]
    /\ attempt \in [Slots -> Objects]
    /\ link \in [Slots -> Links]
    /\ resolves \subseteq [client : Acquires, attempt : Acquires]
    /\ pc \in {"user", "library", "undefined"}
    /\ stack \in Seq(Items)
    /\ pc = "library" => stack # <<>>
    /\ goal \in Seq(Hosts) /\ acquired <= MaxAcquires
    /\ told \in [Acquires -> Seq(Calls)]

OnStack(P(_)) == \E n \in 1..Len(stack) : P(stack[n])

\* share_count is the number of shares; a slot without shares is to be deleted, or is
\* on its way there; and no share of a deleted slot is left.
SharesAreCounted ==
    \A i \in Slots :
        /\ share_count[i] = Cardinality(Used(i))
        /\ delete_pending[i] => Used(i) = {}
        /\ client[i] = None => Used(i) = {} /\ ~delete_pending[i]
        /\ Live(i) /\ Used(i) = {} => OnStack(LAMBDA item : item.op = "retire" /\ item.slot = i)

\* Nobody is given a share of a second connection to the same host and port.
OneSlotPerHost ==
    \A i, j \in Slots : \A k \in Used(i), m \in Used(j) :
        goal[shares[i][k]] = goal[shares[j][m]] => i = j

\* A slot that is deleted or revived has a client with nothing left to report, so no
\* descriptor is lost with it, and connect() accepts the next host.
DeletedIsClosed == \A i \in Slots : delete_pending[i] => attempt[i] = None

\* The callbacks that the shares hold are those the client's connection calls for, but
\* for the shares that a loop on the stack has yet to tell, or to drop.
SharesFollowClient ==
    \A i \in Slots : \A k \in Used(i) :
        \/ callback[shares[i][k]] = CASE link[i] = "closed" -> "none"
                                      [] link[i] = "connected" -> "disconnect"
                                      [] OTHER -> "connect"
        \/ OnStack(LAMBDA item : item.op \in {"accept", "refuse", "close"} /\ item.slot = i
                                     /\ item.place <= k)

\* Until its last call a share that was told Connected is connected.
IsConnected(a) == told[a] # <<>> /\ Last(told[a]).event = "Connected"

\* A connection is opened and closed for its users by a call with level Primary, and it
\* is Secondary that join it and leave it in between.
PrimaryFirstAndLast ==
    [][\A i \in Slots, k \in Places :
           LET a == shares[i][k]
               others == {shares[i][n] : n \in Used(i) \ {k}}
           IN  a # None /\ told'[a] # told[a] =>
                   /\ Last(told'[a]).event = "Connected" =>
                          (Last(told'[a]).level = "Primary" <=> ~\E b \in others : IsConnected(b))
                   /\ Last(told'[a]).event = "Closed" =>
                          (Last(told'[a]).level = "Primary" <=> others = {})]_vars

\* Only the resolver's late answers lead to what is undefined: an answer for a client that
\* was deleted, or the callbacks of a late failure, in which the pool is not guarded.  Once
\* those have returned, no slot, share or client is left as they left it for a later call
\* to stumble on, however the user called the pool in them.
UndefinedOnlyIfLate ==
    [][pc # "undefined" /\ pc' = "undefined" =>
           \/ \E r \in resolves : r \notin resolves' /\ \A i \in Slots : client[i] # r.client
           \/ stack # <<>> /\ stack[1].op = "refuse"]_vars

\* Dropping a share after a failed connect calls no disconnect callback: its reason and
\* error number are "unused" (TFGenericTCPClientPool.cpp:204-206).
ReasonIsUnused ==
    [][Doing("drop") =>
           \A a \in Acquires : told'[a] # told[a] => Last(told'[a]).event # "Closed"]_vars

\* The contract with the users of acquire(): see PoolContract.
Events(a) == [n \in 1..Len(told[a]) |-> told[a][n].event]
Phase(a) ==
    CASE Events(a) = <<>> -> IF a <= acquired THEN "pending" ELSE "unused"
      [] Events(a) = <<"Connected">> -> "connected"
      [] Events(a) = <<"Failed">> -> "failed"
      [] Events(a) = <<"Connected", "Closed">> -> "closed"
      [] OTHER -> "broken"

OpenHosts == {goal[attempt[i]] : i \in {j \in Slots : link[j] = "connected"}}

Contract == INSTANCE PoolContract WITH phase <- [a \in Acquires |-> Phase(a)],
                                       open <- OpenHosts

\* Each share has the reports a client of its own would make, and all shares of a host
\* see the same connection, however they join, leave and are called back.
ImplementsContract == Contract!Spec

\* Every accepted acquire() is reported.
SharesAreReported == \A a \in Acquires : (acquired >= a) ~> (told[a] # <<>>)

\* When all shares have been given up, the pool becomes empty, unless it is used again.
IsOver(a) == Phase(a) \in {"failed", "closed"}
PoolBecomesEmpty ==
    (\A a \in 1..acquired : IsOver(a))
        ~> ((\A i \in Slots : client[i] = None) \/ (\E a \in 1..acquired : ~IsOver(a)))

=============================================================================
