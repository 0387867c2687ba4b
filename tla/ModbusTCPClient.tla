--------------------------- MODULE ModbusTCPClient ----------------------------
(***************************************************************************)
(* TFModbusTCPClient: transactions over a connection.  Of the connection,  *)
(* which GenericTCPClient models, only "connected" is kept.  The user may  *)
(* call transact() whenever user code runs, in the callback of another     *)
(* transaction too.  The peer may answer any request of the connection, in *)
(* any order, late, never, more than once and wrongly; what it sends is a  *)
(* stream of bytes that recv() cuts anywhere.                              *)
(*                                                                         *)
(* "pc" says where control is: with the "user" (in the main loop or, if    *)
(* after # "main", in a callback the library goes on from at "after"), or  *)
(* at the place in tick_hook(), recv_hook(), disconnect() or close_hook()  *)
(* it is named for.  Callbacks never nest: tick(), connect() and           *)
(* disconnect() do nothing in a callback, which GenericTCPClient shows.    *)
(*                                                                         *)
(* The accepted transactions are numbered in order.  A call of transact()  *)
(* that is turned down calls its own callback and changes nothing: it is a *)
(* stuttering step.                                                        *)
(***************************************************************************)
EXTENDS Naturals, Sequences

CONSTANTS
    MaxTransactions, \* bound: calls of transact() that are accepted
    MaxScheduled,    \* TF_MODBUS_TCP_CLIENT_MAX_SCHEDULED_TRANSACTION_COUNT
    MaxAnswers,      \* bound: frames the peer sends
    IdCount,         \* 2^16, where next_transaction_id wraps
    Masks,           \* what transact() is given as transaction_id_mask: each
                     \* mask as the function [n |-> n & mask]
    Timeout,         \* the timeout every transaction is given
    HeaderLength,    \* TF_MODBUS_TCP_HEADER_LENGTH
    MinPayload,      \* TF_MODBUS_TCP_MIN_RESPONSE_FRAME_LENGTH less the unit id
    MaxPayload,      \* TF_MODBUS_TCP_MAX_RESPONSE_PAYLOAD_LENGTH
    Payloads,        \* the payload lengths the peer states in its headers
    Extras,          \* how many bytes more than it stated the peer sends
    Repeats          \* whether the peer may answer a request more than once

ASSUME CountsAssumption ==
    /\ MaxTransactions \in Nat /\ MaxScheduled \in Nat
    /\ MaxAnswers \in Nat /\ Timeout \in Nat
ASSUME IdCountAssumption == IdCount \in Nat \ {0}
ASSUME MasksAssumption == Masks \subseteq [0..(IdCount - 1) -> 0..(IdCount - 1)]
ASSUME LengthsAssumption ==
    HeaderLength \in Nat \ {0} /\ MinPayload \in Nat /\ MaxPayload \in Nat
ASSUME PeerAssumption == 
    Payloads \subseteq 0..MaxPayload /\ Extras \subseteq Nat /\ Repeats \in BOOLEAN

Null == 0
Transactions == 1..MaxTransactions
Ids == 0..(IdCount - 1)
AllBits == [n \in Ids |-> n]    \* UINT16_MAX, the default

VARIABLES
    connected,             \* socket_fd >= 0
    next_transaction_id,
    pending_transaction, pending_transaction_id,
    pending_transaction_deadline,      \* kept as the time left
    scheduled,             \* the list at scheduled_transaction_head
    aborting,              \* the list in the local of finish_all_transactions()
    received,              \* the bytes of pending_response received so far
    header,                \* its header, once it is checked
    pc, after,
    stream,                \* the bytes the peer sent that were not received yet
    requests,              \* the requests of this connection the peer may answer
    derailed,              \* who made the client lose the start of a response
    issued,                \* how many transactions were accepted
    outcome,               \* what each callback was called with
    mask,                  \* by transaction: the mask transact() was given
    ids, round, rounds,    \* the id of each request; and the round it was taken
                           \* in (0: it was not sent), next_transaction_id having
                           \* each value once in each but the first
    answers                \* how many frames the peer sent

pendingVars    == <<pending_transaction, pending_transaction_id,
                    pending_transaction_deadline>>
responseVars   == <<received, header>>
wireVars       == <<stream, requests, derailed, answers>>
idVars         == <<next_transaction_id, ids, round, rounds>>
userVars       == <<issued, mask>>
vars == <<connected, idVars, pendingVars, scheduled, aborting, responseVars,
          wireVars, pc, after, userVars, outcome>>

Open == "open"
Results == {"Success", "Response", "Timeout", "Aborted", "SendFailed",
            "ReceiveFailed", "DisconnectedByPeer"}

-----------------------------------------------------------------------------
(* Responses on the wire.                                                  *)

\* A frame answers request t: "kind" says whether its header passes the checks
\* ("ok"), "length" is the payload length it states, "needed" the one it has,
\* and "good" whether the payload passes all checks of its function code.
\* The client reads no more of a frame whose header fails them.
Frames == [t : Transactions \cup {Null}, id : Ids, kind : {"ok", "protocol", "length"},
           length : Nat, needed : Nat, good : BOOLEAN]

BadHeaders(t, id) == [t : {t}, id : {id}, kind : {"protocol", "length"},
                      length : {0}, needed : {0}, good : {FALSE}]

Unchecked == [t |-> Null, id |-> 0, kind |-> "unchecked", length |-> 0, needed |-> 0,
              good |-> FALSE]

Byte(f, n) == [frame |-> f, pos |-> n]
BytesOf(f) == [n \in 1..(HeaderLength + f.needed) |-> Byte(f, n)]

\* The first bytes received are the header of a frame.
InStep == \A n \in 1..HeaderLength : received[n] = Byte(received[1].frame, n)

\* What bytes that are no header can look like: nothing is known of them.
Noise == [t : {Null}, id : Ids, kind : {"ok"}, length : 0..MaxPayload, needed : {0},
          good : BOOLEAN]
         \cup UNION {BadHeaders(Null, id) : id \in Ids}

Init ==
    /\ connected = FALSE
    /\ next_transaction_id \in Ids
    /\ pending_transaction = Null
    /\ pending_transaction_id = 0
    /\ pending_transaction_deadline = 0
    /\ scheduled = <<>>
    /\ aborting = <<>>
    /\ received = <<>>
    /\ header = Unchecked
    /\ pc = "user"
    /\ after = "main"
    /\ stream = <<>>
    /\ requests = {}
    /\ derailed = "no"
    /\ issued = 0
    /\ mask = [t \in Transactions |-> AllBits]
    /\ outcome = [t \in Transactions |-> Open]
    /\ ids = [t \in Transactions |-> 0]
    /\ round = 1
    /\ rounds = [t \in Transactions |-> 0]
    /\ answers = 0

-----------------------------------------------------------------------------
(* Ending a transaction.                                                   *)

\* Control goes to the callback of t, and on from there at "next".
CallBack(t, result, next) ==
    /\ outcome' = [outcome EXCEPT ![t] = result]
    /\ pc' = "user"
    /\ after' = next

ClearPending ==
    /\ pending_transaction' = Null
    /\ pending_transaction_id' = 0
    /\ pending_transaction_deadline' = 0

\* Bug: the transaction is deleted when its callback has returned.
CallsBackFirst(result, next) ==
    /\ pending_transaction # Null
    /\ CallBack(pending_transaction, result, next)
    /\ UNCHANGED pendingVars

\* finish_pending_transaction(), with a transaction pending ...
FinishPending(result, next) ==
    /\ pending_transaction # Null
    /\ CallBack(pending_transaction, result, next)
    /\ ClearPending

\* ... and without.
NothingPending(next) ==
    /\ pending_transaction = Null
    /\ pc' = next
    /\ UNCHANGED <<pendingVars, after, outcome>>

\* Bug: any response is taken for the one of the pending transaction.
AnyMatches(id) == pending_transaction # Null

Matches(id) == pending_transaction # Null /\ pending_transaction_id = id

\* finish_pending_transaction() for the response with this id.
FinishMatching(id, result, next) ==
    \/ Matches(id) /\ FinishPending(result, next)
    \/ ~Matches(id) /\ pc' = next /\ UNCHANGED <<pendingVars, after, outcome>>

ResetPendingResponse ==
    /\ received' = <<>>
    /\ header' = Unchecked

-----------------------------------------------------------------------------
(* The user.                                                               *)

AtMainLoop == pc = "user" /\ after = "main"

\* connect() succeeds.
Connect ==
    /\ AtMainLoop
    /\ ~connected
    /\ connected' = TRUE
    /\ UNCHANGED <<idVars, pendingVars, scheduled, aborting, responseVars, wireVars,
                   pc, after, userVars, outcome>>

\* Bug: transactions are accepted without a connection.
TransactUnconnected ==
    /\ pc = "user"
    /\ Len(scheduled) < MaxScheduled
    /\ issued < MaxTransactions
    /\ issued' = issued + 1
    /\ \E m \in Masks : mask' = [mask EXCEPT ![issued'] = m]
    /\ scheduled' = Append(scheduled, issued')
    /\ UNCHANGED <<connected, idVars, pendingVars, aborting, responseVars, wireVars,
                   pc, after, outcome>>

\* transact(), not turned down with InvalidArgument, NotConnected or
\* NoTransactionAvailable.
Transact ==
    /\ pc = "user"
    /\ connected
    /\ Len(scheduled) < MaxScheduled
    /\ issued < MaxTransactions
    /\ issued' = issued + 1
    /\ \E m \in Masks : mask' = [mask EXCEPT ![issued'] = m]
    /\ scheduled' = Append(scheduled, issued')
    /\ UNCHANGED <<connected, idVars, pendingVars, aborting, responseVars, wireVars,
                   pc, after, outcome>>

\* disconnect() and tick() of a connected client, called from the main loop.
Disconnect ==
    /\ AtMainLoop
    /\ connected
    /\ pc' = "disconnect"
    /\ UNCHANGED <<connected, idVars, pendingVars, scheduled, aborting, responseVars,
                   wireVars, after, userVars, outcome>>

Tick ==
    /\ AtMainLoop
    /\ connected
    /\ pc' = "tick_hook"
    /\ UNCHANGED <<connected, idVars, pendingVars, scheduled, aborting, responseVars,
                   wireVars, after, userVars, outcome>>

CallbackReturns ==
    /\ pc = "user"
    /\ after # "main"
    /\ pc' = after
    /\ after' = "main"
    /\ UNCHANGED <<connected, idVars, pendingVars, scheduled, aborting, responseVars,
                   wireVars, userVars, outcome>>

-----------------------------------------------------------------------------
(* tick_hook().                                                            *)

\* Bug: the deadline is only looked at while a response is being received.
ExpiresWhileReceiving == pending_transaction # Null /\ pending_transaction_deadline = 0
                                                   /\ received # <<>>

Expired == pending_transaction # Null /\ pending_transaction_deadline = 0

\* check_pending_transaction_timeout(), first in tick_hook() and recv_hook().
CheckTimeout(next) ==
    \/ Expired /\ FinishPending("Timeout", next)
    \/ ~Expired /\ pc' = next /\ UNCHANGED <<pendingVars, after, outcome>>

TickHook ==
    /\ pc = "tick_hook"
    /\ CheckTimeout("send")
    /\ UNCHANGED <<connected, idVars, scheduled, aborting, responseVars, wireVars, userVars>>

NothingToSend ==
    /\ pc = "send"
    /\ pending_transaction # Null \/ scheduled = <<>>
    /\ pc' = "recv_hook"
    /\ UNCHANGED <<connected, idVars, pendingVars, scheduled, aborting, responseVars,
                   wireVars, after, userVars, outcome>>

NextId(t) == mask[t][next_transaction_id]

\* next_transaction_id++ & transaction_id_mask; when the counter wraps the next round
\* begins.
TakeId ==
    /\ IF next_transaction_id = IdCount - 1
       THEN next_transaction_id' = 0 /\ round' = round + 1
       ELSE next_transaction_id' = next_transaction_id + 1 /\ round' = round
    /\ ids' = [ids EXCEPT ![Head(scheduled)] = NextId(Head(scheduled))]
    /\ rounds' = [rounds EXCEPT ![Head(scheduled)] = round]

\* Bug: one tick too many.
LongerDeadline == Timeout + 1

NewDeadline == Timeout

\* The first scheduled transaction becomes the pending one and is sent; when that
\* fails it ends and the connection is given up.
Send ==
    /\ pc = "send"
    /\ pending_transaction = Null
    /\ scheduled # <<>>
    /\ scheduled' = Tail(scheduled)
    /\ TakeId
    /\ \/ /\ pending_transaction' = Head(scheduled)
          /\ pending_transaction_id' = ids'[Head(scheduled)]
          /\ pending_transaction_deadline' = NewDeadline
          /\ requests' = requests \cup {Head(scheduled)}
          /\ pc' = "recv_hook"
          /\ UNCHANGED <<after, outcome>>
       \/ /\ CallBack(Head(scheduled), "SendFailed", "disconnect")
          /\ ClearPending
          /\ UNCHANGED requests
    /\ UNCHANGED <<connected, aborting, responseVars, stream, derailed, answers, userVars>>

-----------------------------------------------------------------------------
(* recv_hook(), and the loop around it in tick().                          *)

\* recv_hook() returned true: it is called again until tick() ran too long.
Loop ==
    /\ pc = "loop"
    /\ pc' \in {"recv_hook", "user"}
    /\ UNCHANGED <<connected, idVars, pendingVars, scheduled, aborting, responseVars,
                   wireVars, after, userVars, outcome>>

RecvHook ==
    /\ pc = "recv_hook"
    /\ CheckTimeout("read")
    /\ UNCHANGED <<connected, idVars, scheduled, aborting, responseVars, wireVars, userVars>>

HeaderMissing  == pc = "read" /\ Len(received) < HeaderLength
HeaderReceived == pc = "read" /\ Len(received) >= HeaderLength /\ header = Unchecked
PayloadUsed    == Len(received) - HeaderLength
PayloadMissing == pc = "read" /\ header # Unchecked /\ PayloadUsed < header.length
PayloadRead    == pc = "read" /\ header # Unchecked /\ PayloadUsed = header.length

\* recv() returns n bytes.
Recv(n) ==
    /\ n <= Len(stream)
    /\ received' = received \o SubSeq(stream, 1, n)
    /\ stream' = SubSeq(stream, n + 1, Len(stream))

\* recv() returns fewer bytes than asked for, or as many.
RecvSome ==
    /\ \/ HeaderMissing /\ \E n \in 1..(HeaderLength - Len(received)) : Recv(n)
       \/ PayloadMissing /\ \E n \in 1..(header.length - PayloadUsed) : Recv(n)
    /\ pc' = "loop"
    /\ UNCHANGED <<connected, idVars, pendingVars, scheduled, aborting, header,
                   requests, derailed, answers, after, userVars, outcome>>

\* recv() would block: tick() returns.
RecvNothing ==
    /\ HeaderMissing \/ PayloadMissing
    /\ pc' = "user"
    /\ UNCHANGED <<connected, idVars, pendingVars, scheduled, aborting, responseVars,
                   wireVars, after, userVars, outcome>>

\* recv() fails, or the peer has closed.
RecvFails ==
    /\ \/ /\ HeaderMissing
          /\ pc' = "disconnect"
          /\ UNCHANGED <<pendingVars, after, outcome>>
       \/ /\ PayloadMissing
          /\ \E result \in {"ReceiveFailed", "DisconnectedByPeer"} :
                 FinishMatching(header.id, result, "disconnect")
    /\ UNCHANGED <<connected, idVars, scheduled, aborting, responseVars, wireVars, userVars>>

\* The checks of the header.
CheckHeader ==
    /\ HeaderReceived
    /\ \E h \in IF InStep THEN {received[1].frame} ELSE Noise :
           \/ /\ h.kind = "ok"
              /\ header' = h
              /\ UNCHANGED <<pc, pendingVars, after, outcome>>
           \/ /\ h.kind = "protocol"
              /\ pc' = "disconnect"
              /\ UNCHANGED <<header, pendingVars, after, outcome>>
           \/ /\ h.kind = "length"
              /\ FinishMatching(h.id, "Response", "disconnect")
              /\ UNCHANGED header
    /\ UNCHANGED <<connected, idVars, scheduled, aborting, received, wireVars, userVars>>

\* Bug: the room left in the payload buffer is not looked at.
AnyFits(n) == n < HeaderLength

\* FIONREAD says n: fewer bytes than a header, for which there is room.
TrailingFits(n) == n < HeaderLength /\ PayloadUsed + n <= MaxPayload

\* Some of these bytes belong to a frame, as far as its header tells.
Genuine(bytes) == \E i \in 1..Len(bytes) :
                      bytes[i].pos <= HeaderLength + bytes[i].frame.length

\* The bytes that are there, if they are fewer than a header, are taken for a part
\* of the payload that the header did not count.
AppendTrailing ==
    /\ PayloadRead
    /\ \E n \in 1..HeaderLength :
           /\ TrailingFits(n)
           /\ Recv(n)
           /\ header' = [header EXCEPT !.length = @ + n]
           /\ derailed' = IF derailed = "no" /\ Genuine(SubSeq(stream, 1, n))
                          THEN "client" ELSE derailed
    /\ pc' = "judge"
    /\ UNCHANGED <<connected, idVars, pendingVars, scheduled, aborting, requests,
                   answers, after, userVars, outcome>>

\* FIONREAD says 0, as it may whatever the peer has sent, or too much.
NoTrailing ==
    /\ PayloadRead
    /\ pc' = "judge"
    /\ UNCHANGED <<connected, idVars, pendingVars, scheduled, aborting, responseVars,
                   wireVars, after, userVars, outcome>>

\* ioctl() or recv() fails, or the peer has closed; or recv() would block: tick()
\* returns, and the next one asks again.
TrailingFails ==
    /\ PayloadRead
    /\ \/ \E result \in {"ReceiveFailed", "DisconnectedByPeer"} :
              FinishMatching(header.id, result, "disconnect")
       \/ pc' = "user" /\ UNCHANGED <<pendingVars, after, outcome>>
    /\ UNCHANGED <<connected, idVars, scheduled, aborting, responseVars, wireVars, userVars>>

ResponseTooShort ==
    /\ pc = "judge"
    /\ header.length < MinPayload
    /\ FinishMatching(header.id, "Response", "disconnect")
    /\ UNCHANGED <<connected, idVars, scheduled, aborting, responseVars, wireVars, userVars>>

\* No transaction is pending, or another one.
IgnoreResponse ==
    /\ pc = "judge"
    /\ header.length >= MinPayload
    /\ ~Matches(header.id)
    /\ ResetPendingResponse
    /\ pc' = "loop"
    /\ UNCHANGED <<connected, idVars, pendingVars, scheduled, aborting, wireVars,
                   after, userVars, outcome>>

\* The checks of the payload: Success, or the exception or mismatch found.
FinishResponse ==
    /\ pc = "judge"
    /\ header.length >= MinPayload
    /\ Matches(header.id)
    /\ ResetPendingResponse
    /\ FinishPending(IF header.good /\ PayloadUsed >= header.needed
                     THEN "Success" ELSE "Response", "loop")
    /\ UNCHANGED <<connected, idVars, scheduled, aborting, wireVars, userVars>>

-----------------------------------------------------------------------------
(* disconnect(), close() and close_hook().                                 *)

\* Bug: a partly received response is kept for the next connection.
CloseKeepsResponse ==
    /\ pc = "disconnect"
    /\ connected' = FALSE
    /\ stream' = <<>>
    /\ requests' = {}
    /\ derailed' = "no"
    /\ pc' = "close_hook"
    /\ UNCHANGED <<idVars, pendingVars, scheduled, aborting, responseVars,
                   answers, after, userVars, outcome>>

\* The socket is closed, and what was on its way is lost, before any callback.
Close ==
    /\ pc = "disconnect"
    /\ connected' = FALSE
    /\ stream' = <<>>
    /\ requests' = {}
    /\ derailed' = "no"
    /\ ResetPendingResponse
    /\ pc' = "close_hook"
    /\ UNCHANGED <<idVars, pendingVars, scheduled, aborting, answers, after,
                   userVars, outcome>>

\* finish_all_transactions(): the pending one, then the scheduled ones in turn.
AbortPending ==
    /\ pc = "close_hook"
    /\ FinishPending("Aborted", "finish_all") \/ NothingPending("finish_all")
    /\ UNCHANGED <<connected, idVars, scheduled, aborting, responseVars, wireVars, userVars>>

TakeScheduled ==
    /\ pc = "finish_all"
    /\ aborting' = scheduled
    /\ scheduled' = <<>>
    /\ pc' = "abort"
    /\ UNCHANGED <<connected, idVars, pendingVars, responseVars, wireVars, after,
                   userVars, outcome>>

AbortNext ==
    /\ pc = "abort"
    /\ aborting # <<>>
    /\ aborting' = Tail(aborting)
    /\ CallBack(Head(aborting), "Aborted", "abort")
    /\ UNCHANGED <<connected, idVars, pendingVars, scheduled, responseVars, wireVars,
                   userVars>>

\* disconnect() calls the disconnect callback and returns, and so does tick().
Closed ==
    /\ pc = "abort"
    /\ aborting = <<>>
    /\ pc' = "user"
    /\ UNCHANGED <<connected, idVars, pendingVars, scheduled, aborting, responseVars,
                   wireVars, after, userVars, outcome>>

-----------------------------------------------------------------------------
(* The peer, and time.                                                     *)

AnswersTo(t) ==
    BadHeaders(t, ids[t]) \cup
    {[t |-> t, id |-> ids[t], kind |-> "ok", length |-> n, needed |-> n + extra,
      good |-> good] : n \in Payloads, extra \in Extras, good \in BOOLEAN}

\* The peer answers a request of this connection, for the first time or again.
\* What arrives between two calls of recv_hook() counts as arriving when it is
\* called, because recv() may leave any of it for later.
Answer ==
    /\ pc = "recv_hook"
    /\ answers < MaxAnswers
    /\ answers' = answers + 1
    /\ \E t \in requests : \E f \in AnswersTo(t) :
           /\ requests' = IF Repeats THEN requests ELSE requests \ {t}
           /\ stream' = stream \o BytesOf(f)
           /\ derailed' = IF derailed = "no" /\ f.needed # f.length THEN "peer" ELSE derailed
    /\ UNCHANGED <<connected, idVars, pendingVars, scheduled, aborting, responseVars,
                   pc, after, userVars, outcome>>

\* Time passes; it is seen where the deadline is looked at.
Elapse ==
    /\ pc \in {"tick_hook", "recv_hook"}
    /\ pending_transaction # Null
    /\ pending_transaction_deadline > 0
    /\ pending_transaction_deadline' = pending_transaction_deadline - 1
    /\ UNCHANGED <<connected, idVars, pending_transaction, pending_transaction_id,
                   scheduled, aborting, responseVars, wireVars, pc, after, userVars, outcome>>

-----------------------------------------------------------------------------
UserStep == Connect \/ Transact \/ Disconnect \/ Tick

LibraryStep ==
    \/ TickHook \/ NothingToSend \/ Send
    \/ Loop \/ RecvHook \/ RecvSome \/ RecvNothing \/ RecvFails \/ CheckHeader
    \/ AppendTrailing \/ NoTrailing \/ TrailingFails
    \/ ResponseTooShort \/ IgnoreResponse \/ FinishResponse
    \/ Close \/ AbortPending \/ TakeScheduled \/ AbortNext \/ Closed

Next == UserStep \/ CallbackReturns \/ LibraryStep \/ Answer \/ Elapse

Spec == Init /\ [][Next]_vars

\* The library runs on, callbacks return, time passes, and the main loop keeps
\* calling tick(), whatever else the user calls.  Nothing is asked of the peer.
Fairness ==
    /\ WF_vars(LibraryStep)
    /\ WF_vars(CallbackReturns)
    /\ WF_vars(Tick)
    /\ SF_vars(Elapse)

FairSpec == Spec /\ Fairness

-----------------------------------------------------------------------------
(* Properties.                                                             *)

Labels == {"user", "tick_hook", "send", "loop", "recv_hook", "read", "judge",
           "disconnect", "close_hook", "finish_all", "abort"}
Resumes == {"main", "send", "loop", "read", "disconnect", "finish_all", "abort"}
Headers == Frames \cup {Unchecked}
Bytes == [frame : Frames, pos : Nat \ {0}]

\* Every variable has the type of the C++ member it stands for.
TypeOK ==
    /\ connected \in BOOLEAN
    /\ next_transaction_id \in Ids
    /\ pending_transaction \in Transactions \cup {Null}
    /\ pending_transaction_id \in Ids
    /\ pending_transaction_deadline \in 0..Timeout
    /\ scheduled \in Seq(Transactions)
    /\ aborting \in Seq(Transactions)
    /\ received \in Seq(Bytes)
    /\ header \in Headers
    /\ pc \in Labels
    /\ after \in Resumes
    /\ stream \in Seq(Bytes)
    /\ requests \subseteq Transactions
    /\ derailed \in {"no", "peer", "client"}
    /\ issued \in 0..MaxTransactions
    /\ outcome \in [Transactions -> Results \cup {Open}]
    /\ mask \in [Transactions -> [Ids -> Ids]]
    /\ ids \in [Transactions -> Ids]
    /\ round \in Nat
    /\ rounds \in [Transactions -> Nat]
    /\ answers \in 0..MaxAnswers

\* The payload received never outgrows the buffer of pending_response, however
\* the peer cuts its frames and whatever is appended as trailing data.
BufferBound ==
    /\ Len(received) <= HeaderLength + MaxPayload
    /\ header.length <= MaxPayload

\* Nothing of one connection is left for the next: no transaction, although
\* callbacks may call transact() while the others are being aborted, and no part
\* of a response.
CleanWhenClosed ==
    ~connected /\ AtMainLoop =>
        /\ pending_transaction = Null
        /\ scheduled = <<>>
        /\ aborting = <<>>
        /\ received = <<>>

\* Unless the peer sends bytes it does not count, or the client takes a part of
\* a response for trailing data, what the client collects as one response is the
\* beginning of one frame, across partial reads, timeouts and reconnects.
Aligned ==
    derailed = "no" =>
        \A n \in 1..Len(received) : received[n] = Byte(received[1].frame, n)

\* The frame a result is taken from.
Judged == IF header = Unchecked /\ InStep THEN received[1].frame ELSE header

\* A transaction that ends with Success, a mismatch or an exception was given the
\* response to its own request, never a late or repeated response to another one
\* -- unless that one was sent before it with the same id, which,
\* if neither mask drops a bit, takes a whole round of the counter between them; or
\* the client lost the start of the responses.
OwnAnswer ==
    [][\A t \in Transactions :
           outcome[t] = Open /\ outcome'[t] \in {"Success", "Response"} =>
               \/ Judged.t = t
               \/ /\ Judged.t # Null /\ Judged.t < t /\ ids[Judged.t] = ids[t]
                  /\ mask[Judged.t] = AllBits /\ mask[t] = AllBits =>
                         rounds[Judged.t] < rounds[t]
               \/ Judged.t = Null /\ derailed # "no"]_vars

\* The contract with the user of transact(): see TransactionContract.
Pending == IF pending_transaction = Null THEN <<>> ELSE <<pending_transaction>>

Contract == INSTANCE TransactionContract WITH
    Capacity <- MaxScheduled + 1,
    queue <- Pending \o aborting \o scheduled,
    status <- [t \in Transactions |->
                   IF outcome[t] # Open THEN outcome[t]
                   ELSE IF t <= issued THEN "open" ELSE "unused"]

\* Every accepted transaction ends once, in the order of acceptance, and never
\* more than the queue and the pending one are open, though they are handed from
\* the queue to the pending transaction, to the callbacks of an abort, and though
\* callbacks accept new ones.
ImplementsContract == Contract!Spec

\* Every accepted transaction ends, whatever the peer does: its timeout runs from
\* when it is sent, and those before it end too.
TransactionsEnd == \A t \in Transactions : (issued >= t) ~> (outcome[t] # Open)

\* The comment at TFModbusTCPClient.cpp:464-468: what is shorter than a header is
\* garbage, or data the header did not count.
TrailingIsGarbage == derailed # "client"
=============================================================================
