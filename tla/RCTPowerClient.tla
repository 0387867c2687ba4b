---------------------------- MODULE RCTPowerClient ----------------------------
(***************************************************************************)
(* TFRCTPowerClient: reads of values over a connection.  A response is a   *)
(* start byte '+' and the bytes of its data, those that are '+' or '-'     *)
(* escaped by a '-'; it says what it is, how long it is, which value it    *)
(* is for, the value and a checksum.  recv_hook() takes the stream a byte  *)
(* at a time, and a response is matched to the pending read by its id.     *)
(*                                                                         *)
(* Of the connection, which GenericTCPClient models, only "connected" is   *)
(* kept.  The peer may answer any request of the connection, late, never,  *)
(* more than once or wrongly, and send what is no response to a read.      *)
(*                                                                         *)
(* "pc" says where control is: with the "user" (in the main loop or, if    *)
(* after # "main", in a callback the library goes on from at "after"), or  *)
(* at the place in tick_hook(), recv_hook() or close_hook() it is named    *)
(* for.  Callbacks never nest.  A call of read() that is turned down calls *)
(* its own callback and changes nothing: it is a stuttering step.          *)
(***************************************************************************)
EXTENDS Naturals, Sequences

CONSTANTS
    MaxReads,      \* bound: calls of read() that are accepted
    MaxScheduled,  \* TF_RCT_POWER_CLIENT_MAX_SCHEDULED_TRANSACTION_COUNT
    MaxFrames,     \* bound: frames the peer sends
    Timeout,       \* the timeout every read is given
    Ids,           \* what may be read: a byte, four in the code
    Values,        \* what the peer may answer: as many bytes each, four in the code
    Checksums,     \* by id and value: a byte, the two of crc16ccitt() in the code
    Foreign        \* the data of frames that are no responses to a read

Plus == 43
Minus == 45
Response == 5      \* the command of a response
Length == 8        \* the length that it states

ASSUME CountsAssumption ==
    MaxReads \in Nat /\ MaxScheduled \in Nat /\ MaxFrames \in Nat /\ Timeout \in Nat
ASSUME IdsAssumption == Ids \subseteq 0..255
ASSUME ValuesAssumption ==
    Values # {} /\ \A v, w \in Values : v \in Seq(0..255) /\ Len(v) = Len(w)
ASSUME ChecksumsAssumption == Checksums \in [Ids -> [Values -> 0..255]]

\* What is no response to a read: its command is another, or the length that it states.
IsSkipped(data) == data[1] # Response \/ data[2] # Length

ASSUME ForeignAssumption ==
    \A data \in Foreign : data \in Seq(0..255) /\ Len(data) >= 2 /\ IsSkipped(data)

Null == 0
Reads == 1..MaxReads
ValueLength == Len(CHOOSE v \in Values : TRUE)
ResponseLength == 4 + ValueLength  \* sizeof(pending_response)

VARIABLES
    connected,             \* socket_fd >= 0
    pending,               \* pending_transaction
    deadline,              \* pending_transaction_deadline, kept as the time left
    scheduled,             \* the list at scheduled_transaction_head
    aborting,              \* the list in the local of finish_all_transactions()
    wait_for_start, last_received_byte, pending_response,
    pc, after,
    stream,                \* the bytes the peer sent that were not received yet
    requests,              \* the reads that were sent over this connection
    frames,                \* the frames the peer sent over this connection
    sent,                  \* how many it sent over all
    ids,                   \* by read, accepted in this order: what is to be read
    outcome                \* by read: what its callback was called with

readVars     == <<pending, deadline, scheduled, aborting, ids, outcome>>
responseVars == <<wait_for_start, last_received_byte, pending_response>>
peerVars     == <<stream, requests, frames, sent>>
vars == <<connected, readVars, responseVars, peerVars, pc, after>>

issued == Len(ids)
Open == "open"

Init ==
    /\ connected = FALSE
    /\ pending = Null
    /\ deadline = 0
    /\ scheduled = <<>>
    /\ aborting = <<>>
    /\ wait_for_start = TRUE
    /\ last_received_byte = 0
    /\ pending_response = <<>>
    /\ pc = "user"
    /\ after = "main"
    /\ stream = <<>>
    /\ requests = {}
    /\ frames = <<>>
    /\ sent = 0
    /\ ids = <<>>
    /\ outcome = [t \in Reads |-> Open]

-----------------------------------------------------------------------------
(* Calling back.                                                           *)

Go(next) == pc' = next /\ UNCHANGED after

\* Control goes to the callback of t, and on from there at "next".
CallBack(t, result, next) ==
    /\ outcome' = [outcome EXCEPT ![t] = result]
    /\ pc' = "user"
    /\ after' = next

\* finish_pending_transaction(), with a transaction pending.
FinishPending(result, next) ==
    /\ pending # Null
    /\ CallBack(pending, result, next)
    /\ pending' = Null
    /\ deadline' = 0

CallbackReturns ==
    /\ pc = "user"
    /\ after # "main"
    /\ pc' = after
    /\ after' = "main"
    /\ UNCHANGED <<connected, readVars, responseVars, peerVars>>

-----------------------------------------------------------------------------
(* The user.                                                               *)

AtMainLoop == pc = "user" /\ after = "main"

\* A tick() that connects calls the connect callback, and goes on to receive.
Connect ==
    /\ AtMainLoop
    /\ ~connected
    /\ connected' = TRUE
    /\ after' = "recv"
    /\ UNCHANGED <<readVars, responseVars, peerVars, pc>>

\* read(), not turned down with InvalidArgument, NotConnected or NoTransactionAvailable.
Read(id) ==
    /\ pc = "user"
    /\ connected
    /\ Len(scheduled) < MaxScheduled
    /\ issued < MaxReads
    /\ ids' = Append(ids, id)
    /\ scheduled' = Append(scheduled, Len(ids'))
    /\ UNCHANGED <<connected, pending, deadline, aborting, outcome, responseVars,
                   peerVars, pc, after>>

Tick ==
    /\ AtMainLoop
    /\ connected
    /\ Go("tick_hook")
    /\ UNCHANGED <<connected, readVars, responseVars, peerVars>>

Disconnect ==
    /\ AtMainLoop
    /\ connected
    /\ Go("disconnect")
    /\ UNCHANGED <<connected, readVars, responseVars, peerVars>>

-----------------------------------------------------------------------------
(* tick_hook().                                                            *)

\* Bug: the deadline is looked at only while a response is being received.
ExpiresWhileReceiving == pending # Null /\ deadline = 0 /\ pending_response # <<>>

Expired == pending # Null /\ deadline = 0

TickHook ==
    /\ pc = "tick_hook"
    /\ \/ Expired /\ FinishPending("Timeout", "send")
       \/ ~Expired /\ Go("send") /\ UNCHANGED <<pending, deadline, outcome>>
    /\ UNCHANGED <<connected, scheduled, aborting, ids, responseVars, peerVars>>

NothingToSend ==
    /\ pc = "send"
    /\ pending # Null \/ scheduled = <<>>
    /\ Go("recv")
    /\ UNCHANGED <<connected, readVars, responseVars, peerVars>>

MaySend == pc = "send" /\ pending = Null /\ scheduled # <<>>

Send ==
    /\ MaySend
    /\ scheduled' = Tail(scheduled)
    /\ \/ /\ pending' = Head(scheduled)
          /\ deadline' = Timeout
          /\ requests' = requests \cup {Head(scheduled)}
          /\ Go("recv")
          /\ UNCHANGED outcome
       \/ /\ CallBack(Head(scheduled), "SendFailed", "disconnect")
          /\ UNCHANGED <<pending, deadline, requests>>
    /\ UNCHANGED <<connected, aborting, ids, responseVars, stream, frames, sent>>

-----------------------------------------------------------------------------
(* recv_hook(), and the loop around it in tick().                          *)

ResetPendingResponse ==
    /\ wait_for_start' = TRUE
    /\ pending_response' = <<>>

\* Whether a byte starts a frame, or is data.
Starts(byte) == byte = Plus /\ last_received_byte # Minus

IsData(byte) ==
    ~wait_for_start /\ (byte \notin {Plus, Minus} \/ last_received_byte = Minus)

\* pending_response after this byte, which is b.byte.
Collected(b) ==
    IF IsData(b.byte) THEN Append(pending_response, b)
    ELSE IF ~wait_for_start /\ Starts(b.byte) THEN <<>> ELSE pending_response

\* The command is unexpected, or the length.
IsIgnored(response) ==
    \/ Len(response) = 1 /\ response[1].byte # Response
    \/ Len(response) = 2 /\ response[2].byte # Length

\* Bug: the loop ends a byte too late.
IsOverfull(response) == Len(response) > ResponseLength

IsFull(response) == Len(response) = ResponseLength

RecvByte ==
    /\ pc = "recv"
    /\ stream # <<>>
    /\ LET b == Head(stream) IN
       /\ stream' = Tail(stream)
       /\ last_received_byte' = b.byte
       /\ IF IsIgnored(Collected(b))
          THEN ResetPendingResponse
          ELSE /\ pending_response' = Collected(b)
               /\ wait_for_start' = (wait_for_start /\ ~Starts(b.byte))
    /\ Go(IF IsFull(Collected(Head(stream))) THEN "judge" ELSE "recv")
    /\ UNCHANGED <<connected, readVars, requests, frames, sent>>

\* recv() would block, or tick() ran for too long.
RecvNothing ==
    /\ pc = "recv"
    /\ Go("user")
    /\ UNCHANGED <<connected, readVars, responseVars, peerVars>>

\* recv() fails, or the peer has closed.
RecvFails ==
    /\ pc = "recv"
    /\ Go("disconnect")
    /\ UNCHANGED <<connected, readVars, responseVars, peerVars>>

Received == [n \in 1..Len(pending_response) |-> pending_response[n].byte]
Data(id, value) == <<Response, Length, id>> \o value \o <<Checksums[id][value]>>
IsValid(data) == \E id \in Ids, value \in Values : data = Data(id, value)

\* Bug: a response to any read is taken for the pending one's.
AnyMatches == pending # Null

Matches == pending # Null /\ Received[3] = ids[pending]

IgnoreResponse ==
    /\ pc = "judge"
    /\ ~Matches
    /\ ResetPendingResponse
    /\ Go("recv")
    /\ UNCHANGED <<connected, readVars, last_received_byte, peerVars>>

\* The checksum is compared, and the value returned if it is right.
FinishResponse ==
    /\ pc = "judge"
    /\ Matches
    /\ ResetPendingResponse
    /\ FinishPending(IF IsValid(Received) THEN "Success" ELSE "ChecksumMismatch", "recv")
    /\ UNCHANGED <<connected, scheduled, aborting, ids, last_received_byte, peerVars>>

-----------------------------------------------------------------------------
(* disconnect(), close() and close_hook().                                 *)

\* Bug: the last byte of a connection is kept for the next one.
KeepLastByte == UNCHANGED last_received_byte /\ ResetPendingResponse

ResetResponse == last_received_byte' = 0 /\ ResetPendingResponse

\* The socket is closed, and what was on its way is lost, before any callback.
Close ==
    /\ pc = "disconnect"
    /\ connected' = FALSE
    /\ stream' = <<>>
    /\ requests' = {}
    /\ frames' = <<>>
    /\ ResetResponse
    /\ Go("close_hook")
    /\ UNCHANGED <<readVars, sent>>

\* finish_all_transactions(): the pending one, then the scheduled ones in turn.
AbortPending ==
    /\ pc = "close_hook"
    /\ \/ FinishPending("Aborted", "finish_all")
       \/ pending = Null /\ Go("finish_all") /\ UNCHANGED <<pending, deadline, outcome>>
    /\ UNCHANGED <<connected, scheduled, aborting, ids, responseVars, peerVars>>

\* Bug: the scheduled ones are called back, but stay in the list.
CopyScheduled == aborting' = scheduled /\ UNCHANGED scheduled

MoveScheduled == aborting' = scheduled /\ scheduled' = <<>>

TakeScheduled ==
    /\ pc = "finish_all"
    /\ MoveScheduled
    /\ Go("abort")
    /\ UNCHANGED <<connected, pending, deadline, ids, outcome, responseVars, peerVars>>

AbortNext ==
    /\ pc = "abort"
    /\ aborting # <<>>
    /\ aborting' = Tail(aborting)
    /\ CallBack(Head(aborting), "Aborted", "abort")
    /\ UNCHANGED <<connected, pending, deadline, scheduled, ids, responseVars, peerVars>>

Closed ==
    /\ pc = "abort"
    /\ aborting = <<>>
    /\ Go("user")
    /\ UNCHANGED <<connected, readVars, responseVars, peerVars>>

-----------------------------------------------------------------------------
(* The peer, and time.                                                     *)

\* Each byte knows the frame it is from, which byte of the data it is a part of (the
\* start byte is none) and whether it escapes that byte: only the properties ask.
Byte(n, pos, byte) == [frame |-> n, pos |-> pos, byte |-> byte, escape |-> FALSE]
Escape(n, pos) == [frame |-> n, pos |-> pos, byte |-> Minus, escape |-> TRUE]

Escaped(n, data) ==
    LET from[pos \in 1..(Len(data) + 1)] ==
            IF pos > Len(data) THEN <<>>
            ELSE (IF data[pos] \in {Plus, Minus} THEN <<Escape(n, pos)>> ELSE <<>>)
                     \o <<Byte(n, pos, data[pos])>> \o from[pos + 1]
    IN  <<Byte(n, 0, Plus)>> \o from[1]

SendFrame(t, data) ==
    /\ sent < MaxFrames
    /\ sent' = sent + 1
    /\ frames' = Append(frames, [to |-> t, data |-> data])
    /\ stream' = stream \o Escaped(Len(frames'), data)
    /\ UNCHANGED <<connected, readVars, responseVars, requests, pc, after>>

\* A response, with a wrong checksum too, to a request of this connection.
Respond ==
    /\ pc = "recv"
    /\ \E t \in requests, value \in Values :
           LET good == Data(ids[t], value) IN
           \E data \in {good, [good EXCEPT ![ResponseLength] = 0]} : SendFrame(t, data)

\* Another frame, which nobody asked for.
SendForeign ==
    /\ pc = "recv"
    /\ \E data \in Foreign : SendFrame(Null, data)

Elapse ==
    /\ pc = "tick_hook"
    /\ pending # Null
    /\ deadline > 0
    /\ deadline' = deadline - 1
    /\ UNCHANGED <<connected, pending, scheduled, aborting, ids, outcome, responseVars,
                   peerVars, pc, after>>

-----------------------------------------------------------------------------
UserStep == Connect \/ (\E id \in Ids : Read(id)) \/ Tick \/ Disconnect

LibraryStep ==
    \/ TickHook \/ NothingToSend \/ Send
    \/ RecvByte \/ RecvNothing \/ RecvFails \/ IgnoreResponse \/ FinishResponse
    \/ Close \/ AbortPending \/ TakeScheduled \/ AbortNext \/ Closed

Next == UserStep \/ CallbackReturns \/ LibraryStep \/ Respond \/ SendForeign \/ Elapse

Spec == Init /\ [][Next]_vars

\* The library runs on, callbacks return, time passes, and the main loop keeps
\* calling tick().  Nothing is asked of the peer.
Fairness ==
    /\ WF_vars(LibraryStep)
    /\ WF_vars(CallbackReturns)
    /\ WF_vars(Tick)
    /\ SF_vars(Elapse)

FairSpec == Spec /\ Fairness

-----------------------------------------------------------------------------
(* Properties.                                                             *)

Results == {"Success", "ChecksumMismatch", "Timeout", "Aborted", "SendFailed"}

Labels == {"user", "tick_hook", "send", "recv", "judge", "disconnect", "close_hook",
           "finish_all", "abort"}
Resumes == {"main", "send", "recv", "disconnect", "finish_all", "abort"}
Bytes == [frame : Nat \ {0}, pos : Nat, byte : 0..255, escape : BOOLEAN]

\* Every variable has the type of the C++ member it stands for, and pending_response
\* does not outgrow its buffer.
TypeOK ==
    /\ connected \in BOOLEAN
    /\ pending \in Reads \cup {Null} /\ deadline \in 0..Timeout
    /\ scheduled \in Seq(Reads) /\ aborting \in Seq(Reads)
    /\ wait_for_start \in BOOLEAN /\ last_received_byte \in 0..255
    /\ pending_response \in Seq(Bytes) /\ Len(pending_response) <= ResponseLength
    /\ pc \in Labels /\ after \in Resumes
    /\ stream \in Seq(Bytes)
    /\ requests \subseteq Reads
    /\ frames \in Seq([to : Reads \cup {Null}, data : Seq(0..255)])
    /\ sent \in 0..MaxFrames
    /\ ids \in Seq(Ids) /\ issued <= MaxReads
    /\ outcome \in [Reads -> Results \cup {Open}]

\* What the decoder can tell apart: it takes the second '-' of an escaped '-' for an
\* escape, so that must not be followed by an escaped byte, nor by a start byte.
IsDecodable(data) ==
    \A p \in 1..Len(data) :
        data[p] = Minus => p < Len(data) /\ data[p + 1] \notin {Plus, Minus}

AllDecodable == \A n \in 1..Len(frames) : IsDecodable(frames[n].data)

\* The decoder never loses its place in a stream of frames it can tell apart, whatever
\* they are, however often it waits between two bytes, and across connections: what it
\* has collected is the beginning of one frame and the next byte goes on from there, and
\* it waits for a start only at the end of a frame, or in one that is skipped.
InStep ==
    AllDecodable =>
        /\ \A n \in 1..Len(pending_response) :
               pending_response[n] =
                   Byte(pending_response[1].frame, n, frames[pending_response[1].frame].data[n])
        /\ stream # <<>> /\ pc # "judge" =>
               LET next == Head(stream) IN
               IF wait_for_start
               THEN next.pos = 0 \/ IsSkipped(frames[next.frame].data)
               ELSE /\ next.pos = Len(pending_response) + 1
                    /\ pending_response # <<>> => pending_response[1].frame = next.frame

\* A read ends with the value, or with the wrong checksum, of a frame that the peer sent
\* over this connection, in response to this read or to an earlier one.  If that frame is
\* one the decoder can tell apart, whatever frames were before it, the read is of the same
\* id, and has the value and the checksum that were sent; of other frames no more is said.
OwnValue ==
    [][\A t \in Reads :
           outcome[t] = Open /\ outcome'[t] \in {"Success", "ChecksumMismatch"} =>
               LET frame == frames[pending_response[1].frame] IN
               /\ frame.to \in requests /\ frame.to <= t
               /\ IsDecodable(frame.data) =>
                      /\ ids[frame.to] = ids[t]
                      /\ frame.data = Received
                      /\ outcome'[t] = "Success" <=> IsValid(frame.data)]_vars

\* The contract with the user of read(): see TransactionContract.
Contract == INSTANCE TransactionContract WITH
    Transactions <- Reads,
    Capacity <- MaxScheduled + 1,
    queue <- (IF pending = Null THEN <<>> ELSE <<pending>>) \o aborting \o scheduled,
    status <- [t \in Reads |-> IF outcome[t] # Open THEN outcome[t]
                               ELSE IF t <= issued THEN "open" ELSE "unused"]

\* Every accepted read ends once, in the order of acceptance, and no more are open than
\* there is room for.
ImplementsContract == Contract!Spec

\* Every accepted read ends, whatever the peer sends.
ReadsEnd == \A t \in Reads : (issued >= t) ~> (outcome[t] # Open)
=============================================================================
