----------------------- MODULE ModbusTCPClientProofs --------------------------
(* Proofs about ModbusTCPClient, for every number of transactions, of ids, *)
(* every capacity of the queue and every length of headers and payloads.   *)
EXTENDS ModbusTCPClient, SequenceTheorems, TLAPS

USE CountsAssumption, IdCountAssumption, LengthsAssumption, PeerAssumption DEF userVars

-----------------------------------------------------------------------------
(* The inductive invariant.                                                *)

\* Where the library is, or goes on from when the callback returns.
At == IF pc = "user" THEN after ELSE pc

\* The connection, and what there is of transactions and of the response, by
\* place.
ControlInv ==
    /\ pc # "user" => after = "main"
    /\ At \in {"tick_hook", "send", "loop", "recv_hook", "read", "judge", "disconnect"} =>
           connected
    /\ At \in {"close_hook", "finish_all", "abort"} => ~connected
    /\ ~connected => received = <<>> /\ header = Unchecked /\ stream = <<>>
    /\ ~connected /\ At # "close_hook" => pending_transaction = Null
    /\ ~connected /\ At \notin {"close_hook", "finish_all"} => scheduled = <<>>
    /\ At # "abort" => aborting = <<>>

\* A list of transactions that ends with the one accepted last.
EndsWithLast(list) ==
    /\ Len(list) <= issued
    /\ \A i \in 1..Len(list) : list[i] = issued - Len(list) + i

\* The open transactions are the last ones accepted, in order.
OrderInv ==
    /\ EndsWithLast(scheduled)
    /\ EndsWithLast(aborting)
    /\ Len(scheduled) <= MaxScheduled
    /\ aborting # <<>> => scheduled = <<>>
    /\ pending_transaction # Null =>
           pending_transaction = issued - Len(scheduled) /\ aborting = <<>>
    /\ \A t \in Transactions :
           outcome[t] = Open <=> \/ t > issued - Len(scheduled) - Len(aborting)
                                 \/ t = pending_transaction

\* What is stored of a response fits its buffer.
ResponseInv ==
    /\ header = Unchecked => Len(received) <= HeaderLength
    /\ header # Unchecked => Len(received) \in HeaderLength..(HeaderLength + header.length)
    /\ header.length <= MaxPayload
    /\ pc = "judge" => header # Unchecked /\ PayloadUsed = header.length
    /\ \A i \in 1..Len(received) : received[i].frame.length <= MaxPayload
    /\ \A i \in 1..Len(stream) : stream[i].frame.length <= MaxPayload

Sent(t) == rounds[t] # 0

\* Transaction t took its id before the counter had this value in this round.
TookBefore(t, aRound, number) ==
    \/ rounds[t] < aRound
    \/ rounds[t] = aRound /\ (mask[t] = AllBits => ids[t] < number)

\* A frame answers a request that was sent, with its id.
AnswersRequest(f) == Sent(f.t) /\ f.id = ids[f.t]

\* The ids were taken in the order of the transactions, and tell those requests of
\* one round apart whose masks keep all bits.
IdInv ==
    /\ round > 0
    /\ \A t \in Transactions : Sent(t) =>
           /\ t <= issued - Len(scheduled)
           /\ TookBefore(t, round, next_transaction_id)
           /\ \A u \in Transactions : Sent(u) /\ t < u /\ mask[u] = AllBits =>
                  TookBefore(t, rounds[u], ids[u])
    /\ pending_transaction # Null =>
           Sent(pending_transaction) /\ ids[pending_transaction] = pending_transaction_id
    /\ \A t \in requests : Sent(t)
    /\ \A i \in 1..Len(received) :
           received[i].frame.t # Null /\ AnswersRequest(received[i].frame)
    /\ \A i \in 1..Len(stream) :
           stream[i].frame.t # Null /\ AnswersRequest(stream[i].frame)
    /\ header.t # Null => AnswersRequest(header)

Size(f) == HeaderLength + f.needed

\* The bytes w[1], ..., w[len] are frames, one after another, each in full and
\* as long as its header says.
InFrames(w, len) ==
    /\ len > 0 => w[1].pos = 1 /\ w[len].pos = Size(w[len].frame)
    /\ \A i \in 1..len :
           /\ w[i].frame.needed = w[i].frame.length
           /\ w[i].pos = 1 =>
                  /\ i + Size(w[i].frame) - 1 <= len
                  /\ \A n \in 1..Size(w[i].frame) : w[i + n - 1] = Byte(w[i].frame, n)
           /\ w[i].pos = Size(w[i].frame) /\ i < len => w[i + 1].pos = 1

\* The bytes of this connection from the start of the present response on.
WholeLen == Len(received) + Len(stream)
Whole == [i \in 1..WholeLen |->
              IF i <= Len(received) THEN received[i] ELSE stream[i - Len(received)]]

AlignInv ==
    derailed = "no" =>
        /\ InFrames(Whole, WholeLen)
        /\ header # Unchecked => received # <<>> /\ header = received[1].frame

IInv == TypeOK /\ ControlInv /\ OrderInv /\ ResponseInv /\ IdInv /\ AlignInv

-----------------------------------------------------------------------------
(* Sequences.                                                              *)

\* What Head and Tail make of a sequence.
LEMMA TailIs ==
    ASSUME NEW S, NEW s \in Seq(S), s # <<>>
    PROVE  /\ Len(s) \in Nat \ {0} /\ Head(s) = s[1] /\ Head(s) \in S
           /\ Tail(s) \in Seq(S) /\ Len(Tail(s)) = Len(s) - 1
           /\ \A i \in 1..Len(Tail(s)) : Tail(s)[i] = s[i + 1]
  BY HeadTailProperties, EmptySeq

\* What recv() makes of two sequences.
LEMMA CutIs ==
    ASSUME NEW S, NEW s \in Seq(S), NEW n \in Nat, n <= Len(s)
    PROVE  /\ SubSeq(s, 1, n) \in Seq(S) /\ Len(SubSeq(s, 1, n)) = n
           /\ \A i \in 1..n : SubSeq(s, 1, n)[i] = s[i]
           /\ SubSeq(s, n + 1, Len(s)) \in Seq(S)
           /\ Len(SubSeq(s, n + 1, Len(s))) = Len(s) - n
           /\ \A i \in 1..(Len(s) - n) : SubSeq(s, n + 1, Len(s))[i] = s[n + i]
<1>1. Len(s) \in Nat
  OBVIOUS
<1>2. SubSeq(s, 1, n) \in Seq(S) /\ Len(SubSeq(s, 1, n)) = n
      /\ \A i \in 1..n : SubSeq(s, 1, n)[i] = s[i]
  BY <1>1
<1>3. PICK m \in Nat : m = Len(s)
  BY <1>1
<1>4. SubSeq(s, n + 1, m) \in Seq(S) /\ Len(SubSeq(s, n + 1, m)) = m - n
      /\ \A i \in 1..(m - n) : SubSeq(s, n + 1, m)[i] = s[n + i]
  BY <1>3
<1>5. QED
  BY <1>2, <1>3, <1>4

LEMMA JoinIs ==
    ASSUME NEW S, NEW r \in Seq(S), NEW s \in Seq(S)
    PROVE  /\ r \o s \in Seq(S) /\ Len(r \o s) = Len(r) + Len(s)
           /\ \A i \in 1..Len(r) : (r \o s)[i] = r[i]
           /\ \A i \in 1..Len(s) : (r \o s)[Len(r) + i] = s[i]
  BY ConcatProperties

\* The lengths that proofs count with.
LEMMA LengthsAreNat ==
    ASSUME TypeOK
    PROVE  /\ Len(received) \in Nat /\ Len(stream) \in Nat
           /\ Len(scheduled) \in Nat /\ issued \in Nat
<1>1. /\ received \in Seq(Bytes) /\ stream \in Seq(Bytes)
      /\ scheduled \in Seq(Transactions) /\ issued \in 0..MaxTransactions
  BY DEF TypeOK
<1>2. QED
  BY <1>1, LenProperties

\* recv() returns some number of bytes, wherever it is called.
LEMMA RecvCounts ==
    ASSUME RecvSome \/ AppendTrailing
    PROVE  \E n \in Nat : Recv(n)
<1>1. ASSUME NEW k, NEW n \in 1..k, Recv(n)  PROVE  \E m \in Nat : Recv(m)
  <2>1. n \in Nat
    OBVIOUS
  <2>2. QED
    BY <1>1, <2>1, Zenon
<1>2. CASE RecvSome
  <2>1. \/ \E n \in 1..(HeaderLength - Len(received)) : Recv(n)
        \/ \E n \in 1..(header.length - PayloadUsed) : Recv(n)
    BY <1>2, Zenon DEF RecvSome
  <2>2. QED
    BY <1>1, <2>1, Zenon
<1>3. CASE AppendTrailing
  <2>1. \E n \in 1..HeaderLength : Recv(n)
    BY <1>3, Zenon DEF AppendTrailing
  <2>2. QED
    BY <1>1, <2>1, Zenon
<1>4. QED
  BY <1>2, <1>3

\* recv() returns n bytes.
LEMMA RecvIs ==
    ASSUME TypeOK, NEW n \in Nat, Recv(n)
    PROVE  /\ received' \in Seq(Bytes) /\ stream' \in Seq(Bytes)
           /\ n <= Len(stream)
           /\ Len(received') = Len(received) + n /\ Len(stream') = Len(stream) - n
           /\ \A i \in 1..Len(received) : received'[i] = received[i]
           /\ \A i \in 1..n : received'[Len(received) + i] = stream[i]
           /\ \A i \in 1..Len(stream') : stream'[i] = stream[n + i]
<1>1. received \in Seq(Bytes) /\ stream \in Seq(Bytes) /\ n <= Len(stream)
  BY DEF TypeOK, Recv
<1>2. PICK cut : cut = SubSeq(stream, 1, n)
  OBVIOUS
<1>3. cut \in Seq(Bytes) /\ Len(cut) = n /\ \A i \in 1..n : cut[i] = stream[i]
  BY <1>1, <1>2, CutIs
<1>4. /\ stream' \in Seq(Bytes) /\ Len(stream') = Len(stream) - n
      /\ \A i \in 1..Len(stream') : stream'[i] = stream[n + i]
  BY <1>1, CutIs DEF Recv
<1>5. received' = received \o cut
  BY <1>2 DEF Recv
<1>6. PICK joined : joined = received \o cut
  OBVIOUS
<1>7. joined \in Seq(Bytes)
  BY <1>1, <1>3, <1>6
<1>8. Len(joined) = Len(received) + n
  <2>1. received \in Seq(Bytes) /\ cut \in Seq(Bytes) /\ Len(cut) = n
    BY <1>1, <1>3
  <2>2. Len(received \o cut) = Len(received) + Len(cut)
    BY <2>1, ConcatProperties
  <2>3. QED
    BY <1>6, <2>1, <2>2
<1>9. \A i \in 1..Len(received) : joined[i] = received[i]
  BY <1>1, <1>3, <1>6
<1>10. \A i \in 1..n : joined[Len(received) + i] = stream[i]
  BY <1>1, <1>3, <1>6
<1>11. QED
  BY <1>1, <1>4, <1>5, <1>6, <1>7, <1>8, <1>9, <1>10

-----------------------------------------------------------------------------
(* Types.                                                                  *)

LEMMA InitType == Init => TypeOK
<1> SUFFICES ASSUME Init PROVE TypeOK
  OBVIOUS
<1>1. /\ received \in Seq(Bytes) /\ stream \in Seq(Bytes)
      /\ scheduled \in Seq(Transactions) /\ aborting \in Seq(Transactions)
  BY EmptySeq DEF Init
<1>2. header \in Headers /\ pc \in Labels /\ after \in Resumes
  BY DEF Init, Headers, Labels, Resumes
<1>3. /\ outcome \in [Transactions -> Results \cup {Open}]
      /\ ids \in [Transactions -> Ids] /\ rounds \in [Transactions -> Nat]
      /\ mask \in [Transactions -> [Ids -> Ids]]
  BY DEF Init, Ids, AllBits
<1>4. connected \in BOOLEAN
  BY DEF Init
<1>5. /\ next_transaction_id \in Ids
      /\ pending_transaction \in Transactions \cup {Null} /\ pending_transaction_id \in Ids
      /\ pending_transaction_deadline \in 0..Timeout
  BY DEF Init, Ids, Null
<1>6. /\ requests \subseteq Transactions /\ derailed \in {"no", "peer", "client"}
      /\ issued \in 0..MaxTransactions /\ round \in Nat /\ answers \in 0..MaxAnswers
  BY DEF Init
<1>7. QED
  BY <1>1, <1>2, <1>3, <1>4, <1>5, <1>6 DEF TypeOK

\* What ending the pending transaction changes, or leaves alone.
EndTypes ==
    /\ pending_transaction \in Transactions \cup {Null}
    /\ pending_transaction_id \in Ids
    /\ pending_transaction_deadline \in 0..Timeout
    /\ outcome \in [Transactions -> Results \cup {Open}]
    /\ pc \in Labels
    /\ after \in Resumes

LEMMA FinishPendingType ==
    ASSUME TypeOK, NEW result \in Results, NEW next \in Resumes, FinishPending(result, next)
    PROVE  EndTypes'
<1>1. pending_transaction \in Transactions
  BY DEF TypeOK, FinishPending
<1>2. outcome' \in [Transactions -> Results \cup {Open}]
  BY <1>1 DEF TypeOK, FinishPending, CallBack
<1>3. pc' \in Labels /\ after' \in Resumes
  BY DEF FinishPending, CallBack, Labels
<1>4. /\ pending_transaction' = Null
      /\ pending_transaction_id' \in Ids /\ pending_transaction_deadline' \in 0..Timeout
  BY DEF FinishPending, ClearPending, Ids
<1>5. QED
  BY <1>2, <1>3, <1>4 DEF EndTypes

LEMMA SameEndTypes ==
    ASSUME TypeOK, NEW next \in Labels, pc' = next,
           UNCHANGED <<pendingVars, after, outcome>>
    PROVE  EndTypes'
  BY DEF TypeOK, EndTypes, pendingVars

LEMMA FinishMatchingType ==
    ASSUME TypeOK, NEW result \in Results, NEW id, FinishMatching(id, result, "disconnect")
    PROVE  EndTypes'
<1>1. "disconnect" \in Resumes /\ "disconnect" \in Labels
  BY DEF Resumes, Labels
<1>2. QED
  BY <1>1, FinishPendingType, SameEndTypes DEF FinishMatching

LEMMA CheckTimeoutType ==
    ASSUME TypeOK, NEW next \in Resumes \cap Labels, CheckTimeout(next)
    PROVE  EndTypes'
<1>1. "Timeout" \in Results
  BY DEF Results
<1>2. QED
  BY <1>1, FinishPendingType, SameEndTypes DEF CheckTimeout

\* The bytes of a frame.
LEMMA BytesOfType ==
    ASSUME NEW f \in Frames
    PROVE  /\ Size(f) \in Nat \ {0} /\ BytesOf(f) \in Seq(Bytes) /\ Len(BytesOf(f)) = Size(f)
           /\ \A n \in 1..Size(f) : BytesOf(f)[n] = Byte(f, n)
<1>1. PICK m \in Nat \ {0} : m = Size(f)
  BY DEF Size, Frames
<1>2. \A n \in 1..m : Byte(f, n) \in Bytes
  BY DEF Byte, Bytes
<1>3. BytesOf(f) = [n \in 1..m |-> Byte(f, n)]
  BY <1>1 DEF BytesOf, Size
<1>4. BytesOf(f) \in Seq(Bytes) /\ Len(BytesOf(f)) = m
      /\ \A n \in 1..m : BytesOf(f)[n] = Byte(f, n)
  BY <1>2, <1>3
<1>5. QED
  BY <1>1, <1>4

\* A frame with a header that is not accepted.
LEMMA BadHeaderIs ==
    ASSUME NEW t \in Transactions \cup {Null}, NEW id \in Ids, NEW f \in BadHeaders(t, id)
    PROVE  f \in Frames /\ f.t = t /\ f.id = id /\ f.length = 0 /\ f.needed = 0
           /\ f.kind # "ok"
<1>1. PICK kind \in {"protocol", "length"} :
        f = [t |-> t, id |-> id, kind |-> kind, length |-> 0, needed |-> 0, good |-> FALSE]
  BY Zenon DEF BadHeaders
<1>2. f.t = t /\ f.id = id /\ f.kind = kind /\ f.length = 0 /\ f.needed = 0
  BY <1>1
<1>3. kind \in {"ok", "protocol", "length"} /\ 0 \in Nat /\ FALSE \in BOOLEAN
  OBVIOUS
<1>4. f \in Frames
  BY <1>1, <1>3 DEF Frames
<1>5. QED
  BY <1>2, <1>4

\* A frame the peer sends.
LEMMA AnswersToType ==
    ASSUME TypeOK, NEW t \in Transactions, NEW f \in AnswersTo(t)
    PROVE  f \in Frames /\ f.t = t /\ f.id = ids[t] /\ f.length <= MaxPayload
<1>1. ids[t] \in Ids
  BY DEF TypeOK
<1>2. CASE f \in BadHeaders(t, ids[t])
  BY <1>1, <1>2, BadHeaderIs
<1>3. CASE f \notin BadHeaders(t, ids[t])
  <2>1. PICK n \in Payloads, extra \in Extras, good \in BOOLEAN :
           f = [t |-> t, id |-> ids[t], kind |-> "ok", length |-> n, needed |-> n + extra,
                good |-> good]
    BY <1>3 DEF AnswersTo
  <2>2. n \in 0..MaxPayload /\ n \in Nat /\ n + extra \in Nat
    OBVIOUS
  <2>3. QED
    BY <1>1, <2>1, <2>2 DEF Frames
<1>4. QED
  BY <1>2, <1>3

\* What the client reads a header as.
LEMMA HeaderType ==
    ASSUME TypeOK, HeaderReceived, NEW h \in IF InStep THEN {received[1].frame} ELSE Noise
    PROVE  h \in Frames
<1>1. CASE InStep
  <2>1. 1 \in 1..Len(received) /\ received[1] \in Bytes
    BY DEF TypeOK, HeaderReceived
  <2>2. QED
    BY <1>1, <2>1 DEF Bytes
<1>2. CASE ~InStep /\ \E id \in Ids : h \in BadHeaders(Null, id)
  BY <1>2, BadHeaderIs
<1>3. CASE ~InStep /\ h \in [t : {Null}, id : Ids, kind : {"ok"}, length : 0..MaxPayload,
                            needed : {0}, good : BOOLEAN]
  BY <1>3 DEF Frames
<1>4. QED
  BY <1>1, <1>2, <1>3 DEF Noise

\* The results and the places that actions name.
LEMMA NamedTypes ==
    /\ {"Success", "Response", "Timeout", "Aborted", "SendFailed", "ReceiveFailed",
        "DisconnectedByPeer"} \subseteq Results
    /\ {"main", "send", "loop", "read", "disconnect", "finish_all", "abort"} \subseteq Resumes
    /\ {"user", "send", "loop", "recv_hook", "read", "judge", "disconnect", "close_hook",
        "finish_all", "abort", "tick_hook"} \subseteq Labels
  BY DEF Results, Resumes, Labels

\* Each step keeps the types.
LEMMA TypeStep == ASSUME TypeOK, [Next]_vars PROVE TypeOK'
<1> USE DEF idVars, responseVars, wireVars
<1>1. CASE Connect \/ Disconnect \/ Tick \/ CallbackReturns \/ NothingToSend \/ Loop
             \/ RecvNothing \/ NoTrailing \/ Closed
  <2>1. pc' \in Labels /\ after' \in Resumes /\ connected' \in BOOLEAN
    BY <1>1, NamedTypes DEF TypeOK, Connect, Disconnect, Tick, CallbackReturns, NothingToSend,
       Loop, RecvNothing, NoTrailing, Closed, Resumes, Labels
  <2>2. UNCHANGED <<idVars, pendingVars, scheduled, aborting, responseVars, wireVars,
                    userVars, outcome>>
    BY <1>1 DEF Connect, Disconnect, Tick, CallbackReturns, NothingToSend, Loop, RecvNothing,
                NoTrailing, Closed
  <2>3. QED
    BY <2>1, <2>2 DEF TypeOK, pendingVars
<1>2. CASE Transact
  <2>1. issued' \in Transactions /\ issued' \in 0..MaxTransactions
    BY <1>2 DEF TypeOK, Transact, Transactions
  <2>2. scheduled' \in Seq(Transactions)
    BY <1>2, <2>1, AppendProperties DEF TypeOK, Transact
  <2>3. mask' \in [Transactions -> [Ids -> Ids]]
    <3>1. PICK m \in Masks : mask' = [mask EXCEPT ![issued'] = m]
      BY <1>2 DEF Transact
    <3>2. m \in [Ids -> Ids]
      BY MasksAssumption DEF Ids
    <3>3. QED
      BY <2>1, <3>1, <3>2 DEF TypeOK
  <2>4. QED
    BY <1>2, <2>1, <2>2, <2>3 DEF TypeOK, Transact, pendingVars
<1>3. CASE TickHook \/ RecvHook
  <2>1. "send" \in Resumes \cap Labels /\ "read" \in Resumes \cap Labels
    BY NamedTypes
  <2>2. EndTypes'
    BY <1>3, <2>1, CheckTimeoutType DEF TickHook, RecvHook
  <2>3. QED
    BY <1>3, <2>2 DEF TypeOK, EndTypes, TickHook, RecvHook
<1>4. CASE Send
  <2>1. Head(scheduled) \in Transactions /\ scheduled' \in Seq(Transactions)
    BY <1>4, TailIs DEF TypeOK, Send
  <2>2. next_transaction_id' \in Ids /\ round' \in Nat
    <3>1. next_transaction_id \in Ids /\ round \in Nat /\ TakeId
      BY <1>4, Zenon DEF TypeOK, Send
    <3>2. QED
      BY <3>1 DEF TakeId, Ids
  <2>3. ids' \in [Transactions -> Ids] /\ rounds' \in [Transactions -> Nat]
    <3>1. mask[Head(scheduled)][next_transaction_id] \in Ids
      BY <2>1 DEF TypeOK
    <3>2. QED
      BY <1>4, <2>1, <3>1 DEF TypeOK, Send, TakeId, NextId
  <2>4. EndTypes' /\ requests' \subseteq Transactions
    <3>1. CASE CallBack(Head(scheduled), "SendFailed", "disconnect") /\ ClearPending
               /\ UNCHANGED requests
      <4>1. outcome' \in [Transactions -> Results \cup {Open}]
        BY <2>1, <3>1, NamedTypes DEF TypeOK, CallBack
      <4>2. pending_transaction_id' \in Ids
        BY <3>1 DEF ClearPending, Ids
      <4>3. QED
        BY <3>1, <4>1, <4>2, NamedTypes DEF TypeOK, EndTypes, CallBack, ClearPending
    <3>2. CASE /\ pending_transaction' = Head(scheduled)
               /\ pending_transaction_id' = ids'[Head(scheduled)]
               /\ pending_transaction_deadline' = NewDeadline
               /\ requests' = requests \cup {Head(scheduled)}
               /\ pc' = "recv_hook"
               /\ UNCHANGED <<after, outcome>>
      BY <2>1, <2>3, <3>2, NamedTypes DEF TypeOK, EndTypes, NewDeadline
    <3>3. QED
      BY <1>4, <3>1, <3>2 DEF Send
  <2>5. QED
    BY <1>4, <2>1, <2>2, <2>3, <2>4 DEF TypeOK, EndTypes, Send
<1>5. CASE RecvSome
  <2>1. PICK n \in Nat : Recv(n)
    BY <1>5, RecvCounts
  <2>2. received' \in Seq(Bytes) /\ stream' \in Seq(Bytes)
    BY <2>1, RecvIs
  <2>3. QED
    BY <1>5, <2>2, NamedTypes DEF TypeOK, RecvSome, pendingVars
<1>6. CASE RecvFails
  <2>1. EndTypes'
    BY <1>6, FinishMatchingType, SameEndTypes, NamedTypes DEF RecvFails
  <2>2. QED
    BY <1>6, <2>1 DEF TypeOK, EndTypes, RecvFails
<1>7. CASE CheckHeader
  <2>1. PICK h \in IF InStep THEN {received[1].frame} ELSE Noise :
           \/ header' = h /\ UNCHANGED <<pc, pendingVars, after, outcome>>
           \/ pc' = "disconnect" /\ UNCHANGED <<header, pendingVars, after, outcome>>
           \/ FinishMatching(h.id, "Response", "disconnect") /\ UNCHANGED header
    BY <1>7 DEF CheckHeader
  <2>2. h \in Frames
    BY <1>7, HeaderType DEF CheckHeader
  <2>3. header' \in Headers
    BY <2>1, <2>2 DEF TypeOK, Headers
  <2>4. EndTypes'
    BY <2>1, FinishMatchingType, SameEndTypes, NamedTypes DEF TypeOK, EndTypes, pendingVars
  <2>5. QED
    BY <1>7, <2>3, <2>4 DEF TypeOK, EndTypes, CheckHeader
<1>8. CASE AppendTrailing
  <2>1. PICK n \in 1..HeaderLength :
           /\ Recv(n)
           /\ header' = [header EXCEPT !.length = @ + n]
           /\ derailed' = IF derailed = "no" /\ Genuine(SubSeq(stream, 1, n))
                          THEN "client" ELSE derailed
    BY <1>8 DEF AppendTrailing
  <2>2. received' \in Seq(Bytes) /\ stream' \in Seq(Bytes)
    BY <2>1, RecvIs
  <2>3. header' \in Headers
    <3>1. header \in Frames
      BY <1>8 DEF TypeOK, AppendTrailing, PayloadRead, Headers
    <3>2. n \in 1..HeaderLength /\ header.length \in Nat
      BY <3>1 DEF Frames
    <3>3. header.length + n \in Nat
      BY <3>2
    <3>4. PICK m \in Nat : m = header.length + n
      BY <3>3
    <3>5. [header EXCEPT !.length = m] \in Frames
      BY <3>1 DEF Frames
    <3>6. QED
      BY <2>1, <3>4, <3>5 DEF Headers
  <2>4. derailed' \in {"no", "peer", "client"}
    BY <2>1 DEF TypeOK
  <2>5. QED
    BY <1>8, <2>2, <2>3, <2>4, NamedTypes DEF TypeOK, AppendTrailing, pendingVars
<1>9. CASE TrailingFails
  <2>1. EndTypes'
    <3>1. CASE pc' = "user" /\ UNCHANGED <<pendingVars, after, outcome>>
      BY <3>1, SameEndTypes, NamedTypes
    <3>2. CASE \E result \in {"ReceiveFailed", "DisconnectedByPeer"} :
                  FinishMatching(header.id, result, "disconnect")
      BY <3>2, FinishMatchingType, NamedTypes
    <3>3. QED
      BY <1>9, <3>1, <3>2, Zenon DEF TrailingFails
  <2>2. QED
    BY <1>9, <2>1 DEF TypeOK, EndTypes, TrailingFails
<1>10. CASE ResponseTooShort
  <2>1. EndTypes'
    BY <1>10, FinishMatchingType, NamedTypes DEF ResponseTooShort
  <2>2. QED
    BY <1>10, <2>1 DEF TypeOK, EndTypes, ResponseTooShort
<1>11. CASE IgnoreResponse
  BY <1>11, NamedTypes, EmptySeq DEF TypeOK, IgnoreResponse, ResetPendingResponse, Headers,
     pendingVars
<1>12. CASE FinishResponse
  <2>1. EndTypes'
    BY <1>12, FinishPendingType, NamedTypes DEF FinishResponse
  <2>2. received' \in Seq(Bytes) /\ header' \in Headers
    BY <1>12, EmptySeq DEF FinishResponse, ResetPendingResponse, Headers
  <2>3. QED
    BY <1>12, <2>1, <2>2 DEF TypeOK, EndTypes, FinishResponse
<1>13. CASE Close
  <2>1. /\ received' \in Seq(Bytes) /\ header' \in Headers /\ stream' \in Seq(Bytes)
        /\ pc' \in Labels
    BY <1>13, EmptySeq, NamedTypes DEF Close, ResetPendingResponse, Headers
  <2>2. QED
    BY <1>13, <2>1 DEF TypeOK, Close, pendingVars
<1>14. CASE AbortPending
  <2>1. EndTypes'
    BY <1>14, FinishPendingType, SameEndTypes, NamedTypes DEF AbortPending, NothingPending
  <2>2. QED
    BY <1>14, <2>1 DEF TypeOK, EndTypes, AbortPending
<1>15. CASE TakeScheduled
  BY <1>15, EmptySeq, NamedTypes DEF TypeOK, TakeScheduled, pendingVars
<1>16. CASE AbortNext
  <2>1. Head(aborting) \in Transactions /\ aborting' \in Seq(Transactions)
    BY <1>16, TailIs DEF TypeOK, AbortNext
  <2>2. outcome' \in [Transactions -> Results \cup {Open}]
    BY <1>16, <2>1, NamedTypes DEF TypeOK, AbortNext, CallBack
  <2>3. QED
    BY <1>16, <2>1, <2>2, NamedTypes DEF TypeOK, AbortNext, CallBack, pendingVars
<1>17. CASE Answer
  <2>1. PICK t \in requests : \E f \in AnswersTo(t) :
           /\ requests' = IF Repeats THEN requests ELSE requests \ {t}
           /\ stream' = stream \o BytesOf(f)
           /\ derailed' = IF derailed = "no" /\ f.needed # f.length THEN "peer" ELSE derailed
    BY <1>17 DEF Answer
  <2>2. PICK f \in AnswersTo(t) :
           /\ requests' = IF Repeats THEN requests ELSE requests \ {t}
           /\ stream' = stream \o BytesOf(f)
           /\ derailed' = IF derailed = "no" /\ f.needed # f.length THEN "peer" ELSE derailed
    BY <2>1
  <2>3. t \in Transactions /\ f \in Frames
    BY <2>1, AnswersToType DEF TypeOK
  <2>4. stream' \in Seq(Bytes)
    BY <2>2, <2>3, BytesOfType, ConcatProperties DEF TypeOK
  <2>5. requests' \subseteq Transactions /\ derailed' \in {"no", "peer", "client"}
    BY <2>2 DEF TypeOK
  <2>6. QED
    BY <1>17, <2>4, <2>5 DEF TypeOK, Answer, pendingVars
<1>18. CASE Elapse
  BY <1>18 DEF TypeOK, Elapse
<1>19. CASE UNCHANGED vars
  BY <1>19 DEF TypeOK, vars, pendingVars
<1>20. QED
  BY <1>1, <1>2, <1>3, <1>4, <1>5, <1>6, <1>7, <1>8, <1>9, <1>10, <1>11, <1>12, <1>13, <1>14,
     <1>15, <1>16, <1>17, <1>18, <1>19 DEF Next, UserStep, LibraryStep

-----------------------------------------------------------------------------
(* Control.                                                                *)

\* Where control is after the pending transaction ended, or did not.
LEMMA EndMoves ==
    ASSUME pc # "user", after = "main", NEW next, next # "user", NEW result, NEW id,
           \/ FinishPending(result, next) \/ NothingPending(next)
           \/ FinishMatching(id, result, next) \/ CheckTimeout(next)
           \/ pc' = next /\ UNCHANGED <<pendingVars, after, outcome>>
    PROVE  /\ At' = next /\ (pc' # "user" => after' = "main")
           /\ pending_transaction' \in {pending_transaction, Null}
  BY DEF FinishPending, NothingPending, FinishMatching, CheckTimeout, CallBack, ClearPending,
         At, pendingVars

\* Each step keeps control, the connection and what is stored in step.
LEMMA ControlStep == ASSUME TypeOK, ControlInv, [Next]_vars PROVE ControlInv'
<1> USE DEF idVars, responseVars, wireVars
<1>1. CASE Connect \/ Disconnect \/ Tick \/ CallbackReturns \/ NothingToSend \/ Loop
             \/ RecvNothing \/ NoTrailing \/ Closed
  BY <1>1 DEF ControlInv, At, AtMainLoop, Connect, Disconnect, Tick, CallbackReturns,
     NothingToSend, Loop, RecvNothing, HeaderMissing, PayloadMissing, NoTrailing, PayloadRead,
     Closed, pendingVars
<1>2. CASE Transact
  BY <1>2 DEF ControlInv, At, Transact, pendingVars
<1>3. CASE TickHook
  <2>1. At' = "send" /\ pc' # "user" => after' = "main"
    BY <1>3, EndMoves DEF TickHook, ControlInv
  <2>2. QED
    BY <1>3, EndMoves DEF ControlInv, At, TickHook
<1>4. CASE RecvHook
  BY <1>4, EndMoves DEF ControlInv, At, RecvHook
<1>5. CASE Send
  BY <1>5 DEF ControlInv, At, Send, CallBack
<1>6. CASE RecvSome
  BY <1>6 DEF ControlInv, At, RecvSome, HeaderMissing, PayloadMissing, pendingVars
<1>7. CASE RecvFails
  <2>1. connected /\ pc = "read" /\ after = "main"
    BY <1>7 DEF ControlInv, At, RecvFails, HeaderMissing, PayloadMissing
  <2>2. At' = "disconnect" /\ (pc' # "user" => after' = "main")
    BY <1>7, <2>1, EndMoves DEF RecvFails
  <2>3. QED
    BY <1>7, <2>1, <2>2 DEF ControlInv, At, RecvFails
<1>8. CASE CheckHeader
  <2>1. connected /\ pc = "read" /\ after = "main" /\ pc # "user"
    BY <1>8 DEF ControlInv, At, CheckHeader, HeaderReceived
  <2>2. At' \in {"read", "disconnect"} /\ (pc' # "user" => after' = "main")
    BY <1>8, <2>1, EndMoves DEF CheckHeader, At, pendingVars
  <2>3. QED
    BY <1>8, <2>1, <2>2 DEF ControlInv, At, CheckHeader
<1>9. CASE AppendTrailing
  BY <1>9 DEF ControlInv, At, AppendTrailing, PayloadRead, pendingVars
<1>10. CASE TrailingFails
  <2>1. connected /\ after = "main" /\ pc # "user" /\ aborting = <<>>
    BY <1>10 DEF ControlInv, At, TrailingFails, PayloadRead
  <2>2. /\ At' = "disconnect" \/ (At' = "main" /\ pc' = "user")
        /\ pc' # "user" => after' = "main"
    <3>1. CASE pc' = "user" /\ UNCHANGED <<pendingVars, after, outcome>>
      BY <2>1, <3>1 DEF At
    <3>2. CASE \E result \in {"ReceiveFailed", "DisconnectedByPeer"} :
                  FinishMatching(header.id, result, "disconnect")
      BY <2>1, <3>2, EndMoves
    <3>3. QED
      BY <1>10, <3>1, <3>2, Zenon DEF TrailingFails
  <2>3. QED
    BY <1>10, <2>1, <2>2 DEF ControlInv, At, TrailingFails
<1>11. CASE ResponseTooShort
  <2>1. connected /\ after = "main" /\ pc # "user" /\ aborting = <<>>
    BY <1>11 DEF ControlInv, At, ResponseTooShort
  <2>2. At' = "disconnect" /\ (pc' # "user" => after' = "main")
    BY <1>11, <2>1, EndMoves DEF ResponseTooShort
  <2>3. QED
    BY <1>11, <2>1, <2>2 DEF ControlInv, At, ResponseTooShort
<1>12. CASE IgnoreResponse
  BY <1>12 DEF ControlInv, At, IgnoreResponse, ResetPendingResponse, pendingVars
<1>13. CASE FinishResponse
  <2>1. connected /\ after = "main" /\ pc # "user" /\ aborting = <<>>
    BY <1>13 DEF ControlInv, At, FinishResponse
  <2>2. At' = "loop" /\ (pc' # "user" => after' = "main")
    BY <1>13, <2>1, EndMoves DEF FinishResponse
  <2>3. QED
    BY <1>13, <2>1, <2>2 DEF ControlInv, At, FinishResponse
<1>14. CASE Close
  BY <1>14 DEF ControlInv, At, Close, ResetPendingResponse, pendingVars
<1>15. CASE AbortPending
  BY <1>15 DEF ControlInv, At, AbortPending, FinishPending, NothingPending, CallBack,
     ClearPending, pendingVars
<1>16. CASE TakeScheduled
  BY <1>16 DEF ControlInv, At, TakeScheduled, pendingVars
<1>17. CASE AbortNext
  BY <1>17 DEF ControlInv, At, AbortNext, CallBack, pendingVars
<1>18. CASE Answer
  BY <1>18 DEF ControlInv, At, Answer, pendingVars
<1>19. CASE Elapse
  BY <1>19 DEF ControlInv, At, Elapse
<1>20. CASE UNCHANGED vars
  BY <1>20 DEF ControlInv, At, vars, pendingVars
<1>21. QED
  BY <1>1, <1>2, <1>3, <1>4, <1>5, <1>6, <1>7, <1>8, <1>9, <1>10, <1>11, <1>12, <1>13, <1>14,
     <1>15, <1>16, <1>17, <1>18, <1>19, <1>20 DEF Next, UserStep, LibraryStep

-----------------------------------------------------------------------------
(* The order of the transactions.                                          *)

queueVars == <<pending_transaction, scheduled, aborting, issued, outcome>>

LEMMA OrderQuiet == ASSUME OrderInv, UNCHANGED queueVars PROVE OrderInv'
  BY DEF OrderInv, EndsWithLast, queueVars

\* The pending transaction is the first one that is open.
LEMMA OrderFinish ==
    ASSUME TypeOK, OrderInv, NEW result \in Results, NEW next, FinishPending(result, next),
           UNCHANGED <<scheduled, aborting, issued>>
    PROVE  OrderInv'
<1>1. PICK p \in Transactions : p = pending_transaction
  BY DEF TypeOK, FinishPending
<1>2. p = issued - Len(scheduled) /\ aborting = <<>>
  BY <1>1 DEF OrderInv, FinishPending
<1>3. /\ outcome' = [outcome EXCEPT ![p] = result] /\ result # Open
      /\ pending_transaction' = Null
  BY <1>1 DEF FinishPending, CallBack, ClearPending, Results, Open
<1>4. EndsWithLast(scheduled)' /\ EndsWithLast(aborting)' /\ Len(scheduled') <= MaxScheduled
  BY DEF OrderInv, EndsWithLast
<1>5. ASSUME NEW t \in Transactions
      PROVE  outcome'[t] = Open <=> t > issued - Len(scheduled) - Len(aborting)
  <2>1. Len(aborting) = 0 /\ Len(scheduled) \in Nat /\ issued \in Nat /\ t \in Nat /\ p \in Nat
    BY <1>2 DEF TypeOK, Transactions
  <2>2. outcome[t] = Open <=> t > p \/ t = p
    BY <1>1, <1>2, <2>1 DEF OrderInv
  <2>3. t # p => outcome'[t] = outcome[t]
    BY <1>3 DEF TypeOK
  <2>4. outcome'[p] = result
    BY <1>3 DEF TypeOK
  <2>5. QED
    BY <1>2, <1>3, <2>1, <2>2, <2>3, <2>4
<1>6. \A t \in Transactions : t # pending_transaction'
  BY <1>3 DEF Null, Transactions
<1>7. QED
  BY <1>2, <1>3, <1>4, <1>5, <1>6 DEF OrderInv

\* Ending the pending transaction, or not.
LEMMA OrderEnd ==
    ASSUME TypeOK, OrderInv, NEW result \in Results, NEW next, NEW id,
           \/ FinishPending(result, next) \/ NothingPending(next)
           \/ FinishMatching(id, result, next)
           \/ pc' = next /\ UNCHANGED <<pendingVars, after, outcome>>,
           UNCHANGED <<scheduled, aborting, issued>>
    PROVE  OrderInv'
<1>1. CASE FinishPending(result, next)
  BY <1>1, OrderFinish
<1>2. CASE UNCHANGED <<pendingVars, outcome>>
  BY <1>2, OrderQuiet DEF queueVars, pendingVars
<1>3. QED
  BY <1>1, <1>2 DEF NothingPending, FinishMatching

LEMMA OrderTransact == ASSUME TypeOK, OrderInv, ControlInv, Transact PROVE OrderInv'
<1>1. issued' = issued + 1 /\ issued \in Nat /\ issued' \in Transactions
  BY DEF TypeOK, Transact, Transactions
<1>2. PICK n \in Nat : n = Len(scheduled)
  BY DEF TypeOK
<1>3. /\ Len(scheduled') = n + 1 /\ n < MaxScheduled
      /\ \A i \in 1..n : scheduled'[i] = scheduled[i]
      /\ scheduled'[n + 1] = issued + 1
  BY <1>1, <1>2, AppendProperties DEF TypeOK, Transact
<1>4. n <= issued /\ \A i \in 1..n : scheduled[i] = issued - n + i
  BY <1>2 DEF OrderInv, EndsWithLast
<1>5. EndsWithLast(scheduled)'
  BY <1>1, <1>3, <1>4 DEF EndsWithLast
<1>6. UNCHANGED <<aborting, pending_transaction, outcome>>
  BY DEF Transact, pendingVars
<1>7. aborting = <<>> /\ Len(aborting) = 0
  BY DEF Transact, ControlInv
<1>8. issued' - Len(scheduled') = issued - n /\ Len(scheduled') <= MaxScheduled
  BY <1>1, <1>3
<1>9. EndsWithLast(aborting)'
  BY <1>1, <1>6, <1>7 DEF EndsWithLast
<1>10. QED
  BY <1>2, <1>5, <1>6, <1>7, <1>8, <1>9 DEF OrderInv

\* The first scheduled transaction is the first one that is open.
LEMMA OrderSend == ASSUME TypeOK, OrderInv, ControlInv, Send PROVE OrderInv'
<1>1. scheduled # <<>> /\ pending_transaction = Null /\ scheduled' = Tail(scheduled)
      /\ UNCHANGED <<aborting, issued>>
  BY DEF Send
<1>2. PICK n \in Nat \ {0} : n = Len(scheduled)
  BY <1>1, TailIs DEF TypeOK
<1>3. PICK h \in Transactions : h = Head(scheduled)
  BY <1>1, TailIs DEF TypeOK
<1>4. Len(scheduled') = n - 1 /\ \A i \in 1..(n - 1) : scheduled'[i] = scheduled[i + 1]
  BY <1>1, <1>2, TailIs DEF TypeOK
<1>5. n <= issued /\ n <= MaxScheduled /\ \A i \in 1..n : scheduled[i] = issued - n + i
  BY <1>2 DEF OrderInv, EndsWithLast
<1>6. h = issued - n + 1
  <2>1. h = scheduled[1] /\ 1 \in 1..n
    BY <1>1, <1>2, <1>3, TailIs DEF TypeOK
  <2>2. QED
    BY <1>5, <2>1
<1>7. issued \in Nat
  BY DEF TypeOK
<1>8. EndsWithLast(scheduled)'
  BY <1>1, <1>4, <1>5, <1>7 DEF EndsWithLast
<1>9. aborting = <<>> /\ Len(aborting) = 0
  BY <1>1 DEF OrderInv
<1>10. EndsWithLast(aborting)' /\ Len(scheduled') <= MaxScheduled
  BY <1>1, <1>4, <1>5, <1>7, <1>9 DEF EndsWithLast
<1>11. \A t \in Transactions : outcome[t] = Open <=> t > issued - n
  BY <1>1, <1>2, <1>7, <1>9 DEF OrderInv, Null, Transactions
<1>12. \A t \in Transactions :
          outcome'[t] = Open <=> t > issued' - Len(scheduled') - Len(aborting')
                                 \/ t = pending_transaction'
  <2>1. CASE pending_transaction' = h /\ outcome' = outcome
    BY <1>1, <1>4, <1>6, <1>7, <1>9, <1>11, <2>1 DEF Transactions
  <2>2. CASE pending_transaction' = Null /\ outcome' = [outcome EXCEPT ![h] = "SendFailed"]
    <3>1. \A t \in Transactions : t # h => outcome'[t] = outcome[t]
      BY <2>2 DEF TypeOK
    <3>2. outcome'[h] = "SendFailed" /\ "SendFailed" # Open
      BY <2>2 DEF TypeOK, Open
    <3>3. QED
      BY <1>1, <1>4, <1>6, <1>7, <1>9, <1>11, <2>2, <3>1, <3>2 DEF Transactions, Null
  <2>3. QED
    BY <1>3, <2>1, <2>2 DEF Send, CallBack, ClearPending
<1>13. pending_transaction' \in {h, Null}
  BY <1>3 DEF Send, ClearPending
<1>14. QED
  BY <1>1, <1>4, <1>6, <1>7, <1>8, <1>9, <1>10, <1>12, <1>13 DEF OrderInv

\* The scheduled transactions are to be aborted.
LEMMA OrderTake == ASSUME TypeOK, OrderInv, ControlInv, TakeScheduled PROVE OrderInv'
<1>1. /\ pending_transaction = Null /\ aborting = <<>> /\ Len(aborting) = 0
      /\ UNCHANGED <<pending_transaction, issued, outcome>>
      /\ aborting' = scheduled /\ scheduled' = <<>> /\ Len(scheduled') = 0
  BY DEF TakeScheduled, ControlInv, At, pendingVars
<1>2. issued \in Nat /\ Len(scheduled) \in Nat
  BY DEF TypeOK
<1>3. QED
  BY <1>1, <1>2 DEF OrderInv, EndsWithLast

\* The first of them is aborted.
LEMMA OrderAbort == ASSUME TypeOK, OrderInv, ControlInv, AbortNext PROVE OrderInv'
<1>1. /\ aborting # <<>> /\ aborting' = Tail(aborting)
      /\ pending_transaction = Null /\ scheduled = <<>> /\ Len(scheduled) = 0
      /\ UNCHANGED <<pending_transaction, scheduled, issued>>
  BY DEF AbortNext, OrderInv, ControlInv, At, pendingVars
<1>2. PICK n \in Nat \ {0} : n = Len(aborting)
  BY <1>1, TailIs DEF TypeOK
<1>3. PICK h \in Transactions : h = Head(aborting)
  BY <1>1, TailIs DEF TypeOK
<1>4. Len(aborting') = n - 1 /\ \A i \in 1..(n - 1) : aborting'[i] = aborting[i + 1]
  BY <1>1, <1>2, TailIs DEF TypeOK
<1>5. n <= issued /\ issued \in Nat /\ \A i \in 1..n : aborting[i] = issued - n + i
  BY <1>2 DEF OrderInv, EndsWithLast, TypeOK
<1>6. h = issued - n + 1
  <2>1. h = aborting[1] /\ 1 \in 1..n
    BY <1>1, <1>2, <1>3, TailIs DEF TypeOK
  <2>2. QED
    BY <1>5, <2>1
<1>7. EndsWithLast(aborting)' /\ EndsWithLast(scheduled)' /\ Len(scheduled') <= MaxScheduled
  BY <1>1, <1>4, <1>5 DEF EndsWithLast, OrderInv
<1>8. outcome' = [outcome EXCEPT ![h] = "Aborted"]
  BY <1>3 DEF AbortNext, CallBack
<1>9. (\A t \in Transactions : t # h => outcome'[t] = outcome[t]) /\ outcome'[h] # Open
  BY <1>8 DEF TypeOK, Open
<1>10. \A t \in Transactions : outcome[t] = Open <=> t > issued - n
  BY <1>1, <1>2, <1>5 DEF OrderInv, Null, Transactions
<1>11. \A t \in Transactions : outcome'[t] = Open <=> t > issued - (n - 1)
  BY <1>5, <1>6, <1>9, <1>10 DEF Transactions
<1>12. QED
  BY <1>1, <1>4, <1>5, <1>7, <1>11 DEF OrderInv, Null, Transactions

\* Each step keeps the open transactions in order.
LEMMA OrderStep == ASSUME TypeOK, ControlInv, OrderInv, [Next]_vars PROVE OrderInv'
<1> USE DEF idVars, responseVars, wireVars
<1>1. CASE Connect \/ Disconnect \/ Tick \/ CallbackReturns \/ NothingToSend \/ Loop
             \/ RecvSome \/ RecvNothing \/ AppendTrailing \/ NoTrailing \/ IgnoreResponse
             \/ Close \/ Closed \/ Answer \/ Elapse \/ UNCHANGED vars
  <2>1. UNCHANGED queueVars
    BY <1>1 DEF queueVars, pendingVars, vars, Connect, Disconnect, Tick, CallbackReturns,
       NothingToSend, Loop, RecvSome, RecvNothing, AppendTrailing, NoTrailing, IgnoreResponse,
       Close, Closed, Answer, Elapse
  <2>2. QED
    BY <2>1, OrderQuiet
<1>2. CASE TickHook \/ RecvHook
  BY <1>2, OrderEnd, NamedTypes DEF TickHook, RecvHook, CheckTimeout
<1>3. CASE RecvFails \/ TrailingFails \/ ResponseTooShort
  BY <1>3, OrderEnd, NamedTypes DEF RecvFails, TrailingFails, ResponseTooShort
<1>4. CASE CheckHeader
  <2>1. UNCHANGED <<scheduled, aborting, issued>>
    BY <1>4 DEF CheckHeader
  <2>2. CASE UNCHANGED <<pendingVars, outcome>>
    BY <2>1, <2>2, OrderQuiet DEF queueVars, pendingVars
  <2>3. CASE \E h \in IF InStep THEN {received[1].frame} ELSE Noise :
                 FinishMatching(h.id, "Response", "disconnect")
    BY <2>1, <2>3, OrderEnd, NamedTypes
  <2>4. QED
    BY <1>4, <2>2, <2>3 DEF CheckHeader
<1>5. CASE FinishResponse
  BY <1>5, OrderFinish, NamedTypes DEF FinishResponse
<1>6. CASE AbortPending
  BY <1>6, OrderEnd, NamedTypes DEF AbortPending
<1>7. CASE Transact \/ Send \/ TakeScheduled \/ AbortNext
  BY <1>7, OrderTransact, OrderSend, OrderTake, OrderAbort
<1>8. QED
  BY <1>1, <1>2, <1>3, <1>4, <1>5, <1>6, <1>7 DEF Next, UserStep, LibraryStep

-----------------------------------------------------------------------------
(* The response being received.                                            *)

\* A header that was checked.
LEMMA HeaderIsFrame == ASSUME TypeOK, header # Unchecked PROVE header \in Frames /\ header.length \in Nat
  BY DEF TypeOK, Headers, Frames

LEMMA FrameIsChecked == ASSUME NEW f \in Frames PROVE f # Unchecked /\ f.length \in Nat
<1>1. f.kind # "unchecked" /\ f.length \in Nat
  BY DEF Frames
<1>2. Unchecked.kind = "unchecked"
  BY DEF Unchecked
<1>3. QED
  BY <1>1, <1>2

\* A byte of a frame.
LEMMA ByteIs == \A f, n : Byte(f, n).frame = f /\ Byte(f, n).pos = n
  BY DEF Byte

\* What the peer adds to the stream.
LEMMA AnswerIs ==
    ASSUME TypeOK, Answer
    PROVE  \E t \in requests, f \in Frames :
               /\ f.t = t /\ f.id = ids[t] /\ f.length <= MaxPayload
               /\ Size(f) \in Nat \ {0}
               /\ stream' \in Seq(Bytes) /\ Len(stream') = Len(stream) + Size(f)
               /\ \A i \in 1..Len(stream) : stream'[i] = stream[i]
               /\ \A i \in 1..Size(f) : stream'[Len(stream) + i] = Byte(f, i)
               /\ derailed' = IF derailed = "no" /\ f.needed # f.length
                              THEN "peer" ELSE derailed
               /\ requests' \subseteq requests
<1>1. PICK t \in requests : \E f \in AnswersTo(t) :
           /\ requests' = IF Repeats THEN requests ELSE requests \ {t}
           /\ stream' = stream \o BytesOf(f)
           /\ derailed' = IF derailed = "no" /\ f.needed # f.length THEN "peer" ELSE derailed
  BY DEF Answer
<1>2. PICK f \in AnswersTo(t) :
           /\ requests' = IF Repeats THEN requests ELSE requests \ {t}
           /\ stream' = stream \o BytesOf(f)
           /\ derailed' = IF derailed = "no" /\ f.needed # f.length THEN "peer" ELSE derailed
  BY <1>1
<1>3. f \in Frames /\ f.t = t /\ f.id = ids[t] /\ f.length <= MaxPayload
  BY <1>1, AnswersToType DEF TypeOK
<1>4. PICK b : b = BytesOf(f)
  OBVIOUS
<1>5. PICK s \in Nat \ {0} : s = Size(f)
  BY <1>3, BytesOfType
<1>6. b \in Seq(Bytes) /\ Len(b) = s /\ \A i \in 1..s : b[i] = Byte(f, i)
  BY <1>3, <1>4, <1>5, BytesOfType
<1>7. stream \in Seq(Bytes) /\ b \in Seq(Bytes)
  BY <1>6 DEF TypeOK
<1>8. /\ stream \o b \in Seq(Bytes) /\ Len(stream \o b) = Len(stream) + Len(b)
      /\ \A i \in 1..Len(stream) : (stream \o b)[i] = stream[i]
      /\ \A i \in 1..Len(b) : (stream \o b)[Len(stream) + i] = b[i]
  <2>1. stream \o b \in Seq(Bytes) /\ Len(stream \o b) = Len(stream) + Len(b)
    BY <1>7, ConcatProperties
  <2>2. \A i \in 1..Len(stream) : (stream \o b)[i] = stream[i]
    BY <1>7, ConcatProperties
  <2>3. \A i \in 1..Len(b) : (stream \o b)[Len(stream) + i] = b[i]
    BY <1>7, ConcatProperties
  <2>4. QED
    BY <2>1, <2>2, <2>3
<1>9. PICK s2 : s2 = stream \o b
  OBVIOUS
<1>10. stream' = s2
  BY <1>2, <1>4, <1>9
<1>11. /\ stream' \in Seq(Bytes) /\ Len(stream') = Len(stream) + s
       /\ \A i \in 1..Len(stream) : stream'[i] = stream[i]
       /\ \A i \in 1..s : stream'[Len(stream) + i] = Byte(f, i)
  BY <1>6, <1>8, <1>9, <1>10
<1>12. requests' \subseteq requests
  BY <1>2
<1>13. QED
  BY <1>2, <1>3, <1>5, <1>11, <1>12

\* The bytes of this connection that the client still has or may get.
Arrived == {received[i] : i \in 1..Len(received)} \cup {stream[i] : i \in 1..Len(stream)}

\* recv() only moves bytes.
LEMMA RecvMoves ==
    ASSUME TypeOK, NEW n \in Nat, Recv(n)
    PROVE  /\ \A i \in 1..Len(received') : received'[i] \in Arrived
           /\ \A i \in 1..Len(stream') : stream'[i] \in Arrived
           /\ Len(received') = Len(received) + n
<1>1. PICK a \in Nat, b \in Nat : a = Len(received) /\ b = Len(stream)
  BY DEF TypeOK
<1>2. /\ n <= b /\ Len(received') = a + n /\ Len(stream') = b - n
      /\ \A i \in 1..a : received'[i] = received[i]
      /\ \A i \in 1..n : received'[a + i] = stream[i]
      /\ \A i \in 1..(b - n) : stream'[i] = stream[n + i]
  BY <1>1, RecvIs
<1>3. /\ \A i \in 1..a : received[i] \in Arrived
      /\ \A i \in 1..b : stream[i] \in Arrived
  BY <1>1 DEF Arrived
<1>4. ASSUME NEW i \in 1..(a + n) PROVE received'[i] \in Arrived
  <2>1. CASE i \in 1..a
    BY <1>2, <1>3, <2>1
  <2>2. CASE i \notin 1..a
    <3>1. PICK k \in 1..n : k = i - a
      BY <2>2
    <3>2. i = a + k /\ k \in 1..b
      BY <1>2, <3>1
    <3>3. QED
      BY <1>2, <1>3, <3>2
  <2>3. QED
    BY <2>1, <2>2
<1>5. ASSUME NEW i \in 1..(b - n) PROVE stream'[i] \in Arrived
  BY <1>2, <1>3
<1>6. QED
  BY <1>1, <1>2, <1>4, <1>5

\* What the peer sends is what arrives.
LEMMA AnswerAdds ==
    ASSUME TypeOK, NEW f, Size(f) \in Nat, Len(stream') = Len(stream) + Size(f),
           \A i \in 1..Len(stream) : stream'[i] = stream[i],
           \A i \in 1..Size(f) : stream'[Len(stream) + i] = Byte(f, i),
           NEW i \in 1..Len(stream')
    PROVE  stream'[i] \in Arrived \/ stream'[i].frame = f
<1>1. PICK b \in Nat, s \in Nat : b = Len(stream) /\ s = Size(f)
  BY LengthsAreNat, Zenon
<1>2. CASE i \in 1..b
  BY <1>1, <1>2 DEF Arrived
<1>3. CASE i \notin 1..b
  <2>1. PICK k \in 1..s : k = i - b
    <3>1. i \in 1..(b + s)
      BY <1>1, Zenon
    <3>2. i - b \in 1..s
      BY <1>3, <3>1
    <3>3. QED
      BY <3>2
  <2>2. i = b + k
    BY <2>1
  <2>3. QED
    BY <1>1, <2>1, <2>2, ByteIs
<1>4. QED
  BY <1>2, <1>3

\* What arrived states no length that the client does not accept.
LEMMA ArrivedLength == ASSUME ResponseInv PROVE \A b \in Arrived : b.frame.length <= MaxPayload
  BY DEF ResponseInv, Arrived

\* Each step keeps the response within its buffer.
LEMMA ResponseStep == ASSUME TypeOK, ControlInv, ResponseInv, [Next]_vars PROVE ResponseInv'
<1> USE DEF idVars, wireVars
<1>1. ASSUME UNCHANGED <<responseVars, stream>>,
             pc' = "judge" => header # Unchecked /\ PayloadUsed = header.length
      PROVE  ResponseInv'
  BY <1>1 DEF ResponseInv, responseVars, PayloadUsed
<1>2. CASE Connect \/ Disconnect \/ Tick \/ CallbackReturns \/ NothingToSend \/ Loop
             \/ RecvNothing \/ NoTrailing \/ Closed \/ Transact \/ Send \/ TakeScheduled
             \/ AbortNext \/ Elapse \/ UNCHANGED vars
  <2>1. UNCHANGED <<responseVars, stream>>
    BY <1>2 DEF vars, Connect, Disconnect, Tick, CallbackReturns, NothingToSend, Loop,
       RecvNothing, NoTrailing, Closed, Transact, Send, TakeScheduled, AbortNext, Elapse
  <2>2. pc' = "judge" => header # Unchecked /\ PayloadUsed = header.length
    BY <1>2 DEF vars, Connect, Disconnect, Tick, CallbackReturns, NothingToSend, Loop, TypeOK,
       Resumes, RecvNothing, NoTrailing, PayloadRead, Closed, Transact, Send, CallBack,
       TakeScheduled, AbortNext, Elapse, ResponseInv
  <2>3. QED
    BY <1>1, <2>1, <2>2
<1>3. CASE TickHook \/ RecvHook \/ RecvFails \/ TrailingFails \/ ResponseTooShort
             \/ AbortPending
  <2>1. pc' # "judge"
    BY <1>3 DEF TickHook, RecvHook, CheckTimeout, RecvFails, TrailingFails, ResponseTooShort,
       AbortPending, FinishMatching, FinishPending, NothingPending, CallBack
  <2>2. QED
    BY <1>1, <1>3, <2>1 DEF TickHook, RecvHook, RecvFails, TrailingFails, ResponseTooShort,
       AbortPending
<1>4. CASE RecvSome
  <2>1. PICK n \in Nat :
           /\ Recv(n)
           /\ \/ Len(received) < HeaderLength /\ n <= HeaderLength - Len(received)
              \/ header # Unchecked /\ n <= header.length - PayloadUsed
    BY <1>4, HeaderIsFrame DEF RecvSome, HeaderMissing, PayloadMissing, PayloadUsed, TypeOK
  <2>2. Len(received') = Len(received) + n /\ Len(received) \in Nat
    BY <2>1, RecvMoves, LengthsAreNat, Zenon
  <2>3. /\ \A i \in 1..Len(received') : received'[i].frame.length <= MaxPayload
        /\ \A i \in 1..Len(stream') : stream'[i].frame.length <= MaxPayload
    BY <2>1, RecvMoves, ArrivedLength
  <2>4. header' = header /\ pc' # "judge"
    BY <1>4 DEF RecvSome
  <2>5. header = Unchecked => Len(received') <= HeaderLength
    BY <2>1, <2>2 DEF ResponseInv
  <2>6. header # Unchecked => Len(received') \in HeaderLength..(HeaderLength + header.length)
    BY <2>1, <2>2, HeaderIsFrame DEF ResponseInv, PayloadUsed
  <2>7. QED
    BY <2>3, <2>4, <2>5, <2>6 DEF ResponseInv
<1>5. CASE CheckHeader
  <2>1. PICK h \in IF InStep THEN {received[1].frame} ELSE Noise : header' \in {h, header}
    BY <1>5 DEF CheckHeader
  <2>2. Len(received) = HeaderLength /\ header = Unchecked /\ Len(received) \in Nat
    BY <1>5 DEF CheckHeader, HeaderReceived, ResponseInv, TypeOK
  <2>3. h # Unchecked /\ h.length \in Nat
    BY <1>5, HeaderType, FrameIsChecked DEF CheckHeader
  <2>4. h.length <= MaxPayload
    <3>1. CASE InStep
      BY <2>1, <2>2, <3>1 DEF ResponseInv
    <3>2. CASE ~InStep /\ \E id \in Ids : h \in BadHeaders(Null, id)
      BY <3>2, BadHeaderIs
    <3>3. CASE ~InStep /\ h \in [t : {Null}, id : Ids, kind : {"ok"}, length : 0..MaxPayload,
                                needed : {0}, good : BOOLEAN]
      BY <3>3
    <3>4. QED
      BY <2>1, <3>1, <3>2, <3>3 DEF Noise
  <2>5. pc' # "judge" /\ UNCHANGED <<received, stream>>
    BY <1>5 DEF CheckHeader, HeaderReceived, FinishMatching, FinishPending, CallBack
  <2>6. QED
    BY <2>1, <2>2, <2>3, <2>4, <2>5 DEF ResponseInv
<1>6. CASE AppendTrailing
  <2>1. PICK n \in Nat \ {0} : TrailingFits(n) /\ Recv(n)
                               /\ header' = [header EXCEPT !.length = @ + n]
    BY <1>6 DEF AppendTrailing
  <2>2. Len(received') = Len(received) + n /\ Len(received) \in Nat
    <3>1. n \in Nat
      OBVIOUS
    <3>2. QED
      BY <2>1, <3>1, RecvMoves, LengthsAreNat, Zenon
  <2>3. /\ \A i \in 1..Len(received') : received'[i].frame.length <= MaxPayload
        /\ \A i \in 1..Len(stream') : stream'[i].frame.length <= MaxPayload
    BY <2>1, RecvMoves, ArrivedLength
  <2>4. header # Unchecked /\ header \in Frames /\ header.length \in Nat
        /\ Len(received) - HeaderLength = header.length
    BY <1>6, HeaderIsFrame DEF AppendTrailing, PayloadRead, PayloadUsed
  <2>5. header'.length = header.length + n /\ header'.kind = header.kind
    BY <2>1, <2>4 DEF Frames
  <2>6. header.kind # "unchecked"
    BY <2>4 DEF Frames
  <2>7. header' # Unchecked
    BY <2>5, <2>6 DEF Unchecked
  <2>8. header'.length <= MaxPayload
    BY <2>1, <2>4, <2>5 DEF TrailingFits, PayloadUsed
  <2>9. Len(received') \in HeaderLength..(HeaderLength + header'.length)
    <3>1. PICK p \in Nat, q \in Nat, r \in Nat :
             p = Len(received) /\ q = header.length /\ r = HeaderLength
      BY <2>2, <2>4
    <3>2. Len(received') = p + n /\ header'.length = q + n /\ p = r + q
      BY <2>2, <2>4, <2>5, <3>1
    <3>3. p + n \in r..(r + (q + n))
      BY <3>2
    <3>4. QED
      BY <3>1, <3>2, <3>3
  <2>10. Len(received') - HeaderLength = header'.length
    BY <2>2, <2>4, <2>5
  <2>11. QED
    BY <2>3, <2>7, <2>8, <2>9, <2>10 DEF ResponseInv, PayloadUsed
<1>7. CASE IgnoreResponse \/ FinishResponse \/ Close
  <2>1. received' = <<>> /\ header' = Unchecked /\ pc' # "judge" /\ stream' \in {stream, <<>>}
    BY <1>7 DEF IgnoreResponse, FinishResponse, Close, ResetPendingResponse, FinishPending,
       CallBack
  <2>2. Len(received') = 0 /\ Unchecked.length = 0
    BY <2>1 DEF Unchecked
  <2>3. \A i \in 1..Len(stream') : stream'[i].frame.length <= MaxPayload
    BY <2>1 DEF ResponseInv
  <2>4. QED
    BY <2>1, <2>2, <2>3 DEF ResponseInv
<1>8. CASE Answer
  <2>1. PICK t \in requests, f \in Frames :
           /\ f.length <= MaxPayload /\ Size(f) \in Nat \ {0}
           /\ Len(stream') = Len(stream) + Size(f)
           /\ \A i \in 1..Len(stream) : stream'[i] = stream[i]
           /\ \A i \in 1..Size(f) : stream'[Len(stream) + i] = Byte(f, i)
    BY <1>8, AnswerIs
  <2>2. \A i \in 1..Len(stream') : stream'[i].frame.length <= MaxPayload
    BY <2>1, AnswerAdds, ArrivedLength
  <2>3. QED
    BY <1>8, <2>2 DEF ResponseInv, Answer, responseVars
<1>9. QED
  BY <1>2, <1>3, <1>4, <1>5, <1>6, <1>7, <1>8 DEF Next, UserStep, LibraryStep

-----------------------------------------------------------------------------
(* The transaction ids.                                                    *)

\* What the response at hand and what the peer sent are responses to.
FrameOfRequest(f) == f.t # Null /\ AnswersRequest(f)

LEMMA ArrivedAnswers == ASSUME IdInv PROVE \A b \in Arrived : FrameOfRequest(b.frame)
  BY DEF IdInv, Arrived, FrameOfRequest

\* A step that sends nothing.
LEMMA IdQuiet ==
    ASSUME IdInv, UNCHANGED idVars,
           \A t \in Transactions : Sent(t) => mask'[t] = mask[t],
           issued' - Len(scheduled') >= issued - Len(scheduled),
           issued - Len(scheduled) \in Int, issued' - Len(scheduled') \in Int,
           \/ pending_transaction' = Null
           \/ UNCHANGED <<pending_transaction, pending_transaction_id>>,
           requests' \subseteq requests,
           \A i \in 1..Len(received') : FrameOfRequest(received'[i].frame),
           \A i \in 1..Len(stream') : FrameOfRequest(stream'[i].frame),
           header'.t # Null => AnswersRequest(header')
    PROVE  IdInv'
<1> USE DEF idVars, Sent, TookBefore
<1>1. round' > 0
  BY DEF IdInv
<1>2. \A t \in Transactions : Sent(t)' =>
           /\ t <= issued' - Len(scheduled')
           /\ TookBefore(t, round, next_transaction_id)'
           /\ \A u \in Transactions : Sent(u)' /\ t < u /\ mask'[u] = AllBits =>
                  TookBefore(t, rounds[u], ids[u])'
  <2>1. \A t \in Transactions : t \in Int
    BY DEF Transactions
  <2>2. QED
    BY <2>1 DEF IdInv
<1>3. pending_transaction' # Null =>
           Sent(pending_transaction)' /\ ids'[pending_transaction'] = pending_transaction_id'
  BY DEF IdInv
<1>4. \A t \in requests' : Sent(t)'
  BY DEF IdInv
<1>5. /\ \A i \in 1..Len(received') :
             received'[i].frame.t # Null /\ AnswersRequest(received[i].frame)'
      /\ \A i \in 1..Len(stream') :
             stream'[i].frame.t # Null /\ AnswersRequest(stream[i].frame)'
      /\ header'.t # Null => AnswersRequest(header)'
  BY DEF FrameOfRequest, AnswersRequest
<1>6. QED
  BY <1>1, <1>2, <1>3, <1>4, <1>5 DEF IdInv

\* Sending gives the id to the first scheduled transaction, which has none yet.
LEMMA IdSend == ASSUME TypeOK, OrderInv, IdInv, Send PROVE IdInv'
<1>1. PICK n \in Nat \ {0} : n = Len(scheduled)
  BY TailIs DEF TypeOK, Send
<1>2. PICK h \in Transactions : h = Head(scheduled)
  BY TailIs DEF TypeOK, Send
<1>3. Len(scheduled') = n - 1 /\ issued' = issued /\ issued \in Nat /\ h \in Nat
  BY <1>1, TailIs DEF TypeOK, Send, Transactions
<1>4. h = issued - n + 1
  <2>1. h = scheduled[1] /\ 1 \in 1..n
    BY <1>1, <1>2, TailIs DEF TypeOK, Send
  <2>2. QED
    BY <1>1, <1>3, <2>1 DEF OrderInv, EndsWithLast
<1>5. PICK next \in Nat, aRound \in Nat \ {0} : next = next_transaction_id /\ aRound = round
  BY DEF TypeOK, Ids, IdInv
<1>6. \/ round' = aRound + 1 /\ next_transaction_id' = 0
      \/ round' = aRound /\ next_transaction_id' = next + 1
  BY <1>5 DEF Send, TakeId
<1>7. PICK id \in Nat : id = mask[h][next] /\ (mask[h] = AllBits => id = next)
  <2>1. next \in Ids /\ mask[h] \in [Ids -> Ids]
    BY <1>5 DEF TypeOK
  <2>2. mask[h][next] \in Nat
    BY <2>1 DEF Ids
  <2>3. QED
    BY <2>1, <2>2 DEF AllBits
<1>8. /\ \A t \in Transactions : t # h => ids'[t] = ids[t] /\ rounds'[t] = rounds[t]
      /\ ids'[h] = id /\ rounds'[h] = aRound /\ mask' = mask
  <2>1. ids' = [ids EXCEPT ![h] = id] /\ rounds' = [rounds EXCEPT ![h] = aRound]
    BY <1>2, <1>5, <1>7 DEF Send, TakeId, NextId
  <2>2. mask' = mask
    BY DEF Send, userVars
  <2>3. QED
    BY <2>1, <2>2 DEF TypeOK
<1>9. \A t \in Transactions : t \in Nat /\ rounds[t] \in Nat /\ ids[t] \in Nat
  BY DEF TypeOK, Ids, Transactions
<1>10. \A t \in Transactions : rounds[t] # 0 =>
           /\ t < h
           /\ \/ rounds[t] < aRound
              \/ rounds[t] = aRound /\ (mask[t] = AllBits => ids[t] < next)
           /\ \A u \in Transactions : rounds[u] # 0 /\ t < u /\ mask[u] = AllBits =>
                  \/ rounds[t] < rounds[u]
                  \/ rounds[t] = rounds[u] /\ (mask[t] = AllBits => ids[t] < ids[u])
  BY <1>1, <1>3, <1>4, <1>5, <1>9 DEF IdInv, Sent, TookBefore
<1>11. round' > 0
  BY <1>5, <1>6
<1>12. \A t \in Transactions : Sent(t)' =>
           /\ t <= issued' - Len(scheduled')
           /\ TookBefore(t, round, next_transaction_id)'
           /\ \A u \in Transactions : Sent(u)' /\ t < u /\ mask'[u] = AllBits =>
                  TookBefore(t, rounds[u], ids[u])'
  <2>1. SUFFICES ASSUME NEW t \in Transactions, rounds'[t] # 0
                 PROVE  /\ t <= issued' - Len(scheduled')
                        /\ \/ rounds'[t] < round'
                           \/ /\ rounds'[t] = round'
                              /\ mask[t] = AllBits => ids'[t] < next_transaction_id'
                        /\ \A u \in Transactions :
                               rounds'[u] # 0 /\ t < u /\ mask[u] = AllBits =>
                                   \/ rounds'[t] < rounds'[u]
                                   \/ /\ rounds'[t] = rounds'[u]
                                      /\ mask[t] = AllBits => ids'[t] < ids'[u]
    BY <1>8 DEF Sent, TookBefore
  <2>2. CASE t = h
    <3>1. t <= issued' - Len(scheduled')
      BY <1>1, <1>3, <1>4, <2>2
    <3>2. \/ rounds'[t] < round'
          \/ rounds'[t] = round' /\ (mask[t] = AllBits => ids'[t] < next_transaction_id')
      BY <1>5, <1>6, <1>7, <1>8, <2>2
    <3>3. \A u \in Transactions : ~(rounds'[u] # 0 /\ t < u)
      BY <1>3, <1>8, <1>9, <1>10, <2>2
    <3>4. QED
      BY <3>1, <3>2, <3>3
  <2>3. CASE t # h
    <3>1. rounds[t] # 0 /\ rounds'[t] = rounds[t] /\ ids'[t] = ids[t]
      BY <1>8, <2>1, <2>3
    <3>2. t <= issued' - Len(scheduled')
      BY <1>1, <1>3, <1>4, <1>9, <1>10, <3>1
    <3>3. \/ rounds'[t] < round'
          \/ rounds'[t] = round' /\ (mask[t] = AllBits => ids'[t] < next_transaction_id')
      BY <1>5, <1>6, <1>9, <1>10, <3>1
    <3>4. \A u \in Transactions : rounds'[u] # 0 /\ t < u /\ mask[u] = AllBits =>
              \/ rounds'[t] < rounds'[u]
              \/ rounds'[t] = rounds'[u] /\ (mask[t] = AllBits => ids'[t] < ids'[u])
      BY <1>7, <1>8, <1>10, <3>1
    <3>5. QED
      BY <3>2, <3>3, <3>4
  <2>4. QED
    BY <2>2, <2>3
<1>13. pending_transaction' # Null =>
           Sent(pending_transaction)' /\ ids'[pending_transaction'] = pending_transaction_id'
  BY <1>2, <1>5, <1>7, <1>8 DEF Send, ClearPending, Sent
<1>14. \A t \in requests' : Sent(t)'
  BY <1>2, <1>8 DEF Send, IdInv, Sent, TypeOK
<1>15. ASSUME NEW f, f.t \in Transactions, rounds[f.t] # 0, f.id = ids[f.t]
       PROVE  rounds'[f.t] # 0 /\ f.id = ids'[f.t]
  <2>1. f.t # h
    BY <1>3, <1>10, <1>15
  <2>2. QED
    BY <1>8, <1>15, <2>1
<1>16. \A f \in Frames : f.t # Null => f.t \in Transactions
  BY DEF Frames
<1>17. ASSUME NEW f \in Frames, FrameOfRequest(f)
       PROVE  f.t # Null /\ rounds'[f.t] # 0 /\ f.id = ids'[f.t]
  BY <1>15, <1>16, <1>17 DEF FrameOfRequest, AnswersRequest, Sent
<1>18. ASSUME NEW i \in 1..Len(received)
       PROVE  received[i].frame.t # Null /\ rounds'[received[i].frame.t] # 0
              /\ received[i].frame.id = ids'[received[i].frame.t]
  <2>1. received[i].frame \in Frames
    <3>1. received[i] \in Bytes
      BY DEF TypeOK
    <3>2. QED
      BY <3>1 DEF Bytes
  <2>2. QED
    BY <1>17, <2>1 DEF IdInv, FrameOfRequest
<1>19. ASSUME NEW i \in 1..Len(stream)
       PROVE  stream[i].frame.t # Null /\ rounds'[stream[i].frame.t] # 0
              /\ stream[i].frame.id = ids'[stream[i].frame.t]
  <2>1. stream[i].frame \in Frames
    <3>1. stream[i] \in Bytes
      BY DEF TypeOK
    <3>2. QED
      BY <3>1 DEF Bytes
  <2>2. QED
    BY <1>17, <2>1 DEF IdInv, FrameOfRequest
<1>20. header.t # Null => rounds'[header.t] # 0 /\ header.id = ids'[header.t]
  <2>1. header.t # Null => header \in Frames
    BY DEF TypeOK, Headers, Unchecked
  <2>2. QED
    BY <1>17, <2>1 DEF IdInv, FrameOfRequest
<1>21. UNCHANGED <<received, stream, header>>
  BY DEF Send, responseVars
<1>22. /\ \A i \in 1..Len(received') : received'[i].frame.t # Null
                                       /\ AnswersRequest(received[i].frame)'
       /\ \A i \in 1..Len(stream') : stream'[i].frame.t # Null
                                     /\ AnswersRequest(stream[i].frame)'
       /\ header'.t # Null => AnswersRequest(header)'
  BY <1>18, <1>19, <1>20, <1>21 DEF AnswersRequest, Sent
<1>23. QED
  BY <1>11, <1>12, <1>13, <1>14, <1>22 DEF IdInv

\* Each step keeps the ids in order.
LEMMA IdStep == ASSUME TypeOK, ControlInv, OrderInv, IdInv, [Next]_vars PROVE IdInv'
<1> USE DEF responseVars
<1>1. issued - Len(scheduled) \in Int /\ Len(scheduled) \in Nat /\ issued \in Nat
  BY LengthsAreNat
<1>2. issued' - Len(scheduled') \in Int
  <2>1. scheduled' \in Seq(Transactions) /\ issued' \in 0..MaxTransactions
    BY TypeStep, Zenon DEF TypeOK
  <2>2. Len(scheduled') \in Nat
    BY <2>1, LenProperties, Zenon
  <2>3. QED
    BY <2>1, <2>2
<1>3. /\ \A i \in 1..Len(received) : FrameOfRequest(received[i].frame)
      /\ \A i \in 1..Len(stream) : FrameOfRequest(stream[i].frame)
      /\ header.t # Null => AnswersRequest(header)
  BY DEF IdInv, FrameOfRequest
<1>4. ASSUME UNCHANGED <<idVars, mask, received, header, stream, requests>>,
             issued' - Len(scheduled') >= issued - Len(scheduled),
             \/ pending_transaction' = Null
             \/ UNCHANGED <<pending_transaction, pending_transaction_id>>
      PROVE  IdInv'
  BY <1>1, <1>2, <1>3, <1>4, IdQuiet
<1>5. CASE Connect \/ Disconnect \/ Tick \/ CallbackReturns \/ NothingToSend \/ Loop
             \/ RecvNothing \/ NoTrailing \/ Closed \/ AbortNext \/ Elapse \/ UNCHANGED vars
  <2>1. /\ UNCHANGED <<idVars, userVars, received, header, stream, requests, scheduled>>
        /\ UNCHANGED <<pending_transaction, pending_transaction_id>>
    BY <1>5 DEF vars, pendingVars, wireVars, Connect, Disconnect, Tick, CallbackReturns,
       NothingToSend, Loop, RecvNothing, NoTrailing, Closed, AbortNext, Elapse
  <2>2. QED
    BY <1>1, <1>4, <2>1
<1>6. CASE TickHook \/ RecvHook \/ RecvFails \/ TrailingFails \/ ResponseTooShort
             \/ AbortPending
  <2>1. UNCHANGED <<idVars, userVars, received, header, stream, requests, scheduled>>
    BY <1>6 DEF wireVars, TickHook, RecvHook, RecvFails, TrailingFails, ResponseTooShort,
       AbortPending
  <2>2. \/ pending_transaction' = Null
        \/ UNCHANGED <<pending_transaction, pending_transaction_id>>
    BY <1>6 DEF pendingVars, TickHook, RecvHook, CheckTimeout, RecvFails, TrailingFails,
       ResponseTooShort, AbortPending, FinishMatching, FinishPending, NothingPending,
       ClearPending
  <2>3. QED
    BY <1>1, <1>4, <2>1, <2>2
<1>7. CASE Transact
  <2>1. issued' = issued + 1 /\ Len(scheduled') = Len(scheduled) + 1
    <3>1. issued' \in Transactions
      BY <1>7 DEF TypeOK, Transact, Transactions
    <3>2. QED
      BY <1>7, <3>1, AppendProperties DEF TypeOK, Transact
  <2>2. UNCHANGED <<idVars, pendingVars, received, header, stream, requests>>
    BY <1>7 DEF Transact, wireVars
  <2>3. \A t \in Transactions : Sent(t) => mask'[t] = mask[t]
    <3>1. PICK m \in Masks : mask' = [mask EXCEPT ![issued + 1] = m]
      BY <1>7, <2>1 DEF Transact
    <3>2. \A t \in Transactions : Sent(t) => t <= issued - Len(scheduled) /\ t \in Nat
      BY DEF IdInv, Transactions
    <3>3. \A t \in Transactions : Sent(t) => t # issued + 1
      BY <1>1, <3>2
    <3>4. QED
      BY <3>1, <3>3 DEF TypeOK
  <2>4. QED
    BY <1>1, <1>2, <1>3, <2>1, <2>2, <2>3, IdQuiet DEF pendingVars
<1>8. CASE TakeScheduled
  <2>1. issued' = issued /\ Len(scheduled') = 0
    BY <1>8 DEF TakeScheduled
  <2>2. UNCHANGED <<idVars, mask, pendingVars, received, header, stream, requests>>
    BY <1>8 DEF TakeScheduled, wireVars
  <2>3. QED
    BY <1>1, <1>4, <2>1, <2>2 DEF pendingVars
<1>9. CASE Send
  BY <1>9, IdSend
<1>10. CASE RecvSome \/ AppendTrailing
  <2>1. PICK n \in Nat : Recv(n)
    BY <1>10, RecvCounts
  <2>2. /\ \A i \in 1..Len(received') : FrameOfRequest(received'[i].frame)
        /\ \A i \in 1..Len(stream') : FrameOfRequest(stream'[i].frame)
    BY <2>1, RecvMoves, ArrivedAnswers
  <2>3. header'.t = header.t /\ header'.id = header.id
    BY <1>10 DEF RecvSome, AppendTrailing, PayloadRead, TypeOK, Headers, Frames
  <2>4. header'.t # Null => AnswersRequest(header')
    BY <1>3, <2>3 DEF AnswersRequest
  <2>5. UNCHANGED <<idVars, pending_transaction, pending_transaction_id, requests, userVars,
                    scheduled>>
    BY <1>10 DEF RecvSome, AppendTrailing, pendingVars
  <2>6. QED
    BY <1>1, <1>2, <2>2, <2>4, <2>5, IdQuiet
<1>11. CASE CheckHeader
  <2>1. PICK h \in IF InStep THEN {received[1].frame} ELSE Noise :
            /\ header' \in {h, header}
            /\ \/ pending_transaction' = Null
               \/ UNCHANGED <<pending_transaction, pending_transaction_id>>
    BY <1>11 DEF CheckHeader, FinishMatching, FinishPending, ClearPending, pendingVars
  <2>2. h.t # Null => AnswersRequest(h)
    <3>1. CASE InStep
      <4>1. 1 \in 1..Len(received)
        BY <1>11 DEF CheckHeader, HeaderReceived, TypeOK
      <4>2. QED
        BY <1>3, <2>1, <3>1, <4>1 DEF FrameOfRequest
    <3>2. CASE ~InStep /\ \E id \in Ids : h \in BadHeaders(Null, id)
      BY <3>2, BadHeaderIs
    <3>3. CASE ~InStep /\ h \in [t : {Null}, id : Ids, kind : {"ok"}, length : 0..MaxPayload,
                                needed : {0}, good : BOOLEAN]
      BY <3>3
    <3>4. QED
      BY <2>1, <3>1, <3>2, <3>3 DEF Noise
  <2>3. header'.t # Null => AnswersRequest(header')
    BY <1>3, <2>1, <2>2
  <2>4. UNCHANGED <<idVars, received, stream, requests, userVars, scheduled>>
    BY <1>11 DEF CheckHeader, wireVars
  <2>5. QED
    BY <1>1, <1>2, <1>3, <2>1, <2>3, <2>4, IdQuiet
<1>12. CASE IgnoreResponse \/ FinishResponse \/ Close
  <2>1. received' = <<>> /\ header' = Unchecked /\ stream' \in {stream, <<>>}
        /\ requests' \subseteq requests
    BY <1>12 DEF IgnoreResponse, FinishResponse, Close, ResetPendingResponse, wireVars
  <2>2. Len(received') = 0 /\ header'.t = Null
    BY <2>1 DEF Unchecked
  <2>3. \A i \in 1..Len(stream') : FrameOfRequest(stream'[i].frame)
    BY <1>3, <2>1
  <2>4. \/ pending_transaction' = Null
        \/ UNCHANGED <<pending_transaction, pending_transaction_id>>
    BY <1>12 DEF IgnoreResponse, FinishResponse, Close, FinishPending, ClearPending, pendingVars
  <2>5. UNCHANGED <<idVars, userVars, scheduled>>
    BY <1>12 DEF IgnoreResponse, FinishResponse, Close
  <2>6. QED
    BY <1>1, <1>2, <2>1, <2>2, <2>3, <2>4, <2>5, IdQuiet
<1>13. CASE Answer
  <2>1. PICK t \in requests, f \in Frames :
           /\ f.t = t /\ f.id = ids[t] /\ Size(f) \in Nat \ {0}
           /\ Len(stream') = Len(stream) + Size(f)
           /\ \A i \in 1..Len(stream) : stream'[i] = stream[i]
           /\ \A i \in 1..Size(f) : stream'[Len(stream) + i] = Byte(f, i)
           /\ requests' \subseteq requests
    BY <1>13, AnswerIs
  <2>2. FrameOfRequest(f)
    BY <2>1 DEF IdInv, FrameOfRequest, AnswersRequest, TypeOK, Transactions, Null
  <2>3. \A i \in 1..Len(stream') : FrameOfRequest(stream'[i].frame)
    BY <2>1, <2>2, AnswerAdds, ArrivedAnswers
  <2>4. UNCHANGED <<idVars, pendingVars, received, header, userVars, scheduled>>
    BY <1>13 DEF Answer
  <2>5. QED
    BY <1>1, <1>2, <1>3, <2>1, <2>3, <2>4, IdQuiet DEF pendingVars
<1>14. QED
  BY <1>5, <1>6, <1>7, <1>8, <1>9, <1>10, <1>11, <1>12, <1>13 DEF Next, UserStep, LibraryStep

-----------------------------------------------------------------------------
(* The alignment of the response.                                          *)

\* A sequence of frames without its first s bytes, which are whole frames.
LEMMA FramesShift ==
    ASSUME NEW w, NEW len \in Nat, NEW s \in Nat, s <= len, InFrames(w, len),
           \A i \in 1..len : Size(w[i].frame) \in Nat \ {0},
           s > 0 => w[s].pos = Size(w[s].frame),
           NEW v, \A i \in 1..(len - s) : v[i] = w[i + s]
    PROVE  InFrames(v, len - s)
<1>1. PICK rest \in Nat : rest = len - s
  OBVIOUS
<1>2. \A i \in 1..rest : i + s \in 1..len /\ v[i] = w[i + s]
  BY <1>1
<1>3. rest > 0 => v[1].pos = 1 /\ v[rest].pos = Size(v[rest].frame)
  <2>1. SUFFICES ASSUME rest > 0 PROVE v[1].pos = 1 /\ v[rest].pos = Size(v[rest].frame)
    OBVIOUS
  <2>2. rest + s = len /\ v[1] = w[1 + s] /\ v[rest] = w[rest + s]
    BY <1>1, <1>2, <2>1
  <2>3. w[len].pos = Size(w[len].frame)
    BY <1>1, <2>1 DEF InFrames
  <2>4. w[1 + s].pos = 1
    <3>1. CASE s = 0
      BY <1>1, <2>1, <3>1 DEF InFrames
    <3>2. CASE s > 0
      <4>1. s \in 1..len /\ s < len /\ s + 1 = 1 + s
        BY <1>1, <2>1, <3>2
      <4>2. w[s + 1].pos = 1
        BY <3>2, <4>1 DEF InFrames
      <4>3. QED
        BY <4>1, <4>2
    <3>3. QED
      BY <3>1, <3>2
  <2>5. QED
    BY <2>2, <2>3, <2>4
<1>4. ASSUME NEW i \in 1..rest
      PROVE  /\ v[i].frame.needed = v[i].frame.length
             /\ v[i].pos = 1 =>
                    /\ i + Size(v[i].frame) - 1 <= rest
                    /\ \A n \in 1..Size(v[i].frame) : v[i + n - 1] = Byte(v[i].frame, n)
             /\ v[i].pos = Size(v[i].frame) /\ i < rest => v[i + 1].pos = 1
  <2>1. PICK k \in 1..len : k = i + s /\ v[i] = w[k]
    BY <1>2
  <2>2. PICK m \in Nat \ {0} : m = Size(w[k].frame)
    BY <2>1
  <2>3. w[k].frame.needed = w[k].frame.length
    BY <2>1 DEF InFrames
  <2>4. ASSUME w[k].pos = 1
        PROVE  i + m - 1 <= rest /\ \A n \in 1..m : v[i + n - 1] = Byte(w[k].frame, n)
    <3>1. k + m - 1 <= len /\ \A n \in 1..m : w[k + n - 1] = Byte(w[k].frame, n)
      BY <2>1, <2>2, <2>4 DEF InFrames
    <3>2. i + m - 1 <= rest
      BY <1>1, <2>1, <3>1
    <3>3. ASSUME NEW n \in 1..m PROVE v[i + n - 1] = w[k + n - 1]
      <4>1. PICK j \in 1..rest : j = i + n - 1 /\ j + s = k + n - 1
        BY <2>1, <3>2
      <4>2. QED
        BY <1>2, <4>1
    <3>4. QED
      BY <3>1, <3>2, <3>3
  <2>5. ASSUME w[k].pos = m, i < rest PROVE v[i + 1].pos = 1
    <3>1. k < len /\ w[k + 1].pos = 1
      BY <1>1, <2>1, <2>2, <2>5 DEF InFrames
    <3>2. PICK j \in 1..rest : j = i + 1 /\ j + s = k + 1
      BY <2>1, <2>5
    <3>3. v[j] = w[j + s]
      BY <1>2
    <3>4. QED
      BY <3>1, <3>2, <3>3
  <2>6. QED
    BY <2>1, <2>2, <2>3, <2>4, <2>5
<1>5. QED
  BY <1>1, <1>3, <1>4 DEF InFrames

\* A sequence of frames and one frame more.
LEMMA FramesAppend ==
    ASSUME NEW w, NEW len \in Nat, InFrames(w, len),
           \A i \in 1..len : Size(w[i].frame) \in Nat \ {0},
           NEW f, Size(f) \in Nat \ {0}, f.needed = f.length,
           NEW v, \A i \in 1..len : v[i] = w[i],
           \A i \in 1..Size(f) : v[len + i] = Byte(f, i)
    PROVE  InFrames(v, len + Size(f))
<1>1. PICK s \in Nat \ {0} : s = Size(f)
  OBVIOUS
<1>2. PICK all \in Nat : all = len + s
  OBVIOUS
<1>3. \A i \in 1..s : v[len + i].frame = f /\ v[len + i].pos = i
  BY <1>1, ByteIs
<1>4. v[1].pos = 1 /\ v[all].pos = Size(v[all].frame)
  <2>1. v[all].pos = s /\ v[all].frame = f
    BY <1>2, <1>3
  <2>2. v[1].pos = 1
    <3>1. CASE len = 0
      <4>1. v[len + 1].pos = 1 /\ len + 1 = 1
        BY <1>1, <1>3, <3>1
      <4>2. QED
        BY <4>1
    <3>2. CASE len > 0
      BY <3>2 DEF InFrames
    <3>3. QED
      BY <3>1, <3>2
  <2>3. QED
    BY <1>1, <2>1, <2>2
<1>5. ASSUME NEW i \in 1..all
      PROVE  /\ v[i].frame.needed = v[i].frame.length
             /\ v[i].pos = 1 =>
                    /\ i + Size(v[i].frame) - 1 <= all
                    /\ \A n \in 1..Size(v[i].frame) : v[i + n - 1] = Byte(v[i].frame, n)
             /\ v[i].pos = Size(v[i].frame) /\ i < all => v[i + 1].pos = 1
  <2>1. CASE i \in 1..len
    <3>1. v[i] = w[i] /\ w[i].frame.needed = w[i].frame.length
      BY <2>1 DEF InFrames
    <3>2. PICK m \in Nat \ {0} : m = Size(w[i].frame)
      BY <2>1
    <3>3. ASSUME w[i].pos = 1
          PROVE  i + m - 1 <= all /\ \A n \in 1..m : v[i + n - 1] = Byte(w[i].frame, n)
      <4>1. i + m - 1 <= len /\ \A n \in 1..m : w[i + n - 1] = Byte(w[i].frame, n)
        BY <2>1, <3>2, <3>3 DEF InFrames
      <4>2. \A n \in 1..m : i + n - 1 \in 1..len
        BY <2>1, <4>1
      <4>3. \A n \in 1..m : v[i + n - 1] = w[i + n - 1]
        BY <4>2
      <4>4. QED
        BY <1>2, <4>1, <4>3
    <3>4. ASSUME w[i].pos = m, i < all PROVE v[i + 1].pos = 1
      <4>1. CASE i < len
        <5>1. w[i + 1].pos = 1 /\ i + 1 \in 1..len
          BY <2>1, <3>2, <3>4, <4>1 DEF InFrames
        <5>2. QED
          BY <5>1
      <4>2. CASE i = len
        BY <1>1, <1>3, <4>2
      <4>3. QED
        BY <2>1, <4>1, <4>2
    <3>5. QED
      BY <3>1, <3>2, <3>3, <3>4
  <2>2. CASE i \notin 1..len
    <3>1. PICK k \in 1..s : k = i - len
      BY <1>2, <2>2
    <3>2. i = len + k /\ v[i].frame = f /\ v[i].pos = k
      BY <1>3, <3>1
    <3>3. ASSUME k = 1 PROVE i + s - 1 <= all /\ \A n \in 1..s : v[i + n - 1] = Byte(f, n)
      <4>1. i + s - 1 <= all
        BY <1>2, <3>2, <3>3
      <4>2. \A n \in 1..s : i + n - 1 = len + n
        BY <3>2, <3>3
      <4>3. QED
        BY <1>1, <4>1, <4>2
    <3>4. ~(k = s /\ i < all)
      BY <1>2, <3>2
    <3>5. QED
      BY <1>1, <3>2, <3>3, <3>4
  <2>3. QED
    BY <2>1, <2>2
<1>6. InFrames(v, all)
  BY <1>4, <1>5 DEF InFrames
<1>7. QED
  BY <1>1, <1>2, <1>6

LEMMA WholeIs ==
    ASSUME TypeOK
    PROVE  /\ Len(received) \in Nat /\ Len(stream) \in Nat /\ WholeLen \in Nat
           /\ \A i \in 1..Len(received) : Whole[i] = received[i]
           /\ \A i \in 1..Len(stream) : Whole[Len(received) + i] = stream[i]
           /\ \A i \in 1..WholeLen : Whole[i].frame \in Frames
           /\ \A i \in 1..WholeLen : Size(Whole[i].frame) \in Nat \ {0}
<1>1. PICK a \in Nat, b \in Nat : a = Len(received) /\ b = Len(stream)
  BY DEF TypeOK
<1>2. WholeLen = a + b
  BY <1>1 DEF WholeLen
<1>3. \A i \in 1..(a + b) : Whole[i] = IF i <= a THEN received[i] ELSE stream[i - a]
  BY <1>1, <1>2 DEF Whole
<1>4. \A i \in 1..a : Whole[i] = received[i]
  BY <1>3
<1>5. ASSUME NEW i \in 1..b PROVE Whole[a + i] = stream[i]
  <2>1. PICK j \in 1..(a + b) : j = a + i /\ ~(j <= a) /\ j - a = i
    OBVIOUS
  <2>2. QED
    BY <1>3, <2>1
<1>6. ASSUME NEW i \in 1..(a + b) PROVE Whole[i] \in Bytes
  <2>1. CASE i <= a
    BY <1>1, <1>3, <2>1 DEF TypeOK
  <2>2. CASE ~(i <= a)
    <3>1. PICK k \in 1..b : k = i - a
      BY <2>2
    <3>2. stream[k] \in Bytes
      BY <1>1 DEF TypeOK
    <3>3. QED
      BY <1>3, <2>2, <3>1, <3>2
  <2>3. QED
    BY <2>1, <2>2
<1>7. \A i \in 1..(a + b) : Whole[i].frame \in Frames
  BY <1>6 DEF Bytes
<1>8. QED
  BY <1>1, <1>2, <1>4, <1>5, <1>7, BytesOfType

\* recv() does not change what there is all in all.
LEMMA RecvKeepsWhole ==
    ASSUME TypeOK, TypeOK', NEW n \in Nat, Recv(n)
    PROVE  WholeLen' = WholeLen /\ \A i \in 1..WholeLen : Whole'[i] = Whole[i]
<1>1. PICK a \in Nat, b \in Nat : a = Len(received) /\ b = Len(stream)
  BY DEF TypeOK
<1>2. /\ n <= b /\ Len(received') = a + n /\ Len(stream') = b - n
      /\ \A i \in 1..a : received'[i] = received[i]
      /\ \A i \in 1..n : received'[a + i] = stream[i]
      /\ \A i \in 1..(b - n) : stream'[i] = stream[n + i]
  BY <1>1, RecvIs
<1>3. WholeLen = a + b /\ WholeLen' = (a + n) + (b - n)
  BY <1>1, <1>2 DEF WholeLen
<1>4. WholeLen' = WholeLen
  BY <1>3
<1>5. /\ \A i \in 1..(a + b) : Whole[i] = IF i <= a THEN received[i] ELSE stream[i - a]
      /\ \A i \in 1..(a + b) :
             Whole'[i] = IF i <= a + n THEN received'[i] ELSE stream'[i - (a + n)]
  BY <1>1, <1>2, <1>3, <1>4 DEF Whole
<1>6. ASSUME NEW i \in 1..(a + b) PROVE Whole'[i] = Whole[i]
  <2>1. CASE i <= a
    BY <1>2, <1>5, <2>1
  <2>2. CASE ~(i <= a) /\ i <= a + n
    <3>1. PICK k \in 1..n : k = i - a
      BY <2>2
    <3>2. i = a + k
      BY <3>1
    <3>3. received'[i] = stream[k]
      BY <1>2, <3>1, <3>2
    <3>4. QED
      BY <1>5, <2>2, <3>1, <3>3
  <2>3. CASE ~(i <= a + n)
    <3>1. PICK k \in 1..(b - n) : k = i - (a + n) /\ n + k = i - a
      <4>1. a \in Nat /\ b \in Nat /\ n \in Nat /\ i \in 1..(a + b) /\ ~(i <= a + n)
        BY <1>1, <1>2, <1>6, <2>3
      <4>2. i - (a + n) \in 1..(b - n) /\ n + (i - (a + n)) = i - a
        BY <4>1
      <4>3. QED
        BY <4>2
    <3>2. stream'[k] = stream[n + k]
      BY <1>2, <3>1
    <3>3. QED
      BY <1>5, <2>3, <3>1, <3>2
  <2>4. QED
    BY <2>1, <2>2, <2>3
<1>7. QED
  BY <1>3, <1>4, <1>6

\* The response at hand is the start of the first frame.
LEMMA FirstFrame ==
    ASSUME TypeOK, AlignInv, derailed = "no", received # <<>>
    PROVE  /\ Len(received) \in Nat \ {0} /\ received[1].frame \in Frames
           /\ received[1].frame.needed = received[1].frame.length
           /\ Size(received[1].frame) \in 1..WholeLen
           /\ \A n \in 1..Size(received[1].frame) : Whole[n] = Byte(received[1].frame, n)
<1>1. Len(received) \in Nat \ {0} /\ Len(received) <= WholeLen /\ WholeLen \in Nat
  BY WholeIs, EmptySeq DEF TypeOK, WholeLen
<1>2. Whole[1] = received[1] /\ 1 \in 1..WholeLen
  BY <1>1, WholeIs
<1>3. PICK f \in Frames : f = received[1].frame
  BY <1>2, WholeIs
<1>4. PICK s \in Nat \ {0} : s = Size(f)
  BY <1>3, BytesOfType
<1>5. Whole[1].pos = 1 /\ f.needed = f.length
  BY <1>1, <1>2, <1>3 DEF AlignInv, InFrames
<1>6. 1 + s - 1 <= WholeLen /\ \A n \in 1..s : Whole[1 + n - 1] = Byte(f, n)
  BY <1>2, <1>3, <1>4, <1>5 DEF AlignInv, InFrames
<1>7. \A n \in 1..s : 1 + n - 1 = n
  OBVIOUS
<1>8. s \in 1..WholeLen /\ \A n \in 1..s : Whole[n] = Byte(f, n)
  BY <1>1, <1>6, <1>7
<1>9. QED
  BY <1>1, <1>3, <1>4, <1>5, <1>8

\* Unless bytes were lost, what is received begins with one frame.
LEMMA ReceivedIs ==
    ASSUME TypeOK, AlignInv, ResponseInv, derailed = "no"
    PROVE  \A n \in 1..Len(received) : received[n] = Byte(received[1].frame, n)
<1>1. SUFFICES ASSUME NEW n \in 1..Len(received)
               PROVE  received[n] = Byte(received[1].frame, n)
  OBVIOUS
<1>2. received # <<>>
  OBVIOUS
<1>3. PICK s \in Nat : s = Size(received[1].frame)
  BY <1>2, FirstFrame
<1>4. s = HeaderLength + received[1].frame.length
  BY <1>2, <1>3, FirstFrame DEF Size
<1>5. Len(received) <= s
  <2>1. received[1].frame.length \in Nat
    BY <1>2, FirstFrame DEF Frames
  <2>2. CASE header = Unchecked
    BY <1>4, <2>1, <2>2 DEF ResponseInv
  <2>3. CASE header # Unchecked
    BY <1>2, <1>4, <2>1, <2>3 DEF ResponseInv, AlignInv
  <2>4. QED
    BY <2>2, <2>3
<1>6. n \in 1..s
  BY <1>3, <1>5, WholeIs
<1>7. QED
  BY <1>2, <1>3, <1>6, FirstFrame, WholeIs

\* A step that moves no bytes.
LEMMA AlignQuiet == ASSUME AlignInv, UNCHANGED <<responseVars, stream, derailed>> PROVE AlignInv'
<1>1. WholeLen' = WholeLen /\ Whole' = Whole
  BY DEF Whole, WholeLen, responseVars
<1>2. UNCHANGED <<received, header, derailed>>
  BY DEF responseVars
<1>3. InFrames(Whole, WholeLen) => InFrames(Whole, WholeLen)'
  BY <1>1 DEF InFrames
<1>4. QED
  BY <1>2, <1>3 DEF AlignInv

\* recv() returns bytes of the response.
LEMMA AlignRecv ==
    ASSUME TypeOK, TypeOK', AlignInv, NEW n \in Nat, Recv(n), UNCHANGED <<header, derailed>>
    PROVE  AlignInv'
<1> SUFFICES ASSUME derailed = "no"
             PROVE  /\ InFrames(Whole, WholeLen)'
                    /\ header' # Unchecked => received' # <<>> /\ header' = received'[1].frame
  BY DEF AlignInv
<1>1. PICK w : w = Whole
  OBVIOUS
<1>2. PICK len \in Nat : len = WholeLen
  BY WholeIs
<1>3. \A i \in 1..len : Size(w[i].frame) \in Nat \ {0}
  BY <1>1, <1>2, WholeIs
<1>4. PICK v : v = Whole'
  OBVIOUS
<1>5. WholeLen' = len /\ \A i \in 1..len : v[i] = w[i]
  BY <1>1, <1>2, <1>4, RecvKeepsWhole
<1>6. InFrames(w, len)
  BY <1>1, <1>2 DEF AlignInv
<1>7. \A i \in 1..(len - 0) : v[i] = w[i + 0]
  BY <1>5
<1>8. InFrames(v, len - 0)
  BY <1>3, <1>6, <1>7, FramesShift
<1>9. InFrames(Whole, WholeLen)'
  BY <1>4, <1>5, <1>8 DEF InFrames
<1>10. ASSUME header # Unchecked PROVE received' # <<>> /\ header = received'[1].frame
  <2>1. received # <<>> /\ header = received[1].frame /\ Len(received) \in Nat \ {0}
    BY <1>10, EmptySeq DEF AlignInv, TypeOK
  <2>2. received'[1] = received[1] /\ Len(received') = Len(received) + n
    BY <2>1, RecvIs
  <2>3. QED
    BY <2>1, <2>2
<1>11. QED
  BY <1>9, <1>10

\* The header of the response is read.
LEMMA AlignHeader ==
    ASSUME TypeOK, AlignInv, ResponseInv, CheckHeader
    PROVE  AlignInv'
<1>1. UNCHANGED <<received, stream, derailed>>
  BY DEF CheckHeader, wireVars
<1>2. Len(received) = HeaderLength /\ header = Unchecked /\ received # <<>>
  BY DEF CheckHeader, HeaderReceived, ResponseInv, TypeOK
<1>3. ASSUME derailed = "no" PROVE header' \in {header, received[1].frame}
  <2>1. InStep
    BY <1>2, <1>3, ReceivedIs DEF InStep
  <2>2. QED
    BY <2>1 DEF CheckHeader
<1>4. derailed = "no" => InFrames(Whole, WholeLen)'
  BY <1>1 DEF AlignInv, Whole, WholeLen, InFrames
<1>5. QED
  BY <1>1, <1>2, <1>3, <1>4 DEF AlignInv

\* What is taken for trailing data begins a response.
LEMMA AlignTrailing ==
    ASSUME TypeOK, AlignInv, ResponseInv, AppendTrailing
    PROVE  derailed' # "no"
<1> SUFFICES ASSUME derailed = "no" PROVE derailed' # "no"
  BY DEF AppendTrailing
<1>1. PICK n \in Nat \ {0} :
         /\ Recv(n)
         /\ derailed' = IF derailed = "no" /\ Genuine(SubSeq(stream, 1, n))
                        THEN "client" ELSE derailed
  BY DEF AppendTrailing
<1>2. PICK cut : cut = SubSeq(stream, 1, n)
  OBVIOUS
<1>3. n <= Len(stream) /\ Len(cut) = n /\ cut[1] = stream[1]
  <2>1. stream \in Seq(Bytes) /\ n <= Len(stream) /\ 1 \in 1..n
    BY <1>1 DEF TypeOK, Recv
  <2>2. QED
    BY <1>2, <2>1, CutIs
<1>4. header # Unchecked /\ Len(received) - HeaderLength = header.length
  BY DEF AppendTrailing, PayloadRead, PayloadUsed
<1>5. received # <<>> /\ header = received[1].frame
  BY <1>4 DEF AlignInv
<1>6. PICK s \in Nat : s = Len(received)
  BY WholeIs
<1>7. s = Size(header) /\ s \in 1..WholeLen
  <2>1. header.length = header.needed /\ header.length \in Nat
    BY <1>5, FirstFrame DEF Frames
  <2>2. s = HeaderLength + header.needed
    BY <1>4, <1>6, <2>1
  <2>3. QED
    BY <1>5, <2>2, FirstFrame DEF Size
<1>8. Whole[s].pos = s /\ Whole[s].frame = header
  BY <1>5, <1>7, FirstFrame, ByteIs
<1>9. s < WholeLen
  BY <1>3, <1>6, WholeIs DEF WholeLen
<1>10. Whole[s + 1].pos = 1
  BY <1>7, <1>8, <1>9 DEF AlignInv, InFrames
<1>11. stream[1] = Whole[s + 1]
  <2>1. 1 \in 1..Len(stream)
    BY <1>3, WholeIs
  <2>2. QED
    BY <1>6, <2>1, WholeIs
<1>12. Genuine(cut)
  <2>1. stream[1].frame \in Frames
    <3>1. stream[1] \in Bytes
      BY <1>3 DEF TypeOK
    <3>2. QED
      BY <3>1 DEF Bytes
  <2>2. stream[1].frame.length \in Nat
    BY <2>1 DEF Frames
  <2>3. 1 <= HeaderLength + stream[1].frame.length
    BY <2>2
  <2>4. 1 \in 1..Len(cut) /\ cut[1].pos <= HeaderLength + cut[1].frame.length
    BY <1>3, <1>10, <1>11, <2>3
  <2>5. QED
    BY <2>4 DEF Genuine
<1>13. QED
  BY <1>1, <1>2, <1>12

\* A response that was received whole is dropped.
LEMMA AlignReset ==
    ASSUME TypeOK, TypeOK', AlignInv, ResponseInv, pc = "judge", ResetPendingResponse,
           UNCHANGED <<stream, derailed>>
    PROVE  AlignInv'
<1> SUFFICES ASSUME derailed = "no"
             PROVE  InFrames(Whole, WholeLen)' /\ header' = Unchecked
  BY DEF AlignInv
<1>1. header # Unchecked /\ Len(received) - HeaderLength = header.length
  BY DEF ResponseInv, PayloadUsed
<1>2. received # <<>> /\ header = received[1].frame
  BY <1>1 DEF AlignInv
<1>3. PICK s \in Nat : s = Len(received)
  BY WholeIs
<1>4. s = Size(header) /\ s \in 1..WholeLen
  <2>1. header.length = header.needed /\ header.length \in Nat
    BY <1>2, FirstFrame DEF Frames
  <2>2. s = HeaderLength + header.needed
    BY <1>1, <1>3, <2>1
  <2>3. QED
    BY <1>2, <2>2, FirstFrame DEF Size
<1>5. PICK w : w = Whole
  OBVIOUS
<1>6. PICK len \in Nat : len = WholeLen
  BY WholeIs
<1>7. w[s].pos = Size(w[s].frame)
  BY <1>2, <1>4, <1>5, FirstFrame, ByteIs
<1>8. \A i \in 1..len : Size(w[i].frame) \in Nat \ {0}
  BY <1>5, <1>6, WholeIs
<1>9. InFrames(w, len)
  BY <1>5, <1>6 DEF AlignInv
<1>10. Len(stream) = len - s
  BY <1>3, <1>6, WholeIs DEF WholeLen
<1>11. PICK rest \in Nat : rest = len - s
  BY <1>4, <1>6
<1>12. received' = <<>> /\ header' = Unchecked /\ stream' = stream /\ Len(received') = 0
  BY DEF ResetPendingResponse
<1>13. WholeLen' = rest
  BY <1>10, <1>11, <1>12 DEF WholeLen
<1>14. PICK v : v = Whole'
  OBVIOUS
<1>15. \A i \in 1..rest : v[i] = stream[i]
  BY <1>11, <1>12, <1>13, <1>14 DEF Whole
<1>16. \A i \in 1..rest : w[s + i] = stream[i]
  BY <1>3, <1>5, <1>10, <1>11, WholeIs
<1>17. \A i \in 1..(len - s) : v[i] = w[i + s]
  BY <1>11, <1>15, <1>16
<1>18. InFrames(v, len - s)
  BY <1>4, <1>6, <1>7, <1>8, <1>9, <1>17, FramesShift
<1>19. InFrames(Whole, WholeLen)'
  BY <1>11, <1>13, <1>14, <1>18 DEF InFrames
<1>20. QED
  BY <1>12, <1>19

\* The peer sends a frame, after those it has sent.
LEMMA AlignAnswer == ASSUME TypeOK, TypeOK', AlignInv, Answer PROVE AlignInv'
<1>1. PICK t \in requests, f \in Frames :
         /\ Size(f) \in Nat \ {0}
         /\ Len(stream') = Len(stream) + Size(f)
         /\ \A i \in 1..Len(stream) : stream'[i] = stream[i]
         /\ \A i \in 1..Size(f) : stream'[Len(stream) + i] = Byte(f, i)
         /\ derailed' = IF derailed = "no" /\ f.needed # f.length THEN "peer" ELSE derailed
  BY AnswerIs
<1>2. UNCHANGED <<received, header>>
  BY DEF Answer, responseVars
<1> SUFFICES ASSUME derailed' = "no" PROVE InFrames(Whole, WholeLen)'
  BY <1>1, <1>2 DEF AlignInv
<1>3. derailed = "no" /\ f.needed = f.length
  BY <1>1
<1>4. PICK a \in Nat, b \in Nat, s \in Nat \ {0} :
         a = Len(received) /\ b = Len(stream) /\ s = Size(f)
  BY <1>1, LengthsAreNat, Zenon
<1>5. PICK w : w = Whole
  OBVIOUS
<1>6. PICK v : v = Whole'
  OBVIOUS
<1>7. WholeLen = a + b /\ WholeLen' = a + (b + s)
  BY <1>1, <1>2, <1>4 DEF WholeLen
<1>8. /\ \A i \in 1..(a + b) : w[i] = IF i <= a THEN received[i] ELSE stream[i - a]
      /\ \A i \in 1..(a + (b + s)) : v[i] = IF i <= a THEN received[i] ELSE stream'[i - a]
  BY <1>2, <1>4, <1>5, <1>6, <1>7 DEF Whole
<1>9. ASSUME NEW i \in 1..(a + b) PROVE v[i] = w[i]
  <2>1. CASE i <= a
    BY <1>8, <2>1
  <2>2. CASE ~(i <= a)
    <3>1. PICK k \in 1..b : k = i - a
      BY <2>2
    <3>2. stream'[k] = stream[k]
      BY <1>1, <1>4
    <3>3. QED
      BY <1>8, <2>2, <3>1, <3>2
  <2>3. QED
    BY <2>1, <2>2
<1>10. ASSUME NEW i \in 1..s PROVE v[(a + b) + i] = Byte(f, i)
  <2>1. PICK j \in 1..(a + (b + s)) : j = (a + b) + i /\ ~(j <= a) /\ j - a = b + i
    OBVIOUS
  <2>2. stream'[b + i] = Byte(f, i)
    BY <1>1, <1>4
  <2>3. QED
    BY <1>8, <2>1, <2>2
<1>11. InFrames(w, a + b) /\ \A i \in 1..(a + b) : Size(w[i].frame) \in Nat \ {0}
  BY <1>3, <1>5, <1>7, WholeIs DEF AlignInv
<1>12. PICK len \in Nat : len = a + b
  OBVIOUS
<1>13. InFrames(v, len + Size(f))
  BY <1>1, <1>3, <1>4, <1>9, <1>10, <1>11, <1>12, FramesAppend
<1>14. WholeLen' = len + Size(f)
  <2>1. a + (b + s) = len + s
    BY <1>12
  <2>2. QED
    BY <1>4, <1>7, <2>1
<1>15. QED
  BY <1>6, <1>13, <1>14 DEF InFrames

\* Each step keeps the response aligned with the frames.
LEMMA AlignStep ==
    ASSUME TypeOK, ControlInv, ResponseInv, AlignInv, [Next]_vars
    PROVE  AlignInv'
<1>1. TypeOK'
  BY TypeStep
<1>2. CASE Connect \/ Transact \/ Disconnect \/ Tick \/ CallbackReturns \/ TickHook
             \/ NothingToSend \/ Send \/ Loop \/ RecvHook \/ RecvNothing \/ RecvFails
             \/ NoTrailing \/ TrailingFails \/ ResponseTooShort \/ AbortPending
             \/ TakeScheduled \/ AbortNext \/ Closed \/ Elapse \/ UNCHANGED vars
  <2>1. UNCHANGED <<responseVars, stream, derailed>>
    BY <1>2 DEF vars, wireVars, Connect, Transact, Disconnect, Tick, CallbackReturns, TickHook,
       NothingToSend, Send, Loop, RecvHook, RecvNothing, RecvFails, NoTrailing, TrailingFails,
       ResponseTooShort, AbortPending, TakeScheduled, AbortNext, Closed, Elapse
  <2>2. QED
    BY <2>1, AlignQuiet
<1>3. CASE RecvSome
  <2>1. PICK n \in Nat : Recv(n)
    BY <1>3, RecvCounts
  <2>2. UNCHANGED <<header, derailed>>
    BY <1>3 DEF RecvSome
  <2>3. QED
    BY <1>1, <2>1, <2>2, AlignRecv
<1>4. CASE CheckHeader
  BY <1>4, AlignHeader
<1>5. CASE AppendTrailing
  BY <1>5, AlignTrailing DEF AlignInv
<1>6. CASE IgnoreResponse \/ FinishResponse
  BY <1>1, <1>6, AlignReset DEF IgnoreResponse, FinishResponse, wireVars
<1>7. CASE Close
  <2>1. header' = Unchecked /\ WholeLen' = 0
    BY <1>7 DEF Close, ResetPendingResponse, WholeLen
  <2>2. QED
    BY <2>1 DEF AlignInv, InFrames
<1>8. CASE Answer
  BY <1>1, <1>8, AlignAnswer
<1>9. QED
  BY <1>2, <1>3, <1>4, <1>5, <1>6, <1>7, <1>8 DEF Next, UserStep, LibraryStep

-----------------------------------------------------------------------------
(* The theorems.                                                           *)

LEMMA Initially == Init => IInv
<1> SUFFICES ASSUME Init PROVE IInv
  OBVIOUS
<1>1. TypeOK
  BY InitType
<1>2. ControlInv
  BY DEF Init, ControlInv, At
<1>3. OrderInv
  BY DEF Init, OrderInv, EndsWithLast, Open, Null, Transactions
<1>4. ResponseInv
  BY DEF Init, ResponseInv, Unchecked
<1>5. IdInv
  BY DEF Init, IdInv, Sent, Unchecked, Null
<1>6. AlignInv
  BY DEF Init, AlignInv, InFrames, WholeLen
<1>7. QED
  BY <1>1, <1>2, <1>3, <1>4, <1>5, <1>6 DEF IInv

LEMMA Inductive == IInv /\ [Next]_vars => IInv'
  BY TypeStep, ControlStep, OrderStep, ResponseStep, IdStep, AlignStep DEF IInv

\* IInv holds in every state the client can reach.
THEOREM Invariance == Spec => []IInv
  BY Initially, Inductive, PTL DEF Spec

\* Type correctness, for every number of transactions and of ids and all lengths.
THEOREM TypeCorrect == Spec => []TypeOK
<1>1. IInv => TypeOK
  BY DEF IInv
<1>2. QED
  BY <1>1, Invariance, PTL

\* The payload received fits the buffer of pending_response, whatever the peer sends.
THEOREM BufferSuffices == Spec => []BufferBound
<1>1. ASSUME IInv PROVE BufferBound
  <2>1. Len(received) \in Nat /\ header.length <= MaxPayload
    BY <1>1 DEF IInv, TypeOK, ResponseInv
  <2>2. CASE header = Unchecked
    BY <1>1, <2>1, <2>2 DEF IInv, ResponseInv, BufferBound
  <2>3. CASE header # Unchecked
    BY <1>1, <2>1, <2>3, HeaderIsFrame DEF IInv, ResponseInv, BufferBound
  <2>4. QED
    BY <2>2, <2>3
<1>2. QED
  BY <1>1, Invariance, PTL

\* When the user has control of a client that is not connected, nothing is left of
\* the last connection.
THEOREM NothingIsLeft == Spec => []CleanWhenClosed
<1>1. IInv => CleanWhenClosed
  BY DEF IInv, ControlInv, At, AtMainLoop, CleanWhenClosed
<1>2. QED
  BY <1>1, Invariance, PTL

\* Unless bytes were lost, what is collected is the start of one frame.
THEOREM StaysAligned == Spec => []Aligned
<1>1. IInv => Aligned
  BY ReceivedIs DEF IInv, Aligned
<1>2. QED
  BY <1>1, Invariance, PTL

\* The result of a transaction is taken from the response to its request.
LEMMA JudgedIsOwn ==
    ASSUME IInv, pending_transaction # Null, Judged.id = pending_transaction_id,
           header # Unchecked \/ HeaderReceived
    PROVE  \/ Judged.t = pending_transaction
           \/ /\ Judged.t # Null /\ Judged.t < pending_transaction
              /\ ids[Judged.t] = ids[pending_transaction]
              /\ mask[Judged.t] = AllBits /\ mask[pending_transaction] = AllBits =>
                     rounds[Judged.t] < rounds[pending_transaction]
           \/ Judged.t = Null /\ derailed # "no"
<1>1. PICK p \in Transactions : p = pending_transaction
  BY DEF IInv, TypeOK
<1>2. Sent(p) /\ ids[p] = pending_transaction_id /\ p = issued - Len(scheduled)
  BY <1>1 DEF IInv, IdInv, OrderInv
<1>3. /\ \A i \in 1..Len(received) : FrameOfRequest(received[i].frame)
                                     /\ received[i].frame \in Frames
      /\ header.t # Null => AnswersRequest(header) /\ header \in Frames
  <2>1. \A i \in 1..Len(received) : received[i] \in Bytes
    BY DEF IInv, TypeOK
  <2>2. \A b \in Bytes : b.frame \in Frames
    BY DEF Bytes
  <2>3. header.t # Null => header \in Frames
    BY DEF IInv, TypeOK, Headers, Unchecked
  <2>4. QED
    BY <2>1, <2>2, <2>3 DEF IInv, IdInv, FrameOfRequest
<1>4. header = Unchecked => 1 \in 1..Len(received)
  BY DEF HeaderReceived, IInv, TypeOK
<1>5. ASSUME Judged.t # Null PROVE Judged.t \in Transactions /\ AnswersRequest(Judged)
  <2>1. Judged \in Frames /\ AnswersRequest(Judged)
    BY <1>3, <1>4, <1>5 DEF Judged, FrameOfRequest
  <2>2. QED
    BY <1>5, <2>1 DEF Frames
<1>6. ASSUME Judged.t # Null, Judged.t # p
      PROVE  /\ Judged.t < p /\ ids[Judged.t] = ids[p]
             /\ mask[Judged.t] = AllBits /\ mask[p] = AllBits => rounds[Judged.t] < rounds[p]
  <2>1. PICK t \in Transactions : t = Judged.t
    BY <1>5, <1>6
  <2>2. Sent(t) /\ ids[t] = ids[p]
    BY <1>2, <1>5, <1>6, <2>1 DEF AnswersRequest
  <2>3. t <= p /\ t \in Nat /\ p \in Nat
    BY <1>2, <2>2 DEF IInv, IdInv, Transactions
  <2>4. mask[p] = AllBits => TookBefore(t, rounds[p], ids[p])
    BY <1>2, <1>6, <2>1, <2>2, <2>3 DEF IInv, IdInv
  <2>5. ids[p] \in Nat
    BY DEF IInv, TypeOK, Ids
  <2>6. t < p
    BY <1>6, <2>1, <2>3
  <2>7. QED
    BY <2>1, <2>2, <2>4, <2>5, <2>6 DEF TookBefore
<1>7. ASSUME Judged.t = Null PROVE derailed # "no"
  <2>1. SUFFICES ASSUME derailed = "no" PROVE FALSE
    OBVIOUS
  <2>2. CASE header = Unchecked
    <3>1. InStep
      <4>1. Len(received) = HeaderLength
        BY <2>2 DEF HeaderReceived, IInv, ResponseInv, TypeOK
      <4>2. QED
        BY <2>1, <4>1, ReceivedIs DEF InStep, IInv
    <3>2. QED
      BY <1>3, <1>4, <1>7, <2>2, <3>1 DEF Judged, FrameOfRequest
  <2>3. CASE header # Unchecked
    <3>1. received # <<>> /\ header = received[1].frame
      BY <2>1, <2>3 DEF IInv, AlignInv
    <3>2. 1 \in 1..Len(received)
      BY <3>1, EmptySeq DEF IInv, TypeOK
    <3>3. QED
      BY <1>3, <1>7, <2>3, <3>1, <3>2 DEF Judged, FrameOfRequest
  <2>4. QED
    BY <2>2, <2>3
<1>8. QED
  BY <1>1, <1>6, <1>7

\* Only the pending transaction ends with a result taken from a response.
LEMMA OwnAnswerStep ==
    ASSUME IInv, [Next]_vars, NEW t \in Transactions,
           outcome[t] = Open, outcome'[t] \in {"Success", "Response"}
    PROVE  \/ Judged.t = t
           \/ /\ Judged.t # Null /\ Judged.t < t /\ ids[Judged.t] = ids[t]
              /\ mask[Judged.t] = AllBits /\ mask[t] = AllBits => rounds[Judged.t] < rounds[t]
           \/ Judged.t = Null /\ derailed # "no"
<1>1. outcome'[t] # outcome[t]
  BY DEF Open
<1>2. outcome \in [Transactions -> Results \cup {Open}]
  BY DEF IInv, TypeOK
<1>3. ASSUME NEW result, NEW next, NEW u, CallBack(u, result, next)
      PROVE  u = t /\ result \in {"Success", "Response"}
  BY <1>1, <1>2, <1>3 DEF CallBack
<1>4. CASE CheckHeader
  <2>1. PICK h \in IF InStep THEN {received[1].frame} ELSE Noise :
            FinishMatching(h.id, "Response", "disconnect") \/ UNCHANGED outcome
    BY <1>4 DEF CheckHeader
  <2>2. Matches(h.id) /\ pending_transaction = t
    BY <1>1, <1>3, <2>1 DEF FinishMatching, FinishPending
  <2>3. header = Unchecked /\ HeaderReceived
    BY <1>4 DEF CheckHeader, HeaderReceived
  <2>4. CASE InStep
    <3>1. Judged = h
      BY <2>1, <2>3, <2>4 DEF Judged
    <3>2. QED
      BY <2>2, <2>3, <3>1, JudgedIsOwn DEF Matches
  <2>5. CASE ~InStep
    <3>1. Judged = Unchecked /\ Unchecked.t = Null
      BY <2>3, <2>5 DEF Judged, Unchecked
    <3>2. derailed # "no"
      <4>1. Len(received) = HeaderLength
        BY <2>3 DEF HeaderReceived, IInv, ResponseInv, TypeOK
      <4>2. QED
        BY <2>5, <4>1, ReceivedIs DEF InStep, IInv
    <3>3. QED
      BY <3>1, <3>2
  <2>6. QED
    BY <2>4, <2>5
<1>5. CASE ResponseTooShort \/ FinishResponse
  <2>1. header # Unchecked
    BY <1>5 DEF ResponseTooShort, FinishResponse, IInv, ResponseInv
  <2>2. Judged = header
    BY <2>1 DEF Judged
  <2>3. Matches(header.id) /\ pending_transaction = t
    BY <1>1, <1>3, <1>5 DEF ResponseTooShort, FinishResponse, FinishMatching, FinishPending
  <2>4. QED
    BY <2>1, <2>2, <2>3, JudgedIsOwn DEF Matches
<1>6. CASE TickHook \/ RecvHook \/ RecvFails \/ TrailingFails \/ AbortPending
  BY <1>1, <1>3, <1>6 DEF TickHook, RecvHook, CheckTimeout, RecvFails, TrailingFails,
     AbortPending, FinishMatching, FinishPending, NothingPending
<1>7. CASE Send \/ AbortNext
  BY <1>1, <1>3, <1>7 DEF Send, AbortNext
<1>8. CASE Connect \/ Transact \/ Disconnect \/ Tick \/ CallbackReturns \/ NothingToSend
             \/ Loop \/ RecvSome \/ RecvNothing \/ AppendTrailing \/ NoTrailing
             \/ IgnoreResponse \/ Close \/ TakeScheduled \/ Closed \/ Answer \/ Elapse
             \/ UNCHANGED vars
  BY <1>1, <1>8 DEF vars, Connect, Transact, Disconnect, Tick, CallbackReturns, NothingToSend,
     Loop, RecvSome, RecvNothing, AppendTrailing, NoTrailing, IgnoreResponse, Close,
     TakeScheduled, Closed, Answer, Elapse
<1>9. QED
  BY <1>4, <1>5, <1>6, <1>7, <1>8 DEF Next, UserStep, LibraryStep

\* A transaction is not given the response to another one, but to an earlier one with
\* the same id; and to none of its round of the counter, if the masks keep all bits.
THEOREM AnswersAreOwn == Spec => OwnAnswer
<1> DEFINE Own == \A t \in Transactions :
           outcome[t] = Open /\ outcome'[t] \in {"Success", "Response"} =>
               \/ Judged.t = t
               \/ /\ Judged.t # Null /\ Judged.t < t /\ ids[Judged.t] = ids[t]
                  /\ mask[Judged.t] = AllBits /\ mask[t] = AllBits =>
                         rounds[Judged.t] < rounds[t]
               \/ Judged.t = Null /\ derailed # "no"
<1>1. IInv /\ [Next]_vars => [Own]_vars
  BY OwnAnswerStep
<1>2. QED
  BY <1>1, Invariance, PTL DEF Spec, OwnAnswer

-----------------------------------------------------------------------------
(* The contract.                                                           *)

Queue == Pending \o aborting \o scheduled

Status == [t \in Transactions |->
              IF outcome[t] # Open THEN outcome[t]
              ELSE IF t <= issued THEN "open" ELSE "unused"]

\* How many transactions are open.
OpenCount == Len(Pending) + Len(aborting) + Len(scheduled)

\* The queue is a run of transactions that ends with the one accepted last.
QueueFacts ==
    /\ OpenCount \in Nat /\ issued \in Nat /\ OpenCount <= issued
    /\ Queue \in Seq(Transactions) /\ Len(Queue) = OpenCount
    /\ \A i \in 1..OpenCount : Queue[i] = issued - OpenCount + i
    /\ \A t \in Transactions : outcome[t] = Open <=> t > issued - OpenCount

LEMMA QueueIs == TypeOK /\ OrderInv => QueueFacts
<1> SUFFICES ASSUME TypeOK, OrderInv PROVE QueueFacts
  OBVIOUS
<1> USE DEF QueueFacts
<1>1. /\ scheduled \in Seq(Transactions) /\ aborting \in Seq(Transactions)
      /\ issued \in Nat /\ Len(scheduled) \in Nat /\ Len(aborting) \in Nat
  BY DEF TypeOK
<1>2. CASE pending_transaction # Null
  <2>1. PICK p \in Transactions : p = pending_transaction
    BY <1>2 DEF TypeOK
  <2>2. p = issued - Len(scheduled) /\ aborting = <<>> /\ Len(aborting) = 0
    BY <2>1, <1>2 DEF OrderInv
  <2>3. Pending = <<p>> /\ Len(Pending) = 1
    BY <1>2, <2>1 DEF Pending
  <2>4. <<p>> \in Seq(Transactions) /\ <<p>> \o <<>> = <<p>>
    OBVIOUS
  <2>5. Queue = <<p>> \o scheduled
    BY <2>2, <2>3, <2>4 DEF Queue
  <2>6. PICK n \in Nat : n = Len(scheduled)
    BY <1>1
  <2>7. PICK q : q = <<p>> \o scheduled
    OBVIOUS
  <2>8. q \in Seq(Transactions) /\ Len(q) = 1 + n
        /\ q[1] = p /\ \A i \in 1..n : q[1 + i] = scheduled[i]
    <3>1. PICK one : one = <<p>>
      OBVIOUS
    <3>2. one \in Seq(Transactions) /\ Len(one) = 1 /\ one[1] = p
      BY <3>1
    <3>3. one \in Seq(Transactions) /\ scheduled \in Seq(Transactions)
      BY <1>1, <3>2
    <3>4. /\ one \o scheduled \in Seq(Transactions)
          /\ Len(one \o scheduled) = Len(one) + Len(scheduled)
          /\ \A i \in 1..Len(one) : (one \o scheduled)[i] = one[i]
          /\ \A i \in 1..Len(scheduled) : (one \o scheduled)[Len(one) + i] = scheduled[i]
      BY <3>3, JoinIs
    <3>5. q = one \o scheduled
      BY <2>7, <3>1
    <3>6. QED
      BY <2>6, <3>2, <3>4, <3>5
  <2>9. OpenCount = 1 + n
    BY <2>2, <2>3, <2>6 DEF OpenCount
  <2>10. n <= issued /\ n <= MaxScheduled /\ \A i \in 1..n : scheduled[i] = issued - n + i
    BY <2>6 DEF OrderInv, EndsWithLast
  <2>11. p \in Nat \ {0} /\ p = issued - n
    BY <2>2, <2>6 DEF Transactions
  <2>12. ASSUME NEW i \in 1..(1 + n) PROVE q[i] = issued - (1 + n) + i
    <3>1. CASE i = 1
      BY <1>1, <2>8, <2>11, <3>1
    <3>2. CASE i # 1
      <4>1. PICK k \in 1..n : i = 1 + k
        <5>1. PICK k \in 1..n : k = i - 1
          BY <3>2
        <5>2. QED
          BY <5>1
      <4>2. q[1 + k] = issued - n + k
        BY <2>8, <2>10
      <4>3. issued - n + k = issued - (1 + n) + (1 + k)
        BY <1>1
      <4>4. QED
        BY <4>1, <4>2, <4>3
    <3>3. QED
      BY <3>1, <3>2
  <2>13. \A t \in Transactions : outcome[t] = Open <=> t > issued - (1 + n)
    BY <1>1, <2>1, <2>2, <2>6, <2>11 DEF OrderInv, Transactions
  <2>14. QED
    BY <1>1, <2>5, <2>7, <2>8, <2>9, <2>10, <2>11, <2>12, <2>13
<1>3. CASE pending_transaction = Null
  <2>1. Pending = <<>> /\ Len(Pending) = 0
    BY <1>3 DEF Pending
  <2>2. PICK q \in {aborting, scheduled} :
           Queue = q /\ OpenCount = Len(q) /\ Len(q) = Len(aborting) + Len(scheduled)
    <3>1. <<>> \o aborting = aborting
      BY <1>1, ConcatEmptySeq
    <3>2. Queue = aborting \o scheduled
      BY <2>1, <3>1 DEF Queue
    <3>3. CASE aborting = <<>>
      <4>1. <<>> \o scheduled = scheduled
        BY <1>1, ConcatEmptySeq
      <4>2. QED
        BY <1>1, <2>1, <3>2, <3>3, <4>1 DEF OpenCount
    <3>4. CASE aborting # <<>>
      <4>1. scheduled = <<>> /\ Len(scheduled) = 0
        BY <3>4 DEF OrderInv
      <4>2. aborting \o <<>> = aborting
        BY <1>1, ConcatEmptySeq
      <4>3. QED
        BY <1>1, <2>1, <3>2, <4>1, <4>2 DEF OpenCount
    <3>5. QED
      BY <3>3, <3>4
  <2>3. EndsWithLast(q) /\ q \in Seq(Transactions)
    BY <1>1 DEF OrderInv
  <2>4. \A t \in Transactions : outcome[t] = Open <=> t > issued - OpenCount
    <3>1. \A t \in Transactions : t # pending_transaction
      BY <1>3 DEF Null, Transactions
    <3>2. issued - OpenCount = issued - Len(scheduled) - Len(aborting)
      BY <1>1, <2>2
    <3>3. QED
      BY <3>1, <3>2 DEF OrderInv
  <2>5. QED
    BY <1>1, <2>2, <2>3, <2>4 DEF EndsWithLast
<1>4. QED
  BY <1>2, <1>3

\* So it is in the next state.
LEMMA QueueIsNext == TypeOK' /\ OrderInv' => QueueFacts'
  BY QueueIs, PTL

PendingCount == IF pending_transaction = Null THEN 0 ELSE 1

LEMMA OpenCountIs ==
    /\ OpenCount = PendingCount + Len(aborting) + Len(scheduled)
    /\ OpenCount' = PendingCount' + Len(aborting') + Len(scheduled')
  BY DEF OpenCount, Pending, PendingCount

\* Nothing ends and nothing is accepted.
LEMMA ContractQuiet ==
    ASSUME TypeOK, OrderInv, TypeOK', OrderInv', UNCHANGED <<issued, outcome>>,
           OpenCount' = OpenCount
    PROVE  UNCHANGED <<Queue, Status>>
<1>1. Status' = Status
  BY DEF Status
<1>2. PICK q : q = Queue
  OBVIOUS
<1>3. PICK r : r = Queue'
  OBVIOUS
<1>4. PICK n \in Nat : n = OpenCount
  BY QueueIs DEF QueueFacts
<1>5. q \in Seq(Transactions) /\ Len(q) = n /\ \A i \in 1..n : q[i] = issued - n + i
  BY <1>2, <1>4, QueueIs DEF QueueFacts
<1>6. r \in Seq(Transactions) /\ Len(r) = n /\ \A i \in 1..n : r[i] = issued - n + i
  BY <1>3, <1>4, QueueIsNext DEF QueueFacts
<1>7. r = q
  BY <1>5, <1>6, SeqEqual
<1>8. QED
  BY <1>1, <1>2, <1>3, <1>7

\* The first open transaction ends.
LEMMA ContractComplete ==
    ASSUME TypeOK, OrderInv, TypeOK', OrderInv', issued' = issued,
           NEW t \in Transactions, t = issued - OpenCount + 1,
           NEW result \in Results, outcome' = [outcome EXCEPT ![t] = result],
           OpenCount' = OpenCount - 1
    PROVE  Contract!Complete(t, result)
<1>1. PICK q : q = Queue
  OBVIOUS
<1>2. PICK r : r = Queue'
  OBVIOUS
<1>3. PICK n \in Nat : n = OpenCount
  BY QueueIs DEF QueueFacts
<1>4. /\ q \in Seq(Transactions) /\ Len(q) = n /\ \A i \in 1..n : q[i] = issued - n + i
      /\ issued \in Nat /\ n <= issued
  BY <1>1, <1>3, QueueIs DEF QueueFacts
<1>5. /\ r \in Seq(Transactions) /\ Len(r) = n - 1 /\ n - 1 \in Nat
      /\ \A i \in 1..(n - 1) : r[i] = issued - (n - 1) + i
  BY <1>2, <1>3, QueueIsNext DEF QueueFacts
<1>6. q # <<>>
  BY <1>4, <1>5
<1>7. /\ Head(q) = q[1] /\ Tail(q) \in Seq(Transactions) /\ Len(Tail(q)) = n - 1
      /\ \A i \in 1..(n - 1) : Tail(q)[i] = q[i + 1]
  BY <1>4, <1>6, TailIs
<1>8. Head(q) = t
  BY <1>3, <1>4, <1>5, <1>7
<1>9. \A i \in 1..(n - 1) : Tail(q)[i] = r[i]
  <2>1. \A i \in 1..(n - 1) : i + 1 \in 1..n /\ issued - n + (i + 1) = issued - (n - 1) + i
    BY <1>4
  <2>2. QED
    BY <1>4, <1>5, <1>7, <2>1
<1>10. PICK rest : rest = Tail(q)
  OBVIOUS
<1>11. r = rest
  BY <1>5, <1>7, <1>9, <1>10, SeqEqual
<1>12. Status' = [Status EXCEPT ![t] = result]
  <2>1. result # Open
    BY DEF Results, Open
  <2>2. \A u \in Transactions : outcome'[u] = IF u = t THEN result ELSE outcome[u]
    BY DEF TypeOK
  <2>3. Status' = [u \in Transactions |-> IF u = t THEN result ELSE Status[u]]
    BY <2>1, <2>2 DEF Status
  <2>4. Status = [u \in Transactions |-> Status[u]]
    BY DEF Status
  <2>5. QED
    BY <2>3, <2>4
<1>13. Queue # <<>> /\ t = Head(Queue) /\ Queue' = Tail(Queue)
  BY <1>1, <1>2, <1>6, <1>8, <1>10, <1>11
<1>14. QED
  BY <1>12, <1>13 DEF Contract!Complete, Queue, Status

\* A transaction is accepted.
LEMMA ContractAccept ==
    ASSUME TypeOK, OrderInv, TypeOK', OrderInv', ControlInv, Transact
    PROVE  Contract!Next
<1>1. /\ issued' = issued + 1 /\ issued \in Nat /\ issued' \in Transactions
      /\ UNCHANGED <<outcome, pending_transaction, aborting>>
      /\ Len(scheduled') = Len(scheduled) + 1 /\ Len(scheduled) < MaxScheduled
      /\ Len(scheduled) \in Nat /\ Len(aborting) = 0
  <2>1. issued' \in Transactions
    BY DEF TypeOK, Transact, Transactions
  <2>2. Len(scheduled') = Len(scheduled) + 1
    BY <2>1, AppendProperties DEF TypeOK, Transact
  <2>3. Len(aborting) = 0
    BY DEF ControlInv, Transact
  <2>4. QED
    BY <2>1, <2>2, <2>3 DEF TypeOK, Transact, pendingVars
<1>2. PICK q : q = Queue
  OBVIOUS
<1>3. PICK r : r = Queue'
  OBVIOUS
<1>4. PICK n \in Nat : n = OpenCount
  BY QueueIs DEF QueueFacts
<1>5. PICK t \in Transactions : t = issued + 1
  BY <1>1
<1>6. OpenCount' = n + 1 /\ n < MaxScheduled + 1
  <2>1. PendingCount \in {0, 1} /\ PendingCount' = PendingCount
    BY <1>1 DEF PendingCount
  <2>2. n = PendingCount + Len(aborting) + Len(scheduled)
        /\ OpenCount' = PendingCount' + Len(aborting') + Len(scheduled')
    BY <1>4, OpenCountIs
  <2>3. QED
    BY <1>1, <2>1, <2>2
<1>7. /\ q \in Seq(Transactions) /\ Len(q) = n /\ \A i \in 1..n : q[i] = issued - n + i
      /\ \A u \in Transactions : outcome[u] = Open <=> u > issued - n
  BY <1>2, <1>4, QueueIs DEF QueueFacts
<1>8. /\ r \in Seq(Transactions) /\ Len(r) = n + 1
      /\ \A i \in 1..(n + 1) : r[i] = issued' - (n + 1) + i
  BY <1>3, <1>6, QueueIsNext DEF QueueFacts
<1>9. PICK s : s = Append(q, t)
  OBVIOUS
<1>10. s \in Seq(Transactions) /\ Len(s) = n + 1
       /\ \A i \in 1..(n + 1) : s[i] = issued' - (n + 1) + i
  <2>1. s \in Seq(Transactions) /\ Len(s) = n + 1 /\ (\A i \in 1..n : s[i] = q[i])
        /\ s[n + 1] = t
    BY <1>7, <1>9, AppendProperties
  <2>2. \A i \in 1..n : issued - n + i = issued' - (n + 1) + i
    BY <1>1
  <2>3. t = issued' - (n + 1) + (n + 1)
    BY <1>1, <1>5
  <2>4. QED
    BY <1>7, <2>1, <2>2, <2>3
<1>11. r = s
  BY <1>8, <1>10, SeqEqual
<1>12. outcome[t] = Open /\ ~(t <= issued)
  BY <1>1, <1>5, <1>7
<1>13. Status[t] = "unused"
  BY <1>12 DEF Status
<1>14. Status' = [Status EXCEPT ![t] = "open"]
  <2>1. \A u \in Transactions : u # t => (u <= issued' <=> u <= issued)
    BY <1>1, <1>5 DEF Transactions
  <2>2. t <= issued'
    BY <1>1, <1>5
  <2>3. Status' = [u \in Transactions |-> IF u = t THEN "open" ELSE Status[u]]
    BY <1>1, <1>12, <2>1, <2>2 DEF Status
  <2>4. Status = [u \in Transactions |-> Status[u]]
    BY DEF Status
  <2>5. QED
    BY <2>3, <2>4
<1>15. Len(Queue) < MaxScheduled + 1 /\ Queue' = Append(Queue, t)
  BY <1>2, <1>3, <1>6, <1>7, <1>9, <1>11
<1>16. Contract!Accept(t)
  BY <1>13, <1>14, <1>15 DEF Contract!Accept, Queue, Status
<1>17. QED
  BY <1>16 DEF Contract!Next

LEMMA ContractInit == Init => Contract!Init
<1> SUFFICES ASSUME Init PROVE Contract!Init
  OBVIOUS
<1>1. Pending \o aborting \o scheduled = <<>>
  BY ConcatEmptySeq, EmptySeq DEF Init, Pending
<1>2. Status = [t \in Transactions |-> "unused"]
  BY DEF Init, Status, Transactions
<1>3. QED
  BY <1>1, <1>2 DEF Contract!Init, Status

\* The pending transaction ends, as the oldest one.
LEMMA ContractFinish ==
    ASSUME TypeOK, OrderInv, TypeOK', OrderInv', UNCHANGED <<scheduled, aborting, issued>>,
           NEW result \in Results, NEW next, FinishPending(result, next)
    PROVE  Contract!Next
<1>1. PICK t \in Transactions : t = pending_transaction
  BY DEF TypeOK, FinishPending
<1>2. /\ outcome' = [outcome EXCEPT ![t] = result] /\ pending_transaction' = Null
      /\ t # Null /\ t = issued - Len(scheduled) /\ Len(aborting) = 0
  BY <1>1 DEF FinishPending, CallBack, ClearPending, OrderInv
<1>3. Len(scheduled) \in Nat /\ issued \in Nat
  BY DEF TypeOK
<1>4. OpenCount = 1 + Len(scheduled) /\ OpenCount' = Len(scheduled)
  <2>1. PendingCount = 1 /\ PendingCount' = 0
    BY <1>1, <1>2 DEF PendingCount
  <2>2. QED
    BY <1>2, <1>3, <2>1, OpenCountIs
<1>5. t = issued - OpenCount + 1 /\ OpenCount' = OpenCount - 1
  BY <1>2, <1>3, <1>4
<1>6. Contract!Complete(t, result)
  BY <1>2, <1>5, ContractComplete
<1>7. QED
  BY <1>6 DEF Contract!Next

\* The first scheduled transaction is sent, or ends.
LEMMA ContractSend ==
    ASSUME TypeOK, OrderInv, TypeOK', OrderInv', Send
    PROVE  Contract!Next \/ UNCHANGED <<Queue, Status>>
<1>1. PICK n \in Nat \ {0} : n = Len(scheduled)
  BY TailIs DEF TypeOK, Send
<1>2. PICK h \in Transactions : h = Head(scheduled)
  BY TailIs DEF TypeOK, Send
<1>3. Len(scheduled') = n - 1 /\ UNCHANGED <<issued, aborting>> /\ issued \in Nat
  BY <1>1, TailIs DEF TypeOK, Send
<1>4. h = issued - n + 1
  <2>1. h = scheduled[1] /\ 1 \in 1..n
    BY <1>1, <1>2, TailIs DEF TypeOK, Send
  <2>2. QED
    BY <1>1, <1>3, <2>1 DEF OrderInv, EndsWithLast
<1>5. Len(aborting) = 0
  BY DEF Send, OrderInv
<1>6. PendingCount = 0 /\ OpenCount = n
  <2>1. PendingCount = 0
    BY DEF Send, PendingCount
  <2>2. QED
    BY <1>1, <1>5, <2>1, OpenCountIs
<1>7. OpenCount' = PendingCount' + Len(aborting') + Len(scheduled') /\ Len(aborting') = 0
  BY <1>3, <1>5, OpenCountIs
<1>8. CASE pending_transaction' = h /\ UNCHANGED outcome
  <2>1. PendingCount' = 1
    BY <1>8 DEF PendingCount, Null, Transactions
  <2>2. OpenCount' = OpenCount
    BY <1>3, <1>5, <1>6, <1>7, <2>1
  <2>3. QED
    BY <1>3, <1>8, <2>2, ContractQuiet
<1>9. CASE pending_transaction' = Null /\ outcome' = [outcome EXCEPT ![h] = "SendFailed"]
  <2>1. PendingCount' = 0
    BY <1>9 DEF PendingCount
  <2>2. OpenCount' = OpenCount - 1
    BY <1>3, <1>5, <1>6, <1>7, <2>1
  <2>3. h = issued - OpenCount + 1
    BY <1>4, <1>6
  <2>4. Contract!Complete(h, "SendFailed")
    BY <1>3, <1>9, <2>2, <2>3, ContractComplete, NamedTypes
  <2>5. QED
    BY <2>4, NamedTypes DEF Contract!Next
<1>10. QED
  BY <1>2, <1>8, <1>9 DEF Send, CallBack, ClearPending

\* The first of the transactions that were taken from the queue is aborted.
LEMMA ContractAbort ==
    ASSUME TypeOK, OrderInv, ControlInv, TypeOK', OrderInv', AbortNext
    PROVE  Contract!Next
<1>1. /\ aborting # <<>> /\ aborting' = Tail(aborting) /\ pending_transaction = Null
      /\ scheduled = <<>> /\ UNCHANGED <<pending_transaction, scheduled, issued>>
  BY DEF AbortNext, OrderInv, ControlInv, At, pendingVars
<1>2. PICK n \in Nat \ {0} : n = Len(aborting)
  BY <1>1, TailIs DEF TypeOK
<1>3. PICK h \in Transactions : h = Head(aborting)
  BY <1>1, TailIs DEF TypeOK
<1>4. Len(aborting') = n - 1 /\ Len(scheduled) = 0 /\ Len(scheduled') = 0 /\ issued \in Nat
  BY <1>1, <1>2, TailIs DEF TypeOK
<1>5. h = issued - n + 1
  <2>1. h = aborting[1] /\ 1 \in 1..n
    BY <1>1, <1>2, <1>3, TailIs DEF TypeOK
  <2>2. QED
    BY <1>2, <1>4, <2>1 DEF OrderInv, EndsWithLast
<1>6. OpenCount = n /\ OpenCount' = n - 1
  <2>1. PendingCount = 0 /\ PendingCount' = 0
    BY <1>1 DEF PendingCount
  <2>2. QED
    BY <1>2, <1>4, <2>1, OpenCountIs
<1>7. h = issued - OpenCount + 1 /\ OpenCount' = OpenCount - 1
  BY <1>5, <1>6
<1>8. outcome' = [outcome EXCEPT ![h] = "Aborted"]
  BY <1>3 DEF AbortNext, CallBack
<1>9. Contract!Complete(h, "Aborted")
  BY <1>1, <1>7, <1>8, ContractComplete, NamedTypes
<1>10. QED
  BY <1>9, NamedTypes DEF Contract!Next

\* Each step is one of the contract, or none.
LEMMA ContractStep ==
    ASSUME IInv, IInv', [Next]_vars
    PROVE  Contract!Next \/ UNCHANGED <<Queue, Status>>
<1> USE DEF IInv
<1>1. CASE Connect \/ Disconnect \/ Tick \/ CallbackReturns \/ NothingToSend \/ Loop
             \/ RecvSome \/ RecvNothing \/ AppendTrailing \/ NoTrailing \/ IgnoreResponse
             \/ Close \/ Closed \/ Answer \/ Elapse \/ UNCHANGED vars
  <2>1. UNCHANGED <<pending_transaction, scheduled, aborting, issued, outcome>>
    BY <1>1 DEF pendingVars, vars, Connect, Disconnect, Tick, CallbackReturns,
       NothingToSend, Loop, RecvSome, RecvNothing, AppendTrailing, NoTrailing, IgnoreResponse,
       Close, Closed, Answer, Elapse
  <2>2. OpenCount' = OpenCount
    BY <2>1 DEF OpenCount, Pending
  <2>3. QED
    BY <2>1, <2>2, ContractQuiet
<1>2. CASE TickHook \/ RecvHook \/ RecvFails \/ TrailingFails \/ ResponseTooShort
             \/ AbortPending \/ CheckHeader \/ FinishResponse
  <2>1. UNCHANGED <<scheduled, aborting, issued>>
    BY <1>2 DEF TickHook, RecvHook, RecvFails, TrailingFails, ResponseTooShort, AbortPending,
       CheckHeader, FinishResponse
  <2>2. \/ UNCHANGED <<pendingVars, outcome>>
        \/ \E result \in Results : \E next \in Resumes : FinishPending(result, next)
    BY <1>2, NamedTypes DEF TickHook, RecvHook, CheckTimeout, RecvFails, TrailingFails,
       ResponseTooShort, AbortPending, CheckHeader, FinishResponse, FinishMatching,
       NothingPending
  <2>3. CASE UNCHANGED <<pendingVars, outcome>>
    <3>1. OpenCount' = OpenCount
      BY <2>1, <2>3 DEF OpenCount, Pending, pendingVars
    <3>2. QED
      BY <2>1, <2>3, <3>1, ContractQuiet
  <2>4. CASE \E result \in Results : \E next \in Resumes : FinishPending(result, next)
    BY <2>1, <2>4, ContractFinish
  <2>5. QED
    BY <2>2, <2>3, <2>4
<1>3. CASE TakeScheduled
  <2>1. /\ pending_transaction = Null /\ aborting = <<>> /\ aborting' = scheduled
        /\ scheduled' = <<>> /\ UNCHANGED <<pending_transaction, issued, outcome>>
    BY <1>3 DEF TakeScheduled, ControlInv, At, pendingVars
  <2>2. OpenCount' = OpenCount
    <3>1. Len(scheduled) \in Nat /\ Len(aborting) = 0 /\ Len(scheduled') = 0
      BY <2>1 DEF TypeOK
    <3>2. PendingCount \in {0, 1} /\ PendingCount' = PendingCount
      BY <2>1 DEF PendingCount
    <3>3. QED
      BY <2>1, <3>1, <3>2, OpenCountIs
  <2>3. QED
    BY <2>1, <2>2, ContractQuiet
<1>4. CASE Transact \/ Send \/ AbortNext
  BY <1>4, ContractAccept, ContractSend, ContractAbort
<1>5. QED
  BY <1>1, <1>2, <1>3, <1>4 DEF Next, UserStep, LibraryStep

\* Accepted transactions end once and in order: the client implements its contract.
THEOREM ContractKept == Spec => ImplementsContract
<1>1. IInv /\ IInv' /\ [Next]_vars => [Contract!Next]_<<Queue, Status>>
  BY ContractStep
<1>2. Init => Contract!Init
  BY ContractInit
<1>3. Spec => Contract!Init /\ [][Contract!Next]_<<Queue, Status>>
  BY <1>1, <1>2, Invariance, PTL DEF Spec
<1>4. QED
  BY <1>3, PTL DEF ImplementsContract, Contract!Spec, Queue, Status
=============================================================================
