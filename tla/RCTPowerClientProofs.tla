----------------------- MODULE RCTPowerClientProofs ---------------------------
(* Proofs about RCTPowerClient, for every number of reads and frames, every *)
(* capacity of the queue, and ids, values, checksums and foreign frames of  *)
(* any bytes.                                                               *)
EXTENDS RCTPowerClient, SequenceTheorems, WellFoundedInduction, TLAPS

USE CountsAssumption DEF issued

-----------------------------------------------------------------------------
(* The inductive invariant.                                                *)

\* Where the library is, or goes on from when the callback returns.
At == IF pc = "user" THEN after ELSE pc

\* The connection, and what there is of reads and of the stream, by place.
ControlInv ==
    /\ pc # "user" => after = "main"
    /\ At \in {"tick_hook", "send", "recv", "judge", "disconnect"} => connected
    /\ At \in {"close_hook", "finish_all", "abort"} => ~connected
    /\ ~connected => /\ pending_response = <<>> /\ wait_for_start /\ last_received_byte = 0
                     /\ stream = <<>> /\ requests = {} /\ frames = <<>>
    /\ ~connected /\ At # "close_hook" => pending = Null
    /\ ~connected /\ At \notin {"close_hook", "finish_all"} => scheduled = <<>>
    /\ At # "abort" => aborting = <<>>

\* A list of reads that ends with the one accepted last.
EndsWithLast(list) ==
    /\ Len(list) <= issued
    /\ \A i \in 1..Len(list) : list[i] = issued - Len(list) + i

\* The open reads are the last ones accepted, in order.
OrderInv ==
    /\ EndsWithLast(scheduled)
    /\ EndsWithLast(aborting)
    /\ Len(scheduled) <= MaxScheduled
    /\ aborting # <<>> => scheduled = <<>>
    /\ pending # Null => pending = issued - Len(scheduled) /\ aborting = <<>>
    /\ \A t \in Reads :
           outcome[t] = Open <=> \/ t > issued - Len(scheduled) - Len(aborting)
                                 \/ t = pending

\* What is stored of a frame is of a response, and full where it is judged.
ResponseInv ==
    /\ pc = "judge" <=> Len(pending_response) = ResponseLength
    /\ wait_for_start => pending_response = <<>>
    /\ Len(pending_response) >= 1 => pending_response[1].byte = Response
    /\ Len(pending_response) >= 2 => pending_response[2].byte = Length

\* The frame is a response to a read that was sent, with a checksum right or wrong.
Answers(f) ==
    /\ f.to \in requests
    /\ Len(f.data) = ResponseLength
    /\ f.data[1] = Response /\ f.data[2] = Length /\ f.data[3] = ids[f.to]

PeerInv ==
    /\ \A t \in requests : t <= issued - Len(scheduled)
    /\ \A n \in 1..Len(frames) : Answers(frames[n]) \/ frames[n].data \in Foreign

\* Some frame is none the decoder can tell apart.
SomeConfusing(fs) == \E n \in 1..Len(fs) : ~IsDecodable(fs[n].data)

\* b, after prev, is a byte of the frame with these data.
Fits(b, prev, data) ==
    /\ b.pos \in 0..Len(data)
    /\ b.pos = 0 => b.byte = Plus /\ ~b.escape
    /\ b.pos # 0 =>
           IF b.escape THEN b.byte = Minus /\ data[b.pos] \in {Plus, Minus}
           ELSE b.byte = data[b.pos] /\ (b.byte \in {Plus, Minus} => prev = Minus)

\* c comes after b.
Leads(b, data, c) ==
    IF b.escape THEN c = Byte(b.frame, b.pos, data[b.pos])
    ELSE IF b.pos < Len(data) THEN c.frame = b.frame /\ c.pos = b.pos + 1
    ELSE c.pos = 0

\* b is the last byte of its frame.
Ends(b, data) == ~b.escape /\ b.pos = Len(data)

Prior(s, prev, i) == IF i = 1 THEN prev ELSE s[i - 1].byte

\* b, between prev and c, or after prev at the end, is in its place in its frame; only
\* after a confusing frame is a start byte taken for data.
Right(b, prev, last, c, fs) ==
    /\ b.frame \in 1..Len(fs)
    /\ Fits(b, prev, fs[b.frame].data)
    /\ b.pos = 0 /\ prev = Minus => SomeConfusing(fs)
    /\ IF last THEN Ends(b, fs[b.frame].data) ELSE Leads(b, fs[b.frame].data, c)

\* The bytes of s, after prev, are the rest of a frame and whole frames, all of fs.
InFrames(s, prev, fs) ==
    \A i \in 1..Len(s) : Right(s[i], Prior(s, prev, i), i = Len(s), s[i + 1], fs)

\* The decoder can tell apart the first k bytes of the data.
Clear(data, k) == \A p \in 1..k : data[p] = Minus => data[p + 1] \notin {Plus, Minus}

\* What is stored is of one frame, and its data up to where they are confusing.
BeginsFrame(response) ==
    \A n \in 1..Len(response) :
        LET f == response[1].frame IN
        /\ f \in 1..Len(frames)
        /\ response[n].frame = f
        /\ Clear(frames[f].data, n - 1) =>
               n <= Len(frames[f].data) /\ response[n] = Byte(f, n, frames[f].data[n])

\* The next byte is of the frame that is stored, and the one the decoder waits for, if
\* the frame is not confusing up to there.
GoesOn(next) ==
    IF pc = "judge" THEN AllDecodable => next.pos = 0
    ELSE IF wait_for_start
    THEN AllDecodable => next.pos = 0 \/ IsSkipped(frames[next.frame].data)
    ELSE /\ next.pos \in 1..(Len(pending_response) + 1)
         /\ pending_response # <<>> => pending_response[1].frame = next.frame
         /\ Clear(frames[next.frame].data, Len(pending_response)) =>
                /\ next.pos = Len(pending_response) + 1
                /\ next.escape => last_received_byte # Minus

\* Where the decoder is in the stream, whatever the frames are.
PlaceInv ==
    /\ InFrames(stream, last_received_byte, frames)
    /\ BeginsFrame(pending_response)
    /\ stream = <<>> => /\ last_received_byte = Minus => ~AllDecodable
                        /\ pc # "judge" => wait_for_start
    /\ stream # <<>> => GoesOn(stream[1])

IInv == TypeOK /\ ControlInv /\ OrderInv /\ ResponseInv /\ PeerInv /\ PlaceInv

-----------------------------------------------------------------------------
(* Induction.  The library's theorem for it takes a predicate; these are   *)
(* about sets.                                                             *)

LEMMA LeastOf ==
    ASSUME NEW T \in SUBSET Nat, T # {}
    PROVE  \E x \in T : \A y \in T : x <= y
  <1> DEFINE R == {ss \in Nat \X Nat : ss[1] < ss[2]}
  <1>1. IsWellFoundedOn(R, Nat)
    BY NatLessThanWellFounded DEF OpToRel
  <1>2. PICK x \in T : \A y \in T : ~(<<y, x>> \in R)
    <2> HIDE DEF R
    <2> QED
      BY <1>1, WFMin
  <1>3. \A y \in T : ~(y < x)
    BY <1>2
  <1> QED
    BY <1>3

LEMMA SetInduction ==
    ASSUME NEW S \in SUBSET Nat, 0 \in S, \A n \in S : n + 1 \in S
    PROVE  \A n \in Nat : n \in S
  <1> SUFFICES ASSUME NEW n \in Nat, n \notin S PROVE FALSE
    OBVIOUS
  <1> DEFINE T == Nat \ S
  <1>1. PICK x \in T : \A y \in T : x <= y
    <2>1. T \in SUBSET Nat /\ T # {}
      OBVIOUS
    <2> HIDE DEF T
    <2> QED
      BY <2>1, LeastOf
  <1>2. x # 0 /\ x \in Nat
    BY <1>1
  <1>3. x - 1 \in S
    BY <1>1, <1>2
  <1> QED
    BY <1>1, <1>2, <1>3

-----------------------------------------------------------------------------
(* Sequences.                                                              *)

\* What Head and Tail make of a sequence.
LEMMA TailIs ==
    ASSUME NEW S, NEW s \in Seq(S), s # <<>>
    PROVE  /\ Len(s) \in Nat \ {0} /\ Head(s) = s[1] /\ Head(s) \in S
           /\ Tail(s) \in Seq(S) /\ Len(Tail(s)) = Len(s) - 1
           /\ \A i \in 1..Len(Tail(s)) : Tail(s)[i] = s[i + 1]
  BY HeadTailProperties, EmptySeq

LEMMA JoinIs ==
    ASSUME NEW S, NEW r \in Seq(S), NEW s \in Seq(S)
    PROVE  /\ r \o s \in Seq(S) /\ Len(r \o s) = Len(r) + Len(s)
           /\ \A i \in 1..Len(r) : (r \o s)[i] = r[i]
           /\ \A i \in 1..Len(s) : (r \o s)[Len(r) + i] = s[i]
  BY ConcatProperties

LEMMA BytesAssociate ==
    ASSUME NEW u \in Seq(Bytes), NEW v \in Seq(Bytes), NEW w \in Seq(Bytes)
    PROVE  (u \o v) \o w = u \o (v \o w)
  BY ConcatAssociative

-----------------------------------------------------------------------------
(* The frames of the peer.                                                 *)

\* What is sent of the data from place pos on, before the rest.
Part(n, data, pos) ==
    (IF data[pos] \in {Plus, Minus} THEN <<Escape(n, pos)>> ELSE <<>>)
        \o <<Byte(n, pos, data[pos])>>

\* f gives, for each place from k on, what is sent from there on.
Sends(f, n, data, k) ==
    /\ f \in [k..(Len(data) + 1) -> Seq(Bytes)]
    /\ f[Len(data) + 1] = <<>>
    /\ \A pos \in k..Len(data) : f[pos] = Part(n, data, pos) \o f[pos + 1]

LEMMA ByteType ==
    ASSUME NEW n \in Nat \ {0}, NEW pos \in Nat, NEW byte \in 0..255
    PROVE  Byte(n, pos, byte) \in Bytes /\ Escape(n, pos) \in Bytes
  BY DEF Byte, Escape, Bytes, Minus

LEMMA PartType ==
    ASSUME NEW n \in Nat \ {0}, NEW data \in Seq(0..255), NEW pos \in 1..Len(data)
    PROVE  Part(n, data, pos) \in Seq(Bytes)
<1>1. data[pos] \in 0..255 /\ pos \in Nat
  <2>1. pos \in Nat
    OBVIOUS
  <2>2. data[pos] \in 0..255
    BY ElementOfSeq
  <2>3. QED
    BY <2>1, <2>2
<1>2. Escape(n, pos) \in Bytes /\ Byte(n, pos, data[pos]) \in Bytes
  BY <1>1, ByteType
<1>3. QED
  BY <1>2 DEF Part

LEMMA SendsExist ==
    ASSUME NEW n \in Nat \ {0}, NEW data \in Seq(0..255)
    PROVE  \E f : Sends(f, n, data, 1)
<1>1. PICK m \in Nat : m = Len(data)
  OBVIOUS
<1> DEFINE S == {k \in Nat : k <= m => \E f : Sends(f, n, data, m + 1 - k)}
<1>2. 0 \in S
  <2>1. Sends([pos \in (m + 1)..(m + 1) |-> <<>>], n, data, m + 1)
    BY <1>1, EmptySeq DEF Sends
  <2>2. QED
    BY <2>1
<1>3. ASSUME NEW k \in S PROVE k + 1 \in S
  <2> SUFFICES ASSUME k + 1 <= m PROVE \E f : Sends(f, n, data, m - k)
    OBVIOUS
  <2>1. k \in Nat /\ m - k \in 1..m
    OBVIOUS
  <2>2. PICK f : Sends(f, n, data, m + 1 - k)
    BY <2>1
  <2> DEFINE p == m - k
             g == [pos \in p..(m + 1) |->
                      IF pos = p THEN Part(n, data, p) \o f[p + 1] ELSE f[pos]]
  <2>3. p \in 1..m /\ p + 1 = m + 1 - k /\ p + 1 \in (p + 1)..(m + 1)
    BY <2>1
  <2> HIDE DEF p
  <2>4. f \in [(p + 1)..(m + 1) -> Seq(Bytes)] /\ f[m + 1] = <<>>
        /\ \A pos \in (p + 1)..m : f[pos] = Part(n, data, pos) \o f[pos + 1]
    BY <1>1, <2>2, <2>3 DEF Sends
  <2>5. Part(n, data, p) \o f[p + 1] \in Seq(Bytes)
    <3>1. Part(n, data, p) \in Seq(Bytes) /\ f[p + 1] \in Seq(Bytes)
      BY <1>1, <2>3, <2>4, PartType
    <3>2. QED
      BY <3>1
  <2>6. g \in [p..(m + 1) -> Seq(Bytes)] /\ g[m + 1] = <<>>
    BY <2>3, <2>4, <2>5
  <2>7. ASSUME NEW pos \in p..m PROVE g[pos] = Part(n, data, pos) \o g[pos + 1]
    <3>1. pos + 1 \in p..(m + 1) /\ pos + 1 # p
      BY <2>3
    <3>2. g[pos + 1] = f[pos + 1]
      BY <3>1
    <3>3. CASE pos = p
      <4>1. p \in p..(m + 1) /\ p + 1 # p
        BY <2>3
      <4>2. g[p] = Part(n, data, p) \o f[p + 1]
        BY <4>1
      <4>3. QED
        BY <3>2, <3>3, <4>2
    <3>4. CASE pos # p
      <4>1. pos \in (p + 1)..m /\ pos \in p..(m + 1)
        BY <2>3, <3>4
      <4>2. g[pos] = f[pos]
        BY <3>4, <4>1
      <4>3. QED
        BY <2>4, <3>2, <4>1, <4>2
    <3>5. QED
      BY <3>3, <3>4
  <2> HIDE DEF g
  <2>8. Sends(g, n, data, p)
    BY <1>1, <2>6, <2>7 DEF Sends
  <2>9. QED
    BY <2>8 DEF p
<1>4. \A k \in Nat : k \in S
  <2>1. S \in SUBSET Nat
    OBVIOUS
  <2> HIDE DEF S
  <2>2. QED
    BY <1>2, <1>3, <2>1, SetInduction
<1>5. m \in S
  BY <1>4
<1>6. QED
  BY <1>1, <1>5

\* The recursive function in Escaped is one of these.
LEMMA EscapedIs ==
    ASSUME NEW n \in Nat \ {0}, NEW data \in Seq(0..255)
    PROVE  \E f : Sends(f, n, data, 1) /\ Escaped(n, data) = <<Byte(n, 0, Plus)>> \o f[1]
<1>1. PICK m \in Nat : m = Len(data)
  OBVIOUS
<1> DEFINE Step(f) == [pos \in 1..(Len(data) + 1) |->
                          IF pos > Len(data) THEN <<>>
                          ELSE (IF data[pos] \in {Plus, Minus} THEN <<Escape(n, pos)>>
                                ELSE <<>>)
                                  \o <<Byte(n, pos, data[pos])>> \o f[pos + 1]]
           g == CHOOSE f : f = Step(f)
<1>2. \E f : f = Step(f)
  <2>1. PICK f : Sends(f, n, data, 1)
    BY SendsExist
  <2>2. f \in [1..(Len(data) + 1) -> Seq(Bytes)] /\ f[Len(data) + 1] = <<>>
    BY <2>1 DEF Sends
  <2>3. \A pos \in 1..(Len(data) + 1) : f[pos] = Step(f)[pos]
    <3> SUFFICES ASSUME NEW pos \in 1..(Len(data) + 1) PROVE f[pos] = Step(f)[pos]
      OBVIOUS
    <3>1. CASE pos > Len(data)
      BY <1>1, <2>2, <3>1
    <3>2. CASE pos \in 1..Len(data)
      <4>1. ~(pos > Len(data)) /\ pos \in 1..(Len(data) + 1)
        BY <1>1, <3>2
      <4>2. f[pos] = Part(n, data, pos) \o f[pos + 1]
        BY <2>1, <3>2 DEF Sends
      <4>3. QED
        BY <4>1, <4>2, Zenon DEF Part
    <3>3. QED
      BY <1>1, <3>1, <3>2
  <2>4. f = Step(f)
    BY <2>2, <2>3
  <2>5. QED
    BY <2>4
<1>3. g = Step(g)
  <2> HIDE DEF Step
  <2>1. QED
    BY <1>2
<1>4. Escaped(n, data) = <<Byte(n, 0, Plus)>> \o g[1]
  BY Zenon DEF Escaped
<1> HIDE DEF g
<1>5. g[m + 1] = <<>> /\ \A pos \in 1..m : g[pos] = Part(n, data, pos) \o g[pos + 1]
  <2>1. \A pos \in 1..(m + 1) : g[pos] = Step(g)[pos]
    BY <1>3
  <2>2. m + 1 > Len(data) /\ m + 1 \in 1..(m + 1) /\ Len(data) + 1 = m + 1
    BY <1>1
  <2>3. g[m + 1] = <<>>
    BY <2>1, <2>2
  <2>4. ASSUME NEW pos \in 1..m PROVE g[pos] = Part(n, data, pos) \o g[pos + 1]
    <3>1. ~(pos > Len(data)) /\ pos \in 1..(m + 1)
      BY <1>1
    <3>2. g[pos] = Step(g)[pos]
      BY <2>1, <3>1
    <3>3. QED
      BY <2>2, <3>1, <3>2, Zenon DEF Part
  <2>5. QED
    BY <2>3, <2>4
<1>6. \A pos \in 1..(m + 1) : g[pos] \in Seq(Bytes)
  <2> DEFINE S == {k \in Nat : k <= m => g[m + 1 - k] \in Seq(Bytes)}
  <2>1. 0 \in S
    <3>1. g[m + 1] \in Seq(Bytes) /\ m + 1 - 0 = m + 1
      BY <1>5, EmptySeq
    <3>2. QED
      BY <3>1
  <2>2. ASSUME NEW k \in S PROVE k + 1 \in S
    <3> SUFFICES ASSUME k + 1 <= m PROVE g[m - k] \in Seq(Bytes)
      OBVIOUS
    <3>1. PICK p \in 1..m : p = m - k /\ p + 1 = m + 1 - k
      OBVIOUS
    <3>2. g[p + 1] \in Seq(Bytes) /\ Part(n, data, p) \in Seq(Bytes)
      BY <1>1, <3>1, PartType
    <3>3. g[p] = Part(n, data, p) \o g[p + 1]
      BY <1>5
    <3>4. QED
      BY <3>1, <3>2, <3>3
  <2>3. \A k \in Nat : k \in S
    <3>1. S \in SUBSET Nat
      OBVIOUS
    <3> HIDE DEF S
    <3>2. QED
      BY <2>1, <2>2, <3>1, SetInduction
  <2>4. ASSUME NEW pos \in 1..(m + 1) PROVE g[pos] \in Seq(Bytes)
    <3>1. m + 1 - pos \in S /\ m + 1 - pos <= m /\ m + 1 - (m + 1 - pos) = pos
      <4>1. m + 1 - pos \in Nat
        OBVIOUS
      <4>2. m + 1 - pos \in S
        BY <2>3, <4>1, Zenon
      <4>3. m + 1 - pos <= m /\ m + 1 - (m + 1 - pos) = pos
        OBVIOUS
      <4>4. QED
        BY <4>2, <4>3
    <3>2. QED
      BY <3>1
  <2>5. QED
    BY <2>4
<1>7. g = [pos \in 1..(m + 1) |-> g[pos]]
  BY <1>1, <1>3
<1>8. Sends(g, n, data, 1)
  BY <1>1, <1>5, <1>6, <1>7 DEF Sends
<1>9. QED
  BY <1>4, <1>8

\* It does not matter what follows the end.
LEMMA RightLast ==
    ASSUME NEW b, NEW prev, NEW c, NEW d, NEW fs, Right(b, prev, TRUE, c, fs)
    PROVE  Right(b, prev, TRUE, d, fs)
  BY DEF Right

\* A byte before others.
LEMMA PrependIs ==
    ASSUME NEW b \in Bytes, NEW s \in Seq(Bytes)
    PROVE  /\ <<b>> \o s \in Seq(Bytes) /\ Len(<<b>> \o s) = Len(s) + 1
           /\ (<<b>> \o s)[1] = b
           /\ \A i \in 1..Len(s) : (<<b>> \o s)[i + 1] = s[i]
<1>1. PICK r : r = <<b>>
  OBVIOUS
<1>2. r \in Seq(Bytes) /\ Len(r) = 1 /\ r[1] = b
  BY <1>1
<1>3. /\ r \o s \in Seq(Bytes) /\ Len(r \o s) = Len(r) + Len(s)
      /\ \A i \in 1..Len(r) : (r \o s)[i] = r[i]
      /\ \A i \in 1..Len(s) : (r \o s)[Len(r) + i] = s[i]
  <2>1. r \in Seq(Bytes) /\ s \in Seq(Bytes)
    BY <1>2
  <2>2. QED
    BY <2>1, JoinIs
<1>4. Len(s) \in Nat
  OBVIOUS
<1>5. \A i \in 1..Len(s) : (r \o s)[i + 1] = s[i]
  <2>1. \A i \in 1..Len(s) : Len(r) + i = i + 1
    BY <1>2, <1>4
  <2>2. QED
    BY <1>3, <2>1
<1>6. (r \o s)[1] = b /\ Len(r \o s) = Len(s) + 1
  BY <1>2, <1>3, <1>4
<1>7. QED
  BY <1>1, <1>3, <1>5, <1>6

LEMMA PrependInFrames ==
    ASSUME NEW b \in Bytes, NEW s \in Seq(Bytes), NEW prev, NEW fs,
           Right(b, prev, s = <<>>, s[1], fs), InFrames(s, b.byte, fs)
    PROVE  InFrames(<<b>> \o s, prev, fs)
<1>1. PICK t : t = <<b>> \o s
  OBVIOUS
<1>2. PICK m \in Nat : m = Len(s)
  OBVIOUS
<1>3. Len(t) = m + 1 /\ t[1] = b /\ \A i \in 1..m : t[i + 1] = s[i]
  BY <1>1, <1>2, PrependIs
<1>4. Right(t[1], Prior(t, prev, 1), 1 = m + 1, t[2], fs)
  <2>1. Prior(t, prev, 1) = prev
    BY DEF Prior
  <2>2. CASE s = <<>>
    <3>1. m = 0
      BY <1>2, <2>2
    <3>2. Right(b, prev, TRUE, s[1], fs)
      BY <2>2
    <3>3. Right(b, prev, TRUE, t[2], fs)
      BY <3>2, RightLast
    <3>4. (1 = m + 1) = TRUE
      BY <3>1
    <3>5. QED
      BY <1>3, <2>1, <3>3, <3>4
  <2>3. CASE s # <<>>
    <3>1. m # 0
      BY <1>2, <2>3, EmptySeq
    <3>2. t[2] = s[1]
      <4>1. 1 \in 1..m /\ 1 + 1 = 2
        BY <1>2, <3>1
      <4>2. QED
        BY <1>3, <4>1
    <3>3. Right(b, prev, FALSE, s[1], fs)
      BY <2>3
    <3>4. (1 = m + 1) = FALSE
      BY <1>2, <3>1
    <3>5. QED
      BY <1>3, <2>1, <3>2, <3>3, <3>4
  <2>4. QED
    BY <2>2, <2>3
<1>5. ASSUME NEW k \in 1..m
      PROVE  Right(t[k + 1], Prior(t, prev, k + 1), k + 1 = m + 1, t[k + 2], fs)
  <2>1. Right(s[k], Prior(s, b.byte, k), k = m, s[k + 1], fs)
    BY <1>2 DEF InFrames
  <2>2. Prior(t, prev, k + 1) = Prior(s, b.byte, k)
    <3>1. k + 1 # 1 /\ (k + 1) - 1 = k
      OBVIOUS
    <3>2. Prior(t, prev, k + 1) = t[k].byte
      BY <3>1 DEF Prior
    <3>3. CASE k = 1
      BY <1>3, <3>2, <3>3 DEF Prior
    <3>4. CASE k # 1
      <4>1. k - 1 \in 1..m /\ (k - 1) + 1 = k
        BY <3>4
      <4>2. t[k] = s[k - 1]
        BY <1>3, <4>1
      <4>3. QED
        BY <3>2, <3>4, <4>2 DEF Prior
    <3>5. QED
      BY <3>3, <3>4
  <2>3. t[k + 1] = s[k]
    BY <1>3
  <2>4. CASE k = m
    <3>1. Right(s[k], Prior(s, b.byte, k), TRUE, s[k + 1], fs)
      BY <2>1, <2>4
    <3>2. Right(s[k], Prior(s, b.byte, k), TRUE, t[k + 2], fs)
      BY <3>1, RightLast
    <3>3. (k + 1 = m + 1) = TRUE
      BY <2>4
    <3>4. QED
      BY <2>2, <2>3, <3>2, <3>3
  <2>5. CASE k # m
    <3>1. k + 1 \in 1..m /\ (k + 1) + 1 = k + 2
      BY <2>5
    <3>2. t[k + 2] = s[k + 1]
      BY <1>3, <3>1
    <3>3. Right(s[k], Prior(s, b.byte, k), FALSE, s[k + 1], fs)
      BY <2>1, <2>5
    <3>4. (k + 1 = m + 1) = FALSE
      BY <2>5
    <3>5. QED
      BY <2>2, <2>3, <3>2, <3>3, <3>4
  <2>6. QED
    BY <2>4, <2>5
<1>6. ASSUME NEW i \in 1..(m + 1)
      PROVE  Right(t[i], Prior(t, prev, i), i = m + 1, t[i + 1], fs)
  <2>1. CASE i = 1
    BY <1>4, <2>1
  <2>2. CASE i # 1
    <3>1. PICK k \in 1..m : i = k + 1 /\ i + 1 = k + 2
      <4>1. i - 1 \in 1..m /\ i = (i - 1) + 1 /\ i + 1 = (i - 1) + 2
        BY <2>2
      <4>2. QED
        BY <4>1
    <3>2. QED
      BY <1>5, <3>1
  <2>3. QED
    BY <2>1, <2>2
<1>7. InFrames(t, prev, fs)
  BY <1>3, <1>6 DEF InFrames
<1>8. QED
  BY <1>1, <1>7

\* What is left when the first byte is taken.
LEMMA TailInFrames ==
    ASSUME NEW s \in Seq(Bytes), s # <<>>, NEW prev, NEW fs, InFrames(s, prev, fs)
    PROVE  /\ Right(s[1], prev, Tail(s) = <<>>, Tail(s)[1], fs)
           /\ InFrames(Tail(s), s[1].byte, fs)
<1>1. PICK t : t = Tail(s)
  OBVIOUS
<1>2. PICK m \in Nat : Len(s) = m + 1
  <2>1. Len(s) \in Nat \ {0}
    BY TailIs
  <2>2. Len(s) - 1 \in Nat /\ Len(s) = (Len(s) - 1) + 1
    BY <2>1
  <2>3. QED
    BY <2>2
<1>3. t \in Seq(Bytes) /\ Len(t) = m /\ \A i \in 1..m : t[i] = s[i + 1]
  <2>1. t \in Seq(Bytes) /\ Len(t) = Len(s) - 1 /\ \A i \in 1..Len(t) : t[i] = s[i + 1]
    BY <1>1, TailIs
  <2>2. QED
    BY <1>2, <2>1
<1>4. \A i \in 1..(m + 1) : Right(s[i], Prior(s, prev, i), i = m + 1, s[i + 1], fs)
  BY <1>2 DEF InFrames
<1>5. Right(s[1], prev, t = <<>>, t[1], fs)
  <2>1. Right(s[1], prev, 1 = m + 1, s[1 + 1], fs)
    <3>1. 1 \in 1..(m + 1)
      OBVIOUS
    <3>2. Prior(s, prev, 1) = prev
      BY DEF Prior
    <3>3. QED
      BY <1>4, <3>1, <3>2
  <2>2. CASE m = 0
    <3>1. t = <<>> /\ (1 = m + 1) = TRUE
      BY <1>3, <2>2, EmptySeq
    <3>2. Right(s[1], prev, TRUE, s[1 + 1], fs)
      BY <2>1, <3>1
    <3>3. Right(s[1], prev, TRUE, t[1], fs)
      BY <3>2, RightLast
    <3>4. QED
      BY <3>1, <3>3
  <2>3. CASE m # 0
    <3>1. (t = <<>>) = FALSE /\ (1 = m + 1) = FALSE
      BY <1>3, <2>3
    <3>2. t[1] = s[1 + 1]
      BY <1>3, <2>3
    <3>3. QED
      BY <2>1, <3>1, <3>2
  <2>4. QED
    BY <2>2, <2>3
<1>6. ASSUME NEW k \in 1..m
      PROVE  Right(t[k], Prior(t, s[1].byte, k), k = m, t[k + 1], fs)
  <2>1. Right(s[k + 1], Prior(s, prev, k + 1), k + 1 = m + 1, s[(k + 1) + 1], fs)
    <3>1. k + 1 \in 1..(m + 1)
      OBVIOUS
    <3>2. QED
      BY <1>4, <3>1
  <2>2. Prior(s, prev, k + 1) = Prior(t, s[1].byte, k)
    <3>1. k + 1 # 1 /\ (k + 1) - 1 = k
      OBVIOUS
    <3>2. Prior(s, prev, k + 1) = s[k].byte
      BY <3>1 DEF Prior
    <3>3. CASE k = 1
      BY <3>2, <3>3 DEF Prior
    <3>4. CASE k # 1
      <4>1. k - 1 \in 1..m /\ (k - 1) + 1 = k
        BY <3>4
      <4>2. t[k - 1] = s[k]
        BY <1>3, <4>1
      <4>3. QED
        BY <3>2, <3>4, <4>2 DEF Prior
    <3>5. QED
      BY <3>3, <3>4
  <2>3. s[k + 1] = t[k]
    BY <1>3
  <2>4. CASE k = m
    <3>1. (k + 1 = m + 1) = TRUE /\ (k = m) = TRUE
      BY <2>4
    <3>2. Right(t[k], Prior(t, s[1].byte, k), TRUE, s[(k + 1) + 1], fs)
      BY <2>1, <2>2, <2>3, <3>1
    <3>3. Right(t[k], Prior(t, s[1].byte, k), TRUE, t[k + 1], fs)
      BY <3>2, RightLast
    <3>4. QED
      BY <3>1, <3>3
  <2>5. CASE k # m
    <3>1. k + 1 \in 1..m
      BY <2>5
    <3>2. t[k + 1] = s[(k + 1) + 1]
      BY <1>3, <3>1
    <3>3. (k + 1 = m + 1) = FALSE /\ (k = m) = FALSE
      BY <2>5
    <3>4. QED
      BY <2>1, <2>2, <2>3, <3>2, <3>3
  <2>6. QED
    BY <2>4, <2>5
<1>7. InFrames(t, s[1].byte, fs)
  BY <1>3, <1>6 DEF InFrames
<1>8. QED
  BY <1>1, <1>5, <1>7

LEMMA JoinInFrames ==
    ASSUME NEW r \in Seq(Bytes), NEW s \in Seq(Bytes), r # <<>>, s # <<>>,
           NEW prev, NEW fs, InFrames(r, prev, fs), InFrames(s, r[Len(r)].byte, fs),
           s[1].pos = 0
    PROVE  InFrames(r \o s, prev, fs)
<1>1. PICK t : t = r \o s
  OBVIOUS
<1>2. PICK a \in Nat \ {0}, m \in Nat \ {0} : a = Len(r) /\ m = Len(s)
  <2>1. Len(r) \in Nat \ {0} /\ Len(s) \in Nat \ {0}
    BY TailIs
  <2>2. QED
    BY <2>1
<1>3. /\ Len(t) = a + m /\ \A i \in 1..a : t[i] = r[i]
      /\ \A i \in 1..m : t[a + i] = s[i]
  BY <1>1, <1>2, JoinIs
<1>4. ASSUME NEW i \in 1..a PROVE Prior(t, prev, i) = Prior(r, prev, i)
  <2>1. i # 1 => i - 1 \in 1..a
    OBVIOUS
  <2>2. i # 1 => t[i - 1] = r[i - 1]
    BY <1>3, <2>1
  <2>3. QED
    BY <2>2 DEF Prior
<1>5. ASSUME NEW i \in 1..(a - 1)
      PROVE  Right(t[i], Prior(t, prev, i), i = a + m, t[i + 1], fs)
  <2>1. i \in 1..a /\ i + 1 \in 1..a
    OBVIOUS
  <2>2. Right(r[i], Prior(r, prev, i), i = a, r[i + 1], fs)
    BY <1>2, <2>1 DEF InFrames
  <2>3. (i = a) = FALSE /\ (i = a + m) = FALSE
    OBVIOUS
  <2>4. t[i] = r[i] /\ t[i + 1] = r[i + 1] /\ Prior(t, prev, i) = Prior(r, prev, i)
    BY <1>3, <1>4, <2>1
  <2>5. QED
    BY <2>2, <2>3, <2>4
<1>6. Right(t[a], Prior(t, prev, a), a = a + m, t[a + 1], fs)
  <2>1. a \in 1..a /\ (a = a) = TRUE /\ (a = a + m) = FALSE /\ 1 \in 1..m
    OBVIOUS
  <2>2. Right(r[a], Prior(r, prev, a), TRUE, r[a + 1], fs)
    <3>1. Right(r[a], Prior(r, prev, a), a = a, r[a + 1], fs)
      BY <1>2, <2>1 DEF InFrames
    <3>2. QED
      BY <2>1, <3>1
  <2>3. t[a] = r[a] /\ t[a + 1] = s[1] /\ Prior(t, prev, a) = Prior(r, prev, a)
    BY <1>3, <1>4, <2>1
  <2>4. t[a + 1].pos = 0
    BY <2>3
  <2>5. Right(r[a], Prior(r, prev, a), FALSE, t[a + 1], fs)
    <3>1. /\ Fits(r[a], Prior(r, prev, a), fs[r[a].frame].data)
          /\ Ends(r[a], fs[r[a].frame].data)
          /\ r[a].frame \in 1..Len(fs)
          /\ r[a].pos = 0 /\ Prior(r, prev, a) = Minus => SomeConfusing(fs)
      BY <2>2 DEF Right
    <3>2. r[a].pos = Len(fs[r[a].frame].data) /\ ~r[a].escape
          /\ r[a].pos \in 0..Len(fs[r[a].frame].data)
      BY <3>1 DEF Ends, Fits
    <3>3. ~(r[a].pos < Len(fs[r[a].frame].data))
      BY <3>2
    <3>4. Leads(r[a], fs[r[a].frame].data, t[a + 1])
      BY <2>4, <3>2, <3>3 DEF Leads
    <3>5. QED
      BY <3>1, <3>4 DEF Right
  <2>6. QED
    BY <2>1, <2>3, <2>5
<1>7. ASSUME NEW k \in 1..m
      PROVE  Right(t[a + k], Prior(t, prev, a + k), a + k = a + m, t[a + k + 1], fs)
  <2>1. Right(s[k], Prior(s, r[a].byte, k), k = m, s[k + 1], fs)
    BY <1>2 DEF InFrames
  <2>2. Prior(t, prev, a + k) = Prior(s, r[a].byte, k)
    <3>1. a + k # 1
      OBVIOUS
    <3>2. Prior(t, prev, a + k) = t[a + k - 1].byte
      BY <3>1 DEF Prior
    <3>3. CASE k = 1
      <4>1. a + k - 1 = a /\ a \in 1..a
        BY <3>3
      <4>2. QED
        BY <1>3, <3>2, <3>3, <4>1 DEF Prior
    <3>4. CASE k # 1
      <4>1. k - 1 \in 1..m /\ a + (k - 1) = a + k - 1
        BY <3>4
      <4>2. t[a + k - 1] = s[k - 1]
        BY <1>3, <4>1
      <4>3. QED
        BY <3>2, <3>4, <4>2 DEF Prior
    <3>5. QED
      BY <3>3, <3>4
  <2>3. t[a + k] = s[k]
    BY <1>3
  <2>4. CASE k = m
    <3>1. (k = m) = TRUE /\ (a + k = a + m) = TRUE
      BY <2>4
    <3>2. Right(s[k], Prior(s, r[a].byte, k), TRUE, s[k + 1], fs)
      BY <2>1, <3>1
    <3>3. Right(s[k], Prior(s, r[a].byte, k), TRUE, t[a + k + 1], fs)
      BY <3>2, RightLast
    <3>4. QED
      BY <2>2, <2>3, <3>1, <3>3
  <2>5. CASE k # m
    <3>1. (k = m) = FALSE /\ (a + k = a + m) = FALSE
          /\ k + 1 \in 1..m /\ a + (k + 1) = a + k + 1
      BY <2>5
    <3>2. t[a + k + 1] = s[k + 1]
      BY <1>3, <3>1
    <3>3. QED
      BY <2>1, <2>2, <2>3, <3>1, <3>2
  <2>6. QED
    BY <2>4, <2>5
<1>8. ASSUME NEW i \in 1..(a + m)
      PROVE  Right(t[i], Prior(t, prev, i), i = a + m, t[i + 1], fs)
  <2>1. CASE i <= a - 1
    <3>1. i \in 1..(a - 1)
      BY <2>1
    <3>2. QED
      BY <1>5, <3>1
  <2>2. CASE i = a
    BY <1>6, <2>2
  <2>3. CASE i > a
    <3>1. PICK k \in 1..m : i = a + k
      <4>1. i - a \in 1..m /\ i = a + (i - a)
        BY <2>3
      <4>2. QED
        BY <4>1
    <3>2. QED
      BY <1>7, <3>1
  <2>4. QED
    BY <2>1, <2>2, <2>3
<1>9. InFrames(t, prev, fs)
  BY <1>3, <1>8 DEF InFrames
<1>10. QED
  BY <1>1, <1>9

\* Another frame changes nothing for the bytes of the others.
LEMMA MoreFrames ==
    ASSUME NEW s, NEW prev, NEW fs, NEW gs, InFrames(s, prev, fs),
           Len(fs) \in Nat, Len(gs) \in Nat, Len(fs) <= Len(gs),
           \A n \in 1..Len(fs) : gs[n] = fs[n]
    PROVE  InFrames(s, prev, gs)
<1>1. 1..Len(fs) \subseteq 1..Len(gs)
  OBVIOUS
<1>2. ASSUME NEW b, NEW q, NEW last, NEW c, Right(b, q, last, c, fs)
      PROVE  Right(b, q, last, c, gs)
  <2>1. b.frame \in 1..Len(gs) /\ gs[b.frame] = fs[b.frame]
    BY <1>1, <1>2 DEF Right
  <2>2. SomeConfusing(fs) => SomeConfusing(gs)
    BY <1>1 DEF SomeConfusing
  <2>3. QED
    BY <1>2, <2>1, <2>2 DEF Right
<1>3. QED
  BY <1>2 DEF InFrames

\* Only a confusing frame ends with a byte that a start byte must not follow.
LEMMA LastIsPlain ==
    ASSUME NEW s \in Seq(Bytes), s # <<>>, NEW prev, NEW fs, InFrames(s, prev, fs),
           \A n \in 1..Len(fs) : Len(fs[n].data) \in Nat,
           s[Len(s)].byte = Minus
    PROVE  SomeConfusing(fs)
<1>1. PICK a \in Nat \ {0} : a = Len(s)
  <2>1. Len(s) \in Nat \ {0}
    BY TailIs
  <2>2. QED
    BY <2>1
<1>2. PICK b : b = s[a]
  OBVIOUS
<1>3. Right(b, Prior(s, prev, a), TRUE, s[a + 1], fs)
  <2>1. a \in 1..a /\ (a = a) = TRUE
    OBVIOUS
  <2>2. Right(s[a], Prior(s, prev, a), a = a, s[a + 1], fs)
    BY <1>1, <2>1 DEF InFrames
  <2>3. QED
    BY <1>2, <2>1, <2>2
<1>4. PICK data : data = fs[b.frame].data
  OBVIOUS
<1>5. /\ b.frame \in 1..Len(fs) /\ Len(data) \in Nat
      /\ Fits(b, Prior(s, prev, a), data) /\ Ends(b, data) /\ b.byte = Minus
  BY <1>1, <1>2, <1>3, <1>4 DEF Right
<1>6. b.pos # 0
  BY <1>5 DEF Fits, Plus, Minus
<1>7. data[b.pos] = Minus /\ b.pos = Len(data) /\ b.pos \in 1..Len(data)
      /\ ~(b.pos < Len(data))
  BY <1>5, <1>6 DEF Fits, Ends
<1>8. ~IsDecodable(data)
  BY <1>7 DEF IsDecodable
<1>9. QED
  BY <1>4, <1>5, <1>8 DEF SomeConfusing

\* What is sent from place pos on, whatever is before it.
SentRight(s, n, data, pos, fs) ==
    /\ pos <= Len(data) => s # <<>> /\ s[1].frame = n /\ s[1].pos = pos
    /\ pos > Len(data) => s = <<>>
    /\ \A prev : InFrames(s, prev, fs)

LEMMA PartIsRight ==
    ASSUME NEW fs, Len(fs) \in Nat, NEW n \in 1..Len(fs), NEW data \in Seq(0..255),
           fs[n].data = data, NEW pos \in 1..Len(data),
           NEW rest \in Seq(Bytes), SentRight(rest, n, data, pos + 1, fs)
    PROVE  SentRight(Part(n, data, pos) \o rest, n, data, pos, fs)
<1>1. PICK m \in Nat : m = Len(data)
  OBVIOUS
<1>2. PICK d \in 0..255 : d = data[pos]
  BY ElementOfSeq
<1>3. PICK b : b = Byte(n, pos, d)
  OBVIOUS
<1>4. b \in Bytes /\ b.frame = n /\ b.pos = pos /\ b.byte = d /\ b.escape = FALSE
      /\ n \in Nat \ {0} /\ pos \in Nat /\ pos # 0 /\ pos \in 0..m /\ pos <= m
  <2>1. n \in Nat \ {0} /\ pos \in Nat /\ pos # 0 /\ pos \in 0..m /\ pos <= m
    BY <1>1
  <2>2. QED
    BY <1>2, <1>3, <2>1, ByteType DEF Byte
<1>6. InFrames(rest, d, fs)
  BY DEF SentRight
<1>7. ASSUME NEW prev, d \in {Plus, Minus} => prev = Minus
      PROVE  InFrames(<<b>> \o rest, prev, fs)
  <2>1. ~b.escape
    BY <1>4
  <2>2. Fits(b, prev, data)
    BY <1>1, <1>2, <1>4, <1>7, <2>1 DEF Fits
  <2>3. CASE pos = m
    <3>1. pos + 1 > Len(data)
      BY <1>1, <2>3
    <3>2. rest = <<>>
      BY <3>1 DEF SentRight
    <3>3. Ends(b, data)
      BY <1>1, <1>4, <2>1, <2>3 DEF Ends
    <3>4. Right(b, prev, rest = <<>>, rest[1], fs)
      BY <1>4, <2>2, <3>2, <3>3 DEF Right
    <3>5. QED
      BY <1>4, <1>6, <3>4, PrependInFrames
  <2>4. CASE pos # m
    <3>1. pos + 1 <= Len(data) /\ pos < Len(data)
      BY <1>1, <2>4
    <3>2. rest # <<>> /\ rest[1].frame = n /\ rest[1].pos = pos + 1
      BY <3>1 DEF SentRight
    <3>3. Leads(b, data, rest[1])
      BY <1>4, <2>1, <3>1, <3>2 DEF Leads
    <3>4. Right(b, prev, rest = <<>>, rest[1], fs)
      BY <1>4, <2>2, <3>2, <3>3 DEF Right
    <3>5. QED
      BY <1>4, <1>6, <3>4, PrependInFrames
  <2>5. QED
    BY <2>3, <2>4
<1>8. PICK tail : tail = <<b>> \o rest
  OBVIOUS
<1>9. tail \in Seq(Bytes) /\ Len(tail) = Len(rest) + 1 /\ tail[1] = b /\ tail # <<>>
  <2>1. tail \in Seq(Bytes) /\ Len(tail) = Len(rest) + 1 /\ tail[1] = b
    BY <1>4, <1>8, PrependIs
  <2>2. Len(rest) + 1 # 0
    OBVIOUS
  <2>3. QED
    BY <2>1, <2>2, EmptySeq
<1>10. CASE d \notin {Plus, Minus}
  <2>1. Part(n, data, pos) \o rest = tail
    <3>1. <<>> \o <<b>> = <<b>>
      BY <1>4, ConcatEmptySeq
    <3>2. QED
      BY <1>2, <1>3, <1>8, <1>10, <3>1 DEF Part
  <2>2. \A prev : InFrames(tail, prev, fs)
    BY <1>7, <1>8, <1>10
  <2>3. QED
    BY <1>1, <1>4, <1>9, <2>1, <2>2 DEF SentRight
<1>11. CASE d \in {Plus, Minus}
  <2>1. PICK e : e = Escape(n, pos)
    OBVIOUS
  <2>2. e \in Bytes /\ e.frame = n /\ e.pos = pos /\ e.byte = Minus /\ e.escape = TRUE
    <3>1. e.frame = n /\ e.pos = pos /\ e.byte = Minus /\ e.escape = TRUE
      BY <2>1 DEF Escape
    <3>2. e \in Bytes
      BY <1>4, <2>1 DEF Escape, Bytes, Minus
    <3>3. QED
      BY <3>1, <3>2
  <2>3. Part(n, data, pos) \o rest = <<e>> \o tail
    <3>1. PICK x, y : x = <<e>> /\ y = <<b>>
      OBVIOUS
    <3>2. x \in Seq(Bytes) /\ y \in Seq(Bytes)
      BY <1>4, <2>2, <3>1
    <3>3. (x \o y) \o rest = x \o (y \o rest)
      <4>1. \A u, v, w \in Seq(Bytes) : (u \o v) \o w = u \o (v \o w)
        BY BytesAssociate, Zenon
      <4>2. rest \in Seq(Bytes)
        OBVIOUS
      <4>3. QED
        BY <3>2, <4>1, <4>2
    <3>4. Part(n, data, pos) = x \o y
      BY <1>2, <1>3, <1>11, <2>1, <3>1 DEF Part
    <3>5. QED
      BY <1>8, <3>1, <3>3, <3>4
  <2>4. PICK all : all = <<e>> \o tail
    OBVIOUS
  <2>5. all # <<>> /\ all[1] = e
    <3>1. all \in Seq(Bytes) /\ Len(all) = Len(tail) + 1 /\ all[1] = e
      BY <1>9, <2>2, <2>4, PrependIs
    <3>2. Len(tail) \in Nat
      BY <1>9
    <3>3. QED
      BY <3>1, <3>2, EmptySeq
  <2>6. ASSUME NEW prev PROVE InFrames(all, prev, fs)
    <3>2. Fits(e, prev, data)
      BY <1>1, <1>2, <1>4, <1>11, <2>2 DEF Fits
    <3>3. Leads(e, data, tail[1])
      BY <1>2, <1>3, <1>9, <2>2 DEF Leads
    <3>4. Right(e, prev, tail = <<>>, tail[1], fs)
      BY <1>4, <1>9, <2>2, <3>2, <3>3 DEF Right
    <3>5. InFrames(tail, Minus, fs)
      BY <1>7, <1>8
    <3>6. QED
      BY <1>9, <2>2, <2>4, <3>4, <3>5, PrependInFrames
  <2>7. QED
    <3>1. pos <= Len(data) => all # <<>> /\ all[1].frame = n /\ all[1].pos = pos
      BY <2>2, <2>5
    <3>2. ~(pos > Len(data))
      BY <1>1, <1>4
    <3>3. SentRight(all, n, data, pos, fs)
      BY <2>6, <3>1, <3>2 DEF SentRight
    <3>4. QED
      BY <2>3, <2>4, <3>3
<1>12. QED
  BY <1>10, <1>11

\* The peer sends whole frames.
LEMMA EscapedInFrames ==
    ASSUME NEW fs, Len(fs) \in Nat, NEW n \in 1..Len(fs), NEW data \in Seq(0..255),
           fs[n].data = data
    PROVE  /\ Escaped(n, data) \in Seq(Bytes) /\ Escaped(n, data) # <<>>
           /\ Escaped(n, data)[1] = Byte(n, 0, Plus)
           /\ \A prev : (prev = Minus => SomeConfusing(fs))
                            => InFrames(Escaped(n, data), prev, fs)
<1>1. n \in Nat \ {0}
  OBVIOUS
<1>2. PICK m \in Nat : m = Len(data)
  OBVIOUS
<1>3. PICK f : Sends(f, n, data, 1) /\ Escaped(n, data) = <<Byte(n, 0, Plus)>> \o f[1]
  BY <1>1, EscapedIs
<1>4. f \in [1..(m + 1) -> Seq(Bytes)] /\ f[m + 1] = <<>>
      /\ \A pos \in 1..m : f[pos] = Part(n, data, pos) \o f[pos + 1]
  BY <1>2, <1>3 DEF Sends
<1>5. PICK start : start = Byte(n, 0, Plus)
  OBVIOUS
<1>6. start \in Bytes /\ start.frame = n /\ start.pos = 0 /\ start.byte = Plus
      /\ start.escape = FALSE
  <2>1. Plus \in 0..255 /\ 0 \in Nat
    BY DEF Plus
  <2>2. QED
    BY <1>1, <1>5, <2>1, ByteType DEF Byte
<1>7. PICK rest \in Seq(Bytes) : rest = f[1]
  <2>1. 1 \in 1..(m + 1)
    OBVIOUS
  <2>2. QED
    BY <1>4, <2>1
<1>8. PICK all : all = <<start>> \o rest
  OBVIOUS
<1>9. all \in Seq(Bytes) /\ all[1] = start /\ all # <<>>
  <2>1. all \in Seq(Bytes) /\ Len(all) = Len(rest) + 1 /\ all[1] = start
    BY <1>6, <1>8, PrependIs
  <2>2. Len(rest) \in Nat
    OBVIOUS
  <2>3. QED
    BY <2>1, <2>2, EmptySeq
<1>10. Escaped(n, data) = all
  BY <1>3, <1>5, <1>7, <1>8
<1>11. ASSUME NEW prev, prev = Minus => SomeConfusing(fs) PROVE InFrames(all, prev, fs)
  <2> DEFINE S == {k \in Nat : k <= m => SentRight(f[m + 1 - k], n, data, m + 1 - k, fs)}
  <2>1. 0 \in S
    <3>1. SentRight(<<>>, n, data, m + 1, fs)
      <4>1. ~(m + 1 <= Len(data)) /\ Len(<<>>) = 0 /\ 1..0 = {}
        BY <1>2
      <4>2. \A q : InFrames(<<>>, q, fs)
        BY <4>1 DEF InFrames
      <4>3. QED
        BY <4>1, <4>2 DEF SentRight
    <3>2. SentRight(f[m + 1 - 0], n, data, m + 1 - 0, fs)
      BY <1>4, <3>1
    <3>3. QED
      BY <3>2
  <2>2. ASSUME NEW k \in S PROVE k + 1 \in S
    <3> SUFFICES ASSUME k + 1 <= m PROVE SentRight(f[m - k], n, data, m - k, fs)
      OBVIOUS
    <3>1. PICK p \in 1..m : p = m - k /\ p + 1 = m + 1 - k
      OBVIOUS
    <3>2. p + 1 \in 1..(m + 1)
      OBVIOUS
    <3>3. f[p + 1] \in Seq(Bytes) /\ f[p] = Part(n, data, p) \o f[p + 1]
      BY <1>4, <3>2
    <3>4. SentRight(f[p + 1], n, data, p + 1, fs)
      BY <3>1
    <3>5. SentRight(Part(n, data, p) \o f[p + 1], n, data, p, fs)
      BY <1>2, <3>3, <3>4, PartIsRight
    <3>6. QED
      BY <3>1, <3>3, <3>5
  <2>3. \A k \in Nat : k \in S
    <3>1. S \in SUBSET Nat
      OBVIOUS
    <3> HIDE DEF S
    <3>2. QED
      BY <2>1, <2>2, <3>1, SetInduction
  <2>4. SentRight(rest, n, data, 1, fs)
    <3>1. m \in S
      BY <2>3
    <3>2. SentRight(f[m + 1 - m], n, data, m + 1 - m, fs)
      BY <3>1
    <3>3. m + 1 - m = 1
      OBVIOUS
    <3>4. QED
      BY <1>7, <3>2, <3>3
  <2>5. InFrames(rest, Plus, fs)
    BY <2>4 DEF SentRight
  <2>6. Fits(start, prev, data)
    BY <1>2, <1>6 DEF Fits
  <2>7. CASE m = 0
    <3>1. rest = <<>>
      BY <1>2, <2>4, <2>7 DEF SentRight
    <3>2. Ends(start, data)
      BY <1>2, <1>6, <2>7 DEF Ends
    <3>3. Right(start, prev, rest = <<>>, rest[1], fs)
      BY <1>6, <1>11, <2>6, <3>1, <3>2 DEF Right
    <3>4. QED
      BY <1>6, <1>8, <2>5, <3>3, PrependInFrames
  <2>8. CASE m # 0
    <3>1. 1 <= Len(data) /\ 0 < Len(data)
      BY <1>2, <2>8
    <3>2. rest # <<>> /\ rest[1].frame = n /\ rest[1].pos = 0 + 1
      BY <2>4, <3>1 DEF SentRight
    <3>3. Leads(start, data, rest[1])
      BY <1>6, <3>1, <3>2 DEF Leads
    <3>4. Right(start, prev, rest = <<>>, rest[1], fs)
      BY <1>6, <1>11, <2>6, <3>2, <3>3 DEF Right
    <3>5. QED
      BY <1>6, <1>8, <2>5, <3>4, PrependInFrames
  <2>9. QED
    BY <2>7, <2>8
<1>12. QED
  BY <1>5, <1>9, <1>10, <1>11

-----------------------------------------------------------------------------
(* Types.                                                                  *)

FrameType == [to : Reads \cup {Null}, data : Seq(0..255)]

ControlTypes == connected \in BOOLEAN /\ pc \in Labels /\ after \in Resumes

ReadTypes ==
    /\ pending \in Reads \cup {Null} /\ deadline \in 0..Timeout
    /\ scheduled \in Seq(Reads) /\ aborting \in Seq(Reads)
    /\ ids \in Seq(Ids) /\ issued <= MaxReads
    /\ outcome \in [Reads -> Results \cup {Open}]

ResponseTypes ==
    /\ wait_for_start \in BOOLEAN /\ last_received_byte \in 0..255
    /\ pending_response \in Seq(Bytes) /\ Len(pending_response) <= ResponseLength

PeerTypes ==
    /\ stream \in Seq(Bytes) /\ requests \subseteq Reads
    /\ frames \in Seq(FrameType) /\ sent \in 0..MaxFrames

LEMMA TypeParts ==
    /\ TypeOK <=> ControlTypes /\ ReadTypes /\ ResponseTypes /\ PeerTypes
    /\ TypeOK' <=> ControlTypes' /\ ReadTypes' /\ ResponseTypes' /\ PeerTypes'
  BY DEF TypeOK, ControlTypes, ReadTypes, ResponseTypes, PeerTypes, FrameType

LEMMA NamedTypes ==
    /\ {"Success", "ChecksumMismatch", "Timeout", "Aborted", "SendFailed"} \subseteq Results
    /\ {"main", "send", "recv", "disconnect", "finish_all", "abort"} \subseteq Resumes
    /\ {"user", "tick_hook", "send", "recv", "judge", "disconnect", "close_hook",
        "finish_all", "abort"} \subseteq Labels
    /\ Open \notin Results
  BY DEF Results, Resumes, Labels, Open

LEMMA LengthsAre ==
    /\ ResponseLength \in Nat /\ ResponseLength >= 4
    /\ \A v \in Values : v \in Seq(0..255) /\ Len(v) \in Nat /\ ResponseLength = 4 + Len(v)
<1>1. PICK w \in Values : w = CHOOSE v \in Values : TRUE
  BY ValuesAssumption
<1>2. PICK m \in Nat : m = Len(w)
  BY ValuesAssumption, LenProperties
<1>3. ResponseLength = 4 + m
  BY <1>1, <1>2 DEF ResponseLength, ValueLength
<1>4. \A v \in Values : v \in Seq(0..255) /\ Len(v) = m
  BY <1>2, ValuesAssumption
<1>5. QED
  BY <1>3, <1>4

\* A response to a read of id.
IsResponse(data, id) ==
    /\ data \in Seq(0..255) /\ Len(data) = ResponseLength
    /\ data[1] = Response /\ data[2] = Length /\ data[3] = id

LEMMA DataIs ==
    ASSUME NEW id \in Ids, NEW value \in Values
    PROVE  IsResponse(Data(id, value), id)
<1>1. PICK x, y : x = <<Response, Length, id>> /\ y = <<Checksums[id][value]>>
  OBVIOUS
<1>2. id \in 0..255 /\ Checksums[id][value] \in 0..255
  BY IdsAssumption, ChecksumsAssumption
<1>3. x \in Seq(0..255) /\ Len(x) = 3 /\ x[1] = Response /\ x[2] = Length /\ x[3] = id
  <2>1. Response \in 0..255 /\ Length \in 0..255
    BY DEF Response, Length
  <2>2. QED
    BY <1>1, <1>2, <2>1
<1>4. y \in Seq(0..255) /\ Len(y) = 1
  BY <1>1, <1>2
<1>5. PICK m \in Nat : Len(value) = m /\ ResponseLength = 4 + m
  BY LengthsAre
<1>6. value \in Seq(0..255)
  BY LengthsAre
<1>7. PICK xv : xv = x \o value
  OBVIOUS
<1>8. xv \in Seq(0..255) /\ Len(xv) = 3 + m /\ \A i \in 1..3 : xv[i] = x[i]
  <2>1. x \in Seq(0..255)
    BY <1>3
  <2>2. /\ x \o value \in Seq(0..255) /\ Len(x \o value) = Len(x) + Len(value)
        /\ \A i \in 1..Len(x) : (x \o value)[i] = x[i]
    BY <1>6, <2>1, JoinIs
  <2>3. QED
    BY <1>3, <1>5, <1>7, <2>2
<1>9. PICK d : d = xv \o y
  OBVIOUS
<1>10. d \in Seq(0..255) /\ Len(d) = 4 + m /\ \A i \in 1..3 : d[i] = xv[i]
  <2>1. xv \in Seq(0..255) /\ y \in Seq(0..255)
    BY <1>4, <1>8
  <2>2. /\ xv \o y \in Seq(0..255) /\ Len(xv \o y) = Len(xv) + Len(y)
        /\ \A i \in 1..Len(xv) : (xv \o y)[i] = xv[i]
    BY <2>1, JoinIs
  <2>3. \A i \in 1..3 : i \in 1..(3 + m)
    OBVIOUS
  <2>4. QED
    BY <1>4, <1>8, <1>9, <2>2, <2>3
<1>11. Data(id, value) = d
  BY <1>1, <1>7, <1>9 DEF Data
<1>12. QED
  BY <1>3, <1>5, <1>8, <1>10, <1>11 DEF IsResponse

\* A wrong checksum changes nothing that recv_hook() looks at before.
LEMMA WrongIs ==
    ASSUME NEW id, NEW data, IsResponse(data, id)
    PROVE  IsResponse([data EXCEPT ![ResponseLength] = 0], id)
<1>1. PICK n \in Nat : n = ResponseLength /\ n >= 4
  BY LengthsAre
<1>2. data \in [1..n -> 0..255] /\ Len(data) = n
  BY <1>1, LenProperties DEF IsResponse
<1>3. PICK d : d = [data EXCEPT ![n] = 0]
  OBVIOUS
<1>4. d \in [1..n -> 0..255] /\ \A i \in 1..n : i # n => d[i] = data[i]
  BY <1>1, <1>2, <1>3
<1>5. d \in Seq(0..255) /\ Len(d) = n
  <2>1. DOMAIN d = 1..n
    BY <1>4
  <2>2. d \in Seq(0..255)
    BY <1>4, SeqDef
  <2>3. QED
    BY <2>1, <2>2, LenProperties
<1>6. d[1] = data[1] /\ d[2] = data[2] /\ d[3] = data[3]
  BY <1>1, <1>4
<1>7. QED
  BY <1>1, <1>3, <1>5, <1>6 DEF IsResponse

\* What the peer sends.
LEMMA PeerSends ==
    ASSUME TypeOK, Respond \/ SendForeign,
           \A t \in requests : t <= issued
    PROVE  \E t \in Reads \cup {Null}, data \in Seq(0..255) :
               /\ SendFrame(t, data)
               /\ \/ t \in requests /\ IsResponse(data, ids[t])
                  \/ data \in Foreign
<1>1. CASE Respond
  <2>1. PICK t \in requests, value \in Values :
            \E data \in {Data(ids[t], value), [Data(ids[t], value) EXCEPT ![ResponseLength] = 0]} :
                SendFrame(t, data)
    BY <1>1, Zenon DEF Respond
  <2>2. t \in Reads /\ ids[t] \in Ids
    <3>1. t \in Reads /\ t \in 1..issued /\ ids \in Seq(Ids)
      BY DEF TypeOK, Reads
    <3>2. QED
      BY <3>1
  <2>3. PICK good : good = Data(ids[t], value)
    OBVIOUS
  <2>4. PICK data \in {good, [good EXCEPT ![ResponseLength] = 0]} : SendFrame(t, data)
    BY <2>1, <2>3
  <2>5. IsResponse(data, ids[t])
    <3>1. IsResponse(good, ids[t])
      BY <2>2, <2>3, DataIs
    <3>2. IsResponse([good EXCEPT ![ResponseLength] = 0], ids[t])
      BY <3>1, WrongIs
    <3>3. QED
      BY <2>4, <3>1, <3>2
  <2>6. QED
    BY <2>2, <2>4, <2>5 DEF IsResponse
<1>2. CASE SendForeign
  <2>1. PICK data \in Foreign : SendFrame(Null, data)
    BY <1>2 DEF SendForeign
  <2>2. data \in Seq(0..255)
    BY ForeignAssumption
  <2>3. QED
    BY <2>1, <2>2
<1>3. QED
  BY <1>1, <1>2

\* What sending a frame makes of the stream.
LEMMA SendFrameIs ==
    ASSUME TypeOK, NEW t \in Reads \cup {Null}, NEW data \in Seq(0..255), SendFrame(t, data)
    PROVE  \E n \in Nat \ {0}, e \in Seq(Bytes) :
               /\ n = Len(frames) + 1 /\ Len(frames') = n /\ frames' \in Seq(FrameType)
               /\ \A k \in 1..Len(frames) : frames'[k] = frames[k]
               /\ frames'[n] = [to |-> t, data |-> data]
               /\ stream' = stream \o e /\ e # <<>> /\ e[1] = Byte(n, 0, Plus)
               /\ \A prev : (prev = Minus => SomeConfusing(frames'))
                                => InFrames(e, prev, frames')
<1>1. PICK new : new = [to |-> t, data |-> data]
  OBVIOUS
<1>2. new \in FrameType /\ new.data = data /\ frames \in Seq(FrameType) /\ Len(frames) \in Nat
  BY <1>1 DEF FrameType, TypeOK
<1>3. PICK n \in Nat \ {0} : n = Len(frames) + 1
  BY <1>2
<1>4. PICK fs : fs = frames'
  OBVIOUS
<1>5. fs = Append(frames, new)
  BY <1>1, <1>4 DEF SendFrame
<1>6. fs \in Seq(FrameType) /\ Len(fs) = n /\ fs[n] = new
      /\ \A k \in 1..Len(frames) : fs[k] = frames[k]
  BY <1>2, <1>3, <1>5, AppendProperties
<1>7. n \in 1..Len(fs) /\ fs[n].data = data
  BY <1>2, <1>6
<1>8. PICK e : e = Escaped(n, data)
  OBVIOUS
<1>9. /\ e \in Seq(Bytes) /\ e # <<>> /\ e[1] = Byte(n, 0, Plus)
      /\ \A prev : (prev = Minus => SomeConfusing(fs)) => InFrames(e, prev, fs)
  <2>1. /\ Escaped(n, data) \in Seq(Bytes) /\ Escaped(n, data) # <<>>
        /\ Escaped(n, data)[1] = Byte(n, 0, Plus)
        /\ \A prev : (prev = Minus => SomeConfusing(fs))
                         => InFrames(Escaped(n, data), prev, fs)
    <3>1. Len(fs) \in Nat
      BY <1>6
    <3>2. QED
      BY <1>7, <3>1, EscapedInFrames, Zenon
  <2>2. QED
    BY <1>8, <2>1
<1>10. stream' = stream \o e
  BY <1>4, <1>6, <1>8 DEF SendFrame
<1>11. QED
  BY <1>1, <1>3, <1>4, <1>6, <1>9, <1>10

LEMMA CollectedType ==
    ASSUME TypeOK, NEW b \in Bytes
    PROVE  /\ Collected(b) \in Seq(Bytes) /\ Len(Collected(b)) <= Len(pending_response) + 1
           /\ Len(pending_response) \in Nat
<1>1. pending_response \in Seq(Bytes) /\ Len(pending_response) \in Nat
  BY DEF TypeOK
<1>2. CASE IsData(b.byte)
  BY <1>1, <1>2, AppendProperties DEF Collected
<1>3. CASE ~IsData(b.byte)
  <2>1. <<>> \in Seq(Bytes) /\ Len(<<>>) = 0
    BY EmptySeq
  <2>2. QED
    BY <1>1, <1>3, <2>1 DEF Collected
<1>4. QED
  BY <1>2, <1>3

\* The byte recv() returns.
LEMMA HeadIs ==
    ASSUME TypeOK, stream # <<>>
    PROVE  Head(stream) \in Bytes /\ Head(stream) = stream[1] /\ Tail(stream) \in Seq(Bytes)
  BY TailIs DEF TypeOK

LEMMA FinishTypes ==
    ASSUME TypeOK, NEW result \in Results, NEW next \in Resumes, FinishPending(result, next)
    PROVE  /\ pending' \in Reads \cup {Null} /\ deadline' \in 0..Timeout
           /\ outcome' \in [Reads -> Results \cup {Open}]
           /\ pc' \in Labels /\ after' \in Resumes
<1>1. pending \in Reads
  BY DEF TypeOK, FinishPending
<1>2. outcome' \in [Reads -> Results \cup {Open}]
  BY <1>1 DEF TypeOK, FinishPending, CallBack
<1>3. QED
  BY <1>2, NamedTypes DEF FinishPending, CallBack

\* Each step keeps the types.
LEMMA InitType == Init => TypeOK
<1> SUFFICES ASSUME Init PROVE TypeOK
  OBVIOUS
<1>1. ControlTypes
  BY NamedTypes DEF Init, ControlTypes
<1>2. ReadTypes
  <2>1. scheduled \in Seq(Reads) /\ aborting \in Seq(Reads) /\ ids \in Seq(Ids) /\ issued = 0
    BY EmptySeq DEF Init
  <2>2. outcome \in [Reads -> Results \cup {Open}] /\ deadline \in 0..Timeout
    BY DEF Init
  <2>3. QED
    BY <2>1, <2>2 DEF Init, ReadTypes
<1>3. ResponseTypes
  <2>1. pending_response \in Seq(Bytes) /\ Len(pending_response) = 0
    BY EmptySeq DEF Init
  <2>2. QED
    BY <2>1, LengthsAre DEF Init, ResponseTypes
<1>4. PeerTypes
  BY EmptySeq DEF Init, PeerTypes
<1>5. QED
  BY <1>1, <1>2, <1>3, <1>4, TypeParts

LEMMA ControlTypeStep == ASSUME TypeOK, [Next]_vars PROVE ControlTypes'
<1> USE TypeParts, NamedTypes DEF ControlTypes, Go
<1>1. CASE Connect \/ (\E id \in Ids : Read(id)) \/ Tick \/ Disconnect \/ CallbackReturns
             \/ NothingToSend \/ RecvNothing \/ RecvFails \/ IgnoreResponse
             \/ Close \/ TakeScheduled \/ Closed \/ Elapse \/ UNCHANGED vars
  BY <1>1 DEF Connect, Read, Tick, Disconnect, CallbackReturns, NothingToSend, RecvNothing,
     RecvFails, IgnoreResponse, Close, TakeScheduled, Closed, Elapse, vars, Resumes, Labels
<1>2. CASE TickHook \/ AbortPending \/ FinishResponse
  <2>1. UNCHANGED connected
    BY <1>2 DEF TickHook, AbortPending, FinishResponse
  <2>2. \/ \E result \in Results, next \in Resumes : FinishPending(result, next)
        \/ pc' \in Labels /\ UNCHANGED after
    BY <1>2 DEF TickHook, AbortPending, FinishResponse
  <2>3. QED
    BY <2>1, <2>2, FinishTypes
<1>3. CASE Send \/ AbortNext
  BY <1>3 DEF Send, AbortNext, CallBack
<1>4. CASE RecvByte
  BY <1>4 DEF RecvByte
<1>5. CASE Respond \/ SendForeign
  BY <1>5 DEF Respond, SendForeign, SendFrame
<1>6. QED
  BY <1>1, <1>2, <1>3, <1>4, <1>5 DEF Next, UserStep, LibraryStep

LEMMA ReadTypeStep == ASSUME TypeOK, [Next]_vars PROVE ReadTypes'
<1> USE TypeParts, NamedTypes DEF ReadTypes
<1>1. CASE Connect \/ Tick \/ Disconnect \/ CallbackReturns \/ NothingToSend \/ RecvByte
             \/ RecvNothing \/ RecvFails \/ IgnoreResponse \/ Close \/ Closed
             \/ Respond \/ SendForeign \/ UNCHANGED vars
  BY <1>1 DEF Connect, Tick, Disconnect, CallbackReturns, NothingToSend, RecvByte, RecvNothing,
     RecvFails, IgnoreResponse, Close, Closed, Respond, SendForeign, SendFrame, readVars, vars
<1>2. CASE \E id \in Ids : Read(id)
  <2>1. PICK id \in Ids : Read(id)
    BY <1>2
  <2>2. PICK k \in Nat : k = issued
    BY LenProperties
  <2>3. PICK more : more = Append(ids, id)
    OBVIOUS
  <2>4. more \in Seq(Ids) /\ Len(more) = k + 1 /\ ids' = more /\ k + 1 \in Reads
    BY <2>1, <2>2, <2>3, AppendProperties DEF Read, Reads
  <2>5. scheduled' = Append(scheduled, k + 1)
    BY <2>1, <2>4 DEF Read
  <2>6. scheduled' \in Seq(Reads)
    BY <2>4, <2>5, AppendProperties
  <2>7. QED
    BY <2>1, <2>4, <2>6 DEF Read, Reads
<1>3. CASE TickHook \/ AbortPending \/ FinishResponse
  <2>1. UNCHANGED <<scheduled, aborting, ids>>
    BY <1>3 DEF TickHook, AbortPending, FinishResponse
  <2>2. \/ \E result \in Results, next \in Resumes : FinishPending(result, next)
        \/ UNCHANGED <<pending, deadline, outcome>>
    BY <1>3 DEF TickHook, AbortPending, FinishResponse
  <2>3. QED
    BY <2>1, <2>2, FinishTypes
<1>4. CASE Send
  <2>1. scheduled # <<>> /\ scheduled' = Tail(scheduled) /\ UNCHANGED <<aborting, ids>>
    BY <1>4 DEF Send, MaySend
  <2>2. Tail(scheduled) \in Seq(Reads) /\ Head(scheduled) \in Reads
    BY <2>1, TailIs
  <2>3. /\ pending' \in Reads \cup {Null} /\ deadline' \in 0..Timeout
        /\ outcome' \in [Reads -> Results \cup {Open}]
    <3>1. CASE pending' = Head(scheduled) /\ deadline' = Timeout /\ UNCHANGED outcome
      BY <2>2, <3>1
    <3>2. CASE UNCHANGED <<pending, deadline>>
               /\ outcome' = [outcome EXCEPT ![Head(scheduled)] = "SendFailed"]
      BY <2>2, <3>2, NamedTypes
    <3>3. QED
      BY <1>4, <3>1, <3>2 DEF Send, CallBack
  <2>4. QED
    BY <2>1, <2>2, <2>3
<1>5. CASE TakeScheduled
  BY <1>5, EmptySeq DEF TakeScheduled, MoveScheduled
<1>6. CASE AbortNext
  <2>1. aborting # <<>> /\ aborting' = Tail(aborting)
        /\ UNCHANGED <<pending, deadline, scheduled, ids>>
    BY <1>6 DEF AbortNext
  <2>2. Tail(aborting) \in Seq(Reads) /\ Head(aborting) \in Reads
    BY <2>1, TailIs
  <2>3. outcome' \in [Reads -> Results \cup {Open}]
    BY <1>6, <2>2 DEF AbortNext, CallBack
  <2>4. QED
    BY <2>1, <2>2, <2>3
<1>7. CASE Elapse
  BY <1>7 DEF Elapse
<1>8. QED
  BY <1>1, <1>2, <1>3, <1>4, <1>5, <1>6, <1>7 DEF Next, UserStep, LibraryStep

LEMMA ResponseTypeStep == ASSUME TypeOK, ResponseInv, [Next]_vars PROVE ResponseTypes'
<1> USE TypeParts DEF ResponseTypes
<1>1. CASE Connect \/ (\E id \in Ids : Read(id)) \/ Tick \/ Disconnect \/ CallbackReturns
             \/ TickHook \/ NothingToSend \/ Send \/ RecvNothing \/ RecvFails \/ AbortPending
             \/ TakeScheduled \/ AbortNext \/ Closed \/ Respond \/ SendForeign \/ Elapse
             \/ UNCHANGED vars
  BY <1>1 DEF Connect, Read, Tick, Disconnect, CallbackReturns, TickHook, NothingToSend, Send,
     RecvNothing, RecvFails, AbortPending, TakeScheduled, AbortNext, Closed, Respond,
     SendForeign, SendFrame, Elapse, responseVars, vars
<1>2. CASE IgnoreResponse \/ FinishResponse \/ Close
  <2>1. pending_response' = <<>> /\ wait_for_start' = TRUE /\ last_received_byte' \in 0..255
    BY <1>2 DEF IgnoreResponse, FinishResponse, Close, ResetPendingResponse, ResetResponse
  <2>2. <<>> \in Seq(Bytes) /\ Len(<<>>) = 0
    BY EmptySeq
  <2>3. QED
    BY <2>1, <2>2, LengthsAre
<1>3. CASE RecvByte
  <2>1. PICK b \in Bytes : b = Head(stream)
    BY <1>3, HeadIs DEF RecvByte
  <2>2. last_received_byte' = b.byte /\ b.byte \in 0..255
    BY <1>3, <2>1 DEF RecvByte, Bytes
  <2>3. /\ pending_response' = <<>> \/ pending_response' = Collected(b)
        /\ wait_for_start' \in BOOLEAN
    BY <1>3, <2>1 DEF RecvByte, ResetPendingResponse
  <2>4. Len(pending_response) < ResponseLength
    <3>1. pc # "judge"
      BY <1>3 DEF RecvByte
    <3>2. Len(pending_response) \in Nat
      BY LenProperties
    <3>3. QED
      BY <3>1, <3>2, LengthsAre DEF ResponseInv
  <2>5. Collected(b) \in Seq(Bytes) /\ Len(Collected(b)) <= ResponseLength
    <3>1. Collected(b) \in Seq(Bytes) /\ Len(Collected(b)) <= Len(pending_response) + 1
          /\ Len(pending_response) \in Nat
      BY CollectedType
    <3>2. Len(Collected(b)) \in Nat
      BY <3>1, LenProperties
    <3>3. QED
      BY <2>4, <3>1, <3>2, LengthsAre
  <2>6. <<>> \in Seq(Bytes) /\ Len(<<>>) <= ResponseLength
    BY EmptySeq, LengthsAre
  <2>7. QED
    BY <2>2, <2>3, <2>5, <2>6
<1>4. QED
  BY <1>1, <1>2, <1>3 DEF Next, UserStep, LibraryStep

LEMMA PeerTypeStep == ASSUME TypeOK, PeerInv, [Next]_vars PROVE PeerTypes'
<1> USE TypeParts DEF PeerTypes
<1>1. CASE Connect \/ (\E id \in Ids : Read(id)) \/ Tick \/ Disconnect \/ CallbackReturns
             \/ TickHook \/ NothingToSend \/ RecvNothing \/ RecvFails \/ IgnoreResponse
             \/ FinishResponse \/ AbortPending \/ TakeScheduled \/ AbortNext \/ Closed
             \/ Elapse \/ UNCHANGED vars
  BY <1>1 DEF Connect, Read, Tick, Disconnect, CallbackReturns, TickHook, NothingToSend,
     RecvNothing, RecvFails, IgnoreResponse, FinishResponse, AbortPending, TakeScheduled,
     AbortNext, Closed, Elapse, peerVars, vars
<1>2. CASE Send
  <2>1. Head(scheduled) \in Reads
    BY <1>2, TailIs DEF ReadTypes, Send, MaySend
  <2>2. requests' \subseteq Reads /\ UNCHANGED <<stream, frames, sent>>
    BY <1>2, <2>1 DEF Send
  <2>3. QED
    BY <2>2
<1>3. CASE RecvByte
  BY <1>3, HeadIs DEF RecvByte
<1>4. CASE Close
  BY <1>4, EmptySeq DEF Close
<1>5. CASE Respond \/ SendForeign
  <2>1. \A t \in requests : t <= issued
    <3>1. Len(scheduled) \in Nat /\ issued \in Nat
      BY DEF ReadTypes
    <3>2. \A t \in requests : t \in Nat
      BY DEF Reads
    <3>3. QED
      BY <3>1, <3>2 DEF PeerInv
  <2>2. PICK t \in Reads \cup {Null}, data \in Seq(0..255) : SendFrame(t, data)
    BY <1>5, <2>1, PeerSends
  <2>3. PICK e \in Seq(Bytes) : stream' = stream \o e /\ frames' \in Seq(FrameType)
    BY <2>2, SendFrameIs
  <2>4. stream' \in Seq(Bytes)
    BY <2>3, ConcatProperties
  <2>5. requests' = requests /\ sent' \in 0..MaxFrames
    BY <2>2 DEF SendFrame
  <2>6. QED
    BY <2>3, <2>4, <2>5
<1>6. QED
  BY <1>1, <1>2, <1>3, <1>4, <1>5 DEF Next, UserStep, LibraryStep

LEMMA TypeStep == ASSUME TypeOK, ResponseInv, PeerInv, [Next]_vars PROVE TypeOK'
  BY TypeParts, ControlTypeStep, ReadTypeStep, ResponseTypeStep, PeerTypeStep

-----------------------------------------------------------------------------
(* Where control may be.                                                   *)

LEMMA ControlStep == ASSUME TypeOK, ControlInv, [Next]_vars PROVE ControlInv'
<1> USE DEF Go, readVars, responseVars, peerVars
<1>1. CASE Connect \/ Tick \/ Disconnect \/ CallbackReturns \/ NothingToSend \/ RecvNothing
             \/ RecvFails \/ Closed
  BY <1>1 DEF ControlInv, At, AtMainLoop, Connect, Tick, Disconnect, CallbackReturns,
     NothingToSend, RecvNothing, RecvFails, Closed
<1>2. CASE \E id \in Ids : Read(id)
  BY <1>2 DEF ControlInv, At, Read
<1>3. CASE TickHook
  BY <1>3 DEF ControlInv, At, TickHook, FinishPending, CallBack
<1>4. CASE Send
  BY <1>4 DEF ControlInv, At, Send, MaySend, CallBack
<1>5. CASE RecvByte
  <2>1. pc = "recv" /\ pc' \in {"recv", "judge"} /\ UNCHANGED <<connected, readVars, after>>
    BY <1>5 DEF RecvByte
  <2>2. connected /\ after = "main" /\ aborting = <<>>
    BY <2>1 DEF ControlInv, At
  <2>3. QED
    BY <2>1, <2>2 DEF ControlInv, At
<1>6. CASE IgnoreResponse
  BY <1>6 DEF ControlInv, At, IgnoreResponse
<1>7. CASE FinishResponse
  <2>1. /\ pc = "judge" /\ pc' = "user" /\ after' = "recv"
        /\ UNCHANGED <<connected, aborting>>
    BY <1>7 DEF FinishResponse, FinishPending, CallBack
  <2>2. connected /\ aborting = <<>>
    BY <2>1 DEF ControlInv, At
  <2>3. QED
    BY <2>1, <2>2 DEF ControlInv, At
<1>8. CASE Close
  BY <1>8 DEF ControlInv, At, Close, ResetResponse, ResetPendingResponse
<1>9. CASE AbortPending
  BY <1>9 DEF ControlInv, At, AbortPending, FinishPending, CallBack
<1>10. CASE TakeScheduled
  BY <1>10 DEF ControlInv, At, TakeScheduled, MoveScheduled
<1>11. CASE AbortNext
  BY <1>11 DEF ControlInv, At, AbortNext, CallBack
<1>12. CASE Respond \/ SendForeign
  <2>1. pc = "recv" /\ UNCHANGED <<connected, pending, scheduled, aborting, pc, after>>
    BY <1>12 DEF Respond, SendForeign, SendFrame
  <2>2. connected /\ aborting = <<>> /\ after = "main"
    BY <2>1 DEF ControlInv, At
  <2>3. QED
    BY <2>1, <2>2 DEF ControlInv, At
<1>13. CASE Elapse
  BY <1>13 DEF ControlInv, At, Elapse
<1>14. CASE UNCHANGED vars
  BY <1>14 DEF ControlInv, At, vars
<1>15. QED
  BY <1>1, <1>2, <1>3, <1>4, <1>5, <1>6, <1>7, <1>8, <1>9, <1>10, <1>11, <1>12, <1>13,
     <1>14 DEF Next, UserStep, LibraryStep

-----------------------------------------------------------------------------
(* The order of the reads.                                                 *)

queueVars == <<pending, scheduled, aborting, issued, outcome>>

LEMMA OrderQuiet == ASSUME OrderInv, UNCHANGED queueVars PROVE OrderInv'
  BY DEF OrderInv, EndsWithLast, queueVars

\* The pending read is the first one that is open.
LEMMA OrderFinish ==
    ASSUME TypeOK, OrderInv, NEW result \in Results, NEW next, FinishPending(result, next),
           UNCHANGED <<scheduled, aborting, issued>>
    PROVE  OrderInv'
<1>1. PICK p \in Reads : p = pending
  BY DEF TypeOK, FinishPending
<1>2. p = issued - Len(scheduled) /\ aborting = <<>>
  BY <1>1 DEF OrderInv, FinishPending
<1>3. /\ outcome' = [outcome EXCEPT ![p] = result] /\ result # Open
      /\ pending' = Null
  BY <1>1 DEF FinishPending, CallBack, Results, Open
<1>4. EndsWithLast(scheduled)' /\ EndsWithLast(aborting)' /\ Len(scheduled') <= MaxScheduled
  BY DEF OrderInv, EndsWithLast
<1>5. ASSUME NEW t \in Reads
      PROVE  outcome'[t] = Open <=> t > issued - Len(scheduled) - Len(aborting)
  <2>1. Len(aborting) = 0 /\ Len(scheduled) \in Nat /\ issued \in Nat /\ t \in Nat /\ p \in Nat
    BY <1>2 DEF TypeOK, Reads
  <2>2. outcome[t] = Open <=> t > p \/ t = p
    BY <1>1, <1>2, <2>1 DEF OrderInv
  <2>3. t # p => outcome'[t] = outcome[t]
    BY <1>3 DEF TypeOK
  <2>4. outcome'[p] = result
    BY <1>3 DEF TypeOK
  <2>5. QED
    BY <1>2, <1>3, <2>1, <2>2, <2>3, <2>4
<1>6. \A t \in Reads : t # pending'
  BY <1>3 DEF Null, Reads
<1>7. QED
  BY <1>2, <1>3, <1>4, <1>5, <1>6 DEF OrderInv

\* It is accepted as the last one.
LEMMA OrderRead ==
    ASSUME TypeOK, OrderInv, ControlInv, NEW id \in Ids, Read(id)
    PROVE  OrderInv'
<1>1. issued' = issued + 1 /\ issued \in Nat /\ issued' \in Reads
  <2>1. ids \in Seq(Ids) /\ issued \in Nat /\ issued < MaxReads
    BY LenProperties DEF TypeOK, Read
  <2>2. Len(Append(ids, id)) = issued + 1
    BY <2>1, AppendProperties
  <2>3. issued' = issued + 1
    BY <2>2 DEF Read
  <2>4. QED
    BY <2>1, <2>3 DEF Reads
<1>2. PICK n \in Nat : n = Len(scheduled)
  BY DEF TypeOK
<1>3. /\ Len(scheduled') = n + 1 /\ n < MaxScheduled
      /\ \A i \in 1..n : scheduled'[i] = scheduled[i]
      /\ scheduled'[n + 1] = issued + 1
  <2>1. scheduled' = Append(scheduled, issued + 1) /\ issued + 1 \in Reads
    BY <1>1 DEF Read
  <2>2. QED
    BY <1>2, <2>1, AppendProperties DEF TypeOK, Read
<1>4. n <= issued /\ \A i \in 1..n : scheduled[i] = issued - n + i
  BY <1>2 DEF OrderInv, EndsWithLast
<1>5. EndsWithLast(scheduled)'
  BY <1>1, <1>3, <1>4 DEF EndsWithLast
<1>6. UNCHANGED <<aborting, pending, outcome>>
  BY DEF Read
<1>7. aborting = <<>> /\ Len(aborting) = 0
  BY DEF Read, ControlInv
<1>8. issued' - Len(scheduled') = issued - n /\ Len(scheduled') <= MaxScheduled
  BY <1>1, <1>3
<1>9. EndsWithLast(aborting)'
  BY <1>1, <1>6, <1>7 DEF EndsWithLast
<1>10. QED
  BY <1>2, <1>5, <1>6, <1>7, <1>8, <1>9 DEF OrderInv

\* The first scheduled read is the first one that is open.
LEMMA OrderSend == ASSUME TypeOK, OrderInv, ControlInv, Send PROVE OrderInv'
<1>1. scheduled # <<>> /\ pending = Null /\ scheduled' = Tail(scheduled)
      /\ UNCHANGED <<aborting, issued>>
  BY DEF Send, MaySend
<1>2. PICK n \in Nat \ {0} : n = Len(scheduled)
  BY <1>1, TailIs DEF TypeOK
<1>3. PICK h \in Reads : h = Head(scheduled)
  BY <1>1, TailIs DEF TypeOK
<1>4. Len(scheduled') = n - 1 /\ \A i \in 1..(n - 1) : scheduled'[i] = scheduled[i + 1]
  BY <1>1, <1>2, TailIs DEF TypeOK
<1>5. n <= issued /\ n <= MaxScheduled /\ \A i \in 1..n : scheduled[i] = issued - n + i
  BY <1>2 DEF OrderInv, EndsWithLast
<1>6. h = issued - n + 1
  <2>1. h = scheduled[1] /\ 1 \in 1..n
    BY <1>1, <1>2, <1>3, TailIs DEF TypeOK
  <2>2. QED
    BY <1>5, <2>1
<1>7. issued \in Nat
  BY DEF TypeOK
<1>8. EndsWithLast(scheduled)'
  <2>1. \A i \in 1..(n - 1) : i + 1 \in 1..n /\ issued - n + (i + 1) = issued - (n - 1) + i
    BY <1>7
  <2>2. \A i \in 1..(n - 1) : scheduled'[i] = issued - (n - 1) + i
    BY <1>4, <1>5, <2>1
  <2>3. n - 1 <= issued
    BY <1>5, <1>7
  <2>4. QED
    BY <1>1, <1>4, <2>2, <2>3 DEF EndsWithLast
<1>9. aborting = <<>> /\ Len(aborting) = 0
  BY <1>1 DEF OrderInv
<1>10. EndsWithLast(aborting)' /\ Len(scheduled') <= MaxScheduled
  BY <1>1, <1>4, <1>5, <1>7, <1>9 DEF EndsWithLast
<1>11. \A t \in Reads : outcome[t] = Open <=> t > issued - n
  BY <1>1, <1>2, <1>7, <1>9 DEF OrderInv, Null, Reads
<1>12. \A t \in Reads :
          outcome'[t] = Open <=> t > issued' - Len(scheduled') - Len(aborting')
                                 \/ t = pending'
  <2>1. CASE pending' = h /\ outcome' = outcome
    <3>1. h \in Nat /\ \A t \in Reads : t \in Nat
      BY DEF Reads
    <3>2. issued' - Len(scheduled') - Len(aborting') = issued - (n - 1)
      BY <1>1, <1>4, <1>7, <1>9
    <3>3. \A t \in Reads : t > issued - n <=> t > issued - (n - 1) \/ t = h
      BY <1>6, <1>7, <3>1
    <3>4. QED
      BY <1>11, <2>1, <3>2, <3>3
  <2>2. CASE pending' = Null /\ outcome' = [outcome EXCEPT ![h] = "SendFailed"]
    <3>1. \A t \in Reads : t # h => outcome'[t] = outcome[t]
      BY <2>2 DEF TypeOK
    <3>2. outcome'[h] = "SendFailed" /\ "SendFailed" # Open
      BY <2>2 DEF TypeOK, Open
    <3>3. QED
      <4>1. h \in Nat /\ \A t \in Reads : t \in Nat /\ t # Null
        BY DEF Reads, Null
      <4>2. issued' - Len(scheduled') - Len(aborting') = issued - (n - 1)
        BY <1>1, <1>4, <1>7, <1>9
      <4>3. \A t \in Reads : t > issued - n <=> t > issued - (n - 1) \/ t = h
        BY <1>6, <1>7, <4>1
      <4>4. ~(h > issued - (n - 1))
        BY <1>6, <1>7, <4>1
      <4>5. QED
        BY <1>11, <2>2, <3>1, <3>2, <4>1, <4>2, <4>3, <4>4
  <2>3. QED
    BY <1>1, <1>3, <2>1, <2>2 DEF Send, CallBack
<1>13. pending' \in {h, Null}
  BY <1>1, <1>3 DEF Send
<1>14. QED
  <2>1. aborting' = <<>>
    BY <1>1, <1>9
  <2>2. pending' # Null => pending' = issued' - Len(scheduled')
    <3>1. issued' - Len(scheduled') = h
      BY <1>1, <1>4, <1>6, <1>7
    <3>2. QED
      BY <1>13, <3>1
  <2>3. QED
    BY <1>8, <1>10, <1>12, <2>1, <2>2 DEF OrderInv

\* The scheduled reads are to be aborted.
LEMMA OrderTake == ASSUME TypeOK, OrderInv, ControlInv, TakeScheduled PROVE OrderInv'
<1>1. /\ pending = Null /\ aborting = <<>> /\ Len(aborting) = 0
      /\ UNCHANGED <<pending, issued, outcome>>
      /\ aborting' = scheduled /\ scheduled' = <<>> /\ Len(scheduled') = 0
  BY DEF TakeScheduled, MoveScheduled, ControlInv, At
<1>2. issued \in Nat /\ Len(scheduled) \in Nat
  BY DEF TypeOK
<1>3. QED
  BY <1>1, <1>2 DEF OrderInv, EndsWithLast

\* The first of them is aborted.
LEMMA OrderAbort == ASSUME TypeOK, OrderInv, ControlInv, AbortNext PROVE OrderInv'
<1>1. /\ aborting # <<>> /\ aborting' = Tail(aborting)
      /\ pending = Null /\ scheduled = <<>> /\ Len(scheduled) = 0
      /\ UNCHANGED <<pending, scheduled, issued>>
  BY DEF AbortNext, OrderInv, ControlInv, At
<1>2. PICK n \in Nat \ {0} : n = Len(aborting)
  BY <1>1, TailIs DEF TypeOK
<1>3. PICK h \in Reads : h = Head(aborting)
  BY <1>1, TailIs DEF TypeOK
<1>4. Len(aborting') = n - 1 /\ \A i \in 1..(n - 1) : aborting'[i] = aborting[i + 1]
  BY <1>1, <1>2, TailIs DEF TypeOK
<1>5. n <= issued /\ issued \in Nat /\ \A i \in 1..n : aborting[i] = issued - n + i
  BY <1>2 DEF OrderInv, EndsWithLast, TypeOK
<1>6. h = issued - n + 1
  <2>1. h = aborting[1] /\ 1 \in 1..n
    BY <1>1, <1>2, <1>3, TailIs DEF TypeOK
  <2>2. QED
    BY <1>5, <2>1
<1>7. EndsWithLast(aborting)' /\ EndsWithLast(scheduled)' /\ Len(scheduled') <= MaxScheduled
  BY <1>1, <1>4, <1>5 DEF EndsWithLast, OrderInv
<1>8. outcome' = [outcome EXCEPT ![h] = "Aborted"]
  BY <1>3 DEF AbortNext, CallBack
<1>9. (\A t \in Reads : t # h => outcome'[t] = outcome[t]) /\ outcome'[h] # Open
  BY <1>8 DEF TypeOK, Open
<1>10. \A t \in Reads : outcome[t] = Open <=> t > issued - n
  BY <1>1, <1>2, <1>5 DEF OrderInv, Null, Reads
<1>11. \A t \in Reads : outcome'[t] = Open <=> t > issued - (n - 1)
  <2>1. h \in Nat /\ issued \in Nat
    BY <1>5 DEF Reads
  <2>2. ASSUME NEW t \in Reads PROVE t > issued - (n - 1) <=> t > issued - n /\ t # h
    <3>1. t \in Nat
      BY DEF Reads
    <3>2. QED
      BY <1>6, <2>1, <3>1
  <2>3. QED
    BY <1>9, <1>10, <2>2
<1>12. QED
  <2>1. issued' - Len(scheduled') - Len(aborting') = issued - (n - 1) /\ scheduled' = <<>>
    BY <1>1, <1>4, <1>5
  <2>2. pending' = Null /\ \A t \in Reads : t # pending'
    BY <1>1 DEF Null, Reads
  <2>3. QED
    BY <1>7, <1>11, <2>1, <2>2 DEF OrderInv

\* Each step keeps the open reads in order.
LEMMA OrderStep == ASSUME TypeOK, ControlInv, OrderInv, [Next]_vars PROVE OrderInv'
<1>1. CASE Connect \/ Tick \/ Disconnect \/ CallbackReturns \/ NothingToSend \/ RecvByte
             \/ RecvNothing \/ RecvFails \/ IgnoreResponse \/ Close \/ Closed
             \/ Respond \/ SendForeign \/ Elapse \/ UNCHANGED vars
  <2>1. UNCHANGED queueVars
    BY <1>1 DEF queueVars, readVars, vars, Connect, Tick, Disconnect, CallbackReturns,
       NothingToSend, RecvByte, RecvNothing, RecvFails, IgnoreResponse, Close, Closed,
       Respond, SendForeign, SendFrame, Elapse
  <2>2. QED
    BY <2>1, OrderQuiet
<1>2. CASE TickHook \/ AbortPending \/ FinishResponse
  <2>1. UNCHANGED <<scheduled, aborting, issued>>
    BY <1>2 DEF TickHook, AbortPending, FinishResponse
  <2>2. \/ \E result \in Results, next \in Resumes : FinishPending(result, next)
        \/ UNCHANGED <<pending, outcome>>
    BY <1>2, NamedTypes DEF TickHook, AbortPending, FinishResponse
  <2>3. QED
    BY <2>1, <2>2, OrderFinish, OrderQuiet DEF queueVars
<1>3. CASE (\E id \in Ids : Read(id)) \/ Send \/ TakeScheduled \/ AbortNext
  BY <1>3, OrderRead, OrderSend, OrderTake, OrderAbort
<1>4. QED
  BY <1>1, <1>2, <1>3 DEF Next, UserStep, LibraryStep

-----------------------------------------------------------------------------
(* The response being received, and what it is a response to.              *)

\* The response is as it was, and control does not go to where it is judged.
LEMMA ResponseQuiet ==
    ASSUME UNCHANGED responseVars, pc' = "judge" <=> pc = "judge"
    PROVE  /\ ResponseInv => ResponseInv'
           /\ UNCHANGED <<stream, frames>> => (PlaceInv => PlaceInv')
<1>1. ResponseInv => ResponseInv'
  BY DEF ResponseInv, responseVars
<1>2. ASSUME UNCHANGED <<stream, frames>>, PlaceInv PROVE PlaceInv'
  <2>1. /\ AllDecodable' <=> AllDecodable
        /\ InFrames(stream, last_received_byte, frames)'
               <=> InFrames(stream, last_received_byte, frames)
        /\ BeginsFrame(pending_response)' <=> BeginsFrame(pending_response)
        /\ GoesOn(stream[1])' <=> GoesOn(stream[1])
    <3>1. AllDecodable' <=> AllDecodable
      BY <1>2 DEF AllDecodable
    <3>2. InFrames(stream, last_received_byte, frames)'
              <=> InFrames(stream, last_received_byte, frames)
      BY <1>2 DEF responseVars, InFrames, Prior
    <3>3. BeginsFrame(pending_response)' <=> BeginsFrame(pending_response)
      BY <1>2 DEF responseVars, BeginsFrame
    <3>4. GoesOn(stream[1])' <=> GoesOn(stream[1])
      BY <1>2, <3>1 DEF responseVars, GoesOn
    <3>5. QED
      BY <3>1, <3>2, <3>3, <3>4
  <2>2. QED
    BY <1>2, <2>1 DEF PlaceInv, responseVars
<1>3. QED
  BY <1>1, <1>2

\* The steps that do not touch it.
LEMMA QuietSteps ==
    ASSUME TypeOK,
           Connect \/ (\E id \in Ids : Read(id)) \/ Tick \/ Disconnect \/ CallbackReturns
             \/ TickHook \/ NothingToSend \/ Send \/ RecvNothing \/ RecvFails \/ AbortPending
             \/ TakeScheduled \/ AbortNext \/ Closed \/ Elapse \/ UNCHANGED vars
    PROVE  /\ UNCHANGED <<responseVars, stream, frames>>
           /\ pc' = "judge" <=> pc = "judge"
<1> USE DEF peerVars
<1>1. CASE Connect \/ (\E id \in Ids : Read(id)) \/ Tick \/ Disconnect \/ NothingToSend
             \/ RecvNothing \/ RecvFails \/ TakeScheduled \/ Closed \/ Elapse \/ UNCHANGED vars
  BY <1>1 DEF Connect, AtMainLoop, Read, Tick, Disconnect, NothingToSend, RecvNothing,
     RecvFails, TakeScheduled, Closed, Elapse, Go, vars
<1>2. CASE CallbackReturns
  BY <1>2 DEF CallbackReturns, TypeOK, Resumes
<1>3. CASE TickHook \/ AbortPending
  BY <1>3 DEF TickHook, AbortPending, FinishPending, CallBack, Go
<1>4. CASE Send \/ AbortNext
  BY <1>4 DEF Send, MaySend, AbortNext, CallBack, Go
<1>5. QED
  BY <1>1, <1>2, <1>3, <1>4

\* A byte is received.
LEMMA ResponseRecv == ASSUME TypeOK, ResponseInv, RecvByte PROVE ResponseInv'
<1>1. PICK b \in Bytes : b = Head(stream)
  BY HeadIs DEF RecvByte
<1>2. PICK k \in Nat : k = Len(pending_response)
  BY LenProperties DEF TypeOK
<1>3. pending_response \in Seq(Bytes) /\ k # ResponseLength
  BY <1>2 DEF TypeOK, RecvByte, ResponseInv
<1>4. PICK c : c = Collected(b)
  OBVIOUS
<1>5. CASE IsIgnored(c)
  <2>1. pending_response' = <<>> /\ Len(pending_response') = 0
    BY <1>1, <1>4, <1>5 DEF RecvByte, ResetPendingResponse
  <2>2. ~IsFull(c)
    <3>1. ResponseLength # 1 /\ ResponseLength # 2
      BY LengthsAre
    <3>2. Len(c) \in {1, 2}
      BY <1>5 DEF IsIgnored
    <3>3. QED
      BY <3>1, <3>2 DEF IsFull
  <2>3. pc' # "judge"
    BY <1>1, <1>4, <2>2 DEF RecvByte, Go
  <2>4. QED
    BY <2>1, <2>3, LengthsAre DEF ResponseInv
<1>6. CASE ~IsIgnored(c)
  <2>1. /\ pending_response' = c /\ wait_for_start' = (wait_for_start /\ ~Starts(b.byte))
        /\ pc' = IF IsFull(c) THEN "judge" ELSE "recv"
    BY <1>1, <1>4, <1>6 DEF RecvByte, Go
  <2>2. CASE c = pending_response \/ c = <<>>
    <3>1. ~IsFull(c)
      BY <1>2, <1>3, <2>2, LengthsAre DEF IsFull
    <3>2. wait_for_start' => c = <<>>
      BY <2>1, <2>2 DEF ResponseInv
    <3>3. (Len(c) >= 1 => c[1].byte = Response) /\ (Len(c) >= 2 => c[2].byte = Length)
      <4>1. Len(<<>>) = 0
        OBVIOUS
      <4>2. QED
        BY <2>2, <4>1 DEF ResponseInv
    <3>4. QED
      BY <2>1, <3>1, <3>2, <3>3 DEF ResponseInv, IsFull
  <2>3. CASE IsData(b.byte)
    <3>1. c = Append(pending_response, b) /\ ~wait_for_start
      BY <1>4, <2>3 DEF Collected, IsData
    <3>2. /\ c \in Seq(Bytes) /\ Len(c) = k + 1 /\ c[k + 1] = b
          /\ \A i \in 1..k : c[i] = pending_response[i]
      BY <1>2, <1>3, <3>1, AppendProperties
    <3>3. c[1].byte = Response
      <4>1. CASE k = 0
        BY <1>6, <3>2, <4>1 DEF IsIgnored
      <4>2. CASE k # 0
        BY <1>2, <3>2, <4>2 DEF ResponseInv
      <4>3. QED
        BY <4>1, <4>2
    <3>4. k >= 1 => c[2].byte = Length
      <4>1. CASE k = 1
        BY <1>6, <3>2, <4>1 DEF IsIgnored
      <4>2. CASE k > 1
        BY <1>2, <3>2, <4>2 DEF ResponseInv
      <4>3. QED
        BY <4>1, <4>2
    <3>5. Len(c) >= 2 => k >= 1
      BY <3>2
    <3>6. QED
      BY <2>1, <3>1, <3>3, <3>4, <3>5 DEF ResponseInv, IsFull
  <2>4. QED
    BY <1>4, <2>2, <2>3 DEF Collected
<1>7. QED
  BY <1>5, <1>6

LEMMA ResponseStep == ASSUME TypeOK, ResponseInv, [Next]_vars PROVE ResponseInv'
<1>1. CASE Connect \/ (\E id \in Ids : Read(id)) \/ Tick \/ Disconnect \/ CallbackReturns
             \/ TickHook \/ NothingToSend \/ Send \/ RecvNothing \/ RecvFails \/ AbortPending
             \/ TakeScheduled \/ AbortNext \/ Closed \/ Elapse \/ UNCHANGED vars
  <2>1. UNCHANGED responseVars /\ (pc' = "judge" <=> pc = "judge")
    BY <1>1, QuietSteps
  <2>2. QED
    BY <2>1, ResponseQuiet
<1>2. CASE Respond \/ SendForeign
  <2>1. UNCHANGED <<responseVars, pc>>
    BY <1>2 DEF Respond, SendForeign, SendFrame
  <2>2. QED
    BY <2>1, ResponseQuiet
<1>3. CASE IgnoreResponse \/ FinishResponse \/ Close
  <2>1. pending_response' = <<>> /\ pc' # "judge" /\ Len(pending_response') = 0
    BY <1>3 DEF IgnoreResponse, FinishResponse, Close, ResetPendingResponse, ResetResponse,
       FinishPending, CallBack, Go
  <2>2. QED
    BY <2>1, LengthsAre DEF ResponseInv
<1>4. CASE RecvByte
  BY <1>4, ResponseRecv
<1>5. QED
  BY <1>1, <1>2, <1>3, <1>4 DEF Next, UserStep, LibraryStep

LEMMA PeerQuiet ==
    ASSUME TypeOK, PeerInv, UNCHANGED <<requests, frames, ids>>, Len(scheduled') \in Nat,
           Len(scheduled') <= Len(scheduled)
    PROVE  PeerInv'
<1>1. Len(scheduled) \in Nat /\ issued \in Nat /\ issued' = issued
  BY DEF TypeOK
<1>2. \A t \in requests : t \in Nat
  BY DEF TypeOK, Reads
<1>3. \A n \in 1..Len(frames) : Answers(frames[n])' <=> Answers(frames[n])
  BY DEF Answers
<1>4. \A t \in requests : t <= issued - Len(scheduled')
  BY <1>1, <1>2 DEF PeerInv
<1>5. QED
  BY <1>1, <1>3, <1>4 DEF PeerInv

LEMMA PeerRead ==
    ASSUME TypeOK, PeerInv, NEW id \in Ids, Read(id)
    PROVE  PeerInv'
<1>1. PICK k \in Nat : k = issued /\ ids \in Seq(Ids)
  BY LenProperties DEF TypeOK
<1>2. PICK n \in Nat : n = Len(scheduled)
  BY LenProperties DEF TypeOK
<1>3. PICK more : more = Append(ids, id)
  OBVIOUS
<1>4. Len(more) = k + 1 /\ \A i \in 1..k : more[i] = ids[i]
  BY <1>1, <1>3, AppendProperties
<1>5. ids' = more /\ issued' = k + 1 /\ scheduled' = Append(scheduled, k + 1) /\ k + 1 \in Reads
  BY <1>1, <1>3, <1>4 DEF Read, Reads
<1>6. Len(scheduled') = n + 1
  BY <1>2, <1>5, AppendProperties DEF TypeOK
<1>7. UNCHANGED <<requests, frames>> /\ issued' - Len(scheduled') = k - n
  BY <1>5, <1>6 DEF Read, peerVars
<1>8. \A t \in requests : t <= k - n /\ t \in 1..k
  BY <1>1, <1>2 DEF PeerInv, TypeOK, Reads
<1>9. ASSUME NEW j \in 1..Len(frames), Answers(frames[j]) PROVE Answers(frames[j])'
  <2>1. frames[j].to \in 1..k
    BY <1>8, <1>9 DEF Answers
  <2>2. ids'[frames[j].to] = ids[frames[j].to]
    BY <1>4, <1>5, <2>1
  <2>3. QED
    BY <1>7, <1>9, <2>2 DEF Answers
<1>10. QED
  BY <1>7, <1>8, <1>9 DEF PeerInv

LEMMA PeerSend == ASSUME TypeOK, OrderInv, PeerInv, Send PROVE PeerInv'
<1>1. scheduled # <<>> /\ scheduled' = Tail(scheduled) /\ UNCHANGED <<ids, frames>>
      /\ requests' \in {requests, requests \cup {Head(scheduled)}}
  BY DEF Send, MaySend
<1>2. PICK n \in Nat \ {0} : n = Len(scheduled) /\ Len(scheduled') = n - 1
  BY <1>1, TailIs DEF TypeOK
<1>3. issued \in Nat /\ issued' = issued
  BY <1>1 DEF TypeOK
<1>4. Head(scheduled) = issued - n + 1
  <2>1. Head(scheduled) = scheduled[1] /\ 1 \in 1..n
    BY <1>1, TailIs DEF TypeOK
  <2>2. QED
    BY <1>2, <2>1 DEF OrderInv, EndsWithLast
<1>5. \A t \in requests : t \in Nat /\ t <= issued - n
  BY <1>2 DEF PeerInv, TypeOK, Reads
<1>6. \A t \in requests' : t <= issued' - Len(scheduled')
  BY <1>1, <1>2, <1>3, <1>4, <1>5
<1>7. ASSUME NEW j \in 1..Len(frames), Answers(frames[j]) PROVE Answers(frames[j])'
  BY <1>1, <1>7 DEF Answers
<1>8. QED
  BY <1>1, <1>6, <1>7 DEF PeerInv

LEMMA PeerFrame ==
    ASSUME TypeOK, PeerInv, Respond \/ SendForeign
    PROVE  PeerInv'
<1>1. \A t \in requests : t <= issued
  <2>1. Len(scheduled) \in Nat /\ issued \in Nat
    BY DEF TypeOK
  <2>2. \A t \in requests : t \in Nat
    BY DEF TypeOK, Reads
  <2>3. QED
    BY <2>1, <2>2 DEF PeerInv
<1>2. PICK t \in Reads \cup {Null}, data \in Seq(0..255) :
          /\ SendFrame(t, data)
          /\ \/ t \in requests /\ IsResponse(data, ids[t])
             \/ data \in Foreign
  BY <1>1, PeerSends
<1>3. PICK n \in Nat \ {0} :
          /\ n = Len(frames) + 1 /\ Len(frames') = n
          /\ \A k \in 1..Len(frames) : frames'[k] = frames[k]
          /\ frames'[n] = [to |-> t, data |-> data]
  BY <1>2, SendFrameIs
<1>4. UNCHANGED <<requests, ids, scheduled>> /\ issued' = issued
  BY <1>2 DEF SendFrame, readVars
<1>5. ASSUME NEW j \in 1..n PROVE Answers(frames[j])' \/ frames'[j].data \in Foreign
  <2>1. CASE j = n
    BY <1>2, <1>3, <1>4, <2>1 DEF Answers, IsResponse
  <2>2. CASE j # n
    <3>1. j \in 1..Len(frames) /\ frames'[j] = frames[j]
      BY <1>3, <2>2
    <3>2. QED
      BY <1>4, <3>1 DEF PeerInv, Answers
  <2>3. QED
    BY <2>1, <2>2
<1>6. QED
  BY <1>3, <1>4, <1>5 DEF PeerInv

LEMMA PeerStep == ASSUME TypeOK, OrderInv, PeerInv, [Next]_vars PROVE PeerInv'
<1>1. CASE Connect \/ Tick \/ Disconnect \/ CallbackReturns \/ TickHook \/ NothingToSend
             \/ RecvByte \/ RecvNothing \/ RecvFails \/ IgnoreResponse \/ FinishResponse
             \/ AbortPending \/ TakeScheduled \/ AbortNext \/ Closed \/ Elapse
             \/ UNCHANGED vars
  <2>1. UNCHANGED <<requests, frames, ids>>
    BY <1>1 DEF Connect, Tick, Disconnect, CallbackReturns, TickHook, NothingToSend, RecvByte,
       RecvNothing, RecvFails, IgnoreResponse, FinishResponse, AbortPending, TakeScheduled,
       AbortNext, Closed, Elapse, readVars, peerVars, vars
  <2>2. scheduled' \in {scheduled, <<>>}
    BY <1>1 DEF Connect, Tick, Disconnect, CallbackReturns, TickHook, NothingToSend, RecvByte,
       RecvNothing, RecvFails, IgnoreResponse, FinishResponse, AbortPending, TakeScheduled,
       MoveScheduled, AbortNext, Closed, Elapse, readVars, peerVars, vars
  <2>3. Len(scheduled) \in Nat /\ Len(<<>>) = 0
    BY DEF TypeOK
  <2>4. Len(scheduled') \in Nat /\ Len(scheduled') <= Len(scheduled)
    BY <2>2, <2>3
  <2>5. QED
    BY <2>1, <2>4, PeerQuiet
<1>2. CASE \E id \in Ids : Read(id)
  BY <1>2, PeerRead
<1>3. CASE Send
  BY <1>3, PeerSend
<1>4. CASE Close
  <2>1. requests' = {} /\ frames' = <<>> /\ Len(frames') = 0
    BY <1>4 DEF Close
  <2>2. QED
    BY <2>1 DEF PeerInv
<1>5. CASE Respond \/ SendForeign
  BY <1>5, PeerFrame
<1>6. QED
  BY <1>1, <1>2, <1>3, <1>4, <1>5 DEF Next, UserStep, LibraryStep

-----------------------------------------------------------------------------
(* The place of the decoder in the stream.                                 *)

\* What is known of a frame.
LEMMA FrameIs ==
    ASSUME TypeOK, PeerInv, NEW n \in 1..Len(frames), NEW data, data = frames[n].data
    PROVE  /\ data \in Seq(0..255) /\ Len(data) \in Nat /\ Len(data) >= 2
           /\ ~IsSkipped(data) => Len(data) = ResponseLength
<1>1. frames[n] \in FrameType
  <2>1. frames \in Seq(FrameType)
    BY DEF TypeOK, FrameType
  <2>2. QED
    BY <2>1, ElementOfSeq
<1>2. data \in Seq(0..255) /\ Len(data) \in Nat
  BY <1>1, LenProperties DEF FrameType
<1>3. CASE Answers(frames[n])
  BY <1>2, <1>3, LengthsAre DEF Answers
<1>4. CASE frames[n].data \in Foreign
  BY <1>2, <1>4, ForeignAssumption
<1>5. QED
  BY <1>3, <1>4 DEF PeerInv

\* What the decoder makes of a byte that is in its place.
Decoded(b, next) ==
    /\ BeginsFrame(pending_response)'
    /\ stream' = <<>> => (pc' # "judge" => wait_for_start')
    /\ stream' # <<>> => GoesOn(next)'

\* The next byte to decode, and the one after it.
Follow(b, next) ==
    /\ b \in Bytes /\ b = Head(stream)
    /\ Right(b, last_received_byte, stream' = <<>>, next, frames)
    /\ stream' # <<>> => Fits(next, b.byte, frames[next.frame].data)

LEMMA ClearIs ==
    ASSUME NEW data, Len(data) \in Nat
    PROVE  /\ Clear(data, 0)
           /\ \A k \in Nat : IsDecodable(data) /\ k <= Len(data) => Clear(data, k)
           /\ \A k \in Nat : Clear(data, k + 1) => Clear(data, k)
  BY DEF Clear, IsDecodable

\* While it waits for a start.
LEMMA DecodeWaiting ==
    ASSUME TypeOK, ResponseInv, PeerInv, RecvByte, wait_for_start,
           NEW b, NEW next, Follow(b, next),
           AllDecodable => b.pos = 0 \/ IsSkipped(frames[b.frame].data)
    PROVE  Decoded(b, next)
<1>1. ~IsData(b.byte) /\ pending_response = <<>> /\ Collected(b) = <<>>
  BY DEF IsData, Collected, ResponseInv
<1>2. Len(<<>>) = 0 /\ ~IsIgnored(<<>>) /\ ~IsFull(<<>>)
  BY LengthsAre DEF IsIgnored, IsFull
<1>3. /\ pending_response' = <<>> /\ wait_for_start' = ~Starts(b.byte) /\ pc' = "recv"
      /\ last_received_byte' = b.byte /\ UNCHANGED frames
  BY <1>1, <1>2 DEF RecvByte, Go, Follow
<1>4. BeginsFrame(pending_response)'
  BY <1>2, <1>3 DEF BeginsFrame
<1>5. PICK d : d = frames[b.frame].data
  OBVIOUS
<1>6. /\ b.frame \in 1..Len(frames) /\ Len(d) \in Nat /\ Len(d) >= 2
      /\ Fits(b, last_received_byte, d) /\ b.pos \in 0..Len(d)
  BY <1>5, FrameIs DEF Right, Fits, Follow
<1>7. CASE Starts(b.byte)
  <2>1. b.pos = 0 /\ ~b.escape
    BY <1>6, <1>7 DEF Starts, Fits, Plus, Minus
  <2>2. b.pos < Len(d) /\ ~Ends(b, d)
    BY <1>6, <2>1 DEF Ends
  <2>3. stream' # <<>> /\ Leads(b, d, next)
    BY <1>5, <2>2 DEF Right, Follow
  <2>4. next.pos = 1
    BY <2>1, <2>2, <2>3 DEF Leads
  <2>5. 1 \in 1..(Len(<<>>) + 1) /\ Len(<<>>) + 1 = 1
    BY <1>2
  <2>6. b.byte # Minus
    BY <1>7 DEF Starts, Plus, Minus
  <2>7. GoesOn(next)'
    BY <1>3, <1>7, <2>4, <2>5, <2>6 DEF GoesOn
  <2>8. QED
    BY <1>4, <2>3, <2>7 DEF Decoded
<1>8. CASE ~Starts(b.byte)
  <2>1. AllDecodable => b.pos # 0
    BY <1>6, <1>8 DEF Starts, Fits, Right, Follow, SomeConfusing, AllDecodable
  <2>2. AllDecodable => IsSkipped(d)
    BY <1>5, <2>1
  <2>3. ASSUME stream' # <<>>
        PROVE  next.pos = 0 \/ next.frame = b.frame
    BY <1>5, <2>3 DEF Right, Leads, Byte, Follow
  <2>4. stream' # <<>> => (AllDecodable => next.pos = 0 \/ IsSkipped(frames[next.frame].data))
    BY <1>5, <2>2, <2>3
  <2>5. AllDecodable' <=> AllDecodable
    BY <1>3 DEF AllDecodable
  <2>6. stream' # <<>> => GoesOn(next)'
    BY <1>3, <1>8, <2>4, <2>5 DEF GoesOn
  <2>7. QED
    BY <1>3, <1>4, <1>8, <2>6 DEF Decoded
<1>9. QED
  BY <1>7, <1>8

\* An escape.
LEMMA DecodeEscape ==
    ASSUME TypeOK, ResponseInv, BeginsFrame(pending_response), RecvByte, ~wait_for_start,
           NEW b, NEW next, Follow(b, next), GoesOn(b),
           b.byte = Minus, last_received_byte # Minus
    PROVE  Decoded(b, next)
<1>1. PICK k \in Nat : k = Len(pending_response)
  BY LenProperties DEF TypeOK
<1>2. PICK n \in 1..Len(frames) : n = b.frame
  BY DEF Right, Follow
<1>3. PICK d : d = frames[n].data
  OBVIOUS
<1>4. /\ b.pos \in 1..(k + 1) /\ b.pos # 0 /\ b.pos \in 0..Len(d)
      /\ pending_response # <<>> => pending_response[1].frame = n
      /\ Clear(d, k) => b.pos = k + 1
  <2>1. /\ b.pos \in 1..(k + 1)
        /\ pending_response # <<>> => pending_response[1].frame = n
        /\ Clear(d, k) => b.pos = k + 1
    BY <1>1, <1>2, <1>3 DEF GoesOn, RecvByte
  <2>2. b.pos \in 0..Len(d)
    BY <1>2, <1>3 DEF Follow, Right, Fits
  <2>3. b.pos # 0
    BY <2>1
  <2>4. QED
    BY <2>1, <2>2, <2>3
<1>5. b.escape
  BY <1>2, <1>3, <1>4 DEF Follow, Right, Fits
<1>6. stream' # <<>> /\ next = Byte(n, b.pos, d[b.pos])
  BY <1>2, <1>3, <1>5 DEF Follow, Right, Ends, Leads
<1>7. next.pos = b.pos /\ next.frame = n /\ next.escape = FALSE
  BY <1>6 DEF Byte
<1>8. ~IsData(b.byte) /\ ~Starts(b.byte)
  BY DEF IsData, Starts, Plus, Minus
<1>9. Collected(b) = pending_response
  BY <1>8 DEF Collected
<1>10. ~IsIgnored(pending_response) /\ ~IsFull(pending_response)
  BY <1>1 DEF IsIgnored, IsFull, ResponseInv, RecvByte
<1>11. /\ pending_response' = pending_response /\ wait_for_start' = FALSE /\ pc' = "recv"
       /\ UNCHANGED frames
  BY <1>9, <1>10 DEF RecvByte, Go, Follow
<1>12. BeginsFrame(pending_response)'
  BY <1>11 DEF BeginsFrame
<1>13. GoesOn(next)'
  BY <1>1, <1>3, <1>4, <1>7, <1>11 DEF GoesOn
<1>14. QED
  BY <1>6, <1>12, <1>13 DEF Decoded

\* A byte of data.
LEMMA DecodeData ==
    ASSUME TypeOK, ResponseInv, PeerInv, BeginsFrame(pending_response), RecvByte,
           ~wait_for_start,
           NEW b, NEW next, Follow(b, next), GoesOn(b),
           b.byte \notin {Plus, Minus} \/ last_received_byte = Minus
    PROVE  Decoded(b, next)
<1>1. PICK k \in Nat : k = Len(pending_response)
  BY LenProperties DEF TypeOK
<1>2. PICK n \in 1..Len(frames) : n = b.frame
  BY DEF Right, Follow
<1>3. PICK d : d = frames[n].data
  OBVIOUS
<1>4. /\ d \in Seq(0..255) /\ Len(d) \in Nat /\ Len(d) >= 2
      /\ ~IsSkipped(d) => Len(d) = ResponseLength
  BY <1>3, FrameIs
<1>5. /\ b \in Bytes /\ b.pos \in 1..(k + 1) /\ b.pos # 0 /\ b.pos \in 0..Len(d)
      /\ pending_response # <<>> => pending_response[1].frame = n
      /\ Clear(d, k) => b.pos = k + 1 /\ (b.escape => last_received_byte # Minus)
  <2>1. /\ b.pos \in 1..(k + 1)
        /\ pending_response # <<>> => pending_response[1].frame = n
        /\ Clear(d, k) => b.pos = k + 1 /\ (b.escape => last_received_byte # Minus)
    BY <1>1, <1>2, <1>3 DEF GoesOn, RecvByte
  <2>2. b \in Bytes /\ b.pos \in 0..Len(d)
    BY <1>2, <1>3 DEF Follow, Right, Fits
  <2>3. b.pos # 0
    BY <2>1
  <2>4. QED
    BY <2>1, <2>2, <2>3
<1>6. ASSUME Clear(d, k)
      PROVE  b = Byte(n, k + 1, d[k + 1]) /\ k + 1 <= Len(d)
             /\ b.pos = k + 1 /\ b.escape = FALSE /\ b.byte = d[k + 1]
  <2>1. b.pos = k + 1 /\ (b.escape => last_received_byte # Minus)
    BY <1>5, <1>6
  <2>2. ~b.escape /\ b.byte = d[b.pos]
    BY <1>2, <1>3, <1>5, <2>1 DEF Follow, Right, Fits
  <2>3. b = Byte(n, k + 1, d[k + 1]) /\ b.escape = FALSE
    BY <1>2, <1>5, <2>1, <2>2 DEF Bytes, Byte
  <2>4. k + 1 <= Len(d)
    BY <1>4, <1>5, <2>1
  <2>5. QED
    BY <2>1, <2>2, <2>3, <2>4
<1>7. PICK c : c = Append(pending_response, b)
  OBVIOUS
<1>8. Collected(b) = c
  BY <1>7 DEF Collected, IsData
<1>9. /\ c \in Seq(Bytes) /\ Len(c) = k + 1 /\ c[k + 1] = b
      /\ \A i \in 1..k : c[i] = pending_response[i]
  BY <1>1, <1>5, <1>7, AppendProperties DEF TypeOK
<1>10. /\ c[1].frame = n
       /\ \A i \in 1..(k + 1) : /\ c[i].frame = n
                                /\ Clear(d, i - 1) => i <= Len(d) /\ c[i] = Byte(n, i, d[i])
  <2>1. ASSUME NEW i \in 1..k
        PROVE  /\ c[i].frame = n
               /\ Clear(d, i - 1) => i <= Len(d) /\ c[i] = Byte(n, i, d[i])
    <3>1. pending_response # <<>>
      BY <1>1, <2>1
    <3>2. pending_response[1].frame = n /\ i \in 1..Len(pending_response)
      BY <1>1, <1>5, <3>1
    <3>3. /\ pending_response[i].frame = n
          /\ Clear(d, i - 1) => i <= Len(d) /\ pending_response[i] = Byte(n, i, d[i])
      BY <1>3, <3>2 DEF BeginsFrame
    <3>4. QED
      BY <1>9, <3>3
  <2>2. /\ c[k + 1].frame = n
        /\ Clear(d, k) => k + 1 <= Len(d) /\ c[k + 1] = Byte(n, k + 1, d[k + 1])
    BY <1>2, <1>6, <1>9
  <2>3. ASSUME NEW i \in 1..(k + 1)
        PROVE  /\ c[i].frame = n
               /\ Clear(d, i - 1) => i <= Len(d) /\ c[i] = Byte(n, i, d[i])
    <3>1. CASE i = k + 1
      <4>1. i - 1 = k
        BY <3>1
      <4>2. QED
        BY <2>2, <3>1, <4>1
    <3>2. CASE i # k + 1
      <4>1. i \in 1..k
        BY <3>2
      <4>2. QED
        BY <2>1, <4>1
    <3>3. QED
      BY <3>1, <3>2
  <2>4. c[1].frame = n
    <3>1. 1 \in 1..(k + 1)
      OBVIOUS
    <3>2. QED
      BY <2>3, <3>1
  <2>5. QED
    BY <2>3, <2>4
<1>11. c[1].byte = d[1]
  <2>1. 1 \in 1..(k + 1) /\ 1 - 1 = 0
    OBVIOUS
  <2>2. Clear(d, 0)
    BY <1>4, ClearIs
  <2>3. c[1] = Byte(n, 1, d[1])
    BY <1>10, <2>1, <2>2
  <2>4. QED
    BY <2>3 DEF Byte
<1>12. ASSUME k >= 1 PROVE d[1] = Response /\ c[2].byte = d[2]
  <2>1. d[1] = Response
    <3>1. pending_response[1].byte = Response /\ 1 \in 1..k
      BY <1>1, <1>12 DEF ResponseInv
    <3>2. QED
      BY <1>9, <1>11, <3>1
  <2>2. Clear(d, 1)
    BY <2>1 DEF Clear, Response, Minus
  <2>3. 2 \in 1..(k + 1) /\ 2 - 1 = 1
    BY <1>12
  <2>4. c[2] = Byte(n, 2, d[2])
    BY <1>10, <2>2, <2>3
  <2>5. QED
    BY <2>1, <2>4 DEF Byte
<1>13. CASE IsIgnored(c)
  <2>1. IsSkipped(d) /\ ~IsFull(c)
    <3>1. CASE k = 0
      BY <1>9, <1>11, <1>13, <3>1, LengthsAre DEF IsIgnored, IsSkipped, IsFull
    <3>2. CASE k >= 1
      BY <1>9, <1>12, <1>13, <3>2, LengthsAre DEF IsIgnored, IsSkipped, IsFull
    <3>3. QED
      BY <3>1, <3>2
  <2>2. /\ pending_response' = <<>> /\ wait_for_start' = TRUE /\ pc' = "recv"
        /\ UNCHANGED frames
    BY <1>8, <1>13, <2>1 DEF RecvByte, ResetPendingResponse, Go, Follow
  <2>3. BeginsFrame(pending_response)'
    <3>1. Len(<<>>) = 0
      OBVIOUS
    <3>2. QED
      BY <2>2, <3>1 DEF BeginsFrame
  <2>4. ASSUME stream' # <<>> PROVE next.pos = 0 \/ next.frame = n
    BY <1>2, <2>4 DEF Right, Leads, Byte, Follow
  <2>5. stream' # <<>> => next.pos = 0 \/ IsSkipped(frames[next.frame].data)
    BY <1>3, <2>1, <2>4
  <2>6. QED
    BY <2>2, <2>3, <2>5 DEF Decoded, GoesOn
<1>14. CASE ~IsIgnored(c)
  <2>1. /\ pending_response' = c /\ wait_for_start' = FALSE
        /\ pc' = IF IsFull(c) THEN "judge" ELSE "recv"
        /\ last_received_byte' = b.byte /\ UNCHANGED frames
    BY <1>8, <1>14 DEF RecvByte, Go, Follow
  <2>2. BeginsFrame(pending_response)'
    <3>1. \A i \in 1..Len(c) : LET f == c[1].frame IN
              /\ f \in 1..Len(frames)
              /\ c[i].frame = f
              /\ Clear(frames[f].data, i - 1) =>
                     i <= Len(frames[f].data) /\ c[i] = Byte(f, i, frames[f].data[i])
      BY <1>3, <1>9, <1>10
    <3>2. QED
      BY <2>1, <3>1 DEF BeginsFrame
  <2>3. k >= 1 => Len(d) = ResponseLength
    <3>1. ASSUME k >= 1 PROVE d[2] = Length
      <4>1. CASE k = 1
        BY <1>9, <1>12, <1>14, <4>1 DEF IsIgnored
      <4>2. CASE k > 1
        <5>1. pending_response[2].byte = Length /\ 2 \in 1..k
          BY <1>1, <4>2 DEF ResponseInv
        <5>2. QED
          BY <1>9, <1>12, <3>1, <5>1
      <4>3. QED
        BY <3>1, <4>1, <4>2
    <3>2. QED
      BY <1>4, <1>12, <3>1 DEF IsSkipped
  <2>4. ASSUME Clear(d, k), ~(k + 1 < Len(d)), stream' # <<>> PROVE next.pos = 0
    BY <1>2, <1>3, <1>6, <2>4 DEF Follow, Right, Leads
  <2>5. CASE IsFull(c)
    <3>1. pc' = "judge" /\ k + 1 = Len(d) /\ k <= Len(d)
      BY <1>9, <2>1, <2>3, <2>5, LengthsAre DEF IsFull
    <3>2. ASSUME AllDecodable PROVE Clear(d, k)
      <4>1. IsDecodable(d)
        BY <1>3, <3>2 DEF AllDecodable
      <4>2. QED
        BY <1>4, <3>1, <4>1, ClearIs
    <3>3. ~(k + 1 < Len(d))
      BY <3>1
    <3>4. stream' # <<>> => (AllDecodable => next.pos = 0)
      BY <2>4, <3>2, <3>3
    <3>5. AllDecodable' <=> AllDecodable
      BY <2>1 DEF AllDecodable
    <3>6. stream' # <<>> => GoesOn(next)'
      BY <3>1, <3>4, <3>5 DEF GoesOn
    <3>7. QED
      BY <2>2, <3>1, <3>6 DEF Decoded
  <2>6. CASE ~IsFull(c)
    <3>1. pc' = "recv"
      BY <2>1, <2>6
    <3>2. k + 1 < Len(d)
      <4>1. CASE k = 0
        BY <1>4, <4>1
      <4>2. CASE k # 0
        <5>1. k <= ResponseLength /\ k # ResponseLength /\ ResponseLength \in Nat
          BY <1>1, LengthsAre DEF TypeOK, ResponseInv, RecvByte
        <5>2. k + 1 # ResponseLength
          BY <1>9, <2>6 DEF IsFull
        <5>3. QED
          BY <2>3, <4>2, <5>1, <5>2
      <4>3. QED
        BY <4>1, <4>2
    <3>3. b.pos < Len(d) /\ ~Ends(b, d)
      BY <1>4, <1>5, <3>2 DEF Ends
    <3>4. stream' # <<>> /\ Leads(b, d, next)
      BY <1>2, <1>3, <3>3 DEF Right, Follow
    <3>5. next.frame = n /\ next.pos \in {b.pos, b.pos + 1}
      BY <1>2, <3>3, <3>4 DEF Leads, Byte
    <3>6. next.pos \in 1..((k + 1) + 1)
      BY <1>5, <3>5
    <3>7. ASSUME Clear(d, k + 1)
          PROVE  next.pos = (k + 1) + 1 /\ (next.escape => b.byte # Minus)
      <4>1. Clear(d, k)
        BY <1>4, <3>7, ClearIs
      <4>2. next.pos = (k + 1) + 1
        BY <1>6, <3>3, <3>4, <4>1 DEF Leads
      <4>3. ASSUME next.escape, b.byte = Minus PROVE FALSE
        <5>1. d[k + 1] = Minus /\ k + 1 \in 1..(k + 1)
          BY <1>6, <4>1, <4>3
        <5>2. d[(k + 1) + 1] \notin {Plus, Minus}
          BY <3>7, <5>1 DEF Clear
        <5>3. d[next.pos] \in {Plus, Minus}
          <6>1. next.pos # 0
            BY <4>2
          <6>2. QED
            BY <1>3, <3>4, <3>5, <4>3, <6>1 DEF Follow, Fits
        <5>4. QED
          BY <4>2, <5>2, <5>3
      <4>4. QED
        BY <4>2, <4>3
    <3>8. GoesOn(next)'
      BY <1>3, <1>9, <1>10, <2>1, <3>1, <3>5, <3>6, <3>7 DEF GoesOn
    <3>9. QED
      BY <2>2, <3>4, <3>8 DEF Decoded
  <2>7. QED
    BY <2>5, <2>6
<1>15. QED
  BY <1>13, <1>14

LEMMA PlaceRecv ==
    ASSUME TypeOK, ResponseInv, PeerInv, PlaceInv, RecvByte
    PROVE  PlaceInv'
<1>1. UNCHANGED frames /\ stream # <<>> /\ stream' = Tail(stream) /\ pc = "recv"
  BY DEF RecvByte
<1>2. /\ InFrames(stream, last_received_byte, frames)
      /\ BeginsFrame(pending_response)
      /\ GoesOn(stream[1])
  BY <1>1 DEF PlaceInv
<1>3. PICK b \in Bytes : b = Head(stream) /\ b = stream[1]
  BY <1>1, HeadIs
<1>4. PICK next : next = stream'[1]
  OBVIOUS
<1>5. last_received_byte' = b.byte /\ stream \in Seq(Bytes)
  BY <1>3 DEF RecvByte, TypeOK
<1>6. /\ Right(b, last_received_byte, stream' = <<>>, next, frames)
      /\ InFrames(Tail(stream), b.byte, frames)
  <2>1. InFrames(stream, last_received_byte, frames) /\ stream \in Seq(Bytes) /\ stream # <<>>
    BY <1>1, <1>2, <1>5
  <2>2. /\ Right(stream[1], last_received_byte, Tail(stream) = <<>>, Tail(stream)[1], frames)
        /\ InFrames(Tail(stream), stream[1].byte, frames)
    BY <2>1, TailInFrames
  <2>3. stream' = Tail(stream) /\ next = Tail(stream)[1] /\ b = stream[1]
    BY <1>1, <1>3, <1>4
  <2>4. QED
    BY <2>2, <2>3
<1>7. InFrames(stream, last_received_byte, frames)'
  BY <1>1, <1>5, <1>6
<1>8. Follow(b, next)
  <2> SUFFICES ASSUME stream' # <<>>
               PROVE  Fits(next, b.byte, frames[next.frame].data)
    BY <1>3, <1>6 DEF Follow
  <2>1. PICK s \in Seq(Bytes) : s = Tail(stream) /\ s # <<>> /\ s[1] = next
    BY <1>1, <1>4, <1>5, TailIs
  <2>2. Right(s[1], b.byte, Tail(s) = <<>>, Tail(s)[1], frames)
    BY <1>6, <2>1, TailInFrames
  <2>3. QED
    BY <2>1, <2>2 DEF Right
<1>9. stream' = <<>> /\ b.byte = Minus => ~AllDecodable'
  <2> SUFFICES ASSUME Tail(stream) = <<>>, b.byte = Minus PROVE ~AllDecodable
    BY <1>1 DEF AllDecodable
  <2>1. Len(stream) = 1
    <3>1. Len(Tail(stream)) = Len(stream) - 1 /\ Len(stream) \in Nat /\ Len(Tail(stream)) = 0
      BY <1>1, <1>5, TailIs
    <3>2. QED
      BY <3>1
  <2>2. SomeConfusing(frames)
    <3>1. \A n \in 1..Len(frames) : Len(frames[n].data) \in Nat
      BY FrameIs
    <3>2. stream[Len(stream)].byte = Minus
      BY <1>3, <2>1
    <3>3. QED
      BY <1>1, <1>2, <1>5, <3>1, <3>2, LastIsPlain
  <2>3. QED
    BY <2>2 DEF SomeConfusing, AllDecodable
<1>10. Decoded(b, next)
  <2>1. CASE wait_for_start
    BY <1>1, <1>2, <1>3, <1>8, <2>1, DecodeWaiting DEF GoesOn
  <2>2. CASE ~wait_for_start
    <3>1. GoesOn(b)
      BY <1>2, <1>3
    <3>2. CASE b.byte \notin {Plus, Minus} \/ last_received_byte = Minus
      BY <1>2, <1>8, <2>2, <3>1, <3>2, DecodeData
    <3>3. CASE b.byte = Minus /\ last_received_byte # Minus
      BY <1>2, <1>8, <2>2, <3>1, <3>3, DecodeEscape
    <3>4. CASE b.byte = Plus /\ last_received_byte # Minus
      <4>1. b.pos # 0
        <5>1. Len(pending_response) \in Nat
          BY DEF TypeOK
        <5>2. QED
          BY <1>1, <2>2, <3>1, <5>1 DEF GoesOn
      <4>2. QED
        BY <1>6, <3>4, <4>1 DEF Right, Fits, Plus, Minus
    <3>5. QED
      BY <3>2, <3>3, <3>4
  <2>3. QED
    BY <2>1, <2>2
<1>11. stream' # <<>> => GoesOn(stream[1])'
  BY <1>4, <1>10 DEF Decoded, GoesOn
<1>12. QED
  BY <1>5, <1>7, <1>9, <1>10, <1>11 DEF Decoded, PlaceInv

LEMMA PlaceFrame ==
    ASSUME TypeOK, PeerInv, PlaceInv, Respond \/ SendForeign
    PROVE  PlaceInv'
<1>1. \A t \in requests : t <= issued
  <2>1. Len(scheduled) \in Nat /\ issued \in Nat
    BY DEF TypeOK
  <2>2. \A t \in requests : t \in Nat
    BY DEF TypeOK, Reads
  <2>3. QED
    BY <2>1, <2>2 DEF PeerInv
<1>2. PICK t \in Reads \cup {Null}, data \in Seq(0..255) : SendFrame(t, data)
  BY <1>1, PeerSends
<1>3. PICK n \in Nat \ {0}, e \in Seq(Bytes) :
          /\ n = Len(frames) + 1 /\ Len(frames') = n /\ frames' \in Seq(FrameType)
          /\ \A k \in 1..Len(frames) : frames'[k] = frames[k]
          /\ frames'[n] = [to |-> t, data |-> data]
          /\ stream' = stream \o e /\ e # <<>> /\ e[1] = Byte(n, 0, Plus)
          /\ \A prev : (prev = Minus => SomeConfusing(frames')) => InFrames(e, prev, frames')
  BY <1>2, SendFrameIs, ZenonT(30)
<1>4. /\ UNCHANGED <<pc, wait_for_start, last_received_byte, pending_response>>
      /\ pc = "recv" /\ stream \in Seq(Bytes) /\ Len(frames) \in Nat
  BY <1>2 DEF SendFrame, responseVars, Respond, SendForeign, TypeOK
<1>5. /\ InFrames(stream, last_received_byte, frames)
      /\ BeginsFrame(pending_response)
      /\ stream = <<>> => wait_for_start /\ (last_received_byte = Minus => ~AllDecodable)
      /\ stream # <<>> => GoesOn(stream[1])
  BY <1>4 DEF PlaceInv
<1>6. PICK fs : fs = frames'
  OBVIOUS
<1>7. /\ Len(fs) = n /\ Len(frames) <= Len(fs) /\ Len(fs) \in Nat
      /\ \A k \in 1..Len(frames) : fs[k] = frames[k]
      /\ \A k \in 1..Len(fs) : Len(fs[k].data) \in Nat
  <2>1. /\ n = Len(frames) + 1 /\ Len(fs) = n /\ fs \in Seq(FrameType)
        /\ \A k \in 1..Len(frames) : fs[k] = frames[k]
    BY <1>3, <1>6
  <2>2. Len(frames) \in Nat
    BY <1>4
  <2>3. ASSUME NEW k \in 1..Len(fs) PROVE Len(fs[k].data) \in Nat
    <3>1. fs[k] \in FrameType
      BY <2>1, ElementOfSeq
    <3>2. QED
      BY <3>1 DEF FrameType
  <2>4. QED
    BY <2>1, <2>2, <2>3
<1>8. /\ AllDecodable' <=> ~SomeConfusing(fs)
      /\ AllDecodable' => AllDecodable
  <2>1. AllDecodable' <=> ~SomeConfusing(fs)
    BY <1>6 DEF AllDecodable, SomeConfusing
  <2>2. 1..Len(frames) \subseteq 1..Len(fs)
    BY <1>4, <1>7
  <2>3. ASSUME AllDecodable' PROVE AllDecodable
    <3>1. \A k \in 1..Len(fs) : IsDecodable(fs[k].data)
      BY <1>6, <2>3 DEF AllDecodable
    <3>2. QED
      BY <1>7, <2>2, <3>1 DEF AllDecodable
  <2>4. QED
    BY <2>1, <2>3
<1>9. BeginsFrame(pending_response)'
  <2>1. ASSUME NEW i \in 1..Len(pending_response), NEW f, f = pending_response[1].frame
        PROVE  /\ f \in 1..Len(fs) /\ pending_response[i].frame = f
               /\ Clear(fs[f].data, i - 1) =>
                      i <= Len(fs[f].data) /\ pending_response[i] = Byte(f, i, fs[f].data[i])
    <3>1. /\ f \in 1..Len(frames) /\ pending_response[i].frame = f
          /\ Clear(frames[f].data, i - 1) =>
                 /\ i <= Len(frames[f].data)
                 /\ pending_response[i] = Byte(f, i, frames[f].data[i])
      BY <1>5, <2>1 DEF BeginsFrame
    <3>2. f \in 1..Len(fs) /\ fs[f] = frames[f]
      BY <1>4, <1>7, <3>1
    <3>3. QED
      BY <3>1, <3>2
  <2>2. QED
    BY <1>4, <1>6, <2>1 DEF BeginsFrame
<1>10. InFrames(stream, last_received_byte, fs)
  BY <1>4, <1>5, <1>7, MoreFrames
<1>11. e[1].pos = 0
  BY <1>3 DEF Byte
<1>12. CASE stream = <<>>
  <2>1. stream' = e
    BY <1>3, <1>12, ConcatEmptySeq
  <2>2. InFrames(e, last_received_byte, fs)
    BY <1>3, <1>5, <1>6, <1>8, <1>12
  <2>3. GoesOn(stream[1])'
    BY <1>4, <1>5, <1>11, <1>12, <2>1 DEF GoesOn
  <2>4. QED
    BY <1>3, <1>4, <1>6, <1>9, <2>1, <2>2, <2>3 DEF PlaceInv
<1>13. CASE stream # <<>>
  <2>1. PICK joined : joined = stream \o e
    OBVIOUS
  <2>2. PICK last : last = stream[Len(stream)]
    OBVIOUS
  <2>3. last.byte = Minus => SomeConfusing(fs)
    BY <1>4, <1>7, <1>10, <1>13, <2>2, LastIsPlain
  <2>4. InFrames(e, last.byte, fs)
    BY <1>3, <1>6, <2>3
  <2>5. InFrames(joined, last_received_byte, fs)
    BY <1>3, <1>4, <1>10, <1>11, <1>13, <2>1, <2>2, <2>4, JoinInFrames
  <2>6. Len(stream) \in Nat \ {0} /\ 1 \in 1..Len(stream)
    BY <1>4, <1>13, TailIs
  <2>7. joined \in Seq(Bytes) /\ Len(joined) = Len(stream) + Len(e) /\ joined[1] = stream[1]
    BY <1>4, <2>1, <2>6, JoinIs
  <2>8. joined # <<>>
    <3>1. Len(e) \in Nat
      BY <1>3
    <3>2. Len(joined) # 0
      BY <2>6, <2>7, <3>1
    <3>3. QED
      BY <3>2
  <2>9. stream[1].frame \in 1..Len(frames)
    <3>1. Right(stream[1], Prior(stream, last_received_byte, 1), 1 = Len(stream),
                stream[1 + 1], frames)
      BY <1>5, <2>6 DEF InFrames
    <3>2. QED
      BY <3>1 DEF Right
  <2>10. GoesOn(stream[1])'
    <3>1. stream'[1] = stream[1] /\ fs[stream[1].frame] = frames[stream[1].frame]
      BY <1>3, <1>7, <2>1, <2>7, <2>9
    <3>2. GoesOn(stream[1])
      BY <1>5, <1>13
    <3>3. QED
      BY <1>4, <1>6, <1>8, <3>1, <3>2 DEF GoesOn
  <2>11. QED
    BY <1>3, <1>4, <1>6, <1>9, <2>1, <2>5, <2>8, <2>10 DEF PlaceInv
<1>14. QED
  BY <1>12, <1>13

\* Each step keeps the decoder in its place.
LEMMA PlaceStep ==
    ASSUME TypeOK, ResponseInv, PeerInv, PlaceInv, [Next]_vars
    PROVE  PlaceInv'
<1>1. CASE Connect \/ (\E id \in Ids : Read(id)) \/ Tick \/ Disconnect \/ CallbackReturns
             \/ TickHook \/ NothingToSend \/ Send \/ RecvNothing \/ RecvFails \/ AbortPending
             \/ TakeScheduled \/ AbortNext \/ Closed \/ Elapse \/ UNCHANGED vars
  <2>1. UNCHANGED <<responseVars, stream, frames>> /\ (pc' = "judge" <=> pc = "judge")
    BY <1>1, QuietSteps
  <2>2. QED
    BY <2>1, ResponseQuiet
<1>2. CASE IgnoreResponse \/ FinishResponse
  <2>1. /\ pc = "judge" /\ pc' # "judge" /\ pending_response' = <<>> /\ wait_for_start' = TRUE
        /\ UNCHANGED <<last_received_byte, stream, frames>>
    BY <1>2 DEF IgnoreResponse, FinishResponse, ResetPendingResponse, FinishPending, CallBack,
       Go, peerVars
  <2>2. /\ InFrames(stream, last_received_byte, frames)
        /\ stream = <<>> /\ last_received_byte = Minus => ~AllDecodable
        /\ stream # <<>> => (AllDecodable => stream[1].pos = 0)
    BY <2>1 DEF PlaceInv, GoesOn
  <2>3. BeginsFrame(pending_response)'
    <3>1. Len(<<>>) = 0
      OBVIOUS
    <3>2. QED
      BY <2>1, <3>1 DEF BeginsFrame
  <2>4. InFrames(stream, last_received_byte, frames)'
    BY <2>1, <2>2
  <2>5. AllDecodable' <=> AllDecodable
    BY <2>1 DEF AllDecodable
  <2>6. stream' # <<>> => GoesOn(stream[1])'
    BY <2>1, <2>2, <2>5 DEF GoesOn
  <2>7. QED
    BY <2>1, <2>2, <2>3, <2>4, <2>5, <2>6 DEF PlaceInv
<1>3. CASE Close
  <2>1. /\ stream' = <<>> /\ last_received_byte' = 0 /\ wait_for_start' = TRUE
        /\ pending_response' = <<>>
    BY <1>3 DEF Close, ResetResponse, ResetPendingResponse
  <2>2. Len(<<>>) = 0 /\ 0 # Minus
    BY DEF Minus
  <2>3. BeginsFrame(pending_response)' /\ InFrames(stream, last_received_byte, frames)'
    BY <2>1, <2>2 DEF BeginsFrame, InFrames
  <2>4. QED
    BY <2>1, <2>2, <2>3 DEF PlaceInv
<1>4. CASE RecvByte
  BY <1>4, PlaceRecv
<1>5. CASE Respond \/ SendForeign
  BY <1>5, PlaceFrame
<1>6. QED
  BY <1>1, <1>2, <1>3, <1>4, <1>5 DEF Next, UserStep, LibraryStep

-----------------------------------------------------------------------------
(* The invariant.                                                          *)

LEMMA Initially == Init => IInv
<1> SUFFICES ASSUME Init PROVE IInv
  OBVIOUS
<1>1. TypeOK
  BY InitType
<1>2. /\ Len(scheduled) = 0 /\ Len(aborting) = 0 /\ issued = 0 /\ Len(pending_response) = 0
      /\ Len(stream) = 0 /\ Len(frames) = 0 /\ pending_response = <<>>
  BY DEF Init
<1>3. ControlInv
  BY DEF Init, ControlInv, At
<1>4. OrderInv
  BY <1>2 DEF Init, OrderInv, EndsWithLast, Reads, Null
<1>5. ResponseInv
  <2>1. ResponseLength # 0
    BY LengthsAre
  <2>2. QED
    BY <1>2, <2>1 DEF Init, ResponseInv
<1>6. PeerInv
  BY <1>2 DEF Init, PeerInv
<1>7. PlaceInv
  BY <1>2 DEF Init, PlaceInv, InFrames, BeginsFrame, Minus
<1>8. QED
  BY <1>1, <1>3, <1>4, <1>5, <1>6, <1>7 DEF IInv

LEMMA Inductive == IInv /\ [Next]_vars => IInv'
<1> SUFFICES ASSUME IInv, [Next]_vars PROVE IInv'
  OBVIOUS
<1>1. TypeOK /\ ControlInv /\ OrderInv /\ ResponseInv /\ PeerInv /\ PlaceInv
  BY DEF IInv
<1>2. TypeOK'
  BY <1>1, TypeStep
<1>3. ControlInv' /\ OrderInv' /\ ResponseInv' /\ PeerInv'
  BY <1>1, ControlStep, OrderStep, ResponseStep, PeerStep
<1>4. PlaceInv'
  BY <1>1, PlaceStep
<1>5. QED
  BY <1>2, <1>3, <1>4 DEF IInv

\* The invariant, which the theorems below follow from, holds in every reachable state.
THEOREM Invariance == Spec => []IInv
<1>1. Init => IInv
  BY Initially
<1>2. IInv /\ [Next]_vars => IInv'
  BY Inductive
<1>3. QED
  BY <1>1, <1>2, PTL DEF Spec

\* Every variable has the type of the C++ member it stands for, and pending_response
\* does not outgrow its buffer.
THEOREM TypeCorrect == Spec => []TypeOK
<1>1. IInv => TypeOK
  BY DEF IInv
<1>2. QED
  BY <1>1, Invariance, PTL

LEMMA InStepHolds == IInv => InStep
<1> SUFFICES ASSUME IInv, AllDecodable PROVE InStep
  BY DEF InStep
<1>1. TypeOK /\ PeerInv /\ PlaceInv
  BY DEF IInv
<1>2. BeginsFrame(pending_response) /\ (stream # <<>> => GoesOn(stream[1]))
  BY <1>1 DEF PlaceInv
<1>3. \A n \in 1..Len(frames) : IsDecodable(frames[n].data) /\ Len(frames[n].data) \in Nat
  BY <1>1, FrameIs DEF AllDecodable
<1>4. ASSUME NEW n \in 1..Len(pending_response), NEW f, f = pending_response[1].frame
      PROVE  f \in 1..Len(frames) /\ n <= Len(frames[f].data)
             /\ pending_response[n] = Byte(f, n, frames[f].data[n])
  <2> DEFINE S == {i \in Nat : i + 1 <= n => Clear(frames[f].data, i)
                                             /\ i + 1 <= Len(frames[f].data)}
  <2>1. n \in Nat /\ n >= 1 /\ n <= Len(pending_response) /\ Len(pending_response) \in Nat
    BY <1>1 DEF TypeOK
  <2>2. f \in 1..Len(frames)
    BY <1>2, <1>4 DEF BeginsFrame
  <2>3. PICK d : d = frames[f].data
    OBVIOUS
  <2>4. IsDecodable(d) /\ Len(d) \in Nat
    BY <1>3, <2>2, <2>3
  <2>5. ASSUME NEW i \in 1..n, Clear(d, i - 1)
        PROVE  i <= Len(d) /\ pending_response[i] = Byte(f, i, d[i])
    <3>1. i \in 1..Len(pending_response)
      BY <2>1
    <3>2. QED
      BY <1>2, <1>4, <2>3, <2>5, <3>1 DEF BeginsFrame
  <2>6. 0 \in S
    <3>1. Clear(d, 0) /\ 1 \in 1..n /\ 1 - 1 = 0
      BY <2>1, <2>4, ClearIs
    <3>2. 1 <= Len(d)
      BY <2>5, <3>1
    <3>3. QED
      BY <2>3, <3>1, <3>2
  <2>7. ASSUME NEW i \in S PROVE i + 1 \in S
    <3> SUFFICES ASSUME (i + 1) + 1 <= n
                 PROVE  Clear(d, i + 1) /\ (i + 1) + 1 <= Len(d)
      BY <2>3
    <3>1. i + 1 <= Len(d) /\ i + 1 \in Nat
      BY <2>1, <2>3
    <3>2. Clear(d, i + 1)
      BY <2>4, <3>1, ClearIs
    <3>3. (i + 1) + 1 \in 1..n /\ ((i + 1) + 1) - 1 = i + 1
      BY <2>1
    <3>4. QED
      BY <2>5, <3>2, <3>3
  <2>8. \A i \in Nat : i \in S
    <3>1. S \in SUBSET Nat
      OBVIOUS
    <3> HIDE DEF S
    <3>2. QED
      BY <2>6, <2>7, <3>1, SetInduction
  <2>9. Clear(d, n - 1)
    <3>1. n - 1 \in Nat /\ (n - 1) + 1 <= n
      BY <2>1
    <3>2. n - 1 \in S
      BY <2>8, <3>1
    <3>3. QED
      BY <2>3, <3>1, <3>2
  <2>10. n \in 1..n
    BY <2>1
  <2>11. QED
    BY <2>2, <2>3, <2>5, <2>9, <2>10
<1>5. stream # <<>> => Head(stream) = stream[1] /\ stream[1].frame \in 1..Len(frames)
  <2> SUFFICES ASSUME stream # <<>>
               PROVE  Head(stream) = stream[1] /\ stream[1].frame \in 1..Len(frames)
    OBVIOUS
  <2>1. stream \in Seq(Bytes) /\ InFrames(stream, last_received_byte, frames)
    BY <1>1 DEF TypeOK, PlaceInv
  <2>2. Right(stream[1], last_received_byte, Tail(stream) = <<>>, Tail(stream)[1], frames)
    BY <2>1, TailInFrames
  <2>3. QED
    BY <2>1, <2>2 DEF Right
<1>6. ASSUME stream # <<>>, pc # "judge", ~wait_for_start
      PROVE  Clear(frames[stream[1].frame].data, Len(pending_response))
  <2>1. PICK k \in Nat : k = Len(pending_response)
    BY <1>1 DEF TypeOK
  <2>2. PICK d : d = frames[stream[1].frame].data
    OBVIOUS
  <2>3. IsDecodable(d) /\ Len(d) \in Nat
    BY <1>3, <1>5, <1>6, <2>2
  <2>4. CASE k = 0
    BY <2>1, <2>2, <2>3, <2>4, ClearIs
  <2>5. CASE k # 0
    <3>1. pending_response # <<>>
      BY <2>1, <2>5
    <3>2. pending_response[1].frame = stream[1].frame
      BY <1>2, <1>6, <3>1 DEF GoesOn
    <3>3. k \in 1..Len(pending_response)
      BY <2>1, <2>5
    <3>4. k <= Len(d)
      BY <1>4, <2>2, <3>2, <3>3
    <3>5. QED
      BY <2>1, <2>2, <2>3, <3>4, ClearIs
  <2>6. QED
    BY <2>4, <2>5
<1>7. \A n \in 1..Len(pending_response) :
          pending_response[n] =
              Byte(pending_response[1].frame, n, frames[pending_response[1].frame].data[n])
  BY <1>4
<1>8. stream # <<>> /\ pc # "judge" =>
          LET next == Head(stream) IN
          IF wait_for_start
          THEN next.pos = 0 \/ IsSkipped(frames[next.frame].data)
          ELSE /\ next.pos = Len(pending_response) + 1
               /\ pending_response # <<>> => pending_response[1].frame = next.frame
  BY <1>2, <1>5, <1>6 DEF GoesOn
<1>9. QED
  BY <1>7, <1>8 DEF InStep

\* The decoder never loses its place in a stream of frames it can tell apart: what
\* recv_hook() has collected is the beginning of one frame, and the next byte goes on
\* from there.
THEOREM AlwaysInStep == Spec => []InStep
<1>1. IInv => InStep
  BY InStepHolds
<1>2. QED
  BY <1>1, Invariance, PTL

-----------------------------------------------------------------------------
(* The value of a read.                                                    *)

\* What is judged is of a frame that responds to a read that was sent, and is the whole
\* of it, if the decoder can tell it apart.
LEMMA JudgedIs ==
    ASSUME IInv, pc = "judge", NEW n, n = pending_response[1].frame
    PROVE  /\ n \in 1..Len(frames) /\ Answers(frames[n])
           /\ IsDecodable(frames[n].data) => frames[n].data = Received
<1>1. TypeOK /\ ResponseInv /\ PeerInv /\ PlaceInv
  BY DEF IInv
<1>2. PICK k \in Nat : k = ResponseLength /\ k >= 4
  BY LengthsAre
<1>3. Len(pending_response) = k
  BY <1>1, <1>2 DEF ResponseInv
<1>4. n \in 1..Len(frames)
  <2>1. BeginsFrame(pending_response) /\ 1 \in 1..k
    BY <1>1, <1>2 DEF PlaceInv
  <2>2. QED
    BY <1>3, <2>1 DEF BeginsFrame
<1>5. PICK d \in Seq(0..255) : d = frames[n].data /\ Len(d) \in Nat
  BY <1>1, <1>4, FrameIs
<1>6. \A i \in 1..k : Clear(d, i - 1) => i <= Len(d) /\ pending_response[i].byte = d[i]
  <2>1. BeginsFrame(pending_response)
    BY <1>1 DEF PlaceInv
  <2>2. \A i \in 1..k : Clear(d, i - 1) => i <= Len(d) /\ pending_response[i] = Byte(n, i, d[i])
    BY <1>3, <1>5, <2>1 DEF BeginsFrame
  <2>3. \A i : Byte(n, i, d[i]).byte = d[i]
    BY DEF Byte
  <2>4. QED
    BY <2>2, <2>3
<1>7. d[1] = Response /\ d[2] = Length
  <2>1. 1 \in 1..k /\ 2 \in 1..k /\ 1 - 1 = 0 /\ 2 - 1 = 1
    BY <1>2
  <2>2. pending_response[1].byte = Response /\ pending_response[2].byte = Length
    BY <1>1, <1>2, <1>3 DEF ResponseInv
  <2>3. Clear(d, 0)
    BY <1>5, ClearIs
  <2>4. d[1] = Response
    BY <1>6, <2>1, <2>2, <2>3
  <2>5. Clear(d, 1)
    BY <2>4 DEF Clear, Response, Minus
  <2>6. d[2] = Length
    BY <1>6, <2>1, <2>2, <2>5
  <2>7. QED
    BY <2>4, <2>6
<1>8. ~(d \in Foreign)
  BY <1>7, ForeignAssumption DEF IsSkipped
<1>9. Answers(frames[n])
  BY <1>1, <1>4, <1>5, <1>8 DEF PeerInv
<1>10. Len(d) = k
  BY <1>2, <1>5, <1>9 DEF Answers
<1>11. ASSUME IsDecodable(d) PROVE d = Received
  <2>1. ASSUME NEW i \in 1..k PROVE Clear(d, i - 1)
    <3>1. i - 1 \in Nat /\ i - 1 <= Len(d)
      BY <1>10
    <3>2. QED
      BY <1>5, <1>11, <3>1, ClearIs
  <2>2. \A i \in 1..k : pending_response[i].byte = d[i]
    BY <1>6, <2>1
  <2>3. Received = [i \in 1..k |-> d[i]]
    BY <1>3, <2>2 DEF Received
  <2>4. d = [i \in 1..k |-> d[i]]
    BY <1>10
  <2>5. QED
    BY <2>3, <2>4
<1>12. QED
  BY <1>4, <1>5, <1>9, <1>11

ValueStep ==
    \A t \in Reads :
        outcome[t] = Open /\ outcome'[t] \in {"Success", "ChecksumMismatch"} =>
            LET frame == frames[pending_response[1].frame] IN
            /\ frame.to \in requests /\ frame.to <= t
            /\ IsDecodable(frame.data) =>
                   /\ ids[frame.to] = ids[t]
                   /\ frame.data = Received
                   /\ outcome'[t] = "Success" <=> IsValid(frame.data)

\* A read that ends otherwise does not end with a value.
LEMMA NoValue ==
    ASSUME TypeOK, NEW u \in Reads, NEW result \in {"Timeout", "Aborted", "SendFailed"},
           outcome' = [outcome EXCEPT ![u] = result]
    PROVE  ValueStep
<1>1. ASSUME NEW t \in Reads, outcome[t] = Open, outcome'[t] \in {"Success", "ChecksumMismatch"}
      PROVE  FALSE
  <2>1. outcome'[t] = IF t = u THEN result ELSE outcome[t]
    BY DEF TypeOK
  <2>2. QED
    BY <1>1, <2>1 DEF Open
<1>2. QED
  BY <1>1 DEF ValueStep

LEMMA ValueFinish == ASSUME IInv, FinishResponse PROVE ValueStep
<1>1. TypeOK /\ OrderInv /\ PeerInv
  BY DEF IInv
<1>2. PICK frame : frame = frames[pending_response[1].frame]
  OBVIOUS
<1> SUFFICES ASSUME NEW t \in Reads,
                    outcome[t] = Open, outcome'[t] \in {"Success", "ChecksumMismatch"}
             PROVE  /\ frame.to \in requests /\ frame.to <= t
                    /\ IsDecodable(frame.data) =>
                           /\ ids[frame.to] = ids[t]
                           /\ frame.data = Received
                           /\ outcome'[t] = "Success" <=> IsValid(frame.data)
  BY <1>2 DEF ValueStep
<1>3. PICK r : r = IF IsValid(Received) THEN "Success" ELSE "ChecksumMismatch"
  OBVIOUS
<1>4. pending # Null /\ outcome' = [outcome EXCEPT ![pending] = r] /\ pc = "judge"
      /\ Received[3] = ids[pending]
  BY <1>3 DEF FinishResponse, FinishPending, CallBack, Matches
<1>5. t = pending
  <2>1. pending \in Reads /\ outcome'[t] = IF t = pending THEN r ELSE outcome[t]
    BY <1>1, <1>4 DEF TypeOK
  <2>2. QED
    BY <2>1 DEF Open
<1>6. outcome'[t] = r
  BY <1>1, <1>4, <1>5 DEF TypeOK
<1>7. Answers(frame) /\ (IsDecodable(frame.data) => frame.data = Received)
  BY <1>2, <1>4, JudgedIs
<1>8. frame.to \in requests
  BY <1>7 DEF Answers
<1>9. frame.to <= t
  BY <1>1, <1>4, <1>5, <1>8 DEF OrderInv, PeerInv
<1>10. ASSUME IsDecodable(frame.data)
       PROVE  /\ ids[frame.to] = ids[t] /\ frame.data = Received
              /\ outcome'[t] = "Success" <=> IsValid(frame.data)
  <2>1. frame.data = Received
    BY <1>7, <1>10
  <2>2. ids[frame.to] = ids[t]
    BY <1>4, <1>5, <1>7, <2>1 DEF Answers
  <2>3. outcome'[t] = "Success" <=> IsValid(frame.data)
    <3>1. r = "Success" <=> IsValid(Received)
      BY <1>3
    <3>2. QED
      BY <1>6, <2>1, <3>1
  <2>4. QED
    BY <2>1, <2>2, <2>3
<1>11. QED
  BY <1>8, <1>9, <1>10

LEMMA ValueSteps == IInv /\ [Next]_vars => ValueStep \/ UNCHANGED vars
<1> SUFFICES ASSUME IInv, [Next]_vars PROVE ValueStep
  OBVIOUS
<1>1. TypeOK
  BY DEF IInv
<1>2. ASSUME UNCHANGED outcome PROVE ValueStep
  BY <1>2 DEF ValueStep, Open
<1>3. CASE Connect \/ (\E id \in Ids : Read(id)) \/ Tick \/ Disconnect \/ CallbackReturns
             \/ NothingToSend \/ RecvByte \/ RecvNothing \/ RecvFails \/ IgnoreResponse
             \/ Close \/ TakeScheduled \/ Closed
             \/ Respond \/ SendForeign \/ Elapse \/ UNCHANGED vars
  <2>1. UNCHANGED outcome
    BY <1>3 DEF readVars, vars, Connect, Read, Tick, Disconnect, CallbackReturns,
       NothingToSend, RecvByte, RecvNothing, RecvFails, IgnoreResponse, Close, TakeScheduled,
       Closed, Respond, SendForeign, SendFrame, Elapse
  <2>2. QED
    BY <1>2, <2>1
<1>4. CASE TickHook \/ AbortPending
  <2>1. CASE UNCHANGED outcome
    BY <1>2, <2>1
  <2>2. CASE \E result \in {"Timeout", "Aborted"} :
                 pending # Null /\ outcome' = [outcome EXCEPT ![pending] = result]
    BY <1>1, <2>2, NoValue DEF TypeOK
  <2>3. QED
    BY <1>4, <2>1, <2>2 DEF TickHook, AbortPending, FinishPending, CallBack
<1>5. CASE Send
  <2>1. CASE UNCHANGED outcome
    BY <1>2, <2>1
  <2>2. CASE outcome' = [outcome EXCEPT ![Head(scheduled)] = "SendFailed"]
    <3>1. Head(scheduled) \in Reads
      BY <1>1, <1>5, TailIs DEF TypeOK, Send, MaySend
    <3>2. QED
      BY <1>1, <2>2, <3>1, NoValue
  <2>3. QED
    BY <1>5, <2>1, <2>2 DEF Send, CallBack
<1>6. CASE AbortNext
  <2>1. Head(aborting) \in Reads
    BY <1>1, <1>6, TailIs DEF TypeOK, AbortNext
  <2>2. outcome' = [outcome EXCEPT ![Head(aborting)] = "Aborted"]
    BY <1>6 DEF AbortNext, CallBack
  <2>3. QED
    BY <1>1, <2>1, <2>2, NoValue
<1>7. CASE FinishResponse
  BY <1>7, ValueFinish
<1>8. QED
  BY <1>3, <1>4, <1>5, <1>6, <1>7 DEF Next, UserStep, LibraryStep

\* A read ends with the value, or with the wrong checksum, of a frame that the peer sent
\* over this connection, in response to this read or to an earlier one; if the decoder can
\* tell that frame apart, whatever frames were before it, the read is of the same id, and
\* has the value and the checksum that were sent.
THEOREM ValuesAreOwn == Spec => OwnValue
<1>1. IInv /\ [Next]_vars => ValueStep \/ UNCHANGED vars
  BY ValueSteps
<1>2. Spec => [][ValueStep]_vars
  BY <1>1, Invariance, PTL DEF Spec
<1>3. QED
  BY <1>2, PTL DEF OwnValue, ValueStep

-----------------------------------------------------------------------------
(* The contract.                                                           *)

Pending == IF pending = Null THEN <<>> ELSE <<pending>>

Queue == Pending \o aborting \o scheduled

Status == [t \in Reads |->
              IF outcome[t] # Open THEN outcome[t]
              ELSE IF t <= issued THEN "open" ELSE "unused"]

\* How many reads are open.
OpenCount == Len(Pending) + Len(aborting) + Len(scheduled)

\* The queue is a run of reads that ends with the one accepted last.
QueueFacts ==
    /\ OpenCount \in Nat /\ issued \in Nat /\ OpenCount <= issued
    /\ Queue \in Seq(Reads) /\ Len(Queue) = OpenCount
    /\ \A i \in 1..OpenCount : Queue[i] = issued - OpenCount + i
    /\ \A t \in Reads : outcome[t] = Open <=> t > issued - OpenCount

LEMMA QueueIs == TypeOK /\ OrderInv => QueueFacts
<1> SUFFICES ASSUME TypeOK, OrderInv PROVE QueueFacts
  OBVIOUS
<1> USE DEF QueueFacts
<1>1. /\ scheduled \in Seq(Reads) /\ aborting \in Seq(Reads)
      /\ issued \in Nat /\ Len(scheduled) \in Nat /\ Len(aborting) \in Nat
  BY DEF TypeOK
<1>2. CASE pending # Null
  <2>1. PICK p \in Reads : p = pending
    BY <1>2 DEF TypeOK
  <2>2. p = issued - Len(scheduled) /\ aborting = <<>> /\ Len(aborting) = 0
    BY <2>1, <1>2 DEF OrderInv
  <2>3. Pending = <<p>> /\ Len(Pending) = 1
    BY <1>2, <2>1 DEF Pending
  <2>4. <<p>> \in Seq(Reads) /\ <<p>> \o <<>> = <<p>>
    OBVIOUS
  <2>5. Queue = <<p>> \o scheduled
    BY <2>2, <2>3, <2>4 DEF Queue
  <2>6. PICK n \in Nat : n = Len(scheduled)
    BY <1>1
  <2>7. PICK q : q = <<p>> \o scheduled
    OBVIOUS
  <2>8. q \in Seq(Reads) /\ Len(q) = 1 + n
        /\ q[1] = p /\ \A i \in 1..n : q[1 + i] = scheduled[i]
    <3>1. PICK one : one = <<p>>
      OBVIOUS
    <3>2. one \in Seq(Reads) /\ Len(one) = 1 /\ one[1] = p
      BY <3>1
    <3>3. one \in Seq(Reads) /\ scheduled \in Seq(Reads)
      BY <1>1, <3>2
    <3>4. /\ one \o scheduled \in Seq(Reads)
          /\ Len(one \o scheduled) = Len(one) + Len(scheduled)
          /\ \A i \in 1..Len(one) : (one \o scheduled)[i] = one[i]
          /\ \A i \in 1..Len(scheduled) : (one \o scheduled)[Len(one) + i] = scheduled[i]
      BY <3>3, JoinIs
    <3>5. q = one \o scheduled
      BY <2>7, <3>1
    <3>6. QED
      BY <2>6, <3>2, <3>4, <3>5
  <2>9. OpenCount = 1 + n
    BY <2>2, <2>3, <2>6 DEF OpenCount
  <2>10. n <= issued /\ n <= MaxScheduled /\ \A i \in 1..n : scheduled[i] = issued - n + i
    BY <2>6 DEF OrderInv, EndsWithLast
  <2>11. p \in Nat \ {0} /\ p = issued - n
    BY <2>2, <2>6 DEF Reads
  <2>12. ASSUME NEW i \in 1..(1 + n) PROVE q[i] = issued - (1 + n) + i
    <3>1. CASE i = 1
      BY <1>1, <2>8, <2>11, <3>1
    <3>2. CASE i # 1
      <4>1. PICK k \in 1..n : i = 1 + k
        <5>1. PICK k \in 1..n : k = i - 1
          BY <3>2
        <5>2. QED
          BY <5>1
      <4>2. q[1 + k] = issued - n + k
        BY <2>8, <2>10
      <4>3. issued - n + k = issued - (1 + n) + (1 + k)
        BY <1>1
      <4>4. QED
        BY <4>1, <4>2, <4>3
    <3>3. QED
      BY <3>1, <3>2
  <2>13. \A t \in Reads : outcome[t] = Open <=> t > issued - (1 + n)
    <3>1. \A t \in Reads : outcome[t] = Open <=> t > issued - n - 0 \/ t = p
      BY <2>1, <2>2, <2>6 DEF OrderInv
    <3>2. \A t \in Reads : t \in Nat
      BY DEF Reads
    <3>3. \A t \in Reads : t > issued - (1 + n) <=> t > issued - n - 0 \/ t = p
      BY <1>1, <2>11, <3>2
    <3>4. QED
      BY <3>1, <3>3
  <2>14. QED
    BY <1>1, <2>5, <2>7, <2>8, <2>9, <2>10, <2>11, <2>12, <2>13
<1>3. CASE pending = Null
  <2>1. Pending = <<>> /\ Len(Pending) = 0
    BY <1>3 DEF Pending
  <2>2. PICK q \in {aborting, scheduled} :
           Queue = q /\ OpenCount = Len(q) /\ Len(q) = Len(aborting) + Len(scheduled)
    <3>1. <<>> \o aborting = aborting
      BY <1>1, ConcatEmptySeq
    <3>2. Queue = aborting \o scheduled
      BY <2>1, <3>1 DEF Queue
    <3>3. CASE aborting = <<>>
      <4>1. <<>> \o scheduled = scheduled
        BY <1>1, ConcatEmptySeq
      <4>2. QED
        BY <1>1, <2>1, <3>2, <3>3, <4>1 DEF OpenCount
    <3>4. CASE aborting # <<>>
      <4>1. scheduled = <<>> /\ Len(scheduled) = 0
        BY <3>4 DEF OrderInv
      <4>2. aborting \o <<>> = aborting
        BY <1>1, ConcatEmptySeq
      <4>3. QED
        BY <1>1, <2>1, <3>2, <4>1, <4>2 DEF OpenCount
    <3>5. QED
      BY <3>3, <3>4
  <2>3. EndsWithLast(q) /\ q \in Seq(Reads)
    BY <1>1 DEF OrderInv
  <2>4. \A t \in Reads : outcome[t] = Open <=> t > issued - OpenCount
    <3>1. \A t \in Reads : t # pending
      BY <1>3 DEF Null, Reads
    <3>2. issued - OpenCount = issued - Len(scheduled) - Len(aborting)
      BY <1>1, <2>2
    <3>3. QED
      BY <3>1, <3>2 DEF OrderInv
  <2>5. QED
    BY <1>1, <2>2, <2>3, <2>4 DEF EndsWithLast
<1>4. QED
  BY <1>2, <1>3

\* So it is in the next state.
LEMMA QueueIsNext == TypeOK' /\ OrderInv' => QueueFacts'
  BY QueueIs, PTL

PendingCount == IF pending = Null THEN 0 ELSE 1

LEMMA OpenCountIs ==
    /\ OpenCount = PendingCount + Len(aborting) + Len(scheduled)
    /\ OpenCount' = PendingCount' + Len(aborting') + Len(scheduled')
  BY DEF OpenCount, Pending, PendingCount

\* Nothing ends and nothing is accepted.
LEMMA ContractQuiet ==
    ASSUME TypeOK, OrderInv, TypeOK', OrderInv', UNCHANGED <<issued, outcome>>,
           OpenCount' = OpenCount
    PROVE  UNCHANGED <<Queue, Status>>
<1>1. Status' = Status
  BY DEF Status
<1>2. PICK q : q = Queue
  OBVIOUS
<1>3. PICK r : r = Queue'
  OBVIOUS
<1>4. PICK n \in Nat : n = OpenCount
  BY QueueIs DEF QueueFacts
<1>5. q \in Seq(Reads) /\ Len(q) = n /\ \A i \in 1..n : q[i] = issued - n + i
  BY <1>2, <1>4, QueueIs DEF QueueFacts
<1>6. r \in Seq(Reads) /\ Len(r) = n /\ \A i \in 1..n : r[i] = issued - n + i
  BY <1>3, <1>4, QueueIsNext DEF QueueFacts
<1>7. r = q
  BY <1>5, <1>6, SeqEqual
<1>8. QED
  BY <1>1, <1>2, <1>3, <1>7

\* The first open read ends.
LEMMA ContractComplete ==
    ASSUME TypeOK, OrderInv, TypeOK', OrderInv', issued' = issued,
           NEW t \in Reads, t = issued - OpenCount + 1,
           NEW result \in Results, outcome' = [outcome EXCEPT ![t] = result],
           OpenCount' = OpenCount - 1
    PROVE  Contract!Complete(t, result)
<1>1. PICK q : q = Queue
  OBVIOUS
<1>2. PICK r : r = Queue'
  OBVIOUS
<1>3. PICK n \in Nat : n = OpenCount
  BY QueueIs DEF QueueFacts
<1>4. /\ q \in Seq(Reads) /\ Len(q) = n /\ \A i \in 1..n : q[i] = issued - n + i
      /\ issued \in Nat /\ n <= issued
  BY <1>1, <1>3, QueueIs DEF QueueFacts
<1>5. /\ r \in Seq(Reads) /\ Len(r) = n - 1 /\ n - 1 \in Nat
      /\ \A i \in 1..(n - 1) : r[i] = issued - (n - 1) + i
  BY <1>2, <1>3, QueueIsNext DEF QueueFacts
<1>6. q # <<>>
  BY <1>4, <1>5
<1>7. /\ Head(q) = q[1] /\ Tail(q) \in Seq(Reads) /\ Len(Tail(q)) = n - 1
      /\ \A i \in 1..(n - 1) : Tail(q)[i] = q[i + 1]
  BY <1>4, <1>6, TailIs
<1>8. Head(q) = t
  BY <1>3, <1>4, <1>5, <1>7
<1>9. \A i \in 1..(n - 1) : Tail(q)[i] = r[i]
  <2>1. \A i \in 1..(n - 1) : i + 1 \in 1..n /\ issued - n + (i + 1) = issued - (n - 1) + i
    BY <1>4
  <2>2. QED
    BY <1>4, <1>5, <1>7, <2>1
<1>10. PICK rest : rest = Tail(q)
  OBVIOUS
<1>11. r = rest
  BY <1>5, <1>7, <1>9, <1>10, SeqEqual
<1>12. Status' = [Status EXCEPT ![t] = result]
  <2>1. result # Open
    BY DEF Results, Open
  <2>2. \A u \in Reads : outcome'[u] = IF u = t THEN result ELSE outcome[u]
    BY DEF TypeOK
  <2>3. Status' = [u \in Reads |-> IF u = t THEN result ELSE Status[u]]
    BY <2>1, <2>2 DEF Status
  <2>4. Status = [u \in Reads |-> Status[u]]
    BY DEF Status
  <2>5. QED
    BY <2>3, <2>4
<1>13. Queue # <<>> /\ t = Head(Queue) /\ Queue' = Tail(Queue)
  BY <1>1, <1>2, <1>6, <1>8, <1>10, <1>11
<1>14. QED
  BY <1>12, <1>13 DEF Contract!Complete, Queue, Status, Pending

\* A read is accepted.
LEMMA ContractAccept ==
    ASSUME TypeOK, OrderInv, TypeOK', OrderInv', ControlInv, NEW id \in Ids, Read(id)
    PROVE  Contract!Next
<1>1. /\ issued' = issued + 1 /\ issued \in Nat /\ issued' \in Reads
      /\ UNCHANGED <<outcome, pending, aborting>>
      /\ Len(scheduled') = Len(scheduled) + 1 /\ Len(scheduled) < MaxScheduled
      /\ Len(scheduled) \in Nat /\ Len(aborting) = 0
  <2>1. ids \in Seq(Ids) /\ issued \in Nat /\ issued < MaxReads
    BY LenProperties DEF TypeOK, Read
  <2>2. Len(Append(ids, id)) = issued + 1
    BY <2>1, AppendProperties
  <2>3. issued' = issued + 1
    BY <2>2 DEF Read
  <2>4. issued' \in Reads
    BY <2>1, <2>3 DEF Reads
  <2>5. Len(scheduled') = Len(scheduled) + 1
    BY <2>4, AppendProperties DEF TypeOK, Read
  <2>6. Len(aborting) = 0
    BY DEF ControlInv, Read
  <2>7. QED
    BY <2>1, <2>3, <2>4, <2>5, <2>6 DEF TypeOK, Read
<1>2. PICK q : q = Queue
  OBVIOUS
<1>3. PICK r : r = Queue'
  OBVIOUS
<1>4. PICK n \in Nat : n = OpenCount
  BY QueueIs DEF QueueFacts
<1>5. PICK t \in Reads : t = issued + 1
  BY <1>1
<1>6. OpenCount' = n + 1 /\ n < MaxScheduled + 1
  <2>1. PendingCount \in {0, 1} /\ PendingCount' = PendingCount
    BY <1>1 DEF PendingCount
  <2>2. n = PendingCount + Len(aborting) + Len(scheduled)
        /\ OpenCount' = PendingCount' + Len(aborting') + Len(scheduled')
    BY <1>4, OpenCountIs
  <2>3. QED
    BY <1>1, <2>1, <2>2
<1>7. /\ q \in Seq(Reads) /\ Len(q) = n /\ \A i \in 1..n : q[i] = issued - n + i
      /\ \A u \in Reads : outcome[u] = Open <=> u > issued - n
  BY <1>2, <1>4, QueueIs DEF QueueFacts
<1>8. /\ r \in Seq(Reads) /\ Len(r) = n + 1
      /\ \A i \in 1..(n + 1) : r[i] = issued' - (n + 1) + i
  BY <1>3, <1>6, QueueIsNext DEF QueueFacts
<1>9. PICK s : s = Append(q, t)
  OBVIOUS
<1>10. s \in Seq(Reads) /\ Len(s) = n + 1
       /\ \A i \in 1..(n + 1) : s[i] = issued' - (n + 1) + i
  <2>1. s \in Seq(Reads) /\ Len(s) = n + 1 /\ (\A i \in 1..n : s[i] = q[i])
        /\ s[n + 1] = t
    BY <1>7, <1>9, AppendProperties
  <2>2. \A i \in 1..n : issued - n + i = issued' - (n + 1) + i
    BY <1>1
  <2>3. t = issued' - (n + 1) + (n + 1)
    BY <1>1, <1>5
  <2>4. ASSUME NEW i \in 1..(n + 1) PROVE s[i] = issued' - (n + 1) + i
    <3>1. CASE i = n + 1
      BY <2>1, <2>3, <3>1
    <3>2. CASE i # n + 1
      <4>1. i \in 1..n
        BY <3>2
      <4>2. QED
        BY <1>7, <2>1, <2>2, <4>1
    <3>3. QED
      BY <3>1, <3>2
  <2>5. QED
    BY <2>1, <2>4
<1>11. r = s
  BY <1>8, <1>10, SeqEqual
<1>12. outcome[t] = Open /\ ~(t <= issued)
  BY <1>1, <1>5, <1>7
<1>13. Status[t] = "unused"
  BY <1>12 DEF Status
<1>14. Status' = [Status EXCEPT ![t] = "open"]
  <2>1. \A u \in Reads : u # t => (u <= issued' <=> u <= issued)
    BY <1>1, <1>5 DEF Reads
  <2>2. t <= issued'
    BY <1>1, <1>5
  <2>3. Status' = [u \in Reads |-> IF u = t THEN "open" ELSE Status[u]]
    BY <1>1, <1>12, <2>1, <2>2 DEF Status
  <2>4. Status = [u \in Reads |-> Status[u]]
    BY DEF Status
  <2>5. QED
    BY <2>3, <2>4
<1>15. Len(Queue) < MaxScheduled + 1 /\ Queue' = Append(Queue, t)
  BY <1>2, <1>3, <1>6, <1>7, <1>9, <1>11
<1>16. Contract!Accept(t)
  BY <1>13, <1>14, <1>15 DEF Contract!Accept, Queue, Status, Pending
<1>17. QED
  BY <1>16 DEF Contract!Next

LEMMA ContractInit == Init => Contract!Init
<1> SUFFICES ASSUME Init PROVE Contract!Init
  OBVIOUS
<1>1. Pending \o aborting \o scheduled = <<>>
  BY ConcatEmptySeq, EmptySeq DEF Init, Pending
<1>2. Status = [t \in Reads |-> "unused"]
  BY DEF Init, Status, Reads
<1>3. QED
  BY <1>1, <1>2 DEF Contract!Init, Status, Pending

\* The pending read ends, as the oldest one.
LEMMA ContractFinish ==
    ASSUME TypeOK, OrderInv, TypeOK', OrderInv', UNCHANGED <<scheduled, aborting, issued>>,
           NEW result \in Results, NEW next, FinishPending(result, next)
    PROVE  Contract!Next
<1>1. PICK t \in Reads : t = pending
  BY DEF TypeOK, FinishPending
<1>2. /\ outcome' = [outcome EXCEPT ![t] = result] /\ pending' = Null
      /\ t # Null /\ t = issued - Len(scheduled) /\ Len(aborting) = 0
  BY <1>1 DEF FinishPending, CallBack, OrderInv
<1>3. Len(scheduled) \in Nat /\ issued \in Nat
  BY DEF TypeOK
<1>4. OpenCount = 1 + Len(scheduled) /\ OpenCount' = Len(scheduled)
  <2>1. PendingCount = 1 /\ PendingCount' = 0
    BY <1>1, <1>2 DEF PendingCount
  <2>2. QED
    BY <1>2, <1>3, <2>1, OpenCountIs
<1>5. t = issued - OpenCount + 1 /\ OpenCount' = OpenCount - 1
  BY <1>2, <1>3, <1>4
<1>6. Contract!Complete(t, result)
  BY <1>2, <1>5, ContractComplete
<1>7. QED
  BY <1>6 DEF Contract!Next

\* The first scheduled read is sent, or ends.
LEMMA ContractSend ==
    ASSUME TypeOK, OrderInv, TypeOK', OrderInv', Send
    PROVE  Contract!Next \/ UNCHANGED <<Queue, Status>>
<1>1. PICK n \in Nat \ {0} : n = Len(scheduled)
  BY TailIs DEF TypeOK, Send, MaySend
<1>2. PICK h \in Reads : h = Head(scheduled)
  BY TailIs DEF TypeOK, Send, MaySend
<1>3. Len(scheduled') = n - 1 /\ UNCHANGED <<issued, aborting>> /\ issued \in Nat
  BY <1>1, TailIs DEF TypeOK, Send, MaySend
<1>4. h = issued - n + 1
  <2>1. h = scheduled[1] /\ 1 \in 1..n
    BY <1>1, <1>2, TailIs DEF TypeOK, Send, MaySend
  <2>2. QED
    BY <1>1, <1>3, <2>1 DEF OrderInv, EndsWithLast
<1>5. Len(aborting) = 0
  BY DEF Send, MaySend, OrderInv
<1>6. PendingCount = 0 /\ OpenCount = n
  <2>1. PendingCount = 0
    BY DEF Send, MaySend, PendingCount
  <2>2. QED
    BY <1>1, <1>5, <2>1, OpenCountIs
<1>7. OpenCount' = PendingCount' + Len(aborting') + Len(scheduled') /\ Len(aborting') = 0
  BY <1>3, <1>5, OpenCountIs
<1>8. CASE pending' = h /\ UNCHANGED outcome
  <2>1. PendingCount' = 1
    BY <1>8 DEF PendingCount, Null, Reads
  <2>2. OpenCount' = OpenCount
    BY <1>3, <1>5, <1>6, <1>7, <2>1
  <2>3. QED
    BY <1>3, <1>8, <2>2, ContractQuiet
<1>9. CASE pending' = Null /\ outcome' = [outcome EXCEPT ![h] = "SendFailed"]
  <2>1. PendingCount' = 0
    BY <1>9 DEF PendingCount
  <2>2. OpenCount' = OpenCount - 1
    BY <1>3, <1>5, <1>6, <1>7, <2>1
  <2>3. h = issued - OpenCount + 1
    BY <1>4, <1>6
  <2>4. Contract!Complete(h, "SendFailed")
    BY <1>3, <1>9, <2>2, <2>3, ContractComplete, NamedTypes
  <2>5. QED
    BY <2>4, NamedTypes DEF Contract!Next
<1>10. QED
  BY <1>2, <1>8, <1>9 DEF Send, MaySend, CallBack

\* The first of the reads that were taken from the queue is aborted.
LEMMA ContractAbort ==
    ASSUME TypeOK, OrderInv, ControlInv, TypeOK', OrderInv', AbortNext
    PROVE  Contract!Next
<1>1. /\ aborting # <<>> /\ aborting' = Tail(aborting) /\ pending = Null
      /\ scheduled = <<>> /\ UNCHANGED <<pending, scheduled, issued>>
  BY DEF AbortNext, OrderInv, ControlInv, At
<1>2. PICK n \in Nat \ {0} : n = Len(aborting)
  BY <1>1, TailIs DEF TypeOK
<1>3. PICK h \in Reads : h = Head(aborting)
  BY <1>1, TailIs DEF TypeOK
<1>4. Len(aborting') = n - 1 /\ Len(scheduled) = 0 /\ Len(scheduled') = 0 /\ issued \in Nat
  BY <1>1, <1>2, TailIs DEF TypeOK
<1>5. h = issued - n + 1
  <2>1. h = aborting[1] /\ 1 \in 1..n
    BY <1>1, <1>2, <1>3, TailIs DEF TypeOK
  <2>2. QED
    BY <1>2, <1>4, <2>1 DEF OrderInv, EndsWithLast
<1>6. OpenCount = n /\ OpenCount' = n - 1
  <2>1. PendingCount = 0 /\ PendingCount' = 0
    BY <1>1 DEF PendingCount
  <2>2. QED
    BY <1>2, <1>4, <2>1, OpenCountIs
<1>7. h = issued - OpenCount + 1 /\ OpenCount' = OpenCount - 1
  BY <1>5, <1>6
<1>8. outcome' = [outcome EXCEPT ![h] = "Aborted"]
  BY <1>3 DEF AbortNext, CallBack
<1>9. Contract!Complete(h, "Aborted")
  BY <1>1, <1>7, <1>8, ContractComplete, NamedTypes
<1>10. QED
  BY <1>9, NamedTypes DEF Contract!Next

\* Each step is one of the contract, or none.
LEMMA ContractStep ==
    ASSUME IInv, IInv', [Next]_vars
    PROVE  Contract!Next \/ UNCHANGED <<Queue, Status>>
<1> USE DEF IInv
<1>1. CASE Connect \/ Tick \/ Disconnect \/ CallbackReturns \/ NothingToSend \/ RecvByte
             \/ RecvNothing \/ RecvFails \/ IgnoreResponse \/ Close \/ Closed
             \/ Respond \/ SendForeign \/ Elapse \/ UNCHANGED vars
  <2>1. UNCHANGED <<pending, scheduled, aborting, issued, outcome>>
    BY <1>1 DEF readVars, vars, Connect, Tick, Disconnect, CallbackReturns,
       NothingToSend, RecvByte, RecvNothing, RecvFails, IgnoreResponse, Close, Closed,
       Respond, SendForeign, SendFrame, Elapse
  <2>2. OpenCount' = OpenCount
    BY <2>1 DEF OpenCount, Pending
  <2>3. QED
    BY <2>1, <2>2, ContractQuiet
<1>2. CASE TickHook \/ AbortPending \/ FinishResponse
  <2>1. UNCHANGED <<scheduled, aborting, issued>>
    BY <1>2 DEF TickHook, AbortPending, FinishResponse
  <2>2. \/ \E result \in Results, next \in Resumes : FinishPending(result, next)
        \/ UNCHANGED <<pending, outcome>>
    BY <1>2, NamedTypes DEF TickHook, AbortPending, FinishResponse
  <2>3. CASE UNCHANGED <<pending, outcome>>
    <3>1. OpenCount' = OpenCount
      BY <2>1, <2>3 DEF OpenCount, Pending
    <3>2. QED
      BY <2>1, <2>3, <3>1, ContractQuiet
  <2>4. CASE \E result \in Results, next \in Resumes : FinishPending(result, next)
    BY <2>1, <2>4, ContractFinish
  <2>5. QED
    BY <2>2, <2>3, <2>4
<1>3. CASE TakeScheduled
  <2>1. /\ pending = Null /\ aborting = <<>> /\ aborting' = scheduled
        /\ scheduled' = <<>> /\ UNCHANGED <<pending, issued, outcome>>
    BY <1>3 DEF TakeScheduled, MoveScheduled, ControlInv, At
  <2>2. OpenCount' = OpenCount
    <3>1. Len(scheduled) \in Nat /\ Len(aborting) = 0 /\ Len(scheduled') = 0
      BY <2>1 DEF TypeOK
    <3>2. PendingCount \in {0, 1} /\ PendingCount' = PendingCount
      BY <2>1 DEF PendingCount
    <3>3. QED
      BY <2>1, <3>1, <3>2, OpenCountIs
  <2>3. QED
    BY <2>1, <2>2, ContractQuiet
<1>4. CASE (\E id \in Ids : Read(id)) \/ Send \/ AbortNext
  BY <1>4, ContractAccept, ContractSend, ContractAbort
<1>5. QED
  BY <1>1, <1>2, <1>3, <1>4 DEF Next, UserStep, LibraryStep

\* Accepted reads end once and in order: the client implements its contract.
THEOREM ContractKept == Spec => ImplementsContract
<1>1. IInv /\ IInv' /\ [Next]_vars => [Contract!Next]_<<Queue, Status>>
  BY ContractStep
<1>2. Init => Contract!Init
  BY ContractInit
<1>3. Spec => Contract!Init /\ [][Contract!Next]_<<Queue, Status>>
  BY <1>1, <1>2, Invariance, PTL DEF Spec
<1>4. QED
  BY <1>3, PTL DEF ImplementsContract, Contract!Spec, Queue, Status, Pending

=============================================================================
