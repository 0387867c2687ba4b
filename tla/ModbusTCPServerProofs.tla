------------------------ MODULE ModbusTCPServerProofs -------------------------
(* Proofs about ModbusTCPServer, for any number of connections, clients,   *)
(* and requests, all lengths of headers and payloads, and all delays.      *)
EXTENDS ModbusTCPServer, SequenceTheorems, FiniteSetTheorems, TLAPS

USE CountsAssumption, TimesAssumption, LengthsAssumption

-----------------------------------------------------------------------------
(* The inductive invariant.                                                *)

\* The places where tick() is busy with one connection.
Receiving == {"recv_header", "check_header", "recv_payload", "execute", "respond"}
Placing   == {"displace", "place"}

\* Which members are in use at which place.
ControlInv ==
    /\ pc # "user" => after = "main"
    /\ non_reentrant <=> At # "main"
    /\ running => callbacks
    /\ At # "main" => callbacks
    /\ At \notin {"main", "stop"} => running
    /\ At = "stop" => ~running
    /\ ~running => clients = <<>>
    /\ current # None <=> At \in Placing \cup Receiving
    /\ At \notin {"stop", "loop"} \cup Receiving => pending = <<>>
    /\ ~InLoop => finished = <<>>
    /\ pc = "accept" => backlog # <<>>

\* A list is sorted by the time since its clients were read from.
Sorted(list, age) ==
    \A i, j \in 1..Len(list) : i < j => age[list[i]] <= age[list[j]]

\* However they are distributed over the lists, the clients the server can reach are
\* those announced, each once and the one that was silent for longest last.
ListInv ==
    /\ IsInjective(Reached)
    /\ ToSet(Reached) = sockets
    /\ Sorted(Reached, last_alive)
    /\ Len(Reached) <= MaxClients + (IF At \in Placing THEN 1 ELSE 0)
    /\ sockets = {c \in Connections : told[c] = "connected"}

\* What displace leaves undone has a reason.
PlaceInv ==
    At = "place" /\ Full => pc = "place" /\ ~Displaceable(LeastAlive)

\* The connections that wait were not announced, and wait once.
BacklogInv ==
    /\ IsInjective(backlog)
    /\ \A i \in 1..Len(backlog) : backlog[i] <= arrived /\ told[backlog[i]] = "unknown"
    /\ \A c \in Connections : c > arrived => told[c] = "unknown"

\* Of a connection that is not announced nothing is stored.
BlankInv ==
    \A c \in Connections \ sockets :
        /\ read[c] = 0 /\ header_used[c] = 0 /\ payload_used[c] = 0
        /\ ~header_checked[c]
        /\ last_alive[c] = 0
        /\ told[c] = "unknown" => handled[c] = 0

\* Client c has received k whole requests and the beginning of the next one.
AfterRequests(c, k) ==
    /\ read[c] = End[k] + header_used[c] + payload_used[c]
    /\ header_used[c] + payload_used[c] > 0 => k < sent[c]
    /\ header_used[c] < HeaderLength => ~header_checked[c]
    /\ ~header_checked[c] => payload_used[c] = 0
    /\ handled[c] <= k + (IF c = current /\ At = "respond" THEN 1 ELSE 0)
    /\ k < sent[c] =>
           IF c = current /\ At \in {"execute", "respond"}
           THEN header_checked[c] /\ payload_used[c] = PayloadLength[k + 1]
           ELSE payload_used[c] < PayloadLength[k + 1]

StreamInv ==
    /\ \A c \in sockets : \E k \in 0..sent[c] : AfterRequests(c, k)
    /\ At \in Placing => header_used[current] = 0
    /\ At = "recv_header" => header_used[current] < HeaderLength
    /\ At \in Receiving \ {"recv_header"} => header_used[current] = HeaderLength
    /\ At \in {"recv_payload", "execute", "respond"} => header_checked[current]

IInv == TypeOK /\ ControlInv /\ ListInv /\ PlaceInv /\ BacklogInv /\ BlankInv /\ StreamInv

-----------------------------------------------------------------------------
(* Induction.  The library's theorem for it takes a predicate; these are   *)
(* about sets.                                                             *)

LEMMA LeastOf ==
    ASSUME NEW T \in SUBSET Nat, T # {}
    PROVE  \E x \in T : \A y \in T : x <= y
  <1> DEFINE R == {ss \in Nat \X Nat : ss[1] < ss[2]}
  <1>1. IsWellFoundedOn(R, Nat)
    BY NatLessThanWellFounded DEF OpToRel
  <1>2. PICK x \in T : \A y \in T : ~(<<y, x>> \in R)
    <2> HIDE DEF R
    <2> QED
      BY <1>1, WFMin
  <1>3. \A y \in T : ~(y < x)
    BY <1>2
  <1> QED
    BY <1>3

LEMMA SetInduction ==
    ASSUME NEW S \in SUBSET Nat, 0 \in S, \A n \in S : n + 1 \in S
    PROVE  \A n \in Nat : n \in S
  <1> SUFFICES ASSUME NEW n \in Nat, n \notin S PROVE FALSE
    OBVIOUS
  <1> DEFINE T == Nat \ S
  <1>1. PICK x \in T : \A y \in T : x <= y
    <2>1. T \in SUBSET Nat /\ T # {}
      OBVIOUS
    <2> HIDE DEF T
    <2> QED
      BY <2>1, LeastOf
  <1>2. x # 0 /\ x \in Nat
    BY <1>1
  <1>3. x - 1 \in S
    BY <1>1, <1>2
  <1> QED
    BY <1>1, <1>2, <1>3

-----------------------------------------------------------------------------
(* The requests of a connection.                                           *)

RequestLength(k) == HeaderLength + PayloadLength[k]

\* f is where the requests up to the n-th one end.
Ends(f, n) ==
    /\ f \in [0..n -> Nat]
    /\ f[0] = 0
    /\ \A k \in 1..n : f[k] = f[k - 1] + RequestLength(k)

LEMMA RequestLengthType == \A k \in Requests : RequestLength(k) \in Nat \ {0}
  BY DEF RequestLength

LEMMA EndsExist == \E f : Ends(f, MaxRequests)
  <1> DEFINE S == {n \in Nat : n <= MaxRequests => \E f : Ends(f, n)}
  <1>1. 0 \in S
    <2>1. Ends([k \in 0..0 |-> 0], 0)
      BY DEF Ends
    <2> QED
      BY <2>1
  <1>2. ASSUME NEW n \in S PROVE n + 1 \in S
    <2> SUFFICES ASSUME n + 1 <= MaxRequests PROVE \E f : Ends(f, n + 1)
      OBVIOUS
    <2>1. PICK f : Ends(f, n)
      OBVIOUS
    <2>2. n \in Nat /\ n + 1 \in Requests
      BY DEF Requests
    <2> DEFINE g == [k \in 0..(n + 1) |-> IF k <= n THEN f[k] ELSE f[n] + RequestLength(k)]
    <2>3. g \in [0..(n + 1) -> Nat] /\ g[0] = 0
      BY <2>1, <2>2, RequestLengthType DEF Ends
    <2>4. ASSUME NEW k \in 1..(n + 1) PROVE g[k] = g[k - 1] + RequestLength(k)
      <3>1. k - 1 \in 0..(n + 1) /\ k \in 0..(n + 1) /\ k - 1 <= n
        BY <2>2
      <3>2. g[k - 1] = f[k - 1]
        BY <3>1
      <3>3. CASE k <= n
        BY <2>1, <3>1, <3>2, <3>3 DEF Ends
      <3>4. CASE k = n + 1
        BY <2>2, <3>1, <3>2, <3>4
      <3> QED
        BY <2>2, <3>3, <3>4
    <2>5. Ends(g, n + 1)
      <3> HIDE DEF g
      <3> QED
        BY <2>3, <2>4 DEF Ends
    <2> QED
      BY <2>5
  <1>3. \A n \in Nat : n \in S
    <2>1. S \in SUBSET Nat
      OBVIOUS
    <2> HIDE DEF S
    <2> QED
      BY <1>1, <1>2, <2>1, SetInduction
  <1> QED
    BY <1>3

LEMMA EndIs == Ends(End, MaxRequests)
  <1> DEFINE Step(f) == [k \in 0..MaxRequests |->
                             IF k = 0 THEN 0 ELSE f[k - 1] + HeaderLength + PayloadLength[k]]
  <1>1. PICK f : Ends(f, MaxRequests)
    BY EndsExist
  <1>2. f = Step(f)
    <2>1. \A k \in 0..MaxRequests : f[k] = Step(f)[k]
      <3> SUFFICES ASSUME NEW k \in 0..MaxRequests PROVE f[k] = Step(f)[k]
        OBVIOUS
      <3>1. CASE k = 0
        BY <1>1, <3>1 DEF Ends
      <3>2. CASE k \in 1..MaxRequests
        <4>1. f[k - 1] \in Nat /\ PayloadLength[k] \in Nat
          BY <1>1, <3>2 DEF Ends, Requests
        <4> QED
          BY <1>1, <3>2, <4>1 DEF Ends, RequestLength
      <3> QED
        BY <3>1, <3>2
    <2>2. f \in [0..MaxRequests -> Nat]
      BY <1>1 DEF Ends
    <2> QED
      BY <2>1, <2>2
  <1>3. End = Step(End)
    BY <1>2, Zenon DEF End
  <1>4. ASSUME NEW g, g = Step(g) PROVE g \in [0..MaxRequests -> Nat]
    <2> DEFINE S == {n \in Nat : n <= MaxRequests => g[n] \in Nat}
    <2>1. 0 \in S
      BY <1>4
    <2>2. ASSUME NEW n \in S PROVE n + 1 \in S
      <3> SUFFICES ASSUME n + 1 <= MaxRequests PROVE g[n + 1] \in Nat
        OBVIOUS
      <3>1. n \in Nat /\ g[n] \in Nat /\ n + 1 \in Requests /\ (n + 1) - 1 = n
        BY DEF Requests
      <3>2. g[n + 1] = g[n] + HeaderLength + PayloadLength[n + 1]
        BY <1>4, <3>1 DEF Requests
      <3> QED
        BY <3>1, <3>2
    <2>3. \A n \in Nat : n \in S
      <3>1. S \in SUBSET Nat
        OBVIOUS
      <3> HIDE DEF S
      <3> QED
        BY <2>1, <2>2, <3>1, SetInduction
    <2>4. \A n \in 0..MaxRequests : g[n] \in Nat
      BY <2>3
    <2>5. DOMAIN g = 0..MaxRequests /\ g = [n \in DOMAIN g |-> g[n]]
      BY <1>4
    <2> QED
      BY <2>4, <2>5
  <1>5. End \in [0..MaxRequests -> Nat]
    BY <1>3, <1>4
  <1>6. ASSUME NEW k \in 1..MaxRequests PROVE End[k] = End[k - 1] + RequestLength(k)
    <2>1. k \in 0..MaxRequests /\ k # 0 /\ End[k - 1] \in Nat /\ PayloadLength[k] \in Nat
      BY <1>5 DEF Requests
    <2>2. End[k] = End[k - 1] + HeaderLength + PayloadLength[k]
      <3> HIDE DEF Step
      <3>1. End[k] = Step(End)[k]
        BY <1>3
      <3> QED
        BY <2>1, <3>1 DEF Step
    <2> QED
      BY <2>1, <2>2 DEF RequestLength
  <1>7. End[0] = 0
    <2> HIDE DEF Step
    <2>1. End[0] = Step(End)[0]
      BY <1>3
    <2> QED
      BY <2>1 DEF Step
  <1> QED
    BY <1>5, <1>6, <1>7 DEF Ends

LEMMA EndGrows ==
    ASSUME NEW i \in 0..MaxRequests, NEW j \in 0..MaxRequests
    PROVE  i < j <=> End[i] < End[j]
  <1> DEFINE S == {n \in Nat : \A k \in 0..MaxRequests :
                                  k + n + 1 <= MaxRequests => End[k] < End[k + n + 1]}
  <1>1. 0 \in S
    BY EndIs, RequestLengthType DEF Ends, Requests
  <1>2. ASSUME NEW n \in S PROVE n + 1 \in S
    <2> SUFFICES ASSUME NEW k \in 0..MaxRequests, k + n + 2 <= MaxRequests
                 PROVE  End[k] < End[k + n + 2]
      OBVIOUS
    <2>1. End[k] < End[k + n + 1] /\ n \in Nat
      OBVIOUS
    <2>2. k + n + 2 \in 1..MaxRequests /\ k + n + 1 \in 0..MaxRequests
      BY <2>1
    <2>3. End[k + n + 2] = End[k + n + 1] + RequestLength(k + n + 2)
      BY <2>1, <2>2, EndIs DEF Ends
    <2>4. RequestLength(k + n + 2) \in Nat /\ End[k] \in Nat /\ End[k + n + 1] \in Nat
      BY <2>2, EndIs, RequestLengthType DEF Ends, Requests
    <2> QED
      BY <2>1, <2>3, <2>4
  <1>3. \A n \in Nat : n \in S
    <2>1. S \in SUBSET Nat
      OBVIOUS
    <2> HIDE DEF S
    <2> QED
      BY <1>1, <1>2, <2>1, SetInduction
  <1>4. ASSUME NEW a \in 0..MaxRequests, NEW b \in 0..MaxRequests, a < b
        PROVE  End[a] < End[b]
    <2>1. b - a - 1 \in S
      <3>1. b - a - 1 \in Nat
        BY <1>4
      <3> HIDE DEF S
      <3> QED
        BY <1>3, <3>1
    <2>2. a + (b - a - 1) + 1 = b
      OBVIOUS
    <2> QED
      BY <2>1, <2>2
  <1>5. End[i] \in Nat /\ End[j] \in Nat
    BY EndIs DEF Ends
  <1> QED
    BY <1>4, <1>5

\* k requests are whole, so the next byte is of the one that follows.
LEMMA RequestIs ==
    ASSUME NEW c \in Connections, NEW k \in 0..MaxRequests, k < MaxRequests,
           read[c] - header_used[c] - payload_used[c] = End[k]
    PROVE  Request(c) = k + 1
  <1> DEFINE P(j) == End[j - 1] <= End[k] /\ End[k] < End[j]
  <1>1. Request(c) = CHOOSE j \in Requests : P(j)
    BY DEF Request
  <1>2. k + 1 \in Requests /\ P(k + 1)
    <2>1. k + 1 \in 0..MaxRequests /\ k + 1 \in Requests /\ (k + 1) - 1 = k /\ k < k + 1
      BY DEF Requests
    <2>2. End[k] < End[k + 1] /\ End[k] \in Nat
      BY <2>1, EndGrows, EndIs DEF Ends
    <2> QED
      BY <2>1, <2>2
  <1>3. ASSUME NEW j \in Requests, P(j) PROVE j = k + 1
    <2>1. j - 1 \in 0..MaxRequests /\ j \in 0..MaxRequests
      BY DEF Requests
    <2>2. ~(k < j - 1) /\ k < j
      <3>1. End[k] \in Nat /\ End[j] \in Nat /\ End[j - 1] \in Nat
        BY <2>1, EndIs DEF Ends
      <3>2. ~(End[k] < End[j - 1])
        BY <1>3, <3>1
      <3> QED
        BY <1>3, <2>1, <3>2, EndGrows
    <2> QED
      BY <2>1, <2>2
  <1> HIDE DEF P
  <1> QED
    BY <1>1, <1>2, <1>3

\* A number that no payload exceeds.
LEMMA LongestExists ==
    \E m \in {0} \cup {PayloadLength[k] : k \in Requests} :
        \A y \in {0} \cup {PayloadLength[k] : k \in Requests} : m >= y
  <1> DEFINE Upto(n) == {0} \cup {PayloadLength[k] : k \in 1..n}
             S == {n \in Nat : n <= MaxRequests =>
                                  \E m \in Upto(n) : \A y \in Upto(n) : m >= y}
  <1>1. 0 \in S
    OBVIOUS
  <1>2. ASSUME NEW n \in S PROVE n + 1 \in S
    <2> SUFFICES ASSUME n + 1 <= MaxRequests
                 PROVE  \E m \in Upto(n + 1) : \A y \in Upto(n + 1) : m >= y
      OBVIOUS
    <2>1. PICK m \in Upto(n) : \A y \in Upto(n) : m >= y
      OBVIOUS
    <2>2. n \in Nat /\ n + 1 \in Requests /\ 1..(n + 1) = 1..n \cup {n + 1}
      BY DEF Requests
    <2>3. Upto(n + 1) = Upto(n) \cup {PayloadLength[n + 1]}
      BY <2>2
    <2>4. Upto(n) \subseteq Nat /\ PayloadLength[n + 1] \in Nat
      BY <2>2 DEF Requests
    <2> HIDE DEF Upto
    <2>5. CASE m >= PayloadLength[n + 1]
      BY <2>1, <2>3, <2>5
    <2>6. CASE PayloadLength[n + 1] > m
      BY <2>1, <2>3, <2>4, <2>6
    <2> QED
      BY <2>1, <2>4, <2>5, <2>6
  <1>3. \A n \in Nat : n \in S
    <2>1. S \in SUBSET Nat
      OBVIOUS
    <2> HIDE DEF S
    <2> QED
      BY <1>1, <1>2, <2>1, SetInduction
  <1>4. \E m \in Upto(MaxRequests) : \A y \in Upto(MaxRequests) : m >= y
    <2> HIDE DEF Upto
    <2> QED
      BY <1>3
  <1> QED
    BY <1>4 DEF Requests

LEMMA MaxPayloadLengthIs ==
    MaxPayloadLength \in Nat /\ \A k \in Requests : PayloadLength[k] <= MaxPayloadLength
  <1> DEFINE L == {0} \cup {PayloadLength[k] : k \in Requests}
  <1>1. L \subseteq Nat
    OBVIOUS
  <1>2. MaxPayloadLength \in L /\ \A y \in L : MaxPayloadLength >= y
    <2>1. \E m \in L : \A y \in L : m >= y
      BY LongestExists, Zenon
    <2>2. MaxPayloadLength = CHOOSE m \in L : \A y \in L : m >= y
      BY DEF MaxPayloadLength, Max
    <2> HIDE DEF L
    <2> QED
      BY <2>1, <2>2
  <1> QED
    BY <1>1, <1>2

-----------------------------------------------------------------------------
(* The list of the clients.                                                *)

\* list holds the members, each once, sorted by age.
List(list, members, age) ==
    /\ list \in Seq(Connections)
    /\ IsInjective(list)
    /\ ToSet(list) = members
    /\ Sorted(list, age)

\* The same, by the places of the list.
Listed(list, n, members, age) ==
    /\ \A i, j \in 1..n : list[i] = list[j] => i = j
    /\ \A i \in 1..n : list[i] \in members
    /\ \A c \in members : \E i \in 1..n : list[i] = c
    /\ \A i, j \in 1..n : i < j => age[list[i]] <= age[list[j]]

LEMMA ListIs ==
    ASSUME NEW list \in Seq(Connections), NEW n \in Nat, n = Len(list), NEW members, NEW age
    PROVE  List(list, members, age) <=> Listed(list, n, members, age)
  BY DEF List, Listed, IsInjective, ToSet, Sorted

\* The client at place p is taken from the list.
LEMMA ListWithout ==
    ASSUME NEW list \in Seq(Connections), NEW rest \in Seq(Connections),
           NEW members, NEW age, NEW age2, NEW p \in 1..Len(list),
           List(list, members, age),
           Len(rest) = Len(list) - 1,
           \A i \in 1..Len(rest) : rest[i] = IF i < p THEN list[i] ELSE list[i + 1],
           \A c \in members \ {list[p]} : age2[c] = age[c]
    PROVE  List(rest, members \ {list[p]}, age2)
  <1> PICK n \in Nat : n = Len(list)
    OBVIOUS
  <1> DEFINE From(i) == IF i < p THEN i ELSE i + 1
  <1>1. \A i \in 1..(n - 1) : From(i) \in 1..n /\ From(i) # p /\ rest[i] = list[From(i)]
    OBVIOUS
  <1>2. \A i, j \in 1..(n - 1) : /\ i < j => From(i) < From(j)
                                 /\ From(i) = From(j) => i = j
    OBVIOUS
  <1>3. \A k \in 1..n : k # p => \E i \in 1..(n - 1) : From(i) = k
    <2> SUFFICES ASSUME NEW k \in 1..n, k # p PROVE \E i \in 1..(n - 1) : From(i) = k
      OBVIOUS
    <2>1. CASE k < p
      <3>1. k \in 1..(n - 1) /\ From(k) = k
        BY <2>1
      <3> QED
        BY <3>1
    <2>2. CASE k > p
      <3>1. k - 1 \in 1..(n - 1) /\ From(k - 1) = k
        BY <2>2
      <3> QED
        BY <3>1
    <2> QED
      BY <2>1, <2>2
  <1> HIDE DEF From
  <1>4. Listed(list, n, members, age)
    BY ListIs
  <1>5. \A i \in 1..(n - 1) : rest[i] \in members \ {list[p]} /\ age2[rest[i]] = age[rest[i]]
    BY <1>1, <1>4 DEF Listed
  <1>6. \A i, j \in 1..(n - 1) : rest[i] = rest[j] => i = j
    BY <1>1, <1>2, <1>4 DEF Listed
  <1>7. ASSUME NEW c \in members \ {list[p]} PROVE \E i \in 1..(n - 1) : rest[i] = c
    <2>1. PICK k \in 1..n : list[k] = c
      BY <1>4 DEF Listed
    <2>2. PICK i \in 1..(n - 1) : From(i) = k
      BY <1>3, <2>1
    <2> QED
      BY <1>1, <2>1, <2>2
  <1>8. ASSUME NEW i \in 1..(n - 1), NEW j \in 1..(n - 1), i < j
        PROVE  age2[rest[i]] <= age2[rest[j]]
    <2>1. From(i) < From(j) /\ From(i) \in 1..n /\ From(j) \in 1..n
      BY <1>1, <1>2, <1>8
    <2>2. age[list[From(i)]] <= age[list[From(j)]]
      BY <1>4, <2>1 DEF Listed
    <2> QED
      BY <1>1, <1>5, <2>2
  <1>9. Listed(rest, n - 1, members \ {list[p]}, age2)
    BY <1>5, <1>6, <1>7, <1>8 DEF Listed
  <1> QED
    BY <1>9, ListIs

\* A client that was read from just now is put before the list.
LEMMA ListWithFirst ==
    ASSUME NEW list \in Seq(Connections), NEW all \in Seq(Connections),
           NEW members \in SUBSET Connections, NEW age \in [Connections -> Nat],
           NEW c \in Connections \ members,
           List(list, members, age),
           Len(all) = Len(list) + 1,
           all[1] = c,
           \A i \in 1..Len(list) : all[i + 1] = list[i],
           age[c] = 0
    PROVE  List(all, members \cup {c}, age)
  <1> PICK n \in Nat : n = Len(list)
    OBVIOUS
  <1>1. Listed(list, n, members, age)
    BY ListIs
  <1>2. \A i \in 1..(n + 1) : i # 1 => i - 1 \in 1..n /\ all[i] = list[i - 1]
    <2> SUFFICES ASSUME NEW i \in 1..(n + 1), i # 1
                 PROVE  i - 1 \in 1..n /\ all[i] = list[i - 1]
      OBVIOUS
    <2>1. i - 1 \in 1..n /\ (i - 1) + 1 = i
      OBVIOUS
    <2> QED
      BY <2>1
  <1>3. \A i \in 1..(n + 1) : i # 1 => all[i] \in members
    BY <1>1, <1>2 DEF Listed
  <1>4. ASSUME NEW i \in 1..(n + 1), NEW j \in 1..(n + 1), all[i] = all[j] PROVE i = j
    <2>1. CASE i = 1 \/ j = 1
      BY <1>3, <1>4, <2>1
    <2>2. CASE i # 1 /\ j # 1
      <3>1. i - 1 \in 1..n /\ j - 1 \in 1..n /\ list[i - 1] = list[j - 1]
        BY <1>2, <1>4, <2>2
      <3>2. i - 1 = j - 1
        BY <1>1, <3>1 DEF Listed
      <3> QED
        BY <3>2
    <2> QED
      BY <2>1, <2>2
  <1>5. ASSUME NEW d \in members \cup {c} PROVE \E i \in 1..(n + 1) : all[i] = d
    <2>1. CASE d = c
      BY <2>1
    <2>2. CASE d \in members
      <3>1. PICK i \in 1..n : list[i] = d
        BY <1>1, <2>2 DEF Listed
      <3>2. i + 1 \in 1..(n + 1) /\ all[i + 1] = d
        BY <3>1
      <3> QED
        BY <3>2
    <2> QED
      BY <2>1, <2>2
  <1>6. ASSUME NEW i \in 1..(n + 1), NEW j \in 1..(n + 1), i < j
        PROVE  age[all[i]] <= age[all[j]]
    <2>1. j # 1 /\ age[all[j]] \in Nat
      BY <1>3, <1>6
    <2>2. CASE i = 1
      BY <2>1, <2>2
    <2>3. CASE i # 1
      <3>1. i - 1 < j - 1 /\ i - 1 \in 1..n /\ j - 1 \in 1..n
        BY <1>6, <2>1, <2>3
      <3>2. age[list[i - 1]] <= age[list[j - 1]]
        BY <1>1, <3>1 DEF Listed
      <3> QED
        BY <1>2, <2>1, <2>3, <3>2
    <2> QED
      BY <2>2, <2>3
  <1>7. Listed(all, n + 1, members \cup {c}, age)
    <2>1. \A i \in 1..(n + 1) : all[i] \in members \cup {c}
      BY <1>3
    <2> QED
      BY <1>4, <1>5, <1>6, <2>1 DEF Listed
  <1> QED
    BY <1>7, ListIs

\* Time passes for all clients alike.
LEMMA ListLater ==
    ASSUME NEW list \in Seq(Connections), NEW members, NEW age, NEW age2,
           List(list, members, age),
           \A c, d \in members : age[c] <= age[d] => age2[c] <= age2[d]
    PROVE  List(list, members, age2)
  <1> PICK n \in Nat : n = Len(list)
    OBVIOUS
  <1>1. Listed(list, n, members, age)
    BY ListIs
  <1>2. Listed(list, n, members, age2)
    BY <1>1 DEF Listed
  <1> QED
    BY <1>2, ListIs

LEMMA ListCardinality ==
    ASSUME NEW list \in Seq(Connections), NEW members, NEW age, List(list, members, age)
    PROVE  IsFiniteSet(members) /\ Cardinality(members) = Len(list)
  <1> PICK n \in Nat : n = Len(list)
    OBVIOUS
  <1>1. Listed(list, n, members, age)
    BY ListIs
  <1>2. list \in [1..n -> members]
    BY <1>1 DEF Listed
  <1>3. list \in Bijection(1..n, members)
    BY <1>1, <1>2 DEF Listed, Bijection, Injection, Surjection, IsInjective
  <1>4. ExistsBijection(1..n, members)
    BY <1>3 DEF ExistsBijection
  <1> QED
    BY <1>4, FS_CountingElements, FS_NatBijection

-----------------------------------------------------------------------------
(* Where the clients are.                                                  *)

\* A sequence is its head and its tail.
LEMMA TailIs ==
    ASSUME NEW S, NEW s \in Seq(S), s # <<>>
    PROVE  /\ Len(s) \in Nat \ {0} /\ Head(s) = s[1] /\ Head(s) \in S
           /\ Tail(s) \in Seq(S) /\ Len(Tail(s)) = Len(s) - 1
           /\ \A i \in 1..Len(Tail(s)) : Tail(s)[i] = s[i + 1]
  BY HeadTailProperties, EmptySeq

LEMMA AtIs ==
    /\ pc # "user" => At = pc
    /\ pc = "user" => At = after
    /\ InLoop <=> At \in {"loop"} \cup Receiving
  BY DEF At, InLoop, Receiving

ReachedFacts ==
    /\ At \in Placing => Reached = <<current>> \o clients
    /\ At = "stop" => Reached = pending
    /\ At = "loop" => Reached = finished \o pending
    /\ At \in Receiving => Reached = <<current>> \o (finished \o pending)
    /\ At \notin {"stop", "loop"} \cup Placing \cup Receiving => Reached = clients
    /\ Reached \in Seq(Connections)

LEMMA ReachedIs == TypeOK /\ ControlInv => ReachedFacts
  <1> SUFFICES ASSUME TypeOK, ControlInv PROVE ReachedFacts
    OBVIOUS
  <1>1. clients \in Seq(Connections) /\ pending \in Seq(Connections)
        /\ finished \in Seq(Connections) /\ finished \o pending \in Seq(Connections)
    BY ConcatProperties DEF TypeOK
  <1>2. current # None => <<current>> \in Seq(Connections)
    BY DEF TypeOK
  <1>3. At \in Placing =>
            current # None /\ ~InLoop /\ pending = <<>>
    BY AtIs DEF ControlInv, Placing, Receiving
  <1>4. At = "stop" => current = None /\ ~InLoop /\ clients = <<>>
    BY AtIs DEF ControlInv, Placing, Receiving
  <1>5. At = "loop" => current = None /\ InLoop
    BY AtIs DEF ControlInv, Placing, Receiving
  <1>6. At \in Receiving => current # None /\ InLoop
    BY AtIs DEF ControlInv, Placing, Receiving
  <1>7. At \notin {"stop", "loop"} \cup Placing \cup Receiving =>
            current = None /\ ~InLoop /\ pending = <<>>
    BY AtIs DEF ControlInv, Placing, Receiving
  <1>8. clients \o <<>> = clients /\ <<>> \o clients = clients /\ <<>> \o pending = pending
        /\ <<>> \o (finished \o pending) = finished \o pending
    BY <1>1, ConcatEmptySeq
  <1>9. current # None => <<current>> \o clients \in Seq(Connections)
                          /\ <<current>> \o (finished \o pending) \in Seq(Connections)
    BY <1>1, <1>2, ConcatProperties
  <1> QED
    BY <1>1, <1>3, <1>4, <1>5, <1>6, <1>7, <1>8, <1>9 DEF Reached, ReachedFacts

LEMMA ReachedIsNext == TypeOK' /\ ControlInv' => ReachedFacts'
  BY ReachedIs, PTL

LEMMA ReachedList ==
    ASSUME TypeOK, ControlInv, ListInv
    PROVE  List(Reached, sockets, last_alive)
  BY ReachedIs DEF ReachedFacts, List, ListInv

\* The connection tick() is busy with is announced.
LEMMA CurrentIs ==
    ASSUME TypeOK, ControlInv, ListInv, At \in Placing \cup Receiving
    PROVE  current \in sockets /\ current \in Connections /\ told[current] = "connected"
  <1>1. PICK rest \in Seq(Connections) : Reached = <<current>> \o rest
    BY ReachedIs, ConcatProperties DEF ReachedFacts, TypeOK
  <1>2. current \in Connections
    BY DEF ControlInv, TypeOK
  <1>3. 1 \in 1..Len(Reached) /\ Reached[1] = current
    BY <1>1, <1>2
  <1>4. Reached[1] \in ToSet(Reached)
    BY <1>1, <1>2, <1>3 DEF ToSet
  <1> QED
    BY <1>2, <1>3, <1>4 DEF ListInv

LEMMA PendingIs ==
    ASSUME TypeOK, ControlInv, ListInv, At \in {"stop", "loop"}, pending # <<>>
    PROVE  Head(pending) \in sockets /\ Head(pending) \in Connections
           /\ Tail(pending) \in Seq(Connections)
  <1>1. Head(pending) = pending[1] /\ 1 \in 1..Len(pending) /\ Head(pending) \in Connections
        /\ Tail(pending) \in Seq(Connections)
    BY TailIs DEF TypeOK
  <1>2. finished \in Seq(Connections) /\ pending \in Seq(Connections)
    BY DEF TypeOK
  <1>3. \E i \in 1..Len(Reached) : Reached[i] = Head(pending)
    <2>1. CASE At = "stop"
      BY <1>1, <2>1, ReachedIs DEF ReachedFacts
    <2>2. CASE At = "loop"
      <3>1. Len(Reached) = Len(finished) + Len(pending)
            /\ Reached[Len(finished) + 1] = pending[1]
        BY <1>1, <1>2, <2>2, ReachedIs DEF ReachedFacts
      <3> QED
        BY <1>1, <1>2, <3>1
    <2> QED
      BY <2>1, <2>2
  <1>4. Head(pending) \in ToSet(Reached)
    BY <1>3, ReachedIs DEF ReachedFacts, ToSet
  <1> QED
    BY <1>1, <1>4 DEF ListInv

LEMMA LastIs ==
    ASSUME TypeOK, ControlInv, ListInv, pc = "displace", Full
    PROVE  LeastAlive \in sockets /\ LeastAlive \in Connections
           /\ Len(clients) \in Nat \ {0} /\ Front(clients) \in Seq(Connections)
           /\ Len(Front(clients)) = Len(clients) - 1
           /\ \A i \in 1..(Len(clients) - 1) : Front(clients)[i] = clients[i]
  <1>1. clients \in Seq(Connections) /\ Len(clients) \in Nat \ {0}
    BY DEF TypeOK, Full
  <1>2. LeastAlive = clients[Len(clients)] /\ Len(clients) \in 1..Len(clients)
        /\ LeastAlive \in Connections
    BY <1>1 DEF LeastAlive
  <1>3. At \in Placing /\ current \in Connections
    BY DEF At, Placing, ControlInv, TypeOK
  <1>4. Len(Reached) = Len(clients) + 1 /\ Reached[Len(clients) + 1] = LeastAlive
    BY <1>1, <1>2, <1>3, ReachedIs DEF ReachedFacts
  <1>5. LeastAlive \in ToSet(Reached)
    BY <1>1, <1>4, ReachedIs DEF ReachedFacts, ToSet
  <1>6. Front(clients) = SubSeq(clients, 1, Len(clients) - 1)
    BY DEF Front
  <1>7. \A i \in 1..(Len(clients) - 1) : clients[i] \in Connections
    BY <1>1
  <1>8. Front(clients) \in Seq(Connections)
        /\ Len(Front(clients)) = Len(clients) - 1
        /\ \A i \in 1..(Len(clients) - 1) : Front(clients)[i] = clients[i]
    <2> PICK n \in Nat : n = Len(clients) - 1
      BY <1>1
    <2>1. /\ SubSeq(clients, 1, n) \in Seq(Connections)
          /\ Len(SubSeq(clients, 1, n)) = IF 1 <= n THEN n - 1 + 1 ELSE 0
          /\ \A i \in 1..(n - 1 + 1) : SubSeq(clients, 1, n)[i] = clients[1 + i - 1]
      BY <1>7, SubSeqProperties
    <2> QED
      BY <1>6, <2>1
  <1> QED
    BY <1>1, <1>2, <1>5, <1>8 DEF ListInv

\* The place in the stream of the client that tick() receives from.
LEMMA CurrentStream ==
    ASSUME TypeOK, ControlInv, ListInv, StreamInv, At \in Receiving
    PROVE  /\ \E k \in 0..MaxRequests : k <= sent[current] /\ AfterRequests(current, k)
           /\ \A k \in 0..MaxRequests :
                  AfterRequests(current, k) /\ header_used[current] = HeaderLength =>
                      /\ k < sent[current] /\ k < MaxRequests
                      /\ Request(current) = k + 1 /\ k + 1 \in Requests
  <1>1. current \in sockets /\ current \in Connections
    BY CurrentIs
  <1>2. sent[current] \in 0..MaxRequests /\ read[current] \in Nat
        /\ header_used[current] \in 0..HeaderLength /\ payload_used[current] \in Nat
    BY <1>1, MaxPayloadLengthIs DEF TypeOK
  <1>3. \E k \in 0..MaxRequests : k <= sent[current] /\ AfterRequests(current, k)
    BY <1>1, <1>2 DEF StreamInv
  <1>4. ASSUME NEW k \in 0..MaxRequests, AfterRequests(current, k),
               header_used[current] = HeaderLength
        PROVE  /\ k < sent[current] /\ k < MaxRequests
               /\ Request(current) = k + 1 /\ k + 1 \in Requests
    <2>1. k < sent[current] /\ k < MaxRequests
      BY <1>2, <1>4 DEF AfterRequests
    <2>2. read[current] - header_used[current] - payload_used[current] = End[k]
      <3>1. End[k] \in Nat
        BY EndIs DEF Ends
      <3> QED
        BY <1>2, <1>4, <3>1 DEF AfterRequests
    <2> QED
      BY <1>1, <2>1, <2>2, RequestIs DEF Requests
  <1> QED
    BY <1>3, <1>4

-----------------------------------------------------------------------------
(* Types.                                                                  *)

LEMMA MaxAgeIs == MaxAge \in Nat /\ MinDisplaceDelay <= MaxAge /\ MaxIdleDuration <= MaxAge
  BY DEF MaxAge

AgeTypes == last_alive \in [Connections -> Nat] /\ sockets \in SUBSET Connections

LEMMA AgesAre == TypeOK => AgeTypes
  <1> SUFFICES ASSUME TypeOK PROVE AgeTypes
    OBVIOUS
  <1>1. last_alive \in [Connections -> 0..MaxAge] /\ sockets \subseteq Connections
    BY DEF TypeOK
  <1>2. \A c \in Connections : last_alive[c] \in Nat
    BY <1>1, MaxAgeIs
  <1> QED
    BY <1>1, <1>2 DEF AgeTypes

LEMMA AgesAreNext == TypeOK' => AgeTypes'
  BY AgesAre, PTL

LEMMA InitType == Init => TypeOK
  <1> SUFFICES ASSUME Init PROVE TypeOK
    OBVIOUS
  <1>1. 0 \in 0..MaxAge /\ 0 \in 0..MaxPayloadLength
    BY MaxAgeIs, MaxPayloadLengthIs
  <1>2. /\ last_alive \in [Connections -> 0..MaxAge]
        /\ header_used \in [Connections -> 0..HeaderLength]
        /\ header_checked \in [Connections -> BOOLEAN]
        /\ payload_used \in [Connections -> 0..MaxPayloadLength]
        /\ sent \in [Connections -> 0..MaxRequests]
        /\ gone \in [Connections -> BOOLEAN]
        /\ read \in [Connections -> Nat]
        /\ told \in [Connections -> Reasons \cup {"unknown", "connected"}]
        /\ handled \in [Connections -> 0..MaxRequests]
    BY <1>1 DEF Init
  <1>3. running \in BOOLEAN /\ callbacks \in BOOLEAN /\ non_reentrant \in BOOLEAN
    BY DEF Init
  <1>4. /\ last_idle_check \in 0..IdleCheckInterval /\ arrived \in 0..MaxConnections
        /\ pc \in Labels /\ after \in Resumes
    BY DEF Init, Labels, Resumes
  <1>5. /\ readable \subseteq Connections \cup {None} /\ sockets \subseteq Connections
        /\ current \in Connections \cup {None}
    BY DEF Init
  <1>6. /\ clients \in Seq(Connections) /\ pending \in Seq(Connections)
        /\ finished \in Seq(Connections) /\ backlog \in Seq(Connections)
    BY EmptySeq DEF Init
  <1> QED
    BY <1>2, <1>3, <1>4, <1>5, <1>6 DEF TypeOK

LEMMA ForgetType ==
    ASSUME TypeOK, NEW c \in Connections, Forget(c)
    PROVE  /\ last_alive' \in [Connections -> 0..MaxAge]
           /\ header_used' \in [Connections -> 0..HeaderLength]
           /\ header_checked' \in [Connections -> BOOLEAN]
           /\ payload_used' \in [Connections -> 0..MaxPayloadLength]
           /\ read' \in [Connections -> Nat]
           /\ sent' \in [Connections -> 0..MaxRequests]
           /\ gone' \in [Connections -> BOOLEAN]
  <1>1. 0 \in 0..MaxAge /\ 0 \in 0..MaxPayloadLength /\ 0 \in 0..HeaderLength
        /\ 0 \in 0..MaxRequests
    BY MaxAgeIs, MaxPayloadLengthIs
  <1> QED
    BY <1>1 DEF TypeOK, Forget

LEMMA DisconnectType ==
    ASSUME TypeOK, NEW c \in Connections, NEW reason \in Reasons, NEW next \in Resumes,
           Disconnect(c, reason, next),
           clients' \in Seq(Connections), current' \in Connections \cup {None},
           pending' \in Seq(Connections), finished' \in Seq(Connections)
    PROVE  TypeOK'
  <1>1. told' \in [Connections -> Reasons \cup {"unknown", "connected"}]
    BY DEF TypeOK, Disconnect
  <1>2. pc' \in Labels /\ after' \in Resumes
    BY DEF Disconnect, CallBack, Labels
  <1>3. sockets' \subseteq Connections
    BY DEF TypeOK, Disconnect
  <1>4. Forget(c)
    BY DEF Disconnect
  <1>5. UNCHANGED <<running, callbacks, non_reentrant, last_idle_check, readable, backlog,
                    arrived, handled>>
    BY DEF Disconnect
  <1> HIDE DEF Disconnect
  <1> QED
    BY <1>1, <1>2, <1>3, <1>4, <1>5, ForgetType DEF TypeOK

\* The reasons and places that the actions name.
LEMMA NamedTypes ==
    /\ {"ServerStopped", "Displaced", "NoFreeClient", "Idle", "DisconnectedByPeer",
        "SocketReceiveFailed", "ProtocolError", "SocketSendFailed"} \subseteq Reasons
    /\ Resumes = {"main", "stop", "displace", "place", "idle_check", "loop", "respond"}
    /\ Resumes \ {"main"} \subseteq Labels /\ Receiving \subseteq Labels
    /\ None \notin Connections
  BY DEF Reasons, Resumes, Labels, None, Connections, Receiving

LEMMA KeepType ==
    ASSUME TypeOK, current \in Connections, Keep,
           header_used' \in [Connections -> 0..HeaderLength],
           header_checked' \in [Connections -> BOOLEAN],
           payload_used' \in [Connections -> 0..MaxPayloadLength],
           read' \in [Connections -> Nat]
    PROVE  TypeOK'
  <1>1. finished' \in Seq(Connections)
    BY ConcatProperties DEF TypeOK, Keep
  <1>2. pc' \in Labels
    BY DEF Keep, Labels
  <1>3. UNCHANGED <<lifeVars, non_reentrant, clients, pending, aliveVars, after, readable,
                    sockets, peerVars, userVars>> /\ current' = None
    BY DEF Keep
  <1> QED
    BY <1>1, <1>2, <1>3 DEF TypeOK, lifeVars, aliveVars, peerVars, userVars

LEMMA DropType ==
    ASSUME TypeOK, current \in Connections, NEW reason \in Reasons, Drop(reason)
    PROVE  TypeOK'
  <1>1. clients' \in Seq(Connections) /\ pending' \in Seq(Connections)
        /\ finished' \in Seq(Connections) /\ current' \in Connections \cup {None}
    BY DEF TypeOK, Drop
  <1>2. Disconnect(current, reason, "loop")
    BY DEF Drop
  <1> QED
    BY <1>1, <1>2, DisconnectType, NamedTypes

\* What was received is never more than is missing.
LEMMA RecvSomeType ==
    ASSUME TypeOK, ControlInv, ListInv, StreamInv, RecvSome
    PROVE  TypeOK'
  <1>1. At = pc /\ At \in Receiving
    BY AtIs DEF RecvSome, Receiving
  <1>2. current \in Connections
    BY <1>1, CurrentIs
  <1>3. PICK n \in 1..Unread(current) :
             /\ HeaderGrows(n) \/ PayloadGrows(n)
             /\ read' = [read EXCEPT ![current] = @ + n]
    BY DEF RecvSome
  <1>4. Unread(current) \in Int
    BY <1>2, EndIs DEF TypeOK, Unread, Ends
  <1>5. read' \in [Connections -> Nat] /\ n \in Nat
    BY <1>2, <1>3, <1>4 DEF TypeOK
  <1>6. CASE HeaderGrows(n)
    <2>1. /\ header_used' = [header_used EXCEPT ![current] = @ + n]
          /\ header_used[current] + n \in 0..HeaderLength
          /\ UNCHANGED <<header_checked, payload_used>>
      BY <1>2, <1>5, <1>6 DEF HeaderGrows, HeaderMissing, TypeOK
    <2>2. /\ header_used' \in [Connections -> 0..HeaderLength]
          /\ header_checked' \in [Connections -> BOOLEAN]
          /\ payload_used' \in [Connections -> 0..MaxPayloadLength]
      BY <2>1 DEF TypeOK
    <2>3. CASE Keep
      BY <1>2, <1>5, <2>2, <2>3, KeepType
    <2>4. CASE /\ pc' = "check_header"
               /\ UNCHANGED <<lifeVars, non_reentrant, listVars, aliveVars, after, readable,
                              sockets, peerVars, userVars>>
      BY <1>5, <2>2, <2>4 DEF TypeOK, Labels, lifeVars, listVars, aliveVars, peerVars, userVars
    <2> QED
      BY <1>6, <2>3, <2>4 DEF HeaderGrows
  <1>7. CASE PayloadGrows(n)
    <2>1. header_used[current] = HeaderLength
      BY <1>1, <1>7 DEF PayloadGrows, StreamInv, Receiving
    <2>2. PICK k \in 0..MaxRequests : Request(current) = k + 1 /\ k + 1 \in Requests
      BY <1>1, <2>1, CurrentStream
    <2>3. PayloadLength[k + 1] <= MaxPayloadLength /\ PayloadLength[k + 1] \in Nat
          /\ MaxPayloadLength \in Nat
      BY <2>2, MaxPayloadLengthIs
    <2>4. /\ payload_used' = [payload_used EXCEPT ![current] = @ + n]
          /\ UNCHANGED <<header_used, header_checked>>
          /\ n <= PayloadLength[k + 1] - payload_used[current]
      BY <1>7, <2>2 DEF PayloadGrows, PayloadMissing
    <2>5. payload_used[current] + n \in 0..MaxPayloadLength
      <3>1. payload_used[current] \in Nat
        BY <1>2, <2>3 DEF TypeOK
      <3> QED
        BY <1>5, <2>3, <2>4, <3>1
    <2>6. /\ header_used' \in [Connections -> 0..HeaderLength]
          /\ header_checked' \in [Connections -> BOOLEAN]
          /\ payload_used' \in [Connections -> 0..MaxPayloadLength]
      BY <2>4, <2>5 DEF TypeOK
    <2>7. CASE Keep
      BY <1>2, <1>5, <2>6, <2>7, KeepType
    <2>8. CASE /\ pc' = "execute"
               /\ UNCHANGED <<lifeVars, non_reentrant, listVars, aliveVars, after, readable,
                              sockets, peerVars, userVars>>
      BY <1>5, <2>6, <2>8 DEF TypeOK, Labels, lifeVars, listVars, aliveVars, peerVars, userVars
    <2> QED
      BY <1>7, <2>7, <2>8 DEF PayloadGrows
  <1> QED
    BY <1>3, <1>6, <1>7

LEMMA ServeType ==
    ASSUME TypeOK, ControlInv, ListInv, StreamInv, Serve
    PROVE  TypeOK'
  <1>1. At = pc /\ At \in Receiving
    BY AtIs DEF Serve, RecvSome, RecvNothing, RecvFails, CheckHeader, HeaderIsBad, CallRequest,
       Refuse, PayloadIsBad, Responded, SendFails, Receiving
  <1>2. current \in Connections
    BY <1>1, CurrentIs
  <1>3. CASE RecvSome
    BY <1>3, RecvSomeType
  <1>4. CASE RecvNothing
    <2>1. Keep /\ UNCHANGED requestVars
      BY <1>4 DEF RecvNothing
    <2>2. /\ header_used' \in [Connections -> 0..HeaderLength]
          /\ header_checked' \in [Connections -> BOOLEAN]
          /\ payload_used' \in [Connections -> 0..MaxPayloadLength]
          /\ read' \in [Connections -> Nat]
      BY <2>1 DEF requestVars, TypeOK
    <2> QED
      BY <1>2, <2>1, <2>2, KeepType
  <1>5. CASE RecvFails \/ HeaderIsBad \/ PayloadIsBad \/ SendFails
    <2>1. PICK reason \in Reasons : Drop(reason)
      BY <1>5, NamedTypes DEF RecvFails, HeaderIsBad, PayloadIsBad, SendFails
    <2> QED
      BY <1>2, <2>1, DropType
  <1>6. CASE CheckHeader \/ Refuse
    <2>1. pc' \in Labels
      BY <1>6 DEF CheckHeader, Refuse, Labels
    <2>2. header_checked' \in [Connections -> BOOLEAN]
      BY <1>6 DEF CheckHeader, Refuse, TypeOK, requestVars
    <2>3. UNCHANGED <<lifeVars, non_reentrant, listVars, aliveVars, header_used, payload_used,
                      read, after, readable, sockets, peerVars, userVars>>
      BY <1>6 DEF CheckHeader, Refuse, requestVars
    <2> QED
      BY <2>1, <2>2, <2>3 DEF TypeOK, lifeVars, listVars, aliveVars, peerVars, userVars
  <1>7. CASE CallRequest
    <2>1. pc = "execute" /\ header_used[current] = HeaderLength
      BY <1>1, <1>7 DEF CallRequest, StreamInv, Receiving
    <2>2. PICK k \in 0..MaxRequests : AfterRequests(current, k)
      BY <1>1, CurrentStream
    <2>3. k < MaxRequests
      BY <1>1, <2>1, <2>2, CurrentStream
    <2>4. handled[current] + 1 \in 0..MaxRequests
      <3>1. handled[current] \in Nat
        BY <1>2 DEF TypeOK
      <3>2. At = "execute"
        BY <1>1, <2>1
      <3>3. handled[current] <= k
        BY <2>2, <3>1, <3>2 DEF AfterRequests
      <3> QED
        BY <2>3, <3>1, <3>3
    <2>5. handled' \in [Connections -> 0..MaxRequests]
      BY <1>2, <1>7, <2>4 DEF CallRequest, TypeOK
    <2>6. pc' \in Labels /\ after' \in Resumes
      BY <1>7 DEF CallRequest, CallBack, Labels, Resumes
    <2>7. UNCHANGED <<lifeVars, non_reentrant, listVars, aliveVars, requestVars, readable,
                      sockets, peerVars, told>>
      BY <1>7 DEF CallRequest
    <2> QED
      BY <2>5, <2>6, <2>7 DEF TypeOK, lifeVars, listVars, aliveVars, requestVars, peerVars
  <1>8. CASE Responded
    <2>1. Keep /\ ResetRequest(current) /\ UNCHANGED read
      BY <1>8 DEF Responded
    <2>2. 0 \in 0..MaxPayloadLength /\ 0 \in 0..HeaderLength
      BY MaxPayloadLengthIs
    <2>3. /\ header_used' \in [Connections -> 0..HeaderLength]
          /\ header_checked' \in [Connections -> BOOLEAN]
          /\ payload_used' \in [Connections -> 0..MaxPayloadLength]
          /\ read' \in [Connections -> Nat]
      BY <2>1, <2>2 DEF ResetRequest, TypeOK
    <2> QED
      BY <1>2, <2>1, <2>3, KeepType
  <1> QED
    BY <1>3, <1>4, <1>5, <1>6, <1>7, <1>8 DEF Serve

LEMMA TypeStep ==
    ASSUME TypeOK, ControlInv, ListInv, StreamInv, [Next]_vars
    PROVE  TypeOK'
  <1> USE DEF lifeVars, listVars, aliveVars, requestVars, peerVars, userVars
  <1>1. CASE Start \/ Stop \/ CallbackReturns \/ Stopped
    <2>1. pc' \in Labels /\ after' \in Resumes
      BY <1>1, NamedTypes DEF Start, Stop, CallbackReturns, Stopped, TypeOK, Labels
    <2>2. running' \in BOOLEAN /\ callbacks' \in BOOLEAN /\ non_reentrant' \in BOOLEAN
      BY <1>1 DEF Start, Stop, CallbackReturns, Stopped, TypeOK
    <2>3. /\ clients' \in Seq(Connections) /\ pending' \in Seq(Connections)
          /\ backlog' \in Seq(Connections)
      <3>1. <<>> \in Seq(Connections) /\ clients \in Seq(Connections)
            /\ pending \in Seq(Connections) /\ backlog \in Seq(Connections)
        BY EmptySeq DEF TypeOK
      <3> QED
        BY <1>1, <3>1 DEF Start, Stop, CallbackReturns, Stopped
    <2>4. UNCHANGED <<last_alive, last_idle_check, header_used, header_checked, payload_used,
                      readable, current, finished, sockets, arrived, sent, gone, read, told,
                      handled>>
      BY <1>1 DEF Start, Stop, CallbackReturns, Stopped
    <2> QED
      BY <2>1, <2>2, <2>3, <2>4 DEF TypeOK
  <1>2. CASE Tick \/ AcceptFails \/ DisplaceNone
    <2>1. pc' \in Labels
      BY <1>2 DEF Tick, AcceptFails, DisplaceNone, Labels
    <2>2. readable' \subseteq Connections \cup {None} /\ non_reentrant' \in BOOLEAN
      BY <1>2 DEF Tick, AcceptFails, DisplaceNone, Reportable, TypeOK
    <2>3. UNCHANGED <<lifeVars, listVars, aliveVars, requestVars, after, sockets, peerVars,
                      userVars>>
      BY <1>2 DEF Tick, AcceptFails, DisplaceNone
    <2> QED
      BY <2>1, <2>2, <2>3 DEF TypeOK
  <1>3. CASE Accept
    <2>1. backlog # <<>>
      BY <1>3 DEF Accept, ControlInv
    <2>2. current' \in Connections /\ backlog' \in Seq(Connections)
      BY <1>3, <2>1, TailIs DEF Accept, TypeOK
    <2>3. sockets' \subseteq Connections
          /\ told' \in [Connections -> Reasons \cup {"unknown", "connected"}]
      BY <1>3, <2>2 DEF Accept, TypeOK
    <2>4. pc' \in Labels /\ after' \in Resumes
      BY <1>3 DEF Accept, CallBack, Labels, Resumes
    <2>5. UNCHANGED <<lifeVars, non_reentrant, clients, aliveVars, requestVars, pending,
                      finished, readable, arrived, sent, gone, handled>>
      BY <1>3 DEF Accept
    <2> QED
      BY <2>2, <2>3, <2>4, <2>5 DEF TypeOK
  <1>4. CASE Displace
    <2>1. Disconnect(LeastAlive, "Displaced", "place") /\ clients' = Front(clients)
          /\ UNCHANGED <<current, pending, finished>>
      BY <1>4 DEF Displace
    <2>2. LeastAlive \in Connections /\ clients' \in Seq(Connections)
      BY <1>4, <2>1, LastIs DEF Displace
    <2>3. /\ current' \in Connections \cup {None}
          /\ pending' \in Seq(Connections) /\ finished' \in Seq(Connections)
      BY <2>1 DEF TypeOK
    <2> QED
      BY <2>1, <2>2, <2>3, DisconnectType, NamedTypes
  <1>5. CASE TurnAway
    <2>1. Disconnect(current, "NoFreeClient", "idle_check") /\ current' = None
          /\ UNCHANGED <<clients, pending, finished>>
      BY <1>5 DEF TurnAway
    <2>2. current \in Connections
      BY <1>5, CurrentIs, AtIs DEF TurnAway, Placing
    <2>3. /\ current' \in Connections \cup {None} /\ clients' \in Seq(Connections)
          /\ pending' \in Seq(Connections) /\ finished' \in Seq(Connections)
      BY <2>1 DEF TypeOK
    <2> QED
      BY <2>1, <2>2, <2>3, DisconnectType, NamedTypes
  <1>6. CASE Admit
    <2>1. current \in Connections
      BY <1>6, CurrentIs, AtIs DEF Admit, Placing
    <2>2. clients' \in Seq(Connections)
      BY <1>6, <2>1, ConcatProperties DEF Admit, TypeOK
    <2>3. 0 \in 0..MaxAge /\ 0 \in 0..MaxPayloadLength /\ 0 \in 0..HeaderLength
      BY MaxAgeIs, MaxPayloadLengthIs
    <2>4. /\ last_alive' \in [Connections -> 0..MaxAge]
          /\ header_used' \in [Connections -> 0..HeaderLength]
          /\ header_checked' \in [Connections -> BOOLEAN]
          /\ payload_used' \in [Connections -> 0..MaxPayloadLength]
      BY <1>6, <2>1, <2>3 DEF Admit, TypeOK
    <2>5. pc' \in Labels /\ current' \in Connections \cup {None}
      BY <1>6 DEF Admit, Labels
    <2>6. UNCHANGED <<lifeVars, non_reentrant, pending, finished, last_idle_check, read, after,
                      readable, sockets, peerVars, userVars>>
      BY <1>6 DEF Admit
    <2> QED
      BY <2>2, <2>4, <2>5, <2>6 DEF TypeOK
  <1>7. CASE StartLoop \/ LoopEnds
    <2>1. pc' \in Labels /\ non_reentrant' \in BOOLEAN
      BY <1>7 DEF StartLoop, LoopEnds, Labels, TypeOK
    <2>2. /\ clients' \in Seq(Connections) /\ pending' \in Seq(Connections)
          /\ finished' \in Seq(Connections)
      <3>1. <<>> \in Seq(Connections) /\ clients \in Seq(Connections)
            /\ pending \in Seq(Connections) /\ finished \in Seq(Connections)
        BY EmptySeq DEF TypeOK
      <3> QED
        BY <1>7, <3>1 DEF StartLoop, LoopEnds
    <2>4. readable' \subseteq Connections \cup {None}
      BY <1>7 DEF StartLoop, LoopEnds, TypeOK
    <2>5. last_idle_check' \in 0..IdleCheckInterval
      <3>1. 0 \in 0..IdleCheckInterval /\ last_idle_check \in 0..IdleCheckInterval
        BY DEF TypeOK
      <3> QED
        BY <1>7, <3>1 DEF StartLoop, LoopEnds
    <2>3. UNCHANGED <<lifeVars, current, last_alive, requestVars, after, sockets, peerVars,
                      userVars>>
      BY <1>7 DEF StartLoop, LoopEnds
    <2> QED
      BY <2>1, <2>2, <2>3, <2>4, <2>5 DEF TypeOK
  <1>8. CASE StopClient \/ LoopIdle
    <2>1. At \in {"stop", "loop"} /\ pending # <<>> /\ pending' = Tail(pending)
          /\ UNCHANGED <<clients, current, finished>>
      BY <1>8, AtIs DEF StopClient, LoopIdle
    <2>2. Head(pending) \in Connections /\ pending' \in Seq(Connections)
      BY <2>1, PendingIs
    <2>3. \E reason \in Reasons, next \in Resumes : Disconnect(Head(pending), reason, next)
      BY <1>8, NamedTypes DEF StopClient, LoopIdle
    <2>4. /\ current' \in Connections \cup {None} /\ clients' \in Seq(Connections)
          /\ finished' \in Seq(Connections)
      BY <2>1 DEF TypeOK
    <2> QED
      BY <2>2, <2>3, <2>4, DisconnectType
  <1>9. CASE LoopUnreadable
    <2>1. Head(pending) \in Connections /\ Tail(pending) \in Seq(Connections)
      BY <1>9, TailIs DEF LoopUnreadable, TypeOK
    <2>2. pending' \in Seq(Connections) /\ finished' \in Seq(Connections)
      BY <1>9, <2>1, AppendProperties DEF LoopUnreadable, KeptUnread, TypeOK
    <2>3. UNCHANGED <<lifeVars, non_reentrant, clients, current, aliveVars, requestVars,
                      pc, after, readable, sockets, peerVars, userVars>>
      BY <1>9 DEF LoopUnreadable
    <2> QED
      BY <2>2, <2>3 DEF TypeOK
  <1>10. CASE LoopReadable
    <2>1. current' \in Connections /\ pending' \in Seq(Connections)
      BY <1>10, TailIs DEF LoopReadable, TypeOK
    <2>2. last_alive' \in [Connections -> 0..MaxAge]
      BY <1>10, <2>1, MaxAgeIs DEF LoopReadable, TypeOK
    <2>3. pc' \in Labels
      BY <1>10 DEF LoopReadable, Labels
    <2>4. UNCHANGED <<lifeVars, non_reentrant, clients, finished, last_idle_check,
                      requestVars, after, readable, sockets, peerVars, userVars>>
      BY <1>10 DEF LoopReadable
    <2> QED
      BY <2>1, <2>2, <2>3, <2>4 DEF TypeOK
  <1>11. CASE Serve
    BY <1>11, ServeType
  <1>12. CASE Connect
    <2>1. arrived' \in 0..MaxConnections /\ arrived' \in Connections
      BY <1>12 DEF Connect, TypeOK, Connections
    <2>2. backlog' \in Seq(Connections)
      BY <1>12, <2>1, AppendProperties DEF Connect, TypeOK
    <2>3. UNCHANGED <<lifeVars, non_reentrant, listVars, aliveVars, requestVars, pc, after,
                      readable, sockets, sent, gone, userVars>>
      BY <1>12 DEF Connect
    <2> QED
      BY <2>1, <2>2, <2>3 DEF TypeOK
  <1>13. CASE \E c \in Connections : Send(c) \/ Leave(c)
    <2>1. sent' \in [Connections -> 0..MaxRequests] /\ gone' \in [Connections -> BOOLEAN]
      <3>1. ASSUME NEW c \in Connections, Send(c) PROVE sent' \in [Connections -> 0..MaxRequests]
        <4>1. sent[c] + 1 \in 0..MaxRequests
          BY <3>1 DEF Send, TypeOK
        <4> QED
          BY <3>1, <4>1 DEF Send, TypeOK
      <3>2. ASSUME NEW c \in Connections, Send(c) PROVE gone' \in [Connections -> BOOLEAN]
        BY <3>2 DEF Send, TypeOK
      <3>3. ASSUME NEW c \in Connections, Leave(c)
            PROVE  sent' \in [Connections -> 0..MaxRequests] /\ gone' \in [Connections -> BOOLEAN]
        BY <3>3 DEF Leave, TypeOK
      <3> QED
        BY <1>13, <3>1, <3>2, <3>3
    <2>2. UNCHANGED <<lifeVars, non_reentrant, listVars, aliveVars, requestVars, pc, after,
                      readable, sockets, backlog, arrived, userVars>>
      BY <1>13 DEF Send, Leave
    <2> QED
      BY <2>1, <2>2 DEF TypeOK
  <1>14. CASE Elapse
    <2>1. \A c \in Connections : last_alive[c] \in 0..MaxAge
      BY DEF TypeOK
    <2>2. last_alive' \in [Connections -> 0..MaxAge]
      BY <1>14, <2>1, MaxAgeIs DEF Elapse, Older
    <2>3. last_idle_check' \in 0..IdleCheckInterval
      BY <1>14 DEF Elapse, Older, TypeOK
    <2>4. UNCHANGED <<lifeVars, non_reentrant, listVars, requestVars, pc, after, readable,
                      sockets, peerVars, userVars>>
      BY <1>14 DEF Elapse
    <2> QED
      BY <2>2, <2>3, <2>4 DEF TypeOK
  <1>15. CASE UNCHANGED vars
    BY <1>15 DEF vars, TypeOK
  <1> QED
    BY <1>1, <1>2, <1>3, <1>4, <1>5, <1>6, <1>7, <1>8, <1>9, <1>10, <1>11, <1>12, <1>13,
       <1>14, <1>15 DEF Next, LibraryStep

-----------------------------------------------------------------------------
(* Control.                                                                *)

LEMMA InitControl == Init => ControlInv
  BY DEF Init, ControlInv, At, InLoop, Placing, Receiving

\* After a callback, the places where nothing is in hand but the list.
LEMMA DisconnectControl ==
    ASSUME TypeOK, ControlInv, pc # "user", pc # "main",
           NEW c, NEW reason, NEW next \in Resumes \ {"main"}, Disconnect(c, reason, next),
           next = "stop" <=> pc = "stop",
           clients' = <<>> \/ pc # "stop",
           current' # None <=> next \in Placing \cup Receiving,
           next \notin {"stop", "loop"} \cup Receiving => pending' = <<>>,
           next \notin {"loop"} \cup Receiving => finished' = <<>>
    PROVE  ControlInv'
  <1>1. pc' = "user" /\ after' = next /\ At' = next
        /\ UNCHANGED <<running, callbacks, non_reentrant>>
    BY DEF Disconnect, CallBack, At
  <1>2. At = pc
    BY DEF At
  <1>3. InLoop' <=> next \in {"loop"} \cup Receiving
    BY <1>1 DEF InLoop, Receiving
  <1> HIDE DEF Disconnect
  <1> QED
    BY <1>1, <1>2, <1>3 DEF ControlInv

LEMMA ServeControl ==
    ASSUME TypeOK, ControlInv, Serve
    PROVE  ControlInv'
  <1>1. At = pc /\ pc \in Receiving /\ InLoop
    BY AtIs DEF Serve, RecvSome, HeaderGrows, PayloadGrows, RecvNothing, RecvFails, CheckHeader,
       HeaderIsBad, CallRequest, Refuse, PayloadIsBad, Responded, SendFails, Receiving
  <1>2. current # None /\ running /\ callbacks /\ non_reentrant /\ after = "main"
    BY <1>1 DEF ControlInv, Placing, Receiving
  <1>3. CASE Keep
    <2>1. pc' = "loop" /\ At' = "loop" /\ InLoop' /\ current' = None
          /\ UNCHANGED <<running, callbacks, non_reentrant, after>>
      BY <1>3 DEF Keep, At, InLoop, lifeVars
    <2> QED
      BY <1>2, <2>1 DEF ControlInv, Placing, Receiving
  <1>4. CASE \E reason \in Reasons : Drop(reason)
    <2>1. PICK reason \in Reasons : Drop(reason)
      BY <1>4
    <2>2. Disconnect(current, reason, "loop") /\ current' = None
      BY <2>1 DEF Drop
    <2> QED
      BY <1>1, <2>2, DisconnectControl DEF Resumes, Placing, Receiving
  <1>5. CASE /\ UNCHANGED <<lifeVars, non_reentrant, listVars>>
             /\ At' \in Receiving
             /\ pc' # "user" => after' = "main"
    <2>1. At' \notin {"main", "stop"} /\ InLoop' /\ pc' # "accept"
      BY <1>5 DEF Receiving, InLoop, At
    <2> QED
      BY <1>2, <1>5, <2>1 DEF ControlInv, lifeVars, listVars, Receiving
  <1> QED
    <2>1. RecvSome => Keep \/ (/\ UNCHANGED <<lifeVars, non_reentrant, listVars, after>>
                               /\ pc' \in {"check_header", "execute"})
      BY DEF RecvSome, HeaderGrows, PayloadGrows
    <2>2. CheckHeader \/ Refuse => /\ UNCHANGED <<lifeVars, non_reentrant, listVars, after>>
                                   /\ pc' \in {"recv_payload", "execute", "respond"}
      BY DEF CheckHeader, Refuse
    <2>3. CallRequest => /\ UNCHANGED <<lifeVars, non_reentrant, listVars>>
                         /\ pc' = "user" /\ after' = "respond"
      BY DEF CallRequest, CallBack
    <2>4. RecvNothing \/ Responded => Keep
      BY DEF RecvNothing, Responded
    <2>5. RecvFails \/ HeaderIsBad \/ PayloadIsBad \/ SendFails =>
              \E reason \in Reasons : Drop(reason)
      BY NamedTypes DEF RecvFails, HeaderIsBad, PayloadIsBad, SendFails
    <2> QED
      BY <1>2, <1>3, <1>4, <1>5, <2>1, <2>2, <2>3, <2>4, <2>5 DEF Serve, At, Receiving

LEMMA ControlStep ==
    ASSUME TypeOK, ControlInv, ListInv, [Next]_vars
    PROVE  ControlInv'
  <1> USE DEF lifeVars, listVars
  <1>1. CASE Start \/ Stop \/ Stopped \/ CallbackReturns
    <2>1. CASE Start
      BY <1>1, <2>1 DEF Start, ControlInv, At, InLoop
    <2>2. CASE Stop
      BY <2>2 DEF Stop, ControlInv, At, InLoop, Placing, Receiving
    <2>3. CASE Stopped
      BY <2>3 DEF Stopped, ControlInv, At, InLoop, Placing, Receiving
    <2>4. CASE CallbackReturns
      <3>1. At' = At /\ (InLoop' <=> InLoop) /\ pc' # "accept" /\ after' = "main"
        BY <2>4 DEF CallbackReturns, At, InLoop, TypeOK, Resumes
      <3> QED
        BY <2>4, <3>1 DEF CallbackReturns, ControlInv
    <2> QED
      BY <1>1, <2>1, <2>2, <2>3, <2>4
  <1>2. CASE Tick
    <2>1. None \in readable' => backlog' # <<>>
      BY <1>2, NamedTypes DEF Tick, Reportable, TypeOK, peerVars
    <2> QED
      BY <1>2, <2>1 DEF Tick, ControlInv, At, InLoop, Placing, Receiving
  <1>3. CASE AcceptFails \/ DisplaceNone \/ StartLoop \/ LoopEnds
    BY <1>3 DEF AcceptFails, DisplaceNone, StartLoop, LoopEnds, ControlInv, At, InLoop, Placing,
       Receiving
  <1>4. CASE Accept
    <2>1. current' # None
      <3>1. backlog # <<>> /\ backlog \in Seq(Connections)
        BY <1>4 DEF Accept, ControlInv, TypeOK
      <3>2. Head(backlog) \in Connections
        BY <3>1, TailIs
      <3> QED
        BY <1>4, <3>2, NamedTypes DEF Accept
    <2> QED
      BY <1>4, <2>1 DEF Accept, CallBack, ControlInv, At, InLoop, Placing, Receiving
  <1>5. CASE Displace
    BY <1>5, DisconnectControl DEF Displace, ControlInv, At, InLoop, Placing, Receiving, Resumes
  <1>6. CASE TurnAway
    BY <1>6, DisconnectControl DEF TurnAway, ControlInv, At, InLoop, Placing, Receiving, Resumes
  <1>7. CASE Admit
    BY <1>7 DEF Admit, ControlInv, At, InLoop, Placing, Receiving
  <1>8. CASE StopClient \/ LoopIdle
    BY <1>8, DisconnectControl DEF StopClient, LoopIdle, ControlInv, At, InLoop, Placing,
       Receiving, Resumes
  <1>9. CASE LoopUnreadable
    BY <1>9 DEF LoopUnreadable, ControlInv, At, InLoop, Placing, Receiving
  <1>10. CASE LoopReadable
    <2>1. current' # None
      BY <1>10, TailIs, NamedTypes DEF LoopReadable, TypeOK
    <2> QED
      BY <1>10, <2>1 DEF LoopReadable, ControlInv, At, InLoop, Placing, Receiving
  <1>11. CASE Serve
    BY <1>11, ServeControl
  <1>12. CASE Connect \/ (\E c \in Connections : Send(c) \/ Leave(c)) \/ Elapse \/ UNCHANGED vars
    <2>1. UNCHANGED <<running, callbacks, non_reentrant, clients, current, pending, finished,
                      pc, after>> /\ (backlog' = backlog \/ pc = "user")
      BY <1>12 DEF Connect, Send, Leave, Elapse, vars, peerVars
    <2> QED
      BY <2>1 DEF ControlInv, At, InLoop
  <1> QED
    BY <1>1, <1>2, <1>3, <1>4, <1>5, <1>6, <1>7, <1>8, <1>9, <1>10, <1>11, <1>12
    DEF Next, LibraryStep

-----------------------------------------------------------------------------
(* The list stays what it is.                                              *)

\* rest is the list without its p-th element.
Without(list, rest, p) ==
    /\ Len(rest) = Len(list) - 1
    /\ \A i \in 1..Len(rest) : rest[i] = IF i < p THEN list[i] ELSE list[i + 1]

LEMMA WithoutHead ==
    ASSUME NEW S, NEW s \in Seq(S), NEW t \in Seq(S), s # <<>>
    PROVE  /\ Len(t) + 1 \in 1..Len(t \o s) /\ (t \o s)[Len(t) + 1] = Head(s)
           /\ Without(t \o s, t \o Tail(s), Len(t) + 1)
  <1> PICK m \in Nat : m = Len(t)
    OBVIOUS
  <1> PICK n \in Nat \ {0} : n = Len(s)
    BY TailIs
  <1>1. Head(s) = s[1] /\ Tail(s) \in Seq(S) /\ Len(Tail(s)) = n - 1
        /\ \A i \in 1..(n - 1) : Tail(s)[i] = s[i + 1]
    BY TailIs
  <1>2. /\ Len(t \o s) = m + n
        /\ \A i \in 1..(m + n) : (t \o s)[i] = IF i <= m THEN t[i] ELSE s[i - m]
    BY ConcatProperties
  <1>3. /\ Len(t \o Tail(s)) = m + (n - 1)
        /\ \A i \in 1..(m + (n - 1)) :
               (t \o Tail(s))[i] = IF i <= m THEN t[i] ELSE Tail(s)[i - m]
    BY <1>1, ConcatProperties
  <1>4. ASSUME NEW i \in 1..(m + (n - 1))
        PROVE  (t \o Tail(s))[i] = IF i < m + 1 THEN (t \o s)[i] ELSE (t \o s)[i + 1]
    <2>1. CASE i <= m
      <3>1. i \in 1..(m + n) /\ i < m + 1
        BY <2>1
      <3> QED
        BY <1>2, <1>3, <2>1, <3>1
    <2>2. CASE ~(i <= m)
      <3>1. i + 1 \in 1..(m + n) /\ ~(i < m + 1) /\ ~(i + 1 <= m) /\ i - m \in 1..(n - 1)
            /\ (i + 1) - m = (i - m) + 1
        BY <2>2
      <3>2. Tail(s)[i - m] = s[(i - m) + 1]
        BY <1>1, <3>1
      <3>3. (t \o s)[i + 1] = s[(i + 1) - m]
        BY <1>2, <3>1
      <3> QED
        BY <1>3, <2>2, <3>1, <3>2, <3>3
    <2> QED
      BY <2>1, <2>2
  <1>5. m + 1 \in 1..(m + n) /\ (t \o s)[m + 1] = Head(s)
    BY <1>1, <1>2
  <1> QED
    BY <1>2, <1>3, <1>4, <1>5 DEF Without

LEMMA WithoutFirst ==
    ASSUME NEW S, NEW s \in Seq(S), NEW c \in S
    PROVE  /\ 1 \in 1..Len(<<c>> \o s) /\ (<<c>> \o s)[1] = c
           /\ Len(<<c>> \o s) = Len(s) + 1
           /\ \A i \in 1..Len(s) : (<<c>> \o s)[i + 1] = s[i]
           /\ Without(<<c>> \o s, s, 1)
  <1>1. <<c>> \in Seq(S) /\ Len(<<c>>) = 1
    OBVIOUS
  <1>2. /\ Len(<<c>> \o s) = 1 + Len(s)
        /\ \A i \in 1..(1 + Len(s)) : (<<c>> \o s)[i] = IF i <= 1 THEN c ELSE s[i - 1]
    BY <1>1, ConcatProperties
  <1> QED
    BY <1>2 DEF Without

LEMMA WithoutLast ==
    ASSUME NEW S, NEW s \in Seq(S), NEW r \in Seq(S), NEW c \in S, s # <<>>,
           Len(r) = Len(s) - 1, \A i \in 1..(Len(s) - 1) : r[i] = s[i]
    PROVE  /\ Len(s) + 1 \in 1..Len(<<c>> \o s)
           /\ (<<c>> \o s)[Len(s) + 1] = s[Len(s)]
           /\ Without(<<c>> \o s, <<c>> \o r, Len(s) + 1)
  <1> PICK n \in Nat \ {0} : n = Len(s)
    BY TailIs
  <1>1. <<c>> \in Seq(S) /\ Len(<<c>>) = 1
    OBVIOUS
  <1>2. /\ Len(<<c>> \o s) = 1 + n
        /\ \A i \in 1..(1 + n) : (<<c>> \o s)[i] = IF i <= 1 THEN c ELSE s[i - 1]
    BY <1>1, ConcatProperties
  <1>3. /\ Len(<<c>> \o r) = 1 + (n - 1)
        /\ \A i \in 1..(1 + (n - 1)) : (<<c>> \o r)[i] = IF i <= 1 THEN c ELSE r[i - 1]
    BY <1>1, ConcatProperties
  <1>4. ASSUME NEW i \in 1..(1 + (n - 1)) PROVE (<<c>> \o r)[i] = (<<c>> \o s)[i] /\ i < n + 1
    BY <1>2, <1>3
  <1> QED
    BY <1>2, <1>3, <1>4 DEF Without

\* An element that moves from the head of one list to the end of another one before it.
LEMMA MoveHead ==
    ASSUME NEW S, NEW s \in Seq(S), NEW t \in Seq(S), s # <<>>
    PROVE  Append(t, Head(s)) \o Tail(s) = t \o s
  <1>1. Head(s) \in S /\ Tail(s) \in Seq(S) /\ <<Head(s)>> \in Seq(S)
    BY TailIs
  <1>2. <<Head(s)>> \o Tail(s) = s
    <2>1. Len(<<Head(s)>> \o Tail(s)) = Len(s) /\ <<Head(s)>> \o Tail(s) \in Seq(S)
      BY <1>1, ConcatProperties, TailIs
    <2>2. ASSUME NEW i \in 1..Len(s) PROVE (<<Head(s)>> \o Tail(s))[i] = s[i]
      <3>1. CASE i = 1
        BY <1>1, <3>1, WithoutFirst, TailIs
      <3>2. CASE i # 1
        <4>1. i - 1 \in 1..Len(Tail(s)) /\ (i - 1) + 1 = i
          BY <3>2, TailIs
        <4>2. (<<Head(s)>> \o Tail(s))[i] = Tail(s)[i - 1]
          BY <1>1, <4>1, WithoutFirst
        <4> QED
          BY <4>1, <4>2, TailIs
      <3> QED
        BY <3>1, <3>2
    <2> QED
      BY <2>1, <2>2, SeqEqual
  <1>3. Append(t, Head(s)) = t \o <<Head(s)>>
    BY <1>1, AppendIsConcat
  <1>4. (t \o <<Head(s)>>) \o Tail(s) = t \o (<<Head(s)>> \o Tail(s))
    BY <1>1, ConcatAssociative
  <1> QED
    BY <1>2, <1>3, <1>4

LEMMA InitList == Init => ListInv
  <1> SUFFICES ASSUME Init PROVE ListInv
    OBVIOUS
  <1>1. Reached = <<>> /\ At = "main" /\ sockets = {}
    BY DEF Init, Reached, At, InLoop
  <1>2. Len(Reached) = 0 /\ IsInjective(Reached) /\ ToSet(Reached) = {}
        /\ Sorted(Reached, last_alive)
    BY <1>1 DEF IsInjective, ToSet, Sorted
  <1>3. \A c \in Connections : told[c] # "connected"
    BY DEF Init
  <1> QED
    BY <1>1, <1>2, <1>3 DEF ListInv, Placing

Bound == MaxClients + (IF At \in Placing THEN 1 ELSE 0)

LEMMA ListInvIs ==
    List(Reached, sockets, last_alive) /\ Len(Reached) <= Bound
        /\ sockets = {c \in Connections : told[c] = "connected"} => ListInv
  BY DEF List, ListInv, Bound

LEMMA ListInvIsNext ==
    List(Reached', sockets', last_alive') /\ Len(Reached') <= Bound'
        /\ sockets' = {c \in Connections : told'[c] = "connected"} => ListInv'
  BY DEF List, ListInv, Bound, Sorted, IsInjective, ToSet

\* Nothing happens to the list, though it may be distributed in another way.
LEMMA ListQuiet ==
    ASSUME TypeOK, ControlInv, ListInv, Reached' = Reached, UNCHANGED <<sockets, told>>,
           \A c \in sockets : last_alive'[c] = last_alive[c],
           At \in Placing => At' \in Placing \/ Len(Reached) <= MaxClients
    PROVE  ListInv'
  <1>1. List(Reached, sockets, last_alive)
    BY ReachedList
  <1>2. List(Reached, sockets, last_alive')
    <2>1. Reached \in Seq(Connections)
      BY ReachedIs DEF ReachedFacts
    <2>2. \A c, d \in sockets :
              last_alive[c] <= last_alive[d] => last_alive'[c] <= last_alive'[d]
      OBVIOUS
    <2> QED
      BY <1>1, <2>1, <2>2, ListLater
  <1>3. Len(Reached) <= Bound'
    <2>1. Len(Reached) \in Nat /\ Len(Reached) <= Bound
      BY ReachedIs DEF ReachedFacts, ListInv, Bound
    <2> QED
      BY <2>1 DEF Bound
  <1>4. sockets' = {c \in Connections : told'[c] = "connected"}
    BY DEF ListInv
  <1> QED
    BY <1>2, <1>3, <1>4, ListInvIsNext

\* One client is deleted.
LEMMA ListDisconnect ==
    ASSUME TypeOK, ControlInv, ListInv, TypeOK', ControlInv',
           NEW c \in Connections, NEW reason \in Reasons, NEW next,
           Disconnect(c, reason, next),
           NEW p \in 1..Len(Reached), Reached[p] = c, Without(Reached, Reached', p)
    PROVE  ListInv'
  <1>1. /\ sockets' = sockets \ {c}
        /\ told' = [told EXCEPT ![c] = reason]
        /\ last_alive' = [last_alive EXCEPT ![c] = 0]
    BY DEF Disconnect, Forget
  <1>2. Reached \in Seq(Connections) /\ Reached' \in Seq(Connections)
    BY ReachedIs, ReachedIsNext DEF ReachedFacts
  <1>3. \A d \in sockets \ {c} : last_alive'[d] = last_alive[d]
    BY <1>1 DEF TypeOK
  <1>4. List(Reached', sockets', last_alive')
    <2>1. List(Reached, sockets, last_alive)
      BY ReachedList
    <2> QED
      BY <1>1, <1>2, <1>3, <2>1, ListWithout DEF Without
  <1>5. Len(Reached') <= Bound'
    <2>1. Len(Reached) <= MaxClients + 1 /\ Len(Reached) \in Nat
          /\ Len(Reached') = Len(Reached) - 1
      BY <1>2 DEF ListInv, Without
    <2> QED
      BY <2>1 DEF Bound
  <1>6. sockets' = {d \in Connections : told'[d] = "connected"}
    <2>1. reason # "connected"
      BY DEF Reasons
    <2>2. \A d \in Connections : told'[d] = IF d = c THEN reason ELSE told[d]
      BY <1>1 DEF TypeOK
    <2> QED
      BY <1>1, <2>1, <2>2 DEF ListInv
  <1> QED
    BY <1>4, <1>5, <1>6, ListInvIsNext

LEMMA ListDrop ==
    ASSUME TypeOK, ControlInv, ListInv, TypeOK', ControlInv', At \in Receiving,
           NEW reason \in Reasons, Drop(reason)
    PROVE  ListInv'
  <1>1. Disconnect(current, reason, "loop") /\ UNCHANGED <<pending, finished>>
    BY DEF Drop
  <1>2. At' = "loop"
    BY <1>1 DEF Disconnect, CallBack, At
  <1>3. finished \o pending \in Seq(Connections) /\ current \in Connections
    BY CurrentIs, ConcatProperties DEF TypeOK
  <1>4. Reached = <<current>> \o (finished \o pending) /\ Reached' = finished \o pending
    BY <1>1, <1>2, ReachedIs, ReachedIsNext DEF ReachedFacts
  <1>5. 1 \in 1..Len(Reached) /\ Reached[1] = current /\ Without(Reached, Reached', 1)
    <2> DEFINE rest == finished \o pending
    <2>1. rest \in Seq(Connections) /\ Reached = <<current>> \o rest /\ Reached' = rest
      BY <1>3, <1>4
    <2> HIDE DEF rest
    <2>2. /\ 1 \in 1..Len(<<current>> \o rest) /\ (<<current>> \o rest)[1] = current
          /\ Without(<<current>> \o rest, rest, 1)
      BY <1>3, <2>1, WithoutFirst
    <2> QED
      BY <2>1, <2>2
  <1> QED
    BY <1>1, <1>3, <1>5, ListDisconnect

LEMMA ListKeep ==
    ASSUME TypeOK, ControlInv, ListInv, TypeOK', ControlInv', At \in Receiving, Keep
    PROVE  ListInv'
  <1>1. finished' = <<current>> \o finished /\ pc' = "loop"
        /\ UNCHANGED <<pending, last_alive, sockets, told>>
    BY DEF Keep, aliveVars, userVars
  <1>2. At' = "loop" /\ At \notin Placing
    BY <1>1 DEF At, Receiving, Placing
  <1>3. current \in Connections /\ finished \in Seq(Connections) /\ pending \in Seq(Connections)
    BY CurrentIs DEF TypeOK
  <1>4. Reached = <<current>> \o (finished \o pending)
        /\ Reached' = (<<current>> \o finished) \o pending
    BY <1>1, <1>2, ReachedIs, ReachedIsNext DEF ReachedFacts
  <1>5. Reached' = Reached
    <2>1. <<current>> \in Seq(Connections)
      BY <1>3
    <2> QED
      BY <1>3, <1>4, <2>1, ConcatAssociative
  <1> QED
    BY <1>1, <1>2, <1>5, ListQuiet

LEMMA ListServe ==
    ASSUME TypeOK, ControlInv, ListInv, TypeOK', ControlInv', Serve
    PROVE  ListInv'
  <1>1. At = pc /\ At \in Receiving /\ At \notin Placing
    BY AtIs DEF Serve, RecvSome, HeaderGrows, PayloadGrows, RecvNothing, RecvFails, CheckHeader,
       HeaderIsBad, CallRequest, Refuse, PayloadIsBad, Responded, SendFails, Receiving, Placing
  <1>2. CASE Keep
    BY <1>1, <1>2, ListKeep
  <1>3. CASE \E reason \in Reasons : Drop(reason)
    BY <1>1, <1>3, ListDrop
  <1>4. CASE UNCHANGED <<listVars, last_alive, sockets, told>> /\ At' \in Receiving
    <2>1. Reached' = Reached
      BY <1>1, <1>4, ReachedIs, ReachedIsNext DEF ReachedFacts, listVars
    <2> QED
      BY <1>1, <1>4, <2>1, ListQuiet
  <1> QED
    <2>1. RecvSome => Keep \/ (/\ UNCHANGED <<listVars, last_alive, sockets, told>>
                               /\ pc' \in {"check_header", "execute"})
      BY DEF RecvSome, HeaderGrows, PayloadGrows, aliveVars, userVars
    <2>2. CheckHeader \/ Refuse => /\ UNCHANGED <<listVars, last_alive, sockets, told>>
                                   /\ pc' \in {"recv_payload", "execute", "respond"}
      BY DEF CheckHeader, Refuse, aliveVars, userVars
    <2>3. CallRequest => /\ UNCHANGED <<listVars, last_alive, sockets, told>>
                         /\ pc' = "user" /\ after' = "respond"
      BY DEF CallRequest, CallBack, aliveVars
    <2>4. RecvNothing \/ Responded => Keep
      BY DEF RecvNothing, Responded
    <2>5. RecvFails \/ HeaderIsBad \/ PayloadIsBad \/ SendFails =>
              \E reason \in Reasons : Drop(reason)
      BY NamedTypes DEF RecvFails, HeaderIsBad, PayloadIsBad, SendFails
    <2> QED
      BY <1>2, <1>3, <1>4, <2>1, <2>2, <2>3, <2>4, <2>5 DEF Serve, At, Receiving

\* The client read from moves to the head of the list.
LEMMA ListReadable ==
    ASSUME TypeOK, ControlInv, ListInv, TypeOK', ControlInv', LoopReadable
    PROVE  ListInv'
  <1> DEFINE h == Head(pending)
  <1>1. /\ pending # <<>> /\ pending' = Tail(pending) /\ current' = h
        /\ last_alive' = [last_alive EXCEPT ![h] = 0]
        /\ pc' \in {"recv_header", "check_header"}
        /\ UNCHANGED <<finished, sockets, told>>
    BY DEF LoopReadable, userVars
  <1>2. At = "loop" /\ At' \in Receiving /\ At \notin Placing /\ At' \notin Placing
    BY <1>1 DEF LoopReadable, At, Receiving, Placing
  <1>3. h \in sockets /\ h \in Connections /\ Tail(pending) \in Seq(Connections)
        /\ finished \in Seq(Connections) /\ pending \in Seq(Connections)
    BY <1>1, <1>2, PendingIs DEF TypeOK
  <1> DEFINE rest == finished \o Tail(pending)
  <1>4. Reached = finished \o pending /\ Reached' = <<h>> \o rest
    BY <1>1, <1>2, ReachedIs, ReachedIsNext DEF ReachedFacts
  <1>5. rest \in Seq(Connections) /\ Reached \in Seq(Connections) /\ Reached' \in Seq(Connections)
    BY <1>3, <1>4, ConcatProperties, ReachedIs, ReachedIsNext DEF ReachedFacts
  <1> HIDE DEF h
  <1>6. PICK p \in 1..Len(Reached) : Reached[p] = h /\ Without(Reached, rest, p)
    BY <1>1, <1>3, <1>4, WithoutHead DEF h
  <1>7. \A c \in Connections : last_alive'[c] = IF c = h THEN 0 ELSE last_alive[c]
    BY <1>1, <1>3 DEF TypeOK
  <1>8. last_alive' \in [Connections -> Nat] /\ sockets \in SUBSET Connections
    BY AgesAre, AgesAreNext DEF AgeTypes
  <1> HIDE DEF rest
  <1>9. List(rest, sockets \ {h}, last_alive')
    <2>1. List(Reached, sockets, last_alive)
      BY ReachedList
    <2>2. \A c \in sockets \ {h} : last_alive'[c] = last_alive[c]
      BY <1>7, <1>8
    <2> QED
      BY <1>5, <1>6, <2>1, <2>2, ListWithout DEF Without
  <1>10. /\ Len(<<h>> \o rest) = Len(rest) + 1
         /\ (<<h>> \o rest)[1] = h
         /\ \A i \in 1..Len(rest) : (<<h>> \o rest)[i + 1] = rest[i]
    BY <1>3, <1>5, WithoutFirst
  <1>11. List(Reached', (sockets \ {h}) \cup {h}, last_alive')
    <2>1. sockets \ {h} \in SUBSET Connections /\ h \in Connections \ (sockets \ {h})
          /\ last_alive'[h] = 0
      BY <1>3, <1>7, <1>8
    <2> QED
      BY <1>4, <1>5, <1>8, <1>9, <1>10, <2>1, ListWithFirst
  <1>12. Len(Reached') <= Bound'
    <2>1. Len(Reached') = Len(Reached) /\ Len(Reached) \in Nat
      BY <1>4, <1>5, <1>6, <1>10 DEF Without
    <2> QED
      BY <1>2, <2>1 DEF ListInv, Bound
  <1>13. (sockets \ {h}) \cup {h} = sockets'
    BY <1>1, <1>3
  <1>14. sockets' = {c \in Connections : told'[c] = "connected"}
    BY <1>1 DEF ListInv
  <1> QED
    BY <1>11, <1>12, <1>13, <1>14, ListInvIsNext

\* The connection that was accepted is put before the list.
LEMMA ListAccept ==
    ASSUME TypeOK, ControlInv, ListInv, BacklogInv, BlankInv, TypeOK', ControlInv', Accept
    PROVE  ListInv'
  <1>1. backlog # <<>> /\ backlog \in Seq(Connections)
    BY DEF Accept, ControlInv, TypeOK
  <1>2. PICK c \in Connections : c = Head(backlog) /\ c = backlog[1] /\ 1 \in 1..Len(backlog)
    BY <1>1, TailIs
  <1>3. told[c] = "unknown" /\ c \notin sockets /\ last_alive[c] = 0
    BY <1>2 DEF BacklogInv, ListInv, BlankInv
  <1>4. /\ current' = c /\ sockets' = sockets \cup {c}
        /\ told' = [told EXCEPT ![c] = "connected"]
        /\ UNCHANGED <<clients, last_alive>>
    BY <1>2 DEF Accept, aliveVars
  <1>5. At = "accept" /\ At' = "displace" /\ At' \in Placing /\ At \notin Placing
    BY DEF Accept, CallBack, At, Placing
  <1>6. Reached = clients /\ Reached' = <<c>> \o clients
        /\ Reached \in Seq(Connections) /\ Reached' \in Seq(Connections)
    BY <1>4, <1>5, ReachedIs, ReachedIsNext DEF ReachedFacts, Placing, Receiving
  <1>7. /\ Len(Reached') = Len(Reached) + 1 /\ Reached'[1] = c
        /\ \A i \in 1..Len(Reached) : Reached'[i + 1] = Reached[i]
    BY <1>6, WithoutFirst
  <1>8. last_alive \in [Connections -> Nat] /\ sockets \in SUBSET Connections
    BY AgesAre DEF AgeTypes
  <1>9. List(Reached', sockets', last_alive')
    <2>1. List(Reached, sockets, last_alive) /\ c \in Connections \ sockets
      BY <1>3, ReachedList
    <2> QED
      BY <1>3, <1>4, <1>6, <1>7, <1>8, <2>1, ListWithFirst
  <1>10. Len(Reached') <= Bound'
    <2>1. Len(Reached) \in Nat
      BY <1>6
    <2> QED
      BY <1>5, <1>7, <2>1 DEF ListInv, Bound
  <1>11. sockets' = {d \in Connections : told'[d] = "connected"}
    <2>1. \A d \in Connections : told'[d] = IF d = c THEN "connected" ELSE told[d]
      BY <1>4 DEF TypeOK
    <2> QED
      BY <1>4, <2>1 DEF ListInv
  <1> QED
    BY <1>9, <1>10, <1>11, ListInvIsNext

\* The last client of the list is displaced.
LEMMA ListDisplace ==
    ASSUME TypeOK, ControlInv, ListInv, TypeOK', ControlInv', Displace
    PROVE  ListInv'
  <1>1. /\ Disconnect(LeastAlive, "Displaced", "place") /\ clients' = Front(clients)
        /\ UNCHANGED current /\ pc = "displace" /\ Full
    BY DEF Displace
  <1>2. At \in Placing /\ At' \in Placing
    BY <1>1 DEF Disconnect, CallBack, At, Placing
  <1>3. current \in Connections /\ clients \in Seq(Connections)
    BY <1>2, CurrentIs DEF TypeOK
  <1>4. Reached = <<current>> \o clients /\ Reached' = <<current>> \o clients'
    BY <1>1, <1>2, ReachedIs, ReachedIsNext DEF ReachedFacts
  <1>5. clients # <<>> /\ clients' \in Seq(Connections) /\ Len(clients') = Len(clients) - 1
        /\ \A i \in 1..(Len(clients) - 1) : clients'[i] = clients[i]
    BY <1>1, LastIs
  <1>6. /\ Len(clients) + 1 \in 1..Len(Reached) /\ Reached[Len(clients) + 1] = LeastAlive
        /\ Without(Reached, Reached', Len(clients) + 1)
    BY <1>3, <1>4, <1>5, WithoutLast DEF LeastAlive
  <1>7. LeastAlive \in Connections
    BY <1>1, LastIs
  <1> HIDE DEF Displace
  <1> QED
    BY <1>1, <1>6, <1>7, ListDisconnect, NamedTypes

LEMMA ListStep ==
    ASSUME TypeOK, ControlInv, ListInv, BacklogInv, BlankInv, TypeOK', ControlInv', [Next]_vars
    PROVE  ListInv'
  <1>1. CASE Start \/ Connect \/ \E c \in Connections : Send(c) \/ Leave(c)
    <2>1. UNCHANGED <<listVars, last_alive, sockets, told, pc, after>>
      BY <1>1 DEF Start, Connect, Send, Leave, aliveVars, userVars
    <2>2. Reached' = Reached /\ At' = At
      BY <2>1 DEF Reached, InLoop, At, listVars
    <2> QED
      BY <2>1, <2>2, ListQuiet
  <1>2. CASE Stop
    <2>1. /\ pending' = clients /\ UNCHANGED <<last_alive, sockets, told>>
          /\ pc = "user" /\ ~non_reentrant /\ pc' = "stop"
      BY <1>2 DEF Stop, aliveVars, userVars
    <2>2. At = "main" /\ At' = "stop" /\ At \notin Placing
      BY <2>1 DEF ControlInv, At, Placing
    <2>3. Reached' = Reached
      BY <2>1, <2>2, ReachedIs, ReachedIsNext DEF ReachedFacts, Placing, Receiving
    <2> QED
      BY <2>1, <2>2, <2>3, ListQuiet
  <1>3. CASE Stopped
    <2>1. /\ pending = <<>> /\ UNCHANGED <<listVars, last_alive, sockets, told>>
          /\ pc = "stop" /\ pc' = "user" /\ after' = "main"
      BY <1>3 DEF Stopped, ControlInv, aliveVars, userVars
    <2>2. At = "stop" /\ At' = "main" /\ At \notin Placing /\ clients = <<>>
      BY <2>1 DEF ControlInv, At, Placing
    <2>3. Reached' = Reached
      BY <2>1, <2>2, ReachedIs, ReachedIsNext DEF ReachedFacts, Placing, Receiving, listVars
    <2> QED
      BY <2>1, <2>2, <2>3, ListQuiet
  <1>4. CASE CallbackReturns
    <2>1. UNCHANGED <<listVars, last_alive, sockets, told>> /\ At' = At
      BY <1>4 DEF CallbackReturns, aliveVars, userVars, TypeOK, Resumes, At
    <2>2. Reached' = Reached
      BY <2>1 DEF Reached, InLoop, listVars
    <2> QED
      BY <2>1, <2>2, ListQuiet
  <1>5. CASE Tick \/ AcceptFails
    <2>1. /\ UNCHANGED <<listVars, last_alive, sockets, told>>
          /\ At \in {"main", "accept"} /\ At' \in {"main", "accept", "idle_check"}
      BY <1>5 DEF Tick, AcceptFails, aliveVars, userVars, ControlInv, At
    <2>2. Reached' = Reached
      BY <2>1, ReachedIs, ReachedIsNext DEF ReachedFacts, Placing, Receiving, listVars
    <2> QED
      BY <2>1, <2>2, ListQuiet DEF Placing
  <1>6. CASE Accept
    BY <1>6, ListAccept
  <1>7. CASE Displace
    BY <1>7, ListDisplace
  <1>8. CASE DisplaceNone
    <2>1. /\ UNCHANGED <<listVars, last_alive, sockets, told>>
          /\ At \in Placing /\ At' \in Placing
      BY <1>8 DEF DisplaceNone, aliveVars, userVars, At, Placing
    <2>2. Reached' = Reached
      BY <2>1, ReachedIs, ReachedIsNext DEF ReachedFacts, listVars
    <2> QED
      BY <2>1, <2>2, ListQuiet
  <1>9. CASE TurnAway
    <2>1. Disconnect(current, "NoFreeClient", "idle_check") /\ UNCHANGED clients
      BY <1>9 DEF TurnAway
    <2>2. At \in Placing /\ At' = "idle_check"
      BY <1>9, <2>1 DEF TurnAway, Disconnect, CallBack, At, Placing
    <2>3. current \in Connections /\ clients \in Seq(Connections)
      BY <2>2, CurrentIs DEF TypeOK
    <2>4. Reached = <<current>> \o clients /\ Reached' = clients
      BY <2>1, <2>2, ReachedIs, ReachedIsNext DEF ReachedFacts, Placing, Receiving
    <2>5. 1 \in 1..Len(Reached) /\ Reached[1] = current /\ Without(Reached, Reached', 1)
      BY <2>3, <2>4, WithoutFirst
    <2> QED
      BY <2>1, <2>3, <2>5, ListDisconnect, NamedTypes
  <1>10. CASE Admit
    <2>1. /\ clients' = <<current>> \o clients /\ UNCHANGED <<sockets, told>>
          /\ last_alive' = [last_alive EXCEPT ![current] = 0] /\ ~Full
      BY <1>10 DEF Admit, userVars
    <2>2. At \in Placing /\ At' = "idle_check"
      BY <1>10 DEF Admit, At, Placing
    <2>3. current \in Connections /\ current \in sockets /\ clients \in Seq(Connections)
      BY <2>2, CurrentIs DEF TypeOK
    <2>4. Reached = <<current>> \o clients /\ Reached' = Reached
          /\ Reached \in Seq(Connections)
      BY <2>1, <2>2, ReachedIs, ReachedIsNext DEF ReachedFacts, Placing, Receiving
    <2>5. Len(Reached) = Len(clients) + 1 /\ Reached[1] = current
          /\ \A i \in 1..Len(clients) : Reached[i + 1] = clients[i]
      BY <2>3, <2>4, WithoutFirst
    <2>6. Len(clients) < MaxClients /\ Len(clients) \in Nat
      BY <2>1, <2>3 DEF Full
    <2>7. List(Reached', sockets', last_alive')
      <3>1. last_alive \in [Connections -> Nat] /\ sockets \in SUBSET Connections
            /\ last_alive' \in [Connections -> Nat]
        BY AgesAre, AgesAreNext DEF AgeTypes
      <3>2. List(Reached, sockets, last_alive)
        BY ReachedList
      <3>3. List(clients, sockets \ {current}, last_alive')
        <4>1. PICK p \in 1..Len(Reached) : Without(Reached, clients, p) /\ Reached[p] = current
          BY <2>3, <2>4, WithoutFirst
        <4>2. \A c \in sockets \ {current} : last_alive'[c] = last_alive[c]
          BY <2>1, <3>1
        <4>3. /\ Len(clients) = Len(Reached) - 1
              /\ \A i \in 1..Len(clients) :
                     clients[i] = IF i < p THEN Reached[i] ELSE Reached[i + 1]
          BY <4>1 DEF Without
        <4>4. \A c \in sockets \ {Reached[p]} : last_alive'[c] = last_alive[c]
          BY <4>1, <4>2
        <4>5. List(clients, sockets \ {Reached[p]}, last_alive')
          BY <2>3, <2>4, <3>2, <4>3, <4>4, ListWithout
        <4> QED
          BY <4>1, <4>5
      <3>4. sockets \ {current} \in SUBSET Connections
            /\ current \in Connections \ (sockets \ {current}) /\ last_alive'[current] = 0
        BY <2>1, <2>3, <3>1
      <3>5. List(Reached, (sockets \ {current}) \cup {current}, last_alive')
        BY <2>3, <2>4, <2>5, <3>1, <3>3, <3>4, ListWithFirst
      <3>6. (sockets \ {current}) \cup {current} = sockets'
        BY <2>1, <2>3
      <3> QED
        BY <2>4, <3>5, <3>6
    <2>8. Len(Reached') <= Bound'
      BY <2>2, <2>4, <2>5, <2>6 DEF Bound
    <2>9. sockets' = {c \in Connections : told'[c] = "connected"}
      BY <2>1 DEF ListInv
    <2> QED
      BY <2>7, <2>8, <2>9, ListInvIsNext
  <1>11. CASE StartLoop
    <2>1. /\ pending' = clients /\ finished' = <<>>
          /\ UNCHANGED <<last_alive, sockets, told>>
      BY <1>11 DEF StartLoop, userVars
    <2>2. At = "idle_check" /\ At' = "loop" /\ At \notin Placing
      BY <1>11 DEF StartLoop, At, Placing
    <2>3. Reached = clients /\ Reached' = <<>> \o clients /\ clients \in Seq(Connections)
      BY <2>1, <2>2, ReachedIs, ReachedIsNext DEF ReachedFacts, Placing, Receiving, TypeOK
    <2>4. Reached' = Reached
      BY <2>3, ConcatEmptySeq
    <2> QED
      BY <2>1, <2>2, <2>4, ListQuiet
  <1>12. CASE StopClient
    <2>1. Disconnect(Head(pending), "ServerStopped", "stop") /\ pending # <<>>
          /\ pending' = Tail(pending)
      BY <1>12 DEF StopClient
    <2>2. At = "stop" /\ At' = "stop"
      BY <1>12, <2>1 DEF StopClient, Disconnect, CallBack, At
    <2>3. Reached = pending /\ Reached' = Tail(pending) /\ pending \in Seq(Connections)
      BY <2>1, <2>2, ReachedIs, ReachedIsNext DEF ReachedFacts, TypeOK
    <2>4. 1 \in 1..Len(Reached) /\ Reached[1] = Head(pending) /\ Without(Reached, Reached', 1)
      BY <2>1, <2>3, TailIs DEF Without
    <2>5. Head(pending) \in Connections
      BY <2>1, <2>3, TailIs
    <2> QED
      BY <2>1, <2>4, <2>5, ListDisconnect, NamedTypes
  <1>13. CASE LoopIdle
    <2>1. Disconnect(Head(pending), "Idle", "loop") /\ pending # <<>>
          /\ pending' = Tail(pending) /\ UNCHANGED finished
      BY <1>13 DEF LoopIdle
    <2>2. At = "loop" /\ At' = "loop"
      BY <1>13, <2>1 DEF LoopIdle, Disconnect, CallBack, At
    <2>3. Reached = finished \o pending /\ Reached' = finished \o Tail(pending)
          /\ pending \in Seq(Connections) /\ finished \in Seq(Connections)
      BY <2>1, <2>2, ReachedIs, ReachedIsNext DEF ReachedFacts, TypeOK
    <2>4. PICK p \in 1..Len(Reached) : Reached[p] = Head(pending) /\ Without(Reached, Reached', p)
      BY <2>1, <2>3, WithoutHead
    <2>5. Head(pending) \in Connections
      BY <2>1, <2>3, TailIs
    <2> QED
      BY <2>1, <2>4, <2>5, ListDisconnect, NamedTypes
  <1>14. CASE LoopUnreadable
    <2>1. /\ pending # <<>> /\ pending' = Tail(pending)
          /\ finished' = Append(finished, Head(pending))
          /\ UNCHANGED <<last_alive, sockets, told, pc, after>>
      BY <1>14 DEF LoopUnreadable, KeptUnread, aliveVars, userVars
    <2>2. At = "loop" /\ At' = "loop" /\ At \notin Placing
      BY <1>14, <2>1 DEF LoopUnreadable, At, Placing
    <2>3. /\ Reached = finished \o pending
          /\ Reached' = Append(finished, Head(pending)) \o Tail(pending)
          /\ pending \in Seq(Connections) /\ finished \in Seq(Connections)
      BY <2>1, <2>2, ReachedIs, ReachedIsNext DEF ReachedFacts, TypeOK
    <2>4. Reached' = Reached
      BY <2>1, <2>3, MoveHead
    <2> QED
      BY <2>1, <2>2, <2>4, ListQuiet
  <1>15. CASE LoopReadable
    BY <1>15, ListReadable
  <1>16. CASE LoopEnds
    <2>1. /\ pending = <<>> /\ clients' = finished
          /\ UNCHANGED <<last_alive, sockets, told>>
      BY <1>16 DEF LoopEnds, aliveVars, userVars
    <2>2. At = "loop" /\ At' = "main" /\ At \notin Placing
      BY <1>16 DEF LoopEnds, At, Placing, ControlInv
    <2>3. Reached = finished \o <<>> /\ Reached' = finished /\ finished \in Seq(Connections)
      BY <2>1, <2>2, ReachedIs, ReachedIsNext DEF ReachedFacts, Placing, Receiving, TypeOK
    <2>4. Reached' = Reached
      BY <2>3, ConcatEmptySeq
    <2> QED
      BY <2>1, <2>2, <2>4, ListQuiet
  <1>17. CASE Serve
    BY <1>17, ListServe
  <1>18. CASE Elapse
    <2>1. UNCHANGED <<listVars, sockets, told, pc, after>>
      BY <1>18 DEF Elapse, userVars
    <2>2. Reached' = Reached /\ At' = At
      BY <2>1 DEF Reached, InLoop, At, listVars
    <2>3. \A c \in sockets : c \in Connections /\ last_alive[c] \in Nat
              /\ last_alive'[c] = Older(last_alive[c], MaxAge)
      BY <1>18, AgesAre DEF AgeTypes, Elapse
    <2>4. \A c, d \in sockets : last_alive[c] <= last_alive[d] => last_alive'[c] <= last_alive'[d]
      <3>1. \A c \in sockets : last_alive[c] <= MaxAge
        BY <2>3, MaxAgeIs DEF TypeOK
      <3> QED
        BY <2>3, <3>1, MaxAgeIs DEF Older
    <2>5. List(Reached, sockets, last_alive')
      <3>1. List(Reached, sockets, last_alive) /\ Reached \in Seq(Connections)
        BY ReachedList, ReachedIs DEF ReachedFacts
      <3> QED
        BY <2>4, <3>1, ListLater
    <2>6. Len(Reached') <= Bound' /\ sockets' = {c \in Connections : told'[c] = "connected"}
      BY <2>1, <2>2 DEF ListInv, Bound
    <2> QED
      BY <2>1, <2>2, <2>5, <2>6, ListInvIsNext
  <1>19. CASE UNCHANGED vars
    <2>1. UNCHANGED <<listVars, last_alive, sockets, told, pc, after>>
      BY <1>19 DEF vars, aliveVars, userVars
    <2>2. Reached' = Reached /\ At' = At
      BY <2>1 DEF Reached, InLoop, At, listVars
    <2> QED
      BY <2>1, <2>2, ListQuiet
  <1> QED
    BY <1>1, <1>2, <1>3, <1>4, <1>5, <1>6, <1>7, <1>8, <1>9, <1>10, <1>11, <1>12, <1>13,
       <1>14, <1>15, <1>16, <1>17, <1>18, <1>19 DEF Next, LibraryStep

-----------------------------------------------------------------------------
(* What a step may do to the user and to the connections that wait.        *)

\* A connection is taken back.
TakesBack(c, reason, next) ==
    /\ Disconnect(c, reason, next)
    /\ reason = "ServerStopped" <=> ~running

\* What is stored of the requests of a client.
Stored(c) == <<last_alive[c], header_used[c], header_checked[c], payload_used[c], read[c]>>

Kinds ==
    \/ Start \/ Stop \/ Connect \/ Accept \/ CallRequest
    \/ \E c \in sockets, reason \in Reasons, next \in Resumes \ {"main"} :
           TakesBack(c, reason, next)
    \/ /\ UNCHANGED <<running, told, handled, sockets, backlog, arrived>>
       /\ \A c \in Connections \ sockets : Stored(c)' = Stored(c)

LEMMA DisconnectIs ==
    ASSUME TypeOK, NEW c \in Connections, NEW reason, NEW next, Disconnect(c, reason, next)
    PROVE  /\ sockets' = sockets \ {c}
           /\ \A d \in Connections : told'[d] = IF d = c THEN reason ELSE told[d]
           /\ \A d \in Connections \ {c} :
                  /\ last_alive'[d] = last_alive[d] /\ header_used'[d] = header_used[d]
                  /\ header_checked'[d] = header_checked[d] /\ payload_used'[d] = payload_used[d]
                  /\ read'[d] = read[d] /\ sent'[d] = sent[d]
           /\ last_alive'[c] = 0 /\ header_used'[c] = 0 /\ ~header_checked'[c]
           /\ payload_used'[c] = 0 /\ read'[c] = 0
           /\ UNCHANGED <<running, backlog, arrived, handled>>
           /\ pc' = "user" /\ after' = next /\ At' = next
  <1>1. told' = [told EXCEPT ![c] = reason] /\ told \in [Connections -> Reasons \cup {"unknown", "connected"}]
    BY DEF Disconnect, TypeOK
  <1>2. pc' = "user" /\ after' = next /\ At' = next
    BY DEF Disconnect, CallBack, At
  <1>3. /\ sockets' = sockets \ {c} /\ UNCHANGED <<running, backlog, arrived, handled>>
        /\ Forget(c)
    BY DEF Disconnect
  <1>4. /\ last_alive'[c] = 0 /\ header_used'[c] = 0 /\ ~header_checked'[c]
        /\ payload_used'[c] = 0 /\ read'[c] = 0
    BY <1>3 DEF Forget, TypeOK
  <1>5. \A d \in Connections \ {c} :
            /\ last_alive'[d] = last_alive[d] /\ header_used'[d] = header_used[d]
            /\ header_checked'[d] = header_checked[d] /\ payload_used'[d] = payload_used[d]
            /\ read'[d] = read[d] /\ sent'[d] = sent[d]
    BY <1>3 DEF Forget, TypeOK
  <1> QED
    BY <1>1, <1>2, <1>3, <1>4, <1>5

\* Whoever is taken back was announced, and is told that the server was stopped just
\* when it is.
LEMMA TakenBack ==
    ASSUME TypeOK, ControlInv, ListInv,
           StopClient \/ Displace \/ TurnAway \/ LoopIdle
               \/ RecvFails \/ HeaderIsBad \/ PayloadIsBad \/ SendFails
    PROVE  \E c \in sockets, reason \in Reasons, next \in Resumes \ {"main"} :
               TakesBack(c, reason, next)
  <1>1. CASE StopClient
    <2>1. At = "stop" /\ ~running /\ pending # <<>>
      BY <1>1 DEF StopClient, At, ControlInv
    <2>2. Head(pending) \in sockets /\ Disconnect(Head(pending), "ServerStopped", "stop")
      BY <1>1, <2>1, PendingIs DEF StopClient
    <2> QED
      BY <2>1, <2>2, NamedTypes DEF TakesBack
  <1>2. CASE Displace
    <2>1. At = "displace" /\ running
      BY <1>2 DEF Displace, At, ControlInv
    <2>2. LeastAlive \in sockets /\ Disconnect(LeastAlive, "Displaced", "place")
      BY <1>2, LastIs DEF Displace
    <2> QED
      BY <2>1, <2>2, NamedTypes DEF TakesBack
  <1>3. CASE TurnAway
    <2>1. At = "place" /\ running /\ At \in Placing
      BY <1>3 DEF TurnAway, At, ControlInv, Placing
    <2>2. current \in sockets /\ Disconnect(current, "NoFreeClient", "idle_check")
      BY <1>3, <2>1, CurrentIs DEF TurnAway
    <2> QED
      BY <2>1, <2>2, NamedTypes DEF TakesBack
  <1>4. CASE LoopIdle
    <2>1. At = "loop" /\ running /\ pending # <<>>
      BY <1>4 DEF LoopIdle, At, ControlInv
    <2>2. Head(pending) \in sockets /\ Disconnect(Head(pending), "Idle", "loop")
      BY <1>4, <2>1, PendingIs DEF LoopIdle
    <2> QED
      BY <2>1, <2>2, NamedTypes DEF TakesBack
  <1>5. CASE RecvFails \/ HeaderIsBad \/ PayloadIsBad \/ SendFails
    <2>1. At \in Receiving /\ running
      BY <1>5 DEF RecvFails, HeaderIsBad, PayloadIsBad, SendFails, At, ControlInv, Receiving
    <2>2. PICK reason \in Reasons : Drop(reason) /\ reason # "ServerStopped"
      BY <1>5, NamedTypes DEF RecvFails, HeaderIsBad, PayloadIsBad, SendFails
    <2>3. current \in sockets /\ Disconnect(current, reason, "loop")
      BY <2>1, <2>2, CurrentIs DEF Drop
    <2> QED
      BY <2>1, <2>2, <2>3, NamedTypes DEF TakesBack
  <1> QED
    BY <1>1, <1>2, <1>3, <1>4, <1>5

LEMMA KindsAre ==
    ASSUME TypeOK, ControlInv, ListInv, [Next]_vars
    PROVE  Kinds
  <1> USE DEF lifeVars, userVars, peerVars, requestVars, aliveVars
  <1>1. CASE Start \/ Stop \/ Connect \/ Accept \/ CallRequest
    BY <1>1 DEF Kinds
  <1>2. CASE StopClient \/ Displace \/ TurnAway \/ LoopIdle
               \/ RecvFails \/ HeaderIsBad \/ PayloadIsBad \/ SendFails
    BY <1>2, TakenBack DEF Kinds
  <1>3. CASE \/ Tick \/ CallbackReturns \/ Stopped \/ AcceptFails \/ DisplaceNone \/ StartLoop
             \/ LoopUnreadable \/ LoopEnds \/ \E c \in Connections : Send(c) \/ Leave(c)
    <2>1. UNCHANGED <<running, told, handled, sockets, arrived, last_alive, header_used,
                      header_checked, payload_used, read, backlog>>
      BY <1>3 DEF Tick, CallbackReturns, Stopped, AcceptFails, DisplaceNone, StartLoop,
         LoopUnreadable, LoopEnds, Send, Leave
    <2> QED
      BY <2>1 DEF Kinds, Stored
  <1>4. CASE LoopReadable
    <2>1. At = "loop" /\ pending # <<>>
      BY <1>4 DEF LoopReadable, At
    <2>2. PICK h \in sockets : h = Head(pending)
      BY <2>1, PendingIs
    <2>3. /\ UNCHANGED <<running, told, handled, sockets, arrived, header_used,
                         header_checked, payload_used, read, backlog>>
          /\ last_alive' = [last_alive EXCEPT ![h] = 0]
      BY <1>4, <2>2 DEF LoopReadable
    <2>4. \A c \in Connections \ sockets : Stored(c)' = Stored(c)
      BY <2>3 DEF Stored, TypeOK
    <2> QED
      BY <2>3, <2>4 DEF Kinds
  <1>5. CASE Admit
    <2>1. current \in sockets
      BY <1>5, CurrentIs DEF Admit, At, Placing
    <2>2. /\ UNCHANGED <<running, told, handled, sockets, arrived, read, backlog>>
          /\ last_alive' = [last_alive EXCEPT ![current] = 0]
          /\ header_used' = [header_used EXCEPT ![current] = 0]
          /\ header_checked' = [header_checked EXCEPT ![current] = FALSE]
          /\ payload_used' = [payload_used EXCEPT ![current] = 0]
      BY <1>5 DEF Admit
    <2>3. \A c \in Connections \ sockets : Stored(c)' = Stored(c)
      BY <2>1, <2>2 DEF Stored, TypeOK
    <2> QED
      BY <2>2, <2>3 DEF Kinds
  <1>6. CASE RecvSome \/ RecvNothing \/ CheckHeader \/ Refuse \/ Responded
    <2>1. current \in sockets
      BY <1>6, CurrentIs DEF RecvSome, RecvNothing, CheckHeader, Refuse, Responded, At, Receiving
    <2>2. UNCHANGED <<running, told, handled, sockets, arrived, backlog, last_alive>>
      BY <1>6 DEF RecvSome, HeaderGrows, PayloadGrows, RecvNothing, CheckHeader, Refuse,
         Responded, Keep
    <2>3. \A c \in Connections \ sockets : Stored(c)' = Stored(c)
      <3>1. CASE RecvSome
        BY <2>1, <2>2, <3>1 DEF RecvSome, HeaderGrows, PayloadGrows, Stored, TypeOK
      <3>2. CASE RecvNothing \/ Refuse
        BY <2>2, <3>2 DEF RecvNothing, Refuse, Stored
      <3>3. CASE CheckHeader
        BY <2>1, <2>2, <3>3 DEF CheckHeader, Stored, TypeOK
      <3>4. CASE Responded
        BY <2>1, <2>2, <3>4 DEF Responded, ResetRequest, Stored, TypeOK
      <3> QED
        BY <1>6, <3>1, <3>2, <3>3, <3>4
    <2> QED
      BY <2>2, <2>3 DEF Kinds
  <1>7. CASE Elapse
    <2>1. UNCHANGED <<running, told, handled, sockets, arrived, header_used,
                      header_checked, payload_used, read, backlog>>
      BY <1>7 DEF Elapse
    <2>2. \A c \in Connections \ sockets : last_alive'[c] = last_alive[c]
      BY <1>7 DEF Elapse
    <2> QED
      BY <2>1, <2>2 DEF Kinds, Stored
  <1>8. CASE UNCHANGED vars
    BY <1>8 DEF vars, Kinds, Stored
  <1> QED
    BY <1>1, <1>2, <1>3, <1>4, <1>5, <1>6, <1>7, <1>8 DEF Next, LibraryStep, Serve

-----------------------------------------------------------------------------
(* The connections that wait, and those that are gone.                     *)

LEMMA InitBacklog == Init => BacklogInv /\ BlankInv /\ PlaceInv
  <1> SUFFICES ASSUME Init PROVE BacklogInv /\ BlankInv /\ PlaceInv
    OBVIOUS
  <1>1. BacklogInv
    BY DEF Init, BacklogInv, IsInjective
  <1>2. BlankInv
    BY DEF Init, BlankInv
  <1>3. PlaceInv
    BY DEF Init, PlaceInv, At
  <1> QED
    BY <1>1, <1>2, <1>3

LEMMA BacklogStep ==
    ASSUME TypeOK, ControlInv, ListInv, BacklogInv, [Next]_vars
    PROVE  BacklogInv'
  <1> USE DEF lifeVars, userVars, peerVars
  <1>1. CASE Stop
    <2>1. backlog' = <<>> /\ UNCHANGED <<arrived, told>>
      BY <1>1 DEF Stop
    <2> QED
      BY <2>1 DEF BacklogInv, IsInjective
  <1>2. CASE Connect
    <2> PICK n \in Nat : n = Len(backlog)
      BY DEF TypeOK
    <2>1. /\ arrived' = arrived + 1 /\ backlog' = Append(backlog, arrived + 1)
          /\ UNCHANGED told /\ arrived + 1 \in Connections /\ arrived \in Nat
      BY <1>2 DEF Connect, TypeOK, Connections
    <2>2. /\ backlog' \in Seq(Connections) /\ Len(backlog') = n + 1
          /\ backlog'[n + 1] = arrived + 1
          /\ \A i \in 1..n : backlog'[i] = backlog[i] /\ backlog[i] \in Connections
      <3>1. backlog \in Seq(Connections)
        BY DEF TypeOK
      <3> QED
        BY <2>1, <3>1, AppendProperties
    <2>3. \A i, j \in 1..n : backlog[i] = backlog[j] => i = j
      <3>1. DOMAIN backlog = 1..n
        BY DEF TypeOK
      <3> QED
        BY <3>1 DEF BacklogInv, IsInjective
    <2>4. \A i \in 1..n : backlog[i] <= arrived /\ told[backlog[i]] = "unknown"
      BY DEF BacklogInv
    <2>5. told[arrived + 1] = "unknown"
      BY <2>1 DEF BacklogInv
    <2>6. \A i, j \in 1..(n + 1) : backlog'[i] = backlog'[j] => i = j
      <3>1. \A i \in 1..(n + 1) : i \in 1..n \/ i = n + 1
        OBVIOUS
      <3>2. \A i \in 1..n : backlog'[i] # arrived + 1
        BY <2>1, <2>2, <2>4 DEF Connections
      <3> QED
        BY <2>2, <2>3, <3>1, <3>2
    <2>7. \A i \in 1..(n + 1) : backlog'[i] <= arrived' /\ told'[backlog'[i]] = "unknown"
      <3>1. \A i \in 1..(n + 1) : i \in 1..n \/ i = n + 1
        OBVIOUS
      <3>2. \A i \in 1..n : backlog'[i] <= arrived' /\ told'[backlog'[i]] = "unknown"
        BY <2>1, <2>2, <2>4 DEF Connections
      <3> QED
        BY <2>1, <2>2, <2>5, <3>1, <3>2
    <2>8. \A c \in Connections : c > arrived' => told'[c] = "unknown"
      BY <2>1 DEF BacklogInv, Connections
    <2>9. DOMAIN backlog' = 1..(n + 1)
      BY <2>1, <2>2 DEF TypeOK
    <2> QED
      BY <2>2, <2>6, <2>7, <2>8, <2>9 DEF BacklogInv, IsInjective
  <1>3. CASE Accept
    <2>1. backlog # <<>> /\ backlog \in Seq(Connections)
      BY <1>3 DEF Accept, ControlInv, TypeOK
    <2> PICK n \in Nat \ {0} : n = Len(backlog)
      BY <2>1, TailIs
    <2>2. /\ Head(backlog) = backlog[1] /\ Head(backlog) \in Connections
          /\ Tail(backlog) \in Seq(Connections) /\ Len(Tail(backlog)) = n - 1
          /\ \A i \in 1..(n - 1) : Tail(backlog)[i] = backlog[i + 1]
      BY <2>1, TailIs
    <2>3. backlog' = Tail(backlog) /\ UNCHANGED arrived
          /\ told' = [told EXCEPT ![Head(backlog)] = "connected"]
      BY <1>3 DEF Accept
    <2>4. \A c \in Connections : told'[c] = IF c = Head(backlog) THEN "connected" ELSE told[c]
      BY <2>2, <2>3 DEF TypeOK
    <2>5. /\ \A i, j \in 1..n : backlog[i] = backlog[j] => i = j
          /\ \A i \in 1..n : backlog[i] \in Connections /\ backlog[i] <= arrived
                             /\ told[backlog[i]] = "unknown"
      BY <2>1 DEF BacklogInv, IsInjective
    <2>6. \A i \in 1..(n - 1) : i + 1 \in 1..n /\ backlog'[i] = backlog[i + 1]
                                /\ backlog'[i] # Head(backlog)
      BY <2>2, <2>3, <2>5
    <2>7. \A i, j \in 1..(n - 1) : backlog'[i] = backlog'[j] => i = j
      BY <2>5, <2>6
    <2>8. \A i \in 1..(n - 1) : backlog'[i] <= arrived' /\ told'[backlog'[i]] = "unknown"
      BY <2>3, <2>4, <2>5, <2>6
    <2>9. \A c \in Connections : c > arrived' => told'[c] = "unknown"
      <3>1. Head(backlog) <= arrived /\ 1 \in 1..n
        BY <2>2, <2>5
      <3>2. \A c \in Connections : c > arrived => c # Head(backlog)
        BY <2>2, <3>1 DEF TypeOK, Connections
      <3> QED
        BY <2>3, <2>4, <3>2 DEF BacklogInv
    <2>10. Len(backlog') = n - 1 /\ DOMAIN backlog' = 1..(n - 1)
      BY <2>2, <2>3
    <2> QED
      BY <2>7, <2>8, <2>9, <2>10 DEF BacklogInv, IsInjective
  <1>4. ASSUME NEW c \in sockets, NEW reason \in Reasons, NEW next, TakesBack(c, reason, next)
        PROVE  BacklogInv'
    <2>1. c \in Connections /\ told[c] # "unknown"
      BY DEF ListInv
    <2>2. /\ \A d \in Connections : told'[d] = IF d = c THEN reason ELSE told[d]
          /\ UNCHANGED <<backlog, arrived>>
      BY <1>4, <2>1, DisconnectIs DEF TakesBack
    <2>3. \A i \in 1..Len(backlog) : backlog[i] \in Connections /\ backlog[i] # c
      <3>1. backlog \in Seq(Connections)
        BY DEF TypeOK
      <3> QED
        BY <2>1, <3>1 DEF BacklogInv
    <2>4. \A d \in Connections : d > arrived => d # c
      BY <2>1 DEF BacklogInv
    <2> QED
      BY <2>2, <2>3, <2>4 DEF BacklogInv
  <1>5. CASE UNCHANGED <<told, backlog, arrived>>
    BY <1>5 DEF BacklogInv
  <1>6. Start \/ CallRequest => UNCHANGED <<told, backlog, arrived>>
    BY DEF Start, CallRequest
  <1> QED
    BY <1>1, <1>2, <1>3, <1>4, <1>5, <1>6, KindsAre DEF Kinds

LEMMA BlankStep ==
    ASSUME TypeOK, ControlInv, ListInv, BlankInv, [Next]_vars
    PROVE  BlankInv'
  <1> USE DEF lifeVars, userVars, peerVars, requestVars, aliveVars
  <1>1. CASE Start \/ Stop \/ Connect
    BY <1>1 DEF Start, Stop, Connect, BlankInv
  <1>2. CASE Accept
    <2>1. PICK c \in Connections : c = Head(backlog)
      BY <1>2, TailIs DEF Accept, ControlInv, TypeOK
    <2>2. sockets' = sockets \cup {c} /\ told' = [told EXCEPT ![c] = "connected"]
          /\ UNCHANGED <<last_alive, header_used, header_checked, payload_used, read, handled>>
      BY <1>2, <2>1 DEF Accept
    <2>3. \A d \in Connections \ sockets' : d \in Connections \ sockets /\ told'[d] = told[d]
      BY <2>2 DEF TypeOK
    <2> QED
      BY <2>2, <2>3 DEF BlankInv
  <1>3. CASE CallRequest
    <2>1. current \in sockets
      BY <1>3, CurrentIs DEF CallRequest, At, Receiving
    <2>2. /\ UNCHANGED <<last_alive, header_used, header_checked, payload_used, read, told,
                         sockets>>
          /\ handled' = [handled EXCEPT ![current] = @ + 1]
      BY <1>3 DEF CallRequest
    <2>3. \A d \in Connections \ sockets : handled'[d] = handled[d]
      BY <2>1, <2>2 DEF TypeOK
    <2> QED
      BY <2>2, <2>3 DEF BlankInv
  <1>4. ASSUME NEW c \in sockets, NEW reason \in Reasons, NEW next, TakesBack(c, reason, next)
        PROVE  BlankInv'
    <2>1. c \in Connections /\ reason # "unknown"
      BY DEF ListInv, Reasons
    <2>2. Disconnect(c, reason, next)
      BY <1>4 DEF TakesBack
    <2>3. ASSUME NEW d \in Connections \ sockets'
          PROVE  /\ read'[d] = 0 /\ header_used'[d] = 0 /\ payload_used'[d] = 0
                 /\ ~header_checked'[d] /\ last_alive'[d] = 0
                 /\ told'[d] = "unknown" => handled'[d] = 0
      <3>1. CASE d = c
        BY <2>1, <2>2, <3>1, DisconnectIs
      <3>2. CASE d # c
        <4>1. d \in Connections \ sockets /\ d \in Connections \ {c}
          BY <2>1, <2>2, <3>2, DisconnectIs
        <4>2. /\ last_alive'[d] = last_alive[d] /\ header_used'[d] = header_used[d]
              /\ header_checked'[d] = header_checked[d] /\ payload_used'[d] = payload_used[d]
              /\ read'[d] = read[d] /\ handled' = handled /\ told'[d] = told[d]
          BY <2>1, <2>2, <4>1, DisconnectIs
        <4> QED
          BY <4>1, <4>2 DEF BlankInv
      <3> QED
        BY <3>1, <3>2
    <2> QED
      BY <2>3 DEF BlankInv
  <1>5. CASE /\ UNCHANGED <<told, handled, sockets>>
             /\ \A c \in Connections \ sockets : Stored(c)' = Stored(c)
    BY <1>5 DEF BlankInv, Stored
  <1> QED
    BY <1>1, <1>2, <1>3, <1>4, <1>5, KindsAre DEF Kinds

-----------------------------------------------------------------------------
(* A place is free when a client was displaced.                            *)

LEMMA PlaceStep ==
    ASSUME TypeOK, ControlInv, ListInv, PlaceInv, [Next]_vars
    PROVE  PlaceInv'
  <1> USE DEF lifeVars, userVars, peerVars, requestVars, aliveVars, listVars
  <1>1. CASE Displace
    <2>1. /\ Len(clients) \in Nat \ {0} /\ Len(Front(clients)) = Len(clients) - 1
      BY <1>1, LastIs DEF Displace
    <2>2. At \in Placing /\ clients' = Front(clients)
      BY <1>1 DEF Displace, At, Placing
    <2>3. Len(Reached) = Len(clients) + 1
      <3>1. current \in Connections /\ clients \in Seq(Connections)
            /\ Reached = <<current>> \o clients
        BY <2>2, CurrentIs, ReachedIs DEF ReachedFacts, TypeOK
      <3> QED
        BY <3>1, WithoutFirst
    <2>4. Len(clients) <= MaxClients
      BY <2>1, <2>2, <2>3 DEF ListInv
    <2>5. ~Full'
      BY <2>1, <2>2, <2>4 DEF Full
    <2> QED
      BY <2>5 DEF PlaceInv
  <1>2. CASE DisplaceNone
    <2>1. pc' = "place" /\ UNCHANGED <<clients, last_alive>>
          /\ ~(Full /\ Displaceable(LeastAlive))
      BY <1>2 DEF DisplaceNone
    <2> QED
      BY <2>1 DEF PlaceInv, Full, Displaceable, LeastAlive
  <1>3. CASE CallbackReturns
    <2>1. At' = At /\ pc = "user" /\ UNCHANGED clients
      BY <1>3 DEF CallbackReturns, TypeOK, Resumes, At
    <2> QED
      BY <2>1 DEF PlaceInv, Full
  <1>4. CASE \/ Start \/ Connect \/ Elapse \/ \E c \in Connections : Send(c) \/ Leave(c)
    <2>1. pc = "user" /\ UNCHANGED <<pc, after, clients>>
      BY <1>4 DEF Start, Connect, Elapse, Send, Leave
    <2> QED
      BY <2>1 DEF PlaceInv, Full, At
  <1>5. CASE UNCHANGED vars
    BY <1>5 DEF PlaceInv, Full, At, Displaceable, LeastAlive, vars
  <1>6. CASE At' # "place"
    BY <1>6 DEF PlaceInv
  <1>7. \/ Stop \/ Tick \/ StopClient \/ Stopped \/ AcceptFails \/ Accept \/ TurnAway \/ Admit
        \/ StartLoop \/ LoopIdle \/ LoopUnreadable \/ LoopReadable \/ LoopEnds \/ Serve
        => At' # "place"
    <2>1. Stop \/ Tick \/ StopClient \/ AcceptFails \/ Stopped => At' # "place"
      BY DEF Stop, Tick, StopClient, AcceptFails, Stopped, Disconnect, CallBack, At, ControlInv
    <2>2. Accept \/ TurnAway \/ Admit => At' # "place"
      BY DEF Accept, TurnAway, Admit, Disconnect, CallBack, At
    <2>3. StartLoop \/ LoopIdle \/ LoopUnreadable \/ LoopReadable \/ LoopEnds => At' # "place"
      BY DEF StartLoop, LoopIdle, LoopUnreadable, LoopReadable, LoopEnds, Disconnect, CallBack, At,
         ControlInv
    <2>4. Serve => At' # "place"
      BY DEF Serve, RecvSome, HeaderGrows, PayloadGrows, RecvNothing, RecvFails, CheckHeader,
         HeaderIsBad, CallRequest, Refuse, PayloadIsBad, Responded, SendFails, Keep, Drop,
         Disconnect, CallBack, At
    <2> QED
      BY <2>1, <2>2, <2>3, <2>4
  <1> QED
    BY <1>1, <1>2, <1>3, <1>4, <1>5, <1>6, <1>7 DEF Next, LibraryStep

-----------------------------------------------------------------------------
(* The requests of each client.                                            *)

Busy(c) == c = current /\ At \in {"execute", "respond"}
Answers(c) == c = current /\ At = "respond"

\* A client that tick() is not busy with, or is not done with.
LEMMA StreamOther ==
    ASSUME TypeOK, StreamInv, NEW c \in sockets, NEW k \in 0..MaxRequests, AfterRequests(c, k),
           header_used'[c] = header_used[c], header_checked'[c] = header_checked[c],
           payload_used'[c] = payload_used[c], read'[c] = read[c], handled'[c] = handled[c],
           sent'[c] >= sent[c], sent'[c] \in 0..MaxRequests,
           Busy(c)' <=> Busy(c), Answers(c)' <=> Answers(c)
    PROVE  AfterRequests(c, k)'
  <1>1. /\ sent[c] \in 0..MaxRequests /\ header_used[c] \in 0..HeaderLength
        /\ payload_used[c] \in Nat
    BY MaxPayloadLengthIs DEF TypeOK
  <1>2. header_used[c] + payload_used[c] > 0 => k < sent'[c] /\ k < sent[c]
    BY <1>1 DEF AfterRequests
  <1>3. handled'[c] <= k + (IF c = current' /\ At' = "respond" THEN 1 ELSE 0)
    BY DEF AfterRequests, Answers
  <1>4. k < sent'[c] =>
            IF c = current' /\ At' \in {"execute", "respond"}
            THEN header_checked'[c] /\ payload_used'[c] = PayloadLength[k + 1]
            ELSE payload_used'[c] < PayloadLength[k + 1]
    <2>1. CASE k < sent[c]
      BY <2>1 DEF AfterRequests, Busy
    <2>2. CASE ~(k < sent[c]) /\ k < sent'[c]
      <3>1. header_used[c] = 0 /\ payload_used[c] = 0
        BY <1>1, <1>2, <2>2
      <3>2. ~Busy(c)
        BY <3>1 DEF Busy, StreamInv, Receiving
      <3>3. k + 1 \in Requests
        BY <2>2 DEF Requests
      <3> QED
        BY <3>1, <3>2, <3>3 DEF Busy
    <2> QED
      BY <2>1, <2>2
  <1> QED
    BY <1>2, <1>3, <1>4 DEF AfterRequests

\* No client has more of its request than before.
LEMMA StreamQuiet ==
    ASSUME TypeOK, StreamInv, TypeOK', sockets' \subseteq sockets,
           \A c \in sockets' :
               /\ header_used'[c] = header_used[c] /\ header_checked'[c] = header_checked[c]
               /\ payload_used'[c] = payload_used[c] /\ read'[c] = read[c]
               /\ handled'[c] = handled[c] /\ sent'[c] >= sent[c]
               /\ Busy(c)' <=> Busy(c)
               /\ Answers(c)' <=> Answers(c)
    PROVE  \A c \in sockets' : \E k \in 0..sent'[c] : AfterRequests(c, k)'
  <1> SUFFICES ASSUME NEW c \in sockets' PROVE \E k \in 0..sent'[c] : AfterRequests(c, k)'
    OBVIOUS
  <1>1. c \in sockets /\ c \in Connections
    BY DEF TypeOK
  <1>2. sent[c] \in 0..MaxRequests /\ sent'[c] \in 0..MaxRequests
    BY <1>1 DEF TypeOK
  <1>3. /\ header_used'[c] = header_used[c] /\ header_checked'[c] = header_checked[c]
        /\ payload_used'[c] = payload_used[c] /\ read'[c] = read[c]
        /\ handled'[c] = handled[c] /\ sent'[c] >= sent[c]
        /\ Busy(c)' <=> Busy(c)
        /\ Answers(c)' <=> Answers(c)
    OBVIOUS
  <1>4. PICK k \in 0..MaxRequests : k <= sent[c] /\ AfterRequests(c, k)
    BY <1>1, <1>2 DEF StreamInv
  <1>5. AfterRequests(c, k)'
    BY <1>1, <1>2, <1>3, <1>4, StreamOther
  <1>6. k \in 0..sent'[c]
    BY <1>2, <1>3, <1>4
  <1> QED
    BY <1>5, <1>6

\* What is in pending_request at the place where tick() is.
Progress ==
    /\ At \in Placing => header_used[current] = 0
    /\ At = "recv_header" => header_used[current] < HeaderLength
    /\ At \in Receiving \ {"recv_header"} => header_used[current] = HeaderLength
    /\ At \in {"recv_payload", "execute", "respond"} => header_checked[current]

LEMMA StreamInvIs ==
    /\ StreamInv <=> (\A c \in sockets : \E k \in 0..sent[c] : AfterRequests(c, k)) /\ Progress
    /\ StreamInv' <=> (\A c \in sockets' : \E k \in 0..sent'[c] : AfterRequests(c, k)')
                          /\ Progress'
  BY DEF StreamInv, Progress

LEMMA InitStream == Init => StreamInv
  BY DEF Init, StreamInv, At, Placing, Receiving

\* Only the client that tick() is busy with gets further.
LEMMA StreamCurrent ==
    ASSUME TypeOK, StreamInv, TypeOK', UNCHANGED <<sockets, sent>>,
           NEW c \in sockets, c = current, current' \in {c, None},
           \A d \in sockets \ {c} :
               /\ header_used'[d] = header_used[d] /\ header_checked'[d] = header_checked[d]
               /\ payload_used'[d] = payload_used[d] /\ read'[d] = read[d]
               /\ handled'[d] = handled[d],
           NEW j \in 0..MaxRequests, j <= sent[c], AfterRequests(c, j)', Progress'
    PROVE  StreamInv'
  <1> SUFFICES ASSUME NEW d \in sockets PROVE \E k \in 0..sent'[d] : AfterRequests(d, k)'
    BY StreamInvIs
  <1>1. d \in Connections /\ sent[d] \in 0..MaxRequests /\ sent' = sent
    BY DEF TypeOK
  <1>2. CASE d = c
    BY <1>1, <1>2
  <1>3. CASE d # c
    <2>1. PICK k \in 0..MaxRequests : k <= sent[d] /\ AfterRequests(d, k)
      BY <1>1 DEF StreamInv
    <2>2. /\ header_used'[d] = header_used[d] /\ header_checked'[d] = header_checked[d]
          /\ payload_used'[d] = payload_used[d] /\ read'[d] = read[d]
          /\ handled'[d] = handled[d] /\ sent'[d] >= sent[d] /\ sent'[d] \in 0..MaxRequests
      BY <1>1, <1>3
    <2>3. d # current /\ d # current'
      BY <1>1, <1>3, NamedTypes
    <2>4. Busy(d)' <=> Busy(d)
      BY <2>3 DEF Busy
    <2>5. Answers(d)' <=> Answers(d)
      BY <2>3 DEF Answers
    <2>6. AfterRequests(d, k)'
      BY <2>1, <2>2, <2>4, <2>5, StreamOther
    <2> QED
      BY <1>1, <2>1, <2>6
  <1> QED
    BY <1>2, <1>3

\* What the current client is known to have received.
LEMMA CurrentHas ==
    ASSUME TypeOK, ControlInv, ListInv, StreamInv, At \in Receiving
    PROVE  \E c \in sockets, k \in 0..MaxRequests :
               /\ c = current /\ c \in Connections /\ AfterRequests(c, k) /\ k <= sent[c]
               /\ sent[c] \in 0..MaxRequests /\ read[c] \in Nat /\ handled[c] \in Nat
               /\ header_used[c] \in 0..HeaderLength /\ payload_used[c] \in Nat
               /\ header_checked[c] \in BOOLEAN
               /\ End[k] \in Nat /\ End[sent[c]] \in Nat
               /\ header_used[c] = HeaderLength =>
                      /\ k < sent[c] /\ Request(c) = k + 1 /\ k + 1 \in Requests
                      /\ PayloadLength[k + 1] \in Nat \ {0}
  <1>1. PICK c \in sockets : c = current /\ c \in Connections
    BY CurrentIs
  <1>2. PICK k \in 0..MaxRequests : k <= sent[c] /\ AfterRequests(c, k)
    BY <1>1, CurrentStream
  <1>3. header_used[c] = HeaderLength =>
            /\ k < sent[c] /\ Request(c) = k + 1 /\ k + 1 \in Requests
    BY <1>1, <1>2, CurrentStream
  <1>4. /\ sent[c] \in 0..MaxRequests /\ read[c] \in Nat /\ handled[c] \in Nat
        /\ header_used[c] \in 0..HeaderLength /\ payload_used[c] \in Nat
        /\ header_checked[c] \in BOOLEAN
    BY <1>1, MaxPayloadLengthIs DEF TypeOK
  <1>5. End[k] \in Nat /\ End[sent[c]] \in Nat
    BY <1>4, EndIs DEF Ends
  <1> QED
    BY <1>1, <1>2, <1>3, <1>4, <1>5

LEMMA StreamRecv ==
    ASSUME TypeOK, ControlInv, ListInv, StreamInv, TypeOK', RecvSome
    PROVE  StreamInv'
  <1> USE DEF lifeVars, listVars, aliveVars, peerVars, userVars
  <1>1. At = pc /\ At \in Receiving
    BY AtIs DEF RecvSome, Receiving
  <1>2. PICK c \in sockets, k \in 0..MaxRequests :
               /\ c = current /\ c \in Connections /\ AfterRequests(c, k) /\ k <= sent[c]
               /\ sent[c] \in 0..MaxRequests /\ read[c] \in Nat /\ handled[c] \in Nat
               /\ header_used[c] \in 0..HeaderLength /\ payload_used[c] \in Nat
               /\ header_checked[c] \in BOOLEAN
               /\ End[k] \in Nat /\ End[sent[c]] \in Nat
               /\ header_used[c] = HeaderLength =>
                      /\ k < sent[c] /\ Request(c) = k + 1 /\ k + 1 \in Requests
                      /\ PayloadLength[k + 1] \in Nat \ {0}
    BY <1>1, CurrentHas
  <1>3. PICK n \in 1..Unread(c) :
             /\ HeaderGrows(n) \/ PayloadGrows(n)
             /\ read' = [read EXCEPT ![c] = @ + n]
    BY <1>2 DEF RecvSome
  <1>4. n \in Nat \ {0} /\ read[c] < End[sent[c]]
    BY <1>2 DEF Unread
  <1>5. k < sent[c] /\ k + 1 \in Requests /\ PayloadLength[k + 1] \in Nat \ {0}
    <2>1. k # sent[c]
      BY <1>2, <1>4 DEF AfterRequests
    <2>2. k < sent[c] /\ k + 1 \in Requests
      BY <1>2, <2>1 DEF Requests
    <2> QED
      BY <2>2
  <1>6. read'[c] = read[c] + n /\ \A d \in sockets \ {c} : read'[d] = read[d]
    BY <1>2, <1>3 DEF TypeOK
  <1>7. UNCHANGED <<sockets, sent, handled>>
    BY <1>3 DEF HeaderGrows, PayloadGrows, Keep
  <1>8. CASE HeaderGrows(n)
    <2>1. /\ pc = "recv_header" /\ n <= HeaderLength - header_used[c]
          /\ header_used' = [header_used EXCEPT ![c] = @ + n]
          /\ UNCHANGED <<header_checked, payload_used>>
      BY <1>2, <1>8 DEF HeaderGrows, HeaderMissing
    <2>2. header_used'[c] = header_used[c] + n
          /\ \A d \in sockets \ {c} : header_used'[d] = header_used[d]
      BY <1>2, <2>1 DEF TypeOK
    <2>3. \/ /\ n = HeaderLength - header_used[c] /\ pc' = "check_header" /\ current' = c
          \/ /\ n # HeaderLength - header_used[c] /\ pc' = "loop" /\ current' = None
      BY <1>2, <1>8 DEF HeaderGrows, HeaderMissing, Keep
    <2>4. At' = pc' /\ At' \in {"check_header", "loop"} /\ At = "recv_header"
      BY <1>1, <2>1, <2>3 DEF At
    <2>5. header_used[c] < HeaderLength /\ ~header_checked[c] /\ payload_used[c] = 0
      BY <1>2, <1>4, <2>1 DEF AfterRequests
    <2>6. AfterRequests(c, k)'
      <3>1. read'[c] = End[k] + header_used'[c] + payload_used'[c]
        BY <1>2, <1>3, <1>6, <2>1, <2>2 DEF AfterRequests
      <3>2. handled'[c] <= k
        BY <1>2, <1>7, <2>4 DEF AfterRequests
      <3>3. k < sent'[c] /\ ~header_checked'[c] /\ payload_used'[c] = 0
        BY <1>5, <1>7, <2>1, <2>5
      <3> QED
        BY <1>5, <2>4, <3>1, <3>2, <3>3 DEF AfterRequests
    <2>7. Progress'
      <3>1. At' = "check_header" => header_used'[current'] = HeaderLength
        BY <1>2, <2>2, <2>3, <2>4
      <3> QED
        BY <2>4, <3>1 DEF Progress, Placing, Receiving
    <2>8. \A d \in sockets \ {c} :
               /\ header_used'[d] = header_used[d] /\ header_checked'[d] = header_checked[d]
               /\ payload_used'[d] = payload_used[d] /\ read'[d] = read[d]
               /\ handled'[d] = handled[d]
      BY <1>6, <1>7, <2>1, <2>2
    <2> QED
      BY <1>2, <1>7, <2>3, <2>6, <2>7, <2>8, StreamCurrent
  <1>9. CASE PayloadGrows(n)
    <2>1. At = "recv_payload" /\ header_used[c] = HeaderLength /\ header_checked[c]
      BY <1>1, <1>2, <1>9 DEF PayloadGrows, StreamInv, Receiving
    <2>2. /\ n <= PayloadLength[k + 1] - payload_used[c]
          /\ payload_used' = [payload_used EXCEPT ![c] = @ + n]
          /\ UNCHANGED <<header_used, header_checked>>
      BY <1>2, <1>9, <2>1 DEF PayloadGrows, PayloadMissing
    <2>3. payload_used'[c] = payload_used[c] + n
          /\ \A d \in sockets \ {c} : payload_used'[d] = payload_used[d]
      BY <1>2, <2>2 DEF TypeOK
    <2>4. \/ /\ n = PayloadLength[k + 1] - payload_used[c] /\ pc' = "execute" /\ current' = c
          \/ /\ n # PayloadLength[k + 1] - payload_used[c] /\ pc' = "loop" /\ current' = None
      BY <1>2, <1>9, <2>1 DEF PayloadGrows, PayloadMissing, Keep
    <2>5. At' = pc' /\ At' \in {"execute", "loop"}
      BY <2>4 DEF At
    <2>6. AfterRequests(c, k)'
      <3>1. read'[c] = End[k] + header_used'[c] + payload_used'[c]
        BY <1>2, <1>3, <1>6, <2>2, <2>3 DEF AfterRequests
      <3>2. handled'[c] <= k
        BY <1>2, <1>7, <2>1 DEF AfterRequests
      <3>3. k < sent'[c] /\ header_checked'[c] /\ header_used'[c] = HeaderLength
        BY <1>5, <1>7, <2>1, <2>2
      <3>4. At' = "execute" => payload_used'[c] = PayloadLength[k + 1] /\ c = current'
        BY <1>2, <1>5, <2>3, <2>4, <2>5
      <3>5. At' = "loop" => payload_used'[c] < PayloadLength[k + 1]
        BY <1>2, <1>5, <2>2, <2>3, <2>4, <2>5
      <3> QED
        BY <1>5, <2>5, <3>1, <3>2, <3>3, <3>4, <3>5 DEF AfterRequests
    <2>7. Progress'
      <3>1. At' = "execute" => header_used'[current'] = HeaderLength /\ header_checked'[current']
        BY <2>1, <2>2, <2>4, <2>5
      <3> QED
        BY <2>5, <3>1 DEF Progress, Placing, Receiving
    <2>8. \A d \in sockets \ {c} :
               /\ header_used'[d] = header_used[d] /\ header_checked'[d] = header_checked[d]
               /\ payload_used'[d] = payload_used[d] /\ read'[d] = read[d]
               /\ handled'[d] = handled[d]
      BY <1>6, <1>7, <2>2, <2>3
    <2> QED
      BY <1>2, <1>7, <2>4, <2>6, <2>7, <2>8, StreamCurrent
  <1> QED
    BY <1>3, <1>8, <1>9

LEMMA StreamServe ==
    ASSUME TypeOK, ControlInv, ListInv, StreamInv, TypeOK',
           RecvNothing \/ CheckHeader \/ CallRequest \/ Refuse \/ Responded
    PROVE  StreamInv'
  <1> USE DEF lifeVars, listVars, aliveVars, peerVars, userVars, requestVars
  <1>1. At = pc /\ At \in Receiving
    BY AtIs DEF RecvNothing, CheckHeader, CallRequest, Refuse, Responded, Receiving
  <1>2. PICK c \in sockets, k \in 0..MaxRequests :
               /\ c = current /\ c \in Connections /\ AfterRequests(c, k) /\ k <= sent[c]
               /\ sent[c] \in 0..MaxRequests /\ read[c] \in Nat /\ handled[c] \in Nat
               /\ header_used[c] \in 0..HeaderLength /\ payload_used[c] \in Nat
               /\ header_checked[c] \in BOOLEAN
               /\ End[k] \in Nat /\ End[sent[c]] \in Nat
               /\ header_used[c] = HeaderLength =>
                      /\ k < sent[c] /\ Request(c) = k + 1 /\ k + 1 \in Requests
                      /\ PayloadLength[k + 1] \in Nat \ {0}
    BY <1>1, CurrentHas
  <1>3. CASE RecvNothing
    <2>1. UNCHANGED <<header_used, header_checked, payload_used, read, handled, sent, sockets>>
          /\ current' = None /\ pc' = "loop" /\ At' = "loop"
      BY <1>3 DEF RecvNothing, Keep, At
    <2>2. \A d \in sockets : (Busy(d)' <=> Busy(d)) /\ (Answers(d)' <=> Answers(d))
      BY <1>1, <1>3, <2>1 DEF RecvNothing, Busy, Answers
    <2>3. \A d \in sockets' :
               /\ header_used'[d] = header_used[d] /\ header_checked'[d] = header_checked[d]
               /\ payload_used'[d] = payload_used[d] /\ read'[d] = read[d]
               /\ handled'[d] = handled[d] /\ sent'[d] >= sent[d]
               /\ Busy(d)' <=> Busy(d)
               /\ Answers(d)' <=> Answers(d)
      BY <2>1, <2>2 DEF TypeOK
    <2>4. \A d \in sockets' : \E j \in 0..sent'[d] : AfterRequests(d, j)'
      BY <2>1, <2>3, StreamQuiet
    <2>5. Progress'
      BY <2>1 DEF Progress, Placing, Receiving
    <2> QED
      BY <2>4, <2>5, StreamInvIs
  <1>4. CASE CheckHeader
    <2>1. At = "check_header" /\ header_used[c] = HeaderLength
      BY <1>1, <1>2, <1>4 DEF CheckHeader, StreamInv, Receiving
    <2>2. /\ UNCHANGED <<header_used, payload_used, read, handled, sent, sockets>>
          /\ header_checked' = [header_checked EXCEPT ![c] = TRUE] /\ current' = c
      BY <1>2, <1>4 DEF CheckHeader
    <2>3. header_checked'[c] /\ \A d \in sockets \ {c} : header_checked'[d] = header_checked[d]
      BY <1>2, <2>2 DEF TypeOK
    <2>4. payload_used[c] < PayloadLength[k + 1] /\ k < sent[c]
      BY <1>2, <2>1 DEF AfterRequests
    <2>5. pc' = "recv_payload" /\ At' = "recv_payload"
      <3>1. PayloadMissing(current) = PayloadLength[k + 1] - payload_used[c]
        BY <1>2, <2>1 DEF PayloadMissing
      <3>2. PayloadLength[k + 1] - payload_used[c] > 0
        BY <1>2, <2>1, <2>4
      <3> QED
        BY <1>4, <3>1, <3>2 DEF CheckHeader, At
    <2>6. AfterRequests(c, k)'
      BY <1>2, <2>1, <2>2, <2>3, <2>4, <2>5 DEF AfterRequests
    <2>7. Progress'
      BY <2>1, <2>2, <2>3, <2>5 DEF Progress, Placing, Receiving
    <2> QED
      BY <1>2, <2>2, <2>3, <2>6, <2>7, StreamCurrent
  <1>5. CASE CallRequest \/ Refuse
    <2>1. At = "execute" /\ header_used[c] = HeaderLength /\ header_checked[c]
      BY <1>1, <1>2, <1>5 DEF CallRequest, Refuse, StreamInv, Receiving
    <2>2. /\ UNCHANGED <<header_used, header_checked, payload_used, read, sent, sockets>>
          /\ current' = c /\ At' = "respond"
      BY <1>2, <1>5 DEF CallRequest, Refuse, CallBack, At
    <2>3. handled'[c] <= k + 1 /\ \A d \in sockets \ {c} : handled'[d] = handled[d]
      <3>1. handled' = [handled EXCEPT ![c] = @ + 1] \/ handled' = handled
        BY <1>2, <1>5 DEF CallRequest, Refuse
      <3>2. handled[c] <= k
        BY <1>2, <2>1 DEF AfterRequests
      <3>3. handled \in [Connections -> 0..MaxRequests] /\ sockets \subseteq Connections
        BY DEF TypeOK
      <3>4. \A d \in sockets \ {c} : handled'[d] = handled[d]
        BY <1>2, <3>1, <3>3
      <3>5. handled'[c] <= handled[c] + 1 /\ handled'[c] \in Nat
        BY <1>2, <3>1, <3>3
      <3> QED
        BY <1>2, <3>2, <3>4, <3>5
    <2>4. k < sent[c] /\ payload_used[c] = PayloadLength[k + 1]
      BY <1>2, <2>1 DEF AfterRequests
    <2>5. AfterRequests(c, k)'
      BY <1>2, <2>1, <2>2, <2>3, <2>4 DEF AfterRequests
    <2>6. Progress'
      BY <2>1, <2>2 DEF Progress, Placing, Receiving
    <2> QED
      BY <1>2, <2>2, <2>3, <2>5, <2>6, StreamCurrent
  <1>6. CASE Responded
    <2>1. At = "respond" /\ header_used[c] = HeaderLength /\ header_checked[c]
      BY <1>1, <1>2, <1>6 DEF Responded, StreamInv, Receiving
    <2>2. /\ UNCHANGED <<read, handled, sent, sockets>>
          /\ header_used' = [header_used EXCEPT ![c] = 0]
          /\ header_checked' = [header_checked EXCEPT ![c] = FALSE]
          /\ payload_used' = [payload_used EXCEPT ![c] = 0]
          /\ current' = None /\ At' = "loop"
      BY <1>2, <1>6 DEF Responded, ResetRequest, Keep, At
    <2>3. header_used'[c] = 0 /\ ~header_checked'[c] /\ payload_used'[c] = 0
      BY <1>2, <2>2 DEF TypeOK
    <2>4. \A d \in sockets \ {c} :
               /\ header_used'[d] = header_used[d] /\ header_checked'[d] = header_checked[d]
               /\ payload_used'[d] = payload_used[d]
      BY <1>2, <2>2 DEF TypeOK
    <2>5. k < sent[c] /\ payload_used[c] = PayloadLength[k + 1] /\ handled[c] <= k + 1
      BY <1>2, <2>1 DEF AfterRequests
    <2>6. k + 1 \in 0..MaxRequests /\ k + 1 <= sent[c]
      BY <1>2, <2>5
    <2>7. read[c] = End[k + 1]
      <3>1. End[k + 1] = End[(k + 1) - 1] + RequestLength(k + 1)
        BY <2>6, EndIs DEF Ends
      <3>2. (k + 1) - 1 = k /\ RequestLength(k + 1) = HeaderLength + PayloadLength[k + 1]
        BY DEF RequestLength
      <3>3. read[c] = End[k] + header_used[c] + payload_used[c]
        BY <1>2 DEF AfterRequests
      <3> QED
        BY <1>2, <2>1, <2>5, <3>1, <3>2, <3>3
    <2>8. AfterRequests(c, k + 1)'
      <3> PICK j \in 0..MaxRequests : j = k + 1
        BY <2>6
      <3>1. j < sent[c] => PayloadLength[j + 1] \in Nat \ {0}
        BY <1>2 DEF Requests
      <3>2. End[j] \in Nat
        BY EndIs DEF Ends
      <3>3. AfterRequests(c, j)'
        BY <2>2, <2>3, <2>5, <2>7, <3>1, <3>2 DEF AfterRequests
      <3> QED
        BY <3>3
    <2>9. Progress'
      BY <2>2 DEF Progress, Placing, Receiving
    <2> QED
      BY <1>2, <2>2, <2>4, <2>6, <2>8, <2>9, StreamCurrent
  <1> QED
    BY <1>3, <1>4, <1>5, <1>6

LEMMA StreamTakeBack ==
    ASSUME TypeOK, StreamInv, TypeOK', pc # "user",
           NEW c \in sockets, NEW reason, NEW next, Disconnect(c, reason, next),
           pc \in Receiving => current = c,
           \/ next \in {"stop", "idle_check", "loop"} /\ current' = None
           \/ next = "place" /\ pc = "displace" /\ current' = current /\ current \in sockets \ {c}
    PROVE  StreamInv'
  <1>1. c \in Connections
    BY DEF TypeOK
  <1>2. /\ sockets' = sockets \ {c} /\ UNCHANGED handled /\ At' = next
        /\ \A d \in Connections \ {c} :
              /\ header_used'[d] = header_used[d] /\ header_checked'[d] = header_checked[d]
              /\ payload_used'[d] = payload_used[d] /\ read'[d] = read[d] /\ sent'[d] = sent[d]
    BY <1>1, DisconnectIs
  <1>3. At = pc
    BY AtIs
  <1>4. \A d \in sockets' :
            /\ header_used'[d] = header_used[d] /\ header_checked'[d] = header_checked[d]
            /\ payload_used'[d] = payload_used[d] /\ read'[d] = read[d]
            /\ handled'[d] = handled[d] /\ sent'[d] >= sent[d]
            /\ Busy(d)' <=> Busy(d)
            /\ Answers(d)' <=> Answers(d)
    <2> SUFFICES ASSUME NEW d \in sockets'
                 PROVE /\ header_used'[d] = header_used[d] /\ header_checked'[d] = header_checked[d]
                       /\ payload_used'[d] = payload_used[d] /\ read'[d] = read[d]
                       /\ handled'[d] = handled[d] /\ sent'[d] >= sent[d]
                       /\ Busy(d)' <=> Busy(d)
                       /\ Answers(d)' <=> Answers(d)
      OBVIOUS
    <2>1. d \in Connections \ {c}
      BY <1>2 DEF TypeOK
    <2>2. sent'[d] >= sent[d]
      BY <1>2, <2>1 DEF TypeOK
    <2>3. ~Busy(d) /\ ~Answers(d)
      BY <1>3, <2>1 DEF Busy, Answers, Receiving
    <2>4. ~Busy(d)' /\ ~Answers(d)'
      BY <1>2 DEF Busy, Answers
    <2> QED
      BY <1>2, <2>1, <2>2, <2>3, <2>4
  <1>5. \A d \in sockets' : \E k \in 0..sent'[d] : AfterRequests(d, k)'
    BY <1>2, <1>4, StreamQuiet
  <1>6. Progress'
    <2>1. CASE next = "place" /\ pc = "displace" /\ current' = current /\ current \in sockets \ {c}
      <3>1. header_used[current] = 0
        BY <1>3, <2>1 DEF StreamInv, Placing
      <3>2. header_used'[current'] = 0
        BY <1>2, <2>1, <3>1 DEF TypeOK
      <3> QED
        BY <1>2, <2>1, <3>2 DEF Progress, Receiving
    <2>2. CASE next \in {"stop", "idle_check", "loop"}
      BY <1>2, <2>2 DEF Progress, Placing, Receiving
    <2> QED
      BY <2>1, <2>2
  <1> QED
    BY <1>5, <1>6, StreamInvIs

LEMMA StreamDisconnect ==
    ASSUME TypeOK, ControlInv, ListInv, StreamInv, TypeOK',
           StopClient \/ Displace \/ TurnAway \/ LoopIdle
               \/ RecvFails \/ HeaderIsBad \/ PayloadIsBad \/ SendFails
    PROVE  StreamInv'
  <1>1. pc # "user" /\ At = pc
    BY AtIs DEF StopClient, Displace, TurnAway, LoopIdle, RecvFails, HeaderIsBad, PayloadIsBad,
       SendFails
  <1>2. CASE StopClient
    <2>1. pc = "stop" /\ pending # <<>> /\ Disconnect(Head(pending), "ServerStopped", "stop")
          /\ current' = current
      BY <1>2 DEF StopClient
    <2>2. Head(pending) \in sockets /\ current = None
      BY <1>1, <2>1, PendingIs DEF ControlInv, Placing, Receiving
    <2> QED
      BY <2>1, <2>2, StreamTakeBack DEF Receiving
  <1>3. CASE LoopIdle
    <2>1. pc = "loop" /\ pending # <<>> /\ Disconnect(Head(pending), "Idle", "loop")
          /\ current' = current
      BY <1>3 DEF LoopIdle
    <2>2. Head(pending) \in sockets /\ current = None
      BY <1>1, <2>1, PendingIs DEF ControlInv, Placing, Receiving
    <2> QED
      BY <2>1, <2>2, StreamTakeBack DEF Receiving
  <1>4. CASE Displace
    <2>1. pc = "displace" /\ Full /\ Disconnect(LeastAlive, "Displaced", "place")
          /\ current' = current
      BY <1>4 DEF Displace
    <2>2. LeastAlive \in sockets
      BY <2>1, LastIs
    <2>3. current \in sockets
      BY <1>1, <2>1, CurrentIs DEF Placing
    <2>4. current # LeastAlive
      <3>1. clients \in Seq(Connections) /\ current \in Connections
            /\ Len(clients) \in Nat \ {0}
        BY <2>1, <2>3, LastIs DEF TypeOK
      <3>2. Reached = <<current>> \o clients
        BY <1>1, <2>1, ReachedIs DEF ReachedFacts, Placing
      <3>3. /\ Len(Reached) = Len(clients) + 1 /\ Reached[1] = current
            /\ Reached[Len(clients) + 1] = LeastAlive
        BY <3>1, <3>2, WithoutFirst DEF LeastAlive
      <3>4. DOMAIN Reached = 1..(Len(clients) + 1)
        BY <3>3, ReachedIs DEF ReachedFacts
      <3>5. 1 \in DOMAIN Reached /\ Len(clients) + 1 \in DOMAIN Reached /\ 1 # Len(clients) + 1
        BY <3>1, <3>4
      <3> QED
        BY <3>3, <3>5 DEF ListInv, IsInjective
    <2> QED
      BY <2>1, <2>2, <2>3, <2>4, StreamTakeBack DEF Receiving
  <1>5. CASE TurnAway
    <2>1. pc = "place" /\ Disconnect(current, "NoFreeClient", "idle_check") /\ current' = None
      BY <1>5 DEF TurnAway
    <2>2. current \in sockets
      BY <1>1, <2>1, CurrentIs DEF Placing
    <2> QED
      BY <2>1, <2>2, StreamTakeBack DEF Receiving
  <1>6. CASE RecvFails \/ HeaderIsBad \/ PayloadIsBad \/ SendFails
    <2>1. pc \in Receiving
      BY <1>6 DEF RecvFails, HeaderIsBad, PayloadIsBad, SendFails, Receiving
    <2>2. PICK reason \in Reasons : Drop(reason)
      BY <1>6, NamedTypes DEF RecvFails, HeaderIsBad, PayloadIsBad, SendFails
    <2>3. current \in sockets /\ Disconnect(current, reason, "loop") /\ current' = None
      BY <1>1, <2>1, <2>2, CurrentIs DEF Drop
    <2> QED
      BY <1>1, <2>3, StreamTakeBack
  <1> QED
    BY <1>2, <1>3, <1>4, <1>5, <1>6

LEMMA StreamAccept ==
    ASSUME TypeOK, ControlInv, BacklogInv, ListInv, BlankInv, StreamInv, TypeOK', Accept
    PROVE  StreamInv'
  <1>1. backlog # <<>> /\ backlog \in Seq(Connections) /\ current = None /\ At = "accept"
    BY DEF Accept, ControlInv, TypeOK, At, Placing, Receiving
  <1>2. PICK h \in Connections : h = Head(backlog) /\ h = backlog[1] /\ 1 \in 1..Len(backlog)
    BY <1>1, TailIs
  <1>3. told[h] = "unknown" /\ h \notin sockets
    BY <1>2 DEF BacklogInv, ListInv
  <1>4. read[h] = 0 /\ header_used[h] = 0 /\ payload_used[h] = 0 /\ ~header_checked[h]
        /\ handled[h] = 0
    BY <1>3 DEF BlankInv
  <1>5. /\ sockets' = sockets \cup {h} /\ current' = h /\ At' = "displace"
        /\ UNCHANGED <<header_used, header_checked, payload_used, read, handled, sent>>
    BY <1>2 DEF Accept, CallBack, At, requestVars
  <1>6. ASSUME NEW d \in sockets' PROVE \E k \in 0..sent'[d] : AfterRequests(d, k)'
    <2>1. d \in Connections /\ sent[d] \in 0..MaxRequests
      BY <1>5 DEF TypeOK
    <2>2. CASE d = h
      <3>1. AfterRequests(d, 0)'
        <4>1. End[0] = 0
          BY EndIs DEF Ends
        <4>2. 0 < sent[d] => 0 < PayloadLength[0 + 1]
          <5>1. 0 < sent[d] => 0 + 1 \in Requests
            BY <2>1 DEF Requests
          <5> QED
            BY <5>1
        <4> QED
          BY <1>4, <1>5, <2>2, <4>1, <4>2 DEF AfterRequests
      <3>2. 0 \in 0..sent'[d]
        BY <1>5, <2>1
      <3> QED
        BY <3>1, <3>2
    <2>3. CASE d \in sockets
      <3>1. PICK k \in 0..MaxRequests : k <= sent[d] /\ AfterRequests(d, k)
        BY <2>1, <2>3 DEF StreamInv
      <3>2. (Busy(d)' <=> Busy(d)) /\ (Answers(d)' <=> Answers(d))
        BY <1>1, <1>5 DEF Busy, Answers
      <3>3. AfterRequests(d, k)'
        BY <1>5, <2>1, <2>3, <3>1, <3>2, StreamOther
      <3> QED
        BY <1>5, <2>1, <3>1, <3>3
    <2> QED
      BY <1>5, <2>2, <2>3
  <1>7. Progress'
    BY <1>4, <1>5 DEF Progress, Receiving
  <1> QED
    BY <1>6, <1>7, StreamInvIs

LEMMA StreamStep ==
    ASSUME TypeOK, ControlInv, ListInv, BacklogInv, BlankInv, StreamInv, TypeOK', [Next]_vars
    PROVE  StreamInv'
  <1> USE DEF lifeVars, userVars, peerVars, requestVars, aliveVars, listVars
  <1>1. CASE RecvSome
    BY <1>1, StreamRecv
  <1>2. CASE RecvNothing \/ CheckHeader \/ CallRequest \/ Refuse \/ Responded
    BY <1>2, StreamServe
  <1>3. CASE StopClient \/ Displace \/ TurnAway \/ LoopIdle
               \/ RecvFails \/ HeaderIsBad \/ PayloadIsBad \/ SendFails
    BY <1>3, StreamDisconnect
  <1>4. CASE Accept
    BY <1>4, StreamAccept
  <1>5. ASSUME UNCHANGED <<header_used, header_checked, payload_used, read, handled, sockets>>,
               \A d \in Connections : sent'[d] >= sent[d],
               \A d \in sockets : (Busy(d)' <=> Busy(d)) /\ (Answers(d)' <=> Answers(d)),
               Progress'
        PROVE  StreamInv'
    <2>1. \A d \in sockets' :
               /\ header_used'[d] = header_used[d] /\ header_checked'[d] = header_checked[d]
               /\ payload_used'[d] = payload_used[d] /\ read'[d] = read[d]
               /\ handled'[d] = handled[d] /\ sent'[d] >= sent[d]
               /\ Busy(d)' <=> Busy(d)
               /\ Answers(d)' <=> Answers(d)
      BY <1>5 DEF TypeOK
    <2>2. \A d \in sockets' : \E j \in 0..sent'[d] : AfterRequests(d, j)'
      BY <1>5, <2>1, StreamQuiet
    <2> QED
      BY <1>5, <2>2, StreamInvIs
  <1>6. \A d \in Connections : sent[d] \in Nat
    BY DEF TypeOK
  <1>7. CASE \/ Start \/ Connect \/ Elapse \/ CallbackReturns \/ DisplaceNone
             \/ (\E c \in Connections : Send(c) \/ Leave(c)) \/ UNCHANGED vars
    <2>1. /\ UNCHANGED <<header_used, header_checked, payload_used, read, handled, sockets,
                         current>>
          /\ At' = At \/ (At = "displace" /\ At' = "place")
      BY <1>7 DEF Start, Connect, Elapse, CallbackReturns, DisplaceNone, Send, Leave, vars, At,
         TypeOK, Resumes
    <2>2. \A d \in Connections : sent'[d] >= sent[d]
      <3>1. CASE \E c \in Connections : Send(c)
        <4>1. PICK c \in Connections : sent' = [sent EXCEPT ![c] = @ + 1]
          BY <3>1 DEF Send
        <4>2. sent \in [Connections -> 0..MaxRequests]
          BY DEF TypeOK
        <4>3. \A d \in Connections : sent'[d] = sent[d] + 1 \/ sent'[d] = sent[d]
          BY <4>1, <4>2
        <4> QED
          BY <1>6, <4>3
      <3>2. CASE UNCHANGED sent
        BY <1>6, <3>2
      <3> QED
        BY <1>7, <3>1, <3>2 DEF Start, Connect, Elapse, CallbackReturns, DisplaceNone, Leave, vars
    <2>3. \A d \in sockets : (Busy(d)' <=> Busy(d)) /\ (Answers(d)' <=> Answers(d))
      BY <2>1 DEF Busy, Answers
    <2>4. Progress'
      <3>1. Progress
        BY StreamInvIs
      <3> QED
        BY <2>1, <3>1 DEF Progress, Placing, Receiving
    <2> QED
      BY <1>5, <2>1, <2>2, <2>3, <2>4
  <1>8. CASE \/ Stop \/ Tick \/ Stopped \/ AcceptFails \/ StartLoop \/ LoopUnreadable \/ LoopEnds
    <2>1. UNCHANGED <<header_used, header_checked, payload_used, read, handled, sockets, sent>>
      BY <1>8 DEF Stop, Tick, Stopped, AcceptFails, StartLoop, LoopUnreadable, LoopEnds
    <2>2. At \notin Placing \cup Receiving /\ At' \notin Placing \cup Receiving
      <3>1. CASE Stop \/ Tick
        BY <3>1 DEF Stop, Tick, At, ControlInv, Placing, Receiving
      <3>2. CASE Stopped \/ AcceptFails \/ StartLoop \/ LoopUnreadable \/ LoopEnds
        BY <3>2 DEF Stopped, AcceptFails, StartLoop, LoopUnreadable, LoopEnds, At, ControlInv,
           Placing, Receiving
      <3> QED
        BY <1>8, <3>1, <3>2
    <2>3. \A d \in sockets : (Busy(d)' <=> Busy(d)) /\ (Answers(d)' <=> Answers(d))
      BY <2>2 DEF Busy, Answers, Receiving
    <2>4. Progress'
      BY <2>2 DEF Progress, Receiving
    <2> QED
      BY <1>5, <1>6, <2>1, <2>3, <2>4
  <1>9. CASE LoopReadable
    <2>1. /\ UNCHANGED <<header_used, header_checked, payload_used, read, handled, sockets, sent>>
          /\ current' = Head(pending) /\ pending # <<>> /\ At = "loop"
          /\ pc' = IF HeaderMissing(current') > 0 THEN "recv_header" ELSE "check_header"
      BY <1>9 DEF LoopReadable, At
    <2>2. PICK h \in Connections : h = Head(pending)
      BY <2>1, PendingIs
    <2>3. /\ At' = pc' /\ At' \in {"recv_header", "check_header"}
          /\ At' = "recv_header" <=> HeaderLength - header_used[h] > 0
      BY <2>1, <2>2 DEF At, HeaderMissing
    <2>4. \A d \in sockets : (Busy(d)' <=> Busy(d)) /\ (Answers(d)' <=> Answers(d))
      BY <2>1, <2>3 DEF Busy, Answers
    <2>5. Progress'
      <3>1. header_used[h] \in 0..HeaderLength
        BY DEF TypeOK
      <3>2. header_used'[current'] = header_used[h]
        BY <2>1, <2>2
      <3> QED
        BY <2>3, <3>1, <3>2 DEF Progress, Placing
    <2> QED
      BY <1>5, <1>6, <2>1, <2>4, <2>5
  <1>10. CASE Admit
    <2>1. At = "place" /\ At' = "idle_check" /\ current \in sockets /\ current \in Connections
      BY <1>10, CurrentIs DEF Admit, At, Placing
    <2>2. header_used[current] = 0
      BY <2>1 DEF StreamInv, Placing
    <2>3. ~header_checked[current] /\ payload_used[current] = 0
      <3>1. PICK k \in 0..sent[current] : AfterRequests(current, k)
        BY <2>1 DEF StreamInv
      <3> QED
        BY <2>2, <3>1 DEF AfterRequests
    <2>4. UNCHANGED <<read, handled, sockets, sent>>
          /\ header_used' = [header_used EXCEPT ![current] = 0]
          /\ header_checked' = [header_checked EXCEPT ![current] = FALSE]
          /\ payload_used' = [payload_used EXCEPT ![current] = 0]
      BY <1>10 DEF Admit
    <2>5. UNCHANGED <<header_used, header_checked, payload_used>>
      BY <2>1, <2>2, <2>3, <2>4 DEF TypeOK
    <2>6. \A d \in sockets : (Busy(d)' <=> Busy(d)) /\ (Answers(d)' <=> Answers(d))
      BY <2>1 DEF Busy, Answers
    <2>7. Progress'
      BY <2>1 DEF Progress, Placing, Receiving
    <2> QED
      BY <1>5, <1>6, <2>4, <2>5, <2>6, <2>7
  <1> QED
    BY <1>1, <1>2, <1>3, <1>4, <1>7, <1>8, <1>9, <1>10 DEF Next, LibraryStep, Serve

-----------------------------------------------------------------------------
(* The invariant holds.                                                    *)

LEMMA Inductive == IInv /\ [Next]_vars => IInv'
  <1> SUFFICES ASSUME IInv, [Next]_vars PROVE IInv'
    OBVIOUS
  <1>1. TypeOK /\ ControlInv /\ ListInv /\ PlaceInv /\ BacklogInv /\ BlankInv /\ StreamInv
    BY DEF IInv
  <1>2. TypeOK'
    BY <1>1, TypeStep
  <1>3. ControlInv'
    BY <1>1, ControlStep
  <1>4. ListInv'
    BY <1>1, <1>2, <1>3, ListStep
  <1>5. PlaceInv'
    BY <1>1, PlaceStep
  <1>6. BacklogInv' /\ BlankInv'
    BY <1>1, BacklogStep, BlankStep
  <1>7. StreamInv'
    BY <1>1, <1>2, StreamStep
  <1> QED
    BY <1>2, <1>3, <1>4, <1>5, <1>6, <1>7 DEF IInv

\* The inductive invariant: what each place in tick() and stop() knows of the lists, the
\* connections and their requests.
THEOREM Invariance == Spec => []IInv
  <1>1. Init => IInv
    BY InitType, InitControl, InitList, InitBacklog, InitStream DEF IInv
  <1> QED
    BY <1>1, Inductive, PTL DEF Spec

\* Every member keeps its type: no more of a request is received than its header says,
\* and no more than fits into pending_request.
THEOREM TypeCorrect == Spec => []TypeOK
  BY Invariance, PTL DEF IInv

\* tick() and stop() take the list of the clients apart and call the user in between,
\* and still each announced connection is in one list, once, with its socket open and
\* the callbacks set.
THEOREM ListsIntact == Spec => []ListIntact
  <1>1. IInv => ListIntact
    BY DEF IInv, ControlInv, ListInv, ListIntact
  <1> QED
    BY <1>1, Invariance, PTL

\* However recv() cuts the stream of a client, what is in pending_request begins where a
\* request begins, and no request is handled twice.
THEOREM AlwaysInStep == Spec => []InStep
  <1>1. ASSUME IInv PROVE InStep
    <2> SUFFICES ASSUME NEW c \in sockets
                 PROVE \E k \in 0..sent[c] :
                           /\ read[c] = End[k] + header_used[c] + payload_used[c]
                           /\ handled[c] <= k + (IF At = "respond" /\ c = current THEN 1 ELSE 0)
                           /\ payload_used[c] > 0 =>
                                  header_used[c] = HeaderLength /\ header_checked[c]
      BY DEF InStep
    <2>1. c \in Connections
      BY <1>1 DEF IInv, TypeOK
    <2>2. header_used[c] \in 0..HeaderLength /\ header_checked[c] \in BOOLEAN
      BY <1>1, <2>1 DEF IInv, TypeOK
    <2>3. PICK k \in 0..sent[c] : AfterRequests(c, k)
      BY <1>1 DEF IInv, StreamInv
    <2>4. payload_used[c] > 0 => header_used[c] = HeaderLength /\ header_checked[c]
      BY <2>2, <2>3 DEF AfterRequests
    <2> QED
      BY <2>3, <2>4 DEF AfterRequests
  <1> QED
    BY <1>1, Invariance, PTL

-----------------------------------------------------------------------------
(* Who is displaced, and who is turned away.                               *)

\* While a place is looked for, the clients are those that were announced before.
LEMMA ClientsList ==
    ASSUME TypeOK, ControlInv, ListInv, At \in Placing
    PROVE  List(clients, sockets \ {current}, last_alive)
  <1>1. current \in Connections /\ clients \in Seq(Connections)
        /\ Reached = <<current>> \o clients /\ Reached \in Seq(Connections)
    BY CurrentIs, ReachedIs DEF ReachedFacts, TypeOK
  <1>2. PICK p \in 1..Len(Reached) : Reached[p] = current /\ Without(Reached, clients, p)
    BY <1>1, WithoutFirst
  <1>3. List(Reached, sockets, last_alive)
    BY ReachedList
  <1>4. /\ Len(clients) = Len(Reached) - 1
        /\ \A i \in 1..Len(clients) :
               clients[i] = IF i < p THEN Reached[i] ELSE Reached[i + 1]
    BY <1>2 DEF Without
  <1>5. List(clients, sockets \ {Reached[p]}, last_alive)
    BY <1>1, <1>3, <1>4, ListWithout
  <1> QED
    BY <1>2, <1>5

LEMMA LeastAliveIs ==
    ASSUME TypeOK, ControlInv, ListInv, At \in Placing, Full
    PROVE  /\ LeastAlive \in Connections
           /\ \A d \in sockets \ {current} : last_alive[d] <= last_alive[LeastAlive]
           /\ Cardinality(sockets \ {current}) >= MaxClients
  <1>1. clients \in Seq(Connections) /\ Len(clients) >= MaxClients
    BY DEF TypeOK, Full
  <1> PICK n \in Nat \ {0} : n = Len(clients)
    BY <1>1
  <1>2. Listed(clients, n, sockets \ {current}, last_alive)
    BY <1>1, ClientsList, ListIs
  <1>3. n \in 1..n /\ LeastAlive = clients[n] /\ LeastAlive \in Connections
    BY <1>1 DEF LeastAlive
  <1>4. last_alive[LeastAlive] \in Nat
    BY <1>3, AgesAre DEF AgeTypes
  <1>5. ASSUME NEW d \in sockets \ {current} PROVE last_alive[d] <= last_alive[LeastAlive]
    <2>1. PICK i \in 1..n : clients[i] = d
      BY <1>2 DEF Listed
    <2>2. CASE i = n
      BY <1>3, <1>4, <2>1, <2>2
    <2>3. CASE i < n
      BY <1>2, <1>3, <2>1, <2>3 DEF Listed
    <2> QED
      BY <2>2, <2>3
  <1>6. Cardinality(sockets \ {current}) = n
    BY <1>1, ClientsList, ListCardinality
  <1> QED
    BY <1>1, <1>3, <1>5, <1>6

LEMMA ReasonsAre ==
    ASSUME TypeOK, ControlInv, ListInv, BacklogInv, [Next]_vars, NEW c \in sockets
    PROVE  /\ told'[c] = "Displaced" => Displace /\ c = LeastAlive
           /\ told'[c] = "NoFreeClient" => TurnAway /\ c = current
  <1> USE DEF userVars
  <1>1. c \in Connections /\ told[c] = "connected"
    BY DEF ListInv
  <1>2. ASSUME NEW d \in sockets, NEW reason, NEW next, Disconnect(d, reason, next)
        PROVE  told'[c] = IF c = d THEN reason ELSE "connected"
    <2>1. d \in Connections
      BY DEF TypeOK
    <2> QED
      BY <1>1, <1>2, <2>1, DisconnectIs
  <1>3. CASE Displace
    <2>1. LeastAlive \in sockets /\ Disconnect(LeastAlive, "Displaced", "place")
      BY <1>3, LastIs DEF Displace
    <2> QED
      BY <1>2, <1>3, <2>1
  <1>4. CASE TurnAway
    <2>1. current \in sockets /\ Disconnect(current, "NoFreeClient", "idle_check")
      BY <1>4, CurrentIs, AtIs DEF TurnAway, Placing
    <2> QED
      BY <1>2, <1>4, <2>1
  <1>5. CASE StopClient \/ LoopIdle
    <2>1. At \in {"stop", "loop"} /\ pending # <<>>
      BY <1>5, AtIs DEF StopClient, LoopIdle
    <2>2. Head(pending) \in sockets
      BY <2>1, PendingIs
    <2>3. \E reason \in {"ServerStopped", "Idle"}, next \in Resumes :
              Disconnect(Head(pending), reason, next)
      BY <1>5, NamedTypes DEF StopClient, LoopIdle
    <2>4. told'[c] \in {"ServerStopped", "Idle", "connected"}
      BY <1>2, <2>2, <2>3
    <2> QED
      BY <2>4
  <1>6. CASE RecvFails \/ HeaderIsBad \/ PayloadIsBad \/ SendFails
    <2>1. At \in Receiving
      BY <1>6, AtIs DEF RecvFails, HeaderIsBad, PayloadIsBad, SendFails, Receiving
    <2>2. current \in sockets
      BY <2>1, CurrentIs
    <2>3. \E reason \in {"DisconnectedByPeer", "SocketReceiveFailed", "ProtocolError",
                         "SocketSendFailed"} : Disconnect(current, reason, "loop")
      BY <1>6 DEF RecvFails, HeaderIsBad, PayloadIsBad, SendFails, Drop
    <2>4. told'[c] \in {"DisconnectedByPeer", "SocketReceiveFailed", "ProtocolError",
                        "SocketSendFailed", "connected"}
      BY <1>2, <2>2, <2>3
    <2> QED
      BY <2>4
  <1>7. CASE Accept
    <2>1. PICK h \in Connections : told' = [told EXCEPT ![h] = "connected"]
      BY <1>7, TailIs DEF Accept, ControlInv, TypeOK
    <2>2. told'[c] = "connected"
      BY <1>1, <2>1 DEF TypeOK
    <2> QED
      BY <2>2
  <1>8. CASE UNCHANGED told
    BY <1>1, <1>8
  <1>9. \/ Start \/ Stop \/ Tick \/ CallbackReturns \/ Stopped \/ AcceptFails \/ DisplaceNone
        \/ Admit \/ StartLoop \/ LoopUnreadable \/ LoopReadable \/ LoopEnds \/ Connect
        \/ (\E d \in Connections : Send(d) \/ Leave(d)) \/ Elapse \/ UNCHANGED vars
        => UNCHANGED told
    BY DEF Start, Stop, Tick, CallbackReturns, Stopped, AcceptFails, DisplaceNone,
       Admit, StartLoop, LoopUnreadable, LoopReadable, LoopEnds, Connect, Send, Leave, Elapse, vars
  <1>10. RecvSome \/ RecvNothing \/ CheckHeader \/ CallRequest \/ Refuse \/ Responded
         => UNCHANGED told
    BY DEF RecvSome, HeaderGrows, PayloadGrows, RecvNothing, CheckHeader, CallRequest, Refuse,
       Responded, Keep
  <1> QED
    BY <1>3, <1>4, <1>5, <1>6, <1>7, <1>8, <1>9, <1>10 DEF Next, LibraryStep, Serve

\* tick() makes room only at the cost of the client that was silent for longest, and
\* for at least the minimum displace delay.
THEOREM LeastAliveDisplaced == Spec => DisplacesLeastAlive
  <1> DEFINE Allowed(c) == told'[c] = "Displaced" =>
                 /\ last_alive[c] >= MinDisplaceDelay
                 /\ \A d \in sockets \ {current} : last_alive[d] <= last_alive[c]
  <1>1. ASSUME IInv, [Next]_vars, NEW c \in sockets PROVE Allowed(c)
    <2> SUFFICES ASSUME told'[c] = "Displaced"
                 PROVE  /\ last_alive[c] >= MinDisplaceDelay
                        /\ \A d \in sockets \ {current} : last_alive[d] <= last_alive[c]
      OBVIOUS
    <2>1. Displace /\ c = LeastAlive
      BY <1>1, ReasonsAre DEF IInv
    <2>2. At \in Placing /\ Full /\ Displaceable(LeastAlive)
      BY <2>1, AtIs DEF Displace, Placing
    <2>3. \A d \in sockets \ {current} : last_alive[d] <= last_alive[LeastAlive]
      BY <1>1, <2>2, LeastAliveIs DEF IInv
    <2> QED
      BY <2>1, <2>2, <2>3 DEF Displaceable
  <1>2. IInv /\ [Next]_vars => [\A c \in sockets : Allowed(c)]_vars
    BY <1>1
  <1> QED
    BY <1>2, Invariance, PTL DEF Spec, DisplacesLeastAlive

\* tick() turns a connection away only while all places are taken by clients that were
\* heard of within the minimum displace delay.
THEOREM TurnedAwayWhenBusy == Spec => TurnsAwayOnlyWhenBusy
  <1> DEFINE Allowed(c) == told'[c] = "NoFreeClient" =>
                 /\ Cardinality(sockets \ {c}) >= MaxClients
                 /\ \A d \in sockets \ {c} : last_alive[d] < MinDisplaceDelay
  <1>1. ASSUME IInv, [Next]_vars, NEW c \in sockets PROVE Allowed(c)
    <2> SUFFICES ASSUME told'[c] = "NoFreeClient"
                 PROVE  /\ Cardinality(sockets \ {c}) >= MaxClients
                        /\ \A d \in sockets \ {c} : last_alive[d] < MinDisplaceDelay
      OBVIOUS
    <2>1. TurnAway /\ c = current
      BY <1>1, ReasonsAre DEF IInv
    <2>2. At = "place" /\ At \in Placing /\ Full
      BY <2>1, AtIs DEF TurnAway, Placing
    <2>3. ~Displaceable(LeastAlive)
      BY <1>1, <2>2 DEF IInv, PlaceInv
    <2>4. /\ LeastAlive \in Connections
          /\ \A d \in sockets \ {current} : last_alive[d] <= last_alive[LeastAlive]
          /\ Cardinality(sockets \ {current}) >= MaxClients
      BY <1>1, <2>2, LeastAliveIs DEF IInv
    <2>5. last_alive \in [Connections -> Nat] /\ sockets \in SUBSET Connections
      BY <1>1, AgesAre DEF IInv, AgeTypes
    <2>6. last_alive[LeastAlive] < MinDisplaceDelay
      BY <2>3, <2>4, <2>5 DEF Displaceable
    <2>7. \A d \in sockets \ {current} : last_alive[d] < MinDisplaceDelay
      BY <2>4, <2>5, <2>6
    <2> QED
      BY <2>1, <2>4, <2>7
  <1>2. IInv /\ [Next]_vars => [\A c \in sockets : Allowed(c)]_vars
    BY <1>1
  <1> QED
    BY <1>2, Invariance, PTL DEF Spec, TurnsAwayOnlyWhenBusy

-----------------------------------------------------------------------------
(* The contract with the user.                                             *)

LEMMA SameCardinality == ASSUME NEW S PROVE Contract!Cardinality(S) = Cardinality(S)
  BY DEF Contract!Cardinality, Cardinality

LEMMA AnnouncedAre ==
    ASSUME TypeOK, ControlInv, ListInv
    PROVE  /\ Contract!Announced = sockets
           /\ At \notin Placing => Contract!Cardinality(Contract!Announced) <= MaxClients
  <1>1. Contract!Announced = sockets
    BY DEF Contract!Announced, ListInv
  <1>2. Reached \in Seq(Connections) /\ List(Reached, sockets, last_alive)
    BY ReachedList, ReachedIs DEF ReachedFacts
  <1>3. Cardinality(sockets) = Len(Reached) /\ Len(Reached) \in Nat
    BY <1>2, ListCardinality
  <1>4. At \notin Placing => Len(Reached) <= MaxClients
    BY <1>3 DEF ListInv
  <1> QED
    BY <1>1, <1>3, <1>4, SameCardinality

LEMMA ContractStep ==
    ASSUME IInv, [Next]_vars
    PROVE  [Contract!Next]_<<running, told, handled>>
  <1> USE DEF lifeVars, userVars, peerVars
  <1>1. TypeOK /\ ControlInv /\ ListInv /\ BacklogInv
    BY DEF IInv
  <1>2. CASE Start
    <2>1. At = "main" /\ ~running /\ running' = TRUE /\ UNCHANGED <<told, handled>>
      BY <1>1, <1>2 DEF Start, ControlInv, At
    <2>2. Reached = <<>>
      BY <1>1, <2>1, ReachedIs DEF ReachedFacts, ControlInv, Placing, Receiving
    <2>3. sockets = {}
      BY <1>1, <2>2 DEF ListInv, ToSet
    <2>4. Contract!Start
      BY <1>1, <2>1, <2>3, AnnouncedAre DEF Contract!Start
    <2> QED
      BY <2>4 DEF Contract!Next
  <1>3. CASE Stop
    <2>1. Contract!Stop
      BY <1>3 DEF Stop, Contract!Stop
    <2> QED
      BY <2>1 DEF Contract!Next
  <1>4. CASE Connect
    <2>1. UNCHANGED <<running, told, handled>>
      BY <1>4 DEF Connect
    <2> QED
      BY <2>1
  <1>5. CASE Accept
    <2>1. backlog # <<>> /\ backlog \in Seq(Connections) /\ At = "accept" /\ running
      BY <1>1, <1>5, AtIs DEF Accept, ControlInv, TypeOK
    <2>2. PICK h \in Connections : h = Head(backlog) /\ told[h] = "unknown"
      BY <1>1, <2>1, TailIs DEF BacklogInv
    <2>3. told' = [told EXCEPT ![h] = "connected"] /\ UNCHANGED <<running, handled>>
      BY <1>5, <2>2 DEF Accept
    <2>4. Contract!Cardinality(Contract!Announced) <= MaxClients
      BY <1>1, <2>1, AnnouncedAre DEF Placing, Receiving
    <2>5. Contract!Announce(h)
      BY <2>1, <2>2, <2>3, <2>4 DEF Contract!Announce
    <2> QED
      BY <2>5 DEF Contract!Next
  <1>6. CASE CallRequest
    <2>1. At = "execute" /\ At \in Receiving
      BY <1>6, AtIs DEF CallRequest, Receiving
    <2>2. PICK c \in Connections : c = current /\ told[c] = "connected"
      BY <1>1, <2>1, CurrentIs
    <2>3. running
      BY <1>1, <2>1 DEF ControlInv
    <2>4. handled' = [handled EXCEPT ![c] = @ + 1] /\ UNCHANGED <<running, told>>
      BY <1>6, <2>2 DEF CallRequest
    <2>5. Contract!Cardinality(Contract!Announced) <= MaxClients
      BY <1>1, <2>1, AnnouncedAre DEF Placing, Receiving
    <2>6. Contract!Handle(c)
      BY <2>2, <2>3, <2>4, <2>5 DEF Contract!Handle
    <2> QED
      BY <2>6 DEF Contract!Next
  <1>7. ASSUME NEW c \in sockets, NEW reason \in Reasons, NEW next, TakesBack(c, reason, next)
        PROVE  Contract!Next
    <2>1. c \in Connections /\ told[c] = "connected"
      BY <1>1 DEF ListInv
    <2>2. /\ reason = "ServerStopped" <=> ~running
          /\ told' = [told EXCEPT ![c] = reason] /\ UNCHANGED <<running, handled>>
      BY <1>7 DEF TakesBack, Disconnect
    <2>3. Contract!TakeBack(c, reason)
      BY <2>1, <2>2 DEF Contract!TakeBack
    <2> QED
      BY <2>1, <2>3 DEF Contract!Next
  <1>8. Kinds
    BY <1>1, KindsAre
  <1> QED
    BY <1>2, <1>3, <1>4, <1>5, <1>6, <1>7, <1>8 DEF Kinds

\* start(), stop() and tick() announce, serve and take back connections as ServerContract
\* says, whatever the user does in the callbacks.
THEOREM ContractKept == Spec => ImplementsContract
  <1>1. Init => Contract!Init
    BY DEF Init, Contract!Init
  <1>2. Spec => Contract!Init /\ [][Contract!Next]_<<running, told, handled>>
    BY <1>1, ContractStep, Invariance, PTL DEF Spec
  <1> QED
    BY <1>2, PTL DEF ImplementsContract, Contract!Spec

=============================================================================
