-------------------------- MODULE ClientPoolProofs ----------------------------
(* Proofs about ClientPool, for any number of hosts, slots, shares and     *)
(* calls of acquire(), whether or not the resolver may answer late.  What  *)
(* holds only if it does not is proved in ClientPoolContractProofs.        *)
EXTENDS ClientPool, SequenceTheorems, FiniteSetTheorems, TLAPS

USE HostsAssumption, CountsAssumption, LateAnswersAssumption

-----------------------------------------------------------------------------
(* The inductive invariant.                                                *)

\* What the library has to do before it goes on with "below".
LiesOn(item, below) ==
    \/ /\ item.op = "leave"
       /\ below.op \in {"refuse", "drop", "retire"}
    \/ /\ item.op \in {"tick", "force", "refuse"}
       /\ below.op = "leave"
    \/ /\ item.op \in {"receive", "refuse", "close"}
       /\ below.op = "tick" /\ below.slot = item.slot + 1
    \/ /\ item.op = "accept"
       /\ below.op = "receive" /\ below.slot = item.slot
    \/ /\ item.op = "drop"
       /\ below.op = "refuse" /\ below.slot = item.slot /\ below.place = item.place + 1
    \/ /\ item.op = "retire" /\ item.disconnect
       /\ below.op = "leave" \/ (below.op = "force" /\ below.slot = item.slot)
    \/ /\ item.op = "retire" /\ ~item.disconnect
       /\ below.op \in {"refuse", "close"} /\ below.slot = item.slot

\* The library is entered once: by a call of the user, or by a late answer and by calls
\* of the user in the callbacks of that.
StackInv ==
    /\ stack # <<>> => stack[1].op \in {"leave", "refuse"}
    /\ \A n \in 1..Len(stack) : n > 1 => LiesOn(stack[n], stack[n - 1])
    /\ \A m, n \in 1..Len(stack) : stack[m].op = "leave" /\ stack[n].op = "leave" => m = n
    /\ non_reentrant <=> \E n \in 1..Len(stack) : stack[n].op = "leave"
    /\ \A n \in 1..Len(stack) : stack[n].op = "retire" => stack[n].object # None

\* A client has a host until it is closed, and is closed before it is gone.
LinkInv ==
    \A i \in Slots :
        /\ link[i] = "closed" <=> attempt[i] = None
        /\ client[i] = None => attempt[i] = None
        /\ attempt[i] <= acquired

\* Each accepted acquire() has one share at most.
PlacesInv ==
    /\ \A i \in Slots, k \in Places : shares[i][k] <= acquired
    /\ \A i, j \in Slots : \A k, m \in Places :
           shares[i][k] = shares[j][m] /\ shares[i][k] # None => i = j /\ k = m

\* What was told is what the callbacks that are left say.
Held(a) == \E i \in Slots, k \in Places : shares[i][k] = a

ToldInv ==
    \A a \in Acquires :
        /\ callback[a] = "connect" => Held(a) /\ told[a] = <<>>
        /\ callback[a] = "disconnect" => Held(a) /\ Events(a) = <<"Connected">>
        /\ callback[a] = "none" =>
               IF a <= acquired
               THEN Events(a) \in {<<"Failed">>, <<"Connected", "Closed">>}
               ELSE told[a] = <<>>

\* A slot is revived while its client still has another host: acquire() is about to
\* refuse the share that it has just made.
Refused(i) ==
    \E n \in 2..Len(stack) :
        stack[n - 1].op = "leave" /\ stack[n].op = "refuse" /\ stack[n].slot = i

\* The slots whose clients are for their shares, and not for those of another slot.
HostInv ==
    /\ \A i \in Slots : Live(i) /\ attempt[i] # None /\ ~Refused(i) =>
           /\ \A k \in Used(i) : goal[shares[i][k]] = goal[attempt[i]]
           /\ \A j \in Slots \ {i} :
                  /\ \A k \in Used(j) : goal[shares[j][k]] # goal[attempt[i]]
                  /\ Live(j) /\ attempt[j] # None /\ ~Refused(j)
                         => goal[attempt[j]] # goal[attempt[i]]
    /\ OneSlotPerHost

\* How far acquire() is with refusing that share.
RefusedInv ==
    \A n \in 2..Len(stack) :
        stack[n - 1].op = "leave" /\ stack[n].op = "refuse" =>
            LET i == stack[n].slot
                m == n + 1
            IN  /\ stack[n].object = client[i]
                /\ Used(i) \subseteq {1}
                /\ \/ m > Len(stack) /\ stack[n].place = 1 /\ Used(i) = {1}
                   \/ m > Len(stack) /\ stack[n].place = 2 /\ ~Live(i)
                   \/ m <= Len(stack) /\ stack[n].place = 2 /\ stack[m].op = "drop" /\ Used(i) = {1}
                   \/ m <= Len(stack) /\ stack[n].place = 2 /\ stack[m].op = "retire"
                         /\ stack[m].object = client[i] /\ Used(i) = {}

\* The callbacks that report the end of a connection wait for that.
ConnectedInv ==
    /\ \A i \in Slots : \A k \in Used(i) :
           callback[shares[i][k]] = "disconnect" =>
               \/ link[i] = "connected"
               \/ \E n \in 1..Len(stack) :
                      stack[n].op = "close" /\ stack[n].slot = i /\ stack[n].place <= k
    /\ \A n \in 1..Len(stack) : stack[n].op = "accept" =>
           LET i == stack[n].slot IN
           /\ link[i] = "connected"
           /\ (stack[n].level = "Secondary") <=>
                  \E k \in Used(i) : callback[shares[i][k]] = "disconnect"

IInv == TypeOK /\ StackInv /\ SharesAreCounted /\ LinkInv /\ PlacesInv /\ ToldInv
            /\ HostInv /\ RefusedInv /\ ConnectedInv

-----------------------------------------------------------------------------
(* The least of a set of numbers.                                          *)

LEMMA LeastOf ==
    ASSUME NEW T \in SUBSET Nat, T # {}
    PROVE  \E x \in T : \A y \in T : x <= y
  <1> DEFINE R == {ss \in Nat \X Nat : ss[1] < ss[2]}
  <1>1. IsWellFoundedOn(R, Nat)
    BY NatLessThanWellFounded DEF OpToRel
  <1>2. PICK x \in T : \A y \in T : ~(<<y, x>> \in R)
    <2> HIDE DEF R
    <2> QED
      BY <1>1, WFMin
  <1>3. \A y \in T : ~(y < x)
    BY <1>2
  <1> QED
    BY <1>3

LEMMA TheLeastIs ==
    ASSUME NEW S \in SUBSET Nat, S # {}
    PROVE  TheLeast(S) \in S /\ \A n \in S : TheLeast(S) <= n
  BY LeastOf DEF TheLeast

-----------------------------------------------------------------------------
(* The items of the stack.                                                 *)

Loops == {"accept", "refuse", "close", "force"}

LEMMA ItemTypes ==
    ASSUME NEW item \in Items
    PROVE  /\ item.op \in {"leave", "accept", "refuse", "close", "force", "drop", "retire",
                           "tick", "receive"}
           /\ item.op \in Loops =>
                  /\ item.slot \in Slots
                  /\ item.object \in Objects
                  /\ item.place \in 1..(MaxShares + 1)
                  /\ item.level \in Levels
           /\ item.op = "drop" => item.slot \in Slots /\ item.place \in Places
           /\ item.op = "retire" =>
                  item.slot \in Slots /\ item.object \in Objects /\ item.disconnect \in BOOLEAN
           /\ item.op = "tick" => item.slot \in 1..(MaxSlots + 1)
           /\ item.op = "receive" => item.slot \in Slots
  BY DEF Items, Loops

LEMMA MakeItems ==
    /\ Leave \in Items
    /\ \A i \in Slots : Receive(i) \in Items /\ TickSlot(i) \in Items /\ TickSlot(i + 1) \in Items
    /\ TickSlot(1) \in Items
    /\ \A i \in Slots, k \in Places : Drop(i, k) \in Items
    /\ client \in [Slots -> Objects] =>
           \A i \in Slots :
               /\ \A op \in Loops, k \in Places, level \in Levels : Loop(op, i, k, level) \in Items
               /\ \A disconnect \in BOOLEAN : Retire(i, disconnect) \in Items
  <1>1. Leave \in Items
    BY DEF Leave, Items
  <1>2. \A i \in Slots : Receive(i) \in Items
    BY DEF Receive, Items
  <1>3. ASSUME NEW i \in 1..(MaxSlots + 1) PROVE TickSlot(i) \in Items
    BY DEF TickSlot, Items
  <1>4. ASSUME NEW i \in Slots PROVE i \in 1..(MaxSlots + 1) /\ i + 1 \in 1..(MaxSlots + 1)
    BY DEF Slots
  <1>5. 1 \in 1..(MaxSlots + 1)
    OBVIOUS
  <1>6. \A i \in Slots, k \in Places : Drop(i, k) \in Items
    BY DEF Drop, Items
  <1>7. ASSUME client \in [Slots -> Objects], NEW i \in Slots, NEW op \in Loops,
               NEW k \in Places, NEW level \in Levels
        PROVE  Loop(op, i, k, level) \in Items
    <2>1. client[i] \in Objects /\ k \in 1..(MaxShares + 1)
      BY <1>7 DEF Places
    <2> QED
      BY <2>1 DEF Loop, Items, Loops
  <1>8. ASSUME client \in [Slots -> Objects], NEW i \in Slots, NEW disconnect \in BOOLEAN
        PROVE  Retire(i, disconnect) \in Items
    <2>1. client[i] \in Objects
      BY <1>8
    <2> QED
      BY <2>1 DEF Retire, Items
  <1> QED
    BY <1>1, <1>2, <1>3, <1>4, <1>5, <1>6, <1>7, <1>8

\* The stack keeps its lowest b items and gets new ones.
Becomes(b, items) ==
    /\ b \in 0..Len(stack)
    /\ items \in Seq(Items)
    /\ stack' \in Seq(Items)
    /\ Len(stack') = b + Len(items)
    /\ \A n \in 1..b : stack'[n] = stack[n]
    /\ \A n \in 1..Len(items) : stack'[b + n] = items[n]

LEMMA OnAll ==
    ASSUME stack \in Seq(Items), NEW items \in Seq(Items), stack' = stack \o items
    PROVE  Becomes(Len(stack), items)
  BY DEF Becomes

LEMMA TopType ==
    ASSUME stack \in Seq(Items), stack # <<>>
    PROVE  /\ Len(stack) \in Nat \ {0}
           /\ Top = stack[Len(stack)]
           /\ Top \in Items
           /\ Rest \in Seq(Items)
           /\ Len(Rest) = Len(stack) - 1
           /\ \A n \in 1..(Len(stack) - 1) : Rest[n] = stack[n]
  BY DEF Top, Rest, Last, Front

LEMMA OnRest ==
    ASSUME stack \in Seq(Items), stack # <<>>, NEW items \in Seq(Items), stack' = Rest \o items
    PROVE  Becomes(Len(stack) - 1, items)
  BY TopType DEF Becomes

LEMMA Popped ==
    ASSUME stack \in Seq(Items), stack # <<>>, stack' = Rest
    PROVE  Becomes(Len(stack) - 1, <<>>)
  BY TopType DEF Becomes

LEMMA Kept ==
    ASSUME stack \in Seq(Items), stack' = stack
    PROVE  Becomes(Len(stack), <<>>)
  BY DEF Becomes

LEMMA AppendIsPlus ==
    ASSUME NEW s \in Seq(Items), NEW x \in Items
    PROVE  Append(s, x) = s \o <<x>> /\ <<x>> \in Seq(Items)
  OBVIOUS

LEMMA AppendTwo ==
    ASSUME NEW s \in Seq(Items), NEW x \in Items, NEW y \in Items
    PROVE  /\ Append(Append(s, x), y) = s \o <<x, y>>
           /\ Append(s \o <<x>>, y) = s \o <<x, y>>
           /\ <<x, y>> \in Seq(Items)
  OBVIOUS

LEMMA AppendThree ==
    ASSUME NEW s \in Seq(Items), NEW x \in Items, NEW y \in Items, NEW z \in Items
    PROVE  /\ Append(s \o <<x, y>>, z) = s \o <<x, y, z>>
           /\ <<x, y, z>> \in Seq(Items)
  OBVIOUS

LEMMA NextPlaceType ==
    ASSUME Top \in Items, Top.op \in Loops, NEW k \in Places
    PROVE  /\ NextPlace(k) \in Items
           /\ NextPlace(k).op = Top.op
           /\ NextPlace(k).slot = Top.slot
           /\ NextPlace(k).object = Top.object
           /\ NextPlace(k).place = k + 1
           /\ NextPlace(k).level = "Secondary"
  <1>1. Top.slot \in Slots /\ Top.object \in Objects
    BY ItemTypes
  <1>2. PICK op \in Loops, i \in Slots, o \in Objects, p \in 1..(MaxShares + 1), l \in Levels :
            Top = [op |-> op, slot |-> i, object |-> o, place |-> p, level |-> l]
    BY DEF Items, Loops
  <1>3. /\ NextPlace(k).op = Top.op
        /\ NextPlace(k).slot = Top.slot
        /\ NextPlace(k).object = Top.object
        /\ NextPlace(k).place = k + 1
        /\ NextPlace(k).level = "Secondary"
    BY <1>2 DEF NextPlace
  <1>4. k + 1 \in 1..(MaxShares + 1)
    BY DEF Places
  <1>5. NextPlace(k) \in [op : Loops, slot : Slots, object : Objects,
                         place : 1..(MaxShares + 1), level : Levels]
    BY <1>2, <1>4 DEF NextPlace, Levels
  <1> QED
    BY <1>3, <1>5 DEF Items, Loops

-----------------------------------------------------------------------------
(* What each action does to the stack.                                     *)

\* The parts of the type invariant that everything below needs.
LEMMA StackTypes ==
    ASSUME TypeOK
    PROVE  /\ stack \in Seq(Items)
           /\ Len(stack) \in Nat
           /\ client \in [Slots -> Objects]
           /\ pc = "library" => stack # <<>> /\ Top \in Items /\ Top = stack[Len(stack)]
  <1>1. stack \in Seq(Items)
    BY DEF TypeOK
  <1>2. client \in [Slots -> Objects]
    BY DEF TypeOK
  <1>3. pc = "library" => stack # <<>>
    BY DEF TypeOK
  <1> QED
    BY <1>1, <1>2, <1>3, TopType

LEMMA LoopItem ==
    ASSUME TypeOK, NEW i, NEW k, NEW ops \in SUBSET Loops, LoopAt(ops, i, k)
    PROVE  /\ pc = "library" /\ stack # <<>>
           /\ Top \in Items
           /\ Top = stack[Len(stack)]
           /\ Top.op \in ops
           /\ Top.slot = i /\ i \in Slots
           /\ k \in Used(i) /\ k >= Top.place
           /\ \A m \in Used(i) : m >= Top.place => k <= m
           /\ client[i] = Top.object
  <1>1. pc = "library" /\ Top.op \in ops /\ i = Top.slot /\ ~IsGone(Top) /\ Ahead # {}
        /\ k = TheLeast(Ahead)
    BY DEF LoopAt, Looping
  <1>2. stack # <<>> /\ Top \in Items /\ Top = stack[Len(stack)]
    BY <1>1, StackTypes
  <1>3. i \in Slots /\ Top.place \in Nat
    BY <1>1, <1>2, ItemTypes
  <1>4. k \in Ahead /\ \A m \in Ahead : k <= m
    <2>1. Ahead \in SUBSET Nat
      BY DEF Ahead, Used, Places
    <2> QED
      BY <1>1, <2>1, TheLeastIs
  <1> QED
    BY <1>1, <1>2, <1>3, <1>4 DEF Ahead, IsGone

LEMMA StackStep ==
    ASSUME TypeOK, StackInv, NEW b, NEW items, Becomes(b, items),
           items # <<>> => IF b = 0 THEN items[1].op \in {"leave", "refuse"}
                                    ELSE LiesOn(items[1], stack[b]),
           \A n \in 1..Len(items) : n > 1 => LiesOn(items[n], items[n - 1]),
           \A n \in 1..Len(items) :
               /\ items[n].op = "leave" => n = 1 /\ \A m \in 1..b : stack[m].op # "leave"
               /\ items[n].op = "retire" => items[n].object # None,
           non_reentrant' <=> \/ \E m \in 1..b : stack[m].op = "leave"
                              \/ \E n \in 1..Len(items) : items[n].op = "leave"
    PROVE  StackInv'
  <1>1. stack \in Seq(Items) /\ Len(stack) \in Nat /\ Len(items) \in Nat
    BY StackTypes DEF Becomes
  <1>2. PICK len \in Nat, k \in Nat : len = Len(stack) /\ k = Len(items)
    BY <1>1
  <1>3. /\ b \in 0..len
        /\ Len(stack') = b + k
        /\ \A n \in 1..b : stack'[n] = stack[n]
        /\ \A n \in 1..k : stack'[b + n] = items[n]
    BY <1>2 DEF Becomes
  <1>4. \A n \in 1..(b + k) : n <= b \/ (n - b \in 1..k /\ stack'[n] = items[n - b])
    <2> TAKE n \in 1..(b + k)
    <2> SUFFICES ASSUME n > b PROVE n - b \in 1..k /\ stack'[n] = items[n - b]
      BY <1>3
    <2>1. n - b \in 1..k /\ b + (n - b) = n
      BY <1>3
    <2> QED
      BY <1>3, <2>1
  <1>5. ASSUME stack' # <<>> PROVE stack'[1].op \in {"leave", "refuse"}
    <2>1. b + k > 0
      <3>1. stack' \in Seq(Items)
        BY DEF Becomes
      <3> QED
        BY <1>3, <1>5, <3>1
    <2>2. CASE b = 0
      <3>1. stack'[1] = items[1] /\ items # <<>>
        BY <1>2, <1>4, <2>1, <2>2
      <3> QED
        BY <2>2, <3>1
    <2>3. CASE b > 0
      <3>1. stack'[1] = stack[1] /\ stack # <<>>
        BY <1>1, <1>2, <1>3, <2>3
      <3> QED
        BY <3>1 DEF StackInv
    <2> QED
      BY <1>3, <2>2, <2>3
  <1>6. ASSUME NEW n \in 1..(b + k), n > 1 PROVE LiesOn(stack'[n], stack'[n - 1])
    <2>1. CASE n <= b
      <3>1. n \in 1..b /\ n - 1 \in 1..b /\ n \in 1..len
        BY <1>2, <1>3, <1>6, <2>1
      <3>2. stack'[n] = stack[n] /\ stack'[n - 1] = stack[n - 1]
        BY <1>3, <3>1
      <3> QED
        BY <1>2, <1>6, <3>1, <3>2 DEF StackInv
    <2>2. CASE n = b + 1
      <3>1. stack'[n] = items[1] /\ stack'[n - 1] = stack[b] /\ b # 0 /\ items # <<>>
        BY <1>2, <1>3, <1>4, <1>6, <2>2
      <3> QED
        BY <3>1
    <2>3. CASE n > b + 1
      <3>1. /\ stack'[n] = items[n - b] /\ stack'[n - 1] = items[(n - b) - 1]
            /\ n - b \in 1..k /\ n - b > 1
        <4>1. (n - 1) - b = (n - b) - 1 /\ n - 1 \in 1..(b + k)
          BY <1>3, <1>6, <2>3
        <4> QED
          BY <1>3, <1>4, <1>6, <2>3, <4>1
      <3> QED
        BY <1>2, <3>1
    <2> QED
      BY <1>3, <2>1, <2>2, <2>3
  <1>7. ASSUME NEW m \in 1..(b + k), NEW n \in 1..(b + k),
               stack'[m].op = "leave", stack'[n].op = "leave"
        PROVE  m = n
    <2>1. CASE m <= b /\ n <= b
      <3>1. m \in 1..len /\ n \in 1..len /\ stack'[m] = stack[m] /\ stack'[n] = stack[n]
        BY <1>2, <1>3, <1>7, <2>1
      <3> QED
        BY <1>2, <1>7, <3>1 DEF StackInv
    <2>2. CASE m > b /\ n > b
      <3>1. /\ m - b \in 1..Len(items) /\ items[m - b].op = "leave"
            /\ n - b \in 1..Len(items) /\ items[n - b].op = "leave"
        BY <1>2, <1>3, <1>4, <1>7, <2>2
      <3>2. m - b = 1 /\ n - b = 1
        BY <3>1
      <3> QED
        BY <1>3, <3>2
    <2>3. CASE m <= b /\ n > b
      <3>1. n - b \in 1..Len(items) /\ items[n - b].op = "leave" /\ stack[m].op = "leave" /\ m \in 1..b
        BY <1>2, <1>3, <1>4, <1>7, <2>3
      <3> QED
        BY <3>1
    <2>4. CASE m > b /\ n <= b
      <3>1. m - b \in 1..Len(items) /\ items[m - b].op = "leave" /\ stack[n].op = "leave" /\ n \in 1..b
        BY <1>2, <1>3, <1>4, <1>7, <2>4
      <3> QED
        BY <3>1
    <2> QED
      BY <1>3, <2>1, <2>2, <2>3, <2>4
  <1>8. non_reentrant' <=> \E n \in 1..(b + k) : stack'[n].op = "leave"
    <2>1. ASSUME NEW m \in 1..b PROVE m \in 1..(b + k) /\ stack'[m] = stack[m]
      BY <1>3
    <2>2. ASSUME NEW n \in 1..k PROVE b + n \in 1..(b + k) /\ stack'[b + n] = items[n]
      BY <1>3
    <2>3. ASSUME NEW n \in 1..(b + k), stack'[n].op = "leave"
          PROVE  \/ \E m \in 1..b : stack[m].op = "leave"
                 \/ \E m \in 1..k : items[m].op = "leave"
      <3>1. CASE n <= b
        <4>1. n \in 1..b /\ stack'[n] = stack[n]
          BY <1>3, <3>1
        <4> QED
          BY <2>3, <4>1
      <3>2. CASE n > b
        <4>1. n - b \in 1..k /\ items[n - b] = stack'[n]
          BY <1>3, <1>4, <3>2
        <4> QED
          BY <2>3, <4>1
      <3> QED
        BY <1>3, <3>1, <3>2
    <2> QED
      BY <1>2, <2>1, <2>2, <2>3
  <1>9. ASSUME NEW n \in 1..(b + k), stack'[n].op = "retire" PROVE stack'[n].object # None
    <2>1. CASE n <= b
      BY <1>2, <1>3, <1>9, <2>1 DEF StackInv
    <2>2. CASE n > b
      BY <1>2, <1>3, <1>4, <1>9, <2>2
    <2> QED
      BY <1>3, <2>1, <2>2
  <1> QED
    BY <1>3, <1>5, <1>6, <1>7, <1>8, <1>9 DEF StackInv

LEMMA TopLies ==
    ASSUME TypeOK, StackInv, stack # <<>>
    PROVE  /\ Len(stack) > 1 => LiesOn(Top, stack[Len(stack) - 1])
           /\ Top.op \notin {"leave", "refuse"} => Len(stack) > 1 /\ Len(stack) # 1
           /\ Top.op = "retire" => Top.object # None
  <1>1. Len(stack) \in Nat \ {0} /\ Top = stack[Len(stack)]
    BY StackTypes, TopType
  <1> QED
    BY <1>1 DEF StackInv

\* Where no scope was entered yet, the library has only to refuse shares.
LEMMA Unguarded ==
    ASSUME TypeOK, StackInv, ~non_reentrant, stack # <<>>
    PROVE  /\ stack[Len(stack)].op \in {"refuse", "drop", "retire"}
           /\ \A n \in 1..Len(stack) : stack[n].op # "leave"
  <1>1. PICK len \in Nat \ {0} : len = Len(stack)
    BY StackTypes, TopType
  <1>2. \A n \in 1..len : stack[n].op # "leave"
    BY <1>1 DEF StackInv
  <1>3. stack[1].op = "refuse"
    BY <1>1, <1>2 DEF StackInv
  <1>4. CASE len = 1
    BY <1>1, <1>2, <1>3, <1>4
  <1>5. CASE len > 1
    <2>1. LiesOn(stack[2], stack[1]) /\ stack[2].op # "leave"
      BY <1>1, <1>2, <1>5 DEF StackInv
    <2>2. stack[2].op \in {"drop", "retire"}
      BY <1>3, <2>1 DEF LiesOn
    <2>3. CASE len = 2
      BY <1>1, <1>2, <2>2, <2>3
    <2>4. CASE len > 2
      <3>1. LiesOn(stack[3], stack[2]) /\ stack[3].op # "leave"
        <4>1. 3 \in 1..len /\ 3 - 1 = 2
          BY <2>4
        <4> QED
          BY <1>1, <1>2, <4>1 DEF StackInv
      <3> QED
        BY <2>2, <3>1 DEF LiesOn
    <2> QED
      BY <1>1, <1>5, <2>3, <2>4
  <1> QED
    BY <1>1, <1>2, <1>4, <1>5

LEMMA PopStep ==
    ASSUME TypeOK, StackInv, stack # <<>>, stack' = Rest,
           non_reentrant' <=> non_reentrant /\ Top.op # "leave"
    PROVE  Becomes(Len(stack) - 1, <<>>) /\ StackInv'
  <1>1. stack \in Seq(Items)
    BY StackTypes
  <1>2. PICK len \in Nat \ {0} : len = Len(stack)
    BY <1>1, TopType
  <1>3. Top = stack[len]
    BY <1>1, <1>2, TopType
  <1>4. Becomes(len - 1, <<>>)
    BY <1>1, <1>2, Popped
  <1>5. non_reentrant' <=> \E m \in 1..(len - 1) : stack[m].op = "leave"
    <2>1. non_reentrant <=> \E n \in 1..len : stack[n].op = "leave"
      BY <1>2 DEF StackInv
    <2>2. \A m, n \in 1..len : stack[m].op = "leave" /\ stack[n].op = "leave" => m = n
      BY <1>2 DEF StackInv
    <2>3. \A n \in 1..len : n = len \/ n \in 1..(len - 1)
      OBVIOUS
    <2>4. \A n \in 1..(len - 1) : n \in 1..len /\ n # len
      OBVIOUS
    <2>5. len \in 1..len
      OBVIOUS
    <2> QED
      BY <1>3, <2>1, <2>2, <2>3, <2>4, <2>5
  <1>6. Len(<<>>) = 0
    OBVIOUS
  <1>7. StackInv'
    BY <1>4, <1>5, <1>6, StackStep
  <1> QED
    BY <1>2, <1>4, <1>7

LEMMA ReplaceStep ==
    ASSUME TypeOK, StackInv, stack # <<>>, Top.op # "leave",
           NEW items \in Seq(Items), items # <<>>, stack' = Rest \o items,
           Len(stack) = 1 => items[1].op = "refuse",
           Len(stack) > 1 => LiesOn(items[1], stack[Len(stack) - 1]),
           \A n \in 1..Len(items) : n > 1 => LiesOn(items[n], items[n - 1]),
           \A n \in 1..Len(items) :
               items[n].op # "leave" /\ (items[n].op = "retire" => items[n].object # None),
           non_reentrant' = non_reentrant
    PROVE  Becomes(Len(stack) - 1, items) /\ StackInv'
  <1>1. stack \in Seq(Items)
    BY StackTypes
  <1>2. PICK len \in Nat \ {0} : len = Len(stack)
    BY <1>1, TopType
  <1>3. Top = stack[len]
    BY <1>1, <1>2, TopType
  <1>4. Becomes(len - 1, items)
    BY <1>1, <1>2, OnRest
  <1>5. non_reentrant' <=> \E m \in 1..(len - 1) : stack[m].op = "leave"
    <2>1. non_reentrant <=> \E n \in 1..len : stack[n].op = "leave"
      BY <1>2 DEF StackInv
    <2>3. \A n \in 1..len : n = len \/ n \in 1..(len - 1)
      OBVIOUS
    <2>4. \A n \in 1..(len - 1) : n \in 1..len
      OBVIOUS
    <2> QED
      BY <1>3, <2>1, <2>3, <2>4
  <1>6. IF len - 1 = 0 THEN items[1].op \in {"leave", "refuse"} ELSE LiesOn(items[1], stack[len - 1])
    BY <1>2
  <1>7. StackInv'
    BY <1>4, <1>5, <1>6, StackStep
  <1> QED
    BY <1>2, <1>4, <1>7

LEMMA PushStep ==
    ASSUME TypeOK, StackInv, ~non_reentrant,
           NEW items \in Seq(Items), items # <<>>, stack' = stack \o items,
           items[1] = Leave,
           \A n \in 1..Len(items) : n > 1 => LiesOn(items[n], items[n - 1]),
           \A n \in 1..Len(items) : n > 1 =>
               items[n].op # "leave" /\ (items[n].op = "retire" => items[n].object # None),
           non_reentrant'
    PROVE  Becomes(Len(stack), items) /\ StackInv'
  <1>1. stack \in Seq(Items)
    BY StackTypes
  <1>2. PICK len \in Nat : len = Len(stack)
    BY <1>1
  <1>3. Becomes(len, items)
    BY <1>1, <1>2, OnAll
  <1>4. Leave.op = "leave"
    BY DEF Leave
  <1>5. \A n \in 1..len : stack[n].op # "leave"
    BY <1>2 DEF StackInv
  <1>6. IF len = 0 THEN items[1].op \in {"leave", "refuse"} ELSE LiesOn(items[1], stack[len])
    <2>1. CASE len = 0
      BY <1>4, <2>1
    <2>2. CASE len # 0
      <3>1. stack # <<>>
        BY <1>1, <1>2, <2>2
      <3>2. stack[len].op \in {"refuse", "drop", "retire"}
        BY <1>2, <3>1, Unguarded
      <3> QED
        BY <1>4, <2>2, <3>2 DEF LiesOn
    <2> QED
      BY <2>1, <2>2
  <1>7. 1 \in 1..Len(items)
    BY <1>1
  <1>8. \A n \in 1..Len(items) :
            /\ items[n].op = "leave" => n = 1 /\ \A m \in 1..len : stack[m].op # "leave"
            /\ items[n].op = "retire" => items[n].object # None
    <2> TAKE n \in 1..Len(items)
    <2>1. CASE n = 1
      BY <1>4, <1>5, <2>1
    <2>2. CASE n > 1
      BY <2>2
    <2> QED
      BY <2>1, <2>2
  <1>9. StackInv'
    BY <1>3, <1>4, <1>6, <1>7, <1>8, StackStep
  <1> QED
    BY <1>2, <1>3, <1>9

LEMMA KeepStep ==
    ASSUME TypeOK, StackInv, UNCHANGED <<stack, non_reentrant>>
    PROVE  Becomes(Len(stack), <<>>) /\ StackInv'
  <1>1. Becomes(Len(stack), <<>>)
    BY StackTypes, Kept
  <1>2. StackInv'
    BY DEF StackInv
  <1> QED
    BY <1>1, <1>2

LEMMA ReplaceOne ==
    ASSUME TypeOK, StackInv, stack # <<>>, Top.op # "leave", non_reentrant' = non_reentrant,
           NEW x \in Items, stack' = Append(Rest, x),
           Len(stack) = 1 => x.op = "refuse",
           Len(stack) > 1 => LiesOn(x, stack[Len(stack) - 1]),
           x.op # "leave" /\ (x.op = "retire" => x.object # None)
    PROVE  Becomes(Len(stack) - 1, <<x>>) /\ StackInv'
  <1> DEFINE items == <<x>>
  <1>1. Rest \in Seq(Items)
    BY StackTypes, TopType
  <1>2. items \in Seq(Items) /\ stack' = Rest \o items
    BY <1>1, AppendIsPlus
  <1>3. items # <<>> /\ Len(items) = 1 /\ items[1] = x
    OBVIOUS
  <1> HIDE DEF items
  <1>4. \A n \in 1..Len(items) : n > 1 => LiesOn(items[n], items[n - 1])
    BY <1>3
  <1>5. \A n \in 1..Len(items) :
            items[n].op # "leave" /\ (items[n].op = "retire" => items[n].object # None)
    <2> TAKE n \in 1..Len(items)
    <2>1. n = 1
      BY <1>3
    <2> QED
      BY <1>3, <2>1
  <1>6. Becomes(Len(stack) - 1, items) /\ StackInv'
    BY <1>2, <1>3, <1>4, <1>5, ReplaceStep
  <1> QED
    BY <1>6 DEF items

LEMMA ReplaceTwo ==
    ASSUME TypeOK, StackInv, stack # <<>>, Top.op # "leave", non_reentrant' = non_reentrant,
           NEW x \in Items, NEW y \in Items, stack' = Rest \o <<x, y>>,
           Len(stack) = 1 => x.op = "refuse",
           Len(stack) > 1 => LiesOn(x, stack[Len(stack) - 1]),
           LiesOn(y, x),
           x.op # "leave" /\ (x.op = "retire" => x.object # None),
           y.op # "leave" /\ (y.op = "retire" => y.object # None)
    PROVE  Becomes(Len(stack) - 1, <<x, y>>) /\ StackInv'
  <1> DEFINE items == <<x, y>>
  <1>1. Rest \in Seq(Items)
    BY StackTypes, TopType
  <1>2. items \in Seq(Items) /\ stack' = Rest \o items
    BY <1>1
  <1>3. items # <<>> /\ Len(items) = 2 /\ items[1] = x /\ items[2] = y
    OBVIOUS
  <1> HIDE DEF items
  <1>4. \A n \in 1..Len(items) : n > 1 => LiesOn(items[n], items[n - 1])
    <2> TAKE n \in 1..Len(items)
    <2>1. n = 1 \/ n = 2
      BY <1>3
    <2> QED
      BY <1>3, <2>1
  <1>5. \A n \in 1..Len(items) :
            items[n].op # "leave" /\ (items[n].op = "retire" => items[n].object # None)
    <2> TAKE n \in 1..Len(items)
    <2>1. n = 1 \/ n = 2
      BY <1>3
    <2> QED
      BY <1>3, <2>1
  <1>6. Becomes(Len(stack) - 1, items) /\ StackInv'
    BY <1>2, <1>3, <1>4, <1>5, ReplaceStep
  <1> QED
    BY <1>6 DEF items

LEMMA ReplaceThree ==
    ASSUME TypeOK, StackInv, stack # <<>>, Top.op # "leave", non_reentrant' = non_reentrant,
           NEW x \in Items, NEW y \in Items, NEW z \in Items, stack' = Rest \o <<x, y, z>>,
           Len(stack) = 1 => x.op = "refuse",
           Len(stack) > 1 => LiesOn(x, stack[Len(stack) - 1]),
           LiesOn(y, x),
           LiesOn(z, y),
           x.op # "leave" /\ (x.op = "retire" => x.object # None),
           y.op # "leave" /\ (y.op = "retire" => y.object # None),
           z.op # "leave" /\ (z.op = "retire" => z.object # None)
    PROVE  Becomes(Len(stack) - 1, <<x, y, z>>) /\ StackInv'
  <1> DEFINE items == <<x, y, z>>
  <1>1. Rest \in Seq(Items)
    BY StackTypes, TopType
  <1>2. items \in Seq(Items) /\ stack' = Rest \o items
    BY <1>1
  <1>3. items # <<>> /\ Len(items) = 3 /\ items[1] = x /\ items[2] = y /\ items[3] = z
    OBVIOUS
  <1> HIDE DEF items
  <1>4. \A n \in 1..Len(items) : n > 1 => LiesOn(items[n], items[n - 1])
    <2> TAKE n \in 1..Len(items)
    <2>1. n = 1 \/ n = 2 \/ n = 3
      BY <1>3
    <2> QED
      BY <1>3, <2>1
  <1>5. \A n \in 1..Len(items) :
            items[n].op # "leave" /\ (items[n].op = "retire" => items[n].object # None)
    <2> TAKE n \in 1..Len(items)
    <2>1. n = 1 \/ n = 2 \/ n = 3
      BY <1>3
    <2> QED
      BY <1>3, <2>1
  <1>6. Becomes(Len(stack) - 1, items) /\ StackInv'
    BY <1>2, <1>3, <1>4, <1>5, ReplaceStep
  <1> QED
    BY <1>6 DEF items

LEMMA PushOne ==
    ASSUME TypeOK, StackInv, ~non_reentrant, non_reentrant',
           stack' = Append(stack, Leave)
    PROVE  Becomes(Len(stack), <<Leave>>) /\ StackInv'
  <1> DEFINE items == <<Leave>>
  <1>1. stack \in Seq(Items) /\ Leave \in Items
    BY StackTypes, MakeItems
  <1>2. items \in Seq(Items) /\ stack' = stack \o items
    BY <1>1, AppendIsPlus
  <1>3. items # <<>> /\ Len(items) = 1 /\ items[1] = Leave
    OBVIOUS
  <1> HIDE DEF items
  <1>4. \A n \in 1..Len(items) : n > 1 => LiesOn(items[n], items[n - 1])
    BY <1>3
  <1>5. \A n \in 1..Len(items) : n > 1 =>
            items[n].op # "leave" /\ (items[n].op = "retire" => items[n].object # None)
    BY <1>3
  <1>6. Becomes(Len(stack), items) /\ StackInv'
    BY <1>2, <1>3, <1>4, <1>5, PushStep
  <1> QED
    BY <1>6 DEF items

LEMMA PushTwo ==
    ASSUME TypeOK, StackInv, ~non_reentrant, non_reentrant',
           NEW x \in Items, stack' = stack \o <<Leave, x>>,
           LiesOn(x, Leave),
           x.op # "leave" /\ (x.op = "retire" => x.object # None)
    PROVE  Becomes(Len(stack), <<Leave, x>>) /\ StackInv'
  <1> DEFINE items == <<Leave, x>>
  <1>1. stack \in Seq(Items) /\ Leave \in Items
    BY StackTypes, MakeItems
  <1>2. items \in Seq(Items) /\ stack' = stack \o items
    BY <1>1
  <1>3. items # <<>> /\ Len(items) = 2 /\ items[1] = Leave /\ items[2] = x
    OBVIOUS
  <1> HIDE DEF items
  <1>4. \A n \in 1..Len(items) : n > 1 => LiesOn(items[n], items[n - 1])
    <2> TAKE n \in 1..Len(items)
    <2>1. n = 1 \/ n = 2
      BY <1>3
    <2> QED
      BY <1>3, <2>1
  <1>5. \A n \in 1..Len(items) : n > 1 =>
            items[n].op # "leave" /\ (items[n].op = "retire" => items[n].object # None)
    <2> TAKE n \in 1..Len(items)
    <2>1. n = 1 \/ n = 2
      BY <1>3
    <2> QED
      BY <1>3, <2>1
  <1>6. Becomes(Len(stack), items) /\ StackInv'
    BY <1>2, <1>3, <1>4, <1>5, PushStep
  <1> QED
    BY <1>6 DEF items

LEMMA PushThree ==
    ASSUME TypeOK, StackInv, ~non_reentrant, non_reentrant',
           NEW x \in Items, NEW y \in Items, stack' = stack \o <<Leave, x, y>>,
           LiesOn(x, Leave),
           LiesOn(y, x),
           x.op # "leave" /\ (x.op = "retire" => x.object # None),
           y.op # "leave" /\ (y.op = "retire" => y.object # None)
    PROVE  Becomes(Len(stack), <<Leave, x, y>>) /\ StackInv'
  <1> DEFINE items == <<Leave, x, y>>
  <1>1. stack \in Seq(Items) /\ Leave \in Items
    BY StackTypes, MakeItems
  <1>2. items \in Seq(Items) /\ stack' = stack \o items
    BY <1>1
  <1>3. items # <<>> /\ Len(items) = 3 /\ items[1] = Leave /\ items[2] = x /\ items[3] = y
    OBVIOUS
  <1> HIDE DEF items
  <1>4. \A n \in 1..Len(items) : n > 1 => LiesOn(items[n], items[n - 1])
    <2> TAKE n \in 1..Len(items)
    <2>1. n = 1 \/ n = 2 \/ n = 3
      BY <1>3
    <2> QED
      BY <1>3, <2>1
  <1>5. \A n \in 1..Len(items) : n > 1 =>
            items[n].op # "leave" /\ (items[n].op = "retire" => items[n].object # None)
    <2> TAKE n \in 1..Len(items)
    <2>1. n = 1 \/ n = 2 \/ n = 3
      BY <1>3
    <2> QED
      BY <1>3, <2>1
  <1>6. Becomes(Len(stack), items) /\ StackInv'
    BY <1>2, <1>3, <1>4, <1>5, PushStep
  <1> QED
    BY <1>6 DEF items

-----------------------------------------------------------------------------
(* The stack after each action.                                            *)

LEMMA TellConnectedStack ==
    ASSUME TypeOK, StackInv, NEW i \in Slots, NEW k \in Places, TellConnected(i, k)
    PROVE  Becomes(Len(stack) - 1, <<NextPlace(k)>>) /\ StackInv'
  <1>1. LoopAt({"accept"}, i, k) /\ stack' = Append(Rest, NextPlace(k))
        /\ non_reentrant' = non_reentrant
    BY DEF TellConnected
  <1>2. stack # <<>> /\ Top \in Items /\ Top.op = "accept"
    BY <1>1, LoopItem DEF Loops
  <1>3. NextPlace(k) \in Items /\ NextPlace(k).op = Top.op /\ NextPlace(k).slot = Top.slot
    BY <1>2, NextPlaceType DEF Loops
  <1>4. Len(stack) > 1 /\ Len(stack) # 1 /\ LiesOn(Top, stack[Len(stack) - 1])
    BY <1>2, TopLies
  <1>5. LiesOn(NextPlace(k), stack[Len(stack) - 1])
    BY <1>2, <1>3, <1>4 DEF LiesOn
  <1>6. Len(stack) # 1 /\ Top.op # "leave" /\ NextPlace(k).op # "leave"
        /\ NextPlace(k).op # "retire"
    BY <1>2, <1>3, <1>4
  <1> QED
    BY <1>1, <1>2, <1>3, <1>5, <1>6, ReplaceOne

LEMMA TellFailedStack ==
    ASSUME TypeOK, StackInv, NEW i \in Slots, NEW k \in Places, TellFailed(i, k)
    PROVE  Becomes(Len(stack) - 1, <<NextPlace(k), Drop(i, k)>>) /\ StackInv'
  <1>1. LoopAt({"refuse"}, i, k) /\ stack' = Rest \o <<NextPlace(k), Drop(i, k)>>
        /\ non_reentrant' = non_reentrant
    BY DEF TellFailed
  <1>2. stack # <<>> /\ Top \in Items /\ Top.op = "refuse" /\ Top.slot = i
    BY <1>1, LoopItem DEF Loops
  <1>3. /\ NextPlace(k) \in Items /\ NextPlace(k).op = Top.op /\ NextPlace(k).slot = Top.slot
        /\ NextPlace(k).place = k + 1
    BY <1>2, NextPlaceType DEF Loops
  <1>4. Len(stack) > 1 => LiesOn(Top, stack[Len(stack) - 1])
    BY <1>2, TopLies
  <1>5. Len(stack) > 1 => LiesOn(NextPlace(k), stack[Len(stack) - 1])
    BY <1>2, <1>3, <1>4 DEF LiesOn
  <1>6. Drop(i, k) \in Items
    BY MakeItems
  <1>7. Drop(i, k).op = "drop" /\ Drop(i, k).slot = i /\ Drop(i, k).place = k
    BY DEF Drop
  <1>8. LiesOn(Drop(i, k), NextPlace(k))
    BY <1>2, <1>3, <1>7 DEF LiesOn
  <1> QED
    BY <1>1, <1>2, <1>3, <1>5, <1>6, <1>7, <1>8, ReplaceTwo

LEMMA TellClosedStack ==
    ASSUME TypeOK, StackInv, SharesAreCounted,
           NEW i \in Slots, NEW k \in Places, TellClosed(i, k)
    PROVE  /\ Becomes(Len(stack) - 1, <<NextPlace(k), Retire(i, Top.op = "force")>>)
           /\ StackInv'
  <1>1. LoopAt({"close", "force"}, i, k)
        /\ stack' = Append(Append(Rest, NextPlace(k)), Retire(i, Top.op = "force"))
        /\ non_reentrant' = non_reentrant
    BY DEF TellClosed, ReleaseShare
  <1>2. stack # <<>> /\ Top \in Items /\ Top.op \in {"close", "force"} /\ Top.slot = i
        /\ k \in Used(i)
    BY <1>1, LoopItem DEF Loops
  <1>3. /\ NextPlace(k) \in Items /\ NextPlace(k).op = Top.op /\ NextPlace(k).slot = Top.slot
    BY <1>2, NextPlaceType DEF Loops
  <1>4. Len(stack) > 1 /\ Len(stack) # 1 /\ LiesOn(Top, stack[Len(stack) - 1])
    BY <1>2, TopLies
  <1>5. LiesOn(NextPlace(k), stack[Len(stack) - 1])
    BY <1>2, <1>3, <1>4 DEF LiesOn
  <1>6. Retire(i, Top.op = "force") \in Items
    BY StackTypes, MakeItems
  <1>7. /\ Retire(i, Top.op = "force").op = "retire" /\ Retire(i, Top.op = "force").slot = i
        /\ Retire(i, Top.op = "force").disconnect <=> Top.op = "force"
        /\ Retire(i, Top.op = "force").object = client[i]
    BY DEF Retire
  <1>8. client[i] # None
    BY <1>2 DEF SharesAreCounted
  <1>9. LiesOn(Retire(i, Top.op = "force"), NextPlace(k))
    BY <1>2, <1>3, <1>7 DEF LiesOn
  <1>10. stack' = Rest \o <<NextPlace(k), Retire(i, Top.op = "force")>>
    <2>1. Rest \in Seq(Items)
      BY <1>2, StackTypes, TopType
    <2> QED
      BY <1>1, <1>3, <1>6, <2>1, AppendTwo
  <1>11. /\ Len(stack) # 1 /\ Top.op # "leave"
         /\ NextPlace(k).op # "leave" /\ NextPlace(k).op # "retire"
         /\ Retire(i, Top.op = "force").op # "leave"
         /\ Retire(i, Top.op = "force").object # None
    BY <1>2, <1>3, <1>4, <1>7, <1>8
  <1> QED
    BY <1>1, <1>2, <1>3, <1>5, <1>6, <1>9, <1>10, <1>11, ReplaceTwo

LEMMA DropItem ==
    ASSUME TypeOK, StackInv, Doing("drop")
    PROVE  /\ stack # <<>> /\ Top \in Items /\ Top = stack[Len(stack)]
           /\ Top.op = "drop"
           /\ Top.slot \in Slots /\ Top.place \in Places
           /\ Len(stack) > 1 /\ Len(stack) # 1
           /\ stack[Len(stack) - 1].op = "refuse"
           /\ stack[Len(stack) - 1].slot = Top.slot
           /\ stack[Len(stack) - 1].place = Top.place + 1
  <1>1. pc = "library" /\ Top.op = "drop"
    BY DEF Doing
  <1>2. stack # <<>> /\ Top \in Items /\ Top = stack[Len(stack)]
    BY <1>1, StackTypes
  <1>3. Len(stack) > 1 /\ Len(stack) # 1 /\ LiesOn(Top, stack[Len(stack) - 1])
    BY <1>1, <1>2, TopLies
  <1> QED
    BY <1>1, <1>2, <1>3, ItemTypes DEF LiesOn

LEMMA DropShareStack ==
    ASSUME TypeOK, StackInv, SharesAreCounted, DropShare
    PROVE  /\ IF shares[Top.slot][Top.place] # None
              THEN Becomes(Len(stack) - 1, <<Retire(Top.slot, FALSE)>>)
              ELSE Becomes(Len(stack) - 1, <<>>)
           /\ StackInv'
  <1>1. Doing("drop") /\ non_reentrant' = non_reentrant
    BY DEF DropShare
  <1>2. /\ stack # <<>> /\ Top \in Items /\ Top.op = "drop"
        /\ Top.slot \in Slots /\ Top.place \in Places
        /\ Len(stack) > 1 /\ Len(stack) # 1
        /\ stack[Len(stack) - 1].op = "refuse"
        /\ stack[Len(stack) - 1].slot = Top.slot
    BY <1>1, DropItem
  <1>3. CASE shares[Top.slot][Top.place] # None
    <2>1. stack' = Append(Rest, Retire(Top.slot, FALSE))
      BY <1>3 DEF DropShare, ReleaseShare
    <2>2. Retire(Top.slot, FALSE) \in Items
      BY <1>2, StackTypes, MakeItems
    <2>3. /\ Retire(Top.slot, FALSE).op = "retire" /\ Retire(Top.slot, FALSE).slot = Top.slot
          /\ ~Retire(Top.slot, FALSE).disconnect
          /\ Retire(Top.slot, FALSE).object = client[Top.slot]
      BY DEF Retire
    <2>4. client[Top.slot] # None
      BY <1>2, <1>3 DEF SharesAreCounted, Used
    <2>5. LiesOn(Retire(Top.slot, FALSE), stack[Len(stack) - 1])
      BY <1>2, <2>3 DEF LiesOn
    <2>6. Len(stack) # 1 /\ Top.op # "leave" /\ Retire(Top.slot, FALSE).op # "leave"
          /\ Retire(Top.slot, FALSE).object # None
      BY <1>2, <2>3, <2>4
    <2>7. Becomes(Len(stack) - 1, <<Retire(Top.slot, FALSE)>>) /\ StackInv'
      BY <1>1, <1>2, <2>1, <2>2, <2>5, <2>6, ReplaceOne
    <2> QED
      BY <1>3, <2>7
  <1>4. CASE shares[Top.slot][Top.place] = None
    <2>1. stack' = Rest
      BY <1>4 DEF DropShare
    <2>2. Becomes(Len(stack) - 1, <<>>) /\ StackInv'
      BY <1>1, <1>2, <2>1, PopStep
    <2> QED
      BY <1>4, <2>2
  <1> QED
    BY <1>3, <1>4

\* release() of share a, which is at place k of slot i.
ReleaseAt(a, force, i, k) ==
    /\ pc = "user"
    /\ ~non_reentrant
    /\ shares[i][k] = a
    /\ ReleaseShare(i, k, TRUE,
           stack \o (IF force THEN <<Leave, Loop("force", i, 1, "Primary")>> ELSE <<Leave>>))
    /\ non_reentrant' = TRUE
    /\ UNCHANGED <<clientVars, goal>>

LEMMA ReleaseStack ==
    ASSUME TypeOK, StackInv, SharesAreCounted, NEW a \in Acquires, NEW force \in BOOLEAN,
           NEW i \in Slots, NEW k \in Places, ReleaseAt(a, force, i, k)
    PROVE  /\ IF force
              THEN Becomes(Len(stack), <<Leave, Loop("force", i, 1, "Primary"), Retire(i, TRUE)>>)
              ELSE Becomes(Len(stack), <<Leave, Retire(i, TRUE)>>)
           /\ StackInv'
  <1>1. ~non_reentrant /\ non_reentrant' /\ shares[i][k] = a
    BY DEF ReleaseAt
  <1>2. stack \in Seq(Items) /\ client \in [Slots -> Objects]
    BY StackTypes
  <1>3. client[i] # None
    <2>1. k \in Used(i)
      BY <1>1 DEF Used, Acquires, None
    <2> QED
      BY <2>1 DEF SharesAreCounted
  <1>4. Leave \in Items /\ Leave.op = "leave"
    BY MakeItems DEF Leave
  <1>5. Retire(i, TRUE) \in Items /\ Retire(i, TRUE).op = "retire" /\ Retire(i, TRUE).slot = i
        /\ Retire(i, TRUE).disconnect /\ Retire(i, TRUE).object # None
    BY <1>2, <1>3, MakeItems DEF Retire
  <1>6. CASE force
    <2>1. stack' = Append(stack \o <<Leave, Loop("force", i, 1, "Primary")>>, Retire(i, TRUE))
      BY <1>6 DEF ReleaseAt, ReleaseShare
    <2>2. Loop("force", i, 1, "Primary") \in Items
      BY <1>2, MakeItems DEF Loops, Levels, Places
    <2>3. Loop("force", i, 1, "Primary").op = "force" /\ Loop("force", i, 1, "Primary").slot = i
      BY DEF Loop
    <2>4. stack' = stack \o <<Leave, Loop("force", i, 1, "Primary"), Retire(i, TRUE)>>
      BY <1>2, <1>4, <1>5, <2>1, <2>2, AppendThree
    <2>5. LiesOn(Loop("force", i, 1, "Primary"), Leave)
      BY <1>4, <2>3 DEF LiesOn
    <2>6. LiesOn(Retire(i, TRUE), Loop("force", i, 1, "Primary"))
      BY <1>5, <2>3 DEF LiesOn
    <2> QED
      BY <1>1, <1>5, <1>6, <2>2, <2>3, <2>4, <2>5, <2>6, PushThree
  <1>7. CASE ~force
    <2>1. stack' = Append(stack \o <<Leave>>, Retire(i, TRUE))
      BY <1>7 DEF ReleaseAt, ReleaseShare
    <2>2. stack' = stack \o <<Leave, Retire(i, TRUE)>>
      BY <1>2, <1>4, <1>5, <2>1, AppendTwo
    <2>3. LiesOn(Retire(i, TRUE), Leave)
      BY <1>4, <1>5 DEF LiesOn
    <2> QED
      BY <1>1, <1>5, <1>7, <2>2, <2>3, PushTwo
  <1> QED
    BY <1>6, <1>7

\* acquire() of h that makes a share at place k of slot i, which has this host.
AcquireShareAt(h, i, k) ==
    /\ MayAcquire
    /\ Comparable(h)
    /\ i \in Matching(h)
    /\ k \notin Used(i)
    /\ IF ToldAtOnce(i)
       THEN /\ PlaceShare(i, k, acquired + 1, "disconnect")
            /\ Tell(acquired + 1, "Connected", "Secondary")
            /\ non_reentrant' = TRUE
            /\ stack' = Append(stack, Leave)
       ELSE /\ PlaceShare(i, k, acquired + 1, "connect")
            /\ UNCHANGED <<told, non_reentrant, stack>>
    /\ goal' = Append(goal, h)
    /\ UNCHANGED <<client, delete_pending, clientVars, pc>>

\* acquire() of h that takes slot i, and the first place of it.
AcquireSlotAt(h, i) ==
    /\ MayAcquire
    /\ Comparable(h)
    /\ Matching(h) = {}
    /\ ~Live(i)
    /\ delete_pending' = [delete_pending EXCEPT ![i] = FALSE]
    /\ client' = [client EXCEPT ![i] = IF @ = None THEN acquired + 1 ELSE @]
    /\ PlaceShare(i, 1, acquired + 1, "connect")
    /\ goal' = Append(goal, h)
    /\ IF attempt[i] = None
       THEN /\ attempt' = [attempt EXCEPT ![i] = acquired + 1]
            /\ link' = [link EXCEPT ![i] = "fresh"]
            /\ UNCHANGED <<non_reentrant, pc, stack>>
       ELSE /\ non_reentrant' = TRUE
            /\ pc' = "library"
            /\ stack' = stack \o <<Leave, Loop("refuse", i, 1, "Primary")>>
            /\ UNCHANGED <<attempt, link>>
    /\ UNCHANGED <<resolves, told>>

LEMMA AcquireSharePlace ==
    ASSUME NEW h \in Hosts, AcquireShare(h)
    PROVE  \E i \in Slots, k \in Places : AcquireShareAt(h, i, k)
  <1>1. TheLeast(Matching(h)) \in Matching(h)
    <2>1. Matching(h) \in SUBSET Nat /\ Matching(h) # {}
      BY DEF AcquireShare, Matching, Slots
    <2> QED
      BY <2>1, TheLeastIs
  <1>2. PICK i \in Slots : i = TheLeast(Matching(h))
    BY <1>1 DEF Matching
  <1>3. TheLeast(Places \ Used(i)) \in Places \ Used(i)
    <2>1. Places \ Used(i) \in SUBSET Nat
      BY DEF Places
    <2>2. Used(i) # Places /\ Used(i) \subseteq Places
      BY <1>2 DEF AcquireShare, Used
    <2>3. Places \ Used(i) # {}
      BY <2>2
    <2> QED
      BY <2>1, <2>3, TheLeastIs
  <1>4. PICK k \in Places : k = TheLeast(Places \ Used(i))
    BY <1>3
  <1>5. AcquireShareAt(h, i, k)
    BY <1>1, <1>2, <1>3, <1>4 DEF AcquireShare, AcquireShareAt
  <1> QED
    BY <1>5

LEMMA AcquireSlotPlace ==
    ASSUME NEW h \in Hosts, AcquireSlot(h)
    PROVE  \E i \in Slots : AcquireSlotAt(h, i)
  <1>1. FreeSlot \in Slots /\ ~Live(FreeSlot)
    <2>1. CASE \E i \in Slots : delete_pending[i]
      <3>1. {i \in Slots : delete_pending[i]} \in SUBSET Nat
        BY DEF Slots
      <3>2. {i \in Slots : delete_pending[i]} # {}
        BY <2>1
      <3>3. FreeSlot \in {i \in Slots : delete_pending[i]}
        BY <2>1, <3>1, <3>2, TheLeastIs DEF FreeSlot
      <3> QED
        BY <3>3 DEF Live
    <2>2. CASE ~\E i \in Slots : delete_pending[i]
      <3>1. {i \in Slots : client[i] = None} \in SUBSET Nat
        BY DEF Slots
      <3>2. {i \in Slots : client[i] = None} # {}
        BY <2>2 DEF AcquireSlot, Live
      <3>3. FreeSlot \in {i \in Slots : client[i] = None}
        BY <2>2, <3>1, <3>2, TheLeastIs DEF FreeSlot
      <3> QED
        BY <3>3 DEF Live
    <2> QED
      BY <2>1, <2>2
  <1>2. PICK i \in Slots : i = FreeSlot
    BY <1>1
  <1>3. AcquireSlotAt(h, i)
    BY <1>1, <1>2 DEF AcquireSlot, AcquireSlotAt
  <1> QED
    BY <1>3

LEMMA AcquireShareStack ==
    ASSUME TypeOK, StackInv, NEW h \in Hosts, NEW i \in Slots, NEW k \in Places,
           AcquireShareAt(h, i, k)
    PROVE  /\ Becomes(Len(stack), IF ToldAtOnce(i) THEN <<Leave>> ELSE <<>>)
           /\ StackInv'
  <1>1. CASE ToldAtOnce(i)
    <2>1. ~non_reentrant /\ non_reentrant' /\ stack' = Append(stack, Leave)
      BY <1>1 DEF AcquireShareAt, MayAcquire
    <2> QED
      BY <1>1, <2>1, PushOne
  <1>2. CASE ~ToldAtOnce(i)
    <2>1. UNCHANGED <<stack, non_reentrant>>
      BY <1>2 DEF AcquireShareAt
    <2> QED
      BY <1>2, <2>1, KeepStep
  <1> QED
    BY <1>1, <1>2

LEMMA AcquireSlotStack ==
    ASSUME TypeOK, StackInv, NEW h \in Hosts, NEW i \in Slots, AcquireSlotAt(h, i)
    PROVE  /\ Becomes(Len(stack),
                      IF attempt[i] = None THEN <<>> ELSE <<Leave, Loop("refuse", i, 1, "Primary")>>)
           /\ StackInv'
  <1>1. CASE attempt[i] = None
    <2>1. UNCHANGED <<stack, non_reentrant>>
      BY <1>1 DEF AcquireSlotAt
    <2> QED
      BY <1>1, <2>1, KeepStep
  <1>2. CASE attempt[i] # None
    <2>1. ~non_reentrant /\ non_reentrant'
          /\ stack' = stack \o <<Leave, Loop("refuse", i, 1, "Primary")>>
      BY <1>2 DEF AcquireSlotAt, MayAcquire
    <2>2. Loop("refuse", i, 1, "Primary") \in Items
      BY StackTypes, MakeItems DEF Loops, Levels, Places
    <2>3. Loop("refuse", i, 1, "Primary").op = "refuse" /\ Leave.op = "leave"
      BY DEF Loop, Leave
    <2>4. LiesOn(Loop("refuse", i, 1, "Primary"), Leave)
      BY <2>3 DEF LiesOn
    <2> QED
      BY <1>2, <2>1, <2>2, <2>3, <2>4, PushTwo
  <1> QED
    BY <1>1, <1>2

LEMMA TickStack ==
    ASSUME TypeOK, StackInv, Tick
    PROVE  Becomes(Len(stack), <<Leave, TickSlot(1)>>) /\ StackInv'
  <1>1. ~non_reentrant /\ non_reentrant' /\ stack' = stack \o <<Leave, TickSlot(1)>>
    BY DEF Tick
  <1>2. TickSlot(1) \in Items /\ TickSlot(1).op = "tick" /\ Leave.op = "leave"
    BY MakeItems DEF TickSlot, Leave
  <1>3. LiesOn(TickSlot(1), Leave)
    BY <1>2 DEF LiesOn
  <1> QED
    BY <1>1, <1>2, <1>3, PushTwo

LEMMA TickItem ==
    ASSUME TypeOK, StackInv, Doing("tick")
    PROVE  /\ stack # <<>> /\ Top \in Items /\ Top = stack[Len(stack)]
           /\ Top.op = "tick"
           /\ Top.slot \in 1..(MaxSlots + 1)
           /\ Len(stack) > 1 /\ Len(stack) # 1
           /\ stack[Len(stack) - 1].op = "leave"
           /\ Len(stack) - 1 \in 1..Len(stack)
           /\ non_reentrant
  <1>1. pc = "library" /\ Top.op = "tick"
    BY DEF Doing
  <1>2. stack # <<>> /\ Top \in Items /\ Top = stack[Len(stack)]
    BY <1>1, StackTypes
  <1>3. Len(stack) > 1 /\ Len(stack) # 1 /\ LiesOn(Top, stack[Len(stack) - 1])
    BY <1>1, <1>2, TopLies
  <1>4. stack[Len(stack) - 1].op = "leave" /\ Len(stack) - 1 \in 1..Len(stack)
    BY <1>1, <1>2, <1>3, StackTypes DEF LiesOn
  <1>5. non_reentrant
    BY <1>4 DEF StackInv
  <1> QED
    BY <1>1, <1>2, <1>3, <1>4, <1>5, ItemTypes

LEMMA TickEndsStack ==
    ASSUME TypeOK, StackInv, TickEnds
    PROVE  Becomes(Len(stack) - 1, <<>>) /\ StackInv'
  <1>1. Doing("tick") /\ stack' = Rest /\ non_reentrant' = non_reentrant
    BY DEF TickEnds
  <1>2. stack # <<>> /\ Top.op = "tick"
    BY <1>1, TickItem
  <1> QED
    BY <1>1, <1>2, PopStep

LEMMA TickNextStack ==
    ASSUME TypeOK, StackInv, NEW i \in Slots, TickAt(i), TickNext(i)
    PROVE  Becomes(Len(stack) - 1, <<TickSlot(i + 1)>>) /\ StackInv'
  <1>1. stack' = Append(Rest, TickSlot(i + 1)) /\ non_reentrant' = non_reentrant
    BY DEF TickNext
  <1>2. stack # <<>> /\ Top.op = "tick" /\ stack[Len(stack) - 1].op = "leave" /\ Len(stack) # 1
    BY TickItem DEF TickAt
  <1>3. TickSlot(i + 1) \in Items /\ TickSlot(i + 1).op = "tick"
    BY MakeItems DEF TickSlot
  <1>4. LiesOn(TickSlot(i + 1), stack[Len(stack) - 1])
    BY <1>2, <1>3 DEF LiesOn
  <1> QED
    BY <1>1, <1>2, <1>3, <1>4, ReplaceOne

\* The client of slot i has something to report to its shares.
ReportStack(i, op) ==
    stack' = Rest \o <<TickSlot(i + 1), Loop(op, i, 1, "Primary")>>

LEMMA TickReportStack ==
    ASSUME TypeOK, StackInv, NEW i \in Slots, NEW op \in {"refuse", "close"},
           TickAt(i), ReportStack(i, op), non_reentrant' = non_reentrant
    PROVE  Becomes(Len(stack) - 1, <<TickSlot(i + 1), Loop(op, i, 1, "Primary")>>) /\ StackInv'
  <1>1. stack # <<>> /\ Top.op = "tick" /\ stack[Len(stack) - 1].op = "leave" /\ Len(stack) # 1
    BY TickItem DEF TickAt
  <1>2. TickSlot(i + 1) \in Items /\ TickSlot(i + 1).op = "tick" /\ TickSlot(i + 1).slot = i + 1
    BY MakeItems DEF TickSlot
  <1>3. LiesOn(TickSlot(i + 1), stack[Len(stack) - 1])
    BY <1>1, <1>2 DEF LiesOn
  <1>4. Loop(op, i, 1, "Primary") \in Items
    BY StackTypes, MakeItems DEF Loops, Levels, Places
  <1>5. Loop(op, i, 1, "Primary").op = op /\ Loop(op, i, 1, "Primary").slot = i
    BY DEF Loop
  <1>6. LiesOn(Loop(op, i, 1, "Primary"), TickSlot(i + 1))
    BY <1>2, <1>5 DEF LiesOn
  <1>7. stack' = Rest \o <<TickSlot(i + 1), Loop(op, i, 1, "Primary")>>
    BY DEF ReportStack
  <1>8. /\ Loop(op, i, 1, "Primary").op \notin {"leave", "retire"}
        /\ TickSlot(i + 1).op \notin {"leave", "retire"}
    BY <1>2, <1>5
  <1> QED
    BY <1>1, <1>2, <1>3, <1>4, <1>6, <1>7, <1>8, ReplaceTwo

LEMMA ClientConnectsStack ==
    ASSUME TypeOK, StackInv, NEW i \in Slots, ClientConnects(i)
    PROVE  /\ Becomes(Len(stack) - 1,
                      <<TickSlot(i + 1), Receive(i), Loop("accept", i, 1, "Primary")>>)
           /\ StackInv'
  <1>1. stack # <<>> /\ Top.op = "tick" /\ stack[Len(stack) - 1].op = "leave" /\ Len(stack) # 1
    BY TickItem DEF TickAt, ClientConnects, ClientTicks
  <1>2. TickSlot(i + 1) \in Items /\ TickSlot(i + 1).op = "tick" /\ TickSlot(i + 1).slot = i + 1
    BY MakeItems DEF TickSlot
  <1>3. LiesOn(TickSlot(i + 1), stack[Len(stack) - 1])
    BY <1>1, <1>2 DEF LiesOn
  <1>4. Loop("accept", i, 1, "Primary") \in Items
    BY StackTypes, MakeItems DEF Loops, Levels, Places
  <1>5. Loop("accept", i, 1, "Primary").op = "accept" /\ Loop("accept", i, 1, "Primary").slot = i
    BY DEF Loop
  <1>6. Receive(i) \in Items /\ Receive(i).op = "receive" /\ Receive(i).slot = i
    BY MakeItems DEF Receive
  <1>7. LiesOn(Loop("accept", i, 1, "Primary"), Receive(i)) /\ LiesOn(Receive(i), TickSlot(i + 1))
    BY <1>2, <1>5, <1>6 DEF LiesOn
  <1>8. stack' = Rest \o <<TickSlot(i + 1), Receive(i), Loop("accept", i, 1, "Primary")>>
        /\ non_reentrant' = non_reentrant
    BY DEF ClientConnects
  <1> QED
    BY <1>1, <1>2, <1>3, <1>4, <1>5, <1>6, <1>7, <1>8, ReplaceThree

LEMMA ReceiveItem ==
    ASSUME TypeOK, StackInv, Doing("receive")
    PROVE  /\ stack # <<>> /\ Top \in Items /\ Top = stack[Len(stack)]
           /\ Top.op = "receive"
           /\ Top.slot \in Slots
           /\ Len(stack) > 1 /\ Len(stack) # 1
           /\ stack[Len(stack) - 1].op = "tick"
           /\ stack[Len(stack) - 1].slot = Top.slot + 1
  <1>1. pc = "library" /\ Top.op = "receive"
    BY DEF Doing
  <1>2. stack # <<>> /\ Top \in Items /\ Top = stack[Len(stack)]
    BY <1>1, StackTypes
  <1>3. Len(stack) > 1 /\ Len(stack) # 1 /\ LiesOn(Top, stack[Len(stack) - 1])
    BY <1>1, <1>2, TopLies
  <1> QED
    BY <1>1, <1>2, <1>3, ItemTypes DEF LiesOn

LEMMA ReceiveCloseStack ==
    ASSUME TypeOK, StackInv, Doing("receive"), non_reentrant' = non_reentrant,
           stack' = Append(Rest, Loop("close", Top.slot, 1, "Primary"))
    PROVE  Becomes(Len(stack) - 1, <<Loop("close", Top.slot, 1, "Primary")>>) /\ StackInv'
  <1>1. /\ stack # <<>> /\ Top.op = "receive" /\ Top.slot \in Slots
        /\ Len(stack) # 1
        /\ stack[Len(stack) - 1].op = "tick" /\ stack[Len(stack) - 1].slot = Top.slot + 1
    BY ReceiveItem
  <1>2. Loop("close", Top.slot, 1, "Primary") \in Items
    BY <1>1, StackTypes, MakeItems DEF Loops, Levels, Places
  <1>3. /\ Loop("close", Top.slot, 1, "Primary").op = "close"
        /\ Loop("close", Top.slot, 1, "Primary").slot = Top.slot
    BY DEF Loop
  <1>4. LiesOn(Loop("close", Top.slot, 1, "Primary"), stack[Len(stack) - 1])
    BY <1>1, <1>3 DEF LiesOn
  <1> QED
    BY <1>1, <1>2, <1>3, <1>4, ReplaceOne

LEMMA AnswerFailureStack ==
    ASSUME TypeOK, StackInv, NEW i \in Slots, stack = <<>>, non_reentrant' = non_reentrant,
           stack' = <<Loop("refuse", i, 1, "Primary")>>
    PROVE  Becomes(0, <<Loop("refuse", i, 1, "Primary")>>) /\ StackInv'
  <1> DEFINE item == Loop("refuse", i, 1, "Primary")
  <1>1. item \in Items
    BY StackTypes, MakeItems DEF Loops, Levels, Places
  <1>2. item.op = "refuse"
    BY DEF Loop
  <1> HIDE DEF item
  <1>3. <<item>> \in Seq(Items) /\ Len(<<item>>) = 1 /\ <<item>>[1] = item /\ Len(stack) = 0
    BY <1>1
  <1>4. stack' = stack \o <<item>>
    BY <1>1 DEF item
  <1>5. Becomes(0, <<item>>)
    BY <1>3, <1>4, OnAll, StackTypes
  <1>6. ~non_reentrant
    BY <1>3 DEF StackInv
  <1>7. StackInv'
    BY <1>2, <1>3, <1>5, <1>6, StackStep
  <1> QED
    BY <1>5, <1>7 DEF item

-----------------------------------------------------------------------------
(* Type correctness.                                                       *)

SlotTypes ==
    /\ client \in [Slots -> Objects]
    /\ delete_pending \in [Slots -> BOOLEAN]
    /\ share_count \in [Slots -> 0..MaxShares]
    /\ shares \in [Slots -> [Places -> Objects]]
    /\ callback \in [Acquires -> {"none", "connect", "disconnect"}]

ClientTypes ==
    /\ attempt \in [Slots -> Objects]
    /\ link \in [Slots -> Links]
    /\ resolves \subseteq [client : Acquires, attempt : Acquires]

UserTypes ==
    /\ goal \in Seq(Hosts) /\ acquired <= MaxAcquires
    /\ told \in [Acquires -> Seq(Calls)]

ControlTypes ==
    /\ non_reentrant \in BOOLEAN
    /\ pc \in {"user", "library", "undefined"}
    /\ stack \in Seq(Items)
    /\ pc = "library" => stack # <<>>

LEMMA TypeParts == TypeOK <=> SlotTypes /\ ClientTypes /\ UserTypes /\ ControlTypes
  BY DEF TypeOK, SlotTypes, ClientTypes, UserTypes, ControlTypes

LEMMA SlotTypesFrame == ASSUME TypeOK, UNCHANGED slotVars PROVE SlotTypes'
  BY TypeParts DEF SlotTypes, slotVars

LEMMA ClientTypesFrame == ASSUME TypeOK, UNCHANGED clientVars PROVE ClientTypes'
  BY TypeParts DEF ClientTypes, clientVars

LEMMA UserTypesFrame == ASSUME TypeOK, UNCHANGED <<goal, told>> PROVE UserTypes'
  BY TypeParts DEF UserTypes, acquired

LEMMA ControlStep ==
    ASSUME TypeOK, NEW b, NEW items, Becomes(b, items),
           non_reentrant' \in BOOLEAN, pc' \in {"user", "library", "undefined"},
           pc' = "library" => b # 0 \/ items # <<>>
    PROVE  ControlTypes'
  <1>1. stack' \in Seq(Items) /\ Len(stack') = b + Len(items) /\ b \in 0..Len(stack)
        /\ items \in Seq(Items)
    BY DEF Becomes
  <1>2. Len(stack) \in Nat
    BY StackTypes
  <1>3. stack' = <<>> => b = 0 /\ items = <<>>
    BY <1>1, <1>2
  <1> QED
    BY <1>1, <1>3 DEF ControlTypes

LEMMA TypeStep ==
    ASSUME SlotTypes', ClientTypes', UserTypes', ControlTypes'
    PROVE  TypeOK'
  BY DEF TypeOK, SlotTypes, ClientTypes, UserTypes, ControlTypes

LEMMA UserValues ==
    ASSUME TypeOK
    PROVE  /\ goal \in Seq(Hosts) /\ acquired \in 0..MaxAcquires
           /\ told \in [Acquires -> Seq(Calls)]
           /\ Objects = 0..MaxAcquires
  <1>1. goal \in Seq(Hosts) /\ Len(goal) <= MaxAcquires /\ told \in [Acquires -> Seq(Calls)]
    BY DEF TypeOK, acquired
  <1>2. Objects = 0..MaxAcquires
    BY DEF Objects, Acquires, None
  <1> QED
    BY <1>1, <1>2 DEF acquired

LEMMA TellType ==
    ASSUME TypeOK, NEW a \in Acquires, NEW event \in {"Connected", "Failed", "Closed"},
           NEW level \in Levels, Tell(a, event, level)
    PROVE  told' \in [Acquires -> Seq(Calls)]
  <1>1. told \in [Acquires -> Seq(Calls)]
    BY UserValues
  <1>2. [event |-> event, level |-> level] \in Calls
    BY DEF Calls, Levels
  <1>3. Append(told[a], [event |-> event, level |-> level]) \in Seq(Calls)
    BY <1>1, <1>2
  <1> QED
    BY <1>1, <1>3 DEF Tell

\* What the places of a slot hold, and how many are held.
LEMMA UsedFacts ==
    ASSUME TypeOK, NEW i \in Slots
    PROVE  /\ IsFiniteSet(Used(i)) /\ Used(i) \in SUBSET Places
           /\ Cardinality(Used(i)) \in 0..MaxShares
           /\ \A k \in Used(i) : shares[i][k] \in Acquires
  <1>1. Used(i) \in SUBSET Places
    BY DEF Used
  <1>2. IsFiniteSet(Places) /\ Cardinality(Places) = MaxShares
    BY FS_Interval DEF Places
  <1>3. IsFiniteSet(Used(i)) /\ Cardinality(Used(i)) <= MaxShares
    BY <1>1, <1>2, FS_Subset
  <1>4. Cardinality(Used(i)) \in Nat
    BY <1>3, FS_CardinalityType
  <1>5. shares \in [Slots -> [Places -> Objects]]
    BY DEF TypeOK
  <1>6. \A k \in Used(i) : shares[i][k] \in Acquires
    BY <1>5 DEF Used, Objects
  <1> QED
    BY <1>1, <1>3, <1>4, <1>6

\* ReleaseShare without the stack.
GivesUp(i, k) ==
    LET a == shares[i][k] IN
    /\ shares' = [shares EXCEPT ![i][k] = None]
    /\ share_count' = [share_count EXCEPT ![i] = @ - 1]
    /\ callback' = [callback EXCEPT ![a] = "none"]
    /\ LastCall(a, i)
    /\ UNCHANGED <<client, delete_pending>>

LEMMA ReleaseGivesUp ==
    ASSUME NEW i, NEW k, NEW d, NEW rest, ReleaseShare(i, k, d, rest)
    PROVE  GivesUp(i, k)
  BY DEF ReleaseShare, GivesUp, CountOut

\* Giving up a share empties its place, and is counted.
LEMMA GivesUpUsed ==
    ASSUME TypeOK, SharesAreCounted, NEW i \in Slots, NEW k \in Used(i), GivesUp(i, k)
    PROVE  /\ Used(i)' = Used(i) \ {k}
           /\ \A j \in Slots : j # i => Used(j)' = Used(j)
           /\ share_count'[i] = Cardinality(Used(i) \ {k})
           /\ share_count'[i] \in 0..MaxShares
           /\ \A j \in Slots : j # i => share_count'[j] = share_count[j]
           /\ \A j \in Slots : \A m \in Places :
                  j # i \/ m # k => shares'[j][m] = shares[j][m]
           /\ shares'[i][k] = None
  <1>1. shares \in [Slots -> [Places -> Objects]] /\ share_count \in [Slots -> 0..MaxShares]
    BY DEF TypeOK
  <1>2. k \in Places /\ shares' = [shares EXCEPT ![i][k] = None]
        /\ share_count' = [share_count EXCEPT ![i] = @ - 1]
    BY DEF GivesUp, Used
  <1>3. \A j \in Slots : \A m \in Places :
            shares'[j][m] = IF j = i /\ m = k THEN None ELSE shares[j][m]
    BY <1>1, <1>2
  <1>4. Used(i)' = Used(i) \ {k}
    BY <1>2, <1>3 DEF Used
  <1>5. \A j \in Slots : j # i => Used(j)' = Used(j)
    BY <1>3 DEF Used
  <1>6. Cardinality(Used(i) \ {k}) = Cardinality(Used(i)) - 1 /\ Cardinality(Used(i)) \in Nat
    <2>1. IsFiniteSet(Used(i))
      BY UsedFacts
    <2> QED
      BY <2>1, FS_RemoveElement, FS_CardinalityType
  <1>7. share_count[i] = Cardinality(Used(i))
    BY DEF SharesAreCounted
  <1>8. Cardinality(Used(i) \ {k}) \in Nat
    BY UsedFacts, FS_RemoveElement, FS_CardinalityType
  <1> QED
    BY <1>1, <1>2, <1>3, <1>4, <1>5, <1>6, <1>7, <1>8

LEMMA GivesUpTypes ==
    ASSUME TypeOK, SharesAreCounted, NEW i \in Slots, NEW k \in Used(i), GivesUp(i, k),
           UNCHANGED goal
    PROVE  /\ SlotTypes' /\ UserTypes'
           /\ pc' \in {"user", "library"}
  <1> DEFINE a == shares[i][k]
  <1>1. a \in Acquires
    BY UsedFacts
  <1>2. k \in Places
    BY DEF Used
  <1>3. shares' \in [Slots -> [Places -> Objects]]
    <2>1. shares \in [Slots -> [Places -> Objects]] /\ None \in Objects
      BY DEF TypeOK, Objects
    <2> QED
      BY <1>2, <2>1 DEF GivesUp
  <1>4. share_count' \in [Slots -> 0..MaxShares]
    <2>1. share_count \in [Slots -> 0..MaxShares]
      BY DEF TypeOK
    <2>2. share_count'[i] \in 0..MaxShares /\ share_count' = [share_count EXCEPT ![i] = @ - 1]
      BY GivesUpUsed DEF GivesUp
    <2>3. share_count[i] - 1 \in 0..MaxShares
      BY <2>1, <2>2
    <2> QED
      BY <2>1, <2>2, <2>3
  <1>5. callback' \in [Acquires -> {"none", "connect", "disconnect"}]
    <2>1. callback \in [Acquires -> {"none", "connect", "disconnect"}]
      BY DEF TypeOK
    <2> QED
      BY <1>1, <2>1 DEF GivesUp
  <1>6. client' \in [Slots -> Objects] /\ delete_pending' \in [Slots -> BOOLEAN]
    BY DEF TypeOK, GivesUp
  <1>7. told' \in [Acquires -> Seq(Calls)] /\ pc' \in {"user", "library"}
    <2>1. LevelAfter(i) \in Levels
      BY DEF LevelAfter, Levels
    <2>2. \/ Tell(a, "Failed", LevelAfter(i)) /\ pc' = "user"
          \/ Tell(a, "Closed", LevelAfter(i)) /\ pc' = "user"
          \/ pc' = "library" /\ UNCHANGED told
      BY DEF GivesUp, LastCall
    <2> HIDE DEF a
    <2>3. CASE Tell(a, "Failed", LevelAfter(i)) /\ pc' = "user"
      BY <1>1, <2>1, <2>3, TellType
    <2>4. CASE Tell(a, "Closed", LevelAfter(i)) /\ pc' = "user"
      BY <1>1, <2>1, <2>4, TellType
    <2>5. CASE pc' = "library" /\ UNCHANGED told
      BY <2>5, UserValues
    <2> QED
      BY <2>2, <2>3, <2>4, <2>5
  <1>8. goal' \in Seq(Hosts) /\ acquired' <= MaxAcquires
    BY DEF TypeOK, acquired
  <1> QED
    BY <1>3, <1>4, <1>5, <1>6, <1>7, <1>8 DEF SlotTypes, UserTypes

LEMMA CloseClientType ==
    ASSUME TypeOK, NEW i \in Slots, CloseClient(i)
    PROVE  attempt' \in [Slots -> Objects] /\ link' \in [Slots -> Links]
  <1>1. attempt \in [Slots -> Objects] /\ link \in [Slots -> Links]
    BY DEF TypeOK
  <1>2. None \in Objects /\ "closed" \in Links
    BY DEF Objects, Links
  <1> QED
    BY <1>1, <1>2 DEF CloseClient

LEMMA CloseClientTypes ==
    ASSUME TypeOK, NEW i \in Slots, CloseClient(i), UNCHANGED resolves
    PROVE  ClientTypes'
  <1>1. resolves \subseteq [client : Acquires, attempt : Acquires]
    BY DEF TypeOK
  <1> QED
    BY <1>1, CloseClientType DEF ClientTypes

\* A new share a is at place k of slot i, and nowhere else.
IsPlaced(i, k, a) ==
    /\ Used(i)' = Used(i) \cup {k}
    /\ \A j \in Slots : j # i => Used(j)' = Used(j)
    /\ share_count'[i] = Cardinality(Used(i) \cup {k})
    /\ \A j \in Slots : j # i => share_count'[j] = share_count[j]
    /\ \A j \in Slots : \A m \in Places :
           shares'[j][m] = IF j = i /\ m = k THEN a ELSE shares[j][m]
    /\ \A c \in Acquires : c # a => callback'[c] = callback[c]

LEMMA PlaceShareUsed ==
    ASSUME TypeOK, SharesAreCounted, NEW i \in Slots, NEW k \in Places, k \notin Used(i),
           NEW a \in Acquires, NEW held \in {"none", "connect", "disconnect"},
           PlaceShare(i, k, a, held)
    PROVE  /\ IsPlaced(i, k, a)
           /\ shares' \in [Slots -> [Places -> Objects]]
           /\ share_count' \in [Slots -> 0..MaxShares]
           /\ callback' \in [Acquires -> {"none", "connect", "disconnect"}]
           /\ callback'[a] = held
  <1>1. shares \in [Slots -> [Places -> Objects]] /\ share_count \in [Slots -> 0..MaxShares]
    BY DEF TypeOK
  <1>2. callback \in [Acquires -> {"none", "connect", "disconnect"}]
    BY DEF TypeOK
  <1>3. /\ shares' = [shares EXCEPT ![i][k] = a]
        /\ share_count' = [share_count EXCEPT ![i] = @ + 1]
        /\ callback' = [callback EXCEPT ![a] = held]
    BY DEF PlaceShare
  <1>4. \A j \in Slots : \A m \in Places :
            shares'[j][m] = IF j = i /\ m = k THEN a ELSE shares[j][m]
    BY <1>1, <1>3
  <1>5. a # None
    BY DEF Acquires, None
  <1>6. Used(i)' = Used(i) \cup {k}
    BY <1>4, <1>5 DEF Used
  <1>7. \A j \in Slots : j # i => Used(j)' = Used(j)
    BY <1>4 DEF Used
  <1>8. Cardinality(Used(i) \cup {k}) = Cardinality(Used(i)) + 1 /\ Cardinality(Used(i)) \in Nat
    <2>1. IsFiniteSet(Used(i))
      BY UsedFacts
    <2> QED
      BY <2>1, FS_AddElement, FS_CardinalityType
  <1>9. share_count[i] = Cardinality(Used(i))
    BY DEF SharesAreCounted
  <1>10. Cardinality(Used(i) \cup {k}) <= MaxShares
    <2>1. IsFiniteSet(Places) /\ Cardinality(Places) = MaxShares
      BY FS_Interval DEF Places
    <2>2. Used(i) \cup {k} \subseteq Places
      BY DEF Used
    <2> QED
      BY <2>1, <2>2, FS_Subset
  <1>11. share_count' \in [Slots -> 0..MaxShares]
    <2>1. share_count[i] + 1 \in 0..MaxShares
      BY <1>8, <1>9, <1>10
    <2> QED
      BY <1>1, <1>3, <2>1
  <1>12. shares' \in [Slots -> [Places -> Objects]]
    BY <1>1, <1>3 DEF Objects
  <1>13. share_count'[i] = Cardinality(Used(i) \cup {k})
    BY <1>1, <1>3, <1>8, <1>9
  <1>14. \A j \in Slots : j # i => share_count'[j] = share_count[j]
    BY <1>1, <1>3
  <1>15. callback' \in [Acquires -> {"none", "connect", "disconnect"}] /\ callback'[a] = held
    BY <1>2, <1>3
  <1>16. \A c \in Acquires : c # a => callback'[c] = callback[c]
    BY <1>2, <1>3
  <1> QED
    BY <1>4, <1>6, <1>7, <1>11, <1>12, <1>13, <1>14, <1>15, <1>16 DEF IsPlaced

\* The number of the acquire() that is accepted.
LEMMA NewNumber ==
    ASSUME TypeOK, MayAcquire, NEW h \in Hosts, goal' = Append(goal, h)
    PROVE  /\ acquired + 1 \in Acquires
           /\ acquired' = acquired + 1
           /\ goal' \in Seq(Hosts) /\ acquired' <= MaxAcquires
           /\ \A a \in 1..acquired : goal'[a] = goal[a]
           /\ goal'[acquired + 1] = h
  <1>1. goal \in Seq(Hosts) /\ acquired \in 0..MaxAcquires /\ acquired < MaxAcquires
    BY UserValues DEF MayAcquire
  <1> QED
    BY <1>1 DEF acquired, Acquires

LEMMA AcquireShareType ==
    ASSUME TypeOK, StackInv, SharesAreCounted,
           NEW h \in Hosts, NEW i \in Slots, NEW k \in Places, AcquireShareAt(h, i, k)
    PROVE  TypeOK'
  <1> DEFINE a == acquired + 1
  <1>1. a \in Acquires /\ goal' \in Seq(Hosts) /\ acquired' <= MaxAcquires
    BY NewNumber DEF AcquireShareAt
  <1>2. SlotTypes'
    <2>1. UNCHANGED <<client, delete_pending>> /\ k \notin Used(i)
          /\ (PlaceShare(i, k, a, "disconnect") \/ PlaceShare(i, k, a, "connect"))
      BY DEF AcquireShareAt
    <2>2. client' \in [Slots -> Objects] /\ delete_pending' \in [Slots -> BOOLEAN]
      BY <2>1 DEF TypeOK
    <2> HIDE DEF a
    <2> QED
      BY <1>1, <2>1, <2>2, PlaceShareUsed DEF SlotTypes
  <1>3. ClientTypes'
    BY ClientTypesFrame DEF AcquireShareAt
  <1>4. told' \in [Acquires -> Seq(Calls)]
    <2>1. Tell(a, "Connected", "Secondary") \/ told' = told
      BY DEF AcquireShareAt
    <2> HIDE DEF a
    <2> QED
      BY <1>1, <2>1, TellType, UserValues DEF Levels
  <1>5. ControlTypes'
    <2>1. pc' = "user"
      BY DEF AcquireShareAt, MayAcquire
    <2>2. non_reentrant' \in BOOLEAN
      BY DEF AcquireShareAt, TypeOK
    <2> QED
      BY <2>1, <2>2, AcquireShareStack, ControlStep
  <1> QED
    BY <1>1, <1>2, <1>3, <1>4, <1>5, TypeStep DEF UserTypes

LEMMA AcquireSlotType ==
    ASSUME TypeOK, StackInv, SharesAreCounted,
           NEW h \in Hosts, NEW i \in Slots, AcquireSlotAt(h, i)
    PROVE  TypeOK'
  <1> DEFINE a == acquired + 1
  <1>1. a \in Acquires /\ goal' \in Seq(Hosts) /\ acquired' <= MaxAcquires
    BY NewNumber DEF AcquireSlotAt
  <1>2. SlotTypes'
    <2>1. PlaceShare(i, 1, a, "connect") /\ 1 \in Places
      BY DEF AcquireSlotAt, Places
    <2>2. 1 \notin Used(i)
      BY DEF AcquireSlotAt, SharesAreCounted, Live
    <2>3. delete_pending' \in [Slots -> BOOLEAN]
      BY DEF AcquireSlotAt, TypeOK
    <2>4. client' \in [Slots -> Objects]
      <3>1. client \in [Slots -> Objects] /\ a \in Objects
        BY <1>1 DEF TypeOK, Objects
      <3>2. client' = [client EXCEPT ![i] = IF client[i] = None THEN a ELSE client[i]]
        BY DEF AcquireSlotAt
      <3> HIDE DEF a
      <3> QED
        BY <3>1, <3>2
    <2> HIDE DEF a
    <2> QED
      BY <1>1, <2>1, <2>2, <2>3, <2>4, PlaceShareUsed DEF SlotTypes
  <1>3. ClientTypes'
    <2>1. attempt \in [Slots -> Objects] /\ link \in [Slots -> Links]
      BY DEF TypeOK
    <2>2. resolves' \subseteq [client : Acquires, attempt : Acquires]
      BY DEF AcquireSlotAt, TypeOK
    <2>3. \/ attempt' = [attempt EXCEPT ![i] = a] /\ link' = [link EXCEPT ![i] = "fresh"]
          \/ attempt' = attempt /\ link' = link
      BY DEF AcquireSlotAt
    <2>4. a \in Objects /\ "fresh" \in Links
      BY <1>1 DEF Objects, Links
    <2> HIDE DEF a
    <2>5. attempt' \in [Slots -> Objects] /\ link' \in [Slots -> Links]
      BY <2>1, <2>3, <2>4
    <2> QED
      BY <2>2, <2>5 DEF ClientTypes
  <1>4. told' \in [Acquires -> Seq(Calls)]
    BY UserValues DEF AcquireSlotAt
  <1>5. ControlTypes'
    <2>1. CASE attempt[i] = None
      <3>1. pc' = "user" /\ non_reentrant' \in BOOLEAN
        BY <2>1 DEF AcquireSlotAt, MayAcquire, TypeOK
      <3> QED
        BY <3>1, AcquireSlotStack, ControlStep
    <2>2. CASE attempt[i] # None
      <3>1. pc' = "library" /\ non_reentrant' \in BOOLEAN
        BY <2>2 DEF AcquireSlotAt
      <3>2. Becomes(Len(stack), <<Leave, Loop("refuse", i, 1, "Primary")>>)
        BY <2>2, AcquireSlotStack
      <3>3. <<Leave, Loop("refuse", i, 1, "Primary")>> # <<>>
        OBVIOUS
      <3> QED
        BY <3>1, <3>2, <3>3, ControlStep
    <2> QED
      BY <2>1, <2>2
  <1> QED
    BY <1>1, <1>2, <1>3, <1>4, <1>5, TypeStep DEF UserTypes

LEMMA ReleaseType ==
    ASSUME TypeOK, StackInv, SharesAreCounted, NEW a \in Acquires, NEW force \in BOOLEAN,
           NEW i \in Slots, NEW k \in Places, ReleaseAt(a, force, i, k)
    PROVE  TypeOK'
  <1>1. k \in Used(i)
    BY DEF ReleaseAt, Used, Acquires, None
  <1>2. GivesUp(i, k) /\ UNCHANGED goal
    BY ReleaseGivesUp DEF ReleaseAt
  <1>3. SlotTypes' /\ UserTypes' /\ pc' \in {"user", "library"}
    BY <1>1, <1>2, GivesUpTypes
  <1>4. ClientTypes'
    BY ClientTypesFrame DEF ReleaseAt
  <1>5. non_reentrant' \in BOOLEAN
    BY DEF ReleaseAt
  <1>6. ControlTypes'
    <2>1. <<Leave, Loop("force", i, 1, "Primary"), Retire(i, TRUE)>> # <<>>
          /\ <<Leave, Retire(i, TRUE)>> # <<>>
      OBVIOUS
    <2> QED
      BY <1>3, <1>5, <2>1, ReleaseStack, ControlStep
  <1> QED
    BY <1>3, <1>4, <1>6, TypeStep

LEMMA TellClosedType ==
    ASSUME TypeOK, StackInv, SharesAreCounted,
           NEW i \in Slots, NEW k \in Places, TellClosed(i, k)
    PROVE  TypeOK'
  <1>1. k \in Used(i)
    <2>1. LoopAt({"close", "force"}, i, k)
      BY DEF TellClosed
    <2> QED
      BY <2>1, LoopItem DEF Loops
  <1>2. GivesUp(i, k) /\ UNCHANGED <<goal, clientVars, non_reentrant>>
    BY ReleaseGivesUp DEF TellClosed
  <1>3. SlotTypes' /\ UserTypes' /\ pc' \in {"user", "library"}
    BY <1>1, <1>2, GivesUpTypes
  <1>4. ClientTypes'
    BY <1>2, ClientTypesFrame
  <1>5. non_reentrant' \in BOOLEAN
    BY <1>2 DEF TypeOK
  <1>6. ControlTypes'
    <2>1. <<NextPlace(k), Retire(i, Top.op = "force")>> # <<>>
      OBVIOUS
    <2> QED
      BY <1>3, <1>5, <2>1, TellClosedStack, ControlStep
  <1> QED
    BY <1>3, <1>4, <1>6, TypeStep

LEMMA DropShareType ==
    ASSUME TypeOK, StackInv, SharesAreCounted, DropShare
    PROVE  TypeOK'
  <1> DEFINE i == Top.slot
             k == Top.place
  <1>1. i \in Slots /\ k \in Places /\ Len(stack) > 1 /\ pc = "library"
    BY DropItem DEF DropShare, Doing
  <1>2. UNCHANGED <<goal, clientVars, non_reentrant>>
    BY DEF DropShare
  <1>3. ClientTypes'
    BY <1>2, ClientTypesFrame
  <1>4. non_reentrant' \in BOOLEAN
    BY <1>2 DEF TypeOK
  <1>5. CASE shares[i][k] # None
    <2>1. k \in Used(i) /\ GivesUp(i, k)
      BY <1>1, <1>5, ReleaseGivesUp DEF Used, DropShare
    <2> HIDE DEF i, k
    <2>2. SlotTypes' /\ UserTypes' /\ pc' \in {"user", "library"}
      BY <1>1, <1>2, <2>1, GivesUpTypes
    <2>3. Becomes(Len(stack) - 1, <<Retire(i, FALSE)>>) /\ <<Retire(i, FALSE)>> # <<>>
      BY <1>5, DropShareStack DEF i, k
    <2>4. ControlTypes'
      BY <1>4, <2>2, <2>3, ControlStep
    <2> QED
      BY <1>3, <2>2, <2>4, TypeStep
  <1>6. CASE shares[i][k] = None
    <2>1. UNCHANGED <<slotVars, pc, told>>
      BY <1>6 DEF DropShare
    <2>2. SlotTypes' /\ UserTypes'
      BY <1>2, <2>1, SlotTypesFrame, UserTypesFrame
    <2>3. Becomes(Len(stack) - 1, <<>>) /\ Len(stack) - 1 # 0
      BY <1>1, <1>6, DropShareStack, StackTypes
    <2>4. ControlTypes'
      BY <1>1, <1>4, <2>1, <2>3, ControlStep
    <2> QED
      BY <1>3, <2>2, <2>4, TypeStep
  <1> QED
    BY <1>5, <1>6

LEMMA TellConnectedType ==
    ASSUME TypeOK, StackInv, NEW i \in Slots, NEW k \in Places, TellConnected(i, k)
    PROVE  TypeOK'
  <1> DEFINE a == shares[i][k]
  <1>1. k \in Used(i) /\ Top \in Items /\ Top.op = "accept"
    <2>1. LoopAt({"accept"}, i, k)
      BY DEF TellConnected
    <2> QED
      BY <2>1, LoopItem DEF Loops
  <1>2. a \in Acquires /\ Top.level \in Levels
    BY <1>1, UsedFacts, ItemTypes DEF Loops
  <1>3. /\ callback' = [callback EXCEPT ![a] = "disconnect"]
        /\ Tell(a, "Connected", Top.level)
        /\ pc' = "user"
        /\ UNCHANGED <<non_reentrant, client, delete_pending, share_count, shares, clientVars, goal>>
    BY DEF TellConnected
  <1> HIDE DEF a
  <1>4. SlotTypes'
    BY <1>2, <1>3 DEF SlotTypes, TypeOK
  <1>5. ClientTypes'
    BY <1>3, ClientTypesFrame
  <1>6. UserTypes'
    <2>1. told' \in [Acquires -> Seq(Calls)]
      BY <1>2, <1>3, TellType
    <2>2. goal' \in Seq(Hosts) /\ acquired' <= MaxAcquires
      BY <1>3 DEF TypeOK, acquired
    <2> QED
      BY <2>1, <2>2 DEF UserTypes
  <1>7. ControlTypes'
    <2>1. non_reentrant' \in BOOLEAN
      BY <1>3 DEF TypeOK
    <2> QED
      BY <1>3, <2>1, TellConnectedStack, ControlStep
  <1> QED
    BY <1>4, <1>5, <1>6, <1>7, TypeStep

LEMMA TellFailedType ==
    ASSUME TypeOK, StackInv, NEW i \in Slots, NEW k \in Places, TellFailed(i, k)
    PROVE  TypeOK'
  <1> DEFINE a == shares[i][k]
  <1>1. k \in Used(i) /\ Top \in Items /\ Top.op = "refuse"
    <2>1. LoopAt({"refuse"}, i, k)
      BY DEF TellFailed
    <2> QED
      BY <2>1, LoopItem DEF Loops
  <1>2. a \in Acquires /\ Top.level \in Levels
    BY <1>1, UsedFacts, ItemTypes DEF Loops
  <1>3. /\ callback' = [callback EXCEPT ![a] = "none"]
        /\ Tell(a, "Failed", Top.level)
        /\ pc' = "user"
        /\ UNCHANGED <<non_reentrant, client, delete_pending, share_count, shares, clientVars, goal>>
    BY DEF TellFailed
  <1> HIDE DEF a
  <1>4. SlotTypes'
    BY <1>2, <1>3 DEF SlotTypes, TypeOK
  <1>5. ClientTypes'
    BY <1>3, ClientTypesFrame
  <1>6. UserTypes'
    <2>1. told' \in [Acquires -> Seq(Calls)]
      BY <1>2, <1>3, TellType
    <2>2. goal' \in Seq(Hosts) /\ acquired' <= MaxAcquires
      BY <1>3 DEF TypeOK, acquired
    <2> QED
      BY <2>1, <2>2 DEF UserTypes
  <1>7. ControlTypes'
    <2>1. non_reentrant' \in BOOLEAN
      BY <1>3 DEF TypeOK
    <2> QED
      BY <1>3, <2>1, TellFailedStack, ControlStep
  <1> QED
    BY <1>4, <1>5, <1>6, <1>7, TypeStep

\* The library goes on with what lies below, if there is anything.
LEMMA GoOnControl ==
    ASSUME TypeOK, StackInv, stack # <<>>, stack' = Rest, pc' = GoOn(Rest),
           non_reentrant' = non_reentrant, Top.op # "leave"
    PROVE  /\ Becomes(Len(stack) - 1, <<>>) /\ StackInv'
           /\ ControlTypes'
  <1>1. Becomes(Len(stack) - 1, <<>>) /\ StackInv'
    BY PopStep
  <1>2. Rest \in Seq(Items) /\ Len(Rest) = Len(stack) - 1
    BY StackTypes, TopType
  <1>3. pc' \in {"user", "library", "undefined"} /\ non_reentrant' \in BOOLEAN
    BY DEF GoOn, TypeOK
  <1>4. pc' = "library" => Len(stack) - 1 # 0
    BY <1>2 DEF GoOn
  <1> QED
    BY <1>1, <1>3, <1>4, ControlStep

LEMMA RetireItem ==
    ASSUME TypeOK, StackInv, Doing("retire")
    PROVE  /\ stack # <<>> /\ Top \in Items /\ Top = stack[Len(stack)]
           /\ Top.op = "retire" /\ Top.slot \in Slots /\ Top.object # None
           /\ Top.disconnect \in BOOLEAN
           /\ Len(stack) > 1 /\ Len(stack) # 1
           /\ LiesOn(Top, stack[Len(stack) - 1])
  <1>1. pc = "library" /\ Top.op = "retire"
    BY DEF Doing
  <1>2. stack # <<>> /\ Top \in Items /\ Top = stack[Len(stack)]
    BY <1>1, StackTypes
  <1>3. /\ Len(stack) > 1 /\ Len(stack) # 1 /\ LiesOn(Top, stack[Len(stack) - 1])
        /\ Top.object # None
    BY <1>1, <1>2, TopLies
  <1> QED
    BY <1>1, <1>2, <1>3, ItemTypes

\* RetireSlot without the control.
Retires(i, disconnect) ==
    /\ client[i] # None
    /\ delete_pending' = [delete_pending EXCEPT ![i] = @ \/ share_count[i] = 0]
    /\ IF share_count[i] = 0 /\ disconnect
       THEN CloseClient(i) /\ UNCHANGED resolves
       ELSE UNCHANGED clientVars
    /\ UNCHANGED <<client, shares, share_count, callback, goal, told>>

LEMMA RetireSlotFacts ==
    ASSUME TypeOK, StackInv, RetireSlot
    PROVE  /\ Top.slot \in Slots
           /\ Retires(Top.slot, Top.disconnect)
           /\ client[Top.slot] = Top.object
           /\ Becomes(Len(stack) - 1, <<>>) /\ StackInv' /\ ControlTypes'
  <1>1. /\ stack # <<>> /\ Top.op = "retire" /\ Top.slot \in Slots /\ Top.object # None
    BY RetireItem DEF RetireSlot
  <1>2. client[Top.slot] = Top.object
    BY DEF RetireSlot, IsGone
  <1>3. Retires(Top.slot, Top.disconnect)
    BY <1>1, <1>2 DEF RetireSlot, Retires, MarkForDeletion, DisconnectClient
  <1>4. stack' = Rest /\ pc' = GoOn(Rest) /\ non_reentrant' = non_reentrant
    BY DEF RetireSlot
  <1> QED
    BY <1>1, <1>2, <1>3, <1>4, GoOnControl

LEMMA RetireSlotType ==
    ASSUME TypeOK, StackInv, RetireSlot
    PROVE  TypeOK'
  <1> DEFINE i == Top.slot
  <1>1. i \in Slots /\ Retires(i, Top.disconnect) /\ ControlTypes'
    BY RetireSlotFacts
  <1> HIDE DEF i
  <1>2. delete_pending' \in [Slots -> BOOLEAN]
    <2>1. delete_pending \in [Slots -> BOOLEAN]
      BY DEF TypeOK
    <2>2. delete_pending' = [delete_pending EXCEPT ![i] = delete_pending[i] \/ share_count[i] = 0]
      BY <1>1 DEF Retires
    <2>3. (delete_pending[i] \/ share_count[i] = 0) \in BOOLEAN
      OBVIOUS
    <2> QED
      BY <2>1, <2>2, <2>3
  <1>3. SlotTypes'
    BY <1>1, <1>2 DEF SlotTypes, Retires, TypeOK
  <1>4. ClientTypes'
    <2>1. CASE share_count[i] = 0 /\ Top.disconnect
      BY <1>1, <2>1, CloseClientTypes DEF Retires
    <2>2. CASE ~(share_count[i] = 0 /\ Top.disconnect)
      BY <1>1, <2>2, ClientTypesFrame DEF Retires
    <2> QED
      BY <2>1, <2>2
  <1>5. UserTypes'
    BY <1>1, UserTypesFrame DEF Retires
  <1> QED
    BY <1>1, <1>3, <1>4, <1>5, TypeStep

\* Some steps change neither slots nor clients nor what users know.
LEMMA QuietType ==
    ASSUME TypeOK, UNCHANGED <<slotVars, attempt, link, goal, told>>,
           resolves' \subseteq resolves, ControlTypes'
    PROVE  TypeOK'
  <1>1. SlotTypes' /\ UserTypes'
    BY SlotTypesFrame, UserTypesFrame
  <1>2. ClientTypes'
    <2>1. resolves \subseteq [client : Acquires, attempt : Acquires]
      BY DEF TypeOK
    <2>2. attempt' \in [Slots -> Objects] /\ link' \in [Slots -> Links]
      BY DEF TypeOK
    <2> QED
      BY <2>1, <2>2 DEF ClientTypes
  <1> QED
    BY <1>1, <1>2, TypeStep

UndefinedStep ==
    \/ \E h \in Hosts : AcquireUndefined(h)
    \/ ReadDeleted
    \/ \E i \in Slots, k \in Places : TellUndefined(i, k)

IdleStep ==
    \/ CallbackReturns
    \/ UNCHANGED vars
    \/ UndefinedStep
    \/ \E r \in resolves : Answer(r) /\ AnswerTooLate(r)

LEMMA IdleFacts ==
    ASSUME TypeOK, StackInv, IdleStep
    PROVE  /\ UNCHANGED <<slotVars, attempt, link, goal, told, stack, non_reentrant>>
           /\ resolves' \subseteq resolves
           /\ StackInv' /\ TypeOK'
  <1>1. /\ UNCHANGED <<slotVars, attempt, link, goal, told, stack, non_reentrant>>
        /\ resolves' \subseteq resolves
        /\ pc' = "library" => stack # <<>>
        /\ pc' \in {"user", "library", "undefined"}
    <2>1. CASE CallbackReturns
      BY <2>1 DEF CallbackReturns, clientVars
    <2>2. CASE UNCHANGED vars
      BY <2>2 DEF vars, clientVars, TypeOK
    <2>3. CASE UndefinedStep
      <3>1. Undefined
        BY <2>3 DEF UndefinedStep, AcquireUndefined, ReadDeleted, TellUndefined
      <3> QED
        BY <3>1 DEF Undefined, clientVars
    <2>4. CASE \E r \in resolves : Answer(r) /\ AnswerTooLate(r)
      <3>1. UNCHANGED <<slotVars, attempt, link, goal, told, stack, non_reentrant>>
            /\ resolves' \subseteq resolves
        BY <2>4 DEF Answer, AnswerTooLate
      <3>2. pc' \in {"user", "undefined"}
        BY <2>4 DEF Answer, AnswerTooLate
      <3> QED
        BY <3>1, <3>2
    <2> QED
      BY <2>1, <2>2, <2>3, <2>4 DEF IdleStep
  <1>2. Becomes(Len(stack), <<>>) /\ StackInv'
    BY <1>1, KeepStep
  <1>3. stack # <<>> => Len(stack) # 0
    BY StackTypes
  <1>4. non_reentrant' \in BOOLEAN
    BY <1>1 DEF TypeOK
  <1>5. ControlTypes'
    BY <1>1, <1>2, <1>3, <1>4, ControlStep
  <1>6. TypeOK'
    BY <1>1, <1>5, QuietType
  <1> QED
    BY <1>1, <1>2, <1>6

\* Something is done with nothing left to do for it.
PopsQuietly ==
    \/ LeaveScope
    \/ LoopEnds
    \/ TickEnds
    \/ ClientReceives /\ stack' = Rest /\ UNCHANGED <<attempt, link>>
    \/ DropShare /\ shares[Top.slot][Top.place] = None

LEMMA PopsQuietlyFacts ==
    ASSUME TypeOK, StackInv, SharesAreCounted, PopsQuietly
    PROVE  /\ UNCHANGED <<slotVars, clientVars, goal, told>>
           /\ stack # <<>> /\ Top \in Items /\ Top = stack[Len(stack)]
           /\ Top.op # "retire"
           /\ Becomes(Len(stack) - 1, <<>>) /\ StackInv' /\ TypeOK'
  <1>1. CASE LeaveScope
    <2>1. Top.op = "leave" /\ pc = "library" /\ stack' = Rest /\ pc' = "user"
          /\ non_reentrant' = FALSE /\ UNCHANGED <<slotVars, clientVars, goal, told>>
      BY <1>1 DEF LeaveScope, Doing
    <2>2. stack # <<>> /\ Top \in Items /\ Top = stack[Len(stack)]
      BY <2>1, StackTypes
    <2>3. Becomes(Len(stack) - 1, <<>>) /\ StackInv'
      BY <2>1, <2>2, PopStep
    <2>4. ControlTypes'
      BY <2>1, <2>3, ControlStep
    <2>5. TypeOK'
      BY <2>1, <2>4, QuietType DEF clientVars
    <2> QED
      BY <2>1, <2>2, <2>3, <2>5
  <1>2. CASE LoopEnds
    <2>1. Top.op \in Loops /\ pc = "library" /\ stack' = Rest /\ pc' = GoOn(Rest)
          /\ non_reentrant' = non_reentrant /\ UNCHANGED <<slotVars, clientVars, goal, told>>
      BY <1>2 DEF LoopEnds, Looping, Loops
    <2>2. stack # <<>> /\ Top \in Items /\ Top = stack[Len(stack)]
      BY <2>1, StackTypes
    <2>3. Becomes(Len(stack) - 1, <<>>) /\ StackInv' /\ ControlTypes'
      BY <2>1, <2>2, GoOnControl DEF Loops
    <2>4. TypeOK'
      BY <2>1, <2>3, QuietType DEF clientVars
    <2> QED
      BY <2>1, <2>2, <2>3, <2>4 DEF Loops
  <1>3. CASE TickEnds
    <2>1. Doing("tick") /\ pc' = "library"
          /\ non_reentrant' = non_reentrant /\ UNCHANGED <<slotVars, clientVars, goal, told>>
      BY <1>3 DEF TickEnds
    <2>2. stack # <<>> /\ Top \in Items /\ Top = stack[Len(stack)] /\ Top.op = "tick"
          /\ Len(stack) # 1
      BY <2>1, TickItem
    <2>3. Becomes(Len(stack) - 1, <<>>) /\ StackInv'
      BY <1>3, TickEndsStack
    <2>4. ControlTypes'
      <3>1. non_reentrant' \in BOOLEAN /\ Len(stack) - 1 # 0
        BY <2>1, <2>2, StackTypes DEF TypeOK
      <3> QED
        BY <2>1, <2>3, <3>1, ControlStep
    <2>5. TypeOK'
      BY <2>1, <2>4, QuietType DEF clientVars
    <2> QED
      BY <2>1, <2>2, <2>3, <2>5
  <1>4. CASE ClientReceives /\ stack' = Rest /\ UNCHANGED <<attempt, link>>
    <2>1. Doing("receive") /\ pc' = pc /\ pc = "library"
          /\ non_reentrant' = non_reentrant /\ UNCHANGED <<slotVars, clientVars, goal, told>>
      BY <1>4 DEF ClientReceives, Doing, clientVars
    <2>2. stack # <<>> /\ Top \in Items /\ Top = stack[Len(stack)] /\ Top.op = "receive"
          /\ Len(stack) # 1
      BY <2>1, ReceiveItem
    <2>3. Becomes(Len(stack) - 1, <<>>) /\ StackInv'
      BY <1>4, <2>1, <2>2, PopStep
    <2>4. ControlTypes'
      <3>1. non_reentrant' \in BOOLEAN /\ Len(stack) - 1 # 0
        BY <2>1, <2>2, StackTypes DEF TypeOK
      <3> QED
        BY <2>1, <2>3, <3>1, ControlStep
    <2>5. TypeOK'
      BY <2>1, <2>4, QuietType DEF clientVars
    <2> QED
      BY <2>1, <2>2, <2>3, <2>5
  <1>5. CASE DropShare /\ shares[Top.slot][Top.place] = None
    <2>1. Doing("drop") /\ UNCHANGED <<slotVars, clientVars, goal, told>>
      BY <1>5 DEF DropShare
    <2>2. stack # <<>> /\ Top \in Items /\ Top = stack[Len(stack)] /\ Top.op = "drop"
      BY <2>1, DropItem
    <2>3. Becomes(Len(stack) - 1, <<>>) /\ StackInv'
      BY <1>5, DropShareStack
    <2>4. TypeOK'
      BY <1>5, DropShareType
    <2> QED
      BY <2>1, <2>2, <2>3, <2>4
  <1> QED
    BY <1>1, <1>2, <1>3, <1>4, <1>5 DEF PopsQuietly

LEMMA TickFacts ==
    ASSUME TypeOK, StackInv, Tick
    PROVE  /\ UNCHANGED <<slotVars, clientVars, goal, told>>
           /\ Becomes(Len(stack), <<Leave, TickSlot(1)>>) /\ StackInv' /\ TypeOK'
  <1>1. /\ UNCHANGED <<slotVars, clientVars, goal, told>>
        /\ pc' = "library" /\ non_reentrant' \in BOOLEAN
    BY DEF Tick
  <1>2. Becomes(Len(stack), <<Leave, TickSlot(1)>>) /\ StackInv'
    BY TickStack
  <1>3. <<Leave, TickSlot(1)>> # <<>>
    OBVIOUS
  <1>4. ControlTypes'
    BY <1>1, <1>2, <1>3, ControlStep
  <1>5. TypeOK'
    BY <1>1, <1>4, QuietType DEF clientVars
  <1> QED
    BY <1>1, <1>2, <1>5

-----------------------------------------------------------------------------
(* What happens to clients.                                                *)

\* The client of slot i gets on with its connection.
GetsOn(i, l) ==
    /\ link[i] \notin {"closed", "connected"}
    /\ l \in {"waiting", "resolved", "connected"}
    /\ link[i] = "waiting" => l = "resolved"
    /\ link' = [link EXCEPT ![i] = l]
    /\ UNCHANGED <<slotVars, attempt, goal, told>>

LEMMA GetsOnType ==
    ASSUME TypeOK, NEW i \in Slots, NEW l, GetsOn(i, l), ControlTypes',
           resolves' \subseteq [client : Acquires, attempt : Acquires]
    PROVE  TypeOK'
  <1>1. SlotTypes' /\ UserTypes'
    BY SlotTypesFrame, UserTypesFrame DEF GetsOn
  <1>2. ClientTypes'
    <2>1. attempt' \in [Slots -> Objects] /\ link \in [Slots -> Links]
      BY DEF TypeOK, GetsOn
    <2>2. link' = [link EXCEPT ![i] = l] /\ l \in Links
      BY DEF GetsOn, Links
    <2>3. link' \in [Slots -> Links]
      BY <2>1, <2>2
    <2> QED
      BY <2>1, <2>3 DEF ClientTypes
  <1> QED
    BY <1>1, <1>2, TypeStep

LEMMA ClientWaitsFacts ==
    ASSUME TypeOK, StackInv, LinkInv, NEW i \in Slots, ClientWaits(i)
    PROVE  /\ \/ GetsOn(i, "resolved") /\ UNCHANGED resolves
              \/ GetsOn(i, "waiting") /\ LateAnswers
              \/ UNCHANGED <<slotVars, clientVars, goal, told>>
           /\ Top.op = "tick"
           /\ Becomes(Len(stack) - 1, <<TickSlot(i + 1)>>) /\ StackInv' /\ TypeOK'
  <1>1. /\ TickAt(i) /\ TickNext(i) /\ Live(i) /\ UNCHANGED <<slotVars, attempt>>
        /\ UNCHANGED <<non_reentrant, pc, goal, told>>
    BY DEF ClientWaits, ClientTicks, TickNext
  <1>2. Becomes(Len(stack) - 1, <<TickSlot(i + 1)>>) /\ StackInv'
    BY <1>1, TickNextStack
  <1>3. ControlTypes'
    <2>1. <<TickSlot(i + 1)>> # <<>> /\ non_reentrant' \in BOOLEAN
          /\ pc' \in {"user", "library", "undefined"}
      BY <1>1 DEF TypeOK
    <2> QED
      BY <1>2, <2>1, ControlStep
  <1>4. Top.op = "tick"
    BY <1>1, TickItem DEF TickAt
  <1>5. resolves \subseteq [client : Acquires, attempt : Acquires]
    BY DEF TypeOK
  <1>6. CASE UNCHANGED <<link, resolves>>
    <2>1. UNCHANGED <<slotVars, clientVars, goal, told>>
      BY <1>1, <1>6 DEF clientVars
    <2>2. TypeOK'
      BY <1>1, <1>3, <1>6, QuietType
    <2> QED
      BY <1>2, <1>4, <2>1, <2>2
  <1>7. CASE link[i] = "fresh" /\ link' = [link EXCEPT ![i] = "resolved"] /\ UNCHANGED resolves
    <2>1. GetsOn(i, "resolved")
      BY <1>1, <1>7 DEF GetsOn
    <2>2. TypeOK'
      BY <1>3, <1>5, <1>7, <2>1, GetsOnType
    <2> QED
      BY <1>2, <1>4, <1>7, <2>1, <2>2
  <1>8. CASE /\ LateAnswers
             /\ link[i] = "fresh"
             /\ link' = [link EXCEPT ![i] = "waiting"]
             /\ resolves' = resolves \cup {[client |-> client[i], attempt |-> attempt[i]]}
    <2>1. GetsOn(i, "waiting")
      BY <1>1, <1>8 DEF GetsOn
    <2>2. client[i] \in Objects /\ attempt[i] \in Objects
      BY DEF TypeOK
    <2>3. client[i] \in Acquires /\ attempt[i] \in Acquires
      BY <1>1, <1>8, <2>2 DEF Live, LinkInv, Objects
    <2>4. resolves' \subseteq [client : Acquires, attempt : Acquires]
      BY <1>5, <1>8, <2>3
    <2>5. TypeOK'
      BY <1>3, <2>1, <2>4, GetsOnType
    <2> QED
      BY <1>2, <1>4, <1>8, <2>1, <2>5
  <1> QED
    BY <1>6, <1>7, <1>8 DEF ClientWaits

LEMMA ClientConnectsFacts ==
    ASSUME TypeOK, StackInv, NEW i \in Slots, ClientConnects(i)
    PROVE  /\ Live(i) /\ link[i] \in {"fresh", "resolved"}
           /\ GetsOn(i, "connected") /\ UNCHANGED resolves
           /\ Top.op = "tick"
           /\ Becomes(Len(stack) - 1,
                      <<TickSlot(i + 1), Receive(i), Loop("accept", i, 1, "Primary")>>)
           /\ StackInv' /\ TypeOK'
  <1>1. /\ TickAt(i) /\ Live(i) /\ link[i] \in {"fresh", "resolved"}
        /\ GetsOn(i, "connected") /\ UNCHANGED <<resolves, non_reentrant, pc>>
    BY DEF ClientConnects, ClientTicks, GetsOn
  <1>2. /\ Becomes(Len(stack) - 1,
                   <<TickSlot(i + 1), Receive(i), Loop("accept", i, 1, "Primary")>>)
        /\ StackInv'
    BY ClientConnectsStack
  <1>3. ControlTypes'
    <2>1. /\ <<TickSlot(i + 1), Receive(i), Loop("accept", i, 1, "Primary")>> # <<>>
          /\ non_reentrant' \in BOOLEAN
          /\ pc' \in {"user", "library", "undefined"}
      BY <1>1 DEF TypeOK
    <2> QED
      BY <1>2, <2>1, ControlStep
  <1>4. resolves' \subseteq [client : Acquires, attempt : Acquires]
    BY <1>1 DEF TypeOK
  <1>5. TypeOK'
    BY <1>1, <1>3, <1>4, GetsOnType
  <1> QED
    BY <1>1, <1>2, <1>5, TickItem DEF TickAt

LEMMA AnswerAddressFacts ==
    ASSUME TypeOK, StackInv, NEW r \in resolves, NEW i \in Slots, Answer(r), AnswerAddress(r, i)
    PROVE  /\ GetsOn(i, "resolved") /\ resolves' \subseteq resolves
           /\ UNCHANGED <<stack, non_reentrant>>
           /\ Becomes(Len(stack), <<>>) /\ StackInv' /\ TypeOK'
  <1>1. /\ GetsOn(i, "resolved") /\ resolves' \subseteq resolves
        /\ UNCHANGED <<stack, non_reentrant>> /\ pc' = "user"
    BY DEF Answer, AnswerAddress, IsCurrent, GetsOn
  <1>2. Becomes(Len(stack), <<>>) /\ StackInv'
    BY <1>1, KeepStep
  <1>3. ControlTypes'
    <2>1. non_reentrant' \in BOOLEAN
      BY <1>1 DEF TypeOK
    <2> QED
      BY <1>1, <1>2, <2>1, ControlStep
  <1>4. resolves' \subseteq [client : Acquires, attempt : Acquires]
    BY <1>1 DEF TypeOK
  <1>5. TypeOK'
    BY <1>1, <1>3, <1>4, GetsOnType
  <1> QED
    BY <1>1, <1>2, <1>5

\* The client of slot i closes its connection or gives up on it.
Closes(i) ==
    /\ attempt[i] # None
    /\ CloseClient(i)
    /\ UNCHANGED <<slotVars, goal, told>>

LEMMA ClosesType ==
    ASSUME TypeOK, NEW i \in Slots, Closes(i), ControlTypes', resolves' \subseteq resolves
    PROVE  TypeOK'
  <1>1. SlotTypes' /\ UserTypes'
    BY SlotTypesFrame, UserTypesFrame DEF Closes
  <1>2. resolves' \subseteq [client : Acquires, attempt : Acquires]
    BY DEF TypeOK
  <1>3. ClientTypes'
    BY <1>2, CloseClientType DEF Closes, ClientTypes
  <1> QED
    BY <1>1, <1>3, TypeStep

LEMMA ClientReportsFacts ==
    ASSUME TypeOK, StackInv, LinkInv, NEW i \in Slots, ClientFails(i) \/ ClientDisconnects(i)
    PROVE  \E op \in {"refuse", "close"} :
               /\ Live(i)
               /\ op = "refuse" => link[i] \in {"fresh", "resolved"}
               /\ op = "close" => link[i] = "connected"
               /\ Closes(i) /\ UNCHANGED resolves
               /\ Top.op = "tick"
               /\ Becomes(Len(stack) - 1, <<TickSlot(i + 1), Loop(op, i, 1, "Primary")>>)
               /\ StackInv' /\ TypeOK'
  <1>1. PICK op \in {"refuse", "close"} :
            /\ op = "refuse" => ClientFails(i)
            /\ op = "close" => ClientDisconnects(i)
    OBVIOUS
  <1>2. /\ TickAt(i) /\ Live(i) /\ CloseClient(i)
        /\ op = "refuse" => link[i] \in {"fresh", "resolved"}
        /\ op = "close" => link[i] = "connected"
        /\ UNCHANGED <<slotVars, goal, told, resolves, non_reentrant, pc>>
        /\ ReportStack(i, op)
    BY <1>1 DEF ClientFails, ClientDisconnects, ClientTicks, ReportStack
  <1>3. Closes(i)
    BY <1>2 DEF Closes, LinkInv
  <1>4. Becomes(Len(stack) - 1, <<TickSlot(i + 1), Loop(op, i, 1, "Primary")>>) /\ StackInv'
    BY <1>2, TickReportStack
  <1>5. ControlTypes'
    <2>1. /\ <<TickSlot(i + 1), Loop(op, i, 1, "Primary")>> # <<>>
          /\ non_reentrant' \in BOOLEAN
          /\ pc' \in {"user", "library", "undefined"}
      BY <1>2 DEF TypeOK
    <2> QED
      BY <1>4, <2>1, ControlStep
  <1>6. TypeOK'
    BY <1>2, <1>3, <1>5, ClosesType
  <1> QED
    BY <1>2, <1>3, <1>4, <1>6, TickItem DEF TickAt

LEMMA ReceiveClosesFacts ==
    ASSUME TypeOK, StackInv, LinkInv, ClientReceives, ~UNCHANGED <<attempt, link>>
    PROVE  /\ Top.slot \in Slots /\ link[Top.slot] = "connected"
           /\ Closes(Top.slot) /\ UNCHANGED resolves
           /\ Top.op = "receive"
           /\ Becomes(Len(stack) - 1, <<Loop("close", Top.slot, 1, "Primary")>>)
           /\ StackInv' /\ TypeOK'
  <1> DEFINE i == Top.slot
  <1>1. /\ Doing("receive") /\ link[i] = "connected" /\ CloseClient(i)
        /\ stack' = Append(Rest, Loop("close", i, 1, "Primary"))
        /\ UNCHANGED <<non_reentrant, slotVars, resolves, pc, goal, told>>
    BY DEF ClientReceives
  <1>2. i \in Slots /\ Top.op = "receive"
    BY <1>1, ReceiveItem
  <1>3. Closes(i)
    BY <1>1, <1>2 DEF Closes, LinkInv
  <1>4. Becomes(Len(stack) - 1, <<Loop("close", i, 1, "Primary")>>) /\ StackInv'
    BY <1>1, ReceiveCloseStack
  <1>5. ControlTypes'
    <2>1. /\ <<Loop("close", i, 1, "Primary")>> # <<>>
          /\ non_reentrant' \in BOOLEAN
          /\ pc' \in {"user", "library", "undefined"}
      BY <1>1 DEF TypeOK
    <2> QED
      BY <1>4, <2>1, ControlStep
  <1>6. resolves' \subseteq resolves
    BY <1>1
  <1>7. TypeOK'
    BY <1>2, <1>3, <1>5, <1>6, ClosesType
  <1> QED
    BY <1>1, <1>2, <1>3, <1>4, <1>7

LEMMA AnswerFailureFacts ==
    ASSUME TypeOK, StackInv, LinkInv,
           NEW r \in resolves, NEW i \in Slots, Answer(r), AnswerFailure(r, i)
    PROVE  /\ link[i] = "waiting" /\ client[i] # None
           /\ Closes(i) /\ resolves' \subseteq resolves
           /\ stack = <<>> /\ Len(stack) = 0
           /\ Becomes(0, <<Loop("refuse", i, 1, "Primary")>>)
           /\ StackInv' /\ TypeOK'
  <1>1. /\ stack = <<>> /\ CloseClient(i) /\ link[i] = "waiting" /\ pc' = "library"
        /\ stack' = <<Loop("refuse", i, 1, "Primary")>>
        /\ client[i] = r.client
        /\ resolves' \subseteq resolves
        /\ UNCHANGED <<slotVars, goal, told, non_reentrant>>
    BY DEF Answer, AnswerFailure, IsCurrent
  <1>2. client[i] # None
    <2>1. r.client \in Acquires
      BY DEF TypeOK
    <2> QED
      BY <1>1, <2>1 DEF Acquires, None
  <1>3. Closes(i)
    BY <1>1 DEF Closes, LinkInv
  <1>4. Becomes(0, <<Loop("refuse", i, 1, "Primary")>>) /\ StackInv'
    BY <1>1, AnswerFailureStack
  <1>5. ControlTypes'
    <2>1. <<Loop("refuse", i, 1, "Primary")>> # <<>> /\ non_reentrant' \in BOOLEAN
      BY <1>1 DEF TypeOK
    <2> QED
      BY <1>1, <1>4, <2>1, ControlStep
  <1>6. TypeOK'
    BY <1>1, <1>3, <1>5, ClosesType
  <1>7. Len(stack) = 0
    BY <1>1
  <1> QED
    BY <1>1, <1>2, <1>3, <1>4, <1>6, <1>7

\* tick() deletes what there is of slot i.
Deletes(i) ==
    /\ ~Live(i)
    /\ client' = [client EXCEPT ![i] = None]
    /\ delete_pending' = [delete_pending EXCEPT ![i] = FALSE]
    /\ CloseClient(i)
    /\ UNCHANGED <<share_count, shares, callback, resolves, goal, told>>

LEMMA TickDeleteFacts ==
    ASSUME TypeOK, StackInv, NEW i \in Slots, TickDelete(i)
    PROVE  /\ Deletes(i)
           /\ Top.op = "tick"
           /\ Becomes(Len(stack) - 1, <<TickSlot(i + 1)>>) /\ StackInv' /\ TypeOK'
  <1>1. TickAt(i) /\ TickNext(i) /\ Deletes(i) /\ UNCHANGED <<non_reentrant, pc>>
    BY DEF TickDelete, TickNext, Deletes
  <1>2. Becomes(Len(stack) - 1, <<TickSlot(i + 1)>>) /\ StackInv'
    BY <1>1, TickNextStack
  <1>3. ControlTypes'
    <2>1. <<TickSlot(i + 1)>> # <<>> /\ non_reentrant' \in BOOLEAN
          /\ pc' \in {"user", "library", "undefined"}
      BY <1>1 DEF TypeOK
    <2> QED
      BY <1>2, <2>1, ControlStep
  <1>4. SlotTypes'
    <2>1. client \in [Slots -> Objects] /\ delete_pending \in [Slots -> BOOLEAN]
          /\ None \in Objects
      BY DEF TypeOK, Objects
    <2>2. client' \in [Slots -> Objects] /\ delete_pending' \in [Slots -> BOOLEAN]
      BY <1>1, <2>1 DEF Deletes
    <2>3. /\ share_count' \in [Slots -> 0..MaxShares]
          /\ shares' \in [Slots -> [Places -> Objects]]
          /\ callback' \in [Acquires -> {"none", "connect", "disconnect"}]
      BY <1>1 DEF Deletes, TypeOK
    <2> QED
      BY <2>2, <2>3 DEF SlotTypes
  <1>5. ClientTypes' /\ UserTypes'
    BY <1>1, CloseClientTypes, UserTypesFrame DEF Deletes
  <1>6. TypeOK'
    BY <1>3, <1>4, <1>5, TypeStep
  <1> QED
    BY <1>1, <1>2, <1>6, TickItem DEF TickAt

-----------------------------------------------------------------------------
(* All steps.                                                              *)

LEMMA StepCases ==
    ASSUME TypeOK, StackInv, SharesAreCounted, [Next]_vars
    PROVE  \/ IdleStep
           \/ PopsQuietly
           \/ Tick
           \/ \E h \in Hosts, i \in Slots, k \in Places : AcquireShareAt(h, i, k)
           \/ \E h \in Hosts, i \in Slots : AcquireSlotAt(h, i)
           \/ \E a \in Acquires, force \in BOOLEAN, i \in Slots, k \in Places :
                  ReleaseAt(a, force, i, k)
           \/ RetireSlot
           \/ DropShare /\ shares[Top.slot][Top.place] # None
           \/ \E i \in Slots, k \in Places :
                  TellConnected(i, k) \/ TellFailed(i, k) \/ TellClosed(i, k)
           \/ \E i \in Slots : \/ TickDelete(i) \/ ClientWaits(i) \/ ClientConnects(i)
                               \/ ClientFails(i) \/ ClientDisconnects(i)
           \/ ClientReceives /\ ~UNCHANGED <<attempt, link>>
           \/ \E r \in resolves, i \in Slots :
                  Answer(r) /\ (AnswerFailure(r, i) \/ AnswerAddress(r, i))
  <1>1. CASE UNCHANGED vars
    BY <1>1 DEF IdleStep
  <1>2. CASE UserStep
    <2>1. CASE \E h \in Hosts : AcquireUndefined(h)
      BY <2>1 DEF IdleStep, UndefinedStep
    <2>2. CASE \E h \in Hosts : AcquireShare(h)
      BY <2>2, AcquireSharePlace
    <2>3. CASE \E h \in Hosts : AcquireSlot(h)
      BY <2>3, AcquireSlotPlace
    <2>4. CASE \E a \in Acquires, force \in BOOLEAN : Release(a, force)
      BY <2>4 DEF Release, ReleaseAt
    <2>5. CASE Tick
      BY <2>5
    <2> QED
      BY <1>2, <2>1, <2>2, <2>3, <2>4, <2>5 DEF UserStep
  <1>3. CASE CallbackReturns
    BY <1>3 DEF IdleStep
  <1>4. CASE LibraryStep
    <2>1. CASE LeaveScope \/ LoopEnds \/ TickEnds
      BY <2>1 DEF PopsQuietly
    <2>2. CASE ReadDeleted \/ \E i \in Slots, k \in Places : TellUndefined(i, k)
      BY <2>2 DEF IdleStep, UndefinedStep
    <2>3. CASE DropShare
      BY <2>3 DEF PopsQuietly
    <2>4. CASE ClientReceives
      <3>1. CASE UNCHANGED <<attempt, link>>
        <4>1. Doing("receive")
          BY <2>4 DEF ClientReceives
        <4>2. CASE stack' = Rest
          BY <2>4, <3>1, <4>2 DEF PopsQuietly
        <4>3. CASE link[Top.slot] = "connected" /\ CloseClient(Top.slot)
          <5>1. link' = [link EXCEPT ![Top.slot] = "closed"] /\ link' = link
            BY <3>1, <4>3 DEF CloseClient
          <5>2. Top.slot \in Slots /\ link \in [Slots -> Links]
            BY <4>1, ReceiveItem DEF TypeOK
          <5> QED
            BY <4>3, <5>1, <5>2
        <4> QED
          BY <2>4, <4>2, <4>3 DEF ClientReceives
      <3>2. CASE ~UNCHANGED <<attempt, link>>
        BY <2>4, <3>2
      <3> QED
        BY <3>1, <3>2
    <2>5. CASE RetireSlot
      BY <2>5
    <2>6. CASE \E i \in Slots, k \in Places :
                   TellConnected(i, k) \/ TellFailed(i, k) \/ TellClosed(i, k)
      BY <2>6
    <2>7. CASE (\E i \in Slots : TickDelete(i)) \/ ClientStep
      BY <2>7 DEF ClientStep
    <2> QED
      BY <1>4, <2>1, <2>2, <2>3, <2>4, <2>5, <2>6, <2>7 DEF LibraryStep
  <1>5. CASE AnswerStep
    <2>1. PICK r \in resolves : Answer(r)
      BY <1>5 DEF AnswerStep
    <2>2. AnswerTooLate(r) \/ \E i \in Slots : AnswerFailure(r, i) \/ AnswerAddress(r, i)
      BY <2>1 DEF Answer
    <2> QED
      BY <2>1, <2>2 DEF IdleStep
  <1>6. CASE Anything
    BY <1>6 DEF Anything, IdleStep
  <1> QED
    BY <1>1, <1>2, <1>3, <1>4, <1>5, <1>6 DEF Next

\* What a step does to everything but the stack.
Effects ==
    \/ UNCHANGED <<slotVars, attempt, link, goal, told>>
    \/ \E i \in Slots, l \in Links : GetsOn(i, l)
    \/ \E i \in Slots : Closes(i)
    \/ \E i \in Slots : Deletes(i)
    \/ \E h \in Hosts, i \in Slots, k \in Places : AcquireShareAt(h, i, k)
    \/ \E h \in Hosts, i \in Slots : AcquireSlotAt(h, i)
    \/ \E i \in Slots, k \in Places :
           k \in Used(i) /\ GivesUp(i, k) /\ UNCHANGED <<clientVars, goal>>
    \/ \E i \in Slots, disconnect \in BOOLEAN : Retires(i, disconnect)
    \/ \E i \in Slots, k \in Places : TellConnected(i, k) \/ TellFailed(i, k)

LEMMA EffectCases ==
    ASSUME TypeOK, StackInv, SharesAreCounted, LinkInv, [Next]_vars
    PROVE  Effects
  <1>1. CASE IdleStep
    BY <1>1, IdleFacts DEF Effects
  <1>2. CASE PopsQuietly
    BY <1>2, PopsQuietlyFacts DEF Effects, clientVars
  <1>3. CASE Tick
    BY <1>3, TickFacts DEF Effects, clientVars
  <1>4. CASE RetireSlot
    BY <1>4, RetireSlotFacts, RetireItem DEF Effects, RetireSlot
  <1>5. ASSUME NEW i \in Slots, TickDelete(i) PROVE Effects
    BY <1>5, TickDeleteFacts DEF Effects
  <1>6. ASSUME NEW i \in Slots, ClientWaits(i) PROVE Effects
    <2>1. \/ GetsOn(i, "resolved")
          \/ GetsOn(i, "waiting")
          \/ UNCHANGED <<slotVars, attempt, link, goal, told>>
      BY <1>6, ClientWaitsFacts DEF clientVars
    <2> QED
      BY <2>1 DEF Effects, Links
  <1>7. ASSUME NEW i \in Slots, ClientConnects(i) PROVE Effects
    BY <1>7, ClientConnectsFacts DEF Effects, Links
  <1>8. ASSUME NEW i \in Slots, ClientFails(i) \/ ClientDisconnects(i) PROVE Effects
    BY <1>8, ClientReportsFacts DEF Effects
  <1>9. CASE ClientReceives /\ ~UNCHANGED <<attempt, link>>
    BY <1>9, ReceiveClosesFacts DEF Effects
  <1>10. ASSUME NEW r \in resolves, NEW i \in Slots, Answer(r), AnswerFailure(r, i)
         PROVE  Effects
    BY <1>10, AnswerFailureFacts DEF Effects
  <1>11. ASSUME NEW r \in resolves, NEW i \in Slots, Answer(r), AnswerAddress(r, i)
         PROVE  Effects
    BY <1>11, AnswerAddressFacts DEF Effects, Links
  <1>12. ASSUME NEW a \in Acquires, NEW force \in BOOLEAN, NEW i \in Slots, NEW k \in Places,
                ReleaseAt(a, force, i, k)
         PROVE  Effects
    <2>1. k \in Used(i)
      BY <1>12 DEF ReleaseAt, Used, Acquires, None
    <2> QED
      BY <1>12, <2>1, ReleaseGivesUp DEF ReleaseAt, Effects
  <1>13. CASE DropShare /\ shares[Top.slot][Top.place] # None
    <2>1. Top.slot \in Slots /\ Top.place \in Places
      BY <1>13, DropItem DEF DropShare
    <2>2. Top.place \in Used(Top.slot)
      BY <1>13, <2>1 DEF Used
    <2>3. GivesUp(Top.slot, Top.place) /\ UNCHANGED <<clientVars, goal>>
      BY <1>13, ReleaseGivesUp DEF DropShare
    <2> QED
      BY <2>1, <2>2, <2>3 DEF Effects
  <1>14. ASSUME NEW i \in Slots, NEW k \in Places, TellClosed(i, k) PROVE Effects
    <2>1. LoopAt({"close", "force"}, i, k)
      BY <1>14 DEF TellClosed
    <2>2. k \in Used(i)
      BY <2>1, LoopItem DEF Loops
    <2> QED
      BY <1>14, <2>2, ReleaseGivesUp DEF TellClosed, Effects
  <1>15. ASSUME NEW i \in Slots, NEW k \in Places, TellConnected(i, k) \/ TellFailed(i, k)
         PROVE  Effects
    BY <1>15 DEF Effects
  <1>16. ASSUME NEW h \in Hosts, NEW i \in Slots, NEW k \in Places, AcquireShareAt(h, i, k)
         PROVE  Effects
    BY <1>16 DEF Effects
  <1>17. ASSUME NEW h \in Hosts, NEW i \in Slots, AcquireSlotAt(h, i)
         PROVE  Effects
    BY <1>17 DEF Effects
  <1> QED
    BY StepCases, <1>1, <1>2, <1>3, <1>4, <1>5, <1>6, <1>7, <1>8, <1>9, <1>10, <1>11, <1>12,
       <1>13, <1>14, <1>15, <1>16, <1>17

-----------------------------------------------------------------------------
(* Links and places.                                                       *)

LEMMA LinkFrame ==
    ASSUME TypeOK, LinkInv, UNCHANGED <<client, attempt, link, goal>>
    PROVE  LinkInv'
  BY DEF LinkInv, acquired

LEMMA LinkStep ==
    ASSUME TypeOK, StackInv, SharesAreCounted, LinkInv, [Next]_vars
    PROVE  LinkInv'
  <1>1. ASSUME NEW i \in Slots, Closes(i) PROVE LinkInv'
    <2>1. attempt \in [Slots -> Objects] /\ link \in [Slots -> Links]
      BY DEF TypeOK
    <2>2. \A j \in Slots :
              /\ attempt'[j] = IF j = i THEN None ELSE attempt[j]
              /\ link'[j] = IF j = i THEN "closed" ELSE link[j]
      BY <1>1, <2>1 DEF Closes, CloseClient
    <2>3. client' = client /\ acquired' = acquired /\ None <= acquired
      BY <1>1, UserValues DEF Closes, slotVars, acquired, None
    <2> QED
      BY <2>2, <2>3 DEF LinkInv
  <1>2. ASSUME NEW i \in Slots, NEW l, GetsOn(i, l) PROVE LinkInv'
    <2>1. link \in [Slots -> Links]
      BY DEF TypeOK
    <2>2. \A j \in Slots : link'[j] = IF j = i THEN l ELSE link[j]
      BY <1>2, <2>1 DEF GetsOn
    <2>3. link[i] # "closed" /\ l # "closed"
      BY <1>2 DEF GetsOn
    <2>4. client' = client /\ attempt' = attempt /\ acquired' = acquired
      BY <1>2 DEF GetsOn, slotVars, acquired
    <2> QED
      BY <2>2, <2>3, <2>4 DEF LinkInv
  <1>3. CASE UNCHANGED <<slotVars, attempt, link, goal, told>>
    BY <1>3, LinkFrame DEF slotVars
  <1>4. ASSUME NEW h \in Hosts, NEW i \in Slots, NEW k \in Places, AcquireShareAt(h, i, k)
        PROVE  LinkInv'
    <2>1. UNCHANGED <<client, attempt, link>> /\ acquired' = acquired + 1
      BY <1>4, NewNumber DEF AcquireShareAt, clientVars
    <2>2. \A j \in Slots : attempt[j] \in Nat /\ acquired \in Nat
      BY UserValues DEF TypeOK
    <2> QED
      BY <2>1, <2>2 DEF LinkInv
  <1>5. ASSUME NEW h \in Hosts, NEW i \in Slots, AcquireSlotAt(h, i)
        PROVE  LinkInv'
    <2>1. acquired' = acquired + 1 /\ acquired + 1 \in Acquires
      BY <1>5, NewNumber DEF AcquireSlotAt
    <2>2. /\ attempt \in [Slots -> Objects] /\ link \in [Slots -> Links]
          /\ client \in [Slots -> Objects]
      BY DEF TypeOK
    <2>3. \A j \in Slots : attempt[j] \in Nat /\ acquired \in Nat
      BY UserValues, <2>2
    <2>4. \A j \in Slots : client'[j] = IF j = i /\ client[i] = None THEN acquired + 1 ELSE client[j]
      BY <1>5, <2>2 DEF AcquireSlotAt
    <2>5. acquired + 1 # None
      BY <2>1 DEF Acquires, None
    <2>6. CASE attempt[i] = None
      <3>1. \A j \in Slots :
                /\ attempt'[j] = IF j = i THEN acquired + 1 ELSE attempt[j]
                /\ link'[j] = IF j = i THEN "fresh" ELSE link[j]
        BY <1>5, <2>2, <2>6 DEF AcquireSlotAt
      <3>2. \A j \in Slots : j # i =>
                /\ link'[j] = "closed" <=> attempt'[j] = None
                /\ client'[j] = None => attempt'[j] = None
                /\ attempt'[j] <= acquired'
        BY <2>1, <2>3, <2>4, <3>1 DEF LinkInv
      <3>3. /\ link'[i] = "closed" <=> attempt'[i] = None
            /\ client'[i] = None => attempt'[i] = None
            /\ attempt'[i] <= acquired'
        BY <2>1, <2>3, <2>4, <2>5, <3>1
      <3> QED
        BY <3>2, <3>3 DEF LinkInv
    <2>7. CASE attempt[i] # None
      <3>1. attempt' = attempt /\ link' = link
        BY <1>5, <2>7 DEF AcquireSlotAt
      <3> QED
        BY <2>1, <2>3, <2>4, <2>5, <3>1 DEF LinkInv
    <2> QED
      BY <2>6, <2>7
  <1>6. ASSUME NEW i, NEW k, GivesUp(i, k), UNCHANGED <<goal, clientVars>> PROVE LinkInv'
    BY <1>6, LinkFrame DEF GivesUp, clientVars
  <1>7. ASSUME NEW i \in Slots, NEW disconnect \in BOOLEAN, Retires(i, disconnect)
        PROVE  LinkInv'
    <2>2. UNCHANGED <<client, goal>>
      BY <1>7 DEF Retires
    <2>3. CASE UNCHANGED clientVars
      BY <2>2, <2>3, LinkFrame DEF clientVars
    <2>4. CASE CloseClient(i)
      <3>1. attempt \in [Slots -> Objects] /\ link \in [Slots -> Links]
        BY DEF TypeOK
      <3>2. \A j \in Slots :
                /\ attempt'[j] = IF j = i THEN None ELSE attempt[j]
                /\ link'[j] = IF j = i THEN "closed" ELSE link[j]
        BY <2>4, <3>1 DEF CloseClient
      <3>3. client' = client /\ acquired' = acquired /\ None <= acquired
        BY <2>2, UserValues DEF acquired, None
      <3> QED
        BY <3>2, <3>3 DEF LinkInv
    <2> QED
      BY <1>7, <2>3, <2>4 DEF Retires
  <1>8. ASSUME NEW i \in Slots, NEW k \in Places, TellConnected(i, k) \/ TellFailed(i, k)
         PROVE  LinkInv'
    BY <1>8, LinkFrame DEF TellConnected, TellFailed, clientVars
  <1>9. ASSUME NEW i \in Slots, Deletes(i) PROVE LinkInv'
    <2>2. /\ attempt \in [Slots -> Objects] /\ link \in [Slots -> Links]
          /\ client \in [Slots -> Objects]
      BY DEF TypeOK
    <2>3. \A j \in Slots :
              /\ attempt'[j] = IF j = i THEN None ELSE attempt[j]
              /\ link'[j] = IF j = i THEN "closed" ELSE link[j]
              /\ client'[j] = IF j = i THEN None ELSE client[j]
      BY <1>9, <2>2 DEF Deletes, CloseClient
    <2>4. acquired' = acquired /\ None <= acquired
      BY <1>9, UserValues DEF Deletes, acquired, None
    <2> QED
      BY <2>3, <2>4 DEF LinkInv
  <1> QED
    BY EffectCases, <1>1, <1>2, <1>3, <1>4, <1>5, <1>6, <1>7, <1>8, <1>9 DEF Effects

\* A new share is one that was not there.
NewShareAt(h, i, k) == AcquireShareAt(h, i, k) \/ (AcquireSlotAt(h, i) /\ k = 1)

LEMMA NewShareFacts ==
    ASSUME TypeOK, StackInv, SharesAreCounted, NEW h \in Hosts, NEW i \in Slots, NEW k \in Places,
           NewShareAt(h, i, k)
    PROVE  /\ k \notin Used(i)
           /\ acquired + 1 \in Acquires /\ acquired' = acquired + 1
           /\ goal' \in Seq(Hosts)
           /\ \A a \in 1..acquired : goal'[a] = goal[a]
           /\ goal'[acquired + 1] = h
           /\ IsPlaced(i, k, acquired + 1)
  <1>1. MayAcquire /\ goal' = Append(goal, h)
    BY DEF NewShareAt, AcquireShareAt, AcquireSlotAt
  <1>2. /\ acquired + 1 \in Acquires /\ acquired' = acquired + 1
        /\ goal' \in Seq(Hosts)
        /\ \A a \in 1..acquired : goal'[a] = goal[a]
        /\ goal'[acquired + 1] = h
    BY <1>1, NewNumber
  <1>3. /\ k \notin Used(i)
        /\ \E held \in {"none", "connect", "disconnect"} : PlaceShare(i, k, acquired + 1, held)
    <2>1. CASE AcquireShareAt(h, i, k)
      <3>1. /\ k \notin Used(i)
            /\ \/ PlaceShare(i, k, acquired + 1, "disconnect")
               \/ PlaceShare(i, k, acquired + 1, "connect")
        BY <2>1 DEF AcquireShareAt
      <3> QED
        BY <3>1
    <2>2. CASE AcquireSlotAt(h, i) /\ k = 1
      <3>1. PlaceShare(i, k, acquired + 1, "connect") /\ ~Live(i)
        BY <2>2 DEF AcquireSlotAt
      <3>2. k \notin Used(i)
        BY <3>1 DEF SharesAreCounted, Live
      <3> QED
        BY <3>1, <3>2
    <2> QED
      BY <2>1, <2>2 DEF NewShareAt
  <1> DEFINE a == acquired + 1
  <1> HIDE DEF a
  <1>4. PICK held \in {"none", "connect", "disconnect"} : PlaceShare(i, k, a, held)
    BY <1>3 DEF a
  <1>5. IsPlaced(i, k, a)
    <2>1. a \in Acquires /\ k \notin Used(i)
      BY <1>2, <1>3 DEF a
    <2> QED
      BY <1>4, <2>1, PlaceShareUsed
  <1> QED
    BY <1>2, <1>3, <1>5 DEF a

LEMMA PlacesFrame ==
    ASSUME PlacesInv, UNCHANGED <<shares, goal>>
    PROVE  PlacesInv'
  BY DEF PlacesInv, acquired

LEMMA PlacesStep ==
    ASSUME TypeOK, StackInv, SharesAreCounted, LinkInv, PlacesInv, [Next]_vars
    PROVE  PlacesInv'
  <1>1. shares \in [Slots -> [Places -> Objects]] /\ acquired \in Nat
    BY UserValues DEF TypeOK
  <1>2. \A i \in Slots, k \in Places : shares[i][k] \in Nat
    BY <1>1, UserValues
  <1>3. ASSUME NEW h \in Hosts, NEW i \in Slots, NEW k \in Places, NewShareAt(h, i, k)
        PROVE  PlacesInv'
    <2>1. acquired + 1 \in Acquires /\ acquired' = acquired + 1
      BY <1>3, NewShareFacts
    <2>2. \A j \in Slots : \A m \in Places :
              shares'[j][m] = IF j = i /\ m = k THEN acquired + 1 ELSE shares[j][m]
      <3>1. IsPlaced(i, k, acquired + 1)
        BY <1>3, NewShareFacts
      <3> QED
        BY <3>1 DEF IsPlaced
    <2>3. \A j \in Slots, m \in Places : shares'[j][m] <= acquired'
      BY <1>1, <1>2, <2>1, <2>2 DEF PlacesInv
    <2>4. \A j, n \in Slots : \A m, l \in Places :
              shares'[j][m] = shares'[n][l] /\ shares'[j][m] # None => j = n /\ m = l
      <3>1. \A j \in Slots, m \in Places : shares[j][m] # acquired + 1
        BY <1>1, <1>2 DEF PlacesInv
      <3> QED
        BY <2>2, <3>1 DEF PlacesInv
    <2> QED
      BY <2>3, <2>4 DEF PlacesInv
  <1>4. ASSUME NEW h \in Hosts, NEW i \in Slots, AcquireSlotAt(h, i) PROVE PlacesInv'
    <2>1. 1 \in Places
      BY DEF Places
    <2> QED
      BY <1>3, <1>4, <2>1 DEF NewShareAt
  <1>5. ASSUME NEW i \in Slots, NEW k \in Places, k \in Used(i), GivesUp(i, k), UNCHANGED goal
        PROVE  PlacesInv'
    <2>1. \A j \in Slots : \A m \in Places :
              shares'[j][m] = IF j = i /\ m = k THEN None ELSE shares[j][m]
      <3>1. /\ \A j \in Slots : \A m \in Places :
                   j # i \/ m # k => shares'[j][m] = shares[j][m]
            /\ shares'[i][k] = None
        BY <1>5, GivesUpUsed
      <3> QED
        BY <3>1
    <2>2. acquired' = acquired /\ None <= acquired
      BY <1>1, <1>5 DEF acquired, None
    <2> QED
      BY <2>1, <2>2 DEF PlacesInv
  <1>6. CASE UNCHANGED <<slotVars, attempt, link, goal, told>>
    BY <1>6, PlacesFrame DEF slotVars
  <1>7. ASSUME NEW i \in Slots, NEW l, GetsOn(i, l) PROVE PlacesInv'
    BY <1>7, PlacesFrame DEF GetsOn, slotVars
  <1>8. ASSUME NEW i \in Slots, Closes(i) \/ Deletes(i) PROVE PlacesInv'
    BY <1>8, PlacesFrame DEF Closes, Deletes, slotVars
  <1>9. ASSUME NEW i, NEW disconnect, Retires(i, disconnect) PROVE PlacesInv'
    BY <1>9, PlacesFrame DEF Retires
  <1>10. ASSUME NEW i \in Slots, NEW k \in Places, TellConnected(i, k) \/ TellFailed(i, k)
         PROVE  PlacesInv'
    BY <1>10, PlacesFrame DEF TellConnected, TellFailed
  <1> QED
    BY EffectCases, <1>3, <1>4, <1>5, <1>6, <1>7, <1>8, <1>9, <1>10 DEF Effects, NewShareAt

-----------------------------------------------------------------------------
(* What users are told.                                                    *)

LEMMA EventsFirst ==
    ASSUME TypeOK, NEW a \in Acquires, told[a] = <<>>, NEW event, NEW level, Tell(a, event, level)
    PROVE  Events(a)' = <<event>>
  <1>1. told'[a] = <<[event |-> event, level |-> level]>>
    BY UserValues DEF Tell
  <1>2. Len(told'[a]) = 1 /\ told'[a][1].event = event
    BY <1>1
  <1>3. Events(a)' = [n \in 1..1 |-> event]
    BY <1>2 DEF Events
  <1>4. <<event>> = [n \in 1..1 |-> event]
    OBVIOUS
  <1> QED
    BY <1>3, <1>4

LEMMA EventsSecond ==
    ASSUME TypeOK, NEW a \in Acquires, Events(a) = <<"Connected">>, NEW event, NEW level,
           Tell(a, event, level)
    PROVE  Events(a)' = <<"Connected", event>>
  <1>1. told[a] \in Seq(Calls)
    BY UserValues
  <1>2. PICK n \in Nat : n = Len(told[a])
    BY <1>1
  <1>3. DOMAIN Events(a) = 1..n
    BY <1>2 DEF Events
  <1>4. n = 1
    <2>1. DOMAIN <<"Connected">> = 1..1
      OBVIOUS
    <2>2. 1..n = 1..1
      BY <1>3, <2>1
    <2> QED
      BY <2>2
  <1>5. told[a][1].event = "Connected"
    <2>1. Events(a)[1] = told[a][1].event
      BY <1>2, <1>4 DEF Events
    <2>2. <<"Connected">>[1] = "Connected"
      OBVIOUS
    <2> QED
      BY <2>1, <2>2
  <1>6. told'[a] = Append(told[a], [event |-> event, level |-> level])
    BY UserValues DEF Tell
  <1>7. /\ Len(told'[a]) = 2 /\ told'[a][1] = told[a][1]
        /\ told'[a][2] = [event |-> event, level |-> level]
    <2>1. Len(told[a]) = 1
      BY <1>2, <1>4
    <2> QED
      BY <1>1, <1>6, <2>1
  <1>8. Events(a)' = [m \in 1..2 |-> told'[a][m].event]
    BY <1>7 DEF Events
  <1>9. Events(a)' = [m \in 1..2 |-> IF m = 1 THEN "Connected" ELSE event]
    BY <1>5, <1>7, <1>8
  <1>10. <<"Connected", event>> = [m \in 1..2 |-> IF m = 1 THEN "Connected" ELSE event]
    OBVIOUS
  <1> QED
    BY <1>9, <1>10

LEMMA TellOthers ==
    ASSUME TypeOK, NEW a \in Acquires, NEW event, NEW level, Tell(a, event, level),
           NEW c \in Acquires, c # a
    PROVE  told'[c] = told[c] /\ Events(c)' = Events(c)
  <1>1. told'[c] = told[c]
    BY UserValues DEF Tell
  <1> QED
    BY <1>1 DEF Events

LEMMA ToldFrame ==
    ASSUME ToldInv, UNCHANGED <<shares, callback, told, goal>>
    PROVE  ToldInv'
  <1>1. \A a \in Acquires : Events(a)' = Events(a) /\ (Held(a)' <=> Held(a))
    BY DEF Events, Held
  <1> QED
    BY <1>1 DEF ToldInv, acquired

\* One part of ToldInv.
ToldRight(a) ==
    /\ callback[a] = "connect" => Held(a) /\ told[a] = <<>>
    /\ callback[a] = "disconnect" => Held(a) /\ Events(a) = <<"Connected">>
    /\ callback[a] = "none" =>
           IF a <= acquired
           THEN Events(a) \in {<<"Failed">>, <<"Connected", "Closed">>}
           ELSE told[a] = <<>>

LEMMA ToldRightFrame ==
    ASSUME NEW a, ToldRight(a), callback'[a] = callback[a], told'[a] = told[a],
           Held(a) => Held(a)', a <= acquired <=> a <= acquired'
    PROVE  ToldRight(a)'
  <1>1. Events(a)' = Events(a)
    BY DEF Events
  <1> QED
    BY <1>1 DEF ToldRight

\* A share that is there was accepted.
LEMMA ShareAccepted ==
    ASSUME TypeOK, PlacesInv, NEW i \in Slots, NEW k \in Used(i)
    PROVE  shares[i][k] \in Acquires /\ shares[i][k] \in 1..acquired /\ Held(shares[i][k])
  <1>1. shares[i][k] \in Acquires /\ k \in Places
    BY UsedFacts DEF Used
  <1>2. shares[i][k] <= acquired /\ Held(shares[i][k])
    BY <1>1 DEF PlacesInv, Held
  <1>3. acquired \in Nat
    BY UserValues
  <1> QED
    BY <1>1, <1>2, <1>3 DEF Acquires

\* Of a number that is not used yet nothing is known.
LEMMA UnusedNumber ==
    ASSUME TypeOK, PlacesInv, ToldInv, NEW a \in Acquires, a > acquired
    PROVE  callback[a] = "none" /\ told[a] = <<>> /\ ~Held(a)
  <1>1. acquired \in Nat /\ a \in Nat
    BY UserValues DEF Acquires
  <1>2. ~Held(a)
    BY <1>1 DEF Held, PlacesInv
  <1>3. callback[a] \in {"none", "connect", "disconnect"}
    BY DEF TypeOK
  <1> QED
    BY <1>1, <1>2, <1>3 DEF ToldInv

LEMMA ToldNew ==
    ASSUME TypeOK, StackInv, SharesAreCounted, PlacesInv, ToldInv,
           NEW h \in Hosts, NEW i \in Slots, NEW k \in Places, NewShareAt(h, i, k),
           NEW a \in Acquires, a = acquired + 1
    PROVE  ToldInv'
  <1>1. acquired \in Nat /\ acquired' = acquired + 1
    BY UserValues, NewShareFacts
  <1>2. IsPlaced(i, k, a)
    BY NewShareFacts
  <1>3. Held(a)'
    BY <1>2 DEF IsPlaced, Held
  <1>4. callback[a] = "none" /\ told[a] = <<>>
    BY <1>1, UnusedNumber
  <1>5. \/ callback'[a] = "disconnect" /\ Tell(a, "Connected", "Secondary")
        \/ callback'[a] = "connect" /\ told' = told
    <2>1. callback \in [Acquires -> {"none", "connect", "disconnect"}]
      BY DEF TypeOK
    <2>2. CASE AcquireShareAt(h, i, k)
      BY <2>1, <2>2 DEF AcquireShareAt, PlaceShare
    <2>3. CASE AcquireSlotAt(h, i)
      BY <2>1, <2>3 DEF AcquireSlotAt, PlaceShare
    <2> QED
      BY <2>2, <2>3 DEF NewShareAt
  <1>6. ASSUME NEW c \in Acquires, c # a PROVE ToldRight(c)'
    <2>1. callback'[c] = callback[c]
      BY <1>2, <1>6 DEF IsPlaced
    <2>2. told'[c] = told[c]
      BY <1>5, <1>6, TellOthers
    <2>3. Held(c) => Held(c)'
      <3>1. \A j \in Slots, m \in Places : shares[j][m] = c => shares'[j][m] = c
        <4>1. k \notin Used(i)
          BY NewShareFacts
        <4>2. shares[i][k] = None /\ c # None
          BY <4>1 DEF Used, Acquires, None
        <4> QED
          BY <1>2, <4>2 DEF IsPlaced
      <3> QED
        BY <3>1 DEF Held
    <2>4. c <= acquired <=> c <= acquired'
      BY <1>1, <1>6 DEF Acquires
    <2>5. ToldRight(c)
      BY DEF ToldInv, ToldRight
    <2> QED
      BY <2>1, <2>2, <2>3, <2>4, <2>5, ToldRightFrame
  <1>7. ToldRight(a)'
    <2>1. CASE callback'[a] = "disconnect" /\ Tell(a, "Connected", "Secondary")
      <3>1. Events(a)' = <<"Connected">>
        BY <1>4, <2>1, EventsFirst
      <3> QED
        BY <1>3, <2>1, <3>1 DEF ToldRight
    <2>2. CASE callback'[a] = "connect" /\ told' = told
      BY <1>3, <1>4, <2>2 DEF ToldRight
    <2> QED
      BY <1>5, <2>1, <2>2
  <1>8. \A c \in Acquires : ToldRight(c)'
    BY <1>6, <1>7
  <1> QED
    BY <1>8 DEF ToldRight, ToldInv

LEMMA ToldGivenUp ==
    ASSUME TypeOK, StackInv, SharesAreCounted, PlacesInv, ToldInv,
           NEW i \in Slots, NEW k \in Places, k \in Used(i), GivesUp(i, k), UNCHANGED goal
    PROVE  ToldInv'
  <1>0. PICK a \in Acquires : a = shares[i][k]
    BY ShareAccepted
  <1>1. a \in Acquires /\ a \in 1..acquired /\ Held(a)
    BY <1>0, ShareAccepted
  <1>2. /\ \A j \in Slots : \A m \in Places : j # i \/ m # k => shares'[j][m] = shares[j][m]
    BY GivesUpUsed
  <1>3. acquired' = acquired
    BY DEF acquired
  <1>4. callback' = [callback EXCEPT ![a] = "none"]
        /\ \/ callback[a] = "connect" /\ Tell(a, "Failed", LevelAfter(i))
           \/ callback[a] = "disconnect" /\ Tell(a, "Closed", LevelAfter(i))
           \/ callback[a] = "none" /\ told' = told
    <2>1. callback[a] \in {"none", "connect", "disconnect"}
      BY <1>1 DEF TypeOK
    <2> QED
      BY <1>0, <2>1 DEF GivesUp, LastCall
  <1>5. \A c \in Acquires : c # a => (Held(c) => Held(c)')
    <2>1. \A c \in Acquires : c # a =>
              \A j \in Slots, m \in Places : shares[j][m] = c => shares'[j][m] = c
      BY <1>0, <1>2
    <2> QED
      BY <2>1 DEF Held
  <1>6. callback'[a] = "none" /\ \A c \in Acquires : c # a => callback'[c] = callback[c]
    BY <1>1, <1>4 DEF TypeOK
  <1>7. ASSUME NEW c \in Acquires, c # a PROVE ToldRight(c)'
    <2>1. told'[c] = told[c]
      BY <1>1, <1>4, <1>7, TellOthers
    <2>2. ToldRight(c)
      BY DEF ToldInv, ToldRight
    <2> QED
      BY <1>3, <1>5, <1>6, <1>7, <2>1, <2>2, ToldRightFrame
  <1>8. Events(a)' \in {<<"Failed">>, <<"Connected", "Closed">>}
    <2>1. CASE callback[a] = "connect" /\ Tell(a, "Failed", LevelAfter(i))
      <3>1. told[a] = <<>>
        BY <1>1, <2>1 DEF ToldInv
      <3> QED
        BY <1>1, <2>1, <3>1, EventsFirst
    <2>2. CASE callback[a] = "disconnect" /\ Tell(a, "Closed", LevelAfter(i))
      <3>1. Events(a) = <<"Connected">>
        BY <1>1, <2>2 DEF ToldInv
      <3> QED
        BY <1>1, <2>2, <3>1, EventsSecond
    <2>3. CASE callback[a] = "none" /\ told' = told
      <3>1. Events(a)' = Events(a)
        BY <2>3 DEF Events
      <3>2. a <= acquired
        BY <1>1
      <3> QED
        BY <1>1, <2>3, <3>1, <3>2 DEF ToldInv
    <2> QED
      BY <1>4, <2>1, <2>2, <2>3
  <1>9. ToldRight(a)'
    <2>1. a <= acquired'
      BY <1>1, <1>3
    <2> QED
      BY <1>6, <1>8, <2>1 DEF ToldRight
  <1>10. \A c \in Acquires : ToldRight(c)'
    BY <1>7, <1>9
  <1> QED
    BY <1>10 DEF ToldRight, ToldInv

LEMMA ToldByLoop ==
    ASSUME TypeOK, StackInv, PlacesInv, ToldInv,
           NEW i \in Slots, NEW k \in Places, TellConnected(i, k) \/ TellFailed(i, k)
    PROVE  ToldInv'
  <1>1. k \in Used(i)
    <2>1. LoopAt({"accept"}, i, k) \/ LoopAt({"refuse"}, i, k)
      BY DEF TellConnected, TellFailed
    <2> QED
      BY <2>1, LoopItem DEF Loops
  <1>0. PICK a \in Acquires : a = shares[i][k]
    BY <1>1, ShareAccepted
  <1>2. a \in Acquires /\ a \in 1..acquired /\ Held(a)
    BY <1>0, <1>1, ShareAccepted
  <1>3. callback[a] = "connect" /\ UNCHANGED <<shares, goal>>
    BY <1>0 DEF TellConnected, TellFailed
  <1>4. \/ callback' = [callback EXCEPT ![a] = "disconnect"] /\ Tell(a, "Connected", Top.level)
        \/ callback' = [callback EXCEPT ![a] = "none"] /\ Tell(a, "Failed", Top.level)
    BY <1>0 DEF TellConnected, TellFailed
  <1>5. acquired' = acquired /\ \A c \in Acquires : Held(c) <=> Held(c)'
    BY <1>3 DEF acquired, Held
  <1>6. callback \in [Acquires -> {"none", "connect", "disconnect"}]
    BY DEF TypeOK
  <1>7. ASSUME NEW c \in Acquires, c # a PROVE ToldRight(c)'
    <2>1. told'[c] = told[c]
      BY <1>2, <1>4, <1>7, TellOthers
    <2>2. ToldRight(c)
      BY DEF ToldInv, ToldRight
    <2>3. callback'[c] = callback[c]
      BY <1>4, <1>6, <1>7
    <2> QED
      BY <1>5, <2>1, <2>2, <2>3, ToldRightFrame
  <1>8. told[a] = <<>>
    BY <1>2, <1>3 DEF ToldInv
  <1>9. ToldRight(a)'
    <2>1. CASE callback' = [callback EXCEPT ![a] = "disconnect"] /\ Tell(a, "Connected", Top.level)
      <3>1. Events(a)' = <<"Connected">> /\ callback'[a] = "disconnect"
        BY <1>2, <1>6, <1>8, <2>1, EventsFirst
      <3> QED
        BY <1>2, <1>5, <3>1 DEF ToldRight
    <2>2. CASE callback' = [callback EXCEPT ![a] = "none"] /\ Tell(a, "Failed", Top.level)
      <3>1. Events(a)' = <<"Failed">> /\ callback'[a] = "none"
        BY <1>2, <1>6, <1>8, <2>2, EventsFirst
      <3>2. a <= acquired'
        BY <1>2, <1>5
      <3> QED
        BY <3>1, <3>2 DEF ToldRight
    <2> QED
      BY <1>4, <2>1, <2>2
  <1>10. \A c \in Acquires : ToldRight(c)'
    BY <1>7, <1>9
  <1> QED
    BY <1>10 DEF ToldRight, ToldInv

LEMMA ToldStep ==
    ASSUME TypeOK, StackInv, SharesAreCounted, LinkInv, PlacesInv, ToldInv, [Next]_vars
    PROVE  ToldInv'
  <1>1. ASSUME NEW h \in Hosts, NEW i \in Slots, NEW k \in Places, NewShareAt(h, i, k)
        PROVE  ToldInv'
    BY <1>1, ToldNew, NewShareFacts
  <1>2. ASSUME NEW h \in Hosts, NEW i \in Slots, AcquireSlotAt(h, i) PROVE ToldInv'
    <2>1. 1 \in Places
      BY DEF Places
    <2> QED
      BY <1>1, <1>2, <2>1 DEF NewShareAt
  <1>3. ASSUME NEW i \in Slots, NEW k \in Places, k \in Used(i), GivesUp(i, k), UNCHANGED goal
        PROVE  ToldInv'
    BY <1>3, ToldGivenUp
  <1>4. CASE UNCHANGED <<slotVars, attempt, link, goal, told>>
    BY <1>4, ToldFrame DEF slotVars
  <1>5. ASSUME NEW i \in Slots, NEW l, GetsOn(i, l) PROVE ToldInv'
    BY <1>5, ToldFrame DEF GetsOn, slotVars
  <1>6. ASSUME NEW i \in Slots, Closes(i) \/ Deletes(i) PROVE ToldInv'
    BY <1>6, ToldFrame DEF Closes, Deletes, slotVars
  <1>7. ASSUME NEW i, NEW disconnect, Retires(i, disconnect) PROVE ToldInv'
    BY <1>7, ToldFrame DEF Retires
  <1>8. ASSUME NEW i \in Slots, NEW k \in Places, TellConnected(i, k) \/ TellFailed(i, k)
        PROVE  ToldInv'
    BY <1>8, ToldByLoop
  <1> QED
    BY EffectCases, <1>1, <1>2, <1>3, <1>4, <1>5, <1>6, <1>7, <1>8 DEF Effects, NewShareAt

-----------------------------------------------------------------------------
(* The shares are counted.                                                 *)

\* What keeps its place, and what is new.
LEMMA ItemKept ==
    ASSUME TypeOK, NEW b, NEW items, Becomes(b, items), NEW n \in 1..Len(stack), n <= b
    PROVE  n \in 1..Len(stack') /\ stack'[n] = stack[n]
  <1>1. Len(items) \in Nat /\ Len(stack') = b + Len(items) /\ b \in 0..Len(stack)
        /\ Len(stack) \in Nat
    BY StackTypes DEF Becomes
  <1>2. n \in 1..b
    BY <1>1
  <1> QED
    BY <1>1, <1>2 DEF Becomes

LEMMA BelowTop ==
    ASSUME TypeOK, stack # <<>>, NEW n \in 1..Len(stack), stack[n] # Top
    PROVE  n <= Len(stack) - 1
  <1>1. Len(stack) \in Nat \ {0} /\ Top = stack[Len(stack)]
    BY StackTypes, TopType
  <1> QED
    BY <1>1

LEMMA ItemNew ==
    ASSUME TypeOK, NEW b, NEW items, Becomes(b, items), NEW n \in 1..Len(items)
    PROVE  b + n \in 1..Len(stack') /\ stack'[b + n] = items[n]
  <1>1. Len(items) \in Nat /\ Len(stack') = b + Len(items) /\ b \in 0..Len(stack)
        /\ Len(stack) \in Nat
    BY StackTypes DEF Becomes
  <1> QED
    BY <1>1 DEF Becomes

\* A callback of a share of slot i was the last thing that was done.
Retiring(i) == \E n \in 1..Len(stack) : stack[n].op = "retire" /\ stack[n].slot = i

Counted(i) ==
    /\ share_count[i] = Cardinality(Used(i))
    /\ delete_pending[i] => Used(i) = {}
    /\ client[i] = None => Used(i) = {} /\ ~delete_pending[i]
    /\ Live(i) /\ Used(i) = {} => Retiring(i)

LEMMA CountedParts == SharesAreCounted <=> \A i \in Slots : Counted(i)
  BY DEF SharesAreCounted, Counted, OnStack, Retiring

LEMMA CountedPartsNext == SharesAreCounted' <=> \A i \in Slots : Counted(i)'
  BY DEF SharesAreCounted, Counted, OnStack, Retiring

LEMMA RetiringKept ==
    ASSUME TypeOK, NEW b, NEW items, Becomes(b, items), NEW i, Retiring(i),
           b = Len(stack) \/ (b = Len(stack) - 1 /\ stack # <<>> /\ (Top.op # "retire" \/ Top.slot # i))
    PROVE  Retiring(i)'
  <1>1. PICK n \in 1..Len(stack) : stack[n].op = "retire" /\ stack[n].slot = i
    BY DEF Retiring
  <1>2. Len(stack) \in Nat
    BY StackTypes
  <1>3. n <= b
    <2>1. CASE b = Len(stack)
      BY <1>2, <2>1
    <2>2. CASE b = Len(stack) - 1 /\ stack # <<>> /\ (Top.op # "retire" \/ Top.slot # i)
      <3>1. stack[n] # Top
        BY <1>1, <2>2
      <3> QED
        BY <2>2, <3>1, BelowTop
    <2> QED
      BY <2>1, <2>2
  <1>4. n \in 1..Len(stack') /\ stack'[n] = stack[n]
    BY <1>3, ItemKept
  <1> QED
    BY <1>1, <1>4 DEF Retiring

LEMMA CountedFrame ==
    ASSUME SharesAreCounted, UNCHANGED <<client, delete_pending, share_count, shares>>,
           \A i \in Slots : Retiring(i) => Retiring(i)'
    PROVE  SharesAreCounted'
  <1> SUFFICES ASSUME NEW i \in Slots PROVE Counted(i)'
    BY CountedPartsNext
  <1>1. Counted(i)
    BY CountedParts
  <1>2. Used(i)' = Used(i) /\ (Live(i)' <=> Live(i))
    BY DEF Used, Live
  <1> QED
    BY <1>1, <1>2 DEF Counted

LEMMA CountedKeep ==
    ASSUME TypeOK, SharesAreCounted, UNCHANGED <<client, delete_pending, share_count, shares>>,
           NEW b, NEW items, Becomes(b, items),
           b = Len(stack) \/ (b = Len(stack) - 1 /\ stack # <<>> /\ Top.op # "retire")
    PROVE  SharesAreCounted'
  BY RetiringKept, CountedFrame

LEMMA CountedNew ==
    ASSUME TypeOK, StackInv, SharesAreCounted, NEW h \in Hosts, NEW i \in Slots, NEW k \in Places,
           NewShareAt(h, i, k)
    PROVE  SharesAreCounted'
  <1>1. IsPlaced(i, k, acquired + 1)
    BY NewShareFacts
  <1>2. /\ Used(i)' = Used(i) \cup {k}
        /\ \A j \in Slots : j # i => Used(j)' = Used(j)
        /\ share_count'[i] = Cardinality(Used(i) \cup {k})
        /\ \A j \in Slots : j # i => share_count'[j] = share_count[j]
    BY <1>1 DEF IsPlaced
  <1>3. \E items : Becomes(Len(stack), items)
    <2>1. CASE AcquireShareAt(h, i, k)
      BY <2>1, AcquireShareStack
    <2>2. CASE AcquireSlotAt(h, i)
      BY <2>2, AcquireSlotStack
    <2> QED
      BY <2>1, <2>2 DEF NewShareAt
  <1>4. client'[i] # None /\ ~delete_pending'[i]
        /\ \A j \in Slots : j # i => client'[j] = client[j] /\ delete_pending'[j] = delete_pending[j]
    <2>1. client \in [Slots -> Objects] /\ delete_pending \in [Slots -> BOOLEAN]
      BY DEF TypeOK
    <2>2. CASE AcquireShareAt(h, i, k)
      <3>1. Live(i) /\ client' = client /\ delete_pending' = delete_pending
        BY <2>2 DEF AcquireShareAt, Matching
      <3> QED
        BY <3>1 DEF Live
    <2>3. CASE AcquireSlotAt(h, i)
      <3>1. acquired + 1 # None
        BY UserValues DEF None
      <3> QED
        BY <2>1, <2>3, <3>1 DEF AcquireSlotAt
    <2> QED
      BY <2>2, <2>3 DEF NewShareAt
  <1>5. ASSUME NEW j \in Slots, j # i PROVE Counted(j)'
    <2>1. Retiring(j) => Retiring(j)'
      BY <1>3, RetiringKept
    <2>2. Counted(j)
      BY CountedParts
    <2>3. Live(j)' <=> Live(j)
      BY <1>4, <1>5 DEF Live
    <2> QED
      BY <1>2, <1>4, <1>5, <2>1, <2>2, <2>3 DEF Counted
  <1>6. Counted(i)'
    BY <1>2, <1>4 DEF Counted
  <1> QED
    BY <1>5, <1>6, CountedPartsNext

LEMMA CountedGivenUp ==
    ASSUME TypeOK, SharesAreCounted, NEW i \in Slots, NEW k \in Used(i), GivesUp(i, k),
           NEW b, NEW items, Becomes(b, items),
           b = Len(stack) \/ (b = Len(stack) - 1 /\ stack # <<>> /\ Top.op # "retire"),
           NEW n \in 1..Len(items), items[n].op = "retire", items[n].slot = i
    PROVE  SharesAreCounted'
  <1>1. /\ Used(i)' = Used(i) \ {k}
        /\ \A j \in Slots : j # i => Used(j)' = Used(j)
        /\ share_count'[i] = Cardinality(Used(i) \ {k})
        /\ \A j \in Slots : j # i => share_count'[j] = share_count[j]
    BY GivesUpUsed
  <1>2. client' = client /\ delete_pending' = delete_pending
    BY DEF GivesUp
  <1>3. ASSUME NEW j \in Slots, j # i PROVE Counted(j)'
    <2>1. Retiring(j) => Retiring(j)'
      BY RetiringKept
    <2>2. Counted(j)
      BY CountedParts
    <2>3. Live(j)' <=> Live(j)
      BY <1>2 DEF Live
    <2> QED
      BY <1>1, <1>2, <1>3, <2>1, <2>2, <2>3 DEF Counted
  <1>4. Counted(i)'
    <2>1. Retiring(i)'
      <3>1. b + n \in 1..Len(stack') /\ stack'[b + n] = items[n]
        BY ItemNew
      <3> QED
        BY <3>1 DEF Retiring
    <2>2. Counted(i) /\ Used(i) # {}
      BY CountedParts
    <2> QED
      BY <1>1, <1>2, <2>1, <2>2 DEF Counted
  <1> QED
    BY <1>3, <1>4, CountedPartsNext

LEMMA CountedRetire ==
    ASSUME TypeOK, StackInv, SharesAreCounted, RetireSlot
    PROVE  SharesAreCounted'
  <1>1. PICK i \in Slots : i = Top.slot
    BY RetireSlotFacts
  <1>2. Retires(i, Top.disconnect) /\ Becomes(Len(stack) - 1, <<>>)
    BY <1>1, RetireSlotFacts
  <1>3. stack # <<>>
    BY RetireItem DEF RetireSlot
  <1>4. /\ UNCHANGED <<client, shares, share_count>> /\ client[i] # None
        /\ delete_pending' = [delete_pending EXCEPT ![i] = delete_pending[i] \/ share_count[i] = 0]
    BY <1>2 DEF Retires
  <1>5. delete_pending \in [Slots -> BOOLEAN]
    BY DEF TypeOK
  <1>6. \A j \in Slots : Used(j)' = Used(j)
    BY <1>4 DEF Used
  <1>7. ASSUME NEW j \in Slots, j # i PROVE Counted(j)'
    <2>1. Retiring(j) => Retiring(j)'
      BY <1>1, <1>2, <1>3, <1>7, RetiringKept
    <2>2. Counted(j)
      BY CountedParts
    <2>3. delete_pending'[j] = delete_pending[j]
      BY <1>4, <1>5, <1>7
    <2>4. Live(j)' <=> Live(j)
      BY <1>4, <2>3 DEF Live
    <2> QED
      BY <1>4, <1>6, <2>1, <2>2, <2>3, <2>4 DEF Counted
  <1>8. Counted(i)'
    <2>1. Counted(i)
      BY CountedParts
    <2>2. Used(i) = {} <=> share_count[i] = 0
      <3>1. IsFiniteSet(Used(i)) /\ share_count[i] = Cardinality(Used(i))
        BY <2>1, UsedFacts DEF Counted
      <3> QED
        BY <3>1, FS_EmptySet
    <2>3. delete_pending'[i] <=> delete_pending[i] \/ Used(i) = {}
      BY <1>4, <1>5, <2>2
    <2> QED
      BY <1>4, <1>6, <2>1, <2>3 DEF Counted, Live
  <1> QED
    BY <1>7, <1>8, CountedPartsNext

LEMMA CountedDelete ==
    ASSUME TypeOK, StackInv, SharesAreCounted, NEW i \in Slots, TickDelete(i)
    PROVE  SharesAreCounted'
  <1>1. /\ Deletes(i) /\ Top.op = "tick" /\ Becomes(Len(stack) - 1, <<TickSlot(i + 1)>>)
        /\ stack # <<>>
    BY TickDeleteFacts, TickItem DEF TickDelete, TickAt
  <1>2. client \in [Slots -> Objects] /\ delete_pending \in [Slots -> BOOLEAN]
    BY DEF TypeOK
  <1>3. /\ client'[i] = None /\ ~delete_pending'[i]
        /\ \A j \in Slots : j # i => client'[j] = client[j] /\ delete_pending'[j] = delete_pending[j]
    BY <1>1, <1>2 DEF Deletes
  <1>4. share_count' = share_count /\ \A j \in Slots : Used(j)' = Used(j)
    BY <1>1 DEF Deletes, Used
  <1>5. ASSUME NEW j \in Slots, j # i PROVE Counted(j)'
    <2>1. Retiring(j) => Retiring(j)'
      BY <1>1, RetiringKept
    <2>2. Counted(j)
      BY CountedParts
    <2>3. Live(j)' <=> Live(j)
      BY <1>3, <1>5 DEF Live
    <2> QED
      BY <1>3, <1>4, <1>5, <2>1, <2>2, <2>3 DEF Counted
  <1>6. Counted(i)'
    <2>1. Counted(i) /\ ~Live(i)
      BY <1>1, CountedParts DEF Deletes
    <2>2. Used(i) = {}
      BY <2>1 DEF Counted, Live
    <2> QED
      BY <1>3, <1>4, <2>1, <2>2 DEF Counted, Live
  <1> QED
    BY <1>5, <1>6, CountedPartsNext

\* What is true of the slots, the clients and the stack after every step.
LEMMA CountedStep ==
    ASSUME TypeOK, StackInv, SharesAreCounted, LinkInv, [Next]_vars
    PROVE  TypeOK' /\ StackInv' /\ SharesAreCounted'
  <1> DEFINE Goal == TypeOK' /\ StackInv' /\ SharesAreCounted'
  <1>1. CASE IdleStep
    <2>1. /\ UNCHANGED <<slotVars, attempt, link, goal, told, stack, non_reentrant>>
          /\ StackInv' /\ TypeOK'
      BY <1>1, IdleFacts
    <2>2. Becomes(Len(stack), <<>>)
      BY <2>1, KeepStep
    <2> QED
      BY <2>1, <2>2, CountedKeep DEF slotVars
  <1>2. CASE PopsQuietly
    BY <1>2, PopsQuietlyFacts, CountedKeep DEF slotVars
  <1>3. CASE Tick
    BY <1>3, TickFacts, CountedKeep DEF slotVars
  <1>4. ASSUME NEW h \in Hosts, NEW i \in Slots, NEW k \in Places, AcquireShareAt(h, i, k)
        PROVE  Goal
    BY <1>4, AcquireShareType, AcquireShareStack, CountedNew DEF NewShareAt
  <1>5. ASSUME NEW h \in Hosts, NEW i \in Slots, AcquireSlotAt(h, i)
        PROVE  Goal
    <2>1. 1 \in Places
      BY DEF Places
    <2> QED
      BY <1>5, <2>1, AcquireSlotType, AcquireSlotStack, CountedNew DEF NewShareAt
  <1>6. ASSUME NEW a \in Acquires, NEW force \in BOOLEAN, NEW i \in Slots, NEW k \in Places,
               ReleaseAt(a, force, i, k)
        PROVE  Goal
    <2>1. k \in Used(i) /\ GivesUp(i, k)
      <3>1. k \in Used(i)
        BY <1>6 DEF ReleaseAt, Used, Acquires, None
      <3> QED
        BY <1>6, <3>1, ReleaseGivesUp DEF ReleaseAt
    <2>2. SharesAreCounted'
      <3>1. CASE force
        <4>1. Becomes(Len(stack), <<Leave, Loop("force", i, 1, "Primary"), Retire(i, TRUE)>>)
          BY <1>6, <3>1, ReleaseStack
        <4>2. 3 \in 1..Len(<<Leave, Loop("force", i, 1, "Primary"), Retire(i, TRUE)>>)
              /\ <<Leave, Loop("force", i, 1, "Primary"), Retire(i, TRUE)>>[3] = Retire(i, TRUE)
          OBVIOUS
        <4>3. Retire(i, TRUE).op = "retire" /\ Retire(i, TRUE).slot = i
          BY DEF Retire
        <4> QED
          BY <2>1, <4>1, <4>2, <4>3, CountedGivenUp
      <3>2. CASE ~force
        <4>1. Becomes(Len(stack), <<Leave, Retire(i, TRUE)>>)
          BY <1>6, <3>2, ReleaseStack
        <4>2. 2 \in 1..Len(<<Leave, Retire(i, TRUE)>>)
              /\ <<Leave, Retire(i, TRUE)>>[2] = Retire(i, TRUE)
          OBVIOUS
        <4>3. Retire(i, TRUE).op = "retire" /\ Retire(i, TRUE).slot = i
          BY DEF Retire
        <4> QED
          BY <2>1, <4>1, <4>2, <4>3, CountedGivenUp
      <3> QED
        BY <3>1, <3>2
    <2> QED
      BY <1>6, <2>2, ReleaseType, ReleaseStack
  <1>7. CASE RetireSlot
    BY <1>7, RetireSlotType, RetireSlotFacts, CountedRetire
  <1>8. CASE DropShare /\ shares[Top.slot][Top.place] # None
    <2>1. PICK i \in Slots, k \in Places : i = Top.slot /\ k = Top.place
      BY <1>8, DropItem DEF DropShare
    <2>2. /\ k \in Used(i) /\ GivesUp(i, k)
          /\ Becomes(Len(stack) - 1, <<Retire(i, FALSE)>>)
          /\ stack # <<>> /\ Top.op = "drop"
      BY <1>8, <2>1, ReleaseGivesUp, DropShareStack, DropItem DEF DropShare, Used
    <2>3. 1 \in 1..Len(<<Retire(i, FALSE)>>) /\ <<Retire(i, FALSE)>>[1] = Retire(i, FALSE)
      OBVIOUS
    <2>4. Retire(i, FALSE).op = "retire" /\ Retire(i, FALSE).slot = i
      BY DEF Retire
    <2>5. SharesAreCounted'
      BY <2>2, <2>3, <2>4, CountedGivenUp
    <2> QED
      BY <1>8, <2>5, DropShareType, DropShareStack
  <1>9. ASSUME NEW i \in Slots, NEW k \in Places, TellConnected(i, k) \/ TellFailed(i, k)
        PROVE  Goal
    <2>1. UNCHANGED <<client, delete_pending, share_count, shares>>
      BY <1>9 DEF TellConnected, TellFailed
    <2>2. stack # <<>> /\ Top.op \in {"accept", "refuse"}
      <3>1. LoopAt({"accept"}, i, k) \/ LoopAt({"refuse"}, i, k)
        BY <1>9 DEF TellConnected, TellFailed
      <3> QED
        BY <3>1, LoopItem DEF Loops
    <2>3. \E items : Becomes(Len(stack) - 1, items)
      BY <1>9, TellConnectedStack, TellFailedStack
    <2> QED
      BY <1>9, <2>1, <2>2, <2>3, CountedKeep, TellConnectedStack, TellFailedStack,
         TellConnectedType, TellFailedType
  <1>10. ASSUME NEW i \in Slots, NEW k \in Places, TellClosed(i, k)
         PROVE  Goal
    <2>1. LoopAt({"close", "force"}, i, k)
      BY <1>10 DEF TellClosed
    <2>2. k \in Used(i) /\ GivesUp(i, k) /\ stack # <<>> /\ Top.op \in {"close", "force"}
      BY <1>10, <2>1, LoopItem, ReleaseGivesUp DEF TellClosed, Loops
    <2>3. Becomes(Len(stack) - 1, <<NextPlace(k), Retire(i, Top.op = "force")>>)
      BY <1>10, TellClosedStack
    <2>4. 2 \in 1..Len(<<NextPlace(k), Retire(i, Top.op = "force")>>)
          /\ <<NextPlace(k), Retire(i, Top.op = "force")>>[2] = Retire(i, Top.op = "force")
      OBVIOUS
    <2>5. Retire(i, Top.op = "force").op = "retire" /\ Retire(i, Top.op = "force").slot = i
      BY DEF Retire
    <2>6. SharesAreCounted'
      BY <2>2, <2>3, <2>4, <2>5, CountedGivenUp
    <2> QED
      BY <1>10, <2>6, TellClosedType, TellClosedStack
  <1>11. ASSUME NEW i \in Slots, TickDelete(i)
         PROVE  Goal
    BY <1>11, TickDeleteFacts, CountedDelete
  <1>12. ASSUME NEW i \in Slots, ClientWaits(i) \/ ClientConnects(i)
         PROVE  Goal
    <2>1. stack # <<>> /\ Top.op = "tick"
      BY <1>12, TickItem DEF ClientWaits, ClientConnects, ClientTicks, TickAt
    <2>2. UNCHANGED slotVars
      BY <1>12 DEF ClientWaits, ClientConnects
    <2>3. /\ \E items : Becomes(Len(stack) - 1, items)
          /\ StackInv' /\ TypeOK'
      BY <1>12, ClientWaitsFacts, ClientConnectsFacts
    <2> QED
      BY <2>1, <2>2, <2>3, CountedKeep DEF slotVars
  <1>13. ASSUME NEW i \in Slots, ClientFails(i) \/ ClientDisconnects(i)
         PROVE  Goal
    <2>1. stack # <<>> /\ Top.op = "tick"
      BY <1>13, TickItem DEF ClientFails, ClientDisconnects, ClientTicks, TickAt
    <2>2. UNCHANGED slotVars
      BY <1>13 DEF ClientFails, ClientDisconnects
    <2>3. /\ \E items : Becomes(Len(stack) - 1, items)
          /\ StackInv' /\ TypeOK'
      BY <1>13, ClientReportsFacts
    <2> QED
      BY <2>1, <2>2, <2>3, CountedKeep DEF slotVars
  <1>14. CASE ClientReceives /\ ~UNCHANGED <<attempt, link>>
    <2>1. stack # <<>> /\ Top.op = "receive" /\ UNCHANGED slotVars
      BY <1>14, ReceiveItem DEF ClientReceives
    <2>2. /\ \E items : Becomes(Len(stack) - 1, items)
          /\ StackInv' /\ TypeOK'
      BY <1>14, ReceiveClosesFacts
    <2> QED
      BY <2>1, <2>2, CountedKeep DEF slotVars
  <1>15. ASSUME NEW r \in resolves, NEW i \in Slots, Answer(r), AnswerFailure(r, i)
         PROVE  Goal
    <2>1. UNCHANGED slotVars
      BY <1>15 DEF Answer
    <2>2. /\ \E items : Becomes(Len(stack), items)
          /\ StackInv' /\ TypeOK'
      BY <1>15, AnswerFailureFacts
    <2> QED
      BY <2>1, <2>2, CountedKeep DEF slotVars
  <1>16. ASSUME NEW r \in resolves, NEW i \in Slots, Answer(r), AnswerAddress(r, i)
         PROVE  Goal
    <2>1. UNCHANGED slotVars
      BY <1>16 DEF Answer
    <2> QED
      BY <1>16, <2>1, AnswerAddressFacts, CountedKeep DEF slotVars
  <1> QED
    BY StepCases, <1>1, <1>2, <1>3, <1>4, <1>5, <1>6, <1>7, <1>8, <1>9, <1>10, <1>11, <1>12,
       <1>13, <1>14, <1>15, <1>16

-----------------------------------------------------------------------------
(* acquire() that refuses the share it has just made.                      *)

IsRefusing(n) == n > 1 /\ stack[n - 1].op = "leave" /\ stack[n].op = "refuse"

Refusing == \E n \in 1..Len(stack) : IsRefusing(n)

\* One part of RefusedInv.
RefusedAt(n) ==
    LET i == stack[n].slot
        m == n + 1
    IN  /\ stack[n].object = client[i]
        /\ Used(i) \subseteq {1}
        /\ \/ m > Len(stack) /\ stack[n].place = 1 /\ Used(i) = {1}
           \/ m > Len(stack) /\ stack[n].place = 2 /\ ~Live(i)
           \/ m <= Len(stack) /\ stack[n].place = 2 /\ stack[m].op = "drop" /\ Used(i) = {1}
           \/ m <= Len(stack) /\ stack[n].place = 2 /\ stack[m].op = "retire"
                 /\ stack[m].object = client[i] /\ Used(i) = {}

LEMMA RefusedParts ==
    ASSUME Len(stack) \in Nat
    PROVE  RefusedInv <=> \A n \in 1..Len(stack) : IsRefusing(n) => RefusedAt(n)
  <1>1. PICK len \in Nat : len = Len(stack)
    OBVIOUS
  <1>2. \A n : n \in 1..len /\ n > 1 <=> n \in 2..len
    OBVIOUS
  <1> QED
    BY <1>1, <1>2 DEF RefusedInv, RefusedAt, IsRefusing

LEMMA RefusedPartsNext ==
    ASSUME Len(stack') \in Nat
    PROVE  RefusedInv' <=> \A n \in 1..Len(stack') : IsRefusing(n)' => RefusedAt(n)'
  <1>1. PICK len \in Nat : len = Len(stack')
    OBVIOUS
  <1>2. \A n : n \in 1..len /\ n > 1 <=> n \in 2..len
    OBVIOUS
  <1> QED
    BY <1>1, <1>2 DEF RefusedInv, RefusedAt, IsRefusing

LEMMA RefusedIs ==
    ASSUME Len(stack) \in Nat, NEW i
    PROVE  Refused(i) <=> \E n \in 1..Len(stack) : IsRefusing(n) /\ stack[n].slot = i
  <1>1. PICK len \in Nat : len = Len(stack)
    OBVIOUS
  <1>2. \A n : n \in 1..len /\ n > 1 <=> n \in 2..len
    OBVIOUS
  <1> QED
    BY <1>1, <1>2 DEF Refused, IsRefusing

LEMMA RefusedIsNext ==
    ASSUME Len(stack') \in Nat, NEW i
    PROVE  Refused(i)' <=> \E n \in 1..Len(stack') : IsRefusing(n)' /\ stack'[n].slot = i
  <1>1. PICK len \in Nat : len = Len(stack')
    OBVIOUS
  <1>2. \A n : n \in 1..len /\ n > 1 <=> n \in 2..len
    OBVIOUS
  <1> QED
    BY <1>1, <1>2 DEF Refused, IsRefusing

\* Nothing lies on a refusal but what it has to do for one share.
LEMMA RefusingTop ==
    ASSUME TypeOK, StackInv, NEW n \in 1..Len(stack), IsRefusing(n)
    PROVE  /\ non_reentrant /\ stack # <<>>
           /\ n = Len(stack) \/ (n = Len(stack) - 1 /\ Top.op \in {"drop", "retire"})
           /\ \A m \in 1..Len(stack) : IsRefusing(m) => m = n
  <1>1. PICK len \in Nat : len = Len(stack)
    BY StackTypes
  <1>2. n - 1 \in 1..len /\ stack[n - 1].op = "leave" /\ stack[n].op = "refuse" /\ n > 1
    BY <1>1 DEF IsRefusing
  <1>3. \A m \in 1..len : stack[m].op = "leave" => m = n - 1
    BY <1>1, <1>2 DEF StackInv
  <1>4. ASSUME NEW m \in 1..len, IsRefusing(m) PROVE m = n
    <2>1. m - 1 \in 1..len /\ stack[m - 1].op = "leave"
      BY <1>1, <1>4 DEF IsRefusing
    <2>2. m - 1 = n - 1
      BY <1>3, <2>1
    <2> QED
      BY <1>1, <2>2
  <1>5. n + 1 <= len => stack[n + 1].op \in {"drop", "retire"}
    <2> SUFFICES ASSUME n + 1 <= len PROVE stack[n + 1].op \in {"drop", "retire"}
      OBVIOUS
    <2>1. n + 1 \in 1..len /\ n + 1 > 1 /\ (n + 1) - 1 = n
      BY <1>1, <1>2
    <2>2. LiesOn(stack[n + 1], stack[n])
      BY <1>1, <2>1 DEF StackInv
    <2>3. stack[n + 1].op # "leave"
      BY <1>3, <1>2, <2>1
    <2> QED
      BY <1>2, <2>2, <2>3 DEF LiesOn
  <1>6. ~(n + 2 <= len)
    <2> SUFFICES ASSUME n + 2 <= len PROVE FALSE
      OBVIOUS
    <2>1. n + 2 \in 1..len /\ n + 2 > 1 /\ (n + 2) - 1 = n + 1 /\ n + 1 <= len
      BY <1>1, <1>2
    <2>2. LiesOn(stack[n + 2], stack[n + 1])
      BY <1>1, <2>1 DEF StackInv
    <2>3. stack[n + 2].op # "leave"
      BY <1>3, <1>2, <2>1
    <2> QED
      BY <1>5, <2>1, <2>2, <2>3 DEF LiesOn
  <1>7. non_reentrant
    BY <1>1, <1>2 DEF StackInv
  <1>8. n = len \/ n + 1 = len
    BY <1>1, <1>6
  <1>9. stack # <<>> /\ Top = stack[len]
    <2>1. stack # <<>>
      BY <1>1
    <2> QED
      BY <1>1, <2>1, StackTypes, TopType
  <1>10. n = len \/ (n = len - 1 /\ Top.op \in {"drop", "retire"})
    BY <1>1, <1>5, <1>8, <1>9
  <1> QED
    BY <1>1, <1>4, <1>7, <1>9, <1>10

LEMMA NotRefusing ==
    ASSUME TypeOK, StackInv,
           \/ ~non_reentrant
           \/ stack = <<>>
           \/ Top.op \notin {"refuse", "drop", "retire"}
    PROVE  ~Refusing
  <1> SUFFICES ASSUME NEW n \in 1..Len(stack), IsRefusing(n) PROVE FALSE
    BY DEF Refusing
  <1>1. /\ non_reentrant /\ stack # <<>>
        /\ n = Len(stack) \/ Top.op \in {"drop", "retire"}
    BY RefusingTop
  <1>2. n = Len(stack)
    BY <1>1
  <1>3. Top = stack[Len(stack)]
    BY <1>1, StackTypes, TopType
  <1> QED
    BY <1>1, <1>2, <1>3 DEF IsRefusing

\* No refusal begins with what is put on the stack.
LEMMA RefusingStep ==
    ASSUME TypeOK, NEW b, NEW items, Becomes(b, items),
           \A n \in 1..Len(stack) : n <= b => ~IsRefusing(n),
           \A n \in 1..Len(items) : items[n].op = "refuse" =>
               IF n = 1 THEN b = 0 \/ stack[b].op # "leave" ELSE items[n - 1].op # "leave"
    PROVE  ~Refusing'
  <1> SUFFICES ASSUME NEW n \in 1..Len(stack'), IsRefusing(n)' PROVE FALSE
    BY DEF Refusing
  <1>1. n > 1 /\ stack'[n - 1].op = "leave" /\ stack'[n].op = "refuse"
    BY DEF IsRefusing
  <1>2. PICK len \in Nat, k \in Nat : len = Len(stack) /\ k = Len(items)
    BY StackTypes DEF Becomes
  <1>3. /\ b \in 0..len /\ Len(stack') = b + k
        /\ \A m \in 1..b : stack'[m] = stack[m]
        /\ \A m \in 1..k : stack'[b + m] = items[m]
    BY <1>2 DEF Becomes
  <1>4. n \in 1..(b + k)
    BY <1>3
  <1>5. CASE n <= b
    <2>1. n \in 1..b /\ n - 1 \in 1..b /\ n \in 1..len
      BY <1>1, <1>3, <1>4, <1>5
    <2>2. stack[n - 1].op = "leave" /\ stack[n].op = "refuse"
      BY <1>1, <1>3, <2>1
    <2> QED
      BY <1>1, <1>2, <1>5, <2>1, <2>2 DEF IsRefusing
  <1>6. CASE n = b + 1
    <2>1. 1 \in 1..k /\ n - 1 = b /\ b # 0
      BY <1>1, <1>3, <1>4, <1>6
    <2>2. b \in 1..b
      BY <1>3, <2>1
    <2>3. stack'[n] = items[1] /\ stack'[n - 1] = stack[b]
      BY <1>3, <1>6, <2>1, <2>2
    <2> QED
      BY <1>1, <1>2, <2>1, <2>3
  <1>7. CASE n > b + 1
    <2>1. n - b \in 1..k /\ (n - b) - 1 \in 1..k /\ n - b # 1
          /\ b + (n - b) = n /\ b + ((n - b) - 1) = n - 1
      BY <1>1, <1>3, <1>4, <1>7
    <2>2. stack'[n] = items[n - b] /\ stack'[n - 1] = items[(n - b) - 1]
      BY <1>3, <2>1
    <2> QED
      BY <1>1, <1>2, <2>1, <2>2
  <1> QED
    BY <1>3, <1>4, <1>5, <1>6, <1>7

\* Where there was no refusal, and none begins.
LEMMA NoRefusal ==
    ASSUME TypeOK, TypeOK', ~Refusing, NEW b, NEW items, Becomes(b, items),
           \A n \in 1..Len(items) : items[n].op = "refuse" =>
               IF n = 1 THEN b = 0 \/ stack[b].op # "leave" ELSE items[n - 1].op # "leave"
    PROVE  /\ RefusedInv'
           /\ \A i \in Slots : ~Refused(i) /\ ~Refused(i)'
  <1>1. Len(stack) \in Nat
    BY StackTypes
  <1>2. Len(stack') \in Nat
    BY DEF TypeOK
  <1>3. ~Refusing'
    BY RefusingStep DEF Refusing
  <1> QED
    BY <1>1, <1>2, <1>3, RefusedPartsNext, RefusedIs, RefusedIsNext DEF Refusing

\* A refusal goes on until the slot is to be deleted again.
RefusalsGoOn == \A i \in Slots : Refused(i) => Refused(i)' \/ ~Live(i)'

LEMMA RefusedFrame ==
    ASSUME RefusedInv, UNCHANGED <<slotVars, stack>>
    PROVE  RefusedInv' /\ RefusalsGoOn
  <1>1. /\ \A i : Used(i)' = Used(i) /\ (Live(i)' <=> Live(i)) /\ (Refused(i)' <=> Refused(i))
        /\ UNCHANGED <<client, stack>>
    BY DEF slotVars, Used, Live, Refused
  <1> QED
    BY <1>1 DEF RefusedInv, RefusalsGoOn

\* The refusal is the lowest item that a step changes, or the one below.
LEMMA RefusedOne ==
    ASSUME TypeOK, TypeOK', StackInv, StackInv',
           NEW n \in 1..Len(stack), IsRefusing(n),
           n \in 1..Len(stack'), IsRefusing(n)', RefusedAt(n)',
           stack'[n].slot = stack[n].slot
    PROVE  RefusedInv' /\ RefusalsGoOn
  <1>1. Len(stack) \in Nat /\ Len(stack') \in Nat
    BY DEF TypeOK
  <1>2. \A m \in 1..Len(stack) : IsRefusing(m) => m = n
    BY RefusingTop
  <1>3. ASSUME NEW m \in 1..Len(stack'), IsRefusing(m)' PROVE m = n
    <2>1. stack'[m - 1].op = "leave" /\ stack'[n - 1].op = "leave"
          /\ m - 1 \in 1..Len(stack') /\ n - 1 \in 1..Len(stack')
      BY <1>1, <1>3 DEF IsRefusing
    <2>2. m - 1 = n - 1
      BY <2>1 DEF StackInv
    <2> QED
      BY <1>1, <2>2
  <1>4. RefusedInv'
    BY <1>1, <1>3, RefusedPartsNext
  <1>5. \A i \in Slots : Refused(i) => Refused(i)'
    BY <1>1, <1>2, RefusedIs, RefusedIsNext
  <1> QED
    BY <1>4, <1>5 DEF RefusalsGoOn

\* The top of the stack belongs to a refusal, or there is none.
LEMMA RefusingCases ==
    ASSUME TypeOK, StackInv, Refusing, RefusedInv
    PROVE  \E n \in 1..Len(stack) :
               /\ IsRefusing(n) /\ RefusedAt(n) /\ n > 1
               /\ stack # <<>> /\ stack[n] \in Items
               /\ \/ n = Len(stack) /\ stack[n] = Top /\ Top.op = "refuse"
                  \/ n = Len(stack) - 1 /\ Top.op \in {"drop", "retire"}
  <1>1. PICK n \in 1..Len(stack) : IsRefusing(n)
    BY DEF Refusing
  <1>2. RefusedAt(n)
    BY <1>1, StackTypes, RefusedParts
  <1>3. /\ stack # <<>>
        /\ n = Len(stack) \/ (n = Len(stack) - 1 /\ Top.op \in {"drop", "retire"})
    BY <1>1, RefusingTop
  <1>4. Top = stack[Len(stack)] /\ stack[n] \in Items
    BY <1>3, StackTypes, TopType
  <1> QED
    BY <1>1, <1>2, <1>3, <1>4 DEF IsRefusing

LEMMA RefusedPops ==
    ASSUME TypeOK, StackInv, SharesAreCounted, RefusedInv, PopsQuietly
    PROVE  RefusedInv' /\ RefusalsGoOn
  <1>1. /\ UNCHANGED slotVars
        /\ stack # <<>> /\ Top.op # "retire"
        /\ Becomes(Len(stack) - 1, <<>>) /\ TypeOK'
    BY PopsQuietlyFacts
  <1>2. CASE ~Refusing
    BY <1>1, <1>2, NoRefusal DEF RefusalsGoOn
  <1>3. CASE Refusing
    <2>1. PICK n \in 1..Len(stack) :
              /\ IsRefusing(n) /\ RefusedAt(n) /\ stack[n] \in Items
              /\ \/ n = Len(stack) /\ stack[n] = Top /\ Top.op = "refuse"
                 \/ n = Len(stack) - 1 /\ Top.op \in {"drop", "retire"}
      BY <1>3, RefusingCases
    <2>2. stack[n].op = "refuse" /\ stack[n].slot \in Slots
      BY <2>1, ItemTypes DEF IsRefusing, Loops
    <2>3. Len(stack) \in Nat /\ Len(stack') \in Nat
      BY <1>1 DEF TypeOK
    <2>4. n = Len(stack) /\ Top = stack[n] /\ Top.op = "refuse"
      <3> SUFFICES ASSUME n = Len(stack) - 1, Top.op \in {"drop", "retire"} PROVE FALSE
        BY <2>1
      <3>1. Top.op = "drop"
        BY <1>1
      <3>2. Doing("drop") /\ shares[Top.slot][Top.place] = None
        BY <3>1 DEF PopsQuietly, LeaveScope, LoopEnds, Looping, TickEnds, ClientReceives, DropShare,
           Doing
      <3>3. stack[n].slot = Top.slot /\ stack[n].place = Top.place + 1 /\ Top.place \in Places
            /\ Top = stack[Len(stack)]
        BY <3>2, DropItem
      <3>4. n + 1 = Len(stack)
        BY <2>3
      <3>5. stack[n].place = 2 /\ Used(stack[n].slot) = {1}
        BY <2>1, <2>3, <3>1, <3>3, <3>4 DEF RefusedAt
      <3>6. Top.place = 1
        BY <3>3, <3>5 DEF Places
      <3>7. 1 \in Used(Top.slot)
        BY <3>3, <3>5
      <3> QED
        BY <3>2, <3>6, <3>7 DEF Used
    <2>5. stack[n].place = 2 /\ ~Live(stack[n].slot)
      <3>1. LoopEnds
        BY <2>4 DEF PopsQuietly, LeaveScope, TickEnds, ClientReceives, DropShare, Doing
      <3>2. n + 1 > Len(stack)
        BY <2>3, <2>4
      <3>3. \/ stack[n].place = 1 /\ Used(stack[n].slot) = {1} /\ stack[n].object = client[stack[n].slot]
            \/ stack[n].place = 2 /\ ~Live(stack[n].slot)
        BY <2>1, <2>3, <3>2 DEF RefusedAt
      <3>4. ~(stack[n].place = 1 /\ Used(stack[n].slot) = {1}
              /\ stack[n].object = client[stack[n].slot])
        <4> SUFFICES ASSUME stack[n].place = 1, Used(stack[n].slot) = {1},
                            stack[n].object = client[stack[n].slot]
                     PROVE  FALSE
          OBVIOUS
        <4>1. 1 \in Ahead /\ ~(Top.place > MaxShares)
          BY <2>4 DEF Ahead
        <4> QED
          BY <2>4, <3>1, <4>1 DEF LoopEnds, IsGone
      <3> QED
        BY <3>3, <3>4
    <2>6. ~Refusing'
      <3>1. \A m \in 1..Len(stack) : m <= Len(stack) - 1 => ~IsRefusing(m)
        BY <2>1, <2>3, <2>4, RefusingTop
      <3> QED
        BY <1>1, <3>1, RefusingStep
    <2>7. \A m \in 1..Len(stack) : IsRefusing(m) => m = n
      BY <2>1, RefusingTop
    <2>8. \A i \in Slots : Refused(i) => ~Live(i)'
      <3>1. \A i \in Slots : Refused(i) => i = stack[n].slot
        BY <2>3, <2>7, RefusedIs
      <3>2. \A i \in Slots : Live(i)' <=> Live(i)
        BY <1>1 DEF slotVars, Live
      <3> QED
        BY <2>5, <3>1, <3>2
    <2> QED
      BY <2>3, <2>6, <2>8, RefusedPartsNext DEF Refusing, RefusalsGoOn
  <1> QED
    BY <1>2, <1>3

LEMMA RefusedRetire ==
    ASSUME TypeOK, TypeOK', StackInv, SharesAreCounted, RefusedInv, RetireSlot
    PROVE  RefusedInv' /\ RefusalsGoOn
  <1>1. PICK i \in Slots : i = Top.slot
    BY RetireSlotFacts
  <1>2. /\ Retires(i, Top.disconnect) /\ client[i] = Top.object
        /\ Becomes(Len(stack) - 1, <<>>) /\ StackInv'
    BY <1>1, RetireSlotFacts
  <1>3. stack # <<>> /\ Top.op = "retire" /\ Top = stack[Len(stack)] /\ Len(stack) \in Nat
        /\ LiesOn(Top, stack[Len(stack) - 1])
    BY RetireItem, StackTypes DEF RetireSlot
  <1>4. CASE ~Refusing
    BY <1>2, <1>4, NoRefusal DEF RefusalsGoOn
  <1>5. CASE Refusing
    <2>1. PICK n \in 1..Len(stack) :
              /\ IsRefusing(n) /\ RefusedAt(n) /\ n > 1
              /\ n = Len(stack) - 1 \/ Top.op = "refuse"
      BY <1>5, RefusingCases
    <2>2. n = Len(stack) - 1 /\ n + 1 = Len(stack)
      BY <1>3, <2>1
    <2>3. stack[n].slot = i
      BY <1>1, <1>3, <2>1, <2>2 DEF LiesOn, IsRefusing
    <2>4. Used(i) = {} /\ stack[n].place = 2 /\ stack[n].object = client[i]
      BY <1>3, <2>1, <2>2, <2>3 DEF RefusedAt
    <2>5. share_count[i] = 0
      BY <2>4, FS_EmptySet DEF SharesAreCounted
    <2>6. delete_pending'[i] /\ client' = client /\ Used(i)' = {}
      <3>1. delete_pending \in [Slots -> BOOLEAN]
        BY DEF TypeOK
      <3>2. Used(i)' = Used(i) /\ client' = client
            /\ delete_pending' = [delete_pending EXCEPT ![i] = @ \/ share_count[i] = 0]
        BY <1>2 DEF Retires, Used
      <3> QED
        BY <2>4, <2>5, <3>1, <3>2
    <2>7. /\ n \in 1..Len(stack') /\ stack'[n] = stack[n] /\ stack'[n - 1] = stack[n - 1]
          /\ Len(stack') = n /\ n + 1 > n
      <3>1. Len(stack') = n /\ n - 1 \in 1..Len(stack) /\ n <= Len(stack) - 1
            /\ n - 1 <= Len(stack) - 1
        BY <1>2, <1>3, <2>1, <2>2 DEF Becomes
      <3> QED
        BY <1>2, <1>3, <2>1, <2>2, <3>1, ItemKept
    <2>8. IsRefusing(n)' /\ RefusedAt(n)'
      BY <2>1, <2>3, <2>4, <2>6, <2>7 DEF IsRefusing, RefusedAt, Live
    <2> QED
      BY <1>2, <2>1, <2>7, <2>8, RefusedOne
  <1> QED
    BY <1>4, <1>5

LEMMA RefusedDrop ==
    ASSUME TypeOK, TypeOK', StackInv, SharesAreCounted, RefusedInv,
           DropShare, shares[Top.slot][Top.place] # None
    PROVE  RefusedInv' /\ RefusalsGoOn
  <1>1. PICK i \in Slots, k \in Places : i = Top.slot /\ k = Top.place
    BY DropItem DEF DropShare
  <1>2. /\ k \in Used(i) /\ GivesUp(i, k)
        /\ Becomes(Len(stack) - 1, <<Retire(i, FALSE)>>) /\ StackInv'
    BY <1>1, ReleaseGivesUp, DropShareStack DEF DropShare, Used
  <1>3. /\ stack # <<>> /\ Top.op = "drop" /\ Len(stack) \in Nat
        /\ stack[Len(stack) - 1].slot = i
        /\ stack[Len(stack) - 1].place = k + 1
    BY <1>1, DropItem, StackTypes DEF DropShare
  <1> DEFINE items == <<Retire(i, FALSE)>>
  <1>4. Len(items) = 1 /\ items[1] = Retire(i, FALSE) /\ Becomes(Len(stack) - 1, items)
    BY <1>2
  <1>5. Retire(i, FALSE).op = "retire" /\ Retire(i, FALSE).object = client[i]
    BY DEF Retire
  <1> HIDE DEF items
  <1>8. 1 \in 1..Len(items) /\ \A n \in 1..Len(items) : n = 1
    BY <1>4
  <1>6. CASE ~Refusing
    <2>1. \A n \in 1..Len(items) : items[n].op # "refuse"
      <3>1. items[1].op = "retire"
        BY <1>4, <1>5
      <3> QED
        BY <1>8, <3>1
    <2> QED
      BY <1>4, <1>6, <2>1, NoRefusal DEF RefusalsGoOn
  <1>7. CASE Refusing
    <2>1. PICK n \in 1..Len(stack) :
              /\ IsRefusing(n) /\ RefusedAt(n) /\ n > 1
              /\ n = Len(stack) - 1 \/ Top.op = "refuse"
      BY <1>7, RefusingCases
    <2>2. n = Len(stack) - 1 /\ n + 1 = Len(stack) /\ stack[n].slot = i
      BY <1>3, <2>1
    <2>3. Used(i) = {1} /\ stack[n].place = 2 /\ stack[n].object = client[i]
      <3>1. stack[n + 1].op = "drop"
        BY <1>3, <2>2, StackTypes, TopType
      <3> QED
        BY <1>3, <2>1, <2>2, <3>1 DEF RefusedAt
    <2>4. Used(i)' = {} /\ client' = client
      <3>1. Used(i)' = Used(i) \ {k} /\ client' = client
        BY <1>2, GivesUpUsed DEF GivesUp
      <3> QED
        BY <1>2, <2>3, <3>1
    <2>5. /\ n \in 1..Len(stack') /\ stack'[n] = stack[n] /\ stack'[n - 1] = stack[n - 1]
          /\ Len(stack') = n + 1 /\ stack'[n + 1] = Retire(i, FALSE)
      <3>1. Len(stack') = n + 1 /\ n - 1 \in 1..Len(stack) /\ n <= Len(stack) - 1
            /\ n - 1 <= Len(stack) - 1
        BY <1>3, <1>4, <2>1, <2>2 DEF Becomes
      <3>2. stack'[(Len(stack) - 1) + 1] = items[1]
        BY <1>4, <1>8 DEF Becomes
      <3> QED
        BY <1>3, <1>4, <2>1, <2>2, <3>1, <3>2, ItemKept
    <2>6. IsRefusing(n)'
      BY <2>1, <2>5 DEF IsRefusing
    <2>7. RefusedAt(n)'
      <3>1. n + 1 <= Len(stack')
        BY <2>5
      <3> QED
        BY <1>5, <2>2, <2>3, <2>4, <2>5, <3>1 DEF RefusedAt
    <2> QED
      BY <1>2, <2>1, <2>5, <2>6, <2>7, RefusedOne
  <1> QED
    BY <1>6, <1>7

LEMMA RefusedTell ==
    ASSUME TypeOK, TypeOK', StackInv, SharesAreCounted, RefusedInv,
           NEW i \in Slots, NEW k \in Places, TellFailed(i, k)
    PROVE  RefusedInv' /\ RefusalsGoOn
  <1>1. LoopAt({"refuse"}, i, k) /\ UNCHANGED <<client, delete_pending, shares>>
    BY DEF TellFailed
  <1>2. /\ stack # <<>> /\ Top \in Items /\ Top = stack[Len(stack)] /\ Top.op = "refuse"
        /\ Top.slot = i /\ k \in Used(i) /\ k >= Top.place /\ Len(stack) \in Nat
    BY <1>1, LoopItem, StackTypes DEF Loops
  <1>3. Becomes(Len(stack) - 1, <<NextPlace(k), Drop(i, k)>>) /\ StackInv'
    BY TellFailedStack
  <1>4. /\ Len(<<NextPlace(k), Drop(i, k)>>) = 2
        /\ <<NextPlace(k), Drop(i, k)>>[1] = NextPlace(k)
        /\ <<NextPlace(k), Drop(i, k)>>[2] = Drop(i, k)
    OBVIOUS
  <1>5. /\ NextPlace(k).op = "refuse" /\ NextPlace(k).slot = i
        /\ NextPlace(k).object = Top.object /\ NextPlace(k).place = k + 1
    BY <1>2, NextPlaceType DEF Loops
  <1>6. Drop(i, k).op = "drop"
    BY DEF Drop
  <1>7. CASE ~Refusing
    <2>1. Len(stack) - 1 = 0 \/ stack[Len(stack) - 1].op # "leave"
      <3>1. PICK len \in Nat \ {0} : len = Len(stack)
        BY <1>2, StackTypes, TopType
      <3>2. ~IsRefusing(len)
        BY <1>7, <3>1 DEF Refusing
      <3>3. stack[len].op = "refuse" /\ (len > 1 \/ len - 1 = 0)
        BY <1>2, <3>1
      <3> QED
        BY <3>1, <3>2, <3>3 DEF IsRefusing
    <2>2. \A n \in 1..Len(<<NextPlace(k), Drop(i, k)>>) :
              <<NextPlace(k), Drop(i, k)>>[n].op = "refuse" => n = 1
      BY <1>4, <1>6
    <2> HIDE DEF NextPlace
    <2> QED
      BY <1>3, <1>7, <2>1, <2>2, NoRefusal DEF RefusalsGoOn
  <1>8. CASE Refusing
    <2>1. PICK n \in 1..Len(stack) :
              /\ IsRefusing(n) /\ RefusedAt(n) /\ n > 1
              /\ n = Len(stack) /\ stack[n] = Top
      BY <1>2, <1>8, RefusingCases
    <2>2. n + 1 > Len(stack)
      BY <1>2, <2>1
    <2>3. Used(i) = {1} /\ Top.object = client[i]
      <3>1. \/ stack[n].place = 1 /\ Used(i) = {1} /\ stack[n].object = client[i]
            \/ stack[n].place = 2 /\ Used(i) \subseteq {1}
        BY <1>2, <2>1, <2>2 DEF RefusedAt
      <3> QED
        BY <1>2, <2>1, <3>1
    <2>4. k = 1 /\ k + 1 = 2
      BY <1>2, <2>3
    <2>5. Used(i)' = {1} /\ client' = client
      BY <1>1, <2>3 DEF Used
    <2>6. /\ n \in 1..Len(stack') /\ stack'[n] = NextPlace(k) /\ stack'[n - 1] = stack[n - 1]
          /\ Len(stack') = n + 1 /\ stack'[n + 1] = Drop(i, k)
      <3>1. Len(stack') = n + 1 /\ n - 1 \in 1..Len(stack) /\ n - 1 <= Len(stack) - 1
        BY <1>2, <1>3, <1>4, <2>1 DEF Becomes
      <3>2. /\ stack'[(Len(stack) - 1) + 1] = NextPlace(k)
            /\ stack'[(Len(stack) - 1) + 2] = Drop(i, k)
        BY <1>3, <1>4, ItemNew
      <3> QED
        BY <1>2, <1>3, <2>1, <3>1, <3>2, ItemKept
    <2>7. IsRefusing(n)'
      BY <1>5, <2>1, <2>6 DEF IsRefusing
    <2>8. RefusedAt(n)'
      BY <1>5, <1>6, <2>3, <2>4, <2>5, <2>6 DEF RefusedAt
    <2> QED
      BY <1>2, <1>3, <1>5, <2>1, <2>6, <2>7, <2>8, RefusedOne
  <1> QED
    BY <1>7, <1>8

\* acquire() takes a slot whose client has another host, and begins to refuse.
LEMMA RefusedBegins ==
    ASSUME TypeOK, TypeOK', StackInv, SharesAreCounted, LinkInv, RefusedInv,
           NEW h \in Hosts, NEW i \in Slots, AcquireSlotAt(h, i), attempt[i] # None
    PROVE  /\ RefusedInv' /\ RefusalsGoOn
           /\ Refused(i)' /\ \A j \in Slots : j # i => ~Refused(j)'
  <1>1. ~non_reentrant /\ ~Refusing /\ ~Live(i)
    BY NotRefusing DEF AcquireSlotAt, MayAcquire
  <1>2. /\ Becomes(Len(stack), <<Leave, Loop("refuse", i, 1, "Primary")>>)
        /\ StackInv' /\ Len(stack) \in Nat /\ Len(stack') \in Nat
    BY AcquireSlotStack, StackTypes DEF TypeOK
  <1>3. /\ Len(<<Leave, Loop("refuse", i, 1, "Primary")>>) = 2
        /\ <<Leave, Loop("refuse", i, 1, "Primary")>>[1] = Leave
        /\ <<Leave, Loop("refuse", i, 1, "Primary")>>[2] = Loop("refuse", i, 1, "Primary")
    OBVIOUS
  <1>4. /\ stack'[Len(stack) + 1] = Leave
        /\ stack'[Len(stack) + 2] = Loop("refuse", i, 1, "Primary")
        /\ Len(stack') = Len(stack) + 2
    BY <1>2, <1>3, ItemNew DEF Becomes
  <1>5. PICK n \in 1..Len(stack') : n = Len(stack) + 2 /\ n - 1 = Len(stack) + 1 /\ n > 1
    BY <1>2, <1>4
  <1>6. /\ Leave.op = "leave"
        /\ Loop("refuse", i, 1, "Primary").op = "refuse"
        /\ Loop("refuse", i, 1, "Primary").slot = i
        /\ Loop("refuse", i, 1, "Primary").object = client[i]
        /\ Loop("refuse", i, 1, "Primary").place = 1
    BY DEF Leave, Loop
  <1>7. IsRefusing(n)'
    BY <1>4, <1>5, <1>6 DEF IsRefusing
  <1>8. client'[i] = client[i]
    <2>1. client \in [Slots -> Objects] /\ client[i] # None
      BY DEF TypeOK, LinkInv
    <2> QED
      BY <2>1 DEF AcquireSlotAt
  <1>9. Used(i)' = {1}
    <2>1. 1 \in Places /\ Used(i) = {}
      <3>1. 1 \in Places
        BY DEF Places
      <3> QED
        BY <1>1, <3>1 DEF SharesAreCounted, Live
    <2>2. IsPlaced(i, 1, acquired + 1)
      BY <2>1, NewShareFacts DEF NewShareAt
    <2> QED
      BY <2>1, <2>2 DEF IsPlaced
  <1>10. RefusedAt(n)'
    <2>1. n + 1 > Len(stack')
      BY <1>2, <1>4, <1>5
    <2> QED
      BY <1>4, <1>5, <1>6, <1>8, <1>9, <2>1 DEF RefusedAt
  <1>11. ASSUME NEW m \in 1..Len(stack'), IsRefusing(m)' PROVE m = n
    <2>1. stack'[m - 1].op = "leave" /\ stack'[n - 1].op = "leave"
          /\ m - 1 \in 1..Len(stack') /\ n - 1 \in 1..Len(stack')
      BY <1>2, <1>7, <1>11 DEF IsRefusing
    <2>2. m - 1 = n - 1
      BY <1>2, <2>1 DEF StackInv
    <2> QED
      BY <1>2, <2>2
  <1>12. stack'[n].slot = i
    BY <1>4, <1>5, <1>6
  <1>13. Refused(i)' /\ \A j \in Slots : j # i => ~Refused(j)'
    BY <1>2, <1>7, <1>11, <1>12, RefusedIsNext
  <1>14. \A j \in Slots : ~Refused(j)
    BY <1>1, <1>2, RefusedIs DEF Refusing
  <1> QED
    BY <1>2, <1>10, <1>11, <1>13, <1>14, RefusedPartsNext DEF RefusalsGoOn

LEMMA RefusedStep ==
    ASSUME TypeOK, StackInv, SharesAreCounted, LinkInv, RefusedInv, [Next]_vars
    PROVE  RefusedInv' /\ RefusalsGoOn
  <1> DEFINE Goal == RefusedInv' /\ RefusalsGoOn
  <1>0. TypeOK' /\ StackInv' /\ Len(stack) \in Nat
    BY CountedStep, StackTypes
  <1>1. CASE IdleStep
    BY <1>1, IdleFacts, RefusedFrame
  <1>2. CASE PopsQuietly
    BY <1>2, RefusedPops
  <1>3. CASE Tick
    <2>1. Becomes(Len(stack), <<Leave, TickSlot(1)>>) /\ ~non_reentrant
      BY <1>3, TickFacts DEF Tick
    <2>2. \A n \in 1..Len(<<Leave, TickSlot(1)>>) : <<Leave, TickSlot(1)>>[n].op # "refuse"
      BY DEF Leave, TickSlot
    <2> QED
      BY <1>0, <2>1, <2>2, NotRefusing, NoRefusal DEF RefusalsGoOn
  <1>4. ASSUME NEW h \in Hosts, NEW i \in Slots, NEW k \in Places, AcquireShareAt(h, i, k)
        PROVE  Goal
    <2>1. ~non_reentrant
      BY <1>4 DEF AcquireShareAt, MayAcquire
    <2>2. Becomes(Len(stack), <<Leave>>) \/ Becomes(Len(stack), <<>>)
      BY <1>4, AcquireShareStack
    <2>3. \A n \in 1..Len(<<Leave>>) : <<Leave>>[n].op # "refuse"
      BY DEF Leave
    <2>4. \A n \in 1..Len(<<>>) : <<>>[n].op # "refuse"
      OBVIOUS
    <2> QED
      BY <1>0, <2>1, <2>2, <2>3, <2>4, NotRefusing, NoRefusal DEF RefusalsGoOn
  <1>5. ASSUME NEW h \in Hosts, NEW i \in Slots, AcquireSlotAt(h, i)
        PROVE  Goal
    <2>1. CASE attempt[i] = None
      <3>1. ~non_reentrant
        BY <1>5 DEF AcquireSlotAt, MayAcquire
      <3>2. Becomes(Len(stack), <<>>)
        BY <1>5, <2>1, AcquireSlotStack
      <3>3. \A n \in 1..Len(<<>>) : <<>>[n].op # "refuse"
        OBVIOUS
      <3> QED
        BY <1>0, <3>1, <3>2, <3>3, NotRefusing, NoRefusal DEF RefusalsGoOn
    <2>2. CASE attempt[i] # None
      BY <1>0, <1>5, <2>2, RefusedBegins
    <2> QED
      BY <2>1, <2>2
  <1>6. ASSUME NEW a \in Acquires, NEW force \in BOOLEAN, NEW i \in Slots, NEW k \in Places,
               ReleaseAt(a, force, i, k)
        PROVE  Goal
    <2>1. ~non_reentrant
      BY <1>6 DEF ReleaseAt
    <2>2. \/ Becomes(Len(stack), <<Leave, Loop("force", i, 1, "Primary"), Retire(i, TRUE)>>)
          \/ Becomes(Len(stack), <<Leave, Retire(i, TRUE)>>)
      BY <1>6, ReleaseStack
    <2>3. Leave.op = "leave" /\ Loop("force", i, 1, "Primary").op = "force"
          /\ Retire(i, TRUE).op = "retire"
      BY DEF Leave, Loop, Retire
    <2> DEFINE three == <<Leave, Loop("force", i, 1, "Primary"), Retire(i, TRUE)>>
               two == <<Leave, Retire(i, TRUE)>>
    <2>4. /\ Len(three) = 3 /\ three[1] = Leave /\ three[2] = Loop("force", i, 1, "Primary")
          /\ three[3] = Retire(i, TRUE)
          /\ Len(two) = 2 /\ two[1] = Leave /\ two[2] = Retire(i, TRUE)
      OBVIOUS
    <2>5. Becomes(Len(stack), three) \/ Becomes(Len(stack), two)
      BY <2>2
    <2> HIDE DEF three, two
    <2>6. /\ three[1].op # "refuse" /\ three[2].op # "refuse" /\ three[3].op # "refuse"
          /\ two[1].op # "refuse" /\ two[2].op # "refuse"
      BY <2>3, <2>4
    <2>7. /\ \A n \in 1..Len(three) : n = 1 \/ n = 2 \/ n = 3
          /\ \A n \in 1..Len(two) : n = 1 \/ n = 2
      BY <2>4
    <2>8. /\ \A n \in 1..Len(three) : three[n].op # "refuse"
          /\ \A n \in 1..Len(two) : two[n].op # "refuse"
      BY <2>6, <2>7
    <2> QED
      BY <1>0, <2>1, <2>5, <2>8, NotRefusing, NoRefusal DEF RefusalsGoOn
  <1>7. CASE RetireSlot
    BY <1>0, <1>7, RefusedRetire
  <1>8. CASE DropShare /\ shares[Top.slot][Top.place] # None
    BY <1>0, <1>8, RefusedDrop
  <1>9. ASSUME NEW i \in Slots, NEW k \in Places, TellConnected(i, k)
        PROVE  Goal
    <2>1. LoopAt({"accept"}, i, k)
      BY <1>9 DEF TellConnected
    <2>2. Top.op = "accept" /\ Top \in Items
      BY <2>1, LoopItem DEF Loops
    <2>3. NextPlace(k).op = "accept"
      BY <2>2, NextPlaceType DEF Loops
    <2> DEFINE items == <<NextPlace(k)>>
    <2>4. Len(items) = 1 /\ items[1] = NextPlace(k) /\ Becomes(Len(stack) - 1, items)
      BY <1>9, TellConnectedStack
    <2> HIDE DEF items
    <2>5. \A n \in 1..Len(items) : items[n].op # "refuse"
      <3>1. items[1].op # "refuse" /\ \A n \in 1..Len(items) : n = 1
        BY <2>3, <2>4
      <3> QED
        BY <3>1
    <2> QED
      BY <1>0, <2>2, <2>4, <2>5, NotRefusing, NoRefusal DEF RefusalsGoOn
  <1>10. ASSUME NEW i \in Slots, NEW k \in Places, TellFailed(i, k)
         PROVE  Goal
    BY <1>0, <1>10, RefusedTell
  <1>11. ASSUME NEW i \in Slots, NEW k \in Places, TellClosed(i, k)
         PROVE  Goal
    <2>1. LoopAt({"close", "force"}, i, k)
      BY <1>11 DEF TellClosed
    <2>2. Top.op \in {"close", "force"} /\ Top \in Items
      BY <2>1, LoopItem DEF Loops
    <2>3. NextPlace(k).op = Top.op /\ Retire(i, Top.op = "force").op = "retire"
      BY <2>2, NextPlaceType DEF Loops, Retire
    <2> DEFINE items == <<NextPlace(k), Retire(i, Top.op = "force")>>
    <2>4. /\ Len(items) = 2 /\ items[1] = NextPlace(k) /\ items[2] = Retire(i, Top.op = "force")
          /\ Becomes(Len(stack) - 1, items)
      BY <1>11, TellClosedStack
    <2> HIDE DEF items
    <2>5. \A n \in 1..Len(items) : items[n].op # "refuse"
      <3>1. items[1].op # "refuse" /\ items[2].op # "refuse"
        BY <2>2, <2>3, <2>4
      <3>2. \A n \in 1..Len(items) : n = 1 \/ n = 2
        BY <2>4
      <3> QED
        BY <3>1, <3>2
    <2> QED
      BY <1>0, <2>2, <2>4, <2>5, NotRefusing, NoRefusal DEF RefusalsGoOn
  <1>12. ASSUME NEW i \in Slots, TickDelete(i) \/ ClientWaits(i)
         PROVE  Goal
    <2> DEFINE items == <<TickSlot(i + 1)>>
    <2>1. /\ Len(items) = 1 /\ items[1] = TickSlot(i + 1) /\ Becomes(Len(stack) - 1, items)
          /\ Top.op = "tick"
      BY <1>12, TickDeleteFacts, ClientWaitsFacts
    <2>2. TickSlot(i + 1).op = "tick"
      BY DEF TickSlot
    <2> HIDE DEF items
    <2>3. \A n \in 1..Len(items) : items[n].op # "refuse"
      <3>1. items[1].op # "refuse" /\ \A n \in 1..Len(items) : n = 1
        BY <2>1, <2>2
      <3> QED
        BY <3>1
    <2> QED
      BY <1>0, <2>1, <2>3, NotRefusing, NoRefusal DEF RefusalsGoOn
  <1>13. ASSUME NEW i \in Slots, ClientConnects(i)
         PROVE  Goal
    <2> DEFINE items == <<TickSlot(i + 1), Receive(i), Loop("accept", i, 1, "Primary")>>
    <2>1. /\ Len(items) = 3 /\ items[1] = TickSlot(i + 1) /\ items[2] = Receive(i)
          /\ items[3] = Loop("accept", i, 1, "Primary")
          /\ Becomes(Len(stack) - 1, items)
          /\ Top.op = "tick"
      BY <1>13, ClientConnectsFacts
    <2>2. TickSlot(i + 1).op = "tick" /\ Receive(i).op = "receive"
          /\ Loop("accept", i, 1, "Primary").op = "accept"
      BY DEF TickSlot, Receive, Loop
    <2> HIDE DEF items
    <2>3. \A n \in 1..Len(items) : items[n].op # "refuse"
      <3>1. items[1].op # "refuse" /\ items[2].op # "refuse" /\ items[3].op # "refuse"
        BY <2>1, <2>2
      <3>2. \A n \in 1..Len(items) : n = 1 \/ n = 2 \/ n = 3
        BY <2>1
      <3> QED
        BY <3>1, <3>2
    <2> QED
      BY <1>0, <2>1, <2>3, NotRefusing, NoRefusal DEF RefusalsGoOn
  <1>14. ASSUME NEW i \in Slots, ClientFails(i) \/ ClientDisconnects(i)
         PROVE  Goal
    <2>1. PICK op \in {"refuse", "close"} :
              /\ Becomes(Len(stack) - 1, <<TickSlot(i + 1), Loop(op, i, 1, "Primary")>>)
              /\ Top.op = "tick"
      BY <1>14, ClientReportsFacts
    <2> DEFINE items == <<TickSlot(i + 1), Loop(op, i, 1, "Primary")>>
    <2>2. /\ Len(items) = 2 /\ items[1] = TickSlot(i + 1)
          /\ Becomes(Len(stack) - 1, items)
      BY <2>1
    <2>3. TickSlot(i + 1).op = "tick"
      BY DEF TickSlot
    <2> HIDE DEF items
    <2>4. \A n \in 1..Len(items) : items[n].op = "refuse" =>
              IF n = 1 THEN Len(stack) - 1 = 0 \/ stack[Len(stack) - 1].op # "leave"
              ELSE items[n - 1].op # "leave"
      <3>1. items[1].op # "refuse" /\ items[2 - 1].op # "leave"
        BY <2>2, <2>3
      <3>2. \A n \in 1..Len(items) : n = 1 \/ n = 2
        BY <2>2
      <3> QED
        BY <3>1, <3>2
    <2> QED
      BY <1>0, <2>1, <2>2, <2>4, NotRefusing, NoRefusal DEF RefusalsGoOn
  <1>15. CASE ClientReceives /\ ~UNCHANGED <<attempt, link>>
    <2> DEFINE items == <<Loop("close", Top.slot, 1, "Primary")>>
    <2>1. /\ Len(items) = 1 /\ items[1] = Loop("close", Top.slot, 1, "Primary")
          /\ Becomes(Len(stack) - 1, items) /\ Top.op = "receive"
      BY <1>15, ReceiveClosesFacts
    <2>2. Loop("close", Top.slot, 1, "Primary").op = "close"
      BY DEF Loop
    <2> HIDE DEF items
    <2>3. \A n \in 1..Len(items) : items[n].op # "refuse"
      <3>1. items[1].op # "refuse" /\ \A n \in 1..Len(items) : n = 1
        BY <2>1, <2>2
      <3> QED
        BY <3>1
    <2> QED
      BY <1>0, <2>1, <2>3, NotRefusing, NoRefusal DEF RefusalsGoOn
  <1>16. ASSUME NEW r \in resolves, NEW i \in Slots, Answer(r), AnswerFailure(r, i)
         PROVE  Goal
    <2> DEFINE items == <<Loop("refuse", i, 1, "Primary")>>
    <2>1. Len(items) = 1 /\ Becomes(0, items) /\ stack = <<>>
      BY <1>16, AnswerFailureFacts
    <2> HIDE DEF items
    <2>2. \A n \in 1..Len(items) : n = 1
      BY <2>1
    <2> QED
      BY <1>0, <2>1, <2>2, NotRefusing, NoRefusal DEF RefusalsGoOn
  <1>17. ASSUME NEW r \in resolves, NEW i \in Slots, Answer(r), AnswerAddress(r, i)
         PROVE  Goal
    <2>1. UNCHANGED slotVars
      BY <1>17 DEF Answer
    <2> QED
      BY <1>17, <2>1, AnswerAddressFacts, RefusedFrame
  <1> QED
    BY StepCases, <1>1, <1>2, <1>3, <1>4, <1>5, <1>6, <1>7, <1>8, <1>9, <1>10, <1>11, <1>12,
       <1>13, <1>14, <1>15, <1>16, <1>17

-----------------------------------------------------------------------------
(* The hosts of slots and shares.                                          *)

\* A slot whose client is for its shares.
Current(i) == Live(i) /\ attempt[i] # None /\ ~Refused(i)

\* The shares of slot i have host h, and no slot but i has to do with it.
Claims(i, h) ==
    /\ \A k \in Used(i) : goal[shares[i][k]] = h
    /\ \A j \in Slots \ {i} :
           /\ \A k \in Used(j) : goal[shares[j][k]] # h
           /\ Current(j) => goal[attempt[j]] # h

LEMMA HostParts ==
    HostInv <=> OneSlotPerHost /\ \A i \in Slots : Current(i) => Claims(i, goal[attempt[i]])
  BY DEF HostInv, Current, Claims

LEMMA HostPartsNext ==
    HostInv' <=> OneSlotPerHost' /\ \A i \in Slots : Current(i)' => Claims(i, goal[attempt[i]])'
  BY DEF HostInv, Current, Claims

\* What was accepted keeps its host.
GoalsKept == \A a \in 1..acquired : goal'[a] = goal[a]

LEMMA AttemptAccepted ==
    ASSUME TypeOK, LinkInv, NEW i \in Slots, attempt[i] # None
    PROVE  attempt[i] \in 1..acquired
  <1>1. attempt[i] \in Objects /\ attempt[i] <= acquired
    BY DEF TypeOK, LinkInv
  <1> QED
    BY <1>1, UserValues DEF None

\* A step that only gives up what slots have.
HostsGivenUp ==
    /\ \A i \in Slots :
           /\ Used(i)' \subseteq Used(i)
           /\ \A k \in Used(i)' : shares'[i][k] = shares[i][k]
           /\ Current(i)' => Current(i) /\ attempt'[i] = attempt[i]
    /\ GoalsKept

LEMMA HostFrame ==
    ASSUME TypeOK, LinkInv, PlacesInv, HostInv, HostsGivenUp
    PROVE  HostInv'
  <1>1. ASSUME NEW i \in Slots, NEW k \in Used(i)'
        PROVE  /\ k \in Used(i) /\ goal'[shares'[i][k]] = goal[shares[i][k]]
    <2>1. k \in Used(i) /\ shares'[i][k] = shares[i][k]
      BY <1>1 DEF HostsGivenUp
    <2>2. shares[i][k] \in 1..acquired
      BY <2>1, ShareAccepted
    <2> QED
      BY <2>1, <2>2 DEF HostsGivenUp, GoalsKept
  <1>2. ASSUME NEW i \in Slots, Current(i)'
        PROVE  Current(i) /\ goal'[attempt'[i]] = goal[attempt[i]]
    <2>1. Current(i) /\ attempt'[i] = attempt[i]
      BY <1>2 DEF HostsGivenUp
    <2>2. attempt[i] \in 1..acquired
      BY <2>1, AttemptAccepted DEF Current
    <2> QED
      BY <2>1, <2>2 DEF HostsGivenUp, GoalsKept
  <1>3. OneSlotPerHost /\ \A i \in Slots : Current(i) => Claims(i, goal[attempt[i]])
    BY HostParts
  <1>4. OneSlotPerHost'
    BY <1>1, <1>3 DEF OneSlotPerHost
  <1>5. ASSUME NEW i \in Slots, Current(i)' PROVE Claims(i, goal[attempt[i]])'
    <2>1. Claims(i, goal[attempt[i]]) /\ goal'[attempt'[i]] = goal[attempt[i]]
      BY <1>2, <1>3, <1>5
    <2> QED
      BY <1>1, <1>2, <2>1 DEF Claims
  <1> QED
    BY <1>4, <1>5, HostPartsNext

\* The slots that the client of another slot can compete with are the ones whose client
\* has a host: no other has a share, or acquire() would have compared with a null host.
LEMMA ComparedSlots ==
    ASSUME TypeOK, StackInv, SharesAreCounted, NEW h \in Hosts, MayAcquire, Comparable(h),
           Matching(h) = {}, NEW j \in Slots
    PROVE  /\ Live(j) => Current(j) /\ goal[attempt[j]] # h
           /\ Used(j) # {} => Live(j)
  <1>1. ~Refusing
    BY NotRefusing DEF MayAcquire
  <1>2. ~Refused(j)
    BY <1>1, StackTypes, RefusedIs DEF Refusing
  <1>3. ASSUME Live(j) PROVE Current(j) /\ goal[attempt[j]] # h
    <2>1. attempt[j] # None
      BY <1>3 DEF Comparable
    <2>2. goal[attempt[j]] # h
      BY <1>3, <2>1 DEF Matching, HasHost
    <2> QED
      BY <1>2, <1>3, <2>1, <2>2 DEF Current
  <1>4. Used(j) # {} => Live(j)
    BY DEF SharesAreCounted, Live
  <1> QED
    BY <1>3, <1>4

\* A new share of a slot whose client has the host already.
LEMMA HostJoined ==
    ASSUME TypeOK, StackInv, SharesAreCounted, LinkInv, PlacesInv, HostInv,
           TypeOK', StackInv',
           NEW h \in Hosts, NEW i \in Slots, NEW k \in Places, AcquireShareAt(h, i, k)
    PROVE  HostInv'
  <1>1. ~Refusing
    BY NotRefusing DEF AcquireShareAt, MayAcquire
  <1>2. \A j \in Slots : ~Refused(j) /\ ~Refused(j)'
    <2>1. Becomes(Len(stack), <<Leave>>) \/ Becomes(Len(stack), <<>>)
      BY AcquireShareStack
    <2>2. \A n \in 1..Len(<<Leave>>) : <<Leave>>[n].op # "refuse"
      BY DEF Leave
    <2>3. \A n \in 1..Len(<<>>) : <<>>[n].op # "refuse"
      OBVIOUS
    <2> QED
      BY <1>1, <2>1, <2>2, <2>3, NoRefusal
  <1>3. /\ UNCHANGED <<client, delete_pending, attempt>>
        /\ Live(i) /\ attempt[i] # None /\ goal[attempt[i]] = h
    BY DEF AcquireShareAt, Matching, HasHost, clientVars
  <1>4. \A j \in Slots : Current(j)' <=> Current(j)
    BY <1>2, <1>3 DEF Current, Live
  <1>5. /\ \A a \in 1..acquired : goal'[a] = goal[a]
        /\ goal'[acquired + 1] = h
        /\ IsPlaced(i, k, acquired + 1)
    BY NewShareFacts DEF NewShareAt
  <1>6. ASSUME NEW j \in Slots, Current(j)'
        PROVE  Current(j) /\ goal'[attempt'[j]] = goal[attempt[j]]
    <2>1. attempt[j] \in 1..acquired
      BY <1>4, <1>6, AttemptAccepted DEF Current
    <2> QED
      BY <1>3, <1>4, <1>5, <1>6, <2>1
  <1>7. ASSUME NEW j \in Slots, NEW m \in Used(j)'
        PROVE  \/ j = i /\ m = k /\ goal'[shares'[j][m]] = h
               \/ m \in Used(j) /\ goal'[shares'[j][m]] = goal[shares[j][m]]
    <2>1. m \in Places
      BY <1>7 DEF Used
    <2>2. CASE j = i /\ m = k
      <3>1. shares'[j][m] = acquired + 1
        BY <1>5, <2>2 DEF IsPlaced
      <3> QED
        BY <1>5, <2>2, <3>1
    <2>3. CASE ~(j = i /\ m = k)
      <3>1. m \in Used(j) /\ shares'[j][m] = shares[j][m]
        BY <1>5, <1>7, <2>1, <2>3 DEF IsPlaced
      <3>2. shares[j][m] \in 1..acquired
        BY <3>1, ShareAccepted
      <3> QED
        BY <1>5, <3>1, <3>2
    <2> QED
      BY <2>2, <2>3
  <1>8. /\ OneSlotPerHost
        /\ \A j \in Slots : Current(j) => Claims(j, goal[attempt[j]])
        /\ Current(i) /\ Claims(i, h)
    BY <1>2, <1>3, HostParts DEF Current
  <1>9. OneSlotPerHost'
    <2> SUFFICES ASSUME NEW j \in Slots, NEW n \in Slots, NEW m \in Used(j)', NEW l \in Used(n)',
                        goal'[shares'[j][m]] = goal'[shares'[n][l]]
                 PROVE  j = n
      BY DEF OneSlotPerHost
    <2>1. goal'[shares'[j][m]] # h \/ j = i
      BY <1>7, <1>8 DEF Claims
    <2>2. goal'[shares'[n][l]] # h \/ n = i
      BY <1>7, <1>8 DEF Claims
    <2>3. CASE goal'[shares'[j][m]] = h
      BY <2>1, <2>2, <2>3
    <2>4. CASE goal'[shares'[j][m]] # h
      <3>1. /\ m \in Used(j) /\ goal'[shares'[j][m]] = goal[shares[j][m]]
            /\ l \in Used(n) /\ goal'[shares'[n][l]] = goal[shares[n][l]]
        BY <1>7, <2>4
      <3> QED
        BY <1>8, <3>1 DEF OneSlotPerHost
    <2> QED
      BY <2>3, <2>4
  <1>10. ASSUME NEW j \in Slots, Current(j)' PROVE Claims(j, goal[attempt[j]])'
    <2>1. /\ Claims(j, goal[attempt[j]]) /\ goal'[attempt'[j]] = goal[attempt[j]]
          /\ j # i => goal[attempt[j]] # h
          /\ j = i => goal[attempt[j]] = h
      BY <1>3, <1>6, <1>8, <1>10 DEF Claims
    <2>2. \A m \in Used(j)' : goal'[shares'[j][m]] = goal'[attempt'[j]]
      BY <1>7, <2>1 DEF Claims
    <2>3. ASSUME NEW n \in Slots \ {j}
          PROVE  /\ \A m \in Used(n)' : goal'[shares'[n][m]] # goal'[attempt'[j]]
                 /\ Current(n)' => goal'[attempt'[n]] # goal'[attempt'[j]]
      BY <1>6, <1>7, <2>1 DEF Claims
    <2> QED
      BY <2>2, <2>3 DEF Claims
  <1> QED
    BY <1>9, <1>10, HostPartsNext

\* A new share of a slot that is made or revived for it.
LEMMA HostTaken ==
    ASSUME TypeOK, StackInv, SharesAreCounted, LinkInv, PlacesInv, HostInv, RefusedInv,
           TypeOK', StackInv',
           NEW h \in Hosts, NEW i \in Slots, AcquireSlotAt(h, i)
    PROVE  HostInv'
  <1>1. 1 \in Places /\ MayAcquire /\ Comparable(h) /\ Matching(h) = {} /\ ~Live(i)
    BY DEF Places, AcquireSlotAt
  <1>2. /\ \A a \in 1..acquired : goal'[a] = goal[a]
        /\ goal'[acquired + 1] = h
        /\ IsPlaced(i, 1, acquired + 1)
    BY <1>1, NewShareFacts DEF NewShareAt
  <1>3. /\ OneSlotPerHost
        /\ \A j \in Slots : Current(j) => Claims(j, goal[attempt[j]])
    BY HostParts
  <1>4. ASSUME NEW j \in Slots, j # i
        PROVE  Live(j)' = Live(j) /\ attempt'[j] = attempt[j]
    <2>1. /\ client \in [Slots -> Objects] /\ delete_pending \in [Slots -> BOOLEAN]
          /\ attempt \in [Slots -> Objects]
      BY DEF TypeOK
    <2>2. client'[j] = client[j] /\ delete_pending'[j] = delete_pending[j]
      BY <1>4, <2>1 DEF AcquireSlotAt
    <2>3. attempt'[j] = attempt[j]
      BY <1>4, <2>1 DEF AcquireSlotAt
    <2> QED
      BY <2>2, <2>3 DEF Live
  <1>5. ASSUME NEW j \in Slots, j # i, Current(j)'
        PROVE  Current(j) /\ goal'[attempt'[j]] = goal[attempt[j]] /\ goal[attempt[j]] # h
    <2>1. Live(j)
      BY <1>4, <1>5 DEF Current
    <2>2. Current(j) /\ goal[attempt[j]] # h
      BY <1>1, <2>1, ComparedSlots
    <2>3. attempt[j] \in 1..acquired
      BY <2>2, AttemptAccepted DEF Current
    <2> QED
      BY <1>2, <1>4, <1>5, <2>2, <2>3
  <1>6. Current(i)' => goal'[attempt'[i]] = h
    <2>1. CASE attempt[i] = None
      <3>1. attempt'[i] = acquired + 1
        BY <2>1 DEF AcquireSlotAt, TypeOK
      <3> QED
        BY <1>2, <3>1
    <2>2. CASE attempt[i] # None
      <3>1. Refused(i)'
        BY <2>2, RefusedBegins
      <3> QED
        BY <3>1 DEF Current
    <2> QED
      BY <2>1, <2>2
  <1>7. ASSUME NEW j \in Slots, NEW m \in Used(j)'
        PROVE  \/ j = i /\ m = 1 /\ goal'[shares'[j][m]] = h
               \/ /\ j # i /\ m \in Used(j)
                  /\ goal'[shares'[j][m]] = goal[shares[j][m]]
                  /\ goal[shares[j][m]] # h
    <2>1. CASE j = i
      <3>1. Used(i) = {}
        BY <1>1 DEF SharesAreCounted, Live
      <3>2. m = 1 /\ shares'[j][m] = acquired + 1
        BY <1>1, <1>2, <1>7, <2>1, <3>1 DEF IsPlaced
      <3> QED
        BY <1>2, <2>1, <3>2
    <2>2. CASE j # i
      <3>1. m \in Used(j) /\ m \in Places
        BY <1>2, <1>7, <2>2 DEF IsPlaced, Used
      <3>2. shares'[j][m] = shares[j][m]
        BY <1>2, <2>2, <3>1 DEF IsPlaced
      <3>3. shares[j][m] \in 1..acquired
        BY <3>1, ShareAccepted
      <3>4. Current(j) /\ goal[attempt[j]] # h
        <4>1. Used(j) # {}
          BY <3>1
        <4> QED
          BY <1>1, <4>1, ComparedSlots
      <3>5. goal[shares[j][m]] = goal[attempt[j]]
        BY <1>3, <3>1, <3>4 DEF Claims
      <3> QED
        BY <1>2, <2>2, <3>1, <3>2, <3>3, <3>4, <3>5
    <2> QED
      BY <2>1, <2>2
  <1>8. OneSlotPerHost'
    <2> SUFFICES ASSUME NEW j \in Slots, NEW n \in Slots, NEW m \in Used(j)', NEW l \in Used(n)',
                        goal'[shares'[j][m]] = goal'[shares'[n][l]]
                 PROVE  j = n
      BY DEF OneSlotPerHost
    <2>1. CASE goal'[shares'[j][m]] = h
      <3>1. j = i
        BY <1>7, <2>1
      <3>2. n = i
        <4>1. goal'[shares'[n][l]] = h
          BY <2>1
        <4>2. l \in Used(n)'
          OBVIOUS
        <4> QED
          BY <1>7, <4>1, <4>2
      <3> QED
        BY <3>1, <3>2
    <2>2. CASE goal'[shares'[j][m]] # h
      <3>1. /\ m \in Used(j) /\ goal'[shares'[j][m]] = goal[shares[j][m]]
            /\ l \in Used(n) /\ goal'[shares'[n][l]] = goal[shares[n][l]]
        BY <1>7, <2>2
      <3> QED
        BY <1>3, <3>1 DEF OneSlotPerHost
    <2> QED
      BY <2>1, <2>2
  <1>9. ASSUME NEW j \in Slots, Current(j)' PROVE Claims(j, goal[attempt[j]])'
    <2>1. CASE j = i
      <3>1. goal'[attempt'[j]] = h
        BY <1>6, <1>9, <2>1
      <3>2. \A m \in Used(j)' : goal'[shares'[j][m]] = h
        BY <1>7, <2>1
      <3>3. ASSUME NEW n \in Slots \ {j}
            PROVE  /\ \A m \in Used(n)' : goal'[shares'[n][m]] # h
                   /\ Current(n)' => goal'[attempt'[n]] # h
        BY <1>5, <1>7, <2>1
      <3> QED
        BY <3>1, <3>2, <3>3 DEF Claims
    <2>2. CASE j # i
      <3>1. /\ Current(j) /\ goal'[attempt'[j]] = goal[attempt[j]] /\ goal[attempt[j]] # h
            /\ Claims(j, goal[attempt[j]])
        BY <1>3, <1>5, <1>9, <2>2
      <3>2. \A m \in Used(j)' : goal'[shares'[j][m]] = goal[attempt[j]]
        BY <1>7, <2>2, <3>1 DEF Claims
      <3>3. ASSUME NEW n \in Slots \ {j}
            PROVE  /\ \A m \in Used(n)' : goal'[shares'[n][m]] # goal[attempt[j]]
                   /\ Current(n)' => goal'[attempt'[n]] # goal[attempt[j]]
        BY <1>5, <1>6, <1>7, <3>1 DEF Claims
      <3> QED
        BY <3>1, <3>2, <3>3 DEF Claims
    <2> QED
      BY <2>1, <2>2
  <1> QED
    BY <1>8, <1>9, HostPartsNext

LEMMA HostStep ==
    ASSUME TypeOK, StackInv, SharesAreCounted, LinkInv, PlacesInv, HostInv, RefusedInv,
           [Next]_vars
    PROVE  HostInv'
  <1>0. TypeOK' /\ StackInv' /\ RefusalsGoOn
    BY CountedStep, RefusedStep
  <1>1. ASSUME NEW h \in Hosts, NEW i \in Slots, NEW k \in Places, AcquireShareAt(h, i, k)
        PROVE  HostInv'
    BY <1>0, <1>1, HostJoined
  <1>2. ASSUME NEW h \in Hosts, NEW i \in Slots, AcquireSlotAt(h, i)
        PROVE  HostInv'
    BY <1>0, <1>2, HostTaken
  <1>3. SUFFICES ASSUME /\ goal' = goal
                        /\ \A i \in Slots :
                               /\ Used(i)' \subseteq Used(i)
                               /\ \A k \in Used(i)' : shares'[i][k] = shares[i][k]
                               /\ Live(i)' => Live(i)
                               /\ attempt'[i] \in {None, attempt[i]}
                 PROVE  HostInv'
    <2> DEFINE Goal == /\ goal' = goal
                       /\ \A i \in Slots :
                              /\ Used(i)' \subseteq Used(i)
                              /\ \A k \in Used(i)' : shares'[i][k] = shares[i][k]
                              /\ Live(i)' => Live(i)
                              /\ attempt'[i] \in {None, attempt[i]}
    <2>0. /\ client \in [Slots -> Objects] /\ delete_pending \in [Slots -> BOOLEAN]
          /\ attempt \in [Slots -> Objects]
      BY DEF TypeOK
    <2>1. CASE UNCHANGED <<slotVars, attempt, link, goal, told>>
      BY <2>1 DEF slotVars, Used, Live
    <2>2. ASSUME NEW i \in Slots, NEW l \in Links, GetsOn(i, l) PROVE Goal
      BY <2>2 DEF GetsOn, slotVars, Used, Live
    <2>3. ASSUME NEW i \in Slots, Closes(i) PROVE Goal
      <3>1. UNCHANGED <<client, delete_pending, shares, goal>>
            /\ attempt' = [attempt EXCEPT ![i] = None]
        BY <2>3 DEF Closes, CloseClient, slotVars
      <3>2. \A j \in Slots : attempt'[j] \in {None, attempt[j]}
        BY <2>0, <3>1
      <3> QED
        BY <3>1, <3>2 DEF Used, Live
    <2>4. ASSUME NEW i \in Slots, Deletes(i) PROVE Goal
      <3>1. /\ UNCHANGED <<shares, goal>>
            /\ client' = [client EXCEPT ![i] = None]
            /\ delete_pending' = [delete_pending EXCEPT ![i] = FALSE]
            /\ attempt' = [attempt EXCEPT ![i] = None]
        BY <2>4 DEF Deletes, CloseClient
      <3>2. \A j \in Slots : /\ attempt'[j] \in {None, attempt[j]}
                             /\ j # i => client'[j] = client[j] /\ delete_pending'[j] = delete_pending[j]
        BY <2>0, <3>1
      <3>3. client'[i] = None
        BY <2>0, <3>1
      <3> QED
        BY <3>1, <3>2, <3>3 DEF Used, Live
    <2>5. ASSUME NEW i \in Slots, NEW k \in Places, k \in Used(i), GivesUp(i, k),
                 UNCHANGED <<clientVars, goal>>
          PROVE  Goal
      <3>1. UNCHANGED <<client, delete_pending, attempt, goal>>
        BY <2>5 DEF GivesUp, clientVars
      <3>2. /\ Used(i)' = Used(i) \ {k}
            /\ \A j \in Slots : j # i => Used(j)' = Used(j)
            /\ \A j \in Slots : \A m \in Places :
                   j # i \/ m # k => shares'[j][m] = shares[j][m]
        BY <2>5, GivesUpUsed
      <3>3. \A j \in Slots : Used(j)' \subseteq Used(j) /\ Used(j) \subseteq Places
        BY <3>2 DEF Used
      <3>4. \A j \in Slots : \A m \in Used(j)' : shares'[j][m] = shares[j][m]
        BY <3>2, <3>3
      <3> QED
        BY <3>1, <3>3, <3>4 DEF Live
    <2>6. ASSUME NEW i \in Slots, NEW disconnect \in BOOLEAN, Retires(i, disconnect) PROVE Goal
      <3>1. /\ UNCHANGED <<client, shares, goal>>
            /\ delete_pending' = [delete_pending EXCEPT ![i] = delete_pending[i] \/ share_count[i] = 0]
            /\ attempt' = attempt \/ attempt' = [attempt EXCEPT ![i] = None]
        BY <2>6 DEF Retires, CloseClient, clientVars
      <3>2. \A j \in Slots : /\ attempt'[j] \in {None, attempt[j]}
                             /\ delete_pending[j] => delete_pending'[j]
        BY <2>0, <3>1
      <3> QED
        BY <3>1, <3>2 DEF Used, Live
    <2>7. ASSUME NEW i \in Slots, NEW k \in Places, TellConnected(i, k) \/ TellFailed(i, k)
          PROVE  Goal
      BY <2>7 DEF TellConnected, TellFailed, clientVars, Used, Live
    <2> QED
      BY <1>1, <1>2, <2>1, <2>2, <2>3, <2>4, <2>5, <2>6, <2>7, EffectCases DEF Effects
  <1>4. HostsGivenUp
    BY <1>0, <1>3 DEF HostsGivenUp, GoalsKept, Current, RefusalsGoOn
  <1> QED
    BY <1>4, HostFrame

-----------------------------------------------------------------------------
(* What shares are told of a connection.                                   *)

\* The share at place k of slot i waits for the end of the connection.
Awaits(i, k) == callback[shares[i][k]] = "disconnect"

Closing(i, k) ==
    \E n \in 1..Len(stack) :
        stack[n].op = "close" /\ stack[n].slot = i /\ stack[n].place <= k

Joined(i) == \E k \in Used(i) : Awaits(i, k)

\* The two parts of ConnectedInv.
AwaitsRight == \A i \in Slots : \A k \in Used(i) :
                   Awaits(i, k) => link[i] = "connected" \/ Closing(i, k)

AcceptRight(item) ==
    /\ link[item.slot] = "connected"
    /\ item.level = "Secondary" <=> Joined(item.slot)

LEMMA ConnectedParts ==
    ConnectedInv <=> /\ AwaitsRight
                     /\ \A n \in 1..Len(stack) : stack[n].op = "accept" => AcceptRight(stack[n])
  BY DEF ConnectedInv, AwaitsRight, AcceptRight, Awaits, Closing, Joined

LEMMA ConnectedPartsNext ==
    ConnectedInv' <=> /\ AwaitsRight'
                      /\ \A n \in 1..Len(stack') :
                             stack'[n].op = "accept" => AcceptRight(stack[n])'
  BY DEF ConnectedInv, AwaitsRight, AcceptRight, Awaits, Closing, Joined

LEMMA AcceptIsTop ==
    ASSUME TypeOK, StackInv, NEW n \in 1..Len(stack), stack[n].op = "accept"
    PROVE  /\ n = Len(stack) /\ stack # <<>> /\ Top = stack[n]
           /\ non_reentrant
  <1>1. PICK len \in Nat : len = Len(stack)
    BY StackTypes
  <1>2. n = len
    <2> SUFFICES ASSUME n + 1 \in 1..len PROVE FALSE
      BY <1>1
    <2>1. n + 1 > 1 /\ (n + 1) - 1 = n
      BY <1>1
    <2>2. LiesOn(stack[n + 1], stack[n])
      BY <1>1, <2>1 DEF StackInv
    <2> QED
      BY <2>2 DEF LiesOn
  <1>3. stack # <<>> /\ Top = stack[len]
    <2>1. stack # <<>>
      BY <1>1
    <2> QED
      BY <1>1, <2>1, StackTypes, TopType
  <1>4. non_reentrant
    <2>1. n # 1 /\ n > 1 /\ n - 1 \in 1..len
      <3>1. n # 1
        BY <1>3 DEF StackInv
      <3> QED
        BY <1>1, <3>1
    <2>2. stack[n - 1].op = "receive"
      <3>1. LiesOn(stack[n], stack[n - 1])
        BY <1>1, <2>1 DEF StackInv
      <3> QED
        BY <3>1 DEF LiesOn
    <2>3. n - 1 # 1 /\ n - 1 > 1 /\ (n - 1) - 1 \in 1..len
      <3>1. n - 1 # 1
        BY <1>3, <2>2 DEF StackInv
      <3> QED
        BY <1>1, <2>1, <3>1
    <2>4. stack[(n - 1) - 1].op = "tick"
      <3>1. LiesOn(stack[n - 1], stack[(n - 1) - 1])
        BY <1>1, <2>1, <2>3 DEF StackInv
      <3> QED
        BY <2>2, <3>1 DEF LiesOn
    <2>5. PICK m \in 1..len : m = (n - 1) - 1 /\ stack[m].op = "tick"
      BY <2>3, <2>4
    <2>6. m # 1 /\ m > 1 /\ m - 1 \in 1..len
      <3>1. m # 1
        BY <1>3, <2>5 DEF StackInv
      <3> QED
        BY <1>1, <2>5, <3>1
    <2>7. stack[m - 1].op = "leave"
      <3>1. LiesOn(stack[m], stack[m - 1])
        BY <1>1, <2>5, <2>6 DEF StackInv
      <3> QED
        BY <2>5, <3>1 DEF LiesOn
    <2> QED
      BY <1>1, <2>6, <2>7 DEF StackInv
  <1> QED
    BY <1>1, <1>2, <1>3, <1>4

\* When tick() gets to a slot nothing of another is still to be reported.
LEMMA TickIsAlone ==
    ASSUME TypeOK, StackInv, stack # <<>>, Top.op = "tick", NEW n \in 1..Len(stack)
    PROVE  stack[n].op \notin {"close", "accept", "receive", "force"}
  <1> SUFFICES ASSUME stack[n].op \in {"close", "accept", "receive", "force"} PROVE FALSE
    OBVIOUS
  <1>1. PICK len \in Nat \ {0} : len = Len(stack) /\ Top = stack[len]
    BY StackTypes, TopType
  <1>2. len > 1 /\ LiesOn(stack[len], stack[len - 1])
    BY <1>1, TopLies
  <1>3. stack[len - 1].op = "leave" /\ len - 1 \in 1..len
    BY <1>1, <1>2 DEF LiesOn
  <1>4. \A m \in 1..len : stack[m].op = "leave" => m = len - 1
    BY <1>1, <1>3 DEF StackInv
  <1>5. \A m \in 1..len : stack[m].op = "tick" => m = len
    <2> SUFFICES ASSUME NEW m \in 1..len, stack[m].op = "tick" PROVE m = len
      OBVIOUS
    <2>1. m # 1 /\ m > 1 /\ m - 1 \in 1..len
      <3>1. m # 1
        BY DEF StackInv
      <3> QED
        BY <1>1, <3>1
    <2>2. LiesOn(stack[m], stack[m - 1])
      BY <1>1, <2>1 DEF StackInv
    <2>3. m - 1 = len - 1
      BY <1>4, <2>1, <2>2 DEF LiesOn
    <2> QED
      BY <1>1, <2>3
  <1>6. n \in 1..len /\ n # 1 /\ n > 1 /\ n - 1 \in 1..len /\ n # len
    <2>1. n # 1
      BY DEF StackInv
    <2>2. n # len
      BY <1>1
    <2> QED
      BY <1>1, <2>1, <2>2
  <1>7. LiesOn(stack[n], stack[n - 1])
    BY <1>1, <1>6 DEF StackInv
  <1>8. stack[n].op # "accept"
    <2> SUFFICES ASSUME stack[n].op = "accept" PROVE FALSE
      OBVIOUS
    <2>1. n = len
      BY <1>1, AcceptIsTop
    <2> QED
      BY <1>6, <2>1
  <1>9. stack[n - 1].op = "tick" \/ stack[n - 1].op = "leave"
    BY <1>7, <1>8 DEF LiesOn
  <1>10. n - 1 = len \/ n - 1 = len - 1
    BY <1>4, <1>5, <1>6, <1>9
  <1> QED
    BY <1>1, <1>6, <1>10

LEMMA ClosingKept ==
    ASSUME TypeOK, NEW b, NEW items, Becomes(b, items), NEW i, NEW k, Closing(i, k),
           \/ b = Len(stack)
           \/ /\ b = Len(stack) - 1 /\ stack # <<>>
              /\ ~(Top.op = "close" /\ Top.slot = i /\ Top.place <= k)
    PROVE  Closing(i, k)'
  <1>1. PICK n \in 1..Len(stack) :
            stack[n].op = "close" /\ stack[n].slot = i /\ stack[n].place <= k
    BY DEF Closing
  <1>2. Len(stack) \in Nat
    BY StackTypes
  <1>3. n <= b
    <2>1. CASE b = Len(stack)
      BY <1>2, <2>1
    <2>2. CASE b # Len(stack)
      <3>1. stack[n] # Top
        BY <1>1, <2>2
      <3> QED
        BY <2>2, <3>1, BelowTop
    <2> QED
      BY <2>1, <2>2
  <1>4. n \in 1..Len(stack') /\ stack'[n] = stack[n]
    BY <1>3, ItemKept
  <1> QED
    BY <1>1, <1>4 DEF Closing

LEMMA AwaitsKept ==
    ASSUME ConnectedInv,
           \A i \in Slots :
               /\ \A k \in Used(i)' : /\ k \in Used(i) /\ (Awaits(i, k)' => Awaits(i, k))
                                      /\ Closing(i, k) => Closing(i, k)'
               /\ link[i] = "connected" => link'[i] = "connected" \/ \A k \in Used(i)' : Closing(i, k)'
    PROVE  AwaitsRight'
  BY ConnectedParts DEF AwaitsRight

\* No loop of accept callbacks begins or goes on.
LEMMA NoAccept ==
    ASSUME TypeOK, StackInv, NEW b, NEW items, Becomes(b, items),
           \/ b = Len(stack) /\ (~non_reentrant \/ stack = <<>>)
           \/ b = Len(stack) - 1 /\ stack # <<>>,
           \A n \in 1..Len(items) : items[n].op # "accept"
    PROVE  \A n \in 1..Len(stack') : stack'[n].op # "accept"
  <1>1. PICK len \in Nat, c \in Nat : len = Len(stack) /\ c = Len(items)
    <2>1. Len(stack) \in Nat
      BY StackTypes
    <2>2. Len(items) \in Nat
      BY DEF Becomes
    <2> QED
      BY <2>1, <2>2
  <1>2. /\ b \in 0..len /\ Len(stack') = b + c
        /\ \A m \in 1..b : stack'[m] = stack[m]
        /\ \A m \in 1..c : stack'[b + m] = items[m]
    BY <1>1 DEF Becomes
  <1> TAKE n \in 1..Len(stack')
  <1>3. n \in 1..(b + c)
    BY <1>2
  <1>4. CASE n <= b
    <2>1. n \in 1..b /\ n \in 1..len /\ stack'[n] = stack[n]
      BY <1>2, <1>3, <1>4
    <2> SUFFICES ASSUME stack[n].op = "accept" PROVE FALSE
      BY <2>1
    <2>2. n = len /\ stack # <<>> /\ non_reentrant
      BY <1>1, <2>1, AcceptIsTop
    <2> QED
      BY <1>1, <1>4, <2>2
  <1>5. CASE n > b
    <2>1. n - b \in 1..c /\ b + (n - b) = n
      BY <1>2, <1>3, <1>5
    <2> QED
      BY <1>1, <1>2, <2>1
  <1> QED
    BY <1>2, <1>3, <1>4, <1>5

LEMMA ConnectedFrame ==
    ASSUME ConnectedInv, UNCHANGED <<shares, callback, link, stack>>
    PROVE  ConnectedInv'
  <1>1. \A i : Used(i)' = Used(i)
    BY DEF Used
  <1> QED
    BY <1>1 DEF ConnectedInv

\* A share is given up, and its slot's client stays as it is.
LEMMA ConnectedGivenUp ==
    ASSUME TypeOK, StackInv, SharesAreCounted, PlacesInv, ConnectedInv,
           NEW i \in Slots, NEW k \in Places, k \in Used(i), GivesUp(i, k), UNCHANGED link,
           \A j \in Slots, m \in Places : m \in Used(j)' /\ Closing(j, m) => Closing(j, m)'
    PROVE  AwaitsRight'
  <1>1. PICK a \in Acquires : a = shares[i][k]
    BY UsedFacts
  <1>2. /\ Used(i)' = Used(i) \ {k}
        /\ \A j \in Slots : j # i => Used(j)' = Used(j)
        /\ \A j \in Slots : \A m \in Places :
               j # i \/ m # k => shares'[j][m] = shares[j][m]
    BY GivesUpUsed
  <1>3. callback' = [callback EXCEPT ![a] = "none"]
    BY <1>1 DEF GivesUp
  <1>4. callback \in [Acquires -> {"none", "connect", "disconnect"}]
    BY DEF TypeOK
  <1>5. ASSUME NEW j \in Slots, NEW m \in Used(j)'
        PROVE  m \in Used(j) /\ (Awaits(j, m)' => Awaits(j, m)) /\ (Closing(j, m) => Closing(j, m)')
    <2>1. m \in Used(j) /\ m \in Places /\ (j # i \/ m # k)
      BY <1>2, <1>5 DEF Used
    <2>2. shares'[j][m] = shares[j][m]
      BY <1>2, <2>1
    <2>3. shares[j][m] # a /\ shares[j][m] \in Acquires
      <3>1. shares[j][m] # None
        BY <2>1 DEF Used
      <3>2. shares[j][m] # shares[i][k]
        BY <2>1, <3>1 DEF PlacesInv
      <3> QED
        BY <1>1, <2>1, <3>2, UsedFacts
    <2>4. Awaits(j, m)' => Awaits(j, m)
      BY <1>3, <1>4, <2>2, <2>3 DEF Awaits
    <2> QED
      BY <2>1, <2>4
  <1> QED
    BY <1>5, AwaitsKept

\* A new share awaits the end of a connection only if there is one.
LEMMA ConnectedNew ==
    ASSUME TypeOK, StackInv, SharesAreCounted, LinkInv, PlacesInv, ConnectedInv,
           NEW h \in Hosts, NEW i \in Slots, NEW k \in Places, NewShareAt(h, i, k)
    PROVE  AwaitsRight'
  <1>1. k \notin Used(i) /\ IsPlaced(i, k, acquired + 1) /\ acquired + 1 \in Acquires
    BY NewShareFacts
  <1>2. \E items : Becomes(Len(stack), items)
    <2>1. CASE AcquireShareAt(h, i, k)
      BY <2>1, AcquireShareStack
    <2>2. CASE AcquireSlotAt(h, i)
      BY <2>2, AcquireSlotStack
    <2> QED
      BY <2>1, <2>2 DEF NewShareAt
  <1>3. callback \in [Acquires -> {"none", "connect", "disconnect"}] /\ link \in [Slots -> Links]
    BY DEF TypeOK
  <1>4. \A j \in Slots : link[j] = "connected" => link'[j] = "connected"
    <2>1. CASE AcquireShareAt(h, i, k)
      BY <2>1 DEF AcquireShareAt, clientVars
    <2>2. CASE AcquireSlotAt(h, i) /\ attempt[i] = None
      <3>1. link' = [link EXCEPT ![i] = "fresh"] /\ link[i] # "connected"
        BY <2>2 DEF AcquireSlotAt, LinkInv
      <3> QED
        BY <1>3, <3>1
    <2>3. CASE AcquireSlotAt(h, i) /\ attempt[i] # None
      BY <2>3 DEF AcquireSlotAt
    <2> QED
      BY <2>1, <2>2, <2>3 DEF NewShareAt
  <1>5. callback'[acquired + 1] = "disconnect" => link'[i] = "connected"
    <2>1. CASE AcquireShareAt(h, i, k)
      <3>1. CASE ToldAtOnce(i)
        BY <2>1, <3>1 DEF AcquireShareAt, ToldAtOnce, clientVars
      <3>2. CASE ~ToldAtOnce(i)
        <4>1. callback' = [callback EXCEPT ![acquired + 1] = "connect"]
          BY <2>1, <3>2 DEF AcquireShareAt, PlaceShare
        <4> QED
          BY <1>1, <1>3, <4>1
      <3> QED
        BY <3>1, <3>2
    <2>2. CASE AcquireSlotAt(h, i)
      <3>1. callback' = [callback EXCEPT ![acquired + 1] = "connect"]
        BY <2>2 DEF AcquireSlotAt, PlaceShare
      <3> QED
        BY <1>1, <1>3, <3>1
    <2> QED
      BY <2>1, <2>2 DEF NewShareAt
  <1>6. \A j \in Slots : \A m \in Used(j) : Awaits(j, m) => link[j] = "connected" \/ Closing(j, m)
    BY ConnectedParts DEF AwaitsRight
  <1>7. SUFFICES ASSUME NEW j \in Slots, NEW m \in Used(j)', Awaits(j, m)'
                 PROVE  link'[j] = "connected" \/ Closing(j, m)'
    BY DEF AwaitsRight
  <1>8. m \in Places
    BY DEF Used
  <1>9. CASE j = i /\ m = k
    <2>1. shares'[j][m] = acquired + 1
      BY <1>1, <1>8, <1>9 DEF IsPlaced
    <2> QED
      BY <1>5, <1>7, <1>9, <2>1 DEF Awaits
  <1>10. CASE ~(j = i /\ m = k)
    <2>1. m \in Used(j) /\ shares'[j][m] = shares[j][m]
      BY <1>1, <1>7, <1>8, <1>10 DEF IsPlaced
    <2>2. shares[j][m] # acquired + 1 /\ shares[j][m] \in Acquires
      <3>1. shares[j][m] \in 1..acquired /\ shares[j][m] \in Acquires /\ acquired \in Nat
        BY <2>1, ShareAccepted, UserValues
      <3> QED
        BY <3>1
    <2>3. Awaits(j, m)
      BY <1>1, <1>7, <2>1, <2>2 DEF IsPlaced, Awaits
    <2>4. CASE link[j] = "connected"
      BY <1>4, <2>4
    <2>5. CASE Closing(j, m)
      BY <1>2, <2>5, ClosingKept
    <2> QED
      BY <1>6, <2>1, <2>3, <2>4, <2>5
  <1> QED
    BY <1>9, <1>10

\* Some steps do nothing that matters here but to the stack.
LEMMA ConnectedQuiet ==
    ASSUME TypeOK, StackInv, ConnectedInv, UNCHANGED <<shares, callback>>,
           \A i \in Slots : link[i] = "connected" => link'[i] = "connected" \/ Used(i) = {},
           NEW b, NEW items, Becomes(b, items),
           \/ b = Len(stack) /\ (~non_reentrant \/ stack = <<>>)
           \/ b = Len(stack) - 1 /\ stack # <<>> /\ Top.op # "close",
           \A n \in 1..Len(items) : items[n].op # "accept"
    PROVE  ConnectedInv'
  <1>1. \A i \in Slots : /\ Used(i)' = Used(i)
                         /\ \A k \in Used(i) : Awaits(i, k)' <=> Awaits(i, k)
    BY DEF Used, Awaits
  <1>2. \A i, k : Closing(i, k) => Closing(i, k)'
    BY ClosingKept
  <1>3. AwaitsRight'
    BY <1>1, <1>2, AwaitsKept
  <1>4. \A n \in 1..Len(stack') : stack'[n].op # "accept"
    BY NoAccept
  <1> QED
    BY <1>3, <1>4, ConnectedPartsNext

LEMMA ConnectedPops ==
    ASSUME TypeOK, StackInv, SharesAreCounted, ConnectedInv, PopsQuietly
    PROVE  ConnectedInv'
  <1>1. /\ UNCHANGED <<slotVars, clientVars, goal, told>>
        /\ stack # <<>> /\ Top \in Items
        /\ Becomes(Len(stack) - 1, <<>>)
    BY PopsQuietlyFacts
  <1>2. UNCHANGED <<client, shares, callback, link>>
    BY <1>1 DEF slotVars, clientVars
  <1>3. \A n \in 1..Len(<<>>) : <<>>[n].op # "accept"
    OBVIOUS
  <1>4. CASE Top.op # "close"
    BY <1>1, <1>2, <1>3, <1>4, ConnectedQuiet
  <1>5. CASE Top.op = "close"
    <2>1. LoopEnds
      BY <1>5 DEF PopsQuietly, LeaveScope, TickEnds, ClientReceives, DropShare, Doing
    <2>2. Top.slot \in Slots /\ Top.place \in Nat
      BY <1>1, <1>5, ItemTypes DEF Loops
    <2>3. \A k \in Used(Top.slot) : ~(Top.place <= k)
      <3> SUFFICES ASSUME NEW k \in Used(Top.slot), Top.place <= k PROVE FALSE
        OBVIOUS
      <3>1. k \in 1..MaxShares
        BY DEF Used, Places
      <3>2. k \in Ahead /\ ~(Top.place > MaxShares)
        BY <2>2, <3>1 DEF Ahead
      <3> QED
        BY <2>1, <3>2 DEF LoopEnds
    <2>4. \A i \in Slots : /\ Used(i)' = Used(i)
                           /\ \A k \in Used(i) : Awaits(i, k)' <=> Awaits(i, k)
      BY <1>2 DEF Used, Awaits
    <2>5. \A i \in Slots : \A k \in Used(i) : Closing(i, k) => Closing(i, k)'
      BY <1>1, <2>3, ClosingKept
    <2>6. AwaitsRight'
      BY <1>2, <2>4, <2>5, AwaitsKept
    <2>7. \A n \in 1..Len(stack') : stack'[n].op # "accept"
      BY <1>1, <1>3, NoAccept
    <2> QED
      BY <2>6, <2>7, ConnectedPartsNext
  <1> QED
    BY <1>4, <1>5

LEMMA ConnectedTell ==
    ASSUME TypeOK, StackInv, SharesAreCounted, PlacesInv, ConnectedInv,
           NEW i \in Slots, NEW k \in Places, TellConnected(i, k)
    PROVE  ConnectedInv'
  <1>1. LoopAt({"accept"}, i, k) /\ UNCHANGED <<shares, link>>
    BY DEF TellConnected, clientVars
  <1>2. /\ stack # <<>> /\ Top \in Items /\ Top = stack[Len(stack)] /\ Top.op = "accept"
        /\ Top.slot = i /\ k \in Used(i) /\ Len(stack) \in Nat \ {0}
    BY <1>1, LoopItem, TopType, StackTypes DEF Loops
  <1> DEFINE items == <<NextPlace(k)>>
  <1>3. Len(items) = 1 /\ items[1] = NextPlace(k) /\ Becomes(Len(stack) - 1, items)
    BY TellConnectedStack
  <1>4. NextPlace(k).op = "accept" /\ NextPlace(k).slot = i /\ NextPlace(k).level = "Secondary"
    BY <1>2, NextPlaceType DEF Loops
  <1> HIDE DEF items
  <1>5. PICK a \in Acquires : a = shares[i][k]
    BY <1>2, UsedFacts
  <1>6. callback' = [callback EXCEPT ![a] = "disconnect"]
    BY <1>5 DEF TellConnected
  <1>7. callback \in [Acquires -> {"none", "connect", "disconnect"}]
    BY DEF TypeOK
  <1>8. Awaits(i, k)' /\ \A j \in Slots : Used(j)' = Used(j)
    BY <1>1, <1>5, <1>6, <1>7 DEF Awaits, Used
  <1>9. link[i] = "connected"
    <2>1. Len(stack) \in 1..Len(stack)
      BY <1>2
    <2> QED
      BY <1>2, <2>1, ConnectedParts DEF AcceptRight
  <1>10. ASSUME NEW j \in Slots, j # i, NEW m \in Used(j), Awaits(j, m)' PROVE Awaits(j, m)
    <2>1. shares[j][m] # shares[i][k] /\ shares[j][m] \in Acquires
      <3>1. shares[j][m] \in Acquires /\ shares[j][m] # None /\ m \in Places
        BY <1>10, UsedFacts DEF Used
      <3> QED
        BY <1>10, <3>1 DEF PlacesInv
    <2> QED
      BY <1>1, <1>5, <1>6, <1>7, <1>10, <2>1 DEF Awaits
  <1>11. \A j, m : Closing(j, m) => Closing(j, m)'
    BY <1>2, <1>3, ClosingKept
  <1>12. AwaitsRight'
    <2> SUFFICES ASSUME NEW j \in Slots, NEW m \in Used(j), Awaits(j, m)'
                 PROVE  link'[j] = "connected" \/ Closing(j, m)'
      BY <1>8 DEF AwaitsRight
    <2>1. CASE j = i
      BY <1>1, <1>9, <2>1
    <2>2. CASE j # i
      BY <1>1, <1>10, <1>11, <2>2, ConnectedParts DEF AwaitsRight
    <2> QED
      BY <2>1, <2>2
  <1>13. ASSUME NEW n \in 1..Len(stack'), stack'[n].op = "accept"
         PROVE  AcceptRight(stack[n])'
    <2>1. PICK len \in Nat \ {0} : len = Len(stack)
      BY <1>2
    <2>2. /\ Len(stack') = (len - 1) + 1
          /\ \A m \in 1..(len - 1) : stack'[m] = stack[m]
          /\ stack'[(len - 1) + 1] = NextPlace(k)
      BY <1>3, <2>1 DEF Becomes
    <2>3. n = (len - 1) + 1
      <3> SUFFICES ASSUME n \in 1..(len - 1) PROVE FALSE
        BY <2>1, <2>2
      <3>1. n \in 1..Len(stack) /\ stack[n].op = "accept" /\ n # Len(stack)
        BY <1>13, <2>1, <2>2
      <3> QED
        BY <3>1, AcceptIsTop
    <2>4. stack'[n] = NextPlace(k)
      BY <2>2, <2>3
    <2>5. Joined(i)'
      BY <1>2, <1>8 DEF Joined
    <2> QED
      BY <1>1, <1>4, <1>9, <2>4, <2>5 DEF AcceptRight
  <1> QED
    BY <1>12, <1>13, ConnectedPartsNext

LEMMA ConnectedConnects ==
    ASSUME TypeOK, StackInv, ConnectedInv, NEW i \in Slots, ClientConnects(i)
    PROVE  ConnectedInv'
  <1> DEFINE items == <<TickSlot(i + 1), Receive(i), Loop("accept", i, 1, "Primary")>>
  <1>1. /\ link[i] # "connected" /\ link' = [link EXCEPT ![i] = "connected"]
        /\ UNCHANGED <<shares, callback>>
        /\ Top.op = "tick" /\ stack # <<>>
        /\ Becomes(Len(stack) - 1, items)
    BY ClientConnectsFacts, TickItem DEF GetsOn, slotVars, ClientConnects, ClientTicks, TickAt
  <1>2. /\ Len(items) = 3 /\ items[1] = TickSlot(i + 1) /\ items[2] = Receive(i)
        /\ items[3] = Loop("accept", i, 1, "Primary")
    OBVIOUS
  <1> HIDE DEF items
  <1>3. /\ TickSlot(i + 1).op # "accept" /\ Receive(i).op # "accept"
        /\ Loop("accept", i, 1, "Primary").slot = i
        /\ Loop("accept", i, 1, "Primary").level = "Primary"
    BY DEF TickSlot, Receive, Loop
  <1>4. link \in [Slots -> Links]
    BY DEF TypeOK
  <1>5. \A j \in Slots : /\ Used(j)' = Used(j)
                         /\ \A k \in Used(j) : Awaits(j, k)' <=> Awaits(j, k)
                         /\ link[j] = "connected" => link'[j] = "connected"
    BY <1>1, <1>4 DEF Used, Awaits
  <1>6. \A j, k : Closing(j, k) => Closing(j, k)'
    BY <1>1, ClosingKept
  <1>7. AwaitsRight'
    BY <1>5, <1>6, AwaitsKept
  <1>8. ~Joined(i)
    <2> SUFFICES ASSUME NEW k \in Used(i), Awaits(i, k) PROVE FALSE
      BY DEF Joined
    <2>1. Closing(i, k)
      BY <1>1, ConnectedParts DEF AwaitsRight
    <2> QED
      BY <1>1, <2>1, TickIsAlone DEF Closing
  <1>9. ASSUME NEW n \in 1..Len(stack'), stack'[n].op = "accept"
        PROVE  AcceptRight(stack[n])'
    <2>1. PICK len \in Nat : len = Len(stack)
      BY StackTypes
    <2>2. /\ len - 1 \in Nat
          /\ Len(stack') = (len - 1) + 3
          /\ \A m \in 1..(len - 1) : stack'[m] = stack[m]
          /\ stack'[(len - 1) + 1] = TickSlot(i + 1)
          /\ stack'[(len - 1) + 2] = Receive(i)
          /\ stack'[(len - 1) + 3] = Loop("accept", i, 1, "Primary")
      BY <1>1, <1>2, <2>1 DEF Becomes
    <2>3. n \notin 1..(len - 1)
      <3> SUFFICES ASSUME n \in 1..(len - 1) PROVE FALSE
        OBVIOUS
      <3>1. n \in 1..Len(stack) /\ stack[n].op = "accept"
        BY <1>9, <2>1, <2>2
      <3> QED
        BY <1>1, <3>1, TickIsAlone
    <2>4. n = (len - 1) + 1 \/ n = (len - 1) + 2 \/ n = (len - 1) + 3
      BY <2>1, <2>2, <2>3
    <2>5. stack'[n] = Loop("accept", i, 1, "Primary")
      BY <1>3, <1>9, <2>2, <2>4
    <2>6. ~Joined(i)'
      BY <1>5, <1>8 DEF Joined
    <2>7. link'[i] = "connected"
      BY <1>1, <1>4
    <2> QED
      BY <1>3, <2>5, <2>6, <2>7 DEF AcceptRight
  <1> QED
    BY <1>7, <1>9, ConnectedPartsNext

\* The client of slot i closes a connection, and begins to report that.
LEMMA ConnectedCloses ==
    ASSUME TypeOK, StackInv, ConnectedInv, NEW i \in Slots, Closes(i),
           NEW items, Becomes(Len(stack) - 1, items), stack # <<>>, Top.op \in {"tick", "receive"},
           \A n \in 1..Len(items) : items[n].op # "accept",
           link[i] = "connected" =>
               \E n \in 1..Len(items) :
                   items[n].op = "close" /\ items[n].slot = i /\ items[n].place = 1
    PROVE  ConnectedInv'
  <1>1. UNCHANGED <<shares, callback>> /\ link' = [link EXCEPT ![i] = "closed"]
    BY DEF Closes, CloseClient, slotVars
  <1>2. link \in [Slots -> Links]
    BY DEF TypeOK
  <1>3. \A j \in Slots : /\ Used(j)' = Used(j) /\ Used(j) \subseteq Places
                         /\ \A k \in Used(j) : Awaits(j, k)' <=> Awaits(j, k)
                         /\ link[j] = "connected" /\ j # i => link'[j] = "connected"
    BY <1>1, <1>2 DEF Used, Awaits
  <1>4. \A j, k : Closing(j, k) => Closing(j, k)'
    BY ClosingKept
  <1>5. ASSUME link[i] = "connected", NEW k \in Used(i) PROVE Closing(i, k)'
    <2>1. PICK n \in 1..Len(items) :
              items[n].op = "close" /\ items[n].slot = i /\ items[n].place = 1
      BY <1>5
    <2>2. PICK m \in 1..Len(stack') : stack'[m] = items[n]
      BY ItemNew
    <2>3. 1 <= k
      BY <1>3, <1>5 DEF Places
    <2> QED
      BY <2>1, <2>2, <2>3 DEF Closing
  <1>6. AwaitsRight'
    BY <1>3, <1>4, <1>5, AwaitsKept
  <1>7. \A n \in 1..Len(stack') : stack'[n].op # "accept"
    BY NoAccept
  <1> QED
    BY <1>6, <1>7, ConnectedPartsNext

LEMMA ConnectedTellClosed ==
    ASSUME TypeOK, StackInv, SharesAreCounted, PlacesInv, ConnectedInv,
           NEW i \in Slots, NEW k \in Places, TellClosed(i, k)
    PROVE  ConnectedInv'
  <1>1. LoopAt({"close", "force"}, i, k) /\ UNCHANGED link
    BY DEF TellClosed, clientVars
  <1>2. /\ stack # <<>> /\ Top \in Items /\ Top.op \in {"close", "force"}
        /\ Top.slot = i /\ k \in Used(i)
        /\ \A m \in Used(i) : m >= Top.place => k <= m
        /\ Top.place \in Nat
    BY <1>1, LoopItem, ItemTypes DEF Loops
  <1>3. GivesUp(i, k)
    BY ReleaseGivesUp DEF TellClosed
  <1> DEFINE items == <<NextPlace(k), Retire(i, Top.op = "force")>>
  <1>4. /\ Len(items) = 2 /\ items[1] = NextPlace(k) /\ items[2] = Retire(i, Top.op = "force")
        /\ Becomes(Len(stack) - 1, items)
    BY TellClosedStack
  <1>5. /\ NextPlace(k).op = Top.op /\ NextPlace(k).slot = i /\ NextPlace(k).place = k + 1
        /\ Retire(i, Top.op = "force").op = "retire"
    BY <1>2, NextPlaceType DEF Loops, Retire
  <1> HIDE DEF items
  <1>6. ASSUME NEW j \in Slots, NEW m \in Places, m \in Used(j)', Closing(j, m)
        PROVE  Closing(j, m)'
    <2>1. CASE Top.op = "close" /\ Top.slot = j /\ Top.place <= m
      <3>1. m \in Used(i) /\ m # k /\ j = i
        <4>1. j = i
          BY <1>2, <2>1
        <4>2. Used(i)' = Used(i) \ {k}
          BY <1>2, <1>3, GivesUpUsed
        <4>3. m \in Used(i)'
          BY <1>6, <4>1
        <4> QED
          BY <4>1, <4>2, <4>3
      <3>2. k + 1 <= m
        <4>1. m \in Nat /\ k \in Nat /\ m >= Top.place
          BY <1>2, <2>1 DEF Places
        <4>2. k <= m
          BY <1>2, <3>1, <4>1
        <4> QED
          BY <3>1, <4>1, <4>2
      <3>3. PICK n \in 1..Len(stack') : stack'[n] = NextPlace(k)
        <4>1. 1 \in 1..Len(items)
          BY <1>4
        <4>2. Len(stack) - 1 + 1 \in 1..Len(stack') /\ stack'[Len(stack) - 1 + 1] = items[1]
          BY <1>4, <4>1, ItemNew
        <4> QED
          BY <1>4, <4>2
      <3> QED
        BY <1>5, <2>1, <3>1, <3>2, <3>3 DEF Closing
    <2>2. CASE ~(Top.op = "close" /\ Top.slot = j /\ Top.place <= m)
      BY <1>2, <1>4, <1>6, <2>2, ClosingKept
    <2> QED
      BY <2>1, <2>2
  <1>7. AwaitsRight'
    BY <1>1, <1>2, <1>3, <1>6, ConnectedGivenUp
  <1>8. \A n \in 1..Len(items) : items[n].op # "accept"
    <2>1. items[1].op # "accept" /\ items[2].op # "accept"
      BY <1>2, <1>4, <1>5
    <2>2. \A n \in 1..Len(items) : n = 1 \/ n = 2
      BY <1>4
    <2> QED
      BY <2>1, <2>2
  <1>9. \A n \in 1..Len(stack') : stack'[n].op # "accept"
    BY <1>2, <1>4, <1>8, NoAccept
  <1> QED
    BY <1>7, <1>9, ConnectedPartsNext

\* The other ways to give up a share.
LEMMA ConnectedReleases ==
    ASSUME TypeOK, StackInv, SharesAreCounted, PlacesInv, ConnectedInv,
           NEW i \in Slots, NEW k \in Places, k \in Used(i), GivesUp(i, k), UNCHANGED link,
           NEW b, NEW items, Becomes(b, items),
           \/ b = Len(stack) /\ ~non_reentrant
           \/ b = Len(stack) - 1 /\ stack # <<>> /\ Top.op # "close",
           \A n \in 1..Len(items) : items[n].op # "accept"
    PROVE  ConnectedInv'
  <1>1. \A j, m : Closing(j, m) => Closing(j, m)'
    BY ClosingKept
  <1>2. AwaitsRight'
    BY <1>1, ConnectedGivenUp
  <1>3. \A n \in 1..Len(stack') : stack'[n].op # "accept"
    BY NoAccept
  <1> QED
    BY <1>2, <1>3, ConnectedPartsNext

LEMMA ConnectedTellFailed ==
    ASSUME TypeOK, StackInv, SharesAreCounted, PlacesInv, ConnectedInv,
           NEW i \in Slots, NEW k \in Places, TellFailed(i, k)
    PROVE  ConnectedInv'
  <1>1. LoopAt({"refuse"}, i, k) /\ UNCHANGED <<shares, link>>
    BY DEF TellFailed, clientVars
  <1>2. stack # <<>> /\ Top \in Items /\ Top.op = "refuse" /\ k \in Used(i)
    BY <1>1, LoopItem DEF Loops
  <1> DEFINE items == <<NextPlace(k), Drop(i, k)>>
  <1>3. /\ Len(items) = 2 /\ items[1] = NextPlace(k) /\ items[2] = Drop(i, k)
        /\ Becomes(Len(stack) - 1, items)
    BY TellFailedStack
  <1>4. NextPlace(k).op = "refuse" /\ Drop(i, k).op = "drop"
    BY <1>2, NextPlaceType DEF Loops, Drop
  <1> HIDE DEF items
  <1>5. PICK a \in Acquires : a = shares[i][k]
    BY <1>2, UsedFacts
  <1>6. callback' = [callback EXCEPT ![a] = "none"] /\ callback \in [Acquires -> {"none", "connect", "disconnect"}]
    BY <1>5 DEF TellFailed, TypeOK
  <1>7. \A j \in Slots : /\ Used(j)' = Used(j)
                         /\ \A m \in Used(j) : shares[j][m] \in Acquires
    BY <1>1, UsedFacts DEF Used
  <1>8. \A j \in Slots : \A m \in Used(j) : Awaits(j, m)' => Awaits(j, m)
    BY <1>1, <1>6, <1>7 DEF Awaits
  <1>9. \A j, m : Closing(j, m) => Closing(j, m)'
    BY <1>2, <1>3, ClosingKept
  <1>10. AwaitsRight'
    BY <1>1, <1>7, <1>8, <1>9, AwaitsKept
  <1>11. \A n \in 1..Len(items) : items[n].op # "accept"
    <2>1. items[1].op # "accept" /\ items[2].op # "accept"
      BY <1>3, <1>4
    <2>2. \A n \in 1..Len(items) : n = 1 \/ n = 2
      BY <1>3
    <2> QED
      BY <2>1, <2>2
  <1>12. \A n \in 1..Len(stack') : stack'[n].op # "accept"
    BY <1>2, <1>3, <1>11, NoAccept
  <1> QED
    BY <1>10, <1>12, ConnectedPartsNext

LEMMA ConnectedStep ==
    ASSUME TypeOK, StackInv, SharesAreCounted, LinkInv, PlacesInv, ConnectedInv, [Next]_vars
    PROVE  ConnectedInv'
  <1>0. \A n \in 1..Len(<<>>) : <<>>[n].op # "accept"
    OBVIOUS
  <1>1. CASE IdleStep
    BY <1>1, IdleFacts, ConnectedFrame DEF slotVars
  <1>2. CASE PopsQuietly
    BY <1>2, ConnectedPops
  <1>3. CASE Tick
    <2>1. Becomes(Len(stack), <<Leave, TickSlot(1)>>) /\ ~non_reentrant
          /\ UNCHANGED <<shares, callback, link>>
      BY <1>3, TickFacts DEF Tick, slotVars, clientVars
    <2>2. \A n \in 1..Len(<<Leave, TickSlot(1)>>) : <<Leave, TickSlot(1)>>[n].op # "accept"
      BY DEF Leave, TickSlot
    <2> QED
      BY <2>1, <2>2, ConnectedQuiet
  <1>4. ASSUME NEW h \in Hosts, NEW i \in Slots, NEW k \in Places, AcquireShareAt(h, i, k)
        PROVE  ConnectedInv'
    <2>1. ~non_reentrant
      BY <1>4 DEF AcquireShareAt, MayAcquire
    <2>2. Becomes(Len(stack), <<Leave>>) \/ Becomes(Len(stack), <<>>)
      BY <1>4, AcquireShareStack
    <2>3. \A n \in 1..Len(<<Leave>>) : <<Leave>>[n].op # "accept"
      BY DEF Leave
    <2>4. \A n \in 1..Len(stack') : stack'[n].op # "accept"
      BY <1>0, <2>1, <2>2, <2>3, NoAccept
    <2>5. AwaitsRight'
      BY <1>4, ConnectedNew DEF NewShareAt
    <2> QED
      BY <2>4, <2>5, ConnectedPartsNext
  <1>5. ASSUME NEW h \in Hosts, NEW i \in Slots, AcquireSlotAt(h, i)
        PROVE  ConnectedInv'
    <2>1. ~non_reentrant /\ 1 \in Places
      BY <1>5 DEF AcquireSlotAt, MayAcquire, Places
    <2>2. \/ Becomes(Len(stack), <<Leave, Loop("refuse", i, 1, "Primary")>>)
          \/ Becomes(Len(stack), <<>>)
      BY <1>5, AcquireSlotStack
    <2>3. \A n \in 1..Len(<<Leave, Loop("refuse", i, 1, "Primary")>>) :
              <<Leave, Loop("refuse", i, 1, "Primary")>>[n].op # "accept"
      BY DEF Leave, Loop
    <2>4. \A n \in 1..Len(stack') : stack'[n].op # "accept"
      BY <1>0, <2>1, <2>2, <2>3, NoAccept
    <2>5. AwaitsRight'
      BY <1>5, <2>1, ConnectedNew DEF NewShareAt
    <2> QED
      BY <2>4, <2>5, ConnectedPartsNext
  <1>6. ASSUME NEW a \in Acquires, NEW force \in BOOLEAN, NEW i \in Slots, NEW k \in Places,
               ReleaseAt(a, force, i, k)
        PROVE  ConnectedInv'
    <2>1. ~non_reentrant /\ UNCHANGED link
      BY <1>6 DEF ReleaseAt, clientVars
    <2>2. k \in Used(i)
      BY <1>6 DEF ReleaseAt, Used, Acquires, None
    <2>3. GivesUp(i, k)
      BY <1>6, ReleaseGivesUp DEF ReleaseAt
    <2> DEFINE three == <<Leave, Loop("force", i, 1, "Primary"), Retire(i, TRUE)>>
               two == <<Leave, Retire(i, TRUE)>>
    <2>4. /\ Len(three) = 3 /\ three[1] = Leave /\ three[2] = Loop("force", i, 1, "Primary")
          /\ three[3] = Retire(i, TRUE)
          /\ Len(two) = 2 /\ two[1] = Leave /\ two[2] = Retire(i, TRUE)
      OBVIOUS
    <2>5. Becomes(Len(stack), three) \/ Becomes(Len(stack), two)
      BY <1>6, ReleaseStack
    <2>6. Leave.op = "leave" /\ Loop("force", i, 1, "Primary").op = "force"
          /\ Retire(i, TRUE).op = "retire"
      BY DEF Leave, Loop, Retire
    <2> HIDE DEF three, two
    <2>7. /\ three[1].op # "accept" /\ three[2].op # "accept" /\ three[3].op # "accept"
          /\ two[1].op # "accept" /\ two[2].op # "accept"
      BY <2>4, <2>6
    <2>8. /\ \A n \in 1..Len(three) : n = 1 \/ n = 2 \/ n = 3
          /\ \A n \in 1..Len(two) : n = 1 \/ n = 2
      BY <2>4
    <2>9. /\ \A n \in 1..Len(three) : three[n].op # "accept"
          /\ \A n \in 1..Len(two) : two[n].op # "accept"
      BY <2>7, <2>8
    <2> QED
      BY <2>1, <2>2, <2>3, <2>5, <2>9, ConnectedReleases
  <1>7. CASE RetireSlot
    <2>1. PICK i \in Slots : i = Top.slot
      BY <1>7, RetireSlotFacts
    <2>2. /\ Retires(i, Top.disconnect) /\ Becomes(Len(stack) - 1, <<>>)
          /\ stack # <<>> /\ Top.op = "retire"
      BY <1>7, <2>1, RetireSlotFacts, RetireItem DEF RetireSlot
    <2>3. UNCHANGED <<shares, callback>>
      BY <2>2 DEF Retires
    <2>4. \A j \in Slots : link[j] = "connected" => link'[j] = "connected" \/ Used(j) = {}
      <3>1. CASE share_count[i] = 0 /\ Top.disconnect
        <4>1. Used(i) = {}
          <5>1. IsFiniteSet(Used(i)) /\ Cardinality(Used(i)) = 0
            BY <3>1, UsedFacts DEF SharesAreCounted
          <5> QED
            BY <5>1, FS_EmptySet
        <4>2. link' = [link EXCEPT ![i] = "closed"] /\ link \in [Slots -> Links]
          BY <2>2, <3>1 DEF Retires, CloseClient, TypeOK
        <4> QED
          BY <4>1, <4>2
      <3>2. CASE ~(share_count[i] = 0 /\ Top.disconnect)
        BY <2>2, <3>2 DEF Retires, clientVars
      <3> QED
        BY <3>1, <3>2
    <2> QED
      BY <1>0, <2>2, <2>3, <2>4, ConnectedQuiet
  <1>8. CASE DropShare /\ shares[Top.slot][Top.place] # None
    <2>1. PICK i \in Slots, k \in Places : i = Top.slot /\ k = Top.place
      BY <1>8, DropItem DEF DropShare
    <2> DEFINE items == <<Retire(i, FALSE)>>
    <2>2. /\ k \in Used(i) /\ GivesUp(i, k) /\ UNCHANGED link
          /\ Becomes(Len(stack) - 1, items) /\ Len(items) = 1 /\ items[1] = Retire(i, FALSE)
          /\ stack # <<>> /\ Top.op = "drop"
      BY <1>8, <2>1, ReleaseGivesUp, DropShareStack, DropItem DEF DropShare, Used, clientVars
    <2>3. Retire(i, FALSE).op = "retire"
      BY DEF Retire
    <2> HIDE DEF items
    <2>4. \A n \in 1..Len(items) : items[n].op # "accept"
      <3>1. items[1].op # "accept"
        BY <2>2, <2>3
      <3>2. \A n \in 1..Len(items) : n = 1
        BY <2>2
      <3> QED
        BY <3>1, <3>2
    <2> QED
      BY <2>2, <2>4, ConnectedReleases
  <1>9. ASSUME NEW i \in Slots, NEW k \in Places,
               TellConnected(i, k) \/ TellFailed(i, k) \/ TellClosed(i, k)
        PROVE  ConnectedInv'
    BY <1>9, ConnectedTell, ConnectedTellFailed, ConnectedTellClosed
  <1>10. ASSUME NEW i \in Slots, TickDelete(i) \/ ClientWaits(i)
         PROVE  ConnectedInv'
    <2> DEFINE items == <<TickSlot(i + 1)>>
    <2>1. /\ Len(items) = 1 /\ items[1] = TickSlot(i + 1) /\ Becomes(Len(stack) - 1, items)
          /\ Top.op = "tick"
      BY <1>10, TickDeleteFacts, ClientWaitsFacts
    <2>2. TickSlot(i + 1).op = "tick"
      BY DEF TickSlot
    <2>3. stack # <<>>
      BY <1>10, TickItem DEF TickDelete, ClientWaits, ClientTicks, TickAt
    <2> HIDE DEF items
    <2>4. \A n \in 1..Len(items) : items[n].op # "accept"
      <3>1. items[1].op # "accept" /\ \A n \in 1..Len(items) : n = 1
        BY <2>1, <2>2
      <3> QED
        BY <3>1
    <2>5. UNCHANGED <<shares, callback>>
      BY <1>10 DEF TickDelete, ClientWaits, slotVars
    <2>6. link \in [Slots -> Links]
      BY DEF TypeOK
    <2>7. \A j \in Slots : link[j] = "connected" => link'[j] = "connected" \/ Used(j) = {}
      <3>1. CASE TickDelete(i)
        <4>1. link' = [link EXCEPT ![i] = "closed"] /\ ~Live(i)
          BY <3>1 DEF TickDelete, CloseClient
        <4>2. Used(i) = {}
          BY <4>1 DEF SharesAreCounted, Live
        <4> QED
          BY <2>6, <4>1, <4>2
      <3>2. CASE ClientWaits(i)
        BY <2>6, <3>2 DEF ClientWaits
      <3> QED
        BY <1>10, <3>1, <3>2
    <2> QED
      BY <2>1, <2>3, <2>4, <2>5, <2>7, ConnectedQuiet
  <1>11. ASSUME NEW i \in Slots, ClientConnects(i)
         PROVE  ConnectedInv'
    BY <1>11, ConnectedConnects
  <1>12. ASSUME NEW i \in Slots, ClientFails(i) \/ ClientDisconnects(i)
         PROVE  ConnectedInv'
    <2>1. PICK op \in {"refuse", "close"} :
              /\ op = "refuse" => link[i] \in {"fresh", "resolved"}
              /\ Closes(i) /\ Top.op = "tick"
              /\ Becomes(Len(stack) - 1, <<TickSlot(i + 1), Loop(op, i, 1, "Primary")>>)
      BY <1>12, ClientReportsFacts
    <2> DEFINE items == <<TickSlot(i + 1), Loop(op, i, 1, "Primary")>>
    <2>2. /\ Len(items) = 2 /\ items[1] = TickSlot(i + 1) /\ items[2] = Loop(op, i, 1, "Primary")
          /\ Becomes(Len(stack) - 1, items)
      BY <2>1
    <2>3. TickSlot(i + 1).op = "tick" /\ Loop(op, i, 1, "Primary").op = op
          /\ Loop(op, i, 1, "Primary").slot = i /\ Loop(op, i, 1, "Primary").place = 1
      BY DEF TickSlot, Loop
    <2>4. stack # <<>>
      BY <1>12, TickItem DEF ClientFails, ClientDisconnects, ClientTicks, TickAt
    <2> HIDE DEF items
    <2>5. \A n \in 1..Len(items) : items[n].op # "accept"
      <3>1. items[1].op # "accept" /\ items[2].op # "accept"
        BY <2>2, <2>3
      <3>2. \A n \in 1..Len(items) : n = 1 \/ n = 2
        BY <2>2
      <3> QED
        BY <3>1, <3>2
    <2>6. link[i] = "connected" => 2 \in 1..Len(items) /\ items[2].op = "close"
                                   /\ items[2].slot = i /\ items[2].place = 1
      BY <2>1, <2>2, <2>3
    <2> QED
      BY <2>1, <2>2, <2>4, <2>5, <2>6, ConnectedCloses
  <1>13. CASE ClientReceives /\ ~UNCHANGED <<attempt, link>>
    <2>1. PICK i \in Slots : i = Top.slot
      BY <1>13, ReceiveClosesFacts
    <2> DEFINE items == <<Loop("close", i, 1, "Primary")>>
    <2>2. /\ Len(items) = 1 /\ items[1] = Loop("close", i, 1, "Primary")
          /\ Becomes(Len(stack) - 1, items) /\ Closes(i) /\ Top.op = "receive"
      BY <1>13, <2>1, ReceiveClosesFacts
    <2>3. Loop("close", i, 1, "Primary").op = "close" /\ Loop("close", i, 1, "Primary").slot = i
          /\ Loop("close", i, 1, "Primary").place = 1
      BY DEF Loop
    <2>4. stack # <<>>
      BY <1>13, ReceiveItem DEF ClientReceives
    <2> HIDE DEF items
    <2>5. 1 \in 1..Len(items) /\ \A n \in 1..Len(items) : n = 1
      BY <2>2
    <2>6. items[1].op = "close" /\ items[1].slot = i /\ items[1].place = 1
      BY <2>2, <2>3
    <2>7. \A n \in 1..Len(items) : items[n].op # "accept"
      BY <2>5, <2>6
    <2> QED
      BY <2>2, <2>4, <2>5, <2>6, <2>7, ConnectedCloses
  <1>14. ASSUME NEW r \in resolves, NEW i \in Slots, Answer(r), AnswerFailure(r, i)
         PROVE  ConnectedInv'
    <2> DEFINE items == <<Loop("refuse", i, 1, "Primary")>>
    <2>1. /\ Len(items) = 1 /\ items[1] = Loop("refuse", i, 1, "Primary")
          /\ Becomes(0, items) /\ stack = <<>> /\ Len(stack) = 0
          /\ link[i] = "waiting" /\ Closes(i)
      BY <1>14, AnswerFailureFacts
    <2>2. Loop("refuse", i, 1, "Primary").op = "refuse"
      BY DEF Loop
    <2> HIDE DEF items
    <2>3. \A n \in 1..Len(items) : items[n].op # "accept"
      <3>1. items[1].op # "accept" /\ \A n \in 1..Len(items) : n = 1
        BY <2>1, <2>2
      <3> QED
        BY <3>1
    <2>4. UNCHANGED <<shares, callback>> /\ link' = [link EXCEPT ![i] = "closed"]
          /\ link \in [Slots -> Links]
      BY <2>1 DEF Closes, CloseClient, slotVars, TypeOK
    <2>5. \A j \in Slots : link[j] = "connected" => link'[j] = "connected"
      BY <2>1, <2>4
    <2> QED
      BY <2>1, <2>3, <2>4, <2>5, ConnectedQuiet
  <1>15. ASSUME NEW r \in resolves, NEW i \in Slots, Answer(r), AnswerAddress(r, i)
         PROVE  ConnectedInv'
    <2>1. stack = <<>> /\ UNCHANGED <<stack, shares, callback>>
          /\ link' = [link EXCEPT ![i] = "resolved"] /\ link[i] # "connected"
          /\ link \in [Slots -> Links] /\ Becomes(Len(stack), <<>>)
      BY <1>15, AnswerAddressFacts DEF GetsOn, slotVars, TypeOK, Answer
    <2>2. \A j \in Slots : link[j] = "connected" => link'[j] = "connected"
      BY <2>1
    <2> QED
      BY <1>0, <2>1, <2>2, ConnectedQuiet
  <1> QED
    BY StepCases, <1>1, <1>2, <1>3, <1>4, <1>5, <1>6, <1>7, <1>8, <1>9, <1>10, <1>11, <1>12,
       <1>13, <1>14, <1>15

-----------------------------------------------------------------------------
(* The invariant holds for ever.                                           *)

LEMMA Initially == Init => IInv
  <1> SUFFICES ASSUME Init PROVE IInv
    OBVIOUS
  <1>1. /\ \A i \in Slots : /\ client[i] = None /\ ~delete_pending[i] /\ share_count[i] = 0
                            /\ attempt[i] = None /\ link[i] = "closed" /\ Used(i) = {}
                            /\ \A k \in Places : shares[i][k] = None
        /\ \A a \in Acquires : callback[a] = "none" /\ told[a] = <<>>
        /\ ~non_reentrant
    BY DEF Init, Used
  <1>2. stack = <<>> /\ goal = <<>> /\ Len(stack) = 0 /\ Len(goal) = 0
    BY DEF Init
  <1>3. TypeOK
    <2>1. /\ non_reentrant \in BOOLEAN /\ pc = "user" /\ resolves = {}
          /\ stack \in Seq(Items) /\ goal \in Seq(Hosts) /\ acquired <= MaxAcquires
      <3>1. non_reentrant \in BOOLEAN /\ pc = "user" /\ resolves = {}
        BY DEF Init
      <3>2. stack \in Seq(Items) /\ goal \in Seq(Hosts)
        BY <1>2
      <3>3. acquired <= MaxAcquires
        BY <1>2 DEF acquired
      <3> QED
        BY <3>1, <3>2, <3>3
    <2>2. None \in Objects /\ 0 \in 0..MaxShares
      BY DEF Objects
    <2>3. /\ client \in [Slots -> Objects]
          /\ delete_pending \in [Slots -> BOOLEAN]
          /\ share_count \in [Slots -> 0..MaxShares]
          /\ shares \in [Slots -> [Places -> Objects]]
          /\ callback \in [Acquires -> {"none", "connect", "disconnect"}]
          /\ attempt \in [Slots -> Objects]
          /\ link \in [Slots -> Links]
      BY <2>2 DEF Init, Links
    <2>4. told \in [Acquires -> Seq(Calls)]
      <3>1. <<>> \in Seq(Calls)
        OBVIOUS
      <3> QED
        BY <3>1 DEF Init
    <2> QED
      BY <2>1, <2>3, <2>4 DEF TypeOK
  <1>4. \A n : n \notin 1..Len(stack)
    BY <1>2
  <1>5. StackInv
    BY <1>1, <1>2, <1>4 DEF StackInv
  <1>6. SharesAreCounted
    <2>1. Cardinality({}) = 0
      BY FS_EmptySet
    <2> QED
      BY <1>1, <2>1 DEF SharesAreCounted, Live
  <1>7. LinkInv /\ PlacesInv
    <2>1. None <= acquired
      BY <1>2 DEF None, acquired
    <2> QED
      BY <1>1, <2>1 DEF LinkInv, PlacesInv
  <1>8. ToldInv
    <2>1. \A a \in Acquires : ~(a <= acquired)
      BY <1>2 DEF Acquires, acquired
    <2> QED
      BY <1>1, <2>1 DEF ToldInv
  <1>9. HostInv
    BY <1>1 DEF HostInv, OneSlotPerHost, Live
  <1>10. RefusedInv
    <2>1. \A n : n \notin 2..Len(stack)
      BY <1>2
    <2> QED
      BY <2>1 DEF RefusedInv
  <1>11. ConnectedInv
    BY <1>1, <1>4 DEF ConnectedInv
  <1> QED
    BY <1>3, <1>5, <1>6, <1>7, <1>8, <1>9, <1>10, <1>11 DEF IInv

LEMMA Inductive == IInv /\ [Next]_vars => IInv'
  <1> SUFFICES ASSUME IInv, [Next]_vars PROVE IInv'
    OBVIOUS
  <1>1. /\ TypeOK /\ StackInv /\ SharesAreCounted /\ LinkInv /\ PlacesInv /\ ToldInv
        /\ HostInv /\ RefusedInv /\ ConnectedInv
    BY DEF IInv
  <1>2. TypeOK' /\ StackInv' /\ SharesAreCounted'
    BY <1>1, CountedStep
  <1>3. LinkInv' /\ PlacesInv' /\ ToldInv'
    BY <1>1, LinkStep, PlacesStep, ToldStep
  <1>4. HostInv' /\ RefusedInv'
    BY <1>1, HostStep, RefusedStep
  <1>5. ConnectedInv'
    BY <1>1, ConnectedStep
  <1> QED
    BY <1>2, <1>3, <1>4, <1>5 DEF IInv

\* IInv, for any numbers of hosts, slots, shares and calls of acquire(), and whether or
\* not the resolver may answer late.
THEOREM Invariance == Spec => []IInv
  <1>1. Init => IInv
    BY Initially
  <1> QED
    BY <1>1, Inductive, PTL DEF Spec

\* Every variable has the type of the C++ member it stands for: the loops of the pool
\* stay within slots and shares, and a share_count fits the shares of a slot.
THEOREM TypeCorrect == Spec => []TypeOK
  BY Invariance, PTL DEF IInv

\* share_count is the number of shares of a slot, however release(), the loops of the
\* client's callbacks and acquire() in user callbacks come together; a slot without
\* shares is marked for deletion, or is about to be, and only such slots are deleted.
THEOREM SharesCounted == Spec => []SharesAreCounted
  BY Invariance, PTL DEF IInv

\* No two slots have shares of the same host and port: acquire() finds the slot that is
\* there in all of its states, while it connects, while callbacks are still to be called
\* and while it is being given up.
THEOREM OneSlot == Spec => []OneSlotPerHost
  <1>1. IInv => OneSlotPerHost
    BY DEF IInv, HostInv
  <1> QED
    BY <1>1, Invariance, PTL

-----------------------------------------------------------------------------
(* The levels of what is told.                                             *)

LEMMA EventOne ==
    ASSUME TypeOK, NEW a \in Acquires, NEW event, Events(a) = <<event>>
    PROVE  told[a] # <<>> /\ Last(told[a]).event = event
  <1>1. told[a] \in Seq(Calls)
    BY UserValues
  <1>2. PICK n \in Nat : n = Len(told[a])
    BY <1>1
  <1>3. DOMAIN Events(a) = 1..n
    BY <1>2 DEF Events
  <1>4. n = 1
    <2>1. DOMAIN <<event>> = 1..1
      OBVIOUS
    <2>2. 1..n = 1..1
      BY <1>3, <2>1
    <2> QED
      BY <2>2
  <1>5. told[a][1].event = event
    <2>1. Events(a)[1] = told[a][1].event
      BY <1>2, <1>4 DEF Events
    <2>2. <<event>>[1] = event
      OBVIOUS
    <2> QED
      BY <2>1, <2>2
  <1> QED
    <2>1. Len(told[a]) = 1
      BY <1>2, <1>4
    <2>2. told[a] # <<>>
      BY <1>1, <2>1
    <2> QED
      BY <1>5, <2>1, <2>2 DEF Last

LEMMA EventTwo ==
    ASSUME TypeOK, NEW a \in Acquires, NEW first, NEW event, Events(a) = <<first, event>>
    PROVE  told[a] # <<>> /\ Last(told[a]).event = event
  <1>1. told[a] \in Seq(Calls)
    BY UserValues
  <1>2. PICK n \in Nat : n = Len(told[a])
    BY <1>1
  <1>3. DOMAIN Events(a) = 1..n
    BY <1>2 DEF Events
  <1>4. n = 2
    <2>1. DOMAIN <<first, event>> = 1..2
      OBVIOUS
    <2>2. 1..n = 1..2
      BY <1>3, <2>1
    <2> QED
      BY <2>2
  <1>5. told[a][2].event = event
    <2>1. Events(a)[2] = told[a][2].event
      BY <1>2, <1>4 DEF Events
    <2>2. <<first, event>>[2] = event
      OBVIOUS
    <2> QED
      BY <2>1, <2>2
  <1> QED
    <2>1. Len(told[a]) = 2
      BY <1>2, <1>4
    <2>2. told[a] # <<>>
      BY <1>1, <2>1
    <2> QED
      BY <1>5, <2>1, <2>2 DEF Last

\* A share is connected exactly while it holds a disconnect callback.
LEMMA ConnectedAwaits ==
    ASSUME TypeOK, PlacesInv, ToldInv, NEW i \in Slots, NEW k \in Used(i)
    PROVE  IsConnected(shares[i][k]) <=> Awaits(i, k)
  <1>1. PICK a \in Acquires : a = shares[i][k] /\ a <= acquired
    <2>1. shares[i][k] \in Acquires /\ shares[i][k] \in 1..acquired /\ acquired \in Nat
      BY ShareAccepted, UserValues
    <2> QED
      BY <2>1
  <1>2. callback[a] \in {"none", "connect", "disconnect"}
    BY DEF TypeOK
  <1>3. CASE callback[a] = "connect"
    <2>1. told[a] = <<>>
      BY <1>3 DEF ToldInv
    <2> QED
      BY <1>1, <1>3, <2>1 DEF IsConnected, Awaits
  <1>4. CASE callback[a] = "disconnect"
    <2>1. Events(a) = <<"Connected">>
      BY <1>4 DEF ToldInv
    <2> QED
      BY <1>1, <1>4, <2>1, EventOne DEF IsConnected, Awaits
  <1>5. CASE callback[a] = "none"
    <2>1. Events(a) = <<"Failed">> \/ Events(a) = <<"Connected", "Closed">>
      BY <1>1, <1>5 DEF ToldInv
    <2>2. Last(told[a]).event # "Connected"
      BY <2>1, EventOne, EventTwo
    <2> QED
      BY <1>1, <1>5, <2>2 DEF IsConnected, Awaits
  <1> QED
    BY <1>2, <1>3, <1>4, <1>5

LEMMA TellLast ==
    ASSUME TypeOK, NEW a \in Acquires, NEW event, NEW level, Tell(a, event, level)
    PROVE  Last(told'[a]).event = event /\ Last(told'[a]).level = level
  <1>1. told[a] \in Seq(Calls) /\ told'[a] = Append(told[a], [event |-> event, level |-> level])
    BY UserValues DEF Tell
  <1>2. Last(told'[a]) = [event |-> event, level |-> level]
    <2>1. PICK n \in Nat : n = Len(told[a])
      BY <1>1
    <2>2. Len(told'[a]) = n + 1 /\ told'[a][n + 1] = [event |-> event, level |-> level]
      BY <1>1, <2>1
    <2> QED
      BY <2>2 DEF Last
  <1> QED
    BY <1>2

Others(i, k) == {shares[i][n] : n \in Used(i) \ {k}}

\* What PrimaryFirstAndLast says of one share.
LevelRight(i, k) ==
    LET a == shares[i][k] IN
    a # None /\ told'[a] # told[a] =>
        /\ Last(told'[a]).event = "Connected" =>
               (Last(told'[a]).level = "Primary" <=> ~\E b \in Others(i, k) : IsConnected(b))
        /\ Last(told'[a]).event = "Closed" =>
               (Last(told'[a]).level = "Primary" <=> Others(i, k) = {})

LEMMA LevelGivenUp ==
    ASSUME TypeOK, SharesAreCounted, NEW i \in Slots, NEW k \in Places, k \in Used(i),
           GivesUp(i, k)
    PROVE  LevelRight(i, k)
  <1>1. PICK a \in Acquires : a = shares[i][k]
    BY UsedFacts
  <1>2. \/ Tell(a, "Failed", LevelAfter(i))
        \/ Tell(a, "Closed", LevelAfter(i))
        \/ told' = told
    BY <1>1 DEF GivesUp, LastCall
  <1>3. share_count'[i] = 0 <=> Others(i, k) = {}
    <2>1. share_count'[i] = Cardinality(Used(i) \ {k}) /\ IsFiniteSet(Used(i) \ {k})
      BY GivesUpUsed, UsedFacts, FS_Subset
    <2>2. share_count'[i] = 0 <=> Used(i) \ {k} = {}
      BY <2>1, FS_EmptySet
    <2> QED
      BY <2>2 DEF Others
  <1>4. CASE Tell(a, "Failed", LevelAfter(i))
    BY <1>1, <1>4, TellLast DEF LevelRight
  <1>5. CASE Tell(a, "Closed", LevelAfter(i))
    <2>1. Last(told'[a]).event = "Closed" /\ Last(told'[a]).level = LevelAfter(i)
      BY <1>5, TellLast
    <2>2. LevelAfter(i) = "Primary" <=> Others(i, k) = {}
      BY <1>3 DEF LevelAfter
    <2> QED
      BY <1>1, <2>1, <2>2 DEF LevelRight
  <1>6. CASE told' = told
    BY <1>6 DEF LevelRight
  <1> QED
    BY <1>2, <1>4, <1>5, <1>6

LEMMA LevelTold ==
    ASSUME TypeOK, StackInv, PlacesInv, ToldInv, ConnectedInv,
           NEW i \in Slots, NEW k \in Places, TellConnected(i, k)
    PROVE  LevelRight(i, k)
  <1>1. LoopAt({"accept"}, i, k)
    BY DEF TellConnected
  <1>2. /\ stack # <<>> /\ Top \in Items /\ Top = stack[Len(stack)] /\ Top.op = "accept"
        /\ Top.slot = i /\ k \in Used(i) /\ Len(stack) \in Nat \ {0}
    BY <1>1, LoopItem, TopType, StackTypes DEF Loops
  <1>3. PICK a \in Acquires : a = shares[i][k]
    BY <1>2, UsedFacts
  <1>4. Tell(a, "Connected", Top.level) /\ ~Awaits(i, k)
    BY <1>3 DEF TellConnected, Awaits
  <1>5. Last(told'[a]).event = "Connected" /\ Last(told'[a]).level = Top.level
    BY <1>4, TellLast
  <1>6. Top.level = "Secondary" <=> Joined(i)
    <2>1. Len(stack) \in 1..Len(stack)
      BY <1>2
    <2> QED
      BY <1>2, <2>1, ConnectedParts DEF AcceptRight
  <1>7. Top.level \in {"Primary", "Secondary"}
    BY <1>2, ItemTypes DEF Loops, Levels
  <1>8. Joined(i) <=> \E b \in Others(i, k) : IsConnected(b)
    <2>1. \A n \in Used(i) : IsConnected(shares[i][n]) <=> Awaits(i, n)
      BY ConnectedAwaits
    <2>2. Joined(i) <=> \E n \in Used(i) \ {k} : Awaits(i, n)
      BY <1>4 DEF Joined
    <2>3. (\E b \in Others(i, k) : IsConnected(b))
              <=> \E n \in Used(i) \ {k} : IsConnected(shares[i][n])
      BY DEF Others
    <2> QED
      BY <2>1, <2>2, <2>3
  <1>9. Last(told'[a]).level = "Primary" <=> ~\E b \in Others(i, k) : IsConnected(b)
    BY <1>5, <1>6, <1>7, <1>8
  <1> QED
    BY <1>3, <1>5, <1>9 DEF LevelRight

\* Nobody is told but the share that a step is about.
LEMMA LevelOthers ==
    ASSUME TypeOK, PlacesInv, NEW a \in Acquires, NEW event, NEW level,
           Tell(a, event, level), NEW i \in Slots, NEW k \in Places, shares[i][k] # a
    PROVE  LevelRight(i, k)
  <1>1. shares[i][k] # None => shares[i][k] \in Acquires
    <2>1. k \in Used(i) <=> shares[i][k] # None
      BY DEF Used
    <2> QED
      BY <2>1, UsedFacts
  <1>2. shares[i][k] # None => told'[shares[i][k]] = told[shares[i][k]]
    BY <1>1, TellOthers
  <1> QED
    BY <1>2 DEF LevelRight

LEMMA LevelStep ==
    ASSUME IInv, [Next]_vars, NEW i \in Slots, NEW k \in Places
    PROVE  LevelRight(i, k)
  <1>1. /\ TypeOK /\ StackInv /\ SharesAreCounted /\ LinkInv /\ PlacesInv /\ ToldInv
        /\ ConnectedInv
    BY DEF IInv
  <1>2. CASE told' = told
    BY <1>2 DEF LevelRight
  <1>3. ASSUME NEW h \in Hosts, NEW j \in Slots, NEW m \in Places, AcquireShareAt(h, j, m)
        PROVE  LevelRight(i, k)
    <2>1. acquired + 1 \in Acquires /\ shares[i][k] # acquired + 1
      <3>1. acquired + 1 \in Acquires
        BY <1>1, <1>3, NewShareFacts DEF NewShareAt
      <3>2. shares[i][k] <= acquired /\ acquired \in Nat
        BY <1>1, UserValues DEF PlacesInv
      <3> QED
        BY <3>1, <3>2
    <2>2. Tell(acquired + 1, "Connected", "Secondary") \/ told' = told
      BY <1>3 DEF AcquireShareAt
    <2> QED
      BY <1>1, <1>2, <2>1, <2>2, LevelOthers
  <1>4. ASSUME NEW j \in Slots, NEW m \in Places, m \in Used(j), GivesUp(j, m)
        PROVE  LevelRight(i, k)
    <2>1. PICK a \in Acquires : a = shares[j][m]
      BY <1>1, <1>4, UsedFacts
    <2>2. \/ Tell(a, "Failed", LevelAfter(j))
          \/ Tell(a, "Closed", LevelAfter(j))
          \/ told' = told
      BY <1>4, <2>1 DEF GivesUp, LastCall
    <2>3. CASE shares[i][k] # a
      BY <1>1, <1>2, <2>2, <2>3, LevelOthers
    <2>4. CASE shares[i][k] = a
      <3>1. i = j /\ k = m
        BY <1>1, <2>1, <2>4 DEF PlacesInv, Acquires, None
      <3> QED
        BY <1>1, <1>4, <3>1, LevelGivenUp
    <2> QED
      BY <2>3, <2>4
  <1>5. ASSUME NEW j \in Slots, NEW m \in Places, TellConnected(j, m) \/ TellFailed(j, m)
        PROVE  LevelRight(i, k)
    <2>1. m \in Used(j)
      <3>1. LoopAt({"accept"}, j, m) \/ LoopAt({"refuse"}, j, m)
        BY <1>5 DEF TellConnected, TellFailed
      <3> QED
        BY <1>1, <3>1, LoopItem DEF Loops
    <2>2. PICK a \in Acquires : a = shares[j][m]
      BY <1>1, <2>1, UsedFacts
    <2>3. Tell(a, "Connected", Top.level) \/ Tell(a, "Failed", Top.level)
      BY <1>5, <2>2 DEF TellConnected, TellFailed
    <2>4. CASE shares[i][k] # a
      BY <1>1, <2>3, <2>4, LevelOthers
    <2>5. CASE shares[i][k] = a
      <3>1. i = j /\ k = m
        BY <1>1, <2>2, <2>5 DEF PlacesInv, Acquires, None
      <3>2. CASE TellConnected(j, m)
        BY <1>1, <3>1, <3>2, LevelTold
      <3>3. CASE TellFailed(j, m)
        <4>1. Tell(a, "Failed", Top.level)
          BY <2>2, <3>3 DEF TellFailed
        <4> QED
          BY <1>1, <2>5, <4>1, TellLast DEF LevelRight
      <3> QED
        BY <1>5, <3>2, <3>3
    <2> QED
      BY <2>4, <2>5
  <1>6. \/ told' = told
        \/ \E h \in Hosts, j \in Slots, m \in Places : AcquireShareAt(h, j, m)
        \/ \E j \in Slots, m \in Places : m \in Used(j) /\ GivesUp(j, m)
        \/ \E j \in Slots, m \in Places : TellConnected(j, m) \/ TellFailed(j, m)
    BY <1>1, EffectCases DEF Effects, GetsOn, Closes, Deletes, AcquireSlotAt, Retires
  <1> QED
    BY <1>2, <1>3, <1>4, <1>5, <1>6

\* A share is told of its connection with level Primary exactly if no other share of the
\* slot was connected, and of the end of it exactly if no other share is left, in every
\* order in which shares join, are called back, release and are released by force.
THEOREM LevelsTold == Spec => PrimaryFirstAndLast
  <1>1. IInv /\ [Next]_vars => \A i \in Slots, k \in Places : LevelRight(i, k)
    BY LevelStep
  <1>2. (\A i \in Slots, k \in Places : LevelRight(i, k)) =>
            \A i \in Slots, k \in Places :
                LET a == shares[i][k]
                    others == {shares[i][n] : n \in Used(i) \ {k}}
                IN  a # None /\ told'[a] # told[a] =>
                        /\ Last(told'[a]).event = "Connected" =>
                               (Last(told'[a]).level = "Primary" <=> ~\E b \in others : IsConnected(b))
                        /\ Last(told'[a]).event = "Closed" =>
                               (Last(told'[a]).level = "Primary" <=> others = {})
    BY DEF LevelRight, Others
  <1> QED
    BY <1>1, <1>2, Invariance, PTL DEF Spec, PrimaryFirstAndLast

=============================================================================
