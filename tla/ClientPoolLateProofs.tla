-------------------------- MODULE ClientPoolLateProofs ----------------------------
(* Proofs about ClientPool when the library is entered by a call of the    *)
(* user, as it is but for late failures of the resolver: what is left of   *)
(* those when they are over is no danger to the calls that follow.         *)
EXTENDS ClientPoolProofs

USE HostsAssumption, CountsAssumption, LateAnswersAssumption

-----------------------------------------------------------------------------
(* The invariant, on top of IInv.                                          *)

\* The library was entered by a call of the user, and guards against others.
Guarded == stack # <<>> => stack[1].op = "leave"

\* What the library has still to do can be done: its slot is there, and so are the
\* callbacks to be called.
ItemSound(item) ==
    /\ item.op \in {"accept", "refuse", "close", "force", "retire"} =>
           item.object = client[item.slot]
    /\ item.op \in {"accept", "refuse"} =>
           \A k \in Used(item.slot) :
               k >= item.place => callback[shares[item.slot][k]] = "connect"

SoundInv == Guarded => \A n \in 1..Len(stack) : ItemSound(stack[n])

\* An item of the stack that has to do with the share at place k of slot i.
Pending(ops, i, k) ==
    \E n \in 1..Len(stack) :
        stack[n].op \in ops /\ stack[n].slot = i /\ stack[n].place <= k

Removals == {"refuse", "close", "drop"}
Deeds == {"accept", "refuse", "close", "drop"}

Following(i, k) ==
    callback[shares[i][k]] = CASE link[i] = "closed" -> "none"
                               [] link[i] = "connected" -> "disconnect"
                               [] OTHER -> "connect"

\* Guarded or not, a share has the callback that the client calls for, or the library has
\* still to do with it; and it has to, if the client of the share is closed.
Provided(i, k) ==
    /\ attempt[i] = None => Pending(Removals, i, k)
    /\ Following(i, k) \/ Pending(Deeds, i, k)

ProvidedInv == \A i \in Slots : \A k \in Used(i) : Provided(i, k)

LateInv == IInv /\ SoundInv /\ ProvidedInv

-----------------------------------------------------------------------------
(* The shape of the stack.                                                 *)

\* The library is entered once.
LEMMA LeaveIsFirst ==
    ASSUME TypeOK, StackInv, Guarded, NEW n \in 1..Len(stack), stack[n].op = "leave"
    PROVE  n = 1
  <1>1. PICK len \in Nat : len = Len(stack)
    BY StackTypes
  <1>2. 1 \in 1..len /\ stack # <<>>
    BY <1>1
  <1>3. stack[1].op = "leave"
    BY <1>2 DEF Guarded
  <1> QED
    BY <1>1, <1>2, <1>3 DEF StackInv

LEMMA LiesHere ==
    ASSUME TypeOK, StackInv, Guarded, NEW n \in 1..Len(stack), stack[n].op # "leave"
    PROVE  n > 1 /\ n - 1 \in 1..Len(stack) /\ LiesOn(stack[n], stack[n - 1])
  <1>1. PICK len \in Nat : len = Len(stack)
    BY StackTypes
  <1>2. n # 1
    <2>1. stack # <<>>
      BY <1>1
    <2> QED
      BY <2>1 DEF Guarded
  <1>3. n > 1 /\ n - 1 \in 1..len
    BY <1>1, <1>2
  <1> QED
    BY <1>1, <1>3 DEF StackInv

LEMMA TickIsSecond ==
    ASSUME TypeOK, StackInv, Guarded, NEW n \in 1..Len(stack), stack[n].op = "tick"
    PROVE  n = 2
  <1>1. n > 1 /\ n - 1 \in 1..Len(stack) /\ stack[n - 1].op = "leave"
    BY LiesHere DEF LiesOn
  <1>2. n - 1 = 1
    BY <1>1, LeaveIsFirst
  <1> QED
    BY <1>2

\* What lies below the client's loops and the calls of them.
LEMMA BelowLoops ==
    ASSUME TypeOK, StackInv, Guarded, stack # <<>>,
           Top.op \in {"tick", "receive", "accept", "refuse", "close", "force"},
           NEW n \in 1..Len(stack), n # Len(stack)
    PROVE  stack[n].op \in {"leave", "tick", "receive"}
  <1>1. PICK len \in Nat \ {0} : len = Len(stack) /\ Top = stack[len]
    BY StackTypes, TopType
  <1>2. len \in 1..len /\ n \in 1..len /\ n # len
    BY <1>1
  <1>3. stack[1].op = "leave"
    BY DEF Guarded
  <1>4. len > 1 /\ len - 1 \in 1..len /\ LiesOn(stack[len], stack[len - 1])
    BY <1>1, <1>2, LiesHere
  <1>5. CASE stack[len - 1].op = "leave"
    <2>1. len - 1 = 1
      BY <1>1, <1>4, <1>5, LeaveIsFirst
    <2>2. n = 1
      BY <1>2, <2>1
    <2> QED
      BY <1>3, <2>2
  <1>6. CASE stack[len - 1].op = "tick"
    <2>1. len - 1 = 2
      BY <1>1, <1>4, <1>6, TickIsSecond
    <2>2. n = 1 \/ n = 2
      BY <1>2, <2>1
    <2> QED
      BY <1>3, <1>6, <2>1, <2>2
  <1>7. CASE stack[len - 1].op = "receive"
    <2>1. len - 1 > 1 /\ (len - 1) - 1 \in 1..len /\ stack[(len - 1) - 1].op = "tick"
      <3>1. PICK m \in 1..len : m = len - 1
        BY <1>4
      <3>2. m > 1 /\ m - 1 \in 1..len /\ LiesOn(stack[m], stack[m - 1])
        BY <1>1, <1>7, <3>1, LiesHere
      <3> QED
        BY <1>7, <3>1, <3>2 DEF LiesOn
    <2>2. (len - 1) - 1 = 2
      BY <1>1, <2>1, TickIsSecond
    <2>0. len \in Nat /\ n \in 1..len /\ n # len
      BY <1>1, <1>2
    <2>5. len = 4
      BY <2>0, <2>2
    <2>3. n = 1 \/ n = 2 \/ n = 3
      BY <2>0, <2>5
    <2>4. len - 1 = 3
      BY <2>5
    <2> QED
      BY <1>3, <1>7, <2>1, <2>2, <2>3, <2>4
  <1>8. stack[len - 1].op \in {"leave", "tick", "receive"}
    BY <1>1, <1>4 DEF LiesOn
  <1> QED
    BY <1>5, <1>6, <1>7, <1>8

\* Nothing but ~NonReentrantScope() is the lowest of the stack.
LEMMA NotLowest ==
    ASSUME TypeOK, StackInv, Guarded, stack # <<>>, Top.op # "leave"
    PROVE  Len(stack) - 1 # 0 /\ Len(stack) - 1 \in 0..Len(stack)
  <1>1. PICK len \in Nat \ {0} : len = Len(stack) /\ Top = stack[len]
    BY StackTypes, TopType
  <1>2. stack[1].op = "leave"
    BY DEF Guarded
  <1>3. len # 1
    BY <1>1, <1>2
  <1> QED
    BY <1>1, <1>3

\* Users may call the pool only when it has nothing to do.
LEMMA UserFinds ==
    ASSUME TypeOK, StackInv, Guarded, ~non_reentrant
    PROVE  stack = <<>> /\ Len(stack) = 0
  <1>1. PICK len \in Nat : len = Len(stack)
    BY StackTypes
  <1>2. len = 0
    <2> SUFFICES ASSUME len # 0 PROVE FALSE
      OBVIOUS
    <2>1. 1 \in 1..len /\ stack # <<>>
      BY <1>1
    <2> QED
      BY <1>1, <2>1 DEF Guarded, StackInv
  <1>3. stack \in Seq(Items)
    BY DEF TypeOK
  <1>4. Len(stack) = 0
    BY <1>1, <1>2
  <1>5. stack = <<>>
    BY <1>3, <1>4
  <1> QED
    BY <1>4, <1>5

-----------------------------------------------------------------------------
(* A call of the user does nothing undefined.                              *)

\* Nothing is left of a late failure when the library has nothing to do.
LEMMA NothingLeft ==
    ASSUME LateInv, stack = <<>>, NEW i \in Slots
    PROVE  /\ Live(i) => attempt[i] # None
           /\ \A k \in Used(i) : attempt[i] # None /\ Following(i, k)
  <1>1. Len(stack) = 0
    OBVIOUS
  <1>2. ASSUME NEW ops, NEW k PROVE ~Pending(ops, i, k)
    BY <1>1 DEF Pending
  <1>3. ASSUME NEW k \in Used(i) PROVE attempt[i] # None /\ Following(i, k)
    BY <1>2 DEF LateInv, ProvidedInv, Provided
  <1>4. ASSUME Live(i), Used(i) = {} PROVE FALSE
    <2>1. OnStack(LAMBDA item : item.op = "retire" /\ item.slot = i)
      BY <1>4 DEF LateInv, IInv, SharesAreCounted
    <2> QED
      BY <1>1, <2>1 DEF OnStack
  <1> QED
    BY <1>3, <1>4

LEMMA NothingStumbles ==
    ASSUME LateInv, Guarded
    PROVE  ~UndefinedStep
  <1>0. TypeOK /\ StackInv /\ SoundInv
    BY DEF LateInv, IInv
  <1>1. ASSUME NEW h \in Hosts, AcquireUndefined(h) PROVE FALSE
    <2>1. stack = <<>>
      BY <1>0, <1>1, UserFinds DEF AcquireUndefined, MayAcquire
    <2>2. \E i \in Slots : Live(i) /\ attempt[i] = None
      BY <1>1 DEF AcquireUndefined
    <2> QED
      BY <2>1, <2>2, NothingLeft
  <1>2. ASSUME ReadDeleted PROVE FALSE
    <2>1. pc = "library" /\ Top.op \in {"accept", "refuse", "close", "force", "retire"}
          /\ IsGone(Top)
      BY <1>2 DEF ReadDeleted, Doing, Looping
    <2>2. Len(stack) \in 1..Len(stack) /\ Top = stack[Len(stack)]
      BY <1>0, <2>1, StackTypes
    <2>3. ItemSound(Top)
      BY <1>0, <2>2 DEF SoundInv
    <2> QED
      BY <2>1, <2>3 DEF ItemSound, IsGone
  <1>3. ASSUME NEW i \in Slots, NEW k \in Places, TellUndefined(i, k) PROVE FALSE
    <2>1. LoopAt({"accept", "refuse"}, i, k) /\ callback[shares[i][k]] # "connect"
      BY <1>3 DEF TellUndefined
    <2>2. /\ stack # <<>> /\ Top = stack[Len(stack)] /\ Top.op \in {"accept", "refuse"}
          /\ Top.slot = i /\ k \in Used(i) /\ k >= Top.place
      BY <1>0, <2>1, LoopItem DEF Loops
    <2>3. Len(stack) \in 1..Len(stack)
      BY <1>0, <2>2, TopType, StackTypes
    <2>4. ItemSound(Top)
      BY <1>0, <2>2, <2>3 DEF SoundInv
    <2> QED
      BY <2>1, <2>2, <2>4 DEF ItemSound
  <1> QED
    BY <1>1, <1>2, <1>3 DEF UndefinedStep

-----------------------------------------------------------------------------
(* What the library has still to do stays sound.                           *)

\* What is right whatever happens.
Plain(item) == item.op \in {"leave", "tick", "receive"}

\* All new items of the stack are sound.
NewSound(items) == \A n \in 1..Len(items) : \A item : item = items[n] => ItemSound(item)'

\* So are the lowest b, which are kept.
OldSound(b) == \A n \in 1..Len(stack) : n <= b => \A item : item = stack[n] => ItemSound(item)'

LEMMA PlainIsSound ==
    ASSUME NEW item, Plain(item)
    PROVE  ItemSound(item)'
  BY DEF Plain, ItemSound

LEMMA SoundStep ==
    ASSUME TypeOK, NEW b, NEW items, Becomes(b, items), OldSound(b), NewSound(items)
    PROVE  SoundInv'
  <1>1. PICK len \in Nat, new \in Nat : len = Len(stack) /\ new = Len(items)
    <2>1. items \in Seq(Items)
      BY DEF Becomes
    <2>2. Len(stack) \in Nat /\ Len(items) \in Nat
      BY <2>1, StackTypes, LenProperties
    <2> QED
      BY <2>2, Zenon
  <1>2. ASSUME NEW n \in 1..Len(stack'), NEW item, item = stack'[n]
        PROVE  ItemSound(item)'
    <2>1. /\ b \in 0..len /\ n \in 1..(b + new)
          /\ \A m \in 1..b : stack'[m] = stack[m]
          /\ \A m \in 1..new : stack'[b + m] = items[m]
      BY <1>1, <1>2 DEF Becomes
    <2>2. CASE n <= b
      <3>1. n \in 1..b /\ n \in 1..len
        BY <2>1, <2>2
      <3>2. item = stack[n]
        BY <1>2, <2>1, <3>1
      <3> QED
        BY <1>1, <2>2, <3>1, <3>2 DEF OldSound
    <2>3. CASE n > b
      <3>1. PICK m \in 1..new : n = b + m
        <4>1. n - b \in 1..new /\ n = b + (n - b)
          BY <2>1, <2>3
        <4> QED
          BY <4>1
      <3>2. item = items[m]
        BY <1>2, <2>1, <3>1
      <3> QED
        BY <1>1, <3>1, <3>2 DEF NewSound
    <2> QED
      BY <2>1, <2>2, <2>3
  <1>3. \A n \in 1..Len(stack') : ItemSound(stack[n])'
    BY <1>2 DEF ItemSound
  <1> QED
    BY <1>3 DEF SoundInv

\* A late failure is the lowest on the stack until it is over.
LEMMA LateIsLowest ==
    ASSUME TypeOK, NEW b, NEW items, Becomes(b, items),
           \/ b # 0 /\ ~Guarded
           \/ b = 0 /\ (items = <<>> \/ items[1].op = "refuse")
    PROVE  SoundInv'
  <1>1. PICK len \in Nat, new \in Nat : len = Len(stack) /\ new = Len(items)
    <2>1. items \in Seq(Items)
      BY DEF Becomes
    <2>2. Len(stack) \in Nat /\ Len(items) \in Nat
      BY <2>1, StackTypes, LenProperties
    <2> QED
      BY <2>2, Zenon
  <1>2. /\ b \in 0..len /\ Len(stack') = b + new /\ stack' \in Seq(Items) /\ items \in Seq(Items)
        /\ \A m \in 1..b : stack'[m] = stack[m]
        /\ \A m \in 1..new : stack'[b + m] = items[m]
    BY <1>1 DEF Becomes
  <1>3. CASE b # 0 /\ ~Guarded
    <2>1. 1 \in 1..b
      BY <1>2, <1>3
    <2>2. stack'[1] = stack[1] /\ stack[1].op # "leave"
      BY <1>2, <1>3, <2>1 DEF Guarded
    <2>3. Len(stack') # 0
      BY <1>1, <1>2, <1>3
    <2>4. stack' # <<>>
      BY <2>3
    <2>5. ~Guarded'
      BY <2>2, <2>4 DEF Guarded
    <2> QED
      BY <2>5 DEF SoundInv
  <1>4. CASE b = 0 /\ items = <<>>
    <2>1. new = 0
      BY <1>1, <1>4
    <2>2. Len(stack') = 0
      BY <1>2, <1>4, <2>1
    <2> QED
      BY <2>2 DEF SoundInv
  <1>5. CASE b = 0 /\ items # <<>> /\ items[1].op = "refuse"
    <2>1. new # 0
      BY <1>1, <1>2, <1>5
    <2>2. 1 \in 1..new /\ b + 1 = 1 /\ Len(stack') # 0
      BY <1>2, <1>5, <2>1
    <2>3. stack'[1] = items[1] /\ stack' # <<>>
      BY <1>2, <2>2
    <2>4. ~Guarded'
      BY <1>5, <2>3 DEF Guarded
    <2> QED
      BY <2>4 DEF SoundInv
  <1> QED
    BY <1>3, <1>4, <1>5

\* New items by number.
LEMMA NoneIsSound == NewSound(<<>>)
  BY DEF NewSound

LEMMA OneIsSound ==
    ASSUME NEW x, ItemSound(x)'
    PROVE  NewSound(<<x>>)
  <1> DEFINE items == <<x>>
  <1>1. Len(items) = 1 /\ items[1] = x
    OBVIOUS
  <1> HIDE DEF items
  <1>2. \A n \in 1..Len(items) : n = 1
    BY <1>1
  <1>3. NewSound(items)
    BY <1>1, <1>2 DEF NewSound
  <1> QED
    BY <1>3 DEF items

LEMMA TwoAreSound ==
    ASSUME NEW x, NEW y, ItemSound(x)', ItemSound(y)'
    PROVE  NewSound(<<x, y>>)
  <1> DEFINE items == <<x, y>>
  <1>1. Len(items) = 2 /\ items[1] = x /\ items[2] = y
    OBVIOUS
  <1> HIDE DEF items
  <1>2. \A n \in 1..Len(items) : n = 1 \/ n = 2
    BY <1>1
  <1>3. NewSound(items)
    BY <1>1, <1>2 DEF NewSound
  <1> QED
    BY <1>3 DEF items

LEMMA ThreeAreSound ==
    ASSUME NEW x, NEW y, NEW z, ItemSound(x)', ItemSound(y)', ItemSound(z)'
    PROVE  NewSound(<<x, y, z>>)
  <1> DEFINE items == <<x, y, z>>
  <1>1. Len(items) = 3 /\ items[1] = x /\ items[2] = y /\ items[3] = z
    OBVIOUS
  <1> HIDE DEF items
  <1>2. \A n \in 1..Len(items) : n = 1 \/ n = 2 \/ n = 3
    BY <1>1
  <1>3. NewSound(items)
    BY <1>1, <1>2 DEF NewSound
  <1> QED
    BY <1>3 DEF items

\* Nothing of what lies below these needs anything.
LEMMA PlainBelow ==
    ASSUME TypeOK, StackInv, Guarded, stack # <<>>,
           Top.op \in {"tick", "receive", "accept", "refuse", "close", "force"}
    PROVE  OldSound(Len(stack) - 1)
  <1> SUFFICES ASSUME NEW n \in 1..Len(stack), n <= Len(stack) - 1, NEW item, item = stack[n]
               PROVE  ItemSound(item)'
    BY DEF OldSound
  <1>1. n # Len(stack)
    BY StackTypes
  <1>2. Plain(item)
    BY <1>1, BelowLoops DEF Plain
  <1> QED
    BY <1>2, PlainIsSound

\* What the items say of slots stays true.
SoundFrame ==
    /\ UNCHANGED client
    /\ \A i \in Slots : \A k \in Used(i)' :
           /\ k \in Used(i) /\ shares'[i][k] = shares[i][k]
           /\ callback'[shares[i][k]] = callback[shares[i][k]]

LEMMA OldStays ==
    ASSUME TypeOK, SoundInv, Guarded, SoundFrame, NEW b
    PROVE  OldSound(b)
  <1> SUFFICES ASSUME NEW n \in 1..Len(stack), NEW item, item = stack[n]
               PROVE  ItemSound(item)'
    BY DEF OldSound
  <1>1. item \in Items
    BY StackTypes
  <1>2. ItemSound(item)
    BY DEF SoundInv
  <1>3. item.op \in {"accept", "refuse", "close", "force", "retire", "drop"} => item.slot \in Slots
    BY <1>1, ItemTypes DEF Loops
  <1>4. item.op \in {"accept", "refuse", "close", "force", "retire"} =>
            item.object = client'[item.slot]
    BY <1>2 DEF ItemSound, SoundFrame
  <1>5. ASSUME item.op \in {"accept", "refuse"}, NEW k \in Used(item.slot)', k >= item.place
        PROVE  callback'[shares'[item.slot][k]] = "connect"
    BY <1>2, <1>3, <1>5 DEF ItemSound, SoundFrame
  <1> QED
    BY <1>4, <1>5 DEF ItemSound

LEMMA QuietFrame ==
    ASSUME UNCHANGED slotVars
    PROVE  SoundFrame
  BY DEF SoundFrame, Used, slotVars

\* The callbacks of the other shares are not touched.
SetsCallback(i, k) == \E value : callback' = [callback EXCEPT ![shares[i][k]] = value]

LEMMA OtherCallbacks ==
    ASSUME TypeOK, PlacesInv, NEW i \in Slots, NEW k \in Used(i), NEW j \in Slots, NEW m \in Used(j),
           j # i \/ m # k, SetsCallback(i, k)
    PROVE  callback'[shares[j][m]] = callback[shares[j][m]]
  <1>1. shares[j][m] \in Acquires /\ shares[j][m] # None /\ m \in Places /\ k \in Places
    BY UsedFacts DEF Used
  <1>2. shares[j][m] # shares[i][k]
    BY <1>1 DEF PlacesInv
  <1>3. callback \in [Acquires -> {"none", "connect", "disconnect"}]
    BY DEF TypeOK
  <1> QED
    BY <1>1, <1>2, <1>3 DEF SetsCallback

LEMMA GivesUpFrame ==
    ASSUME TypeOK, SharesAreCounted, PlacesInv, NEW i \in Slots, NEW k \in Used(i), GivesUp(i, k)
    PROVE  SoundFrame
  <1>1. /\ Used(i)' = Used(i) \ {k}
        /\ \A j \in Slots : j # i => Used(j)' = Used(j)
        /\ \A j \in Slots : \A m \in Places : j # i \/ m # k => shares'[j][m] = shares[j][m]
    BY GivesUpUsed
  <1>2. ASSUME NEW j \in Slots, NEW m \in Used(j)'
        PROVE  m \in Used(j) /\ shares'[j][m] = shares[j][m]
               /\ callback'[shares[j][m]] = callback[shares[j][m]]
    <2>1. m \in Used(j) /\ (j # i \/ m # k)
      BY <1>1, <1>2
    <2>2. m \in Places
      BY <2>1 DEF Used
    <2>3. SetsCallback(i, k)
      BY DEF GivesUp, SetsCallback
    <2>4. callback'[shares[j][m]] = callback[shares[j][m]]
      BY <2>1, <2>3, OtherCallbacks
    <2> QED
      BY <1>1, <2>1, <2>2, <2>4
  <1> QED
    BY <1>2 DEF SoundFrame, GivesUp

\* acquire() makes a share that waits for its callback, unless it calls it at once.
LEMMA SoundNew ==
    ASSUME LateInv, Guarded, NEW h \in Hosts, NEW i \in Slots,
           (\E k \in Places : AcquireShareAt(h, i, k)) \/ AcquireSlotAt(h, i)
    PROVE  SoundInv'
  <1>0. TypeOK /\ StackInv /\ SharesAreCounted /\ LinkInv
    BY DEF LateInv, IInv
  <1>1. ~non_reentrant
    BY DEF AcquireShareAt, AcquireSlotAt, MayAcquire
  <1>2. Len(stack) = 0
    BY <1>0, <1>1, UserFinds
  <1>3. OldSound(0)
    BY <1>2 DEF OldSound
  <1>4. PICK leave, loop : leave = Leave /\ loop = Loop("refuse", i, 1, "Primary")
    OBVIOUS
  <1>5. Plain(leave)
    BY <1>4 DEF Plain, Leave
  <1>6. ItemSound(leave)' /\ NewSound(<<leave>>)
    BY <1>5, PlainIsSound, OneIsSound
  <1>7. CASE \E k \in Places : AcquireShareAt(h, i, k)
    <2>1. Becomes(0, <<leave>>) \/ Becomes(0, <<>>)
      BY <1>0, <1>2, <1>4, <1>7, AcquireShareStack
    <2> QED
      BY <1>0, <1>3, <1>6, <2>1, NoneIsSound, SoundStep
  <1>8. CASE AcquireSlotAt(h, i) /\ attempt[i] = None
    <2>1. Becomes(0, <<>>)
      BY <1>0, <1>2, <1>8, AcquireSlotStack
    <2> QED
      BY <1>0, <1>3, <2>1, NoneIsSound, SoundStep
  <1>9. CASE AcquireSlotAt(h, i) /\ attempt[i] # None
    <2>1. Becomes(0, <<leave, loop>>)
      BY <1>0, <1>2, <1>4, <1>9, AcquireSlotStack
    <2>2. client[i] # None /\ client \in [Slots -> Objects]
      BY <1>0, <1>9, StackTypes DEF LinkInv
    <2>3. client'[i] = client[i]
      BY <1>9, <2>2 DEF AcquireSlotAt
    <2>4. Used(i) = {}
      BY <1>0, <1>9 DEF AcquireSlotAt, SharesAreCounted, Live
    <2>5. 1 \in Places
      BY DEF Places
    <2>6. IsPlaced(i, 1, acquired + 1) /\ acquired + 1 \in Acquires
      BY <1>0, <1>9, <2>5, NewShareFacts DEF NewShareAt
    <2>7. callback'[acquired + 1] = "connect"
      <3>1. callback' = [callback EXCEPT ![acquired + 1] = "connect"]
        BY <1>9 DEF AcquireSlotAt, PlaceShare
      <3>2. callback \in [Acquires -> {"none", "connect", "disconnect"}]
        BY <1>0 DEF TypeOK
      <3> QED
        BY <2>6, <3>1, <3>2
    <2>8. ASSUME NEW k \in Used(i)' PROVE callback'[shares'[i][k]] = "connect"
      <3>1. k = 1
        BY <2>4, <2>6, <2>8 DEF IsPlaced
      <3>2. shares'[i][k] = acquired + 1
        BY <2>5, <2>6, <3>1 DEF IsPlaced
      <3> QED
        BY <2>7, <3>2
    <2>9. loop.op = "refuse" /\ loop.slot = i /\ loop.object = client[i]
      BY <1>4 DEF Loop
    <2>10. ItemSound(loop)'
      BY <2>3, <2>8, <2>9 DEF ItemSound
    <2>11. NewSound(<<leave, loop>>)
      BY <1>6, <2>10, TwoAreSound
    <2> QED
      BY <1>0, <1>3, <2>1, <2>11, SoundStep
  <1> QED
    BY <1>7, <1>8, <1>9

LEMMA SoundReleases ==
    ASSUME LateInv, Guarded, NEW a \in Acquires, NEW force \in BOOLEAN,
           NEW i \in Slots, NEW k \in Places, ReleaseAt(a, force, i, k)
    PROVE  SoundInv'
  <1>0. TypeOK /\ StackInv /\ SharesAreCounted
    BY DEF LateInv, IInv
  <1>1. ~non_reentrant
    BY DEF ReleaseAt
  <1>2. Len(stack) = 0
    BY <1>0, <1>1, UserFinds
  <1>3. OldSound(0)
    BY <1>2 DEF OldSound
  <1>4. client' = client
    BY DEF ReleaseAt, ReleaseShare
  <1>5. PICK leave, loop, retire : /\ leave = Leave /\ loop = Loop("force", i, 1, "Primary")
                                   /\ retire = Retire(i, TRUE)
    OBVIOUS
  <1>6. Plain(leave)
    BY <1>5 DEF Plain, Leave
  <1>7. loop.op = "force" /\ loop.slot = i /\ loop.object = client[i]
    BY <1>5 DEF Loop
  <1>8. retire.op = "retire" /\ retire.slot = i /\ retire.object = client[i]
    BY <1>5 DEF Retire
  <1>9. ItemSound(leave)' /\ ItemSound(loop)' /\ ItemSound(retire)'
    <2>1. ItemSound(leave)'
      BY <1>6, PlainIsSound
    <2>2. ItemSound(loop)'
      BY <1>4, <1>7 DEF ItemSound
    <2>3. ItemSound(retire)'
      BY <1>4, <1>8 DEF ItemSound
    <2> QED
      BY <2>1, <2>2, <2>3
  <1>10. NewSound(<<leave, loop, retire>>) /\ NewSound(<<leave, retire>>)
    BY <1>9, TwoAreSound, ThreeAreSound
  <1>11. Becomes(0, <<leave, loop, retire>>) \/ Becomes(0, <<leave, retire>>)
    BY <1>0, <1>2, <1>5, ReleaseStack
  <1> QED
    BY <1>0, <1>3, <1>10, <1>11, SoundStep

\* The top of the stack is sound too.
LEMMA TopSound ==
    ASSUME TypeOK, SoundInv, Guarded, stack # <<>>
    PROVE  ItemSound(Top)
  <1>1. Len(stack) \in 1..Len(stack) /\ Top = stack[Len(stack)]
    BY StackTypes, TopType
  <1> QED
    BY <1>1 DEF SoundInv

LEMMA SoundDrops ==
    ASSUME LateInv, Guarded, DropShare, shares[Top.slot][Top.place] # None
    PROVE  SoundInv'
  <1>0. TypeOK /\ StackInv /\ SoundInv /\ SharesAreCounted /\ PlacesInv
    BY DEF LateInv, IInv
  <1>1. PICK i \in Slots, k \in Places : i = Top.slot /\ k = Top.place
    BY <1>0, DropItem DEF DropShare
  <1>2. /\ k \in Used(i) /\ GivesUp(i, k)
        /\ Becomes(Len(stack) - 1, <<Retire(i, FALSE)>>)
    BY <1>0, <1>1, ReleaseGivesUp, DropShareStack DEF DropShare, Used
  <1>3. client' = client
    BY <1>2 DEF GivesUp
  <1>4. PICK retire : retire = Retire(i, FALSE)
    OBVIOUS
  <1>5. retire.op = "retire" /\ retire.slot = i /\ retire.object = client[i]
    BY <1>4 DEF Retire
  <1>6. ItemSound(retire)'
    BY <1>3, <1>5 DEF ItemSound
  <1>7. NewSound(<<retire>>)
    BY <1>6, OneIsSound
  <1>8. OldSound(Len(stack) - 1)
    BY <1>0, <1>2, GivesUpFrame, OldStays
  <1> QED
    BY <1>0, <1>2, <1>4, <1>7, <1>8, SoundStep

LEMMA SoundTells ==
    ASSUME LateInv, Guarded, NEW i \in Slots, NEW k \in Places,
           TellConnected(i, k) \/ TellFailed(i, k)
    PROVE  SoundInv'
  <1>0. TypeOK /\ StackInv /\ SoundInv /\ PlacesInv
    BY DEF LateInv, IInv
  <1>1. LoopAt({"accept"}, i, k) \/ LoopAt({"refuse"}, i, k)
    BY DEF TellConnected, TellFailed
  <1>2. /\ stack # <<>> /\ Top \in Items /\ Top.op \in {"accept", "refuse"} /\ Top.slot = i
        /\ k \in Used(i) /\ k >= Top.place /\ client[i] = Top.object
        /\ \A m \in Used(i) : m >= Top.place => k <= m
    BY <1>0, <1>1, LoopItem DEF Loops
  <1>3. ItemSound(Top)
    BY <1>0, <1>2, TopSound
  <1>4. PICK next : next = NextPlace(k)
    OBVIOUS
  <1>5. next.op = Top.op /\ next.slot = i /\ next.object = client[i] /\ next.place = k + 1
    BY <1>2, <1>4, NextPlaceType DEF Loops
  <1>6. UNCHANGED <<client, shares>>
    BY DEF TellConnected, TellFailed
  <1>7. Used(i)' = Used(i) /\ k \in Nat /\ \A m \in Used(i) : m \in Nat
    BY <1>6 DEF Used, Places
  <1>8. ASSUME NEW m \in Used(i), m >= k + 1
        PROVE  callback'[shares[i][m]] = "connect"
    <2>1. m # k /\ m >= Top.place
      <3>1. Top.place \in Nat
        BY <1>2, ItemTypes DEF Loops
      <3> QED
        BY <1>2, <1>7, <1>8, <3>1
    <2>2. callback[shares[i][m]] = "connect"
      BY <1>2, <1>3, <2>1 DEF ItemSound
    <2>3. SetsCallback(i, k)
      BY DEF TellConnected, TellFailed, SetsCallback
    <2>4. callback'[shares[i][m]] = callback[shares[i][m]]
      BY <1>0, <1>2, <2>1, <2>3, OtherCallbacks
    <2> QED
      BY <2>2, <2>4
  <1>9. ItemSound(next)'
    BY <1>2, <1>5, <1>6, <1>7, <1>8 DEF ItemSound
  <1>10. OldSound(Len(stack) - 1)
    BY <1>0, <1>2, PlainBelow
  <1>11. CASE TellConnected(i, k)
    <2>1. Becomes(Len(stack) - 1, <<next>>)
      BY <1>0, <1>4, <1>11, TellConnectedStack
    <2>2. NewSound(<<next>>)
      BY <1>9, OneIsSound
    <2> QED
      BY <1>0, <1>10, <2>1, <2>2, SoundStep
  <1>12. CASE TellFailed(i, k)
    <2>1. PICK drop : drop = Drop(i, k)
      OBVIOUS
    <2>2. drop.op = "drop"
      BY <2>1 DEF Drop
    <2>3. ItemSound(drop)'
      BY <2>2 DEF ItemSound
    <2>4. Becomes(Len(stack) - 1, <<next, drop>>)
      BY <1>0, <1>4, <1>12, <2>1, TellFailedStack
    <2>5. NewSound(<<next, drop>>)
      BY <1>9, <2>3, TwoAreSound
    <2> QED
      BY <1>0, <1>10, <2>4, <2>5, SoundStep
  <1> QED
    BY <1>11, <1>12

LEMMA SoundTellsClosed ==
    ASSUME LateInv, Guarded, NEW i \in Slots, NEW k \in Places, TellClosed(i, k)
    PROVE  SoundInv'
  <1>0. TypeOK /\ StackInv /\ SoundInv /\ SharesAreCounted
    BY DEF LateInv, IInv
  <1>1. LoopAt({"close", "force"}, i, k)
    BY DEF TellClosed
  <1>2. /\ stack # <<>> /\ Top \in Items /\ Top.op \in {"close", "force"} /\ Top.slot = i
        /\ client[i] = Top.object
    BY <1>0, <1>1, LoopItem DEF Loops
  <1>3. UNCHANGED client
    BY DEF TellClosed, ReleaseShare
  <1>4. PICK next, retire : next = NextPlace(k) /\ retire = Retire(i, Top.op = "force")
    OBVIOUS
  <1>5. next.op = Top.op /\ next.slot = i /\ next.object = client[i]
    BY <1>2, <1>4, NextPlaceType DEF Loops
  <1>6. retire.op = "retire" /\ retire.slot = i /\ retire.object = client[i]
    BY <1>4 DEF Retire
  <1>7. ItemSound(next)'
    BY <1>2, <1>3, <1>5 DEF ItemSound
  <1>8. ItemSound(retire)'
    BY <1>3, <1>6 DEF ItemSound
  <1>9. NewSound(<<next, retire>>)
    BY <1>7, <1>8, TwoAreSound
  <1>10. OldSound(Len(stack) - 1)
    BY <1>0, <1>2, PlainBelow
  <1>11. Becomes(Len(stack) - 1, <<next, retire>>)
    BY <1>0, <1>4, TellClosedStack
  <1> QED
    BY <1>0, <1>9, <1>10, <1>11, SoundStep

\* While its client connects, the shares of a slot wait to be told.
LEMMA SharesWait ==
    ASSUME LateInv, Guarded, stack # <<>>, Top.op = "tick",
           NEW i \in Slots, link[i] \in {"fresh", "resolved"}
    PROVE  \A k \in Used(i) : callback[shares[i][k]] = "connect"
  <1>0. TypeOK /\ StackInv /\ ProvidedInv
    BY DEF LateInv, IInv
  <1>1. SUFFICES ASSUME NEW k \in Used(i) PROVE callback[shares[i][k]] = "connect"
    OBVIOUS
  <1>2. ~Pending(Deeds, i, k)
    <2> SUFFICES ASSUME NEW n \in 1..Len(stack), stack[n].op \in Deeds PROVE FALSE
      BY DEF Pending
    <2>1. stack[n] # Top /\ n # Len(stack)
      BY <1>0, StackTypes, TopType DEF Deeds
    <2>2. stack[n].op \in {"leave", "tick", "receive"}
      BY <1>0, <2>1, BelowLoops
    <2> QED
      BY <2>2 DEF Deeds
  <1> QED
    BY <1>0, <1>2 DEF ProvidedInv, Provided, Following

\* The client of slot i connects.
LEMMA SoundConnects ==
    ASSUME LateInv, Guarded, NEW i \in Slots, ClientConnects(i)
    PROVE  SoundInv'
  <1>0. TypeOK /\ StackInv /\ LinkInv
    BY DEF LateInv, IInv
  <1>1. /\ link[i] \in {"fresh", "resolved"} /\ Top.op = "tick" /\ stack # <<>>
        /\ Becomes(Len(stack) - 1,
                   <<TickSlot(i + 1), Receive(i), Loop("accept", i, 1, "Primary")>>)
    BY <1>0, ClientConnectsFacts, TickItem DEF ClientConnects, ClientTicks, TickAt
  <1>2. UNCHANGED <<client, shares, callback>>
    BY DEF ClientConnects, slotVars
  <1>3. \A k \in Used(i) : callback[shares[i][k]] = "connect"
    BY <1>1, SharesWait
  <1>4. PICK tick, receive, loop : /\ tick = TickSlot(i + 1) /\ receive = Receive(i)
                                   /\ loop = Loop("accept", i, 1, "Primary")
    OBVIOUS
  <1>5. Plain(tick) /\ Plain(receive)
    BY <1>4 DEF Plain, TickSlot, Receive
  <1>6. loop.op = "accept" /\ loop.slot = i /\ loop.object = client[i]
    BY <1>4 DEF Loop
  <1>7. ItemSound(loop)'
    <2>1. Used(i)' = Used(i)
      BY <1>2 DEF Used
    <2> QED
      BY <1>2, <1>3, <1>6, <2>1 DEF ItemSound
  <1>8. NewSound(<<tick, receive, loop>>)
    BY <1>5, <1>7, PlainIsSound, ThreeAreSound
  <1>9. OldSound(Len(stack) - 1)
    BY <1>0, <1>1, PlainBelow
  <1>10. Becomes(Len(stack) - 1, <<tick, receive, loop>>)
    BY <1>1, <1>4
  <1> QED
    BY <1>0, <1>8, <1>9, <1>10, SoundStep

\* The client of slot i fails or loses its connection, in tick() or in its recv_hook().
LEMMA SoundReports ==
    ASSUME LateInv, Guarded, NEW i \in Slots, NEW op \in {"refuse", "close"}, Closes(i),
           stack # <<>>, Top.op \in {"tick", "receive"},
           op = "refuse" => Top.op = "tick" /\ link[i] \in {"fresh", "resolved"},
           \/ Becomes(Len(stack) - 1, <<TickSlot(i + 1), Loop(op, i, 1, "Primary")>>)
           \/ Becomes(Len(stack) - 1, <<Loop(op, i, 1, "Primary")>>)
    PROVE  SoundInv'
  <1>0. TypeOK /\ StackInv
    BY DEF LateInv, IInv
  <1>1. UNCHANGED <<client, shares, callback>>
    BY DEF Closes, slotVars
  <1>2. ASSUME op = "refuse" PROVE \A k \in Used(i) : callback[shares[i][k]] = "connect"
    BY <1>2, SharesWait
  <1>3. PICK tick, loop : tick = TickSlot(i + 1) /\ loop = Loop(op, i, 1, "Primary")
    OBVIOUS
  <1>4. Plain(tick)
    BY <1>3 DEF Plain, TickSlot
  <1>5. loop.op = op /\ loop.slot = i /\ loop.object = client[i]
    BY <1>3 DEF Loop
  <1>6. ItemSound(loop)'
    <2>1. Used(i)' = Used(i)
      BY <1>1 DEF Used
    <2> QED
      BY <1>1, <1>2, <1>5, <2>1 DEF ItemSound
  <1>7. NewSound(<<tick, loop>>) /\ NewSound(<<loop>>)
    BY <1>4, <1>6, PlainIsSound, OneIsSound, TwoAreSound
  <1>8. OldSound(Len(stack) - 1)
    BY <1>0, PlainBelow
  <1>9. Becomes(Len(stack) - 1, <<tick, loop>>) \/ Becomes(Len(stack) - 1, <<loop>>)
    BY <1>3
  <1> QED
    BY <1>0, <1>7, <1>8, <1>9, SoundStep

\* StepCases with the answers that are late or fail told apart from the others.
LateCases ==
    \/ UNCHANGED <<slotVars, attempt, link, goal, told, stack, non_reentrant>>
    \/ PopsQuietly
    \/ Tick
    \/ \E h \in Hosts, i \in Slots, k \in Places : AcquireShareAt(h, i, k)
    \/ \E h \in Hosts, i \in Slots : AcquireSlotAt(h, i)
    \/ \E a \in Acquires, force \in BOOLEAN, i \in Slots, k \in Places : ReleaseAt(a, force, i, k)
    \/ RetireSlot
    \/ DropShare /\ shares[Top.slot][Top.place] # None
    \/ \E i \in Slots, k \in Places :
           TellConnected(i, k) \/ TellFailed(i, k) \/ TellClosed(i, k)
    \/ \E i \in Slots : TickDelete(i) \/ ClientWaits(i) \/ ClientConnects(i)
                            \/ ClientFails(i) \/ ClientDisconnects(i)
    \/ ClientReceives /\ ~UNCHANGED <<attempt, link>>
    \/ \E r \in resolves, i \in Slots : Answer(r) /\ AnswerFailure(r, i)
    \/ \E r \in resolves, i \in Slots : Answer(r) /\ AnswerAddress(r, i)

LEMMA LateSteps ==
    ASSUME LateInv, [Next]_vars
    PROVE  LateCases
  <1>1. TypeOK /\ StackInv /\ SharesAreCounted
    BY DEF LateInv, IInv
  <1>2. CASE IdleStep
    BY <1>1, <1>2, IdleFacts DEF LateCases
  <1>3. CASE ~IdleStep
    BY <1>1, <1>3, StepCases DEF LateCases
  <1> QED
    BY <1>2, <1>3

LEMMA GuardedKept ==
    ASSUME LateInv, Guarded, [Next]_vars
    PROVE  SoundInv'
  <1>0. TypeOK /\ StackInv /\ SoundInv /\ SharesAreCounted /\ LinkInv /\ PlacesInv
    BY DEF LateInv, IInv
  <1>1. LateCases
    BY LateSteps
  <1>2. CASE UNCHANGED <<slotVars, attempt, link, goal, told, stack, non_reentrant>>
    <2>1. SoundFrame /\ Becomes(Len(stack), <<>>)
      BY <1>0, <1>2, QuietFrame, KeepStep
    <2> QED
      BY <1>0, <2>1, OldStays, NoneIsSound, SoundStep
  <1>3. CASE PopsQuietly
    <2>1. SoundFrame /\ Becomes(Len(stack) - 1, <<>>)
      BY <1>0, <1>3, PopsQuietlyFacts, QuietFrame
    <2> QED
      BY <1>0, <2>1, OldStays, NoneIsSound, SoundStep
  <1>4. CASE Tick
    <2>1. SoundFrame /\ Becomes(Len(stack), <<Leave, TickSlot(1)>>)
      BY <1>0, <1>4, TickFacts, QuietFrame
    <2>2. PICK leave, tick : leave = Leave /\ tick = TickSlot(1)
      OBVIOUS
    <2>3. Plain(leave) /\ Plain(tick)
      BY <2>2 DEF Plain, Leave, TickSlot
    <2>4. NewSound(<<leave, tick>>)
      BY <2>3, PlainIsSound, TwoAreSound
    <2>5. Becomes(Len(stack), <<leave, tick>>)
      BY <2>1, <2>2
    <2> QED
      BY <1>0, <2>1, <2>4, <2>5, OldStays, SoundStep
  <1>5. CASE \E h \in Hosts, i \in Slots, k \in Places : AcquireShareAt(h, i, k)
    BY <1>5, SoundNew
  <1>6. CASE \E h \in Hosts, i \in Slots : AcquireSlotAt(h, i)
    BY <1>6, SoundNew
  <1>7. ASSUME NEW a \in Acquires, NEW force \in BOOLEAN, NEW i \in Slots, NEW k \in Places,
               ReleaseAt(a, force, i, k)
        PROVE  SoundInv'
    BY <1>7, SoundReleases
  <1>8. CASE RetireSlot
    <2>1. PICK i \in Slots : i = Top.slot
      BY <1>0, <1>8, RetireSlotFacts
    <2>2. Retires(i, Top.disconnect) /\ Becomes(Len(stack) - 1, <<>>)
      BY <1>0, <1>8, <2>1, RetireSlotFacts
    <2>3. SoundFrame
      BY <2>2 DEF Retires, SoundFrame, Used
    <2> QED
      BY <1>0, <2>2, <2>3, OldStays, NoneIsSound, SoundStep
  <1>9. CASE DropShare /\ shares[Top.slot][Top.place] # None
    BY <1>9, SoundDrops
  <1>10. ASSUME NEW i \in Slots, NEW k \in Places,
                TellConnected(i, k) \/ TellFailed(i, k) \/ TellClosed(i, k)
         PROVE  SoundInv'
    BY <1>10, SoundTells, SoundTellsClosed
  <1>11. ASSUME NEW i \in Slots, TickDelete(i) \/ ClientWaits(i)
         PROVE  SoundInv'
    <2>1. Becomes(Len(stack) - 1, <<TickSlot(i + 1)>>) /\ Top.op = "tick" /\ stack # <<>>
      BY <1>0, <1>11, TickDeleteFacts, ClientWaitsFacts, TickItem
      DEF TickDelete, ClientWaits, ClientTicks, TickAt
    <2>2. PICK tick : tick = TickSlot(i + 1)
      OBVIOUS
    <2>3. Plain(tick)
      BY <2>2 DEF Plain, TickSlot
    <2>4. NewSound(<<tick>>)
      BY <2>3, PlainIsSound, OneIsSound
    <2>5. OldSound(Len(stack) - 1)
      BY <1>0, <2>1, PlainBelow
    <2> QED
      BY <1>0, <2>1, <2>2, <2>4, <2>5, SoundStep
  <1>12. ASSUME NEW i \in Slots, ClientConnects(i)
         PROVE  SoundInv'
    BY <1>12, SoundConnects
  <1>13. ASSUME NEW i \in Slots, ClientFails(i) \/ ClientDisconnects(i)
         PROVE  SoundInv'
    <2>1. stack # <<>>
      BY <1>0, <1>13, TickItem DEF ClientFails, ClientDisconnects, ClientTicks, TickAt
    <2> QED
      BY <1>0, <1>13, <2>1, ClientReportsFacts, SoundReports
  <1>14. CASE ClientReceives /\ ~UNCHANGED <<attempt, link>>
    <2>1. stack # <<>>
      BY <1>0, <1>14, ReceiveItem DEF ClientReceives
    <2> QED
      BY <1>0, <1>14, <2>1, ReceiveClosesFacts, SoundReports
  <1>15. ASSUME NEW r \in resolves, NEW i \in Slots, Answer(r), AnswerFailure(r, i)
         PROVE  SoundInv'
    <2>1. PICK loop : loop = Loop("refuse", i, 1, "Primary")
      OBVIOUS
    <2>2. Becomes(0, <<loop>>) /\ <<loop>>[1] = loop /\ loop.op = "refuse"
      BY <1>0, <1>15, <2>1, AnswerFailureFacts DEF Loop
    <2> QED
      BY <1>0, <2>2, LateIsLowest
  <1>16. ASSUME NEW r \in resolves, NEW i \in Slots, Answer(r), AnswerAddress(r, i)
         PROVE  SoundInv'
    <2>1. SoundFrame /\ Becomes(Len(stack), <<>>)
      BY <1>0, <1>16, AnswerAddressFacts, QuietFrame DEF GetsOn
    <2> QED
      BY <1>0, <2>1, OldStays, NoneIsSound, SoundStep
  <1> QED
    BY <1>1, <1>2, <1>3, <1>4, <1>5, <1>6, <1>7, <1>8, <1>9, <1>10, <1>11, <1>12, <1>13, <1>14,
       <1>15, <1>16
    DEF LateCases

\* Until a late failure is over it is the lowest on the stack, whatever is called meanwhile.
LEMMA UnguardedKept ==
    ASSUME LateInv, ~Guarded, [Next]_vars
    PROVE  SoundInv'
  <1>0. TypeOK /\ StackInv /\ SharesAreCounted /\ LinkInv
    BY DEF LateInv, IInv
  <1>1. LateCases
    BY LateSteps
  <1>2. stack # <<>> /\ Len(stack) # 0
    <2>1. stack # <<>>
      BY DEF Guarded
    <2> QED
      BY <1>0, <2>1, StackTypes, TopType
  <1>3. ASSUME NEW items, Becomes(Len(stack), items) PROVE SoundInv'
    BY <1>0, <1>2, <1>3, LateIsLowest
  <1>4. ASSUME Top.op # "refuse" PROVE Len(stack) - 1 # 0
    <2>1. CASE Len(stack) = 1
      <3>1. Top = stack[1]
        BY <1>0, <1>2, <2>1, StackTypes, TopType
      <3> QED
        BY <1>0, <1>2, <1>4, <3>1 DEF StackInv, Guarded
    <2>2. CASE Len(stack) # 1
      BY <1>0, <2>2, StackTypes
    <2> QED
      BY <2>1, <2>2
  <1>5. ASSUME NEW items, Becomes(Len(stack) - 1, items),
               Top.op # "refuse" \/ items = <<>> \/ items[1].op = "refuse"
        PROVE  SoundInv'
    <2>1. CASE Len(stack) - 1 # 0
      BY <1>0, <1>5, <2>1, LateIsLowest
    <2>2. CASE Len(stack) - 1 = 0
      <3>1. items = <<>> \/ items[1].op = "refuse"
        BY <1>4, <1>5, <2>2
      <3>2. Becomes(0, items)
        BY <1>5, <2>2
      <3> QED
        BY <1>0, <3>1, <3>2, LateIsLowest
    <2> QED
      BY <2>1, <2>2
  <1>6. CASE \/ UNCHANGED <<slotVars, attempt, link, goal, told, stack, non_reentrant>>
             \/ Tick
             \/ \E h \in Hosts, i \in Slots, k \in Places : AcquireShareAt(h, i, k)
             \/ \E h \in Hosts, i \in Slots : AcquireSlotAt(h, i)
             \/ \E a \in Acquires, force \in BOOLEAN, i \in Slots, k \in Places :
                    ReleaseAt(a, force, i, k)
             \/ \E r \in resolves, i \in Slots : Answer(r) /\ AnswerAddress(r, i)
    <2>1. \E items : Becomes(Len(stack), items)
      <3>1. CASE UNCHANGED <<slotVars, attempt, link, goal, told, stack, non_reentrant>>
        BY <1>0, <3>1, KeepStep
      <3>2. CASE Tick
        BY <1>0, <3>2, TickFacts
      <3>3. CASE \E h \in Hosts, i \in Slots, k \in Places : AcquireShareAt(h, i, k)
        BY <1>0, <3>3, AcquireShareStack
      <3>4. CASE \E h \in Hosts, i \in Slots : AcquireSlotAt(h, i)
        BY <1>0, <3>4, AcquireSlotStack
      <3>5. CASE \E a \in Acquires, force \in BOOLEAN, i \in Slots, k \in Places :
                    ReleaseAt(a, force, i, k)
        BY <1>0, <3>5, ReleaseStack
      <3>6. CASE \E r \in resolves, i \in Slots : Answer(r) /\ AnswerAddress(r, i)
        BY <1>0, <3>6, AnswerAddressFacts
      <3> QED
        BY <1>6, <3>1, <3>2, <3>3, <3>4, <3>5, <3>6
    <2> QED
      BY <1>3, <2>1
  <1>7. CASE PopsQuietly
    BY <1>0, <1>5, <1>7, PopsQuietlyFacts
  <1>8. CASE RetireSlot
    BY <1>0, <1>5, <1>8, RetireSlotFacts
  <1>9. CASE DropShare /\ shares[Top.slot][Top.place] # None
    <2>1. Becomes(Len(stack) - 1, <<Retire(Top.slot, FALSE)>>) /\ Top.op = "drop"
      BY <1>0, <1>9, DropShareStack DEF DropShare, Doing
    <2> QED
      BY <1>5, <2>1
  <1>10. ASSUME NEW i \in Slots, NEW k \in Places, TellConnected(i, k)
         PROVE  SoundInv'
    <2>1. LoopAt({"accept"}, i, k)
      BY <1>10 DEF TellConnected
    <2>2. Top.op = "accept"
      BY <1>0, <2>1, LoopItem DEF Loops
    <2> QED
      BY <1>0, <1>5, <1>10, <2>2, TellConnectedStack
  <1>11. ASSUME NEW i \in Slots, NEW k \in Places, TellClosed(i, k)
         PROVE  SoundInv'
    <2>1. LoopAt({"close", "force"}, i, k)
      BY <1>11 DEF TellClosed
    <2>2. Top.op \in {"close", "force"}
      BY <1>0, <2>1, LoopItem DEF Loops
    <2> QED
      BY <1>0, <1>5, <1>11, <2>2, TellClosedStack
  <1>12. ASSUME NEW i \in Slots, NEW k \in Places, TellFailed(i, k)
         PROVE  SoundInv'
    <2>1. LoopAt({"refuse"}, i, k)
      BY <1>12 DEF TellFailed
    <2>2. Top \in Items /\ Top.op = "refuse"
      BY <1>0, <2>1, LoopItem DEF Loops
    <2>3. PICK next, drop : next = NextPlace(k) /\ drop = Drop(i, k)
      OBVIOUS
    <2>4. next.op = "refuse" /\ <<next, drop>>[1] = next
      BY <2>2, <2>3, NextPlaceType DEF Loops
    <2>5. Becomes(Len(stack) - 1, <<next, drop>>)
      BY <1>0, <1>12, <2>3, TellFailedStack
    <2> QED
      BY <1>5, <2>4, <2>5
  <1>13. ASSUME NEW i \in Slots,
                \/ TickDelete(i) \/ ClientWaits(i) \/ ClientConnects(i)
                \/ ClientFails(i) \/ ClientDisconnects(i)
         PROVE  SoundInv'
    <2>1. Top.op = "tick"
      BY <1>13 DEF TickDelete, ClientWaits, ClientConnects, ClientFails, ClientDisconnects,
                   ClientTicks, TickAt, Doing
    <2>2. \E items : Becomes(Len(stack) - 1, items)
      BY <1>0, <1>13, TickDeleteFacts, ClientWaitsFacts, ClientConnectsFacts, ClientReportsFacts
    <2> QED
      BY <1>5, <2>1, <2>2
  <1>14. CASE ClientReceives /\ ~UNCHANGED <<attempt, link>>
    BY <1>0, <1>5, <1>14, ReceiveClosesFacts
  <1>15. ASSUME NEW r \in resolves, NEW i \in Slots, Answer(r), AnswerFailure(r, i)
         PROVE  SoundInv'
    BY <1>0, <1>2, <1>15, AnswerFailureFacts
  <1> QED
    BY <1>1, <1>6, <1>7, <1>8, <1>9, <1>10, <1>11, <1>12, <1>13, <1>14, <1>15 DEF LateCases

-----------------------------------------------------------------------------
(* Every share is provided for.                                            *)

LEMMA PendingKept ==
    ASSUME TypeOK, NEW b, NEW items, Becomes(b, items), NEW ops, NEW i, NEW k, Pending(ops, i, k),
           \/ b = Len(stack)
           \/ /\ b = Len(stack) - 1 /\ stack # <<>>
              /\ ~(Top.op \in ops /\ Top.slot = i /\ Top.place <= k)
    PROVE  Pending(ops, i, k)'
  <1>1. PICK n \in 1..Len(stack) : stack[n].op \in ops /\ stack[n].slot = i /\ stack[n].place <= k
    BY DEF Pending
  <1>2. n <= b
    <2>1. CASE b = Len(stack)
      BY <2>1, StackTypes
    <2>2. CASE b = Len(stack) - 1 /\ stack # <<>> /\ ~(Top.op \in ops /\ Top.slot = i /\ Top.place <= k)
      <3>1. stack[n] # Top
        BY <1>1, <2>2
      <3> QED
        BY <2>2, <3>1, BelowTop
    <2> QED
      BY <2>1, <2>2
  <1>3. n \in 1..Len(stack') /\ stack'[n] = stack[n]
    BY <1>2, ItemKept
  <1> QED
    BY <1>1, <1>3 DEF Pending

LEMMA PendingNew ==
    ASSUME TypeOK, NEW b, NEW items, Becomes(b, items), NEW ops, NEW i, NEW k,
           NEW n \in 1..Len(items), items[n].op \in ops, items[n].slot = i, items[n].place <= k
    PROVE  Pending(ops, i, k)'
  <1>1. b + n \in 1..Len(stack') /\ stack'[b + n] = items[n]
    BY ItemNew
  <1> QED
    BY <1>1 DEF Pending

\* What is pending for a share that a step leaves alone is still pending.
StillDue(i, k) ==
    /\ Pending(Removals, i, k) => Pending(Removals, i, k)'
    /\ Pending(Deeds, i, k) => Pending(Deeds, i, k)'

LEMMA StackKeeps ==
    ASSUME TypeOK, NEW b, NEW items, Becomes(b, items), NEW i, NEW k,
           \/ b = Len(stack)
           \/ /\ b = Len(stack) - 1 /\ stack # <<>>
              /\ \/ Top.op \notin {"accept", "refuse", "close", "drop"}
                 \/ Top.slot # i
                 \/ ~(Top.place <= k)
    PROVE  StillDue(i, k)
  BY PendingKept DEF StillDue, Removals, Deeds

\* The share at place k of slot i stays as it is, and so does what is to be done for it.
Untouched(i, k) ==
    /\ k \in Used(i)
    /\ shares'[i][k] = shares[i][k]
    /\ callback'[shares[i][k]] = callback[shares[i][k]]
    /\ attempt'[i] = attempt[i]
    /\ link'[i] = link[i] \/ {link[i], link'[i]} \cap {"closed", "connected"} = {}
    /\ StillDue(i, k)

LEMMA UntouchedProvided ==
    ASSUME ProvidedInv, NEW i \in Slots, NEW k, Untouched(i, k)
    PROVE  Provided(i, k)'
  <1>1. Provided(i, k) /\ StillDue(i, k)
    BY DEF ProvidedInv, Untouched
  <1>2. attempt'[i] = None => Pending(Removals, i, k)'
    BY <1>1 DEF Provided, StillDue, Untouched
  <1>3. Following(i, k) => Following(i, k)'
    BY DEF Following, Untouched
  <1>4. Following(i, k)' \/ Pending(Deeds, i, k)'
    BY <1>1, <1>3 DEF Provided, StillDue
  <1> QED
    BY <1>2, <1>4 DEF Provided

\* A step that changes no share or client.
LEMMA ProvidedQuiet ==
    ASSUME TypeOK, ProvidedInv, UNCHANGED <<shares, callback, attempt>>,
           \A i \in Slots : link'[i] = link[i] \/ {link[i], link'[i]} \cap {"closed", "connected"} = {},
           NEW b, NEW items, Becomes(b, items),
           \/ b = Len(stack)
           \/ /\ b = Len(stack) - 1 /\ stack # <<>>
              /\ Top.op \notin {"accept", "refuse", "close", "drop"}
    PROVE  ProvidedInv'
  <1> SUFFICES ASSUME NEW i \in Slots, NEW k \in Used(i)' PROVE Provided(i, k)'
    BY DEF ProvidedInv
  <1>1. k \in Used(i) /\ StillDue(i, k)
    BY StackKeeps DEF Used
  <1> QED
    BY <1>1, UntouchedProvided DEF Untouched

\* What dropping a share does not do, the loop below does for the places that follow.
LEMMA DropLeaves ==
    ASSUME TypeOK, StackInv, Doing("drop"), NEW items, Becomes(Len(stack) - 1, items),
           NEW i \in Slots, NEW k \in Places, Top.slot = i => Top.place # k
    PROVE  StillDue(i, k)
  <1>1. /\ stack # <<>> /\ Top.op = "drop" /\ Top.place \in Places /\ Len(stack) > 1
        /\ stack[Len(stack) - 1].op = "refuse" /\ stack[Len(stack) - 1].slot = Top.slot
        /\ stack[Len(stack) - 1].place = Top.place + 1
    BY DropItem
  <1>2. CASE Top.slot # i \/ ~(Top.place <= k)
    BY <1>1, <1>2, StackKeeps
  <1>3. CASE Top.slot = i /\ Top.place <= k
    <2>1. Top.place + 1 <= k
      BY <1>1, <1>3 DEF Places
    <2>2. PICK n \in 1..Len(stack) : n = Len(stack) - 1
      BY <1>1, StackTypes
    <2>3. n \in 1..Len(stack') /\ stack'[n] = stack[n]
      BY <2>2, ItemKept, StackTypes
    <2>4. Pending(Removals, i, k)'
      BY <1>1, <1>3, <2>1, <2>2, <2>3 DEF Pending, Removals
    <2>5. Pending(Deeds, i, k)'
      BY <1>1, <1>3, <2>1, <2>2, <2>3 DEF Pending, Deeds
    <2> QED
      BY <2>4, <2>5 DEF StillDue
  <1> QED
    BY <1>2, <1>3

\* A loop ends when there is no share left for it.
LEMMA ProvidedPops ==
    ASSUME LateInv, PopsQuietly
    PROVE  ProvidedInv'
  <1>0. TypeOK /\ StackInv /\ SharesAreCounted /\ ProvidedInv
    BY DEF LateInv, IInv
  <1>1. /\ UNCHANGED <<shares, callback, attempt, link>>
        /\ stack # <<>> /\ Top \in Items /\ Top = stack[Len(stack)]
        /\ Becomes(Len(stack) - 1, <<>>)
    BY <1>0, PopsQuietlyFacts DEF slotVars, clientVars
  <1>2. CASE Top.op \notin {"accept", "refuse", "close", "drop"}
    BY <1>0, <1>1, <1>2, ProvidedQuiet
  <1>3. CASE Top.op \in {"accept", "refuse", "close"}
    <2>1. LoopEnds
      BY <1>3 DEF PopsQuietly, LeaveScope, TickEnds, ClientReceives, DropShare, Doing
    <2>2. Top.slot \in Slots /\ Top.place \in 1..(MaxShares + 1)
      BY <1>1, <1>3, ItemTypes DEF Loops
    <2>3. ASSUME NEW k \in Used(Top.slot), Top.place <= k PROVE FALSE
      <3>1. k \in Places
        BY DEF Used
      <3>2. ~(Top.place > MaxShares)
        BY <2>2, <2>3, <3>1 DEF Places
      <3>3. Ahead = {}
        BY <2>1, <3>2 DEF LoopEnds
      <3> QED
        BY <2>2, <2>3, <3>1, <3>3 DEF Ahead, Places
    <2>4. ASSUME NEW i \in Slots, NEW k \in Used(i)' PROVE Provided(i, k)'
      <3>1. k \in Used(i)
        BY <1>1, <2>4 DEF Used
      <3>2. Top.slot # i \/ ~(Top.place <= k)
        BY <2>3, <3>1
      <3>3. StillDue(i, k)
        BY <1>0, <1>1, <3>2, StackKeeps
      <3> QED
        BY <1>0, <1>1, <3>1, <3>3, UntouchedProvided DEF Untouched
    <2> QED
      BY <2>4 DEF ProvidedInv
  <1>4. CASE Top.op = "drop"
    <2>1. DropShare /\ shares[Top.slot][Top.place] = None
      BY <1>4 DEF PopsQuietly, LeaveScope, LoopEnds, Looping, TickEnds, ClientReceives, Doing
    <2>2. ASSUME NEW i \in Slots, NEW k \in Used(i)' PROVE Provided(i, k)'
      <3>1. k \in Used(i)
        BY <1>1, <2>2 DEF Used
      <3>2. Top.slot = i => Top.place # k
        BY <2>1, <3>1 DEF Used
      <3>3. StillDue(i, k)
        BY <1>0, <1>1, <2>1, <3>1, <3>2, DropLeaves DEF DropShare, Used
      <3> QED
        BY <1>0, <1>1, <3>1, <3>3, UntouchedProvided DEF Untouched
    <2> QED
      BY <2>2 DEF ProvidedInv
  <1> QED
    BY <1>2, <1>3, <1>4

\* A new share has the callback that the client calls for, or is about to be refused.
LEMMA ProvidedNew ==
    ASSUME LateInv, NEW h \in Hosts, NEW i \in Slots, NEW k \in Places, NewShareAt(h, i, k)
    PROVE  ProvidedInv'
  <1>0. /\ TypeOK /\ StackInv /\ SharesAreCounted /\ ProvidedInv /\ LinkInv /\ PlacesInv
        /\ link \in [Slots -> Links] /\ attempt \in [Slots -> Objects]
        /\ callback \in [Acquires -> {"none", "connect", "disconnect"}]
    BY DEF LateInv, IInv, TypeOK
  <1>1. /\ IsPlaced(i, k, acquired + 1) /\ acquired + 1 \in Acquires /\ acquired \in Nat
    BY <1>0, NewShareFacts, UserValues
  <1>2. PICK items : Becomes(Len(stack), items)
    BY <1>0, AcquireShareStack, AcquireSlotStack DEF NewShareAt
  <1>3. /\ shares'[i][k] = acquired + 1
        /\ attempt'[i] # None
        /\ Following(i, k)' \/ Pending(Deeds, i, k)'
        /\ \A j \in Slots : j # i \/ Used(j) # {} => attempt'[j] = attempt[j] /\ link'[j] = link[j]
    <2>0. shares'[i][k] = acquired + 1
      BY <1>1 DEF IsPlaced
    <2>1. CASE AcquireShareAt(h, i, k)
      <3>1. UNCHANGED <<attempt, link>> /\ attempt[i] # None
        BY <2>1 DEF AcquireShareAt, clientVars, Matching, HasHost
      <3>2. link[i] # "closed"
        BY <1>0, <3>1 DEF LinkInv
      <3>3. \E held \in {"disconnect", "connect"} :
                /\ held = IF link[i] = "connected" THEN "disconnect" ELSE "connect"
                /\ callback' = [callback EXCEPT ![acquired + 1] = held]
        BY <2>1 DEF AcquireShareAt, PlaceShare, ToldAtOnce
      <3>4. callback'[acquired + 1] = IF link[i] = "connected" THEN "disconnect" ELSE "connect"
        BY <1>0, <1>1, <3>3
      <3>5. Following(i, k)'
        BY <2>0, <3>1, <3>2, <3>4 DEF Following
      <3> QED
        BY <2>0, <3>1, <3>5
    <2>2. CASE AcquireSlotAt(h, i)
      <3>1. Used(i) = {}
        BY <1>0, <2>2 DEF AcquireSlotAt, SharesAreCounted, Live
      <3>2. CASE attempt[i] = None
        <4>1. /\ attempt' = [attempt EXCEPT ![i] = acquired + 1]
              /\ link' = [link EXCEPT ![i] = "fresh"]
              /\ callback' = [callback EXCEPT ![acquired + 1] = "connect"]
          BY <2>2, <3>2 DEF AcquireSlotAt, PlaceShare
        <4>2. attempt'[i] = acquired + 1 /\ link'[i] = "fresh" /\ callback'[acquired + 1] = "connect"
          BY <1>0, <1>1, <4>1
        <4>3. Following(i, k)'
          BY <2>0, <4>2 DEF Following
        <4>4. \A j \in Slots : j # i \/ Used(j) # {} => attempt'[j] = attempt[j] /\ link'[j] = link[j]
          BY <1>0, <3>1, <4>1
        <4>5. attempt'[i] # None
          BY <1>1, <4>2 DEF None
        <4> QED
          BY <2>0, <4>3, <4>4, <4>5
      <3>3. CASE attempt[i] # None
        <4>1. UNCHANGED <<attempt, link>>
          BY <2>2, <3>3 DEF AcquireSlotAt
        <4>2. PICK leave, loop : leave = Leave /\ loop = Loop("refuse", i, 1, "Primary")
          OBVIOUS
        <4> DEFINE two == <<leave, loop>>
        <4>3. Becomes(Len(stack), two)
          BY <1>0, <2>2, <3>3, <4>2, AcquireSlotStack
        <4>4. Len(two) = 2 /\ two[2] = loop
          OBVIOUS
        <4>5. loop.op \in Deeds /\ loop.slot = i /\ loop.place <= k
          BY <4>2 DEF Loop, Deeds, Places
        <4> HIDE DEF two
        <4>6. 2 \in 1..Len(two) /\ two[2].op \in Deeds /\ two[2].slot = i /\ two[2].place <= k
          BY <4>4, <4>5
        <4>7. Pending(Deeds, i, k)'
          BY <1>0, <4>3, <4>6, PendingNew
        <4> QED
          BY <2>0, <3>3, <4>1, <4>7
      <3> QED
        BY <3>2, <3>3
    <2> QED
      BY <2>1, <2>2 DEF NewShareAt
  <1>4. ASSUME NEW j \in Slots, NEW m \in Used(j)' PROVE Provided(j, m)'
    <2>1. CASE j = i /\ m = k
      BY <1>3, <2>1 DEF Provided
    <2>2. CASE ~(j = i /\ m = k)
      <3>1. m \in Used(j) /\ m \in Places /\ shares'[j][m] = shares[j][m]
        BY <1>1, <2>2 DEF IsPlaced, Used
      <3>2. shares[j][m] \in Acquires /\ shares[j][m] # acquired + 1
        <4>1. shares[j][m] \in Acquires /\ shares[j][m] <= acquired
          BY <1>0, <3>1, UsedFacts DEF PlacesInv
        <4> QED
          BY <1>1, <4>1 DEF Acquires
      <3>3. callback'[shares[j][m]] = callback[shares[j][m]]
        BY <1>1, <3>2 DEF IsPlaced
      <3>4. attempt'[j] = attempt[j] /\ link'[j] = link[j]
        BY <1>3, <3>1
      <3>5. StillDue(j, m)
        BY <1>0, <1>2, StackKeeps
      <3> QED
        BY <1>0, <3>1, <3>3, <3>4, <3>5, UntouchedProvided DEF Untouched
    <2> QED
      BY <2>1, <2>2
  <1> QED
    BY <1>4 DEF ProvidedInv

\* When a share is given up the others stay as they are.
LEMMA ProvidedGivenUp ==
    ASSUME LateInv, NEW i \in Slots, NEW k \in Used(i), GivesUp(i, k), UNCHANGED clientVars,
           \A j \in Slots : \A m \in Used(j) : j # i \/ m # k => StillDue(j, m)
    PROVE  ProvidedInv'
  <1>0. TypeOK /\ SharesAreCounted /\ ProvidedInv /\ PlacesInv
    BY DEF LateInv, IInv
  <1>1. /\ Used(i)' = Used(i) \ {k}
        /\ \A j \in Slots : j # i => Used(j)' = Used(j)
        /\ \A j \in Slots : \A m \in Places : j # i \/ m # k => shares'[j][m] = shares[j][m]
    <2>1. Used(i)' = Used(i) \ {k}
      BY <1>0, GivesUpUsed
    <2>2. \A j \in Slots : j # i => Used(j)' = Used(j)
      BY <1>0, GivesUpUsed
    <2>3. ASSUME NEW j \in Slots, NEW m \in Places, j # i \/ m # k
          PROVE  shares'[j][m] = shares[j][m]
      <3>1. shares \in [Slots -> [Places -> Objects]]
        BY <1>0 DEF TypeOK
      <3>2. shares' = [shares EXCEPT ![i][k] = None]
        BY DEF GivesUp
      <3> QED
        BY <2>3, <3>1, <3>2
    <2> QED
      BY <2>1, <2>2, <2>3
  <1>2. ASSUME NEW j \in Slots, NEW m \in Used(j)' PROVE Provided(j, m)'
    <2>1. m \in Used(j) /\ (j # i \/ m # k)
      BY <1>1, <1>2
    <2>2. m \in Places
      BY <2>1 DEF Used
    <2>3. SetsCallback(i, k)
      BY DEF GivesUp, SetsCallback
    <2>4. callback'[shares[j][m]] = callback[shares[j][m]]
      BY <1>0, <2>1, <2>3, OtherCallbacks
    <2>5. shares'[j][m] = shares[j][m] /\ attempt'[j] = attempt[j] /\ link'[j] = link[j]
      BY <1>1, <2>1, <2>2 DEF clientVars
    <2> QED
      BY <1>0, <2>1, <2>4, <2>5, UntouchedProvided DEF Untouched
  <1> QED
    BY <1>2 DEF ProvidedInv

\* A loop that goes on behind the share it is at goes on for all that follow.
LEMMA LoopProvides ==
    ASSUME LateInv, NEW ops \in SUBSET Loops, NEW i \in Slots, NEW k \in Places, LoopAt(ops, i, k),
           NEW items, Becomes(Len(stack) - 1, items), 1 \in 1..Len(items), items[1] = NextPlace(k),
           NEW j \in Slots, NEW m \in Used(j), j # i \/ m # k
    PROVE  StillDue(j, m)
  <1>0. TypeOK /\ StackInv
    BY DEF LateInv, IInv
  <1>1. /\ stack # <<>> /\ Top \in Items /\ Top.op \in ops /\ Top.slot = i
        /\ k \in Used(i) /\ \A n \in Used(i) : n >= Top.place => k <= n
    BY <1>0, LoopItem
  <1>2. Top.place \in Nat
    BY <1>1, ItemTypes
  <1>3. items[1].op = Top.op /\ items[1].slot = i /\ items[1].place = k + 1
    BY <1>1, NextPlaceType
  <1>4. CASE i # j \/ ~(Top.place <= m)
    BY <1>0, <1>1, <1>4, StackKeeps
  <1>5. CASE i = j /\ Top.place <= m
    <2>1. m \in Nat /\ k \in Nat
      BY DEF Used, Places
    <2>2. k + 1 <= m
      BY <1>1, <1>2, <1>5, <2>1
    <2>3. ASSUME NEW all, Pending(all, j, m) PROVE Pending(all, j, m)'
      <3>1. CASE Top.op \in all
        BY <1>0, <1>3, <1>5, <2>2, <3>1, PendingNew
      <3>2. CASE Top.op \notin all
        BY <1>0, <1>1, <2>3, <3>2, PendingKept
      <3> QED
        BY <3>1, <3>2
    <2> QED
      BY <2>3 DEF StillDue
  <1> QED
    BY <1>4, <1>5

LEMMA ProvidedTellsClosed ==
    ASSUME LateInv, NEW i \in Slots, NEW k \in Places, TellClosed(i, k)
    PROVE  ProvidedInv'
  <1>0. TypeOK /\ StackInv /\ SharesAreCounted
    BY DEF LateInv, IInv
  <1>1. LoopAt({"close", "force"}, i, k) /\ UNCHANGED clientVars /\ GivesUp(i, k)
    BY ReleaseGivesUp DEF TellClosed
  <1>2. k \in Used(i)
    BY <1>0, <1>1, LoopItem DEF Loops
  <1> DEFINE items == <<NextPlace(k), Retire(i, Top.op = "force")>>
  <1>3. Becomes(Len(stack) - 1, items) /\ 1 \in 1..Len(items) /\ items[1] = NextPlace(k)
    BY <1>0, TellClosedStack
  <1> HIDE DEF items
  <1>4. {"close", "force"} \in SUBSET Loops
    BY DEF Loops
  <1>5. \A j \in Slots : \A m \in Used(j) : j # i \/ m # k => StillDue(j, m)
    BY <1>1, <1>3, <1>4, LoopProvides
  <1> QED
    BY <1>1, <1>2, <1>5, ProvidedGivenUp

\* The share that is told has the right callback then, or is about to be dropped.
LEMMA ProvidedTells ==
    ASSUME LateInv, NEW i \in Slots, NEW k \in Places, TellConnected(i, k) \/ TellFailed(i, k)
    PROVE  ProvidedInv'
  <1>0. /\ TypeOK /\ StackInv /\ PlacesInv /\ LinkInv /\ ProvidedInv /\ ConnectedInv
        /\ callback \in [Acquires -> {"none", "connect", "disconnect"}]
    BY DEF LateInv, IInv, TypeOK
  <1>1. UNCHANGED <<attempt, link, shares>> /\ SetsCallback(i, k)
    BY DEF TellConnected, TellFailed, clientVars, SetsCallback
  <1>2. LoopAt({"accept"}, i, k) \/ LoopAt({"refuse"}, i, k)
    BY DEF TellConnected, TellFailed
  <1>3. k \in Used(i) /\ shares[i][k] \in Acquires /\ stack # <<>> /\ Top.slot = i
        /\ Top = stack[Len(stack)]
    <2>1. k \in Used(i) /\ stack # <<>> /\ Top.slot = i /\ Top = stack[Len(stack)]
      BY <1>0, <1>2, LoopItem DEF Loops
    <2> QED
      BY <1>0, <2>1, UsedFacts
  <1>4. \A j \in Slots : \A m \in Used(j) : j # i \/ m # k => StillDue(j, m)
    <2>1. CASE TellConnected(i, k)
      <3> DEFINE items == <<NextPlace(k)>>
      <3>1. Becomes(Len(stack) - 1, items) /\ 1 \in 1..Len(items) /\ items[1] = NextPlace(k)
        BY <1>0, <2>1, TellConnectedStack
      <3> HIDE DEF items
      <3>2. LoopAt({"accept"}, i, k) /\ {"accept"} \in SUBSET Loops
        BY <2>1 DEF TellConnected, Loops
      <3> QED
        BY <3>1, <3>2, LoopProvides
    <2>2. CASE TellFailed(i, k)
      <3> DEFINE items == <<NextPlace(k), Drop(i, k)>>
      <3>1. Becomes(Len(stack) - 1, items) /\ 1 \in 1..Len(items) /\ items[1] = NextPlace(k)
        BY <1>0, <2>2, TellFailedStack
      <3> HIDE DEF items
      <3>2. LoopAt({"refuse"}, i, k) /\ {"refuse"} \in SUBSET Loops
        BY <2>2 DEF TellFailed, Loops
      <3> QED
        BY <3>1, <3>2, LoopProvides
    <2> QED
      BY <2>1, <2>2
  <1>5. Provided(i, k)'
    <2>1. CASE TellConnected(i, k)
      <3>1. link[i] = "connected"
        <4>1. LoopAt({"accept"}, i, k)
          BY <2>1 DEF TellConnected
        <4>2. Top.op = "accept"
          BY <1>0, <4>1, LoopItem DEF Loops
        <4>3. Len(stack) \in 1..Len(stack)
          BY <1>0, <1>3, StackTypes, TopType
        <4>4. AcceptRight(stack[Len(stack)])
          BY <1>0, <1>3, <4>2, <4>3, ConnectedParts
        <4> QED
          BY <1>3, <4>4 DEF AcceptRight
      <3>2. attempt[i] # None
        BY <1>0, <3>1 DEF LinkInv
      <3>3. callback'[shares[i][k]] = "disconnect"
        BY <1>0, <1>3, <2>1 DEF TellConnected
      <3>4. Following(i, k)'
        BY <1>1, <3>1, <3>3 DEF Following
      <3> QED
        BY <1>1, <3>2, <3>4 DEF Provided
    <2>2. CASE TellFailed(i, k)
      <3>1. Pending(Removals, i, k)' /\ Pending(Deeds, i, k)'
        <4> DEFINE items == <<NextPlace(k), Drop(i, k)>>
        <4>1. Becomes(Len(stack) - 1, items) /\ 2 \in 1..Len(items) /\ items[2] = Drop(i, k)
          BY <1>0, <2>2, TellFailedStack
        <4> HIDE DEF items
        <4>2. Drop(i, k).op = "drop" /\ Drop(i, k).slot = i /\ Drop(i, k).place = k
          BY DEF Drop
        <4>3. /\ items[2].op \in Removals /\ items[2].op \in Deeds
              /\ items[2].slot = i /\ items[2].place <= k
          BY <4>1, <4>2 DEF Removals, Deeds, Places
        <4> QED
          BY <1>0, <4>1, <4>3, PendingNew
      <3> QED
        BY <3>1 DEF Provided
    <2> QED
      BY <2>1, <2>2
  <1>6. ASSUME NEW j \in Slots, NEW m \in Used(j)' PROVE Provided(j, m)'
    <2>1. m \in Used(j)
      BY <1>1 DEF Used
    <2>2. CASE j = i /\ m = k
      BY <1>5, <2>2
    <2>3. CASE j # i \/ m # k
      <3>1. callback'[shares[j][m]] = callback[shares[j][m]]
        BY <1>0, <1>1, <1>3, <2>1, <2>3, OtherCallbacks
      <3> QED
        BY <1>0, <1>1, <1>4, <2>1, <2>3, <3>1, UntouchedProvided DEF Untouched
    <2> QED
      BY <2>2, <2>3
  <1> QED
    BY <1>6 DEF ProvidedInv

\* The client of slot i has something to report, which a new loop is to tell its shares.
LEMMA ProvidedReports ==
    ASSUME LateInv, NEW i \in Slots, NEW ops,
           UNCHANGED <<shares, callback>>,
           \A j \in Slots : j # i => attempt'[j] = attempt[j] /\ link'[j] = link[j],
           attempt'[i] = None => ops \subseteq Removals,
           ops \subseteq Deeds,
           NEW b, NEW items, Becomes(b, items), NEW n \in 1..Len(items),
           \/ b = Len(stack)
           \/ /\ b = Len(stack) - 1 /\ stack # <<>>
              /\ Top.op \notin {"accept", "refuse", "close", "drop"},
           items[n].op \in ops, items[n].slot = i, items[n].place = 1
    PROVE  ProvidedInv'
  <1>0. TypeOK /\ ProvidedInv
    BY DEF LateInv, IInv
  <1>1. ASSUME NEW j \in Slots, NEW k \in Used(j)' PROVE Provided(j, k)'
    <2>1. k \in Used(j) /\ 1 <= k
      BY <1>1 DEF Used, Places
    <2>2. CASE j = i
      <3>1. ASSUME NEW all, ops \subseteq all PROVE Pending(all, i, k)'
        <4>1. items[n].op \in all /\ items[n].slot = i /\ items[n].place <= k
          BY <2>1, <3>1
        <4> QED
          BY <1>0, <4>1, PendingNew
      <3> QED
        BY <2>2, <3>1 DEF Provided
    <2>3. CASE j # i
      <3>1. StillDue(j, k)
        BY <1>0, StackKeeps
      <3> QED
        BY <1>0, <2>1, <2>3, <3>1, UntouchedProvided DEF Untouched
    <2> QED
      BY <2>2, <2>3
  <1> QED
    BY <1>1 DEF ProvidedInv

\* So it has when it closes.
LEMMA ProvidedCloses ==
    ASSUME LateInv, NEW i \in Slots, NEW op \in {"refuse", "close"}, Closes(i),
           \/ /\ stack # <<>> /\ Top.op \in {"tick", "receive"}
              /\ \/ Becomes(Len(stack) - 1, <<TickSlot(i + 1), Loop(op, i, 1, "Primary")>>)
                 \/ Becomes(Len(stack) - 1, <<Loop(op, i, 1, "Primary")>>)
           \/ Len(stack) = 0 /\ Becomes(0, <<Loop(op, i, 1, "Primary")>>)
    PROVE  ProvidedInv'
  <1>1. /\ UNCHANGED <<shares, callback>>
        /\ \A j \in Slots : j # i => attempt'[j] = attempt[j] /\ link'[j] = link[j]
    BY DEF Closes, CloseClient, slotVars, LateInv, IInv, TypeOK
  <1>2. {op} \subseteq Removals /\ {op} \subseteq Deeds
    BY DEF Removals, Deeds
  <1>3. PICK b, items, n : /\ Becomes(b, items) /\ n \in 1..Len(items)
                           /\ items[n] = Loop(op, i, 1, "Primary")
                           /\ \/ b = Len(stack)
                              \/ /\ b = Len(stack) - 1 /\ stack # <<>>
                                 /\ Top.op \notin {"accept", "refuse", "close", "drop"}
    <2> DEFINE one == <<Loop(op, i, 1, "Primary")>>
               two == <<TickSlot(i + 1), Loop(op, i, 1, "Primary")>>
    <2>1. 1 \in 1..Len(one) /\ one[1] = Loop(op, i, 1, "Primary")
      OBVIOUS
    <2>2. 2 \in 1..Len(two) /\ two[2] = Loop(op, i, 1, "Primary")
      OBVIOUS
    <2>3. \/ /\ stack # <<>> /\ Top.op \notin {"accept", "refuse", "close", "drop"}
             /\ Becomes(Len(stack) - 1, two) \/ Becomes(Len(stack) - 1, one)
          \/ Len(stack) = 0 /\ Becomes(0, one)
      OBVIOUS
    <2> HIDE DEF one, two
    <2>4. CASE /\ stack # <<>> /\ Top.op \notin {"accept", "refuse", "close", "drop"}
               /\ Becomes(Len(stack) - 1, two)
      BY <2>2, <2>4
    <2>5. CASE /\ stack # <<>> /\ Top.op \notin {"accept", "refuse", "close", "drop"}
               /\ Becomes(Len(stack) - 1, one)
      BY <2>1, <2>5
    <2>6. CASE Len(stack) = 0 /\ Becomes(0, one)
      BY <2>1, <2>6
    <2> QED
      BY <2>3, <2>4, <2>5, <2>6
  <1>4. items[n].op \in {op} /\ items[n].slot = i /\ items[n].place = 1
    BY <1>3 DEF Loop
  <1> QED
    BY <1>1, <1>2, <1>3, <1>4, ProvidedReports

LEMMA ProvidedConnects ==
    ASSUME LateInv, NEW i \in Slots, ClientConnects(i)
    PROVE  ProvidedInv'
  <1>0. /\ TypeOK /\ StackInv /\ LinkInv /\ link \in [Slots -> Links]
    BY DEF LateInv, IInv, TypeOK
  <1>1. /\ UNCHANGED <<shares, callback, attempt>> /\ link' = [link EXCEPT ![i] = "connected"]
        /\ link[i] # "closed" /\ Top.op = "tick" /\ stack # <<>>
    BY <1>0, TickItem DEF ClientConnects, ClientTicks, TickAt, slotVars
  <1>2. attempt'[i] # None
    BY <1>0, <1>1 DEF LinkInv
  <1>3. \A j \in Slots : j # i => attempt'[j] = attempt[j] /\ link'[j] = link[j]
    BY <1>0, <1>1
  <1> DEFINE items == <<TickSlot(i + 1), Receive(i), Loop("accept", i, 1, "Primary")>>
  <1>4. /\ Becomes(Len(stack) - 1, items) /\ 3 \in 1..Len(items)
        /\ items[3] = Loop("accept", i, 1, "Primary")
    BY <1>0, ClientConnectsStack
  <1> HIDE DEF items
  <1>5. items[3].op \in {"accept"} /\ items[3].slot = i /\ items[3].place = 1
    BY <1>4 DEF Loop
  <1>6. {"accept"} \subseteq Deeds
    BY DEF Deeds
  <1> QED
    BY <1>1, <1>2, <1>3, <1>4, <1>5, <1>6, ProvidedReports

\* The client gets on without anything to report.
LEMMA ProvidedGetsOn ==
    ASSUME LateInv, NEW i \in Slots, NEW l \in {"resolved", "waiting"}, GetsOn(i, l),
           NEW b, NEW items, Becomes(b, items),
           \/ b = Len(stack)
           \/ b = Len(stack) - 1 /\ stack # <<>> /\ Top.op = "tick"
    PROVE  ProvidedInv'
  <1>0. TypeOK /\ ProvidedInv /\ link \in [Slots -> Links]
    BY DEF LateInv, IInv, TypeOK
  <1>1. /\ UNCHANGED <<shares, callback, attempt>> /\ link' = [link EXCEPT ![i] = l]
        /\ link[i] \notin {"closed", "connected"}
    BY DEF GetsOn, slotVars
  <1>2. {link[i], l} \cap {"closed", "connected"} = {}
    BY <1>1
  <1>3. link'[i] = l /\ \A j \in Slots : j # i => link'[j] = link[j]
    BY <1>0, <1>1
  <1>4. \A j \in Slots : link'[j] = link[j] \/ {link[j], link'[j]} \cap {"closed", "connected"} = {}
    BY <1>2, <1>3
  <1> QED
    BY <1>0, <1>1, <1>4, ProvidedQuiet

LEMMA ProvidedKept ==
    ASSUME LateInv, [Next]_vars
    PROVE  ProvidedInv'
  <1>0. /\ TypeOK /\ StackInv /\ SharesAreCounted /\ LinkInv /\ PlacesInv /\ ProvidedInv
        /\ attempt \in [Slots -> Objects] /\ link \in [Slots -> Links]
    BY DEF LateInv, IInv, TypeOK
  <1>1. LateCases
    BY LateSteps
  <1>2. CASE UNCHANGED <<slotVars, attempt, link, goal, told, stack, non_reentrant>>
    <2>1. Becomes(Len(stack), <<>>) /\ UNCHANGED <<shares, callback, attempt, link>>
      BY <1>0, <1>2, KeepStep DEF slotVars
    <2> QED
      BY <1>0, <2>1, ProvidedQuiet
  <1>3. CASE PopsQuietly
    BY <1>3, ProvidedPops
  <1>4. CASE Tick
    <2>1. \E items : Becomes(Len(stack), items)
      BY <1>0, <1>4, TickFacts
    <2>2. UNCHANGED <<shares, callback, attempt, link>>
      BY <1>4 DEF Tick, slotVars, clientVars
    <2> QED
      BY <1>0, <2>1, <2>2, ProvidedQuiet
  <1>5. ASSUME NEW h \in Hosts, NEW i \in Slots, NEW k \in Places, AcquireShareAt(h, i, k)
        PROVE  ProvidedInv'
    BY <1>5, ProvidedNew DEF NewShareAt
  <1>6. ASSUME NEW h \in Hosts, NEW i \in Slots, AcquireSlotAt(h, i)
        PROVE  ProvidedInv'
    <2>1. 1 \in Places
      BY DEF Places
    <2> QED
      BY <1>6, <2>1, ProvidedNew DEF NewShareAt
  <1>7. ASSUME NEW a \in Acquires, NEW force \in BOOLEAN, NEW i \in Slots, NEW k \in Places,
               ReleaseAt(a, force, i, k)
        PROVE  ProvidedInv'
    <2>1. k \in Used(i)
      BY <1>7 DEF ReleaseAt, Used, Acquires, None
    <2>2. GivesUp(i, k) /\ UNCHANGED clientVars
      BY <1>7, ReleaseGivesUp DEF ReleaseAt
    <2>3. \E items : Becomes(Len(stack), items)
      BY <1>0, <1>7, ReleaseStack
    <2>4. \A j \in Slots : \A m \in Used(j) : StillDue(j, m)
      BY <1>0, <2>3, StackKeeps
    <2> QED
      BY <2>1, <2>2, <2>4, ProvidedGivenUp
  <1>8. CASE RetireSlot
    <2>1. PICK i \in Slots, disconnect \in BOOLEAN : i = Top.slot /\ disconnect = Top.disconnect
      BY <1>0, <1>8, RetireSlotFacts, RetireItem DEF RetireSlot
    <2>2. /\ Retires(i, disconnect) /\ Top.op = "retire" /\ stack # <<>>
          /\ Becomes(Len(stack) - 1, <<>>)
      BY <1>0, <1>8, <2>1, RetireSlotFacts, RetireItem DEF RetireSlot
    <2>3. ASSUME NEW j \in Slots, NEW k \in Used(j)' PROVE Provided(j, k)'
      <3>1. k \in Used(j) /\ UNCHANGED <<shares, callback>>
        BY <2>2, <2>3 DEF Used, Retires
      <3>2. StillDue(j, k)
        BY <1>0, <2>2, StackKeeps
      <3>3. attempt'[j] = attempt[j] /\ link'[j] = link[j]
        <4>1. CASE share_count[i] = 0 /\ disconnect
          <5>1. Used(i) = {}
            <6>1. IsFiniteSet(Used(i)) /\ Cardinality(Used(i)) = 0
              BY <1>0, <4>1, UsedFacts DEF SharesAreCounted
            <6> QED
              BY <6>1, FS_EmptySet
          <5>2. j # i
            BY <3>1, <5>1
          <5> QED
            BY <1>0, <2>2, <4>1, <5>2 DEF Retires, CloseClient
        <4>2. CASE ~(share_count[i] = 0 /\ disconnect)
          BY <2>2, <4>2 DEF Retires, clientVars
        <4> QED
          BY <4>1, <4>2
      <3> QED
        BY <1>0, <3>1, <3>2, <3>3, UntouchedProvided DEF Untouched
    <2> QED
      BY <2>3 DEF ProvidedInv
  <1>9. CASE DropShare /\ shares[Top.slot][Top.place] # None
    <2>1. PICK i \in Slots, k \in Places : i = Top.slot /\ k = Top.place
      BY <1>0, <1>9, DropItem DEF DropShare
    <2>2. /\ k \in Used(i) /\ GivesUp(i, k) /\ UNCHANGED clientVars
          /\ \E items : Becomes(Len(stack) - 1, items)
      BY <1>0, <1>9, <2>1, ReleaseGivesUp, DropShareStack DEF DropShare, Used
    <2>3. ASSUME NEW j \in Slots, NEW m \in Used(j), j # i \/ m # k
          PROVE  StillDue(j, m)
      <3>1. m \in Places /\ (Top.slot = j => Top.place # m)
        BY <2>1, <2>3 DEF Used
      <3> QED
        BY <1>0, <1>9, <2>2, <3>1, DropLeaves DEF DropShare
    <2> QED
      BY <2>2, <2>3, ProvidedGivenUp
  <1>10. ASSUME NEW i \in Slots, NEW k \in Places,
                TellConnected(i, k) \/ TellFailed(i, k) \/ TellClosed(i, k)
         PROVE  ProvidedInv'
    BY <1>10, ProvidedTells, ProvidedTellsClosed
  <1>11. ASSUME NEW i \in Slots, TickDelete(i)
         PROVE  ProvidedInv'
    <2>1. /\ Deletes(i) /\ Top.op = "tick" /\ Becomes(Len(stack) - 1, <<TickSlot(i + 1)>>)
          /\ stack # <<>>
      BY <1>0, <1>11, TickDeleteFacts, TickItem DEF TickDelete, TickAt
    <2>2. ASSUME NEW j \in Slots, NEW k \in Used(j)' PROVE Provided(j, k)'
      <3>1. k \in Used(j) /\ UNCHANGED <<shares, callback>>
        BY <2>1, <2>2 DEF Used, Deletes
      <3>2. StillDue(j, k)
        BY <1>0, <2>1, StackKeeps
      <3>3. j # i
        BY <1>0, <2>1, <3>1 DEF Deletes, SharesAreCounted, Live
      <3>4. attempt'[j] = attempt[j] /\ link'[j] = link[j]
        BY <1>0, <2>1, <3>3 DEF Deletes, CloseClient
      <3> QED
        BY <1>0, <3>1, <3>2, <3>4, UntouchedProvided DEF Untouched
    <2> QED
      BY <2>2 DEF ProvidedInv
  <1>12. ASSUME NEW i \in Slots, ClientWaits(i)
         PROVE  ProvidedInv'
    <2>1. Becomes(Len(stack) - 1, <<TickSlot(i + 1)>>) /\ Top.op = "tick" /\ stack # <<>>
      BY <1>0, <1>12, ClientWaitsFacts, TickItem DEF ClientWaits, ClientTicks, TickAt
    <2>2. \/ GetsOn(i, "resolved") \/ GetsOn(i, "waiting")
          \/ UNCHANGED <<slotVars, clientVars, goal, told>>
      BY <1>0, <1>12, ClientWaitsFacts
    <2>3. CASE GetsOn(i, "resolved") \/ GetsOn(i, "waiting")
      BY <2>1, <2>3, ProvidedGetsOn
    <2>4. CASE UNCHANGED <<slotVars, clientVars, goal, told>>
      BY <1>0, <2>1, <2>4, ProvidedQuiet DEF slotVars, clientVars
    <2> QED
      BY <2>2, <2>3, <2>4
  <1>13. ASSUME NEW i \in Slots, ClientConnects(i)
         PROVE  ProvidedInv'
    BY <1>13, ProvidedConnects
  <1>14. ASSUME NEW i \in Slots, ClientFails(i) \/ ClientDisconnects(i)
         PROVE  ProvidedInv'
    <2>1. stack # <<>>
      BY <1>0, <1>14, TickItem DEF ClientFails, ClientDisconnects, ClientTicks, TickAt
    <2> QED
      BY <1>0, <1>14, <2>1, ClientReportsFacts, ProvidedCloses
  <1>15. CASE ClientReceives /\ ~UNCHANGED <<attempt, link>>
    <2>1. stack # <<>>
      BY <1>0, <1>15, ReceiveItem DEF ClientReceives
    <2> QED
      BY <1>0, <1>15, <2>1, ReceiveClosesFacts, ProvidedCloses
  <1>16. ASSUME NEW r \in resolves, NEW i \in Slots, Answer(r), AnswerFailure(r, i)
         PROVE  ProvidedInv'
    BY <1>0, <1>16, AnswerFailureFacts, ProvidedCloses
  <1>17. ASSUME NEW r \in resolves, NEW i \in Slots, Answer(r), AnswerAddress(r, i)
         PROVE  ProvidedInv'
    BY <1>0, <1>17, AnswerAddressFacts, ProvidedGetsOn
  <1> QED
    BY <1>1, <1>2, <1>3, <1>4, <1>5, <1>6, <1>7, <1>8, <1>9, <1>10, <1>11, <1>12, <1>13,
       <1>14, <1>15, <1>16, <1>17
    DEF LateCases

-----------------------------------------------------------------------------
(* The invariant holds for ever, and what follows from it.                 *)

LEMMA LateInitially == Init => LateInv
  <1> SUFFICES ASSUME Init PROVE LateInv
    OBVIOUS
  <1>1. IInv
    BY Initially
  <1>2. SoundInv
    <2>1. Len(stack) = 0
      BY DEF Init
    <2> QED
      BY <2>1 DEF SoundInv
  <1>3. ProvidedInv
    <2>1. \A i \in Slots : Used(i) = {}
      BY DEF Init, Used
    <2> QED
      BY <2>1 DEF ProvidedInv
  <1> QED
    BY <1>1, <1>2, <1>3 DEF LateInv

LEMMA LateInductive == LateInv /\ [Next]_vars => LateInv'
  <1> SUFFICES ASSUME LateInv, [Next]_vars PROVE LateInv'
    OBVIOUS
  <1>1. IInv'
    BY Inductive DEF LateInv
  <1> QED
    BY <1>1, GuardedKept, UnguardedKept, ProvidedKept DEF LateInv

\* The steps that lead to what is undefined.
LEMMA UndefinedCases ==
    ASSUME Next, pc # "undefined", pc' = "undefined"
    PROVE  \/ UndefinedStep
           \/ \E r \in resolves : Answer(r) /\ AnswerTooLate(r)
  <1>1. CASE UserStep
    <2>1. ASSUME NEW h \in Hosts, AcquireShare(h) \/ AcquireSlot(h) PROVE FALSE
      BY <2>1 DEF AcquireShare, AcquireSlot
    <2>2. ASSUME NEW a \in Acquires, NEW force \in BOOLEAN, Release(a, force) PROVE FALSE
      BY <2>2 DEF Release, ReleaseShare, LastCall
    <2>3. ASSUME Tick PROVE FALSE
      BY <2>3 DEF Tick
    <2> QED
      BY <1>1, <2>1, <2>2, <2>3 DEF UserStep, UndefinedStep
  <1>2. CASE CallbackReturns
    BY <1>2 DEF CallbackReturns
  <1>3. CASE LibraryStep
    <2>1. CASE LeaveScope
      BY <2>1 DEF LeaveScope
    <2>2. CASE RetireSlot
      BY <2>2 DEF RetireSlot, GoOn
    <2>3. CASE DropShare
      BY <2>3 DEF DropShare, ReleaseShare, LastCall
    <2>4. CASE LoopEnds
      BY <2>4 DEF LoopEnds, GoOn
    <2>5. ASSUME NEW i \in Slots, NEW k \in Places,
                 TellConnected(i, k) \/ TellFailed(i, k) \/ TellClosed(i, k)
          PROVE  FALSE
      BY <2>5 DEF TellConnected, TellFailed, TellClosed, ReleaseShare, LastCall
    <2>6. CASE TickEnds
      BY <2>6 DEF TickEnds
    <2>7. ASSUME NEW i \in Slots, TickDelete(i) PROVE FALSE
      BY <2>7 DEF TickDelete, TickNext
    <2>8. ASSUME NEW i \in Slots,
                 ClientWaits(i) \/ ClientConnects(i) \/ ClientFails(i) \/ ClientDisconnects(i)
          PROVE  FALSE
      BY <2>8 DEF ClientWaits, ClientConnects, ClientFails, ClientDisconnects, TickNext
    <2>9. CASE ClientReceives
      BY <2>9 DEF ClientReceives
    <2> QED
      BY <1>3, <2>1, <2>2, <2>3, <2>4, <2>5, <2>6, <2>7, <2>8, <2>9
      DEF LibraryStep, UndefinedStep, ClientStep
  <1>4. CASE AnswerStep
    <2>1. PICK r \in resolves : Answer(r)
      BY <1>4 DEF AnswerStep
    <2>2. ASSUME NEW i \in Slots, AnswerFailure(r, i) \/ AnswerAddress(r, i) PROVE FALSE
      BY <2>2 DEF AnswerFailure, AnswerAddress
    <2> QED
      BY <2>1, <2>2 DEF Answer
  <1>5. CASE Anything
    BY <1>5 DEF Anything
  <1> QED
    BY <1>1, <1>2, <1>3, <1>4, <1>5 DEF Next

\* One step of UndefinedOnlyIfLate.
LateOnly ==
    pc # "undefined" /\ pc' = "undefined" =>
        \/ \E r \in resolves : r \notin resolves' /\ \A i \in Slots : client[i] # r.client
        \/ stack # <<>> /\ stack[1].op = "refuse"

LEMMA UndefinedNext == LateInv /\ [Next]_vars => LateOnly
  <1> SUFFICES ASSUME LateInv, [Next]_vars, pc # "undefined", pc' = "undefined" PROVE LateOnly
    BY DEF LateOnly
  <1>0. TypeOK /\ StackInv
    BY DEF LateInv, IInv
  <1>1. Next
    BY DEF vars
  <1>2. CASE UndefinedStep
    <2>1. ~Guarded
      BY <1>2, NothingStumbles
    <2>2. stack # <<>> /\ stack[1].op = "refuse"
      BY <1>0, <2>1 DEF Guarded, StackInv
    <2> QED
      BY <2>2 DEF LateOnly
  <1>3. ASSUME NEW r \in resolves, Answer(r), AnswerTooLate(r) PROVE LateOnly
    <2>1. r \notin resolves'
      BY <1>3 DEF Answer
    <2>2. \A i \in Slots : client[i] # r.client
      BY <1>3 DEF AnswerTooLate
    <2> QED
      BY <2>1, <2>2 DEF LateOnly
  <1> QED
    BY <1>1, <1>2, <1>3, UndefinedCases

\* Whatever the resolver answers and when, and whatever users do in the callbacks, only two
\* things lead to what is undefined: an answer for a client that was deleted, and a late
\* failure until its callbacks are over.  No later call touches a deleted slot, compares a
\* null host or calls an empty callback.
THEOREM UndefinedIsLate == Spec => UndefinedOnlyIfLate
  <1>1. Init => LateInv
    BY LateInitially
  <1>2. LateInv /\ [Next]_vars => LateInv'
    BY LateInductive
  <1>3. LateInv /\ [Next]_vars => [LateOnly]_vars
    BY UndefinedNext
  <1>4. Spec => [][LateOnly]_vars
    BY <1>1, <1>2, <1>3, PTL DEF Spec
  <1> QED
    BY <1>4 DEF UndefinedOnlyIfLate, LateOnly

=============================================================================
