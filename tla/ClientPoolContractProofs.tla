---------------------- MODULE ClientPoolContractProofs ------------------------
(* Proofs about ClientPool with a resolver that answers in time: a slot is *)
(* deleted with its client closed, a share follows its client, and the pool*)
(* implements PoolContract.                                                *)
EXTENDS ClientPoolLateProofs

USE HostsAssumption, CountsAssumption, LateAnswersAssumption

-----------------------------------------------------------------------------
(* The invariant, on top of IInv.                                          *)

\* What the library has still to do is still as it was when it began: the client is
\* there, has ended its attempt or not, and the callbacks to be called are there.
ItemRight(item) ==
    /\ item.op \in {"accept", "refuse", "close", "force", "retire"} =>
           item.object = client[item.slot]
    /\ item.op \in {"refuse", "close", "drop"} \/ (item.op = "retire" /\ ~item.disconnect) =>
           attempt[item.slot] = None
    /\ item.op \in {"accept", "refuse"} =>
           \A k \in Used(item.slot) :
               k >= item.place => callback[shares[item.slot][k]] = "connect"

\* The library is entered by calls of the user only, and not again in callbacks.
PromptInv ==
    /\ pc # "undefined"
    /\ resolves = {}
    /\ \A i \in Slots : link[i] # "waiting"
    /\ stack # <<>> => stack[1].op = "leave"
    /\ \A n \in 1..Len(stack) : ItemRight(stack[n])

Reports == {"accept", "refuse", "close"}

\* A share has the callback that the client calls for, or the library is about to call
\* it; and no share stays in a slot whose client is closed.
Attended(i, k) ==
    /\ attempt[i] = None => Pending(Removals, i, k)
    /\ Following(i, k) \/ Pending(Reports, i, k)

AttendedInv == \A i \in Slots : \A k \in Used(i) : Attended(i, k)

JInv == IInv /\ PromptInv /\ DeletedIsClosed /\ AttendedInv

LEMMA PromptIsGuarded == PromptInv => Guarded
  BY DEF PromptInv, Guarded

LEMMA FollowClient == AttendedInv => SharesFollowClient
  BY DEF AttendedInv, Attended, Following, Pending, Reports, SharesFollowClient, OnStack

-----------------------------------------------------------------------------
(* The steps there are: none is undefined, and no answer is late.          *)

\* Nothing is left of a slot when the library has nothing to do.
LEMMA NothingPending ==
    ASSUME JInv, stack = <<>>, NEW i \in Slots
    PROVE  /\ Live(i) => attempt[i] # None
           /\ \A k \in Used(i) : attempt[i] # None /\ Following(i, k)
  <1>1. Len(stack) = 0
    OBVIOUS
  <1>2. ASSUME NEW ops, NEW k PROVE ~Pending(ops, i, k)
    BY <1>1 DEF Pending
  <1>3. ASSUME NEW k \in Used(i) PROVE attempt[i] # None /\ Following(i, k)
    BY <1>2 DEF JInv, AttendedInv, Attended
  <1>4. ASSUME Live(i), Used(i) = {} PROVE FALSE
    <2>1. OnStack(LAMBDA item : item.op = "retire" /\ item.slot = i)
      BY <1>4 DEF JInv, IInv, SharesAreCounted
    <2> QED
      BY <1>1, <2>1 DEF OnStack
  <1> QED
    BY <1>3, <1>4

LEMMA NothingUndefined ==
    ASSUME JInv
    PROVE  ~UndefinedStep
  <1>0. TypeOK /\ StackInv /\ PromptInv
    BY DEF JInv, IInv
  <1>1. ASSUME NEW h \in Hosts, AcquireUndefined(h) PROVE FALSE
    <2>1. stack = <<>>
      BY <1>0, <1>1, PromptIsGuarded, UserFinds DEF AcquireUndefined, MayAcquire
    <2>2. \E i \in Slots : Live(i) /\ attempt[i] = None
      BY <1>1 DEF AcquireUndefined
    <2> QED
      BY <2>1, <2>2, NothingPending
  <1>2. ASSUME ReadDeleted PROVE FALSE
    <2>1. pc = "library" /\ Top.op \in {"accept", "refuse", "close", "force", "retire"}
          /\ IsGone(Top)
      BY <1>2 DEF ReadDeleted, Doing, Looping
    <2>2. Len(stack) \in 1..Len(stack) /\ Top = stack[Len(stack)]
      BY <1>0, <2>1, StackTypes
    <2>3. ItemRight(Top)
      BY <1>0, <2>2 DEF PromptInv
    <2> QED
      BY <2>1, <2>3 DEF ItemRight, IsGone
  <1>3. ASSUME NEW i \in Slots, NEW k \in Places, TellUndefined(i, k) PROVE FALSE
    <2>1. LoopAt({"accept", "refuse"}, i, k) /\ callback[shares[i][k]] # "connect"
      BY <1>3 DEF TellUndefined
    <2>2. /\ stack # <<>> /\ Top = stack[Len(stack)] /\ Top.op \in {"accept", "refuse"}
          /\ Top.slot = i /\ k \in Used(i) /\ k >= Top.place
      BY <1>0, <2>1, LoopItem DEF Loops
    <2>3. Len(stack) \in 1..Len(stack)
      BY <1>0, <2>2, TopType, StackTypes
    <2>4. ItemRight(Top)
      BY <1>0, <2>2, <2>3 DEF PromptInv
    <2> QED
      BY <2>1, <2>2, <2>4 DEF ItemRight
  <1> QED
    BY <1>1, <1>2, <1>3 DEF UndefinedStep

\* With no late answers: what is called is done, and the resolver is not waited for.
ControlKept ==
    /\ pc' # "undefined"
    /\ resolves' = {}
    /\ \A i \in Slots : link'[i] # "waiting"

\* StepCases without what cannot happen.
PromptCases ==
    \/ UNCHANGED <<slotVars, clientVars, goal, told, stack, non_reentrant>>
    \/ PopsQuietly
    \/ Tick
    \/ \E h \in Hosts, i \in Slots, k \in Places : AcquireShareAt(h, i, k)
    \/ \E h \in Hosts, i \in Slots : AcquireSlotAt(h, i)
    \/ \E a \in Acquires, force \in BOOLEAN, i \in Slots, k \in Places : ReleaseAt(a, force, i, k)
    \/ RetireSlot
    \/ DropShare /\ shares[Top.slot][Top.place] # None
    \/ \E i \in Slots, k \in Places :
           TellConnected(i, k) \/ TellFailed(i, k) \/ TellClosed(i, k)
    \/ \E i \in Slots : TickDelete(i) \/ ClientWaits(i) \/ ClientConnects(i)
                            \/ ClientFails(i) \/ ClientDisconnects(i)
    \/ ClientReceives /\ ~UNCHANGED <<attempt, link>>

LEMMA PromptSteps ==
    ASSUME JInv, ~LateAnswers, [Next]_vars
    PROVE  PromptCases /\ ControlKept
  <1>0. /\ TypeOK /\ StackInv /\ PromptInv /\ SharesAreCounted
        /\ pc # "undefined" /\ resolves = {} /\ \A i \in Slots : link[i] # "waiting"
        /\ link \in [Slots -> Links]
    BY DEF JInv, IInv, PromptInv, TypeOK
  <1>1. ~UndefinedStep
    BY NothingUndefined
  <1>2. PromptCases
    BY <1>0, <1>1, StepCases
    DEF PromptCases, IdleStep, CallbackReturns, vars, slotVars, clientVars
  <1>3. pc' # "undefined" /\ resolves' = {}
    <2>1. CASE UserStep
      <3>1. ASSUME NEW h \in Hosts, AcquireShare(h) \/ AcquireSlot(h)
            PROVE  pc' # "undefined" /\ resolves' = {}
        BY <1>0, <3>1 DEF AcquireShare, AcquireSlot, clientVars
      <3>2. ASSUME NEW a \in Acquires, NEW force \in BOOLEAN, Release(a, force)
            PROVE  pc' # "undefined" /\ resolves' = {}
        BY <1>0, <3>2 DEF Release, ReleaseShare, LastCall, clientVars
      <3>3. ASSUME Tick
            PROVE  pc' # "undefined" /\ resolves' = {}
        BY <1>0, <3>3 DEF Tick, clientVars
      <3> QED
        BY <1>1, <2>1, <3>1, <3>2, <3>3 DEF UserStep, UndefinedStep
    <2>2. CASE CallbackReturns
      BY <1>0, <2>2 DEF CallbackReturns, clientVars
    <2>3. CASE LibraryStep
      <3>1. CASE LeaveScope
        BY <1>0, <3>1 DEF LeaveScope, clientVars
      <3>2. CASE RetireSlot
        BY <1>0, <3>2 DEF RetireSlot, GoOn, DisconnectClient, clientVars
      <3>3. CASE DropShare
        BY <1>0, <3>3 DEF DropShare, ReleaseShare, LastCall, clientVars
      <3>4. CASE LoopEnds
        BY <1>0, <3>4 DEF LoopEnds, GoOn, clientVars
      <3>5. ASSUME NEW i \in Slots, NEW k \in Places,
                   TellConnected(i, k) \/ TellFailed(i, k) \/ TellClosed(i, k)
            PROVE  pc' # "undefined" /\ resolves' = {}
        BY <1>0, <3>5 DEF TellConnected, TellFailed, TellClosed, ReleaseShare, LastCall, clientVars
      <3>6. CASE TickEnds
        BY <1>0, <3>6 DEF TickEnds, clientVars
      <3>7. ASSUME NEW i \in Slots, TickDelete(i)
            PROVE  pc' # "undefined" /\ resolves' = {}
        BY <1>0, <3>7 DEF TickDelete, TickNext
      <3>8. ASSUME NEW i \in Slots,
                   ClientWaits(i) \/ ClientConnects(i) \/ ClientFails(i) \/ ClientDisconnects(i)
            PROVE  pc' # "undefined" /\ resolves' = {}
        BY <1>0, <3>8 DEF ClientWaits, ClientConnects, ClientFails, ClientDisconnects, TickNext
      <3>9. CASE ClientReceives
        BY <1>0, <3>9 DEF ClientReceives
      <3> QED
        BY <1>1, <2>3, <3>1, <3>2, <3>3, <3>4, <3>5, <3>6, <3>7, <3>8, <3>9
        DEF LibraryStep, UndefinedStep, ClientStep
    <2>4. CASE AnswerStep
      BY <1>0, <2>4 DEF AnswerStep
    <2>5. CASE Anything
      BY <1>0, <2>5 DEF Anything
    <2>6. CASE UNCHANGED vars
      BY <1>0, <2>6 DEF vars, clientVars
    <2> QED
      BY <2>1, <2>2, <2>3, <2>4, <2>5, <2>6 DEF Next
  <1>4. \A i \in Slots : link'[i] # "waiting"
    <2>1. CASE UNCHANGED link
      BY <1>0, <2>1
    <2>2. ASSUME NEW i \in Slots, CloseClient(i)
          PROVE  \A j \in Slots : link'[j] # "waiting"
      BY <1>0, <2>2 DEF CloseClient
    <2>3. ASSUME NEW i \in Slots, NEW l \in {"fresh", "resolved", "connected"},
                 link' = [link EXCEPT ![i] = l]
          PROVE  \A j \in Slots : link'[j] # "waiting"
      BY <1>0, <2>3
    <2>4. \/ UNCHANGED link
          \/ \E i \in Slots : CloseClient(i)
          \/ \E i \in Slots, l \in {"fresh", "resolved", "connected"} : link' = [link EXCEPT ![i] = l]
      <3>1. CASE UNCHANGED <<slotVars, clientVars, goal, told, stack, non_reentrant>>
        BY <3>1 DEF clientVars
      <3>2. CASE PopsQuietly
        BY <1>0, <3>2, PopsQuietlyFacts DEF clientVars
      <3>3. CASE Tick
        BY <3>3 DEF Tick, clientVars
      <3>4. ASSUME NEW h \in Hosts, NEW i \in Slots,
                   AcquireSlotAt(h, i) \/ \E k \in Places : AcquireShareAt(h, i, k)
            PROVE  UNCHANGED link \/ link' = [link EXCEPT ![i] = "fresh"]
        BY <3>4 DEF AcquireSlotAt, AcquireShareAt, clientVars
      <3>5. ASSUME NEW a \in Acquires, NEW force \in BOOLEAN, NEW i \in Slots, NEW k \in Places,
                   ReleaseAt(a, force, i, k)
            PROVE  UNCHANGED link
        BY <3>5 DEF ReleaseAt, clientVars
      <3>6. CASE RetireSlot
        BY <1>0, <3>6, RetireSlotFacts DEF Retires, clientVars
      <3>7. CASE DropShare
        BY <3>7 DEF DropShare, clientVars
      <3>8. ASSUME NEW i \in Slots, NEW k \in Places,
                   TellConnected(i, k) \/ TellFailed(i, k) \/ TellClosed(i, k)
            PROVE  UNCHANGED link
        BY <3>8 DEF TellConnected, TellFailed, TellClosed, clientVars
      <3>9. ASSUME NEW i \in Slots,
                   \/ TickDelete(i) \/ ClientWaits(i) \/ ClientConnects(i)
                   \/ ClientFails(i) \/ ClientDisconnects(i)
            PROVE  \/ UNCHANGED link \/ CloseClient(i)
                   \/ \E l \in {"fresh", "resolved", "connected"} : link' = [link EXCEPT ![i] = l]
        BY <3>9 DEF TickDelete, ClientWaits, ClientConnects, ClientFails, ClientDisconnects
      <3>10. CASE ClientReceives
        <4>1. Top.slot \in Slots
          BY <1>0, <3>10, ReceiveItem DEF ClientReceives
        <4> QED
          BY <3>10, <4>1 DEF ClientReceives
      <3> QED
        BY <1>2, <3>1, <3>2, <3>3, <3>4, <3>5, <3>6, <3>7, <3>8, <3>9, <3>10 DEF PromptCases
    <2> QED
      BY <2>1, <2>2, <2>3, <2>4
  <1> QED
    BY <1>2, <1>3, <1>4 DEF ControlKept

-----------------------------------------------------------------------------
(* What the library has still to do stays right.                           *)

\* All new items of the stack are right.
NewRight(items) == \A n \in 1..Len(items) : \A item : item = items[n] => ItemRight(item)'

\* So are the lowest b, which are kept.
OldRight(b) == \A n \in 1..Len(stack) : n <= b => \A item : item = stack[n] => ItemRight(item)'

LEMMA PlainIsRight ==
    ASSUME NEW item, Plain(item)
    PROVE  ItemRight(item)'
  BY DEF Plain, ItemRight

LEMMA RightAbove ==
    ASSUME TypeOK, NEW b, NEW items, Becomes(b, items), OldRight(b), NewRight(items)
    PROVE  \A n \in 1..Len(stack') : \A item : item = stack'[n] => ItemRight(item)'
  <1> SUFFICES ASSUME NEW n \in 1..Len(stack'), NEW item, item = stack'[n]
               PROVE  ItemRight(item)'
    OBVIOUS
  <1>1. PICK len \in Nat, new \in Nat : len = Len(stack) /\ new = Len(items)
    <2>1. items \in Seq(Items)
      BY DEF Becomes
    <2>2. Len(stack) \in Nat /\ Len(items) \in Nat
      BY <2>1, StackTypes, LenProperties
    <2> QED
      BY <2>2, Zenon
  <1>2. /\ b \in 0..len /\ n \in 1..(b + new)
        /\ \A m \in 1..b : stack'[m] = stack[m]
        /\ \A m \in 1..new : stack'[b + m] = items[m]
    BY <1>1 DEF Becomes
  <1>3. CASE n <= b
    <2>1. n \in 1..b /\ n \in 1..len
      BY <1>2, <1>3
    <2>2. item = stack[n]
      BY <1>2, <2>1
    <2> QED
      BY <1>1, <1>3, <2>1, <2>2 DEF OldRight
  <1>4. CASE n > b
    <2>1. PICK m \in 1..new : n = b + m
      <3>1. n - b \in 1..new /\ n = b + (n - b)
        BY <1>2, <1>4
      <3> QED
        BY <3>1
    <2>2. item = items[m]
      BY <1>2, <2>1
    <2> QED
      BY <1>1, <2>1, <2>2 DEF NewRight
  <1> QED
    BY <1>2, <1>3, <1>4

LEMMA PromptParts ==
    ASSUME ControlKept, stack' # <<>> => stack'[1].op = "leave",
           \A n \in 1..Len(stack') : \A item : item = stack'[n] => ItemRight(item)'
    PROVE  PromptInv'
  <1>1. ASSUME NEW n \in 1..Len(stack') PROVE ItemRight(stack[n])'
    <2>1. PICK item : item = stack'[n]
      OBVIOUS
    <2>2. ItemRight(item)'
      BY <2>1
    <2> QED
      BY <2>1, <2>2 DEF ItemRight
  <1>2. pc' # "undefined" /\ resolves' = {} /\ \A i \in Slots : link'[i] # "waiting"
    BY DEF ControlKept
  <1> QED
    BY <1>1, <1>2 DEF PromptInv

\* A step keeps the lowest b items of the stack, and puts others on them.
LEMMA PromptStep ==
    ASSUME TypeOK, PromptInv, ControlKept, NEW b, NEW items, Becomes(b, items),
           b = 0 => items = <<>> \/ items[1].op = "leave",
           OldRight(b), NewRight(items)
    PROVE  PromptInv'
  <1>1. PICK len \in Nat, new \in Nat : len = Len(stack) /\ new = Len(items)
    <2>1. items \in Seq(Items)
      BY DEF Becomes
    <2>2. Len(stack) \in Nat /\ Len(items) \in Nat
      BY <2>1, StackTypes, LenProperties
    <2> QED
      BY <2>2, Zenon
  <1>2. /\ b \in 0..len /\ Len(stack') = b + new /\ stack' \in Seq(Items) /\ items \in Seq(Items)
        /\ \A m \in 1..b : stack'[m] = stack[m]
        /\ \A m \in 1..new : stack'[b + m] = items[m]
    BY <1>1 DEF Becomes
  <1>3. stack' # <<>> => stack'[1].op = "leave"
    <2>1. CASE b # 0
      <3>1. 1 \in 1..b /\ len # 0
        BY <1>2, <2>1
      <3>2. stack # <<>>
        BY <1>1, <3>1
      <3> QED
        BY <1>2, <3>1, <3>2 DEF PromptInv
    <2>2. CASE b = 0
      <3>1. CASE items = <<>>
        <4>1. new = 0
          BY <1>1, <3>1
        <4>2. Len(stack') = 0
          BY <1>2, <2>2, <4>1
        <4> QED
          BY <1>2, <4>2
      <3>2. CASE items # <<>> /\ items[1].op = "leave"
        <4>1. new # 0
          BY <1>1, <1>2, <3>2
        <4>2. 1 \in 1..new /\ b + 1 = 1
          BY <2>2, <4>1
        <4> QED
          BY <1>2, <3>2, <4>2
      <3> QED
        BY <2>2, <3>1, <3>2
    <2> QED
      BY <2>1, <2>2
  <1> QED
    BY <1>3, RightAbove, PromptParts

\* New items by number.
LEMMA NoItem == NewRight(<<>>)
  BY DEF NewRight

LEMMA OneItem ==
    ASSUME NEW x, ItemRight(x)'
    PROVE  NewRight(<<x>>)
  <1> DEFINE items == <<x>>
  <1>1. Len(items) = 1 /\ items[1] = x
    OBVIOUS
  <1> HIDE DEF items
  <1>2. \A n \in 1..Len(items) : n = 1
    BY <1>1
  <1>3. NewRight(items)
    BY <1>1, <1>2 DEF NewRight
  <1> QED
    BY <1>3 DEF items

LEMMA TwoItems ==
    ASSUME NEW x, NEW y, ItemRight(x)', ItemRight(y)'
    PROVE  NewRight(<<x, y>>)
  <1> DEFINE items == <<x, y>>
  <1>1. Len(items) = 2 /\ items[1] = x /\ items[2] = y
    OBVIOUS
  <1> HIDE DEF items
  <1>2. \A n \in 1..Len(items) : n = 1 \/ n = 2
    BY <1>1
  <1>3. NewRight(items)
    BY <1>1, <1>2 DEF NewRight
  <1> QED
    BY <1>3 DEF items

LEMMA ThreeItems ==
    ASSUME NEW x, NEW y, NEW z, ItemRight(x)', ItemRight(y)', ItemRight(z)'
    PROVE  NewRight(<<x, y, z>>)
  <1> DEFINE items == <<x, y, z>>
  <1>1. Len(items) = 3 /\ items[1] = x /\ items[2] = y /\ items[3] = z
    OBVIOUS
  <1> HIDE DEF items
  <1>2. \A n \in 1..Len(items) : n = 1 \/ n = 2 \/ n = 3
    BY <1>1
  <1>3. NewRight(items)
    BY <1>1, <1>2 DEF NewRight
  <1> QED
    BY <1>3 DEF items

\* Nothing of what lies below these needs anything.
LEMMA OldPlain ==
    ASSUME TypeOK, StackInv, PromptInv, stack # <<>>,
           Top.op \in {"tick", "receive", "accept", "refuse", "close", "force"}
    PROVE  OldRight(Len(stack) - 1)
  <1> SUFFICES ASSUME NEW n \in 1..Len(stack), n <= Len(stack) - 1, NEW item, item = stack[n]
               PROVE  ItemRight(item)'
    BY DEF OldRight
  <1>1. n # Len(stack)
    BY StackTypes
  <1>2. Plain(item)
    BY <1>1, PromptIsGuarded, BelowLoops DEF Plain
  <1> QED
    BY <1>2, PlainIsRight

\* What the items say of slots stays true.
RightFrame ==
    /\ UNCHANGED client
    /\ \A i \in Slots :
           /\ attempt'[i] = attempt[i] \/ attempt'[i] = None
           /\ \A k \in Used(i)' : /\ k \in Used(i) /\ shares'[i][k] = shares[i][k]
                                  /\ callback'[shares[i][k]] = callback[shares[i][k]]

LEMMA ItemFrame ==
    ASSUME NEW item \in Items, ItemRight(item), RightFrame
    PROVE  ItemRight(item)'
  <1>1. item.op \in {"accept", "refuse", "close", "force", "retire", "drop"} => item.slot \in Slots
    BY ItemTypes DEF Loops
  <1>2. item.op \in {"accept", "refuse", "close", "force", "retire"} =>
            item.object = client'[item.slot]
    BY DEF ItemRight, RightFrame
  <1>3. item.op \in {"refuse", "close", "drop"} \/ (item.op = "retire" /\ ~item.disconnect) =>
            attempt'[item.slot] = None
    BY <1>1 DEF ItemRight, RightFrame
  <1>4. ASSUME item.op \in {"accept", "refuse"}, NEW k \in Used(item.slot)', k >= item.place
        PROVE  callback'[shares'[item.slot][k]] = "connect"
    BY <1>1, <1>4 DEF ItemRight, RightFrame
  <1> QED
    BY <1>2, <1>3, <1>4 DEF ItemRight

LEMMA OldFrame ==
    ASSUME TypeOK, PromptInv, RightFrame, NEW b
    PROVE  OldRight(b)
  <1> SUFFICES ASSUME NEW n \in 1..Len(stack), NEW item, item = stack[n]
               PROVE  ItemRight(item)'
    BY DEF OldRight
  <1>1. item \in Items
    BY StackTypes
  <1>2. ItemRight(item)
    BY DEF PromptInv
  <1> QED
    BY <1>1, <1>2, ItemFrame

LEMMA QuietRight ==
    ASSUME UNCHANGED <<slotVars, attempt>>
    PROVE  RightFrame
  BY DEF RightFrame, Used, slotVars

LEMMA GivesUpRight ==
    ASSUME TypeOK, SharesAreCounted, PlacesInv, NEW i \in Slots, NEW k \in Used(i), GivesUp(i, k),
           UNCHANGED attempt
    PROVE  RightFrame
  <1>1. /\ Used(i)' = Used(i) \ {k}
        /\ \A j \in Slots : j # i => Used(j)' = Used(j)
        /\ \A j \in Slots : \A m \in Places : j # i \/ m # k => shares'[j][m] = shares[j][m]
    BY GivesUpUsed
  <1>2. ASSUME NEW j \in Slots, NEW m \in Used(j)'
        PROVE  m \in Used(j) /\ shares'[j][m] = shares[j][m]
               /\ callback'[shares[j][m]] = callback[shares[j][m]]
    <2>1. m \in Used(j) /\ (j # i \/ m # k)
      BY <1>1, <1>2
    <2>2. m \in Places
      BY <2>1 DEF Used
    <2>3. SetsCallback(i, k)
      BY DEF GivesUp, SetsCallback
    <2>4. callback'[shares[j][m]] = callback[shares[j][m]]
      BY <2>1, <2>3, OtherCallbacks
    <2> QED
      BY <1>1, <2>1, <2>2, <2>4
  <1> QED
    BY <1>2 DEF RightFrame, GivesUp

LEMMA PromptNew ==
    ASSUME JInv, ControlKept, NEW h \in Hosts, NEW i \in Slots,
           (\E k \in Places : AcquireShareAt(h, i, k)) \/ (AcquireSlotAt(h, i) /\ attempt[i] = None)
    PROVE  PromptInv'
  <1>0. TypeOK /\ StackInv /\ PromptInv
    BY DEF JInv, IInv
  <1>1. ~non_reentrant
    BY DEF AcquireShareAt, AcquireSlotAt, MayAcquire
  <1>2. Len(stack) = 0
    BY <1>0, <1>1, PromptIsGuarded, UserFinds
  <1>3. OldRight(0)
    BY <1>2 DEF OldRight
  <1>4. Becomes(0, <<Leave>>) \/ Becomes(0, <<>>)
    BY <1>0, <1>2, AcquireShareStack, AcquireSlotStack
  <1>5. PICK leave : leave = Leave
    OBVIOUS
  <1>6. Plain(leave) /\ leave.op = "leave"
    BY <1>5 DEF Plain, Leave
  <1>7. NewRight(<<leave>>)
    BY <1>6, PlainIsRight, OneItem
  <1>8. CASE Becomes(0, <<Leave>>)
    <2>1. <<leave>>[1].op = "leave" /\ Becomes(0, <<leave>>)
      BY <1>5, <1>6, <1>8
    <2> QED
      BY <1>0, <1>3, <1>7, <2>1, PromptStep
  <1>9. CASE Becomes(0, <<>>)
    BY <1>0, <1>3, <1>9, NoItem, PromptStep
  <1> QED
    BY <1>4, <1>8, <1>9

LEMMA PromptReleases ==
    ASSUME JInv, ControlKept, NEW a \in Acquires, NEW force \in BOOLEAN,
           NEW i \in Slots, NEW k \in Places, ReleaseAt(a, force, i, k)
    PROVE  PromptInv'
  <1>0. TypeOK /\ StackInv /\ PromptInv /\ SharesAreCounted
    BY DEF JInv, IInv
  <1>1. ~non_reentrant
    BY DEF ReleaseAt
  <1>2. Len(stack) = 0
    BY <1>0, <1>1, PromptIsGuarded, UserFinds
  <1>3. OldRight(0)
    BY <1>2 DEF OldRight
  <1>4. client' = client
    BY DEF ReleaseAt, ReleaseShare
  <1>5. PICK leave, loop, retire : /\ leave = Leave /\ loop = Loop("force", i, 1, "Primary")
                                   /\ retire = Retire(i, TRUE)
    OBVIOUS
  <1>6. Plain(leave) /\ leave.op = "leave"
    BY <1>5 DEF Plain, Leave
  <1>7. loop.op = "force" /\ loop.slot = i /\ loop.object = client[i]
    BY <1>5 DEF Loop
  <1>8. retire.op = "retire" /\ retire.slot = i /\ retire.object = client[i]
    BY <1>5 DEF Retire
  <1>9. retire.disconnect
    BY <1>5 DEF Retire
  <1>10. ItemRight(leave)' /\ ItemRight(loop)' /\ ItemRight(retire)'
    <2>1. ItemRight(leave)'
      BY <1>6, PlainIsRight
    <2>2. ItemRight(loop)'
      BY <1>4, <1>7 DEF ItemRight
    <2>3. ItemRight(retire)'
      BY <1>4, <1>8, <1>9 DEF ItemRight
    <2> QED
      BY <2>1, <2>2, <2>3
  <1>11. NewRight(<<leave, loop, retire>>) /\ NewRight(<<leave, retire>>)
    BY <1>10, TwoItems, ThreeItems
  <1>12. Becomes(0, <<leave, loop, retire>>) \/ Becomes(0, <<leave, retire>>)
    BY <1>0, <1>2, <1>5, ReleaseStack
  <1>13. <<leave, loop, retire>>[1] = leave /\ <<leave, retire>>[1] = leave
    OBVIOUS
  <1>14. CASE Becomes(0, <<leave, loop, retire>>)
    BY <1>0, <1>3, <1>6, <1>11, <1>13, <1>14, PromptStep
  <1>15. CASE Becomes(0, <<leave, retire>>)
    BY <1>0, <1>3, <1>6, <1>11, <1>13, <1>15, PromptStep
  <1> QED
    BY <1>12, <1>14, <1>15

\* The top of the stack is right too.
LEMMA TopRight ==
    ASSUME TypeOK, PromptInv, stack # <<>>
    PROVE  ItemRight(Top)
  <1>1. Len(stack) \in 1..Len(stack) /\ Top = stack[Len(stack)]
    BY StackTypes, TopType
  <1> QED
    BY <1>1 DEF PromptInv

LEMMA PromptDrops ==
    ASSUME JInv, ControlKept, DropShare, shares[Top.slot][Top.place] # None
    PROVE  PromptInv'
  <1>0. TypeOK /\ StackInv /\ PromptInv /\ SharesAreCounted /\ PlacesInv
    BY DEF JInv, IInv
  <1>1. PICK i \in Slots, k \in Places : i = Top.slot /\ k = Top.place
    BY <1>0, DropItem DEF DropShare
  <1>2. stack # <<>> /\ Top.op = "drop"
    BY <1>0, DropItem DEF DropShare
  <1>3. /\ k \in Used(i) /\ GivesUp(i, k) /\ UNCHANGED attempt
        /\ Becomes(Len(stack) - 1, <<Retire(i, FALSE)>>)
    BY <1>0, <1>1, ReleaseGivesUp, DropShareStack DEF DropShare, Used, clientVars
  <1>4. attempt[i] = None /\ attempt'[i] = None /\ client' = client
    <2>1. ItemRight(Top)
      BY <1>0, <1>2, TopRight
    <2> QED
      BY <1>1, <1>2, <1>3, <2>1 DEF ItemRight, GivesUp
  <1>5. PICK retire : retire = Retire(i, FALSE)
    OBVIOUS
  <1>6. retire.op = "retire" /\ retire.slot = i /\ retire.object = client[i]
    BY <1>5 DEF Retire
  <1>7. ItemRight(retire)'
    BY <1>4, <1>6 DEF ItemRight
  <1>8. NewRight(<<retire>>)
    BY <1>7, OneItem
  <1>9. OldRight(Len(stack) - 1)
    BY <1>0, <1>3, GivesUpRight, OldFrame
  <1>10. Len(stack) - 1 # 0
    BY <1>0, <1>2, PromptIsGuarded, NotLowest
  <1> QED
    BY <1>0, <1>3, <1>5, <1>8, <1>9, <1>10, PromptStep

LEMMA PromptTells ==
    ASSUME JInv, ControlKept, NEW i \in Slots, NEW k \in Places,
           TellConnected(i, k) \/ TellFailed(i, k)
    PROVE  PromptInv'
  <1>0. TypeOK /\ StackInv /\ PromptInv /\ PlacesInv
    BY DEF JInv, IInv
  <1>1. LoopAt({"accept"}, i, k) \/ LoopAt({"refuse"}, i, k)
    BY DEF TellConnected, TellFailed
  <1>2. /\ stack # <<>> /\ Top \in Items /\ Top.op \in {"accept", "refuse"} /\ Top.slot = i
        /\ k \in Used(i) /\ k >= Top.place /\ client[i] = Top.object
        /\ \A m \in Used(i) : m >= Top.place => k <= m
    BY <1>0, <1>1, LoopItem DEF Loops
  <1>3. ItemRight(Top)
    BY <1>0, <1>2, TopRight
  <1>4. PICK next : next = NextPlace(k)
    OBVIOUS
  <1>5. next.op = Top.op /\ next.slot = i /\ next.object = client[i] /\ next.place = k + 1
    BY <1>2, <1>4, NextPlaceType DEF Loops
  <1>6. UNCHANGED <<client, attempt, shares>>
    BY DEF TellConnected, TellFailed, clientVars
  <1>7. Used(i)' = Used(i) /\ k \in Nat /\ \A m \in Used(i) : m \in Nat
    BY <1>6 DEF Used, Places
  <1>8. ASSUME NEW m \in Used(i), m >= k + 1
        PROVE  callback'[shares[i][m]] = "connect"
    <2>1. m # k /\ m >= Top.place
      <3>1. Top.place \in Nat
        BY <1>2, ItemTypes DEF Loops
      <3> QED
        BY <1>2, <1>7, <1>8, <3>1
    <2>2. callback[shares[i][m]] = "connect"
      BY <1>2, <1>3, <2>1 DEF ItemRight
    <2>3. SetsCallback(i, k)
      BY DEF TellConnected, TellFailed, SetsCallback
    <2>4. callback'[shares[i][m]] = callback[shares[i][m]]
      BY <1>0, <1>2, <2>1, <2>3, OtherCallbacks
    <2> QED
      BY <2>2, <2>4
  <1>9. Top.op = "refuse" => attempt'[i] = None
    BY <1>2, <1>3, <1>6 DEF ItemRight
  <1>10. ItemRight(next)'
    BY <1>2, <1>5, <1>6, <1>7, <1>8, <1>9 DEF ItemRight
  <1>11. OldRight(Len(stack) - 1) /\ Len(stack) - 1 # 0
    BY <1>0, <1>2, OldPlain, PromptIsGuarded, NotLowest
  <1>12. CASE TellConnected(i, k)
    <2>1. Becomes(Len(stack) - 1, <<next>>)
      BY <1>0, <1>4, <1>12, TellConnectedStack
    <2>2. NewRight(<<next>>)
      BY <1>10, OneItem
    <2> QED
      BY <1>0, <1>11, <2>1, <2>2, PromptStep
  <1>13. CASE TellFailed(i, k)
    <2>1. PICK drop : drop = Drop(i, k)
      OBVIOUS
    <2>2. drop.op = "drop" /\ drop.slot = i
      BY <2>1 DEF Drop
    <2>3. Top.op = "refuse"
      BY <1>0, <1>13, LoopItem DEF TellFailed, Loops
    <2>4. ItemRight(drop)'
      BY <1>9, <2>2, <2>3 DEF ItemRight
    <2>5. Becomes(Len(stack) - 1, <<next, drop>>)
      BY <1>0, <1>4, <1>13, <2>1, TellFailedStack
    <2>6. NewRight(<<next, drop>>)
      BY <1>10, <2>4, TwoItems
    <2> QED
      BY <1>0, <1>11, <2>5, <2>6, PromptStep
  <1> QED
    BY <1>12, <1>13

LEMMA PromptTellsClosed ==
    ASSUME JInv, ControlKept, NEW i \in Slots, NEW k \in Places, TellClosed(i, k)
    PROVE  PromptInv'
  <1>0. TypeOK /\ StackInv /\ PromptInv /\ PlacesInv /\ SharesAreCounted
    BY DEF JInv, IInv
  <1>1. LoopAt({"close", "force"}, i, k)
    BY DEF TellClosed
  <1>2. /\ stack # <<>> /\ Top \in Items /\ Top.op \in {"close", "force"} /\ Top.slot = i
        /\ k \in Used(i) /\ client[i] = Top.object
    BY <1>0, <1>1, LoopItem DEF Loops
  <1>3. ItemRight(Top)
    BY <1>0, <1>2, TopRight
  <1>4. GivesUp(i, k) /\ UNCHANGED <<attempt, client>>
    BY ReleaseGivesUp DEF TellClosed, ReleaseShare, clientVars
  <1>5. PICK next, retire : next = NextPlace(k) /\ retire = Retire(i, Top.op = "force")
    OBVIOUS
  <1>6. next.op = Top.op /\ next.slot = i /\ next.object = client[i]
    BY <1>2, <1>5, NextPlaceType DEF Loops
  <1>7. retire.op = "retire" /\ retire.slot = i /\ retire.object = client[i]
    BY <1>5 DEF Retire
  <1>8. retire.disconnect = (Top.op = "force")
    BY <1>5 DEF Retire
  <1>9. Top.op = "close" => attempt'[i] = None
    BY <1>2, <1>3, <1>4 DEF ItemRight
  <1>10. ItemRight(next)'
    BY <1>2, <1>4, <1>6, <1>9 DEF ItemRight
  <1>11. ItemRight(retire)'
    <2>1. ~retire.disconnect => attempt'[i] = None
      BY <1>2, <1>8, <1>9
    <2> QED
      BY <1>4, <1>7, <2>1 DEF ItemRight
  <1>12. NewRight(<<next, retire>>)
    BY <1>10, <1>11, TwoItems
  <1>13. OldRight(Len(stack) - 1) /\ Len(stack) - 1 # 0
    BY <1>0, <1>2, OldPlain, PromptIsGuarded, NotLowest
  <1>14. Becomes(Len(stack) - 1, <<next, retire>>)
    BY <1>0, <1>5, TellClosedStack
  <1> QED
    BY <1>0, <1>12, <1>13, <1>14, PromptStep

\* While its client connects, the shares of a slot wait to be told.
LEMMA WaitingForConnect ==
    ASSUME JInv, stack # <<>>, Top.op = "tick", NEW i \in Slots, link[i] \in {"fresh", "resolved"}
    PROVE  \A k \in Used(i) : callback[shares[i][k]] = "connect"
  <1>0. TypeOK /\ StackInv /\ PromptInv /\ AttendedInv
    BY DEF JInv, IInv
  <1>1. SUFFICES ASSUME NEW k \in Used(i) PROVE callback[shares[i][k]] = "connect"
    OBVIOUS
  <1>2. ~Pending(Reports, i, k)
    <2> SUFFICES ASSUME NEW n \in 1..Len(stack), stack[n].op \in Reports PROVE FALSE
      BY DEF Pending
    <2>1. stack[n] # Top /\ n # Len(stack)
      BY <1>0, StackTypes, TopType DEF Reports
    <2>2. stack[n].op \in {"leave", "tick", "receive"}
      BY <1>0, <2>1, PromptIsGuarded, BelowLoops
    <2> QED
      BY <2>2 DEF Reports
  <1> QED
    BY <1>0, <1>2 DEF AttendedInv, Attended, Following

\* The client of slot i connects.
LEMMA PromptConnects ==
    ASSUME JInv, ControlKept, NEW i \in Slots, ClientConnects(i)
    PROVE  PromptInv'
  <1>0. TypeOK /\ StackInv /\ PromptInv /\ LinkInv
    BY DEF JInv, IInv
  <1>1. /\ link[i] \in {"fresh", "resolved"} /\ Top.op = "tick" /\ stack # <<>>
        /\ Becomes(Len(stack) - 1,
                   <<TickSlot(i + 1), Receive(i), Loop("accept", i, 1, "Primary")>>)
    BY <1>0, ClientConnectsFacts, TickItem DEF ClientConnects, ClientTicks, TickAt
  <1>2. UNCHANGED <<client, shares, callback>>
    BY DEF ClientConnects, slotVars
  <1>3. \A k \in Used(i) : callback[shares[i][k]] = "connect"
    BY <1>0, <1>1, WaitingForConnect
  <1>4. PICK tick, receive, loop : /\ tick = TickSlot(i + 1) /\ receive = Receive(i)
                                   /\ loop = Loop("accept", i, 1, "Primary")
    OBVIOUS
  <1>5. Plain(tick) /\ Plain(receive)
    BY <1>4 DEF Plain, TickSlot, Receive
  <1>6. loop.op = "accept" /\ loop.slot = i /\ loop.object = client[i]
    BY <1>4 DEF Loop
  <1>7. ItemRight(loop)'
    <2>1. Used(i)' = Used(i)
      BY <1>2 DEF Used
    <2> QED
      BY <1>2, <1>3, <1>6, <2>1 DEF ItemRight
  <1>8. NewRight(<<tick, receive, loop>>)
    BY <1>5, <1>7, PlainIsRight, ThreeItems
  <1>9. OldRight(Len(stack) - 1) /\ Len(stack) - 1 # 0
    BY <1>0, <1>1, OldPlain, PromptIsGuarded, NotLowest
  <1>10. Becomes(Len(stack) - 1, <<tick, receive, loop>>)
    BY <1>1, <1>4
  <1> QED
    BY <1>0, <1>8, <1>9, <1>10, PromptStep

\* The client of slot i fails or loses its connection, in tick() or in its recv_hook().
LEMMA PromptReports ==
    ASSUME JInv, ControlKept, NEW i \in Slots, NEW op \in {"refuse", "close"}, Closes(i),
           stack # <<>>, Top.op \in {"tick", "receive"},
           op = "refuse" => Top.op = "tick" /\ link[i] \in {"fresh", "resolved"},
           \/ Becomes(Len(stack) - 1, <<TickSlot(i + 1), Loop(op, i, 1, "Primary")>>)
           \/ Becomes(Len(stack) - 1, <<Loop(op, i, 1, "Primary")>>)
    PROVE  PromptInv'
  <1>0. TypeOK /\ StackInv /\ PromptInv /\ LinkInv
    BY DEF JInv, IInv
  <1>1. UNCHANGED <<client, shares, callback>> /\ attempt'[i] = None
    BY <1>0 DEF Closes, CloseClient, slotVars, TypeOK
  <1>2. ASSUME op = "refuse" PROVE \A k \in Used(i) : callback[shares[i][k]] = "connect"
    BY <1>0, <1>2, WaitingForConnect
  <1>3. PICK tick, loop : tick = TickSlot(i + 1) /\ loop = Loop(op, i, 1, "Primary")
    OBVIOUS
  <1>4. Plain(tick)
    BY <1>3 DEF Plain, TickSlot
  <1>5. loop.op = op /\ loop.slot = i /\ loop.object = client[i]
    BY <1>3 DEF Loop
  <1>6. ItemRight(loop)'
    <2>1. Used(i)' = Used(i)
      BY <1>1 DEF Used
    <2> QED
      BY <1>1, <1>2, <1>5, <2>1 DEF ItemRight
  <1>7. NewRight(<<tick, loop>>) /\ NewRight(<<loop>>)
    BY <1>4, <1>6, PlainIsRight, OneItem, TwoItems
  <1>8. OldRight(Len(stack) - 1) /\ Len(stack) - 1 # 0
    BY <1>0, OldPlain, PromptIsGuarded, NotLowest
  <1>9. Becomes(Len(stack) - 1, <<tick, loop>>) \/ Becomes(Len(stack) - 1, <<loop>>)
    BY <1>3
  <1> QED
    BY <1>0, <1>7, <1>8, <1>9, PromptStep

\* acquire() takes slots whose clients have no host.
LEMMA FreeIsClosed ==
    ASSUME JInv, NEW i \in Slots, ~Live(i)
    PROVE  attempt[i] = None /\ Used(i) = {}
  <1>1. LinkInv /\ SharesAreCounted /\ DeletedIsClosed
    BY DEF JInv, IInv
  <1> QED
    BY <1>1 DEF LinkInv, SharesAreCounted, DeletedIsClosed, Live

LEMMA PromptKept ==
    ASSUME JInv, ~LateAnswers, [Next]_vars
    PROVE  PromptInv'
  <1>0. TypeOK /\ StackInv /\ PromptInv /\ SharesAreCounted /\ LinkInv /\ PlacesInv
    BY DEF JInv, IInv
  <1>1. PromptCases /\ ControlKept
    BY PromptSteps
  <1>2. CASE UNCHANGED <<slotVars, clientVars, goal, told, stack, non_reentrant>>
    <2>1. RightFrame /\ Becomes(Len(stack), <<>>)
      BY <1>0, <1>2, QuietRight, KeepStep DEF clientVars
    <2> QED
      BY <1>0, <1>1, <2>1, OldFrame, NoItem, PromptStep
  <1>3. CASE PopsQuietly
    <2>1. RightFrame /\ Becomes(Len(stack) - 1, <<>>)
      BY <1>0, <1>3, PopsQuietlyFacts, QuietRight DEF clientVars
    <2> QED
      BY <1>0, <1>1, <2>1, OldFrame, NoItem, PromptStep
  <1>4. CASE Tick
    <2>1. RightFrame /\ Becomes(Len(stack), <<Leave, TickSlot(1)>>)
      BY <1>0, <1>4, TickFacts, QuietRight DEF clientVars
    <2>2. PICK leave, tick : leave = Leave /\ tick = TickSlot(1)
      OBVIOUS
    <2>3. Plain(leave) /\ Plain(tick) /\ leave.op = "leave"
      BY <2>2 DEF Plain, Leave, TickSlot
    <2>4. NewRight(<<leave, tick>>)
      BY <2>3, PlainIsRight, TwoItems
    <2>5. Becomes(Len(stack), <<leave, tick>>) /\ <<leave, tick>>[1] = leave
      BY <2>1, <2>2
    <2> QED
      BY <1>0, <1>1, <2>1, <2>3, <2>4, <2>5, OldFrame, PromptStep
  <1>5. ASSUME NEW h \in Hosts, NEW i \in Slots, NEW k \in Places, AcquireShareAt(h, i, k)
        PROVE  PromptInv'
    BY <1>1, <1>5, PromptNew
  <1>6. ASSUME NEW h \in Hosts, NEW i \in Slots, AcquireSlotAt(h, i)
        PROVE  PromptInv'
    BY <1>1, <1>6, FreeIsClosed, PromptNew DEF AcquireSlotAt
  <1>7. ASSUME NEW a \in Acquires, NEW force \in BOOLEAN, NEW i \in Slots, NEW k \in Places,
               ReleaseAt(a, force, i, k)
        PROVE  PromptInv'
    BY <1>1, <1>7, PromptReleases
  <1>8. CASE RetireSlot
    <2>1. PICK i \in Slots : i = Top.slot
      BY <1>0, <1>8, RetireSlotFacts
    <2>2. Retires(i, Top.disconnect) /\ Becomes(Len(stack) - 1, <<>>)
      BY <1>0, <1>8, <2>1, RetireSlotFacts
    <2>3. UNCHANGED <<client, shares, callback>>
      BY <2>2 DEF Retires
    <2>4. \A j \in Slots : attempt'[j] = attempt[j] \/ attempt'[j] = None
      BY <1>0, <2>2 DEF Retires, CloseClient, clientVars, TypeOK
    <2>5. RightFrame
      BY <2>3, <2>4 DEF RightFrame, Used
    <2> QED
      BY <1>0, <1>1, <2>2, <2>5, OldFrame, NoItem, PromptStep
  <1>9. CASE DropShare /\ shares[Top.slot][Top.place] # None
    BY <1>1, <1>9, PromptDrops
  <1>10. ASSUME NEW i \in Slots, NEW k \in Places,
                TellConnected(i, k) \/ TellFailed(i, k) \/ TellClosed(i, k)
         PROVE  PromptInv'
    BY <1>1, <1>10, PromptTells, PromptTellsClosed
  <1>11. ASSUME NEW i \in Slots, TickDelete(i) \/ ClientWaits(i)
         PROVE  PromptInv'
    <2>1. Becomes(Len(stack) - 1, <<TickSlot(i + 1)>>) /\ Top.op = "tick" /\ stack # <<>>
      BY <1>0, <1>11, TickDeleteFacts, ClientWaitsFacts, TickItem
      DEF TickDelete, ClientWaits, ClientTicks, TickAt
    <2>2. PICK tick : tick = TickSlot(i + 1)
      OBVIOUS
    <2>3. Plain(tick)
      BY <2>2 DEF Plain, TickSlot
    <2>4. NewRight(<<tick>>)
      BY <2>3, PlainIsRight, OneItem
    <2>5. OldRight(Len(stack) - 1) /\ Len(stack) - 1 # 0
      BY <1>0, <2>1, OldPlain, PromptIsGuarded, NotLowest
    <2> QED
      BY <1>0, <1>1, <2>1, <2>2, <2>4, <2>5, PromptStep
  <1>12. ASSUME NEW i \in Slots, ClientConnects(i)
         PROVE  PromptInv'
    BY <1>1, <1>12, PromptConnects
  <1>13. ASSUME NEW i \in Slots, ClientFails(i) \/ ClientDisconnects(i)
         PROVE  PromptInv'
    <2>1. stack # <<>>
      BY <1>0, <1>13, TickItem DEF ClientFails, ClientDisconnects, ClientTicks, TickAt
    <2> QED
      BY <1>0, <1>1, <1>13, <2>1, ClientReportsFacts, PromptReports
  <1>14. CASE ClientReceives /\ ~UNCHANGED <<attempt, link>>
    <2>1. stack # <<>>
      BY <1>0, <1>14, ReceiveItem DEF ClientReceives
    <2> QED
      BY <1>0, <1>1, <1>14, <2>1, ReceiveClosesFacts, PromptReports
  <1> QED
    BY <1>1, <1>2, <1>3, <1>4, <1>5, <1>6, <1>7, <1>8, <1>9, <1>10, <1>11, <1>12, <1>13, <1>14
    DEF PromptCases

-----------------------------------------------------------------------------
(* What is to be deleted is closed.                                        *)

LEMMA DeletedKept ==
    ASSUME JInv, ~LateAnswers, [Next]_vars
    PROVE  DeletedIsClosed'
  <1>0. /\ TypeOK /\ StackInv /\ PromptInv /\ SharesAreCounted /\ LinkInv /\ PlacesInv
        /\ DeletedIsClosed
        /\ attempt \in [Slots -> Objects] /\ delete_pending \in [Slots -> BOOLEAN]
    BY DEF JInv, IInv, TypeOK
  <1>1. PromptCases
    BY PromptSteps
  <1>2. ASSUME UNCHANGED <<delete_pending, attempt>>
        PROVE  DeletedIsClosed'
    BY <1>0, <1>2 DEF DeletedIsClosed
  <1>3. ASSUME NEW i \in Slots, CloseClient(i),
               delete_pending' = delete_pending \/ delete_pending' = [delete_pending EXCEPT ![i] = FALSE]
        PROVE  DeletedIsClosed'
    BY <1>0, <1>3 DEF DeletedIsClosed, CloseClient
  <1>4. CASE UNCHANGED <<slotVars, clientVars, goal, told, stack, non_reentrant>>
    BY <1>2, <1>4 DEF slotVars, clientVars
  <1>5. CASE PopsQuietly
    BY <1>0, <1>2, <1>5, PopsQuietlyFacts DEF slotVars, clientVars
  <1>6. CASE Tick
    BY <1>2, <1>6 DEF Tick, slotVars, clientVars
  <1>7. ASSUME NEW h \in Hosts, NEW i \in Slots, NEW k \in Places, AcquireShareAt(h, i, k)
        PROVE  DeletedIsClosed'
    BY <1>2, <1>7 DEF AcquireShareAt, clientVars
  <1>8. ASSUME NEW h \in Hosts, NEW i \in Slots, AcquireSlotAt(h, i)
        PROVE  DeletedIsClosed'
    <2>1. /\ delete_pending' = [delete_pending EXCEPT ![i] = FALSE]
          /\ attempt' = attempt \/ attempt' = [attempt EXCEPT ![i] = acquired + 1]
      BY <1>8 DEF AcquireSlotAt
    <2> QED
      BY <1>0, <2>1 DEF DeletedIsClosed
  <1>9. ASSUME NEW a \in Acquires, NEW force \in BOOLEAN, NEW i \in Slots, NEW k \in Places,
               ReleaseAt(a, force, i, k)
        PROVE  DeletedIsClosed'
    BY <1>2, <1>9 DEF ReleaseAt, ReleaseShare, clientVars
  <1>10. CASE RetireSlot
    <2>1. PICK i \in Slots, disconnect \in BOOLEAN : i = Top.slot /\ disconnect = Top.disconnect
      BY <1>0, <1>10, RetireSlotFacts, RetireItem, ItemTypes DEF RetireSlot
    <2>2. Retires(i, disconnect) /\ Top.op = "retire" /\ stack # <<>>
      BY <1>0, <1>10, <2>1, RetireSlotFacts, RetireItem DEF RetireSlot
    <2>3. ~disconnect => attempt[i] = None
      BY <1>0, <2>1, <2>2, TopRight DEF ItemRight
    <2>4. delete_pending' = [delete_pending EXCEPT ![i] = @ \/ share_count[i] = 0]
      BY <2>2 DEF Retires
    <2>5. CASE share_count[i] = 0 /\ disconnect
      <3>1. attempt' = [attempt EXCEPT ![i] = None]
        BY <2>2, <2>5 DEF Retires, CloseClient
      <3> QED
        BY <1>0, <2>4, <3>1 DEF DeletedIsClosed
    <2>6. CASE ~(share_count[i] = 0 /\ disconnect)
      <3>1. attempt' = attempt
        BY <2>2, <2>6 DEF Retires, clientVars
      <3>2. delete_pending'[i] => attempt[i] = None
        BY <1>0, <2>3, <2>4, <2>6 DEF DeletedIsClosed
      <3>3. \A j \in Slots : j # i => delete_pending'[j] = delete_pending[j]
        BY <1>0, <2>4
      <3> QED
        BY <1>0, <3>1, <3>2, <3>3 DEF DeletedIsClosed
    <2> QED
      BY <2>5, <2>6
  <1>11. CASE DropShare
    BY <1>2, <1>11 DEF DropShare, ReleaseShare, slotVars, clientVars
  <1>12. ASSUME NEW i \in Slots, NEW k \in Places,
                TellConnected(i, k) \/ TellFailed(i, k) \/ TellClosed(i, k)
         PROVE  DeletedIsClosed'
    BY <1>2, <1>12 DEF TellConnected, TellFailed, TellClosed, ReleaseShare, clientVars
  <1>13. ASSUME NEW i \in Slots,
                \/ TickDelete(i) \/ ClientWaits(i) \/ ClientConnects(i)
                \/ ClientFails(i) \/ ClientDisconnects(i)
         PROVE  DeletedIsClosed'
    BY <1>2, <1>3, <1>13
    DEF TickDelete, ClientWaits, ClientConnects, ClientFails, ClientDisconnects, slotVars
  <1>14. CASE ClientReceives
    <2>1. Top.slot \in Slots
      BY <1>0, <1>14, ReceiveItem DEF ClientReceives
    <2> QED
      BY <1>2, <1>3, <1>14, <2>1 DEF ClientReceives, slotVars
  <1> QED
    BY <1>1, <1>4, <1>5, <1>6, <1>7, <1>8, <1>9, <1>10, <1>11, <1>12, <1>13, <1>14 DEF PromptCases

-----------------------------------------------------------------------------
(* Every share is attended to.                                             *)

\* What is pending for a share that a step leaves alone is still pending.
StillPending(i, k) ==
    /\ Pending(Removals, i, k) => Pending(Removals, i, k)'
    /\ Pending(Reports, i, k) => Pending(Reports, i, k)'

LEMMA StackLeaves ==
    ASSUME TypeOK, NEW b, NEW items, Becomes(b, items), NEW i, NEW k,
           \/ b = Len(stack)
           \/ /\ b = Len(stack) - 1 /\ stack # <<>>
              /\ \/ Top.op \notin {"accept", "refuse", "close", "drop"}
                 \/ Top.slot # i
                 \/ ~(Top.place <= k)
    PROVE  StillPending(i, k)
  BY PendingKept DEF StillPending, Removals, Reports

\* The share at place k of slot i stays as it is, and so does what is to be done for it.
Unaffected(i, k) ==
    /\ k \in Used(i)
    /\ shares'[i][k] = shares[i][k]
    /\ callback'[shares[i][k]] = callback[shares[i][k]]
    /\ attempt'[i] = attempt[i]
    /\ link'[i] = link[i] \/ {link[i], link'[i]} \cap {"closed", "connected"} = {}
    /\ StillPending(i, k)

LEMMA UnaffectedAttended ==
    ASSUME AttendedInv, NEW i \in Slots, NEW k, Unaffected(i, k)
    PROVE  Attended(i, k)'
  <1>1. Attended(i, k) /\ StillPending(i, k)
    BY DEF AttendedInv, Unaffected
  <1>2. attempt'[i] = None => Pending(Removals, i, k)'
    BY <1>1 DEF Attended, StillPending, Unaffected
  <1>3. Following(i, k) => Following(i, k)'
    BY DEF Following, Unaffected
  <1>4. Following(i, k)' \/ Pending(Reports, i, k)'
    BY <1>1, <1>3 DEF Attended, StillPending
  <1> QED
    BY <1>2, <1>4 DEF Attended

\* A step that changes no share or client.
LEMMA AttendedQuiet ==
    ASSUME TypeOK, AttendedInv, UNCHANGED <<shares, callback, attempt>>,
           \A i \in Slots : link'[i] = link[i] \/ {link[i], link'[i]} \cap {"closed", "connected"} = {},
           NEW b, NEW items, Becomes(b, items),
           \/ b = Len(stack)
           \/ /\ b = Len(stack) - 1 /\ stack # <<>>
              /\ Top.op \notin {"accept", "refuse", "close", "drop"}
    PROVE  AttendedInv'
  <1> SUFFICES ASSUME NEW i \in Slots, NEW k \in Used(i)' PROVE Attended(i, k)'
    BY DEF AttendedInv
  <1>1. k \in Used(i) /\ StillPending(i, k)
    BY StackLeaves DEF Used
  <1> QED
    BY <1>1, UnaffectedAttended DEF Unaffected

\* What dropping a share does not do, the loop below does for the places that follow.
LEMMA DropsOne ==
    ASSUME TypeOK, StackInv, Doing("drop"), NEW items, Becomes(Len(stack) - 1, items),
           NEW i \in Slots, NEW k \in Places, Top.slot = i => Top.place # k
    PROVE  StillPending(i, k)
  <1>1. /\ stack # <<>> /\ Top.op = "drop" /\ Top.place \in Places /\ Len(stack) > 1
        /\ stack[Len(stack) - 1].op = "refuse" /\ stack[Len(stack) - 1].slot = Top.slot
        /\ stack[Len(stack) - 1].place = Top.place + 1
    BY DropItem
  <1>2. CASE Top.slot # i \/ ~(Top.place <= k)
    BY <1>1, <1>2, StackLeaves
  <1>3. CASE Top.slot = i /\ Top.place <= k
    <2>1. Top.place + 1 <= k
      BY <1>1, <1>3 DEF Places
    <2>2. PICK n \in 1..Len(stack) : n = Len(stack) - 1
      BY <1>1, StackTypes
    <2>3. n \in 1..Len(stack') /\ stack'[n] = stack[n]
      BY <2>2, ItemKept, StackTypes
    <2>4. Pending(Removals, i, k)'
      BY <1>1, <1>3, <2>1, <2>2, <2>3 DEF Pending, Removals
    <2>5. Pending(Reports, i, k)'
      BY <1>1, <1>3, <2>1, <2>2, <2>3 DEF Pending, Reports
    <2> QED
      BY <2>4, <2>5 DEF StillPending
  <1> QED
    BY <1>2, <1>3

\* A loop ends when there is no share left for it.
LEMMA AttendedPops ==
    ASSUME JInv, PopsQuietly
    PROVE  AttendedInv'
  <1>0. TypeOK /\ StackInv /\ SharesAreCounted /\ PromptInv /\ AttendedInv
    BY DEF JInv, IInv
  <1>1. /\ UNCHANGED <<shares, callback, attempt, link>>
        /\ stack # <<>> /\ Top \in Items /\ Top = stack[Len(stack)]
        /\ Becomes(Len(stack) - 1, <<>>)
    BY <1>0, PopsQuietlyFacts DEF slotVars, clientVars
  <1>2. CASE Top.op \notin {"accept", "refuse", "close", "drop"}
    BY <1>0, <1>1, <1>2, AttendedQuiet
  <1>3. CASE Top.op \in {"accept", "refuse", "close"}
    <2>1. LoopEnds
      BY <1>3 DEF PopsQuietly, LeaveScope, TickEnds, ClientReceives, DropShare, Doing
    <2>2. Top.slot \in Slots /\ Top.place \in 1..(MaxShares + 1)
      BY <1>1, <1>3, ItemTypes DEF Loops
    <2>3. ASSUME NEW k \in Used(Top.slot), Top.place <= k PROVE FALSE
      <3>1. k \in Places
        BY DEF Used
      <3>2. ~(Top.place > MaxShares)
        BY <2>2, <2>3, <3>1 DEF Places
      <3>3. Ahead = {}
        BY <2>1, <3>2 DEF LoopEnds
      <3> QED
        BY <2>2, <2>3, <3>1, <3>3 DEF Ahead, Places
    <2>4. ASSUME NEW i \in Slots, NEW k \in Used(i)' PROVE Attended(i, k)'
      <3>1. k \in Used(i)
        BY <1>1, <2>4 DEF Used
      <3>2. Top.slot # i \/ ~(Top.place <= k)
        BY <2>3, <3>1
      <3>3. StillPending(i, k)
        BY <1>0, <1>1, <3>2, StackLeaves
      <3> QED
        BY <1>0, <1>1, <3>1, <3>3, UnaffectedAttended DEF Unaffected
    <2> QED
      BY <2>4 DEF AttendedInv
  <1>4. CASE Top.op = "drop"
    <2>1. DropShare /\ shares[Top.slot][Top.place] = None
      BY <1>4 DEF PopsQuietly, LeaveScope, LoopEnds, Looping, TickEnds, ClientReceives, Doing
    <2>2. ASSUME NEW i \in Slots, NEW k \in Used(i)' PROVE Attended(i, k)'
      <3>1. k \in Used(i)
        BY <1>1, <2>2 DEF Used
      <3>2. Top.slot = i => Top.place # k
        BY <2>1, <3>1 DEF Used
      <3>3. StillPending(i, k)
        BY <1>0, <1>1, <2>1, <3>1, <3>2, DropsOne DEF DropShare, Used
      <3> QED
        BY <1>0, <1>1, <3>1, <3>3, UnaffectedAttended DEF Unaffected
    <2> QED
      BY <2>2 DEF AttendedInv
  <1> QED
    BY <1>2, <1>3, <1>4

\* A new share has the callback that the client calls for.
LEMMA AttendedNew ==
    ASSUME JInv, NEW h \in Hosts, NEW i \in Slots, NEW k \in Places, NewShareAt(h, i, k)
    PROVE  AttendedInv'
  <1>0. /\ TypeOK /\ StackInv /\ SharesAreCounted /\ PromptInv /\ AttendedInv /\ LinkInv /\ PlacesInv
        /\ link \in [Slots -> Links] /\ attempt \in [Slots -> Objects]
        /\ callback \in [Acquires -> {"none", "connect", "disconnect"}]
    BY DEF JInv, IInv, TypeOK
  <1>1. /\ IsPlaced(i, k, acquired + 1) /\ acquired + 1 \in Acquires /\ acquired \in Nat
    BY <1>0, NewShareFacts, UserValues
  <1>2. stack = <<>>
    BY <1>0, PromptIsGuarded, UserFinds DEF NewShareAt, AcquireShareAt, AcquireSlotAt, MayAcquire
  <1>3. /\ attempt'[i] # None
        /\ callback'[acquired + 1] = IF link'[i] = "connected" THEN "disconnect" ELSE "connect"
        /\ link'[i] # "closed"
        /\ \A j \in Slots : j # i \/ Used(j) # {} => attempt'[j] = attempt[j] /\ link'[j] = link[j]
    <2>1. CASE AcquireShareAt(h, i, k)
      <3>1. UNCHANGED <<attempt, link>> /\ attempt[i] # None
        BY <2>1 DEF AcquireShareAt, clientVars, Matching, HasHost
      <3>2. link[i] # "closed"
        BY <1>0, <3>1 DEF LinkInv
      <3>3. \E held \in {"disconnect", "connect"} :
                /\ held = IF link[i] = "connected" THEN "disconnect" ELSE "connect"
                /\ callback' = [callback EXCEPT ![acquired + 1] = held]
        BY <2>1 DEF AcquireShareAt, PlaceShare, ToldAtOnce
      <3>4. callback'[acquired + 1] = IF link[i] = "connected" THEN "disconnect" ELSE "connect"
        BY <1>0, <1>1, <3>3
      <3> QED
        BY <3>1, <3>2, <3>4
    <2>2. CASE AcquireSlotAt(h, i)
      <3>1. attempt[i] = None /\ Used(i) = {}
        BY <2>2, FreeIsClosed DEF AcquireSlotAt
      <3>2. /\ attempt' = [attempt EXCEPT ![i] = acquired + 1]
            /\ link' = [link EXCEPT ![i] = "fresh"]
            /\ callback' = [callback EXCEPT ![acquired + 1] = "connect"]
        BY <2>2, <3>1 DEF AcquireSlotAt, PlaceShare
      <3> QED
        BY <1>0, <1>1, <3>1, <3>2 DEF None
    <2> QED
      BY <2>1, <2>2 DEF NewShareAt
  <1>4. ASSUME NEW j \in Slots, NEW m \in Used(j)' PROVE Attended(j, m)'
    <2>1. CASE j = i /\ m = k
      <3>1. shares'[j][m] = acquired + 1
        BY <1>1, <2>1 DEF IsPlaced
      <3>2. Following(j, m)'
        BY <1>3, <2>1, <3>1 DEF Following
      <3> QED
        BY <1>3, <2>1, <3>2 DEF Attended
    <2>2. CASE ~(j = i /\ m = k)
      <3>1. m \in Used(j) /\ m \in Places /\ shares'[j][m] = shares[j][m]
        BY <1>1, <2>2 DEF IsPlaced, Used
      <3>2. shares[j][m] \in Acquires /\ shares[j][m] # acquired + 1
        <4>1. shares[j][m] \in Acquires /\ shares[j][m] <= acquired
          BY <1>0, <3>1, UsedFacts DEF PlacesInv
        <4> QED
          BY <1>1, <4>1 DEF Acquires
      <3>3. callback'[shares[j][m]] = callback[shares[j][m]]
        BY <1>1, <3>2 DEF IsPlaced
      <3>4. attempt'[j] = attempt[j] /\ link'[j] = link[j]
        BY <1>3, <3>1
      <3>5. StillPending(j, m)
        BY <1>2 DEF StillPending, Pending
      <3> QED
        BY <1>0, <3>1, <3>3, <3>4, <3>5, UnaffectedAttended DEF Unaffected
    <2> QED
      BY <2>1, <2>2
  <1> QED
    BY <1>4 DEF AttendedInv

\* When a share is given up the others stay as they are.
LEMMA AttendedGivenUp ==
    ASSUME JInv, NEW i \in Slots, NEW k \in Used(i), GivesUp(i, k), UNCHANGED clientVars,
           \A j \in Slots : \A m \in Used(j) : j # i \/ m # k => StillPending(j, m)
    PROVE  AttendedInv'
  <1>0. TypeOK /\ SharesAreCounted /\ AttendedInv /\ PlacesInv
    BY DEF JInv, IInv
  <1>1. /\ Used(i)' = Used(i) \ {k}
        /\ \A j \in Slots : j # i => Used(j)' = Used(j)
        /\ \A j \in Slots : \A m \in Places : j # i \/ m # k => shares'[j][m] = shares[j][m]
    <2>1. Used(i)' = Used(i) \ {k}
      BY <1>0, GivesUpUsed
    <2>2. \A j \in Slots : j # i => Used(j)' = Used(j)
      BY <1>0, GivesUpUsed
    <2>3. ASSUME NEW j \in Slots, NEW m \in Places, j # i \/ m # k
          PROVE  shares'[j][m] = shares[j][m]
      <3>1. shares \in [Slots -> [Places -> Objects]]
        BY <1>0 DEF TypeOK
      <3>2. shares' = [shares EXCEPT ![i][k] = None]
        BY DEF GivesUp
      <3> QED
        BY <2>3, <3>1, <3>2
    <2> QED
      BY <2>1, <2>2, <2>3
  <1>2. ASSUME NEW j \in Slots, NEW m \in Used(j)' PROVE Attended(j, m)'
    <2>1. m \in Used(j) /\ (j # i \/ m # k)
      BY <1>1, <1>2
    <2>2. m \in Places
      BY <2>1 DEF Used
    <2>3. SetsCallback(i, k)
      BY DEF GivesUp, SetsCallback
    <2>4. callback'[shares[j][m]] = callback[shares[j][m]]
      BY <1>0, <2>1, <2>3, OtherCallbacks
    <2>5. shares'[j][m] = shares[j][m] /\ attempt'[j] = attempt[j] /\ link'[j] = link[j]
      BY <1>1, <2>1, <2>2 DEF clientVars
    <2> QED
      BY <1>0, <2>1, <2>4, <2>5, UnaffectedAttended DEF Unaffected
  <1> QED
    BY <1>2 DEF AttendedInv

\* A loop that goes on behind the share it is at goes on for all that follow.
LEMMA LoopGoesOn ==
    ASSUME JInv, NEW ops \in SUBSET Loops, NEW i \in Slots, NEW k \in Places, LoopAt(ops, i, k),
           NEW items, Becomes(Len(stack) - 1, items), 1 \in 1..Len(items), items[1] = NextPlace(k),
           NEW j \in Slots, NEW m \in Used(j), j # i \/ m # k
    PROVE  StillPending(j, m)
  <1>0. TypeOK /\ StackInv
    BY DEF JInv, IInv
  <1>1. /\ stack # <<>> /\ Top \in Items /\ Top.op \in ops /\ Top.slot = i
        /\ k \in Used(i) /\ \A n \in Used(i) : n >= Top.place => k <= n
    BY <1>0, LoopItem
  <1>2. Top.place \in Nat
    BY <1>1, ItemTypes
  <1>3. items[1].op = Top.op /\ items[1].slot = i /\ items[1].place = k + 1
    BY <1>1, NextPlaceType
  <1>4. CASE i # j \/ ~(Top.place <= m)
    BY <1>0, <1>1, <1>4, StackLeaves
  <1>5. CASE i = j /\ Top.place <= m
    <2>1. m \in Nat /\ k \in Nat
      BY DEF Used, Places
    <2>2. k + 1 <= m
      BY <1>1, <1>2, <1>5, <2>1
    <2>3. ASSUME NEW all, Pending(all, j, m) PROVE Pending(all, j, m)'
      <3>1. CASE Top.op \in all
        BY <1>0, <1>3, <1>5, <2>2, <3>1, PendingNew
      <3>2. CASE Top.op \notin all
        BY <1>0, <1>1, <2>3, <3>2, PendingKept
      <3> QED
        BY <3>1, <3>2
    <2> QED
      BY <2>3 DEF StillPending
  <1> QED
    BY <1>4, <1>5

LEMMA AttendedTellsClosed ==
    ASSUME JInv, NEW i \in Slots, NEW k \in Places, TellClosed(i, k)
    PROVE  AttendedInv'
  <1>0. TypeOK /\ StackInv /\ SharesAreCounted
    BY DEF JInv, IInv
  <1>1. LoopAt({"close", "force"}, i, k) /\ UNCHANGED clientVars /\ GivesUp(i, k)
    BY ReleaseGivesUp DEF TellClosed
  <1>2. k \in Used(i)
    BY <1>0, <1>1, LoopItem DEF Loops
  <1> DEFINE items == <<NextPlace(k), Retire(i, Top.op = "force")>>
  <1>3. Becomes(Len(stack) - 1, items) /\ 1 \in 1..Len(items) /\ items[1] = NextPlace(k)
    BY <1>0, TellClosedStack
  <1> HIDE DEF items
  <1>4. {"close", "force"} \in SUBSET Loops
    BY DEF Loops
  <1>5. \A j \in Slots : \A m \in Used(j) : j # i \/ m # k => StillPending(j, m)
    BY <1>1, <1>3, <1>4, LoopGoesOn
  <1> QED
    BY <1>1, <1>2, <1>5, AttendedGivenUp

\* The share that is told has the right callback then, or is about to be dropped.
LEMMA AttendedTells ==
    ASSUME JInv, NEW i \in Slots, NEW k \in Places, TellConnected(i, k) \/ TellFailed(i, k)
    PROVE  AttendedInv'
  <1>0. /\ TypeOK /\ StackInv /\ PlacesInv /\ LinkInv /\ PromptInv /\ AttendedInv /\ ConnectedInv
        /\ callback \in [Acquires -> {"none", "connect", "disconnect"}]
    BY DEF JInv, IInv, TypeOK
  <1>1. UNCHANGED <<attempt, link, shares>> /\ SetsCallback(i, k)
    BY DEF TellConnected, TellFailed, clientVars, SetsCallback
  <1>2. /\ k \in Used(i) /\ shares[i][k] \in Acquires /\ stack # <<>>
        /\ Top.slot = i /\ Top = stack[Len(stack)]
        /\ TellConnected(i, k) => Top.op = "accept"
        /\ TellFailed(i, k) => Top.op = "refuse"
    <2>1. TellConnected(i, k) => LoopAt({"accept"}, i, k)
      BY DEF TellConnected
    <2>2. TellFailed(i, k) => LoopAt({"refuse"}, i, k)
      BY DEF TellFailed
    <2>3. LoopAt({"accept"}, i, k) => k \in Used(i) /\ stack # <<>> /\ Top.slot = i
                                      /\ Top = stack[Len(stack)] /\ Top.op = "accept"
      BY <1>0, LoopItem DEF Loops
    <2>4. LoopAt({"refuse"}, i, k) => k \in Used(i) /\ stack # <<>> /\ Top.slot = i
                                      /\ Top = stack[Len(stack)] /\ Top.op = "refuse"
      BY <1>0, LoopItem DEF Loops
    <2>5. k \in Used(i)
      BY <2>1, <2>2, <2>3, <2>4
    <2>6. shares[i][k] \in Acquires
      BY <1>0, <2>5, UsedFacts
    <2> QED
      BY <2>1, <2>2, <2>3, <2>4, <2>6
  <1>3. \A j \in Slots : \A m \in Used(j) : j # i \/ m # k => StillPending(j, m)
    <2>1. CASE TellConnected(i, k)
      <3> DEFINE items == <<NextPlace(k)>>
      <3>1. Becomes(Len(stack) - 1, items) /\ 1 \in 1..Len(items) /\ items[1] = NextPlace(k)
        BY <1>0, <2>1, TellConnectedStack
      <3> HIDE DEF items
      <3>2. LoopAt({"accept"}, i, k) /\ {"accept"} \in SUBSET Loops
        BY <2>1 DEF TellConnected, Loops
      <3> QED
        BY <3>1, <3>2, LoopGoesOn
    <2>2. CASE TellFailed(i, k)
      <3> DEFINE items == <<NextPlace(k), Drop(i, k)>>
      <3>1. Becomes(Len(stack) - 1, items) /\ 1 \in 1..Len(items) /\ items[1] = NextPlace(k)
        BY <1>0, <2>2, TellFailedStack
      <3> HIDE DEF items
      <3>2. LoopAt({"refuse"}, i, k) /\ {"refuse"} \in SUBSET Loops
        BY <2>2 DEF TellFailed, Loops
      <3> QED
        BY <3>1, <3>2, LoopGoesOn
    <2> QED
      BY <2>1, <2>2
  <1>4. Attended(i, k)'
    <2>1. CASE TellConnected(i, k)
      <3>1. link[i] = "connected"
        <4>1. Len(stack) \in 1..Len(stack)
          BY <1>0, <1>2, StackTypes, TopType
        <4>2. AcceptRight(stack[Len(stack)])
          BY <1>0, <1>2, <2>1, <4>1, ConnectedParts
        <4> QED
          BY <1>2, <4>2 DEF AcceptRight
      <3>2. attempt[i] # None
        BY <1>0, <3>1 DEF LinkInv
      <3>3. callback'[shares[i][k]] = "disconnect"
        BY <1>0, <1>2, <2>1 DEF TellConnected
      <3>4. Following(i, k)'
        BY <1>1, <3>1, <3>3 DEF Following
      <3> QED
        BY <1>1, <3>2, <3>4 DEF Attended
    <2>2. CASE TellFailed(i, k)
      <3>1. attempt[i] = None /\ link[i] = "closed"
        BY <1>0, <1>2, <2>2, TopRight DEF ItemRight, LinkInv
      <3>2. callback'[shares[i][k]] = "none"
        BY <1>0, <1>2, <2>2 DEF TellFailed
      <3>3. Following(i, k)'
        BY <1>1, <3>1, <3>2 DEF Following
      <3>4. Pending(Removals, i, k)'
        <4> DEFINE items == <<NextPlace(k), Drop(i, k)>>
        <4>1. Becomes(Len(stack) - 1, items) /\ 2 \in 1..Len(items) /\ items[2] = Drop(i, k)
          BY <1>0, <2>2, TellFailedStack
        <4> HIDE DEF items
        <4>2. Drop(i, k).op = "drop" /\ Drop(i, k).slot = i /\ Drop(i, k).place = k
          BY DEF Drop
        <4>3. items[2].op \in Removals /\ items[2].slot = i /\ items[2].place <= k
          BY <4>1, <4>2 DEF Removals, Places
        <4> QED
          BY <1>0, <4>1, <4>3, PendingNew
      <3> QED
        BY <3>3, <3>4 DEF Attended
    <2> QED
      BY <2>1, <2>2
  <1>5. ASSUME NEW j \in Slots, NEW m \in Used(j)' PROVE Attended(j, m)'
    <2>1. m \in Used(j)
      BY <1>1 DEF Used
    <2>2. CASE j = i /\ m = k
      BY <1>4, <2>2
    <2>3. CASE j # i \/ m # k
      <3>1. callback'[shares[j][m]] = callback[shares[j][m]]
        BY <1>0, <1>1, <1>2, <2>1, <2>3, OtherCallbacks
      <3> QED
        BY <1>0, <1>1, <1>3, <2>1, <2>3, <3>1, UnaffectedAttended DEF Unaffected
    <2> QED
      BY <2>2, <2>3
  <1> QED
    BY <1>5 DEF AttendedInv

\* The client of slot i has something to report, which a new loop is to tell its shares.
LEMMA AttendedReports ==
    ASSUME JInv, NEW i \in Slots, NEW ops,
           UNCHANGED <<shares, callback>>,
           \A j \in Slots : j # i => attempt'[j] = attempt[j] /\ link'[j] = link[j],
           attempt'[i] = None => ops \subseteq Removals,
           ops \subseteq Reports,
           stack # <<>>, Top.op \notin {"accept", "refuse", "close", "drop"},
           NEW items, Becomes(Len(stack) - 1, items), NEW n \in 1..Len(items),
           items[n].op \in ops, items[n].slot = i, items[n].place = 1
    PROVE  AttendedInv'
  <1>0. TypeOK /\ AttendedInv
    BY DEF JInv, IInv
  <1>1. ASSUME NEW j \in Slots, NEW k \in Used(j)' PROVE Attended(j, k)'
    <2>1. k \in Used(j) /\ 1 <= k
      BY <1>1 DEF Used, Places
    <2>2. CASE j = i
      <3>1. ASSUME NEW all, ops \subseteq all PROVE Pending(all, i, k)'
        <4>1. items[n].op \in all /\ items[n].slot = i /\ items[n].place <= k
          BY <2>1, <3>1
        <4> QED
          BY <1>0, <4>1, PendingNew
      <3> QED
        BY <2>2, <3>1 DEF Attended
    <2>3. CASE j # i
      <3>1. StillPending(j, k)
        BY <1>0, StackLeaves
      <3> QED
        BY <1>0, <2>1, <2>3, <3>1, UnaffectedAttended DEF Unaffected
    <2> QED
      BY <2>2, <2>3
  <1> QED
    BY <1>1 DEF AttendedInv

LEMMA AttendedCloses ==
    ASSUME JInv, NEW i \in Slots, NEW op \in {"refuse", "close"}, Closes(i),
           stack # <<>>, Top.op \in {"tick", "receive"},
           \/ Becomes(Len(stack) - 1, <<TickSlot(i + 1), Loop(op, i, 1, "Primary")>>)
           \/ Becomes(Len(stack) - 1, <<Loop(op, i, 1, "Primary")>>)
    PROVE  AttendedInv'
  <1>1. /\ UNCHANGED <<shares, callback>>
        /\ \A j \in Slots : j # i => attempt'[j] = attempt[j] /\ link'[j] = link[j]
    BY DEF Closes, CloseClient, slotVars, JInv, IInv, TypeOK
  <1>2. {op} \subseteq Removals /\ {op} \subseteq Reports
    BY DEF Removals, Reports
  <1>3. PICK items, n : /\ Becomes(Len(stack) - 1, items) /\ n \in 1..Len(items)
                        /\ items[n] = Loop(op, i, 1, "Primary")
    <2> DEFINE one == <<Loop(op, i, 1, "Primary")>>
               two == <<TickSlot(i + 1), Loop(op, i, 1, "Primary")>>
    <2>1. 1 \in 1..Len(one) /\ one[1] = Loop(op, i, 1, "Primary")
      OBVIOUS
    <2>2. 2 \in 1..Len(two) /\ two[2] = Loop(op, i, 1, "Primary")
      OBVIOUS
    <2>3. Becomes(Len(stack) - 1, two) \/ Becomes(Len(stack) - 1, one)
      OBVIOUS
    <2> HIDE DEF one, two
    <2> QED
      BY <2>1, <2>2, <2>3
  <1>4. items[n].op \in {op} /\ items[n].slot = i /\ items[n].place = 1
    BY <1>3 DEF Loop
  <1> QED
    BY <1>1, <1>2, <1>3, <1>4, AttendedReports

LEMMA AttendedConnects ==
    ASSUME JInv, NEW i \in Slots, ClientConnects(i)
    PROVE  AttendedInv'
  <1>0. /\ TypeOK /\ StackInv /\ LinkInv /\ link \in [Slots -> Links]
    BY DEF JInv, IInv, TypeOK
  <1>1. /\ UNCHANGED <<shares, callback, attempt>> /\ link' = [link EXCEPT ![i] = "connected"]
        /\ link[i] # "closed" /\ Top.op = "tick" /\ stack # <<>>
    BY <1>0, TickItem DEF ClientConnects, ClientTicks, TickAt, slotVars
  <1>2. attempt'[i] # None
    BY <1>0, <1>1 DEF LinkInv
  <1>3. \A j \in Slots : j # i => attempt'[j] = attempt[j] /\ link'[j] = link[j]
    BY <1>0, <1>1
  <1> DEFINE items == <<TickSlot(i + 1), Receive(i), Loop("accept", i, 1, "Primary")>>
  <1>4. /\ Becomes(Len(stack) - 1, items) /\ 3 \in 1..Len(items)
        /\ items[3] = Loop("accept", i, 1, "Primary")
    BY <1>0, ClientConnectsStack
  <1> HIDE DEF items
  <1>5. items[3].op \in {"accept"} /\ items[3].slot = i /\ items[3].place = 1
    BY <1>4 DEF Loop
  <1>6. {"accept"} \subseteq Reports
    BY DEF Reports
  <1> QED
    BY <1>1, <1>2, <1>3, <1>4, <1>5, <1>6, AttendedReports

LEMMA AttendedKept ==
    ASSUME JInv, ~LateAnswers, [Next]_vars
    PROVE  AttendedInv'
  <1>0. /\ TypeOK /\ StackInv /\ PromptInv /\ SharesAreCounted /\ LinkInv /\ PlacesInv
        /\ AttendedInv
        /\ attempt \in [Slots -> Objects] /\ link \in [Slots -> Links]
    BY DEF JInv, IInv, TypeOK
  <1>1. PromptCases
    BY PromptSteps
  <1>2. CASE UNCHANGED <<slotVars, clientVars, goal, told, stack, non_reentrant>>
    <2>1. Becomes(Len(stack), <<>>) /\ UNCHANGED <<shares, callback, attempt, link>>
      BY <1>0, <1>2, KeepStep DEF slotVars, clientVars
    <2> QED
      BY <1>0, <2>1, AttendedQuiet
  <1>3. CASE PopsQuietly
    BY <1>3, AttendedPops
  <1>4. CASE Tick
    <2>1. \E items : Becomes(Len(stack), items)
      BY <1>0, <1>4, TickFacts
    <2>2. UNCHANGED <<shares, callback, attempt, link>>
      BY <1>4 DEF Tick, slotVars, clientVars
    <2> QED
      BY <1>0, <2>1, <2>2, AttendedQuiet
  <1>5. ASSUME NEW h \in Hosts, NEW i \in Slots, NEW k \in Places, AcquireShareAt(h, i, k)
        PROVE  AttendedInv'
    BY <1>5, AttendedNew DEF NewShareAt
  <1>6. ASSUME NEW h \in Hosts, NEW i \in Slots, AcquireSlotAt(h, i)
        PROVE  AttendedInv'
    <2>1. 1 \in Places
      BY DEF Places
    <2> QED
      BY <1>6, <2>1, AttendedNew DEF NewShareAt
  <1>7. ASSUME NEW a \in Acquires, NEW force \in BOOLEAN, NEW i \in Slots, NEW k \in Places,
               ReleaseAt(a, force, i, k)
        PROVE  AttendedInv'
    <2>1. k \in Used(i)
      BY <1>7 DEF ReleaseAt, Used, Acquires, None
    <2>2. GivesUp(i, k) /\ UNCHANGED clientVars
      BY <1>7, ReleaseGivesUp DEF ReleaseAt
    <2>3. \E items : Becomes(Len(stack), items)
      BY <1>0, <1>7, ReleaseStack
    <2>4. \A j \in Slots : \A m \in Used(j) : StillPending(j, m)
      BY <1>0, <2>3, StackLeaves
    <2> QED
      BY <2>1, <2>2, <2>4, AttendedGivenUp
  <1>8. CASE RetireSlot
    <2>1. PICK i \in Slots, disconnect \in BOOLEAN : i = Top.slot /\ disconnect = Top.disconnect
      BY <1>0, <1>8, RetireSlotFacts, RetireItem DEF RetireSlot
    <2>2. /\ Retires(i, disconnect) /\ Top.op = "retire" /\ stack # <<>>
          /\ Becomes(Len(stack) - 1, <<>>)
      BY <1>0, <1>8, <2>1, RetireSlotFacts, RetireItem DEF RetireSlot
    <2>3. ASSUME NEW j \in Slots, NEW k \in Used(j)' PROVE Attended(j, k)'
      <3>1. k \in Used(j) /\ UNCHANGED <<shares, callback>>
        BY <2>2, <2>3 DEF Used, Retires
      <3>2. StillPending(j, k)
        BY <1>0, <2>2, StackLeaves
      <3>3. attempt'[j] = attempt[j] /\ link'[j] = link[j]
        <4>1. CASE share_count[i] = 0 /\ disconnect
          <5>1. Used(i) = {}
            <6>1. IsFiniteSet(Used(i)) /\ Cardinality(Used(i)) = 0
              BY <1>0, <4>1, UsedFacts DEF SharesAreCounted
            <6> QED
              BY <6>1, FS_EmptySet
          <5>2. j # i
            BY <3>1, <5>1
          <5> QED
            BY <1>0, <2>2, <4>1, <5>2 DEF Retires, CloseClient
        <4>2. CASE ~(share_count[i] = 0 /\ disconnect)
          BY <2>2, <4>2 DEF Retires, clientVars
        <4> QED
          BY <4>1, <4>2
      <3> QED
        BY <1>0, <3>1, <3>2, <3>3, UnaffectedAttended DEF Unaffected
    <2> QED
      BY <2>3 DEF AttendedInv
  <1>9. CASE DropShare /\ shares[Top.slot][Top.place] # None
    <2>1. PICK i \in Slots, k \in Places : i = Top.slot /\ k = Top.place
      BY <1>0, <1>9, DropItem DEF DropShare
    <2>2. /\ k \in Used(i) /\ GivesUp(i, k) /\ UNCHANGED clientVars
          /\ \E items : Becomes(Len(stack) - 1, items)
      BY <1>0, <1>9, <2>1, ReleaseGivesUp, DropShareStack DEF DropShare, Used
    <2>3. ASSUME NEW j \in Slots, NEW m \in Used(j), j # i \/ m # k
          PROVE  StillPending(j, m)
      <3>1. m \in Places /\ (Top.slot = j => Top.place # m)
        BY <2>1, <2>3 DEF Used
      <3> QED
        BY <1>0, <1>9, <2>2, <3>1, DropsOne DEF DropShare
    <2> QED
      BY <2>2, <2>3, AttendedGivenUp
  <1>10. ASSUME NEW i \in Slots, NEW k \in Places,
                TellConnected(i, k) \/ TellFailed(i, k) \/ TellClosed(i, k)
         PROVE  AttendedInv'
    BY <1>10, AttendedTells, AttendedTellsClosed
  <1>11. ASSUME NEW i \in Slots, TickDelete(i)
         PROVE  AttendedInv'
    <2>1. /\ Deletes(i) /\ Top.op = "tick" /\ Becomes(Len(stack) - 1, <<TickSlot(i + 1)>>)
          /\ stack # <<>>
      BY <1>0, <1>11, TickDeleteFacts, TickItem DEF TickDelete, TickAt
    <2>2. ASSUME NEW j \in Slots, NEW k \in Used(j)' PROVE Attended(j, k)'
      <3>1. k \in Used(j) /\ UNCHANGED <<shares, callback>>
        BY <2>1, <2>2 DEF Used, Deletes
      <3>2. StillPending(j, k)
        BY <1>0, <2>1, StackLeaves
      <3>3. j # i
        BY <2>1, <3>1, FreeIsClosed DEF Deletes
      <3>4. attempt'[j] = attempt[j] /\ link'[j] = link[j]
        BY <1>0, <2>1, <3>3 DEF Deletes, CloseClient
      <3> QED
        BY <1>0, <3>1, <3>2, <3>4, UnaffectedAttended DEF Unaffected
    <2> QED
      BY <2>2 DEF AttendedInv
  <1>12. ASSUME NEW i \in Slots, ClientWaits(i)
         PROVE  AttendedInv'
    <2>1. /\ Top.op = "tick" /\ Becomes(Len(stack) - 1, <<TickSlot(i + 1)>>) /\ stack # <<>>
          /\ UNCHANGED <<shares, callback, attempt>>
      BY <1>0, <1>12, ClientWaitsFacts, TickItem DEF ClientWaits, ClientTicks, TickAt, slotVars
    <2>2. \A j \in Slots : link'[j] = link[j] \/ {link[j], link'[j]} \cap {"closed", "connected"} = {}
      <3>1. CASE UNCHANGED link
        BY <3>1
      <3>2. ASSUME NEW l \in {"resolved", "waiting"}, link[i] = "fresh",
                   link' = [link EXCEPT ![i] = l]
            PROVE  \A j \in Slots :
                       link'[j] = link[j] \/ {link[j], link'[j]} \cap {"closed", "connected"} = {}
        <4>1. {"fresh", l} \cap {"closed", "connected"} = {}
          OBVIOUS
        <4>2. link'[i] = l /\ \A j \in Slots : j # i => link'[j] = link[j]
          BY <1>0, <3>2
        <4> QED
          BY <3>2, <4>1, <4>2
      <3> QED
        BY <1>12, <3>1, <3>2 DEF ClientWaits
    <2> QED
      BY <1>0, <2>1, <2>2, AttendedQuiet
  <1>13. ASSUME NEW i \in Slots, ClientConnects(i)
         PROVE  AttendedInv'
    BY <1>13, AttendedConnects
  <1>14. ASSUME NEW i \in Slots, ClientFails(i) \/ ClientDisconnects(i)
         PROVE  AttendedInv'
    <2>1. stack # <<>>
      BY <1>0, <1>14, TickItem DEF ClientFails, ClientDisconnects, ClientTicks, TickAt
    <2> QED
      BY <1>0, <1>14, <2>1, ClientReportsFacts, AttendedCloses
  <1>15. CASE ClientReceives /\ ~UNCHANGED <<attempt, link>>
    <2>1. stack # <<>>
      BY <1>0, <1>15, ReceiveItem DEF ClientReceives
    <2> QED
      BY <1>0, <1>15, <2>1, ReceiveClosesFacts, AttendedCloses
  <1> QED
    BY <1>1, <1>2, <1>3, <1>4, <1>5, <1>6, <1>7, <1>8, <1>9, <1>10, <1>11, <1>12, <1>13,
       <1>14, <1>15
    DEF PromptCases

-----------------------------------------------------------------------------
(* The invariant holds for ever.                                           *)

LEMMA PromptInitially == Init => JInv
  <1> SUFFICES ASSUME Init PROVE JInv
    OBVIOUS
  <1>1. IInv
    BY Initially
  <1>2. PromptInv
    <2>1. Len(stack) = 0
      BY DEF Init
    <2> QED
      BY <2>1 DEF Init, PromptInv
  <1>3. DeletedIsClosed
    BY DEF Init, DeletedIsClosed
  <1>4. AttendedInv
    <2>1. \A i \in Slots : Used(i) = {}
      BY DEF Init, Used
    <2> QED
      BY <2>1 DEF AttendedInv
  <1> QED
    BY <1>1, <1>2, <1>3, <1>4 DEF JInv

LEMMA PromptInductive == ~LateAnswers /\ JInv /\ [Next]_vars => JInv'
  <1> SUFFICES ASSUME ~LateAnswers, JInv, [Next]_vars PROVE JInv'
    OBVIOUS
  <1>1. IInv'
    BY Inductive DEF JInv
  <1> QED
    BY <1>1, PromptKept, DeletedKept, AttendedKept DEF JInv

\* JInv, for any numbers of hosts, slots, shares and calls of acquire(), if the resolver
\* answers before resolve() returns.
THEOREM PromptInvariance == ASSUME ~LateAnswers PROVE Spec => []JInv
  <1>1. Init => JInv
    BY PromptInitially
  <1>2. JInv /\ [Next]_vars => JInv'
    BY PromptInductive
  <1> QED
    BY <1>1, <1>2, PTL DEF Spec

\* tick() deletes, and acquire() revives, only slots whose clients are closed: no descriptor
\* is lost with a client, and connect() never says AlreadyConnected.
THEOREM DeletedAreClosed == ASSUME ~LateAnswers PROVE Spec => []DeletedIsClosed
  <1>1. JInv => DeletedIsClosed
    BY DEF JInv
  <1> QED
    BY <1>1, PromptInvariance, PTL

\* The callbacks that shares hold follow the connection of their client, but for those
\* that a loop of the pool has still to call.
THEOREM SharesFollow == ASSUME ~LateAnswers PROVE Spec => []SharesFollowClient
  <1>1. JInv => SharesFollowClient
    BY FollowClient DEF JInv
  <1> QED
    BY <1>1, PromptInvariance, PTL

-----------------------------------------------------------------------------
(* What the contract sees of the pool.                                     *)

Phases == [a \in Acquires |-> Phase(a)]

PhaseFor(events, accepted) ==
    CASE events = <<>> -> IF accepted THEN "pending" ELSE "unused"
      [] events = <<"Connected">> -> "connected"
      [] events = <<"Failed">> -> "failed"
      [] events = <<"Connected", "Closed">> -> "closed"
      [] OTHER -> "broken"

LEMMA PhaseValues ==
    /\ \A accepted : PhaseFor(<<>>, accepted) = IF accepted THEN "pending" ELSE "unused"
    /\ \A accepted : PhaseFor(<<"Connected">>, accepted) = "connected"
    /\ \A accepted : PhaseFor(<<"Failed">>, accepted) = "failed"
    /\ \A accepted : PhaseFor(<<"Connected", "Closed">>, accepted) = "closed"
  <1>1. <<"Connected">> # <<>> /\ <<"Failed">> # <<>> /\ <<"Connected", "Closed">> # <<>>
    OBVIOUS
  <1>2. <<"Connected">> # <<"Failed">>
    <2>1. <<"Connected">>[1] = "Connected" /\ <<"Failed">>[1] = "Failed"
      OBVIOUS
    <2> QED
      BY <2>1
  <1>3. <<"Connected", "Closed">> # <<"Connected">> /\ <<"Connected", "Closed">> # <<"Failed">>
    <2>1. /\ Len(<<"Connected", "Closed">>) = 2
          /\ Len(<<"Connected">>) = 1 /\ Len(<<"Failed">>) = 1
      OBVIOUS
    <2> QED
      BY <2>1
  <1> QED
    BY <1>1, <1>2, <1>3 DEF PhaseFor

LEMMA PhaseParts ==
    ASSUME NEW a
    PROVE  /\ Phase(a) = PhaseFor(Events(a), a <= acquired)
           /\ Phase(a)' = PhaseFor(Events(a)', a <= acquired')
  BY DEF Phase, PhaseFor

\* A share that has a callback.
LEMMA PhaseOfHeld ==
    ASSUME TypeOK, PlacesInv, ToldInv, NEW i \in Slots, NEW k \in Used(i), NEW a,
           a = shares[i][k]
    PROVE  /\ a \in Acquires /\ a \in 1..acquired
           /\ callback[a] = "connect" => told[a] = <<>> /\ Phase(a) = "pending"
           /\ callback[a] = "disconnect" => Events(a) = <<"Connected">> /\ Phase(a) = "connected"
  <1>1. a \in Acquires /\ a \in 1..acquired /\ acquired \in Nat
    BY ShareAccepted, UserValues
  <1>2. a <= acquired
    BY <1>1
  <1>3. ASSUME callback[a] = "connect" PROVE told[a] = <<>> /\ Phase(a) = "pending"
    <2>1. told[a] = <<>>
      BY <1>1, <1>3 DEF ToldInv
    <2>2. Events(a) = <<>>
      BY <2>1 DEF Events
    <2> QED
      BY <1>2, <2>1, <2>2, PhaseParts, PhaseValues
  <1>4. ASSUME callback[a] = "disconnect" PROVE Events(a) = <<"Connected">> /\ Phase(a) = "connected"
    <2>1. Events(a) = <<"Connected">>
      BY <1>1, <1>4 DEF ToldInv
    <2> QED
      BY <2>1, PhaseParts, PhaseValues
  <1> QED
    BY <1>1, <1>3, <1>4

\* Users who were told Connected, and not yet Closed, have a share with that callback.
LEMMA ConnectedIsHeld ==
    ASSUME TypeOK, PlacesInv, ToldInv, NEW a \in Acquires, Phase(a) = "connected"
    PROVE  \E i \in Slots, k \in Places : k \in Used(i) /\ shares[i][k] = a /\ Awaits(i, k)
  <1>1. callback[a] \in {"none", "connect", "disconnect"} /\ acquired \in Nat /\ a # None
    BY UserValues DEF TypeOK, Acquires, None
  <1>2. callback[a] # "connect"
    <2> SUFFICES ASSUME callback[a] = "connect" PROVE FALSE
      OBVIOUS
    <2>1. told[a] = <<>>
      BY DEF ToldInv
    <2>2. Events(a) = <<>>
      BY <2>1 DEF Events
    <2> QED
      BY <2>2, PhaseParts, PhaseValues
  <1>3. callback[a] # "none"
    <2> SUFFICES ASSUME callback[a] = "none" PROVE FALSE
      OBVIOUS
    <2>1. CASE a <= acquired
      <3>1. Events(a) = <<"Failed">> \/ Events(a) = <<"Connected", "Closed">>
        BY <2>1 DEF ToldInv
      <3> QED
        BY <3>1, PhaseParts, PhaseValues
    <2>2. CASE ~(a <= acquired)
      <3>1. told[a] = <<>>
        BY <2>2 DEF ToldInv
      <3>2. Events(a) = <<>>
        BY <3>1 DEF Events
      <3> QED
        BY <3>2, PhaseParts, PhaseValues
    <2> QED
      BY <2>1, <2>2
  <1>4. callback[a] = "disconnect" /\ Held(a)
    BY <1>1, <1>2, <1>3 DEF ToldInv
  <1> QED
    BY <1>1, <1>4 DEF Held, Used, Awaits

LEMMA OnePhase ==
    ASSUME NEW a \in Acquires, NEW p, Phase(a)' = p,
           \A c \in Acquires : c # a => Phase(c)' = Phase(c)
    PROVE  Phases' = [Phases EXCEPT ![a] = p]
  BY DEF Phases

\* One user is told something.
LEMMA PhaseTold ==
    ASSUME TypeOK, NEW a \in Acquires, NEW event, NEW level, Tell(a, event, level), UNCHANGED goal,
           \/ told[a] = <<>> /\ event \in {"Connected", "Failed"}
           \/ Events(a) = <<"Connected">> /\ event = "Closed"
    PROVE  Phases' = [Phases EXCEPT ![a] = CASE event = "Connected" -> "connected"
                                             [] event = "Failed" -> "failed"
                                             [] OTHER -> "closed"]
  <1>1. ASSUME NEW c \in Acquires, c # a PROVE Phase(c)' = Phase(c)
    <2>1. Events(c)' = Events(c) /\ acquired' = acquired
      BY <1>1, TellOthers DEF acquired
    <2> QED
      BY <2>1, PhaseParts
  <1>2. CASE told[a] = <<>> /\ event \in {"Connected", "Failed"}
    <2>1. Events(a)' = <<event>>
      BY <1>2, EventsFirst
    <2>2. CASE event = "Connected"
      BY <1>1, <2>1, <2>2, PhaseParts, PhaseValues, OnePhase
    <2>3. CASE event = "Failed"
      BY <1>1, <2>1, <2>3, PhaseParts, PhaseValues, OnePhase
    <2> QED
      BY <1>2, <2>2, <2>3
  <1>3. CASE Events(a) = <<"Connected">> /\ event = "Closed"
    <2>1. Events(a)' = <<"Connected", "Closed">>
      BY <1>3, EventsSecond
    <2> QED
      BY <1>1, <1>3, <2>1, PhaseParts, PhaseValues, OnePhase
  <1> QED
    BY <1>2, <1>3

LEMMA PhasesSame ==
    ASSUME UNCHANGED <<told, goal>>
    PROVE  Phases' = Phases
  BY DEF Phases, Phase, Events, acquired

-----------------------------------------------------------------------------
(* The hosts that the pool is connected to.                                *)

\* A client that has a host is for its shares, and the only one with this host.
LEMMA HasItsHost ==
    ASSUME JInv, NEW i \in Slots, attempt[i] # None
    PROVE  /\ Current(i) /\ Claims(i, goal[attempt[i]])
           /\ attempt[i] \in 1..acquired /\ goal[attempt[i]] \in Hosts
  <1>0. /\ TypeOK /\ StackInv /\ LinkInv /\ HostInv /\ PromptInv /\ goal \in Seq(Hosts)
    BY DEF JInv, IInv, TypeOK
  <1>1. Live(i)
    BY FreeIsClosed
  <1>2. ~Refused(i)
    <2> SUFFICES ASSUME NEW n \in 2..Len(stack), stack[n].op = "refuse", stack[n].slot = i
                 PROVE  FALSE
      BY DEF Refused
    <2>1. n \in 1..Len(stack)
      OBVIOUS
    <2>2. ItemRight(stack[n])
      BY <1>0, <2>1 DEF PromptInv
    <2> QED
      BY <2>2 DEF ItemRight
  <1>3. Current(i)
    BY <1>1, <1>2 DEF Current
  <1>4. attempt[i] \in 1..acquired
    BY <1>0, AttemptAccepted
  <1> QED
    BY <1>0, <1>3, <1>4, HostParts DEF acquired

LEMMA OpenIs ==
    ASSUME NEW h
    PROVE  h \in OpenHosts <=> \E j \in Slots : link[j] = "connected" /\ goal[attempt[j]] = h
  BY DEF OpenHosts

LEMMA ConnectedHasHost ==
    ASSUME JInv, NEW i \in Slots, link[i] = "connected"
    PROVE  attempt[i] # None
  BY DEF JInv, IInv, LinkInv

\* The host of a share whose client is not connected is not open.
LEMMA NotOpen ==
    ASSUME JInv, NEW i \in Slots, NEW k \in Used(i), link[i] # "connected"
    PROVE  goal[shares[i][k]] \notin OpenHosts
  <1> SUFFICES ASSUME NEW j \in Slots, link[j] = "connected", goal[attempt[j]] = goal[shares[i][k]]
               PROVE  FALSE
    BY OpenIs
  <1>1. j # i /\ Claims(j, goal[attempt[j]])
    BY ConnectedHasHost, HasItsHost
  <1> QED
    BY <1>1 DEF Claims

\* The host of the client of slot i is open if this client is connected.
LEMMA OpenForClient ==
    ASSUME JInv, NEW i \in Slots, attempt[i] # None
    PROVE  goal[attempt[i]] \in OpenHosts <=> link[i] = "connected"
  <1>1. ASSUME NEW j \in Slots, j # i, link[j] = "connected", goal[attempt[j]] = goal[attempt[i]]
        PROVE  FALSE
    <2>1. Current(i) /\ Claims(j, goal[attempt[j]])
      BY <1>1, ConnectedHasHost, HasItsHost
    <2> QED
      BY <1>1, <2>1 DEF Claims
  <1> QED
    BY <1>1, OpenIs

\* A slot that has just what it had.
LEMMA OpenSame ==
    ASSUME \A i \in Slots : /\ link'[i] = "connected" <=> link[i] = "connected"
                            /\ link[i] = "connected" => goal'[attempt'[i]] = goal[attempt[i]]
    PROVE  OpenHosts' = OpenHosts
  BY DEF OpenHosts

LEMMA OpenCloses ==
    ASSUME JInv, NEW i \in Slots, CloseClient(i), UNCHANGED goal
    PROVE  OpenHosts' = IF link[i] = "connected" THEN OpenHosts \ {goal[attempt[i]]} ELSE OpenHosts
  <1>0. attempt \in [Slots -> Objects] /\ link \in [Slots -> Links]
    BY DEF JInv, IInv, TypeOK
  <1>1. /\ link'[i] = "closed"
        /\ \A j \in Slots : j # i => link'[j] = link[j] /\ attempt'[j] = attempt[j]
    BY <1>0 DEF CloseClient
  <1>2. CASE link[i] # "connected"
    <2>1. \A j \in Slots : /\ link'[j] = "connected" <=> link[j] = "connected"
                           /\ link[j] = "connected" => goal'[attempt'[j]] = goal[attempt[j]]
      BY <1>1, <1>2
    <2> QED
      BY <1>2, <2>1, OpenSame
  <1>3. CASE link[i] = "connected"
    <2>1. \A j \in Slots : j # i /\ link[j] = "connected" => goal[attempt[j]] # goal[attempt[i]]
      BY <1>3, ConnectedHasHost, HasItsHost DEF Claims
    <2>2. ASSUME NEW h PROVE h \in OpenHosts' <=> h \in OpenHosts /\ h # goal[attempt[i]]
      <3>1. h \in OpenHosts' <=> \E j \in Slots : j # i /\ link[j] = "connected" /\ goal[attempt[j]] = h
        BY <1>1 DEF OpenHosts
      <3> QED
        BY <1>3, <2>1, <3>1, OpenIs
    <2> QED
      BY <1>3, <2>2
  <1> QED
    BY <1>2, <1>3

-----------------------------------------------------------------------------
(* Every step is one of the contract, or none.                             *)

ContractStep == [Contract!Next]_<<Phases, goal, OpenHosts>>

LEMMA NoContractStep ==
    ASSUME UNCHANGED <<told, goal>>, OpenHosts' = OpenHosts
    PROVE  ContractStep
  BY PhasesSame DEF ContractStep

LEMMA FailStep ==
    ASSUME TypeOK, NEW a \in 1..acquired, Phase(a) = "pending", goal[a] \notin OpenHosts,
           Phases' = [Phases EXCEPT ![a] = "failed"], UNCHANGED goal, OpenHosts' = OpenHosts
    PROVE  ContractStep
  <1>1. a \in Acquires /\ Phases[a] = "pending"
    BY UserValues DEF Acquires, Phases
  <1>2. Contract!Fail(a)
    BY <1>1 DEF Contract!Fail, Phases
  <1> QED
    BY <1>2 DEF ContractStep, Contract!Next, acquired

LEMMA FinishStep ==
    ASSUME TypeOK, NEW a \in 1..acquired, Phase(a) = "connected",
           Phases' = [Phases EXCEPT ![a] = "closed"], UNCHANGED goal, OpenHosts' = OpenHosts
    PROVE  ContractStep
  <1>1. a \in Acquires /\ Phases[a] = "connected"
    BY UserValues DEF Acquires, Phases
  <1>2. Contract!Finish(a)
    BY <1>1 DEF Contract!Finish, Phases
  <1> QED
    BY <1>2 DEF ContractStep, Contract!Next, acquired

LEMMA EstablishStep ==
    ASSUME TypeOK, NEW a \in 1..acquired, Phase(a) = "pending", goal[a] \in OpenHosts,
           Phases' = [Phases EXCEPT ![a] = "connected"], UNCHANGED goal, OpenHosts' = OpenHosts
    PROVE  ContractStep
  <1>1. a \in Acquires /\ Phases[a] = "pending"
    BY UserValues DEF Acquires, Phases
  <1>2. Contract!Establish(a)
    BY <1>1 DEF Contract!Establish, Phases
  <1> QED
    BY <1>2 DEF ContractStep, Contract!Next, acquired

\* The client of slot i is closed.
LEMMA CloseStep ==
    ASSUME JInv, NEW i \in Slots, CloseClient(i), UNCHANGED <<told, goal>>
    PROVE  ContractStep
  <1>1. OpenHosts' = IF link[i] = "connected" THEN OpenHosts \ {goal[attempt[i]]} ELSE OpenHosts
    BY OpenCloses
  <1>2. CASE link[i] # "connected"
    BY <1>1, <1>2, NoContractStep
  <1>3. CASE link[i] = "connected"
    <2>1. attempt[i] # None
      BY <1>3, ConnectedHasHost
    <2>2. PICK h \in Hosts : h = goal[attempt[i]] /\ h \in OpenHosts
      BY <1>3, <2>1, HasItsHost, OpenForClient
    <2>3. Phases' = Phases
      BY PhasesSame
    <2>4. Contract!Close(h)
      BY <1>1, <1>3, <2>2, <2>3 DEF Contract!Close, Phases
    <2> QED
      BY <2>4 DEF ContractStep, Contract!Next
  <1> QED
    BY <1>2, <1>3

\* A share is given up: its user is told Failed or Closed, or knows already.
LEMMA GiveUpStep ==
    ASSUME JInv, NEW i \in Slots, NEW k \in Used(i), GivesUp(i, k), UNCHANGED <<goal, clientVars>>,
           callback[shares[i][k]] = "connect" => link[i] # "connected"
    PROVE  ContractStep
  <1>0. TypeOK /\ PlacesInv /\ ToldInv
    BY DEF JInv, IInv
  <1>1. OpenHosts' = OpenHosts
    BY OpenSame DEF clientVars
  <1>2. PICK a : a = shares[i][k]
    OBVIOUS
  <1>3. a \in Acquires /\ a \in 1..acquired
    BY <1>0, <1>2, PhaseOfHeld
  <1>4. LastCall(a, i)
    BY <1>2 DEF GivesUp
  <1>5. CASE callback[a] = "connect"
    <2>1. Tell(a, "Failed", LevelAfter(i)) /\ told[a] = <<>> /\ Phase(a) = "pending"
      BY <1>0, <1>2, <1>4, <1>5, PhaseOfHeld DEF LastCall
    <2>2. PICK level : level = LevelAfter(i)
      OBVIOUS
    <2>3. Tell(a, "Failed", level)
      BY <2>1, <2>2
    <2>4. Phases' = [Phases EXCEPT ![a] = "failed"]
      BY <1>0, <1>3, <2>1, <2>3, PhaseTold
    <2>5. goal[a] \notin OpenHosts
      BY <1>2, <1>5, NotOpen
    <2> QED
      BY <1>0, <1>1, <1>3, <2>1, <2>4, <2>5, FailStep
  <1>6. CASE callback[a] = "disconnect"
    <2>1. /\ Tell(a, "Closed", LevelAfter(i))
          /\ Events(a) = <<"Connected">> /\ Phase(a) = "connected"
      BY <1>0, <1>2, <1>4, <1>6, PhaseOfHeld DEF LastCall
    <2>2. PICK level : level = LevelAfter(i)
      OBVIOUS
    <2>3. Tell(a, "Closed", level)
      BY <2>1, <2>2
    <2>4. Phases' = [Phases EXCEPT ![a] = "closed"]
      BY <1>0, <1>3, <2>1, <2>3, PhaseTold
    <2> QED
      BY <1>0, <1>1, <1>3, <2>1, <2>4, FinishStep
  <1>7. CASE callback[a] \notin {"connect", "disconnect"}
    <2>1. UNCHANGED told
      BY <1>4, <1>7 DEF LastCall
    <2> QED
      BY <1>1, <2>1, NoContractStep
  <1> QED
    BY <1>5, <1>6, <1>7

\* A share that has not been told of its connection, with nothing to tell it so, has none.
LEMMA UntoldIsUnconnected ==
    ASSUME JInv, NEW i \in Slots, NEW k \in Used(i), callback[shares[i][k]] = "connect",
           attempt[i] = None \/ ~Pending(Reports, i, k)
    PROVE  link[i] # "connected"
  <1>1. AttendedInv /\ LinkInv
    BY DEF JInv, IInv
  <1>2. CASE attempt[i] = None
    BY <1>1, <1>2 DEF LinkInv
  <1>3. CASE ~Pending(Reports, i, k)
    BY <1>1, <1>3 DEF AttendedInv, Attended, Following
  <1> QED
    BY <1>2, <1>3

LEMMA ReleaseStep ==
    ASSUME JInv, NEW a \in Acquires, NEW force \in BOOLEAN, NEW i \in Slots, NEW k \in Places,
           ReleaseAt(a, force, i, k)
    PROVE  ContractStep
  <1>1. k \in Used(i)
    BY DEF ReleaseAt, Used, Acquires, None
  <1>2. GivesUp(i, k) /\ UNCHANGED <<goal, clientVars>>
    BY ReleaseGivesUp DEF ReleaseAt
  <1>3. Len(stack) = 0
    BY PromptIsGuarded, UserFinds DEF ReleaseAt, JInv, IInv
  <1>4. ~Pending(Reports, i, k)
    BY <1>3 DEF Pending
  <1> QED
    BY <1>1, <1>2, <1>4, UntoldIsUnconnected, GiveUpStep

LEMMA DropStep ==
    ASSUME JInv, DropShare, shares[Top.slot][Top.place] # None
    PROVE  ContractStep
  <1>0. TypeOK /\ StackInv /\ SharesAreCounted /\ PromptInv
    BY DEF JInv, IInv
  <1>1. PICK i \in Slots, k \in Places : i = Top.slot /\ k = Top.place
    BY <1>0, DropItem DEF DropShare
  <1>2. k \in Used(i) /\ GivesUp(i, k) /\ UNCHANGED <<goal, clientVars>>
    BY <1>1, ReleaseGivesUp DEF DropShare, Used
  <1>3. attempt[i] = None
    <2>1. stack # <<>> /\ Top.op = "drop"
      BY <1>0, DropItem DEF DropShare
    <2> QED
      BY <1>0, <1>1, <2>1, TopRight DEF ItemRight
  <1> QED
    BY <1>2, <1>3, UntoldIsUnconnected, GiveUpStep

LEMMA ClosedStep ==
    ASSUME JInv, NEW i \in Slots, NEW k \in Places, TellClosed(i, k)
    PROVE  ContractStep
  <1>0. TypeOK /\ StackInv /\ PromptInv
    BY DEF JInv, IInv
  <1>1. LoopAt({"close", "force"}, i, k) /\ UNCHANGED <<goal, clientVars>> /\ GivesUp(i, k)
    BY ReleaseGivesUp DEF TellClosed
  <1>2. k \in Used(i) /\ stack # <<>> /\ Top.slot = i /\ Top.op \in {"close", "force"}
    BY <1>0, <1>1, LoopItem DEF Loops
  <1>3. CASE Top.op = "close"
    <2>1. attempt[i] = None
      BY <1>0, <1>2, <1>3, TopRight DEF ItemRight
    <2> QED
      BY <1>1, <1>2, <2>1, UntoldIsUnconnected, GiveUpStep
  <1>4. CASE Top.op = "force"
    <2>1. ~Pending(Reports, i, k)
      <3> SUFFICES ASSUME NEW n \in 1..Len(stack), stack[n].op \in Reports PROVE FALSE
        BY DEF Pending
      <3>1. n # Len(stack)
        <4>1. Top = stack[Len(stack)]
          BY <1>0, <1>2, StackTypes, TopType
        <4> QED
          BY <1>4, <4>1 DEF Reports
      <3>2. stack[n].op \in {"leave", "tick", "receive"}
        BY <1>0, <1>2, <3>1, PromptIsGuarded, BelowLoops
      <3> QED
        BY <3>2 DEF Reports
    <2> QED
      BY <1>1, <1>2, <2>1, UntoldIsUnconnected, GiveUpStep
  <1> QED
    BY <1>2, <1>3, <1>4

LEMMA TellStep ==
    ASSUME JInv, NEW i \in Slots, NEW k \in Places, TellConnected(i, k) \/ TellFailed(i, k)
    PROVE  ContractStep
  <1>0. TypeOK /\ StackInv /\ PromptInv /\ LinkInv /\ PlacesInv /\ ToldInv /\ ConnectedInv
    BY DEF JInv, IInv
  <1>1. UNCHANGED goal /\ OpenHosts' = OpenHosts /\ callback[shares[i][k]] = "connect"
    BY OpenSame DEF TellConnected, TellFailed, clientVars
  <1>2. CASE TellConnected(i, k)
    <2>1. LoopAt({"accept"}, i, k)
      BY <1>2 DEF TellConnected
    <2>2. k \in Used(i) /\ Top.op = "accept" /\ Top.slot = i /\ stack # <<>>
      BY <1>0, <2>1, LoopItem DEF Loops
    <2>3. PICK a, level : a = shares[i][k] /\ level = Top.level
      OBVIOUS
    <2>4. a \in Acquires /\ a \in 1..acquired /\ told[a] = <<>> /\ Phase(a) = "pending"
      BY <1>0, <1>1, <2>2, <2>3, PhaseOfHeld
    <2>5. Tell(a, "Connected", level)
      BY <1>2, <2>3 DEF TellConnected
    <2>6. Phases' = [Phases EXCEPT ![a] = "connected"]
      BY <1>0, <1>1, <2>4, <2>5, PhaseTold
    <2>7. link[i] = "connected"
      <3>1. Len(stack) \in 1..Len(stack) /\ Top = stack[Len(stack)]
        BY <1>0, <2>2, StackTypes, TopType
      <3>2. AcceptRight(stack[Len(stack)])
        BY <1>0, <2>2, <3>1, ConnectedParts
      <3> QED
        BY <2>2, <3>1, <3>2 DEF AcceptRight
    <2>8. goal[a] = goal[attempt[i]] /\ goal[attempt[i]] \in OpenHosts
      <3>1. attempt[i] # None
        BY <2>7, ConnectedHasHost
      <3> QED
        BY <2>2, <2>3, <2>7, <3>1, HasItsHost, OpenForClient DEF Claims
    <2> QED
      BY <1>0, <1>1, <2>4, <2>6, <2>8, EstablishStep
  <1>3. CASE TellFailed(i, k)
    <2>1. LoopAt({"refuse"}, i, k)
      BY <1>3 DEF TellFailed
    <2>2. k \in Used(i) /\ Top.op = "refuse" /\ Top.slot = i /\ stack # <<>>
      BY <1>0, <2>1, LoopItem DEF Loops
    <2>3. PICK a, level : a = shares[i][k] /\ level = Top.level
      OBVIOUS
    <2>4. a \in Acquires /\ a \in 1..acquired /\ told[a] = <<>> /\ Phase(a) = "pending"
      BY <1>0, <1>1, <2>2, <2>3, PhaseOfHeld
    <2>5. Tell(a, "Failed", level)
      BY <1>3, <2>3 DEF TellFailed
    <2>6. Phases' = [Phases EXCEPT ![a] = "failed"]
      BY <1>0, <1>1, <2>4, <2>5, PhaseTold
    <2>7. attempt[i] = None
      BY <1>0, <2>2, TopRight DEF ItemRight
    <2>8. goal[a] \notin OpenHosts
      BY <1>1, <2>2, <2>3, <2>7, UntoldIsUnconnected, NotOpen
    <2> QED
      BY <1>0, <1>1, <2>4, <2>6, <2>8, FailStep
  <1> QED
    BY <1>2, <1>3

\* The client of slot i is connected, and its users are about to be told.
LEMMA OpenStep ==
    ASSUME JInv, NEW i \in Slots, ClientConnects(i)
    PROVE  ContractStep
  <1>0. /\ TypeOK /\ StackInv /\ PromptInv /\ LinkInv /\ PlacesInv /\ ToldInv /\ SharesAreCounted
        /\ link \in [Slots -> Links] /\ acquired \in Nat
    BY UserValues DEF JInv, IInv, TypeOK
  <1>1. /\ Live(i) /\ link[i] \in {"fresh", "resolved"} /\ Top.op = "tick" /\ stack # <<>>
        /\ UNCHANGED <<told, goal, attempt>> /\ link' = [link EXCEPT ![i] = "connected"]
    BY <1>0, TickItem DEF ClientConnects, ClientTicks, TickAt
  <1>2. attempt[i] # None
    BY <1>0, <1>1 DEF LinkInv
  <1>3. PICK h \in Hosts : h = goal[attempt[i]] /\ h \notin OpenHosts /\ Claims(i, h)
    BY <1>1, <1>2, HasItsHost, OpenForClient
  <1>4. \A k \in Used(i) : callback[shares[i][k]] = "connect"
    BY <1>1, WaitingForConnect
  <1>5. \E k \in Places : k \in Used(i)
    <2> SUFFICES ASSUME Used(i) = {} PROVE FALSE
      BY DEF Used
    <2>1. OnStack(LAMBDA item : item.op = "retire" /\ item.slot = i)
      BY <1>0, <1>1 DEF SharesAreCounted
    <2>2. PICK n \in 1..Len(stack) : stack[n].op = "retire"
      BY <2>1 DEF OnStack
    <2>3. n # Len(stack)
      <3>1. Top = stack[Len(stack)]
        BY <1>0, <1>1, StackTypes, TopType
      <3> QED
        BY <1>1, <2>2, <3>1
    <2>4. stack[n].op \in {"leave", "tick", "receive"}
      BY <1>0, <1>1, <2>3, PromptIsGuarded, BelowLoops
    <2> QED
      BY <2>2, <2>4
  <1>6. Contract!Told("connected", h) = {}
    <2> SUFFICES ASSUME NEW a \in 1..acquired, Phases[a] = "connected", goal[a] = h
                 PROVE  FALSE
      BY DEF Contract!Told, Phases, acquired
    <2>1. a \in Acquires /\ Phase(a) = "connected"
      BY <1>0, UserValues DEF Acquires, Phases
    <2>2. PICK j \in Slots, k \in Places : k \in Used(j) /\ shares[j][k] = a /\ Awaits(j, k)
      BY <1>0, <2>1, ConnectedIsHeld
    <2>3. j = i
      BY <1>3, <2>2 DEF Claims
    <2> QED
      BY <1>4, <2>2, <2>3 DEF Awaits
  <1>7. Contract!Told("pending", h) # {}
    <2>1. PICK k \in Places : k \in Used(i)
      BY <1>5
    <2>2. PICK a : a = shares[i][k]
      OBVIOUS
    <2>3. a \in Acquires /\ a \in 1..acquired /\ Phase(a) = "pending"
      BY <1>0, <1>4, <2>1, <2>2, PhaseOfHeld
    <2>4. goal[a] = h /\ Phases[a] = "pending"
      BY <1>3, <2>1, <2>2, <2>3 DEF Claims, Phases
    <2>5. a \in Contract!Told("pending", h)
      BY <2>3, <2>4 DEF Contract!Told, Phases, acquired
    <2> QED
      BY <2>5
  <1>8. OpenHosts' = OpenHosts \cup {h}
    <2>1. /\ link'[i] = "connected"
          /\ \A j \in Slots : j # i => link'[j] = link[j]
      BY <1>0, <1>1
    <2>2. ASSUME NEW g PROVE g \in OpenHosts' <=> g \in OpenHosts \/ g = h
      <3>1. g \in OpenHosts' <=> \E j \in Slots : link'[j] = "connected" /\ goal[attempt[j]] = g
        BY <1>1 DEF OpenHosts
      <3> QED
        BY <1>1, <1>3, <2>1, <3>1, OpenIs
    <2> QED
      BY <2>2
  <1>9. Phases' = Phases
    BY <1>1, PhasesSame
  <1>10. Contract!Open(h)
    BY <1>1, <1>3, <1>6, <1>7, <1>8, <1>9 DEF Contract!Open, Phases
  <1> QED
    BY <1>10 DEF ContractStep, Contract!Next

\* acquire() makes a share.
LEMMA AcceptStep ==
    ASSUME JInv, NEW h \in Hosts, NEW i \in Slots, NEW k \in Places, NewShareAt(h, i, k)
    PROVE  ContractStep
  <1>0. /\ TypeOK /\ StackInv /\ PromptInv /\ LinkInv /\ PlacesInv /\ ToldInv /\ SharesAreCounted
        /\ link \in [Slots -> Links] /\ attempt \in [Slots -> Objects] /\ acquired \in Nat
        /\ goal \in Seq(Hosts)
    BY UserValues DEF JInv, IInv, TypeOK
  <1>1. MayAcquire /\ goal' = Append(goal, h) /\ acquired < MaxAcquires
    BY DEF NewShareAt, AcquireShareAt, AcquireSlotAt, MayAcquire
  <1>2. PICK a \in Acquires : a = acquired + 1 /\ acquired' = a /\ goal'[a] = h
                              /\ \A c \in 1..acquired : goal'[c] = goal[c]
    BY <1>0, NewShareFacts
  <1>3. told[a] = <<>>
    BY <1>0, <1>2, UnusedNumber
  <1>4. OpenHosts' = OpenHosts
    <2>1. \A j \in Slots : link[j] = "connected" => attempt[j] \in 1..acquired
      BY ConnectedHasHost, HasItsHost
    <2>2. \A j \in Slots : /\ link'[j] = "connected" <=> link[j] = "connected"
                           /\ link[j] = "connected" => attempt'[j] = attempt[j]
      <3>1. CASE AcquireShareAt(h, i, k)
        BY <3>1 DEF AcquireShareAt, clientVars
      <3>2. CASE AcquireSlotAt(h, i)
        <4>1. attempt[i] = None
          BY <3>2, FreeIsClosed DEF AcquireSlotAt
        <4>2. link[i] = "closed"
          BY <1>0, <4>1 DEF LinkInv
        <4>3. /\ attempt' = [attempt EXCEPT ![i] = acquired + 1]
              /\ link' = [link EXCEPT ![i] = "fresh"]
          BY <3>2, <4>1 DEF AcquireSlotAt
        <4> QED
          BY <1>0, <4>2, <4>3
      <3> QED
        BY <3>1, <3>2 DEF NewShareAt
    <2>3. \A j \in Slots : link[j] = "connected" => goal'[attempt'[j]] = goal[attempt[j]]
      BY <1>2, <2>1, <2>2
    <2> QED
      BY <2>2, <2>3, OpenSame
  <1>5. \/ AcquireShareAt(h, i, k) /\ ToldAtOnce(i) /\ Tell(acquired + 1, "Connected", "Secondary")
        \/ /\ AcquireSlotAt(h, i) \/ (AcquireShareAt(h, i, k) /\ ~ToldAtOnce(i))
           /\ UNCHANGED told
    BY DEF NewShareAt, AcquireShareAt, AcquireSlotAt
  <1>6. ASSUME NEW c \in Acquires, c # a PROVE Phase(c)' = Phase(c)
    <2>1. c <= acquired <=> c <= acquired'
      BY <1>0, <1>2, <1>6 DEF Acquires
    <2>2. Events(c)' = Events(c)
      <3>1. CASE UNCHANGED told
        BY <3>1 DEF Events
      <3>2. CASE Tell(acquired + 1, "Connected", "Secondary")
        <4>1. Tell(a, "Connected", "Secondary")
          BY <1>2, <3>2
        <4> QED
          BY <1>0, <1>6, <4>1, TellOthers
      <3> QED
        BY <1>5, <3>1, <3>2
    <2> QED
      BY <2>1, <2>2, PhaseParts
  <1>7. Phase(a)' = IF h \in OpenHosts THEN "connected" ELSE "pending"
    <2>1. CASE AcquireShareAt(h, i, k) /\ ToldAtOnce(i) /\ Tell(acquired + 1, "Connected", "Secondary")
      <3>1. Tell(a, "Connected", "Secondary")
        BY <1>2, <2>1
      <3>2. Events(a)' = <<"Connected">>
        BY <1>0, <1>3, <3>1, EventsFirst
      <3>3. Phase(a)' = "connected"
        BY <3>2, PhaseParts, PhaseValues
      <3>4. h \in OpenHosts
        BY <2>1, OpenIs DEF AcquireShareAt, Matching, HasHost, ToldAtOnce
      <3> QED
        BY <3>3, <3>4
    <2>2. CASE /\ AcquireSlotAt(h, i) \/ (AcquireShareAt(h, i, k) /\ ~ToldAtOnce(i))
               /\ UNCHANGED told
      <3>1. Events(a)' = <<>>
        BY <1>3, <2>2 DEF Events
      <3>2. a <= acquired'
        BY <1>0, <1>2
      <3>3. Phase(a)' = "pending"
        BY <3>1, <3>2, PhaseParts, PhaseValues
      <3>4. h \notin OpenHosts
        <4>1. CASE AcquireShareAt(h, i, k) /\ ~ToldAtOnce(i)
          BY <4>1, OpenForClient DEF AcquireShareAt, Matching, HasHost, ToldAtOnce
        <4>2. CASE AcquireSlotAt(h, i)
          <5> SUFFICES ASSUME NEW j \in Slots, link[j] = "connected", goal[attempt[j]] = h
                       PROVE  FALSE
            BY OpenIs
          <5>1. attempt[j] # None /\ Live(j)
            BY ConnectedHasHost, HasItsHost DEF Current
          <5> QED
            BY <4>2, <5>1 DEF AcquireSlotAt, Matching, HasHost
        <4> QED
          BY <2>2, <4>1, <4>2
      <3> QED
        BY <3>3, <3>4
    <2> QED
      BY <1>5, <2>1, <2>2
  <1>8. Phases' = [Phases EXCEPT ![a] = IF h \in OpenHosts THEN "connected" ELSE "pending"]
    BY <1>6, <1>7, OnePhase
  <1>9. Len(goal') = a /\ Len(goal) < MaxAcquires
    BY <1>1, <1>2 DEF acquired
  <1>10. Contract!Accept(h)
    BY <1>1, <1>4, <1>8, <1>9 DEF Contract!Accept, Phases
  <1> QED
    BY <1>10 DEF ContractStep, Contract!Next

LEMMA ContractSteps ==
    ASSUME JInv, ~LateAnswers, [Next]_vars
    PROVE  ContractStep
  <1>0. /\ TypeOK /\ StackInv /\ PromptInv /\ SharesAreCounted /\ LinkInv
        /\ link \in [Slots -> Links]
    BY DEF JInv, IInv, TypeOK
  <1>1. PromptCases
    BY PromptSteps
  <1>2. ASSUME UNCHANGED <<told, goal, attempt, link>> PROVE ContractStep
    BY <1>2, OpenSame, NoContractStep
  <1>3. CASE UNCHANGED <<slotVars, clientVars, goal, told, stack, non_reentrant>>
    BY <1>2, <1>3 DEF clientVars
  <1>4. CASE PopsQuietly
    BY <1>0, <1>2, <1>4, PopsQuietlyFacts DEF clientVars
  <1>5. CASE Tick
    BY <1>2, <1>5 DEF Tick, clientVars
  <1>6. ASSUME NEW h \in Hosts, NEW i \in Slots, NEW k \in Places, AcquireShareAt(h, i, k)
        PROVE  ContractStep
    BY <1>6, AcceptStep DEF NewShareAt
  <1>7. ASSUME NEW h \in Hosts, NEW i \in Slots, AcquireSlotAt(h, i)
        PROVE  ContractStep
    <2>1. 1 \in Places
      BY DEF Places
    <2> QED
      BY <1>7, <2>1, AcceptStep DEF NewShareAt
  <1>8. ASSUME NEW a \in Acquires, NEW force \in BOOLEAN, NEW i \in Slots, NEW k \in Places,
               ReleaseAt(a, force, i, k)
        PROVE  ContractStep
    BY <1>8, ReleaseStep
  <1>9. CASE RetireSlot
    <2>1. PICK i \in Slots, disconnect \in BOOLEAN : i = Top.slot /\ disconnect = Top.disconnect
      BY <1>0, <1>9, RetireSlotFacts, RetireItem DEF RetireSlot
    <2>2. Retires(i, disconnect)
      BY <1>0, <1>9, <2>1, RetireSlotFacts
    <2>3. CASE share_count[i] = 0 /\ disconnect
      <3>1. CloseClient(i) /\ UNCHANGED <<told, goal>>
        BY <2>2, <2>3 DEF Retires
      <3> QED
        BY <3>1, CloseStep
    <2>4. CASE ~(share_count[i] = 0 /\ disconnect)
      <3>1. UNCHANGED <<told, goal, attempt, link>>
        BY <2>2, <2>4 DEF Retires, clientVars
      <3> QED
        BY <1>2, <3>1
    <2> QED
      BY <2>3, <2>4
  <1>10. CASE DropShare /\ shares[Top.slot][Top.place] # None
    BY <1>10, DropStep
  <1>11. ASSUME NEW i \in Slots, NEW k \in Places,
                TellConnected(i, k) \/ TellFailed(i, k) \/ TellClosed(i, k)
         PROVE  ContractStep
    BY <1>11, TellStep, ClosedStep
  <1>12. ASSUME NEW i \in Slots, TickDelete(i) \/ ClientFails(i) \/ ClientDisconnects(i)
         PROVE  ContractStep
    <2>1. CloseClient(i) /\ UNCHANGED <<told, goal>>
      BY <1>12 DEF TickDelete, TickNext, ClientFails, ClientDisconnects
    <2> QED
      BY <2>1, CloseStep
  <1>13. ASSUME NEW i \in Slots, ClientWaits(i)
         PROVE  ContractStep
    <2>1. UNCHANGED <<told, goal, attempt>>
      BY <1>13 DEF ClientWaits, TickNext
    <2>2. \A j \in Slots : link'[j] = "connected" <=> link[j] = "connected"
      BY <1>0, <1>13 DEF ClientWaits
    <2> QED
      BY <2>1, <2>2, OpenSame, NoContractStep
  <1>14. ASSUME NEW i \in Slots, ClientConnects(i)
         PROVE  ContractStep
    BY <1>14, OpenStep
  <1>15. CASE ClientReceives /\ ~UNCHANGED <<attempt, link>>
    <2>1. Top.slot \in Slots /\ CloseClient(Top.slot) /\ UNCHANGED <<told, goal>>
      BY <1>0, <1>15, ReceiveClosesFacts DEF Closes
    <2> QED
      BY <2>1, CloseStep
  <1> QED
    BY <1>1, <1>3, <1>4, <1>5, <1>6, <1>7, <1>8, <1>9, <1>10, <1>11, <1>12, <1>13, <1>14, <1>15
    DEF PromptCases

LEMMA ContractInit == Init => Contract!Init
  <1> SUFFICES ASSUME Init PROVE Contract!Init
    OBVIOUS
  <1>1. goal = <<>> /\ acquired = 0
    BY DEF Init, acquired
  <1>2. OpenHosts = {}
    BY DEF Init, OpenHosts
  <1>3. ASSUME NEW a \in Acquires PROVE Phase(a) = "unused"
    <2>1. told[a] = <<>>
      BY DEF Init
    <2>2. Events(a) = <<>>
      BY <2>1 DEF Events
    <2>3. ~(a <= acquired)
      BY <1>1 DEF Acquires
    <2> QED
      BY <2>2, <2>3, PhaseParts, PhaseValues
  <1> QED
    BY <1>1, <1>2, <1>3 DEF Contract!Init, Contract!Acquires, Acquires

\* The pool implements PoolContract: each share has the reports a client of its own would
\* make, and all shares of a host see the same connection, however acquire(), release(),
\* tick() and the callbacks of any number of clients come together.
THEOREM ContractKept == ASSUME ~LateAnswers PROVE Spec => ImplementsContract
  <1>1. Init => Contract!Init
    BY ContractInit
  <1>2. JInv /\ [Next]_vars => [Contract!Next]_<<Phases, goal, OpenHosts>>
    BY ContractSteps DEF ContractStep
  <1>3. Spec => Contract!Init /\ [][Contract!Next]_<<Phases, goal, OpenHosts>>
    BY <1>1, <1>2, PromptInvariance, PTL DEF Spec
  <1> QED
    BY <1>3, PTL DEF ImplementsContract, Contract!Spec, Phases

=============================================================================
