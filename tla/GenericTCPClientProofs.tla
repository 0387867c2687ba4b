---------------------- MODULE GenericTCPClientProofs --------------------------
(* Proofs about GenericTCPClient, for every number of attempts, of         *)
(* descriptors and every depth of nested calls.                            *)
EXTENDS GenericTCPClient, SequenceTheorems, TLAPS

USE SocketsAssumption, MaxAttemptsAssumption, ResolveIdsAssumption,
    ConnectTimeoutAssumption, MaxDepthAssumption

-----------------------------------------------------------------------------
(* The inductive invariant.                                                *)

\* Which of the members are in use together, by what the client is doing.
ShapeInv ==
    /\ host \in {Null, accepted}
    /\ host = Null =>
           /\ pending_socket_fd = NoSocket /\ socket_fd = NoSocket
           /\ connect_callback = Null /\ pending_disconnect_callback = Null
           /\ disconnect_callback = Null
           /\ ~resolve_pending /\ ~pending_host_address_valid
    /\ host # Null /\ socket_fd = NoSocket =>
           /\ connect_callback = host /\ pending_disconnect_callback = host
           /\ disconnect_callback = Null
    /\ socket_fd # NoSocket =>
           /\ connect_callback = Null /\ pending_disconnect_callback = Null
           /\ disconnect_callback = host
           /\ pending_socket_fd = NoSocket
           /\ ~resolve_pending /\ ~pending_host_address_valid
    /\ resolve_pending => ~pending_host_address_valid /\ pending_socket_fd = NoSocket
    /\ pending_socket_fd # NoSocket => (pending_host_address_valid <=> pc = "opened")
    /\ pc = "opened" => pending_socket_fd # NoSocket
    /\ NoSocketLeak

\* Each attempt asks the resolver at most once, so ids are not reused, and what
\* is known of the host of an attempt is of that attempt.
AddressInv ==
    /\ resolve_id <= accepted
    /\ host # Null /\ socket_fd = NoSocket /\ ~resolve_pending /\ ~pending_host_address_valid
           /\ pending_socket_fd = NoSocket => resolve_id < accepted
    /\ \A r \in resolves :
           /\ r.id <= resolve_id
           /\ resolve_pending /\ r.id = resolve_id => r.host = host
    /\ pending_host_address_valid => pending_host_address = host
    /\ (pending_socket_fd # NoSocket \/ socket_fd # NoSocket) /\ pc # "opened" => peer = host

\* At most one function in the call chain holds the scope.
ScopeInv ==
    /\ ScopeMatchesGuard
    /\ pc \in Scoped => \A i \in 1..Len(stack) : stack[i].resume = "user"
    /\ \A i, k \in 1..Len(stack) :
           stack[i].resume # "user" /\ stack[k].resume # "user" => i = k

OwesTo(f, a) == \E j \in 1..Len(f.todo) : f.todo[j].attempt = a

Owes(a) == \E i \in 1..Len(stack) : OwesTo(stack[i], a)

Complete(a) == delivered[a] \in {<<"Failed">>, <<"Connected", "Disconnected">>}

OwesReport(f) == \E j \in 1..Len(f.todo) : f.todo[j].attempt # Null

\* A report is the last call of its frame.
ReportIsLast(f) == \A j \in 1..Len(f.todo) :
    /\ f.todo[j].attempt # Null <=> f.todo[j].event \in Reports
    /\ f.todo[j].attempt # Null => j = Len(f.todo)

\* The user must not run before a report is made that nothing guards (the frame
\* of a resolver's answer), or whose connection already counts as connected.
Urgent(f) == \E j \in 1..Len(f.todo) :
    /\ f.todo[j].attempt # Null
    /\ f.resume = "user" \/ f.todo[j].event = "Connected"

\* At most one report is owed on the whole stack.
OwedInv ==
    /\ \A i \in 1..Len(stack) : ReportIsLast(stack[i])
    /\ \A i \in 1..Len(stack) : Urgent(stack[i]) =>
           pc = "callbacks" /\ i = Len(stack) /\ Len(stack[i].todo) = 1
    /\ \A i, k \in 1..Len(stack) :
           OwesReport(stack[i]) /\ OwesReport(stack[k]) => i = k

\* An owed report is the next one of its attempt.
OwedFits(c) ==
    /\ c.attempt <= accepted
    /\ c.event = "Connected" =>
           c.attempt = host /\ socket_fd # NoSocket /\ delivered[c.attempt] = <<>>
    /\ c.event = "Failed" => c.attempt # host /\ delivered[c.attempt] = <<>>
    /\ c.event = "Disconnected" =>
           c.attempt # host /\ delivered[c.attempt] = <<"Connected">>

FrameFits(f) == \A j \in 1..Len(f.todo) :
    f.todo[j].attempt # Null => OwedFits(f.todo[j])

\* What attempt a was told fits what the client does with it, and what is
\* missing is owed.
Told(a) ==
    /\ a > accepted => delivered[a] = <<>>
    /\ a = host /\ socket_fd = NoSocket => delivered[a] = <<>>
    /\ a = host /\ socket_fd # NoSocket =>
           delivered[a] = <<"Connected">> \/ (delivered[a] = <<>> /\ Owes(a))
    /\ a # host /\ a <= accepted => Complete(a) \/ Owes(a)

ReportsInv ==
    /\ \A i \in 1..Len(stack) : FrameFits(stack[i])
    /\ \A a \in Attempts : Told(a)

IInv == TypeOK /\ ShapeInv /\ AddressInv /\ ScopeInv /\ OwedInv /\ ReportsInv

-----------------------------------------------------------------------------
(* What the three ways to change the stack do to it.                       *)

\* Where a hook, and any function, goes on after it called back.
HookResumes == {"tick_hook", "connect", "recv", "leave"}
Resumes == {"user", "tick_hook", "connect", "recv", "leave"}

\* Suspend pushes one frame and leaves the others alone.
LEMMA SuspendPushes ==
    ASSUME TypeOK, NEW calls \in Seq(Calls), NEW resume \in Resumes,
           Suspend(calls, resume)
    PROVE  /\ stack' \in Seq(Frames)
           /\ Len(stack') = Len(stack) + 1
           /\ \A i \in 1..Len(stack) : stack'[i] = stack[i]
           /\ stack'[Len(stack)+1] = [todo |-> calls, resume |-> resume]
           /\ pc' = "callbacks"
           /\ stack' # <<>>
<1> DEFINE f == [todo |-> calls, resume |-> resume]
<1>1. f \in Frames
  BY DEF Frames, Resumes
<1>2. stack \in Seq(Frames)
  BY DEF TypeOK
<1>3. stack' = Append(stack, f) /\ pc' = "callbacks"
  BY DEF Suspend
<1>4. QED
  BY <1>1, <1>2, <1>3, AppendProperties

\* InvokeCallback takes the first call off the top frame.
LEMMA InvokePops ==
    ASSUME TypeOK, InvokeCallback
    PROVE  /\ Len(stack) \in Nat \ {0}
           /\ Top \in Frames
           /\ Head(Top.todo) \in Calls
           /\ Head(Top.todo) = Top.todo[1]
           /\ stack' \in Seq(Frames)
           /\ Len(stack') = Len(stack)
           /\ \A i \in 1..Len(stack) : stack'[i].resume = stack[i].resume
           /\ \A i \in 1..(Len(stack) - 1) : stack'[i] = stack[i]
           /\ stack'[Len(stack)].todo = Tail(Top.todo)
<1>1. stack \in Seq(Frames) /\ stack # <<>> /\ Top.todo # <<>>
  BY DEF TypeOK, InvokeCallback
<1>2. Len(stack) \in Nat \ {0}
  BY <1>1, EmptySeq
<1>3. Top \in Frames
  BY <1>1, <1>2, ElementOfSeq DEF Top
<1>4. Top.todo \in Seq(Calls)
  BY <1>3 DEF Frames
<1>5. Head(Top.todo) \in Calls /\ Tail(Top.todo) \in Seq(Calls) /\ Head(Top.todo) = Top.todo[1]
  BY <1>1, <1>4, HeadTailProperties
<1> DEFINE f == [Top EXCEPT !.todo = Tail(Top.todo)]
<1>6. f \in Frames /\ f.todo = Tail(Top.todo) /\ f.resume = Top.resume
  BY <1>3, <1>5 DEF Frames
<1>7. stack' = [stack EXCEPT ![Len(stack)] = f]
  BY <1>1, <1>2 DEF InvokeCallback, Top
<1> HIDE DEF f
<1>8. /\ stack' \in Seq(Frames)
      /\ Len(stack') = Len(stack)
      /\ \A i \in 1..Len(stack) : stack'[i] = IF i = Len(stack) THEN f ELSE stack[i]
  BY <1>1, <1>2, <1>6, <1>7, ExceptSeq
<1>9. QED
  BY <1>2, <1>3, <1>5, <1>6, <1>8 DEF Top

\* Resume drops the top frame.
LEMMA ResumePops ==
    ASSUME TypeOK, Resume
    PROVE  /\ Len(stack) \in Nat \ {0}
           /\ Top \in Frames
           /\ Top.todo = <<>>
           /\ pc' = Top.resume
           /\ stack' \in Seq(Frames)
           /\ Len(stack') = Len(stack) - 1
           /\ \A i \in 1..(Len(stack) - 1) : stack'[i] = stack[i]
<1>1. stack \in Seq(Frames) /\ stack # <<>>
  BY DEF TypeOK, Resume
<1>2. Len(stack) \in Nat \ {0}
  BY <1>1, EmptySeq
<1>3. Top \in Frames
  BY <1>1, <1>2, ElementOfSeq DEF Top
<1>4. \A i \in 1..(Len(stack) - 1) : stack[i] \in Frames
  BY <1>1, <1>2, ElementOfSeq
<1>5. stack' = SubSeq(stack, 1, Len(stack) - 1) /\ pc' = Top.resume /\ Top.todo = <<>>
  BY DEF Resume
<1> DEFINE n == Len(stack) - 1
           t == SubSeq(stack, 1, n)
<1>6. n \in Nat
  BY <1>2
<1>7. /\ t \in Seq(Frames)
      /\ Len(t) = IF 1 <= n THEN n - 1 + 1 ELSE 0
      /\ \A i \in 1..(n - 1 + 1) : t[i] = stack[1 + i - 1]
  <2> HIDE DEF n
  <2>1. \A i \in 1..n : stack[i] \in Frames
    BY <1>4 DEF n
  <2>2. QED
    BY <1>6, <2>1, SubSeqProperties
<1>8. stack' = t
  BY <1>5
<1> HIDE DEF t, n
<1>9. Len(t) = n
  BY <1>6, <1>7
<1>10. ASSUME NEW i \in 1..n PROVE t[i] = stack[i]
  <2>1. i \in 1..(n - 1 + 1) /\ 1 + i - 1 = i
    BY <1>6
  <2>2. QED
    BY <1>7, <2>1
<1>11. QED
  BY <1>2, <1>3, <1>5, <1>7, <1>8, <1>9, <1>10 DEF n

-----------------------------------------------------------------------------
(* Calls and frames.                                                       *)

\* What calls.. + <<c>> looks like: the hook's calls first, c last.
EndsWith(calls, c) ==
    /\ calls \in Seq(Calls)
    /\ Len(calls) \in Nat \ {0}
    /\ calls[Len(calls)] = c
    /\ \A j \in 1..Len(calls) : j # Len(calls) => calls[j] = TransactionCall

LEMMA HookThenReport ==
    ASSUME NEW calls \in CloseHookCalls, NEW c \in Calls
    PROVE  /\ EndsWith(Append(calls, c), c)
           /\ calls \o <<c>> = Append(calls, c)
           /\ socket_fd = NoSocket => Len(Append(calls, c)) = 1
<1>1. TransactionCall \in Calls
  BY DEF TransactionCall, Calls, Call
<1>2. /\ calls \in Seq(Calls)
      /\ Len(calls) \in {0, 1}
      /\ \A j \in 1..Len(calls) : calls[j] = TransactionCall
      /\ socket_fd = NoSocket => Len(calls) = 0
  <2>1. CASE calls = <<>>
    BY <2>1
  <2>2. CASE calls = <<TransactionCall>> /\ socket_fd # NoSocket
    <3> HIDE DEF TransactionCall
    <3>1. QED
      BY <1>1, <2>2
  <2>3. QED
    BY <2>1, <2>2 DEF CloseHookCalls
<1>3. /\ Append(calls, c) \in Seq(Calls)
      /\ Len(Append(calls, c)) = Len(calls) + 1
      /\ \A j \in 1..Len(calls) : Append(calls, c)[j] = calls[j]
      /\ Append(calls, c)[Len(calls) + 1] = c
  BY <1>2, AppendProperties
<1>4. calls \o <<c>> = Append(calls, c)
  BY <1>2, AppendIsConcat
<1>5. QED
  BY <1>2, <1>3, <1>4 DEF EndsWith

LEMMA SingleCall ==
    ASSUME NEW c \in Calls
    PROVE  /\ <<c>> \in Seq(Calls)
           /\ Len(<<c>>) = 1
           /\ <<c>>[1] = c
OBVIOUS

LEMMA ConstantCalls == TransactionCall \in Calls /\ RefusalCall \in Calls
BY DEF TransactionCall, RefusalCall, Calls, Call

\* The effect on the stack of the functions that close and then report.
LEMMA AbortPushes ==
    ASSUME TypeOK, NEW resume \in Resumes, AbortConnect(resume)
    PROVE  /\ Close
           /\ \E calls : /\ EndsWith(calls, Call(connect_callback, "Failed"))
                         /\ Suspend(calls, resume)
                         /\ socket_fd = NoSocket => Len(calls) = 1
<1>1. Call(connect_callback, "Failed") \in Calls
  BY DEF TypeOK, Call, Calls, Reports
<1>2. PICK calls \in CloseHookCalls :
          Suspend(Append(calls, Call(connect_callback, "Failed")), resume)
  BY DEF AbortConnect
<1>3. QED
  BY <1>1, <1>2, HookThenReport DEF AbortConnect

LEMMA DisconnectWithReasonPushes ==
    ASSUME TypeOK, NEW resume \in Resumes, DisconnectWithReason(resume)
    PROVE  /\ Close
           /\ \E calls : /\ EndsWith(calls, Call(disconnect_callback, "Disconnected"))
                         /\ Suspend(calls, resume)
<1>1. Call(disconnect_callback, "Disconnected") \in Calls
  BY DEF TypeOK, Call, Calls, Reports
<1>2. PICK calls \in CloseHookCalls :
          Suspend(Append(calls, Call(disconnect_callback, "Disconnected")), resume)
  BY DEF DisconnectWithReason
<1>3. QED
  BY <1>1, <1>2, HookThenReport DEF DisconnectWithReason

LEMMA DisconnectPushes ==
    ASSUME TypeOK, ShapeInv, Disconnect
    PROVE  \E calls :
             /\ Suspend(calls, "leave")
             /\ EndsWith(calls, IF socket_fd = NoSocket
                                THEN Call(host, "Failed") ELSE Call(host, "Disconnected"))
<1> DEFINE c == IF socket_fd = NoSocket
                THEN Call(host, "Failed") ELSE Call(host, "Disconnected")
<1>1. host # Null
  BY DEF Disconnect
<1>2. c \in Calls
  BY DEF TypeOK, Call, Calls, Reports
<1>3. DisconnectCalls = <<c>>
  <2>1. CASE socket_fd = NoSocket
    BY <1>1, <2>1 DEF ShapeInv, DisconnectCalls, ConnectCallIfAny, DisconnectCallIfAny
  <2>2. CASE socket_fd # NoSocket
    BY <1>1, <2>2 DEF ShapeInv, DisconnectCalls, ConnectCallIfAny, DisconnectCallIfAny
  <2>3. QED
    BY <2>1, <2>2
<1>4. PICK calls \in CloseHookCalls : Suspend(calls \o DisconnectCalls, "leave")
  BY DEF Disconnect
<1> HIDE DEF c
<1>5. calls \o DisconnectCalls = Append(calls, c) /\ EndsWith(Append(calls, c), c)
  BY <1>2, <1>3, HookThenReport
<1>6. QED
  BY <1>4, <1>5 DEF c

-----------------------------------------------------------------------------
(* Type correctness.                                                       *)

LEMMA InitType == Init => TypeOK
BY DEF Init, TypeOK, Labels, Scoped, Null, Attempts, Reports, Frames

\* Closing and suspending keep the types of what they change.
LEMMA CloseType ==
    ASSUME TypeOK, Close
    PROVE  /\ {host', connect_callback', pending_disconnect_callback',
               disconnect_callback'} \subseteq Attempts \cup {Null}
           /\ resolve_pending' \in BOOLEAN
           /\ pending_host_address_valid' \in BOOLEAN
           /\ {pending_socket_fd', socket_fd'} \subseteq Sockets \cup {NoSocket}
           /\ open_sockets' \subseteq Sockets
BY DEF TypeOK, Close, CloseSockets, ClearCallbacks

LEMMA SuspendType ==
    ASSUME TypeOK, NEW calls \in Seq(Calls), NEW resume \in Resumes,
           Suspend(calls, resume)
    PROVE  stack' \in Seq(Frames) /\ pc' \in Labels /\ stack' # <<>>
BY SuspendPushes DEF Labels

LEMMA AbortType ==
    ASSUME TypeOK, NEW resume \in Resumes, AbortConnect(resume)
    PROVE  Close /\ stack' \in Seq(Frames) /\ pc' \in Labels /\ stack' # <<>>
BY AbortPushes, SuspendType DEF EndsWith

LEMMA DisconnectWithReasonType ==
    ASSUME TypeOK, NEW resume \in Resumes, DisconnectWithReason(resume)
    PROVE  Close /\ stack' \in Seq(Frames) /\ pc' \in Labels /\ stack' # <<>>
BY DisconnectWithReasonPushes, SuspendType DEF EndsWith

LEMMA TypeStep ==
    ASSUME TypeOK, ShapeInv, [Next]_vars
    PROVE  TypeOK'
<1> USE DEF connectionVars, callbackVars, addressVars, controlVars, historyVars
<1>1. CASE InvokeCallback
  <2>1. stack' \in Seq(Frames) /\ stack' # <<>> /\ Head(Top.todo) \in Calls
    BY <1>1, InvokePops, EmptySeq
  <2>2. delivered' \in [Attempts \cup {Null} -> Seq(Reports)]
    <3> DEFINE c == Head(Top.todo)
    <3>1. c.attempt \in Attempts \cup {Null}
      BY <2>1 DEF Calls
    <3>2. ASSUME c.event \in Reports
          PROVE  [delivered EXCEPT ![c.attempt] = Append(@, c.event)]
                     \in [Attempts \cup {Null} -> Seq(Reports)]
      <4>1. delivered[c.attempt] \in Seq(Reports)
        BY <3>1 DEF TypeOK
      <4>2. Append(delivered[c.attempt], c.event) \in Seq(Reports)
        BY <3>2, <4>1, AppendProperties
      <4>3. QED
        BY <4>2 DEF TypeOK
    <3>3. QED
      BY <1>1, <3>2 DEF InvokeCallback, TypeOK
  <2>3. QED
    BY <1>1, <2>1, <2>2 DEF TypeOK, InvokeCallback, Labels
<1>2. CASE Resume
  <2>1. stack' \in Seq(Frames) /\ pc' \in Labels \ {"callbacks"}
    BY <1>2, ResumePops DEF Frames, Labels, Scoped
  <2>2. QED
    BY <1>2, <2>1 DEF TypeOK, Resume
<1>3. CASE CallbackReturns \/ LeaveScope \/ SkipConnect \/ WaitForResolver
             \/ StillConnecting
  BY <1>3 DEF TypeOK, CallbackReturns, LeaveScope, SkipConnect, WaitForResolver,
              StillConnecting, Labels, Scoped
<1>4. CASE ConnectAccepted
  <2>1. accepted' \in Attempts /\ accepted' \in 0..MaxAttempts
    BY <1>4 DEF TypeOK, ConnectAccepted, Attempts
  <2>2. QED
    BY <1>4, <2>1 DEF TypeOK, ConnectAccepted
<1>5. CASE ConnectNonReentrant \/ ConnectRefused
  <2>1. <<RefusalCall>> \in Seq(Calls) /\ "user" \in Resumes /\ "leave" \in Resumes
    BY ConstantCalls, SingleCall DEF Resumes
  <2>2. stack' \in Seq(Frames) /\ pc' \in Labels /\ stack' # <<>>
    BY <1>5, <2>1, SuspendType DEF ConnectNonReentrant, ConnectRefused
  <2>3. QED
    BY <1>5, <2>2 DEF TypeOK, ConnectNonReentrant, ConnectRefused, EnterScope
<1>6. CASE Disconnect
  <2>1. stack' \in Seq(Frames) /\ pc' \in Labels /\ stack' # <<>>
    BY <1>6, DisconnectPushes, SuspendType DEF EndsWith, Resumes
  <2>2. QED
    BY <1>6, <2>1, CloseType DEF TypeOK, Disconnect, EnterScope
<1>7. CASE Tick
  BY <1>7 DEF TypeOK, Tick, EnterScope, Labels, Scoped
<1>8. CASE TickHook \/ Receive
  <2>1. /\ {"tick_hook", "connect", "recv", "leave"} \subseteq Resumes
        /\ <<TransactionCall>> \in Seq(Calls)
    BY ConstantCalls, SingleCall DEF Resumes
  <2>2. CASE UNCHANGED <<connectionVars, stack>> /\ pc' \in {"connect", "leave"}
    BY <1>8, <2>2 DEF TypeOK, TickHook, Receive, Labels, Scoped
  <2>3. ASSUME NEW r \in Resumes, Suspend(<<TransactionCall>>, r), UNCHANGED connectionVars
        PROVE  TypeOK'
    <3>1. stack' \in Seq(Frames) /\ pc' \in Labels /\ stack' # <<>>
      BY <2>1, <2>3, SuspendType
    <3>2. QED
      BY <1>8, <2>3, <3>1 DEF TypeOK, TickHook, Receive
  <2>4. ASSUME NEW r \in Resumes, DisconnectWithReason(r)
        PROVE  TypeOK'
    <3>1. Close /\ stack' \in Seq(Frames) /\ pc' \in Labels /\ stack' # <<>>
      BY <2>4, DisconnectWithReasonType
    <3>2. QED
      BY <1>8, <3>1, CloseType DEF TypeOK, TickHook, Receive
  <2>5. QED
    BY <1>8, <2>1, <2>2, <2>3, <2>4 DEF TickHook, Receive
<1>9. CASE ResolveLater
  <2>1. resolve_id' \in 0..(ResolveIds - 1) /\ host \in Attempts
    BY <1>9 DEF TypeOK, ResolveLater, NeedsAddress, Connecting
  <2>2. QED
    BY <1>9, <2>1 DEF TypeOK, ResolveLater, Labels, Scoped
<1>10. ASSUME NEW r \in Resumes, AbortConnect(r),
              UNCHANGED <<non_reentrant, peer, pending_host_address, accepted, delivered>>,
              UNCHANGED connect_deadline, resolve_id' \in 0..(ResolveIds - 1),
              resolves' \subseteq resolves
       PROVE  TypeOK'
  <2>1. Close /\ stack' \in Seq(Frames) /\ pc' \in Labels /\ stack' # <<>>
    BY <1>10, AbortType
  <2>2. QED
    BY <1>10, <2>1, CloseType DEF TypeOK
<1>11. CASE ResolveNow
  <2>1. resolve_id' \in 0..(ResolveIds - 1)
    BY <1>11 DEF TypeOK, ResolveNow
  <2>2. CASE AbortConnect("leave") /\ UNCHANGED pending_host_address
    BY <1>10, <1>11, <2>1, <2>2 DEF ResolveNow, Resumes
  <2>3. CASE pending_host_address' = host /\ pending_host_address_valid' = TRUE
             /\ UNCHANGED <<host, callbackVars, resolve_pending, pending_socket_fd,
                            socket_fd, open_sockets, pc, stack>>
    BY <1>11, <2>1, <2>3 DEF TypeOK, ResolveNow
  <2>4. QED
    BY <1>11, <2>2, <2>3 DEF ResolveNow
<1>12. CASE OpenSocket
  <2>1. CASE AbortConnect("leave")
    BY <1>10, <1>12, <2>1 DEF TypeOK, OpenSocket, Resumes
  <2>2. CASE ~AbortConnect("leave")
    BY <1>12, <2>2 DEF TypeOK, OpenSocket, Labels, Scoped
  <2>3. QED
    BY <2>1, <2>2
<1>13. CASE ConnectSocket
  <2>1. CASE AbortConnect("leave") /\ UNCHANGED <<connect_deadline, peer>>
    BY <1>10, <1>13, <2>1 DEF TypeOK, ConnectSocket, Resumes
  <2>2. CASE ~(AbortConnect("leave") /\ UNCHANGED <<connect_deadline, peer>>)
    <3>1. /\ connect_deadline' = ConnectTimeout
          /\ peer' = pending_host_address
          /\ pc' = "connect"
          /\ pending_host_address_valid' = FALSE
          /\ UNCHANGED <<host, callbackVars, resolve_pending, pending_socket_fd,
                          socket_fd, open_sockets, stack, addressVars,
                          non_reentrant, historyVars>>
      BY <1>13, <2>2 DEF ConnectSocket, NewDeadline
    <3>2. connect_deadline' \in 0..ConnectTimeout
      BY <3>1
    <3>3. QED
      BY <3>1, <3>2 DEF TypeOK, Labels, Scoped
  <2>3. QED
    BY <2>1, <2>2
<1>14. CASE ConnectTimesOut \/ ConnectFails
  BY <1>10, <1>14 DEF TypeOK, ConnectTimesOut, ConnectFails, Resumes
<1>15. CASE Connected
  <2>1. <<Call(connect_callback, "Connected")>> \in Seq(Calls)
    BY SingleCall DEF TypeOK, Call, Calls, Reports
  <2>2. stack' \in Seq(Frames) /\ pc' \in Labels /\ stack' # <<>>
    BY <1>15, <2>1, SuspendType DEF Connected, Resumes
  <2>3. QED
    BY <1>15, <2>2 DEF TypeOK, Connected
<1>16. ASSUME NEW r \in resolves, ResolveAnswer(r) PROVE TypeOK'
  <2>1. CASE AbortConnect("user") /\ UNCHANGED pending_host_address
    BY <1>10, <1>16, <2>1 DEF TypeOK, ResolveAnswer, Resumes
  <2>2. CASE ~(AbortConnect("user") /\ UNCHANGED pending_host_address)
    BY <1>16, <2>2 DEF TypeOK, ResolveAnswer
  <2>3. QED
    BY <2>1, <2>2
<1>17. CASE Elapse
  BY <1>17 DEF TypeOK, Elapse
<1>18. CASE UNCHANGED vars
  BY <1>18 DEF TypeOK, vars
<1>19. QED
  BY <1>1, <1>2, <1>3, <1>4, <1>5, <1>6, <1>7, <1>8, <1>9, <1>11, <1>12, <1>13, <1>14,
     <1>15, <1>16, <1>17, <1>18 DEF Next, UserStep, LibraryStep

-----------------------------------------------------------------------------
(* The connection members and the addresses.                               *)

LEMMA InitShape == Init => ShapeInv /\ AddressInv
BY DEF Init, ShapeInv, AddressInv, NoSocketLeak, Null

LEMMA ModuloIsIdle ==
    ASSUME NEW n \in Nat, n + 1 < ResolveIds
    PROVE  (n + 1) % ResolveIds = n + 1
OBVIOUS

\* Closing leaves the members as Init set them up.
LEMMA CloseShape ==
    ASSUME TypeOK, ShapeInv, AddressInv, Close, pc' # "opened", UNCHANGED accepted,
           resolve_id' <= accepted, resolves' \subseteq resolves,
           resolve_id' \in Nat, resolve_id' >= resolve_id
    PROVE  ShapeInv' /\ AddressInv'
<1>1. /\ host' = Null /\ ~resolve_pending' /\ ~pending_host_address_valid'
      /\ socket_fd' = NoSocket /\ pending_socket_fd' = NoSocket
      /\ connect_callback' = Null /\ disconnect_callback' = Null
      /\ pending_disconnect_callback' = Null
      /\ open_sockets' = open_sockets \ {pending_socket_fd, socket_fd}
  BY DEF Close, CloseSockets, ClearCallbacks
<1>2. NoSocketLeak'
  BY <1>1 DEF ShapeInv, NoSocketLeak
<1>3. ShapeInv'
  BY <1>1, <1>2 DEF ShapeInv, Null
<1>4. ASSUME NEW r \in resolves' PROVE r.id <= resolve_id'
  <2>1. r.id \in Nat /\ r.id <= resolve_id /\ resolve_id \in Nat
    BY <1>4 DEF AddressInv, TypeOK
  <2>2. QED
    BY <2>1
<1>5. AddressInv'
  BY <1>1, <1>4 DEF AddressInv, TypeOK
<1>6. QED
  BY <1>3, <1>5

LEMMA ShapeStep ==
    ASSUME TypeOK, ShapeInv, AddressInv, [Next]_vars
    PROVE  ShapeInv' /\ AddressInv'
<1> USE DEF connectionVars, callbackVars, addressVars, controlVars, historyVars
<1>1. ASSUME UNCHANGED <<connectionVars, addressVars, peer, accepted>>,
             pc' # "opened", pc # "opened"
      PROVE  ShapeInv' /\ AddressInv'
  BY <1>1 DEF ShapeInv, AddressInv, NoSocketLeak
<1>2. CASE InvokeCallback \/ CallbackReturns \/ LeaveScope \/ SkipConnect
             \/ WaitForResolver \/ StillConnecting \/ Tick \/ Elapse
             \/ ConnectNonReentrant \/ ConnectRefused
  BY <1>1, <1>2 DEF InvokeCallback, CallbackReturns, LeaveScope, SkipConnect,
         WaitForResolver, StillConnecting, Tick, Elapse, ConnectNonReentrant,
         ConnectRefused, Suspend, UserMayNest, UserMayCall, Polling, Connecting
<1>3. CASE Resume
  <2>1. pc' # "opened"
    BY <1>3, ResumePops DEF Frames
  <2>2. QED
    BY <1>1, <1>3, <2>1 DEF Resume
<1>4. CASE ConnectAccepted
  <2>1. accepted' = accepted + 1 /\ accepted \in Nat /\ resolve_id \in Nat
        /\ host' = accepted' /\ host = Null /\ host' # Null
    BY <1>4 DEF ConnectAccepted, TypeOK, Null
  <2>2. ShapeInv'
    BY <1>4, <2>1 DEF ShapeInv, NoSocketLeak, ConnectAccepted, UserMayCall
  <2>3. AddressInv'
    BY <1>4, <2>1 DEF ShapeInv, AddressInv, ConnectAccepted, UserMayCall
  <2>4. QED
    BY <2>2, <2>3
<1>5. ASSUME Close, pc' # "opened", UNCHANGED <<accepted, resolve_id>>,
             resolves' \subseteq resolves
      PROVE  ShapeInv' /\ AddressInv'
  BY <1>5, CloseShape DEF AddressInv, TypeOK
<1>6. CASE Disconnect
  BY <1>5, <1>6 DEF Disconnect, Suspend
<1>7. CASE TickHook \/ Receive
  BY <1>1, <1>5, <1>7 DEF TickHook, Receive, DisconnectWithReason, Suspend
<1>8. CASE ResolveLater \/ ResolveNow
  <2>1. /\ host # Null /\ socket_fd = NoSocket /\ ~resolve_pending
        /\ ~pending_host_address_valid /\ pending_socket_fd = NoSocket
        /\ pc = "connect"
    BY <1>8 DEF ResolveLater, ResolveNow, NeedsAddress, Connecting
  <2>2. /\ resolve_id' = (resolve_id + 1) % ResolveIds
        /\ resolve_id < accepted /\ UNCHANGED accepted
    BY <1>8, <2>1 DEF ResolveLater, ResolveNow, AddressInv
  <2>3. resolve_id \in Nat /\ accepted \in Nat /\ accepted < ResolveIds
    BY DEF TypeOK
  <2>4. resolve_id' = resolve_id + 1 /\ resolve_id' <= accepted
    BY <2>2, <2>3, ModuloIsIdle
  <2>5. \A r \in resolves : r.id \in Nat /\ r.id < resolve_id'
    BY <2>3, <2>4 DEF AddressInv, TypeOK
  <2>6. CASE ResolveLater
    <3>1. /\ resolves' = resolves \cup {[id |-> resolve_id', host |-> host]}
          /\ resolve_pending' /\ pc' = "leave"
          /\ UNCHANGED <<host, callbackVars, pending_host_address_valid,
                         pending_socket_fd, socket_fd, open_sockets,
                         pending_host_address, peer>>
      BY <2>6 DEF ResolveLater
    <3>2. ShapeInv'
      BY <2>1, <2>2, <3>1 DEF ShapeInv, NoSocketLeak
    <3>3. ASSUME NEW r \in resolves'
          PROVE  r.id <= resolve_id' /\ (r.id = resolve_id' => r.host = host')
      BY <2>4, <2>5, <3>1, <3>3, <2>3
    <3>4. QED
      BY <2>1, <2>2, <2>4, <3>1, <3>2, <3>3 DEF AddressInv
  <2>7. CASE ResolveNow /\ AbortConnect("leave")
    BY <2>2, <2>3, <2>4, <2>7, CloseShape DEF ResolveNow, AbortConnect, Suspend
  <2>8. CASE ResolveNow /\ ~AbortConnect("leave")
    <3>1. /\ pending_host_address' = host /\ pending_host_address_valid'
          /\ UNCHANGED <<host, callbackVars, resolve_pending, pending_socket_fd,
                         socket_fd, open_sockets, pc, stack, resolves, peer>>
      BY <2>8 DEF ResolveNow
    <3>2. ShapeInv'
      BY <2>1, <2>2, <3>1 DEF ShapeInv, NoSocketLeak
    <3>3. \A r \in resolves' : r.id <= resolve_id'
      BY <2>3, <2>4, <2>5, <3>1
    <3>4. QED
      BY <2>1, <2>2, <2>4, <3>1, <3>2, <3>3 DEF AddressInv
  <2>9. QED
    BY <1>8, <2>6, <2>7, <2>8
<1>9. CASE OpenSocket
  <2>1. CASE AbortConnect("leave")
    BY <1>5, <1>9, <2>1 DEF OpenSocket, AbortConnect, Suspend
  <2>2. CASE ~AbortConnect("leave")
    <3>1. PICK fd \in Sockets \ open_sockets :
              /\ pending_socket_fd' = fd
              /\ open_sockets' = open_sockets \cup {fd}
              /\ pc' = "opened"
              /\ UNCHANGED <<host, callbackVars, resolve_pending, accepted,
                             pending_host_address_valid, socket_fd, addressVars, peer>>
      BY <1>9, <2>2 DEF OpenSocket
    <3>2. /\ fd # NoSocket /\ host # Null /\ socket_fd = NoSocket
          /\ pending_socket_fd = NoSocket /\ pending_host_address_valid
      BY <1>9 DEF OpenSocket, Connecting
    <3>3. ShapeInv'
      BY <3>1, <3>2 DEF ShapeInv, NoSocketLeak
    <3>4. QED
      BY <3>1, <3>2, <3>3 DEF AddressInv
  <2>3. QED
    BY <2>1, <2>2
<1>10. CASE ConnectSocket
  <2>1. CASE AbortConnect("leave")
    BY <1>5, <1>10, <2>1 DEF ConnectSocket, AbortConnect, Suspend
  <2>2. CASE ~AbortConnect("leave")
    <3>1. /\ pc = "opened" /\ pc' = "connect"
          /\ peer' = pending_host_address
          /\ pending_host_address_valid' = FALSE
          /\ UNCHANGED <<host, callbackVars, resolve_pending, pending_socket_fd, accepted,
                         socket_fd, open_sockets, addressVars>>
      BY <1>10, <2>2 DEF ConnectSocket
    <3>2. /\ pending_socket_fd # NoSocket /\ pending_host_address_valid
          /\ socket_fd = NoSocket /\ ~resolve_pending /\ pending_host_address = host
          /\ host # Null
      BY <3>1 DEF ShapeInv, AddressInv
    <3>3. ShapeInv'
      BY <3>1, <3>2 DEF ShapeInv, NoSocketLeak
    <3>4. QED
      BY <3>1, <3>2, <3>3 DEF AddressInv
  <2>3. QED
    BY <2>1, <2>2
<1>11. CASE ConnectTimesOut \/ ConnectFails
  BY <1>5, <1>11 DEF ConnectTimesOut, ConnectFails, AbortConnect, Suspend
<1>12. CASE Connected
  <2>1. /\ pc = "connect" /\ host # Null /\ socket_fd = NoSocket
        /\ pending_socket_fd # NoSocket
        /\ socket_fd' = pending_socket_fd /\ pending_socket_fd' = NoSocket
        /\ connect_callback' = Null /\ pending_disconnect_callback' = Null
        /\ disconnect_callback' = pending_disconnect_callback
        /\ pc' = "callbacks"
        /\ UNCHANGED <<host, resolve_pending, pending_host_address_valid, open_sockets,
                       addressVars, peer, accepted>>
    BY <1>12 DEF Connected, Polling, Connecting, Suspend
  <2>2. ShapeInv'
    BY <2>1 DEF ShapeInv, NoSocketLeak
  <2>3. QED
    BY <2>1, <2>2 DEF ShapeInv, AddressInv
<1>13. ASSUME NEW r \in resolves, ResolveAnswer(r) PROVE ShapeInv' /\ AddressInv'
  <2>1. CASE AbortConnect("user")
    BY <1>5, <1>13, <2>1 DEF ResolveAnswer, AbortConnect, Suspend
  <2>2. CASE ~AnswerIsCurrent(r)
    BY <1>13, <2>2 DEF ResolveAnswer, ShapeInv, AddressInv, NoSocketLeak
  <2>3. CASE AnswerIsCurrent(r) /\ ~AbortConnect("user")
    <3>1. /\ resolve_pending /\ r.id = resolve_id
          /\ resolve_pending' = FALSE
          /\ pending_host_address' = r.host /\ pending_host_address_valid' = TRUE
          /\ UNCHANGED <<host, callbackVars, pending_socket_fd, socket_fd, open_sockets,
                         pc, stack, resolve_id, peer, accepted>>
          /\ resolves' \subseteq resolves
      BY <1>13, <2>3 DEF ResolveAnswer, AnswerIsCurrent
    <3>2. r.host = host /\ host # Null /\ pending_socket_fd = NoSocket /\ socket_fd = NoSocket
      BY <1>13, <3>1 DEF AddressInv, ShapeInv
    <3>3. ShapeInv'
      BY <3>1, <3>2 DEF ShapeInv, NoSocketLeak
    <3>4. QED
      BY <3>1, <3>2, <3>3 DEF AddressInv
  <2>4. QED
    BY <2>1, <2>2, <2>3
<1>14. CASE UNCHANGED vars
  BY <1>14 DEF vars, ShapeInv, AddressInv, NoSocketLeak
<1>15. QED
  BY <1>2, <1>3, <1>4, <1>6, <1>7, <1>8, <1>9, <1>10, <1>11, <1>12, <1>13, <1>14
     DEF Next, UserStep, LibraryStep

-----------------------------------------------------------------------------
(* The guard.                                                              *)

LEMMA FrameType ==
    ASSUME TypeOK, NEW i \in 1..Len(stack)
    PROVE  /\ stack[i] \in Frames
           /\ stack[i].todo \in Seq(Calls)
           /\ Len(stack[i].todo) \in Nat
           /\ stack[i].resume \in Resumes
           /\ \A j \in 1..Len(stack[i].todo) : stack[i].todo[j] \in Calls
<1>1. stack[i] \in Frames
  BY ElementOfSeq DEF TypeOK
<1>2. stack[i].todo \in Seq(Calls) /\ stack[i].resume \in Resumes
  BY <1>1 DEF Frames, Resumes
<1>3. QED
  BY <1>1, <1>2, ElementOfSeq, LenProperties

LEMMA LenStack == TypeOK => Len(stack) \in Nat
BY LenProperties DEF TypeOK

\* A frame is pushed by a function that holds the scope, or enters it, or (a
\* refused connect(), the resolver's answer) by one that does not touch it.
LEMMA ScopePush ==
    ASSUME TypeOK, ScopeInv, NEW calls \in Seq(Calls), NEW resume \in Resumes,
           Suspend(calls, resume),
           \/ pc \in Scoped /\ resume # "user" /\ UNCHANGED non_reentrant
           \/ pc = "user" /\ ~non_reentrant /\ non_reentrant' /\ resume = "leave"
           \/ pc = "user" /\ resume = "user" /\ UNCHANGED non_reentrant
    PROVE  ScopeInv'
<1> DEFINE n == Len(stack)
<1>1. n \in Nat
  BY LenStack
<1>2. /\ Len(stack') = n + 1
      /\ \A i \in 1..n : stack'[i] = stack[i]
      /\ stack'[n + 1].resume = resume
      /\ pc' \notin Scoped
  <2>1. /\ Len(stack') = Len(stack) + 1
        /\ \A i \in 1..Len(stack) : stack'[i] = stack[i]
        /\ stack'[Len(stack) + 1] = [todo |-> calls, resume |-> resume]
        /\ pc' = "callbacks"
    BY SuspendPushes
  <2>2. QED
    BY <2>1 DEF Scoped
<1> HIDE DEF n
<1>3. \A i \in 1..Len(stack') : i \in 1..n \/ i = n + 1
  BY <1>1, <1>2
<1>4. 1..n \subseteq 1..Len(stack') /\ n + 1 \in 1..Len(stack')
  BY <1>1, <1>2
<1>5. (\E i \in 1..Len(stack') : stack'[i].resume # "user") <=>
          resume # "user" \/ \E i \in 1..n : stack[i].resume # "user"
  BY <1>2, <1>3, <1>4
<1>6. pc = "user" => pc \notin Scoped
  BY DEF Scoped
<1>7. resume # "user" => \A i \in 1..n : stack[i].resume = "user"
  BY <1>6 DEF ScopeInv, ScopeMatchesGuard, n
<1>8. ScopeMatchesGuard'
  BY <1>2, <1>5, <1>6, <1>7 DEF ScopeInv, ScopeMatchesGuard, n
<1>9. \A i, k \in 1..Len(stack') :
          stack'[i].resume # "user" /\ stack'[k].resume # "user" => i = k
  BY <1>2, <1>3, <1>7 DEF ScopeInv, n
<1>10. QED
  BY <1>2, <1>8, <1>9 DEF ScopeInv

LEMMA ScopeStep ==
    ASSUME TypeOK, ShapeInv, ScopeInv, [Next]_vars
    PROVE  ScopeInv'
<1> USE DEF controlVars
<1>1. ASSUME UNCHANGED <<stack, non_reentrant>>, pc \in Scoped <=> pc' \in Scoped
      PROVE  ScopeInv'
  BY <1>1 DEF ScopeInv, ScopeMatchesGuard
<1>2. CASE InvokeCallback
  <2>1. Len(stack') = Len(stack) /\ \A i \in 1..Len(stack) : stack'[i].resume = stack[i].resume
    BY <1>2, InvokePops
  <2>2. pc \notin Scoped /\ pc' \notin Scoped /\ UNCHANGED non_reentrant
    BY <1>2 DEF InvokeCallback, Scoped
  <2>3. QED
    BY <2>1, <2>2 DEF ScopeInv, ScopeMatchesGuard
<1>3. CASE Resume
  <2> DEFINE n == Len(stack)
  <2>1. /\ n \in Nat \ {0}
        /\ pc' = stack[n].resume /\ pc' \in Resumes
        /\ Len(stack') = n - 1
        /\ \A i \in 1..(n - 1) : stack'[i] = stack[i]
    BY <1>3, ResumePops DEF Top, Frames, Resumes
  <2>2. pc \notin Scoped /\ UNCHANGED non_reentrant
    BY <1>3 DEF Resume, Scoped
  <2>3. pc' \in Scoped <=> stack[n].resume # "user"
    BY <2>1 DEF Resumes, Scoped
  <2>4. \A i \in 1..n : i \in 1..(n - 1) \/ i = n
    BY <2>1
  <2>5. 1..(n - 1) \subseteq 1..n /\ n \in 1..n /\ n \notin 1..(n - 1)
    BY <2>1
  <2>6. (\E i \in 1..n : stack[i].resume # "user") <=>
            stack[n].resume # "user" \/ \E i \in 1..(n - 1) : stack[i].resume # "user"
    BY <2>4, <2>5
  <2>7. \A i, k \in 1..n : stack[i].resume # "user" /\ stack[k].resume # "user" => i = k
    BY DEF ScopeInv
  <2>8. (\E i \in 1..Len(stack') : stack'[i].resume # "user") <=>
            \E i \in 1..(n - 1) : stack[i].resume # "user"
    BY <2>1
  <2>9. ScopeMatchesGuard'
    BY <2>2, <2>3, <2>6, <2>8 DEF ScopeInv, ScopeMatchesGuard
  <2>10. pc' \in Scoped => \A i \in 1..Len(stack') : stack'[i].resume = "user"
    BY <2>1, <2>3, <2>5, <2>7
  <2>11. \A i, k \in 1..Len(stack') :
             stack'[i].resume # "user" /\ stack'[k].resume # "user" => i = k
    BY <2>1, <2>5, <2>7
  <2>12. QED
    BY <2>9, <2>10, <2>11 DEF ScopeInv
<1>4. CASE LeaveScope
  BY <1>4 DEF LeaveScope, ScopeInv, ScopeMatchesGuard, Scoped
<1>5. CASE Tick
  BY <1>5 DEF Tick, EnterScope, UserMayNest, UserMayCall, ScopeInv, ScopeMatchesGuard, Scoped
<1>6. CASE CallbackReturns \/ ConnectAccepted \/ SkipConnect \/ ResolveLater
             \/ WaitForResolver \/ StillConnecting \/ Elapse
  BY <1>1, <1>6 DEF CallbackReturns, ConnectAccepted, SkipConnect, ResolveLater,
        NeedsAddress, Connecting, WaitForResolver, StillConnecting, Polling, Elapse, Scoped
<1>7. CASE ConnectNonReentrant \/ ConnectRefused
  <2>1. <<RefusalCall>> \in Seq(Calls) /\ "user" \in Resumes /\ "leave" \in Resumes
    BY ConstantCalls, SingleCall DEF Resumes
  <2>2. QED
    BY <1>7, <2>1, ScopePush DEF ConnectNonReentrant, ConnectRefused, EnterScope,
                                 UserMayNest, UserMayCall
<1>8. CASE Disconnect
  <2>1. PICK calls : Suspend(calls, "leave") /\ calls \in Seq(Calls)
    BY <1>8, DisconnectPushes DEF EndsWith
  <2>2. QED
    BY <1>8, <2>1, ScopePush DEF Disconnect, EnterScope, UserMayNest, UserMayCall, Resumes
<1>9. ASSUME NEW r \in Resumes, AbortConnect(r), UNCHANGED non_reentrant,
             (pc \in Scoped /\ r # "user") \/ (pc = "user" /\ r = "user")
      PROVE  ScopeInv'
  <2>1. PICK calls : Suspend(calls, r) /\ calls \in Seq(Calls)
    BY <1>9, AbortPushes DEF EndsWith
  <2>2. QED
    BY <1>9, <2>1, ScopePush
<1>10. CASE TickHook \/ Receive
  <2>1. pc \in Scoped /\ UNCHANGED non_reentrant
    BY <1>10 DEF TickHook, Receive, Scoped
  <2>2. <<TransactionCall>> \in Seq(Calls) /\ HookResumes = Resumes \ {"user"}
    BY ConstantCalls, SingleCall DEF Resumes, HookResumes
  <2>3. ASSUME NEW r \in HookResumes, DisconnectWithReason(r)
        PROVE  ScopeInv'
    <3>1. PICK calls : Suspend(calls, r) /\ calls \in Seq(Calls)
      BY <2>2, <2>3, DisconnectWithReasonPushes DEF EndsWith
    <3>2. QED
      BY <2>1, <2>2, <3>1, ScopePush
  <2>4. ASSUME NEW r \in HookResumes, Suspend(<<TransactionCall>>, r)
        PROVE  ScopeInv'
    BY <2>1, <2>2, <2>4, ScopePush
  <2>5. CASE pc' \in Scoped /\ UNCHANGED stack
    BY <1>1, <2>1, <2>5
  <2>6. QED
    BY <1>10, <2>3, <2>4, <2>5 DEF TickHook, Receive, Scoped, HookResumes
<1>11. CASE ResolveNow
  BY <1>1, <1>9, <1>11 DEF ResolveNow, NeedsAddress, Connecting, Scoped, Resumes
<1>12. CASE OpenSocket
  BY <1>1, <1>9, <1>12 DEF OpenSocket, Connecting, Scoped, Resumes
<1>13. CASE ConnectSocket
  BY <1>1, <1>9, <1>13 DEF ConnectSocket, Scoped, Resumes
<1>14. CASE ConnectTimesOut \/ ConnectFails
  BY <1>9, <1>14 DEF ConnectTimesOut, ConnectFails, Polling, Connecting, Scoped, Resumes
<1>15. CASE Connected
  <2>1. <<Call(connect_callback, "Connected")>> \in Seq(Calls) /\ "recv" \in Resumes
    BY SingleCall DEF TypeOK, Call, Calls, Reports, Resumes
  <2>2. QED
    BY <1>15, <2>1, ScopePush DEF Connected, Polling, Connecting, Scoped
<1>16. ASSUME NEW r \in resolves, ResolveAnswer(r) PROVE ScopeInv'
  BY <1>1, <1>9, <1>16 DEF ResolveAnswer, AtMainLoop, Resumes
<1>17. CASE UNCHANGED vars
  BY <1>1, <1>17 DEF vars
<1>18. QED
  BY <1>2, <1>3, <1>4, <1>5, <1>6, <1>7, <1>8, <1>10, <1>11, <1>12, <1>13, <1>14, <1>15,
     <1>16, <1>17 DEF Next, UserStep, LibraryStep

-----------------------------------------------------------------------------
(* The reports still owed.                                                 *)

\* Where the library is free to report, nothing is owed.
LEMMA NothingOwed ==
    ASSUME TypeOK, ScopeInv, OwedInv,
           pc \in Scoped \/ (pc = "user" /\ ~non_reentrant)
    PROVE  \A i \in 1..Len(stack) : ~OwesReport(stack[i])
<1> SUFFICES ASSUME NEW i \in 1..Len(stack), OwesReport(stack[i])
             PROVE  FALSE
  OBVIOUS
<1>1. pc # "callbacks"
  BY DEF Scoped
<1>2. ~Urgent(stack[i])
  BY <1>1 DEF OwedInv
<1>3. stack[i].resume # "user"
  BY <1>2 DEF Urgent, OwesReport
<1>4. QED
  BY <1>3 DEF ScopeInv, ScopeMatchesGuard

\* Any push onto a stack on which nothing is urgent: the new frame must be in
\* order, and owe a report only if no other frame does.
LEMMA OwedPush ==
    ASSUME TypeOK, OwedInv, pc # "callbacks", NEW calls \in Seq(Calls),
           NEW resume \in Resumes, Suspend(calls, resume),
           ReportIsLast([todo |-> calls, resume |-> resume]),
           Urgent([todo |-> calls, resume |-> resume]) => Len(calls) = 1,
           OwesReport([todo |-> calls, resume |-> resume]) =>
               \A i \in 1..Len(stack) : ~OwesReport(stack[i])
    PROVE  OwedInv'
<1> DEFINE n == Len(stack)
           f == [todo |-> calls, resume |-> resume]
<1>1. /\ n \in Nat
      /\ Len(stack') = n + 1
      /\ \A i \in 1..n : stack'[i] = stack[i]
      /\ stack'[n + 1] = f
      /\ pc' = "callbacks"
  BY SuspendPushes, LenStack
<1>2. \A i \in 1..n : ReportIsLast(stack[i]) /\ ~Urgent(stack[i])
  BY DEF OwedInv
<1>3. f.todo = calls
  OBVIOUS
<1>4. /\ ReportIsLast(f)
      /\ Urgent(f) => Len(f.todo) = 1
      /\ OwesReport(f) => \A i \in 1..n : ~OwesReport(stack[i])
  BY <1>3
<1>5. \A i, k \in 1..n : OwesReport(stack[i]) /\ OwesReport(stack[k]) => i = k
  BY DEF OwedInv
<1> HIDE DEF n, f
<1>6. \A i \in 1..(n + 1) : i \in 1..n \/ i = n + 1
  BY <1>1
<1>7. \A i \in 1..(n + 1) : ReportIsLast(stack'[i])
  BY <1>1, <1>2, <1>4, <1>6
<1>8. \A i \in 1..(n + 1) : Urgent(stack'[i]) =>
          pc' = "callbacks" /\ i = n + 1 /\ Len(stack'[i].todo) = 1
  BY <1>1, <1>2, <1>4, <1>6
<1>9. \A i, k \in 1..(n + 1) : OwesReport(stack'[i]) /\ OwesReport(stack'[k]) => i = k
  BY <1>1, <1>4, <1>5, <1>6
<1>10. QED
  BY <1>1, <1>7, <1>8, <1>9 DEF OwedInv, OwesReport, ReportIsLast, Urgent

\* Pushing a frame whose only call is not a report.
LEMMA OwedQuietPush ==
    ASSUME TypeOK, OwedInv, pc # "callbacks", NEW c \in Calls, NEW resume \in Resumes,
           c.attempt = Null, c.event \notin Reports, Suspend(<<c>>, resume)
    PROVE  OwedInv' /\ ~OwesReport([todo |-> <<c>>, resume |-> resume])
<1> DEFINE f == [todo |-> <<c>>, resume |-> resume]
<1>1. f.todo = <<c>> /\ Len(<<c>>) = 1 /\ <<c>>[1] = c /\ <<c>> \in Seq(Calls)
  BY SingleCall
<1> HIDE DEF f
<1>2. ~OwesReport(f) /\ ~Urgent(f) /\ ReportIsLast(f)
  BY <1>1 DEF OwesReport, Urgent, ReportIsLast
<1>3. QED
  BY <1>1, <1>2, OwedPush DEF f

\* Pushing a frame that ends in a report, when nothing is owed.
LEMMA OwedReportPush ==
    ASSUME TypeOK, OwedInv, NEW calls, NEW c \in Calls, NEW resume \in Resumes,
           pc # "callbacks", \A i \in 1..Len(stack) : ~OwesReport(stack[i]),
           EndsWith(calls, c), c.attempt # Null, c.event \in Reports,
           resume = "user" \/ c.event = "Connected" => Len(calls) = 1,
           Suspend(calls, resume)
    PROVE  OwedInv'
<1> DEFINE f == [todo |-> calls, resume |-> resume]
<1>1. f.todo = calls /\ f.resume = resume
  OBVIOUS
<1>2. \A j \in 1..Len(calls) :
          /\ calls[j].attempt # Null <=> calls[j].event \in Reports
          /\ calls[j].attempt # Null => j = Len(calls) /\ calls[j] = c
  BY DEF EndsWith, TransactionCall, Call, Reports
<1> HIDE DEF f
<1>3. ReportIsLast(f)
  BY <1>1, <1>2 DEF ReportIsLast
<1>4. Urgent(f) => Len(calls) = 1
  BY <1>1, <1>2 DEF Urgent
<1>5. QED
  BY <1>3, <1>4, OwedPush DEF f, EndsWith

\* Making a call that is the last of its frame, or comes before its last.
LEMMA OwedInvoke ==
    ASSUME TypeOK, OwedInv, InvokeCallback
    PROVE  OwedInv'
<1> DEFINE n == Len(stack)
           f == stack[n]
           g == stack'[n]
<1>1. /\ n \in Nat \ {0}
      /\ Len(stack') = n
      /\ g.resume = f.resume
      /\ \A i \in 1..(n - 1) : stack'[i] = stack[i]
      /\ g.todo = Tail(f.todo)
  BY InvokePops DEF Top
<1>2. f.todo \in Seq(Calls) /\ f.todo # <<>> /\ pc = "callbacks"
  BY <1>1, FrameType DEF InvokeCallback, Top
<1>3. /\ Len(f.todo) \in Nat
      /\ Len(g.todo) = Len(f.todo) - 1
      /\ \A j \in 1..Len(g.todo) : g.todo[j] = f.todo[j + 1]
  BY <1>1, <1>2, HeadTailProperties, LenProperties
<1>4. /\ ReportIsLast(f)
      /\ Urgent(f) => Len(f.todo) = 1
      /\ \A i \in 1..n : i # n => ReportIsLast(stack[i]) /\ ~Urgent(stack[i])
      /\ \A i, k \in 1..n : OwesReport(stack[i]) /\ OwesReport(stack[k]) => i = k
  BY <1>1 DEF OwedInv
<1>5. \A i \in 1..n : i # n => stack'[i] = stack[i]
  BY <1>1
<1> HIDE DEF n, f, g
<1>6. \A j \in 1..Len(g.todo) : j + 1 \in 1..Len(f.todo) /\ j + 1 # 1
                                /\ (j + 1 = Len(f.todo) => j = Len(g.todo))
  BY <1>3
<1>7. ReportIsLast(g)
  BY <1>3, <1>4, <1>6 DEF ReportIsLast
<1>8. OwesReport(g) => OwesReport(f)
  BY <1>3, <1>6 DEF OwesReport
<1>9. ~Urgent(g)
  <2>1. Urgent(g) => Urgent(f)
    BY <1>1, <1>3, <1>6 DEF Urgent
  <2>2. Len(f.todo) = 1 => ~Urgent(g)
    BY <1>3 DEF Urgent
  <2>3. QED
    BY <1>4, <2>1, <2>2
<1>10. \A i \in 1..n : ReportIsLast(stack'[i]) /\ ~Urgent(stack'[i])
                       /\ (OwesReport(stack'[i]) => OwesReport(stack[i]))
  <2>1. ASSUME NEW i \in 1..n, i = n
        PROVE  ReportIsLast(stack'[i]) /\ ~Urgent(stack'[i])
                 /\ (OwesReport(stack'[i]) => OwesReport(stack[i]))
    BY <2>1, <1>7, <1>8, <1>9 DEF g, f
  <2>2. QED
    BY <1>4, <1>5, <2>1
<1>11. \A i, k \in 1..n : OwesReport(stack'[i]) /\ OwesReport(stack'[k]) => i = k
  BY <1>4, <1>10
<1>12. QED
  BY <1>1, <1>10, <1>11 DEF OwedInv, OwesReport, ReportIsLast, Urgent

LEMMA OwedResume ==
    ASSUME TypeOK, OwedInv, Resume
    PROVE  OwedInv'
<1> DEFINE n == Len(stack)
<1>1. /\ n \in Nat \ {0}
      /\ Len(stack') = n - 1
      /\ \A i \in 1..(n - 1) : stack'[i] = stack[i]
  BY ResumePops
<1>2. \A i \in 1..(n - 1) : i \in 1..n /\ i # n
  BY <1>1
<1>3. \A i \in 1..(n - 1) : ReportIsLast(stack[i]) /\ ~Urgent(stack[i])
  BY <1>2 DEF OwedInv
<1>4. \A i, k \in 1..(n - 1) : OwesReport(stack[i]) /\ OwesReport(stack[k]) => i = k
  BY <1>2 DEF OwedInv
<1> HIDE DEF n
<1>5. /\ \A i \in 1..(n - 1) : ReportIsLast(stack'[i]) /\ ~Urgent(stack'[i])
      /\ \A i, k \in 1..(n - 1) : OwesReport(stack'[i]) /\ OwesReport(stack'[k]) => i = k
  BY <1>1, <1>3, <1>4
<1>6. QED
  BY <1>1, <1>5 DEF OwedInv, OwesReport, ReportIsLast, Urgent

LEMMA OwedSame ==
    ASSUME OwedInv, UNCHANGED stack, pc # "callbacks" \/ UNCHANGED pc
    PROVE  OwedInv'
BY DEF OwedInv, OwesReport, ReportIsLast, Urgent

-----------------------------------------------------------------------------
(* What each attempt was told.                                             *)

\* Steps that tell nothing and change no connection.
LEMMA ReportsSame ==
    ASSUME ReportsInv, UNCHANGED <<stack, delivered, accepted, host>>,
           socket_fd' = NoSocket <=> socket_fd = NoSocket
    PROVE  ReportsInv'
<1>1. \A c : OwedFits(c)' <=> OwedFits(c)
  BY DEF OwedFits
<1>2. (\A i \in 1..Len(stack) : FrameFits(stack[i]))'
  BY <1>1 DEF ReportsInv, FrameFits
<1>3. \A a \in Attempts : Owes(a)' <=> Owes(a)
  BY DEF Owes, OwesTo
<1>4. \A a \in Attempts : Told(a)'
  BY <1>3 DEF ReportsInv, Told, Complete
<1>5. QED
  BY <1>2, <1>4 DEF ReportsInv

LEMMA FitsKept ==
    ASSUME NEW i, stack'[i] = stack[i], FrameFits(stack[i]),
           delivered' = delivered, accepted' = accepted, host' = host,
           socket_fd' = socket_fd
    PROVE  FrameFits(stack[i])'
<1>1. \A c : OwedFits(c) => OwedFits(c)'
  BY DEF OwedFits
<1>2. QED
  BY <1>1 DEF FrameFits

\* Every frame stays, and one is pushed that owes no report.
LEMMA ReportsQuietPush ==
    ASSUME TypeOK, ReportsInv, NEW calls \in Seq(Calls), NEW resume \in Resumes,
           Suspend(calls, resume), ~OwesReport([todo |-> calls, resume |-> resume]),
           UNCHANGED <<delivered, accepted, host, socket_fd>>
    PROVE  ReportsInv'
<1> DEFINE f == [todo |-> calls, resume |-> resume]
<1>1. PICK n \in Nat : n = Len(stack)
  BY LenStack
<1>2. /\ Len(stack') = n + 1
      /\ \A i \in 1..n : stack'[i] = stack[i]
      /\ stack'[n + 1] = f
  BY <1>1, SuspendPushes
<1>3. \A j \in 1..Len(f.todo) : f.todo[j].attempt = Null
  BY DEF OwesReport
<1> HIDE DEF f
<1>4. \A i \in 1..(n + 1) : i \in 1..n \/ i = n + 1
  OBVIOUS
<1>5. \A i \in 1..n : FrameFits(stack[i])
  BY <1>1 DEF ReportsInv
<1>6. ASSUME NEW i \in 1..(n + 1) PROVE FrameFits(stack[i])'
  <2>1. CASE i \in 1..n
    BY <1>2, <1>5, <2>1, FitsKept
  <2>2. CASE i = n + 1
    BY <1>2, <1>3, <2>2 DEF FrameFits
  <2>3. QED
    BY <1>4, <2>1, <2>2
<1>7. ASSUME NEW a \in Attempts, Owes(a) PROVE Owes(a)'
  <2>1. PICK i \in 1..n : OwesTo(stack[i], a)
    BY <1>1, <1>7 DEF Owes
  <2>2. i \in 1..(n + 1) /\ stack'[i] = stack[i]
    BY <1>2, <2>1
  <2>3. QED
    BY <1>2, <2>1, <2>2 DEF Owes, OwesTo
<1>8. ASSUME NEW a \in Attempts PROVE Told(a)'
  BY <1>7 DEF ReportsInv, Told, Complete
<1>9. QED
  BY <1>2, <1>6, <1>8 DEF ReportsInv

\* Nothing is owed, and a frame is pushed whose last call is the report c about
\* the attempt the client holds.
LEMMA ReportsPush ==
    ASSUME TypeOK, ReportsInv, NEW calls, NEW c \in Calls, NEW resume \in Resumes,
           \A i \in 1..Len(stack) : ~OwesReport(stack[i]),
           EndsWith(calls, c), c.attempt = host, host # Null, host <= accepted,
           Suspend(calls, resume), UNCHANGED <<delivered, accepted>>,
           \/ /\ host' = Null /\ socket_fd' = NoSocket
              /\ c.event = IF socket_fd = NoSocket THEN "Failed" ELSE "Disconnected"
           \/ /\ host' = host /\ socket_fd = NoSocket /\ socket_fd' # NoSocket
              /\ c.event = "Connected"
    PROVE  ReportsInv'
<1> DEFINE f == [todo |-> calls, resume |-> resume]
<1>1. PICK n \in Nat : n = Len(stack)
  BY LenStack
<1>2. /\ Len(stack') = n + 1
      /\ \A i \in 1..n : stack'[i] = stack[i]
      /\ stack'[n + 1] = f
  BY <1>1, SuspendPushes DEF EndsWith
<1>3. PICK h \in Attempts : h = host /\ c.attempt = h /\ h <= accepted
  BY DEF TypeOK
<1>4. \A a \in Attempts : ~Owes(a)
  BY DEF Owes, OwesTo, OwesReport, Null, Attempts
<1>5. f.todo = calls
  OBVIOUS
<1>6. \A j \in 1..Len(calls) : calls[j].attempt # Null => calls[j] = c
  BY DEF EndsWith, TransactionCall, Call
<1>7. Len(calls) \in 1..Len(calls) /\ calls[Len(calls)] = c
  BY DEF EndsWith
<1> HIDE DEF f
<1>8. OwedFits(c)'
  <2>1. Told(h)
    BY DEF ReportsInv
  <2>2. delivered[h] = IF socket_fd = NoSocket THEN <<>> ELSE <<"Connected">>
    BY <1>3, <1>4, <2>1 DEF Told
  <2>3. h # Null
    BY DEF Null, Attempts
  <2>4. QED
    BY <1>3, <2>2, <2>3 DEF OwedFits
<1>9. \A i \in 1..(n + 1) : i \in 1..n \/ i = n + 1
  OBVIOUS
<1>10. ASSUME NEW i \in 1..(n + 1) PROVE FrameFits(stack[i])'
  <2>1. CASE i \in 1..n
    <3>1. stack'[i] = stack[i] /\ ~OwesReport(stack[i])
      BY <1>1, <1>2, <2>1
    <3>2. QED
      BY <3>1 DEF FrameFits, OwesReport
  <2>2. CASE i = n + 1
    <3>1. stack'[i].todo = calls
      BY <1>2, <1>5, <2>2
    <3>2. QED
      BY <1>6, <1>8, <3>1 DEF FrameFits
  <2>3. QED
    BY <1>9, <2>1, <2>2
<1>11. Owes(h)'
  <2>1. stack'[n + 1].todo = calls /\ n + 1 \in 1..Len(stack')
    BY <1>2, <1>5
  <2>2. \E j \in 1..Len(calls) : calls[j].attempt = h
    BY <1>3, <1>7
  <2>3. QED
    BY <2>1, <2>2 DEF Owes, OwesTo
<1>12. ASSUME NEW a \in Attempts PROVE Told(a)'
  <2>1. Told(a) /\ ~Owes(a) /\ a # Null
    BY <1>4 DEF ReportsInv, Null, Attempts
  <2>2. CASE a # h
    BY <1>3, <2>1, <2>2 DEF Told, Complete
  <2>3. CASE a = h
    BY <1>3, <1>11, <2>1, <2>3 DEF Told
  <2>4. QED
    BY <2>2, <2>3
<1>13. QED
  BY <1>2, <1>10, <1>12 DEF ReportsInv

LEMMA ReportsResume ==
    ASSUME TypeOK, ReportsInv, Resume
    PROVE  ReportsInv'
<1>1. PICK n \in Nat : n = Len(stack)
  BY LenStack
<1>2. /\ n \in Nat \ {0}
      /\ Len(stack') = n - 1
      /\ \A i \in 1..(n - 1) : stack'[i] = stack[i]
      /\ Len(stack[n].todo) = 0
      /\ UNCHANGED <<delivered, accepted, host, socket_fd>>
  BY <1>1, ResumePops DEF Top, Resume, connectionVars, historyVars
<1>3. \A i \in 1..n : i \in 1..(n - 1) \/ i = n
  BY <1>2
<1>4. \A i \in 1..(n - 1) : i \in 1..n
  BY <1>2
<1>5. ASSUME NEW i \in 1..(n - 1) PROVE FrameFits(stack[i])'
  <2>1. FrameFits(stack[i]) /\ stack'[i] = stack[i]
    BY <1>1, <1>2, <1>4 DEF ReportsInv
  <2>2. QED
    BY <1>2, <2>1 DEF FrameFits, OwedFits
<1>6. ASSUME NEW a \in Attempts, Owes(a) PROVE Owes(a)'
  <2>1. PICK i \in 1..n : OwesTo(stack[i], a)
    BY <1>1, <1>6 DEF Owes
  <2>2. i # n
    BY <1>2, <2>1 DEF OwesTo
  <2>3. i \in 1..(n - 1) /\ stack'[i] = stack[i]
    BY <1>2, <1>3, <2>1, <2>2
  <2>4. QED
    BY <1>2, <2>1, <2>3 DEF Owes, OwesTo
<1>7. ASSUME NEW a \in Attempts PROVE Told(a)'
  BY <1>2, <1>6 DEF ReportsInv, Told, Complete
<1>8. QED
  BY <1>2, <1>5, <1>7 DEF ReportsInv

\* The call made is a report, and then the only one owed, or not.
LEMMA ReportsInvoke ==
    ASSUME TypeOK, OwedInv, ReportsInv, InvokeCallback
    PROVE  ReportsInv'
<1>1. PICK n \in Nat : n = Len(stack)
  BY LenStack
<1>2. PICK c \in Calls, t \in Seq(Calls), u \in Seq(Calls) :
          /\ t = stack[n].todo
          /\ u = stack'[n].todo
          /\ Len(t) \in Nat \ {0} /\ Len(u) = Len(t) - 1
          /\ \A j \in 1..Len(u) : u[j] = t[j + 1]
          /\ c = t[1] /\ c = Head(Top.todo)
  <2>1. stack[n].todo \in Seq(Calls) /\ stack[n].todo # <<>> /\ n \in 1..n
        /\ Top = stack[n] /\ stack'[n].todo = Tail(stack[n].todo)
        /\ Head(Top.todo) \in Calls /\ Head(Top.todo) = Top.todo[1]
    <3>1. Top = stack[n]
      BY <1>1, Zenon DEF Top
    <3>2. n \in Nat \ {0} /\ Head(Top.todo) \in Calls /\ Head(Top.todo) = Top.todo[1]
          /\ stack'[n].todo = Tail(Top.todo)
      BY <1>1, InvokePops, Zenon
    <3>3. Top.todo # <<>>
      BY DEF InvokeCallback
    <3>4. /\ n \in 1..n /\ n \in 1..Len(stack) /\ Top = stack[n]
          /\ Head(Top.todo) \in Calls /\ Head(Top.todo) = Top.todo[1]
          /\ stack'[n].todo = Tail(Top.todo) /\ Top.todo # <<>>
      BY <1>1, <3>1, <3>2, <3>3
    <3>5. stack[n].todo \in Seq(Calls)
      BY <3>4, FrameType, Zenon
    <3>6. QED
      BY <3>4, <3>5
  <2>2. QED
    BY <2>1, HeadTailProperties, EmptySeq
<1>3. /\ n \in Nat \ {0} /\ n \in 1..n
      /\ Len(stack') = n
      /\ \A i \in 1..n : i # n => stack'[i] = stack[i]
      /\ UNCHANGED <<accepted, host, socket_fd>>
  BY <1>1, InvokePops DEF InvokeCallback, connectionVars
<1>4. \A j \in 1..Len(u) : j + 1 \in 1..Len(t) /\ j + 1 # 1
  BY <1>2
<1>5. 1 \in 1..Len(t) /\ \A j \in 1..Len(t) : j = 1 \/ (j - 1 \in 1..Len(u) /\ j - 1 + 1 = j)
  BY <1>2
<1>6. /\ c.attempt # Null <=> c.event \in Reports
      /\ c.attempt # Null => Len(t) = 1
      /\ c.attempt # Null => OwedFits(c)
  <2>1. ReportIsLast(stack[n]) /\ FrameFits(stack[n])
    BY <1>1, <1>3 DEF OwedInv, ReportsInv
  <2>2. /\ t[1].attempt # Null <=> t[1].event \in Reports
        /\ t[1].attempt # Null => 1 = Len(t)
    BY <1>2, <1>5, <2>1 DEF ReportIsLast
  <2>3. t[1].attempt # Null => OwedFits(t[1])
    BY <1>2, <1>5, <2>1 DEF FrameFits
  <2>4. QED
    BY <1>2, <2>2, <2>3
<1>7. \A i \in 1..n : FrameFits(stack[i])
  BY <1>1 DEF ReportsInv
<1>8. CASE c.attempt = Null
  <2>1. UNCHANGED delivered
    BY <1>2, <1>6, <1>8 DEF InvokeCallback
  <2>2. ASSUME NEW i \in 1..n PROVE FrameFits(stack[i])'
    <3>1. CASE i # n
      BY <1>3, <1>7, <2>1, <3>1, FitsKept
    <3>2. CASE i = n
      <4>1. \A j \in 1..Len(t) : t[j].attempt # Null => OwedFits(t[j])
        BY <1>2, <1>3, <1>7 DEF FrameFits
      <4>2. \A j \in 1..Len(u) : u[j].attempt # Null => OwedFits(u[j])'
        <5>1. \A d : OwedFits(d) => OwedFits(d)'
          BY <1>3, <2>1 DEF OwedFits
        <5>2. \A j \in 1..Len(u) : u[j].attempt # Null => OwedFits(u[j])
          BY <1>2, <1>4, <4>1
        <5>3. QED
          BY <5>1, <5>2
      <4>3. QED
        BY <1>2, <3>2, <4>2 DEF FrameFits
    <3>3. QED
      BY <3>1, <3>2
  <2>3. ASSUME NEW a \in Attempts, Owes(a) PROVE Owes(a)'
    <3>1. PICK i \in 1..n : OwesTo(stack[i], a)
      BY <1>1, <2>3 DEF Owes
    <3>2. CASE i # n
      BY <1>3, <3>1, <3>2 DEF Owes, OwesTo
    <3>3. CASE i = n
      <4>1. PICK j \in 1..Len(t) : t[j].attempt = a
        BY <1>2, <3>1, <3>3 DEF OwesTo
      <4>2. j # 1
        <5>1. a # Null
          BY DEF Null, Attempts
        <5>2. t[1].attempt = Null
          BY <1>2, <1>8
        <5>3. QED
          BY <4>1, <5>1, <5>2
      <4>3. j - 1 \in 1..Len(u) /\ u[j - 1] = t[j]
        BY <1>2, <1>5, <4>2
      <4>4. QED
        BY <1>2, <1>3, <4>1, <4>3 DEF Owes, OwesTo
    <3>4. QED
      BY <3>2, <3>3
  <2>4. ASSUME NEW a \in Attempts PROVE Told(a)'
    BY <1>3, <2>1, <2>3 DEF ReportsInv, Told, Complete
  <2>5. QED
    BY <1>3, <2>2, <2>4 DEF ReportsInv
<1>9. CASE c.attempt # Null
  <2>1. PICK h \in Attempts : h = c.attempt
    BY <1>2, <1>9 DEF Calls
  <2>2. /\ delivered' = [delivered EXCEPT ![h] = Append(@, c.event)]
        /\ delivered \in [Attempts \cup {Null} -> Seq(Reports)]
    BY <1>2, <1>6, <1>9, <2>1 DEF InvokeCallback, TypeOK
  <2>3. /\ delivered'[h] = Append(delivered[h], c.event)
        /\ \A a \in Attempts : a # h => delivered'[a] = delivered[a]
    BY <2>2
  <2>4. OwesReport(stack[n])
    BY <1>2, <1>5, <1>9 DEF OwesReport
  <2>5. \A i \in 1..n : i # n => ~OwesReport(stack[i])
    BY <1>1, <1>3, <2>4 DEF OwedInv
  <2>6. ASSUME NEW i \in 1..n PROVE FrameFits(stack[i])'
    <3>1. CASE i # n
      BY <1>3, <2>5, <3>1 DEF FrameFits, OwesReport
    <3>2. CASE i = n
      BY <1>2, <1>6, <1>9, <3>2 DEF FrameFits
    <3>3. QED
      BY <3>1, <3>2
  <2>7. ASSUME NEW a \in Attempts, a # h PROVE ~Owes(a)
    <3>1. ASSUME NEW i \in 1..n, OwesTo(stack[i], a) PROVE FALSE
      <4>1. OwesReport(stack[i])
        BY <3>1 DEF OwesTo, OwesReport, Null, Attempts
      <4>2. i = n
        BY <2>5, <4>1
      <4>3. QED
        <5>1. PICK j \in 1..Len(t) : t[j].attempt = a
          BY <1>2, <3>1, <4>2 DEF OwesTo
        <5>2. Len(t) = 1
          BY <1>6, <1>9
        <5>3. j = 1
          BY <5>1, <5>2
        <5>4. t[1].attempt = h
          BY <1>2, <2>1
        <5>5. QED
          BY <2>7, <5>1, <5>3, <5>4
    <3>2. QED
      BY <1>1, <3>1 DEF Owes
  <2>8. ASSUME NEW a \in Attempts PROVE Told(a)'
    <3>1. CASE a # h
      BY <1>3, <2>3, <2>7, <3>1 DEF ReportsInv, Told, Complete
    <3>2. CASE a = h
      <4>1. c.event \in Reports /\ OwedFits(c) /\ c.attempt = a
        BY <1>6, <1>9, <2>1, <3>2
      <4>2. CASE c.event = "Connected"
        <5>1. a = host /\ socket_fd # NoSocket /\ delivered[a] = <<>> /\ a <= accepted
          BY <4>1, <4>2 DEF OwedFits
        <5>2. delivered'[a] = <<"Connected">>
          BY <2>3, <3>2, <4>2, <5>1
        <5>3. QED
          BY <1>3, <5>1, <5>2 DEF Told, TypeOK, Attempts
      <4>3. CASE c.event = "Failed"
        <5>1. a # host /\ delivered[a] = <<>> /\ a <= accepted
          BY <4>1, <4>3 DEF OwedFits
        <5>2. delivered'[a] = <<"Failed">>
          BY <2>3, <3>2, <4>3, <5>1
        <5>3. QED
          BY <1>3, <5>1, <5>2 DEF Told, Complete, TypeOK, Attempts
      <4>4. CASE c.event = "Disconnected"
        <5>1. a # host /\ delivered[a] = <<"Connected">> /\ a <= accepted
          BY <4>1, <4>4 DEF OwedFits
        <5>2. delivered'[a] = <<"Connected", "Disconnected">>
          BY <2>3, <3>2, <4>4, <5>1
        <5>3. QED
          BY <1>3, <5>1, <5>2 DEF Told, Complete, TypeOK, Attempts
      <4>5. QED
        BY <4>1, <4>2, <4>3, <4>4 DEF Reports
    <3>3. QED
      BY <3>1, <3>2
  <2>9. QED
    BY <1>3, <2>6, <2>8 DEF ReportsInv
<1>10. QED
  BY <1>8, <1>9

\* A step that closes and pushes a report of the attempt it closes.
LEMMA CloseReports ==
    ASSUME TypeOK, ShapeInv, OwedInv, ReportsInv,
           \A i \in 1..Len(stack) : ~OwesReport(stack[i]), pc # "callbacks",
           NEW calls, NEW resume \in Resumes, Close, Suspend(calls, resume),
           EndsWith(calls, Call(host, IF socket_fd = NoSocket
                                      THEN "Failed" ELSE "Disconnected")),
           host # Null, resume = "user" => Len(calls) = 1,
           UNCHANGED <<delivered, accepted>>
    PROVE  OwedInv' /\ ReportsInv'
<1> DEFINE c == Call(host, IF socket_fd = NoSocket THEN "Failed" ELSE "Disconnected")
<1>1. /\ c \in Calls /\ c.attempt = host /\ c.event \in Reports /\ c.event # "Connected"
      /\ c.event = IF socket_fd = NoSocket THEN "Failed" ELSE "Disconnected"
  BY DEF TypeOK, Call, Calls, Reports
<1>2. host' = Null /\ socket_fd' = NoSocket /\ host <= accepted
  BY DEF Close, CloseSockets, ShapeInv, TypeOK
<1>3. EndsWith(calls, c)
  OBVIOUS
<1> HIDE DEF c
<1>4. OwedInv'
  BY <1>1, <1>3, OwedReportPush
<1>5. ReportsInv'
  BY <1>1, <1>2, <1>3, ReportsPush
<1>6. QED
  BY <1>4, <1>5

LEMMA ReportsStep ==
    ASSUME TypeOK, ShapeInv, ScopeInv, OwedInv, ReportsInv, [Next]_vars
    PROVE  OwedInv' /\ ReportsInv'
<1> USE DEF connectionVars, historyVars, controlVars
<1>1. ASSUME UNCHANGED <<stack, delivered, accepted, host, socket_fd>>, pc # "callbacks"
      PROVE  OwedInv' /\ ReportsInv'
  BY <1>1, OwedSame, ReportsSame
<1>2. CASE InvokeCallback
  BY <1>2, OwedInvoke, ReportsInvoke
<1>3. CASE Resume
  BY <1>3, OwedResume, ReportsResume
<1>4. CASE CallbackReturns \/ LeaveScope \/ SkipConnect \/ ResolveLater \/ WaitForResolver
             \/ StillConnecting \/ Tick \/ Elapse
  BY <1>1, <1>4 DEF CallbackReturns, LeaveScope, SkipConnect, ResolveLater, NeedsAddress,
        Connecting, WaitForResolver, StillConnecting, Polling, Tick, UserMayNest,
        UserMayCall, Elapse
<1>5. CASE ConnectAccepted
  <2>1. /\ pc = "user" /\ ~non_reentrant /\ host = Null /\ socket_fd = NoSocket
        /\ accepted' = accepted + 1 /\ host' = accepted'
        /\ accepted \in Nat
        /\ UNCHANGED <<stack, delivered, socket_fd>>
    BY <1>5 DEF ConnectAccepted, UserMayCall, ShapeInv, TypeOK
  <2>2. \A i \in 1..Len(stack) : ~OwesReport(stack[i])
    BY <2>1, NothingOwed
  <2>3. \A i \in 1..Len(stack') : FrameFits(stack[i])'
    BY <2>1, <2>2 DEF FrameFits, OwesReport
  <2>4. \A a \in Attempts : ~Owes(a) /\ a # Null /\ a \in Nat
    BY <2>2 DEF Owes, OwesTo, OwesReport, Null, Attempts
  <2>5. ASSUME NEW a \in Attempts PROVE Told(a)'
    BY <2>1, <2>4 DEF ReportsInv, Told, Complete
  <2>6. OwedInv'
    BY <2>1, OwedSame
  <2>7. QED
    BY <2>3, <2>5, <2>6 DEF ReportsInv
<1>6. ASSUME NEW c \in Calls, NEW r \in Resumes, c.attempt = Null, c.event \notin Reports,
             Suspend(<<c>>, r), pc # "callbacks",
             UNCHANGED <<delivered, accepted, host, socket_fd>>
      PROVE  OwedInv' /\ ReportsInv'
  BY <1>6, OwedQuietPush, ReportsQuietPush, SingleCall
<1>7. CASE ConnectNonReentrant \/ ConnectRefused
  <2>1. RefusalCall.attempt = Null /\ RefusalCall.event \notin Reports
    BY DEF RefusalCall, Call, Reports
  <2>2. QED
    BY <1>6, <1>7, <2>1, ConstantCalls
       DEF ConnectNonReentrant, ConnectRefused, UserMayNest, UserMayCall, Resumes
<1>8. CASE Disconnect
  <2>1. /\ pc = "user" /\ ~non_reentrant /\ Close /\ host # Null
        /\ UNCHANGED <<delivered, accepted>>
    BY <1>8 DEF Disconnect, EnterScope, UserMayNest, UserMayCall
  <2>2. PICK calls : /\ Suspend(calls, "leave")
                     /\ EndsWith(calls, IF socket_fd = NoSocket
                                 THEN Call(host, "Failed") ELSE Call(host, "Disconnected"))
    BY <1>8, DisconnectPushes
  <2>3. EndsWith(calls, Call(host, IF socket_fd = NoSocket THEN "Failed" ELSE "Disconnected"))
    BY <2>2
  <2>4. \A i \in 1..Len(stack) : ~OwesReport(stack[i])
    BY <2>1, NothingOwed
  <2>5. QED
    BY <2>1, <2>2, <2>3, <2>4, CloseReports DEF Resumes
<1>9. ASSUME NEW r \in Resumes, AbortConnect(r), UNCHANGED <<delivered, accepted>>,
             pc \in Scoped \/ (pc = "user" /\ ~non_reentrant),
             host # Null, socket_fd = NoSocket
      PROVE  OwedInv' /\ ReportsInv'
  <2>1. connect_callback = host
    BY <1>9 DEF ShapeInv
  <2>2. PICK calls : /\ EndsWith(calls, Call(host, "Failed"))
                     /\ Suspend(calls, r)
                     /\ Len(calls) = 1
    BY <1>9, <2>1, AbortPushes
  <2>3. EndsWith(calls, Call(host, IF socket_fd = NoSocket THEN "Failed" ELSE "Disconnected"))
    BY <1>9, <2>2
  <2>4. \A i \in 1..Len(stack) : ~OwesReport(stack[i])
    BY <1>9, NothingOwed
  <2>5. Close /\ pc # "callbacks"
    BY <1>9, AbortPushes DEF Scoped
  <2>6. QED
    BY <1>9, <2>2, <2>3, <2>4, <2>5, CloseReports
<1>10. CASE TickHook \/ Receive
  <2>1. pc \in Scoped /\ pc # "callbacks" /\ UNCHANGED <<delivered, accepted>>
    BY <1>10 DEF TickHook, Receive, Scoped
  <2>2. /\ TransactionCall.attempt = Null /\ TransactionCall.event \notin Reports
        /\ HookResumes = Resumes \ {"user"}
    BY DEF TransactionCall, Call, Reports, Resumes, HookResumes
  <2>3. ASSUME NEW r \in HookResumes, DisconnectWithReason(r), socket_fd # NoSocket
        PROVE  OwedInv' /\ ReportsInv'
    <3>1. disconnect_callback = host /\ host # Null
      BY <2>3 DEF ShapeInv
    <3>2. PICK calls : EndsWith(calls, Call(host, "Disconnected")) /\ Suspend(calls, r)
      BY <2>2, <2>3, <3>1, DisconnectWithReasonPushes
    <3>3. EndsWith(calls, Call(host, IF socket_fd = NoSocket THEN "Failed" ELSE "Disconnected"))
      BY <2>3, <3>2
    <3>4. \A i \in 1..Len(stack) : ~OwesReport(stack[i])
      BY <2>1, NothingOwed
    <3>5. Close
      BY <2>3 DEF DisconnectWithReason
    <3>6. QED
      BY <2>1, <2>2, <3>1, <3>2, <3>3, <3>4, <3>5, CloseReports
  <2>4. ASSUME NEW r \in HookResumes, Suspend(<<TransactionCall>>, r),
               UNCHANGED <<host, socket_fd>>
        PROVE  OwedInv' /\ ReportsInv'
    BY <1>6, <2>1, <2>2, <2>4, ConstantCalls
  <2>5. CASE UNCHANGED <<connectionVars, stack>>
    BY <1>1, <2>1, <2>5
  <2>6. QED
    BY <1>10, <2>3, <2>4, <2>5 DEF TickHook, Receive, HookResumes
<1>11. CASE ResolveNow
  BY <1>1, <1>9, <1>11 DEF ResolveNow, NeedsAddress, Connecting, Scoped, Resumes
<1>12. CASE OpenSocket
  BY <1>1, <1>9, <1>12 DEF OpenSocket, Connecting, Scoped, Resumes
<1>13. CASE ConnectSocket
  <2>1. pc = "opened" => host # Null /\ socket_fd = NoSocket
    BY DEF ShapeInv
  <2>2. QED
    BY <1>1, <1>9, <1>13, <2>1 DEF ConnectSocket, Scoped, Resumes
<1>14. CASE ConnectTimesOut \/ ConnectFails
  BY <1>9, <1>14 DEF ConnectTimesOut, ConnectFails, Polling, Connecting, Scoped, Resumes
<1>15. CASE Connected
  <2> DEFINE c == Call(host, "Connected")
  <2>1. /\ pc = "connect" /\ host # Null /\ socket_fd = NoSocket
        /\ connect_callback = host /\ host <= accepted
        /\ host' = host /\ socket_fd' # NoSocket
        /\ Suspend(<<c>>, "recv") /\ UNCHANGED <<delivered, accepted>>
    BY <1>15 DEF Connected, Polling, Connecting, ShapeInv, TypeOK
  <2>2. c \in Calls /\ c.attempt = host /\ c.event = "Connected" /\ c.event \in Reports
    BY DEF TypeOK, Call, Calls, Reports
  <2> HIDE DEF c
  <2>3. EndsWith(<<c>>, c) /\ Len(<<c>>) = 1
    BY <2>2, SingleCall DEF EndsWith
  <2>4. \A i \in 1..Len(stack) : ~OwesReport(stack[i])
    BY <2>1, NothingOwed DEF Scoped
  <2>5. OwedInv'
    BY <2>1, <2>2, <2>3, <2>4, OwedReportPush DEF Resumes
  <2>6. ReportsInv'
    BY <2>1, <2>2, <2>3, <2>4, ReportsPush DEF Resumes
  <2>7. QED
    BY <2>5, <2>6
<1>16. ASSUME NEW r \in resolves, ResolveAnswer(r) PROVE OwedInv' /\ ReportsInv'
  <2>1. /\ pc = "user" /\ stack = <<>> /\ UNCHANGED <<delivered, accepted, non_reentrant>>
        /\ pc \notin Scoped
    BY <1>16 DEF ResolveAnswer, AtMainLoop, Scoped
  <2>2. ~non_reentrant
    BY <2>1 DEF ScopeInv, ScopeMatchesGuard
  <2>3. CASE AbortConnect("user") /\ AnswerIsCurrent(r)
    <3>1. host # Null /\ socket_fd = NoSocket
      BY <2>3 DEF AnswerIsCurrent, ShapeInv
    <3>2. QED
      BY <1>9, <2>1, <2>2, <2>3, <3>1 DEF Resumes
  <2>4. CASE UNCHANGED <<stack, host, socket_fd>>
    BY <1>1, <2>1, <2>4
  <2>5. QED
    BY <1>16, <2>3, <2>4 DEF ResolveAnswer
<1>17. CASE UNCHANGED vars
  BY <1>17, OwedSame, ReportsSame DEF vars
<1>18. QED
  BY <1>2, <1>3, <1>4, <1>5, <1>7, <1>8, <1>10, <1>11, <1>12, <1>13, <1>14, <1>15,
     <1>16, <1>17 DEF Next, UserStep, LibraryStep

-----------------------------------------------------------------------------
(* The theorems.                                                           *)

LEMMA Initially == Init => IInv
<1> SUFFICES ASSUME Init PROVE IInv
  OBVIOUS
<1>1. TypeOK
  BY InitType
<1>2. ShapeInv /\ AddressInv
  BY InitShape
<1>3. stack = <<>> /\ Len(stack) = 0 /\ pc = "user" /\ ~non_reentrant
  BY DEF Init
<1>4. ScopeInv
  BY <1>3 DEF ScopeInv, ScopeMatchesGuard, Scoped
<1>5. OwedInv
  BY <1>3 DEF OwedInv
<1>6. ReportsInv
  BY <1>3 DEF Init, ReportsInv, Told, Null, Attempts
<1>7. QED
  BY <1>1, <1>2, <1>4, <1>5, <1>6 DEF IInv

LEMMA Inductive == IInv /\ [Next]_vars => IInv'
BY TypeStep, ShapeStep, ScopeStep, ReportsStep DEF IInv

\* IInv holds in every state the client can reach.
THEOREM Invariance == Spec => []IInv
<1>1. QED
  BY Initially, Inductive, PTL DEF Spec

\* Type correctness, for every number of attempts, descriptors and nested calls.
THEOREM TypeCorrect == Spec => []TypeOK
<1>1. IInv => TypeOK
  BY DEF IInv
<1>2. QED
  BY <1>1, Invariance, PTL

\* No descriptor is leaked or used after it was closed.
THEOREM SocketsAccounted == Spec => []NoSocketLeak
<1>1. IInv => NoSocketLeak
  BY DEF IInv, ShapeInv
<1>2. QED
  BY <1>1, Invariance, PTL

\* The callbacks kept are the ones the state of the connection calls for.
THEOREM CallbacksOwned == Spec => []CallbackOwnership
<1>1. IInv => CallbackOwnership
  BY DEF IInv, ShapeInv, CallbackOwnership, ConnectionStatus
<1>2. QED
  BY <1>1, Invariance, PTL

\* The client never calls an empty std::function.
THEOREM CallsAreReal == Spec => []NoEmptyCall
<1>1. IInv => NoEmptyCall
  BY DEF IInv, OwedInv, ReportIsLast, NoEmptyCall
<1>2. QED
  BY <1>1, Invariance, PTL

\* The peer is the host of the attempt in progress, however late the answers of
\* the resolver are.
THEOREM ConnectsToOwnHost == Spec => []OwnHostOnly
<1>1. IInv => OwnHostOnly
  BY DEF IInv, AddressInv, OwnHostOnly
<1>2. QED
  BY <1>1, Invariance, PTL

\* The guard is up exactly while a guarded function has not returned.
THEOREM GuardIsExact == Spec => []ScopeMatchesGuard
<1>1. IInv => ScopeMatchesGuard
  BY DEF IInv, ScopeInv
<1>2. QED
  BY <1>1, Invariance, PTL

\* What get_connection_status() says in a callback is what the callbacks told.
THEOREM StatusIsTold == Spec => []StatusMatchesReports
<1>1. ASSUME IInv, pc = "user" PROVE StatusMatchesReports
  <2>1. host # Null => host \in Attempts
    BY <1>1 DEF IInv, TypeOK
  <2>2. socket_fd # NoSocket => host # Null
    BY <1>1 DEF IInv, ShapeInv
  <2>3. \A i \in 1..Len(stack) : ~Urgent(stack[i]) /\ FrameFits(stack[i])
    BY <1>1 DEF IInv, OwedInv, ReportsInv
  <2>4. ASSUME socket_fd # NoSocket PROVE ~Owes(host)
    <3>1. ASSUME NEW i \in 1..Len(stack), NEW j \in 1..Len(stack[i].todo),
                 stack[i].todo[j].attempt = host
          PROVE  FALSE
      <4>1. host # Null /\ stack[i].todo[j].attempt # Null
        BY <2>2, <2>4, <3>1
      <4>2. OwedFits(stack[i].todo[j])
        BY <2>3, <4>1 DEF FrameFits
      <4>3. stack[i].todo[j].event \in Reports
        BY <1>1, <4>1 DEF IInv, OwedInv, ReportIsLast
      <4>4. stack[i].todo[j].event = "Connected"
        BY <3>1, <4>2, <4>3 DEF OwedFits, Reports
      <4>5. QED
        BY <2>3, <4>1, <4>4 DEF Urgent
    <3>2. QED
      BY <3>1 DEF Owes, OwesTo
  <2>5. ConnectionStatus = "InProgress" => delivered[host] = <<>>
    BY <1>1, <2>1 DEF IInv, ReportsInv, Told, ConnectionStatus
  <2>6. ConnectionStatus = "Connected" => delivered[host] = <<"Connected">>
    BY <1>1, <2>1, <2>2, <2>4 DEF IInv, ReportsInv, Told, ConnectionStatus
  <2>7. ASSUME NEW a \in 1..accepted, a # host, ~Complete(a)
        PROVE  \E i \in 1..Len(stack) : Owing(a) = {i}
    <3>1. a \in Attempts /\ a <= accepted /\ a # Null
      BY <1>1 DEF IInv, TypeOK, Attempts, Null
    <3>2. Owes(a)
      BY <1>1, <2>7, <3>1 DEF IInv, ReportsInv, Told
    <3>3. PICK i \in 1..Len(stack) : OwesTo(stack[i], a)
      BY <3>2 DEF Owes
    <3>4. ASSUME NEW k \in 1..Len(stack), OwesTo(stack[k], a) PROVE k = i
      <4>1. OwesReport(stack[i]) /\ OwesReport(stack[k])
        BY <3>1, <3>3, <3>4 DEF OwesTo, OwesReport
      <4>2. QED
        BY <1>1, <4>1 DEF IInv, OwedInv
    <3>5. Owing(a) = {k \in 1..Len(stack) : OwesTo(stack[k], a)}
      BY DEF Owing, OwesTo
    <3>6. Owing(a) = {i}
      BY <3>3, <3>4, <3>5
    <3>7. QED
      BY <3>6
  <2>8. QED
    BY <2>5, <2>6, <2>7 DEF StatusMatchesReports, Complete
<1>2. IInv => StatusMatchesReports
  BY <1>1 DEF StatusMatchesReports
<1>3. QED
  BY <1>2, Invariance, PTL

-----------------------------------------------------------------------------
(* The client implements the contract.                                     *)

phaseBar == [a \in Attempts |-> Phase(a)]

LEMMA ContractInit == Init => Contract!Init
<1> SUFFICES ASSUME Init PROVE Contract!Init
  OBVIOUS
<1>1. ASSUME NEW a \in Attempts PROVE Phase(a) = "unused"
  <2>1. delivered[a] = <<>> /\ ~(a <= accepted)
    BY DEF Init, Attempts
  <2>2. QED
    BY <2>1 DEF Phase
<1>2. QED
  BY <1>1 DEF Contract!Init, Contract!Attempts, Attempts

\* Whoever is reported at a call of the library is in the phase before it.
LEMMA PhaseOfTold ==
    ASSUME IInv, NEW a \in Attempts
    PROVE  /\ a > accepted => Phase(a) = "unused"
           /\ a <= accepted /\ delivered[a] = <<>> => Phase(a) = "pending"
           /\ delivered[a] = <<"Connected">> => Phase(a) = "connected"
           /\ delivered[a] = <<"Failed">> => Phase(a) = "failed"
           /\ delivered[a] = <<"Connected", "Disconnected">> => Phase(a) = "closed"
<1>1. a > accepted => delivered[a] = <<>> /\ ~(a <= accepted)
  BY DEF IInv, ReportsInv, Told, TypeOK, Attempts
<1>2. <<"Connected">> # <<"Failed">> /\ <<"Connected", "Disconnected">> # <<"Failed">>
      /\ <<"Connected", "Disconnected">> # <<"Connected">>
      /\ <<"Failed">> # <<>> /\ <<"Connected">> # <<>> /\ <<"Connected", "Disconnected">> # <<>>
  OBVIOUS
<1>3. QED
  BY <1>1, <1>2 DEF Phase

\* What a connected attempt has been told once it is told of its end.
LEMMA ThenDisconnected ==
    ASSUME NEW told \in Seq(Reports), told = <<"Connected">>
    PROVE  Append(told, "Disconnected") = <<"Connected", "Disconnected">>
<1>1. Len(told) = 1 /\ told[1] = "Connected"
  OBVIOUS
<1>2. Append(told, "Disconnected") \in Seq(Reports)
  BY DEF Reports
<1>3. <<"Connected", "Disconnected">> \in Seq(Reports)
  BY DEF Reports
<1>4. /\ Len(Append(told, "Disconnected")) = 2
      /\ Append(told, "Disconnected")[1] = "Connected"
      /\ Append(told, "Disconnected")[2] = "Disconnected"
  BY <1>1
<1>5. QED
  <2>1. \A i \in 1..2 : Append(told, "Disconnected")[i]
                          = <<"Connected", "Disconnected">>[i]
    BY <1>4
  <2>2. Len(<<"Connected", "Disconnected">>) = 2
    OBVIOUS
  <2>3. QED
    BY <1>2, <1>3, <1>4, <2>1, <2>2, SeqEqual

LEMMA ContractStep ==
    ASSUME IInv, IInv', [Next]_vars
    PROVE  Contract!Next \/ UNCHANGED phaseBar
<1>1. ASSUME UNCHANGED <<delivered, accepted>> PROVE UNCHANGED phaseBar
  BY <1>1 DEF phaseBar, Phase
<1>2. CASE ConnectAccepted
  <2>1. /\ pc = "user" /\ ~non_reentrant /\ host = Null
        /\ accepted' = accepted + 1 /\ accepted \in Nat /\ accepted < MaxAttempts
        /\ UNCHANGED delivered
    BY <1>2 DEF ConnectAccepted, UserMayCall, IInv, TypeOK
  <2>2. PICK n \in Attempts : n = accepted + 1
    BY <2>1 DEF Attempts
  <2>3. \A i \in 1..Len(stack) : ~OwesReport(stack[i])
    BY <2>1, NothingOwed DEF IInv
  <2>4. ASSUME NEW a \in Attempts, a <= accepted PROVE Complete(a)
    <3>1. a # Null /\ ~Owes(a)
      BY <2>3 DEF Owes, OwesTo, OwesReport, Null, Attempts
    <3>2. QED
      BY <2>1, <2>4, <3>1 DEF IInv, ReportsInv, Told
  <2>5. \A a \in Attempts : Phase(a) \notin {"pending", "connected"}
    <3>1. ASSUME NEW a \in Attempts PROVE Phase(a) \notin {"pending", "connected"}
      <4>1. a > accepted \/ a <= accepted
        BY <2>1 DEF Attempts
      <4>2. QED
        BY <2>4, <4>1, PhaseOfTold DEF Complete
    <3>2. QED
      BY <3>1
  <2>6. delivered[n] = <<>> /\ Phase(n) = "unused"
    BY <2>1, <2>2, PhaseOfTold DEF IInv, ReportsInv, Told, Attempts
  <2>7. Phase(n)' = "pending"
    BY <2>1, <2>2, <2>6 DEF Phase, Attempts
  <2>8. ASSUME NEW a \in Attempts, a # n PROVE Phase(a)' = Phase(a)
    <3>1. (a <= accepted') <=> (a <= accepted)
      BY <2>1, <2>2, <2>8 DEF Attempts
    <3>2. QED
      BY <2>1, <3>1 DEF Phase
  <2>9. phaseBar' = [phaseBar EXCEPT ![n] = "pending"]
    BY <2>2, <2>7, <2>8 DEF phaseBar
  <2>10. Contract!Accept(n)
    BY <2>2, <2>5, <2>6, <2>9
       DEF Contract!Accept, Contract!Live, Contract!Attempts, phaseBar, Attempts
  <2>11. QED
    BY <2>2, <2>10 DEF Contract!Next, Contract!Attempts, Attempts
<1>3. CASE InvokeCallback
  <2>1. /\ Len(stack) \in 1..Len(stack) /\ Top = stack[Len(stack)]
        /\ Head(Top.todo) \in Calls /\ Head(Top.todo) = Top.todo[1]
        /\ UNCHANGED accepted /\ 1 \in 1..Len(Top.todo)
    <3>1. TypeOK
      BY DEF IInv
    <3>2. Len(stack) \in Nat \ {0} /\ Top \in Frames /\ Top.todo # <<>>
      BY <1>3, <3>1, InvokePops DEF InvokeCallback
    <3>3. 1 \in 1..Len(Top.todo)
      BY <3>2, EmptySeq DEF Frames
    <3>4. QED
      BY <1>3, <3>1, <3>2, <3>3, InvokePops DEF InvokeCallback, Top, historyVars
  <2>2. PICK c \in Calls : c = Head(Top.todo)
    BY <2>1
  <2>3. CASE c.event \notin Reports
    <3>1. UNCHANGED delivered
      BY <1>3, <2>2, <2>3 DEF InvokeCallback
    <3>2. QED
      BY <1>1, <2>1, <3>1
  <2>4. CASE c.event \in Reports
    <3>1. c.attempt # Null /\ OwedFits(c)
      BY <2>1, <2>2, <2>4 DEF IInv, OwedInv, ReportIsLast, ReportsInv, FrameFits
    <3>2. PICK a \in Attempts : a = c.attempt
      BY <3>1 DEF Calls
    <3>3. /\ delivered' = [delivered EXCEPT ![a] = Append(@, c.event)]
          /\ delivered \in [Attempts \cup {Null} -> Seq(Reports)]
      BY <1>3, <2>2, <2>4, <3>2 DEF InvokeCallback, IInv, TypeOK
    <3>4. /\ delivered'[a] = Append(delivered[a], c.event)
          /\ \A b \in Attempts : b # a => delivered'[b] = delivered[b]
      BY <3>3
    <3>5. \A b \in Attempts : b # a => Phase(b)' = Phase(b)
      BY <2>1, <3>4 DEF Phase
    <3>6. ASSUME NEW p, Phase(a)' = p PROVE phaseBar' = [phaseBar EXCEPT ![a] = p]
      BY <3>5, <3>6 DEF phaseBar
    <3>7. a <= accepted
      BY <3>1, <3>2 DEF OwedFits
    <3>8. CASE c.event = "Connected"
      <4>1. delivered[a] = <<>> /\ delivered'[a] = <<"Connected">>
        <5>1. delivered[a] = <<>>
          BY <3>1, <3>2, <3>8 DEF OwedFits
        <5>2. delivered'[a] = Append(<<>>, "Connected")
          BY <3>4, <3>8, <5>1
        <5>3. QED
          BY <5>1, <5>2
      <4>2. Phase(a) = "pending" /\ Phase(a)' = "connected"
        <5>1. Phase(a) = "pending"
          BY <3>7, <4>1, PhaseOfTold
        <5>2. Phase(a)' = "connected"
          BY <4>1 DEF Phase
        <5>3. QED
          BY <5>1, <5>2
      <4>3. Contract!Establish(a)
        BY <3>6, <4>2 DEF Contract!Establish, phaseBar
      <4>4. QED
        BY <4>3 DEF Contract!Next, Contract!Attempts, Attempts
    <3>9. CASE c.event = "Failed"
      <4>1. delivered[a] = <<>> /\ delivered'[a] = <<"Failed">>
        <5>1. delivered[a] = <<>>
          BY <3>1, <3>2, <3>9 DEF OwedFits
        <5>2. delivered'[a] = Append(<<>>, "Failed")
          BY <3>4, <3>9, <5>1
        <5>3. QED
          BY <5>1, <5>2
      <4>2. Phase(a) = "pending" /\ Phase(a)' = "failed"
        <5>1. Phase(a) = "pending"
          BY <3>7, <4>1, PhaseOfTold
        <5>2. Phase(a)' = "failed"
          BY <4>1 DEF Phase
        <5>3. QED
          BY <5>1, <5>2
      <4>3. Contract!Fail(a)
        BY <3>6, <4>2 DEF Contract!Fail, phaseBar
      <4>4. QED
        BY <4>3 DEF Contract!Next, Contract!Attempts, Attempts
    <3>10. CASE c.event = "Disconnected"
      <4>1. delivered[a] = <<"Connected">> /\ delivered'[a] = <<"Connected", "Disconnected">>
        <5>1. delivered[a] = <<"Connected">>
          BY <3>1, <3>2, <3>10 DEF OwedFits
        <5>2. delivered'[a] = Append(delivered[a], "Disconnected")
          BY <3>4, <3>10
        <5>3. delivered'[a] = <<"Connected", "Disconnected">>
          BY <3>3, <5>1, <5>2, ThenDisconnected
        <5>4. QED
          BY <5>1, <5>3
      <4>2. Phase(a) = "connected" /\ Phase(a)' = "closed"
        <5>1. Phase(a) = "connected"
          BY <3>7, <4>1, PhaseOfTold
        <5>2. Phase(a)' = "closed"
          BY <4>1 DEF Phase
        <5>3. QED
          BY <5>1, <5>2
      <4>3. Contract!Finish(a)
        BY <3>6, <4>2 DEF Contract!Finish, phaseBar
      <4>4. QED
        BY <4>3 DEF Contract!Next, Contract!Attempts, Attempts
    <3>11. QED
      BY <2>4, <3>8, <3>9, <3>10 DEF Reports
  <2>5. QED
    BY <2>3, <2>4
<1>4. CASE ~ConnectAccepted /\ ~InvokeCallback
  <2>1. UNCHANGED <<delivered, accepted>>
    BY <1>4 DEF Next, UserStep, LibraryStep, vars, historyVars, CallbackReturns, Resume,
       LeaveScope, ConnectNonReentrant, ConnectRefused, Disconnect, Tick, TickHook,
       SkipConnect, ResolveLater, ResolveNow, WaitForResolver, OpenSocket, ConnectSocket,
       ConnectTimesOut, StillConnecting, ConnectFails, Connected, Receive, ResolveAnswer,
       Elapse
  <2>2. QED
    BY <1>1, <2>1
<1>5. QED
  BY <1>2, <1>3, <1>4

\* Every behaviour of the client is one its contract with the user allows.
THEOREM ContractKept == Spec => ImplementsContract
<1>1. IInv /\ IInv' /\ [Next]_vars => [Contract!Next]_phaseBar
  BY ContractStep
<1>2. Init => Contract!Init
  BY ContractInit
<1>3. Spec => Contract!Init /\ [][Contract!Next]_phaseBar
  BY <1>1, <1>2, Invariance, PTL DEF Spec
<1>4. QED
  BY <1>3, PTL DEF ImplementsContract, Contract!Spec, phaseBar

=============================================================================
