# tfmodbustcp: models, checks and proofs

`src/` is *tfnetwork*, a C++ library for Modbus/TCP (and RCT Power) on a
microcontroller.  It has no threads.  A main loop calls `tick()` of every
object; an object does what it can without waiting and reports to its user by
callbacks.  What makes it hard is not parallelism but *re-entry*: a callback
runs in the middle of `tick()`, `disconnect()` or `stop()`, and may call the
library again; and everything comes from outside in pieces, late, or not at
all: answers of the resolver, connections, bytes, timeouts.

This directory holds TLA+ models of that code, TLC configurations that check
them, and proofs checked by TLAPS.

## 1. Inventory

| Component | State | Operations | Talks to |
|---|---|---|---|
| `TFGenericTCPClient` | host, three callbacks, resolve state, two descriptors, connect deadline, `non_reentrant` | `connect`, `disconnect`, `tick`, `get_connection_status`, transfer hooks, (protected) `send`, `recv`, `close`, `abort_connect`, `disconnect(reason)` | the resolver (a lambda that it may call at once or much later), the kernel, the user's callbacks, its subclass by `tick_hook`, `recv_hook`, `close_hook` |
| `TFModbusTCPClient` (subclass) | queue of scheduled transactions, the pending transaction with id and deadline, the response received in part | `transact`, the three hooks | the user's transaction callbacks |
| `TFRCTPowerClient` (subclass) | the same with a decoder of escaped bytes | `read`, the three hooks | as above |
| `TFGenericTCPClientPool` (and two factories) | slots with one client each, shares of a slot | `acquire`, `release`, `tick` | clients, by the callbacks it gives them; the user's callbacks |
| `TFModbusTCPServer` | listening socket, list of clients with one partial request each, idle clock | `start`, `stop`, `tick` | peers, three callbacks |
| `TFNetwork` | function pointers for resolver, logging, random numbers; `NonReentrantScope` | | all |
| `TFModbusTCPCommon` | lengths, layout, names | | |
| `test/` | programs to run by hand against a peer | | |

The hard behaviours:

* *Calls from callbacks.*  `non_reentrant` refuses most of them, but
  `transact()` is not guarded, and when a resolver that answers late reports a
  failure, the connect callback runs with no guarded function on the stack.
* *Stale answers.*  A resolver may answer for an attempt that was aborted, a
  peer for a transaction that timed out or for a request with a reused id.
* *Streams in pieces.*  Responses and requests are put together over many
  calls of `recv()`, with timeouts, reconnects and other clients in between,
  and the client guesses about trailing bytes.  The RCT client has to tell
  escaped bytes from the bytes that escape.
* *Ownership.*  Descriptors, `std::function` objects and list nodes change
  hands between members and locals around every callback.
* *Limits.*  The queue, the server's places, the pool's slots and shares, the
  response buffer, transaction ids that wrap and are masked.
* *Conversions.*  Registers in two byte orders on either side, coils packed into
  bytes, echoes that are compared with a buffer the user still owns.

What makes each component correct:

* Generic client: one report per accepted `connect()`, one more if it
  connected; no descriptor leaked; connects to the host of this attempt only;
  every attempt is reported in the end.
* Modbus client: each transaction ends once, in order, with the response to
  its own request; nothing crosses a reconnect; no transaction stays for ever.
* Server: each connection is announced once and taken back once; the list
  survives being rebuilt; the longest silent client makes place; requests are
  not mixed; silent clients do not keep their place.
* RCT client: as the Modbus client, where "own response" can only mean a response
  for the same value; the decoder never loses its place.
* Pool: a share gets the same promises as the owner of a client, and all shares
  of a host see one connection; one live slot per host and port; slots are
  deleted when nobody can reach them.
* Values: what the user of the server reads and writes is what the user of the
  client wrote and reads.

The hazards behind these are listed, each with its line, in `PROJECT.json`.

## 2. Modules

```
ConnectionContract   <=refines=  GenericTCPClient   <- GenericTCPClientProofs
       |
       | (kept by the client of a slot)
PoolContract         <=refines=  ClientPool         <- ClientPoolProofs
                                                        <- ClientPoolLateProofs
                                                           <- ClientPoolContractProofs
TransactionContract  <=refines=  ModbusTCPClient    <- ModbusTCPClientProofs
TransactionContract  <=refines=  RCTPowerClient     <- RCTPowerClientProofs
ServerContract       <=refines=  ModbusTCPServer    <- ModbusTCPServerProofs
                                 ModbusExchange     <- ModbusExchangeProofs
                                 (client and server, values)
```

Each `MC...` module instantiates its model for TLC.  A definition whose comment
begins with "Bug:" is a plausible mistake in the code, used by no specification:
each property was seen to fail when such a definition stands in for the real one.

All models of a component have one *program counter* `pc`.  It is `"user"` while user
code runs: the main loop or a callback.  A callback is split at the call: the
action before it does everything the code has done by then (moving members to
locals included), and the library goes on from the place noted when
`CallbackReturns`.  So every call that the user may make in a callback is an
ordinary action, enabled there, with the guards of the code.  Calls that are
refused and change nothing are stuttering steps.

### GenericTCPClient

An accepted `connect()` is an *attempt*, numbered in order.  The number stands
for its host, port and both callbacks, so a mix-up of attempts is a wrong number.
The call stack is explicit (`stack`), because calls nest here: the connect
callback of a late resolver failure may call `connect()` or `disconnect()`, whose
callbacks may call again.  A frame holds the calls a function still has to make
and where it goes on.  `non_reentrant` is set and *cleared unconditionally* at
the end of a scope, as `NonReentrantScope` does it, and not derived from the stack.

Actions follow `tick()`: `Tick`, `TickHook`, `ResolveLater`/`ResolveNow` (the
resolver answers later, or before it returns), `WaitForResolver`, `OpenSocket`,
`ConnectSocket`, `ConnectTimesOut`, `StillConnecting`, `ConnectFails`,
`Connected`, `Receive`.  Every error return is one of the disjuncts that abort.
`ResolveAnswer` is the lambda given to the resolver; any outstanding resolve may
be answered at any later turn of the main loop, once, or never.

The hooks of the subclass are modelled by what they can do to this class: call
callbacks of transactions, and call `disconnect(reason, ...)`.

### ModbusTCPClient

A transaction is a number; a byte on the wire is a pair of the frame that it
belongs to and its place in it.  Whether the client puts responses together
correctly is then the question whether the bytes it collected are consecutive
bytes of one frame.  The peer (`Answer`) may answer any request of the
connection, late, twice, with a wrong header, with a payload the checks refuse,
or with more bytes than its header says; `recv()` cuts the stream anywhere.
Bytes that were taken for a header but are none may look like anything (`Noise`).

Each `transact()` brings a mask of its own for the transaction id.  A mask is the
function from the counter to the id that it makes (`Masks`), and `TakeId` is
`next_transaction_id++ & mask`, with a count of how often the counter has wrapped.
Ids are thus told apart, or not, by what the two transactions concerned were given:
`OwnAnswer` says what then remains, namely that a late answer to an earlier request
of the *same id* may be taken; with masks that keep all bits that one is a round older.

`Loop`, `RecvHook`, `RecvSome`, `RecvNothing`, `RecvFails`, `CheckHeader`,
`AppendTrailing`, `NoTrailing`, `TrailingFails`, `ResponseTooShort`,
`IgnoreResponse` and `FinishResponse` are the stretches of `recv_hook()` between
its returns, in its order (`TrailingFails` with all three ends that `recv()` of
trailing data can come to: failed, closed by the peer, nothing there after all).  `Close`, `AbortPending`, `TakeScheduled`,
`AbortNext` and `Closed` are `disconnect()` with `close_hook()` and
`finish_all_transactions()`, interrupted by the callback of each transaction.

`Answer` and `Elapse` are enabled only where the code looks: at the call of
`recv_hook()` and where a deadline is compared.  This loses nothing.  Something
that arrives, or a time that passes, earlier and is seen there is the same
behaviour with the event moved to the moment it is seen; and `recv()` need not
return all that has arrived.

### ModbusTCPServer

The list at `client_sentinel` and the two lists `tick()` makes of it are
sequences; descriptors are the set `sockets`.  `last_alive` and
`last_idle_check` are kept as ages, bounded by the largest delay they are
compared with.  `Tick` is `select()` with the early return, `AcceptFails` and
`Accept` follow, then `Displace`/`DisplaceNone`, `TurnAway`/`Admit`,
`StartLoop`, and for each client `LoopIdle`, `LoopUnreadable` or `LoopReadable`
with one step of receiving, checking, executing and responding.  While the loop
runs, `clients` keeps its old value, as the code's sentinel keeps pointing at
nodes that may be gone; that nobody looks is a consequence of the guard, and
checked (`ListIntact`).

A request is a number of bytes.  A peer sends whole requests and leaves when it
likes; `recv()` cuts them anywhere.  A malformed header or payload is a choice
where the code checks it.  `Forget` drops what belonged to a connection when its
client is deleted, and with it what the peer sent: nobody can observe it any more.

### ClientPool

An accepted `acquire()` is a number: it stands for its callbacks, its share and
the shared client the user gets, and the first one of a slot for the slot object
and the client in it, so that a slot that was deleted and made again differs from
what a loop still points to.  The client of a slot does what
`ConnectionContract` allows: `link` is how far it is, and `ClientWaits`,
`ClientConnects`, `ClientFails`, `ClientDisconnects` and `ClientReceives` are what
its `tick()` may come to.  What `GenericTCPClient` proves of one client is thus
used here, not modelled again; the late answers of its resolver are an action of
this module too (`Answer`), for they run when neither of the two guards is set.

`stack` holds what the library has still to do.  A loop over the shares of a slot
is an item with the next place (`accept` and `refuse` for the connect callback of
the client, `close` for its disconnect callback, `force` for a forced release);
`drop` is the private `release()` in the connect callback's loop, and `retire`
its second half, after the callback of the share has returned.  The connect
callback is `TellConnected` or `TellFailed`, a share at a time.

Where the code reads a deleted object, compares a null host or calls an empty
`std::function`, `pc` becomes `"undefined"` and the model stops there.  With a
resolver that answers late it can get there, and `UndefinedOnlyIfLate` says by which
steps only: an answer for a client that was deleted, or what the user calls within
the callbacks of a late failure.  What such callbacks *leave* is harmless: later
calls find no slot, loop or callback that is not what they take it for.

### RCTPowerClient

Transactions as in `ModbusTCPClient`.  A byte of the stream knows the frame and
the place in it that it is from, so the decoder (`Starts`, `IsData`, `Collected`,
`IsIgnored`) is in step if what it has collected is the beginning of one frame and
the next byte goes on there.  The peer answers with right and wrong checksums and
sends frames that are no responses to a read; it escapes as `tick_hook()` does, and
a byte on the wire that only escapes the next one is marked so (`Escape`), which the
decoder does not see.  The decoder cannot tell all frames apart; which ones is said by
`IsDecodable`, and the peer sends the others too.
An id and a value are a byte each, or as many as the instance says, and the
checksum is a function of both; `recv_hook()` checks it in `FinishResponse`.

### ModbusExchange

The client's `transact()`, `tick_hook()` and `recv_hook()` and the server's
`tick()`, seen from the values: what is in the buffer, in the request, in the
response and in the memory that the request callback is given.  A register is the
sequence of its two bytes as they lie in memory, which on both hosts is
little-endian; coils are sets of bits in whole bytes.  The memory that a response
is built in holds anything, because the server reuses it, and the user may write
to the buffer of a transaction at any time (`UserWrites`).

### The contracts

`ConnectionContract`: an accepted attempt either fails (one report) or is
established and later finished (two), and no two attempts are live together.
`TransactionContract`: accepted transactions form a queue of bounded length; the
first is completed, once, with a result.  `ServerContract`: connections are
announced once and taken back once, with `ServerStopped` exactly when the server
was stopped; requests are handed over only in between, and only while no more
than the allowed number of clients is there.  `PoolContract`: a share has the
reports of a client of its own, and the next connection to a host opens only
after all who had the last one know of its end.

## 3. Runs

| Run | Question | Instance |
|---|---|---|
| `generic_client_safety` | Are descriptors, callbacks and reports kept straight whatever the user calls in callbacks? Is every attempt reported? | 3 attempts, 2 descriptors, nesting 3 deep |
| `modbus_client_safety` | Do transactions end once, in order and with their own response? | 3 transactions, 1 place to wait, 2 frames, 2 ids, 2 masks |
| `modbus_client_liveness` | Does each transaction end? | 2 transactions, 2 frames |
| `modbus_client_trailing` | Is what follows a response always garbage? (No: finding below.) | 2 transactions, a peer that never counts wrongly |
| `server_safety` | Do list, callbacks, descriptors and announcements agree; is the right client displaced? | 3 connections, 2 places, 1 request each |
| `server_requests` | Is a request ever mixed with the next? Is each waiting connection accepted, each connection taken back? | 2 connections, 1 place, 2 requests of different length |
| `pool_safety` | Are clients closed when they are deleted? Do all shares of a host see one connection? Is everyone told, and does an unused pool become empty? | 3 users, 2 hosts, 2 slots of 2 shares, a resolver that answers at once |
| `pool_late` | What still holds if the resolver answers late, and by which steps only does something undefined happen? | the same, with late answers |
| `pool_reason` | Is a share that failed dropped without a call? (No: finding below.) | 2 users, 1 host, 1 slot |
| `rct_client` | Does the decoder keep its place, and each read end once, with a value for its id? Do frames that it misreads harm only themselves? | 2 reads, 2 frames, bytes that have to be escaped |
| `exchange` | Do values arrive, whatever the byte orders? | up to 4 coils of 2 a byte, 2 registers of 2 bits a byte |
| `exchange_coils` | Do coils that fill their last byte arrive? (No: finding below.) | the same |

Why these bounds: a mix-up of attempts needs an old one that is still being
answered, the present one and one that begins in a callback of it: three.  A
mix-up of responses needs a late one and the one it is taken for: two frames;
ids have to wrap: two ids for three transactions; a mask that drops the bit in which
two ids differ, together with one that does not, makes ids equal before they wrap.  One
place to wait lets the second call of `transact()` be refused while a transaction is
pending.  A wrong choice of whom to
displace needs two places and one more connection.  Delays of 1 and 2 tell "just
reached" from "not yet" and from the longer delay; a connect timeout of 2 leaves
room for a look at the socket before it is over.  Headers of one or two bytes
can be cut before, within and after.  In the pool, two shares of one host and one
of another, or a share that comes after the two are gone, need three users; two
slots make revived, deleted and live ones meet.  In the RCT client the ids, values
and checksums contain `+` and `-` in every position that matters.  Bytes of two
coils and registers of two small bytes show a swap, a lost byte and a full last
byte as well as eight bits do.  What the runs check of safety is proved for all sizes
(section 5); for liveness these instances are all there is.

`CHECK_DEADLOCK` is never switched off.

### Fairness

Runs without a liveness property assume none.  The others assume, of the program, that the
library's own steps and the user's callbacks come to an end (weak fairness: it
is one thread) and that the main loop calls `tick()` again and again (what
`test/test_client.cpp` and the firmware do); and that time passes.  Beyond that:

* generic client: the resolver answers.  Without it an attempt waits for ever,
  for the connect deadline starts after the resolver has answered
  (`TFGenericTCPClient.cpp:414`).  Strong fairness where the user may disturb
  by calls that change nothing.
* Modbus and RCT client: nothing is asked of the peer.  Strong fairness of time
  for the RCT client: its deadline is looked at once per `tick()`.
* pool: the resolver answers, and each client's attempt to connect ends (what
  `AttemptsAreReported` says of the client).
* server: `accept()` does not fail for ever, a readable socket does not say
  EAGAIN for ever, and `select()` sometimes reports all there is.  The first is
  needed: `tick()` returns when `accept()` fails (`TFModbusTCPServer.cpp:322`),
  before any client is served or found idle, so as long as it fails nobody is.

## 4. Findings

`modbus_client_trailing`: after a response the client asks how many bytes are
there (`FIONREAD`) and, if fewer than a header, appends them to the response.
The comment says that such bytes are garbage or miscounted.  They can be the
beginning of the next response: one transaction times out, the next is sent,
both are answered, and a segment boundary falls within the second header.  The
client then swallows these bytes and reads the rest as a header.  The peer in
this run does nothing wrong.  This is why `Aligned` and `OwnAnswer` speak of
"derailed".

`exchange_coils`: the server and the client mask the last byte of coils that were
read with `(1u << (count % 8)) - 1`.  If the count is a multiple of eight the mask
is zero, and the last eight coils read as off, whatever the request callback set.
Where coils are written, the same mask is guarded by `count % 8 != 0`.

`pool_reason`: the connect callback of the pool, for a failed connection, calls
the callback of each share and then gives up "the share at this place", with a
reason and error number that a comment calls unused because no disconnect callback
can be called.  If the resolver has answered late, no guard is set: the callback
may release its share, acquire the host again, get the same slot and place, and
run `tick()` until it is connected.  The loop then gives up the new share, with
that reason and the error number -2.

Met on the way, and not listed as findings because nothing in the repository says
otherwise:

* With a resolver that answers late, `DeletedIsClosed`, `SharesFollowClient` and
  `ReasonIsUnused` fail for the pool, and what is undefined can happen: the lambda
  given to the resolver runs in a client that the pool deleted, and `acquire()` in the
  callback of a late failure compares the null host of a closed client.  `TypeOK`,
  `SharesAreCounted`, `OneSlotPerHost` and `PrimaryFirstAndLast` hold all the same, and
  `UndefinedOnlyIfLate` says that these are the only ways (`pool_late`).
* The RCT decoder remembers the last byte, and not whether it was used up as an
  escape.  An escaped `-` followed by an escaped byte, or at the end of a frame,
  makes it lose its place; in the latter case the whole next response is missed.  A
  misread response can also end its read: for id 45 and value 43 the decoder collects
  `5 8 45 45 43`, and the read ends with the mismatch of a checksum that was never sent.
  `InStep` therefore has the premise `AllDecodable`, that all frames so far can be told
  apart; without it TLC finds this.  `OwnValue` is about every read, but what it says of
  the id and the value is said only if the frame of *this* read can be told apart; what
  was misread before it does not matter.
* Transaction ids apart, a write whose echo is compared with a buffer that the user
  has changed meanwhile is reported as a mismatch though it was carried out;
  `ValuesArrive` says that this is the only way to such a report.
* `transact()` reads the first or last byte of the buffer of a coil write before it
  checks the buffer for null.

## 5. Proofs

Every safety property of a passing run, invariant, action property or contract, is
proved for all values of the constants, under the named `ASSUME`s of the models, which
TLC evaluates on each run.  They are the types of the constants and what follows:

* generic client: more resolve ids than attempts, i.e. `resolve_id` does not wrap;
* RCT client: an id is a byte and values are all of one length; frames that are no
  responses have a command and a length, one of which says so;
* Modbus client: masks are any functions on the values of the counter, so what is
  proved holds for every choice of masks, `&` with a constant included;
* pool: nothing more, but what is false with late answers (section 4) has the
  hypothesis `~LateAnswers`, which is that of the run `pool_safety`.

* `GenericTCPClientProofs`.  `IInv == TypeOK /\ ShapeInv /\ AddressInv /\
  ScopeInv /\ OwedInv /\ ReportsInv`.  The properties alone are not inductive
  because half of the state is on the call stack.  `ShapeInv` says which members
  are in use together in each phase; `AddressInv` which attempt an address or an
  outstanding resolve belongs to; `ScopeInv` that the frames that hold the guard
  are at most one, and where; `OwedInv` that at most one report is owed by the
  whole stack, and `ReportsInv` that what was told to each attempt and what is
  owed to it add up.  Three lemmas say what pushing, popping and calling do to
  the stack; one proof step per action follows.
* `ModbusTCPClientProofs`.  `IInv == TypeOK /\ ControlInv /\ OrderInv /\
  ResponseInv /\ IdInv /\ AlignInv`.  `OrderInv`: pending, aborted and scheduled
  transactions are consecutive numbers, open exactly if there.  `IdInv`: the
  counter is taken in order, so two requests of one round whose masks keep all bits
  differ, and every byte on the wire belongs to a request that was sent.  `AlignInv`: what was received
  followed by what is in the stream is a sequence of whole frames; this is what
  `Aligned` needs to survive a step of `recv()`.
* `ModbusTCPServerProofs`.  `IInv == TypeOK /\ ControlInv /\ ListInv /\ PlaceInv /\
  BacklogInv /\ BlankInv /\ StreamInv`.  `ListInv` is about `Reached`, the lists that
  `tick()` can reach put together: the announced clients, each once, and *sorted* by
  `last_alive`.  That the end of the list is the one who was silent for longest needs
  this for every client, not only for the last, and through all rebuilding of the list.
  `PlaceInv` carries the reason why nobody was displaced to where the new connection is
  turned away.  `StreamInv` says of each client that what was read of it is some number
  of whole requests and what `pending_request` holds; where a request ends is a
  recursive function over the requests, of which the proof needs that it exists and
  grows.  The library's induction theorems take an operator and cannot be used, so
  `SetInduction`, about sets of numbers, is proved from the well-foundedness of `<`.
* `ClientPoolProofs`, with and without late answers.  `IInv == TypeOK /\ StackInv /\
  SharesAreCounted /\ LinkInv /\ PlacesInv /\ ToldInv /\ HostInv /\ RefusedInv /\
  ConnectedInv`.  `StackInv` says what a loop can lie on (`LiesOn`), so how deep calls
  can nest: a late answer, then one guarded call.  `HostInv` says that the client of a
  live slot is for the host of its shares and no other slot is for that host, which is
  why `acquire()` finds the slot there is; the one exception is a slot that was just
  revived while its client has another host, and `RefusedInv` follows the refused share
  until it is gone.  `ConnectedInv` says that who was told of a connection still has
  one, or will be called.  `OneSlotPerHost` speaks of the shares: with late answers a
  slot without shares may be left with the client of a host that another slot has too.
* `ClientPoolLateProofs`, with and without late answers.  `LateInv == IInv /\ SoundInv /\
  ProvidedInv`.  The user is unguarded in the callbacks of a late failure, so nothing can
  be said of the loop that they interrupt while it is the lowest item of the stack;
  `SoundInv` therefore speaks of stacks that begin with a guarded call (`Guarded`), and
  says that what their loops point to is the same client, with the callbacks they are
  about to call.  It has to become true again each time such a call begins, whatever
  the unguarded ones have left.  That it does is due to `ProvidedInv`, which holds guarded
  or not: each share has the callback its client's state calls for, or an item of the
  stack has still to do with it, and has to if the client is closed; so when the stack
  is empty again all is in order.
* `ClientPoolContractProofs`, without late answers.  `JInv == IInv /\ PromptInv /\
  DeletedIsClosed /\ AttendedInv`.  `PromptInv` says that nothing undefined has
  happened, and that what a loop on the stack points to has not changed behind its back: the client is the same object, and each share
  ahead still has the callback that the loop will call.  `AttendedInv` says that each
  share has the callback its client's state calls for, or a loop on the stack will come
  to it.  The contract follows: `OpenHosts` and the phases of the shares change together.
* `RCTPowerClientProofs`.  `IInv == TypeOK /\ ControlInv /\ OrderInv /\ ResponseInv /\
  PeerInv /\ PlaceInv`.  `OrderInv` is as for the Modbus client.  `PlaceInv` says that the
  bytes still to come are, after the one received last, the rest of a frame and whole
  frames (`InFrames`): each byte, seen with the one before it, either escapes, or is the
  byte of the data that its place says, and the next one is in the next place.  This is
  shown of what the peer sends by unfolding `Escaped` from the end (`EscapedInFrames`),
  is kept when streams are joined (`JoinInFrames`), and is what one turn of the loop in
  `recv_hook()` needs to go on in step.  `PeerInv` says what a frame can be; with it, a
  stored response that is full is a whole frame (`JudgedIs`), so `OwnValue` is about
  what the peer sent and not about what the decoder made of it.
* `ModbusExchangeProofs`.  `IInv == BufferInv /\ RequestInv /\ ResponseInv /\
  ValuesArrive`.  The user may change the buffer while the transaction is on its
  way, so `ValuesArrive` has to be carried from the request to the response by what
  they were made of: `RequestInv` keeps what was in the buffer at that time,
  `ResponseInv` what the callback gave or was given.  The lemmas are that swapping
  twice gives the number back (`ReorderAgrees`) and, by the uniqueness of division,
  that the mask of a last byte that is not full keeps exactly the coils asked for
  (`MaskKeepsCoils`); where the last byte is full it does not, which is the finding
  of the run `exchange_coils`.
* The five refinements of the four contracts (`TransactionContract` has two) are
  proved from the same invariants: the initial states map to initial states, each
  action to a step of the contract or to none.

Only model-checked: liveness under fairness (`AttemptsAreReported`, `TransactionsEnd`,
`EachIsTakenBack`, `EachIsAccepted`, `SharesAreReported`, `PoolBecomesEmpty`,
`ReadsEnd`), which is out of the prover's reach; and the three findings, each of which is
a counterexample.

## 6. Not modelled

* Transfer hooks: a debugging aid that no class of the library uses.
* Sending in part: `send()` gives up after ten tries and reports success, in
  client and server.  Each model has a peer that may answer wrongly, late or never,
  so its own side is covered; no module joins the byte streams of both ends.
* What a late answer of the resolver does after something undefined happened.
* `resolve_id` wrapping around: it takes 2^32 attempts with one answer outstanding.
* The four bytes each of an RCT id: in the instance an id is one byte, which the decoder
  handles no differently.
* The RCT client's detection of a bootloader, which nothing reads.
* The two pool factories; names, error messages and logging; addresses; the layout
  of frames beyond what `ModbusExchange` needs.
* Hosts that are big-endian, or clients and servers of other makes: the peer of
  `ModbusExchange` is this library.

User code is assumed not to destroy an object in a callback of it, and to write
only values to a buffer that `transact()` would accept.  The liveness runs have a peer
that sends a bounded number of frames, and a server whose `accept()` does not fail for
ever (section 3).

## 7. Plan

1. *Done:* models of the generic client, Modbus client, server, pool, RCT client and
   values; the contracts they implement.
2. *Done:* proofs of all safety properties, the refinements included.
3. What the contracts promise together, as theorems about the contracts alone: that a
   share of `PoolContract` sees what the owner of one client sees by
   `ConnectionContract`; that what `TransactionContract` and `ServerContract` allow
   cannot complete, or hand over, anything twice.
