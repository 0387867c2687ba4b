---------------------------- MODULE ModbusExchange ----------------------------
(***************************************************************************)
(* What the values of a transaction go through, from the buffer of the     *)
(* user of TFModbusTCPClient to the request callback of TFModbusTCPServer  *)
(* and back: byte orders, coils packed into bytes, echoes.  A request and  *)
(* its response arrive here, whole; ModbusTCPClient and ModbusTCPServer    *)
(* model how.  Unit id and start address are carried along, as data_count  *)
(* is, and left out.  Discrete inputs are read as coils are, and input     *)
(* registers as holding registers.                                         *)
(*                                                                         *)
(* A register in memory, or on the wire, is the sequence of its two bytes; *)
(* the host is little-endian.  A block of coils is the set of the places   *)
(* of its bits that are set, in whole bytes.  The buffer stays with the    *)
(* user, who may write to it at any time.                                  *)
(***************************************************************************)
EXTENDS Naturals, Sequences

CONSTANTS
    Base,          \* 2^8
    ByteBits,      \* 8: coils per byte
    MaxCoils,      \* TF_MODBUS_TCP_MAX_READ_COIL_COUNT, and for writing
    MaxRegisters   \* TF_MODBUS_TCP_MAX_READ_REGISTER_COUNT, and for writing

ASSUME BitsAssumption ==
    Base \in Nat /\ Base > 1 /\ ByteBits \in Nat /\ ByteBits > 0
ASSUME CountsAssumption == MaxCoils \in Nat \ {0} /\ MaxRegisters \in Nat \ {0}

Orders == {"Host", "Network"}   \* TFModbusTCPByteOrder
Words == (0..(Base - 1)) \X (0..(Base - 1))
On == <<255, 0>>                \* 0xFF00
Off == <<0, 0>>

ByteCount(count) == (count + ByteBits - 1) \div ByteBits
Bits(count) == 0..(ByteBits * ByteCount(count) - 1)

VARIABLES
    client_order, server_order,   \* register_byte_order of both
    phase,          \* "idle", "scheduled", "requested", "responded" or "done"
    function, count, buffer,      \* of the transaction
    request,        \* the data of the request on the wire
    response,       \* the response: an exception, or its data
    result,         \* what the transaction ended with
    meant,          \* what was in the buffer when the request was built
    handled         \* what the request callback was given, or gave

orders == <<client_order, server_order>>
transaction == <<function, count>>
vars == <<orders, phase, transaction, buffer, request, response, result, meant, handled>>

Nothing == {}
NoResponse == [exception |-> FALSE, data |-> Nothing]

Init ==
    /\ client_order \in Orders /\ server_order \in Orders
    /\ phase = "idle"
    /\ function = "none"
    /\ count = 0
    /\ buffer = Nothing
    /\ request = Nothing
    /\ response = NoResponse
    /\ result = "none"
    /\ meant = Nothing
    /\ handled = Nothing

-----------------------------------------------------------------------------
(* What is in the buffer: the functions, and how many values they take.    *)

CoilFunctions == {"ReadCoils", "WriteSingleCoil", "WriteMultipleCoils"}
Reading == {"ReadCoils", "ReadRegisters"}

Counts(f) ==
    CASE f \in {"WriteSingleCoil", "WriteSingleRegister"} -> {1}
      [] f = "MaskWriteRegister" -> {2}
      [] f \in {"ReadCoils", "WriteMultipleCoils"} -> 1..MaxCoils
      [] f \in {"ReadRegisters", "WriteMultipleRegisters"} -> 1..MaxRegisters

Functions == CoilFunctions \cup {"ReadRegisters", "WriteSingleRegister",
                                 "WriteMultipleRegisters", "MaskWriteRegister"}

Contents(f, n) == IF f \in CoilFunctions THEN SUBSET Bits(n) ELSE [1..n -> Words]

\* The checks of transact(): no bit is set that is no coil to be written.
Accepts(f, n, content) ==
    f \in {"WriteSingleCoil", "WriteMultipleCoils"} => \A i \in content : i < n

Transact(f, n, content) ==
    /\ phase \in {"idle", "done"}
    /\ Accepts(f, n, content)
    /\ function' = f
    /\ count' = n
    /\ buffer' = content
    /\ meant' = Nothing
    /\ handled' = Nothing
    /\ result' = "none"
    /\ phase' = "scheduled"
    /\ request' = Nothing
    /\ response' = NoResponse
    /\ UNCHANGED orders

\* The user changes the buffer of a transaction that is on its way, to values that
\* transact() would accept.
UserWrites ==
    /\ phase \in {"scheduled", "requested", "responded"}
    /\ buffer' \in Contents(function, count)
    /\ Accepts(function, count, buffer')
    /\ UNCHANGED <<orders, phase, transaction, request, response, result, meant, handled>>

-----------------------------------------------------------------------------
(* Bytes.                                                                  *)

Swap(word) == <<word[2], word[1]>>

\* Bug: registers in network order are swapped too.
SwapAll(order, words) == [i \in DOMAIN words |-> Swap(words[i])]

\* htons() or ntohs() for each register, unless it is kept in network order.
Reorder(order, words) ==
    [i \in DOMAIN words |-> IF order = "Host" THEN Swap(words[i]) ELSE words[i]]

\* The last byte is combined with (1u << (count % 8)) - 1.
MaskLast(coils, n) ==
    {i \in coils : i < ByteBits * (ByteCount(n) - 1) \/ i % ByteBits < n % ByteBits}

-----------------------------------------------------------------------------
(* The client sends the request, the server handles it, the client checks  *)
(* the response.                                                           *)

RequestData ==
    CASE function \in Reading -> <<>>
      [] function = "WriteSingleCoil" -> <<IF buffer # {} THEN On ELSE Off>>
      [] function = "WriteMultipleCoils" -> buffer
      [] OTHER -> Reorder(client_order, buffer)

SendRequest ==
    /\ phase = "scheduled"
    /\ request' = RequestData
    /\ meant' = buffer
    /\ phase' = "requested"
    /\ UNCHANGED <<orders, transaction, buffer, response, result, handled>>

Respond(data) ==
    /\ response' = [exception |-> FALSE, data |-> data]
    /\ phase' = "responded"
    /\ UNCHANGED <<orders, transaction, buffer, request, result, meant>>

\* The callback sets the coils in the memory of the response, which holds
\* whatever is left there from other responses.
ServeCoils ==
    /\ phase = "requested"
    /\ function = "ReadCoils"
    /\ \E memory \in SUBSET Bits(count) :
           /\ handled' = {i \in memory : i < count}
           /\ Respond(MaskLast(memory, count))

ServeRegisters ==
    /\ phase = "requested"
    /\ function = "ReadRegisters"
    /\ \E words \in Contents(function, count) :
           /\ handled' = words
           /\ Respond(Reorder(server_order, words))

\* Here the mask is left out where it would clear the byte.
WrittenValues ==
    CASE function = "WriteSingleCoil" -> IF request = <<On>> THEN {0} ELSE {}
      [] function = "WriteMultipleCoils" ->
             IF count % ByteBits # 0 THEN MaskLast(request, count) ELSE request
      [] OTHER -> Reorder(server_order, request)

Echo == IF function \in {"WriteMultipleCoils", "WriteMultipleRegisters"}
        THEN count ELSE request

ServeWrite ==
    /\ phase = "requested"
    /\ function \notin Reading
    /\ handled' = WrittenValues
    /\ Respond(Echo)

\* The request callback returns an exception.
ServeException ==
    /\ phase = "requested"
    /\ response' = [exception |-> TRUE, data |-> Nothing]
    /\ phase' = "responded"
    /\ UNCHANGED <<orders, transaction, buffer, request, result, meant, handled>>

\* ForceTimeout: no response is sent.
ServeNothing ==
    /\ phase = "requested"
    /\ result' = "Timeout"
    /\ phase' = "done"
    /\ UNCHANGED <<orders, transaction, buffer, request, response, meant, handled>>

Finish(outcome) ==
    /\ result' = outcome
    /\ phase' = "done"
    /\ UNCHANGED <<orders, transaction, request, response, meant, handled>>

ReceiveException ==
    /\ phase = "responded"
    /\ response.exception
    /\ Finish("Exception")
    /\ UNCHANGED buffer

ReceiveValues ==
    /\ phase = "responded"
    /\ ~response.exception
    /\ function \in Reading
    /\ buffer' = IF function = "ReadCoils" THEN MaskLast(response.data, count)
                 ELSE Reorder(client_order, response.data)
    /\ Finish("Success")

\* What the echo is compared with is taken from the buffer again.
ExpectedEcho ==
    CASE function = "WriteSingleCoil" -> <<IF buffer # {} THEN On ELSE Off>>
      [] function \in {"WriteMultipleCoils", "WriteMultipleRegisters"} -> count
      [] OTHER -> Reorder(client_order, buffer)

ReceiveEcho ==
    /\ phase = "responded"
    /\ ~response.exception
    /\ function \notin Reading
    /\ Finish(IF response.data = ExpectedEcho THEN "Success" ELSE "Mismatch")
    /\ UNCHANGED buffer

-----------------------------------------------------------------------------
Next ==
    \/ \E f \in Functions : \E n \in Counts(f) : \E content \in Contents(f, n) :
           Transact(f, n, content)
    \/ UserWrites
    \/ SendRequest
    \/ ServeCoils \/ ServeRegisters \/ ServeWrite \/ ServeException \/ ServeNothing
    \/ ReceiveException \/ ReceiveValues \/ ReceiveEcho

Spec == Init /\ [][Next]_vars

-----------------------------------------------------------------------------
(* Properties.                                                             *)

\* The number that a register in memory stands for.
Number(order, word) ==
    IF order = "Host" THEN word[1] + Base * word[2] ELSE Base * word[1] + word[2]

\* The values that a user of the client and one of the server see are the same.
Agree(mine, theirs) ==
    IF function \in CoilFunctions
    THEN mine = theirs
    ELSE \A i \in 1..count : Number(client_order, mine[i]) = Number(server_order, theirs[i])

WholeBytes == count % ByteBits = 0

\* Whatever byte orders the two sides keep their registers in, whatever the memory of the
\* response held before, and whenever the user changes the buffer meanwhile, to values that
\* transact() accepts: a read brings the values the callback gave and no other bit; a write
\* is handled with the values that were in the buffer when it was sent, and is said to have
\* failed by a mismatch only if the buffer was changed since.  Of coils that fill their
\* last byte this says nothing: see CoilsArrive.
ValuesArrive ==
    phase = "done" /\ result \in {"Success", "Mismatch"} =>
        IF function \in Reading
        THEN (function = "ReadCoils" /\ WholeBytes) \/ Agree(buffer, handled)
        ELSE /\ Agree(meant, handled)
             /\ result = "Mismatch" => buffer # meant

\* As the callback of test/test_server.cpp:88-96 sets each coil i < data_count, a
\* client that reads finds it.
CoilsArrive ==
    phase = "done" /\ result = "Success" /\ function = "ReadCoils" => buffer = handled
=============================================================================
