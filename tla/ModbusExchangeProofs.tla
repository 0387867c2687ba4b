------------------------ MODULE ModbusExchangeProofs --------------------------
(* Proofs about ModbusExchange, for bytes and blocks of any size.          *)
EXTENDS ModbusExchange, Integers, TLAPS

USE BitsAssumption, CountsAssumption

-----------------------------------------------------------------------------
(* The inductive invariant.                                                *)

Underway == {"scheduled", "requested", "responded"}

RegisterWrites == {"WriteSingleRegister", "WriteMultipleRegisters", "MaskWriteRegister"}

\* The buffer fits the function; while the transaction is on its way it may be written.
BufferInv ==
    /\ client_order \in Orders /\ server_order \in Orders
    /\ phase \in Underway \cup {"idle", "done"}
    /\ phase # "idle" =>
           /\ function \in Functions
           /\ count \in Counts(function)
           /\ buffer \in Contents(function, count)
    /\ phase \in Underway => Accepts(function, count, buffer)

\* The request is made of what was in the buffer then, whatever is there now.
RequestInv ==
    phase \in {"requested", "responded"} /\ function \notin Reading =>
        /\ meant \in Contents(function, count)
        /\ Accepts(function, count, meant)
        /\ function = "WriteSingleCoil" => request = <<IF meant # {} THEN On ELSE Off>>
        /\ function = "WriteMultipleCoils" => request = meant
        /\ function \in RegisterWrites => request = Reorder(client_order, meant)

\* The response is made of what the callback gave; or the callback was given what was
\* meant, and the response is the echo.
ResponseInv ==
    phase = "responded" /\ ~response.exception =>
        /\ function = "ReadCoils" =>
               /\ response.data \subseteq Bits(count)
               /\ ~WholeBytes => response.data = handled /\ handled \subseteq 0..(count - 1)
        /\ function = "ReadRegisters" =>
               /\ handled \in Contents(function, count)
               /\ response.data = Reorder(server_order, handled)
        /\ function \notin Reading => Agree(meant, handled) /\ response.data = Echo

IInv == BufferInv /\ RequestInv /\ ResponseInv /\ ValuesArrive

-----------------------------------------------------------------------------
(* Lemmas about bytes.                                                     *)

LEMMA Division ==
    ASSUME NEW n \in Nat, NEW b \in Nat, b > 0
    PROVE  n \div b \in Nat /\ n % b \in 0..(b - 1) /\ n = b * (n \div b) + (n % b)
  OBVIOUS

LEMMA DivisionIsUnique ==
    ASSUME NEW b \in Nat, b > 0, NEW q \in Nat, NEW r \in Nat, r < b
    PROVE  (b * q + r) \div b = q /\ (b * q + r) % b = r
  <1> DEFINE n == b * q + r
  <1>1. n \in Nat
    OBVIOUS
  <1>2. PICK k \in Nat : k = n \div b
    BY <1>1, Division
  <1>3. PICK s \in Nat : s = n % b /\ s < b
    BY <1>1, Division
  <1>4. b * q + r = b * k + s
    BY <1>1, <1>2, <1>3, Division
  <1>5. b * (q - k) = s - r
    BY <1>2, <1>3, <1>4, SMT
  <1>6. ~(q - k >= 1)
    <2> SUFFICES ASSUME q - k >= 1 PROVE FALSE
      OBVIOUS
    <2>1. b * (q - k) >= b
      BY <1>2, SMT
    <2> QED
      BY <2>1, <1>3, <1>5
  <1>7. ~(q - k <= -1)
    <2> SUFFICES ASSUME q - k <= -1 PROVE FALSE
      OBVIOUS
    <2>1. b * (q - k) <= -b
      BY <1>2, SMT
    <2> QED
      BY <2>1, <1>3, <1>5
  <1>8. q = k
    BY <1>2, <1>6, <1>7
  <1> QED
    BY <1>2, <1>3, <1>5, <1>8

\* Where coils do not fill their last byte, its mask keeps the coils and nothing else.
LEMMA MaskKeepsCoils ==
    ASSUME NEW n \in Nat, n % ByteBits # 0, NEW coils \in SUBSET Bits(n)
    PROVE  MaskLast(coils, n) = {i \in coils : i < n}
  <1>1. PICK q \in Nat : q = n \div ByteBits
    BY Division
  <1>2. PICK r \in Nat : r = n % ByteBits /\ 0 < r /\ r < ByteBits
    BY Division
  <1>3. n = ByteBits * q + r
    BY <1>1, <1>2, Division
  <1>4. ByteCount(n) = q + 1
    <2>1. n + ByteBits - 1 = ByteBits * (q + 1) + (r - 1)
      BY <1>3, SMT
    <2>2. (ByteBits * (q + 1) + (r - 1)) \div ByteBits = q + 1
      BY <1>2, DivisionIsUnique
    <2> QED
      BY <2>1, <2>2 DEF ByteCount
  <1>5. ASSUME NEW i \in coils
        PROVE  i < ByteBits * (ByteCount(n) - 1) \/ i % ByteBits < n % ByteBits <=> i < n
    <2>1. i \in Nat /\ i < ByteBits * (q + 1)
      BY <1>4 DEF Bits
    <2>2. CASE i < ByteBits * q
      BY <1>2, <1>3, <1>4, <2>1, <2>2
    <2>3. CASE ~(i < ByteBits * q)
      <3>1. PICK s \in Nat : i = ByteBits * q + s /\ s < ByteBits
        <4>1. i - ByteBits * q \in Nat /\ i - ByteBits * q < ByteBits
          BY <2>1, <2>3, SMT
        <4> QED
          BY <2>1, <4>1
      <3>2. i % ByteBits = s
        BY <3>1, DivisionIsUnique
      <3> QED
        BY <1>2, <1>3, <1>4, <2>3, <3>1, <3>2
    <2> QED
      BY <2>2, <2>3
  <1> QED
    BY <1>5 DEF MaskLast

LEMMA BitsAreNat == ASSUME NEW n \in Nat PROVE Bits(n) \subseteq Nat
  <1>1. ByteCount(n) \in Nat
    BY Division DEF ByteCount
  <1>2. ByteBits * ByteCount(n) - 1 \in Int
    BY <1>1, SMT
  <1> QED
    BY <1>2 DEF Bits

LEMMA MaskIsSubset == ASSUME NEW n, NEW coils PROVE MaskLast(coils, n) \subseteq coils
  BY DEF MaskLast

\* Blocks of registers.
Blocks(n) == [1..n -> Words]

LEMMA ReorderType ==
    ASSUME NEW n, NEW order, NEW words \in Blocks(n)
    PROVE  Reorder(order, words) \in Blocks(n)
  <1>1. \A w \in Words : Swap(w) \in Words
    BY DEF Words, Swap
  <1> QED
    BY <1>1 DEF Reorder, Blocks

\* A register that leaves one side and enters the other stands for the same number.
LEMMA ReorderAgrees ==
    ASSUME NEW mine \in Orders, NEW theirs \in Orders, NEW n, NEW words \in Blocks(n)
    PROVE  \A i \in 1..n : Number(mine, words[i])
                               = Number(theirs, Reorder(theirs, Reorder(mine, words))[i])
  <1> SUFFICES ASSUME NEW i \in 1..n
               PROVE  Number(mine, words[i])
                          = Number(theirs, Reorder(theirs, Reorder(mine, words))[i])
    OBVIOUS
  <1>1. PICK a \in 0..(Base - 1), b \in 0..(Base - 1) : words[i] = <<a, b>>
    BY DEF Words, Blocks
  <1>2. Reorder(mine, words)[i] = IF mine = "Host" THEN <<b, a>> ELSE <<a, b>>
    BY <1>1 DEF Reorder, Swap, Blocks
  <1>3. i \in DOMAIN Reorder(mine, words)
    BY DEF Reorder, Blocks
  <1>4. Reorder(theirs, Reorder(mine, words))[i]
            = IF theirs = "Host" THEN Swap(Reorder(mine, words)[i]) ELSE Reorder(mine, words)[i]
    BY <1>3 DEF Reorder
  <1> QED
    BY <1>1, <1>2, <1>4 DEF Swap, Number, Orders

-----------------------------------------------------------------------------
(* Lemmas about what is in a buffer.                                       *)

LEMMA CountsArePositive ==
    ASSUME NEW f \in Functions, NEW n \in Counts(f)
    PROVE  /\ n \in Nat \ {0}
           /\ f = "WriteSingleCoil" => n = 1
  BY DEF Functions, CoilFunctions, Counts

LEMMA CoilContents ==
    ASSUME NEW f \in CoilFunctions, NEW n
    PROVE  Contents(f, n) = SUBSET Bits(n)
  BY DEF Contents

LEMMA RegisterContents ==
    ASSUME NEW f, f \notin CoilFunctions, NEW n
    PROVE  Contents(f, n) = Blocks(n)
  BY DEF Contents, Blocks

\* What the client sends of a write is what the server gives to its callback.
LEMMA WritesAgree ==
    ASSUME BufferInv, RequestInv, phase = "requested", function \notin Reading
    PROVE  Agree(meant, WrittenValues)
  <1>1. function \in Functions /\ count \in Counts(function)
    BY DEF BufferInv
  <1>2. meant \in Contents(function, count) /\ Accepts(function, count, meant)
    BY DEF RequestInv
  <1>3. count \in Nat \ {0} /\ (function = "WriteSingleCoil" => count = 1)
    BY <1>1, CountsArePositive
  <1>4. CASE function = "WriteSingleCoil"
    <2>1. function \in CoilFunctions
      BY <1>4 DEF CoilFunctions
    <2>2. meant \in SUBSET Bits(count)
      BY <1>2, <2>1, CoilContents
    <2>3. meant \subseteq {0}
      BY <1>2, <1>3, <1>4, <2>2 DEF Accepts, Bits
    <2>4. request = <<IF meant # {} THEN On ELSE Off>>
      BY <1>4 DEF RequestInv
    <2>5. WrittenValues = IF request = <<On>> THEN {0} ELSE {}
      BY <1>4 DEF WrittenValues
    <2>6. On # Off
      BY DEF On, Off
    <2>7. WrittenValues = meant
      BY <2>3, <2>4, <2>5, <2>6
    <2> QED
      BY <2>1, <2>7 DEF Agree
  <1>5. CASE function = "WriteMultipleCoils"
    <2>1. function \in CoilFunctions
      BY <1>5 DEF CoilFunctions
    <2>2. meant \in SUBSET Bits(count)
      BY <1>2, <2>1, CoilContents
    <2>3. \A i \in meant : i < count
      BY <1>2, <1>5 DEF Accepts
    <2>4. request = meant
      BY <1>5 DEF RequestInv
    <2>5. count % ByteBits # 0 => MaskLast(meant, count) = meant
      BY <1>3, <2>2, <2>3, MaskKeepsCoils
    <2>6. WrittenValues = IF count % ByteBits # 0 THEN MaskLast(request, count) ELSE request
      BY <1>5 DEF WrittenValues
    <2>7. WrittenValues = meant
      BY <2>4, <2>5, <2>6
    <2> QED
      BY <2>1, <2>7 DEF Agree
  <1>6. CASE function \in RegisterWrites
    <2>1. function \notin CoilFunctions
      BY <1>6 DEF RegisterWrites, CoilFunctions
    <2>2. meant \in Blocks(count)
      BY <1>2, <2>1, RegisterContents
    <2>3. request = Reorder(client_order, meant)
      BY <1>6 DEF RequestInv
    <2>4. WrittenValues = Reorder(server_order, request)
      BY <1>6 DEF WrittenValues, RegisterWrites
    <2>5. client_order \in Orders /\ server_order \in Orders
      BY DEF BufferInv
    <2>6. \A i \in 1..count :
              Number(client_order, meant[i]) = Number(server_order, WrittenValues[i])
      <3>1. WrittenValues = Reorder(server_order, Reorder(client_order, meant))
        BY <2>3, <2>4
      <3>2. \A i \in 1..count :
                Number(client_order, meant[i])
                    = Number(server_order, Reorder(server_order, Reorder(client_order, meant))[i])
        BY <2>2, <2>5, ReorderAgrees
      <3> QED
        BY <3>1, <3>2
    <2> QED
      BY <2>1, <2>6 DEF Agree
  <1>7. function \in RegisterWrites \/ function \in {"WriteSingleCoil", "WriteMultipleCoils"}
    BY <1>1 DEF Functions, CoilFunctions, RegisterWrites, Reading
  <1> QED
    BY <1>4, <1>5, <1>6, <1>7

\* The client finds the echo it expects, unless the buffer was changed.
LEMMA EchoIsExpected ==
    ASSUME BufferInv, RequestInv, phase = "responded", function \notin Reading,
           buffer = meant
    PROVE  ExpectedEcho = Echo
  <1>1. function \in Functions
    BY DEF BufferInv
  <1>2. CASE function = "WriteSingleCoil"
    BY <1>2 DEF ExpectedEcho, Echo, RequestInv
  <1>3. CASE function \in {"WriteMultipleCoils", "WriteMultipleRegisters"}
    BY <1>3 DEF ExpectedEcho, Echo
  <1>4. CASE function \in {"WriteSingleRegister", "MaskWriteRegister"}
    BY <1>4 DEF ExpectedEcho, Echo, RequestInv, RegisterWrites
  <1> QED
    BY <1>1, <1>2, <1>3, <1>4 DEF Functions, CoilFunctions, Reading

-----------------------------------------------------------------------------
(* Every action keeps the invariant.                                       *)

LEMMA InitHolds == Init => IInv
  BY DEF Init, IInv, BufferInv, RequestInv, ResponseInv, ValuesArrive, Underway

LEMMA TransactStep ==
    ASSUME NEW f \in Functions, NEW n \in Counts(f), NEW content \in Contents(f, n),
           IInv, Transact(f, n, content)
    PROVE  IInv'
  <1>1. BufferInv'
    BY DEF IInv, BufferInv, Transact, Underway, orders
  <1>2. RequestInv' /\ ResponseInv' /\ ValuesArrive'
    BY DEF Transact, RequestInv, ResponseInv, ValuesArrive
  <1> QED
    BY <1>1, <1>2 DEF IInv

LEMMA UserWritesStep == IInv /\ UserWrites => IInv'
  <1> SUFFICES ASSUME IInv, UserWrites PROVE IInv'
    OBVIOUS
  <1>1. BufferInv'
    BY DEF IInv, BufferInv, UserWrites, Underway, orders, transaction
  <1>2. RequestInv'
    BY DEF IInv, RequestInv, UserWrites, orders, transaction
  <1>3. ResponseInv'
    BY DEF IInv, ResponseInv, UserWrites, orders, transaction, Agree, WholeBytes, Echo
  <1>4. ValuesArrive'
    BY DEF UserWrites, ValuesArrive
  <1> QED
    BY <1>1, <1>2, <1>3, <1>4 DEF IInv

LEMMA SendRequestStep == IInv /\ SendRequest => IInv'
  <1> SUFFICES ASSUME IInv, SendRequest PROVE IInv'
    OBVIOUS
  <1>1. BufferInv'
    BY DEF IInv, BufferInv, SendRequest, Underway, orders, transaction
  <1>2. RequestInv'
    <2>1. buffer \in Contents(function, count) /\ Accepts(function, count, buffer)
      BY DEF IInv, BufferInv, SendRequest, Underway
    <2>2. /\ function = "WriteSingleCoil" => RequestData = <<IF buffer # {} THEN On ELSE Off>>
          /\ function = "WriteMultipleCoils" => RequestData = buffer
          /\ function \in RegisterWrites => RequestData = Reorder(client_order, buffer)
      BY DEF RequestData, RegisterWrites, Reading
    <2> QED
      BY <2>1, <2>2 DEF SendRequest, RequestInv, orders, transaction
  <1>3. ResponseInv' /\ ValuesArrive'
    BY DEF SendRequest, ResponseInv, ValuesArrive
  <1> QED
    BY <1>1, <1>2, <1>3 DEF IInv

\* A response changes nothing that the first two parts speak of.
LEMMA ResponseKeeps ==
    ASSUME IInv, phase = "requested", phase' = "responded",
           UNCHANGED <<orders, transaction, buffer, request, meant>>
    PROVE  BufferInv' /\ RequestInv' /\ ValuesArrive'
  <1>1. BufferInv'
    BY DEF IInv, BufferInv, Underway, orders, transaction
  <1>2. RequestInv'
    BY DEF IInv, RequestInv, orders, transaction
  <1>3. ValuesArrive'
    BY DEF ValuesArrive
  <1> QED
    BY <1>1, <1>2, <1>3

LEMMA ServeCoilsStep == IInv /\ ServeCoils => IInv'
  <1> SUFFICES ASSUME IInv, ServeCoils PROVE IInv'
    OBVIOUS
  <1>1. PICK memory \in SUBSET Bits(count) :
            /\ handled' = {i \in memory : i < count}
            /\ Respond(MaskLast(memory, count))
    BY DEF ServeCoils
  <1>2. BufferInv' /\ RequestInv' /\ ValuesArrive'
    BY <1>1, ResponseKeeps DEF ServeCoils, Respond
  <1>3. ResponseInv'
    <2>1. function = "ReadCoils" /\ count \in Nat
      BY CountsArePositive DEF ServeCoils, IInv, BufferInv
    <2>2. MaskLast(memory, count) \subseteq Bits(count)
      BY MaskIsSubset
    <2>3. count % ByteBits # 0 => MaskLast(memory, count) = {i \in memory : i < count}
      BY <2>1, MaskKeepsCoils
    <2>4. {i \in memory : i < count} \subseteq 0..(count - 1)
      BY <2>1, BitsAreNat
    <2> QED
      BY <1>1, <2>1, <2>2, <2>3, <2>4
      DEF ResponseInv, Respond, WholeBytes, Reading, orders, transaction
  <1> QED
    BY <1>2, <1>3 DEF IInv

LEMMA ServeRegistersStep == IInv /\ ServeRegisters => IInv'
  <1> SUFFICES ASSUME IInv, ServeRegisters PROVE IInv'
    OBVIOUS
  <1>1. PICK words \in Contents(function, count) :
            handled' = words /\ Respond(Reorder(server_order, words))
    BY DEF ServeRegisters
  <1>2. BufferInv' /\ RequestInv' /\ ValuesArrive'
    BY <1>1, ResponseKeeps DEF ServeRegisters, Respond
  <1>3. ResponseInv'
    BY <1>1 DEF ServeRegisters, ResponseInv, Respond, Reading, orders, transaction
  <1> QED
    BY <1>2, <1>3 DEF IInv

LEMMA ServeWriteStep == IInv /\ ServeWrite => IInv'
  <1> SUFFICES ASSUME IInv, ServeWrite PROVE IInv'
    OBVIOUS
  <1>1. BufferInv' /\ RequestInv' /\ ValuesArrive'
    BY ResponseKeeps DEF ServeWrite, Respond
  <1>2. Agree(meant, WrittenValues)
    BY WritesAgree DEF IInv, ServeWrite
  <1>3. Agree(meant, handled)'
    BY <1>2 DEF ServeWrite, Respond, Agree, orders, transaction
  <1>4. (response.data = Echo)'
    BY DEF ServeWrite, Respond, Echo, orders, transaction
  <1>5. ResponseInv'
    BY <1>3, <1>4 DEF ServeWrite, ResponseInv, Respond, Reading, transaction
  <1> QED
    BY <1>1, <1>5 DEF IInv

LEMMA ServeExceptionStep == IInv /\ ServeException => IInv'
  <1> SUFFICES ASSUME IInv, ServeException PROVE IInv'
    OBVIOUS
  <1>1. BufferInv' /\ RequestInv' /\ ValuesArrive'
    BY ResponseKeeps DEF ServeException
  <1>2. ResponseInv'
    BY DEF ServeException, ResponseInv
  <1> QED
    BY <1>1, <1>2 DEF IInv

LEMMA ServeNothingStep == IInv /\ ServeNothing => IInv'
  <1> SUFFICES ASSUME IInv, ServeNothing PROVE IInv'
    OBVIOUS
  <1>1. BufferInv'
    BY DEF IInv, BufferInv, ServeNothing, Underway, orders, transaction
  <1>2. RequestInv' /\ ResponseInv' /\ ValuesArrive'
    BY DEF ServeNothing, RequestInv, ResponseInv, ValuesArrive
  <1> QED
    BY <1>1, <1>2 DEF IInv

LEMMA ReceiveExceptionStep == IInv /\ ReceiveException => IInv'
  <1> SUFFICES ASSUME IInv, ReceiveException PROVE IInv'
    OBVIOUS
  <1>1. BufferInv'
    BY DEF IInv, BufferInv, ReceiveException, Finish, Underway, orders, transaction
  <1>2. RequestInv' /\ ResponseInv' /\ ValuesArrive'
    BY DEF ReceiveException, Finish, RequestInv, ResponseInv, ValuesArrive
  <1> QED
    BY <1>1, <1>2 DEF IInv

LEMMA ReceiveValuesStep == IInv /\ ReceiveValues => IInv'
  <1> SUFFICES ASSUME IInv, ReceiveValues PROVE IInv'
    OBVIOUS
  <1>1. /\ phase = "responded" /\ ~response.exception /\ function \in Reading
        /\ function \in Functions /\ count \in Counts(function) /\ count \in Nat
        /\ client_order \in Orders /\ server_order \in Orders
    BY CountsArePositive DEF ReceiveValues, IInv, BufferInv
  <1>2. /\ phase' = "done" /\ result' = "Success"
        /\ UNCHANGED <<orders, function, count, meant, handled>>
    BY DEF ReceiveValues, Finish, transaction
  <1>3. buffer' \in Contents(function, count)
            /\ ((function = "ReadCoils" /\ WholeBytes) \/ Agree(buffer, handled)')
    <2>1. CASE function = "ReadCoils"
      <3>1. buffer' = MaskLast(response.data, count)
        BY <2>1 DEF ReceiveValues
      <3>2. response.data \subseteq Bits(count)
        BY <1>1, <2>1 DEF IInv, ResponseInv
      <3>3. buffer' \in SUBSET Bits(count)
        BY <3>1, <3>2, MaskIsSubset
      <3>4. function \in CoilFunctions
        BY <2>1 DEF CoilFunctions
      <3>5. CASE ~WholeBytes
        <4>1. response.data = handled /\ handled \subseteq 0..(count - 1)
          BY <1>1, <2>1, <3>5 DEF IInv, ResponseInv
        <4>2. count % ByteBits # 0
          BY <3>5 DEF WholeBytes
        <4>3. buffer' = {i \in response.data : i < count}
          BY <1>1, <3>1, <3>2, <4>2, MaskKeepsCoils
        <4>4. buffer' = handled
          <5>1. \A i \in handled : i < count
            BY <1>1, <4>1, SMT
          <5>2. buffer' = {i \in handled : i < count}
            BY <4>1, <4>3, Zenon
          <5> QED
            BY <5>1, <5>2, Zenon
        <4>5. Agree(buffer, handled)'
          BY <1>2, <3>4, <4>4 DEF Agree
        <4> QED
          BY <3>3, <3>4, <4>5, CoilContents
      <3> QED
        BY <2>1, <3>3, <3>4, <3>5, CoilContents
    <2>2. CASE function = "ReadRegisters"
      <3>1. function \notin CoilFunctions
        BY <2>2 DEF CoilFunctions
      <3>2. handled \in Blocks(count) /\ response.data = Reorder(server_order, handled)
        BY <1>1, <2>2, <3>1, RegisterContents DEF IInv, ResponseInv
      <3>3. buffer' = Reorder(client_order, Reorder(server_order, handled))
        BY <2>2, <3>2 DEF ReceiveValues
      <3>4. buffer' \in Blocks(count)
        BY <3>2, <3>3, ReorderType
      <3>5. \A i \in 1..count :
                Number(server_order, handled[i])
                    = Number(client_order, Reorder(client_order, Reorder(server_order, handled))[i])
        BY <1>1, <3>2, ReorderAgrees
      <3>6. Agree(buffer, handled)'
        BY <1>2, <3>1, <3>3, <3>5 DEF Agree, orders
      <3> QED
        BY <3>1, <3>4, <3>6, RegisterContents
    <2> QED
      BY <1>1, <2>1, <2>2 DEF Reading
  <1>4. BufferInv'
    BY <1>1, <1>2, <1>3 DEF BufferInv, Underway, orders
  <1>5. RequestInv' /\ ResponseInv'
    BY <1>2 DEF RequestInv, ResponseInv
  <1>6. ValuesArrive'
    BY <1>1, <1>2, <1>3 DEF ValuesArrive, WholeBytes
  <1> QED
    BY <1>4, <1>5, <1>6 DEF IInv

LEMMA ReceiveEchoStep == IInv /\ ReceiveEcho => IInv'
  <1> SUFFICES ASSUME IInv, ReceiveEcho PROVE IInv'
    OBVIOUS
  <1>1. /\ phase = "responded" /\ ~response.exception /\ function \notin Reading
        /\ Agree(meant, handled) /\ response.data = Echo
    BY DEF ReceiveEcho, IInv, ResponseInv
  <1>2. /\ phase' = "done"
        /\ result' = IF response.data = ExpectedEcho THEN "Success" ELSE "Mismatch"
        /\ UNCHANGED <<orders, transaction, buffer, meant, handled>>
    BY DEF ReceiveEcho, Finish
  <1>3. BufferInv'
    BY <1>1, <1>2 DEF IInv, BufferInv, Underway, orders, transaction
  <1>4. RequestInv' /\ ResponseInv'
    BY <1>2 DEF RequestInv, ResponseInv
  <1>5. ValuesArrive'
    <2>1. Agree(meant, handled)'
      BY <1>1, <1>2 DEF Agree, orders, transaction
    <2>2. result' = "Mismatch" => buffer # meant
      BY <1>1, <1>2, EchoIsExpected DEF IInv
    <2> QED
      BY <1>1, <1>2, <2>1, <2>2 DEF ValuesArrive, transaction
  <1> QED
    BY <1>3, <1>4, <1>5 DEF IInv

-----------------------------------------------------------------------------
(* Theorems.                                                               *)

LEMMA NextStep == IInv /\ [Next]_vars => IInv'
  <1> SUFFICES ASSUME IInv, [Next]_vars PROVE IInv'
    OBVIOUS
  <1>1. CASE UNCHANGED vars
    BY <1>1 DEF vars, orders, transaction, IInv, BufferInv, RequestInv, ResponseInv,
                ValuesArrive, Agree, WholeBytes, Echo
  <1>2. ASSUME NEW f \in Functions, NEW n \in Counts(f), NEW content \in Contents(f, n),
               Transact(f, n, content)
        PROVE  IInv'
    BY <1>2, TransactStep
  <1>3. CASE UserWrites
    BY <1>3, UserWritesStep
  <1>4. CASE SendRequest
    BY <1>4, SendRequestStep
  <1>5. CASE ServeCoils
    BY <1>5, ServeCoilsStep
  <1>6. CASE ServeRegisters
    BY <1>6, ServeRegistersStep
  <1>7. CASE ServeWrite
    BY <1>7, ServeWriteStep
  <1>8. CASE ServeException
    BY <1>8, ServeExceptionStep
  <1>9. CASE ServeNothing
    BY <1>9, ServeNothingStep
  <1>10. CASE ReceiveException
    BY <1>10, ReceiveExceptionStep
  <1>11. CASE ReceiveValues
    BY <1>11, ReceiveValuesStep
  <1>12. CASE ReceiveEcho
    BY <1>12, ReceiveEchoStep
  <1> QED
    BY <1>1, <1>2, <1>3, <1>4, <1>5, <1>6, <1>7, <1>8, <1>9, <1>10, <1>11, <1>12 DEF Next

\* In every reachable state the request was made of the buffer as it was then, and the
\* response of what the callback gave, or of the echo of what it was given.
THEOREM Invariance == Spec => []IInv
  BY InitHolds, NextStep, PTL DEF Spec

\* For bytes and blocks of any size and all byte orders: what is read and written over
\* the library's own client and server arrives as it was meant (tick_hook() and
\* recv_hook() of TFModbusTCPClient, tick() of TFModbusTCPServer).
THEOREM ValuesAlwaysArrive == Spec => []ValuesArrive
  <1>1. IInv => ValuesArrive
    BY DEF IInv
  <1> QED
    BY <1>1, Invariance, PTL
=============================================================================
