-------------------------- MODULE MCModbusTCPServer ---------------------------
(* Instances of ModbusTCPServer for TLC.                                   *)
EXTENDS ModbusTCPServer

\* A request of one payload byte.
OneByte == [k \in Requests |-> 1]

\* A longer request, then a shorter one.
LongThenShort == [k \in Requests |-> IF k = 1 THEN 2 ELSE 1]
=============================================================================
