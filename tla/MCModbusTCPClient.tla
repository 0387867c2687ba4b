------------------------- MODULE MCModbusTCPClient ----------------------------
(* Instances of ModbusTCPClient for TLC.                                   *)
EXTENDS ModbusTCPClient, Bitwise

MaskWith(m) == [n \in Ids |-> n & m]

\* The default, which keeps all bits of the counter, and a mask that keeps none.
AllOrNothing == {MaskWith(IdCount - 1), MaskWith(0)}

OnlyDefault == {MaskWith(IdCount - 1)}
=============================================================================
