\* Up to two bytes of two coils and two registers; all byte orders.
CONSTANTS
    Base = 2
    ByteBits = 2
    MaxCoils = 4
    MaxRegisters = 2
SPECIFICATION Spec
INVARIANT ValuesArrive
