\* Coils that fill their last byte.
CONSTANTS
    Base = 2
    ByteBits = 2
    MaxCoils = 4
    MaxRegisters = 2
SPECIFICATION Spec
INVARIANT CoilsArrive
