\* Violation run: DecodeNeverPanics.
CONSTANTS
    ByteBits = 2
    MaxWire = 5

SPECIFICATION Spec
INVARIANT DecodeNeverPanics
