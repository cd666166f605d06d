\* NotValidBefore codec with 2-bit bytes (heights 0..255) and forged wires
\* of up to 5 bytes behind a prefix of 0..5.
CONSTANTS
    ByteBits = 2
    MaxWire = 5

SPECIFICATION Spec
INVARIANT RoundTrip
