\* Violation run: TxMissIsSoft.
CONSTANTS
    MaxHeight = 2
    MaxTxs = 2
    TxIds = {10, 11}
    Scripts = {1, 2}
    Deployed = {1}
    MaxDepth = 2
    ByteBits = 2
    Int64Bits = 4
    Standard = {}
    Payable = {1}

SPECIFICATION Spec
PROPERTY TxMissIsSoft
