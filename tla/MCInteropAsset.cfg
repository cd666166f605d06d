CONSTANTS
    t1 = t1
    t2 = t2
    pk1 = pk1
    pk2 = pk2
    w1 = w1
    w2 = w2
    w3 = w3
    TxIds = {t1, t2}
    PubKeys = {pk1, pk2}
    INFINITY = INFINITY
    BADKEY = BADKEY
    WitnessHashes = {w1, w2, w3}
    SigHash <- MCSigHash
    Verifying <- MCVerifying
    Width = 4
    BlocksPerYear = 4
    NONE = NONE

SPECIFICATION Spec

\* The model stops once every transaction of TxIds has run and the height
\* is at the uint32 maximum.
CHECK_DEADLOCK FALSE

INVARIANT OwnerWitnessed

PROPERTY RenewNeverShortens
