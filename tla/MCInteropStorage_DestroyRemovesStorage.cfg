CONSTANTS
    Hashes = {h1, h2}
    Keys = {k1}
    BigKeys = {kb}
    Values = {v1}
    NONE = NONE
    TOMB = TOMB
    EMPTY = EMPTY

SPECIFICATION Spec


PROPERTY
    DestroyRemovesStorage
