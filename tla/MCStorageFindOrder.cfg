\* storageFind's loop and sort: the order of the keys it yields.
CONSTANTS
    Bytes = {0, 1}
    Values = {1}
    MaxPrefix = 1
    MaxSuffix = 2
    MaxEntries = 3
    MaxSpare = 2
SPECIFICATION Spec
INVARIANT FindSorted
