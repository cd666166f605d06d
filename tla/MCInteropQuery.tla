--------------------------- MODULE MCInteropQuery ---------------------------
(* Model-checking instance of InteropQuery: three block indexes, two        *)
(* transactions, two contracts of which one is deployed (and payable),    *)
(* calls three deep (so the executing, calling and entry script hashes    *)
(* can all differ), bytes of 2 bits (MaxUint32 = 255, still beyond 4      *)
(* signed bytes and within 5) and a 4-bit int64.                           *)
EXTENDS InteropQuery
====
