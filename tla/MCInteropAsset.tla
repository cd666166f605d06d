--------------------------- MODULE MCInteropAsset ---------------------------
(* Model of the asset syscalls for TLC: two transactions, two signing keys *)
(* and 4-bit heights (Width = 4) with BlocksPerYear = 4, so that          *)
(* expirations reach the uint32 clamp and wrap within 16 blocks.          *)
EXTENDS InteropAsset, TLC

CONSTANTS t1, t2, pk1, pk2, w1, w2, w3

MCSigHash == (pk1 :> w1) @@ (pk2 :> w2) @@ (INFINITY :> w3)

\* t1 is signed by pk1; t2 by pk2 and carries the infinity key's script.
MCVerifying == (t1 :> {w1}) @@ (t2 :> {w2, w3})

=============================================================================
