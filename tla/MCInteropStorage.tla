-------------------------- MODULE MCInteropStorage --------------------------
(* Model of the storage and contract syscalls for TLC: two script hashes,  *)
(* one storage key within the length limit and one over it, two values.   *)
EXTENDS InteropStorage

=============================================================================
