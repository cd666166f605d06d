--------------------------- MODULE NotValidBefore ---------------------------
(***************************************************************************)
(* The NotValidBefore transaction attribute codec (src/unnamed/part_001): *)
(* EncodeBinary writes the height as 4 little-endian bytes behind a       *)
(* var-length prefix; DecodeBinary reads at most 4 var-length bytes and   *)
(* converts them with binary.LittleEndian.Uint32, which needs 4 bytes.    *)
(*                                                                         *)
(* A sender encodes an attribute, or a peer puts arbitrary bytes on the   *)
(* wire, and the receiver decodes what is there.  A wire is the sequence  *)
(* <<n>> \o bytes, n being the var-uint length prefix as ReadVarUint      *)
(* returns it; the empty wire has no prefix at all.  Bytes have ByteBits  *)
(* bits (8 in the code).                                                  *)
(***************************************************************************)
EXTENDS Integers, Sequences

CONSTANTS
    ByteBits,  \* bits of a byte: 8 in the code
    MaxWire    \* longest byte run a forged wire carries behind its prefix

VARIABLES
    sent,     \* the height an encoder put on the wire, or NoHeight
    wire,     \* the bytes on the wire
    decoded   \* what DecodeBinary made of them, or NoResult

vars == <<sent, wire, decoded>>

Base == 2^ByteBits
MaxUint32 == Base^4 - 1
NoHeight == -1
NoResult == [status |-> "none", height |-> 0]

(***************************************************************************)
(* io.BinWriter and io.BinReader.                                         *)
(***************************************************************************)
\* WriteVarBytes: the length, then the bytes.
WriteVarBytes(b) == <<Len(b)>> \o b

\* ReadVarBytes(max): a length above max sets the reader's error and
\* yields nil; a short stream sets the error and leaves the missing bytes
\* zero; an empty stream has no prefix, so the length reads as 0.
ReadVarBytes(max, w) ==
    IF w = <<>> THEN [b |-> <<>>, err |-> TRUE]
    ELSE LET n == Head(w)
             rest == Tail(w)
         IN  CASE n > max -> [b |-> <<>>, err |-> TRUE]
               [] Len(rest) < n ->
                    [b |-> rest \o [i \in 1..n - Len(rest) |-> 0], err |-> TRUE]
               [] OTHER -> [b |-> SubSeq(rest, 1, n), err |-> FALSE]

(***************************************************************************)
(* encoding/binary little-endian conversion.                               *)
(***************************************************************************)
\* Mutant of PutUintLE: the bytes most significant first.
RECURSIVE PutUintBE(_, _)
PutUintBE(n, k) ==
    IF k = 0 THEN <<>> ELSE PutUintBE(n \div Base, k - 1) \o <<n % Base>>

RECURSIVE PutUintLE(_, _)
\* The k low bytes of n, least significant first.
PutUintLE(n, k) ==
    IF k = 0 THEN <<>> ELSE <<n % Base>> \o PutUintLE(n \div Base, k - 1)

RECURSIVE UintLE(_)
UintLE(b) == IF b = <<>> THEN 0 ELSE Head(b) + Base * UintLE(Tail(b))

(***************************************************************************)
(* The codec.                                                              *)
(***************************************************************************)
EncodeBinary(height) == WriteVarBytes(PutUintLE(height, 4))

\* LittleEndian.Uint32 of fewer than 4 bytes is an index out of range.
DecodeBinary(w) ==
    LET r == ReadVarBytes(4, w)
    IN  IF Len(r.b) < 4
        THEN [status |-> "panic", height |-> 0]
        ELSE [status |-> IF r.err THEN "error" ELSE "ok",
              height |-> UintLE(SubSeq(r.b, 1, 4))]

(***************************************************************************)
(* Sender, peer and receiver.                                              *)
(***************************************************************************)
\* Wires a peer can forge: no prefix, or a prefix around 4 followed by a
\* run of the lowest and highest byte.
ForgedWires ==
    {<<>>} \cup
    {<<n>> \o bs : n \in 0..5,
                   bs \in UNION {[1..l -> {0, Base - 1}] : l \in 0..MaxWire}}

Send(h) ==
    /\ sent' = h
    /\ wire' = EncodeBinary(h)
    /\ decoded' = NoResult

Forge(w) ==
    /\ sent' = NoHeight
    /\ wire' = w
    /\ decoded' = NoResult

Receive ==
    /\ decoded = NoResult
    /\ decoded' = DecodeBinary(wire)
    /\ UNCHANGED <<sent, wire>>

Init ==
    /\ sent = NoHeight
    /\ wire = <<>>
    /\ decoded = NoResult

Next ==
    \/ \E h \in 0..MaxUint32 : Send(h)
    \/ \E w \in ForgedWires : Forge(w)
    \/ Receive

Spec == Init /\ [][Next]_vars

(***************************************************************************)
(* Properties.                                                             *)
(***************************************************************************)
\* Every height an encoder sends is decoded by the receiver, without
\* error, as the same height (EncodeBinary, then DecodeBinary).
RoundTrip ==
    (sent # NoHeight /\ decoded # NoResult)
        => decoded = [status |-> "ok", height |-> sent]

\* Decoding never panics, whatever the wire carries: malformed input is
\* reported through the reader's error.
DecodeNeverPanics == decoded.status # "panic"
====
