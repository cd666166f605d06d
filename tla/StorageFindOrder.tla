--------------------------- MODULE StorageFindOrder ---------------------------
(***************************************************************************)
(* The result loop of storageFind (src/unnamed/part_000): for every entry *)
(* of the committed prefix map, in Go's map order, the key                 *)
(* append(prefix, k...) is added to a MapItem, and the map's elements are  *)
(* then sorted with bytes.Compare.                                        *)
(*                                                                         *)
(* append writes into prefix's own backing array when that array has room *)
(* beyond len(prefix), so the keys it returns can share one buffer: a     *)
(* later append overwrites the bytes of the keys added before it.  The    *)
(* capacity of the popped byte string is the VM's business, so it is a    *)
(* nondeterministic spare room of 0..MaxSpare bytes.  The buffer is buf;  *)
(* a key either shares it (its length into buf) or owns fresh bytes.       *)
(***************************************************************************)
EXTENDS Integers, Sequences, FiniteSets, SequencesExt

CONSTANTS
    Bytes,      \* byte values
    Values,     \* storage item values
    MaxPrefix,  \* longest prefix
    MaxSuffix,  \* longest key suffix under the prefix
    MaxEntries, \* most entries under the prefix
    MaxSpare    \* most spare capacity of the prefix's backing array

VARIABLES
    store,   \* GetStorageItemsWithPrefix: key suffix -> value
    prefix,  \* the popped prefix
    buf,     \* prefix's backing array, up to its capacity
    todo,    \* suffixes the range loop has not visited yet
    elems,   \* the MapItem's elements: key reference and value
    out,     \* the sorted <<key, value>> pairs the iterator yields
    phase    \* "iter", then "done"

vars == <<store, prefix, buf, todo, elems, out, phase>>

KeySuffixes == BoundedSeq(Bytes, MaxSuffix)
Stores ==
    UNION {[S -> Values] : S \in {S \in SUBSET KeySuffixes : Cardinality(S) <= MaxEntries}}

\* The bytes of a key reference in the backing array b.
KeyOf(e, b) == IF e.shared THEN SubSeq(b, 1, e.len) ELSE e.own

(***************************************************************************)
(* bytes.Compare and the sort.Slice comparator.                            *)
(***************************************************************************)
RECURSIVE Compare(_, _)
Compare(a, b) ==
    CASE a = <<>> /\ b = <<>> -> 0
      [] a = <<>>             -> -1
      [] b = <<>>             -> 1
      [] Head(a) < Head(b)    -> -1
      [] Head(a) > Head(b)    -> 1
      [] OTHER                -> Compare(Tail(a), Tail(b))

\* Mutant of Less: the comparison the other way round.
LessReversed(a, b) == Compare(a, b) = 1

Less(a, b) == Compare(a, b) = -1

(***************************************************************************)
(* The loop and the sort.                                                  *)
(***************************************************************************)
\* append(prefix, k...): in place when it fits the capacity.
AppendKey(k) ==
    LET full == prefix \o k
    IN  IF Len(full) <= Len(buf)
        THEN [b |-> full \o SubSeq(buf, Len(full) + 1, Len(buf)),
              ref |-> [shared |-> TRUE, len |-> Len(full), own |-> <<>>]]
        ELSE [b |-> buf, ref |-> [shared |-> FALSE, len |-> 0, own |-> full]]

\* MapItem.Add: an element whose key equals the new one (bytes.Equal, read
\* now) gets the new value; otherwise the element is appended.
Add(es, ref, v, b) ==
    LET same == {i \in 1..Len(es) : KeyOf(es[i].ref, b) = KeyOf(ref, b)}
    IN  IF same = {} THEN Append(es, [ref |-> ref, val |-> v])
        ELSE [es EXCEPT ![Min(same)].val = v]

\* One turn of `for k, v := range siMap`, in any order.
Iterate(k) ==
    /\ phase = "iter" /\ k \in todo
    /\ LET a == AppendKey(k)
       IN  /\ buf' = a.b
           /\ elems' = Add(elems, a.ref, store[k], a.b)
    /\ todo' = todo \ {k}
    /\ UNCHANGED <<store, prefix, out, phase>>

\* sort.Slice with the Less comparator: any order in which no element is
\* less than one before it (sort.Slice is not stable).
Sort ==
    /\ phase = "iter" /\ todo = {}
    /\ LET pairs == [i \in 1..Len(elems) |-> <<KeyOf(elems[i].ref, buf), elems[i].val>>]
           perms == {[i \in 1..Len(pairs) |-> pairs[p[i]]] : p \in SetToSeqs(1..Len(pairs))}
       IN  out' \in {s \in perms :
                        \A i, j \in 1..Len(s) : i < j => ~Less(s[j][1], s[i][1])}
    /\ phase' = "done"
    /\ UNCHANGED <<store, prefix, buf, todo, elems>>

\* A storageFind call: a prefix, the capacity of its array, and what the
\* store holds under it.
Call ==
    /\ store' \in Stores
    /\ prefix' \in BoundedSeq(Bytes, MaxPrefix)
    /\ buf' \in {prefix' \o s : s \in BoundedSeq(Bytes, MaxSpare)}
    /\ todo' = DOMAIN store'
    /\ elems' = <<>>
    /\ out' = <<>>
    /\ phase' = "iter"

Init ==
    /\ store = [s \in {} |-> CHOOSE v \in Values : TRUE]
    /\ prefix = <<>> /\ buf = <<>> /\ todo = {}
    /\ elems = <<>> /\ out = <<>> /\ phase = "done"

Next ==
    \/ phase = "done" /\ Call
    \/ \E k \in KeySuffixes : Iterate(k)
    \/ Sort

Spec == Init /\ [][Next]_vars

(***************************************************************************)
(* Properties.                                                             *)
(***************************************************************************)
\* The reference order of spec 8: byte-lexicographic, a proper prefix first.
LexLess(a, b) ==
    \E i \in 0..Len(a) :
        /\ i <= Len(b) /\ SubSeq(a, 1, i) = SubSeq(b, 1, i)
        /\ \/ i = Len(a) /\ i < Len(b)
           \/ i < Len(a) /\ i < Len(b) /\ a[i + 1] < b[i + 1]

\* Spec 8: the keys storageFind yields are strictly increasing in
\* byte-lexicographic order, whatever the map order and the capacity.
FindSorted ==
    phase = "done" => IsSorted([i \in 1..Len(out) |-> out[i][1]], LexLess)

\* storageFind yields exactly the store's entries under the prefix, each
\* with its full key (spec 4.2, find).
FindReturnsStore ==
    phase = "done" =>
        ToSet(out) = {<<prefix \o k, store[k]>> : k \in DOMAIN store}
====
