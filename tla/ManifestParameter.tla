-------------------------- MODULE ManifestParameter --------------------------
(***************************************************************************)
(* Conversion of a contract manifest Parameter to and from a stack item  *)
(* (src/unnamed/part_002): ToStackItem builds Struct[name, type];         *)
(* FromStackItem checks the item is a 2-field Struct, stores the name     *)
(* into the receiver, then reads the type as an integer, truncates it to  *)
(* int64 and converts it to a ParamType.                                  *)
(*                                                                         *)
(* A stack item is a record: its kind, its fields (for Struct and Array), *)
(* the integer TryInteger reads from it and the string TryBytes reads    *)
(* from it.  An encoder converts a parameter, or a script supplies any    *)
(* item, and a fresh Parameter is filled from it.                         *)
(***************************************************************************)
EXTENDS Integers, Sequences

CONSTANTS
    Names,     \* parameter names, valid UTF-8
    BadUtf8,   \* a byte string that is not valid UTF-8
    Int64Bits  \* bits of Go's int64: 64 in the code

ASSUME BadUtf8 \notin Names /\ "" \in Names

VARIABLES
    source,  \* the parameter an encoder converted, or NoParam
    item,    \* the stack item FromStackItem is given
    param,   \* the receiver *Parameter
    result   \* what FromStackItem returned: "none", "ok" or "error"

vars == <<source, item, param, result>>

\* smartcontract.ParamType values: Any, Boolean .. Signature, Array, Map,
\* InteropInterface, Void.
ParamTypes == {0} \cup 16..23 \cup {32, 34, 48, 255}

\* The integer a non-empty name string reads as: no parameter type.
NotAType == 1000

Atom(t, n, s) == [t |-> t, items |-> <<>>, int |-> n, str |-> s]
ByteString(s) == Atom("ByteString", IF s = "" THEN 0 ELSE NotAType, s)
Integer(n) == Atom("Integer", n, "int")
Compound(t, fields) == [t |-> t, items |-> fields, int |-> 0, str |-> ""]

NoParam == [name |-> BadUtf8, type |-> -1]
ZeroParam == [name |-> "", type |-> 0]
Params == [name : Names, type : ParamTypes]

(***************************************************************************)
(* stackitem conversions.                                                  *)
(***************************************************************************)
\* ToString: TryBytes, then a UTF-8 check.
ToStringOk(i) ==
    /\ i.t \in {"ByteString", "Integer", "Boolean"}
    /\ i.str # BadUtf8

\* The string ToString returns: "" with its error.
ToString(i) == IF ToStringOk(i) THEN i.str ELSE ""

\* TryInteger: byte strings, integers and booleans convert.
TryIntegerOk(i) == i.t \in {"ByteString", "Integer", "Boolean"}

\* big.Int.Int64 of a value outside int64 keeps its low 64 bits.
Int64(n) ==
    LET m == n % 2^Int64Bits
    IN  IF m >= 2^(Int64Bits - 1) THEN m - 2^Int64Bits ELSE m

(***************************************************************************)
(* Parameter.ToStackItem and Parameter.FromStackItem.                      *)
(***************************************************************************)
\* Mutant of ToStackItem: the fields in the other order.
ToStackItemSwapped(p) == Compound("Struct", <<Integer(p.type), ByteString(p.name)>>)

ToStackItem(p) == Compound("Struct", <<ByteString(p.name), Integer(p.type)>>)

\* ConvertToParamType's result for a code that is no parameter type
\* (UnknownType), which FromStackItem stores before returning the error.
UnknownType == -1

\* Mutant of FromStackItem: the Struct check is dropped, so an Array passes.
FromStackItemAnyCompound ==
    /\ result = "none"
    /\ IF item.t \notin {"Struct", "Array"} \/ Len(item.items) # 2
       THEN result' = "error" /\ UNCHANGED param
       ELSE LET typ == item.items[2]
                named == [param EXCEPT !.name = ToString(item.items[1])]
                code == Int64(typ.int)
            IN  CASE ~ToStringOk(item.items[1]) ->
                        param' = named /\ result' = "error"
                  [] ~TryIntegerOk(typ) ->
                        param' = named /\ result' = "error"
                  [] code \in ParamTypes ->
                        param' = [named EXCEPT !.type = code] /\ result' = "ok"
                  [] OTHER ->
                        param' = [named EXCEPT !.type = UnknownType]
                        /\ result' = "error"
    /\ UNCHANGED <<source, item>>

\* `p.Name, err = stackitem.ToString(param[0])` stores the name (the empty
\* string when ToString fails) before err is checked, and the converted
\* type is stored even when the conversion fails.
FromStackItem ==
    /\ result = "none"
    /\ IF item.t # "Struct" \/ Len(item.items) # 2
       THEN result' = "error" /\ UNCHANGED param
       ELSE LET typ == item.items[2]
                named == [param EXCEPT !.name = ToString(item.items[1])]
                code == Int64(typ.int)
            IN  CASE ~ToStringOk(item.items[1]) ->
                        param' = named /\ result' = "error"
                  [] ~TryIntegerOk(typ) ->
                        param' = named /\ result' = "error"
                  [] code \in ParamTypes ->
                        param' = [named EXCEPT !.type = code] /\ result' = "ok"
                  [] OTHER ->
                        param' = [named EXCEPT !.type = UnknownType]
                        /\ result' = "error"
    /\ UNCHANGED <<source, item>>

(***************************************************************************)
(* Encoder and script.                                                     *)
(***************************************************************************)
\* Items a script can supply: the atoms below, and Structs and Arrays of
\* up to two of them.  The integers include the test's -100500 and a
\* parameter type plus 2^Int64Bits.
Atoms ==
    {ByteString(s) : s \in Names \cup {BadUtf8}}
    \cup {Integer(n) : n \in {17, -100500, 2^Int64Bits + 17}}
    \cup {Atom("Boolean", 0, ""), Atom("Null", 0, ""), Atom("Interop", 0, "")}
ScriptItems ==
    Atoms \cup {Compound(t, f) : t \in {"Struct", "Array"},
                                 f \in UNION {[1..l -> Atoms] : l \in 0..2}}

\* An encoder or a script hands FromStackItem a new(Parameter) or one
\* that an earlier call already filled.
Encode(p) ==
    /\ source' = p
    /\ item' = ToStackItem(p)
    /\ param' \in {ZeroParam, param}
    /\ result' = "none"

Supply(i) ==
    /\ source' = NoParam
    /\ item' = i
    /\ param' \in {ZeroParam, param}
    /\ result' = "none"

Init ==
    /\ source = NoParam
    /\ item = Atom("Null", 0, "")
    /\ param = ZeroParam
    /\ result = "none"

Next ==
    \/ \E p \in Params : Encode(p)
    \/ \E i \in ScriptItems : Supply(i)
    \/ FromStackItem

Spec == Init /\ [][Next]_vars

(***************************************************************************)
(* Properties.                                                             *)
(***************************************************************************)
\* A parameter converted by ToStackItem comes back from FromStackItem
\* unchanged and without error (TestParameter_ToStackItemFromStackItem).
RoundTrip ==
    (source # NoParam /\ result # "none") => result = "ok" /\ param = source

\* A FromStackItem that returns an error on a receiver, fresh or reused,
\* leaves it as it was, except after the item has passed the Struct and
\* length checks: then the receiver's name is already overwritten with
\* what ToString returned (the empty string when ToString itself failed,
\* losing the name an earlier decode stored), and its type is untouched
\* or UnknownType.  This is the whole extent of the partial write a caller
\* reusing the Parameter after an error sees.
FailedDecodeWritesOnlyName ==
    [][(result = "none" /\ result' = "error")
         => \/ param' = param
            \/ /\ item.t = "Struct" /\ Len(item.items) = 2
               /\ param'.name = ToString(item.items[1])
               /\ param'.type \in {param.type, UnknownType}]_vars

====
