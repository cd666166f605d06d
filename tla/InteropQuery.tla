---------------------------- MODULE InteropQuery ----------------------------
(***************************************************************************)
(* The ledger query and engine introspection handlers of                  *)
(* src/pkg/core/interop_system.go and src/unnamed/part_000: block,        *)
(* header, transaction, contract, account and asset lookups, the          *)
(* accessors of the handles they push (header, block, transaction,       *)
(* witness, attribute, account, contract, asset), the script container,   *)
(* the executing/calling/entry script hashes and the runtime time.  They *)
(* read the ledger (the Blockchainer behind ic.bc), which keeps           *)
(* persisting headers and blocks while scripts run, and they wrap what    *)
(* they find as interop handles on the evaluation stack.                  *)
(*                                                                         *)
(* A stack item is a tagged variant Item(kind, encoded length, value).    *)
(* Hashes are integer labels: the block of index i has hash i, ZeroHash  *)
(* is util.Uint256{} and no block has it.  A handler pops its arguments   *)
(* from the items a script can push and the handles it can hold,          *)
(* and records what it popped and what it pushed (or the fault it raised) *)
(* in last; the interpreter then proceeds to its next instruction, or     *)
(* the execution ends on a fault.                                          *)
(***************************************************************************)
EXTENDS Integers, Sequences, Functions

CONSTANTS
    MaxHeight,  \* highest block index the ledger reaches (bound)
    MaxTxs,     \* most transactions of the model in one block (bound)
    TxIds,      \* transaction hashes, integer labels
    Scripts,    \* contract script hashes, integer labels
    Deployed,   \* the contracts the ledger holds
    MaxDepth,   \* invocation stack depth (bound)
    ByteBits,   \* bits of a byte: 8 in the code
    Int64Bits,  \* bits of Go's int64: 64 in the code
    Standard,   \* deployed contracts whose script vm.IsStandardContract accepts
    Payable     \* deployed contracts with the payable property

ASSUME TxIds \cap (-1..MaxHeight + 1) = {} /\ 0 \notin TxIds
ASSUME Deployed \subseteq Scripts /\ Standard \cup Payable \subseteq Deployed

VARIABLES
    headerHeight, \* index of the last stored header
    blockHeight,  \* index of the last persisted block (BlockHeight())
    blockTxs,     \* blockTxs[i]: the transactions of block i, in order
    istack,       \* invocation stack of script hashes, top first
    block,        \* ic.block: index of the block being verified, or NoBlock
    container,    \* ic.tx: the script container, or NoTx
    trigger,      \* ic.trigger: the trigger type of the execution
    last          \* the last handler step: op, popped args, pushed item

ledger == <<headerHeight, blockHeight, blockTxs>>
context == <<istack, block, container, trigger>>
vars == <<ledger, context, last>>

MaxUint32 == 2^(4 * ByteBits) - 1

Indexes == 0..MaxHeight
ZeroHash == -1
NoBlock == -1
NoTx == 0

Item(t, len, v) == [t |-> t, len |-> len, v |-> v]
EMPTY == Item("bytes", 0, 0)
IntItem(n) == Item("int", 0, n)
Fault(kind) == Item(kind, 0, 0)
FaultKinds == {"DecodeError", "InvalidBlockIndex", "WrongHandleType",
               "InvalidTxIndex", "NotFound", "Panic"}
IsFault(r) == r.t \in FaultKinds
HandleKinds == {"block", "header", "tx", "contract", "array", "attrs",
                "witnesses", "attr", "witness", "account", "asset"}
BoolItem(b) == Item("bool", 0, IF b THEN 1 ELSE 0)
NOTHING == Item("none", 0, 0)  \* a handler that pushes nothing

\* trigger.Type values: Verification and Application.
TriggerTypes == {0, 16}

\* The integer the interpreter reads from a byte string of length len
\* (little-endian two's complement) can be n.
Fits(len, n) ==
    IF len = 0 THEN n = 0
    ELSE -(2^(ByteBits * len - 1)) <= n /\ n < 2^(ByteBits * len - 1)

\* Arguments a script can push for a block or header lookup: short
\* integers around the chain and the uint32 boundary, 32-byte hashes of
\* every block, of none and the zero hash, and a string of neither length.
IndexValues == {-1, MaxUint32, MaxUint32 + 1} \cup 0..MaxHeight + 1
BlockElements ==
    {e \in {Item("bytes", l, n) : l \in 0..5, n \in IndexValues} : Fits(e.len, e.v)}
    \cup {Item("bytes", 32, h) : h \in -1..MaxHeight + 1}
    \cup {Item("bytes", 6, 0)}
TxElements == {Item("bytes", 32, t) : t \in TxIds} \cup {Item("bytes", 6, 0)}
ContractElements == {Item("bytes", 20, s) : s \in Scripts} \cup {Item("bytes", 6, 0)}

\* Integers a script can pass as a transaction index, around both bounds of
\* a block's transaction list and around the int64 range.
TxIndexArgs == {-1, 0, 1, MaxTxs, 2^Int64Bits, 2^Int64Bits + 1}

(***************************************************************************)
(* The ledger, consumed through Blockchainer.                              *)
(***************************************************************************)
GetHeaderHash(i) == IF i <= headerHeight THEN i ELSE ZeroHash

GetBlock(h) == IF h \in 0..blockHeight THEN Item("block", 0, h) ELSE EMPTY

GetHeader(h) == IF h \in 0..headerHeight THEN Item("header", 0, h) ELSE EMPTY

TxPersisted(t) == \E i \in 0..blockHeight : t \in Range(blockTxs[i])

TxHeight(t) == CHOOSE i \in 0..blockHeight : t \in Range(blockTxs[i])

Timestamp(i) == i

PrevHash(i) == IF i = 0 THEN ZeroHash ELSE i - 1

\* The assets the ledger holds: one, registered at genesis, whose ID is
\* the least label.
GenesisAssets == {CHOOSE t \in TxIds : \A x \in TxIds : t <= x}

(***************************************************************************)
(* Handlers.                                                               *)
(***************************************************************************)
\* Mutant: the index range check excludes MaxUint32 itself.
BlockHashFromElementOffByOne(e) ==
    IF e.len <= 5
    THEN IF e.v < 0 \/ e.v >= MaxUint32
         THEN Fault("InvalidBlockIndex")
         ELSE Item("bytes", 32, GetHeaderHash(e.v))
    ELSE IF e.len = 32 THEN Item("bytes", 32, e.v) ELSE Fault("DecodeError")

\* The hash getBlockHashFromElement returns, or its error: an element of
\* at most 5 bytes is a block index, anything else must decode as a hash.
BlockHashFromElement(e) ==
    IF e.len <= 5
    THEN IF e.v < 0 \/ e.v > MaxUint32
         THEN Fault("InvalidBlockIndex")
         ELSE Item("bytes", 32, GetHeaderHash(e.v))
    ELSE IF e.len = 32 THEN Item("bytes", 32, e.v) ELSE Fault("DecodeError")

\* bcGetBlock and bcGetHeader: a miss pushes an empty byte string.
BcLookup(op, e) ==
    LET h == BlockHashFromElement(e)
    IN  IF IsFault(h) THEN h
        ELSE IF op = "bcGetBlock" THEN GetBlock(h.v) ELSE GetHeader(h.v)

BcGetContractResult(e) ==
    IF e.len # 20 THEN Fault("DecodeError")
    ELSE IF e.v \in Deployed THEN Item("contract", 0, e.v) ELSE EMPTY

\* getTransactionAndHeight: a hash that does not decode, or a transaction
\* the ledger does not have, is an error.
GetTransactionAndHeight(e) ==
    IF e.len # 32 THEN Fault("DecodeError")
    ELSE IF ~TxPersisted(e.v) THEN Fault("NotFound")
    ELSE Item("tx", 0, e.v)

\* The last step pushed r after popping args.
PushItem(op, args, r) == last' = [op |-> op, args |-> args, out |-> r]

\* The handles a script can hold: what the lookups, blockGetTransactions
\* and engineGetScriptContainer push.  The ledger only grows, so every
\* handle pushed earlier in the execution is among them.
Handles ==
    {Item("block", 0, i) : i \in 0..blockHeight}
    \cup {Item("array", 0, i) : i \in 0..blockHeight}
    \cup {Item("header", 0, i) : i \in 0..headerHeight}
    \cup {Item("contract", 0, s) : s \in Deployed}
    \cup {Item("tx", 0, t) : t \in {x \in TxIds : TxPersisted(x)} \cup {container}}
    \cup {Item(k, 0, t) : k \in {"attrs", "witnesses", "attr", "witness"},
                         t \in {x \in TxIds : TxPersisted(x)} \cup ({container} \ {NoTx})}
    \cup {Item("account", 0, s) : s \in Scripts}
    \cup {Item("asset", 0, a) : a \in GenesisAssets}

NoStep == [op |-> "none", args |-> <<>>, out |-> EMPTY]

Running == ~IsFault(last.out)

\* The interpreter is between two instructions of a running execution.
Ready == last = NoStep

\* The interpreter goes on past a syscall that returned: what it pushed
\* belongs to the script from now on.  A fault ends the execution instead.
Proceed ==
    /\ Running /\ ~Ready
    /\ last' = NoStep
    /\ UNCHANGED <<ledger, context>>

BcGetBlockOrHeader(op) ==
    /\ Ready
    /\ \E e \in BlockElements : PushItem(op, <<e>>, BcLookup(op, e))
    /\ UNCHANGED <<ledger, context>>

BcGetContract ==
    /\ Ready
    /\ \E e \in ContractElements :
          PushItem("bcGetContract", <<e>>, BcGetContractResult(e))
    /\ UNCHANGED <<ledger, context>>

BcGetHeight ==
    /\ Ready
    /\ PushItem("bcGetHeight", <<>>, IntItem(blockHeight))
    /\ UNCHANGED <<ledger, context>>

BcGetTransaction ==
    /\ Ready
    /\ \E e \in TxElements :
          PushItem("bcGetTransaction", <<e>>, GetTransactionAndHeight(e))
    /\ UNCHANGED <<ledger, context>>

BcGetTransactionHeight ==
    /\ Ready
    /\ \E e \in TxElements :
          LET r == GetTransactionAndHeight(e)
          IN  PushItem("bcGetTransactionHeight", <<e>>,
                       IF IsFault(r) THEN r ELSE IntItem(TxHeight(r.v)))
    /\ UNCHANGED <<ledger, context>>

\* popHeaderFromVM: a header accessor takes a header or a whole block.
\* The accessors of src/unnamed/part_000 pop the header the same way.
HeaderMoreOps == {"headerGetVersion", "headerGetMerkleRoot",
                  "headerGetNextConsensus"}
HeaderOps == {"headerGetIndex", "headerGetHash", "headerGetPrevHash",
              "headerGetTimestamp"} \cup HeaderMoreOps

\* Version 0, the Merkle root (a 32-byte label of the block) and the
\* next consensus address (a 20-byte label), BytesBE.
HeaderMoreField(op, i) ==
    CASE op = "headerGetVersion"       -> IntItem(0)
      [] op = "headerGetMerkleRoot"    -> Item("bytes", 32, i)
      [] op = "headerGetNextConsensus" -> Item("bytes", 20, i)

HeaderField(op, i) ==
    CASE op = "headerGetIndex"     -> IntItem(i)
      [] op = "headerGetHash"      -> Item("bytes", 32, i)
      [] op = "headerGetPrevHash"  -> Item("bytes", 32, PrevHash(i))
      [] op = "headerGetTimestamp" -> IntItem(Timestamp(i))
      [] op \in HeaderMoreOps      -> HeaderMoreField(op, i)

HeaderAccessor(op) ==
    /\ Ready
    /\ \E h \in Handles \cup {EMPTY} :
          PushItem(op, <<h>>, IF h.t \in {"header", "block"}
                              THEN HeaderField(op, h.v)
                              ELSE Fault("WrongHandleType"))
    /\ UNCHANGED <<ledger, context>>

BlockGetTransactionCount ==
    /\ Ready
    /\ \E h \in Handles \cup {EMPTY} :
          PushItem("blockGetTransactionCount", <<h>>,
                   IF h.t = "block" THEN IntItem(Len(blockTxs[h.v]))
                   ELSE Fault("WrongHandleType"))
    /\ UNCHANGED <<ledger, context>>

BlockGetTransactions ==
    /\ Ready
    /\ \E h \in Handles \cup {EMPTY} :
          PushItem("blockGetTransactions", <<h>>,
                   IF h.t = "block" THEN Item("array", 0, h.v)
                   ELSE Fault("WrongHandleType"))
    /\ UNCHANGED <<ledger, context>>

\* big.Int.Int64 of a value outside int64 keeps its low 64 bits.
Int64(n) ==
    LET m == n % 2^Int64Bits
    IN  IF m >= 2^(Int64Bits - 1) THEN m - 2^Int64Bits ELSE m

\* The index is popped only once the block handle has passed its check.
BlockGetTransaction ==
    /\ Ready
    /\ \E h \in Handles \cup {EMPTY} :
          \/ h.t # "block" /\ PushItem("blockGetTransaction", <<h>>, Fault("WrongHandleType"))
          \/ h.t = "block" /\
             \E n \in TxIndexArgs :
                LET txs == blockTxs[h.v]
                    index == Int64(n)
                IN  PushItem("blockGetTransaction", <<h, IntItem(n)>>,
                        IF index < 0 \/ index >= Len(txs) THEN Fault("InvalidTxIndex")
                        ELSE Item("tx", 0, txs[index + 1]))
    /\ UNCHANGED <<ledger, context>>

\* A nil script container is still a transaction handle; hashing it
\* dereferences nil.
TxGetHash ==
    /\ Ready
    /\ \E h \in Handles \cup {EMPTY} :
          PushItem("txGetHash", <<h>>,
                   IF h.t # "tx" THEN Fault("WrongHandleType")
                   ELSE IF h.v = NoTx THEN Fault("Panic")
                   ELSE Item("bytes", 32, h.v))
    /\ UNCHANGED <<ledger, context>>

(***************************************************************************)
(* The transaction, witness, attribute, account and contract accessors of *)
(* src/unnamed/part_000.                                                   *)
(***************************************************************************)
\* The asset accessors assetGetAdmin .. assetGetPrecision.
AssetOps == {"assetGetAdmin", "assetGetAmount", "assetGetAssetID",
             "assetGetAssetType", "assetGetAvailable", "assetGetIssuer",
             "assetGetOwner", "assetGetPrecision"}

\* The genesis asset's fields: a Token of 10 units, none issued yet, with
\* precision 8.
AssetType == 96
AssetAmount == 10
AssetPrecision == 8

\* The type assertion an accessor starts with: a value of another kind
\* than the one it downcasts to is an error, else the field is pushed.
Downcast(h, kind, field) == IF h.t # kind THEN Fault("WrongHandleType") ELSE field

\* txGetAttributes and txGetWitnesses: the array of interop items over the
\* transaction's attributes or witnesses.  A nil script container passes
\* the type assertion and len(tx.Attributes) dereferences nil.  Every
\* transaction of the model carries one attribute and one witness, within
\* vm.MaxArraySize.
TxListOps == {"txGetAttributes", "txGetWitnesses"}

TxGetList(op) ==
    /\ Ready
    /\ \E h \in Handles \cup {EMPTY} :
          PushItem(op, <<h>>,
                   IF h.t # "tx" THEN Fault("WrongHandleType")
                   ELSE IF h.v = NoTx THEN Fault("Panic")
                   ELSE Item(IF op = "txGetAttributes" THEN "attrs" ELSE "witnesses", 0, h.v))
    /\ UNCHANGED <<ledger, context>>

\* witnessGetVerificationScript (which pushes a copy of the script),
\* attrGetData and attrGetUsage.  A field is a label of the object it
\* belongs to.
WitnessAttrOps == {"witnessGetVerificationScript", "attrGetData", "attrGetUsage"}

AttrUsage == 32  \* transaction.AttributeUsage of the model's attributes

WitnessAttrAccessor(op) ==
    /\ Ready
    /\ \E h \in Handles \cup {EMPTY} :
          PushItem(op, <<h>>,
                   CASE op = "witnessGetVerificationScript" ->
                            Downcast(h, "witness", Item("bytes", 1, h.v))
                     [] op = "attrGetData"  -> Downcast(h, "attr", Item("bytes", 1, h.v))
                     [] op = "attrGetUsage" -> Downcast(h, "attr", IntItem(AttrUsage)))
    /\ UNCHANGED <<ledger, context>>

AccountGetScriptHash ==
    /\ Ready
    /\ \E h \in Handles \cup {EMPTY} :
          PushItem("accountGetScriptHash", <<h>>,
                   Downcast(h, "account", Item("bytes", 20, h.v)))
    /\ UNCHANGED <<ledger, context>>

ContractAccessor(op) ==
    /\ Ready
    /\ \E h \in Handles \cup {EMPTY} :
          PushItem(op, <<h>>,
                   Downcast(h, "contract", IF op = "contractGetScript"
                                           THEN Item("bytes", 1, h.v)
                                           ELSE BoolItem(h.v \in Payable)))
    /\ UNCHANGED <<ledger, context>>

\* The field each assetGet* accessor pushes.
AssetField(op, v) ==
    CASE op \in {"assetGetAdmin", "assetGetIssuer"} -> Item("bytes", 20, v)
      [] op = "assetGetAmount"    -> IntItem(AssetAmount)
      [] op = "assetGetAssetID"   -> Item("bytes", 32, v)
      [] op = "assetGetAssetType" -> IntItem(AssetType)
      [] op = "assetGetAvailable" -> IntItem(0)
      [] op = "assetGetOwner"     -> Item("bytes", 33, v)
      [] op = "assetGetPrecision" -> IntItem(AssetPrecision)

AssetAccessor(op) ==
    /\ Ready
    /\ \E h \in Handles \cup {EMPTY} :
          PushItem(op, <<h>>, Downcast(h, "asset", AssetField(op, h.v)))
    /\ UNCHANGED <<ledger, context>>

\* bcGetAccount: GetAccountStateOrNew yields an account for every
\* well-formed hash, a new one when the ledger has none.
BcGetAccount ==
    /\ Ready
    /\ \E e \in ContractElements :
          PushItem("bcGetAccount", <<e>>, IF e.len # 20 THEN Fault("DecodeError")
                                          ELSE Item("account", 0, e.v))
    /\ UNCHANGED <<ledger, context>>

\* The balances the ledger holds: the account of a deployed contract holds
\* 1 of the genesis asset; a new account holds nothing.
Balances(a) ==
    IF a \in Deployed THEN [id \in GenesisAssets |-> 1] ELSE [id \in {} |-> 0]

\* bcGetAsset: a 32-byte asset ID; an asset the ledger lacks is an error.
BcGetAsset ==
    /\ Ready
    /\ \E e \in TxElements :
          PushItem("bcGetAsset", <<e>>, IF e.len # 32 THEN Fault("DecodeError")
                                        ELSE IF e.v \in GenesisAssets THEN Item("asset", 0, e.v)
                                        ELSE Fault("NotFound"))
    /\ UNCHANGED <<ledger, context>>

\* accountGetBalance pops the account, then the 32-byte asset id; an asset
\* the account does not hold has balance 0.
AccountGetBalance ==
    /\ Ready
    /\ \E h \in Handles \cup {EMPTY} :
          \/ h.t # "account" /\ PushItem("accountGetBalance", <<h>>, Fault("WrongHandleType"))
          \/ h.t = "account" /\
             \E e \in TxElements :
                PushItem("accountGetBalance", <<h, e>>,
                         IF e.len # 32 THEN Fault("DecodeError")
                         ELSE IF e.v \in DOMAIN Balances(h.v) THEN IntItem(Balances(h.v)[e.v])
                         ELSE IntItem(0))
    /\ UNCHANGED <<ledger, context>>

\* accountIsStandard: `err != nil || vm.IsStandardContract(contract.Script)`,
\* so a hash with no contract state counts as standard.
AccountIsStandard ==
    /\ Ready
    /\ \E e \in ContractElements :
          PushItem("accountIsStandard", <<e>>,
                   IF e.len # 20 THEN Fault("DecodeError")
                   ELSE BoolItem(e.v \notin Deployed \/ e.v \in Standard))
    /\ UNCHANGED <<ledger, context>>

EngineGetScriptContainer ==
    /\ Ready
    /\ PushItem("engineGetScriptContainer", <<>>, Item("tx", 0, container))
    /\ UNCHANGED <<ledger, context>>

\* getContextScriptHash(v, n): Peek(n) of a shorter invocation stack is
\* nil, and taking its value panics.
ContextScriptHash(n) ==
    IF n < Len(istack) THEN Item("bytes", 20, istack[n + 1]) ELSE Fault("Panic")

ScriptHashOps == {"engineGetExecutingScriptHash", "engineGetCallingScriptHash",
                  "engineGetEntryScriptHash"}

PushContextScriptHash(op) ==
    /\ Ready
    /\ LET n == CASE op = "engineGetExecutingScriptHash" -> 0
                  [] op = "engineGetCallingScriptHash"   -> 1
                  [] op = "engineGetEntryScriptHash"     -> Len(istack) - 1
       IN  PushItem(op, <<>>, ContextScriptHash(n))
    /\ UNCHANGED <<ledger, context>>

\* runtimeGetTime: the block being verified, else the header of the
\* current block.
RuntimeGetTime ==
    /\ Ready
    /\ LET h == IF block = NoBlock THEN GetHeader(blockHeight) ELSE Item("header", 0, block)
       IN  PushItem("runtimeGetTime", <<>>, IntItem(Timestamp(h.v)))
    /\ UNCHANGED <<ledger, context>>

RuntimePlatform ==
    /\ Ready
    /\ PushItem("runtimePlatform", <<>>, Item("bytes", 3, 0))  \* "NEO"
    /\ UNCHANGED <<ledger, context>>

RuntimeGetTrigger ==
    /\ Ready
    /\ PushItem("runtimeGetTrigger", <<>>, IntItem(trigger))
    /\ UNCHANGED <<ledger, context>>

\* runtimeNotify and runtimeLog only log: the popped element's Bytes()
\* panics for an item with no byte form (an interop handle), and the
\* executing script hash is read with getContextScriptHash(v, 0).
RuntimeNotifyOrLog(op) ==
    /\ Ready
    /\ \E e \in Handles \cup {EMPTY, IntItem(1)} :
          PushItem(op, <<e>>,
                   IF e.t \in HandleKinds THEN Fault("Panic")
                   ELSE IF IsFault(ContextScriptHash(0)) THEN ContextScriptHash(0)
                   ELSE NOTHING)
    /\ UNCHANGED <<ledger, context>>

(***************************************************************************)
(* The interpreter calls into and returns from contracts; the ledger      *)
(* stores headers ahead of blocks and persists blocks, concurrently with  *)
(* the scripts that query it.                                              *)
(***************************************************************************)
Call ==
    /\ Ready
    /\ Len(istack) < MaxDepth
    /\ \E s \in Scripts : istack' = <<s>> \o istack
    /\ UNCHANGED <<ledger, block, container, trigger, last>>

\* Mutant: a return that may pop the entry context too.
ReturnPastEntry ==
    /\ Ready
    /\ Len(istack) > 0
    /\ istack' = Tail(istack)
    /\ UNCHANGED <<ledger, block, container, trigger, last>>

Return ==
    /\ Ready
    /\ Len(istack) > 1
    /\ istack' = Tail(istack)
    /\ UNCHANGED <<ledger, block, container, trigger, last>>

\* Transaction lists a new block can carry: no transaction twice, none
\* that an earlier block carries.
Carried == UNION {Range(blockTxs[i]) : i \in 0..headerHeight}
NewTxLists ==
    UNION {{f \in [1..n -> TxIds \ Carried] : IsInjective(f)} : n \in 1..MaxTxs}

AddHeader ==
    /\ headerHeight < MaxHeight
    /\ \E txs \in NewTxLists :
          blockTxs' = [blockTxs EXCEPT ![headerHeight + 1] = txs]
    /\ headerHeight' = headerHeight + 1
    /\ UNCHANGED <<blockHeight, context, last>>

PersistBlock ==
    /\ blockHeight < headerHeight
    /\ blockHeight' = blockHeight + 1
    /\ UNCHANGED <<headerHeight, blockTxs, context, last>>

\* A new execution: a transaction verified or invoked against the current
\* ledger (no block), a transaction of the next block being persisted, or
\* the witness of that block (no transaction).
NewContext ==
    /\ \E s \in Scripts : istack' = <<s>>
    /\ \/ block' = NoBlock /\ container' \in TxIds
       \/ /\ blockHeight < headerHeight
          /\ block' = blockHeight + 1
          /\ container' \in Range(blockTxs[blockHeight + 1]) \cup {NoTx}
    /\ trigger' \in TriggerTypes
    /\ last' = NoStep

NextExecution ==
    /\ NewContext
    /\ UNCHANGED ledger

Init ==
    /\ headerHeight = 0
    /\ blockHeight = 0
    /\ blockTxs = [i \in Indexes |-> <<>>]
    /\ istack \in {<<s>> : s \in Scripts}
    /\ block = NoBlock
    /\ container \in TxIds
    /\ trigger \in TriggerTypes
    /\ last = NoStep

Next ==
    \/ \E op \in {"bcGetBlock", "bcGetHeader"} : BcGetBlockOrHeader(op)
    \/ BcGetContract
    \/ BcGetHeight
    \/ BcGetTransaction
    \/ BcGetTransactionHeight
    \/ \E op \in HeaderOps : HeaderAccessor(op)
    \/ BlockGetTransactionCount
    \/ BlockGetTransactions
    \/ BlockGetTransaction
    \/ TxGetHash
    \/ \E op \in TxListOps : TxGetList(op)
    \/ \E op \in WitnessAttrOps : WitnessAttrAccessor(op)
    \/ AccountGetScriptHash
    \/ \E op \in {"contractGetScript", "contractIsPayable"} : ContractAccessor(op)
    \/ \E op \in AssetOps : AssetAccessor(op)
    \/ BcGetAccount
    \/ BcGetAsset
    \/ AccountGetBalance
    \/ AccountIsStandard
    \/ EngineGetScriptContainer
    \/ \E op \in ScriptHashOps : PushContextScriptHash(op)
    \/ RuntimeGetTime
    \/ RuntimePlatform
    \/ RuntimeGetTrigger
    \/ \E op \in {"runtimeNotify", "runtimeLog"} : RuntimeNotifyOrLog(op)
    \/ Proceed
    \/ Call
    \/ Return
    \/ AddHeader
    \/ PersistBlock
    \/ NextExecution

Spec == Init /\ [][Next]_vars

(***************************************************************************)
(* Properties.                                                             *)
(***************************************************************************)
Items == [t: HandleKinds \cup FaultKinds \cup {"bytes", "int", "bool", "none"},
          len: {0, 1, 2, 3, 4, 5, 6, 20, 32, 33},
          v: Int]

TypeOK ==
    /\ headerHeight \in Indexes
    /\ blockHeight \in 0..headerHeight
    /\ blockTxs \in [Indexes -> Seq(TxIds)]
    /\ istack \in Seq(Scripts) /\ Len(istack) \in 1..MaxDepth
    /\ block \in Indexes \cup {NoBlock}
    /\ container \in TxIds \cup {NoTx}
    /\ trigger \in TriggerTypes
    /\ last.out \in Items

\* The reference lookup of spec 4.4 and 8: an encoding of at most 5 bytes
\* is a block index, valid when it lies in 0..MaxUint32; 32 bytes are a
\* hash; any other length does not decode.  Index i and the hash the ledger
\* gives for index i name the same block, so both find it exactly when the
\* ledger holds it, and a miss is an empty result, not a fault.
SpecLookup(op, e) ==
    LET top == IF op = "bcGetBlock" THEN blockHeight ELSE headerHeight
        kind == IF op = "bcGetBlock" THEN "block" ELSE "header"
    IN  CASE e.len \notin 0..5 \cup {32}          -> Fault("DecodeError")
          [] e.len <= 5 /\ e.v \notin 0..MaxUint32 -> Fault("InvalidBlockIndex")
          [] e.v \in 0..top                       -> Item(kind, 0, e.v)
          [] OTHER                                -> EMPTY

\* Every bcGetBlock and bcGetHeader step (getBlockHashFromElement with the
\* ledger's GetHeaderHash, GetBlock and GetHeader) pushes what the reference
\* lookup gives, at every ledger height and at the uint32 and 5-byte edges.
BlockLookupMatchesSpec ==
    [][(last' # last /\ last'.op \in {"bcGetBlock", "bcGetHeader"})
         => last'.out = SpecLookup(last'.op, last'.args[1])]_vars

\* Spec 4.1: a handler fails with an error rather than crashing.  Here no
\* handler step (getContextScriptHash, txGetHash, txGetAttributes,
\* txGetWitnesses) dereferences nil, and
\* none (runtimeNotify, runtimeLog) panics on the item it pops.
NeverPanics == last.out.t # "Panic"

\* Spec 4.4 and 7: a lookup of a well-formed hash that misses pushes an
\* empty result; bcGetTransaction and bcGetTransactionHeight do not fault on
\* a transaction the ledger lacks.
TxMissIsSoft ==
    [][(last' # last /\ last'.op \in {"bcGetTransaction", "bcGetTransactionHeight"}
        /\ last'.args[1].len = 32)
         => ~IsFault(last'.out)]_vars

\* blockGetTransaction pushes the transaction at exactly the index the
\* script popped, which lies within the block's transactions.
TxIndexExact ==
    [][(last' # last /\ last'.op = "blockGetTransaction" /\ last'.out.t = "tx")
         => LET txs == blockTxs[last'.args[1].v]
                n == last'.args[2].v
            IN  n \in 0..Len(txs) - 1 /\ last'.out.v = txs[n + 1]]_vars
====
