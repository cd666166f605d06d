---------------------------- MODULE InteropAsset ----------------------------
(***************************************************************************)
(* Asset syscalls of the interop layer and the witness checks they use.   *)
(*                                                                         *)
(* Each execution runs for one transaction (ic.Tx) in a block at height   *)
(* ic.Chain.BlockHeight().  assetCreate stores an asset under the          *)
(* transaction's hash, assetRenew moves its expiration forward; both      *)
(* write through ic.DAO, whose cache is persisted on HALT and dropped on   *)
(* FAULT.  Heights and expirations are uint32 in the code; here they are  *)
(* unsigned integers of Width bits, and BlocksPerYear is scaled with them. *)
(***************************************************************************)
EXTENDS Integers

CONSTANTS
    TxIds,          \* hashes of the transactions that run, one execution each
    PubKeys,        \* encodings of valid, finite public keys
    INFINITY,       \* the encoding of the point at infinity
    BADKEY,         \* bytes that decode neither as a hash nor as a key
    WitnessHashes,  \* 20-byte script hashes
    SigHash,        \* key -> hash of its signature redeem script
    Verifying,      \* tx -> GetScriptHashesForVerifying(tx)
    Width,          \* bit width standing for uint32
    BlocksPerYear,  \* BlocksPerYear, scaled to Width
    NONE

ASSUME SigHash \in [PubKeys \cup {INFINITY} -> WitnessHashes]
ASSUME Verifying \in [TxIds -> SUBSET WitnessHashes]
ASSUME Width \in Nat \ {0} /\ BlocksPerYear \in Nat \ {0}

MaxUint32 == 2^Width - 1
Uint32(n) == n % 2^Width
DefaultAssetLifetime == 1 + BlocksPerYear

\* Trigger codes (trigger.Application is 0x10).
Triggers    == {0, 1, 16, 17}
Application == 16

\* transaction.AssetType values (Currency, Share, Invoice, Token).
Currency == 8
Share    == 144
Invoice  == 152
Token    == 96
MaxAssetPrecision == 8
\* -util.Satoshi(): the one negative amount, meaning "unlimited".
MinusSatoshi == -1

\* An asset state reduced to what the checks and properties tell apart.
Assets  == [owner : PubKeys \cup {INFINITY}, expiration : 0..MaxUint32]
Handles == [id : TxIds, owner : PubKeys \cup {INFINITY},
            expiration : 0..MaxUint32]

VARIABLES
    assets,     \* committed asset states, by id
    memAssets,  \* asset states written through ic.DAO in this execution
    height,     \* ic.Chain.BlockHeight()
    tx,         \* the transaction of the running execution, or NONE
    used,       \* transactions that have run
    trigger,    \* ic.Trigger of the running execution
    handles,    \* asset interop items pushed in this execution
    checked     \* the boolean runtimeCheckWitness pushed last

vars == <<assets, memAssets, height, tx, used, trigger, handles, checked>>

TypeOK ==
    /\ assets \in [TxIds -> Assets \cup {NONE}]
    /\ memAssets \in [TxIds -> Assets \cup {NONE}]
    /\ height \in 0..MaxUint32
    /\ tx \in TxIds \cup {NONE}
    /\ used \subseteq TxIds
    /\ trigger \in Triggers
    /\ handles \subseteq Handles
    /\ checked \in BOOLEAN \cup {NONE}

\* ic.DAO.GetAssetState: the cached state, else the committed one.
DaoAsset(id) == IF memAssets[id] # NONE THEN memAssets[id] ELSE assets[id]

\* The interop item vm.NewInteropItem(asset) pushes: the asset as it was.
Handle(id, a) == [id |-> id, owner |-> a.owner, expiration |-> a.expiration]

MinOf(a, b) == IF a < b THEN a ELSE b

-----------------------------------------------------------------------------
(* Witness checks.                                                         *)

\* checkHashedWitness: the hash is one the ledger requires for ic.tx.
CheckHashedWitness(h) == h \in Verifying[tx]

\* checkKeyedWitness: the hash of the key's signature redeem script.
CheckKeyedWitness(key) == CheckHashedWitness(SigHash[key])

\* runtimeCheckWitness: a 20-byte argument is a hash, anything else must
\* decode as a key (the infinity point decodes), BADKEY is an error.
RuntimeCheckWitness(arg) ==
    /\ tx # NONE
    /\ arg # BADKEY
    /\ checked' = IF arg \in WitnessHashes THEN CheckHashedWitness(arg)
                  ELSE CheckKeyedWitness(arg)
    /\ UNCHANGED <<assets, memAssets, height, tx, used, trigger, handles>>

-----------------------------------------------------------------------------
(* Asset syscalls.                                                         *)

\* The type, amount and precision checks of assetCreate, on the integers
\* popped from the stack: the type and the precision are converted to a
\* byte first.
AssetFieldsOk(rawType, amount, rawPrecision) ==
    LET atype     == rawType % 256
        precision == rawPrecision % 256
    IN /\ atype \in {Currency, Share, Invoice, Token}
       /\ amount # 0
       /\ amount >= MinusSatoshi
       /\ atype = Invoice => amount = MinusSatoshi
       /\ precision <= MaxAssetPrecision
       /\ atype = Share => precision = 0
       /\ amount # MinusSatoshi =>
             amount % 10^(MaxAssetPrecision - precision) = 0

\* Mutant of AssetCreate: the owner's witness is not checked.
AssetCreateUnwitnessed(rawType, amount, rawPrecision, owner, othersOk) ==
    LET asset == [owner |-> owner,
                  expiration |-> Uint32(height + DefaultAssetLifetime)]
    IN /\ tx # NONE
       /\ trigger = Application
       /\ AssetFieldsOk(rawType, amount, rawPrecision)
       /\ owner \in PubKeys
       /\ othersOk
       /\ memAssets' = [memAssets EXCEPT ![tx] = asset]
       /\ handles' = handles \cup {Handle(tx, asset)}
       /\ UNCHANGED <<assets, height, tx, used, trigger, checked>>

\* assetCreate: owner must be a finite key whose signature the transaction
\* carries; name, admin and issuer checks are folded into othersOk.  The
\* asset is stored under ic.Tx.Hash(), with an expiration computed in uint32.
AssetCreate(rawType, amount, rawPrecision, owner, othersOk) ==
    LET asset == [owner |-> owner,
                  expiration |-> Uint32(height + DefaultAssetLifetime)]
    IN /\ tx # NONE
       /\ trigger = Application
       /\ AssetFieldsOk(rawType, amount, rawPrecision)
       /\ owner \in PubKeys
       /\ CheckKeyedWitness(owner)
       /\ othersOk
       /\ memAssets' = [memAssets EXCEPT ![tx] = asset]
       /\ handles' = handles \cup {Handle(tx, asset)}
       /\ UNCHANGED <<assets, height, tx, used, trigger, checked>>

\* bcGetAsset: a handle on the asset as ic.DAO has it now.
BcGetAsset(id) ==
    /\ tx # NONE
    /\ DaoAsset(id) # NONE
    /\ handles' = handles \cup {Handle(id, DaoAsset(id))}
    /\ UNCHANGED <<assets, memAssets, height, tx, used, trigger, checked>>

\* The expiration assetRenew computes from a stored expiration: raised to
\* BlockHeight()+1 (uint32) when below it, then years * BlocksPerYear
\* added in uint64 and clamped to the uint32 maximum.
RenewedExpiration(expiration, rawYears) ==
    LET base == IF expiration < Uint32(height + 1)
                THEN Uint32(height + 1) ELSE expiration
    IN MinOf(base + (rawYears % 256) * BlocksPerYear, MaxUint32)

\* Mutant of AssetRenew: the expiration of the handle is used instead of
\* the one stored.
AssetRenewFromHandle(as, rawYears) ==
    /\ tx # NONE
    /\ trigger = Application
    /\ DaoAsset(as.id) # NONE
    /\ memAssets' = [memAssets EXCEPT ![as.id] =
          [DaoAsset(as.id) EXCEPT !.expiration =
              RenewedExpiration(as.expiration, rawYears)]]
    /\ UNCHANGED <<assets, height, tx, used, trigger, handles, checked>>

\* assetRenew: the asset is read again by the handle's ID, not taken from
\* the handle; years is converted to a byte.
AssetRenew(as, rawYears) ==
    /\ tx # NONE
    /\ trigger = Application
    /\ DaoAsset(as.id) # NONE
    /\ memAssets' = [memAssets EXCEPT ![as.id] =
          [DaoAsset(as.id) EXCEPT !.expiration =
              RenewedExpiration(DaoAsset(as.id).expiration, rawYears)]]
    /\ UNCHANGED <<assets, height, tx, used, trigger, handles, checked>>

-----------------------------------------------------------------------------
(* Executions and blocks, by the ledger.                                   *)

\* A transaction not run before starts an execution.
BeginTx(t) ==
    /\ tx = NONE
    /\ t \notin used
    /\ tx' = t
    /\ used' = used \cup {t}
    /\ trigger' \in Triggers
    /\ UNCHANGED <<assets, memAssets, height, handles, checked>>

EndTx ==
    /\ tx' = NONE
    /\ memAssets' = [id \in TxIds |-> NONE]
    /\ handles' = {}
    /\ checked' = NONE
    /\ UNCHANGED <<height, used, trigger>>

Halt ==
    /\ tx # NONE
    /\ assets' = [id \in TxIds |-> DaoAsset(id)]
    /\ EndTx

Fault ==
    /\ tx # NONE
    /\ UNCHANGED assets
    /\ EndTx

\* The next block; heights are uint32 and stop at the maximum.
NewBlock ==
    /\ tx = NONE
    /\ height < MaxUint32
    /\ height' = height + 1
    /\ UNCHANGED <<assets, memAssets, tx, used, trigger, handles, checked>>

-----------------------------------------------------------------------------

\* Raw stack integers the model feeds the handlers.
RawYears      == {0, 1, 256}
\* The type/amount/precision triples Next feeds assetCreate: accepted ones,
\* one with a precision over a byte, and a rejected one.
CreateSamples ==
    {<<Currency, 200000, 3>>, <<Share, 100000000, 0>>,
     <<Invoice, MinusSatoshi, 259>>,
     <<Currency, 1500, 3>>, <<0, 200000, 3>>, <<Currency, -2, 3>>,
     <<Share, 100000000, 3>>, <<Token, 200000, 9>>}

Init ==
    /\ assets = [id \in TxIds |-> NONE]
    /\ memAssets = [id \in TxIds |-> NONE]
    /\ height = 0
    /\ tx = NONE
    /\ used = {}
    /\ trigger = Application
    /\ handles = {}
    /\ checked = NONE

Next ==
    \/ \E t \in TxIds : BeginTx(t)
    \/ \E arg \in WitnessHashes \cup PubKeys \cup {INFINITY, BADKEY} :
          RuntimeCheckWitness(arg)
    \/ \E f \in CreateSamples, o \in PubKeys \cup {INFINITY}, ok \in BOOLEAN :
          AssetCreate(f[1], f[2], f[3], o, ok)
    \/ \E id \in TxIds : BcGetAsset(id)
    \/ \E as \in handles, y \in RawYears : AssetRenew(as, y)
    \/ Halt
    \/ Fault
    \/ NewBlock

Spec == Init /\ [][Next]_vars

-----------------------------------------------------------------------------
(* Properties.                                                             *)

\* Every asset in the ledger has an owner whose signature the creating
\* transaction carries (assetCreate's keyed witness check, through HALT).
OwnerWitnessed ==
    \A id \in TxIds :
       assets[id] # NONE => SigHash[assets[id].owner] \in Verifying[id]

\* assetRenew never moves an asset's expiration backwards, whatever handle,
\* stale or fresh, it is given: it re-reads the asset by ID.
RenewNeverShortens ==
    [][\A as \in handles, y \in RawYears :
         AssetRenew(as, y) =>
            DaoAsset(as.id)'.expiration >= DaoAsset(as.id).expiration]_vars

=============================================================================
