# TLA+ models of the neo-go interop layer

This directory models the interop layer of the node: the syscall handlers that smart-contract bytecode calls to reach ledger state. The TLA+ is checked with TLC. The source is:

- `src/pkg/core/interop_system.go`: storage, contract-destroy, witness, runtime and blockchain query handlers. This is the older revision, with `ic.mem` and `ic.bc`.
- `src/unnamed/part_000`: the `interop_neo.go` handlers of a later revision. They cover storageFind, contract create/migrate, asset create/renew, and account and asset accessors, and they use `ic.DAO`.
- `src/unnamed/part_001`: the transaction `NotValidBefore` attribute codec.
- `src/unnamed/part_002`: the manifest `Parameter` stack-item conversion and its test.
- `src/cli/vm/cli_test.go` and `src/pkg/wallet/wallet_test.go`: tests of other packages.

## Inventory

| Component | State | Operations | Modelled in |
|---|---|---|---|
| Storage context & staged store | committed storage items; the execution's staged overlay (`ic.mem`, or the DAO cache) with staged deletions; StorageContext values `{ScriptHash, ReadOnly}` | storageGetContext, storageGetReadOnlyContext, storageContextAsReadOnly, storageGet, storagePut, storagePutEx, storageDelete, storageFind | `InteropStorage` |
| Contract lifecycle | committed and staged contract states | contractCreate, contractMigrate, contractDestroy, contractGetStorageContext; contractGetScript, contractIsPayable | `InteropStorage`; the two accessors in `InteropQuery` |
| Asset lifecycle | asset states by id (the creating tx hash), block height | assetCreate, assetRenew, bcGetAsset; the eight assetGet* accessors | `InteropAsset`; the accessors (over a genesis asset) in `InteropQuery` |
| Witness verifier | none (reads the tx's script hashes for verifying) | checkHashedWitness, checkKeyedWitness, runtimeCheckWitness | `InteropAsset` |
| Ledger query handlers | the ledger's header and block heights and block transactions, growing underneath | bcGetBlock/Header/Transaction/TransactionHeight/Contract/Height/Account/Asset, the seven header accessors, blockGetTransactionCount/Transactions/Transaction, txGetHash/Attributes/Witnesses, witnessGetVerificationScript, attrGetData/Usage, accountGetBalance/ScriptHash/IsStandard, engineGetScriptContainer | `InteropQuery` |
| Runtime introspection | invocation stack, ic.block, ic.tx, ic.trigger | get executing/calling/entry script hash, notify, log, getTime, platform, trigger | `InteropQuery` |
| Dispatcher and execution lifecycle | one interop context per execution | HALT, after which the ledger persists the overlay; FAULT, which discards it | from the spec, in every module; `AtomicExecution` is its abstract promise |
| NotValidBefore codec | none | EncodeBinary, DecodeBinary | `NotValidBefore` |
| Parameter conversion | the receiver `*Parameter` | ToStackItem, FromStackItem | `ManifestParameter` |

**Interaction.** The interpreter runs one script per execution. Each syscall pops its arguments off the evaluation stack and pushes one result. It reads and writes the two storage layers. Contexts and contract or asset handles travel between calls as interop items on the stack. Any handler error faults the whole execution, and the ledger then drops the overlay. The execution is single-threaded. The hard behaviour is therefore not thread interleaving. It is the order of syscalls within one execution, across contracts that share the overlay, and across executions:

- which layer each handler reads;
- what a staged deletion hides;
- what a destroy removes;
- what survives HALT.

The two source revisions read different layers:

- The `interop_system.go` handlers look in `ic.mem` and fall back to `ic.bc`. A staged deletion counts as a miss, so the lookup reaches the committed item behind it. `checkStorageContext` and `contractDestroy` read `ic.bc` only.
- The `interop_neo.go` handlers use `ic.DAO`. Its cache hides deleted entries.

The model composes both revisions as the spec does. The `ic.DAO` is the same overlay as `ic.mem`. `contractMigrate` calls the `contractDestroy` of `interop_system.go`, because that is the only version under `src/`.

**Correctness.**

- Storage:
  - a const item is never changed or deleted while its contract exists;
  - a read-only context never writes;
  - a Verification run changes nothing;
  - get sees the execution's own writes.
- Contracts:
  - create is idempotent;
  - migrate copies the caller's storage without const flags and removes the caller;
  - destroy removes the contract and its whole namespace.
- Assets:
  - the owner has witnessed the creating transaction;
  - the field rules of spec 4.6 hold;
  - expirations never move backwards and stay within uint32.

## Modules

- `InteropStorage`:
  - Variables:
    - committed `contracts` and `storage`;
    - the overlay `memContracts` and `memStorage`, where `TOMB` marks a staged deletion;
    - `trigger`;
    - `ctxs`, the storage contexts pushed in this execution;
    - `result` and `found`, the values storageGet and storageFind pushed.
  - Actions: there is one action per handler. The executing script hash is chosen from `Hashes`, because an entry script can be any script. `Halt` merges the overlay into the committed state and `Fault` discards it. Both start the next execution with any trigger.
  - Handler errors: all of them (failed checks, arguments of the wrong type or encoding) lead to the same FAULT. The success path of each action has the code's guards, and `Fault` is always enabled.
  - Readers: `LookupItem` is the `ic.mem`-then-`ic.bc` read. `DaoItem` and `DaoContract` are the DAO read, where staged deletions apply.
- `InteropAsset`:
  - Variables:
    - committed `assets` and the DAO cache `memAssets`;
    - `height`;
    - the running `tx` and the set of transactions already `used`;
    - `trigger`;
    - the asset `handles` pushed in this execution;
    - `checked`, the last runtimeCheckWitness result.
  - uint32 arithmetic: heights and expirations use `Width` bits, and `BlocksPerYear` is scaled down with them. `Uint32` is the wrap and `MaxUint32` the clamp.
  - Byte conversions: precision, type and years are converted with `% 256`, as `byte(...)` does.
  - Witnesses: `SigHash` (key to signature-script hash) and `Verifying` (tx to the required hashes) are constants.
- `InteropQuery`:
  - Variables:
    - the ledger: `headerHeight`, `blockHeight` and `blockTxs`;
    - the context: `istack` (the invocation stack), `block`, `container` and `trigger`;
    - `last`, the last handler step (op, popped arguments, pushed item or fault).
  - Items: a stack item is `Item(kind, encoded length, value)`. Hashes are integer labels, where block i has hash i. The length is what `getBlockHashFromElement` and the decoders look at.
  - Actions: there is one action per handler. The arguments are drawn from small sets around each boundary: index -1, MaxUint32 and MaxUint32+1, lengths 5 and 6, tx index 2^Int64Bits. The handles are the ones the ledger can have produced. `AddHeader` and `PersistBlock` grow the ledger between syscalls. `Call` and `Return` move the invocation stack. `NextExecution` starts a context for pool verification (no block), for a transaction of the next block, or for the block's witness (a nil container).
  - Panics: a nil dereference is recorded as the fault `Panic`, which the VM turns into a FAULT.
  - Accessors: `Downcast` is the type assertion each accessor starts with. `TxGetList` is txGetAttributes/txGetWitnesses; `WitnessAttrAccessor`, `AccountGetScriptHash`, `ContractAccessor` and `AssetAccessor` (with `AssetField`) are the one-field accessors. `AccountGetBalance` pops the asset ID only after the account downcast, and `BlockGetTransaction` pops the index only after the block downcast, as the code does. `AccountIsStandard` reports a hash with no contract as standard (`err != nil || ...`).
  - Fixed ledger data: no handler under `src/` writes account balances, asset fields or attribute usages, so they are a genesis state: one asset (`GenesisAssets`), held by the accounts of deployed contracts (`Balances`). `Standard` and `Payable` are constants.
  - Steps: a handler runs only between two instructions (`Ready`, `last = NoStep`); `Proceed` is the interpreter moving on past a syscall that returned, and a fault ends the execution. `Call` and `Return` also happen between instructions.
- `AtomicExecution`: the abstract specification of one execution against a committed state. Writers write only to a private view. Commit persists the whole view; Abort drops it. `InteropStorage` maps its committed state and its DAO view of the overlay onto it. The run `storage_safety` also checks `AtomicSpec == Atomic!Spec` as a temporal property.
- `NotValidBefore`: the codec as operators. `PutUintLE` and `UintLE` are RECURSIVE little-endian conversions, and `ReadVarBytes` and `WriteVarBytes` are the io framing. A sender sends every uint32 height (with `ByteBits = 2`), a peer forges any prefix from 0 to 5 followed by up to `MaxWire` bytes, and the receiver decodes.
- `ManifestParameter`: ToStackItem and FromStackItem. A stack item is a record of its kind, its fields, and the integer and string it converts to. An encoder converts each parameter, a script supplies any atom, or any Struct or Array of up to two atoms, and FromStackItem fills either a fresh receiver or one an earlier call already filled, so the partial write on an error is visible.
- `StorageFindOrder`: storageFind's result loop and sort (part_000 lines 235-245), over byte sequences.
  - State: `store` (the prefix map GetStorageItemsWithPrefix returns), `prefix`, `buf` (the prefix's backing array up to its capacity), `todo` (the keys the range loop has not visited), `elems` (the MapItem's elements; each key either shares `buf` or owns its bytes), and `out`.
  - `Iterate(k)` is one loop turn, in any order. `AppendKey` writes in place when the key fits the capacity. `Add` is MapItem.Add, which compares keys as they read at that moment. `Sort` is sort.Slice with the code's comparator `bytes.Compare(...) == -1`; `Compare` is RECURSIVE. `Call` starts a call with any prefix, spare capacity and store.
  - The capacity of the popped slice belongs to the VM, which is not under `src/`, so it is a nondeterministic 0..MaxSpare bytes.
- `MCInteropStorage`, `MCInteropAsset` and `MCInteropQuery` instantiate the modules. The codec modules and `StorageFindOrder` are checked directly. The `_<Property>.cfg` files are the single-property violation runs.

## Runs

| Run | Expect | What it shows |
|---|---|---|
| storage_safety | pass | `ConstPermanent`: a const item of an existing contract (DAO view) keeps its value unless the same step removes the contract. `ContractStateStable`: create and migrate never replace an existing contract. |
| destroy_keeps_staged_items | violation | Put k, then contractMigrate (or contractDestroy): k survives in the destroyed contract's namespace. This is a **code bug** at interop_system.go:557. |
| asset_safety | pass | `OwnerWitnessed`: every ledger asset's owner key signed its creating transaction. `RenewNeverShortens`: assetRenew never lowers an expiration, even given a stale handle. |
| query_safety | pass | `BlockLookupMatchesSpec`: every bcGetBlock/bcGetHeader step pushes what the reference lookup gives, with headers ahead of blocks and at the index edges. The other handlers run in the same model, so the violation runs below see them. |
| handler_panics | violation | engineGetCallingScriptHash in the entry script panics. So do txGetHash, txGetAttributes and txGetWitnesses on a witness context's nil container and runtimeNotify/runtimeLog of a handle. Spec §4.1 says handlers fail with errors. |
| tx_miss_faults | violation | bcGetTransaction of an unknown 32-byte hash faults. Spec §4.4/§7 say a miss pushes empty. |
| tx_index_wraps | violation | **Code bug**: blockGetTransaction with index 2^64 returns transaction 0, because of the `Int64()` truncation. |
| storage_safety (same run) | pass | `AtomicSpec`: InteropStorage implements AtomicExecution. Committed storage and contracts change only by taking the whole execution view at HALT. |
| nvb_roundtrip | pass | `RoundTrip`: every uint32 height survives encode, then decode. |
| nvb_decode_panics | violation | **Code bug**: DecodeBinary panics on an empty stream or a length prefix other than 4. |
| param_roundtrip | pass | `RoundTrip`: FromStackItem(ToStackItem(p)) = p for every name and parameter type. `FailedDecodeWritesOnlyName`: a FromStackItem that fails, on a fresh or a reused receiver, leaves it untouched unless the item was a 2-field Struct; then the name is already overwritten with what ToString returned (empty when ToString failed), and the type is unchanged or UnknownType. This bounds the partial write of part_002:43. |
| find_order | pass | `FindSorted`: storageFind yields strictly increasing keys (spec §8), for every map iteration order and every prefix capacity. |
| find_key_aliasing | violation | **Code bug**: with spare capacity behind the popped prefix, `append(prefix, k...)` writes every key into one buffer. Keys `<<0>>` and `<<1>>` under the empty prefix come back as a single entry holding the key visited last (`<<0>>` in the trace TLC prints; `<<1>>` in the other map order). |

Every property of a passing run has a mutant in PROJECT.json: a plausible code bug (a dropped const check, an overwriting create, a storageDelete that skips the trigger check (which breaks `AtomicSpec`), markers persisted on HALT, a dropped witness check, renew from the handle, an off-by-one index range, a return past the entry context, big-endian bytes, swapped struct fields, an Array accepted as a Struct, a reversed comparator) that TLC shows breaks it.

**Bounds.**

- Storage: two hashes are enough for a caller and a migration target, or a contract and an entry script with another hash. The model has one key within the limit and one over it, and one value. The const flag, presence and deletion are what the properties distinguish; a second value only multiplies states. The run, with the refinement property, has 365k distinct states and takes about 2.5 minutes.
- Assets:
  - two transactions, two signing keys and the infinity key;
  - 4-bit heights with BlocksPerYear = 4, so that both the renew clamp and the creation wrap occur;
  - renew years 0, 1 and 256, where 256 truncates to 0;
  - a sample of type/amount/precision triples, accepted and rejected.

  The run has 144k states and takes about 2 minutes. It uses `CHECK_DEADLOCK FALSE` because the model stops once every transaction has run and the height is at the maximum.

- Queries: the model has three block indexes (MaxHeight = 2), two transactions per block, an invocation depth of 3 (so a calling script may be missing, and the executing, calling and entry hashes can all differ), two contracts (one deployed and payable, one missing), `ByteBits = 2` and `Int64Bits = 4`. With these widths MaxUint32 = 255 needs 5 signed bytes, as 2^32-1 does at 8 bits, so the 5-byte boundary of `getBlockHashFromElement` keeps its meaning. The run has 1.27M distinct states and takes about 40 seconds.
- storageFind: bytes {0, 1}, prefixes of up to 1 byte, suffixes of up to 2 bytes, up to 3 entries, and a spare capacity of up to 2 bytes. This covers keys that all fit the spare room, keys that do not, and a mix of both; and a key equal to the prefix. The run has 10.5k states and takes about 40 seconds.
- Codecs: every height of the 8-bit model uint32 is sent, and forged wires cover every prefix around 4. Parameters use every parameter type code and an int64 of 16 bits.

**Fairness.** The interpreter may stop calling syscalls at any point, so no fairness is assumed between syscalls, and the handler-level modules state safety only. Within one handler the code does justify fairness. Spec §5 says every handler runs to completion synchronously, and storageFind's loop runs over a finite map. But a Go `range` over a finite map followed by sort.Slice ends whatever the code does, so a termination property would say nothing about this code, and `StorageFindOrder` states safety only. No module assumes fairness.

## Not modelled

- The log text of notify/log. Their Bytes() conversion and the script hash they read are modelled.
- Whether a byte string pushed without a copy (attrGetData, contractGetScript) can be changed from the interpreter side: that is the VM's business. The model pushes values and lists it as a hazard.
- A store failure in accountIsStandard, which the code reports as a standard account: the model's ledger answers every read.
- runtimeSerialize/Deserialize: commented out in interop_system.go; in part_000 (lines 574-582) they only delegate to the VM's serializer, which is not under `src/`.
- storageFind in `InteropStorage` enumerates with the empty prefix. `StorageFindOrder` models the key building and sort. Prefix filtering is the ledger's GetStorageItemsWithPrefix.
- A second storageFind with the same prefix item overwrites the keys of an earlier iterator that shares the buffer. The model has one call at a time.
- The MaxArraySize guards of blockGetTransactions, txGetAttributes and txGetWitnesses: a block or transaction of the model never has that many entries.
- A destroy of a contract staged in the same execution: it is a no-op and leaves no state to check.
- Five disagreements are listed as hazards rather than runs, because a project keeps at most 12 runs:
  - storageGet after storageDelete reads the committed value. Spec §4.2 says so and spec §8 says it reads empty.
  - The asset expiration wraps in uint32 only past about 4.29e9 blocks.
  - A Parameter type of 2^64+0x11 is accepted as StringType.
  - A second assetCreate in one transaction replaces a renewed asset. The spec does not say what repeated creation does.
  - assetCreate accepts precision 259 as 3 (`byte(...)`).
- Store I/O errors: `ic.mem` is an in-memory map.
- Gas.
- Field lengths: they are reduced to one `withinLimits` / `othersOk` flag each.

## Plan

1. Done: `InteropStorage` (storage, contracts) and `InteropAsset` (assets, witnesses).
2. Done: `InteropQuery` (ledger queries, runtime introspection), the `AtomicExecution` refinement, and the `NotValidBefore` and `ManifestParameter` codecs.
3. Done: `StorageFindOrder`, with the byte-order sort checked against the reference order `LexLess`, and the key-aliasing finding.
4. Done: the remaining part_000 accessors in `InteropQuery`, and the partial-write bound `FailedDecodeWritesOnlyName` of `ManifestParameter`.
5. Next: a variant of `InteropStorage` with the two storage findings fixed, refining a stricter `StagedStore` (read-your-writes and a destroy that removes the namespace), to show nothing else diverges.
6. Next: liveness across syscalls. Today no handler waits or retries. A composed model of the ledger persisting blocks (for example, that every header is eventually persisted under weak fairness of PersistBlock) would need the block-processing loop, which is not under `src/`.
