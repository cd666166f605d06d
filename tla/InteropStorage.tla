--------------------------- MODULE InteropStorage ---------------------------
(***************************************************************************)
(* Storage and contract-lifecycle syscalls of the interop layer.           *)
(*                                                                         *)
(* One execution of a script runs a sequence of syscalls against two      *)
(* layers: the execution's staged overlay (ic.mem in interop_system.go,    *)
(* the cache of ic.DAO in interop_neo.go) and the committed ledger state   *)
(* (ic.bc, the persistent store under the DAO).  Each handler reads the    *)
(* layer its code reads: the interop_system.go handlers look in ic.mem and *)
(* fall back to ic.bc, the DAO handlers see the overlay with its deletions *)
(* applied.  An execution ends either by HALT, after which the ledger      *)
(* merges the overlay into the committed state, or by FAULT (any handler   *)
(* error), which discards the overlay.                                    *)
(***************************************************************************)
EXTENDS Naturals, FiniteSets

CONSTANTS
    Hashes,   \* script hashes: contract namespaces and executing scripts
    Keys,     \* storage keys of at most MaxStorageKeyLen bytes
    BigKeys,  \* storage keys longer than MaxStorageKeyLen
    Values,   \* storage values
    NONE,     \* nothing stored under a key
    TOMB,     \* a deletion staged in the overlay
    EMPTY     \* the empty byte array a handler pushes on a miss

ASSUME Keys \cap BigKeys = {}

AllKeys == Keys \cup BigKeys

\* Trigger codes as interop_system.go compares them (0x00, 0x01, 0x10, 0x11).
Verification  == 0
VerificationR == 1
Application   == 16
ApplicationR  == 17
Triggers == {Verification, VerificationR, Application, ApplicationR}

\* StorageItem, ContractState (reduced to its HasStorage property) and
\* StorageContext.
Items           == [value : Values, isConst : BOOLEAN]
ContractStates  == [hasStorage : BOOLEAN]
StorageContexts == [scriptHash : Hashes, readOnly : BOOLEAN]
\* The fields of a contract spec popped by createContractStateFromVM:
\* its script (identified by its hash), its storage property and whether
\* every size-limited field is within its limit.
ContractSpecs   == [script : Hashes, hasStorage : BOOLEAN, withinLimits : BOOLEAN]

VARIABLES
    contracts,     \* committed contract states
    storage,       \* committed storage items
    memContracts,  \* contract states staged by this execution
    memStorage,    \* storage items staged by this execution
    trigger,       \* ic.trigger of the running execution
    ctxs,          \* storage contexts pushed so far in this execution
    result,        \* the value the last storageGet pushed
    found          \* the key/value pairs the last storageFind iterates

vars == <<contracts, storage, memContracts, memStorage, trigger, ctxs,
          result, found>>

TypeOK ==
    /\ contracts \in [Hashes -> ContractStates \cup {NONE}]
    /\ storage \in [Hashes \X AllKeys -> Items \cup {NONE}]
    /\ memContracts \in [Hashes -> ContractStates \cup {NONE, TOMB}]
    /\ memStorage \in [Hashes \X AllKeys -> Items \cup {NONE, TOMB}]
    /\ trigger \in Triggers
    /\ ctxs \subseteq StorageContexts
    /\ result \in Values \cup {EMPTY, NONE}
    /\ found \subseteq Keys \X Values

-----------------------------------------------------------------------------
(* Reading the two layers.                                                 *)

\* A read through the DAO: a staged deletion hides the committed entry.
Layered(staged, committed) ==
    IF staged = TOMB THEN NONE ELSE IF staged = NONE THEN committed ELSE staged

DaoContract(h) == Layered(memContracts[h], contracts[h])
DaoItem(h, k)  == Layered(memStorage[h, k], storage[h, k])

\* getStorageItemFromStore(ic.mem, ...) and, when it finds nothing,
\* ic.bc.GetStorageItem(...): a staged deletion is a miss in ic.mem.
LookupItem(h, k) ==
    IF memStorage[h, k] \in Items THEN memStorage[h, k] ELSE storage[h, k]

\* checkStorageContext: the contract is looked up in ic.bc.
CheckStorageContext(stc) ==
    /\ contracts[stc.scriptHash] # NONE
    /\ contracts[stc.scriptHash].hasStorage

\* The trigger check of storagePut and storageDelete.
WriteTrigger == trigger \in {Application, ApplicationR}

\* The overlay every execution starts with.
NoStagedContracts == [h \in Hashes |-> NONE]
NoStagedStorage   == [x \in Hashes \X AllKeys |-> NONE]

-----------------------------------------------------------------------------
(* Storage syscalls.                                                       *)

\* storageGetContext / storageGetReadOnlyContext: a context for the
\* executing script h.
StorageGetContext(h, readOnly) ==
    /\ ctxs' = ctxs \cup {[scriptHash |-> h, readOnly |-> readOnly]}
    /\ UNCHANGED <<contracts, storage, memContracts, memStorage, trigger,
                   result, found>>

\* storageContextAsReadOnly: the same context if it is already read-only,
\* a new read-only one for the same script otherwise.
StorageContextAsReadOnly(stc) ==
    /\ ctxs' = ctxs \cup {[stc EXCEPT !.readOnly = TRUE]}
    /\ UNCHANGED <<contracts, storage, memContracts, memStorage, trigger,
                   result, found>>

\* storageGet: the staged item, else the committed one, else empty.
StorageGet(stc, k) ==
    LET si == LookupItem(stc.scriptHash, k) IN
    /\ CheckStorageContext(stc)
    /\ result' = IF si \in Items THEN si.value ELSE EMPTY
    /\ UNCHANGED <<contracts, storage, memContracts, memStorage, trigger,
                   ctxs, found>>

\* Mutant of StoragePut: the IsConst check of putWithContextAndFlags left
\* out.
StoragePutIgnoringConst(stc, k, v, isConst) ==
    /\ WriteTrigger
    /\ k \notin BigKeys
    /\ ~stc.readOnly
    /\ CheckStorageContext(stc)
    /\ memStorage' = [memStorage EXCEPT ![stc.scriptHash, k] =
                         [value |-> v, isConst |-> isConst]]
    /\ UNCHANGED <<contracts, storage, memContracts, trigger, ctxs,
                   result, found>>

\* putWithContextAndFlags, reached from storagePut (isConst = FALSE) and
\* storagePutEx (isConst = (flag = 1)).
StoragePut(stc, k, v, isConst) ==
    /\ WriteTrigger
    /\ k \notin BigKeys
    /\ ~stc.readOnly
    /\ CheckStorageContext(stc)
    /\ LET si == LookupItem(stc.scriptHash, k) IN
         si \in Items => ~si.isConst
    /\ memStorage' = [memStorage EXCEPT ![stc.scriptHash, k] =
                         [value |-> v, isConst |-> isConst]]
    /\ UNCHANGED <<contracts, storage, memContracts, trigger, ctxs,
                   result, found>>

\* Mutant of StorageDelete: the trigger check left out.
StorageDeleteAnyTrigger(stc, k) ==
    /\ ~stc.readOnly
    /\ CheckStorageContext(stc)
    /\ LET si == LookupItem(stc.scriptHash, k) IN
         si \in Items => ~si.isConst
    /\ memStorage' = [memStorage EXCEPT ![stc.scriptHash, k] = TOMB]
    /\ UNCHANGED <<contracts, storage, memContracts, trigger, ctxs,
                   result, found>>

\* storageDelete: no key length check; stages a deletion.
StorageDelete(stc, k) ==
    /\ WriteTrigger
    /\ ~stc.readOnly
    /\ CheckStorageContext(stc)
    /\ LET si == LookupItem(stc.scriptHash, k) IN
         si \in Items => ~si.isConst
    /\ memStorage' = [memStorage EXCEPT ![stc.scriptHash, k] = TOMB]
    /\ UNCHANGED <<contracts, storage, memContracts, trigger, ctxs,
                   result, found>>

\* storageFind with the empty prefix: the committed items only
\* (GetStorageItemsWithPrefix reads the persistent store).
StorageFind(stc) ==
    /\ CheckStorageContext(stc)
    /\ found' = {<<k, storage[stc.scriptHash, k].value>> :
                    k \in {k2 \in Keys : storage[stc.scriptHash, k2] \in Items}}
    /\ UNCHANGED <<contracts, storage, memContracts, memStorage, trigger,
                   ctxs, result>>

-----------------------------------------------------------------------------
(* Contract syscalls.                                                      *)

\* The checks of createContractStateFromVM: Application trigger and every
\* field within its size limit.
ContractSpecOk(spec) ==
    /\ trigger = Application
    /\ spec.withinLimits

NewContract(spec) == [hasStorage |-> spec.hasStorage]

\* Mutant of ContractCreate: the new state is put even when the contract
\* exists.
ContractCreateOverwriting(spec) ==
    /\ ContractSpecOk(spec)
    /\ memContracts' = [memContracts EXCEPT ![spec.script] = NewContract(spec)]
    /\ UNCHANGED <<contracts, storage, memStorage, trigger, ctxs,
                   result, found>>

\* contractCreate: a contract the DAO already has is returned as it is.
ContractCreate(spec) ==
    /\ ContractSpecOk(spec)
    /\ memContracts' =
         IF DaoContract(spec.script) = NONE
         THEN [memContracts EXCEPT ![spec.script] = NewContract(spec)]
         ELSE memContracts
    /\ UNCHANGED <<contracts, storage, memStorage, trigger, ctxs,
                   result, found>>

\* contractDestroy of the executing script h, on the staged contracts:
\* the contract is looked up in ic.bc, the deletion goes to ic.mem.
DestroyContracts(h, mc) ==
    IF contracts[h] = NONE THEN mc ELSE [mc EXCEPT ![h] = TOMB]

\* contractDestroy on the staged storage: the items ic.bc.GetStorageItems
\* lists for h are deleted in ic.mem.
DestroyStorage(h, ms) ==
    IF contracts[h] # NONE /\ contracts[h].hasStorage
    THEN [x \in DOMAIN ms |->
            IF x[1] = h /\ storage[x] \in Items THEN TOMB ELSE ms[x]]
    ELSE ms

ContractDestroy(h) ==
    /\ trigger = Application
    /\ memContracts' = DestroyContracts(h, memContracts)
    /\ memStorage' = DestroyStorage(h, memStorage)
    /\ UNCHANGED <<contracts, storage, trigger, ctxs, result, found>>

\* The copy step of contractMigrate: every item ic.DAO.GetStorageItems
\* lists for the executing script h, put under the new hash with IsConst
\* cleared.
MigrateStorage(h, new, ms) ==
    [x \in DOMAIN ms |->
        IF x[1] = new /\ DaoItem(h, x[2]) \in Items
        THEN [DaoItem(h, x[2]) EXCEPT !.isConst = FALSE]
        ELSE ms[x]]

\* contractMigrate from the executing script h: create as contractCreate
\* does, copy the storage only when the contract is new, then run
\* contractDestroy for h in every case.
ContractMigrate(spec, h) ==
    LET new   == spec.script
        fresh == DaoContract(new) = NONE
        mc    == IF fresh
                 THEN [memContracts EXCEPT ![new] = NewContract(spec)]
                 ELSE memContracts
        ms    == IF fresh /\ spec.hasStorage
                 THEN MigrateStorage(h, new, memStorage)
                 ELSE memStorage
    IN /\ ContractSpecOk(spec)
       /\ memContracts' = DestroyContracts(h, mc)
       /\ memStorage' = DestroyStorage(h, ms)
       /\ UNCHANGED <<contracts, storage, trigger, ctxs, result, found>>

\* contractGetStorageContext: only for a contract staged in ic.mem.
ContractGetStorageContext(h) ==
    /\ memContracts[h] \in ContractStates
    /\ ctxs' = ctxs \cup {[scriptHash |-> h, readOnly |-> FALSE]}
    /\ UNCHANGED <<contracts, storage, memContracts, memStorage, trigger,
                   result, found>>

-----------------------------------------------------------------------------
(* End of an execution and start of the next one, by the ledger.           *)

\* A fresh interop context with an empty overlay and some trigger.
NextExecution ==
    /\ memContracts' = NoStagedContracts
    /\ memStorage' = NoStagedStorage
    /\ trigger' \in Triggers
    /\ ctxs' = {}
    /\ result' = NONE
    /\ found' = {}

\* Mutant of Halt: staged entries, deletion markers included, are copied
\* into the committed state as they are.
HaltCopyingMarkers ==
    /\ contracts' = [h \in Hashes |->
                       IF memContracts[h] = NONE THEN contracts[h] ELSE memContracts[h]]
    /\ storage' = [x \in Hashes \X AllKeys |->
                     IF memStorage[x] = NONE THEN storage[x] ELSE memStorage[x]]
    /\ NextExecution

\* HALT: the overlay is merged into the committed state.
Halt ==
    /\ contracts' = [h \in Hashes |-> DaoContract(h)]
    /\ storage' = [x \in Hashes \X AllKeys |-> DaoItem(x[1], x[2])]
    /\ NextExecution

\* FAULT: a handler returned an error (a failed check above, or an
\* argument of the wrong type or encoding); the overlay is discarded.
Fault ==
    /\ UNCHANGED <<contracts, storage>>
    /\ NextExecution

-----------------------------------------------------------------------------

Init ==
    /\ contracts = [h \in Hashes |-> NONE]
    /\ storage = NoStagedStorage
    /\ memContracts = NoStagedContracts
    /\ memStorage = NoStagedStorage
    /\ trigger \in Triggers
    /\ ctxs = {}
    /\ result = NONE
    /\ found = {}

Next ==
    \/ \E h \in Hashes, ro \in BOOLEAN : StorageGetContext(h, ro)
    \/ \E stc \in ctxs :
          \/ StorageContextAsReadOnly(stc)
          \/ StorageFind(stc)
          \/ \E k \in AllKeys :
                \/ StorageGet(stc, k)
                \/ StorageDelete(stc, k)
                \/ \E v \in Values, isConst \in BOOLEAN :
                      StoragePut(stc, k, v, isConst)
    \/ \E spec \in ContractSpecs :
          \/ ContractCreate(spec)
          \/ \E h \in Hashes : ContractMigrate(spec, h)
    \/ \E h \in Hashes :
          \/ ContractDestroy(h)
          \/ ContractGetStorageContext(h)
    \/ Halt
    \/ Fault

Spec == Init /\ [][Next]_vars

-----------------------------------------------------------------------------
(* Properties.                                                             *)

\* A const item of an existing contract, as the DAO sees it, keeps its
\* value and flag for the rest of the execution and across HALT, unless the
\* same step removes the contract (contractDestroy, or the destroy at the
\* end of contractMigrate).  Covers the IsConst checks of storagePut,
\* storagePutEx and storageDelete, which look in ic.mem and then ic.bc.
ConstPermanent ==
    [][~Fault =>
        \A h \in Hashes, k \in AllKeys :
           (/\ DaoContract(h) # NONE
            /\ DaoItem(h, k) \in Items
            /\ DaoItem(h, k).isConst)
             => \/ DaoItem(h, k)' = DaoItem(h, k)
                \/ DaoContract(h)' = NONE]_vars

\* contractCreate and contractMigrate never replace a contract state that
\* already exists: an existing contract only ever disappears (destroy).
ContractStateStable ==
    [][~Fault =>
        \A h \in Hashes :
           DaoContract(h) # NONE => DaoContract(h)' \in {DaoContract(h), NONE}]_vars

\* Spec 4.5: destroying a contract that declared storage removes every
\* storage item of its namespace.
DestroyRemovesStorage ==
    [][~Fault =>
        \A h \in Hashes :
           (/\ DaoContract(h) # NONE
            /\ DaoContract(h).hasStorage
            /\ DaoContract(h)' = NONE)
             => \A k \in AllKeys : DaoItem(h, k)' = NONE]_vars

\* The refinement mapping: the committed contracts and storage are the
\* committed state, what the DAO sees through the overlay is the view.
CommittedState == <<contracts, storage>>
ExecutionView ==
    <<[h \in Hashes |-> DaoContract(h)],
      [x \in Hashes \X AllKeys |-> DaoItem(x[1], x[2])]>>

Atomic == INSTANCE AtomicExecution
            WITH committed <- CommittedState,
                 view <- ExecutionView,
                 Writers <- {Application, ApplicationR}

\* The storage and contract syscalls implement atomic executions: a syscall
\* changes only the execution's view, and only under a writing trigger;
\* HALT commits exactly the view (deletions applied, markers not kept);
\* FAULT discards it; every execution starts from the committed state.
AtomicSpec == Atomic!Spec

=============================================================================
