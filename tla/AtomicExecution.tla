-------------------------- MODULE AtomicExecution --------------------------
(***************************************************************************)
(* What the interop layer promises about the ledger state an execution    *)
(* writes (spec 3 and 7): the execution works on its own view of the      *)
(* committed state; only an execution whose trigger may write changes the *)
(* view; when it ends, either the whole view becomes the committed state  *)
(* (the transaction is accepted) or none of it does (a fault), and the    *)
(* next execution starts from the committed state.                        *)
(***************************************************************************)
CONSTANTS
    Triggers,  \* the trigger kinds an execution can run with
    Writers    \* the triggers under which an execution may write

VARIABLES
    committed, \* the committed ledger state
    view,      \* the state the running execution reads and writes
    trigger    \* the trigger of the running execution

vars == <<committed, view, trigger>>

Init ==
    /\ view = committed
    /\ trigger \in Triggers

\* The running execution changes its view.
Write ==
    /\ trigger \in Writers
    /\ UNCHANGED <<committed, trigger>>

\* The execution ends accepted: its view becomes the committed state.
Commit ==
    /\ committed' = view
    /\ view' = view
    /\ trigger' \in Triggers

\* The execution ends in a fault: its view is discarded.
Abort ==
    /\ UNCHANGED committed
    /\ view' = committed
    /\ trigger' \in Triggers

Next == Write \/ Commit \/ Abort

Spec == Init /\ [][Next]_vars
====
