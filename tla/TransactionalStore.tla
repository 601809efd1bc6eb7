------------------------ MODULE TransactionalStore --------------------------
(***************************************************************************)
(* What the server promises of its databases: each one is a set of         *)
(* records; a transaction is published as a whole or not at all, one       *)
(* writer at a time; a record is acknowledged when it is published, and    *)
(* what has been reported as failed never is.                              *)
(***************************************************************************)
CONSTANTS
    Owners,   \* who may have a transaction
    Bases,    \* the databases
    NoBase,   \* none of them
    Records   \* what can be written

VARIABLES
    store,    \* the published records of each database
    txn,      \* the records that each owner has written and not published
    acked,    \* <<record, database>> for each acknowledged record
    aborted   \* records reported as failed or rolled back

storeVars == <<store, txn, acked, aborted>>

NoTxn == [base |-> NoBase, writes |-> {}]

Init ==
    /\ store = [b \in Bases |-> {}]
    /\ txn = [o \in Owners |-> NoTxn]
    /\ acked = {} /\ aborted = {}

Fresh(r) ==
    /\ r \notin aborted
    /\ \A b \in Bases : r \notin store[b]
    /\ \A o \in Owners : r \notin txn[o].writes

Put(o, b, r) ==
    /\ Fresh(r)
    /\ txn[o] = NoTxn \/ txn[o].base = b
    /\ \A p \in Owners \ {o} : txn[p].base # b
    /\ txn' = [txn EXCEPT ![o] = [base |-> b, writes |-> txn[o].writes \union {r}]]
    /\ UNCHANGED <<store, acked, aborted>>

Publish(o) ==
    /\ txn[o] # NoTxn
    /\ store' = [store EXCEPT ![txn[o].base] = @ \union txn[o].writes]
    /\ acked' = acked \union (txn[o].writes \X {txn[o].base})
    /\ txn' = [txn EXCEPT ![o] = NoTxn]
    /\ UNCHANGED aborted

\* The transactions of S end without effect: a rollback, or a failure that
\* hits several of them at once.
Abort(S) ==
    /\ aborted' = aborted \union UNION {txn[o].writes : o \in S}
    /\ txn' = [o \in Owners |-> IF o \in S THEN NoTxn ELSE txn[o]]
    /\ UNCHANGED <<store, acked>>

\* A record is not written; the transaction it was for goes on.
Refuse(r) ==
    /\ Fresh(r)
    /\ aborted' = aborted \union {r}
    /\ UNCHANGED <<store, txn, acked>>

Next ==
    \/ \E S \in SUBSET Owners : Abort(S)
    \/ \E o \in Owners, b \in Bases, r \in Records : Put(o, b, r)
    \/ \E o \in Owners : Publish(o)
    \/ \E r \in Records : Refuse(r)

Spec == Init /\ [][Next]_storeVars
=============================================================================
