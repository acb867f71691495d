------------------------------ MODULE AuditLog ------------------------------
(***************************************************************************)
(* What the ledger promises its callers: one log per namespace, in which a *)
(* record, an update with its receipt and the migration to an epoch are    *)
(* atomic, whoever makes them and wherever.  It knows no processes, locks  *)
(* or transactions; Ledger implements it.                                  *)
(***************************************************************************)
EXTENDS Naturals, Sequences

CONSTANTS Namespace, Versioned

VARIABLES
  log,      \* the entries of a namespace; a link is the position it points to
  version,  \* the current version of each versioned record
  genesis   \* where the namespace's epoch begins; 0 before it is migrated

vars == <<log, version, genesis>>

Entry == [prev : Nat, op : {"append", "migration_genesis"} \union Versioned, version : Nat]

\* Logs may have been written before, in any shape, but without receipts.
Init ==
  /\ log \in [Namespace -> Seq(Entry)]
  /\ \A n \in Namespace : \A i \in DOMAIN log[n] : log[n][i].op = "append"
  /\ version = [n \in Namespace |-> [k \in Versioned |-> 0]]
  /\ genesis = [n \in Namespace |-> 0]

\* The log of n grows by one entry, which links to the newest one.
Extend(n, o, v) ==
  log' = [log EXCEPT ![n] = Append(@, [prev |-> Len(@), op |-> o, version |-> v])]

Record(n) ==
  /\ Extend(n, "append", 0)
  /\ UNCHANGED <<version, genesis>>

\* A version and its receipt appear together, and no version is skipped.
Update(n, k) ==
  /\ Extend(n, k, version[n][k] + 1)
  /\ version' = [version EXCEPT ![n][k] = @ + 1]
  /\ UNCHANGED genesis

\* The epoch begins with its own entry, and begins once.
Migrate(n) ==
  /\ genesis[n] = 0
  /\ genesis' = [genesis EXCEPT ![n] = Len(log[n]) + 1]
  /\ Extend(n, "migration_genesis", 0)
  /\ UNCHANGED version

Next ==
  \E n \in Namespace :
    \/ Record(n)
    \/ \E k \in Versioned : Update(n, k)
    \/ Migrate(n)

Spec == Init /\ [][Next]_vars
=============================================================================
