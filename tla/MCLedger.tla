------------------------------ MODULE MCLedger ------------------------------
(* A task of a daemon and one of a CLI command that share the database. *)
EXTENDS Ledger

CONSTANTS daemon, cli, w1, w2

MCProcess == {daemon, cli}
MCWriter  == {w1, w2}
MCHome    == [w \in Writer |-> IF w = w2 THEN cli ELSE daemon]
=============================================================================
