---------------------------- MODULE SchemaLedger ----------------------------
(***************************************************************************)
(* What the migration runner promises about the file: the ledger and the   *)
(* schema move together, by one whole migration at a time, and nothing is  *)
(* ever taken back; a file that has tables and no ledger is left alone.    *)
(***************************************************************************)
EXTENDS Naturals, Sequences

CONSTANTS
  Migrations,  \* [version, checksum, statements] of every known build
  Foreign      \* what a file that is not ours may hold

VARIABLES
  ledger,   \* applied migrations, in order
  schema    \* statements whose effects are in the file, in order

LedgerInit == ledger = <<>> /\ schema \in Foreign \cup {<<>>}

Advance ==
  /\ ledger = <<>> => schema = <<>>
  /\ \E m \in Migrations :
       /\ m.version = Len(ledger) + 1
       /\ ledger' = Append(ledger, m)
       /\ schema' = schema \o m.statements

LedgerSpec == LedgerInit /\ [][Advance]_<<ledger, schema>>
=============================================================================
