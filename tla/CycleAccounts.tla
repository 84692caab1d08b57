----------------------------- MODULE CycleAccounts -----------------------------
(***************************************************************************)
(* What the runtime promises of a pipeline cycle, with no queue and no     *)
(* dead letters: every cycle has one account, each step moves at most one  *)
(* account along one edge, and a cycle is retried at most MaxAttempts - 1  *)
(* times however often it is replayed by hand.                             *)
(***************************************************************************)
EXTENDS Naturals

CONSTANTS
  Cycles,       \* cycle ids
  MaxAttempts   \* attempts of a cycle, the original included

VARIABLES
  account,  \* where each cycle stands
  attempt   \* the number of its current attempt, 0 before the first

Move(c, from, to) ==
  /\ account[c] = from
  /\ account' = [account EXCEPT ![c] = to]

Counted(c, n) == attempt' = [attempt EXCEPT ![c] = n]

Accept(c)   == Move(c, "unknown", "waiting") /\ Counted(c, 1)
Start(c)    == Move(c, "waiting", "running") /\ UNCHANGED attempt
Withdraw(c) == Move(c, "waiting", "dropped") /\ UNCHANGED attempt
Complete(c) == Move(c, "running", "completed") /\ UNCHANGED attempt
Fail(c)     == Move(c, "running", "failed") /\ UNCHANGED attempt
Bury(c)     == Move(c, "failed", "dead") /\ UNCHANGED attempt
GiveUp(c)   == Move(c, "failed", "dropped") /\ UNCHANGED attempt
Revive(c)   == Move(c, "dead", "waiting") /\ UNCHANGED attempt
Lose(c)     == Move(c, "dead", "dropped") /\ UNCHANGED attempt

Again(c) ==
  /\ attempt[c] < MaxAttempts
  /\ Move(c, "failed", "waiting")
  /\ Counted(c, attempt[c] + 1)

AccountsInit ==
  /\ account = [c \in Cycles |-> "unknown"]
  /\ attempt = [c \in Cycles |-> 0]

AccountsNext ==
  \E c \in Cycles :
    \/ Accept(c) \/ Start(c) \/ Withdraw(c) \/ Complete(c) \/ Fail(c)
    \/ Again(c) \/ Bury(c) \/ GiveUp(c) \/ Revive(c) \/ Lose(c)

AccountsSpec == AccountsInit /\ [][AccountsNext]_<<account, attempt>>
=============================================================================
