------------------------- MODULE WorkLifecycleProofs ------------------------
(***************************************************************************)
(* Proofs about WorkLifecycle, for any number of workers, items, kinds,    *)
(* renewals, crashes and lost answers: the durable rows and the values the *)
(* workers build from them stay of the shapes the constructors accept,     *)
(* grants are exclusive and counted, nothing is taken before its time, and *)
(* the lifecycle implements WorkGrants.                                    *)
(*                                                                         *)
(* A timestamp is taken when a command is built and judged when it is      *)
(* executed, so the invariant has to say how old an authority can be:      *)
(* AuthorityInv relates what a worker holds, what it has sent and the row  *)
(* both are about.                                                         *)
(*                                                                         *)
(* The last sections are about the functions beside it: evaluate_retry,    *)
(* for every policy, attempt, digest and hint, and the error texts, for    *)
(* every message and limit.                                                *)
(***************************************************************************)
EXTENDS WorkLifecycle, RetrySweep, ErrorText, FiniteSetTheorems, WellFoundedInduction, TLAPS

\* The inductive invariant: types, rows and commands their constructors accept,
\* exclusive and counted grants, and authorities no newer than the rows.
LifecycleInv == TypeOK /\ RecordsValid /\ CommandsValid /\ ExclusiveAndCounted

-----------------------------------------------------------------------------
(* Constants. *)

LEMMA Constants ==
  ASSUME NEW i \in Items
  PROVE  /\ Maximum(i) \in Nat \ {0}
         /\ Lease(i) \in Nat \ {0}
         /\ \A n \in 1 .. Maximum(i) : Delay(i, n) \in Nat \ {0}
BY LifecycleAssumption, DelayAssumption, PolicyAssumption
   DEF KindPolicyOK, Maximum, Lease

\* The fields of a row, with what the record constructor says of its status.
LEMMA RowFields ==
  ASSUME NEW r \in Rows, RecordStateOK(r)
  PROVE  /\ r.status \in Statuses /\ r.attempt_count \in Nat /\ r.revision \in Nat
         /\ r.updated_at \in Nat
         /\ r.status = "pending" =>
              /\ r.available_at \in Nat /\ r.lease_owner = None /\ r.attempt_count = 0
              /\ r.claim_token = None /\ r.lease_expires_at = None /\ r.claimed_at = None
              /\ r.completed_at = None /\ r.dead_lettered_at = None /\ r.failure = None
         /\ r.status = "running" =>
              /\ r.available_at = None /\ r.lease_owner \in Workers /\ r.claim_token \in Nat
              /\ r.lease_expires_at \in Nat /\ r.claimed_at \in Nat
              /\ r.completed_at = None /\ r.dead_lettered_at = None /\ r.failure = None
              /\ r.attempt_count >= 1 /\ r.revision >= 1
              /\ r.lease_expires_at > r.updated_at /\ r.claimed_at <= r.updated_at
         /\ r.status = "retrying" =>
              /\ r.available_at \in Nat /\ r.lease_owner = None
              /\ r.claim_token = None /\ r.lease_expires_at = None
              /\ r.completed_at = None /\ r.dead_lettered_at = None
<1>1. /\ r.status \in Statuses /\ r.attempt_count \in Nat /\ r.revision \in Nat
      /\ r.updated_at \in Nat /\ r.available_at \in Nat \cup {None}
      /\ r.lease_owner \in Workers \cup {None} /\ r.claim_token \in Nat \cup {None}
      /\ r.lease_expires_at \in Nat \cup {None} /\ r.claimed_at \in Nat \cup {None}
  BY DEF Rows
<1>2. LeaseWhole(r)
  BY DEF RecordStateOK
<1>3. CASE r.status = "pending"
  <2>1. PendingOK(r)
    BY <1>3 DEF RecordStateOK
  <2> QED BY <1>1, <1>2, <1>3, <2>1 DEF PendingOK, Shape, ShapeOf, Present, LeaseWhole
<1>4. CASE r.status = "running"
  <2>1. RunningOK(r)
    BY <1>4 DEF RecordStateOK
  <2>2. /\ r.available_at = None /\ r.lease_owner # None /\ r.claimed_at # None
        /\ r.completed_at = None /\ r.dead_lettered_at = None /\ r.failure = None
    BY <2>1 DEF RunningOK, Shape, ShapeOf, Present
  <2>3. r.claim_token # None /\ r.lease_expires_at # None
    BY <1>2, <2>2 DEF LeaseWhole, Present
  <2>4. r.attempt_count >= 1 /\ r.revision >= 1 /\ r.lease_expires_at > r.updated_at
    BY <2>1 DEF RunningOK, Later
  <2>5. r.claimed_at <= r.updated_at
    BY <1>1, <2>1, <2>2, NoneAssumption DEF RunningOK, Later
  <2> QED BY <1>1, <1>4, <2>2, <2>3, <2>4, <2>5
<1>5. CASE r.status = "retrying"
  <2>1. RetryingOK(r)
    BY <1>5 DEF RecordStateOK
  <2> QED BY <1>1, <1>2, <1>5, <2>1 DEF RetryingOK, Shape, ShapeOf, Present, LeaseWhole
<1> QED BY <1>1, <1>3, <1>4, <1>5

-----------------------------------------------------------------------------
(* What a transaction makes of a row. *)

LEMMA StampedRow ==
  ASSUME NEW r \in Rows, NEW at \in Nat
  PROVE  Stamped(r, at) \in Rows
<1>1. r.revision + 1 \in Nat
  BY DEF Rows
<1> QED BY <1>1 DEF Stamped, Rows

LEMMA GrantedRow ==
  ASSUME NEW i \in Items, NEW w \in Workers, NEW at \in Nat, row[i] \in Rows,
         RecordStateOK(row[i]), row[i].status \in {"pending", "running", "retrying"}
  PROVE  LET r == Granted(i, w, at) IN
         /\ r \in Rows /\ RecordStateOK(r)
         /\ r.status = "running" /\ r.updated_at = at /\ r.lease_owner = w
         /\ r.revision = row[i].revision + 1
         /\ r.attempt_count = row[i].attempt_count + 1
         /\ r.claim_token = r.attempt_count
         /\ r.claimed_at = at /\ r.lease_expires_at = at + Lease(i)
<1> DEFINE r == Granted(i, w, at)
<1>1. /\ r.status = "running" /\ r.updated_at = at /\ r.lease_owner = w
      /\ r.revision = row[i].revision + 1
      /\ r.attempt_count = row[i].attempt_count + 1
      /\ r.claim_token = row[i].attempt_count + 1
      /\ r.claimed_at = at /\ r.lease_expires_at = at + Lease(i)
      /\ r.available_at = None /\ r.failure = None
      /\ r.completed_at = row[i].completed_at /\ r.dead_lettered_at = row[i].dead_lettered_at
  BY DEF Granted, Stamped, Rows
<1>2. /\ row[i].completed_at = None /\ row[i].dead_lettered_at = None
      /\ row[i].attempt_count \in Nat /\ row[i].revision \in Nat
  BY RowFields
<1>3. Lease(i) \in Nat \ {0}
  BY Constants
<1>4. r \in Rows
  <2> DEFINE q == Stamped(row[i], at)
  <2>1. q \in Rows /\ q.attempt_count = row[i].attempt_count
    BY StampedRow DEF Stamped, Rows
  <2>2. /\ "running" \in Statuses /\ at + Lease(i) \in Nat
        /\ row[i].attempt_count + 1 \in Nat
    BY <1>2, <1>3 DEF Statuses
  <2> DEFINE p == [q EXCEPT !.status = "running", !.available_at = None, !.failure = None,
                            !.attempt_count = row[i].attempt_count + 1]
  <2>3. r = [p EXCEPT !.claimed_at = at, !.lease_owner = w,
                      !.claim_token = row[i].attempt_count + 1,
                      !.lease_expires_at = at + Lease(i)]
    BY <2>1 DEF Granted, Rows
  <2> HIDE DEF q, r
  <2>4. p \in Rows
    BY <2>1, <2>2 DEF Rows
  <2> HIDE DEF p
  <2> QED BY <2>2, <2>3, <2>4 DEF Rows
<1> HIDE DEF r
<1>5. w # None
  BY LifecycleAssumption
<1>6. RunningOK(r)
  BY <1>1, <1>2, <1>3, <1>5, NoneAssumption DEF RunningOK, Shape, ShapeOf, Present, Later
<1>7. LeaseWhole(r)
  BY <1>1, <1>2, <1>3, <1>5, NoneAssumption DEF LeaseWhole, Present
<1>8. RecordStateOK(r)
  BY <1>1, <1>6, <1>7 DEF RecordStateOK
<1> QED BY <1>1, <1>4, <1>8 DEF r

LEMMA RenewedRow ==
  ASSUME NEW i \in Items, NEW at \in Nat, row[i] \in Rows, RecordStateOK(row[i]),
         row[i].status = "running", row[i].updated_at <= at
  PROVE  LET r == Renewed(i, at) IN
         /\ r \in Rows /\ RecordStateOK(r)
         /\ r.status = "running" /\ r.updated_at = at
         /\ r.revision = row[i].revision + 1
         /\ r.attempt_count = row[i].attempt_count
         /\ r.claim_token = row[i].claim_token /\ r.lease_owner = row[i].lease_owner
         /\ r.lease_expires_at = at + Lease(i)
         /\ r.available_at = None /\ r.failure = None
<1> DEFINE r == Renewed(i, at)
<1>1. /\ r.status = row[i].status /\ r.updated_at = at /\ r.lease_owner = row[i].lease_owner
      /\ r.revision = row[i].revision + 1
      /\ r.attempt_count = row[i].attempt_count
      /\ r.claim_token = row[i].claim_token
      /\ r.claimed_at = row[i].claimed_at /\ r.lease_expires_at = at + Lease(i)
      /\ r.available_at = row[i].available_at /\ r.failure = row[i].failure
      /\ r.completed_at = row[i].completed_at /\ r.dead_lettered_at = row[i].dead_lettered_at
  BY DEF Renewed, Stamped, Rows
<1>2. /\ row[i].completed_at = None /\ row[i].dead_lettered_at = None
      /\ row[i].available_at = None /\ row[i].failure = None
      /\ row[i].attempt_count \in Nat /\ row[i].revision \in Nat
      /\ row[i].lease_owner \in Workers /\ row[i].claim_token \in Nat
      /\ row[i].claimed_at \in Nat /\ row[i].claimed_at <= row[i].updated_at
      /\ row[i].updated_at \in Nat
      /\ row[i].attempt_count >= 1 /\ row[i].revision >= 1
  BY RowFields
<1>3. Lease(i) \in Nat \ {0}
  BY Constants
<1>4. r \in Rows
  <2> DEFINE q == Stamped(row[i], at)
  <2>1. q \in Rows
    BY StampedRow
  <2>2. at + Lease(i) \in Nat
    BY <1>3
  <2>3. r = [q EXCEPT !.lease_expires_at = at + Lease(i)]
    BY DEF Renewed
  <2> HIDE DEF q, r
  <2> QED BY <2>1, <2>2, <2>3 DEF Rows
<1> HIDE DEF r
<1>5. row[i].lease_owner # None
  BY <1>2, LifecycleAssumption
<1>6. RunningOK(r)
  <2>1. ~Later(r.claimed_at, r.updated_at) /\ Later(r.lease_expires_at, r.updated_at)
    BY <1>1, <1>2, <1>3, NoneAssumption DEF Later
  <2> QED BY <1>1, <1>2, <1>3, <1>5, <2>1, NoneAssumption DEF RunningOK, Shape, ShapeOf, Present
<1>7. LeaseWhole(r)
  BY <1>1, <1>2, <1>3, <1>5, NoneAssumption DEF LeaseWhole, Present
<1>8. RecordStateOK(r)
  BY <1>1, <1>6, <1>7 DEF RecordStateOK
<1> QED BY <1>1, <1>2, <1>4, <1>8 DEF r

\* What every transaction that releases a claim keeps and clears.
LEMMA ReleasedRow ==
  ASSUME NEW i \in Items, NEW at \in Nat, row[i] \in Rows, RecordStateOK(row[i]),
         row[i].status = "running"
  PROVE  LET r == Released(row[i], at) IN
         /\ r \in Rows
         /\ r.updated_at = at /\ r.revision = row[i].revision + 1 /\ r.revision >= 2
         /\ r.attempt_count = row[i].attempt_count /\ r.attempt_count >= 1
         /\ r.lease_owner = None /\ r.claim_token = None /\ r.lease_expires_at = None
         /\ r.available_at = None /\ r.failure = None /\ r.claimed_at \in Nat
         /\ r.completed_at = None /\ r.dead_lettered_at = None
<1>1. /\ row[i].completed_at = None /\ row[i].dead_lettered_at = None
      /\ row[i].available_at = None /\ row[i].failure = None
      /\ row[i].claimed_at \in Nat /\ row[i].revision \in Nat
      /\ row[i].attempt_count >= 1 /\ row[i].revision >= 1
  BY RowFields
<1> DEFINE q == Stamped(row[i], at)
           r == Released(row[i], at)
<1>2. q \in Rows
  BY StampedRow
<1>3. /\ q.updated_at = at /\ q.revision = row[i].revision + 1
      /\ q.attempt_count = row[i].attempt_count
      /\ q.available_at = row[i].available_at /\ q.failure = row[i].failure
      /\ q.claimed_at = row[i].claimed_at /\ q.completed_at = row[i].completed_at
      /\ q.dead_lettered_at = row[i].dead_lettered_at
  BY DEF Stamped, Rows
<1>4. r = [q EXCEPT !.lease_owner = None, !.claim_token = None, !.lease_expires_at = None]
  BY DEF Released
<1> HIDE DEF q, r
<1>5. r \in Rows
  BY <1>2, <1>4 DEF Rows
<1>6. /\ r.updated_at = q.updated_at /\ r.revision = q.revision
      /\ r.attempt_count = q.attempt_count
      /\ r.lease_owner = None /\ r.claim_token = None /\ r.lease_expires_at = None
      /\ r.available_at = q.available_at /\ r.failure = q.failure
      /\ r.claimed_at = q.claimed_at /\ r.completed_at = q.completed_at
      /\ r.dead_lettered_at = q.dead_lettered_at
  BY <1>2, <1>4 DEF Rows
<1> QED BY <1>1, <1>3, <1>5, <1>6 DEF r

LEMMA CompletedRow ==
  ASSUME NEW i \in Items, NEW at \in Nat, row[i] \in Rows, RecordStateOK(row[i]),
         row[i].status = "running"
  PROVE  LET r == Completed(i, at) IN
         /\ r \in Rows /\ RecordStateOK(r)
         /\ r.status = "completed" /\ r.updated_at = at
         /\ r.revision = row[i].revision + 1 /\ r.revision >= 2
         /\ r.attempt_count = row[i].attempt_count /\ r.attempt_count >= 1
         /\ r.lease_owner = None /\ r.lease_expires_at = None
         /\ r.available_at = None /\ r.failure = None
<1> DEFINE q == Released(row[i], at)
           r == Completed(i, at)
<1>1. /\ q \in Rows
      /\ q.updated_at = at /\ q.revision = row[i].revision + 1 /\ q.revision >= 2
      /\ q.attempt_count = row[i].attempt_count /\ q.attempt_count >= 1
      /\ q.lease_owner = None /\ q.claim_token = None /\ q.lease_expires_at = None
      /\ q.available_at = None /\ q.failure = None /\ q.claimed_at \in Nat
      /\ q.completed_at = None /\ q.dead_lettered_at = None
  BY ReleasedRow
<1>2. r = [q EXCEPT !.status = "completed", !.completed_at = at]
  BY DEF Completed
<1> HIDE DEF q, r
<1>3. /\ r \in Rows /\ r.status = "completed" /\ r.completed_at = at
      /\ r.updated_at = q.updated_at /\ r.revision = q.revision
      /\ r.attempt_count = q.attempt_count /\ r.lease_owner = q.lease_owner
      /\ r.claim_token = q.claim_token /\ r.lease_expires_at = q.lease_expires_at
      /\ r.available_at = q.available_at /\ r.failure = q.failure
      /\ r.claimed_at = q.claimed_at /\ r.dead_lettered_at = q.dead_lettered_at
  BY <1>1, <1>2 DEF Rows, Statuses
<1>4. CompletedOK(r) /\ LeaseWhole(r)
  BY <1>1, <1>3, NoneAssumption DEF CompletedOK, Shape, ShapeOf, Present, LeaseWhole
<1>5. RecordStateOK(r)
  BY <1>3, <1>4 DEF RecordStateOK
<1> QED BY <1>1, <1>3, <1>5 DEF r

LEMMA BuriedRow ==
  ASSUME NEW i \in Items, NEW at \in Nat, row[i] \in Rows, RecordStateOK(row[i]),
         row[i].status = "running", NEW error \in Categories
  PROVE  LET r == Buried(i, at, error) IN
         /\ r \in Rows /\ RecordStateOK(r)
         /\ r.status = "dead_letter" /\ r.updated_at = at /\ r.failure = error
         /\ r.revision = row[i].revision + 1 /\ r.revision >= 2
         /\ r.attempt_count = row[i].attempt_count /\ r.attempt_count >= 1
         /\ r.lease_owner = None /\ r.lease_expires_at = None /\ r.available_at = None
<1> DEFINE q == Released(row[i], at)
           r == Buried(i, at, error)
<1>1. /\ q \in Rows
      /\ q.updated_at = at /\ q.revision = row[i].revision + 1 /\ q.revision >= 2
      /\ q.attempt_count = row[i].attempt_count /\ q.attempt_count >= 1
      /\ q.lease_owner = None /\ q.claim_token = None /\ q.lease_expires_at = None
      /\ q.available_at = None /\ q.failure = None /\ q.claimed_at \in Nat
      /\ q.completed_at = None /\ q.dead_lettered_at = None
  BY ReleasedRow
<1>2. r = [q EXCEPT !.status = "dead_letter", !.failure = error, !.dead_lettered_at = at]
  BY DEF Buried
<1> HIDE DEF q, r
<1>3. /\ r.status = "dead_letter" /\ r.dead_lettered_at = at
      /\ r.updated_at = q.updated_at /\ r.revision = q.revision
      /\ r.attempt_count = q.attempt_count /\ r.lease_owner = q.lease_owner
      /\ r.claim_token = q.claim_token /\ r.lease_expires_at = q.lease_expires_at
      /\ r.available_at = q.available_at /\ r.failure = error
      /\ r.claimed_at = q.claimed_at /\ r.completed_at = q.completed_at
  BY <1>1, <1>2 DEF Rows
<1>6. r \in Rows
  <2>1. "dead_letter" \in Statuses
    BY DEF Statuses
  <2> QED BY <1>1, <1>2, <2>1 DEF Rows
<1>4. DeadLetterOK(r) /\ LeaseWhole(r)
  BY <1>1, <1>3, NoneAssumption DEF DeadLetterOK, Shape, ShapeOf, Present, LeaseWhole
<1>5. RecordStateOK(r)
  BY <1>3, <1>4 DEF RecordStateOK
<1> QED BY <1>1, <1>3, <1>5, <1>6 DEF r

LEMMA RescheduledRow ==
  ASSUME NEW i \in Items, NEW at \in Nat, row[i] \in Rows, RecordStateOK(row[i]),
         row[i].status = "running", NEW error \in RetryableCategories,
         NEW decision, decision.available_at \in Nat, decision.available_at > at
  PROVE  LET r == Rescheduled(i, at, decision, error) IN
         /\ r \in Rows /\ RecordStateOK(r)
         /\ r.status = "retrying" /\ r.updated_at = at /\ r.failure = error
         /\ r.revision = row[i].revision + 1 /\ r.revision >= 2
         /\ r.attempt_count = row[i].attempt_count /\ r.attempt_count >= 1
         /\ r.lease_owner = None /\ r.lease_expires_at = None
         /\ r.available_at = decision.available_at
<1> DEFINE q == Released(row[i], at)
           r == Rescheduled(i, at, decision, error)
<1>1. /\ q \in Rows
      /\ q.updated_at = at /\ q.revision = row[i].revision + 1 /\ q.revision >= 2
      /\ q.attempt_count = row[i].attempt_count /\ q.attempt_count >= 1
      /\ q.lease_owner = None /\ q.claim_token = None /\ q.lease_expires_at = None
      /\ q.available_at = None /\ q.failure = None /\ q.claimed_at \in Nat
      /\ q.completed_at = None /\ q.dead_lettered_at = None
  BY ReleasedRow
<1>2. r = [q EXCEPT !.status = "retrying", !.failure = error,
                    !.available_at = decision.available_at]
  BY DEF Rescheduled
<1> HIDE DEF q, r
<1>3. /\ r \in Rows /\ r.status = "retrying" /\ r.available_at = decision.available_at
      /\ r.updated_at = q.updated_at /\ r.revision = q.revision
      /\ r.attempt_count = q.attempt_count /\ r.lease_owner = q.lease_owner
      /\ r.claim_token = q.claim_token /\ r.lease_expires_at = q.lease_expires_at
      /\ r.failure = error /\ r.claimed_at = q.claimed_at
      /\ r.completed_at = q.completed_at /\ r.dead_lettered_at = q.dead_lettered_at
  BY <1>1, <1>2 DEF Rows, Statuses, Categories
<1>4. RetryingOK(r) /\ LeaseWhole(r)
  <2>1. error # None
    BY NoneAssumption DEF Categories
  <2>2. Later(r.available_at, r.updated_at)
    BY <1>1, <1>3, NoneAssumption DEF Later
  <2> QED BY <1>1, <1>3, <2>1, <2>2, NoneAssumption
             DEF RetryingOK, Shape, ShapeOf, Present, LeaseWhole, Retryable
<1>5. RecordStateOK(r)
  BY <1>3, <1>4 DEF RecordStateOK
<1> QED BY <1>1, <1>3, <1>5 DEF r

-----------------------------------------------------------------------------
(* Steps that change no row. *)

LEMMA LifecycleInitially == Init => LifecycleInv
<1> SUFFICES ASSUME Init PROVE LifecycleInv
  OBVIOUS
<1>1. Pending \in Rows /\ RecordStateOK(Pending)
  <2>1. Pending \in Rows
    BY NoneAssumption DEF Pending, Rows, Statuses
  <2>2. PendingOK(Pending) /\ LeaseWhole(Pending) /\ Pending.status = "pending"
    BY NoneAssumption DEF Pending, PendingOK, LeaseWhole, Shape, ShapeOf, Present
  <2> QED BY <2>1, <2>2 DEF RecordStateOK
<1>2. TypeOK
  BY <1>1, LifecycleAssumption DEF Init, TypeOK
<1>3. RecordsValid /\ CommandsValid /\ OneAuthority
  BY <1>1 DEF Init, RecordsValid, CommandsValid, OneAuthority
<1>4. WithinBudget /\ AuthorityInv
  <2>1. /\ Pending.attempt_count = 0 /\ Pending.status = "pending"
        /\ Pending.updated_at = 0
    BY DEF Pending
  <2> QED BY <2>1, Constants DEF Init, WithinBudget, AuthorityInv
<1> QED BY <1>2, <1>3, <1>4 DEF LifecycleInv, ExclusiveAndCounted

\* Sending a command that its constructor accepts, timed now.
LEMMA SentKeeps ==
  ASSUME LifecycleInv, NEW w \in Workers, NEW c \in Calls, call[w] = None,
         call' = [call EXCEPT ![w] = c], c.at = clock,
         (c.op = "claim") = (hand[w] = None),
         c.op = "retry" => /\ RetryCommandOK(c)
                           /\ c.decision = Decision(hand[w].item, hand[w].token, c.at),
         c.op = "terminal" => FailTerminalCommandOK(c),
         UNCHANGED <<row, clock, hand, told, lost, crashes>>,
         renewals' \in 0 .. MaxRenewals
  PROVE  LifecycleInv'
<1> USE DEF LifecycleInv, ExclusiveAndCounted
<1>1. TypeOK'
  BY DEF TypeOK
<1>2. call'[w] = c /\ \A v \in Workers \ {w} : call'[v] = call[v]
  BY DEF TypeOK
<1>3. RecordsValid' /\ OneAuthority' /\ WithinBudget'
  BY DEF RecordsValid, OneAuthority, WithinBudget
<1>4. CommandsValid'
  BY <1>2 DEF CommandsValid
<1>5. AuthorityInv'
  <2>1. clock \in Nat /\ \A i \in Items : row[i].updated_at <= clock
    BY DEF TypeOK, AuthorityInv
  <2>2. \A v \in Workers : hand[v] # None => hand[v].item \in Items
    BY DEF TypeOK, Authorities
  <2>3. ASSUME NEW v \in Workers, hand[v] # None
        PROVE  LET r == row[hand[v].item] IN
               /\ hand[v].worker = v
               /\ hand[v].token \in 1 .. r.attempt_count
               /\ hand[v].revision <= r.revision
               /\ call'[v] # None /\ hand[v].revision = r.revision
                    => r.updated_at <= call'[v].at
    BY <1>2, <2>1, <2>2, <2>3 DEF AuthorityInv
  <2>4. ASSUME NEW v \in Workers, call'[v] # None
        PROVE  /\ call'[v].at <= clock
               /\ (call'[v].op = "claim") = (hand[v] = None)
               /\ call'[v].op = "retry" =>
                    call'[v].decision = Decision(hand[v].item, hand[v].token, call'[v].at)
    BY <1>2, <2>1, <2>4 DEF AuthorityInv
  <2> QED BY <2>1, <2>3, <2>4 DEF AuthorityInv, Decision, Maximum
<1> QED BY <1>1, <1>3, <1>4, <1>5

LEMMA AskKeeps ==
  ASSUME LifecycleInv, NEW w \in Workers, Ask(w)
  PROVE  LifecycleInv'
<1>1. PICK kinds \in AllowedKinds[w] :
        call' = [call EXCEPT ![w] = [op |-> "claim", at |-> clock, kinds |-> kinds]]
  BY DEF Ask
<1>2. kinds \in SUBSET Kinds /\ clock \in Nat
  BY LifecycleAssumption DEF LifecycleInv, TypeOK
<1>3. [op |-> "claim", at |-> clock, kinds |-> kinds] \in Calls
  BY <1>2 DEF Calls
<1> QED BY <1>1, <1>3, SentKeeps DEF Ask, LifecycleInv, TypeOK

\* A worker builds nothing a command's constructor refuses.
LEMMA CommandsBuilt ==
  ASSUME LifecycleInv, NEW w \in Workers, hand[w] # None, NEW c \in Commands(w)
  PROVE  /\ c \in Calls /\ c.at = clock /\ c.op \in {"complete", "retry", "terminal"}
         /\ c.op = "retry" => /\ RetryCommandOK(c)
                              /\ c.decision = Decision(hand[w].item, hand[w].token, c.at)
         /\ c.op = "terminal" => FailTerminalCommandOK(c)
<1> DEFINE i == hand[w].item
           n == hand[w].token
           d == Decision(i, n, clock)
<1>1. /\ i \in Items /\ n \in Nat /\ clock \in Nat
      /\ n >= 1 /\ n <= row[i].attempt_count /\ row[i].attempt_count <= Maximum(i)
      /\ row[i].attempt_count \in Nat
  BY DEF LifecycleInv, ExclusiveAndCounted, TypeOK, Authorities, Rows, AuthorityInv,
         WithinBudget
<1>2. Maximum(i) \in Nat \ {0} /\ n \in 1 .. Maximum(i)
  BY <1>1, Constants
<1>3. Delay(i, n) \in Nat \ {0}
  BY <1>1, <1>2, Constants
<1>4. /\ d.maximum_attempts = Maximum(i) /\ d.attempt_count = n
      /\ d.exhausted = (n >= Maximum(i))
      /\ d.available_at = (IF n >= Maximum(i) THEN None ELSE clock + Delay(i, n))
  BY DEF Decision
<1>5. d \in Decisions
  BY <1>1, <1>2, <1>3 DEF Decision, Decisions
<1> HIDE DEF d
<1>6. RetryDecisionOK(d) /\ (Present(d.available_at) => Later(d.available_at, clock))
  <2>1. clock + Delay(i, n) \in Nat /\ clock + Delay(i, n) > clock
    BY <1>1, <1>3
  <2>2. clock + Delay(i, n) # None /\ clock # None
    BY <1>1, <2>1, NoneAssumption
  <2> QED BY <1>4, <2>1, <2>2 DEF RetryDecisionOK, Present, Later
<1>7. CASE c = [op |-> "complete", at |-> clock]
  BY <1>1, <1>7 DEF Calls
<1>8. ASSUME NEW e \in Errors, Retryable(e),
             c = [op |-> "retry", at |-> clock, error |-> e, decision |-> d]
      PROVE  /\ c \in Calls /\ c.at = clock /\ c.op = "retry"
             /\ RetryCommandOK(c) /\ c.decision = d
  <2>1. e \in RetryableCategories
    BY <1>8 DEF Retryable
  <2>2. c.op = "retry" /\ c.at = clock /\ c.error = e /\ c.decision = d
    BY <1>8
  <2>3. c \in [op : {"retry"}, at : Nat, error : Errors \intersect RetryableCategories,
               decision : Decisions]
    BY <1>1, <1>5, <1>8, <2>1
  <2> QED BY <1>6, <1>8, <2>2, <2>3 DEF Calls, RetryCommandOK
<1>9. ASSUME NEW e \in Errors, ~Retryable(e),
             c = [op |-> "terminal", at |-> clock, error |-> e]
      PROVE  c \in Calls /\ c.at = clock /\ c.op = "terminal" /\ FailTerminalCommandOK(c)
  <2>1. e \in Errors \ RetryableCategories
    BY <1>9 DEF Retryable
  <2> QED BY <1>1, <1>9, <2>1 DEF Calls, FailTerminalCommandOK
<1>10. \/ c = [op |-> "complete", at |-> clock]
       \/ \E e \in Errors : /\ Retryable(e)
                            /\ c = [op |-> "retry", at |-> clock, error |-> e, decision |-> d]
       \/ \E e \in Errors : /\ ~Retryable(e)
                            /\ c = [op |-> "terminal", at |-> clock, error |-> e]
  BY DEF Commands, d
<1>11. CASE c = [op |-> "complete", at |-> clock]
  BY <1>7, <1>11
<1>12. CASE \E e \in Errors : /\ Retryable(e)
                             /\ c = [op |-> "retry", at |-> clock, error |-> e, decision |-> d]
  BY <1>8, <1>12 DEF d
<1>13. CASE \E e \in Errors : /\ ~Retryable(e)
                             /\ c = [op |-> "terminal", at |-> clock, error |-> e]
  BY <1>9, <1>13
<1> QED BY <1>10, <1>11, <1>12, <1>13

LEMMA ReportKeeps ==
  ASSUME LifecycleInv, NEW w \in Workers, Report(w)
  PROVE  LifecycleInv'
<1>1. PICK c \in Commands(w) : Send(w, c)
  BY DEF Report
<1>2. hand[w] # None /\ call[w] = None /\ renewals' \in 0 .. MaxRenewals
  BY DEF Report, LifecycleInv, TypeOK
<1> QED BY <1>1, <1>2, CommandsBuilt, SentKeeps DEF Send

LEMMA RenewKeeps ==
  ASSUME LifecycleInv, NEW w \in Workers, Renew(w)
  PROVE  LifecycleInv'
<1> DEFINE c == [op |-> "renew", at |-> clock]
<1>1. c \in Calls /\ c.op = "renew" /\ c.at = clock
  BY DEF Calls, LifecycleInv, TypeOK
<1>2. renewals' \in 0 .. MaxRenewals
  BY LifecycleAssumption DEF Renew, LifecycleInv, TypeOK
<1> HIDE DEF c
<1>3. call' = [call EXCEPT ![w] = c]
  BY DEF Renew, Send, c
<1> QED BY <1>1, <1>2, <1>3, SentKeeps DEF Renew, Send

\* A call that ends without a change of a row, and perhaps without the claim.
LEMMA DroppedKeeps ==
  ASSUME LifecycleInv, NEW w \in Workers,
         call' = [call EXCEPT ![w] = None],
         hand' \in {hand, [hand EXCEPT ![w] = None]},
         UNCHANGED <<row, clock, told>>,
         lost' \in 0 .. MaxLost, renewals' \in 0 .. MaxRenewals, crashes' \in 0 .. MaxCrashes
  PROVE  LifecycleInv'
<1> USE DEF LifecycleInv, ExclusiveAndCounted
<1>1. TypeOK'
  BY DEF TypeOK
<1>2. /\ \A v \in Workers : call'[v] # None => v # w /\ call'[v] = call[v] /\ hand'[v] = hand[v]
      /\ \A v \in Workers : hand'[v] # None => hand'[v] = hand[v]
  BY DEF TypeOK
<1>3. RecordsValid' /\ OneAuthority' /\ WithinBudget'
  BY <1>2 DEF RecordsValid, OneAuthority, WithinBudget
<1>4. CommandsValid'
  BY <1>2 DEF CommandsValid
<1>5. AuthorityInv'
  <2>1. ASSUME NEW v \in Workers, hand'[v] # None
        PROVE  LET r == row[hand'[v].item] IN
               /\ hand'[v].worker = v
               /\ hand'[v].token \in 1 .. r.attempt_count
               /\ hand'[v].revision <= r.revision
               /\ call'[v] # None /\ hand'[v].revision = r.revision
                    => r.updated_at <= call'[v].at
    BY <1>2, <2>1 DEF AuthorityInv
  <2>2. ASSUME NEW v \in Workers, call'[v] # None
        PROVE  /\ call'[v].at <= clock
               /\ (call'[v].op = "claim") = (hand'[v] = None)
               /\ call'[v].op = "retry" =>
                    call'[v].decision = Decision(hand'[v].item, hand'[v].token, call'[v].at)
    BY <1>2, <2>2 DEF AuthorityInv
  <2> QED BY <2>1, <2>2 DEF AuthorityInv, Decision, Maximum
<1> QED BY <1>1, <1>3, <1>4, <1>5

LEMMA TickKeeps ==
  ASSUME LifecycleInv, Tick
  PROVE  LifecycleInv'
<1> USE DEF LifecycleInv, ExclusiveAndCounted
<1>1. clock \in Nat /\ clock' = clock + 1 /\ UNCHANGED <<row, hand, call, told, renewals, lost, crashes>>
  BY DEF Tick, TypeOK
<1>2. TypeOK'
  BY <1>1 DEF TypeOK
<1>3. RecordsValid' /\ OneAuthority' /\ WithinBudget' /\ CommandsValid'
  BY <1>1 DEF RecordsValid, OneAuthority, WithinBudget, CommandsValid
<1>4. AuthorityInv'
  <2>1. \A i \in Items : row[i].updated_at \in Nat
    BY DEF TypeOK, Rows
  <2>2. \A v \in Workers : call[v] # None => call[v].at \in Nat
    BY DEF TypeOK, Calls
  <2>3. /\ \A i \in Items : row[i].updated_at <= clock'
        /\ \A v \in Workers : call[v] # None => call[v].at <= clock'
    BY <1>1, <2>1, <2>2 DEF AuthorityInv
  <2> QED BY <1>1, <2>3 DEF AuthorityInv, Decision, Maximum
<1> QED BY <1>2, <1>3, <1>4

-----------------------------------------------------------------------------
(* Steps that change a row. *)

\* The row changes once, under a command sent by w that thereby ends; if the answer
\* arrives, w holds the authority h, whose token nobody else holds.
LEMMA ChangedKeeps ==
  ASSUME LifecycleInv, NEW w \in Workers, NEW i \in Items, NEW r \in Rows,
         NEW reply \in Reply, NEW h,
         RecordStateOK(r), row' = [row EXCEPT ![i] = r],
         r.revision = row[i].revision + 1, r.updated_at <= clock,
         r.status = "running" => r.claim_token = r.attempt_count,
         r.attempt_count >= row[i].attempt_count,
         r.attempt_count <= Maximum(i),
         r.status = "retrying" => r.attempt_count < Maximum(i),
         r.status = "dead_letter" /\ (Retryable(r.failure) \/ r.failure = "attempts_exhausted")
           => r.attempt_count = Maximum(i),
         call[w] # None, Answered(w, reply, h),
         h # None =>
           /\ h \in Authorities /\ h.item = i /\ h.worker = w /\ h.revision = r.revision
           /\ h.token \in 1 .. r.attempt_count
           /\ \A v \in Workers \ {w} :
                hand[v] # None /\ hand[v].item = i => hand[v].token # h.token,
         told' \subseteq Items \X Workers \X Nat
  PROVE  LifecycleInv'
<1> USE DEF LifecycleInv, ExclusiveAndCounted
<1>1. /\ call' = [call EXCEPT ![w] = None] /\ clock' = clock
      /\ hand' = hand \/ hand' = [hand EXCEPT ![w] = h]
      /\ UNCHANGED <<renewals, crashes>> /\ lost' \in 0 .. MaxLost
  BY LifecycleAssumption DEF Answered, Reply, TypeOK
<1>2. TypeOK'
  BY <1>1 DEF TypeOK
<1>3. /\ row'[i] = r /\ \A j \in Items \ {i} : row'[j] = row[j]
      /\ \A j \in Items : /\ row[j].revision \in Nat /\ row[j].attempt_count \in Nat
                          /\ row'[j].revision \in Nat /\ row'[j].attempt_count \in Nat
                          /\ row[j].revision <= row'[j].revision
                          /\ row[j].attempt_count <= row'[j].attempt_count
  BY DEF TypeOK, Rows
<1>4. /\ \A v \in Workers \ {w} : call'[v] = call[v] /\ hand'[v] = hand[v]
      /\ call'[w] = None
      /\ hand'[w] = hand[w] \/ hand'[w] = h
  BY <1>1 DEF TypeOK
<1>5. RecordsValid' /\ WithinBudget' /\ CommandsValid'
  <2>1. RecordsValid'
    BY <1>3 DEF RecordsValid
  <2>2. WithinBudget'
    BY <1>3 DEF WithinBudget, Maximum
  <2>3. CommandsValid'
    BY <1>4 DEF CommandsValid
  <2> QED BY <2>1, <2>2, <2>3
<1>6. OneAuthority'
  BY <1>4 DEF OneAuthority
<1>7. AuthorityInv'
  <2>1. ASSUME NEW j \in Items
        PROVE  /\ row'[j].updated_at <= clock
               /\ row'[j].status = "running" => row'[j].claim_token = row'[j].attempt_count
    BY <1>3 DEF AuthorityInv
  <2>2. ASSUME NEW v \in Workers, hand'[v] # None, hand'[v] = hand[v]
        PROVE  LET q == row'[hand'[v].item] IN
               /\ hand'[v].worker = v
               /\ hand'[v].token \in 1 .. q.attempt_count
               /\ hand'[v].revision <= q.revision
               /\ call'[v] # None /\ hand'[v].revision = q.revision
                    => q.updated_at <= call'[v].at
    <3> DEFINE k == hand[v].item
    <3>1. k \in Items /\ hand[v].token \in Nat /\ hand[v].revision \in Nat
      BY <2>2 DEF TypeOK, Authorities
    <3>2. /\ hand[v].worker = v /\ hand[v].token \in 1 .. row[k].attempt_count
          /\ hand[v].revision <= row[k].revision
          /\ call[v] # None /\ hand[v].revision = row[k].revision
               => row[k].updated_at <= call[v].at
      BY <2>2 DEF AuthorityInv
    <3>3. hand[v].token \in 1 .. row'[k].attempt_count /\ hand[v].revision <= row'[k].revision
      BY <1>3, <3>1, <3>2
    <3>4. CASE k = i
      <4>1. hand[v].revision < row'[k].revision
        BY <1>3, <3>1, <3>2, <3>4
      <4> QED BY <2>2, <3>2, <3>3, <4>1, <3>1
    <3>5. CASE k # i
      <4>1. row'[k] = row[k] /\ (call'[v] # None => call'[v] = call[v])
        BY <1>3, <1>4, <3>1, <3>5
      <4> QED BY <2>2, <3>2, <4>1
    <3> QED BY <3>4, <3>5
  <2>3. ASSUME NEW v \in Workers, hand'[v] # None, hand'[v] # hand[v]
        PROVE  LET q == row'[hand'[v].item] IN
               /\ hand'[v].worker = v
               /\ hand'[v].token \in 1 .. q.attempt_count
               /\ hand'[v].revision <= q.revision
               /\ call'[v] = None
    <3>1. v = w /\ hand'[v] = h /\ h # None
      BY <1>4, <2>3
    <3> QED BY <1>3, <1>4, <3>1
  <2>4. ASSUME NEW v \in Workers, call'[v] # None
        PROVE  /\ call'[v].at <= clock
               /\ (call'[v].op = "claim") = (hand'[v] = None)
               /\ call'[v].op = "retry" =>
                    call'[v].decision = Decision(hand'[v].item, hand'[v].token, call'[v].at)
    BY <1>4, <2>4 DEF AuthorityInv
  <2> QED BY <1>1, <2>1, <2>2, <2>3, <2>4 DEF AuthorityInv, Decision, Maximum
<1> QED BY <1>2, <1>5, <1>6, <1>7

\* A claim grants an item that is due or expired and has attempts left, or buries
\* one that has used them up.
LEMMA ClaimChanges ==
  ASSUME LifecycleInv, NEW w \in Workers, NEW reply \in Reply, Claim(w, reply)
  PROVE  /\ call[w] # None /\ call[w].at \in Nat /\ call[w].at <= clock /\ told' = told
         /\ \E i \in Items :
              \/ /\ row[i].status = "running" /\ row[i].attempt_count = Maximum(i)
                 /\ row' = [row EXCEPT ![i] = Buried(i, call[w].at, "attempts_exhausted")]
                 /\ Answered(w, reply, None)
              \/ /\ row[i].status \in {"pending", "running", "retrying"}
                 /\ row[i].attempt_count < Maximum(i)
                 /\ DueTime(i) \in Nat /\ DueTime(i) <= call[w].at
                 /\ row' = [row EXCEPT ![i] = Granted(i, w, call[w].at)]
                 /\ Answered(w, reply, Authority(i, w, Granted(i, w, call[w].at)))
<1> DEFINE at == call[w].at
<1>1. call[w] # None /\ at \in Nat /\ at <= clock /\ told' = told
  BY DEF Claim, LifecycleInv, ExclusiveAndCounted, TypeOK, Calls, AuthorityInv
<1>2. PICK i \in First(Eligible(call[w])) :
        IF Spent(i)
        THEN /\ row' = [row EXCEPT ![i] = Buried(i, call[w].at, "attempts_exhausted")]
             /\ Answered(w, reply, None)
        ELSE /\ row' = [row EXCEPT ![i] = Granted(i, w, call[w].at)]
             /\ Answered(w, reply, Authority(i, w, Granted(i, w, call[w].at)))
  BY DEF Claim
<1>3. i \in Items /\ (Expired(i, at) \/ Due(i, at))
  BY DEF First, Eligible
<1>4. /\ row[i] \in Rows /\ RecordStateOK(row[i]) /\ Maximum(i) \in Nat \ {0}
      /\ row[i].attempt_count <= Maximum(i)
      /\ row[i].status = "retrying" => row[i].attempt_count < Maximum(i)
  BY <1>3, Constants DEF LifecycleInv, ExclusiveAndCounted, TypeOK, RecordsValid, WithinBudget
<1>5. row[i].attempt_count \in Nat /\ row[i].status \in {"pending", "running", "retrying"}
  BY <1>3, <1>4 DEF Rows, Expired, Due
<1>6. CASE Spent(i)
  <2>1. row[i].status = "running" /\ row[i].attempt_count = Maximum(i)
    BY <1>4, <1>5, <1>6 DEF Spent
  <2> QED BY <1>1, <1>2, <1>3, <1>6, <2>1
<1>7. CASE ~Spent(i)
  <2>1. row[i].attempt_count < Maximum(i)
    <3>1. row[i].status = "pending" => row[i].attempt_count = 0
      BY <1>4, RowFields
    <3> QED BY <1>4, <1>5, <1>7, <3>1 DEF Spent
  <2>2. DueTime(i) \in Nat /\ DueTime(i) <= at
    BY <1>3, <1>4, RowFields DEF DueTime, Expired, Due
  <2> QED BY <1>1, <1>2, <1>3, <1>5, <1>7, <2>1, <2>2
<1> QED BY <1>6, <1>7

LEMMA ClaimKeeps ==
  ASSUME LifecycleInv, NEW w \in Workers, NEW reply \in Reply, Claim(w, reply)
  PROVE  LifecycleInv'
<1> DEFINE at == call[w].at
<1>1. call[w] # None /\ at \in Nat /\ at <= clock /\ told' = told
  BY ClaimChanges
<1>2. told' \subseteq Items \X Workers \X Nat
  BY <1>1 DEF LifecycleInv, TypeOK
<1>3. ASSUME NEW i \in Items, row[i].status = "running", row[i].attempt_count = Maximum(i),
             row' = [row EXCEPT ![i] = Buried(i, at, "attempts_exhausted")],
             Answered(w, reply, None)
      PROVE  LifecycleInv'
  <2> DEFINE r == Buried(i, at, "attempts_exhausted")
  <2>1. row[i] \in Rows /\ RecordStateOK(row[i]) /\ Maximum(i) \in Nat \ {0}
    BY Constants DEF LifecycleInv, TypeOK, RecordsValid
  <2>2. "attempts_exhausted" \in Categories
    BY DEF Categories
  <2>3. /\ r \in Rows /\ RecordStateOK(r) /\ r.status = "dead_letter" /\ r.updated_at = at
        /\ r.revision = row[i].revision + 1 /\ r.attempt_count = row[i].attempt_count
    BY <1>1, <1>3, <2>1, <2>2, BuriedRow
  <2>4. row' = [row EXCEPT ![i] = r]
    BY <1>3
  <2>5. /\ r.updated_at <= clock /\ r.attempt_count = Maximum(i)
        /\ r.attempt_count >= row[i].attempt_count /\ r.attempt_count <= Maximum(i)
    BY <1>1, <1>3, <2>1, <2>3
  <2> HIDE DEF r, at
  <2>6. Answered(w, reply, None)
    BY <1>3
  <2> QED BY <1>1, <1>2, <2>3, <2>4, <2>5, <2>6, ChangedKeeps
<1>4. ASSUME NEW i \in Items, row[i].status \in {"pending", "running", "retrying"},
             row[i].attempt_count < Maximum(i),
             row' = [row EXCEPT ![i] = Granted(i, w, at)],
             Answered(w, reply, Authority(i, w, Granted(i, w, at)))
      PROVE  LifecycleInv'
  <2> DEFINE r == Granted(i, w, at)
             h == Authority(i, w, r)
  <2>1. /\ row[i] \in Rows /\ RecordStateOK(row[i]) /\ Maximum(i) \in Nat \ {0}
        /\ row[i].attempt_count \in Nat
    BY Constants DEF LifecycleInv, TypeOK, RecordsValid, Rows
  <2>2. /\ r \in Rows /\ RecordStateOK(r) /\ r.status = "running" /\ r.updated_at = at
        /\ r.revision = row[i].revision + 1
        /\ r.attempt_count = row[i].attempt_count + 1
        /\ r.claim_token = r.attempt_count
    BY <1>1, <1>4, <2>1, GrantedRow
  <2>3. row' = [row EXCEPT ![i] = r] /\ Answered(w, reply, h)
    BY <1>4
  <2> HIDE DEF r
  <2>4. /\ h \in Authorities /\ h.item = i /\ h.worker = w /\ h.revision = r.revision
        /\ h.token = r.attempt_count
    BY <2>1, <2>2 DEF Authority, Authorities, Rows
  <2>5. \A v \in Workers \ {w} : hand[v] # None /\ hand[v].item = i => hand[v].token # h.token
    BY <2>1, <2>2, <2>4 DEF LifecycleInv, ExclusiveAndCounted, AuthorityInv, TypeOK, Authorities
  <2>6. /\ r.attempt_count >= row[i].attempt_count /\ r.attempt_count <= Maximum(i)
        /\ r.attempt_count \in 1 .. r.attempt_count
    BY <1>4, <2>1, <2>2
  <2> HIDE DEF h, at
  <2> QED BY <1>1, <1>2, <2>2, <2>3, <2>4, <2>5, <2>6, ChangedKeeps
<1> QED BY <1>3, <1>4, ClaimChanges

\* A command with authority is from the owner of the current grant, and timed after
\* the change the authority came from.
LEMMA Admissible ==
  ASSUME LifecycleInv, NEW w \in Workers, hand[w] # None, call[w] # None, HasAuthority(w)
  PROVE  /\ hand[w].item \in Items /\ call[w].at \in Nat /\ call[w].at <= clock
         /\ row[hand[w].item] \in Rows /\ RecordStateOK(row[hand[w].item])
         /\ row[hand[w].item].status = "running" /\ row[hand[w].item].lease_owner = w
         /\ row[hand[w].item].claim_token = hand[w].token
         /\ row[hand[w].item].attempt_count = hand[w].token
         /\ row[hand[w].item].updated_at <= call[w].at
         /\ hand[w].token \in Nat /\ hand[w].token >= 1 /\ hand[w].token <= Maximum(hand[w].item)
<1>1. hand[w].item \in Items /\ hand[w].token \in Nat /\ call[w].at \in Nat
  BY DEF LifecycleInv, TypeOK, Authorities, Calls
<1>2. row[hand[w].item] \in Rows /\ RecordStateOK(row[hand[w].item])
  BY <1>1 DEF LifecycleInv, TypeOK, RecordsValid
<1>3. /\ row[hand[w].item].status = "running"
      /\ row[hand[w].item].lease_owner = hand[w].worker
      /\ row[hand[w].item].claim_token = hand[w].token
      /\ row[hand[w].item].revision = hand[w].revision
  BY DEF HasAuthority
<1>4. /\ call[w].at <= clock /\ hand[w].worker = w
      /\ row[hand[w].item].claim_token = row[hand[w].item].attempt_count
      /\ row[hand[w].item].updated_at <= call[w].at
      /\ hand[w].token >= 1
  BY <1>1, <1>3 DEF LifecycleInv, ExclusiveAndCounted, AuthorityInv
<1>5. row[hand[w].item].attempt_count <= Maximum(hand[w].item)
  BY <1>1 DEF LifecycleInv, ExclusiveAndCounted, WithinBudget
<1> QED BY <1>1, <1>2, <1>3, <1>4, <1>5

LEMMA ExtendKeeps ==
  ASSUME LifecycleInv, NEW w \in Workers, NEW reply \in Reply, Extend(w, reply)
  PROVE  LifecycleInv'
<1> DEFINE i == hand[w].item
           at == call[w].at
           r == Renewed(i, at)
           h == Authority(i, w, r)
<1>1. /\ hand[w] # None /\ call[w] # None /\ HasAuthority(w)
      /\ row' = [row EXCEPT ![i] = r] /\ Answered(w, reply, h) /\ told' = told
  BY DEF Extend
<1>2. /\ i \in Items /\ at \in Nat /\ at <= clock
      /\ row[i] \in Rows /\ RecordStateOK(row[i]) /\ row[i].status = "running"
      /\ row[i].claim_token = hand[w].token /\ row[i].attempt_count = hand[w].token
      /\ row[i].updated_at <= at
      /\ hand[w].token \in Nat /\ hand[w].token >= 1 /\ hand[w].token <= Maximum(i)
  BY <1>1, Admissible
<1>3. /\ r \in Rows /\ RecordStateOK(r) /\ r.status = "running" /\ r.updated_at = at
      /\ r.revision = row[i].revision + 1
      /\ r.attempt_count = row[i].attempt_count /\ r.claim_token = row[i].claim_token
  BY <1>2, RenewedRow
<1> HIDE DEF r
<1>4. /\ h \in Authorities /\ h.item = i /\ h.worker = w /\ h.revision = r.revision
      /\ h.token = hand[w].token
  BY <1>2, <1>3 DEF Authority, Authorities, Rows
<1>5. \A v \in Workers \ {w} : hand[v] # None /\ hand[v].item = i => hand[v].token # h.token
  BY <1>1, <1>4 DEF LifecycleInv, ExclusiveAndCounted, OneAuthority
<1>6. told' \subseteq Items \X Workers \X Nat
  BY <1>1 DEF LifecycleInv, TypeOK
<1>7. /\ r.attempt_count >= row[i].attempt_count /\ r.attempt_count <= Maximum(i)
      /\ h.token \in 1 .. r.attempt_count
  BY <1>2, <1>3, <1>4
<1> HIDE DEF h, i, at
<1> QED BY <1>1, <1>2, <1>3, <1>4, <1>5, <1>6, <1>7, ChangedKeeps

\* What a verdict makes of the row: a record, and a result of the right kind.
LEMMA VerdictRow ==
  ASSUME LifecycleInv, NEW w \in Workers, hand[w] # None, call[w] # None, HasAuthority(w),
         call[w].op \in {"complete", "retry", "terminal"}
  PROVE  LET i == hand[w].item  at == call[w].at  r == Verdict(i, call[w]) IN
         /\ r \in Rows /\ RecordStateOK(r)
         /\ r.status \in {"completed", "retrying", "dead_letter"} /\ r.updated_at = at
         /\ r.revision = row[i].revision + 1 /\ r.revision >= 2
         /\ r.attempt_count = row[i].attempt_count /\ r.attempt_count >= 1
         /\ r.lease_owner = None /\ r.lease_expires_at = None
         /\ r.status # "retrying" => r.available_at = None
         /\ r.status = "completed" => r.failure = None
         /\ r.status = "retrying" => /\ r.failure \in RetryableCategories
                                     /\ r.available_at \in Nat /\ r.available_at > at
                                     /\ r.attempt_count < Maximum(i)
         /\ r.status = "dead_letter" =>
              /\ r.failure \in Categories \ {"attempts_exhausted"}
              /\ Retryable(r.failure) => r.attempt_count = Maximum(i)
<1> DEFINE i == hand[w].item
           at == call[w].at
           r == Verdict(i, call[w])
<1>1. /\ i \in Items /\ at \in Nat
      /\ row[i] \in Rows /\ RecordStateOK(row[i]) /\ row[i].status = "running"
      /\ row[i].attempt_count = hand[w].token
      /\ hand[w].token \in Nat /\ hand[w].token >= 1 /\ hand[w].token <= Maximum(i)
  BY Admissible
<1>2. Maximum(i) \in Nat \ {0} /\ hand[w].token \in 1 .. Maximum(i)
  BY <1>1, Constants
<1>3. Delay(i, hand[w].token) \in Nat \ {0}
  BY <1>1, <1>2, Constants
<1> HIDE DEF i, at
<1>4. CASE call[w].op = "complete"
  <2>1. r = Completed(i, at)
    BY <1>4 DEF Verdict, at
  <2>2. /\ r \in Rows /\ RecordStateOK(r)
        /\ r.status = "completed" /\ r.updated_at = at
        /\ r.revision = row[i].revision + 1 /\ r.revision >= 2
        /\ r.attempt_count = row[i].attempt_count /\ r.attempt_count >= 1
        /\ r.lease_owner = None /\ r.lease_expires_at = None
        /\ r.available_at = None /\ r.failure = None
    BY <1>1, <2>1, CompletedRow
  <2> HIDE DEF r
  <2> QED BY <2>2 DEF i, at, r
<1>5. CASE call[w].op = "terminal"
  <2>1. r = Buried(i, at, call[w].error)
    BY <1>5 DEF Verdict, at
  <2>2. call[w].error \in Errors \ RetryableCategories
    BY <1>5 DEF LifecycleInv, TypeOK, Calls
  <2>3. call[w].error \in Categories \ {"attempts_exhausted"} /\ ~Retryable(call[w].error)
    BY <2>2, LifecycleAssumption DEF Retryable
  <2>4. /\ r \in Rows /\ RecordStateOK(r)
        /\ r.status = "dead_letter" /\ r.updated_at = at /\ r.failure = call[w].error
        /\ r.revision = row[i].revision + 1 /\ r.revision >= 2
        /\ r.attempt_count = row[i].attempt_count /\ r.attempt_count >= 1
        /\ r.lease_owner = None /\ r.lease_expires_at = None /\ r.available_at = None
    BY <1>1, <2>1, <2>3, BuriedRow
  <2> HIDE DEF r
  <2> QED BY <2>3, <2>4 DEF i, at, r
<1>6. CASE call[w].op = "retry"
  <2> DEFINE d == call[w].decision
             e == call[w].error
  <2>1. d = Decision(i, hand[w].token, at)
    BY <1>6 DEF LifecycleInv, ExclusiveAndCounted, AuthorityInv, i, at
  <2>2. /\ d.exhausted = (hand[w].token >= Maximum(i))
        /\ d.available_at = (IF hand[w].token >= Maximum(i) THEN None
                             ELSE at + Delay(i, hand[w].token))
    BY <2>1 DEF Decision
  <2>3. e \in Errors /\ e \in RetryableCategories
    BY <1>6 DEF LifecycleInv, TypeOK, Calls
  <2>4. e \in Categories \ {"attempts_exhausted"} /\ Retryable(e)
    BY <2>3, LifecycleAssumption DEF Retryable
  <2>5. r = IF d.exhausted THEN Buried(i, at, e) ELSE Rescheduled(i, at, d, e)
    BY <1>6 DEF Verdict, at
  <2> HIDE DEF d, e, r
  <2>6. CASE hand[w].token >= Maximum(i)
    <3> d.exhausted
      BY <2>2, <2>6
    <3>1. r = Buried(i, at, e) /\ row[i].attempt_count = Maximum(i)
      BY <1>1, <1>2, <2>5, <2>6
    <3>2. /\ r \in Rows /\ RecordStateOK(r)
          /\ r.status = "dead_letter" /\ r.updated_at = at /\ r.failure = e
          /\ r.revision = row[i].revision + 1 /\ r.revision >= 2
          /\ r.attempt_count = row[i].attempt_count /\ r.attempt_count >= 1
          /\ r.lease_owner = None /\ r.lease_expires_at = None /\ r.available_at = None
      BY <1>1, <2>4, <3>1, BuriedRow
    <3> QED BY <2>4, <3>1, <3>2 DEF i, at, r
  <2>7. CASE ~(hand[w].token >= Maximum(i))
    <3>1. r = Rescheduled(i, at, d, e)
      BY <2>2, <2>5, <2>7
    <3>2. d.available_at \in Nat /\ d.available_at > at
      BY <1>1, <1>3, <2>2, <2>7
    <3>3. row[i].attempt_count < Maximum(i)
      BY <1>1, <1>2, <2>7
    <3> DEFINE q == Rescheduled(i, at, d, e)
    <3>4. /\ q \in Rows /\ RecordStateOK(q)
          /\ q.status = "retrying" /\ q.updated_at = at /\ q.failure = e
          /\ q.revision = row[i].revision + 1 /\ q.revision >= 2
          /\ q.attempt_count = row[i].attempt_count /\ q.attempt_count >= 1
          /\ q.lease_owner = None /\ q.lease_expires_at = None
          /\ q.available_at = d.available_at
      BY <1>1, <2>3, <3>2, RescheduledRow
    <3>5. r = q
      BY <3>1
    <3> HIDE DEF q
    <3> QED BY <2>3, <3>2, <3>3, <3>4, <3>5 DEF i, at, r
  <2> QED BY <2>6, <2>7
<1> QED BY <1>4, <1>5, <1>6

LEMMA ConcludeKeeps ==
  ASSUME LifecycleInv, NEW w \in Workers, NEW reply \in Reply, Conclude(w, reply)
  PROVE  LifecycleInv'
<1> DEFINE i == hand[w].item
           at == call[w].at
           r == Verdict(i, call[w])
<1>1. /\ hand[w] # None /\ call[w] # None /\ HasAuthority(w)
      /\ call[w].op \in {"complete", "retry", "terminal"}
      /\ row' = [row EXCEPT ![i] = r] /\ Answered(w, reply, None)
      /\ told' \in {told, told \union {<<i, w, hand[w].token>>}}
  BY DEF Conclude
<1>2. /\ i \in Items /\ at \in Nat /\ at <= clock
      /\ row[i] \in Rows
      /\ row[i].attempt_count = hand[w].token
      /\ hand[w].token \in Nat /\ hand[w].token <= Maximum(i)
  BY <1>1, Admissible
<1>3. /\ r \in Rows /\ RecordStateOK(r)
      /\ r.status \in {"completed", "retrying", "dead_letter"} /\ r.updated_at = at
      /\ r.revision = row[i].revision + 1
      /\ r.attempt_count = row[i].attempt_count
      /\ r.status = "retrying" => r.attempt_count < Maximum(i)
      /\ r.status = "dead_letter" =>
           /\ r.failure \in Categories \ {"attempts_exhausted"}
           /\ Retryable(r.failure) => r.attempt_count = Maximum(i)
  BY <1>1, VerdictRow
<1>4. told' \subseteq Items \X Workers \X Nat
  BY <1>1, <1>2 DEF LifecycleInv, TypeOK
<1>5. /\ r.updated_at <= clock
      /\ r.attempt_count >= row[i].attempt_count /\ r.attempt_count <= Maximum(i)
  BY <1>2, <1>3
<1>6. r.status # "running"
  BY <1>3
<1>7. /\ r.status = "retrying" => r.attempt_count < Maximum(i)
      /\ r.status = "dead_letter" /\ (Retryable(r.failure) \/ r.failure = "attempts_exhausted")
           => r.attempt_count = Maximum(i)
  BY <1>3
<1> HIDE DEF r, i, at
<1> QED BY <1>1, <1>2, <1>3, <1>4, <1>5, <1>6, <1>7, ChangedKeeps

LEMMA LifecycleStep == LifecycleInv /\ [Next]_vars => LifecycleInv'
<1> SUFFICES ASSUME LifecycleInv, [Next]_vars PROVE LifecycleInv'
  OBVIOUS
<1>1. CASE UNCHANGED vars
  BY <1>1 DEF vars, LifecycleInv, TypeOK, RecordsValid, CommandsValid, ExclusiveAndCounted,
     OneAuthority, WithinBudget, AuthorityInv, Decision, Maximum
<1>2. ASSUME NEW w \in Workers, ClaimNothing(w) \/ Refuse(w)
      PROVE  LifecycleInv'
  BY <1>2, DroppedKeeps DEF ClaimNothing, Refuse, LifecycleInv, TypeOK
<1>3. ASSUME NEW w \in Workers, Crash(w)
      PROVE  LifecycleInv'
  <2>1. crashes' \in 0 .. MaxCrashes
    BY <1>3, LifecycleAssumption DEF Crash, LifecycleInv, TypeOK
  <2> QED BY <1>3, <2>1, DroppedKeeps DEF Crash, LifecycleInv, TypeOK
<1>4. ASSUME NEW w \in Workers, Execute(w)
      PROVE  LifecycleInv'
  BY <1>2, <1>4, ClaimKeeps, ExtendKeeps, ConcludeKeeps DEF Execute
<1> QED BY <1>1, <1>3, <1>4, TickKeeps, AskKeeps, ReportKeeps, RenewKeeps DEF Next

-----------------------------------------------------------------------------
(* What can become of a row. *)

LEMMA OnlyAnswersChange ==
  ASSUME [Next]_vars
  PROVE  \/ UNCHANGED <<row, told>>
         \/ \E w \in Workers, reply \in Reply :
              Claim(w, reply) \/ Extend(w, reply) \/ Conclude(w, reply)
<1>1. CASE UNCHANGED vars
  BY <1>1 DEF vars
<1>2. CASE Tick
  BY <1>2 DEF Tick
<1>3. ASSUME NEW w \in Workers, Ask(w) \/ Report(w) \/ Renew(w) \/ Crash(w)
      PROVE  UNCHANGED <<row, told>>
  BY <1>3 DEF Ask, Report, Renew, Send, Crash
<1>4. ASSUME NEW w \in Workers, Execute(w)
      PROVE  \/ UNCHANGED <<row, told>>
             \/ \E reply \in Reply : Claim(w, reply) \/ Extend(w, reply) \/ Conclude(w, reply)
  BY <1>4 DEF Execute, ClaimNothing, Refuse
<1> QED BY <1>1, <1>2, <1>3, <1>4 DEF Next

\* The claim as a change of its row: silence is buried, or a grant is made.
LEMMA ClaimedRow ==
  ASSUME LifecycleInv, NEW w \in Workers, NEW reply \in Reply, Claim(w, reply)
  PROVE  \E i \in Items :
           /\ row[i] \in Rows /\ RecordStateOK(row[i])
           /\ row' = [row EXCEPT ![i] = row'[i]] /\ told' = told
           /\ row'[i].revision = row[i].revision + 1 /\ row'[i].updated_at \in Nat
           /\ \/ /\ row[i].status = "running" /\ row[i].attempt_count = Maximum(i)
                 /\ row'[i].status = "dead_letter" /\ row'[i].failure = "attempts_exhausted"
                 /\ row'[i].attempt_count = row[i].attempt_count
                 /\ row'[i].lease_owner = None /\ row'[i].lease_expires_at = None
                 /\ row'[i].available_at = None
              \/ /\ row[i].status \in {"pending", "running", "retrying"}
                 /\ row[i].attempt_count < Maximum(i)
                 /\ DueTime(i) \in Nat /\ DueTime(i) <= clock
                 /\ row'[i].status = "running" /\ row'[i].lease_owner = w
                 /\ row'[i].attempt_count = row[i].attempt_count + 1
                 /\ row'[i].claimed_at \in Nat /\ row'[i].lease_expires_at \in Nat
                 /\ row'[i].lease_expires_at > row'[i].claimed_at
<1> DEFINE at == call[w].at
<1>1. at \in Nat /\ at <= clock /\ told' = told /\ clock \in Nat
  BY ClaimChanges DEF LifecycleInv, TypeOK
<1>2. PICK i \in Items :
        \/ /\ row[i].status = "running" /\ row[i].attempt_count = Maximum(i)
           /\ row' = [row EXCEPT ![i] = Buried(i, at, "attempts_exhausted")]
        \/ /\ row[i].status \in {"pending", "running", "retrying"}
           /\ row[i].attempt_count < Maximum(i)
           /\ DueTime(i) \in Nat /\ DueTime(i) <= at
           /\ row' = [row EXCEPT ![i] = Granted(i, w, at)]
  BY ClaimChanges
<1>3. /\ row[i] \in Rows /\ RecordStateOK(row[i]) /\ Lease(i) \in Nat \ {0}
      /\ DOMAIN row = Items /\ row \in [Items -> Rows]
  BY Constants DEF LifecycleInv, TypeOK, RecordsValid
<1> HIDE DEF at
<1>4. CASE /\ row[i].status = "running" /\ row[i].attempt_count = Maximum(i)
           /\ row' = [row EXCEPT ![i] = Buried(i, at, "attempts_exhausted")]
  <2> DEFINE r == Buried(i, at, "attempts_exhausted")
  <2>1. "attempts_exhausted" \in Categories
    BY DEF Categories
  <2>2. /\ r.status = "dead_letter" /\ r.updated_at = at /\ r.failure = "attempts_exhausted"
        /\ r.revision = row[i].revision + 1
        /\ r.attempt_count = row[i].attempt_count
        /\ r.lease_owner = None /\ r.lease_expires_at = None /\ r.available_at = None
    BY <1>1, <1>3, <1>4, <2>1, BuriedRow
  <2>3. row'[i] = r /\ row' = [row EXCEPT ![i] = row'[i]]
    BY <1>3, <1>4
  <2> HIDE DEF r
  <2> QED BY <1>1, <1>3, <1>4, <2>2, <2>3
<1>5. CASE /\ row[i].status \in {"pending", "running", "retrying"}
           /\ row[i].attempt_count < Maximum(i)
           /\ DueTime(i) \in Nat /\ DueTime(i) <= at
           /\ row' = [row EXCEPT ![i] = Granted(i, w, at)]
  <2> DEFINE r == Granted(i, w, at)
  <2>1. /\ r.status = "running" /\ r.updated_at = at /\ r.lease_owner = w
        /\ r.revision = row[i].revision + 1
        /\ r.attempt_count = row[i].attempt_count + 1
        /\ r.claimed_at = at /\ r.lease_expires_at = at + Lease(i)
    BY <1>1, <1>3, <1>5, GrantedRow
  <2>2. row'[i] = r /\ row' = [row EXCEPT ![i] = row'[i]]
    BY <1>3, <1>5
  <2>3. at + Lease(i) \in Nat /\ at + Lease(i) > at /\ DueTime(i) <= clock
    BY <1>1, <1>3, <1>5
  <2> HIDE DEF r
  <2>4. /\ row'[i].revision = row[i].revision + 1 /\ row'[i].updated_at \in Nat
        /\ row'[i].status = "running" /\ row'[i].lease_owner = w
        /\ row'[i].attempt_count = row[i].attempt_count + 1
        /\ row'[i].claimed_at \in Nat /\ row'[i].lease_expires_at \in Nat
        /\ row'[i].lease_expires_at > row'[i].claimed_at
    BY <1>1, <2>1, <2>2, <2>3
  <2>5. /\ row[i].status \in {"pending", "running", "retrying"}
        /\ row[i].attempt_count < Maximum(i)
        /\ DueTime(i) \in Nat /\ DueTime(i) <= clock
    BY <1>5, <2>3
  <2>6. row' = [row EXCEPT ![i] = row'[i]]
    BY <2>2
  <2> QED BY <1>1, <1>3, <2>4, <2>5, <2>6
<1> QED BY <1>2, <1>4, <1>5

LEMMA ExtendedRow ==
  ASSUME LifecycleInv, NEW w \in Workers, NEW reply \in Reply, Extend(w, reply)
  PROVE  \E i \in Items :
           /\ row[i] \in Rows /\ RecordStateOK(row[i])
           /\ row' = [row EXCEPT ![i] = row'[i]] /\ told' = told
           /\ row'[i].revision = row[i].revision + 1
           /\ row'[i].attempt_count = row[i].attempt_count
           /\ row[i].status = "running" /\ row'[i].status = "running"
           /\ row'[i].lease_owner = row[i].lease_owner
           /\ row'[i].available_at = None /\ row'[i].failure = None
           /\ row'[i].updated_at \in Nat /\ row'[i].lease_expires_at \in Nat
           /\ row'[i].lease_expires_at > row'[i].updated_at
<1> DEFINE i == hand[w].item
           at == call[w].at
           r == Renewed(i, at)
<1>1. /\ hand[w] # None /\ call[w] # None /\ HasAuthority(w)
      /\ row' = [row EXCEPT ![i] = r] /\ told' = told
  BY DEF Extend
<1>2. /\ i \in Items /\ at \in Nat
      /\ row[i] \in Rows /\ RecordStateOK(row[i]) /\ row[i].status = "running"
      /\ row[i].updated_at <= at
  BY <1>1, Admissible
<1>3. Lease(i) \in Nat \ {0}
  BY <1>2, Constants
<1>4. /\ r.status = "running" /\ r.updated_at = at /\ r.revision = row[i].revision + 1
      /\ r.attempt_count = row[i].attempt_count /\ r.lease_owner = row[i].lease_owner
      /\ r.lease_expires_at = at + Lease(i) /\ r.available_at = None /\ r.failure = None
  BY <1>2, RenewedRow
<1> HIDE DEF r, i, at
<1>5. row'[i] = r /\ row' = [row EXCEPT ![i] = row'[i]]
  BY <1>1, <1>2 DEF LifecycleInv, TypeOK
<1>6. at + Lease(i) \in Nat /\ at + Lease(i) > at
  BY <1>2, <1>3
<1> QED BY <1>1, <1>2, <1>4, <1>5, <1>6

LEMMA ConcludedRow ==
  ASSUME LifecycleInv, NEW w \in Workers, NEW reply \in Reply, Conclude(w, reply)
  PROVE  \E i \in Items :
           /\ row[i] \in Rows /\ RecordStateOK(row[i])
           /\ row' = [row EXCEPT ![i] = row'[i]]
           /\ told' \in {told, told \union {<<i, w, row[i].attempt_count>>}}
           /\ row'[i].revision = row[i].revision + 1
           /\ row'[i].attempt_count = row[i].attempt_count
           /\ row[i].status = "running" /\ row[i].lease_owner = w
           /\ row'[i].status \in {"completed", "retrying", "dead_letter"}
           /\ row'[i].lease_owner = None /\ row'[i].lease_expires_at = None
           /\ row'[i].updated_at \in Nat
           /\ row'[i].status # "retrying" => row'[i].available_at = None
           /\ row'[i].status = "completed" => row'[i].failure = None
           /\ row'[i].status = "retrying" =>
                /\ row'[i].failure \in RetryableCategories
                /\ row'[i].available_at \in Nat /\ row'[i].available_at > row'[i].updated_at
           /\ row'[i].status = "dead_letter" => row'[i].failure \in Categories
<1> DEFINE i == hand[w].item
           at == call[w].at
           r == Verdict(i, call[w])
<1>1. /\ hand[w] # None /\ call[w] # None /\ HasAuthority(w)
      /\ call[w].op \in {"complete", "retry", "terminal"}
      /\ row' = [row EXCEPT ![i] = r]
      /\ told' \in {told, told \union {<<i, w, hand[w].token>>}}
  BY DEF Conclude
<1>2. /\ i \in Items /\ at \in Nat
      /\ row[i] \in Rows /\ RecordStateOK(row[i]) /\ row[i].status = "running"
      /\ row[i].attempt_count = hand[w].token /\ row[i].lease_owner = w
  BY <1>1, Admissible
<1>3. /\ r.status \in {"completed", "retrying", "dead_letter"} /\ r.updated_at = at
      /\ r.revision = row[i].revision + 1
      /\ r.attempt_count = row[i].attempt_count
      /\ r.lease_owner = None /\ r.lease_expires_at = None
      /\ r.status # "retrying" => r.available_at = None
      /\ r.status = "completed" => r.failure = None
      /\ r.status = "retrying" => /\ r.failure \in RetryableCategories
                                  /\ r.available_at \in Nat /\ r.available_at > at
      /\ r.status = "dead_letter" => r.failure \in Categories
  BY <1>1, VerdictRow
<1> HIDE DEF r, i, at
<1>4. row'[i] = r /\ row' = [row EXCEPT ![i] = row'[i]]
  BY <1>1, <1>2 DEF LifecycleInv, TypeOK
<1> QED BY <1>1, <1>2, <1>3, <1>4

-----------------------------------------------------------------------------
(* Theorems. *)

\* The durable rows, the commands and the authorities keep the relation every other
\* result rests on, under any interleaving of claims, renewals, verdicts, lost
\* answers, crashes and clock ticks.
THEOREM LifecycleCorrect == Spec => []LifecycleInv
BY LifecycleInitially, LifecycleStep, PTL DEF Spec

\* No two workers hold the token of one grant, and no item is granted more often than
\* its policy allows (lifecycle.py:307, 505).
THEOREM GrantsAreExclusive == Spec => []ExclusiveAndCounted
<1>1. LifecycleInv => ExclusiveAndCounted
  BY DEF LifecycleInv
<1> QED BY <1>1, LifecycleCorrect, PTL

\* Every change of a row is a claim or a result its constructor accepts.
LEMMA ChangesAreResults ==
  ASSUME LifecycleInv, [Next]_vars, NEW i \in Items, row'[i] # row[i]
  PROVE  /\ row'[i].revision = row[i].revision + 1
         /\ IF row'[i].attempt_count # row[i].attempt_count
            THEN ClaimOK(ClaimOf(i)) /\ row'[i].attempt_count = row[i].attempt_count + 1
            ELSE TransitionResultOK(ResultOf(i))
<1>1. ASSUME NEW j \in Items, row' = [row EXCEPT ![j] = row'[j]] PROVE j = i
  BY <1>1 DEF LifecycleInv, TypeOK
<1>2. /\ row[i] \in Rows /\ row[i].attempt_count \in Nat /\ row[i].revision \in Nat
      /\ RecordStateOK(row[i])
      /\ row[i].lease_owner \in Workers \cup {None}
      /\ row[i].status = "running" => row[i].attempt_count >= 1 /\ row[i].revision >= 1
      /\ row[i].status = "running" => row[i].lease_owner # None
      /\ row[i].status \in {"pending", "retrying"} => row[i].lease_owner = None
  <2>1. row[i] \in Rows /\ RecordStateOK(row[i])
    BY DEF LifecycleInv, TypeOK, RecordsValid
  <2>2. row[i].lease_owner \in Workers \cup {None}
    BY <2>1 DEF Rows
  <2> QED BY <2>1, <2>2, RowFields, LifecycleAssumption
<1>3. ASSUME NEW w \in Workers, NEW reply \in Reply, Claim(w, reply)
      PROVE  /\ row'[i].revision = row[i].revision + 1
             /\ IF row'[i].attempt_count # row[i].attempt_count
                THEN ClaimOK(ClaimOf(i)) /\ row'[i].attempt_count = row[i].attempt_count + 1
                ELSE TransitionResultOK(ResultOf(i))
  <2>1. /\ row'[i].revision = row[i].revision + 1 /\ row'[i].updated_at \in Nat
        /\ \/ /\ row[i].status = "running"
              /\ row'[i].status = "dead_letter" /\ row'[i].failure = "attempts_exhausted"
              /\ row'[i].attempt_count = row[i].attempt_count
              /\ row'[i].lease_expires_at = None /\ row'[i].available_at = None
           \/ /\ row[i].status \in {"pending", "running", "retrying"}
              /\ row'[i].attempt_count = row[i].attempt_count + 1
              /\ row'[i].claimed_at \in Nat /\ row'[i].lease_expires_at \in Nat
              /\ row'[i].lease_expires_at > row'[i].claimed_at
    BY <1>1, <1>3, ClaimedRow
  <2>2. CASE /\ row[i].status = "running"
             /\ row'[i].status = "dead_letter" /\ row'[i].failure = "attempts_exhausted"
             /\ row'[i].attempt_count = row[i].attempt_count
             /\ row'[i].lease_expires_at = None /\ row'[i].available_at = None
    <3>1. "attempts_exhausted" # None
      BY NoneAssumption DEF Categories
    <3>2. DeadLettering(ResultOf(i))
      BY <2>2, <3>1 DEF DeadLettering, ResultOf, Present
    <3> QED BY <1>2, <2>1, <2>2, <3>2 DEF TransitionResultOK, ResultOf
  <2>3. CASE /\ row[i].status \in {"pending", "running", "retrying"}
             /\ row'[i].attempt_count = row[i].attempt_count + 1
             /\ row'[i].claimed_at \in Nat /\ row'[i].lease_expires_at \in Nat
             /\ row'[i].lease_expires_at > row'[i].claimed_at
    <3>1. Later(row'[i].lease_expires_at, row'[i].claimed_at)
      BY <2>3, NoneAssumption DEF Later
    <3>2. (row[i].status = "running") = Present(row[i].lease_owner)
      BY <1>2, <2>3 DEF Present
    <3>3. row'[i].attempt_count >= 1 /\ row'[i].revision >= 1
          /\ row'[i].attempt_count # row[i].attempt_count
      BY <1>2, <2>1, <2>3
    <3> QED BY <2>1, <2>3, <3>1, <3>2, <3>3 DEF ClaimOK, ClaimOf
  <2> QED BY <2>1, <2>2, <2>3
<1>4. ASSUME NEW w \in Workers, NEW reply \in Reply, Extend(w, reply)
      PROVE  /\ row'[i].revision = row[i].revision + 1
             /\ row'[i].attempt_count = row[i].attempt_count
             /\ TransitionResultOK(ResultOf(i))
  <2>1. /\ row'[i].revision = row[i].revision + 1
        /\ row'[i].attempt_count = row[i].attempt_count
        /\ row[i].status = "running" /\ row'[i].status = "running"
        /\ row'[i].available_at = None /\ row'[i].failure = None
        /\ row'[i].updated_at \in Nat /\ row'[i].lease_expires_at \in Nat
        /\ row'[i].lease_expires_at > row'[i].updated_at
    BY <1>1, <1>4, ExtendedRow
  <2>2. Later(row'[i].lease_expires_at, row'[i].updated_at)
    BY <2>1, NoneAssumption DEF Later
  <2>3. Renewal(ResultOf(i))
    BY <2>1, <2>2 DEF Renewal, ResultOf, Present
  <2> QED BY <1>2, <2>1, <2>3 DEF TransitionResultOK, ResultOf
<1>5. ASSUME NEW w \in Workers, NEW reply \in Reply, Conclude(w, reply)
      PROVE  /\ row'[i].revision = row[i].revision + 1
             /\ row'[i].attempt_count = row[i].attempt_count
             /\ TransitionResultOK(ResultOf(i))
  <2>1. /\ row'[i].revision = row[i].revision + 1
        /\ row'[i].attempt_count = row[i].attempt_count
        /\ row[i].status = "running"
        /\ row'[i].status \in {"completed", "retrying", "dead_letter"}
        /\ row'[i].lease_expires_at = None
        /\ row'[i].updated_at \in Nat
        /\ row'[i].status # "retrying" => row'[i].available_at = None
        /\ row'[i].status = "completed" => row'[i].failure = None
        /\ row'[i].status = "retrying" =>
             /\ row'[i].failure \in RetryableCategories
             /\ row'[i].available_at \in Nat /\ row'[i].available_at > row'[i].updated_at
        /\ row'[i].status = "dead_letter" => row'[i].failure \in Categories
    BY <1>1, <1>5, ConcludedRow
  <2>2. CASE row'[i].status = "completed"
    <3>1. Completion(ResultOf(i))
      BY <2>1, <2>2 DEF Completion, ResultOf, Present
    <3> QED BY <1>2, <2>1, <3>1 DEF TransitionResultOK, ResultOf
  <2>3. CASE row'[i].status = "retrying"
    <3>1. Later(row'[i].available_at, row'[i].updated_at)
      BY <2>1, <2>3, NoneAssumption DEF Later
    <3>2. row'[i].failure # None /\ Retryable(row'[i].failure)
      BY <2>1, <2>3, NoneAssumption DEF Categories, Retryable
    <3>3. Rescheduling(ResultOf(i))
      BY <2>1, <2>3, <3>1, <3>2 DEF Rescheduling, ResultOf, Present
    <3> QED BY <1>2, <2>1, <3>3 DEF TransitionResultOK, ResultOf
  <2>4. CASE row'[i].status = "dead_letter"
    <3>1. row'[i].failure # None
      BY <2>1, <2>4, NoneAssumption
    <3>2. DeadLettering(ResultOf(i))
      BY <2>1, <2>4, <3>1 DEF DeadLettering, ResultOf, Present, Retryable
    <3> QED BY <1>2, <2>1, <3>2 DEF TransitionResultOK, ResultOf
  <2> QED BY <2>1, <2>2, <2>3, <2>4
<1>6. ~ UNCHANGED <<row, told>>
  OBVIOUS
<1> QED BY <1>3, <1>4, <1>5, <1>6, OnlyAnswersChange

\* No legal sequence of calls ends in the ValueError of a constructor: rows, commands,
\* claims and results are all of the shapes it accepts (lifecycle.py:213-700).
THEOREM ConstructorsNeverRaise == Spec => ConstructorsAccept
<1>1. LifecycleInv => TypeOK /\ RecordsValid /\ CommandsValid
  BY DEF LifecycleInv
<1>2. LifecycleInv /\ [Next]_vars =>
        [\A i \in Items : row'[i] # row[i] =>
           /\ row'[i].revision = row[i].revision + 1
           /\ IF row'[i].attempt_count # row[i].attempt_count
              THEN ClaimOK(ClaimOf(i)) /\ row'[i].attempt_count = row[i].attempt_count + 1
              ELSE TransitionResultOK(ResultOf(i))]_vars
  BY ChangesAreResults
<1> QED BY <1>1, <1>2, LifecycleCorrect, PTL DEF Spec, ConstructorsAccept, ResultsValid

\* An item changes hands only when its lease has run out, and is retried only after
\* its backoff, whatever timestamp the claim carries (lifecycle.py:307).
THEOREM NothingIsEarly == Spec => NothingTakenEarly
<1>1. ASSUME LifecycleInv, [Next]_vars, NEW i \in Items,
             row'[i].attempt_count # row[i].attempt_count
      PROVE  clock >= DueTime(i)
  <2>1. ASSUME NEW j \in Items, row' = [row EXCEPT ![j] = row'[j]] PROVE j = i
    BY <1>1, <2>1 DEF LifecycleInv, TypeOK
  <2>2. PICK w \in Workers, reply \in Reply : Claim(w, reply)
    BY <1>1, <2>1, OnlyAnswersChange, ExtendedRow, ConcludedRow
  <2>3. DueTime(i) \in Nat /\ DueTime(i) <= clock
    BY <1>1, <2>1, <2>2, ClaimedRow
  <2> QED BY <1>1, <2>3 DEF LifecycleInv, TypeOK
<1>2. LifecycleInv /\ [Next]_vars =>
        [\A i \in Items :
           row'[i].attempt_count # row[i].attempt_count => clock >= DueTime(i)]_vars
  BY <1>1
<1> QED BY <1>2, LifecycleCorrect, PTL DEF Spec, NothingTakenEarly

-----------------------------------------------------------------------------
(* The refinement. *)

\* A row in the words of WorkGrants: open, or concluded one way or the other.
StateOf(r) == CASE r.status = "completed" -> "done"
                [] r.status = "dead_letter" -> "dead"
                [] OTHER -> "open"

LEMMA GrantsInitially == Init => Grants!GrantsInit
<1> SUFFICES ASSUME Init PROVE Grants!GrantsInit
  OBVIOUS
<1>1. \A i \in Items : /\ row[i].attempt_count = 0 /\ row[i].lease_owner = None
                       /\ row[i].status = "pending"
  BY DEF Init, Pending
<1> QED BY <1>1 DEF Init, Grants!GrantsInit

\* One changed row changes WorkGrants at that item and nowhere else.
LEMMA ChangedGrants ==
  ASSUME LifecycleInv, NEW i \in Items, row' = [row EXCEPT ![i] = row'[i]]
  PROVE  /\ [j \in Items |-> row'[j].attempt_count] =
              [[j \in Items |-> row[j].attempt_count] EXCEPT ![i] = row'[i].attempt_count]
         /\ [j \in Items |-> row'[j].lease_owner] =
              [[j \in Items |-> row[j].lease_owner] EXCEPT ![i] = row'[i].lease_owner]
         /\ [j \in Items |-> StateOf(row'[j])] =
              [[j \in Items |-> StateOf(row[j])] EXCEPT ![i] = StateOf(row'[i])]
<1>1. \A j \in Items : j # i => row'[j] = row[j]
  BY DEF LifecycleInv, TypeOK
<1> QED BY <1>1

LEMMA GrantsStep == LifecycleInv /\ [Next]_vars => [Grants!GrantsNext]_(Grants!grantVars)
<1> SUFFICES ASSUME LifecycleInv, [Next]_vars
             PROVE  Grants!GrantsNext \/ UNCHANGED Grants!grantVars
  OBVIOUS
<1> DEFINE grants == [j \in Items |-> row[j].attempt_count]
           grantee == [j \in Items |-> row[j].lease_owner]
           state == [j \in Items |-> StateOf(row[j])]
<1>1. ASSUME UNCHANGED <<row, told>> PROVE UNCHANGED Grants!grantVars
  BY <1>1 DEF Grants!grantVars
<1>2. ASSUME NEW w \in Workers, NEW reply \in Reply, Claim(w, reply)
      PROVE  Grants!GrantsNext
  <2>1. PICK i \in Items :
           /\ row[i] \in Rows /\ RecordStateOK(row[i])
           /\ row' = [row EXCEPT ![i] = row'[i]] /\ told' = told
           /\ \/ /\ row[i].status = "running" /\ row[i].attempt_count = Maximum(i)
                 /\ row'[i].status = "dead_letter"
                 /\ row'[i].attempt_count = row[i].attempt_count
                 /\ row'[i].lease_owner = None
              \/ /\ row[i].status \in {"pending", "running", "retrying"}
                 /\ row[i].attempt_count < Maximum(i)
                 /\ row'[i].status = "running" /\ row'[i].lease_owner = w
                 /\ row'[i].attempt_count = row[i].attempt_count + 1
    BY <1>2, ClaimedRow
  <2>2. /\ grants' = [grants EXCEPT ![i] = row'[i].attempt_count]
        /\ grantee' = [grantee EXCEPT ![i] = row'[i].lease_owner]
        /\ state' = [state EXCEPT ![i] = StateOf(row'[i])]
    BY <2>1, ChangedGrants
  <2>3. /\ grants[i] = row[i].attempt_count /\ grantee[i] = row[i].lease_owner
        /\ state[i] = StateOf(row[i])
        /\ [j \in Items |-> Maximum(j)][i] = Maximum(i) /\ Maximum(i) \in Nat
    BY Constants
  <2>4. CASE /\ row[i].status = "running" /\ row[i].attempt_count = Maximum(i)
             /\ row'[i].status = "dead_letter"
             /\ row'[i].attempt_count = row[i].attempt_count /\ row'[i].lease_owner = None
    <3>1. row[i].lease_owner # None
      BY <2>1, <2>4, RowFields, LifecycleAssumption
    <3>2. StateOf(row[i]) = "open" /\ StateOf(row'[i]) = "dead"
      BY <2>4 DEF StateOf
    <3>3. grants' = grants
      BY <2>2, <2>4
    <3>4. Grants!Expire(i)
      BY <2>1, <2>2, <2>3, <2>4, <3>1, <3>2, <3>3 DEF Grants!Expire, StateOf
    <3> QED BY <3>4 DEF Grants!GrantsNext
  <2>5. CASE /\ row[i].status \in {"pending", "running", "retrying"}
             /\ row[i].attempt_count < Maximum(i)
             /\ row'[i].status = "running" /\ row'[i].lease_owner = w
             /\ row'[i].attempt_count = row[i].attempt_count + 1
    <3>1. StateOf(row[i]) = "open" /\ StateOf(row'[i]) = "open"
      BY <2>5 DEF StateOf
    <3>2. state' = state
      BY <2>2, <2>3, <3>1
    <3>3. Grants!Grant(i, w)
      BY <2>1, <2>2, <2>3, <2>5, <3>1, <3>2 DEF Grants!Grant, StateOf
    <3> QED BY <3>3 DEF Grants!GrantsNext
  <2> QED BY <2>1, <2>4, <2>5
<1>3. ASSUME NEW w \in Workers, NEW reply \in Reply, Extend(w, reply)
      PROVE  UNCHANGED Grants!grantVars
  <2>1. PICK i \in Items :
           /\ row' = [row EXCEPT ![i] = row'[i]] /\ told' = told
           /\ row'[i].attempt_count = row[i].attempt_count
           /\ row[i].status = "running" /\ row'[i].status = "running"
           /\ row'[i].lease_owner = row[i].lease_owner
    BY <1>3, ExtendedRow
  <2>2. \A j \in Items : j # i => row'[j] = row[j]
    BY <2>1 DEF LifecycleInv, TypeOK
  <2> QED BY <2>1, <2>2 DEF Grants!grantVars
<1>4. ASSUME NEW w \in Workers, NEW reply \in Reply, Conclude(w, reply)
      PROVE  Grants!GrantsNext
  <2>1. PICK i \in Items :
           /\ row[i] \in Rows /\ RecordStateOK(row[i])
           /\ row' = [row EXCEPT ![i] = row'[i]]
           /\ told' \in {told, told \union {<<i, w, row[i].attempt_count>>}}
           /\ row'[i].attempt_count = row[i].attempt_count
           /\ row[i].status = "running" /\ row[i].lease_owner = w
           /\ row'[i].status \in {"completed", "retrying", "dead_letter"}
           /\ row'[i].lease_owner = None
    BY <1>4, ConcludedRow
  <2>2. /\ grants' = [grants EXCEPT ![i] = row'[i].attempt_count]
        /\ grantee' = [grantee EXCEPT ![i] = row'[i].lease_owner]
        /\ state' = [state EXCEPT ![i] = StateOf(row'[i])]
    BY <2>1, ChangedGrants
  <2>3. /\ grants[i] = row[i].attempt_count /\ grantee[i] = row[i].lease_owner
        /\ state[i] = StateOf(row[i])
    OBVIOUS
  <2>4. StateOf(row[i]) = "open" /\ StateOf(row'[i]) \in {"open", "done", "dead"}
    BY <2>1 DEF StateOf
  <2>5. grants' = grants
    BY <2>1, <2>2
  <2>6. state' \in {[state EXCEPT ![i] = s] : s \in {"open", "done", "dead"}}
    BY <2>2, <2>4
  <2>7. Grants!Conclude(i, w)
    BY <2>1, <2>2, <2>3, <2>4, <2>5, <2>6 DEF Grants!Conclude, StateOf
  <2> QED BY <2>7 DEF Grants!GrantsNext
<1> QED BY <1>1, <1>2, <1>3, <1>4, OnlyAnswersChange

\* The lifecycle implements WorkGrants: grants are exclusive and counted, only the
\* current grantee concludes an item, what it was told is what is stored, and nothing
\* concluded is ever reopened (ports.py:124).
THEOREM LifecycleImplementsGrants == Spec => ImplementsGrants
BY GrantsInitially, GrantsStep, LifecycleCorrect, PTL
   DEF Spec, ImplementsGrants, Grants!GrantsSpec

-----------------------------------------------------------------------------
(* evaluate_retry: the powers of the backoff.  Induction is by the least     *)
(* number outside a set.                                                     *)

\* Among any natural numbers there is a smallest one.
LEMMA LeastNumber ==
  ASSUME NEW T \in SUBSET Nat, T # {}
  PROVE  \E n \in T : \A m \in T : n <= m
<1>1. PICK n \in T : \A m \in T : <<m, n>> \notin OpToRel(<, Nat)
  BY WFMin, NatLessThanWellFounded, Zenon
<1>2. \A m \in T : ~(m < n)
  BY <1>1, Zenon DEF OpToRel
<1> QED BY <1>2

\* Induction, for a set instead of a predicate.
LEMMA Counting ==
  ASSUME NEW T, 0 \in T, \A n \in Nat : n \in T => n + 1 \in T
  PROVE  Nat \subseteq T
<1> SUFFICES ASSUME Nat \ T # {} PROVE FALSE
  OBVIOUS
<1>1. PICK n \in Nat \ T : \A m \in Nat \ T : n <= m
  BY LeastNumber
<1>2. n # 0 /\ n - 1 \in Nat
  BY <1>1
<1> QED BY <1>1, <1>2

\* The first powers of x, as a function.
Powers(x, n) ==
  {g \in [0 .. n -> Nat] : g[0] = 1 /\ \A k \in 0 .. n - 1 : g[k + 1] = x * g[k]}

\* There are such functions of every length, since each can be prolonged.
LEMMA PowersExist ==
  ASSUME NEW x \in Nat, NEW n \in Nat
  PROVE  Powers(x, n) # {}
<1> DEFINE Reached == {m \in Nat : Powers(x, m) # {}}
<1>1. 0 \in Reached
  <2>1. [k \in 0 .. 0 |-> 1] \in Powers(x, 0)
    BY DEF Powers
  <2> QED BY <2>1
<1>2. ASSUME NEW m \in Nat, m \in Reached PROVE m + 1 \in Reached
  <2>1. PICK g \in Powers(x, m) : TRUE
    BY <1>2
  <2>2. g \in [0 .. m -> Nat] /\ g[0] = 1 /\ \A k \in 0 .. m - 1 : g[k + 1] = x * g[k]
    BY <2>1 DEF Powers
  <2> DEFINE h == [k \in 0 .. m + 1 |-> IF k <= m THEN g[k] ELSE x * g[m]]
  <2>3. x * g[m] \in Nat
    BY <2>2
  <2>4. h \in [0 .. m + 1 -> Nat] /\ h[0] = 1
    BY <2>2, <2>3
  <2>5. ASSUME NEW k \in 0 .. m PROVE h[k + 1] = x * h[k]
    <3>1. k \in 0 .. m + 1 /\ k + 1 \in 0 .. m + 1 /\ h[k] = g[k]
      BY <2>2
    <3>2. CASE k = m
      <4>1. h[k + 1] = x * g[m]
        BY <3>1, <3>2
      <4> QED BY <3>1, <3>2, <4>1
    <3>3. CASE k # m
      <4>1. k \in 0 .. m - 1 /\ k + 1 <= m
        BY <3>3
      <4>2. h[k + 1] = g[k + 1]
        BY <3>1, <4>1
      <4> HIDE DEF h
      <4> QED BY <2>2, <3>1, <4>1, <4>2
    <3> QED BY <3>2, <3>3
  <2>6. h \in Powers(x, m + 1)
    <3> HIDE DEF h
    <3>1. (m + 1) - 1 = m
      OBVIOUS
    <3> QED BY <2>4, <2>5, <3>1 DEF Powers
  <2> HIDE DEF h
  <2> QED BY <2>6
<1>3. Nat \subseteq Reached
  <2> HIDE DEF Reached
  <2> QED BY <1>1, <1>2, Counting
<1> QED BY <1>3

\* They agree with each other.
LEMMA PowersAgree ==
  ASSUME NEW x \in Nat, NEW n \in Nat, NEW m \in Nat, n <= m,
         NEW g \in Powers(x, n), NEW h \in Powers(x, m)
  PROVE  g[n] = h[n]
<1> DEFINE Equal == {k \in Nat : k <= n => g[k] = h[k]}
<1>1. 0 \in Equal
  BY DEF Powers
<1>2. ASSUME NEW k \in Nat, k \in Equal PROVE k + 1 \in Equal
  <2> SUFFICES ASSUME k + 1 <= n PROVE g[k + 1] = h[k + 1]
    OBVIOUS
  <2>1. k \in 0 .. n - 1 /\ k \in 0 .. m - 1
    OBVIOUS
  <2>2. g[k + 1] = x * g[k] /\ h[k + 1] = x * h[k]
    BY <2>1 DEF Powers
  <2>3. g[k] = h[k]
    BY <1>2
  <2> QED BY <2>2, <2>3
<1>3. n \in Equal
  <2> HIDE DEF Equal
  <2> QED BY <1>1, <1>2, Counting
<1> QED BY <1>3

\* The recursion of Power defines a function, and it is what pow() returns.
LEMMA PowerValues ==
  ASSUME NEW x \in Nat
  PROVE  /\ Power(x) \in [Nat -> Nat]
         /\ Power(x)[0] = 1
         /\ \A n \in Nat : Power(x)[n + 1] = x * Power(x)[n]
<1> DEFINE first(n) == CHOOSE g \in Powers(x, n) : TRUE
           power == [n \in Nat |-> first(n)[n]]
<1>1. \A n \in Nat : first(n) \in Powers(x, n)
  BY PowersExist
<1> HIDE DEF first
<1>2. \A n \in Nat : first(n)[n] \in Nat
  BY <1>1 DEF Powers
<1>3. first(0)[0] = 1
  BY <1>1 DEF Powers
<1>4. ASSUME NEW n \in Nat PROVE first(n + 1)[n + 1] = x * first(n)[n]
  <2>1. first(n)[n] = first(n + 1)[n]
    BY <1>1, PowersAgree
  <2>2. first(n + 1)[n + 1] = x * first(n + 1)[n]
    <3>1. n \in 0 .. (n + 1) - 1 /\ first(n + 1) \in Powers(x, n + 1)
      BY <1>1
    <3> QED BY <3>1 DEF Powers
  <2> QED BY <2>1, <2>2
<1>5. \A n \in Nat : power[n] = IF n = 0 THEN 1 ELSE x * power[n - 1]
  <2> TAKE n \in Nat
  <2>1. CASE n = 0
    BY <1>3, <2>1
  <2>2. CASE n # 0
    <3>1. n - 1 \in Nat /\ (n - 1) + 1 = n
      BY <2>2
    <3>2. first((n - 1) + 1)[(n - 1) + 1] = x * first(n - 1)[n - 1]
      BY <1>4, <3>1
    <3> QED BY <2>2, <3>1, <3>2
  <2> QED BY <2>1, <2>2
<1>6. power = [n \in Nat |-> IF n = 0 THEN 1 ELSE x * power[n - 1]]
  <2>1. power = [n \in Nat |-> power[n]]
    OBVIOUS
  <2> HIDE DEF power
  <2> QED BY <1>5, <2>1
<1> HIDE DEF power
<1>7. Power(x) = [n \in Nat |-> IF n = 0 THEN 1 ELSE x * Power(x)[n - 1]]
  BY <1>6, Zenon DEF Power
<1>8. \A n \in Nat : Power(x)[n] = IF n = 0 THEN 1 ELSE x * Power(x)[n - 1]
  BY <1>7, Zenon
<1>9. Power(x)[0] = 1
  BY <1>8
<1>10. ASSUME NEW n \in Nat PROVE Power(x)[n + 1] = x * Power(x)[n]
  <2>1. n + 1 \in Nat /\ n + 1 # 0 /\ (n + 1) - 1 = n
    OBVIOUS
  <2> QED BY <1>8, <2>1
<1>11. \A n \in Nat : Power(x)[n] \in Nat
  <2> DEFINE Typed == {k \in Nat : Power(x)[k] \in Nat}
  <2>1. 0 \in Typed
    BY <1>9
  <2>2. ASSUME NEW k \in Nat, k \in Typed PROVE k + 1 \in Typed
    <3>1. Power(x)[k + 1] = x * Power(x)[k] /\ Power(x)[k] \in Nat
      BY <1>10, <2>2
    <3> QED BY <3>1
  <2>3. Nat \subseteq Typed
    <3> HIDE DEF Typed
    <3> QED BY <2>1, <2>2, Counting
  <2> QED BY <2>3
<1>12. Power(x) \in [Nat -> Nat]
  <2>1. Power(x) = [n \in Nat |-> Power(x)[n]]
    BY <1>7, Zenon
  <2> QED BY <1>11, <2>1
<1> QED BY <1>9, <1>10, <1>12

-----------------------------------------------------------------------------
(* evaluate_retry: quotients rounded down, and what is floored and capped.   *)

\* A quotient rounded down.
LEMMA Quotient ==
  ASSUME NEW a \in Int, NEW d \in Nat \ {0}
  PROVE  /\ a \div d \in Int
         /\ d * (a \div d) <= a
         /\ a < d * (a \div d) + d
         /\ \A q \in Int : d * q <= a => q <= a \div d
<1>1. a \div d \in Int /\ d * (a \div d) <= a /\ a < d * (a \div d) + d
  OBVIOUS
<1>2. ASSUME NEW q \in Int, d * q <= a PROVE q <= a \div d
  <2> DEFINE p == a \div d
  <2> HIDE DEF p
  <2>1. p \in Int /\ a < d * p + d
    BY <1>1 DEF p
  <2>2. d * q < d * (p + 1)
    BY <1>2, <2>1
  <2>3. q < p + 1
    BY <2>1, <2>2
  <2> QED BY <2>1, <2>3 DEF p
<1> QED BY <1>1, <1>2

LEMMA ProductGrows ==
  ASSUME NEW x \in Nat, NEW a \in Int, NEW b \in Int, a <= b
  PROVE  x * a <= x * b
OBVIOUS

\* The larger and the smaller of two.
LEMMA TwoNumbers ==
  ASSUME NEW a \in Int, NEW b \in Int
  PROVE  /\ Min({a, b}) = IF a <= b THEN a ELSE b
         /\ Max({a, b}) = IF a <= b THEN b ELSE a
<1>1. ASSUME NEW m, m \in {a, b}, \A y \in {a, b} : m <= y
      PROVE  Min({a, b}) = m
  <2>1. \E n \in {a, b} : \A y \in {a, b} : n <= y
    BY <1>1
  <2>2. Min({a, b}) \in {a, b} /\ \A y \in {a, b} : Min({a, b}) <= y
    BY <2>1, Zenon DEF Min
  <2> QED BY <1>1, <2>2
<1>2. ASSUME NEW m, m \in {a, b}, \A y \in {a, b} : m >= y
      PROVE  Max({a, b}) = m
  <2>1. \E n \in {a, b} : \A y \in {a, b} : n >= y
    BY <1>2
  <2>2. Max({a, b}) \in {a, b} /\ \A y \in {a, b} : Max({a, b}) >= y
    BY <2>1, Zenon DEF Max
  <2> QED BY <1>2, <2>2
<1>3. CASE a <= b
  BY <1>1, <1>2, <1>3
<1>4. CASE ~(a <= b)
  BY <1>1, <1>2, <1>4
<1> QED BY <1>3, <1>4

LEMMA TimingNumbers ==
  /\ BasisPoints \in Nat \ {0} /\ DigestMax \in Nat \ {0} /\ HintUnits \in Nat \ {0}
  /\ InitialDelay \in Nat \ {0} /\ MaximumDelay \in Nat \ {0}
  /\ Multiplier \in Nat /\ Multiplier >= BasisPoints
  /\ Jitter \in Nat /\ Jitter < BasisPoints
BY TimingAssumption DEF TimingPolicyOK

\* The multiplier's powers are no smaller than those of the basis, none of which is zero.
LEMMA PowersGrow ==
  ASSUME NEW n \in Nat
  PROVE  /\ Power(BasisPoints)[n] \in Nat \ {0}
         /\ Power(Multiplier)[n] \in Nat
         /\ Power(Multiplier)[n] >= Power(BasisPoints)[n]
<1> DEFINE B(k) == Power(BasisPoints)[k]
           M(k) == Power(Multiplier)[k]
           Grown == {k \in Nat : B(k) # 0 /\ M(k) >= B(k)}
<1>1. /\ \A k \in Nat : B(k) \in Nat /\ B(k + 1) = BasisPoints * B(k)
      /\ \A k \in Nat : M(k) \in Nat /\ M(k + 1) = Multiplier * M(k)
      /\ B(0) = 1 /\ M(0) = 1
  BY TimingNumbers, PowerValues
<1> HIDE DEF B, M
<1>2. 0 \in Grown
  BY <1>1
<1>3. ASSUME NEW k \in Nat, k \in Grown PROVE k + 1 \in Grown
  <2>1. /\ B(k) \in Nat /\ B(k) # 0 /\ M(k) \in Nat /\ M(k) >= B(k)
        /\ B(k + 1) = BasisPoints * B(k) /\ M(k + 1) = Multiplier * M(k)
        /\ B(k + 1) \in Nat /\ M(k + 1) \in Nat
    BY <1>1, <1>3
  <2>2. B(k + 1) # 0
    BY <2>1, TimingNumbers
  <2>3. BasisPoints * B(k) <= BasisPoints * M(k)
    BY <2>1, TimingNumbers, ProductGrows
  <2>4. M(k) * BasisPoints <= M(k) * Multiplier
    BY <2>1, TimingNumbers, ProductGrows
  <2>5. BasisPoints * B(k) <= Multiplier * M(k)
    BY <2>1, <2>3, <2>4, TimingNumbers
  <2> QED BY <2>1, <2>2, <2>5
<1>4. n \in Grown
  <2> HIDE DEF Grown
  <2> QED BY <1>2, <1>3, Counting
<1> QED BY <1>1, <1>4 DEF B, M

\* The delay before the cap: what is floored, and by what.
Numerator(n) == InitialDelay * Power(Multiplier)[n - 1]
Denominator(n) == Power(BasisPoints)[n - 1]

LEMMA BaseDelayIs ==
  ASSUME NEW n \in Nat \ {0}
  PROVE  /\ Numerator(n) \in Nat /\ Denominator(n) \in Nat \ {0}
         /\ Numerator(n) \div Denominator(n) \in Nat \ {0}
         /\ BaseDelay(n) = IF MaximumDelay <= Numerator(n) \div Denominator(n)
                           THEN MaximumDelay ELSE Numerator(n) \div Denominator(n)
         /\ BaseDelay(n) \in 1 .. MaximumDelay
<1> DEFINE m == Power(Multiplier)[n - 1]
           d == Denominator(n)
           q == Numerator(n) \div d
<1>1. m \in Nat /\ d \in Nat \ {0} /\ m >= d
  BY PowersGrow DEF Denominator
<1>2. Numerator(n) = InitialDelay * m
  BY DEF Numerator
<1>3. Numerator(n) \in Nat /\ d * 1 <= Numerator(n)
  <2> HIDE DEF m, d
  <2>1. m * 1 <= m * InitialDelay
    BY <1>1, TimingNumbers, ProductGrows
  <2> QED BY <1>1, <1>2, <2>1, TimingNumbers
<1>4. q \in Int /\ 1 <= q
  <2> HIDE DEF d
  <2> QED BY <1>1, <1>3, Quotient
<1>5. BaseDelay(n) = Min({MaximumDelay, q})
  BY DEF BaseDelay, Numerator, Denominator
<1>6. BaseDelay(n) = IF MaximumDelay <= q THEN MaximumDelay ELSE q
  <2> HIDE DEF q
  <2> QED BY <1>4, <1>5, TwoNumbers, TimingNumbers
<1> HIDE DEF m, q
<1>7. BaseDelay(n) \in 1 .. MaximumDelay
  BY <1>4, <1>6, TimingNumbers
<1> QED BY <1>1, <1>3, <1>4, <1>6, <1>7 DEF q

\* The digest moves the offset from -Jitter to Jitter.
LEMMA OffsetIsBounded ==
  ASSUME NEW v \in 0 .. DigestMax
  PROVE  JitterOffset(v) \in -Jitter .. Jitter
<1> DEFINE p == 2 * Jitter * v
           q == p \div DigestMax
<1>1. p \in Nat /\ DigestMax * 0 <= p /\ p <= DigestMax * (2 * Jitter)
  <2>1. 2 * Jitter \in Nat
    BY TimingNumbers
  <2>2. (2 * Jitter) * v <= (2 * Jitter) * DigestMax
    BY <2>1, TimingNumbers, ProductGrows
  <2> QED BY <2>1, <2>2, TimingNumbers
<1>2. q \in Int /\ 0 <= q /\ DigestMax * q <= DigestMax * (2 * Jitter)
  <2> HIDE DEF p
  <2> QED BY <1>1, TimingNumbers, Quotient
<1>3. q <= 2 * Jitter
  <2> HIDE DEF q
  <2>1. CASE q >= 2 * Jitter + 1
    <3>1. DigestMax * (2 * Jitter + 1) <= DigestMax * q
      BY <1>2, <2>1, TimingNumbers, ProductGrows
    <3> QED BY <1>2, <3>1, TimingNumbers
  <2> QED BY <1>2, <2>1, TimingNumbers
<1>4. JitterOffset(v) = q - Jitter
  BY DEF JitterOffset
<1> HIDE DEF q
<1> QED BY <1>2, <1>3, <1>4, TimingNumbers

\* What WithinJitter says of one attempt.
LEMMA JitterIsBounded ==
  ASSUME NEW n \in Nat \ {0}, NEW v \in 0 .. DigestMax
  PROVE  LET base == BaseDelay(n)
             calculated == CalculatedDelay(n, v)
         IN  /\ calculated \in 1 .. MaximumDelay
             /\ calculated * BasisPoints <= base * (BasisPoints + Jitter)
             /\ \/ calculated = MaximumDelay
                \/ (calculated + 1) * BasisPoints > base * (BasisPoints - Jitter)
<1> DEFINE base == BaseDelay(n)
           offset == JitterOffset(v)
           moved == base * (BasisPoints + offset)
           q == moved \div BasisPoints
           calculated == CalculatedDelay(n, v)
<1>1. base \in 1 .. MaximumDelay
  BY BaseDelayIs
<1>2. offset \in -Jitter .. Jitter
  BY OffsetIsBounded
<1> HIDE DEF base, offset
<1>3. moved \in Int
  BY <1>1, <1>2, TimingNumbers
<1>4. base * (BasisPoints - Jitter) <= moved /\ moved <= base * (BasisPoints + Jitter)
  <2>1. /\ BasisPoints - Jitter \in Int /\ BasisPoints + offset \in Int
        /\ BasisPoints + Jitter \in Int /\ base \in Nat
        /\ BasisPoints - Jitter <= BasisPoints + offset
        /\ BasisPoints + offset <= BasisPoints + Jitter
    BY <1>1, <1>2, TimingNumbers
  <2> QED BY <2>1, ProductGrows
<1>5. base * (BasisPoints + Jitter) >= BasisPoints
  <2>1. BasisPoints + Jitter \in Nat /\ base \in Int /\ 1 <= base
    BY <1>1, TimingNumbers
  <2>2. (BasisPoints + Jitter) * 1 <= (BasisPoints + Jitter) * base
    BY <2>1, ProductGrows
  <2> QED BY <2>1, <2>2, TimingNumbers
<1> HIDE DEF moved
<1>6. q \in Int /\ BasisPoints * q <= moved /\ moved < BasisPoints * q + BasisPoints
  BY <1>3, TimingNumbers, Quotient
<1>7. calculated = Max({1, Min({MaximumDelay, q})})
  BY DEF CalculatedDelay, base, offset, moved
<1> HIDE DEF q, calculated
<1>8. Min({MaximumDelay, q}) = IF MaximumDelay <= q THEN MaximumDelay ELSE q
  BY <1>6, TwoNumbers, TimingNumbers
<1>9. calculated = IF 1 <= Min({MaximumDelay, q}) THEN Min({MaximumDelay, q}) ELSE 1
  <2> DEFINE capped == Min({MaximumDelay, q})
  <2>1. capped \in Int /\ calculated = Max({1, capped})
    BY <1>6, <1>7, <1>8, TimingNumbers
  <2> HIDE DEF capped
  <2>2. calculated = IF 1 <= capped THEN capped ELSE 1
    BY <2>1, TwoNumbers
  <2> QED BY <2>2 DEF capped
<1>10. calculated \in 1 .. MaximumDelay
  BY <1>6, <1>8, <1>9, TimingNumbers
<1>11. calculated = 1 \/ calculated <= q
  BY <1>6, <1>8, <1>9, TimingNumbers
<1>12. calculated = MaximumDelay \/ q <= calculated
  BY <1>6, <1>8, <1>9, TimingNumbers
<1>13. calculated * BasisPoints <= base * (BasisPoints + Jitter)
  <2>1. CASE calculated = 1
    BY <1>5, <2>1, TimingNumbers
  <2>2. CASE calculated <= q
    <3>1. BasisPoints * calculated <= BasisPoints * q
      BY <1>6, <1>10, <2>2, TimingNumbers, ProductGrows
    <3>2. base * (BasisPoints + Jitter) \in Int
      BY <1>1, TimingNumbers
    <3> QED BY <1>3, <1>4, <1>6, <1>10, <3>1, <3>2, TimingNumbers
  <2> QED BY <1>11, <2>1, <2>2
<1>14. ASSUME calculated # MaximumDelay
       PROVE  (calculated + 1) * BasisPoints > base * (BasisPoints - Jitter)
  <2>1. BasisPoints * q <= BasisPoints * calculated
    BY <1>6, <1>10, <1>12, <1>14, TimingNumbers, ProductGrows
  <2>2. base * (BasisPoints - Jitter) \in Int
    BY <1>1, TimingNumbers
  <2> QED BY <1>3, <1>4, <1>6, <1>10, <2>1, <2>2, TimingNumbers
<1> QED BY <1>10, <1>13, <1>14 DEF base, calculated

LEMMA HintSecondsIs ==
  ASSUME NEW h \in Nat
  PROVE  HintSeconds(h) \in Nat /\ HintUnits * HintSeconds(h) >= h
<1> DEFINE a == h + HintUnits - 1
           q == a \div HintUnits
<1>1. a \in Nat /\ HintUnits * 0 <= a
  BY TimingNumbers
<1>2. q \in Int /\ 0 <= q /\ a < HintUnits * q + HintUnits
  <2> HIDE DEF a
  <2> QED BY <1>1, TimingNumbers, Quotient
<1>3. HintSeconds(h) = q
  BY DEF HintSeconds
<1> HIDE DEF q
<1> QED BY <1>2, <1>3, TimingNumbers

\* What HintHonoured says of one attempt.
LEMMA HintIsHonoured ==
  ASSUME NEW n \in Nat \ {0}, NEW v \in 0 .. DigestMax, NEW h \in Int \cup {NoHint}
  PROVE  LET delay == RetryDelay(n, v, h)
         IN  /\ delay \in 1 .. MaximumDelay
             /\ delay >= CalculatedDelay(n, v)
             /\ h # NoHint /\ h > 0 => delay = MaximumDelay \/ delay * HintUnits >= h
             /\ h = NoHint \/ h = -1 => delay = CalculatedDelay(n, v)
<1> DEFINE c == CalculatedDelay(n, v)
           delay == RetryDelay(n, v, h)
<1>1. c \in 1 .. MaximumDelay
  BY JitterIsBounded
<1> HIDE DEF c
<1>2. CASE h = NoHint \/ ~(h >= 0)
  <2>1. delay = c
    BY <1>2 DEF RetryDelay, Usable, c
  <2> HIDE DEF delay
  <2>2. delay \in 1 .. MaximumDelay /\ delay >= c /\ delay = c
    BY <1>1, <2>1, TimingNumbers
  <2>3. ~(h # NoHint /\ h > 0)
    BY <1>2
  <2> QED BY <2>2, <2>3 DEF c, delay
<1>3. CASE h # NoHint /\ h >= 0
  <2> DEFINE s == HintSeconds(h)
             m == Max({c, s})
  <2>1. h \in Nat /\ s \in Nat /\ HintUnits * s >= h
    BY <1>3, HintSecondsIs
  <2>2. delay = Min({MaximumDelay, m})
    BY <1>3 DEF RetryDelay, Usable, c
  <2> HIDE DEF s, delay
  <2>3. m = IF c <= s THEN s ELSE c
    BY <1>1, <2>1, TwoNumbers, TimingNumbers
  <2> HIDE DEF m
  <2>4. delay = IF MaximumDelay <= m THEN MaximumDelay ELSE m
    <3>1. m \in Int /\ MaximumDelay \in Int
      BY <1>1, <2>1, <2>3, TimingNumbers
    <3> QED BY <2>2, <3>1, TwoNumbers
  <2>5. delay \in 1 .. MaximumDelay /\ delay >= c /\ (delay = MaximumDelay \/ delay >= s)
    BY <1>1, <2>1, <2>3, <2>4, TimingNumbers
  <2>6. ASSUME delay >= s PROVE delay * HintUnits >= h
    <3>1. HintUnits * s <= HintUnits * delay
      BY <2>1, <2>5, <2>6, TimingNumbers, ProductGrows
    <3> QED BY <2>1, <2>5, <3>1, TimingNumbers
  <2>7. ~(h = NoHint \/ h = -1)
    BY <1>3, <2>1
  <2> QED BY <2>5, <2>6, <2>7 DEF c, delay
<1> QED BY <1>2, <1>3

\* What BackoffGrows says of two attempts.
LEMMA BackoffIsGrowing ==
  ASSUME NEW n \in Nat \ {0}
  PROVE  /\ BaseDelay(n + 1) >= BaseDelay(n)
         /\ \/ BaseDelay(n + 1) * BasisPoints > BaseDelay(n) * Multiplier - BasisPoints
            \/ BaseDelay(n + 1) = MaximumDelay
<1> DEFINE a == Numerator(n)
           d == Denominator(n)
           p == a \div d
           a2 == Numerator(n + 1)
           d2 == Denominator(n + 1)
           q == a2 \div d2
<1>1. a \in Nat /\ d \in Nat \ {0} /\ p \in Nat \ {0} /\ q \in Nat \ {0}
  BY BaseDelayIs
<1>2. a2 = a * Multiplier /\ d2 = d * BasisPoints
  <2>1. (n + 1) - 1 = (n - 1) + 1 /\ n - 1 \in Nat
    OBVIOUS
  <2>2. /\ Power(Multiplier)[(n - 1) + 1] = Multiplier * Power(Multiplier)[n - 1]
        /\ Power(BasisPoints)[(n - 1) + 1] = BasisPoints * Power(BasisPoints)[n - 1]
        /\ Power(Multiplier)[n - 1] \in Nat /\ Power(BasisPoints)[n - 1] \in Nat
    BY <2>1, PowerValues, TimingNumbers
  <2>3. d2 = d * BasisPoints
    BY <2>1, <2>2, TimingNumbers DEF Denominator
  <2>4. a2 = InitialDelay * (Multiplier * Power(Multiplier)[n - 1])
    BY <2>1, <2>2 DEF Numerator
  <2>5. a = InitialDelay * Power(Multiplier)[n - 1]
    BY DEF Numerator
  <2> QED BY <2>2, <2>3, <2>4, <2>5, TimingNumbers
<1>3. /\ BaseDelay(n) = IF MaximumDelay <= p THEN MaximumDelay ELSE p
      /\ BaseDelay(n + 1) = IF MaximumDelay <= q THEN MaximumDelay ELSE q
  BY BaseDelayIs
<1>4. d * p <= a /\ a2 < d2 * q + d2
  <2>1. a2 \in Nat /\ d2 \in Nat \ {0}
    BY BaseDelayIs
  <2> HIDE DEF a, d, a2, d2
  <2> QED BY <1>1, <2>1, Quotient
<1> HIDE DEF a, d, p, a2, d2, q
<1>5. d * (p * Multiplier) < d * (BasisPoints * q + BasisPoints)
  <2>1. Multiplier * (d * p) <= Multiplier * a
    BY <1>1, <1>4, TimingNumbers, ProductGrows
  <2>2. Multiplier * a < d * BasisPoints * q + d * BasisPoints
    BY <1>1, <1>2, <1>4, TimingNumbers
  <2> QED BY <1>1, <2>1, <2>2, TimingNumbers
<1>6. p * Multiplier < BasisPoints * q + BasisPoints
  <2>1. CASE BasisPoints * q + BasisPoints <= p * Multiplier
    <3>1. d * (BasisPoints * q + BasisPoints) <= d * (p * Multiplier)
      BY <1>1, <2>1, TimingNumbers, ProductGrows
    <3> QED BY <1>1, <1>5, <3>1, TimingNumbers
  <2> QED BY <1>1, <2>1, TimingNumbers
<1>7. q >= p
  <2>1. p * BasisPoints <= p * Multiplier
    BY <1>1, TimingNumbers, ProductGrows
  <2>2. BasisPoints * p < BasisPoints * (q + 1)
    BY <1>1, <1>6, <2>1, TimingNumbers
  <2>3. CASE q + 1 <= p
    <3>1. BasisPoints * (q + 1) <= BasisPoints * p
      BY <1>1, <2>3, TimingNumbers, ProductGrows
    <3> QED BY <1>1, <2>2, <3>1, TimingNumbers
  <2> QED BY <1>1, <2>3
<1>8. BaseDelay(n + 1) >= BaseDelay(n)
  BY <1>1, <1>3, <1>7, TimingNumbers
<1>9. ASSUME BaseDelay(n + 1) # MaximumDelay
      PROVE  BaseDelay(n + 1) * BasisPoints > BaseDelay(n) * Multiplier - BasisPoints
  <2>1. BaseDelay(n + 1) = q /\ BaseDelay(n) = p
    BY <1>1, <1>3, <1>7, <1>9, TimingNumbers
  <2> QED BY <1>1, <1>6, <2>1, TimingNumbers
<1> QED BY <1>8, <1>9

SweepTypeOK ==
  /\ attempt \in 1 .. MaxAttempt
  /\ digest \in 0 .. DigestMax
  /\ hint \in Hints

LEMMA SweepTyped == SweepSpec => []SweepTypeOK
<1>1. SweepInit => SweepTypeOK
  BY SweepAssumption DEF SweepInit, SweepTypeOK
<1>2. SweepTypeOK /\ [FailAgain]_sweepVars => SweepTypeOK'
  BY SweepAssumption DEF SweepTypeOK, FailAgain, sweepVars, Hints
<1> QED BY <1>1, <1>2, PTL DEF SweepSpec

\* Every delay of any policy the constructor accepts, for any number of attempts,
\* any digest and any hint, is a whole second at least and within the maximum; jitter
\* and hint move it only as far as they may, and the backoff grows (lifecycle.py:521-551).
THEOREM DelaysAreRight == SweepSpec => RetryDelays
<1>1. SweepTypeOK => WithinJitter /\ HintHonoured
  <2> SUFFICES ASSUME SweepTypeOK PROVE WithinJitter /\ HintHonoured
    OBVIOUS
  <2>1. /\ attempt \in Nat \ {0} /\ digest \in 0 .. DigestMax
        /\ hint \in Int \cup {NoHint}
    BY SweepAssumption DEF SweepTypeOK, Hints
  <2>2. WithinJitter
    BY <2>1, JitterIsBounded DEF WithinJitter
  <2>3. HintHonoured
    BY <2>1, HintIsHonoured DEF HintHonoured, TheDelay
  <2> QED BY <2>2, <2>3
<1>2. SweepTypeOK /\ [FailAgain]_sweepVars =>
        [/\ BaseDelay(attempt)' >= BaseDelay(attempt)
         /\ \/ BaseDelay(attempt)' * BasisPoints > BaseDelay(attempt) * Multiplier - BasisPoints
            \/ BaseDelay(attempt)' = MaximumDelay]_attempt
  <2> SUFFICES ASSUME SweepTypeOK, FailAgain
               PROVE  /\ BaseDelay(attempt') >= BaseDelay(attempt)
                      /\ \/ BaseDelay(attempt') * BasisPoints
                              > BaseDelay(attempt) * Multiplier - BasisPoints
                         \/ BaseDelay(attempt') = MaximumDelay
    BY DEF sweepVars, BaseDelay
  <2>1. attempt \in Nat \ {0} /\ attempt' = attempt + 1
    BY SweepAssumption DEF SweepTypeOK, FailAgain
  <2> QED BY <2>1, BackoffIsGrowing
<1> QED BY <1>1, <1>2, SweepTyped, PTL DEF SweepSpec, RetryDelays, BackoffGrows

\* What the lifecycle assumes of its delays (DelayAssumption) is what evaluate_retry
\* returns, whatever digest and hint belong to an item and an attempt.
THEOREM DelaysArePositive ==
  ASSUME NEW n \in Nat \ {0}, NEW v \in 0 .. DigestMax, NEW h \in Int \cup {NoHint}
  PROVE  RetryDelay(n, v, h) \in Nat \ {0}
<1>1. RetryDelay(n, v, h) \in 1 .. MaximumDelay
  BY HintIsHonoured
<1> QED BY <1>1, TimingNumbers

-----------------------------------------------------------------------------
(* sanitize_work_error_message: the characters that are kept, by the number  *)
(* of kept characters up to each.                                            *)

\* How many places there are up to n, and the k-th place.
UpTo(places, n) == Cardinality({m \in places : m <= n})
Nth(places, k) == CHOOSE n \in places : UpTo(places, n) = k

LEMMA FirstNumbers ==
  ASSUME NEW N \in Nat
  PROVE  IsFiniteSet(1 .. N) /\ Cardinality(1 .. N) = N
BY FS_Interval

LEMMA PlacesAreFinite ==
  ASSUME NEW N \in Nat, NEW places \in SUBSET (1 .. N)
  PROVE  IsFiniteSet(places) /\ Cardinality(places) \in 0 .. N
<1> DEFINE all == 1 .. N
<1>1. IsFiniteSet(places) /\ Cardinality(places) <= N
  <2>1. IsFiniteSet(all) /\ Cardinality(all) = N /\ places \in SUBSET all
    BY FirstNumbers
  <2> HIDE DEF all
  <2> QED BY <2>1, FS_Subset
<1>2. Cardinality(places) \in Nat
  BY <1>1, FS_CardinalityType
<1> QED BY <1>1, <1>2

LEMMA UpToBounds ==
  ASSUME NEW N \in Nat, NEW places \in SUBSET (1 .. N), NEW n \in places
  PROVE  /\ IsFiniteSet(places) /\ Cardinality(places) \in 0 .. N
         /\ UpTo(places, n) \in 1 .. Cardinality(places)
<1> DEFINE low == {m \in places : m <= n}
<1>2. IsFiniteSet(places) /\ Cardinality(places) \in 0 .. N
  BY PlacesAreFinite
<1>3. low \in SUBSET places /\ n \in low
  OBVIOUS
<1> HIDE DEF low
<1>4. IsFiniteSet(low) /\ Cardinality(low) <= Cardinality(places) /\ Cardinality(low) \in Nat
  BY <1>2, <1>3, FS_Subset, FS_CardinalityType
<1>5. Cardinality(low) # 0
  BY <1>3, <1>4, FS_EmptySet
<1> QED BY <1>2, <1>4, <1>5 DEF low, UpTo

\* A later place has more places up to it.
LEMMA UpToGrows ==
  ASSUME NEW N \in Nat, NEW places \in SUBSET (1 .. N),
         NEW n \in places, NEW m \in places, n < m
  PROVE  UpTo(places, n) < UpTo(places, m)
<1> DEFINE low(i) == {j \in places : j <= i}
<1>1. low(n) \in SUBSET low(m) /\ m \in low(m) /\ m \notin low(n) /\ low(m) \in SUBSET places
  <2>1. n \in Nat /\ m \in Nat /\ \A i \in places : i \in Nat
    OBVIOUS
  <2>2. low(n) \subseteq low(m)
    <3> SUFFICES ASSUME NEW i \in places, i <= n PROVE i <= m
      OBVIOUS
    <3> QED BY <2>1
  <2> QED BY <2>1, <2>2
<1> HIDE DEF low
<1>2. IsFiniteSet(low(m)) /\ IsFiniteSet(low(n))
  BY <1>1, PlacesAreFinite, FS_Subset
<1>3. /\ Cardinality(low(n)) <= Cardinality(low(m))
      /\ Cardinality(low(n)) # Cardinality(low(m))
      /\ Cardinality(low(n)) \in Nat /\ Cardinality(low(m)) \in Nat
  BY <1>1, <1>2, FS_Subset, FS_CardinalityType
<1> QED BY <1>3 DEF low, UpTo

\* The places are numbered from 1 in their order.
LEMMA Numbering ==
  ASSUME NEW N \in Nat, NEW places \in SUBSET (1 .. N)
  PROVE  /\ \A k \in 1 .. Cardinality(places) :
              Nth(places, k) \in places /\ UpTo(places, Nth(places, k)) = k
         /\ \A n \in places : Nth(places, UpTo(places, n)) = n
<1> DEFINE number == [n \in places |-> UpTo(places, n)]
           count == Cardinality(places)
<1>1. IsFiniteSet(places) /\ count \in 0 .. N
  BY PlacesAreFinite
<1>2. \A n, m \in places : UpTo(places, n) = UpTo(places, m) => n = m
  <2> SUFFICES ASSUME NEW n \in places, NEW m \in places, n < m
               PROVE  UpTo(places, n) # UpTo(places, m)
    OBVIOUS
  <2>1. UpTo(places, n) < UpTo(places, m) /\ UpTo(places, n) \in Nat /\ UpTo(places, m) \in Nat
    <3>1. UpTo(places, n) \in 1 .. count /\ UpTo(places, m) \in 1 .. count /\ count \in Nat
      BY <1>1, UpToBounds
    <3>2. UpTo(places, n) < UpTo(places, m)
      BY UpToGrows
    <3> HIDE DEF count
    <3> QED BY <3>1, <3>2
  <2> QED BY <2>1
<1> HIDE DEF count
<1>3. number \in [places -> 1 .. count]
  BY UpToBounds DEF count
<1>4. number \in Injection(places, 1 .. count)
  BY <1>2, <1>3 DEF Injection, IsInjective
<1>5. IsFiniteSet(1 .. count) /\ Cardinality(1 .. count) = count
  BY <1>1, FirstNumbers
<1>6. number \in Surjection(places, 1 .. count)
  <2> HIDE DEF number
  <2> QED BY <1>4, <1>5, FS_Injection DEF count
<1>7. \A k \in 1 .. count : \E n \in places : UpTo(places, n) = k
  BY <1>6 DEF Surjection
<1>8. \A k \in 1 .. count : Nth(places, k) \in places /\ UpTo(places, Nth(places, k)) = k
  BY <1>7 DEF Nth
<1>9. ASSUME NEW n \in places PROVE Nth(places, UpTo(places, n)) = n
  BY <1>2 DEF Nth
<1> QED BY <1>8, <1>9 DEF count

\* What is picked from a text, and in which order.
LEMMA PickedIs ==
  ASSUME NEW text \in Seq(Characters), NEW places \in SUBSET (DOMAIN text)
  PROVE  /\ Picked(text, places) \in Seq(Characters)
         /\ Len(Picked(text, places)) = Cardinality(places)
         /\ Cardinality(places) \in 0 .. Len(text)
         /\ \A k \in 1 .. Cardinality(places) :
              /\ Nth(places, k) \in places
              /\ Picked(text, places)[k] = text[Nth(places, k)]
         /\ \A j, k \in 1 .. Cardinality(places) : j < k => Nth(places, j) < Nth(places, k)
         /\ \A n \in places : \E k \in 1 .. Cardinality(places) : Nth(places, k) = n
<1> DEFINE N == Len(text)
           count == Cardinality(places)
<1>1. N \in Nat /\ places \in SUBSET (1 .. N) /\ \A n \in 1 .. N : text[n] \in Characters
  OBVIOUS
<1> HIDE DEF N
<1>2. count \in 0 .. N
  BY <1>1, PlacesAreFinite
<1>3. \A k \in 1 .. count : Nth(places, k) \in places /\ UpTo(places, Nth(places, k)) = k
  BY <1>1, Numbering
<1>4. Picked(text, places) = [k \in 1 .. count |-> text[Nth(places, k)]]
  BY DEF Picked, Nth, UpTo
<1> HIDE DEF count
<1>5. Picked(text, places) \in Seq(Characters) /\ Len(Picked(text, places)) = count
  BY <1>1, <1>2, <1>3, <1>4
<1>6. ASSUME NEW j \in 1 .. count, NEW k \in 1 .. count, j < k
      PROVE  Nth(places, j) < Nth(places, k)
  <2>1. Nth(places, j) \in 1 .. N /\ Nth(places, k) \in 1 .. N
    BY <1>1, <1>3
  <2>2. CASE Nth(places, k) < Nth(places, j)
    <3>1. UpTo(places, Nth(places, k)) < UpTo(places, Nth(places, j))
      BY <1>1, <1>3, <2>2, UpToGrows
    <3> QED BY <1>2, <1>3, <1>6, <3>1
  <2>3. Nth(places, k) # Nth(places, j)
    BY <1>2, <1>3, <1>6
  <2> QED BY <2>1, <2>2, <2>3
<1>7. ASSUME NEW n \in places PROVE \E k \in 1 .. count : Nth(places, k) = n
  <2>1. UpTo(places, n) \in 1 .. count
    BY <1>1, UpToBounds DEF count
  <2>2. Nth(places, UpTo(places, n)) = n
    BY <1>1, Numbering
  <2> QED BY <2>1, <2>2
<1> QED BY <1>2, <1>3, <1>4, <1>5, <1>6, <1>7 DEF count, N

\* Picking everything.
LEMMA PickedAll ==
  ASSUME NEW text \in Seq(Characters)
  PROVE  Picked(text, DOMAIN text) = text
<1> DEFINE N == Len(text)
           places == DOMAIN text
<1>1. N \in Nat /\ places = 1 .. N /\ text = [k \in 1 .. N |-> text[k]]
  OBVIOUS
<1>2. Cardinality(1 .. N) = N
  BY <1>1, FirstNumbers
<1>3. ASSUME NEW k \in 1 .. N PROVE UpTo(1 .. N, k) = k
  <2> HIDE DEF N
  <2>1. {m \in 1 .. N : m <= k} = 1 .. k
    BY <1>1
  <2>2. k \in Nat
    BY <1>1
  <2> QED BY <2>1, <2>2, FirstNumbers DEF UpTo
<1>4. ASSUME NEW k \in 1 .. N PROVE Nth(1 .. N, k) = k
  <2> HIDE DEF N
  <2>1. Nth(1 .. N, UpTo(1 .. N, k)) = k
    BY <1>1, Numbering
  <2> QED BY <1>3, <2>1
<1>5. Picked(text, 1 .. N) = [k \in 1 .. Cardinality(1 .. N) |-> text[Nth(1 .. N, k)]]
  BY DEF Picked, Nth, UpTo
<1> HIDE DEF N
<1>6. [k \in 1 .. N |-> text[Nth(1 .. N, k)]] = [k \in 1 .. N |-> text[k]]
  BY <1>4
<1> QED BY <1>1, <1>2, <1>5, <1>6

-----------------------------------------------------------------------------
(* What is printable, and what is joined. *)

\* Characters without control characters and breaks, in the order they had.
LEMMA PrintableIs ==
  ASSUME NEW text \in Seq(Characters)
  PROVE  /\ Printable(text) \in Seq({"space", "other"})
         /\ Len(Printable(text)) <= Len(text)
         /\ (\A n \in DOMAIN text : text[n] \in {"space", "other"}) => Printable(text) = text
<1> DEFINE places == {n \in DOMAIN text : text[n] # "control"}
           kept == Picked(text, places)
<1>1. places \in SUBSET (DOMAIN text)
  OBVIOUS
<1>2. /\ kept \in Seq(Characters) /\ Len(kept) \in 0 .. Len(text)
      /\ \A k \in 1 .. Len(kept) : \E n \in places : kept[k] = text[n]
  <2> HIDE DEF places
  <2> QED BY <1>1, PickedIs
<1>3. \A k \in 1 .. Len(kept) : kept[k] \in Characters \ {"control"}
  <2> HIDE DEF kept
  <2> QED BY <1>2
<1>4. Printable(text) = [k \in 1 .. Len(kept) |-> IF kept[k] = "break" THEN "space" ELSE kept[k]]
  <2>1. DOMAIN kept = 1 .. Len(kept)
    BY <1>2
  <2>2. Printable(text) = [k \in DOMAIN kept |-> IF kept[k] = "break" THEN "space" ELSE kept[k]]
    BY DEF Printable
  <2> HIDE DEF kept
  <2> QED BY <2>1, <2>2
<1>5. Printable(text) \in Seq({"space", "other"}) /\ Len(Printable(text)) = Len(kept)
  <2> HIDE DEF kept
  <2>1. Len(kept) \in Nat
    BY <1>2
  <2>2. \A k \in 1 .. Len(kept) :
          (IF kept[k] = "break" THEN "space" ELSE kept[k]) \in {"space", "other"}
    BY <1>3 DEF Characters
  <2> QED BY <1>4, <2>1, <2>2
<1>6. ASSUME \A n \in DOMAIN text : text[n] \in {"space", "other"}
      PROVE  Printable(text) = text
  <2>1. places = DOMAIN text
    BY <1>6
  <2>2. kept = text
    BY <2>1, PickedAll
  <2> HIDE DEF kept, places
  <2> QED BY <1>4, <1>6, <2>2
<1> HIDE DEF kept
<1> QED BY <1>2, <1>5, <1>6

\* The places Joined keeps.
Single(text, n) == /\ text[n] = "space" /\ n > 1 /\ text[n - 1] # "space"
                   /\ \E m \in (n + 1)..Len(text) : text[m] # "space"
WordPlaces(text) == {n \in DOMAIN text : text[n] # "space" \/ Single(text, n)}

\* What split and join leave begins and ends with a word, and has one space at a time.
LEMMA JoinedIs ==
  ASSUME NEW text \in Seq({"space", "other"})
  PROVE  /\ Joined(text) \in Seq({"space", "other"})
         /\ Len(Joined(text)) <= Len(text)
         /\ WordsFirst(Joined(text))
         /\ Joined(text) # <<>> => Joined(text)[Len(Joined(text))] = "other"
<1> DEFINE places == WordPlaces(text)
           joined == Joined(text)
           count == Cardinality(places)
           at(k) == Nth(places, k)
<1>1. joined = Picked(text, places)
  BY DEF Joined, WordPlaces, Single
<1>2. text \in Seq(Characters) /\ places \in SUBSET (DOMAIN text)
  BY DEF Characters, WordPlaces
<1>3. /\ count \in 0 .. Len(text) /\ Len(text) \in Nat
      /\ joined \in Seq(Characters) /\ Len(joined) = count
      /\ \A k \in 1 .. count : at(k) \in places /\ joined[k] = text[at(k)]
      /\ \A j, k \in 1 .. count : j < k => at(j) < at(k)
      /\ \A n \in places : \E k \in 1 .. count : at(k) = n
  <2> HIDE DEF places
  <2> QED BY <1>1, <1>2, PickedIs
<1>4. /\ \A n \in places : n \in 1 .. Len(text) /\ text[n] \in {"space", "other"}
      /\ \A n \in places : text[n] = "space" => Single(text, n)
      /\ \A n \in 1 .. Len(text) : text[n] # "space" => n \in places
  BY DEF WordPlaces
<1> HIDE DEF places, joined, count, at
<1>5. \A k \in 1 .. count : joined[k] \in {"space", "other"}
  BY <1>3, <1>4
\* A space is kept between two words, which are kept.
<1>6. ASSUME NEW k \in 1 .. count, joined[k] = "space"
      PROVE  /\ \E j \in 1 .. count : j < k /\ at(j) = at(k) - 1 /\ joined[j] # "space"
             /\ \E j \in 1 .. count : k < j
  <2>1. /\ at(k) \in 1 .. Len(text) /\ at(k) > 1 /\ text[at(k) - 1] # "space"
        /\ \E m \in (at(k) + 1) .. Len(text) : text[m] # "space"
    BY <1>3, <1>4, <1>6 DEF Single
  <2>2. PICK m \in (at(k) + 1) .. Len(text) : text[m] # "space"
    BY <2>1
  <2>3. at(k) - 1 \in places /\ m \in places /\ m > at(k)
    BY <1>4, <2>1, <2>2
  <2>4. PICK i \in 1 .. count : at(i) = at(k) - 1
    BY <1>3, <2>3
  <2>5. PICK j \in 1 .. count : at(j) = m
    BY <1>3, <2>3
  <2>6. i < k
    <3>1. ~(k < i) /\ k # i
      BY <1>3, <2>1, <2>4
    <3> QED BY <1>3, <3>1
  <2>7. k < j
    <3>1. ~(j < k) /\ k # j
      BY <1>3, <2>1, <2>3, <2>5
    <3> QED BY <1>3, <3>1
  <2>8. joined[i] # "space"
    BY <1>3, <2>1, <2>4
  <2> QED BY <2>4, <2>6, <2>7, <2>8
<1>7. ASSUME count # 0 PROVE joined[1] = "other" /\ joined[count] = "other"
  <2>1. 1 \in 1 .. count /\ count \in 1 .. count
    BY <1>3, <1>7
  <2>2. joined[1] # "space" /\ joined[count] # "space"
    BY <1>3, <1>6, <2>1
  <2> QED BY <1>5, <2>1, <2>2
<1>8. ASSUME NEW k \in 1 .. count - 1 PROVE "other" \in {joined[k], joined[k + 1]}
  <2> SUFFICES ASSUME joined[k + 1] = "space", joined[k] = "space" PROVE FALSE
    BY <1>3, <1>5
  <2>1. k \in 1 .. count /\ k + 1 \in 1 .. count
    BY <1>3
  <2>2. PICK j \in 1 .. count : j < k + 1 /\ at(j) = at(k + 1) - 1 /\ joined[j] # "space"
    BY <1>6, <2>1
  <2>3. j < k
    BY <2>1, <2>2
  <2>4. at(j) < at(k) /\ at(k) < at(k + 1)
    BY <1>3, <2>1, <2>3
  <2>5. at(j) \in Int /\ at(k) \in Int /\ at(k + 1) \in Int
    BY <1>3, <1>4, <2>1
  <2> QED BY <2>2, <2>4, <2>5
<1>9. joined \in Seq({"space", "other"})
  BY <1>3, <1>5
<1>10. joined # <<>> => count # 0
  BY <1>3
<1>11. WordsFirst(joined)
  BY <1>3, <1>5, <1>7, <1>8, <1>10 DEF WordsFirst
<1> QED BY <1>3, <1>7, <1>9, <1>10, <1>11 DEF joined

\* A line of words is what it was.
LEMMA JoinedIsStable ==
  ASSUME NEW text \in Seq({"space", "other"}), WordsFirst(text),
         text # <<>> => text[Len(text)] = "other"
  PROVE  Joined(text) = text
<1>1. text \in Seq(Characters)
  BY DEF Characters
<1>2. ASSUME NEW n \in DOMAIN text, text[n] = "space" PROVE Single(text, n)
  <2>1. /\ n \in 1 .. Len(text) /\ Len(text) \in Nat /\ text # <<>>
        /\ text[1] = "other" /\ text[Len(text)] = "other"
    BY <1>2 DEF WordsFirst
  <2>2. n # 1 /\ n # Len(text)
    BY <1>2, <2>1
  <2>3. n - 1 \in 1 .. Len(text) - 1 /\ (n - 1) + 1 = n
    BY <2>1, <2>2
  <2>4. text[n - 1] = "other"
    BY <1>2, <2>3 DEF WordsFirst
  <2>5. Len(text) \in (n + 1) .. Len(text)
    BY <2>1, <2>2
  <2> QED BY <1>2, <2>1, <2>2, <2>4, <2>5 DEF Single
<1>3. WordPlaces(text) = DOMAIN text
  BY <1>2 DEF WordPlaces
<1>4. Joined(text) = Picked(text, WordPlaces(text))
  BY DEF Joined, WordPlaces, Single
<1> QED BY <1>1, <1>3, <1>4, PickedAll

-----------------------------------------------------------------------------
(* Sanitizing, and what WorkError makes of it. *)

\* What the caller is handed is the line of words, cut at the limit.
LEMMA SanitizedIs ==
  ASSUME NEW text \in Seq(Characters)
  PROVE  /\ Sanitized(text) \in Seq({"space", "other"})
         /\ Len(Sanitized(text)) <= Limit
         /\ WordsFirst(Sanitized(text))
         /\ Len(Sanitized(text)) < Limit \/ Len(Sanitized(text)) = Len(text) =>
              /\ Sanitized(text) = Joined(Printable(text))
              /\ Sanitized(text) # <<>> => Sanitized(text)[Len(Sanitized(text))] = "other"
<1> DEFINE line == Joined(Printable(text))
           size == Min({Limit, Len(line)})
           cut == Sanitized(text)
<1>1. /\ Printable(text) \in Seq({"space", "other"}) /\ Len(Printable(text)) <= Len(text)
      /\ Len(text) \in Nat
  BY PrintableIs
<1>2. /\ line \in Seq({"space", "other"}) /\ Len(line) <= Len(Printable(text)) /\ WordsFirst(line)
      /\ line # <<>> => line[Len(line)] = "other"
  BY <1>1, JoinedIs
<1>3. cut = SubSeq(line, 1, size)
  BY DEF Sanitized
<1> HIDE DEF line
<1>4. Limit \in Nat \ {0} /\ Len(line) \in Nat /\ Len(Printable(text)) \in Nat
  BY <1>1, <1>2, TextAssumption
<1>5. size \in {Limit, Len(line)} /\ size <= Limit /\ size <= Len(line)
  BY <1>4, TwoNumbers
<1> HIDE DEF size, cut
<1>6. /\ cut \in Seq({"space", "other"}) /\ Len(cut) = size
      /\ \A n \in 1 .. size : cut[n] = line[n] /\ line[n] \in {"space", "other"}
  BY <1>2, <1>3, <1>4, <1>5
<1>7. WordsFirst(cut)
  <2>1. \A n \in DOMAIN cut : cut[n] \in {"space", "other"}
    BY <1>6
  <2>2. ASSUME cut # <<>> PROVE cut[1] = "other"
    <3>1. 1 \in 1 .. size /\ line # <<>>
      BY <1>2, <1>4, <1>5, <1>6, <2>2
    <3> QED BY <1>2, <1>6, <3>1 DEF WordsFirst
  <2>3. ASSUME NEW n \in 1 .. (Len(cut) - 1) PROVE "other" \in {cut[n], cut[n + 1]}
    <3>1. n \in 1 .. (Len(line) - 1) /\ n \in 1 .. size /\ n + 1 \in 1 .. size
      BY <1>4, <1>5, <1>6, <2>3
    <3> QED BY <1>2, <1>6, <3>1 DEF WordsFirst
  <2> QED BY <2>1, <2>2, <2>3 DEF WordsFirst
<1>8. ASSUME Len(cut) < Limit \/ Len(cut) = Len(text) PROVE cut = line
  <2>1. size = Len(line)
    BY <1>1, <1>2, <1>4, <1>5, <1>6, <1>8
  <2> QED BY <1>2, <1>3, <2>1
<1> QED BY <1>2, <1>5, <1>6, <1>7, <1>8 DEF line, cut

\* A text is a sequence of characters, and a verdict follows the sanitizing.
TextTypeOK ==
    /\ message \in Seq(Characters)
    /\ stage \in {"raw", "sanitized", "stored", "refused"}

TextInv == TextTypeOK /\ StoredTexts

LEMMA TextInitially == TextInit => TextInv
<1> SUFFICES ASSUME TextInit PROVE TextInv
  OBVIOUS
<1>1. PICK n \in 0 .. MaxLength : message \in [1 .. n -> Characters]
  BY DEF TextInit, SeqOf
<1>2. message \in Seq(Characters)
  BY <1>1, TextAssumption
<1> QED BY <1>2 DEF TextInit, TextInv, TextTypeOK, StoredTexts, HandedIsClean, StoredIsClean,
                    ShortIsStored

LEMMA SanitizeKeeps == TextInv /\ Sanitize => TextInv'
<1> SUFFICES ASSUME TextInv, Sanitize PROVE TextInv'
  OBVIOUS
<1>1. message \in Seq(Characters) /\ message' = Sanitized(message) /\ stage' = "sanitized"
  BY DEF TextInv, TextTypeOK, Sanitize
<1>2. /\ message' \in Seq({"space", "other"})
      /\ Len(message') <= Limit /\ WordsFirst(message')
      /\ message' # <<>> /\ Len(message') < Limit => message'[Len(message')] = "other"
  BY <1>1, SanitizedIs
<1>3. WordsFirst(message)'
  BY <1>2 DEF WordsFirst
<1>4. message' \in Seq(Characters)
  BY <1>2 DEF Characters
<1> QED BY <1>1, <1>2, <1>3, <1>4
        DEF TextInv, TextTypeOK, StoredTexts, HandedIsClean, StoredIsClean, ShortIsStored

\* What sanitizing leaves unchanged ends with a word; a line of words that was not
\* cut is left unchanged.
LEMMA WrapKeeps == TextInv /\ Wrap => TextInv'
<1> SUFFICES ASSUME TextInv, Wrap PROVE TextInv'
  OBVIOUS
<1>1. /\ message \in Seq(Characters) /\ stage = "sanitized" /\ message # <<>>
      /\ message' = message /\ stage' = IF Acceptable(message) THEN "stored" ELSE "refused"
      /\ Limit \in Nat \ {0} /\ Len(message) \in Nat
  BY TextAssumption DEF TextInv, TextTypeOK, Wrap
<1>2. /\ Len(message) <= Limit /\ WordsFirst(message)
      /\ Len(message) < Limit => message[Len(message)] = "other"
  BY <1>1 DEF TextInv, StoredTexts, HandedIsClean
<1>3. WordsFirst(message)'
  BY <1>1, <1>2 DEF WordsFirst
<1>4. CASE Acceptable(message)
  <2>1. message = Sanitized(message) /\ Len(message) \in 1 .. Limit
    BY <1>1, <1>2, <1>4 DEF Acceptable
  <2>2. message[Len(message)] = "other"
    BY <1>1, <2>1, SanitizedIs
  <2> QED BY <1>1, <1>3, <1>4, <2>1, <2>2
          DEF TextInv, TextTypeOK, StoredTexts, HandedIsClean, StoredIsClean, ShortIsStored
<1>5. CASE ~Acceptable(message)
  <2>1. ASSUME Len(message) # Limit PROVE FALSE
    <3>1. Len(message) < Limit /\ message[Len(message)] = "other"
      BY <1>1, <1>2, <2>1
    <3>2. \A n \in DOMAIN message : message[n] \in {"space", "other"}
      BY <1>2 DEF WordsFirst
    <3>3. Printable(message) = message /\ message \in Seq({"space", "other"})
      BY <1>1, <3>2, PrintableIs
    <3>4. Joined(Printable(message)) = message
      BY <1>2, <3>1, <3>3, JoinedIsStable
    <3>5. Min({Limit, Len(message)}) = Len(message)
      BY <1>1, <3>1, TwoNumbers
    <3>6. Sanitized(message) = SubSeq(message, 1, Len(message))
      BY <3>4, <3>5 DEF Sanitized
    <3>7. Sanitized(message) = message
      BY <1>1, <3>6
    <3> QED BY <1>1, <1>2, <1>5, <3>7 DEF Acceptable
  <2> QED BY <1>1, <1>3, <1>5, <2>1
          DEF TextInv, TextTypeOK, StoredTexts, HandedIsClean, StoredIsClean, ShortIsStored
<1> QED BY <1>4, <1>5

LEMMA TextStep == TextInv /\ [TextNext]_textVars => TextInv'
<1> SUFFICES ASSUME TextInv, [TextNext]_textVars PROVE TextInv'
  OBVIOUS
<1>1. CASE UNCHANGED textVars
  BY <1>1 DEF textVars, TextInv, TextTypeOK, StoredTexts, HandedIsClean, StoredIsClean,
              ShortIsStored, WordsFirst
<1> QED BY <1>1, SanitizeKeeps, WrapKeeps DEF TextNext

\* What a caller is handed fits the limit and is one line of words, what a WorkError
\* stores neither begins nor ends with white space, and no message is refused that
\* was not cut at the limit: for messages of any length and any limit
\* (lifecycle.py:480-492, 106-118).
THEOREM TextsAreClean == TextSpec => []StoredTexts
<1>1. TextInv => StoredTexts
  BY DEF TextInv
<1> QED BY <1>1, TextInitially, TextStep, PTL DEF TextSpec
=============================================================================
