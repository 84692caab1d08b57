--------------------------- MODULE MigrationProofs ---------------------------
(***************************************************************************)
(* Migration, for any processes with any valid registries.                 *)
(***************************************************************************)
EXTENDS Migration, SequenceTheorems, TLAPS

-----------------------------------------------------------------------------
(* Sequences and registries. *)

\* A prefix agrees with the whole on its own indices.
LEMMA PrefixElements ==
  ASSUME NEW S, NEW T, NEW s \in Seq(S), NEW t \in Seq(T)
  PROVE  IsPrefix(s, t) <=> Len(s) <= Len(t) /\ \A i \in 1 .. Len(s) : s[i] = t[i]
<1>1. Len(s) \in Nat /\ Len(t) \in Nat
  OBVIOUS
<1>2. SubSeq(s, 1, Len(s)) = s
  OBVIOUS
<1>3. CASE Len(s) <= Len(t)
  <2>1. /\ SubSeq(t, 1, Len(s)) \in Seq(T)
        /\ Len(SubSeq(t, 1, Len(s))) = Len(s)
        /\ \A i \in 1 .. Len(s) : SubSeq(t, 1, Len(s))[i] = t[i]
    BY <1>1, <1>3
  <2>2. s = SubSeq(t, 1, Len(s)) <=> \A i \in 1 .. Len(s) : s[i] = t[i]
    <3>1. ASSUME \A i \in 1 .. Len(s) : s[i] = t[i]
          PROVE  s = SubSeq(t, 1, Len(s))
      <4>1. s \in Seq(S \cup T) /\ SubSeq(t, 1, Len(s)) \in Seq(S \cup T)
        BY <2>1, SeqMonotonic
      <4> QED BY <2>1, <3>1, <4>1, SeqEqual
    <3> QED BY <2>1, <3>1
  <2> QED BY <1>2, <1>3, <2>2 DEF IsPrefix
<1>4. CASE ~(Len(s) <= Len(t))
  BY <1>4 DEF IsPrefix
<1> QED BY <1>3, <1>4

\* Nothing staged is a beginning of everything.
LEMMA EmptyPrefix ==
  ASSUME NEW T, NEW t \in Seq(T)
  PROVE  IsPrefix(<<>>, t)
<1>1. Len(t) \in Nat /\ Len(<<>>) = 0
  OBVIOUS
<1>2. SubSeq(t, 1, 0) = <<>>
  BY SubSeqEmpty
<1> QED BY <1>1, <1>2 DEF IsPrefix

\* What the constructors of a registry guarantee (migration.py:29, 84).
LEMMA Registries ==
  ASSUME NEW p \in Processes
  PROVE  /\ Registry[p] \in Seq(Known)
         /\ Len(Registry[p]) \in Nat \ {0}
         /\ \A i \in 1 .. Len(Registry[p]) :
              /\ Registry[p][i] \in Known
              /\ Registry[p][i].version = i
              /\ IsTuple(Registry[p][i].statements)
              /\ Len(Registry[p][i].statements) \in Nat
<1>1. ValidRegistry(Registry[p])
  BY RegistriesAreValid
<1>2. Range(Registry[p]) \subseteq Known
  BY DEF Known
<1>3. Registry[p] \in Seq(Range(Registry[p])) /\ Registry[p] # <<>>
  BY <1>1 DEF ValidRegistry, IsTuple
<1>4. Registry[p] \in Seq(Known)
  BY <1>2, <1>3, SeqMonotonic
<1>5. DOMAIN Registry[p] = 1 .. Len(Registry[p]) /\ Len(Registry[p]) \in Nat \ {0}
  BY <1>3
<1>6. ASSUME NEW i \in 1 .. Len(Registry[p])
      PROVE  /\ Registry[p][i] \in Known
             /\ Registry[p][i].version = i
             /\ IsTuple(Registry[p][i].statements)
             /\ Len(Registry[p][i].statements) \in Nat
  <2>1. Registry[p][i].version = i /\ IsTuple(Registry[p][i].statements)
    BY <1>1, <1>5 DEF ValidRegistry
  <2>2. Len(Registry[p][i].statements) \in Nat
    BY <2>1 DEF IsTuple
  <2> QED BY <1>4, <2>1, <2>2
<1> QED BY <1>4, <1>5, <1>6

\* Appending to the ledger keeps its prefixes.
LEMMA LongerLedger ==
  ASSUME NEW s \in Seq(Known), NEW t \in Seq(Known), NEW m \in Known, IsPrefix(s, t)
  PROVE  IsPrefix(s, Append(t, m))
<1>1. /\ Append(t, m) \in Seq(Known) /\ Len(Append(t, m)) = Len(t) + 1
      /\ \A i \in 1 .. Len(t) : Append(t, m)[i] = t[i]
      /\ Len(s) \in Nat /\ Len(t) \in Nat
  OBVIOUS
<1>2. Len(s) <= Len(t) /\ \A i \in 1 .. Len(s) : s[i] = t[i]
  BY PrefixElements
<1>3. Len(s) <= Len(Append(t, m)) /\ \A i \in 1 .. Len(s) : s[i] = Append(t, m)[i]
  BY <1>1, <1>2
<1> QED BY <1>1, <1>3, PrefixElements

\* The next migration of a registry, applied, leaves a prefix of it.
LEMMA NextOfRegistry ==
  ASSUME NEW S, NEW s \in Seq(S), NEW T, NEW t \in Seq(T), IsPrefix(s, t), Len(s) < Len(t)
  PROVE  IsPrefix(Append(s, t[Len(s) + 1]), t)
<1> DEFINE m == t[Len(s) + 1]
<1>1. Len(s) \in Nat /\ Len(t) \in Nat /\ m \in T
  OBVIOUS
<1>2. s \in Seq(S \cup T)
  BY SeqMonotonic
<1>3. /\ Append(s, m) \in Seq(S \cup T)
      /\ Len(Append(s, m)) = Len(s) + 1
      /\ \A i \in 1 .. Len(s) : Append(s, m)[i] = s[i]
      /\ Append(s, m)[Len(s) + 1] = m
  BY <1>1, <1>2
<1>4. \A i \in 1 .. Len(s) : s[i] = t[i]
  BY PrefixElements
<1>5. ASSUME NEW i \in 1 .. Len(s) + 1 PROVE Append(s, m)[i] = t[i]
  BY <1>1, <1>3, <1>4
<1>6. Len(Append(s, m)) <= Len(t)
  BY <1>1, <1>3
<1> QED BY <1>3, <1>5, <1>6, PrefixElements

-----------------------------------------------------------------------------
(* Every step keeps the invariant. *)

LEMMA MigrationInitially == Init => MigrationInv
<1> SUFFICES ASSUME Init PROVE MigrationInv
  OBVIOUS
<1>1. TypeOK
  BY OutcomesAreApart DEF Init, TypeOK, Steps
<1>2. PlaceInv /\ ReturnsSupported
  BY OutcomesAreApart DEF Init, PlaceInv, ReturnsSupported
<1> QED BY <1>1, <1>2 DEF MigrationInv

LEMMA StartKeeps ==
  ASSUME MigrationInv, NEW p \in Processes, Start(p)
  PROVE  MigrationInv'
<1> USE DEF MigrationInv
<1>1. TypeOK'
  BY DEF Start, Goto, TypeOK, Steps
<1>2. PlaceInv'
  BY DEF Start, Goto, TypeOK, PlaceInv, Compatible, Statements
<1>3. ReturnsSupported'
  BY OutcomesAreApart DEF Start, TypeOK, ReturnsSupported
<1> QED BY <1>1, <1>2, <1>3

LEMMA CheckKeeps ==
  ASSUME MigrationInv, NEW p \in Processes, Check(p)
  PROVE  MigrationInv'
<1> USE DEF MigrationInv
<1>1. Len(ledger) \in Nat /\ Len(Registry[p]) \in Nat \ {0}
  BY Registries DEF TypeOK
<1>2. TypeOK'
  BY DEF Check, Goto, Raise, TypeOK, Steps, Errors
<1>3. PlaceInv'
  BY <1>1 DEF Check, Goto, Raise, TypeOK, PlaceInv, Compatible, Statements
<1>4. ReturnsSupported'
  BY OutcomesAreApart DEF Check, Goto, Raise, TypeOK, ReturnsSupported
<1> QED BY <1>2, <1>3, <1>4

LEMMA CheckFailsKeeps ==
  ASSUME MigrationInv, NEW p \in Processes, CheckFails(p)
  PROVE  MigrationInv'
<1> USE DEF MigrationInv
<1>1. TypeOK'
  BY DEF CheckFails, Goto, Raise, TypeOK, Steps, Errors
<1>2. PlaceInv'
  BY DEF CheckFails, Goto, Raise, TypeOK, PlaceInv, Compatible, Statements
<1>3. ReturnsSupported'
  BY OutcomesAreApart DEF CheckFails, Raise, TypeOK, ReturnsSupported, Errors
<1> QED BY <1>1, <1>2, <1>3

LEMMA BeginKeeps ==
  ASSUME MigrationInv, NEW p \in Processes, Begin(p)
  PROVE  MigrationInv'
<1> USE DEF MigrationInv
<1>1. TypeOK'
  BY OutcomesAreApart DEF Begin, Goto, TypeOK, Steps
<1>2. PlaceInv'
  BY OutcomesAreApart DEF Begin, Goto, TypeOK, PlaceInv, Compatible, Statements
<1>3. ReturnsSupported'
  BY DEF Begin, ReturnsSupported
<1> QED BY <1>1, <1>2, <1>3

LEMMA BeginTimesOutKeeps ==
  ASSUME MigrationInv, NEW p \in Processes, BeginTimesOut(p)
  PROVE  MigrationInv'
<1> USE DEF MigrationInv
<1>1. TypeOK'
  BY DEF BeginTimesOut, Goto, Raise, TypeOK, Steps, Errors
<1>2. PlaceInv'
  BY DEF BeginTimesOut, Goto, Raise, TypeOK, PlaceInv, Compatible, Statements
<1>3. ReturnsSupported'
  BY OutcomesAreApart DEF BeginTimesOut, Raise, TypeOK, ReturnsSupported
<1> QED BY <1>1, <1>2, <1>3

\* Of the processes that hold the lock there is one, so what is staged is its own.
LEMMA OneHolder ==
  ASSUME MigrationInv, NEW p \in Processes, pc[p] \in {"decide", "execute"},
         NEW q \in Processes, q # p
  PROVE  pc[q] \notin {"decide", "execute"} /\ lock = p
BY DEF MigrationInv, TypeOK

LEMMA DecideKeeps ==
  ASSUME MigrationInv, NEW p \in Processes, Decide(p)
  PROVE  MigrationInv'
<1> USE DEF MigrationInv
<1>1. /\ pc[p] = "decide" /\ lock = p /\ staged = <<>>
      /\ Len(ledger) \in Nat /\ Len(Registry[p]) \in Nat \ {0}
      /\ next[p] \in Nat /\ next[p] >= 1 /\ next[p] <= Len(Registry[p])
      /\ UNCHANGED <<ledger, schema, starts>>
  BY Registries DEF Decide, TypeOK, PlaceInv
<1>2. \A q \in Processes \ {p} : pc[q] \notin {"decide", "execute"}
  BY <1>1, OneHolder
<1>3. CASE ~Compatible(p) \/ next[p] > Len(ledger) + 1
  <2>1. /\ pc' = [pc EXCEPT ![p] = "done"] /\ lock' = None /\ staged' = <<>>
        /\ result' = [result EXCEPT ![p] = Incompatible] /\ next' = next
    BY <1>1, <1>3 DEF Decide, Raise, Goto, Release
  <2>2. TypeOK'
    BY <1>1, <1>2, <2>1, OutcomesAreApart DEF TypeOK, Steps, Errors
  <2>3. PlaceInv'
    BY <1>1, <1>2, <2>1 DEF TypeOK, PlaceInv, Compatible, Statements
  <2>4. ReturnsSupported'
    BY <1>1, <2>1, OutcomesAreApart DEF TypeOK, ReturnsSupported
  <2> QED BY <2>2, <2>3, <2>4
<1>4. CASE Compatible(p) /\ next[p] <= Len(ledger)
  <2>1. /\ next' = [next EXCEPT ![p] = @ + 1] /\ lock' = None /\ staged' = <<>>
        /\ pc' = [pc EXCEPT ![p] = IF next[p] < Len(Registry[p]) THEN "begin" ELSE "confirm"]
        /\ result' = result
    BY <1>1, <1>4 DEF Decide, Proceed, Goto, Release
  <2>2. TypeOK'
    BY <1>1, <1>2, <2>1, OutcomesAreApart DEF TypeOK, Steps
  <2>3. PlaceInv'
    BY <1>1, <1>2, <1>4, <2>1 DEF TypeOK, PlaceInv, Compatible, Statements
  <2>4. ReturnsSupported'
    BY <1>1, <2>1 DEF ReturnsSupported
  <2> QED BY <2>2, <2>3, <2>4
<1>5. CASE Compatible(p) /\ next[p] = Len(ledger) + 1
  <2>1. /\ pc' = [pc EXCEPT ![p] = "execute"]
        /\ UNCHANGED <<lock, staged, next, result>>
    BY <1>1, <1>5 DEF Decide, Goto
  <2>2. TypeOK'
    BY <1>1, <1>2, <2>1 DEF TypeOK, Steps
  <2>3. IsTuple(staged) /\ IsPrefix(staged, Statements(p))
    <3>1. Range(<<>>) = {} /\ <<>> \in Seq({})
      BY DEF Range
    <3>2. next[p] \in 1 .. Len(Registry[p])
      BY <1>1
    <3>3. Statements(p) \in Seq(Range(Statements(p)))
      BY <3>2, Registries DEF Statements, IsTuple
    <3>4. IsPrefix(<<>>, Statements(p))
      BY <3>3, EmptyPrefix
    <3> QED BY <1>1, <3>1, <3>4 DEF IsTuple
  <2>4. PlaceInv'
    BY <1>1, <1>2, <1>5, <2>1, <2>3 DEF TypeOK, PlaceInv, Compatible, Statements
  <2>5. ReturnsSupported'
    BY <1>1, <2>1 DEF ReturnsSupported
  <2> QED BY <2>2, <2>4, <2>5
<1> QED BY <1>1, <1>3, <1>4, <1>5

LEMMA ExecuteKeeps ==
  ASSUME MigrationInv, NEW p \in Processes, Execute(p)
  PROVE  MigrationInv'
<1> USE DEF MigrationInv
<1> DEFINE text == Statements(p)
           more == Append(staged, text[Len(staged) + 1])
<1>1. /\ pc[p] = "execute" /\ lock = p /\ staged' = more
      /\ Len(staged) < Len(text) /\ IsTuple(staged) /\ IsPrefix(staged, text)
      /\ UNCHANGED <<ledger, schema, lock, pc, next, result, starts>>
  BY DEF Execute, TypeOK, PlaceInv
<1>2. \A q \in Processes \ {p} : pc[q] \notin {"decide", "execute"}
  BY <1>1, OneHolder
<1>3. TypeOK'
  BY <1>1, OutcomesAreApart DEF TypeOK
<1>4. IsTuple(text)
  <2>1. next[p] \in 1 .. Len(Registry[p])
    BY <1>1, Registries DEF TypeOK, PlaceInv
  <2> QED BY <2>1, Registries DEF Statements
<1>5. IsPrefix(more, text)
  BY <1>1, <1>4, NextOfRegistry DEF IsTuple
<1>6. IsTuple(more)
  <2>1. more \in Seq(Range(staged) \cup {text[Len(staged) + 1]})
    <3>1. staged \in Seq(Range(staged) \cup {text[Len(staged) + 1]})
      BY <1>1, SeqMonotonic DEF IsTuple
    <3> QED BY <3>1
  <2> HIDE DEF more
  <2> QED BY <2>1, SeqOfRange DEF IsTuple, Range
<1> HIDE DEF more, text
<1>7. PlaceInv'
  BY <1>1, <1>2, <1>5, <1>6 DEF PlaceInv, Compatible, Statements, text
<1>8. ReturnsSupported'
  BY <1>1 DEF ReturnsSupported
<1> QED BY <1>3, <1>7, <1>8

LEMMA StatementFailsKeeps ==
  ASSUME MigrationInv, NEW p \in Processes, StatementFails(p)
  PROVE  MigrationInv'
<1> USE DEF MigrationInv
<1>1. /\ pc[p] \in {"decide", "execute"} /\ lock = p /\ lock' = None /\ staged' = <<>>
      /\ pc' = [pc EXCEPT ![p] = "done"]
      /\ \E error \in Errors : result' = [result EXCEPT ![p] = error]
      /\ UNCHANGED <<ledger, schema, next, starts>>
  BY DEF StatementFails, Raise, Goto, Release, TypeOK, Errors
<1>2. \A q \in Processes \ {p} : pc[q] \notin {"decide", "execute"}
  BY <1>1, OneHolder
<1>3. TypeOK'
  BY <1>1, <1>2, OutcomesAreApart DEF TypeOK, Steps, Errors
<1>4. PlaceInv'
  BY <1>1, <1>2 DEF TypeOK, PlaceInv, Compatible, Statements
<1>5. ReturnsSupported'
  BY <1>1, OutcomesAreApart DEF TypeOK, ReturnsSupported, Errors
<1> QED BY <1>3, <1>4, <1>5

\* A recorded migration is the next of the registry, with all its statements.
LEMMA RecordAdvances ==
  ASSUME MigrationInv, NEW p \in Processes, Record(p)
  PROVE  LET m == Registry[p][next[p]] IN
         /\ m \in Known /\ m.version = Len(ledger) + 1
         /\ ledger' = Append(ledger, m) /\ schema' = schema \o m.statements
         /\ IsPrefix(ledger', Registry[p])
         /\ ledger = <<>> => schema = <<>>
<1> USE DEF MigrationInv
<1> DEFINE m == Registry[p][next[p]]
<1>1. /\ pc[p] = "execute" /\ Compatible(p) /\ next[p] = Len(ledger) + 1
      /\ next[p] \in 1 .. Len(Registry[p]) /\ Len(ledger) \in Nat
      /\ IsTuple(staged) /\ IsPrefix(staged, m.statements)
  BY Registries DEF Record, TypeOK, PlaceInv, Statements
<1>2. m \in Known /\ m.version = Len(ledger) + 1 /\ IsTuple(m.statements)
  BY <1>1, Registries
<1>3. Len(staged) = Len(m.statements)
  BY DEF Record, Statements
<1>4. staged = m.statements
  <2>1. IsPrefix(staged, m.statements) <=>
          Len(staged) <= Len(m.statements) /\ \A i \in 1 .. Len(staged) : staged[i] = m.statements[i]
    BY <1>1, <1>2, PrefixElements DEF IsTuple
  <2>2. \A i \in 1 .. Len(staged) : staged[i] = m.statements[i]
    BY <1>1, <2>1
  <2>3. /\ staged \in Seq(Range(staged) \cup Range(m.statements))
        /\ m.statements \in Seq(Range(staged) \cup Range(m.statements))
    BY <1>1, <1>2, SeqMonotonic DEF IsTuple
  <2> QED BY <1>3, <2>2, <2>3, SeqEqual
<1>5. ledger' = Append(ledger, m) /\ schema' = schema \o m.statements
  BY <1>4 DEF Record
<1>6. IsPrefix(Append(ledger, m), Registry[p])
  <2>1. Len(ledger) < Len(Registry[p])
    BY <1>1
  <2> QED BY <1>1, <2>1, NextOfRegistry, Registries DEF Compatible, TypeOK
<1> QED BY <1>1, <1>2, <1>5, <1>6 DEF Compatible

LEMMA RecordKeeps ==
  ASSUME MigrationInv, NEW p \in Processes, Record(p)
  PROVE  MigrationInv'
<1> USE DEF MigrationInv
<1> DEFINE m == Registry[p][next[p]]
<1>1. /\ pc[p] = "execute" /\ lock = p /\ lock' = None /\ staged' = <<>>
      /\ next[p] = Len(ledger) + 1 /\ next[p] <= Len(Registry[p])
      /\ next' = [next EXCEPT ![p] = @ + 1]
      /\ pc' = [pc EXCEPT ![p] = IF next[p] < Len(Registry[p]) THEN "begin" ELSE "confirm"]
      /\ UNCHANGED <<result, starts>>
  BY DEF Record, Proceed, Goto, Release, TypeOK, PlaceInv
<1>2. \A q \in Processes \ {p} : pc[q] \notin {"decide", "execute"}
  BY <1>1, OneHolder
<1>3. m \in Known /\ ledger' = Append(ledger, m)
  BY RecordAdvances
<1>4. ledger' \in Seq(Known) /\ Len(ledger') = Len(ledger) + 1 /\ Len(ledger) \in Nat
  BY <1>3 DEF TypeOK
<1>5. Len(Registry[p]) \in Nat /\ next[p] \in Nat
  BY Registries DEF TypeOK
<1>6. TypeOK'
  BY <1>1, <1>2, <1>4, <1>5, OutcomesAreApart DEF TypeOK, Steps
<1>7. PlaceInv'
  BY <1>1, <1>2, <1>4, <1>5 DEF TypeOK, PlaceInv
<1>8. ReturnsSupported'
  BY <1>1, <1>3, LongerLedger, Registries DEF TypeOK, ReturnsSupported
<1> QED BY <1>6, <1>7, <1>8

LEMMA ConfirmKeeps ==
  ASSUME MigrationInv, NEW p \in Processes, Confirm(p)
  PROVE  MigrationInv'
<1> USE DEF MigrationInv
<1> DEFINE value == IF Compatible(p) THEN Len(ledger) ELSE Incompatible
<1>1. /\ pc[p] = "confirm" /\ pc' = [pc EXCEPT ![p] = "done"]
      /\ result' = [result EXCEPT ![p] = value]
      /\ UNCHANGED <<ledger, schema, lock, staged, next, starts>>
  BY DEF Confirm, Raise, Goto
<1>2. Len(ledger) \in Nat /\ Len(Registry[p]) \in Nat
  BY Registries DEF TypeOK
<1>3. TypeOK'
  BY <1>1, <1>2 DEF TypeOK, Steps, Errors
<1>4. PlaceInv'
  BY <1>1 DEF TypeOK, PlaceInv, Compatible, Statements
<1>5. ASSUME value \in Nat
      PROVE  value = Len(Registry[p]) /\ IsPrefix(Registry[p], ledger)
  <2>1. Compatible(p) /\ value = Len(ledger)
    BY <1>5, OutcomesAreApart
  <2>2. Len(ledger) <= Len(Registry[p]) /\ \A i \in 1 .. Len(ledger) : ledger[i] = Registry[p][i]
    BY <2>1, PrefixElements, Registries DEF Compatible, TypeOK
  <2>3. Len(Registry[p]) <= Len(ledger)
    BY <1>1, <1>2 DEF PlaceInv
  <2>4. Len(ledger) = Len(Registry[p])
    BY <1>2, <2>2, <2>3
  <2>5. \A i \in 1 .. Len(Registry[p]) : Registry[p][i] = ledger[i]
    BY <2>2, <2>4
  <2>6. IsPrefix(Registry[p], ledger)
    <3>1. Registry[p] \in Seq(Known) /\ ledger \in Seq(Known)
      BY Registries DEF TypeOK
    <3>2. IsPrefix(Registry[p], ledger) <=>
            Len(Registry[p]) <= Len(ledger) /\ \A i \in 1 .. Len(Registry[p]) : Registry[p][i] = ledger[i]
      BY <3>1, PrefixElements
    <3> QED BY <1>2, <2>4, <2>5, <3>2
  <2> QED BY <2>1, <2>4, <2>6
<1> HIDE DEF value
<1>6. ReturnsSupported'
  BY <1>1, <1>5 DEF TypeOK, ReturnsSupported
<1> QED BY <1>3, <1>4, <1>6

LEMMA CrashKeeps ==
  ASSUME MigrationInv, NEW p \in Processes, Crash(p)
  PROVE  MigrationInv'
<1> USE DEF MigrationInv
<1>1. TypeOK'
  BY OutcomesAreApart DEF Crash, Goto, TypeOK, Steps
<1>2. PlaceInv'
  BY OutcomesAreApart DEF Crash, Goto, TypeOK, PlaceInv, Compatible, Statements
<1>3. ReturnsSupported'
  BY DEF Crash, ReturnsSupported
<1> QED BY <1>1, <1>2, <1>3

LEMMA MigrationStep == MigrationInv /\ [Next]_vars => MigrationInv'
<1> SUFFICES ASSUME MigrationInv, [Next]_vars PROVE MigrationInv'
  OBVIOUS
<1>1. CASE UNCHANGED vars
  BY <1>1 DEF vars, MigrationInv, TypeOK, PlaceInv, ReturnsSupported, Compatible, Statements
<1>2. ASSUME NEW p \in Processes, Start(p) \/ Run(p) \/ Crash(p) PROVE MigrationInv'
  BY <1>2, StartKeeps, CheckKeeps, CheckFailsKeeps, BeginKeeps, BeginTimesOutKeeps, DecideKeeps,
     ExecuteKeeps, StatementFailsKeeps, RecordKeeps, ConfirmKeeps, CrashKeeps DEF Run
<1> QED BY <1>1, <1>2 DEF Next

-----------------------------------------------------------------------------
(* Theorems. *)

\* Under every interleaving, failure, death and mixture of builds the ledger is typed,
\* the lock is held by who stages, and a normal return of migrate() means that the
\* file holds this build's migrations (migration.py:61-81).
THEOREM MigrationCorrect == Spec => []MigrationInv
<1>1. MigrationInv /\ [Next]_vars => MigrationInv'
  BY MigrationStep
<1> QED BY <1>1, MigrationInitially, PTL DEF Spec

\* The file goes through whole migrations only, each the next version of some build,
\* ledger and schema together (migration.py:170-211).
THEOREM MigrationImplementsLedger == Spec => ImplementsLedger
<1>1. Init => Ledger!LedgerInit
  BY DEF Init, Ledger!LedgerInit
<1>2. MigrationInv /\ [Next]_vars => [Ledger!Advance]_<<ledger, schema>>
  <2> SUFFICES ASSUME MigrationInv, [Next]_vars, ~UNCHANGED <<ledger, schema>>
               PROVE  Ledger!Advance
    OBVIOUS
  <2>1. PICK p \in Processes : Record(p)
    BY DEF Next, vars, Start, Run, Check, CheckFails, Begin, BeginTimesOut, Decide, Execute,
           StatementFails, Confirm, Crash
  <2> QED BY <2>1, RecordAdvances DEF Ledger!Advance
<1> QED
  BY <1>1, <1>2, MigrationCorrect, PTL DEF Spec, ImplementsLedger, Ledger!LedgerSpec
=============================================================================
