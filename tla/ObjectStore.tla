---------------------------- MODULE ObjectStore ----------------------------
(***************************************************************************)
(* The in-memory store with its snapshots (persistence/in_memory.py,       *)
(* checkpoint.py), the lifecycle helpers that write to it (lifecycle.py)   *)
(* and the override log.  Calls do not overlap, as the store demands, but  *)
(* callers keep the frozen objects they read, and may act on one that has  *)
(* been overwritten since.                                                 *)
(***************************************************************************)
EXTENDS Lifecycles, FiniteSets, SequencesExt

CONSTANTS
  Clients,
  Stocks,        \* what the store may hold at first: functions from ids to objects
  EvidenceIds,   \* ids of evidence, apart from those of other objects
  Contents,      \* contents of evidence, kept where other objects have their status
  Payloads,      \* payloads of override records, None among them
  Empty,         \* the payload {}
  None,
  Faulty,        \* whether a store may refuse the second write of a pair
  MaxId,         \* bound: ids of the other objects
  MaxHistory,    \* bound: entries of a history
  MaxOverrides   \* bound: records of the override log

\* What the constructors of an object leave possible under an id.
HasStatus(i, o) ==
  IF i \in EvidenceIds
  THEN o.kind = "evidence" /\ o.status \in Contents /\ o.history = <<>>
  ELSE o.kind \in DOMAIN Graph /\ o.status \in StatusesOf(o.kind)

ASSUME StoreAssumption ==
  /\ MaxId \in Nat /\ MaxHistory \in Nat /\ MaxOverrides \in Nat
  /\ Faulty \in BOOLEAN
  /\ EvidenceIds \cap (1..MaxId) = {} /\ None \notin (1..MaxId) \cup EvidenceIds
\* The objects a store starts with are new ones, with the first ids that were given out.
ASSUME StocksAreNew == \A stock \in Stocks :
  /\ \E n \in 0..MaxId : DOMAIN stock \ EvidenceIds = 1..n
  /\ stock = [i \in DOMAIN stock |->
                [kind |-> stock[i].kind, status |-> stock[i].status, history |-> <<>>]]
  /\ \A i \in DOMAIN stock : HasStatus(i, stock[i])

VARIABLES
  objects,    \* the dicts of the store as one: ids are unique across kinds
  overrides,  \* _overrides
  issued,     \* the last id given out: ids are never reused
  copies,     \* the object each caller holds, with its id
  captured,   \* the last snapshot
  aged,       \* whether a caller has written what it made of an overwritten copy
  outcome     \* how the last restore ended; "done" after any other call

vars == <<objects, overrides, issued, copies, captured, aged, outcome>>

Entry(kind, by, of) == [kind |-> kind, by |-> by, of |-> of]

Init ==
  /\ objects \in Stocks
  /\ issued = Cardinality(DOMAIN objects \ EvidenceIds)
  /\ overrides = <<>>
  /\ copies = [c \in Clients |-> None]
  /\ captured = None
  /\ aged = FALSE
  /\ outcome = "done"

Read(c) ==
  /\ \E i \in DOMAIN objects : copies' = [copies EXCEPT ![c] = [id |-> i, object |-> objects[i]]]
  /\ outcome' = "done"
  /\ UNCHANGED <<objects, overrides, issued, captured, aged>>

Holds(c) == copies[c] # None

Current(c) ==
  /\ copies[c].id \in DOMAIN objects
  /\ objects[copies[c].id] = copies[c].object

\* No helper reads the store before it writes.
Ages(c) == aged' = (aged \/ ~Current(c))

\* store[i] = o, for a dict.
Put(i, o, store) == [j \in {i} \cup DOMAIN store |-> IF j = i THEN o ELSE store[j]]

Writes(c, o) ==
  /\ objects' = Put(copies[c].id, o, objects)
  /\ copies' = [copies EXCEPT ![c].object = o]
  /\ Ages(c)
  /\ outcome' = "done"
  /\ UNCHANGED <<overrides, issued, captured>>

\* retire_*, supersede_signal, conclude_research, or a method and a put_*.
Move(c) ==
  /\ Holds(c)
  /\ LET o == copies[c].object
     IN /\ o.kind \in DOMAIN Methods
        /\ \E to \in Methods[o.kind] : \E moved \in Moved(o, to) : Writes(c, moved)

IsThesis(c) == Holds(c) /\ copies[c].object.kind = "thesis"

Room(c) == Len(copies[c].object.history) < MaxHistory

Evolve(c) ==
  /\ IsThesis(c)
  /\ Room(c)
  /\ Writes(c, Evolved(copies[c].object, Entry("evolve", c, None)))

\* Both objects are built first, then the prior is put and then the successor.
Supersede(c) ==
  /\ IsThesis(c)
  /\ Room(c)
  /\ issued < MaxId
  /\ LET prior == copies[c]
         next == Successor(prior.object, Entry("supersede", c, prior.id))
     IN \E marked \in Marked(prior.object, Entry("supersede", c, None)) :
          LET half == Put(prior.id, marked, objects)
          IN \/ /\ objects' = Put(issued + 1, next, half)
                /\ issued' = issued + 1
                /\ copies' = [copies EXCEPT ![c] = [id |-> issued + 1, object |-> next]]
             \/ /\ Faulty
                /\ objects' = half
                /\ UNCHANGED <<issued, copies>>
  /\ Ages(c)
  /\ outcome' = "done"
  /\ UNCHANGED <<overrides, captured>>

\* Evidence is write-once: a second put of an id raises and changes nothing.
PutEvidence ==
  /\ \E i \in EvidenceIds \ DOMAIN objects, content \in Contents :
       objects' = Put(i, [kind |-> "evidence", status |-> content, history |-> <<>>], objects)
  /\ outcome' = "done"
  /\ UNCHANGED <<overrides, issued, copies, captured, aged>>

Targets == (1..MaxId) \cup EvidenceIds

\* append_curator_override does not look the target up; a Curator does before it.
Override ==
  /\ Len(overrides) < MaxOverrides
  /\ \E i \in Targets, payload \in Payloads :
       overrides' = Append(overrides, [target |-> i, payload |-> payload])
  /\ outcome' = "done"
  /\ UNCHANGED <<objects, issued, copies, captured, aged>>

Checkpoint ==
  /\ captured' = [objects |-> objects, overrides |-> overrides]
  /\ outcome' = "done"
  /\ UNCHANGED <<objects, overrides, issued, copies, aged>>

-----------------------------------------------------------------------------
(* restore() clears the store and loads the snapshot section by section.   *)

Section == [entity |-> 1, source |-> 2, evidence |-> 3, signal |-> 4, research |-> 5, thesis |-> 6]

Rank(i) == Section[captured.objects[i].kind]

\* Mutant: loads over what is there.
KeepsTheRest(ids, damaged) ==
  [i \in ids \cup DOMAIN objects |-> IF i \in ids THEN captured.objects[i] ELSE objects[i]]

\* The dicts are cleared and these objects of the snapshot put into them, some with
\* a damaged status that nobody notices.
Loaded(ids, damaged) ==
  [i \in ids |-> IF i \in damaged THEN [captured.objects[i] EXCEPT !.status = "unknown"]
                 ELSE captured.objects[i]]

Reloaded(record) == [record EXCEPT !.payload = IF @ = None THEN Empty ELSE @]

\* The status of a source is loaded as it is, every other is converted.
Sources(ids) == {i \in ids : captured.objects[i].kind = "source"}

RestoresTo(ids, length, how) ==
  /\ \E damaged \in SUBSET Sources(ids) : objects' = Loaded(ids, damaged)
  /\ overrides' = [n \in 1..length |-> Reloaded(captured.overrides[n])]
  /\ outcome' = how
  /\ UNCHANGED <<issued, copies, captured, aged>>

Restore ==
  /\ captured # None
  /\ RestoresTo(DOMAIN captured.objects, Len(captured.overrides), "restored")

\* An entry that cannot be rebuilt: what was loaded before it stays.
RestoreMalformed ==
  /\ captured # None
  /\ \/ \E bad \in DOMAIN captured.objects :
          \E alongside \in SUBSET {i \in DOMAIN captured.objects : Rank(i) = Rank(bad) /\ i # bad} :
            RestoresTo({i \in DOMAIN captured.objects : Rank(i) < Rank(bad)} \cup alongside,
                       0, "malformed")
     \/ \E length \in 0..(Len(captured.overrides) - 1) :
          RestoresTo(DOMAIN captured.objects, length, "malformed")

\* A section is missing: found before anything is loaded, after the clear.
RestoreRefused ==
  /\ captured # None
  /\ RestoresTo({}, 0, "refused")

Next ==
  \/ \E c \in Clients : Read(c) \/ Move(c) \/ Evolve(c) \/ Supersede(c)
  \/ PutEvidence \/ Override \/ Checkpoint
  \/ Restore \/ RestoreMalformed \/ RestoreRefused

Spec == Init /\ [][Next]_vars

-----------------------------------------------------------------------------
(* Properties                                                              *)

\* Types: ids are issued ones, an object has a status of its kind, histories and
\* overrides name some id (in_memory.py:67-74, override.py:44-70).
Ids == (1..issued) \cup EvidenceIds

Entries == [kind : {"evolve", "supersede"}, by : Clients, of : (1..issued) \cup {None}]

Statuses == Contents \cup UNION {StatusesOf(kind) : kind \in DOMAIN Graph}

Objects == [kind : DOMAIN Section, status : Statuses, history : Seq(Entries)]

Records == [target : Targets, payload : Payloads \cup {Empty}]

WellFormed(store) ==
  /\ DOMAIN store \subseteq Ids
  /\ store \in [DOMAIN store -> Objects]
  /\ \A i \in DOMAIN store : HasStatus(i, store[i])

TypeOK ==
  /\ issued \in 0..MaxId /\ aged \in BOOLEAN
  /\ WellFormed(objects) /\ overrides \in Seq(Records)
  /\ captured # None => WellFormed(captured.objects) /\ captured.overrides \in Seq(Records)
  /\ copies \in [Clients -> [id : Ids, object : Objects] \cup {None}]
  /\ \A c \in Clients : copies[c] # None => HasStatus(copies[c].id, copies[c].object)
  /\ outcome \in {"done", "restored", "malformed", "refused"}

Lineage(store) ==
  \A i \in DOMAIN store : LET past == store[i].history IN
    \A n \in DOMAIN past :
      past[n].of \in DOMAIN store => IsPrefix(SubSeq(past, 1, n - 1), store[past[n].of].history)

\* Whatever a successor says it took over is, entry for entry, what the thesis it
\* supersedes still says of itself, in the store and in the snapshot, through
\* evolutions, repeated supersessions, halved pairs and restores, as long as nobody
\* wrote from a copy that was overwritten (core/theses/__init__.py:127-173,
\* lifecycle.py:105-112).
LineagePreserved ==
  ~aged => Lineage(objects) /\ (captured # None => Lineage(captured.objects))

FollowsGraph(i) ==
  \/ objects'[i].status = objects[i].status
  \/ <<objects[i].status, objects'[i].status>> \in Graph[objects[i].kind]

\* Between restores nothing is forgotten: no object goes, evidence stays as it was put,
\* histories only grow, and a status moves along its graph.  The last two need callers
\* with current copies, and only they do (in_memory.py:78-155, core/lifecycle.py:54-62).
PastIsKept ==
  [][outcome' = "done" => \A i \in DOMAIN objects :
       /\ i \in DOMAIN objects'
       /\ objects[i].kind = "evidence" => objects'[i] = objects[i]
       /\ aged' \/ (FollowsGraph(i) /\ IsPrefix(objects[i].history, objects'[i].history))]_vars

\* After a restore, failed or not, the store mixes nothing: what is there is the
\* snapshot's but for the status of a source, which nobody checks, a section is there
\* only after all of the sections before it, and the overrides are a first part of the
\* captured ones (in_memory.py:182-189, 262-474).
AsCaptured(i) ==
  \/ objects[i] = captured.objects[i]
  \/ /\ captured.objects[i].kind = "source"
     /\ objects[i] = [captured.objects[i] EXCEPT !.status = "unknown"]

RestoredIsCaptured ==
  outcome # "done" =>
    /\ \A i \in DOMAIN objects :
         /\ i \in DOMAIN captured.objects /\ AsCaptured(i)
         /\ {j \in DOMAIN captured.objects : Rank(j) < Rank(i)} \subseteq DOMAIN objects
    /\ overrides # <<>> => DOMAIN objects = DOMAIN captured.objects
    /\ \A n \in DOMAIN overrides : overrides[n].target = captured.overrides[n].target
    /\ outcome = "restored" => /\ DOMAIN objects = DOMAIN captured.objects
                               /\ Len(overrides) = Len(captured.overrides)

\* Types, and what a restore leaves in the store.
StoreInv == TypeOK /\ RestoredIsCaptured
=============================================================================
