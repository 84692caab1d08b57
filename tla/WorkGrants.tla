------------------------------ MODULE WorkGrants ----------------------------
(***************************************************************************)
(* What the durable lifecycle promises its workers: an item is granted at  *)
(* most Limit[i] times, to one worker at a time; only the worker of the    *)
(* current grant concludes it, and what is concluded for good stays so.    *)
(***************************************************************************)
EXTENDS Naturals

CONSTANTS Items, Workers, Nobody, Limit

VARIABLES
    grants,     \* how many execution grants each item has had
    grantee,    \* who holds the current one
    state,      \* "open", "done" or "dead"
    told        \* grants whose worker was told that its verdict is recorded

grantVars == <<grants, grantee, state, told>>

GrantsInit ==
    /\ grants = [i \in Items |-> 0]
    /\ grantee = [i \in Items |-> Nobody]
    /\ state = [i \in Items |-> "open"]
    /\ told = {}

\* A first grant, or one that takes the item from a worker that went silent.
Grant(i, w) ==
    /\ state[i] = "open"
    /\ grants[i] < Limit[i]
    /\ grants' = [grants EXCEPT ![i] = @ + 1]
    /\ grantee' = [grantee EXCEPT ![i] = w]
    /\ UNCHANGED <<state, told>>

\* The grantee ends its grant; it learns of it unless the answer is lost.
Conclude(i, w) ==
    /\ state[i] = "open"
    /\ grantee[i] = w
    /\ grantee' = [grantee EXCEPT ![i] = Nobody]
    /\ state' \in {[state EXCEPT ![i] = s] : s \in {"open", "done", "dead"}}
    /\ told' \in {told, told \union {<<i, w, grants[i]>>}}
    /\ UNCHANGED grants

\* The last grant ran out without a verdict.
Expire(i) ==
    /\ state[i] = "open"
    /\ grants[i] >= Limit[i]
    /\ grantee[i] # Nobody
    /\ grantee' = [grantee EXCEPT ![i] = Nobody]
    /\ state' = [state EXCEPT ![i] = "dead"]
    /\ UNCHANGED <<grants, told>>

GrantsNext == \E i \in Items :
    \/ \E w \in Workers : Grant(i, w) \/ Conclude(i, w)
    \/ Expire(i)

GrantsSpec == GrantsInit /\ [][GrantsNext]_grantVars
=============================================================================
