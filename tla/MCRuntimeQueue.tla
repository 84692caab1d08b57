---------------------------- MODULE MCRuntimeQueue ----------------------------
(***************************************************************************)
(* Small instances of RuntimeQueue for TLC.                                *)
(***************************************************************************)
EXTENDS RuntimeQueue, TLC

CONSTANTS c1, c2, c3

Interchangeable == Permutations(Cycles)

\* Bound of the order run: the clock is read only while nothing but the
\* operator and the interval trigger has scheduled cycles and none of them has
\* failed, and else stands still at 0.
OneAtATime ==
  \/ now' = 0 /\ fired' = None
  \/ /\ \A i \in DOMAIN items' : items'[i].trigger \in {"manual", "scheduled"}
     /\ failures' = {}
=============================================================================
