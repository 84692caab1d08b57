-------------------------- MODULE MCSQLiteCollection --------------------------
(***************************************************************************)
(* Small instances of SQLiteCollection for TLC.                            *)
(***************************************************************************)
EXTENDS SQLiteCollection, TLC

CONSTANTS c1, c2, s1, a, aBlank, b, body, bodyLater, q1, q2, h1,
          w1, research1, entity

\* "a" and "a " are one identity; a body fetched twice differs only in the
\* retrieval time, so its content hash is the same.
MCStripped == (a :> a) @@ (aBlank :> a) @@ (b :> b)
MCStrippedTwo == (a :> a) @@ (b :> b)
MCContentHash == (body :> h1) @@ (bodyLater :> h1)

Rss1 == [name |-> "rss", version |-> 1]
Rss2 == [name |-> "rss", version |-> 2]
Atom1 == [name |-> "atom", version |-> 1]
OneConnector == {Rss1}
ThreeConnectors == {Rss1, Rss2, Atom1}

\* Port writes that collide with what a collector of s1 would write.
DirectDocuments == {RawDocument(s1, a, bodyLater, Rss1)}
DirectClaims ==
  {[kind |-> "collection", key |-> <<s1, a>>, version |-> CollectionVersion,
    document |-> <<s1, b>>],
   [kind |-> "content", key |-> h1, version |-> "text-v0",
    document |-> <<s1, a>>]}
DirectWork ==
  {[id |-> w1, key |-> <<s1, a>>, document |-> <<s1, a>>],
   [id |-> <<s1, b>>, key |-> research1, document |-> entity]}

\* Bound of the race: the feed reads the bodies later for the second client,
\* in all its collections; the first client draws either retrieval time.
Within ==
  \A c \in Clients : \A d \in command'[c].documents :
    d.payload \in (IF c = c2 THEN {bodyLater} ELSE Payloads)
=============================================================================
