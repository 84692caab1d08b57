---------------------------- MODULE MCMigration ----------------------------
(* An old build, a newer one, and one that disagrees about version 2.      *)
EXTENDS Migration

Build(version, checksum, statements) ==
  [version |-> version, checksum |-> checksum, statements |-> statements]

First  == Build(1, "a", <<"s1", "s2">>)
Second == Build(2, "b", <<"s3">>)
Other  == Build(2, "c", <<"s4", "s5">>)

\* A file that another program made.
Others == {<<"t">>}

Builds == [old |-> <<First>>, new |-> <<First, Second>>, fork |-> <<First, Other>>]
=============================================================================
