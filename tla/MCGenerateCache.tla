-------------------------- MODULE MCGenerateCache --------------------------
\* GenerateCache for a dialect that extends a dialect: spark, hive and base.
EXTENDS GenerateCache, TLC

CONSTANTS hive, spark

HiveAndSpark == hive :> Base @@ spark :> hive
TheTable     == hive :> {} @@ spark :> {hive}

\* Two files that the hash covers, and one that it does not.
TwoFiles    == {<<"rules", hive>>, <<"entry", spark>>}
BaseEntry   == {<<"entry", Base>>}

\* Edits at any time, with kills, blobs or losses alone, or kills and one of the
\* others; and sources that go back between the runs, with blobs and losses.
AllKinds == { {"die", "edit while running"},
              {"edit while running", "inflate"},
              {"edit while running", "lose"},
              {"die", "edit while running", "inflate"},
              {"die", "edit while running", "lose"},
              {"go back", "lose", "inflate"} }
NothingElse == {{}}

\* Where sources go back, one version to come back from is enough.
Bounds    == [e \in AllKinds |-> IF "go back" \in e THEN 1 ELSE 2]
OneEdit   == [e \in NothingElse |-> 1]
=============================================================================
