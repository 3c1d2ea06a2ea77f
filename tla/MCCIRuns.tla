------------------------------ MODULE MCCIRuns ------------------------------
(***************************************************************************)
(* CIRuns for base, hive and spark, which extends hive, with two pull      *)
(* requests from branches of one name.                                     *)
(***************************************************************************)
EXTENDS CIRuns, TLC

CONSTANTS hive, spark, p1, p2

HiveAndSpark == hive :> Base @@ spark :> hive

\* A file that the spark job reads through hive, and one that it compares with
\* the parser and that the bindings build from.
SomeFiles == { <<"dialect", hive>>, <<"blob", spark>> }

\* The scanner, which every binding compiles, and a file of the bindings.
ScannerFiles == { <<"scanner", Base>>, <<"bindings", Base>> }

\* What the theorems about CIRuns start from.
ASSUME SomeFilesCovered == Files = SomeFiles => GapsAside /\ Covered

AllOld == [f \in Files |-> "old"]

\* A job fails on two new files that do not go together.
ConflictingPairs ==
    LET Good(D) == {g \in [D -> Contents] :
                      Cardinality({f \in D : g[f] = "new"}) < 2}
    IN  UNION { {j} \X Good(ReadsOf[j]) : j \in Jobs }
          \cup ({"corpus-lint"} \X Good(LintReads \cap Files))

OneGroup == [r \in Refs |-> IF r = Main THEN Main ELSE "head_ref"]
=============================================================================
