--------------------------- MODULE GenerateCache ---------------------------
(***************************************************************************)
(* scripts/generate.js: hash-cached grammar generation, and what else      *)
(* writes the files it writes.                                             *)
(*                                                                         *)
(* A run for a grammar hashes source files, compares the hash with the     *)
(* marker in .grammar-cache/, and unless they agree runs tree-sitter       *)
(* generate, which composes the grammar with those it extends and writes   *)
(* the three artifacts in place, one after the other, and then writes the  *)
(* marker.  Meanwhile files are edited, runs are killed, artifacts get     *)
(* lost, and inflate-parsers.js writes two of them from the committed      *)
(* blobs.  A source file is a version number; an artifact is the versions  *)
(* it was made from, or cut short where its write has not come to an end.  *)
(***************************************************************************)
EXTENDS Lineage

CONSTANTS Parent,       \* the grammar each dialect's grammar.js imports
          PARENTS,      \* generate.js's table of the dialects above a dialect
          Targets,      \* the grammars that are generated
          Edited,       \* the source files that may change
          Environments, \* what else may happen in a behaviour: sets of EnvironmentSteps
          MaxVersion,   \* where versions stop, for each of the Environments
          None,         \* a file that does not exist
          CutShort      \* an artifact of which only a part was written

Grammars == Dialects \cup {Base}

\* grammar.js and the grammar/ directory of each grammar.
Files == {"entry", "rules"} \X Grammars

Artifacts == {"parser.c", "grammar.json", "node-types.json"}
InBlobs   == {"parser.c", "node-types.json"}

EnvironmentSteps == {"die", "edit while running", "go back", "lose", "inflate"}

ASSUME GenerateAssumption ==
    /\ Parent \in [Dialects -> Dialects \cup {Base}]
    /\ IsForest(Parent)
    /\ PARENTS \in [Dialects -> SUBSET Dialects]
    /\ Targets \subseteq Grammars
    /\ Edited \subseteq Files
    /\ Environments \subseteq SUBSET EnvironmentSteps
    /\ MaxVersion \in [Environments -> Nat]

VARIABLES version,   \* the version of each source file
          marker,    \* the hash in .grammar-cache/<grammar>.hash
          out,       \* the artifacts in <grammar>/src
          run,       \* the run of generate.js for each grammar
          blob,      \* the committed .br files of each grammar
          newer,     \* is the blob newer than the artifact it belongs to?
          environment  \* what else happens in this behaviour

vars == <<version, marker, out, run, blob, newer, environment>>

\* The files that the hash of g covers.
Hashed(g) ==
    {<<"rules", Base>>, <<"rules", g>>, <<"entry", g>>}
      \cup (IF g = Base THEN {}
            ELSE {<<k, a>> : k \in {"entry", "rules"}, a \in PARENTS[g]})

\* The files that tree-sitter generate loads for g.
Composed(g) ==
    {"entry", "rules"} \X ({g, Base} \cup (IF g = Base THEN {}
                                           ELSE Ancestors(g, Parent)))

Hash(g)   == [f \in Hashed(g) |-> version[f]]
Result(g) == [f \in Composed(g) |-> version[f]]

\* todo: the artifacts not begun yet; open: the one that is being written.
Idle == [pc |-> "idle", hash |-> None, read |-> None, todo |-> {}, open |-> {}]

Running(g) == run[g].pc # "idle"

Init ==
    /\ version = [f \in Files |-> 0]
    /\ marker = [g \in Targets |-> None]
    /\ out = [g \in Targets |-> [a \in Artifacts |-> None]]
    /\ run = [g \in Targets |-> Idle]
    /\ blob = [g \in Targets |-> [a \in InBlobs |-> Result(g)]]
    /\ newer = [g \in Targets |-> [a \in InBlobs |-> TRUE]]
    /\ environment \in Environments

-----------------------------------------------------------------------------
\* Mutant: the marker is proof enough.
UpToDateByMarker(g) == marker[g] = Hash(g)

\* "grammar unchanged; skipping generate".
UpToDate(g) ==
    /\ marker[g] = Hash(g)
    /\ \A a \in Artifacts : out[g][a] # None

\* A run starts and does not find the grammar unchanged.
Start(g) ==
    /\ ~Running(g)
    /\ ~UpToDate(g)
    /\ run' = [run EXCEPT ![g] = [Idle EXCEPT !.pc = "hashed", !.hash = Hash(g)]]
    /\ UNCHANGED <<version, marker, out, blob, newer>>

\* tree-sitter generate loads the grammar.
Compose(g) ==
    /\ run[g].pc = "hashed"
    /\ run' = [run EXCEPT ![g].pc = "writing", ![g].read = Result(g),
                          ![g].todo = Artifacts]
    /\ UNCHANGED <<version, marker, out, blob, newer>>

\* It creates or truncates the file of an artifact ...
BeginWrite(g, a) ==
    /\ run[g].pc = "writing"
    /\ run[g].open = {}
    /\ a \in run[g].todo
    /\ run' = [run EXCEPT ![g].todo = @ \ {a}, ![g].open = {a}]
    /\ out' = [out EXCEPT ![g][a] = CutShort]
    /\ newer' = IF a \in InBlobs THEN [newer EXCEPT ![g][a] = FALSE] ELSE newer
    /\ UNCHANGED <<version, marker, blob>>

\* ... and has written all of it.
EndWrite(g, a) ==
    /\ a \in run[g].open
    /\ run' = [run EXCEPT ![g].open = @ \ {a}]
    /\ out' = [out EXCEPT ![g][a] = run[g].read]
    /\ newer' = IF a \in InBlobs THEN [newer EXCEPT ![g][a] = FALSE] ELSE newer
    /\ UNCHANGED <<version, marker, blob>>

\* Mutant: the marker says what tree-sitter read, not what was hashed.
FinishWithRead(g) ==
    /\ run[g].pc = "writing"
    /\ run[g].todo \cup run[g].open = {}
    /\ run' = [run EXCEPT ![g] = Idle]
    /\ marker' = [marker EXCEPT ![g] = run[g].read]
    /\ UNCHANGED <<version, out, blob, newer>>

\* Mutant: the hash is computed when it is written.
FinishWithHashOfNow(g) ==
    /\ run[g].pc = "writing"
    /\ run[g].todo \cup run[g].open = {}
    /\ run' = [run EXCEPT ![g] = Idle]
    /\ marker' = [marker EXCEPT ![g] = Hash(g)]
    /\ UNCHANGED <<version, out, blob, newer>>

\* tree-sitter generate succeeded: the marker gets the hash from the start.
Finish(g) ==
    /\ run[g].pc = "writing"
    /\ run[g].todo \cup run[g].open = {}
    /\ run' = [run EXCEPT ![g] = Idle]
    /\ marker' = [marker EXCEPT ![g] = run[g].hash]
    /\ UNCHANGED <<version, out, blob, newer>>

\* The run fails, or is killed; a file it was writing stays as it is.
Die(g) ==
    /\ "die" \in environment
    /\ Running(g)
    /\ run' = [run EXCEPT ![g] = Idle]
    /\ UNCHANGED <<version, marker, out, blob, newer>>

-----------------------------------------------------------------------------
MayEdit == "edit while running" \in environment \/ \A g \in Targets : ~Running(g)

\* A source file is edited.
Edit(f) ==
    /\ MayEdit
    /\ version[f] < MaxVersion[environment]
    /\ version' = [version EXCEPT ![f] = @ + 1]
    /\ UNCHANGED <<marker, out, run, blob, newer>>

\* A source file is put back, as git checkout does.
GoBack(f) ==
    /\ "go back" \in environment
    /\ MayEdit
    /\ version[f] > 0
    /\ version' = [version EXCEPT ![f] = @ - 1]
    /\ UNCHANGED <<marker, out, run, blob, newer>>

\* An artifact is deleted, or was left out of a cache that was restored.  What
\* a run goes on to write to a deleted file is lost with it.
Lose(g, a) ==
    /\ "lose" \in environment
    /\ out[g][a] # None
    /\ out' = [out EXCEPT ![g][a] = None]
    /\ run' = [run EXCEPT ![g].open = @ \ {a}]
    /\ UNCHANGED <<version, marker, blob, newer>>

\* compress-parsers.js writes the blobs of the artifacts that exist.
Compress(g) ==
    /\ "inflate" \in environment
    /\ blob' = [blob EXCEPT ![g] =
                  [a \in InBlobs |-> IF out[g][a] = None THEN @[a] ELSE out[g][a]]]
    /\ newer' = [newer EXCEPT ![g] =
                  [a \in InBlobs |-> out[g][a] # None \/ @[a]]]
    /\ UNCHANGED <<version, marker, out, run>>

\* inflate-parsers.js does not take the artifact for up to date.
Stale(g, a) == out[g][a] = None \/ newer[g][a]

Inflate(g, a) ==
    /\ "inflate" \in environment
    /\ Stale(g, a)
    /\ out' = [out EXCEPT ![g][a] = blob[g][a]]
    /\ newer' = [newer EXCEPT ![g][a] = FALSE]
    /\ UNCHANGED <<version, marker, run, blob>>

\* inflate-parsers.js is killed while it writes the artifact.
InflateCutShort(g, a) ==
    /\ {"die", "inflate"} \subseteq environment
    /\ Stale(g, a)
    /\ out' = [out EXCEPT ![g][a] = CutShort]
    /\ newer' = [newer EXCEPT ![g][a] = FALSE]
    /\ UNCHANGED <<version, marker, run, blob>>

Step ==
    \/ \E g \in Targets : Start(g) \/ Compose(g) \/ Finish(g) \/ Die(g)
    \/ \E g \in Targets, a \in Artifacts : BeginWrite(g, a) \/ EndWrite(g, a) \/ Lose(g, a)
    \/ \E f \in Edited : Edit(f) \/ GoBack(f)
    \/ \E g \in Targets : Compress(g)
    \/ \E g \in Targets, a \in InBlobs : Inflate(g, a) \/ InflateCutShort(g, a)

Next == Step /\ UNCHANGED environment

Spec == Init /\ [][Next]_vars

-----------------------------------------------------------------------------
\* The variables have their types.
Snapshot(g) == [Composed(g) -> Nat]
HashOf(g)   == [Hashed(g) -> Nat]

ASSUME NoneAssumption ==
    \A g \in Grammars : None \notin Snapshot(g) \cup HashOf(g)

ASSUME CutShortAssumption ==
    CutShort # None /\ \A g \in Grammars : CutShort \notin Snapshot(g)

RunRecord(g) ==
    [pc : {"idle", "hashed", "writing"}, hash : HashOf(g) \cup {None},
     read : Snapshot(g) \cup {None}, todo : SUBSET Artifacts, open : SUBSET Artifacts]

TypeOK ==
    /\ version \in [Files -> Nat]
    /\ \A g \in Targets :
         /\ marker[g] \in HashOf(g) \cup {None}
         /\ out[g] \in [Artifacts -> Snapshot(g) \cup {None, CutShort}]
         /\ run[g] \in RunRecord(g)
         /\ blob[g] \in [InBlobs -> Snapshot(g) \cup {CutShort}]
         /\ newer[g] \in [InBlobs -> BOOLEAN]
    /\ environment \in Environments

\* Sources only move forward, and nothing that is lost is inflated again.
Forward ==
    /\ "go back" \notin environment
    /\ "lose" \in environment => "inflate" \notin environment

\* Runs end by themselves, over sources that hold still.
Undisturbed == environment \cap {"die", "edit while running"} = {}

\* Where runs are killed, and files are there to be written again under a marker
\* that matches: lost ones by generate, older ones by inflate.
MayBeCut == "die" \in environment /\ environment \cap {"lose", "inflate"} # {}

(***************************************************************************)
(* When a run would say "grammar unchanged; skipping generate", the        *)
(* artifacts are what the present sources compose to, in spite of edits    *)
(* while a run was busy, and of runs killed half way, or artifacts lost,   *)
(* or inflated from blobs (generate.js:123).  Where runs are killed and    *)
(* artifacts are lost or inflated as well, a file may be cut short, since  *)
(* generate.js:120 asks only whether it exists; but it is never an old     *)
(* one.  Artifacts both lost and inflated can be old (see Forward).        *)
(***************************************************************************)
FreshWhenSkipped ==
    Forward => \A g \in Targets : ~Running(g) /\ UpToDate(g) =>
                   \A a \in Artifacts : \/ out[g][a] = Result(g)
                                       \/ (MayBeCut /\ out[g][a] = CutShort)

(***************************************************************************)
(* Even where blobs are inflated over lost artifacts and sources go back,  *)
(* what a skipped run leaves as grammar.json, which no blob holds, is what *)
(* the present sources compose to: a marker cannot be satisfied by blobs.  *)
(***************************************************************************)
GrammarJsonIsGenerated ==
    Undisturbed => \A g \in Targets : ~Running(g) /\ UpToDate(g) =>
                       out[g]["grammar.json"] = Result(g)
=============================================================================
