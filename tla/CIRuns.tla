------------------------------- MODULE CIRuns -------------------------------
(***************************************************************************)
(* The runs of the Build/test workflow for the main branch and for pull    *)
(* requests: a run selects jobs by what changed, drops those whose marker  *)
(* is recorded, runs the rest, and ci-passed decides whether the pull      *)
(* request may be merged.  A version of the repository is a function from  *)
(* files to contents; whether a job passes depends on the files it reads.  *)
(***************************************************************************)
EXTENDS CISelection

CONSTANTS Parent,       \* the grammar each dialect's grammar.js imports
          Files,        \* the files that have more than one content
          Contents,
          FirstTree,    \* the repository at the start
          GoodInputs,   \* what jobs pass on: <<job, contents of what it reads>>
          PRs,
          Group,        \* the concurrency group of the runs of a ref
          MayBeLost,    \* jobs that may fail whatever they read
          MaxChanged,   \* files that one push changes
          MaxPushes

Main  == "main"
Refs  == PRs \cup {Main}
Trees == [Files -> Contents]

On(t, S) == [f \in S \cap Files |-> t[f]]

\* What the definitions of CISelection come to for Parent and Files.
ReadsOf       == [j \in Jobs |-> Reads(j, Parent) \cap Files]
FingerprintOf == [j \in Jobs |-> Fingerprint(j, Parent) \cap Files]
SelectedFor   == [D \in SUBSET Files |-> Selected(D, Parent)]

Passes(j, t)  == <<j, On(t, ReadsOf[j])>> \in GoodInputs
LintPasses(t) == <<"corpus-lint", On(t, LintReads)>> \in GoodInputs
AllPass(t)    == LintPasses(t) /\ \A j \in Jobs : Passes(j, t)

\* A job that reads a changed file is selected, and what it reads is in its
\* fingerprint.
Covered ==
    \A j \in Jobs :
        /\ ReadsOf[j] \subseteq FingerprintOf[j]
        /\ \A D \in SUBSET Files :
             /\ SelectedFor[D] \subseteq Jobs
             /\ D \cap ReadsOf[j] # {} => j \in SelectedFor[D]

\* The selection provides for that where no job reads one of the Files that it
\* does not follow, or whose fingerprint it forgets.
GapsAside == \A j \in Jobs : ReadsOf[j] \cap (NotFollowed(j) \cup NotCovered(j)) = {}

ASSUME CIAssumption ==
    /\ Parent \in [Dialects -> Dialects \cup {Base}] /\ IsForest(Parent)
    /\ Files \subseteq File
    /\ FirstTree \in Trees /\ AllPass(FirstTree)
    /\ Main \notin PRs
    /\ DOMAIN Group = Refs
    /\ MayBeLost \subseteq Jobs
    /\ MaxPushes \in Nat /\ MaxChanged \in Nat

VARIABLES tree,     \* of each ref, its version: of a pull request, merged into
          base,     \* the version of main that it is compared with
          run,      \* the last run of each ref
          markers,  \* the recorded cache markers
          pushes,   \* pushes so far
          bypassed  \* was main ever pushed to without a pull request?

vars == <<tree, base, run, markers, pushes, bypassed>>

Phases == {"none", "selecting", "running", "cancelled", "success", "failure"}

Started == [phase |-> "selecting", todo |-> {}, failed |-> {}]
NoRun   == [Started EXCEPT !.phase = "none"]

Busy(r) == run[r].phase \in {"selecting", "running"}

\* A run starts for r, and cancels what is in progress in its group.
RunsWithNew(r) ==
    [q \in Refs |->
        IF q = r THEN Started
        ELSE IF Group[q] = Group[r] /\ Busy(q) THEN [run[q] EXCEPT !.phase = "cancelled"]
        ELSE run[q]]

Marker(j, t) == <<j, On(t, FingerprintOf[j])>>

Changed(s, t) == {f \in Files : s[f] # t[f]}

Init ==
    /\ tree = [r \in Refs |-> FirstTree]
    /\ base = [r \in Refs |-> FirstTree]
    /\ run = [r \in Refs |-> NoRun]
    /\ markers = {}
    /\ pushes = 0
    /\ bypassed = FALSE

-----------------------------------------------------------------------------
(* What people do. *)

\* A pull request is opened, pushed to or brought up to date with main.
Push(p) ==
    /\ pushes < MaxPushes
    /\ \E t \in Trees :
         /\ Cardinality(Changed(tree[Main], t)) <= MaxChanged
         /\ tree' = [tree EXCEPT ![p] = t]
    /\ base' = [base EXCEPT ![p] = tree[Main]]
    /\ run' = RunsWithNew(p)
    /\ pushes' = pushes + 1
    /\ UNCHANGED <<markers, bypassed>>

\* Someone whom the protection of main does not bind pushes to it.
PushToMain ==
    /\ pushes < MaxPushes
    /\ \E t \in Trees :
         /\ Cardinality(Changed(tree[Main], t)) <= MaxChanged
         /\ tree' = [tree EXCEPT ![Main] = t]
    /\ base' = [base EXCEPT ![Main] = tree[Main]]
    /\ run' = RunsWithNew(Main)
    /\ pushes' = pushes + 1
    /\ bypassed' = TRUE
    /\ UNCHANGED markers

\* Mutant: the branch need not be up to date.
MergeBehind(p) ==
    /\ run[p].phase = "success"
    /\ tree' = [tree EXCEPT ![Main] =
                  [f \in Files |-> IF tree[p][f] # base[p][f] THEN tree[p][f] ELSE @[f]]]
    /\ base' = [base EXCEPT ![Main] = tree[Main]]
    /\ run' = [RunsWithNew(Main) EXCEPT ![p] = NoRun]
    /\ UNCHANGED <<markers, pushes, bypassed>>

\* A pull request is merged: ci-passed is green and the branch is up to date.
Merge(p) ==
    /\ run[p].phase = "success"
    /\ base[p] = tree[Main]
    /\ tree' = [tree EXCEPT ![Main] = tree[p]]
    /\ base' = [base EXCEPT ![Main] = tree[Main]]
    /\ run' = [RunsWithNew(Main) EXCEPT ![p] = NoRun]
    /\ UNCHANGED <<markers, pushes, bypassed>>

\* All jobs of a run are run again.
Rerun(r) ==
    /\ run[r].phase \in {"failure", "cancelled"}
    /\ run' = RunsWithNew(r)
    /\ UNCHANGED <<tree, base, markers, pushes, bypassed>>

-----------------------------------------------------------------------------
(* What the jobs of a run do. *)

\* The changes job: without a diff everything is selected, and where gh cannot
\* list the markers nothing is dropped.
Select(r) ==
    /\ run[r].phase = "selecting"
    /\ \E selected \in {SelectedFor[Changed(base[r], tree[r])], Jobs}, known \in {markers, {}} :
         run' = [run EXCEPT ![r].phase = "running",
                            ![r].todo = {j \in selected : Marker(j, tree[r]) \notin known}]
    /\ UNCHANGED <<tree, base, markers, pushes, bypassed>>

\* The bindings jobs wait for the grammar jobs, however those end.
Ready(r, j) ==
    /\ run[r].phase = "running"
    /\ j \in run[r].todo
    /\ j = "bindings" => run[r].todo \cap Grammars = {}

\* A job passes, and records its marker in its last step.
JobPasses(r, j) ==
    /\ Ready(r, j)
    /\ Passes(j, tree[r])
    /\ run' = [run EXCEPT ![r].todo = @ \ {j}]
    /\ markers' = markers \cup {Marker(j, tree[r])}
    /\ UNCHANGED <<tree, base, pushes, bypassed>>

\* Mutant: the last step runs whatever happened before.
JobFailsRecorded(r, j) ==
    /\ Ready(r, j)
    /\ ~Passes(j, tree[r]) \/ j \in MayBeLost
    /\ run' = [run EXCEPT ![r].todo = @ \ {j}, ![r].failed = @ \cup {j}]
    /\ markers' = markers \cup {Marker(j, tree[r])}
    /\ UNCHANGED <<tree, base, pushes, bypassed>>

\* Mutant: a job that failed stays with those that are to run.
JobFailsAndStays(r, j) ==
    /\ Ready(r, j)
    /\ ~Passes(j, tree[r]) \/ j \in MayBeLost
    /\ run' = [run EXCEPT ![r].failed = @ \cup {j}]
    /\ UNCHANGED <<tree, base, markers, pushes, bypassed>>

\* A job fails, or is lost with its runner or its time limit.
JobFails(r, j) ==
    /\ Ready(r, j)
    /\ ~Passes(j, tree[r]) \/ j \in MayBeLost
    /\ run' = [run EXCEPT ![r].todo = @ \ {j}, ![r].failed = @ \cup {j}]
    /\ UNCHANGED <<tree, base, markers, pushes, bypassed>>

\* Mutant: ci-passed without if: always().
ConcludeIfGreen(r) ==
    /\ run[r].phase = "running"
    /\ run[r].todo = {} /\ run[r].failed = {}
    /\ run' = [run EXCEPT ![r].phase = "success"]
    /\ UNCHANGED <<tree, base, markers, pushes, bypassed>>

\* ci-passed: a job that was skipped does not count against the run.
\* corpus-lint runs beside the others, and its result is looked at here.
Conclude(r) ==
    /\ run[r].phase = "running"
    /\ run[r].todo = {}
    /\ run' = [run EXCEPT ![r].phase =
                 IF run[r].failed = {} /\ LintPasses(tree[r]) THEN "success" ELSE "failure"]
    /\ UNCHANGED <<tree, base, markers, pushes, bypassed>>

Step(r) ==
    \/ Select(r) \/ Conclude(r)
    \/ \E j \in Jobs : JobPasses(r, j) \/ JobFails(r, j)

Next ==
    \/ \E p \in PRs : Push(p) \/ Merge(p)
    \/ PushToMain
    \/ \E r \in Refs : Rerun(r) \/ Step(r)

Spec == Init /\ [][Next]_vars

\* The workflow service goes on with every run until it is over.
FairSpec == Spec /\ \A r \in Refs : WF_vars(Step(r))

-----------------------------------------------------------------------------
\* The variables have their types, and no job is both done and still to do.
TypeOK ==
    /\ tree \in [Refs -> Trees]
    /\ base \in [Refs -> Trees]
    /\ run \in [Refs -> [phase : Phases, todo : SUBSET Jobs, failed : SUBSET Jobs]]
    /\ \A r \in Refs : run[r].todo \cap run[r].failed = {}
    /\ markers \subseteq {Marker(j, t) : j \in Jobs, t \in Trees}
    /\ pushes \in 0..MaxPushes
    /\ bypassed \in BOOLEAN

(***************************************************************************)
(* Unless someone went round the pull requests, every job passes on main,  *)
(* although the runs of pull requests leave out what did not change and    *)
(* what has a marker, and although two requests that are good by           *)
(* themselves may not be so together (changed-grammars.js:143, :272;       *)
(* branch-protection/main.json:3).                                         *)
(***************************************************************************)
MainStaysGood == ~bypassed => AllPass(tree[Main])

(***************************************************************************)
(* A recorded marker can be trusted: on every version of the repository    *)
(* with that fingerprint the job passes, whichever branch recorded it and  *)
(* whatever else changed since (changed-grammars.js:180, :202).            *)
(***************************************************************************)
MarkersSound ==
    \A j \in Jobs, t \in Trees : Marker(j, t) \in markers => Passes(j, t)

(***************************************************************************)
(* Every run comes to an end or is cancelled: the bindings jobs do not     *)
(* wait for a job that never ends, and a failure does not keep ci-passed   *)
(* from deciding (ci.yml:230, :324).                                       *)
(***************************************************************************)
EveryRunEnds == \A r \in Refs : Busy(r) ~> ~Busy(r)
=============================================================================
