---------------------------- MODULE CIRuns_proofs ----------------------------
(***************************************************************************)
(* Markers can be trusted and main stays good, for every lineage, every    *)
(* set of files and pull requests, and every way in which jobs depend on   *)
(* what they read, where selection and fingerprints cover what is read.    *)
(***************************************************************************)
EXTENDS CIRuns, FiniteSetTheorems, TLAPS

AllMarkers == {Marker(j, t) : j \in Jobs, t \in Trees}

RunRecord == [phase : Phases, todo : SUBSET Jobs, failed : SUBSET Jobs]

\* If the version that r is compared with is good, then each job that r left
\* out, or that it is done with and that did not fail, passes on its version.
RunSound(r) ==
    /\ run[r].phase \in {"running", "success"} /\ AllPass(base[r]) =>
         \A j \in Jobs : Passes(j, tree[r]) \/ j \in run[r].todo \/ j \in run[r].failed
    /\ run[r].phase = "success" =>
         run[r].todo = {} /\ run[r].failed = {} /\ LintPasses(tree[r])
    /\ run[r].phase = "selecting" => run[r].todo = {} /\ run[r].failed = {}

\* What is compared with was main, and main is good.
BasesGood ==
    ~bypassed => AllPass(tree[Main]) /\ \A r \in Refs : AllPass(base[r])

IInv ==
    /\ TypeOK
    /\ MarkersSound
    /\ \A r \in Refs : RunSound(r)
    /\ BasesGood

-----------------------------------------------------------------------------
\* Where the fingerprint is the same, a job passes or fails alike.
LEMMA SameMarker ==
    ASSUME Covered, NEW j \in Jobs, NEW s \in Trees, NEW t \in Trees,
           Marker(j, s) = Marker(j, t)
    PROVE  Passes(j, s) <=> Passes(j, t)
<1>1. On(s, FingerprintOf[j]) = On(t, FingerprintOf[j])
  BY DEF Marker
<1>2. \A f \in FingerprintOf[j] \cap Files : s[f] = t[f]
  BY <1>1 DEF On
<1>3. On(s, ReadsOf[j]) = On(t, ReadsOf[j])
  BY <1>2 DEF On, Covered
<1> QED
  BY <1>3 DEF Passes

\* A job that is not selected passes or fails alike before and after.
LEMMA NotSelected ==
    ASSUME Covered, NEW j \in Jobs, NEW s \in Trees, NEW t \in Trees,
           j \notin SelectedFor[Changed(s, t)], Passes(j, s)
    PROVE  Passes(j, t)
<1>1. Changed(s, t) \cap ReadsOf[j] = {}
  BY DEF Covered, Changed
<1>2. \A f \in ReadsOf[j] \cap Files : s[f] = t[f]
  BY <1>1 DEF Changed
<1>3. On(s, ReadsOf[j]) = On(t, ReadsOf[j])
  BY <1>2 DEF On
<1> QED
  BY <1>3 DEF Passes

\* A new run has done nothing, and a run that it cancels does nothing more.
LEMMA NewRun ==
    ASSUME run \in [Refs -> RunRecord], NEW r \in Refs
    PROVE  /\ RunsWithNew(r) \in [Refs -> RunRecord]
           /\ RunsWithNew(r)[r] = Started
           /\ \A q \in Refs \ {r} :
                \/ RunsWithNew(r)[q] = run[q]
                \/ /\ RunsWithNew(r)[q].phase = "cancelled"
                   /\ RunsWithNew(r)[q].todo = run[q].todo
                   /\ RunsWithNew(r)[q].failed = run[q].failed
<1>1. Started \in RunRecord
  BY DEF Started, RunRecord, Phases
<1>2. ASSUME NEW q \in Refs
      PROVE  [run[q] EXCEPT !.phase = "cancelled"] \in RunRecord
  BY DEF RunRecord, Phases
<1> QED
  BY <1>1, <1>2 DEF RunsWithNew, RunRecord

LEMMA RunTypes ==
    ASSUME TypeOK
    PROVE  run \in [Refs -> RunRecord]
  BY DEF TypeOK, RunRecord

LEMMA InitSound == Init => IInv
<1> SUFFICES ASSUME Init PROVE IInv
  OBVIOUS
<1>1. NoRun \in RunRecord /\ NoRun.phase = "none" /\ NoRun.todo = {} /\ NoRun.failed = {}
  BY DEF NoRun, Started, RunRecord, Phases
<1>2. TypeOK
  <2>1. run \in [Refs -> RunRecord] /\ \A r \in Refs : run[r].todo \cap run[r].failed = {}
    BY <1>1 DEF Init
  <2>2. tree \in [Refs -> Trees] /\ base \in [Refs -> Trees]
    BY CIAssumption DEF Init
  <2>3. pushes \in 0..MaxPushes
    BY CIAssumption DEF Init
  <2>4. markers \subseteq {Marker(j, t) : j \in Jobs, t \in Trees}
    BY DEF Init
  <2>5. bypassed \in BOOLEAN
    BY Zenon DEF Init
  <2> QED
    BY <2>1, <2>2, <2>3, <2>4, <2>5 DEF TypeOK, RunRecord
<1>3. MarkersSound
  BY DEF Init, MarkersSound
<1>4. \A r \in Refs : RunSound(r)
  BY <1>1 DEF Init, RunSound
<1>5. BasesGood
  BY CIAssumption DEF Init, BasesGood, Refs
<1> QED
  BY <1>2, <1>3, <1>4, <1>5 DEF IInv

-----------------------------------------------------------------------------
(* A step that starts a run: Push, PushToMain, Merge and Rerun. *)

\* What such a step does for the refs beside the one it is about.
LEMMA OthersKeep ==
    ASSUME IInv, NEW r \in Refs, NEW q \in Refs, q # r,
           run' \in [Refs -> RunRecord],
           run'[q] = RunsWithNew(r)[q],
           tree'[q] = tree[q], base'[q] = base[q]
    PROVE  RunSound(q)' /\ run'[q].todo \cap run'[q].failed = {}
<1>1. \/ run'[q] = run[q]
      \/ /\ run'[q].phase = "cancelled"
         /\ run'[q].todo = run[q].todo /\ run'[q].failed = run[q].failed
  BY RunTypes, NewRun DEF IInv
<1>2. RunSound(q) /\ run[q].todo \cap run[q].failed = {}
  BY DEF IInv, TypeOK
<1> QED
  BY <1>1, <1>2 DEF RunSound, AllPass, Passes, LintPasses

LEMMA StartedSound ==
    ASSUME NEW r \in Refs, run'[r] = Started
    PROVE  RunSound(r)' /\ run'[r].todo \cap run'[r].failed = {}
  BY DEF RunSound, Started

LEMMA MarkersStay ==
    ASSUME MarkersSound, markers' = markers
    PROVE  MarkersSound'
  BY DEF MarkersSound, Marker, Passes

LEMMA PushKeeps == ASSUME IInv, NEW p \in PRs, Push(p) PROVE IInv'
<1> p \in Refs /\ Main \in Refs /\ p # Main
  BY CIAssumption DEF Refs
<1> USE DEF Push
<1>1. run' \in [Refs -> RunRecord] /\ run'[p] = Started
  BY RunTypes, NewRun DEF IInv
<1>2. \A q \in Refs : RunSound(q)' /\ run'[q].todo \cap run'[q].failed = {}
  <2> TAKE q \in Refs
  <2>1. CASE q = p
    BY <2>1, <1>1, StartedSound
  <2>2. CASE q # p
    <3>1. tree'[q] = tree[q] /\ base'[q] = base[q]
      BY <2>2 DEF IInv, TypeOK
    <3> QED
      BY <2>2, <3>1, <1>1, OthersKeep
  <2> QED
    BY <2>1, <2>2
<1>3. TypeOK'
  <2>1. run' \in [Refs -> [phase : Phases, todo : SUBSET Jobs, failed : SUBSET Jobs]]
    BY <1>1 DEF RunRecord
  <2>2. tree' \in [Refs -> Trees] /\ base' \in [Refs -> Trees]
    BY DEF IInv, TypeOK
  <2>3. pushes' \in 0..MaxPushes /\ bypassed' \in BOOLEAN
    BY CIAssumption DEF IInv, TypeOK
  <2>4. markers' \subseteq {Marker(j, t) : j \in Jobs, t \in Trees}
    BY DEF IInv, TypeOK
  <2> QED
    BY <1>2, <2>1, <2>2, <2>3, <2>4 DEF TypeOK, Marker
<1>4. BasesGood'
  <2> SUFFICES ASSUME ~bypassed PROVE AllPass(tree'[Main]) /\ \A r \in Refs : AllPass(base'[r])
    BY DEF BasesGood, AllPass, Passes, LintPasses
  <2>1. tree'[Main] = tree[Main]
    BY DEF IInv, TypeOK
  <2>2. \A r \in Refs : base'[r] \in {base[r], tree[Main]}
    BY DEF IInv, TypeOK
  <2> QED
    BY <2>1, <2>2 DEF IInv, BasesGood
<1> QED
  BY <1>2, <1>3, <1>4, MarkersStay DEF IInv

LEMMA PushToMainKeeps == ASSUME IInv, PushToMain PROVE IInv'
<1> Main \in Refs
  BY DEF Refs
<1> USE DEF PushToMain
<1>1. run' \in [Refs -> RunRecord] /\ run'[Main] = Started
  BY RunTypes, NewRun DEF IInv
<1>2. \A q \in Refs : RunSound(q)' /\ run'[q].todo \cap run'[q].failed = {}
  <2> TAKE q \in Refs
  <2>1. CASE q = Main
    BY <2>1, <1>1, StartedSound
  <2>2. CASE q # Main
    <3>1. tree'[q] = tree[q] /\ base'[q] = base[q]
      BY <2>2 DEF IInv, TypeOK
    <3> QED
      BY <2>2, <3>1, <1>1, OthersKeep
  <2> QED
    BY <2>1, <2>2
<1>3. TypeOK'
  <2>1. run' \in [Refs -> [phase : Phases, todo : SUBSET Jobs, failed : SUBSET Jobs]]
    BY <1>1 DEF RunRecord
  <2>2. tree' \in [Refs -> Trees] /\ base' \in [Refs -> Trees]
    BY DEF IInv, TypeOK
  <2>3. pushes' \in 0..MaxPushes /\ bypassed' \in BOOLEAN
    BY CIAssumption DEF IInv, TypeOK
  <2>4. markers' \subseteq {Marker(j, t) : j \in Jobs, t \in Trees}
    BY DEF IInv, TypeOK
  <2> QED
    BY <1>2, <2>1, <2>2, <2>3, <2>4 DEF TypeOK, Marker
<1> QED
  BY <1>2, <1>3, MarkersStay DEF IInv, BasesGood

LEMMA MergeKeeps == ASSUME IInv, NEW p \in PRs, Merge(p) PROVE IInv'
<1> p \in Refs /\ Main \in Refs /\ p # Main
  BY CIAssumption DEF Refs
<1> USE DEF Merge
<1>1. NoRun \in RunRecord /\ NoRun.phase = "none" /\ NoRun.todo = {} /\ NoRun.failed = {}
  BY DEF NoRun, Started, RunRecord, Phases
<1>2. /\ run' \in [Refs -> RunRecord]
      /\ run'[Main] = Started /\ run'[p] = NoRun
      /\ \A q \in Refs \ {p, Main} : run'[q] = RunsWithNew(Main)[q]
  BY <1>1, RunTypes, NewRun DEF IInv
<1>3. \A q \in Refs : RunSound(q)' /\ run'[q].todo \cap run'[q].failed = {}
  <2> TAKE q \in Refs
  <2>1. CASE q = Main
    BY <2>1, <1>2, StartedSound
  <2>2. CASE q = p
    BY <2>2, <1>1, <1>2 DEF RunSound
  <2>3. CASE q \notin {p, Main}
    <3>1. tree'[q] = tree[q] /\ base'[q] = base[q]
      BY <2>3 DEF IInv, TypeOK
    <3> QED
      BY <2>3, <3>1, <1>2, OthersKeep
  <2> QED
    BY <2>1, <2>2, <2>3
<1>4. TypeOK'
  BY <1>2, <1>3 DEF IInv, TypeOK, RunRecord, Marker
<1>5. BasesGood'
  <2> SUFFICES ASSUME ~bypassed PROVE AllPass(tree'[Main]) /\ \A r \in Refs : AllPass(base'[r])
    BY DEF BasesGood, AllPass, Passes, LintPasses
  <2>1. \A r \in Refs : base'[r] \in {base[r], tree[Main]}
    BY DEF IInv, TypeOK
  <2>2. \A r \in Refs : AllPass(base'[r])
    BY <2>1 DEF IInv, BasesGood
  <2>3. RunSound(p) /\ AllPass(base[p])
    BY DEF IInv, BasesGood
  <2>4. AllPass(tree[p])
    BY <2>3 DEF RunSound, AllPass
  <2>5. tree'[Main] = tree[p]
    BY DEF IInv, TypeOK
  <2> QED
    BY <2>2, <2>4, <2>5
<1> QED
  BY <1>3, <1>4, <1>5, MarkersStay DEF IInv

LEMMA RerunKeeps == ASSUME IInv, NEW r \in Refs, Rerun(r) PROVE IInv'
<1> USE DEF Rerun
<1>1. run' \in [Refs -> RunRecord] /\ run'[r] = Started
  BY RunTypes, NewRun DEF IInv
<1>2. \A q \in Refs : RunSound(q)' /\ run'[q].todo \cap run'[q].failed = {}
  <2> TAKE q \in Refs
  <2>1. CASE q = r
    BY <2>1, <1>1, StartedSound
  <2>2. CASE q # r
    BY <2>2, <1>1, OthersKeep
  <2> QED
    BY <2>1, <2>2
<1>3. TypeOK'
  BY <1>1, <1>2 DEF IInv, TypeOK, RunRecord, Marker
<1>4. BasesGood'
  BY DEF IInv, BasesGood, AllPass, Passes, LintPasses
<1> QED
  BY <1>2, <1>3, <1>4, MarkersStay DEF IInv

-----------------------------------------------------------------------------
(* A step of the jobs of one run changes that run, and at most adds a marker. *)

LEMMA StepFrame ==
    ASSUME IInv, NEW r \in Refs, NEW new \in RunRecord,
           run' = [run EXCEPT ![r] = new],
           new.todo \cap new.failed = {},
           RunSound(r)', MarkersSound',
           markers' \subseteq AllMarkers,
           UNCHANGED <<tree, base, pushes, bypassed>>
    PROVE  IInv'
<1>1. run' \in [Refs -> RunRecord]
  BY RunTypes DEF IInv
<1>2. \A q \in Refs : run'[q] = IF q = r THEN new ELSE run[q]
  BY RunTypes DEF IInv
<1>3. \A q \in Refs : run'[q].todo \cap run'[q].failed = {}
  BY <1>2 DEF IInv, TypeOK
<1>4. TypeOK'
  BY <1>1, <1>3 DEF IInv, TypeOK, RunRecord, Marker, AllMarkers
<1>5. \A q \in Refs : RunSound(q)'
  BY <1>2 DEF IInv, RunSound, AllPass, Passes, LintPasses
<1>6. BasesGood'
  BY DEF IInv, BasesGood, AllPass, Passes, LintPasses
<1> QED
  BY <1>4, <1>5, <1>6 DEF IInv

LEMMA SelectKeeps == ASSUME Covered, IInv, NEW r \in Refs, Select(r) PROVE IInv'
<1>1. PICK selected \in {SelectedFor[Changed(base[r], tree[r])], Jobs}, known \in {markers, {}} :
        run' = [run EXCEPT ![r].phase = "running",
                           ![r].todo = {j \in selected : Marker(j, tree[r]) \notin known}]
  BY DEF Select
<1> DEFINE todo == {j \in selected : Marker(j, tree[r]) \notin known}
           new  == [run[r] EXCEPT !.phase = "running", !.todo = todo]
<1>2. base[r] \in Trees /\ tree[r] \in Trees /\ Changed(base[r], tree[r]) \in SUBSET Files
  BY DEF IInv, TypeOK, Changed
<1>3. Jobs # {} /\ selected \subseteq Jobs
  BY <1>2 DEF Covered, Jobs
<1>4. run[r] \in RunRecord /\ run[r].phase = "selecting" /\ run[r].failed = {}
  BY RunTypes DEF IInv, RunSound, Select
<1>5. new \in RunRecord /\ new.phase = "running" /\ new.todo = todo /\ new.failed = {}
  BY <1>3, <1>4 DEF RunRecord, Phases
<1>6. run' = [run EXCEPT ![r] = new]
  BY <1>1
<1>7. run'[r] = new
  BY <1>6, RunTypes DEF IInv
<1>8. ASSUME AllPass(base[r]), NEW j \in Jobs PROVE Passes(j, tree[r]) \/ j \in todo
  <2>1. CASE j \notin selected
    <3>1. j \notin SelectedFor[Changed(base[r], tree[r])]
      BY <2>1
    <3> QED
      BY <3>1, <1>2, <1>8, NotSelected DEF AllPass
  <2>2. CASE j \in selected /\ Marker(j, tree[r]) \in known
    BY <2>2, <1>2 DEF IInv, MarkersSound
  <2> QED
    BY <2>1, <2>2
<1>9. RunSound(r)'
  BY <1>5, <1>7, <1>8 DEF RunSound, AllPass, Passes, LintPasses, Select
<1> HIDE DEF new, todo
<1>10. MarkersSound' /\ markers' = markers
  BY MarkersStay DEF IInv, Select
<1>11. new.todo \cap new.failed = {}
  BY <1>5
<1>12. markers' \subseteq AllMarkers
  BY <1>10 DEF AllMarkers, IInv, TypeOK
<1>13. UNCHANGED <<tree, base, pushes, bypassed>>
  BY DEF Select
<1> QED
  BY <1>5, <1>6, <1>9, <1>10, <1>11, <1>12, <1>13, StepFrame

LEMMA JobPassesKeeps ==
    ASSUME Covered, IInv, NEW r \in Refs, NEW j \in Jobs, JobPasses(r, j) PROVE IInv'
<1> DEFINE new == [run[r] EXCEPT !.todo = @ \ {j}]
<1>1. run[r] \in RunRecord /\ tree[r] \in Trees /\ run[r].phase = "running"
  BY RunTypes DEF IInv, TypeOK, JobPasses, Ready
<1>2. /\ new \in RunRecord /\ new.phase = "running"
      /\ new.todo = run[r].todo \ {j} /\ new.failed = run[r].failed
  BY <1>1 DEF RunRecord
<1>3. run' = [run EXCEPT ![r] = new]
  BY DEF JobPasses
<1>4. run'[r] = new
  BY <1>3, RunTypes DEF IInv
<1> HIDE DEF new
<1>5. RunSound(r)'
  BY <1>1, <1>2, <1>4 DEF IInv, RunSound, AllPass, Passes, LintPasses, JobPasses
<1>6. MarkersSound'
  <2> SUFFICES ASSUME NEW i \in Jobs, NEW t \in Trees, Marker(i, t) \in markers'
               PROVE  Passes(i, t)
    BY DEF MarkersSound, Marker, Passes
  <2>1. CASE Marker(i, t) \in markers
    BY <2>1 DEF IInv, MarkersSound
  <2>2. CASE Marker(i, t) = Marker(j, tree[r])
    <3>1. i = j
      BY <2>2 DEF Marker
    <3> QED
      BY <2>2, <3>1, <1>1, SameMarker DEF JobPasses
  <2> QED
    BY <2>1, <2>2 DEF JobPasses
<1>7. markers' \subseteq AllMarkers
  BY <1>1 DEF AllMarkers, IInv, TypeOK, JobPasses
<1>8. new.todo \cap new.failed = {}
  BY <1>2 DEF IInv, TypeOK
<1>9. UNCHANGED <<tree, base, pushes, bypassed>>
  BY DEF JobPasses
<1> QED
  BY <1>2, <1>3, <1>5, <1>6, <1>7, <1>8, <1>9, StepFrame

LEMMA JobFailsKeeps ==
    ASSUME IInv, NEW r \in Refs, NEW j \in Jobs, JobFails(r, j) PROVE IInv'
<1> DEFINE new == [run[r] EXCEPT !.todo = @ \ {j}, !.failed = @ \cup {j}]
<1>1. run[r] \in RunRecord /\ run[r].phase = "running"
  BY RunTypes DEF IInv, JobFails, Ready
<1>2. /\ new \in RunRecord /\ new.phase = "running"
      /\ new.todo = run[r].todo \ {j} /\ new.failed = run[r].failed \cup {j}
  BY <1>1 DEF RunRecord
<1>3. run' = [run EXCEPT ![r] = new]
  BY DEF JobFails
<1>4. run'[r] = new
  BY <1>3, RunTypes DEF IInv
<1> HIDE DEF new
<1>5. RunSound(r)'
  BY <1>1, <1>2, <1>4 DEF IInv, RunSound, AllPass, Passes, LintPasses, JobFails
<1>6. MarkersSound' /\ markers' = markers
  BY MarkersStay DEF IInv, JobFails
<1>7. new.todo \cap new.failed = {}
  BY <1>2 DEF IInv, TypeOK
<1>8. markers' \subseteq AllMarkers
  BY <1>6 DEF AllMarkers, IInv, TypeOK
<1>9. UNCHANGED <<tree, base, pushes, bypassed>>
  BY DEF JobFails
<1> QED
  BY <1>2, <1>3, <1>5, <1>6, <1>7, <1>8, <1>9, StepFrame

LEMMA ConcludeKeeps == ASSUME IInv, NEW r \in Refs, Conclude(r) PROVE IInv'
<1> DEFINE outcome == IF run[r].failed = {} /\ LintPasses(tree[r])
                        THEN "success" ELSE "failure"
           new == [run[r] EXCEPT !.phase = outcome]
<1>1. run[r] \in RunRecord /\ run[r].phase = "running" /\ run[r].todo = {}
  BY RunTypes DEF IInv, Conclude
<1>2. /\ new \in RunRecord /\ new.phase = outcome
      /\ new.todo = {} /\ new.failed = run[r].failed
  BY <1>1 DEF RunRecord, Phases
<1>3. run' = [run EXCEPT ![r] = new]
  BY DEF Conclude
<1>4. run'[r] = new
  BY <1>3, RunTypes DEF IInv
<1> HIDE DEF new
<1>5. RunSound(r)'
  BY <1>1, <1>2, <1>4 DEF IInv, RunSound, AllPass, Passes, LintPasses, Conclude
<1>6. MarkersSound' /\ markers' = markers
  BY MarkersStay DEF IInv, Conclude
<1>7. new.todo \cap new.failed = {}
  BY <1>2
<1>8. markers' \subseteq AllMarkers
  BY <1>6 DEF AllMarkers, IInv, TypeOK
<1>9. UNCHANGED <<tree, base, pushes, bypassed>>
  BY DEF Conclude
<1> QED
  BY <1>2, <1>3, <1>5, <1>6, <1>7, <1>8, <1>9, StepFrame

LEMMA Invariance == ASSUME Covered PROVE Spec => []IInv
<1>1. ASSUME IInv, [Next]_vars PROVE IInv'
  <2>1. ASSUME NEW p \in PRs, Push(p) PROVE IInv'
    BY <1>1, <2>1, PushKeeps
  <2>2. ASSUME NEW p \in PRs, Merge(p) PROVE IInv'
    BY <1>1, <2>2, MergeKeeps
  <2>3. CASE PushToMain
    BY <1>1, <2>3, PushToMainKeeps
  <2>4. ASSUME NEW r \in Refs, Rerun(r) PROVE IInv'
    BY <1>1, <2>4, RerunKeeps
  <2>5. ASSUME NEW r \in Refs, Select(r) PROVE IInv'
    BY <1>1, <2>5, SelectKeeps
  <2>6. ASSUME NEW r \in Refs, Conclude(r) PROVE IInv'
    BY <1>1, <2>6, ConcludeKeeps
  <2>7. ASSUME NEW r \in Refs, NEW j \in Jobs, JobPasses(r, j) PROVE IInv'
    BY <1>1, <2>7, JobPassesKeeps
  <2>8. ASSUME NEW r \in Refs, NEW j \in Jobs, JobFails(r, j) PROVE IInv'
    BY <1>1, <2>8, JobFailsKeeps
  <2>9. CASE UNCHANGED vars
    BY <1>1, <2>9 DEF vars, IInv, TypeOK, MarkersSound, RunSound, BasesGood, Marker,
                      AllPass, Passes, LintPasses
  <2> QED
    BY <1>1, <2>1, <2>2, <2>3, <2>4, <2>5, <2>6, <2>7, <2>8, <2>9 DEF Next, Step
<1> QED
  BY <1>1, InitSound, PTL DEF Spec

-----------------------------------------------------------------------------
\* The variables have their types, and no job is both done and still to do.
THEOREM TypeCorrect == ASSUME Covered PROVE Spec => []TypeOK
<1>1. IInv => TypeOK
  BY DEF IInv
<1> QED
  BY <1>1, Invariance, PTL

(***************************************************************************)
(* A job whose marker is recorded passes on every version with the same    *)
(* fingerprint, whichever branch recorded it: dropping a job by its marker *)
(* (changed-grammars.js:272) hides no failure.                             *)
(***************************************************************************)
THEOREM MarkersCanBeTrusted == ASSUME Covered PROVE Spec => []MarkersSound
<1>1. IInv => MarkersSound
  BY DEF IInv
<1> QED
  BY <1>1, Invariance, PTL

(***************************************************************************)
(* As long as nobody pushes to main directly, every job passes on it,      *)
(* whatever was left out of the runs that decided on merging.              *)
(***************************************************************************)
THEOREM MainIsGood == ASSUME Covered PROVE Spec => []MainStaysGood
<1>1. IInv => MainStaysGood
  BY DEF IInv, BasesGood, MainStaysGood
<1> QED
  BY <1>1, Invariance, PTL

-----------------------------------------------------------------------------
\* What is proved of the selection, whose variables have no part in it.

Selection == INSTANCE Decide_proofs WITH
    parent <- Parent, seed <- {}, set <- {}, left <- {}, grew <- FALSE, done <- FALSE,
    changed <- {}

LEMMA SameCardinality == ASSUME NEW S PROVE Selection!Cardinality(S) = Cardinality(S)
  BY Zenon DEF Selection!Cardinality, Cardinality, Selection!IsFiniteSet, IsFiniteSet

LEMMA SameNames ==
    /\ Selection!Grammars = Grammars /\ Selection!Jobs = Jobs /\ Selection!File = File
  BY Zenon DEF Selection!Grammars, Grammars, Selection!Jobs, Jobs, Selection!File, File

LEMMA SameSteps ==
    ASSUME NEW d PROVE Selection!StepsAbove(d, Parent) = StepsAbove(d, Parent)
  BY SameCardinality, Zenon DEF Selection!StepsAbove, StepsAbove

LEMMA SameLineage ==
    /\ Selection!IsForest(Parent) <=> IsForest(Parent)
    /\ \A d : Selection!Ancestors(d, Parent) = Ancestors(d, Parent)
<1>1. Selection!Cardinality(DOMAIN Parent) = Cardinality(DOMAIN Parent)
  BY SameCardinality
<1>2. \A d : Selection!StepsAbove(d, Parent) = StepsAbove(d, Parent)
  BY SameSteps
<1> QED
  BY <1>1, <1>2 DEF Selection!IsForest, IsForest, Selection!Ancestors, Ancestors

LEMMA SameGrown ==
    ASSUME NEW S PROVE Selection!WithDescendants(S, Parent) = WithDescendants(S, Parent)
  BY SameCardinality, Zenon
  DEF Selection!WithDescendants, WithDescendants, Selection!Grown, Grown

LEMMA SameReads == ASSUME NEW j PROVE Selection!Reads(j, Parent) = Reads(j, Parent)
  BY SameNames, SameLineage, Zenon
  DEF Selection!Reads, Reads, Selection!DialectReads, DialectReads,
      Selection!BaseReads, BaseReads, Selection!BindingsReads, BindingsReads

LEMMA SameFingerprint ==
    ASSUME NEW j PROVE Selection!Fingerprint(j, Parent) = Fingerprint(j, Parent)
  BY SameNames, SameLineage, Zenon
  DEF Selection!Fingerprint, Fingerprint,
      Selection!DialectFingerprint, DialectFingerprint,
      Selection!BaseFingerprint, BaseFingerprint,
      Selection!BindingsFingerprint, BindingsFingerprint

LEMMA SameSelected == ASSUME NEW D PROVE Selection!Selected(D, Parent) = Selected(D, Parent)
<1>1. /\ Selection!AsksForAll(D) <=> AsksForAll(D)
      /\ Selection!Seed(D) = Seed(D)
  BY Zenon DEF Selection!AsksForAll, AsksForAll, Selection!AllGrammars, AllGrammars,
               Selection!Seed, Seed, Selection!Named, Named
<1>2. Selection!Chosen(D, Parent) = Chosen(D, Parent)
  BY <1>1, SameNames, SameGrown, Zenon DEF Selection!Chosen, Chosen
<1> QED
  BY <1>2, Zenon DEF Selection!Selected, Selected, Selection!JobsFor, JobsFor,
                     Selection!Bindings, Bindings

LEMMA SameGaps ==
    ASSUME NEW j
    PROVE  /\ Selection!NotFollowed(j) = NotFollowed(j)
           /\ Selection!NotCovered(j) = NotCovered(j)
  BY SameNames, Zenon DEF Selection!NotFollowed, NotFollowed, Selection!NotCovered, NotCovered

LEMMA SelectionProvides == ASSUME GapsAside PROVE Covered
<1>1. /\ Parent \in Selection!Lineages /\ Selection!IsForest(Parent)
      /\ Files \in SUBSET Selection!File
  BY CIAssumption, SameNames, SameLineage DEF Selection!Lineages, Grammars
<1>2. \A j \in Selection!Jobs :
        Files \cap Selection!Reads(j, Parent)
              \cap (Selection!NotFollowed(j) \cup Selection!NotCovered(j)) = {}
  BY SameNames, SameReads, SameGaps DEF GapsAside, ReadsOf
<1>3. \A j \in Selection!Jobs :
        /\ Files \cap Selection!Reads(j, Parent) \subseteq Selection!Fingerprint(j, Parent)
        /\ \A D \in SUBSET Files :
             /\ Selection!Selected(D, Parent) \subseteq Selection!Jobs
             /\ D \cap Selection!Reads(j, Parent) # {} => j \in Selection!Selected(D, Parent)
  <2>1. /\ "bindings" \notin Selection!Grammars
        /\ Base \notin Dialects /\ Selection!IsFiniteSet(Dialects)
    BY LineageAssumption, JobsAssumption, SameNames DEF Selection!IsFiniteSet, IsFiniteSet
  <2> QED
    BY <1>1, <1>2, <2>1, Selection!SelectionCovers, Zenon
<1> QED
  BY <1>3, SameNames, SameReads, SameFingerprint, SameSelected
  DEF Covered, ReadsOf, FingerprintOf, SelectedFor

(***************************************************************************)
(* With the selection and the fingerprints that the code has, markers can  *)
(* be trusted and main stays good, as long as the files with more than one *)
(* content stay off the named gaps (changed-grammars.js:143, :180, :272).  *)
(***************************************************************************)
THEOREM GoodOutsideTheGaps ==
    ASSUME GapsAside PROVE Spec => [](MarkersSound /\ MainStaysGood)
  BY SelectionProvides, MarkersCanBeTrusted, MainIsGood, PTL

-----------------------------------------------------------------------------
(***************************************************************************)
(* A run ends: every step of it uses up what it has left to do, whatever   *)
(* the selection covers, and only starting it anew brings anything back.   *)
(***************************************************************************)

RunsTyped == run \in [Refs -> RunRecord]

\* To select, to run each job that is to run, and to conclude.
StepsLeft(r) ==
    IF run[r].phase = "selecting" THEN Cardinality(Jobs) + 2
    ELSE IF run[r].phase = "running" THEN Cardinality(run[r].todo) + 1
    ELSE 0

\* A step of the run can be taken: Select, Conclude, or a job that passes or fails.
CanGoOn(r) ==
    \/ run[r].phase = "selecting"
    \/ run[r].phase = "running" /\ run[r].todo = {}
    \/ \E j \in Jobs : Ready(r, j)

LEMMA SelectedAreJobs == ASSUME NEW D \in SUBSET Files PROVE SelectedFor[D] \subseteq Jobs
<1>1. Parent \in Selection!Lineages /\ Selection!IsForest(Parent)
  BY CIAssumption, SameNames, SameLineage DEF Selection!Lineages, Grammars
<1>2. /\ "bindings" \notin Selection!Grammars
      /\ Base \notin Dialects /\ Selection!IsFiniteSet(Dialects)
  BY LineageAssumption, JobsAssumption, SameNames DEF Selection!IsFiniteSet, IsFiniteSet
<1>3. Selection!Selected(D, Parent) \subseteq Selection!Jobs
  BY <1>1, <1>2, Selection!OnlyJobsSelected, Zenon
<1>4. Selected(D, Parent) \subseteq Jobs
  BY <1>3, SameNames, SameSelected
<1> QED
  BY <1>4 DEF SelectedFor

LEMMA JobsFinite == IsFiniteSet(Jobs) /\ Cardinality(Jobs) \in Nat
<1>1. IsFiniteSet(Dialects \cup {Base})
  BY LineageAssumption, FS_AddElement
<1>2. IsFiniteSet((Dialects \cup {Base}) \cup {"bindings"})
  BY <1>1, FS_AddElement
<1> QED
  BY <1>2, FS_CardinalityType DEF Jobs, Grammars

LEMMA LeftIs ==
    ASSUME RunsTyped, NEW r \in Refs
    PROVE  /\ IsFiniteSet(run[r].todo) /\ Cardinality(run[r].todo) \in 0..Cardinality(Jobs)
           /\ StepsLeft(r) \in 0..Cardinality(Jobs) + 2
           /\ Busy(r) <=> StepsLeft(r) > 0
<1>1. run[r].todo \in SUBSET Jobs
  BY DEF RunsTyped, RunRecord
<1>2. IsFiniteSet(run[r].todo) /\ Cardinality(run[r].todo) <= Cardinality(Jobs)
  BY <1>1, JobsFinite, FS_Subset
<1>3. Cardinality(run[r].todo) \in Nat
  BY <1>2, FS_CardinalityType
<1>4. Cardinality(run[r].todo) \in 0..Cardinality(Jobs)
  BY <1>2, <1>3, JobsFinite
<1> QED
  BY <1>2, <1>4, JobsFinite DEF StepsLeft, Busy

\* The bindings job waits for the others only, so one of the jobs is ready.
LEMMA BusyGoesOn == ASSUME RunsTyped, NEW r \in Refs, Busy(r) PROVE CanGoOn(r)
<1>1. run[r].todo \in SUBSET Jobs
  BY DEF RunsTyped, RunRecord
<1> SUFFICES ASSUME run[r].phase = "running", NEW k \in run[r].todo
             PROVE  \E j \in Jobs : Ready(r, j)
  BY <1>1 DEF CanGoOn, Busy
<1>2. CASE run[r].todo \cap Grammars = {}
  BY <1>1, <1>2 DEF Ready
<1>3. CASE run[r].todo \cap Grammars # {}
  <2>1. PICK j \in run[r].todo : j \in Grammars
    BY <1>3
  <2>2. j # "bindings"
    BY <2>1, JobsAssumption
  <2> QED
    BY <1>1, <2>1, <2>2 DEF Ready
<1> QED
  BY <1>2, <1>3

\* A step changes one run, and leaves it less to do.
LEMMA StepUsesUp ==
    ASSUME RunsTyped, NEW r \in Refs, Step(r)
    PROVE  /\ RunsTyped'
           /\ StepsLeft(r)' < StepsLeft(r)
           /\ \A q \in Refs \ {r} : run'[q] = run[q]
<1>0. run[r] \in RunRecord
  BY DEF RunsTyped
<1>1. ASSUME NEW new \in RunRecord, run' = [run EXCEPT ![r] = new]
      PROVE  RunsTyped' /\ run'[r] = new /\ \A q \in Refs \ {r} : run'[q] = run[q]
  BY <1>1 DEF RunsTyped, RunRecord
<1>2. CASE Select(r)
  <2>1. PICK selected \in {SelectedFor[Changed(base[r], tree[r])], Jobs},
             known \in {markers, {}} :
          run' = [run EXCEPT ![r].phase = "running",
                             ![r].todo = {j \in selected : Marker(j, tree[r]) \notin known}]
    BY <1>2 DEF Select
  <2> DEFINE todo == {j \in selected : Marker(j, tree[r]) \notin known}
             new  == [run[r] EXCEPT !.phase = "running", !.todo = todo]
  <2>2. selected \subseteq Jobs
    <3>1. Changed(base[r], tree[r]) \in SUBSET Files
      BY DEF Changed
    <3> QED
      BY <2>1, <3>1, SelectedAreJobs
  <2>3. new \in RunRecord /\ new.phase = "running"
    BY <1>0, <2>2 DEF RunRecord, Phases
  <2>4. run' = [run EXCEPT ![r] = new]
    BY <2>1
  <2> HIDE DEF new, todo
  <2>5. /\ RunsTyped' /\ run'[r].phase = "running"
        /\ \A q \in Refs \ {r} : run'[q] = run[q]
    BY <1>1, <2>3, <2>4
  <2>6. Cardinality(run'[r].todo) \in 0..Cardinality(Jobs)
    <3>1. run'[r].todo \in SUBSET Jobs
      BY <2>5 DEF RunsTyped, RunRecord
    <3>2. IsFiniteSet(run'[r].todo) /\ Cardinality(run'[r].todo) <= Cardinality(Jobs)
      BY <3>1, JobsFinite, FS_Subset
    <3> QED
      BY <3>2, JobsFinite, FS_CardinalityType
  <2>7. StepsLeft(r) = Cardinality(Jobs) + 2
    BY <1>2 DEF Select, StepsLeft
  <2>8. StepsLeft(r)' = Cardinality(run'[r].todo) + 1
    BY <2>5 DEF StepsLeft, Jobs, Grammars
  <2> QED
    BY <2>5, <2>6, <2>7, <2>8, JobsFinite
<1>3. CASE Conclude(r)
  <2> DEFINE outcome == IF run[r].failed = {} /\ LintPasses(tree[r])
                          THEN "success" ELSE "failure"
             new == [run[r] EXCEPT !.phase = outcome]
  <2>1. new \in RunRecord /\ new.phase = outcome /\ run' = [run EXCEPT ![r] = new]
    BY <1>0, <1>3 DEF RunRecord, Phases, Conclude
  <2>2. new.phase \in {"success", "failure"}
    BY <2>1
  <2> HIDE DEF new
  <2>3. /\ RunsTyped' /\ run'[r].phase \in {"success", "failure"}
        /\ \A q \in Refs \ {r} : run'[q] = run[q]
    BY <1>1, <2>1, <2>2
  <2>4. StepsLeft(r)' = 0
    BY <2>3 DEF StepsLeft
  <2>5. StepsLeft(r) > 0
    BY <1>3, LeftIs DEF Conclude, Busy
  <2> QED
    BY <2>3, <2>4, <2>5
<1>4. ASSUME NEW j \in Jobs, JobPasses(r, j) \/ JobFails(r, j)
      PROVE  /\ RunsTyped' /\ StepsLeft(r)' < StepsLeft(r)
             /\ \A q \in Refs \ {r} : run'[q] = run[q]
  <2>1. run[r].phase = "running" /\ j \in run[r].todo
    BY <1>4 DEF JobPasses, JobFails, Ready
  <2>2. PICK failed \in SUBSET Jobs :
          run' = [run EXCEPT ![r] = [run[r] EXCEPT !.todo = @ \ {j}, !.failed = failed]]
    <3>1. CASE JobPasses(r, j)
      <4>1. run[r].failed \in SUBSET Jobs
        BY <1>0 DEF RunRecord
      <4>2. [run[r] EXCEPT !.todo = @ \ {j}]
              = [run[r] EXCEPT !.todo = @ \ {j}, !.failed = run[r].failed]
        BY <1>0 DEF RunRecord
      <4>3. run' = [run EXCEPT ![r] = [run[r] EXCEPT !.todo = @ \ {j}]]
        BY <3>1 DEF JobPasses
      <4> QED
        BY <4>1, <4>2, <4>3
    <3>2. CASE JobFails(r, j)
      <4>1. run[r].failed \cup {j} \in SUBSET Jobs
        BY <1>0 DEF RunRecord
      <4> QED
        BY <3>2, <4>1 DEF JobFails
    <3> QED
      BY <1>4, <3>1, <3>2
  <2> DEFINE new == [run[r] EXCEPT !.todo = @ \ {j}, !.failed = failed]
  <2>3. new \in RunRecord /\ new.phase = "running" /\ new.todo = run[r].todo \ {j}
    BY <1>0, <2>1 DEF RunRecord
  <2>4. run' = [run EXCEPT ![r] = new]
    BY <2>2
  <2> HIDE DEF new
  <2>5. /\ RunsTyped' /\ run'[r] = new /\ \A q \in Refs \ {r} : run'[q] = run[q]
    BY <1>1, <2>3, <2>4
  <2>6. Cardinality(run[r].todo \ {j}) = Cardinality(run[r].todo) - 1
    BY <2>1, LeftIs, FS_RemoveElement
  <2>7. StepsLeft(r)' = Cardinality(run[r].todo \ {j}) + 1
    BY <2>3, <2>5 DEF StepsLeft
  <2>8. StepsLeft(r) = Cardinality(run[r].todo) + 1
    BY <2>1 DEF StepsLeft
  <2>9. Cardinality(run[r].todo) \in Nat
    BY LeftIs, JobsFinite
  <2> QED
    BY <2>5, <2>6, <2>7, <2>8, <2>9
<1> QED
  BY <1>2, <1>3, <1>4 DEF Step

\* Where a run starts, the others go on as they were or are over.
LEMMA StartCancels ==
    ASSUME RunsTyped, NEW r \in Refs, NEW q \in Refs,
           run'[q] = RunsWithNew(r)[q] \/ run'[q] = NoRun
    PROVE  run'[q] = Started \/ StepsLeft(q)' <= StepsLeft(q)
<1>1. StepsLeft(q) \in Nat
  BY LeftIs, JobsFinite
<1>2. CASE run'[q] = NoRun \/ run'[q].phase = "cancelled"
  <2>1. StepsLeft(q)' = 0
    BY <1>2 DEF StepsLeft, NoRun, Started
  <2> QED
    BY <1>1, <2>1
<1>3. CASE run'[q] = run[q]
  <2>1. StepsLeft(q)' = StepsLeft(q)
    BY <1>3 DEF StepsLeft, Jobs, Grammars
  <2> QED
    BY <1>1, <2>1
<1>4. CASE run'[q] = Started
  BY <1>4
<1> QED
  BY <1>2, <1>3, <1>4, NewRun DEF RunsTyped

\* What a step of the whole does to the runs.
Uses ==
    \A r \in Refs : /\ run'[r] = Started \/ StepsLeft(r)' <= StepsLeft(r)
                    /\ Step(r) => StepsLeft(r)' < StepsLeft(r)

LEMMA NextUses == RunsTyped /\ [Next]_vars => RunsTyped' /\ [Uses]_vars
<1> SUFFICES ASSUME RunsTyped, [Next]_vars PROVE RunsTyped' /\ [Uses]_vars
  OBVIOUS
<1>0. NoRun \in RunRecord
  BY DEF NoRun, Started, RunRecord, Phases
<1>1. ASSUME NEW r \in Refs, RunsTyped',
             \A q \in Refs : run'[q] = RunsWithNew(r)[q] \/ run'[q] = NoRun
      PROVE  RunsTyped' /\ Uses
  <2>1. \A q \in Refs : Step(q) => StepsLeft(q)' < StepsLeft(q)
    BY StepUsesUp
  <2> QED
    BY <1>1, <2>1, StartCancels DEF Uses
<1>2. ASSUME NEW r \in Refs, run' = RunsWithNew(r) PROVE RunsTyped' /\ Uses
  <2>1. RunsTyped'
    BY <1>2, NewRun DEF RunsTyped
  <2> QED
    BY <1>1, <1>2, <2>1
<1>3. CASE \E p \in PRs : Push(p)
  BY <1>2, <1>3 DEF Push, Refs
<1>4. CASE PushToMain
  BY <1>2, <1>4 DEF PushToMain, Refs
<1>5. CASE \E r \in Refs : Rerun(r)
  BY <1>2, <1>5 DEF Rerun
<1>6. ASSUME NEW p \in PRs, Merge(p) PROVE RunsTyped' /\ Uses
  <2>1. Main \in Refs /\ p \in Refs
    BY DEF Refs
  <2>2. run' = [RunsWithNew(Main) EXCEPT ![p] = NoRun]
    BY <1>6 DEF Merge
  <2>3. RunsWithNew(Main) \in [Refs -> RunRecord]
    BY <2>1, NewRun DEF RunsTyped
  <2>4. RunsTyped' /\ \A q \in Refs : run'[q] = RunsWithNew(Main)[q] \/ run'[q] = NoRun
    BY <1>0, <2>2, <2>3 DEF RunsTyped, RunRecord
  <2> QED
    BY <1>1, <2>1, <2>4
<1>7. ASSUME NEW r \in Refs, Step(r) PROVE RunsTyped' /\ Uses
  <2>1. RunsTyped' /\ \A q \in Refs \ {r} : run'[q] = run[q]
    BY <1>7, StepUsesUp
  <2>2. \A q \in Refs : Step(q) => StepsLeft(q)' < StepsLeft(q)
    BY StepUsesUp
  <2>3. ASSUME NEW q \in Refs \ {r} PROVE StepsLeft(q)' <= StepsLeft(q)
    <3>1. StepsLeft(q)' = StepsLeft(q) /\ StepsLeft(q) \in Nat
      BY <2>1, LeftIs, JobsFinite DEF StepsLeft, Jobs, Grammars
    <3> QED
      BY <3>1
  <2>4. StepsLeft(r)' <= StepsLeft(r)
    <3>1. StepsLeft(r)' < StepsLeft(r) /\ StepsLeft(r) \in Nat /\ StepsLeft(r)' \in Int
      <4>1. StepsLeft(r)' \in Int
        <5>1. IsFiniteSet(run'[r].todo)
          <6>1. run'[r].todo \in SUBSET Jobs
            BY <2>1 DEF RunsTyped, RunRecord
          <6> QED
            BY <6>1, JobsFinite, FS_Subset
        <5>2. Cardinality(run'[r].todo) \in Nat
          BY <5>1, FS_CardinalityType
        <5> QED
          BY <5>2, JobsFinite DEF StepsLeft, Jobs, Grammars
      <4> QED
        BY <1>7, <2>2, <4>1, LeftIs, JobsFinite
    <3> QED
      BY <3>1
  <2> QED
    BY <2>1, <2>2, <2>3, <2>4 DEF Uses
<1>8. CASE UNCHANGED vars
  BY <1>8 DEF vars, RunsTyped
<1> QED
  BY <1>3, <1>4, <1>5, <1>6, <1>7, <1>8 DEF Next

(***************************************************************************)
(* No run goes on for ever, whatever is pushed and whichever jobs fail:    *)
(* one that is not over can go on, as the bindings jobs wait for no job    *)
(* that is not to run, and each step of it uses up one of at most two more *)
(* than there are jobs; only a push, a merge or a rerun of its ref starts  *)
(* it anew (ci.yml:230, :324).                                             *)
(***************************************************************************)
THEOREM RunsAreBounded ==
    Spec => /\ [](\A r \in Refs : /\ StepsLeft(r) \in 0..Cardinality(Jobs) + 2
                                  /\ Busy(r) => StepsLeft(r) > 0 /\ CanGoOn(r))
            /\ [][Uses]_vars
<1>1. Init => RunsTyped
  BY DEF Init, RunsTyped, NoRun, Started, RunRecord, Phases
<1>2. RunsTyped => \A r \in Refs : /\ StepsLeft(r) \in 0..Cardinality(Jobs) + 2
                                   /\ Busy(r) => StepsLeft(r) > 0 /\ CanGoOn(r)
  BY LeftIs, BusyGoesOn
<1> QED
  BY <1>1, <1>2, NextUses, PTL DEF Spec
=============================================================================
