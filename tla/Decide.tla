------------------------------- MODULE Decide -------------------------------
(***************************************************************************)
(* decide of scripts/changed-grammars.js as files of a branch change: what *)
(* classify says of each is taken together, and withDescendants runs over  *)
(* the seed, step by step.  CIRuns takes it in one step, as Selected; here *)
(* is what entitles it to.                                                 *)
(***************************************************************************)
EXTENDS CISelection, DescendantsLoop

CONSTANT MaxChanged      \* how many files change

VARIABLE changed         \* the changed files

DecideInit == Init /\ seed = {} /\ changed = {}

\* One more file has changed, and decide is run for all of them.
Change(f) ==
    /\ Cardinality(changed) < MaxChanged
    /\ changed' = changed \cup {f}
    /\ seed' = IF AsksForAll(changed') THEN Grammars ELSE Seed(changed')
    /\ set' = seed'
    /\ done' = AsksForAll(changed')
    /\ left' = IF AsksForAll(changed') THEN {} ELSE Dialects
    /\ grew' = FALSE
    /\ UNCHANGED parent

DecideNext ==
    \/ \E f \in File : Change(f)
    \/ Next /\ UNCHANGED changed

DecideSpec == DecideInit /\ [][DecideNext]_<<vars, changed>>

-----------------------------------------------------------------------------
(***************************************************************************)
(* The jobs that decide comes to over its loop are those that Selected has *)
(* for the changed files (changed-grammars.js:143).                        *)
(***************************************************************************)
DecidesSelected == done => JobsFor(set, changed) = Selected(changed, parent)

(***************************************************************************)
(* A job that reads a changed file is selected, through any number of      *)
(* grammars that extend each other (changed-grammars.js:143).              *)
(***************************************************************************)
ReadersAreSelected ==
    done => \A j \in Jobs :
        (Reads(j, parent) \ NotFollowed(j)) \cap changed # {}
          => j \in JobsFor(set, changed)

(***************************************************************************)
(* The marker of a job stands for every file that the job reads: where the *)
(* fingerprint is the same, so is the job (changed-grammars.js:180).       *)
(***************************************************************************)
ReadsAreFingerprinted ==
    \A j \in Jobs : Reads(j, parent) \ NotCovered(j) \subseteq Fingerprint(j, parent)

\* What selects a dialect and is not in its fingerprint: the unknown, and the
\* inventory of a dialect above, because decide takes a dialect whose inventory
\* changed for one whose grammar did.
NeedlessCauses(d) ==
    {<<"other", Base>>} \cup ({"inventory"} \X Ancestors(d, parent))

(***************************************************************************)
(* Otherwise no dialect is built without need: one that is selected has a  *)
(* changed file in its fingerprint (changed-grammars.js:63).               *)
(***************************************************************************)
SelectedForCause ==
    \A d \in Dialects : d \in JobsFor(set, changed) =>
        changed \cap (Fingerprint(d, parent) \cup NeedlessCauses(d)) # {}
=============================================================================
