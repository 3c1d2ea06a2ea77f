-------------------------- MODULE DescendantsLoop --------------------------
(***************************************************************************)
(* withDescendants of scripts/changed-grammars.js as the loop it is: passes *)
(* over the entries of parent that add to a set while they look, until a   *)
(* pass adds nothing.  The entries come in the order the dialects are      *)
(* listed in; here every pass takes them in any order.                     *)
(***************************************************************************)
EXTENDS Lineage

VARIABLES parent,   \* the dialect, or Base, that each dialect extends
          seed,     \* the grammars the loop starts from
          set,      \* the grammars found so far
          left,     \* the entries this pass has not looked at
          grew,     \* has this pass added one?
          done

vars == <<parent, seed, set, left, grew, done>>

Init ==
    /\ parent \in [Dialects -> Dialects \cup {Base}]
    /\ IsForest(parent)
    /\ seed \in SUBSET (Dialects \cup {Base})
    /\ set = seed
    /\ left = Dialects
    /\ grew = FALSE
    /\ done = FALSE

\* Mutant: the loop looks at what it was given, not at what it has found.
BelongsSkipping(d) ==
    /\ parent[d] # Base /\ parent[d] \in seed
    /\ d \notin set

\* Mutant: what is found already is found again.
BelongsAgain(d) == parent[d] # Base /\ parent[d] \in set

\* Mutant: selecting the base job brings in every dialect.
BelongsToBase(d) == parent[d] \in set /\ d \notin set

Belongs(d) ==
    /\ parent[d] # Base /\ parent[d] \in set
    /\ d \notin set

\* The body of the inner loop for the entry of d.
Look(d) ==
    /\ ~done
    /\ d \in left
    /\ left' = left \ {d}
    /\ IF Belongs(d)
         THEN set' = set \cup {d} /\ grew' = TRUE
         ELSE UNCHANGED <<set, grew>>
    /\ UNCHANGED <<parent, seed, done>>

\* Mutant: one pass, whatever it found.
PassEndOnce ==
    /\ ~done
    /\ left = {}
    /\ done' = TRUE
    /\ UNCHANGED <<parent, seed, set, left, grew>>

\* The end of a pass: another one if this one added something.
PassEnd ==
    /\ ~done
    /\ left = {}
    /\ IF grew
         THEN left' = Dialects /\ grew' = FALSE /\ done' = FALSE
         ELSE done' = TRUE /\ UNCHANGED <<left, grew>>
    /\ UNCHANGED <<parent, seed, set>>

Next == PassEnd \/ \E d \in Dialects : Look(d)

Spec == Init /\ [][Next]_vars
FairSpec == Spec /\ WF_vars(Next)

-----------------------------------------------------------------------------
\* The variables have their types.
TypeOK ==
    /\ parent \in [Dialects -> Dialects \cup {Base}]
    /\ seed \subseteq Dialects \cup {Base}
    /\ set \subseteq Dialects \cup {Base}
    /\ left \subseteq Dialects
    /\ grew \in BOOLEAN
    /\ done \in BOOLEAN

Closed(S) ==
    \A d \in Dialects : parent[d] # Base /\ parent[d] \in S => d \in S

\* Every set that contains the seed and whatever extends its members contains
\* what the loop has found.
NothingExtra ==
    \A S \in SUBSET (Dialects \cup {Base}) :
        seed \subseteq S /\ Closed(S) => set \subseteq S

(***************************************************************************)
(* When the loop ends, no dialect is missing: whatever extends a grammar   *)
(* of the result is in it too.  And at no time is one in it without need,  *)
(* in whatever order the entries come (changed-grammars.js:65).            *)
(***************************************************************************)
LeastClosed == (done => Closed(set)) /\ NothingExtra

(***************************************************************************)
(* The loop finds the dialects of the seed and those with an ancestor in   *)
(* it, the relation that grammarFingerprint walks the other way: the two   *)
(* ends of the selection agree on what a dialect depends on                *)
(* (changed-grammars.js:65 and :191).                                      *)
(***************************************************************************)
AgreesWithAncestors ==
    done => /\ set = seed \cup {d \in Dialects :
                                  Ancestors(d, parent) \cap seed # {}}
            /\ set = WithDescendants(seed, parent)

\* The loop ends, for every lineage and every seed.
Terminates == <>done
=============================================================================
