---------------------------- MODULE GeneratePool ----------------------------
(***************************************************************************)
(* scripts/generate-all.js: a pool of workers that run one generate.js per *)
(* grammar.  The workers are coroutines of one JavaScript thread: between  *)
(* two awaits a worker takes the next item, starts its child and waits for *)
(* it to close; the children are processes of their own.                   *)
(***************************************************************************)
EXTENDS Naturals, Sequences, FiniteSets

CONSTANTS Lists,      \* the lists of grammars that may be asked for
          MaxCpus,    \* processors: 1..MaxCpus
          MaxGiB,     \* total memory in GiB: 0..MaxGiB
          MaxEnv      \* GENERATE_CONCURRENCY: 0..MaxEnv, 0 when it is unset

GiBPerWorker == 6

ASSUME PoolAssumption ==
    /\ \A l \in Lists : l \in Seq(STRING) /\ Len(l) \in Nat
    /\ MaxCpus \in Nat \ {0} /\ MaxGiB \in Nat /\ MaxEnv \in Nat

VARIABLES items,    \* the grammars to generate
          env, cpus, gib,
          index,    \* items taken so far
          ok,       \* has no child failed?
          worker,   \* what each worker does: "ready", "waiting" or "done"
          holds,    \* the item whose child it waits for
          child,    \* of each item: "none", "running", "exited" or "closed"
          code,     \* did the child of the item exit with 0?
          exit      \* the script's exit code, or "none"

machine == <<items, env, cpus, gib>>
vars    == <<machine, index, ok, worker, holds, child, code, exit>>

Least(m, n) == IF m <= n THEN m ELSE n

\* Mutant: as many as there are processors.
ConcurrencyOfCpus(e, c, g) == IF e # 0 THEN e ELSE c

\* Math.max(1, GENERATE_CONCURRENCY || min(cpus, floor(memory / 6 GiB)))
Concurrency(e, c, g) ==
    LET wanted == IF e # 0 THEN e ELSE Least(c, g \div GiBPerWorker)
    IN  IF wanted < 1 THEN 1 ELSE wanted

Limit   == Concurrency(env, cpus, gib)
Workers == 1..Least(Limit, Len(items))
Items   == 1..Len(items)

Init ==
    /\ items \in Lists
    /\ env \in 0..MaxEnv /\ cpus \in 1..MaxCpus /\ gib \in 0..MaxGiB
    /\ index = 0
    /\ ok = TRUE
    /\ worker = [w \in Workers |-> "ready"]
    /\ holds = [w \in Workers |-> 0]
    /\ child = [i \in Items |-> "none"]
    /\ code = [i \in Items |-> TRUE]
    /\ exit = "none"

\* Mutant: the index does not move on when an item is taken.
TakeWithoutIncrement(w) ==
    /\ worker[w] = "ready"
    /\ index < Len(items)
    /\ holds' = [holds EXCEPT ![w] = index + 1]
    /\ worker' = [worker EXCEPT ![w] = "waiting"]
    /\ child' = [child EXCEPT ![index + 1] = "running"]
    /\ UNCHANGED <<machine, index, ok, code, exit>>

\* items[index++], and its child is spawned.
Take(w) ==
    /\ worker[w] = "ready"
    /\ index < Len(items)
    /\ index' = index + 1
    /\ holds' = [holds EXCEPT ![w] = index + 1]
    /\ worker' = [worker EXCEPT ![w] = "waiting"]
    /\ child' = [child EXCEPT ![index + 1] = "running"]
    /\ UNCHANGED <<machine, ok, code, exit>>

\* Mutant: off by one.
LeaveLate(w) ==
    /\ worker[w] = "ready"
    /\ index > Len(items)
    /\ worker' = [worker EXCEPT ![w] = "done"]
    /\ UNCHANGED <<machine, index, ok, holds, child, code, exit>>

\* The loop of a worker ends: no item is left.
Leave(w) ==
    /\ worker[w] = "ready"
    /\ index >= Len(items)
    /\ worker' = [worker EXCEPT ![w] = "done"]
    /\ UNCHANGED <<machine, index, ok, holds, child, code, exit>>

\* A child exits: generated or up to date, or failed or killed.
Exit(i) ==
    /\ child[i] = "running"
    /\ child' = [child EXCEPT ![i] = "exited"]
    /\ \E success \in BOOLEAN : code' = [code EXCEPT ![i] = success]
    /\ UNCHANGED <<machine, index, ok, worker, holds, exit>>

\* Mutant: ok is what the last child says.
CloseLastSays(w) ==
    /\ worker[w] = "waiting"
    /\ child[holds[w]] = "exited"
    /\ child' = [child EXCEPT ![holds[w]] = "closed"]
    /\ ok' = code[holds[w]]
    /\ worker' = [worker EXCEPT ![w] = "ready"]
    /\ UNCHANGED <<machine, index, holds, code, exit>>

\* The close event: the worker goes on where it waited.
Close(w) ==
    /\ worker[w] = "waiting"
    /\ child[holds[w]] = "exited"
    /\ child' = [child EXCEPT ![holds[w]] = "closed"]
    /\ ok' = (ok /\ code[holds[w]])
    /\ worker' = [worker EXCEPT ![w] = "ready"]
    /\ UNCHANGED <<machine, index, holds, code, exit>>

\* Promise.all has every worker: the script reports and exits.
Report ==
    /\ exit = "none"
    /\ \A w \in Workers : worker[w] = "done"
    /\ exit' = IF ok THEN "success" ELSE "failure"
    /\ UNCHANGED <<machine, index, ok, worker, holds, child, code>>

Next ==
    \/ \E w \in Workers : Take(w) \/ Leave(w) \/ Close(w)
    \/ \E i \in Items : Exit(i)
    \/ Report

Spec == Init /\ [][Next]_vars

\* Some worker or child that can go on does: every child exits in the end, and
\* the event loop serves every close event.
FairSpec == Spec /\ WF_vars(Next)

-----------------------------------------------------------------------------
\* The variables have their types.
TypeOK ==
    /\ items \in Lists
    /\ env \in 0..MaxEnv /\ cpus \in 1..MaxCpus /\ gib \in 0..MaxGiB
    /\ index \in 0..Len(items)
    /\ ok \in BOOLEAN
    /\ worker \in [Workers -> {"ready", "waiting", "done"}]
    /\ holds \in [Workers -> 0..Len(items)]
    /\ child \in [Items -> {"none", "running", "exited", "closed"}]
    /\ code \in [Items -> BOOLEAN]
    /\ exit \in {"none", "success", "failure"}

RunningItems == {i \in Items : child[i] = "running"}

NoDuplicates == \A i, j \in Items : i # j => items[i] # items[j]

(***************************************************************************)
(* No item is taken twice, so two children never generate the same grammar *)
(* at once; for that the list must name no grammar twice                   *)
(* (generate-all.js:84).                                                   *)
(***************************************************************************)
HeldOnce ==
    \A v, w \in Workers :
        v # w /\ worker[v] = "waiting" /\ worker[w] = "waiting"
          => /\ holds[v] # holds[w]
             /\ NoDuplicates => items[holds[v]] # items[holds[w]]

(***************************************************************************)
(* The children that run at once fit the memory: 6 GiB for each of them,   *)
(* unless there is only one or the user set the number (generate-all.js:62). *)
(***************************************************************************)
FitsMemory ==
    /\ Cardinality(RunningItems) <= Limit
    /\ env = 0 => \/ Cardinality(RunningItems) <= 1
                  \/ Cardinality(RunningItems) * GiBPerWorker <= gib

(***************************************************************************)
(* The script exits with 0 just when every grammar was generated: none is  *)
(* left out, none failed without notice, and one failure does not keep the *)
(* others from being generated (generate-all.js:79).                       *)
(***************************************************************************)
OutcomeIsHonest ==
    exit # "none" =>
        /\ \A i \in Items : child[i] = "closed"
        /\ exit = "success" <=> \A i \in Items : code[i]

\* The script ends if every child does: no worker is left waiting, and at
\* least one worker is there to take the items.
Ends == <>(exit # "none")

-----------------------------------------------------------------------------
\* The lists that TLC tries (a configuration cannot write tuples): fewer, as
\* many and more grammars than there are workers.
SomeLists == { <<"base">>, <<"base", "spark", "hive">>,
               <<"base", "spark", "postgres", "mysql">> }
=============================================================================
