---------------------------- MODULE CISelection ----------------------------
(***************************************************************************)
(* What continuous integration runs for a change                           *)
(* (scripts/changed-grammars.js), and what each of its jobs reads          *)
(* (.github/workflows/ci.yml).  The files of the repository fall into      *)
(* classes that these two tell apart; a file stands for all of its class:  *)
(*   dialect    a dialect's directory, but for what follows                *)
(*   blob       the committed src/*.br of a grammar                        *)
(*   scanner    src/scanner.c of a grammar; src/tree_sitter/ with Base     *)
(*   query      queries/ of a grammar                                      *)
(*   inventory  a dialect's files in tools/inventory, -results, -verify    *)
(*   grammar    grammar.js and grammar/           test   test/             *)
(*   scripts    scripts/, package.json, package-lock.json, tree-sitter.json *)
(*   selector   scripts/changed-grammars.js       tools  tools/ at its top *)
(*   coverage   tools/coverage.py                 workflow  ci.yml         *)
(*   bindings   the bindings and their packaging  docs   *.md, docs/       *)
(*   other      a file that classify does not know                         *)
(***************************************************************************)
EXTENDS Lineage

Grammars == Dialects \cup {Base}
Jobs     == Grammars \cup {"bindings"}

ASSUME JobsAssumption == "bindings" \notin Grammars

File ==
    ({"dialect", "blob", "scanner", "query", "inventory"} \X Dialects)
      \cup ({"grammar", "blob", "scanner", "query", "test", "scripts", "selector",
             "tools", "coverage", "workflow", "bindings", "docs", "other"} \X {Base})

-----------------------------------------------------------------------------
(* classify: what one changed file asks for. *)

AllGrammars(f) == f \in {"grammar", "scanner", "scripts", "tools", "other"} \X {Base}

\* The grammars it names, where it does not ask for all of them.
Named(f) ==
    ({f[2]} \cap Dialects)
      \cup (IF f[1] \in {"inventory", "bindings", "docs"} THEN {} ELSE {Base})

Bindings(f) == f[1] \notin {"inventory", "selector", "coverage", "workflow", "docs"}

\* decide: what the changed files D ask for taken together,
AsksForAll(D) == \E f \in D : AllGrammars(f)
Seed(D)       == UNION {Named(f) : f \in D}

\* the grammars,
Chosen(D, parent) == IF AsksForAll(D) THEN Grammars ELSE WithDescendants(Seed(D), parent)

\* Mutant: the bindings run where a file asks for them.
JobsAsAsked(G, D) == G \cup (IF \E f \in D : Bindings(f) THEN {"bindings"} ELSE {})

\* and the jobs that go with the grammars G; corpus-lint runs whatever changed.
JobsFor(G, D) == G \cup (IF G # {} \/ \E f \in D : Bindings(f) THEN {"bindings"} ELSE {})

Selected(D, parent) == JobsFor(Chosen(D, parent), D)

-----------------------------------------------------------------------------
(* The files whose committed contents a job's marker stands for. *)

\* Mutant: the grammar that a dialect's grammar.js imports, and none above it.
DialectFingerprintOfParent(d, parent) ==
    ({"dialect", "blob", "scanner", "query"} \X ({d, parent[d]} \ {Base}))
      \cup ({"grammar", "scanner", "scripts", "selector", "tools", "coverage"} \X {Base})
      \cup {<<"inventory", d>>}

DialectFingerprint(d, parent) ==
    ({"dialect", "blob", "scanner", "query"} \X ({d} \cup Ancestors(d, parent)))
      \cup ({"grammar", "scanner", "scripts", "selector", "tools", "coverage"} \X {Base})
      \cup {<<"inventory", d>>}

BaseFingerprint == {f \in File : f[1] \notin {"docs", "bindings", "workflow"}}

BindingsFingerprint ==
    ({"bindings", "scripts", "selector"} \X {Base}) \cup ({"blob", "query"} \X Grammars)

Fingerprint(j, parent) ==
    IF j \in Dialects THEN DialectFingerprint(j, parent)
    ELSE IF j = Base THEN BaseFingerprint
    ELSE BindingsFingerprint

-----------------------------------------------------------------------------
(* The files that the steps of a job read. *)

\* Generate, check the blobs, run the corpus, probe the inventory.
DialectReads(d, parent) ==
    ({"dialect"} \X ({d} \cup Ancestors(d, parent)))
      \cup ({"blob", "scanner", "inventory"} \X {d})
      \cup ({"grammar", "scanner", "scripts", "tools", "coverage", "workflow"} \X {Base})

\* The same without the inventory; every grammar's highlights; the references.
BaseReads ==
    ({"grammar", "scanner", "test", "scripts", "tools", "coverage", "workflow"} \X {Base})
      \cup ({"blob", "query"} \X Grammars) \cup ({"dialect"} \X Dialects)

\* Inflate the blobs, compile and test every binding.
BindingsReads ==
    ({"bindings", "scripts", "workflow"} \X {Base})
      \cup ({"blob", "scanner", "query"} \X Grammars)

\* The expected trees of every corpus.
LintReads == {<<"test", Base>>} \cup ({"dialect"} \X Dialects)

Reads(j, parent) ==
    IF j \in Dialects THEN DialectReads(j, parent)
    ELSE IF j = Base THEN BaseReads
    ELSE BindingsReads

-----------------------------------------------------------------------------
\* What the selection does not follow: nothing but the base and bindings jobs
\* answers a change of coverage.py, which inventory.py loads, or of ci.yml.
NotFollowed(j) ==
    IF j \in Dialects THEN {"coverage", "workflow"} \X {Base} ELSE {}

\* What no fingerprint, or not that of the bindings jobs, covers.
NotCovered(j) ==
    {<<"workflow", Base>>}
      \cup (IF j = "bindings" THEN {"scanner"} \X Grammars ELSE {})
=============================================================================
