# A TLA+ model of the SQL grammars and of the machinery that builds them

This directory holds TLA+ modules that model this repository, TLC configurations
that check them on small instances, and theorems about them that TLAPS proves for
every value of the constants. Paths such as `scripts/generate.js:123` are relative
to the root of the repository.

1. [The system](#1-the-system): components, state, operations, what is hard
2. [The modules](#2-the-modules): how state and actions correspond to the code
3. [The runs](#3-the-runs): what each checks, the bounds, the fairness
4. [The proofs](#4-the-proofs): what is proved, from what, along which argument
5. [Disagreements found](#5-disagreements-found)
6. [What is only checked, and what is not modelled](#6-what-is-only-checked-and-what-is-not-modelled)
7. [Plan](#7-plan)

## 1. The system

The repository is a tree-sitter grammar for ANSI SQL and 22 dialects that extend
it, directly or through one another: spark extends hive, databricks spark, mariadb
mysql, athena trino, cockroachdb postgres, spanner bigquery, and the others the ANSI grammar. Most of it is declarative: rules, corpora, inventories. The parts that
have state and order are few, and each has its own kind of difficulty; and the rules
themselves have one, for 23 grammars are composed by overriding, in an order that nothing checks.

| Component | State | Operations | What is hard | What makes it correct |
|---|---|---|---|---|
| External scanner, `src/scanner.c`, included by every dialect's `src/scanner.c` | one heap string, the open dollar tag | create, destroy, scan, serialize, deserialize | the tree-sitter runtime parses with several stack versions at once and all share the one payload; pointers change hands between scan, serialize and deserialize; the table of valid tokens is narrower than the code reads | each version behaves as if it had a scanner of its own; nothing is freed twice; tags pair up; parses end |
| Cached generation, `scripts/generate.js` | the hash marker and three artifacts per grammar | hash, compare, run `tree-sitter generate`, write the marker | edits while a run is busy, failed and killed runs, lost files, other writers of the same files | a skipped run leaves what the present sources compose to |
| Generation of all, `scripts/generate-all.js` | a shared index, a flag, the children | take, spawn, close, report | coroutines around one index, memory, failures of some | each grammar once, within the memory, an honest exit code |
| Committed blobs: `compress-parsers.js`, `inflate-parsers.js`, `check-blobs.js`, `apply-ci-artifacts.js` | `.br` files and their times | compress, inflate, compare, copy | writes the same files as generation, decides by time | inflating never passes for generating |
| Selection of CI jobs, `scripts/changed-grammars.js` | none | classify, decide, fingerprint | four descriptions of "depends on" that must agree: the imports, the walk down, the walk up, what the jobs really read | whoever reads a changed file is selected and fingerprinted |
| CI runs, `.github/workflows/ci.yml` and `.github/branch-protection/main.json` | runs, recorded markers, main | push, select, build, record, conclude, merge, rerun | many branches share markers; runs are cancelled, fail and are repeated; skipped jobs count as passed | main stays good, markers can be trusted, runs end |
| Inventory and coverage gates, `tools/inventory.py`, `tools/coverage.py` | committed results, a cache of verdicts | evaluate, check, refresh | the baseline moves with the measurement | what once parsed keeps parsing |
| Highlight bundles, `scripts/bundle-highlights.js` | none | filter patterns by node types | a parser for query text, inheritance of queries | every kept pattern compiles, every dropped one would not |
| Release: `bump-version.sh`, `tag.yml`, `publish.yml`, `pages.yml` | versions in the manifests, registries | bump, publish | partial publication, a cache that is restored | one version everywhere |
| Bindings: `scripts/generate-bindings.js`, `bindings/`, `CMakeLists.txt` | lazily read files in `bindings/node/index.js` | load | absent prebuilt files | - |
| Grammar rules: `grammar.js`, `grammar/`, one directory per dialect | the rules composed so far | spread a layer, extend a grammar | an override replaces the rule of the parent entirely; layers are spread in an order that decides; conflicts do not propagate; a precedence given to a word hides longer words of other files | no alternative, conflict or word of the parent is lost unintentionally; what is written is reached; the cache hashes what is composed |
| Corpus audit, benchmarks, size experiments: `tools/corpus/`, `tools/perf/`, `.github/experiments/` | none between runs | measure | - | - |

How they interact: generate.js composes a dialect with the grammars it imports and
writes `parser.c`, `grammar.json` and `node-types.json`; compress-parsers.js packs two
of the three into committed blobs; inflate-parsers.js unpacks them where nobody
generates (bindings, the package, the pages workflow). generate-all.js starts one
generate.js per grammar. A generated parser calls the external scanner through the
tree-sitter runtime, with the table of valid tokens that the generator derived from
the grammar's `externals`. changed-grammars.js runs as the first job of each CI run,
chooses the jobs and hands each the key of the marker that it records when it passes;
ci-passed, the one check that protects main, looks at the results of all.

`PROJECT.json` lists the hazards of these components line by line under `hazards`,
with the properties that would catch each, or why none does yet.

## 2. The modules

```
ScannerTables <- ExternalScanner <- ParserRuntime <- MCParserRuntime
      ^                                  |  ^------- ParserRuntime_proofs
      |                                  | implements
PrivateScanners <------------------------+
      ^------- PrivateScanners_proofs
ScannerCharacters <- ScannerLexemes <- ScannerCharacters_proofs
                         | instance of ExternalScanner

GrammarHelpers <- CopiedRules, BaseRules, BigQueryRules ... TSQLRules  (18 rule modules)
GrammarComposition <- MCGrammarComposition (with an instance of each rule module)
      ^------- GrammarComposition_proofs

Lineage <- GenerateCache   <- MCGenerateCache, GenerateCache_proofs
   ^-----  DescendantsLoop <-+
   ^-----  CISelection     <-+- Decide <- Decide_proofs
                ^                             | instance
                +--------- CIRuns <- MCCIRuns, CIRuns_proofs
GeneratePool <- GeneratePool_proofs
```

Definitions whose comment begins with "Mutant:" are not part of any specification. Each is the
changed form of a definition that a plausible mistake in the code would give; with it in place
of the original, TLC finds the property that `PROJECT.json` names violated.

### The external scanner

A text is a sequence of lexemes: a dollar tag (`$body$`), a position call in its ISO
shape (`position(a IN b)`), or anything else. Tags are set apart from one another, so
a lexeme is a tag or is not.

**ScannerTables** has the token enumeration (`scanner.c:6`) and the table of valid
external tokens. The scanner indexes the row it is given with all six of its token
types. base, hive, clickhouse, bigquery and others declare only three externals, so index 3
to 5 reads the next row, and in the last row what lies behind the table: the set
`beyond`, any value, fixed when the parser is built. ParserRuntime's variable `table` is the
table of one parser, chosen in `Init` with `beyond`, so that one run covers several dialects. The tables in `MCParserRuntime`
have the shapes that the generator writes into the committed parsers: three
externals and one row; three and two rows (databricks, spark, mysql); six externals
(postgres, cockroachdb, snowflake), where the two tag tokens are valid in error
recovery only.

**ExternalScanner** has one action per entry point on the payload `start_tag`, with
`owned` for whether the string it points to is allocated and `leaked` for strings
that nothing points to any more. scan is one action per branch, guarded so that the
branches are tried in the order of the source: the position branch, whose answer is
final (`:158`), the start tag where none is open (`:169`), the end tag where one is (`:185`),
the whole string (`:204`).

**ParserRuntime** drives the entry points as the tree-sitter runtime does. The
runtime is not in the repository; what is modelled is the protocol of its calls. It
deserializes the state kept with the last external token of the version it
lexes for (`StartLex`), calls scan (`Scan`), serializes when a token was found
(`AcceptToken`), lets the generated lexer try otherwise (`InternalLex`) and lexes the same place
again in error recovery (`Relex`). `Fork` and `Drop` split and drop versions; a
version is dropped only for one that has come at least as far. Which version is next,
with which row, and when recovery begins depend on the grammar and are left open.
Where the scanner answers with a token the grammar does not declare, the symbol map
is read out of its bounds; the model keeps the token the scanner meant.

**PrivateScanners** is the abstract specification: every version has a variable
`open` of its own, and no payload, serialization or runtime phase exists. ParserRuntime
implements it with `open` mapped to the state saved with the version's last token.

**ScannerCharacters** is scan once more, character by character, for the parts that
ExternalScanner takes in one step: the loops of `scan_dollar_string_tag` (`scanner.c:63`), the loop over
the body of a whole string (`:217`) and the search for IN (`:125`). A character is its code point;
`Buffer` keeps its last eight bits, as `add_char` does (`:36`), and `SameTag` compares buffers as
strcmp does, up to a 0. `pc` is the loop that is being executed, one action per way through it.
`Advance` does nothing at the end of the text. `MaxScanned` is the bound 4096 of the search.

**ScannerLexemes** relates the two levels. `Lexemes` turns a text of characters into a text of ExternalScanner: the lexeme at a
character is the tag that begins with it, as the C string that strcmp knows (`CString`). ExternalScanner is instanced with the
payload and the answer that the character-wise scan has come to (`StartTag`, `Refused`, `Answered`), and `AnswersAsLexed` says that a step that
answers is the one step ExternalScanner takes over these lexemes, and every other step changes none of it.
A string needs `SetApart` for that: where its first tag comes again, no dollar of that tag or of the body in front could have begun
a tag that ends there. Without it the character-wise scan may pass over a repetition that the lexemes show; `StringIsFound` says when.

### Grammars

**GrammarHelpers** says how a rule module writes one object of rules down. A rule is
the set of rules it refers to, under whatever combinator: that is what composition
can lose. A `keyword_` rule is the precedence of its token. `Unit` is one object literal or
rule file, `Merged` and `Spread` are `{...a, ...b}`, `ordered_optionals` is the helper of the same name
(`grammar/helpers.js:72`), which generates the rules `_from_clauses_0` and so on.

**BaseRules, CopiedRules and the dialects' rule modules** have one definition for each
object of rules, named as in the source, and `layers`, the order in which `<dialect>/grammar.js` spreads them,
with `conflicts` and `externals`. A dialect of a dialect is in the module of its family: MariaDB in
MySQLRules, Athena in TrinoRules, CockroachDB in PostgresRules, Spanner in BigQueryRules,
Databricks in SparkRules. CopiedRules is the three files (`transactions.js`, `alter_vendor.js`, `legacy_statements.js`)
of which most dialects keep a copy of their own: the copies define the same rules with the same
references, so they are written once, and `Copy` marks the layer as one.

**GrammarComposition** is `grammar(parent, { rules: {...} })`: `SpreadLayer` overrides, `Reach` is a round of
the search for the rules that the start rule needs (tree-sitter drops the others), `Extend`
begins a dialect of the finished grammar. `owner` says which layer of which grammar a rule is from, and the layer says whether
it is written in `grammar.js` itself (`Inline`) or in a file of the `grammar/` directory: `SourceOf` is the one or the other,
which is what `generate.js` hashes (`HashedFiles`).
MCGrammarComposition names what the dialects are known to do without, each set for one property:
`MCWithdrawn` (alternatives of the parent left out), `MCEclipsed`, `MCRelinquished` (conflicts),
`MCStranded` (rules that nothing refers to), `MCUnlexable` and `MCHarmless` (pairs of words).
They are findings as much as exceptions: a new entry is a change that somebody has to mean.

The rules that TLC finds live in each of the 23 grammars are the rules of the committed
parser, by the symbol enumerations of the `parser.c` in the blobs, but for rules that are
inlined (oracle) or that the parser names otherwise (`_hana_io_option`, snowflake's `_pattern_sequence`,
teradata's `_logging_scope`) and externals that nothing refers to. The 17 pairs of `MCUnlexable`, in 13
dialects, were confirmed on the committed parsers: the longer word is lexed as an identifier.
Of `MCHarmless`, db2's call and caller, oracle's id and identity, and snowflake's connect and connection are told
apart by keyword extraction; of the other four pairs the parser needs one word only.

### Generation

**Lineage** has the import chains: `Ancestors` walks up, `WithDescendants` down.

**DescendantsLoop** is `withDescendants` (`changed-grammars.js:65`) step by step: the entries
in any order (the code has one order per list; the model may change it from pass to pass), each visited once per pass, the set changed under way, another pass while
the last one grew.

**GenerateCache** is `generate.js`. A source file is a version number and an
artifact is the versions of the files it was made from, so "fresh" means: made from the
present versions. `Start` hashes and does not skip, `Compose` is the moment at
which tree-sitter loads the grammar, `BeginWrite` creates or truncates one artifact, which is `CutShort` until `EndWrite`,
and `Finish` writes the marker. A run that dies leaves
the file as it is, and what is written to a deleted file is lost with it; `InflateCutShort` is an inflate that is killed in its write.
`UpToDate` is the condition of the skip; a run that skips changes nothing. `Hashed` is what the hash
covers (`:77`-`:100`), `Composed` what tree-sitter loads. What else happens is a
choice of the variable `environment`, one of the sets of steps in `Environments`, fixed in `Init`: a run dies, a source is edited while a run is
busy, goes back to an older version, an artifact is lost (the comment at `:106` tells how),
blobs are compressed and inflated. The hash is taken at once, as reading a few files is short
against a generation of minutes. Grammars share only sources, so one target in a run
of TLC stands for all; the theorems have any number.

**GeneratePool** is `generate-all.js`. Between two awaits a worker takes an item and
spawns its child (`Take`), or leaves (`Leave`); children exit with any outcome
(`Exit`); the close event resumes the worker (`Close`); `Report` is what follows `Promise.all`. The machine
(processors, memory, `GENERATE_CONCURRENCY`) is chosen in `Init`.

### Continuous integration

**CISelection** has classify, decide and the fingerprints as operators over classes
of files (`<<kind, grammar>>`), each class being what the regular expressions and pathspecs tell apart,
and `Reads`, what the steps of each job read according to `ci.yml` and the scripts it runs. `AsksForAll`, `Seed` and `JobsFor`
are the parts of decide before and behind its call of withDescendants; `Selected` puts them together with
the closure of Lineage.

**Decide** puts them together with the loop of DescendantsLoop instead: as one more file changes (`Change`), decide
takes what classify says of all of them and the loop runs from their seed. That the two come to the same jobs
(`DecidesSelected`) is what entitles CIRuns to select in one step.

**CIRuns** composes them to the life of main and its pull requests. A version of the
repository maps files to contents; which contents a job passes on is the constant
`GoodInputs`, over what the job reads and nothing else. `Push` opens or updates a pull
request, `PushToMain` is a push of somebody whom the protection does not bind
(`enforce_admins` is false), recorded in `bypassed`; `Merge` needs a green ci-passed and
a branch that is up to date (`strict`). A new run cancels those of its
concurrency group (`ci.yml:14`). `Select` is the changes job: the diff may fail (everything is selected) and the
markers may be unreadable (nothing is dropped). Jobs pass and record
their marker in one step, or fail; the bindings jobs wait for the grammar jobs;
`Conclude` is ci-passed, with corpus-lint folded in. The
bindings matrix is one job, whose marker the code records with one key.

## 3. The runs

| Run | Module, configuration | Distinct states | What it shows |
|---|---|---|---|
| scanner_versions | MCParserRuntime | 176,110 | two versions, tables of six and of three externals, every content behind the latter: ownership, the payload is the current version's, tags pair up, tokens are in order, no leak unless a start tag is read as valid, PrivateScanners is implemented, parses end |
| scanner_databricks | MCParserRuntime_databricks | violation | see section 5 |
| scanner_characters | ScannerLexemes | 849,423 | every text of six characters: strings are quoted and are found, calls are answered, scan is linear, each answer is that of ExternalScanner |
| composition | MCGrammarComposition | 574 | the 23 grammars: copies before own rules, what the hash covers (all rules but three of the root's `grammar.js`), and that no rule, alternative, conflict or word is lost but for the named ones |
| composition_words | MCGrammarComposition_words | violation | see section 5 |
| descendants_loop | DescendantsLoop | 109,600 | every lineage of four dialects, every seed, every order of the entries |
| cache_environments | MCGenerateCache | 2,083,835 | skips are fresh in spite of edits under a run, and of killed runs, or artifacts inflated or lost; with kills besides inflates or losses an artifact may be cut short, but is never old; grammar.json is fresh also where sources go back |
| cache_base_entry | MCGenerateCache_base_entry | violation | see section 5 |
| generate_pool | GeneratePool | 128,232 | one child per item, memory, exit code, an end |
| ci_selection | Decide | 58,648 | every lineage of three dialects, every two changed files, every order of the loop: decide comes to the closure, readers are selected and fingerprinted, nobody is selected without cause |
| ci_runs | MCCIRuns | 84,351 | main stays good, markers are sound, runs end |
| ci_scanner_marker | MCCIRuns_scanner | violation | see section 5 |

**Bounds, and why they are enough.**
*Scanner*: two stack versions, because the payload is shared and a third version can
disturb one only the way a second can; three tags, one of them too long for the
buffer, because a tag is compared with one other at a time; texts of at most four
lexemes hold a string in a string, crossing tags, an unclosed tag and a position call. `MaxLeaked`
caps the leak counter, which only "none" against "some" is asked of.
*Characters*: a dollar, a blank, a letter, a character that is the same in a char, and one that is 0
there; six characters (`MaxDollarText`) hold a string whose closing tag hides behind another dollar, `$$$a$$`. For calls,
six characters (`MaxCallText`) of the seven that the loop tells apart, with `MaxScanned` 3 in the place of 4096, so that an
IN can be just within and just beyond the bound. The theorems are about texts of every length.
*Composition*: nothing is bounded; the 23 grammars are the instance. The run is a tree of
compositions with few states, each of which is a grammar of some thousand rules.
*Lineages*: three and four dialects hold every chain, fork and mixture of the real
ones, whose longest chain (databricks, spark, hive) has three.
*GenerateCache*: two files that change, one of the grammar and one of a parent. Six
environments: edits under a run with kills alone, with inflates alone and with losses alone; with kills and either of
them; and sources that go back between runs with blobs and losses. `MaxVersion` is 2 in the first five, so that a file
can change twice under one run, and 1 in the last, which is enough to come back from. Each environment switches on what the properties
are about: `Forward` holds in the first five, `MayBeCut`, the exception of `FreshWhenSkipped`, in two of these only, `Undisturbed` in the last.
*Pool*: up to four items and three workers, so that workers outnumber items and items
outnumber workers; memory of 0 to 13 GiB for zero, one and two workers by memory.
*CI*: two files with two contents that a job fails on only together, so that two
requests can be good apart and bad together; two pull requests in one concurrency
group and main; two pushes (`MaxPushes`) of one changed file each (`MaxChanged`), besides
any number of merges and reruns. `MayBeLost` is empty in the run: jobs that fail for no reason of
their inputs add outcomes that a failing job already has; the theorems allow them.

**Fairness, and why the code justifies it.**
ParserRuntime: the runtime's loop is a sequential program, so what it began for a
version it finishes (weak fairness of Scan, AcceptToken, and the internal lexer); it comes round to
every live version (strong, because a version cannot be lexed while another one is
being lexed); it ends the parse when all are at the end of the text (strong, for the same
reason). Nothing is assumed about forks and drops.
DescendantsLoop and GeneratePool: a program that can take a step takes one; for the
pool this includes that every child exits in the end, as the system gives no other
guarantee that Promise.all resolves.
CIRuns: the workflow service goes on with each run (weak fairness of the steps of each
ref), but nobody has to push, merge or rerun.

**Deadlock** is checked for the runs of MCParserRuntime, where a parse can always
begin again, with `EndParse`, and for ScannerLexemes, which may stop with an answer only. The loop, the pool, the cache, the selection, the composition and the CI runs end or
run out of edits and pushes, so their configurations switch the check off; the three that
must end say so with a liveness property instead.

## 4. The proofs

All assumptions on constants are the named ASSUMEs of the modules, which TLC evaluates
in the runs.

**ScannerCharacters_proofs** - `StringsAreQuoted` and `StringsAreFound` (together `StringsAreExact`), `CallsAreAnswered`, `LinearTime` and
`ScanAnswersAsLexed`, for texts of any length and any bound on the search. For the first, `QuotedInv` keeps that the first tag was read
and refused as the open one (`FirstTagRead`), that each later tag begins behind it (`TagsApart`), and what
strcmp said of a string that was found. The lemma `SameTagSameText` carries it from bytes to characters:
where no byte is 0 the terminators are the ends, so equal strings are equal buffers, and bytes that tell the
characters apart make equal buffers equal text. For the second, `AdvancesOrSettles` says that each step either
advances or goes on to a part of scan that must; `LinearInv` adds what that leaves of the time.
`StringsAreFound` says what the first leaves open, that scan does not run past a closing tag. `MissedInv` keeps that every
repetition of the tag in the part searched so far is masked; the searched part ends in front of the tag that is being
read (`Searched`), because only its last dollar decides. A repetition can be passed over only if the dollar it begins with
ended another tag: `TagEndsAtDollar` says that a tag that is read from its first dollar is read to the end.
`CallsAreAnswered` relates the local variables of the search to definitions that know nothing of a search: which quote is
open in front of a character (`QuoteAt`) and how many parentheses (`Depth`, by counting). `Passed` says they agree up to the
lookahead, `Resting`, `InQuotes` and `InWord` what holds in the three loops; within a word the invariant remembers where
it began, which the program does not. The bound enters once: the search has taken no more steps than characters (`GivesUpRightly`).
`ScanAnswersAsLexed` needs little more of the state: `LexedInv` keeps that only blanks stand in front of the first tag and that a branch
fits the payload. The work is in the mapping. A tag ends in one place (`OneEnd`), so the lexeme of a dollar is determined (`LexemeIs`);
strcmp compares C strings and nothing behind them (`SameTagSameString`), so two tags close each other just when they are the same lexeme. A string that was found
ends at a lexeme that closes it, and at the first such: an earlier one comes again in the text (`ClosersRecur`) and would be masked by `MissedInv`, which `SetApart` excludes.

**PrivateScanners_proofs** - `PrivateBalanced` and `PrivateOpenFollowsTokens`. `PrivateInv` says
of each live version that its open tag is what all its tokens leave open, and that its tokens pair up,
under the module's assumption on the texts, which ParserRuntime_proofs proves of the union of its tables' texts;
neither part is inductive without the other, as whether an end tag pairs up is decided by what is open
before it. The lemmas about appending a token to a sequence carry the step.

**ParserRuntime_proofs** - `TypeCorrect`, `OwnershipSafe`, `PayloadCurrent`: the
invariant `IInv` adds to the three what holds between two calls: `FoundIsSound`, that in the phase "lexed" the
result is a token that a private scanner would have returned from the saved state (without it
`AcceptToken` could save anything), that the version being lexed is live, and that none is live outside a parse. `Refinement` maps each step to a step of PrivateScanners
or to a stutter: only AcceptToken, Fork, Drop, StartParse, InternalLex and EndParse are visible.
`BalancedInEveryVersion` and `SavedIsOwn` follow from the refinement and the theorems of
PrivateScanners, without another invariant over tokens. `NoLeakWithoutStartTag` has its own invariant:
while the start tag is not offered, no tag is ever open, so deserialize drops nothing. `TokensStayInOrder` needs
no tags at all: the order is inductive with `Invariance`, whose `FoundIsSound` says that a token begins at the lookahead and spans something.
`LexingIsBounded` says that no version is lexed at one place for ever: `StepsLeft` counts five steps for each lexeme in front of a version and for the
end of the text, less those it has taken there. It rests on the same fact, that a token leads on, and on error recovery being entered once per place; that scan always answers
needs that a tag that comes again comes again somewhere first (`FirstCloser`).

**Decide_proofs** - of the loop, `ResultIsLeast` and `WalksAgree`; of decide, `LoopDecidesSelected`, `EveryReaderIsSelected`,
`EveryReadIsFingerprinted`, `NoneWithoutCause` and `SelectionCovers`; for any number of dialects, any lineage without
circles and any changed files. The invariant of the loop: the set is contained in every closed superset of the seed, and within a
pass that has not grown, the entries already visited are closed; hence the result is the least closed set. `Reach`, the
seed with all that has an ancestor in it, is closed (`ReachIsClosed`, one step up the chain) and within every closed set (`ReachIsLeast`,
induction over the chain), so the loop, the walk up and the rounds of Lineage (`Rounds`) come to one set. The recursive functions of Lineage are
unfolded with `Iteration`, and induction over numbers is the lemma `Induction`: the provers take no predicate as a
parameter, so it is about a set of numbers and rests on finite sets being well-founded under inclusion.
What is selected and fingerprinted then follows file class by file class.
`LoopIsBounded` gives the loop a variant, `Remaining`: the dialects not in the set yet, and one more while the set has grown, each worth a pass,
then the entries left. It decreases with each step and is at most the square of the number of grammars when the loop begins.

**GenerateCache_proofs** - `TypeCorrect` holds without any assumption. `SkipsAreFresh` takes two that the code relies on:
`Forward`, that sources do not go back and artifacts are not both lost and inflated, and `Covers`, that
every file that may be edited and that a grammar loads is in its hash. Its invariant says of each
grammar: the marker is never newer than the sources or than the hash of the run that will replace it
(`MarkerBehind`); what a run has read lies between its hash and now (`RunInOrder`); what it has written
is what it read, or was lost, inflated or cut short; and where the marker equals the present hash, every artifact
that exists is of the present versions, or cut short. The first parts are needed because a marker written after an edit must never equal the new hash.
That nothing is cut short outside `MayBeCut` has parts of its own: a file is whole unless it is the one being written
(`WholeUnlessOpen`), where runs are not killed; and under a marker that equals the present hash all files are whole
(`WholeUnderMarker`), where nothing is lost or inflated, so that a run begins only after the marker has become false.
The exception is real: `generate.js:120` asks only whether a file exists, so a file that was lost under a marker that
matches, and whose second write was killed, is skipped on.
Both assumptions are necessary: the hazards at `generate.js:121`, `:120` and `:94` are their
negations, and for the last one the run cache_base_entry shows the violation.
`GrammarJsonIsTheirs` takes the opposite world, `Undisturbed`: sources may go back and artifacts get lost and inflated,
but runs end by themselves over sources that hold still. No blob has a grammar.json, so one that
exists was written by the run that wrote the marker.

**GrammarComposition_proofs** - for any tree of grammars and any layers. `TypeCorrect`; `LiveIsLeast`, that the rules found live are contained in
every set closed under reference. `SourcesAreHashed` takes `HashedAlongTheTree`, that a dialect's hash covers what its parent's
covers but for the root's `grammar.js`, and `RootEntryKnown`, that the rules of this file are those of `Unhashed`; then these are the only
rules that are in no hashed file. `CopiesYield` takes `CopiesComeFirst`, that no copy is spread behind a layer of the dialect's own that shares
a rule with it, and rests on the lemma that a rule is that of the last layer that defines it or the parent's. All three assumptions
hold of the 23 grammars (ClickHouse spreads one layer of its own before the copies, with
which it shares no rule).

**GeneratePool_proofs** - `OneChildEach`, `HonestExit`, `MemoryIsEnough`. The invariant relates index, workers and children: items up to
the index were taken, each running item has exactly the worker that holds it,
a closed item that failed has cleared the flag. `MemoryIsEnough` counts with it: running items map one to one to
waiting workers, so there are no more of them than the limit, whose division by 6 GiB is then undone.
`PoolIsBounded`: each step, of whichever worker or child, uses up one of three steps per item and one per worker and one for the report, and until the script has
reported, one can be taken.

**CIRuns_proofs** - `MarkersCanBeTrusted`, `MainIsGood`, for any lineage, files,
number of pull requests, grouping and jobs that may be lost. From the assumption
`Covered`: each job's fingerprint covers what it reads, and who reads a changed file is selected. The invariant: markers are sound; main, and the base of each pull
request, are good unless main was bypassed; and in each run a job that would fail is
still to do, or has failed. The last part is what lets a run leave out jobs: a job that was not selected
reads nothing that differs from a good base, and one dropped by a marker passes because markers are sound.
`GoodOutsideTheGaps` discharges `Covered`: it follows from `SelectionCovers`, brought in by an instance of Decide_proofs, where no job
reads one of the changing files by a way that the selection does not follow or the fingerprint does not cover (`GapsAside`).
`RunsAreBounded` needs no `Covered`: a run that is busy can go on, because the bindings job waits for grammar jobs of its own run and none of them waits for anything; and each
step of it decreases what it has left, which no step of another ref raises unless it starts the run anew.
MCCIRuns assumes `Covered` and `GapsAside` of its instance and TLC evaluates them there; ci_scanner_marker is an instance beyond the gaps.

TLAPS cannot prove liveness under fairness or ENABLED; those properties (`EveryParseEnds`, `Terminates`, `Ends`, `EveryRunEnds`) are model-checked.
`LexingIsBounded`, `LoopIsBounded`, `PoolIsBounded` and `RunsAreBounded` prove what these rest on for every value of the constants: until the end is reached the condition of some
step holds, and no more than a stated number of steps can be taken; of a parse, by each version, as versions may be split from one another without limit.
What is left to TLC is that fairness turns this into an end.

## 5. Disagreements found

Four runs expect a violation; each shows a place where the program and what the
repository says of it differ.

* **scanner_databricks**, `DollarStringsHandled`. `databricks/src/scanner.c` says that the base
  scanner handles `$$...$$` for Python and Scala bodies. The dialect declares three
  externals, so in error recovery the scanner reads the next row of the table at index 3, takes the start
  tag for valid and answers with a token that the grammar does not have. A whole string is
  never returned.
* **cache_base_entry**, `FreshWhenSkipped`. `generate.js:81` says a child regenerates when
  any file of a parent changes; the root `grammar.js`, which every dialect imports, is
  in no dialect's hash. Of the rules these are `program`, `comment` and `marginalia` (`MCUnhashed`), which `SourcesHashed` excepts,
  besides the extras and the word token.
* **ci_scanner_marker**, `MarkersSound`. `ci.yml:28` says jobs are skipped when their
  inputs are byte-identical to a build that passed. The bindings fingerprint has no
  `scanner.c`, which every binding compiles.
* **composition_words**, `EveryLongerWordLexed`. `docs/changelog.md:219` says that words declared with `token(prec(1, ...))`
  used to beat longer words with the same beginning, such as MATCHED behind MATCH, "audited and fixed across
  every dialect". In 13 dialects 17 pairs are left, MATCHED behind MATCH in mysql (`mysql/grammar.js:523`), mariadb and sqlite among
  them. `LongerWordsLexed`, which passes, allows these and no others.

Smaller gaps that are not worth a run of their own are named where they bite, so that the
properties say exactly what holds: `NotFollowed` and `NotCovered` in CISelection (`coverage.py` and
`ci.yml` select no dialect; `ci.yml`, with the tree-sitter version in it, is in no fingerprint),
`NeedlessCauses` in Decide (the inventory of a parent rebuilds its descendants), `env = 0` in `FitsMemory`
(a user's setting is not bounded by the memory), `NoDuplicates` in `HeldOnce`.

## 6. What is only checked, and what is not modelled

Only model-checked: liveness, and the properties of the composition that are facts about
these 23 grammars rather than about composing (`OwnRulesReached`, `AlternativesKept`, `EclipsedRulesKept`, `ConflictsInSync`,
`LongerWordsLexed`): a theorem about them would be the evaluation that TLC does. Every other invariant of a run is also a theorem.

Not modelled, and why:

* what a rule accepts: the combinators, associativity, the LR construction and which conflicts are needed are
  tree-sitter's and take minutes per grammar; patterns of tokens other than keywords, which are not
  compared for common beginnings;
* **inventory and coverage**: what a probe yields depends on the parsers and corpora, so a model would say what the
  gate compares and no more; **highlight bundles**, a pure filter over query text; **release**, scripts that edit versions
  and upload, without retry; **bindings**, generated from templates; **audits, benchmarks and experiments**, which keep no state;
* inflate's and the bindings' further copies of the blobs (`check-blobs.js`, `apply-ci-artifacts.js`, `setup.py`, `build.rs`);
* which rows of the table of valid tokens a parse state has is left open, which
  allows more than any grammar does;
* single-marker eviction from the cache (it makes runs do more), partial
  reruns (a job that passed need not run again; what is to do is what failed), the
  release branches (a second main), max-parallel (order only);
* compressions that are interrupted, and clocks that go back: `newer` stands for the comparison of times;
* a child that cannot be spawned at all: `generate-all.js:69` listens for `close` only, so the error event of a spawn ends the script;
* keywords that accept several spellings: words are compared by the names of their rules, so that the REGEXP
  under `keyword_rlike` is compared with nothing;
* formatting of reports and logs; generated bindings; one-shot measurements.

## 7. Plan

Done, in this order: ScannerTables, ExternalScanner, ParserRuntime and PrivateScanners with
their refinement; Lineage and DescendantsLoop; GenerateCache; GeneratePool; CISelection, Decide and CIRuns;
GrammarHelpers, the rule modules and GrammarComposition; ScannerCharacters, and ScannerLexemes, which joins it to ExternalScanner;
the proofs named above.

What would come next:

1. **Inventory** (`tools/inventory.py --check`, a refresh, the commit) as a ratchet: a set of probes that parse and
   never shrinks, except where the measure or a probe's text changes.
2. **Tokens** in GrammarComposition beside keywords: operators and literals that begin one another.
3. **HighlightBundle**: the filter of `bundle-highlights.js` against the node types of GrammarComposition's live rules.
4. **Blobs**: the copies of `setup.py` and `build.rs` and the cache that `pages.yml` restores, composed with GenerateCache.
