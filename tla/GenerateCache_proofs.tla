------------------------ MODULE GenerateCache_proofs ------------------------
(***************************************************************************)
(* The hash cache can be trusted, for every lineage and every number of    *)
(* versions, when sources only move forward, nothing that is lost comes    *)
(* back from a blob, and the hash covers each file that may change.  And   *)
(* grammar.json can be trusted when no run is killed or works on sources   *)
(* that change.                                                            *)
(***************************************************************************)
EXTENDS GenerateCache, TLAPS

Covers  == \A g \in Targets : Composed(g) \cap Edited \subseteq Hashed(g)

AtMost(g, h, k) == \A f \in Hashed(g) : h[f] <= k[f]

\* A marker is never ahead of the sources, nor of the run that will replace it.
MarkerBehind(g) ==
    marker[g] # None => /\ AtMost(g, marker[g], version)
                        /\ Running(g) => AtMost(g, marker[g], run[g].hash)

\* A run hashed the sources no later than now, and read them after that.
RunInOrder(g) ==
    /\ Running(g) => /\ run[g].hash \in HashOf(g)
                     /\ AtMost(g, run[g].hash, version)
    /\ run[g].pc = "writing" =>
         /\ run[g].read \in Snapshot(g)
         /\ \A f \in Composed(g) :
              /\ run[g].read[f] <= version[f]
              /\ f \in Hashed(g) => run[g].hash[f] <= run[g].read[f]
              /\ f \notin Edited => run[g].read[f] = version[f]

\* What a file may be beside what was written to it.
Cut == IF MayBeCut THEN {CutShort} ELSE {}

\* What a run has written is there, or was lost, or cut short by an inflate.
WrittenIsRead(g) ==
    run[g].pc = "writing" =>
        \A a \in Artifacts \ (run[g].todo \cup run[g].open) :
            out[g][a] \in {None, run[g].read} \cup Cut

\* Under a marker that agrees with the sources nothing is stale.
NothingStale(g) ==
    marker[g] = Hash(g) => \A a \in Artifacts : out[g][a] \in {None, Result(g), CutShort}

Sound(g) == MarkerBehind(g) /\ RunInOrder(g) /\ WrittenIsRead(g) /\ NothingStale(g)

\* The variables that are kept per grammar are functions on the targets.
Shape ==
    /\ DOMAIN marker = Targets /\ DOMAIN out = Targets /\ DOMAIN run = Targets
    /\ marker = [g \in Targets |-> marker[g]]
    /\ out = [g \in Targets |-> out[g]]
    /\ run = [g \in Targets |-> run[g]]
    /\ blob = [g \in Targets |-> blob[g]]
    /\ newer = [g \in Targets |-> newer[g]]

\* What a run holds once it has hashed, and once it has composed.
RunTyped(g) == /\ Running(g) => run[g].hash \in HashOf(g)
               /\ run[g].pc = "writing" => run[g].read \in Snapshot(g)
               /\ run[g].pc # "writing" => run[g].open = {}

Typed == Shape /\ TypeOK /\ \A g \in Targets : RunTyped(g)

\* While nothing gets lost, an artifact is missing only before a run has
\* written it, and a blob that is newer is a copy of its artifact.
Follow(g) ==
    /\ marker[g] # None => \A a \in Artifacts : out[g][a] # None
    /\ run[g].pc = "writing" => \A a \in Artifacts \ run[g].todo : out[g][a] # None
    /\ \A a \in InBlobs : newer[g][a] => out[g][a] \in {None, blob[g][a]}
    /\ \A a \in InBlobs : out[g][a] = None => blob[g][a] # CutShort

BlobsFollow == "lose" \notin environment => \A g \in Targets : Follow(g)

AllSound == \A g \in Targets : Sound(g)

\* While no run is killed, a file is cut short only while a run writes it.
WholeUnlessOpen(g) ==
    "die" \notin environment =>
        \A a \in Artifacts : out[g][a] = CutShort => a \in run[g].open

\* While nothing is lost or inflated, a run has a reason to be busy, and under a
\* marker that agrees with the sources no file is cut short.
WholeUnderMarker(g) ==
    environment \cap {"lose", "inflate"} = {} =>
        /\ Running(g) => marker[g] # Hash(g)
        /\ marker[g] = Hash(g) => \A a \in Artifacts : out[g][a] # CutShort

AllWhole == \A g \in Targets : WholeUnlessOpen(g) /\ WholeUnderMarker(g)

IInv == Typed /\ BlobsFollow /\ (Forward => AllSound /\ AllWhole)

LEMMA FilesOf ==
    ASSUME NEW g \in Targets
    PROVE  Hashed(g) \subseteq Files /\ Composed(g) \subseteq Files
  BY GenerateAssumption DEF Hashed, Composed, Files, Grammars, Ancestors

LEMMA HashTypes ==
    ASSUME TypeOK, NEW g \in Targets
    PROVE  Hash(g) \in HashOf(g) /\ Result(g) \in Snapshot(g)
  BY FilesOf DEF TypeOK, Hash, Result, HashOf, Snapshot

(***************************************************************************)
(* A run whose hash agrees with the sources has read them as they are: no  *)
(* file of the hash has moved since, and no other file it read can.        *)
(***************************************************************************)
LEMMA ReadIsResult ==
    ASSUME Covers, TypeOK, NEW g \in Targets, RunInOrder(g),
           run[g].pc = "writing", run[g].hash = Hash(g)
    PROVE  run[g].read = Result(g)
<1>1. ASSUME NEW f \in Composed(g) PROVE run[g].read[f] = version[f]
  <2>0. /\ f \in Files /\ version[f] \in Nat /\ run[g].read[f] \in Nat
        /\ run[g].read[f] <= version[f]
        /\ f \in Hashed(g) => run[g].hash[f] <= run[g].read[f]
        /\ f \notin Edited => run[g].read[f] = version[f]
    BY FilesOf, GenerateAssumption DEF RunInOrder, TypeOK, Snapshot
  <2>1. CASE f \notin Edited
    BY <2>0, <2>1
  <2>2. CASE f \in Edited
    <3>1. f \in Hashed(g)
      BY <2>2 DEF Covers
    <3>2. run[g].hash[f] = version[f]
      BY <3>1 DEF Hash
    <3> QED
      BY <2>0, <3>1, <3>2
  <2> QED
    BY <2>1, <2>2
<1>2. run[g].read \in Snapshot(g)
  BY DEF RunInOrder
<1> QED
  BY <1>1, <1>2 DEF Snapshot, Result

\* A marker that agrees with the sources agrees with the hash of a later run.
LEMMA HashIsNow ==
    ASSUME TypeOK, NEW g \in Targets, MarkerBehind(g), RunInOrder(g),
           Running(g), marker[g] = Hash(g)
    PROVE  run[g].hash = Hash(g)
<1>1. marker[g] # None
  BY HashTypes, NoneAssumption, GenerateAssumption
<1>2. ASSUME NEW f \in Hashed(g) PROVE run[g].hash[f] = version[f]
  <2>1. /\ version[f] \in Nat /\ run[g].hash[f] \in Nat
        /\ marker[g][f] = version[f]
        /\ marker[g][f] <= run[g].hash[f] /\ run[g].hash[f] <= version[f]
    BY <1>1, FilesOf DEF TypeOK, MarkerBehind, RunInOrder, AtMost, HashOf, Hash
  <2> QED
    BY <2>1
<1>3. run[g].hash \in HashOf(g)
  BY DEF RunInOrder
<1> QED
  BY <1>2, <1>3 DEF HashOf, Hash

LEMMA InitIInv == Init => IInv
<1> SUFFICES ASSUME Init PROVE IInv
  OBVIOUS
<1>1. TypeOK
  <2>1. version \in [Files -> Nat]
    BY GenerateAssumption DEF Init
  <2>2. ASSUME NEW g \in Targets PROVE Result(g) \in Snapshot(g)
    BY <2>1, FilesOf DEF Result, Snapshot
  <2> QED
    BY <2>1, <2>2 DEF Init, TypeOK, RunRecord, Idle
<1>2. ASSUME NEW g \in Targets
      PROVE  Sound(g) /\ RunTyped(g)
  <2>1. marker[g] = None /\ run[g].pc = "idle" /\ \A a \in Artifacts : out[g][a] = None
    BY DEF Init, Idle
  <2>2. run[g].open = {}
    BY DEF Init, Idle
  <2> QED
    BY <2>1, <2>2 DEF Sound, MarkerBehind, RunInOrder, WrittenIsRead, NothingStale, Running,
       RunTyped
<1>3. Shape
  BY DEF Init, Shape
<1>4. BlobsFollow
  <2>1. \A g \in Targets, a \in InBlobs : blob[g][a] \in Snapshot(g)
    BY <1>1, HashTypes DEF Init
  <2> QED
    BY <2>1, CutShortAssumption, GenerateAssumption
    DEF Init, BlobsFollow, Follow, Idle, InBlobs, Artifacts
<1>5. AllWhole
  BY CutShortAssumption DEF Init, AllWhole, WholeUnlessOpen, WholeUnderMarker, Idle, Running
<1> QED
  BY <1>1, <1>2, <1>3, <1>4, <1>5 DEF IInv, Typed, AllSound

-----------------------------------------------------------------------------
\* The types, in every environment.

LEMMA TypedStep ==
    ASSUME Typed, [Next]_vars PROVE Typed'
<1> USE DEF Typed
<1>1. ASSUME NEW g \in Targets, Start(g), UNCHANGED environment PROVE Typed'
  <2>1. /\ run' = [run EXCEPT ![g] = [Idle EXCEPT !.pc = "hashed", !.hash = Hash(g)]]
        /\ UNCHANGED <<version, marker, out, blob, newer>>
        /\ Hash(g) \in HashOf(g)
    BY <1>1, HashTypes DEF Start
  <2>2. /\ run'[g].pc = "hashed" /\ run'[g].hash = Hash(g) /\ run'[g].open = {}
        /\ run'[g] \in RunRecord(g)
        /\ \A h \in Targets \ {g} : run'[h] = run[h]
    BY <2>1 DEF Shape, Idle, RunRecord
  <2>3. Shape'
    BY <2>1 DEF Shape
  <2>4. TypeOK'
    BY <1>1, <2>1, <2>2 DEF TypeOK, HashOf, Snapshot, RunRecord
  <2>5. \A h \in Targets : RunTyped(h)'
    BY <2>1, <2>2 DEF RunTyped, Running
  <2> QED
    BY <2>3, <2>4, <2>5
<1>2. ASSUME NEW g \in Targets, Compose(g), UNCHANGED environment PROVE Typed'
  <2>1. /\ run' = [run EXCEPT ![g].pc = "writing", ![g].read = Result(g),
                              ![g].todo = Artifacts]
        /\ UNCHANGED <<version, marker, out, blob, newer>>
        /\ Result(g) \in Snapshot(g) /\ run[g].pc = "hashed"
    BY <1>2, HashTypes DEF Compose
  <2>2. /\ run'[g].pc = "writing" /\ run'[g].hash = run[g].hash
        /\ run'[g].read = Result(g)
        /\ run'[g] \in RunRecord(g)
        /\ \A h \in Targets \ {g} : run'[h] = run[h]
    <3>1. /\ run'[g] = [run[g] EXCEPT !.pc = "writing", !.read = Result(g), !.todo = Artifacts]
          /\ \A h \in Targets \ {g} : run'[h] = run[h]
      BY <2>1 DEF Shape
    <3>2. run[g] \in RunRecord(g)
      BY DEF TypeOK
    <3>3. Result(g) \in Snapshot(g) /\ Artifacts \in SUBSET Artifacts
      BY <2>1
    <3>4. /\ run'[g] \in RunRecord(g) /\ run'[g].pc = "writing"
          /\ run'[g].hash = run[g].hash /\ run'[g].read = Result(g)
      <4> DEFINE r == run[g]
                 c == run'[g]
                 read == Result(g)
      <4>1. /\ r \in RunRecord(g) /\ read \in Snapshot(g)
            /\ c = [r EXCEPT !.pc = "writing", !.read = read, !.todo = Artifacts]
        BY <3>1, <3>2, <3>3
      <4> HIDE DEF r, c, read
      <4> DEFINE q == [r EXCEPT !.pc = "writing"]
      <4>2. q \in RunRecord(g) /\ q.pc = "writing" /\ q.hash = r.hash
        BY <4>1 DEF RunRecord
      <4>3. c = [q EXCEPT !.read = read, !.todo = Artifacts]
        BY <4>1
      <4> HIDE DEF q
      <4>4. c \in RunRecord(g) /\ c.pc = q.pc /\ c.hash = q.hash /\ c.read = read
        BY <4>1, <4>2, <4>3 DEF RunRecord
      <4> QED
        BY <4>2, <4>4 DEF r, c, read
    <3> QED
      BY <3>1, <3>4
  <2>3. Shape'
    BY <2>1 DEF Shape
  <2>4. TypeOK'
    BY <1>2, <2>1, <2>2 DEF TypeOK, HashOf, Snapshot, RunRecord
  <2>5. \A h \in Targets : RunTyped(h)'
    BY <2>1, <2>2 DEF RunTyped, Running
  <2> QED
    BY <2>3, <2>4, <2>5
<1>3. ASSUME NEW g \in Targets, NEW a \in Artifacts,
             BeginWrite(g, a) \/ EndWrite(g, a), UNCHANGED environment
      PROVE  Typed'
  <2>1. PICK todo \in SUBSET Artifacts, open \in SUBSET Artifacts,
             file \in Snapshot(g) \cup {None, CutShort} :
          /\ run' = [run EXCEPT ![g].todo = todo, ![g].open = open]
          /\ out' = [out EXCEPT ![g][a] = file]
          /\ UNCHANGED <<version, marker, blob>>
          /\ newer' = IF a \in InBlobs THEN [newer EXCEPT ![g][a] = FALSE] ELSE newer
          /\ run[g].pc = "writing"
    <3>1. run[g] \in RunRecord(g) /\ g \in DOMAIN run
      BY DEF TypeOK, Shape
    <3>2. CASE BeginWrite(g, a)
      <4>1. run' = [run EXCEPT ![g].todo = run[g].todo \ {a}, ![g].open = {a}]
        BY <3>1, <3>2 DEF BeginWrite
      <4>2. run[g].todo \ {a} \in SUBSET Artifacts /\ {a} \in SUBSET Artifacts
        BY <3>1 DEF RunRecord
      <4> QED
        BY <3>2, <4>1, <4>2 DEF BeginWrite
    <3>3. CASE EndWrite(g, a)
      <4>1. run[g].pc = "writing" /\ run[g].read \in Snapshot(g)
        BY <3>3 DEF EndWrite, RunTyped
      <4>2. run' = [run EXCEPT ![g].todo = run[g].todo, ![g].open = run[g].open \ {a}]
        BY <3>1, <3>3 DEF EndWrite, RunRecord, Shape
      <4>3. run[g].todo \in SUBSET Artifacts /\ run[g].open \ {a} \in SUBSET Artifacts
        BY <3>1 DEF RunRecord
      <4> QED
        BY <3>3, <4>1, <4>2, <4>3 DEF EndWrite
    <3> QED
      BY <1>3, <3>2, <3>3
  <2>2. /\ run'[g].pc = "writing" /\ run'[g].hash = run[g].hash
        /\ run'[g].read = run[g].read
        /\ run'[g] \in RunRecord(g)
        /\ \A h \in Targets \ {g} : run'[h] = run[h] /\ out'[h] = out[h]
        /\ out'[g] = [out[g] EXCEPT ![a] = file]
    <3>1. /\ run'[g] = [run[g] EXCEPT !.todo = todo, !.open = open]
          /\ \A h \in Targets \ {g} : run'[h] = run[h] /\ out'[h] = out[h]
          /\ out'[g] = [out[g] EXCEPT ![a] = file]
      BY <2>1 DEF Shape
    <3>2. run[g] \in RunRecord(g)
      BY DEF TypeOK
    <3>3. /\ run'[g] \in RunRecord(g) /\ run'[g].pc = run[g].pc
          /\ run'[g].hash = run[g].hash /\ run'[g].read = run[g].read
      <4> DEFINE r == run[g]
                 w == run'[g]
      <4>1. r \in RunRecord(g) /\ w = [r EXCEPT !.todo = todo, !.open = open]
        BY <3>1, <3>2
      <4> HIDE DEF r, w
      <4>2. /\ w \in RunRecord(g) /\ w.pc = r.pc
            /\ w.hash = r.hash /\ w.read = r.read
        BY <4>1 DEF RunRecord
      <4> QED
        BY <4>2 DEF r, w
    <3> QED
      BY <2>1, <3>1, <3>3
  <2>3. Shape'
    BY <2>1 DEF Shape
  <2>4. TypeOK'
    <3>1. \A h \in Targets : newer'[h] \in [InBlobs -> BOOLEAN]
      <4>1. CASE a \in InBlobs
        <5>1. newer' = [newer EXCEPT ![g][a] = FALSE]
          BY <2>1, <4>1
        <5>2. /\ newer'[g] = [newer[g] EXCEPT ![a] = FALSE]
              /\ \A h \in Targets \ {g} : newer'[h] = newer[h]
          BY <5>1 DEF Shape
        <5>3. \A h \in Targets : newer[h] \in [InBlobs -> BOOLEAN]
          BY DEF TypeOK
        <5>4. newer'[g] \in [InBlobs -> BOOLEAN]
          BY <5>2, <5>3
        <5> QED
          BY <5>2, <5>3, <5>4
      <4>2. CASE a \notin InBlobs
        BY <2>1, <4>2 DEF TypeOK
      <4> QED
        BY <4>1, <4>2
    <3>2. \A h \in Targets : out'[h] \in [Artifacts -> Snapshot(h) \cup {None, CutShort}]
      BY <2>1, <2>2 DEF TypeOK
    <3>3. \A h \in Targets : run'[h] \in RunRecord(h)
      BY <2>2 DEF TypeOK
    <3> QED
      BY <1>3, <2>1, <3>1, <3>2, <3>3 DEF TypeOK, HashOf, Snapshot, RunRecord
  <2>5. \A h \in Targets : RunTyped(h)'
    BY <2>1, <2>2 DEF RunTyped, Running
  <2> QED
    BY <2>3, <2>4, <2>5
<1>4. ASSUME NEW g \in Targets, Finish(g), UNCHANGED environment PROVE Typed'
  <2>1. /\ run' = [run EXCEPT ![g] = Idle]
        /\ marker' = [marker EXCEPT ![g] = run[g].hash]
        /\ UNCHANGED <<version, out, blob, newer>>
        /\ run[g].hash \in HashOf(g)
    BY <1>4 DEF Finish, RunTyped, Running
  <2>2. /\ run'[g] = Idle /\ marker'[g] = run[g].hash
        /\ \A h \in Targets \ {g} : run'[h] = run[h] /\ marker'[h] = marker[h]
    BY <2>1 DEF Shape
  <2>3. Shape'
    BY <2>1 DEF Shape
  <2>4. TypeOK'
    BY <1>4, <2>1, <2>2 DEF TypeOK, HashOf, Snapshot, RunRecord, Idle
  <2>5. \A h \in Targets : RunTyped(h)'
    BY <2>1, <2>2 DEF RunTyped, Running, Idle
  <2> QED
    BY <2>3, <2>4, <2>5
<1>5. ASSUME NEW g \in Targets, Die(g), UNCHANGED environment PROVE Typed'
  <2>1. /\ run' = [run EXCEPT ![g] = Idle]
        /\ UNCHANGED <<version, marker, out, blob, newer>>
    BY <1>5 DEF Die
  <2>2. run'[g] = Idle /\ \A h \in Targets \ {g} : run'[h] = run[h]
    BY <2>1 DEF Shape
  <2>3. Shape'
    BY <2>1 DEF Shape
  <2>4. TypeOK'
    BY <1>5, <2>1, <2>2 DEF TypeOK, HashOf, Snapshot, RunRecord, Idle
  <2>5. \A h \in Targets : RunTyped(h)'
    BY <2>1, <2>2 DEF RunTyped, Running, Idle
  <2> QED
    BY <2>3, <2>4, <2>5
<1>6. ASSUME NEW f \in Edited, Edit(f) \/ GoBack(f), UNCHANGED environment PROVE Typed'
  <2>1. /\ version' \in [Files -> Nat]
        /\ UNCHANGED <<marker, out, run, blob, newer>>
    <3>1. f \in Files /\ version \in [Files -> Nat]
      BY GenerateAssumption DEF TypeOK
    <3>2. CASE Edit(f)
      BY <3>1, <3>2 DEF Edit
    <3>3. CASE GoBack(f)
      <4>1. version[f] \in Nat /\ version[f] > 0
        BY <3>1, <3>3 DEF GoBack
      <4>2. version[f] - 1 \in Nat
        BY <4>1
      <4> QED
        BY <3>1, <3>3, <4>2 DEF GoBack
    <3> QED
      BY <1>6, <3>2, <3>3
  <2>2. Shape'
    BY <2>1 DEF Shape
  <2>3. TypeOK'
    BY <1>6, <2>1 DEF TypeOK, HashOf, Snapshot, RunRecord
  <2>4. \A h \in Targets : RunTyped(h)'
    BY <2>1 DEF RunTyped, Running
  <2> QED
    BY <2>2, <2>3, <2>4
<1>7. ASSUME NEW g \in Targets, NEW a \in Artifacts, Lose(g, a), UNCHANGED environment
      PROVE  Typed'
  <2>1. /\ out' = [out EXCEPT ![g][a] = None]
        /\ run' = [run EXCEPT ![g].open = @ \ {a}]
        /\ UNCHANGED <<version, marker, blob, newer>>
    BY <1>7 DEF Lose
  <2>2. /\ out'[g] = [out[g] EXCEPT ![a] = None]
        /\ run'[g].pc = run[g].pc /\ run'[g].hash = run[g].hash
        /\ run'[g].read = run[g].read /\ run'[g].open = run[g].open \ {a}
        /\ run'[g] \in RunRecord(g)
        /\ \A h \in Targets \ {g} : out'[h] = out[h] /\ run'[h] = run[h]
    BY <2>1 DEF Shape, TypeOK, RunRecord
  <2>3. Shape'
    BY <2>1 DEF Shape
  <2>4. TypeOK'
    BY <1>7, <2>1, <2>2 DEF TypeOK, HashOf, Snapshot, RunRecord
  <2>5. \A h \in Targets : RunTyped(h)'
    BY <2>1, <2>2 DEF RunTyped, Running
  <2> QED
    BY <2>3, <2>4, <2>5
<1>8. ASSUME NEW g \in Targets, Compress(g), UNCHANGED environment PROVE Typed'
  <2>1. /\ blob' = [blob EXCEPT ![g] =
                      [a \in InBlobs |-> IF out[g][a] = None THEN @[a] ELSE out[g][a]]]
        /\ newer' = [newer EXCEPT ![g] = [a \in InBlobs |-> out[g][a] # None \/ @[a]]]
        /\ UNCHANGED <<version, marker, out, run>>
    BY <1>8 DEF Compress
  <2>2. Shape'
    BY <2>1 DEF Shape
  <2>3. ASSUME NEW h \in Targets
        PROVE  /\ blob'[h] \in [InBlobs -> Snapshot(h) \cup {CutShort}]
               /\ newer'[h] \in [InBlobs -> BOOLEAN]
    <3>1. /\ out[h] \in [Artifacts -> Snapshot(h) \cup {None, CutShort}]
          /\ blob[h] \in [InBlobs -> Snapshot(h) \cup {CutShort}]
          /\ newer[h] \in [InBlobs -> BOOLEAN]
          /\ InBlobs \subseteq Artifacts
      BY DEF TypeOK, InBlobs, Artifacts
    <3>2. CASE h = g
      <4>1. blob'[h] = [a \in InBlobs |-> IF out[h][a] = None THEN blob[h][a] ELSE out[h][a]]
        BY <2>1, <3>2 DEF Shape
      <4>2. newer'[h] = [a \in InBlobs |-> out[h][a] # None \/ newer[h][a]]
        BY <2>1, <3>2 DEF Shape
      <4>3. \A a \in InBlobs : (out[h][a] # None \/ newer[h][a]) \in BOOLEAN
        OBVIOUS
      <4> QED
        BY <3>1, <4>1, <4>2, <4>3
    <3>3. CASE h # g
      BY <2>1, <3>1, <3>3 DEF Shape
    <3> QED
      BY <3>2, <3>3
  <2>4. TypeOK'
    BY <1>8, <2>1, <2>3 DEF TypeOK, HashOf, Snapshot, RunRecord
  <2>5. \A h \in Targets : RunTyped(h)'
    BY <2>1 DEF RunTyped, Running
  <2> QED
    BY <2>2, <2>4, <2>5
<1>9. ASSUME NEW g \in Targets, NEW a \in InBlobs,
             Inflate(g, a) \/ InflateCutShort(g, a), UNCHANGED environment
      PROVE  Typed'
  <2>1. PICK file \in Snapshot(g) \cup {CutShort} :
          /\ out' = [out EXCEPT ![g][a] = file]
          /\ newer' = [newer EXCEPT ![g][a] = FALSE]
          /\ UNCHANGED <<version, marker, run, blob>>
    <3>1. blob[g][a] \in Snapshot(g) \cup {CutShort}
      BY DEF TypeOK
    <3> QED
      BY <1>9, <3>1 DEF Inflate, InflateCutShort
  <2>2. /\ out'[g] = [out[g] EXCEPT ![a] = file]
        /\ newer'[g] = [newer[g] EXCEPT ![a] = FALSE]
        /\ \A h \in Targets \ {g} : out'[h] = out[h] /\ newer'[h] = newer[h]
    BY <2>1 DEF Shape, TypeOK
  <2>3. Shape'
    BY <2>1 DEF Shape
  <2>4. TypeOK'
    <3>1. ASSUME NEW h \in Targets
          PROVE  /\ out'[h] \in [Artifacts -> Snapshot(h) \cup {None, CutShort}]
                 /\ newer'[h] \in [InBlobs -> BOOLEAN]
      <4>1. /\ out[h] \in [Artifacts -> Snapshot(h) \cup {None, CutShort}]
            /\ newer[h] \in [InBlobs -> BOOLEAN]
        BY DEF TypeOK
      <4>2. CASE h = g
        <5>1. out'[h] = [out[h] EXCEPT ![a] = file]
          BY <2>2, <4>2
        <5>2. newer'[h] = [newer[h] EXCEPT ![a] = FALSE]
          BY <2>2, <4>2
        <5>3. file \in Snapshot(h) \cup {CutShort}
          BY <2>1, <4>2
        <5> QED
          BY <4>1, <5>1, <5>2, <5>3
      <4>3. CASE h # g
        BY <2>2, <4>1, <4>3
      <4> QED
        BY <4>2, <4>3
    <3> QED
      BY <1>9, <2>1, <3>1 DEF TypeOK, HashOf, Snapshot, RunRecord
  <2>5. \A h \in Targets : RunTyped(h)'
    BY <2>1 DEF RunTyped, Running
  <2> QED
    BY <2>3, <2>4, <2>5
<1>10. ASSUME UNCHANGED vars PROVE Typed'
  <2>1. UNCHANGED <<version, marker, out, run, blob, newer, environment>>
    BY <1>10 DEF vars
  <2> QED
    BY <2>1 DEF Shape, TypeOK, RunTyped, Running, HashOf, Snapshot, RunRecord
<1> QED
  BY <1>1, <1>2, <1>3, <1>4, <1>5, <1>6, <1>7, <1>8, <1>9, <1>10 DEF Next, Step

-----------------------------------------------------------------------------
\* The blobs, while nothing gets lost.

LEMMA FollowStep ==
    ASSUME Typed, "lose" \notin environment, NEW h \in Targets, Follow(h), Step
    PROVE  Follow(h)'
<1>0. /\ out[h] \in [Artifacts -> Snapshot(h) \cup {None, CutShort}]
      /\ blob[h] \in [InBlobs -> Snapshot(h) \cup {CutShort}]
      /\ newer[h] \in [InBlobs -> BOOLEAN]
      /\ InBlobs \subseteq Artifacts /\ None \notin Snapshot(h) \cup {CutShort}
  BY NoneAssumption, CutShortAssumption, GenerateAssumption
  DEF Typed, TypeOK, InBlobs, Artifacts
<1>1. ASSUME NEW g \in Targets, Start(g) \/ Die(g) PROVE Follow(h)'
  <2>1. UNCHANGED <<marker, out, blob, newer>>
    BY <1>1 DEF Start, Die
  <2>2. run'[h] = run[h] \/ run'[h].pc # "writing"
    <3>1. CASE Start(g)
      BY <3>1 DEF Start, Idle, Typed, Shape
    <3>2. CASE Die(g)
      BY <3>2 DEF Die, Idle, Typed, Shape
    <3> QED
      BY <1>1, <3>1, <3>2
  <2> QED
    BY <2>1, <2>2 DEF Follow
<1>2. ASSUME NEW g \in Targets, Compose(g) PROVE Follow(h)'
  <2>1. UNCHANGED <<marker, out, blob, newer>>
    BY <1>2 DEF Compose
  <2>2. run'[h] = run[h] \/ run'[h].todo = Artifacts
    BY <1>2 DEF Compose, Typed, Shape, TypeOK, RunRecord
  <2> QED
    BY <2>1, <2>2 DEF Follow
<1>3. ASSUME NEW g \in Targets, NEW a \in Artifacts, BeginWrite(g, a) \/ EndWrite(g, a)
      PROVE  Follow(h)'
  <2>1. CASE h # g
    <3>1. /\ marker' = marker /\ blob' = blob
          /\ run'[h] = run[h] /\ out'[h] = out[h] /\ newer'[h] = newer[h]
      BY <1>3, <2>1 DEF BeginWrite, EndWrite, Typed, Shape
    <3> QED
      BY <3>1 DEF Follow
  <2>2. CASE h = g
    <3>1. PICK file \in Snapshot(h) \cup {CutShort} :
            /\ run[h].todo \ {a} \subseteq run'[h].todo
            /\ out'[h] = [out[h] EXCEPT ![a] = file]
      <4>1. CASE BeginWrite(g, a)
        BY <2>2, <4>1 DEF BeginWrite, Typed, Shape, TypeOK, RunRecord
      <4>2. CASE EndWrite(g, a)
        <5>1. run[h].read \in Snapshot(h)
          BY <2>2, <4>2 DEF EndWrite, Typed, RunTyped
        <5> QED
          BY <2>2, <4>2, <5>1 DEF EndWrite, Typed, Shape, TypeOK, RunRecord
      <4> QED
        BY <1>3, <4>1, <4>2
    <3>2. marker' = marker /\ blob' = blob /\ run[h].pc = "writing"
      <4>1. CASE EndWrite(g, a)
        BY <2>2, <4>1 DEF EndWrite, Typed, RunTyped
      <4> QED
        BY <1>3, <2>2, <4>1 DEF BeginWrite
    <3>3. \A b \in InBlobs : newer'[h][b] => b # a /\ newer[h][b]
      BY <1>0, <1>3, <2>2 DEF BeginWrite, EndWrite, Typed, Shape
    <3>4. \A b \in Artifacts : out'[h][b] = IF b = a THEN file ELSE out[h][b]
      BY <1>0, <3>1
    <3>5. file # None
      BY <1>0
    <3> QED
      BY <1>0, <3>1, <3>2, <3>3, <3>4, <3>5 DEF Follow
  <2> QED
    BY <2>1, <2>2
<1>4. ASSUME NEW g \in Targets, Finish(g) PROVE Follow(h)'
  <2>1. UNCHANGED <<out, blob, newer>> /\ run[g].pc = "writing" /\ run[g].todo = {}
    BY <1>4 DEF Finish
  <2>2. h # g => run'[h] = run[h] /\ marker'[h] = marker[h]
    BY <1>4 DEF Finish, Typed, Shape
  <2>3. h = g => run'[h].pc # "writing"
    BY <1>4 DEF Finish, Idle, Typed, Shape
  <2> QED
    BY <2>1, <2>2, <2>3 DEF Follow
<1>5. ASSUME NEW f \in Edited, Edit(f) \/ GoBack(f) PROVE Follow(h)'
  BY <1>5 DEF Edit, GoBack, Follow
<1>6. ASSUME NEW g \in Targets, Compress(g) PROVE Follow(h)'
  <2>1. UNCHANGED <<marker, out, run>>
    BY <1>6 DEF Compress
  <2>2. CASE h # g
    BY <1>6, <2>1, <2>2 DEF Compress, Follow, Typed, Shape
  <2>3. CASE h = g
    <3>1. blob'[h] = [b \in InBlobs |-> IF out[h][b] = None THEN blob[h][b] ELSE out[h][b]]
      BY <1>6, <2>3 DEF Compress, Typed, Shape
    <3> QED
      BY <1>0, <2>1, <3>1 DEF Follow
  <2> QED
    BY <2>2, <2>3
<1>7. ASSUME NEW g \in Targets, NEW a \in InBlobs, Inflate(g, a) \/ InflateCutShort(g, a)
      PROVE  Follow(h)'
  <2>1. UNCHANGED <<marker, run, blob>>
    BY <1>7 DEF Inflate, InflateCutShort
  <2>2. CASE h # g
    BY <1>7, <2>1, <2>2 DEF Inflate, InflateCutShort, Follow, Typed, Shape
  <2>3. CASE h = g
    <3>1. PICK file \in Snapshot(h) \cup {CutShort} :
            /\ out'[h] = [out[h] EXCEPT ![a] = file]
            /\ newer'[h] = [newer[h] EXCEPT ![a] = FALSE]
      BY <1>0, <1>7, <2>3 DEF Inflate, InflateCutShort, Typed, Shape
    <3>2. \A b \in Artifacts : out'[h][b] = IF b = a THEN file ELSE out[h][b]
      BY <1>0, <3>1
    <3>3. \A b \in InBlobs : newer'[h][b] => b # a /\ newer[h][b]
      BY <1>0, <3>1
    <3>4. file # None
      BY <1>0
    <3> QED
      BY <1>0, <2>1, <3>2, <3>3, <3>4 DEF Follow
  <2> QED
    BY <2>2, <2>3
<1>8. ASSUME NEW g \in Targets, NEW a \in Artifacts, Lose(g, a) PROVE FALSE
  BY <1>8 DEF Lose
<1> QED
  BY <1>1, <1>2, <1>3, <1>4, <1>5, <1>6, <1>7, <1>8 DEF Step

LEMMA BlobsStep ==
    ASSUME Typed, BlobsFollow, [Next]_vars PROVE BlobsFollow'
<1>1. CASE UNCHANGED vars
  BY <1>1 DEF vars, BlobsFollow, Follow
<1>2. CASE Next
  BY <1>2, FollowStep DEF Next, BlobsFollow
<1> QED
  BY <1>1, <1>2

-----------------------------------------------------------------------------
\* What is up to date, while sources only move forward.

\* A step that leaves a grammar's files and the sources alone keeps it sound.
LEMMA Untouched ==
    ASSUME NEW g \in Targets, Sound(g), version' = version, environment' = environment,
           marker'[g] = marker[g], out'[g] = out[g], run'[g] = run[g]
    PROVE  Sound(g)'
<1>1. Hash(g)' = Hash(g) /\ Result(g)' = Result(g) /\ Cut' = Cut
  BY DEF Hash, Result, Cut, MayBeCut
<1> QED
  BY <1>1 DEF Sound, MarkerBehind, RunInOrder, WrittenIsRead, NothingStale,
     Running, AtMost

LEMMA StartKeeps ==
    ASSUME Covers, Typed, AllSound, NEW g \in Targets, Start(g),
           environment' = environment
    PROVE  AllSound'
<1>1. /\ run' = [run EXCEPT ![g] = [Idle EXCEPT !.pc = "hashed", !.hash = Hash(g)]]
      /\ UNCHANGED <<version, marker, out, blob, newer>>
      /\ Hash(g) \in HashOf(g)
  BY HashTypes DEF Typed, AllSound, Start
<1>2. /\ run'[g].pc = "hashed" /\ run'[g].hash = Hash(g)
      /\ run'[g] \in RunRecord(g)
      /\ \A h \in Targets \ {g} : run'[h] = run[h]
  BY <1>1 DEF Typed, AllSound, Shape, Idle, RunRecord
<1>3. Sound(g)'
  <2>1. Hash(g)' = Hash(g) /\ Result(g)' = Result(g) /\ Cut' = Cut
    BY <1>1 DEF Hash, Result, Cut, MayBeCut
  <2>2. AtMost(g, Hash(g), version)
    BY FilesOf, GenerateAssumption DEF Typed, AllSound, TypeOK, AtMost, Hash
  <2>3. marker[g] # None => AtMost(g, marker[g], Hash(g))
    BY DEF Typed, AllSound, Sound, MarkerBehind, AtMost, Hash
  <2> QED
    BY <1>1, <1>2, <2>1, <2>2, <2>3 DEF Typed, AllSound, Sound, MarkerBehind, RunInOrder,
       WrittenIsRead, NothingStale, AtMost
<1> QED
  BY <1>1, <1>2, <1>3, Untouched DEF AllSound

LEMMA ComposeKeeps ==
    ASSUME Covers, Typed, AllSound, NEW g \in Targets, Compose(g),
           environment' = environment
    PROVE  AllSound'
<1>1. /\ run' = [run EXCEPT ![g].pc = "writing", ![g].read = Result(g),
                            ![g].todo = Artifacts]
      /\ UNCHANGED <<version, marker, out, blob, newer>>
      /\ Result(g) \in Snapshot(g) /\ run[g].pc = "hashed"
  BY HashTypes DEF Typed, AllSound, Compose
<1>2. /\ run'[g].pc = "writing" /\ run'[g].hash = run[g].hash
      /\ run'[g].read = Result(g) /\ run'[g].todo = Artifacts
      /\ \A h \in Targets \ {g} : run'[h] = run[h]
  <2>1. /\ run'[g] = [run[g] EXCEPT !.pc = "writing", !.read = Result(g), !.todo = Artifacts]
        /\ \A h \in Targets \ {g} : run'[h] = run[h]
    BY <1>1 DEF Typed, Shape
  <2>2. run[g] \in RunRecord(g)
    BY DEF Typed, TypeOK
  <2> QED
    BY <2>1, <2>2 DEF RunRecord
<1>3. Sound(g)'
  <2>1. Hash(g)' = Hash(g) /\ Result(g)' = Result(g) /\ Cut' = Cut
    BY <1>1 DEF Hash, Result, Cut, MayBeCut
  <2>2. run[g].hash \in HashOf(g) /\ AtMost(g, run[g].hash, version)
    BY <1>1 DEF Typed, AllSound, Sound, RunInOrder, Running
  <2>3. \A f \in Composed(g) : Result(g)[f] = version[f] /\ version[f] \in Nat
    <3>1. version \in [Files -> Nat]
      BY DEF Typed, AllSound, TypeOK
    <3> QED
      BY <3>1, FilesOf, GenerateAssumption DEF Result
  <2>4. RunInOrder(g)'
    <3>1. \A f \in Hashed(g) : run[g].hash[f] <= version[f]
      BY <2>2 DEF AtMost
    <3>2. \A f \in Composed(g) : Result(g)[f] <= version[f]
      BY <2>3
    <3>3. \A f \in Composed(g) : f \in Hashed(g) => run[g].hash[f] <= Result(g)[f]
      BY <2>3, <3>1
    <3> QED
      BY <1>1, <1>2, <2>2, <2>3, <3>2, <3>3 DEF RunInOrder, AtMost, HashOf, Snapshot
  <2>5. MarkerBehind(g)'
    BY <1>1, <1>2 DEF Typed, AllSound, Sound, MarkerBehind, AtMost, Running
  <2>6. WrittenIsRead(g)' /\ NothingStale(g)'
    BY <1>1, <1>2, <2>1 DEF Typed, AllSound, Sound, WrittenIsRead, NothingStale
  <2> QED
    BY <2>4, <2>5, <2>6 DEF Sound
<1> QED
  BY <1>1, <1>2, <1>3, Untouched DEF AllSound

\* What BeginWrite does to the run and the artifacts of its grammar.
LEMMA BeginWriteIs ==
    ASSUME Typed, NEW g \in Targets, NEW a \in Artifacts, BeginWrite(g, a)
    PROVE  /\ UNCHANGED <<version, marker, blob>>
           /\ run[g].pc = "writing" /\ run[g].open = {}
           /\ run'[g].pc = "writing" /\ run'[g].hash = run[g].hash
           /\ run'[g].read = run[g].read
           /\ run'[g].todo = run[g].todo \ {a} /\ run'[g].open = {a}
           /\ \A h \in Targets \ {g} : run'[h] = run[h] /\ out'[h] = out[h]
           /\ \A b \in Artifacts : out'[g][b] = IF b = a THEN CutShort ELSE out[g][b]
<1>1. /\ run' = [run EXCEPT ![g].todo = @ \ {a}, ![g].open = {a}]
      /\ out' = [out EXCEPT ![g][a] = CutShort]
      /\ UNCHANGED <<version, marker, blob>>
      /\ run[g].pc = "writing" /\ run[g].open = {}
  BY DEF BeginWrite
<1>2. /\ out'[g] = [out[g] EXCEPT ![a] = CutShort]
      /\ \A h \in Targets \ {g} : run'[h] = run[h] /\ out'[h] = out[h]
  BY <1>1 DEF Typed, Shape
<1>3. out[g] \in [Artifacts -> Snapshot(g) \cup {None, CutShort}]
  BY DEF Typed, TypeOK
<1>4. \A b \in Artifacts : out'[g][b] = IF b = a THEN CutShort ELSE out[g][b]
  BY <1>2, <1>3
<1>5. /\ run'[g].pc = run[g].pc /\ run'[g].hash = run[g].hash
      /\ run'[g].read = run[g].read
      /\ run'[g].todo = run[g].todo \ {a} /\ run'[g].open = {a}
  BY <1>1 DEF Typed, Shape, TypeOK, RunRecord
<1> QED
  BY <1>1, <1>2, <1>4, <1>5

LEMMA BeginWriteKeeps ==
    ASSUME Covers, Typed, AllSound, NEW g \in Targets, NEW a \in Artifacts,
           BeginWrite(g, a), environment' = environment
    PROVE  AllSound'
<1>1. Sound(g)'
  <2>1. Hash(g)' = Hash(g) /\ Result(g)' = Result(g) /\ Cut' = Cut
    BY BeginWriteIs DEF Hash, Result, Cut, MayBeCut
  <2>2. MarkerBehind(g)' /\ RunInOrder(g)'
    BY BeginWriteIs DEF AllSound, Sound, MarkerBehind, RunInOrder, AtMost, Running
  <2>3. WrittenIsRead(g)'
    BY BeginWriteIs, <2>1 DEF AllSound, Sound, WrittenIsRead
  <2>4. NothingStale(g)'
    BY BeginWriteIs, <2>1 DEF AllSound, Sound, NothingStale
  <2> QED
    BY <2>2, <2>3, <2>4 DEF Sound
<1> QED
  BY BeginWriteIs, <1>1, Untouched DEF AllSound

\* What EndWrite does to the run and the artifacts of its grammar.
LEMMA EndWriteIs ==
    ASSUME Typed, NEW g \in Targets, NEW a \in Artifacts, EndWrite(g, a)
    PROVE  /\ UNCHANGED <<version, marker, blob>>
           /\ run[g].pc = "writing" /\ run[g].read \in Snapshot(g)
           /\ run'[g].pc = "writing" /\ run'[g].hash = run[g].hash
           /\ run'[g].read = run[g].read /\ run'[g].todo = run[g].todo
           /\ run'[g].open = run[g].open \ {a}
           /\ \A h \in Targets \ {g} : run'[h] = run[h] /\ out'[h] = out[h]
           /\ \A b \in Artifacts : out'[g][b] = IF b = a THEN run[g].read ELSE out[g][b]
<1>1. /\ run' = [run EXCEPT ![g].open = @ \ {a}]
      /\ out' = [out EXCEPT ![g][a] = run[g].read]
      /\ UNCHANGED <<version, marker, blob>>
      /\ run[g].pc = "writing" /\ run[g].read \in Snapshot(g)
  BY DEF Typed, EndWrite, RunTyped
<1>2. out'[g] = [out[g] EXCEPT ![a] = run[g].read]
  BY <1>1 DEF Typed, Shape
<1> QED
  BY <1>1, <1>2 DEF Typed, Shape, TypeOK, RunRecord

LEMMA EndWriteKeeps ==
    ASSUME Covers, Typed, AllSound, NEW g \in Targets, NEW a \in Artifacts,
           EndWrite(g, a), environment' = environment
    PROVE  AllSound'
<1>1. Sound(g)'
  <2>1. Hash(g)' = Hash(g) /\ Result(g)' = Result(g) /\ Cut' = Cut
    BY EndWriteIs DEF Hash, Result, Cut, MayBeCut
  <2>2. MarkerBehind(g)' /\ RunInOrder(g)'
    BY EndWriteIs DEF AllSound, Sound, MarkerBehind, RunInOrder, AtMost, Running
  <2>3. WrittenIsRead(g)'
    BY EndWriteIs, <2>1 DEF AllSound, Sound, WrittenIsRead
  <2>4. NothingStale(g)'
    <3> SUFFICES ASSUME marker[g] = Hash(g)
                 PROVE  \A b \in Artifacts : out'[g][b] \in {None, Result(g), CutShort}
      BY EndWriteIs, <2>1 DEF NothingStale
    <3>1. run[g].read = Result(g)
      BY EndWriteIs, HashIsNow, ReadIsResult DEF Typed, AllSound, Sound, Running
    <3> QED
      BY EndWriteIs, <3>1 DEF AllSound, Sound, NothingStale
  <2> QED
    BY <2>2, <2>3, <2>4 DEF Sound
<1> QED
  BY EndWriteIs, <1>1, Untouched DEF AllSound

LEMMA FinishKeeps ==
    ASSUME Covers, Typed, AllSound, NEW g \in Targets, Finish(g),
           environment' = environment
    PROVE  AllSound'
<1>1. /\ run' = [run EXCEPT ![g] = Idle]
      /\ marker' = [marker EXCEPT ![g] = run[g].hash]
      /\ UNCHANGED <<version, out, blob, newer>>
      /\ run[g].pc = "writing" /\ run[g].todo \cup run[g].open = {}
      /\ run[g].hash \in HashOf(g) /\ AtMost(g, run[g].hash, version)
  BY DEF Typed, AllSound, Finish, Sound, RunInOrder, Running
<1>2. /\ run'[g] = Idle /\ marker'[g] = run[g].hash
      /\ \A h \in Targets \ {g} : run'[h] = run[h] /\ marker'[h] = marker[h]
  BY <1>1 DEF Typed, AllSound, Shape
<1>3. Sound(g)'
  <2>1. Hash(g)' = Hash(g) /\ Result(g)' = Result(g) /\ Cut' = Cut
    BY <1>1 DEF Hash, Result, Cut, MayBeCut
  <2>2. run'[g].pc = "idle"
    BY <1>2 DEF Idle
  <2>3. MarkerBehind(g)' /\ RunInOrder(g)' /\ WrittenIsRead(g)'
    BY <1>1, <1>2, <2>2 DEF MarkerBehind, RunInOrder, WrittenIsRead, AtMost, Running
  <2>4. NothingStale(g)'
    <3> SUFFICES ASSUME run[g].hash = Hash(g)
                 PROVE  \A b \in Artifacts : out[g][b] \in {None, Result(g), CutShort}
      BY <1>1, <1>2, <2>1 DEF NothingStale
    <3>1. run[g].read = Result(g)
      BY <1>1, ReadIsResult DEF Typed, AllSound, Sound
    <3> QED
      BY <1>1, <3>1 DEF Typed, AllSound, Sound, WrittenIsRead, Cut
  <2> QED
    BY <2>3, <2>4 DEF Sound
<1> QED
  BY <1>1, <1>2, <1>3, Untouched DEF AllSound

LEMMA DieKeeps ==
    ASSUME Covers, Typed, AllSound, NEW g \in Targets, Die(g),
           environment' = environment
    PROVE  AllSound'
<1>1. /\ run' = [run EXCEPT ![g] = Idle]
      /\ UNCHANGED <<version, marker, out, blob, newer>>
  BY DEF Die
<1>2. run'[g] = Idle /\ \A h \in Targets \ {g} : run'[h] = run[h]
  BY <1>1 DEF Typed, AllSound, Shape
<1>3. Sound(g)'
  <2>1. Hash(g)' = Hash(g) /\ Result(g)' = Result(g) /\ Cut' = Cut
    BY <1>1 DEF Hash, Result, Cut, MayBeCut
  <2>2. run'[g].pc = "idle"
    BY <1>2 DEF Idle
  <2> QED
    BY <1>1, <2>1, <2>2 DEF Typed, AllSound, Sound, MarkerBehind, RunInOrder, WrittenIsRead,
       NothingStale, AtMost, Running
<1> QED
  BY <1>1, <1>2, <1>3, Untouched DEF AllSound

\* A marker agrees with the sources after an edit only if it did before, and the
\* file is not in the hash.
LEMMA EditUnderMarker ==
    ASSUME Typed, Typed', AllSound, NEW e \in Edited, Edit(e),
           NEW g \in Targets, marker[g] = Hash(g)'
    PROVE  e \notin Hashed(g) /\ Hash(g)' = Hash(g)
<1>1. /\ version' = [version EXCEPT ![e] = @ + 1]
      /\ UNCHANGED marker
      /\ e \in Files /\ version \in [Files -> Nat]
      /\ Hashed(g) \subseteq Files
  BY FilesOf, GenerateAssumption DEF Typed, TypeOK, Edit
<1>2. e \notin Hashed(g)
  <2> SUFFICES ASSUME e \in Hashed(g) PROVE FALSE
    OBVIOUS
  <2>1. marker[g][e] = version'[e] /\ marker[g] # None
    <3>1. Hash(g)' \in HashOf(g)
      BY <1>1 DEF Typed, TypeOK, Hash, HashOf
    <3> QED
      BY <3>1, NoneAssumption, GenerateAssumption DEF Hash
  <2>2. marker[g][e] <= version[e]
    BY <2>1 DEF AllSound, Sound, MarkerBehind, AtMost
  <2>3. version'[e] = version[e] + 1 /\ version[e] \in Nat
    BY <1>1
  <2> QED
    BY <2>1, <2>2, <2>3
<1>3. \A f \in Hashed(g) : version'[f] = version[f]
  BY <1>1, <1>2
<1> QED
  BY <1>2, <1>3 DEF Hash

(***************************************************************************)
(* An edit leaves no marker that agrees with the sources, unless the file  *)
(* is one the grammar is not made from.                                    *)
(***************************************************************************)
LEMMA EditKeeps ==
    ASSUME Covers, Typed, Typed', AllSound, NEW e \in Edited, Edit(e),
           environment' = environment
    PROVE  AllSound'
<1>1. /\ version' = [version EXCEPT ![e] = @ + 1]
      /\ UNCHANGED <<marker, out, run, blob, newer>>
      /\ e \in Files
      /\ version \in [Files -> Nat]
  BY GenerateAssumption DEF Typed, AllSound, TypeOK, Edit
<1>2. /\ \A f \in Files : version[f] \in Nat /\ version'[f] \in Nat
                           /\ version[f] <= version'[f]
      /\ \A f \in Files \ {e} : version'[f] = version[f]
      /\ version[e] < version'[e]
  BY <1>1, GenerateAssumption
<1>3. ASSUME NEW g \in Targets PROVE Sound(g)'
  <2>1. /\ marker[g] \in HashOf(g) \cup {None}
        /\ Hashed(g) \subseteq Files /\ Composed(g) \subseteq Files
    BY FilesOf DEF Typed, AllSound, TypeOK
  <2>2. MarkerBehind(g)'
    <3>1. ASSUME marker[g] # None, NEW f \in Hashed(g)
          PROVE  marker[g][f] <= version'[f]
      <4>1. marker[g][f] <= version[f] /\ marker[g][f] \in Nat
        BY <2>1, <3>1, GenerateAssumption DEF Typed, AllSound, Sound, MarkerBehind, AtMost, HashOf
      <4> QED
        BY <1>2, <2>1, <4>1
    <3> QED
      BY <1>1, <3>1 DEF Typed, AllSound, Sound, MarkerBehind, AtMost, Running
  <2>3. RunInOrder(g)'
    <3>1. ASSUME Running(g), NEW f \in Hashed(g)
          PROVE  run[g].hash[f] <= version'[f]
      <4>1. run[g].hash[f] <= version[f] /\ run[g].hash[f] \in Nat
        BY <2>1, <3>1, GenerateAssumption DEF Typed, AllSound, Sound, RunInOrder, AtMost, HashOf
      <4> QED
        BY <1>2, <2>1, <4>1
    <3>2. ASSUME run[g].pc = "writing", NEW f \in Composed(g)
          PROVE  /\ run[g].read[f] <= version'[f]
                 /\ f \notin Edited => run[g].read[f] = version'[f]
      <4>1. /\ run[g].read[f] <= version[f] /\ run[g].read[f] \in Nat
            /\ f \notin Edited => run[g].read[f] = version[f]
        BY <2>1, <3>2, GenerateAssumption DEF Typed, AllSound, Sound, RunInOrder, Snapshot
      <4> QED
        BY <1>2, <2>1, <4>1
    <3> QED
      BY <1>1, <3>1, <3>2 DEF Typed, AllSound, Sound, RunInOrder, AtMost, Running
  <2>4. NothingStale(g)'
    <3> SUFFICES ASSUME marker[g] = Hash(g)'
                 PROVE  \A a \in Artifacts : out[g][a] \in {None, Result(g)', CutShort}
      BY <1>1 DEF NothingStale
    <3>1. e \notin Hashed(g)
      BY EditUnderMarker
    <3>2. e \notin Composed(g)
      BY <3>1 DEF Covers
    <3>3. Hash(g)' = Hash(g) /\ Result(g)' = Result(g)
      BY <1>2, <2>1, <3>1, <3>2 DEF Hash, Result
    <3> QED
      BY <3>3 DEF Typed, AllSound, Sound, NothingStale
  <2>5. WrittenIsRead(g)'
    BY <1>1 DEF AllSound, Sound, WrittenIsRead, Cut, MayBeCut
  <2> QED
    BY <2>2, <2>3, <2>4, <2>5 DEF Sound
<1> QED
  BY <1>3 DEF AllSound

\* What Lose does to the run and the artifacts of its grammar.
LEMMA LoseIs ==
    ASSUME Typed, NEW g \in Targets, NEW a \in Artifacts, Lose(g, a)
    PROVE  /\ UNCHANGED <<version, marker, blob, newer>>
           /\ run'[g].pc = run[g].pc /\ run'[g].hash = run[g].hash
           /\ run'[g].read = run[g].read /\ run'[g].todo = run[g].todo
           /\ run'[g].open = run[g].open \ {a}
           /\ \A h \in Targets \ {g} : run'[h] = run[h] /\ out'[h] = out[h]
           /\ \A b \in Artifacts : out'[g][b] = IF b = a THEN None ELSE out[g][b]
<1>1. /\ out' = [out EXCEPT ![g][a] = None]
      /\ run' = [run EXCEPT ![g].open = @ \ {a}]
      /\ UNCHANGED <<version, marker, blob, newer>>
  BY DEF Lose
<1>2. out'[g] = [out[g] EXCEPT ![a] = None]
  BY <1>1 DEF Typed, Shape
<1> QED
  BY <1>1, <1>2 DEF Typed, Shape, TypeOK, RunRecord

LEMMA LoseKeeps ==
    ASSUME Covers, Typed, AllSound, NEW g \in Targets, NEW a \in Artifacts, Lose(g, a),
           environment' = environment
    PROVE  AllSound'
<1>1. Sound(g)'
  <2>1. Hash(g)' = Hash(g) /\ Result(g)' = Result(g) /\ Cut' = Cut
    BY LoseIs DEF Hash, Result, Cut, MayBeCut
  <2>2. MarkerBehind(g)' /\ RunInOrder(g)'
    BY LoseIs DEF AllSound, Sound, MarkerBehind, RunInOrder, AtMost, Running
  <2>3. WrittenIsRead(g)' /\ NothingStale(g)'
    BY LoseIs, <2>1 DEF AllSound, Sound, WrittenIsRead, NothingStale
  <2> QED
    BY <2>2, <2>3 DEF Sound
<1> QED
  BY LoseIs, <1>1, Untouched DEF AllSound

\* While nothing gets lost, what is inflated is a copy of what is there, or of what no
\* run has finished.
LEMMA InflateKeeps ==
    ASSUME Typed, BlobsFollow, AllSound, Forward, NEW g \in Targets,
           NEW a \in InBlobs, Inflate(g, a), environment' = environment
    PROVE  AllSound'
<1>1. /\ out' = [out EXCEPT ![g][a] = blob[g][a]]
      /\ UNCHANGED <<version, marker, run, blob>>
      /\ out[g][a] = None \/ newer[g][a]
      /\ "lose" \notin environment
      /\ a \in Artifacts
  BY DEF Inflate, Stale, Forward, InBlobs, Artifacts
<1>2. /\ out'[g] = [out[g] EXCEPT ![a] = blob[g][a]]
      /\ \A h \in Targets \ {g} : out'[h] = out[h]
      /\ out[g] \in [Artifacts -> Snapshot(g) \cup {None, CutShort}]
  BY <1>1 DEF Typed, Shape, TypeOK
<1>3. Sound(g)'
  <2>1. Hash(g)' = Hash(g) /\ Result(g)' = Result(g) /\ Cut' = Cut
    BY <1>1 DEF Hash, Result, Cut, MayBeCut
  <2>2. CASE out[g][a] # None
    <3>1. out'[g] = out[g]
      BY <1>1, <1>2, <2>2 DEF BlobsFollow, Follow
    <3> QED
      BY <1>1, <3>1, Untouched DEF AllSound
  <2>3. CASE out[g][a] = None
    <3>1. marker[g] = None
      BY <1>1, <2>3 DEF BlobsFollow, Follow
    <3>2. marker[g] # Hash(g)
      BY <3>1, HashTypes, NoneAssumption, GenerateAssumption DEF Typed
    <3>3. run[g].pc = "writing" => \A b \in Artifacts \ run[g].todo : out'[g][b] = out[g][b]
      BY <1>1, <1>2, <2>3 DEF BlobsFollow, Follow
    <3>4. MarkerBehind(g)' /\ RunInOrder(g)'
      BY <1>1 DEF AllSound, Sound, MarkerBehind, RunInOrder, AtMost, Running
    <3>5. WrittenIsRead(g)'
      BY <1>1, <2>1, <3>3 DEF AllSound, Sound, WrittenIsRead
    <3>6. NothingStale(g)'
      BY <1>1, <2>1, <3>2 DEF NothingStale
    <3> QED
      BY <3>4, <3>5, <3>6 DEF Sound
  <2> QED
    BY <2>2, <2>3
<1> QED
  BY <1>1, <1>2, <1>3, Untouched DEF AllSound

\* An inflate that is killed is one of the reasons that a file may be cut short.
LEMMA InflateCutShortKeeps ==
    ASSUME Typed, AllSound, NEW g \in Targets, NEW a \in InBlobs,
           InflateCutShort(g, a), environment' = environment
    PROVE  AllSound'
<1>1. /\ out' = [out EXCEPT ![g][a] = CutShort]
      /\ UNCHANGED <<version, marker, run, blob>>
      /\ Cut = {CutShort}
      /\ a \in Artifacts
  BY DEF InflateCutShort, Cut, MayBeCut, InBlobs, Artifacts
<1>2. /\ out'[g] = [out[g] EXCEPT ![a] = CutShort]
      /\ \A h \in Targets \ {g} : out'[h] = out[h]
  BY <1>1 DEF Typed, Shape
<1>3. Sound(g)'
  <2>1. Hash(g)' = Hash(g) /\ Result(g)' = Result(g) /\ Cut' = Cut
    BY <1>1 DEF Hash, Result, Cut, MayBeCut
  <2>2. \A b \in Artifacts : out'[g][b] \in {CutShort, out[g][b]}
    BY <1>2 DEF Typed, TypeOK
  <2>3. MarkerBehind(g)' /\ RunInOrder(g)'
    BY <1>1 DEF AllSound, Sound, MarkerBehind, RunInOrder, AtMost, Running
  <2>4. WrittenIsRead(g)' /\ NothingStale(g)'
    BY <1>1, <2>1, <2>2 DEF AllSound, Sound, WrittenIsRead, NothingStale
  <2> QED
    BY <2>3, <2>4 DEF Sound
<1> QED
  BY <1>1, <1>2, <1>3, Untouched DEF AllSound

LEMMA SoundStep ==
    ASSUME Covers, Typed, Typed', BlobsFollow, Forward, AllSound, [Next]_vars
    PROVE  AllSound'
<1>1. CASE UNCHANGED vars
  BY <1>1, Untouched DEF vars, AllSound
<1> SUFFICES ASSUME Step, environment' = environment PROVE AllSound'
  BY <1>1 DEF Next
<1>2. CASE \E g \in Targets : Start(g) \/ Compose(g) \/ Finish(g) \/ Die(g)
  BY <1>2, StartKeeps, ComposeKeeps, FinishKeeps, DieKeeps
<1>3. CASE \E g \in Targets, a \in Artifacts : BeginWrite(g, a) \/ EndWrite(g, a) \/ Lose(g, a)
  BY <1>3, BeginWriteKeeps, EndWriteKeeps, LoseKeeps
<1>4. CASE \E f \in Edited : Edit(f) \/ GoBack(f)
  BY <1>4, EditKeeps DEF GoBack, Forward
<1>5. CASE \E g \in Targets : Compress(g)
  BY <1>5, Untouched DEF Compress, AllSound
<1>6. CASE \E g \in Targets, a \in InBlobs : Inflate(g, a) \/ InflateCutShort(g, a)
  BY <1>6, InflateKeeps, InflateCutShortKeeps
<1> QED
  BY <1>2, <1>3, <1>4, <1>5, <1>6 DEF Step

-----------------------------------------------------------------------------
\* What is whole.

LEMMA WholeUnlessOpenStep ==
    ASSUME Typed, BlobsFollow, Forward, NEW h \in Targets, WholeUnlessOpen(h), Step,
           environment' = environment
    PROVE  WholeUnlessOpen(h)'
<1> SUFFICES ASSUME "die" \notin environment, NEW b \in Artifacts, out'[h][b] = CutShort
             PROVE  b \in run'[h].open
  BY DEF WholeUnlessOpen
<1>0. out[h][b] = CutShort => b \in run[h].open
  BY DEF WholeUnlessOpen
<1>1. CASE run'[h] = run[h] /\ out'[h] = out[h]
  BY <1>0, <1>1
<1>2. CASE Start(h)
  <2>1. run[h].open = {} /\ out' = out
    BY <1>2 DEF Start, Running, Typed, RunTyped
  <2> QED
    BY <1>0, <2>1
<1>3. CASE Compose(h)
  <2>1. out' = out /\ run'[h].open = run[h].open
    BY <1>3 DEF Compose, Typed, Shape, TypeOK, RunRecord
  <2> QED
    BY <1>0, <2>1
<1>4. CASE Finish(h)
  <2>1. out' = out /\ run[h].open = {}
    BY <1>4 DEF Finish
  <2> QED
    BY <1>0, <2>1
<1>5. ASSUME NEW a \in Artifacts, BeginWrite(h, a) PROVE b \in run'[h].open
  <2>1. b = a \/ out[h][b] = CutShort
    BY <1>5, BeginWriteIs
  <2>2. run[h].open = {} /\ run'[h].open = {a}
    BY <1>5, BeginWriteIs
  <2> QED
    BY <1>0, <2>1, <2>2
<1>6. ASSUME NEW a \in Artifacts, EndWrite(h, a) PROVE b \in run'[h].open
  <2>1. run[h].read # CutShort
    BY <1>6, EndWriteIs, CutShortAssumption, GenerateAssumption
  <2>2. b # a /\ out[h][b] = CutShort /\ run'[h].open = run[h].open \ {a}
    BY <1>6, <2>1, EndWriteIs
  <2> QED
    BY <1>0, <2>2
<1>7. ASSUME NEW a \in Artifacts, Lose(h, a) PROVE b \in run'[h].open
  <2>1. b # a /\ out[h][b] = CutShort /\ run'[h].open = run[h].open \ {a}
    BY <1>7, LoseIs, CutShortAssumption
  <2> QED
    BY <1>0, <2>1
<1>8. ASSUME NEW a \in InBlobs, Inflate(h, a) PROVE b \in run'[h].open
  <2>1. /\ "lose" \notin environment /\ run' = run
        /\ out[h][a] = None \/ newer[h][a]
        /\ out'[h] = [out[h] EXCEPT ![a] = blob[h][a]]
        /\ out[h] \in [Artifacts -> Snapshot(h) \cup {None, CutShort}]
    BY <1>8 DEF Inflate, Stale, Forward, Typed, Shape, TypeOK
  <2>2. CASE b # a
    BY <1>0, <2>1, <2>2
  <2>3. CASE b = a
    <3>1. blob[h][a] = CutShort /\ out[h][a] = blob[h][a]
      BY <2>1, <2>3 DEF BlobsFollow, Follow
    <3> QED
      BY <1>0, <2>1, <2>3, <3>1
  <2> QED
    BY <2>2, <2>3
<1>9. ASSUME NEW a \in InBlobs, InflateCutShort(h, a) PROVE FALSE
  BY <1>9 DEF InflateCutShort
<1>10. CASE \E g \in Targets \ {h} :
              \/ Start(g) \/ Compose(g) \/ Finish(g)
              \/ \E a \in Artifacts : BeginWrite(g, a) \/ EndWrite(g, a) \/ Lose(g, a)
              \/ \E a \in InBlobs : Inflate(g, a)
  BY <1>1, <1>10 DEF Start, Compose, Finish, BeginWrite, EndWrite, Lose, Inflate,
     Typed, Shape
<1>11. CASE (\E f \in Edited : Edit(f) \/ GoBack(f)) \/ \E g \in Targets : Compress(g)
  BY <1>1, <1>11 DEF Edit, GoBack, Compress
<1>12. ASSUME NEW g \in Targets, Die(g) PROVE FALSE
  BY <1>12 DEF Die
<1>13. ASSUME NEW g \in Targets \ {h}, NEW a \in InBlobs, InflateCutShort(g, a) PROVE FALSE
  BY <1>13 DEF InflateCutShort
<1> QED
  BY <1>2, <1>3, <1>4, <1>5, <1>6, <1>7, <1>8, <1>9, <1>10, <1>11, <1>12, <1>13 DEF Step

LEMMA WholeUnderMarkerStep ==
    ASSUME Typed, Typed', BlobsFollow, AllSound, NEW h \in Targets,
           WholeUnderMarker(h), Step, Forward, environment' = environment
    PROVE  WholeUnderMarker(h)'
<1> SUFFICES ASSUME environment \cap {"lose", "inflate"} = {}
             PROVE  (/\ Running(h) => marker[h] # Hash(h)
                     /\ marker[h] = Hash(h) => \A a \in Artifacts : out[h][a] # CutShort)'
  BY DEF WholeUnderMarker
<1>0. /\ Running(h) => marker[h] # Hash(h)
      /\ marker[h] = Hash(h) => \A a \in Artifacts : out[h][a] # CutShort
  BY DEF WholeUnderMarker
<1>1. version' = version => Hash(h)' = Hash(h)
  BY DEF Hash
<1>2. CASE /\ version' = version /\ marker'[h] = marker[h]
           /\ run'[h] = run[h] /\ out'[h] = out[h]
  BY <1>0, <1>1, <1>2 DEF Running
<1>3. CASE Start(h)
  <2>1. version' = version /\ marker' = marker /\ out' = out /\ ~UpToDate(h)
    BY <1>3 DEF Start
  <2>2. marker[h] # Hash(h)
    <3>1. marker[h] = Hash(h) => marker[h] # None
      BY HashTypes, NoneAssumption, GenerateAssumption DEF Typed
    <3>2. marker[h] # None => \A a \in Artifacts : out[h][a] # None
      BY DEF BlobsFollow, Follow
    <3> QED
      BY <2>1, <3>1, <3>2 DEF UpToDate
  <2> QED
    BY <1>1, <2>1, <2>2
<1>4. CASE Compose(h)
  <2>1. version' = version /\ marker' = marker /\ Running(h)
    BY <1>4 DEF Compose, Running
  <2> QED
    BY <1>0, <1>1, <2>1
<1>5. ASSUME NEW a \in Artifacts, BeginWrite(h, a) \/ EndWrite(h, a)
      PROVE  marker'[h] # Hash(h)'
  <2>1. version' = version /\ marker' = marker
    BY <1>5 DEF BeginWrite, EndWrite
  <2>2. Running(h)
    <3>1. CASE BeginWrite(h, a)
      BY <3>1 DEF BeginWrite, Running
    <3>2. CASE EndWrite(h, a)
      BY <3>2, EndWriteIs DEF Running
    <3> QED
      BY <1>5, <3>1, <3>2
  <2> QED
    BY <1>0, <1>1, <2>1, <2>2
<1>6. CASE Finish(h)
  <2>1. /\ run[h].pc = "writing" /\ run[h].todo \cup run[h].open = {}
        /\ out' = out /\ run'[h] = Idle
    BY <1>6 DEF Finish, Typed, Shape
  <2>2. run[h].read # CutShort
    BY <2>1, CutShortAssumption, GenerateAssumption DEF Typed, RunTyped
  <2>3. \A a \in Artifacts : out[h][a] \in {None, run[h].read}
    BY <2>1 DEF AllSound, Sound, WrittenIsRead, Cut, MayBeCut
  <2> QED
    BY <2>1, <2>2, <2>3, CutShortAssumption DEF Running, Idle
<1>7. CASE Die(h)
  <2>1. /\ version' = version /\ marker' = marker /\ out' = out /\ run'[h] = Idle
    BY <1>7 DEF Die, Typed, Shape
  <2> QED
    BY <1>0, <1>1, <2>1 DEF Running, Idle
<1>8. ASSUME NEW f \in Edited, Edit(f)
      PROVE  (/\ Running(h) => marker[h] # Hash(h)
              /\ marker[h] = Hash(h) => \A a \in Artifacts : out[h][a] # CutShort)'
  <2>1. marker' = marker /\ out' = out /\ run' = run
    BY <1>8 DEF Edit
  <2>2. marker[h] = Hash(h)' => Hash(h)' = Hash(h)
    BY <1>8, EditUnderMarker
  <2> QED
    BY <1>0, <2>1, <2>2 DEF Running
<1>9. ASSUME NEW f \in Edited, GoBack(f) PROVE FALSE
  BY <1>9 DEF GoBack, Forward
<1>10. CASE \E g \in Targets \ {h} :
              \/ Start(g) \/ Compose(g) \/ Finish(g) \/ Die(g)
              \/ \E a \in Artifacts : BeginWrite(g, a) \/ EndWrite(g, a)
  BY <1>2, <1>10 DEF Start, Compose, Finish, Die, BeginWrite, EndWrite, Typed, Shape
<1>11. ASSUME NEW g \in Targets,
              \/ \E a \in Artifacts : Lose(g, a)
              \/ \E a \in InBlobs : Inflate(g, a) \/ InflateCutShort(g, a)
              \/ Compress(g)
       PROVE  FALSE
  BY <1>11 DEF Lose, Inflate, InflateCutShort, Compress
<1> QED
  BY <1>3, <1>4, <1>5, <1>6, <1>7, <1>8, <1>9, <1>10, <1>11 DEF Step

LEMMA WholeStep ==
    ASSUME Typed, Typed', BlobsFollow, Forward, AllSound, AllWhole, [Next]_vars
    PROVE  AllWhole'
<1>1. CASE UNCHANGED vars
  BY <1>1 DEF vars, AllWhole, WholeUnlessOpen, WholeUnderMarker, Running, Hash
<1>2. CASE Next
  BY <1>2, WholeUnlessOpenStep, WholeUnderMarkerStep DEF Next, AllWhole
<1> QED
  BY <1>1, <1>2

LEMMA StepIInv ==
    ASSUME Covers, IInv, [Next]_vars PROVE IInv'
<1>1. Typed' /\ BlobsFollow'
  BY TypedStep, BlobsStep DEF IInv
<1>2. Forward' => Forward
  BY DEF Next, vars, Forward
<1> QED
  BY <1>1, <1>2, SoundStep, WholeStep DEF IInv

(***************************************************************************)
(* The variables keep their types, whatever happens around generate.js.    *)
(***************************************************************************)
THEOREM TypeCorrect == Spec => []TypeOK
<1>1. Init => Typed
  BY InitIInv DEF IInv
<1>2. Typed /\ [Next]_vars => Typed'
  BY TypedStep
<1>3. Typed => TypeOK
  BY DEF Typed
<1> QED
  BY <1>1, <1>2, <1>3, PTL DEF Spec

(***************************************************************************)
(* A run is skipped only over artifacts that are up to date, whatever the  *)
(* lineage, however many versions there are, and whenever a file is edited *)
(* (generate.js:123), and none of them is cut short unless runs are killed *)
(* where artifacts are also lost, or inflated (MayBeCut).  The hash needs  *)
(* to cover the files that change, and does not for grammar.js of the ANSI *)
(* grammar.                                                                *)
(***************************************************************************)
THEOREM SkipsAreFresh ==
    ASSUME Covers PROVE Spec => []FreshWhenSkipped
<1>1. IInv /\ [Next]_vars => IInv'
  BY StepIInv
<1>2. IInv => FreshWhenSkipped
  <2> SUFFICES ASSUME IInv, Forward, NEW g \in Targets, ~Running(g), UpToDate(g),
                      NEW a \in Artifacts
               PROVE  \/ out[g][a] = Result(g)
                      \/ (MayBeCut /\ out[g][a] = CutShort)
    BY DEF FreshWhenSkipped
  <2>1. marker[g] = Hash(g) /\ out[g][a] \in {Result(g), CutShort}
    BY DEF IInv, AllSound, Sound, NothingStale, UpToDate
  <2>2. WholeUnlessOpen(g) /\ WholeUnderMarker(g) /\ RunTyped(g)
    BY DEF IInv, AllWhole, Typed
  <2>3. CASE "die" \notin environment
    <3>1. run[g].open = {}
      BY <2>2 DEF RunTyped, Running
    <3> QED
      BY <2>1, <2>2, <2>3, <3>1 DEF WholeUnlessOpen
  <2>4. CASE environment \cap {"lose", "inflate"} = {}
    BY <2>1, <2>2, <2>4 DEF WholeUnderMarker
  <2> QED
    BY <2>1, <2>3, <2>4 DEF MayBeCut
<1> QED
  BY <1>1, <1>2, InitIInv, PTL DEF Spec

-----------------------------------------------------------------------------
\* grammar.json, while nobody disturbs the runs.

Json(g) == out[g]["grammar.json"]

\* What sources with the hash h compose to.
MadeUnder(g, h) ==
    {r \in Snapshot(g) :
        \A f \in Composed(g) : r[f] = IF f \in Hashed(g) THEN h[f] ELSE 0}

\* A run finds the sources as it hashed them, and between runs grammar.json is
\* what the marker says.
Attended(g) ==
    /\ Running(g) => run[g].hash = Hash(g)
    /\ run[g].pc = "writing" =>
         /\ run[g].read = Result(g)
         /\ \/ "grammar.json" \in run[g].todo \cup run[g].open
            \/ Json(g) \in {None, Result(g)}
    /\ run[g].pc # "writing" /\ marker[g] # None =>
         Json(g) \in {None} \cup MadeUnder(g, marker[g])

AllAttended ==
    /\ \A f \in Files \ Edited : version[f] = 0
    /\ \A g \in Targets : Attended(g)

\* What the present sources compose to is what their hash says.
LEMMA ResultMadeUnderHash ==
    ASSUME Covers, Typed, AllAttended, NEW g \in Targets
    PROVE  MadeUnder(g, Hash(g)) = {Result(g)}
<1>1. Result(g) \in Snapshot(g) /\ Composed(g) \subseteq Files
  BY HashTypes, FilesOf DEF Typed
<1>2. \A f \in Composed(g) : version[f] = IF f \in Hashed(g) THEN Hash(g)[f] ELSE 0
  BY <1>1 DEF AllAttended, Covers, Hash
<1>3. \A f \in Composed(g) : Result(g)[f] = version[f]
  BY DEF Result
<1>4. Result(g) \in MadeUnder(g, Hash(g))
  BY <1>1, <1>2, <1>3 DEF MadeUnder
<1>5. ASSUME NEW r \in MadeUnder(g, Hash(g)) PROVE r = Result(g)
  BY <1>1, <1>2, <1>3, <1>5 DEF MadeUnder, Snapshot
<1> QED
  BY <1>4, <1>5

LEMMA AttendedStep ==
    ASSUME Covers, Typed, Undisturbed, AllAttended, Step PROVE AllAttended'
<1>1. ASSUME NEW h \in Targets, version' = version, marker'[h] = marker[h],
             run'[h] = run[h], Json(h)' = Json(h)
      PROVE  Attended(h)'
  <2>1. Hash(h)' = Hash(h) /\ Result(h)' = Result(h)
    BY <1>1 DEF Hash, Result
  <2> QED
    BY <1>1, <2>1 DEF AllAttended, Attended, Running, MadeUnder
<1>2. ASSUME NEW g \in Targets, Start(g) PROVE AllAttended'
  <2>1. /\ UNCHANGED <<version, marker, out>> /\ run[g].pc # "writing"
        /\ run'[g].pc = "hashed" /\ run'[g].hash = Hash(g)
        /\ \A h \in Targets \ {g} : run'[h] = run[h]
    BY <1>2 DEF Start, Running, Idle, Typed, Shape
  <2>2. Attended(g)'
    BY <2>1 DEF AllAttended, Attended, Hash, Json, MadeUnder
  <2> QED
    BY <1>1, <2>1, <2>2 DEF AllAttended, Json
<1>3. ASSUME NEW g \in Targets, Compose(g) PROVE AllAttended'
  <2>1. /\ UNCHANGED <<version, marker, out>> /\ Running(g)
        /\ run'[g].pc = "writing" /\ run'[g].hash = run[g].hash
        /\ run'[g].read = Result(g) /\ "grammar.json" \in run'[g].todo
        /\ \A h \in Targets \ {g} : run'[h] = run[h]
    BY <1>3 DEF Compose, Running, Artifacts, Typed, Shape, TypeOK, RunRecord
  <2>2. Attended(g)'
    BY <2>1 DEF AllAttended, Attended, Hash, Result
  <2> QED
    BY <1>1, <2>1, <2>2 DEF AllAttended, Json
<1>4. ASSUME NEW g \in Targets, NEW a \in Artifacts, BeginWrite(g, a) \/ EndWrite(g, a)
      PROVE  AllAttended'
  <2>1. /\ UNCHANGED <<version, marker>> /\ Running(g) /\ run[g].pc = "writing"
        /\ run'[g].pc = "writing" /\ run'[g].hash = run[g].hash
        /\ run'[g].read = run[g].read
        /\ \A h \in Targets \ {g} : run'[h] = run[h] /\ out'[h] = out[h]
    <3>1. CASE BeginWrite(g, a)
      BY <3>1, BeginWriteIs DEF Running
    <3>2. CASE EndWrite(g, a)
      BY <3>2, EndWriteIs DEF Running
    <3> QED
      BY <1>4, <3>1, <3>2
  <2>2. \/ "grammar.json" \in run'[g].todo \cup run'[g].open
        \/ Json(g)' \in {None, Result(g)}
    <3>1. \/ "grammar.json" \in run[g].todo \cup run[g].open
          \/ Json(g) \in {None, Result(g)}
      BY <2>1 DEF AllAttended, Attended
    <3>2. CASE BeginWrite(g, a)
      <4>1. /\ run[g].open = {} /\ run'[g].open = {a} /\ run'[g].todo = run[g].todo \ {a}
            /\ Json(g)' = IF a = "grammar.json" THEN CutShort ELSE Json(g)
        BY <3>2, BeginWriteIs DEF Json, Artifacts
      <4> QED
        BY <3>1, <4>1
    <3>3. CASE EndWrite(g, a)
      <4>1. /\ run'[g].open = run[g].open \ {a} /\ run'[g].todo = run[g].todo
            /\ Json(g)' = IF a = "grammar.json" THEN run[g].read ELSE Json(g)
            /\ run[g].read = Result(g)
        BY <2>1, <3>3, EndWriteIs DEF Json, Artifacts, AllAttended, Attended
      <4> QED
        BY <3>1, <4>1
    <3> QED
      BY <1>4, <3>2, <3>3
  <2>3. Attended(g)'
    <3>1. Hash(g)' = Hash(g) /\ Result(g)' = Result(g)
      BY <2>1 DEF Hash, Result
    <3> QED
      BY <2>1, <2>2, <3>1 DEF AllAttended, Attended
  <2> QED
    BY <1>1, <2>1, <2>3 DEF AllAttended, Json
<1>5. ASSUME NEW g \in Targets, Finish(g) PROVE AllAttended'
  <2>1. /\ UNCHANGED <<version, out>> /\ Running(g) /\ run[g].pc = "writing"
        /\ run[g].todo \cup run[g].open = {}
        /\ run'[g].pc = "idle" /\ marker'[g] = run[g].hash
        /\ \A h \in Targets \ {g} : run'[h] = run[h] /\ marker'[h] = marker[h]
    BY <1>5 DEF Finish, Running, Idle, Typed, Shape
  <2>2. marker'[g] = Hash(g) /\ Json(g) \in {None, Result(g)}
    BY <2>1 DEF AllAttended, Attended
  <2>3. Json(g) \in {None} \cup MadeUnder(g, Hash(g))
    BY <2>2, ResultMadeUnderHash
  <2>4. Attended(g)'
    BY <2>1, <2>2, <2>3 DEF Attended, Json, Running, MadeUnder
  <2> QED
    BY <1>1, <2>1, <2>4 DEF AllAttended, Json
<1>6. ASSUME NEW e \in Edited, Edit(e) \/ GoBack(e) PROVE AllAttended'
  <2>1. /\ UNCHANGED <<marker, out, run>>
        /\ \A g \in Targets : ~Running(g)
        /\ \A f \in Files \ Edited : version'[f] = version[f]
    BY <1>6 DEF Edit, GoBack, MayEdit, Undisturbed, Typed, TypeOK
  <2> QED
    BY <2>1 DEF AllAttended, Attended, Running, Json, MadeUnder
<1>7. ASSUME NEW g \in Targets, NEW a \in Artifacts, Lose(g, a) PROVE AllAttended'
  <2>1. /\ UNCHANGED <<version, marker>>
        /\ run'[g].pc = run[g].pc /\ run'[g].hash = run[g].hash
        /\ run'[g].read = run[g].read /\ run'[g].todo = run[g].todo
        /\ run'[g].open = run[g].open \ {a}
        /\ \A h \in Targets \ {g} : run'[h] = run[h] /\ Json(h)' = Json(h)
        /\ Json(g)' = IF a = "grammar.json" THEN None ELSE Json(g)
    BY <1>7, LoseIs DEF Json, Artifacts
  <2>2. Attended(g)'
    <3>1. Hash(g)' = Hash(g) /\ Result(g)' = Result(g)
      BY <2>1 DEF Hash, Result
    <3> QED
      BY <2>1, <3>1 DEF AllAttended, Attended, Running, MadeUnder
  <2> QED
    BY <1>1, <2>1, <2>2 DEF AllAttended
<1>8. ASSUME NEW g \in Targets, NEW a \in InBlobs, Inflate(g, a) \/ InflateCutShort(g, a)
      PROVE  AllAttended'
  <2>1. /\ UNCHANGED <<version, marker, run>>
        /\ \A h \in Targets : Json(h)' = Json(h)
    <3>1. PICK file : out' = [out EXCEPT ![g][a] = file]
      BY <1>8 DEF Inflate, InflateCutShort
    <3>2. a # "grammar.json"
      BY DEF InBlobs
    <3>3. \A h \in Targets : Json(h)' = Json(h)
      BY <3>1, <3>2 DEF Json, Typed, Shape
    <3> QED
      BY <1>8, <3>3 DEF Inflate, InflateCutShort
  <2> QED
    BY <1>1, <2>1 DEF AllAttended
<1>9. ASSUME NEW g \in Targets, Compress(g) PROVE AllAttended'
  BY <1>1, <1>9 DEF Compress, Json, AllAttended
<1>10. ASSUME NEW g \in Targets, Die(g) PROVE FALSE
  BY <1>10 DEF Die, Undisturbed
<1> QED
  BY <1>2, <1>3, <1>4, <1>5, <1>6, <1>7, <1>8, <1>9, <1>10 DEF Step

(***************************************************************************)
(* Where runs end by themselves, over sources that hold still, the         *)
(* grammar.json under a marker that agrees with the sources is theirs,     *)
(* also when sources went back and artifacts were lost and inflated.       *)
(***************************************************************************)
THEOREM GrammarJsonIsTheirs ==
    ASSUME Covers PROVE Spec => []GrammarJsonIsGenerated
<1> DEFINE Inv == Typed /\ (Undisturbed => AllAttended)
<1>1. Init => Inv
  <2> SUFFICES ASSUME Init PROVE AllAttended
    BY InitIInv DEF IInv
  <2>1. \A g \in Targets : Attended(g)
    BY DEF Init, Idle, Attended, Running
  <2> QED
    BY <2>1 DEF Init, AllAttended
<1>2. Inv /\ [Next]_vars => Inv'
  <2> SUFFICES ASSUME Inv, [Next]_vars PROVE Inv'
    OBVIOUS
  <2>1. Typed'
    BY TypedStep
  <2>2. CASE Next
    BY <2>1, <2>2, AttendedStep DEF Next, Undisturbed
  <2>3. CASE UNCHANGED vars
    <3>1. UNCHANGED <<version, marker, out, run, environment>>
      BY <2>3 DEF vars
    <3> QED
      BY <2>1, <3>1 DEF AllAttended, Attended, Running, Json, Hash, Result, MadeUnder,
         Undisturbed
  <2> QED
    BY <2>2, <2>3
<1>3. Inv => GrammarJsonIsGenerated
  <2> SUFFICES ASSUME Typed, AllAttended, NEW g \in Targets, ~Running(g), UpToDate(g)
               PROVE  Json(g) = Result(g)
    BY DEF GrammarJsonIsGenerated, Json
  <2>1. marker[g] = Hash(g) /\ marker[g] # None /\ Json(g) # None
    BY HashTypes, NoneAssumption, GenerateAssumption DEF UpToDate, Json, Artifacts, Typed
  <2>2. Json(g) \in MadeUnder(g, Hash(g))
    BY <2>1 DEF AllAttended, Attended, Running
  <2> QED
    BY <2>2, ResultMadeUnderHash
<1> QED
  BY <1>1, <1>2, <1>3, PTL DEF Spec
=============================================================================
