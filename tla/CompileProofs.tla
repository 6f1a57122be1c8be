---------------------------- MODULE CompileProofs ----------------------------
(***************************************************************************)
(* What TLAPS proves of module Compile, for any files, imports, contracts  *)
(* and configurations and any number of edits, tasks and processes; and of *)
(* module Downloader, for any number of processes, calls, failing requests *)
(* and stops; and of the two side by side, as MCCompile runs them.         *)
(***************************************************************************)
EXTENDS MCCompile, FiniteSetTheorems, TLAPS

-----------------------------------------------------------------------------
(* What a file reads.                                                      *)

\* The contents that an artifact of f was made from are those of f and of all it imports.
Whole(f, contents) ==
    /\ f \in DOMAIN contents /\ DOMAIN contents \subseteq Files
    /\ \A g \in DOMAIN contents : Imports[contents[g]] \intersect Files \subseteq DOMAIN contents
    /\ \A S \in SUBSET DOMAIN contents :
        f \in S /\ (\A g \in S : Imports[contents[g]] \intersect Files \subseteq S) => S = DOMAIN contents

\* A closed set has what is reachable from it; what is reachable is closed.
LEMMA ReachableInClosed ==
    ASSUME NEW graph, NEW from, NEW S \in SUBSET graph.node, from \subseteq S,
           \A e \in graph.edge : e[1] \in S => e[2] \in S
    PROVE  Reachable(graph, from) \subseteq S
<1>1. S \ from \in SUBSET (graph.node \ from) /\ from \union (S \ from) = S
  OBVIOUS
<1>2. \A g \in Reachable(graph, from) \ from : g \in S \ from
  BY <1>1 DEF Reachable
<1> QED
  BY <1>2

LEMMA ReachableIsClosed ==
    ASSUME NEW graph, NEW from \in SUBSET graph.node, graph.edge \subseteq graph.node \X graph.node
    PROVE  /\ from \subseteq Reachable(graph, from)
           /\ Reachable(graph, from) \subseteq graph.node
           /\ \A e \in graph.edge : e[1] \in Reachable(graph, from) => e[2] \in Reachable(graph, from)
<1> DEFINE others == graph.node \ from
           closed == {S \in SUBSET others : \A e \in graph.edge : e[1] \in from \union S => e[2] \in from \union S}
<1>1. Reachable(graph, from) = from \union {g \in others : \A S \in closed : g \in S}
  BY DEF Reachable
<1>2. ASSUME NEW e \in graph.edge, e[1] \in Reachable(graph, from), e[2] \notin from
      PROVE  e[2] \in Reachable(graph, from)
  <2>1. e[1] \in graph.node /\ e[2] \in others
    BY <1>2
  <2>2. ASSUME NEW S \in closed PROVE e[2] \in S
    <3>1. e[1] \in from \union S
      BY <1>1, <1>2
    <3> QED
      BY <1>2, <3>1
  <2> QED
    BY <1>1, <2>1, <2>2
<1>3. from \subseteq Reachable(graph, from) /\ Reachable(graph, from) \subseteq graph.node
  BY <1>1
<1> QED
  BY <1>2, <1>3

\* The graph of the files that are there.
LEMMA GraphLemma ==
    ASSUME NEW read
    PROVE  /\ GraphOf(read).node = {f \in Files : read[f] # Missing}
           /\ GraphOf(read).edge \subseteq GraphOf(read).node \X GraphOf(read).node
           /\ \A f, g \in GraphOf(read).node : <<f, g>> \in GraphOf(read).edge <=> g \in Imports[read[f]]
BY DEF GraphOf

LEMMA ResolvedLemma ==
    ASSUME NEW read
    PROVE  /\ Resolved(read) \subseteq {f \in Files : read[f] # Missing}
           /\ \A f \in Sources : read[f] # Missing => f \in Resolved(read)
<1>1. {f \in Sources : read[f] # Missing} \in SUBSET GraphOf(read).node
  BY GraphLemma DEF Files
<1> QED
  BY <1>1, GraphLemma, ReachableIsClosed DEF Resolved

LEMMA ReadsLemma ==
    ASSUME NEW read, NEW f \in Resolved(read)
    PROVE  f \in Reads(read, f) /\ Reads(read, f) \subseteq Resolved(read)
<1> DEFINE G == GraphOf(read)
           from == {s \in Sources : read[s] # Missing}
<1>1. f \in G.node /\ {f} \in SUBSET G.node /\ from \in SUBSET G.node
  BY ResolvedLemma, GraphLemma DEF Files
<1>2. f \in Reads(read, f) /\ Reads(read, f) \subseteq G.node
  BY <1>1, GraphLemma, ReachableIsClosed DEF Reads
<1>3. /\ Resolved(read) \in SUBSET G.node
      /\ \A e \in G.edge : e[1] \in Resolved(read) => e[2] \in Resolved(read)
  BY <1>1, GraphLemma, ReachableIsClosed DEF Resolved
<1>4. Reachable(G, {f}) \subseteq Resolved(read)
  BY <1>3, ReachableInClosed
<1> QED
  BY <1>2, <1>4 DEF Reads

\* When every import is there, a file reads its imports, and theirs.
LEMMA ReadsAreClosed ==
    ASSUME NEW read, Resolves(read), NEW f \in Resolved(read), NEW g \in Reads(read, f)
    PROVE  Imports[read[g]] \intersect Files \subseteq Reads(read, f)
<1> SUFFICES ASSUME NEW h \in Imports[read[g]] \intersect Files PROVE h \in Reads(read, f)
  OBVIOUS
<1>1. {f} \in SUBSET GraphOf(read).node
  BY ResolvedLemma, GraphLemma
<1>2. g \in Resolved(read)
  BY ReadsLemma
<1>3. read[h] # Missing
  BY <1>2 DEF Resolves
<1>4. <<g, h>> \in GraphOf(read).edge
  BY <1>2, <1>3, GraphLemma, ResolvedLemma
<1>5. <<g, h>>[1] \in Reads(read, f) => <<g, h>>[2] \in Reads(read, f)
  BY <1>1, <1>4, GraphLemma, ReachableIsClosed DEF Reads
<1> QED
  BY <1>5

LEMMA ReadsAreWhole ==
    ASSUME NEW read, Resolves(read), NEW f \in Resolved(read)
    PROVE  Whole(f, [g \in Reads(read, f) |-> read[g]])
<1> DEFINE A == [g \in Reads(read, f) |-> read[g]]
<1>1. f \in DOMAIN A /\ DOMAIN A \subseteq Files
  BY ReadsLemma, ResolvedLemma
<1>2. \A g \in DOMAIN A : Imports[A[g]] \intersect Files \subseteq DOMAIN A
  BY ReadsAreClosed
<1>3. ASSUME NEW S \in SUBSET DOMAIN A, f \in S, \A g \in S : Imports[A[g]] \intersect Files \subseteq S
      PROVE  S = DOMAIN A
  <2>1. S \in SUBSET GraphOf(read).node
    BY ReadsLemma, ResolvedLemma, GraphLemma
  <2>2. ASSUME NEW e \in GraphOf(read).edge, e[1] \in S PROVE e[2] \in S
    <3>1. e[1] \in GraphOf(read).node /\ e[2] \in GraphOf(read).node /\ e = <<e[1], e[2]>>
      BY GraphLemma
    <3>2. e[2] \in Imports[read[e[1]]] /\ e[2] \in Files
      BY <3>1, GraphLemma
    <3> QED
      BY <1>3, <2>2, <3>2
  <2>3. Reachable(GraphOf(read), {f}) \subseteq S
    BY <1>3, <2>1, <2>2, ReachableInClosed
  <2> QED
    BY <2>3 DEF Reads
<1> QED
  BY <1>1, <1>2, <1>3 DEF Whole

\* Contents that agree with the files now, as far as both go, are those that the file reads now.
LEMMA WholeIsReads ==
    ASSUME NEW read, Resolves(read), NEW f \in Resolved(read), NEW A, Whole(f, A),
           \A g \in Reads(read, f) \intersect DOMAIN A : A[g] = read[g]
    PROVE  DOMAIN A = Reads(read, f)
<1> DEFINE S == Reads(read, f) \intersect DOMAIN A
<1>1. S = DOMAIN A
  <2>1. f \in S /\ S \in SUBSET DOMAIN A
    BY ReadsLemma DEF Whole
  <2>2. ASSUME NEW g \in S PROVE Imports[A[g]] \intersect Files \subseteq S
    <3>1. A[g] = read[g]
      BY <2>2
    <3>2. Imports[read[g]] \intersect Files \subseteq Reads(read, f)
      BY ReadsAreClosed
    <3> QED
      BY <2>2, <3>1, <3>2 DEF Whole
  <2> QED
    BY <2>1, <2>2 DEF Whole
<1>2. Reads(read, f) \subseteq DOMAIN A
  <2>1. DOMAIN A \in SUBSET GraphOf(read).node
    BY <1>1, ReadsLemma, ResolvedLemma, GraphLemma
  <2>2. ASSUME NEW e \in GraphOf(read).edge, e[1] \in DOMAIN A PROVE e[2] \in DOMAIN A
    <3>1. e[1] \in GraphOf(read).node /\ e[2] \in GraphOf(read).node /\ e = <<e[1], e[2]>>
      BY GraphLemma
    <3>2. e[2] \in Imports[read[e[1]]] /\ e[2] \in Files
      BY <3>1, GraphLemma
    <3>3. A[e[1]] = read[e[1]]
      BY <1>1, <2>2
    <3> QED
      BY <2>2, <3>2, <3>3 DEF Whole
  <2>3. {f} \subseteq DOMAIN A
    BY DEF Whole
  <2> QED
    BY <2>1, <2>2, <2>3, ReachableInClosed DEF Reads
<1> QED
  BY <1>1, <1>2

-----------------------------------------------------------------------------
(* The jobs.                                                               *)

\* A job compiles each file it emits with all the file reads, and with the compiler for it.
GoodJob(read, job) ==
    /\ job.emits \subseteq job.files /\ job.files \subseteq Resolved(read)
    /\ \A f \in job.emits : job.config = CompilerFor(read, f) /\ Reads(read, f) \subseteq job.files

LEMMA JobForIsGood ==
    ASSUME NEW read, NEW f \in Resolved(read)
    PROVE  GoodJob(read, JobFor(read, f)) /\ f \in JobFor(read, f).emits
BY ReadsLemma DEF GoodJob, JobFor

LEMMA MergeIsGood ==
    ASSUME NEW read, NEW jobs, NEW c, jobs # {}, \A j \in jobs : GoodJob(read, j) /\ j.config = c
    PROVE  /\ GoodJob(read, Merge(jobs)) /\ Merge(jobs).config = c
           /\ \A j \in jobs : j.emits \subseteq Merge(jobs).emits
<1> DEFINE first == CHOOSE j \in jobs : TRUE
<1>1. first \in jobs
  OBVIOUS
<1>2. /\ Merge(jobs).config = first.config /\ Merge(jobs).files = UNION {j.files : j \in jobs}
      /\ Merge(jobs).emits = UNION {j.emits : j \in jobs}
  BY DEF Merge
<1>3. Merge(jobs).config = c
  BY <1>1, <1>2
<1> HIDE DEF first
<1> QED
  BY <1>2, <1>3 DEF GoodJob

\* Merging keeps jobs good and leaves none out; of none it makes none.
LEMMA MergedJobs ==
    ASSUME NEW read, NEW jobs, NEW mergeable \in BOOLEAN, \A j \in jobs : GoodJob(read, j)
    PROVE  /\ \A m \in MergeJobs(jobs, mergeable) : GoodJob(read, m)
           /\ \A j \in jobs : \E m \in MergeJobs(jobs, mergeable) : j.emits \subseteq m.emits
           /\ jobs = {} => MergeJobs(jobs, mergeable) = {}
<1> DEFINE With(c) == {j \in jobs : j.config = c}
           merging == {k \in jobs : HasBug(k.config) = mergeable}
<1>1. MergeJobs(jobs, mergeable) =
        {j \in jobs : HasBug(j.config) # mergeable} \union {Merge(With(c)) : c \in {j.config : j \in merging}}
  BY DEF MergeJobs
<1>2. ASSUME NEW k \in merging
      PROVE  /\ GoodJob(read, Merge(With(k.config)))
             /\ k.emits \subseteq Merge(With(k.config)).emits
  <2>1. k \in With(k.config)
    OBVIOUS
  <2>2. \A j \in With(k.config) : GoodJob(read, j) /\ j.config = k.config
    OBVIOUS
  <2> HIDE DEF With
  <2> QED
    BY <2>1, <2>2, MergeIsGood
<1>3. \A m \in MergeJobs(jobs, mergeable) : GoodJob(read, m)
  <2> HIDE DEF With
  <2> QED
    BY <1>1, <1>2
<1>4. ASSUME NEW j \in jobs PROVE \E m \in MergeJobs(jobs, mergeable) : j.emits \subseteq m.emits
  <2>1. CASE HasBug(j.config) # mergeable
    BY <1>1, <2>1
  <2>2. CASE HasBug(j.config) = mergeable
    <3>1. j \in merging
      BY <2>2
    <3> HIDE DEF With, merging
    <3>2. Merge(With(j.config)) \in MergeJobs(jobs, mergeable)
      <4>1. Merge(With(j.config)) \in {Merge(With(c)) : c \in {k.config : k \in merging}}
        BY <3>1
      <4> QED
        BY <1>1, <4>1
    <3>3. j.emits \subseteq Merge(With(j.config)).emits
      BY <1>2, <3>1
    <3> QED
      BY <3>2, <3>3
  <2> QED
    BY <2>1, <2>2
<1>5. jobs = {} => MergeJobs(jobs, mergeable) = {}
  BY <1>1
<1> QED
  BY <1>3, <1>4, <1>5

LEMMA ComponentLemma ==
    ASSUME NEW read, NEW f \in Resolved(read)
    PROVE  f \in Component(read, f) /\ Component(read, f) \subseteq Resolved(read)
<1> DEFINE resolved == Resolved(read)
           edge == {e \in GraphOf(read).edge : e \in resolved \X resolved}
           graph == [node |-> resolved, edge |-> edge \union {<<e[2], e[1]>> : e \in edge}]
<1>1. graph.edge \subseteq graph.node \X graph.node
  OBVIOUS
<1>2. {f} \in SUBSET graph.node
  OBVIOUS
<1>3. Component(read, f) = Reachable(graph, {f})
  BY DEF Component
<1>4. graph.node = Resolved(read)
  OBVIOUS
<1> HIDE DEF graph
<1> QED
  BY <1>1, <1>2, <1>3, <1>4, ReachableIsClosed

LEMMA CreatedJobs ==
    ASSUME NEW read
    PROVE  /\ \A j \in CreateJobs(read) : GoodJob(read, j)
           /\ \A f \in Resolved(read) : \E j \in CreateJobs(read) : f \in j.emits
<1> DEFINE Of(g) == {JobFor(read, f) : f \in Component(read, g)}
<1>1. ASSUME NEW g \in Resolved(read)
      PROVE  /\ \A j \in Of(g) : GoodJob(read, j)
             /\ \E j \in Of(g) : g \in j.emits
  BY JobForIsGood, ComponentLemma
<1>2. CreateJobs(read) = UNION {MergeJobs(Of(g), TRUE) : g \in Resolved(read)}
  BY DEF CreateJobs
<1> HIDE DEF Of
<1>3. ASSUME NEW g \in Resolved(read)
      PROVE  /\ \A m \in MergeJobs(Of(g), TRUE) : GoodJob(read, m)
             /\ \A j \in Of(g) : \E m \in MergeJobs(Of(g), TRUE) : j.emits \subseteq m.emits
  BY <1>1, MergedJobs
<1>4. ASSUME NEW j \in CreateJobs(read) PROVE GoodJob(read, j)
  BY <1>2, <1>3
<1>5. ASSUME NEW f \in Resolved(read) PROVE \E j \in CreateJobs(read) : f \in j.emits
  <2>1. PICK j \in Of(f) : f \in j.emits
    BY <1>1
  <2>2. PICK m \in MergeJobs(Of(f), TRUE) : j.emits \subseteq m.emits
    BY <1>3
  <2> QED
    BY <1>2, <2>1, <2>2
<1> QED
  BY <1>4, <1>5

\* What is known of a file, and of all it reads, is what there is now.
Spared(read, known, f) ==
    /\ \A g \in Reads(read, f) : g \in DOMAIN known /\ known[g].content = read[g]
    /\ known[f].config = CompilerFor(read, f)

\* The jobs to compile are good, and have every file that is not as it was; when all are as
\* they were there are none.
LEMMA JobsLemma ==
    ASSUME NEW read, NEW known, NEW force \in BOOLEAN,
           \A f \in Resolved(read) : CompilerFor(read, f) # NoConfig
    PROVE  /\ \A j \in JobsToCompile(read, known, force) : GoodJob(read, j)
           /\ \A f \in Resolved(read) :
                Spared(read, known, f) \/ \E j \in JobsToCompile(read, known, force) : f \in j.emits
           /\ (~ force /\ \A f \in Resolved(read) : Spared(read, known, f))
                => JobsToCompile(read, known, force) = {}
<1> DEFINE needed == {j \in CreateJobs(read) : force \/ NeedsCompilation(read, known, j)}
<1>1. JobsToCompile(read, known, force) = MergeJobs(needed, FALSE)
  BY DEF JobsToCompile
<1>2. \A j \in needed : GoodJob(read, j)
  BY CreatedJobs
<1>3. ASSUME NEW f \in Resolved(read), ~ Spared(read, known, f) PROVE \E j \in needed : f \in j.emits
  <2>1. PICK j \in CreateJobs(read) : f \in j.emits
    BY CreatedJobs
  <2>2. GoodJob(read, j)
    BY CreatedJobs
  <2>3. ASSUME ~ NeedsCompilation(read, known, j) PROVE FALSE
    <3>1. \A g \in j.files : g \in DOMAIN known /\ known[g].content = read[g]
      BY <2>3 DEF NeedsCompilation, HasFileChanged
    <3>2. f \in j.files /\ Reads(read, f) \subseteq j.files /\ j.config = CompilerFor(read, f)
      BY <2>1, <2>2 DEF GoodJob
    <3>3. ~ HasFileChanged(known, f, read[f], j.config)
      BY <2>1, <2>3, <3>2 DEF NeedsCompilation
    <3>4. known[f].config = CompilerFor(read, f)
      BY <3>2, <3>3 DEF HasFileChanged
    <3> QED
      BY <1>3, <3>1, <3>2, <3>4 DEF Spared
  <2> QED
    BY <2>1, <2>3
<1>4. ASSUME ~ force, \A f \in Resolved(read) : Spared(read, known, f) PROVE needed = {}
  <2> SUFFICES ASSUME NEW j \in CreateJobs(read), NeedsCompilation(read, known, j) PROVE FALSE
    BY <1>4
  <2>1. GoodJob(read, j)
    BY CreatedJobs
  <2>2. PICK f \in j.files : HasFileChanged(known, f, read[f], IF f \in j.emits THEN j.config ELSE NoConfig)
    BY DEF NeedsCompilation
  <2>3. f \in Resolved(read) /\ (f \in j.emits => j.config = CompilerFor(read, f))
    BY <2>1 DEF GoodJob
  <2>4. f \in DOMAIN known /\ known[f].content = read[f] /\ known[f].config = CompilerFor(read, f)
    BY <1>4, <2>3, ReadsLemma DEF Spared
  <2> QED
    BY <2>2, <2>3, <2>4 DEF HasFileChanged
<1> HIDE DEF needed
<1>5. /\ \A m \in MergeJobs(needed, FALSE) : GoodJob(read, m)
      /\ \A j \in needed : \E m \in MergeJobs(needed, FALSE) : j.emits \subseteq m.emits
      /\ needed = {} => MergeJobs(needed, FALSE) = {}
  BY <1>2, MergedJobs
<1>6. ASSUME NEW f \in Resolved(read), ~ Spared(read, known, f)
      PROVE  \E m \in MergeJobs(needed, FALSE) : f \in m.emits
  <2>1. PICK j \in needed : f \in j.emits
    BY <1>3, <1>6
  <2>2. PICK m \in MergeJobs(needed, FALSE) : j.emits \subseteq m.emits
    BY <1>5
  <2> QED
    BY <2>1, <2>2
<1>7. (~ force /\ \A f \in Resolved(read) : Spared(read, known, f)) => MergeJobs(needed, FALSE) = {}
  BY <1>4, <1>5
<1> QED
  BY <1>1, <1>5, <1>6, <1>7

-----------------------------------------------------------------------------
(* The invariant.                                                          *)

\* An artifact was made from a file and all it imported then.
IsOrigin(f, origin) ==
    /\ origin = [contents |-> [g \in DOMAIN origin.contents |-> origin.contents[g]], config |-> origin.config]
    /\ Whole(f, origin.contents)

\* The build info is one that has what the artifact was made from.
Covers(info, origin) ==
    /\ info.config = origin.config
    /\ \A g \in DOMAIN origin.contents : g \in DOMAIN info.input /\ info.input[g] = origin.contents[g]

\* What the cache file says of a file is true of the artifact; of the other files that the
\* artifact was made from it is, unless the file was left out.
IsRecorded(f, origin) ==
    /\ origin.contents[f] = cache[f].content /\ origin.config = cache[f].config
    /\ f \notin leftOut =>
        \A g \in DOMAIN origin.contents \intersect DOMAIN cache : origin.contents[g] = cache[g].content

ArtifactsInv ==
    /\ \A n \in DOMAIN artifacts : IsOrigin(n[1], artifacts[n])
    /\ \A n \in DOMAIN debugFiles : n[1] \in DOMAIN debugFiles[n].input /\ debugFiles[n] \in buildInfos

CacheInv ==
    /\ DOMAIN cache \subseteq Files /\ unrecorded \subseteq Files /\ leftOut \subseteq Files
    /\ \A f \in DOMAIN cache : cache[f].artifacts = Contracts[cache[f].content]
    /\ \A f \in DOMAIN cache \ unrecorded : \A c \in cache[f].artifacts : <<f, c>> \in DOMAIN artifacts =>
        /\ IsRecorded(f, artifacts[<<f, c>>])
        /\ <<f, c>> \in DOMAIN debugFiles /\ Covers(debugFiles[<<f, c>>], artifacts[<<f, c>>])

Fields == {"phase", "force", "read", "known", "waiting", "emitting", "emitted", "failed"}

TaskInv ==
    /\ task.phase \in {"idle", "compiling", "recorded", "removed", "done"}
    /\ task.phase # "idle" =>
        /\ DOMAIN task = Fields
        /\ Resolves(task.read)
        /\ \A f \in Resolved(task.read) : CompilerFor(task.read, f) # NoConfig

\* What a task knows is in the cache file, and the artifacts are there.
KnownInv ==
    task.phase = "compiling" =>
        /\ \A f \in DOMAIN task.known :
            f \in DOMAIN cache /\ task.known[f] = cache[f] /\ task.read[f] # Missing
        /\ \A f \in DOMAIN task.known \intersect Resolved(task.read) :
            \A c \in task.known[f].artifacts : <<f, c>> \in DOMAIN artifacts

JobsInv ==
    task.phase = "compiling" =>
        /\ \A j \in task.waiting : GoodJob(task.read, j)
        /\ \A e \in task.emitting :
            /\ GoodJob(task.read, e[1]) /\ e[2] \in e[1].emits /\ e[2] \in DOMAIN task.emitted
            /\ InfoOf(task.read, e[1]) \in buildInfos
        /\ task.failed \/ \A f \in Resolved(task.read) :
            f \in DOMAIN task.emitted \/ Spared(task.read, task.known, f) \/ \E j \in task.waiting : f \in j.emits

Compiled(read, f) == Origin(read, f, CompilerFor(read, f))

ArtifactsWritten(read, f) ==
    \A n \in Names(read, f) : n \in DOMAIN artifacts /\ artifacts[n] = Compiled(read, f)

DebugFilesWritten(read, f) ==
    \A n \in Names(read, f) : n \in DOMAIN debugFiles /\ Covers(debugFiles[n], Compiled(read, f))

EmittedInv ==
    task.phase = "compiling" =>
        \A f \in DOMAIN task.emitted :
            /\ f \in Resolved(task.read)
            /\ task.emitted[f].content = task.read[f]
            /\ task.emitted[f].config = CompilerFor(task.read, f)
            /\ task.emitted[f].artifacts = Contracts[task.read[f]]
            /\ (\A e \in task.emitting : e[2] = f => e[3] # "artifact") => ArtifactsWritten(task.read, f)
            /\ (\A e \in task.emitting : e[2] = f => e[3] # "debug") => DebugFilesWritten(task.read, f)

InCache == UNION {{<<f, c>> : c \in cache[f].artifacts} : f \in DOMAIN cache}

\* Once the cache file is written it has the files as the task read them, and nothing of
\* what is gone.
RecordedInv ==
    task.phase \in {"recorded", "removed", "done"} =>
        /\ \A f \in DOMAIN cache : task.read[f] # Missing
        /\ \A f \in Resolved(task.read) : f \in DOMAIN cache
            /\ cache[f].content = task.read[f] /\ cache[f].config = CompilerFor(task.read, f)
        /\ InCache \subseteq valid /\ (~ compiled => valid = InCache)
        /\ task.phase # "recorded" => DOMAIN artifacts = valid

FirstInv == ~ compiled /\ task.phase \in {"idle", "compiling"} => valid = {}

CompileInv ==
    /\ ArtifactsInv /\ CacheInv /\ TaskInv
    /\ KnownInv /\ JobsInv /\ EmittedInv /\ RecordedInv /\ FirstInv

-----------------------------------------------------------------------------
(* It implies the properties.                                              *)

LEMMA CompileTypes == ArtifactsInv /\ CacheInv /\ TaskInv => TypeOK
BY DEF ArtifactsInv, CacheInv, TaskInv, TypeOK, IsOrigin, Whole

LEMMA AgreeImplied == CompileInv => FilesAgree
<1> SUFFICES ASSUME CompileInv PROVE FilesAgree
  OBVIOUS
<1>1. CacheIsTrue
  BY DEF CompileInv, CacheInv, IsRecorded, CacheIsTrue
<1>2. BuildInfosAreThere
  BY DEF CompileInv, ArtifactsInv, BuildInfosAreThere
<1>3. NothingObsolete
  <2> SUFFICES ASSUME task.phase = "done", ~ compiled, NEW n \in DOMAIN artifacts
               PROVE  /\ task.read[n[1]] # Missing
                      /\ n[1] \in Resolved(task.read) => n \in Names(task.read, n[1])
    BY DEF NothingObsolete
  <2>1. n \in InCache
    BY DEF CompileInv, RecordedInv
  <2>2. PICK f \in DOMAIN cache : \E c \in cache[f].artifacts : n = <<f, c>>
    BY <2>1 DEF InCache
  <2>3. PICK c \in cache[f].artifacts : n = <<f, c>>
    BY <2>2
  <2>4. n[1] = f
    BY <2>3
  <2>5. task.read[f] # Missing
    BY DEF CompileInv, RecordedInv
  <2>6. ASSUME f \in Resolved(task.read) PROVE n \in Names(task.read, f)
    <3>1. cache[f].content = task.read[f] /\ cache[f].artifacts = Contracts[cache[f].content]
      BY <2>6 DEF CompileInv, RecordedInv, CacheInv
    <3> QED
      BY <2>3, <3>1 DEF Names
  <2> QED
    BY <2>4, <2>5, <2>6
<1> QED
  BY <1>1, <1>2, <1>3 DEF FilesAgree, FolderIsTidy

LEMMA CompleteImplied == CompileInv => TasksAreComplete
<1> SUFFICES ASSUME CompileInv PROVE TasksAreComplete
  OBVIOUS
<1>1. ASSUME task.phase = "done", NEW f \in Resolved(task.read)
      PROVE  /\ f \in DOMAIN cache /\ cache[f].content = task.read[f]
             /\ cache[f].config = CompilerFor(task.read, f)
             /\ cache[f].artifacts = Contracts[task.read[f]]
             /\ \A c \in cache[f].artifacts : <<f, c>> \in DOMAIN artifacts
  <2>1. f \in DOMAIN cache /\ cache[f].content = task.read[f] /\ cache[f].config = CompilerFor(task.read, f)
    BY <1>1 DEF CompileInv, RecordedInv
  <2>2. cache[f].artifacts = Contracts[task.read[f]]
    BY <2>1 DEF CompileInv, CacheInv
  <2>3. InCache \subseteq DOMAIN artifacts
    BY <1>1 DEF CompileInv, RecordedInv
  <2> QED
    BY <2>1, <2>2, <2>3 DEF InCache
<1>2. ArtifactsAreCurrent
  <2> SUFFICES ASSUME task.phase = "done", NEW f \in Resolved(task.read) \ (unrecorded \union leftOut),
                      NEW n \in Names(task.read, f)
               PROVE  /\ n \in DOMAIN artifacts /\ artifacts[n] = Compiled(task.read, f)
                      /\ n \in DOMAIN debugFiles /\ debugFiles[n].config = Compiled(task.read, f).config
                      /\ \A g \in DOMAIN Compiled(task.read, f).contents :
                            debugFiles[n].input[g] = Compiled(task.read, f).contents[g]
    BY DEF ArtifactsAreCurrent, Current, Compiled
  <2>1. PICK c \in Contracts[task.read[f]] : n = <<f, c>>
    BY DEF Names
  <2>2. /\ f \in DOMAIN cache \ unrecorded /\ c \in cache[f].artifacts /\ n \in DOMAIN artifacts
        /\ cache[f].config = CompilerFor(task.read, f)
    BY <1>1, <2>1
  <2>3. IsRecorded(f, artifacts[n]) /\ n \in DOMAIN debugFiles /\ Covers(debugFiles[n], artifacts[n])
    BY <2>1, <2>2 DEF CompileInv, CacheInv
  <2>4. IsOrigin(f, artifacts[n])
    BY <2>1, <2>2 DEF CompileInv, ArtifactsInv
  <2>5. Resolves(task.read)
    BY DEF CompileInv, TaskInv
  <2>6. ASSUME NEW g \in Reads(task.read, f) \intersect DOMAIN artifacts[n].contents
        PROVE  artifacts[n].contents[g] = task.read[g]
    <3>1. g \in Resolved(task.read)
      BY ReadsLemma
    <3> QED
      BY <1>1, <2>3, <3>1 DEF IsRecorded
  <2>7. DOMAIN artifacts[n].contents = Reads(task.read, f)
    BY <2>4, <2>5, <2>6, WholeIsReads DEF IsOrigin
  <2>8. artifacts[n].contents = [g \in Reads(task.read, f) |-> task.read[g]]
    BY <2>4, <2>6, <2>7 DEF IsOrigin
  <2>9. artifacts[n] = Compiled(task.read, f)
    BY <2>2, <2>3, <2>4, <2>8 DEF IsOrigin, IsRecorded, Compiled, Origin
  <2> QED
    BY <2>2, <2>3, <2>9 DEF Covers
<1>3. NothingLeftToCompile
  <2> SUFFICES ASSUME task.phase = "done", sources = task.read
               PROVE  JobsToCompile(sources, KnownFiles(sources), FALSE) = {}
    BY DEF NothingLeftToCompile
  <2> DEFINE known == KnownFiles(sources)
  <2>1. ASSUME NEW f \in Resolved(sources) PROVE f \in DOMAIN known /\ known[f] = cache[f]
    <3>1. sources[f] # Missing
      BY ResolvedLemma
    <3> QED
      BY <1>1, <3>1 DEF KnownFiles, RestrictTo
  <2>2. ASSUME NEW f \in Resolved(sources) PROVE Spared(sources, known, f)
    BY <1>1, <2>1, ReadsLemma DEF Spared
  <2>3. \A f \in Resolved(sources) : CompilerFor(sources, f) # NoConfig
    BY DEF CompileInv, TaskInv
  <2> HIDE DEF known
  <2> QED
    BY <2>2, <2>3, JobsLemma DEF known
<1> QED
  BY <1>2, <1>3 DEF TasksAreComplete

-----------------------------------------------------------------------------
(* Every step keeps it.                                                    *)

disk == <<cache, artifacts, debugFiles, buildInfos, unrecorded, leftOut>>

LEMMA OverrideLemma ==
    ASSUME NEW f, NEW g
    PROVE  /\ DOMAIN Override(f, g) = DOMAIN f \union DOMAIN g
           /\ \A x \in DOMAIN g : Override(f, g)[x] = g[x]
           /\ \A x \in DOMAIN f \ DOMAIN g : Override(f, g)[x] = f[x]
BY DEF Override

LEMMA RestrictLemma ==
    ASSUME NEW f, NEW S
    PROVE  /\ DOMAIN RestrictTo(f, S) = DOMAIN f \intersect S
           /\ \A x \in DOMAIN f \intersect S : RestrictTo(f, S)[x] = f[x]
BY DEF RestrictTo

\* The compiler for a file is that of the configuration.
LEMMA CompilerKept ==
    ASSUME UNCHANGED config PROVE \A read, f : CompilerFor(read, f)' = CompilerFor(read, f)
BY DEF CompilerFor

LEMMA GoodJobKept ==
    ASSUME UNCHANGED config PROVE \A read, j : GoodJob(read, j)' <=> GoodJob(read, j)
BY CompilerKept DEF GoodJob

LEMMA SparedKept ==
    ASSUME UNCHANGED config PROVE \A read, known, f : Spared(read, known, f)' <=> Spared(read, known, f)
BY CompilerKept DEF Spared

LEMMA DiskKept == ArtifactsInv /\ CacheInv /\ UNCHANGED disk => ArtifactsInv' /\ CacheInv'
BY DEF ArtifactsInv, CacheInv, IsRecorded, disk

\* A step that ends the task, or starts another process, keeps what is said of the task.
LEMMA IdleStep ==
    ASSUME task'.phase = "idle", compiled' \/ valid' = {}
    PROVE  TaskInv' /\ KnownInv' /\ JobsInv' /\ EmittedInv' /\ RecordedInv' /\ FirstInv'
BY DEF TaskInv, KnownInv, JobsInv, EmittedInv, RecordedInv, FirstInv

LEMMA CompileInit == Init => CompileInv
<1> SUFFICES ASSUME Init PROVE CompileInv
  OBVIOUS
<1>1. task.phase = "idle" /\ valid = {} /\ cache = <<>> /\ artifacts = <<>> /\ debugFiles = <<>>
      /\ unrecorded = {} /\ leftOut = {}
  BY DEF Init, Idle
<1>2. ArtifactsInv /\ CacheInv
  BY <1>1 DEF ArtifactsInv, CacheInv
<1>3. TaskInv /\ KnownInv /\ JobsInv /\ EmittedInv /\ RecordedInv /\ FirstInv
  BY <1>1 DEF TaskInv, KnownInv, JobsInv, EmittedInv, RecordedInv, FirstInv
<1> QED
  BY <1>2, <1>3 DEF CompileInv

\* A step that leaves all that the invariant is about.
LEMMA AllKept ==
    CompileInv /\ UNCHANGED <<disk, config, task, valid, compiled>> => CompileInv'
<1> SUFFICES ASSUME CompileInv, UNCHANGED <<disk, config, task, valid, compiled>> PROVE CompileInv'
  OBVIOUS
<1> USE CompilerKept, GoodJobKept, SparedKept
<1>1. ArtifactsInv' /\ CacheInv'
  BY DiskKept DEF CompileInv
<1>2. TaskInv'
  BY DEF CompileInv, TaskInv, Resolves, Resolved, GraphOf, Reachable
<1>3. KnownInv' /\ JobsInv'
  BY DEF CompileInv, KnownInv, JobsInv, disk
<1>4. EmittedInv'
  BY DEF CompileInv, EmittedInv, disk, ArtifactsWritten, DebugFilesWritten, Covers, Compiled
<1>5. RecordedInv' /\ FirstInv'
  BY DEF CompileInv, RecordedInv, FirstInv, disk, InCache
<1> QED
  BY <1>1, <1>2, <1>3, <1>4, <1>5 DEF CompileInv

LEMMA StartStep ==
    ASSUME CompileInv, NEW force \in BOOLEAN, StartCompile(force)
    PROVE  CompileInv'
<1> DEFINE read == sources
           known == KnownFiles(read)
<1> USE CompilerKept, GoodJobKept, SparedKept
<1>1. /\ task'.phase = "compiling" /\ task'.read = read /\ task'.known = known
      /\ task'.waiting = JobsToCompile(read, known, force) /\ task'.emitting = {} /\ DOMAIN task'.emitted = {}
      /\ DOMAIN task' = Fields
  BY DEF StartCompile, Fields
<1>2. UNCHANGED <<disk, config, valid>>
  BY DEF StartCompile, disk
<1>3. Resolves(read) /\ \A f \in Resolved(read) : CompilerFor(read, f) # NoConfig
  BY DEF StartCompile
<1>4. ArtifactsInv' /\ CacheInv'
  BY <1>2, DiskKept DEF CompileInv
<1>5. \A f \in DOMAIN known : f \in DOMAIN cache /\ known[f] = cache[f] /\ read[f] # Missing
      /\ (f \in Resolved(read) => \A c \in cache[f].artifacts : <<f, c>> \in DOMAIN artifacts)
  BY DEF KnownFiles, RestrictTo
<1>6. /\ \A j \in JobsToCompile(read, known, force) : GoodJob(read, j)
      /\ \A f \in Resolved(read) :
            Spared(read, known, f) \/ \E j \in JobsToCompile(read, known, force) : f \in j.emits
  BY <1>3, JobsLemma
<1> HIDE DEF read, known
<1>7. TaskInv'
  BY <1>1, <1>2, <1>3 DEF TaskInv
<1>8. KnownInv'
  BY <1>1, <1>2, <1>5 DEF KnownInv, disk
<1>9. JobsInv'
  BY <1>1, <1>2, <1>6 DEF JobsInv
<1>10. EmittedInv' /\ RecordedInv'
  BY <1>1 DEF EmittedInv, RecordedInv
<1>11. FirstInv'
  BY <1>1, <1>2 DEF FirstInv, CompileInv, StartCompile
<1> QED
  BY <1>4, <1>7, <1>8, <1>9, <1>10, <1>11 DEF CompileInv

LEMMA JobStep ==
    ASSUME CompileInv, NEW job, CompileJob(job)
    PROVE  CompileInv'
<1> DEFINE broken == \E f \in job.files : task.read[f] \in Broken
           entry(f) == [content |-> task.read[f], config |-> job.config, artifacts |-> Contracts[task.read[f]]]
<1> USE CompilerKept, GoodJobKept, SparedKept
<1>1. /\ task.phase = "compiling" /\ DOMAIN task = Fields /\ job \in task.waiting
      /\ UNCHANGED <<cache, artifacts, debugFiles, unrecorded, leftOut, config, valid, compiled>>
  BY DEF CompileJob, CompileInv, TaskInv
<1>2. /\ task'.phase = "compiling" /\ DOMAIN task' = Fields
      /\ task'.read = task.read /\ task'.known = task.known /\ task'.waiting = task.waiting \ {job}
      /\ broken => task'.emitting = task.emitting /\ task'.emitted = task.emitted /\ task'.failed
      /\ ~ broken => /\ task'.emitting = task.emitting \union {job} \X job.emits \X {"artifact", "debug"}
                     /\ task'.emitted = Override(task.emitted, [f \in job.emits |-> entry(f)])
                     /\ task'.failed = task.failed /\ buildInfos' = buildInfos \union {InfoOf(task.read, job)}
      /\ broken => buildInfos' = buildInfos
  BY <1>1 DEF CompileJob, Fields
<1>3. GoodJob(task.read, job)
  BY <1>1 DEF CompileInv, JobsInv
<1>4. buildInfos \subseteq buildInfos'
  BY <1>2
<1>5. ArtifactsInv' /\ CacheInv'
  BY <1>1, <1>4 DEF CompileInv, ArtifactsInv, CacheInv, IsRecorded
<1>6. TaskInv' /\ KnownInv' /\ RecordedInv' /\ FirstInv'
  BY <1>1, <1>2 DEF CompileInv, TaskInv, KnownInv, RecordedInv, FirstInv, Resolves, Resolved, GraphOf, Reachable
<1>7. ASSUME ~ broken
      PROVE  /\ DOMAIN task'.emitted = DOMAIN task.emitted \union job.emits
             /\ \A f \in job.emits : task'.emitted[f] = entry(f)
             /\ \A f \in DOMAIN task.emitted \ job.emits : task'.emitted[f] = task.emitted[f]
             /\ \A e \in task'.emitting : e \in task.emitting \/ (e[1] = job /\ e[2] \in job.emits)
             /\ \A f \in job.emits : <<job, f, "artifact">> \in task'.emitting /\ <<job, f, "debug">> \in task'.emitting
             /\ task.emitting \subseteq task'.emitting
  <2> DEFINE made == [f \in job.emits |-> entry(f)]
  <2>1. DOMAIN made = job.emits /\ \A f \in job.emits : made[f] = entry(f)
    OBVIOUS
  <2>2. task'.emitted = Override(task.emitted, made)
    BY <1>2, <1>7
  <2>3. task'.emitting = task.emitting \union ({job} \X job.emits \X {"artifact", "debug"})
    BY <1>2, <1>7
  <2> HIDE DEF made, entry
  <2>4. /\ DOMAIN task'.emitted = DOMAIN task.emitted \union job.emits
        /\ \A f \in job.emits : task'.emitted[f] = entry(f)
        /\ \A f \in DOMAIN task.emitted \ job.emits : task'.emitted[f] = task.emitted[f]
    <3>1. /\ DOMAIN Override(task.emitted, made) = DOMAIN task.emitted \union DOMAIN made
          /\ \A f \in DOMAIN made : Override(task.emitted, made)[f] = made[f]
          /\ \A f \in DOMAIN task.emitted \ DOMAIN made : Override(task.emitted, made)[f] = task.emitted[f]
      BY OverrideLemma
    <3> QED
      BY <2>1, <2>2, <3>1
  <2> QED
    BY <2>3, <2>4
<1>8. JobsInv'
  <2>1. \A j \in task'.waiting : GoodJob(task.read, j)
    BY <1>1, <1>2 DEF CompileInv, JobsInv
  <2>2. ASSUME NEW e \in task'.emitting
        PROVE  /\ GoodJob(task.read, e[1]) /\ e[2] \in e[1].emits /\ e[2] \in DOMAIN task'.emitted
               /\ InfoOf(task.read, e[1]) \in buildInfos'
    <3>1. CASE e \in task.emitting
      BY <1>1, <1>2, <1>4, <1>7, <3>1 DEF CompileInv, JobsInv
    <3>2. CASE e \notin task.emitting
      BY <1>2, <1>3, <1>7, <3>2
    <3> QED
      BY <3>1, <3>2
  <2>3. ASSUME ~ task'.failed, NEW f \in Resolved(task.read)
        PROVE  f \in DOMAIN task'.emitted \/ Spared(task.read, task.known, f) \/ \E j \in task'.waiting : f \in j.emits
    BY <1>1, <1>2, <1>7, <2>3 DEF CompileInv, JobsInv
  <2> QED
    BY <1>1, <1>2, <2>1, <2>2, <2>3 DEF JobsInv, InfoOf
<1>9. EmittedInv'
  <2> SUFFICES ASSUME NEW f \in DOMAIN task'.emitted
               PROVE  /\ f \in Resolved(task.read)
                      /\ task'.emitted[f].content = task.read[f]
                      /\ task'.emitted[f].config = CompilerFor(task.read, f)
                      /\ task'.emitted[f].artifacts = Contracts[task.read[f]]
                      /\ (\A e \in task'.emitting : e[2] = f => e[3] # "artifact") => ArtifactsWritten(task.read, f)
                      /\ (\A e \in task'.emitting : e[2] = f => e[3] # "debug") => DebugFilesWritten(task.read, f)
    BY <1>1, <1>2 DEF EmittedInv, ArtifactsWritten, DebugFilesWritten, Covers, Compiled
  <2>1. CASE ~ broken /\ f \in job.emits
    <3>1. f \in Resolved(task.read) /\ job.config = CompilerFor(task.read, f)
      BY <1>3, <2>1 DEF GoodJob
    <3>2. task'.emitted[f] = entry(f)
      BY <1>7, <2>1
    <3>3. <<job, f, "artifact">> \in task'.emitting /\ <<job, f, "debug">> \in task'.emitting
      BY <1>7, <2>1
    <3> QED
      BY <3>1, <3>2, <3>3
  <2>2. CASE ~ (~ broken /\ f \in job.emits)
    <3>1. f \in DOMAIN task.emitted /\ task'.emitted[f] = task.emitted[f] /\ task.emitting \subseteq task'.emitting
      BY <1>2, <1>7, <2>2
    <3> QED
      BY <1>1, <3>1 DEF CompileInv, EmittedInv
  <2> QED
    BY <2>1, <2>2
<1> QED
  BY <1>5, <1>6, <1>8, <1>9 DEF CompileInv

LEMMA NamesApart ==
    ASSUME NEW read, NEW f, NEW c, NEW g, <<f, c>> \in Names(read, g)
    PROVE  f = g
BY DEF Names

\* The file that is written is of a good job, and is taken as unrecorded.
LEMMA ArtifactsStep ==
    ASSUME CompileInv, NEW job, NEW f, EmitArtifacts(job, f)
    PROVE  CompileInv'
<1> DEFINE e0 == <<job, f, "artifact">>
           written == [n \in Names(task.read, f) |-> Origin(task.read, f, job.config)]
<1> USE CompilerKept, GoodJobKept, SparedKept
<1>1. /\ task.phase = "compiling" /\ DOMAIN task = Fields /\ e0 \in task.emitting
      /\ artifacts' = Override(artifacts, written) /\ unrecorded' = unrecorded \union {f}
      /\ UNCHANGED <<cache, debugFiles, buildInfos, leftOut, config, valid, compiled>>
  BY DEF EmitArtifacts, CompileInv, TaskInv
<1>2. /\ task'.phase = "compiling" /\ DOMAIN task' = Fields
      /\ task'.read = task.read /\ task'.known = task.known /\ task'.waiting = task.waiting
      /\ task'.emitting = task.emitting \ {e0} /\ task'.emitted = task.emitted /\ task'.failed = task.failed
  BY <1>1 DEF EmitArtifacts, Fields
<1>3. GoodJob(task.read, job) /\ f \in job.emits /\ f \in DOMAIN task.emitted
  BY <1>1 DEF CompileInv, JobsInv
<1>4. f \in Resolved(task.read) /\ job.config = CompilerFor(task.read, f)
  BY <1>3 DEF GoodJob
<1>5. /\ DOMAIN artifacts' = DOMAIN artifacts \union Names(task.read, f)
      /\ \A n \in Names(task.read, f) : artifacts'[n] = Compiled(task.read, f) /\ n[1] = f
      /\ \A n \in DOMAIN artifacts \ Names(task.read, f) : artifacts'[n] = artifacts[n]
  <2>1. DOMAIN written = Names(task.read, f) /\ \A n \in Names(task.read, f) : written[n] = Compiled(task.read, f)
    BY <1>4 DEF Compiled
  <2>2. \A n \in Names(task.read, f) : n[1] = f
    BY DEF Names
  <2> HIDE DEF written
  <2> QED
    <3>1. /\ DOMAIN Override(artifacts, written) = DOMAIN artifacts \union DOMAIN written
          /\ \A n \in DOMAIN written : Override(artifacts, written)[n] = written[n]
          /\ \A n \in DOMAIN artifacts \ DOMAIN written : Override(artifacts, written)[n] = artifacts[n]
      BY OverrideLemma
    <3> QED
      BY <1>1, <2>1, <2>2, <3>1
<1>6. IsOrigin(f, Compiled(task.read, f))
  <2>1. Resolves(task.read)
    BY <1>1 DEF CompileInv, TaskInv
  <2> QED
    BY <1>4, <2>1, ReadsAreWhole DEF IsOrigin, Compiled, Origin
<1>7. ArtifactsInv'
  BY <1>1, <1>5, <1>6 DEF CompileInv, ArtifactsInv
<1>8. CacheInv'
  <2>1. f \in Files
    BY <1>4, ResolvedLemma
  <2>2. ASSUME NEW g \in DOMAIN cache \ unrecorded', NEW c \in cache[g].artifacts, <<g, c>> \in DOMAIN artifacts'
        PROVE  g \notin unrecorded /\ <<g, c>> \in DOMAIN artifacts /\ artifacts'[<<g, c>>] = artifacts[<<g, c>>]
    BY <1>1, <1>5, <2>2
  <2> QED
    BY <1>1, <2>1, <2>2 DEF CompileInv, CacheInv, IsRecorded
<1>9. TaskInv' /\ RecordedInv' /\ FirstInv'
  BY <1>1, <1>2 DEF CompileInv, TaskInv, RecordedInv, FirstInv, Resolves, Resolved, GraphOf, Reachable
<1>10. KnownInv' /\ JobsInv'
  BY <1>1, <1>2, <1>5 DEF CompileInv, KnownInv, JobsInv
<1>11. EmittedInv'
  <2> SUFFICES ASSUME NEW g \in DOMAIN task.emitted
               PROVE  /\ (\A e \in task'.emitting : e[2] = g => e[3] # "artifact") => ArtifactsWritten(task.read, g)'
                      /\ (\A e \in task'.emitting : e[2] = g => e[3] # "debug") => DebugFilesWritten(task.read, g)'
    BY <1>1, <1>2 DEF CompileInv, EmittedInv, ArtifactsWritten, DebugFilesWritten, Covers, Compiled
  <2>1. ASSUME \A e \in task'.emitting : e[2] = g => e[3] # "debug" PROVE DebugFilesWritten(task.read, g)'
    <3>1. \A e \in task.emitting : e[2] = g => e[3] # "debug"
      BY <1>2, <2>1
    <3> QED
      BY <1>1, <1>2, <3>1 DEF CompileInv, EmittedInv, DebugFilesWritten, Covers, Compiled
  <2>2. ASSUME \A e \in task'.emitting : e[2] = g => e[3] # "artifact" PROVE ArtifactsWritten(task.read, g)'
    <3>1. CASE g = f
      BY <1>1, <1>2, <1>5, <3>1 DEF ArtifactsWritten, Compiled
    <3>2. CASE g # f
      <4>1. \A e \in task.emitting : e[2] = g => e[3] # "artifact"
        BY <1>2, <2>2, <3>2
      <4>2. ArtifactsWritten(task.read, g)
        BY <1>1, <4>1 DEF CompileInv, EmittedInv
      <4>3. \A n \in Names(task.read, g) : n \notin Names(task.read, f)
        BY <3>2 DEF Names
      <4> QED
        BY <1>1, <1>2, <1>5, <4>2, <4>3 DEF ArtifactsWritten, Compiled
    <3> QED
      BY <3>1, <3>2
  <2> QED
    BY <2>1, <2>2
<1> QED
  BY <1>7, <1>8, <1>9, <1>10, <1>11 DEF CompileInv

LEMMA DebugStep ==
    ASSUME CompileInv, NEW job, NEW f, EmitDebugFiles(job, f)
    PROVE  CompileInv'
<1> DEFINE e0 == <<job, f, "debug">>
           info == InfoOf(task.read, job)
           written == [n \in Names(task.read, f) |-> info]
<1> USE CompilerKept, GoodJobKept, SparedKept
<1>1. /\ task.phase = "compiling" /\ DOMAIN task = Fields /\ e0 \in task.emitting
      /\ debugFiles' = Override(debugFiles, written) /\ unrecorded' = unrecorded \union {f}
      /\ UNCHANGED <<cache, artifacts, buildInfos, leftOut, config, valid, compiled>>
  BY DEF EmitDebugFiles, CompileInv, TaskInv
<1>2. /\ task'.phase = "compiling" /\ DOMAIN task' = Fields
      /\ task'.read = task.read /\ task'.known = task.known /\ task'.waiting = task.waiting
      /\ task'.emitting = task.emitting \ {e0} /\ task'.emitted = task.emitted /\ task'.failed = task.failed
  BY <1>1 DEF EmitDebugFiles, Fields
<1>3. GoodJob(task.read, job) /\ f \in job.emits /\ info \in buildInfos
  BY <1>1 DEF CompileInv, JobsInv
<1>4. /\ f \in Resolved(task.read) /\ job.config = CompilerFor(task.read, f)
      /\ f \in job.files /\ Reads(task.read, f) \subseteq job.files
  BY <1>3 DEF GoodJob
<1>5. f \in DOMAIN info.input /\ Covers(info, Compiled(task.read, f))
  BY <1>4 DEF InfoOf, Covers, Compiled, Origin
<1> HIDE DEF info
<1>6. /\ DOMAIN debugFiles' = DOMAIN debugFiles \union Names(task.read, f)
      /\ \A n \in Names(task.read, f) : debugFiles'[n] = info /\ n[1] = f
      /\ \A n \in DOMAIN debugFiles \ Names(task.read, f) : debugFiles'[n] = debugFiles[n]
  <2>1. DOMAIN written = Names(task.read, f) /\ \A n \in Names(task.read, f) : written[n] = info
    OBVIOUS
  <2>2. \A n \in Names(task.read, f) : n[1] = f
    BY DEF Names
  <2> HIDE DEF written
  <2> QED
    <3>1. /\ DOMAIN Override(debugFiles, written) = DOMAIN debugFiles \union DOMAIN written
          /\ \A n \in DOMAIN written : Override(debugFiles, written)[n] = written[n]
          /\ \A n \in DOMAIN debugFiles \ DOMAIN written : Override(debugFiles, written)[n] = debugFiles[n]
      BY OverrideLemma
    <3> QED
      BY <1>1, <2>1, <2>2, <3>1
<1>7. ArtifactsInv'
  BY <1>1, <1>3, <1>5, <1>6 DEF CompileInv, ArtifactsInv
<1>8. CacheInv'
  <2>1. f \in Files
    BY <1>4, ResolvedLemma
  <2>2. ASSUME NEW g \in DOMAIN cache \ unrecorded', NEW c \in cache[g].artifacts
        PROVE  g \notin unrecorded /\ <<g, c>> \notin Names(task.read, f)
    BY <1>1, <1>6, <2>2
  <2> QED
    BY <1>1, <1>6, <2>1, <2>2 DEF CompileInv, CacheInv, IsRecorded
<1>9. TaskInv' /\ RecordedInv' /\ FirstInv'
  BY <1>1, <1>2 DEF CompileInv, TaskInv, RecordedInv, FirstInv, Resolves, Resolved, GraphOf, Reachable
<1>10. KnownInv' /\ JobsInv'
  BY <1>1, <1>2 DEF CompileInv, KnownInv, JobsInv
<1>11. EmittedInv'
  <2> SUFFICES ASSUME NEW g \in DOMAIN task.emitted
               PROVE  /\ (\A e \in task'.emitting : e[2] = g => e[3] # "artifact") => ArtifactsWritten(task.read, g)'
                      /\ (\A e \in task'.emitting : e[2] = g => e[3] # "debug") => DebugFilesWritten(task.read, g)'
    BY <1>1, <1>2 DEF CompileInv, EmittedInv, ArtifactsWritten, DebugFilesWritten, Covers, Compiled
  <2>1. ASSUME \A e \in task'.emitting : e[2] = g => e[3] # "artifact" PROVE ArtifactsWritten(task.read, g)'
    <3>1. \A e \in task.emitting : e[2] = g => e[3] # "artifact"
      BY <1>2, <2>1
    <3> QED
      BY <1>1, <1>2, <3>1 DEF CompileInv, EmittedInv, ArtifactsWritten, Compiled
  <2>2. ASSUME \A e \in task'.emitting : e[2] = g => e[3] # "debug" PROVE DebugFilesWritten(task.read, g)'
    <3>1. CASE g = f
      BY <1>1, <1>2, <1>5, <1>6, <3>1 DEF DebugFilesWritten, Compiled, Covers
    <3>2. CASE g # f
      <4>1. \A e \in task.emitting : e[2] = g => e[3] # "debug"
        BY <1>2, <2>2, <3>2
      <4>2. DebugFilesWritten(task.read, g)
        BY <1>1, <4>1 DEF CompileInv, EmittedInv
      <4>3. \A n \in Names(task.read, g) : n \notin Names(task.read, f)
        BY <3>2 DEF Names
      <4> QED
        BY <1>1, <1>2, <1>6, <4>2, <4>3 DEF DebugFilesWritten, Compiled, Covers
    <3> QED
      BY <3>1, <3>2
  <2> QED
    BY <2>1, <2>2
<1> QED
  BY <1>7, <1>8, <1>9, <1>10, <1>11 DEF CompileInv

\* What the cache file says of a file that the task compiled, or did not, or did not look at.
LEMMA RecordStep == CompileInv /\ WriteCache => CompileInv'
<1> SUFFICES ASSUME CompileInv, WriteCache PROVE CompileInv'
  OBVIOUS
<1> DEFINE read == task.read
           emitted == DOMAIN task.emitted
<1> USE CompilerKept
<1>1. /\ task.phase = "compiling" /\ DOMAIN task = Fields /\ task.waiting = {} /\ task.emitting = {} /\ ~ task.failed
      /\ cache' = Override(task.known, task.emitted)
      /\ unrecorded' = unrecorded \ emitted /\ leftOut' = (leftOut \ emitted) \union LeftOut
      /\ UNCHANGED <<artifacts, debugFiles, buildInfos, config, compiled>>
  BY DEF WriteCache, JobsDone, CompileInv, TaskInv
<1>2. task'.phase = "recorded" /\ DOMAIN task' = Fields /\ task'.read = read
  BY <1>1 DEF WriteCache, Fields
<1>3. /\ DOMAIN cache' = DOMAIN task.known \union emitted
      /\ \A f \in emitted : cache'[f] = task.emitted[f]
      /\ \A f \in DOMAIN task.known \ emitted : cache'[f] = task.known[f]
  <2>1. /\ DOMAIN Override(task.known, task.emitted) = DOMAIN task.known \union emitted
        /\ \A f \in emitted : Override(task.known, task.emitted)[f] = task.emitted[f]
        /\ \A f \in DOMAIN task.known \ emitted : Override(task.known, task.emitted)[f] = task.known[f]
    BY OverrideLemma
  <2> QED
    BY <1>1, <2>1
<1>4. /\ Resolves(read)
      /\ \A f \in DOMAIN task.known : f \in DOMAIN cache /\ task.known[f] = cache[f] /\ read[f] # Missing
      /\ \A f \in DOMAIN task.known \intersect Resolved(read) :
            \A c \in task.known[f].artifacts : <<f, c>> \in DOMAIN artifacts
  BY <1>1 DEF CompileInv, TaskInv, KnownInv
<1>5. ASSUME NEW f \in emitted
      PROVE  /\ f \in Resolved(read) /\ cache'[f].content = read[f] /\ cache'[f].config = CompilerFor(read, f)
             /\ cache'[f].artifacts = Contracts[read[f]]
             /\ ArtifactsWritten(read, f) /\ DebugFilesWritten(read, f)
  BY <1>1, <1>3 DEF CompileInv, EmittedInv
<1>6. ASSUME NEW f \in Resolved(read) \ emitted PROVE Spared(read, task.known, f)
  BY <1>1 DEF CompileInv, JobsInv
<1>7. ASSUME NEW f \in Resolved(read)
      PROVE  f \in DOMAIN cache' /\ cache'[f].content = read[f] /\ cache'[f].config = CompilerFor(read, f)
  <2>1. CASE f \in emitted
    BY <1>3, <1>5, <2>1
  <2>2. CASE f \notin emitted
    BY <1>3, <1>6, <2>2, ReadsLemma DEF Spared
  <2> QED
    BY <2>1, <2>2
<1> HIDE DEF read, emitted
<1>8. ASSUME NEW f \in DOMAIN cache' PROVE cache'[f].artifacts = Contracts[cache'[f].content]
  BY <1>3, <1>4, <1>5, <1>8 DEF CompileInv, CacheInv
<1>9. ASSUME NEW f \in DOMAIN cache' \ unrecorded', NEW c \in cache'[f].artifacts, <<f, c>> \in DOMAIN artifacts
      PROVE  /\ artifacts[<<f, c>>].contents[f] = cache'[f].content /\ artifacts[<<f, c>>].config = cache'[f].config
             /\ f \notin leftOut' => \A g \in DOMAIN artifacts[<<f, c>>].contents \intersect DOMAIN cache' :
                    artifacts[<<f, c>>].contents[g] = cache'[g].content
             /\ <<f, c>> \in DOMAIN debugFiles /\ Covers(debugFiles[<<f, c>>], artifacts[<<f, c>>])
  <2> DEFINE n == <<f, c>>
             made == artifacts[n]
  <2>1. CASE f \in emitted
    <3>1. n \in Names(read, f)
      BY <1>5, <1>9, <2>1 DEF Names
    <3>2. made = Compiled(read, f) /\ n \in DOMAIN debugFiles /\ Covers(debugFiles[n], made)
      BY <1>5, <2>1, <3>1 DEF ArtifactsWritten, DebugFilesWritten
    <3>3. /\ DOMAIN made.contents = Reads(read, f) /\ made.config = CompilerFor(read, f)
          /\ \A g \in Reads(read, f) : made.contents[g] = read[g]
      BY <3>2 DEF Compiled, Origin
    <3>4. f \in Reads(read, f) /\ Reads(read, f) \subseteq Resolved(read)
      BY <1>5, <2>1, ReadsLemma
    <3> HIDE DEF made, n
    <3>5. \A g \in DOMAIN made.contents : made.contents[g] = cache'[g].content
      BY <1>7, <3>3, <3>4
    <3>6. made.contents[f] = cache'[f].content /\ made.config = cache'[f].config
      BY <1>5, <2>1, <3>3, <3>4
    <3> QED
      BY <3>2, <3>5, <3>6 DEF made, n
  <2>2. CASE f \notin emitted
    <3>1. /\ f \in DOMAIN task.known /\ cache'[f] = task.known[f] /\ f \in DOMAIN cache /\ cache[f] = task.known[f]
          /\ f \notin unrecorded
      BY <1>1, <1>3, <1>4, <1>9, <2>2 DEF emitted
    <3>2. /\ IsRecorded(f, made) /\ n \in DOMAIN debugFiles /\ Covers(debugFiles[n], made)
          /\ IsOrigin(f, made)
      BY <1>9, <3>1 DEF CompileInv, CacheInv, ArtifactsInv
    <3>3. made.contents[f] = cache'[f].content /\ made.config = cache'[f].config
      BY <3>1, <3>2 DEF IsRecorded
    <3>4. ASSUME f \notin leftOut', NEW g \in DOMAIN made.contents \intersect DOMAIN cache'
          PROVE  made.contents[g] = cache'[g].content
      <4>1. f \notin leftOut /\ f \notin LeftOut
        BY <1>1, <2>2, <3>4 DEF emitted
      <4>2. CASE f \in Resolved(read)
        <5>1. Spared(read, task.known, f)
          BY <1>6, <2>2, <4>2 DEF emitted, read
        <5>2. ASSUME NEW h \in Reads(read, f) \intersect DOMAIN made.contents PROVE made.contents[h] = read[h]
          <6>1. h \in DOMAIN cache /\ cache[h].content = read[h]
            BY <1>4, <5>1 DEF Spared
          <6> QED
            BY <3>2, <4>1, <6>1 DEF IsRecorded
        <5>3. DOMAIN made.contents = Reads(read, f)
          BY <1>4, <3>2, <4>2, <5>2, WholeIsReads DEF IsOrigin
        <5>4. g \in Resolved(read) /\ made.contents[g] = read[g]
          BY <4>2, <5>2, <5>3, ReadsLemma
        <5> QED
          BY <1>7, <5>4
      <4>3. CASE f \notin Resolved(read)
        <5>1. DOMAIN made.contents \intersect emitted = {}
          BY <1>9, <3>1, <4>1, <4>3 DEF LeftOut, emitted, read
        <5>2. g \in DOMAIN task.known /\ cache'[g] = task.known[g] /\ g \in DOMAIN cache /\ cache[g] = task.known[g]
          BY <1>3, <1>4, <5>1
        <5> QED
          BY <3>2, <4>1, <5>2 DEF IsRecorded
      <4> QED
        BY <4>2, <4>3
    <3> QED
      BY <3>2, <3>3, <3>4
  <2> QED
    BY <2>1, <2>2
<1>10. CacheInv'
  <2>1. DOMAIN cache' \subseteq Files /\ unrecorded' \subseteq Files /\ leftOut' \subseteq Files
    BY <1>1, <1>3, <1>4, <1>5, ResolvedLemma DEF CompileInv, CacheInv, LeftOut
  <2> QED
    BY <1>1, <1>8, <1>9, <2>1 DEF CacheInv, IsRecorded, Covers
<1>11. ArtifactsInv' /\ FirstInv' /\ KnownInv' /\ JobsInv' /\ EmittedInv'
  BY <1>1, <1>2 DEF CompileInv, ArtifactsInv, FirstInv, KnownInv, JobsInv, EmittedInv
<1>12. TaskInv'
  BY <1>1, <1>2 DEF CompileInv, TaskInv, Resolves, Resolved, GraphOf, Reachable, read
<1>13. RecordedInv'
  <2>1. ASSUME NEW f \in DOMAIN cache' PROVE read[f] # Missing
    BY <1>3, <1>4, <1>5, ResolvedLemma
  <2>2. valid' = valid \union InCache'
    BY DEF WriteCache, InCache
  <2>3. ~ compiled => valid = {}
    BY <1>1 DEF CompileInv, FirstInv
  <2> QED
    BY <1>1, <1>2, <1>7, <2>1, <2>2, <2>3 DEF RecordedInv
<1> QED
  BY <1>10, <1>11, <1>12, <1>13 DEF CompileInv

LEMMA RemoveStep == CompileInv /\ RemoveObsoleteArtifacts => CompileInv'
<1> SUFFICES ASSUME CompileInv, RemoveObsoleteArtifacts PROVE CompileInv'
  OBVIOUS
<1> DEFINE kept == valid \union (DOMAIN debugFiles \ DOMAIN artifacts)
<1> USE CompilerKept
<1>1. /\ task.phase = "recorded" /\ DOMAIN task = Fields /\ valid \subseteq DOMAIN artifacts
      /\ artifacts' = RestrictTo(artifacts, valid) /\ debugFiles' = RestrictTo(debugFiles, kept)
      /\ UNCHANGED <<cache, unrecorded, leftOut, buildInfos, config, valid, compiled>>
  BY DEF RemoveObsoleteArtifacts, CompileInv, TaskInv
<1>2. task'.phase = "removed" /\ DOMAIN task' = Fields /\ task'.read = task.read
  BY <1>1 DEF RemoveObsoleteArtifacts, Fields
<1>3. DOMAIN artifacts' = valid /\ \A n \in valid : artifacts'[n] = artifacts[n]
  <2>1. /\ DOMAIN RestrictTo(artifacts, valid) = DOMAIN artifacts \intersect valid
        /\ \A n \in DOMAIN artifacts \intersect valid : RestrictTo(artifacts, valid)[n] = artifacts[n]
    BY RestrictLemma
  <2> QED
    BY <1>1, <2>1
<1>4. /\ DOMAIN debugFiles' \subseteq DOMAIN debugFiles
      /\ DOMAIN debugFiles \intersect valid \subseteq DOMAIN debugFiles'
      /\ \A n \in DOMAIN debugFiles' : debugFiles'[n] = debugFiles[n]
  <2>1. /\ DOMAIN RestrictTo(debugFiles, kept) = DOMAIN debugFiles \intersect kept
        /\ \A n \in DOMAIN debugFiles \intersect kept : RestrictTo(debugFiles, kept)[n] = debugFiles[n]
    BY RestrictLemma
  <2> QED
    BY <1>1, <2>1
<1> HIDE DEF kept
<1>5. ArtifactsInv'
  BY <1>1, <1>3, <1>4 DEF CompileInv, ArtifactsInv
<1>6. CacheInv'
  BY <1>1, <1>3, <1>4 DEF CompileInv, CacheInv, IsRecorded
<1>7. FirstInv' /\ KnownInv' /\ JobsInv' /\ EmittedInv'
  BY <1>2 DEF FirstInv, KnownInv, JobsInv, EmittedInv
<1>8. TaskInv'
  BY <1>1, <1>2 DEF CompileInv, TaskInv, Resolves, Resolved, GraphOf, Reachable
<1>9. RecordedInv'
  BY <1>1, <1>2, <1>3 DEF CompileInv, RecordedInv, InCache
<1> QED
  BY <1>5, <1>6, <1>7, <1>8, <1>9 DEF CompileInv

LEMMA DoneStep == CompileInv /\ RemoveObsoleteBuildInfos => CompileInv'
<1> SUFFICES ASSUME CompileInv, RemoveObsoleteBuildInfos PROVE CompileInv'
  OBVIOUS
<1> USE CompilerKept
<1>1. /\ task.phase = "removed" /\ DOMAIN task = Fields
      /\ buildInfos' = buildInfos \intersect {debugFiles[n] : n \in DOMAIN debugFiles}
      /\ UNCHANGED <<cache, artifacts, debugFiles, unrecorded, leftOut, config, valid, compiled>>
  BY DEF RemoveObsoleteBuildInfos, CompileInv, TaskInv
<1>2. task'.phase = "done" /\ DOMAIN task' = Fields /\ task'.read = task.read
  BY <1>1 DEF RemoveObsoleteBuildInfos, Fields
<1>3. ArtifactsInv' /\ CacheInv'
  BY <1>1 DEF CompileInv, ArtifactsInv, CacheInv, IsRecorded
<1>4. FirstInv' /\ KnownInv' /\ JobsInv' /\ EmittedInv'
  BY <1>2 DEF FirstInv, KnownInv, JobsInv, EmittedInv
<1>5. TaskInv'
  BY <1>1, <1>2 DEF CompileInv, TaskInv, Resolves, Resolved, GraphOf, Reachable
<1>6. RecordedInv'
  BY <1>1, <1>2 DEF CompileInv, RecordedInv, InCache
<1> QED
  BY <1>3, <1>4, <1>5, <1>6 DEF CompileInv

\* Artifacts that are deleted by hand are all those of a file.
LEMMA LoseStep ==
    ASSUME CompileInv, NEW f, LoseArtifacts(f)
    PROVE  CompileInv'
<1> DEFINE others(files) == RestrictTo(files, {n \in DOMAIN files : n[1] # f})
<1>1. /\ task.phase \in {"idle", "done"} /\ task'.phase = "idle"
      /\ artifacts' = others(artifacts) /\ debugFiles' \in {debugFiles, others(debugFiles)}
      /\ compiled' = (compiled \/ task.phase = "done")
      /\ UNCHANGED <<cache, buildInfos, unrecorded, leftOut, valid>>
  BY DEF LoseArtifacts, Idle
<1>2. ASSUME NEW files
      PROVE  /\ DOMAIN others(files) = {n \in DOMAIN files : n[1] # f}
             /\ \A n \in DOMAIN others(files) : others(files)[n] = files[n]
  <2> DEFINE S == {n \in DOMAIN files : n[1] # f}
  <2>1. DOMAIN RestrictTo(files, S) = DOMAIN files \intersect S
        /\ \A n \in DOMAIN files \intersect S : RestrictTo(files, S)[n] = files[n]
    BY RestrictLemma
  <2> QED
    BY <2>1
<1> HIDE DEF others
<1>3. /\ DOMAIN artifacts' = {n \in DOMAIN artifacts : n[1] # f}
      /\ \A n \in DOMAIN artifacts' : artifacts'[n] = artifacts[n]
  BY <1>1, <1>2
<1>4. /\ DOMAIN debugFiles' \subseteq DOMAIN debugFiles
      /\ \A n \in DOMAIN debugFiles : n[1] # f => n \in DOMAIN debugFiles'
      /\ \A n \in DOMAIN debugFiles' : debugFiles'[n] = debugFiles[n]
  BY <1>1, <1>2
<1>5. ArtifactsInv'
  BY <1>1, <1>3, <1>4 DEF CompileInv, ArtifactsInv
<1>6. CacheInv'
  <2>1. ASSUME NEW g, NEW c, <<g, c>> \in DOMAIN artifacts'
        PROVE  /\ <<g, c>> \in DOMAIN artifacts /\ artifacts'[<<g, c>>] = artifacts[<<g, c>>]
               /\ <<g, c>> \in DOMAIN debugFiles => <<g, c>> \in DOMAIN debugFiles'
                                                   /\ debugFiles'[<<g, c>>] = debugFiles[<<g, c>>]
    BY <1>3, <1>4, <2>1
  <2> QED
    BY <1>1, <2>1 DEF CompileInv, CacheInv, IsRecorded
<1>7. compiled' \/ valid' = {}
  BY <1>1 DEF CompileInv, FirstInv
<1> QED
  BY <1>1, <1>5, <1>6, <1>7, IdleStep DEF CompileInv

\* Steps that leave the disk as it is, and no task.
LEMMA StopStep ==
    ASSUME CompileInv, UNCHANGED disk, task' = Idle, compiled' \/ valid' = {}
    PROVE  CompileInv'
BY DiskKept, IdleStep DEF CompileInv, Idle

LEMMA CleanStep == CompileInv /\ Clean => CompileInv'
<1> SUFFICES ASSUME CompileInv, Clean PROVE CompileInv'
  OBVIOUS
<1>1. /\ DOMAIN cache' = {} /\ DOMAIN artifacts' = {} /\ DOMAIN debugFiles' = {}
      /\ unrecorded' = {} /\ leftOut' = {} /\ task'.phase = "idle" /\ compiled'
  BY DEF Clean, Idle
<1>2. ArtifactsInv' /\ CacheInv'
  BY <1>1 DEF ArtifactsInv, CacheInv
<1> QED
  BY <1>1, <1>2, IdleStep DEF CompileInv

LEMMA CompileStep == CompileInv /\ [Next]_vars => CompileInv'
<1> SUFFICES ASSUME CompileInv, [Next]_vars PROVE CompileInv'
  OBVIOUS
<1>1. CASE \E force \in BOOLEAN : StartCompile(force)
  BY <1>1, StartStep
<1>2. CASE \E job \in IF task.phase = "compiling" THEN task.waiting ELSE {} : CompileJob(job)
  BY <1>2, JobStep
<1>3. CASE \E p \in IF task.phase = "compiling" THEN task.emitting ELSE {} :
             EmitArtifacts(p[1], p[2]) \/ EmitDebugFiles(p[1], p[2])
  BY <1>3, ArtifactsStep, DebugStep
<1>4. CASE CompileFails \/ RemoveObsoleteFails
  BY <1>4, StopStep DEF CompileFails, RemoveObsoleteFails, disk
<1>5. CASE WriteCache \/ RemoveObsoleteArtifacts \/ RemoveObsoleteBuildInfos
  BY <1>5, RecordStep, RemoveStep, DoneStep
<1>6. CASE \E f \in Files : LoseArtifacts(f)
  BY <1>6, LoseStep
<1>7. CASE \E f \in Files : \E c \in FileContents[f] : Edit(f, c)
  BY <1>7, AllKept DEF Edit, disk
<1>8. CASE \E c \in Configs : NewProcess(c) \/ StopWritingCache(c)
  BY <1>8, StopStep DEF NewProcess, StopWritingCache, disk
<1>9. CASE Clean
  BY <1>9, CleanStep
<1>10. CASE UNCHANGED vars
  BY <1>10, AllKept DEF vars, disk
<1> QED
  BY <1>1, <1>2, <1>3, <1>4, <1>5, <1>6, <1>7, <1>8, <1>9, <1>10 DEF Next

LEMMA CompileInvariant == Spec => []CompileInv
BY CompileInit, CompileStep, PTL DEF Spec

\* The state stays of the stated form: every artifact on disk tells what it was made from.
THEOREM CompileTypeCorrect == Spec => []TypeOK
<1>1. CompileInv => TypeOK
  BY CompileTypes DEF CompileInv
<1> QED
  BY <1>1, CompileInvariant, PTL

\* What the cache file says of a file is true of its artifacts, every debug file names a build
\* info that is on disk, and the first task that ends well leaves nothing obsolete, wherever
\* the tasks before failed or were stopped (TASK_COMPILE_SOLIDITY, removeObsoleteArtifacts).
THEOREM FilesStayInAgreement == Spec => []FilesAgree
BY AgreeImplied, CompileInvariant, PTL

\* A task that ends well leaves the artifacts that compiling everything would make, and a task
\* after it without a change compiles nothing, however files import each other, whatever the
\* cache made it leave out and whatever was edited meanwhile (needsCompilation).
THEOREM TasksStayComplete == Spec => []TasksAreComplete
BY CompleteImplied, CompileInvariant, PTL

-----------------------------------------------------------------------------
(* The downloader: types.                                                  *)

Pcs == Waiting \union Working \union Ended \union {"get"}

Platforms == {"native", "wasm"}

FilesType ==
    [list : {None, "incomplete", "complete"}, tmp : {None, "good", "bad"}, compiler : {None, "good", "bad"},
     executable : BOOLEAN, doesNotWork : BOOLEAN]

LEMMA Steps ==
    {"acquire", "stat", "delete", "check", "list", "download", "move", "verify", "chmod", "try",
     "release", "fail", "get", "idle", "stopped", "failed", "asserted", "got"} \subseteq Pcs
BY DEF Pcs, Waiting, Working, Placed, Ended

LEMMA Types ==
    DownloadTypeOK <=>
        /\ lock \in [writer : Processes, old : BOOLEAN] \union {NoLock}
        /\ process \in [Processes -> [pc : Pcs, platform : Platforms]]
        /\ folder \in [Platforms -> FilesType]
        /\ listed \in BOOLEAN /\ nativeWorks \in BOOLEAN
        /\ overstayed \in BOOLEAN /\ lost \in BOOLEAN /\ unchecked \in BOOLEAN
        /\ starts \in Nat /\ failures \in Nat /\ stops \in Nat
BY DEF DownloadTypeOK, Pcs, Platforms, FilesType

LEMMA EmptyType == EmptyFolder \in [Platforms -> FilesType]
<1>1. [list |-> None, tmp |-> None, compiler |-> None, executable |-> FALSE, doesNotWork |-> FALSE] \in FilesType
  BY DEF FilesType
<1> QED
  BY <1>1 DEF EmptyFolder, Platforms

LEMMA GoToType ==
    ASSUME process \in [Processes -> [pc : Pcs, platform : Platforms]], NEW p \in Processes, NEW pc \in Pcs, GoTo(p, pc)
    PROVE  process' \in [Processes -> [pc : Pcs, platform : Platforms]]
BY DEF GoTo

LEMMA ChangeType ==
    ASSUME process \in [Processes -> [pc : Pcs, platform : Platforms]], folder \in [Platforms -> FilesType],
           NEW p \in Processes, NEW files \in FilesType, Change(p, files)
    PROVE  folder' \in [Platforms -> FilesType]
BY DEF Change

LEMMA TypeInit == DownloadInit => DownloadTypeOK
<1> SUFFICES ASSUME DownloadInit PROVE DownloadTypeOK
  OBVIOUS
<1>1. process \in [Processes -> [pc : Pcs, platform : Platforms]]
  BY Steps DEF DownloadInit, Platforms
<1> QED
  BY <1>1, EmptyType, Types DEF DownloadInit

LEMMA TypeStep == DownloadTypeOK /\ [DownloadNext]_downloadVars => DownloadTypeOK'
<1> SUFFICES ASSUME DownloadTypeOK, [DownloadNext]_downloadVars PROVE DownloadTypeOK'
  OBVIOUS
<1> DEFINE Process == [pc : Pcs, platform : Platforms]
           Rest ==
               /\ lock \in [writer : Processes, old : BOOLEAN] \union {NoLock}
               /\ listed \in BOOLEAN /\ nativeWorks \in BOOLEAN
               /\ overstayed \in BOOLEAN /\ lost \in BOOLEAN /\ unchecked \in BOOLEAN
               /\ starts \in Nat /\ failures \in Nat /\ stops \in Nat
<1>a. process \in [Processes -> Process] /\ folder \in [Platforms -> FilesType] /\ Rest
  BY Types
<1>b. SUFFICES process' \in [Processes -> Process] /\ folder' \in [Platforms -> FilesType] /\ Rest'
  BY Types DEF DownloadTypeOK, Pcs, Platforms, FilesType
<1>c. \A p \in Processes : FilesOf(p) \in FilesType
  BY <1>a DEF FilesOf
<1> USE DEF environment, history
<1>1. CASE UNCHANGED downloadVars
  BY <1>a, <1>1 DEF downloadVars
<1>2. ASSUME NEW p \in Processes, Start(p)
      PROVE  process' \in [Processes -> Process] /\ folder' \in [Platforms -> FilesType] /\ Rest'
  BY <1>a, <1>2, Steps DEF Start, Platforms
<1>3. ASSUME NEW p \in Processes, TryToAcquireMutex(p) \/ StatMutexFile(p) \/ DeleteMutexFile(p)
      PROVE  process' \in [Processes -> Process] /\ folder' \in [Platforms -> FilesType] /\ Rest'
  <2>1. process' \in [Processes -> Process]
    BY <1>a, <1>3, Steps, GoToType DEF TryToAcquireMutex, StatMutexFile, DeleteMutexFile
  <2>2. DeleteMutexFile(p) => lost' \in BOOLEAN
    BY Zenon DEF DeleteMutexFile
  <2>3. CASE TryToAcquireMutex(p)
    <3>1. [writer |-> p, old |-> FALSE] \in [writer : Processes, old : BOOLEAN]
      OBVIOUS
    <3> QED
      BY <1>a, <2>1, <2>3, <3>1 DEF TryToAcquireMutex
  <2>4. CASE StatMutexFile(p)
    BY <1>a, <2>1, <2>4 DEF StatMutexFile
  <2>5. CASE DeleteMutexFile(p)
    BY <1>a, <2>1, <2>2, <2>5 DEF DeleteMutexFile
  <2> QED
    BY <1>3, <2>3, <2>4, <2>5
<1>4. ASSUME NEW p \in Processes, ReleaseMutex(p) \/ Check(p) \/ RequestFails(p)
      PROVE  process' \in [Processes -> Process] /\ folder' \in [Platforms -> FilesType] /\ Rest'
  <2>1. process' \in [Processes -> Process]
    BY <1>a, <1>4, Steps, GoToType DEF ReleaseMutex, Check, RequestFails
  <2>2. ReleaseMutex(p) => lost' \in BOOLEAN
    BY Zenon DEF ReleaseMutex
  <2> QED
    BY <1>a, <1>4, <2>1, <2>2 DEF ReleaseMutex, Check, RequestFails
<1>5. ASSUME NEW p \in Processes, GetCompiler(p) \/ Stop(p)
      PROVE  process' \in [Processes -> Process] /\ folder' \in [Platforms -> FilesType] /\ Rest'
  <2>1. process' \in [Processes -> Process]
    <3>1. [pc |-> "acquire", platform |-> "wasm"] \in Process
      BY Steps DEF Platforms
    <3> QED
      BY <1>a, <1>5, <3>1, Steps, GoToType DEF GetCompiler, Stop
  <2>2. Stop(p) => unchecked' \in BOOLEAN
    BY Zenon DEF Stop
  <2> QED
    BY <1>a, <1>5, <2>1, <2>2 DEF GetCompiler, Stop
<1>6. ASSUME NEW p \in Processes, DownloadCompilerList(p) \/ DownloadCompiler(p) \/ MoveCompiler(p)
      PROVE  process' \in [Processes -> Process] /\ folder' \in [Platforms -> FilesType] /\ Rest'
  <2>1. process' \in [Processes -> Process]
    BY <1>a, <1>6, Steps, GoToType DEF DownloadCompilerList, DownloadCompiler, MoveCompiler
  <2>2. /\ [FilesOf(p) EXCEPT !.list = IF listed THEN "complete" ELSE "incomplete"] \in FilesType
        /\ [FilesOf(p) EXCEPT !.tmp = "good"] \in FilesType
        /\ [FilesOf(p) EXCEPT !.tmp = "bad"] \in FilesType
        /\ [FilesOf(p) EXCEPT !.compiler = FilesOf(p).tmp, !.executable = FALSE, !.tmp = None] \in FilesType
    BY <1>c DEF FilesType
  <2>3. folder' \in [Platforms -> FilesType]
    BY <1>a, <1>6, <2>2, ChangeType DEF DownloadCompilerList, DownloadCompiler, MoveCompiler
  <2> QED
    BY <1>a, <1>6, <2>1, <2>3 DEF DownloadCompilerList, DownloadCompiler, MoveCompiler
<1>7. ASSUME NEW p \in Processes, VerifyCompilerDownload(p) \/ MakeExecutable(p)
      PROVE  process' \in [Processes -> Process] /\ folder' \in [Platforms -> FilesType] /\ Rest'
  <2>1. process' \in [Processes -> Process]
    BY <1>a, <1>7, Steps, GoToType DEF VerifyCompilerDownload, MakeExecutable
  <2>2. /\ [FilesOf(p) EXCEPT !.compiler = None] \in FilesType
        /\ [FilesOf(p) EXCEPT !.executable = TRUE] \in FilesType
    BY <1>c DEF FilesType
  <2>3. folder' \in [Platforms -> FilesType]
    BY <1>a, <1>7, <2>2, ChangeType DEF VerifyCompilerDownload, MakeExecutable
  <2> QED
    BY <1>a, <1>7, <2>1, <2>3 DEF VerifyCompilerDownload, MakeExecutable
<1>8. ASSUME NEW p \in Processes, CheckNativeSolc(p)
      PROVE  process' \in [Processes -> Process] /\ folder' \in [Platforms -> FilesType] /\ Rest'
  <2>1. process' \in [Processes -> Process]
    BY <1>a, <1>8, Steps, GoToType DEF CheckNativeSolc
  <2>2. [folder["native"] EXCEPT !.doesNotWork = TRUE] \in FilesType
    BY <1>a DEF FilesType, Platforms
  <2>3. folder' \in [Platforms -> FilesType]
    BY <1>a, <1>8, <2>2 DEF CheckNativeSolc, Platforms
  <2> QED
    BY <1>a, <1>8, <2>1, <2>3 DEF CheckNativeSolc
<1>9. CASE LockGetsOld \/ ListVersion
  BY <1>a, <1>9 DEF LockGetsOld, ListVersion, NoLock
<1>10. CASE CleanGlobal
  BY <1>a, <1>10, Steps, EmptyType DEF CleanGlobal, Platforms
<1> QED
  BY <1>1, <1>2, <1>3, <1>4, <1>5, <1>6, <1>7, <1>8, <1>9, <1>10 DEF DownloadNext, Step

-----------------------------------------------------------------------------
(* The lock.  Until one is lost, who is at work wrote the lock; until a       *)
(* process stops or overstays, the lock is moreover new and its writer is at  *)
(* work, so that nobody deletes it from outside.                              *)

WorkerHoldsLock == ~ lost => \A p \in AtWork : lock.writer = p

Orderly == ~ overstayed /\ stops = 0

LockIsInUse ==
    /\ ~ lost
    /\ ~ lock.old
    /\ lock # NoLock => lock.writer \in AtWork
    /\ \A p \in Processes : ~ At(p, "delete")

LockInv == WorkerHoldsLock /\ (Orderly => LockIsInUse)

LEMMA LockInit == DownloadInit => LockInv
BY DEF DownloadInit, LockInv, WorkerHoldsLock, LockIsInUse, AtWork, Working, Placed, At, NoLock

\* A step of a process that works, or of one that waits, without the lock file.
LEMMA LockKept ==
    ASSUME LockInv, UNCHANGED <<lock, lost, overstayed>>, stops' = 0 => stops = 0,
           NEW p \in Processes, \A q \in Processes \ {p} : process'[q].pc = process[q].pc,
           process'[p].pc \in Working => process[p].pc \in Working,
           process[p].pc \in Working /\ stops' = 0 => process'[p].pc \in Working,
           process'[p].pc = "delete" => lock.old
    PROVE  LockInv'
<1>1. AtWork' \subseteq AtWork
  BY DEF AtWork
<1>2. stops' = 0 => AtWork' = AtWork
  BY DEF AtWork
<1>3. WorkerHoldsLock'
  BY <1>1 DEF LockInv, WorkerHoldsLock
<1>4. ASSUME Orderly' PROVE LockIsInUse'
  BY <1>2, <1>4 DEF LockInv, LockIsInUse, Orderly, At, NoLock
<1> QED
  BY <1>3, <1>4 DEF LockInv

LEMMA LockStep == NamesDiffer /\ DownloadTypeOK /\ LockInv /\ [DownloadNext]_downloadVars => LockInv'
<1> SUFFICES ASSUME NamesDiffer, DownloadTypeOK, LockInv, [DownloadNext]_downloadVars PROVE LockInv'
  OBVIOUS
<1> USE DEF At, GoTo, environment, history
<1>0. \A q \in Processes : process[q] \in [pc : Waiting \union Working \union Ended \union {"get"}, platform : {"native", "wasm"}]
  BY DEF DownloadTypeOK
<1>a. process = [q \in Processes |-> process[q]] /\ stops \in Nat
  BY DEF DownloadTypeOK
<1>1. CASE UNCHANGED downloadVars
  BY <1>1 DEF downloadVars, LockInv, WorkerHoldsLock, Orderly, LockIsInUse, AtWork
<1>2. ASSUME NEW p \in Processes, Start(p) \/ StatMutexFile(p) \/ GetCompiler(p) \/ Stop(p)
      PROVE  LockInv'
  BY <1>0, <1>a, <1>2, LockKept
     DEF Start, StatMutexFile, GetCompiler, Stop, IsMutexFileTooOld, Working, Placed, Ended
<1>3. ASSUME NEW p \in Processes, TryToAcquireMutex(p)
      PROVE  LockInv'
  <2>1. CASE lock # NoLock
    BY <1>0, <1>a, <1>3, <2>1, LockKept DEF TryToAcquireMutex, Working, Placed
  <2>2. CASE lock = NoLock
    <3>1. lock' = [writer |-> p, old |-> FALSE] /\ process' = [process EXCEPT ![p].pc = "check"]
      BY <1>3, <2>2 DEF TryToAcquireMutex
    <3>2. ~ lost => AtWork = {}
      BY <2>2 DEF NamesDiffer, LockInv, WorkerHoldsLock, NoLock, AtWork
    <3>3. AtWork' = AtWork \union {p}
      BY <1>0, <1>a, <3>1 DEF AtWork, Working, Placed
    <3>4. WorkerHoldsLock'
      BY <1>3, <3>1, <3>2, <3>3 DEF TryToAcquireMutex, WorkerHoldsLock
    <3>5. ASSUME Orderly' PROVE LockIsInUse'
      BY <1>0, <1>a, <1>3, <3>1, <3>3, <3>5 DEF TryToAcquireMutex, LockInv, LockIsInUse, Orderly
    <3> QED
      BY <3>4, <3>5 DEF LockInv
  <2> QED
    BY <2>1, <2>2
<1>4. ASSUME NEW p \in Processes, DeleteMutexFile(p)
      PROVE  LockInv'
  <2>1. ~ Orderly
    BY <1>4 DEF DeleteMutexFile, LockInv, LockIsInUse
  <2>2. ~ Orderly'
    BY <1>4, <2>1 DEF DeleteMutexFile, Orderly
  <2>3. AtWork' = AtWork
    BY <1>0, <1>a, <1>4 DEF DeleteMutexFile, AtWork, Working, Placed
  <2>4. ~ lost' => AtWork = {}
    BY <1>4 DEF DeleteMutexFile, LockInv, WorkerHoldsLock
  <2> QED
    BY <2>2, <2>3, <2>4 DEF LockInv, WorkerHoldsLock
<1>5. ASSUME NEW p \in Processes, ReleaseMutex(p)
      PROVE  LockInv'
  <2>1. AtWork' = AtWork \ {p} /\ p \in AtWork
    BY <1>0, <1>a, <1>5 DEF ReleaseMutex, AtWork, Working, Placed
  <2>2. ~ lost' => AtWork' = {}
    BY <1>5, <2>1 DEF ReleaseMutex, LockInv, WorkerHoldsLock
  <2>3. ASSUME Orderly' PROVE LockIsInUse'
    <3>1. LockIsInUse
      BY <1>5, <2>3 DEF ReleaseMutex, Orderly, LockInv
    <3>2. lock.writer = p
      BY <2>1, <3>1 DEF LockInv, WorkerHoldsLock, LockIsInUse
    <3> QED
      BY <1>0, <1>a, <1>5, <3>1, <3>2 DEF ReleaseMutex, LockIsInUse, NoLock
  <2> QED
    BY <2>2, <2>3 DEF LockInv, WorkerHoldsLock
<1>6. ASSUME NEW p \in Processes,
             Check(p) \/ DownloadCompilerList(p) \/ DownloadCompiler(p) \/ RequestFails(p) \/ MoveCompiler(p)
      PROVE  LockInv'
  BY <1>0, <1>a, <1>6, LockKept
     DEF Check, DownloadCompilerList, DownloadCompiler, RequestFails, MoveCompiler, Working, Placed
<1>7. ASSUME NEW p \in Processes, VerifyCompilerDownload(p) \/ MakeExecutable(p) \/ CheckNativeSolc(p)
      PROVE  LockInv'
  BY <1>0, <1>a, <1>7, LockKept DEF VerifyCompilerDownload, MakeExecutable, CheckNativeSolc, Working, Placed
<1>8. CASE LockGetsOld
  <2>1. lock' = [writer |-> lock.writer, old |-> TRUE] /\ AtWork' = AtWork /\ UNCHANGED <<process, lost, stops>>
    BY <1>8 DEF LockGetsOld, DownloadTypeOK, NoLock, AtWork
  <2>2. ~ Orderly'
    BY <1>8, <2>1 DEF LockGetsOld, LockInv, LockIsInUse, Orderly
  <2> QED
    BY <2>1, <2>2 DEF LockInv, WorkerHoldsLock
<1>9. CASE ListVersion
  BY <1>9 DEF ListVersion, LockInv, WorkerHoldsLock, Orderly, LockIsInUse, AtWork
<1>10. CASE CleanGlobal
  <2>1. AtWork = {} /\ AtWork' = {}
    BY <1>10 DEF CleanGlobal, AtWork, Working, Placed, Ended
  <2> QED
    BY <1>10, <2>1 DEF CleanGlobal, LockInv, WorkerHoldsLock, Orderly, LockIsInUse
<1> QED
  BY <1>1, <1>2, <1>3, <1>4, <1>5, <1>6, <1>7, <1>8, <1>9, <1>10 DEF DownloadNext, Step

LEMMA LockImplies == DownloadTypeOK /\ LockInv => LockExcludes
<1> SUFFICES ASSUME DownloadTypeOK, LockInv PROVE LockExcludes
  OBVIOUS
<1>1. ASSUME ~ lost PROVE Cardinality(AtWork) <= 1
  <2>1. AtWork \subseteq {lock.writer}
    BY <1>1 DEF LockInv, WorkerHoldsLock
  <2>2. IsFiniteSet({lock.writer}) /\ Cardinality({lock.writer}) = 1
    BY FS_Singleton
  <2> QED
    BY <2>1, <2>2, FS_Subset
<1>2. lost => overstayed \/ stops > 0
  BY DEF DownloadTypeOK, LockInv, Orderly, LockIsInUse
<1> QED
  BY <1>1, <1>2 DEF LockExcludes

-----------------------------------------------------------------------------
(* The compilers.  Until a lock is lost or a compiler is left unchecked, each *)
(* platform has none, has one on which its owner is at work, or has one that  *)
(* can be used; and who is at work knows which of the three it is.            *)

Sound(platform) ==
    /\ folder[platform].list = "complete" /\ folder[platform].compiler = "good"
    /\ ~ folder[platform].doesNotWork => Runs(platform)

Absent(platform) == folder[platform].compiler = None /\ ~ folder[platform].doesNotWork

BeingMade(platform) ==
    /\ ~ folder[platform].doesNotWork
    /\ \E p \in Processes : process[p].pc \in Placed /\ process[p].platform = platform

Kept(platform) ==
    /\ Sound(platform) \/ Absent(platform) \/ BeingMade(platform)
    /\ platform = "wasm" => ~ folder[platform].doesNotWork

Progress(p) ==
    /\ At(p, "list") => FilesOf(p).list # "complete"
    /\ process[p].pc \in {"list", "download", "move"} => Absent(process[p].platform)
    /\ process[p].pc \in {"download", "move"} \union Placed => FilesOf(p).list = "complete"
    /\ At(p, "move") => FilesOf(p).tmp # None
    /\ process[p].pc \in {"chmod", "try"} => FilesOf(p).compiler = "good" /\ process[p].platform = "native"
    /\ At(p, "try") => FilesOf(p).executable
    /\ process[p].pc \in {"release", "get", "got"} => Sound(process[p].platform)
    /\ At(p, "got") => Runs(process[p].platform)
    /\ ~ At(p, "asserted")

Untroubled == ~ lost /\ ~ unchecked

CompilersInv ==
    Untroubled => (\A p \in Processes : Progress(p)) /\ (\A platform \in Platforms : Kept(platform))

LEMMA CompilersInit == DownloadInit => CompilersInv
BY DEF DownloadInit, CompilersInv, Progress, Kept, Absent, Sound, BeingMade, FilesOf, At, EmptyFolder, Platforms, Placed, Working

\* A step of a process that leaves the folder alone, and is no step on a placed compiler.
LEMMA FolderKept ==
    ASSUME CompilersInv, UNCHANGED <<folder, nativeWorks>>, Untroubled' => Untroubled,
           NEW p \in Processes, \A q \in Processes \ {p} : process'[q] = process[q],
           Untroubled' => process[p].pc \notin Placed,
           Untroubled => Progress(p)'
    PROVE  CompilersInv'
<1> SUFFICES ASSUME Untroubled' PROVE (\A q \in Processes : Progress(q)') /\ (\A platform \in Platforms : Kept(platform)')
  BY DEF CompilersInv
<1>1. ASSUME NEW q \in Processes \ {p} PROVE Progress(q)'
  <2>1. Progress(q) /\ process'[q] = process[q]
    BY DEF CompilersInv
  <2> QED
    BY <2>1 DEF Progress, FilesOf, At, Sound, Absent, Runs
<1>2. ASSUME NEW platform \in Platforms PROVE Kept(platform)'
  <2>1. Kept(platform)
    BY DEF CompilersInv
  <2>2. BeingMade(platform) => BeingMade(platform)'
    BY DEF BeingMade
  <2> QED
    BY <2>1, <2>2 DEF Kept, Sound, Absent, Runs
<1> QED
  BY <1>1, <1>2

\* A step of the process that is at work, on the files of its platform.
LEMMA WorkerStep ==
    ASSUME DownloadTypeOK, WorkerHoldsLock, CompilersInv, UNCHANGED nativeWorks, Untroubled' => Untroubled,
           NEW p \in AtWork, \A q \in Processes \ {p} : process'[q] = process[q],
           process'[p].platform = process[p].platform,
           \A platform \in Platforms \ {process[p].platform} : folder'[platform] = folder[platform],
           Untroubled => /\ Progress(p)'
                         /\ Kept(process[p].platform)'
                         /\ Sound(process[p].platform) => Sound(process[p].platform)'
                         /\ Sound(process[p].platform) /\ Runs(process[p].platform) => Runs(process[p].platform)'
    PROVE  CompilersInv'
<1> SUFFICES ASSUME Untroubled' PROVE (\A q \in Processes : Progress(q)') /\ (\A platform \in Platforms : Kept(platform)')
  BY DEF CompilersInv
<1>0. p \in Processes /\ (\A q \in Processes : process[q].platform \in Platforms)
  BY Types DEF AtWork
<1>1. \A q \in Processes \ {p} : process[q].pc \notin Working
  BY DEF Untroubled, WorkerHoldsLock, AtWork
<1>2. \A platform \in Platforms :
        /\ Sound(platform) => Sound(platform)'
        /\ Sound(platform) /\ Runs(platform) => Runs(platform)'
  BY DEF Sound, Runs
<1>3. ASSUME NEW q \in Processes \ {p} PROVE Progress(q)'
  <2>1. Progress(q) /\ process'[q] = process[q] /\ process[q].pc \notin Working /\ process[q].platform \in Platforms
    BY <1>0, <1>1 DEF CompilersInv
  <2> QED
    BY <1>2, <2>1 DEF Progress, At, Working, Placed
<1>4. ASSUME NEW platform \in Platforms \ {process[p].platform} PROVE Kept(platform)'
  <2>1. Kept(platform) /\ ~ BeingMade(platform)
    BY <1>1 DEF CompilersInv, BeingMade, Working
  <2> QED
    BY <2>1 DEF Kept, Sound, Absent, Runs
<1> QED
  BY <1>0, <1>3, <1>4

LEMMA CompilersStep == DownloadTypeOK /\ WorkerHoldsLock /\ CompilersInv /\ [DownloadNext]_downloadVars => CompilersInv'
<1> SUFFICES ASSUME DownloadTypeOK, WorkerHoldsLock, CompilersInv, [DownloadNext]_downloadVars PROVE CompilersInv'
  OBVIOUS
<1> USE DEF environment, history
<1>a. /\ process \in [Processes -> [pc : Pcs, platform : Platforms]]
      /\ folder \in [Platforms -> FilesType]
      /\ \A p \in Processes : process[p].platform \in Platforms
  BY Types
<1>b. Untroubled => \A p \in AtWork, q \in AtWork : p = q
  BY DEF Untroubled, WorkerHoldsLock
<1>1. CASE UNCHANGED downloadVars
  BY <1>1 DEF downloadVars, CompilersInv, Untroubled, Progress, Kept, Sound, Absent, BeingMade, Runs, FilesOf, At
<1>2. ASSUME NEW p \in Processes, Start(p) \/ TryToAcquireMutex(p) \/ StatMutexFile(p) \/ DeleteMutexFile(p) \/ Stop(p)
      PROVE  CompilersInv'
  <2>0. Untroubled' => Untroubled
    BY <1>2, Zenon DEF Start, TryToAcquireMutex, StatMutexFile, DeleteMutexFile, Stop, Untroubled
  <2>1. /\ UNCHANGED <<folder, nativeWorks>>
        /\ \A q \in Processes \ {p} : process'[q] = process[q]
        /\ Untroubled' => process[p].pc \notin Placed
    BY <1>a, <1>2 DEF Start, TryToAcquireMutex, StatMutexFile, DeleteMutexFile, Stop, Untroubled, GoTo, At, Placed, Ended
  <2>2. process'[p].pc \in {"acquire", "check", "stat", "delete", "stopped"}
    BY <1>a, <1>2 DEF Start, TryToAcquireMutex, StatMutexFile, DeleteMutexFile, Stop, GoTo, At
  <2>3. Progress(p)'
    BY <2>2 DEF Progress, At, Placed
  <2> QED
    BY <2>0, <2>1, <2>3, FolderKept
<1>3. ASSUME NEW p \in Processes, GetCompiler(p)
      PROVE  CompilersInv'
  <2>1. /\ UNCHANGED <<folder, nativeWorks>>
        /\ Untroubled' => Untroubled
        /\ \A q \in Processes \ {p} : process'[q] = process[q]
        /\ process[p].pc \notin Placed
    BY <1>a, <1>3 DEF GetCompiler, Untroubled, GoTo, At, Placed
  <2>2. ASSUME Untroubled PROVE Progress(p)'
    <3>1. Sound(process[p].platform) /\ Kept(process[p].platform)
      BY <1>a, <1>3, <2>2 DEF CompilersInv, Progress, GetCompiler, At
    <3>2. \/ process' = [process EXCEPT ![p].pc = "got"] /\ ~ folder[process[p].platform].doesNotWork
          \/ process' = [process EXCEPT ![p] = [pc |-> "acquire", platform |-> "wasm"]]
      BY <1>a, <1>3, <3>1 DEF GetCompiler, GoTo, FilesOf, Sound, Kept, None, Platforms
    <3>3. \/ process'[p].pc = "acquire"
          \/ /\ process'[p].pc = "got" /\ process'[p].platform = process[p].platform
             /\ Runs(process[p].platform)
      BY <1>a, <3>1, <3>2 DEF Sound
    <3> QED
      BY <2>1, <3>1, <3>3 DEF Progress, At, Sound, Runs, Placed
  <2> QED
    BY <2>1, <2>2, FolderKept
<1>4. ASSUME NEW p \in Processes, ReleaseMutex(p) \/ Check(p) \/ RequestFails(p)
      PROVE  CompilersInv'
  <2>0. Untroubled' => Untroubled
    BY <1>4, Zenon DEF ReleaseMutex, Check, RequestFails, Untroubled
  <2>1. /\ UNCHANGED <<folder, nativeWorks>>
        /\ \A q \in Processes \ {p} : process'[q] = process[q]
        /\ process[p].pc \notin Placed
        /\ process'[p].platform = process[p].platform
    BY <1>a, <1>4 DEF ReleaseMutex, Check, RequestFails, Untroubled, GoTo, At, Placed
  <2>2. p \in AtWork
    BY <1>4 DEF ReleaseMutex, Check, RequestFails, At, AtWork, Working
  <2>3. ASSUME Untroubled PROVE Progress(p)'
    <3>1. Progress(p) /\ Kept(process[p].platform) /\ ~ BeingMade(process[p].platform)
      BY <1>a, <1>b, <2>1, <2>2, <2>3 DEF CompilersInv, BeingMade, AtWork, Working
    <3>2. CASE ReleaseMutex(p)
      BY <1>a, <2>1, <3>1, <3>2 DEF ReleaseMutex, GoTo, Progress, At, Sound, Runs, Placed
    <3>3. CASE Check(p)
      BY <1>a, <2>1, <3>1, <3>3 DEF Check, GoTo, Progress, At, FilesOf, Kept, Sound, Absent, Runs, Placed, None
    <3>4. CASE RequestFails(p)
      BY <1>a, <2>1, <3>4 DEF RequestFails, GoTo, Progress, At, Placed
    <3> QED
      BY <1>4, <3>2, <3>3, <3>4
  <2> QED
    BY <2>0, <2>1, <2>3, FolderKept
<1>5. ASSUME NEW p \in Processes,
             DownloadCompilerList(p) \/ DownloadCompiler(p) \/ MoveCompiler(p)
             \/ VerifyCompilerDownload(p) \/ MakeExecutable(p) \/ CheckNativeSolc(p)
      PROVE  CompilersInv'
  <2> DEFINE x == process[p].platform
  <2>1. p \in AtWork
    BY <1>5 DEF DownloadCompilerList, DownloadCompiler, MoveCompiler, VerifyCompilerDownload, MakeExecutable,
                CheckNativeSolc, At, AtWork, Working, Placed
  <2>2. /\ UNCHANGED <<nativeWorks, lost, unchecked>>
        /\ \A q \in Processes \ {p} : process'[q] = process[q]
        /\ process'[p].platform = process[p].platform
    BY <1>a, <1>5 DEF DownloadCompilerList, DownloadCompiler, MoveCompiler, VerifyCompilerDownload, MakeExecutable,
                      CheckNativeSolc, GoTo
  <2>3. ASSUME Untroubled
        PROVE  /\ Progress(p)' /\ Kept(x)' /\ (Sound(x) => Sound(x)')
               /\ Sound(x) /\ Runs(x) => Runs(x)'
               /\ \A platform \in Platforms \ {x} : folder'[platform] = folder[platform]
    <3>1. Progress(p) /\ Kept(x) /\ (BeingMade(x) => process[p].pc \in Placed)
      BY <1>a, <1>b, <2>1, <2>3 DEF CompilersInv, BeingMade, AtWork, Working
    <3>a. x \in Platforms /\ folder[x] \in FilesType
      BY <1>a
    <3>2. CASE DownloadCompilerList(p)
      <4>1. /\ folder' = [folder EXCEPT ![x] = [@ EXCEPT !.list = IF listed THEN "complete" ELSE "incomplete"]]
            /\ process' = [process EXCEPT ![p].pc = IF listed THEN "download" ELSE "fail"]
        BY <3>2 DEF DownloadCompilerList, Change, FilesOf, GoTo
      <4>2. ~ Sound(x) /\ Absent(x)
        BY <3>1, <3>2 DEF DownloadCompilerList, Progress, At, FilesOf, Sound
      <4> QED
        BY <1>a, <3>1, <4>1, <4>2 DEF Progress, At, FilesOf, Sound, Kept, Absent, Placed, FilesType
    <3>3. CASE DownloadCompiler(p)
      <4>1. /\ \E tmp \in {"good", "bad"} : folder' = [folder EXCEPT ![x] = [@ EXCEPT !.tmp = tmp]]
            /\ process' = [process EXCEPT ![p].pc = "move"]
        BY <3>3 DEF DownloadCompiler, Change, FilesOf, GoTo
      <4>2. ~ Sound(x) /\ Absent(x) /\ FilesOf(p).list = "complete"
        BY <3>1, <3>3 DEF DownloadCompiler, Progress, At, FilesOf, Sound, Absent, None
      <4> QED
        BY <1>a, <3>1, <4>1, <4>2 DEF Progress, At, FilesOf, Sound, Kept, Absent, Placed, FilesType, None
    <3>4. CASE MoveCompiler(p)
      <4>1. Absent(x) /\ FilesOf(p).list = "complete" /\ FilesOf(p).tmp # None
        BY <3>1, <3>4 DEF MoveCompiler, Progress, At
      <4>2. /\ folder' = [folder EXCEPT ![x] = [@ EXCEPT !.compiler = FilesOf(p).tmp, !.executable = FALSE, !.tmp = None]]
            /\ process' = [process EXCEPT ![p].pc = "verify"]
        BY <3>4, <4>1 DEF MoveCompiler, Change, FilesOf, GoTo
      <4>3. BeingMade(x)'
        BY <1>a, <4>1, <4>2 DEF BeingMade, Absent, Placed, FilesOf, FilesType
      <4> QED
        BY <1>a, <4>1, <4>2, <4>3 DEF Progress, At, FilesOf, Sound, Kept, Absent, Placed, FilesType, None
    <3>5. CASE VerifyCompilerDownload(p)
      <4>1. FilesOf(p).list = "complete" /\ process[p].pc = "verify"
        BY <3>1, <3>5 DEF VerifyCompilerDownload, Progress, At, Placed
      <4>2. CASE FilesOf(p).compiler = "good"
        <5>1. folder' = folder /\ process' = [process EXCEPT ![p].pc = IF x = "native" THEN "chmod" ELSE "release"]
          BY <3>5, <4>2 DEF VerifyCompilerDownload, GoTo
        <5>2. BeingMade(x) => x # "native" \/ BeingMade(x)'
          BY <1>a, <5>1 DEF BeingMade, Placed
        <5>3. x = "wasm" => Sound(x)
          BY <3>1, <4>1, <4>2 DEF Sound, Runs, FilesOf
        <5> QED
          BY <1>a, <2>2, <3>1, <4>1, <4>2, <5>1, <5>2, <5>3
             DEF Progress, At, FilesOf, Sound, Kept, Absent, Placed, Runs, Platforms
      <4>3. CASE FilesOf(p).compiler # "good"
        <5>1. /\ folder' = [folder EXCEPT ![x] = [@ EXCEPT !.compiler = None]]
              /\ process' = [process EXCEPT ![p].pc = "fail"]
          BY <3>5, <4>3 DEF VerifyCompilerDownload, GoTo, Change, FilesOf
        <5>2. ~ Sound(x) /\ ~ folder[x].doesNotWork
          BY <3>1, <4>3 DEF Sound, Kept, Absent, BeingMade, FilesOf
        <5> QED
          BY <1>a, <5>1, <5>2 DEF Progress, At, FilesOf, Kept, Absent, Placed, FilesType
      <4> QED
        BY <4>2, <4>3
    <3>6. CASE MakeExecutable(p)
      <4>1. FilesOf(p).list = "complete" /\ FilesOf(p).compiler = "good" /\ x = "native"
        BY <3>1, <3>6 DEF MakeExecutable, Progress, At, Placed
      <4>2. /\ folder' = [folder EXCEPT ![x] = [@ EXCEPT !.executable = TRUE]]
            /\ process' = [process EXCEPT ![p].pc = "try"]
        BY <3>6, <4>1 DEF MakeExecutable, GoTo, Change, FilesOf, None
      <4>3. ~ folder[x].doesNotWork => BeingMade(x)'
        BY <1>a, <4>2 DEF BeingMade, Placed, FilesType
      <4>4. folder[x].doesNotWork => Sound(x)'
        BY <1>a, <4>1, <4>2 DEF Sound, FilesOf, FilesType
      <4>5. (Sound(x) => Sound(x)') /\ (Runs(x) => Runs(x)')
        BY <1>a, <2>2, <4>2 DEF Sound, Runs, FilesType
      <4> QED
        BY <1>a, <4>1, <4>2, <4>3, <4>4, <4>5 DEF Progress, At, FilesOf, Kept, Placed, FilesType
    <3>7. CASE CheckNativeSolc(p)
      <4>1. FilesOf(p).list = "complete" /\ FilesOf(p).compiler = "good" /\ x = "native"
        BY <3>1, <3>7 DEF CheckNativeSolc, Progress, At, Placed
      <4>2. /\ folder' = IF Runs("native") THEN folder ELSE [folder EXCEPT ![x] = [@ EXCEPT !.doesNotWork = TRUE]]
            /\ process' = [process EXCEPT ![p].pc = "release"]
        BY <3>7, <4>1 DEF CheckNativeSolc, GoTo
      <4>3. Sound(x)'
        <5>1. CASE Runs("native")
          BY <2>2, <4>1, <4>2, <5>1 DEF Sound, Runs, FilesOf
        <5>2. CASE ~ Runs("native")
          BY <1>a, <4>1, <4>2, <5>2 DEF Sound, FilesOf, FilesType
        <5> QED
          BY <5>1, <5>2
      <4>4. Runs(x) => Runs(x)'
        BY <2>2, <4>1, <4>2 DEF Runs
      <4> QED
        BY <1>a, <4>1, <4>2, <4>3, <4>4 DEF Progress, At, FilesOf, Kept, Placed
    <3> QED
      BY <1>5, <3>2, <3>3, <3>4, <3>5, <3>6, <3>7
  <2>4. CASE Untroubled
    BY <2>1, <2>2, <2>3, <2>4, WorkerStep
  <2>5. CASE ~ Untroubled
    BY <2>2, <2>5 DEF CompilersInv, Untroubled
  <2> QED
    BY <2>4, <2>5
<1>6. CASE LockGetsOld \/ ListVersion
  <2>1. UNCHANGED <<process, folder, nativeWorks, lost, unchecked>>
    BY <1>6 DEF LockGetsOld, ListVersion
  <2> QED
    BY <2>1 DEF CompilersInv, Untroubled, Progress, Kept, Sound, Absent, BeingMade, Runs, FilesOf, At
<1>7. CASE CleanGlobal
  BY <1>7 DEF CleanGlobal, CompilersInv, Progress, Kept, Absent, Sound, BeingMade, FilesOf, At, EmptyFolder, Platforms, Placed
<1> QED
  BY <1>1, <1>2, <1>3, <1>4, <1>5, <1>6, <1>7 DEF DownloadNext, Step

LEMMA CompilersImply == DownloadTypeOK /\ CompilersInv => CompilersWork
<1> SUFFICES ASSUME DownloadTypeOK, CompilersInv, Untroubled, NEW p \in Processes
             PROVE  ~ At(p, "asserted") /\ (At(p, "got") => Runs(process[p].platform))
  BY DEF CompilersWork, Untroubled
<1>1. Progress(p)
  BY DEF CompilersInv
<1> QED
  BY <1>1 DEF Progress, At, Sound

-----------------------------------------------------------------------------
(* The theorem.                                                               *)

\* Two processes work at once only after a lock was lost, which takes a stop or an overlong
\* download; and whatever fails, who gets a compiler gets one that was verified and runs,
\* for any number of processes and builds that fail: the property of the run `compile`.
THEOREM DownloadsStaySound == NamesDiffer => (DownloadSpec => []DownloadsAreSound)
<1> SUFFICES ASSUME NamesDiffer PROVE DownloadSpec => []DownloadsAreSound
  OBVIOUS
<1>1. DownloadInit => DownloadTypeOK /\ LockInv /\ CompilersInv
  BY TypeInit, LockInit, CompilersInit
<1>2. DownloadTypeOK /\ LockInv /\ CompilersInv /\ [DownloadNext]_downloadVars => DownloadTypeOK' /\ LockInv' /\ CompilersInv'
  BY TypeStep, LockStep, CompilersStep DEF LockInv
<1>3. DownloadTypeOK /\ LockInv /\ CompilersInv => DownloadsAreSound
  BY LockImplies, CompilersImply DEF DownloadsAreSound
<1> QED
  BY <1>1, <1>2, <1>3, PTL DEF DownloadSpec

\* The lock is that of a process, each process is at a known step, and the folder of a
\* platform holds what a download leaves there.
THEOREM DownloadTypeCorrect == DownloadSpec => []DownloadTypeOK
BY TypeInit, TypeStep, PTL DEF DownloadSpec

\* The compile task and the downloader keep their types side by side.
THEOREM TypesStayCorrect == MCSpec => []TypesOK
<1> DEFINE Everything == CompileInv /\ DownloadTypeOK
<1>1. MCInit => Everything
  BY CompileInit, TypeInit DEF MCInit
<1>2. Everything /\ [MCNext]_<<part, vars, downloadVars>> => Everything'
  <2> SUFFICES ASSUME Everything, [MCNext]_<<part, vars, downloadVars>> PROVE Everything'
    OBVIOUS
  <2>1. [Next]_vars /\ [DownloadNext]_downloadVars
    BY DEF MCNext
  <2> QED
    BY <2>1, CompileStep, TypeStep
<1>3. Everything => TypesOK
  BY CompileTypes DEF CompileInv, TypesOK
<1> QED
  BY <1>1, <1>2, <1>3, PTL DEF MCSpec

=============================================================================
