------------------------------ MODULE Compile -------------------------------
(***************************************************************************)
(* The compile task (builtin-tasks/compile.ts), with the cache of compiled *)
(* files, the jobs made from the dependency graph, and the artifacts,      *)
(* debug files and build infos on disk (internal/artifacts.ts).            *)
(*                                                                         *)
(* A content stands for a file's text and its hash.  What solc makes of a  *)
(* file is determined by the contents of the file and of all it imports,   *)
(* and by the configuration: an artifact records these.  The user edits    *)
(* files at any time; a process may stop between any two writes.           *)
(***************************************************************************)
EXTENDS Naturals, FiniteSets, Sequences

CONSTANTS
    Sources,      \* the files of the project
    Libraries,    \* files that are only compiled when they are imported
    FileContents, \* for each file, the contents it may have
    Imports,      \* for each content, the files it imports
    Contracts,    \* for each content, the names of its contracts
    Pragmas,      \* for each content, the compiler versions it allows
    Broken,       \* the contents solc has an error for
    Configs,      \* the solidity settings of the configuration file
    MaxEvents     \* bound on edits, processes and tasks

Files == Sources \union Libraries
Missing == "missing"
NoConfig == {}

VARIABLES
    sources,      \* the content of each file, or Missing
    config,       \* the configuration of this process
    cache,        \* the cache file: what is known of the files compiled last
    artifacts,    \* the artifacts, by file and contract
    debugFiles,   \* the build info that the debug file of an artifact names
    buildInfos,   \* the build infos
    valid,        \* the artifacts this process takes as valid
    task,         \* the compile task under way
    readable,     \* whether the cache file is whole
    unrecorded,   \* files with an artifact newer than what the cache file says of them
    leftOut,      \* files no task looked at when one that they read was compiled again
    compiled,     \* whether this process has compiled before
    events

vars == <<sources, config, cache, artifacts, debugFiles, buildInfos, valid, task,
          readable, unrecorded, leftOut, compiled, events>>

-----------------------------------------------------------------------------
(* The dependency graph, and the jobs made from it.                        *)

\* Some nodes and all that edges lead to from them: what every set has that is closed under
\* the edges once these nodes are added.
Reachable(graph, from) ==
    LET others == graph.node \ from
        closed == {S \in SUBSET others : \A e \in graph.edge : e[1] \in from \union S => e[2] \in from \union S}
    IN  from \union {g \in others : \A S \in closed : g \in S}

\* The files that are there, and the imports among them.
GraphOf(read) ==
    LET there == {f \in Files : read[f] # Missing}
    IN  [node |-> there, edge |-> {e \in there \X there : e[2] \in Imports[read[e[1]]]}]

\* mutant of Reads: the imports without the file
Reads_ImportsOnly(read, f) == Reachable(GraphOf(read), {f}) \ {f}

\* A file and all it imports, directly or not.
Reads(read, f) == Reachable(GraphOf(read), {f})

Resolved(read) == Reachable(GraphOf(read), {f \in Sources : read[f] # Missing})

\* Every import is there.
Resolves(read) ==
    \A f \in Resolved(read) : \A g \in Imports[read[f]] : read[g] # Missing

\* getConnectedComponents: of the resolved files, whatever the direction of the imports.
Component(read, f) ==
    LET resolved == Resolved(read)
        edge == {e \in GraphOf(read).edge : e \in resolved \X resolved}
    IN  Reachable([node |-> resolved, edge |-> edge \union {<<e[2], e[1]>> : e \in edge}], {f})

\* getCompilerConfigForFile: the override, if its version is allowed by the file and all
\* it imports, or the newest compiler that is; NoConfig when there is none.
CompilerFor(read, f) ==
    LET candidates == IF f \in DOMAIN config.overrides THEN {config.overrides[f]} ELSE config.compilers
        files == Reads(read, f)
        fit == {c \in candidates : \A g \in files : c.version \in Pragmas[read[g]]}
    IN  {c \in fit : \A d \in fit : d.version <= c.version}

\* createCompilationJobFromFile: the file emits its artifacts, what it imports does not.
JobFor(read, f) == [config |-> CompilerFor(read, f), files |-> Reads(read, f), emits |-> {f}]

\* mutant of Merge: only the files that the first job emits
Merge_FirstEmits(jobs) ==
    LET first == CHOOSE j \in jobs : TRUE
    IN  [config |-> first.config, files |-> UNION {j.files : j \in jobs}, emits |-> first.emits]

\* CompilationJob.merge: a file emits artifacts if it does in one of the jobs.
Merge(jobs) ==
    [config |-> (CHOOSE j \in jobs : TRUE).config,
     files |-> UNION {j.files : j \in jobs}, emits |-> UNION {j.emits : j \in jobs}]

HasBug(solcConfig) == \E c \in solcConfig : c.bug

\* mergeCompilationJobs: the mergeable jobs with the same configuration become one.
MergeJobs(jobs, mergeable) ==
    {j \in jobs : HasBug(j.config) # mergeable}
        \union {Merge({j \in jobs : j.config = c}) :
                c \in {j.config : j \in {k \in jobs : HasBug(k.config) = mergeable}}}

\* Per component, jobs with solc's bug 9573 are merged before the cache is asked.
CreateJobs(read) ==
    UNION {MergeJobs({JobFor(read, f) : f \in component}, TRUE) :
           component \in {Component(read, g) : g \in Resolved(read)}}

\* mutant of HasFileChanged: the configuration is not compared
HasFileChanged_IgnoringConfig(known, f, content, solcConfig) ==
    f \notin DOMAIN known \/ known[f].content # content

\* hasFileChanged
HasFileChanged(known, f, content, solcConfig) ==
    \/ f \notin DOMAIN known
    \/ known[f].content # content
    \/ solcConfig # NoConfig /\ known[f].config # solcConfig

\* mutant of NeedsCompilation: only the files that emit artifacts are looked at
NeedsCompilation_EmittedOnly(read, known, job) ==
    \E f \in job.emits : HasFileChanged(known, f, read[f], job.config)

\* needsCompilation: the configuration matters for files that emit artifacts only.
NeedsCompilation(read, known, job) ==
    \E f \in job.files :
        HasFileChanged(known, f, read[f], IF f \in job.emits THEN job.config ELSE NoConfig)

\* What is left to compile: the other jobs are merged, over all components.
JobsToCompile(read, known, force) ==
    MergeJobs({j \in CreateJobs(read) : force \/ NeedsCompilation(read, known, j)}, FALSE)

-----------------------------------------------------------------------------
(* What is on disk.                                                        *)

\* What determines the artifacts of a file.
Origin(read, f, solcConfig) == [contents |-> [g \in Reads(read, f) |-> read[g]], config |-> solcConfig]

InfoOf(read, job) == [input |-> [f \in job.files |-> read[f]], config |-> job.config]

Names(read, f) == {<<f, c>> : c \in Contracts[read[f]]}

RestrictTo(f, S) == [x \in DOMAIN f \intersect S |-> f[x]]
Override(f, g) == [x \in DOMAIN f \union DOMAIN g |-> IF x \in DOMAIN g THEN g[x] ELSE f[x]]

\* readFromFile drops files that are gone, invalidateCacheMissingArtifacts those of the
\* graph whose artifacts are not all there.
KnownFiles(read) ==
    LET resolved == Resolved(read)
    IN  RestrictTo(cache, {f \in DOMAIN cache :
            /\ sources[f] # Missing
            /\ f \in resolved => \A c \in cache[f].artifacts : <<f, c>> \in DOMAIN artifacts})

-----------------------------------------------------------------------------
(* The task.                                                               *)

Idle == [phase |-> "idle", force |-> FALSE]

More == events < MaxEvents /\ events' = events + 1

\* TASK_COMPILE_SOLIDITY up to the jobs: what it reads now is what it compiles.
StartCompile(force) ==
    LET read == sources
        known == KnownFiles(read)
    IN  /\ task.phase \in {"idle", "done"} /\ More
        /\ readable
        /\ Resolves(read)
        /\ \A f \in Resolved(read) : CompilerFor(read, f) # NoConfig
        /\ task' = [phase |-> "compiling", force |-> force, read |-> read, known |-> known,
                    waiting |-> JobsToCompile(read, known, force), emitting |-> {},
                    emitted |-> <<>>, failed |-> FALSE]
        /\ compiled' = (compiled \/ task.phase = "done")
        /\ UNCHANGED <<sources, config, cache, artifacts, debugFiles, buildInfos, valid, readable, unrecorded, leftOut>>

\* TASK_COMPILE_SOLIDITY_COMPILE_JOB: an error ends this job, the others go on.  The build
\* info is written first; the result is kept in memory until all jobs are done.
CompileJob(job) ==
    /\ task.phase = "compiling" /\ job \in task.waiting
    /\ IF \E f \in job.files : task.read[f] \in Broken
       THEN /\ task' = [task EXCEPT !.waiting = @ \ {job}, !.failed = TRUE]
            /\ UNCHANGED buildInfos
       ELSE /\ task' = [task EXCEPT
                    !.waiting = @ \ {job},
                    !.emitting = @ \union {job} \X job.emits \X {"artifact", "debug"},
                    !.emitted = Override(@, [f \in job.emits |->
                        [content |-> task.read[f], config |-> job.config, artifacts |-> Contracts[task.read[f]]]])]
            /\ buildInfos' = buildInfos \union {InfoOf(task.read, job)}
    /\ UNCHANGED <<sources, config, cache, artifacts, debugFiles, valid, readable, unrecorded, leftOut, compiled, events>>

\* TASK_COMPILE_SOLIDITY_EMIT_ARTIFACTS, saveArtifactAndDebugFile: two writes at once.
EmitArtifacts(job, f) ==
    /\ task.phase = "compiling" /\ <<job, f, "artifact">> \in task.emitting
    /\ task' = [task EXCEPT !.emitting = @ \ {<<job, f, "artifact">>}]
    /\ artifacts' = Override(artifacts, [n \in Names(task.read, f) |-> Origin(task.read, f, job.config)])
    /\ unrecorded' = unrecorded \union {f}
    /\ UNCHANGED <<sources, config, cache, debugFiles, buildInfos, valid, readable, leftOut, compiled, events>>

EmitDebugFiles(job, f) ==
    /\ task.phase = "compiling" /\ <<job, f, "debug">> \in task.emitting
    /\ task' = [task EXCEPT !.emitting = @ \ {<<job, f, "debug">>}]
    /\ debugFiles' = Override(debugFiles, [n \in Names(task.read, f) |-> InfoOf(task.read, job)])
    /\ unrecorded' = unrecorded \union {f}
    /\ UNCHANGED <<sources, config, cache, artifacts, buildInfos, valid, readable, leftOut, compiled, events>>

JobsDone == task.phase = "compiling" /\ task.waiting = {} /\ task.emitting = {}

\* A job failed: the task throws, and what was emitted is not recorded.
CompileFails ==
    /\ JobsDone /\ task.failed
    /\ task' = Idle
    /\ compiled' = TRUE
    /\ UNCHANGED <<sources, config, cache, artifacts, debugFiles, buildInfos, valid, readable, unrecorded, leftOut, events>>

\* Files out of the graph that have an artifact made from a file that this task compiled.
LeftOut ==
    {f \in DOMAIN task.known \ Resolved(task.read) : \E c \in task.known[f].artifacts :
        /\ <<f, c>> \in DOMAIN artifacts
        /\ DOMAIN artifacts[<<f, c>>].contents \intersect DOMAIN task.emitted # {}}

\* mutant of WriteCache: the contents are hashed when the jobs are done
WriteCache_AsTheyAreNow ==
    /\ JobsDone /\ ~ task.failed
    /\ cache' = Override(task.known, [f \in DOMAIN task.emitted |->
                                        [task.emitted[f] EXCEPT !.content = sources[f]]])
    /\ valid' = valid \union UNION {{<<f, c>> : c \in cache'[f].artifacts} : f \in DOMAIN cache'}
    /\ task' = [task EXCEPT !.phase = "recorded"]
    /\ unrecorded' = unrecorded \ DOMAIN task.emitted
    /\ leftOut' = (leftOut \ DOMAIN task.emitted) \union LeftOut
    /\ UNCHANGED <<sources, config, artifacts, debugFiles, buildInfos, readable, compiled, events>>

\* The cache is brought up to date, its entries become valid artifacts, and it is written.
WriteCache ==
    /\ JobsDone /\ ~ task.failed
    /\ cache' = Override(task.known, task.emitted)
    /\ valid' = valid \union UNION {{<<f, c>> : c \in cache'[f].artifacts} : f \in DOMAIN cache'}
    /\ task' = [task EXCEPT !.phase = "recorded"]
    /\ unrecorded' = unrecorded \ DOMAIN task.emitted
    /\ leftOut' = (leftOut \ DOMAIN task.emitted) \union LeftOut
    /\ UNCHANGED <<sources, config, artifacts, debugFiles, buildInfos, readable, compiled, events>>

\* mutant of RemoveObsoleteArtifacts: a file that has a valid artifact keeps them all
RemoveObsoleteArtifacts_OfOtherFiles ==
    /\ task.phase = "recorded"
    /\ valid \subseteq DOMAIN artifacts
    /\ artifacts' = RestrictTo(artifacts, {n \in DOMAIN artifacts : \E v \in valid : v[1] = n[1]})
    /\ task' = [task EXCEPT !.phase = "removed"]
    /\ UNCHANGED <<sources, config, cache, debugFiles, buildInfos, valid, readable, unrecorded, leftOut, compiled, events>>

\* removeObsoleteArtifacts: with their debug files.
RemoveObsoleteArtifacts ==
    /\ task.phase = "recorded"
    /\ valid \subseteq DOMAIN artifacts
    /\ artifacts' = RestrictTo(artifacts, valid)
    /\ debugFiles' = RestrictTo(debugFiles, valid \union (DOMAIN debugFiles \ DOMAIN artifacts))
    /\ task' = [task EXCEPT !.phase = "removed"]
    /\ UNCHANGED <<sources, config, cache, buildInfos, valid, readable, unrecorded, leftOut, compiled, events>>

\* mutant of RemoveObsoleteBuildInfos: those of files that were not compiled again go too
RemoveObsoleteBuildInfos_OfThisTask ==
    /\ task.phase = "removed"
    /\ buildInfos' = {debugFiles[n] : n \in {m \in DOMAIN debugFiles : m[1] \in DOMAIN task.emitted}}
    /\ task' = [task EXCEPT !.phase = "done"]
    /\ UNCHANGED <<sources, config, cache, artifacts, debugFiles, valid, readable, unrecorded, leftOut, compiled, events>>

\* _removeObsoleteBuildInfos: those that no debug file names.
RemoveObsoleteBuildInfos ==
    /\ task.phase = "removed"
    /\ buildInfos' = buildInfos \intersect {debugFiles[n] : n \in DOMAIN debugFiles}
    /\ task' = [task EXCEPT !.phase = "done"]
    /\ UNCHANGED <<sources, config, cache, artifacts, debugFiles, valid, readable, unrecorded, leftOut, compiled, events>>

\* A valid artifact is not on disk: its path cannot be found, and the task throws.
RemoveObsoleteFails ==
    /\ task.phase = "recorded"
    /\ ~ valid \subseteq DOMAIN artifacts
    /\ task' = Idle
    /\ compiled' = TRUE
    /\ UNCHANGED <<sources, config, cache, artifacts, debugFiles, buildInfos, valid, readable, unrecorded, leftOut, events>>

-----------------------------------------------------------------------------
(* The user, and the process.                                              *)

Edit(f, content) ==
    /\ More
    /\ sources[f] # content
    /\ sources' = [sources EXCEPT ![f] = content]
    /\ UNCHANGED <<config, cache, artifacts, debugFiles, buildInfos, valid, task, readable, unrecorded, leftOut, compiled>>

\* Another process starts, after the last one ended or was stopped; it reads the
\* configuration file.
NewProcess(c) ==
    /\ More
    /\ config' = c
    /\ valid' = {} /\ task' = Idle /\ compiled' = FALSE
    /\ UNCHANGED <<sources, cache, artifacts, debugFiles, buildInfos, readable, unrecorded, leftOut>>

\* The process is stopped while it writes the cache file: no task gets past reading it.
StopWritingCache(c) ==
    /\ JobsDone /\ ~ task.failed /\ More
    /\ readable' = FALSE
    /\ config' = c
    /\ valid' = {} /\ task' = Idle /\ compiled' = FALSE
    /\ UNCHANGED <<sources, cache, artifacts, debugFiles, buildInfos, unrecorded, leftOut>>

\* Artifacts of a file are deleted by hand, with their debug files or without.
LoseArtifacts(f) ==
    LET others(files) == RestrictTo(files, {n \in DOMAIN files : n[1] # f})
    IN  /\ task.phase \in {"idle", "done"} /\ More
        /\ others(artifacts) # artifacts
        /\ artifacts' = others(artifacts) /\ debugFiles' \in {debugFiles, others(debugFiles)}
        /\ task' = Idle /\ compiled' = (compiled \/ task.phase = "done")
        /\ UNCHANGED <<sources, config, cache, buildInfos, valid, readable, unrecorded, leftOut>>

\* The clean task; this process keeps what it takes as valid.
Clean ==
    /\ task.phase \in {"idle", "done"} /\ More
    /\ cache' = <<>> /\ artifacts' = <<>> /\ debugFiles' = <<>> /\ buildInfos' = {}
    /\ unrecorded' = {} /\ leftOut' = {} /\ readable' = TRUE
    /\ task' = Idle /\ compiled' = TRUE
    /\ UNCHANGED <<sources, config, valid>>

Init ==
    /\ sources \in [Files -> UNION {FileContents[f] : f \in Files}]
    /\ \A f \in Files : sources[f] \in FileContents[f] \ (Broken \union {Missing})
    /\ config \in Configs
    /\ cache = <<>> /\ artifacts = <<>> /\ debugFiles = <<>> /\ buildInfos = {} /\ valid = {}
    /\ task = Idle /\ readable = TRUE /\ unrecorded = {} /\ leftOut = {} /\ compiled = FALSE /\ events = 0

Next ==
    \/ \E force \in BOOLEAN : StartCompile(force)
    \/ \E job \in IF task.phase = "compiling" THEN task.waiting ELSE {} : CompileJob(job)
    \/ \E p \in IF task.phase = "compiling" THEN task.emitting ELSE {} : EmitArtifacts(p[1], p[2]) \/ EmitDebugFiles(p[1], p[2])
    \/ CompileFails \/ WriteCache
    \/ RemoveObsoleteArtifacts \/ RemoveObsoleteBuildInfos \/ RemoveObsoleteFails
    \/ \E f \in Files : LoseArtifacts(f) \/ \E c \in FileContents[f] : Edit(f, c)
    \/ \E c \in Configs : NewProcess(c) \/ StopWritingCache(c)
    \/ Clean

Spec == Init /\ [][Next]_vars

-----------------------------------------------------------------------------
(* Properties.                                                             *)

\* The state is of the stated form: an artifact tells the contents it was made from.
TypeOK ==
    /\ DOMAIN cache \subseteq Files /\ unrecorded \union leftOut \subseteq Files
    /\ \A n \in DOMAIN artifacts : n[1] \in DOMAIN artifacts[n].contents
    /\ \A n \in DOMAIN debugFiles : n[1] \in DOMAIN debugFiles[n].input
    /\ task.phase \in {"idle", "compiling", "recorded", "removed", "done"}

\* The artifacts of a file are there and are what a compilation of everything would make,
\* and so is what their build info was compiled from.
Current(f) ==
    LET made == Origin(task.read, f, CompilerFor(task.read, f))
    IN  \A n \in Names(task.read, f) :
            /\ n \in DOMAIN artifacts /\ artifacts[n] = made
            /\ n \in DOMAIN debugFiles /\ debugFiles[n].config = made.config
            /\ \A g \in DOMAIN made.contents : debugFiles[n].input[g] = made.contents[g]

\* When the task ends well every artifact and build info is the one that a full
\* compilation would make, whatever the cache made it leave out (needsCompilation,
\* hasFileChanged, invalidateCacheMissingArtifacts), whatever was edited meanwhile and
\* wherever the tasks before stopped; but for files that an earlier task emitted without
\* recording it, and libraries that were out of the graph when one they import was compiled
\* again.
ArtifactsAreCurrent ==
    task.phase = "done" => \A f \in Resolved(task.read) \ (unrecorded \union leftOut) : Current(f)

\* The same without the exceptions: the compile task "Compiles the entire project,
\* building all artifacts" (compile.ts).  A task that fails leaves new artifacts behind
\* and the old cache file; a library keeps its entry in the cache file while nobody imports
\* it, and the entry does not say what the library was compiled with.
CompilesTheEntireProject ==
    task.phase = "done" => \A f \in Resolved(task.read) : Current(f)

\* What the cache file says of a file is true of its artifacts on disk, so that
\* hasFileChanged may be asked in place of the artifacts.
CacheIsTrue ==
    \A f \in DOMAIN cache \ unrecorded : \A c \in cache[f].artifacts :
        <<f, c>> \in DOMAIN artifacts =>
            /\ artifacts[<<f, c>>].contents[f] = cache[f].content
            /\ artifacts[<<f, c>>].config = cache[f].config

\* The first task of a process that ends well leaves no artifact of a contract or a file
\* that is gone (removeObsoleteArtifacts); later ones do, for the artifacts that were
\* valid stay valid.
NothingObsolete ==
    task.phase = "done" /\ ~ compiled =>
        \A n \in DOMAIN artifacts :
            /\ task.read[n[1]] # Missing
            /\ n[1] \in Resolved(task.read) => n \in Names(task.read, n[1])

\* Every debug file names a build info that is on disk, wherever a process stopped
\* (saveBuildInfo, _removeObsoleteBuildInfos).
BuildInfosAreThere == \A n \in DOMAIN debugFiles : debugFiles[n] \in buildInfos

\* The artifacts folder holds what it should: nothing of what is gone, and the build info
\* of each artifact.
FolderIsTidy == NothingObsolete /\ BuildInfosAreThere

\* What a later task goes by, the cache file and the artifacts folder, agree with each other.
FilesAgree == CacheIsTrue /\ FolderIsTidy

\* After a task that ended well, without a change to any file, there is nothing to compile.
NothingLeftToCompile ==
    task.phase = "done" /\ sources = task.read =>
        JobsToCompile(sources, KnownFiles(sources), FALSE) = {}

\* A task compiles all that has to be compiled, and nothing of it again.
TasksAreComplete == ArtifactsAreCurrent /\ NothingLeftToCompile

=============================================================================
