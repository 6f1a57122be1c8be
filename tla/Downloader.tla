----------------------------- MODULE Downloader -----------------------------
(* The download of a compiler (internal/solidity/compiler/downloader.ts) by   *)
(* several processes that share the compilers folder and the lock file of     *)
(* internal/util/multi-process-mutex.ts.  One version is asked for: its       *)
(* native build first and, where that does not run, its wasm build.  The      *)
(* network fails, serves other bytes than the list promises, or does not list *)
(* the version yet; processes stop between any two steps and are started      *)
(* again.  Ages are kept as far as the code looks at them: a lock is old or   *)
(* not, and a list that lacks the version may be too old or not.              *)
EXTENDS Naturals, FiniteSets

CONSTANTS
    Processes,      \* each calls TASK_COMPILE_SOLIDITY_GET_SOLC_BUILD
    MaxStarts,      \* bound on the calls
    MaxFailures,    \* bound on the requests that go wrong
    MaxStops        \* bound on the processes that stop half way

VARIABLES
    lock,           \* the lock file, with who wrote it (which the file does not say)
    process,        \* where each process is, and the build it asks for
    folder,         \* of each platform: list.json, the temporary file, the compiler
    listed,         \* the version is in the list of the server
    nativeWorks,    \* the native build runs on this machine
    starts, failures, stops,
    overstayed,     \* a process worked until its lock was old
    lost,           \* a process lost its lock while it worked
    unchecked       \* a process stopped between placing a compiler and checking it

downloadVars == <<lock, process, folder, listed, nativeWorks, starts, failures, stops, overstayed, lost, unchecked>>

environment == <<listed, nativeWorks, starts, failures, stops>>

history == <<overstayed, lost, unchecked>>

NoLock == [writer |-> "nobody", old |-> FALSE]

\* A process is not called like the writer of a lock file that is not there.
NamesDiffer == "nobody" \notin Processes

None == "none"

EmptyFolder ==
    [platform \in {"native", "wasm"} |->
        [list |-> None, tmp |-> None, compiler |-> None, executable |-> FALSE, doesNotWork |-> FALSE]]

Waiting == {"acquire", "stat", "delete"}

Placed == {"verify", "chmod", "try"}

Working == {"check", "list", "download", "move", "release", "fail"} \union Placed

Ended == {"idle", "stopped", "failed", "asserted", "got"}

AtWork == {p \in Processes : process[p].pc \in Working}

FilesOf(p) == folder[process[p].platform]

At(p, pc) == process[p].pc = pc

GoTo(p, pc) == process' = [process EXCEPT ![p].pc = pc]

Change(p, files) == folder' = [folder EXCEPT ![process[p].platform] = files]

-----------------------------------------------------------------------------
(* The lock file.                                                          *)

DownloadInit ==
    /\ lock = NoLock
    /\ process = [p \in Processes |-> [pc |-> "idle", platform |-> "native"]]
    /\ folder = EmptyFolder
    /\ listed \in BOOLEAN /\ nativeWorks \in BOOLEAN
    /\ starts = 0 /\ failures = 0 /\ stops = 0
    /\ overstayed = FALSE /\ lost = FALSE /\ unchecked = FALSE

\* A process that was not started yet, or has ended, asks for the compiler.
Start(p) ==
    /\ process[p].pc \in Ended /\ starts < MaxStarts
    /\ process' = [process EXCEPT ![p] = [pc |-> "acquire", platform |-> "native"]]
    /\ starts' = starts + 1
    /\ UNCHANGED <<lock, folder, listed, nativeWorks, failures, stops, history>>

\* _tryToAcquireMutex: the file is created if it is not there, in one step.
TryToAcquireMutex(p) ==
    /\ At(p, "acquire")
    /\ IF lock = NoLock THEN lock' = [writer |-> p, old |-> FALSE] /\ GoTo(p, "check")
                        ELSE lock' = lock /\ GoTo(p, "stat")
    /\ UNCHANGED <<folder, environment, history>>

\* mutant of IsMutexFileTooOld: a file that is gone counts as one that is too old
IsMutexFileTooOld_OrGone == lock.old \/ lock = NoLock

\* mutant of IsMutexFileTooOld: it is waited for, however old it is
IsMutexFileTooOld_Never == FALSE

\* A lock that was deleted meanwhile is not an old one.
IsMutexFileTooOld == lock # NoLock /\ lock.old

StatMutexFile(p) ==
    /\ At(p, "stat")
    /\ GoTo(p, IF IsMutexFileTooOld THEN "delete" ELSE "acquire")
    /\ UNCHANGED <<lock, folder, environment, history>>

\* _deleteMutexFile by a process that waits: whatever lock there is by then.
DeleteMutexFile(p) ==
    /\ At(p, "delete")
    /\ lock' = NoLock
    /\ lost' = (lost \/ lock.writer \in AtWork)
    /\ GoTo(p, "acquire")
    /\ UNCHANGED <<folder, environment, overstayed, unchecked>>

\* _deleteMutexFile by a process that ends its work: whatever lock there is.
ReleaseMutex(p) ==
    /\ process[p].pc \in {"release", "fail"}
    /\ lock' = NoLock
    /\ lost' = (lost \/ lock.writer \in AtWork \ {p})
    /\ GoTo(p, IF At(p, "release") THEN "get" ELSE "failed")
    /\ UNCHANGED <<folder, environment, overstayed, unchecked>>

-----------------------------------------------------------------------------
(* downloadCompiler, with the lock.                                        *)

\* isCompilerDownloaded, and what to do when it is not.
Check(p) ==
    /\ At(p, "check")
    /\ \/ FilesOf(p).list = "complete"
          /\ GoTo(p, IF FilesOf(p).compiler # None THEN "release" ELSE "download")
       \/ FilesOf(p).list # "complete" /\ GoTo(p, "list")
       \/ FilesOf(p).list = "incomplete" /\ GoTo(p, "fail")
    /\ UNCHANGED <<lock, folder, environment, history>>

DownloadCompilerList(p) ==
    /\ At(p, "list")
    /\ Change(p, [FilesOf(p) EXCEPT !.list = IF listed THEN "complete" ELSE "incomplete"])
    /\ GoTo(p, IF listed THEN "download" ELSE "fail")
    /\ UNCHANGED <<lock, environment, history>>

\* download writes the answer to a temporary file whose name all processes share ...
DownloadCompiler(p) ==
    /\ At(p, "download")
    /\ \/ Change(p, [FilesOf(p) EXCEPT !.tmp = "good"]) /\ failures' = failures
       \/ Change(p, [FilesOf(p) EXCEPT !.tmp = "bad"]) /\ failures < MaxFailures /\ failures' = failures + 1
    /\ GoTo(p, "move")
    /\ UNCHANGED <<lock, listed, nativeWorks, starts, stops, history>>

RequestFails(p) ==
    /\ process[p].pc \in {"list", "download"} /\ failures < MaxFailures
    /\ failures' = failures + 1
    /\ GoTo(p, "fail")
    /\ UNCHANGED <<lock, folder, listed, nativeWorks, starts, stops, history>>

\* ... and moves it to its place.
MoveCompiler(p) ==
    /\ At(p, "move")
    /\ IF FilesOf(p).tmp = None
       THEN folder' = folder /\ GoTo(p, "fail")
       ELSE /\ Change(p, [FilesOf(p) EXCEPT !.compiler = FilesOf(p).tmp, !.executable = FALSE, !.tmp = None])
            /\ GoTo(p, "verify")
    /\ UNCHANGED <<lock, environment, history>>

\* mutant of VerifyCompilerDownload: a compiler that is refused stays
VerifyCompilerDownload_Keeps(p) ==
    /\ At(p, "verify")
    /\ folder' = folder
    /\ GoTo(p, IF FilesOf(p).compiler # "good" THEN "fail"
               ELSE IF process[p].platform = "native" THEN "chmod" ELSE "release")
    /\ UNCHANGED <<lock, environment, history>>

\* _verifyCompilerDownload: a file with another hash is removed.
VerifyCompilerDownload(p) ==
    /\ At(p, "verify")
    /\ IF FilesOf(p).compiler = "good"
       THEN folder' = folder /\ GoTo(p, IF process[p].platform = "native" THEN "chmod" ELSE "release")
       ELSE Change(p, [FilesOf(p) EXCEPT !.compiler = None]) /\ GoTo(p, "fail")
    /\ UNCHANGED <<lock, environment, history>>

\* _postProcessCompilerDownload of a native build: it is made executable ...
MakeExecutable(p) ==
    /\ At(p, "chmod")
    /\ IF FilesOf(p).compiler = None
       THEN folder' = folder /\ GoTo(p, "fail")
       ELSE Change(p, [FilesOf(p) EXCEPT !.executable = TRUE]) /\ GoTo(p, "try")
    /\ UNCHANGED <<lock, environment, history>>

Runs(platform) ==
    /\ folder[platform].compiler = "good"
    /\ platform = "native" => folder[platform].executable /\ nativeWorks

\* ... and tried: a file beside it tells later calls that it does not work.
CheckNativeSolc(p) ==
    /\ At(p, "try")
    /\ folder' = IF Runs("native") THEN folder ELSE [folder EXCEPT !["native"].doesNotWork = TRUE]
    /\ GoTo(p, "release")
    /\ UNCHANGED <<lock, environment, history>>

-----------------------------------------------------------------------------
(* After the lock: getCompiler, and the other build where there is none.   *)

GetCompiler(p) ==
    /\ At(p, "get")
    /\ IF FilesOf(p).list # "complete" \/ FilesOf(p).compiler = None THEN GoTo(p, "asserted")
       ELSE IF ~ FilesOf(p).doesNotWork THEN GoTo(p, "got")
       ELSE IF process[p].platform = "native"
       THEN process' = [process EXCEPT ![p] = [pc |-> "acquire", platform |-> "wasm"]]
       ELSE GoTo(p, "asserted")
    /\ UNCHANGED <<lock, folder, environment, history>>

-----------------------------------------------------------------------------
(* Around the processes.                                                   *)

\* More than the lifespan of a lock passes.
LockGetsOld ==
    /\ lock # NoLock /\ ~ lock.old
    /\ lock' = [lock EXCEPT !.old = TRUE]
    /\ overstayed' = (overstayed \/ lock.writer \in AtWork)
    /\ UNCHANGED <<process, folder, environment, lost, unchecked>>

Stop(p) ==
    /\ process[p].pc \notin Ended /\ stops < MaxStops
    /\ stops' = stops + 1
    /\ unchecked' = (unchecked \/ process[p].pc \in Placed)
    /\ GoTo(p, "stopped")
    /\ UNCHANGED <<lock, folder, listed, nativeWorks, starts, failures, overstayed, lost>>

\* The version is released.
ListVersion ==
    /\ ~ listed /\ listed' = TRUE
    /\ UNCHANGED <<lock, process, folder, nativeWorks, starts, failures, stops, history>>

\* "hardhat clean --global", when no process is at it or still runs its compiler.
CleanGlobal ==
    /\ \A p \in Processes : process[p].pc \in Ended
    /\ folder # EmptyFolder
    /\ folder' = EmptyFolder
    /\ process' = [p \in Processes |-> [pc |-> "idle", platform |-> "native"]]
    /\ unchecked' = FALSE
    /\ UNCHANGED <<lock, environment, overstayed, lost>>

Step(p) ==
    \/ TryToAcquireMutex(p) \/ StatMutexFile(p) \/ DeleteMutexFile(p) \/ ReleaseMutex(p)
    \/ Check(p) \/ DownloadCompilerList(p) \/ DownloadCompiler(p) \/ RequestFails(p) \/ MoveCompiler(p)
    \/ VerifyCompilerDownload(p) \/ MakeExecutable(p) \/ CheckNativeSolc(p) \/ GetCompiler(p)

DownloadNext ==
    \/ \E p \in Processes : Start(p) \/ Step(p) \/ Stop(p)
    \/ LockGetsOld \/ ListVersion \/ CleanGlobal

\* Timers and answers come, and time passes.
DownloadFairness == (\A p \in Processes : WF_downloadVars(Step(p))) /\ WF_downloadVars(LockGetsOld)

DownloadSpec == DownloadInit /\ [][DownloadNext]_downloadVars /\ DownloadFairness

-----------------------------------------------------------------------------
(* Properties.                                                             *)

DownloadTypeOK ==
    /\ lock \in [writer : Processes, old : BOOLEAN] \union {NoLock}
    /\ process \in [Processes -> [pc : Waiting \union Working \union Ended \union {"get"}, platform : {"native", "wasm"}]]
    /\ folder \in [{"native", "wasm"} ->
            [list : {None, "incomplete", "complete"}, tmp : {None, "good", "bad"}, compiler : {None, "good", "bad"},
             executable : BOOLEAN, doesNotWork : BOOLEAN]]
    /\ {listed, nativeWorks, overstayed, lost, unchecked} \subseteq BOOLEAN
    /\ {starts, failures, stops} \subseteq Nat

\* Two processes are at work at once only after a lock was taken from one of them, which
\* happens when one worked for longer than the lifespan of a lock (as the mutex warns) or
\* when one stopped and two others found its old file at the same time.
LockExcludes ==
    /\ ~ lost => Cardinality(AtWork) <= 1
    /\ lost => overstayed \/ stops > 0

\* Who gets a compiler gets one that has the hash of the list and that runs, whatever
\* failed or stopped before; but for locks that were lost, and for compilers that were in
\* place when the process stopped that was to check them.
CompilersWork ==
    ~ lost /\ ~ unchecked =>
        \A p \in Processes :
            /\ ~ At(p, "asserted")
            /\ At(p, "got") => Runs(process[p].platform)

\* One process downloads at a time, and what it leaves can be used by all.
DownloadsAreSound == LockExcludes /\ CompilersWork

\* Every process that asks for a compiler gets it or an error, also when another one
\* stopped and left its lock behind.
DownloadsEnd ==
    \A p \in Processes : At(p, "acquire") ~> process[p].pc \in Ended

=============================================================================
