---------------------------- MODULE PartitionBuild ----------------------------
(***************************************************************************)
(* The conversion stage of a build: pipeline._process_partitions submits   *)
(* one _build_partition_artifact call per selected image to a thread pool, *)
(* collects the futures in submission order, and leaves through the        *)
(* executor's __exit__, progress.close() and _Workspace.__exit__.  The     *)
(* worker threads share the files of the workspace, the brotli gate (a     *)
(* BoundedSemaphore) and the progress display.                             *)
(*                                                                         *)
(* Any step of a worker may fail (a command with a nonzero exit code, a    *)
(* full disk), and the main thread may be interrupted while it waits.      *)
(*                                                                         *)
(* File contents are abstracted to what later steps tell apart: an image   *)
(* is "raw", "sparse" (encoded once, as img2sdat needs it) or "nested"     *)
(* (encoded again, which a repeated partition can cause), a data file is   *)
(* "good" when it was made from the sparse image of the raw one and "bad"  *)
(* otherwise, and any file is "torn" while it is being written.            *)
(***************************************************************************)
EXTENDS Integers, Sequences, FiniteSets

CONSTANTS
    Partitions,       \* partition names: the stems of the extracted images
    Selected,         \* the images in the order they are submitted
    Workers,          \* threads of the pool (_resolved_converter_workers)
    BrotliSlots,      \* permits of the brotli gate (_resolved_brotli_workers)
    MaxInterrupts     \* bound: how often the user presses ^C

ASSUME SelectedAssumption == Selected \in Seq(Partitions)
ASSUME WorkersAssumption == Workers \in Nat \ {0}
ASSUME SlotsAssumption == BrotliSlots \in Nat \ {0}
ASSUME InterruptsAssumption == MaxInterrupts \in Nat

VARIABLES
    options,      \* the command line: keepTemp, ownTemp (no --work-dir), compress
    main,         \* where the main thread is
    submitted,    \* how many futures exist: 1..submitted
    started,      \* how many of them left the executor's FIFO queue
    collected,    \* how many results the main thread has read
    outcome,      \* how the build ends, "running" until it is known
    culprit,      \* the future whose exception is raised, 0 when there is none
    cuts,         \* the places where the main thread was interrupted
    pc,           \* [Tasks -> where the worker running the task is]
    imageSize,    \* [Tasks -> content the size of which was recorded]
    source,       \* [Tasks -> content the running conversion reads]
    files,        \* [Partitions -> the files of the partition]
    workspace,    \* whether the workspace directory exists
    permits,      \* free permits of the brotli gate
    shown,        \* [Partitions -> the stage the display shows]
    display       \* whether the live display is running

mainVars == <<main, submitted, collected, outcome, culprit, cuts>>
taskVars == <<started, pc, imageSize, source>>
fileVars == <<files, workspace>>
showVars == <<shown, display>>
vars == <<options, mainVars, taskVars, fileVars, permits, showVars>>

Tasks == 1..Len(Selected)

Content == {"missing", "torn", "raw", "sparse", "nested", "good", "bad"}
Kinds == {"image", "tmp", "dat", "br"}
Stages == {"none", "sparse", "dat", "waiting-brotli", "brotli", "done"}
Where == {"queued", "stat", "sparse", "sparsed", "dat", "converted", "waiting",
          "brotli", "finish", "failing", "done", "failed"}
Places == {"submit", "collect", "join", "close", "package", "cleanup", "exit"}

Ended(t) == pc[t] \in {"done", "failed"}
Active == {t \in Tasks : ~Ended(t) /\ pc[t] # "queued"}
Holders == {t \in Tasks : pc[t] = "brotli"}

(* No partition is selected twice: _select_partitions ensures this except  *)
(* for -p, which keeps repeated names.                                     *)
Distinct == \A t, u \in Tasks : Selected[t] = Selected[u] => t = u

TypeOK ==
    /\ options \in [keepTemp : BOOLEAN, ownTemp : BOOLEAN, compress : BOOLEAN]
    /\ main \in Places
    /\ submitted \in 0..Len(Selected)
    /\ started \in 0..Len(Selected)
    /\ collected \in 0..Len(Selected)
    /\ outcome \in {"running", "built", "failed", "rejected", "interrupted"}
    /\ culprit \in 0..Len(Selected)
    /\ cuts \subseteq Places
    /\ pc \in [Tasks -> Where]
    /\ imageSize \in [Tasks -> Content]
    /\ source \in [Tasks -> Content]
    /\ files \in [Partitions -> [Kinds -> Content]]
    /\ workspace \in BOOLEAN
    /\ permits \in 0..BrotliSlots
    /\ shown \in [Partitions -> [stage : Stages, failed : BOOLEAN]]
    /\ display \in BOOLEAN

Init ==
    /\ options \in [keepTemp : BOOLEAN, ownTemp : BOOLEAN, compress : BOOLEAN]
    /\ main = "submit"
    /\ submitted = 0
    /\ started = 0
    /\ collected = 0
    /\ outcome = "running"
    /\ culprit = 0
    /\ cuts = {}
    /\ pc = [t \in Tasks |-> "queued"]
    /\ imageSize = [t \in Tasks |-> "missing"]
    /\ source = [t \in Tasks |-> "missing"]
    /\ files = [p \in Partitions |->
                  [k \in Kinds |-> IF k = "image" THEN "raw" ELSE "missing"]]
    /\ workspace = TRUE
    /\ permits = BrotliSlots
    /\ shown = [p \in Partitions |-> [stage |-> "none", failed |-> FALSE]]
    /\ display = FALSE

-------------------------------------------------------------------------------
(* Files and display.                                                      *)

File(t) == files[Selected[t]]

Write(t, kind, content) == files' = [files EXCEPT ![Selected[t]][kind] = content]

(* One file is written and the one it came from is gone. *)
Turn(t, from, into, content) ==
    files' = [files EXCEPT ![Selected[t]] =
                [@ EXCEPT ![into] = content, ![from] = "missing"]]

(* Another call of _build_partition_artifact for the same image is at the  *)
(* same place, and so writes the same file.                                *)
Shares(t) == \E u \in Tasks \ {t} : Selected[u] = Selected[t] /\ pc[u] = pc[t]

(* What a finished img2simg leaves: the encoding of what it read. *)
Encoded(t) ==
    CASE Shares(t) -> "torn"
      [] source[t] = "raw" -> "sparse"
      [] source[t] = "sparse" -> "nested"
      [] OTHER -> source[t]

(* What a finished img2sdat leaves in new.dat. *)
Extracted(t) == IF source[t] = "sparse" /\ ~Shares(t) THEN "good" ELSE "bad"

(* What a finished compression leaves in new.dat.br. *)
Compressed(t) ==
    IF File(t)["dat"] = "good" /\ (options.compress => ~Shares(t)) THEN "good" ELSE "bad"

(* LiveProgress.update: a stage is shown, and starts the live display.     *)
Show(t, stage) ==
    /\ shown' = [shown EXCEPT ![Selected[t]] = [stage |-> stage, failed |-> FALSE]]
    /\ display' = TRUE

Goto(t, place) == pc' = [pc EXCEPT ![t] = place]

-------------------------------------------------------------------------------
(* The worker threads: one call of _build_partition_artifact per task.     *)

SizeSeen_AfterConversion(t) == "sparse"

(* The size recorded for the artifact is that of the file found at the     *)
(* start, before the conversion replaces it.                               *)
SizeSeen(t) == File(t)["image"]

(* A free thread takes the oldest queued call and reads the size of its    *)
(* image.  A missing image raises outside the try block, past              *)
(* progress.fail.                                                          *)
Start(t) ==
    /\ pc[t] = "queued"
    /\ t = started + 1
    /\ t <= submitted
    /\ Cardinality(Active) < Workers
    /\ started' = t
    /\ imageSize' = [imageSize EXCEPT ![t] = SizeSeen(t)]
    /\ Goto(t, IF File(t)["image"] = "missing" THEN "failed" ELSE "stat")
    /\ UNCHANGED <<options, mainVars, source, fileVars, permits, showVars>>

(* The image is opened and <image>.img.sparse is created, or truncated. *)
BeginSparse(t) ==
    /\ pc[t] = "stat"
    /\ Show(t, "sparse")
    /\ IF File(t)["image"] = "missing"
       THEN /\ Goto(t, "failing")
            /\ UNCHANGED <<source, files>>
       ELSE /\ Goto(t, "sparse")
            /\ source' = [source EXCEPT ![t] = File(t)["image"]]
            /\ Write(t, "tmp", "torn")
    /\ UNCHANGED <<options, mainVars, started, imageSize, workspace, permits>>

(* The encoded file replaces the image; when the temporary file is gone    *)
(* (another call moved it, or the workspace was deleted) this raises.      *)
EndSparse(t) ==
    /\ pc[t] = "sparse"
    /\ \/ /\ File(t)["tmp"] # "missing"
          /\ Turn(t, "tmp", "image", Encoded(t))
          /\ Goto(t, "sparsed")
       \/ /\ Goto(t, "failing")
          /\ UNCHANGED files
    /\ UNCHANGED <<options, mainVars, started, imageSize, source, workspace,
                   permits, showVars>>

(* img2sdat.py starts: it reads the image and truncates new.dat. *)
BeginDat(t) ==
    /\ pc[t] = "sparsed"
    /\ Show(t, "dat")
    /\ IF File(t)["image"] = "missing"
       THEN /\ Goto(t, "failing")
            /\ UNCHANGED <<source, files>>
       ELSE /\ Goto(t, "dat")
            /\ source' = [source EXCEPT ![t] = File(t)["image"]]
            /\ Write(t, "dat", "torn")
    /\ UNCHANGED <<options, mainVars, started, imageSize, workspace, permits>>

(* img2sdat.py ends and convert_sparse_to_dat validates its outputs. *)
EndDat(t) ==
    /\ pc[t] = "dat"
    /\ \/ /\ File(t)["dat"] # "missing"
          /\ Write(t, "dat", Extracted(t))
          /\ Goto(t, "converted")
       \/ /\ Goto(t, "failing")
          /\ UNCHANGED files
    /\ UNCHANGED <<options, mainVars, started, imageSize, source, workspace,
                   permits, showVars>>

DropsImage_Never == FALSE

DropsImage == ~options.keepTemp

(* The image is deleted, unless --keep-temp, before the task waits; a      *)
(* deletion that does not succeed raises.                                  *)
DropImage(t) ==
    /\ pc[t] = "converted"
    /\ \/ /\ Show(t, "waiting-brotli")
          /\ IF DropsImage THEN Write(t, "image", "missing") ELSE UNCHANGED files
          /\ Goto(t, "waiting")
       \/ /\ DropsImage
          /\ Goto(t, "failing")
          /\ UNCHANGED <<files, showVars>>
    /\ UNCHANGED <<options, mainVars, started, imageSize, source, workspace, permits>>

Release_Twice == permits' = permits + 2

Release_Never == UNCHANGED permits

(* The gate is left, normally or by an exception: the with block releases  *)
(* its permit.                                                             *)
Release == permits' = permits + 1

(* The gate is entered and the compression of new.dat starts.  A new.dat   *)
(* that is missing by now raises inside the with block, which releases the *)
(* permit again.                                                           *)
EnterGate(t) ==
    /\ pc[t] = "waiting"
    /\ permits > 0
    /\ IF File(t)["dat"] = "missing"
       THEN /\ Goto(t, "failing")
            /\ UNCHANGED <<files, permits, showVars>>
       ELSE /\ Goto(t, "brotli")
            /\ permits' = permits - 1
            /\ Show(t, "brotli")
            /\ IF options.compress THEN Write(t, "br", "torn") ELSE UNCHANGED files
    /\ UNCHANGED <<options, mainVars, started, imageSize, source, workspace>>

(* compress_brotli ends: new.dat became new.dat.br (renamed as it is when  *)
(* compression is off), or an exception leaves the block.                  *)
EndBrotli(t) ==
    /\ pc[t] = "brotli"
    /\ Release
    /\ \/ /\ File(t)["dat"] # "missing"
          /\ options.compress => File(t)["br"] # "missing"
          /\ Turn(t, "dat", "br", Compressed(t))
          /\ Goto(t, "finish")
       \/ /\ Goto(t, "failing")
          /\ UNCHANGED files
    /\ UNCHANGED <<options, mainVars, started, imageSize, source, workspace, showVars>>

(* patch.dat is created when it is not there and the artifact is returned. *)
Finish(t) ==
    /\ pc[t] = "finish"
    /\ \/ /\ workspace
          /\ Show(t, "done")
          /\ Goto(t, "done")
       \/ /\ Goto(t, "failing")
          /\ UNCHANGED showVars
    /\ UNCHANGED <<options, mainVars, started, imageSize, source, fileVars, permits>>

Fail_Retries(t) ==
    /\ pc[t] = "failing"
    /\ Show(t, "waiting-brotli")
    /\ Goto(t, "waiting")
    /\ UNCHANGED <<options, mainVars, started, imageSize, source, fileVars, permits>>

Fail_Silent(t) ==
    /\ pc[t] = "failing"
    /\ Goto(t, "failed")
    /\ UNCHANGED <<options, mainVars, started, imageSize, source, fileVars, permits, showVars>>

(* The except clause: the failure is shown and the exception reaches the   *)
(* future.                                                                 *)
Fail(t) ==
    /\ pc[t] = "failing"
    /\ shown' = [shown EXCEPT ![Selected[t]].failed = TRUE]
    /\ display' = TRUE
    /\ Goto(t, "failed")
    /\ UNCHANGED <<options, mainVars, started, imageSize, source, fileVars, permits>>

TaskStep(t) ==
    \/ Start(t) \/ BeginSparse(t) \/ EndSparse(t) \/ BeginDat(t) \/ EndDat(t)
    \/ DropImage(t) \/ EnterGate(t) \/ EndBrotli(t) \/ Finish(t) \/ Fail(t)

-------------------------------------------------------------------------------
(* The main thread.                                                        *)

Submit ==
    /\ main = "submit"
    /\ IF submitted < Len(Selected)
       THEN submitted' = submitted + 1 /\ main' = main
       ELSE submitted' = submitted /\ main' = "collect"
    /\ UNCHANGED <<options, collected, outcome, culprit, cuts, taskVars, fileVars,
                   permits, showVars>>

Awaited_AsCompleted(t) == Ended(t)

(* The future whose result is read next: the loop goes over the futures in *)
(* the order they were submitted, not in the order they end.               *)
Awaited(t) == t = collected + 1

Collect(t) ==
    /\ main = "collect"
    /\ Awaited(t)
    /\ pc[t] = "done"
    /\ collected' = collected + 1
    /\ UNCHANGED <<options, main, submitted, outcome, culprit, cuts, taskVars,
                   fileVars, permits, showVars>>

(* future.result() raises what the worker raised, out of the with block. *)
CollectError(t) ==
    /\ main = "collect"
    /\ Awaited(t)
    /\ pc[t] = "failed"
    /\ main' = "join"
    /\ outcome' = "failed"
    /\ culprit' = t
    /\ UNCHANGED <<options, submitted, collected, cuts, taskVars, fileVars, permits,
                   showVars>>

CollectedAll ==
    /\ main = "collect"
    /\ collected = Len(Selected)
    /\ main' = "join"
    /\ UNCHANGED <<options, submitted, collected, outcome, culprit, cuts, taskVars,
                   fileVars, permits, showVars>>

PoolIdle_NoWait == TRUE

(* Executor.__exit__ is shutdown(wait=True): nothing is cancelled, and the *)
(* threads run the queue down before it returns.                           *)
PoolIdle == \A t \in 1..submitted : Ended(t)

Join ==
    /\ main = "join"
    /\ PoolIdle
    /\ main' = "close"
    /\ UNCHANGED <<options, submitted, collected, outcome, culprit, cuts, taskVars,
                   fileVars, permits, showVars>>

StopDisplay_OnlyWithoutError ==
    display' = IF outcome = "running" THEN FALSE ELSE display

StopDisplay == display' = FALSE

(* The finally clause stops the display; without an exception the build    *)
(* goes on to the later stages.                                            *)
Close ==
    /\ main = "close"
    /\ StopDisplay
    /\ main' = IF outcome = "running" THEN "package" ELSE "cleanup"
    /\ UNCHANGED <<options, submitted, collected, outcome, culprit, cuts, taskVars,
                   fileVars, permits, shown>>

(* The rest of build, in the main thread alone: staging, scripts, ZIP.     *)
Package ==
    /\ main = "package"
    /\ outcome' \in {"built", "rejected"}
    /\ main' = "cleanup"
    /\ UNCHANGED <<options, submitted, collected, culprit, cuts, taskVars, fileVars,
                   permits, showVars>>

(* shutil.rmtree(ignore_errors=True) and what it leaves of the files when  *)
(* something goes on writing, or when it is interrupted itself.            *)
RemoveFiles(survivors) ==
    /\ files' = [p \in Partitions |->
                   IF p \in survivors THEN files[p] ELSE [k \in Kinds |-> "missing"]]

Removes_WorkDirToo == ~options.keepTemp

(* _Workspace.__exit__: only a directory this run created is removed.      *)
Removes == options.ownTemp /\ ~options.keepTemp

CleanUp ==
    /\ main = "cleanup"
    /\ IF Removes
       THEN \E survivors \in (IF Active = {} THEN {{}} ELSE SUBSET Partitions) :
              /\ RemoveFiles(survivors)
              /\ workspace' = (survivors # {})
       ELSE UNCHANGED fileVars
    /\ main' = "exit"
    /\ UNCHANGED <<options, submitted, collected, outcome, culprit, cuts, taskVars,
                   permits, showVars>>

(* ^C raises KeyboardInterrupt at the place the main thread is: in the     *)
(* with block it goes through Executor.__exit__, in Executor.__exit__      *)
(* itself it leaves the workers behind, in rmtree it leaves files behind.  *)
Interrupt ==
    /\ main \in {"submit", "collect", "join", "package", "cleanup"}
    /\ Cardinality(cuts) < MaxInterrupts
    /\ cuts' = cuts \union {main}
    /\ outcome' = "interrupted"
    /\ culprit' = 0
    /\ main' = CASE main \in {"submit", "collect"} -> "join"
                 [] main = "join" -> "close"
                 [] main = "package" -> "cleanup"
                 [] main = "cleanup" -> "exit"
    /\ IF main = "cleanup" /\ Removes
       THEN \E survivors \in SUBSET Partitions : RemoveFiles(survivors)
       ELSE UNCHANGED files
    /\ UNCHANGED <<options, submitted, collected, taskVars, workspace, permits, showVars>>

MainStep ==
    \/ Submit \/ CollectedAll \/ Join \/ Close \/ Package \/ CleanUp
    \/ \E t \in Tasks : Collect(t) \/ CollectError(t)

(* The process ends when the main thread and all workers did: the          *)
(* interpreter joins the threads of the pool at exit.                      *)
Finished == main = "exit" /\ PoolIdle

Terminated == Finished /\ UNCHANGED vars

Next == MainStep \/ Interrupt \/ (\E t \in Tasks : TaskStep(t)) \/ Terminated

(* The scheduler runs every thread, and the commands the workers start end *)
(* (none of them waits for input); an interrupt need never come.           *)
Fairness ==
    /\ WF_vars(MainStep)
    /\ \A t \in Tasks : WF_vars(TaskStep(t))

Spec == Init /\ [][Next]_vars

FairSpec == Spec /\ Fairness

-------------------------------------------------------------------------------
(* What the stage guarantees.                                              *)

(* Every permit of the brotli gate is either free or held by exactly one   *)
(* compressing worker, whatever fails inside the with block: the gate      *)
(* neither leaks permits nor lets one worker too many in.                  *)
GateAccounting == permits + Cardinality(Holders) = BrotliSlots

(* The error the build raises is that of the first partition, in           *)
(* submission order, that failed, also when a later one failed earlier;    *)
(* everything submitted before it was built.                               *)
FirstFailureReported ==
    outcome = "failed" =>
        /\ culprit \in Tasks
        /\ pc[culprit] = "failed"
        /\ \A t \in 1..(culprit - 1) : pc[t] = "done"

(* When the main thread goes past the pool (to stage, pack, or delete the  *)
(* workspace) no worker is running and none will start, so nothing races   *)
(* the deletion; the one way out with workers behind is a ^C while         *)
(* Executor.__exit__ waits.                                                *)
QuietWorkspace ==
    (main \in {"close", "package", "cleanup", "exit"} /\ "join" \notin cuts) =>
        Active = {} /\ started = submitted

(* The files the later stages read are right: each selected partition has  *)
(* a complete new.dat.br made from the raw image, its recorded size is the *)
(* size of the raw image (not of the sparse file that replaced it), and no *)
(* intermediate file takes up space.                                       *)
PackageInputs ==
    (main = "package" /\ Distinct) =>
        \A t \in Tasks :
            /\ imageSize[t] = "raw"
            /\ File(t)["br"] = "good"
            /\ File(t)["dat"] = "missing" /\ File(t)["tmp"] = "missing"
            /\ File(t)["image"] = (IF options.keepTemp THEN "sparse" ELSE "missing")

(* A directory given with --work-dir, or any with --keep-temp, survives    *)
(* with everything built in it; a temporary one is gone at the end unless  *)
(* the user interrupted the wait for the workers or the deletion.          *)
WorkspaceOutcome ==
    /\ ~(options.ownTemp /\ ~options.keepTemp) =>
           /\ workspace
           /\ \A t \in Tasks : pc[t] = "done" => File(t)["br"] # "missing"
    /\ (main = "exit" /\ options.ownTemp /\ ~options.keepTemp
            /\ cuts \intersect {"join", "cleanup"} = {}) =>
           /\ ~workspace
           /\ \A p \in Partitions, k \in Kinds : files[p][k] = "missing"

AllEnded == main = "exit" /\ Active = {} /\ started = submitted

(* When everything has ended the display tells each partition's fate: done *)
(* exactly for the built ones, failed for those that failed after they     *)
(* were first shown.                                                       *)
DisplayTruthful ==
    (AllEnded /\ Distinct) =>
        \A t \in Tasks :
            LET s == shown[Selected[t]] IN
            /\ pc[t] = "done" <=> (s.stage = "done" /\ ~s.failed)
            /\ pc[t] = "failed" => (s.failed \/ s.stage = "none")

(* The live display is stopped at the end, also after an error: no worker  *)
(* starts it again behind progress.close().                                *)
DisplayStopped == (AllEnded /\ "join" \notin cuts) => ~display

(* The build always comes to an end, with every submitted partition        *)
(* settled: no number of workers and slots, no failure and no interrupt    *)
(* leaves a worker waiting at the gate or the main thread waiting for one. *)
BuildEnds == <>[]AllEnded

(* The stage implements the abstract job. *)
Verdict(t) == CASE pc[t] = "done" -> "built"
                [] pc[t] = "failed" -> "failed"
                [] OTHER -> "pending"

Job == INSTANCE BuildJob WITH
    Count <- Len(Selected),
    verdict <- [t \in Tasks |-> Verdict(t)],
    result <- outcome

(* Threads, files and gate keep the promise of BuildJob: settled once,     *)
(* accepted only when all are built, the first failure raised, and an      *)
(* answer in the end.                                                      *)
ImplementsBuildJob == Job!AbstractSpec
===============================================================================
