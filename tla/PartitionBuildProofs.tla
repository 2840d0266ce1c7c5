------------------------- MODULE PartitionBuildProofs -------------------------
(***************************************************************************)
(* Proofs about PartitionBuild, for every selection, any number of workers *)
(* and slots, and any number of interrupts.                                *)
(*                                                                         *)
(* TypeOK is not inductive alone: that a released permit still is a permit *)
(* of the gate (permits <= BrotliSlots) needs the accounting of permits    *)
(* and holders, so the two are proved together.                            *)
(***************************************************************************)
EXTENDS PartitionBuild, FiniteSetTheorems, SequenceTheorems, TLAPS

(* Every task stands for a partition. *)
LEMMA SelectedType ==
    /\ Len(Selected) \in Nat
    /\ \A t \in Tasks : Selected[t] \in Partitions
  BY SelectedAssumption, LenProperties DEF Tasks

(* The tasks in a state of the program are finitely many. *)
LEMMA FiniteTasks ==
  ASSUME NEW S, S \subseteq Tasks
  PROVE  IsFiniteSet(S) /\ Cardinality(S) \in Nat
  <1>1. IsFiniteSet(Tasks)
    BY SelectedType, FS_Interval DEF Tasks
  <1>2. IsFiniteSet(S)
    BY <1>1, FS_Subset
  <1> QED BY <1>2, FS_CardinalityType

-------------------------------------------------------------------------------
(* Typing and the accounting of the gate.                                  *)

(* The accounting after a step that moves no task into or out of the gate. *)
LEMMA SameHolders ==
  ASSUME TypeOK, GateAccounting, permits' = permits,
         NEW t \in Tasks, NEW place, place # "brotli", pc[t] # "brotli",
         Goto(t, place)
  PROVE  GateAccounting'
  <1>1. Holders' = Holders
    BY DEF Holders, Goto, TypeOK
  <1> QED BY <1>1 DEF GateAccounting

LEMMA GateEntered ==
  ASSUME TypeOK, GateAccounting, permits' = permits - 1,
         NEW t \in Tasks, pc[t] = "waiting", Goto(t, "brotli")
  PROVE  GateAccounting'
  <1>1. Holders' = Holders \union {t} /\ t \notin Holders
    BY DEF Holders, Goto, TypeOK
  <1>2. IsFiniteSet(Holders) /\ Cardinality(Holders) \in Nat
    BY FiniteTasks DEF Holders
  <1>3. Cardinality(Holders') = Cardinality(Holders) + 1
    BY <1>1, <1>2, FS_AddElement
  <1> QED BY <1>2, <1>3, SlotsAssumption DEF GateAccounting, TypeOK

(* Leaving the gate: there was a holder, so the freed permit fits. *)
LEMMA GateLeft ==
  ASSUME TypeOK, GateAccounting, permits' = permits + 1,
         NEW t \in Tasks, pc[t] = "brotli", NEW place, place # "brotli",
         Goto(t, place)
  PROVE  GateAccounting' /\ permits' \in 0..BrotliSlots
  <1>1. Holders' = Holders \ {t} /\ t \in Holders
    BY DEF Holders, Goto, TypeOK
  <1>2. IsFiniteSet(Holders) /\ Cardinality(Holders) \in Nat
    BY FiniteTasks DEF Holders
  <1>3. Cardinality(Holders') = Cardinality(Holders) - 1
    BY <1>1, <1>2, FS_RemoveElement
  <1>4. IsFiniteSet(Holders') /\ Cardinality(Holders') \in Nat
    BY <1>1, <1>2, FiniteTasks DEF Holders
  <1> QED BY <1>2, <1>3, <1>4, SlotsAssumption DEF GateAccounting, TypeOK

LEMMA InitTyped == Init => TypeOK /\ GateAccounting
  <1> SUFFICES ASSUME Init PROVE TypeOK /\ GateAccounting
    OBVIOUS
  <1>1. TypeOK
    <2>1. files \in [Partitions -> [Kinds -> Content]]
      BY DEF Init, Content
    <2>2. shown \in [Partitions -> [stage : Stages, failed : BOOLEAN]]
      BY DEF Init, Stages
    <2>3. imageSize \in [Tasks -> Content] /\ source \in [Tasks -> Content]
      BY DEF Init, Content
    <2>4. /\ submitted \in 0..Len(Selected) /\ started \in 0..Len(Selected)
          /\ collected \in 0..Len(Selected) /\ culprit \in 0..Len(Selected)
          /\ permits \in 0..BrotliSlots
      BY SelectedType, SlotsAssumption DEF Init
    <2> QED
      BY <2>1, <2>2, <2>3, <2>4 DEF Init, TypeOK, Places, Where
  <1>2. Holders = {}
    BY DEF Init, Holders
  <1>3. Cardinality(Holders) = 0
    BY <1>2, FS_EmptySet
  <1>4. GateAccounting
    BY <1>3, SlotsAssumption DEF GateAccounting, Init
  <1> QED BY <1>1, <1>4

(* The helpers of the actions keep the types of what they assign. *)
LEMMA HelpersTyped ==
  ASSUME TypeOK, NEW t \in Tasks
  PROVE  /\ \A place \in Where : Goto(t, place) => pc' \in [Tasks -> Where]
         /\ \A stage \in Stages : Show(t, stage) =>
              /\ shown' \in [Partitions -> [stage : Stages, failed : BOOLEAN]]
              /\ display' \in BOOLEAN
         /\ \A k \in Kinds, c \in Content :
              Write(t, k, c) => files' \in [Partitions -> [Kinds -> Content]]
         /\ \A j, k \in Kinds, c \in Content :
              Turn(t, j, k, c) => files' \in [Partitions -> [Kinds -> Content]]
         /\ \A k \in Kinds : File(t)[k] \in Content
         /\ Encoded(t) \in Content /\ Extracted(t) \in Content
         /\ Compressed(t) \in Content
  <1>1. \A place \in Where : Goto(t, place) => pc' \in [Tasks -> Where]
    BY DEF TypeOK, Goto
  <1>2. Selected[t] \in Partitions
    BY SelectedType
  <1>3. \A stage \in Stages : Show(t, stage) =>
              /\ shown' \in [Partitions -> [stage : Stages, failed : BOOLEAN]]
              /\ display' \in BOOLEAN
    BY <1>2 DEF TypeOK, Show
  <1>4. \A k \in Kinds, c \in Content :
              Write(t, k, c) => files' \in [Partitions -> [Kinds -> Content]]
    BY <1>2 DEF TypeOK, Write
  <1>5. \A k \in Kinds : File(t)[k] \in Content
    BY <1>2 DEF TypeOK, File
  <1>6. Encoded(t) \in Content
    BY DEF TypeOK, Encoded, Content
  <1>7. Extracted(t) \in Content /\ Compressed(t) \in Content
    BY DEF Extracted, Compressed, Content
  <1>8. \A j, k \in Kinds, c \in Content :
              Turn(t, j, k, c) => files' \in [Partitions -> [Kinds -> Content]]
    <2> SUFFICES ASSUME NEW j \in Kinds, NEW k \in Kinds, NEW c \in Content,
                        Turn(t, j, k, c)
                 PROVE  files' \in [Partitions -> [Kinds -> Content]]
      OBVIOUS
    <2> DEFINE new == [files[Selected[t]] EXCEPT ![k] = c, ![j] = "missing"]
    <2>1. new \in [Kinds -> Content]
      BY <1>2 DEF TypeOK, Content
    <2>2. files' = [files EXCEPT ![Selected[t]] = new]
      BY DEF Turn
    <2> HIDE DEF new
    <2> QED BY <1>2, <2>1, <2>2 DEF TypeOK
  <1> QED BY <1>1, <1>3, <1>4, <1>5, <1>6, <1>7, <1>8

LEMMA TaskStepTyped ==
  ASSUME TypeOK, GateAccounting, NEW t \in Tasks, TaskStep(t)
  PROVE  TypeOK' /\ GateAccounting'
  <1> USE DEF mainVars, fileVars, showVars
  <1>a. /\ Tasks = 1..Len(Selected) /\ Len(Selected) \in Nat
        /\ Selected[t] \in Partitions
    BY SelectedType DEF Tasks
  <1>b. {"stat", "sparse", "sparsed", "dat", "converted", "waiting", "brotli",
         "finish", "failing", "done", "failed"} \subseteq Where
    BY DEF Where
  <1>c. /\ {"sparse", "dat", "waiting-brotli", "brotli", "done"} \subseteq Stages
        /\ {"image", "tmp", "dat", "br"} \subseteq Kinds
        /\ {"missing", "torn"} \subseteq Content
    BY DEF Stages, Kinds, Content
  <1>d. /\ \A place \in Where : Goto(t, place) => pc' \in [Tasks -> Where]
        /\ \A stage \in Stages : Show(t, stage) =>
             /\ shown' \in [Partitions -> [stage : Stages, failed : BOOLEAN]]
             /\ display' \in BOOLEAN
        /\ \A k \in Kinds, c \in Content :
             Write(t, k, c) => files' \in [Partitions -> [Kinds -> Content]]
        /\ \A j, k \in Kinds, c \in Content :
             Turn(t, j, k, c) => files' \in [Partitions -> [Kinds -> Content]]
        /\ \A k \in Kinds : File(t)[k] \in Content
        /\ Encoded(t) \in Content /\ Extracted(t) \in Content
        /\ Compressed(t) \in Content
    BY HelpersTyped
  <1>1. CASE Start(t)
    <2>1. SizeSeen(t) \in Content
      BY <1>c, <1>d DEF SizeSeen
    <2>2. /\ pc' \in [Tasks -> Where] /\ started' \in 0..Len(Selected)
          /\ imageSize' \in [Tasks -> Content]
      BY <1>1, <1>a, <1>b, <1>d, <2>1 DEF Start, TypeOK
    <2>3. TypeOK'
      BY <1>1, <2>2 DEF Start, TypeOK
    <2> QED BY <1>1, <2>3, SameHolders DEF Start
  <1>2. CASE BeginSparse(t)
    <2>1. /\ pc' \in [Tasks -> Where]
          /\ source' \in [Tasks -> Content]
          /\ files' \in [Partitions -> [Kinds -> Content]]
      BY <1>2, <1>b, <1>c, <1>d DEF BeginSparse, TypeOK
    <2>2. /\ shown' \in [Partitions -> [stage : Stages, failed : BOOLEAN]]
          /\ display' \in BOOLEAN
      BY <1>2, <1>c, <1>d DEF BeginSparse
    <2>3. TypeOK'
      BY <1>2, <2>1, <2>2 DEF BeginSparse, TypeOK
    <2> QED BY <1>2, <2>3, SameHolders DEF BeginSparse
  <1>3. CASE EndSparse(t)
    <2>1. /\ pc' \in [Tasks -> Where]
          /\ files' \in [Partitions -> [Kinds -> Content]]
      BY <1>3, <1>b, <1>c, <1>d DEF EndSparse, TypeOK
    <2>2. TypeOK'
      BY <1>3, <2>1 DEF EndSparse, TypeOK
    <2> QED BY <1>3, <2>2, SameHolders DEF EndSparse
  <1>4. CASE BeginDat(t)
    <2>1. /\ pc' \in [Tasks -> Where]
          /\ source' \in [Tasks -> Content]
          /\ files' \in [Partitions -> [Kinds -> Content]]
      BY <1>4, <1>b, <1>c, <1>d DEF BeginDat, TypeOK
    <2>2. /\ shown' \in [Partitions -> [stage : Stages, failed : BOOLEAN]]
          /\ display' \in BOOLEAN
      BY <1>4, <1>c, <1>d DEF BeginDat
    <2>3. TypeOK'
      BY <1>4, <2>1, <2>2 DEF BeginDat, TypeOK
    <2> QED BY <1>4, <2>3, SameHolders DEF BeginDat
  <1>5. CASE EndDat(t)
    <2>1. /\ pc' \in [Tasks -> Where]
          /\ files' \in [Partitions -> [Kinds -> Content]]
      BY <1>5, <1>b, <1>c, <1>d DEF EndDat, TypeOK
    <2>2. TypeOK'
      BY <1>5, <2>1 DEF EndDat, TypeOK
    <2> QED BY <1>5, <2>2, SameHolders DEF EndDat
  <1>6. CASE DropImage(t)
    <2>1. /\ pc' \in [Tasks -> Where]
          /\ files' \in [Partitions -> [Kinds -> Content]]
          /\ shown' \in [Partitions -> [stage : Stages, failed : BOOLEAN]]
          /\ display' \in BOOLEAN
      BY <1>6, <1>b, <1>c, <1>d DEF DropImage, TypeOK
    <2>2. TypeOK'
      BY <1>6, <2>1 DEF DropImage, TypeOK
    <2> QED BY <1>6, <2>2, SameHolders DEF DropImage
  <1>7. CASE EnterGate(t)
    <2>1. /\ pc' \in [Tasks -> Where]
          /\ files' \in [Partitions -> [Kinds -> Content]]
          /\ shown' \in [Partitions -> [stage : Stages, failed : BOOLEAN]]
          /\ display' \in BOOLEAN
      BY <1>7, <1>b, <1>c, <1>d DEF EnterGate, TypeOK
    <2>2. permits' \in 0..BrotliSlots
      BY <1>7, SlotsAssumption DEF EnterGate, TypeOK
    <2>3. TypeOK'
      BY <1>7, <2>1, <2>2 DEF EnterGate, TypeOK
    <2> QED BY <1>7, <2>3, SameHolders, GateEntered DEF EnterGate
  <1>8. CASE EndBrotli(t)
    <2>1. /\ pc' \in [Tasks -> Where]
          /\ files' \in [Partitions -> [Kinds -> Content]]
      BY <1>8, <1>b, <1>c, <1>d DEF EndBrotli, TypeOK
    <2>2. GateAccounting' /\ permits' \in 0..BrotliSlots
      BY <1>8, GateLeft DEF EndBrotli, Release
    <2>3. TypeOK'
      BY <1>8, <2>1, <2>2 DEF EndBrotli, TypeOK
    <2> QED BY <2>2, <2>3
  <1>9. CASE Finish(t)
    <2>1. /\ pc' \in [Tasks -> Where]
          /\ shown' \in [Partitions -> [stage : Stages, failed : BOOLEAN]]
          /\ display' \in BOOLEAN
      BY <1>9, <1>b, <1>c, <1>d DEF Finish, TypeOK
    <2>2. TypeOK'
      BY <1>9, <2>1 DEF Finish, TypeOK
    <2> QED BY <1>9, <2>2, SameHolders DEF Finish
  <1>10. CASE Fail(t)
    <2>1. /\ pc' \in [Tasks -> Where]
          /\ shown' \in [Partitions -> [stage : Stages, failed : BOOLEAN]]
          /\ display' \in BOOLEAN
      BY <1>10, <1>a, <1>b, <1>d DEF Fail, TypeOK
    <2>2. TypeOK'
      BY <1>10, <2>1 DEF Fail, TypeOK
    <2> QED BY <1>10, <2>2, SameHolders DEF Fail
  <1> QED
    BY <1>1, <1>2, <1>3, <1>4, <1>5, <1>6, <1>7, <1>8, <1>9, <1>10 DEF TaskStep

(* The main thread touches neither the workers' places nor the gate. *)
LEMMA MainTyped ==
  ASSUME TypeOK, GateAccounting, MainStep \/ Interrupt
  PROVE  TypeOK' /\ GateAccounting'
  <1> USE DEF taskVars, fileVars, showVars
  <1>a. Tasks = 1..Len(Selected) /\ Len(Selected) \in Nat
    BY SelectedType DEF Tasks
  <1>b. ASSUME NEW S \in SUBSET Partitions, RemoveFiles(S)
        PROVE  files' \in [Partitions -> [Kinds -> Content]]
    BY <1>b DEF RemoveFiles, TypeOK, Content
  <1>1. CASE Submit
    BY <1>1, <1>a DEF Submit, TypeOK, Places, GateAccounting, Holders
  <1>2. ASSUME NEW t \in Tasks, Collect(t) PROVE TypeOK' /\ GateAccounting'
    BY <1>2, <1>a DEF Collect, Awaited, TypeOK, GateAccounting, Holders
  <1>3. ASSUME NEW t \in Tasks, CollectError(t) PROVE TypeOK' /\ GateAccounting'
    BY <1>3, <1>a DEF CollectError, TypeOK, Places, GateAccounting, Holders
  <1>4. CASE CollectedAll
    BY <1>4 DEF CollectedAll, TypeOK, Places, GateAccounting, Holders
  <1>5. CASE Join
    BY <1>5 DEF Join, TypeOK, Places, GateAccounting, Holders
  <1>6. CASE Close
    BY <1>6 DEF Close, StopDisplay, TypeOK, Places, GateAccounting, Holders
  <1>7. CASE Package
    BY <1>7 DEF Package, TypeOK, Places, GateAccounting, Holders
  <1>8. CASE CleanUp
    <2>1. files' \in [Partitions -> [Kinds -> Content]] /\ workspace' \in BOOLEAN
      BY <1>8, <1>b DEF CleanUp, TypeOK
    <2> QED BY <1>8, <2>1 DEF CleanUp, TypeOK, Places, GateAccounting, Holders
  <1>9. CASE Interrupt
    <2>1. files' \in [Partitions -> [Kinds -> Content]]
      BY <1>9, <1>b DEF Interrupt, TypeOK
    <2>2. main' \in Places /\ cuts' \subseteq Places /\ culprit' \in 0..Len(Selected)
      BY <1>9, <1>a DEF Interrupt, TypeOK, Places
    <2> QED BY <1>9, <2>1, <2>2 DEF Interrupt, TypeOK, GateAccounting, Holders
  <1> QED
    BY <1>1, <1>2, <1>3, <1>4, <1>5, <1>6, <1>7, <1>8, <1>9 DEF MainStep

LEMMA StutterTyped ==
  ASSUME TypeOK, GateAccounting, UNCHANGED vars
  PROVE  TypeOK' /\ GateAccounting'
  BY DEF vars, mainVars, taskVars, fileVars, showVars, TypeOK, GateAccounting, Holders

(* Every state of the conversion stage is well typed, and the brotli gate  *)
(* (backed by a BoundedSemaphore, which raises when it is released too     *)
(* often) always accounts for each of its permits.                         *)
THEOREM Typing == Spec => [](TypeOK /\ GateAccounting)
  <1>1. Init => TypeOK /\ GateAccounting
    BY InitTyped
  <1>2. TypeOK /\ GateAccounting /\ [Next]_vars => TypeOK' /\ GateAccounting'
    BY TaskStepTyped, MainTyped, StutterTyped DEF Next, Terminated
  <1> QED BY <1>1, <1>2, PTL DEF Spec

(* The brotli gate neither leaks permits nor lets too many workers in, for *)
(* every number of workers and slots and whatever fails.                   *)
THEOREM GateSafe == Spec => []GateAccounting
  BY Typing, PTL

-------------------------------------------------------------------------------
(* The order of the futures and the quiet end of the pool.                 *)

(* Futures leave the queue in the order they entered it, and what was      *)
(* collected is a prefix of built partitions; with these two,              *)
(* FirstFailureReported and QuietWorkspace are inductive.                  *)
Queue ==
    /\ started <= submitted
    /\ \A t \in Tasks : pc[t] = "queued" <=> t > started

Prefix == \A t \in 1..collected : pc[t] = "done"

Ordered == Queue /\ Prefix /\ FirstFailureReported /\ QuietWorkspace

(* A step of a worker changes the place of its own task only, and only     *)
(* when that task had not ended.                                           *)
LEMMA TaskMoves ==
  ASSUME TypeOK, NEW t \in Tasks, TaskStep(t)
  PROVE  /\ \E place \in Where \ {"queued"} : Goto(t, place)
         /\ ~Ended(t)
         /\ UNCHANGED mainVars
         /\ \/ pc[t] = "queued" /\ t = started + 1 /\ t <= submitted /\ started' = t
            \/ pc[t] # "queued" /\ started' = started
  BY DEF TaskStep, Start, BeginSparse, EndSparse, BeginDat, EndDat, DropImage,
         EnterGate, EndBrotli, Finish, Fail, Ended, Where

LEMMA TaskStepOrdered ==
  ASSUME TypeOK, Ordered, NEW t \in Tasks, TaskStep(t)
  PROVE  Ordered'
  <1>a. Tasks = 1..Len(Selected) /\ Len(Selected) \in Nat
    BY SelectedType DEF Tasks
  <1>b. PICK place \in Where \ {"queued"} : Goto(t, place)
    BY TaskMoves
  <1>c. /\ pc'[t] = place
        /\ \A u \in Tasks \ {t} : pc'[u] = pc[u]
    BY <1>b DEF Goto, TypeOK
  <1>d. ~Ended(t) /\ UNCHANGED mainVars
    BY TaskMoves
  <1>e. \/ pc[t] = "queued" /\ t = started + 1 /\ t <= submitted /\ started' = t
        \/ pc[t] # "queued" /\ started' = started
    BY TaskMoves
  <1>1. Queue'
    BY <1>a, <1>b, <1>c, <1>d, <1>e DEF Ordered, Queue, TypeOK, mainVars
  <1>2. Prefix'
    BY <1>a, <1>c, <1>d DEF Ordered, Prefix, Ended, TypeOK, mainVars
  <1>3. FirstFailureReported'
    BY <1>a, <1>c, <1>d DEF Ordered, FirstFailureReported, Ended, TypeOK, mainVars
  <1>4. QuietWorkspace'
    <2>1. t \in Active \/ (pc[t] = "queued" /\ started < submitted)
      BY <1>a, <1>d, <1>e DEF Active, TypeOK
    <2>2. ~(main \in {"close", "package", "cleanup", "exit"} /\ "join" \notin cuts)
      BY <2>1, <1>a DEF Ordered, QuietWorkspace, TypeOK
    <2> QED BY <2>2, <1>d DEF QuietWorkspace, mainVars
  <1> QED BY <1>1, <1>2, <1>3, <1>4 DEF Ordered

(* The pool is idle when nobody runs and nobody waits to be started. *)
LEMMA IdleIsQuiet ==
  ASSUME TypeOK, Queue, PoolIdle
  PROVE  Active = {} /\ started = submitted
  <1>a. Tasks = 1..Len(Selected) /\ Len(Selected) \in Nat
    BY SelectedType DEF Tasks
  <1>1. started = submitted
    <2> SUFFICES ASSUME started < submitted PROVE FALSE
      BY DEF Queue, TypeOK
    <2>1. started + 1 \in Tasks /\ started + 1 \in 1..submitted
      BY <1>a DEF TypeOK
    <2>2. pc[started + 1] = "queued" /\ Ended(started + 1)
      BY <2>1, <1>a DEF Queue, PoolIdle, TypeOK
    <2> QED BY <2>2 DEF Ended
  <1>2. \A t \in Tasks : Ended(t) \/ pc[t] = "queued"
    BY <1>1, <1>a DEF Queue, PoolIdle, TypeOK
  <1> QED BY <1>1, <1>2 DEF Active

LEMMA MainOrdered ==
  ASSUME TypeOK, Ordered, MainStep \/ Interrupt
  PROVE  Ordered'
  <1> USE DEF taskVars, Ordered
  <1>a. Tasks = 1..Len(Selected) /\ Len(Selected) \in Nat
    BY SelectedType DEF Tasks
  <1>b. UNCHANGED <<pc, started>> /\ Active' = Active
    BY DEF MainStep, Interrupt, Submit, Collect, CollectError, CollectedAll, Join,
           Close, Package, CleanUp, Active, Ended
  <1>1. CASE Submit
    BY <1>1, <1>a, <1>b
    DEF Submit, Queue, Prefix, FirstFailureReported, QuietWorkspace, TypeOK
  <1>2. ASSUME NEW t \in Tasks, Collect(t) PROVE Ordered'
    BY <1>2, <1>a, <1>b
    DEF Collect, Awaited, Queue, Prefix, FirstFailureReported, QuietWorkspace, TypeOK
  <1>3. ASSUME NEW t \in Tasks, CollectError(t) PROVE Ordered'
    <2>1. \A u \in 1..(t - 1) : pc[u] = "done"
      BY <1>3, <1>a DEF CollectError, Awaited, Prefix, TypeOK
    <2> QED
      BY <2>1, <1>3, <1>a, <1>b
      DEF CollectError, Queue, Prefix, FirstFailureReported, QuietWorkspace, TypeOK
  <1>4. CASE CollectedAll
    BY <1>4, <1>a, <1>b
    DEF CollectedAll, Queue, Prefix, FirstFailureReported, QuietWorkspace, TypeOK
  <1>5. CASE Join
    <2>1. Active = {} /\ started = submitted
      BY <1>5, IdleIsQuiet DEF Join
    <2> QED
      BY <2>1, <1>5, <1>a, <1>b
      DEF Join, Queue, Prefix, FirstFailureReported, QuietWorkspace, TypeOK
  <1>6. CASE Close
    BY <1>6, <1>a, <1>b
    DEF Close, Queue, Prefix, FirstFailureReported, QuietWorkspace, TypeOK
  <1>7. CASE Package
    BY <1>7, <1>a, <1>b
    DEF Package, Queue, Prefix, FirstFailureReported, QuietWorkspace, TypeOK
  <1>8. CASE CleanUp
    BY <1>8, <1>a, <1>b
    DEF CleanUp, Queue, Prefix, FirstFailureReported, QuietWorkspace, TypeOK
  <1>9. CASE Interrupt
    BY <1>9, <1>a, <1>b
    DEF Interrupt, Queue, Prefix, FirstFailureReported, QuietWorkspace, TypeOK
  <1> QED
    BY <1>1, <1>2, <1>3, <1>4, <1>5, <1>6, <1>7, <1>8, <1>9 DEF MainStep

LEMMA InitOrdered == Init => Ordered
  BY SelectedType
  DEF Init, Ordered, Queue, Prefix, FirstFailureReported, QuietWorkspace, Tasks

(* The strengthening of FirstFailureReported and QuietWorkspace holds in   *)
(* every state.                                                            *)
THEOREM OrderKept == Spec => []Ordered
  <1>1. TypeOK /\ Ordered /\ [Next]_vars => Ordered'
    <2> SUFFICES ASSUME TypeOK, Ordered, [Next]_vars PROVE Ordered'
      OBVIOUS
    <2>1. CASE UNCHANGED vars
      BY <2>1
      DEF vars, mainVars, taskVars, Ordered, Queue, Prefix, FirstFailureReported,
          QuietWorkspace, Active, Ended
    <2> QED BY <2>1, TaskStepOrdered, MainOrdered DEF Next, Terminated
  <1> QED BY <1>1, InitOrdered, Typing, PTL DEF Spec

(* The error the build raises is that of the first failed partition in     *)
(* submission order, in every interleaving of any number of workers.       *)
THEOREM FirstFailure == Spec => []FirstFailureReported
  <1>1. Ordered => FirstFailureReported
    BY DEF Ordered
  <1> QED BY <1>1, OrderKept, PTL

(* No worker runs while the main thread packs or deletes the workspace,    *)
(* unless the wait for the workers was itself interrupted.                 *)
THEOREM Quiet == Spec => []QuietWorkspace
  <1>1. Ordered => QuietWorkspace
    BY DEF Ordered
  <1> QED BY <1>1, OrderKept, PTL

-------------------------------------------------------------------------------
(* What the stage leaves behind: the files the later stages read, the      *)
(* workspace directory, the progress display, and the answer its caller    *)
(* gets, which is that of BuildJob.                                        *)
(*                                                                         *)
(* None of the properties is inductive.  Each place of a worker fixes the  *)
(* state of its partition's files and of its line of the display, as long  *)
(* as no other worker has the same partition (Distinct) and the workspace  *)
(* has not been deleted; and the place of the main thread says how much of *)
(* the results it has read.                                                *)

(* The main thread gets past the pool without an exception only when it    *)
(* read every result.                                                      *)
Phase ==
    /\ main \in {"submit", "collect", "package"} => outcome = "running"
    /\ (main \in {"join", "close", "package"} /\ outcome = "running")
         => collected = Len(Selected)

(* The files of a partition at each place of its only worker. *)
Shaped(t) ==
    /\ pc[t] \in {"queued", "stat", "sparse"} => File(t)["image"] = "raw"
    /\ pc[t] \in {"sparsed", "dat", "converted"} => File(t)["image"] = "sparse"
    /\ pc[t] \in {"waiting", "brotli", "finish", "done"} =>
         File(t)["image"] = (IF options.keepTemp THEN "sparse" ELSE "missing")
    /\ pc[t] \notin {"sparse", "failing", "failed"} => File(t)["tmp"] = "missing"
    /\ pc[t] \in {"converted", "waiting", "brotli"} => File(t)["dat"] = "good"
    /\ pc[t] \in {"finish", "done"} => File(t)["dat"] = "missing" /\ File(t)["br"] = "good"
    /\ pc[t] = "sparse" => source[t] = "raw"
    /\ pc[t] = "dat" => source[t] = "sparse"
    /\ pc[t] \notin {"queued", "failing", "failed"} => imageSize[t] = "raw"

FilesShaped == (Distinct /\ main # "exit") => \A t \in Tasks : Shaped(t)

(* What a partition's line says at each place of its only worker. *)
ShownShaped(t) ==
    /\ pc[t] \in {"queued", "stat"} => shown[Selected[t]].stage = "none"
    /\ shown[Selected[t]].stage = "done" <=> pc[t] = "done"
    /\ pc[t] = "done" => ~shown[Selected[t]].failed
    /\ pc[t] = "failed" =>
         shown[Selected[t]].failed \/ shown[Selected[t]].stage = "none"

DisplayShaped == Distinct => \A t \in Tasks : ShownShaped(t)

(* Nobody starts the display again after progress.close(). *)
DisplayOff ==
    (main \in {"package", "cleanup", "exit"} /\ "join" \notin cuts) => ~display

(* A workspace that is kept holds every output that was made. *)
OutputsKept ==
    ~Removes =>
        /\ workspace
        /\ \A t \in Tasks : pc[t] \in {"finish", "done"} => File(t)["br"] # "missing"

(* One that is removed is removed whole. *)
WorkspaceGone ==
    (main = "exit" /\ Removes /\ cuts \intersect {"join", "cleanup"} = {}) =>
        /\ ~workspace
        /\ \A p \in Partitions, k \in Kinds : files[p][k] = "missing"

Outputs ==
    Phase /\ FilesShaped /\ DisplayShaped /\ DisplayOff /\ OutputsKept /\ WorkspaceGone

LEMMA InitOutputs == Init => Outputs
  <1> SUFFICES ASSUME Init PROVE Outputs
    OBVIOUS
  <1>a. \A t \in Tasks : Selected[t] \in Partitions
    BY SelectedType
  <1>1. Phase /\ DisplayOff /\ WorkspaceGone
    BY DEF Init, Phase, DisplayOff, WorkspaceGone
  <1>2. \A t \in Tasks : Shaped(t)
    BY <1>a DEF Init, Shaped, File, Kinds
  <1>3. \A t \in Tasks : ShownShaped(t)
    BY <1>a DEF Init, ShownShaped
  <1>4. OutputsKept
    BY DEF Init, OutputsKept
  <1> QED BY <1>1, <1>2, <1>3, <1>4 DEF Outputs, FilesShaped, DisplayShaped

-------------------------------------------------------------------------------
(* Steps of the workers.                                                   *)

(* A step of a worker leaves alone what belongs to other partitions. *)
LEMMA OthersKept ==
  ASSUME TypeOK, NEW t \in Tasks, TaskStep(t),
         NEW u \in Tasks, Selected[u] # Selected[t]
  PROVE  /\ pc'[u] = pc[u] /\ source'[u] = source[u] /\ imageSize'[u] = imageSize[u]
         /\ files'[Selected[u]] = files[Selected[u]]
         /\ shown'[Selected[u]] = shown[Selected[u]]
  <1>a. u # t /\ Selected[t] \in Partitions /\ Selected[u] \in Partitions
    BY SelectedType
  <1>1. pc'[u] = pc[u]
    BY <1>a, TaskMoves DEF Goto, TypeOK
  <1>2. source'[u] = source[u] /\ imageSize'[u] = imageSize[u]
    BY <1>a
    DEF TaskStep, Start, BeginSparse, EndSparse, BeginDat, EndDat, DropImage,
        EnterGate, EndBrotli, Finish, Fail, TypeOK
  <1>3. files'[Selected[u]] = files[Selected[u]]
    BY <1>a
    DEF TaskStep, Start, BeginSparse, EndSparse, BeginDat, EndDat, DropImage,
        EnterGate, EndBrotli, Finish, Fail, TypeOK, Write, Turn, fileVars
  <1>4. shown'[Selected[u]] = shown[Selected[u]]
    BY <1>a
    DEF TaskStep, Start, BeginSparse, EndSparse, BeginDat, EndDat, DropImage,
        EnterGate, EndBrotli, Finish, Fail, TypeOK, Show, showVars
  <1> QED BY <1>1, <1>2, <1>3, <1>4

(* The files of the worker's own partition after a write. *)
LEMMA OwnFiles ==
  ASSUME TypeOK, NEW t \in Tasks
  PROVE  /\ \A k \in Kinds, c \in Content : Write(t, k, c) =>
              File(t)' = [File(t) EXCEPT ![k] = c]
         /\ \A j, k \in Kinds, c \in Content : Turn(t, j, k, c) =>
              File(t)' = [File(t) EXCEPT ![k] = c, ![j] = "missing"]
         /\ File(t) \in [Kinds -> Content]
  BY SelectedType DEF TypeOK, Write, Turn, File

LEMMA OwnFilesShaped ==
  ASSUME TypeOK, Distinct, NEW t \in Tasks, Shaped(t), TaskStep(t)
  PROVE  Shaped(t)'
  <1>a. /\ {"image", "tmp", "dat", "br"} = Kinds
        /\ {"missing", "torn", "raw", "sparse", "good"} \subseteq Content
        /\ File(t) \in [Kinds -> Content]
    BY OwnFiles DEF Kinds, Content
  <1>b. ~Shares(t)
    BY DEF Distinct, Shares
  <1>c. /\ \A k \in Kinds, c \in Content : Write(t, k, c) =>
             File(t)' = [File(t) EXCEPT ![k] = c]
        /\ \A j, k \in Kinds, c \in Content : Turn(t, j, k, c) =>
             File(t)' = [File(t) EXCEPT ![k] = c, ![j] = "missing"]
    BY OwnFiles
  <1>d. \A place : Goto(t, place) => pc'[t] = place
    BY DEF Goto, TypeOK
  <1>e. UNCHANGED files => File(t)' = File(t)
    BY DEF File
  <1>1. CASE Start(t)
    <2>1. pc'[t] = "stat" /\ imageSize'[t] = "raw" /\ File(t)' = File(t)
      BY <1>1, <1>d, <1>e DEF Start, Shaped, SizeSeen, TypeOK, fileVars
    <2> QED BY <1>1, <2>1 DEF Start, Shaped
  <1>2. CASE BeginSparse(t)
    <2>1. /\ pc'[t] = "sparse" /\ source'[t] = "raw"
          /\ File(t)' = [File(t) EXCEPT !["tmp"] = "torn"]
      BY <1>2, <1>a, <1>c, <1>d DEF BeginSparse, Shaped, TypeOK
    <2> QED BY <1>2, <1>a, <2>1 DEF BeginSparse, Shaped
  <1>3. CASE EndSparse(t)
    <2>1. CASE pc'[t] = "failing"
      BY <2>1 DEF Shaped
    <2>2. CASE pc'[t] # "failing"
      <3>1. Encoded(t) = "sparse"
        BY <1>3, <1>b DEF EndSparse, Encoded, Shaped
      <3>2. /\ pc'[t] = "sparsed"
            /\ File(t)' = [File(t) EXCEPT !["image"] = "sparse", !["tmp"] = "missing"]
        BY <1>3, <2>2, <3>1, <1>a, <1>c, <1>d DEF EndSparse
      <3> QED BY <1>3, <1>a, <3>2 DEF EndSparse, Shaped
    <2> QED BY <2>1, <2>2
  <1>4. CASE BeginDat(t)
    <2>1. /\ pc'[t] = "dat" /\ source'[t] = "sparse"
          /\ File(t)' = [File(t) EXCEPT !["dat"] = "torn"]
      <3>1. File(t)["image"] = "sparse"
        BY <1>4 DEF BeginDat, Shaped
      <3>2. Goto(t, "dat") /\ Write(t, "dat", "torn") /\ source' = [source EXCEPT ![t] = "sparse"]
        BY <1>4, <3>1 DEF BeginDat
      <3>3. File(t)' = [File(t) EXCEPT !["dat"] = "torn"]
        BY <3>2, <1>a, <1>c
      <3> QED BY <3>2, <3>3, <1>d DEF TypeOK
    <2> QED BY <1>4, <1>a, <2>1 DEF BeginDat, Shaped
  <1>5. CASE EndDat(t)
    <2>1. CASE pc'[t] = "failing"
      BY <2>1 DEF Shaped
    <2>2. CASE pc'[t] # "failing"
      <3>1. Extracted(t) = "good"
        BY <1>5, <1>b DEF EndDat, Extracted, Shaped
      <3>2. pc'[t] = "converted" /\ File(t)' = [File(t) EXCEPT !["dat"] = "good"]
        BY <1>5, <2>2, <3>1, <1>a, <1>c, <1>d DEF EndDat
      <3> QED BY <1>5, <1>a, <3>2 DEF EndDat, Shaped
    <2> QED BY <2>1, <2>2
  <1>6. CASE DropImage(t)
    <2>1. CASE pc'[t] = "failing"
      BY <2>1 DEF Shaped
    <2>2. CASE pc'[t] # "failing"
      <3>1. /\ pc'[t] = "waiting"
            /\ File(t)' = IF options.keepTemp THEN File(t)
                          ELSE [File(t) EXCEPT !["image"] = "missing"]
        BY <1>6, <2>2, <1>a, <1>c, <1>d, <1>e DEF DropImage, DropsImage
      <3> QED BY <1>6, <1>a, <3>1 DEF DropImage, Shaped
    <2> QED BY <2>1, <2>2
  <1>7. CASE EnterGate(t)
    <2>1. /\ pc'[t] = "brotli"
          /\ File(t)' = IF options.compress THEN [File(t) EXCEPT !["br"] = "torn"]
                        ELSE File(t)
      BY <1>7, <1>a, <1>c, <1>d, <1>e DEF EnterGate, Shaped
    <2> QED BY <1>7, <1>a, <2>1 DEF EnterGate, Shaped
  <1>8. CASE EndBrotli(t)
    <2>1. CASE pc'[t] = "failing"
      BY <2>1 DEF Shaped
    <2>2. CASE pc'[t] # "failing"
      <3>1. Compressed(t) = "good"
        BY <1>8, <1>b DEF EndBrotli, Compressed, Shaped
      <3>2. /\ pc'[t] = "finish"
            /\ File(t)' = [File(t) EXCEPT !["br"] = "good", !["dat"] = "missing"]
        BY <1>8, <2>2, <3>1, <1>a, <1>c, <1>d DEF EndBrotli
      <3> QED BY <1>8, <1>a, <3>2 DEF EndBrotli, Shaped
    <2> QED BY <2>1, <2>2
  <1>9. CASE Finish(t)
    BY <1>9, <1>d, <1>e DEF Finish, Shaped, fileVars
  <1>10. CASE Fail(t)
    BY <1>10, <1>d DEF Fail, Shaped
  <1> QED
    BY <1>1, <1>2, <1>3, <1>4, <1>5, <1>6, <1>7, <1>8, <1>9, <1>10 DEF TaskStep

LEMMA OwnLineShaped ==
  ASSUME TypeOK, NEW t \in Tasks, ShownShaped(t), TaskStep(t)
  PROVE  ShownShaped(t)'
  <1>a. Selected[t] \in Partitions
    BY SelectedType
  <1>b. \A place : Goto(t, place) => pc'[t] = place
    BY DEF Goto, TypeOK
  <1>c. \A stage \in Stages : Show(t, stage) =>
          shown'[Selected[t]].stage = stage /\ shown'[Selected[t]].failed = FALSE
    BY <1>a DEF Show, TypeOK
  <1>d. {"sparse", "dat", "waiting-brotli", "brotli", "done"} \subseteq Stages
    BY DEF Stages
  <1>1. CASE Start(t)
    BY <1>1, <1>b DEF Start, ShownShaped, showVars
  <1>2. CASE BeginSparse(t)
    <2>1. pc'[t] \in {"sparse", "failing"}
      BY <1>2, <1>b DEF BeginSparse
    <2>2. pc[t] # "done" /\ shown'[Selected[t]].stage = "sparse"
      BY <1>2, <1>c, <1>d DEF BeginSparse
    <2> QED BY <2>1, <2>2 DEF ShownShaped
  <1>3. CASE EndSparse(t)
    <2>1. pc'[t] \in {"sparsed", "failing"}
      BY <1>3, <1>b DEF EndSparse
    <2> QED BY <1>3, <2>1 DEF EndSparse, ShownShaped, showVars
  <1>4. CASE BeginDat(t)
    <2>1. pc'[t] \in {"dat", "failing"}
      BY <1>4, <1>b DEF BeginDat
    <2>2. pc[t] # "done" /\ shown'[Selected[t]].stage = "dat"
      BY <1>4, <1>c, <1>d DEF BeginDat
    <2> QED BY <2>1, <2>2 DEF ShownShaped
  <1>5. CASE EndDat(t)
    <2>1. pc'[t] \in {"converted", "failing"}
      BY <1>5, <1>b DEF EndDat
    <2> QED BY <1>5, <2>1 DEF EndDat, ShownShaped, showVars
  <1>6. CASE DropImage(t)
    <2>1. CASE UNCHANGED shown
      <3>1. pc[t] = "converted" /\ pc'[t] \in {"waiting", "failing"}
        BY <1>6, <1>b DEF DropImage
      <3> QED BY <2>1, <3>1 DEF ShownShaped
    <2>2. CASE ~UNCHANGED shown
      <3>1. pc'[t] = "waiting" /\ shown'[Selected[t]].stage = "waiting-brotli"
        BY <1>6, <2>2, <1>b, <1>c, <1>d DEF DropImage, showVars
      <3> QED BY <3>1 DEF ShownShaped
    <2> QED BY <2>1, <2>2
  <1>7. CASE EnterGate(t)
    <2>1. CASE UNCHANGED shown
      <3>1. pc[t] = "waiting" /\ pc'[t] \in {"failing", "brotli"}
        BY <1>7, <1>b DEF EnterGate
      <3> QED BY <2>1, <3>1 DEF ShownShaped
    <2>2. CASE Show(t, "brotli")
      <3>1. pc'[t] \in {"failing", "brotli"} /\ shown'[Selected[t]].stage = "brotli"
        BY <1>7, <2>2, <1>b, <1>c, <1>d DEF EnterGate
      <3> QED BY <3>1 DEF ShownShaped
    <2> QED BY <1>7, <2>1, <2>2 DEF EnterGate, showVars
  <1>8. CASE EndBrotli(t)
    <2>1. pc'[t] \in {"finish", "failing"}
      BY <1>8, <1>b DEF EndBrotli
    <2> QED BY <1>8, <2>1 DEF EndBrotli, ShownShaped, showVars
  <1>9. CASE Finish(t)
    <2>1. CASE UNCHANGED showVars
      <3>1. pc[t] = "finish" /\ (pc'[t] = "failing" \/ Show(t, "done"))
        BY <1>9, <1>b DEF Finish
      <3>2. pc'[t] = "failing" \/ shown'[Selected[t]].stage = "done"
        BY <3>1, <1>c, <1>d
      <3> QED BY <2>1, <3>1, <3>2 DEF ShownShaped, showVars
    <2>2. CASE pc'[t] = "done" /\ Show(t, "done")
      BY <2>2, <1>c, <1>d DEF ShownShaped
    <2> QED BY <1>9, <1>b, <2>1, <2>2 DEF Finish
  <1>10. CASE Fail(t)
    <2>1. pc[t] = "failing" /\ pc'[t] = "failed"
      BY <1>10, <1>b DEF Fail
    <2>2. /\ shown'[Selected[t]].stage = shown[Selected[t]].stage
          /\ shown'[Selected[t]].failed
      BY <1>10, <1>a DEF Fail, TypeOK
    <2> QED BY <2>1, <2>2 DEF ShownShaped
  <1> QED
    BY <1>1, <1>2, <1>3, <1>4, <1>5, <1>6, <1>7, <1>8, <1>9, <1>10 DEF TaskStep

(* No worker moves once the main thread is past the pool. *)
LEMMA NobodyMoves ==
  ASSUME TypeOK, Ordered, NEW t \in Tasks, TaskStep(t),
         main \in {"close", "package", "cleanup", "exit"}
  PROVE  "join" \in cuts
  <1>1. Tasks = 1..Len(Selected) /\ Len(Selected) \in Nat
    BY SelectedType DEF Tasks
  <1>2. t \in Active \/ (pc[t] = "queued" /\ started < submitted)
    BY <1>1, TaskMoves DEF Active, TypeOK
  <1> QED BY <1>1, <1>2 DEF Ordered, QuietWorkspace, TypeOK

(* The ways a worker changes the files of its partition: it is the image   *)
(* that is deleted, and a temporary file or new.dat that is turned into    *)
(* the next one.                                                           *)
LEMMA TaskWrites ==
  ASSUME TypeOK, NEW t \in Tasks, TaskStep(t)
  PROVE  \/ UNCHANGED files
         \/ \E k \in Kinds, c \in Content \ {"missing"} : Write(t, k, c)
         \/ Write(t, "image", "missing")
         \/ Turn(t, "tmp", "image", Encoded(t))
         \/ Turn(t, "dat", "br", Compressed(t))
  <1>a. /\ {"image", "tmp", "dat", "br"} = Kinds
        /\ Compressed(t) \in Content \ {"missing"}
        /\ Extracted(t) \in Content \ {"missing"}
        /\ "torn" \in Content \ {"missing"}
    BY DEF Kinds, Content, Compressed, Extracted
  <1> QED
    BY <1>a
    DEF TaskStep, Start, BeginSparse, EndSparse, BeginDat, EndDat, DropImage,
        EnterGate, EndBrotli, Finish, Fail, fileVars

(* Nothing a worker does makes a finished output disappear. *)
LEMMA TaskKeepsOutputs ==
  ASSUME TypeOK, OutputsKept, NEW t \in Tasks, TaskStep(t)
  PROVE  OutputsKept'
  <1> SUFFICES ASSUME ~Removes PROVE OutputsKept'
    BY DEF OutputsKept, Removes, TaskStep, Start, BeginSparse, EndSparse, BeginDat,
           EndDat, DropImage, EnterGate, EndBrotli, Finish, Fail
  <1>a. /\ {"image", "tmp", "dat", "br"} = Kinds
        /\ \A u \in Tasks : Selected[u] \in Partitions
    BY SelectedType DEF Kinds
  <1>b. workspace /\ workspace' = workspace
    BY DEF OutputsKept, TaskStep, Start, BeginSparse, EndSparse, BeginDat, EndDat,
           DropImage, EnterGate, EndBrotli, Finish, Fail, fileVars
  <1>c. Compressed(t) # "missing"
    BY DEF Compressed
  <1>1. ASSUME NEW u \in Tasks, File(u)["br"] # "missing"
        PROVE  File(u)'["br"] # "missing"
    <2>1. \/ UNCHANGED files
          \/ \E k \in Kinds, c \in Content \ {"missing"} : Write(t, k, c)
          \/ Write(t, "image", "missing")
          \/ Turn(t, "tmp", "image", Encoded(t))
          \/ Turn(t, "dat", "br", Compressed(t))
      BY TaskWrites
    <2>2. CASE UNCHANGED files
      BY <1>1, <2>2 DEF File
    <2>3. ASSUME NEW k \in Kinds, NEW c, Write(t, k, c), c # "missing" \/ k = "image"
          PROVE  File(u)'["br"] # "missing"
      BY <1>1, <2>3, <1>a DEF Write, File, TypeOK
    <2>4. CASE Turn(t, "tmp", "image", Encoded(t))
      BY <1>1, <2>4, <1>a DEF Turn, File, TypeOK
    <2>5. CASE Turn(t, "dat", "br", Compressed(t))
      BY <1>1, <2>5, <1>a, <1>c DEF Turn, File, TypeOK
    <2> QED BY <2>1, <2>2, <2>3, <2>4, <2>5, <1>a
  <1>2. ASSUME NEW u \in Tasks, pc'[u] \in {"finish", "done"},
               pc[u] \notin {"finish", "done"}
        PROVE  File(u)'["br"] # "missing"
    <2>1. u = t
      BY <1>2, TaskMoves DEF Goto, TypeOK
    <2>2. EndBrotli(t) /\ pc'[t] = "finish"
      BY <1>2, <2>1
      DEF TaskStep, Start, BeginSparse, EndSparse, BeginDat, EndDat, DropImage,
          EnterGate, EndBrotli, Finish, Fail, TypeOK, Goto
    <2>3. Turn(t, "dat", "br", Compressed(t))
      BY <2>2 DEF EndBrotli, Goto, TypeOK
    <2> QED BY <2>1, <2>3, <1>a, <1>c DEF Turn, File, TypeOK
  <1> QED BY <1>b, <1>1, <1>2 DEF OutputsKept

LEMMA TaskStepOutputs ==
  ASSUME TypeOK, Ordered, Outputs, NEW t \in Tasks, TaskStep(t)
  PROVE  Outputs'
  <1>a. UNCHANGED mainVars /\ UNCHANGED options
    BY TaskMoves
    DEF TaskStep, Start, BeginSparse, EndSparse, BeginDat, EndDat, DropImage,
        EnterGate, EndBrotli, Finish, Fail
  <1>1. Phase'
    BY <1>a DEF Outputs, Phase, mainVars
  <1>2. FilesShaped'
    <2> SUFFICES ASSUME Distinct, main # "exit", NEW u \in Tasks PROVE Shaped(u)'
      BY <1>a DEF FilesShaped, mainVars
    <2>1. Shaped(t) /\ Shaped(u)
      BY DEF Outputs, FilesShaped
    <2>2. CASE u = t
      BY <2>1, <2>2, OwnFilesShaped
    <2>3. CASE u # t
      <3>1. Selected[u] # Selected[t]
        BY <2>3 DEF Distinct
      <3> QED BY <1>a, <2>1, <3>1, OthersKept DEF Shaped, File
    <2> QED BY <2>2, <2>3
  <1>3. DisplayShaped'
    <2> SUFFICES ASSUME Distinct, NEW u \in Tasks PROVE ShownShaped(u)'
      BY DEF DisplayShaped
    <2>1. ShownShaped(t) /\ ShownShaped(u)
      BY DEF Outputs, DisplayShaped
    <2>2. CASE u = t
      BY <2>1, <2>2, OwnLineShaped
    <2>3. CASE u # t
      <3>1. Selected[u] # Selected[t]
        BY <2>3 DEF Distinct
      <3> QED BY <2>1, <3>1, OthersKept DEF ShownShaped
    <2> QED BY <2>2, <2>3
  <1>4. DisplayOff' /\ WorkspaceGone'
    BY <1>a, NobodyMoves DEF DisplayOff, WorkspaceGone, mainVars
  <1>5. OutputsKept'
    BY TaskKeepsOutputs DEF Outputs
  <1> QED BY <1>1, <1>2, <1>3, <1>4, <1>5 DEF Outputs
-------------------------------------------------------------------------------
(* Steps of the main thread.                                               *)

LEMMA MainOutputs ==
  ASSUME TypeOK, Ordered, Outputs, MainStep \/ Interrupt
  PROVE  Outputs'
  <1>a. UNCHANGED <<options, pc, imageSize, source, shown>>
    BY DEF MainStep, Interrupt, Submit, Collect, CollectError, CollectedAll, Join,
           Close, Package, CleanUp, taskVars, showVars
  <1>b. main' = "exit" \/ UNCHANGED files
    BY DEF MainStep, Interrupt, Submit, Collect, CollectError, CollectedAll, Join,
           Close, Package, CleanUp, fileVars
  <1>c. main # "exit"
    BY DEF MainStep, Interrupt, Submit, Collect, CollectError, CollectedAll, Join,
           Close, Package, CleanUp
  <1>d. ASSUME NEW S \in SUBSET Partitions, RemoveFiles(S), S = {}
        PROVE  \A p \in Partitions, k \in Kinds : files'[p][k] = "missing"
    BY <1>d DEF RemoveFiles
  <1>1. Phase'
    BY DEF Outputs, Phase, TypeOK, MainStep, Interrupt, Submit, Collect, Awaited,
           CollectError, CollectedAll, Join, Close, Package, CleanUp, Places
  <1>2. FilesShaped'
    <2> SUFFICES ASSUME Distinct, main' # "exit", NEW t \in Tasks PROVE Shaped(t)'
      BY DEF FilesShaped
    <2>1. Shaped(t) /\ UNCHANGED files
      BY <1>b, <1>c DEF Outputs, FilesShaped
    <2> QED BY <1>a, <2>1 DEF Shaped, File
  <1>3. DisplayShaped'
    BY <1>a DEF Outputs, DisplayShaped, ShownShaped
  <1>4. DisplayOff'
    BY DEF Outputs, DisplayOff, MainStep, Interrupt, Submit, Collect, CollectError,
           CollectedAll, Join, Close, StopDisplay, Package, CleanUp, showVars
  <1>5. OutputsKept'
    <2> SUFFICES ASSUME ~Removes PROVE OutputsKept'
      BY <1>a DEF OutputsKept, Removes
    <2>1. UNCHANGED fileVars
      BY DEF MainStep, Interrupt, Submit, Collect, CollectError, CollectedAll, Join,
             Close, Package, CleanUp, fileVars
    <2> QED BY <1>a, <2>1 DEF Outputs, OutputsKept, File, fileVars
  <1>6. WorkspaceGone'
    <2> SUFFICES ASSUME main' = "exit", Removes, cuts' \intersect {"join", "cleanup"} = {}
                 PROVE  /\ ~workspace'
                        /\ \A p \in Partitions, k \in Kinds : files'[p][k] = "missing"
      BY <1>a DEF WorkspaceGone, Removes
    <2>1. CASE CleanUp
      <3>1. Active = {}
        BY <2>1 DEF CleanUp, Ordered, QuietWorkspace
      <3> QED BY <2>1, <3>1, <1>d DEF CleanUp
    <2>2. CASE Interrupt
      BY <2>2 DEF Interrupt
    <2>3. CASE MainStep /\ ~CleanUp
      BY <2>3, <1>c DEF MainStep, Submit, Collect, CollectError, CollectedAll, Join,
                        Close, Package
    <2> QED BY <2>1, <2>2, <2>3
  <1> QED BY <1>1, <1>2, <1>3, <1>4, <1>5, <1>6 DEF Outputs

(* The places of the workers and of the main thread determine the files,   *)
(* the display and the workspace, in every reachable state.                *)
THEOREM OutputsDetermined == Spec => []Outputs
  <1>1. TypeOK /\ Ordered /\ Outputs /\ [Next]_vars => Outputs'
    <2> SUFFICES ASSUME TypeOK, Ordered, Outputs, [Next]_vars PROVE Outputs'
      OBVIOUS
    <2>1. CASE UNCHANGED vars
      BY <2>1
      DEF vars, mainVars, taskVars, fileVars, showVars, Outputs, Phase, FilesShaped,
          Shaped, DisplayShaped, ShownShaped, DisplayOff, OutputsKept, WorkspaceGone,
          File, Removes
    <2> QED BY <2>1, TaskStepOutputs, MainOutputs DEF Next, Terminated
  <1> QED BY <1>1, InitOutputs, Typing, OrderKept, PTL DEF Spec

-------------------------------------------------------------------------------
(* What the stage guarantees.                                              *)

(* When nothing failed or was interrupted every task is done.              *)
LEMMA PackagedIsDone ==
  ASSUME TypeOK, Ordered, Phase, main \in {"join", "close", "package"},
         outcome = "running"
  PROVE  \A t \in Tasks : pc[t] = "done"
  BY SelectedType DEF Phase, Ordered, Prefix, Tasks

(* Every artifact the later stages are handed is complete, made from the   *)
(* raw image, and recorded with the size of the raw image, for every       *)
(* selection without repetitions and in every interleaving.                *)
THEOREM InputsComplete == Spec => []PackageInputs
  <1>1. TypeOK /\ Ordered /\ Outputs => PackageInputs
    <2> SUFFICES ASSUME TypeOK, Ordered, Outputs, main = "package", Distinct,
                        NEW t \in Tasks
                 PROVE  /\ imageSize[t] = "raw"
                        /\ File(t)["br"] = "good"
                        /\ File(t)["dat"] = "missing" /\ File(t)["tmp"] = "missing"
                        /\ File(t)["image"] =
                             (IF options.keepTemp THEN "sparse" ELSE "missing")
      BY DEF PackageInputs
    <2>1. pc[t] = "done"
      BY PackagedIsDone DEF Outputs, Phase
    <2>2. Shaped(t)
      BY DEF Outputs, FilesShaped
    <2> QED BY <2>1, <2>2 DEF Shaped
  <1> QED BY <1>1, Typing, OrderKept, OutputsDetermined, PTL

(* The user's directory keeps what was built, also with repeated names and *)
(* after any failure; a temporary one is gone in the end.                  *)
THEOREM WorkspaceSettled == Spec => []WorkspaceOutcome
  <1>1. Outputs => WorkspaceOutcome
    BY DEF Outputs, OutputsKept, WorkspaceGone, WorkspaceOutcome, Removes
  <1> QED BY <1>1, OutputsDetermined, PTL

(* In the end the display tells each partition's fate.                     *)
THEOREM DisplayTells == Spec => []DisplayTruthful
  <1>1. Outputs => DisplayTruthful
    BY DEF Outputs, DisplayShaped, ShownShaped, DisplayTruthful
  <1> QED BY <1>1, OutputsDetermined, PTL

(* No worker starts the live display again after it was stopped.           *)
THEOREM DisplayStaysOff == Spec => []DisplayStopped
  <1>1. Outputs => DisplayStopped
    BY DEF Outputs, DisplayOff, DisplayStopped, AllEnded
  <1> QED BY <1>1, OutputsDetermined, PTL

-------------------------------------------------------------------------------
(* The refinement of BuildJob.                                             *)

LEMMA JobsAreTasks == Job!Jobs = Tasks
  BY DEF Job!Jobs, Tasks

LEMMA JobStarts == Init => Job!AbstractInit
  BY JobsAreTasks DEF Init, Job!AbstractInit, Verdict

(* A step of a worker that ends its task settles the job; any other is     *)
(* invisible.                                                              *)
LEMMA TaskStepRefines ==
  ASSUME TypeOK, NEW t \in Tasks, TaskStep(t)
  PROVE  Job!Settle(t) \/ UNCHANGED Job!abstract
  <1> DEFINE verdicts == [u \in Tasks |-> Verdict(u)]
  <1>a. UNCHANGED <<outcome, culprit>> /\ ~Ended(t)
    BY TaskMoves DEF mainVars
  <1>b. PICK place \in Where \ {"queued"} : Goto(t, place)
    BY TaskMoves
  <1>c. pc'[t] = place /\ \A u \in Tasks \ {t} : pc'[u] = pc[u]
    BY <1>b DEF Goto, TypeOK
  <1>1. \A u \in Tasks \ {t} : Verdict(u)' = Verdict(u)
    BY <1>c DEF Verdict
  <1>2. Verdict(t) = "pending"
    BY <1>a DEF Verdict, Ended
  <1>3. CASE place \in {"done", "failed"}
    <2>1. Verdict(t)' \in {"built", "failed"}
      BY <1>3, <1>c DEF Verdict
    <2>2. verdicts' = [verdicts EXCEPT ![t] = Verdict(t)']
      BY <1>1
    <2> QED BY <1>2, <1>a, <2>1, <2>2 DEF Job!Settle
  <1>4. CASE place \notin {"done", "failed"}
    <2>1. Verdict(t)' = "pending"
      BY <1>4, <1>c DEF Verdict
    <2>2. verdicts' = verdicts
      BY <1>1, <1>2, <2>1
    <2> QED BY <2>2, <1>a DEF Job!abstract
  <1> QED BY <1>3, <1>4

(* The main thread answers as the abstract job does. *)
LEMMA MainRefines ==
  ASSUME TypeOK, Ordered, Phase, MainStep \/ Interrupt
  PROVE  Job!AbstractNext \/ UNCHANGED Job!abstract
  <1> DEFINE verdicts == [u \in Tasks |-> Verdict(u)]
  <1>a. verdicts' = verdicts
    BY DEF MainStep, Interrupt, Submit, Collect, CollectError, CollectedAll, Join,
           Close, Package, CleanUp, taskVars, Verdict
  <1>b. Tasks = 1..Len(Selected) /\ Len(Selected) \in Nat
    BY SelectedType DEF Tasks
  <1>1. CASE UNCHANGED <<outcome, culprit>>
    BY <1>1, <1>a DEF Job!abstract
  <1>2. ASSUME NEW t \in Tasks, CollectError(t)
        PROVE  Job!Raise(t)
    <2>1. outcome = "running" /\ outcome' = "failed" /\ culprit' = t
      BY <1>2 DEF CollectError, Phase
    <2>2. verdicts[t] = "failed"
      BY <1>2 DEF CollectError, Verdict
    <2>3. \A u \in 1..(t - 1) : verdicts[u] = "built"
      <3>1. \A u \in 1..(t - 1) : u \in Tasks /\ u \in 1..collected
        BY <1>2, <1>b DEF CollectError, Awaited, TypeOK
      <3> QED BY <3>1 DEF Ordered, Prefix, Verdict
    <2> QED BY <1>a, <2>1, <2>2, <2>3 DEF Job!Raise
  <1>3. CASE Package
    <2>1. outcome = "running" /\ outcome' \in {"built", "rejected"} /\ culprit' = culprit
      BY <1>3 DEF Package, Phase
    <2>2. \A t \in Tasks : verdicts[t] = "built"
      BY <1>3, <2>1, PackagedIsDone DEF Package, Verdict
    <2>3. Job!Accept \/ Job!Reject
      BY <1>a, <2>1, <2>2, JobsAreTasks DEF Job!Accept, Job!Reject
    <2> QED BY <2>3 DEF Job!AbstractNext
  <1>4. CASE Interrupt
    BY <1>4, <1>a DEF Interrupt, Job!Abort, Job!AbstractNext
  <1>5. CASE MainStep /\ ~Package /\ ~\E t \in Tasks : CollectError(t)
    BY <1>5, <1>1
    DEF MainStep, Submit, Collect, CollectedAll, Join, Close, CleanUp
  <1> QED BY <1>2, <1>3, <1>4, <1>5, JobsAreTasks DEF Job!AbstractNext

(* Threads, files, gate and interrupts refine the abstract job: every step *)
(* of the stage settles one partition, gives the answer BuildJob would     *)
(* give in that state, or is invisible to the caller.                      *)
THEOREM RefinesBuildJob == Spec => Job!AbstractSafety
  <1>1. TypeOK /\ Ordered /\ Phase /\ [Next]_vars
          => [Job!AbstractNext]_(Job!abstract)
    <2> SUFFICES ASSUME TypeOK, Ordered, Phase, [Next]_vars
                 PROVE  Job!AbstractNext \/ UNCHANGED Job!abstract
      OBVIOUS
    <2>1. CASE UNCHANGED vars
      BY <2>1 DEF vars, mainVars, taskVars, Verdict, Job!abstract
    <2>2. ASSUME NEW t \in Tasks, TaskStep(t)
          PROVE  Job!AbstractNext \/ UNCHANGED Job!abstract
      BY <2>2, TaskStepRefines, JobsAreTasks DEF Job!AbstractNext
    <2> QED BY <2>1, <2>2, MainRefines DEF Next, Terminated
  <1>2. Outputs => Phase
    BY DEF Outputs
  <1> QED BY <1>1, <1>2, JobStarts, Typing, OrderKept, OutputsDetermined, PTL
     DEF Spec, Job!AbstractSafety

===============================================================================
