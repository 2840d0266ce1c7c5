------------------------------- MODULE BuildJob -------------------------------
(***************************************************************************)
(* What a caller of pipeline._process_partitions is promised, with nothing *)
(* of the threads, files and semaphores that keep the promise: every       *)
(* selected partition is settled once, as built or as failed; the build is *)
(* accepted only when all of them are built; otherwise the error raised is *)
(* the one of the first failed partition in the order they were submitted, *)
(* however early a later one failed; and an interrupt, or an error of a    *)
(* later stage, leaves no accepted build behind.                           *)
(***************************************************************************)
EXTENDS Naturals

CONSTANT Count    \* how many partitions are submitted

VARIABLES
    verdict,      \* [1..Count -> {"pending", "built", "failed"}]
    result,       \* what the caller has seen so far
    culprit       \* the partition whose error is raised, 0 when there is none

abstract == <<verdict, result, culprit>>

Jobs == 1..Count

AbstractInit ==
    /\ verdict = [j \in Jobs |-> "pending"]
    /\ result = "running"
    /\ culprit = 0

Settle(j) ==
    /\ verdict[j] = "pending"
    /\ \E v \in {"built", "failed"} : verdict' = [verdict EXCEPT ![j] = v]
    /\ UNCHANGED <<result, culprit>>

Accept ==
    /\ result = "running"
    /\ \A j \in Jobs : verdict[j] = "built"
    /\ result' = "built"
    /\ UNCHANGED <<verdict, culprit>>

Raise(j) ==
    /\ result = "running"
    /\ verdict[j] = "failed"
    /\ \A i \in 1..(j - 1) : verdict[i] = "built"
    /\ result' = "failed"
    /\ culprit' = j
    /\ UNCHANGED verdict

(* A stage after the partitions, which all were built, raises an error. *)
Reject ==
    /\ result = "running"
    /\ \A j \in Jobs : verdict[j] = "built"
    /\ result' = "rejected"
    /\ UNCHANGED <<verdict, culprit>>

(* ^C, at any moment until the process ends. *)
Abort ==
    /\ result' = "interrupted"
    /\ culprit' = 0
    /\ UNCHANGED verdict

AbstractNext ==
    \/ \E j \in Jobs : Settle(j) \/ Raise(j)
    \/ Accept
    \/ Reject
    \/ Abort

(* While the caller waits, every partition is worked on and the answer comes. *)
AbstractFairness ==
    /\ \A j \in Jobs : WF_abstract(result = "running" /\ Settle(j))
    /\ WF_abstract(Accept \/ \E j \in Jobs : Raise(j))

AbstractSafety == AbstractInit /\ [][AbstractNext]_abstract

AbstractSpec == AbstractSafety /\ AbstractFairness
===============================================================================
