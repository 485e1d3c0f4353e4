---------------------------- MODULE BatchBarrier ----------------------------
(***************************************************************************)
(* What EnqueueBatch promises its callers, without workers, rows, retries, *)
(* reservations or counters: a batch comes into being with all of its jobs,*)
(* jobs succeed in any order, and the job named on_complete is enqueued at *)
(* most once, when every job of the batch has succeeded.  A batch one of   *)
(* whose jobs never succeeds never gets there.                             *)
(***************************************************************************)
EXTENDS Naturals

CONSTANTS Batch, Job

VARIABLES
    members,   \* the jobs of every batch; {} before it is enqueued
    done,      \* jobs of batches whose handler has succeeded
    completed  \* how many on_complete jobs each batch has had

vars == <<members, done, completed>>

Init ==
    /\ members = [b \in Batch |-> {}]
    /\ done = {}
    /\ completed = [b \in Batch |-> 0]

Enqueue(b, S) ==
    /\ members[b] = {} /\ S # {}
    /\ S \cap UNION {members[c] : c \in Batch} = {}
    /\ members' = [members EXCEPT ![b] = S]
    /\ UNCHANGED <<done, completed>>

Succeed(b, i) ==
    /\ i \in members[b]
    /\ done' = done \cup {i}
    /\ UNCHANGED <<members, completed>>

Complete(b) ==
    /\ members[b] # {} /\ members[b] \subseteq done
    /\ completed[b] = 0
    /\ completed' = [completed EXCEPT ![b] = 1]
    /\ UNCHANGED <<members, done>>

Next == \E b \in Batch :
    \/ \E S \in SUBSET Job : Enqueue(b, S)
    \/ \E i \in Job : Succeed(b, i)
    \/ Complete(b)

Spec == Init /\ [][Next]_vars
=============================================================================
