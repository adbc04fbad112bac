----------------------------- MODULE JobPromise -----------------------------
(***************************************************************************)
(* What the gateway promises the service that queued a job: the job waits  *)
(* or is worked on until it is settled; it is withdrawn only while it      *)
(* waits, so a cancelled job is never answered; and what was settled stays *)
(* until the record is purged and its place is used for another job.       *)
(***************************************************************************)
CONSTANT Job

VARIABLE state  \* job -> "absent", "waiting", "working" or an outcome

Init == state = [j \in Job |-> "absent"]

Settled == {"succeeded", "failed", "cancelled"}

Queue(j) ==
    /\ state[j] = "absent"
    /\ state' = [state EXCEPT ![j] = "waiting"]

(* Many jobs may change at once: a restart, or a model that will not come. *)
Work ==
    /\ state' \in [Job -> {"absent", "waiting", "working"} \cup Settled]
    /\ \A j \in Job :
          \/ state'[j] = state[j]
          \/ state[j] = "working" /\ state'[j] \in {"waiting", "succeeded", "failed"}
          \/ state[j] = "waiting" /\ state'[j] \in {"working", "failed"}

Withdraw(j) ==
    /\ state[j] = "waiting"
    /\ state' = [state EXCEPT ![j] = "cancelled"]

Purge(j) ==
    /\ state[j] \in Settled
    /\ state' = [state EXCEPT ![j] = "absent"]

Next ==
    \/ Work
    \/ \E j \in Job : Queue(j) \/ Withdraw(j) \/ Purge(j)

Spec == Init /\ [][Next]_state
=============================================================================
