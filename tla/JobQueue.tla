------------------------------ MODULE JobQueue ------------------------------
(***************************************************************************)
(* What the durable outbox promises, with no leases, heartbeats or         *)
(* threads: a job waits, runs at most MaxTries times, never at the same    *)
(* time as another job with its key, and ends once.  The module docstring  *)
(* of app/core/sender/outbox.py is the text of this promise.               *)
(***************************************************************************)
EXTENDS Naturals

CONSTANTS
    Jobs,
    Key,            \* what makes two jobs exclusive: (user_id, action)
    Withdrawable,   \* jobs another actor may finish (circle rows)
    MaxTries

VARIABLES
    phase,
    tries

vars == <<phase, tries>>

Init ==
    /\ phase = [j \in Jobs |-> "new"]
    /\ tries = [j \in Jobs |-> 0]

Submit(j) ==
    /\ phase[j] = "new"
    /\ phase' = [phase EXCEPT ![j] = "waiting"]
    /\ UNCHANGED tries

Start(j) ==
    /\ phase[j] = "waiting" /\ tries[j] < MaxTries
    /\ \A k \in Jobs : Key[k] = Key[j] => phase[k] # "running"
    /\ phase' = [phase EXCEPT ![j] = "running"]
    /\ tries' = [tries EXCEPT ![j] = @ + 1]

\* The running attempt ends the job, well or badly.
End(j, verdict) ==
    /\ phase[j] = "running" /\ verdict \in {"done", "failed"}
    /\ phase' = [phase EXCEPT ![j] = verdict]
    /\ UNCHANGED tries

Withdraw(j) ==
    /\ j \in Withdrawable /\ phase[j] \in {"waiting", "running"}
    /\ phase' = [phase EXCEPT ![j] = "done"]
    /\ UNCHANGED tries

\* Attempts end without a verdict: the jobs wait for their next try.
GiveBack(S) ==
    /\ \A j \in S : phase[j] = "running"
    /\ phase' = [j \in Jobs |-> IF j \in S THEN "waiting" ELSE phase[j]]
    /\ UNCHANGED tries

GiveUp(S) ==
    /\ \A j \in S : phase[j] \in {"waiting", "running"} /\ tries[j] = MaxTries
    /\ phase' = [j \in Jobs |-> IF j \in S THEN "failed" ELSE phase[j]]
    /\ UNCHANGED tries

Forget(S) ==
    /\ \A j \in S : phase[j] \in {"done", "failed"}
    /\ phase' = [j \in Jobs |-> IF j \in S THEN "purged" ELSE phase[j]]
    /\ tries' = [j \in Jobs |-> IF j \in S THEN 0 ELSE tries[j]]

Next ==
    \/ \E j \in Jobs : \/ Submit(j) \/ Start(j) \/ Withdraw(j)
                       \/ \E v \in {"done", "failed"} : End(j, v)
    \/ \E S \in SUBSET Jobs : GiveBack(S) \/ GiveUp(S) \/ Forget(S)

Spec == Init /\ [][Next]_vars
=============================================================================
