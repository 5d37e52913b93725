------------------------------ MODULE WorkLedger ------------------------------
(***************************************************************************)
(* What a client of the collection queue is promised, with no replica, no  *)
(* lease and no claim in sight: a job is admitted once per key while an    *)
(* earlier one is open, an open job may only be charged failures, and it   *)
(* leaves the ledger once, with one verdict.  LeaseQueue implements it.    *)
(***************************************************************************)
EXTENDS Naturals

CONSTANTS Jobs, Keys, NoKey, MaxAttempts

VARIABLES job,    \* [Jobs -> "absent", "open" or a verdict]
          key,    \* [Jobs -> what the job collects]
          spent   \* [Jobs -> failures and lost claims charged to it]

vars == <<job, key, spent>>

Init == /\ job = [j \in Jobs |-> "absent"]
        /\ key = [j \in Jobs |-> NoKey]
        /\ spent = [j \in Jobs |-> 0]

Verdict(j, v) == job[j] = "open" /\ job' = [job EXCEPT ![j] = v] /\ UNCHANGED key

Admit(j, k) ==
  /\ job[j] = "absent"
  /\ \A i \in Jobs : job[i] = "open" => key[i] # k
  /\ job' = [job EXCEPT ![j] = "open"]
  /\ key' = [key EXCEPT ![j] = k]
  /\ UNCHANGED spent

Charge(j) == /\ job[j] = "open"
             /\ spent' = [spent EXCEPT ![j] = @ + 1]
             /\ UNCHANGED <<job, key>>

Finish(j) == Verdict(j, "done") /\ UNCHANGED spent

Reject(j) == Verdict(j, "rejected") /\ UNCHANGED spent

\* Giving up is for a job whose last failure exhausted the budget.
Exhaust(j) == /\ Verdict(j, "exhausted")
              /\ spent' = [spent EXCEPT ![j] = @ + 1]
              /\ spent[j] + 1 >= MaxAttempts

Next == \E j \in Jobs :
          \/ \E k \in Keys : Admit(j, k)
          \/ Charge(j) \/ Finish(j) \/ Reject(j) \/ Exhaust(j)

Spec == Init /\ [][Next]_vars
=============================================================================
