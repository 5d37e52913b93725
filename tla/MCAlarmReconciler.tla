------------------------- MODULE MCAlarmReconciler -------------------------
\* Small instances of AlarmReconciler and of AlarmConditions for TLC: a behaviour is one
\* of the sweeps, or one of what a condition is derived from.
EXTENDS AlarmReconciler, AlarmConditions

CONSTANTS r1, r2, row, chain, fatal, p1, p2, w1, w2

VARIABLE side

EitherInit ==
  /\ Init /\ ConditionsInit
  /\ side \in {"sweeps", "conditions"}
  /\ side = "sweeps" => topic = "crash"

EitherNext ==
  /\ \/ side = "sweeps" /\ Next /\ UNCHANGED conditionVars
     \/ side = "conditions" /\ ConditionsNext /\ UNCHANGED vars
  /\ UNCHANGED side

\* The fairness of FairSpec, in the behaviours of the sweeps.
EitherFair ==
  /\ WF_vars(side = "sweeps" /\ Tick)
  /\ \A r \in Replicas :
       /\ WF_vars(side = "sweeps" /\ Read(r)) /\ WF_vars(side = "sweeps" /\ Deliver(r))
       /\ WF_vars(side = "sweeps" /\ Start(r))

EitherSpec ==
  /\ EitherInit /\ [][EitherNext]_<<side, vars, conditionVars>>
  /\ EitherFair /\ ConditionsFair

\* The Alarm Center follows the conditions: what lasts is shown, what has ended is not, a
\* row that ended leaves the fleet's reading, and writes that all fail are reported
\* (raise_sweep, clear_sweep, db_write_degraded).
AlarmsFollow == AlarmsEnd /\ LastingShows /\ EndedRowsLetGo /\ LastingFailureShows
=============================================================================
