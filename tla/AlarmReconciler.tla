-------------------------- MODULE AlarmReconciler --------------------------
(***************************************************************************)
(* The alarm reconciler (src/alarm/reconciler.rs) of every replica against *)
(* the one Alarm Center.  A sweep reads which conditions hold, raises each *)
(* of them with a time to live, clears what a severe one of the last sweep *)
(* has become, and remembers what it raised only for that.                 *)
(*                                                                         *)
(* A condition is Queried (a SQL statement over rows every replica sees)   *)
(* or the replica's own (its registry, its ping, its pool).  Instants are  *)
(* distances from now.                                                     *)
(***************************************************************************)
EXTENDS Integers

CONSTANTS
  Replicas,
  Conditions,   \* the fingerprints of the catalogue
  Queried,      \* read by a statement that may fail
  Sustained,    \* behind sustained_state_update
  Severe,       \* Critical or Error
  Fatal,        \* startup-config-error, which main raises and no sweep does
  Interval,     \* ALARM_RECONCILE_INTERVAL_SECS
  Sustain,      \* the threshold of the sustained ones
  MaxUpsets     \* bound: lost raises, failed queries, stalled sweeps, exits

Reported == Conditions \ {Fatal}

ASSUME AlarmAssumption ==
  /\ Queried \subseteq Reported /\ Sustained \subseteq Reported \ Queried
  /\ Severe \subseteq Conditions /\ Fatal \in Severe
  /\ Interval \in Nat \ {0} /\ Sustain \in Nat /\ MaxUpsets \in Nat

VARIABLES
  fleet,    \* queried conditions that hold
  own,      \* [Replicas -> conditions of its own that hold]
  pc,       \* [Replicas -> "off", "idle", or "sweep": between reads and requests]
  due,      \* [Replicas -> time to the next tick of the ticker]
  since,    \* [Replicas -> [Sustained -> age of the marker, or -1]]
  desired,  \* [Replicas -> what the sweep in progress found]
  prev,     \* [Replicas -> previously_active]
  fresh,    \* replicas that have not finished a sweep since they started
  left,     \* the Alarm Center: [Conditions -> time to live, 0 when not raised]
  stalled,  \* replicas whose sweep takes long
  kept,     \* history: [Replicas -> conditions it has raised and seen hold ever since]
  upsets    \* budget used

world   == <<fleet, own>>
sweeper == <<pc, due, since, desired, prev, fresh, stalled>>
vars    == <<world, sweeper, left, kept, upsets>>

Upset == upsets < MaxUpsets /\ upsets' = upsets + 1

\* Free, or for an upset when something of S goes wrong.
Paid(S) == IF S = {} THEN UNCHANGED upsets ELSE Upset

\* A unit less is left.
Down(t) == IF t > 0 THEN t - 1 ELSE 0

\* Mutant: a margin that no lost raise fits in.
ShortTtl == (3 * Interval + 1) \div 2
\* alarm_ttl_secs: two and a half intervals.
Ttl == (5 * Interval + 1) \div 2

Signal(r) == fleet \cup own[r]

\* Mutant: the marker starts again with every sweep.
AlwaysNow(r) == [c \in Sustained |-> IF c \in Signal(r) THEN 0 ELSE -1]
\* sustained_state_update.
Marker(r) ==
  [c \in Sustained |->
     IF c \notin Signal(r) THEN -1 ELSE IF since[r][c] = -1 THEN 0 ELSE since[r][c]]

\* The conditions of a sweep; a failed statement skips its condition.
Found(r, failed) ==
  {c \in Signal(r) \ failed : c \in Sustained => Marker(r)[c] >= Sustain}

\* compute_sweep_actions: what has gone, where that is worth a request.
FastClear(r) == (prev[r] \ desired[r]) \cap Severe

-----------------------------------------------------------------------------
Init ==
  /\ fleet = {} /\ own = [r \in Replicas |-> {}]
  /\ pc = [r \in Replicas |-> "idle"]
  /\ due = [r \in Replicas |-> 0]
  /\ since = [r \in Replicas |-> [c \in Sustained |-> -1]]
  /\ desired = [r \in Replicas |-> {}] /\ prev = [r \in Replicas |-> {}]
  /\ fresh = Replicas
  /\ left = [c \in Conditions |-> 0]
  /\ stalled = {} /\ kept = [r \in Replicas |-> {}]
  /\ upsets = 0

\* A tick of the ticker: everything is read.  The first sweep clears Fatal.
Read(r) ==
  /\ pc[r] = "idle" /\ due[r] = 0
  /\ \E failed \in SUBSET Queried :
       /\ Paid(failed)
       /\ desired' = [desired EXCEPT ![r] = Found(r, failed)]
       /\ kept' = [kept EXCEPT ![r] = @ \ failed]
  /\ since' = [since EXCEPT ![r] = Marker(r)]
  /\ left' \in IF r \in fresh THEN {left, [left EXCEPT ![Fatal] = 0]} ELSE {left}
  /\ due' = [due EXCEPT ![r] = Interval]
  /\ pc' = [pc EXCEPT ![r] = "sweep"]
  /\ fresh' = fresh \ {r}
  /\ UNCHANGED <<world, prev, stalled>>

\* The requests of the sweep, any of which may get lost: a raise for an upset, a
\* clear for nothing.  Each concerns another fingerprint, so they are one step.
Deliver(r) ==
  /\ pc[r] = "sweep"
  /\ \E lost \in SUBSET desired[r], cleared \in SUBSET FastClear(r) :
       /\ Paid(lost)
       /\ left' = [c \in Conditions |->
                     IF c \in desired[r] \ lost THEN Ttl
                     ELSE IF c \in cleared THEN 0 ELSE left[c]]
       /\ kept' = [q \in Replicas |->
                     (kept[q] \cup IF q = r THEN (desired[r] \ lost) \cap Signal(r) ELSE {})
                       \ cleared]
  /\ prev' = [prev EXCEPT ![r] = desired[r]]
  /\ desired' = [desired EXCEPT ![r] = {}]
  /\ pc' = [pc EXCEPT ![r] = "idle"]
  /\ stalled' = stalled \ {r}
  /\ UNCHANGED <<world, due, since, fresh>>

\* Slow statements or an Alarm Center that does not answer.
Stall(r) ==
  /\ pc[r] = "sweep" /\ r \notin stalled /\ Upset
  /\ stalled' = stalled \cup {r}
  /\ UNCHANGED <<world, pc, due, since, desired, prev, fresh, left, kept>>

\* A crash, or a shutdown: nothing is cleared.
Exit(r) ==
  /\ pc[r] # "off" /\ Upset
  /\ pc' = [pc EXCEPT ![r] = "off"]
  /\ own' = [own EXCEPT ![r] = {}]
  /\ desired' = [desired EXCEPT ![r] = {}] /\ prev' = [prev EXCEPT ![r] = {}]
  /\ since' = [since EXCEPT ![r] = [c \in Sustained |-> -1]]
  /\ due' = [due EXCEPT ![r] = 0]
  /\ stalled' = stalled \ {r}
  /\ kept' = [kept EXCEPT ![r] = {}]
  /\ UNCHANGED <<fleet, fresh, left>>

\* main: a chain or a pacer row that is not there ends the process, with one
\* attempt to raise Fatal.
StartFails(r) ==
  /\ pc[r] = "off"
  /\ left' = [left EXCEPT ![Fatal] = Ttl]
  /\ UNCHANGED <<world, sweeper, kept, upsets>>

Start(r) ==
  /\ pc[r] = "off"
  /\ pc' = [pc EXCEPT ![r] = "idle"]
  /\ fresh' = fresh \cup {r}
  /\ UNCHANGED <<world, due, since, desired, prev, stalled, left, kept, upsets>>

-----------------------------------------------------------------------------
(* The conditions come and go, and time passes.                            *)

\* The elements of one set and not of the other.
Differ(S, T) == (S \ T) \cup (T \ S)

FleetChanges(c) ==
  /\ fleet' = Differ(fleet, {c})
  /\ kept' = [r \in Replicas |-> kept[r] \ {c}]
  /\ UNCHANGED <<own, sweeper, left, upsets>>

OwnChanges(r, c) ==
  /\ pc[r] # "off"
  /\ own' = [own EXCEPT ![r] = Differ(@, {c})]
  /\ kept' = [kept EXCEPT ![r] = @ \ {c}]
  /\ UNCHANGED <<fleet, sweeper, left, upsets>>

\* A sweep starts with its tick and is over at once, unless it stalls, and then by
\* the next tick.
Timely(r) ==
  \/ pc[r] = "off"
  \/ due[r] > 0 /\ (pc[r] = "idle" \/ r \in stalled)

Tick ==
  /\ \A r \in Replicas : Timely(r)
  /\ due' = [r \in Replicas |-> Down(due[r])]
  /\ since' = [r \in Replicas |-> [c \in Sustained |->
                 IF since[r][c] \in 0..(Sustain - 1) THEN since[r][c] + 1 ELSE since[r][c]]]
  /\ left' = [c \in Conditions |-> Down(left[c])]
  /\ UNCHANGED <<world, pc, desired, prev, fresh, stalled, kept, upsets>>

Next ==
  \/ \E r \in Replicas : Read(r) \/ Deliver(r) \/ Stall(r) \/ Exit(r) \/ StartFails(r) \/ Start(r)
  \/ \E c \in Queried : FleetChanges(c)
  \/ \E r \in Replicas, c \in Reported \ Queried : OwnChanges(r, c)
  \/ Tick

Spec == Init /\ [][Next]_vars

\* Time passes, sweeps end (every request has a timeout), processes come back.
FairSpec ==
  /\ Spec /\ WF_vars(Tick)
  /\ \A r \in Replicas : WF_vars(Read(r)) /\ WF_vars(Deliver(r)) /\ WF_vars(Start(r))

-----------------------------------------------------------------------------
(* Properties.                                                             *)

\* The type of the state.
TypeOK ==
  /\ fleet \subseteq Queried /\ own \in [Replicas -> SUBSET (Reported \ Queried)]
  /\ pc \in [Replicas -> {"off", "idle", "sweep"}]
  /\ due \in [Replicas -> 0..Interval]
  /\ since \in [Replicas -> [Sustained -> -1..Sustain]]
  /\ desired \in [Replicas -> SUBSET Reported] /\ prev \in [Replicas -> SUBSET Reported]
  /\ fresh \subseteq Replicas /\ stalled \subseteq Replicas
  /\ left \in [Conditions -> 0..Ttl]
  /\ kept \in [Replicas -> SUBSET Reported]
  /\ upsets \in 0..MaxUpsets

\* An alarm does not lapse under a replica that goes on seeing its condition: one lost
\* raise or one slow sweep fits into the time to live (alarm_ttl_secs).
KeptAlarmsStand == \A r \in Replicas : \A c \in kept[r] : left[c] > 0

\* The state keeps its type, and no alarm lapses under a replica that sees its condition.
AlarmsStand == TypeOK /\ KeptAlarmsStand

\* "Raised but never cleared" does not happen: an alarm whose condition has ended on
\* every replica ends, whatever is lost and whoever dies with it in memory.
AlarmsEnd ==
  \A c \in Conditions : <>[](\A r \in Replicas : c \notin Signal(r)) => <>[](left[c] = 0)

\* A condition that lasts on a replica that runs is shown again and again, although
\* another replica, for which it has ended, may clear it (REQ-ALARM-060).
LastingShows ==
  \A r \in Replicas, c \in Reported :
    <>[](pc[r] # "off" /\ c \in Signal(r)) => []<>(left[c] > 0)
=============================================================================
