-------------------------------- MODULE Pacer --------------------------------
(***************************************************************************)
(* The egress governor of one provider: the row of upstream_request_pacer  *)
(* every replica shares (src/pacer/mod.rs) and the frame every provider    *)
(* call goes through, transport::paced: local throttle, window reset,      *)
(* atomic reservation, sleep outside the transaction, request, and a       *)
(* fleet-wide cooldown after a 429.                                        *)
(*                                                                         *)
(* Instants are kept as distances from now: next is next_allowed_at - now, *)
(* 0 once it has passed, which is what GREATEST(now(), next_allowed_at)    *)
(* reads, and Tick lets one time unit pass.                                *)
(***************************************************************************)
EXTENDS Integers, FiniteSets

CONSTANTS Callers,      \* provider calls that may be in flight at once
          Replicas,
          Home,         \* [Callers -> Replicas]: whose LocalThrottle it uses
          MinGap,       \* LocalThrottle.min_gap of the provider
          Gap,          \* min_gap_ms of its row
          CooldownLen,  \* [Replicas -> Nat]: pacer_cooldown_ms, per environment
          CreditLimit,  \* credit_limit of its row
          Window,       \* the month after which credits_used is reset
          MaxFaults     \* bound: calls dropped by a crash, statements that fail

ASSUME PacerAssumption ==
  /\ Home \in [Callers -> Replicas]
  /\ MinGap \in Nat /\ Gap \in Nat \ {0}
  /\ CooldownLen \in [Replicas -> Nat]
  /\ CreditLimit \in Nat /\ Window \in Nat \ {0} /\ MaxFaults \in Nat
  /\ IsFiniteSet(Callers)

VARIABLES
  next, cooldown, used, window,  \* the row; window is the time to its reset
  last,      \* [Replicas -> last_request of the throttle, relative to now]
  pc,        \* [Callers -> step of paced]
  wait,      \* [Callers -> time left in the caller's sleep or its cooldown_until]
  verdict,   \* [Callers -> what its last call to acquire_slot returned]
  faults     \* budget used

row  == <<next, cooldown, used, window>>
vars == <<row, last, pc, wait, verdict, faults>>

Steps    == {"idle", "throttled", "reset", "reserve", "diagnose", "sleeping", "call", "signal"}
Verdicts == {"none", "ok", "cooldown", "credit", "contended", "db"}

Larger(a, b)  == IF a >= b THEN a ELSE b
Elapse(t)     == IF t > 0 THEN t - 1 ELSE 0
Never         == -MinGap     \* a request at least min_gap ago: as good as none

\* How long LocalThrottle::acquire sleeps.  duration_since saturates: a last
\* request that still lies ahead counts as one made just now.
ThrottleSleep(h) == MinGap - Larger(0, -last[h])

InCooldown == cooldown > 0
\* Mutant: the credit gate lets one request too many through.
OneOverBudget == used > CreditLimit
OutOfCredit == used >= CreditLimit

\* Mutant: the slot is charged by two layers of the call.
DoubleGap == next + 2 * Gap
\* GREATEST(now(), next_allowed_at) + min_gap_ms, relative to now.
NextSlot == next + Gap

\* Mutant: the last signal wins.
LastSignal(c) == wait[c]
\* GREATEST(COALESCE(cooldown_until, 'epoch'), $2).
Cooled(c) == Larger(cooldown, wait[c])

\* Mutant: the sleeper re-reads the row instead of its own reservation.
RowIsDue(c) == next = 0
\* The sleep of sleep_plan, or of the throttle, is over.
Slept(c) == wait[c] = 0

Goto(c, to) == pc' = [pc EXCEPT ![c] = to]

-----------------------------------------------------------------------------
Init ==
  /\ next = 0 /\ cooldown = 0 /\ used = 0 /\ window = Window
  /\ last = [h \in Replicas |-> Never]
  /\ pc = [c \in Callers |-> "idle"]
  /\ wait = [c \in Callers |-> 0]
  /\ verdict = [c \in Callers |-> "none"]
  /\ faults = 0

\* paced is called: the throttle is stamped under its lock and the caller sleeps.
Throttle(c) ==
  /\ pc[c] = "idle"
  /\ LET h == Home[c] IN
     /\ last' = [last EXCEPT ![h] = ThrottleSleep(h)]
     /\ wait' = [wait EXCEPT ![c] = ThrottleSleep(h)]
  /\ verdict' = [verdict EXCEPT ![c] = "none"]
  /\ Goto(c, "throttled")
  /\ UNCHANGED <<row, faults>>

\* The throttle's sleep is over: acquire_slot begins.
EnterGovernor(c) ==
  /\ pc[c] = "throttled" /\ wait[c] = 0
  /\ Goto(c, "reset")
  /\ UNCHANGED <<row, last, wait, verdict, faults>>

\* reset_credit_window_if_needed, a statement of its own.
ResetWindow(c) ==
  /\ pc[c] = "reset"
  /\ IF window = 0 THEN used' = 0 /\ window' = Window ELSE UNCHANGED <<used, window>>
  /\ Goto(c, "reserve")
  /\ UNCHANGED <<next, cooldown, last, wait, verdict, faults>>

\* The gated UPDATE matched the row: the slot is charged before it is waited for.
Reserve(c) ==
  /\ pc[c] = "reserve" /\ ~InCooldown /\ ~OutOfCredit
  /\ next' = NextSlot
  /\ used' = used + 1
  /\ wait' = [wait EXCEPT ![c] = next']
  /\ Goto(c, "sleeping")
  /\ UNCHANGED <<cooldown, window, last, verdict, faults>>

\* A gate held it back: no row came back.
Blocked(c) ==
  /\ pc[c] = "reserve" /\ (InCooldown \/ OutOfCredit)
  /\ Goto(c, "diagnose")
  /\ UNCHANGED <<row, last, wait, verdict, faults>>

\* The re-SELECT, later: classify_blocked names the gate that holds now.
Diagnose(c) ==
  /\ pc[c] = "diagnose"
  /\ verdict' = [verdict EXCEPT ![c] = IF InCooldown THEN "cooldown"
                                       ELSE IF OutOfCredit THEN "credit" ELSE "contended"]
  /\ Goto(c, "idle")
  /\ UNCHANGED <<row, last, wait, faults>>

\* The slot has come: acquire_slot returns Ok and the request goes out.
Fire(c) ==
  /\ pc[c] = "sleeping" /\ Slept(c)
  /\ verdict' = [verdict EXCEPT ![c] = "ok"]
  /\ Goto(c, "call")
  /\ UNCHANGED <<row, last, wait, faults>>

\* The provider answers 429 (and cooldown_until is computed from the local
\* clock), or anything else, which is returned unchanged.
Answer(c) ==
  /\ pc[c] = "call"
  /\ \/ Goto(c, "idle") /\ UNCHANGED wait
     \/ Goto(c, "signal") /\ wait' = [wait EXCEPT ![c] = CooldownLen[Home[c]]]
  /\ UNCHANGED <<row, last, verdict, faults>>

SignalCooldown(c) ==
  /\ pc[c] = "signal"
  /\ cooldown' = Cooled(c)
  /\ Goto(c, "idle")
  /\ UNCHANGED <<next, used, window, last, wait, verdict, faults>>

\* A statement of acquire_slot fails, or that of signal_cooldown, whose error
\* paced ignores.
DbError(c) ==
  /\ pc[c] \in {"reset", "reserve", "diagnose", "signal"}
  /\ faults < MaxFaults /\ faults' = faults + 1
  /\ verdict' = [verdict EXCEPT ![c] = IF pc[c] = "signal" THEN @ ELSE "db"]
  /\ Goto(c, "idle")
  /\ UNCHANGED <<row, last, wait>>

\* The replica dies in mid-call; a slot it reserved stays charged.
Drop(c) ==
  /\ pc[c] # "idle"
  /\ faults < MaxFaults /\ faults' = faults + 1
  /\ Goto(c, "idle")
  /\ UNCHANGED <<row, last, wait, verdict>>

Tick ==
  /\ next' = Elapse(next) /\ cooldown' = Elapse(cooldown) /\ window' = Elapse(window)
  /\ last' = [h \in Replicas |-> Larger(Never, last[h] - 1)]
  /\ wait' = [c \in Callers |-> Elapse(wait[c])]
  /\ UNCHANGED <<used, pc, verdict, faults>>

\* What the code does next for the caller, once it may.
Advance(c) == \/ EnterGovernor(c) \/ ResetWindow(c) \/ Reserve(c) \/ Blocked(c)
              \/ Diagnose(c) \/ Fire(c) \/ Answer(c) \/ SignalCooldown(c)

Next == Tick \/ \E c \in Callers : Throttle(c) \/ Advance(c) \/ DbError(c) \/ Drop(c)

Spec == Init /\ [][Next]_vars

\* Time passes, and a caller whose sleep is over goes on; nobody has to call.
Fairness == WF_vars(Tick) /\ \A c \in Callers : WF_vars(Advance(c))
FairSpec == Spec /\ Fairness

-----------------------------------------------------------------------------
(* Properties.                                                             *)

TypeOK ==
  /\ next \in Nat /\ cooldown \in Nat /\ used \in Nat /\ window \in Nat
  /\ last \in [Replicas -> Int]
  /\ pc \in [Callers -> Steps]
  /\ wait \in [Callers -> Nat]
  /\ verdict \in [Callers -> Verdicts]
  /\ faults \in Nat

Waiting(c) == pc[c] = "sleeping" /\ wait[c] > 0

\* Whichever replicas reserve, at whatever instants, two requests still waiting
\* for their slots go out at least min_gap_ms apart (REQ-PROV-040).
SlotsSpaced ==
  \A c, d \in Callers : Waiting(c) /\ Waiting(d) /\ c # d =>
    wait[c] >= wait[d] + Gap \/ wait[d] >= wait[c] + Gap

\* No request is charged beyond the monthly budget, although the reset, the gate
\* and the charge of many replicas interleave (REQ-PROV-043/044).
CreditCap == used <= CreditLimit

\* The two gates of acquire_slot hold for all replicas together, whatever they run at once:
\* the gap between two requests and the credits of a window.
GatesHold == SlotsSpaced /\ CreditCap

\* The backlog is made of requests: next_allowed_at runs ahead of now by one gap
\* for each caller that waits for a slot, and for each slot a dead caller left.
BacklogBounded ==
  next <= Gap * (Cardinality({c \in Callers : Waiting(c)}) + faults)

\* A cooldown only wears off; no signal, however short or late, truncates it
\* (REQ-PROV-061).
CooldownNeverShortened ==
  [][cooldown' < cooldown => cooldown' = cooldown - 1 /\ window' = Elapse(window)
                             /\ pc' = pc]_vars

\* Every call gets an answer: the reserved sleep is finite, and no other caller
\* can push a reserved slot away.
EveryCallReturns == \A c \in Callers : pc[c] # "idle" ~> pc[c] = "idle"
=============================================================================
