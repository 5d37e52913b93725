--------------------------- MODULE ProviderChain ---------------------------
(***************************************************************************)
(* The provider chain (src/providers/mod.rs): chain_try, chain_fetch_ohlc  *)
(* and chain_fetch_ohlc_range, with the pacer gates around and inside them *)
(* (collection_queue.rs, backfill.rs, transport::paced), what a worker     *)
(* makes of their results, and what they leave in the HealthRegistry.      *)
(*                                                                         *)
(* A call asks the capable providers in the order of the chain.  What each *)
(* one said is kept in said: the code's last_fetch_err and last_pace_err   *)
(* are the last errors of it.                                              *)
(***************************************************************************)
EXTENDS Integers, Sequences

CONSTANTS
  Workers,     \* workers of one replica, sharing its registry
  Chain,       \* the declared order, a sequence of providers
  Kinds,       \* the capabilities asked for
  Supports,    \* [Kinds -> SUBSET of the providers]
  Ohlc, OhlcRange,  \* the kinds of chain_fetch_ohlc and chain_fetch_ohlc_range
  Threshold,   \* ALARM_PROVIDER_UNREACHABLE_SECS
  MaxUpsets    \* bound: outages, refusals, errors of the upstreams and of the pacer

Positions == 1..Len(Chain)
Providers == {Chain[n] : n \in Positions}

ASSUME ChainAssumption ==
  /\ Chain \in Seq(Providers)
  /\ \A m, n \in Positions : m # n => Chain[m] # Chain[n]
  /\ Supports \in [Kinds -> SUBSET Providers]
  /\ Ohlc \in Kinds /\ OhlcRange \in Kinds /\ Ohlc # OhlcRange
  /\ Threshold \in Nat /\ MaxUpsets \in Nat

VARIABLES
  refused,  \* providers whose pacer row refuses: cooldown, or credits used up
  down,     \* providers no request reaches
  step, kind, at, said, result,  \* by caller: place in the call, and its answers so far
  failing,  \* registry: consecutive_network_failures > 0
  quiet,    \* registry: time since last_success_at, up to Threshold; that for None too
  alldown,  \* registry: last_all_failed_at is after last_chain_success_at
  upsets    \* budget used

outside   == <<refused, down>>
call      == <<step, kind, at, said, result>>
registry  == <<failing, quiet, alldown>>
chainVars == <<outside, call, registry, upsets>>

Answers ==
  {"none",       \* not asked
   "refused",    \* chain_try: acquire_slot refuses the provider
   "unpaced",    \* chain_try: acquire_slot fails otherwise
   "cooled",     \* the provider's own acquire_slot refuses it
   "lost",       \* the provider's own acquire_slot fails otherwise
   "network", "error", "empty", "data"}
FetchErrors == {"cooled", "lost", "network", "error"}
Successes   == {"empty", "data"}

Results == {"none", "done", "empty", "skip", "transient", "permanent"}

Upset == upsets < MaxUpsets /\ upsets' = upsets + 1
Put(f, w, x) == [f EXCEPT ![w] = x]

Unasked    == [p \in Providers |-> "none"]
Tried(k)   == k \notin {Ohlc, OhlcRange}      \* goes through chain_try
Capable(k) == {n \in Positions : Chain[n] \in Supports[k]}
Later(k, n) == {m \in Capable(k) : m > n}
Least(S)   == CHOOSE n \in S : \A m \in S : n <= m

\* The last provider of the chain that said one of A.
LastOf(s, A) ==
  LET N == {n \in Positions : s[Chain[n]] \in A}
  IN  IF N = {} THEN "none" ELSE s[Chain[CHOOSE n \in N : \A m \in N : m <= n]]

Heard(s, A) == \E p \in Providers : s[p] \in A

\* The walk is over: the first answer wins, except that a range request goes on
\* past an empty page.
Answered(k, s) == Heard(s, {"data"}) \/ (k = Ohlc /\ Heard(s, {"empty"}))

\* Mutant: an earlier empty page hides an error.
EmptyMasks(k, s) ==
  IF Answered(k, s) THEN "done"
  ELSE IF k = OhlcRange /\ Heard(s, {"empty"}) THEN "empty"
  ELSE IF LastOf(s, FetchErrors) # "none"
       THEN IF Tried(k) /\ LastOf(s, FetchErrors) = "cooled" THEN "skip" ELSE "transient"
  ELSE IF LastOf(s, {"refused", "unpaced"}) = "refused" THEN "skip" ELSE "transient"
\* Mutant: a refusal at the gate is a failure like any other.
RefusalFails(k, s) ==
  IF Answered(k, s) THEN "done"
  ELSE IF k = OhlcRange /\ ~Heard(s, FetchErrors) THEN "empty" ELSE "transient"
\* What the worker makes of a walk.  Only chain_try's callers look whether the
\* error is a pacer's; those of the OHLC chains take every error for transient.
Verdict(k, s) ==
  IF Answered(k, s) THEN "done"
  ELSE IF LastOf(s, FetchErrors) # "none"
       THEN IF Tried(k) /\ LastOf(s, FetchErrors) = "cooled" THEN "skip" ELSE "transient"
  ELSE IF k = OhlcRange THEN "empty"
  ELSE IF LastOf(s, {"refused", "unpaced"}) = "refused" THEN "skip" ELSE "transient"

\* record_chain_success, record_chain_all_failed and observe_chain_records.
Evidence(s) ==
  IF Heard(s, Successes) THEN FALSE
  ELSE IF Heard(s, FetchErrors) THEN TRUE ELSE alldown

-----------------------------------------------------------------------------
ChainInit ==
  /\ refused = {} /\ down = {}
  /\ step = [w \in Workers |-> "idle"]
  /\ kind = [w \in Workers |-> Ohlc]
  /\ at = [w \in Workers |-> 1]
  /\ said = [w \in Workers |-> Unasked]
  /\ result = [w \in Workers |-> "none"]
  /\ failing = {} /\ quiet = [p \in Providers |-> Threshold] /\ alldown = FALSE
  /\ upsets = 0

\* A work item.  Without a capable provider it fails at once.
Begin(w, k) ==
  /\ step[w] = "idle"
  /\ kind' = Put(kind, w, k)
  /\ said' = Put(said, w, Unasked)
  /\ IF Capable(k) = {}
     THEN /\ result' = Put(result, w, "permanent")
          /\ UNCHANGED <<step, at>>
     ELSE /\ result' = Put(result, w, "none")
          /\ step' = Put(step, w, IF Tried(k) THEN "gate" ELSE "outer")
          /\ at' = Put(at, w, Least(Capable(k)))
  /\ UNCHANGED <<outside, registry, upsets>>

\* The call ends with r.
End(w, r) ==
  /\ step' = Put(step, w, "idle")
  /\ result' = Put(result, w, r)

\* The slot an OHLC worker takes on the first capable provider, whoever serves.
Outer(w) ==
  /\ step[w] = "outer"
  /\ \/ Chain[at[w]] \in refused /\ End(w, "skip") /\ UNCHANGED upsets
     \/ Upset /\ End(w, "transient")
     \/ Chain[at[w]] \notin refused /\ step' = Put(step, w, "fetch") /\ UNCHANGED <<result, upsets>>
  /\ UNCHANGED <<outside, kind, at, said, registry>>

\* The provider in turn said a: go on with the next one, or end the walk.
Hear(w, a) ==
  LET s    == [said[w] EXCEPT ![Chain[at[w]]] = a]
      rest == Later(kind[w], at[w])
  IN  /\ said' = Put(said, w, s)
      /\ IF Answered(kind[w], s) \/ rest = {}
         THEN /\ End(w, Verdict(kind[w], s))
              /\ alldown' = Evidence(s)
              /\ UNCHANGED at
         ELSE /\ at' = Put(at, w, Least(rest))
              /\ step' = Put(step, w, IF Tried(kind[w]) THEN "gate" ELSE "fetch")
              /\ UNCHANGED <<result, alldown>>

\* chain_try: the slot on the provider about to be asked.
Gate(w) ==
  /\ step[w] = "gate"
  /\ \/ Chain[at[w]] \in refused /\ Hear(w, "refused") /\ UNCHANGED upsets
     \/ Upset /\ Hear(w, "unpaced")
     \/ /\ Chain[at[w]] \notin refused
        /\ step' = Put(step, w, "fetch")
        /\ UNCHANGED <<at, said, result, alldown, upsets>>
  /\ UNCHANGED <<outside, kind, failing, quiet>>

\* Mutant: a success does not reset the streak.
StreakKept(p, a) ==
  /\ failing' = IF a = "network" THEN failing \cup {p} ELSE failing
  /\ quiet' = IF a \in Successes THEN [quiet EXCEPT ![p] = 0] ELSE quiet
\* record_provider_success and record_provider_network_failure.
Record(p, a) ==
  /\ failing' = IF a = "network" THEN failing \cup {p}
                ELSE IF a \in Successes THEN failing \ {p} ELSE failing
  /\ quiet' = IF a \in Successes THEN [quiet EXCEPT ![p] = 0] ELSE quiet

\* The request: the provider takes a slot of its own, so it may be refused now
\* although the gate let it pass; a 429 closes it for everyone.
Fetch(w) ==
  LET p == Chain[at[w]] IN
  /\ step[w] = "fetch"
  /\ \E a \in FetchErrors \cup Successes :
       /\ Hear(w, a) /\ Record(p, a)
       /\ \/ p \in refused /\ a = "cooled" /\ UNCHANGED <<refused, upsets>>
          \/ /\ p \notin refused /\ p \in down /\ a = "network"
             /\ UNCHANGED <<refused, upsets>>
          \/ /\ p \notin refused \cup down
             /\ a = "data" \/ (a = "empty" /\ ~Tried(kind[w]))
             /\ UNCHANGED <<refused, upsets>>
          \/ a = "lost" /\ Upset /\ UNCHANGED refused
          \/ /\ p \notin refused \cup down /\ a = "error" /\ Upset
             /\ refused' \in {refused, refused \cup {p}}
  /\ UNCHANGED <<down, kind>>

Step(w) == Outer(w) \/ Gate(w) \/ Fetch(w)

-----------------------------------------------------------------------------
(* The upstreams, the rest of the fleet and time.                          *)

Refuse(p) == p \notin refused /\ Upset /\ refused' = refused \cup {p} /\ UNCHANGED <<down, call, registry>>
Reopen(p) == p \in refused /\ refused' = refused \ {p} /\ UNCHANGED <<down, call, registry, upsets>>
Outage(p) == p \notin down /\ Upset /\ down' = down \cup {p} /\ UNCHANGED <<refused, call, registry>>
Return(p) == p \in down /\ down' = down \ {p} /\ UNCHANGED <<refused, call, registry, upsets>>

Aged(t)     == IF t < Threshold THEN t + 1 ELSE t

ChainTick ==
  /\ quiet' = [p \in Providers |-> Aged(quiet[p])]
  /\ UNCHANGED <<outside, call, failing, alldown, upsets>>

ChainNext ==
  \/ \E w \in Workers : Step(w) \/ \E k \in Kinds : Begin(w, k)
  \/ \E p \in Providers : Refuse(p) \/ Reopen(p) \/ Outage(p) \/ Return(p)
  \/ ChainTick

ChainSpec == ChainInit /\ [][ChainNext]_chainVars

\* Calls end, since requests are under a timeout; the periodic refresh asks for
\* every kind again; cooldowns run out and outages end.
FairChainSpec ==
  /\ ChainSpec /\ WF_chainVars(ChainTick)
  /\ \A w \in Workers : WF_chainVars(Step(w))
  /\ \A k \in Kinds : SF_chainVars(\E w \in Workers : Begin(w, k))
  /\ \A p \in Providers : WF_chainVars(Reopen(p)) /\ WF_chainVars(Return(p))

-----------------------------------------------------------------------------
(* Properties.                                                             *)

\* The type of the state.
ChainTypeOK ==
  /\ refused \subseteq Providers /\ down \subseteq Providers /\ failing \subseteq Providers
  /\ step \in [Workers -> {"idle", "outer", "gate", "fetch"}]
  /\ kind \in [Workers -> Kinds] /\ at \in [Workers -> Positions \cup {1}]
  /\ said \in [Workers -> [Providers -> Answers]] /\ result \in [Workers -> Results]
  /\ quiet \in [Providers -> 0..Threshold] /\ alldown \in BOOLEAN
  /\ upsets \in 0..MaxUpsets

\* "No data" is never inferred from an error: a range call comes back empty, which
\* lets the backfill skip history, only after every capable provider said so.
EmptyIsProven ==
  \A w \in Workers : result[w] = "empty" => \A p \in Supports[OhlcRange] : said[w][p] = "empty"

\* Nobody is passed over: a provider is asked only after every capable one before it
\* declined, and a chain_try that fails has asked or found refused all of them.
InOrder ==
  \A w \in Workers, m, n \in Positions :
    LET k == kind[w] s == said[w] IN
    /\ m < n /\ m \in Capable(k) /\ s[Chain[n]] # "none" => s[Chain[m]] \notin {"none", "data"}
    /\ (Tried(k) /\ result[w] \in {"skip", "transient"} /\ m \in Capable(k)) => s[Chain[m]] # "none"

\* What a chain returns is earned: nobody before the answer was passed over, and nothing
\* found means that everybody looked.
AnswersAreEarned == EmptyIsProven /\ InOrder

\* Somebody failed: a provider, or the pacer itself.
Cause(s) == Heard(s, (FetchErrors \cup {"unpaced"}) \ {"cooled"})

\* Backpressure at the gate is free: chain_try's caller is charged an attempt only
\* when a provider or the pacer itself failed, never for refusals alone.
ChargedForCause ==
  \A w \in Workers : Tried(kind[w]) /\ result[w] = "transient" => Cause(said[w])

\* What the comment of DispatchError says of every call: backpressure never consumes the
\* retry budget.  The cooldown that a provider meets inside an OHLC chain does.
BackpressureIsFree ==
  \A w \in Workers : result[w] = "transient" /\ Heard(said[w], {"cooled"}) => Cause(said[w])

\* provider_unreachable_active.
Unreachable(p) == p \in failing /\ quiet[p] >= Threshold

\* Once the upstreams work again the registry says so: neither the chain nor a
\* provider that is the first one for some kind stays marked.
RegistryRecovers ==
  /\ <>[]~alldown
  /\ \A k \in Kinds : Capable(k) # {} => <>[]~Unreachable(Chain[Least(Capable(k))])
=============================================================================
