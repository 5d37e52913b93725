----------------------------- MODULE MCProcess -----------------------------
\* Small instances for TLC of a process: of its life and, in behaviours of its own, of its
\* Settings.
EXTENDS Process, Settings

CONSTANTS worker, relay, p1

\* The environments: what is put on one variable, or on those that meet.
MCEnvironments ==
  {[Unset EXCEPT !["COINGECKO_TIER"] = t, !["COINGECKO_BASE_URL"] = u, !["DB_HOST"] = "given"] :
     t \in {Absent, Junk, "demo", "analyst", "lite", "pro", "enterprise"}, u \in {Absent, "given"}} \cup
  {[Unset EXCEPT !["PROVIDERS"] = p, !["DATABASE_URL"] = d, !["DB_HOST"] = h] :
     p \in {Absent, Junk}, d \in {Absent, Junk, "given"}, h \in {Absent, "given"}} \cup
  {[Unset EXCEPT !["DB_HOST"] = "given", !["PROVIDER_HTTP_TIMEOUT_SECS"] = t, !["PACER_COOLDOWN_MS"] = c] :
     t \in {Junk, 0, 5}, c \in {Absent, Junk, 0, 900}} \cup
  {[Unset EXCEPT !["DB_HOST"] = "given", !["LIVE_QUOTE_POLL_INTERVAL_SECS"] = g, !["LIVE_POLL_MIN_INTERVAL_SECS"] = n,
                 !["LIVE_POLL_MAX_INTERVAL_SECS"] = x] :
     g \in {Absent, -1, 0, 90}, n \in {Absent, 0}, x \in {Absent, 80, 7200}} \cup
  {[Unset EXCEPT !["DB_HOST"] = "given", !["ALARM_CENTER_URL"] = u,
                 !["ALARM_RECONCILE_INTERVAL_SECS"] = i, !["ALARM_TTL_SECS"] = t] :
     u \in {Absent, "given"}, i \in {Junk, 0, 1, 2, 3}, t \in {Absent, Junk, 1}}

VARIABLE side   \* "life" or "settings": which of the two takes the steps

EitherVars == <<side, vars, setVars>>
EitherInit == side \in {"life", "settings"} /\ Init /\ SetInit
EitherNext ==
  \/ side = "life" /\ Next /\ UNCHANGED <<side, setVars>>
  \/ side = "settings" /\ SetNext /\ UNCHANGED <<side, vars>>
EitherSpec == EitherInit /\ [][EitherNext]_EitherVars /\ (side = "life" => Fairness)
=============================================================================
