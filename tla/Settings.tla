------------------------------- MODULE Settings -------------------------------
(***************************************************************************)
(* How a process reads its environment (src/config.rs), and the three      *)
(* things that come of it later: the poll interval of a coin, which        *)
(* operators change and three parts read (api/poll_interval.rs,            *)
(* api/coins.rs), the cooldown that a 429 asks for, and the time an alarm  *)
(* lives unless it is raised again.                                        *)
(*                                                                         *)
(* A variable is Absent, Junk that does not parse, or a number.  A process *)
(* keeps its environment until it ends; the next may have another.         *)
(***************************************************************************)
EXTENDS Integers, SequencesExt

CONSTANTS
  Absent, Junk, NULL,
  Environments,  \* bound: those a process may be started in
  Amounts,       \* bound: the numbers in what clients ask for
  MaxParts       \* bound: and how many of them

\* The variables of the scheduler and the clients of upstreams, with their defaults.
Scheduling ==
  [LIVE_QUOTE_POLL_INTERVAL_SECS |-> 60, LIVE_POLL_MIN_INTERVAL_SECS |-> 5, LIVE_POLL_MAX_INTERVAL_SECS |-> 3600,
   LIVE_POLL_CLAIM_TTL_SECS |-> 120, LIVE_POLL_CLAIM_BATCH_LIMIT |-> 50,
   COLLECTION_LEASE_SECONDS |-> 120, COLLECTION_HEARTBEAT_INTERVAL_SECONDS |-> 30,
   COLLECTION_MAX_ATTEMPTS |-> 5, COLLECTION_IDLE_SLEEP_MS |-> 1000,
   BACKFILL_LEASE_SECONDS |-> 300, BACKFILL_HEARTBEAT_INTERVAL_SECONDS |-> 60,
   BACKFILL_MAX_ATTEMPTS |-> 5, BACKFILL_IDLE_SLEEP_MS |-> 1000,
   METADATA_REFRESH_INTERVAL_SECS |-> 3600, BACKFILL_LOOKBACK_DAYS |-> 3650]
Requests ==
  [PROVIDER_HTTP_TIMEOUT_SECS |-> 30, PROVIDER_HTTP_CONNECT_TIMEOUT_SECS |-> 10]
Observability ==
  [SHUTDOWN_GRACE_SECONDS |-> 15, SHUTDOWN_DRAIN_SECONDS |-> 30, TRACKED_GAUGE_INTERVAL_SECS |-> 30]
\* Of the alarm center: the conditions and how long, how often or how many it takes.
Alarms ==
  [ALARM_CENTER_TIMEOUT_MS |-> 5000, ALARM_CENTER_MAX_RETRIES |-> 3, ALARM_RECONCILE_INTERVAL_SECS |-> 30,
   ALARM_PROVIDER_UNREACHABLE_SECS |-> 300, ALARM_ALL_PROVIDERS_DOWN_SECS |-> 180, ALARM_DB_UNREACHABLE_SECS |-> 60,
   ALARM_QUEUE_FAILED_THRESHOLD |-> 10, ALARM_QUEUE_FAILED_WINDOW_SECS |-> 3600,
   ALARM_BACKFILL_FAILED_THRESHOLD |-> 10, ALARM_BACKFILL_FAILED_WINDOW_SECS |-> 3600]
AlarmsMore ==
  [ALARM_BACKFILL_STALL_SECS |-> 3600, ALARM_WORKER_CRASHLOOP_THRESHOLD |-> 3, ALARM_WORKER_CRASHLOOP_WINDOW_SECS |-> 300,
   ALARM_COIN_STALENESS_SECS |-> 900, ALARM_COINS_STALLED_THRESHOLD |-> 5, ALARM_DB_POOL_SATURATION_SECS |-> 60,
   ALARM_UPSERT_FAILURE_STREAK |-> 20]
And(f, g) == [v \in DOMAIN f \cup DOMAIN g |-> IF v \in DOMAIN f THEN f[v] ELSE g[v]]
Default == And(Scheduling, And(Requests, And(Observability, And(Alarms, AlarmsMore))))
CooldownDefault == 500
\* SUPERVISE_MAX_BACKOFF; the seconds a poll of a coin is reckoned with.
MaxBackoffSecs == 30
PollCost == 2

Plain == DOMAIN Default   \* read with parse_env_*
Names == Plain \cup {"ALARM_CENTER_URL", "COINGECKO_TIER", "COINGECKO_BASE_URL", "PROVIDERS", "DATABASE_URL", "DB_HOST", "PACER_COOLDOWN_MS", "ALARM_TTL_SECS"}
Unset == [v \in Names |-> Absent]

\* A number is of the width its variable is read with; beyond all of them is Beyond.
Beyond == 1000000
Signed ==
  {"LIVE_QUOTE_POLL_INTERVAL_SECS", "LIVE_POLL_CLAIM_TTL_SECS", "LIVE_POLL_CLAIM_BATCH_LIMIT", "COLLECTION_LEASE_SECONDS",
   "BACKFILL_LEASE_SECONDS", "COLLECTION_MAX_ATTEMPTS", "BACKFILL_MAX_ATTEMPTS"}
Parses(n, v) == n \in Int /\ n < Beyond /\ (v \notin Signed => n >= 0)

ASSUME SettingsAssumption ==
  /\ Amounts \subseteq Nat /\ MaxParts \in Nat
  /\ \A e \in Environments :
       /\ DOMAIN e = Names
       /\ \A v \in Plain \cup {"PACER_COOLDOWN_MS", "ALARM_TTL_SECS"} :
            e[v] \in {Absent, Junk} \/ Parses(e[v], v)

VARIABLES
  life,      \* "down", "up", or "aborted" at its start
  env,
  client,    \* what start made for CoinGecko: [host, header, range, timeout]
  stored,    \* live_poll_interval of the coin, in seconds, or NULL
  theirs,    \* history: the process that accepted it is still up
  cooldown,  \* of the provider, in the database
  since,     \* at the last tick of the reconciler: time since the alarm was raised, NULL
             \* while there is none
  missed     \* history: the last sweep was missed

setVars == <<life, env, client, stored, theirs, cooldown, since, missed>>

-----------------------------------------------------------------------------
(* Conversions.                                                            *)

\* parse_env_value, with the warning left out.
Setting(e, v) == IF e[v] \in {Absent, Junk} THEN Default[v] ELSE e[v]

\* resolve_positive_secs.
PositiveSecs(e, v) == IF Setting(e, v) > 0 THEN Setting(e, v) ELSE Default[v]

Tier(e) == IF e["COINGECKO_TIER"] = Absent THEN "demo" ELSE e["COINGECKO_TIER"]
Paid(t) == t # "demo"
\* Mutant: pro is the one tier that pays (F-21).
PaidIsPro(t) == IF t = "pro" THEN "pro" ELSE "demo"
KeyHeader(t) == IF Paid(t) THEN "pro" ELSE "demo"
BaseUrl(e) ==
  IF e["COINGECKO_BASE_URL"] # Absent THEN "override" ELSE IF Paid(Tier(e)) THEN "pro" ELSE "demo"

\* alarm_ttl_secs: as written, or two and a half sweeps, rounded up.
Ttl(e) ==
  IF e["ALARM_TTL_SECS"] \in {Absent, Junk} THEN (5 * Setting(e, "ALARM_RECONCILE_INTERVAL_SECS") + 1) \div 2 ELSE e["ALARM_TTL_SECS"]

\* parse_hms adds the parts up, in whatever order they stand.
Units == [h |-> 3600, m |-> 60, s |-> 1]
Worth(part) == part[1] * Units[part[2]]
Parse(parts) ==
  LET sum[n \in 0..Len(parts)] == IF n = 0 THEN 0 ELSE sum[n - 1] + Worth(parts[n])
  IN sum[Len(parts)]

\* PostgreSQL prints HH:MM:SS; normalize_pg_interval and duration_to_string leave out the
\* parts that are zero, except when all are.
Part(n, unit) == IF n > 0 THEN << <<n, unit>> >> ELSE <<>>
Shown(secs) ==
  IF secs = 0 THEN << <<0, "s">> >>
  ELSE Part(secs \div 3600, "h") \o Part((secs % 3600) \div 60, "m") \o Part(secs % 60, "s")

\* The cadence as u64: a negative one is beyond every duration.
Unsigned(n) == IF n < 0 THEN Beyond ELSE n
Floor(e) == Max({Setting(e, "LIVE_POLL_MIN_INTERVAL_SECS"), Unsigned(Setting(e, "LIVE_QUOTE_POLL_INTERVAL_SECS"))})
\* parse_live_poll_duration.
Accepts(e, parts) == Parse(parts) >= Floor(e) /\ Parse(parts) <= Setting(e, "LIVE_POLL_MAX_INTERVAL_SECS")

\* Who reads it: the claim of the poller in SQL, and the collectors from the text.
PollerInterval == IF stored = NULL THEN Setting(env, "LIVE_QUOTE_POLL_INTERVAL_SECS") ELSE stored
CollectorInterval ==
  IF stored # NULL /\ Parse(Shown(stored)) > 0 THEN Parse(Shown(stored)) ELSE Setting(env, "LIVE_QUOTE_POLL_INTERVAL_SECS")

-----------------------------------------------------------------------------
NoClient == [host |-> "none", header |-> "none", range |-> FALSE, timeout |-> 0]

SetInit ==
  /\ life = "down" /\ env = Unset /\ client = NoClient
  /\ stored = NULL /\ theirs = FALSE /\ cooldown = 0
  /\ since = NULL /\ missed = FALSE

\* provider_names: what is listed, or CoinGecko alone.
ChainIsKnown(e) == e["PROVIDERS"] # Junk

\* The database is named, the tier is known even if CoinGecko is not in the chain, and so
\* is every provider.
Readable(e) ==
  /\ e["DATABASE_URL"] # Junk /\ (e["DATABASE_URL"] = "given" \/ e["DB_HOST"] = "given")
  /\ e["COINGECKO_TIER"] # Junk /\ ChainIsKnown(e)

Start(e) ==
  /\ life = "down" /\ env' = e
  /\ life' = IF Readable(e) THEN "up" ELSE "aborted"
  /\ client' = IF Readable(e)
               THEN [host |-> BaseUrl(e), header |-> KeyHeader(Tier(e)), range |-> Paid(Tier(e)),
                     timeout |-> PositiveSecs(e, "PROVIDER_HTTP_TIMEOUT_SECS")]
               ELSE NoClient
  /\ UNCHANGED <<stored, theirs, cooldown, since, missed>>

\* The process is gone, and its ticker with it; the alarm lapses by itself.
Ends ==
  /\ life # "down" /\ life' = "down" /\ env' = Unset /\ client' = NoClient
  /\ theirs' = FALSE /\ since' = NULL /\ missed' = FALSE
  /\ UNCHANGED <<stored, cooldown>>

\* PATCH with an interval, or with null; what is not accepted is a 422.
Update(parts) ==
  /\ life = "up" /\ Accepts(env, parts)
  /\ stored' = Parse(parts) /\ theirs' = TRUE
  /\ UNCHANGED <<life, env, client, cooldown, since, missed>>
ResetInterval ==
  /\ life = "up" /\ stored' = NULL /\ theirs' = FALSE
  /\ UNCHANGED <<life, env, client, cooldown, since, missed>>

\* resolve_pacer_cooldown_ms: the task that met the 429 panics before it signals anything.
SignalCooldown ==
  IF env["PACER_COOLDOWN_MS"] = Junk THEN UNCHANGED cooldown
  ELSE cooldown' = IF env["PACER_COOLDOWN_MS"] = Absent THEN CooldownDefault ELSE env["PACER_COOLDOWN_MS"]
Limited ==
  /\ life = "up" /\ cooldown = 0 /\ SignalCooldown
  /\ UNCHANGED <<life, env, client, stored, theirs, since, missed>>
CooledDown ==
  /\ cooldown > 0 /\ cooldown' = 0
  /\ UNCHANGED <<life, env, client, stored, theirs, since, missed>>

\* Without alarm_center_url there is no reconciler; its ticker cannot have a period of zero.
AlarmsOn == env["ALARM_CENTER_URL"] # Absent
Period   == Setting(env, "ALARM_RECONCILE_INTERVAL_SECS")
Sweeping == life = "up" /\ AlarmsOn /\ Period > 0
Raise ==
  /\ Sweeping /\ since = NULL /\ since' = 0 /\ missed' = FALSE
  /\ UNCHANGED <<life, env, client, stored, theirs, cooldown>>
\* A period later the sweep raises the alarm anew; one that is slow misses its tick.
Sweep ==
  /\ Sweeping /\ since # NULL
  /\ \/ since' = 0 /\ missed' = FALSE
     \/ ~missed /\ missed' = TRUE /\ since' = since + Period
  /\ UNCHANGED <<life, env, client, stored, theirs, cooldown>>

SetNext ==
  \/ \E e \in Environments : Start(e)
  \/ Ends \/ ResetInterval \/ Limited \/ CooledDown \/ Raise \/ Sweep
  \/ \E parts \in BoundedSeq(Amounts \X DOMAIN Units, MaxParts) \ {<<>>} : Update(parts)

SetSpec == SetInit /\ [][SetNext]_setVars

-----------------------------------------------------------------------------
\* The types; no request without a timeout (REQ-PROV-056).
SetTypeOK ==
  /\ life \in {"down", "up", "aborted"} /\ theirs \in BOOLEAN
  /\ IF life = "down" THEN env = Unset ELSE env \in Environments
  /\ stored = NULL \/ stored \in Nat
  /\ cooldown \in Nat /\ (since = NULL \/ since \in Nat) /\ missed \in BOOLEAN
  /\ life = "up" => client.timeout > 0

\* Host, key header and capability come of one tier, which is a known one: no key goes to
\* the host of the other plans, unless the host is overridden (REQ-PROV-068..071, F-21).
TierIsOne ==
  life = "up" =>
    /\ client.header = "pro" <=> client.range
    /\ client.host # "override" => client.host = client.header
    /\ env["COINGECKO_TIER"] # Junk

\* An interval is the same to the poller, which leaves it to SQL, and to the collectors,
\* which read the text of the database; 0 alone is not, which the collectors take for none.
IntervalIsOne == stored # NULL /\ stored > 0 => CollectorInterval = PollerInterval

\* What was accepted can be sent back as it is shown, and polls no faster than the fleet,
\* until a process has other bounds (REQ-API-112/114).
ShownIsAccepted ==
  theirs =>
    Accepts(env, Shown(stored)) /\ PollerInterval >= Setting(env, "LIVE_QUOTE_POLL_INTERVAL_SECS")

\* A cooldown is what the environment says, or the default if it says nothing: never one
\* in place of a value that cannot be read (REQ-OBS-072).
CooldownIsMeant ==
  [][cooldown' > 0 /\ cooldown = 0 =>
       cooldown' = IF env["PACER_COOLDOWN_MS"] = Absent THEN CooldownDefault ELSE env["PACER_COOLDOWN_MS"]]_setVars

\* An alarm outlives a sweep that is missed, up to the next, if its time to live is the default
\* (REQ-ALARM-052/053): at every cadence, one second included.
AlarmOutlivesMiss == since # NULL /\ env["ALARM_TTL_SECS"] \in {Absent, Junk} => since + Period < Ttl(env)

\* What the other parts assume of their limits holds wherever the environment leaves them
\* alone: leases outlive two heartbeats, a batch is done within its claims, the drain is as
\* long as the longest backoff, a deferred coin shows as stalled, and a chain that is down
\* is reported before a provider that is.
LimitsFit ==
  LET Alone(vs) == \A v \in vs : env[v] = Absent
      Of(v) == Setting(env, v)
  IN /\ \A q \in {<<"COLLECTION_LEASE_SECONDS", "COLLECTION_HEARTBEAT_INTERVAL_SECONDS">>, <<"BACKFILL_LEASE_SECONDS", "BACKFILL_HEARTBEAT_INTERVAL_SECONDS">>} :
          Alone({q[1], q[2]}) => Of(q[1]) > 2 * Of(q[2])
     /\ Alone({"LIVE_POLL_CLAIM_TTL_SECS", "LIVE_POLL_CLAIM_BATCH_LIMIT"}) =>
          Of("LIVE_POLL_CLAIM_BATCH_LIMIT") * PollCost < Of("LIVE_POLL_CLAIM_TTL_SECS")
     /\ Alone({"SHUTDOWN_DRAIN_SECONDS"}) => MaxBackoffSecs <= Of("SHUTDOWN_DRAIN_SECONDS")
     /\ Alone({"LIVE_POLL_MAX_INTERVAL_SECS", "ALARM_COIN_STALENESS_SECS"}) =>
          Of("LIVE_POLL_MAX_INTERVAL_SECS") > Of("ALARM_COIN_STALENESS_SECS")
     /\ Alone({"ALARM_ALL_PROVIDERS_DOWN_SECS", "ALARM_PROVIDER_UNREACHABLE_SECS"}) =>
          Of("ALARM_ALL_PROVIDERS_DOWN_SECS") < Of("ALARM_PROVIDER_UNREACHABLE_SECS")

\* Two readers of one setting mean the same by it, and what the parts assume of each other's
\* settings holds, whatever the environment leaves out or misspells.
SettingsAgree ==
  /\ [](SetTypeOK /\ TierIsOne /\ IntervalIsOne /\ ShownIsAccepted /\ AlarmOutlivesMiss /\ LimitsFit)
  /\ CooldownIsMeant
=============================================================================
