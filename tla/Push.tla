-------------------------------- MODULE Push --------------------------------
(***************************************************************************)
(* From the commit of a row to a client's WebSocket: pg_notify in the      *)
(* transaction of the upsert (src/db/upserts.rs), the LISTEN relay of a    *)
(* replica (src/listener.rs), its broadcast channel (src/main.rs) and the  *)
(* sockets (src/api/websocket.rs).  A notification is named by its place   *)
(* in the order of commits.                                                *)
(***************************************************************************)
EXTENDS Naturals, SequencesExt

CONSTANTS
  Sockets,    \* clients of the stream
  Capacity,   \* of the broadcast channel
  MaxCommits, \* bound: notifications
  MaxDrops    \* bound: losses of the LISTEN connection

ASSUME PushAssumption == Capacity \in Nat \ {0} /\ MaxCommits \in Nat /\ MaxDrops \in Nat

VARIABLES
  commits,  \* notifications committed so far
  relay,    \* "down": not subscribed; "up"; "stopped" by the shutdown
  inbox,    \* notifications the subscribed connection has yet to hand over
  sent,     \* all the channel was sent, in order; it keeps the last Capacity
  socket,   \* [Sockets -> "none", "open", "closed"]
  next,     \* [Sockets -> the receiver's position in sent]
  got,      \* [Sockets -> what the client received]
  lost,     \* history: notifications that met no subscribed relay, or died with it
  lagged,   \* history: sockets the channel has overtaken
  drops     \* budget used

pushVars == <<commits, relay, inbox, sent, socket, next, got, lost, lagged, drops>>

PushInit ==
  /\ commits = 0 /\ relay = "down" /\ inbox = <<>> /\ sent = <<>>
  /\ socket = [s \in Sockets |-> "none"]
  /\ next = [s \in Sockets |-> 1]
  /\ got = [s \in Sockets |-> <<>>]
  /\ lost = {} /\ lagged = {} /\ drops = 0

\* The upsert's transaction commits its pg_notify: whoever listens will get it.
Notify ==
  /\ commits < MaxCommits /\ commits' = commits + 1
  /\ IF relay = "up" THEN inbox' = Append(inbox, commits') /\ UNCHANGED lost
                     ELSE lost' = lost \cup {commits'} /\ UNCHANGED inbox
  /\ UNCHANGED <<relay, sent, socket, next, got, lagged, drops>>

-----------------------------------------------------------------------------
(* The relay.                                                              *)

\* connect_with and listen; a failure is an Err, and the supervisor tries again.
Listen ==
  /\ relay = "down" /\ relay' = "up"
  /\ UNCHANGED <<commits, inbox, sent, socket, next, got, lost, lagged, drops>>

\* The connection breaks; what is notified until it listens again is not kept.
Drop ==
  /\ relay = "up" /\ drops < MaxDrops /\ drops' = drops + 1
  /\ relay' = "down" /\ inbox' = <<>> /\ lost' = lost \cup ToSet(inbox)
  /\ UNCHANGED <<commits, sent, socket, next, got, lagged>>

\* Mutant: the relay passes the newest notification on and forgets the others.
RelayNewest ==
  /\ relay = "up" /\ inbox # <<>>
  /\ sent' = Append(sent, Last(inbox)) /\ inbox' = <<>>
  /\ UNCHANGED <<commits, relay, socket, next, got, lost, lagged, drops>>
\* recv: one notification into the channel.  Without a receiver the send fails,
\* which is ignored: a receiver starts behind what was sent.
Relay ==
  /\ relay = "up" /\ inbox # <<>>
  /\ sent' = Append(sent, Head(inbox)) /\ inbox' = Tail(inbox)
  /\ UNCHANGED <<commits, relay, socket, next, got, lost, lagged, drops>>

\* The biased select! takes the shutdown before any notification.
StopRelay ==
  /\ relay # "stopped" /\ relay' = "stopped"
  /\ inbox' = <<>> /\ lost' = lost \cup ToSet(inbox)
  /\ UNCHANGED <<commits, sent, socket, next, got, lagged, drops>>

-----------------------------------------------------------------------------
(* A socket.                                                               *)

\* subscribe comes before the upgrade is answered.
Subscribe(s) ==
  /\ socket[s] = "none" /\ socket' = [socket EXCEPT ![s] = "open"]
  /\ next' = [next EXCEPT ![s] = Len(sent) + 1]
  /\ UNCHANGED <<commits, relay, inbox, sent, got, lost, lagged, drops>>

Behind(s)    == socket[s] = "open" /\ next[s] <= Len(sent)
Overtaken(s) == Len(sent) - next[s] >= Capacity

\* Lagged: the receiver goes on with the oldest payload the channel still has.
Lag(s) ==
  /\ Behind(s) /\ Overtaken(s)
  /\ next' = [next EXCEPT ![s] = Len(sent) - Capacity + 1]
  /\ lagged' = lagged \cup {s}
  /\ UNCHANGED <<commits, relay, inbox, sent, socket, got, lost, drops>>

\* Mutant: a lagged receiver ends the stream's progress.
ForwardUnlessLate(s) ==
  /\ Behind(s) /\ ~Overtaken(s) /\ s \notin lagged
  /\ got' = [got EXCEPT ![s] = Append(@, sent[next[s]])]
  /\ next' = [next EXCEPT ![s] = @ + 1]
  /\ UNCHANGED <<commits, relay, inbox, sent, socket, lost, lagged, drops>>
Forward(s) ==
  /\ Behind(s) /\ ~Overtaken(s)
  /\ got' = [got EXCEPT ![s] = Append(@, sent[next[s]])]
  /\ next' = [next EXCEPT ![s] = @ + 1]
  /\ UNCHANGED <<commits, relay, inbox, sent, socket, lost, lagged, drops>>

\* A Close frame, an error, a payload or a ping that cannot be sent.
Close(s) ==
  /\ socket[s] = "open" /\ socket' = [socket EXCEPT ![s] = "closed"]
  /\ UNCHANGED <<commits, relay, inbox, sent, next, got, lost, lagged, drops>>

Deliver(s) == Lag(s) \/ Forward(s)

PushNext == \/ Listen \/ Drop \/ Relay \/ StopRelay
            \/ \E s \in Sockets : Subscribe(s) \/ Deliver(s) \/ Close(s)

PushSpec == PushInit /\ [][Notify \/ PushNext]_pushVars

\* The relay and the sockets run, and a supervisor does not give up.
PushFairness == WF_pushVars(Listen) /\ WF_pushVars(Relay)
                /\ \A s \in Sockets : WF_pushVars(Deliver(s))

-----------------------------------------------------------------------------
PushTypeOK ==
  /\ commits \in 0..MaxCommits /\ relay \in {"down", "up", "stopped"}
  /\ inbox \in Seq(1..commits) /\ sent \in Seq(1..commits)
  /\ socket \in [Sockets -> {"none", "open", "closed"}]
  /\ next \in [Sockets -> 1..(Len(sent) + 1)]
  /\ got \in [Sockets -> Seq(1..commits)]
  /\ lost \subseteq 1..commits /\ lagged \subseteq Sockets /\ drops \in 0..MaxDrops

\* A client sees notifications in the order of their commits and none twice, across
\* reconnections of the relay and lags of the channel (listener.rs, websocket.rs).
StreamInOrder ==
  \A s \in Sockets : \A i, j \in DOMAIN got[s] : i < j => got[s][i] < got[s][j]

\* A gap in what a client saw has a cause: the relay was not subscribed, or the channel
\* overtook this client, who was told (the warning on Lagged, websocket.rs).
GapsHaveCause ==
  \A s \in Sockets \ lagged : \A i \in DOMAIN got[s] \ {1} :
    \A n \in (got[s][i - 1] + 1)..(got[s][i] - 1) : n \in lost

\* A socket that stays open catches up with everything the relay took in, however
\* often it lags (SPEC-API-002 REQ-API-148).
SocketsCatchUp ==
  \A s \in Sockets :
    socket[s] = "open" ~> socket[s] = "closed" \/ (inbox = <<>> /\ ~Behind(s))

\* The stream of a client is that of the commits: in their order, none twice, and none
\* missing but for a cause (run_relay, quotes_ws).
StreamIsSound == StreamInOrder /\ GapsHaveCause
=============================================================================
