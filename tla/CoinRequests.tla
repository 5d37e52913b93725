---------------------------- MODULE CoinRequests ----------------------------
(***************************************************************************)
(* POST /v1/coins, and GET, PATCH and DELETE of /v1/coins/{coin_id}        *)
(* (src/api/coins.rs) for one coin, as the statements they are made of,    *)
(* with failures of the database and clients that hang up.                 *)
(*                                                                         *)
(* A client that has gone is noticed when the statement in hand ends; the  *)
(* statement may have been carried out.  The enqueues of a registration    *)
(* are CoinStore's, the claims of the coin LivePoller's.                   *)
(***************************************************************************)
EXTENDS Naturals

CONSTANTS
  Callers,
  Requests,                   \* what clients send
  NoCoin, NoRequest, NoBody,
  MaxFaults                   \* bound: statements that fail

Cadences == {"global", "own"}   \* live_poll_interval: NULL, or one of the coin's own
CoinRow  == [status : {"active", "paused", "error"}, interval : Cadences,
             error : BOOLEAN, due : BOOLEAN]
Shown    == [status : {"active", "paused", "error"}, interval : Cadences, error : BOOLEAN]

\* "keep" is a field that is absent; readable, a body that deserializes; bad, a blank id,
\* an unknown status or an interval out of bounds.
Request == [op : {"register", "get", "patch", "delete"}, status : {"keep", "active", "paused", "error"},
            interval : {"keep"} \cup Cadences, error : BOOLEAN, readable : BOOLEAN, bad : BOOLEAN]

ASSUME RequestsAssumption ==
  /\ Requests \subseteq Request /\ \A q \in Requests : q.op = "register" => q.interval # "keep"
  /\ NoCoin \notin CoinRow /\ NoRequest \notin Request /\ NoBody \notin Shown /\ MaxFaults \in Nat

VARIABLES
  row,     \* of tracked_coins, or NoCoin
  client,    \* [Callers -> [at, req, code, body, early, saw]]; early and saw are history:
           \* no row when the request came, and what its first UPDATE met
  faults   \* budget used

reqVars == <<row, client, faults>>

Idle == [at |-> "idle", req |-> NoRequest, code |-> 0, body |-> NoBody, early |-> FALSE, saw |-> "unknown"]

ReqInit == row = NoCoin /\ client = [c \in Callers |-> Idle] /\ faults = 0

-----------------------------------------------------------------------------
(* What the statements and the conversions do.                             *)

\* From<TrackedCoin> for CoinDto.
Dto(r) == [status |-> r.status, interval |-> r.interval, error |-> r.error]

\* The VALUES of the INSERT.
FreshRow(q) == [status |-> "active", interval |-> q.interval, error |-> FALSE, due |-> TRUE]

\* COALESCE of status and error; of the interval one of three statements, of which two
\* forget last_polled_at and the claim.
Patched(r, q) ==
  LET status == IF q.status = "keep" THEN r.status ELSE q.status
      error  == r.error \/ q.error
  IN IF q.interval = "keep"
     THEN [status |-> status, interval |-> r.interval, error |-> error, due |-> r.due]
     ELSE [status |-> status, interval |-> q.interval, error |-> error, due |-> TRUE]

\* The extractors' rejections are 400, the validations' 422.
Refusal(q) == IF ~q.readable THEN 400 ELSE IF q.bad THEN 422 ELSE 0

-----------------------------------------------------------------------------
(* The handlers.                                                           *)

FirstStatement(q) ==
  CASE q.op = "register" -> "insert" [] q.op = "get" -> "select"
    [] q.op = "patch" -> "update"    [] q.op = "delete" -> "pause"

On(c, at) == client[c].at = at
To(c, at) == client' = [client EXCEPT ![c].at = at]
Respond(c, code, body) ==
  client' = [client EXCEPT ![c] = [at |-> "answered", req |-> NoRequest, code |-> code, body |-> body,
                                   early |-> FALSE, saw |-> "unknown"]]

\* Extraction and validation, before any statement.
Receive(c) ==
  /\ client[c].at \in {"idle", "answered"}
  /\ \E q \in Requests :
       IF Refusal(q) # 0 THEN Respond(c, Refusal(q), NoBody)
       ELSE client' = [client EXCEPT ![c] = [at |-> FirstStatement(q), req |-> q, code |-> 0, body |-> NoBody,
                                             early |-> (row = NoCoin), saw |-> "unknown"]]
  /\ UNCHANGED <<row, faults>>

\* Mutant: the key of a transaction that has not committed is not waited for.
InsertAtOnce(c) ==
  /\ On(c, "insert") /\ To(c, IF row = NoCoin THEN "commit" ELSE "reselect")
  /\ UNCHANGED <<row, faults>>
\* ON CONFLICT DO NOTHING, which waits for the transaction that inserted the same key.
InsertCoin(c) ==
  /\ On(c, "insert") /\ \A d \in Callers : ~On(d, "commit")
  /\ To(c, IF row = NoCoin THEN "commit" ELSE "reselect")
  /\ UNCHANGED <<row, faults>>

\* The enqueues and the COMMIT.
Commit(c) ==
  /\ On(c, "commit") /\ row' = FreshRow(client[c].req)
  /\ Respond(c, 201, Dto(row')) /\ UNCHANGED faults

\* The conflict: the row is read, and then the transaction committed.
Reselect(c) ==
  /\ On(c, "reselect")
  /\ client' = [client EXCEPT ![c] = [@ EXCEPT !.at = "close", !.code = 200, !.body = Dto(row)]]
  /\ UNCHANGED <<row, faults>>
CloseRead(c) ==
  /\ On(c, "close") /\ Respond(c, client[c].code, client[c].body) /\ UNCHANGED <<row, faults>>

Select(c) ==
  /\ On(c, "select")
  /\ IF row = NoCoin THEN Respond(c, 404, NoBody) ELSE Respond(c, 200, Dto(row))
  /\ UNCHANGED <<row, faults>>

Update(c) ==
  /\ On(c, "update")
  /\ row' = IF row = NoCoin THEN NoCoin ELSE Patched(row, client[c].req)
  /\ IF row = NoCoin THEN Respond(c, 404, NoBody) ELSE Respond(c, 200, Dto(row'))
  /\ UNCHANGED faults

\* DELETE's UPDATE, and the look after one that met no row to pause.
Pausable == row # NoCoin /\ row.status # "paused"
Pause(c) ==
  /\ On(c, "pause")
  /\ IF Pausable
     THEN row' = [row EXCEPT !.status = "paused"] /\ Respond(c, 204, NoBody)
     ELSE /\ client' = [client EXCEPT ![c] =
                [@ EXCEPT !.at = "recheck", !.saw = IF row = NoCoin THEN "absent" ELSE "paused"]]
          /\ UNCHANGED row
  /\ UNCHANGED faults
Recheck(c) ==
  /\ On(c, "recheck") /\ Respond(c, IF row = NoCoin THEN 404 ELSE 204, NoBody)
  /\ UNCHANGED <<row, faults>>

-----------------------------------------------------------------------------
(* What goes wrong, and who else writes the row.                           *)

\* The row when the statement at hand is carried out.
Done(c) ==
  CASE On(c, "commit") -> FreshRow(client[c].req)
    [] On(c, "update") /\ row # NoCoin -> Patched(row, client[c].req)
    [] On(c, "pause") /\ Pausable -> [row EXCEPT !.status = "paused"]
    [] OTHER -> row

InHand(c) == client[c].at \notin {"idle", "answered"}

\* A statement's error is a 500; of some it is not known whether they were carried out.
StatementFails(c) ==
  /\ InHand(c) /\ faults < MaxFaults /\ faults' = faults + 1
  /\ row' \in {row, Done(c)} /\ Respond(c, 500, NoBody)

HangUp(c) ==
  /\ InHand(c) /\ row' \in {row, Done(c)} /\ client' = [client EXCEPT ![c] = Idle]
  /\ UNCHANGED faults

\* The live poller claims the coin, or has polled it.
PollerWrites ==
  /\ row # NoCoin /\ row' = [row EXCEPT !.due = FALSE] /\ UNCHANGED <<client, faults>>

Handle(c) ==
  \/ Receive(c)
  \/ InsertCoin(c) \/ Commit(c) \/ Reselect(c) \/ CloseRead(c)
  \/ Select(c) \/ Update(c) \/ Pause(c) \/ Recheck(c)
  \/ StatementFails(c) \/ HangUp(c)

ReqNext == (\E c \in Callers : Handle(c)) \/ PollerWrites

ReqSpec == ReqInit /\ [][ReqNext]_reqVars

-----------------------------------------------------------------------------
Steps == {"idle", "insert", "commit", "reselect", "close", "select", "update", "pause", "recheck", "answered"}

\* Every variable keeps its type; a row comes back in an answer of 200 or 201 only.
ReqTypeOK ==
  /\ row \in CoinRow \cup {NoCoin} /\ faults \in 0..MaxFaults
  /\ client \in [Callers -> [at : Steps, req : Requests \cup {NoRequest}, code : {0, 200, 201, 204, 400, 404, 422, 500},
                           body : Shown \cup {NoBody}, early : BOOLEAN, saw : {"unknown", "absent", "paused"}]]
  /\ \A c \in Callers : client[c].body # NoBody => client[c].code \in {200, 201}

-----------------------------------------------------------------------------
(* The refinement of CoinObject.  A request was carried out once its       *)
(* answer is settled: when the row was read again, or when a DELETE met a  *)
(* coin that was paused already.                                           *)

Carried(c) == On(c, "close") \/ (On(c, "recheck") /\ client[c].saw = "paused")

ObjectCall(c) ==
  [at |-> IF ~InHand(c) THEN client[c].at ELSE IF Carried(c) THEN "taken" ELSE "asked",
   req |-> client[c].req, early |-> client[c].early,
   code |-> IF On(c, "recheck") /\ Carried(c) THEN 204 ELSE client[c].code, body |-> client[c].body]

Object == INSTANCE CoinObject WITH client <- [c \in Callers |-> ObjectCall(c)]

\* However requests overlap, fail and break off, each is carried out at one instant between
\* its arrival and its answer, a failed one once or never, and the answer is that instant's;
\* the one exception is CoinObject!DeletesNothing (REQ-API-012/407/408).
RefinesObject == Object!ObjSpec
=============================================================================
