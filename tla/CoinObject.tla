----------------------------- MODULE CoinObject -----------------------------
(***************************************************************************)
(* What the /v1/coins endpoints promise of one coin: an object that every  *)
(* request uses at one instant between its arrival and its answer.         *)
(* CoinRequests implements it with the statements of src/api/coins.rs.     *)
(***************************************************************************)
EXTENDS Naturals

CONSTANTS
  Callers, Requests,
  NoCoin,     \* the row of a coin that is not registered
  NoRequest, NoBody,
  MaxFaults   \* bound: answers of 500

VARIABLES
  row,     \* [status, interval, error, due], or NoCoin
  client,    \* [Callers -> [at, req, early, code, body]]
  faults

objVars == <<row, client, faults>>

Rejects(q) == IF ~q.readable THEN 400 ELSE IF q.bad THEN 422 ELSE 0

\* What a client is shown of a row: not when it is due.
View(r) == [status |-> r.status, interval |-> r.interval, error |-> r.error]

\* A request leaves alone what it does not mention; whoever mentions the interval
\* makes the coin due at once.
With(r, q) ==
  [status   |-> IF q.status = "keep" THEN r.status ELSE q.status,
   interval |-> IF q.interval = "keep" THEN r.interval ELSE q.interval,
   error    |-> r.error \/ q.error,
   due      |-> r.due \/ q.interval # "keep"]

Used(r, q) ==
  CASE q.op = "register" /\ r = NoCoin ->
         [status |-> "active", interval |-> q.interval, error |-> FALSE, due |-> TRUE]
    [] q.op = "patch" /\ r # NoCoin -> With(r, q)
    [] q.op = "delete" /\ r # NoCoin -> [r EXCEPT !.status = "paused"]
    [] OTHER -> r

Code(r, q) ==
  IF r = NoCoin THEN IF q.op = "register" THEN 201 ELSE 404
  ELSE IF q.op = "delete" THEN 204 ELSE 200

-----------------------------------------------------------------------------
Quiet == [at |-> "idle", req |-> NoRequest, early |-> FALSE, code |-> 0, body |-> NoBody]

Answer(c, code, body) ==
  client' = [client EXCEPT ![c] =
    [at |-> "answered", req |-> NoRequest, early |-> FALSE, code |-> code, body |-> body]]

ObjInit == row = NoCoin /\ client = [c \in Callers |-> Quiet] /\ faults = 0

\* A request arrives; what cannot be read or is not allowed is answered at once.
Arrives(c) ==
  /\ client[c].at \in {"idle", "answered"}
  /\ \E q \in Requests :
       IF Rejects(q) # 0 THEN Answer(c, Rejects(q), NoBody)
       ELSE client' = [client EXCEPT ![c] =
              [at |-> "asked", req |-> q, early |-> (row = NoCoin), code |-> 0, body |-> NoBody]]
  /\ UNCHANGED <<row, faults>>

\* The request is carried out, once, and sooner or later answered.
CarriedOut(c) ==
  /\ client[c].at = "asked" /\ row' = Used(row, client[c].req)
  /\ \E code \in {Code(row, client[c].req)} :
     \E body \in {IF code \in {200, 201} THEN View(row') ELSE NoBody} :
       \/ Answer(c, code, body)
       \/ client' = [client EXCEPT ![c] =
            [at |-> "taken", req |-> @.req, early |-> @.early, code |-> code, body |-> body]]
  /\ UNCHANGED faults

\* The exception.  A DELETE of a coin that was not there when it came, and is by the time
\* it looks, says 204 without having done anything.
DeletesNothing(c) ==
  /\ client[c].at = "asked" /\ client[c].req.op = "delete" /\ client[c].early /\ row # NoCoin
  /\ Answer(c, 204, NoBody) /\ UNCHANGED <<row, faults>>

Returns(c) ==
  /\ client[c].at = "taken" /\ Answer(c, client[c].code, client[c].body)
  /\ UNCHANGED <<row, faults>>

\* The database fails, or the client hangs up: the request was carried out once, or not.
Broken(c) ==
  \/ client[c].at = "asked" /\ row' \in {row, Used(row, client[c].req)}
  \/ client[c].at = "taken" /\ UNCHANGED row
Fails(c) ==
  /\ Broken(c) /\ faults < MaxFaults /\ faults' = faults + 1
  /\ Answer(c, 500, NoBody)
HangsUp(c) ==
  /\ Broken(c) /\ client' = [client EXCEPT ![c] = Quiet] /\ UNCHANGED faults

\* The live poller claims or polls the coin.
Polls ==
  /\ row # NoCoin /\ row' = [row EXCEPT !.due = FALSE] /\ UNCHANGED <<client, faults>>

\* A request that is refused in the words of the last answer is no step of the object.
ObjNext ==
  \/ \E c \in Callers :
       /\ client'[c] # client[c]
       /\ \/ Arrives(c) \/ CarriedOut(c) \/ DeletesNothing(c)
          \/ Returns(c) \/ Fails(c) \/ HangsUp(c)
  \/ Polls

ObjSpec == ObjInit /\ [][ObjNext]_objVars
=============================================================================
