------------------------------ MODULE CoinStore ------------------------------
(***************************************************************************)
(* What makes a coin's rows: the registration (src/api/coins.rs) and the   *)
(* dispatches of its queue items (dispatch_item in collection_queue.rs,    *)
(* src/db/upserts.rs), with the notifications that Push carries on.        *)
(*                                                                         *)
(* One coin.  Every statement, or transaction, is a step.  Dispatches of   *)
(* one key overlap when a lease was lost, so any worker may be at any of   *)
(* them; what the queue makes of their verdicts is LeaseQueue's.  Market   *)
(* snapshots and quotes are single upserts like the candles' page.         *)
(***************************************************************************)
EXTENDS Push

CONSTANTS
  Clients, Workers,
  Values,        \* what the provider may say of the coin
  MaxRevisions,  \* bound: revisions after which no more metadata is fetched
  MaxInserts,    \* bound: revisions that were tried to insert
  none

ASSUME StoreAssumption == MaxRevisions \in Nat /\ MaxInserts \in Nat /\ none \notin Values

VARIABLES
  coin,     \* its row is committed
  queued,   \* kinds enqueued at least once
  request,  \* [Clients -> step of a registration]
  job,      \* [Workers -> [at, val, rev, stamp]]
  meta,     \* coin_metadata by revision: [val, since]
  moment,   \* now(): the INSERTs of revisions so far, each later than the one before
  born      \* history: registrations answered 201

storeVars == <<coin, queued, request, job, meta, moment, born>>
vars      == <<storeVars, pushVars>>

InitialKinds == {"metadata", "market", "candles"}
NoJob == [at |-> "idle", val |-> none, rev |-> 0, stamp |-> 0]

Init ==
  /\ coin = FALSE /\ queued = {} /\ meta = <<>> /\ moment = 0 /\ born = 0
  /\ request = [q \in Clients |-> "insert"]
  /\ job = [w \in Workers |-> NoJob]
  /\ PushInit

-----------------------------------------------------------------------------
(* register_coin: one transaction.                                         *)

Step(q, at) == request' = [request EXCEPT ![q] = at]

\* INSERT .. ON CONFLICT DO NOTHING RETURNING waits for a transaction that inserted the
\* same key; on a conflict the row is read and given with 200.
Insert(q) ==
  /\ request[q] = "insert" /\ \A p \in Clients : request[p] # "enqueue"
  /\ Step(q, IF coin THEN "answered" ELSE "enqueue")
  /\ UNCHANGED <<coin, queued, job, meta, moment, born, pushVars>>

\* The three enqueues and the commit, or the rollback of them all.
CommitRegister(q) ==
  /\ request[q] = "enqueue" /\ Step(q, "answered")
  /\ \/ coin' = TRUE /\ queued' = InitialKinds /\ born' = born + 1
     \/ UNCHANGED <<coin, queued, born>>
  /\ UNCHANGED <<job, meta, moment, pushVars>>

-----------------------------------------------------------------------------
(* Dispatches.                                                             *)

At(w, step)   == job[w].at = step
Goto(w, step) == job' = [job EXCEPT ![w].at = step]

\* A dispatch of metadata has its answer; a failed one stores nothing.
FetchMetadata(w) ==
  /\ At(w, "idle") /\ "metadata" \in queued /\ Len(meta) < MaxRevisions /\ moment < MaxInserts
  /\ \E v \in Values : job' = [job EXCEPT ![w] = [at |-> "select", val |-> v, rev |-> 0, stamp |-> 0]]
  /\ UNCHANGED <<coin, queued, request, meta, moment, born, pushVars>>

\* upsert_coin_metadata, the SELECT.  An unchanged value only advances last_seen_at, by
\* which nothing is chosen.
ReadLatest(w) ==
  /\ At(w, "select")
  /\ LET same == meta # <<>> /\ Last(meta).val = job[w].val IN
     job' = IF same THEN [job EXCEPT ![w] = NoJob]
            ELSE [job EXCEPT ![w] = [@ EXCEPT !.at = "insert", !.rev = Len(meta) + 1]]
  /\ UNCHANGED <<coin, queued, request, meta, moment, born, pushVars>>

\* The INSERT begins, and with it its transaction: first_seen_at is that now().
StampRevision(w) ==
  /\ At(w, "insert") /\ moment < MaxInserts /\ moment' = moment + 1
  /\ job' = [job EXCEPT ![w] = [@ EXCEPT !.at = "write", !.stamp = moment']]
  /\ UNCHANGED <<coin, queued, request, meta, born, pushVars>>

\* Mutant: the insert takes whatever revision is free.
WriteNext(w) ==
  /\ At(w, "write")
  /\ meta' = Append(meta, [val |-> job[w].val, since |-> job[w].stamp])
  /\ job' = [job EXCEPT ![w] = NoJob]
  /\ UNCHANGED <<coin, queued, request, moment, born, pushVars>>
\* It commits, or fails on the primary key when another worker wrote the revision first,
\* and the item is tried again.
WriteRevision(w) ==
  /\ At(w, "write")
  /\ meta' = IF job[w].rev = Len(meta) + 1
             THEN Append(meta, [val |-> job[w].val, since |-> job[w].stamp]) ELSE meta
  /\ job' = [job EXCEPT ![w] = NoJob]
  /\ UNCHANGED <<coin, queued, request, moment, born, pushVars>>

\* get_metadata: the revision a client is shown, now or as of an instant.
Latest == Len(meta)
\* The greatest first_seen_at that is not later.
AsOf(t) ==
  LET known == {r \in DOMAIN meta : meta[r].since <= t} IN
  IF known = {} THEN 0 ELSE CHOOSE r \in known : \A q \in known : meta[q].since <= meta[r].since

\* A page of candles, or a quote, and its notification in one transaction.
Publish ==
  /\ "candles" \in queued /\ Notify
  /\ UNCHANGED storeVars

-----------------------------------------------------------------------------
Registers == \E q \in Clients : Insert(q) \/ CommitRegister(q)
Revises   == \E w \in Workers : FetchMetadata(w) \/ ReadLatest(w) \/ StampRevision(w) \/ WriteRevision(w)
Pushes    == Publish \/ (PushNext /\ UNCHANGED storeVars)

Next == Registers \/ Revises \/ Pushes

FairSpec == Init /\ [][Next]_vars /\ PushFairness

-----------------------------------------------------------------------------
(* Properties.                                                             *)

TypeOK ==
  /\ coin \in BOOLEAN /\ queued \subseteq InitialKinds /\ born \in Nat
  /\ request \in [Clients -> {"insert", "enqueue", "answered"}]
  /\ job \in [Workers -> [at : {"idle", "select", "insert", "write"}, val : Values \cup {none}, rev : Nat, stamp : 0..moment]]
  /\ meta \in Seq([val : Values, since : 0..moment]) /\ moment \in 0..MaxInserts
  /\ PushTypeOK

\* However registrations of one coin race and break off, one transaction creates it, and
\* with it all that collects it (REQ-API-407/408).
CreatedOnce == /\ born = IF coin THEN 1 ELSE 0
               /\ coin => queued = InitialKinds

\* A revision differs from the one before it, although reading the latest and writing
\* the next are two statements and a worker that lost its row may be between them
\* (upsert_coin_metadata, REQ-DB-021).
RevisionsDiffer == \A r \in DOMAIN meta \ {1} : meta[r].val # meta[r - 1].val

\* The two reads of the metadata agree: what is shown as of now is the latest revision,
\* although one orders by the revision, which a worker computes, and the other by the time,
\* which the INSERT takes when it begins (get_metadata, REQ-API-050).
AsOfNowIsLatest == AsOf(moment) = Latest

\* The history of a coin is the one that happened: created once, each revision a change,
\* the latest revision that of now.
StoreIsSound == CreatedOnce /\ RevisionsDiffer /\ AsOfNowIsLatest
=============================================================================
