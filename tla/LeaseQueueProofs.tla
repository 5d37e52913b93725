--------------------------- MODULE LeaseQueueProofs ---------------------------
(***************************************************************************)
(* Proofs about LeaseQueue, for any number of replicas, keys, rows, faults *)
(* and attempts.  First types; then every step is shown to touch the table *)
(* in one of five ways (RowStep); the safety and action properties and the *)
(* refinement of WorkLedger follow from that classification.               *)
(***************************************************************************)
EXTENDS LeaseQueue, TLAPS

\* A busy worker has a row in hand.
TypeInv == TypeOK /\ \A r \in Replicas : Busy(r) => item[r] \in Rows

-----------------------------------------------------------------------------
(* The statements map rows to rows.                                        *)

LEMMA EnqueueType ==
  ASSUME NEW row \in Row, NEW k \in Keys PROVE ENQUEUE(row, k) \in Row
BY DEF ENQUEUE, Row, Statuses

LEMMA ClaimType ==
  ASSUME NEW row \in Row, NEW r \in Replicas PROVE CLAIM(row, r) \in Row
<1>1. row.attempts + 1 \in Nat BY DEF Row
<1> QED BY <1>1 DEF CLAIM, Row, Statuses

LEMMA HeartbeatType == ASSUME NEW row \in Row PROVE HEARTBEAT(row) \in Row
BY DEF HEARTBEAT, Row

LEMMA ExpiredType == ASSUME NEW row \in Row PROVE [row EXCEPT !.lease = "expired"] \in Row
BY DEF Row

LEMMA SettleType ==
  ASSUME NEW row \in Row, NEW o \in Outcomes PROVE Settle(row, o) \in Row
<1>1. COMPLETE(row) \in Row BY DEF COMPLETE, Row, Statuses
<1>2. FAIL_OR_RETRY(row) \in Row BY DEF FAIL_OR_RETRY, Row, Statuses
<1>3. RELEASE(row) \in Row
  <2>1. (IF row.attempts > 0 THEN row.attempts - 1 ELSE 0) \in Nat BY DEF Row
  <2> QED BY <2>1 DEF RELEASE, Row, Statuses
<1>4. FAIL_PERMANENT(row) \in Row BY DEF FAIL_PERMANENT, Row, Statuses
<1> QED BY <1>1, <1>2, <1>3, <1>4 DEF Settle, Outcomes

LEMMA InitTypes == Init => TypeInv
<1> SUFFICES ASSUME Init PROVE TypeInv OBVIOUS
<1>1. AbsentRow \in Row BY DEF AbsentRow, Row, Statuses
<1> QED BY <1>1 DEF Init, TypeInv, TypeOK, Busy, Outcomes

LEMMA StepTypes == TypeInv /\ [Next]_vars => TypeInv'
<1> SUFFICES ASSUME TypeInv, [Next]_vars PROVE TypeInv' OBVIOUS
<1> USE DEF TypeInv, TypeOK, Busy, Write, Goto, Fault
<1>1. ASSUME NEW k \in Keys, Enqueue(k) PROVE TypeInv'
  <2>1. queue' \in [Rows -> Row] BY <1>1, EnqueueType DEF Enqueue
  <2> QED BY <1>1, <2>1 DEF Enqueue, wvars, hvars
<1>2. ASSUME NEW i \in Rows, LeaseExpires(i) PROVE TypeInv'
  <2>1. queue' \in [Rows -> Row] BY <1>2, ExpiredType DEF LeaseExpires
  <2> QED BY <1>2, <2>1 DEF LeaseExpires, wvars, hvars
<1>3. ASSUME NEW r \in Replicas, NEW i \in Rows, Claims(i, r)
      PROVE  queue' \in [Rows -> Row] /\ abandoned' \in [Rows -> Nat]
  <2>1. queue' \in [Rows -> Row] BY <1>3, ClaimType DEF Claims
  <2> QED BY <1>3, <2>1 DEF Claims
<1>4. ASSUME NEW r \in Replicas, Claim(r) PROVE TypeInv'
  <2>1. PICK i \in Rows : Claims(i, r) /\ item' = [item EXCEPT ![r] = i]
                          /\ beats' = [beats EXCEPT ![r] = @ \cup {i}]
    BY <1>4 DEF Claim
  <2>2. queue' \in [Rows -> Row] /\ abandoned' \in [Rows -> Nat] BY <1>3, <2>1
  <2> QED BY <1>4, <2>1, <2>2 DEF Claim
<1>5. ASSUME NEW r \in Replicas, ClaimError(r) PROVE TypeInv'
  <2>1. queue' \in [Rows -> Row] /\ abandoned' \in [Rows -> Nat]
    BY <1>3, <1>5 DEF ClaimError
  <2> QED BY <1>5, <2>1 DEF ClaimError
<1>6. ASSUME NEW r \in Replicas, NEW o \in Outcomes, WorkDone(r, o) PROVE TypeInv'
  BY <1>6 DEF WorkDone, hvars
<1>7. ASSUME NEW r \in Replicas, Finalize(r) PROVE TypeInv'
  <2>0. item[r] \in Rows /\ outcome[r] \in Outcomes BY <1>7 DEF Finalize
  <2>1. queue' \in [Rows -> Row]
    <3>1. Settle(queue[item[r]], outcome[r]) \in Row BY <2>0, SettleType
    <3> QED BY <1>7, <2>0, <3>1 DEF Finalize
  <2> QED BY <1>7, <2>1 DEF Finalize, AfterFinalize
<1>8. ASSUME NEW r \in Replicas, NEW i \in Rows, Beat(r, i) PROVE TypeInv'
  <2>1. queue' \in [Rows -> Row] BY <1>8, HeartbeatType DEF Beat
  <2> QED BY <1>8, <2>1 DEF Beat, hvars
<1>9. ASSUME NEW r \in Replicas, NEW i \in Rows, StopBeat(r, i) PROVE TypeInv'
  BY <1>9 DEF StopBeat, hvars
<1>10. ASSUME NEW r \in Replicas, CheckShutdown(r) \/ ClaimNone(r) \/ Resume(r) PROVE TypeInv'
  BY <1>10 DEF CheckShutdown, ClaimNone, Resume, hvars
<1>11. ASSUME NEW r \in Replicas, FinalizeError(r) PROVE TypeInv'
  BY <1>11 DEF FinalizeError, AfterFinalize, hvars
<1>12. ASSUME NEW r \in Replicas, Panic(r) \/ Crash(r) \/ Restart(r) PROVE TypeInv'
  BY <1>12 DEF Panic, Crash, Restart, hvars
<1>13. ASSUME NEW r \in Replicas, Shutdown(r) PROVE TypeInv'
  BY <1>13 DEF Shutdown, hvars
<1>14. ASSUME UNCHANGED vars PROVE TypeInv'
  BY <1>14 DEF vars, wvars, hvars
<1> QED
  BY <1>1, <1>2, <1>4, <1>5, <1>6, <1>7, <1>8, <1>9, <1>10, <1>11, <1>12, <1>13, <1>14
  DEF Next, Worker, Work

\* Every reachable state is well typed: rows carry legal column values, and a
\* worker past its claim has a row of the table in hand.
THEOREM TypeCorrect == Spec => []TypeOK
<1>1. Spec => []TypeInv BY InitTypes, StepTypes, PTL DEF Spec
<1>2. TypeInv => TypeOK BY DEF TypeInv
<1> QED BY <1>1, <1>2, PTL

-----------------------------------------------------------------------------
(* The ways a step touches the table, the columns each one leaves behind.   *)

Inserted(i, k) == /\ queue[i].status = "absent" /\ DedupFree(k)
                  /\ Write(i, ENQUEUE(queue[i], k))
                  /\ UNCHANGED hvars
Expired(i)     == /\ queue[i].status = "claimed" /\ queue[i].lease = "live"
                  /\ Write(i, [queue[i] EXCEPT !.lease = "expired"])
                  /\ UNCHANGED hvars
Taken(i, r)    == Claims(i, r) /\ UNCHANGED genuine
Renewed(i)     == /\ queue[i].status \in {"claimed", "done"}
                  /\ Write(i, HEARTBEAT(queue[i]))
                  /\ UNCHANGED hvars
Closed(i, r)   == /\ queue[i].status = "claimed" /\ Fence(i, r)
                  /\ pc[r] = "finalize" /\ item[r] = i /\ ~Busy(r)'
                  /\ Write(i, Settle(queue[i], outcome[r]))
                  /\ genuine' = [genuine EXCEPT ![i] = IF outcome[r] = "transient" THEN @ + 1 ELSE @]
                  /\ UNCHANGED abandoned

RowStep ==
  \/ UNCHANGED <<queue, genuine, abandoned>>
  \/ \E i \in Rows, k \in Keys : Inserted(i, k)
  \/ \E i \in Rows : Expired(i) \/ Renewed(i)
  \/ \E i \in Rows, r \in Replicas : Taken(i, r) \/ Closed(i, r)

\* A worker that passes the fence of the row in its hand finds it claimed.
LEMMA FencedIsClaimed ==
  ASSUME TypeInv, OwnershipConsistent, NEW r \in Replicas, Busy(r), Fence(item[r], r)
  PROVE  item[r] \in Rows /\ queue[item[r]].status = "claimed"
<1>1. item[r] \in Rows /\ queue[item[r]].status \in Statuses BY DEF TypeInv, TypeOK, Row
<1>2. queue[item[r]].claimed_by # NoReplica BY QueueAssumption DEF Fence
<1>3. ~Settled(item[r]) BY <1>1 DEF OwnershipConsistent, Fence
<1> QED BY <1>1, <1>2, <1>3 DEF OwnershipConsistent, Settled, Statuses

LEMMA StepIsRowStep == TypeInv /\ OwnershipConsistent /\ [Next]_vars => RowStep
<1> SUFFICES ASSUME TypeInv, OwnershipConsistent, [Next]_vars PROVE RowStep OBVIOUS
<1>1. ASSUME NEW k \in Keys, Enqueue(k) PROVE RowStep
  BY <1>1 DEF Enqueue, RowStep, Inserted
<1>2. ASSUME NEW i \in Rows, LeaseExpires(i) PROVE RowStep
  BY <1>2 DEF LeaseExpires, RowStep, Expired
<1>3. ASSUME NEW r \in Replicas, Claim(r) PROVE RowStep
  BY <1>3 DEF Claim, RowStep, Taken
<1>4. ASSUME NEW r \in Replicas, ClaimError(r) PROVE RowStep
  BY <1>4 DEF ClaimError, RowStep, Taken
<1>5. ASSUME NEW r \in Replicas, Finalize(r) PROVE RowStep
  <2>1. CASE ~Fence(item[r], r) BY <1>5, <2>1 DEF Finalize, RowStep
  <2>2. CASE Fence(item[r], r)
    <3>1. Busy(r) /\ pc[r] = "finalize" BY <1>5 DEF Finalize, Busy
    <3>2. item[r] \in Rows /\ queue[item[r]].status = "claimed" BY <2>2, <3>1, FencedIsClaimed
    <3>3. ~Busy(r)' BY <1>5 DEF Finalize, AfterFinalize, Goto, Busy, TypeInv, TypeOK
    <3>4. Closed(item[r], r) BY <1>5, <2>2, <3>1, <3>2, <3>3 DEF Finalize, Closed
    <3> QED BY <3>2, <3>4 DEF RowStep
  <2> QED BY <2>1, <2>2
<1>6. ASSUME NEW r \in Replicas, NEW i \in Rows, Beat(r, i) PROVE RowStep
  <2>1. CASE ~Fence(i, r) BY <1>6, <2>1 DEF Beat, RowStep, hvars
  <2>2. CASE Fence(i, r)
    <3>1. queue[i].status \in Statuses BY DEF TypeInv, TypeOK, Row
    <3>2. queue[i].status \in {"claimed", "done"}
      BY <2>2, <3>1, QueueAssumption DEF Statuses, OwnershipConsistent, Fence
    <3> QED BY <1>6, <2>2, <3>2 DEF Beat, RowStep, Renewed
  <2> QED BY <2>1, <2>2
<1>7. ASSUME NEW r \in Replicas,
             \/ CheckShutdown(r) \/ ClaimNone(r) \/ Work(r) \/ FinalizeError(r) \/ Resume(r)
             \/ Panic(r) \/ Crash(r) \/ Restart(r) \/ Shutdown(r)
      PROVE  RowStep
  BY <1>7 DEF CheckShutdown, ClaimNone, Work, WorkDone, FinalizeError, Resume, Panic,
              Crash, Restart, Shutdown, RowStep, hvars
<1>8. ASSUME NEW r \in Replicas, NEW i \in Rows, StopBeat(r, i) PROVE RowStep
  BY <1>8 DEF StopBeat, RowStep, hvars
<1>9. ASSUME UNCHANGED vars PROVE RowStep
  BY <1>9 DEF vars, hvars, RowStep
<1> QED BY <1>1, <1>2, <1>3, <1>4, <1>5, <1>6, <1>7, <1>8, <1>9 DEF Next, Worker

\* Settle on a claimed row, column by column.
LEMMA SettleFields ==
  ASSUME NEW row \in Row, NEW o \in Outcomes
  PROVE  LET new == Settle(row, o) IN
         /\ new.key = row.key
         /\ o = "done" => /\ new.status = "done" /\ new.claimed_by = row.claimed_by
                          /\ new.attempts = row.attempts
         /\ o = "soft_skip" => /\ new.status = "pending" /\ new.claimed_by = NoReplica
                               /\ row.attempts > 0 => new.attempts = row.attempts - 1
         /\ o = "permanent" => /\ new.status = "failed" /\ new.claimed_by = NoReplica
                               /\ new.attempts = row.attempts /\ new.last_error = "permanent"
         /\ o = "transient" => /\ new.status = (IF row.attempts >= MaxAttempts THEN "failed" ELSE "pending")
                               /\ new.claimed_by = NoReplica
                               /\ new.attempts = row.attempts /\ new.last_error = "transient"
BY DEF Row, Outcomes, Settle, COMPLETE, RELEASE, FAIL_PERMANENT, FAIL_OR_RETRY

-----------------------------------------------------------------------------
(* Ownership.                                                              *)

\* A worker busy with a row was so before the step, or claimed it by the step.
LEMMA BusyStep ==
  ASSUME TypeInv, Next, NEW r \in Replicas, NEW i \in Rows, Busy(r)', item'[r] = i
  PROVE  (Busy(r) /\ item[r] = i) \/ Claims(i, r)
<1> USE DEF TypeInv, TypeOK, Busy, Goto
<1>0. i # NoRow BY QueueAssumption DEF Rows
<1>1. ASSUME NEW k \in Keys, Enqueue(k) PROVE Busy(r) /\ item[r] = i
  BY <1>1 DEF Enqueue, wvars
<1>2. ASSUME NEW j \in Rows, LeaseExpires(j) PROVE Busy(r) /\ item[r] = i
  BY <1>2 DEF LeaseExpires, wvars
<1>3. ASSUME NEW q \in Replicas, Claim(q) PROVE (Busy(r) /\ item[r] = i) \/ Claims(i, r)
  BY <1>3 DEF Claim
<1>4. ASSUME NEW q \in Replicas,
             \/ CheckShutdown(q) \/ ClaimNone(q) \/ ClaimError(q) \/ Work(q) \/ Resume(q)
             \/ Restart(q) \/ Shutdown(q)
      PROVE  Busy(r) /\ item[r] = i
  BY <1>4 DEF CheckShutdown, ClaimNone, ClaimError, Work, WorkDone, Resume, Restart, Shutdown
<1>5. ASSUME NEW q \in Replicas, Finalize(q) \/ FinalizeError(q) \/ Panic(q) \/ Crash(q)
      PROVE  Busy(r) /\ item[r] = i
  BY <1>0, <1>5 DEF Finalize, FinalizeError, AfterFinalize, Panic, Crash
<1>6. ASSUME NEW q \in Replicas, NEW j \in Rows, Beat(q, j) \/ StopBeat(q, j)
      PROVE  Busy(r) /\ item[r] = i
  BY <1>6 DEF Beat, StopBeat
<1> QED BY <1>1, <1>2, <1>3, <1>4, <1>5, <1>6 DEF Next, Worker

LEMMA OwnershipStep ==
  ASSUME TypeInv, OwnershipConsistent, [Next]_vars
  PROVE  OwnershipConsistent'
<1>1. CASE UNCHANGED vars
  BY <1>1 DEF vars, wvars, OwnershipConsistent, Settled, Busy
<1>2. CASE Next
  <2> DEFINE Columns(i) ==
        /\ queue[i].status \in {"absent", "pending", "failed"} => queue[i].claimed_by = NoReplica
        /\ queue[i].status = "claimed" => queue[i].claimed_by # NoReplica
  <2> DEFINE LetGo(i) == \A r \in Replicas :
        Settled(i) /\ queue[i].claimed_by = r => ~(Busy(r) /\ item[r] = i)
  <2>1. \A i \in Rows : Columns(i) /\ LetGo(i) BY DEF OwnershipConsistent
  <2>2. RowStep BY StepIsRowStep
  <2>3. queue \in [Rows -> Row] /\ outcome \in [Replicas -> Outcomes] BY DEF TypeInv, TypeOK
  <2>4. ASSUME NEW i \in Rows PROVE Columns(i)' /\ LetGo(i)'
    <3>1. \A r \in Replicas : Busy(r)' /\ item'[r] = i => (Busy(r) /\ item[r] = i) \/ Claims(i, r)
      BY BusyStep, <1>2
    <3>2. CASE queue'[i] = queue[i]
      <4>1. ASSUME NEW r \in Replicas, Claims(i, r), queue'[i] = queue[i] PROVE ~Settled(i)'
        BY <4>1 DEF Claims, Claimable, Settled
      <4> QED BY <2>1, <3>1, <3>2, <4>1 DEF Settled
    <3>3. ASSUME NEW k \in Keys, Inserted(i, k) PROVE Columns(i)' /\ LetGo(i)'
      BY <2>1, <2>3, <3>3 DEF Inserted, Write, ENQUEUE, Settled, Row
    <3>4. CASE Expired(i)
      BY <2>1, <2>3, <3>4 DEF Expired, Write, Settled, Row
    <3>5. CASE Renewed(i)
      <4>1. queue'[i] = HEARTBEAT(queue[i]) BY <2>3, <3>5 DEF Renewed, Write
      <4>2. queue'[i].status = queue[i].status /\ queue'[i].claimed_by = queue[i].claimed_by
        BY <2>3, <4>1 DEF HEARTBEAT, Row
      <4>3. ASSUME NEW r \in Replicas, Claims(i, r) PROVE ~Settled(i)'
        BY <2>3, <4>3 DEF Claims, Write, CLAIM, Settled, Row
      <4> QED BY <2>1, <3>1, <4>2, <4>3 DEF Settled
    <3>6. ASSUME NEW r \in Replicas, Taken(i, r) PROVE Columns(i)' /\ LetGo(i)'
      BY <2>3, <3>6, QueueAssumption DEF Taken, Claims, Write, CLAIM, Settled, Row
    <3>7. ASSUME NEW r \in Replicas, Closed(i, r) PROVE Columns(i)' /\ LetGo(i)'
      <4>1. queue'[i] = Settle(queue[i], outcome[r]) BY <2>3, <3>7 DEF Closed, Write
      <4>2. queue[i].claimed_by = r /\ ~Busy(r)' BY <3>7 DEF Closed, Fence
      <4>3. queue'[i].status = "done" => queue'[i].claimed_by = r
        BY <2>3, <4>1, <4>2, SettleFields DEF Outcomes
      <4>4. queue'[i].status \in {"done", "pending", "failed"} /\
            (queue'[i].status # "done" => queue'[i].claimed_by = NoReplica)
        BY <2>3, <4>1, SettleFields DEF Outcomes
      <4> QED BY <4>2, <4>3, <4>4, QueueAssumption DEF Settled
    <3>8. \/ queue'[i] = queue[i] \/ \E k \in Keys : Inserted(i, k)
          \/ Expired(i) \/ Renewed(i) \/ \E r \in Replicas : Taken(i, r) \/ Closed(i, r)
      BY <2>2, <2>3 DEF RowStep, Inserted, Expired, Renewed, Taken, Claims, Closed, Write
    <3> QED BY <3>2, <3>3, <3>4, <3>5, <3>6, <3>7, <3>8
  <2> QED BY <2>4 DEF OwnershipConsistent
<1> QED BY <1>1, <1>2

LEMMA InitOwnership == Init => OwnershipConsistent
BY DEF Init, AbsentRow, OwnershipConsistent, Settled

Owned == TypeInv /\ OwnershipConsistent

\* A row has an owner exactly while it is claimed or done, and a worker that is
\* still busy with a row has not settled it: the fence on claimed_by alone is
\* enough, although COMPLETE leaves claimed_by behind.
THEOREM OwnershipHolds == Spec => []OwnershipConsistent
<1>1. Init => Owned BY InitTypes, InitOwnership DEF Owned
<1>2. Owned /\ [Next]_vars => Owned' BY StepTypes, OwnershipStep DEF Owned
<1>3. Owned => OwnershipConsistent BY DEF Owned
<1> QED BY <1>1, <1>2, <1>3, PTL DEF Spec

-----------------------------------------------------------------------------
(* Shutdown.  Without faults a claimed row is in the hands of its owner.   *)

Attended == faults = 0 => \A r \in Replicas, i \in Rows :
              queue[i].status = "claimed" /\ queue[i].claimed_by = r => Busy(r) /\ item[r] = i

LEMMA AttendedStep ==
  ASSUME Owned, Attended, [Next]_vars
  PROVE  Attended'
<1> SUFFICES ASSUME faults' = 0, NEW r \in Replicas, NEW i \in Rows,
                    queue'[i].status = "claimed", queue'[i].claimed_by = r
             PROVE  Busy(r)' /\ item'[r] = i
  BY DEF Attended
<1> USE DEF Busy, Write, Goto, Fault
<1>1. /\ queue \in [Rows -> Row] /\ pc \in [Replicas -> {"check", "claim", "work", "finalize", "pause", "down", "stopped"}]
      /\ item \in [Replicas -> Rows \cup {NoRow}] /\ outcome \in [Replicas -> Outcomes] /\ faults \in Nat
      /\ \A q \in Replicas : Busy(q) => item[q] \in Rows
  BY DEF Owned, TypeInv, TypeOK
<1>2. faults + 1 # 0 BY <1>1
<1>3. ASSUME faults = 0, queue[i].status = "claimed", queue[i].claimed_by = r PROVE Busy(r) /\ item[r] = i
  BY <1>3 DEF Attended
<1>4. ASSUME NEW k \in Keys, Enqueue(k) PROVE Busy(r)' /\ item'[r] = i
  <2>1. PICK j \in Rows : queue[j].status = "absent" /\ queue' = [queue EXCEPT ![j] = ENQUEUE(queue[j], k)]
    BY <1>4 DEF Enqueue
  <2>2. i # j BY <1>1, <2>1 DEF ENQUEUE, Row
  <2> QED BY <1>1, <1>3, <1>4, <2>1, <2>2 DEF Enqueue, wvars
<1>5. ASSUME NEW j \in Rows, LeaseExpires(j) PROVE Busy(r)' /\ item'[r] = i
  <2>1. queue' = [queue EXCEPT ![j] = [queue[j] EXCEPT !.lease = "expired"]] BY <1>5 DEF LeaseExpires
  <2>2. queue[i].status = "claimed" /\ queue[i].claimed_by = r BY <1>1, <2>1 DEF Row
  <2>3. faults = 0 BY <1>2, <1>5 DEF LeaseExpires
  <2> QED BY <1>3, <1>5, <2>2, <2>3 DEF LeaseExpires, wvars
<1>6. ASSUME NEW q \in Replicas, Claim(q) PROVE Busy(r)' /\ item'[r] = i
  <2>1. PICK j \in Rows : Claims(j, q) /\ item' = [item EXCEPT ![q] = j] BY <1>6 DEF Claim
  <2>2. /\ queue' = [queue EXCEPT ![j] = CLAIM(queue[j], q)] /\ pc[q] = "claim" /\ pc' = [pc EXCEPT ![q] = "work"]
        /\ faults = 0
    BY <1>6, <2>1 DEF Claim, Claims
  <2>3. CASE i = j
    <3>1. r = q BY <1>1, <2>2, <2>3 DEF CLAIM, Row
    <3> QED BY <1>1, <2>1, <2>2, <2>3, <3>1
  <2>4. CASE i # j
    <3>1. Busy(r) /\ item[r] = i BY <1>1, <1>3, <2>2, <2>4
    <3>2. r # q BY <2>2, <3>1
    <3> QED BY <1>1, <2>1, <2>2, <3>1, <3>2
  <2> QED BY <2>3, <2>4
<1>7. ASSUME NEW q \in Replicas, Finalize(q) PROVE Busy(r)' /\ item'[r] = i
  <2>1. /\ pc[q] = "finalize" /\ item[q] \in Rows /\ faults = 0 /\ outcome[q] \in Outcomes
        /\ item' = [item EXCEPT ![q] = NoRow]
        /\ \A p \in Replicas \ {q} : pc'[p] = pc[p]
    BY <1>1, <1>7 DEF Finalize, AfterFinalize
  <2>2. CASE Fence(item[q], q)
    <3>1. queue' = [queue EXCEPT ![item[q]] = Settle(queue[item[q]], outcome[q])] BY <1>7, <2>2 DEF Finalize
    <3>2. Settle(queue[item[q]], outcome[q]).status # "claimed"
      BY <1>1, <2>1, SettleFields DEF Outcomes
    <3>3. i # item[q] BY <1>1, <2>1, <3>1, <3>2
    <3>4. Busy(r) /\ item[r] = i BY <1>1, <1>3, <2>1, <3>1, <3>3
    <3> QED BY <1>1, <2>1, <3>3, <3>4
  <2>3. CASE ~Fence(item[q], q)
    <3>1. queue' = queue BY <1>7, <2>3 DEF Finalize
    <3>2. Busy(r) /\ item[r] = i BY <1>3, <2>1, <3>1
    <3>3. r # q BY <2>3, <3>1, <3>2 DEF Fence
    <3> QED BY <1>1, <2>1, <3>2, <3>3
  <2> QED BY <2>2, <2>3
<1>8. ASSUME NEW q \in Replicas, ClaimError(q) \/ FinalizeError(q) \/ Panic(q) \/ Crash(q) PROVE FALSE
  BY <1>2, <1>8 DEF ClaimError, FinalizeError, Panic, Crash
<1>9. ASSUME NEW q \in Replicas,
             \/ CheckShutdown(q) \/ ClaimNone(q) \/ Work(q) \/ Resume(q) \/ Restart(q) \/ Shutdown(q)
      PROVE  Busy(r)' /\ item'[r] = i
  <2>1. queue' = queue /\ item' = item /\ faults' = faults
    BY <1>9 DEF CheckShutdown, ClaimNone, Work, WorkDone, Resume, Restart, Shutdown
  <2>2. Busy(r) /\ item[r] = i BY <1>3, <2>1
  <2>3. Busy(r)' BY <1>1, <1>9, <2>2 DEF CheckShutdown, ClaimNone, Work, WorkDone, Resume, Restart, Shutdown
  <2> QED BY <2>1, <2>2, <2>3
<1>10. ASSUME NEW q \in Replicas, NEW j \in Rows, Beat(q, j) \/ StopBeat(q, j) PROVE Busy(r)' /\ item'[r] = i
  <2>1. queue[i].status = "claimed" /\ queue[i].claimed_by = r
    BY <1>1, <1>10 DEF Beat, StopBeat, HEARTBEAT, Row
  <2> QED BY <1>3, <1>10, <2>1 DEF Beat, StopBeat
<1>11. CASE UNCHANGED vars BY <1>3, <1>11 DEF vars, wvars
<1> QED BY <1>4, <1>5, <1>6, <1>7, <1>8, <1>9, <1>10, <1>11 DEF Next, Worker

\* However many replicas retire while others work, one that has left its loop leaves no
\* claimed row behind unless something failed.
THEOREM DrainHolds == Spec => []DrainedLeavesNothing
<1>1. Init => Owned /\ Attended
  <2>1. Init => Attended BY DEF Init, Attended, AbsentRow
  <2> QED BY <2>1, InitTypes, InitOwnership DEF Owned
<1>2. Owned /\ Attended /\ [Next]_vars => (Owned /\ Attended)'
  BY StepTypes, OwnershipStep, AttendedStep DEF Owned
<1>3. Attended => DrainedLeavesNothing BY DEF Attended, DrainedLeavesNothing, Busy
<1> QED BY <1>1, <1>2, <1>3, PTL DEF Spec

-----------------------------------------------------------------------------
(* The books: attempts, failures and lost claims.                          *)

\* A row that was never inserted has been charged nothing.
FreshRows == \A i \in Rows : queue[i].status = "absent" =>
               queue[i].attempts = 0 /\ genuine[i] = 0 /\ abandoned[i] = 0

Books == FreshRows /\ AttemptsLedger /\ RetryBudget

LEMMA InitBooks == Init => Books
BY QueueAssumption DEF Init, AbsentRow, Books, FreshRows, AttemptsLedger, RetryBudget, Live

LEMMA BooksStep ==
  ASSUME Owned, Books, [Next]_vars
  PROVE  Books'
<1> DEFINE Charged(i) == genuine[i] + abandoned[i]
<1> DEFINE Fresh(i) == queue[i].status = "absent" =>
                         queue[i].attempts = 0 /\ genuine[i] = 0 /\ abandoned[i] = 0
<1> DEFINE Ledgered(i) == queue[i].status # "absent" =>
                            queue[i].attempts = Charged(i) + (IF ClaimOpen(i) THEN 1 ELSE 0)
<1> DEFINE Budgeted(i) == /\ queue[i].status = "failed" /\ queue[i].last_error = "transient"
                               => Charged(i) >= MaxAttempts
                          /\ Live(i) => genuine[i] < MaxAttempts
<1>1. \A i \in Rows : Fresh(i) /\ Ledgered(i) /\ Budgeted(i)
  BY DEF Books, FreshRows, AttemptsLedger, RetryBudget
<1>2. RowStep BY StepIsRowStep DEF Owned
<1>3. /\ queue \in [Rows -> Row] /\ outcome \in [Replicas -> Outcomes]
      /\ genuine \in [Rows -> Nat] /\ abandoned \in [Rows -> Nat] /\ MaxAttempts \in Nat \ {0}
  BY QueueAssumption DEF Owned, TypeInv, TypeOK
<1>4. ASSUME NEW i \in Rows PROVE Fresh(i)' /\ Ledgered(i)' /\ Budgeted(i)'
  <2>0. queue[i] \in Row /\ genuine[i] \in Nat /\ abandoned[i] \in Nat /\ queue[i].attempts \in Nat
    BY <1>3 DEF Row
  <2>1. CASE queue'[i] = queue[i] /\ genuine'[i] = genuine[i] /\ abandoned'[i] = abandoned[i]
    BY <1>1, <2>1 DEF ClaimOpen, Live
  <2>2. ASSUME NEW k \in Keys, Inserted(i, k) PROVE Fresh(i)' /\ Ledgered(i)' /\ Budgeted(i)'
    <3>1. queue'[i] = ENQUEUE(queue[i], k) BY <1>3, <2>2 DEF Inserted, Write
    <3>2. queue'[i].status = "pending" /\ queue'[i].attempts = queue[i].attempts
      BY <2>0, <3>1 DEF ENQUEUE, Row
    <3>3. Fresh(i) /\ genuine'[i] = genuine[i] /\ abandoned'[i] = abandoned[i]
      BY <1>1, <2>2 DEF Inserted, hvars
    <3> QED BY <1>3, <2>2, <3>2, <3>3 DEF Inserted, ClaimOpen, Live
  <2>3. CASE Expired(i) \/ Renewed(i)
    <3>1. /\ queue'[i].status = queue[i].status /\ queue'[i].attempts = queue[i].attempts
          /\ queue'[i].last_error = queue[i].last_error
      BY <1>3, <2>0, <2>3 DEF Expired, Renewed, Write, HEARTBEAT, Row
    <3>2. genuine'[i] = genuine[i] /\ abandoned'[i] = abandoned[i]
      BY <2>3 DEF Expired, Renewed, hvars
    <3> QED BY <1>1, <3>1, <3>2 DEF ClaimOpen, Live
  <2>4. ASSUME NEW r \in Replicas, Taken(i, r) PROVE Fresh(i)' /\ Ledgered(i)' /\ Budgeted(i)'
    <3>1. queue'[i] = CLAIM(queue[i], r) BY <1>3, <2>4 DEF Taken, Claims, Write
    <3>2. queue'[i].status = "claimed" /\ queue'[i].attempts = queue[i].attempts + 1
      BY <2>0, <3>1 DEF CLAIM, Row
    <3>3. /\ queue[i].status \in {"pending", "claimed"} /\ genuine'[i] = genuine[i]
          /\ abandoned'[i] = IF queue[i].status = "claimed" THEN abandoned[i] + 1 ELSE abandoned[i]
      BY <1>3, <2>4 DEF Taken, Claims, Claimable
    <3>4. ClaimOpen(i)' /\ Live(i) BY <3>2, <3>3 DEF ClaimOpen, Live
    <3>5. queue[i].attempts = Charged(i) + (IF queue[i].status = "claimed" THEN 1 ELSE 0)
      BY <1>1, <3>3 DEF ClaimOpen
    <3>6. Ledgered(i)' BY <2>0, <3>2, <3>3, <3>4, <3>5
    <3> QED BY <1>1, <3>2, <3>3, <3>4, <3>6
  <2>5. ASSUME NEW r \in Replicas, Closed(i, r) PROVE Fresh(i)' /\ Ledgered(i)' /\ Budgeted(i)'
    <3>1. queue'[i] = Settle(queue[i], outcome[r]) BY <1>3, <2>5 DEF Closed, Write
    <3>2. /\ abandoned'[i] = abandoned[i]
          /\ genuine'[i] = IF outcome[r] = "transient" THEN genuine[i] + 1 ELSE genuine[i]
      BY <1>3, <2>5 DEF Closed
    <3>3. queue[i].attempts = Charged(i) + 1 /\ genuine[i] < MaxAttempts
      BY <1>1, <2>5 DEF Closed, ClaimOpen, Live
    <3>4. CASE outcome[r] = "done"
      <4>1. queue'[i].status = "done" /\ queue'[i].attempts = queue[i].attempts
        BY <1>3, <3>1, <3>4, SettleFields
      <4> QED BY <3>2, <3>3, <3>4, <4>1 DEF ClaimOpen, Live
    <3>5. CASE outcome[r] = "soft_skip"
      <4>1. queue'[i].status = "pending" /\ queue'[i].attempts = queue[i].attempts - 1
        BY <1>3, <2>0, <3>1, <3>3, <3>5, SettleFields
      <4> QED BY <2>0, <3>2, <3>3, <3>5, <4>1 DEF ClaimOpen, Live
    <3>6. CASE outcome[r] = "permanent"
      <4>1. /\ queue'[i].status = "failed" /\ queue'[i].last_error = "permanent"
            /\ queue'[i].attempts = queue[i].attempts
        BY <1>3, <3>1, <3>6, SettleFields
      <4> QED BY <3>2, <3>3, <3>6, <4>1 DEF ClaimOpen, Live
    <3>7. CASE outcome[r] = "transient"
      <4>1. /\ queue'[i].status = (IF queue[i].attempts >= MaxAttempts THEN "failed" ELSE "pending")
            /\ queue'[i].last_error = "transient" /\ queue'[i].attempts = queue[i].attempts
        BY <1>3, <3>1, <3>7, SettleFields
      <4>2. ~ClaimOpen(i)' /\ queue'[i].status # "absent" BY <4>1 DEF ClaimOpen
      <4>3. Live(i)' => queue[i].attempts < MaxAttempts BY <1>3, <2>0, <4>1 DEF Live
      <4>4. queue'[i].status = "failed" => queue[i].attempts >= MaxAttempts BY <4>1
      <4> HIDE DEF Live, ClaimOpen
      <4> QED BY <1>3, <2>0, <3>2, <3>3, <3>7, <4>1, <4>2, <4>3, <4>4
    <3> QED BY <1>3, <3>4, <3>5, <3>6, <3>7 DEF Outcomes
  <2>6. \/ queue'[i] = queue[i] /\ genuine'[i] = genuine[i] /\ abandoned'[i] = abandoned[i]
        \/ \E k \in Keys : Inserted(i, k)
        \/ Expired(i) \/ Renewed(i) \/ \E r \in Replicas : Taken(i, r) \/ Closed(i, r)
    BY <1>2, <1>3 DEF RowStep, Inserted, Expired, Renewed, Taken, Claims, Closed, Write, hvars
  <2> QED BY <2>1, <2>2, <2>3, <2>4, <2>5, <2>6
<1> QED BY <1>4 DEF Books, FreshRows, AttemptsLedger, RetryBudget

\* The retry budget is charged exactly: a row's attempts are its recorded
\* transient failures, its lost claims and the claim in progress, and nothing a
\* soft skip does ever shows.
THEOREM AttemptsAreLedgered == Spec => []AttemptsLedger
<1>1. Init => Owned /\ Books BY InitTypes, InitOwnership, InitBooks DEF Owned
<1>2. Owned /\ Books /\ [Next]_vars => (Owned /\ Books)'
  BY StepTypes, OwnershipStep, BooksStep DEF Owned
<1>3. Books => AttemptsLedger BY DEF Books
<1> QED BY <1>1, <1>2, <1>3, PTL DEF Spec

\* A row is failed for transient errors only once its failures and lost claims
\* used the budget up, and is never retried after max_attempts failures.
THEOREM BudgetIsKept == Spec => []RetryBudget
<1>1. Init => Owned /\ Books BY InitTypes, InitOwnership, InitBooks DEF Owned
<1>2. Owned /\ Books /\ [Next]_vars => (Owned /\ Books)'
  BY StepTypes, OwnershipStep, BooksStep DEF Owned
<1>3. Books => RetryBudget BY DEF Books
<1> QED BY <1>1, <1>2, <1>3, PTL DEF Spec

-----------------------------------------------------------------------------
(* One live row per key, and what a step may never do.                     *)

\* A row step keeps every key but an inserted one, and brings no row to life.
LEMMA LiveStep ==
  ASSUME TypeInv, RowStep, NEW i \in Rows, Live(i)'
  PROVE  \/ Live(i) /\ queue'[i].key = queue[i].key
         \/ \E k \in Keys : Inserted(i, k)
<1>1. queue \in [Rows -> Row] /\ outcome \in [Replicas -> Outcomes] BY DEF TypeInv, TypeOK
<1>2. CASE queue'[i] = queue[i] BY <1>2 DEF Live
<1>3. CASE Expired(i) \/ Renewed(i)
  BY <1>1, <1>3 DEF Expired, Renewed, Write, HEARTBEAT, Row, Live
<1>4. ASSUME NEW r \in Replicas, Taken(i, r) PROVE Live(i) /\ queue'[i].key = queue[i].key
  BY <1>1, <1>4 DEF Taken, Claims, Claimable, Write, CLAIM, Row, Live
<1>5. ASSUME NEW r \in Replicas, Closed(i, r) PROVE Live(i) /\ queue'[i].key = queue[i].key
  <2>1. queue'[i] = Settle(queue[i], outcome[r]) BY <1>1, <1>5 DEF Closed, Write
  <2> QED BY <1>1, <1>5, <2>1, SettleFields DEF Closed, Live
<1>6. \/ queue'[i] = queue[i] \/ \E k \in Keys : Inserted(i, k)
      \/ Expired(i) \/ Renewed(i) \/ \E r \in Replicas : Taken(i, r) \/ Closed(i, r)
  BY <1>1 DEF RowStep, Inserted, Expired, Renewed, Taken, Claims, Closed, Write
<1> QED BY <1>2, <1>3, <1>4, <1>5, <1>6

LEMMA UniqueStep ==
  ASSUME Owned, OneLiveRowPerKey, [Next]_vars
  PROVE  OneLiveRowPerKey'
<1> SUFFICES ASSUME NEW i \in Rows, NEW j \in Rows, Live(i)', Live(j)',
                    queue'[i].key = queue'[j].key
             PROVE  i = j
  BY DEF OneLiveRowPerKey
<1>1. RowStep /\ TypeInv BY StepIsRowStep DEF Owned
<1>2. queue \in [Rows -> Row] BY <1>1 DEF TypeInv, TypeOK
<1>3. ASSUME NEW a \in Rows, NEW b \in Rows, a # b, NEW k \in Keys, Inserted(a, k), Live(b)'
      PROVE  queue'[a].key # queue'[b].key
  <2>1. queue'[b] = queue[b] /\ queue'[a].key = k
    BY <1>2, <1>3 DEF Inserted, Write, ENQUEUE, Row
  <2> QED BY <1>3, <2>1 DEF Inserted, DedupFree, Live
<1>4. CASE \E k \in Keys : Inserted(i, k) BY <1>3, <1>4
<1>5. CASE \E k \in Keys : Inserted(j, k) BY <1>3, <1>5
<1>6. CASE Live(i) /\ Live(j) /\ queue[i].key = queue[j].key BY <1>6 DEF OneLiveRowPerKey
<1> QED BY <1>1, <1>4, <1>5, <1>6, LiveStep

\* The queue never holds two live rows of one key.
THEOREM DedupHolds == Spec => []OneLiveRowPerKey
<1>1. Init => Owned /\ OneLiveRowPerKey
  <2>1. Init => OneLiveRowPerKey BY DEF Init, AbsentRow, OneLiveRowPerKey, Live
  <2> QED BY <2>1, InitTypes, InitOwnership DEF Owned
<1>2. Owned /\ OneLiveRowPerKey /\ [Next]_vars => (Owned /\ OneLiveRowPerKey)'
  BY StepTypes, OwnershipStep, UniqueStep DEF Owned
<1> QED BY <1>1, <1>2, PTL DEF Spec

LEMMA OwnedAlways == Spec => []Owned
<1>1. Init => Owned BY InitTypes, InitOwnership DEF Owned
<1>2. Owned /\ [Next]_vars => Owned' BY StepTypes, OwnershipStep DEF Owned
<1> QED BY <1>1, <1>2, PTL DEF Spec

\* While a lease is live, only its owner changes the row, and only by finalizing
\* it: the heartbeat and the finalize of a replica that lost the row do nothing.
THEOREM NoZombieWrites == Spec => OnlyOwnerSettlesLiveLease
<1> DEFINE A == \A i \in Rows :
       queue[i].status = "claimed" /\ queue[i].lease = "live" /\ queue'[i] # queue[i]
         => queue'[i] = [queue[i] EXCEPT !.lease = "expired"] \/ OwnerSettles(i)
<1>1. ASSUME Owned, [Next]_vars PROVE A
  <2> SUFFICES ASSUME NEW i \in Rows, queue[i].status = "claimed", queue[i].lease = "live",
                      queue'[i] # queue[i]
               PROVE  queue'[i] = [queue[i] EXCEPT !.lease = "expired"] \/ OwnerSettles(i)
    OBVIOUS
  <2>1. RowStep /\ queue \in [Rows -> Row] BY <1>1, StepIsRowStep DEF Owned, TypeInv, TypeOK
  <2>2. ~Renewed(i)
    <3>1. HEARTBEAT(queue[i]) = queue[i] BY <2>1 DEF HEARTBEAT, Row
    <3> QED BY <2>1, <3>1 DEF Renewed, Write
  <2>3. ASSUME NEW r \in Replicas, Closed(i, r) PROVE OwnerSettles(i)
    BY <2>3 DEF Closed, Fence, OwnerSettles, Busy
  <2>4. Expired(i) => queue'[i] = [queue[i] EXCEPT !.lease = "expired"]
    BY <2>1 DEF Expired, Write
  <2>5. Expired(i) \/ \E r \in Replicas : Closed(i, r)
    BY <2>1, <2>2 DEF RowStep, Inserted, Expired, Renewed, Taken, Claims, Claimable, Closed, Write
  <2> QED BY <2>3, <2>4, <2>5
<1>2. Spec => []Owned BY OwnedAlways
<1>3. Spec => [][A]_vars BY <1>1, <1>2, PTL DEF Spec
<1> QED BY <1>3 DEF OnlyOwnerSettlesLiveLease

\* A verdict is final: nothing but the lease column of a settled row changes.
THEOREM VerdictsAreFinal == Spec => SettledIsFinal
<1> DEFINE A == \A i \in Rows : Settled(i) =>
       [queue'[i] EXCEPT !.lease = "none"] = [queue[i] EXCEPT !.lease = "none"]
<1>1. ASSUME Owned, [Next]_vars PROVE A
  <2> SUFFICES ASSUME NEW i \in Rows, Settled(i)
               PROVE  [queue'[i] EXCEPT !.lease = "none"] = [queue[i] EXCEPT !.lease = "none"]
    OBVIOUS
  <2>1. RowStep /\ queue \in [Rows -> Row] BY <1>1, StepIsRowStep DEF Owned, TypeInv, TypeOK
  <2>2. queue'[i] = queue[i] \/ queue'[i] = HEARTBEAT(queue[i])
    BY <2>1 DEF RowStep, Settled, Inserted, Expired, Renewed, Taken, Claims, Claimable, Closed, Write
  <2> QED BY <2>1, <2>2 DEF HEARTBEAT, Row
<1>2. Spec => []Owned BY OwnedAlways
<1>3. Spec => [][A]_vars BY <1>1, <1>2, PTL DEF Spec
<1> QED BY <1>3 DEF SettledIsFinal

-----------------------------------------------------------------------------
(* LeaseQueue implements WorkLedger.                                       *)

LEMMA LedgerInit == Init => Ledger!Init
BY DEF Init, AbsentRow, Ledger!Init, Job, Live, Spent

\* A step that touches row i only is a ledger step on job i.
LEMMA LedgerFrame ==
  ASSUME NEW i \in Rows, \A j \in Rows \ {i} : Job(j)' = Job(j) /\ queue'[j].key = queue[j].key
                                               /\ Spent(j)' = Spent(j)
  PROVE  /\ [j \in Rows |-> Job(j)]' = [[j \in Rows |-> Job(j)] EXCEPT ![i] = Job(i)']
         /\ [j \in Rows |-> queue[j].key]' = [[j \in Rows |-> queue[j].key] EXCEPT ![i] = queue'[i].key]
         /\ [j \in Rows |-> Spent(j)]' = [[j \in Rows |-> Spent(j)] EXCEPT ![i] = Spent(i)']
OBVIOUS

LEMMA LedgerStep ==
  ASSUME Owned, Books, [Next]_vars
  PROVE  [Ledger!Next]_Ledger!vars
<1>1. RowStep /\ TypeInv BY StepIsRowStep DEF Owned
<1>2. /\ queue \in [Rows -> Row] /\ outcome \in [Replicas -> Outcomes]
      /\ genuine \in [Rows -> Nat] /\ abandoned \in [Rows -> Nat] /\ MaxAttempts \in Nat \ {0}
  BY <1>1, QueueAssumption DEF TypeInv, TypeOK
<1>3. CASE UNCHANGED <<queue, genuine, abandoned>>
  BY <1>3 DEF Ledger!vars, Job, Live, Spent
<1>4. ASSUME NEW i \in Rows,
             \/ \E k \in Keys : Inserted(i, k)
             \/ Expired(i) \/ Renewed(i) \/ \E r \in Replicas : Taken(i, r) \/ Closed(i, r)
      PROVE  [Ledger!Next]_Ledger!vars
  <2> DEFINE job == [j \in Rows |-> Job(j)]
             key == [j \in Rows |-> queue[j].key]
             spent == [j \in Rows |-> Spent(j)]
  <2>0. queue[i] \in Row /\ genuine[i] \in Nat /\ abandoned[i] \in Nat /\ queue[i].attempts \in Nat
    BY <1>2 DEF Row
  <2>1. \A j \in Rows \ {i} : Job(j)' = Job(j) /\ queue'[j].key = queue[j].key /\ Spent(j)' = Spent(j)
    BY <1>2, <1>4 DEF Inserted, Expired, Renewed, Taken, Claims, Closed, Write, hvars, Job, Live, Spent
  <2>2. /\ job' = [job EXCEPT ![i] = Job(i)']
        /\ key' = [key EXCEPT ![i] = queue'[i].key]
        /\ spent' = [spent EXCEPT ![i] = Spent(i)']
    BY <2>1, LedgerFrame
  <2>3. job[i] = Job(i) /\ key[i] = queue[i].key /\ spent[i] = Spent(i) OBVIOUS
  <2>4. ASSUME Job(i)' = Job(i), queue'[i].key = queue[i].key, Spent(i)' = Spent(i)
        PROVE  UNCHANGED Ledger!vars
    BY <2>1, <2>4 DEF Ledger!vars
  <2>5. ASSUME Job(i) = "open", Job(i)' = "open", queue'[i].key = queue[i].key, Spent(i)' = Spent(i) + 1
        PROVE  Ledger!Next
    <3>1. job' = job /\ key' = key BY <2>1, <2>5
    <3>2. Ledger!Charge(i) BY <2>2, <2>3, <2>5, <3>1 DEF Ledger!Charge
    <3> QED BY <3>2 DEF Ledger!Next
  <2>6. ASSUME NEW k \in Keys, Inserted(i, k) PROVE Ledger!Next
    <3>1. queue'[i] = ENQUEUE(queue[i], k) BY <1>2, <2>6 DEF Inserted, Write
    <3>2. Job(i) = "absent" /\ Job(i)' = "open" /\ queue'[i].key = k
      BY <2>0, <2>6, <3>1 DEF Inserted, ENQUEUE, Row, Job, Live
    <3>3. Spent(i)' = Spent(i) BY <2>6 DEF Inserted, hvars, Spent
    <3>4. spent' = spent BY <2>1, <3>3
    <3>5. ASSUME NEW j \in Rows, job[j] = "open" PROVE key[j] # k
      <4>1. Live(j) BY <1>2, <3>5 DEF Job, Row, Statuses
      <4> QED BY <2>6, <4>1 DEF Inserted, DedupFree
    <3>6. Ledger!Admit(i, k) BY <2>2, <2>3, <3>2, <3>4, <3>5 DEF Ledger!Admit
    <3> QED BY <3>6 DEF Ledger!Next
  <2>7. CASE Expired(i) \/ Renewed(i)
    <3>1. /\ queue'[i].status = queue[i].status /\ queue'[i].last_error = queue[i].last_error
          /\ queue'[i].key = queue[i].key
      BY <1>2, <2>0, <2>7 DEF Expired, Renewed, Write, HEARTBEAT, Row
    <3>2. Job(i)' = Job(i) /\ Spent(i)' = Spent(i)
      BY <2>7, <3>1 DEF Expired, Renewed, hvars, Job, Live, Spent
    <3> QED BY <2>4, <3>1, <3>2
  <2>8. ASSUME NEW r \in Replicas, Taken(i, r) PROVE [Ledger!Next]_Ledger!vars
    <3>1. queue'[i] = CLAIM(queue[i], r) BY <1>2, <2>8 DEF Taken, Claims, Write
    <3>2. Job(i) = "open" /\ Job(i)' = "open" /\ queue'[i].key = queue[i].key
      BY <2>0, <2>8, <3>1 DEF Taken, Claims, Claimable, CLAIM, Row, Job, Live
    <3>3. Spent(i)' = Spent(i) \/ Spent(i)' = Spent(i) + 1
      BY <1>2, <2>0, <2>8 DEF Taken, Claims, Spent
    <3> QED BY <2>4, <2>5, <3>2, <3>3
  <2>9. ASSUME NEW r \in Replicas, Closed(i, r) PROVE [Ledger!Next]_Ledger!vars
    <3>1. queue'[i] = Settle(queue[i], outcome[r]) /\ Job(i) = "open"
      BY <1>2, <2>9 DEF Closed, Write, Job, Live
    <3>2. queue'[i].key = queue[i].key BY <1>2, <3>1, SettleFields
    <3>3. key' = key BY <2>1, <3>2
    <3>4. /\ outcome[r] # "transient" => Spent(i)' = Spent(i) /\ spent' = spent
          /\ outcome[r] = "transient" => Spent(i)' = Spent(i) + 1
      BY <1>2, <2>0, <2>1, <2>9 DEF Closed, Spent
    <3>5. CASE outcome[r] = "done"
      <4>1. Job(i)' = "done" BY <1>2, <3>1, <3>5, SettleFields DEF Job, Live
      <4>2. Ledger!Finish(i) BY <2>2, <2>3, <3>1, <3>3, <3>4, <3>5, <4>1 DEF Ledger!Finish, Ledger!Verdict
      <4> QED BY <4>2 DEF Ledger!Next
    <3>6. CASE outcome[r] = "soft_skip"
      <4>1. Job(i)' = "open" BY <1>2, <3>1, <3>6, SettleFields DEF Job, Live
      <4> QED BY <2>4, <3>1, <3>2, <3>4, <3>6, <4>1
    <3>7. CASE outcome[r] = "permanent"
      <4>1. Job(i)' = "rejected" BY <1>2, <3>1, <3>7, SettleFields DEF Job, Live
      <4>2. Ledger!Reject(i) BY <2>2, <2>3, <3>1, <3>3, <3>4, <3>7, <4>1 DEF Ledger!Reject, Ledger!Verdict
      <4> QED BY <4>2 DEF Ledger!Next
    <3>8. CASE outcome[r] = "transient"
      <4>1. queue[i].attempts = Spent(i) + 1
        BY <2>9 DEF Books, AttemptsLedger, Closed, ClaimOpen, Spent
      <4>2. CASE queue[i].attempts >= MaxAttempts
        <5>1. Job(i)' = "exhausted" BY <1>2, <3>1, <3>8, <4>2, SettleFields DEF Job, Live
        <5>2. Ledger!Exhaust(i)
          BY <2>2, <2>3, <3>1, <3>3, <3>4, <3>8, <4>1, <4>2, <5>1 DEF Ledger!Exhaust, Ledger!Verdict
        <5> QED BY <5>2 DEF Ledger!Next
      <4>3. CASE ~(queue[i].attempts >= MaxAttempts)
        <5>1. Job(i)' = "open" BY <1>2, <3>1, <3>8, <4>3, SettleFields DEF Job, Live
        <5> QED BY <2>5, <3>1, <3>2, <3>4, <3>8, <5>1
      <4> QED BY <4>2, <4>3
    <3> QED BY <1>2, <3>5, <3>6, <3>7, <3>8 DEF Outcomes
  <2> QED BY <1>4, <2>6, <2>7, <2>8, <2>9
<1> QED BY <1>1, <1>3, <1>4 DEF RowStep

\* The collection queue, run by any number of replicas that crash, panic, lose
\* leases and lose statements, is a ledger: a job is admitted once per key while
\* an earlier one is open, only failures and lost claims are charged to it, and
\* it gets one verdict, "exhausted" only when its budget is.
THEOREM QueueIsLedger == Spec => RefinesLedger
<1>1. Init => Owned /\ Books /\ Ledger!Init
  BY InitTypes, InitOwnership, InitBooks, LedgerInit DEF Owned
<1>2. Owned /\ Books /\ [Next]_vars => (Owned /\ Books)'
  BY StepTypes, OwnershipStep, BooksStep DEF Owned
<1>3. Owned /\ Books /\ [Next]_vars => [Ledger!Next]_Ledger!vars BY LedgerStep
<1> QED BY <1>1, <1>2, <1>3, PTL DEF Spec, RefinesLedger, Ledger!Spec

\* All that the rows say of themselves, together.
THEOREM RowsHold == Spec => []RowsAreSound
BY TypeCorrect, OwnershipHolds, AttemptsAreLedgered, BudgetIsKept, DedupHolds, PTL DEF RowsAreSound

\* Live rows are their owner's, settled ones nobody's.
THEOREM OwnersHold == Spec => RowsAreOwned
BY NoZombieWrites, VerdictsAreFinal DEF RowsAreOwned
=============================================================================
