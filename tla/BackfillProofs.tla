---------------------------- MODULE BackfillProofs ----------------------------
(***************************************************************************)
(* Proofs about BackfillChunks, for any number of replicas, coins, slots,  *)
(* faults and attempts and any providers.  First types; then every step is *)
(* shown to touch the chunks in one of five ways (ChunkStep); attempts,    *)
(* the refinement of WorkLedger and the walk of the cursor follow.  That   *)
(* no history is lost is proved for chains whose answers join (Seamless).  *)
(*                                                                         *)
(* Then RangeWalk, which knows the chains the code builds: for any order   *)
(* and depth of the providers, what a walk leaves behind it is whole, but  *)
(* for the exceptions HistoryIsWhole names.                                *)
(***************************************************************************)
EXTENDS BackfillChunks, RangeWalk, FiniteSetTheorems, WellFoundedInduction, NaturalsInduction, TLAPS

\* A busy worker has a chunk in hand.
TypeInv == TypeOK /\ \A r \in Replicas : Busy(r) => item[r] \in Coins

-----------------------------------------------------------------------------
(* Pages and cursors.                                                      *)

\* The order of the naturals has no infinite descent.
LEMMA NatOrder ==
  ASSUME NEW S, S \subseteq Nat, S # {}
  PROVE  \E n \in S : \A m \in S : n <= m
<1>1. PICK n \in S : \A m \in S : ~(<<m, n>> \in OpToRel(<, Nat))
  BY WFMin, NatLessThanWellFounded
<1>2. OpToRel(<, Nat) = {ss \in Nat \X Nat : ss[1] < ss[2]}
  BY DEF OpToRel
<1>3. ASSUME NEW m \in S PROVE n <= m
  <2>1. ~(<<m, n>> \in {ss \in Nat \X Nat : ss[1] < ss[2]})
    BY <1>1, <1>2, Zenon
  <2>2. ~(m < n)
    BY <2>1
  <2> QED
    BY <2>2
<1> QED
  BY <1>3

\* Slots of which there are some have a newest.
LEMMA NewestIs ==
  ASSUME NEW S, S \subseteq Slots, S # {}
  PROVE  Newest(S) \in S /\ \A t \in S : t <= Newest(S)
<1> DEFINE T == {k \in Nat : End - k \in S}
<1>1. End \in Nat /\ \A t \in S : t \in Nat /\ t < End BY BackfillAssumption DEF Slots
<1>2. T # {}
  <2>1. PICK t \in S : TRUE OBVIOUS
  <2>2. End - t \in Nat /\ End - (End - t) = t BY <1>1, <2>1
  <2>3. End - t \in T BY <2>1, <2>2
  <2> QED BY <2>3
<1>3. PICK k \in T : \A m \in T : k <= m BY <1>2, NatOrder
<1>4. ASSUME NEW t \in S PROVE t <= End - k
  <2>1. End - t \in Nat /\ End - (End - t) = t BY <1>1
  <2>2. End - t \in T BY <2>1
  <2> QED BY <1>1, <1>3, <2>1, <2>2
<1>5. \E t \in S : \A u \in S : u <= t BY <1>3, <1>4
<1> QED BY <1>5 DEF Newest

\* What a worker keeps of any page lies behind the cursor it was asked for at.
LEMMA NewSlotsAre ==
  ASSUME NEW providers \in Chains, NEW from \in Cursors, NEW mute
  PROVE  /\ NewSlots(providers, from, mute) \subseteq Slots
         /\ \A t \in NewSlots(providers, from, mute) : AfterCursor(t, from)
<1>1. providers \in Seq(Provider) BY BackfillAssumption
<1> DEFINE f == RequestStart(from)
           full == {i \in 1..Len(providers) : i \notin mute /\ Page(providers[i], f) # {}}
<1>2. full \subseteq Nat /\ Len(providers) \in Nat BY <1>1
<1>3. ASSUME full # {} PROVE ChainPage(providers, f, mute) \subseteq Slots
  <2>1. \E i \in full : \A j \in full : i <= j BY <1>2, <1>3, NatOrder
  <2> DEFINE i == CHOOSE i \in full : \A j \in full : i <= j
  <2>2. i \in full BY <2>1
  <2>3. providers[i] \in Provider BY <1>1, <2>2
  <2>4. providers[i].data \subseteq Slots BY <2>3 DEF Provider, Slots
  <2>5. Page(providers[i], f) \subseteq providers[i].data BY DEF Page
  <2>6. ChainPage(providers, f, mute) = Page(providers[i], f) BY <1>3 DEF ChainPage
  <2> QED BY <2>4, <2>5, <2>6
<1>4. ChainPage(providers, f, mute) \subseteq Slots
  <2>1. CASE full = {}
    <3>1. ChainPage(providers, f, mute) = {} BY <2>1 DEF ChainPage
    <3> QED BY <3>1
  <2> QED BY <1>3, <2>1
<1> QED BY <1>4 DEF NewSlots

\* A page leaves its cursor within the range, and never before the one it was asked for at.
LEMMA NextCursorIs ==
  ASSUME NEW from \in Cursors, NEW max \in Slots \cup {NoPage},
         max # NoPage => AfterCursor(max, from)
  PROVE  /\ NextCursor(from, max) \in 0..End /\ NextCursor(from, max) # NoCursor
         /\ from # NoCursor => NextCursor(from, max) >= from
BY BackfillAssumption DEF Cursors, Slots, NextCursor, RequestStart, AfterCursor

-----------------------------------------------------------------------------
(* The statements map chunks to chunks.                                    *)

LEMMA StatementTypes ==
  ASSUME NEW row \in Chunk
  PROVE  /\ INSERT_CHUNK(row) \in Chunk
         /\ \A r \in Replicas : CLAIM(row, r) \in Chunk
         /\ \A c \in Cursors : ADVANCE_CURSOR(row, c) \in Chunk
         /\ [row EXCEPT !.lease = "expired"] \in Chunk
         /\ COMPLETE(row) \in Chunk /\ FAIL_OR_RETRY(row) \in Chunk
         /\ RELEASE(row) \in Chunk /\ FAIL_PERMANENT(row) \in Chunk
<1>1. row.attempts \in Nat /\ row.attempts + 1 \in Nat
      /\ (IF row.attempts > 0 THEN row.attempts - 1 ELSE 0) \in Nat
  BY DEF Chunk
<1>2. INSERT_CHUNK(row) \in Chunk BY DEF INSERT_CHUNK, Chunk, Statuses
<1>3. ASSUME NEW r \in Replicas PROVE CLAIM(row, r) \in Chunk BY <1>1 DEF CLAIM, Chunk, Statuses
<1>4. ASSUME NEW c \in Cursors PROVE ADVANCE_CURSOR(row, c) \in Chunk BY DEF ADVANCE_CURSOR, Chunk
<1>5. [row EXCEPT !.lease = "expired"] \in Chunk BY DEF Chunk
<1>6. Disowned(row) \in Chunk BY DEF Disowned, Chunk
<1>7. COMPLETE(row) \in Chunk
  <2>1. End \in Cursors BY BackfillAssumption DEF Cursors
  <2> QED BY <1>6, <2>1 DEF COMPLETE, Chunk, Statuses
<1>8. FAIL_OR_RETRY(row) \in Chunk BY <1>6 DEF FAIL_OR_RETRY, Chunk, Statuses
<1>9. FAIL_PERMANENT(row) \in Chunk BY <1>6 DEF FAIL_PERMANENT, Chunk, Statuses
<1>10. RELEASE(row) \in Chunk
  <2>1. Disowned(row).attempts = row.attempts BY DEF Disowned, Chunk
  <2> QED BY <1>1, <1>6, <2>1 DEF RELEASE, Chunk, Statuses
<1> QED BY <1>2, <1>3, <1>4, <1>5, <1>7, <1>8, <1>9, <1>10

LEMMA SettlementType ==
  ASSUME NEW row \in Chunk, NEW r \in Replicas
  PROVE  Settlement(r, row) \in Chunk
<1> DEFINE ends == outcome[r].kind = "progress" /\ NextCursor(seen[r], outcome[r].max) >= End
<1>1. Settlement(r, row) \in {COMPLETE(row), FAIL_PERMANENT(row), FAIL_OR_RETRY(row), RELEASE(row)}
  BY DEF Settlement
<1> QED BY <1>1, StatementTypes

-----------------------------------------------------------------------------
(* Types.                                                                  *)

LEMMA InitTypes == Init => TypeInv
<1> SUFFICES ASSUME Init PROVE TypeInv OBVIOUS
<1>1. AbsentChunk \in Chunk BY DEF AbsentChunk, Chunk, Statuses, Cursors
<1> QED BY <1>1 DEF Init, TypeInv, TypeOK, Busy, Finalizing, Outcomes, Other, Cursors

LEMMA ClaimTypes ==
  ASSUME TypeInv, NEW r \in Replicas, NEW n \in 1..Len(order), Claims(n, r)
  PROVE  order[n] \in Coins /\ chunk' \in [Coins -> Chunk] /\ abandoned' \in [Coins -> Nat]
<1> USE DEF TypeInv, TypeOK
<1>1. order[n] \in Coins OBVIOUS
<1>2. CLAIM(chunk[order[n]], r) \in Chunk BY <1>1, StatementTypes
<1> QED BY <1>1, <1>2 DEF Claims, Write

LEMMA StepTypes == TypeInv /\ [Next]_vars => TypeInv'
<1> SUFFICES ASSUME TypeInv, [Next]_vars PROVE TypeInv' OBVIOUS
<1> USE DEF TypeInv, TypeOK, Busy, Finalizing, Write, Goto, Fault
<1>1. ASSUME NEW r \in Replicas, NEW c \in Coins, InsertJob(r, c) PROVE TypeInv'
  BY <1>1 DEF InsertJob, bvars, hvars
<1>2. ASSUME NEW r \in Replicas, InsertChunk(r) PROVE TypeInv'
  <2>1. enq[r] \in Coins BY <1>2 DEF InsertChunk
  <2>2. INSERT_CHUNK(chunk[enq[r]]) \in Chunk BY <2>1, StatementTypes
  <2> QED BY <1>2, <2>1, <2>2 DEF InsertChunk, bvars, hvars
<1>3. ASSUME NEW r \in Replicas, EnqueueFails(r) PROVE TypeInv'
  BY <1>3 DEF EnqueueFails, tvars, hvars
<1>4. ASSUME NEW c \in Coins, LeaseExpires(c) PROVE TypeInv'
  <2>1. [chunk[c] EXCEPT !.lease = "expired"] \in Chunk BY StatementTypes
  <2> QED BY <1>4, <2>1 DEF LeaseExpires, wvars, hvars
<1>5. ASSUME NEW r \in Replicas, Claim(r) PROVE TypeInv'
  <2>1. PICK n \in 1..Len(order) : /\ Claims(n, r) /\ item' = [item EXCEPT ![r] = order[n]]
                                   /\ seen' = [seen EXCEPT ![r] = chunk[order[n]].cursor]
    BY <1>5 DEF Claim
  <2>2. order[n] \in Coins /\ chunk' \in [Coins -> Chunk] /\ abandoned' \in [Coins -> Nat]
    BY <2>1, ClaimTypes
  <2>3. chunk[order[n]].cursor \in Cursors BY <2>2 DEF Chunk
  <2> QED BY <1>5, <2>1, <2>2, <2>3 DEF Claim, bvars
<1>6. ASSUME NEW r \in Replicas, ClaimLost(r) PROVE TypeInv'
  <2>1. PICK n \in 1..Len(order) : Claims(n, r) BY <1>6 DEF ClaimLost
  <2>2. chunk' \in [Coins -> Chunk] /\ abandoned' \in [Coins -> Nat] BY <2>1, ClaimTypes
  <2> QED BY <1>6, <2>2 DEF ClaimLost, wvars
<1>7. ASSUME NEW r \in Replicas, NEW o \in Outcomes, pc[r] = "work", Returns(r, o),
             stored' \in [Coins -> SUBSET Slots], skips' \in Nat, hiccups' \in Nat
      PROVE  TypeInv'
  BY <1>7 DEF Returns, hvars
<1>8. ASSUME NEW r \in Replicas, Fetch(r) PROVE TypeInv'
  <2>0. item[r] \in Coins /\ seen[r] \in Cursors /\ chain[item[r]] \in Chains BY <1>8 DEF Fetch
  <2>1. PICK mute \in SUBSET (1..Len(chain[item[r]])) :
          LET new == NewSlots(chain[item[r]], seen[r], mute) IN
          /\ hiccups' = hiccups + Cardinality(mute)
          /\ stored' = [stored EXCEPT ![item[r]] = @ \cup new]
          /\ Returns(r, Progress(IF new = {} THEN NoPage ELSE Newest(new)))
    BY <1>8 DEF Fetch
  <2> DEFINE new == NewSlots(chain[item[r]], seen[r], mute)
  <2>2. new \subseteq Slots BY <2>0, NewSlotsAre
  <2>3. new # {} => Newest(new) \in Slots BY <2>2, NewestIs
  <2>4. Progress(IF new = {} THEN NoPage ELSE Newest(new)) \in Outcomes BY <2>3 DEF Outcomes
  <2>5. hiccups' \in Nat
    <3>1. Len(chain[item[r]]) \in Nat BY <2>0, BackfillAssumption
    <3>2. IsFiniteSet(1..Len(chain[item[r]])) BY <3>1, FS_Interval
    <3>3. Cardinality(mute) \in Nat BY <3>2, FS_Subset, FS_CardinalityType
    <3> QED BY <2>1, <3>3
  <2>6. stored' \in [Coins -> SUBSET Slots] BY <2>0, <2>1, <2>2
  <2>7. skips' \in Nat BY <1>8 DEF Fetch
  <2> QED BY <1>7, <1>8, <2>1, <2>4, <2>5, <2>6, <2>7 DEF Fetch
<1>9. ASSUME NEW r \in Replicas, SoftSkip(r) \/ Fails(r) PROVE TypeInv'
  <2>1. PICK k \in {"soft_skip", "permanent", "transient"} : Returns(r, Other(k))
    BY <1>9 DEF SoftSkip, Fails
  <2>2. Other(k) \in Outcomes BY DEF Outcomes
  <2>3. /\ pc[r] = "work" /\ stored' \in [Coins -> SUBSET Slots] /\ skips' \in Nat /\ hiccups' \in Nat
    BY <1>9 DEF SoftSkip, Fails
  <2> QED BY <1>7, <2>1, <2>2, <2>3
<1>10. ASSUME NEW r \in Replicas, AdvanceCursor(r) PROVE TypeInv'
  <2>1. item[r] \in Coins BY <1>10 DEF AdvanceCursor
  <2>2. chunk' \in [Coins -> Chunk]
    <3>1. CASE UNCHANGED chunk BY <3>1
    <3>2. CASE Write(item[r], ADVANCE_CURSOR(chunk[item[r]], NextCursor(seen[r], outcome[r].max)))
      <4>1. outcome[r].max \in Slots \cup {NoPage} BY DEF Outcomes, Progress, Other
      <4>2. NextCursor(seen[r], outcome[r].max) \in Cursors
        BY <4>1, BackfillAssumption DEF NextCursor, RequestStart, Cursors, Slots
      <4>3. ADVANCE_CURSOR(chunk[item[r]], NextCursor(seen[r], outcome[r].max)) \in Chunk
        BY <2>1, <4>2, StatementTypes
      <4> QED BY <2>1, <3>2, <4>3
    <3> QED BY <1>10, <3>1, <3>2 DEF AdvanceCursor
  <2> QED BY <1>10, <2>1, <2>2 DEF AdvanceCursor, hvars
<1>11. ASSUME NEW r \in Replicas, Settle(r) PROVE TypeInv'
  <2>1. item[r] \in Coins BY <1>11 DEF Settle
  <2>2. Settlement(r, chunk[item[r]]) \in Chunk BY <2>1, SettlementType
  <2> DEFINE row == Settlement(r, chunk[item[r]])
             g   == IF outcome[r].kind = "transient" THEN genuine[item[r]] + 1 ELSE genuine[item[r]]
  <2>3. \/ chunk' = [chunk EXCEPT ![item[r]] = row] /\ genuine' = [genuine EXCEPT ![item[r]] = g]
        \/ UNCHANGED <<chunk, genuine>>
    BY <1>11 DEF Settle
  <2>4. row \in Chunk /\ g \in Nat BY <2>1, <2>2
  <2> HIDE DEF row, g
  <2>5. chunk' \in [Coins -> Chunk] /\ genuine' \in [Coins -> Nat]
    <3>1. CASE UNCHANGED <<chunk, genuine>> BY <2>1, <3>1
    <3>2. CASE chunk' = [chunk EXCEPT ![item[r]] = row] /\ genuine' = [genuine EXCEPT ![item[r]] = g]
      <4>1. chunk' \in [Coins -> Chunk] BY <2>1, <2>4, <3>2
      <4>2. genuine' \in [Coins -> Nat] BY <2>1, <2>4, <3>2
      <4> QED BY <4>1, <4>2
    <3> QED BY <2>3, <3>1, <3>2
  <2> QED BY <1>11, <2>5 DEF Settle
<1>12. ASSUME NEW r \in Replicas, Crash(r) PROVE TypeInv'
  BY <1>12 DEF Crash, tvars, hvars
<1>13. ASSUME UNCHANGED vars PROVE TypeInv'
  BY <1>13 DEF vars, tvars, wvars, bvars, hvars
<1> QED
  BY <1>1, <1>2, <1>3, <1>4, <1>5, <1>6, <1>8, <1>9, <1>10, <1>11, <1>12, <1>13
  DEF Next, Worker, Work, Quiet

\* Every reachable state is well typed: rows of backfill_chunks carry legal column values,
\* and a worker past its claim has the chunk of a coin in hand.
THEOREM TypeCorrect == Spec => []TypeOK
<1>1. Spec => []TypeInv BY InitTypes, StepTypes, PTL DEF Spec
<1>2. TypeInv => TypeOK BY DEF TypeInv
<1> QED BY <1>1, <1>2, PTL
-----------------------------------------------------------------------------
(* Ownership, and the ways a step touches the chunks.                      *)

\* Whoever inserted a job and not yet its chunk is alone with it; only a claimed
\* chunk has an owner; the chunks in order are there.
Owned ==
  /\ TypeInv
  /\ \A r \in Replicas : enq[r] # NoCoin => enq[r] \in job /\ chunk[enq[r]].status = "absent"
  /\ \A r, q \in Replicas : enq[r] # NoCoin /\ enq[r] = enq[q] => r = q
  /\ \A c \in Coins : c \notin job => chunk[c].status = "absent"
  /\ \A c \in Coins : chunk[c].claimed_by # NoReplica <=> chunk[c].status = "claimed"
  /\ \A n \in 1..Len(order) : chunk[order[n]].status # "absent"

Inserted(c)    == /\ chunk[c].status = "absent" /\ chunk' = [chunk EXCEPT ![c] = INSERT_CHUNK(chunk[c])]
                  /\ UNCHANGED hvars /\ \E r \in Replicas : InsertChunk(r) /\ enq[r] = c
Expired(c)     == /\ chunk[c].status = "claimed"
                  /\ chunk' = [chunk EXCEPT ![c] = [chunk[c] EXCEPT !.lease = "expired"]]
                  /\ UNCHANGED hvars
Taken(c, r)    == /\ Claimable(c) /\ pc[r] = "claim" /\ chunk' = [chunk EXCEPT ![c] = CLAIM(chunk[c], r)]
                  /\ abandoned' = [abandoned EXCEPT ![c] = IF chunk[c].status = "claimed" THEN @ + 1 ELSE @]
                  /\ UNCHANGED genuine
Advanced(c, r) == /\ chunk[c].status = "claimed" /\ Fence(c, r) /\ AdvanceCursor(r) /\ item[r] = c
                  /\ chunk' = [chunk EXCEPT ![c] = ADVANCE_CURSOR(chunk[c], NextCursor(seen[r], outcome[r].max))]
                  /\ UNCHANGED hvars
Closed(c, r)   == /\ chunk[c].status = "claimed" /\ Fence(c, r) /\ pc[r] = "settle" /\ item[r] = c
                  /\ chunk' = [chunk EXCEPT ![c] = Settlement(r, chunk[c])]
                  /\ genuine' = [genuine EXCEPT ![c] = IF outcome[r].kind = "transient" THEN @ + 1 ELSE @]
                  /\ UNCHANGED abandoned

ChunkStep ==
  \/ UNCHANGED <<chunk, genuine, abandoned>>
  \/ \E c \in Coins : Inserted(c) \/ Expired(c) \/ \E r \in Replicas : Taken(c, r) \/ Advanced(c, r) \/ Closed(c, r)

LEMMA StepIsChunkStep == Owned /\ [Next]_vars => ChunkStep
<1> SUFFICES ASSUME Owned, [Next]_vars PROVE ChunkStep OBVIOUS
<1> USE DEF Write, Goto
<1>1. /\ \A r \in Replicas : enq[r] # NoCoin => enq[r] \in Coins /\ chunk[enq[r]].status = "absent"
      /\ \A r \in Replicas : Busy(r) => item[r] \in Coins
      /\ \A n \in 1..Len(order) : order[n] \in Coins
  BY DEF Owned, TypeInv, TypeOK
<1>2. ASSUME NEW r \in Replicas, Busy(r), Fence(item[r], r)
      PROVE  item[r] \in Coins /\ chunk[item[r]].status = "claimed"
  BY <1>1, <1>2, BackfillAssumption DEF Owned, Fence
<1>3. ASSUME NEW r \in Replicas, NEW c \in Coins, InsertJob(r, c) PROVE ChunkStep
  BY <1>3 DEF InsertJob, ChunkStep, hvars
<1>4. ASSUME NEW r \in Replicas, InsertChunk(r) PROVE ChunkStep
  <2>1. Inserted(enq[r]) BY <1>1, <1>4 DEF InsertChunk, Inserted
  <2> QED BY <1>1, <1>4, <2>1 DEF ChunkStep, InsertChunk
<1>5. ASSUME NEW r \in Replicas, EnqueueFails(r) PROVE ChunkStep
  BY <1>5 DEF EnqueueFails, ChunkStep, tvars, hvars
<1>6. ASSUME NEW c \in Coins, LeaseExpires(c) PROVE ChunkStep
  BY <1>6 DEF LeaseExpires, ChunkStep, Expired
<1>7. ASSUME NEW r \in Replicas, Claim(r) \/ ClaimLost(r) PROVE ChunkStep
  <2>1. PICK n \in 1..Len(order) : Claims(n, r) /\ pc[r] = "claim" /\ UNCHANGED genuine
    BY <1>7 DEF Claim, ClaimLost
  <2>2. Taken(order[n], r) BY <2>1 DEF Claims, Taken
  <2> QED BY <1>1, <2>2 DEF ChunkStep
<1>8. ASSUME NEW r \in Replicas, Work(r) \/ Crash(r) PROVE ChunkStep
  BY <1>8 DEF Work, Fetch, SoftSkip, Fails, Returns, Crash, ChunkStep, tvars, hvars
<1>9. ASSUME NEW r \in Replicas, AdvanceCursor(r) PROVE ChunkStep
  <2>1. CASE UNCHANGED chunk BY <1>9, <2>1 DEF AdvanceCursor, ChunkStep, hvars
  <2>2. CASE ~UNCHANGED chunk
    <3>1. Fence(item[r], r) /\ Busy(r) BY <1>9, <2>2 DEF AdvanceCursor, Busy, Finalizing
    <3>2. Advanced(item[r], r) BY <1>2, <1>9, <2>2, <3>1 DEF AdvanceCursor, Advanced
    <3> QED BY <1>1, <3>1, <3>2 DEF ChunkStep
  <2> QED BY <2>1, <2>2
<1>10. ASSUME NEW r \in Replicas, Settle(r) PROVE ChunkStep
  <2>1. CASE UNCHANGED <<chunk, genuine>> BY <1>10, <2>1 DEF Settle, ChunkStep
  <2>2. CASE ~UNCHANGED <<chunk, genuine>>
    <3>1. Fence(item[r], r) /\ Busy(r) BY <1>10, <2>2 DEF Settle, Busy, Finalizing
    <3>2. Closed(item[r], r) BY <1>2, <1>10, <2>2, <3>1 DEF Settle, Closed
    <3> QED BY <1>1, <3>1, <3>2 DEF ChunkStep
  <2> QED BY <2>1, <2>2
<1>11. ASSUME UNCHANGED vars PROVE ChunkStep
  BY <1>11 DEF vars, tvars, hvars, ChunkStep
<1> QED BY <1>3, <1>4, <1>5, <1>6, <1>7, <1>8, <1>9, <1>10, <1>11 DEF Next, Worker, Quiet

\* Settlement, column by column.
LEMMA SettlementFields ==
  ASSUME NEW row \in Chunk, NEW r \in Replicas, outcome[r] \in Outcomes
  PROVE  LET new  == Settlement(r, row)
             o    == outcome[r].kind
             ends == o = "progress" /\ NextCursor(seen[r], outcome[r].max) >= End
         IN
         /\ o \in {"progress", "soft_skip", "permanent", "transient"}
         /\ new.claimed_by = NoReplica /\ new.status \in {"done", "pending", "failed"}
         /\ ends => /\ new.status = "done" /\ new.attempts = row.attempts /\ new.cursor = End
         /\ ~ends => new.cursor = row.cursor
         /\ o = "permanent" => /\ new.status = "failed" /\ new.attempts = row.attempts
                               /\ new.last_error = "permanent"
         /\ o = "transient" => /\ new.status = (IF row.attempts >= MaxAttempts THEN "failed" ELSE "pending")
                               /\ new.attempts = row.attempts /\ new.last_error = "transient"
<1>1. outcome[r].kind \in {"progress", "soft_skip", "permanent", "transient"}
  BY DEF Outcomes, Progress, Other
<1>2. /\ Disowned(row).claimed_by = NoReplica /\ Disowned(row).cursor = row.cursor
      /\ Disowned(row).attempts = row.attempts /\ Disowned(row) \in Chunk
  BY DEF Disowned, Chunk
<1> DEFINE d == Disowned(row)
<1>3. /\ COMPLETE(row) = [d EXCEPT !.status = "done", !.cursor = End]
      /\ FAIL_PERMANENT(row) = [d EXCEPT !.status = "failed", !.last_error = "permanent"]
      /\ FAIL_OR_RETRY(row) = [d EXCEPT !.last_error = "transient",
                                        !.status = IF row.attempts >= MaxAttempts THEN "failed" ELSE "pending"]
      /\ RELEASE(row) = [d EXCEPT !.status = "pending", !.last_error = "none",
                                  !.attempts = IF @ > 0 THEN @ - 1 ELSE 0]
  BY DEF COMPLETE, FAIL_PERMANENT, FAIL_OR_RETRY, RELEASE
<1> HIDE DEF d
<1>4. d \in Chunk /\ d.claimed_by = NoReplica /\ d.cursor = row.cursor /\ d.attempts = row.attempts
  BY <1>2 DEF d
<1> QED BY <1>1, <1>3, <1>4 DEF Settlement, Chunk
\* A page before the end and a soft skip release the chunk, with the attempt of the claim.
LEMMA Releases ==
  ASSUME NEW row \in Chunk, NEW r \in Replicas,
         outcome[r].kind \in {"progress", "soft_skip"},
         ~(outcome[r].kind = "progress" /\ NextCursor(seen[r], outcome[r].max) >= End)
  PROVE  /\ Settlement(r, row).status = "pending"
         /\ row.attempts > 0 => Settlement(r, row).attempts = row.attempts - 1
<1>1. Settlement(r, row) = RELEASE(row) BY DEF Settlement
<1>2. Disowned(row) \in Chunk /\ Disowned(row).attempts = row.attempts BY DEF Disowned, Chunk
<1> QED BY <1>1, <1>2 DEF RELEASE, Chunk

\* What a step does to one chunk.
LEMMA ChunkCases ==
  ASSUME Owned, ChunkStep, NEW c \in Coins
  PROVE  \/ chunk'[c] = chunk[c] /\ genuine'[c] = genuine[c] /\ abandoned'[c] = abandoned[c]
         \/ Inserted(c) /\ chunk'[c] = INSERT_CHUNK(chunk[c])
         \/ Expired(c) /\ chunk'[c] = [chunk[c] EXCEPT !.lease = "expired"]
         \/ \E r \in Replicas : Taken(c, r) /\ chunk'[c] = CLAIM(chunk[c], r)
         \/ \E r \in Replicas : /\ Advanced(c, r)
                                /\ chunk'[c] = ADVANCE_CURSOR(chunk[c], NextCursor(seen[r], outcome[r].max))
         \/ \E r \in Replicas : Closed(c, r) /\ chunk'[c] = Settlement(r, chunk[c])
<1>1. chunk \in [Coins -> Chunk] /\ genuine \in [Coins -> Nat] /\ abandoned \in [Coins -> Nat]
  BY DEF Owned, TypeInv, TypeOK
<1>2. ASSUME NEW d \in Coins, Inserted(d) \/ Expired(d) \/ \E r \in Replicas : Advanced(d, r), d # c
      PROVE  chunk'[c] = chunk[c] /\ genuine'[c] = genuine[c] /\ abandoned'[c] = abandoned[c]
  BY <1>1, <1>2 DEF Inserted, Expired, Advanced, hvars
<1>3. ASSUME NEW d \in Coins, NEW r \in Replicas, Taken(d, r) \/ Closed(d, r), d # c
      PROVE  chunk'[c] = chunk[c] /\ genuine'[c] = genuine[c] /\ abandoned'[c] = abandoned[c]
  BY <1>1, <1>3 DEF Taken, Closed
<1>4. Inserted(c) => chunk'[c] = INSERT_CHUNK(chunk[c]) BY <1>1 DEF Inserted
<1>5. Expired(c) => chunk'[c] = [chunk[c] EXCEPT !.lease = "expired"] BY <1>1 DEF Expired
<1>6. \A r \in Replicas : Taken(c, r) => chunk'[c] = CLAIM(chunk[c], r) BY <1>1 DEF Taken
<1>7. \A r \in Replicas : Advanced(c, r) =>
        chunk'[c] = ADVANCE_CURSOR(chunk[c], NextCursor(seen[r], outcome[r].max))
  BY <1>1 DEF Advanced
<1>8. \A r \in Replicas : Closed(c, r) => chunk'[c] = Settlement(r, chunk[c]) BY <1>1 DEF Closed
<1>9. CASE UNCHANGED <<chunk, genuine, abandoned>> BY <1>9
<1>10. CASE \E d \in Coins : Inserted(d) \/ Expired(d) \/ \E r \in Replicas : Taken(d, r) \/ Advanced(d, r) \/ Closed(d, r)
  BY <1>2, <1>3, <1>4, <1>5, <1>6, <1>7, <1>8, <1>10
<1> QED BY <1>9, <1>10 DEF ChunkStep

\* The status and the owner of a chunk after a step.
LEMMA StatusStep ==
  ASSUME Owned, ChunkStep, NEW c \in Coins
  PROVE  /\ chunk'[c].claimed_by # NoReplica <=> chunk'[c].status = "claimed"
         /\ chunk[c].status # "absent" => chunk'[c].status # "absent"
         /\ chunk[c].status = "absent" => chunk'[c] = chunk[c] \/ (Inserted(c) /\ chunk'[c].status = "pending")
<1>1. /\ chunk[c] \in Chunk /\ outcome \in [Replicas -> Outcomes]
      /\ chunk[c].claimed_by # NoReplica <=> chunk[c].status = "claimed"
  BY DEF Owned, TypeInv, TypeOK
<1>2. CASE chunk'[c] = chunk[c] BY <1>1, <1>2
<1>3. CASE Inserted(c) /\ chunk'[c] = INSERT_CHUNK(chunk[c])
  BY <1>1, <1>3 DEF Inserted, INSERT_CHUNK, Chunk
<1>4. CASE Expired(c) /\ chunk'[c] = [chunk[c] EXCEPT !.lease = "expired"]
  BY <1>1, <1>4 DEF Expired, Chunk
<1>5. ASSUME NEW r \in Replicas, Taken(c, r), chunk'[c] = CLAIM(chunk[c], r)
      PROVE  chunk'[c].status = "claimed" /\ chunk'[c].claimed_by = r /\ chunk[c].status # "absent"
  <2>1. chunk[c].status # "absent" BY <1>5 DEF Taken, Claimable
  <2>2. ASSUME NEW row \in Chunk PROVE CLAIM(row, r).status = "claimed" /\ CLAIM(row, r).claimed_by = r
    BY DEF CLAIM, Chunk
  <2> QED BY <1>1, <1>5, <2>1, <2>2
<1>6. ASSUME NEW r \in Replicas, NEW x, chunk'[c] = ADVANCE_CURSOR(chunk[c], x)
      PROVE  chunk'[c].status = chunk[c].status /\ chunk'[c].claimed_by = chunk[c].claimed_by
  BY <1>1, <1>6 DEF ADVANCE_CURSOR, Chunk
<1>7. ASSUME NEW r \in Replicas, Closed(c, r), chunk'[c] = Settlement(r, chunk[c])
      PROVE  /\ chunk'[c].status \in {"done", "pending", "failed"} /\ chunk'[c].claimed_by = NoReplica
             /\ chunk[c].status # "absent"
  <2>1. chunk[c].status # "absent" BY <1>7 DEF Closed
  <2>2. ASSUME NEW row \in Chunk, NEW o \in Outcomes, outcome[r] = o
        PROVE  /\ Settlement(r, row).status \in {"done", "pending", "failed"}
               /\ Settlement(r, row).claimed_by = NoReplica
    BY <2>2, SettlementFields
  <2> QED BY <1>1, <1>7, <2>1, <2>2
<1>8. \A r \in Replicas : Advanced(c, r) => chunk[c].status = "claimed" BY DEF Advanced
<1> QED BY <1>1, <1>2, <1>3, <1>4, <1>5, <1>6, <1>7, <1>8, ChunkCases, BackfillAssumption

LEMMA OwnedStep == Owned /\ [Next]_vars => Owned'
<1> SUFFICES ASSUME Owned, [Next]_vars PROVE Owned' OBVIOUS
<1>1. ChunkStep /\ TypeInv /\ TypeInv' BY StepIsChunkStep, StepTypes DEF Owned
<1>2. \A c \in Coins : chunk'[c].claimed_by # NoReplica <=> chunk'[c].status = "claimed"
  BY <1>1, StatusStep
<1> DEFINE Enqueuing(r) == enq[r] # NoCoin => enq[r] \in job /\ chunk[enq[r]].status = "absent"
           Alone(r, q)  == enq[r] # NoCoin /\ enq[r] = enq[q] => r = q
           Jobless(c)   == c \notin job => chunk[c].status = "absent"
           There(n)     == chunk[order[n]].status # "absent"
           Rest         == /\ \A r \in Replicas : Enqueuing(r)
                           /\ \A r, q \in Replicas : Alone(r, q)
                           /\ \A c \in Coins : Jobless(c)
                           /\ \A n \in 1..Len(order) : There(n)
<1>3. Rest BY DEF Owned
<1>4. /\ enq \in [Replicas -> Coins \cup {NoCoin}] /\ order \in Seq(Coins) /\ chunk \in [Coins -> Chunk]
      /\ NoCoin \notin Coins
  BY BackfillAssumption DEF Owned, TypeInv, TypeOK
<1>5. ASSUME NEW r \in Replicas, NEW c \in Coins, InsertJob(r, c) PROVE Rest'
  BY <1>3, <1>4, <1>5 DEF InsertJob
<1>6. ASSUME NEW r \in Replicas, InsertChunk(r) PROVE Rest'
  <2>1. /\ enq[r] \in Coins /\ enq' = [enq EXCEPT ![r] = NoCoin] /\ job' = job
        /\ order' = Append(order, enq[r])
        /\ chunk' = [chunk EXCEPT ![enq[r]] = INSERT_CHUNK(chunk[enq[r]])]
    BY <1>4, <1>6 DEF InsertChunk, Write
  <2>2. enq[r] \in job /\ chunk[enq[r]].status = "absent" BY <1>3, <2>1, <1>4
  <2>3. chunk'[enq[r]].status = "pending" BY <1>4, <2>1 DEF INSERT_CHUNK, Chunk
  <2>4. \A q \in Replicas : Enqueuing(q)'
    <3> SUFFICES ASSUME NEW q \in Replicas, enq'[q] # NoCoin
                 PROVE  enq'[q] \in job' /\ chunk'[enq'[q]].status = "absent"
      OBVIOUS
    <3>1. q # r /\ enq'[q] = enq[q] BY <1>4, <2>1
    <3>2. enq[q] # enq[r] BY <1>3, <3>1
    <3> QED BY <1>3, <1>4, <2>1, <3>1, <3>2
  <2>5. \A q, s \in Replicas : Alone(q, s)' BY <1>3, <1>4, <2>1
  <2>6. \A c \in Coins : Jobless(c)' BY <1>3, <1>4, <2>1, <2>2
  <2>7. \A n \in 1..Len(order') : There(n)'
    <3> SUFFICES ASSUME NEW n \in 1..Len(order') PROVE There(n)' OBVIOUS
    <3>1. CASE n \in 1..Len(order)
      <4>1. order'[n] = order[n] /\ order[n] \in Coins BY <1>4, <2>1, <3>1
      <4> QED BY <1>1, <1>3, <3>1, <4>1, StatusStep
    <3>2. CASE n = Len(order) + 1 BY <1>4, <2>1, <2>3, <3>2
    <3> QED BY <1>4, <2>1, <3>1, <3>2
  <2> QED BY <2>4, <2>5, <2>6, <2>7
<1>7. ASSUME NEW r \in Replicas, EnqueueFails(r) PROVE Rest'
  BY <1>3, <1>4, <1>7 DEF EnqueueFails, tvars
<1>8. ASSUME UNCHANGED <<enq, job, order>> PROVE Rest'
  <2>1. \A c \in Coins : ~Inserted(c)
    <3> SUFFICES ASSUME NEW c \in Coins, Inserted(c) PROVE FALSE OBVIOUS
    <3>1. PICK r \in Replicas : InsertChunk(r) BY DEF Inserted
    <3>2. enq'[r] = NoCoin /\ enq[r] # NoCoin BY <1>4, <3>1 DEF InsertChunk
    <3> QED BY <1>8, <3>2
  <2>2. \A c \in Coins : chunk'[c].status = "absent" <=> chunk[c].status = "absent"
    BY <1>1, <2>1, StatusStep
  <2> QED BY <1>3, <1>4, <1>8, <2>2
<1>9. UNCHANGED <<enq, job, order>> \/ (\E r \in Replicas : InsertChunk(r) \/ EnqueueFails(r))
        \/ \E r \in Replicas, c \in Coins : InsertJob(r, c)
  BY DEF Next, Worker, Work, LeaseExpires, Claim, ClaimLost, Fetch, SoftSkip, Fails, Returns,
         AdvanceCursor, Settle, Crash, Quiet, vars, tvars, wvars
<1>10. Rest' BY <1>5, <1>6, <1>7, <1>8, <1>9
<1> QED BY <1>1, <1>2, <1>10 DEF Owned

LEMMA InitOwned == Init => Owned
BY InitTypes DEF Init, AbsentChunk, Owned

LEMMA OwnedAlways == Spec => []Owned
BY InitOwned, OwnedStep, PTL DEF Spec
-----------------------------------------------------------------------------
(* Attempts.                                                               *)

\* A chunk that is not there owes nothing.
Books == /\ Owned /\ WalkIsFree
         /\ \A c \in Coins : chunk[c].status = "absent" =>
              chunk[c].attempts = 0 /\ genuine[c] = 0 /\ abandoned[c] = 0

LEMMA BooksStep == Books /\ [Next]_vars => Books'
<1> SUFFICES ASSUME Books, [Next]_vars PROVE Books' OBVIOUS
<1>1. ChunkStep /\ Owned /\ Owned' BY StepIsChunkStep, OwnedStep DEF Books
<1> DEFINE Spent(c) == genuine[c] + abandoned[c] + (IF ClaimOpen(c) THEN 1 ELSE 0)
           Kept(c)  == /\ chunk[c].status # "absent" => chunk[c].attempts = Spent(c)
                       /\ chunk[c].status = "absent" =>
                            chunk[c].attempts = 0 /\ genuine[c] = 0 /\ abandoned[c] = 0
<1>2. ASSUME NEW c \in Coins PROVE Kept(c)'
  <2>1. /\ chunk[c] \in Chunk /\ genuine[c] \in Nat /\ abandoned[c] \in Nat /\ chunk[c].attempts \in Nat
        /\ genuine \in [Coins -> Nat] /\ abandoned \in [Coins -> Nat]
        /\ outcome \in [Replicas -> Outcomes]
    BY <1>1 DEF Owned, TypeInv, TypeOK, Chunk
  <2>2. Kept(c) BY DEF Books, WalkIsFree
  <2>3. CASE chunk'[c] = chunk[c] /\ genuine'[c] = genuine[c] /\ abandoned'[c] = abandoned[c]
    BY <2>2, <2>3 DEF ClaimOpen
  <2>4. CASE Inserted(c) /\ chunk'[c] = INSERT_CHUNK(chunk[c])
    <3>1. chunk'[c].status = "pending" /\ chunk'[c].attempts = chunk[c].attempts
      BY <2>1, <2>4 DEF INSERT_CHUNK, Chunk
    <3>2. genuine'[c] = 0 /\ abandoned'[c] = 0 /\ chunk[c].attempts = 0 BY <2>2, <2>4 DEF Inserted, hvars
    <3> QED BY <3>1, <3>2 DEF ClaimOpen
  <2>5. CASE Expired(c) /\ chunk'[c] = [chunk[c] EXCEPT !.lease = "expired"]
    <3>1. /\ chunk'[c].status = chunk[c].status /\ chunk'[c].attempts = chunk[c].attempts
          /\ chunk'[c].last_error = chunk[c].last_error
      BY <2>1, <2>5 DEF Chunk
    <3>2. genuine'[c] = genuine[c] /\ abandoned'[c] = abandoned[c] BY <2>5 DEF Expired, hvars
    <3> QED BY <2>2, <3>1, <3>2 DEF ClaimOpen
  <2>6. ASSUME NEW r \in Replicas, Taken(c, r), chunk'[c] = CLAIM(chunk[c], r) PROVE Kept(c)'
    <3>1. chunk'[c].status = "claimed" /\ chunk'[c].attempts = chunk[c].attempts + 1
      BY <2>1, <2>6 DEF CLAIM, Chunk
    <3>2. /\ genuine'[c] = genuine[c]
          /\ abandoned'[c] = IF chunk[c].status = "claimed" THEN abandoned[c] + 1 ELSE abandoned[c]
      BY <2>1, <2>6 DEF Taken
    <3>3. chunk[c].status \in {"pending", "claimed"} BY <2>6 DEF Taken, Claimable
    <3>4. chunk[c].attempts = genuine[c] + abandoned[c] + (IF chunk[c].status = "claimed" THEN 1 ELSE 0)
      BY <2>2, <3>3 DEF ClaimOpen
    <3>5. ClaimOpen(c)' BY <3>1 DEF ClaimOpen
    <3> QED BY <2>1, <3>1, <3>2, <3>4, <3>5
  <2>7. ASSUME NEW r \in Replicas, Advanced(c, r),
               chunk'[c] = ADVANCE_CURSOR(chunk[c], NextCursor(seen[r], outcome[r].max))
        PROVE  Kept(c)'
    <3>1. /\ chunk'[c].status = chunk[c].status /\ chunk'[c].attempts = chunk[c].attempts
          /\ chunk'[c].last_error = chunk[c].last_error
      BY <2>1, <2>7 DEF ADVANCE_CURSOR, Chunk
    <3>2. genuine'[c] = genuine[c] /\ abandoned'[c] = abandoned[c] BY <2>7 DEF Advanced, hvars
    <3> QED BY <2>2, <3>1, <3>2 DEF ClaimOpen
  <2>8. ASSUME NEW r \in Replicas, Closed(c, r), chunk'[c] = Settlement(r, chunk[c]) PROVE Kept(c)'
    <3>1. chunk[c].status = "claimed" /\ chunk[c].attempts = genuine[c] + abandoned[c] + 1
      BY <2>2, <2>8 DEF Closed, ClaimOpen
    <3>2. /\ abandoned'[c] = abandoned[c]
          /\ genuine'[c] = IF outcome[r].kind = "transient" THEN genuine[c] + 1 ELSE genuine[c]
      BY <2>1, <2>8 DEF Closed
    <3> DEFINE k    == outcome[r].kind
               ends == k = "progress" /\ NextCursor(seen[r], outcome[r].max) >= End
               new  == Settlement(r, chunk[c])
    <3>3. outcome[r] \in Outcomes BY <2>1
    <3>4. CASE ends
      <4>1. new.status = "done" /\ new.attempts = chunk[c].attempts BY <2>1, <3>3, <3>4, SettlementFields
      <4> QED BY <2>8, <3>1, <3>2, <3>4, <4>1 DEF ClaimOpen
    <3>5. CASE k = "permanent"
      <4>1. new.status = "failed" /\ new.attempts = chunk[c].attempts /\ new.last_error = "permanent"
        BY <2>1, <3>3, <3>5, SettlementFields
      <4> QED BY <2>8, <3>1, <3>2, <3>5, <4>1 DEF ClaimOpen
    <3>6. CASE k = "transient"
      <4>1. new.status \in {"failed", "pending"} /\ new.attempts = chunk[c].attempts /\ new.last_error = "transient"
        BY <2>1, <3>3, <3>6, SettlementFields
      <4> QED BY <2>1, <2>8, <3>1, <3>2, <3>6, <4>1 DEF ClaimOpen
    <3>7. CASE k \in {"progress", "soft_skip"} /\ ~ends
      <4>1. new.status = "pending" /\ (chunk[c].attempts > 0 => new.attempts = chunk[c].attempts - 1)
        <5> HIDE DEF k, ends
        <5>1. /\ k = outcome[r].kind
              /\ ends <=> (k = "progress" /\ NextCursor(seen[r], outcome[r].max) >= End)
          BY DEF k, ends
        <5>2. /\ outcome[r].kind \in {"progress", "soft_skip"}
              /\ ~(outcome[r].kind = "progress" /\ NextCursor(seen[r], outcome[r].max) >= End)
          BY <3>7, <5>1
        <5> QED BY <2>1, <5>2, Releases
      <4> QED BY <2>1, <2>8, <3>1, <3>2, <3>7, <4>1 DEF ClaimOpen
    <3>8. k \in {"progress", "soft_skip", "permanent", "transient"} BY <2>1, <3>3, SettlementFields
    <3> QED BY <3>4, <3>5, <3>6, <3>7, <3>8
  <2> QED BY <1>1, <2>3, <2>4, <2>5, <2>6, <2>7, <2>8, ChunkCases
<1> QED BY <1>1, <1>2 DEF Books, WalkIsFree

\* Pages walked and soft skips cost nothing: the attempts of a chunk are its recorded
\* failures, its lost claims and the claim that is open, whoever crashes when.
THEOREM PagesAreFree == Spec => []WalkIsFree
<1>1. Init => Books BY InitOwned DEF Init, AbsentChunk, Books, WalkIsFree
<1>2. Books => WalkIsFree BY DEF Books
<1> QED BY <1>1, <1>2, BooksStep, PTL DEF Spec
-----------------------------------------------------------------------------
(* The cursor.                                                             *)

\* A page lies behind the cursor it was asked for at, and as long as a worker owns its
\* chunk and has not moved the cursor, the cursor is the one it saw.
Ahead(r) == pc[r] \in {"advance", "settle"} /\ outcome[r].kind = "progress" /\ outcome[r].max # NoPage
              => AfterCursor(outcome[r].max, seen[r])
SawIt(r) == pc[r] \in {"work", "advance"} /\ Fence(item[r], r) => chunk[item[r]].cursor = seen[r]
Walking == Owned /\ \A r \in Replicas : Ahead(r) /\ SawIt(r) /\ (pc[r] = "advance" => outcome[r].kind = "progress")

\* A step leaves a worker where it is, or is one of its own.
LEMMA WorkerStep ==
  ASSUME TypeInv, [Next]_vars, NEW r \in Replicas
  PROVE  \/ pc'[r] = pc[r] /\ item'[r] = item[r] /\ seen'[r] = seen[r] /\ outcome'[r] = outcome[r]
         \/ Claim(r) /\ pc'[r] = "work"
         \/ Work(r) /\ pc[r] = "work" /\ item'[r] = item[r] /\ seen'[r] = seen[r]
         \/ AdvanceCursor(r) /\ pc[r] = "advance" /\ pc'[r] = "settle" /\ item'[r] = item[r]
              /\ seen'[r] = seen[r] /\ outcome'[r] = outcome[r]
         \/ pc'[r] = "claim"
<1> USE DEF TypeInv, TypeOK, Goto
<1>1. ASSUME NEW q \in Replicas, InsertChunk(q) \/ EnqueueFails(q) \/ ClaimLost(q)
               \/ (\E c \in Coins : InsertJob(q, c))
      PROVE  pc'[r] = pc[r] /\ item'[r] = item[r] /\ seen'[r] = seen[r] /\ outcome'[r] = outcome[r]
  BY <1>1 DEF InsertChunk, EnqueueFails, ClaimLost, InsertJob, wvars
<1>2. ASSUME (\E c \in Coins : LeaseExpires(c)) \/ UNCHANGED vars
      PROVE  pc'[r] = pc[r] /\ item'[r] = item[r] /\ seen'[r] = seen[r] /\ outcome'[r] = outcome[r]
  BY <1>2 DEF LeaseExpires, wvars, vars
<1>3. ASSUME NEW q \in Replicas, q # r, Claim(q) \/ Work(q) \/ AdvanceCursor(q) \/ Settle(q) \/ Crash(q)
      PROVE  pc'[r] = pc[r] /\ item'[r] = item[r] /\ seen'[r] = seen[r] /\ outcome'[r] = outcome[r]
  BY <1>3 DEF Claim, Work, Fetch, SoftSkip, Fails, Returns, AdvanceCursor, Settle, Crash
<1>4. Claim(r) => pc'[r] = "work" BY DEF Claim
<1>5. Work(r) => pc[r] = "work" /\ item'[r] = item[r] /\ seen'[r] = seen[r]
  BY DEF Work, Fetch, SoftSkip, Fails, Returns
<1>6. AdvanceCursor(r) => /\ pc[r] = "advance" /\ pc'[r] = "settle" /\ item'[r] = item[r]
                          /\ seen'[r] = seen[r] /\ outcome'[r] = outcome[r]
  BY DEF AdvanceCursor
<1>7. Settle(r) \/ Crash(r) => pc'[r] = "claim" BY DEF Settle, Crash
<1> QED BY <1>1, <1>2, <1>3, <1>4, <1>5, <1>6, <1>7 DEF Next, Worker, Quiet

\* What a worker's page is.
LEMMA WorkStep ==
  ASSUME TypeInv, NEW r \in Replicas, Work(r)
  PROVE  /\ item[r] \in Coins /\ seen[r] \in Cursors /\ chain[item[r]] \in Chains
         /\ UNCHANGED <<chunk, chain>>
         /\ \/ pc'[r] = "settle" /\ outcome'[r].kind # "progress" /\ UNCHANGED <<stored, hiccups>>
            \/ \E mute \in SUBSET (1..Len(chain[item[r]])) :
                 LET new == NewSlots(chain[item[r]], seen[r], mute) IN
                 /\ pc'[r] = "advance" /\ hiccups' = hiccups + Cardinality(mute)
                 /\ stored' = [stored EXCEPT ![item[r]] = @ \cup new]
                 /\ outcome'[r] = Progress(IF new = {} THEN NoPage ELSE Newest(new))
<1> USE DEF TypeInv, TypeOK, Goto, Busy
<1>1. pc[r] = "work" BY DEF Work, Fetch, SoftSkip, Fails
<1>2. CASE SoftSkip(r) \/ Fails(r)
  <2>1. PICK k \in {"soft_skip", "permanent", "transient"} : Returns(r, Other(k)) BY <1>2 DEF SoftSkip, Fails
  <2>2. outcome'[r].kind = k /\ k # "progress" /\ Other(k).kind = k BY <2>1 DEF Returns, Other
  <2>3. pc'[r] = "settle" /\ UNCHANGED <<chunk, chain>> BY <2>1, <2>2 DEF Returns
  <2> QED BY <1>1, <1>2, <2>2, <2>3 DEF SoftSkip, Fails
<1>3. CASE Fetch(r)
  <2>1. PICK mute \in SUBSET (1..Len(chain[item[r]])) :
          LET new == NewSlots(chain[item[r]], seen[r], mute) IN
          /\ hiccups' = hiccups + Cardinality(mute)
          /\ stored' = [stored EXCEPT ![item[r]] = @ \cup new]
          /\ Returns(r, Progress(IF new = {} THEN NoPage ELSE Newest(new)))
    BY <1>3 DEF Fetch
  <2> DEFINE o == Progress(IF NewSlots(chain[item[r]], seen[r], mute) = {} THEN NoPage
                           ELSE Newest(NewSlots(chain[item[r]], seen[r], mute)))
  <2>2. Returns(r, o) /\ o.kind = "progress" BY <2>1 DEF Progress
  <2> HIDE DEF o
  <2>3. outcome'[r] = o /\ pc'[r] = "advance" /\ UNCHANGED <<chunk, chain>> BY <2>2 DEF Returns
  <2> QED BY <1>1, <2>1, <2>3 DEF o
<1> QED BY <1>2, <1>3 DEF Work

\* Only the worker itself comes to own a chunk, and only by its claim.
LEMMA FenceStep ==
  ASSUME Owned, [Next]_vars, NEW r \in Replicas, NEW c \in Coins, pc[r] # "claim", Fence(c, r)'
  PROVE  /\ Fence(c, r)
         /\ \/ chunk'[c].cursor = chunk[c].cursor
            \/ Advanced(c, r) /\ chunk'[c].cursor = NextCursor(seen[r], outcome[r].max)
<1>1. ChunkStep /\ chunk[c] \in Chunk /\ outcome[r] \in Outcomes BY StepIsChunkStep DEF Owned, TypeInv, TypeOK
<1>2. chunk'[c].claimed_by = r /\ r # NoReplica BY BackfillAssumption DEF Fence
<1>3. CASE chunk'[c] = chunk[c] BY <1>2, <1>3 DEF Fence
<1>4. CASE Inserted(c) /\ chunk'[c] = INSERT_CHUNK(chunk[c])
  <2>1. chunk'[c].claimed_by = chunk[c].claimed_by /\ chunk[c].status # "claimed"
    BY <1>1, <1>4 DEF Inserted, INSERT_CHUNK, Chunk
  <2> QED BY <1>2, <2>1 DEF Owned
<1>5. CASE Expired(c) /\ chunk'[c] = [chunk[c] EXCEPT !.lease = "expired"]
  BY <1>1, <1>2, <1>5 DEF Chunk, Fence
<1>6. ASSUME NEW q \in Replicas, Taken(c, q), chunk'[c] = CLAIM(chunk[c], q) PROVE FALSE
  <2>1. ASSUME NEW row \in Chunk PROVE CLAIM(row, q).claimed_by = q BY DEF CLAIM, Chunk
  <2>2. q = r BY <1>1, <1>2, <1>6, <2>1
  <2> QED BY <1>6, <2>2 DEF Taken
<1>7. ASSUME NEW q \in Replicas, Advanced(c, q),
             chunk'[c] = ADVANCE_CURSOR(chunk[c], NextCursor(seen[q], outcome[q].max))
      PROVE  q = r /\ Fence(c, r) /\ chunk'[c].cursor = NextCursor(seen[r], outcome[r].max)
  <2>1. /\ chunk'[c].claimed_by = chunk[c].claimed_by
        /\ chunk'[c].cursor = NextCursor(seen[q], outcome[q].max)
    BY <1>1, <1>7 DEF ADVANCE_CURSOR, Chunk
  <2>2. chunk[c].claimed_by = q BY <1>7 DEF Advanced, Fence
  <2> QED BY <1>2, <2>1, <2>2 DEF Fence
<1>8. ASSUME NEW q \in Replicas, Closed(c, q), chunk'[c] = Settlement(q, chunk[c]) PROVE FALSE
  <2>1. outcome[q] \in Outcomes BY DEF Owned, TypeInv, TypeOK
  <2>2. chunk'[c].claimed_by = NoReplica BY <1>1, <1>8, <2>1, SettlementFields
  <2> QED BY <1>2, <2>2
<1> QED BY <1>1, <1>3, <1>4, <1>5, <1>6, <1>7, <1>8, ChunkCases

LEMMA WalkingStep == Walking /\ [Next]_vars => Walking'
<1> SUFFICES ASSUME Walking, [Next]_vars, NEW r \in Replicas
             PROVE  Ahead(r)' /\ SawIt(r)' /\ (pc'[r] = "advance" => outcome'[r].kind = "progress")
  BY OwnedStep DEF Walking
<1>0. /\ Owned /\ TypeInv /\ TypeInv' /\ Ahead(r) /\ SawIt(r) /\ (pc[r] = "advance" => outcome[r].kind = "progress")
      /\ pc[r] \in {"claim", "work", "advance", "settle"}
      /\ (Busy(r) => item[r] \in Coins)
  BY StepTypes DEF Walking, Owned, TypeInv, TypeOK
<1>1. ASSUME item'[r] = item[r], seen'[r] = seen[r], pc[r] \in {"work", "advance"}, ~AdvanceCursor(r)
      PROVE  Fence(item[r], r)' => chunk'[item[r]].cursor = seen[r]
  <2> SUFFICES ASSUME Fence(item[r], r)' PROVE chunk'[item[r]].cursor = seen[r]
    OBVIOUS
  <2>1. item[r] \in Coins BY <1>0, <1>1 DEF Busy, Finalizing
  <2>2. /\ Fence(item[r], r)
        /\ chunk'[item[r]].cursor = chunk[item[r]].cursor \/ Advanced(item[r], r)
    BY <1>0, <1>1, <2>1, FenceStep
  <2>3. chunk[item[r]].cursor = seen[r] BY <1>0, <1>1, <2>2 DEF SawIt
  <2> QED BY <1>1, <2>2, <2>3 DEF Advanced
<1>2. CASE pc'[r] = pc[r] /\ item'[r] = item[r] /\ seen'[r] = seen[r] /\ outcome'[r] = outcome[r]
  <2>1. Ahead(r)' /\ (pc'[r] = "advance" => outcome'[r].kind = "progress")
    BY <1>0, <1>2 DEF Ahead
  <2>2. ~AdvanceCursor(r) \/ pc'[r] = "settle"
    BY <1>0 DEF AdvanceCursor, Goto, TypeInv, TypeOK
  <2>3. SawIt(r)' BY <1>1, <1>2, <2>2 DEF SawIt, Fence
  <2> QED BY <2>1, <2>3
<1>3. CASE Claim(r) /\ pc'[r] = "work"
  <2>1. PICK n \in 1..Len(order) : /\ Claims(n, r) /\ item' = [item EXCEPT ![r] = order[n]]
                                   /\ seen' = [seen EXCEPT ![r] = chunk[order[n]].cursor]
    BY <1>3 DEF Claim
  <2>2. /\ order[n] \in Coins /\ chunk[order[n]] \in Chunk /\ chunk \in [Coins -> Chunk]
        /\ item'[r] = order[n] /\ seen'[r] = chunk[order[n]].cursor
    BY <1>0, <2>1 DEF TypeInv, TypeOK
  <2>3. chunk'[order[n]] = CLAIM(chunk[order[n]], r) BY <2>1, <2>2 DEF Claims, Write
  <2>4. ASSUME NEW row \in Chunk PROVE CLAIM(row, r).cursor = row.cursor BY DEF CLAIM, Chunk
  <2> QED BY <1>3, <2>2, <2>3, <2>4 DEF Ahead, SawIt
<1>4. CASE Work(r) /\ pc[r] = "work" /\ item'[r] = item[r] /\ seen'[r] = seen[r]
  <2>1. item[r] \in Coins /\ seen[r] \in Cursors /\ chain[item[r]] \in Chains /\ UNCHANGED chunk
    BY <1>0, <1>4, WorkStep
  <2>2. SawIt(r)' BY <1>0, <1>4, <2>1 DEF SawIt, Fence
  <2>3. CASE pc'[r] = "settle" /\ outcome'[r].kind # "progress" BY <2>2, <2>3 DEF Ahead
  <2>4. ASSUME NEW mute \in SUBSET (1..Len(chain[item[r]])), NEW new,
               new = NewSlots(chain[item[r]], seen[r], mute),
               pc'[r] = "advance", outcome'[r] = Progress(IF new = {} THEN NoPage ELSE Newest(new))
        PROVE  Ahead(r)' /\ outcome'[r].kind = "progress"
    <3>1. new \subseteq Slots /\ \A t \in new : AfterCursor(t, seen[r]) BY <2>1, <2>4, NewSlotsAre
    <3>2. new # {} => AfterCursor(Newest(new), seen[r]) BY <3>1, NewestIs
    <3>3. outcome'[r].max = (IF new = {} THEN NoPage ELSE Newest(new)) /\ outcome'[r].kind = "progress"
      BY <2>4 DEF Progress
    <3> QED BY <1>4, <3>2, <3>3 DEF Ahead
  <2> QED BY <1>0, <1>4, <2>2, <2>3, <2>4, WorkStep
<1>5. CASE /\ AdvanceCursor(r) /\ pc[r] = "advance" /\ pc'[r] = "settle" /\ item'[r] = item[r]
           /\ seen'[r] = seen[r] /\ outcome'[r] = outcome[r]
  BY <1>0, <1>5 DEF Ahead, SawIt
<1>6. CASE pc'[r] = "claim" BY <1>6 DEF Ahead, SawIt
<1> QED BY <1>0, <1>2, <1>3, <1>4, <1>5, <1>6, WorkerStep

\* The walk never goes back, and a settled chunk keeps its cursor, its owner and its
\* verdict whatever a worker that lost it still does.
THEOREM NothingGoesBack == Spec => NeverBack
<1> DEFINE Kept(c) == /\ chunk[c].cursor # NoCursor
                           => chunk'[c].cursor # NoCursor /\ chunk'[c].cursor >= chunk[c].cursor
                      /\ Settled(c) => chunk'[c] = chunk[c]
<1>1. ASSUME Walking, [Next]_vars, NEW c \in Coins PROVE Kept(c)
  <2>1. /\ Owned /\ ChunkStep /\ chunk[c] \in Chunk /\ outcome \in [Replicas -> Outcomes]
        /\ seen \in [Replicas -> Cursors]
    BY <1>1, StepIsChunkStep DEF Walking, Owned, TypeInv, TypeOK
  <2>2. chunk[c].cursor \in Cursors /\ (chunk[c].cursor # NoCursor => chunk[c].cursor >= chunk[c].cursor)
    BY <2>1, BackfillAssumption DEF Chunk, Cursors
  <2>3. CASE chunk'[c] = chunk[c] BY <2>2, <2>3
  <2>4. ASSUME chunk'[c].cursor = chunk[c].cursor, ~Settled(c) PROVE Kept(c) BY <2>2, <2>4
  <2>5. CASE Inserted(c) /\ chunk'[c] = INSERT_CHUNK(chunk[c])
    BY <2>1, <2>4, <2>5 DEF Inserted, INSERT_CHUNK, Chunk, Settled
  <2>6. CASE Expired(c) /\ chunk'[c] = [chunk[c] EXCEPT !.lease = "expired"]
    BY <2>1, <2>4, <2>6 DEF Expired, Chunk, Settled
  <2>7. ASSUME NEW r \in Replicas, Taken(c, r), chunk'[c] = CLAIM(chunk[c], r) PROVE Kept(c)
    <3>1. ASSUME NEW row \in Chunk PROVE CLAIM(row, r).cursor = row.cursor BY DEF CLAIM, Chunk
    <3> QED BY <2>1, <2>4, <2>7, <3>1 DEF Taken, Claimable, Settled
  <2>8. ASSUME NEW r \in Replicas, Advanced(c, r),
               chunk'[c] = ADVANCE_CURSOR(chunk[c], NextCursor(seen[r], outcome[r].max))
        PROVE  Kept(c)
    <3> DEFINE x == NextCursor(seen[r], outcome[r].max)
    <3>1. pc[r] = "advance" /\ Fence(item[r], r) /\ item[r] = c /\ ~Settled(c)
      BY <2>8 DEF Advanced, AdvanceCursor, Settled
    <3>2. chunk[c].cursor = seen[r] /\ Ahead(r) /\ outcome[r].kind = "progress"
      BY <1>1, <3>1 DEF Walking, SawIt
    <3>3. outcome[r].max \in Slots \cup {NoPage} BY <2>1 DEF Outcomes, Progress, Other
    <3>4. x \in 0..End /\ x # NoCursor /\ (seen[r] # NoCursor => x >= seen[r])
      BY <2>1, <3>1, <3>2, <3>3, NextCursorIs DEF Ahead
    <3> HIDE DEF x
    <3>5. chunk'[c].cursor = x BY <2>1, <2>8 DEF ADVANCE_CURSOR, Chunk, x
    <3> QED BY <3>1, <3>2, <3>4, <3>5
  <2>9. ASSUME NEW r \in Replicas, Closed(c, r), chunk'[c] = Settlement(r, chunk[c]) PROVE Kept(c)
    <3>1. chunk'[c].cursor = chunk[c].cursor \/ chunk'[c].cursor = End
      BY <2>1, <2>9, SettlementFields
    <3>2. ~Settled(c) BY <2>9 DEF Closed, Settled
    <3>3. End \in Nat /\ End # NoCursor /\ \A x \in Cursors : x # NoCursor => x \in Nat /\ x <= End
      BY BackfillAssumption DEF Cursors
    <3> QED BY <2>2, <3>1, <3>2, <3>3
  <2> QED BY <2>1, <2>3, <2>5, <2>6, <2>7, <2>8, <2>9, ChunkCases
<1>2. Walking /\ [Next]_vars => [\A c \in Coins : Kept(c)]_vars BY <1>1
<1>3. Init => Walking BY InitOwned DEF Init, Walking, Ahead, SawIt
<1> QED BY <1>2, <1>3, WalkingStep, PTL DEF Spec, NeverBack
-----------------------------------------------------------------------------
(* BackfillChunks implements WorkLedger.                                   *)

Named(c) == IF chunk[c].status = "absent" THEN NoCoin ELSE c
Spent(c) == genuine[c] + abandoned[c]

LEMMA LedgerInit == Init => Ledger!Init
BY DEF Init, AbsentChunk, Ledger!Init, Job, Live

\* A step that touches the chunk of c only is a ledger step on job c.
LEMMA LedgerFrame ==
  ASSUME NEW c \in Coins, \A d \in Coins \ {c} : Job(d)' = Job(d) /\ Named(d)' = Named(d) /\ Spent(d)' = Spent(d)
  PROVE  /\ [d \in Coins |-> Job(d)]' = [[d \in Coins |-> Job(d)] EXCEPT ![c] = Job(c)']
         /\ [d \in Coins |-> Named(d)]' = [[d \in Coins |-> Named(d)] EXCEPT ![c] = Named(c)']
         /\ [d \in Coins |-> Spent(d)]' = [[d \in Coins |-> Spent(d)] EXCEPT ![c] = Spent(c)']
OBVIOUS

\* The seven things a chunk step can be to the ledger.
LEMMA LedgerKinds ==
  ASSUME NEW c \in Coins,
         \A d \in Coins \ {c} : Job(d)' = Job(d) /\ Named(d)' = Named(d) /\ Spent(d)' = Spent(d),
         \/ Job(c)' = Job(c) /\ Named(c)' = Named(c) /\ Spent(c)' = Spent(c)
         \/ Job(c) = "absent" /\ Job(c)' = "open" /\ Named(c)' = c /\ Spent(c)' = Spent(c)
         \/ Job(c) = "open" /\ Job(c)' = "open" /\ Named(c)' = Named(c) /\ Spent(c)' = Spent(c) + 1
         \/ Job(c) = "open" /\ Job(c)' \in {"done", "rejected"} /\ Named(c)' = Named(c) /\ Spent(c)' = Spent(c)
         \/ /\ Job(c) = "open" /\ Job(c)' = "exhausted" /\ Named(c)' = Named(c)
            /\ Spent(c)' = Spent(c) + 1 /\ Spent(c) + 1 >= MaxAttempts
  PROVE  [Ledger!Next]_Ledger!vars
<1> DEFINE job1 == [d \in Coins |-> Job(d)]
           key1 == [d \in Coins |-> Named(d)]
           spent1 == [d \in Coins |-> Spent(d)]
<1>1. /\ job1' = [job1 EXCEPT ![c] = Job(c)'] /\ key1' = [key1 EXCEPT ![c] = Named(c)']
      /\ spent1' = [spent1 EXCEPT ![c] = Spent(c)']
  BY LedgerFrame
<1>2. /\ Ledger!vars = <<job1, key1, spent1>> /\ Ledger!vars' = <<job1', key1', spent1'>>
  BY DEF Ledger!vars, Named, Spent
<1>3. job1[c] = Job(c) /\ key1[c] = Named(c) /\ spent1[c] = Spent(c) OBVIOUS
<1>4. /\ Job(c)' = Job(c) => job1' = job1
      /\ Named(c)' = Named(c) => key1' = key1
      /\ Spent(c)' = Spent(c) => spent1' = spent1
  BY <1>1
<1>5. ASSUME Job(c) = "absent", Job(c)' = "open", Named(c)' = c, Spent(c)' = Spent(c) PROVE Ledger!Next
  <2>1. ASSUME NEW d \in Coins, job1[d] = "open" PROVE key1[d] # c
    <3>1. d # c /\ Job(d) = "open" BY <1>5, <2>1
    <3>2. Named(d) = d BY <3>1 DEF Job, Live, Named
    <3> QED BY <3>1, <3>2
  <2>2. Ledger!Admit(c, c) BY <1>1, <1>3, <1>4, <1>5, <2>1 DEF Ledger!Admit, Named, Spent
  <2> QED BY <2>2 DEF Ledger!Next
<1>6. ASSUME Job(c) = "open", Job(c)' = "open", Named(c)' = Named(c), Spent(c)' = Spent(c) + 1 PROVE Ledger!Next
  <2>1. Ledger!Charge(c) BY <1>1, <1>3, <1>4, <1>6 DEF Ledger!Charge, Named, Spent
  <2> QED BY <2>1 DEF Ledger!Next
<1>7. ASSUME Job(c) = "open", Job(c)' \in {"done", "rejected"}, Named(c)' = Named(c), Spent(c)' = Spent(c)
      PROVE  Ledger!Next
  <2>1. Ledger!Finish(c) \/ Ledger!Reject(c)
    BY <1>1, <1>3, <1>4, <1>7 DEF Ledger!Finish, Ledger!Reject, Ledger!Verdict, Named, Spent
  <2> QED BY <2>1 DEF Ledger!Next
<1>8. ASSUME Job(c) = "open", Job(c)' = "exhausted", Named(c)' = Named(c),
             Spent(c)' = Spent(c) + 1, Spent(c) + 1 >= MaxAttempts
      PROVE  Ledger!Next
  <2>1. Ledger!Exhaust(c) BY <1>1, <1>3, <1>4, <1>8 DEF Ledger!Exhaust, Ledger!Verdict, Named, Spent
  <2> QED BY <2>1 DEF Ledger!Next
<1>9. Job(c)' = Job(c) /\ Named(c)' = Named(c) /\ Spent(c)' = Spent(c) => UNCHANGED Ledger!vars
  BY <1>2, <1>4
<1> QED BY <1>5, <1>6, <1>7, <1>8, <1>9

LEMMA LedgerStep ==
  ASSUME Books, [Next]_vars
  PROVE  [Ledger!Next]_Ledger!vars
<1>1. Owned /\ ChunkStep /\ TypeInv BY StepIsChunkStep DEF Books, Owned
<1>2. /\ chunk \in [Coins -> Chunk] /\ outcome \in [Replicas -> Outcomes]
      /\ genuine \in [Coins -> Nat] /\ abandoned \in [Coins -> Nat] /\ MaxAttempts \in Nat \ {0}
  BY <1>1, BackfillAssumption DEF TypeInv, TypeOK
<1>3. CASE UNCHANGED <<chunk, genuine, abandoned>>
  BY <1>3 DEF Ledger!vars, Job, Live
<1>4. ASSUME NEW c \in Coins, Inserted(c) \/ Expired(c) \/ \E r \in Replicas : Taken(c, r) \/ Advanced(c, r) \/ Closed(c, r)
      PROVE  [Ledger!Next]_Ledger!vars
  <2>0. chunk[c] \in Chunk /\ genuine[c] \in Nat /\ abandoned[c] \in Nat /\ chunk[c].attempts \in Nat
    BY <1>2 DEF Chunk
  <2> DEFINE Same(d) == chunk'[d] = chunk[d] /\ genuine'[d] = genuine[d] /\ abandoned'[d] = abandoned[d]
  <2>1. \A d \in Coins \ {c} : Same(d)
    BY <1>2, <1>4 DEF Inserted, Expired, Taken, Advanced, Closed, hvars
  <2>2. \A d \in Coins : Same(d) => Job(d)' = Job(d) /\ Named(d)' = Named(d) /\ Spent(d)' = Spent(d)
    BY DEF Job, Live, Named, Spent
  <2>3. \A d \in Coins \ {c} : Job(d)' = Job(d) /\ Named(d)' = Named(d) /\ Spent(d)' = Spent(d)
    BY <2>1, <2>2
  <2>4. chunk[c].status # "absent" /\ chunk'[c].status # "absent" => Named(c)' = Named(c) BY DEF Named
  <2>5. CASE Inserted(c)
    <3>1. chunk'[c].status = "pending" BY <1>2, <2>0, <2>5 DEF Inserted, INSERT_CHUNK, Chunk
    <3>2. /\ Job(c) = "absent" /\ Job(c)' = "open" /\ Named(c)' = c /\ Spent(c)' = Spent(c)
      BY <2>5, <3>1 DEF Inserted, Job, Live, Named, Spent, hvars
    <3> QED BY <2>3, <3>2, LedgerKinds
  <2>6. CASE Expired(c)
    <3>1. chunk'[c].status = chunk[c].status /\ chunk'[c].last_error = chunk[c].last_error
      BY <1>2, <2>0, <2>6 DEF Expired, Chunk
    <3>2. Job(c)' = Job(c) /\ Named(c)' = Named(c) /\ Spent(c)' = Spent(c)
      BY <2>6, <3>1 DEF Expired, Job, Live, Named, Spent, hvars
    <3> QED BY <2>3, <3>2, LedgerKinds
  <2>7. ASSUME NEW r \in Replicas, Advanced(c, r) PROVE [Ledger!Next]_Ledger!vars
    <3>1. chunk'[c].status = chunk[c].status /\ chunk'[c].last_error = chunk[c].last_error
      BY <1>2, <2>0, <2>7 DEF Advanced, ADVANCE_CURSOR, Chunk
    <3>2. Job(c)' = Job(c) /\ Named(c)' = Named(c) /\ Spent(c)' = Spent(c)
      BY <2>7, <3>1 DEF Advanced, Job, Live, Named, Spent, hvars
    <3> QED BY <2>3, <3>2, LedgerKinds
  <2>8. ASSUME NEW r \in Replicas, Taken(c, r) PROVE [Ledger!Next]_Ledger!vars
    <3>0. ASSUME NEW row \in Chunk PROVE CLAIM(row, r).status = "claimed" BY DEF CLAIM, Chunk
    <3>1. chunk'[c].status = "claimed" /\ Live(c) BY <1>2, <2>0, <2>8, <3>0 DEF Taken, Claimable, Live
    <3>2. Job(c) = "open" /\ Job(c)' = "open" /\ Named(c)' = Named(c)
      BY <2>4, <3>1 DEF Job, Live
    <3>3. Spent(c)' = Spent(c) \/ Spent(c)' = Spent(c) + 1 BY <1>2, <2>0, <2>8 DEF Taken, Spent
    <3> QED BY <2>3, <3>2, <3>3, LedgerKinds
  <2>9. ASSUME NEW r \in Replicas, Closed(c, r) PROVE [Ledger!Next]_Ledger!vars
    <3> DEFINE new == Settlement(r, chunk[c])
               k   == outcome[r].kind
               ends == k = "progress" /\ NextCursor(seen[r], outcome[r].max) >= End
    <3>1. chunk'[c] = new /\ Job(c) = "open" /\ chunk[c].status = "claimed" /\ outcome[r] \in Outcomes
      BY <1>2, <2>9 DEF Closed, Job, Live
    <3>2. new.status \in {"done", "pending", "failed"} /\ k \in {"progress", "soft_skip", "permanent", "transient"}
      BY <2>0, <3>1, SettlementFields
    <3>3. Named(c)' = Named(c) BY <2>4, <3>1, <3>2
    <3>4. /\ k # "transient" => Spent(c)' = Spent(c)
          /\ k = "transient" => Spent(c)' = Spent(c) + 1
      BY <1>2, <2>0, <2>9 DEF Closed, Spent
    <3>5. CASE ends
      <4>1. new.status = "done" BY <2>0, <3>1, <3>5, SettlementFields
      <4>2. Job(c)' = "done" BY <3>1, <4>1 DEF Job, Live
      <4> QED BY <2>3, <3>1, <3>3, <3>4, <3>5, <4>2, LedgerKinds
    <3>6. CASE k = "permanent"
      <4>1. new.status = "failed" /\ new.last_error = "permanent" BY <2>0, <3>1, <3>6, SettlementFields
      <4>2. Job(c)' = "rejected" BY <3>1, <4>1 DEF Job, Live
      <4> QED BY <2>3, <3>1, <3>3, <3>4, <3>6, <4>2, LedgerKinds
    <3>7. CASE k = "transient"
      <4>1. /\ new.status = (IF chunk[c].attempts >= MaxAttempts THEN "failed" ELSE "pending")
            /\ new.last_error = "transient"
        BY <2>0, <3>1, <3>7, SettlementFields
      <4>2. chunk[c].attempts = Spent(c) + 1 BY <3>1 DEF Books, WalkIsFree, ClaimOpen, Spent
      <4>3. Job(c)' = IF Spent(c) + 1 >= MaxAttempts THEN "exhausted" ELSE "open"
        BY <3>1, <4>1, <4>2 DEF Job, Live
      <4> QED BY <2>3, <3>1, <3>3, <3>4, <3>7, <4>3, LedgerKinds
    <3>8. CASE k \in {"progress", "soft_skip"} /\ ~ends
      <4>1. new.status = "pending"
        <5> HIDE DEF k, ends
        <5>1. k = outcome[r].kind /\ (ends <=> (k = "progress" /\ NextCursor(seen[r], outcome[r].max) >= End))
          BY DEF k, ends
        <5>2. /\ outcome[r].kind \in {"progress", "soft_skip"}
              /\ ~(outcome[r].kind = "progress" /\ NextCursor(seen[r], outcome[r].max) >= End)
          BY <3>8, <5>1
        <5> QED BY <2>0, <5>2, Releases
      <4>2. Job(c)' = "open" BY <3>1, <4>1 DEF Job, Live
      <4> QED BY <2>3, <3>1, <3>3, <3>4, <3>8, <4>2, LedgerKinds
    <3> QED BY <3>2, <3>5, <3>6, <3>7, <3>8
  <2> QED BY <1>4, <2>5, <2>6, <2>7, <2>8, <2>9
<1> QED BY <1>1, <1>3, <1>4 DEF ChunkStep

\* The backfill of any number of coins, by replicas that crash, lose leases and walk the
\* same page twice, is the ledger: a chunk is admitted once, only failures and lost claims
\* are charged to it, and it gets one verdict, "exhausted" only when its budget is.
THEOREM BackfillIsLedger == Spec => RefinesLedger
<1>1. Init => Books /\ Ledger!Init BY InitOwned, LedgerInit DEF Init, AbsentChunk, Books, WalkIsFree
<1> QED BY <1>1, BooksStep, LedgerStep, PTL DEF Spec, RefinesLedger, Ledger!Spec

\* All that a chunk says of itself, together.
THEOREM ChunksHold == Spec => []ChunksAreSound
BY TypeCorrect, PagesAreFree, PTL DEF ChunksAreSound

\* One verdict to a chunk, and no way back.
THEOREM ChunksGoOn == Spec => ChunksMoveOn
BY BackfillIsLedger, NothingGoesBack DEF ChunksMoveOn
-----------------------------------------------------------------------------
(* No history is lost.                                                     *)

\* What lies up to slot x and is not stored, now and after a step, how much of it the empty answers so far may
\* explain, and the same of the page a worker has fetched and not yet made the cursor.
Lost(c, x) == {t \in Available(c) : t <= x} \ stored[c]
Remains(c, x) == {t \in Available(c)' : t <= x} \ stored'[c]
Allowed(n) == IF n = 0 THEN 0 ELSE Skip * n + 1
Due(r)     == NextCursor(seen[r], outcome[r].max)
Covered(r) == pc[r] \in {"advance", "settle"} /\ outcome[r].kind = "progress" /\ Fence(item[r], r)
                => Cardinality(Lost(item[r], Due(r))) <= Allowed(hiccups)
Sound == Walking /\ CursorSound /\ \A r \in Replicas : Covered(r)

LEMMA IntervalSize ==
  ASSUME NEW a \in Int, NEW b \in Int
  PROVE  IsFiniteSet(a..b) /\ (a <= b => Cardinality(a..b) = b - a + 1)
<1>1. Cardinality(a..b) = IF a > b THEN 0 ELSE b - a + 1 BY FS_Interval
<1>2. a <= b => ~(a > b) OBVIOUS
<1> QED BY <1>1, <1>2, FS_Interval

LEMMA SubsetSize ==
  ASSUME NEW S, IsFiniteSet(S), NEW T, T \subseteq S
  PROVE  /\ IsFiniteSet(T) /\ Cardinality(T) \in Nat /\ Cardinality(S) \in Nat
         /\ Cardinality(T) <= Cardinality(S)
<1>1. IsFiniteSet(T) /\ Cardinality(T) <= Cardinality(S) BY FS_Subset
<1> QED BY <1>1, FS_CardinalityType

LEMMA PagesAreFinite ==
  ASSUME NEW providers \in Chains, NEW mute \in SUBSET (1..Len(providers))
  PROVE  IsFiniteSet(mute) /\ Cardinality(mute) \in Nat /\ (mute # {} => Cardinality(mute) > 0)
<1>1. Len(providers) \in Nat BY BackfillAssumption
<1>2. IsFiniteSet(1..Len(providers)) BY <1>1, IntervalSize
<1>3. IsFiniteSet(mute) /\ Cardinality(mute) \in Nat BY <1>2, SubsetSize
<1>4. mute # {} => Cardinality(mute) # 0 BY <1>3, FS_EmptySet
<1>5. \A n \in Nat : n # 0 => n > 0 OBVIOUS
<1> QED BY <1>3, <1>4, <1>5

LEMMA AllowedGrows ==
  ASSUME NEW h \in Nat, NEW k \in Nat
  PROVE  /\ Allowed(h) \in Nat /\ Allowed(h + k) \in Nat /\ Allowed(h) <= Allowed(h + k)
         /\ k > 0 => Allowed(h) + Skip <= Allowed(h + k) /\ Skip + 1 <= Allowed(h + k)
<1>1. Skip \in Nat /\ Skip > 0 BY BackfillAssumption
<1>2. Skip * h \in Nat /\ Skip * k \in Nat /\ Skip * (h + k) = Skip * h + Skip * k
  BY <1>1
<1>3. k > 0 => Skip * k >= Skip
  <2> SUFFICES ASSUME k > 0 PROVE Skip * k >= Skip OBVIOUS
  <2>1. k - 1 \in Nat /\ Skip * (k - 1) \in Nat BY <1>1
  <2>2. Skip * k = Skip * (k - 1) + Skip BY <1>1
  <2> QED BY <1>1, <2>1, <2>2
<1>4. h = 0 => Skip * h = 0 BY <1>1
<1>5. k = 0 => Skip * k = 0 BY <1>1
<1> QED BY <1>1, <1>2, <1>3, <1>4, <1>5 DEF Allowed

LEMMA LostIsFinite ==
  ASSUME TypeInv, NEW c \in Coins, NEW x
  PROVE  Available(c) \subseteq Slots /\ IsFiniteSet(Lost(c, x)) /\ Cardinality(Lost(c, x)) \in Nat
<1>1. chain[c] \in Seq(Provider) BY BackfillAssumption DEF TypeInv, TypeOK
<1>2. ASSUME NEW i \in 1..Len(chain[c]) PROVE chain[c][i].data \subseteq Slots
  <2>1. chain[c][i] \in Provider BY <1>1
  <2> QED BY <2>1 DEF Provider, Slots
<1>3. Available(c) \subseteq Slots BY <1>2 DEF Available, Holdings
<1>4. 0 \in Int /\ End - 1 \in Int BY BackfillAssumption
<1>5. IsFiniteSet(Slots) BY <1>4, IntervalSize DEF Slots
<1>6. Lost(c, x) \subseteq Slots BY <1>3 DEF Lost
<1> QED BY <1>3, <1>5, <1>6, SubsetSize

\* A step takes nothing away: what is stored stays, and empty answers add up.
LEMMA Monotone ==
  ASSUME TypeInv, [Next]_vars, NEW c \in Coins
  PROVE  /\ chain' = chain /\ stored[c] \subseteq stored'[c]
         /\ \E k \in Nat : hiccups' = hiccups + k
<1> USE DEF TypeInv, TypeOK
<1>0. \E k \in Nat : hiccups = hiccups + k OBVIOUS
<1>1. ASSUME NEW r \in Replicas, Fetch(r)
      PROVE  /\ chain' = chain /\ stored[c] \subseteq stored'[c]
             /\ \E k \in Nat : hiccups' = hiccups + k
  <2>0. item[r] \in Coins /\ chain[item[r]] \in Chains BY <1>1 DEF Fetch, Busy
  <2>1. PICK mute \in SUBSET (1..Len(chain[item[r]])) :
          LET new == NewSlots(chain[item[r]], seen[r], mute) IN
          /\ hiccups' = hiccups + Cardinality(mute)
          /\ stored' = [stored EXCEPT ![item[r]] = @ \cup new]
    BY <1>1 DEF Fetch
  <2>4. Cardinality(mute) \in Nat BY <2>0, PagesAreFinite
  <2>5. chain' = chain BY <1>1 DEF Fetch, Returns
  <2> QED BY <2>0, <2>1, <2>4, <2>5
<1>2. (\E r \in Replicas : Fetch(r)) \/ UNCHANGED <<chain, stored, hiccups>>
  BY DEF Next, Worker, Work, InsertJob, InsertChunk, EnqueueFails, LeaseExpires, Claim, ClaimLost, SoftSkip,
         Fails, Returns, AdvanceCursor, Settle, Crash, Quiet, vars, tvars, bvars
<1> QED BY <1>0, <1>1, <1>2

\* So what was covered stays covered.
LEMMA StaysCovered ==
  ASSUME TypeInv, TypeInv', [Next]_vars, NEW c \in Coins, NEW x, Cardinality(Lost(c, x)) <= Allowed(hiccups)
  PROVE  Cardinality(Remains(c, x)) <= Allowed(hiccups')
<1>1. chain' = chain /\ stored[c] \subseteq stored'[c] BY Monotone
<1>2. PICK k \in Nat : hiccups' = hiccups + k BY Monotone
<1>3. Remains(c, x) \subseteq Lost(c, x) BY <1>1 DEF Lost, Remains, Available
<1>4. IsFiniteSet(Lost(c, x)) /\ Cardinality(Lost(c, x)) \in Nat BY LostIsFinite
<1>5. Cardinality(Remains(c, x)) <= Cardinality(Lost(c, x)) /\ Cardinality(Remains(c, x)) \in Nat
  BY <1>3, <1>4, SubsetSize
<1>6. Allowed(hiccups) \in Nat /\ Allowed(hiccups) <= Allowed(hiccups') /\ Allowed(hiccups') \in Nat
  BY <1>2, AllowedGrows DEF TypeInv, TypeOK
<1> QED BY <1>4, <1>5, <1>6

\* A page of providers whose answers join covers what lies up to its cursor, but for a skip
\* that an empty answer explains.
LEMMA PageCovers ==
  ASSUME NEW c \in Coins, NEW r \in Replicas, NEW mute \in SUBSET (1..Len(chain[c])), NEW new,
         Walking, CursorSound, Seamless(chain[c]), item[r] = c, pc[r] = "work", Fence(c, r),
         chain' = chain, seen'[r] = seen[r], TypeInv',
         new = NewSlots(chain[c], seen[r], mute),
         hiccups' = hiccups + Cardinality(mute),
         stored'[c] = stored[c] \cup new,
         outcome'[r] = Progress(IF new = {} THEN NoPage ELSE Newest(new))
  PROVE  Cardinality(Remains(c, Due(r)')) <= Allowed(hiccups')
<1> DEFINE x == NextCursor(seen[r], IF new = {} THEN NoPage ELSE Newest(new))
<1>0. /\ TypeInv /\ seen[r] \in Cursors /\ chain[c] \in Chains /\ hiccups \in Nat
      /\ Skip \in Nat \ {0} /\ End \in Nat \ {0} /\ NoCursor \notin 0..End /\ NoPage \notin 0..End
  BY BackfillAssumption DEF Walking, Owned, TypeInv, TypeOK
<1>1. Due(r)' = x BY DEF Due, Progress
<1>2. chunk[c].cursor = seen[r] BY DEF Walking, SawIt
<1>3. new \subseteq Slots /\ \A t \in new : AfterCursor(t, seen[r]) BY <1>0, NewSlotsAre
<1>4. new # {} => x = Newest(new) /\ Newest(new) \in Slots
  <2> SUFFICES ASSUME new # {} PROVE x = Newest(new) /\ Newest(new) \in Slots OBVIOUS
  <2>1. Newest(new) \in Slots BY <1>3, NewestIs
  <2>2. Newest(new) # NoPage BY <1>0, <2>1 DEF Slots
  <2> QED BY <2>1, <2>2 DEF NextCursor
<1>5. new = {} => x = NextCursor(seen[r], NoPage) /\ x <= RequestStart(seen[r]) + Skip /\ x \in Nat
  BY <1>0 DEF NextCursor, RequestStart, Cursors
<1> DEFINE F == Missing(c)
           G == Remains(c, x)
           Skipped == {t \in Available(c) : AfterCursor(t, seen[r]) /\ t <= x}
<1>6. Available(c)' = Available(c) /\ Available(c) \subseteq Slots BY <1>0, LostIsFinite DEF Available
<1>7. \A t \in Available(c) : AfterCursor(t, seen[r]) =>
        \/ t \in new
        \/ new # {} /\ t > Newest(new)
        \/ new = {} /\ (mute # {} \/ t > NextCursor(seen[r], NoPage))
  BY <1>0 DEF Seamless, Available
<1>8. ASSUME NEW t \in Available(c), ~AfterCursor(t, seen[r]) PROVE seen[r] # NoCursor /\ t <= seen[r]
  BY <1>0, <1>6, <1>8 DEF AfterCursor, Slots, Cursors
<1>9. ASSUME NEW t \in G PROVE t \in F \/ (new = {} /\ mute # {} /\ t \in Skipped)
  <2>1. t \in Available(c) /\ t <= x /\ t \notin stored[c] /\ t \notin new /\ t \in Nat
    BY <1>6, <1>9 DEF Remains, Slots
  <2>2. CASE ~AfterCursor(t, seen[r]) BY <1>2, <1>8, <2>1, <2>2 DEF Missing
  <2>3. CASE AfterCursor(t, seen[r])
    <3>1. ~(new # {} /\ t > Newest(new)) BY <1>4, <2>1 DEF Slots
    <3>2. ~(new = {} /\ t > NextCursor(seen[r], NoPage)) BY <1>5, <2>1
    <3> QED BY <1>7, <2>1, <2>3, <3>1, <3>2
  <2> QED BY <2>2, <2>3
<1>10. /\ IsFiniteSet(F) /\ Cardinality(F) \in Nat /\ Cardinality(F) <= Allowed(hiccups)
       /\ seen[r] = NoCursor => F = {}
  <2>1. F = {} \/ F = Lost(c, chunk[c].cursor) BY DEF Missing, Lost
  <2>2. IsFiniteSet(F) /\ Cardinality(F) \in Nat
    <3>1. /\ IsFiniteSet(Lost(c, chunk[c].cursor)) /\ Cardinality(Lost(c, chunk[c].cursor)) \in Nat
      BY <1>0, LostIsFinite
    <3>2. IsFiniteSet({}) /\ Cardinality({}) = 0 BY FS_EmptySet
    <3>3. F = {} => IsFiniteSet(F) /\ Cardinality(F) \in Nat BY <3>2
    <3>4. F = Lost(c, chunk[c].cursor) => IsFiniteSet(F) /\ Cardinality(F) \in Nat BY <3>1
    <3> QED BY <2>1, <3>3, <3>4
  <2>3. Cardinality(F) <= Allowed(hiccups) BY DEF CursorSound, Allowed
  <2> QED BY <1>2, <2>2, <2>3 DEF Missing
<1>11. Cardinality(mute) \in Nat /\ (mute # {} => Cardinality(mute) > 0)
  BY <1>0, PagesAreFinite
<1>12. CASE ~(new = {} /\ mute # {})
  <2>1. G \subseteq F BY <1>9, <1>12
  <2>2. Cardinality(G) <= Cardinality(F) /\ Cardinality(G) \in Nat
    BY <1>10, <2>1, SubsetSize
  <2>3. /\ Allowed(hiccups) \in Nat /\ Allowed(hiccups') \in Nat
        /\ Allowed(hiccups) <= Allowed(hiccups')
    BY <1>0, <1>11, AllowedGrows
  <2> QED BY <1>1, <1>10, <2>2, <2>3
<1>13. CASE new = {} /\ mute # {}
  <2>1. /\ Allowed(hiccups) \in Nat /\ Allowed(hiccups') \in Nat
        /\ Allowed(hiccups) + Skip <= Allowed(hiccups') /\ Skip + 1 <= Allowed(hiccups')
    BY <1>0, <1>11, <1>13, AllowedGrows
  <2>2. CASE seen[r] = NoCursor
    <3>1. G \subseteq 0..Skip
      <4>1. x <= Skip /\ x \in Nat BY <1>0, <1>5, <1>13, <2>2 DEF RequestStart
      <4>2. \A t \in G : t \in Nat /\ t <= x BY <1>6 DEF Remains, Slots
      <4> QED BY <1>0, <4>1, <4>2
    <3>2. IsFiniteSet(0..Skip) /\ Cardinality(0..Skip) = Skip + 1
      <4>1. 0 \in Int /\ Skip \in Int /\ 0 <= Skip /\ Skip - 0 + 1 = Skip + 1 BY <1>0
      <4> QED BY <4>1, IntervalSize
    <3> HIDE DEF G
    <3>3. Cardinality(G) <= Skip + 1 /\ Cardinality(G) \in Nat BY <3>1, <3>2, SubsetSize
    <3>4. Cardinality(G) <= Allowed(hiccups') BY <1>0, <2>1, <3>3
    <3> QED BY <1>1, <3>4 DEF G
  <2>3. CASE seen[r] # NoCursor
    <3> DEFINE s == seen[r]
               D == (s + 1)..(s + Skip)
    <3>1. s \in Nat BY <1>0, <2>3 DEF Cursors
    <3>2. G \subseteq F \cup D
      <4>1. ASSUME NEW t \in Skipped PROVE t \in D
        <5>1. t \in Nat /\ t > s /\ t <= x /\ x <= s + Skip /\ x \in Nat
          BY <1>5, <1>6, <1>13, <2>3 DEF AfterCursor, RequestStart, Slots
        <5> QED BY <1>0, <3>1, <5>1
      <4> QED BY <1>9, <4>1
    <3>3. IsFiniteSet(D) /\ Cardinality(D) = Skip
      <4>1. s + 1 \in Int /\ s + Skip \in Int /\ s + 1 <= s + Skip /\ (s + Skip) - (s + 1) + 1 = Skip
        BY <1>0, <3>1
      <4> QED BY <4>1, IntervalSize
    <3> HIDE DEF F, G, D
    <3>4. IsFiniteSet(F \cup D) /\ Cardinality(F \cup D) <= Cardinality(F) + Cardinality(D)
      <4>1. /\ IsFiniteSet(F \cup D) /\ IsFiniteSet(F \cap D)
            /\ Cardinality(F \cup D) = Cardinality(F) + Cardinality(D) - Cardinality(F \cap D)
        BY <1>10, <3>3, FS_Union, FS_Subset
      <4>2. Cardinality(F \cap D) \in Nat BY <4>1, FS_CardinalityType
      <4> QED BY <1>0, <1>10, <3>3, <4>1, <4>2
    <3>5. /\ Cardinality(G) <= Cardinality(F \cup D) /\ Cardinality(G) \in Nat
          /\ Cardinality(F \cup D) \in Nat
      BY <3>2, <3>4, SubsetSize
    <3>6. Cardinality(G) <= Allowed(hiccups') BY <1>0, <1>10, <2>1, <3>3, <3>4, <3>5
    <3> QED BY <1>1, <3>6 DEF G
  <2> QED BY <2>2, <2>3
<1> QED BY <1>12, <1>13

LEMMA CoveredStep ==
  ASSUME \A providers \in Chains : Seamless(providers), Sound, [Next]_vars, NEW r \in Replicas
  PROVE  Covered(r)'
<1> SUFFICES ASSUME pc'[r] \in {"advance", "settle"}, outcome'[r].kind = "progress", Fence(item[r], r)',
                    item'[r] = item[r]
             PROVE  Cardinality(Remains(item[r], Due(r)')) <= Allowed(hiccups')
  <2>1. pc'[r] \in {"advance", "settle"} => item'[r] = item[r]
    BY WorkerStep DEF Sound, Walking, Owned
  <2> QED BY <2>1 DEF Covered, Fence, Lost, Remains
<1>1. Walking /\ CursorSound /\ Covered(r) /\ Owned /\ TypeInv /\ TypeInv'
  BY StepTypes DEF Sound, Walking, Owned
<1>2. ASSUME pc[r] \in {"advance", "settle"}, seen'[r] = seen[r], outcome'[r] = outcome[r]
      PROVE  Cardinality(Remains(item[r], Due(r)')) <= Allowed(hiccups')
  <2>1. item[r] \in Coins BY <1>1, <1>2 DEF TypeInv, Busy, Finalizing
  <2>2. Fence(item[r], r) BY <1>1, <1>2, <2>1, FenceStep
  <2>3. Cardinality(Lost(item[r], Due(r))) <= Allowed(hiccups)
    BY <1>1, <1>2, <2>2 DEF Covered
  <2>4. Due(r)' = Due(r) BY <1>2 DEF Due
  <2> QED BY <1>1, <2>1, <2>3, <2>4, StaysCovered
<1>3. ASSUME Work(r), pc[r] = "work", seen'[r] = seen[r]
      PROVE  Cardinality(Remains(item[r], Due(r)')) <= Allowed(hiccups')
  <2>1. item[r] \in Coins /\ chain[item[r]] \in Chains /\ chain' = chain
    BY <1>1, <1>3, WorkStep
  <2>2. Fence(item[r], r) BY <1>1, <1>3, <2>1, FenceStep
  <2>3. PICK mute \in SUBSET (1..Len(chain[item[r]])) :
          LET new == NewSlots(chain[item[r]], seen[r], mute) IN
          /\ hiccups' = hiccups + Cardinality(mute)
          /\ stored' = [stored EXCEPT ![item[r]] = @ \cup new]
          /\ outcome'[r] = Progress(IF new = {} THEN NoPage ELSE Newest(new))
    BY <1>1, <1>3, WorkStep
  <2>4. stored'[item[r]] = stored[item[r]] \cup NewSlots(chain[item[r]], seen[r], mute)
    BY <1>1, <2>1, <2>3 DEF TypeInv, TypeOK
  <2> QED BY <1>1, <1>3, <2>1, <2>2, <2>3, <2>4, PageCovers
<1>4. pc[r] \in {"claim", "work", "advance", "settle"} BY <1>1 DEF TypeInv, TypeOK
<1> QED BY <1>1, <1>2, <1>3, <1>4, WorkerStep

LEMMA SoundStep ==
  ASSUME \A providers \in Chains : Seamless(providers), Sound, [Next]_vars
  PROVE  Sound'
<1>1. Walking /\ Owned /\ TypeInv /\ TypeInv' /\ ChunkStep BY StepTypes, StepIsChunkStep DEF Sound, Walking, Owned
<1>2. ASSUME NEW c \in Coins PROVE Cardinality(Missing(c)') <= Allowed(hiccups')
  <2>1. chunk[c] \in Chunk /\ outcome \in [Replicas -> Outcomes] /\ Cardinality(Missing(c)) <= Allowed(hiccups)
    BY <1>1 DEF Sound, CursorSound, Allowed, TypeInv, TypeOK
  <2>2. \/ Missing(c) = {} /\ chunk[c].cursor = NoCursor
        \/ Missing(c) = Lost(c, chunk[c].cursor) /\ chunk[c].cursor # NoCursor
    BY DEF Missing, Lost
  <2>3. /\ chunk'[c].cursor = NoCursor => Missing(c)' = {}
        /\ \A x : chunk'[c].cursor = x => Missing(c)' = {} \/ Missing(c)' = Remains(c, x)
    BY DEF Missing, Remains
  <2>4. Cardinality({}) = 0 /\ 0 <= Allowed(hiccups')
    <3>1. hiccups' \in Nat BY <1>1 DEF TypeInv, TypeOK
    <3>2. Allowed(hiccups') \in Nat
      <4>1. \A h \in Nat : Allowed(h) \in Nat BY AllowedGrows
      <4> QED BY <3>1, <4>1
    <3>3. 0 <= Allowed(hiccups') BY <3>2
    <3> QED BY <3>3, FS_EmptySet
  <2>5. ASSUME NEW x, chunk'[c].cursor = x, Cardinality(Lost(c, x)) <= Allowed(hiccups)
        PROVE  Cardinality(Missing(c)') <= Allowed(hiccups')
    BY <1>1, <2>3, <2>4, <2>5, StaysCovered
  <2>6. CASE chunk'[c].cursor = chunk[c].cursor
    <3>1. CASE chunk[c].cursor = NoCursor BY <2>3, <2>4, <2>6, <3>1
    <3>2. CASE chunk[c].cursor # NoCursor BY <2>1, <2>2, <2>5, <2>6, <3>2
    <3> QED BY <3>1, <3>2
  <2>7. CASE Inserted(c) /\ chunk'[c] = INSERT_CHUNK(chunk[c]) BY <2>1, <2>6, <2>7 DEF INSERT_CHUNK, Chunk
  <2>8. CASE Expired(c) /\ chunk'[c] = [chunk[c] EXCEPT !.lease = "expired"] BY <2>1, <2>6, <2>8 DEF Chunk
  <2>9. ASSUME NEW r \in Replicas, Taken(c, r), chunk'[c] = CLAIM(chunk[c], r)
        PROVE  Cardinality(Missing(c)') <= Allowed(hiccups')
    <3>1. ASSUME NEW row \in Chunk PROVE CLAIM(row, r).cursor = row.cursor BY DEF CLAIM, Chunk
    <3> QED BY <2>1, <2>6, <2>9, <3>1
  <2>10. ASSUME NEW r \in Replicas, Advanced(c, r), chunk'[c] = ADVANCE_CURSOR(chunk[c], Due(r))
         PROVE  Cardinality(Missing(c)') <= Allowed(hiccups')
    <3>1. pc[r] = "advance" /\ Fence(item[r], r) /\ item[r] = c BY <2>10 DEF Advanced, AdvanceCursor
    <3>2. Cardinality(Lost(c, Due(r))) <= Allowed(hiccups)
      BY <3>1 DEF Sound, Covered, Walking
    <3>3. chunk'[c].cursor = Due(r) BY <2>1, <2>10 DEF ADVANCE_CURSOR, Chunk
    <3> QED BY <2>5, <3>2, <3>3
  <2>11. ASSUME NEW r \in Replicas, Closed(c, r), chunk'[c] = Settlement(r, chunk[c])
         PROVE  Cardinality(Missing(c)') <= Allowed(hiccups')
    <3>1. pc[r] = "settle" /\ Fence(item[r], r) /\ item[r] = c BY <2>11 DEF Closed
    <3>2. CASE outcome[r].kind = "progress" /\ Due(r) >= End
      <4>1. Cardinality(Lost(c, Due(r))) <= Allowed(hiccups) BY <3>1, <3>2 DEF Sound, Covered
      <4>2. Due(r) = End
        <5>1. /\ seen[r] \in Cursors /\ outcome[r].max \in Slots \cup {NoPage} /\ Ahead(r)
          BY <1>1, <2>1 DEF Walking, TypeInv, TypeOK, Outcomes, Progress, Other
        <5>2. Due(r) \in 0..End BY <3>1, <3>2, <5>1, NextCursorIs DEF Ahead, Due
        <5> QED BY <3>2, <5>2, BackfillAssumption
      <4>3. chunk'[c].cursor = End BY <2>1, <2>11, <3>2, SettlementFields DEF Due
      <4> QED BY <2>5, <4>1, <4>2, <4>3
    <3>3. CASE ~(outcome[r].kind = "progress" /\ Due(r) >= End)
      <4>1. chunk'[c].cursor = chunk[c].cursor BY <2>1, <2>11, <3>3, SettlementFields DEF Due
      <4> QED BY <2>6, <4>1
    <3> QED BY <3>2, <3>3
  <2> QED BY <1>1, <2>6, <2>7, <2>8, <2>9, <2>10, <2>11, ChunkCases DEF Due
<1>3. CursorSound' BY <1>2 DEF CursorSound, Allowed
<1> QED BY <1>1, <1>3, WalkingStep, CoveredStep DEF Sound

\* If the answers of every chain's providers join, no history is lost, whoever crashes
\* between the upsert, the cursor and the release and however often a page is walked:
\* everything the providers hold behind a cursor is stored, but for one skip per empty
\* answer of a provider that had the data, and the first slot of the range.
THEOREM NothingIsLost ==
  ASSUME \A providers \in Chains : Seamless(providers)
  PROVE  Spec => []CursorSound
<1>1. Init => Sound
  <2>1. Init => \A c \in Coins : Missing(c) = {} BY DEF Init, AbsentChunk, Missing
  <2>2. Init => CursorSound
    <3>1. Cardinality({}) = 0 /\ 0 <= 0 BY FS_EmptySet
    <3> QED BY <2>1, <3>1 DEF Init, CursorSound
  <2> QED BY <2>2, InitOwned DEF Init, Sound, Walking, Ahead, SawIt, Covered
<1>2. Sound /\ [Next]_vars => Sound' BY SoundStep
<1>3. Sound => CursorSound BY DEF Sound
<1> QED BY <1>1, <1>2, <1>3, PTL DEF Spec

-----------------------------------------------------------------------------
(* RangeWalk: extremes and division.                                       *)

\* The lesser and the greater of two.
LEMMA LesserIs ==
  ASSUME NEW m \in Int, NEW n \in Int
  PROVE  Min({m, n}) = IF m <= n THEN m ELSE n
BY DEF Min

LEMMA GreaterIs ==
  ASSUME NEW m \in Int, NEW n \in Int
  PROVE  Max({m, n}) = IF m <= n THEN n ELSE m
BY DEF Max

\* A set with a bound has a greatest element.
LEMMA GreatestIs ==
  ASSUME NEW S, NEW bound \in Int, \A t \in S : t \in Int /\ t <= bound, S # {}
  PROVE  Max(S) \in S /\ \A t \in S : t <= Max(S)
<1> DEFINE T == {k \in Nat : bound - k \in S}
<1>1. T # {}
  <2>1. PICK t \in S : TRUE OBVIOUS
  <2>2. bound - t \in Nat /\ bound - (bound - t) = t BY <2>1
  <2> QED BY <2>1, <2>2
<1>2. PICK k \in T : \A m \in T : k <= m BY <1>1, NatOrder
<1>3. ASSUME NEW t \in S PROVE t <= bound - k
  <2>1. bound - t \in Nat /\ bound - (bound - t) = t OBVIOUS
  <2>2. bound - t \in T BY <2>1
  <2> QED BY <1>2, <2>1, <2>2
<1>4. \E t \in S : \A u \in S : t >= u BY <1>2, <1>3
<1> QED BY <1>4 DEF Max

LEMMA CeilingIs ==
  ASSUME NEW x \in Nat, NEW g \in Nat \ {0}, NEW k \in Int
  PROVE  (x + (g - 1)) \div g <= k <=> x <= k * g
<1> DEFINE q == (x + (g - 1)) \div g
<1>1. q \in Int /\ q * g <= x + (g - 1) /\ x + (g - 1) < (q + 1) * g
  OBVIOUS
<1> HIDE DEF q
<1>2. ASSUME q <= k PROVE x <= k * g
  <2>1. q * g <= k * g BY <1>1, <1>2
  <2> QED BY <1>1, <2>1
<1>3. ASSUME x <= k * g, k < q PROVE FALSE
  <2>1. (k + 1) * g <= q * g BY <1>1, <1>3
  <2>2. (k + 1) * g = (k * g) + g OBVIOUS
  <2> QED BY <1>1, <1>3, <2>1, <2>2
<1> QED BY <1>1, <1>2, <1>3 DEF q
LEMMA FloorIs ==
  ASSUME NEW x \in Nat, NEW g \in Nat \ {0}, NEW k \in Int
  PROVE  k <= x \div g <=> k * g <= x
<1> DEFINE q == x \div g
<1>1. q \in Int /\ q * g <= x /\ x < (q + 1) * g
  OBVIOUS
<1> HIDE DEF q
<1>2. ASSUME k <= q PROVE k * g <= x
  <2>1. k * g <= q * g BY <1>1, <1>2
  <2> QED BY <1>1, <2>1
<1>3. ASSUME k * g <= x, q < k PROVE FALSE
  <2>1. (q + 1) * g <= k * g BY <1>1, <1>3
  <2> QED BY <1>1, <1>3, <2>1
<1> QED BY <1>1, <1>2, <1>3 DEF q

LEMMA MultipleIs == ASSUME NEW g \in Nat \ {0}, NEW k \in Int PROVE (k * g) % g = 0
OBVIOUS

-----------------------------------------------------------------------------
(* Granularities.                                                          *)

LEMMA SecsIs ==
  /\ Secs["1m"] = 60 /\ Secs["3m"] = 180 /\ Secs["5m"] = 300 /\ Secs["15m"] = 900
  /\ Secs["30m"] = 1800 /\ Secs["1h"] = 3600 /\ Secs["2h"] = 7200 /\ Secs["4h"] = 14400
  /\ Secs["6h"] = 21600 /\ Secs["8h"] = 28800 /\ Secs["12h"] = 43200 /\ Secs["1d"] = 86400
  /\ Secs["3d"] = 259200 /\ Secs["4d"] = 345600 /\ Secs["1w"] = 604800
BY DEF Secs

LEMMA SecsType == \A s \in DOMAIN Secs : Secs[s] \in Nat \ {0}
BY SecsIs DEF Secs

LEMMA LastsIs ==
  /\ DOMAIN Secs \subseteq DOMAIN Lasts /\ DOMAIN Lasts = DOMAIN Secs \cup {"1M"} /\ "1M" \notin DOMAIN Secs
  /\ \A s \in DOMAIN Secs : Lasts[s] = Secs[s] /\ Secs[s] # Month
  /\ Lasts["1M"] = Month
  /\ \A s \in DOMAIN Lasts : Lasts[s] \in Nat \ {0}
<1>1. "1M" \notin DOMAIN Secs BY DEF Secs
<1>2. \A s \in DOMAIN Secs : Secs[s] # Month BY SecsIs DEF Secs, Month
<1>3. /\ DOMAIN Lasts = DOMAIN Secs \cup {"1M"} /\ Lasts["1M"] = Month
      /\ \A s \in DOMAIN Secs : Lasts[s] = Secs[s]
  BY <1>1 DEF Lasts
<1>4. Month \in Nat \ {0} BY DEF Month
<1> QED BY <1>1, <1>2, <1>3, <1>4, SecsType

\* The bands of the providers.
LEMMA BandsAre ==
  /\ Klines \subseteq DOMAIN Lasts /\ Klines \subseteq DOMAIN Secs \cup {"1M"}
  /\ "1d" \in Klines /\ "1w" \in Klines
  /\ Steps \subseteq DOMAIN Lasts /\ Steps \subseteq DOMAIN Secs /\ "1d" \in Steps
  /\ {"1h", "1d"} \subseteq DOMAIN Lasts /\ {"1h", "1d"} \subseteq DOMAIN Secs
  /\ {"30m", "4h", "4d"} \subseteq DOMAIN Lasts /\ {"30m", "4h", "4d"} \subseteq DOMAIN Secs
<1>1. /\ Klines \subseteq DOMAIN Secs \cup {"1M"} /\ Steps \subseteq DOMAIN Secs
      /\ {"1h", "1d"} \subseteq DOMAIN Secs /\ {"30m", "4h", "4d"} \subseteq DOMAIN Secs
      /\ "1d" \in Klines /\ "1w" \in Klines /\ "1d" \in Steps
  BY DEF Klines, Steps, Secs
<1> QED BY <1>1, LastsIs

LEMMA SnapIs ==
  ASSUME NEW bands, bands \subseteq DOMAIN Lasts, bands # {}, NEW secs \in Nat
  PROVE  /\ Snap(bands, secs) \in bands
         /\ \A r \in bands :
              \/ Distance(Lasts[Snap(bands, secs)], secs) < Distance(Lasts[r], secs)
              \/ /\ Distance(Lasts[Snap(bands, secs)], secs) = Distance(Lasts[r], secs)
                 /\ Lasts[Snap(bands, secs)] <= Lasts[r]
<1> DEFINE far(s) == Distance(Lasts[s], secs)
<1>1. \A s \in bands : Lasts[s] \in Nat /\ far(s) \in Nat
  <2>1. \A s \in bands : Lasts[s] \in Nat BY LastsIs
  <2> QED BY <2>1 DEF Distance
<1> HIDE DEF far
<1>2. PICK d \in {far(s) : s \in bands} : \A e \in {far(s) : s \in bands} : d <= e
  <2> DEFINE S == {far(s) : s \in bands}
  <2>1. S \subseteq Nat /\ S # {} BY <1>1
  <2> HIDE DEF S
  <2>2. \E d \in S : \A e \in S : d <= e BY <2>1, NatOrder
  <2> QED BY <2>2 DEF S
<1> DEFINE near == {s \in bands : far(s) = d}
<1>3. near # {} BY <1>2
<1>4. PICK n \in {Lasts[s] : s \in near} : \A m \in {Lasts[s] : s \in near} : n <= m
  <2> DEFINE S == {Lasts[s] : s \in near}
  <2>1. S \subseteq Nat /\ S # {} BY <1>1, <1>3
  <2> HIDE DEF S
  <2>2. \E n \in S : \A m \in S : n <= m BY <2>1, NatOrder
  <2> QED BY <2>2 DEF S
<1>5. PICK s \in near : Lasts[s] = n BY <1>4
<1> DEFINE P(x) == \A r \in bands : far(x) < far(r) \/ (far(x) = far(r) /\ Lasts[x] <= Lasts[r])
<1>6. s \in bands /\ P(s)
  BY <1>1, <1>2, <1>4, <1>5
<1> HIDE DEF P
<1>7. Snap(bands, secs) = CHOOSE x \in bands : P(x) BY DEF Snap, P, far
<1>8. Snap(bands, secs) \in bands /\ P(Snap(bands, secs)) BY <1>6, <1>7
<1> QED BY <1>8 DEF P, far

\* An exact band is snapped to.
LEMMA SnapExact ==
  ASSUME NEW bands, bands \subseteq DOMAIN Lasts, NEW s \in bands,
         \A r \in bands : Lasts[r] = Lasts[s] => r = s
  PROVE  Snap(bands, Lasts[s]) = s
<1>1. \A r \in bands : Lasts[r] \in Nat BY LastsIs
<1> DEFINE x == Snap(bands, Lasts[s])
<1>2. /\ x \in bands
      /\ \/ Distance(Lasts[x], Lasts[s]) < Distance(Lasts[s], Lasts[s])
         \/ Distance(Lasts[x], Lasts[s]) = Distance(Lasts[s], Lasts[s])
  <2>1. bands # {} /\ Lasts[s] \in Nat BY <1>1
  <2> QED BY ONLY <2>1, SnapIs, s \in bands, bands \subseteq DOMAIN Lasts DEF x
<1> HIDE DEF x
<1>3. Lasts[x] = Lasts[s] BY <1>1, <1>2 DEF Distance
<1> QED BY <1>2, <1>3 DEF x

\* Binance's month is nobody's stamp who polls more often than half way from the week to it.
LEMMA MonthsAreRare == \A secs \in Nat : Snap(Klines, secs) = "1M" => secs > 1598400
<1> SUFFICES ASSUME NEW secs \in Nat, Snap(Klines, secs) = "1M", secs <= 1598400 PROVE FALSE
  OBVIOUS
<1>1. Lasts["1M"] = 2592000 /\ Lasts["1w"] = 604800
  <2>1. "1w" \in DOMAIN Secs BY DEF Secs
  <2> QED BY <2>1, LastsIs, SecsIs DEF Month
<1>2. \/ Distance(Lasts["1M"], secs) < Distance(Lasts["1w"], secs)
      \/ Distance(Lasts["1M"], secs) = Distance(Lasts["1w"], secs) /\ Lasts["1M"] <= Lasts["1w"]
  <2>1. Klines \subseteq DOMAIN Lasts /\ Klines # {} /\ "1w" \in Klines BY BandsAre
  <2> QED BY <2>1, SnapIs
<1> QED BY <1>1, <1>2 DEF Distance

\* All providers have days for the deep window.
LEMMA DaysAreDays ==
  /\ StampOf("bitstamp", 86400) = "1d"
  /\ \A p \in Kinds : GridOf(p, 86400) = 86400
<1>1. \A r \in DOMAIN Lasts : Lasts[r] = Lasts["1d"] => r = "1d"
  <2>1. \A r \in DOMAIN Secs : Secs[r] = Secs["1d"] => r = "1d" BY SecsIs DEF Secs
  <2>2. "1d" \in DOMAIN Secs BY DEF Secs
  <2> QED BY <2>1, <2>2, LastsIs
<1>2. /\ Snap(Klines, Lasts["1d"]) = "1d" /\ Snap(Steps, Lasts["1d"]) = "1d"
      /\ Snap({"1h", "1d"}, Lasts["1d"]) = "1d"
  BY <1>1, BandsAre, SnapExact
<1>3. 86400 \in Asked /\ Lasts["1d"] = 86400
  <2>1. "1d" \in DOMAIN Secs BY DEF Secs
  <2> QED BY <2>1, LastsIs, SecsIs DEF Asked
<1>4. Kline[86400] = "1d" /\ Step[86400] = "1d" /\ Ranges[86400] = "1d"
  BY <1>2, <1>3 DEF Kline, Step, Ranges
<1> QED BY <1>3, <1>4 DEF StampOf, GridOf

\* What a provider stamps lasts as long as its grid is wide; and it is an interval of the
\* vocabulary, or Binance's month.
LEMMA GridIs ==
  ASSUME NEW p \in Kinds, NEW secs \in Asked
  PROVE  /\ GridOf(p, secs) \in Nat \ {0}
         /\ \/ /\ StampOf(p, secs) \in DOMAIN Secs /\ GridOf(p, secs) = Secs[StampOf(p, secs)]
               /\ GridOf(p, secs) # Month
            \/ /\ p = "binance" /\ StampOf(p, secs) = "1M" /\ GridOf(p, secs) = Month
               /\ secs > 1598400
<1>1. secs \in Nat BY WalkAssumption DEF Asked
<1>2. /\ Snap(Klines, secs) \in DOMAIN Secs \cup {"1M"} /\ Snap(Steps, secs) \in DOMAIN Secs
      /\ Snap({"1h", "1d"}, secs) \in DOMAIN Secs
  <2>1. Klines # {} /\ Steps # {} BY BandsAre
  <2>2. Snap(Klines, secs) \in Klines BY <1>1, <2>1, BandsAre, SnapIs
  <2>3. Snap(Steps, secs) \in Steps BY <1>1, <2>1, BandsAre, SnapIs
  <2>4. Snap({"1h", "1d"}, secs) \in {"1h", "1d"} BY <1>1, BandsAre, SnapIs
  <2> QED BY <2>2, <2>3, <2>4, BandsAre
<1>3. GridOf(p, secs) = Lasts[StampOf(p, secs)]
  BY DEF GridOf, StampOf, RangeStamp
<1>4. \/ StampOf(p, secs) \in DOMAIN Secs
      \/ p = "binance" /\ StampOf(p, secs) = "1M" /\ secs > 1598400
  <2>1. CASE p = "binance"
    <3>1. StampOf(p, secs) = Snap(Klines, secs) BY <2>1 DEF StampOf, Kline
    <3> QED BY <1>1, <1>2, <2>1, <3>1, MonthsAreRare
  <2>2. CASE p # "binance" BY <1>2, <2>2 DEF StampOf, RangeStamp, Step, Ranges
  <2> QED BY <2>1, <2>2
<1>5. CASE StampOf(p, secs) \in DOMAIN Secs BY <1>3, <1>5, LastsIs
<1>6. CASE StampOf(p, secs) = "1M" BY <1>3, <1>4, <1>6, LastsIs
<1> QED BY <1>4, <1>5, <1>6

-----------------------------------------------------------------------------
(* The calendar.                                                           *)

\* The numbers of the candles of a grid: there are as many months as the calendar lists.
Index(grid) == IF grid = Month THEN 1..Len(Months) ELSE Int

LEMMA OpensIs ==
  ASSUME NEW grid \in Nat \ {0}
  PROVE  /\ Index(grid) \subseteq Int
         /\ \A k \in Index(grid) : Opens(grid, k) \in Int
         /\ \A k, n \in Index(grid) : k < n => Opens(grid, k) < Opens(grid, n)
         /\ \A k, n \in Index(grid) : \A m \in Int : k <= m /\ m <= n => m \in Index(grid)
         /\ grid # Month => Index(grid) = Int /\ \A k \in Int : Opens(grid, k) = k * grid
<1>1. CASE grid = Month
  <2>1. Index(grid) = 1..Len(Months) /\ \A k : Opens(grid, k) = Months[k]
    BY <1>1 DEF Index, Opens
  <2>2. Months \in Seq(Nat) /\ Len(Months) \in Nat
    <3>1. Months \in Seq(Nat) BY WalkAssumption
    <3> QED BY <3>1
  <2>3. \A k \in 1..Len(Months) : Months[k] \in Nat BY <2>2
  <2>4. \A k, n \in 1..Len(Months) : k < n => Months[k] < Months[n] BY WalkAssumption
  <2> QED BY <1>1, <2>1, <2>2, <2>3, <2>4
<1>2. CASE grid # Month
  <2>1. Index(grid) = Int /\ \A k : Opens(grid, k) = k * grid BY <1>2 DEF Index, Opens
  <2>2. ASSUME NEW k \in Int, NEW n \in Int, k < n PROVE k * grid < n * grid BY <2>2
  <2> QED BY <2>1, <2>2
<1> QED BY <1>1, <1>2

\* Of numbers from one on without a gap, the last is how many there are.
LEMMA CountIsLast ==
  ASSUME NEW n \in Nat, NEW S, S \subseteq 1..n,
         \A j, k \in 1..n : j < k /\ k \in S => j \in S
  PROVE  Cardinality(S) \in 0..n /\ \A k \in 1..n : k \in S <=> k <= Cardinality(S)
<1>1. CASE S = {}
  <2>1. Cardinality(S) = 0 BY <1>1, FS_EmptySet
  <2> QED BY <1>1, <2>1
<1>2. CASE S # {}
  <2> DEFINE T == {n - k : k \in S}
  <2>1. T \subseteq Nat /\ T # {} BY <1>2
  <2>2. PICK d \in T : \A e \in T : d <= e BY <2>1, NatOrder
  <2>3. PICK m \in S : d = n - m BY <2>2
  <2>4. ASSUME NEW k \in S PROVE k <= m
    <3>1. n - k \in T OBVIOUS
    <3>2. n - m <= n - k BY <2>2, <2>3, <3>1
    <3> QED BY <3>2
  <2> HIDE DEF T
  <2>5. S = 1..m
    <3>1. m \in 1..n OBVIOUS
    <3>2. \A k \in 1..m : k \in S BY <3>1
    <3>3. \A k \in S : k \in 1..m BY <2>4, <3>1
    <3> QED BY <3>2, <3>3
  <2>6. Cardinality(1..m) = m BY FS_Interval
  <2> QED BY <2>5, <2>6
<1> QED BY <1>1, <1>2

\* The first month from an instant on, and the last up to it.
LEMMA MonthsCount ==
  ASSUME NEW t \in Nat
  PROVE  /\ Ceiling(Month, t) \in 1..(Len(Months) + 1) /\ Floor(Month, t) \in 0..Len(Months)
         /\ \A k \in 1..Len(Months) : Ceiling(Month, t) <= k <=> t <= Months[k]
         /\ \A k \in 1..Len(Months) : k <= Floor(Month, t) <=> Months[k] <= t
<1>1. Months \in Seq(Nat) BY WalkAssumption
<1>2. Len(Months) \in Nat /\ \A k \in 1..Len(Months) : Months[k] \in Nat BY <1>1
<1>3. \A j, k \in 1..Len(Months) : j < k => Months[j] < Months[k] BY WalkAssumption
<1> DEFINE Before == {k \in 1..Len(Months) : Months[k] < t}
           UpTo   == {k \in 1..Len(Months) : Months[k] <= t}
<1>4. Ceiling(Month, t) = Cardinality(Before) + 1 /\ Floor(Month, t) = Cardinality(UpTo)
  BY DEF Ceiling, Floor
<1>5. /\ Cardinality(Before) \in 0..Len(Months)
      /\ \A k \in 1..Len(Months) : k \in Before <=> k <= Cardinality(Before)
  <2>1. Before \subseteq 1..Len(Months) OBVIOUS
  <2>2. \A j, k \in 1..Len(Months) : j < k /\ k \in Before => j \in Before BY <1>2, <1>3
  <2> HIDE DEF Before
  <2> QED BY <1>2, <2>1, <2>2, CountIsLast
<1>6. /\ Cardinality(UpTo) \in 0..Len(Months)
      /\ \A k \in 1..Len(Months) : k \in UpTo <=> k <= Cardinality(UpTo)
  <2>1. UpTo \subseteq 1..Len(Months) OBVIOUS
  <2>2. \A j, k \in 1..Len(Months) : j < k /\ k \in UpTo => j \in UpTo BY <1>2, <1>3
  <2> HIDE DEF UpTo
  <2> QED BY <1>2, <2>1, <2>2, CountIsLast
<1>7. ASSUME NEW k \in 1..Len(Months)
      PROVE  /\ Cardinality(Before) + 1 <= k <=> t <= Months[k]
             /\ k <= Cardinality(UpTo) <=> Months[k] <= t
  <2>1. k \in Before <=> Months[k] < t OBVIOUS
  <2>2. k \in UpTo <=> Months[k] <= t OBVIOUS
  <2>3. k \in Nat /\ Months[k] \in Nat BY <1>2
  <2> HIDE DEF Before, UpTo
  <2> QED BY <1>5, <1>6, <2>1, <2>2, <2>3
<1> HIDE DEF Before, UpTo
<1> QED BY <1>2, <1>4, <1>5, <1>6, <1>7

-----------------------------------------------------------------------------
(* Pages.                                                                  *)

\* Chain, depths and window of a walk never change; the interval is one of those there are.
Fixed ==
  /\ listed \in Orders /\ depth \in [1..Len(listed) -> Depths]
  /\ window \in {DeepChunk, StartupChunk} /\ window.start < window.end
  /\ poll \in Intervals

LEMMA FixedTypes ==
  ASSUME Fixed
  PROVE  /\ \A i \in 1..Len(listed) : /\ listed[i] \in Kinds
                                      /\ depth[i].first \in Nat /\ depth[i].last \in Nat
         /\ Ranged \subseteq 1..Len(listed) /\ Ranged \subseteq Nat \ {0}
         /\ window.start \in Nat /\ window.end \in Nat /\ window.interval \in {0, 86400}
         /\ poll \in Asked /\ Interval \in Asked /\ Interval \in Nat \ {0}
<1>1. listed \in Seq(Kinds) BY WalkAssumption DEF Fixed
<1>2. Len(listed) \in Nat /\ \A i \in 1..Len(listed) : listed[i] \in Kinds BY <1>1
<1>3. \A i \in 1..Len(listed) : depth[i] \in [first : Nat, last : Nat]
  BY WalkAssumption DEF Fixed
<1>4. /\ window.start \in Nat /\ window.end \in Int /\ window.interval \in {0, 86400}
  BY WalkAssumption DEF Fixed, DeepChunk, StartupChunk, DeepEnd
<1>5. poll \in Asked /\ poll \in Nat \ {0} BY WalkAssumption DEF Fixed, Asked
<1>6. Interval \in Asked /\ Interval \in Nat \ {0} BY <1>4, <1>5 DEF Interval, Asked
<1>7. window.end \in Nat BY <1>4 DEF Fixed
<1>8. Ranged \subseteq 1..Len(listed) /\ Ranged \subseteq Nat \ {0} BY <1>2 DEF Ranged
<1> QED BY <1>2, <1>3, <1>4, <1>5, <1>6, <1>7, <1>8

\* The instants of a provider between two others.
LEMMA CountsAre ==
  ASSUME NEW i, depth[i].first \in Nat, depth[i].last \in Nat, NEW grid \in Nat \ {0},
         NEW from \in Nat, NEW to \in Nat
  PROVE  /\ First(i, grid, from) \in Int /\ Last(i, grid, to) \in Int
         /\ \A k \in Index(grid) :
              First(i, grid, from) <= k <=> depth[i].first <= Opens(grid, k) /\ from <= Opens(grid, k)
         /\ \A k \in Index(grid) :
              k <= Last(i, grid, to) <=> Opens(grid, k) <= depth[i].last /\ Opens(grid, k) <= to
         /\ \A k \in Int : First(i, grid, from) <= k /\ k <= Last(i, grid, to) => k \in Index(grid)
<1> DEFINE lo == Max({depth[i].first, from})
           hi == Min({depth[i].last, to})
<1>1. /\ lo \in Nat /\ \A k \in Int : lo <= k <=> depth[i].first <= k /\ from <= k
      /\ hi \in Nat /\ \A k \in Int : k <= hi <=> k <= depth[i].last /\ k <= to
  <2>1. lo = IF depth[i].first <= from THEN from ELSE depth[i].first BY GreaterIs
  <2>2. hi = IF depth[i].last <= to THEN depth[i].last ELSE to BY LesserIs
  <2> HIDE DEF lo, hi
  <2> QED BY <2>1, <2>2
<1>2. First(i, grid, from) = Ceiling(grid, lo) /\ Last(i, grid, to) = Floor(grid, hi)
  BY DEF First, Last
<1> HIDE DEF lo, hi
<1>3. /\ Ceiling(grid, lo) \in Int /\ Floor(grid, hi) \in Int
      /\ \A k \in Index(grid) : Ceiling(grid, lo) <= k <=> lo <= Opens(grid, k)
      /\ \A k \in Index(grid) : k <= Floor(grid, hi) <=> Opens(grid, k) <= hi
      /\ \A k \in Int : Ceiling(grid, lo) <= k /\ k <= Floor(grid, hi) => k \in Index(grid)
  <2>1. CASE grid = Month
    <3>1. Months \in Seq(Nat) BY WalkAssumption
    <3>2. Len(Months) \in Nat BY <3>1
    <3>3. Index(Month) = 1..Len(Months) /\ \A k : Opens(Month, k) = Months[k] BY DEF Index, Opens
    <3> QED BY <1>1, <2>1, <3>2, <3>3, MonthsCount
  <2>2. CASE grid # Month
    <3>1. Index(grid) = Int /\ \A k \in Int : Opens(grid, k) = k * grid BY <2>2, OpensIs
    <3>2. Ceiling(grid, lo) = (lo + (grid - 1)) \div grid /\ Floor(grid, hi) = hi \div grid
      BY <1>1, <2>2 DEF Ceiling, Floor
    <3>3. Ceiling(grid, lo) \in Int /\ Floor(grid, hi) \in Int BY <1>1, <3>2
    <3>4. ASSUME NEW k \in Int
          PROVE  /\ Ceiling(grid, lo) <= k <=> lo <= k * grid
                 /\ k <= Floor(grid, hi) <=> k * grid <= hi
      <4>1. (lo + (grid - 1)) \div grid <= k <=> lo <= k * grid BY <1>1, CeilingIs
      <4>2. k <= hi \div grid <=> k * grid <= hi BY <1>1, FloorIs
      <4> QED BY <3>2, <4>1, <4>2
    <3> QED BY <3>1, <3>3, <3>4
  <2> QED BY <2>1, <2>2
<1>4. \A k \in Index(grid) : Opens(grid, k) \in Int BY OpensIs
<1> QED BY <1>1, <1>2, <1>3, <1>4

LEMMA InstantsAre ==
  ASSUME NEW m \in Int, NEW n \in Int, NEW grid
  PROVE  \A t : t \in Instants(m, n, grid) <=> \E k \in Int : t = Opens(grid, k) /\ m <= k /\ k <= n
BY DEF Instants

\* How far a request reaches, and that it begins no later than it is asked to.
LEMMA ReachIs ==
  ASSUME NEW p \in Kinds, NEW secs \in Asked, NEW start \in Nat, NEW end \in Nat, start <= end
  PROVE  /\ Reach(p, start, end, secs) \in Nat /\ Reach(p, start, end, secs) <= end
         /\ p = "binance" => Reach(p, start, end, secs) = end
         /\ p = "bitstamp" =>
              /\ Reach(p, start, end, secs) <= start + Limit * GridOf(p, secs)
              /\ \/ Reach(p, start, end, secs) = end
                 \/ Reach(p, start, end, secs) = start + Limit * GridOf(p, secs)
         /\ From(p, start) \in Nat /\ From(p, start) <= start
         /\ p \notin {"analyst"} => From(p, start) = start
<1> DEFINE g == GridOf(p, secs)
           l == Limit * g
           span == IF g = 86400 THEN DailySpan ELSE HourlySpan
<1>1. g \in Nat \ {0} BY GridIs
<1>2. l \in Nat BY <1>1, WalkAssumption
<1>3. span \in Nat BY WalkAssumption
<1>4. \A t \in Nat : Minute(t) \in Nat /\ Minute(t) <= t BY DEF Minute
<1>5. From(p, start) \in Nat /\ From(p, start) <= start BY <1>4 DEF From
<1>6. /\ Min({end, start + l}) \in Nat /\ Min({end, start + l}) <= end
      /\ Min({end, start + l}) >= start /\ Min({end, start + l}) <= start + l
      /\ Min({end, start + l}) = end \/ Min({end, start + l}) = start + l
  BY <1>2, LesserIs
<1>7. Max({start, Min({end, start + l})}) = Min({end, start + l})
  <2> DEFINE cap == Min({end, start + l})
  <2>1. cap \in Int /\ start <= cap BY <1>6
  <2> HIDE DEF cap
  <2>2. Max({start, cap}) = cap BY <2>1, GreaterIs
  <2> QED BY <2>2 DEF cap
<1>8. Min({end, start + span}) \in Nat /\ Min({end, start + span}) <= end BY <1>3, LesserIs
<1>9. CASE p = "binance" BY <1>9, <1>5 DEF Reach, From
<1>10. CASE p = "bitstamp"
  <2>1. Reach(p, start, end, secs) = Min({end, start + l})
    BY <1>10, <1>7 DEF Reach, PageEnd
  <2> HIDE DEF l
  <2>2. GridOf(p, secs) * Limit = l /\ Limit * GridOf(p, secs) = l BY <1>1, WalkAssumption DEF l
  <2> QED BY <1>5, <1>6, <1>10, <2>1, <2>2 DEF From
<1>11. CASE p \in {"analyst", "demo"}
  <2>1. Reach(p, start, end, secs) = Minute(Min({end, start + span}))
    BY <1>11 DEF Reach
  <2> HIDE DEF span
  <2> QED BY <1>4, <1>5, <1>8, <1>11, <2>1 DEF From
<1> QED BY <1>9, <1>10, <1>11 DEF Kinds

LEMMA ReachWithin ==
  ASSUME NEW p \in Kinds, NEW secs \in Asked, NEW start \in Nat, NEW end \in Nat, start < end
  PROVE  Reach(p, start, end, secs) \in Nat /\ Reach(p, start, end, secs) <= end
<1>1. start <= end OBVIOUS
<1> QED BY <1>1, ReachIs

\* A page holds instants of the provider, none before the request or beyond its reach.
LEMMA PageHolds ==
  ASSUME Fixed, NEW i \in Ranged, NEW secs \in Asked, NEW start \in Nat, NEW end \in Nat, start <= end
  PROVE  \A t \in UpstreamPage(i, start, end, secs) :
           /\ \E k \in Index(GridOf(listed[i], secs)) : t = Opens(GridOf(listed[i], secs), k)
           /\ t \in Nat /\ t <= Reach(listed[i], start, end, secs)
           /\ depth[i].first <= t /\ From(listed[i], start) <= t
<1> DEFINE p == listed[i]
           g == GridOf(p, secs)
           from == From(p, start)
           to == Reach(p, start, end, secs)
           a == First(i, g, from)
           b == Last(i, g, to)
<1>1. p \in Kinds /\ depth[i].first \in Nat /\ depth[i].last \in Nat BY FixedTypes
<1>2. g \in Nat \ {0} BY <1>1, GridIs
<1>3. from \in Nat /\ to \in Nat BY <1>1, ReachIs
<1>4. /\ a \in Int /\ b \in Int
      /\ \A k \in Index(g) : a <= k <=> depth[i].first <= Opens(g, k) /\ from <= Opens(g, k)
      /\ \A k \in Index(g) : k <= b <=> Opens(g, k) <= depth[i].last /\ Opens(g, k) <= to
      /\ \A k \in Int : a <= k /\ k <= b => k \in Index(g)
  <2> HIDE DEF p, g, from, to
  <2> QED BY <1>1, <1>2, <1>3, CountsAre
<1>5. UpstreamPage(i, start, end, secs) = CASE p = "binance"  -> KlinesPage(a, b, g)
       [] p = "bitstamp" -> OhlcPage(a, b, g)
       [] OTHER          -> Instants(a, b, g)
  BY DEF UpstreamPage
<1> HIDE DEF p, g, from, to, a, b
<1>6. Limit \in Nat BY WalkAssumption
<1>7. ASSUME NEW t \in UpstreamPage(i, start, end, secs)
      PROVE  \E k \in Int : t = Opens(g, k) /\ a <= k /\ k <= b
  <2>1. CASE p = "binance"
    <3> DEFINE last == Min({b, a + (Limit - 1)})
    <3>1. last \in Int /\ last <= b BY <1>4, <1>6, LesserIs
    <3>2. t \in Instants(a, last, g) BY <1>5, <2>1 DEF KlinesPage
    <3> HIDE DEF last
    <3>3. PICK k \in Int : t = Opens(g, k) /\ a <= k /\ k <= last BY ONLY <1>4, <3>1, <3>2, InstantsAre
    <3> QED BY <1>4, <3>1, <3>3
  <2>2. CASE p = "bitstamp"
    <3> DEFINE first == Max({a, (b - Limit) + 1})
    <3>1. first \in Int /\ first >= a
      <4>1. (b - Limit) + 1 \in Int BY <1>4, <1>6
      <4> QED BY <1>4, <4>1, GreaterIs
    <3>2. t \in Instants(first, b, g) BY <1>5, <2>2 DEF OhlcPage
    <3> HIDE DEF first
    <3>3. PICK k \in Int : t = Opens(g, k) /\ first <= k /\ k <= b BY ONLY <1>4, <3>1, <3>2, InstantsAre
    <3> QED BY <1>4, <3>1, <3>3
  <2>3. CASE p # "binance" /\ p # "bitstamp"
    <3>1. t \in Instants(a, b, g) BY <1>5, <2>3
    <3> QED BY ONLY <1>4, <3>1, InstantsAre
  <2> QED BY <2>1, <2>2, <2>3
<1>8. ASSUME NEW t \in UpstreamPage(i, start, end, secs)
      PROVE  (\E k \in Index(g) : t = Opens(g, k)) /\ t \in Nat /\ t <= to /\ depth[i].first <= t /\ from <= t
  <2>1. PICK k \in Int : t = Opens(g, k) /\ a <= k /\ k <= b BY <1>7
  <2>2. k \in Index(g) /\ t \in Int BY <1>2, <1>4, <2>1, OpensIs
  <2> QED BY <1>1, <1>4, <2>1, <2>2
<1> QED BY <1>8 DEF p, g, from, to

\* What a provider has within the reach of a request is in the page, but for what a full
\* page leaves out: the last ones of Binance, the first one of Bitstamp.
LEMMA PageHasAll ==
  ASSUME Fixed, NEW i \in Ranged, NEW secs \in Asked, NEW start \in Nat, NEW end \in Nat, start <= end,
         NEW k \in Index(GridOf(listed[i], secs)), NEW t, t = Opens(GridOf(listed[i], secs), k),
         depth[i].first <= t, t <= depth[i].last, start <= t, t <= Reach(listed[i], start, end, secs)
  PROVE  /\ UpstreamPage(i, start, end, secs) # {}
         /\ \/ t \in UpstreamPage(i, start, end, secs)
            \/ /\ listed[i] = "binance"
               /\ \A u \in UpstreamPage(i, start, end, secs) : u < t
               /\ \E u \in UpstreamPage(i, start, end, secs) : start < u
            \/ listed[i] = "bitstamp" /\ t = start
<1> DEFINE p == listed[i]
           g == GridOf(p, secs)
           from == From(p, start)
           to == Reach(p, start, end, secs)
           a == First(i, g, from)
           b == Last(i, g, to)
           page == UpstreamPage(i, start, end, secs)
<1>1. p \in Kinds /\ depth[i].first \in Nat /\ depth[i].last \in Nat BY FixedTypes
<1>2. g \in Nat \ {0} BY <1>1, GridIs
<1>3. from \in Nat /\ from <= start /\ to \in Nat /\ (p \notin {"analyst"} => from = start)
  BY <1>1, ReachIs
<1>4. /\ a \in Int /\ b \in Int
      /\ \A n \in Index(g) : a <= n <=> depth[i].first <= Opens(g, n) /\ from <= Opens(g, n)
      /\ \A n \in Index(g) : n <= b <=> Opens(g, n) <= depth[i].last /\ Opens(g, n) <= to
      /\ \A n \in Int : a <= n /\ n <= b => n \in Index(g)
  <2> HIDE DEF p, g, from, to
  <2> QED BY <1>1, <1>2, <1>3, CountsAre
<1>5. page = CASE p = "binance"  -> KlinesPage(a, b, g)
       [] p = "bitstamp" -> OhlcPage(a, b, g)
       [] OTHER          -> Instants(a, b, g)
  BY DEF UpstreamPage
<1>6. p = "bitstamp" => to <= start + Limit * g BY <1>1, ReachIs
<1>7. t = Opens(g, k) /\ k \in Index(g) /\ k \in Int /\ t \in Int /\ t <= to BY <1>2, OpensIs
<1>13. p # "binance" => Index(g) = Int /\ \A n \in Int : Opens(g, n) = n * g
  BY <1>1, <1>2, GridIs, OpensIs
<1> HIDE DEF p, g, from, to, a, b, page
<1>8. Limit \in Nat /\ Limit > 1 BY WalkAssumption, PageAssumption
<1>9. a <= k /\ k <= b BY <1>1, <1>3, <1>4, <1>7
<1>10. CASE p = "binance"
  <2> DEFINE last == Min({b, a + (Limit - 1)})
  <2>1. last = IF b <= a + (Limit - 1) THEN b ELSE a + (Limit - 1) BY <1>4, <1>8, LesserIs
  <2>2. \A u : u \in page <=> \E n \in Int : u = Opens(g, n) /\ a <= n /\ n <= last
    <3>1. page = Instants(a, last, g) BY <1>5, <1>10 DEF KlinesPage
    <3>2. last \in Int BY <1>4, <1>8, <2>1
    <3> HIDE DEF last
    <3> QED BY <1>4, <3>1, <3>2, InstantsAre
  <2> HIDE DEF last
  <2>3. Opens(g, a) \in page BY <1>4, <1>7, <1>8, <1>9, <2>1, <2>2
  <2>4. CASE k <= last BY <1>7, <1>9, <2>2, <2>3, <2>4 DEF page
  <2>5. CASE last < k
    <3>1. last = a + (Limit - 1) BY <1>4, <1>7, <1>8, <1>9, <2>1, <2>5
    <3>2. Opens(g, a + 1) \in page BY <1>4, <1>8, <2>2, <3>1
    <3>3. start < Opens(g, a + 1)
      <4>1. a \in Index(g) /\ a + 1 \in Index(g) BY <1>4, <1>7, <1>8, <1>9, <2>5, <3>1
      <4>2. start <= Opens(g, a) BY <1>3, <1>4, <1>10, <4>1
      <4>3. Opens(g, a) < Opens(g, a + 1) /\ Opens(g, a) \in Int /\ Opens(g, a + 1) \in Int
        BY <1>2, <1>4, <4>1, OpensIs
      <4> QED BY <4>2, <4>3
    <3>4. ASSUME NEW u \in page PROVE u < t
      <4>1. PICK n \in Int : u = Opens(g, n) /\ a <= n /\ n <= last BY <2>2
      <4>2. n < k BY <1>4, <1>7, <1>8, <2>5, <3>1, <4>1
      <4>3. n \in Index(g)  BY <1>4, <1>7, <1>9, <4>1, <4>2
      <4> QED BY <1>2, <1>7, <4>1, <4>2, <4>3, OpensIs
    <3> QED BY <1>10, <2>3, <3>2, <3>3, <3>4 DEF p, page
  <2> QED BY <1>4, <1>7, <1>8, <2>1, <2>4, <2>5
<1>11. CASE p = "bitstamp"
  <2> DEFINE first == Max({a, (b - Limit) + 1})
  <2>1. first = IF a <= (b - Limit) + 1 THEN (b - Limit) + 1 ELSE a BY <1>4, <1>8, GreaterIs
  <2>2. \A u : u \in page <=> \E n \in Int : u = Opens(g, n) /\ first <= n /\ n <= b
    <3>1. page = Instants(first, b, g) BY <1>5, <1>11 DEF OhlcPage
    <3>2. first \in Int BY <1>4, <1>8, <2>1
    <3> HIDE DEF first
    <3> QED BY <1>4, <3>1, <3>2, InstantsAre
  <2> HIDE DEF first
  <2>3. first <= b BY <1>4, <1>7, <1>8, <1>9, <2>1
  <2>4. Opens(g, b) \in page BY <1>4, <2>2, <2>3
  <2>5. CASE first <= k BY <1>7, <1>9, <2>2, <2>4, <2>5 DEF page
  <2>6. CASE k < first
    <3>1. k <= b - Limit BY <1>4, <1>7, <1>8, <1>9, <2>1, <2>6
    <3>6. /\ t = k * g /\ Opens(g, b) = b * g /\ Opens(g, b) <= to BY <1>4, <1>7, <1>9, <1>11, <1>13
    <3>2. k * g <= (b - Limit) * g BY <1>2, <1>4, <1>7, <1>8, <3>1
    <3>3. (b - Limit) * g = (b * g) - (Limit * g) /\ b * g \in Int /\ Limit * g \in Int
      BY <1>2, <1>4, <1>8
    <3>4. b * g <= to BY <3>6
    <3>5. t <= start BY <1>3, <1>6, <1>7, <1>11, <3>2, <3>3, <3>4, <3>6
    <3> QED BY <1>7, <1>11, <2>4, <3>5 DEF p, page
  <2> QED BY <1>4, <1>7, <1>8, <2>1, <2>5, <2>6
<1>12. CASE p # "binance" /\ p # "bitstamp"
  <2>1. page = Instants(a, b, g) BY <1>5, <1>12
  <2>2. t \in page BY <1>4, <1>7, <1>9, <2>1, InstantsAre
  <2> QED BY <2>2 DEF page
<1> QED BY <1>10, <1>11, <1>12

-----------------------------------------------------------------------------
(* One page of the walk.                                                   *)

\* The record a page leaves of itself.
Record(by, down, to) ==
  [from |-> Start, first |-> cursor = None, to |-> to, by |-> by, down |-> down, secs |-> Interval]

\* What of the page that counts is new.
Gained(by) == IF by = 0 THEN {} ELSE {t \in UpstreamPage(by, Start, window.end, Interval) : Wanted(t)}

\* Where an open walk is.
LEMMA StartIs ==
  ASSUME Fixed, WalkTypeOK, ~done
  PROVE  /\ Start \in Nat /\ window.start <= Start /\ Start < window.end
         /\ cursor # None => cursor = Start
BY FixedTypes DEF Fixed, WalkTypeOK, Start, None

\* A page, what it keeps and where it moves the cursor.
PageIs(by, down, to) ==
  /\ ~done /\ by \notin down /\ (by # 0 => Answers(by))
  /\ Start <= to /\ to <= window.end
  /\ \A i \in Ranged \ down : by = 0 \/ i < by => ~Answers(i)
  /\ Gained(by) = {} => to <= Start + SkipCandles * Interval
  /\ Gained(by) # {} => to \in Gained(by) /\ \A t \in Gained(by) : t <= to
  /\ \A t \in Gained(by) : t \in Nat /\ t < window.end /\ t >= Start
  /\ cursor' = to /\ done' = (to >= window.end)
  /\ candles' = candles \cup {Candle(StampOf(listed[by], Interval), t) : t \in Gained(by)}
  /\ passed' = passed \cup {Record(by, down, to)}
  /\ UNCHANGED <<listed, depth, window, poll>>

LEMMA PageTaken ==
  ASSUME Fixed, WalkTypeOK, NEW down, down \subseteq Ranged, TakePage(down)
  PROVE  \E by \in Ranged \cup {0}, to \in Nat : PageIs(by, down, to)
<1>1. PICK by \in Ranged \cup {0} :
        /\ by \notin down /\ Take(by, down) /\ (by = 0 => down = {}) /\ (by # 0 => Answers(by))
        /\ \A i \in Ranged \ down : by = 0 \/ i < by => ~Answers(i)
  <2>1. 0 \notin Ranged BY FixedTypes
  <2>2. \A i \in Ranged : ~(i = 0) BY <2>1
  <2> QED BY <2>1, <2>2 DEF TakePage
<1> DEFINE to == NextCursorForPage(Gained(by))
<1>2. /\ ~done /\ cursor' = to /\ done' = (to >= window.end)
      /\ candles' = candles \cup {Candle(StampOf(listed[by], Interval), t) : t \in Gained(by)}
      /\ passed' = passed \cup {Record(by, down, to)}
      /\ UNCHANGED <<listed, depth, window, poll>>
  BY <1>1 DEF Take, Gained, Record
<1>3. /\ Start \in Nat /\ window.start <= Start /\ Start < window.end /\ window.end \in Nat
      /\ Interval \in Asked /\ Interval \in Nat \ {0}
  BY <1>2, StartIs, FixedTypes
<1>4. \A t \in Gained(by) : t \in Nat /\ t < window.end /\ t >= Start
  <2>1. CASE by = 0 BY <2>1 DEF Gained
  <2>2. CASE by # 0
    <3>1. by \in Ranged BY <1>1, <2>2
    <3>2. \A t \in UpstreamPage(by, Start, window.end, Interval) : t \in Nat
      BY <1>3, <3>1, PageHolds
    <3> QED BY <1>3, <2>2, <3>2 DEF Gained, Wanted
  <2> QED BY <2>1, <2>2
<1>5. CASE Gained(by) = {}
  <2> DEFINE skip == Start + SkipCandles * Interval
  <2>1. skip \in Nat /\ Start <= skip BY <1>3, WalkAssumption
  <2>2. to = Min({skip, window.end}) BY <1>5 DEF NextCursorForPage
  <2> HIDE DEF skip
  <2>3. to \in Nat /\ Start <= to /\ to <= window.end /\ to <= skip
    BY <1>3, <2>1, <2>2, LesserIs
  <2>4. PageIs(by, down, to) BY <1>1, <1>2, <1>4, <1>5, <2>3 DEF skip, PageIs
  <2> QED BY <2>3, <2>4
<1>6. CASE Gained(by) # {}
  <2>1. to = Max(Gained(by)) BY <1>6 DEF NextCursorForPage
  <2>2. to \in Gained(by) /\ \A t \in Gained(by) : t <= to
    <3>1. \A t \in Gained(by) : t \in Int /\ t <= window.end BY <1>3, <1>4
    <3> HIDE DEF to
    <3> QED BY <1>3, <1>6, <2>1, <3>1, GreatestIs
  <2> HIDE DEF to
  <2>3. to \in Nat /\ Start <= to /\ to <= window.end BY <1>3, <1>4, <2>2
  <2>4. PageIs(by, down, to) BY <1>1, <1>2, <1>4, <1>6, <2>2, <2>3 DEF PageIs
  <2> QED BY <2>3, <2>4
<1> QED BY <1>5, <1>6

\* What a provider has between two instants.
LEMMA HasIs ==
  ASSUME Fixed, NEW i \in Ranged, NEW g \in Nat \ {0}, NEW from \in Nat, NEW to \in Nat
  PROVE  \A t : t \in Has(i, g, from, to) <=>
           \E k \in Index(g) : /\ t = Opens(g, k) /\ depth[i].first <= t /\ t <= depth[i].last
                               /\ from <= t /\ t <= to
<1>1. depth[i].first \in Nat /\ depth[i].last \in Nat BY FixedTypes
<1>2. /\ First(i, g, from) \in Int /\ Last(i, g, to) \in Int
      /\ \A k \in Index(g) :
           First(i, g, from) <= k <=> depth[i].first <= Opens(g, k) /\ from <= Opens(g, k)
      /\ \A k \in Index(g) :
           k <= Last(i, g, to) <=> Opens(g, k) <= depth[i].last /\ Opens(g, k) <= to
      /\ \A k \in Int : First(i, g, from) <= k /\ k <= Last(i, g, to) => k \in Index(g)
  BY <1>1, CountsAre
<1>3. \A t : t \in Has(i, g, from, to) <=>
         \E k \in Int : t = Opens(g, k) /\ First(i, g, from) <= k /\ k <= Last(i, g, to)
  BY <1>2, InstantsAre DEF Has
<1>4. Index(g) \subseteq Int BY OpensIs
<1> QED BY <1>2, <1>3, <1>4

\* A candle a page passed over is stored, or it is one of the exceptions.
PassedOver(p, i, t, rows) ==
  (t \in Has(i, GridOf(listed[i], p.secs), p.from, p.to) /\ (p.first \/ t > p.from) /\ t < window.end) =>
      \/ Candle(StampOf(listed[i], p.secs), t) \in rows
      \/ p.by \in 1..(i - 1)
      \/ i \in p.down
      \/ t > Reach(listed[i], p.from, window.end, p.secs)
      \/ listed[i] = "bitstamp" /\ t = window.start

LEMMA LostIs == NothingLost <=> \A p \in passed : \A i \in Ranged : \A t : PassedOver(p, i, t, candles)
BY DEF NothingLost, PassedOver

\* It is so of the page just taken.
LEMMA PageLosesNothing ==
  ASSUME Fixed, WalkTypeOK, NEW down, NEW by \in Ranged \cup {0}, NEW to \in Nat,
         PageIs(by, down, to), NEW i \in Ranged, NEW t
  PROVE  PassedOver(Record(by, down, to), i, t, candles')
<1> DEFINE p == Record(by, down, to)
<1>1.   /\ ~done /\ by \notin down
        /\ \A j \in Ranged \ down : by = 0 \/ j < by => ~Answers(j)
        /\ Gained(by) # {} => to \in Gained(by)
        /\ candles' = candles \cup {Candle(StampOf(listed[by], Interval), u) : u \in Gained(by)}
        /\ passed' = passed \cup {Record(by, down, to)}
  BY DEF PageIs
<1>3. /\ p.from = Start /\ p.first = (cursor = None) /\ p.to = to
      /\ p.by = by /\ p.down = down /\ p.secs = Interval
  BY DEF Record
<1> HIDE DEF p
<1> DEFINE g == GridOf(listed[i], Interval)
           page == UpstreamPage(i, Start, window.end, Interval)
           reach == Reach(listed[i], Start, window.end, Interval)
<1>4. /\ Start \in Nat /\ Start < window.end /\ window.end \in Nat /\ Interval \in Asked
      /\ window.start <= Start /\ (cursor # None => cursor = Start) /\ window.start \in Nat
      /\ listed[i] \in Kinds /\ (cursor = None => Start = window.start) /\ i \in Nat \ {0}
  BY <1>1, StartIs, FixedTypes DEF Start
<1>5. g \in Nat \ {0} BY <1>4, GridIs
<1> SUFFICES ASSUME t \in Has(i, g, Start, to), cursor = None \/ t > Start, t < window.end,
                    ~(by \in 1..(i - 1)), i \notin down, ~(t > reach),
                    ~(listed[i] = "bitstamp" /\ t = window.start)
             PROVE  Candle(StampOf(listed[i], Interval), t) \in candles'
  BY <1>3 DEF PassedOver, p
<1>6. PICK k \in Index(g) : /\ t = Opens(g, k) /\ depth[i].first <= t /\ t <= depth[i].last
                            /\ Start <= t /\ t <= to
  <2> HIDE DEF g
  <2> QED BY <1>1, <1>4, <1>5, HasIs
<1>7. t \in Int /\ t <= reach
  <2>1. reach \in Nat BY <1>4, ReachIs
  <2>2. t \in Int BY <1>5, <1>6, OpensIs
  <2> HIDE DEF reach
  <2> QED BY <2>1, <2>2
<1>8. /\ page # {}
      /\ \/ t \in page
         \/ /\ listed[i] = "binance" /\ \A u \in page : u < t
            /\ \E u \in page : Start < u
         \/ listed[i] = "bitstamp" /\ t = Start
  <2>1. Start <= window.end BY <1>4
  <2>2. /\ k \in Index(GridOf(listed[i], Interval)) /\ t = Opens(GridOf(listed[i], Interval), k)
        /\ t <= Reach(listed[i], Start, window.end, Interval)
    BY <1>6, <1>7
  <2> QED BY ONLY Fixed, i \in Ranged, <1>4, <1>6, <2>1, <2>2, PageHasAll
<1>9. Answers(i) BY <1>8 DEF Answers
<1>10. by = i
  <2>1. by # 0 /\ ~(i < by) BY <1>1, <1>9
  <2>2. by \in Nat \ {0} BY <2>1, FixedTypes
  <2> QED BY <1>4, <2>1, <2>2
<1>11. Gained(by) = {u \in page : Wanted(u)} BY <1>4, <1>10 DEF Gained
<1>12. ASSUME NEW u \in Int, u < window.end, Start < u PROVE Wanted(u)
  BY <1>4, <1>12 DEF Wanted
<1>13. t \in page
  <2>1. CASE listed[i] = "binance" /\ (\A u \in page : u < t) /\ \E u \in page : Start < u
    <3>1. PICK u \in page : Start < u BY <2>1
    <3>2. u \in Nat BY <1>4, PageHolds
    <3>3. u \in Gained(by) BY <1>4, <1>7, <1>11, <1>12, <2>1, <3>1, <3>2
    <3>4. to \in page BY <1>1, <1>11, <3>3
    <3> QED BY <1>6, <1>7, <2>1, <3>4
  <2>2. CASE listed[i] = "bitstamp" /\ t = Start BY <1>4, <2>2
  <2> QED BY <1>8, <2>1, <2>2
<1>14. Wanted(t) BY <1>4, <1>6, <1>7, <1>12 DEF Wanted
<1>15. t \in Gained(by) BY <1>11, <1>13, <1>14
<1> QED BY <1>1, <1>10, <1>15

-----------------------------------------------------------------------------
(* The deep window.                                                        *)

\* What the property presupposes of Bitstamp in the i-th place, and what is then whole up
\* to the cursor.
DeepFrom(i) ==
  /\ window.interval # 0 /\ listed[i] = "bitstamp"
  /\ \A p \in passed : p.down = {}
  /\ \A j \in Ranged : j < i \/ listed[j] = "binance" => depth[j].first >= Deep.listing
DeepSoFar ==
  \A i \in Ranged : DeepFrom(i) =>
    \A t \in Has(i, 86400, Deep.start + 1, Deep.listing - 1) :
      cursor # None /\ t <= cursor => Candle("1d", t) \in candles

\* A page with nothing from before the listing does not stop the deep source, and what
\* else moves the cursor moves it within the reach of Bitstamp's request.
LEMMA WithinReach ==
  ASSUME Fixed, WalkTypeOK, NEW by \in Ranged \cup {0}, NEW to \in Nat,
         PageIs(by, {}, to), NEW i \in Ranged, DeepFrom(i)
  PROVE  ~(by \in 1..(i - 1)) /\ to <= Reach("bitstamp", Start, window.end, 86400)
<1>1.   /\ ~done /\ cursor' = to /\ to <= window.end /\ (by # 0 => Answers(by))
        /\ \A j \in Ranged : by = 0 \/ j < by => ~Answers(j)
        /\ Gained(by) = {} => to <= Start + SkipCandles * Interval
        /\ Gained(by) # {} => to \in Gained(by)
  BY DEF PageIs
<1>2. /\ window.start = Deep.start /\ window.end = Deep.listing - 1 /\ Interval = 86400
      /\ window.end \in Nat
  <2>1. window = DeepChunk BY DEF DeepFrom, Fixed, StartupChunk
  <2>2. window.start = Deep.start /\ window.end = Deep.listing - 1 /\ window.interval = 86400
    BY <2>1 DEF DeepChunk, DeepEnd
  <2>3. Interval = 86400 BY <2>2 DEF Interval
  <2> QED BY <2>2, <2>3, FixedTypes
<1>3. Start \in Nat /\ Start < window.end BY <1>1, StartIs
<1>4. 86400 \in Asked BY DEF Asked
<1>5. \A p \in Kinds : GridOf(p, 86400) = 86400 BY DaysAreDays
<1> DEFINE reach == Reach("bitstamp", Start, window.end, 86400)
<1>6. /\ reach \in Nat /\ reach <= window.end
      /\ reach = window.end \/ reach = Start + Limit * 86400
  <2>1. "bitstamp" \in Kinds /\ Start <= window.end BY <1>2, <1>3 DEF Kinds
  <2>2. /\ reach \in Nat /\ reach <= window.end
        /\ reach = window.end \/ reach = Start + Limit * GridOf("bitstamp", 86400)
    BY ONLY <1>2, <1>3, <1>4, <2>1, ReachIs
  <2> QED BY <1>5, <2>1, <2>2
<1> HIDE DEF reach
<1>7. ASSUME NEW j \in Ranged, j < i \/ listed[j] = "binance" PROVE ~Answers(j)
  <2>1. depth[j].first >= Deep.listing BY <1>7 DEF DeepFrom
  <2>2. ASSUME NEW t \in UpstreamPage(j, Start, window.end, 86400) PROVE FALSE
    <3>1. t \in Nat /\ depth[j].first <= t /\ t <= Reach(listed[j], Start, window.end, 86400)
      BY <1>2, <1>3, <1>4, PageHolds
    <3>2. /\ Reach(listed[j], Start, window.end, 86400) \in Nat
          /\ Reach(listed[j], Start, window.end, 86400) <= window.end
          /\ depth[j].first \in Nat
      <4>1. listed[j] \in Kinds /\ depth[j].first \in Nat BY FixedTypes
      <4>2. listed[j] \in Kinds BY <4>1
      <4> QED BY ONLY <1>2, <1>3, <1>4, <4>1, <4>2, ReachWithin
    <3>3. Deep.listing \in Nat BY WalkAssumption
    <3> QED BY <1>2, <2>1, <3>1, <3>2, <3>3
  <2> QED BY <1>2, <2>2 DEF Answers
<1>8. CASE Gained(by) = {}
  <2>1. SkipCandles \in Nat /\ Limit \in Nat /\ SkipCandles <= Limit
    BY WalkAssumption, PageAssumption
  <2>2. to <= reach BY <1>1, <1>2, <1>3, <1>6, <1>8, <2>1
  <2>3. ~(by \in 1..(i - 1))
    <3> SUFFICES ASSUME by \in 1..(i - 1) PROVE FALSE OBVIOUS
    <3>1. by \in Ranged /\ by < i BY FixedTypes
    <3>2. ~Answers(by) BY <1>7, <3>1
    <3>3. by # 0 BY <3>1, FixedTypes
    <3> QED BY <1>1, <3>2, <3>3
  <2> QED BY <1>1, <2>2, <2>3 DEF reach
<1>9. CASE Gained(by) # {}
  <2>1. by \in Ranged /\ to \in UpstreamPage(by, Start, window.end, 86400)
    BY <1>1, <1>2, <1>9 DEF Gained
  <2>2. Answers(by) BY <1>2, <2>1 DEF Answers
  <2>3. ~(by < i) /\ listed[by] # "binance" BY <1>7, <2>1, <2>2
  <2>4. to <= Reach(listed[by], Start, window.end, 86400)
    <3>1. Start <= window.end BY <1>2, <1>3
    <3> QED BY ONLY Fixed, <1>2, <1>3, <1>4, <2>1, <3>1, PageHolds
  <2>5. Reach(listed[by], Start, window.end, 86400) <= reach
    <3>1. listed[by] \in {"bitstamp", "analyst"} BY <2>1, <2>3, FixedTypes DEF Ranged, Kinds
    <3>2. CASE listed[by] = "bitstamp" BY <1>6, <3>2 DEF reach
    <3>3. CASE listed[by] = "analyst"
      <4> DEFINE far == Min({window.end, Start + DailySpan})
      <4>1. GridOf("analyst", 86400) = 86400 BY <1>5 DEF Kinds
      <4>2. Reach(listed[by], Start, window.end, 86400) = Minute(far)
        BY <3>3, <4>1 DEF Reach
      <4>3. far \in Nat /\ far <= window.end /\ far <= Start + DailySpan
        <5>1. Start + DailySpan \in Nat /\ Start + DailySpan >= Start BY <1>3, WalkAssumption
        <5> QED BY ONLY <1>2, <1>3, <5>1, LesserIs
      <4> HIDE DEF far
      <4>4. Minute(far) <= far BY <4>3 DEF Minute
      <4>5. Minute(far) \in Int BY <4>3 DEF Minute
      <4>6. DailySpan \in Nat /\ DailySpan <= Limit * 86400 /\ Limit \in Nat
        BY WalkAssumption, PageAssumption
      <4> QED BY <1>2, <1>3, <1>6, <4>2, <4>3, <4>4, <4>5, <4>6
    <3> QED BY <3>1, <3>2, <3>3
  <2>6. Reach(listed[by], Start, window.end, 86400) \in Nat
    <3>1. listed[by] \in Kinds BY <2>1, FixedTypes
    <3> QED BY ONLY <1>2, <1>3, <1>4, <3>1, ReachWithin
  <2>7. to <= reach BY <1>6, <2>4, <2>5, <2>6
  <2>8. ~(by \in 1..(i - 1)) BY <2>1, <2>3, FixedTypes
  <2> QED BY <1>1, <2>7, <2>8 DEF reach
<1> QED BY <1>8, <1>9

-----------------------------------------------------------------------------
(* Every step.                                                             *)

\* The inductive invariant.
WalkInv == Fixed /\ WalkTypeOK /\ SeriesOnGrid /\ NothingLost /\ DeepSoFar

LEMMA WalkStarts == WalkInit => WalkInv
<1> SUFFICES ASSUME WalkInit PROVE WalkInv OBVIOUS
<1>1. Fixed BY DEF WalkInit, Fixed
<1>2. /\ window.end \in Nat /\ window.interval \in {0, 86400} BY <1>1, FixedTypes
<1>3. WalkTypeOK BY <1>2 DEF WalkInit, WalkTypeOK, None
<1>4. SeriesOnGrid /\ NothingLost BY DEF WalkInit, SeriesOnGrid, NothingLost
<1>5. DeepSoFar BY DEF WalkInit, DeepSoFar
<1> QED BY <1>1, <1>3, <1>4, <1>5 DEF WalkInv

\* On the grid of its stamp, or the exception.
OnGrid(c) ==
  \/ c.stamp \in DOMAIN Secs /\ c.ts % Secs[c.stamp] = 0
  \/ /\ c.stamp = "1M" /\ \E k \in 1..Len(Months) : c.ts = Months[k]
     /\ (\E i \in 1..Len(listed) : listed[i] = "binance") /\ \E s \in Intervals : s > 1598400

LEMMA GridMeans == SeriesOnGrid <=> \A c \in candles : OnGrid(c)
BY DEF SeriesOnGrid, OnGrid

\* A candle of a provider is on the grid of what the provider stamps on it.
LEMMA StampOnGrid ==
  ASSUME Fixed, NEW i \in 1..Len(listed), NEW secs \in Asked,
         NEW k \in Index(GridOf(listed[i], secs))
  PROVE  OnGrid(Candle(StampOf(listed[i], secs), Opens(GridOf(listed[i], secs), k)))
<1> DEFINE stamp == StampOf(listed[i], secs)
           grid  == GridOf(listed[i], secs)
           c     == Candle(stamp, Opens(grid, k))
<1>1. /\ grid \in Nat \ {0}
      /\ \/ stamp \in DOMAIN Secs /\ grid = Secs[stamp] /\ grid # Month
         \/ listed[i] = "binance" /\ stamp = "1M" /\ grid = Month /\ secs > 1598400
  BY FixedTypes, GridIs
<1>2. c.stamp = stamp /\ c.ts = Opens(grid, k) BY DEF Candle
<1> HIDE DEF stamp, grid, c
<1>3. CASE stamp \in DOMAIN Secs /\ grid = Secs[stamp] /\ grid # Month
  <2>1. k \in Int /\ Opens(grid, k) = k * grid BY <1>1, <1>3, OpensIs DEF grid
  <2>2. (k * grid) % grid = 0 BY <1>1, <2>1, MultipleIs
  <2> QED BY <1>2, <1>3, <2>1, <2>2 DEF OnGrid, c, stamp, grid
<1>4. CASE listed[i] = "binance" /\ stamp = "1M" /\ grid = Month /\ secs > 1598400
  <2>1. k \in 1..Len(Months) /\ Opens(grid, k) = Months[k] BY <1>4 DEF Index, Opens, grid
  <2>2. secs \in Intervals BY <1>4 DEF Asked
  <2> QED BY <1>2, <1>4, <2>1, <2>2 DEF OnGrid, c, stamp, grid
<1> QED BY <1>1, <1>3, <1>4

LEMMA RecentOnGrid ==
  ASSUME Fixed, NEW i \in 1..Len(listed), NEW days \in RecentDays
  PROVE  \A c \in Recent(i, days) : OnGrid(c)
<1> DEFINE p     == listed[i]
           stamp == IF p \in {"analyst", "demo"} THEN Band[poll] ELSE StampOf(p, poll)
           grid  == IF p \in {"analyst", "demo"} THEN AutoGrid(DaysFor(stamp, days)) ELSE GridOf(p, poll)
<1>1. p \in Kinds /\ poll \in Asked /\ poll \in Nat /\ depth[i].first \in Nat /\ depth[i].last \in Nat
  <2>1. poll \in Nat BY WalkAssumption DEF Fixed
  <2> QED BY <2>1, FixedTypes
<1>2. /\ grid \in Nat \ {0}
      /\ \A k \in Index(grid) : OnGrid(Candle(stamp, Opens(grid, k)))
  <2>1. CASE p \in {"analyst", "demo"}
    <3>1. Band[poll] = Snap({"30m", "4h", "4d"}, poll) BY <1>1 DEF Band
    <3>3. Snap({"30m", "4h", "4d"}, poll) \in {"30m", "4h", "4d"} BY <1>1, BandsAre, SnapIs
    <3>4. stamp \in {"30m", "4h", "4d"} BY <2>1, <3>1, <3>3
    <3>5. days \in {7, 90} BY DEF RecentDays
    <3> DEFINE more == Max({2, days})
               few  == Min({30, more})
               many == Max({31, days})
    <3>8. more \in Int /\ more >= 2 /\ many \in Int /\ many > 30
      <4>1. days \in Int BY <3>5
      <4> QED BY ONLY <4>1, GreaterIs
    <3> HIDE DEF more, many
    <3>6. few \in Int /\ few >= 2 /\ few <= 30 BY ONLY <3>8, LesserIs
    <3> HIDE DEF few
    <3>9. AutoGrid(few) = 14400 /\ AutoGrid(many) = 345600 BY <3>6, <3>8 DEF AutoGrid
    <3>7. AutoGrid(DaysFor(stamp, days)) = Secs[stamp]
      <4> HIDE DEF stamp
      <4>1. CASE stamp = "30m" BY <4>1, SecsIs DEF AutoGrid, DaysFor
      <4>2. CASE stamp = "4h" BY <3>9, <4>2, SecsIs DEF DaysFor, few, more
      <4>3. CASE stamp = "4d" BY <3>9, <4>3, SecsIs DEF DaysFor, many
      <4> QED BY <3>4, <4>1, <4>2, <4>3
    <3>2. stamp \in DOMAIN Secs /\ grid = Secs[stamp] BY <2>1, <3>4, <3>7, BandsAre
    <3> HIDE DEF stamp, grid
    <3>10. grid \in Nat \ {0} /\ grid # Month BY <3>2, SecsType, LastsIs
    <3>11. ASSUME NEW k \in Index(grid) PROVE OnGrid(Candle(stamp, Opens(grid, k)))
      <4>1. k \in Int /\ Opens(grid, k) = k * grid BY <3>10, OpensIs
      <4>2. (k * grid) % grid = 0 BY <3>10, <4>1, MultipleIs
      <4> QED BY <3>2, <4>1, <4>2 DEF OnGrid, Candle
    <3> QED BY <3>10, <3>11
  <2>2. CASE p \notin {"analyst", "demo"}
    <3>1. stamp = StampOf(p, poll) /\ grid = GridOf(p, poll) BY <2>2
    <3> HIDE DEF stamp, grid
    <3>2. grid \in Nat \ {0} BY <1>1, <3>1, GridIs
    <3>3. \A k \in Index(GridOf(p, poll)) : OnGrid(Candle(StampOf(p, poll), Opens(GridOf(p, poll), k)))
      BY <1>1, StampOnGrid
    <3> QED BY <3>1, <3>2, <3>3
  <2> QED BY <2>1, <2>2
<1>3. Recent(i, days) = {Candle(stamp, t) : t \in NewestKlines(i, grid, Fitting(days, grid))}
  BY DEF Recent
<1> HIDE DEF stamp, grid
<1> DEFINE n == Fitting(days, grid)
           b == Last(i, grid, Startup.end)
           a == First(i, grid, 0)
<1>5. n \in Int
  <2> DEFINE secs  == days * 86400
             whole == secs \div grid
  <2>4. grid \in Nat \ {0} /\ Limit \in Int
    <3>1. grid \in Nat \ {0} BY <1>2
    <3>2. Limit \in Int BY WalkAssumption
    <3> QED BY <3>1, <3>2
  <2>5. secs \in Int BY DEF RecentDays
  <2> HIDE DEF secs
  <2>1. whole \in Int /\ Limit \in Int BY ONLY <2>4, <2>5 DEF whole
  <2> HIDE DEF whole
  <2> DEFINE fit == Min({Limit, whole})
  <2>2. fit \in Int BY <2>1, LesserIs DEF whole
  <2> HIDE DEF fit
  <2>3. Max({1, fit}) \in Int BY <2>2, GreaterIs
  <2> QED BY <2>3 DEF Fitting, secs, whole, fit
<1>6. a \in Int /\ b \in Int /\ \A k \in Int : a <= k /\ k <= b => k \in Index(grid)
  <2>1. Startup.end \in Nat BY WalkAssumption
  <2> QED BY <1>1, <1>2, <2>1, CountsAre
<1> HIDE DEF n
<1>7. NewestKlines(i, grid, n) = Instants(Max({a, (b - n) + 1}), b, grid) BY DEF NewestKlines
<1> HIDE DEF a, b
<1> DEFINE low == Max({a, (b - n) + 1})
<1>8. low \in Int /\ a <= low
  <2>1. (b - n) + 1 \in Int BY <1>5, <1>6
  <2> QED BY <1>6, <2>1, GreaterIs
<1> HIDE DEF low
<1>9. ASSUME NEW t \in NewestKlines(i, grid, n) PROVE \E k \in Index(grid) : t = Opens(grid, k)
  <2>1. t \in Instants(low, b, grid) BY <1>7 DEF low
  <2>2. PICK k \in Int : t = Opens(grid, k) /\ low <= k /\ k <= b BY ONLY <1>6, <1>8, <2>1, InstantsAre
  <2> QED BY <1>6, <1>8, <2>2
<1> QED BY <1>2, <1>3, <1>9 DEF n

LEMMA FetchKeeps == ASSUME WalkInv, FetchPage PROVE WalkInv'
<1>0. PICK down \in SUBSET Ranged : TakePage(down) BY DEF FetchPage
<1>1. Fixed /\ WalkTypeOK /\ SeriesOnGrid /\ NothingLost /\ DeepSoFar BY DEF WalkInv
<1>2. PICK by \in Ranged \cup {0}, to \in Nat : PageIs(by, down, to) BY <1>0, <1>1, PageTaken
<1>3. /\ ~done /\ Start <= to /\ to <= window.end
      /\ cursor' = to /\ done' = (to >= window.end)
      /\ candles' = candles \cup {Candle(StampOf(listed[by], Interval), t) : t \in Gained(by)}
      /\ passed' = passed \cup {Record(by, down, to)}
      /\ UNCHANGED <<listed, depth, window, poll>>
  BY <1>2 DEF PageIs
<1>4. /\ Start \in Nat /\ window.start <= Start /\ Start < window.end /\ window.end \in Nat
      /\ window.interval \in {0, 86400} /\ Interval \in Asked /\ window.start \in Nat
      /\ cursor # None => cursor = Start
  BY <1>1, <1>3, StartIs, FixedTypes
<1>5. Fixed' BY <1>1, <1>3 DEF Fixed
<1>6. Ranged' = Ranged BY <1>3 DEF Ranged
<1>7. WalkTypeOK'
  <2>1. /\ window'.end \in Nat /\ window'.interval \in {0, 86400} /\ poll' \in Intervals
    BY <1>1, <1>3, <1>4 DEF Fixed
  <2>2. cursor' \in window'.start..window'.end /\ (done' <=> cursor' = window'.end)
    <3>1. window' = window /\ to \in Nat BY <1>3
    <3>2. to \in window.start..window.end /\ (to >= window.end <=> to = window.end)
      BY <1>3, <1>4
    <3> QED BY <1>3, <3>1, <3>2
  <2>3. ASSUME NEW p \in passed'
        PROVE p.from <= p.to /\ p.by \in Ranged \cup {0} /\ p.down \subseteq Ranged
    <3>1. CASE p \in passed BY <1>1, <3>1 DEF WalkTypeOK
    <3>2. CASE p = Record(by, down, to) BY <1>3, <3>2 DEF Record
    <3> QED BY <1>3, <3>1, <3>2
  <2> QED BY <1>6, <2>1, <2>2, <2>3 DEF WalkTypeOK
<1>8. SeriesOnGrid'
  <2>1. ASSUME NEW t \in Gained(by) PROVE OnGrid(Candle(StampOf(listed[by], Interval), t))
    <3>1. by \in Ranged /\ t \in UpstreamPage(by, Start, window.end, Interval) BY DEF Gained
    <3>2. by \in 1..Len(listed) BY <1>1, <3>1, FixedTypes
    <3>3. PICK k \in Index(GridOf(listed[by], Interval)) : t = Opens(GridOf(listed[by], Interval), k)
      <4>1. Start <= window.end BY <1>4
      <4> QED BY <1>1, <1>4, <3>1, <4>1, PageHolds
    <3> QED BY <1>1, <1>4, <3>2, <3>3, StampOnGrid
  <2>2. \A c \in candles' : c \in candles \/ \E t \in Gained(by) : c = Candle(StampOf(listed[by], Interval), t)
    BY <1>3
  <2>3. \A c \in candles' : OnGrid(c) BY <1>1, <2>1, <2>2, GridMeans
  <2> QED BY <1>3, <2>3 DEF SeriesOnGrid, OnGrid
<1>9. candles \subseteq candles' /\ passed \subseteq passed' BY <1>3
<1>10. NothingLost'
  <2>1. ASSUME NEW p \in passed', NEW i \in Ranged, NEW t PROVE PassedOver(p, i, t, candles')
    <3>1. CASE p \in passed
      <4>1. PassedOver(p, i, t, candles) BY <1>1, <3>1, LostIs
      <4> QED BY <1>9, <4>1 DEF PassedOver
    <3>2. CASE p = Record(by, down, to) BY <1>1, <1>2, <3>2, PageLosesNothing
    <3> QED BY <1>3, <3>1, <3>2
  <2>2. \A i, g, from, u : Has(i, g, from, u)' = Has(i, g, from, u)
    BY <1>3 DEF Has, First, Last
  <2> QED BY <1>3, <1>6, <2>1, <2>2 DEF NothingLost, PassedOver
<1>11. DeepSoFar'
  <2> SUFFICES ASSUME NEW i \in Ranged, DeepFrom(i)',
                      NEW t \in Has(i, 86400, Deep.start + 1, Deep.listing - 1)', t <= cursor'
               PROVE  Candle("1d", t) \in candles'
    BY <1>6 DEF DeepSoFar
  <2>1. DeepFrom(i) /\ down = {}
    <3>1. Record(by, down, to) \in passed' BY <1>3
    <3>2. Record(by, down, to).down = {} BY <3>1 DEF DeepFrom
    <3>3. down = {} BY <3>2 DEF Record
    <3>4. DeepFrom(i) BY <1>3, <1>6, <1>9 DEF DeepFrom
    <3> QED BY <3>3, <3>4
  <2>2. t \in Has(i, 86400, Deep.start + 1, Deep.listing - 1)
    BY <1>3 DEF Has, First, Last
  <2>3. ~(by \in 1..(i - 1)) /\ to <= Reach("bitstamp", Start, window.end, 86400)
    BY <1>1, <1>2, <2>1, WithinReach
  <2>4. /\ window.start = Deep.start /\ window.end = Deep.listing - 1 /\ Interval = 86400
    <3>1. window = DeepChunk BY <1>1, <2>1 DEF DeepFrom, Fixed, StartupChunk
    <3>2. window.start = Deep.start /\ window.end = Deep.listing - 1 /\ window.interval = 86400
      BY <3>1 DEF DeepChunk, DeepEnd
    <3> QED BY <3>2 DEF Interval
  <2>10. Index(86400) = Int /\ \A k \in Int : Opens(86400, k) = k * 86400
    <3>1. 86400 # Month /\ 86400 \in Nat \ {0} BY DEF Month
    <3> QED BY <3>1, OpensIs
  <2>5. PICK k \in Int : /\ t = k * 86400 /\ depth[i].first <= t /\ t <= depth[i].last
                         /\ Deep.start + 1 <= t /\ t <= Deep.listing - 1
    <3> DEFINE first == Deep.start + 1
               last  == Deep.listing - 1
    <3>1. first \in Nat /\ last \in Nat /\ 86400 \in Nat \ {0}
      BY <1>4, <2>4, WalkAssumption
    <3>2. t \in Has(i, 86400, first, last) BY <2>2
    <3> HIDE DEF first, last
    <3>3. \E k \in Index(86400) : /\ t = Opens(86400, k) /\ depth[i].first <= t /\ t <= depth[i].last
                                  /\ first <= t /\ t <= last
      BY ONLY <1>1, <3>1, <3>2, HasIs, i \in Ranged
    <3> QED BY <2>10, <3>3 DEF first, last
  <2>6. t < window.end /\ t > Deep.start /\ t \in Nat
    <3>1. Deep.listing % 86400 = 0 /\ Deep.listing \in Nat /\ Deep.start \in Nat
      BY PageAssumption, WalkAssumption
    <3>2. k * 86400 # Deep.listing - 1 BY <3>1
    <3> QED BY <2>4, <2>5, <3>1, <3>2
  <2>7. CASE t <= Start /\ cursor # None
    BY <1>1, <1>4, <1>9, <2>1, <2>2, <2>7 DEF DeepSoFar
  <2>8. CASE t > Start
    <3> DEFINE p == Record(by, down, to)
    <3>1. p.from = Start /\ p.to = to /\ p.by = by /\ p.down = down /\ p.secs = Interval
      BY DEF Record
    <3>3. PassedOver(p, i, t, candles') BY <1>1, <1>2, PageLosesNothing
    <3> HIDE DEF p
    <3>4. /\ listed[i] = "bitstamp" /\ GridOf("bitstamp", 86400) = 86400
          /\ StampOf("bitstamp", 86400) = "1d"
      BY <2>1, DaysAreDays DEF DeepFrom, Kinds
    <3>5. t \in Has(i, 86400, Start, to)
      <4>1. depth[i].first <= t /\ t <= depth[i].last /\ Start <= t /\ t <= to
        BY <1>3, <1>4, <2>5, <2>6, <2>8
      <4>2. \E n \in Index(86400) : /\ t = Opens(86400, n) /\ depth[i].first <= t /\ t <= depth[i].last
                                    /\ Start <= t /\ t <= to
        <5>1. k \in Index(86400) /\ t = Opens(86400, k) BY <2>5, <2>10
        <5> QED BY <4>1, <5>1
      <4> QED BY <1>1, <1>4, <4>2, HasIs
    <3>6. t <= Reach("bitstamp", Start, window.end, 86400) /\ t # window.start
      <4>1. Reach("bitstamp", Start, window.end, 86400) \in Nat
        BY <1>4, <2>4, ReachWithin DEF Kinds
      <4>2. t <= to /\ t # window.start BY <1>3, <1>4, <2>4, <2>6
      <4> QED BY <2>3, <2>6, <4>1, <4>2
    <3>8. ~(t > Reach("bitstamp", Start, window.end, 86400))
      BY <1>4, <2>4, <2>6, <3>6, ReachWithin DEF Kinds
    <3> QED BY <2>1, <2>4, <2>6, <2>8, <3>1, <3>3, <3>4, <3>5, <3>6, <3>8, <2>3 DEF PassedOver
  <2>9. cursor = None => t > Start BY <2>4, <2>6 DEF Start
  <2> QED BY <1>4, <2>6, <2>7, <2>8, <2>9
<1> QED BY <1>5, <1>7, <1>8, <1>10, <1>11 DEF WalkInv

LEMMA OthersKeep == ASSUME WalkInv, FetchRecent \/ ChangeInterval \/ UNCHANGED walkVars PROVE WalkInv'
<1>1. /\ UNCHANGED <<listed, depth, window, cursor, done, passed>>
      /\ poll' \in Intervals /\ candles \subseteq candles'
      /\ \A c \in candles' \ candles : OnGrid(c)
  <2>1. CASE FetchRecent
    <3>1. Fixed BY DEF WalkInv
    <3>2. PICK i \in 1..Len(listed), days \in RecentDays : candles' = candles \cup Recent(i, days)
      BY <2>1 DEF FetchRecent
    <3>3. poll' = poll BY <2>1 DEF FetchRecent
    <3>4. \A c \in Recent(i, days) : OnGrid(c)
      BY <3>1, RecentOnGrid
    <3> QED BY <2>1, <3>1, <3>2, <3>3, <3>4 DEF FetchRecent, Fixed
  <2>2. CASE ChangeInterval BY <2>2 DEF ChangeInterval
  <2>3. CASE UNCHANGED walkVars BY <2>3 DEF walkVars, WalkInv, Fixed
  <2> QED BY <2>1, <2>2, <2>3
<1>2. Ranged' = Ranged BY <1>1 DEF Ranged
<1>3. \A i, g, from, u : Has(i, g, from, u)' = Has(i, g, from, u) BY <1>1 DEF Has, First, Last
<1>4. Fixed' BY <1>1 DEF WalkInv, Fixed
<1>5. WalkTypeOK' BY <1>1, <1>2 DEF WalkInv, WalkTypeOK
<1>6. SeriesOnGrid'
  <2>1. \A c \in candles' : OnGrid(c) BY <1>1, GridMeans DEF WalkInv
  <2> QED BY <1>1, <2>1 DEF SeriesOnGrid, OnGrid
<1>7. NothingLost' BY <1>1, <1>2, <1>3 DEF WalkInv, NothingLost
<1>8. DeepSoFar' BY <1>1, <1>2, <1>3 DEF WalkInv, DeepSoFar, DeepFrom
<1> QED BY <1>4, <1>5, <1>6, <1>7, <1>8 DEF WalkInv

LEMMA WalkMeans == WalkInv => HistoryIsWhole
<1> SUFFICES ASSUME WalkInv PROVE DeepIsContiguous BY DEF WalkInv, HistoryIsWhole
<1> SUFFICES ASSUME NEW i \in Ranged, done, DeepFrom(i),
                    NEW t \in Has(i, 86400, Deep.start + 1, Deep.listing - 1)
             PROVE  Candle("1d", t) \in candles
  BY DEF DeepIsContiguous, DeepFrom
<1>1. window.end = Deep.listing - 1 /\ window.start = Deep.start
  <2>1. window = DeepChunk BY DEF WalkInv, DeepFrom, Fixed, StartupChunk
  <2> QED BY <2>1 DEF DeepChunk, DeepEnd
<1>2. cursor = window.end /\ window.end \in Nat /\ cursor # None BY DEF WalkInv, WalkTypeOK, None
<1>3. t <= window.end
  <2> DEFINE first == Deep.start + 1
             last  == Deep.listing - 1
  <2>1. first \in Nat /\ last \in Nat /\ 86400 \in Nat \ {0} /\ Fixed
    BY <1>1, <1>2, WalkAssumption DEF WalkInv
  <2>2. t \in Has(i, 86400, first, last) OBVIOUS
  <2> HIDE DEF first, last
  <2>3. t <= last BY <2>1, <2>2, HasIs
  <2> QED BY <1>1, <2>3 DEF last
<1> QED BY <1>2, <1>3 DEF WalkInv, DeepSoFar

\* Whatever the chain, its providers' depths and granularities, the interval and its changes,
\* outages and recent fetches: a walk leaves behind it the history its providers have.
THEOREM HistoryIsKept == WalkSpec => []HistoryIsWhole
<1>1. WalkInit => WalkInv BY WalkStarts
<1>2. WalkInv /\ [WalkNext]_walkVars => WalkInv'
  BY FetchKeeps, OthersKeep DEF WalkNext
<1>3. WalkInv => HistoryIsWhole BY WalkMeans
<1> QED BY <1>1, <1>2, <1>3, PTL DEF WalkSpec
=============================================================================
