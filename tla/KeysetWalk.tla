---------------------------- MODULE KeysetWalk ----------------------------
(***************************************************************************)
(* What a keyset-paginated endpoint promises to a client that follows      *)
(* next_cursor (src/api/cursor.rs): keys come in descending order, none    *)
(* comes twice, and the cursor moves whenever there is another page,       *)
(* whatever is written meanwhile.                                          *)
(***************************************************************************)
EXTENDS Integers

CONSTANT Last  \* keys are 0..Last; Last + 1 is the cursor before the first page

VARIABLES
  page,    \* the items of the last page
  cursor,  \* what comes is below it
  done     \* next_cursor was null

Keys(c) == 0..(c - 1)

Init == page = {} /\ cursor = Last + 1 /\ done = FALSE

\* A page below the cursor, and a cursor that is above none of its items.
Page ==
  /\ ~done
  /\ page' \subseteq Keys(cursor)
  /\ \/ done' = TRUE /\ cursor' = cursor
     \/ done' = FALSE /\ cursor' \in Keys(cursor) /\ \A k \in page' : cursor' <= k

Next == Page
Spec == Init /\ [][Next]_<<page, cursor, done>>
=============================================================================
