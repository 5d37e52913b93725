---------------------------- MODULE MCCoinStore ----------------------------
\* Small instances for TLC of what makes a coin's rows: of CoinStore, whose metadata and
\* notifications share only the registration and take turns here, and, in behaviours of
\* their own, of the Answers that the rows are made from and of the CoinRequests of its
\* operators.
EXTENDS CoinStore, Answers, CoinRequests

CONSTANTS q1, q2, w1, w2, s1, lane1, lane2

VARIABLE side   \* who takes the steps

EitherVars == <<side, vars, ansVars, reqVars>>
EitherInit == side \in {"store", "push", "answers", "requests"} /\ Init /\ AnsInit /\ ReqInit
EitherNext ==
  \/ side = "store" /\ (Registers \/ Revises) /\ UNCHANGED <<side, ansVars, reqVars>>
  \/ side = "push" /\ (Registers \/ Pushes) /\ UNCHANGED <<side, ansVars, reqVars>>
  \/ side = "answers" /\ AnsNext /\ UNCHANGED <<side, vars, reqVars>>
  \/ side = "requests" /\ ReqNext /\ UNCHANGED <<side, vars, ansVars>>

EitherSpec == EitherInit /\ [][EitherNext]_EitherVars /\ (side = "push" => PushFairness)

\* Nine requests: every operation, what is refused, and what a field does when it is absent,
\* null or set.
Reading == [op |-> "get", status |-> "keep", interval |-> "keep", error |-> FALSE, readable |-> TRUE, bad |-> FALSE]
MCRequests ==
  {Reading,
   [Reading EXCEPT !.op = "register", !.interval = "global"],
   [Reading EXCEPT !.op = "register", !.interval = "own"],
   [Reading EXCEPT !.op = "register", !.interval = "own", !.bad = TRUE],
   [Reading EXCEPT !.op = "patch", !.status = "active"],
   [Reading EXCEPT !.op = "patch", !.interval = "global"],
   [Reading EXCEPT !.op = "patch", !.interval = "own", !.error = TRUE],
   [Reading EXCEPT !.op = "patch", !.readable = FALSE],
   [Reading EXCEPT !.op = "delete"]}
=============================================================================
