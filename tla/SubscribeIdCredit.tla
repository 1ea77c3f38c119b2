-------------------------- MODULE SubscribeIdCredit --------------------------
(***************************************************************************)
(* What the subscribe ID credit of a MoQ publisher promises its peer,      *)
(* without the counters that implement it.  The publisher accepts a        *)
(* request only under the limit it has granted (MAX_SUBSCRIBE_ID); each    *)
(* request it ends returns one id of credit; a grant never takes back or   *)
(* exceeds the credit returned; and the credit returned but not yet        *)
(* granted stays below Threshold, so the peer is never kept waiting for    *)
(* more than that.  A close drops every open request and ends the window.  *)
(***************************************************************************)
EXTENDS Naturals, FiniteSets

CONSTANTS
  Ids,        \* the request ids a peer may use
  Window,     \* the initial limit: ids 0..Window-1 may be used at once
  Threshold   \* credit that must be granted once it has been returned

VARIABLES
  limit,   \* the highest MAX_SUBSCRIBE_ID granted (initially Window)
  open,    \* accepted requests not yet ended
  ended,   \* requests ended
  closed   \* the session is closed

vars == <<limit, open, ended, closed>>

\* Credit returned by ended requests that has not been granted yet.
Owed == Window + Cardinality(ended) - limit

Init ==
  /\ limit = Window /\ open = {} /\ ended = {} /\ closed = FALSE

Accept(i) ==
  /\ ~closed /\ i < limit /\ i \notin open \cup ended
  /\ open' = open \cup {i}
  /\ UNCHANGED <<limit, ended, closed>>

\* Ending a request returns its id; the limit may grow with it, by no more
\* than what has been returned, and must when Threshold is owed.
End(i) ==
  /\ ~closed /\ i \in open
  /\ open' = open \ {i} /\ ended' = ended \cup {i}
  /\ limit' \in limit..(Window + Cardinality(ended'))
  /\ Owed' < Threshold
  /\ UNCHANGED closed

Close ==
  /\ ~closed
  /\ closed' = TRUE /\ open' = {}
  /\ UNCHANGED <<limit, ended>>

Next == Close \/ \E i \in Ids : Accept(i) \/ End(i)

Spec == Init /\ [][Next]_vars
=============================================================================
