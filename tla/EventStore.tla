------------------------------ MODULE EventStore ------------------------------
(***************************************************************************)
(* What POST /events/ingest promises its callers: the event table only     *)
(* grows, a stored row is never replaced, a request is answered only when  *)
(* every event it carried is stored, and the answer credits the request    *)
(* with exactly the rows that it, and no other request, put there.         *)
(*                                                                         *)
(* Ingest.tla is shown to implement this module.                           *)
(***************************************************************************)
EXTENDS Integers, FiniteSets

CONSTANTS
  Requests,     \* the requests a run may receive
  Ids,          \* event_id values
  Versions,     \* what an event carries besides its id (is_staff, dwell_ms, ...)
  NoRow,        \* "no row with this id"
  NoRequest     \* "no request stored this id"

VARIABLES
  rows,         \* rows[id]: the stored version, or NoRow
  owner,        \* owner[id]: the request that stored the row, or NoRequest
  wanted,       \* wanted[r]: the ids that request r carries
  status,       \* status[r]: "none", "open", "answered" or "failed"
  credit        \* credit[r]: the number of rows that the answer claims for r

vars == <<rows, owner, wanted, status, credit>>

Owned(r) == {id \in Ids : owner[id] = r}

Init ==
  /\ rows   = [id \in Ids |-> NoRow]
  /\ owner  = [id \in Ids |-> NoRequest]
  /\ wanted = [r \in Requests |-> {}]
  /\ status = [r \in Requests |-> "none"]
  /\ credit = [r \in Requests |-> 0]

Submit(r) ==
  /\ status[r] = "none"
  /\ \E ids \in SUBSET Ids : wanted' = [wanted EXCEPT ![r] = ids]
  /\ status' = [status EXCEPT ![r] = "open"]
  /\ UNCHANGED <<rows, owner, credit>>

\* Some of the ids that r carries, none of them stored yet, become rows of r.
Store(r, new) ==
  /\ status[r] = "open"
  /\ new \subseteq wanted[r]
  /\ \A id \in new : rows[id] = NoRow
  /\ \E ver \in [new -> Versions] :
       rows' = [id \in Ids |-> IF id \in new THEN ver[id] ELSE rows[id]]
  /\ owner' = [id \in Ids |-> IF id \in new THEN r ELSE owner[id]]
  /\ UNCHANGED <<wanted, status, credit>>

Answer(r) ==
  /\ status[r] = "open"
  /\ \A id \in wanted[r] : rows[id] # NoRow
  /\ status' = [status EXCEPT ![r] = "answered"]
  /\ credit' = [credit EXCEPT ![r] = Cardinality(Owned(r))]
  /\ UNCHANGED <<rows, owner, wanted>>

\* The caller gets an error; what r stored before that stays stored.
Fail(r) ==
  /\ status[r] \in {"none", "open"}
  /\ status' = [status EXCEPT ![r] = "failed"]
  /\ UNCHANGED <<rows, owner, wanted, credit>>

Next ==
  \E r \in Requests :
    \/ Submit(r)
    \/ \E new \in SUBSET Ids : Store(r, new)
    \/ Answer(r)
    \/ Fail(r)

Spec == Init /\ [][Next]_vars

===============================================================================
