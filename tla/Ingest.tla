-------------------------------- MODULE Ingest --------------------------------
(***************************************************************************)
(* The handler of POST /events/ingest (routers/events.py, ingest_events)   *)
(* and insert_events_dedup (repository.py), which it calls.  FastAPI runs  *)
(* synchronous handlers on a thread pool, so several requests are between  *)
(* their SELECT and their COMMIT at once, over one table whose primary key *)
(* is event_id.  Each action below is one statement, or one transaction,   *)
(* against the database, which runs at READ COMMITTED: a SELECT sees what  *)
(* is committed when it runs, and a COMMIT that meets a stored key raises  *)
(* IntegrityError and stores nothing.                                      *)
(***************************************************************************)
EXTENDS Integers, FiniteSets, Sequences

CONSTANTS
  Requests,     \* the requests a run may receive
  Ids,          \* event_id values
  Versions,     \* what an event carries besides its id (is_staff, dwell_ms, ...)
  Invalid,      \* a payload entry that BehaviorEvent.model_validate rejects
  Batches,      \* the payloads a caller may post
  MaxBatch,     \* MAX_BATCH: a longer payload is refused as a whole
  NoRow,        \* "no row with this id"
  NoRequest     \* "no request stored this id"

Event == [id : Ids, ver : Versions]

ASSUME BatchesAssumption  == Batches \subseteq Seq(Event \cup {Invalid})
ASSUME InvalidAssumption  == Invalid \notin Event
ASSUME MaxBatchAssumption == MaxBatch \in Nat
ASSUME NoRowAssumption    == NoRow \notin Versions
ASSUME NoRequestAssumption == NoRequest \notin Requests

VARIABLES
  rows,         \* behavior_events: rows[id] is the stored version, or NoRow
  owner,        \* history: the request whose commit stored the row
  pc,           \* pc[r]: the statement that request r runs next
  batch,        \* batch[r]: the payload of r
  todo,         \* todo[r]: positions of the payload still to be inserted
  accepted,     \* accepted[r]: the local variable of insert_events_dedup
  reply         \* reply[r]: the counts that the response carries

vars == <<rows, owner, pc, batch, todo, accepted, reply>>

\* The positions that validate.
Valid(b) == {i \in DOMAIN b : b[i] # Invalid}

\* Mutant: a dictionary comprehension, in which the last event of an id wins.
Unique_LastWins(b) ==
  {i \in Valid(b) : \A j \in Valid(b) : b[j].id = b[i].id => i >= j}

\* Of these, the first one of each id: the values of the dictionary "unique".
Unique(b) == {i \in Valid(b) : \A j \in Valid(b) : b[j].id = b[i].id => i <= j}

IdOf(r, i)   == batch[r][i].id
ValidIds(b)  == {b[i].id : i \in Valid(b)}
Stored(id)   == rows[id] # NoRow
First(S)     == CHOOSE i \in S : \A j \in S : i <= j

NoReply == [accepted |-> 0, duplicates |-> 0, rejected |-> 0]

\* The counts of the response, from the handler's local variables.
Counts(r) ==
  [accepted   |-> accepted[r],
   duplicates |-> Cardinality(Valid(batch[r])) - accepted[r],
   rejected   |-> Len(batch[r]) - Cardinality(Valid(batch[r]))]

-------------------------------------------------------------------------------

Init ==
  /\ rows     = [id \in Ids |-> NoRow]
  /\ owner    = [id \in Ids |-> NoRequest]
  /\ pc       = [r \in Requests |-> "idle"]
  /\ batch    = [r \in Requests |-> <<>>]
  /\ todo     = [r \in Requests |-> {}]
  /\ accepted = [r \in Requests |-> 0]
  /\ reply    = [r \in Requests |-> NoReply]

Goto(r, label) == pc' = [pc EXCEPT ![r] = label]

\* The payload is validated event by event.  One that is too long is refused
\* before the handler runs; one with no valid event needs no session.
Receive(r) ==
  /\ pc[r] = "idle"
  /\ \E b \in Batches :
       /\ batch' = [batch EXCEPT ![r] = b]
       /\ \/ Len(b) > MaxBatch  /\ Goto(r, "refused")
          \/ Len(b) <= MaxBatch /\ Valid(b) = {} /\ Goto(r, "respond")
          \/ Len(b) <= MaxBatch /\ Valid(b) # {} /\ Goto(r, "select")
  /\ UNCHANGED <<rows, owner, todo, accepted, reply>>

\* "existing" is read, and what is not in it becomes "candidates".
SelectExisting(r) ==
  /\ pc[r] = "select"
  /\ todo' = [todo EXCEPT ![r] = {i \in Unique(batch[r]) : ~Stored(IdOf(r, i))}]
  /\ Goto(r, "insert")
  /\ UNCHANGED <<rows, owner, batch, accepted, reply>>

\* Mutant: merge instead of add, which replaces the row of a stored key.
Commit_Merge(r, S) ==
  /\ rows' = [id \in Ids |->
               IF \E i \in S : IdOf(r, i) = id
               THEN batch[r][CHOOSE i \in S : IdOf(r, i) = id].ver
               ELSE rows[id]]
  /\ owner' = [id \in Ids |->
               IF \E i \in S : IdOf(r, i) = id THEN r ELSE owner[id]]

\* The positions in S, which have different ids (TodoUnique), become rows in one
\* transaction.
Commit(r, S) ==
  /\ \A i \in S : ~Stored(IdOf(r, i))
  /\ rows' = [id \in Ids |->
               IF \E i \in S : IdOf(r, i) = id
               THEN batch[r][CHOOSE i \in S : IdOf(r, i) = id].ver
               ELSE rows[id]]
  /\ owner' = [id \in Ids |->
               IF \E i \in S : IdOf(r, i) = id THEN r ELSE owner[id]]

\* Committing all the candidates raises IntegrityError when another request
\* has stored one of them since the SELECT.
IntegrityError(r, S) == \E i \in S : Stored(IdOf(r, i))

InsertAll(r) ==
  /\ pc[r] = "insert"
  /\ Commit(r, todo[r])
  /\ accepted' = [accepted EXCEPT ![r] = Cardinality(todo[r])]
  /\ todo' = [todo EXCEPT ![r] = {}]
  /\ Goto(r, "respond")
  /\ UNCHANGED <<batch, reply>>

\* Mutant: the candidates are counted before the commit, and the count is kept.
InsertAllConflict_KeepsCount(r) ==
  /\ pc[r] = "insert"
  /\ IntegrityError(r, todo[r])
  /\ accepted' = [accepted EXCEPT ![r] = Cardinality(todo[r])]
  /\ Goto(r, "row")
  /\ UNCHANGED <<rows, owner, batch, todo, reply>>

\* Mutant: the conflict is taken to mean that all candidates are stored.
InsertAllConflict_NoFallback(r) ==
  /\ pc[r] = "insert"
  /\ IntegrityError(r, todo[r])
  /\ accepted' = [accepted EXCEPT ![r] = 0]
  /\ Goto(r, "respond")
  /\ UNCHANGED <<rows, owner, batch, todo, reply>>

InsertAllConflict(r) ==
  /\ pc[r] = "insert"
  /\ IntegrityError(r, todo[r])
  /\ accepted' = [accepted EXCEPT ![r] = 0]
  /\ Goto(r, "row")
  /\ UNCHANGED <<rows, owner, batch, todo, reply>>

\* Mutant: a row that is found is not passed over.
GetRow_NoContinue(r) ==
  /\ pc[r] = "row"
  /\ todo[r] # {}
  /\ LET i == First(todo[r]) IN
       \/ Stored(IdOf(r, i)) /\ UNCHANGED pc
       \/ ~Stored(IdOf(r, i)) /\ Goto(r, "add")
  /\ UNCHANGED <<rows, owner, batch, todo, accepted, reply>>

\* The fallback takes the candidates one at a time: a get, and, when it finds
\* nothing, a transaction of its own, which may lose the race again.
GetRow(r) ==
  /\ pc[r] = "row"
  /\ todo[r] # {}
  /\ LET i == First(todo[r]) IN
       \/ /\ Stored(IdOf(r, i))
          /\ todo' = [todo EXCEPT ![r] = @ \ {i}]
          /\ UNCHANGED pc
       \/ /\ ~Stored(IdOf(r, i))
          /\ Goto(r, "add")
          /\ UNCHANGED todo
  /\ UNCHANGED <<rows, owner, batch, accepted, reply>>

\* Mutant: the row is counted before its commit is known to succeed.
AddRow_CountFirst(r) ==
  /\ pc[r] = "add"
  /\ LET i == First(todo[r]) IN
       /\ \/ Commit(r, {i})
          \/ IntegrityError(r, {i}) /\ UNCHANGED <<rows, owner>>
       /\ todo' = [todo EXCEPT ![r] = @ \ {i}]
  /\ accepted' = [accepted EXCEPT ![r] = @ + 1]
  /\ Goto(r, "row")
  /\ UNCHANGED <<batch, reply>>

AddRow(r) ==
  /\ pc[r] = "add"
  /\ LET i == First(todo[r]) IN
       /\ \/ /\ Commit(r, {i})
             /\ accepted' = [accepted EXCEPT ![r] = @ + 1]
          \/ /\ IntegrityError(r, {i})
             /\ UNCHANGED <<rows, owner, accepted>>
       /\ todo' = [todo EXCEPT ![r] = @ \ {i}]
  /\ Goto(r, "row")
  /\ UNCHANGED <<batch, reply>>

RowsDone(r) ==
  /\ pc[r] = "row"
  /\ todo[r] = {}
  /\ Goto(r, "respond")
  /\ UNCHANGED <<rows, owner, batch, todo, accepted, reply>>

Respond(r) ==
  /\ pc[r] = "respond"
  /\ reply' = [reply EXCEPT ![r] = Counts(r)]
  /\ Goto(r, "answered")
  /\ UNCHANGED <<rows, owner, batch, todo, accepted>>

\* The database is lost, a deadlock victim is picked or the process dies: the
\* open transaction is rolled back, earlier commits stay, and the caller gets
\* a 503 or nothing.  A commit whose acknowledgement is lost is a Commit step
\* followed by this one.
Abort(r) ==
  /\ pc[r] \in {"select", "insert", "row", "add", "respond"}
  /\ Goto(r, "failed")
  /\ UNCHANGED <<rows, owner, batch, todo, accepted, reply>>

Handle(r) ==
  \/ SelectExisting(r)
  \/ InsertAll(r)
  \/ InsertAllConflict(r)
  \/ GetRow(r)
  \/ AddRow(r)
  \/ RowsDone(r)
  \/ Respond(r)

Next == \E r \in Requests : Receive(r) \/ Handle(r) \/ Abort(r)

\* A handler that has started keeps running: the thread pool schedules it.
Fairness == \A r \in Requests : WF_vars(Handle(r))

Spec == Init /\ [][Next]_vars /\ Fairness

-------------------------------------------------------------------------------
(* Properties *)

Labels == {"idle", "select", "insert", "row", "add", "respond",
           "answered", "failed", "refused"}

TypeOK ==
  /\ rows \in [Ids -> Versions \cup {NoRow}]
  /\ owner \in [Ids -> Requests \cup {NoRequest}]
  /\ pc \in [Requests -> Labels]
  /\ batch \in [Requests -> Batches \cup {<<>>}]
  /\ todo \in [Requests -> SUBSET Nat]
  /\ accepted \in [Requests -> Nat]
  /\ reply \in [Requests -> [accepted : Nat, duplicates : Nat, rejected : Nat]]

Owned(r) == {id \in Ids : owner[id] = r}

\* Where each part of a payload is while its request runs.  What is still to be
\* inserted is among the first occurrences; once the SELECT has run, a first
\* occurrence is stored or still to be inserted; a request owns rows only after
\* its first commit, all of them first occurrences of its payload that it has
\* taken off todo; and it has counted each of them.
TodoUnique ==
  \A r \in Requests :
    /\ pc[r] \in {"insert", "row", "add"} => todo[r] \subseteq Unique(batch[r])
    /\ pc[r] = "add" => todo[r] # {}

NoneLost ==
  \A r \in Requests :
    /\ pc[r] \in {"insert", "row", "add"} =>
         \A i \in Unique(batch[r]) : i \in todo[r] \/ Stored(IdOf(r, i))
    /\ pc[r] \in {"respond", "answered"} =>
         \A i \in Unique(batch[r]) : Stored(IdOf(r, i))

OwnerStored ==
  \A id \in Ids : (owner[id] = NoRequest) <=> (rows[id] = NoRow)

OwnerStarted ==
  \A id \in Ids, r \in Requests :
    owner[id] = r => pc[r] \notin {"idle", "select", "insert", "refused"}

Counted ==
  \A r \in Requests :
    /\ IsFiniteSet(Owned(r))
    /\ accepted[r] = Cardinality(Owned(r))
    /\ pc[r] = "answered" => reply[r].accepted = accepted[r]

\* A caller that gets a 200 may forget the batch: every valid event of it is in
\* the table, whether this request stored it or lost the race for it.
AnsweredIsStored ==
  \A r \in Requests :
    pc[r] = "answered" => \A id \in ValidIds(batch[r]) : Stored(id)

\* "never double-counting" (insert_events_dedup): an answer counts as accepted
\* exactly the rows that this request's own commits created, so the accepted
\* counts of any set of answers add up to rows of the table, each one once.
NeverDoubleCounted ==
  \A r \in Requests :
    pc[r] = "answered" => reply[r].accepted = Cardinality(Owned(r))

\* Within one payload the first event with an id wins, and it also decides
\* the row when the fallback stores it row by row.
FirstOfBatchWins ==
  \A id \in Ids, r \in Requests :
    owner[id] = r =>
      \E i \in Valid(batch[r]) :
        /\ IdOf(r, i) = id
        /\ rows[id] = batch[r][i].ver
        /\ \A j \in Valid(batch[r]) : IdOf(r, j) = id => i <= j

\* A stored row is never replaced or removed by a later request, also not by
\* one that carries the same id with other contents.
RowsPermanent ==
  [][\A id \in Ids : rows[id] # NoRow => rows'[id] = rows[id]]_vars

\* The inductive invariant of the proofs in IngestProofs.
IInv ==
  /\ TypeOK
  /\ TodoUnique
  /\ NoneLost
  /\ OwnerStored
  /\ OwnerStarted
  /\ Counted
  /\ FirstOfBatchWins

\* Every request that the handler takes is answered or fails: the fallback
\* loop cannot be kept busy by other requests.
Finished(r) == pc[r] \in {"answered", "failed"}
EveryRequestEnds == \A r \in Requests : (pc[r] = "select") ~> Finished(r)

\* The handler implements the abstract store.
Status(r) ==
  CASE pc[r] = "idle" -> "none"
    [] pc[r] \in {"select", "insert", "row", "add", "respond"} -> "open"
    [] pc[r] = "answered" -> "answered"
    [] pc[r] \in {"failed", "refused"} -> "failed"

Wanted(r) == IF pc[r] \in {"idle", "refused"} THEN {} ELSE ValidIds(batch[r])

Abstract == INSTANCE EventStore WITH
  wanted <- [r \in Requests |-> Wanted(r)],
  status <- [r \in Requests |-> Status(r)],
  credit <- [r \in Requests |-> reply[r].accepted]

ImplementsEventStore == Abstract!Spec

===============================================================================
