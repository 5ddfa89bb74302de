----------------------------- MODULE IngestProofs -----------------------------
(***************************************************************************)
(* Proofs about Ingest.tla, for every set of requests, ids, versions and   *)
(* payloads.  TypeOK is inductive.  The safety properties rest on IInv,    *)
(* which says where every id of an accepted payload is while its request   *)
(* runs: stored, or still in todo.                                         *)
(***************************************************************************)
EXTENDS Ingest, FiniteSetTheorems, WellFoundedInduction, TLAPS

\* The smallest position of a non-empty set is one of its members.
LEMMA FirstIn ==
  ASSUME NEW S \in SUBSET Nat, S # {}
  PROVE  First(S) \in S /\ \A j \in S : First(S) <= j
<1>1. PICK i \in S : \A j \in S : ~(<<j, i>> \in OpToRel(<, Nat))
  BY NatLessThanWellFounded, WFMin
<1>2. \A j \in S : i <= j
  <2>. SUFFICES ASSUME NEW j \in S, ~(i <= j)
                PROVE  FALSE
    OBVIOUS
  <2>1. <<j, i>> \in Nat \X Nat /\ j < i
    OBVIOUS
  <2>2. <<j, i>> \in OpToRel(<, Nat)
    BY <2>1 DEF OpToRel
  <2>. QED
    BY <1>1, <2>2
<1>. QED
  BY <1>2 DEF First

-------------------------------------------------------------------------------
(* Type correctness *)

LEMMA ValidType ==
  ASSUME NEW b \in Batches \cup {<<>>}
  PROVE  /\ DOMAIN b = 1..Len(b)
         /\ Len(b) \in Nat
         /\ Valid(b) \subseteq Nat
         /\ IsFiniteSet(Valid(b))
         /\ Cardinality(Valid(b)) \in Nat
         /\ Unique(b) \subseteq Valid(b)
         /\ \A i \in Valid(b) : b[i] \in Event
<1>1. b \in Seq(Event \cup {Invalid})
  <2>1. CASE b = <<>>
    BY <2>1
  <2>2. CASE b \in Batches
    BY <2>2, BatchesAssumption
  <2>. QED
    BY <2>1, <2>2
<1>2. DOMAIN b = 1..Len(b) /\ Len(b) \in Nat
  BY <1>1
<1>3. IsFiniteSet(Valid(b))
  <2>1. IsFiniteSet(1..Len(b))
    BY <1>2, FS_Interval
  <2>. QED
    BY <2>1, <1>2, FS_Subset DEF Valid
<1>. QED
  BY <1>1, <1>2, <1>3, FS_CardinalityType DEF Valid, Unique

\* The ids of the valid events of a payload are ids.
LEMMA ValidIdsType ==
  ASSUME NEW b \in Batches \cup {<<>>}
  PROVE  ValidIds(b) \subseteq Ids
<1>1. \A i \in Valid(b) : b[i].id \in Ids
  BY ValidType DEF Event
<1>. QED
  BY <1>1 DEF ValidIds

\* The batch of a request has the type of a payload, and so have its positions.
LEMMA BatchType ==
  ASSUME TypeOK, NEW r \in Requests
  PROVE  /\ Valid(batch[r]) \subseteq Nat
         /\ IsFiniteSet(Valid(batch[r]))
         /\ Unique(batch[r]) \subseteq Valid(batch[r])
         /\ \A i \in Unique(batch[r]) :
              IdOf(r, i) \in Ids /\ batch[r][i].ver \in Versions
<1>1. batch[r] \in Batches \cup {<<>>}
  BY DEF TypeOK
<1>. QED
  BY <1>1, ValidType DEF IdOf, Event

\* Before any request every variable has its type.
LEMMA TypeInit == Init => TypeOK
BY DEF Init, TypeOK, NoReply, Labels

-------------------------------------------------------------------------------
(* What a commit does to the table *)

\* A row appears for each committed position, with that position's version and
\* this request as its owner, and nothing else changes.
LEMMA CommitEffect ==
  ASSUME TypeOK, NEW r \in Requests, NEW S \in SUBSET Unique(batch[r]),
         Commit(r, S)
  PROVE  /\ rows' \in [Ids -> Versions \cup {NoRow}]
         /\ owner' \in [Ids -> Requests \cup {NoRequest}]
         /\ \A i \in S : /\ rows[IdOf(r, i)] = NoRow
                         /\ rows'[IdOf(r, i)] = batch[r][i].ver
                         /\ owner'[IdOf(r, i)] = r
         /\ \A id \in Ids \ {IdOf(r, i) : i \in S} :
              rows'[id] = rows[id] /\ owner'[id] = owner[id]
<1>1. \A i, j \in S : IdOf(r, i) = IdOf(r, j) => i = j
  BY BatchType DEF IdOf, Unique
<1>2. \A i \in S : IdOf(r, i) \in Ids /\ batch[r][i].ver \in Versions
  BY BatchType
<1>3. ASSUME NEW i \in S
      PROVE  (CHOOSE j \in S : IdOf(r, j) = IdOf(r, i)) = i
  BY <1>1
<1>4. ASSUME NEW id \in Ids, \E i \in S : IdOf(r, i) = id
      PROVE  batch[r][CHOOSE i \in S : IdOf(r, i) = id].ver \in Versions
  BY <1>4, <1>2
<1>5. \A i \in S : /\ rows[IdOf(r, i)] = NoRow
                   /\ rows'[IdOf(r, i)] = batch[r][i].ver
                   /\ owner'[IdOf(r, i)] = r
  BY <1>2, <1>3 DEF Commit, Stored
<1>6. \A id \in Ids \ {IdOf(r, i) : i \in S} :
         rows'[id] = rows[id] /\ owner'[id] = owner[id]
  BY DEF Commit
<1>7. rows' \in [Ids -> Versions \cup {NoRow}]
  BY <1>4 DEF Commit, TypeOK
<1>8. owner' \in [Ids -> Requests \cup {NoRequest}]
  BY DEF Commit, TypeOK
<1>. QED
  BY <1>5, <1>6, <1>7, <1>8

\* The part of the invariant that speaks of the table alone survives a commit,
\* the rows of the other requests stay as they are, and this request owns the
\* committed ids besides what it owned before.
LEMMA CommitKeeps ==
  ASSUME TypeOK, OwnerStored, FirstOfBatchWins,
         NEW r \in Requests, NEW S \in SUBSET Unique(batch[r]),
         Commit(r, S), UNCHANGED batch
  PROVE  /\ OwnerStored'
         /\ FirstOfBatchWins'
         /\ \A id \in Ids : Stored(id) => Stored(id)'
         /\ \A i \in S : Stored(IdOf(r, i))'
         /\ \A i \in S : IdOf(r, i) \notin Owned(r)
         /\ Owned(r)' = Owned(r) \cup {IdOf(r, i) : i \in S}
         /\ \A q \in Requests \ {r} : Owned(q)' = Owned(q)
<1>. DEFINE New == {IdOf(r, i) : i \in S}
<1>1. \A i \in S : IdOf(r, i) \in Ids /\ batch[r][i].ver \in Versions
  BY BatchType
<1>2. \A i \in S : batch[r][i].ver # NoRow /\ r # NoRequest
  BY <1>1, NoRowAssumption, NoRequestAssumption
<1>3. \A id \in New : rows[id] = NoRow /\ owner[id] = NoRequest /\ id \in Ids
  BY <1>1, CommitEffect DEF OwnerStored
<1>4. \A id \in New : rows'[id] # NoRow /\ owner'[id] = r
  BY <1>2, CommitEffect
<1>5. \A id \in Ids \ New : rows'[id] = rows[id] /\ owner'[id] = owner[id]
  BY CommitEffect
<1>6. OwnerStored'
  BY <1>2, <1>4, <1>5 DEF OwnerStored
<1>7. FirstOfBatchWins'
  <2>. SUFFICES ASSUME NEW id \in Ids, NEW q \in Requests, owner'[id] = q
                PROVE  \E i \in Valid(batch[q]) :
                         /\ IdOf(q, i) = id
                         /\ rows'[id] = batch[q][i].ver
                         /\ \A j \in Valid(batch[q]) : IdOf(q, j) = id => i <= j
    BY DEF FirstOfBatchWins, IdOf
  <2>1. CASE id \in New
    BY <2>1, <1>4, CommitEffect DEF Unique, IdOf
  <2>2. CASE id \notin New
    BY <2>2, <1>5 DEF FirstOfBatchWins
  <2>. QED
    BY <2>1, <2>2
<1>8. \A id \in Ids : Stored(id) => Stored(id)'
  BY <1>4, <1>5 DEF Stored
<1>9. \A i \in S : Stored(IdOf(r, i))'
  BY <1>1, <1>4 DEF Stored, IdOf
<1>10. \A i \in S : IdOf(r, i) \notin Owned(r)
  BY <1>2, <1>3 DEF Owned
<1>11. Owned(r)' = Owned(r) \cup New
  BY <1>3, <1>4, <1>5 DEF Owned
<1>12. \A q \in Requests \ {r} : Owned(q)' = Owned(q)
  BY <1>2, <1>3, <1>4, <1>5, NoRequestAssumption DEF Owned
<1>. QED
  BY <1>6, <1>7, <1>8, <1>9, <1>10, <1>11, <1>12

\* The ids of a set of first occurrences are as many as the positions.
LEMMA UniqueIdsCardinality ==
  ASSUME TypeOK, NEW r \in Requests, NEW S \in SUBSET Unique(batch[r])
  PROVE  /\ IsFiniteSet({IdOf(r, i) : i \in S})
         /\ Cardinality({IdOf(r, i) : i \in S}) = Cardinality(S)
<1>. DEFINE T == {IdOf(r, i) : i \in S}
            f == [i \in S |-> IdOf(r, i)]
<1>1. \A i, j \in S : IdOf(r, i) = IdOf(r, j) => i = j
  BY BatchType DEF IdOf, Unique
<1>2. IsFiniteSet(S)
  BY BatchType, FS_Subset
<1>3. f \in Bijection(S, T)
  BY <1>1 DEF Bijection, Injection, Surjection, IsInjective
<1>4. ExistsBijection(S, T)
  BY <1>3 DEF ExistsBijection
<1>. QED
  BY <1>2, <1>4, FS_Bijection

-------------------------------------------------------------------------------
(* IInv is inductive *)

LEMMA IInvInit == Init => IInv
<1>. SUFFICES ASSUME Init PROVE IInv
  OBVIOUS
<1>1. \A r \in Requests : Owned(r) = {}
  BY NoRequestAssumption DEF Init, Owned
<1>2. Counted
  BY <1>1, FS_EmptySet DEF Init, Counted
<1>. QED
  BY <1>2, TypeInit, NoRequestAssumption
     DEF Init, IInv, TodoUnique, NoneLost, OwnerStored, OwnerStarted, FirstOfBatchWins

\* A step that leaves the table and the counters of every request alone only
\* has to respect the clauses about pc, batch and todo.
LEMMA TableUnchanged ==
  ASSUME IInv, UNCHANGED <<rows, owner>>
  PROVE  /\ OwnerStored'
         /\ \A q \in Requests : Owned(q)' = Owned(q)
         /\ \A id \in Ids : Stored(id)' = Stored(id)
BY DEF IInv, OwnerStored, Owned, Stored

\* FirstOfBatchWins speaks of the owners of rows only, so a request that owns
\* none may change its batch.
LEMMA OwnersKeepBatch ==
  ASSUME FirstOfBatchWins, UNCHANGED <<rows, owner>>,
         \A q \in Requests : batch'[q] = batch[q] \/ Owned(q) = {}
  PROVE  FirstOfBatchWins'
<1>. SUFFICES ASSUME NEW id \in Ids, NEW q \in Requests, owner[id] = q
              PROVE  \E i \in Valid(batch'[q]) :
                       /\ batch'[q][i].id = id
                       /\ rows[id] = batch'[q][i].ver
                       /\ \A j \in Valid(batch'[q]) : batch'[q][j].id = id => i <= j
  BY DEF FirstOfBatchWins, IdOf
<1>1. batch'[q] = batch[q]
  BY DEF Owned
<1>. QED
  BY <1>1 DEF FirstOfBatchWins, IdOf

\* A payload that is taken: nothing is owned, all its first occurrences are to do.
LEMMA ReceiveKeeps ==
  ASSUME IInv, NEW r \in Requests, Receive(r)
  PROVE  IInv'
<1>. USE DEF Goto
<1>1. PICK b \in Batches :
        /\ batch' = [batch EXCEPT ![r] = b]
        /\ \/ Goto(r, "refused")
           \/ Valid(b) = {} /\ Goto(r, "respond")
           \/ Goto(r, "select")
  BY DEF Receive
<1>2. pc[r] = "idle" /\ UNCHANGED <<rows, owner, todo, accepted, reply>>
  BY DEF Receive
<1>3. TypeOK'
  BY <1>1, <1>2 DEF IInv, TypeOK, Labels
<1>4. \A id \in Ids : owner[id] # r
  BY <1>2 DEF IInv, OwnerStarted
<1>5. Valid(b) = {} => Unique(b) = {}
  BY DEF Unique
<1>6. TodoUnique'
  BY <1>1, <1>2 DEF IInv, TypeOK, TodoUnique
<1>7. NoneLost'
  BY <1>1, <1>2, <1>5 DEF IInv, TypeOK, NoneLost, IdOf, Stored
<1>8. OwnerStarted'
  BY <1>1, <1>2, <1>4 DEF IInv, TypeOK, OwnerStarted
<1>9. Counted'
  BY <1>1, <1>2, TableUnchanged DEF IInv, TypeOK, Counted
<1>10. FirstOfBatchWins'
  BY <1>1, <1>2, <1>4, OwnersKeepBatch DEF IInv, TypeOK, Owned
<1>. QED
  BY <1>2, <1>3, <1>6, <1>7, <1>8, <1>9, <1>10, TableUnchanged DEF IInv

\* SELECT: what it finds in the table is no longer to do.
LEMMA SelectKeeps ==
  ASSUME IInv, NEW r \in Requests, SelectExisting(r)
  PROVE  IInv'
<1>. USE DEF SelectExisting, Goto
<1>1. Unique(batch[r]) \subseteq Nat
  BY BatchType DEF IInv
<1>2. TypeOK'
  BY <1>1 DEF IInv, TypeOK, Labels
<1>3. TodoUnique'
  BY DEF IInv, TypeOK, TodoUnique
<1>4. NoneLost'
  BY DEF IInv, TypeOK, NoneLost, IdOf, Stored
<1>5. OwnerStarted'
  BY DEF IInv, TypeOK, OwnerStarted
<1>6. Counted'
  BY TableUnchanged DEF IInv, TypeOK, Counted
<1>7. FirstOfBatchWins'
  BY OwnersKeepBatch DEF IInv
<1>. QED
  BY <1>2, <1>3, <1>4, <1>5, <1>6, <1>7, TableUnchanged DEF IInv

\* INSERT of all that is left and its commit.
LEMMA InsertAllKeeps ==
  ASSUME IInv, NEW r \in Requests, InsertAll(r)
  PROVE  IInv'
<1>. DEFINE S == todo[r]
            New == {IdOf(r, i) : i \in S}
<1>1. /\ pc[r] = "insert"
      /\ Commit(r, S)
      /\ accepted' = [accepted EXCEPT ![r] = Cardinality(S)]
      /\ todo' = [todo EXCEPT ![r] = {}]
      /\ pc' = [pc EXCEPT ![r] = "respond"]
      /\ UNCHANGED <<batch, reply>>
  BY DEF InsertAll, Goto
<1>2. TypeOK /\ OwnerStored /\ FirstOfBatchWins /\ S \in SUBSET Unique(batch[r])
  BY <1>1 DEF IInv, TodoUnique
<1>3. Owned(r) = {}
  BY <1>1 DEF IInv, OwnerStarted, Owned
<1>4. Owned(r)' = New /\ \A q \in Requests \ {r} : Owned(q)' = Owned(q)
  BY <1>1, <1>2, <1>3, CommitKeeps
<1>5. IsFiniteSet(New) /\ Cardinality(New) = Cardinality(S)
  BY <1>2, UniqueIdsCardinality
<1>6. Cardinality(S) \in Nat
  BY <1>5, FS_CardinalityType
<1>7. TypeOK'
  BY <1>1, <1>2, <1>6, CommitEffect DEF TypeOK, Labels
<1>8. TodoUnique'
  BY <1>1, <1>2 DEF IInv, TypeOK, TodoUnique
<1>9. NoneLost'
  <2>1. \A q \in Requests : \A i \in Unique(batch[q]) :
           Stored(IdOf(q, i)) => Stored(IdOf(q, i))'
    BY <1>1, <1>2, CommitKeeps, BatchType DEF Stored, IdOf
  <2>2. \A i \in Unique(batch[r]) : Stored(IdOf(r, i))'
    BY <1>1, <1>2, <2>1, CommitKeeps DEF IInv, NoneLost
  <2>. QED
    BY <1>1, <1>2, <2>1, <2>2 DEF IInv, TypeOK, NoneLost
<1>10. OwnerStarted'
  <2>1. \A q \in Requests \ {r}, id \in Ids : owner'[id] = q => owner[id] = q
    BY <1>4 DEF Owned
  <2>. QED
    BY <1>1, <1>2, <2>1 DEF IInv, TypeOK, OwnerStarted
<1>11. Counted'
  BY <1>1, <1>2, <1>4, <1>5 DEF IInv, TypeOK, Counted
<1>. QED
  BY <1>1, <1>2, <1>7, <1>8, <1>9, <1>10, <1>11, CommitKeeps DEF IInv

\* The conflict of that insert, rolled back: nothing was stored.
LEMMA InsertAllConflictKeeps ==
  ASSUME IInv, NEW r \in Requests, InsertAllConflict(r)
  PROVE  IInv'
<1>. USE DEF InsertAllConflict, Goto
<1>1. Owned(r) = {}
  BY DEF IInv, OwnerStarted, Owned
<1>2. accepted[r] = 0
  BY <1>1, FS_EmptySet DEF IInv, Counted
<1>3. TypeOK'
  BY DEF IInv, TypeOK, Labels
<1>4. TodoUnique'
  BY DEF IInv, TypeOK, TodoUnique
<1>5. NoneLost'
  BY DEF IInv, TypeOK, NoneLost, IdOf, Stored
<1>6. OwnerStarted'
  BY DEF IInv, TypeOK, OwnerStarted
<1>7. Counted'
  BY <1>2, TableUnchanged DEF IInv, TypeOK, Counted
<1>8. FirstOfBatchWins'
  BY OwnersKeepBatch DEF IInv
<1>. QED
  BY <1>3, <1>4, <1>5, <1>6, <1>7, <1>8, TableUnchanged DEF IInv

\* The fallback looks for one row.
LEMMA GetRowKeeps ==
  ASSUME IInv, NEW r \in Requests, GetRow(r)
  PROVE  IInv'
<1>. DEFINE i == First(todo[r])
<1>1. /\ pc[r] = "row"
      /\ todo[r] # {}
      /\ \/ /\ Stored(IdOf(r, i))
            /\ todo' = [todo EXCEPT ![r] = @ \ {i}]
            /\ UNCHANGED pc
         \/ /\ ~Stored(IdOf(r, i))
            /\ pc' = [pc EXCEPT ![r] = "add"]
            /\ UNCHANGED todo
      /\ UNCHANGED <<rows, owner, batch, accepted, reply>>
  BY DEF GetRow, Goto
<1>. HIDE DEF i
<1>2. TypeOK'
  BY <1>1 DEF IInv, TypeOK, Labels
<1>3. TodoUnique'
  BY <1>1 DEF IInv, TypeOK, TodoUnique
<1>4. NoneLost'
  <2>. USE DEF IInv, TypeOK, NoneLost, IdOf, Stored
  <2>1. CASE Stored(IdOf(r, i)) /\ todo' = [todo EXCEPT ![r] = @ \ {i}] /\ UNCHANGED pc
    BY <1>1, <2>1
  <2>2. CASE pc' = [pc EXCEPT ![r] = "add"] /\ UNCHANGED todo
    BY <1>1, <2>2
  <2>. QED
    BY <1>1, <2>1, <2>2
<1>5. OwnerStarted'
  BY <1>1 DEF IInv, TypeOK, OwnerStarted
<1>6. Counted'
  BY <1>1, TableUnchanged DEF IInv, TypeOK, Counted
<1>7. FirstOfBatchWins'
  BY <1>1, OwnersKeepBatch DEF IInv
<1>. QED
  BY <1>1, <1>2, <1>3, <1>4, <1>5, <1>6, <1>7, TableUnchanged DEF IInv

\* The transaction of one row commits ...
LEMMA AddRowCommitKeeps ==
  ASSUME IInv, NEW r \in Requests, NEW i \in todo[r], pc[r] = "add",
         Commit(r, {i}),
         accepted' = [accepted EXCEPT ![r] = @ + 1],
         todo' = [todo EXCEPT ![r] = @ \ {i}],
         pc' = [pc EXCEPT ![r] = "row"],
         UNCHANGED <<batch, reply>>
  PROVE  IInv'
<1>1. TypeOK /\ OwnerStored /\ FirstOfBatchWins /\ {i} \in SUBSET Unique(batch[r])
  BY DEF IInv, TodoUnique
<1>2. /\ Owned(r)' = Owned(r) \cup {IdOf(r, i)}
      /\ IdOf(r, i) \notin Owned(r)
      /\ \A q \in Requests \ {r} : Owned(q)' = Owned(q)
  BY <1>1, CommitKeeps
<1>3. TypeOK'
  BY <1>1, CommitEffect DEF TypeOK, Labels
<1>4. TodoUnique'
  BY <1>1 DEF IInv, TypeOK, TodoUnique
<1>5. NoneLost'
  <2>1. \A q \in Requests : \A j \in Unique(batch[q]) :
           Stored(IdOf(q, j)) => Stored(IdOf(q, j))'
    BY <1>1, CommitKeeps, BatchType DEF Stored, IdOf
  <2>2. Stored(IdOf(r, i))'
    BY <1>1, CommitKeeps
  <2>. QED
    BY <1>1, <2>1, <2>2 DEF IInv, TypeOK, NoneLost
<1>6. OwnerStarted'
  <2>1. \A q \in Requests \ {r}, id \in Ids : owner'[id] = q => owner[id] = q
    BY <1>2 DEF Owned
  <2>. QED
    BY <1>1, <2>1 DEF IInv, TypeOK, OwnerStarted
<1>7. Counted'
  <2>1. IsFiniteSet(Owned(r)') /\ Cardinality(Owned(r)') = Cardinality(Owned(r)) + 1
    BY <1>2, FS_AddElement DEF IInv, Counted
  <2>. QED
    BY <1>1, <1>2, <2>1 DEF IInv, TypeOK, Counted
<1>. QED
  BY <1>1, <1>3, <1>4, <1>5, <1>6, <1>7, CommitKeeps DEF IInv

\* ... or finds the id stored by another request in the meantime.
LEMMA AddRowConflictKeeps ==
  ASSUME IInv, NEW r \in Requests, NEW i \in todo[r], pc[r] = "add",
         Stored(IdOf(r, i)),
         todo' = [todo EXCEPT ![r] = @ \ {i}],
         pc' = [pc EXCEPT ![r] = "row"],
         UNCHANGED <<rows, owner, accepted, batch, reply>>
  PROVE  IInv'
<1>1. TypeOK'
  BY DEF IInv, TypeOK, Labels
<1>2. TodoUnique'
  BY DEF IInv, TypeOK, TodoUnique
<1>3. NoneLost'
  BY DEF IInv, TypeOK, NoneLost, IdOf, Stored
<1>4. OwnerStarted'
  BY DEF IInv, TypeOK, OwnerStarted
<1>5. Counted'
  BY TableUnchanged DEF IInv, TypeOK, Counted
<1>6. FirstOfBatchWins'
  BY OwnersKeepBatch DEF IInv
<1>. QED
  BY <1>1, <1>2, <1>3, <1>4, <1>5, <1>6, TableUnchanged DEF IInv

\* The fallback adds one row, or skips it when another request was first.
LEMMA AddRowKeeps ==
  ASSUME IInv, NEW r \in Requests, AddRow(r)
  PROVE  IInv'
<1>. DEFINE i == First(todo[r])
<1>1. i \in todo[r]
  BY FirstIn DEF IInv, TypeOK, TodoUnique, AddRow
<1>2. /\ pc[r] = "add"
      /\ \/ Commit(r, {i}) /\ accepted' = [accepted EXCEPT ![r] = @ + 1]
         \/ Stored(IdOf(r, i)) /\ UNCHANGED <<rows, owner, accepted>>
      /\ todo' = [todo EXCEPT ![r] = @ \ {i}]
      /\ pc' = [pc EXCEPT ![r] = "row"]
      /\ UNCHANGED <<batch, reply>>
  BY DEF AddRow, IntegrityError, Goto
<1>. HIDE DEF i
<1>. QED
  BY <1>1, <1>2, AddRowCommitKeeps, AddRowConflictKeeps

\* A request cannot own more rows than its payload has valid events, so the
\* counts of its response are natural numbers.
LEMMA CountsType ==
  ASSUME IInv, NEW r \in Requests
  PROVE  /\ Counts(r) \in [accepted : Nat, duplicates : Nat, rejected : Nat]
         /\ Counts(r).accepted = accepted[r]
<1>. DEFINE V == Valid(batch[r])
            f == [id \in Owned(r) |-> CHOOSE i \in V : IdOf(r, i) = id]
<1>1. /\ accepted[r] = Cardinality(Owned(r)) /\ accepted[r] \in Nat
      /\ IsFiniteSet(V)
  BY BatchType DEF IInv, TypeOK, Counted
<1>2. \A id \in Owned(r) : f[id] \in V /\ IdOf(r, f[id]) = id
  BY DEF IInv, FirstOfBatchWins, Owned
<1>3. f \in Injection(Owned(r), V)
  BY <1>2 DEF Injection, IsInjective
<1>4. Cardinality(Owned(r)) <= Cardinality(V)
  BY <1>1, <1>3, FS_Injection
<1>5. /\ Len(batch[r]) \in Nat /\ DOMAIN batch[r] = 1..Len(batch[r])
      /\ Cardinality(V) \in Nat
  BY ValidType DEF IInv, TypeOK
<1>6. Cardinality(V) <= Len(batch[r])
  <2>1. /\ IsFiniteSet(1..Len(batch[r]))
        /\ Cardinality(1..Len(batch[r])) = Len(batch[r])
    BY <1>5, FS_Interval
  <2>2. V \in SUBSET (1..Len(batch[r]))
    BY <1>5 DEF Valid
  <2>. QED
    BY <2>1, <2>2, FS_Subset
<1>. QED
  BY <1>1, <1>4, <1>5, <1>6 DEF Counts

\* The steps that only move pc and fill in the reply.
LEMMA OtherStepsKeep ==
  ASSUME IInv, NEW r \in Requests, RowsDone(r) \/ Respond(r) \/ Abort(r)
  PROVE  IInv'
<1>. USE DEF Goto
<1>1. UNCHANGED <<rows, owner, batch, todo, accepted>>
  BY DEF RowsDone, Respond, Abort
<1>2. /\ pc[r] \in {"select", "insert", "row", "add", "respond"}
      /\ \/ pc[r] = "row" /\ todo[r] = {} /\ pc' = [pc EXCEPT ![r] = "respond"] /\ UNCHANGED reply
         \/ /\ pc[r] = "respond"
            /\ pc' = [pc EXCEPT ![r] = "answered"]
            /\ reply' = [reply EXCEPT ![r] = Counts(r)]
         \/ pc' = [pc EXCEPT ![r] = "failed"] /\ UNCHANGED reply
  BY DEF RowsDone, Respond, Abort
<1>3. TypeOK'
  BY <1>1, <1>2, CountsType DEF IInv, TypeOK, Labels
<1>4. TodoUnique'
  BY <1>1, <1>2 DEF IInv, TypeOK, TodoUnique
<1>5. NoneLost'
  BY <1>1, <1>2 DEF IInv, TypeOK, NoneLost, IdOf, Stored
<1>6. OwnerStarted'
  <2>1. \A q \in Requests : pc'[q] \in {"idle", "select", "insert", "refused"} => pc'[q] = pc[q]
    BY <1>2 DEF IInv, TypeOK
  <2>. QED
    BY <1>1, <2>1 DEF IInv, OwnerStarted
<1>7. Counted'
  <2>1. \A q \in Requests : pc'[q] = "answered" => reply'[q].accepted = accepted[q]
    BY <1>2, CountsType DEF IInv, TypeOK, Counted
  <2>. QED
    BY <1>1, <2>1, TableUnchanged DEF IInv, TypeOK, Counted
<1>8. FirstOfBatchWins'
  BY <1>1, OwnersKeepBatch DEF IInv
<1>. QED
  BY <1>1, <1>3, <1>4, <1>5, <1>6, <1>7, <1>8, TableUnchanged DEF IInv

\* Every step keeps the invariant.
LEMMA IInvStep == IInv /\ [Next]_vars => IInv'
<1>. SUFFICES ASSUME IInv, [Next]_vars PROVE IInv'
  OBVIOUS
<1>1. ASSUME NEW r \in Requests, Receive(r) \/ Handle(r) \/ Abort(r)
      PROVE  IInv'
  BY <1>1, ReceiveKeeps, SelectKeeps, InsertAllKeeps, InsertAllConflictKeeps,
     GetRowKeeps, AddRowKeeps, OtherStepsKeep DEF Handle
<1>2. CASE UNCHANGED vars
  <2>1. UNCHANGED <<rows, owner, pc, batch, todo, accepted, reply>>
    BY <1>2 DEF vars
  <2>2. TypeOK' /\ TodoUnique' /\ OwnerStarted'
    BY <2>1 DEF IInv, TypeOK, TodoUnique, OwnerStarted
  <2>3. NoneLost'
    BY <2>1 DEF IInv, NoneLost, IdOf, Stored
  <2>4. Counted'
    BY <2>1, TableUnchanged DEF IInv, Counted
  <2>5. FirstOfBatchWins'
    BY <2>1, OwnersKeepBatch DEF IInv
  <2>. QED
    BY <2>1, <2>2, <2>3, <2>4, <2>5, TableUnchanged DEF IInv
<1>. QED
  BY <1>1, <1>2 DEF Next

\* The invariant that the other theorems rest on.
THEOREM Invariance == Spec => []IInv
<1>. QED
  BY IInvInit, IInvStep, PTL DEF Spec

-------------------------------------------------------------------------------
(* The properties *)

\* A request that has got to its answer finds all its ids stored: the first
\* occurrences by NoneLost, and the others have the id of a first one.
LEMMA ValidIdsStored ==
  ASSUME IInv, NEW r \in Requests, pc[r] \in {"respond", "answered"},
         NEW id \in ValidIds(batch[r])
  PROVE  Stored(id)
<1>1. PICK i \in Valid(batch[r]) : batch[r][i].id = id
  BY DEF ValidIds
<1>. DEFINE Same == {j \in Valid(batch[r]) : batch[r][j].id = id}
<1>2. Same \in SUBSET Nat /\ Same # {}
  BY <1>1, BatchType DEF IInv
<1>3. First(Same) \in Unique(batch[r]) /\ IdOf(r, First(Same)) = id
  <2>1. First(Same) \in Same /\ \A j \in Same : First(Same) <= j
    BY <1>2, FirstIn
  <2>. QED
    BY <2>1 DEF Unique, IdOf
<1>. QED
  BY <1>3 DEF IInv, NoneLost

\* Every variable keeps its type: rows are versions, owners are requests, the
\* counts of every reply are numbers (insert_events_dedup, ingest_events).
THEOREM TypeCorrect == Spec => []TypeOK
<1>1. IInv => TypeOK
  BY DEF IInv
<1>. QED
  BY <1>1, Invariance, PTL

\* When ingest_events answers, every valid event of the payload is a row of
\* behavior_events, also those whose insertion another request won.
THEOREM AnsweredEventsAreStored == Spec => []AnsweredIsStored
<1>1. IInv => AnsweredIsStored
  BY ValidIdsStored DEF AnsweredIsStored
<1>. QED
  BY <1>1, Invariance, PTL

\* The accepted count of an answer is the number of rows that the request's
\* own commits created: insert_events_dedup never counts a row twice, and
\* never counts a row that a concurrent request stored.
THEOREM AcceptedIsExact == Spec => []NeverDoubleCounted
<1>1. IInv => NeverDoubleCounted
  BY DEF IInv, Counted, NeverDoubleCounted
<1>. QED
  BY <1>1, Invariance, PTL

\* A row holds what the first event with its id in the payload of its owner
\* says (the dictionary "unique" of insert_events_dedup keeps the first).
THEOREM RowsComeFromTheirOwner == Spec => []FirstOfBatchWins
<1>1. IInv => FirstOfBatchWins
  BY DEF IInv
<1>. QED
  BY <1>1, Invariance, PTL

\* No step replaces or removes a stored row: behavior_events is append-only.
THEOREM StoredRowsStay == Spec => RowsPermanent
<1>1. IInv /\ [Next]_vars => [\A id \in Ids : rows[id] # NoRow => rows'[id] = rows[id]]_vars
  <2>. SUFFICES ASSUME IInv, Next, NEW id \in Ids, rows[id] # NoRow
                PROVE  rows'[id] = rows[id]
    OBVIOUS
  <2>1. PICK r \in Requests : Receive(r) \/ Handle(r) \/ Abort(r)
    BY DEF Next
  <2>2. ASSUME NEW S \in SUBSET Unique(batch[r]), Commit(r, S)
        PROVE  rows'[id] = rows[id]
    BY <2>2, CommitEffect DEF IInv
  <2>3. CASE InsertAll(r)
    BY <2>2, <2>3 DEF InsertAll, IInv, TodoUnique
  <2>4. CASE AddRow(r)
    <3>1. First(todo[r]) \in Unique(batch[r])
      BY <2>4, FirstIn DEF AddRow, IInv, TypeOK, TodoUnique
    <3>. QED
      BY <2>2, <2>4, <3>1 DEF AddRow
  <2>. QED
    BY <2>1, <2>3, <2>4 DEF Receive, Handle, SelectExisting, InsertAllConflict,
       GetRow, RowsDone, Respond, Abort
<1>. QED
  BY <1>1, Invariance, PTL DEF Spec, RowsPermanent

-------------------------------------------------------------------------------
(* The handler implements EventStore: each of its steps is a step of the     *)
(* abstract store, or leaves every abstract variable unchanged.              *)

LEMMA RefinesInit == Init => Abstract!Init
<1>. SUFFICES ASSUME Init PROVE Abstract!Init
  OBVIOUS
<1>1. \A r \in Requests : Wanted(r) = {}
  BY DEF Init, Wanted
<1>2. \A r \in Requests : Status(r) = "none" /\ reply[r].accepted = 0
  BY DEF Init, Status, NoReply
<1>. QED
  BY <1>1, <1>2 DEF Init, Abstract!Init

\* How the abstract variables of a request follow its concrete ones.
LEMMA StatusOf ==
  ASSUME TypeOK, NEW r \in Requests
  PROVE  /\ pc[r] = "idle" => Status(r) = "none"
         /\ pc[r] \in {"select", "insert", "row", "add", "respond"} => Status(r) = "open"
         /\ pc[r] = "answered" => Status(r) = "answered"
         /\ pc[r] \in {"failed", "refused"} => Status(r) = "failed"
         /\ Wanted(r) \subseteq Ids
<1>1. Wanted(r) \subseteq Ids
  <2>1. ValidIds(batch[r]) \subseteq Ids
    BY ValidIdsType DEF TypeOK
  <2>. QED
    BY <2>1 DEF Wanted
<1>. QED
  BY <1>1 DEF Status

\* The same of the state after a step.
LEMMA StatusOfPrimed ==
  ASSUME TypeOK', NEW r \in Requests
  PROVE  /\ pc'[r] = "idle" => Status(r)' = "none"
         /\ pc'[r] \in {"select", "insert", "row", "add", "respond"} => Status(r)' = "open"
         /\ pc'[r] = "answered" => Status(r)' = "answered"
         /\ pc'[r] \in {"failed", "refused"} => Status(r)' = "failed"
         /\ Wanted(r)' \subseteq Ids
<1>1. Wanted(r)' \subseteq Ids
  <2>1. ValidIds(batch'[r]) \subseteq Ids
    BY ValidIdsType DEF TypeOK
  <2>. QED
    BY <2>1 DEF Wanted
<1>. QED
  BY <1>1 DEF Status

\* The abstract variables of the requests other than r do not change.
LEMMA OthersUnchanged ==
  ASSUME IInv, NEW r \in Requests, NEW q \in Requests \ {r},
         Receive(r) \/ Handle(r) \/ Abort(r)
  PROVE  /\ pc'[q] = pc[q]
         /\ Wanted(q)' = Wanted(q)
         /\ Status(q)' = Status(q)
         /\ reply'[q] = reply[q]
<1>1. pc'[q] = pc[q] /\ batch'[q] = batch[q] /\ reply'[q] = reply[q]
  BY DEF IInv, TypeOK, Goto, Receive, Handle, Abort, SelectExisting, InsertAll,
     InsertAllConflict, GetRow, AddRow, RowsDone, Respond
<1>. QED
  BY <1>1 DEF Wanted, Status

\* A step that leaves the abstract status, wish and credit of r and the table
\* as they are is a stuttering step of the store.
LEMMA StutterStep ==
  ASSUME IInv, IInv', NEW r \in Requests, Handle(r),
         UNCHANGED <<rows, owner, batch, reply>>,
         pc'[r] \in {"select", "insert", "row", "add", "respond"}
  PROVE  UNCHANGED Abstract!vars
<1>1. pc[r] \in {"select", "insert", "row", "add", "respond"}
  BY DEF IInv, TypeOK, Handle, SelectExisting, InsertAll, InsertAllConflict,
     GetRow, AddRow, RowsDone, Respond
<1>2. Status(r)' = Status(r) /\ Wanted(r)' = Wanted(r)
  BY <1>1, StatusOf, StatusOfPrimed DEF IInv, Wanted
<1>3. \A q \in Requests : /\ Status(q)' = Status(q)
                          /\ Wanted(q)' = Wanted(q)
                          /\ reply'[q] = reply[q]
  BY <1>2, OthersUnchanged
<1>. QED
  BY <1>3 DEF Abstract!vars

\* A commit stores rows of r that nobody had stored.
LEMMA CommitIsStore ==
  ASSUME IInv, IInv', NEW r \in Requests, Handle(r),
         NEW S \in SUBSET Unique(batch[r]), Commit(r, S),
         pc[r] \in {"insert", "add"}, pc'[r] \in {"respond", "row"},
         UNCHANGED <<batch, reply>>
  PROVE  Abstract!Next
<1>. DEFINE New == {IdOf(r, i) : i \in S}
<1>1. Status(r) = "open" /\ Status(r)' = "open" /\ Wanted(r)' = Wanted(r)
  BY StatusOf, StatusOfPrimed DEF IInv, Wanted
<1>2. \A q \in Requests : /\ Status(q)' = Status(q)
                          /\ Wanted(q)' = Wanted(q)
                          /\ reply'[q] = reply[q]
  BY <1>1, OthersUnchanged
<1>3. New \subseteq Wanted(r) /\ New \in SUBSET Ids
  BY BatchType DEF IInv, Wanted, ValidIds, IdOf
<1>4. /\ \A id \in New : /\ rows[id] = NoRow
                         /\ rows'[id] \in Versions
                         /\ owner'[id] = r
      /\ \A id \in Ids \ New : rows'[id] = rows[id] /\ owner'[id] = owner[id]
      /\ rows' \in [Ids -> Versions \cup {NoRow}]
      /\ owner' \in [Ids -> Requests \cup {NoRequest}]
  BY CommitEffect, BatchType DEF IInv
<1>5. owner' = [id \in Ids |-> IF id \in New THEN r ELSE owner[id]]
  BY <1>4
<1>6. \E ver \in [New -> Versions] :
        rows' = [id \in Ids |-> IF id \in New THEN ver[id] ELSE rows[id]]
  <2>1. [id \in New |-> rows'[id]] \in [New -> Versions]
    BY <1>4
  <2>2. rows' = [id \in Ids |-> IF id \in New THEN [n \in New |-> rows'[n]][id] ELSE rows[id]]
    BY <1>4
  <2>. QED
    BY <2>1, <2>2
<1>7. Abstract!Store(r, New)
  BY <1>1, <1>2, <1>3, <1>4, <1>5, <1>6 DEF Abstract!Store
<1>. QED
  BY <1>3, <1>7 DEF Abstract!Next

\* A request that is taken opens it in the abstract store, or refuses it.
LEMMA ReceiveRefines ==
  ASSUME IInv, IInv', NEW r \in Requests, Receive(r)
  PROVE  Abstract!Next
<1>1. /\ pc[r] = "idle"
      /\ UNCHANGED <<rows, owner, reply>>
      /\ pc' = [pc EXCEPT ![r] = pc'[r]]
      /\ pc'[r] \in {"refused", "respond", "select"}
  BY DEF Receive, Goto, IInv, TypeOK
<1>2. \A q \in Requests \ {r} : /\ Status(q)' = Status(q)
                                /\ Wanted(q)' = Wanted(q)
                                /\ reply'[q] = reply[q]
  BY OthersUnchanged
<1>3. Status(r) = "none" /\ Wanted(r) = {} /\ reply'[r] = reply[r]
  BY <1>1, StatusOf DEF IInv, Wanted
<1>4. CASE pc'[r] = "refused"
  <2>1. Status(r)' = "failed" /\ Wanted(r)' = {}
    BY <1>4, StatusOfPrimed DEF IInv, Wanted
  <2>2. Abstract!Fail(r)
    BY <1>1, <1>2, <1>3, <2>1 DEF Abstract!Fail
  <2>. QED
    BY <2>2 DEF Abstract!Next
<1>5. CASE pc'[r] \in {"respond", "select"}
  <2>1. Status(r)' = "open" /\ Wanted(r)' \in SUBSET Ids
    BY <1>5, StatusOfPrimed DEF IInv
  <2>2. Abstract!Submit(r)
    BY <1>1, <1>2, <1>3, <2>1 DEF Abstract!Submit
  <2>. QED
    BY <2>2 DEF Abstract!Next
<1>. QED
  BY <1>1, <1>4, <1>5

\* The answer is the abstract answer: all that the request wanted is stored.
LEMMA RespondRefines ==
  ASSUME IInv, IInv', NEW r \in Requests, Respond(r)
  PROVE  Abstract!Next
<1>1. /\ pc[r] = "respond" /\ pc'[r] = "answered"
      /\ reply'[r].accepted = Cardinality(Owned(r))
      /\ UNCHANGED <<rows, owner, batch>>
  BY CountsType DEF Respond, Goto, IInv, TypeOK, Counted
<1>2. \A q \in Requests \ {r} : /\ Status(q)' = Status(q)
                                /\ Wanted(q)' = Wanted(q)
                                /\ reply'[q] = reply[q]
  BY OthersUnchanged DEF Handle
<1>3. /\ Status(r) = "open" /\ Status(r)' = "answered"
      /\ Wanted(r)' = Wanted(r)
  BY <1>1, StatusOf, StatusOfPrimed DEF IInv, Wanted
<1>4. \A id \in Wanted(r) : rows[id] # NoRow
  BY <1>1, ValidIdsStored DEF IInv, Wanted, Stored
<1>5. \A T : Abstract!Cardinality(T) = Cardinality(T)
  BY Zenon DEF Abstract!Cardinality, Cardinality
<1>6. Abstract!Answer(r)
  BY <1>1, <1>2, <1>3, <1>4, <1>5 DEF Abstract!Answer, Abstract!Owned, Owned
<1>. QED
  BY <1>6 DEF Abstract!Next

\* A failed statement is the abstract failure.
LEMMA AbortRefines ==
  ASSUME IInv, IInv', NEW r \in Requests, Abort(r)
  PROVE  Abstract!Next
<1>1. /\ pc[r] \in {"select", "insert", "row", "add", "respond"}
      /\ pc'[r] = "failed"
      /\ UNCHANGED <<rows, owner, batch, reply>>
  BY DEF Abort, Goto, IInv, TypeOK
<1>2. \A q \in Requests \ {r} : /\ Status(q)' = Status(q)
                                /\ Wanted(q)' = Wanted(q)
                                /\ reply'[q] = reply[q]
  BY OthersUnchanged
<1>3. /\ Status(r) = "open" /\ Status(r)' = "failed"
      /\ Wanted(r)' = Wanted(r)
  BY <1>1, StatusOf, StatusOfPrimed DEF IInv, Wanted
<1>4. Abstract!Fail(r)
  BY <1>1, <1>2, <1>3 DEF Abstract!Fail
<1>. QED
  BY <1>4 DEF Abstract!Next

\* A step of the handler is an abstract one or changes nothing there.
LEMMA HandleRefines ==
  ASSUME IInv, IInv', NEW r \in Requests, Handle(r)
  PROVE  [Abstract!Next]_(Abstract!vars)
<1>1. CASE SelectExisting(r) \/ InsertAllConflict(r) \/ GetRow(r) \/ RowsDone(r)
  <2>1. /\ UNCHANGED <<rows, owner, batch, reply>>
        /\ pc'[r] \in {"select", "insert", "row", "add", "respond"}
    BY <1>1 DEF SelectExisting, InsertAllConflict, GetRow, RowsDone, Goto, IInv, TypeOK
  <2>. QED
    BY <2>1, StutterStep
<1>2. CASE InsertAll(r)
  <2>1. /\ Commit(r, todo[r]) /\ pc[r] = "insert" /\ pc'[r] = "respond"
        /\ UNCHANGED <<batch, reply>>
        /\ todo[r] \in SUBSET Unique(batch[r])
    BY <1>2 DEF InsertAll, Goto, IInv, TypeOK, TodoUnique
  <2>. QED
    BY <2>1, CommitIsStore
<1>3. CASE AddRow(r)
  <2>1. {First(todo[r])} \in SUBSET Unique(batch[r])
    <3>1. /\ todo[r] \in SUBSET Nat /\ todo[r] # {}
          /\ todo[r] \subseteq Unique(batch[r])
      BY <1>3 DEF AddRow, IInv, TypeOK, TodoUnique
    <3>. QED
      BY <3>1, FirstIn
  <2>2. /\ pc[r] = "add" /\ pc'[r] = "row"
        /\ UNCHANGED <<batch, reply>>
        /\ Commit(r, {First(todo[r])}) \/ UNCHANGED <<rows, owner>>
    BY <1>3 DEF AddRow, Goto, IInv, TypeOK
  <2>. QED
    BY <2>1, <2>2, CommitIsStore, StutterStep
<1>4. CASE Respond(r)
  BY <1>4, RespondRefines
<1>. QED
  BY <1>1, <1>2, <1>3, <1>4 DEF Handle

\* So does every step.
LEMMA RefinesStep == IInv /\ IInv' /\ [Next]_vars => [Abstract!Next]_(Abstract!vars)
<1>. SUFFICES ASSUME IInv, IInv', [Next]_vars
              PROVE  [Abstract!Next]_(Abstract!vars)
  OBVIOUS
<1>1. CASE Next
  BY <1>1, ReceiveRefines, HandleRefines, AbortRefines DEF Next
<1>2. CASE UNCHANGED vars
  <2>1. UNCHANGED <<rows, owner, pc, batch, reply>>
    BY <1>2 DEF vars
  <2>2. \A q \in Requests : Status(q)' = Status(q) /\ Wanted(q)' = Wanted(q)
    BY <2>1 DEF Status, Wanted
  <2>. QED
    BY <2>1, <2>2 DEF Abstract!vars
<1>. QED
  BY <1>1, <1>2

\* The concurrent handler of POST /events/ingest implements EventStore: rows
\* appear once and stay, an answer means every event is stored, and it claims
\* exactly the rows of its request.
THEOREM IngestImplementsEventStore == Spec => ImplementsEventStore
<1>. QED
  BY RefinesInit, RefinesStep, Invariance, PTL DEF Spec, ImplementsEventStore, Abstract!Spec

===============================================================================
