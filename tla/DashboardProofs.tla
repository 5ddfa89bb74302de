---------------------------- MODULE DashboardProofs ----------------------------
(***************************************************************************)
(* Proofs about the browser's view, for any stores, requests and polls in  *)
(* flight: whose numbers the screen shows, and that it shows what one poll *)
(* saw.                                                                    *)
(***************************************************************************)
EXTENDS Dashboard, TLAPS

\* A poll is about one store, and what has answered is of a moment since it
\* started, as the tables tabs tell.
PollOf(poll, tabs) ==
  /\ poll \in [store : Stores, from : Nat, parts : [Parts -> Nat \cup {Waiting}]]
  /\ poll.from <= tabs[poll.store]
  /\ \A p \in Parts : poll.parts[p] # Waiting => poll.parts[p] \in poll.from..tabs[poll.store]

PollsInv ==
  /\ tables \in [Stores -> Nat] /\ storeId \in Stores /\ pending \in BOOLEAN
  /\ \A slot \in DOMAIN polls : PollOf(polls[slot], tables)

\* Once the effect has run, the polls under way and the screen are of the
\* selected store: the effect is what ends the others.
OwnInv ==
  ~pending => /\ \A slot \in DOMAIN polls : polls[slot].store = storeId
              /\ data # NoData => data.store = storeId

DashboardInv == PollsInv /\ OwnInv /\ SnapshotOfOnePoll

-------------------------------------------------------------------------------

\* What the tables have only grows, so that a poll stays what it was.
LEMMA PollStays ==
  ASSUME PollsInv, NEW poll, PollOf(poll, tables),
         tables' \in [Stores -> Nat], \A s \in Stores : tables[s] <= tables'[s]
  PROVE  PollOf(poll, tables')
<1>1. /\ poll.store \in Stores /\ tables[poll.store] \in Nat /\ tables'[poll.store] \in Nat
      /\ tables[poll.store] <= tables'[poll.store] /\ poll.from \in Nat
  BY DEF PollOf, PollsInv
<1>2. \A p \in Parts : poll.parts[p] # Waiting =>
        poll.parts[p] \in poll.from..tables[poll.store]
  BY DEF PollOf
<1> QED
  BY <1>1, <1>2 DEF PollOf

\* A poll starts for the selected store, and nothing has answered it.
LEMMA NewPollIsPoll ==
  ASSUME PollsInv
  PROVE  PollOf(NewPoll, tables) /\ NewPoll.store = storeId
BY DEF NewPoll, PollOf, PollsInv

\* Nothing has started yet.
LEMMA DashboardInit == Init => DashboardInv
BY DEF Init, DashboardInv, PollsInv, OwnInv, SnapshotOfOnePoll

\* The steps that end or abort nothing and show nothing.
LEMMA PollsGoOn ==
  ASSUME DashboardInv, UNCHANGED <<storeId, pending, data>>, tables' = tables,
         \A slot \in DOMAIN polls' : PollOf(polls'[slot], tables),
         ~pending => \A slot \in DOMAIN polls' : polls'[slot].store = storeId
  PROVE  DashboardInv'
<1>1. PollsInv'
  BY DEF DashboardInv, PollsInv
<1> QED
  BY <1>1 DEF DashboardInv, PollsInv, OwnInv, SnapshotOfOnePoll

\* An answer is of the moment at which it is given.
LEMMA AnswerKeeps ==
  ASSUME DashboardInv, NEW slot, NEW p \in Parts, Answer(slot, p)
  PROVE  DashboardInv'
<1> DEFINE poll == polls[slot]
           answered == [poll EXCEPT !.parts = [poll.parts EXCEPT ![p] = tables[poll.store]]]
<1>1. /\ slot \in DOMAIN polls /\ PollOf(poll, tables)
      /\ polls' = [polls EXCEPT ![slot].parts[p] = tables[polls[slot].store]]
      /\ UNCHANGED <<tables, storeId, pending, data>>
  BY DEF Answer, DashboardInv, PollsInv
<1>2. /\ DOMAIN polls' = DOMAIN polls /\ polls'[slot] = answered
      /\ \A other \in DOMAIN polls : other # slot => polls'[other] = polls[other]
  BY <1>1
<1>3. /\ poll \in [store : Stores, from : Nat, parts : [Parts -> Nat \cup {Waiting}]]
      /\ tables[poll.store] \in Nat /\ poll.from \in Nat /\ poll.from <= tables[poll.store]
      /\ \A q \in Parts : poll.parts[q] # Waiting => poll.parts[q] \in poll.from..tables[poll.store]
  BY <1>1 DEF PollOf, DashboardInv, PollsInv
<1>4. /\ answered.store = poll.store /\ answered.from = poll.from
      /\ answered.parts = [poll.parts EXCEPT ![p] = tables[poll.store]]
      /\ answered \in [store : Stores, from : Nat, parts : [Parts -> Nat \cup {Waiting}]]
  BY <1>3
<1>5. PollOf(answered, tables)
  <2> HIDE DEF answered, poll
  <2>1. \A q \in Parts : answered.parts[q] # Waiting =>
          answered.parts[q] \in answered.from..tables[answered.store]
    BY <1>3, <1>4
  <2> QED
    BY <2>1, <1>3, <1>4 DEF PollOf
<1> HIDE DEF answered, poll
<1>6. \A other \in DOMAIN polls' : PollOf(polls'[other], tables)
  BY <1>2, <1>5 DEF DashboardInv, PollsInv
<1>7. ~pending => \A other \in DOMAIN polls' : polls'[other].store = storeId
  BY <1>1, <1>2, <1>4 DEF DashboardInv, OwnInv, poll
<1> QED
  BY <1>1, <1>6, <1>7, PollsGoOn

\* A poll that has all its answers is shown, and is about the selected store
\* unless an effect is still to run.
LEMMA ResolveKeeps ==
  ASSUME DashboardInv, NEW slot, Resolve(slot)
  PROVE  DashboardInv'
<1> DEFINE poll == polls[slot]
<1>1. /\ slot \in DOMAIN polls /\ PollOf(poll, tables) /\ \A p \in Parts : poll.parts[p] # Waiting
      /\ data' = Snapshot(poll) /\ polls' = Without(slot)
      /\ UNCHANGED <<tables, storeId, pending>>
  BY DEF Resolve, DashboardInv, PollsInv
<1>2. DOMAIN polls' \subseteq DOMAIN polls /\ \A other \in DOMAIN polls' : polls'[other] = polls[other]
  BY <1>1 DEF Without
<1>3. PollsInv'
  BY <1>1, <1>2 DEF DashboardInv, PollsInv, PollOf
<1>4. OwnInv'
  BY <1>1, <1>2 DEF DashboardInv, OwnInv, Snapshot
<1>5. SnapshotOfOnePoll'
  BY <1>1 DEF SnapshotOfOnePoll, Snapshot, PollOf
<1> QED
  BY <1>3, <1>4, <1>5 DEF DashboardInv

\* Every step keeps the invariant.
LEMMA DashboardStep == DashboardInv /\ [Next]_vars => DashboardInv'
<1> SUFFICES ASSUME DashboardInv, [Next]_vars PROVE DashboardInv'
  OBVIOUS
<1>1. PollsInv /\ OwnInv /\ SnapshotOfOnePoll
  BY DEF DashboardInv
<1>2. ASSUME NEW s \in Stores, Ingest(s) PROVE DashboardInv'
  <2>1. /\ tables' = [tables EXCEPT ![s] = @ + 1]
        /\ UNCHANGED <<storeId, pending, polls, data>>
    BY <1>2 DEF Ingest
  <2>2. tables' \in [Stores -> Nat] /\ \A u \in Stores : tables[u] <= tables'[u]
    BY <2>1, <1>1 DEF PollsInv
  <2>3. \A slot \in DOMAIN polls : PollOf(polls[slot], tables')
    BY <2>2, <1>1, PollStays DEF PollsInv
  <2>4. PollsInv'
    BY <2>1, <2>2, <2>3, <1>1 DEF PollsInv
  <2> QED
    BY <2>1, <2>4, <1>1 DEF DashboardInv, OwnInv, SnapshotOfOnePoll
<1>3. ASSUME NEW s \in Stores, Select(s) PROVE DashboardInv'
  <2>1. storeId' = s /\ pending' = TRUE /\ UNCHANGED <<tables, polls, data>>
    BY <1>3 DEF Select
  <2>2. PollsInv'
    BY <2>1, <1>1 DEF PollsInv, PollOf
  <2> QED
    BY <2>1, <2>2, <1>1 DEF DashboardInv, OwnInv, SnapshotOfOnePoll
<1>4. CASE RunEffect
  <2>1. /\ pending' = FALSE /\ data' = NoData /\ UNCHANGED <<tables, storeId>>
        /\ \E slot \in Slots : polls' = [s \in {slot} |-> NewPoll]
    BY <1>4 DEF RunEffect
  <2>2. \A slot \in DOMAIN polls' : polls'[slot] = NewPoll
    BY <2>1
  <2>3. \A slot \in DOMAIN polls' : PollOf(polls'[slot], tables) /\ polls'[slot].store = storeId
    BY <2>2, <1>1, NewPollIsPoll
  <2>4. PollsInv'
    BY <2>1, <2>3, <1>1 DEF PollsInv, PollOf
  <2> QED
    BY <2>1, <2>3, <2>4 DEF DashboardInv, OwnInv, SnapshotOfOnePoll
<1>5. CASE Tick
  <2>1. UNCHANGED <<tables, storeId, pending, data>>
    BY <1>5 DEF Tick
  <2>2. PICK new \in Slots \ DOMAIN polls :
          polls' = [s \in DOMAIN polls \cup {new} |-> IF s = new THEN NewPoll ELSE polls[s]]
    BY <1>5 DEF Tick
  <2>3. \A slot \in DOMAIN polls' :
          polls'[slot] = NewPoll \/ (slot \in DOMAIN polls /\ polls'[slot] = polls[slot])
    BY <2>2
  <2>4. \A slot \in DOMAIN polls' : PollOf(polls'[slot], tables)
    BY <2>2, <2>3, <1>1, NewPollIsPoll DEF PollsInv
  <2>5. ~pending => \A slot \in DOMAIN polls' : polls'[slot].store = storeId
    BY <2>2, <2>3, <1>1, NewPollIsPoll DEF OwnInv
  <2> QED
    BY <2>1, <2>4, <2>5, PollsGoOn
<1>6. ASSUME NEW slot \in Slots, NEW p \in Parts, Answer(slot, p) PROVE DashboardInv'
  BY <1>6, AnswerKeeps
<1>7. ASSUME NEW slot \in Slots, Fail(slot) PROVE DashboardInv'
  <2>1. polls' = Without(slot) /\ UNCHANGED <<tables, storeId, pending, data>>
    BY <1>7 DEF Fail
  <2>2. \A s \in DOMAIN polls' : s \in DOMAIN polls /\ polls'[s] = polls[s]
    BY <2>1 DEF Without
  <2>3. \A s \in DOMAIN polls' : PollOf(polls'[s], tables)
    BY <2>2, <1>1 DEF PollsInv
  <2>4. ~pending => \A s \in DOMAIN polls' : polls'[s].store = storeId
    BY <2>2, <1>1 DEF OwnInv
  <2> QED
    BY <2>1, <2>3, <2>4, PollsGoOn
<1>8. ASSUME NEW slot \in Slots, Resolve(slot) PROVE DashboardInv'
  BY <1>8, ResolveKeeps
<1>9. CASE UNCHANGED vars
  BY <1>9, <1>1 DEF vars, DashboardInv, PollsInv, PollOf, OwnInv, SnapshotOfOnePoll
<1> QED
  BY <1>2, <1>3, <1>4, <1>5, <1>6, <1>7, <1>8, <1>9 DEF Next

\* Once the effect has run, the numbers on the screen are those of the store in
\* the header, whatever was under way when the store changed.
THEOREM OnlyTheSelectedStore == Spec => []OwnStoreOnly
<1>1. DashboardInv => OwnStoreOnly
  BY DEF DashboardInv, OwnInv, OwnStoreOnly
<1> QED
  BY <1>1, DashboardInit, DashboardStep, PTL DEF Spec

\* Every part of the screen is of a moment between the start and the end of the
\* one poll that it shows.
THEOREM OnePollAtATime == Spec => []SnapshotOfOnePoll
<1>1. DashboardInv => SnapshotOfOnePoll
  BY DEF DashboardInv
<1> QED
  BY <1>1, DashboardInit, DashboardStep, PTL DEF Spec

===============================================================================
