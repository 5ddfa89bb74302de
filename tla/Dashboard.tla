------------------------------- MODULE Dashboard -------------------------------
(***************************************************************************)
(* The browser's view of one store (frontend/src/hooks/usePolling.ts,      *)
(* api/client.ts, App.tsx).  A poll is some requests in parallel, each of  *)
(* which the API answers from the tables as they are then; it shows its    *)
(* snapshot once all have answered.  An interval starts polls whether or   *)
(* not the ones before have ended.                                         *)
(*                                                                         *)
(* A render takes the selected store into the header and into the fetcher; *)
(* the effect that aborts the polls of the old store runs after it, and    *)
(* anything may happen between the two.                                    *)
(***************************************************************************)
EXTENDS Integers, FiniteSets

CONSTANTS
  Stores,        \* the stores of the switcher
  Parts,         \* the requests of a poll
  Slots,         \* names for polls in flight; bounds how many there are
  NoData,        \* nothing is shown
  MaxVersion,    \* bound on the changes of a store's tables
  MaxSwitches,   \* bound on the changes of the selected store
  MaxFailures    \* bound on the polls that fail

ASSUME DashboardAssumption ==
  /\ {MaxVersion, MaxSwitches, MaxFailures} \subseteq Nat
  /\ NoData \notin [store : Stores, parts : [Parts -> Nat], from : Nat, upTo : Nat]

VARIABLES
  tables,    \* the version of each store's tables
  storeId,   \* the store in the header, which is the one the fetcher asks for
  pending,   \* the effect of the last change of the store has not run yet
  polling,   \* an effect has run: there is an interval
  polls,     \* the polls in flight that are not aborted: [slot -> poll]
  data,      \* the snapshot on the screen
  error,     \* the banner is on the screen
  switches, failures

vars == <<tables, storeId, pending, polling, polls, data, error, switches, failures>>

Waiting == -1

\* A poll that has started: from is the version of the tables at its start.
NewPoll ==
  [store |-> storeId, from |-> tables[storeId], parts |-> [p \in Parts |-> Waiting]]

Without(slot) == [s \in DOMAIN polls \ {slot} |-> polls[s]]

-------------------------------------------------------------------------------

Init ==
  /\ tables = [s \in Stores |-> 0]
  /\ storeId \in Stores
  /\ pending = TRUE /\ polling = FALSE
  /\ polls = <<>> /\ data = NoData /\ error = FALSE
  /\ switches = 0 /\ failures = 0

\* Events of a store arrive.
Ingest(s) ==
  /\ tables[s] < MaxVersion
  /\ tables' = [tables EXCEPT ![s] = @ + 1]
  /\ UNCHANGED <<storeId, pending, polling, polls, data, error, switches, failures>>

\* The user selects another store, or the list of stores lacks the default one:
\* it renders at once.
Select(s) ==
  /\ s # storeId /\ switches < MaxSwitches
  /\ storeId' = s
  /\ pending' = TRUE
  /\ switches' = switches + 1
  /\ UNCHANGED <<tables, polling, polls, data, error, failures>>

\* Mutant: the polls of the old store are not aborted.
RunEffect_NoAbort ==
  /\ pending
  /\ pending' = FALSE /\ polling' = TRUE
  /\ data' = NoData /\ error' = FALSE
  /\ \E slot \in Slots \ DOMAIN polls :
       polls' = [s \in DOMAIN polls \cup {slot} |-> IF s = slot THEN NewPoll ELSE polls[s]]
  /\ UNCHANGED <<tables, storeId, switches, failures>>

\* Cleanup of the old effect, which aborts its polls and ends its interval, then
\* the new one: the view is reset and the first poll starts.
RunEffect ==
  /\ pending
  /\ pending' = FALSE /\ polling' = TRUE
  /\ data' = NoData /\ error' = FALSE
  /\ \E slot \in Slots : polls' = [s \in {slot} |-> NewPoll]
  /\ UNCHANGED <<tables, storeId, switches, failures>>

\* The interval starts another poll, with the fetcher of the last render.
Tick ==
  /\ polling
  /\ \E slot \in Slots \ DOMAIN polls :
       polls' = [s \in DOMAIN polls \cup {slot} |-> IF s = slot THEN NewPoll ELSE polls[s]]
  /\ UNCHANGED <<tables, storeId, pending, polling, data, error, switches, failures>>

\* The API answers one request of a poll.
Answer(slot, p) ==
  /\ slot \in DOMAIN polls /\ polls[slot].parts[p] = Waiting
  /\ polls' = [polls EXCEPT ![slot].parts[p] = tables[polls[slot].store]]
  /\ UNCHANGED <<tables, storeId, pending, polling, data, error, switches, failures>>

\* A request of a poll fails, and the poll with it: the last snapshot stays.
Fail(slot) ==
  /\ slot \in DOMAIN polls /\ failures < MaxFailures
  /\ \E p \in Parts : polls[slot].parts[p] = Waiting
  /\ polls' = Without(slot)
  /\ error' = TRUE
  /\ failures' = failures + 1
  /\ UNCHANGED <<tables, storeId, pending, polling, data, switches>>

Snapshot(poll) ==
  [store |-> poll.store, parts |-> poll.parts, from |-> poll.from,
   upTo |-> tables[poll.store]]

\* Mutant: what has not answered is taken from the snapshot on the screen.
Resolve_Partial(slot) ==
  /\ slot \in DOMAIN polls
  /\ LET poll == polls[slot]
         merged == [p \in Parts |-> IF poll.parts[p] # Waiting \/ data = NoData
                                    THEN poll.parts[p] ELSE data.parts[p]]
     IN /\ \A p \in Parts : merged[p] # Waiting
        /\ data' = Snapshot([poll EXCEPT !.parts = merged])
  /\ polls' = Without(slot)
  /\ error' = FALSE
  /\ UNCHANGED <<tables, storeId, pending, polling, switches, failures>>

\* Mutant: the banner is not taken down.
Resolve_KeepsError(slot) ==
  /\ slot \in DOMAIN polls
  /\ \A p \in Parts : polls[slot].parts[p] # Waiting
  /\ data' = Snapshot(polls[slot])
  /\ polls' = Without(slot)
  /\ UNCHANGED <<tables, storeId, pending, polling, error, switches, failures>>

\* All requests of a poll have answered: its snapshot is shown.
Resolve(slot) ==
  /\ slot \in DOMAIN polls
  /\ \A p \in Parts : polls[slot].parts[p] # Waiting
  /\ data' = Snapshot(polls[slot])
  /\ polls' = Without(slot)
  /\ error' = FALSE
  /\ UNCHANGED <<tables, storeId, pending, polling, switches, failures>>

Next ==
  \/ \E s \in Stores : Ingest(s)
  \/ \E s \in Stores : Select(s)
  \/ RunEffect
  \/ Tick
  \/ \E slot \in Slots, p \in Parts : Answer(slot, p)
  \/ \E slot \in Slots : Fail(slot)
  \/ \E slot \in Slots : Resolve(slot)

\* React runs the effect, the browser the timer; a request is answered in the end.
Fairness ==
  /\ WF_vars(RunEffect)
  /\ WF_vars(Tick)
  /\ \A slot \in Slots : WF_vars(Resolve(slot)) /\ \A p \in Parts : WF_vars(Answer(slot, p))

Spec == Init /\ [][Next]_vars /\ Fairness

-------------------------------------------------------------------------------
(* Properties *)

\* Once the effect has run, "we never show the previous store's numbers under
\* the new store's header", not even from a poll that was under way.
OwnStoreOnly == data # NoData /\ ~pending => data.store = storeId

\* The screen shows what one poll saw: each part is of a moment between the start
\* and the end of it, so that the parts disagree only by what arrived meanwhile.
SnapshotOfOnePoll ==
  data # NoData => \A p \in Parts : data.parts[p] \in data.from..data.upTo

\* When events stop to arrive and polls to fail, the screen comes to show the
\* tables of the selected store as they are, without a banner, and keeps to it,
\* although a late answer of an older poll may take it back for a while.
Settled ==
  /\ data # NoData /\ ~error
  /\ data.store = storeId
  /\ \A p \in Parts : data.parts[p] = tables[storeId]
SettlesOnTheTables == <>[]Settled

===============================================================================
