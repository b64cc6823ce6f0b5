----------------------- MODULE ScalpingMonitorProofs -----------------------
(***************************************************************************)
(* That the scalping risk monitor exits a leg once, never sells a position *)
(* twice, clears a stop only with its position, and at rest watches every  *)
(* stop that is stored and is fed every stop that it watches: for any      *)
(* number of symbols, products, requests, exit workers, lost connections,  *)
(* calls that time out, failures, restarts and changes of the mode.        *)
(***************************************************************************)
EXTENDS ScalpingMonitor, TLAPS

Call == [op : {"subscribe", "unsubscribe"}, syms : SUBSET Symbol]
LoopState == [pc : {"idle", "tick", "auth", "auth_wait", "auth_subscribed"}, syms : SUBSET Symbol]
Stop == [save : 0 .. Ghost, mode : Mode]
SyncState ==
    [pending : BOOLEAN,
     pc : {"off", "wake", "read", "store", "ensure", "diff", "subscribe", "subscribed",
           "unsubscribe", "unsubscribed"},
     rows : [Leg -> Stop], mode : Mode,
     wanted : SUBSET Symbol, add : SUBSET Symbol, remove : SUBSET Symbol]
Busy == [pc : {"guard", "read", "exit", "delete", "clear", "unsubscribe", "end"},
         leg : Leg, mode : Mode, qty : Int]

TableTypes ==
    /\ mode \in Mode
    /\ row \in [Leg -> [Mode -> 0 .. Ghost]]
    /\ state \in [Leg -> Stop]
    /\ client \in [Client -> {"idle", "notify"}]
    /\ counts \in [requests : 0 .. MaxRequests, events : Nat]

FeedTypes ==
    /\ subscribed \in SUBSET Symbol /\ feed \in SUBSET Symbol
    /\ late \in Seq(Call)
    /\ loop \in LoopState

ExitTypes ==
    /\ lock \in Worker \cup {"none"}
    /\ inflight \in SUBSET Leg
    /\ worker \in [Worker -> Busy \cup {NoWorker}]
    /\ net \in [Leg -> Int] /\ resting \in [Leg -> Int]

Typed == TableTypes /\ FeedTypes /\ sync \in SyncState /\ ExitTypes

\* The exits under way are of different legs, and _exit_inflight has those legs.
Single ==
    /\ \A x, y \in Worker : worker[x] # NoWorker /\ worker[y] # NoWorker /\ worker[x].leg = worker[y].leg => x = y
    /\ inflight = {worker[x].leg : x \in Worker \ Free}

\* The lock is held by the worker that is about to drop its symbol, which no
\* stop in memory needs.
Holder(x) ==
    /\ lock = x <=> At(x, "unsubscribe")
    /\ At(x, "unsubscribe") => worker[x].leg[1] \notin Symbols(Loaded)

\* An exit that has passed its guard is in the mode there is, and sells what there
\* is, of a leg whose book nobody else has moved and that has nothing on order.
Sized(x) ==
    /\ worker[x].pc \in {"read", "exit"} => worker[x].mode = mode
    /\ At(x, "exit") /\ mode = "analyze" /\ worker[x].leg \notin stale
          => worker[x].qty = net[worker[x].leg] /\ resting[worker[x].leg] = 0

\* Books were read and splits were placed: a stop is about to be cleared with its
\* position flat or on order.
Flat(x) ==
    failed \cap {"book", "split"} = {} /\ At(x, "delete") => Closed(x)

Covered == \A l \in Leg \ stale : resting[l] \in 0 .. net[l]

Sells == Covered /\ \A x \in Worker : Sized(x) /\ Flat(x)

Sold == crossed \/ Sells

Inv == Typed /\ Single /\ (\A x \in Worker : Holder(x)) /\ Sold

-----------------------------------------------------------------------------
(* Types.                                                                  *)

LEMMA Numbers == MaxRequests \in Nat /\ Ghost \in Nat /\ MaxRequests < Ghost /\ Old \in 0 .. Ghost /\ Mode # {}
BY MonitorAssumption DEF MonitorAssumption, Ghost, Old, Mode

LEMMA LegSymbol == \A l \in Leg : l[1] \in Symbol
BY DEF Leg

LEMMA SymbolsOf == \A legs \in SUBSET Leg : Symbols(legs) \in SUBSET Symbol
BY LegSymbol DEF Symbols

LEMMA LoadedIn == Loaded \in SUBSET Leg
BY DEF Loaded

LEMMA Resting == NoWorker.pc = "off" /\ NoWorker \notin Busy /\ \A w \in Busy : w.pc # "off"
BY DEF NoWorker, Busy

LEMMA NoSyncType == NoSync \in SyncState /\ Booted \in SyncState /\ (sync \in SyncState => Done \in SyncState)
<1>1. [l \in Leg |-> NoState] \in [Leg -> Stop]
  BY Numbers DEF NoState, Mode, Stop
<1>2. NoSync \in SyncState
  BY <1>1 DEF NoSync, SyncState, Mode
<1>3. Booted \in SyncState
  BY <1>2 DEF Booted, SyncState
<1>4. ASSUME sync \in SyncState PROVE Done \in SyncState
  BY <1>2, <1>4 DEF Done, SyncState
<1> QED
  BY <1>2, <1>3, <1>4

LEMMA NoStateType == NoState \in Stop
BY Numbers DEF NoState, Mode, Stop

Counts == [requests : 0 .. MaxRequests, events : Nat]

LEMMA CountsType ==
    /\ counts \in Counts => [counts EXCEPT !.events = @ + 1] \in Counts
    /\ counts \in Counts /\ counts.requests < MaxRequests =>
          /\ counts.requests + 1 \in 0 .. Ghost
          /\ [counts EXCEPT !.requests = @ + 1] \in Counts
BY Numbers DEF Counts

LEMMA InitTyped == Init => Typed
<1> SUFFICES ASSUME Init PROVE Typed
  OBVIOUS
<1>1. TableTypes
  <2>1. row \in [Leg -> [Mode -> 0 .. Ghost]]
    BY Numbers DEF Init
  <2>2. state \in [Leg -> Stop]
    BY NoStateType DEF Init
  <2> QED
    BY <2>1, <2>2, Numbers DEF Init, TableTypes, Mode
<1>2. FeedTypes
  BY DEF Init, FeedTypes, LoopState, Idle
<1>3. ExitTypes
  BY DEF Init, ExitTypes
<1> QED
  BY <1>1, <1>2, <1>3, NoSyncType DEF Init, Typed

\* Types of the tables.
LEMMA TableNext == Typed /\ [Next]_vars => TableTypes'
<1> SUFFICES ASSUME Typed, [Next]_vars PROVE TableTypes'
  OBVIOUS
<1> USE DEF TableTypes, Typed
<1>0. counts \in Counts /\ (counts' \in Counts => counts' \in [requests : 0 .. MaxRequests, events : Nat])
  BY DEF Counts
<1>1. ASSUME NEW c \in Client, NEW l \in Leg, Save(c, l) \/ Delete(c, l) PROVE TableTypes'
  <2>1. counts' \in Counts /\ counts.requests + 1 \in 0 .. Ghost
    BY <1>0, <1>1, CountsType DEF Save, Delete
  <2>2. row' \in [Leg -> [Mode -> 0 .. Ghost]]
    <3>1. CASE Save(c, l)
      BY <3>1, <2>1 DEF Save
    <3>2. CASE Delete(c, l)
      BY <3>2, Numbers DEF Delete
    <3> QED
      BY <1>1, <3>1, <3>2
  <2> QED
    BY <1>0, <1>1, <2>1, <2>2 DEF Save, Delete
<1>2. ASSUME NEW c \in Client, Notify(c) PROVE TableTypes'
  BY <1>2 DEF Notify, table, past
<1>3. CASE SyncStore
  <2>1. state' \in [Leg -> Stop]
    BY <1>3 DEF SyncStore, SyncState
  <2> QED
    BY <1>3, <2>1 DEF SyncStore, table, past
<1>4. CASE Sync /\ ~SyncStore
  <2>1. UNCHANGED <<mode, row, state, client>>
    BY <1>4 DEF Sync, SyncWake, SyncRead, SyncEnsure, SyncDiff, SyncSubscribe, SyncSubscribed,
       SyncUnsubscribe, SyncUnsubscribed, table
  <2>2. counts' \in Counts
    BY <1>0, <1>4, CountsType DEF Sync, SyncWake, SyncRead, SyncEnsure, SyncDiff, SyncSubscribe, SyncSubscribed,
       SyncUnsubscribe, SyncUnsubscribed, SyncCalled, Called, Answered, TimedOut, Fails, Happens, past
  <2> QED
    BY <1>0, <2>1, <2>2
<1>5. CASE Tick
  <2>1. row' \in [Leg -> [Mode -> 0 .. Ghost]]
    BY <1>5, Numbers DEF Tick, Stop
  <2>2. counts' \in Counts
    BY <1>0, <1>5, CountsType DEF Tick, Fails, Happens, past
  <2> QED
    BY <1>0, <1>5, <2>1, <2>2 DEF Tick
<1>6. CASE Callback /\ ~Tick
  BY <1>6 DEF Callback, Auth, AuthSubscribe, AuthSubscribed, LateCall, TimedOut, table, past
<1>7. ASSUME NEW s \in Symbol, TickArrives(s) PROVE TableTypes'
  BY <1>7 DEF TickArrives, table, past
<1>8. ASSUME NEW x \in Worker, ExitLeg(x) PROVE TableTypes'
  <2>1. CASE DeleteRow(x)
    BY <1>8, <2>1, Numbers DEF DeleteRow, ExitTypes, At, Busy, NoWorker
  <2>2. CASE Clear(x)
    <3>1. state' = [state EXCEPT ![worker[x].leg] = NoState] /\ UNCHANGED <<mode, row, client, counts>>
      BY <2>2 DEF Clear, table
    <3> QED
      BY <3>1, NoStateType
  <2>3. CASE Guard(x) \/ ReadBook(x) \/ Exit(x) \/ Unsubscribe(x) \/ EndExit(x)
    <3>1. UNCHANGED <<mode, row, state, client>>
      BY <2>3 DEF Guard, ReadBook, Exit, Unsubscribe, EndExit, table
    <3>2. counts' \in Counts
      BY <1>0, <2>3, CountsType DEF Guard, ReadBook, Exit, Unsubscribe, EndExit, Called, Answered, TimedOut, Fails, Happens, past
    <3> QED
      BY <1>0, <3>1, <3>2
  <2> QED
    BY <1>8, <2>1, <2>2, <2>3 DEF ExitLeg
<1>9. CASE Reconnect
  BY <1>0, <1>9, CountsType DEF Reconnect, Happens, table
<1>10. CASE Toggle
  BY <1>0, <1>10, CountsType DEF Toggle
<1>11. CASE Restart
  BY <1>0, <1>11, CountsType, NoStateType DEF Restart, Fails, Happens, table
<1>13. ASSUME NEW l \in Leg, Fill(l) \/ Dropped(l) \/ UserTrades(l) PROVE TableTypes'
  BY <1>0, <1>13, CountsType DEF Fill, Dropped, UserTrades, Happens, table, past
<1>12. CASE UNCHANGED vars
  BY <1>12 DEF vars, table, past
<1> QED
  BY <1>1, <1>2, <1>3, <1>4, <1>5, <1>6, <1>7, <1>8, <1>9, <1>10, <1>11, <1>12, <1>13 DEF Next

\* Types of the feed.  A call that nobody waits for is a call.
LEMMA CallType ==
    ASSUME Typed, NEW op \in {"subscribe", "unsubscribe"}, NEW syms \in SUBSET Symbol, Called(op, syms)
    PROVE  feed' \in SUBSET Symbol /\ late' \in Seq(Call)
<1>1. CASE Answered(op, syms)
  BY <1>1 DEF Answered, Send, Typed, FeedTypes
<1>2. CASE TimedOut(op, syms)
  <2>1. [op |-> op, syms |-> syms] \in Call
    BY DEF Call
  <2> QED
    BY <1>2, <2>1 DEF TimedOut, Typed, FeedTypes
<1> QED
  BY <1>1, <1>2 DEF Called

LEMMA FeedNext == Typed /\ [Next]_vars => FeedTypes'
<1> SUFFICES ASSUME Typed, [Next]_vars PROVE FeedTypes'
  OBVIOUS
<1>0. FeedTypes /\ sync \in SyncState /\ ExitTypes
  BY DEF Typed
<1>1. ASSUME UNCHANGED <<link, loop>> PROVE FeedTypes'
  BY <1>0, <1>1 DEF FeedTypes, link
<1>2. CASE SyncSubscribe \/ SyncUnsubscribe
  <2>1. feed' \in SUBSET Symbol /\ late' \in Seq(Call) /\ UNCHANGED <<subscribed, loop>>
    BY <1>0, <1>2, CallType DEF SyncSubscribe, SyncUnsubscribe, SyncCalled, SyncState
  <2> QED
    BY <1>0, <2>1 DEF FeedTypes
<1>3. CASE SyncSubscribed \/ SyncUnsubscribed
  BY <1>0, <1>3 DEF SyncSubscribed, SyncUnsubscribed, FeedTypes, SyncState
<1>4. CASE Sync /\ ~(SyncSubscribe \/ SyncUnsubscribe \/ SyncSubscribed \/ SyncUnsubscribed)
  BY <1>1, <1>4 DEF Sync, SyncWake, SyncRead, SyncStore, SyncEnsure, SyncDiff
<1>5. CASE Tick \/ \E s \in Symbol : TickArrives(s)
  BY <1>0, <1>5 DEF Tick, TickArrives, FeedTypes, LoopState, Idle, link
<1>6. CASE Auth \/ AuthSubscribed
  BY <1>0, <1>6 DEF Auth, AuthSubscribed, FeedTypes, LoopState, Idle
<1>7. CASE AuthSubscribe
  <2>1. feed' \in SUBSET Symbol /\ late' \in Seq(Call) /\ UNCHANGED subscribed
    BY <1>0, <1>7, CallType DEF AuthSubscribe, Called, FeedTypes, LoopState
  <2> QED
    BY <1>0, <1>7, <2>1 DEF AuthSubscribe, FeedTypes, LoopState
<1>8. CASE LateCall
  <2>1. Head(late) \in Call /\ Tail(late) \in Seq(Call)
    BY <1>0, <1>8 DEF LateCall, FeedTypes
  <2> QED
    BY <1>0, <1>8, <2>1 DEF LateCall, Send, FeedTypes, Call
<1>9. ASSUME NEW x \in Worker, ExitLeg(x) PROVE FeedTypes'
  <2>1. CASE Unsubscribe(x)
    <3>1. worker[x].leg[1] \in Symbol
      BY <1>0, <2>1, LegSymbol, Resting DEF Unsubscribe, At, ExitTypes, Busy
    <3>2. feed' \in SUBSET Symbol /\ late' \in Seq(Call)
      BY <2>1, <3>1, CallType DEF Unsubscribe
    <3> QED
      BY <1>0, <2>1, <3>2 DEF Unsubscribe, FeedTypes
  <2>2. CASE ~Unsubscribe(x)
    BY <1>1, <1>9, <2>2 DEF ExitLeg, Guard, ReadBook, Exit, DeleteRow, Clear, EndExit
  <2> QED
    BY <2>1, <2>2
<1>10. CASE Reconnect
  BY <1>0, <1>10 DEF Reconnect, FeedTypes, LoopState, Idle
<1>11. CASE Restart
  BY <1>0, <1>11 DEF Restart, FeedTypes, LoopState, Idle
<1>12. CASE Toggle \/ UNCHANGED vars \/ \E c \in Client : Notify(c) \/ \E l \in Leg : Save(c, l) \/ Delete(c, l)
  BY <1>1, <1>12 DEF Toggle, vars, Notify, Save, Delete
<1>13. CASE \E l \in Leg : Fill(l) \/ Dropped(l) \/ UserTrades(l)
  BY <1>1, <1>13 DEF Fill, Dropped, UserTrades
<1> QED
  BY <1>2, <1>3, <1>4, <1>5, <1>6, <1>7, <1>8, <1>9, <1>10, <1>11, <1>12, <1>13 DEF Next, Callback

-----------------------------------------------------------------------------
(* Exits: their types, and that a leg has one at most.                     *)

\* Who is somewhere in an exit is busy with a leg.
LEMMA AtBusy ==
    ASSUME Typed, NEW x \in Worker, worker[x].pc # "off"
    PROVE  worker[x] \in Busy /\ worker[x] # NoWorker
BY Resting DEF Typed, ExitTypes

\* A worker that goes on is the only one that changes, and keeps its leg and its mode.
Proceeds(x) ==
    /\ worker' \in [Worker -> Busy \cup {NoWorker}]
    /\ \A y \in Worker \ {x} : worker'[y] = worker[y]
    /\ worker[x] \in Busy /\ worker'[x] \in Busy
    /\ worker'[x].leg = worker[x].leg /\ worker'[x].mode = worker[x].mode

LEMMA GotoProceeds ==
    ASSUME Typed, NEW x \in Worker, worker[x] \in Busy,
           NEW pc \in {"read", "exit", "delete", "clear", "unsubscribe", "end"}, Goto(x, pc)
    PROVE  Proceeds(x) /\ worker'[x].pc = pc /\ worker'[x].qty = worker[x].qty
BY DEF Typed, ExitTypes, Goto, Busy, Proceeds

LEMMA ReadProceeds ==
    ASSUME Typed, NEW x \in Worker, ReadBook(x)
    PROVE  /\ Proceeds(x)
           /\ \/ At(x, "exit")'
              \/ At(x, "delete")' /\ (worker'[x].qty = 0)
<1>1. worker[x] \in Busy
  BY AtBusy DEF ReadBook, At
<1>2. PICK q \in Int : worker' = [worker EXCEPT ![x].qty = q, ![x].pc = IF q = 0 THEN "delete" ELSE "exit"]
  <2>1. net[worker[x].leg] \in Int
    BY <1>1 DEF Typed, ExitTypes, Busy
  <2>2. 0 \in Int /\ 1 \in Int
    OBVIOUS
  <2> DEFINE read(q) == worker' = [worker EXCEPT ![x].qty = q, ![x].pc = IF q = 0 THEN "delete" ELSE "exit"]
  <2>3. read(net[worker[x].leg]) \/ read(0) \/ read(1)
    BY DEF ReadBook
  <2> QED
    BY <2>1, <2>2, <2>3
<1>3. worker'[x] = [worker[x] EXCEPT !.qty = q, !.pc = IF q = 0 THEN "delete" ELSE "exit"]
  BY <1>2 DEF Typed, ExitTypes
<1>4. worker'[x] \in Busy /\ worker'[x].leg = worker[x].leg /\ worker'[x].mode = worker[x].mode
      /\ worker'[x].qty = q /\ worker'[x].pc = IF q = 0 THEN "delete" ELSE "exit"
  BY <1>1, <1>3 DEF Busy
<1> QED
  BY <1>1, <1>2, <1>4 DEF Typed, ExitTypes, Proceeds, At

\* An exit worker goes on or ends.
LEMMA ExitProceeds ==
    ASSUME Typed, NEW x \in Worker, ExitLeg(x), ~EndExit(x)
    PROVE  Proceeds(x)
<1>1. worker[x] \in Busy
  BY AtBusy DEF ExitLeg, Guard, ReadBook, Exit, DeleteRow, Clear, Unsubscribe, At
<1>2. CASE Guard(x) \/ Exit(x) \/ DeleteRow(x) \/ Clear(x) \/ Unsubscribe(x)
  <2>1. \E pc \in {"read", "exit", "delete", "clear", "unsubscribe", "end"} : Goto(x, pc)
    BY <1>2 DEF Guard, Exit, DeleteRow, Clear, Unsubscribe
  <2> QED
    BY <1>1, <2>1, GotoProceeds
<1>3. CASE ReadBook(x)
  BY <1>3, ReadProceeds
<1> QED
  BY <1>2, <1>3 DEF ExitLeg

LEMMA EndEffect ==
    ASSUME Typed, NEW x \in Worker, EndExit(x)
    PROVE  /\ worker[x] \in Busy /\ worker'[x] = NoWorker
           /\ \A y \in Worker \ {x} : worker'[y] = worker[y]
           /\ worker' \in [Worker -> Busy \cup {NoWorker}]
           /\ inflight' = inflight \ {worker[x].leg}
<1>1. worker[x] \in Busy
  BY AtBusy DEF EndExit, At
<1> QED
  BY <1>1 DEF EndExit, Typed, ExitTypes

\* A new exit.
LEMMA TurnsBusy ==
    ASSUME NEW P, NEW L, NEW M, NEW w \in [pc : P, leg : L, mode : M, qty : Int],
           NEW l \in Leg, NEW m \in Mode
    PROVE  [w EXCEPT !.pc = "guard", !.leg = l, !.mode = m] \in Busy
BY DEF Busy

LEMMA GuardBusy ==
    ASSUME NEW l \in Leg, NEW m \in Mode
    PROVE  [NoWorker EXCEPT !.pc = "guard", !.leg = l, !.mode = m] \in Busy
<1>1. NoWorker \in [pc : {"off"}, leg : {<< >>}, mode : {"analyze"}, qty : Int]
  BY DEF NoWorker
<1> QED
  BY <1>1, TurnsBusy

\* A dispatch gives each leg a free worker.
Dispatched(legs, f) ==
    /\ f \in [legs -> Free] /\ \A k, l \in legs : f[k] = f[l] => k = l
    /\ inflight' = inflight \cup legs
    /\ worker' \in [Worker -> Busy \cup {NoWorker}]
    /\ \A l \in legs : worker'[f[l]] = [NoWorker EXCEPT !.pc = "guard", !.leg = l, !.mode = state[l].mode]
    /\ \A y \in Worker : (\A l \in legs : f[l] # y) => worker'[y] = worker[y]

LEMMA StartEffect ==
    ASSUME Typed, NEW legs \in SUBSET Leg, Start(legs)
    PROVE  \E f : Dispatched(legs, f)
<1>1. PICK f \in Injection(legs, Free) :
        /\ inflight' = inflight \cup legs
        /\ worker' = [x \in Worker |->
               IF \E l \in legs : f[l] = x
               THEN LET l == CHOOSE l \in legs : f[l] = x IN
                    [NoWorker EXCEPT !.pc = "guard", !.leg = l, !.mode = state[l].mode]
               ELSE worker[x]]
  BY DEF Start
<1>2. f \in [legs -> Free] /\ \A k, l \in legs : f[k] = f[l] => k = l
  BY <1>1 DEF Injection, IsInjective
<1>3. \A x \in Worker : \A l \in legs : f[l] = x => (CHOOSE k \in legs : f[k] = x) = l
  BY <1>2
<1> DEFINE W(l) == [NoWorker EXCEPT !.pc = "guard", !.leg = l, !.mode = state[l].mode]
<1>4. \A x \in Worker : worker'[x] = IF \E l \in legs : f[l] = x THEN W(CHOOSE l \in legs : f[l] = x) ELSE worker[x]
  BY <1>1
<1>5. \A l \in legs : W(l) \in Busy
  <2> TAKE l \in legs
  <2>1. state[l].mode \in Mode
    BY DEF Typed, TableTypes, Stop
  <2> QED
    BY <2>1, GuardBusy
<1> HIDE DEF W
<1>6. \A l \in legs : f[l] \in Worker /\ worker'[f[l]] = W(l)
  BY <1>2, <1>3, <1>4 DEF Free
<1>7. \A y \in Worker : (\A l \in legs : f[l] # y) => worker'[y] = worker[y]
  BY <1>4
<1>8. worker' \in [Worker -> Busy \cup {NoWorker}]
  <2>1. \A x \in Worker : worker'[x] \in Busy \cup {NoWorker}
    <3> TAKE x \in Worker
    <3>1. CASE \E l \in legs : f[l] = x
      BY <3>1, <1>5, <1>6
    <3>2. CASE ~\E l \in legs : f[l] = x
      BY <3>2, <1>7 DEF Typed, ExitTypes
    <3> QED
      BY <3>1, <3>2
  <2>2. worker' = [x \in Worker |-> worker'[x]]
    BY <1>1
  <2> QED
    BY <2>1, <2>2
<1> QED
  BY <1>1, <1>2, <1>6, <1>7, <1>8 DEF Dispatched, W

\* The steps that leave the exit workers alone.
ExitsStay == UNCHANGED <<worker, inflight>>

Trades == \E l \in Leg : Fill(l) \/ Dropped(l) \/ UserTrades(l)

LEMMA TradesStay == Trades => ExitsStay /\ UNCHANGED <<table, state, lock, link, loop, sync, client, failed, cleared, crossed, torn>>
BY DEF Trades, Fill, Dropped, UserTrades, ExitsStay, past

LEMMA MostStay ==
    ASSUME [Next]_vars, ~Tick, ~Restart, ~Trades, \A x \in Worker : ~ExitLeg(x)
    PROVE  ExitsStay /\ UNCHANGED <<book, stale>>
BY DEF Trades, past, Called, Answered, TimedOut, SyncCalled, Fails, Next, Save, Delete, Notify, Sync, SyncWake, SyncRead, SyncStore, SyncEnsure, SyncDiff, SyncSubscribe,
   SyncSubscribed, SyncUnsubscribe, SyncUnsubscribed, Callback, LateCall, TickArrives, Reconnect, Auth,
   AuthSubscribe, AuthSubscribed, Toggle, vars, ExitsStay

LEMMA TickDispatches ==
    ASSUME Typed, Tick
    PROVE  \E legs \in SUBSET (Matches \ inflight) : \E f : Dispatched(legs, f)
<1>1. Matches \in SUBSET Leg
  BY DEF Matches, Loaded
<1>2. PICK hit \in SUBSET Matches : Start(hit \ inflight)
  BY DEF Tick, Dispatch
<1> QED
  BY <1>1, <1>2, StartEffect

LEMMA ExitTypesNext == Typed /\ [Next]_vars => ExitTypes'
<1> SUFFICES ASSUME Typed, [Next]_vars PROVE ExitTypes'
  OBVIOUS
<1>0. ExitTypes
  BY DEF Typed
<1>1. CASE Tick
  <2>0. PICK legs \in SUBSET (Matches \ inflight) : \E f : Dispatched(legs, f)
    BY <1>1, TickDispatches
  <2>1. PICK f : Dispatched(legs, f)
    BY <2>0
  <2>2. legs \in SUBSET Leg
    BY DEF Matches, Loaded
  <2> QED
    BY <1>0, <1>1, <2>1, <2>2 DEF Tick, Dispatched, ExitTypes, book
<1>2. CASE Restart
  BY <1>0, <1>2 DEF Restart, ExitTypes, book
<1>5. CASE Trades
  <2>1. net' \in [Leg -> Int] /\ resting' \in [Leg -> Int]
    BY <1>0, <1>5 DEF Trades, Fill, Dropped, UserTrades, ExitTypes
  <2> QED
    BY <1>0, <1>5, <2>1, TradesStay DEF ExitTypes, ExitsStay
<1>3. ASSUME NEW x \in Worker, ExitLeg(x) PROVE ExitTypes'
  <2>1. lock' \in Worker \cup {"none"}
    BY <1>0, <1>3 DEF ExitLeg, Guard, ReadBook, Exit, DeleteRow, Clear, Unsubscribe, EndExit, ExitTypes
  <2>2. net' \in [Leg -> Int] /\ resting' \in [Leg -> Int]
    <3>1. CASE Exit(x)
      <4>1. worker[x].leg \in Leg /\ worker[x].qty \in Int
        BY <3>1, AtBusy DEF Exit, At, Busy
      <4>2. \/ UNCHANGED book
            \/ net' = [net EXCEPT ![worker[x].leg] = @ - worker[x].qty] /\ resting' = resting
            \/ resting' = [resting EXCEPT ![worker[x].leg] = @ + worker[x].qty] /\ net' = net
        BY <3>1 DEF Exit, Filled, Rests
      <4> QED
        BY <1>0, <4>1, <4>2 DEF ExitTypes, book
    <3>2. CASE ~Exit(x)
      BY <1>0, <1>3, <3>2 DEF ExitLeg, Guard, ReadBook, DeleteRow, Clear, Unsubscribe, EndExit, ExitTypes, book
    <3> QED
      BY <3>1, <3>2
  <2>3. CASE EndExit(x)
    BY <1>0, <2>1, <2>2, <2>3, EndEffect DEF ExitTypes
  <2>4. CASE ~EndExit(x)
    <3>1. inflight' = inflight
      BY <1>3, <2>4 DEF ExitLeg, Guard, ReadBook, Exit, DeleteRow, Clear, Unsubscribe
    <3> QED
      BY <1>0, <1>3, <2>1, <2>2, <2>4, <3>1, ExitProceeds DEF ExitTypes, Proceeds
  <2> QED
    BY <2>3, <2>4
<1>4. CASE ~Tick /\ ~Restart /\ ~Trades /\ \A x \in Worker : ~ExitLeg(x)
  <2>1. lock' = lock
    BY <1>4 DEF Trades, Next, Save, Delete, Notify, Sync, SyncWake, SyncRead, SyncStore, SyncEnsure, SyncDiff,
       SyncSubscribe, SyncSubscribed, SyncUnsubscribe, SyncUnsubscribed, Callback, LateCall, TickArrives,
       Reconnect, Auth, AuthSubscribe, AuthSubscribed, Toggle, vars
  <2> QED
    BY <1>0, <1>4, <2>1, MostStay DEF ExitTypes, ExitsStay, book
<1> QED
  BY <1>1, <1>2, <1>3, <1>4, <1>5

LEMMA RowType == ASSUME TableTypes, NEW l \in Leg, NEW m \in Mode PROVE Row(l, m) \in Stop
BY NoStateType DEF TableTypes, Row, Stop

LEMMA SyncNext == Typed /\ [Next]_vars => sync' \in SyncState
<1> SUFFICES ASSUME Typed, [Next]_vars PROVE sync' \in SyncState
  OBVIOUS
<1>0. sync \in SyncState /\ TableTypes /\ subscribed \in SUBSET Symbol
  BY DEF Typed, FeedTypes
<1>1. CASE Sync
  <2>1. CASE SyncWake \/ SyncSubscribe \/ SyncUnsubscribe
    BY <1>0, <2>1 DEF SyncWake, SyncSubscribe, SyncUnsubscribe, SyncState
  <2>2. CASE SyncRead
    <3>1. mode \in Mode
      BY <1>0 DEF TableTypes
    <3>2. CASE sync' = [sync EXCEPT !.pc = "store", !.mode = mode]
      BY <1>0, <3>1, <3>2 DEF SyncState
    <3>3. ASSUME NEW which \in [Leg -> Mode],
                 sync' = [sync EXCEPT !.pc = "store", !.mode = mode, !.rows = [l \in Leg |-> Row(l, which[l])]]
          PROVE  sync' \in SyncState
      <4> DEFINE R == [l \in Leg |-> Row(l, which[l])]
      <4>1. R \in [Leg -> Stop]
        BY <1>0, RowType
      <4> HIDE DEF R
      <4> QED
        BY <1>0, <3>1, <3>3, <4>1 DEF SyncState, R
    <3> QED
      BY <2>2, <3>2, <3>3 DEF SyncRead
  <2>3. CASE SyncStore
    <3> DEFINE wanted == Symbols({l \in Leg : sync.rows[l].save # 0})
    <3>1. wanted \in SUBSET Symbol
      BY SymbolsOf
    <3> HIDE DEF wanted
    <3>2. CASE sync' = Done
      BY <1>0, <3>2, NoSyncType
    <3>3. CASE sync' = [sync EXCEPT !.pc = "ensure", !.wanted = wanted]
      BY <1>0, <3>1, <3>3 DEF SyncState
    <3>4. CASE sync' = [sync EXCEPT !.pc = "unsubscribe", !.remove = subscribed \ wanted]
      BY <1>0, <3>4 DEF SyncState
    <3> QED
      BY <2>3, <3>2, <3>3, <3>4 DEF SyncStore, wanted
  <2>4. CASE SyncEnsure
    <3>1. CASE sync' = Done
      BY <1>0, <3>1, NoSyncType
    <3>2. CASE sync' = [sync EXCEPT !.pc = "diff"]
      BY <1>0, <3>2 DEF SyncState
    <3> QED
      BY <2>4, <3>1, <3>2 DEF SyncEnsure
  <2>5. CASE SyncDiff
    <3>1. CASE sync' = Done
      BY <1>0, <3>1, NoSyncType
    <3>2. CASE sync' = [sync EXCEPT !.pc = "subscribe", !.add = sync.wanted \ subscribed, !.remove = subscribed \ sync.wanted]
      BY <1>0, <3>2 DEF SyncState
    <3>3. CASE sync' = [sync EXCEPT !.pc = "unsubscribe", !.remove = subscribed \ sync.wanted]
      BY <1>0, <3>3 DEF SyncState
    <3> QED
      BY <2>5, <3>1, <3>2, <3>3 DEF SyncDiff
  <2>6. CASE SyncSubscribed \/ SyncUnsubscribed
    <3>1. CASE sync' = Done
      BY <1>0, <3>1, NoSyncType
    <3>2. CASE sync' = [sync EXCEPT !.pc = "unsubscribe"]
      BY <1>0, <3>2 DEF SyncState
    <3> QED
      BY <2>6, <3>1, <3>2 DEF SyncSubscribed, SyncUnsubscribed
  <2> QED
    BY <1>1, <2>1, <2>2, <2>3, <2>4, <2>5, <2>6 DEF Sync
<1>2. ASSUME NEW c \in Client, Notify(c) PROVE sync' \in SyncState
  BY <1>0, <1>2 DEF Notify, SyncState
<1>3. CASE Restart
  BY <1>3, NoSyncType DEF Restart
<1>4. CASE \/ Callback \/ Reconnect \/ Toggle \/ UNCHANGED vars
           \/ \E s \in Symbol : TickArrives(s)
           \/ \E c \in Client : \E l \in Leg : Save(c, l) \/ Delete(c, l)
  BY <1>0, <1>4 DEF Callback, Tick, Auth, AuthSubscribe, AuthSubscribed, LateCall, Reconnect, Toggle, vars,
     TickArrives, Save, Delete
<1>5. ASSUME NEW x \in Worker, ExitLeg(x) PROVE sync' \in SyncState
  BY <1>0, <1>5 DEF ExitLeg, Guard, ReadBook, Exit, DeleteRow, Clear, Unsubscribe, EndExit
<1>6. CASE Trades
  BY <1>0, <1>6, TradesStay
<1> QED
  BY <1>1, <1>2, <1>3, <1>4, <1>5, <1>6 DEF Next, Trades

LEMMA TypedNext == Typed /\ [Next]_vars => Typed'
BY TableNext, FeedNext, ExitTypesNext, SyncNext DEF Typed

LEMMA TypedOK == Typed => TypeOK
<1> SUFFICES ASSUME Typed PROVE TypeOK
  OBVIOUS
<1>1. \A i \in 1 .. Len(late) : late[i].op \in {"subscribe", "unsubscribe"} /\ late[i].syms \subseteq Symbol
  <2>1. \A i \in 1 .. Len(late) : late[i] \in Call
    BY DEF Typed, FeedTypes
  <2> QED
    BY <2>1 DEF Call
<1>2. \A x \in Worker : worker[x] = NoWorker \/ (worker[x].leg \in Leg /\ worker[x].mode \in Mode)
  BY DEF Typed, ExitTypes, Busy
<1> QED
  BY <1>1, <1>2 DEF Typed, TableTypes, FeedTypes, ExitTypes, LoopState, SyncState, Stop, TypeOK

\* A leg has one exit at most, and is marked while it has one.
LEMMA SingleNext == Typed /\ Single /\ [Next]_vars => Single'
<1> SUFFICES ASSUME Typed, Single, [Next]_vars PROVE Single'
  OBVIOUS
<1>1. CASE Tick
  <2>0. PICK legs \in SUBSET (Matches \ inflight) : \E f : Dispatched(legs, f)
    BY <1>1, TickDispatches
  <2>1. PICK f : Dispatched(legs, f)
    BY <2>0
  <2>2. \A l \in legs : f[l] \in Free /\ worker'[f[l]] # NoWorker /\ worker'[f[l]].leg = l /\ l \notin inflight
    BY <2>1, Resting DEF Dispatched, NoWorker
  <2>3. \A y \in Worker : worker'[y] # NoWorker
          => (\E l \in legs : f[l] = y) \/ (worker'[y] = worker[y] /\ worker[y].leg \in inflight)
    BY <2>1 DEF Dispatched, Single, Free
  <2>4. \A x, y \in Worker : worker'[x] # NoWorker /\ worker'[y] # NoWorker /\ worker'[x].leg = worker'[y].leg => x = y
    BY <2>1, <2>2, <2>3 DEF Single
  <2>5. inflight' = {worker'[x].leg : x \in {y \in Worker : worker'[y] # NoWorker}}
    <3>1. inflight' = inflight \cup legs
      BY <2>1 DEF Dispatched
    <3>2. ASSUME NEW x \in Worker, worker'[x] # NoWorker PROVE worker'[x].leg \in inflight'
      BY <2>2, <2>3, <3>1, <3>2
    <3>3. ASSUME NEW l \in inflight PROVE \E x \in Worker : worker'[x] # NoWorker /\ worker'[x].leg = l
      <4>1. PICK x \in Worker : worker[x] # NoWorker /\ worker[x].leg = l
        BY <3>3 DEF Single, Free
      <4>2. \A k \in legs : f[k] # x
        BY <2>2, <4>1 DEF Free
      <4>3. worker'[x] = worker[x]
        BY <2>1, <4>2 DEF Dispatched
      <4> QED
        BY <4>1, <4>3
    <3>4. ASSUME NEW l \in legs PROVE \E x \in Worker : worker'[x] # NoWorker /\ worker'[x].leg = l
      BY <2>2 DEF Free
    <3> QED
      BY <3>1, <3>2, <3>3, <3>4
  <2> QED
    BY <2>4, <2>5 DEF Single, Free
<1>2. CASE Restart
  BY <1>2 DEF Restart, Single, Free
<1>3. ASSUME NEW x \in Worker, EndExit(x) PROVE Single'
  <2>1. /\ worker[x] # NoWorker /\ worker'[x] = NoWorker
        /\ \A y \in Worker \ {x} : worker'[y] = worker[y]
        /\ inflight' = inflight \ {worker[x].leg}
    BY <1>3, EndEffect, Resting
  <2> QED
    BY <2>1 DEF Single, Free
<1>4. ASSUME NEW x \in Worker, ExitLeg(x), ~EndExit(x) PROVE Single'
  <2>1. inflight' = inflight
    BY <1>4 DEF ExitLeg, Guard, ReadBook, Exit, DeleteRow, Clear, Unsubscribe
  <2>2. \A y \in Worker : (worker'[y] = NoWorker <=> worker[y] = NoWorker) /\ worker'[y].leg = worker[y].leg
    BY <1>4, ExitProceeds, Resting DEF Proceeds
  <2> QED
    BY <2>1, <2>2 DEF Single, Free
<1>5. CASE ~Tick /\ ~Restart /\ \A x \in Worker : ~ExitLeg(x)
  BY <1>5, MostStay, TradesStay DEF Single, Free, ExitsStay
<1> QED
  BY <1>1, <1>2, <1>3, <1>4, <1>5

-----------------------------------------------------------------------------
(* The lock, and what an exit sells.                                       *)

\* What is remembered stays, and the mode changes by a request alone.
LEMMA Remembered ==
    ASSUME [Next]_vars
    PROVE  /\ failed \subseteq failed' /\ cleared \subseteq cleared' /\ stale \subseteq stale'
           /\ ~Toggle => mode' = mode /\ (crossed' = crossed \/ crossed' = TRUE)
           /\ torn' = torn \/ torn' = Tears
<1>1. CASE Sync
  BY <1>1 DEF Sync, SyncWake, SyncRead, SyncStore, SyncEnsure, SyncDiff, SyncSubscribe, SyncSubscribed,
     SyncUnsubscribe, SyncUnsubscribed, SyncCalled, Called, Answered, TimedOut, Fails, table, past
<1>2. CASE Callback \/ Reconnect \/ Restart \/ UNCHANGED vars \/ \E s \in Symbol : TickArrives(s)
  BY <1>2 DEF Callback, Tick, Auth, AuthSubscribe, AuthSubscribed, LateCall, TimedOut, TickArrives, Reconnect,
     Restart, Fails, vars, table, past
<1>3. CASE \E x \in Worker : ExitLeg(x)
  BY <1>3 DEF ExitLeg, Guard, ReadBook, Exit, DeleteRow, Clear, Unsubscribe, EndExit, Called, Answered,
     TimedOut, Fails, table, past
<1>4. CASE Toggle
  BY <1>4 DEF Toggle
<1>5. CASE \E c \in Client : Notify(c) \/ \E l \in Leg : Save(c, l) \/ Delete(c, l)
  BY <1>5 DEF Notify, Save, Delete, table, past
<1>6. CASE Trades
  BY <1>6 DEF Trades, Fill, Dropped, UserTrades, table, past
<1> QED
  BY <1>1, <1>2, <1>3, <1>4, <1>5, <1>6 DEF Next, Trades

LEMMA TornStays == [Next]_vars /\ torn => torn'
<1>1. torn => Tears
  BY DEF Tears
<1>2. torn' = torn => (torn => torn')
  OBVIOUS
<1>3. torn' = Tears => (Tears => torn')
  OBVIOUS
<1> QED
  BY <1>1, <1>2, <1>3, Remembered

LEMMA CrossedStays == [Next]_vars /\ crossed => crossed'
<1>1. Toggle => crossed' = (crossed \/ \E x \in Worker : At(x, "read") \/ At(x, "exit"))
  BY DEF Toggle
<1> QED
  BY <1>1, Remembered

\* The steps that leave the lock and the stops in memory alone.
LEMMA LockStays ==
    ASSUME [Next]_vars, ~Restart, ~SyncStore, \A x \in Worker : ~Clear(x) /\ ~Unsubscribe(x)
    PROVE  UNCHANGED <<lock, state>>
<1>1. CASE Sync \/ Callback \/ Reconnect \/ UNCHANGED vars \/ \E s \in Symbol : TickArrives(s)
  BY <1>1 DEF Sync, SyncWake, SyncRead, SyncEnsure, SyncDiff, SyncSubscribe, SyncSubscribed,
     SyncUnsubscribe, SyncUnsubscribed, Callback, Tick, Auth, AuthSubscribe, AuthSubscribed, LateCall,
     TickArrives, Reconnect, vars
<1>2. CASE \E x \in Worker : ExitLeg(x)
  BY <1>2 DEF ExitLeg, Guard, ReadBook, Exit, DeleteRow, EndExit
<1>3. CASE Toggle \/ \E c \in Client : Notify(c) \/ \E l \in Leg : Save(c, l) \/ Delete(c, l)
  BY <1>3 DEF Toggle, Notify, Save, Delete
<1> QED
  BY <1>1, <1>2, <1>3, TradesStay DEF Next, Trades

\* A clear takes the lock if no other stop in memory needs the symbol.
LEMMA ClearEffect ==
    ASSUME Typed, NEW x \in Worker, Clear(x)
    PROVE  /\ Proceeds(x) /\ lock = "none" /\ worker[x].leg \in Leg
           /\ Loaded' = Loaded \ {worker[x].leg}
           /\ state'[worker[x].leg] = NoState
           /\ \A l \in Leg \ {worker[x].leg} : state'[l] = state[l]
           /\ \/ worker'[x].pc = "end" /\ lock' = "none"
              \/ /\ worker'[x].pc = "unsubscribe" /\ lock' = x /\ torn' = Tears
                 /\ worker[x].leg[1] \notin Symbols(Loaded \ {worker[x].leg})
<1>1. worker[x] \in Busy
  BY AtBusy DEF Clear, At
<1>2. worker[x].leg \in Leg
  BY <1>1 DEF Busy
<1>3. /\ state' = [state EXCEPT ![worker[x].leg] = NoState] /\ lock = "none"
      /\ \/ Goto(x, "end") /\ lock' = lock
         \/ /\ Goto(x, "unsubscribe") /\ lock' = x /\ torn' = Tears
            /\ worker[x].leg[1] \notin Symbols(Loaded \ {worker[x].leg})
  BY DEF Clear, Unlocked
<1>4. /\ state'[worker[x].leg] = NoState
      /\ \A l \in Leg \ {worker[x].leg} : state'[l] = state[l]
  BY <1>2, <1>3 DEF Typed, TableTypes
<1>5. Loaded' = Loaded \ {worker[x].leg}
  BY <1>2, <1>4 DEF Loaded, NoState
<1> QED
  BY <1>1, <1>2, <1>3, <1>4, <1>5, GotoProceeds

Holders == \A x \in Worker : Holder(x)

LEMMA HolderNext == Typed /\ Holders /\ [Next]_vars => Holders'
<1> SUFFICES ASSUME Typed, Holders, [Next]_vars PROVE Holders'
  OBVIOUS
<1>0. "none" \notin Worker
  BY MonitorAssumption DEF MonitorAssumption
<1>1. CASE Restart
  BY <1>0, <1>1, Resting DEF Restart, Holders, Holder, At
<1>2. CASE SyncStore
  <2>1. \A x \in Worker : ~At(x, "unsubscribe")
    BY <1>0, <1>2 DEF SyncStore, Unlocked, Holders, Holder
  <2> QED
    BY <1>0, <1>2, <2>1 DEF SyncStore, Holders, Holder, At, Unlocked
<1>3. ASSUME NEW x \in Worker, Clear(x) PROVE Holders'
  <2>1. \A y \in Worker : ~At(y, "unsubscribe")
    BY <1>0, <1>3, ClearEffect DEF Holders, Holder
  <2>2. \A y \in Worker \ {x} : worker'[y] = worker[y]
    BY <1>3, ClearEffect DEF Proceeds
  <2>3. CASE worker'[x].pc = "end" /\ lock' = "none"
    BY <1>0, <2>1, <2>2, <2>3 DEF Holders, Holder, At
  <2>4. CASE /\ worker'[x].pc = "unsubscribe" /\ lock' = x
             /\ worker[x].leg[1] \notin Symbols(Loaded \ {worker[x].leg})
    <3>1. worker'[x].leg = worker[x].leg /\ Loaded' = Loaded \ {worker[x].leg}
      BY <1>3, ClearEffect DEF Proceeds
    <3>2. worker'[x].leg[1] \notin Symbols(Loaded')
      BY <2>4, <3>1
    <3>3. Symbols(Loaded)' = Symbols(Loaded')
      BY DEF Symbols
    <3> QED
      BY <2>1, <2>2, <2>4, <3>2, <3>3 DEF Holders, Holder, At
  <2> QED
    BY <1>3, <2>3, <2>4, ClearEffect
<1>4. ASSUME NEW x \in Worker, Unsubscribe(x) PROVE Holders'
  <2>1. Proceeds(x) /\ worker'[x].pc = "end" /\ lock' = "none" /\ At(x, "unsubscribe")
    BY <1>4, AtBusy, GotoProceeds DEF Unsubscribe, At
  <2>2. \A y \in Worker \ {x} : worker'[y] = worker[y] /\ ~At(y, "unsubscribe")
    BY <2>1 DEF Proceeds, Holders, Holder
  <2> QED
    BY <1>0, <2>1, <2>2 DEF Holders, Holder, At
<1>5. CASE ~Restart /\ ~SyncStore /\ \A x \in Worker : ~Clear(x) /\ ~Unsubscribe(x)
  <2>1. lock' = lock /\ state' = state
    BY <1>5, LockStays
  <2>2. ASSUME \A y \in Worker : worker'[y] = worker[y] \/ (worker'[y].pc # "unsubscribe" /\ worker[y].pc # "unsubscribe")
        PROVE  Holders'
    BY <2>1, <2>2 DEF Holders, Holder, At, Symbols, Loaded
  <2>3. CASE Tick
    <3>1. PICK legs \in SUBSET (Matches \ inflight) : \E f : Dispatched(legs, f)
      BY <2>3, TickDispatches
    <3>2. PICK f : Dispatched(legs, f)
      BY <3>1
    <3>3. \A l \in legs : f[l] \in Free /\ worker'[f[l]].pc = "guard" /\ worker[f[l]].pc = "off"
      BY <3>2, Resting DEF Dispatched, NoWorker, Free
    <3> QED
      BY <2>2, <3>2, <3>3 DEF Dispatched
  <2>4. ASSUME NEW x \in Worker, ExitLeg(x) PROVE Holders'
    <3>1. CASE EndExit(x)
      BY <2>2, <3>1, EndEffect, Resting DEF EndExit, At
    <3>2. CASE ReadBook(x)
      BY <2>2, <3>2, ReadProceeds DEF ReadBook, At, Proceeds
    <3>3. CASE Guard(x) \/ Exit(x) \/ DeleteRow(x)
      <4>1. PICK pc \in {"read", "delete", "clear", "end"} : Goto(x, pc)
        BY <3>3 DEF Guard, Exit, DeleteRow
      <4>2. worker[x] \in Busy /\ worker[x].pc # "unsubscribe"
        BY <3>3, AtBusy DEF Guard, Exit, DeleteRow, At
      <4>3. Proceeds(x) /\ worker'[x].pc = pc
        BY <4>1, <4>2, GotoProceeds
      <4> QED
        BY <2>2, <4>2, <4>3 DEF Proceeds
    <3> QED
      BY <1>5, <2>4, <3>1, <3>2, <3>3 DEF ExitLeg
  <2>5. CASE ~Tick /\ \A x \in Worker : ~ExitLeg(x)
    BY <1>5, <2>2, <2>5, MostStay, TradesStay DEF ExitsStay
  <2> QED
    BY <2>3, <2>4, <2>5
<1> QED
  BY <1>1, <1>2, <1>3, <1>4, <1>5

\* A step that changes neither the mode nor the book, and lets no worker reach a
\* place where it reads, sells or deletes.
LEMMA SellsFrame ==
    ASSUME Sells, failed \subseteq failed', stale \subseteq stale', UNCHANGED <<mode, book>>,
           \A y \in Worker : worker'[y] = worker[y] \/ worker'[y].pc \notin {"read", "exit", "delete"}
    PROVE  Sells'
<1>1. failed' \cap {"book", "split"} = {} => failed \cap {"book", "split"} = {}
  OBVIOUS
<1>2. ASSUME NEW y \in Worker PROVE Sized(y)' /\ Flat(y)'
  <2>1. CASE worker'[y] = worker[y]
    BY <1>1, <2>1 DEF Sells, Sized, Flat, Closed, At, book
  <2>2. CASE worker'[y].pc \notin {"read", "exit", "delete"}
    BY <2>2 DEF Sized, Flat, At
  <2> QED
    BY <1>2, <2>1, <2>2
<1>3. Covered'
  BY DEF Sells, Covered, book
<1> QED
  BY <1>2, <1>3 DEF Sells

\* A worker that goes on, and touches the book of no leg but its own, leaves the
\* others what they have read.
LEMMA OthersSell ==
    ASSUME Typed, Single, Sells, NEW x \in Worker, Proceeds(x), mode' = mode,
           failed \subseteq failed', stale \subseteq stale',
           \A l \in Leg \ {worker[x].leg} : net'[l] = net[l] /\ resting'[l] = resting[l],
           NEW y \in Worker \ {x}
    PROVE  Sized(y)' /\ Flat(y)'
<1>1. worker'[y] = worker[y] /\ worker[x] # NoWorker
  BY Resting DEF Proceeds
<1>2. CASE worker[y].pc \in {"read", "exit", "delete"}
  <2>1. worker[y] \in Busy /\ worker[y] # NoWorker
    BY <1>2, AtBusy
  <2>2. worker[y].leg \in Leg \ {worker[x].leg}
    BY <1>1, <2>1 DEF Single, Busy
  <2>3. net'[worker[y].leg] = net[worker[y].leg] /\ resting'[worker[y].leg] = resting[worker[y].leg]
    BY <2>2
  <2>4. failed' \cap {"book", "split"} = {} => failed \cap {"book", "split"} = {}
    OBVIOUS
  <2> QED
    BY <1>1, <2>3, <2>4 DEF Sells, Sized, Flat, Closed, At
<1>3. CASE worker[y].pc \notin {"read", "exit", "delete"}
  BY <1>1, <1>3 DEF Sized, Flat, At
<1> QED
  BY <1>2, <1>3

LEMMA GuardSells ==
    ASSUME Typed, Single, Sells, [Next]_vars, ~crossed', NEW x \in Worker, Guard(x)
    PROVE  Sells'
<1>1. worker[x] \in Busy /\ UNCHANGED <<mode, book>>
  BY AtBusy DEF Guard, At, table
<1>2. CASE worker[x].mode = mode /\ Goto(x, "read")
  <2>1. Proceeds(x) /\ worker'[x].pc = "read"
    BY <1>1, <1>2, GotoProceeds
  <2>2. Sized(x)' /\ Flat(x)'
    BY <1>1, <1>2, <2>1 DEF Sized, Flat, At, Proceeds
  <2>3. ASSUME NEW y \in Worker \ {x} PROVE Sized(y)' /\ Flat(y)'
    BY <1>1, <2>1, <2>3, OthersSell, Remembered DEF book
  <2>4. Covered'
    BY <1>1, Remembered DEF Sells, Covered, book
  <2> QED
    BY <2>2, <2>3, <2>4 DEF Sells
<1>3. CASE Goto(x, "end")
  BY <1>1, <1>3, GotoProceeds, Remembered, SellsFrame DEF Proceeds
<1> QED
  BY <1>2, <1>3 DEF Guard

LEMMA ReadSells ==
    ASSUME Typed, Single, Sells, [Next]_vars, NEW x \in Worker, ReadBook(x)
    PROVE  Sells'
<1>1. worker[x] \in Busy /\ UNCHANGED <<mode, book>> /\ Proceeds(x)
  BY AtBusy, ReadProceeds DEF ReadBook, At, table
<1>2. worker[x].mode = mode /\ worker'[x].mode = mode /\ worker'[x].leg = worker[x].leg
  BY <1>1 DEF Sells, Sized, ReadBook, At, Proceeds
<1>3. mode = "analyze" /\ worker[x].leg \notin stale' =>
        \/ worker'[x].qty = net[worker[x].leg] /\ resting[worker[x].leg] = 0
        \/ worker'[x].pc = "delete" /\ "book" \in failed'
  BY <1>1 DEF ReadBook, Fails, Typed, ExitTypes, Busy
<1>4. /\ worker'[x].pc \in {"exit", "delete"}
      /\ worker'[x].pc = "delete" => worker'[x].qty = 0
  BY ReadProceeds DEF At
<1>5. Sized(x)' /\ Flat(x)'
  BY <1>1, <1>2, <1>3, <1>4 DEF Sized, Flat, Closed, At, book
<1>6. ASSUME NEW y \in Worker \ {x} PROVE Sized(y)' /\ Flat(y)'
  BY <1>1, <1>6, OthersSell, Remembered DEF book
<1>7. Covered'
  BY <1>1, Remembered DEF Sells, Covered, book
<1> QED
  BY <1>5, <1>6, <1>7 DEF Sells

\* An order sells, or puts on order, the position it was sized to, and touches
\* no other leg.
LEMMA OrderCovers ==
    ASSUME Typed, Sells, NEW x \in Worker, At(x, "exit"), NEW l, l = worker[x].leg,
           stale \subseteq stale',
           Filled(l, worker[x].qty) \/ Rests(l, worker[x].qty)
    PROVE  /\ Covered'
           /\ \A k \in Leg \ {l} : net'[k] = net[k] /\ resting'[k] = resting[k]
           /\ mode = "analyze" /\ l \notin stale => net'[l] = resting'[l]
<1>1. l \in Leg /\ worker[x].qty \in Int
  BY AtBusy DEF At, Busy
<1>2. CASE mode # "analyze"
  BY <1>2 DEF Filled, Rests, Sells, Covered, book
<1>3. CASE mode = "analyze"
  <2>1. /\ \A k \in Leg \ {l} : net'[k] = net[k] /\ resting'[k] = resting[k]
        /\ \/ net'[l] = net[l] - worker[x].qty /\ resting'[l] = resting[l]
           \/ resting'[l] = resting[l] + worker[x].qty /\ net'[l] = net[l]
        /\ net[l] \in Int /\ resting[l] \in Int
    BY <1>1, <1>3 DEF Filled, Rests, Typed, ExitTypes
  <2>2. l \notin stale => worker[x].qty = net[l] /\ resting[l] = 0 /\ net[l] >= 0
    BY <1>1, <1>3, <2>1 DEF Sells, Sized, Covered
  <2>3. l \notin stale => net'[l] = resting'[l] /\ resting'[l] \in 0 .. net'[l]
    BY <2>1, <2>2
  <2>4. Covered'
    BY <2>1, <2>3 DEF Sells, Covered
  <2> QED
    BY <2>1, <2>3, <2>4
<1> QED
  BY <1>2, <1>3

LEMMA ExitSells ==
    ASSUME Typed, Single, Sells, [Next]_vars, NEW x \in Worker, Exit(x)
    PROVE  Sells'
<1>1. worker[x] \in Busy /\ UNCHANGED mode /\ At(x, "exit")
  BY AtBusy DEF Exit, At, table
<1>2. worker[x].mode = mode
  BY <1>1 DEF Sells, Sized, At
<1>3. PICK pc \in {"delete", "end"} : Goto(x, pc)
  BY DEF Exit
<1>4. Proceeds(x) /\ worker'[x].pc = pc
  BY <1>1, <1>3, GotoProceeds
<1>5. failed \subseteq failed' /\ stale \subseteq stale'
  BY Remembered
<1>6. CASE Filled(worker[x].leg, worker[x].qty) \/ Rests(worker[x].leg, worker[x].qty)
  <2>1. /\ Covered'
        /\ \A k \in Leg \ {worker[x].leg} : net'[k] = net[k] /\ resting'[k] = resting[k]
        /\ mode = "analyze" /\ worker[x].leg \notin stale => net'[worker[x].leg] = resting'[worker[x].leg]
    BY <1>1, <1>5, <1>6, OrderCovers
  <2>2. Sized(x)' /\ Flat(x)'
    BY <1>2, <1>4, <1>5, <2>1 DEF Sized, Flat, Closed, At, Proceeds
  <2>3. ASSUME NEW y \in Worker \ {x} PROVE Sized(y)' /\ Flat(y)'
    BY <1>1, <1>4, <1>5, <2>1, <2>3, OthersSell
  <2> QED
    BY <2>1, <2>2, <2>3 DEF Sells
<1>7. CASE UNCHANGED book /\ Goto(x, "end")
  BY <1>1, <1>5, <1>7, GotoProceeds, SellsFrame DEF Proceeds
<1>8. CASE UNCHANGED book /\ Goto(x, "delete") /\ Fails("split")
  <2>1. worker'[x].pc = "delete" /\ "split" \in failed'
    BY <1>1, <1>8, GotoProceeds DEF Fails
  <2>2. Sized(x)' /\ Flat(x)'
    BY <2>1 DEF Sized, Flat, At
  <2>3. ASSUME NEW y \in Worker \ {x} PROVE Sized(y)' /\ Flat(y)'
    BY <1>1, <1>4, <1>5, <1>8, <2>3, OthersSell DEF book
  <2>4. Covered'
    BY <1>5, <1>8 DEF Sells, Covered, book
  <2> QED
    BY <2>2, <2>3, <2>4 DEF Sells
<1> QED
  BY <1>6, <1>7, <1>8 DEF Exit

\* What the sandbox fills was on order; what else moves the book of a leg is noted
\* if an exit of the leg has read it or has an order in it.
LEMMA TradesSell ==
    ASSUME Typed, Sells, [Next]_vars, NEW l \in Leg, Fill(l) \/ Dropped(l) \/ UserTrades(l)
    PROVE  Sells'
<1>1. UNCHANGED <<mode, worker, failed>> /\ stale \subseteq stale'
  BY Remembered DEF Fill, Dropped, UserTrades, table, past
<1>2. /\ \A k \in Leg \ {l} : net'[k] = net[k] /\ resting'[k] = resting[k]
      /\ net[l] \in Int /\ resting[l] \in Int
  BY DEF Fill, Dropped, UserTrades, Typed, ExitTypes
<1>3. l \notin stale => resting[l] \in 0 .. net[l]
  BY DEF Sells, Covered
<1>4. \/ resting[l] # 0 /\ net'[l] = net[l] - resting[l] /\ resting'[l] = 0
      \/ l \in stale'
      \/ ~Exiting(l) /\ net'[l] = net[l] /\ resting'[l] = 0
      \/ ~Exiting(l) /\ net'[l] \in {0, 1} /\ resting'[l] = resting[l] /\ resting[l] = 0
  BY DEF Fill, Dropped, UserTrades, Typed, ExitTypes
<1>5. Covered'
  <2>1. l \notin stale' => resting'[l] \in 0 .. net'[l]
    BY <1>1, <1>2, <1>3, <1>4
  <2> QED
    BY <1>1, <1>2, <2>1 DEF Sells, Covered
<1>6. ASSUME NEW y \in Worker PROVE Sized(y)' /\ Flat(y)'
  <2>1. Sized(y) /\ Flat(y) /\ worker'[y] = worker[y]
    BY <1>1 DEF Sells
  <2>2. CASE worker[y].leg # l /\ worker[y].pc \in {"exit", "delete"}
    <3>1. worker[y].leg \in Leg \ {l}
      BY <2>2, AtBusy DEF Busy
    <3> QED
      BY <1>1, <1>2, <2>1, <3>1 DEF Sized, Flat, Closed, At
  <2>3. CASE worker[y].leg = l /\ worker[y].pc \in {"exit", "delete"}
    <3>1. Exiting(l)
      BY <2>3 DEF Exiting
    <3>2. l \in stale' \/ (resting[l] # 0 /\ net'[l] = net[l] - resting[l] /\ resting'[l] = 0)
      BY <1>4, <3>1
    <3> QED
      BY <1>1, <1>2, <2>1, <2>3, <3>2 DEF Sized, Flat, Closed, At
  <2>4. CASE worker[y].pc \notin {"exit", "delete"}
    BY <1>1, <2>1, <2>4 DEF Sized, Flat, At
  <2> QED
    BY <2>2, <2>3, <2>4
<1> QED
  BY <1>5, <1>6 DEF Sells

LEMMA SellsNext == Typed /\ Single /\ Sells /\ [Next]_vars /\ ~crossed' => Sells'
<1> SUFFICES ASSUME Typed, Single, Sells, [Next]_vars, ~crossed' PROVE Sells'
  OBVIOUS
<1>1. CASE Tick
  <2>1. PICK legs \in SUBSET (Matches \ inflight) : \E f : Dispatched(legs, f)
    BY <1>1, TickDispatches
  <2>2. PICK f : Dispatched(legs, f)
    BY <2>1
  <2>3. \A l \in legs : worker'[f[l]].pc = "guard"
    BY <2>2 DEF Dispatched, NoWorker
  <2>4. UNCHANGED <<mode, book>>
    BY <1>1 DEF Tick
  <2> QED
    BY <2>2, <2>3, <2>4, Remembered, SellsFrame DEF Dispatched
<1>2. CASE Restart
  BY <1>2, Resting, Remembered, SellsFrame DEF Restart, table
<1>3. CASE Toggle
  <2>1. \A x \in Worker : ~At(x, "read") /\ ~At(x, "exit")
    BY <1>3 DEF Toggle
  <2>2. UNCHANGED <<net, resting, stale, worker, failed>>
    BY <1>3 DEF Toggle, book
  <2> QED
    BY <2>1, <2>2 DEF Sells, Covered, Sized, Flat, Closed, At
<1>4. ASSUME NEW x \in Worker, ExitLeg(x) PROVE Sells'
  <2>1. CASE Guard(x)
    BY <2>1, GuardSells
  <2>2. CASE ReadBook(x)
    BY <2>2, ReadSells
  <2>3. CASE Exit(x)
    BY <2>3, ExitSells
  <2>4. CASE DeleteRow(x) \/ Clear(x) \/ Unsubscribe(x)
    <3>1. UNCHANGED <<mode, book>>
      BY <2>4 DEF DeleteRow, Clear, Unsubscribe, table
    <3>2. PICK pc \in {"clear", "unsubscribe", "end"} : Goto(x, pc)
      BY <2>4 DEF DeleteRow, Clear, Unsubscribe
    <3>3. worker[x] \in Busy
      BY <2>4, AtBusy DEF DeleteRow, Clear, Unsubscribe, At
    <3> QED
      BY <3>1, <3>2, <3>3, GotoProceeds, Remembered, SellsFrame DEF Proceeds
  <2>5. CASE EndExit(x)
    <3>1. UNCHANGED <<mode, book>>
      BY <2>5 DEF EndExit, table
    <3> QED
      BY <2>5, <3>1, EndEffect, Resting, Remembered, SellsFrame
  <2> QED
    BY <1>4, <2>1, <2>2, <2>3, <2>4, <2>5 DEF ExitLeg
<1>5. CASE ~Tick /\ ~Restart /\ ~Toggle /\ ~Trades /\ \A x \in Worker : ~ExitLeg(x)
  BY <1>5, MostStay, Remembered, SellsFrame DEF ExitsStay
<1>6. CASE Trades
  BY <1>6, TradesSell DEF Trades
<1> QED
  BY <1>1, <1>2, <1>3, <1>4, <1>5, <1>6

LEMMA InvInit == Init => Inv
<1> SUFFICES ASSUME Init PROVE Inv
  OBVIOUS
<1>0. "none" \notin Worker
  BY MonitorAssumption DEF MonitorAssumption
<1>1. Single
  BY DEF Init, Single, Free
<1>2. \A x \in Worker : worker[x] = NoWorker
  BY DEF Init
<1>3. \A x \in Worker : Holder(x)
  BY <1>0, <1>2, Resting DEF Init, Holder, At
<1>4. Sold
  BY <1>2, Resting DEF Init, Sold, Sells, Covered, Sized, Flat, At
<1> QED
  BY <1>1, <1>3, <1>4, InitTyped DEF Inv

LEMMA InvNext == Inv /\ [Next]_vars => Inv'
<1> SUFFICES ASSUME Inv, [Next]_vars PROVE Inv'
  OBVIOUS
<1>1. Typed' /\ Single'
  BY TypedNext, SingleNext DEF Inv
<1>2. Holders'
  BY HolderNext DEF Inv, Holders
<1>3. crossed' \/ Sells'
  BY SellsNext, CrossedStays DEF Inv, Sold
<1> QED
  BY <1>1, <1>2, <1>3 DEF Inv, Holders, Sold

LEMMA InvHolds == Spec => []Inv
BY InvInit, InvNext, PTL DEF Spec

\* A leg has one exit at most, and the mark of it is exact, through retries, resyncs,
\* restarts and any number of hits.
THEOREM OneExitPerLeg == Spec => []OneExit
<1>1. Inv => OneExit
  <2> SUFFICES ASSUME Inv PROVE OneExit
    OBVIOUS
  <2>1. TypeOK
    BY TypedOK DEF Inv
  <2>2. \A x \in Worker : worker[x].pc # "off" => worker[x] # NoWorker
    BY Resting
  <2> QED
    BY <2>1, <2>2 DEF Inv, Single, OneExit
<1> QED
  BY <1>1, InvHolds, PTL

\* What is on order never exceeds the position, so that none is sold twice: of a leg
\* whose book nobody moved under an exit and that had nothing on order when an exit
\* read it, unless an exit passed its guard in another mode or the mode changed
\* since.
THEOREM NothingIsSoldTwice == Spec => []NeverReverses
<1>1. Inv => NeverReverses
  BY DEF Inv, Sold, Sells, Covered, NeverReverses
<1> QED
  BY <1>1, InvHolds, PTL

\* An exit is sent in the mode of its stop, and clears it with the position flat or
\* on order.
THEOREM StopsEndFlat == Spec => ClearedIsClosed
<1>1. Inv /\ [Next]_vars =>
        [~crossed => \A x \in Worker :
           /\ At(x, "exit") /\ At(x, "delete")' => worker[x].mode = mode
           /\ Clears(x) /\ failed \cap {"book", "split"} = {} => Closed(x)]_vars
  <2> SUFFICES ASSUME Inv, Next, ~crossed, NEW x \in Worker
               PROVE  /\ At(x, "exit") /\ At(x, "delete")' => worker[x].mode = mode
                      /\ Clears(x) /\ failed \cap {"book", "split"} = {} => Closed(x)
    OBVIOUS
  <2>1. Sized(x) /\ Flat(x)
    BY DEF Inv, Sold, Sells
  <2> QED
    BY <2>1 DEF Sized, Flat, At, Clears
<1> QED
  BY <1>1, InvHolds, PTL DEF Spec, ClearedIsClosed

-----------------------------------------------------------------------------
(* A monitor at rest watches the stops that are stored.                    *)

\* What the sync worker takes for the save of a leg.
Known(l) == IF sync.pc = "store" THEN sync.rows[l].save ELSE state[l].save

\* Somebody has yet to ask for a sync, or one is about to read the table.
Coming == sync.pending \/ sync.pc = "read" \/ \E c \in Client : client[c] = "notify"

Agrees == \A l \in Leg \ cleared : row[l][sync.mode] \in {Known(l), Ghost}

Watches ==
    /\ sync.pc = "off" => ~sync.pending
    /\ \A x \in Worker : At(x, "clear") => worker[x].leg \in cleared
    /\ failed \cap {"rows", "mode"} # {} \/ Coming \/ Agrees

LEMMA DoneFields == Done.pending = sync.pending /\ Done.pc = "wake" /\ Done.mode = sync.mode
BY DEF Done, NoSync

LEMMA BootedFields == Booted.pending = TRUE /\ Booted.pc = "wake"
BY DEF Booted, NoSync

\* The steps of a round that has stored the rows.
LEMMA RoundGoesOn ==
    ASSUME Typed, Sync, ~SyncWake, ~SyncRead, ~SyncStore
    PROVE  /\ sync'.pending = sync.pending /\ sync'.mode = sync.mode
           /\ sync.pc \notin {"off", "read", "store"} /\ sync'.pc \notin {"off", "read", "store"}
           /\ UNCHANGED <<row, state, client, worker, cleared>>
<1>0. sync \in SyncState
  BY DEF Typed
<1>1. UNCHANGED <<row, state, client, worker, cleared>>
  BY DEF Sync, SyncEnsure, SyncDiff, SyncSubscribe, SyncSubscribed, SyncUnsubscribe, SyncUnsubscribed,
     SyncCalled, Called, Answered, TimedOut, Fails, table, past
<1>2. sync.pc \notin {"off", "read", "store"}
  BY DEF Sync, SyncEnsure, SyncDiff, SyncSubscribe, SyncSubscribed, SyncUnsubscribe, SyncUnsubscribed, SyncAt
<1>3. CASE sync' = Done
  BY <1>1, <1>2, <1>3, DoneFields
<1>4. CASE sync' # Done
  <2>1. sync'.pending = sync.pending /\ sync'.mode = sync.mode /\ sync'.pc \notin {"off", "read", "store"}
    BY <1>0, <1>4 DEF Sync, SyncEnsure, SyncDiff, SyncSubscribe, SyncSubscribed, SyncUnsubscribe,
       SyncUnsubscribed, SyncState
  <2> QED
    BY <1>1, <1>2, <2>1
<1> QED
  BY <1>3, <1>4

LEMMA StoreEffect ==
    ASSUME Typed, SyncStore
    PROVE  /\ sync'.pending = sync.pending /\ sync'.mode = sync.mode
           /\ sync'.pc \in {"ensure", "unsubscribe", "wake"} /\ sync.pc = "store" /\ lock = "none"
           /\ \A l \in Leg : state'[l].save = sync.rows[l].save
           /\ UNCHANGED <<row, client, worker, failed, cleared, lock, link, loop>>
<1>0. sync \in SyncState
  BY DEF Typed
<1> DEFINE wanted == Symbols({l \in Leg : sync.rows[l].save # 0})
<1>1. /\ \/ sync' = [sync EXCEPT !.pc = "ensure", !.wanted = wanted]
         \/ sync' = [sync EXCEPT !.pc = "unsubscribe", !.remove = subscribed \ wanted]
         \/ sync' = Done
      /\ state' = sync.rows
      /\ sync.pc = "store" /\ lock = "none"
  BY DEF SyncStore, SyncAt, Unlocked
<1>2. \A l \in Leg : state'[l].save = sync.rows[l].save
  BY <1>1
<1>3. UNCHANGED <<row, client, worker, failed, cleared, lock, link, loop>>
  BY DEF SyncStore, table, past
<1> HIDE DEF wanted
<1>4. sync'.pending = sync.pending /\ sync'.mode = sync.mode /\ sync'.pc \in {"ensure", "unsubscribe", "wake"}
  BY <1>0, <1>1, DoneFields DEF SyncState
<1> QED
  BY <1>1, <1>2, <1>3, <1>4

\* What agrees goes on agreeing while nobody touches the rows and the stops of
\* the legs that are not cleared.
LEMMA AgreesFrame ==
    ASSUME Watches, [Next]_vars, UNCHANGED <<sync, client>>,
           \A l \in Leg \ cleared' : (\A m \in Mode : row'[l][m] \in {row[l][m], Ghost}) /\ state'[l] = state[l],
           sync.mode \in Mode,
           \A x \in Worker : At(x, "clear")' =>
               (At(x, "clear") /\ worker'[x].leg = worker[x].leg) \/ worker'[x].leg \in cleared'
    PROVE  Watches'
<1>1. failed \subseteq failed' /\ cleared \subseteq cleared'
  BY Remembered
<1>2. Agrees => Agrees'
  BY <1>1 DEF Agrees, Known
<1>3. Coming => Coming'
  BY DEF Coming
<1> QED
  BY <1>1, <1>2, <1>3 DEF Watches, At

LEMMA WatchesNext == Typed /\ Watches /\ [Next]_vars => Watches'
<1> SUFFICES ASSUME Typed, Watches, [Next]_vars PROVE Watches'
  OBVIOUS
<1>0. sync \in SyncState /\ sync.mode \in Mode
  BY DEF Typed, SyncState
<1>1. ASSUME NEW c \in Client, NEW l \in Leg, Save(c, l) \/ Delete(c, l) PROVE Watches'
  <2>1. client'[c] = "notify" /\ UNCHANGED <<sync, worker, cleared>>
    BY <1>1 DEF Save, Delete, Typed, TableTypes
  <2> QED
    BY <2>1 DEF Watches, Coming, At
<1>2. ASSUME NEW c \in Client, Notify(c) PROVE Watches'
  <2>1. sync'.pending = TRUE /\ sync'.pc # "off" /\ UNCHANGED <<worker, cleared>>
    BY <1>0, <1>2 DEF Notify, past, SyncState
  <2> QED
    BY <2>1 DEF Watches, Coming, At
<1>3. CASE SyncWake
  <2>1. /\ sync'.pending = FALSE /\ sync'.pc = (IF sync.pending THEN "read" ELSE "off")
        /\ sync'.mode = sync.mode /\ sync.pc = "wake"
        /\ UNCHANGED <<row, state, worker, client, failed, cleared>>
    BY <1>0, <1>3 DEF SyncWake, SyncAt, SyncState, table, past
  <2>2. Agrees => Agrees'
    BY <2>1 DEF Agrees, Known
  <2> QED
    BY <2>1, <2>2 DEF Watches, Coming, At
<1>4. CASE SyncRead
  <2>1. sync'.pc = "store" /\ UNCHANGED <<row, worker>>
    BY <1>0, <1>4 DEF SyncRead, SyncState, table
  <2>2. \/ failed' \cap {"rows", "mode"} # {}
        \/ sync'.mode = mode /\ \A l \in Leg : sync'.rows[l].save = row[l][mode]
    <3>1. CASE Fails("rows") \/ Fails("mode")
      BY <3>1 DEF Fails
    <3>2. ASSUME NEW which \in [Leg -> Mode], which = [l \in Leg |-> mode],
                 sync' = [sync EXCEPT !.pc = "store", !.mode = mode, !.rows = [l \in Leg |-> Row(l, which[l])]]
          PROVE  sync'.mode = mode /\ \A l \in Leg : sync'.rows[l].save = row[l][mode]
      <4> DEFINE R == [l \in Leg |-> Row(l, which[l])]
      <4>1. \A l \in Leg : R[l].save = row[l][mode]
        BY <3>2 DEF Row, NoState
      <4> HIDE DEF R
      <4> QED
        BY <1>0, <3>2, <4>1 DEF SyncState, R
    <3> QED
      BY <1>4, <3>1, <3>2 DEF SyncRead
  <2>3. failed' \cap {"rows", "mode"} # {} \/ Agrees'
    BY <2>1, <2>2 DEF Agrees, Known
  <2> QED
    BY <2>1, <2>3, Remembered DEF Watches, At
<1>5. CASE SyncStore
  <2>1. Agrees => Agrees'
    BY <1>5, StoreEffect DEF Agrees, Known
  <2> QED
    BY <1>5, <2>1, StoreEffect DEF Watches, Coming, At
<1>6. CASE Sync /\ ~SyncWake /\ ~SyncRead /\ ~SyncStore
  <2>1. Agrees => Agrees'
    BY <1>6, RoundGoesOn DEF Agrees, Known
  <2> QED
    BY <1>6, <2>1, RoundGoesOn, Remembered DEF Watches, Coming, At
<1>7. CASE Restart
  <2>1. sync'.pending = TRUE /\ sync'.pc = "wake" /\ \A x \in Worker : worker'[x].pc = "off"
    BY <1>7, BootedFields, Resting DEF Restart
  <2> QED
    BY <2>1 DEF Watches, Coming, At
<1>8. CASE Tick
  <2>1. PICK legs \in SUBSET (Matches \ inflight) : \E f : Dispatched(legs, f)
    BY <1>8, TickDispatches
  <2>2. PICK f : Dispatched(legs, f)
    BY <2>1
  <2>3. \A l \in legs : worker'[f[l]].pc = "guard"
    BY <2>2 DEF Dispatched, NoWorker
  <2>4. \A x \in Worker : At(x, "clear")' => worker'[x] = worker[x]
    BY <2>2, <2>3 DEF Dispatched, At
  <2>5. \A l \in Leg, m \in Mode : row'[l][m] \in {row[l][m], Ghost}
    BY <1>8 DEF Tick, Typed, TableTypes
  <2>6. UNCHANGED <<sync, client, state>>
    BY <1>8 DEF Tick
  <2> QED
    BY <1>0, <2>4, <2>5, <2>6, AgreesFrame DEF At
<1>9. ASSUME NEW x \in Worker, ExitLeg(x) PROVE Watches'
  <2>0. UNCHANGED <<sync, client>>
    BY <1>9 DEF ExitLeg, Guard, ReadBook, Exit, DeleteRow, Clear, Unsubscribe, EndExit
  <2>1. CASE DeleteRow(x)
    <3>1. worker[x] \in Busy /\ Proceeds(x) /\ worker[x].leg \in Leg
      BY <2>1, AtBusy, GotoProceeds DEF DeleteRow, At, Busy
    <3>2. \A l \in Leg \ {worker[x].leg} : row'[l] = row[l]
      BY <2>1 DEF DeleteRow, Typed, TableTypes
    <3>3. worker[x].leg \in cleared' /\ state' = state
      BY <2>1 DEF DeleteRow
    <3> QED
      BY <1>0, <2>0, <3>1, <3>2, <3>3, AgreesFrame DEF Proceeds, At
  <2>2. CASE Clear(x)
    <3>1. worker[x].leg \in cleared /\ UNCHANGED <<row, cleared>>
      BY <2>2 DEF Clear, Watches, table
    <3>2. /\ Proceeds(x) /\ worker'[x].pc # "clear"
          /\ \A l \in Leg \ {worker[x].leg} : state'[l] = state[l]
      BY <2>2, ClearEffect
    <3> QED
      BY <1>0, <2>0, <3>1, <3>2, AgreesFrame DEF Proceeds, At
  <2>3. CASE EndExit(x)
    <3>1. UNCHANGED <<row, state>>
      BY <2>3 DEF EndExit, table
    <3> QED
      BY <1>0, <2>0, <2>3, <3>1, EndEffect, Resting, AgreesFrame DEF At
  <2>4. CASE Guard(x) \/ ReadBook(x) \/ Exit(x) \/ Unsubscribe(x)
    <3>1. UNCHANGED <<row, state>>
      BY <2>4 DEF Guard, ReadBook, Exit, Unsubscribe, table
    <3>2. Proceeds(x) /\ worker'[x].pc # "clear"
      <4>1. CASE ReadBook(x)
        BY <4>1, ReadProceeds DEF At
      <4>2. CASE Guard(x) \/ Exit(x) \/ Unsubscribe(x)
        <5>1. PICK pc \in {"read", "delete", "end"} : Goto(x, pc)
          BY <4>2 DEF Guard, Exit, Unsubscribe
        <5>2. worker[x] \in Busy
          BY <4>2, AtBusy DEF Guard, Exit, Unsubscribe, At
        <5> QED
          BY <5>1, <5>2, GotoProceeds
      <4> QED
        BY <2>4, <4>1, <4>2
    <3> QED
      BY <1>0, <2>0, <3>1, <3>2, AgreesFrame DEF Proceeds, At
  <2> QED
    BY <1>9, <2>1, <2>2, <2>3, <2>4 DEF ExitLeg
<1>10. CASE \/ Callback /\ ~Tick
            \/ Reconnect \/ Toggle \/ Trades \/ UNCHANGED vars
            \/ \E s \in Symbol : TickArrives(s)
  <2>1. UNCHANGED <<sync, client, row, state, worker>>
    BY <1>10, TradesStay DEF ExitsStay, Callback, Auth, AuthSubscribe, AuthSubscribed, LateCall, Reconnect, Toggle, vars, TickArrives, table
  <2> QED
    BY <1>0, <2>1, AgreesFrame DEF At
<1> QED
  BY <1>1, <1>2, <1>3, <1>4, <1>5, <1>6, <1>7, <1>8, <1>9, <1>10 DEF Next, Sync, Trades

-----------------------------------------------------------------------------
(* A monitor at rest is fed what it watches.                               *)

\* A symbol will be on the feed when the calls q have been made: the last call
\* about it subscribes, or it is on the feed f and none is about it.
Comes(s, f, q) ==
    \/ s \in f /\ \A i \in 1 .. Len(q) : s \in q[i].syms => q[i].op = "subscribe"
    \/ \E i \in 1 .. Len(q) :
          /\ s \in q[i].syms
          /\ \A j \in i .. Len(q) : s \in q[j].syms => q[j].op = "subscribe"

Fed(s) == Comes(s, feed, late)

Sent(op, syms, f) == IF op = "subscribe" THEN f \cup syms ELSE f \ syms

LEMMA NoneLate == \A s, f : Comes(s, f, << >>) <=> s \in f
BY DEF Comes

LEMMA MoreLate ==
    ASSUME NEW q \in Seq(Call), NEW c \in Call, NEW s, NEW f,
           \/ c.op = "subscribe" /\ (s \in c.syms \/ Comes(s, f, q))
           \/ s \notin c.syms /\ Comes(s, f, q)
    PROVE  Comes(s, f, Append(q, c))
<1> DEFINE r == Append(q, c)
<1>1. Len(r) = Len(q) + 1 /\ Len(q) \in Nat /\ r[Len(q) + 1] = c /\ \A i \in 1 .. Len(q) : r[i] = q[i]
  OBVIOUS
<1> HIDE DEF r
<1>2. CASE c.op = "subscribe" /\ s \in c.syms
  <2>1. Len(q) + 1 \in 1 .. Len(r)
    BY <1>1
  <2>2. \A j \in (Len(q) + 1) .. Len(r) : j = Len(q) + 1
    BY <1>1
  <2> QED
    BY <1>1, <1>2, <2>1, <2>2 DEF Comes
<1>3. CASE Comes(s, f, q) /\ (c.op = "subscribe" \/ s \notin c.syms)
  <2>1. \A j \in 1 .. Len(r) : j \in 1 .. Len(q) \/ j = Len(q) + 1
    BY <1>1
  <2>2. CASE s \in f /\ \A i \in 1 .. Len(q) : s \in q[i].syms => q[i].op = "subscribe"
    BY <1>1, <1>3, <2>1, <2>2 DEF Comes
  <2>3. ASSUME NEW i \in 1 .. Len(q), s \in q[i].syms,
               \A j \in i .. Len(q) : s \in q[j].syms => q[j].op = "subscribe"
        PROVE  Comes(s, f, r)
    <3>1. i \in 1 .. Len(r) /\ r[i] = q[i]
      BY <1>1
    <3>2. \A j \in i .. Len(r) : j \in i .. Len(q) \/ j = Len(q) + 1
      BY <1>1
    <3>3. \A j \in i .. Len(r) : s \in r[j].syms => r[j].op = "subscribe"
      BY <1>1, <1>3, <2>3, <3>2
    <3> QED
      BY <2>3, <3>1, <3>3 DEF Comes
  <2> QED
    BY <1>3, <2>2, <2>3 DEF Comes
<1> QED
  BY <1>2, <1>3 DEF r

LEMMA LessLate ==
    ASSUME NEW q \in Seq(Call), q # << >>, NEW s, NEW f, Comes(s, f, q)
    PROVE  Comes(s, Sent(Head(q).op, Head(q).syms, f), Tail(q))
<1> DEFINE r == Tail(q)
           g == Sent(Head(q).op, Head(q).syms, f)
<1>1. /\ Len(q) \in Nat /\ Len(q) >= 1 /\ Len(r) = Len(q) - 1
      /\ \A i \in 1 .. Len(r) : r[i] = q[i + 1]
      /\ Head(q) = q[1]
  OBVIOUS
<1> HIDE DEF r
<1>2. CASE s \in f /\ \A i \in 1 .. Len(q) : s \in q[i].syms => q[i].op = "subscribe"
  <2>1. s \in g
    BY <1>1, <1>2 DEF Sent
  <2>2. \A i \in 1 .. Len(r) : i + 1 \in 1 .. Len(q)
    BY <1>1
  <2> QED
    BY <1>1, <1>2, <2>1, <2>2 DEF Comes, r
<1>3. ASSUME NEW i \in 1 .. Len(q), s \in q[i].syms,
             \A j \in i .. Len(q) : s \in q[j].syms => q[j].op = "subscribe"
      PROVE  Comes(s, g, r)
  <2>1. CASE i = 1
    <3>1. s \in g
      BY <1>1, <1>3, <2>1 DEF Sent
    <3>2. \A j \in 1 .. Len(r) : j + 1 \in i .. Len(q)
      BY <1>1, <2>1
    <3> QED
      BY <1>1, <1>3, <3>1, <3>2 DEF Comes
  <2>2. CASE i # 1
    <3>1. i - 1 \in 1 .. Len(r) /\ r[i - 1] = q[i]
      BY <1>1, <2>2
    <3>2. \A j \in (i - 1) .. Len(r) : j \in 1 .. Len(r) /\ j + 1 \in i .. Len(q)
      BY <1>1, <2>2
    <3> QED
      BY <1>1, <1>3, <3>1, <3>2 DEF Comes
  <2> QED
    BY <2>1, <2>2
<1> QED
  BY <1>2, <1>3 DEF Comes, r

\* A call that is made or left keeps every symbol on its way that it does not drop,
\* and puts on its way what it subscribes, unless it was answered with an error.
LEMMA CallFeeds ==
    ASSUME Typed, NEW op \in {"subscribe", "unsubscribe"}, NEW syms \in SUBSET Symbol, Called(op, syms), NEW s
    PROVE  /\ Fed(s) /\ (op = "subscribe" \/ s \notin syms) => Fed(s)'
           /\ op = "subscribe" /\ s \in syms => Fed(s)' \/ "subscribe" \in failed'
<1>1. CASE Answered(op, syms)
  BY <1>1, NoneLate DEF Answered, Send, Fails, Fed
<1>2. CASE TimedOut(op, syms)
  <2>1. [op |-> op, syms |-> syms] \in Call
    BY DEF Call
  <2>2. late' = Append(late, [op |-> op, syms |-> syms]) /\ feed' = feed /\ late \in Seq(Call)
    BY <1>2 DEF TimedOut, Typed, FeedTypes
  <2> QED
    BY <2>1, <2>2, MoreLate DEF Fed
<1> QED
  BY <1>1, <1>2 DEF Called

LEMMA LateFeeds == ASSUME Typed, LateCall, NEW s, Fed(s) PROVE Fed(s)'
BY LessLate DEF LateCall, Send, Sent, Fed, Typed, FeedTypes

-----------------------------------------------------------------------------
Answering == loop.pc \in {"auth_wait", "auth_subscribed"}
Subscribing == sync.pc \in {"subscribe", "subscribed"}

\* The symbols that are marked, or that the reconnect callback will mark.
Marked(s) == s \in subscribed \/ (Answering /\ s \in loop.syms)

\* Nobody marks a symbol while a worker drops one.
Apart == lock # "none" => ~Subscribing /\ ~Answering

\* Who is about to mark symbols has put them on their way.
OnTheirWay ==
    /\ loop.pc = "auth_subscribed" => \A s \in loop.syms : Fed(s)
    /\ sync.pc = "subscribed" => \A s \in sync.add : Fed(s)

\* A marked symbol is on its way, but after a reconnect and between the sync
\* worker's call that drops it and its mark.
MarkedIsFed ==
    loop.pc # "auth" => \A s \in subscribed :
        Fed(s) \/ (sync.pc = "unsubscribed" /\ s \in sync.remove)

\* The symbol of a stop in memory is marked, but while the sync worker is about to.
LoadedIsMarked ==
    \A s \in Symbols(Loaded) :
        sync.pc \in {"ensure", "diff"} \/ Marked(s) \/ (Subscribing /\ s \in sync.add)

\* The sync worker drops no symbol of a stop in memory.
LoadedIsKept ==
    \A s \in Symbols(Loaded) :
        /\ sync.pc \in {"ensure", "diff"} => s \in sync.wanted
        /\ Subscribing \/ sync.pc \in {"unsubscribe", "unsubscribed"} => s \notin sync.remove

Feeds == Apart /\ OnTheirWay /\ MarkedIsFed /\ LoadedIsMarked /\ LoadedIsKept

Untorn == ~torn /\ failed \cap {"subscribe", "login"} = {}

LEMMA UntornBefore == [Next]_vars /\ Untorn' => Untorn
BY Remembered, TornStays DEF Untorn

\* The steps that touch none of all that.
LEMMA FeedsFrame ==
    ASSUME Feeds, UNCHANGED <<lock, link, loop, sync>>, Loaded' \subseteq Loaded
    PROVE  Feeds'
<1>1. Symbols(Loaded)' \subseteq Symbols(Loaded)
  BY DEF Symbols
<1>2. \A s : Fed(s)' <=> Fed(s)
  BY DEF Fed, link
<1>3. (Apart /\ OnTheirWay /\ MarkedIsFed)'
  BY <1>2 DEF Feeds, Apart, OnTheirWay, MarkedIsFed, Subscribing, Answering, link
<1>4. (LoadedIsMarked /\ LoadedIsKept)'
  BY <1>1 DEF Feeds, LoadedIsMarked, LoadedIsKept, Marked, Subscribing, Answering, link
<1> QED
  BY <1>3, <1>4 DEF Feeds

\* The sync worker's steps.
LEMMA SyncFeeds ==
    ASSUME Typed, Feeds, Sync, Untorn, Untorn'
    PROVE  Feeds'
<1>0. sync \in SyncState /\ FeedTypes
  BY DEF Typed
<1>1. CASE SyncWake \/ SyncRead
  <2>1. UNCHANGED <<lock, link, loop, state>> /\ sync.pc \in {"wake", "read"} /\ sync'.pc \in {"off", "read", "store"}
    BY <1>0, <1>1 DEF SyncWake, SyncRead, SyncAt, SyncState
  <2>2. /\ \A s : Fed(s)' <=> Fed(s)
        /\ Symbols(Loaded)' = Symbols(Loaded)
    BY <2>1 DEF Fed, link, Symbols, Loaded
  <2>3. (Apart /\ OnTheirWay /\ MarkedIsFed)'
    BY <2>1, <2>2 DEF Feeds, Apart, OnTheirWay, MarkedIsFed, Subscribing, Answering, link
  <2>4. (LoadedIsMarked /\ LoadedIsKept)'
    BY <2>1, <2>2 DEF Feeds, LoadedIsMarked, LoadedIsKept, Marked, Subscribing, Answering, link
  <2> QED
    BY <2>3, <2>4 DEF Feeds
<1>2. CASE SyncStore
  <2> DEFINE wanted == Symbols({l \in Leg : sync.rows[l].save # 0})
  <2>1. Symbols(Loaded)' = wanted
    BY <1>2, StoreEffect DEF Loaded, Symbols
  <2>2. \/ sync'.pc = "ensure" /\ sync'.wanted = wanted
        \/ wanted = {} /\ sync'.pc \in {"unsubscribe", "wake"}
    <3> HIDE DEF wanted
    <3>1. \/ sync' = [sync EXCEPT !.pc = "ensure", !.wanted = wanted]
          \/ wanted = {} /\ sync' = [sync EXCEPT !.pc = "unsubscribe", !.remove = subscribed \ wanted]
          \/ wanted = {} /\ sync' = Done
      BY <1>2 DEF SyncStore, wanted
    <3> QED
      BY <1>0, <3>1, DoneFields DEF SyncState
  <2> HIDE DEF wanted
  <2>3. UNCHANGED <<lock, link, loop>> /\ lock = "none" /\ sync.pc = "store"
    BY <1>2, StoreEffect
  <2>4. \A s : Fed(s)' <=> Fed(s)
    BY <2>3 DEF Fed, link
  <2>5. (Apart /\ OnTheirWay /\ MarkedIsFed)'
    BY <2>2, <2>3, <2>4 DEF Feeds, Apart, OnTheirWay, MarkedIsFed, Subscribing, Answering, link
  <2>6. (LoadedIsMarked /\ LoadedIsKept)'
    BY <2>1, <2>2 DEF LoadedIsMarked, LoadedIsKept, Subscribing
  <2> QED
    BY <2>5, <2>6 DEF Feeds
<1>3. CASE SyncEnsure
  <2>1. sync' = [sync EXCEPT !.pc = "diff"]
    BY <1>3 DEF SyncEnsure, Fails, Untorn
  <2>2. sync.pc = "ensure" /\ sync'.pc = "diff" /\ sync'.wanted = sync.wanted /\ UNCHANGED <<lock, link, loop, state>>
    BY <1>0, <1>3, <2>1 DEF SyncEnsure, SyncAt, SyncState
  <2>3. /\ \A s : Fed(s)' <=> Fed(s)
        /\ Symbols(Loaded)' = Symbols(Loaded)
    BY <2>2 DEF Fed, link, Symbols, Loaded
  <2>4. (Apart /\ OnTheirWay /\ MarkedIsFed)'
    BY <2>2, <2>3 DEF Feeds, Apart, OnTheirWay, MarkedIsFed, Subscribing, Answering, link
  <2>5. (LoadedIsMarked /\ LoadedIsKept)'
    BY <2>2, <2>3 DEF Feeds, LoadedIsMarked, LoadedIsKept, Subscribing
  <2> QED
    BY <2>4, <2>5 DEF Feeds
<1>4. CASE SyncDiff
  <2>1. sync.pc = "diff" /\ lock = "none" /\ UNCHANGED <<lock, link, loop, state>>
    BY <1>4 DEF SyncDiff, SyncAt, Unlocked
  <2>2. \/ /\ sync'.pc = "subscribe" /\ sync'.add = sync.wanted \ subscribed
           /\ sync'.remove = subscribed \ sync.wanted
        \/ sync.wanted \subseteq subscribed /\ sync'.pc = "unsubscribe" /\ sync'.remove = subscribed \ sync.wanted
        \/ sync.wanted \subseteq subscribed /\ sync'.pc = "wake"
    <3>1. \/ sync' = [sync EXCEPT !.pc = "subscribe", !.add = sync.wanted \ subscribed, !.remove = subscribed \ sync.wanted]
          \/ sync.wanted \subseteq subscribed /\ sync' = [sync EXCEPT !.pc = "unsubscribe", !.remove = subscribed \ sync.wanted]
          \/ sync.wanted \subseteq subscribed /\ sync' = Done
      BY <1>4 DEF SyncDiff
    <3> QED
      BY <1>0, <3>1, DoneFields DEF SyncState
  <2>3. /\ \A s : Fed(s)' <=> Fed(s)
        /\ Symbols(Loaded)' = Symbols(Loaded)
    BY <2>1 DEF Fed, link, Symbols, Loaded
  <2>4. (Apart /\ OnTheirWay /\ MarkedIsFed)'
    BY <2>1, <2>2, <2>3 DEF Feeds, Apart, OnTheirWay, MarkedIsFed, Subscribing, Answering, link
  <2>5. \A s \in Symbols(Loaded) : s \in sync.wanted
    BY <2>1 DEF Feeds, LoadedIsKept
  <2>6. (LoadedIsMarked /\ LoadedIsKept)'
    BY <2>1, <2>2, <2>3, <2>5 DEF LoadedIsMarked, LoadedIsKept, Marked, Subscribing, Answering, link
  <2> QED
    BY <2>4, <2>6 DEF Feeds
<1>5. CASE SyncSubscribe
  <2>1. /\ sync.pc = "subscribe" /\ sync'.pc = "subscribed" /\ sync'.add = sync.add /\ sync'.remove = sync.remove
        /\ UNCHANGED <<lock, subscribed, loop, state>> /\ sync.add \in SUBSET Symbol
    BY <1>0, <1>5 DEF SyncSubscribe, SyncAt, SyncState
  <2>2. Called("subscribe", sync.add)
    BY <1>5 DEF SyncSubscribe, SyncCalled
  <2>3. /\ \A s : Fed(s) => Fed(s)'
        /\ \A s \in sync.add : Fed(s)'
    BY <2>1, <2>2, CallFeeds DEF Untorn
  <2>4. Symbols(Loaded)' = Symbols(Loaded)
    BY <2>1 DEF Symbols, Loaded
  <2>5. (Apart /\ OnTheirWay /\ MarkedIsFed)'
    BY <2>1, <2>3 DEF Feeds, Apart, OnTheirWay, MarkedIsFed, Subscribing, Answering
  <2>6. (LoadedIsMarked /\ LoadedIsKept)'
    BY <2>1, <2>4 DEF Feeds, LoadedIsMarked, LoadedIsKept, Marked, Subscribing, Answering
  <2> QED
    BY <2>5, <2>6 DEF Feeds
<1>6. CASE SyncSubscribed
  <2>1. /\ sync.pc = "subscribed" /\ subscribed' = subscribed \cup sync.add
        /\ UNCHANGED <<lock, feed, late, loop, state>> /\ lock = "none"
    BY <1>6 DEF SyncSubscribed, SyncAt, Unlocked
  <2>2. (sync'.pc = "unsubscribe" /\ sync'.remove = sync.remove) \/ sync'.pc = "wake"
    BY <1>0, <1>6, DoneFields DEF SyncSubscribed, SyncState
  <2>3. /\ \A s : Fed(s)' <=> Fed(s)
        /\ Symbols(Loaded)' = Symbols(Loaded)
    BY <2>1 DEF Fed, Symbols, Loaded
  <2>4. (Apart /\ OnTheirWay /\ MarkedIsFed)'
    BY <2>1, <2>2, <2>3 DEF Feeds, Apart, OnTheirWay, MarkedIsFed, Subscribing, Answering
  <2>5. (LoadedIsMarked /\ LoadedIsKept)'
    BY <2>1, <2>2, <2>3 DEF Feeds, LoadedIsMarked, LoadedIsKept, Marked, Subscribing, Answering
  <2> QED
    BY <2>4, <2>5 DEF Feeds
<1>7. CASE SyncUnsubscribe
  <2>1. /\ sync.pc = "unsubscribe" /\ sync'.pc = "unsubscribed" /\ sync'.remove = sync.remove
        /\ UNCHANGED <<lock, subscribed, loop, state>> /\ sync.remove \in SUBSET Symbol
    BY <1>0, <1>7 DEF SyncUnsubscribe, SyncAt, SyncState
  <2>2. Called("unsubscribe", sync.remove)
    BY <1>7 DEF SyncUnsubscribe, SyncCalled
  <2>3. \A s : Fed(s) /\ s \notin sync.remove => Fed(s)'
    BY <2>1, <2>2, CallFeeds
  <2>4. loop.pc # "auth_subscribed"
    BY <2>2 DEF Called, Answered, TimedOut, Blocked, Unlocked, Feeds, Apart, Answering
  <2>5. Symbols(Loaded)' = Symbols(Loaded)
    BY <2>1 DEF Symbols, Loaded
  <2>6. (Apart /\ OnTheirWay /\ MarkedIsFed)'
    BY <2>1, <2>3, <2>4 DEF Feeds, Apart, OnTheirWay, MarkedIsFed, Subscribing, Answering
  <2>7. (LoadedIsMarked /\ LoadedIsKept)'
    BY <2>1, <2>5 DEF Feeds, LoadedIsMarked, LoadedIsKept, Marked, Subscribing, Answering
  <2> QED
    BY <2>6, <2>7 DEF Feeds
<1>8. CASE SyncUnsubscribed
  <2>1. /\ sync.pc = "unsubscribed" /\ sync'.pc = "wake" /\ subscribed' = subscribed \ sync.remove
        /\ UNCHANGED <<lock, feed, late, loop, state>>
    BY <1>8, DoneFields DEF SyncUnsubscribed, SyncAt
  <2>2. /\ \A s : Fed(s)' <=> Fed(s)
        /\ Symbols(Loaded)' = Symbols(Loaded)
    BY <2>1 DEF Fed, Symbols, Loaded
  <2>3. (Apart /\ OnTheirWay /\ MarkedIsFed)'
    BY <2>1, <2>2 DEF Feeds, Apart, OnTheirWay, MarkedIsFed, Subscribing, Answering
  <2>4. (LoadedIsMarked /\ LoadedIsKept)'
    BY <2>1, <2>2 DEF Feeds, LoadedIsMarked, LoadedIsKept, Marked, Subscribing, Answering
  <2> QED
    BY <2>3, <2>4 DEF Feeds
<1> QED
  BY <1>1, <1>2, <1>3, <1>4, <1>5, <1>6, <1>7, <1>8 DEF Sync

\* The steps of the event loop.
LEMMA LoopFeeds ==
    ASSUME Typed, Feeds, Untorn, Untorn',
           Callback \/ Reconnect \/ \E s \in Symbol : TickArrives(s)
    PROVE  Feeds'
<1>0. UNCHANGED <<lock, sync, state>> /\ loop \in LoopState
  BY DEF Callback, Tick, Auth, AuthSubscribe, AuthSubscribed, LateCall, Reconnect, TickArrives, Typed, FeedTypes
<1>1. Symbols(Loaded)' = Symbols(Loaded)
  BY <1>0 DEF Symbols, Loaded
<1>2. CASE Tick \/ \E s \in Symbol : TickArrives(s)
  <2>1. UNCHANGED link /\ loop.pc \in {"idle", "tick"} /\ loop'.pc \in {"idle", "tick"}
    BY <1>2 DEF Tick, TickArrives, Idle
  <2>2. \A s : Fed(s)' <=> Fed(s)
    BY <2>1 DEF Fed, link
  <2>3. (Apart /\ OnTheirWay /\ MarkedIsFed)'
    BY <1>0, <2>1, <2>2 DEF Feeds, Apart, OnTheirWay, MarkedIsFed, Subscribing, Answering, link
  <2>4. (LoadedIsMarked /\ LoadedIsKept)'
    BY <1>0, <1>1, <2>1 DEF Feeds, LoadedIsMarked, LoadedIsKept, Marked, Subscribing, Answering, link
  <2> QED
    BY <2>3, <2>4 DEF Feeds
<1>3. CASE Reconnect
  <2>1. loop.pc = "idle" /\ loop'.pc = "auth" /\ subscribed' = subscribed
    BY <1>3 DEF Reconnect, Idle
  <2>2. ~Subscribing
    BY <1>3 DEF Reconnect, Tears, Untorn, Subscribing
  <2>3. (Apart /\ OnTheirWay /\ MarkedIsFed)'
    BY <1>0, <2>1, <2>2 DEF Apart, OnTheirWay, MarkedIsFed, Subscribing, Answering
  <2>4. (LoadedIsMarked /\ LoadedIsKept)'
    BY <1>0, <1>1, <2>1 DEF Feeds, LoadedIsMarked, LoadedIsKept, Marked, Subscribing, Answering
  <2> QED
    BY <2>3, <2>4 DEF Feeds
<1>4. CASE Auth
  <2>1. /\ loop.pc = "auth" /\ lock = "none" /\ subscribed' = {} /\ UNCHANGED <<feed, late>>
        /\ \/ subscribed = {} /\ loop'.pc = "idle"
           \/ loop'.pc = "auth_wait" /\ loop'.syms = subscribed
    BY <1>4 DEF Auth, Unlocked, Idle
  <2>2. \A s : Fed(s)' <=> Fed(s)
    BY <2>1 DEF Fed
  <2>3. (Apart /\ OnTheirWay /\ MarkedIsFed)'
    BY <1>0, <2>1, <2>2 DEF Feeds, Apart, OnTheirWay, MarkedIsFed, Subscribing, Answering
  <2>4. (LoadedIsMarked /\ LoadedIsKept)'
    BY <1>0, <1>1, <2>1 DEF Feeds, LoadedIsMarked, LoadedIsKept, Marked, Subscribing, Answering
  <2> QED
    BY <2>3, <2>4 DEF Feeds
<1>5. CASE AuthSubscribe
  <2>1. /\ loop.pc = "auth_wait" /\ loop'.pc = "auth_subscribed" /\ loop'.syms = loop.syms
        /\ UNCHANGED subscribed /\ loop.syms \in SUBSET Symbol
    BY <1>0, <1>5 DEF AuthSubscribe, LoopState
  <2>2. Called("subscribe", loop.syms) /\ UNCHANGED failed
    BY <1>5 DEF AuthSubscribe, Called, TimedOut, past
  <2>3. /\ \A s : Fed(s) => Fed(s)'
        /\ \A s \in loop.syms : Fed(s)'
    BY <2>1, <2>2, CallFeeds DEF Untorn
  <2>4. (Apart /\ OnTheirWay /\ MarkedIsFed)'
    BY <1>0, <2>1, <2>3 DEF Feeds, Apart, OnTheirWay, MarkedIsFed, Subscribing, Answering
  <2>5. (LoadedIsMarked /\ LoadedIsKept)'
    BY <1>0, <1>1, <2>1 DEF Feeds, LoadedIsMarked, LoadedIsKept, Marked, Subscribing, Answering
  <2> QED
    BY <2>4, <2>5 DEF Feeds
<1>6. CASE AuthSubscribed
  <2>1. /\ loop.pc = "auth_subscribed" /\ loop'.pc = "idle" /\ subscribed' = subscribed \cup loop.syms
        /\ UNCHANGED <<feed, late>>
    BY <1>6 DEF AuthSubscribed, Idle
  <2>2. \A s : Fed(s)' <=> Fed(s)
    BY <2>1 DEF Fed
  <2>3. (Apart /\ OnTheirWay /\ MarkedIsFed)'
    BY <1>0, <2>1, <2>2 DEF Feeds, Apart, OnTheirWay, MarkedIsFed, Subscribing, Answering
  <2>4. (LoadedIsMarked /\ LoadedIsKept)'
    BY <1>0, <1>1, <2>1 DEF Feeds, LoadedIsMarked, LoadedIsKept, Marked, Subscribing, Answering
  <2> QED
    BY <2>3, <2>4 DEF Feeds
<1>7. CASE LateCall
  <2>1. UNCHANGED <<subscribed, loop>>
    BY <1>7 DEF LateCall
  <2>2. \A s : Fed(s) => Fed(s)'
    BY <1>7, LateFeeds
  <2>3. (Apart /\ OnTheirWay /\ MarkedIsFed)'
    BY <1>0, <2>1, <2>2 DEF Feeds, Apart, OnTheirWay, MarkedIsFed, Subscribing, Answering
  <2>4. (LoadedIsMarked /\ LoadedIsKept)'
    BY <1>0, <1>1, <2>1 DEF Feeds, LoadedIsMarked, LoadedIsKept, Marked, Subscribing, Answering
  <2> QED
    BY <2>3, <2>4 DEF Feeds
<1> QED
  BY <1>2, <1>3, <1>4, <1>5, <1>6, <1>7 DEF Callback

\* The steps of an exit worker.
LEMMA ExitFeeds ==
    ASSUME Typed, Holders, Feeds, Untorn, Untorn', NEW x \in Worker, ExitLeg(x)
    PROVE  Feeds'
<1>1. CASE Clear(x)
  <2>1. UNCHANGED <<link, loop, sync>> /\ Loaded' \subseteq Loaded
    BY <1>1, ClearEffect DEF Clear
  <2>2. CASE lock' = lock
    BY <2>1, <2>2, FeedsFrame
  <2>3. CASE torn' = Tears
    <3>1. ~Subscribing /\ ~Answering
      BY <2>3 DEF Tears, Untorn, Subscribing, Answering
    <3>2. Symbols(Loaded)' \subseteq Symbols(Loaded)
      BY <2>1 DEF Symbols
    <3>3. \A s : Fed(s)' <=> Fed(s)
      BY <2>1 DEF Fed, link
    <3>4. (Apart /\ OnTheirWay /\ MarkedIsFed)'
      BY <2>1, <3>1, <3>3 DEF Feeds, Apart, OnTheirWay, MarkedIsFed, Subscribing, Answering, link
    <3>5. (LoadedIsMarked /\ LoadedIsKept)'
      BY <2>1, <3>2 DEF Feeds, LoadedIsMarked, LoadedIsKept, Marked, Subscribing, Answering, link
    <3> QED
      BY <3>4, <3>5 DEF Feeds
  <2> QED
    BY <1>1, <2>2, <2>3, ClearEffect
<1>2. CASE Unsubscribe(x)
  <2> DEFINE s0 == worker[x].leg[1]
  <2>0. worker[x] \in Busy
    BY <1>2, AtBusy DEF Unsubscribe, At
  <2>1. /\ s0 \in Symbol /\ s0 \notin Symbols(Loaded) /\ lock = x /\ lock # "none"
    BY <1>2, <2>0, LegSymbol, MonitorAssumption DEF Unsubscribe, Holders, Holder, Busy, MonitorAssumption
  <2>2. /\ Called("unsubscribe", {s0}) /\ subscribed' = subscribed \ {s0} /\ lock' = "none"
        /\ UNCHANGED <<loop, sync, state>>
    BY <1>2 DEF Unsubscribe
  <2>3. ~Subscribing /\ ~Answering
    BY <2>1 DEF Feeds, Apart
  <2> HIDE DEF s0
  <2>4. \A s : Fed(s) /\ s # s0 => Fed(s)'
    BY <2>1, <2>2, CallFeeds
  <2>5. Symbols(Loaded)' = Symbols(Loaded)
    BY <2>2 DEF Symbols, Loaded
  <2>6. (Apart /\ OnTheirWay /\ MarkedIsFed)'
    BY <2>2, <2>3, <2>4 DEF Feeds, Apart, OnTheirWay, MarkedIsFed, Subscribing, Answering
  <2>7. (LoadedIsMarked /\ LoadedIsKept)'
    BY <2>1, <2>2, <2>5 DEF Feeds, LoadedIsMarked, LoadedIsKept, Marked, Subscribing, Answering
  <2> QED
    BY <2>6, <2>7 DEF Feeds
<1>3. CASE ~Clear(x) /\ ~Unsubscribe(x)
  <2>1. UNCHANGED <<lock, link, loop, sync, state>>
    BY <1>3 DEF ExitLeg, Guard, ReadBook, Exit, DeleteRow, EndExit
  <2> QED
    BY <2>1, FeedsFrame DEF Loaded
<1> QED
  BY <1>1, <1>2, <1>3

LEMMA FeedsNext == Inv /\ (Untorn => Feeds) /\ [Next]_vars => (Untorn' => Feeds')
<1> SUFFICES ASSUME Inv, Untorn => Feeds, [Next]_vars, Untorn' PROVE Feeds'
  OBVIOUS
<1>1. Typed /\ Holders /\ Untorn /\ Feeds
  BY UntornBefore DEF Inv, Holders
<1>2. CASE Sync
  BY <1>1, <1>2, SyncFeeds
<1>3. CASE Callback \/ Reconnect \/ \E s \in Symbol : TickArrives(s)
  BY <1>1, <1>3, LoopFeeds
<1>4. ASSUME NEW x \in Worker, ExitLeg(x) PROVE Feeds'
  BY <1>1, <1>4, ExitFeeds
<1>5. ASSUME NEW c \in Client, Notify(c) PROVE Feeds'
  <2>1. UNCHANGED <<lock, link, loop, state>>
    BY <1>5 DEF Notify
  <2>2. /\ sync'.add = sync.add /\ sync'.remove = sync.remove /\ sync'.wanted = sync.wanted
        /\ sync'.pc = IF sync.pc = "off" THEN "wake" ELSE sync.pc
    BY <1>1, <1>5 DEF Notify, Typed, SyncState
  <2>3. /\ \A s : Fed(s)' <=> Fed(s)
        /\ Symbols(Loaded)' = Symbols(Loaded)
    BY <2>1 DEF Fed, link, Symbols, Loaded
  <2>4. (Apart /\ OnTheirWay /\ MarkedIsFed)'
    BY <1>1, <2>1, <2>2, <2>3 DEF Feeds, Apart, OnTheirWay, MarkedIsFed, Subscribing, Answering, link
  <2>5. (LoadedIsMarked /\ LoadedIsKept)'
    BY <1>1, <2>1, <2>2, <2>3 DEF Feeds, LoadedIsMarked, LoadedIsKept, Marked, Subscribing, Answering, link
  <2> QED
    BY <2>4, <2>5 DEF Feeds
<1>6. CASE Toggle \/ Trades \/ UNCHANGED vars \/ \E c \in Client : \E l \in Leg : Save(c, l) \/ Delete(c, l)
  <2>1. UNCHANGED <<lock, link, loop, sync, state>>
    BY <1>6, TradesStay DEF Toggle, vars, Save, Delete
  <2> QED
    BY <1>1, <2>1, FeedsFrame DEF Loaded
<1>7. CASE Restart
  <2>1. /\ lock' = "none" /\ subscribed' = {} /\ loop'.pc = "idle" /\ sync'.pc = "wake"
        /\ \A l \in Leg : state'[l].save = 0
    BY <1>7, BootedFields DEF Restart, Idle, NoState
  <2>2. Symbols(Loaded)' = {}
    BY <2>1 DEF Symbols, Loaded
  <2> QED
    BY <2>1, <2>2 DEF Feeds, Apart, OnTheirWay, MarkedIsFed, LoadedIsMarked, LoadedIsKept
<1> QED
  BY <1>2, <1>3, <1>4, <1>5, <1>6, <1>7 DEF Next, Trades

LEMMA RestInit == Init => Watches /\ Feeds
<1> SUFFICES ASSUME Init PROVE Watches /\ Feeds
  OBVIOUS
<1>1. sync.pending = TRUE /\ sync.pc = "wake" /\ \A x \in Worker : worker[x].pc = "off"
  BY BootedFields, Resting DEF Init
<1>2. Watches
  BY <1>1 DEF Watches, Coming, At
<1>3. lock = "none" /\ subscribed = {} /\ loop.pc = "idle" /\ \A l \in Leg : state[l].save = 0
  BY DEF Init, Idle, NoState
<1>4. Symbols(Loaded) = {}
  BY <1>3 DEF Symbols, Loaded
<1>5. Feeds
  BY <1>1, <1>3, <1>4 DEF Feeds, Apart, OnTheirWay, MarkedIsFed, LoadedIsMarked, LoadedIsKept
<1> QED
  BY <1>2, <1>5

\* Whenever the monitor has come to rest it watches every stop that is stored and
\* is fed every stop that it watches, through clears of other legs, calls that
\* time out, reconnects and restarts.
THEOREM RestsWatchful == Spec => []SavedIsFed
<1>1. Watches => SavedIsWatched
  <2> SUFFICES ASSUME Watches, Quiet, failed \cap {"rows", "mode"} = {} PROVE Agrees /\ sync.pc # "store"
    BY DEF SavedIsWatched, Agrees, Known
  <2>1. ~Coming /\ sync.pc = "off"
    BY DEF Watches, Quiet, Coming
  <2> QED
    BY <2>1 DEF Watches
<1>2. Inv /\ (Untorn => Feeds) => WatchedIsFed
  <2> SUFFICES ASSUME Inv, Feeds, Quiet, NEW s \in Symbols(Loaded) PROVE s \in feed
    BY DEF WatchedIsFed, Untorn
  <2>1. sync.pc = "off" /\ loop.pc = "idle" /\ late = << >>
    BY DEF Quiet, Idle
  <2>2. s \in subscribed
    BY <2>1 DEF Feeds, LoadedIsMarked, Marked, Answering, Subscribing
  <2>3. Fed(s)
    BY <2>1, <2>2 DEF Feeds, MarkedIsFed
  <2> QED
    BY <2>1, <2>3, NoneLate DEF Fed
<1> DEFINE J == Inv /\ Watches /\ (Untorn => Feeds)
<1>3. Init => J
  BY InvInit, RestInit
<1>4. J /\ [Next]_vars => J'
  BY InvNext, WatchesNext, FeedsNext DEF Inv
<1>5. J => SavedIsFed
  BY <1>1, <1>2 DEF SavedIsFed
<1> HIDE DEF J
<1> QED
  BY <1>3, <1>4, <1>5, PTL DEF Spec

=============================================================================
