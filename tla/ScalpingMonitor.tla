-------------------------- MODULE ScalpingMonitor --------------------------
(***************************************************************************)
(* The scalping risk monitor (services/scalping_risk_monitor_service.py)   *)
(* with its table of stops (database/scalping_db.py), the requests that    *)
(* save and delete a stop and the exit they lead to (blueprints/           *)
(* scalping.py), and the client of the price feed it runs on               *)
(* (services/websocket_client.py).                                         *)
(*                                                                         *)
(* Request threads, the sync worker, the feed's event loop and the exit    *)
(* workers share _lock.  A call of the feed waits for an answer that only  *)
(* the event loop can take, and the callbacks of ticks and of a reconnect  *)
(* run on that loop.  Whether a price moves or hits a stop is a free       *)
(* choice, and so is what the throttles let through.                       *)
(***************************************************************************)
EXTENDS Integers, Sequences, FiniteSets, Functions

CONSTANTS
    Symbol,    \* symbols of the feed
    Product,   \* products: a symbol may carry a leg of each
    Client,    \* request threads that save and delete stops
    Worker,    \* exit workers that can be under way
    Before,    \* the modes whose stops the table may hold when the monitor first starts
    MaxRequests,\* stops saved and deleted, and changes of the mode, in a behaviour
    MaxEvents   \* failures, restarts, lost connections and trades of the user in a behaviour

Leg == Symbol \X Product
Mode == {"analyze", "live"}
Old == MaxRequests + 1    \* a row of the time before
Ghost == MaxRequests + 2  \* a row that no request has saved

ASSUME MonitorAssumption ==
    /\ IsFiniteSet(Leg) /\ "none" \notin Worker /\ Before \subseteq SUBSET Mode
    /\ MaxRequests \in Nat /\ MaxEvents \in Nat

VARIABLES
    mode,       \* get_analyze_mode
    row,        \* scalping_sl_state: of a leg and a mode, which save, or 0
    state,      \* _states: which save, or 0, and its mode
    lock,       \* the worker that waits for the feed with _lock, or none
    subscribed, \* _subscribed
    feed,       \* the symbols that the proxy sends
    late,       \* calls of the feed that nobody waits for any more
    loop,       \* the event loop: its callback under way
    sync,       \* _sync_pending and the sync worker
    inflight,   \* _exit_inflight
    worker,     \* exit workers
    client,     \* request threads
    net,        \* net quantity of each leg in the sandbox
    resting,    \* exit orders of each leg that the sandbox has not filled yet
    failed,     \* the kinds of failures so far
    cleared,    \* the legs whose row an exit has deleted
    crossed,    \* an exit has passed its guard in another mode, or the mode has changed since
    stale,      \* legs whose book has moved under an exit, or had an order in it when one read it
    torn,       \* the feed was changed while a thread subscribed
    counts      \* requests and events so far

table == <<mode, row>>
book == <<net, resting>>
past == <<failed, cleared, crossed, torn, stale, counts>>
link == <<subscribed, feed, late>>
vars == <<table, state, lock, link, loop, sync, inflight, worker, client, book, past>>

NoState == [save |-> 0, mode |-> "analyze"]
NoWorker == [pc |-> "off", leg |-> << >>, mode |-> "analyze", qty |-> 0]
NoSync == [pending |-> FALSE, pc |-> "off", rows |-> [l \in Leg |-> NoState], mode |-> "analyze",
           wanted |-> {}, add |-> {}, remove |-> {}]
Idle == [pc |-> "idle", syms |-> {}]
Booted == [NoSync EXCEPT !.pending = TRUE, !.pc = "wake"]

Loaded == {l \in Leg : state[l].save # 0}
Symbols(legs) == {l[1] : l \in legs}
Free == {x \in Worker : worker[x] = NoWorker}
Unlocked == lock = "none"

Init ==
    /\ mode = "analyze"
    /\ \E modes \in Before : row = [l \in Leg |-> [m \in Mode |-> IF m \in modes THEN Old ELSE 0]]
    /\ state = [l \in Leg |-> NoState]
    /\ lock = "none"
    /\ subscribed = {} /\ feed = {} /\ late = << >>
    /\ loop = Idle
    /\ sync = Booted
    /\ inflight = {}
    /\ worker = [x \in Worker |-> NoWorker]
    /\ client = [c \in Client |-> "idle"]
    /\ net = [l \in Leg |-> 1] /\ resting = [l \in Leg |-> 0]
    /\ failed = {} /\ cleared = {} /\ stale = {} /\ crossed = FALSE /\ torn = FALSE
    /\ counts = [requests |-> 0, events |-> 0]

Happens ==
    /\ counts.events < MaxEvents
    /\ counts' = [counts EXCEPT !.events = @ + 1]

Fails(kind) ==
    /\ Happens
    /\ failed' = failed \cup {kind}
    /\ UNCHANGED <<cleared, crossed, torn, stale>>

-----------------------------------------------------------------------------
(* The requests upsert_sl and delete_sl.                                   *)

Save(c, l) ==
    /\ client[c] = "idle" /\ counts.requests < MaxRequests
    /\ counts' = [counts EXCEPT !.requests = @ + 1]
    /\ row' = [row EXCEPT ![l][mode] = counts.requests + 1]
    /\ client' = [client EXCEPT ![c] = "notify"]
    /\ UNCHANGED <<mode, state, lock, link, loop, sync, inflight, worker, book, failed, cleared, crossed, torn, stale>>

Delete(c, l) ==
    /\ client[c] = "idle" /\ counts.requests < MaxRequests
    /\ counts' = [counts EXCEPT !.requests = @ + 1]
    /\ row' = [row EXCEPT ![l][mode] = 0]
    /\ client' = [client EXCEPT ![c] = "notify"]
    /\ UNCHANGED <<mode, state, lock, link, loop, sync, inflight, worker, book, failed, cleared, crossed, torn, stale>>

\* request_sync: the flag, and the worker unless it is alive.
Notify(c) ==
    /\ client[c] = "notify"
    /\ client' = [client EXCEPT ![c] = "idle"]
    /\ sync' = [sync EXCEPT !.pending = TRUE, !.pc = IF @ = "off" THEN "wake" ELSE @]
    /\ UNCHANGED <<table, state, lock, link, loop, inflight, worker, book, past>>

-----------------------------------------------------------------------------
(* A call of the feed.  The event loop must be free to send it and to take *)
(* the answer; the caller gives up after twelve seconds, and the call is   *)
(* then made as soon as the loop is free.                                  *)

Blocked == loop.pc = "auth_wait" \/ (loop.pc \in {"tick", "auth", "auth_subscribed"} /\ ~Unlocked)

Send(op, syms) == feed' = IF op = "subscribe" THEN feed \cup syms ELSE feed \ syms

\* The answer of the proxy, or an error, which subscribe returns as a value.
Answered(op, syms) ==
    /\ loop.pc = "idle" /\ late = << >>
    /\ \/ Send(op, syms) /\ UNCHANGED past
       \/ UNCHANGED feed /\ Fails(op)
    /\ UNCHANGED late

TimedOut(op, syms) ==
    /\ Blocked
    /\ late' = Append(late, [op |-> op, syms |-> syms])
    /\ UNCHANGED <<feed, past>>

Called(op, syms) == Answered(op, syms) \/ TimedOut(op, syms)

\* A thread has called subscribe, or is about to, and not yet marked the symbols.
Tears ==
    \/ torn
    \/ sync.pc \in {"subscribe", "subscribed"}
    \/ loop.pc \in {"auth_wait", "auth_subscribed"}

LateCall ==
    /\ loop.pc = "idle" /\ late # << >>
    /\ Send(Head(late).op, Head(late).syms)
    /\ late' = Tail(late)
    /\ UNCHANGED <<table, state, lock, subscribed, loop, sync, inflight, worker, client, book, past>>

-----------------------------------------------------------------------------
(* The sync worker.                                                        *)

SyncAt(pc) == sync.pc = pc
\* The loop is not blocked for longer than one call takes to time out.
SyncCalled(op, syms) == Called(op, syms) /\ (Blocked => late = << >>)

Done == [NoSync EXCEPT !.pending = sync.pending, !.pc = "wake", !.mode = sync.mode]

\* _sync_worker: another round if one has been asked for meanwhile.
SyncWake ==
    /\ SyncAt("wake")
    /\ sync' = [sync EXCEPT !.pending = FALSE, !.pc = IF sync.pending THEN "read" ELSE "off"]
    /\ UNCHANGED <<table, state, lock, link, loop, inflight, worker, client, book, past>>

\* A row as _states keeps it.
Row(l, m) == IF row[l][m] = 0 THEN NoState ELSE [save |-> row[l][m], mode |-> m]

\* What get_active_sl_states returns: the rows of the mode; or, when the mode
\* cannot be read, those of both, of which a leg keeps the one that comes last;
\* a table that cannot be read is taken for an empty one.
SyncRead ==
    /\ SyncAt("read")
    /\ \/ \E which \in [Leg -> Mode] :
             /\ sync' = [sync EXCEPT !.pc = "store", !.mode = mode, !.rows = [l \in Leg |-> Row(l, which[l])]]
             /\ \/ which = [l \in Leg |-> mode] /\ UNCHANGED past
                \/ (\A l \in Leg, m \in Mode : row[l][m] # 0 => row[l][which[l]] # 0) /\ Fails("mode")
       \/ sync' = [sync EXCEPT !.pc = "store", !.mode = mode] /\ Fails("rows")
    /\ UNCHANGED <<table, state, lock, link, loop, inflight, worker, client, book>>

\* _states is replaced by the rows read.
SyncStore ==
    LET wanted == Symbols({l \in Leg : sync.rows[l].save # 0})
        remove == subscribed \ wanted
    IN /\ SyncAt("store") /\ Unlocked
       /\ state' = sync.rows
       /\ sync' = IF wanted # {} THEN [sync EXCEPT !.pc = "ensure", !.wanted = wanted]
                  ELSE IF remove # {} THEN [sync EXCEPT !.pc = "unsubscribe", !.remove = remove]
                  ELSE Done
       /\ UNCHANGED <<table, lock, link, loop, inflight, worker, client, book, past>>

\* _ensure_ws: without a login or a proxy the round ends here.
SyncEnsure ==
    /\ SyncAt("ensure")
    /\ \/ sync' = [sync EXCEPT !.pc = "diff"] /\ UNCHANGED past
       \/ sync' = Done /\ Fails("login")
    /\ UNCHANGED <<table, state, lock, link, loop, inflight, worker, client, book>>

SyncDiff ==
    LET add == sync.wanted \ subscribed
        remove == subscribed \ sync.wanted
    IN /\ SyncAt("diff") /\ Unlocked
       /\ sync' = IF add # {} THEN [sync EXCEPT !.pc = "subscribe", !.add = add, !.remove = remove]
                  ELSE IF remove # {} THEN [sync EXCEPT !.pc = "unsubscribe", !.remove = remove]
                  ELSE Done
       /\ UNCHANGED <<table, state, lock, link, loop, inflight, worker, client, book, past>>

\* The answer of the call is not looked at.
SyncSubscribe ==
    /\ SyncAt("subscribe")
    /\ SyncCalled("subscribe", sync.add)
    /\ sync' = [sync EXCEPT !.pc = "subscribed"]
    /\ UNCHANGED <<table, state, lock, subscribed, loop, inflight, worker, client, book>>

SyncSubscribed ==
    /\ SyncAt("subscribed") /\ Unlocked
    /\ subscribed' = subscribed \cup sync.add
    /\ sync' = IF sync.remove # {} THEN [sync EXCEPT !.pc = "unsubscribe"] ELSE Done
    /\ UNCHANGED <<table, state, lock, feed, late, loop, inflight, worker, client, book, past>>

SyncUnsubscribe ==
    /\ SyncAt("unsubscribe")
    /\ SyncCalled("unsubscribe", sync.remove)
    /\ sync' = [sync EXCEPT !.pc = "unsubscribed"]
    /\ UNCHANGED <<table, state, lock, subscribed, loop, inflight, worker, client, book>>

SyncUnsubscribed ==
    /\ SyncAt("unsubscribed") /\ Unlocked
    /\ subscribed' = subscribed \ sync.remove
    /\ sync' = Done
    /\ UNCHANGED <<table, state, lock, feed, late, loop, inflight, worker, client, book, past>>

-----------------------------------------------------------------------------
(* The callbacks of the event loop.                                        *)

TickArrives(s) ==
    /\ loop.pc = "idle" /\ late = << >> /\ s \in feed
    /\ loop' = [pc |-> "tick", syms |-> {s}]
    /\ UNCHANGED <<table, state, lock, link, sync, inflight, worker, client, book, past>>

\* The stops of the symbols of a tick.
Matches == {l \in Loaded : l[1] \in loop.syms}

Start(legs) ==
    \E f \in Injection(legs, Free) :
        /\ inflight' = inflight \cup legs
        /\ worker' = [x \in Worker |->
               IF \E l \in legs : f[l] = x
               THEN LET l == CHOOSE l \in legs : f[l] = x IN
                    [NoWorker EXCEPT !.pc = "guard", !.leg = l, !.mode = state[l].mode]
               ELSE worker[x]]

\* slip: a leg whose exit is under way is dispatched again
DispatchAgain(hit) == Start(hit)

\* _dispatch_exit for each leg that is hit and has no exit under way
Dispatch(hit) == Start(hit \ inflight)

\* _on_tick: the stops that are hit lead to an exit, of those that move some
\* are persisted.  The upsert inserts a row where there is none.  The stops of
\* another mode are skipped, unless the mode cannot be read.
Tick ==
    /\ loop.pc = "tick" /\ Unlocked
    /\ \E hit \in SUBSET Matches : \E moved \in SUBSET (Matches \ hit) :
          /\ \/ (\A l \in hit \cup moved : state[l].mode = mode) /\ UNCHANGED past
             \/ (\E l \in hit \cup moved : state[l].mode # mode) /\ Fails("mode")
          /\ Dispatch(hit)
          /\ row' = [l \in Leg |-> IF l \in moved /\ row[l][state[l].mode] = 0
                                   THEN [row[l] EXCEPT ![state[l].mode] = Ghost] ELSE row[l]]
    /\ loop' = Idle
    /\ UNCHANGED <<mode, state, lock, link, sync, client, book>>

\* The connection is lost and comes back; the proxy has forgotten it.
Reconnect ==
    /\ loop.pc = "idle"
    /\ Happens
    /\ torn' = Tears
    /\ feed' = {} /\ late' = << >>
    /\ loop' = [Idle EXCEPT !.pc = "auth"]
    /\ UNCHANGED <<table, state, lock, subscribed, sync, inflight, worker, client, book, failed, cleared, crossed, stale>>

\* _on_auth: a snapshot, and a call that the loop makes and waits for.
Auth ==
    /\ loop.pc = "auth" /\ Unlocked
    /\ subscribed' = {}
    /\ loop' = IF subscribed = {} THEN Idle ELSE [pc |-> "auth_wait", syms |-> subscribed]
    /\ UNCHANGED <<table, state, lock, feed, late, sync, inflight, worker, client, book, past>>

AuthSubscribe ==
    /\ loop.pc = "auth_wait"
    /\ TimedOut("subscribe", loop.syms)
    /\ loop' = [loop EXCEPT !.pc = "auth_subscribed"]
    /\ UNCHANGED <<table, state, lock, subscribed, sync, inflight, worker, client, book>>

AuthSubscribed ==
    /\ loop.pc = "auth_subscribed" /\ Unlocked
    /\ subscribed' = subscribed \cup loop.syms
    /\ loop' = Idle
    /\ UNCHANGED <<table, state, lock, feed, late, sync, inflight, worker, client, book, past>>

-----------------------------------------------------------------------------
(* An exit worker.                                                         *)

At(x, pc) == worker[x].pc = pc
Goto(x, pc) == worker' = [worker EXCEPT ![x].pc = pc]

\* The mode must be the stop's, unless it cannot be read, and somebody must be
\* logged in.
Guard(x) ==
    LET other == worker[x].mode # mode IN
    /\ At(x, "guard")
    /\ \/ ~other /\ Goto(x, "read") /\ UNCHANGED past
       \/ other /\ Goto(x, "end") /\ UNCHANGED past
       \/ /\ other /\ Goto(x, "read")
          /\ Happens /\ failed' = failed \cup {"mode"} /\ crossed' = TRUE
          /\ UNCHANGED <<cleared, torn, stale>>
       \/ Goto(x, "end") /\ Fails("login")
    /\ UNCHANGED <<table, state, lock, link, loop, sync, inflight, client, book>>

\* _live_net_qty, in the mode there is now: the broker's answer is its own,
\* and a book that cannot be read is taken for a flat one.  What is on order is
\* not asked for.
ReadBook(x) ==
    LET l == worker[x].leg
        read(q) == worker' = [worker EXCEPT ![x].qty = q, ![x].pc = IF q = 0 THEN "delete" ELSE "exit"]
    IN /\ At(x, "read")
       /\ \/ /\ mode = "analyze" /\ read(net[l])
             /\ stale' = IF resting[l] = 0 THEN stale ELSE stale \cup {l}
             /\ UNCHANGED <<failed, cleared, crossed, torn, counts>>
          \/ mode = "live" /\ (\E q \in {0, 1} : read(q)) /\ UNCHANGED past
          \/ read(0) /\ Fails("book")
       /\ UNCHANGED <<table, state, lock, link, loop, sync, inflight, client, book>>

\* The order for the quantity that was read, in the mode there is now: the
\* sandbox fills it at once, or leaves it open for want of a quote that it trusts.
Filled(l, qty) ==
    IF mode = "analyze" THEN net' = [net EXCEPT ![l] = @ - qty] /\ UNCHANGED resting ELSE UNCHANGED book
Rests(l, qty) == mode = "analyze" /\ resting' = [resting EXCEPT ![l] = @ + qty] /\ UNCHANGED net

\* slip: an exit that was refused clears the stop like one that was placed
ExitCleared(x) ==
    LET l == worker[x].leg
        qty == worker[x].qty
    IN /\ At(x, "exit")
       /\ \/ Filled(l, qty) /\ UNCHANGED past
          \/ Rests(l, qty) /\ Fails("quote")
          \/ Fails("order") /\ UNCHANGED book
       /\ Goto(x, "delete")
       /\ UNCHANGED <<table, state, lock, link, loop, sync, inflight, client>>

\* _reducing_exit: placed; answered with an error, before or after the order was
\* committed; or split into orders that all fail, which split_order still calls
\* a success.
Exit(x) ==
    LET l == worker[x].leg
        qty == worker[x].qty
    IN /\ At(x, "exit")
       /\ \/ Filled(l, qty) /\ Goto(x, "delete") /\ UNCHANGED past
          \/ Rests(l, qty) /\ Goto(x, "delete") /\ Fails("quote")
          \/ (UNCHANGED book \/ Filled(l, qty) \/ Rests(l, qty)) /\ Goto(x, "end") /\ Fails("order")
          \/ Goto(x, "delete") /\ Fails("split") /\ UNCHANGED book
       /\ UNCHANGED <<table, state, lock, link, loop, sync, inflight, client>>

\* _clear_state: the row, whatever it holds by now.
DeleteRow(x) ==
    /\ At(x, "delete")
    /\ row' = [row EXCEPT ![worker[x].leg][worker[x].mode] = 0]
    /\ cleared' = cleared \cup {worker[x].leg}
    /\ Goto(x, "clear")
    /\ UNCHANGED <<mode, state, lock, link, loop, sync, inflight, client, book, failed, crossed, torn, stale, counts>>

\* slip: the feed is dropped although another leg needs the symbol
ClearShared(x) ==
    LET l == worker[x].leg IN
    /\ At(x, "clear") /\ Unlocked
    /\ state' = [state EXCEPT ![l] = NoState]
    /\ lock' = x /\ Goto(x, "unsubscribe")
    /\ torn' = Tears
    /\ UNCHANGED <<table, link, loop, sync, inflight, client, book, failed, cleared, crossed, stale, counts>>

\* The state; the feed is called with the lock held.
Clear(x) ==
    LET l == worker[x].leg IN
    /\ At(x, "clear") /\ Unlocked
    /\ state' = [state EXCEPT ![l] = NoState]
    /\ IF l[1] \in Symbols(Loaded \ {l})
       THEN Goto(x, "end") /\ UNCHANGED <<lock, torn>>
       ELSE Goto(x, "unsubscribe") /\ lock' = x /\ torn' = Tears
    /\ UNCHANGED <<table, link, loop, sync, inflight, client, book, failed, cleared, crossed, stale, counts>>

Unsubscribe(x) ==
    /\ At(x, "unsubscribe")
    /\ Called("unsubscribe", {worker[x].leg[1]})
    /\ subscribed' = subscribed \ {worker[x].leg[1]}
    /\ lock' = "none"
    /\ Goto(x, "end")
    /\ UNCHANGED <<table, state, loop, sync, inflight, client, book>>

\* The finally clause of the worker.
EndExit(x) ==
    /\ At(x, "end")
    /\ inflight' = inflight \ {worker[x].leg}
    /\ worker' = [worker EXCEPT ![x] = NoWorker]
    /\ UNCHANGED <<table, state, lock, link, loop, sync, client, book, past>>

-----------------------------------------------------------------------------
(* The environment.                                                        *)

\* set_analyze_mode
Toggle ==
    /\ counts.requests < MaxRequests
    /\ counts' = [counts EXCEPT !.requests = @ + 1]
    /\ \E m \in Mode \ {mode} : mode' = m
    /\ crossed' = (crossed \/ \E x \in Worker : At(x, "read") \/ At(x, "exit"))
    /\ UNCHANGED <<row, state, lock, link, loop, sync, inflight, worker, client, book, failed, cleared, torn, stale>>

\* An exit of the leg has read its book, and has not ordered or not yet cleared.
Exiting(l) == \E x \in Worker : worker[x].pc \in {"exit", "delete"} /\ worker[x].leg = l

\* The sandbox's engine fills what rests.
Fill(l) ==
    /\ mode = "analyze" /\ resting[l] # 0
    /\ net' = [net EXCEPT ![l] = @ - resting[l]]
    /\ resting' = [resting EXCEPT ![l] = 0]
    /\ UNCHANGED <<table, state, lock, link, loop, sync, inflight, worker, client, past>>

\* What rests is cancelled or rejected.
Dropped(l) ==
    /\ resting[l] # 0
    /\ resting' = [resting EXCEPT ![l] = 0]
    /\ stale' = IF Exiting(l) THEN stale \cup {l} ELSE stale
    /\ UNCHANGED <<table, state, lock, link, loop, sync, inflight, worker, client, net, failed, cleared, crossed, torn, counts>>

\* The user closes the position, or opens one.
UserTrades(l) ==
    /\ mode = "analyze" /\ Happens
    /\ \E q \in {0, 1} \ {net[l]} : net' = [net EXCEPT ![l] = q]
    /\ stale' = IF Exiting(l) \/ resting[l] # 0 THEN stale \cup {l} ELSE stale
    /\ UNCHANGED <<table, state, lock, link, loop, sync, inflight, worker, client, resting, failed, cleared, crossed, torn>>

\* The process ends and starts: start() asks for a sync.
Restart ==
    /\ Fails("restart")
    /\ state' = [l \in Leg |-> NoState]
    /\ lock' = "none"
    /\ subscribed' = {} /\ feed' = {} /\ late' = << >>
    /\ loop' = Idle
    /\ sync' = Booted
    /\ inflight' = {}
    /\ worker' = [x \in Worker |-> NoWorker]
    /\ client' = [c \in Client |-> "idle"]
    /\ UNCHANGED <<table, book>>

Sync ==
    \/ SyncWake \/ SyncRead \/ SyncStore \/ SyncEnsure \/ SyncDiff
    \/ SyncSubscribe \/ SyncSubscribed \/ SyncUnsubscribe \/ SyncUnsubscribed

Callback == Tick \/ Auth \/ AuthSubscribe \/ AuthSubscribed \/ LateCall

ExitLeg(x) ==
    \/ Guard(x) \/ ReadBook(x) \/ Exit(x) \/ DeleteRow(x) \/ Clear(x)
    \/ Unsubscribe(x) \/ EndExit(x)

Next ==
    \/ \E c \in Client : Notify(c) \/ \E l \in Leg : Save(c, l) \/ Delete(c, l)
    \/ Sync
    \/ Callback
    \/ \E s \in Symbol : TickArrives(s)
    \/ \E x \in Worker : ExitLeg(x)
    \/ \E l \in Leg : Fill(l) \/ Dropped(l) \/ UserTrades(l)
    \/ Reconnect \/ Toggle \/ Restart

Spec == Init /\ [][Next]_vars

-----------------------------------------------------------------------------
\* Types of the table, the registries, the threads and the book.
TypeOK ==
    /\ mode \in Mode
    /\ row \in [Leg -> [Mode -> 0 .. Ghost]]
    /\ state \in [Leg -> [save : 0 .. Ghost, mode : Mode]]
    /\ lock \in Worker \cup {"none"}
    /\ subscribed \subseteq Symbol /\ feed \subseteq Symbol
    /\ \A i \in 1 .. Len(late) : late[i].op \in {"subscribe", "unsubscribe"} /\ late[i].syms \subseteq Symbol
    /\ loop.syms \subseteq Symbol
    /\ sync.rows \in [Leg -> [save : 0 .. Ghost, mode : Mode]]
    /\ sync.wanted \subseteq Symbol /\ sync.add \subseteq Symbol /\ sync.remove \subseteq Symbol
    /\ inflight \subseteq Leg
    /\ \A x \in Worker : worker[x] = NoWorker \/ (worker[x].leg \in Leg /\ worker[x].mode \in Mode)
    /\ net \in [Leg -> Int] /\ resting \in [Leg -> Int]

\* A leg has at most one exit under way, through retries, resyncs and clears,
\* and the mark that says so is neither lost nor left behind.
OneExit ==
    /\ TypeOK
    /\ \A x, y \in Worker : worker[x].pc # "off" /\ worker[y].pc # "off" /\ worker[x].leg = worker[y].leg => x = y
    /\ inflight = {worker[x].leg : x \in Worker \ Free}

\* An exit is "sized to the CURRENT live position" (the module's comment): in the
\* sandbox what is on order never exceeds the position, so that no position is
\* sold twice, for a stop that is hit again, saved again, brought back by a
\* resync or found again by a restart. It is not promised for a leg whose book
\* the user has changed between the reading and the order, nor for one that an
\* exit has read while an earlier exit's order was resting, which the book does
\* not show; nor if the trading mode changed, or could not be read, under an exit.
NeverReverses == crossed \/ \A l \in Leg \ stale : resting[l] \in 0 .. net[l]

Clears(x) == At(x, "delete") /\ At(x, "clear")'
Closed(x) ==
    worker[x].mode = "analyze" /\ worker[x].leg \notin stale
        => net[worker[x].leg] = resting[worker[x].leg]

\* An exit that has passed its guard is sent in the mode of the stop that was
\* hit, unless the mode could not be read at the guard or has changed since; and
\* if books can be read and splits place their orders, a stop of the sandbox is
\* cleared only when what is left of the position it protects is on order. (That
\* it is flat is not promised: an accepted order counts as an exit, and it may
\* rest.)
ClearedIsClosed ==
    [][~crossed => \A x \in Worker :
          /\ At(x, "exit") /\ At(x, "delete")' => worker[x].mode = mode
          /\ Clears(x) /\ failed \cap {"book", "split"} = {} => Closed(x)]_vars

Quiet ==
    /\ sync.pc = "off" /\ loop = Idle /\ late = << >> /\ Free = Worker
    /\ \A c \in Client : client[c] = "idle"

\* When everything has come to rest, every stop in memory has its symbol on
\* the feed: after clears of other legs, calls that timed out and reconnects,
\* if no call was answered with an error and none came between a subscription,
\* the sync worker's or the reconnect callback's, and its mark.
WatchedIsFed ==
    Quiet /\ ~torn /\ failed \cap {"subscribe", "login"} = {} => Symbols(Loaded) \subseteq feed

\* No request for a sync is lost: if the table and the mode can be read, the
\* monitor at rest watches the stops that are stored, except for legs that an exit has
\* cleared meanwhile or a late tick has written anew.
SavedIsWatched ==
    Quiet /\ failed \cap {"rows", "mode"} = {} => \A l \in Leg \ cleared :
        row[l][sync.mode] \in {state[l].save, Ghost}

\* A stop that is stored is watched, and one that is watched is fed, whenever the
\* monitor has come to rest, whatever the three threads that drop, ask for and
\* re-establish the feed have done in between.
SavedIsFed == SavedIsWatched /\ WatchedIsFed

=============================================================================
