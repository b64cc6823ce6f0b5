------------------------------ MODULE WSEngine ------------------------------
(***************************************************************************)
(* The WebSocket execution engine of sandbox/websocket_execution_engine.py *)
(* with the code that feeds it: place_order and cancel_order, the fill in  *)
(* sandbox/execution_engine.py, and the polling engine that takes over     *)
(* when market data is stale.                                              *)
(*                                                                         *)
(* One user and one symbol, with no GTT on it: indexes and refcounts are   *)
(* kept by user and symbol, and only those of one pair interact.  Margin   *)
(* is left out.  The position's row exists, as it does once the symbol has *)
(* been traded.  Ticks arrive on an operating-system thread, so a thread's *)
(* steps are its database reads, its commits, its critical sections and    *)
(* its calls to the feed.                                                  *)
(***************************************************************************)
EXTENDS Integers, FiniteSets

CONSTANTS
    Order,   \* the orders placed in a behaviour
    Client,  \* request threads
    Ticker,  \* the thread that delivers ticks
    Poller,  \* the fallback polling thread
    Faults   \* "fallback": both engines run; "fill_fails": the commit of a
             \* position fails; "refresh_fails": the read of a status fails

Thread == Client \cup {Ticker, Poller}

ASSUME WSEngineAssumption ==
    /\ IsFiniteSet(Order)
    /\ Ticker # Poller
    /\ {Ticker, Poller} \cap Client = {}
    /\ Faults \subseteq {"fallback", "fill_fails", "refresh_fails"}

VARIABLES
    status,  \* order_status, "trigger pending" counted as open
    side,    \* 1 for a BUY, -1 for a SELL
    trades,  \* trades recorded for each order
    pos,     \* the position's quantity
    watch,   \* _pending_orders_index of the symbol
    posref,  \* the symbol is in _position_refs
    refs,    \* _user_symbol_refcounts of the symbol
    feed,    \* the proxy sends us the symbol
    untold,  \* ghost: open orders of requests that failed before they told the engine
    th       \* where each thread is

book == <<status, side, trades, pos>>
index == <<watch, posref, refs>>
vars == <<book, index, feed, untold, th>>

Pc == {"idle", "cancel", "todo", "check", "trade", "read", "write", "feed", "opened",
       "flat", "closed", "refresh", "notify", "drop", "subscribe", "unsubscribe",
       "subscribe_position", "unsubscribe_position"}
Idle == [pc |-> "idle", o |-> "none", todo |-> {}, qty |-> 0]

Todo(S) == [pc |-> "todo", o |-> "none", todo |-> S, qty |-> 0]
With(pc, o, todo, qty) == [pc |-> pc, o |-> o, todo |-> todo, qty |-> qty]

Init ==
    /\ status = [o \in Order |-> "none"]
    /\ side = [o \in Order |-> 1]
    /\ trades = [o \in Order |-> 0]
    /\ pos = 0
    /\ watch = {}
    /\ posref = FALSE
    /\ refs = 0
    /\ feed = FALSE
    /\ untold = {}
    /\ th = [t \in Thread |-> Idle]

At(t, pc) == th[t].pc = pc
Goto(t, pc) == th' = [th EXCEPT ![t].pc = pc]

\* Through with an order: a request is answered, an engine takes the next one.
Rest(t) == IF t \in Client THEN th' = [th EXCEPT ![t] = Idle] ELSE Goto(t, "todo")
\* Through with a fill: the status is read again, but not by the polling engine.
Filled(t) == Goto(t, IF t = Poller THEN "todo" ELSE "refresh")

\* _decrement_user_symbol_refcount
Less(n) == IF n = 0 THEN 0 ELSE n - 1

-----------------------------------------------------------------------------
(* Requests *)

\* slip: the engine is told before the order is executed
PlaceNotifies(c, o) ==
    /\ At(c, "idle")
    /\ status[o] = "none"
    /\ status' = [status EXCEPT ![o] = "open"]
    /\ watch' = watch \cup {o}
    /\ refs' = refs + 1
    /\ feed' = TRUE
    /\ \E pc \in {"check", "trade"} :
         th' = [th EXCEPT ![c] = With(pc, o, {}, 0)]
    /\ UNCHANGED <<side, trades, pos, posref, untold>>

\* place_order commits the row; a MARKET order is processed at once, a
\* marketable LIMIT or SL order is executed at once, any other one rests.
Place(c, o) ==
    /\ At(c, "idle")
    /\ status[o] = "none"
    /\ status' = [status EXCEPT ![o] = "open"]
    /\ \E s \in {1, -1} : side' = [side EXCEPT ![o] = s]
    /\ \E pc \in {"check", "trade", "refresh"} :
         th' = [th EXCEPT ![c] = With(pc, o, {}, 0)]
    /\ UNCHANGED <<trades, pos, index, feed, untold>>

\* cancel_order reads the row, and writes it by its key.
Cancel(c, o) ==
    /\ At(c, "idle")
    /\ status[o] = "open"
    /\ th' = [th EXCEPT ![c] = With("cancel", o, {}, 0)]
    /\ UNCHANGED <<book, index, feed, untold>>
CancelCommit(c) ==
    /\ At(c, "cancel")
    /\ status' = [status EXCEPT ![th[c].o] = "cancelled"]
    /\ Rest(c)
    /\ UNCHANGED <<side, trades, pos, index, feed, untold>>

-----------------------------------------------------------------------------
(* The engines *)

\* _on_market_data copies the index under the lock;
\* check_and_execute_pending_orders reads the open orders, then fetches quotes.
Look(t) ==
    /\ At(t, "idle")
    /\ \/ t = Ticker /\ feed /\ th' = [th EXCEPT ![t] = Todo(watch)]
       \/ /\ t = Poller
          /\ "fallback" \in Faults
          /\ th' = [th EXCEPT ![t] = Todo({o \in Order : status[o] = "open"})]
    /\ UNCHANGED <<book, index, feed, untold>>

\* The next order.  The tick thread reads its row and drops an order that is not
\* open; the polling engine does not look at the status again.  Nothing happens
\* to an order whose price is not met.
Take(t) ==
    /\ At(t, "todo")
    /\ IF th[t].todo = {} THEN th' = [th EXCEPT ![t] = Idle]
       ELSE \E o \in th[t].todo :
              \E pc \in (IF t = Ticker /\ status[o] # "open" THEN {"drop"}
                         ELSE {"check", "todo"}) :
                th' = [th EXCEPT ![t] = With(pc, o, th[t].todo \ {o}, 0)]
    /\ UNCHANGED <<book, index, feed, untold>>

\* _process_order: an order that has a trade is not filled again.  Its status is
\* completed if the thread's copy of the row says open: the tick thread's does, a
\* client's has just been read, and the polling engine's may be either.
Check(t) ==
    LET o == th[t].o IN
    /\ At(t, "check")
    /\ \/ trades[o] = 0 /\ Goto(t, "trade") /\ UNCHANGED status
       \/ /\ trades[o] > 0
          /\ t \in Client => status[o] = "open"
          /\ status' = [status EXCEPT ![o] = "complete"]
          /\ Filled(t)
       \/ /\ trades[o] > 0 /\ t # Ticker /\ status[o] # "open"
          /\ Filled(t)
          /\ UNCHANGED status
    /\ UNCHANGED <<side, trades, pos, index, feed, untold>>

\* _execute_order commits the trade and the status, an UPDATE by key.
Trade(t) ==
    LET o == th[t].o IN
    /\ At(t, "trade")
    /\ trades' = [trades EXCEPT ![o] = @ + 1]
    /\ status' = [status EXCEPT ![o] = "complete"]
    /\ Goto(t, "read")
    /\ UNCHANGED <<side, pos, index, feed, untold>>

\* _update_position reads the position, and commits the sum it computed; a commit
\* that fails makes the order rejected.
ReadPosition(t) ==
    /\ At(t, "read")
    /\ th' = [th EXCEPT ![t] = With("write", th[t].o, th[t].todo, pos + side[th[t].o])]
    /\ UNCHANGED <<book, index, feed, untold>>
WritePosition(t) ==
    /\ At(t, "write")
    /\ \/ pos' = th[t].qty /\ Goto(t, "feed") /\ UNCHANGED status
       \/ /\ "fill_fails" \in Faults
          /\ status' = [status EXCEPT ![th[t].o] = "rejected"]
          /\ Filled(t)
          /\ UNCHANGED pos
    /\ UNCHANGED <<side, trades, index, feed, untold>>

-----------------------------------------------------------------------------
(* The position's reference to the feed *)

\* has_open, before notify_position_opened or notify_position_closed
HasOpen(t) ==
    /\ At(t, "feed")
    /\ Goto(t, IF pos # 0 THEN "opened" ELSE "flat")
    /\ UNCHANGED <<book, index, feed, untold>>

\* slip: every fill takes a reference
OpenedAgain(t) ==
    /\ At(t, "opened")
    /\ posref' = TRUE
    /\ refs' = refs + 1
    /\ IF refs = 0 THEN Goto(t, "subscribe_position") ELSE Filled(t)
    /\ UNCHANGED <<book, watch, feed, untold>>

Opened(t) ==
    /\ At(t, "opened")
    /\ posref' = TRUE
    /\ refs' = IF posref THEN refs ELSE refs + 1
    /\ IF ~posref /\ refs = 0 THEN Goto(t, "subscribe_position") ELSE Filled(t)
    /\ UNCHANGED <<book, watch, feed, untold>>

\* notify_position_closed looks at the position again before it takes the lock.
Flat(t) ==
    /\ At(t, "flat")
    /\ IF pos # 0 THEN Filled(t) ELSE Goto(t, "closed")
    /\ UNCHANGED <<book, index, feed, untold>>
Closed(t) ==
    /\ At(t, "closed")
    /\ posref' = FALSE
    /\ refs' = IF posref THEN Less(refs) ELSE refs
    /\ IF posref /\ refs = 1 THEN Goto(t, "unsubscribe_position") ELSE Filled(t)
    /\ UNCHANGED <<book, watch, feed, untold>>

-----------------------------------------------------------------------------
(* The order's reference to the feed *)

\* The status is read again: a request tells the engine of an order that still
\* rests, the tick thread drops one that does not.  A read that fails ends the
\* request with an error, and the order rests unknown to the engine; the tick
\* thread drops its order at the next tick.
Refresh(t) ==
    LET open == status[th[t].o] = "open" IN
    /\ At(t, "refresh")
    /\ \/ t \in Client /\ open /\ Goto(t, "notify") /\ UNCHANGED untold
       \/ t = Ticker /\ ~open /\ Goto(t, "drop") /\ UNCHANGED untold
       \/ (t \in Client) # open /\ Rest(t) /\ UNCHANGED untold
       \/ /\ "refresh_fails" \in Faults
          /\ untold' = IF t \in Client /\ open THEN untold \cup {th[t].o} ELSE untold
          /\ Rest(t)
    /\ UNCHANGED <<book, index, feed>>

\* notify_order_placed
Notify(t) ==
    /\ At(t, "notify")
    /\ watch' = watch \cup {th[t].o}
    /\ refs' = refs + 1
    /\ IF refs = 0 THEN Goto(t, "subscribe") ELSE Rest(t)
    /\ UNCHANGED <<book, posref, feed, untold>>

\* slip: the symbol leaves the index with the first of its orders
DropSymbol(t) ==
    /\ At(t, "drop")
    /\ watch' = {}
    /\ refs' = Less(refs)
    /\ IF refs = 1 THEN Goto(t, "unsubscribe") ELSE Rest(t)
    /\ UNCHANGED <<book, posref, feed, untold>>

\* notify_order_completed
Drop(t) ==
    /\ At(t, "drop")
    /\ watch' = watch \ {th[t].o}
    /\ refs' = Less(refs)
    /\ IF refs = 1 THEN Goto(t, "unsubscribe") ELSE Rest(t)
    /\ UNCHANGED <<book, posref, feed, untold>>

\* The calls to the feed are made outside the lock.
Subscribe(t) ==
    /\ th[t].pc \in {"subscribe", "subscribe_position"}
    /\ feed' = TRUE
    /\ IF At(t, "subscribe") THEN Rest(t) ELSE Filled(t)
    /\ UNCHANGED <<book, index, untold>>
Unsubscribe(t) ==
    /\ th[t].pc \in {"unsubscribe", "unsubscribe_position"}
    /\ feed' = FALSE
    /\ IF At(t, "unsubscribe") THEN Rest(t) ELSE Filled(t)
    /\ UNCHANGED <<book, index, untold>>

-----------------------------------------------------------------------------
Step(t) ==
    \/ Look(t)
    \/ Take(t)
    \/ Check(t)
    \/ Trade(t)
    \/ ReadPosition(t)
    \/ WritePosition(t)
    \/ HasOpen(t)
    \/ Opened(t)
    \/ Flat(t)
    \/ Closed(t)
    \/ Refresh(t)
    \/ Notify(t)
    \/ Drop(t)
    \/ Subscribe(t)
    \/ Unsubscribe(t)

Next ==
    \/ \E c \in Client, o \in Order : Place(c, o)
    \/ \E c \in Client, o \in Order : Cancel(c, o)
    \/ \E c \in Client : CancelCommit(c)
    \/ \E t \in Thread : Step(t)

Spec == Init /\ [][Next]_vars

-----------------------------------------------------------------------------
\* The shape of the state: a thread between two steps of a fill has an order.
TypeOK ==
    /\ status \in [Order -> {"none", "open", "complete", "cancelled", "rejected"}]
    /\ side \in [Order -> {1, -1}]
    /\ trades \in [Order -> Nat]
    /\ pos \in Int
    /\ watch \subseteq Order
    /\ posref \in BOOLEAN
    /\ refs \in Nat
    /\ feed \in BOOLEAN
    /\ untold \subseteq Order
    /\ th \in [Thread -> [pc : Pc, o : Order \cup {"none"}, todo : SUBSET Order, qty : Int]]
    /\ \A t \in Thread : th[t].pc \notin {"idle", "todo"} => th[t].o \in Order

\* An order is filled once: "notify AFTER the immediate execution" keeps the tick
\* thread off an order that the request is filling, as long as only one engine
\* runs.
FillsOnce == \A o \in Order : trades[o] <= 1

\* A request that has yet to tell the engine of its order.
Placing(c, o) ==
    th[c].o = o /\ th[c].pc \notin {"idle", "cancel", "subscribe"}

\* An open order is in the index of the engine, or the request that placed it is
\* about to put it there: none is forgotten, however ticks, fills and
\* cancellations fall, but for an order whose request fails as it reads the status
\* back, and is answered with an error.
OpenIsWatched ==
    \A o \in Order \ untold : status[o] = "open" =>
        o \in watch \/ \E c \in Client : Placing(c, o)

\* The refcount is the number of orders in the index and of positions that hold
\* the feed, so the symbol is dropped with its last user and not before.
RefsExact == refs = Cardinality(watch) + (IF posref THEN 1 ELSE 0)

\* "Open POSITIONS hold a feed subscription just like open orders do": unless a
\* call to the feed is on its way, a symbol somebody counts on is subscribed.
CountedIsFed ==
    refs > 0 =>
        \/ feed
        \/ \E t \in Thread : th[t].pc \in {"subscribe", "subscribe_position"}
=============================================================================
