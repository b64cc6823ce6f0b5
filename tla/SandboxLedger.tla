--------------------------- MODULE SandboxLedger ---------------------------
(***************************************************************************)
(* The sandbox account: what an order blocks in sandbox/fund_manager.py,   *)
(* what it carries into the position when it fills, and what a close, a    *)
(* cancellation, a reconciliation or a reset gives back.  The code is      *)
(* order_manager.py, execution_engine.py, fund_manager.py,                 *)
(* position_manager.close_position and squareoff_manager.py.               *)
(*                                                                         *)
(* One user and one MIS equity symbol, without a GTT.  A share takes Price *)
(* of margin at every price (P&L is left out), and amounts are kept in     *)
(* whole units as the table keeps them to the paisa, so a proportional     *)
(* release rounds.  Threads interleave between their database statements:  *)
(* each holds the rows it has read, and a commit makes it read them again. *)
(***************************************************************************)
EXTENDS Integers, FiniteSets

CONSTANTS
    Order,    \* the orders placed in a behaviour
    Client,   \* request threads and the square-off job
    Poller,   \* threads that run the polling engine
    Capital,  \* starting_capital
    Price,    \* margin of a share
    MaxQty,   \* largest quantity of an order
    MaxFaults \* crashes and failed commits in a behaviour

Thread == Client \cup Poller

ASSUME LedgerAssumption ==
    /\ IsFiniteSet(Order) /\ IsFiniteSet(Thread)
    /\ Client \cap Poller = {}
    /\ "none" \notin Order
    /\ Capital \in Nat /\ Price \in Nat \ {0} /\ MaxQty \in Nat /\ MaxFaults \in Nat

VARIABLES
    funds,  \* available_balance and used_margin
    pos,    \* the position's row: quantity and margin_blocked
    order,  \* the rows of sandbox_orders
    trades, \* the trades recorded for each order
    net,    \* the signed quantity of all trades
    th,     \* where each thread is, and the rows it holds
    alone,  \* no two operations have overlapped, and none has failed
    faults  \* crashes and failed commits so far

book == <<pos, order, trades, net>>
vars == <<funds, book, th, alone, faults>>

Quantity == 1 .. MaxQty
Side == {1, -1}  \* BUY, SELL
Pending == {"open", "trigger pending"}
Status == Pending \cup {"none", "complete", "cancelled", "rejected"}

NoRow == [status |-> "none", side |-> 1, qty |-> 0, margin |-> 0]
NoPosition == [exists |-> FALSE, qty |-> 0, margin |-> 0]

\* o, row: the order in hand and its row as read; seen: the position as read;
\* batch: the rows of the polling engine's cycle, NoRow to be read again;
\* wrote: seen has been given up by a commit; total, was: what
\* reconcile_margin has read of the positions and of the funds
Idle == [pc |-> "idle", o |-> "none", row |-> NoRow, seen |-> NoPosition,
         batch |-> <<>>, wrote |-> FALSE, total |-> 0, was |-> [available |-> 0, used |-> 0]]

Abs(n) == IF n < 0 THEN -n ELSE n

Init ==
    /\ funds = [available |-> Capital, used |-> 0]
    /\ pos = NoPosition
    /\ order = [o \in Order |-> NoRow]
    /\ trades = [o \in Order |-> 0]
    /\ net = 0
    /\ th = [t \in Thread |-> Idle]
    /\ alone = TRUE
    /\ faults = 0

At(t, pc) == th[t].pc = pc
Goto(t, pc) == th' = [th EXCEPT ![t].pc = pc]

\* Through with an order: a client is idle, the engine goes on with its batch.
Leave(t, batch) ==
    th' = [th EXCEPT ![t] = IF DOMAIN batch = {} THEN Idle
                            ELSE [Idle EXCEPT !.pc = "batch", !.batch = batch]]
Skip(t) == Leave(t, th[t].batch)
\* The same after a commit, which makes every row held be read again.
Done(t) == Leave(t, [o \in DOMAIN th[t].batch |-> NoRow])

\* An operation starts: does it overlap another?
Start(t) ==
    /\ At(t, "idle")
    /\ alone' = (alone /\ \A u \in Thread \ {t} : At(u, "idle"))
    /\ UNCHANGED faults
Continue == UNCHANGED <<alone, faults>>

\* The order t works on.
InHand(t, o) == th[t].o = o \/ o \in DOMAIN th[t].batch
Held(o) == \E t \in Thread : InHand(t, o)

-----------------------------------------------------------------------------
(* FundManager: each of these is one transaction under the class lock.     *)

Block(amt) ==
    funds' = [available |-> funds.available - amt, used |-> funds.used + amt]
\* slip: nothing is refused
ReleaseUnguarded(amt) ==
    funds' = [available |-> funds.available + amt, used |-> funds.used - amt]

\* slip: the used margin stops at zero, the cash does not
ReleaseClamped(amt) ==
    funds' = [available |-> funds.available + amt,
              used |-> IF amt > funds.used THEN 0 ELSE funds.used - amt]

Release(amt) ==  \* refused when more than is reserved
    funds' = IF amt > funds.used THEN funds
             ELSE [available |-> funds.available + amt, used |-> funds.used - amt]

Margin(q) == q * Price

\* place_order: shares of an order of side s that add exposure to position p
Exposure(p, s, q) ==
    IF p.qty * s >= 0 THEN q
    ELSE IF q <= Abs(p.qty) THEN 0 ELSE q - Abs(p.qty)

\* slip: a reversal forgets the old position
NettedAnew(p, r) ==
    LET d == r.side * r.qty
        closed == IF Abs(d) < Abs(p.qty) THEN Abs(d) ELSE Abs(p.qty)
        rest == Abs(d) - closed
    IN IF p.qty * d >= 0
       THEN [qty |-> p.qty + d, release |-> 0,
             margin |-> r.margin + (IF p.qty = 0 THEN 0 ELSE p.margin)]
       ELSE LET release == (p.margin * closed) \div Abs(p.qty)
            IN [qty |-> IF rest > 0 THEN d ELSE p.qty + d, release |-> release,
                margin |-> IF rest > 0 THEN (r.margin * rest) \div Abs(d)
                           ELSE p.margin - release]

\* _update_position: the position p after the fill of row r, and the margin
\* released on the way
Netted(p, r) ==
    LET d == r.side * r.qty
        closed == IF Abs(d) < Abs(p.qty) THEN Abs(d) ELSE Abs(p.qty)
        rest == Abs(d) - closed
    IN IF p.qty * d >= 0  \* new, reopened or added to
       THEN [qty |-> p.qty + d, release |-> 0,
             margin |-> r.margin + (IF p.qty = 0 THEN 0 ELSE p.margin)]
       ELSE LET release == (p.margin * closed) \div Abs(p.qty)
            IN [qty |-> p.qty + d, release |-> release,
                margin |-> IF rest > 0 THEN (r.margin * rest) \div Abs(d)
                           ELSE p.margin - release]

-----------------------------------------------------------------------------
(* OrderManager.place_order.                                               *)

Fresh(o) == order[o].status = "none" /\ ~Held(o)

\* The position is read before the quote is asked for, and kept.
Place(t, o, side, q) ==
    /\ t \in Client /\ Fresh(o) /\ Start(t)
    /\ th' = [th EXCEPT ![t] = [Idle EXCEPT
                 !.pc = "price", !.o = o, !.seen = pos,
                 !.row = [NoRow EXCEPT !.side = side, !.qty = q]]]
    /\ UNCHANGED <<funds, book>>

\* close_position, as the square-off calls it: the opposite market order.
ClosePosition(t, o) ==
    /\ t \in Client /\ Fresh(o) /\ Start(t)
    /\ pos.qty # 0
    /\ th' = [th EXCEPT ![t] = [Idle EXCEPT
                 !.pc = "price", !.o = o, !.seen = pos,
                 !.row = [NoRow EXCEPT !.side = IF pos.qty > 0 THEN -1 ELSE 1,
                                       !.qty = Abs(pos.qty)]]]
    /\ UNCHANGED <<funds, book>>

\* No quote and no last price, or too little available: nothing is recorded.
PlaceFails(t) ==
    /\ At(t, "price") /\ Continue
    /\ Skip(t)
    /\ UNCHANGED <<funds, book>>

BlockMargin(t) ==
    LET need == Margin(Exposure(th[t].seen, th[t].row.side, th[t].row.qty))
    IN /\ At(t, "price") /\ Continue
       /\ need <= funds.available
       /\ Block(need)
       /\ th' = [th EXCEPT ![t].pc = "insert", ![t].row.margin = need, ![t].seen = NoPosition]
       /\ UNCHANGED book

\* A market order goes on to _process_order, a marketable one straight to its
\* fill; a quote outside the day's range leaves either open, as it does a limit
\* not met; a trigger not met rests in the stop-loss book.
InsertOrder(t) ==
    LET Insert(s) == order' = [order EXCEPT ![th[t].o] = [th[t].row EXCEPT !.status = s]]
    IN /\ At(t, "insert") /\ Continue
       /\ \/ /\ Insert("open")
             /\ \E pc \in {"check", "trade"} :
                   th' = [th EXCEPT ![t].pc = pc, ![t].row.status = "open"]
          \/ \E s \in Pending : Insert(s) /\ Done(t)
       /\ UNCHANGED <<funds, pos, trades, net>>

-----------------------------------------------------------------------------
(* ExecutionEngine: the fill, by whichever thread has the order in hand.   *)

\* _process_order: an order with a trade is only marked complete.
CheckTrade(t) ==
    LET o == th[t].o IN
    /\ At(t, "check") /\ Continue
    /\ IF trades[o] = 0
       THEN Goto(t, "price_met") /\ UNCHANGED order
       ELSE IF th[t].row.status = "open"
       THEN order' = [order EXCEPT ![o].status = "complete"] /\ Done(t)
       ELSE Skip(t) /\ UNCHANGED order
    /\ UNCHANGED <<funds, pos, trades, net>>

\* The price is not met, or the quote is not to be trusted.
PriceNotMet(t) ==
    /\ At(t, "price_met") /\ Continue
    /\ Skip(t)
    /\ UNCHANGED <<funds, book>>

PriceMet(t) ==
    /\ At(t, "price_met") /\ Continue
    /\ Goto(t, "trade")
    /\ UNCHANGED <<funds, book>>

\* slip: any order that is not filled goes back to the book
TriggerUnread(t) ==
    /\ At(t, "price_met") /\ Continue
    /\ order' = [order EXCEPT ![th[t].o].status = "open"]
    /\ Done(t)
    /\ UNCHANGED <<funds, pos, trades, net>>

\* _process_trigger_pending_order, the limit not yet satisfiable.
Trigger(t) ==
    /\ At(t, "price_met") /\ Continue
    /\ th[t].row.status = "trigger pending"
    /\ order' = [order EXCEPT ![th[t].o].status = "open"]
    /\ Done(t)
    /\ UNCHANGED <<funds, pos, trades, net>>

\* _execute_order: the trade and the status in one commit.
RecordTrade(t) ==
    LET o == th[t].o IN
    /\ At(t, "trade") /\ Continue
    /\ order' = [order EXCEPT ![o].status = "complete"]
    /\ trades' = [trades EXCEPT ![o] = @ + 1]
    /\ net' = net + th[t].row.side * th[t].row.qty
    /\ th' = [th EXCEPT ![t].pc = "read", ![t].row = NoRow]
    /\ UNCHANGED <<funds, pos>>

\* _update_position reads the order and the position again.
ReadPosition(t) ==
    LET row == order[th[t].o] IN
    /\ At(t, "read") /\ Continue
    /\ th' = [th EXCEPT ![t].pc = IF Netted(pos, row).release > 0 THEN "release" ELSE "write",
                        ![t].row = row, ![t].seen = pos]
    /\ UNCHANGED <<funds, book>>

ReleaseMargin(t) ==
    /\ At(t, "release") /\ Continue
    /\ Release(Netted(th[t].seen, th[t].row).release)
    /\ th' = [th EXCEPT ![t].pc = "write",
                        ![t].wrote = Netted(th[t].seen, th[t].row).release <= funds.used]
    /\ UNCHANGED book

\* Only the columns that differ from what was read are written; a second row
\* for the position breaks its unique key.
WritePosition(t) ==
    LET new == Netted(th[t].seen, th[t].row) IN
    /\ At(t, "write") /\ Continue
    /\ th[t].seen.exists = pos.exists
    /\ pos' = [exists |-> TRUE, qty |-> new.qty,
               margin |-> IF th[t].wrote \/ new.margin # th[t].seen.margin
                          THEN new.margin ELSE pos.margin]
    /\ th' = [th EXCEPT ![t].pc = "validate", ![t].row = NoRow, ![t].seen = NoPosition,
                        ![t].wrote = FALSE]
    /\ UNCHANGED <<funds, order, trades, net>>

\* The update of the position raises, by its key or because the database is
\* locked: the trade stays and the order is marked rejected.
FillFails(t) ==
    /\ \/ At(t, "read") \/ At(t, "write")
    /\ \/ /\ At(t, "write") /\ th[t].seen.exists # pos.exists
          /\ UNCHANGED faults
       \/ /\ faults < MaxFaults
          /\ faults' = faults + 1
    /\ alone' = FALSE
    /\ order' = [order EXCEPT ![th[t].o].status = "rejected"]
    /\ Done(t)
    /\ UNCHANGED <<funds, pos, trades, net>>

\* validate_margin_consistency, then the reads of reconcile_margin: positions
\* and GTTs count, resting orders do not.
Total == IF pos.qty = 0 THEN 0 ELSE pos.margin

\* slip: only a deficit is repaired
ValidateDeficit(t) ==
    /\ At(t, "validate") /\ Continue
    /\ IF funds.used >= Total
       THEN Done(t)
       ELSE th' = [th EXCEPT ![t].pc = "reconcile", ![t].total = Total, ![t].was = funds]
    /\ UNCHANGED <<funds, book>>

Validate(t) ==
    /\ At(t, "validate") /\ Continue
    /\ IF funds.used = Total
       THEN Done(t)
       ELSE th' = [th EXCEPT ![t].pc = "reconcile", ![t].total = Total, ![t].was = funds]
    /\ UNCHANGED <<funds, book>>

\* reconcile_margin does not take the lock of the funds.
Reconcile(t) ==
    LET was == th[t].was IN
    /\ At(t, "reconcile") /\ Continue
    /\ funds' = [used |-> th[t].total,
                 available |-> was.available + was.used - th[t].total]
    /\ Done(t)
    /\ UNCHANGED book

-----------------------------------------------------------------------------
(* check_and_execute_pending_orders: one cycle of the polling engine.      *)

\* slip: only complete orders are left out
StartCycleUnfiltered(t) ==
    LET S == {o \in Order : order[o].status \notin {"none", "complete"}}
    IN /\ t \in Poller /\ Start(t)
       /\ S # {}
       /\ Leave(t, [o \in S |-> order[o]])
       /\ UNCHANGED <<funds, book>>

StartCycle(t) ==
    LET S == {o \in Order : order[o].status \in Pending}
    IN /\ t \in Poller /\ Start(t)
       /\ S # {}
       /\ Leave(t, [o \in S |-> order[o]])
       /\ UNCHANGED <<funds, book>>

\* Next order of the batch, once the quotes are there.  Nothing asks whether
\* it is still pending.
PickOrder(t, o) ==
    LET batch == th[t].batch IN
    /\ At(t, "batch") /\ o \in DOMAIN batch /\ Continue
    /\ th' = [th EXCEPT ![t].pc = "check", ![t].o = o,
                        ![t].row = IF batch[o] = NoRow THEN order[o] ELSE batch[o],
                        ![t].batch = [p \in DOMAIN batch \ {o} |-> batch[p]]]
    /\ UNCHANGED <<funds, book>>

-----------------------------------------------------------------------------
(* cancel_order, by a request or by the square-off job, and modify_order.  *)

ReadToCancel(t, o) ==
    /\ t \in Client /\ Start(t)
    /\ order[o].status \in Pending
    /\ th' = [th EXCEPT ![t] = [Idle EXCEPT !.pc = "cancel", !.o = o, !.row = order[o]]]
    /\ UNCHANGED <<funds, book>>

\* A margin of zero reads as "not recorded", and the whole order's is released.
CancelOrder(t) ==
    LET row == th[t].row IN
    /\ At(t, "cancel") /\ Continue
    /\ order' = [order EXCEPT ![th[t].o].status = "cancelled"]
    /\ Release(IF row.margin > 0 THEN row.margin ELSE Margin(row.qty))
    /\ Done(t)
    /\ UNCHANGED <<pos, trades, net>>

ReadToModify(t, o) ==
    /\ t \in Client /\ Start(t)
    /\ order[o].status \in Pending
    /\ th' = [th EXCEPT ![t] = [Idle EXCEPT !.pc = "modify", !.o = o, !.row = order[o]]]
    /\ UNCHANGED <<funds, book>>

\* The margin stays that of the old quantity.
ModifyOrder(t, q) ==
    /\ At(t, "modify") /\ Continue
    /\ q # th[t].row.qty
    /\ order' = [order EXCEPT ![th[t].o].qty = q]
    /\ Done(t)
    /\ UNCHANGED <<funds, pos, trades, net>>

-----------------------------------------------------------------------------
(* _reset_funds: the funds, then the positions.                            *)

ResetFunds(t) ==
    /\ t \in Client /\ Start(t)
    /\ funds' = [available |-> Capital, used |-> 0]
    /\ th' = [th EXCEPT ![t].pc = "delete"]
    /\ UNCHANGED book

DeletePositions(t) ==
    /\ At(t, "delete") /\ Continue
    /\ pos' = NoPosition
    /\ net' = 0
    /\ Done(t)
    /\ UNCHANGED <<funds, order, trades>>

\* The process is killed: what is committed stays.
Crash ==
    /\ faults < MaxFaults
    /\ faults' = faults + 1
    /\ th' = [t \in Thread |-> Idle]
    /\ alone' = (alone /\ \A t \in Thread : At(t, "idle"))
    /\ UNCHANGED <<funds, book>>

-----------------------------------------------------------------------------
Request(t) ==
    \/ \E o \in Order :
          \/ \E s \in Side, q \in Quantity : Place(t, o, s, q)
          \/ ClosePosition(t, o)
          \/ ReadToCancel(t, o)
          \/ ReadToModify(t, o)
    \/ ResetFunds(t)

Work(t) ==
    \/ PlaceFails(t) \/ BlockMargin(t) \/ InsertOrder(t)
    \/ CheckTrade(t) \/ PriceNotMet(t) \/ PriceMet(t) \/ Trigger(t)
    \/ RecordTrade(t) \/ ReadPosition(t) \/ ReleaseMargin(t) \/ WritePosition(t)
    \/ Validate(t) \/ Reconcile(t)
    \/ \E o \in Order : PickOrder(t, o)
    \/ CancelOrder(t)
    \/ \E q \in Quantity : ModifyOrder(t, q)
    \/ DeletePositions(t)

Next ==
    \/ \E t \in Thread : Request(t) \/ StartCycle(t) \/ Work(t) \/ FillFails(t)
    \/ Crash

Spec == Init /\ [][Next]_vars

-----------------------------------------------------------------------------
Pc == {"idle", "price", "insert", "check", "price_met", "trade", "read", "release",
       "write", "validate", "reconcile", "batch", "cancel", "modify", "delete"}
Row == [status : Status, side : Side, qty : Nat, margin : Nat]
Position == [exists : BOOLEAN, qty : Int, margin : Int]
Account == [available : Int, used : Int]

\* Types of the account, the tables and the threads.
TypeOK ==
    /\ funds \in Account
    /\ pos \in Position
    /\ order \in [Order -> Row]
    /\ trades \in [Order -> Nat]
    /\ net \in Int
    /\ \A t \in Thread :
          /\ th[t].pc \in Pc
          /\ th[t].o \in Order \cup {"none"}
          /\ th[t].row \in Row
          /\ th[t].seen \in Position
          /\ DOMAIN th[t].batch \subseteq Order
          /\ \A o \in DOMAIN th[t].batch : th[t].batch[o] \in Row
          /\ th[t].wrote \in BOOLEAN
          /\ th[t].total \in Int
          /\ th[t].was \in Account
    /\ alone \in BOOLEAN
    /\ faults \in 0 .. MaxFaults

\* No order of fills, cancellations, reconciliations and resets by several
\* threads releases more than is reserved: the used margin, and a
\* position's, never go below zero.
NoOverRelease == funds.used >= 0 /\ pos.margin >= 0

\* Margin only moves between the two balances: whatever release was
\* refused, whatever unlocked reconciliation wrote over another thread's
\* block, no cash is made or lost.
CashAddsUp == funds.available + funds.used = Capital

\* The trade and the status are one commit: an order counts as complete
\* only with a trade, and none that has traded goes back to the book, even
\* when a request's own fill and the polling engine race for it.
BookMatchesTrades ==
    /\ TypeOK
    /\ \A o \in Order :
          /\ order[o].status = "complete" => trades[o] > 0
          /\ order[o].status \in Pending => trades[o] = 0

Terminal(o) == order[o].status \in {"complete", "cancelled", "rejected"}

\* A cancelled or filled order can still be filled by a thread that has it
\* in hand; once no thread has, it is never picked up, written or traded
\* again.
TerminalIsFinal ==
    [][\A o \in Order : Terminal(o) /\ ~Held(o)
          => order'[o] = order[o] /\ trades'[o] = trades[o] /\ ~Held(o)']_vars

Quiet == \A t \in Thread : At(t, "idle")

\* As long as no two operations have overlapped and none has failed, every
\* order trades at most once, exactly when it is complete, and the position
\* is the net of the trades, through partial closes, reversals, changed
\* quantities and square-offs.
AloneIsExact ==
    alone /\ Quiet =>
        /\ pos.qty = net
        /\ \A o \in Order : trades[o] = IF order[o].status = "complete" THEN 1 ELSE 0

\* A fill that nothing disturbs leaves the used margin at that of the
\* position: it repairs what an earlier cancellation or reversal left.
FillReconciles ==
    [][\A t \in Thread :
          alone' /\ th[t].pc \in {"validate", "reconcile"} /\ At(t, "idle")'
             => funds'.used = Total']_vars

\* "Release blocked margin using the exact amount that was blocked"
\* (order_manager.py): after a cancellation the open position is still
\* covered by the used margin, with no two operations at once.
PositionIsMargined == alone /\ Quiet => funds.used >= Total

=============================================================================
