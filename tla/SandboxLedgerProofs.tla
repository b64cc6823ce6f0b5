------------------------ MODULE SandboxLedgerProofs ------------------------
(***************************************************************************)
(* That the sandbox account makes and loses no cash and releases nothing   *)
(* that is not reserved; that an order which has ended and which no thread *)
(* holds stays as it is; that without overlaps the tables are exact and a  *)
(* fill leaves the right margin; and, with one polling engine, that the    *)
(* book and the trades agree.  All of it for any number of orders and of   *)
(* request threads, any prices and quantities, and any crashes.            *)
(***************************************************************************)
EXTENDS SandboxLedger, TLAPS

\* Accounts whose two balances make up the capital, and positions with a
\* margin of zero or more: what the tables hold and what threads have read.
Sound == {a \in Account : a.used >= 0 /\ a.available + a.used = Capital}
Margined == [exists : BOOLEAN, qty : Int, margin : Nat]
Batch == UNION {[S -> Row] : S \in SUBSET Order}
State == [pc : Pc, o : Order \cup {"none"}, row : Row, seen : Margined, batch : Batch,
          wrote : BOOLEAN, total : Nat, was : Account]

\* A thread in the middle of an operation on an order knows which, and what
\* reconcile_margin goes by are balances the account has had.
Working ==
    {s \in State : /\ s.pc \notin {"idle", "batch", "delete"} => s.o \in Order
                   /\ s.pc = "reconcile" => s.was \in Sound}

Tables ==
    /\ funds \in Sound
    /\ pos \in Margined
    /\ order \in [Order -> Row]
    /\ trades \in [Order -> Nat]
    /\ net \in Int
    /\ alone \in BOOLEAN
    /\ faults \in 0 .. MaxFaults

Inv == Tables /\ th \in [Thread -> Working]

-----------------------------------------------------------------------------
\* A share of a Nat, rounded down, is a Nat and no more than the whole.
LEMMA ShareOf ==
    ASSUME NEW m \in Nat, NEW c \in Nat, NEW q \in Nat \ {0}, c <= q
    PROVE  (m * c) \div q \in Nat /\ (m * c) \div q <= m
<1> DEFINE d == (m * c) \div q
<1>1. m * c \in Nat
    BY SMT
<1>2. d \in Int /\ q * d <= m * c /\ m * c < q * d + q
    BY <1>1, SMT
<1>3. m * c <= m * q
    BY SMT
<1>4. d <= m
  <2>1. SUFFICES ASSUME d >= m + 1 PROVE FALSE
      BY <1>2, SMT
  <2> HIDE DEF d
  <2>2. q * d >= q * (m + 1)
      BY <1>2, <2>1, SMT
  <2>3. q * (m + 1) = m * q + q
      BY SMT
  <2> QED
      BY <1>1, <1>2, <1>3, <2>2, <2>3, SMT
<1>5. d >= 0
  <2>1. SUFFICES ASSUME d <= -1 PROVE FALSE
      BY <1>2, SMT
  <2> HIDE DEF d
  <2>2. q * d + q <= 0
      BY <1>2, <2>1, SMT
  <2> QED
      BY <1>1, <1>2, <2>2, SMT
<1> QED
    BY <1>2, <1>4, <1>5, SMT

\* The margin an order needs.
LEMMA NeedIsNat ==
    ASSUME NEW p \in Margined, NEW s \in Side, NEW q \in Nat
    PROVE  Margin(Exposure(p, s, q)) \in Nat
<1>1. Exposure(p, s, q) \in Nat
    BY SMT DEF Exposure, Margined, Side, Abs
<1> QED
    BY <1>1, LedgerAssumption, SMT DEF Margin

\* What a fill makes of a position, and what it releases.
LEMMA NettedIsMargined ==
    ASSUME NEW p \in Margined, NEW r \in Row
    PROVE  /\ Netted(p, r).qty \in Int
           /\ Netted(p, r).release \in Nat
           /\ Netted(p, r).margin \in Nat
<1> DEFINE d == r.side * r.qty
           closed == IF Abs(d) < Abs(p.qty) THEN Abs(d) ELSE Abs(p.qty)
           rest == Abs(d) - closed
           release == (p.margin * closed) \div Abs(p.qty)
<1>1. /\ r.side \in {1, -1} /\ r.qty \in Nat /\ r.margin \in Nat
      /\ p.qty \in Int /\ p.margin \in Nat
    BY DEF Row, Side, Margined
<1>2. d \in Int
    BY <1>1, SMT
<1>3. CASE p.qty * d >= 0
  <2>1. Netted(p, r) = [qty |-> p.qty + d, release |-> 0,
                        margin |-> r.margin + (IF p.qty = 0 THEN 0 ELSE p.margin)]
      BY <1>3 DEF Netted
  <2> HIDE DEF d
  <2> QED
      BY <1>1, <1>2, <2>1, SMT
<1>4. CASE ~(p.qty * d >= 0)
  <2> HIDE DEF d
  <2>1. p.qty # 0 /\ d # 0
      BY <1>1, <1>2, <1>4, SMT
  <2>2. Abs(p.qty) \in Nat \ {0} /\ Abs(d) \in Nat \ {0}
      BY <1>1, <1>2, <2>1, SMT DEF Abs
  <2>3. closed \in Nat /\ closed <= Abs(p.qty) /\ rest \in Nat /\ rest <= Abs(d)
      BY <2>2, SMT
  <2> HIDE DEF closed, rest
  <2>4. release \in Nat /\ release <= p.margin
      BY <1>1, <2>2, <2>3, ShareOf
  <2>5. (r.margin * rest) \div Abs(d) \in Nat
      BY <1>1, <2>2, <2>3, ShareOf
  <2>6. Netted(p, r) = [qty |-> p.qty + d, release |-> release,
                        margin |-> IF rest > 0 THEN (r.margin * rest) \div Abs(d)
                                   ELSE p.margin - release]
      BY <1>4 DEF Netted, d, closed, rest
  <2> HIDE DEF release
  <2> QED
      BY <1>1, <1>2, <2>4, <2>5, <2>6, SMT
<1> QED
    BY <1>3, <1>4

\* What the funds manager does to the account.
LEMMA FundsMove ==
    ASSUME Tables, NEW amt \in Nat, Release(amt) \/ (Block(amt) /\ amt <= funds.available)
    PROVE  funds' \in Sound
BY LedgerAssumption, SMT DEF Tables, Sound, Account, Release, Block

-----------------------------------------------------------------------------
LEMMA Blank ==
    /\ NoRow \in Row
    /\ NoPosition \in Margined
    /\ <<>> \in Batch
    /\ Idle \in Working
    /\ Idle.batch = <<>> /\ Idle.o = "none"
<1>1. NoRow \in Row
    BY DEF NoRow, Row, Status, Pending, Side
<1>2. NoPosition \in Margined
    BY DEF NoPosition, Margined
<1>3. <<>> \in Batch
  <2>1. <<>> \in [{} -> Row]
      BY SMT
  <2> QED
      BY <2>1 DEF Batch
<1>4. Idle \in State
    BY <1>1, <1>2, <1>3 DEF Idle, State, Pc, Account
<1> QED
    BY <1>1, <1>2, <1>3, <1>4 DEF Idle, Working

\* A thread that leaves an order is idle or has the rest of its batch.
LEMMA LeaveWorks ==
    ASSUME th \in [Thread -> Working], NEW t \in Thread, NEW batch \in Batch,
           Leave(t, batch)
    PROVE  th' \in [Thread -> Working]
<1>1. [Idle EXCEPT !.pc = "batch", !.batch = batch] \in Working
    BY Blank DEF Working, State, Pc
<1> QED
    BY <1>1, Blank DEF Leave

\* The rows a thread has of its batch, and the same to be read again.
LEMMA BatchRows ==
    ASSUME th \in [Thread -> Working], NEW t \in Thread
    PROVE  /\ th[t].batch \in Batch
           /\ [o \in DOMAIN th[t].batch |-> NoRow] \in Batch
<1>1. th[t].batch \in Batch
    BY DEF Working, State
<1>2. PICK S \in SUBSET Order : th[t].batch \in [S -> Row]
    BY <1>1 DEF Batch
<1>3. [o \in DOMAIN th[t].batch |-> NoRow] \in [S -> Row]
    BY <1>2, Blank
<1> QED
    BY <1>1, <1>3 DEF Batch

LEMMA SkipWorks ==
    ASSUME th \in [Thread -> Working], NEW t \in Thread, Skip(t) \/ Done(t)
    PROVE  th' \in [Thread -> Working]
BY BatchRows, LeaveWorks DEF Skip, Done

LEMMA InitInv == Init => Inv
<1> SUFFICES ASSUME Init PROVE Inv
    OBVIOUS
<1>1. funds \in Sound
    BY LedgerAssumption, SMT DEF Init, Sound, Account
<1>2. faults \in 0 .. MaxFaults
    BY LedgerAssumption, SMT DEF Init
<1> QED
    BY <1>1, <1>2, Blank DEF Init, Inv, Tables

-----------------------------------------------------------------------------
\* The parts of a working thread.
LEMMA Parts ==
    ASSUME Inv, NEW t \in Thread
    PROVE  /\ th[t] \in State
           /\ th[t].pc \in Pc /\ th[t].row \in Row /\ th[t].seen \in Margined
           /\ th[t].batch \in Batch /\ th[t].total \in Nat /\ th[t].was \in Account
           /\ th[t].pc \notin {"idle", "batch", "delete"} => th[t].o \in Order
           /\ th[t].pc = "reconcile" => th[t].was \in Sound
BY DEF Inv, Working, State

LEMMA PlaceInv ==
    ASSUME Inv, NEW t \in Thread, NEW o \in Order,
           \/ \E s \in Side, q \in Quantity : Place(t, o, s, q)
           \/ ClosePosition(t, o)
    PROVE  Inv'
<1>1. PICK r \in Row : th' = [th EXCEPT ![t] = [Idle EXCEPT
          !.pc = "price", !.o = o, !.seen = pos, !.row = r]]
  <2>1. CASE \E s \in Side, q \in Quantity : Place(t, o, s, q)
    <3>1. PICK s \in Side, q \in Quantity : Place(t, o, s, q)
        BY <2>1
    <3>2. q \in Nat
        BY LedgerAssumption, SMT DEF Quantity
    <3>3. [NoRow EXCEPT !.side = s, !.qty = q] \in Row
        BY <3>2, Blank DEF Row
    <3> QED
        BY <3>1, <3>3 DEF Place
  <2>2. CASE ClosePosition(t, o)
    <3>1. [NoRow EXCEPT !.side = IF pos.qty > 0 THEN -1 ELSE 1, !.qty = Abs(pos.qty)] \in Row
      <4>1. Abs(pos.qty) \in Nat
          BY SMT DEF Inv, Tables, Margined, Abs
      <4> QED
          BY <4>1, Blank DEF Row, Side
    <3> QED
        BY <2>2, <3>1 DEF ClosePosition
  <2> QED
      BY <2>1, <2>2
<1>2. [Idle EXCEPT !.pc = "price", !.o = o, !.seen = pos, !.row = r] \in Working
    BY Blank DEF Working, State, Pc, Inv, Tables
<1>3. Tables'
    BY DEF Inv, Tables, Place, ClosePosition, Start, book
<1> QED
    BY <1>1, <1>2, <1>3 DEF Inv

LEMMA BlockInv ==
    ASSUME Inv, NEW t \in Thread, BlockMargin(t)
    PROVE  Inv'
<1> DEFINE need == Margin(Exposure(th[t].seen, th[t].row.side, th[t].row.qty))
<1>1. need \in Nat
    BY Parts, NeedIsNat DEF Row
<1>2. Block(need) /\ need <= funds.available
    BY DEF BlockMargin
<1>3. th' = [th EXCEPT ![t] = [th[t] EXCEPT !.pc = "insert", !.row = [th[t].row EXCEPT !.margin = need],
                                            !.seen = NoPosition]]
    BY DEF BlockMargin, Inv, Working, State
<1> HIDE DEF need
<1>4. funds' \in Sound
    BY <1>1, <1>2, FundsMove DEF Inv
<1>5. [th[t].row EXCEPT !.margin = need] \in Row
    BY <1>1, Parts, SMT DEF Row
<1>6. [th[t] EXCEPT !.pc = "insert", !.row = [th[t].row EXCEPT !.margin = need],
                    !.seen = NoPosition] \in Working
  <2>1. th[t].o \in Order
      BY Parts DEF BlockMargin, At
  <2> QED
      BY <1>5, <2>1, Parts, Blank DEF Working, State, Pc
<1>7. Tables'
    BY <1>4 DEF BlockMargin, Continue, book, Inv, Tables
<1> QED
    BY <1>3, <1>6, <1>7 DEF Inv

LEMMA InsertInv ==
    ASSUME Inv, NEW t \in Thread, InsertOrder(t)
    PROVE  Inv'
<1>1. th[t].o \in Order
    BY Parts DEF InsertOrder, At
<1>2. \A st \in Status : [th[t].row EXCEPT !.status = st] \in Row
    BY Parts DEF Row
<1>3. PICK st \in Status : order' = [order EXCEPT ![th[t].o] = [th[t].row EXCEPT !.status = st]]
    BY DEF InsertOrder, Status, Pending
<1>4. Tables'
    BY <1>2, <1>3 DEF InsertOrder, Continue, Inv, Tables
<1>5. th' \in [Thread -> Working]
  <2>1. CASE Done(t)
      BY <2>1, SkipWorks DEF Inv
  <2>2. ASSUME NEW pc \in {"check", "trade"},
               th' = [th EXCEPT ![t].pc = pc, ![t].row.status = "open"]
        PROVE  th' \in [Thread -> Working]
    <3>1. th' = [th EXCEPT ![t] = [th[t] EXCEPT !.pc = pc,
                                                !.row = [th[t].row EXCEPT !.status = "open"]]]
        BY <2>2 DEF Inv, Working, State
    <3>2. [th[t] EXCEPT !.pc = pc, !.row = [th[t].row EXCEPT !.status = "open"]] \in Working
        BY <1>1, <1>2, Parts DEF Working, State, Pc, Status, Pending
    <3> QED
        BY <3>1, <3>2 DEF Inv
  <2> QED
      BY <2>1, <2>2 DEF InsertOrder
<1> QED
    BY <1>4, <1>5 DEF Inv

\* What a thread may do to the tables when it leaves the account, the
\* position and its rows in hand alone.
LEMMA MarkInv ==
    ASSUME Inv, NEW o \in Order, NEW st \in Status
    PROVE  [order EXCEPT ![o].status = st] \in [Order -> Row]
<1>1. [order[o] EXCEPT !.status = st] \in Row
    BY DEF Inv, Tables, Row
<1> QED
    BY <1>1 DEF Inv, Tables

\* A thread that only goes on to its next step with the order in hand.
LEMMA GotoWorks ==
    ASSUME Inv, NEW t \in Thread, NEW pc \in Pc \ {"reconcile"}, th[t].o \in Order,
           Goto(t, pc)
    PROVE  th' \in [Thread -> Working]
<1>1. [th[t] EXCEPT !.pc = pc] \in Working
    BY Parts DEF Working, State
<1> QED
    BY <1>1 DEF Goto, Inv

LEMMA PriceInv ==
    ASSUME Inv, NEW t \in Thread,
           PlaceFails(t) \/ CheckTrade(t) \/ PriceNotMet(t) \/ PriceMet(t) \/ Trigger(t)
    PROVE  Inv'
<1>1. CASE PlaceFails(t) \/ PriceNotMet(t)
    BY <1>1, SkipWorks DEF PlaceFails, PriceNotMet, Continue, book, Inv, Tables
<1>2. CASE CheckTrade(t)
  <2>1. th[t].o \in Order
      BY <1>2, Parts DEF CheckTrade, At
  <2>2. th' \in [Thread -> Working]
      BY <1>2, <2>1, SkipWorks, GotoWorks DEF CheckTrade, Inv, Pc
  <2>3. order' \in [Order -> Row]
      BY <1>2, <2>1, MarkInv DEF CheckTrade, Status, Inv, Tables
  <2> QED
      BY <1>2, <2>2, <2>3 DEF CheckTrade, Continue, Inv, Tables
<1>3. CASE PriceMet(t)
  <2>1. th[t].o \in Order
      BY <1>3, Parts DEF PriceMet, At
  <2> QED
      BY <1>3, <2>1, GotoWorks DEF PriceMet, Continue, book, Inv, Tables, Pc
<1>4. CASE Trigger(t)
  <2>1. th[t].o \in Order
      BY <1>4, Parts DEF Trigger, At
  <2>2. order' \in [Order -> Row]
      BY <1>4, <2>1, MarkInv DEF Trigger, Status, Pending
  <2> QED
      BY <1>4, <2>2, SkipWorks DEF Trigger, Continue, Inv, Tables
<1> QED
    BY <1>1, <1>2, <1>3, <1>4

LEMMA TradeInv ==
    ASSUME Inv, NEW t \in Thread, RecordTrade(t)
    PROVE  Inv'
<1>1. th[t].o \in Order
    BY Parts DEF RecordTrade, At
<1>2. order' \in [Order -> Row]
    BY <1>1, MarkInv DEF RecordTrade, Status
<1>3. trades' \in [Order -> Nat]
    BY <1>1, SMT DEF RecordTrade, Inv, Tables
<1>4. net' \in Int
    BY Parts, SMT DEF RecordTrade, Inv, Tables, Row, Side
<1>5. th' = [th EXCEPT ![t] = [th[t] EXCEPT !.pc = "read", !.row = NoRow]]
    BY DEF RecordTrade, Inv
<1>6. [th[t] EXCEPT !.pc = "read", !.row = NoRow] \in Working
    BY <1>1, Parts, Blank DEF Working, State, Pc
<1> QED
    BY <1>2, <1>3, <1>4, <1>5, <1>6 DEF RecordTrade, Continue, Inv, Tables

LEMMA ReadInv ==
    ASSUME Inv, NEW t \in Thread, ReadPosition(t)
    PROVE  Inv'
<1>1. th[t].o \in Order
    BY Parts DEF ReadPosition, At
<1>2. order[th[t].o] \in Row /\ pos \in Margined
    BY <1>1 DEF Inv, Tables
<1>3. PICK pc \in {"release", "write"} :
        th' = [th EXCEPT ![t] = [th[t] EXCEPT !.pc = pc, !.row = order[th[t].o], !.seen = pos]]
    BY DEF ReadPosition, Inv
<1>4. [th[t] EXCEPT !.pc = pc, !.row = order[th[t].o], !.seen = pos] \in Working
    BY <1>1, <1>2, Parts DEF Working, State, Pc
<1>5. th' \in [Thread -> Working]
    BY <1>3, <1>4 DEF Inv
<1> QED
    BY <1>5 DEF ReadPosition, Continue, book, Inv, Tables

LEMMA ReleaseInv ==
    ASSUME Inv, NEW t \in Thread, ReleaseMargin(t)
    PROVE  Inv'
<1> DEFINE new == Netted(th[t].seen, th[t].row)
<1>1. new.release \in Nat
    BY Parts, NettedIsMargined
<1>2. Release(new.release) /\ th[t].o \in Order
    BY Parts DEF ReleaseMargin, At
<1> DEFINE b == new.release <= funds.used
<1>3. th' = [th EXCEPT ![t] = [th[t] EXCEPT !.pc = "write", !.wrote = b]]
    BY DEF ReleaseMargin, Inv
<1> HIDE DEF new
<1>4. funds' \in Sound
    BY <1>1, <1>2, FundsMove DEF Inv
<1>7. b \in BOOLEAN
    OBVIOUS
<1> HIDE DEF b
<1>5. [th[t] EXCEPT !.pc = "write", !.wrote = b] \in Working
    BY <1>2, <1>7, Parts DEF Working, State, Pc
<1>6. th' \in [Thread -> Working]
    BY <1>3, <1>5 DEF Inv
<1> QED
    BY <1>4, <1>6 DEF ReleaseMargin, Continue, book, Inv, Tables

LEMMA WriteInv ==
    ASSUME Inv, NEW t \in Thread, WritePosition(t)
    PROVE  Inv'
<1> DEFINE new == Netted(th[t].seen, th[t].row)
           m == IF th[t].wrote \/ new.margin # th[t].seen.margin THEN new.margin ELSE pos.margin
<1>1. new.qty \in Int /\ new.margin \in Nat
    BY Parts, NettedIsMargined
<1>2. th[t].o \in Order
    BY Parts DEF WritePosition, At
<1>3. pos' = [exists |-> TRUE, qty |-> new.qty, margin |-> m]
    BY DEF WritePosition
<1>4. th' = [th EXCEPT ![t] = [th[t] EXCEPT !.pc = "validate", !.row = NoRow,
                                            !.seen = NoPosition, !.wrote = FALSE]]
    BY DEF WritePosition, Inv
<1> HIDE DEF new
<1>5. pos' \in Margined
    BY <1>1, <1>3 DEF Margined, Inv, Tables
<1>6. [th[t] EXCEPT !.pc = "validate", !.row = NoRow, !.seen = NoPosition,
                    !.wrote = FALSE] \in Working
    BY <1>2, Parts, Blank DEF Working, State, Pc
<1>7. th' \in [Thread -> Working]
    BY <1>4, <1>6 DEF Inv
<1> QED
    BY <1>5, <1>7 DEF WritePosition, Continue, Inv, Tables

LEMMA FillFailsInv ==
    ASSUME Inv, NEW t \in Thread, FillFails(t)
    PROVE  Inv'
<1>1. th[t].o \in Order
    BY Parts DEF FillFails, At
<1>2. order' \in [Order -> Row]
    BY <1>1, MarkInv DEF FillFails, Status
<1>3. faults' \in 0 .. MaxFaults
    BY LedgerAssumption, SMT DEF FillFails, Inv, Tables
<1>4. th' \in [Thread -> Working]
    BY SkipWorks DEF FillFails, Inv
<1> QED
    BY <1>2, <1>3, <1>4 DEF FillFails, Inv, Tables

LEMMA ReconcileInv ==
    ASSUME Inv, NEW t \in Thread, Validate(t) \/ Reconcile(t)
    PROVE  Inv'
<1>1. CASE Validate(t)
  <2>1. CASE Done(t)
      BY <1>1, <2>1, SkipWorks DEF Validate, Continue, book, Inv, Tables
  <2>2. CASE th' = [th EXCEPT ![t].pc = "reconcile", ![t].total = Total, ![t].was = funds]
    <3>1. Total \in Nat
        BY DEF Total, Inv, Tables, Margined
    <3>2. th[t].o \in Order
        BY <1>1, Parts DEF Validate, At
    <3>3. th' = [th EXCEPT ![t] = [th[t] EXCEPT !.pc = "reconcile", !.total = Total, !.was = funds]]
        BY <2>2 DEF Inv
    <3>4. [th[t] EXCEPT !.pc = "reconcile", !.total = Total, !.was = funds] \in Working
        BY <3>1, <3>2, Parts, ZenonT(30) DEF Working, State, Pc, Inv, Tables, Sound
    <3>5. th' \in [Thread -> Working]
        BY <3>3, <3>4 DEF Inv
    <3> QED
        BY <1>1, <3>5 DEF Validate, Continue, book, Inv, Tables
  <2> QED
      BY <1>1, <2>1, <2>2 DEF Validate
<1>2. CASE Reconcile(t)
  <2>1. th[t].was \in Sound /\ th[t].total \in Nat
      BY <1>2, Parts DEF Reconcile, At
  <2>2. funds' \in Sound
      BY <1>2, <2>1, LedgerAssumption, SMT DEF Reconcile, Sound, Account
  <2> QED
      BY <1>2, <2>2, SkipWorks DEF Reconcile, Continue, book, Inv, Tables
<1> QED
    BY <1>1, <1>2

LEMMA CycleInv ==
    ASSUME Inv, NEW t \in Thread, StartCycle(t)
    PROVE  Inv'
<1> DEFINE S == {o \in Order : order[o].status \in Pending}
           batch == [o \in S |-> order[o]]
<1>1. batch \in Batch
  <2>1. batch \in [S -> Row]
      BY DEF Inv, Tables
  <2> QED
      BY <2>1 DEF Batch
<1>2. Leave(t, batch)
    BY DEF StartCycle
<1> HIDE DEF batch
<1>3. th' \in [Thread -> Working]
    BY <1>1, <1>2, LeaveWorks DEF Inv
<1> QED
    BY <1>3 DEF StartCycle, Start, book, Inv, Tables

LEMMA PickInv ==
    ASSUME Inv, NEW t \in Thread, NEW o \in Order, PickOrder(t, o)
    PROVE  Inv'
<1> DEFINE batch == th[t].batch
           row == IF batch[o] = NoRow THEN order[o] ELSE batch[o]
           rest == [p \in DOMAIN batch \ {o} |-> batch[p]]
<1>1. PICK S \in SUBSET Order : batch \in [S -> Row]
    BY Parts DEF Batch
<1>2. row \in Row
    BY <1>1 DEF PickOrder, Inv, Tables
<1>3. rest \in Batch
  <2>1. rest \in [S \ {o} -> Row]
      BY <1>1
  <2> QED
      BY <2>1 DEF Batch
<1>4. th' = [th EXCEPT ![t] = [th[t] EXCEPT !.pc = "check", !.o = o, !.row = row, !.batch = rest]]
    BY DEF PickOrder, Inv
<1> HIDE DEF batch, row, rest
<1>5. [th[t] EXCEPT !.pc = "check", !.o = o, !.row = row, !.batch = rest] \in Working
    BY <1>2, <1>3, Parts DEF Working, State, Pc
<1>6. th' \in [Thread -> Working]
    BY <1>4, <1>5 DEF Inv
<1> QED
    BY <1>6 DEF PickOrder, Continue, book, Inv, Tables

LEMMA ToChangeInv ==
    ASSUME Inv, NEW t \in Thread, NEW o \in Order, ReadToCancel(t, o) \/ ReadToModify(t, o)
    PROVE  Inv'
<1>1. PICK pc \in {"cancel", "modify"} :
        th' = [th EXCEPT ![t] = [Idle EXCEPT !.pc = pc, !.o = o, !.row = order[o]]]
    BY DEF ReadToCancel, ReadToModify
<1>2. order[o] \in Row
    BY DEF Inv, Tables
<1>3. [Idle EXCEPT !.pc = pc, !.o = o, !.row = order[o]] \in Working
    BY <1>2, Blank DEF Working, State, Pc
<1>4. th' \in [Thread -> Working]
    BY <1>1, <1>3 DEF Inv
<1> QED
    BY <1>4 DEF ReadToCancel, ReadToModify, Start, book, Inv, Tables

LEMMA CancelInv ==
    ASSUME Inv, NEW t \in Thread, CancelOrder(t)
    PROVE  Inv'
<1> DEFINE amt == IF th[t].row.margin > 0 THEN th[t].row.margin ELSE Margin(th[t].row.qty)
<1>1. amt \in Nat
    BY Parts, LedgerAssumption, SMT DEF Row, Margin
<1>2. Release(amt)
    BY DEF CancelOrder
<1> HIDE DEF amt
<1>3. funds' \in Sound
    BY <1>1, <1>2, FundsMove DEF Inv
<1>4. order' \in [Order -> Row]
  <2>1. th[t].o \in Order
      BY Parts DEF CancelOrder, At
  <2> QED
      BY <2>1, MarkInv DEF CancelOrder, Status
<1>5. th' \in [Thread -> Working]
    BY SkipWorks DEF CancelOrder, Inv
<1> QED
    BY <1>3, <1>4, <1>5 DEF CancelOrder, Continue, Inv, Tables

LEMMA ModifyInv ==
    ASSUME Inv, NEW t \in Thread, NEW q \in Quantity, ModifyOrder(t, q)
    PROVE  Inv'
<1>1. th[t].o \in Order
    BY Parts DEF ModifyOrder, At
<1>2. q \in Nat
    BY LedgerAssumption, SMT DEF Quantity
<1>3. [order[th[t].o] EXCEPT !.qty = q] \in Row
    BY <1>1, <1>2 DEF Inv, Tables, Row
<1>4. order' \in [Order -> Row]
    BY <1>1, <1>3 DEF ModifyOrder, Inv, Tables
<1>5. th' \in [Thread -> Working]
    BY SkipWorks DEF ModifyOrder, Inv
<1> QED
    BY <1>4, <1>5 DEF ModifyOrder, Continue, Inv, Tables

LEMMA ResetInv ==
    ASSUME Inv, NEW t \in Thread, ResetFunds(t) \/ DeletePositions(t)
    PROVE  Inv'
<1>1. CASE ResetFunds(t)
  <2>1. funds' \in Sound
      BY <1>1, LedgerAssumption, SMT DEF ResetFunds, Sound, Account
  <2>2. [th[t] EXCEPT !.pc = "delete"] \in Working
      BY Parts DEF Working, State, Pc
  <2>3. th' \in [Thread -> Working]
      BY <1>1, <2>2 DEF ResetFunds, Inv
  <2> QED
      BY <1>1, <2>1, <2>3 DEF ResetFunds, Start, book, Inv, Tables
<1>2. CASE DeletePositions(t)
  <2>1. th' \in [Thread -> Working]
      BY <1>2, SkipWorks DEF DeletePositions, Inv
  <2> QED
      BY <1>2, <2>1, Blank DEF DeletePositions, Continue, Inv, Tables
<1> QED
    BY <1>1, <1>2

LEMMA CrashInv ==
    ASSUME Inv, Crash
    PROVE  Inv'
<1>1. faults' \in 0 .. MaxFaults
    BY LedgerAssumption, SMT DEF Crash, Inv, Tables
<1>2. th' \in [Thread -> Working]
    BY Blank DEF Crash
<1> QED
    BY <1>1, <1>2 DEF Crash, book, Inv, Tables

LEMMA NextInv == Inv /\ [Next]_vars => Inv'
<1> SUFFICES ASSUME Inv, [Next]_vars PROVE Inv'
    OBVIOUS
<1>1. ASSUME NEW t \in Thread, Request(t) PROVE Inv'
    BY <1>1, PlaceInv, ToChangeInv, ResetInv DEF Request
<1>2. ASSUME NEW t \in Thread, StartCycle(t) \/ FillFails(t) PROVE Inv'
    BY <1>2, CycleInv, FillFailsInv
<1>3. ASSUME NEW t \in Thread, Work(t) PROVE Inv'
    BY <1>3, BlockInv, InsertInv, PriceInv, TradeInv, ReadInv, ReleaseInv, WriteInv,
       ReconcileInv, PickInv, CancelInv, ModifyInv, ResetInv DEF Work
<1>4. CASE Crash
    BY <1>4, CrashInv
<1>5. CASE UNCHANGED vars
    BY <1>5 DEF vars, book, Inv, Tables
<1> QED
    BY <1>1, <1>2, <1>3, <1>4, <1>5 DEF Next

LEMMA InvHolds == Spec => []Inv
BY InitInv, NextInv, PTL DEF Spec

-----------------------------------------------------------------------------
\* The types, and with them whatever the threads have in hand.
THEOREM TypeCorrect == Spec => []TypeOK
<1>1. Inv => TypeOK
  <2> SUFFICES ASSUME Inv PROVE TypeOK
      OBVIOUS
  <2>1. funds \in Account /\ pos \in Position
      BY SMT DEF Inv, Tables, Sound, Margined, Position
  <2>2. ASSUME NEW t \in Thread
        PROVE  /\ th[t].o \in Order \cup {"none"} /\ th[t].wrote \in BOOLEAN
               /\ th[t].seen \in Position /\ th[t].total \in Int
      BY Parts, SMT DEF State, Margined, Position
  <2>3. ASSUME NEW t \in Thread
        PROVE  /\ DOMAIN th[t].batch \subseteq Order
               /\ \A o \in DOMAIN th[t].batch : th[t].batch[o] \in Row
    <3>1. PICK S \in SUBSET Order : th[t].batch \in [S -> Row]
        BY Parts DEF Batch
    <3> QED
        BY <3>1
  <2> QED
      BY <2>1, <2>2, <2>3, Parts DEF TypeOK, Inv, Tables
<1> QED
    BY <1>1, InvHolds, PTL

\* Cash is neither made nor lost, whatever several threads do to the account
\* and wherever they are stopped (fund_manager.py).
THEOREM CashIsConserved == Spec => []CashAddsUp
<1>1. Inv => CashAddsUp
    BY DEF Inv, Tables, Sound, CashAddsUp
<1> QED
    BY <1>1, InvHolds, PTL

\* No more is ever released than is reserved.
THEOREM ReleaseIsCovered == Spec => []NoOverRelease
<1>1. Inv => NoOverRelease
    BY SMT DEF Inv, Tables, Sound, Margined, NoOverRelease
<1> QED
    BY <1>1, InvHolds, PTL

-----------------------------------------------------------------------------
\* What happens to an order that has ended and that no thread has.
Kept(o) == order'[o] = order[o] /\ trades'[o] = trades[o] /\ ~Held(o)'

\* A thread takes up o only if its new state says so.
LEMMA HoldsOnly ==
    ASSUME Inv, NEW t \in Thread, NEW o \in Order, ~Held(o), NEW x,
           x.o # o, o \notin DOMAIN x.batch, th' = [th EXCEPT ![t] = x]
    PROVE  ~Held(o)'
BY DEF Held, InHand, Inv

LEMMA LeaveHolds ==
    ASSUME Inv, NEW t \in Thread, NEW o \in Order, ~Held(o), NEW batch,
           o \notin DOMAIN batch, Leave(t, batch)
    PROVE  ~Held(o)'
<1> DEFINE x == IF DOMAIN batch = {} THEN Idle
                ELSE [Idle EXCEPT !.pc = "batch", !.batch = batch]
<1>1. th' = [th EXCEPT ![t] = x]
    BY DEF Leave
<1>2. x.o = "none" /\ (x.batch = <<>> \/ x.batch = batch)
    BY DEF Idle
<1>3. DOMAIN <<>> = {}
    BY SMT
<1> HIDE DEF x
<1>4. x.o # o /\ o \notin DOMAIN x.batch
    BY <1>2, <1>3, LedgerAssumption
<1> QED
    BY <1>1, <1>4, HoldsOnly

LEMMA SkipHolds ==
    ASSUME Inv, NEW t \in Thread, NEW o \in Order, ~Held(o), Skip(t) \/ Done(t)
    PROVE  ~Held(o)'
<1>1. o \notin DOMAIN th[t].batch
    BY DEF Held, InHand
<1>2. PICK batch : DOMAIN batch = DOMAIN th[t].batch /\ Leave(t, batch)
    BY DEF Skip, Done
<1> QED
    BY <1>1, <1>2, LeaveHolds

\* A thread that stays with the order and the batch it has.
LEMMA StaysHolds ==
    ASSUME Inv, NEW t \in Thread, NEW o \in Order, ~Held(o),
           th' = [th EXCEPT ![t] = th'[t]],
           th'[t].o = th[t].o, th'[t].batch = th[t].batch
    PROVE  ~Held(o)'
<1>1. th'[t].o # o /\ o \notin DOMAIN th'[t].batch
    BY DEF Held, InHand
<1> QED
    BY <1>1, HoldsOnly

\* Steps that need an order that is fresh or pending.
LEMMA TakeKeeps ==
    ASSUME Inv, NEW t \in Thread, NEW o \in Order, Terminal(o), ~Held(o), Request(t) \/ StartCycle(t)
    PROVE  Kept(o)
<1>1. Idle.batch = <<>> /\ DOMAIN <<>> = {}
    BY Blank, SMT
<1>2. UNCHANGED <<order, trades>>
    BY DEF Request, StartCycle, Place, ClosePosition, ReadToCancel, ReadToModify, ResetFunds, book
<1>3. CASE StartCycle(t)
  <2> DEFINE S == {p \in Order : order[p].status \in Pending}
             batch == [p \in S |-> order[p]]
  <2>1. o \notin DOMAIN batch
      BY DEF Terminal, Pending
  <2>2. Leave(t, batch)
      BY <1>3 DEF StartCycle
  <2> QED
      BY <1>2, <2>1, <2>2, LeaveHolds DEF Kept
<1>4. ASSUME NEW p \in Order,
             \/ \E s \in Side, q \in Quantity : Place(t, p, s, q)
             \/ ClosePosition(t, p) \/ ReadToCancel(t, p) \/ ReadToModify(t, p)
      PROVE  Kept(o)
  <2>1. p # o
      BY <1>4 DEF Place, ClosePosition, ReadToCancel, ReadToModify, Fresh, Terminal, Pending
  <2>2. PICK x : x.o = p /\ x.batch = Idle.batch /\ th' = [th EXCEPT ![t] = x]
      BY <1>4 DEF Place, ClosePosition, ReadToCancel, ReadToModify, Idle
  <2>3. o \notin DOMAIN x.batch
      BY <1>1, <2>2
  <2> QED
      BY <1>2, <2>1, <2>2, <2>3, HoldsOnly DEF Kept
<1>5. CASE ResetFunds(t)
  <2>1. /\ th' = [th EXCEPT ![t] = th'[t]]
        /\ th'[t].o = th[t].o /\ th'[t].batch = th[t].batch
      BY <1>5, Parts DEF ResetFunds, Inv, State
  <2> QED
      BY <1>2, <2>1, StaysHolds DEF Kept
<1> QED
    BY <1>3, <1>4, <1>5 DEF Request

\* Steps of a thread with another order in hand.
LEMMA WorkKeeps ==
    ASSUME Inv, NEW t \in Thread, NEW o \in Order, Terminal(o), ~Held(o), Work(t) \/ FillFails(t)
    PROVE  Kept(o)
<1>1. th[t].o # o /\ o \notin DOMAIN th[t].batch
    BY DEF Held, InHand
<1>2. order'[o] = order[o] /\ trades'[o] = trades[o]
    BY <1>1 DEF Work, PlaceFails, BlockMargin, InsertOrder, CheckTrade, PriceNotMet, PriceMet,
        Trigger, RecordTrade, ReadPosition, ReleaseMargin, WritePosition, Validate, Reconcile,
        PickOrder, CancelOrder, ModifyOrder, DeletePositions, FillFails, book, Inv, Tables
<1>3. CASE Skip(t) \/ Done(t)
    BY <1>2, <1>3, SkipHolds DEF Kept
<1>4. CASE \E p \in Order : PickOrder(t, p)
  <2>1. PICK p \in Order : PickOrder(t, p)
      BY <1>4
  <2>2. p # o
      BY <1>1, <2>1 DEF PickOrder
  <2>3. th'[t].o = p /\ DOMAIN th'[t].batch = DOMAIN th[t].batch \ {p}
        /\ th' = [th EXCEPT ![t] = th'[t]]
      BY <2>1, Parts DEF PickOrder, Inv, State
  <2> QED
      BY <1>1, <1>2, <2>2, <2>3, HoldsOnly DEF Kept
<1>5. CASE ~(Skip(t) \/ Done(t)) /\ ~(\E p \in Order : PickOrder(t, p))
  <2> DEFINE Stays == /\ th' = [th EXCEPT ![t] = th'[t]]
                      /\ th'[t].o = th[t].o /\ th'[t].batch = th[t].batch
  <2>1. ASSUME BlockMargin(t) \/ RecordTrade(t) \/ ReadPosition(t) PROVE Stays
      BY <2>1, Parts DEF BlockMargin, RecordTrade, ReadPosition, Inv, State
  <2>2. ASSUME ReleaseMargin(t) \/ WritePosition(t) PROVE Stays
      BY <2>2, Parts DEF ReleaseMargin, WritePosition, Inv, State
  <2>3. ASSUME InsertOrder(t) PROVE Stays
      BY <1>5, <2>3, Parts, ZenonT(30) DEF InsertOrder, Inv, State
  <2>4. ASSUME CheckTrade(t) \/ PriceMet(t) PROVE Stays
      BY <1>5, <2>4, Parts DEF CheckTrade, PriceMet, Goto, Inv, State
  <2>5. ASSUME Validate(t) PROVE Stays
      BY <1>5, <2>5, Parts DEF Validate, Inv, State
  <2>6. Stays
      BY <1>5, <2>1, <2>2, <2>3, <2>4, <2>5 DEF Work, PlaceFails, PriceNotMet, Trigger, Reconcile,
         CancelOrder, ModifyOrder, DeletePositions, FillFails
  <2> QED
      BY <1>2, <2>6, StaysHolds DEF Kept
<1> QED
    BY <1>3, <1>4, <1>5

\* An order that has ended, and that no thread still has in hand, is never
\* traded, written or picked up again.
THEOREM EndIsFinal == Spec => TerminalIsFinal
<1>1. ASSUME Inv, [Next]_vars
      PROVE  [\A o \in Order : Terminal(o) /\ ~Held(o)
                => order'[o] = order[o] /\ trades'[o] = trades[o] /\ ~Held(o)']_vars
  <2>1. SUFFICES ASSUME Next, NEW o \in Order, Terminal(o), ~Held(o)
                 PROVE  Kept(o)
      BY <1>1 DEF Kept
  <2>2. CASE Crash
    <3>1. \A t \in Thread : th'[t] = Idle
        BY <2>2 DEF Crash
    <3>2. DOMAIN <<>> = {}
        BY SMT
    <3>3. ~Held(o)'
        BY <3>1, <3>2, Blank, LedgerAssumption DEF Held, InHand
    <3> QED
        BY <2>2, <3>3 DEF Crash, book, Kept
  <2> QED
      BY <1>1, <2>1, <2>2, TakeKeeps, WorkKeeps DEF Next
<1> QED
    BY <1>1, InvHolds, PTL DEF Spec, TerminalIsFinal


-----------------------------------------------------------------------------
(* What happens alone *)

Shares(r) == r.side * r.qty
Same(r, s) == r.side = s.side /\ r.qty = s.qty
Filling == {"read", "release", "write"}

\* A thread has in hand what the tables hold.
Own(t) ==
    /\ th[t].pc \in {"price", "insert", "price_met", "trade", "cancel"} => trades[th[t].o] = 0
    /\ th[t].pc \in {"idle", "price", "insert", "cancel", "modify", "delete"} => DOMAIN th[t].batch = {}
    /\ th[t].pc \in {"check", "price_met", "trade"} => Same(th[t].row, order[th[t].o])
    /\ \A o \in DOMAIN th[t].batch : th[t].batch[o] = NoRow \/ Same(th[t].batch[o], order[o])
    /\ th[t].pc = "read" => net = pos.qty + Shares(order[th[t].o])
    /\ th[t].pc \in {"release", "write"} => th[t].seen = pos /\ net = pos.qty + Shares(th[t].row)
    /\ th[t].pc = "reconcile" => th[t].total = Total /\ th[t].was = funds

\* An order has the one trade that completed it, or none.
OneTrade == \A o \in Order : trades[o] = IF order[o].status = "complete" THEN 1 ELSE 0

\* The position is the net of the trades, but for the one a thread is filling.
Balanced(t) == th[t].pc \notin Filling => net = pos.qty

Others(t) == \A u \in Thread \ {t} : At(u, "idle") /\ DOMAIN th[u].batch = {}

\* As long as nothing has overlapped, one thread at most is at work.
Solo ==
    alone => /\ OneTrade
             /\ \A t \in Thread : Own(t)
             /\ \A t, u \in Thread : t = u \/ At(t, "idle") \/ At(u, "idle")
             /\ (\A t \in Thread : th[t].pc \notin Filling) => net = pos.qty

\* What a fill makes of the quantity.
LEMMA NettedAdds ==
    ASSUME NEW p, NEW r
    PROVE  Netted(p, r).qty = p.qty + Shares(r)
  BY DEF Netted, Shares

\* Leaving an order, a thread keeps of its batch what it has, or nothing of its rows.
LEMMA LeaveEnds ==
    ASSUME th \in [Thread -> Working], NEW t \in Thread, NEW batch, Leave(t, batch)
    PROVE  /\ \A u \in Thread \ {t} : th'[u] = th[u]
           /\ \/ th'[t] = Idle
              \/ th'[t].pc = "batch" /\ th'[t].o = "none" /\ th'[t].batch = batch /\ DOMAIN batch # {}
BY DEF Leave, Idle

LEMMA Ends ==
    ASSUME th \in [Thread -> Working], NEW t \in Thread, Skip(t) \/ Done(t)
    PROVE  /\ \A u \in Thread \ {t} : th'[u] = th[u]
           /\ th'[t] = Idle \/ (th'[t].pc = "batch" /\ th'[t].o = "none")
           /\ \A o \in DOMAIN th'[t].batch :
                 o \in DOMAIN th[t].batch /\ th'[t].batch[o] \in {NoRow, th[t].batch[o]}
<1>1. CASE Skip(t)
  <2>1. Leave(t, th[t].batch)
    BY <1>1 DEF Skip
  <2> QED
    BY <2>1, LeaveEnds, Blank
<1>2. CASE Done(t)
  <2>1. PICK batch : batch = [o \in DOMAIN th[t].batch |-> NoRow]
    OBVIOUS
  <2>2. Leave(t, batch)
    BY <1>2, <2>1 DEF Done
  <2> QED
    BY <2>1, <2>2, LeaveEnds, Blank
<1> QED
  BY <1>1, <1>2

\* A thread that is through, its batch being the tables'.
LEMMA EndsOwn ==
    ASSUME Inv, NEW t \in Thread, Skip(t) \/ Done(t), Own(t),
           \A o \in DOMAIN th[t].batch : Same(order'[o], order[o]) \/ th[t].batch[o] = NoRow
    PROVE  Own(t)' /\ th'[t].pc \notin Filling /\ \A u \in Thread \ {t} : th'[u] = th[u]
<1>1. /\ \A u \in Thread \ {t} : th'[u] = th[u]
      /\ th'[t] = Idle \/ (th'[t].pc = "batch" /\ th'[t].o = "none")
      /\ \A o \in DOMAIN th'[t].batch :
            o \in DOMAIN th[t].batch /\ th'[t].batch[o] \in {NoRow, th[t].batch[o]}
  BY Ends DEF Inv
<1>2. DOMAIN <<>> = {} /\ Idle.pc = "idle" /\ Idle.batch = <<>>
  BY SMT DEF Idle
<1>3. th'[t].pc \in {"idle", "batch"} /\ (th'[t].pc = "idle" => DOMAIN th'[t].batch = {})
  BY <1>1, <1>2
<1>4. \A o \in DOMAIN th'[t].batch : th'[t].batch[o] = NoRow \/ Same(th'[t].batch[o], order'[o])
  BY <1>1 DEF Own, Same
<1> QED
  BY <1>1, <1>3, <1>4 DEF Own, Filling

\* The step of the only thread at work.
LEMMA SoloStep ==
    ASSUME NEW t \in Thread, Others(t), \A u \in Thread \ {t} : th'[u] = th[u],
           OneTrade', Own(t)', Balanced(t)'
    PROVE  Solo'
<1>1. ASSUME NEW u \in Thread \ {t} PROVE Own(u)'
  BY DEF Others, At, Own
<1>2. \A u, v \in Thread : u = v \/ At(u, "idle")' \/ At(v, "idle")'
  BY DEF Others, At
<1> QED
  BY <1>1, <1>2 DEF Solo, Balanced

Advances(t) ==
    /\ OneTrade' /\ Own(t)' /\ Balanced(t)'
    /\ \A u \in Thread \ {t} : th'[u] = th[u]

\* An operation starts on what the tables hold.
LEMMA StartSolo ==
    ASSUME Inv, NEW t \in Thread, OneTrade, Own(t), Balanced(t), At(t, "idle"), Request(t)
    PROVE  Advances(t)
<1>1. DOMAIN <<>> = {} /\ Idle.batch = <<>>
  BY SMT DEF Idle
<1>2. UNCHANGED book
  BY DEF Request, Place, ClosePosition, ReadToCancel, ReadToModify, ResetFunds
<1>3. OneTrade' /\ net = pos.qty
  BY <1>2 DEF OneTrade, book, Balanced, At, Filling
<1>4. ASSUME NEW o \in Order,
             \/ \E s \in Side, q \in Quantity : Place(t, o, s, q)
             \/ ClosePosition(t, o) \/ ReadToCancel(t, o) \/ ReadToModify(t, o)
      PROVE  Advances(t)
  <2>1. order[o].status # "complete"
    BY <1>4 DEF Place, ClosePosition, ReadToCancel, ReadToModify, Fresh, Pending
  <2>2. trades[o] = 0
    BY <2>1 DEF OneTrade
  <2>3. /\ th'[t].pc \in {"price", "cancel", "modify"} /\ th'[t].o = o /\ th'[t].batch = <<>>
        /\ \A u \in Thread \ {t} : th'[u] = th[u]
    BY <1>4 DEF Place, ClosePosition, ReadToCancel, ReadToModify, Idle, Inv
  <2>4. Own(t)'
    BY <1>1, <1>2, <2>2, <2>3 DEF Own, book
  <2> QED
    BY <1>2, <1>3, <2>3, <2>4 DEF Advances, Balanced, book
<1>5. CASE ResetFunds(t)
  <2>1. /\ th'[t].pc = "delete" /\ th'[t].batch = th[t].batch
        /\ \A u \in Thread \ {t} : th'[u] = th[u]
    BY <1>5, Parts DEF ResetFunds, Inv, State
  <2>2. DOMAIN th[t].batch = {}
    BY DEF Own, At
  <2>3. Own(t)'
    BY <2>1, <2>2 DEF Own
  <2> QED
    BY <1>2, <1>3, <2>1, <2>3 DEF Advances, Balanced, book
<1> QED
  BY <1>4, <1>5 DEF Request

LEMMA CycleSolo ==
    ASSUME Inv, NEW t \in Thread, OneTrade, Own(t), Balanced(t), StartCycle(t)
    PROVE  Advances(t)
<1> DEFINE S == {o \in Order : order[o].status \in Pending}
<1>1. PICK batch : batch = [o \in S |-> order[o]]
  OBVIOUS
<1>2. Leave(t, batch) /\ UNCHANGED book /\ At(t, "idle")
  BY <1>1 DEF StartCycle, Start
<1>3. DOMAIN batch = S /\ \A o \in S : batch[o] = order[o]
  BY <1>1
<1>4. DOMAIN <<>> = {} /\ Idle.batch = <<>> /\ Idle.pc = "idle"
  BY SMT DEF Idle
<1>5. /\ \A u \in Thread \ {t} : th'[u] = th[u]
      /\ \/ th'[t] = Idle
         \/ th'[t].pc = "batch" /\ th'[t].o = "none" /\ th'[t].batch = batch
  BY <1>2, LeaveEnds DEF Inv
<1>6. OneTrade' /\ net = pos.qty
  BY <1>2 DEF OneTrade, book, Balanced, At, Filling
<1>7. Own(t)'
  BY <1>2, <1>3, <1>4, <1>5 DEF Own, Same, book
<1> QED
  BY <1>2, <1>4, <1>5, <1>6, <1>7 DEF Advances, Balanced, book

\* Steps after which a thread is through with an order.
LEMMA EndSolo ==
    ASSUME Inv, NEW t \in Thread, OneTrade, Own(t), Balanced(t),
           \/ PlaceFails(t) \/ PriceNotMet(t) \/ Trigger(t) \/ Reconcile(t)
           \/ CancelOrder(t) \/ DeletePositions(t) \/ \E q \in Quantity : ModifyOrder(t, q)
    PROVE  Advances(t)
<1>0. Skip(t) \/ Done(t)
  BY DEF PlaceFails, PriceNotMet, Trigger, Reconcile, CancelOrder, ModifyOrder, DeletePositions
<1>1. th[t].pc \notin {"idle", "batch", "delete"} => th[t].o \in Order
  BY Parts
<1>2. CASE PlaceFails(t) \/ PriceNotMet(t) \/ Reconcile(t) \/ DeletePositions(t)
  <2>1. UNCHANGED <<order, trades>> /\ th[t].pc \notin Filling
    BY <1>2 DEF PlaceFails, PriceNotMet, Reconcile, DeletePositions, book, At, Filling
  <2>2. OneTrade'
    BY <2>1 DEF OneTrade
  <2>3. \A o \in Order : Same(order'[o], order[o])
    BY <2>1 DEF Same
  <2>4. \A o \in DOMAIN th[t].batch : Same(order'[o], order[o]) \/ th[t].batch[o] = NoRow
    BY <2>1 DEF Same
  <2>5. Own(t)' /\ th'[t].pc \notin Filling /\ \A u \in Thread \ {t} : th'[u] = th[u]
    BY <1>0, <2>4, EndsOwn
  <2>6. net' = pos'.qty
    BY <1>2, <2>1 DEF PlaceFails, PriceNotMet, Reconcile, DeletePositions, book, Balanced, NoPosition
  <2> QED
    BY <2>2, <2>5, <2>6 DEF Advances, Balanced
<1>3. CASE CancelOrder(t) \/ Trigger(t)
  <2>1. PICK o \in Order : o = th[t].o
    BY <1>1, <1>3 DEF CancelOrder, Trigger, At
  <2>2. PICK st \in {"cancelled", "open"} : order' = [order EXCEPT ![o].status = st]
    BY <1>3, <2>1 DEF CancelOrder, Trigger
  <2>3. UNCHANGED <<pos, trades, net>> /\ th[t].pc \in {"cancel", "price_met"}
    BY <1>3 DEF CancelOrder, Trigger, At
  <2>4. \A p \in Order : Same(order'[p], order[p])
                         /\ (p # o => order'[p] = order[p]) /\ order'[o].status # "complete"
    BY <2>2 DEF Same, Inv, Tables, Row
  <2>5. trades[o] = 0
    BY <2>1, <2>3 DEF Own
  <2>6. OneTrade'
    BY <2>3, <2>4, <2>5 DEF OneTrade
  <2>7. \A p \in DOMAIN th[t].batch : p \in Order
    <3>1. PICK U \in SUBSET Order : th[t].batch \in [U -> Row]
      BY Parts DEF Batch
    <3> QED
      BY <3>1
  <2>8. Own(t)' /\ th'[t].pc \notin Filling /\ \A u \in Thread \ {t} : th'[u] = th[u]
    BY <1>0, <2>4, <2>7, EndsOwn
  <2>9. net' = pos'.qty
    BY <2>3 DEF Balanced, Filling
  <2> QED
    BY <2>6, <2>8, <2>9 DEF Advances, Balanced
<1>4. ASSUME NEW q \in Quantity, ModifyOrder(t, q) PROVE Advances(t)
  <2>1. PICK o \in Order : o = th[t].o
    BY <1>1, <1>4 DEF ModifyOrder, At
  <2>2. order' = [order EXCEPT ![o].qty = q] /\ UNCHANGED <<pos, trades, net>> /\ th[t].pc = "modify"
    BY <1>4, <2>1 DEF ModifyOrder, At
  <2>3. \A p \in Order : order'[p].status = order[p].status
    BY <2>2 DEF Inv, Tables, Row
  <2>4. OneTrade'
    BY <2>2, <2>3 DEF OneTrade
  <2>5. DOMAIN th[t].batch = {}
    BY <2>2 DEF Own
  <2>6. Own(t)' /\ th'[t].pc \notin Filling /\ \A u \in Thread \ {t} : th'[u] = th[u]
    BY <1>0, <2>5, EndsOwn
  <2>7. net' = pos'.qty
    BY <2>2 DEF Balanced, Filling
  <2> QED
    BY <2>4, <2>6, <2>7 DEF Advances, Balanced
<1> QED
  BY <1>2, <1>3, <1>4

\* The request's own steps, and the engine's up to the trade.
LEMMA ForwardSolo ==
    ASSUME Inv, NEW t \in Thread, OneTrade, Own(t), Balanced(t),
           BlockMargin(t) \/ InsertOrder(t) \/ CheckTrade(t) \/ PriceMet(t)
           \/ \E o \in Order : PickOrder(t, o)
    PROVE  Advances(t)
<1>0. th[t].pc \notin {"idle", "batch", "delete"} => th[t].o \in Order
  BY Parts
<1>b. \A p \in DOMAIN th[t].batch : p \in Order
  <2>1. PICK U \in SUBSET Order : th[t].batch \in [U -> Row]
    BY Parts DEF Batch
  <2> QED
    BY <2>1
<1>1. CASE BlockMargin(t)
  <2>1. /\ th'[t].pc = "insert" /\ th'[t].o = th[t].o /\ th'[t].batch = th[t].batch
        /\ \A u \in Thread \ {t} : th'[u] = th[u]
    BY <1>1, Parts DEF BlockMargin, Inv, State
  <2>2. UNCHANGED book /\ th[t].pc = "price"
    BY <1>1 DEF BlockMargin, At
  <2>3. Own(t)' /\ OneTrade' /\ Balanced(t)'
    BY <2>1, <2>2 DEF Own, OneTrade, Balanced, Filling, book
  <2> QED
    BY <2>1, <2>3 DEF Advances
<1>2. CASE InsertOrder(t)
  <2>1. PICK o \in Order : o = th[t].o
    BY <1>0, <1>2 DEF InsertOrder, At
  <2>2. UNCHANGED <<pos, trades, net>> /\ th[t].pc = "insert" /\ DOMAIN th[t].batch = {} /\ trades[o] = 0
    BY <1>2, <2>1 DEF InsertOrder, At, Own
  <2>3. PICK st \in Pending : order' = [order EXCEPT ![o] = [th[t].row EXCEPT !.status = st]]
    BY <1>2, <2>1 DEF InsertOrder, Pending
  <2>4. /\ order'[o].status = st /\ Same(order'[o], th[t].row)
        /\ \A p \in Order \ {o} : order'[p] = order[p]
    BY <2>3, Parts DEF Inv, Tables, Row, Same
  <2>5. OneTrade'
    BY <2>2, <2>4 DEF OneTrade, Pending
  <2>6. CASE Done(t)
    <3>1. Own(t)' /\ th'[t].pc \notin Filling /\ \A u \in Thread \ {t} : th'[u] = th[u]
      BY <2>2, <2>6, EndsOwn
    <3> QED
      BY <2>2, <2>5, <3>1 DEF Advances, Balanced, Filling
  <2>7. CASE \E pc \in {"check", "trade"} : th' = [th EXCEPT ![t].pc = pc, ![t].row.status = "open"]
    <3>1. /\ th'[t].pc \in {"check", "trade"} /\ th'[t].o = o /\ th'[t].batch = th[t].batch
          /\ Same(th'[t].row, th[t].row)
          /\ \A u \in Thread \ {t} : th'[u] = th[u]
      BY <2>1, <2>7, Parts DEF Inv, State, Row, Same
    <3>2. Own(t)'
      BY <2>2, <2>4, <3>1 DEF Own, Same
    <3> QED
      BY <2>2, <2>5, <3>1, <3>2 DEF Advances, Balanced, Filling
  <2> QED
    BY <1>2, <2>6, <2>7 DEF InsertOrder
<1>3. CASE CheckTrade(t)
  <2>1. PICK o \in Order : o = th[t].o
    BY <1>0, <1>3 DEF CheckTrade, At
  <2>2. UNCHANGED <<pos, trades, net>> /\ th[t].pc = "check" /\ Same(th[t].row, order[o])
    BY <1>3, <2>1 DEF CheckTrade, At, Own
  <2>3. CASE trades[o] = 0
    <3>1. UNCHANGED order /\ Goto(t, "price_met")
      BY <1>3, <2>1, <2>3 DEF CheckTrade
    <3>2. /\ th'[t].pc = "price_met" /\ th'[t].o = o /\ th'[t].batch = th[t].batch
          /\ th'[t].row = th[t].row
          /\ \A u \in Thread \ {t} : th'[u] = th[u]
      BY <2>1, <3>1, Parts DEF Goto, Inv, State
    <3> QED
      BY <2>2, <2>3, <3>1, <3>2 DEF Advances, Own, OneTrade, Balanced, Filling
  <2>4. CASE trades[o] # 0
    <3>1. Skip(t) \/ Done(t)
      BY <1>3, <2>1, <2>4 DEF CheckTrade
    <3>2. order[o].status = "complete"
      BY <2>4 DEF OneTrade
    <3>3. UNCHANGED order \/ order' = [order EXCEPT ![o].status = "complete"]
      BY <1>3, <2>1 DEF CheckTrade
    <3>4. \A p \in Order : Same(order'[p], order[p]) /\ order'[p].status = order[p].status
      BY <3>2, <3>3 DEF Same, Inv, Tables, Row
    <3>5. OneTrade'
      BY <2>2, <3>4 DEF OneTrade
    <3>6. Own(t)' /\ th'[t].pc \notin Filling /\ \A u \in Thread \ {t} : th'[u] = th[u]
      BY <1>b, <3>1, <3>4, EndsOwn
    <3> QED
      BY <2>2, <3>5, <3>6 DEF Advances, Balanced, Filling
  <2> QED
    BY <2>3, <2>4
<1>4. CASE PriceMet(t)
  <2>1. UNCHANGED book /\ Goto(t, "trade") /\ th[t].pc = "price_met"
    BY <1>4 DEF PriceMet, At
  <2>2. /\ th'[t].pc = "trade" /\ th'[t].o = th[t].o /\ th'[t].batch = th[t].batch
        /\ th'[t].row = th[t].row
        /\ \A u \in Thread \ {t} : th'[u] = th[u]
    BY <2>1, Parts DEF Goto, Inv, State
  <2> QED
    BY <2>1, <2>2 DEF Advances, Own, OneTrade, Balanced, Filling, book
<1>5. ASSUME NEW o \in Order, PickOrder(t, o) PROVE Advances(t)
  <2>1. UNCHANGED book /\ th[t].pc = "batch" /\ o \in DOMAIN th[t].batch
    BY <1>5 DEF PickOrder, At
  <2>2. /\ th'[t].pc = "check" /\ th'[t].o = o
        /\ th'[t].row = IF th[t].batch[o] = NoRow THEN order[o] ELSE th[t].batch[o]
        /\ DOMAIN th'[t].batch = DOMAIN th[t].batch \ {o}
        /\ \A p \in DOMAIN th[t].batch \ {o} : th'[t].batch[p] = th[t].batch[p]
        /\ \A u \in Thread \ {t} : th'[u] = th[u]
    <3>1. PICK row : row = IF th[t].batch[o] = NoRow THEN order[o] ELSE th[t].batch[o]
      OBVIOUS
    <3>2. PICK rest : rest = [p \in DOMAIN th[t].batch \ {o} |-> th[t].batch[p]]
      OBVIOUS
    <3>3. th' = [th EXCEPT ![t] = [th[t] EXCEPT !.pc = "check", !.o = o, !.row = row, !.batch = rest]]
      BY <1>5, <3>1, <3>2 DEF PickOrder, Inv
    <3>4. /\ th'[t].pc = "check" /\ th'[t].o = o /\ th'[t].row = row /\ th'[t].batch = rest
          /\ \A u \in Thread \ {t} : th'[u] = th[u]
      BY <3>3, Parts DEF Inv, State
    <3> QED
      BY <3>1, <3>2, <3>4
  <2>3. Same(th'[t].row, order[o])
    BY <2>1, <2>2 DEF Own, Same
  <2>4. Own(t)'
    BY <2>1, <2>2, <2>3 DEF Own, book
  <2> QED
    BY <2>1, <2>2, <2>4 DEF Advances, OneTrade, Balanced, Filling, book
<1> QED
  BY <1>1, <1>2, <1>3, <1>4, <1>5

\* The steps of a fill.
LEMMA FillSolo ==
    ASSUME Inv, NEW t \in Thread, OneTrade, Own(t), Balanced(t),
           RecordTrade(t) \/ ReadPosition(t) \/ ReleaseMargin(t) \/ WritePosition(t) \/ Validate(t)
    PROVE  Advances(t)
<1>0. th[t].pc \notin {"idle", "batch", "delete"} => th[t].o \in Order
  BY Parts
<1>1. CASE RecordTrade(t)
  <2>1. PICK o \in Order : o = th[t].o
    BY <1>0, <1>1 DEF RecordTrade, At
  <2>2. /\ pos' = pos /\ th[t].pc = "trade" /\ trades[o] = 0 /\ Same(th[t].row, order[o])
        /\ net = pos.qty /\ net' = net + Shares(th[t].row)
        /\ order' = [order EXCEPT ![o].status = "complete"]
        /\ trades' = [trades EXCEPT ![o] = trades[o] + 1]
    BY <1>1, <2>1 DEF RecordTrade, At, Own, Balanced, Filling, Shares, Inv, Tables
  <2>3. /\ th'[t].pc = "read" /\ th'[t].o = o /\ th'[t].batch = th[t].batch
        /\ \A u \in Thread \ {t} : th'[u] = th[u]
    BY <1>1, <2>1, Parts DEF RecordTrade, Inv, State
  <2>4. /\ order'[o].status = "complete" /\ \A p \in Order \ {o} : order'[p] = order[p]
        /\ \A p \in Order : Same(order'[p], order[p])
    BY <2>2 DEF Inv, Tables, Row, Same
  <2>5. trades'[o] = 1 /\ \A p \in Order \ {o} : trades'[p] = trades[p]
    BY <2>2 DEF Inv, Tables
  <2>6. OneTrade'
    BY <2>4, <2>5 DEF OneTrade
  <2>7. Shares(order'[o]) = Shares(th[t].row)
    BY <2>2, <2>4 DEF Shares, Same
  <2>8. \A p \in DOMAIN th[t].batch : p \in Order
    <3>1. PICK U \in SUBSET Order : th[t].batch \in [U -> Row]
      BY Parts DEF Batch
    <3> QED
      BY <3>1
  <2>9. \A p \in DOMAIN th'[t].batch : th'[t].batch[p] = NoRow \/ Same(th'[t].batch[p], order'[p])
    BY <2>3, <2>4, <2>8 DEF Own, Same
  <2>10. Own(t)'
    BY <2>2, <2>3, <2>7, <2>9 DEF Own
  <2> QED
    BY <2>3, <2>6, <2>10 DEF Advances, Balanced, Filling
<1>2. CASE ReadPosition(t)
  <2>1. UNCHANGED book /\ th[t].pc = "read" /\ net = pos.qty + Shares(order[th[t].o])
    BY <1>2 DEF ReadPosition, At, Own
  <2>a. PICK row : row = order[th[t].o]
    OBVIOUS
  <2>b. PICK p : p = pos
    OBVIOUS
  <2>2. PICK pc \in {"release", "write"} :
          th' = [th EXCEPT ![t] = [th[t] EXCEPT !.pc = pc, !.row = row, !.seen = p]]
    BY <1>2, <2>a, <2>b DEF ReadPosition, Inv
  <2>3. /\ th'[t].pc \in {"release", "write"} /\ th'[t].o = th[t].o /\ th'[t].batch = th[t].batch
        /\ th'[t].row = row /\ th'[t].seen = p
        /\ \A u \in Thread \ {t} : th'[u] = th[u]
    BY <2>2, Parts DEF Inv, State
  <2>4. Own(t)'
    BY <2>1, <2>a, <2>b, <2>3 DEF Own, book
  <2> QED
    BY <2>1, <2>3, <2>4 DEF Advances, OneTrade, Balanced, Filling, book
<1>3. CASE ReleaseMargin(t)
  <2>1. UNCHANGED book /\ th[t].pc = "release"
    BY <1>3 DEF ReleaseMargin, At
  <2>2. PICK b : b = (Netted(th[t].seen, th[t].row).release <= funds.used)
    OBVIOUS
  <2>3. th' = [th EXCEPT ![t] = [th[t] EXCEPT !.pc = "write", !.wrote = b]]
    BY <1>3, <2>2 DEF ReleaseMargin, Inv
  <2>4. /\ th'[t].pc = "write" /\ th'[t].o = th[t].o /\ th'[t].batch = th[t].batch
        /\ th'[t].row = th[t].row /\ th'[t].seen = th[t].seen
        /\ \A u \in Thread \ {t} : th'[u] = th[u]
    BY <2>3, Parts DEF Inv, State
  <2>5. Own(t)'
    BY <2>1, <2>4 DEF Own, book
  <2> QED
    BY <2>1, <2>4, <2>5 DEF Advances, OneTrade, Balanced, Filling, book
<1>4. CASE WritePosition(t)
  <2>1. /\ UNCHANGED <<order, trades, net>> /\ th[t].pc = "write"
        /\ net = pos.qty + Shares(th[t].row) /\ th[t].seen = pos
    BY <1>4 DEF WritePosition, At, Own
  <2>2. pos'.qty = pos.qty + Shares(th[t].row)
    <3>1. pos'.qty = Netted(th[t].seen, th[t].row).qty
      BY <1>4 DEF WritePosition
    <3> QED
      BY <2>1, <3>1, NettedAdds
  <2>3. /\ th'[t].pc = "validate" /\ th'[t].o = th[t].o /\ th'[t].batch = th[t].batch
        /\ \A u \in Thread \ {t} : th'[u] = th[u]
    BY <1>4, Parts DEF WritePosition, Inv, State
  <2>4. Own(t)'
    BY <2>1, <2>3 DEF Own
  <2> QED
    BY <2>1, <2>2, <2>3, <2>4 DEF Advances, OneTrade, Balanced, Filling
<1>5. CASE Validate(t)
  <2>1. UNCHANGED <<funds, book>> /\ th[t].pc = "validate"
    BY <1>5 DEF Validate, At
  <2>2. CASE Done(t)
    <3>1. Own(t)' /\ th'[t].pc \notin Filling /\ \A u \in Thread \ {t} : th'[u] = th[u]
      BY <2>1, <2>2, EndsOwn DEF book, Same
    <3> QED
      BY <2>1, <3>1 DEF Advances, OneTrade, Balanced, Filling, book
  <2>3. CASE th' = [th EXCEPT ![t].pc = "reconcile", ![t].total = Total, ![t].was = funds]
    <3>1. PICK n, f : n = Total /\ f = funds
      OBVIOUS
    <3>2. th' = [th EXCEPT ![t] = [th[t] EXCEPT !.pc = "reconcile", !.total = n, !.was = f]]
      BY <2>3, <3>1 DEF Inv
    <3>3. /\ th'[t].pc = "reconcile" /\ th'[t].o = th[t].o /\ th'[t].batch = th[t].batch
          /\ th'[t].total = n /\ th'[t].was = f
          /\ \A u \in Thread \ {t} : th'[u] = th[u]
      BY <3>2, Parts DEF Inv, State
    <3>4. Total' = Total
      BY <2>1 DEF Total, book
    <3>5. Own(t)'
      BY <2>1, <3>1, <3>3, <3>4 DEF Own, book
    <3> QED
      BY <2>1, <3>3, <3>5 DEF Advances, OneTrade, Balanced, Filling, book
  <2> QED
    BY <1>5, <2>2, <2>3 DEF Validate
<1> QED
  BY <1>1, <1>2, <1>3, <1>4, <1>5

\* Every step that does not overlap another keeps to itself.
LEMMA SoloNext ==
    ASSUME Inv, Solo, [Next]_vars
    PROVE  Solo'
<1>1. CASE ~alone'
  BY <1>1 DEF Solo
<1>2. CASE UNCHANGED vars
  BY <1>2 DEF vars, book, Solo, Own, OneTrade, Same, Shares, Total, At, Filling
<1>3. CASE Crash /\ alone'
  <2>1. alone /\ \A t \in Thread : At(t, "idle")
    BY <1>3 DEF Crash
  <2>2. UNCHANGED <<funds, book>> /\ \A t \in Thread : th'[t] = Idle
    BY <1>3 DEF Crash
  <2>3. DOMAIN <<>> = {} /\ Idle.batch = <<>> /\ Idle.pc = "idle"
    BY SMT DEF Idle
  <2>4. OneTrade' /\ net' = pos'.qty
    BY <2>1, <2>2 DEF Solo, At, Filling, OneTrade, book
  <2>5. \A t \in Thread : Own(t)' /\ At(t, "idle")'
    BY <2>2, <2>3 DEF Own, At
  <2> QED
    BY <2>4, <2>5 DEF Solo
<1>4. ASSUME NEW t \in Thread, Request(t) \/ StartCycle(t) \/ Work(t), alone'
      PROVE  Solo'
  <2>1. alone /\ Others(t)
    <3>1. ASSUME Request(t) \/ StartCycle(t) PROVE alone /\ \A u \in Thread \ {t} : At(u, "idle")
      <4>1. Start(t)
        BY <3>1 DEF Request, StartCycle, Place, ClosePosition, ReadToCancel, ReadToModify, ResetFunds
      <4> QED
        BY <1>4, <4>1 DEF Start
    <3>2. ASSUME Work(t) PROVE alone /\ ~At(t, "idle")
      BY <1>4, <3>2 DEF Work, PlaceFails, BlockMargin, InsertOrder, CheckTrade, PriceNotMet, PriceMet,
        Trigger, RecordTrade, ReadPosition, ReleaseMargin, WritePosition, Validate, Reconcile,
        PickOrder, CancelOrder, ModifyOrder, DeletePositions, Continue, At
    <3>3. alone /\ \A u \in Thread \ {t} : At(u, "idle")
      BY <1>4, <3>1, <3>2 DEF Solo
    <3> QED
      BY <3>3 DEF Others, Solo, Own, At
  <2>2. OneTrade /\ Own(t) /\ Balanced(t)
    BY <2>1 DEF Solo, Balanced, Others, At, Filling
  <2>3. Advances(t)
    <3>1. ASSUME Request(t) PROVE At(t, "idle")
      BY <3>1 DEF Request, Place, ClosePosition, ReadToCancel, ReadToModify, ResetFunds, Start
    <3> QED
      BY <1>4, <2>2, <3>1, StartSolo, CycleSolo, EndSolo, ForwardSolo, FillSolo DEF Work
  <2> QED
    BY <2>1, <2>3, SoloStep DEF Advances
<1>5. ASSUME NEW t \in Thread, FillFails(t)
      PROVE  ~alone'
  BY <1>5 DEF FillFails
<1> QED
  BY <1>1, <1>2, <1>3, <1>4, <1>5 DEF Next

LEMMA SoloInit == Init => Solo
<1> SUFFICES ASSUME Init PROVE Solo
  OBVIOUS
<1>1. DOMAIN <<>> = {} /\ Idle.batch = <<>> /\ Idle.pc = "idle"
  BY SMT DEF Idle
<1>2. \A t \in Thread : th[t] = Idle
  BY DEF Init
<1>3. \A t \in Thread : Own(t) /\ At(t, "idle")
  BY <1>1, <1>2 DEF Own, At
<1>4. OneTrade /\ net = pos.qty
  BY DEF Init, OneTrade, NoRow, NoPosition
<1> QED
  BY <1>3, <1>4 DEF Solo

\* As long as no two operations have overlapped and none has failed, each order has
\* the one trade that completed it or none, and the position is the net of the trades.
THEOREM AloneExact == Spec => []AloneIsExact
<1>1. Solo => AloneIsExact
  BY DEF Solo, AloneIsExact, Quiet, OneTrade, At, Filling
<1>2. Inv /\ Solo /\ [Next]_vars => Inv' /\ Solo'
  BY NextInv, SoloNext
<1> QED
  BY <1>1, <1>2, InitInv, SoloInit, PTL DEF Spec

\* A fill that nothing disturbs leaves the used margin at the position's.
THEOREM FillsReconcile == Spec => FillReconciles
<1>1. ASSUME Inv, Solo, [Next]_vars
      PROVE  [\A t \in Thread :
                alone' /\ th[t].pc \in {"validate", "reconcile"} /\ At(t, "idle")'
                   => funds'.used = Total']_vars
  <2>1. SUFFICES ASSUME Next, NEW t \in Thread, alone', th[t].pc \in {"validate", "reconcile"}, At(t, "idle")'
                 PROVE  funds'.used = Total'
    BY <1>1
  <2>2. ~Crash
    BY <2>1 DEF Crash, At
  <2>3. PICK u \in Thread : Request(u) \/ StartCycle(u) \/ Work(u) \/ FillFails(u)
    BY <2>1, <2>2 DEF Next
  <2>4. ~FillFails(u)
    BY <2>1 DEF FillFails
  <2>5. ~(Request(u) \/ StartCycle(u))
    <3>1. ASSUME Start(u) PROVE FALSE
      BY <2>1, <3>1 DEF Start, At
    <3> QED
      BY <3>1 DEF Request, StartCycle, Place, ClosePosition, ReadToCancel, ReadToModify, ResetFunds
  <2>6. Work(u) /\ alone /\ ~At(u, "idle")
    BY <2>1, <2>3, <2>4, <2>5
       DEF Work, PlaceFails, BlockMargin, InsertOrder, CheckTrade, PriceNotMet, PriceMet,
        Trigger, RecordTrade, ReadPosition, ReleaseMargin, WritePosition, Validate, Reconcile,
        PickOrder, CancelOrder, ModifyOrder, DeletePositions, Continue, At
  <2>7. u = t
    BY <1>1, <2>1, <2>6 DEF Solo, At
  <2>8. Own(t)
    BY <1>1, <2>6 DEF Solo
  <2>9. Validate(t) \/ Reconcile(t)
    BY <2>1, <2>6, <2>7
       DEF Work, PlaceFails, BlockMargin, InsertOrder, CheckTrade, PriceNotMet, PriceMet,
        Trigger, RecordTrade, ReadPosition, ReleaseMargin, WritePosition,
        PickOrder, CancelOrder, ModifyOrder, DeletePositions, At
  <2>10. CASE Validate(t)
    <3>1. funds.used = Total
      <4>1. SUFFICES ASSUME funds.used # Total PROVE FALSE
        OBVIOUS
      <4>2. th' = [th EXCEPT ![t].pc = "reconcile", ![t].total = Total, ![t].was = funds]
        BY <2>10, <4>1 DEF Validate
      <4>3. th'[t].pc = "reconcile"
        BY <1>1, <4>2, Parts DEF Inv, State
      <4> QED
        BY <2>1, <4>3 DEF At
    <3> QED
      BY <2>10, <3>1 DEF Validate, book, Total
  <2>11. CASE Reconcile(t)
    BY <2>8, <2>11 DEF Reconcile, Own, At, book, Total
  <2> QED
    BY <2>9, <2>10, <2>11
<1>2. Inv /\ Solo /\ [Next]_vars => Inv' /\ Solo'
  BY NextInv, SoloNext
<1> QED
  BY <1>1, <1>2, InitInv, SoloInit, PTL DEF Spec, FillReconciles

-----------------------------------------------------------------------------
(* One polling engine *)

\* A second engine may still hold an order that the first has just traded.
OnePoller == \A p, q \in Poller : p = q

\* The status in which an order rests until its trigger is met.
Resting == "trigger pending"
Clear(t, o) ==
    /\ th[t].o = o => th[t].row.status # Resting
    /\ o \in DOMAIN th[t].batch => th[t].batch[o].status # Resting

\* An order that no one knows as resting.
Opened(o) == order[o].status # Resting /\ \A t \in Thread : Clear(t, o)

ToFill == {"check", "price_met", "trade"}
Placing == {"price", "insert"}

\* An order being placed is in nobody else's hands.
PlacesAlone(t) ==
    th[t].pc \in Placing =>
        /\ t \in Client
        /\ order[th[t].o].status = "none"
        /\ \A u \in Thread \ {t} : ~InHand(u, th[t].o)

\* One filled by its own request never rested.
FillsOpened(t) == t \in Client /\ th[t].pc \in ToFill => Opened(th[t].o)

\* One to be triggered has not traded.
Untraded(t) == th[t].pc = "price_met" /\ th[t].row.status = Resting => trades[th[t].o] = 0

NoBatch(t) == t \in Client => th[t].pc # "batch" /\ DOMAIN th[t].batch = {}

Booked ==
    /\ \A o \in Order :
          /\ order[o].status \in Pending \cup {"none"} => trades[o] = 0
          /\ order[o].status = "complete" => trades[o] > 0
    /\ \A t \in Thread : PlacesAlone(t) /\ FillsOpened(t) /\ Untraded(t) /\ NoBatch(t)

Takes(t) == Request(t) \/ StartCycle(t)
Acts(t) == Takes(t) \/ Work(t) \/ FillFails(t)

\* How a request begins.
LEMMA RequestTakes ==
    ASSUME Inv, NEW t \in Thread, Request(t)
    PROVE  /\ UNCHANGED book /\ t \in Client
           /\ \A u \in Thread \ {t} : th'[u] = th[u]
           /\ \/ th'[t].pc = "delete" /\ th'[t].o = th[t].o /\ th'[t].row = th[t].row
                 /\ th'[t].batch = th[t].batch
              \/ th'[t].batch = <<>> /\ \E o \in Order :
                    /\ th'[t].o = o
                    /\ \/ th'[t].pc = "price" /\ Fresh(o) /\ th'[t].row.status = "none"
                       \/ /\ th'[t].pc \in {"cancel", "modify"} /\ order[o].status \in Pending
                          /\ th'[t].row = order[o]
<1>1. ASSUME NEW o \in Order,
             (\E s \in Side, q \in Quantity : Place(t, o, s, q)) \/ ClosePosition(t, o)
      PROVE  /\ UNCHANGED book /\ t \in Client
             /\ \A u \in Thread \ {t} : th'[u] = th[u]
             /\ th'[t].batch = <<>> /\ th'[t].o = o /\ th'[t].pc = "price" /\ Fresh(o)
             /\ th'[t].row.status = "none"
  <2>1. UNCHANGED book /\ t \in Client /\ Fresh(o)
    BY <1>1 DEF Place, ClosePosition
  <2>2. PICK s, q, p : th' = [th EXCEPT ![t] = [Idle EXCEPT
                          !.pc = "price", !.o = o, !.seen = p,
                          !.row = [NoRow EXCEPT !.side = s, !.qty = q]]]
    BY <1>1 DEF Place, ClosePosition
  <2>3. [NoRow EXCEPT !.side = s, !.qty = q].status = "none"
    BY DEF NoRow
  <2>4. PICK row : row = [NoRow EXCEPT !.side = s, !.qty = q]
    OBVIOUS
  <2>5. th' = [th EXCEPT ![t] = [Idle EXCEPT !.pc = "price", !.o = o, !.seen = p, !.row = row]]
    BY <2>2, <2>4
  <2>6. /\ \A u \in Thread \ {t} : th'[u] = th[u]
        /\ th'[t].batch = <<>> /\ th'[t].o = o /\ th'[t].pc = "price" /\ th'[t].row = row
    BY <2>5 DEF Inv, Idle
  <2> QED
    BY <2>1, <2>3, <2>4, <2>6
<1>2. ASSUME NEW o \in Order, ReadToCancel(t, o) \/ ReadToModify(t, o)
      PROVE  /\ UNCHANGED book /\ t \in Client
             /\ \A u \in Thread \ {t} : th'[u] = th[u]
             /\ th'[t].batch = <<>> /\ th'[t].o = o /\ th'[t].pc \in {"cancel", "modify"}
             /\ order[o].status \in Pending /\ th'[t].row = order[o]
  BY <1>2 DEF ReadToCancel, ReadToModify, Inv, Idle
<1>3. ASSUME ResetFunds(t)
      PROVE  /\ UNCHANGED book /\ t \in Client
             /\ \A u \in Thread \ {t} : th'[u] = th[u]
             /\ th'[t].pc = "delete" /\ th'[t].o = th[t].o /\ th'[t].row = th[t].row
             /\ th'[t].batch = th[t].batch
  BY <1>3, Parts DEF ResetFunds, Inv, State
<1> QED
  BY <1>1, <1>2, <1>3 DEF Request

\* How a cycle begins.
LEMMA CycleTakes ==
    ASSUME Inv, NEW t \in Thread, StartCycle(t)
    PROVE  /\ UNCHANGED book /\ t \in Poller
           /\ \A u \in Thread \ {t} : th'[u] = th[u]
           /\ th'[t].pc \in {"idle", "batch"} /\ th'[t].o = "none"
           /\ \A o \in DOMAIN th'[t].batch :
                 o \in Order /\ order[o].status \in Pending /\ th'[t].batch[o] = order[o]
<1> DEFINE S == {o \in Order : order[o].status \in Pending}
<1>1. PICK batch : batch = [o \in S |-> order[o]]
  OBVIOUS
<1>2. Leave(t, batch) /\ UNCHANGED book /\ t \in Poller
  BY <1>1 DEF StartCycle
<1>3. DOMAIN batch = S /\ \A o \in S : batch[o] = order[o]
  BY <1>1
<1>4. DOMAIN <<>> = {} /\ Idle.batch = <<>> /\ Idle.pc = "idle" /\ Idle.o = "none"
  BY SMT DEF Idle
<1>5. /\ \A u \in Thread \ {t} : th'[u] = th[u]
      /\ \/ th'[t] = Idle
         \/ th'[t].pc = "batch" /\ th'[t].o = "none" /\ th'[t].batch = batch
  BY <1>2, LeaveEnds DEF Inv
<1> QED
  BY <1>2, <1>3, <1>4, <1>5

\* A thread that goes on with its order.
Stays(t) ==
    /\ th'[t].o = th[t].o /\ th'[t].batch = th[t].batch
    /\ \A u \in Thread \ {t} : th'[u] = th[u]

\* The steps of a thread at work: it is through with its order, takes the next
\* of its batch, or goes on.
LEMMA WorkGoes ==
    ASSUME Inv, NEW t \in Thread, Work(t) \/ FillFails(t)
    PROVE  \/ Skip(t) \/ Done(t)
           \/ \E o \in Order : PickOrder(t, o)
           \/ /\ Stays(t)
              /\ \/ BlockMargin(t) /\ th[t].pc = "price" /\ th'[t].pc = "insert"
                    /\ th'[t].row.status = th[t].row.status
                 \/ InsertOrder(t) /\ th'[t].pc \in {"check", "trade"} /\ th'[t].row.status = "open"
                 \/ CheckTrade(t) /\ th'[t].pc = "price_met" /\ th'[t].row = th[t].row
                 \/ PriceMet(t) /\ th'[t].pc = "trade" /\ th'[t].row = th[t].row
                 \/ RecordTrade(t) /\ th'[t].pc = "read" /\ th'[t].row.status = "none"
                 \/ ReadPosition(t) /\ th'[t].pc \in {"release", "write"} /\ th'[t].row = order[th[t].o]
                 \/ ReleaseMargin(t) /\ th'[t].pc = "write" /\ th'[t].row = th[t].row
                 \/ WritePosition(t) /\ th'[t].pc = "validate" /\ th'[t].row.status = "none"
                 \/ Validate(t) /\ th'[t].pc = "reconcile" /\ th'[t].row = th[t].row
<1>1. ASSUME BlockMargin(t)
      PROVE  /\ Stays(t) /\ th[t].pc = "price" /\ th'[t].pc = "insert"
             /\ th'[t].row.status = th[t].row.status
  BY <1>1, Parts DEF BlockMargin, Inv, State, Stays, At, Row
<1>2. ASSUME InsertOrder(t), ~Done(t)
      PROVE  Stays(t) /\ th'[t].pc \in {"check", "trade"} /\ th'[t].row.status = "open"
  <2>1. PICK pc \in {"check", "trade"} : th' = [th EXCEPT ![t].pc = pc, ![t].row.status = "open"]
    BY <1>2 DEF InsertOrder
  <2> QED
    BY <2>1, Parts DEF Inv, State, Stays, Row
<1>3. ASSUME CheckTrade(t), ~Done(t), ~Skip(t)
      PROVE  Stays(t) /\ th'[t].pc = "price_met" /\ th'[t].row = th[t].row
  BY <1>3, Parts DEF CheckTrade, Goto, Inv, State, Stays
<1>4. ASSUME PriceMet(t)
      PROVE  Stays(t) /\ th'[t].pc = "trade" /\ th'[t].row = th[t].row
  BY <1>4, Parts DEF PriceMet, Goto, Inv, State, Stays
<1>5. ASSUME RecordTrade(t)
      PROVE  Stays(t) /\ th'[t].pc = "read" /\ th'[t].row.status = "none"
  BY <1>5, Parts DEF RecordTrade, Inv, State, Stays, NoRow
<1>6. ASSUME ReadPosition(t)
      PROVE  Stays(t) /\ th'[t].pc \in {"release", "write"} /\ th'[t].row = order[th[t].o]
  <2>a. PICK row : row = order[th[t].o]
    OBVIOUS
  <2>b. PICK p : p = pos
    OBVIOUS
  <2>1. PICK pc \in {"release", "write"} :
          th' = [th EXCEPT ![t] = [th[t] EXCEPT !.pc = pc, !.row = row, !.seen = p]]
    BY <1>6, <2>a, <2>b DEF ReadPosition, Inv
  <2> QED
    BY <2>1, <2>a, Parts DEF Inv, State, Stays
<1>7. ASSUME ReleaseMargin(t)
      PROVE  Stays(t) /\ th'[t].pc = "write" /\ th'[t].row = th[t].row
  <2>1. PICK b : b = (Netted(th[t].seen, th[t].row).release <= funds.used)
    OBVIOUS
  <2>2. th' = [th EXCEPT ![t] = [th[t] EXCEPT !.pc = "write", !.wrote = b]]
    BY <1>7, <2>1 DEF ReleaseMargin, Inv
  <2> QED
    BY <2>2, Parts DEF Inv, State, Stays
<1>8. ASSUME WritePosition(t)
      PROVE  Stays(t) /\ th'[t].pc = "validate" /\ th'[t].row.status = "none"
  BY <1>8, Parts DEF WritePosition, Inv, State, Stays, NoRow
<1>9. ASSUME Validate(t), ~Done(t)
      PROVE  Stays(t) /\ th'[t].pc = "reconcile" /\ th'[t].row = th[t].row
  <2>1. PICK n, f : n = Total /\ f = funds
    OBVIOUS
  <2>2. th' = [th EXCEPT ![t] = [th[t] EXCEPT !.pc = "reconcile", !.total = n, !.was = f]]
    BY <1>9, <2>1 DEF Validate, Inv
  <2> QED
    BY <2>2, Parts DEF Inv, State, Stays
<1>10. ASSUME PlaceFails(t) \/ PriceNotMet(t) \/ Trigger(t) \/ Reconcile(t) \/ CancelOrder(t)
              \/ (\E q \in Quantity : ModifyOrder(t, q)) \/ DeletePositions(t) \/ FillFails(t)
       PROVE  Skip(t) \/ Done(t)
  BY <1>10 DEF PlaceFails, PriceNotMet, Trigger, Reconcile, CancelOrder, ModifyOrder,
               DeletePositions, FillFails
<1>11. CASE \/ PlaceFails(t) \/ PriceNotMet(t) \/ Trigger(t) \/ Reconcile(t) \/ CancelOrder(t)
            \/ (\E q \in Quantity : ModifyOrder(t, q)) \/ DeletePositions(t) \/ FillFails(t)
            \/ (\E o \in Order : PickOrder(t, o))
  BY <1>10, <1>11
<1>12. CASE BlockMargin(t) \/ InsertOrder(t) \/ CheckTrade(t) \/ PriceMet(t) \/ RecordTrade(t)
  BY <1>1, <1>2, <1>3, <1>4, <1>5, <1>12
<1>13. CASE ReadPosition(t) \/ ReleaseMargin(t) \/ WritePosition(t) \/ Validate(t)
  BY <1>6, <1>7, <1>8, <1>9, <1>13
<1> QED
  BY <1>11, <1>12, <1>13 DEF Work

\* The next order of a batch.
LEMMA PickTakes ==
    ASSUME Inv, NEW t \in Thread, NEW o \in Order, PickOrder(t, o)
    PROVE  /\ UNCHANGED book /\ th[t].pc = "batch" /\ o \in DOMAIN th[t].batch
           /\ th'[t].pc = "check" /\ th'[t].o = o
           /\ th'[t].row = IF th[t].batch[o] = NoRow THEN order[o] ELSE th[t].batch[o]
           /\ DOMAIN th'[t].batch = DOMAIN th[t].batch \ {o}
           /\ \A p \in DOMAIN th[t].batch \ {o} : th'[t].batch[p] = th[t].batch[p]
           /\ \A u \in Thread \ {t} : th'[u] = th[u]
<1>1. PICK row : row = IF th[t].batch[o] = NoRow THEN order[o] ELSE th[t].batch[o]
  OBVIOUS
<1>2. PICK rest : rest = [p \in DOMAIN th[t].batch \ {o} |-> th[t].batch[p]]
  OBVIOUS
<1>3. th' = [th EXCEPT ![t] = [th[t] EXCEPT !.pc = "check", !.o = o, !.row = row, !.batch = rest]]
  BY <1>1, <1>2 DEF PickOrder, Inv
<1>4. /\ th'[t].pc = "check" /\ th'[t].o = o /\ th'[t].row = row /\ th'[t].batch = rest
      /\ \A u \in Thread \ {t} : th'[u] = th[u]
  BY <1>3, Parts DEF Inv, State
<1>5. UNCHANGED book /\ th[t].pc = "batch" /\ o \in DOMAIN th[t].batch
  BY DEF PickOrder, At
<1> QED
  BY <1>1, <1>2, <1>4, <1>5

\* A thread that is through with its order keeps what it has read of the others.
LEMMA EndKeeps ==
    ASSUME Inv, NEW t \in Thread, Skip(t) \/ Done(t)
    PROVE  /\ th'[t].pc \in {"idle", "batch"} /\ th'[t].o = "none" /\ th'[t].row.status = "none"
           /\ th'[t].pc = "batch" => DOMAIN th[t].batch # {}
           /\ \A o \in DOMAIN th'[t].batch :
                 o \in DOMAIN th[t].batch /\ th'[t].batch[o] \in {NoRow, th[t].batch[o]}
           /\ \A u \in Thread \ {t} : th'[u] = th[u]
<1>1. /\ Idle.pc = "idle" /\ Idle.o = "none" /\ Idle.row = NoRow /\ NoRow.status = "none"
      /\ Idle.batch = <<>>
  BY DEF Idle, NoRow
<1>2. PICK batch : Leave(t, batch) /\ DOMAIN batch = DOMAIN th[t].batch
  BY DEF Skip, Done
<1>3. th' = [th EXCEPT ![t] = IF DOMAIN batch = {} THEN Idle
                              ELSE [Idle EXCEPT !.pc = "batch", !.batch = batch]]
  BY <1>2 DEF Leave
<1>4. CASE DOMAIN batch = {}
  <2>1. th'[t] = Idle
    BY <1>3, <1>4 DEF Inv
  <2> QED
    BY <1>1, <2>1, Ends DEF Inv
<1>5. CASE DOMAIN batch # {}
  <2>1. th'[t] = [Idle EXCEPT !.pc = "batch", !.batch = batch]
    BY <1>3, <1>5 DEF Inv
  <2>2. th'[t].pc = "batch" /\ th'[t].o = "none" /\ th'[t].row = NoRow
    BY <2>1 DEF Idle
  <2> QED
    BY <1>1, <1>2, <1>5, <2>2, Ends DEF Inv
<1> QED
  BY <1>4, <1>5

\* What a step at work does to the order in hand; it writes no other.
Kinds(t, o) ==
    \/ order'[o].status = order[o].status /\ trades'[o] = trades[o]
    \/ /\ InsertOrder(t) /\ th[t].pc = "insert" /\ trades'[o] = trades[o]
       /\ order'[o].status \in Pending /\ (order'[o].status = "open" \/ Done(t))
    \/ order'[o].status = "complete" /\ trades[o] # 0 /\ trades'[o] = trades[o]
    \/ /\ Trigger(t) /\ th[t].pc = "price_met" /\ th[t].row.status = Resting
       /\ order'[o].status = "open" /\ trades'[o] = trades[o]
    \/ /\ RecordTrade(t) /\ th[t].pc = "trade"
       /\ order'[o].status = "complete" /\ trades'[o] = trades[o] + 1
    \/ order'[o].status \in {"rejected", "cancelled"} /\ trades'[o] = trades[o]

LEMMA WorkWrites ==
    ASSUME Inv, NEW t \in Thread, Work(t) \/ FillFails(t)
    PROVE  \A o \in Order :
              /\ o # th[t].o => order'[o] = order[o] /\ trades'[o] = trades[o]
              /\ o = th[t].o => Kinds(t, o)
<1> SUFFICES ASSUME NEW o \in Order
             PROVE  /\ o # th[t].o => order'[o] = order[o] /\ trades'[o] = trades[o]
                    /\ o = th[t].o => Kinds(t, o)
  OBVIOUS
<1>1. o # th[t].o => order'[o] = order[o] /\ trades'[o] = trades[o]
  BY DEF Work, PlaceFails, BlockMargin, InsertOrder, CheckTrade, PriceNotMet, PriceMet,
        Trigger, RecordTrade, ReadPosition, ReleaseMargin, WritePosition, Validate, Reconcile,
        PickOrder, CancelOrder, ModifyOrder, DeletePositions, FillFails, book, Inv, Tables
<1>2. ASSUME o = th[t].o,
             \/ PlaceFails(t) \/ BlockMargin(t) \/ PriceNotMet(t) \/ PriceMet(t) \/ ReadPosition(t)
             \/ ReleaseMargin(t) \/ WritePosition(t) \/ Validate(t) \/ Reconcile(t)
             \/ (\E p \in Order : PickOrder(t, p)) \/ DeletePositions(t)
      PROVE  Kinds(t, o)
  <2>1. UNCHANGED <<order, trades>>
    BY <1>2 DEF PlaceFails, BlockMargin, PriceNotMet, PriceMet, ReadPosition, ReleaseMargin,
        WritePosition, Validate, Reconcile, PickOrder, DeletePositions, book
  <2> QED
    BY <2>1 DEF Kinds
<1>3. ASSUME o = th[t].o, InsertOrder(t) PROVE Kinds(t, o)
  <2>1. PICK st \in Pending : /\ order' = [order EXCEPT ![o] = [th[t].row EXCEPT !.status = st]]
                              /\ st = "open" \/ Done(t)
    BY <1>3 DEF InsertOrder, Pending
  <2>2. order'[o].status = st
    BY <2>1, Parts DEF Inv, Tables, Row
  <2> QED
    BY <1>3, <2>1, <2>2 DEF Kinds, InsertOrder, At
<1>4. ASSUME o = th[t].o, CheckTrade(t) PROVE Kinds(t, o)
  BY <1>4 DEF Kinds, CheckTrade, Inv, Tables, Row
<1>5. ASSUME o = th[t].o, Trigger(t) PROVE Kinds(t, o)
  BY <1>5 DEF Kinds, Trigger, Inv, Tables, Row, At, Resting
<1>6. ASSUME o = th[t].o, RecordTrade(t) PROVE Kinds(t, o)
  BY <1>6 DEF Kinds, RecordTrade, Inv, Tables, Row, At
<1>7. ASSUME o = th[t].o, FillFails(t) \/ CancelOrder(t) PROVE Kinds(t, o)
  BY <1>7 DEF Kinds, FillFails, CancelOrder, Inv, Tables, Row
<1>8. ASSUME o = th[t].o, NEW q \in Quantity, ModifyOrder(t, q) PROVE Kinds(t, o)
  BY <1>8 DEF Kinds, ModifyOrder, Inv, Tables, Row
<1> QED
  BY <1>1, <1>2, <1>3, <1>4, <1>5, <1>6, <1>7, <1>8 DEF Work

\* An order that neither its row nor t knows as resting stays so, unless t is
\* placing it.
LEMMA ClearStays ==
    ASSUME Inv, NEW t \in Thread, NEW o \in Order, Acts(t), Clear(t, o),
           order[o].status # Resting, ~(InsertOrder(t) /\ th[t].o = o)
    PROVE  order'[o].status # Resting /\ Clear(t, o)'
<1>0. DOMAIN <<>> = {} /\ NoRow.status = "none" /\ o # "none"
  BY SMT, LedgerAssumption DEF NoRow
<1>1. CASE Request(t)
  BY <1>0, <1>1, RequestTakes DEF Clear, book, Resting
<1>2. CASE StartCycle(t)
  BY <1>0, <1>2, CycleTakes DEF Clear, book, Resting
<1>3. CASE Work(t) \/ FillFails(t)
  <2>1. order'[o].status # Resting
    BY <1>3, WorkWrites DEF Kinds, Resting
  <2>2. CASE Skip(t) \/ Done(t)
    BY <1>0, <2>1, <2>2, EndKeeps DEF Clear, Resting
  <2>3. ASSUME NEW p \in Order, PickOrder(t, p) PROVE Clear(t, o)'
    <3>1. /\ th'[t].o = p /\ p \in DOMAIN th[t].batch
          /\ th'[t].row = IF th[t].batch[p] = NoRow THEN order[p] ELSE th[t].batch[p]
          /\ DOMAIN th'[t].batch = DOMAIN th[t].batch \ {p}
          /\ \A q \in DOMAIN th[t].batch \ {p} : th'[t].batch[q] = th[t].batch[q]
      BY <2>3, PickTakes
    <3>2. p = o => th'[t].row.status # Resting
      BY <3>1 DEF Clear
    <3>3. o \in DOMAIN th'[t].batch => th'[t].batch[o].status # Resting
      BY <3>1 DEF Clear
    <3> QED
      BY <3>1, <3>2, <3>3 DEF Clear
  <2>4. CASE Stays(t) /\ th'[t].row.status \in {th[t].row.status, "none"}
    BY <2>1, <2>4 DEF Clear, Stays, Resting
  <2>5. CASE Stays(t) /\ InsertOrder(t)
    BY <2>1, <2>5 DEF Clear, Stays
  <2>6. CASE Stays(t) /\ th'[t].row = order[th[t].o]
    BY <2>1, <2>6 DEF Clear, Stays
  <2> QED
    BY <1>3, <2>1, <2>2, <2>3, <2>4, <2>5, <2>6, WorkGoes
<1> QED
  BY <1>1, <1>2, <1>3 DEF Acts, Takes

\* No thread takes an order up while another is placing it.
LEMMA HandsOff ==
    ASSUME Inv, NEW t \in Thread, NEW u \in Thread, NEW o \in Order, Acts(t),
           InHand(u, o), order[o].status = "none", ~InHand(t, o)
    PROVE  ~InHand(t, o)'
<1>0. DOMAIN <<>> = {} /\ o # "none"
  BY SMT, LedgerAssumption
<1>1. CASE Request(t)
  BY <1>0, <1>1, RequestTakes DEF InHand, Fresh, Held, Pending
<1>2. CASE StartCycle(t)
  BY <1>0, <1>2, CycleTakes DEF InHand, Pending
<1>3. CASE Work(t) \/ FillFails(t)
  <2>1. CASE Skip(t) \/ Done(t)
    BY <1>0, <2>1, EndKeeps DEF InHand
  <2>2. ASSUME NEW p \in Order, PickOrder(t, p) PROVE ~InHand(t, o)'
    BY <2>2, PickTakes DEF InHand
  <2>3. CASE Stays(t)
    BY <2>3 DEF InHand, Stays
  <2> QED
    BY <1>3, <2>1, <2>2, <2>3, WorkGoes
<1> QED
  BY <1>1, <1>2, <1>3 DEF Acts, Takes

\* What the step of a thread leaves of the tables.
LEMMA TablesBooked ==
    ASSUME Inv, Booked, NEW t \in Thread, Acts(t), NEW o \in Order
    PROVE  /\ order'[o].status \in Pending \cup {"none"} => trades'[o] = 0
           /\ order'[o].status = "complete" => trades'[o] > 0
<1>1. trades[o] \in Nat
  BY DEF Inv, Tables
<1>2. CASE Takes(t)
  BY <1>2, RequestTakes, CycleTakes DEF Takes, book, Booked
<1>3. CASE Work(t) \/ FillFails(t)
  <2>1. CASE o # th[t].o
    BY <1>3, <2>1, WorkWrites DEF Booked
  <2>2. CASE o = th[t].o
    <3>1. Kinds(t, o)
      BY <1>3, <2>2, WorkWrites
    <3>2. th[t].pc = "insert" => order[o].status = "none"
      BY <2>2 DEF Booked, PlacesAlone, Placing
    <3>3. th[t].pc = "price_met" /\ th[t].row.status = Resting => trades[o] = 0
      BY <2>2 DEF Booked, Untraded
    <3>4. /\ order[o].status \in Pending \cup {"none"} => trades[o] = 0
          /\ order[o].status = "complete" => trades[o] > 0
      BY DEF Booked
    <3>5. ASSUME order'[o].status = order[o].status, trades'[o] = trades[o]
          PROVE  /\ order'[o].status \in Pending \cup {"none"} => trades'[o] = 0
                 /\ order'[o].status = "complete" => trades'[o] > 0
      BY <3>4, <3>5
    <3>6. ASSUME order'[o].status \in Pending, trades'[o] = 0
          PROVE  /\ order'[o].status \in Pending \cup {"none"} => trades'[o] = 0
                 /\ order'[o].status = "complete" => trades'[o] > 0
      BY <3>6 DEF Pending
    <3>7. ASSUME order'[o].status = "complete", trades'[o] > 0
          PROVE  /\ order'[o].status \in Pending \cup {"none"} => trades'[o] = 0
                 /\ order'[o].status = "complete" => trades'[o] > 0
      BY <3>7 DEF Pending
    <3>8. trades[o] # 0 => trades[o] > 0
      BY <1>1
    <3>9. trades[o] + 1 > 0
      BY <1>1
    <3> QED
      BY <3>1, <3>2, <3>3, <3>4, <3>5, <3>6, <3>7, <3>8, <3>9 DEF Kinds, Pending
  <2> QED
    BY <2>1, <2>2
<1> QED
  BY <1>2, <1>3 DEF Acts

\* The acting thread changes no other.
LEMMA OthersWait ==
    ASSUME Inv, NEW t \in Thread, Acts(t)
    PROVE  \A u \in Thread \ {t} : th'[u] = th[u]
BY RequestTakes, CycleTakes, WorkGoes, EndKeeps, PickTakes DEF Acts, Takes, Stays

\* An order that is known to no one as resting stays so.
LEMMA OpenedStays ==
    ASSUME Inv, NEW t \in Thread, NEW o \in Order, Acts(t), Opened(o),
           ~(InsertOrder(t) /\ th[t].o = o)
    PROVE  Opened(o)'
<1>1. order'[o].status # Resting /\ Clear(t, o)'
  BY ClearStays DEF Opened
<1>2. ASSUME NEW u \in Thread \ {t} PROVE Clear(u, o)'
  BY OthersWait DEF Clear, Opened
<1> QED
  BY <1>1, <1>2 DEF Opened

\* What a thread has booked, of an order that a constant names.
LEMMA BookedOf ==
    ASSUME NEW t \in Thread, NEW o, th[t].o = o
    PROVE  /\ PlacesAlone(t) <=> (th[t].pc \in Placing =>
                /\ t \in Client /\ order[o].status = "none"
                /\ \A u \in Thread \ {t} : ~InHand(u, o))
           /\ FillsOpened(t) <=> (t \in Client /\ th[t].pc \in ToFill => Opened(o))
           /\ Untraded(t) <=> (th[t].pc = "price_met" /\ th[t].row.status = Resting => trades[o] = 0)
BY DEF PlacesAlone, FillsOpened, Untraded, Opened, Clear, InHand

LEMMA BookedThen ==
    ASSUME NEW t \in Thread, NEW o, th'[t].o = o
    PROVE  /\ PlacesAlone(t)' <=> (th'[t].pc \in Placing =>
                /\ t \in Client /\ order'[o].status = "none"
                /\ \A u \in Thread \ {t} : ~InHand(u, o)')
           /\ FillsOpened(t)' <=> (t \in Client /\ th'[t].pc \in ToFill => Opened(o)')
           /\ Untraded(t)' <=> (th'[t].pc = "price_met" /\ th'[t].row.status = Resting => trades'[o] = 0)
BY DEF PlacesAlone, FillsOpened, Untraded, Opened, Clear, InHand

\* The thread that acts.
LEMMA ActorBooked ==
    ASSUME Inv, Booked, NEW t \in Thread, Acts(t)
    PROVE  PlacesAlone(t)' /\ FillsOpened(t)' /\ Untraded(t)' /\ NoBatch(t)'
<1>0. /\ DOMAIN <<>> = {} /\ (t \in Client => t \notin Poller)
      /\ t \in Client => th[t].pc # "batch" /\ DOMAIN th[t].batch = {}
  BY SMT, LedgerAssumption DEF Booked, NoBatch
<1>a. \A u \in Thread \ {t}, o \in Order : InHand(u, o)' = InHand(u, o)
  BY OthersWait DEF InHand
<1>b. PICK o : o = th'[t].o
  OBVIOUS
<1>c. ASSUME th'[t].pc \notin Placing \cup ToFill PROVE PlacesAlone(t)' /\ FillsOpened(t)' /\ Untraded(t)'
  BY <1>c DEF PlacesAlone, FillsOpened, Untraded, Placing, ToFill
<1>1. CASE Request(t)
  <2>1. /\ th'[t].pc \in {"price", "cancel", "modify", "delete"}
        /\ t \in Client /\ (th'[t].batch = <<>> \/ th'[t].batch = th[t].batch)
    BY <1>1, RequestTakes
  <2>2. NoBatch(t)'
    BY <1>0, <2>1 DEF NoBatch
  <2>3. CASE th'[t].pc = "price"
    <3>1. o \in Order /\ Fresh(o) /\ UNCHANGED book
      BY <1>1, <1>b, <2>3, RequestTakes
    <3>2. order'[o].status = "none" /\ \A u \in Thread \ {t} : ~InHand(u, o)'
      BY <1>a, <3>1 DEF Fresh, Held, book
    <3> QED
      BY <1>b, <2>1, <2>2, <2>3, <3>2, BookedThen DEF ToFill
  <2>4. CASE th'[t].pc # "price"
    BY <1>c, <2>1, <2>2, <2>4 DEF Placing, ToFill
  <2> QED
    BY <2>3, <2>4
<1>2. CASE StartCycle(t)
  <2>1. th'[t].pc \in {"idle", "batch"} /\ t \in Poller
    BY <1>2, CycleTakes
  <2> QED
    BY <1>0, <1>c, <2>1 DEF Placing, ToFill, NoBatch
<1>3. CASE Skip(t) \/ Done(t)
  <2>1. /\ th'[t].pc \in {"idle", "batch"}
        /\ th'[t].pc = "batch" => DOMAIN th[t].batch # {}
        /\ DOMAIN th'[t].batch \subseteq DOMAIN th[t].batch
    BY <1>3, EndKeeps
  <2> QED
    BY <1>0, <1>c, <2>1 DEF Placing, ToFill, NoBatch
<1>4. ASSUME NEW p \in Order, PickOrder(t, p)
      PROVE  PlacesAlone(t)' /\ FillsOpened(t)' /\ Untraded(t)' /\ NoBatch(t)'
  <2>1. th'[t].pc = "check" /\ t \notin Client
    BY <1>0, <1>4, PickTakes
  <2> QED
    BY <2>1 DEF PlacesAlone, FillsOpened, Untraded, NoBatch, Placing
<1>d. ASSUME Stays(t) PROVE th'[t].o = th[t].o /\ (t \in Client => DOMAIN th'[t].batch = {})
  BY <1>0, <1>d DEF Stays
<1>5. CASE Stays(t) /\ BlockMargin(t) /\ th[t].pc = "price" /\ th'[t].pc = "insert"
  <2>1. o = th[t].o /\ o \in Order
    BY <1>5, <1>b, Parts DEF Stays
  <2>2. t \in Client /\ order[o].status = "none" /\ \A u \in Thread \ {t} : ~InHand(u, o)
    BY <1>5, <2>1, BookedOf DEF Booked, Placing
  <2>3. order'[o].status = "none" /\ \A u \in Thread \ {t} : ~InHand(u, o)'
    BY <1>a, <1>5, <2>1, <2>2 DEF BlockMargin, book
  <2> QED
    BY <1>b, <1>d, <1>5, <2>2, <2>3, BookedThen DEF ToFill, NoBatch
<1>6. CASE Stays(t) /\ InsertOrder(t) /\ th'[t].pc \in {"check", "trade"} /\ th'[t].row.status = "open"
  <2>1. o = th[t].o /\ o \in Order /\ th[t].pc = "insert"
    BY <1>6, <1>b, Parts DEF InsertOrder, At, Stays
  <2>2. t \in Client /\ \A u \in Thread \ {t} : ~InHand(u, o)
    BY <2>1, BookedOf DEF Booked, Placing
  <2>3. DOMAIN th'[t].batch = {} /\ th'[t].o = o
    BY <1>b, <1>d, <1>6, <2>2
  <2>4. ~Done(t)
    BY <1>6, EndKeeps
  <2>5. order'[o].status = "open"
    <3>1. order' = [order EXCEPT ![o] = [th[t].row EXCEPT !.status = "open"]]
      BY <1>6, <2>1, <2>4 DEF InsertOrder
    <3> QED
      BY <2>1, <3>1, Parts DEF Inv, Tables, Row
  <2>6. ASSUME NEW u \in Thread PROVE Clear(u, o)'
    <3>1. CASE u = t
      BY <1>6, <2>3, <3>1 DEF Clear, Resting
    <3>2. CASE u # t
      BY <2>2, <3>2, OthersWait DEF Clear, InHand
    <3> QED
      BY <3>1, <3>2
  <2>7. Opened(o)'
    BY <2>5, <2>6 DEF Opened, Resting
  <2> QED
    BY <1>6, <2>2, <2>3, <2>7, BookedThen DEF Placing, NoBatch
<1>7. CASE Stays(t) /\ CheckTrade(t) /\ th'[t].pc = "price_met"
  <2>1. o = th[t].o /\ o \in Order /\ th[t].pc = "check"
    BY <1>7, <1>b, Parts DEF CheckTrade, At, Stays
  <2>2. ~Done(t) /\ ~Skip(t)
    BY <1>7, EndKeeps
  <2>3. trades'[o] = 0
    BY <1>7, <2>1, <2>2 DEF CheckTrade
  <2>4. ~InsertOrder(t)
    BY <2>1 DEF InsertOrder, At
  <2>5. t \in Client => Opened(o)
    BY <2>1, BookedOf DEF Booked, ToFill
  <2>6. t \in Client => Opened(o)'
    BY <2>1, <2>4, <2>5, OpenedStays
  <2> QED
    BY <1>b, <1>d, <1>7, <2>3, <2>6, BookedThen DEF Placing, NoBatch
<1>8. CASE Stays(t) /\ PriceMet(t) /\ th'[t].pc = "trade"
  <2>1. o = th[t].o /\ o \in Order /\ th[t].pc = "price_met"
    BY <1>8, <1>b, Parts DEF PriceMet, At, Stays
  <2>4. ~InsertOrder(t)
    BY <2>1 DEF InsertOrder, At
  <2>5. t \in Client => Opened(o)
    BY <2>1, BookedOf DEF Booked, ToFill
  <2>6. t \in Client => Opened(o)'
    BY <2>1, <2>4, <2>5, OpenedStays
  <2> QED
    BY <1>b, <1>d, <1>8, <2>6, BookedThen DEF Placing, NoBatch
<1>9. CASE Stays(t) /\ th'[t].pc \in {"read", "release", "write", "validate", "reconcile"}
  BY <1>c, <1>d, <1>9 DEF Placing, ToFill, NoBatch
<1>10. CASE Work(t) \/ FillFails(t)
  BY <1>3, <1>4, <1>5, <1>6, <1>7, <1>8, <1>9, <1>10, WorkGoes
<1> QED
  BY <1>1, <1>2, <1>10 DEF Acts, Takes

\* A thread that does not act.
LEMMA OtherBooked ==
    ASSUME OnePoller, Inv, Booked, NEW t \in Thread, NEW u \in Thread \ {t}, Acts(t)
    PROVE  PlacesAlone(u)' /\ FillsOpened(u)' /\ Untraded(u)' /\ NoBatch(u)'
<1>0. th'[u] = th[u] /\ \A v \in Thread \ {t}, p \in Order : InHand(v, p)' = InHand(v, p)
  BY OthersWait DEF InHand
<1>1. PICK o : o = th[u].o
  OBVIOUS
<1>2. ASSUME th[u].pc \in Placing
      PROVE  /\ u \in Client /\ order'[o].status = "none"
             /\ \A v \in Thread \ {u} : ~InHand(v, o)'
  <2>1. o \in Order
    BY <1>1, <1>2, Parts DEF Placing
  <2>2. u \in Client /\ order[o].status = "none" /\ \A v \in Thread \ {u} : ~InHand(v, o)
    BY <1>1, <1>2, BookedOf DEF Booked
  <2>3. InHand(u, o)
    BY <1>1 DEF InHand
  <2>4. ~InHand(t, o)'
    BY <2>1, <2>2, <2>3, HandsOff
  <2>5. o # th[t].o
    BY <2>2 DEF InHand
  <2>6. order'[o] = order[o]
    BY <2>1, <2>5, RequestTakes, CycleTakes, WorkWrites DEF Acts, Takes, book
  <2> QED
    BY <1>0, <2>1, <2>2, <2>4, <2>6
<1>3. ASSUME u \in Client, th[u].pc \in ToFill PROVE Opened(o)'
  <2>1. o \in Order
    BY <1>1, <1>3, Parts DEF ToFill
  <2>2. Opened(o)
    BY <1>1, <1>3, BookedOf DEF Booked
  <2>3. ~(InsertOrder(t) /\ th[t].o = o)
    BY <1>1 DEF InsertOrder, At, Booked, PlacesAlone, Placing, InHand
  <2> QED
    BY <2>1, <2>2, <2>3, OpenedStays
<1>4. ASSUME th[u].pc = "price_met", th[u].row.status = Resting PROVE trades'[o] = 0
  <2>1. o \in Order
    BY <1>1, <1>4, Parts
  <2>2. trades[o] = 0
    BY <1>1, <1>4, BookedOf DEF Booked
  <2>3. ~Opened(o)
    BY <1>1, <1>4 DEF Opened, Clear
  <2>4. u \in Poller /\ t \in Client
    <3>1. u \notin Client
      BY <1>1, <1>4, <2>3, BookedOf DEF Booked, ToFill
    <3> QED
      BY <3>1 DEF OnePoller, Thread
  <2>5. ~(th[t].pc = "trade" /\ th[t].o = o)
    BY <2>3, <2>4, BookedOf DEF Booked, ToFill
  <2>6. trades'[o] = trades[o]
    BY <2>1, <2>5, RequestTakes, CycleTakes, WorkWrites DEF Acts, Takes, book, Kinds
  <2> QED
    BY <2>2, <2>6
<1>5. NoBatch(u)'
  BY <1>0 DEF Booked, NoBatch
<1> QED
  BY <1>0, <1>1, <1>2, <1>3, <1>4, <1>5, BookedThen

LEMMA BookedNext ==
    ASSUME OnePoller, Inv, Booked, [Next]_vars
    PROVE  Booked'
<1>1. CASE UNCHANGED vars
  BY <1>1 DEF vars, book, Booked, PlacesAlone, FillsOpened, Untraded, NoBatch, Opened, Clear, InHand
<1>2. CASE Crash
  <2>1. UNCHANGED book /\ \A t \in Thread : th'[t] = Idle
    BY <1>2 DEF Crash
  <2>2. DOMAIN <<>> = {} /\ Idle.pc = "idle" /\ Idle.batch = <<>>
    BY SMT DEF Idle
  <2> QED
    BY <2>1, <2>2 DEF book, Booked, PlacesAlone, FillsOpened, Untraded, NoBatch, Placing, ToFill
<1>3. ASSUME NEW t \in Thread, Acts(t) PROVE Booked'
  <2>1. \A u \in Thread : PlacesAlone(u)' /\ FillsOpened(u)' /\ Untraded(u)' /\ NoBatch(u)'
    BY <1>3, ActorBooked, OtherBooked
  <2> QED
    BY <1>3, <2>1, TablesBooked DEF Booked
<1> QED
  BY <1>1, <1>2, <1>3 DEF Next, Acts, Takes

LEMMA BookedInit == Init => Booked
<1> SUFFICES ASSUME Init PROVE Booked
  OBVIOUS
<1>1. DOMAIN <<>> = {} /\ Idle.batch = <<>> /\ Idle.pc = "idle" /\ NoRow.status = "none"
  BY SMT DEF Idle, NoRow
<1>2. \A t \in Thread : th[t] = Idle
  BY DEF Init
<1>3. \A o \in Order : order[o].status = "none" /\ trades[o] = 0
  BY <1>1 DEF Init
<1> QED
  BY <1>1, <1>2, <1>3 DEF Booked, PlacesAlone, FillsOpened, Untraded, NoBatch, Placing, ToFill

\* With one polling engine, an order counts as complete only with a trade and
\* one that has traded never goes back to the book, whatever the requests do.
THEOREM BookIsTrue == ASSUME OnePoller PROVE Spec => []BookMatchesTrades
<1>1. Inv /\ Booked /\ [Next]_vars => Inv' /\ Booked'
  BY NextInv, BookedNext
<1>2. TypeOK /\ Booked => BookMatchesTrades
  BY DEF Booked, BookMatchesTrades
<1>3. Spec => []TypeOK
  BY TypeCorrect
<1> QED
  BY <1>1, <1>2, <1>3, InitInv, BookedInit, PTL DEF Spec
=============================================================================
