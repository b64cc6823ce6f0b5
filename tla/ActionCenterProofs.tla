------------------------- MODULE ActionCenterProofs -------------------------
(***************************************************************************)
(* That under the production worker an approved order is sent once, a      *)
(* decision is taken once and the rows tell the truth, for any number of   *)
(* orders and requests, ids given again, lost answers and crashes.  The    *)
(* last section is about the event bus, on which the requests publish.     *)
(***************************************************************************)
EXTENDS ActionCenter, EventBus, FiniteSetTheorems, TLAPS

\* Only a network call gives up the processor.
OneWorker == "threads" \notin Faults

Status == {"none", "pending", "approved", "rejected"}
Reply == {"none", "placed", "rejected"}
Row == [status : Status, item : Item \cup {0}, broker : Reply]
Handler ==
    [pc : {"idle", "all", "asked", "deciding", "deleting", "approved", "calling", "answered"},
     op : Op \cup {"idle"}, id : Id \cup {0}, item : Item \cup {0},
     load : Item \cup {0}, answer : Reply, expired : BOOLEAN, todo : SUBSET (Id \X Item)]

Types ==
    /\ row \in [Id -> Row]
    /\ queued \in 0 .. MaxQueued
    /\ sent \in [Item -> Nat]
    /\ reissued \subseteq Id
    /\ cl \in [Client -> Handler]

\* What a row says of the order it holds.
RowInv(i) ==
    /\ IF Exists(i) THEN row[i].item \in Item /\ row[i].item <= queued ELSE row[i] = NoRow
    /\ row[i].status \in {"pending", "rejected"} => sent[row[i].item] = 0
    /\ row[i].broker = "placed" => sent[row[i].item] > 0 \/ i \in reissued

ItemInv(k) == sent[k] <= 1 /\ (k > queued => sent[k] = 0)

\* An order is in one row: its row's id may become another order's, an order
\* gets no second row.
OneRow(i, j) == Exists(i) /\ Exists(j) => row[i].item # row[j].item

\* What a request in progress knows: of its row until it has read it for the
\* last time, then of the order it took from it.
Sending == {"approved", "calling", "answered"}
HandlerInv(c) ==
    LET h == cl[c] IN
    /\ h.pc \notin {"idle", "all"} => h.op \in Op /\ h.id \in Id
    /\ h.pc = "deciding" => row[h.id].status = "pending" /\ h.op \in {"approve", "reject"}
    /\ h.pc = "deleting" => row[h.id].status \in {"approved", "rejected"}
    /\ h.pc = "approved" => row[h.id].status = "approved" /\ sent[row[h.id].item] = 0
    /\ h.pc \in {"calling", "answered"} =>
          /\ h.load \in Item /\ h.load <= queued
          /\ \A i \in Id : Exists(i) /\ row[i].item = h.load => row[i].status = "approved"
          /\ Exists(h.id) => row[h.id].item = h.load \/ h.id \in reissued
    /\ h.pc = "calling" => sent[h.load] = 0
    /\ h.pc = "answered" /\ h.answer = "placed" => sent[h.load] > 0

\* A decision is taken by one request at a time, and an order is in the hands of
\* one.
Cargo(c) == IF cl[c].pc = "approved" THEN row[cl[c].id].item ELSE cl[c].load
Apart(c, d) ==
    /\ ~(cl[c].pc \in Holding /\ cl[d].pc \in Holding)
    /\ cl[c].pc \in Sending /\ cl[d].pc \in Sending => Cargo(c) # Cargo(d)

Inv ==
    /\ Types
    /\ \A i \in Id : RowInv(i)
    /\ \A k \in Item : ItemInv(k)
    /\ \A i, j \in Id : i # j => OneRow(i, j)
    /\ \A c \in Client : HandlerInv(c)
    /\ \A c, d \in Client : c # d => Apart(c, d)

-----------------------------------------------------------------------------
LEMMA Numbers == \A k \in Item : k \in Nat /\ k # 0
BY ActionCenterAssumption, SMT DEF Item

LEMMA InitInv == Init => Inv
<1> SUFFICES ASSUME Init PROVE Inv
    OBVIOUS
<1>1. NoRow \in Row /\ NoRow.status = "none" /\ NoRow.broker = "none"
    BY DEF NoRow, Row, Status, Reply
<1>2. Idle \in Handler
    BY DEF Idle, Handler, Reply
<1>3. queued \in 0 .. MaxQueued
    BY ActionCenterAssumption, SMT DEF Init
<1>4. Types
    BY <1>1, <1>2, <1>3 DEF Init, Types
<1>5. \A i, j \in Id : RowInv(i) /\ OneRow(i, j)
    BY <1>1 DEF Init, RowInv, OneRow, Exists
<1>6. \A k \in Item : ItemInv(k)
    BY SMT DEF Init, ItemInv
<1>7. \A c \in Client : HandlerInv(c) /\ \A d \in Client : Apart(c, d)
    BY DEF Init, HandlerInv, Apart, Idle, Holding, Sending
<1> QED
    BY <1>4, <1>5, <1>6, <1>7 DEF Inv

-----------------------------------------------------------------------------
\* A request that is through with its row: nothing of it but the list is left.
LEMMA FinishEffect ==
    ASSUME Inv, NEW c \in Client, NEW b \in BOOLEAN, Finish(c, b)
    PROVE  \E h \in Handler : cl' = [cl EXCEPT ![c] = h] /\ h.pc \in {"idle", "all"}
<1> DEFINE e == cl[c].expired \/ b
           h == IF cl[c].todo = {} THEN Idle ELSE Listing(e, cl[c].todo)
<1>1. cl' = [cl EXCEPT ![c] = h]
    BY DEF Finish
<1>2. cl[c] \in Handler
    BY DEF Inv, Types
<1>3. e \in BOOLEAN
    OBVIOUS
<1>4. Idle \in Handler /\ Idle.pc = "idle"
    BY DEF Idle, Handler, Reply
<1> HIDE DEF e
<1>5. Listing(e, cl[c].todo) \in Handler /\ Listing(e, cl[c].todo).pc = "all"
    BY <1>2, <1>3 DEF Listing, Handler, Op, Reply
<1>6. h \in Handler /\ h.pc \in {"idle", "all"}
    BY <1>4, <1>5
<1> HIDE DEF h
<1> QED
    BY <1>1, <1>6

\* A step of one request alone: what it must keep of the rows and the orders,
\* and what it must hold to itself.
LEMMA RequestStep ==
    ASSUME Inv, NEW c \in Client, NEW h \in Handler, cl' = [cl EXCEPT ![c] = h],
           UNCHANGED <<queued, reissued>>, row' \in [Id -> Row], sent' \in [Item -> Nat],
           \A i \in Id : RowInv(i)',
           \A k \in Item : ItemInv(k)',
           \A i, j \in Id : i # j => OneRow(i, j)',
           \A d \in Client \ {c} : HandlerInv(d)' /\ Apart(c, d)' /\ Apart(d, c)',
           \A d \in Client \ {c} : cl[d].pc \in Sending => Cargo(d)' = Cargo(d),
           HandlerInv(c)'
    PROVE  Inv'
<1>1. Types'
    BY DEF Inv, Types
<1>2. ASSUME NEW d \in Client, NEW e \in Client, d # e PROVE Apart(d, e)'
  <2>1. CASE d = c \/ e = c
      BY <1>2, <2>1
  <2>2. CASE d # c /\ e # c
    <3>1. cl'[d] = cl[d] /\ cl'[e] = cl[e] /\ Apart(d, e)
        BY <1>2, <2>2 DEF Inv, Types
    <3>2. cl[d].pc \in Sending => Cargo(d)' = Cargo(d)
        BY <2>2
    <3>3. cl[e].pc \in Sending => Cargo(e)' = Cargo(e)
        BY <2>2
    <3> QED
        BY <3>1, <3>2, <3>3 DEF Apart
  <2> QED
      BY <2>1, <2>2
<1>3. \A d \in Client : HandlerInv(d)'
    OBVIOUS
<1> QED
    BY <1>1, <1>2, <1>3 DEF Inv

\* A request may go back to its list, be idle, or take up a row at any time.
LEMMA RequestKeeps ==
    ASSUME Inv, NEW c \in Client, NEW h \in Handler, cl' = [cl EXCEPT ![c] = h],
           UNCHANGED <<row, queued, sent, reissued>>,
           \/ h.pc \in {"idle", "all"}
           \/ h.pc = "asked" /\ h.op \in Op /\ h.id \in Id
    PROVE  Inv'
<1>1. cl'[c] = h /\ \A d \in Client \ {c} : cl'[d] = cl[d]
    BY DEF Inv, Types
<1>2. \A i, j \in Id : RowInv(i)' /\ (i # j => OneRow(i, j)')
    BY DEF Inv, RowInv, OneRow, Exists
<1>3. \A k \in Item : ItemInv(k)'
    BY DEF Inv, ItemInv
<1>4. ASSUME NEW d \in Client \ {c}
      PROVE  /\ HandlerInv(d)' /\ Apart(c, d)' /\ Apart(d, c)'
             /\ Cargo(d)' = Cargo(d)
    BY <1>1 DEF Inv, HandlerInv, Apart, Cargo, Exists, Holding, Sending
<1>5. HandlerInv(c)'
    BY <1>1 DEF HandlerInv
<1>6. row' \in [Id -> Row] /\ sent' \in [Item -> Nat]
    BY DEF Inv, Types
<1> QED
    BY <1>2, <1>3, <1>4, <1>5, <1>6, RequestStep

LEMMA FinishKeeps ==
    ASSUME Inv, NEW c \in Client, NEW b \in BOOLEAN, Finish(c, b),
           UNCHANGED <<row, queued, sent, reissued>>
    PROVE  Inv'
BY FinishEffect, RequestKeeps

\* A request is between a read and its commit only while no other is.
LEMMA RunsAlone ==
    ASSUME OneWorker, NEW c \in Client, Runs(c), NEW d \in Client, d # c
    PROVE  cl[d].pc \notin Holding
BY DEF OneWorker, Runs

-----------------------------------------------------------------------------
\* A new order goes into a free row; a request that waits for the broker's answer
\* may have its id, and then the id is in reissued.
LEMMA QueueInv ==
    ASSUME Inv, OneWorker, Queue
    PROVE  Inv'
<1> DEFINE k == queued + 1
           r == [status |-> "pending", item |-> k, broker |-> "none"]
<1>1. PICK n \in Id :
        /\ NewId(n)
        /\ row' = [row EXCEPT ![n] = r]
        /\ reissued' = IF Unanswered(n) THEN reissued \cup {n} ELSE reissued \ {n}
    BY DEF Queue
<1>2. k \in Item /\ k \in 0 .. MaxQueued /\ k > queued
    BY ActionCenterAssumption, SMT DEF Queue, Inv, Types, Item
<1>3. queued' = k /\ UNCHANGED <<sent, cl>>
    BY DEF Queue
<1>4. ~Exists(n)
  <2>1. Exists(n) => n < n
      BY <1>1 DEF NewId
  <2>2. n \in Nat
      BY ActionCenterAssumption, SMT DEF Id
  <2> QED
      BY <2>1, <2>2, SMT
<1>5. \A l \in Item : l <= queued => l <= k /\ l # k
    BY Numbers, SMT DEF Inv, Types
<1>6. r \in Row /\ r.status = "pending" /\ r.item = k /\ r.broker = "none"
    BY <1>2 DEF Row, Status, Reply
<1>7. ItemInv(k) /\ sent[k] = 0
    BY <1>2 DEF Inv, ItemInv
<1> HIDE DEF k, r
<1>8. row'[n] = r /\ \A i \in Id \ {n} : row'[i] = row[i] /\ (i \in reissued' <=> i \in reissued)
    BY <1>1 DEF Inv, Types
<1>9. Types'
    BY <1>1, <1>2, <1>3, <1>6 DEF Inv, Types
<1>10. ASSUME NEW i \in Id PROVE RowInv(i)'
  <2>1. CASE i = n
    <3>1. k <= k
        BY <1>2, SMT
    <3> QED
        BY <1>2, <1>3, <1>6, <1>7, <1>8, <2>1, <3>1 DEF RowInv, Exists
  <2>2. CASE i # n
      BY <1>3, <1>5, <1>8, <2>2 DEF Inv, RowInv, Exists
  <2> QED
      BY <2>1, <2>2
<1>11. ASSUME NEW l \in Item PROVE ItemInv(l)'
  <2>1. l > k => l > queued
      BY <1>2, Numbers, SMT DEF Inv, Types
  <2> QED
      BY <1>3, <2>1 DEF Inv, ItemInv
<1>12. ASSUME NEW i \in Id, NEW j \in Id, i # j PROVE OneRow(i, j)'
  <2>1. \A m \in Id \ {n} : Exists(m) => row[m].item # k
      BY <1>5 DEF Inv, RowInv
  <2> QED
      BY <1>6, <1>8, <1>12, <2>1 DEF Inv, OneRow, Exists
<1>13. ASSUME NEW c \in Client PROVE HandlerInv(c)' /\ (cl[c].pc \in Sending => Cargo(c)' = Cargo(c))
  <2>1. CASE cl[c].pc \in {"calling", "answered"}
    <3>1. /\ cl[c].op \in Op /\ cl[c].id \in Id
          /\ cl[c].load \in Item /\ cl[c].load <= queued
          /\ \A i \in Id : Exists(i) /\ row[i].item = cl[c].load => row[i].status = "approved"
          /\ Exists(cl[c].id) => row[cl[c].id].item = cl[c].load \/ cl[c].id \in reissued
        BY <2>1 DEF Inv, HandlerInv
    <3>2. cl[c].load <= k /\ cl[c].load # k
        BY <1>5, <3>1
    <3>3. \A i \in Id : Exists(i)' /\ row'[i].item = cl[c].load => row'[i].status = "approved"
        BY <1>6, <1>8, <3>1, <3>2 DEF Exists
    <3>4. Exists(cl[c].id)' => row'[cl[c].id].item = cl[c].load \/ cl[c].id \in reissued'
      <4>1. CASE cl[c].id = n
        <5>1. Unanswered(n)
            BY <2>1, <4>1 DEF Unanswered
        <5> QED
            BY <1>1, <4>1, <5>1
      <4>2. CASE cl[c].id # n
          BY <1>3, <1>8, <3>1, <4>2 DEF Exists
      <4> QED
          BY <4>1, <4>2
    <3>5. Cargo(c)' = Cargo(c)
        BY <1>3, <2>1 DEF Cargo
    <3> QED
        BY <1>3, <2>1, <3>1, <3>2, <3>3, <3>4, <3>5 DEF Inv, HandlerInv
  <2>2. CASE cl[c].pc \in Holding
    <3>1. Exists(cl[c].id) /\ cl[c].id \in Id
        BY <2>2 DEF Inv, HandlerInv, Holding, Exists
    <3>2. row'[cl[c].id] = row[cl[c].id]
        BY <1>4, <1>8, <3>1
    <3> QED
        BY <1>3, <2>2, <3>2 DEF Inv, HandlerInv, Holding, Cargo, Sending
  <2>3. CASE cl[c].pc \notin Holding \cup {"calling", "answered"}
      BY <1>3, <2>3 DEF Inv, HandlerInv, Holding, Sending
  <2> QED
      BY <2>1, <2>2, <2>3
<1>14. ASSUME NEW c \in Client, NEW d \in Client, c # d PROVE Apart(c, d)'
    BY <1>3, <1>13, <1>14 DEF Inv, Apart
<1> QED
    BY <1>9, <1>10, <1>11, <1>12, <1>13, <1>14 DEF Inv

LEMMA AskInv ==
    ASSUME Inv, NEW c \in Client,
           (\E op \in Op, i \in Id : Ask(c, op, i)) \/ AskAll(c) \/ NextListed(c)
    PROVE  Inv'
<1>1. CASE \E op \in Op, i \in Id : Ask(c, op, i)
  <2>1. PICK op \in Op, i \in Id : Ask(c, op, i)
      BY <1>1
  <2> DEFINE h == Asking(op, i, row[i].item, FALSE, {})
  <2>2. row[i].item \in Item
      BY <2>1 DEF Ask, Inv, RowInv
  <2>3. h \in Handler /\ h.pc = "asked" /\ h.op = op /\ h.id = i
      BY <2>2 DEF Asking, Handler, Reply
  <2>4. cl' = [cl EXCEPT ![c] = h] /\ UNCHANGED <<row, queued, sent, reissued>>
      BY <2>1 DEF Ask
  <2> HIDE DEF h
  <2> QED
      BY <2>3, <2>4, RequestKeeps
<1>2. CASE AskAll(c)
  <2> DEFINE listed == {i \in Id : row[i].status = "pending"}
             todo == {<<i, row[i].item>> : i \in listed}
             h == Listing(FALSE, todo)
  <2>1. \A i \in listed : row[i].item \in Item
      BY DEF Inv, RowInv, Exists
  <2>2. todo \in SUBSET (Id \X Item)
      BY <2>1
  <2>3. cl' = [cl EXCEPT ![c] = h] /\ UNCHANGED <<row, queued, sent, reissued>>
      BY <1>2 DEF AskAll
  <2> HIDE DEF todo
  <2>4. h \in Handler /\ h.pc = "all"
      BY <2>2 DEF Listing, Handler, Op, Reply
  <2> HIDE DEF h
  <2> QED
      BY <2>3, <2>4, RequestKeeps
<1>3. CASE NextListed(c)
  <2>1. PICK p \in cl[c].todo :
          cl' = [cl EXCEPT ![c] = IF cl[c].expired /\ ~Exists(p[1]) THEN Idle
                   ELSE Asking("approve", p[1], p[2], cl[c].expired, cl[c].todo \ {p})]
      BY <1>3 DEF NextListed
  <2>2. UNCHANGED <<row, queued, sent, reissued>>
      BY <1>3 DEF NextListed
  <2>3. Idle \in Handler /\ Idle.pc = "idle"
      BY DEF Idle, Handler, Reply
  <2> DEFINE h == Asking("approve", p[1], p[2], cl[c].expired, cl[c].todo \ {p})
  <2>4. cl[c] \in Handler /\ p \in Id \X Item
      BY DEF Inv, Types, Handler
  <2>5. h \in Handler /\ h.pc = "asked" /\ h.op \in Op /\ h.id \in Id
      BY <2>4 DEF Asking, Handler, Op, Reply
  <2> HIDE DEF h
  <2>6. cl' = [cl EXCEPT ![c] = Idle] \/ cl' = [cl EXCEPT ![c] = h]
      BY <2>1 DEF h
  <2> QED
      BY <2>2, <2>3, <2>5, <2>6, RequestKeeps
<1> QED
    BY <1>1, <1>2, <1>3

-----------------------------------------------------------------------------
LEMMA FindInv ==
    ASSUME Inv, OneWorker, NEW c \in Client, Find(c)
    PROVE  Inv'
<1>1. UNCHANGED <<row, queued, sent, reissued>> /\ Runs(c) /\ cl[c].pc = "asked"
    BY DEF Find
<1>2. CASE Finish(c, FALSE)
    BY <1>1, <1>2, FinishKeeps
<1>3. CASE ~Finish(c, FALSE)
  <2>1. cl[c].id \in Id /\ cl[c].op \in Op /\ cl[c] \in Handler
      BY <1>1 DEF Inv, Types, HandlerInv
  <2>2. PICK pc \in {"deciding", "deleting"} :
          /\ Goto(c, pc)
          /\ pc = "deciding" => cl[c].op # "delete" /\ row[cl[c].id].status = "pending"
          /\ pc = "deleting" => row[cl[c].id].status \in {"approved", "rejected"}
    <3>1. row[cl[c].id].status \in Status
        BY <2>1 DEF Inv, Types, Row
    <3> QED
        BY <1>3, <3>1 DEF Find, Status
  <2> DEFINE h == [cl[c] EXCEPT !.pc = pc]
  <2>3. cl' = [cl EXCEPT ![c] = h]
      BY <2>2 DEF Goto
  <2>4. h \in Handler /\ h.pc = pc /\ h.op = cl[c].op /\ h.id = cl[c].id
      BY <2>1, <2>2 DEF Handler
  <2>5. pc = "deciding" => h.op \in {"approve", "reject"}
      BY <2>1, <2>2, <2>4 DEF Op
  <2> HIDE DEF h
  <2>6. cl'[c] = h /\ \A d \in Client \ {c} : cl'[d] = cl[d] /\ cl[d].pc \notin Holding
      BY <1>1, <2>3, RunsAlone DEF Inv, Types
  <2>7. \A i, j \in Id : RowInv(i)' /\ (i # j => OneRow(i, j)')
      BY <1>1 DEF Inv, RowInv, OneRow, Exists
  <2>8. \A k \in Item : ItemInv(k)'
      BY <1>1 DEF Inv, ItemInv
  <2>9. ASSUME NEW d \in Client \ {c}
        PROVE  /\ HandlerInv(d)' /\ Apart(c, d)' /\ Apart(d, c)'
               /\ Cargo(d)' = Cargo(d)
      BY <1>1, <2>2, <2>4, <2>6 DEF Inv, HandlerInv, Apart, Cargo, Exists, Holding, Sending
  <2>10. HandlerInv(c)'
      BY <1>1, <2>1, <2>2, <2>4, <2>5, <2>6 DEF HandlerInv
  <2>11. row' \in [Id -> Row] /\ sent' \in [Item -> Nat]
      BY <1>1 DEF Inv, Types
  <2> QED
      BY <1>1, <2>3, <2>4, <2>7, <2>8, <2>9, <2>10, <2>11, RequestStep
<1> QED
    BY <1>2, <1>3

\* The order of a pending row is in nobody's hands: it may be taken up or
\* rejected.
LEMMA DecideInv ==
    ASSUME Inv, OneWorker, NEW c \in Client, Decide(c)
    PROVE  Inv'
<1>1. PICK i \in Id :
      /\ Runs(c) /\ cl[c].pc = "deciding" /\ cl[c].id = i
      /\ row[i].status = "pending" /\ cl[c].op \in {"approve", "reject"}
      /\ UNCHANGED <<queued, sent, reissued>>
    BY DEF Decide, Inv, HandlerInv
<1>2. Exists(i) /\ sent[row[i].item] = 0 /\ row[i].item \in Item
    BY <1>1 DEF Inv, RowInv, Exists
<1>3. PICK st \in {"approved", "rejected"} :
        /\ row' = [row EXCEPT ![i].status = st]
        /\ st = "approved" => Goto(c, "approved")
        /\ st = "rejected" => Finish(c, TRUE)
  <2>1. \/ row' = [row EXCEPT ![i].status = "approved"] /\ Goto(c, "approved")
        \/ row' = [row EXCEPT ![i].status = "rejected"] /\ Finish(c, TRUE)
      BY <1>1, <1>2 DEF Decide
  <2> QED
      BY <2>1
<1>4. PICK h \in Handler :
        /\ cl' = [cl EXCEPT ![c] = h]
        /\ \/ h.pc \in {"idle", "all"}
           \/ h.pc = "approved" /\ st = "approved" /\ h.id = i /\ h.op = cl[c].op
  <2>1. CASE st = "approved"
    <3> DEFINE g == [cl[c] EXCEPT !.pc = "approved"]
    <3>1. cl' = [cl EXCEPT ![c] = g]
        BY <1>3, <2>1 DEF Goto
    <3>2. g \in Handler /\ g.pc = "approved" /\ g.id = i /\ g.op = cl[c].op
        BY <1>1 DEF Inv, Types, Handler
    <3> HIDE DEF g
    <3> QED
        BY <2>1, <3>1, <3>2
  <2>2. CASE st = "rejected"
      BY <1>3, <2>2, FinishEffect
  <2> QED
      BY <2>1, <2>2
<1>5. row' = [row EXCEPT ![i] = [row[i] EXCEPT !.status = st]]
    BY <1>1, <1>3 DEF Inv, Types
<1>6. [row[i] EXCEPT !.status = st] \in Row
    BY <1>1 DEF Inv, Types, Row, Status
<1>7. /\ row' \in [Id -> Row] /\ row'[i].status = st
      /\ row'[i].broker = row[i].broker
      /\ \A j \in Id : row'[j].item = row[j].item /\ (Exists(j)' <=> Exists(j))
      /\ \A j \in Id \ {i} : row'[j] = row[j]
    BY <1>1, <1>2, <1>5, <1>6 DEF Inv, Types, Row, Exists
<1>8. cl'[c] = h /\ \A d \in Client \ {c} : cl'[d] = cl[d] /\ cl[d].pc \notin Holding
    BY <1>1, <1>4, RunsAlone DEF Inv, Types
<1>9. ASSUME NEW j \in Id PROVE RowInv(j)'
    BY <1>1, <1>2, <1>7 DEF Inv, RowInv, Exists
<1>10. \A j, l \in Id : j # l => OneRow(j, l)'
    BY <1>7 DEF Inv, OneRow
<1>11. \A k \in Item : ItemInv(k)'
    BY <1>1 DEF Inv, ItemInv
<1>12. ASSUME NEW d \in Client \ {c}, cl[d].pc \in {"calling", "answered"}
       PROVE  cl[d].load # row[i].item
    BY <1>1, <1>2, <1>12 DEF Inv, HandlerInv
<1>13. ASSUME NEW d \in Client \ {c} PROVE HandlerInv(d)' /\ Cargo(d)' = Cargo(d)
  <2>1. cl'[d] = cl[d] /\ HandlerInv(d) /\ cl[d].pc \notin Holding
      BY <1>8 DEF Inv
  <2>2. cl[d].pc \in {"calling", "answered"} =>
          /\ \A j \in Id : Exists(j)' /\ row'[j].item = cl[d].load => row'[j].status = "approved"
          /\ Exists(cl[d].id)' => row'[cl[d].id].item = cl[d].load \/ cl[d].id \in reissued'
      BY <1>1, <1>7, <1>12, <2>1 DEF HandlerInv
  <2> QED
      BY <1>1, <2>1, <2>2 DEF HandlerInv, Cargo, Holding
<1>14. ASSUME NEW d \in Client \ {c} PROVE Apart(c, d)' /\ Apart(d, c)'
  <2>1. h.pc = "approved" => Cargo(c)' = row[i].item
      BY <1>4, <1>7, <1>8 DEF Cargo
  <2>2. cl[d].pc \in Sending => cl[d].pc \in {"calling", "answered"} /\ Cargo(d)' = cl[d].load
      BY <1>8 DEF Cargo, Sending, Holding
  <2> QED
      BY <1>4, <1>8, <1>12, <2>1, <2>2 DEF Apart, Holding, Sending
<1>15. HandlerInv(c)'
    BY <1>1, <1>2, <1>4, <1>7, <1>8 DEF HandlerInv, Op
<1>16. sent' \in [Item -> Nat]
    BY <1>1 DEF Inv, Types
<1> QED
    BY <1>1, <1>4, <1>7, <1>9, <1>10, <1>11, <1>13, <1>14, <1>15, <1>16, RequestStep

LEMMA DeleteInv ==
    ASSUME Inv, OneWorker, NEW c \in Client, Delete(c)
    PROVE  Inv'
<1>1. PICK i \in Id :
      /\ Runs(c) /\ cl[c].pc = "deleting" /\ cl[c].id = i
      /\ UNCHANGED <<queued, sent, reissued>> /\ Finish(c, TRUE)
      /\ row' = [row EXCEPT ![i] = NoRow]
    BY DEF Delete, Inv, HandlerInv
<1>2. PICK h \in Handler : cl' = [cl EXCEPT ![c] = h] /\ h.pc \in {"idle", "all"}
    BY <1>1, FinishEffect
<1>3. NoRow \in Row /\ NoRow.status = "none" /\ NoRow.broker = "none"
    BY DEF NoRow, Row, Status, Reply
<1>4. row' \in [Id -> Row] /\ row'[i] = NoRow /\ \A j \in Id \ {i} : row'[j] = row[j]
    BY <1>1, <1>3 DEF Inv, Types
<1>5. cl'[c] = h /\ \A d \in Client \ {c} : cl'[d] = cl[d] /\ cl[d].pc \notin Holding
    BY <1>1, <1>2, RunsAlone DEF Inv, Types
<1>6. ASSUME NEW j \in Id PROVE RowInv(j)'
    BY <1>1, <1>3, <1>4 DEF Inv, RowInv, Exists
<1>7. \A j, l \in Id : j # l => OneRow(j, l)'
    BY <1>3, <1>4 DEF Inv, OneRow, Exists
<1>8. \A k \in Item : ItemInv(k)'
    BY <1>1 DEF Inv, ItemInv
<1>9. ASSUME NEW d \in Client \ {c}
      PROVE  HandlerInv(d)' /\ (cl[d].pc \in Sending => Cargo(d)' = Cargo(d))
  <2>1. cl'[d] = cl[d] /\ HandlerInv(d) /\ cl[d].pc \notin Holding
      BY <1>5 DEF Inv
  <2>2. \A j \in Id : Exists(j)' => row'[j] = row[j] /\ Exists(j)
      BY <1>3, <1>4 DEF Exists
  <2> QED
      BY <1>1, <2>1, <2>2 DEF HandlerInv, Cargo, Holding, Sending
<1>10. HandlerInv(c)' /\ \A d \in Client \ {c} : Apart(c, d)' /\ Apart(d, c)'
    BY <1>2, <1>5 DEF HandlerInv, Apart, Holding, Sending
<1>11. sent' \in [Item -> Nat]
    BY <1>1 DEF Inv, Types
<1> QED
    BY <1>1, <1>2, <1>4, <1>6, <1>7, <1>8, <1>9, <1>10, <1>11, RequestStep

-----------------------------------------------------------------------------
(* The execution of an approved order. *)

\* The answer, or the lack of a session, is noted in a row whose status stays.
LEMMA NoteKeeps ==
    ASSUME Inv, NEW c \in Client, Finish(c, TRUE),
           NEW i \in Id, NEW a \in Reply, Exists(i),
           a = "placed" => sent[row[i].item] > 0 \/ i \in reissued,
           row' = [row EXCEPT ![i] = [row[i] EXCEPT !.broker = a]],
           UNCHANGED <<queued, sent, reissued>>
    PROVE  Inv'
<1>1. PICK h \in Handler : cl' = [cl EXCEPT ![c] = h] /\ h.pc \in {"idle", "all"}
    BY FinishEffect
<1>2. [row[i] EXCEPT !.broker = a] \in Row
    BY DEF Inv, Types, Row
<1>3. /\ row' \in [Id -> Row]
      /\ row'[i].broker = a
      /\ \A j \in Id \ {i} : row'[j] = row[j]
      /\ \A j \in Id : row'[j].status = row[j].status /\ row'[j].item = row[j].item
    BY <1>2 DEF Inv, Types, Row
<1>4. ASSUME NEW j \in Id PROVE RowInv(j)'
    BY <1>3 DEF Inv, RowInv, Exists
<1>5. \A j, l \in Id : j # l => OneRow(j, l)'
    BY <1>3 DEF Inv, OneRow, Exists
<1>6. \A k \in Item : ItemInv(k)'
    BY DEF Inv, ItemInv
<1>7. cl'[c] = h /\ \A d \in Client \ {c} : cl'[d] = cl[d]
    BY <1>1 DEF Inv, Types
<1>8. ASSUME NEW d \in Client \ {c}
      PROVE  HandlerInv(d)' /\ (cl[d].pc \in Sending => Cargo(d)' = Cargo(d))
  <2>1. HandlerInv(d)
      BY DEF Inv
  <2> QED
      BY <1>3, <1>7, <2>1 DEF HandlerInv, Exists, Cargo, Sending
<1>9. HandlerInv(c)' /\ \A d \in Client \ {c} : Apart(c, d)' /\ Apart(d, c)'
    BY <1>1, <1>7 DEF HandlerInv, Apart, Holding, Sending
<1>10. sent' \in [Item -> Nat]
    BY DEF Inv, Types
<1> QED
    BY <1>1, <1>3, <1>4, <1>5, <1>6, <1>8, <1>9, <1>10, RequestStep

\* A request that goes on with the order it took from its row.
LEMMA ExecutingIs ==
    ASSUME Inv, NEW c \in Client, cl[c].pc \in Sending, NEW pc \in {"calling", "answered"},
           NEW a \in Reply, NEW k \in Item
    PROVE  LET h == Executing(c, pc, k, a)
           IN /\ h \in Handler /\ h.pc = pc /\ h.op = cl[c].op /\ h.id = cl[c].id
              /\ h.load = k /\ h.answer = a
BY DEF Inv, Types, Executing, Handler, Op, Reply

LEMMA CheckInv ==
    ASSUME Inv, OneWorker, NEW c \in Client, Check(c)
    PROVE  Inv'
<1> DEFINE i == cl[c].id
           k == row[i].item
<1>1. /\ cl[c].pc = "approved" /\ i \in Id /\ cl[c].op \in Op
      /\ row[i].status = "approved" /\ sent[k] = 0
      /\ UNCHANGED <<queued, sent, reissued>>
    BY DEF Check, Inv, HandlerInv
<1>2. Exists(i) /\ k \in Item /\ k <= queued
    BY <1>1 DEF Inv, RowInv, Exists
<1>3. CASE row' = [row EXCEPT ![i].broker = "rejected"] /\ Finish(c, TRUE)
  <2>1. row' = [row EXCEPT ![i] = [row[i] EXCEPT !.broker = "rejected"]]
      BY <1>1, <1>3 DEF Inv, Types
  <2>2. "rejected" \in Reply
      BY DEF Reply
  <2> QED
      BY <1>1, <1>2, <1>3, <2>1, <2>2, NoteKeeps
<1>4. CASE UNCHANGED row /\ cl' = [cl EXCEPT ![c] = Executing(c, "calling", k, "none")]
  <2> DEFINE h == Executing(c, "calling", k, "none")
  <2>1. /\ h \in Handler
        /\ cl' = [cl EXCEPT ![c] = h]
        /\ h.pc = "calling" /\ h.op = cl[c].op /\ h.id = i /\ h.load = k
        /\ h.answer = "none"
      BY <1>1, <1>2, <1>4, ExecutingIs DEF Sending, Reply
  <2> HIDE DEF h
  <2>2. cl'[c] = h /\ \A d \in Client \ {c} : cl'[d] = cl[d]
      BY <2>1 DEF Inv, Types
  <2>3. \A j, l \in Id : RowInv(j)' /\ (j # l => OneRow(j, l)')
      BY <1>1, <1>4 DEF Inv, RowInv, OneRow, Exists
  <2>4. \A l \in Item : ItemInv(l)'
      BY <1>1 DEF Inv, ItemInv
  <2>5. ASSUME NEW d \in Client \ {c} PROVE HandlerInv(d)' /\ Cargo(d)' = Cargo(d)
      BY <1>1, <1>4, <2>2 DEF Inv, HandlerInv, Exists, Cargo
  <2>6. HandlerInv(c)'
    <3>1. \A j \in Id : Exists(j) /\ row[j].item = k => j = i
        BY <1>1, <1>2 DEF Inv, OneRow
    <3> QED
        BY <1>1, <1>2, <1>4, <2>1, <2>2, <3>1 DEF HandlerInv, Exists
  <2>7. ASSUME NEW d \in Client \ {c} PROVE Apart(c, d)' /\ Apart(d, c)'
    <3>1. Cargo(c) = k /\ Cargo(c)' = k
        BY <1>1, <2>1, <2>2 DEF Cargo
    <3>2. Apart(c, d) /\ Apart(d, c)
        BY DEF Inv
    <3> HIDE DEF k, i
    <3> QED
        BY <1>1, <2>1, <2>2, <2>5, <3>1, <3>2 DEF Apart, Holding, Sending
  <2>8. row' \in [Id -> Row] /\ sent' \in [Item -> Nat]
      BY <1>1, <1>4 DEF Inv, Types
  <2> QED
      BY <1>1, <2>1, <2>3, <2>4, <2>5, <2>6, <2>7, <2>8, RequestStep
<1> QED
    BY <1>1, <1>3, <1>4 DEF Check

LEMMA CallInv ==
    ASSUME Inv, NEW c \in Client, Call(c)
    PROVE  Inv'
<1> DEFINE k == cl[c].load
           i == cl[c].id
<1>1. /\ cl[c].pc = "calling" /\ i \in Id /\ cl[c].op \in Op
      /\ k \in Item /\ k <= queued /\ sent[k] = 0
      /\ \A j \in Id : Exists(j) /\ row[j].item = k => row[j].status = "approved"
      /\ Exists(i) => row[i].item = k \/ i \in reissued
      /\ UNCHANGED <<row, queued, reissued>>
    BY DEF Call, Inv, HandlerInv
<1>2. \/ UNCHANGED sent /\ Finish(c, TRUE)
      \/ \E a \in {"placed", "rejected"} :
            /\ cl' = [cl EXCEPT ![c] = Executing(c, "answered", k, a)]
            /\ \/ sent' = [sent EXCEPT ![k] = @ + 1]
               \/ UNCHANGED sent /\ a = "rejected"
    BY <1>1 DEF Call
<1>3. CASE UNCHANGED sent /\ Finish(c, TRUE)
    BY <1>1, <1>3, FinishKeeps
<1>4. ASSUME NEW a \in {"placed", "rejected"},
             cl' = [cl EXCEPT ![c] = Executing(c, "answered", k, a)],
             \/ sent' = [sent EXCEPT ![k] = @ + 1]
             \/ UNCHANGED sent /\ a = "rejected"
      PROVE  Inv'
  <2> DEFINE h == Executing(c, "answered", k, a)
  <2>1. /\ h \in Handler
        /\ cl' = [cl EXCEPT ![c] = h]
        /\ h.pc = "answered" /\ h.op = cl[c].op /\ h.id = i /\ h.load = k
        /\ h.answer = a
      BY <1>1, <1>4, ExecutingIs DEF Sending, Reply
  <2> HIDE DEF h
  <2>2. /\ sent' \in [Item -> Nat] /\ sent'[k] \in {0, 1}
        /\ a = "placed" => sent'[k] > 0
        /\ \A l \in Item \ {k} : sent'[l] = sent[l]
      BY <1>1, <1>4, SMT DEF Inv, Types
  <2>3. cl'[c] = h /\ \A d \in Client \ {c} : cl'[d] = cl[d]
      BY <2>1 DEF Inv, Types
  <2>4. \A l \in Item : sent[l] > 0 => sent'[l] > 0
      BY <1>1, <2>2, SMT
  <2>5. ASSUME NEW j \in Id PROVE RowInv(j)'
    <3>1. Exists(j) => row[j].item \in Item
        BY DEF Inv, RowInv
    <3>2. ~Exists(j) => row[j].status = "none" /\ row[j].broker = "none"
        BY DEF Inv, RowInv, NoRow
    <3>3. row[j].status \in {"pending", "rejected"} => Exists(j) /\ row[j].item # k
        BY <1>1 DEF Exists
    <3> QED
        BY <1>1, <2>2, <2>4, <3>1, <3>2, <3>3 DEF Inv, RowInv, Exists
  <2>6. ASSUME NEW l \in Item PROVE ItemInv(l)'
    <3>1. CASE l = k
      <4>1. sent'[k] <= 1 /\ ~(k > queued)
          BY <1>1, <2>2, Numbers, SMT DEF Inv, Types
      <4> QED
          BY <1>1, <3>1, <4>1 DEF ItemInv
    <3>2. CASE l # k
        BY <1>1, <2>2, <3>2 DEF Inv, ItemInv
    <3> QED
        BY <3>1, <3>2
  <2>7. \A j, l \in Id : j # l => OneRow(j, l)'
      BY <1>1 DEF Inv, OneRow, Exists
  <2>8. ASSUME NEW d \in Client \ {c}
        PROVE  /\ HandlerInv(d)' /\ Apart(c, d)' /\ Apart(d, c)'
               /\ Cargo(d)' = Cargo(d)
    <3>1. HandlerInv(d) /\ Apart(c, d) /\ Apart(d, c)
        BY DEF Inv
    <3>2. Cargo(c) = k /\ Cargo(c)' = k /\ Cargo(d)' = Cargo(d)
        BY <1>1, <2>1, <2>3 DEF Cargo
    <3>3. Apart(c, d)' /\ Apart(d, c)'
      <4> HIDE DEF k, i
      <4> QED
          BY <1>1, <2>1, <2>3, <3>1, <3>2 DEF Apart, Holding, Sending
    <3>4. cl[d].pc \in {"approved", "calling"} =>
             Cargo(d) # k /\ Cargo(d) \in Item /\ sent[Cargo(d)] = 0
      <4>1. cl[d].pc \in {"approved", "calling"} => Cargo(d) # k
        <5> HIDE DEF k, i
        <5> QED
            BY <1>1, <3>1, <3>2 DEF Apart, Sending
      <4>2. cl[d].pc = "approved" => row[cl[d].id].item \in Item
          BY <3>1 DEF HandlerInv, Inv, RowInv, Exists
      <4> QED
          BY <3>1, <4>1, <4>2 DEF HandlerInv, Cargo
    <3>5. cl[d].pc \in {"approved", "calling"} => sent'[Cargo(d)] = 0
        BY <2>2, <3>4
    <3>6. cl[d].pc = "answered" /\ cl[d].answer = "placed" => sent'[cl[d].load] > 0
        BY <2>4, <3>1 DEF HandlerInv
    <3>7. cl[d].pc = "approved" => sent'[row[cl[d].id].item] = 0
        BY <3>5 DEF Cargo
    <3>8. cl[d].pc = "calling" => sent'[cl[d].load] = 0
        BY <3>5 DEF Cargo
    <3> HIDE DEF k, i
    <3>9. HandlerInv(d)'
        BY <1>1, <2>3, <3>1, <3>6, <3>7, <3>8 DEF HandlerInv, Exists
    <3> QED
        BY <3>2, <3>3, <3>9
  <2>9. HandlerInv(c)'
      BY <1>1, <2>1, <2>2, <2>3 DEF HandlerInv, Exists
  <2>10. row' \in [Id -> Row]
      BY <1>1 DEF Inv, Types
  <2> QED
      BY <1>1, <2>1, <2>2, <2>5, <2>6, <2>7, <2>8, <2>9, <2>10, RequestStep
<1> QED
    BY <1>2, <1>3, <1>4

LEMMA RecordInv ==
    ASSUME Inv, NEW c \in Client, Record(c)
    PROVE  Inv'
<1>1. PICK i \in Id :
      /\ cl[c].pc = "answered" /\ cl[c].id = i
      /\ Exists(i) => row[i].item = cl[c].load \/ i \in reissued
      /\ cl[c].answer = "placed" => sent[cl[c].load] > 0
      /\ cl[c].answer \in Reply
      /\ UNCHANGED <<queued, sent, reissued>> /\ Finish(c, TRUE)
      /\ row' = IF Exists(i) THEN Answer(i, row[i].status, cl[c].answer) ELSE row
    BY DEF Record, Inv, Types, Handler, HandlerInv
<1>2. CASE Exists(i)
  <2>1. row' = [row EXCEPT ![i] = [row[i] EXCEPT !.broker = cl[c].answer]]
      BY <1>1, <1>2 DEF Answer, Inv, Types, Row
  <2> QED
      BY <1>1, <1>2, <2>1, NoteKeeps
<1>3. CASE ~Exists(i)
    BY <1>1, <1>3, FinishKeeps
<1> QED
    BY <1>2, <1>3

LEMMA CrashInv ==
    ASSUME Inv, Crash
    PROVE  Inv'
<1>1. Idle \in Handler /\ Idle.pc = "idle"
    BY DEF Idle, Handler, Reply
<1>2. Types'
    BY <1>1 DEF Crash, Inv, Types
<1>3. \A i, j \in Id : RowInv(i)' /\ (i # j => OneRow(i, j)')
    BY DEF Crash, Inv, RowInv, OneRow, Exists
<1>4. \A k \in Item : ItemInv(k)'
    BY DEF Crash, Inv, ItemInv
<1>5. \A c \in Client : HandlerInv(c)' /\ \A d \in Client : Apart(c, d)'
    BY <1>1 DEF Crash, HandlerInv, Apart, Holding, Sending
<1> QED
    BY <1>2, <1>3, <1>4, <1>5 DEF Inv

LEMMA NextInv == Inv /\ OneWorker /\ [Next]_vars => Inv'
<1> SUFFICES ASSUME Inv, OneWorker, [Next]_vars PROVE Inv'
    OBVIOUS
<1>1. CASE UNCHANGED vars
    BY <1>1 DEF vars, Inv, Types, RowInv, ItemInv, OneRow, HandlerInv, Apart, Cargo, Exists
<1>2. ASSUME NEW c \in Client, Handle(c) PROVE Inv'
    BY <1>2, AskInv, FindInv, DecideInv, DeleteInv, CheckInv, CallInv, RecordInv DEF Handle
<1> QED
    BY <1>1, <1>2, QueueInv, AskInv, CrashInv DEF Next

LEMMA InvHolds == OneWorker => (Spec => []Inv)
<1> SUFFICES ASSUME OneWorker PROVE Spec => []Inv
    OBVIOUS
<1>1. Inv /\ [Next]_vars => Inv'
    BY NextInv
<1> QED
    BY <1>1, InitInv, PTL DEF Spec

-----------------------------------------------------------------------------
\* Under the production worker an order reaches the broker once at most,
\* however often and from wherever it is approved.
THEOREM ApprovalIsSentOnce == OneWorker => (Spec => []SentOnce)
<1> SUFFICES ASSUME OneWorker PROVE Spec => []SentOnce
    OBVIOUS
<1>1. Inv => SentOnce
    BY DEF Inv, ItemInv, SentOnce
<1> QED
    BY <1>1, InvHolds, PTL

\* A rejected order was not sent and is not being sent, one that nobody has
\* decided on was not sent, and one that shows an order id was, unless its id
\* was given again before the broker had answered for the order that had it.
THEOREM RowsAreTrue == OneWorker => (Spec => []RowsTellTruth)
<1> SUFFICES ASSUME OneWorker PROVE Spec => []RowsTellTruth
    OBVIOUS
<1>1. ASSUME Inv PROVE RowsTellTruth
  <2>1. TypeOK
    <3>1. ASSUME NEW i \in Id
          PROVE  IF Exists(i) THEN row[i].item \in Item ELSE row[i] = NoRow
        BY <1>1 DEF Inv, RowInv
    <3>2. ASSUME NEW c \in Client, cl[c].pc \in {"calling", "answered"}
          PROVE  cl[c].load \in Item
        BY <1>1, <3>2 DEF Inv, HandlerInv
    <3> QED
        BY <1>1, <3>1, <3>2 DEF TypeOK, Inv, Types, Row, Handler, Status, Reply
  <2>2. ASSUME NEW i \in Id
        PROVE  /\ row[i].status = "rejected" => sent[row[i].item] = 0 /\ ~Busy(row[i].item)
               /\ row[i].status = "pending" => sent[row[i].item] = 0
               /\ row[i].broker = "placed" => sent[row[i].item] > 0 \/ i \in reissued
    <3>1. row[i].status = "rejected" => ~Busy(row[i].item)
        BY <1>1 DEF Inv, HandlerInv, Busy, Exists
    <3> QED
        BY <1>1, <3>1 DEF Inv, RowInv
  <2> QED
      BY <2>1, <2>2 DEF RowsTellTruth
<1> QED
    BY <1>1, InvHolds, PTL

\* A decision is taken once: an approved or rejected row may only be deleted.
THEOREM DecidedOnce == OneWorker => (Spec => DecisionIsFinal)
<1> SUFFICES ASSUME OneWorker PROVE Spec => DecisionIsFinal
    OBVIOUS
<1>1. ASSUME Inv, [Next]_vars
      PROVE  [\A i \in Id : row[i].status \in {"approved", "rejected"} =>
                row'[i].status \in {row[i].status, "none"}]_vars
  <2>1. SUFFICES ASSUME Next, NEW i \in Id, row[i].status \in {"approved", "rejected"}
                 PROVE  row'[i].status \in {row[i].status, "none"}
      BY <1>1
  <2>2. CASE Queue
    <3>1. PICK n \in Id :
            /\ NewId(n)
            /\ row' = [row EXCEPT ![n] =
                         [status |-> "pending", item |-> queued + 1, broker |-> "none"]]
        BY <2>2 DEF Queue
    <3>2. Exists(i) => i < n
        BY <3>1 DEF NewId
    <3>3. i # n
        BY <2>1, <3>2, ActionCenterAssumption, SMT DEF Exists, Id
    <3> QED
        BY <1>1, <3>1, <3>3 DEF Inv, Types
  <2>3. ASSUME NEW c \in Client, Decide(c)
        PROVE  row'[i].status \in {row[i].status, "none"}
    <3>1. row[cl[c].id].status = "pending"
        BY <1>1, <2>3 DEF Decide, Inv, HandlerInv
    <3> QED
        BY <1>1, <2>1, <2>3, <3>1 DEF Decide, Inv, Types
  <2>4. ASSUME NEW c \in Client, Delete(c) \/ Check(c)
        PROVE  row'[i].status \in {row[i].status, "none"}
    <3>1. CASE Delete(c)
        BY <1>1, <3>1 DEF Delete, NoRow, Inv, Types
    <3>2. CASE Check(c)
      <4> DEFINE k == cl[c].id
      <4>1. row' = row \/ row' = [row EXCEPT ![k].broker = "rejected"]
          BY <3>2 DEF Check
      <4> HIDE DEF k
      <4>2. row[i] \in Row
          BY <1>1 DEF Inv, Types
      <4> QED
          BY <1>1, <4>1, <4>2 DEF Inv, Types, Row
    <3> QED
        BY <2>4, <3>1, <3>2
  <2>5. ASSUME NEW c \in Client, Record(c)
        PROVE  row'[i].status \in {row[i].status, "none"}
    <3> DEFINE k == cl[c].id
    <3>1. row' = row \/ row' = Answer(k, row[k].status, cl[c].answer)
        BY <2>5 DEF Record
    <3>2. CASE row' = Answer(k, row[k].status, cl[c].answer)
      <4>1. CASE i = k
          BY <1>1, <3>2, <4>1 DEF Answer, Inv, Types
      <4>2. CASE i # k
          BY <1>1, <3>2, <4>2 DEF Answer, Inv, Types
      <4> QED
          BY <4>1, <4>2
    <3> QED
        BY <3>1, <3>2
  <2>6. CASE UNCHANGED row
      BY <2>6
  <2> QED
      BY <2>1, <2>2, <2>3, <2>4, <2>5, <2>6 DEF Next, Handle, Ask, AskAll, NextListed, Find, Call, Crash
<1> QED
    BY <1>1, InvHolds, PTL DEF Spec, DecisionIsFinal

-----------------------------------------------------------------------------
(***************************************************************************)
(* The event bus never leaks a slot and never runs past its cap, for any   *)
(* number of publishers, callbacks and pool threads, as long as the pool   *)
(* can start its threads.                                                  *)
(***************************************************************************)
ThreadsStart == "thread_fails" \notin BusFaults

BusInv ==
    /\ BusTypeOK
    /\ Handover
    /\ PendingExact
    /\ pending <= MaxPending

-----------------------------------------------------------------------------
\* Only finitely many callbacks of events exist, so slots can be counted.
LEMMA SlotsFinite == IsFiniteSet(Delivery) /\ IsFiniteSet(Slots)
<1>1. IsFiniteSet(Delivery)
  BY FS_Product, EventBusAssumption DEF EventBusAssumption, Delivery
<1>2. Slots \subseteq Delivery
  BY DEF Slots
<1> QED
  BY <1>1, <1>2, FS_Subset

\* The initial state.
LEMMA BusInvInit == BusInit => BusInv
<1> SUFFICES ASSUME BusInit PROVE BusInv
  OBVIOUS
<1>1. BusTypeOK
  BY DEF BusInit, BusTypeOK, State
<1>2. Handover
  BY DEF BusInit, Handover, Delivery
<1>3. Slots = {}
  BY DEF BusInit, Slots, Holds
<1>4. PendingExact /\ pending <= MaxPending
  BY <1>3, FS_EmptySet, EventBusAssumption DEF BusInit, PendingExact, EventBusAssumption
<1> QED
  BY <1>1, <1>2, <1>4 DEF BusInv

\* Every step keeps the shape of the state.
LEMMA BusTypeNext == BusTypeOK /\ [BusNext]_busVars => BusTypeOK'
<1> SUFFICES ASSUME BusTypeOK, [BusNext]_busVars PROVE BusTypeOK'
  OBVIOUS
<1>1. CASE \/ \E c \in Callback : Subscribe(c) \/ Unsubscribe(c)
           \/ Shutdown
           \/ UNCHANGED busVars
  BY <1>1 DEF BusTypeOK, Subscribe, Unsubscribe, Shutdown, busVars
<1>2. ASSUME NEW p \in Publisher, NEW e \in Event, Publish(p, e) PROVE BusTypeOK'
  <2>1. {<<e, c>> : c \in subs} \subseteq Delivery
    BY DEF BusTypeOK, Delivery
  <2> QED
    BY <1>2, <2>1 DEF BusTypeOK, Publish, At
<1>3. ASSUME NEW p \in Publisher, Loop(p) PROVE BusTypeOK'
  <2>1. CASE \E d \in Delivery : Admit(p, d)
    BY <2>1 DEF BusTypeOK, Admit, At, State
  <2>2. CASE Submit(p)
    BY <2>2 DEF BusTypeOK, Submit, To, At, State
  <2>3. CASE GiveBack(p)
    BY <2>3 DEF BusTypeOK, GiveBack, To, At
  <2>4. CASE Return(p)
    BY <2>4 DEF BusTypeOK, Return, To, At
  <2> QED
    BY <1>3, <2>1, <2>2, <2>3, <2>4 DEF Loop
<1>4. CASE \E d \in Delivery : Begin(d) \/ End(d)
  BY <1>4 DEF BusTypeOK, Begin, End, State
<1> QED
  BY <1>1, <1>3, <1>4, <1>2 DEF BusNext

\* Publishers keep to callbacks of their own.
LEMMA HandoverNext ==
    ASSUME ThreadsStart, BusTypeOK, Handover, [BusNext]_busVars
    PROVE  Handover'
<1> USE DEF ThreadsStart
<1>1. CASE \/ \E c \in Callback : Subscribe(c) \/ Unsubscribe(c)
           \/ Shutdown
           \/ UNCHANGED busVars
  BY <1>1 DEF Handover, Subscribe, Unsubscribe, Shutdown, busVars
<1>2. ASSUME NEW p \in Publisher, NEW e \in Event, Publish(p, e) PROVE Handover'
  BY <1>2 DEF BusTypeOK, Handover, Publish, At, Delivery
<1>3. ASSUME NEW p \in Publisher, NEW d \in Delivery, Admit(p, d) PROVE Handover'
  BY <1>3 DEF BusTypeOK, Handover, Admit, At, Delivery
<1>4. ASSUME NEW p \in Publisher, Submit(p) PROVE Handover'
  BY <1>4 DEF BusTypeOK, Handover, Submit, To, At, Delivery
<1>5. ASSUME NEW p \in Publisher, GiveBack(p) \/ Return(p) PROVE Handover'
  BY <1>5 DEF BusTypeOK, Handover, GiveBack, Return, To, At
<1>6. ASSUME NEW d \in Delivery, Begin(d) \/ End(d) PROVE Handover'
  BY <1>6 DEF BusTypeOK, Handover, Begin, End, Delivery
<1> QED
  BY <1>1, <1>2, <1>3, <1>4, <1>5, <1>6 DEF BusNext, Loop

-----------------------------------------------------------------------------
\* A step takes one slot that was free, frees one that was taken, or neither, and
\* _pending follows.
LEMMA SlotsStep ==
    ASSUME ThreadsStart, BusTypeOK, Handover, [BusNext]_busVars
    PROVE  \/ Slots' = Slots /\ pending' = pending
           \/ \E d \in Delivery \ Slots :
                Slots' = Slots \cup {d} /\ pending' = pending + 1 /\ pending < MaxPending
           \/ \E d \in Slots : Slots' = Slots \ {d} /\ pending' = pending - 1
<1> USE EventBusAssumption DEF EventBusAssumption, ThreadsStart
<1>1. CASE \/ \E c \in Callback : Subscribe(c) \/ Unsubscribe(c)
           \/ Shutdown
           \/ UNCHANGED busVars
  BY <1>1 DEF Slots, Holds, Subscribe, Unsubscribe, Shutdown, busVars
<1>2. ASSUME NEW p \in Publisher, NEW e \in Event, Publish(p, e)
      PROVE  Slots' = Slots /\ pending' = pending
  BY <1>2 DEF BusTypeOK, Slots, Holds, Publish, At
<1>3. ASSUME NEW p \in Publisher, NEW d \in Delivery, Admit(p, d), pending >= MaxPending
      PROVE  Slots' = Slots /\ pending' = pending
  BY <1>3 DEF BusTypeOK, Handover, Slots, Holds, Admit, At
<1>4. ASSUME NEW p \in Publisher, NEW d \in Delivery, Admit(p, d), ~(pending >= MaxPending)
      PROVE  /\ d \notin Slots /\ Slots' = Slots \cup {d}
             /\ pending' = pending + 1 /\ pending < MaxPending
  BY <1>4 DEF BusTypeOK, Handover, Slots, Holds, Admit, At
<1>5. ASSUME NEW p \in Publisher, Submit(p)
      PROVE  Slots' = Slots /\ pending' = pending
  BY <1>5 DEF BusTypeOK, Handover, Slots, Holds, Submit, To, At
<1>6. ASSUME NEW p \in Publisher, GiveBack(p)
      PROVE  /\ pub[p].cur \in Slots /\ Slots' = Slots \ {pub[p].cur}
             /\ pending' = pending - 1
  BY <1>6 DEF BusTypeOK, Handover, Slots, Holds, GiveBack, To, At
<1>7. ASSUME NEW p \in Publisher, Return(p)
      PROVE  Slots' = Slots /\ pending' = pending
  BY <1>7 DEF BusTypeOK, Slots, Holds, Return, To, At
<1>8. ASSUME NEW d \in Delivery, Begin(d)
      PROVE  Slots' = Slots /\ pending' = pending
  BY <1>8 DEF BusTypeOK, Slots, Holds, Begin
<1>9. ASSUME NEW d \in Delivery, End(d)
      PROVE  d \in Slots /\ Slots' = Slots \ {d} /\ pending' = pending - 1
  BY <1>9 DEF BusTypeOK, Slots, Holds, End
<1>10. ASSUME NEW p \in Publisher, Loop(p)
       PROVE \/ Slots' = Slots /\ pending' = pending
             \/ \E d \in Delivery \ Slots :
                  Slots' = Slots \cup {d} /\ pending' = pending + 1 /\ pending < MaxPending
             \/ \E d \in Slots : Slots' = Slots \ {d} /\ pending' = pending - 1
  <2>1. CASE \E d \in Delivery : Admit(p, d)
    BY <2>1, <1>3, <1>4
  <2>2. CASE Submit(p) \/ Return(p)
    BY <2>2, <1>5, <1>7
  <2>3. CASE GiveBack(p)
    BY <2>3, <1>6
  <2> QED
    BY <1>10, <2>1, <2>2, <2>3 DEF Loop
<1> QED
  BY <1>1, <1>2, <1>8, <1>9, <1>10 DEF BusNext

\* Counting the slots counts _pending.
LEMMA CountNext ==
    ASSUME ThreadsStart, BusInv, [BusNext]_busVars
    PROVE  PendingExact' /\ pending' <= MaxPending
<1>1. BusTypeOK /\ Handover /\ pending = Cardinality(Slots) /\ pending <= MaxPending
  BY DEF BusInv, PendingExact
<1>2. IsFiniteSet(Slots) /\ pending \in Nat /\ MaxPending \in Nat
  BY <1>1, SlotsFinite, FS_CardinalityType, EventBusAssumption DEF EventBusAssumption
<1>3. CASE Slots' = Slots /\ pending' = pending
  BY <1>1, <1>3 DEF PendingExact
<1>4. ASSUME NEW d \in Delivery \ Slots, Slots' = Slots \cup {d},
             pending' = pending + 1, pending < MaxPending
      PROVE  PendingExact' /\ pending' <= MaxPending
  <2>1. Cardinality(Slots \cup {d}) = Cardinality(Slots) + 1
    BY <1>2, <1>4, FS_AddElement
  <2> QED
    BY <1>1, <1>2, <1>4, <2>1 DEF PendingExact
<1>5. ASSUME NEW d \in Slots, Slots' = Slots \ {d}, pending' = pending - 1
      PROVE  PendingExact' /\ pending' <= MaxPending
  <2>1. Cardinality(Slots \ {d}) = Cardinality(Slots) - 1
    BY <1>2, <1>5, FS_RemoveElement
  <2> QED
    BY <1>1, <1>2, <1>5, <2>1 DEF PendingExact
<1> QED
  BY <1>1, <1>3, <1>4, <1>5, SlotsStep

\* The cap on _pending caps what the pool holds.
LEMMA CapHolds == BusInv => Bounded
<1> SUFFICES ASSUME BusInv PROVE Bounded
  OBVIOUS
<1>1. In({"queued", "running"}) \subseteq Slots
  BY DEF In, Slots, Holds
<1>2. /\ Cardinality(In({"queued", "running"})) <= Cardinality(Slots)
      /\ Cardinality(In({"queued", "running"})) \in Nat
      /\ Cardinality(Slots) \in Nat
  BY <1>1, SlotsFinite, FS_Subset, FS_CardinalityType
<1> QED
  BY <1>2, EventBusAssumption DEF BusInv, PendingExact, Bounded, EventBusAssumption

-----------------------------------------------------------------------------
\* _pending is the number of slots in use, in every state: none leaks and none is
\* returned twice.
THEOREM SlotsNeverLeak == ThreadsStart => (BusSpec => []PendingExact)
<1> SUFFICES ASSUME ThreadsStart
             PROVE  BusSpec => []PendingExact
  OBVIOUS
<1>1. BusInv /\ [BusNext]_busVars => BusInv'
  BY BusTypeNext, HandoverNext, CountNext DEF BusInv
<1>2. BusInv => PendingExact
  BY DEF BusInv
<1> QED
  BY BusInvInit, <1>1, <1>2, PTL DEF BusSpec

\* No more than max_pending callbacks are queued or running at once.
THEOREM CapIsKept == ThreadsStart => (BusSpec => []Bounded)
<1> SUFFICES ASSUME ThreadsStart
             PROVE  BusSpec => []Bounded
  OBVIOUS
<1>1. BusInv /\ [BusNext]_busVars => BusInv'
  BY BusTypeNext, HandoverNext, CountNext DEF BusInv
<1> QED
  BY BusInvInit, <1>1, CapHolds, PTL DEF BusSpec

\* A callback is dropped only when max_pending others hold slots.
THEOREM DropsAreForced == ThreadsStart => (BusSpec => DropsOnlyAtCapacity)
<1> SUFFICES ASSUME ThreadsStart
             PROVE  BusSpec => DropsOnlyAtCapacity
  OBVIOUS
<1>1. BusInv /\ [BusNext]_busVars => BusInv'
  BY BusTypeNext, HandoverNext, CountNext DEF BusInv
<1>2. BusInv /\ [BusNext]_busVars
        => [dropped' # dropped => Cardinality(Slots) = MaxPending]_busVars
  <2> SUFFICES ASSUME BusInv, BusNext, dropped' # dropped
               PROVE  Cardinality(Slots) = MaxPending
    OBVIOUS
  <2>1. pending = Cardinality(Slots) /\ pending <= MaxPending /\ pending \in Int
    BY DEF BusInv, PendingExact, BusTypeOK
  <2>2. pending >= MaxPending
    BY DEF BusNext, Loop, Subscribe, Unsubscribe, Publish, Admit, At, Submit, GiveBack,
           Return, Begin, End, Shutdown
  <2> QED
    BY <2>1, <2>2, EventBusAssumption DEF EventBusAssumption
<1> QED
  BY BusInvInit, <1>1, <1>2, PTL DEF BusSpec, DropsOnlyAtCapacity
=============================================================================
