---------------------------- MODULE ActionCenter ----------------------------
(***************************************************************************)
(* The Action Center of semi-automatic trading: orders are queued as rows  *)
(* of pending_orders, and a user approves, rejects or deletes them         *)
(* (database/action_center_db.py, blueprints/orders.py); an approved row   *)
(* is sent to the broker by services/pending_order_execution_service.py.   *)
(*                                                                         *)
(* Each decision is an ORM read followed by an UPDATE by primary key.  The *)
(* UPDATE does not repeat the condition that was read, so what may run in  *)
(* between matters: nothing under the single eventlet worker, where only a *)
(* network call gives up the processor, and any request under the threaded *)
(* development server.                                                     *)
(***************************************************************************)
EXTENDS Integers, FiniteSets

CONSTANTS
    MaxQueued,  \* bound on the orders queued in a behaviour
    Client,     \* request handlers
    Faults      \* the conditions a run turns on

Fault == {"threads", "lost_answer", "crash"}

(***************************************************************************)
(*   threads      requests interleave between a read and its commit        *)
(*   lost_answer  the broker accepts an order and its answer never arrives *)
(*   crash        the process dies between two steps                       *)
(***************************************************************************)
ASSUME ActionCenterAssumption ==
    /\ MaxQueued \in Nat
    /\ Faults \subseteq Fault

Item == 1 .. MaxQueued  \* what the user of the API asked for: order_data
Id == 1 .. MaxQueued

VARIABLES
    row,     \* pending_orders by id
    queued,  \* orders queued so far
    sent,    \* how often each item reached the broker
    reissued,  \* history: ids given again before the broker had answered for
               \* the row that had them
    cl       \* where each request handler is

vars == <<row, queued, sent, reissued, cl>>

NoRow == [status |-> "none", item |-> 0, broker |-> "none"]
Idle == [pc |-> "idle", op |-> "idle", id |-> 0, item |-> 0, load |-> 0,
         answer |-> "none", expired |-> FALSE, todo |-> {}]

Init ==
    /\ row = [i \in Id |-> NoRow]
    /\ queued = 0
    /\ sent = [k \in Item |-> 0]
    /\ reissued = {}
    /\ cl = [c \in Client |-> Idle]

Exists(i) == row[i].status # "none"

\* Between a read and the commit that relies on it, or between an approval and
\* the broker call, a handler makes no network call.
Holding == {"deciding", "deleting", "approved"}
Runs(c) ==
    "threads" \in Faults \/ \A d \in Client \ {c} : cl[d].pc \notin Holding

Goto(c, pc) == cl' = [cl EXCEPT ![c].pc = pc]

\* A request for the row id, which showed item when it was looked at.
Asking(op, id, item, expired, todo) ==
    [pc |-> "asked", op |-> op, id |-> id, item |-> item, load |-> 0,
     answer |-> "none", expired |-> expired, todo |-> todo]
Listing(expired, todo) ==
    [pc |-> "all", op |-> "approve", id |-> 0, item |-> 0, load |-> 0,
     answer |-> "none", expired |-> expired, todo |-> todo]
Executing(c, pc, load, answer) ==
    [pc |-> pc, op |-> cl[c].op, id |-> cl[c].id, item |-> cl[c].item, load |-> load,
     answer |-> answer, expired |-> TRUE, todo |-> cl[c].todo]

\* The handler is through with its row: approve-all goes on to its next one.
Finish(c, committed) ==
    cl' = [cl EXCEPT ![c] =
             IF cl[c].todo = {} THEN Idle
             ELSE Listing(cl[c].expired \/ committed, cl[c].todo)]

-----------------------------------------------------------------------------
\* The primary key of a new row, which SQLite makes one more than the largest in
\* use: the id of the last row is given again once that row is deleted (the key
\* is not AUTOINCREMENT).
NewId(n) ==
    LET Above(m) == \A i \in Id : Exists(i) => i < m IN
    Above(n) /\ \A m \in Id : Above(m) => n <= m

\* A handler is between the broker call for the row i and the record of its
\* answer.
Unanswered(i) ==
    \E c \in Client : cl[c].pc \in {"calling", "answered"} /\ cl[c].id = i

\* queue_order, create_pending_order
Queue ==
    /\ \A c \in Client : Runs(c)
    /\ queued < MaxQueued
    /\ queued' = queued + 1
    /\ \E n \in Id :
         /\ NewId(n)
         /\ row' = [row EXCEPT ![n] =
                      [status |-> "pending", item |-> queued + 1, broker |-> "none"]]
         /\ reissued' = IF Unanswered(n) THEN reissued \cup {n} ELSE reissued \ {n}
    /\ UNCHANGED <<sent, cl>>

\* The page the user acts on shows a row; the request carries only its id.
Ask(c, op, i) ==
    /\ Runs(c)
    /\ cl[c].pc = "idle"
    /\ Exists(i)
    /\ (op = "delete") = (row[i].status # "pending")
    /\ cl' = [cl EXCEPT ![c] = Asking(op, i, row[i].item, FALSE, {})]
    /\ UNCHANGED <<row, queued, sent, reissued>>

\* approve_all_pending_orders: the rows are listed, then approved one by one.
AskAll(c) ==
    LET listed == {i \in Id : row[i].status = "pending"} IN
    /\ Runs(c)
    /\ cl[c].pc = "idle"
    /\ listed # {}
    /\ cl' = [cl EXCEPT ![c] = Listing(FALSE, {<<i, row[i].item>> : i \in listed})]
    /\ UNCHANGED <<row, queued, sent, reissued>>

\* The next listed row.  Once a commit of this request has expired the objects
\* it listed, the id of one deleted since cannot be read: the request ends with
\* an exception.
NextListed(c) ==
    /\ Runs(c)
    /\ cl[c].pc = "all"
    /\ \E p \in cl[c].todo :
         cl' = [cl EXCEPT ![c] =
                  IF cl[c].expired /\ ~Exists(p[1]) THEN Idle
                  ELSE Asking("approve", p[1], p[2], cl[c].expired, cl[c].todo \ {p})]
    /\ UNCHANGED <<row, queued, sent, reissued>>

-----------------------------------------------------------------------------
\* slip: the status is not looked at
FindAny(c) ==
    /\ Runs(c)
    /\ cl[c].pc = "asked"
    /\ IF Exists(cl[c].id)
       THEN Goto(c, IF cl[c].op = "delete" THEN "deleting" ELSE "deciding")
       ELSE Finish(c, FALSE)
    /\ UNCHANGED <<row, queued, sent, reissued>>

\* approve_pending_order and reject_pending_order look for a pending row,
\* delete_pending_order for one that is not.
Find(c) ==
    LET i == cl[c].id IN
    /\ Runs(c)
    /\ cl[c].pc = "asked"
    /\ \/ /\ cl[c].op # "delete" /\ row[i].status = "pending"
          /\ Goto(c, "deciding")
       \/ /\ cl[c].op = "delete" /\ row[i].status \notin {"none", "pending"}
          /\ Goto(c, "deleting")
       \/ /\ row[i].status \in (IF cl[c].op = "delete" THEN {"none", "pending"}
                                ELSE {"none", "approved", "rejected"})
          /\ Finish(c, FALSE)
    /\ UNCHANGED <<row, queued, sent, reissued>>

\* The commit, an UPDATE by id, fails only if the row is gone.
Decide(c) ==
    LET i == cl[c].id IN
    /\ Runs(c)
    /\ cl[c].pc = "deciding"
    /\ \/ /\ Exists(i) /\ cl[c].op = "approve"
          /\ row' = [row EXCEPT ![i].status = "approved"]
          /\ Goto(c, "approved")
       \/ /\ Exists(i) /\ cl[c].op = "reject"
          /\ row' = [row EXCEPT ![i].status = "rejected"]
          /\ Finish(c, TRUE)
       \/ /\ ~Exists(i)
          /\ UNCHANGED row
          /\ Finish(c, TRUE)
    /\ UNCHANGED <<queued, sent, reissued>>

Delete(c) ==
    /\ Runs(c)
    /\ cl[c].pc = "deleting"
    /\ row' = [row EXCEPT ![cl[c].id] = NoRow]
    /\ Finish(c, TRUE)
    /\ UNCHANGED <<queued, sent, reissued>>

-----------------------------------------------------------------------------
(* execute_approved_order *)

\* The row is read again, then the broker session; without one the row is
\* recorded as rejected.  What will be sent is what the row holds now.
Check(c) ==
    LET i == cl[c].id IN
    /\ Runs(c)
    /\ cl[c].pc = "approved"
    /\ \/ /\ row[i].status # "approved"
          /\ Finish(c, TRUE)
          /\ UNCHANGED row
       \/ /\ row[i].status = "approved"
          /\ row' = [row EXCEPT ![i].broker = "rejected"]
          /\ Finish(c, TRUE)
       \/ /\ row[i].status = "approved"
          /\ cl' = [cl EXCEPT ![c] = Executing(c, "calling", row[i].item, "none")]
          /\ UNCHANGED row
    /\ UNCHANGED <<queued, sent, reissued>>

\* The order service's network call and what it returns: an order id, a failure,
\* a success that names no order (a smart order already at its target), or a
\* failure although the broker took the order.
Call(c) ==
    LET k == cl[c].load
        Answered(a) == cl' = [cl EXCEPT ![c] = Executing(c, "answered", k, a)] IN
    /\ Runs(c)
    /\ cl[c].pc = "calling"
    /\ \/ sent' = [sent EXCEPT ![k] = @ + 1] /\ Answered("placed")
       \/ UNCHANGED sent /\ Answered("rejected")
       \/ UNCHANGED sent /\ Finish(c, TRUE)
       \/ /\ "lost_answer" \in Faults
          /\ sent' = [sent EXCEPT ![k] = @ + 1]
          /\ Answered("rejected")
    /\ UNCHANGED <<row, queued, reissued>>

Answer(i, status, a) == [row EXCEPT ![i] = [status |-> status, item |-> row[i].item,
                                            broker |-> a]]

\* slip: the answer is taken for a success
RecordPlaced(c) ==
    LET i == cl[c].id IN
    /\ Runs(c)
    /\ cl[c].pc = "answered"
    /\ row' = IF Exists(i) THEN Answer(i, row[i].status, "placed") ELSE row
    /\ Finish(c, TRUE)
    /\ UNCHANGED <<queued, sent, reissued>>

\* update_broker_status, an UPDATE by id as well: whatever row has it by now.
Record(c) ==
    LET i == cl[c].id IN
    /\ Runs(c)
    /\ cl[c].pc = "answered"
    /\ row' = IF Exists(i) THEN Answer(i, row[i].status, cl[c].answer) ELSE row
    /\ Finish(c, TRUE)
    /\ UNCHANGED <<queued, sent, reissued>>

\* The process dies; the rows and the broker's orders remain.
Crash ==
    /\ "crash" \in Faults
    /\ cl' = [c \in Client |-> Idle]
    /\ UNCHANGED <<row, queued, sent, reissued>>

-----------------------------------------------------------------------------
Op == {"approve", "reject", "delete"}

Handle(c) ==
    \/ NextListed(c)
    \/ Find(c)
    \/ Decide(c)
    \/ Delete(c)
    \/ Check(c)
    \/ Call(c)
    \/ Record(c)

Next ==
    \/ Queue
    \/ \E c \in Client, op \in Op, i \in Id : Ask(c, op, i)
    \/ \E c \in Client : AskAll(c)
    \/ \E c \in Client : Handle(c)
    \/ Crash

Spec == Init /\ [][Next]_vars

-----------------------------------------------------------------------------
\* The shape of the rows and of the requests in progress: a deleted row
\* leaves nothing behind, and an execution has read a row.
TypeOK ==
    /\ row \in [Id -> [status : {"none", "pending", "approved", "rejected"},
                       item : Item \cup {0},
                       broker : {"none", "placed", "rejected"}]]
    /\ queued \in 0 .. MaxQueued
    /\ sent \in [Item -> Nat]
    /\ reissued \subseteq Id
    /\ cl \in [Client ->
                 [pc : {"idle", "all", "asked", "deciding", "deleting", "approved",
                        "calling", "answered"},
                  op : Op \cup {"idle"}, id : Id \cup {0}, item : Item \cup {0},
                  load : Item \cup {0}, answer : {"none", "placed", "rejected"},
                  expired : BOOLEAN, todo : SUBSET (Id \X Item)]]
    /\ \A i \in Id : IF Exists(i) THEN row[i].item \in Item ELSE row[i] = NoRow
    /\ \A c \in Client : cl[c].pc \in {"calling", "answered"} => cl[c].load \in Item

Busy(k) == \E c \in Client : cl[c].pc \in {"calling", "answered"} /\ cl[c].load = k

\* An order the user approved goes to the broker once, however often and from
\* wherever the approval is clicked.
SentOnce == \A k \in Item : sent[k] <= 1

\* A decision is taken once: an approved or a rejected row is deleted at most.
DecisionIsFinal ==
    [][\A i \in Id : row[i].status \in {"approved", "rejected"} =>
          row'[i].status \in {row[i].status, "none"}]_vars

\* "Review, approve, modify, or reject orders before they're sent": what is sent
\* is what the approving user was shown.  False, since a request names a row by
\* an id that may have become another order's.
SendsWhatWasSeen ==
    [][\A c \in Client : cl[c].pc = "calling" /\ sent' # sent /\ cl'[c] # cl[c]
          => cl[c].load = cl[c].item]_vars

\* The rows tell the truth, although their ids may have been another order's: a
\* rejected order was not sent and is not being sent, one that nobody has decided
\* on was not sent, and one that shows a broker's order id was, unless it got the
\* id of an order that was deleted while the broker's answer was on its way.
RowsTellTruth ==
    /\ TypeOK
    /\ \A i \in Id :
          /\ row[i].status = "rejected" => sent[row[i].item] = 0 /\ ~Busy(row[i].item)
          /\ row[i].status = "pending" => sent[row[i].item] = 0
          /\ row[i].broker = "placed" => sent[row[i].item] > 0 \/ i \in reissued

=============================================================================
