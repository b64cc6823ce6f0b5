-------------------------------- MODULE GTT --------------------------------
(***************************************************************************)
(* The sandbox GTT (Good Till Triggered) lifecycle of                      *)
(* sandbox/gtt_manager.py.                                                 *)
(*                                                                         *)
(* A GTT rests on one leg, or on two mutually exclusive legs (an OCO).     *)
(* Evaluator threads that see a leg's trigger crossed compete for it with  *)
(* a conditional UPDATE, and the winner walks fire_leg, which commits to   *)
(* the database several times.  Request and sweep threads cancel, modify   *)
(* and expire GTTs meanwhile, a reaper recovers what an interrupted fire   *)
(* left behind, and the process may crash between any two commits.         *)
(*                                                                         *)
(* Every action is one database transaction (or one read that a later      *)
(* transaction relies on): SQLite serialises writers, so a transaction     *)
(* that begins with an UPDATE is atomic against every other writer.  The   *)
(* margin of a GTT moves by such an UPDATE; block_margin and release_margin*)
(* read the balances and write them back, under a lock that it never takes.*)
(***************************************************************************)
EXTENDS Integers, FiniteSets

CONSTANTS
    Gtt,          \* GTT rows
    Oco,          \* those of trigger_type "two-leg"
    Worker,       \* evaluator threads: polling, WebSocket, catch-up
    Client,       \* request threads and the expiry sweep
    Margin,       \* margins a leg may need
    OrderMargin,  \* margins place_order may block for a child order
    OcoMode,      \* gtt_oco_margin_mode
    Capital,      \* starting balance
    MaxCrash,     \* bound on the crashes of a behaviour
    Faults        \* the departures from quiet operation that may happen

NoLeg == <<>>

Fault == {"live_reaper", "commit_fails", "refresh_fails", "fill_fails", "late_cancel",
          "funds_reset"}

(***************************************************************************)
(* Faults are the conditions a run may turn on:                            *)
(*   live_reaper   reclaim_stranded_parents runs while a leg is firing     *)
(*   commit_fails  a commit of fire_leg, or of what undoes it, raises      *)
(*   refresh_fails what place_order does after its INSERT raises           *)
(*   fill_fails    the engine rejects a child order that it cannot execute *)
(*   late_cancel   it does so while a cancel of that order is on its way     *)
(*   funds_reset   the weekly reset of the account happens                 *)
(***************************************************************************)
ASSUME GTTAssumption ==
    /\ IsFiniteSet(Gtt) /\ IsFiniteSet(Worker)
    /\ Oco \subseteq Gtt
    /\ Margin \subseteq Nat \ {0}
    /\ OrderMargin \subseteq Nat
    /\ OcoMode \in {"max", "sum"}
    /\ Capital \in Nat
    /\ MaxCrash \in Nat
    /\ Faults \subseteq Fault

Leg == {l \in Gtt \X {1, 2} : l[2] = 1 \/ l[1] \in Oco}
Parent(l) == l[1]
LegsOf(g) == {l \in Leg : Parent(l) = g}
Siblings(l) == LegsOf(Parent(l)) \ {l}

GttStatus == {"none", "active", "triggered", "cancelled", "expired", "rejected"}
LegStatus == {"none", "pending", "triggering", "triggered", "cancelled"}
OrderStatus == {"none", "open", "cancelled", "rejected"}

VARIABLES
    status,    \* gtt_status of each GTT; "none" before it is placed
    reserved,  \* margin_blocked of each GTT
    leg,       \* leg_status, leg_margin and whether triggered_order_id is set
    order,     \* the sandbox_orders row whose gtt_leg_id is this leg
    avail,     \* available_balance
    used,      \* used_margin
    turn,      \* FundManager._lock: its holder, what it read and will write
    raced,     \* history: a holder wrote over a move made since it read
    wk,        \* where each evaluator thread is in fire_leg
    cl,        \* what each request thread has read
    rp,        \* where the reaper is in reclaim_stranded_parents
    crashes

vars == <<status, reserved, leg, order, avail, used, turn, raced, wk, cl, rp, crashes>>
funds == <<avail, used, turn, raced>>
rows == <<status, reserved, leg, order>>

WorkerPC == {"idle", "crossed", "claimed", "owned", "released", "blocked",
             "placed", "failed", "restored", "unfunded", "revert", "disown"}

IdleWorker == [pc |-> "idle", leg |-> NoLeg, freed |-> 0, held |-> 0]
IdleClient == [op |-> "idle", gtt |-> NoLeg, seen |-> 0]
Free == [role |-> "free", by |-> NoLeg, delta |-> 0, was |-> 0, avail |-> 0, used |-> 0]
IdleReaper == [pc |-> "idle", todo |-> {}, gtt |-> NoLeg, kept |-> 0, need |-> 0]

Init ==
    /\ status = [g \in Gtt |-> "none"]
    /\ reserved = [g \in Gtt |-> 0]
    /\ leg = [l \in Leg |->
                [status |-> "none", margin |-> 0, marked |-> FALSE]]
    /\ order = [l \in Leg |-> [status |-> "none", margin |-> 0]]
    /\ avail = Capital
    /\ used = 0
    /\ turn = Free
    /\ raced = FALSE
    /\ wk = [w \in Worker |-> IdleWorker]
    /\ cl = [c \in Client |-> IdleClient]
    /\ rp = IdleReaper
    /\ crashes = 0

-----------------------------------------------------------------------------
(***************************************************************************)
(* Funds (sandbox/fund_manager.py).  Both ways of moving margin check the  *)
(* side they debit: a block the balance, a release the margin in use.      *)
(***************************************************************************)
CanMove(delta) == IF delta > 0 THEN avail >= delta ELSE used >= -delta

\* stage_margin_delta: test and move are one UPDATE.
Move(delta) ==
    /\ avail' = avail - delta
    /\ used' = used + delta
    /\ UNCHANGED <<turn, raced>>

\* block_margin and release_margin: the balances are read and tested under the
\* class lock ...
Take(role, x, delta) ==
    /\ turn.role = "free"
    /\ CanMove(delta)
    /\ turn' = [role |-> role, by |-> x, delta |-> delta, was |-> used,
                avail |-> avail - delta, used |-> used + delta]
    /\ UNCHANGED <<avail, used, raced>>

Holds(role, x) == turn.role = role /\ turn.by = x

\* ... and what was computed from them is written, whatever they are by now.
Write ==
    /\ avail' = turn.avail
    /\ used' = turn.used
    /\ raced' = (raced \/ used # turn.was)
    /\ turn' = Free

LetGo == turn' = Free /\ UNCHANGED <<avail, used, raced>>

\* The side to be debited falls short.
Short(delta) == turn.role = "free" /\ ~CanMove(delta) /\ UNCHANGED funds

(* What the GTT as a whole must reserve, given the margin of each leg.     *)
Larger(a, b) == IF a >= b THEN a ELSE b
Blocked(g, m) ==
    IF g \notin Oco THEN m[<<g, 1>>]
    ELSE IF OcoMode = "max" THEN Larger(m[<<g, 1>>], m[<<g, 2>>])
         ELSE m[<<g, 1>>] + m[<<g, 2>>]

LargestLeg(g) ==
    IF g \notin Oco THEN leg[<<g, 1>>].margin
    ELSE Larger(leg[<<g, 1>>].margin, leg[<<g, 2>>].margin)

-----------------------------------------------------------------------------
(* Requests *)

\* place_gtt: the reservation and the rows land in one commit.
Place(g) ==
    /\ status[g] = "none"
    /\ \E m \in [LegsOf(g) -> Margin] :
        /\ CanMove(Blocked(g, m))
        /\ Move(Blocked(g, m))
        /\ reserved' = [reserved EXCEPT ![g] = Blocked(g, m)]
        /\ leg' = [l \in Leg |->
                     IF l \in LegsOf(g)
                     THEN [status |-> "pending", margin |-> m[l], marked |-> FALSE]
                     ELSE leg[l]]
    /\ status' = [status EXCEPT ![g] = "active"]
    /\ UNCHANGED <<order, wk, cl, rp, crashes>>

\* _get_active_gtt and the read of margin_blocked that precede the UPDATE.
Read(c, op, g) ==
    /\ cl[c].op = "idle"
    /\ status[g] = "active"
    /\ cl' = [cl EXCEPT ![c] = [op |-> op, gtt |-> g, seen |-> reserved[g]]]
    /\ UNCHANGED <<rows, funds, wk, rp, crashes>>

\* cancel_gtt and expire_due_gtts from their conditional UPDATE on: the parent
\* is taken, the legs are closed and the margin read earlier is released, or
\* nothing is.  Only cancel closes a leg that is already claimed.
Withdraw(c, op, outcome, closes) ==
    LET g == cl[c].gtt IN
    /\ cl[c].op = op
    /\ IF status[g] = "active" /\ CanMove(-cl[c].seen)
       THEN /\ status' = [status EXCEPT ![g] = outcome]
            /\ reserved' = [reserved EXCEPT ![g] = 0]
            /\ leg' = [l \in Leg |->
                         IF l \in LegsOf(g) /\ leg[l].status \in closes
                         THEN [leg[l] EXCEPT !.status = "cancelled"]
                         ELSE leg[l]]
            /\ Move(-cl[c].seen)
       ELSE UNCHANGED <<status, reserved, leg, funds>>
    /\ cl' = [cl EXCEPT ![c] = IdleClient]
    /\ UNCHANGED <<order, wk, rp, crashes>>

Cancel(c) == Withdraw(c, "cancel", "cancelled", {"pending", "triggering"})
Expire(c) == Withdraw(c, "expire", "expired", {"pending"})

\* modify_gtt from its conditional UPDATE on: the margin moves by the change
\* from what was read, the parent and its legs are re-priced.
Modify(c) ==
    LET g == cl[c].gtt IN
    /\ cl[c].op = "modify"
    /\ \E m \in [LegsOf(g) -> Margin] :
         LET delta == Blocked(g, m) - cl[c].seen IN
         IF status[g] = "active" /\ CanMove(delta)
         THEN /\ reserved' = [reserved EXCEPT ![g] = Blocked(g, m)]
              /\ leg' = [l \in Leg |->
                           IF l \in LegsOf(g)
                           THEN [status |-> leg[l].status, margin |-> m[l],
                                 marked |-> leg[l].marked]
                           ELSE leg[l]]
              /\ Move(delta)
         ELSE UNCHANGED <<reserved, leg, funds>>
    /\ cl' = [cl EXCEPT ![c] = IdleClient]
    /\ UNCHANGED <<status, order, wk, rp, crashes>>

-----------------------------------------------------------------------------
(* Evaluators *)

Goto(w, pc) == wk' = [wk EXCEPT ![w].pc = pc]
Done(w) == wk' = [wk EXCEPT ![w] = IdleWorker]
MayFail == "commit_fails" \in Faults

\* The amounts a worker carries from one commit to the next.
Carry(w, pc, freed, held) ==
    wk' = [wk EXCEPT ![w] = [pc |-> pc, leg |-> wk[w].leg, freed |-> freed, held |-> held]]

Triggered(l) == [status |-> "triggered", margin |-> leg[l].margin, marked |-> TRUE]

\* The scan: a pending leg is read and the market price, whatever it is, has
\* crossed the trigger that was read.  A modify that follows does not undo this.
Observe(w, l) ==
    /\ wk[w].pc = "idle"
    /\ leg[l].status = "pending"
    /\ wk' = [wk EXCEPT ![w] = [pc |-> "crossed", leg |-> l, freed |-> 0, held |-> 0]]
    /\ UNCHANGED <<rows, funds, cl, rp, crashes>>

Claimable(l) ==
    /\ leg[l].status = "pending"
    /\ \A s \in Siblings(l) : leg[s].status \notin {"triggering", "triggered"}
    /\ status[Parent(l)] = "active"

\* try_claim_trigger: one conditional UPDATE over the leg, its sibling and its
\* parent.
Claim(w) ==
    LET l == wk[w].leg IN
    /\ wk[w].pc = "crossed"
    /\ IF Claimable(l)
       THEN /\ leg' = [leg EXCEPT ![l].status = "triggering"]
            /\ Goto(w, "claimed")
       ELSE UNCHANGED leg /\ Done(w)
    /\ UNCHANGED <<status, reserved, order, funds, cl, rp, crashes>>

\* slip: the parent is set, not claimed
ClaimParentUnconditional(w) ==
    /\ wk[w].pc = "claimed"
    /\ status' = [status EXCEPT ![Parent(wk[w].leg)] = "triggered"]
    /\ Goto(w, "owned")
    /\ UNCHANGED <<reserved, leg, order, funds, cl, rp, crashes>>

\* fire_leg up to its parent claim, whose commit is not in a try block: if it
\* raises, the leg stays claimed.
ClaimParent(w) ==
    LET l == wk[w].leg
        g == Parent(l) IN
    /\ wk[w].pc = "claimed"
    /\ \/ /\ leg[l].status # "triggering" \/ MayFail
          /\ UNCHANGED status
          /\ Done(w)
       \/ /\ leg[l].status = "triggering"
          /\ status[g] = "active"
          /\ status' = [status EXCEPT ![g] = "triggered"]
          /\ Goto(w, "owned")
       \/ /\ leg[l].status = "triggering"
          /\ status[g] # "active"
          /\ UNCHANGED status
          /\ Goto(w, "disown")
    /\ UNCHANGED <<reserved, leg, order, funds, cl, rp, crashes>>

\* slip: the money goes back and the row still claims it
ReleaseFundsOnly(w) ==
    LET g == Parent(wk[w].leg) IN
    /\ wk[w].pc = "owned"
    /\ CanMove(-reserved[g])
    /\ Move(-reserved[g])
    /\ Carry(w, "released", reserved[g], 0)
    /\ UNCHANGED <<rows, cl, rp, crashes>>

\* The GTT's reservation is returned before its child order is placed, in one
\* transaction with margin_blocked = 0.
Release(w) ==
    LET g == Parent(wk[w].leg) IN
    /\ wk[w].pc = "owned"
    /\ \/ /\ CanMove(-reserved[g])
          /\ Move(-reserved[g])
          /\ reserved' = [reserved EXCEPT ![g] = 0]
          /\ Carry(w, "released", reserved[g], 0)
       \/ /\ ~CanMove(-reserved[g]) \/ (MayFail /\ reserved[g] > 0)
          /\ Goto(w, "revert")
          /\ UNCHANGED <<reserved, funds>>
    /\ UNCHANGED <<status, leg, order, cl, rp, crashes>>

\* slip: place_order's refusal is taken for a success
PlaceUnchecked(w) ==
    /\ wk[w].pc = "released"
    /\ Goto(w, "placed")
    /\ UNCHANGED <<rows, funds, cl, rp, crashes>>

\* place_order reads the balance, in block_margin ...
BlockRead(w) ==
    /\ wk[w].pc = "released"
    /\ \E m \in OrderMargin \ {0} : Take("fire", w, m)
    /\ UNCHANGED <<rows, wk, cl, rp, crashes>>

\* ... and commits, unless it blocks nothing; it may refuse for many reasons.
PlaceBlock(w) ==
    /\ wk[w].pc = "released"
    /\ \/ /\ Holds("fire", w)
          /\ Write
          /\ Carry(w, "blocked", wk[w].freed, turn.delta)
       \/ /\ ~Holds("fire", w)
          /\ UNCHANGED funds
          /\ \/ Goto(w, "failed")
             \/ 0 \in OrderMargin /\ Carry(w, "blocked", wk[w].freed, 0)
       \/ MayFail /\ Holds("fire", w) /\ LetGo /\ Goto(w, "failed")
    /\ UNCHANGED <<rows, cl, rp, crashes>>

\* place_order's INSERT.  gtt_leg_id is unique: a second row for the leg raises
\* and place_order reports an error, its margin still blocked.  It also reports
\* one when the refresh that follows the INSERT raises, the order in the book.
PlaceInsert(w) ==
    LET l == wk[w].leg IN
    /\ wk[w].pc = "blocked"
    /\ IF order[l].status = "none"
       THEN /\ order' = [order EXCEPT ![l] =
                           [status |-> "open", margin |-> wk[w].held]]
            /\ \/ Carry(w, "placed", wk[w].freed, 0)
               \/ "refresh_fails" \in Faults /\ Carry(w, "failed", wk[w].freed, 0)
       ELSE /\ Carry(w, "failed", wk[w].freed, 0)
            /\ UNCHANGED order
    /\ UNCHANGED <<status, reserved, leg, funds, cl, rp, crashes>>

\* fire_leg's last commit.  If it fails the GTT stays triggered and unmarked,
\* because the child order exists.
Mark(w) ==
    LET l == wk[w].leg IN
    /\ wk[w].pc = "placed"
    /\ \/ leg' = [k \in Leg |->
                    IF k = l
                    THEN Triggered(k)
                    ELSE IF k \in Siblings(l)
                            /\ leg[k].status \in {"pending", "triggering"}
                         THEN [leg[k] EXCEPT !.status = "cancelled"]
                         ELSE leg[k]]
       \/ MayFail /\ UNCHANGED leg
    /\ Done(w)
    /\ UNCHANGED <<status, reserved, order, funds, cl, rp, crashes>>

-----------------------------------------------------------------------------
(* _compensate_failed_fire, a commit at a time *)

RestoreRead(w) ==
    /\ wk[w].pc = "failed"
    /\ wk[w].freed > 0
    /\ Take("fire", w, wk[w].freed)
    /\ UNCHANGED <<rows, wk, cl, rp, crashes>>

\* block_margin takes the released reservation back.
Restore(w) ==
    /\ wk[w].pc = "failed"
    /\ \/ wk[w].freed = 0 /\ UNCHANGED funds /\ Goto(w, "revert")
       \/ Holds("fire", w) /\ Write /\ Goto(w, "restored")
       \/ wk[w].freed > 0 /\ Short(wk[w].freed) /\ Goto(w, "unfunded")
       \/ MayFail /\ Holds("fire", w) /\ LetGo /\ Goto(w, "unfunded")
    /\ UNCHANGED <<rows, cl, rp, crashes>>

\* slip: the money is taken back and the row does not say so
PersistNothing(w) ==
    /\ wk[w].pc = "restored"
    /\ Goto(w, "revert")
    /\ UNCHANGED <<rows, funds, cl, rp, crashes>>

\* margin_blocked is written back; a commit that raises is logged and passed by.
Persist(w) ==
    LET g == Parent(wk[w].leg) IN
    /\ wk[w].pc = "restored"
    /\ \/ reserved' = [reserved EXCEPT ![g] = wk[w].freed]
       \/ MayFail /\ UNCHANGED reserved
    /\ Goto(w, "revert")
    /\ UNCHANGED <<status, leg, order, funds, cl, rp, crashes>>

\* The funds are gone: rejected, whatever the status is by now.
Reject(w) ==
    LET g == Parent(wk[w].leg) IN
    /\ wk[w].pc = "unfunded"
    /\ \/ /\ status' = [status EXCEPT ![g] = "rejected"]
          /\ reserved' = [reserved EXCEPT ![g] = 0]
       \/ MayFail /\ UNCHANGED <<status, reserved>>
    /\ Goto(w, "disown")
    /\ UNCHANGED <<leg, order, funds, cl, rp, crashes>>

\* _revert_parent
RevertParent(w) ==
    LET g == Parent(wk[w].leg) IN
    /\ wk[w].pc = "revert"
    /\ \/ status' = [status EXCEPT ![g] = IF @ = "triggered" THEN "active" ELSE @]
       \/ MayFail /\ UNCHANGED status
    /\ Goto(w, "disown")
    /\ UNCHANGED <<reserved, leg, order, funds, cl, rp, crashes>>

\* _revert_claim
RevertClaim(w) ==
    LET l == wk[w].leg IN
    /\ wk[w].pc = "disown"
    /\ \/ leg' = [leg EXCEPT ![l].status = IF @ = "triggering" THEN "pending" ELSE @]
       \/ MayFail /\ UNCHANGED leg
    /\ Done(w)
    /\ UNCHANGED <<status, reserved, order, funds, cl, rp, crashes>>

-----------------------------------------------------------------------------
(* Recovery *)

\* Between its parent claim and the end of its fire, a worker that has not
\* placed its order.
Owns(w) == wk[w].pc \in {"owned", "released", "blocked",
                         "failed", "restored", "unfunded", "revert"}

Scanning(gs) == [pc |-> IF gs = {} THEN "idle" ELSE "scan", todo |-> gs,
                 gtt |-> NoLeg, kept |-> 0, need |-> 0]

\* reclaim_stranded_legs: claims older than the timeout (any of them may be, a
\* live one too) go back to pending; reclaim_stranded_parents then lists the
\* triggered GTTs.  Quiet operation keeps it out of the window Owns describes,
\* which nothing in the code does.
ReapLegs ==
    /\ rp.pc = "idle"
    /\ "live_reaper" \in Faults \/ \A w \in Worker : ~Owns(w)
    /\ \E old \in SUBSET {l \in Leg : leg[l].status = "triggering"} :
         leg' = [l \in Leg |-> IF l \in old
                               THEN [leg[l] EXCEPT !.status = "pending"]
                               ELSE leg[l]]
    /\ rp' = Scanning({g \in Gtt : status[g] = "triggered"})
    /\ UNCHANGED <<status, reserved, order, funds, wk, cl, crashes>>

\* slip: the marker alone is evidence, or only unclaimed legs are unresolved
MarkerOnly(g) == {l \in LegsOf(g) : leg[l].marked}
AllPending(g) == \A l \in LegsOf(g) : leg[l].status = "pending"

\* A child order that was not rejected proves that the GTT fired.
Evidence(g) == {l \in LegsOf(g) : order[l].status \notin {"none", "rejected"}}
Unresolved(g) ==
    \E l \in LegsOf(g) : leg[l].status \in {"pending", "triggering"}

NextGtt(g) == Scanning(rp.todo \ {g})

\* One GTT of the list: already marked, to be finalised, resolved, or stranded.
ReapRead(g) ==
    /\ rp.pc = "scan"
    /\ g \in rp.todo
    /\ \/ /\ \/ \E l \in LegsOf(g) : leg[l].marked
             \/ Evidence(g) = {} /\ ~Unresolved(g)
          /\ rp' = NextGtt(g)
          /\ UNCHANGED leg
       \/ /\ \A l \in LegsOf(g) : ~leg[l].marked
          /\ \E l \in Evidence(g) :
               leg' = [leg EXCEPT ![l] = Triggered(l)]
          /\ rp' = NextGtt(g)
       \/ /\ \A l \in LegsOf(g) : ~leg[l].marked
          /\ Evidence(g) = {}
          /\ Unresolved(g)
          /\ LET need == IF reserved[g] > 0 THEN 0 ELSE LargestLeg(g) IN
               rp' = [pc |-> IF need = 0 THEN "rearm" ELSE "block",
                      todo |-> rp.todo, gtt |-> g, kept |-> reserved[g], need |-> need]
          /\ UNCHANGED leg
    /\ UNCHANGED <<status, reserved, order, funds, wk, cl, crashes>>

\* block_margin, for a reservation that the fire had released.
RecoverRead ==
    /\ rp.pc = "block"
    /\ Take("reap", NoLeg, rp.need)
    /\ UNCHANGED <<rows, wk, cl, rp, crashes>>

ReapBlock ==
    /\ rp.pc = "block"
    /\ \/ /\ Holds("reap", NoLeg)
          /\ Write
          /\ rp' = [rp EXCEPT !.pc = "rearm"]
          /\ UNCHANGED status
       \/ /\ Short(rp.need)
          /\ status' = [status EXCEPT ![rp.gtt] = "rejected"]
          /\ rp' = NextGtt(rp.gtt)
    /\ UNCHANGED <<reserved, leg, order, wk, cl, crashes>>

\* Back to active, if it is still triggered; its claimed legs go back anyway.
ReapRearm ==
    LET g == rp.gtt IN
    /\ rp.pc = "rearm"
    /\ IF status[g] = "triggered"
       THEN /\ status' = [status EXCEPT ![g] = "active"]
            /\ reserved' = [reserved EXCEPT ![g] =
                              IF rp.kept > 0 THEN rp.kept ELSE rp.need]
       ELSE UNCHANGED <<status, reserved>>
    /\ leg' = [l \in Leg |->
                 IF l \in LegsOf(g) /\ leg[l].status = "triggering"
                 THEN [leg[l] EXCEPT !.status = "pending"]
                 ELSE leg[l]]
    /\ rp' = NextGtt(g)
    /\ UNCHANGED <<order, funds, wk, cl, crashes>>

-----------------------------------------------------------------------------
(* The rest of the sandbox, as far as GTTs depend on it *)

CancelRead(l) ==
    /\ order[l].status = "open"
    /\ order[l].margin > 0
    /\ Take("cancel", l, -order[l].margin)
    /\ UNCHANGED <<rows, wk, cl, rp, crashes>>

\* cancel_order on a resting child: the margin the row recorded is
\* released in the commit that closes it, if the ledger allows it.  (A margin
\* of 0 here is a CNC sell, which releases nothing; other orders that blocked
\* nothing, and cancels that overlap, are in SandboxLedger.)
CancelChild(l) ==
    /\ \/ Holds("cancel", l) /\ Write
       \/ order[l].status = "open" /\ order[l].margin > 0 /\ Short(-order[l].margin)
       \/ order[l].status = "open" /\ order[l].margin = 0 /\ UNCHANGED funds
    /\ order' = [order EXCEPT ![l] = [status |-> "cancelled", margin |-> 0]]
    /\ UNCHANGED <<status, reserved, leg, wk, cl, rp, crashes>>

\* _execute_order raised before its trade was committed: the row becomes
\* rejected, keeps its gtt_leg_id, and keeps its margin blocked.
FillFails(l) ==
    /\ "fill_fails" \in Faults
    /\ order[l].status = "open"
    /\ "late_cancel" \in Faults \/ ~Holds("cancel", l)
    /\ order' = [order EXCEPT ![l].status = "rejected"]
    /\ UNCHANGED <<status, reserved, leg, funds, wk, cl, rp, crashes>>

\* _reset_funds: a new account; positions and holdings are deleted, orders and
\* GTTs stay.
ResetFunds ==
    /\ "funds_reset" \in Faults
    /\ turn.role = "free"
    /\ avail' = Capital
    /\ used' = 0
    /\ UNCHANGED <<turn, raced>>
    /\ UNCHANGED <<rows, wk, cl, rp, crashes>>

\* The process dies; only committed rows survive.
Crash ==
    /\ crashes < MaxCrash
    /\ crashes' = crashes + 1
    /\ wk' = [w \in Worker |-> IdleWorker]
    /\ cl' = [c \in Client |-> IdleClient]
    /\ rp' = IdleReaper
    /\ turn' = Free
    /\ UNCHANGED <<rows, avail, used, raced>>

-----------------------------------------------------------------------------
ClientOps == {"cancel", "modify", "expire"}

ClientStep(c) ==
    \/ \E g \in Gtt, op \in ClientOps : Read(c, op, g)
    \/ Cancel(c)
    \/ Modify(c)
    \/ Expire(c)

Fire(w) ==
    \/ Claim(w)
    \/ ClaimParent(w)
    \/ Release(w)
    \/ PlaceBlock(w)
    \/ PlaceInsert(w)
    \/ Mark(w)
    \/ Restore(w)
    \/ Persist(w)
    \/ Reject(w)
    \/ RevertParent(w)
    \/ RevertClaim(w)

Reap ==
    \/ ReapLegs
    \/ \E g \in Gtt : ReapRead(g)
    \/ ReapBlock
    \/ ReapRearm

ReadFunds ==
    \/ \E w \in Worker : BlockRead(w) \/ RestoreRead(w)
    \/ RecoverRead
    \/ \E l \in Leg : CancelRead(l)

Next ==
    \/ \E g \in Gtt : Place(g)
    \/ \E c \in Client : ClientStep(c)
    \/ \E w \in Worker, l \in Leg : Observe(w, l)
    \/ \E w \in Worker : Fire(w)
    \/ Reap
    \/ ReadFunds
    \/ \E l \in Leg : CancelChild(l)
    \/ \E l \in Leg : FillFails(l)
    \/ ResetFunds
    \/ Crash

Spec == Init /\ [][Next]_vars

-----------------------------------------------------------------------------
\* The shape of the rows and of what each thread remembers; a thread that is on
\* its way has a row in hand.
TypeOK ==
    /\ status \in [Gtt -> GttStatus]
    /\ reserved \in [Gtt -> Nat]
    /\ leg \in [Leg -> [status : LegStatus, margin : Nat, marked : BOOLEAN]]
    /\ order \in [Leg -> [status : OrderStatus, margin : Nat]]
    /\ avail \in Nat
    /\ used \in Nat
    /\ turn \in [role : {"free", "fire", "reap", "cancel"}, by : Worker \cup Leg \cup {NoLeg},
                 delta : Int, was : Nat, avail : Nat, used : Nat]
    /\ raced \in BOOLEAN
    /\ wk \in [Worker -> [pc : WorkerPC, leg : Leg \cup {NoLeg}, freed : Nat, held : Nat]]
    /\ cl \in [Client -> [op : ClientOps \cup {"idle"}, gtt : Gtt \cup {NoLeg},
                          seen : Nat]]
    /\ rp \in [pc : {"idle", "scan", "block", "rearm"}, todo : SUBSET Gtt,
               gtt : Gtt \cup {NoLeg}, kept : Nat, need : Nat]
    /\ crashes \in 0 .. MaxCrash
    /\ \A w \in Worker : wk[w].pc # "idle" => wk[w].leg \in Leg
    /\ \A c \in Client : cl[c].op # "idle" => cl[c].gtt \in Gtt
    /\ turn.role = "fire" => turn.delta > 0
    /\ rp.pc \in {"block", "rearm"} => rp.gtt \in rp.todo

-----------------------------------------------------------------------------
(* Exactly once *)

Fired(g) == {l \in LegsOf(g) : order[l].status \notin {"none", "rejected"}}

\* "Firing must happen exactly once" and an OCO's legs exclude each other: no
\* interleaving of evaluators, requests, recovery and crashes places orders for
\* two legs of one GTT.
FiresOnce == \A g \in Gtt : Cardinality(Fired(g)) <= 1

\* A worker on its way to place_order's INSERT owns the parent row, alone, so
\* that a cancel or an expiry that reported success is never followed by an
\* order.
Placing(w) == wk[w].pc \in {"owned", "released", "blocked"}
OwnerIsAlone ==
    \A w \in Worker : Placing(w) =>
        /\ status[Parent(wk[w].leg)] = "triggered"
        /\ \A v \in Worker \ {w} :
             Owns(v) => Parent(wk[v].leg) # Parent(wk[w].leg)

\* What exclusion rests on: only the owner of a triggered GTT, or the reaper once
\* no owner is left, may decide it, and neither does once its order is placed.
\* Leg statuses play no part.
Exclusive ==
    /\ \A w \in Worker : Owns(w) =>
         /\ status[Parent(wk[w].leg)] = "triggered"
         /\ Fired(Parent(wk[w].leg)) = {}
         /\ \A v \in Worker \ {w} :
              Owns(v) => Parent(wk[v].leg) # Parent(wk[w].leg)
    /\ \A g \in rp.todo :
         /\ status[g] = "triggered"
         /\ \A w \in Worker : Owns(w) => Parent(wk[w].leg) # g
    /\ rp.pc \in {"block", "rearm"} => Fired(rp.gtt) = {}
    /\ \A g \in Gtt : Fired(g) # {} => status[g] = "triggered"
    /\ \A g \in Gtt : \A k, l \in Fired(g) : k = l

\* A GTT that ended without firing has no order and gets none later, and it
\* never changes again.
Withdrawn == {"cancelled", "expired", "rejected"}
WithdrawnIsFinal ==
    [][\A g \in Gtt : status[g] \in Withdrawn =>
          status'[g] = status[g] /\ Fired(g)' = {}]_vars

\* Once an order is in the book its GTT stays triggered: no recovery re-arms it
\* and no failure path hands it back, even when the leg was never marked.
FiredIsFinal ==
    [][\A g \in Gtt : Fired(g) # {} =>
          status'[g] = "triggered" /\ Fired(g)' = Fired(g)]_vars

\* A leg is never marked with an order that is not in the book.
MarkedHasOrder == \A l \in Leg : leg[l].marked => order[l].status # "none"

\* What a cancel or an expiry releases is what the row holds when it is claimed.
ReleasesWhatIsHeld ==
    [][\A c \in Client :
          LET g == cl[c].gtt IN
          cl[c].op \in {"cancel", "expire"} /\ status[g] = "active"
                /\ status'[g] \in {"cancelled", "expired"} /\ cl'[c] = IdleClient
            => cl[c].seen = reserved[g]]_vars

-----------------------------------------------------------------------------
(* Money *)

\* The sum of some amounts, counted unit by unit.
Units(amount) == UNION {{x} \X (1 .. amount[x]) : x \in DOMAIN amount}
Sum(amount) == Cardinality(Units(amount))

\* Margin that some row, or some thread on its way to writing a row, stands for.
InFlight(w) == wk[w].held + (IF wk[w].pc = "restored" THEN wk[w].freed ELSE 0)
InRecovery == IF rp.pc = "rearm" THEN rp.need ELSE 0
Owned ==
    Sum(reserved) + Sum([l \in Leg |-> order[l].margin])
        + Sum([w \in Worker |-> InFlight(w)]) + InRecovery

\* Every rupee of used_margin belongs to a GTT, to its child order or to a step
\* in progress, as long as the process has not died between two commits. A
\* crash may strand margin but never invents it: what the rows claim is always
\* backed, so every release they ask for can be made.
Backed ==
    /\ Owned <= used
    /\ crashes = 0 => used = Owned

\* The ledger is exact through fires, requests, cancels, recovery and crashes
\* until a block or a release that was reading writes its balances over a move
\* staged meanwhile; that lost update is the only thing that unbalances it.
LedgerExact == raced \/ Backed

\* The two sides of the ledger move together.
Conserved == avail + used = Capital

\* "An active GTT with no margin is a trap": an armed GTT holds exactly what its
\* legs and the OCO margin mode ask for, and its pending legs can still order:
\* the unique gtt_leg_id column holds no earlier row that would refuse the next.
ArmedIsFunded ==
    \A g \in Gtt : status[g] = "active" =>
        /\ reserved[g] = Blocked(g, [l \in LegsOf(g) |-> leg[l].margin])
        /\ \A l \in LegsOf(g) : leg[l].status = "pending" => order[l].status = "none"

-----------------------------------------------------------------------------
(* Refinement *)

Outcome(g) ==
    CASE Fired(g) # {} -> "fired"
      [] status[g] = "none" -> "none"
      [] status[g] \in Withdrawn -> "withdrawn"
      [] OTHER -> "armed"

Promise == INSTANCE GTTPromise WITH
    outcome <- [g \in Gtt |-> Outcome(g)],
    fired <- [g \in Gtt |-> Fired(g)]

PromiseKept == Promise!PSpec

-----------------------------------------------------------------------------
(* Recovery ends.  The evaluators' steps, once begun, and the maintenance      *)
(* thread's sweeps are loops of daemon threads; a cancel that holds the lock of *)
(* the funds goes on to let it go, and a sweep that waits for it gets it when  *)
(* it is free again and again (SF); Observe is the market's doing,             *)
(* and nothing obliges it.  Crashes are bounded.                               *)

FairSpec ==
    /\ Spec
    /\ \A w \in Worker : WF_vars(Fire(w) \/ BlockRead(w) \/ RestoreRead(w))
    /\ SF_vars(Reap \/ RecoverRead)
    /\ WF_vars(\E l \in Leg : Holds("cancel", l) /\ CancelChild(l))

\* A fire that a crash interrupted is finished, undone or rejected in the end.
StrandedRecovers ==
    \A g \in Gtt : (status[g] = "triggered" /\ Fired(g) = {})
                      ~> (status[g] # "triggered" \/ Fired(g) # {})
=============================================================================
