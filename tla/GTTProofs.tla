----------------------------- MODULE GTTProofs -----------------------------
(***************************************************************************)
(* What GTT guarantees for every set of GTTs, threads, margins and crashes.*)
(* Type correctness, conservation and the markers hold under every fault;  *)
(* exclusion needs what Orderly says of the reaper and of orders, finality  *)
(* also that no order is rejected.  That each armed GTT is funded needs    *)
(* besides that commits do not fail, and the exact ledger that requests    *)
(* come one at a time, that the account is not reset, and that no block or *)
(* release of FundManager wrote over a move it had not read.               *)
(***************************************************************************)
EXTENDS GTT, FiniteSetTheorems, TLAPS

-----------------------------------------------------------------------------
(* Rows and money *)

LEMMA LegShape ==
    /\ \A l \in Leg : Parent(l) \in Gtt /\ l \in LegsOf(Parent(l))
    /\ \A g \in Gtt : LegsOf(g) \subseteq Leg /\ <<g, 1>> \in LegsOf(g)
    /\ \A g \in Oco : <<g, 2>> \in LegsOf(g)
BY GTTAssumption DEF Leg, LegsOf, Parent, GTTAssumption

\* What a GTT must reserve is a natural number.
LEMMA BlockedNat ==
    ASSUME NEW g \in Gtt, NEW m \in [LegsOf(g) -> Margin]
    PROVE  Blocked(g, m) \in Nat
<1>1. Margin \subseteq Nat
  BY GTTAssumption DEF GTTAssumption
<1>2. m[<<g, 1>>] \in Nat
  BY <1>1, LegShape
<1>3. g \in Oco => m[<<g, 2>>] \in Nat
  BY <1>1, LegShape
<1> QED
  BY <1>2, <1>3 DEF Blocked, Larger

FundsOK ==
    /\ avail \in Nat
    /\ used \in Nat
    /\ turn \in [role : {"free", "fire", "reap", "cancel"}, by : Worker \cup Leg \cup {NoLeg},
                 delta : Int, was : Nat, avail : Nat, used : Nat]
    /\ turn.role = "fire" => turn.delta > 0
    /\ raced \in BOOLEAN

\* The two sides of the ledger add up to what they did before, and so does what
\* the holder of the lock will write; or that is what they now are.
Steady ==
    \/ /\ avail' + used' = avail + used
       /\ turn' = turn \/ turn' = Free \/ turn'.avail + turn'.used = avail + used
    \/ turn.role # "free" /\ avail' = turn.avail /\ used' = turn.used /\ turn' = Free

\* A move that passed its check leaves both sides natural, whichever way it is made.
LEMMA FundsSafe ==
    ASSUME TypeOK,
           \/ UNCHANGED funds
           \/ LetGo
           \/ turn.role # "free" /\ Write
           \/ \E d \in Int : CanMove(d) /\ Move(d)
           \/ \E r \in {"fire", "reap", "cancel"}, x \in Worker \cup Leg \cup {NoLeg},
                 d \in Int : Take(r, x, d) /\ (r = "fire" => d > 0)
    PROVE  FundsOK' /\ Steady
<1>a. FundsOK
  BY DEF TypeOK, FundsOK
<1>f. /\ Free \in [role : {"free", "fire", "reap", "cancel"}, by : Worker \cup Leg \cup {NoLeg},
                  delta : Int, was : Nat, avail : Nat, used : Nat]
      /\ Free.role # "fire"
  BY DEF Free
<1>1. CASE UNCHANGED funds
  BY <1>a, <1>1 DEF funds, FundsOK, Steady
<1>2. CASE LetGo
  BY <1>a, <1>f, <1>2 DEF LetGo, FundsOK, Steady
<1>3. CASE turn.role # "free" /\ Write
  BY <1>a, <1>f, <1>3 DEF Write, FundsOK, Steady
<1>4. ASSUME NEW d \in Int, CanMove(d), Move(d)
      PROVE  FundsOK' /\ Steady
  BY <1>a, <1>4 DEF CanMove, Move, FundsOK, Steady
<1>5. ASSUME NEW r \in {"fire", "reap", "cancel"}, NEW x \in Worker \cup Leg \cup {NoLeg},
             NEW d \in Int, Take(r, x, d), r = "fire" => d > 0
      PROVE  FundsOK' /\ Steady
  <2>1. avail \in Nat /\ used \in Nat /\ avail - d \in Nat /\ used + d \in Nat
    BY <1>a, <1>5 DEF Take, CanMove, FundsOK
  <2>2. /\ turn' = [role |-> r, by |-> x, delta |-> d, was |-> used,
                    avail |-> avail - d, used |-> used + d]
        /\ avail' = avail /\ used' = used /\ raced' = raced
    BY <1>5 DEF Take
  <2>3. turn'.avail + turn'.used = avail + used
    BY <2>1, <2>2
  <2> QED
    <3>1. turn' \in [role : {"free", "fire", "reap", "cancel"}, by : Worker \cup Leg \cup {NoLeg},
                     delta : Int, was : Nat, avail : Nat, used : Nat]
      BY <2>1, <2>2
    <3>2. turn'.role = "fire" => turn'.delta > 0
      BY <1>5, <2>2
    <3>3. Steady
      BY <2>2, <2>3 DEF Steady
    <3> QED
      BY <1>a, <2>2, <3>1, <3>2, <3>3 DEF FundsOK
<1> QED
  BY <1>1, <1>2, <1>3, <1>4, <1>5

Rows == [status : LegStatus, margin : Nat, marked : BOOLEAN]
Task == [pc : WorkerPC, leg : Leg \cup {NoLeg}, freed : Nat, held : Nat]

\* The initial state has the shape of TypeOK.
LEMMA TypeInit == Init => TypeOK
<1> SUFFICES ASSUME Init PROVE TypeOK
  OBVIOUS
<1>1. FundsOK
  <2>1. avail = Capital /\ used = 0 /\ turn = Free /\ raced = FALSE
    BY DEF Init
  <2>2. /\ Free \in [role : {"free", "fire", "reap", "cancel"}, by : Worker \cup Leg \cup {NoLeg},
                    delta : Int, was : Nat, avail : Nat, used : Nat]
        /\ Free.role # "fire"
    BY DEF Free
  <2> QED
    BY <2>1, <2>2, GTTAssumption DEF GTTAssumption, FundsOK
<1>2. /\ wk \in [Worker -> [pc : WorkerPC, leg : Leg \cup {NoLeg}, freed : Nat, held : Nat]]
      /\ \A w \in Worker : wk[w].pc = "idle"
  BY DEF Init, IdleWorker, WorkerPC
<1>3. /\ cl \in [Client -> [op : ClientOps \cup {"idle"}, gtt : Gtt \cup {NoLeg}, seen : Nat]]
      /\ \A c \in Client : cl[c].op = "idle"
  BY DEF Init, IdleClient
<1>4. status \in [Gtt -> GttStatus] /\ reserved \in [Gtt -> Nat] /\ crashes \in 0 .. MaxCrash
  BY GTTAssumption DEF GTTAssumption, Init, GttStatus
<1>5. /\ leg \in [Leg -> [status : LegStatus, margin : Nat, marked : BOOLEAN]]
      /\ order \in [Leg -> [status : OrderStatus, margin : Nat]]
  BY DEF Init, LegStatus, OrderStatus
<1>6. /\ rp \in [pc : {"idle", "scan", "block", "rearm"}, todo : SUBSET Gtt,
                 gtt : Gtt \cup {NoLeg}, kept : Nat, need : Nat]
      /\ rp.pc = "idle"
  BY DEF Init, IdleReaper
<1> QED
  BY <1>1, <1>2, <1>3, <1>4, <1>5, <1>6 DEF TypeOK, FundsOK

\* Requests keep it.
LEMMA TypeRequest ==
    ASSUME TypeOK, \/ \E g \in Gtt : Place(g)
                   \/ \E c \in Client : ClientStep(c)
    PROVE  TypeOK' /\ Steady
<1> USE GTTAssumption DEF GTTAssumption
<1>1. CASE \E g \in Gtt : Place(g)
  <2> PICK g \in Gtt : Place(g)
    BY <1>1
  <2> PICK m \in [LegsOf(g) -> Margin] :
        /\ CanMove(Blocked(g, m))
        /\ Move(Blocked(g, m))
        /\ reserved' = [reserved EXCEPT ![g] = Blocked(g, m)]
        /\ leg' = [l \in Leg |->
                     IF l \in LegsOf(g)
                     THEN [status |-> "pending", margin |-> m[l], marked |-> FALSE]
                     ELSE leg[l]]
    BY DEF Place
  <2>1. Blocked(g, m) \in Nat
    BY BlockedNat
  <2>2. FundsOK' /\ Steady
    BY <2>1, FundsSafe
  <2>3. leg' \in [Leg -> Rows]
    BY DEF TypeOK, Rows, LegStatus
  <2> QED
    BY <2>1, <2>2, <2>3 DEF TypeOK, FundsOK, Place, GttStatus, Rows
<1>2. ASSUME NEW c \in Client, NEW g \in Gtt, NEW op \in ClientOps, Read(c, op, g)
      PROVE  TypeOK' /\ Steady
  BY <1>2 DEF Steady, TypeOK, Read, rows, funds, ClientOps
<1>3. ASSUME NEW c \in Client, NEW op \in ClientOps, NEW outcome \in GttStatus,
             NEW closes, Withdraw(c, op, outcome, closes)
      PROVE  TypeOK' /\ Steady
  <2>1. cl[c].gtt \in Gtt /\ cl[c].seen \in Nat /\ -cl[c].seen \in Int
    BY <1>3 DEF TypeOK, Withdraw, ClientOps
  <2>2. FundsOK' /\ Steady
    BY <1>3, <2>1, FundsSafe DEF Withdraw
  <2>3. leg' \in [Leg -> Rows]
    <3>1. CASE leg' = leg
      BY <3>1 DEF TypeOK, Rows
    <3>2. CASE leg' = [l \in Leg |->
                         IF l \in LegsOf(cl[c].gtt) /\ leg[l].status \in closes
                         THEN [leg[l] EXCEPT !.status = "cancelled"]
                         ELSE leg[l]]
      BY <3>2 DEF TypeOK, Rows, LegStatus
    <3> QED
      BY <1>3, <3>1, <3>2 DEF Withdraw
  <2>4. /\ status' = status \/ status' = [status EXCEPT ![cl[c].gtt] = outcome]
        /\ reserved' = reserved \/ reserved' = [reserved EXCEPT ![cl[c].gtt] = 0]
    BY <1>3 DEF Withdraw
  <2>5. status' \in [Gtt -> GttStatus] /\ reserved' \in [Gtt -> Nat]
    BY <2>4 DEF TypeOK
  <2> QED
    BY <1>3, <2>2, <2>3, <2>5 DEF TypeOK, FundsOK, Withdraw, IdleClient, Rows
<1>4. ASSUME NEW c \in Client, Modify(c)
      PROVE  TypeOK' /\ Steady
  <2>1. PICK g \in Gtt : g = cl[c].gtt
    BY <1>4 DEF TypeOK, Modify
  <2>2. cl[c].seen \in Nat
    BY DEF TypeOK
  <2>3. PICK m \in [LegsOf(g) -> Margin] :
          \/ UNCHANGED <<reserved, leg, funds>>
          \/ /\ CanMove(Blocked(g, m) - cl[c].seen)
             /\ Move(Blocked(g, m) - cl[c].seen)
             /\ reserved' = [reserved EXCEPT ![g] = Blocked(g, m)]
             /\ leg' = [l \in Leg |->
                          IF l \in LegsOf(g)
                          THEN [status |-> leg[l].status, margin |-> m[l], marked |-> leg[l].marked]
                          ELSE leg[l]]
    BY <1>4, <2>1 DEF Modify
  <2>4. Blocked(g, m) \in Nat
    BY BlockedNat
  <2>5. CASE UNCHANGED <<reserved, leg, funds>>
    BY <1>4, <2>5 DEF Steady, TypeOK, Modify, IdleClient, funds
  <2>6. CASE /\ CanMove(Blocked(g, m) - cl[c].seen)
             /\ Move(Blocked(g, m) - cl[c].seen)
             /\ reserved' = [reserved EXCEPT ![g] = Blocked(g, m)]
             /\ leg' = [l \in Leg |->
                          IF l \in LegsOf(g)
                          THEN [status |-> leg[l].status, margin |-> m[l], marked |-> leg[l].marked]
                          ELSE leg[l]]
    <3>0. Blocked(g, m) - cl[c].seen \in Int
      BY <2>2, <2>4
    <3>1. FundsOK' /\ Steady
      BY <2>6, <3>0, FundsSafe
    <3>2. \A l \in LegsOf(g) : m[l] \in Nat
      OBVIOUS
    <3>3. leg' = [l \in Leg |->
                    IF l \in LegsOf(g)
                    THEN [status |-> leg[l].status, margin |-> m[l], marked |-> leg[l].marked]
                    ELSE leg[l]]
      BY <2>6
    <3>4. leg' \in [Leg -> Rows]
      BY <3>2, <3>3 DEF TypeOK, Rows
    <3>5. reserved' \in [Gtt -> Nat]
      BY <2>4, <2>6 DEF TypeOK
    <3> QED
      BY <1>4, <3>1, <3>4, <3>5 DEF TypeOK, FundsOK, Modify, IdleClient, Rows
  <2> QED
    BY <2>3, <2>5, <2>6
<1> QED
  BY <1>1, <1>2, <1>3, <1>4 DEF ClientStep, Cancel, Expire, ClientOps, GttStatus

LEMMA LargestNat ==
    ASSUME TypeOK, NEW g \in Gtt
    PROVE  LargestLeg(g) \in Nat
<1>1. leg[<<g, 1>>].margin \in Nat
  BY LegShape DEF TypeOK
<1>2. g \in Oco => leg[<<g, 2>>].margin \in Nat
  BY LegShape DEF TypeOK
<1> QED
  BY <1>1, <1>2 DEF LargestLeg, Larger

WorkersOK ==
    /\ wk \in [Worker -> Task]
    /\ \A w \in Worker : wk[w].pc # "idle" => wk[w].leg \in Leg

\* Moving a worker that has a leg in hand, or letting it go, keeps its record whole.
LEMMA WorkerMoves ==
    ASSUME WorkersOK, NEW w \in Worker, wk[w].pc # "idle",
           \/ \E pc \in WorkerPC : Goto(w, pc)
           \/ \E pc \in WorkerPC, freed, held \in Nat : Carry(w, pc, freed, held)
           \/ Done(w)
    PROVE  WorkersOK'
<1> DEFINE Kept(t) == t \in Task /\ (t.pc # "idle" => t.leg \in Leg)
<1>1. \A v \in Worker : Kept(wk[v])
  BY DEF WorkersOK
<1>2. ASSUME NEW t, Kept(t), wk' = [wk EXCEPT ![w] = t]
      PROVE  WorkersOK'
  BY <1>2 DEF WorkersOK
<1>3. ASSUME NEW pc \in WorkerPC, Goto(w, pc)
      PROVE  WorkersOK'
  <2>1. wk' = [wk EXCEPT ![w] = [wk[w] EXCEPT !.pc = pc]]
    BY <1>3 DEF Goto
  <2>2. Kept([wk[w] EXCEPT !.pc = pc])
    BY <1>1 DEF Task
  <2> QED
    BY <1>2, <2>1, <2>2
<1>4. ASSUME NEW pc \in WorkerPC, NEW freed \in Nat, NEW held \in Nat,
             Carry(w, pc, freed, held)
      PROVE  WorkersOK'
  <2>1. Kept([pc |-> pc, leg |-> wk[w].leg, freed |-> freed, held |-> held])
    BY <1>1 DEF Task
  <2> QED
    BY <1>2, <1>4, <2>1 DEF Carry
<1>5. CASE Done(w)
  <2>1. Kept(IdleWorker)
    BY DEF Task, IdleWorker, WorkerPC
  <2> QED
    BY <1>2, <1>5, <2>1 DEF Done
<1> QED
  BY <1>3, <1>4, <1>5

\* The steps of a fire and of its undoing keep it.
LEMMA TypeFire ==
    ASSUME TypeOK, NEW w \in Worker, Fire(w)
    PROVE  TypeOK' /\ Steady
<1> DEFINE l == wk[w].leg
           g == Parent(l)
<1>a. WorkersOK
  BY DEF TypeOK, WorkersOK, Task
<1>b. wk[w].pc # "idle" /\ l \in Leg /\ g \in Gtt
  BY <1>a, LegShape DEF WorkersOK, Fire, Claim, ClaimParent, Release, PlaceBlock,
       PlaceInsert, Mark, Restore, Persist, Reject, RevertParent, RevertClaim
<1>c. /\ wk[w].freed \in Nat /\ wk[w].held \in Nat /\ reserved[g] \in Nat
      /\ \A k \in Leg : leg[k] \in Rows
      /\ Holds("fire", w) => turn.delta \in Nat
  BY <1>a, <1>b DEF Holds, TypeOK, WorkersOK, Task, Rows
<1>d. WorkersOK'
  <2>1. \/ \E pc \in {"claimed", "owned", "disown", "revert", "failed", "unfunded", "restored"} :
             Goto(w, pc)
        \/ \E pc \in {"released", "blocked", "placed", "failed"},
              freed \in {wk[w].freed, reserved[g]}, held \in {0, wk[w].held} :
             Carry(w, pc, freed, held)
        \/ Holds("fire", w) /\ Carry(w, "blocked", wk[w].freed, turn.delta)
        \/ Done(w)
    BY DEF Fire, Claim, ClaimParent, Release, PlaceBlock, PlaceInsert, Mark, Restore,
           Persist, Reject, RevertParent, RevertClaim
  <2> QED
    BY <1>a, <1>b, <1>c, <2>1, WorkerMoves DEF WorkerPC
<1>e. FundsOK' /\ Steady
  <2>1. -reserved[g] \in Int
    BY <1>c
  <2>2. \/ UNCHANGED funds
        \/ CanMove(-reserved[g]) /\ Move(-reserved[g])
        \/ LetGo
        \/ turn.role # "free" /\ Write
    BY DEF Fire, Claim, ClaimParent, Release, PlaceBlock, PlaceInsert, Mark, Restore,
           Persist, Reject, RevertParent, RevertClaim, Holds, Short
  <2> QED
    BY <2>1, <2>2, FundsSafe
<1>f. leg' \in [Leg -> Rows]
  <2>1. CASE UNCHANGED leg
    BY <2>1 DEF TypeOK, Rows
  <2>2. CASE \E s \in LegStatus : leg' = [leg EXCEPT ![l].status = s]
    BY <1>b, <1>c, <2>2 DEF TypeOK, Rows
  <2>3. CASE leg' = [k \in Leg |->
                       IF k = l THEN Triggered(k)
                       ELSE IF k \in Siblings(l)
                               /\ leg[k].status \in {"pending", "triggering"}
                            THEN [leg[k] EXCEPT !.status = "cancelled"]
                            ELSE leg[k]]
    BY <1>c, <2>3 DEF Triggered, Rows, LegStatus
  <2>4. CASE RevertClaim(w)
    <3>1. leg[l].status \in LegStatus
      BY <1>b, <1>c DEF Rows
    <3>2. \/ UNCHANGED leg
          \/ leg' = [leg EXCEPT ![l].status =
                       IF leg[l].status = "triggering" THEN "pending" ELSE leg[l].status]
      BY <1>b, <2>4 DEF RevertClaim, TypeOK
    <3> QED
      BY <2>1, <2>2, <3>1, <3>2 DEF LegStatus
  <2> QED
    BY <2>1, <2>2, <2>3, <2>4
       DEF Fire, Claim, ClaimParent, Release, PlaceBlock, PlaceInsert, Mark, Restore,
           Persist, Reject, RevertParent, LegStatus, rows
<1>g. status' \in [Gtt -> GttStatus] /\ reserved' \in [Gtt -> Nat]
  <2>1. \/ UNCHANGED <<status, reserved>>
        \/ UNCHANGED status /\ \E b \in {0, wk[w].freed} : reserved' = [reserved EXCEPT ![g] = b]
        \/ UNCHANGED reserved /\ status' = [status EXCEPT ![g] = "triggered"]
        \/ Reject(w) /\ UNCHANGED order
        \/ RevertParent(w) /\ UNCHANGED order
    BY DEF Fire, Claim, ClaimParent, Release, PlaceBlock, PlaceInsert, Mark, Restore,
           Persist, Reject, RevertParent, RevertClaim, rows
  <2>2. CASE Reject(w)
    <3> PICK h \in Gtt : h = g
      BY <1>b
    <3>1. \/ UNCHANGED <<status, reserved>>
          \/ /\ status' = [status EXCEPT ![h] = "rejected"]
             /\ reserved' = [reserved EXCEPT ![h] = 0]
      BY <2>2 DEF Reject
    <3> QED
      BY <3>1 DEF TypeOK, GttStatus
  <2>3. CASE RevertParent(w)
    <3>1. \/ UNCHANGED status
          \/ \E x \in {"active", status[g]} : status' = [status EXCEPT ![g] = x]
      BY <1>b, <2>3 DEF RevertParent, TypeOK
    <3>2. status[g] \in GttStatus /\ "active" \in GttStatus
      BY <1>b DEF TypeOK, GttStatus
    <3> QED
      BY <1>b, <2>3, <3>1, <3>2 DEF RevertParent, TypeOK
  <2> QED
    BY <1>b, <1>c, <2>1, <2>2, <2>3 DEF TypeOK, GttStatus
<1>h. order' \in [Leg -> [status : OrderStatus, margin : Nat]]
  <2>1. \/ UNCHANGED order
        \/ order' = [order EXCEPT ![l] = [status |-> "open", margin |-> wk[w].held]]
    BY DEF Fire, Claim, ClaimParent, Release, PlaceBlock, PlaceInsert, Mark, Restore,
           Persist, Reject, RevertParent, RevertClaim, rows
  <2> QED
    BY <1>c, <2>1 DEF TypeOK, OrderStatus
<1>i. UNCHANGED <<cl, rp, crashes>>
  BY DEF Fire, Claim, ClaimParent, Release, PlaceBlock, PlaceInsert, Mark, Restore,
         Persist, Reject, RevertParent, RevertClaim
<1> QED
  BY <1>d, <1>e, <1>f, <1>g, <1>h, <1>i DEF TypeOK, FundsOK, WorkersOK, Task, Rows

\* Recovery keeps it.
LEMMA TypeReap ==
    ASSUME TypeOK, Reap
    PROVE  TypeOK' /\ Steady
<1> USE GTTAssumption DEF GTTAssumption, rows, funds
<1>r. \A l \in Leg : leg[l] \in Rows
  BY DEF TypeOK, Rows
<1>1. CASE ReapLegs
  <2>1. leg' \in [Leg -> Rows]
    BY <1>1, <1>r DEF ReapLegs, Rows, LegStatus
  <2> QED
    BY <1>1, <2>1 DEF Steady, funds, ReapLegs, Scanning, TypeOK, Rows
<1>2. ASSUME NEW g \in Gtt, ReapRead(g)
      PROVE  TypeOK' /\ Steady
  <2>1. reserved[g] \in Nat /\ LargestLeg(g) \in Nat /\ rp.todo \subseteq Gtt
    BY LargestNat DEF TypeOK
  <2>2. leg' \in [Leg -> Rows]
    <3>1. \/ UNCHANGED leg
          \/ \E l \in Leg : leg' = [leg EXCEPT ![l] = Triggered(l)]
      BY <1>2, LegShape DEF ReapRead, Evidence
    <3>2. leg \in [Leg -> Rows]
      BY DEF TypeOK, Rows
    <3>3. \A l \in Leg : Triggered(l) \in Rows
      BY <1>r DEF Triggered, Rows, LegStatus
    <3> QED
      BY <3>1, <3>2, <3>3
  <2>3. /\ rp' \in [pc : {"idle", "scan", "block", "rearm"}, todo : SUBSET Gtt,
                    gtt : Gtt \cup {NoLeg}, kept : Nat, need : Nat]
        /\ rp'.pc \in {"block", "rearm"} => rp'.gtt \in rp'.todo
    BY <1>2, <2>1 DEF ReapRead, NextGtt, Scanning
  <2> QED
    BY <1>2, <2>2, <2>3 DEF Steady, funds, ReapRead, TypeOK, Rows
<1>3. CASE ReapBlock
  <2>1. FundsOK' /\ Steady
    BY <1>3, FundsSafe DEF ReapBlock, Holds, Short
  <2>2. /\ rp' \in [pc : {"idle", "scan", "block", "rearm"}, todo : SUBSET Gtt,
                    gtt : Gtt \cup {NoLeg}, kept : Nat, need : Nat]
        /\ rp'.pc \in {"block", "rearm"} => rp'.gtt \in rp'.todo
    <3>1. rp.gtt \in rp.todo
      BY <1>3 DEF ReapBlock, TypeOK
    <3>2. CASE rp' = [rp EXCEPT !.pc = "rearm"]
      BY <3>1, <3>2 DEF TypeOK
    <3>3. CASE rp' = NextGtt(rp.gtt)
      BY <3>3 DEF NextGtt, Scanning, TypeOK
    <3> QED
      BY <1>3, <3>2, <3>3 DEF ReapBlock
  <2>3. status' \in [Gtt -> GttStatus]
    BY <1>3 DEF ReapBlock, TypeOK, GttStatus
  <2> QED
    BY <1>3, <2>1, <2>2, <2>3 DEF ReapBlock, TypeOK, FundsOK
<1>4. CASE ReapRearm
  <2>1. leg' \in [Leg -> Rows]
    BY <1>4, <1>r DEF ReapRearm, Rows, LegStatus
  <2>2. status' \in [Gtt -> GttStatus] /\ reserved' \in [Gtt -> Nat]
    BY <1>4 DEF ReapRearm, TypeOK, GttStatus
  <2>3. /\ rp' \in [pc : {"idle", "scan", "block", "rearm"}, todo : SUBSET Gtt,
                    gtt : Gtt \cup {NoLeg}, kept : Nat, need : Nat]
        /\ rp'.pc \in {"block", "rearm"} => rp'.gtt \in rp'.todo
    BY <1>4 DEF ReapRearm, NextGtt, Scanning, TypeOK
  <2> QED
    BY <1>4, <2>1, <2>2, <2>3 DEF Steady, funds, ReapRearm, TypeOK, Rows
<1> QED
  BY <1>1, <1>2, <1>3, <1>4 DEF Reap

\* Every step keeps it, and only a reset may change the account's total.
LEMMA TypeNext ==
    ASSUME TypeOK, [Next]_vars
    PROVE  TypeOK' /\ (Steady \/ ResetFunds)
<1> USE GTTAssumption DEF GTTAssumption, rows, funds
<1>0. UNCHANGED funds => Steady
  BY DEF Steady
<1>1. ASSUME NEW w \in Worker, NEW l \in Leg, Observe(w, l)
      PROVE  TypeOK' /\ Steady
  BY <1>0, <1>1 DEF Observe, TypeOK, WorkerPC
<1>2. ASSUME NEW l \in Leg, CancelChild(l)
      PROVE  TypeOK' /\ Steady
  <2>1. FundsOK' /\ Steady
    BY <1>2, FundsSafe DEF CancelChild, Holds, Short
  <2> QED
    BY <1>2, <2>1 DEF CancelChild, TypeOK, FundsOK, OrderStatus
<1>3. ASSUME NEW l \in Leg, FillFails(l)
      PROVE  TypeOK' /\ Steady
  BY <1>0, <1>3 DEF FillFails, TypeOK, OrderStatus
<1>4. CASE ResetFunds
  BY <1>4 DEF ResetFunds, TypeOK
<1>5. CASE Crash
  BY <1>5 DEF Steady, Free, Crash, TypeOK, IdleWorker, IdleClient, IdleReaper, WorkerPC, ClientOps
<1>6. CASE UNCHANGED vars
  BY <1>0, <1>6 DEF vars, TypeOK
<1>7. CASE ReadFunds
  <2>1. UNCHANGED <<rows, wk, cl, rp, crashes>>
    BY <1>7 DEF ReadFunds, BlockRead, RestoreRead, RecoverRead, CancelRead
  <2>2. /\ \A m \in OrderMargin : m \in Int /\ m >= 0
        /\ \A w \in Worker : wk[w].freed \in Int
        /\ rp.need \in Int
        /\ \A l \in Leg : -order[l].margin \in Int
    BY DEF TypeOK
  <2>3. \E r \in {"fire", "reap", "cancel"}, x \in Worker \cup Leg \cup {NoLeg}, d \in Int :
          Take(r, x, d) /\ (r = "fire" => d > 0)
    <3>1. CASE \E w \in Worker : BlockRead(w) \/ RestoreRead(w)
      BY <2>2, <3>1 DEF BlockRead, RestoreRead
    <3>2. CASE RecoverRead
      BY <2>2, <3>2 DEF RecoverRead
    <3>3. CASE \E l \in Leg : CancelRead(l)
      BY <2>2, <3>3 DEF CancelRead
    <3> QED
      BY <1>7, <3>1, <3>2, <3>3 DEF ReadFunds
  <2>4. FundsOK' /\ Steady
    BY <2>3, FundsSafe
  <2> QED
    BY <2>1, <2>4 DEF TypeOK, FundsOK
<1> QED
  BY <1>1, <1>2, <1>3, <1>4, <1>5, <1>6, <1>7, TypeRequest, TypeFire, TypeReap DEF Next

\* Under every fault the rows and the threads keep their shape; in particular
\* neither side of the ledger and no reservation is ever negative.
THEOREM TypeCorrect == Spec => []TypeOK
<1>1. TypeOK /\ [Next]_vars => TypeOK'
  BY TypeNext
<1> QED
  BY <1>1, TypeInit, PTL DEF Spec

\* Funds are never made or lost: every block, release and restoration moves the
\* two sides of the ledger together.
THEOREM ConservedAlways == Spec => []Conserved
<1> DEFINE Promised == turn.role # "free" => turn.avail + turn.used = Capital
<1>1. Init => Conserved /\ Promised
  BY GTTAssumption DEF GTTAssumption, Init, Conserved, Free
<1>2. TypeOK /\ Conserved /\ Promised /\ [Next]_vars => Conserved' /\ Promised'
  <2> SUFFICES ASSUME TypeOK, Conserved, Promised, [Next]_vars
               PROVE  Conserved' /\ Promised'
    OBVIOUS
  <2>1. CASE Steady
    BY <2>1 DEF Steady, Conserved, Free
  <2>2. CASE ResetFunds
    BY <2>2, GTTAssumption DEF GTTAssumption, ResetFunds, Conserved
  <2> QED
    BY <2>1, <2>2, TypeNext
<1> QED
  BY <1>1, <1>2, TypeCorrect, PTL DEF Spec

-----------------------------------------------------------------------------
(* The lock of the funds *)

\* The reaper keeps out of live fires, place_order reports an error only when it
\* has no order in the book, and no order is rejected under a cancel of it.
Orderly == Faults \cap {"live_reaper", "refresh_fails", "late_cancel"} = {}

\* Whoever holds the lock is where it was when it took it, and will write what it
\* read, changed by what its row says.
TurnTrue ==
    /\ turn.role = "fire" =>
         /\ turn.by \in Worker
         /\ \/ wk[turn.by].pc = "released"
            \/ wk[turn.by].pc = "failed" /\ turn.delta = wk[turn.by].freed
    /\ turn.role = "reap" => turn.by = NoLeg /\ rp.pc = "block" /\ turn.delta = rp.need
    /\ turn.role = "cancel" =>
         /\ turn.by \in Leg
         /\ order[turn.by].status = "open" /\ order[turn.by].margin > 0
         /\ turn.delta = -order[turn.by].margin
    /\ turn.role # "free" => turn.used = turn.was + turn.delta

\* A step that lets the lock go, or leaves it and its holder alone.
LEMMA TurnFrame ==
    ASSUME TurnTrue,
           \/ turn' = Free
           \/ /\ turn' = turn
              /\ turn.role = "fire" => wk'[turn.by] = wk[turn.by]
              /\ turn.role = "reap" => rp' = rp
              /\ turn.role = "cancel" => order'[turn.by] = order[turn.by]
    PROVE  TurnTrue'
BY DEF TurnTrue, Free

LEMMA TurnFire ==
    ASSUME TypeOK, TurnTrue, NEW w \in Worker, Fire(w)
    PROVE  TurnTrue'
<1>1. rp' = rp
  BY DEF Fire, Claim, ClaimParent, Release, PlaceBlock, PlaceInsert, Mark, Restore, Persist,
         Reject, RevertParent, RevertClaim
<1>2. \A v \in Worker \ {w} : wk'[v] = wk[v]
  BY DEF TypeOK, Fire, Claim, ClaimParent, Release, PlaceBlock, PlaceInsert, Mark, Restore,
         Persist, Reject, RevertParent, RevertClaim, Goto, Done, Carry
<1>3. \A l \in Leg : order[l].status = "open" => order'[l] = order[l]
  <2>1. \/ order' = order
        \/ /\ order[wk[w].leg].status = "none"
           /\ order' = [order EXCEPT ![wk[w].leg] = [status |-> "open", margin |-> wk[w].held]]
    BY DEF Fire, Claim, ClaimParent, Release, PlaceBlock, PlaceInsert, Mark, Restore, Persist,
           Reject, RevertParent, RevertClaim, rows
  <2> QED
    BY <2>1 DEF TypeOK
<1>4. turn' = turn \/ turn' = Free
  BY DEF Fire, Claim, ClaimParent, Release, PlaceBlock, PlaceInsert, Mark, Restore, Persist,
         Reject, RevertParent, RevertClaim, funds, Move, Write, LetGo, Short
<1>5. CASE ~Holds("fire", w)
  <2>1. turn.role = "fire" => turn.by \in Worker \ {w}
    BY <1>5 DEF TurnTrue, Holds
  <2>2. turn.role = "cancel" => order'[turn.by] = order[turn.by]
    BY <1>3 DEF TurnTrue
  <2> QED
    BY <1>1, <1>2, <1>4, <2>1, <2>2, TurnFrame
<1>6. CASE Holds("fire", w)
  <2>1. /\ wk[w].pc \in {"released", "failed"} /\ turn.role = "fire"
        /\ wk[w].pc = "failed" => wk[w].freed > 0
    BY <1>6 DEF TurnTrue, Holds, TypeOK
  <2>2. PlaceBlock(w) \/ Restore(w)
    BY <2>1 DEF Fire, Claim, ClaimParent, Release, PlaceInsert, Mark, Persist,
         Reject, RevertParent, RevertClaim
  <2>3. turn' = Free
    BY <1>6, <2>1, <2>2 DEF PlaceBlock, Restore, Write, LetGo, Short, TypeOK
  <2> QED
    BY <2>3, TurnFrame
<1> QED
  BY <1>5, <1>6

LEMMA TurnReap ==
    ASSUME TypeOK, TurnTrue, Reap
    PROVE  TurnTrue'
<1>1. wk' = wk /\ order' = order
  BY DEF Reap, ReapLegs, ReapRead, ReapBlock, ReapRearm
<1>2. turn' = Free \/ (turn' = turn /\ (rp.pc = "block" => turn.role = "free"))
  BY DEF Reap, ReapLegs, ReapRead, ReapBlock, ReapRearm, funds, Write, Short
<1>3. turn' = turn => turn.role # "reap"
  BY <1>2 DEF TurnTrue, Free
<1> QED
  BY <1>1, <1>2, <1>3, TurnFrame

\* Each of the four that take it is where it says.
LEMMA TurnRead ==
    ASSUME TypeOK, ReadFunds
    PROVE  TurnTrue'
<1>1. UNCHANGED <<rows, wk, cl, rp, crashes>>
  BY DEF ReadFunds, BlockRead, RestoreRead, RecoverRead, CancelRead
<1>a. used \in Int
  BY DEF TypeOK
<1>2. ASSUME NEW r \in {"fire", "reap", "cancel"}, NEW x, NEW d \in Int, Take(r, x, d)
      PROVE  /\ turn'.role = r /\ turn'.by = x /\ turn'.delta = d
             /\ turn'.used = turn'.was + turn'.delta
  BY <1>a, <1>2 DEF Take
<1>3. ASSUME NEW w \in Worker, BlockRead(w) \/ RestoreRead(w)
      PROVE  TurnTrue'
  <2>1. /\ turn'.role = "fire" /\ turn'.by = w /\ turn'.used = turn'.was + turn'.delta
        /\ wk[w].pc = "released" \/ (wk[w].pc = "failed" /\ turn'.delta = wk[w].freed)
    <3>1. CASE BlockRead(w)
      <4> PICK m \in OrderMargin \ {0} : Take("fire", w, m)
        BY <3>1 DEF BlockRead
      <4>1. m \in Int
        BY GTTAssumption DEF GTTAssumption
      <4> QED
        BY <1>2, <3>1, <4>1 DEF BlockRead
    <3>2. CASE RestoreRead(w)
      <4>1. wk[w].freed \in Int /\ Take("fire", w, wk[w].freed) /\ wk[w].pc = "failed"
        BY <3>2 DEF RestoreRead, TypeOK
      <4> QED
        BY <1>2, <4>1
    <3> QED
      BY <1>3, <3>1, <3>2
  <2> QED
    BY <1>1, <2>1 DEF TurnTrue
<1>4. CASE RecoverRead
  <2>1. rp.need \in Int /\ Take("reap", NoLeg, rp.need) /\ rp.pc = "block"
    BY <1>4 DEF RecoverRead, TypeOK
  <2>2. /\ turn'.role = "reap" /\ turn'.by = NoLeg /\ turn'.delta = rp.need
        /\ turn'.used = turn'.was + turn'.delta
    BY <1>2, <2>1
  <2> QED
    BY <1>1, <2>1, <2>2 DEF TurnTrue
<1>5. ASSUME NEW l \in Leg, CancelRead(l)
      PROVE  TurnTrue'
  <2>1. /\ -order[l].margin \in Int /\ Take("cancel", l, -order[l].margin)
        /\ order[l].status = "open" /\ order[l].margin > 0
    BY <1>5 DEF CancelRead, TypeOK
  <2>2. /\ turn'.role = "cancel" /\ turn'.by = l /\ turn'.delta = -order[l].margin
        /\ turn'.used = turn'.was + turn'.delta
    BY <1>2, <2>1
  <2> QED
    BY <1>1, <2>1, <2>2 DEF TurnTrue, rows
<1> QED
  BY <1>3, <1>4, <1>5 DEF ReadFunds

LEMMA TurnNext ==
    ASSUME TypeOK, TurnTrue, Orderly, [Next]_vars
    PROVE  TurnTrue'
<1>1. ASSUME \/ \E g \in Gtt : Place(g)
             \/ \E c \in Client : ClientStep(c)
             \/ ResetFunds
             \/ UNCHANGED vars
      PROVE  TurnTrue'
  <2>1. UNCHANGED <<turn, wk, rp, order>>
    BY <1>1 DEF Place, ClientStep, Read, Cancel, Modify, Expire, Withdraw, ResetFunds, Move, funds,
         rows, vars
  <2> QED
    BY <2>1, TurnFrame
<1>2. ASSUME NEW w \in Worker, NEW l \in Leg, Observe(w, l)
      PROVE  TurnTrue'
  <2>1. UNCHANGED <<turn, rp, order>> /\ \A v \in Worker \ {w} : wk'[v] = wk[v]
    BY <1>2 DEF Observe, funds, rows, TypeOK
  <2>2. turn.role = "fire" => turn.by \in Worker \ {w}
    BY <1>2 DEF Observe, TurnTrue
  <2> QED
    BY <2>1, <2>2, TurnFrame
<1>3. ASSUME NEW l \in Leg, CancelChild(l)
      PROVE  TurnTrue'
  <2>1. UNCHANGED <<wk, rp>> /\ \A k \in Leg \ {l} : order'[k] = order[k]
    BY <1>3 DEF CancelChild, TypeOK
  <2>2. turn' = Free \/ (turn' = turn /\ (turn.role = "cancel" => turn.by # l))
    BY <1>3 DEF CancelChild, Holds, Write, Short, funds, TurnTrue, TypeOK
  <2> QED
    BY <2>1, <2>2, TurnFrame DEF TurnTrue
<1>4. ASSUME NEW l \in Leg, FillFails(l)
      PROVE  TurnTrue'
  <2>1. UNCHANGED <<turn, wk, rp>> /\ \A k \in Leg \ {l} : order'[k] = order[k]
    BY <1>4 DEF FillFails, funds, TypeOK
  <2>2. turn.role = "cancel" => turn.by # l
    BY <1>4 DEF FillFails, Orderly, Holds
  <2> QED
    BY <2>1, <2>2, TurnFrame DEF TurnTrue
<1>5. CASE Crash
  BY <1>5, TurnFrame DEF Crash
<1> QED
  BY <1>1, <1>2, <1>3, <1>4, <1>5, TurnFire, TurnReap, TurnRead DEF Next

LEMMA TurnHolds == Orderly => (Spec => []TurnTrue)
<1> SUFFICES ASSUME Orderly
             PROVE  Spec => []TurnTrue
  OBVIOUS
<1>1. Init => TurnTrue
  BY DEF Init, TurnTrue, Free
<1>2. TypeOK /\ TurnTrue /\ [Next]_vars => TurnTrue'
  BY TurnNext
<1> QED
  BY <1>1, <1>2, TypeCorrect, PTL DEF Spec

\* A cancel closes an order that is still open.
LEMMA CancelsOpen ==
    ASSUME TypeOK, TurnTrue, NEW l \in Leg, CancelChild(l)
    PROVE  order[l].status = "open"
BY DEF CancelChild, Holds, TurnTrue

-----------------------------------------------------------------------------
(* Exclusion, with the reaper out of live fires *)

\* Ownership is given up or kept, never taken, and never moved to another leg.
NoNewOwner ==
    \A w \in Worker : Owns(w)' => Owns(w) /\ wk'[w].leg = wk[w].leg

\* A step that decides no GTT and takes no ownership keeps exclusion.
LEMMA ExclusiveFrame ==
    ASSUME TypeOK, Exclusive, UNCHANGED <<status, order>>, NoNewOwner,
           UNCHANGED rp \/ rp' = IdleReaper
    PROVE  Exclusive'
<1>1. \A g : Fired(g)' = Fired(g)
  BY DEF Fired
<1> QED
  BY <1>1 DEF Exclusive, NoNewOwner, IdleReaper, Owns

\* So does a step that takes a GTT that has not fired away from triggered, or
\* never to it, once its owner has let go and the reaper has it off its list.
LEMMA ExclusiveDecide ==
    ASSUME TypeOK, Exclusive, NEW g \in Gtt, NEW s, s # "triggered",
           status' = [status EXCEPT ![g] = s],
           UNCHANGED order, Fired(g) = {}, NoNewOwner,
           \A w \in Worker : Owns(w)' => Parent(wk[w].leg) # g,
           g \notin rp'.todo, rp' = rp \/ rp' = NextGtt(g)
    PROVE  Exclusive'
<1>1. \A h : Fired(h)' = Fired(h)
  BY DEF Fired
<1>2. \A h \in Gtt \ {g} : status'[h] = status[h]
  BY DEF TypeOK
<1>3. /\ rp'.todo \subseteq rp.todo \ {g}
      /\ rp'.todo \subseteq Gtt
      /\ rp'.pc \in {"block", "rearm"} => rp' = rp /\ rp.pc \in {"block", "rearm"}
  BY DEF NextGtt, Scanning, TypeOK
<1>4. \A w \in Worker : Owns(w)' =>
         /\ Owns(w)
         /\ wk'[w].leg = wk[w].leg
         /\ Parent(wk[w].leg) \in Gtt \ {g}
  BY LegShape DEF NoNewOwner, Owns, TypeOK
<1>5. \A w \in Worker : Owns(w)' =>
         /\ status'[Parent(wk'[w].leg)] = "triggered"
         /\ Fired(Parent(wk[w].leg))' = {}
         /\ \A v \in Worker \ {w} :
              Owns(v)' => Parent(wk'[v].leg) # Parent(wk'[w].leg)
  <2> SUFFICES ASSUME NEW w \in Worker, Owns(w)'
               PROVE  /\ status'[Parent(wk'[w].leg)] = "triggered"
                      /\ Fired(Parent(wk[w].leg))' = {}
                      /\ \A v \in Worker \ {w} :
                           Owns(v)' => Parent(wk'[v].leg) # Parent(wk'[w].leg)
    OBVIOUS
  <2>1. status'[Parent(wk'[w].leg)] = "triggered"
    BY <1>2, <1>4 DEF Exclusive
  <2>2. Fired(Parent(wk[w].leg))' = {}
    BY <1>4 DEF Exclusive, Fired
  <2>3. \A v \in Worker \ {w} : Owns(v)' => Parent(wk'[v].leg) # Parent(wk'[w].leg)
    BY <1>4 DEF Exclusive
  <2> QED
    BY <2>1, <2>2, <2>3
<1>6. \A h \in rp'.todo :
         /\ status'[h] = "triggered"
         /\ \A w \in Worker : Owns(w)' => Parent(wk'[w].leg) # h
  BY <1>2, <1>3, <1>4 DEF Exclusive
<1>7. rp'.pc \in {"block", "rearm"} => Fired(rp.gtt)' = {}
  BY <1>3 DEF Exclusive, Fired
<1>8. \A h \in Gtt : Fired(h)' # {} => status'[h] = "triggered"
  BY <1>1, <1>2 DEF Exclusive
<1>9. \A h \in Gtt : \A k, l \in Fired(h)' : k = l
  BY <1>1 DEF Exclusive
<1> QED
  BY <1>5, <1>6, <1>7, <1>8, <1>9 DEF Exclusive

LEMMA ExclusiveInit == Init => Exclusive
BY DEF Init, Exclusive, IdleWorker, IdleReaper, Owns, Fired, LegsOf

\* Requests decide only active GTTs, which nobody owns and which have not fired.
LEMMA ExclusiveRequest ==
    ASSUME TypeOK, Exclusive, \/ \E g \in Gtt : Place(g)
                              \/ \E c \in Client : ClientStep(c)
    PROVE  Exclusive'
<1>1. UNCHANGED <<order, wk, rp>>
  BY DEF Place, ClientStep, Read, Cancel, Expire, Withdraw, Modify, rows
<1>2. NoNewOwner
  BY <1>1 DEF NoNewOwner, Owns
<1>3. CASE UNCHANGED status
  BY <1>1, <1>2, <1>3, ExclusiveFrame
<1>4. ASSUME NEW g \in Gtt, NEW s, s # "triggered", status[g] # "triggered",
             status' = [status EXCEPT ![g] = s]
      PROVE  Exclusive'
  <2>1. Fired(g) = {} /\ g \notin rp.todo
    BY <1>4 DEF Exclusive
  <2>2. \A w \in Worker : Owns(w)' => Parent(wk[w].leg) # g
    BY <1>1, <1>4 DEF Exclusive, Owns
  <2> QED
    BY <1>1, <1>2, <1>4, <2>1, <2>2, ExclusiveDecide
<1>5. \/ UNCHANGED status
      \/ \E g \in Gtt, s \in {"active", "cancelled", "expired"} :
           status[g] # "triggered" /\ status' = [status EXCEPT ![g] = s]
  <2>1. \A c \in Client : cl[c].op # "idle" => cl[c].gtt \in Gtt
    BY DEF TypeOK
  <2> QED
    BY <2>1 DEF Place, ClientStep, Read, Cancel, Expire, Withdraw, Modify, rows
<1> QED
  BY <1>3, <1>4, <1>5

\* Of the steps of a fire, the parent claim takes ownership of an active GTT, the
\* INSERT ends it, and the two that decide the GTT are its owner's last.
LEMMA ExclusiveFire ==
    ASSUME TypeOK, Exclusive, Orderly, NEW w \in Worker, Fire(w)
    PROVE  Exclusive'
<1>a. /\ wk \in [Worker -> Task]
      /\ wk[w].pc # "idle" /\ wk[w].leg \in Leg /\ Parent(wk[w].leg) \in Gtt
  BY LegShape DEF TypeOK, Task, Fire, Claim, ClaimParent, Release, PlaceBlock,
       PlaceInsert, Mark, Restore, Persist, Reject, RevertParent, RevertClaim
<1> PICK l \in Leg, g \in Gtt : l = wk[w].leg /\ g = Parent(l)
  BY <1>a
<1>b. UNCHANGED rp
  BY DEF Fire, Claim, ClaimParent, Release, PlaceBlock, PlaceInsert, Mark, Restore,
         Persist, Reject, RevertParent, RevertClaim
<1>c. \A v \in Worker \ {w} : wk'[v] = wk[v]
  BY <1>a DEF Fire, Claim, ClaimParent, Release, PlaceBlock, PlaceInsert, Mark,
       Restore, Persist, Reject, RevertParent, RevertClaim, Goto, Done, Carry
<1>1. CASE ClaimParent(w)
  <2>1. CASE UNCHANGED status
    <3>1. ~Owns(w)'
      BY <1>1, <1>a, <2>1 DEF ClaimParent, Goto, Done, IdleWorker, Owns, TypeOK
    <3>2. NoNewOwner
      BY <1>c, <3>1 DEF NoNewOwner, Owns
    <3> QED
      BY <1>1, <1>b, <2>1, <3>2, ExclusiveFrame DEF ClaimParent
  <2>2. CASE ~UNCHANGED status
    <3>1. /\ status[g] = "active"
          /\ status' = [status EXCEPT ![g] = "triggered"]
          /\ wk' = [wk EXCEPT ![w].pc = "owned"]
          /\ UNCHANGED order
      BY <1>1, <2>2 DEF ClaimParent, Goto
    <3>2. /\ Fired(g) = {} /\ g \notin rp.todo
          /\ \A v \in Worker : Owns(v) => Parent(wk[v].leg) # g
      BY <1>a, <3>1 DEF Exclusive
    <3>3. wk'[w].leg = l /\ wk'[w].pc = "owned"
      BY <1>a, <3>1 DEF Task
    <3>4. \A v \in Worker \ {w} : Owns(v)' = Owns(v)
      BY <1>c DEF Owns
    <3>5. \A h \in Gtt : h # g => status'[h] = status[h]
      BY <3>1 DEF TypeOK
    <3>6. status'[g] = "triggered"
      BY <1>a, <3>1 DEF TypeOK
    <3>7. \A v \in Worker \ {w} : Owns(v) => Parent(wk[v].leg) \in Gtt
      BY LegShape DEF TypeOK, Owns
    <3>8. \A h : Fired(h)' = Fired(h)
      BY <3>1 DEF Fired
    <3>9. \A v \in Worker : Owns(v)' =>
             /\ status'[Parent(wk'[v].leg)] = "triggered"
             /\ \A u \in Worker \ {v} :
                  Owns(u)' => Parent(wk'[u].leg) # Parent(wk'[v].leg)
      BY <1>c, <3>2, <3>3, <3>4, <3>5, <3>6, <3>7 DEF Exclusive
    <3>10. \A v \in Worker : Owns(v)' => Fired(Parent(wk'[v].leg)) = {}
      BY <1>c, <3>2, <3>3, <3>4 DEF Exclusive
    <3>11. \A h \in rp.todo :
             /\ status'[h] = "triggered"
             /\ \A v \in Worker : Owns(v)' => Parent(wk'[v].leg) # h
      BY <1>c, <3>2, <3>3, <3>4, <3>5 DEF Exclusive, TypeOK
    <3>12. \A h \in Gtt : /\ Fired(h) # {} => status'[h] = "triggered"
                          /\ \A k, m \in Fired(h) : k = m
      BY <3>5, <3>6 DEF Exclusive
    <3>13. rp.pc \in {"block", "rearm"} => Fired(rp.gtt) = {}
      BY DEF Exclusive
    <3> QED
      BY <1>b, <3>1, <3>9, <3>10, <3>11, <3>12, <3>13 DEF Exclusive, Fired
  <2> QED
    BY <2>1, <2>2
<1>2. CASE PlaceInsert(w) /\ ~UNCHANGED order
  <2>1. /\ order[l].status = "none"
        /\ order' = [order EXCEPT ![l] = [status |-> "open", margin |-> wk[w].held]]
        /\ wk'[w].pc = "placed"
        /\ Owns(w)
        /\ UNCHANGED status
    BY <1>2, <1>a DEF PlaceInsert, Carry, Owns, Orderly
  <2>2. /\ Fired(g) = {} /\ status[g] = "triggered" /\ g \notin rp.todo
        /\ \A v \in Worker \ {w} : Owns(v) => Parent(wk[v].leg) # g
    BY <2>1 DEF Exclusive
  <2>3. \A h \in Gtt : h # g => Fired(h)' = Fired(h)
    BY <2>1 DEF Fired, LegsOf, TypeOK
  <2>4. Fired(g)' \subseteq {l}
    <3> SUFFICES ASSUME NEW k \in Fired(g)', k # l
                 PROVE  FALSE
      OBVIOUS
    <3>1. k \in LegsOf(g) /\ order'[k].status \notin {"none", "rejected"}
      BY DEF Fired
    <3>2. order'[k] = order[k]
      BY <2>1, <3>1 DEF LegsOf, TypeOK
    <3> QED
      BY <2>2, <3>1, <3>2 DEF Fired
  <2>5. \A v \in Worker : Owns(v)' => v # w /\ Owns(v) /\ wk'[v] = wk[v]
    BY <1>c, <2>1 DEF Owns
  <2>6. \A v \in Worker : Owns(v)' =>
          /\ Parent(wk[v].leg) \in Gtt \ {g}
          /\ Fired(Parent(wk[v].leg)) = {}
    BY <2>2, <2>5, LegShape DEF Exclusive, Owns, TypeOK
  <2>7. \A v \in Worker : Owns(v)' => Fired(Parent(wk[v].leg))' = {}
    <3> SUFFICES ASSUME NEW v \in Worker, Owns(v)'
                 PROVE  Fired(Parent(wk[v].leg))' = {}
      OBVIOUS
    <3>1. PICK h \in Gtt \ {g} : h = Parent(wk[v].leg) /\ Fired(h) = {}
      BY <2>6
    <3>2. Fired(h)' = {} /\ h = Parent(wk'[v].leg)
      BY <2>3, <2>5, <3>1
    <3> QED
      BY <3>2 DEF Fired
  <2>9. \A v \in Worker : Owns(v)' =>
          /\ status'[Parent(wk'[v].leg)] = "triggered"
          /\ \A u \in Worker \ {v} :
               Owns(u)' => Parent(wk'[u].leg) # Parent(wk'[v].leg)
    BY <2>1, <2>5 DEF Exclusive
  <2>10. \A h \in rp.todo :
           /\ status'[h] = "triggered"
           /\ \A v \in Worker : Owns(v)' => Parent(wk'[v].leg) # h
    BY <2>1, <2>5 DEF Exclusive
  <2>11. \A h \in Gtt : /\ Fired(h)' # {} => status'[h] = "triggered"
                        /\ \A k, m \in Fired(h)' : k = m
    <3>1. \A h \in Gtt : /\ Fired(h) # {} => status[h] = "triggered"
                         /\ \A k, m \in Fired(h) : k = m
      BY DEF Exclusive
    <3> QED
      BY <2>1, <2>2, <2>3, <2>4, <3>1
  <2>12. rp.pc \in {"block", "rearm"} => rp.gtt \in Gtt \ {g}
    BY <2>2 DEF TypeOK
  <2>13. rp.pc \in {"block", "rearm"} => Fired(rp.gtt)' = {}
    BY <1>b, <2>1, <2>12 DEF Exclusive, Fired, LegsOf, TypeOK
  <2> QED
    BY <1>b, <2>7, <2>9, <2>10, <2>11, <2>13 DEF Exclusive
<1>3. CASE Reject(w) \/ RevertParent(w)
  <2>1. Owns(w) /\ UNCHANGED order /\ wk' = [wk EXCEPT ![w].pc = "disown"]
    BY <1>3 DEF Reject, RevertParent, Goto, Owns
  <2>2. /\ Fired(g) = {} /\ status[g] = "triggered" /\ g \notin rp.todo
        /\ \A v \in Worker \ {w} : Owns(v) => Parent(wk[v].leg) # g
    BY <2>1 DEF Exclusive
  <2>3. ~Owns(w)'
    BY <1>a, <2>1 DEF Owns
  <2>4. NoNewOwner /\ \A v \in Worker : Owns(v)' => Parent(wk[v].leg) # g
    BY <1>c, <2>2, <2>3 DEF NoNewOwner, Owns
  <2>5. \/ UNCHANGED status
        \/ \E s \in {"active", "rejected"} : status' = [status EXCEPT ![g] = s]
    BY <1>3, <1>a, <2>2 DEF Reject, RevertParent, TypeOK
  <2> QED
    BY <1>a, <1>b, <2>1, <2>2, <2>4, <2>5, ExclusiveFrame, ExclusiveDecide
<1>4. CASE \/ Claim(w) \/ Release(w) \/ PlaceBlock(w) \/ Mark(w) \/ Restore(w)
           \/ Persist(w) \/ RevertClaim(w) \/ (PlaceInsert(w) /\ UNCHANGED order)
  <2>1. UNCHANGED <<status, order>>
    BY <1>4 DEF Claim, Release, PlaceBlock, PlaceInsert, Mark, Restore, Persist,
         RevertClaim, rows
  <2>2. Owns(w)' => Owns(w) /\ wk'[w].leg = l
    BY <1>4, <1>a DEF Claim, Release, PlaceBlock, PlaceInsert, Mark, Restore, Persist,
         RevertClaim, Goto, Done, Carry, IdleWorker, Owns, Task
  <2> QED
    BY <1>b, <1>c, <2>1, <2>2, ExclusiveFrame DEF NoNewOwner, Owns
<1> QED
  BY <1>1, <1>2, <1>3, <1>4 DEF Fire

\* The reaper lists triggered GTTs when nobody owns one, and re-arms those whose
\* order is not in the book.
LEMMA ExclusiveReap ==
    ASSUME TypeOK, Exclusive, Orderly, Reap
    PROVE  Exclusive'
<1>a. UNCHANGED <<order, wk>>
  BY DEF Reap, ReapLegs, ReapRead, ReapBlock, ReapRearm
<1>b. NoNewOwner
  BY <1>a DEF NoNewOwner, Owns
<1>1. CASE ReapLegs
  BY <1>1, <1>a DEF ReapLegs, Scanning, Orderly, Exclusive, Owns, Fired
<1>2. ASSUME NEW g \in Gtt, ReapRead(g)
      PROVE  Exclusive'
  <2>1. UNCHANGED <<status, order, wk>>
    BY <1>2 DEF ReapRead
  <2>2. CASE rp' = NextGtt(g)
    BY <2>1, <2>2 DEF NextGtt, Scanning, Exclusive, Owns, Fired
  <2>3. CASE rp'.todo = rp.todo /\ rp'.gtt = g /\ Evidence(g) = {}
    BY <2>1, <2>3 DEF Evidence, Exclusive, Owns, Fired
  <2> QED
    BY <1>2, <2>2, <2>3 DEF ReapRead
<1>3. CASE ReapBlock \/ ReapRearm
  <2> DEFINE g == rp.gtt
  <2>1. /\ g \in rp.todo /\ g \in Gtt /\ status[g] = "triggered" /\ Fired(g) = {}
        /\ \A w \in Worker : Owns(w)' => Parent(wk[w].leg) # g
    BY <1>3, <1>b DEF ReapBlock, ReapRearm, TypeOK, Exclusive, NoNewOwner
  <2>2. CASE UNCHANGED status
    <3>1. CASE rp' = NextGtt(g)
      BY <1>a, <2>2, <3>1 DEF NextGtt, Scanning, Exclusive, Owns, Fired
    <3>2. CASE rp' = [rp EXCEPT !.pc = "rearm"]
      <4>1. rp'.gtt = rp.gtt /\ rp'.todo = rp.todo
        BY <3>2 DEF TypeOK
      <4> QED
        BY <1>a, <2>1, <2>2, <4>1 DEF Exclusive, Owns, Fired
    <3> QED
      BY <1>3, <3>1, <3>2 DEF ReapBlock, ReapRearm
  <2>3. CASE ~UNCHANGED status
    <3>1. \E s \in {"active", "rejected"} : status' = [status EXCEPT ![g] = s]
      BY <1>3, <2>3 DEF ReapBlock, ReapRearm
    <3>2. rp' = NextGtt(g) /\ g \notin rp'.todo
      BY <1>3, <2>1, <2>3 DEF ReapBlock, ReapRearm, NextGtt, Scanning
    <3> QED
      BY <1>a, <1>b, <2>1, <3>1, <3>2, ExclusiveDecide
  <2> QED
    BY <2>2, <2>3
<1> QED
  BY <1>1, <1>2, <1>3 DEF Reap

LEMMA ExclusiveNext ==
    ASSUME TypeOK, Exclusive, TurnTrue, Orderly, [Next]_vars
    PROVE  Exclusive'
<1>1. ASSUME NEW w \in Worker, NEW l \in Leg, Observe(w, l)
      PROVE  Exclusive'
  <2>1. NoNewOwner
    BY <1>1 DEF Observe, NoNewOwner, Owns, TypeOK
  <2> QED
    BY <1>1, <2>1, ExclusiveFrame DEF Observe, rows
<1>2. ASSUME NEW l \in Leg, CancelChild(l) \/ FillFails(l)
      PROVE  Exclusive'
  <2>0. order[l].status = "open"
    BY <1>2, CancelsOpen DEF FillFails
  <2>1. UNCHANGED <<status, wk, rp>> /\ \A k : Fired(k)' \subseteq Fired(k)
    BY <1>2, <2>0 DEF CancelChild, FillFails, Fired, LegsOf, TypeOK
  <2>2. \A w \in Worker : Owns(w)' = Owns(w)
    BY <2>1 DEF Owns
  <2>3. \A w \in Worker : Owns(w) => Fired(Parent(wk[w].leg))' = {}
    BY <2>1 DEF Exclusive
  <2>4. rp.pc \in {"block", "rearm"} => Fired(rp.gtt)' = {}
    BY <2>1 DEF Exclusive
  <2> QED
    BY <2>1, <2>2, <2>3, <2>4 DEF Exclusive
<1>3. CASE ResetFunds \/ ReadFunds \/ UNCHANGED vars
  <2>1. NoNewOwner /\ UNCHANGED <<status, order, rp>>
    BY <1>3 DEF ResetFunds, ReadFunds, BlockRead, RestoreRead, RecoverRead, CancelRead, vars, rows, NoNewOwner, Owns
  <2> QED
    BY <2>1, ExclusiveFrame
<1>4. CASE Crash
  <2>1. NoNewOwner /\ rp' = IdleReaper /\ UNCHANGED <<status, order>>
    BY <1>4 DEF Crash, rows, NoNewOwner, Owns, IdleWorker
  <2> QED
    BY <2>1, ExclusiveFrame
<1> QED
  BY <1>1, <1>2, <1>3, <1>4, ExclusiveRequest, ExclusiveFire, ExclusiveReap DEF Next

\* Whatever is being fired, cancelled, modified, expired, recovered or undone at
\* the same time, only an owner of a triggered GTT that has not fired may decide
\* it, and never two of them.
THEOREM ExclusionHolds == Orderly => (Spec => []Exclusive)
<1> SUFFICES ASSUME Orderly
             PROVE  Spec => []Exclusive
  OBVIOUS
<1>1. TypeOK /\ Exclusive /\ TurnTrue /\ [Next]_vars => Exclusive'
  BY ExclusiveNext
<1> QED
  BY <1>1, ExclusiveInit, TypeCorrect, TurnHolds, PTL DEF Spec

\* "Firing must happen exactly once": no two legs of one GTT have live orders.
THEOREM FiringIsOnce == Orderly => (Spec => []FiresOnce)
<1> SUFFICES ASSUME Orderly
             PROVE  Spec => []FiresOnce
  OBVIOUS
<1>1. Exclusive => FiresOnce
  <2> SUFFICES ASSUME Exclusive, NEW g \in Gtt
               PROVE  Cardinality(Fired(g)) <= 1
    BY DEF FiresOnce
  <2>1. Fired(g) = {} \/ \E l \in Fired(g) : Fired(g) = {l}
    BY DEF Exclusive
  <2>2. Cardinality({}) = 0
    BY FS_EmptySet
  <2>3. \A l : Cardinality({l}) = 1
    BY FS_Singleton
  <2>4. Cardinality(Fired(g)) \in {0, 1}
    BY <2>1, <2>2, <2>3
  <2> QED
    BY <2>4
<1> QED
  BY <1>1, ExclusionHolds, PTL

\* A worker on its way to its INSERT owns its GTT, and owns it alone.
THEOREM OwnerStandsAlone == Orderly => (Spec => []OwnerIsAlone)
<1> SUFFICES ASSUME Orderly
             PROVE  Spec => []OwnerIsAlone
  OBVIOUS
<1>1. Exclusive => OwnerIsAlone
  BY DEF Exclusive, OwnerIsAlone, Placing, Owns
<1> QED
  BY <1>1, ExclusionHolds, PTL

-----------------------------------------------------------------------------
(* What one step does to the statuses and the orders *)

Moves == {<<"none", "active">>, <<"active", "triggered">>, <<"active", "cancelled">>,
          <<"active", "expired">>, <<"triggered", "active">>, <<"triggered", "rejected">>}

\* Nothing, or one GTT without an order changes status, or the owner of one
\* inserts its order; and the orders that count as fired stay.
Quiescent == UNCHANGED status /\ \A k \in Leg : order'[k].status = order[k].status
                                    \/ {order[k].status, order'[k].status} = {"open", "cancelled"}
Decides(g, s) ==
    /\ <<status[g], s>> \in Moves
    /\ Fired(g) = {}
    /\ status' = [status EXCEPT ![g] = s]
    /\ UNCHANGED order
Inserts(l) ==
    /\ order[l].status = "none"
    /\ \E m : order' = [order EXCEPT ![l] = [status |-> "open", margin |-> m]]
    /\ status[Parent(l)] = "triggered"
    /\ Fired(Parent(l)) = {}
    /\ UNCHANGED status

LEMMA StepEffect ==
    ASSUME TypeOK, Exclusive, TurnTrue, Orderly, "fill_fails" \notin Faults, [Next]_vars
    PROVE  \/ Quiescent
           \/ \E g \in Gtt, s \in GttStatus : Decides(g, s)
           \/ \E l \in Leg : Inserts(l)
<1>q. UNCHANGED <<status, order>> => Quiescent
  BY DEF Quiescent
<1>1. ASSUME NEW g \in Gtt, Place(g)
      PROVE  Decides(g, "active")
  BY <1>1 DEF Place, Decides, Moves, Exclusive
<1>2. ASSUME NEW c \in Client, ClientStep(c)
      PROVE  Quiescent \/ \E g \in Gtt, s \in GttStatus : Decides(g, s)
  <2>1. cl[c].op # "idle" => cl[c].gtt \in Gtt
    BY DEF TypeOK
  <2>2. UNCHANGED order
    BY <1>2 DEF ClientStep, Read, Cancel, Expire, Withdraw, Modify, rows
  <2>3. \/ UNCHANGED status
        \/ \E s \in {"cancelled", "expired"} :
             /\ cl[c].gtt \in Gtt
             /\ status[cl[c].gtt] = "active"
             /\ status' = [status EXCEPT ![cl[c].gtt] = s]
    BY <1>2, <2>1 DEF ClientStep, Read, Cancel, Expire, Withdraw, Modify, rows
  <2> QED
    BY <1>q, <2>2, <2>3 DEF Decides, Moves, Exclusive, GttStatus
<1>3. ASSUME NEW w \in Worker, Fire(w)
      PROVE  \/ Quiescent
             \/ \E g \in Gtt, s \in GttStatus : Decides(g, s)
             \/ \E l \in Leg : Inserts(l)
  <2>1. wk[w].pc # "idle" => wk[w].leg \in Leg /\ Parent(wk[w].leg) \in Gtt
    BY LegShape DEF TypeOK
  <2>2. CASE ClaimParent(w)
    BY <1>q, <2>1, <2>2 DEF ClaimParent, Decides, Moves, Exclusive, GttStatus
  <2>3. CASE PlaceInsert(w)
    BY <1>q, <2>1, <2>3 DEF PlaceInsert, Inserts, Exclusive, Owns
  <2>4. CASE Reject(w) \/ RevertParent(w)
    <3>1. /\ wk[w].leg \in Leg /\ Parent(wk[w].leg) \in Gtt
          /\ status[Parent(wk[w].leg)] = "triggered" /\ Fired(Parent(wk[w].leg)) = {}
          /\ UNCHANGED order
      BY <2>1, <2>4 DEF Reject, RevertParent, Exclusive, Owns
    <3>2. \/ UNCHANGED status
          \/ \E s \in {"active", "rejected"} :
               status' = [status EXCEPT ![Parent(wk[w].leg)] = s]
      BY <2>4, <3>1 DEF Reject, RevertParent, TypeOK
    <3> QED
      BY <1>q, <3>1, <3>2 DEF Decides, Moves, GttStatus
  <2> QED
    BY <1>3, <1>q, <2>2, <2>3, <2>4
       DEF Fire, Claim, Release, PlaceBlock, Mark, Restore, Persist, RevertClaim, rows
<1>4. CASE Reap
  <2>1. UNCHANGED order
    BY <1>4 DEF Reap, ReapLegs, ReapRead, ReapBlock, ReapRearm
  <2>2. \/ UNCHANGED status
        \/ \E s \in {"active", "rejected"} :
             rp.pc \in {"block", "rearm"} /\ status' = [status EXCEPT ![rp.gtt] = s]
    BY <1>4 DEF Reap, ReapLegs, ReapRead, ReapBlock, ReapRearm
  <2>3. rp.pc \in {"block", "rearm"} =>
          rp.gtt \in Gtt /\ status[rp.gtt] = "triggered" /\ Fired(rp.gtt) = {}
    BY DEF Exclusive, TypeOK
  <2> QED
    BY <1>q, <2>1, <2>2, <2>3 DEF Decides, Moves, GttStatus
<1>5. ASSUME NEW l \in Leg, CancelChild(l)
      PROVE  Quiescent
  BY <1>5, CancelsOpen DEF CancelChild, Quiescent, TypeOK
<1>6. ASSUME NEW l \in Leg
      PROVE  ~FillFails(l)
  BY DEF FillFails
<1>7. CASE \/ ResetFunds \/ ReadFunds \/ Crash \/ UNCHANGED vars
           \/ \E w \in Worker, l \in Leg : Observe(w, l)
  BY <1>7, <1>q DEF ResetFunds, ReadFunds, BlockRead, RestoreRead, RecoverRead, CancelRead, Crash, vars, rows, Observe
<1> QED
  BY <1>1, <1>2, <1>3, <1>4, <1>5, <1>6, <1>7 DEF Next, GttStatus

\* What each effect does to one GTT.
LEMMA EffectOnFired ==
    ASSUME TypeOK, NEW g \in Gtt
    PROVE  /\ Quiescent => Fired(g)' = Fired(g) /\ status'[g] = status[g]
           /\ \A h \in Gtt, s \in GttStatus : Decides(h, s) =>
                /\ Fired(g)' = Fired(g)
                /\ status'[g] = IF g = h THEN s ELSE status[g]
           /\ \A l \in Leg : Inserts(l) =>
                /\ Fired(g)' = IF g = Parent(l) THEN {l} ELSE Fired(g)
                /\ status'[g] = status[g]
<1>1. LegsOf(g) \subseteq Leg
  BY LegShape
<1>2. Quiescent => Fired(g)' = Fired(g) /\ status'[g] = status[g]
  BY <1>1 DEF Quiescent, Fired
<1>3. ASSUME NEW h \in Gtt, NEW s \in GttStatus, Decides(h, s)
      PROVE  /\ Fired(g)' = Fired(g)
             /\ status'[g] = IF g = h THEN s ELSE status[g]
  BY <1>3 DEF Decides, Fired, TypeOK
<1>4. ASSUME NEW l \in Leg, Inserts(l)
      PROVE  /\ Fired(g)' = IF g = Parent(l) THEN {l} ELSE Fired(g)
             /\ status'[g] = status[g]
  <2>1. PICK m : order' = [order EXCEPT ![l] = [status |-> "open", margin |-> m]]
    BY <1>4 DEF Inserts
  <2>2. order'[l].status = "open" /\ \A k \in Leg \ {l} : order'[k] = order[k]
    BY <2>1 DEF TypeOK
  <2>3. CASE g = Parent(l)
    <3>1. l \in LegsOf(g) /\ Fired(g) = {}
      BY <1>4, <2>3, LegShape DEF Inserts
    <3>2. \A k \in LegsOf(g) : k \in Fired(g)' <=> k = l
      BY <1>1, <2>2, <3>1 DEF Fired
    <3>3. Fired(g)' \subseteq LegsOf(g)
      BY DEF Fired
    <3> QED
      BY <1>4, <2>3, <3>1, <3>2, <3>3 DEF Inserts
  <2>4. CASE g # Parent(l)
    <3>1. l \notin LegsOf(g)
      BY <2>4 DEF LegsOf
    <3> QED
      BY <1>1, <1>4, <2>2, <2>4, <3>1 DEF Fired, Inserts
  <2> QED
    BY <2>3, <2>4
<1> QED
  BY <1>2, <1>3, <1>4

NoFillFailure == "fill_fails" \notin Faults

\* A GTT that was cancelled, expired or rejected never orders and never changes.
THEOREM WithdrawalIsFinal ==
    Orderly /\ NoFillFailure => (Spec => WithdrawnIsFinal)
<1> SUFFICES ASSUME Orderly, NoFillFailure
             PROVE  Spec => WithdrawnIsFinal
  OBVIOUS
<1>1. ASSUME TypeOK, Exclusive, TurnTrue, [Next]_vars, NEW g \in Gtt, status[g] \in Withdrawn
      PROVE  status'[g] = status[g] /\ Fired(g)' = {}
  <2>1. Fired(g) = {} /\ status[g] # "triggered"
    BY <1>1 DEF Exclusive, Withdrawn
  <2>2. \A s : <<status[g], s>> \notin Moves
    BY <1>1 DEF Moves, Withdrawn
  <2> QED
    BY <1>1, <2>1, <2>2, StepEffect, EffectOnFired DEF NoFillFailure, Decides, Inserts
<1>2. TypeOK /\ Exclusive /\ TurnTrue /\ [Next]_vars =>
        [\A g \in Gtt : status[g] \in Withdrawn =>
           status'[g] = status[g] /\ Fired(g)' = {}]_vars
  BY <1>1
<1> QED
  BY <1>2, TypeCorrect, ExclusionHolds, TurnHolds, PTL DEF Spec, WithdrawnIsFinal

\* Once an order is in the book the GTT is triggered for good.
THEOREM FiringIsFinal ==
    Orderly /\ NoFillFailure => (Spec => FiredIsFinal)
<1> SUFFICES ASSUME Orderly, NoFillFailure
             PROVE  Spec => FiredIsFinal
  OBVIOUS
<1>1. ASSUME TypeOK, Exclusive, TurnTrue, [Next]_vars, NEW g \in Gtt, Fired(g) # {}
      PROVE  status'[g] = "triggered" /\ Fired(g)' = Fired(g)
  <2>1. status[g] = "triggered"
    BY <1>1 DEF Exclusive
  <2> QED
    BY <1>1, <2>1, StepEffect, EffectOnFired DEF NoFillFailure, Decides, Inserts
<1>2. TypeOK /\ Exclusive /\ TurnTrue /\ [Next]_vars =>
        [\A g \in Gtt : Fired(g) # {} =>
           status'[g] = "triggered" /\ Fired(g)' = Fired(g)]_vars
  BY <1>1
<1> QED
  BY <1>2, TypeCorrect, ExclusionHolds, TurnHolds, PTL DEF Spec, FiredIsFinal

-----------------------------------------------------------------------------
(* Refinement *)

\* The protocol implements GTTPromise: every step arms, fires or withdraws one
\* GTT, or leaves every outcome alone.
THEOREM ImplementsPromise ==
    Orderly /\ NoFillFailure => (Spec => PromiseKept)
<1> SUFFICES ASSUME Orderly, NoFillFailure
             PROVE  Spec => PromiseKept
  OBVIOUS
<1>1. Init => Promise!PInit
  <2> SUFFICES ASSUME Init
               PROVE  Promise!PInit
    OBVIOUS
  <2>1. \A g \in Gtt : Fired(g) = {} /\ status[g] = "none"
    BY LegShape DEF Init, Fired
  <2>2. ASSUME NEW g \in Gtt
        PROVE  Outcome(g) = "none"
    <3>1. Fired(g) = {} /\ status[g] = "none"
      BY <2>1
    <3> QED
      BY <3>1 DEF Outcome, Withdrawn
  <2> QED
    BY <2>1, <2>2 DEF Promise!PInit
<1>2. TypeOK /\ Exclusive /\ TurnTrue /\ [Next]_vars => [Promise!PNext]_(Promise!pvars)
  <2> SUFFICES ASSUME TypeOK, Exclusive, TurnTrue, [Next]_vars
               PROVE  [Promise!PNext]_(Promise!pvars)
    OBVIOUS
  <2> USE DEF Promise!pvars
  <2>1. \A g \in Gtt : Fired(g) # {} => status[g] = "triggered"
    BY DEF Exclusive
  <2>2. CASE Quiescent
    <3>1. \A g \in Gtt : Fired(g)' = Fired(g) /\ Outcome(g)' = Outcome(g)
      BY <2>2, EffectOnFired DEF Outcome
    <3> QED
      BY <3>1
  <2>3. ASSUME NEW g \in Gtt, NEW s \in GttStatus, Decides(g, s)
        PROVE  [Promise!PNext]_(Promise!pvars)
    <3>1. \A h \in Gtt : Fired(h)' = Fired(h)
      BY <2>3, EffectOnFired
    <3>2. \A h \in Gtt \ {g} : Outcome(h)' = Outcome(h)
      BY <2>3, EffectOnFired DEF Outcome
    <3>3. Fired(g) = {} /\ Fired(g)' = {} /\ status'[g] = s /\ <<status[g], s>> \in Moves
      BY <2>3, EffectOnFired DEF Decides
    <3>4. CASE status[g] = "none"
      <4>1. Outcome(g) = "none" /\ Outcome(g)' = "armed"
        BY <3>3, <3>4 DEF Outcome, Moves, Withdrawn
      <4>2. Promise!Arm(g)
        BY <3>1, <3>2, <4>1 DEF Promise!Arm
      <4> QED
        BY <4>2 DEF Promise!PNext
    <3>5. CASE s \in Withdrawn
      <4>1. Outcome(g) = "armed" /\ Outcome(g)' = "withdrawn"
        BY <3>3, <3>5 DEF Outcome, Moves, Withdrawn
      <4>2. Promise!Withdrawal(g)
        BY <3>1, <3>2, <4>1 DEF Promise!Withdrawal
      <4> QED
        BY <4>2 DEF Promise!PNext
    <3>6. CASE status[g] # "none" /\ s \notin Withdrawn
      <4>1. Outcome(g)' = Outcome(g)
        BY <3>3, <3>6 DEF Outcome, Moves, Withdrawn
      <4> QED
        BY <3>1, <3>2, <4>1
    <3> QED
      BY <3>4, <3>5, <3>6
  <2>4. ASSUME NEW l \in Leg, Inserts(l)
        PROVE  [Promise!PNext]_(Promise!pvars)
    <3> DEFINE g == Parent(l)
    <3>1. g \in Gtt /\ l \in LegsOf(g) /\ Fired(g)' = {l}
      BY <2>4, LegShape, EffectOnFired
    <3>2. \A h \in Gtt \ {g} : Fired(h)' = Fired(h) /\ Outcome(h)' = Outcome(h)
      BY <2>4, EffectOnFired DEF Outcome
    <3>3. Outcome(g) = "armed" /\ Outcome(g)' = "fired"
      BY <2>4, <3>1 DEF Inserts, Outcome, Withdrawn
    <3>4. Promise!FireOne(g)
      BY <3>1, <3>2, <3>3 DEF Promise!FireOne
    <3> QED
      BY <3>1, <3>4 DEF Promise!PNext
  <2> QED
    BY <2>2, <2>3, <2>4, StepEffect DEF NoFillFailure
<1> QED
  BY <1>1, <1>2, TypeCorrect, ExclusionHolds, TurnHolds, PTL DEF Spec, PromiseKept, Promise!PSpec

-----------------------------------------------------------------------------
(* Markers *)

\* A worker past the INSERT of its order has it in the book.
PlacedIsInBook ==
    \A w \in Worker : wk[w].pc = "placed" => order[wk[w].leg].status # "none"

\* No order leaves the book, whatever becomes of it.
BookGrows == \A l \in Leg : order[l].status # "none" => order'[l].status # "none"

\* A step marks only legs whose orders are in the book already.
MarksBooked ==
    \A l \in Leg : leg'[l].marked => leg[l].marked \/ order[l].status # "none"

\* One step: the book keeps its orders, the legs that get a mark have theirs, and a
\* worker arrives behind its INSERT by making it.
LEMMA MarkStep ==
    ASSUME TypeOK, PlacedIsInBook, [Next]_vars
    PROVE  BookGrows /\ MarksBooked /\ PlacedIsInBook'
<1> USE GTTAssumption DEF GTTAssumption
<1>a. \A w \in Worker : wk[w].pc # "idle" => wk[w].leg \in Leg
  BY DEF TypeOK
<1>b. ASSUME UNCHANGED order
      PROVE  BookGrows
  BY <1>b DEF BookGrows
<1>c. ASSUME UNCHANGED leg
      PROVE  MarksBooked
  BY <1>c DEF MarksBooked
<1>d. ASSUME UNCHANGED wk, BookGrows
      PROVE  PlacedIsInBook'
  BY <1>a, <1>d DEF PlacedIsInBook, BookGrows
<1>1. ASSUME NEW g \in Gtt, Place(g)
      PROVE  BookGrows /\ MarksBooked /\ UNCHANGED wk
  BY <1>1, <1>b DEF Place, MarksBooked
<1>2. ASSUME NEW c \in Client, ClientStep(c)
      PROVE  BookGrows /\ MarksBooked /\ UNCHANGED wk
  <2>1. UNCHANGED <<order, wk>>
    BY <1>2 DEF ClientStep, Read, Cancel, Expire, Withdraw, Modify, rows
  <2>2. CASE UNCHANGED leg
    BY <2>1, <2>2, <1>b, <1>c
  <2>0. leg \in [Leg -> Rows]
    BY DEF TypeOK, Rows
  <2>3. CASE Cancel(c) \/ Expire(c)
    <3>1. \A l \in Leg : leg'[l].marked = leg[l].marked
      BY <2>0, <2>3 DEF Cancel, Expire, Withdraw, Rows
    <3> QED
      BY <2>1, <3>1, <1>b DEF MarksBooked
  <2>4. CASE Modify(c)
    BY <2>1, <2>4, <1>b DEF Modify, MarksBooked, TypeOK
  <2> QED
    BY <1>2, <2>2, <2>3, <2>4 DEF ClientStep, Read, rows
<1>3. ASSUME NEW w \in Worker, Fire(w)
      PROVE  BookGrows /\ MarksBooked /\ PlacedIsInBook'
  <2>0. wk \in [Worker -> Task] /\ leg \in [Leg -> Rows]
    BY DEF TypeOK, Task, Rows
  <2>1. CASE PlaceInsert(w)
    <3>1. BookGrows
      BY <1>a, <2>1 DEF PlaceInsert, BookGrows, TypeOK
    <3>2. UNCHANGED leg
      BY <2>1 DEF PlaceInsert
    <3>3. /\ \A u \in Worker : u # w => wk'[u] = wk[u]
          /\ wk'[w].leg = wk[w].leg
          /\ order'[wk[w].leg].status # "none"
      BY <1>a, <2>0, <2>1 DEF PlaceInsert, Carry, TypeOK
    <3> QED
      BY <1>a, <1>c, <3>1, <3>2, <3>3 DEF PlacedIsInBook, BookGrows
  <2>2. CASE ~PlaceInsert(w)
    <3>1. UNCHANGED order
      BY <1>3, <2>2 DEF Fire, Claim, ClaimParent, Release, PlaceBlock, Mark, Restore,
         Persist, Reject, RevertParent, RevertClaim, rows
    <3>2. MarksBooked
      BY <1>3, <2>0, <2>2, <1>c DEF Fire, Claim, ClaimParent, Release, PlaceBlock, Mark,
         Triggered, Restore, Persist, Reject, RevertParent, RevertClaim, rows, MarksBooked,
         PlacedIsInBook, Rows
    <3>3. /\ \A u \in Worker : u # w => wk'[u] = wk[u]
          /\ wk'[w].pc # "placed"
      BY <1>3, <2>0, <2>2 DEF Fire, Claim, ClaimParent, Release, PlaceBlock, Mark, Restore,
         Persist, Reject, RevertParent, RevertClaim, Goto, Carry, Done, IdleWorker, Task
    <3> QED
      BY <1>b, <3>1, <3>2, <3>3 DEF PlacedIsInBook
  <2> QED
    BY <2>1, <2>2
<1>4. CASE Reap
  <2>1. UNCHANGED <<order, wk>>
    BY <1>4 DEF Reap, ReapLegs, ReapRead, ReapBlock, ReapRearm
  <2>2. MarksBooked
    BY <1>4, <1>c DEF Reap, ReapLegs, ReapRead, ReapBlock, ReapRearm, Evidence, Triggered,
       MarksBooked, TypeOK
  <2> QED
    BY <2>1, <2>2, <1>b, <1>d
<1>5. ASSUME NEW l \in Leg, CancelChild(l) \/ FillFails(l)
      PROVE  BookGrows /\ MarksBooked /\ UNCHANGED wk
  <2>1. UNCHANGED <<leg, wk>>
    BY <1>5 DEF CancelChild, FillFails
  <2>2. BookGrows
    BY <1>5 DEF CancelChild, FillFails, BookGrows, TypeOK
  <2> QED
    BY <2>1, <2>2, <1>c
<1>6. ASSUME NEW w \in Worker, NEW l \in Leg, Observe(w, l)
      PROVE  BookGrows /\ MarksBooked /\ PlacedIsInBook'
  <2>1. UNCHANGED <<order, leg>>
    BY <1>6 DEF Observe, rows
  <2>2. \A u \in Worker : wk'[u] = wk[u] \/ wk'[u].pc = "crossed"
    BY <1>6 DEF Observe, TypeOK
  <2> QED
    BY <1>b, <1>c, <2>1, <2>2 DEF PlacedIsInBook
<1>7. CASE Crash
  BY <1>7, <1>b, <1>c DEF Crash, PlacedIsInBook, IdleWorker, rows
<1>8. CASE ResetFunds \/ ReadFunds \/ UNCHANGED vars
  <2>1. UNCHANGED <<order, leg, wk>>
    BY <1>8 DEF ResetFunds, ReadFunds, BlockRead, RestoreRead, RecoverRead, CancelRead, vars, rows
  <2> QED
    BY <2>1, <1>b, <1>c, <1>d
<1> QED
  BY <1>1, <1>2, <1>3, <1>4, <1>5, <1>6, <1>7, <1>8, <1>d DEF Next

\* fire_leg and the reaper mark a leg only for an order that exists, and none of the
\* ways an order ends (cancelled, rejected, with its GTT) takes it out of the book:
\* under every fault, a live reaper included.
THEOREM MarksAreTrue == Spec => []MarkedHasOrder
<1> DEFINE I == TypeOK /\ PlacedIsInBook /\ MarkedHasOrder
<1>1. Init => I
  BY TypeInit DEF Init, PlacedIsInBook, MarkedHasOrder, IdleWorker
<1>2. I /\ [Next]_vars => I'
  BY MarkStep, TypeNext DEF MarkedHasOrder, BookGrows, MarksBooked
<1>3. I => MarkedHasOrder
  OBVIOUS
<1> QED
  BY <1>1, <1>2, <1>3, PTL DEF Spec


-----------------------------------------------------------------------------
(* Sums *)

\* What is left of a sum without one amount.
Others(f, x) == UNION {{y} \X (1 .. f[y]) : y \in DOMAIN f \ {x}}

LEMMA UnitsFinite ==
    ASSUME NEW S, IsFiniteSet(S), NEW f \in [S -> Nat]
    PROVE  IsFiniteSet(UNION {{x} \X (1 .. f[x]) : x \in S})
<1> DEFINE T == {{x} \X (1 .. f[x]) : x \in S}
           F == [x \in S |-> {x} \X (1 .. f[x])]
<1>1. F \in Surjection(S, T)
  BY DEF Surjection
<1>2. IsFiniteSet(T)
  BY <1>1, FS_Surjection
<1>3. ASSUME NEW x \in S PROVE IsFiniteSet({x} \X (1 .. f[x]))
  <2>1. f[x] \in Nat /\ 1 \in Int /\ f[x] \in Int
    OBVIOUS
  <2>2. IsFiniteSet(1 .. f[x])
    BY <2>1, FS_Interval
  <2>3. IsFiniteSet({x})
    BY FS_Singleton
  <2> QED
    BY <2>2, <2>3, FS_Product
<1> QED
  BY <1>2, <1>3, FS_UNION

LEMMA SumSplit ==
    ASSUME NEW S, IsFiniteSet(S), NEW f \in [S -> Nat], NEW x \in S
    PROVE  /\ IsFiniteSet(Others(f, x)) /\ Cardinality(Others(f, x)) \in Nat
           /\ Sum(f) = Cardinality(Others(f, x)) + f[x]
<1> DEFINE R == Others(f, x)
           X == {x} \X (1 .. f[x])
<1>1. IsFiniteSet(R)
  <2>1. PICK h \in [S \ {x} -> Nat] : \A y \in S \ {x} : h[y] = f[y]
    <3>1. [y \in S \ {x} |-> f[y]] \in [S \ {x} -> Nat]
      OBVIOUS
    <3> QED
      BY <3>1
  <2>2. IsFiniteSet(S \ {x})
    BY FS_RemoveElement
  <2>3. IsFiniteSet(UNION {{y} \X (1 .. h[y]) : y \in S \ {x}})
    BY <2>2, UnitsFinite
  <2>4. R = UNION {{y} \X (1 .. h[y]) : y \in S \ {x}}
    BY <2>1 DEF Others
  <2> QED
    BY <2>3, <2>4
<1>2. IsFiniteSet(X) /\ Cardinality(X) = f[x]
  <2>1. f[x] \in Nat /\ IsFiniteSet(1 .. f[x]) /\ Cardinality(1 .. f[x]) = f[x]
    BY FS_Interval
  <2>2. IsFiniteSet({x}) /\ Cardinality({x}) = 1
    BY FS_Singleton
  <2>3. IsFiniteSet(X) /\ Cardinality(X) = 1 * f[x]
    BY <2>1, <2>2, FS_Product
  <2> QED
    BY <2>1, <2>3
<1>3. Units(f) = R \cup X /\ R \cap X = {}
  BY DEF Units, Others
<1>4. Cardinality(R \cap X) = 0
  BY <1>3, FS_EmptySet
<1>5. Cardinality(R) \in Nat
  BY <1>1, FS_CardinalityType
<1>6. Cardinality(R \cup X) = Cardinality(R) + Cardinality(X) - Cardinality(R \cap X)
  BY <1>1, <1>2, FS_Union
<1> QED
  BY <1>1, <1>2, <1>3, <1>4, <1>5, <1>6 DEF Sum

\* Two sums that differ in one amount.
LEMMA SumChange ==
    ASSUME NEW S, IsFiniteSet(S), NEW f \in [S -> Nat], NEW h \in [S -> Nat], NEW x \in S,
           \A y \in S \ {x} : h[y] = f[y]
    PROVE  Sum(h) = Sum(f) - f[x] + h[x]
<1>1. Others(h, x) = Others(f, x)
  BY DEF Others
<1> QED
  BY <1>1, SumSplit

LEMMA SumNat ==
    ASSUME NEW S, IsFiniteSet(S), NEW f \in [S -> Nat]
    PROVE  Sum(f) \in Nat
<1>1. Units(f) = UNION {{x} \X (1 .. f[x]) : x \in S}
  BY DEF Units
<1>2. IsFiniteSet(Units(f))
  BY <1>1, UnitsFinite
<1> QED
  BY <1>2, FS_CardinalityType DEF Sum

LEMMA SumZero ==
    ASSUME NEW S, NEW f \in [S -> Nat], \A x \in S : f[x] = 0
    PROVE  Sum(f) = 0
<1>1. Units(f) = {}
  BY DEF Units
<1> QED
  BY <1>1, FS_EmptySet DEF Sum

-----------------------------------------------------------------------------
(* What a step does to a GTT's money *)

Undisturbed == Faults \subseteq {"funds_reset"}

NoRejects == \A l \in Leg : order[l].status # "rejected"

\* A step leaves a GTT alone.
Untouched(g) ==
    /\ status'[g] = status[g] /\ reserved'[g] = reserved[g]
    /\ LargestLeg(g)' = LargestLeg(g)
    /\ Fired(g) # {} => Fired(g)' # {}

LEMMA Unmoved ==
    ASSUME NEW g \in Gtt, status'[g] = status[g], reserved'[g] = reserved[g],
           \A l \in LegsOf(g) : leg'[l].margin = leg[l].margin,
           \A l \in LegsOf(g) : order'[l].status = order[l].status
                                \/ order'[l].status \in {"open", "cancelled"}
    PROVE  Untouched(g)
<1>1. LargestLeg(g)' = LargestLeg(g)
  BY LegShape DEF LargestLeg, Larger
<1>2. Fired(g) # {} => Fired(g)' # {}
  BY DEF Fired
<1> QED
  BY <1>1, <1>2 DEF Untouched

\* The largest leg of a GTT is what it asks for, in the mode "max".
LEMMA AskIsLargest ==
    ASSUME OcoMode = "max", NEW g \in Gtt, NEW m \in [LegsOf(g) -> Nat],
           \A l \in LegsOf(g) : leg[l].margin = m[l]
    PROVE  Blocked(g, m) = LargestLeg(g)
BY LegShape DEF Blocked, LargestLeg

LEMMA AskIsLargestThen ==
    ASSUME OcoMode = "max", NEW g \in Gtt, NEW m \in [LegsOf(g) -> Nat],
           \A l \in LegsOf(g) : leg'[l].margin = m[l]
    PROVE  Blocked(g, m) = LargestLeg(g)'
BY LegShape DEF Blocked, LargestLeg

\* How a step of fire_leg moves money: s and r are what it makes of the GTT's
\* status and reservation, n what it takes into use, x what the thread is after it.
FireMoves(k, st, rs, s, r, n, x) ==
    /\ (x.leg = k.leg \/ x.pc = "idle")
    /\ \/ /\ k.pc \in {"crossed", "claimed", "placed", "disown"}
          /\ x.pc \in {"claimed", "idle", "disown"} /\ s = st /\ r = rs /\ n = 0
          /\ x.held \in {0, k.held}
       \/ /\ k.pc = "claimed" /\ x.pc = "owned" /\ st = "active" /\ s = "triggered"
          /\ r = rs /\ n = 0 /\ x.held = k.held
       \/ /\ k.pc = "owned" /\ x.pc = "released" /\ s = st
          /\ r = 0 /\ n = -rs /\ x.freed = rs /\ x.held = 0
       \/ /\ k.pc = "owned" /\ x.pc = "revert" /\ s = st
          /\ r = rs /\ n = 0 /\ x.held = k.held
       \/ /\ k.pc = "released" /\ x.pc = "blocked" /\ s = st
          /\ r = rs /\ n = x.held /\ x.freed = k.freed
       \/ /\ k.pc = "released" /\ x.pc = "failed" /\ s = st
          /\ r = rs /\ n = 0 /\ x.freed = k.freed /\ x.held = k.held
       \/ /\ k.pc = "failed" /\ x.pc = "revert" /\ s = st /\ k.freed = 0
          /\ r = rs /\ n = 0 /\ x.held = k.held
       \/ /\ k.pc = "failed" /\ x.pc = "restored" /\ s = st
          /\ r = rs /\ n = k.freed /\ x.freed = k.freed /\ x.held = k.held
       \/ /\ k.pc = "failed" /\ x.pc = "unfunded" /\ s = st
          /\ r = rs /\ n = 0 /\ x.freed = k.freed /\ x.held = k.held
       \/ /\ k.pc = "restored" /\ x.pc = "revert" /\ s = st
          /\ r = k.freed /\ n = 0 /\ x.held = k.held
       \/ /\ k.pc = "unfunded" /\ x.pc = "disown" /\ s = "rejected"
          /\ r = 0 /\ n = 0 /\ x.held = k.held
       \/ /\ k.pc = "revert" /\ x.pc = "disown" /\ s = "active"
          /\ r = rs /\ n = 0 /\ x.held = k.held

\* n more is in use, if no update was lost.
Spends(n) == ~raced' => used' = used + n

\* fire_leg but for the INSERT of its order.
Fires(w, g) ==
    \E k, x \in Task, st, s \in GttStatus, rs, r, n \in Int :
        /\ k = wk[w] /\ st = status[g] /\ rs = reserved[g]
        /\ FireMoves(k, st, rs, s, r, n, x)
        /\ status' = [status EXCEPT ![g] = s]
        /\ reserved' = [reserved EXCEPT ![g] = r]
        /\ Spends(n)
        /\ wk' = [wk EXCEPT ![w] = x]
        /\ UNCHANGED order
        /\ \A l \in Leg : leg'[l].margin = leg[l].margin

\* The INSERT.
InsertsOwn(w, l) ==
    /\ wk[w].pc = "blocked" /\ order[l].status = "none"
    /\ order' = [order EXCEPT ![l] = [status |-> "open", margin |-> wk[w].held]]
    /\ \E x \in Task : /\ wk' = [wk EXCEPT ![w] = x]
                       /\ x.pc = "placed" /\ x.leg = l /\ x.held = 0
    /\ UNCHANGED <<status, reserved, leg, used>>

LEMMA WorkersTask ==
    ASSUME TypeOK, NEW w \in Worker
    PROVE  /\ wk[w] \in Task
           /\ wk[w].pc # "idle" => wk[w].leg \in Leg /\ Parent(wk[w].leg) \in Gtt
           /\ \A pc \in WorkerPC : [wk[w] EXCEPT !.pc = pc] \in Task
           /\ \A pc \in WorkerPC, f, h \in Nat :
                 [pc |-> pc, leg |-> wk[w].leg, freed |-> f, held |-> h] \in Task
           /\ IdleWorker \in Task
<1>1. wk[w] \in Task
  BY DEF TypeOK, Task
<1>2. IdleWorker \in Task
  BY DEF Task, IdleWorker, WorkerPC
<1>3. wk[w].pc # "idle" => wk[w].leg \in Leg /\ Parent(wk[w].leg) \in Gtt
  BY LegShape DEF TypeOK
<1> QED
  BY <1>1, <1>2, <1>3 DEF Task

\* A thread that goes to another place, or lets go.
LEMMA GotoIs ==
    ASSUME TypeOK, NEW w \in Worker, NEW pc \in WorkerPC, Goto(w, pc)
    PROVE  \E x \in Task : /\ wk' = [wk EXCEPT ![w] = x] /\ x.pc = pc /\ x.leg = wk[w].leg
                           /\ x.freed = wk[w].freed /\ x.held = wk[w].held
<1>1. PICK x : x = [wk[w] EXCEPT !.pc = pc]
  OBVIOUS
<1>2. x \in Task /\ wk' = [wk EXCEPT ![w] = x]
  BY <1>1, WorkersTask DEF Goto, TypeOK
<1>3. x.pc = pc /\ x.leg = wk[w].leg /\ x.freed = wk[w].freed /\ x.held = wk[w].held
  BY <1>1, WorkersTask DEF Task
<1> QED
  BY <1>2, <1>3

LEMMA CarryIs ==
    ASSUME TypeOK, NEW w \in Worker, NEW pc \in WorkerPC, NEW f \in Nat, NEW h \in Nat, Carry(w, pc, f, h)
    PROVE  \E x \in Task : /\ wk' = [wk EXCEPT ![w] = x] /\ x.pc = pc /\ x.leg = wk[w].leg
                           /\ x.freed = f /\ x.held = h
<1>1. PICK x : x = [pc |-> pc, leg |-> wk[w].leg, freed |-> f, held |-> h]
  OBVIOUS
<1>2. x \in Task /\ wk' = [wk EXCEPT ![w] = x]
  BY <1>1, WorkersTask DEF Carry
<1> QED
  BY <1>1, <1>2

LEMMA DoneIs ==
    ASSUME TypeOK, NEW w \in Worker, Done(w)
    PROVE  \E x \in Task : wk' = [wk EXCEPT ![w] = x] /\ x.pc = "idle" /\ x.freed = 0 /\ x.held = 0
<1>1. IdleWorker.pc = "idle" /\ IdleWorker.freed = 0 /\ IdleWorker.held = 0
  BY DEF IdleWorker
<1> QED
  BY <1>1, WorkersTask DEF Done

LEMMA WriteSpends ==
    ASSUME TypeOK, TurnTrue, turn.role # "free", Write
    PROVE  Spends(turn.delta)
BY DEF TypeOK, TurnTrue, Write, Spends

LEMMA FireShape ==
    ASSUME TypeOK, TurnTrue, Exclusive, Undisturbed, NoRejects, NEW w \in Worker, Fire(w)
    PROVE  /\ wk[w].pc # "idle" /\ wk[w].leg \in Leg /\ Parent(wk[w].leg) \in Gtt
           /\ Fires(w, Parent(wk[w].leg)) \/ InsertsOwn(w, wk[w].leg)
           /\ UNCHANGED <<rp, cl, crashes>>
<1> DEFINE l == wk[w].leg
           g == Parent(wk[w].leg)
<1>0. wk[w].pc # "idle" /\ UNCHANGED <<rp, cl, crashes>>
  BY DEF Fire, Claim, ClaimParent, Release, PlaceBlock, PlaceInsert, Mark, Restore, Persist,
         Reject, RevertParent, RevertClaim
<1>a. l \in Leg /\ g \in Gtt /\ l \in LegsOf(g)
  BY <1>0, WorkersTask, LegShape
<1>b. PICK k \in Task, s0 \in GttStatus, r0, z \in Nat : k = wk[w] /\ s0 = status[g] /\ r0 = reserved[g] /\ z = 0
  BY <1>a, WorkersTask DEF TypeOK
<1>i. r0 \in Int /\ z \in Int /\ used \in Nat /\ k.freed \in Nat /\ k.held \in Nat
  BY DEF Task, TypeOK
<1>c. status = [status EXCEPT ![g] = s0] /\ reserved = [reserved EXCEPT ![g] = r0]
  BY <1>a, <1>b DEF TypeOK
<1>d. ~MayFail /\ {"active", "triggered", "rejected"} \subseteq GttStatus
  BY DEF MayFail, Undisturbed, GttStatus
<1>e. Owns(w) => status[g] = "triggered" /\ Fired(g) = {}
  BY DEF Exclusive
<1>f. /\ \A j \in Leg : [leg[j] EXCEPT !.status = "triggering"].margin = leg[j].margin
      /\ \A j \in Leg : [leg[j] EXCEPT !.status = "pending"].margin = leg[j].margin
      /\ \A j \in Leg : [leg[j] EXCEPT !.status = "cancelled"].margin = leg[j].margin
      /\ \A j \in Leg : Triggered(j).margin = leg[j].margin
  BY DEF TypeOK, Triggered
<1>k. {"claimed", "idle", "disown", "owned", "revert", "failed", "restored", "unfunded", "released",
       "blocked", "placed"} \subseteq WorkerPC
  BY DEF WorkerPC
<1>h. ASSUME UNCHANGED order, \A j \in Leg : leg'[j].margin = leg[j].margin,
             NEW s \in GttStatus, NEW r \in Int, NEW n \in Int, NEW x \in Task,
             status' = [status EXCEPT ![g] = s], reserved' = [reserved EXCEPT ![g] = r], Spends(n),
             wk' = [wk EXCEPT ![w] = x], FireMoves(k, s0, r0, s, r, n, x)
      PROVE  Fires(w, g)
  BY <1>b, <1>h, <1>i DEF Fires
<1>g. ASSUME NEW pc \in WorkerPC, Goto(w, pc), UNCHANGED order, \A j \in Leg : leg'[j].margin = leg[j].margin,
             NEW s \in GttStatus, NEW r \in Int, NEW n \in Int,
             status' = [status EXCEPT ![g] = s], reserved' = [reserved EXCEPT ![g] = r], Spends(n),
             \A x \in Task : x.pc = pc /\ x.leg = k.leg /\ x.held = k.held /\ x.freed = k.freed =>
                 FireMoves(k, s0, r0, s, r, n, x)
      PROVE  Fires(w, g)
  <2>1. PICK x \in Task : /\ wk' = [wk EXCEPT ![w] = x] /\ x.pc = pc /\ x.leg = k.leg
                          /\ x.freed = k.freed /\ x.held = k.held
    BY <1>b, <1>g, GotoIs
  <2>2. FireMoves(k, s0, r0, s, r, n, x)
    BY <1>g, <2>1
  <2> QED
    BY <1>g, <1>h, <2>1, <2>2
<1>1. CASE Claim(w)
  <2>1. status' = status /\ reserved' = reserved /\ order' = order /\ Spends(z)
        /\ k.pc = "crossed"
    BY <1>1, <1>b, <1>i DEF Claim, funds, Spends
  <2>2. \A j \in Leg : leg'[j].margin = leg[j].margin
    BY <1>b, <1>i, <1>1, <1>a, <1>f DEF Claim, TypeOK
  <2>3. PICK x \in Task : /\ wk' = [wk EXCEPT ![w] = x] /\ x.pc \in {"claimed", "idle"}
                          /\ (x.leg = k.leg \/ x.pc = "idle")
                          /\ x.held \in {0, k.held}
    BY <1>b, <1>i, <1>1, <1>k, GotoIs, DoneIs DEF Claim
  <2>4. FireMoves(k, s0, r0, s0, r0, z, x)
    BY <1>b, <1>i, <2>1, <2>3 DEF FireMoves
  <2> QED
    BY <1>h, <1>0, <1>a, <1>b, <1>i, <1>c, <2>1, <2>2, <2>3, <2>4
<1>2. CASE ClaimParent(w)
  <2>1. reserved' = reserved /\ order' = order /\ Spends(z) /\ leg' = leg
        /\ k.pc = "claimed"
    BY <1>2, <1>b, <1>i DEF ClaimParent, funds, Spends
  <2>2. PICK x \in Task, s \in GttStatus :
          /\ wk' = [wk EXCEPT ![w] = x] /\ (x.leg = k.leg \/ x.pc = "idle")
          /\ x.held \in {0, k.held}
          /\ status' = [status EXCEPT ![g] = s]
          /\ \/ x.pc \in {"idle", "disown"} /\ s = s0
             \/ /\ x.pc = "owned" /\ s0 = "active" /\ s = "triggered" /\ x.held = k.held
    BY <1>2, <1>b, <1>i, <1>c, <1>d, <1>k, GotoIs, DoneIs DEF ClaimParent
  <2>3. FireMoves(k, s0, r0, s, r0, z, x)
    BY <1>b, <1>i, <2>1, <2>2 DEF FireMoves
  <2> QED
    BY <1>h, <1>0, <1>a, <1>b, <1>i, <1>c, <2>1, <2>2, <2>3
<1>3. CASE Release(w)
  <2>1. status' = status /\ order' = order /\ leg' = leg /\ k.pc = "owned"
    BY <1>b, <1>i, <1>3 DEF Release
  <2>2. CASE Goto(w, "revert") /\ UNCHANGED <<reserved, funds>>
    <3>1. Spends(z)
      BY <1>b, <1>i, <2>2 DEF funds, Spends
    <3>2. \A x \in Task : x.pc = "revert" /\ x.leg = k.leg /\ x.held = k.held =>
                 FireMoves(k, s0, r0, s0, r0, z, x)
      BY <1>b, <1>i, <2>1 DEF FireMoves
    <3> QED
      BY <1>0, <1>a, <1>b, <1>i, <1>c, <1>g, <1>k, <2>1, <2>2, <3>1, <3>2
  <2>3. CASE /\ Move(-reserved[g]) /\ reserved' = [reserved EXCEPT ![g] = 0]
             /\ Carry(w, "released", reserved[g], 0)
    <3>0. Carry(w, "released", r0, z) /\ reserved' = [reserved EXCEPT ![g] = z]
      BY <1>b, <2>3
    <3>1. PICK n \in Int : n = -r0
      BY <1>b, <1>i
    <3>2. Spends(n)
      BY <1>b, <1>i, <2>3, <3>1 DEF Move, Spends
    <3>4. PICK x \in Task : /\ wk' = [wk EXCEPT ![w] = x] /\ x.pc = "released" /\ x.leg = k.leg
                            /\ x.freed = r0 /\ x.held = z
      BY <1>b, <1>i, <1>k, <3>0, CarryIs
    <3>5. FireMoves(k, s0, r0, s0, z, n, x)
      BY <1>b, <1>i, <2>1, <3>1, <3>4 DEF FireMoves
    <3> QED
      BY <1>h, <1>0, <1>a, <1>b, <1>i, <1>c, <2>1, <3>0, <3>2, <3>4, <3>5
  <2> QED
    BY <1>b, <1>i, <1>3, <2>2, <2>3 DEF Release
<1>4. CASE PlaceBlock(w)
  <2>1. status' = status /\ reserved' = reserved /\ order' = order /\ leg' = leg /\ k.pc = "released"
    BY <1>b, <1>i, <1>4 DEF PlaceBlock, rows
  <2>2. CASE Goto(w, "failed") /\ UNCHANGED funds
    <3>1. Spends(z)
      BY <1>b, <1>i, <2>2 DEF funds, Spends
    <3>2. \A x \in Task : x.pc = "failed" /\ x.leg = k.leg /\ x.held = k.held /\ x.freed = k.freed =>
                 FireMoves(k, s0, r0, s0, r0, z, x)
      BY <1>b, <1>i, <2>1 DEF FireMoves
    <3> QED
      BY <1>0, <1>a, <1>b, <1>i, <1>c, <1>g, <1>k, <2>1, <2>2, <3>1, <3>2
  <2>3. ASSUME NEW m \in Nat, Spends(m), Carry(w, "blocked", wk[w].freed, m)
        PROVE  Fires(w, g)
    <3>2. PICK f \in Nat : f = k.freed /\ Carry(w, "blocked", f, m)
      BY <1>b, <1>i, <2>3
    <3>4. PICK x \in Task : /\ wk' = [wk EXCEPT ![w] = x] /\ x.pc = "blocked" /\ x.leg = k.leg
                            /\ x.freed = f /\ x.held = m
      BY <1>b, <1>i, <1>k, <2>3, <3>2, CarryIs
    <3>5. FireMoves(k, s0, r0, s0, r0, m, x)
      BY <1>b, <1>i, <2>1, <3>2, <3>4 DEF FireMoves
    <3>6. /\ status' = [status EXCEPT ![g] = s0] /\ reserved' = [reserved EXCEPT ![g] = r0]
          /\ \A j \in Leg : leg'[j].margin = leg[j].margin
          /\ m \in Int /\ UNCHANGED order
      BY <1>c, <2>1
    <3> QED
      BY <1>h, <1>i, <2>3, <3>4, <3>5, <3>6
  <2>4. CASE UNCHANGED funds /\ Carry(w, "blocked", wk[w].freed, 0)
    <3>1. PICK m \in Nat : m = 0
      OBVIOUS
    <3>2. Spends(m)
      BY <1>i, <2>4, <3>1 DEF funds, Spends
    <3>3. Carry(w, "blocked", wk[w].freed, m)
      BY <2>4, <3>1
    <3> QED
      BY <1>0, <1>a, <2>3, <3>2, <3>3
  <2>5. CASE Holds("fire", w) /\ Write /\ Carry(w, "blocked", wk[w].freed, turn.delta)
    <3>1. PICK m \in Nat : m = turn.delta
      BY <2>5 DEF Holds, TypeOK
    <3>2. Spends(m)
      BY <2>5, <3>1, WriteSpends DEF Holds
    <3>3. Carry(w, "blocked", wk[w].freed, m)
      BY <2>5, <3>1
    <3> QED
      BY <1>0, <1>a, <2>3, <3>2, <3>3
  <2> QED
    BY <1>d, <1>4, <2>2, <2>4, <2>5 DEF PlaceBlock
<1>5. CASE PlaceInsert(w)
  <2>1. UNCHANGED <<status, reserved, leg, used>> /\ k.pc = "blocked"
    BY <1>b, <1>i, <1>5 DEF PlaceInsert, funds, Spends
  <2>2. order[l].status = "none"
    BY <1>b, <1>i, <1>a, <1>e, <2>1 DEF Owns, Fired, NoRejects
  <2>3. order' = [order EXCEPT ![l] = [status |-> "open", margin |-> wk[w].held]]
        /\ Carry(w, "placed", wk[w].freed, 0)
    BY <1>b, <1>i, <1>5, <2>2 DEF PlaceInsert, Undisturbed
  <2>4. PICK f \in Nat : f = k.freed /\ Carry(w, "placed", f, z)
    BY <1>b, <1>i, <2>3
  <2>5. PICK x \in Task : /\ wk' = [wk EXCEPT ![w] = x] /\ x.pc = "placed" /\ x.leg = k.leg
                          /\ x.held = z
    BY <1>b, <1>i, <1>k, <2>3, <2>4, CarryIs
  <2>6. InsertsOwn(w, l)
    BY <1>b, <1>i, <2>1, <2>2, <2>3, <2>4, <2>5 DEF InsertsOwn
  <2> QED
    BY <1>b, <1>i, <1>0, <1>a, <2>6
<1>6. CASE Mark(w)
  <2>1. status' = status /\ reserved' = reserved /\ order' = order /\ Spends(z)
        /\ k.pc = "placed" /\ Done(w)
    BY <1>6, <1>b, <1>i DEF Mark, funds, Spends
  <2>2. \A j \in Leg : leg'[j].margin = leg[j].margin
    BY <1>b, <1>i, <1>6, <1>d, <1>f DEF Mark
  <2>3. PICK x \in Task : wk' = [wk EXCEPT ![w] = x] /\ x.pc = "idle" /\ x.held = 0
    BY <1>b, <1>i, <2>1, DoneIs
  <2>4. FireMoves(k, s0, r0, s0, r0, z, x)
    BY <1>b, <1>i, <2>1, <2>3 DEF FireMoves
  <2> QED
    BY <1>h, <1>0, <1>a, <1>b, <1>i, <1>c, <2>1, <2>2, <2>3, <2>4
<1>7. CASE Restore(w)
  <2>1. status' = status /\ reserved' = reserved /\ order' = order /\ leg' = leg /\ k.pc = "failed"
    BY <1>b, <1>i, <1>7 DEF Restore, rows
  <2>2. CASE \E pc \in {"revert", "unfunded"} : Goto(w, pc) /\ UNCHANGED funds
                                               /\ (pc = "revert" => wk[w].freed = 0)
    <3>0. PICK pc \in {"revert", "unfunded"} : Goto(w, pc) /\ UNCHANGED funds
                                               /\ (pc = "revert" => wk[w].freed = 0)
      BY <1>b, <1>i, <2>2
    <3>1. Spends(z)
      BY <1>b, <1>i, <3>0 DEF funds, Spends
    <3>2. \A x \in Task : x.pc = pc /\ x.leg = k.leg /\ x.held = k.held /\ x.freed = k.freed =>
                 FireMoves(k, s0, r0, s0, r0, z, x)
      BY <1>b, <1>i, <2>1, <3>0 DEF FireMoves
    <3> QED
      BY <1>0, <1>a, <1>b, <1>i, <1>c, <1>g, <1>k, <2>1, <3>0, <3>1, <3>2
  <2>3. CASE Holds("fire", w) /\ Write /\ Goto(w, "restored")
    <3>0. PICK n \in Nat : n = k.freed
      BY <1>b, <1>i
    <3>1. turn.delta = n
      BY <1>b, <2>1, <2>3, <3>0 DEF Holds, TurnTrue
    <3>2. Spends(n)
      BY <2>3, <3>1, WriteSpends DEF Holds
    <3>3. \A x \in Task : x.pc = "restored" /\ x.leg = k.leg /\ x.held = k.held /\ x.freed = k.freed =>
                 FireMoves(k, s0, r0, s0, r0, n, x)
      BY <1>b, <1>i, <2>1, <3>0 DEF FireMoves
    <3> QED
      BY <1>0, <1>a, <1>b, <1>i, <1>c, <1>g, <1>k, <2>1, <2>3, <3>0, <3>2, <3>3
  <2> QED
    BY <1>b, <1>d, <1>i, <1>7, <2>2, <2>3 DEF Restore, Short
<1>8. CASE Persist(w)
  <2>1. order' = order /\ leg' = leg /\ k.pc = "restored"
        /\ Spends(z) /\ Goto(w, "revert")
        /\ status' = [status EXCEPT ![g] = s0]
    BY <1>8, <1>b, <1>c, <1>i DEF Persist, funds, Spends
  <2> PICK r \in Nat : r = k.freed
    BY <1>i
  <2>2. r \in Int /\ reserved' = [reserved EXCEPT ![g] = r]
    BY <1>b, <1>8, <1>d DEF Persist
  <2>3. PICK x \in Task : /\ wk' = [wk EXCEPT ![w] = x] /\ x.pc = "revert" /\ x.leg = k.leg
                          /\ x.held = k.held
    BY <1>b, <1>k, <2>1, GotoIs
  <2>4. FireMoves(k, s0, r0, s0, r, z, x)
    BY <1>b, <1>i, <2>1, <2>3 DEF FireMoves
  <2>m. UNCHANGED order /\ \A j \in Leg : leg'[j].margin = leg[j].margin
    BY <2>1
  <2> QED
    BY <1>0, <1>a, <1>h, <1>i, <2>m, <2>1, <2>2, <2>3, <2>4
<1>9. CASE Reject(w)
  <2> PICK s \in GttStatus : s = "rejected"
    BY <1>d
  <2>1. order' = order /\ leg' = leg /\ k.pc = "unfunded"
        /\ Spends(z) /\ Goto(w, "disown")
        /\ status' = [status EXCEPT ![g] = s] /\ reserved' = [reserved EXCEPT ![g] = z]
    BY <1>9, <1>b, <1>i, <1>d DEF Reject, funds, Spends
  <2>2. PICK x \in Task : /\ wk' = [wk EXCEPT ![w] = x] /\ x.pc = "disown" /\ x.leg = k.leg
                          /\ x.held = k.held
    BY <1>b, <1>k, <2>1, GotoIs
  <2>3. FireMoves(k, s0, r0, s, z, z, x)
    BY <1>b, <1>i, <2>1, <2>2 DEF FireMoves
  <2>m. UNCHANGED order /\ \A j \in Leg : leg'[j].margin = leg[j].margin
    BY <2>1
  <2> QED
    BY <1>0, <1>a, <1>h, <1>i, <2>m, <2>1, <2>2, <2>3
<1>10. CASE RevertParent(w)
  <2> PICK s \in GttStatus : s = "active"
    BY <1>d
  <2>1. order' = order /\ leg' = leg /\ k.pc = "revert" /\ Spends(z) /\ Goto(w, "disown")
        /\ reserved' = [reserved EXCEPT ![g] = r0]
        /\ status' = [status EXCEPT ![g] = IF @ = "triggered" THEN "active" ELSE @]
    BY <1>10, <1>b, <1>c, <1>i, <1>d DEF RevertParent, funds, Spends
  <2>2. status[g] = "triggered"
    BY <1>b, <1>e, <2>1 DEF Owns
  <2>3. status' = [status EXCEPT ![g] = s]
    BY <2>1, <2>2
  <2>4. PICK x \in Task : /\ wk' = [wk EXCEPT ![w] = x] /\ x.pc = "disown" /\ x.leg = k.leg
                          /\ x.held = k.held
    BY <1>b, <1>k, <2>1, GotoIs
  <2>5. FireMoves(k, s0, r0, s, r0, z, x)
    BY <1>b, <1>i, <2>1, <2>4 DEF FireMoves
  <2>m. UNCHANGED order /\ \A j \in Leg : leg'[j].margin = leg[j].margin
    BY <2>1
  <2> QED
    BY <1>0, <1>a, <1>h, <1>i, <2>m, <2>1, <2>3, <2>4, <2>5
<1>11. CASE RevertClaim(w)
  <2>1. status' = status /\ reserved' = reserved /\ order' = order /\ Spends(z)
        /\ k.pc = "disown" /\ Done(w)
    BY <1>11, <1>b, <1>i DEF RevertClaim, funds, Spends
  <2>2. \A j \in Leg : leg'[j].margin = leg[j].margin
    BY <1>b, <1>i, <1>11, <1>a, <1>d, <1>f DEF RevertClaim, TypeOK
  <2>3. PICK x \in Task : wk' = [wk EXCEPT ![w] = x] /\ x.pc = "idle" /\ x.held = 0
    BY <1>b, <1>i, <2>1, DoneIs
  <2>4. FireMoves(k, s0, r0, s0, r0, z, x)
    BY <1>b, <1>i, <2>1, <2>3 DEF FireMoves
  <2> QED
    BY <1>h, <1>0, <1>a, <1>b, <1>i, <1>c, <2>1, <2>2, <2>3, <2>4
<1> QED
  BY <1>b, <1>i, <1>1, <1>2, <1>3, <1>4, <1>5, <1>6, <1>7, <1>8, <1>9, <1>10, <1>11 DEF Fire

-----------------------------------------------------------------------------
(* Every row's reservation *)

\* A thread that has given its GTT's reservation back and not yet decided.
Freed(w) == wk[w].pc \in {"released", "blocked", "failed", "restored", "unfunded"}

\* An order that does not exist blocks nothing, and none was rejected.
OrderSettled(l) ==
    /\ order[l].status # "rejected"
    /\ order[l].status = "none" => order[l].margin = 0

\* An armed GTT holds what it asks for, one being fired all of it or nothing.
GttSettled(g) ==
    /\ status[g] = "none" => reserved[g] = 0
    /\ OcoMode = "max" =>
         /\ status[g] = "active" => reserved[g] = LargestLeg(g)
         /\ status[g] = "triggered" /\ Fired(g) = {} => reserved[g] \in {0, LargestLeg(g)}

\* The owner of a GTT remembers what its row no longer says.
WorkerSettled(w) ==
    /\ wk[w].held # 0 => wk[w].pc = "blocked"
    /\ Freed(w) => reserved[Parent(wk[w].leg)] = 0
    /\ OcoMode = "max" =>
         /\ wk[w].pc \in {"owned", "revert"} =>
              reserved[Parent(wk[w].leg)] = LargestLeg(Parent(wk[w].leg))
         /\ Freed(w) /\ wk[w].pc # "unfunded" => wk[w].freed = LargestLeg(Parent(wk[w].leg))

\* The reaper asks for what the row it read has lost, if it lost anything.
ReaperSettled == rp.pc \in {"block", "rearm"} =>
    /\ rp.kept = reserved[rp.gtt]
    /\ rp.need = IF rp.kept > 0 THEN 0 ELSE LargestLeg(rp.gtt)

Settled ==
    /\ \A l \in Leg : OrderSettled(l)
    /\ \A g \in Gtt : GttSettled(g)
    /\ \A w \in Worker : WorkerSettled(w)
    /\ ReaperSettled

\* A thread whose row a step leaves alone.
LEMMA WorkerFrame ==
    ASSUME TypeOK, NEW w \in Worker, WorkerSettled(w), wk'[w] = wk[w],
           Owns(w) => Untouched(Parent(wk[w].leg))
    PROVE  WorkerSettled(w)'
<1>1. CASE Owns(w)
  <2>1. PICK h \in Gtt : h = Parent(wk[w].leg)
    BY <1>1, WorkersTask DEF Owns
  <2>2. Untouched(h) /\ Parent(wk'[w].leg) = h
    BY <1>1, <2>1
  <2>3. reserved'[h] = reserved[h] /\ LargestLeg(h)' = LargestLeg(h)
    BY <2>2 DEF Untouched
  <2> QED
    BY <2>1, <2>2, <2>3 DEF WorkerSettled, Freed
<1>2. CASE ~Owns(w)
  BY <1>2 DEF WorkerSettled, Freed, Owns
<1> QED
  BY <1>1, <1>2

LEMMA ReaperFrame ==
    ASSUME TypeOK, ReaperSettled, rp' = rp,
           rp.pc \in {"block", "rearm"} => Untouched(rp.gtt)
    PROVE  ReaperSettled'
<1>1. CASE rp.pc \in {"block", "rearm"}
  <2>1. PICK h \in Gtt : h = rp.gtt
    BY <1>1 DEF TypeOK
  <2>2. reserved'[h] = reserved[h] /\ LargestLeg(h)' = LargestLeg(h)
    BY <1>1, <2>1 DEF Untouched
  <2> QED
    BY <2>1, <2>2 DEF ReaperSettled
<1>2. CASE rp.pc \notin {"block", "rearm"}
  BY <1>2 DEF ReaperSettled
<1> QED
  BY <1>1, <1>2

\* What a step leaves alone stays settled.
LEMMA SettledFrame ==
    ASSUME TypeOK, Settled, NEW g \in Gtt, \A h \in Gtt \ {g} : Untouched(h),
           \A l \in Leg : OrderSettled(l)',
           GttSettled(g)',
           \A w \in Worker : \/ WorkerSettled(w)'
                             \/ wk'[w] = wk[w] /\ (Owns(w) => Parent(wk[w].leg) # g),
           \/ ReaperSettled'
           \/ rp' = rp /\ (rp.pc \in {"block", "rearm"} => rp.gtt # g)
    PROVE  Settled'
<1>1. ASSUME NEW h \in Gtt PROVE GttSettled(h)'
  <2>1. CASE h # g
    BY <2>1 DEF Settled, GttSettled, Untouched
  <2> QED
    BY <2>1
<1>2. ASSUME NEW w \in Worker PROVE WorkerSettled(w)'
  <2>1. CASE wk'[w] = wk[w] /\ (Owns(w) => Parent(wk[w].leg) # g)
    <3>1. Owns(w) => Parent(wk[w].leg) \in Gtt \ {g}
      BY <2>1, WorkersTask DEF Owns
    <3> QED
      BY <2>1, <3>1, WorkerFrame DEF Settled
  <2> QED
    BY <2>1
<1>3. ReaperSettled'
  <2>1. CASE rp' = rp /\ (rp.pc \in {"block", "rearm"} => rp.gtt # g)
    <3>1. rp.pc \in {"block", "rearm"} => rp.gtt \in Gtt \ {g}
      BY <2>1 DEF TypeOK
    <3> QED
      BY <2>1, <3>1, ReaperFrame DEF Settled
  <2> QED
    BY <2>1
<1> QED
  BY <1>1, <1>2, <1>3 DEF Settled

LEMMA SettledStill ==
    ASSUME TypeOK, Settled, \A h \in Gtt : Untouched(h),
           \A l \in Leg : OrderSettled(l)',
           \A w \in Worker : WorkerSettled(w)' \/ wk'[w] = wk[w],
           ReaperSettled' \/ rp' = rp
    PROVE  Settled'
<1>1. ASSUME NEW h \in Gtt PROVE GttSettled(h)'
  BY DEF Settled, GttSettled, Untouched
<1>2. ASSUME NEW w \in Worker PROVE WorkerSettled(w)'
  <2>1. CASE wk'[w] = wk[w]
    <3>1. Owns(w) => Parent(wk[w].leg) \in Gtt
      BY <2>1, WorkersTask DEF Owns
    <3> QED
      BY <2>1, <3>1, WorkerFrame DEF Settled
  <2> QED
    BY <2>1
<1>3. ReaperSettled'
  <2>1. CASE rp' = rp
    <3>1. rp.pc \in {"block", "rearm"} => rp.gtt \in Gtt
      BY DEF TypeOK
    <3> QED
      BY <2>1, <3>1, ReaperFrame DEF Settled
  <2> QED
    BY <2>1
<1> QED
  BY <1>1, <1>2, <1>3 DEF Settled

\* What FireMoves says of the row and of the thread, k before and x after; big is
\* the largest leg, and m says whether that is what the GTT asks for.
Asks(m, st, rs, big) ==
    /\ st = "none" => rs = 0
    /\ m /\ st = "active" => rs = big
Remembers(m, k, rs, big) ==
    /\ k.held # 0 => k.pc = "blocked"
    /\ k.pc \in {"released", "blocked", "failed", "restored", "unfunded"} => rs = 0
    /\ m => /\ k.pc \in {"owned", "revert"} => rs = big
            /\ k.pc \in {"released", "blocked", "failed", "restored"} => k.freed = big

LEMMA MovesSettled ==
    ASSUME NEW m \in BOOLEAN, NEW k \in Task, NEW x \in Task, NEW st \in GttStatus, NEW s \in GttStatus,
           NEW rs \in Int, NEW r \in Int, NEW n \in Int, NEW big \in Int,
           Asks(m, st, rs, big), Remembers(m, k, rs, big), FireMoves(k, st, rs, s, r, n, x),
           k.pc \notin {"crossed", "claimed", "placed", "disown"} => st = "triggered"
    PROVE  /\ Asks(m, s, r, big)
           /\ Remembers(m, x, r, big)
           /\ m /\ s = "triggered" => r \in {0, big} \/ (s = st /\ r = rs)
<1>1. CASE x.pc \in {"claimed", "idle", "disown"}
  BY <1>1 DEF Asks, Remembers, FireMoves
<1>2. CASE x.pc = "owned"
  BY <1>2 DEF Asks, Remembers, FireMoves
<1>3. CASE x.pc = "released"
  <2>1. k.pc = "owned" /\ s = st /\ r = 0 /\ x.freed = rs /\ x.held = 0
    BY <1>3 DEF FireMoves
  <2>2. m => rs = big
    BY <2>1 DEF Remembers
  <2>3. Asks(m, s, r, big)
    BY <2>1 DEF Asks
  <2>4. Remembers(m, x, r, big)
    BY <1>3, <2>1, <2>2 DEF Remembers
  <2> QED
    BY <2>1, <2>3, <2>4
<1>4. CASE x.pc = "revert"
  BY <1>4 DEF Asks, Remembers, FireMoves
<1>5. CASE x.pc = "blocked"
  BY <1>5 DEF Asks, Remembers, FireMoves
<1>6. CASE x.pc \in {"failed", "restored", "unfunded"}
  BY <1>6 DEF Asks, Remembers, FireMoves
<1> QED
  BY <1>1, <1>2, <1>3, <1>4, <1>5, <1>6 DEF FireMoves

LEMMA SettledFire ==
    ASSUME TypeOK, TurnTrue, Exclusive, Undisturbed, Settled, NEW w \in Worker, Fire(w)
    PROVE  Settled'
<1>1. NoRejects
  BY DEF Settled, OrderSettled, NoRejects
<1>2. PICK l \in Leg, g \in Gtt :
        /\ l = wk[w].leg /\ g = Parent(l) /\ wk[w].pc # "idle" /\ rp' = rp
        /\ Fires(w, g) \/ InsertsOwn(w, l)
  BY <1>1, FireShape
<1>a. LegsOf(g) \subseteq Leg /\ \A h \in Gtt : LegsOf(h) \subseteq Leg
  BY LegShape
<1>3. CASE Fires(w, g)
  <2>1. PICK k, x \in Task, st, s \in GttStatus, rs, r, n \in Int :
          /\ k = wk[w] /\ st = status[g] /\ rs = reserved[g]
          /\ FireMoves(k, st, rs, s, r, n, x)
          /\ status' = [status EXCEPT ![g] = s]
          /\ reserved' = [reserved EXCEPT ![g] = r]
          /\ wk' = [wk EXCEPT ![w] = x]
          /\ UNCHANGED order
          /\ \A j \in Leg : leg'[j].margin = leg[j].margin
    BY <1>3 DEF Fires
  <2>2. /\ status'[g] = s /\ reserved'[g] = r /\ wk'[w] = x
        /\ \A h \in Gtt \ {g} : status'[h] = status[h] /\ reserved'[h] = reserved[h]
        /\ \A v \in Worker \ {w} : wk'[v] = wk[v]
    BY <2>1 DEF TypeOK
  <2>3. \A h \in Gtt \ {g} : Untouched(h)
    BY <1>a, <2>1, <2>2, Unmoved
  <2>4. \A j \in Leg : OrderSettled(j)'
    BY <2>1 DEF Settled, OrderSettled
  <2>5. LargestLeg(g)' = LargestLeg(g) /\ Fired(g)' = Fired(g)
    BY <1>a, <2>1, LegShape DEF LargestLeg, Larger, Fired
  <2>6. PICK big \in Nat : big = LargestLeg(g)
    BY LargestNat
  <2>7. PICK m \in BOOLEAN : m = (OcoMode = "max")
    OBVIOUS
  <2>8. Asks(m, st, rs, big) /\ Remembers(m, k, rs, big)
    BY <1>2, <2>1, <2>6, <2>7 DEF Settled, GttSettled, WorkerSettled, Freed, Asks, Remembers
  <2>o. k.pc \notin {"crossed", "claimed", "placed", "disown"} => st = "triggered"
    BY <1>2, <2>1 DEF Exclusive, Owns, FireMoves
  <2>9. /\ Asks(m, s, r, big) /\ Remembers(m, x, r, big)
        /\ m /\ s = "triggered" => r \in {0, big} \/ (s = st /\ r = rs)
    BY <2>1, <2>6, <2>8, <2>o, MovesSettled
  <2>10. /\ s = "none" => r = 0
         /\ s = "active" /\ OcoMode = "max" => r = big
         /\ OcoMode = "max" /\ s = "triggered" => r \in {0, big} \/ (s = st /\ r = rs)
    BY <2>7, <2>9 DEF Asks
  <2>11. GttSettled(g)'
    BY <2>1, <2>2, <2>5, <2>6, <2>10 DEF GttSettled, Settled
  <2>12. x.leg = l \/ x.pc = "idle"
    BY <1>2, <2>1 DEF FireMoves
  <2>13. WorkerSettled(w)'
    <3>1. CASE x.pc = "idle"
      BY <2>2, <2>9, <3>1 DEF Remembers, WorkerSettled, Freed
    <3>2. CASE x.leg = l
      BY <1>2, <2>2, <2>5, <2>6, <2>7, <2>9, <3>2 DEF Remembers, WorkerSettled, Freed
    <3> QED
      BY <2>12, <3>1, <3>2
  <2>14. CASE s = st /\ r = rs
    <3>1. \A h \in Gtt : Untouched(h)
      BY <2>1, <2>2, <2>3, <2>5, <2>14 DEF Untouched
    <3> QED
      BY <1>2, <2>2, <2>4, <2>13, <3>1, SettledStill
  <2>15. CASE ~(s = st /\ r = rs)
    <3>1. Owns(w) \/ st = "active"
      BY <2>1, <2>15 DEF FireMoves, Owns
    <3>2. \A v \in Worker \ {w} : Owns(v) => Parent(wk[v].leg) # g
      BY <1>2, <2>1, <3>1 DEF Exclusive
    <3>3. rp.pc \in {"block", "rearm"} => rp.gtt # g
      BY <1>2, <2>1, <3>1 DEF Exclusive, TypeOK
    <3> QED
      BY <1>2, <2>2, <2>3, <2>4, <2>11, <2>13, <3>2, <3>3, SettledFrame
  <2> QED
    BY <2>14, <2>15
<1>4. CASE InsertsOwn(w, l)
  <2>1. PICK x \in Task : wk' = [wk EXCEPT ![w] = x] /\ x.pc = "placed" /\ x.held = 0
    BY <1>4 DEF InsertsOwn
  <2> PICK o : o = [status |-> "open", margin |-> wk[w].held]
    OBVIOUS
  <2>2. order' = [order EXCEPT ![l] = o] /\ o.status = "open"
    BY <1>4 DEF InsertsOwn
  <2>3. /\ status' = status /\ reserved' = reserved /\ leg' = leg
        /\ wk'[w] = x /\ order'[l] = o
        /\ \A v \in Worker \ {w} : wk'[v] = wk[v]
        /\ \A j \in Leg \ {l} : order'[j] = order[j]
    BY <1>4, <2>1, <2>2 DEF InsertsOwn, TypeOK
  <2>4. \A h \in Gtt : Untouched(h)
    BY <1>a, <2>2, <2>3, Unmoved
  <2>5. \A j \in Leg : OrderSettled(j)'
    BY <2>2, <2>3 DEF OrderSettled, Settled
  <2>6. WorkerSettled(w)'
    BY <2>1, <2>3 DEF WorkerSettled, Freed
  <2> QED
    BY <1>2, <2>3, <2>4, <2>5, <2>6, SettledStill
<1> QED
  BY <1>2, <1>3, <1>4

\* A request gives an active GTT, or one that is placed, the status s and the
\* reservation b, in exchange for d.
Reprices(g, s, b, d) ==
    /\ s \in {"active", "cancelled", "expired"}
    /\ status' = [status EXCEPT ![g] = s]
    /\ reserved' = [reserved EXCEPT ![g] = b]
    /\ used' = used + b - d
    /\ s = "active" /\ OcoMode = "max" => b = LargestLeg(g)'
    /\ \A l \in Leg \ LegsOf(g) : leg'[l].margin = leg[l].margin
    /\ UNCHANGED <<order, wk, rp, crashes>>

LEMMA PlaceShape ==
    ASSUME TypeOK, NEW g \in Gtt, Place(g)
    PROVE  /\ \E b \in Nat : Reprices(g, "active", b, 0)
           /\ status[g] = "none" /\ UNCHANGED cl
<1>1. PICK m \in [LegsOf(g) -> Margin] :
        /\ Move(Blocked(g, m))
        /\ reserved' = [reserved EXCEPT ![g] = Blocked(g, m)]
        /\ leg' = [l \in Leg |->
                     IF l \in LegsOf(g)
                     THEN [status |-> "pending", margin |-> m[l], marked |-> FALSE]
                     ELSE leg[l]]
  BY DEF Place
<1>2. PICK b \in Nat : b = Blocked(g, m)
  BY BlockedNat
<1>3. m \in [LegsOf(g) -> Nat]
  BY GTTAssumption DEF GTTAssumption
<1>4. \A l \in LegsOf(g) : leg'[l].margin = m[l]
  BY <1>1, LegShape
<1>5. OcoMode = "max" => b = LargestLeg(g)'
  BY <1>2, <1>3, <1>4, AskIsLargestThen
<1>6. \A l \in Leg \ LegsOf(g) : leg'[l].margin = leg[l].margin
  BY <1>1
<1>7. used' = used + b - 0
  BY <1>1, <1>2 DEF Move, TypeOK
<1> QED
  BY <1>1, <1>2, <1>5, <1>6, <1>7 DEF Place, Reprices

LEMMA RequestShape ==
    ASSUME TypeOK, NEW c \in Client, Cancel(c) \/ Modify(c) \/ Expire(c)
    PROVE  /\ cl' = [cl EXCEPT ![c] = IdleClient]
           /\ \/ UNCHANGED <<status, reserved, leg, order, used, wk, rp, crashes>>
              \/ /\ cl[c].op # "idle" /\ cl[c].gtt \in Gtt /\ status[cl[c].gtt] = "active"
                 /\ \E s \in GttStatus, b \in Nat : Reprices(cl[c].gtt, s, b, cl[c].seen)
<1>0. cl[c].op # "idle" /\ cl[c].gtt \in Gtt
  BY DEF TypeOK, Cancel, Modify, Expire, Withdraw
<1> PICK g \in Gtt, d \in Nat : g = cl[c].gtt /\ d = cl[c].seen
  BY <1>0 DEF TypeOK
<1>1. ASSUME NEW op, NEW s \in {"cancelled", "expired"}, NEW closes, Withdraw(c, op, s, closes),
             ~UNCHANGED <<status, reserved, leg, funds>>
      PROVE  status[g] = "active" /\ Reprices(g, s, 0, d)
  <2>1. /\ status[g] = "active" /\ status' = [status EXCEPT ![g] = s]
        /\ reserved' = [reserved EXCEPT ![g] = 0]
        /\ leg' = [l \in Leg |->
                     IF l \in LegsOf(g) /\ leg[l].status \in closes
                     THEN [leg[l] EXCEPT !.status = "cancelled"]
                     ELSE leg[l]]
        /\ Move(-d)
    BY <1>1 DEF Withdraw
  <2>2. \A l \in Leg : leg'[l].margin = leg[l].margin
    BY <2>1 DEF TypeOK
  <2>3. used' = used + 0 - d
    BY <2>1 DEF Move, TypeOK
  <2> QED
    BY <1>1, <2>1, <2>2, <2>3 DEF Reprices, Withdraw
<1>2. ASSUME Modify(c), ~UNCHANGED <<reserved, leg, funds>>
      PROVE  status[g] = "active" /\ \E b \in Nat : Reprices(g, "active", b, d)
  <2>1. PICK m \in [LegsOf(g) -> Margin] :
        /\ status[g] = "active"
        /\ Move(Blocked(g, m) - d)
        /\ reserved' = [reserved EXCEPT ![g] = Blocked(g, m)]
        /\ leg' = [l \in Leg |->
                     IF l \in LegsOf(g)
                     THEN [status |-> leg[l].status, margin |-> m[l], marked |-> leg[l].marked]
                     ELSE leg[l]]
    BY <1>2 DEF Modify
  <2>2. PICK b \in Nat : b = Blocked(g, m)
    BY BlockedNat
  <2>3. m \in [LegsOf(g) -> Nat]
    BY GTTAssumption DEF GTTAssumption
  <2>4. \A l \in LegsOf(g) : leg'[l].margin = m[l]
    BY <2>1, LegShape
  <2>5. OcoMode = "max" => b = LargestLeg(g)'
    BY <2>2, <2>3, <2>4, AskIsLargestThen
  <2>6. \A l \in Leg \ LegsOf(g) : leg'[l].margin = leg[l].margin
    BY <2>1
  <2>7. used' = used + b - d
    BY <2>1, <2>2 DEF Move, TypeOK
  <2>8. status' = [status EXCEPT ![g] = "active"]
    BY <1>2, <2>1 DEF Modify, TypeOK
  <2> QED
    BY <1>2, <2>1, <2>2, <2>5, <2>6, <2>7, <2>8 DEF Modify, Reprices
<1>3. cl' = [cl EXCEPT ![c] = IdleClient] /\ UNCHANGED <<order, wk, rp, crashes>>
  BY DEF Cancel, Modify, Expire, Withdraw
<1>4. 0 \in Nat /\ {"active", "cancelled", "expired"} \subseteq GttStatus
  BY DEF GttStatus
<1>5. ASSUME NEW op, NEW s \in {"cancelled", "expired"}, NEW closes, Withdraw(c, op, s, closes)
      PROVE  \/ UNCHANGED <<status, reserved, leg, order, used, wk, rp, crashes>>
             \/ status[g] = "active" /\ \E v \in GttStatus, b \in Nat : Reprices(g, v, b, d)
  <2>1. CASE UNCHANGED <<status, reserved, leg, funds>>
    BY <1>3, <2>1 DEF funds
  <2>2. CASE ~UNCHANGED <<status, reserved, leg, funds>>
    BY <1>1, <1>4, <1>5, <2>2
  <2> QED
    BY <2>1, <2>2
<1>6. CASE Modify(c)
  <2>1. UNCHANGED status
    BY <1>6 DEF Modify
  <2>2. CASE UNCHANGED <<reserved, leg, funds>>
    BY <1>3, <2>1, <2>2 DEF funds
  <2>3. CASE ~UNCHANGED <<reserved, leg, funds>>
    BY <1>0, <1>2, <1>3, <1>4, <1>6, <2>3
  <2> QED
    BY <2>2, <2>3
<1>7. CASE Cancel(c)
  <2> PICK closes : closes = {"pending", "triggering"}
    OBVIOUS
  <2>1. Withdraw(c, "cancel", "cancelled", closes)
    BY <1>7 DEF Cancel
  <2> QED
    BY <1>0, <1>3, <1>5, <2>1
<1>8. CASE Expire(c)
  <2> PICK closes : closes = {"pending"}
    OBVIOUS
  <2>1. Withdraw(c, "expire", "expired", closes)
    BY <1>8 DEF Expire
  <2> QED
    BY <1>0, <1>3, <1>5, <2>1
<1> QED
  BY <1>6, <1>7, <1>8

LEMMA SettledReprice ==
    ASSUME TypeOK, Exclusive, Settled, NEW g \in Gtt, NEW s \in GttStatus, NEW b \in Nat, NEW d \in Nat,
           status[g] \in {"none", "active"}, Reprices(g, s, b, d)
    PROVE  Settled'
<1>a. LegsOf(g) \subseteq Leg /\ \A h \in Gtt : LegsOf(h) \subseteq Leg
  BY LegShape
<1>1. /\ status'[g] = s /\ reserved'[g] = b /\ UNCHANGED <<order, wk, rp>>
      /\ \A h \in Gtt \ {g} : status'[h] = status[h] /\ reserved'[h] = reserved[h]
  BY DEF Reprices, TypeOK
<1>2. ASSUME NEW h \in Gtt \ {g} PROVE Untouched(h)
  <2>1. \A l \in LegsOf(h) : l \in Leg \ LegsOf(g)
    BY DEF LegsOf
  <2>2. \A l \in LegsOf(h) : leg'[l].margin = leg[l].margin
    BY <2>1 DEF Reprices
  <2> QED
    BY <1>1, <2>2, Unmoved
<1>3. \A l \in Leg : OrderSettled(l)'
  BY <1>1 DEF Settled, OrderSettled
<1>4. GttSettled(g)'
  BY <1>1 DEF GttSettled, Reprices
<1>5. \A v \in Worker : Owns(v) => Parent(wk[v].leg) # g
  BY DEF Exclusive
<1>6. rp.pc \in {"block", "rearm"} => rp.gtt # g
  BY DEF Exclusive, TypeOK
<1> QED
  BY <1>1, <1>2, <1>3, <1>4, <1>5, <1>6, SettledFrame

\* The reaper touches no margin of a leg.
LEMMA ReapMargins ==
    ASSUME TypeOK, Reap
    PROVE  (\A l \in Leg : leg'[l].margin = leg[l].margin) /\ UNCHANGED <<order, wk, cl, crashes>>
<1>f. /\ \A j \in Leg : [leg[j] EXCEPT !.status = "pending"].margin = leg[j].margin
      /\ \A j \in Leg : Triggered(j).margin = leg[j].margin
  BY DEF TypeOK, Triggered
<1>1. CASE ReapLegs
  BY <1>1, <1>f DEF ReapLegs
<1>2. ASSUME NEW g \in Gtt, ReapRead(g)
      PROVE  (\A l \in Leg : leg'[l].margin = leg[l].margin) /\ UNCHANGED <<order, wk, cl, crashes>>
  <2>1. leg' = leg \/ \E l \in Evidence(g) : leg' = [leg EXCEPT ![l] = Triggered(l)]
    BY <1>2 DEF ReapRead
  <2> QED
    BY <1>2, <1>f, <2>1 DEF ReapRead, TypeOK
<1>3. CASE ReapBlock
  BY <1>3 DEF ReapBlock
<1>4. CASE ReapRearm
  BY <1>4, <1>f DEF ReapRearm
<1> QED
  BY <1>1, <1>2, <1>3, <1>4 DEF Reap

LEMMA SettledReap ==
    ASSUME TypeOK, Exclusive, Settled, Reap
    PROVE  Settled'
<1>a. (\A l \in Leg : leg'[l].margin = leg[l].margin) /\ UNCHANGED <<order, wk>>
  BY ReapMargins
<1>b. \A h \in Gtt : LegsOf(h) \subseteq Leg
  BY LegShape
<1>c. \A l \in Leg : OrderSettled(l)'
  BY <1>a DEF Settled, OrderSettled
<1>d. ASSUME NEW h \in Gtt, status'[h] = status[h], reserved'[h] = reserved[h]
      PROVE  Untouched(h)
  BY <1>a, <1>b, <1>d, Unmoved
<1>e. ASSUME NEW g \in Gtt, rp' = NextGtt(g)
      PROVE  ReaperSettled'
  BY <1>e DEF NextGtt, Scanning, ReaperSettled
<1>1. CASE ReapLegs
  <2>1. UNCHANGED <<status, reserved>> /\ rp'.pc \in {"idle", "scan"}
    BY <1>1 DEF ReapLegs, Scanning
  <2>2. ReaperSettled' /\ \A h \in Gtt : Untouched(h)
    BY <1>d, <2>1 DEF ReaperSettled
  <2> QED
    BY <1>a, <1>c, <2>2, SettledStill
<1>2. ASSUME NEW g \in Gtt, ReapRead(g)
      PROVE  Settled'
  <2>1. UNCHANGED <<status, reserved>> /\ \A h \in Gtt : Untouched(h)
    BY <1>2, <1>d DEF ReapRead
  <2>2. CASE rp' = NextGtt(g)
    BY <1>a, <1>c, <1>e, <2>1, <2>2, SettledStill
  <2>3. CASE rp' # NextGtt(g)
    <3>1. LET need == IF reserved[g] > 0 THEN 0 ELSE LargestLeg(g) IN
            rp' = [pc |-> IF need = 0 THEN "rearm" ELSE "block",
                   todo |-> rp.todo, gtt |-> g, kept |-> reserved[g], need |-> need]
      BY <1>2, <2>3 DEF ReapRead
    <3>2. /\ rp'.gtt = g /\ rp'.kept = reserved[g]
          /\ rp'.need = IF reserved[g] > 0 THEN 0 ELSE LargestLeg(g)
      BY <3>1
    <3>3. reserved'[g] = reserved[g] /\ LargestLeg(g)' = LargestLeg(g)
      BY <2>1 DEF Untouched
    <3>4. ReaperSettled'
      BY <3>2, <3>3 DEF ReaperSettled
    <3> QED
      BY <1>a, <1>c, <2>1, <3>4, SettledStill
  <2> QED
    BY <2>2, <2>3
<1>3. CASE ReapBlock
  <2> PICK g \in Gtt : g = rp.gtt
    BY <1>3 DEF ReapBlock, TypeOK
  <2>1. UNCHANGED reserved
    BY <1>3 DEF ReapBlock
  <2>2. CASE rp' = [rp EXCEPT !.pc = "rearm"] /\ UNCHANGED status
    <3>1. \A h \in Gtt : Untouched(h)
      BY <1>d, <2>1, <2>2
    <3>2. rp'.gtt = g /\ rp'.kept = rp.kept /\ rp'.need = rp.need
      BY <2>2 DEF TypeOK
    <3>3. reserved'[g] = reserved[g] /\ LargestLeg(g)' = LargestLeg(g)
      BY <3>1 DEF Untouched
    <3>4. ReaperSettled'
      BY <1>3, <3>2, <3>3 DEF ReaperSettled, Settled, ReapBlock
    <3> QED
      BY <1>a, <1>c, <3>1, <3>4, SettledStill
  <2>3. CASE status' = [status EXCEPT ![g] = "rejected"] /\ rp' = NextGtt(g)
    <3>1. status'[g] = "rejected" /\ \A h \in Gtt \ {g} : status'[h] = status[h]
      BY <2>3 DEF TypeOK
    <3>2. \A h \in Gtt \ {g} : Untouched(h)
      BY <1>d, <2>1, <3>1
    <3>3. GttSettled(g)' /\ ReaperSettled'
      BY <1>e, <2>3, <3>1 DEF GttSettled
    <3>4. \A v \in Worker : Owns(v) => Parent(wk[v].leg) # g
      BY <1>3 DEF Exclusive, ReapBlock, TypeOK
    <3> QED
      BY <1>a, <1>c, <3>2, <3>3, <3>4, SettledFrame
  <2> QED
    BY <1>3, <2>2, <2>3 DEF ReapBlock
<1>4. CASE ReapRearm
  <2> PICK g \in Gtt : g = rp.gtt
    BY <1>4 DEF ReapRearm, TypeOK
  <2>1. status[g] = "triggered" /\ rp.pc = "rearm" /\ Fired(g) = {}
    BY <1>4 DEF ReapRearm, Exclusive, TypeOK
  <2> PICK b \in Nat : b = IF rp.kept > 0 THEN rp.kept ELSE rp.need
    BY DEF TypeOK
  <2>2. /\ status' = [status EXCEPT ![g] = "active"] /\ reserved' = [reserved EXCEPT ![g] = b]
        /\ rp' = NextGtt(g)
    BY <1>4, <2>1 DEF ReapRearm
  <2>3. /\ status'[g] = "active" /\ reserved'[g] = b
        /\ \A h \in Gtt \ {g} : status'[h] = status[h] /\ reserved'[h] = reserved[h]
    BY <2>2 DEF TypeOK
  <2>4. \A h \in Gtt \ {g} : Untouched(h)
    BY <1>d, <2>3
  <2>5. PICK big \in Nat : big = LargestLeg(g)
    BY LargestNat
  <2>6. LargestLeg(g)' = big
    BY <1>a, <1>b, <2>5, LegShape DEF LargestLeg, Larger
  <2>7. OcoMode = "max" => b = big
    BY <2>1, <2>5 DEF Settled, GttSettled, ReaperSettled, TypeOK
  <2>8. GttSettled(g)' /\ ReaperSettled'
    BY <1>e, <2>2, <2>3, <2>6, <2>7 DEF GttSettled
  <2>9. \A v \in Worker : Owns(v) => Parent(wk[v].leg) # g
    BY <1>4 DEF Exclusive, ReapRearm, TypeOK
  <2> QED
    BY <1>a, <1>c, <2>4, <2>8, <2>9, SettledFrame
<1> QED
  BY <1>1, <1>2, <1>3, <1>4, ReapMargins DEF Reap

\* Whatever happens, short of an engine's refusal, a failed commit and a reaper
\* at work on a live fire.
LEMMA SettledNext ==
    ASSUME TypeOK, TurnTrue, Exclusive, Undisturbed, Settled, [Next]_vars
    PROVE  Settled'
<1>b. \A h \in Gtt : LegsOf(h) \subseteq Leg
  BY LegShape
<1>1. ASSUME NEW g \in Gtt, Place(g) PROVE Settled'
  <2>1. PICK b, d \in Nat, s \in GttStatus : Reprices(g, s, b, d)
    <3>1. 0 \in Nat /\ "active" \in GttStatus
      BY DEF GttStatus
    <3> QED
      BY <1>1, <3>1, PlaceShape
  <2> QED
    BY <1>1, <2>1, PlaceShape, SettledReprice
<1>2. ASSUME UNCHANGED <<rows, wk, rp>> PROVE Settled'
  <2>1. \A h \in Gtt : Untouched(h)
    BY <1>2, Unmoved, <1>b DEF rows
  <2>2. \A l \in Leg : OrderSettled(l)'
    BY <1>2 DEF rows, Settled, OrderSettled
  <2> QED
    BY <1>2, <2>1, <2>2, SettledStill
<1>3. ASSUME NEW c \in Client, ClientStep(c) PROVE Settled'
  <2>1. CASE \E g \in Gtt, op \in ClientOps : Read(c, op, g)
    BY <1>2, <2>1 DEF Read
  <2>2. CASE Cancel(c) \/ Modify(c) \/ Expire(c)
    <3>1. CASE UNCHANGED <<status, reserved, leg, order, used, wk, rp, crashes>>
      BY <1>2, <3>1 DEF rows
    <3>2. CASE /\ cl[c].gtt \in Gtt /\ status[cl[c].gtt] = "active"
               /\ \E s \in GttStatus, b \in Nat : Reprices(cl[c].gtt, s, b, cl[c].seen)
      <4>1. cl[c].seen \in Nat
        BY DEF TypeOK
      <4> QED
        BY <3>2, <4>1, SettledReprice
    <3> QED
      BY <2>2, <3>1, <3>2, RequestShape
  <2> QED
    BY <1>3, <2>1, <2>2 DEF ClientStep
<1>4. ASSUME NEW w \in Worker, NEW l \in Leg, Observe(w, l) PROVE Settled'
  <2>1. UNCHANGED <<rows, rp>>
    BY <1>4 DEF Observe
  <2>2. PICK x : x = [pc |-> "crossed", leg |-> l, freed |-> 0, held |-> 0]
    OBVIOUS
  <2>3. wk'[w] = x /\ \A v \in Worker \ {w} : wk'[v] = wk[v]
    BY <1>4, <2>2 DEF Observe, TypeOK
  <2>4. WorkerSettled(w)'
    BY <2>2, <2>3 DEF WorkerSettled, Freed
  <2>5. \A h \in Gtt : Untouched(h)
    BY <2>1, Unmoved, <1>b DEF rows
  <2>6. \A j \in Leg : OrderSettled(j)'
    BY <2>1 DEF rows, Settled, OrderSettled
  <2> QED
    BY <2>1, <2>3, <2>4, <2>5, <2>6, SettledStill
<1>5. ASSUME NEW l \in Leg, CancelChild(l) PROVE Settled'
  <2> PICK o : o = [status |-> "cancelled", margin |-> 0]
    OBVIOUS
  <2>1. order' = [order EXCEPT ![l] = o] /\ UNCHANGED <<status, reserved, leg, wk, rp>>
    BY <1>5 DEF CancelChild
  <2>2. o.status = "cancelled" /\ order'[l] = o /\ \A j \in Leg \ {l} : order'[j] = order[j]
    BY <2>1 DEF TypeOK
  <2>3. \A h \in Gtt : Untouched(h)
    BY <1>b, <2>1, <2>2, Unmoved
  <2>4. \A j \in Leg : OrderSettled(j)'
    BY <2>2 DEF OrderSettled, Settled
  <2> QED
    BY <2>1, <2>3, <2>4, SettledStill
<1>6. CASE ResetFunds \/ ReadFunds \/ UNCHANGED vars
  BY <1>2, <1>6 DEF ResetFunds, ReadFunds, BlockRead, RestoreRead, RecoverRead, CancelRead, vars, rows
<1>7. CASE Crash
  <2>1. UNCHANGED rows /\ rp'.pc = "idle" /\ \A v \in Worker : wk'[v].pc = "idle" /\ wk'[v].held = 0
    BY <1>7 DEF Crash, IdleWorker, IdleReaper
  <2>2. ReaperSettled' /\ \A v \in Worker : WorkerSettled(v)'
    BY <2>1 DEF ReaperSettled, WorkerSettled, Freed
  <2>3. \A h \in Gtt : Untouched(h)
    BY <2>1, Unmoved, <1>b DEF rows
  <2>4. \A j \in Leg : OrderSettled(j)'
    BY <2>1 DEF rows, Settled, OrderSettled
  <2> QED
    BY <2>2, <2>3, <2>4, SettledStill
<1>8. ASSUME NEW l \in Leg PROVE ~FillFails(l)
  BY DEF Undisturbed, FillFails
<1> QED
  BY <1>1, <1>3, <1>4, <1>5, <1>6, <1>7, <1>8, SettledFire, SettledReap DEF Next

LEMMA SettledInit == Init => Settled
BY DEF Init, Settled, OrderSettled, GttSettled, WorkerSettled, Freed, ReaperSettled, IdleWorker, IdleReaper

\* "An active GTT with no margin is a trap": however requests, expiries, fires,
\* crashes, recoveries and resets of the account interleave, an armed GTT holds
\* what the larger of its legs asks for, and its pending legs can still order.
THEOREM ArmsAreFunded == Undisturbed /\ OcoMode = "max" => (Spec => []ArmedIsFunded)
<1> SUFFICES ASSUME Undisturbed, OcoMode = "max"
             PROVE  Spec => []ArmedIsFunded
  OBVIOUS
<1>1. Orderly
  BY DEF Undisturbed, Orderly
<1>2. TypeOK /\ TurnTrue /\ Exclusive /\ Settled /\ [Next]_vars => Settled'
  BY SettledNext
<1>3. TypeOK /\ Exclusive /\ Settled => ArmedIsFunded
  <2> SUFFICES ASSUME TypeOK, Exclusive, Settled, NEW g \in Gtt, status[g] = "active"
               PROVE  /\ reserved[g] = Blocked(g, [l \in LegsOf(g) |-> leg[l].margin])
                      /\ \A l \in LegsOf(g) : leg[l].status = "pending" => order[l].status = "none"
    BY DEF ArmedIsFunded
  <2>1. LegsOf(g) \subseteq Leg
    BY LegShape
  <2> PICK m : m = [l \in LegsOf(g) |-> leg[l].margin]
    OBVIOUS
  <2>2. m \in [LegsOf(g) -> Nat] /\ \A l \in LegsOf(g) : leg[l].margin = m[l]
    BY <2>1 DEF TypeOK
  <2>3. Blocked(g, m) = LargestLeg(g)
    BY <2>2, AskIsLargest
  <2>4. reserved[g] = LargestLeg(g)
    BY DEF Settled, GttSettled
  <2>5. \A l \in LegsOf(g) : order[l].status = "none"
    BY <2>1 DEF Exclusive, Fired, Settled, OrderSettled
  <2> QED
    BY <2>3, <2>4, <2>5
<1> QED
  BY <1>1, <1>2, <1>3, SettledInit, TypeCorrect, TurnHolds, ExclusionHolds, PTL DEF Spec

-----------------------------------------------------------------------------
(* Every rupee in use *)

Quiet == Faults = {}
OneClient == \A c, d \in Client : c = d

\* A request knows what the row it read holds for as long as that row is armed;
\* the fire that takes it over carries the same amount.
Knows(c) == cl[c].op # "idle" =>
    /\ status[cl[c].gtt] # "none"
    /\ status[cl[c].gtt] = "active" => cl[c].seen = reserved[cl[c].gtt]
    /\ status[cl[c].gtt] = "triggered" /\ Fired(cl[c].gtt) = {} =>
         \E w \in Worker :
            /\ Owns(w) /\ Parent(wk[w].leg) = cl[c].gtt
            /\ wk[w].pc \in {"owned", "revert"} => cl[c].seen = reserved[cl[c].gtt]
            /\ Freed(w) => cl[c].seen = wk[w].freed

Known == \A c \in Client : Knows(c)

\* The sums of the orders' margins and of what threads have in flight.
InBook == Sum([l \in Leg |-> order[l].margin])
InTheAir == Sum([w \in Worker |-> InFlight(w)])

LEMMA Finite == IsFiniteSet(Gtt) /\ IsFiniteSet(Worker) /\ IsFiniteSet(Leg)
<1>1. IsFiniteSet({1, 2})
  <2> PICK a, b \in Int : a = 1 /\ b = 2
    OBVIOUS
  <2>1. IsFiniteSet(a .. b)
    BY FS_Interval
  <2>2. {1, 2} = a .. b
    OBVIOUS
  <2> QED
    BY <2>1, <2>2
<1>2. IsFiniteSet(Gtt \X {1, 2})
  BY <1>1, FS_Product, GTTAssumption DEF GTTAssumption
<1>3. Leg \subseteq Gtt \X {1, 2}
  BY DEF Leg
<1> QED
  BY <1>2, <1>3, FS_Subset, GTTAssumption DEF GTTAssumption

LEMMA FlightNat ==
    ASSUME TypeOK, NEW w \in Worker
    PROVE  InFlight(w) \in Nat
BY DEF TypeOK, InFlight

LEMMA OwnedParts ==
    ASSUME TypeOK
    PROVE  /\ Sum(reserved) \in Nat /\ InBook \in Nat /\ InTheAir \in Nat /\ InRecovery \in Nat
           /\ Owned = Sum(reserved) + InBook + InTheAir + InRecovery
<1>1. reserved \in [Gtt -> Nat] /\ InRecovery \in Nat
  BY DEF TypeOK, InRecovery
<1>2. [l \in Leg |-> order[l].margin] \in [Leg -> Nat]
  BY DEF TypeOK
<1>3. [w \in Worker |-> InFlight(w)] \in [Worker -> Nat]
  BY FlightNat
<1> QED
  BY <1>1, <1>2, <1>3, Finite, SumNat DEF InBook, InTheAir, Owned

LEMMA OwnedThen == Owned' = Sum(reserved)' + InBook' + InTheAir' + InRecovery'
BY DEF Owned, InBook, InTheAir

\* What changing one row's reservation, one order, or one thread does to them.
LEMMA ReservedChange ==
    ASSUME TypeOK, TypeOK', NEW g \in Gtt, \A h \in Gtt \ {g} : reserved'[h] = reserved[h]
    PROVE  Sum(reserved)' = Sum(reserved) - reserved[g] + reserved'[g]
<1>1. reserved \in [Gtt -> Nat] /\ reserved' \in [Gtt -> Nat]
  BY DEF TypeOK
<1> QED
  BY <1>1, Finite, SumChange

LEMMA BookChange ==
    ASSUME TypeOK, TypeOK', NEW l \in Leg, \A j \in Leg \ {l} : order'[j] = order[j]
    PROVE  /\ InBook' = InBook - order[l].margin + order'[l].margin
           /\ order[l].margin <= InBook
<1>1. PICK f \in [Leg -> Nat] : f = [j \in Leg |-> order[j].margin]
  BY DEF TypeOK
<1>2. PICK h \in [Leg -> Nat] : h = [j \in Leg |-> order'[j].margin]
  BY DEF TypeOK
<1>3. \A j \in Leg \ {l} : h[j] = f[j]
  BY <1>1, <1>2
<1>4. Sum(h) = Sum(f) - f[l] + h[l]
  BY <1>3, Finite, SumChange
<1>5. f[l] <= Sum(f)
  BY Finite, SumSplit
<1>6. InBook = Sum(f) /\ InBook' = Sum(h)
  BY <1>1, <1>2 DEF InBook
<1>7. f[l] = order[l].margin /\ h[l] = order'[l].margin
  BY <1>1, <1>2
<1> QED
  BY <1>4, <1>5, <1>6, <1>7

LEMMA AirChange ==
    ASSUME TypeOK, TypeOK', NEW w \in Worker, \A v \in Worker \ {w} : wk'[v] = wk[v]
    PROVE  InTheAir' = InTheAir - InFlight(w) + InFlight(w)'
<1>1. PICK f \in [Worker -> Nat] : f = [v \in Worker |-> InFlight(v)]
  BY FlightNat
<1>2. PICK h \in [Worker -> Nat] : h = [v \in Worker |-> InFlight(v)']
  <2>1. \A v \in Worker : InFlight(v)' \in Nat
    BY DEF TypeOK, InFlight
  <2> QED
    BY <2>1
<1>3. \A v \in Worker \ {w} : h[v] = f[v]
  BY <1>1, <1>2 DEF InFlight
<1>4. Sum(h) = Sum(f) - f[w] + h[w]
  BY <1>3, Finite, SumChange
<1>5. InTheAir = Sum(f) /\ InTheAir' = Sum(h)
  BY <1>1, <1>2 DEF InTheAir
<1>6. f[w] = InFlight(w) /\ h[w] = InFlight(w)'
  BY <1>1, <1>2
<1> QED
  BY <1>4, <1>5, <1>6

LEMMA AirSame ==
    ASSUME wk' = wk
    PROVE  InTheAir' = InTheAir
BY DEF InTheAir, InFlight

LEMMA BookSame ==
    ASSUME order' = order
    PROVE  InBook' = InBook
BY DEF InBook

\* What a thread has in flight, what its row holds and what is in use move together.
Carries(k) == k.held + (IF k.pc = "restored" THEN k.freed ELSE 0)

LEMMA MovesBalance ==
    ASSUME NEW m \in BOOLEAN, NEW k \in Task, NEW x \in Task, NEW st \in GttStatus, NEW s \in GttStatus,
           NEW rs \in Int, NEW r \in Int, NEW n \in Int, NEW big \in Int,
           Remembers(m, k, rs, big), FireMoves(k, st, rs, s, r, n, x)
    PROVE  n = r - rs + Carries(x) - Carries(k)
<1>1. k.freed \in Int /\ k.held \in Int /\ x.freed \in Int /\ x.held \in Int
  BY DEF Task
<1>2. k.pc # "blocked"
  BY DEF FireMoves
<1>3. k.held = 0
  BY <1>2 DEF Remembers
<1>4. CASE x.pc \in {"claimed", "idle", "disown", "owned"}
  BY <1>1, <1>3, <1>4 DEF Remembers, FireMoves, Carries
<1>5. CASE x.pc \in {"released", "blocked"}
  BY <1>1, <1>3, <1>5 DEF Remembers, FireMoves, Carries
<1>6. CASE x.pc = "revert"
  BY <1>1, <1>3, <1>6 DEF Remembers, FireMoves, Carries
<1>7. CASE x.pc = "restored"
  BY <1>1, <1>3, <1>7 DEF Remembers, FireMoves, Carries
<1>8. CASE x.pc \in {"failed", "unfunded"}
  BY <1>1, <1>3, <1>8 DEF Remembers, FireMoves, Carries
<1> QED
  BY <1>4, <1>5, <1>6, <1>7, <1>8 DEF FireMoves

\* A step that keeps the books keeps used_margin and what is owned apart by the
\* same amount, unless it loses an update.
Balanced == ~raced' => used' - Owned' = used - Owned

LEMMA BalancedFire ==
    ASSUME TypeOK, TypeOK', TurnTrue, Exclusive, Undisturbed, Settled, NEW w \in Worker, Fire(w)
    PROVE  Balanced
<1>1. NoRejects
  BY DEF Settled, OrderSettled, NoRejects
<1>2. PICK l \in Leg, g \in Gtt :
        /\ l = wk[w].leg /\ g = Parent(l) /\ wk[w].pc # "idle" /\ rp' = rp
        /\ Fires(w, g) \/ InsertsOwn(w, l)
  BY <1>1, FireShape
<1>3. InRecovery' = InRecovery
  BY <1>2 DEF InRecovery
<1>4. PICK a, b \in Nat : a = InFlight(w) /\ b = InFlight(w)'
  <2>1. InFlight(w) \in Nat
    BY FlightNat
  <2>2. InFlight(w)' \in Nat
    BY DEF TypeOK, InFlight
  <2> QED
    BY <2>1, <2>2
<1>5. InTheAir' = InTheAir - a + b
  <2>1. \A v \in Worker \ {w} : wk'[v] = wk[v]
    BY <1>2 DEF Fires, InsertsOwn, TypeOK
  <2> QED
    BY <1>4, <2>1, AirChange
<1>o. /\ Owned = Sum(reserved) + InBook + InTheAir + InRecovery
      /\ Owned' = Sum(reserved)' + InBook' + InTheAir' + InRecovery'
      /\ Sum(reserved) \in Nat /\ InBook \in Nat /\ InTheAir \in Nat /\ InRecovery \in Nat
      /\ used \in Nat
  BY OwnedParts, OwnedThen DEF TypeOK
<1>6. CASE Fires(w, g)
  <2>1. PICK k, x \in Task, st, s \in GttStatus, rs, r, n \in Int :
          /\ k = wk[w] /\ st = status[g] /\ rs = reserved[g]
          /\ FireMoves(k, st, rs, s, r, n, x)
          /\ status' = [status EXCEPT ![g] = s]
          /\ reserved' = [reserved EXCEPT ![g] = r]
          /\ Spends(n)
          /\ wk' = [wk EXCEPT ![w] = x]
          /\ UNCHANGED order
          /\ \A j \in Leg : leg'[j].margin = leg[j].margin
    BY <1>6 DEF Fires
  <2>2. /\ reserved'[g] = r /\ wk'[w] = x
        /\ \A h \in Gtt \ {g} : reserved'[h] = reserved[h]
    BY <2>1 DEF TypeOK
  <2>3. PICK big \in Nat : big = LargestLeg(g)
    BY LargestNat
  <2>4. PICK m \in BOOLEAN : m = (OcoMode = "max")
    OBVIOUS
  <2>5. Remembers(m, k, rs, big)
    BY <1>2, <2>1, <2>3, <2>4 DEF Settled, WorkerSettled, Freed, Remembers
  <2>6. n = r - rs + Carries(x) - Carries(k)
    BY <2>1, <2>3, <2>5, MovesBalance
  <2>7. a = Carries(k) /\ b = Carries(x)
    BY <1>4, <2>1, <2>2 DEF InFlight, Carries
  <2>8. Sum(reserved)' = Sum(reserved) - rs + r
    BY <2>1, <2>2, ReservedChange
  <2>9. InBook' = InBook
    BY <2>1, BookSame
  <2> HIDE DEF Owned, InBook, InTheAir, InRecovery
  <2> QED
    BY <1>3, <1>5, <1>o, <2>1, <2>6, <2>7, <2>8, <2>9 DEF Balanced, Spends
<1>7. CASE InsertsOwn(w, l)
  <2>1. PICK x \in Task : wk' = [wk EXCEPT ![w] = x] /\ x.pc = "placed" /\ x.held = 0
    BY <1>7 DEF InsertsOwn
  <2> PICK o, n : o = [status |-> "open", margin |-> n] /\ n = wk[w].held
    OBVIOUS
  <2>2. order' = [order EXCEPT ![l] = o] /\ o.margin = n
    BY <1>7 DEF InsertsOwn
  <2>3. wk'[w] = x /\ order'[l] = o /\ \A j \in Leg \ {l} : order'[j] = order[j]
    BY <2>1, <2>2 DEF TypeOK
  <2>4. order[l].margin = 0
    BY <1>7 DEF InsertsOwn, Settled, OrderSettled
  <2>5. a = n /\ b = 0
    BY <1>4, <1>7, <2>1, <2>3 DEF InFlight, InsertsOwn, TypeOK
  <2>6. InBook' = InBook + n
    <3>1. InBook' = InBook - order[l].margin + order'[l].margin
      BY <2>3, BookChange
    <3> QED
      BY <1>4, <1>o, <2>2, <2>3, <2>4, <2>5, <3>1
  <2>7. Sum(reserved)' = Sum(reserved) /\ used' = used
    BY <1>7 DEF InsertsOwn
  <2> QED
    BY <1>3, <1>4, <1>5, <1>o, <2>5, <2>6, <2>7 DEF Balanced
<1> QED
  BY <1>2, <1>6, <1>7

LEMMA BalancedReprice ==
    ASSUME TypeOK, TypeOK', NEW g \in Gtt, NEW s \in GttStatus, NEW b \in Nat, NEW d \in Nat,
           Reprices(g, s, b, d), d = reserved[g]
    PROVE  Balanced
<1>1. reserved'[g] = b /\ \A h \in Gtt \ {g} : reserved'[h] = reserved[h]
  BY DEF Reprices, TypeOK
<1>2. Sum(reserved)' = Sum(reserved) - d + b
  BY <1>1, ReservedChange
<1>3. InBook' = InBook /\ InTheAir' = InTheAir /\ InRecovery' = InRecovery /\ used' = used + b - d
  BY BookSame, AirSame DEF Reprices, InRecovery
<1>o. /\ Owned = Sum(reserved) + InBook + InTheAir + InRecovery
      /\ Owned' = Sum(reserved)' + InBook' + InTheAir' + InRecovery'
      /\ Sum(reserved) \in Nat /\ InBook \in Nat /\ InTheAir \in Nat /\ InRecovery \in Nat
      /\ used \in Nat
  BY OwnedParts, OwnedThen DEF TypeOK
<1> QED
  BY <1>2, <1>3, <1>o DEF Balanced

\* The reaper blocks what it will write into the row it re-arms.
LEMMA BalancedReap ==
    ASSUME TypeOK, TypeOK', TurnTrue, Exclusive, Settled, Reap
    PROVE  Balanced
<1>a. UNCHANGED <<order, wk>> /\ InBook' = InBook /\ InTheAir' = InTheAir
  BY ReapMargins, BookSame, AirSame
<1>o. /\ Owned = Sum(reserved) + InBook + InTheAir + InRecovery
      /\ Owned' = Sum(reserved)' + InBook' + InTheAir' + InRecovery'
      /\ Sum(reserved) \in Nat /\ InBook \in Nat /\ InTheAir \in Nat /\ InRecovery \in Nat
      /\ used \in Nat
  BY OwnedParts, OwnedThen DEF TypeOK
<1>s. ASSUME UNCHANGED <<reserved, used>>, InRecovery' = InRecovery
      PROVE  Balanced
  BY <1>a, <1>o, <1>s DEF Balanced
<1>e. ASSUME NEW g \in Gtt, rp' = NextGtt(g)
      PROVE  InRecovery' = 0
  BY <1>e DEF NextGtt, Scanning, InRecovery
<1>1. CASE ReapLegs
  <2>1. UNCHANGED <<reserved, used>> /\ rp.pc # "rearm" /\ rp'.pc # "rearm"
    BY <1>1 DEF ReapLegs, Scanning, funds
  <2> QED
    BY <1>s, <2>1 DEF InRecovery
<1>2. ASSUME NEW g \in Gtt, ReapRead(g)
      PROVE  Balanced
  <2>1. UNCHANGED <<reserved, used>> /\ rp.pc # "rearm"
    BY <1>2 DEF ReapRead, funds
  <2>2. CASE rp' = NextGtt(g)
    BY <1>e, <1>s, <2>1, <2>2 DEF InRecovery
  <2>3. CASE rp' # NextGtt(g)
    <3>1. LET need == IF reserved[g] > 0 THEN 0 ELSE LargestLeg(g) IN
            rp' = [pc |-> IF need = 0 THEN "rearm" ELSE "block",
                   todo |-> rp.todo, gtt |-> g, kept |-> reserved[g], need |-> need]
      BY <1>2, <2>3 DEF ReapRead
    <3>2. rp'.pc = "rearm" => rp'.need = 0
      BY <3>1
    <3> QED
      BY <1>s, <2>1, <3>2 DEF InRecovery
  <2> QED
    BY <2>2, <2>3
<1>3. CASE ReapBlock
  <2> PICK g \in Gtt : g = rp.gtt
    BY <1>3 DEF ReapBlock, TypeOK
  <2>1. UNCHANGED reserved /\ InRecovery = 0
    BY <1>3 DEF ReapBlock, InRecovery
  <2>2. CASE Holds("reap", NoLeg) /\ Write /\ rp' = [rp EXCEPT !.pc = "rearm"]
    <3>1. InRecovery' = rp.need /\ rp.need \in Nat
      BY <2>2 DEF TypeOK, InRecovery
    <3>2. turn.role # "free" /\ turn.delta = rp.need
      BY <2>2 DEF Holds, TurnTrue
    <3>3. Spends(turn.delta)
      BY <2>2, <3>2, WriteSpends
    <3> QED
      BY <1>a, <1>o, <2>1, <3>1, <3>2, <3>3 DEF Balanced, Spends
  <2>3. CASE UNCHANGED funds /\ rp' = NextGtt(g)
    BY <1>e, <1>s, <2>1, <2>3 DEF funds
  <2> QED
    BY <1>3, <2>2, <2>3 DEF ReapBlock, Short
<1>4. CASE ReapRearm
  <2> PICK g \in Gtt : g = rp.gtt
    BY <1>4 DEF ReapRearm, TypeOK
  <2>1. status[g] = "triggered" /\ rp.pc = "rearm"
    BY <1>4 DEF ReapRearm, Exclusive, TypeOK
  <2> PICK b, n \in Nat : n = rp.need /\ b = IF rp.kept > 0 THEN rp.kept ELSE rp.need
    BY DEF TypeOK
  <2>2. reserved' = [reserved EXCEPT ![g] = b] /\ rp' = NextGtt(g) /\ used' = used
    BY <1>4, <2>1 DEF ReapRearm, funds
  <2>3. reserved'[g] = b /\ \A h \in Gtt \ {g} : reserved'[h] = reserved[h]
    BY <2>2 DEF TypeOK
  <2>4. Sum(reserved)' = Sum(reserved) - reserved[g] + b
    BY <2>3, ReservedChange
  <2>5. InRecovery = n /\ InRecovery' = 0
    BY <1>e, <2>1, <2>2 DEF InRecovery
  <2>6. b = reserved[g] + n
    BY <2>1 DEF Settled, ReaperSettled, TypeOK
  <2>7. reserved[g] \in Nat
    BY DEF TypeOK
  <2> QED
    BY <1>a, <1>o, <2>2, <2>4, <2>5, <2>6, <2>7 DEF Balanced
<1> QED
  BY <1>1, <1>2, <1>3, <1>4 DEF Reap

\* A resting order that is cancelled gives back what it holds.
LEMMA BalancedCancel ==
    ASSUME TypeOK, TypeOK', TurnTrue, ~raced' => Owned <= used, NEW l \in Leg, CancelChild(l)
    PROVE  Balanced
<1> PICK m \in Nat : m = order[l].margin
  BY DEF TypeOK
<1> PICK o : o = [status |-> "cancelled", margin |-> 0]
  OBVIOUS
<1>1. order' = [order EXCEPT ![l] = o] /\ o.margin = 0 /\ UNCHANGED <<reserved, wk, rp>>
  BY DEF CancelChild
<1>2. order'[l] = o /\ \A j \in Leg \ {l} : order'[j] = order[j]
  BY <1>1 DEF TypeOK
<1>3. InBook' = InBook - m /\ m <= InBook
  <2>1. InBook' = InBook - m + 0 /\ m <= InBook
    BY <1>1, <1>2, BookChange
  <2>2. InBook \in Nat
    BY OwnedParts
  <2> QED
    BY <2>1, <2>2
<1>o. /\ Owned = Sum(reserved) + InBook + InTheAir + InRecovery
      /\ Owned' = Sum(reserved)' + InBook' + InTheAir' + InRecovery'
      /\ Sum(reserved) \in Nat /\ InBook \in Nat /\ InTheAir \in Nat /\ InRecovery \in Nat
      /\ used \in Nat
  BY OwnedParts, OwnedThen DEF TypeOK
<1>6. Spends(-m)
  <2>1. CASE Holds("cancel", l) /\ Write
    BY <2>1, WriteSpends DEF Holds, TurnTrue
  <2>2. CASE m = 0 /\ UNCHANGED funds
    BY <1>o, <2>2 DEF funds, Spends
  <2>3. CASE m > 0 /\ Short(-m)
    <3>1. ~raced' => m <= used
      BY <1>3, <1>o
    <3>2. ~(used >= m)
      BY <1>o, <2>3 DEF Short, CanMove
    <3> QED
      BY <1>o, <3>1, <3>2 DEF Spends
  <2> QED
    BY <2>1, <2>2, <2>3 DEF CancelChild
<1>7. InTheAir' = InTheAir /\ InRecovery' = InRecovery /\ Sum(reserved)' = Sum(reserved)
  BY <1>1, AirSame DEF InRecovery
<1> QED
  BY <1>3, <1>6, <1>7, <1>o DEF Balanced, Spends

LEMMA KnowsFrame ==
    ASSUME TypeOK, NEW c \in Client, Knows(c), cl'[c] = cl[c],
           cl[c].op # "idle" => Untouched(cl[c].gtt),
           cl[c].op # "idle" => \A v \in Worker : Owns(v) /\ Parent(wk[v].leg) = cl[c].gtt => wk'[v] = wk[v]
    PROVE  Knows(c)'
<1> SUFFICES ASSUME cl[c].op # "idle"
             PROVE  Knows(c)'
  BY DEF Knows
<1> PICK g \in Gtt, d \in Nat : g = cl[c].gtt /\ d = cl[c].seen
  BY DEF TypeOK
<1>1. /\ status'[g] = status[g] /\ reserved'[g] = reserved[g]
      /\ Fired(g)' = {} => Fired(g) = {}
  BY DEF Untouched
<1>2. /\ status[g] # "none"
      /\ status[g] = "active" => d = reserved[g]
      /\ status[g] = "triggered" /\ Fired(g) = {} =>
           \E w \in Worker :
              /\ Owns(w) /\ Parent(wk[w].leg) = g
              /\ wk[w].pc \in {"owned", "revert"} => d = reserved[g]
              /\ Freed(w) => d = wk[w].freed
  BY DEF Knows
<1>3. \A v \in Worker : Owns(v) /\ Parent(wk[v].leg) = g => wk'[v] = wk[v]
  OBVIOUS
<1>4. ASSUME status[g] = "triggered", Fired(g) = {}
      PROVE  \E w \in Worker :
              /\ Owns(w)' /\ Parent(wk'[w].leg) = g
              /\ wk'[w].pc \in {"owned", "revert"} => d = reserved'[g]
              /\ Freed(w)' => d = wk'[w].freed
  <2>1. PICK w \in Worker :
              /\ Owns(w) /\ Parent(wk[w].leg) = g
              /\ wk[w].pc \in {"owned", "revert"} => d = reserved[g]
              /\ Freed(w) => d = wk[w].freed
    BY <1>2, <1>4
  <2>2. wk'[w] = wk[w]
    BY <1>3, <2>1
  <2> QED
    BY <1>1, <2>1, <2>2 DEF Owns, Freed
<1>5. cl'[c].gtt = g /\ cl'[c].seen = d
  OBVIOUS
<1> QED
  BY <1>1, <1>2, <1>4, <1>5 DEF Knows

\* A fire takes a GTT over, carries its reservation, and hands both back.
LEMMA KnownFire ==
    ASSUME TypeOK, TurnTrue, Exclusive, Undisturbed, Settled, Known, NEW w \in Worker, Fire(w)
    PROVE  Known'
<1>1. NoRejects
  BY DEF Settled, OrderSettled, NoRejects
<1>2. PICK l \in Leg, g \in Gtt :
        /\ l = wk[w].leg /\ g = Parent(l) /\ wk[w].pc # "idle" /\ cl' = cl
        /\ Fires(w, g) \/ InsertsOwn(w, l)
  BY <1>1, FireShape
<1>a. LegsOf(g) \subseteq Leg /\ \A h \in Gtt : LegsOf(h) \subseteq Leg
  BY LegShape
<1> SUFFICES ASSUME NEW c \in Client PROVE Knows(c)'
  BY DEF Known
<1>k. Knows(c) /\ cl'[c] = cl[c]
  BY <1>2 DEF Known
<1>i. CASE cl[c].op = "idle"
  BY <1>i, <1>k DEF Knows
<1>3. CASE Fires(w, g) /\ cl[c].op # "idle"
  <2>1. PICK k, x \in Task, st, s \in GttStatus, rs, r, n \in Int :
          /\ k = wk[w] /\ st = status[g] /\ rs = reserved[g]
          /\ FireMoves(k, st, rs, s, r, n, x)
          /\ status' = [status EXCEPT ![g] = s]
          /\ reserved' = [reserved EXCEPT ![g] = r]
          /\ wk' = [wk EXCEPT ![w] = x]
          /\ UNCHANGED order
          /\ \A j \in Leg : leg'[j].margin = leg[j].margin
    BY <1>3 DEF Fires
  <2>2. /\ status'[g] = s /\ reserved'[g] = r /\ wk'[w] = x
        /\ \A h \in Gtt \ {g} : status'[h] = status[h] /\ reserved'[h] = reserved[h]
        /\ \A v \in Worker \ {w} : wk'[v] = wk[v]
    BY <2>1 DEF TypeOK
  <2>3. ASSUME NEW h \in Gtt, status'[h] = status[h], reserved'[h] = reserved[h]
        PROVE  Untouched(h)
    BY <1>a, <2>1, <2>3, Unmoved
  <2>4. CASE cl[c].gtt # g
    <3>1. cl[c].gtt \in Gtt \ {g}
      BY <1>3, <2>4 DEF TypeOK
    <3>2. \A v \in Worker : Parent(wk[v].leg) = cl[c].gtt => wk'[v] = wk[v]
      BY <1>2, <2>2, <2>4
    <3> QED
      BY <1>k, <2>2, <2>3, <3>1, <3>2, KnowsFrame
  <2>5. CASE cl[c].gtt = g /\ ~Owns(w) /\ s = st /\ r = rs
    <3>1. Untouched(g)
      BY <2>1, <2>2, <2>3, <2>5
    <3>2. \A v \in Worker : Owns(v) => wk'[v] = wk[v]
      BY <2>2, <2>5
    <3> QED
      BY <1>k, <2>5, <3>1, <3>2, KnowsFrame
  <2>6. CASE cl[c].gtt = g /\ ~(~Owns(w) /\ s = st /\ r = rs)
    <3> PICK d \in Nat : d = cl[c].seen
      BY DEF TypeOK
    <3>1. Owns(w) \/ (k.pc = "claimed" /\ x.pc = "owned" /\ st = "active" /\ s = "triggered" /\ r = rs)
      BY <2>1, <2>6 DEF FireMoves, Owns
    <3>2. Owns(w) => /\ st = "triggered" /\ Fired(g) = {}
                     /\ \A v \in Worker \ {w} : Owns(v) => Parent(wk[v].leg) # g
      BY <1>2, <2>1 DEF Exclusive
    <3>3. /\ st = "active" => d = rs
          /\ Owns(w) => /\ k.pc \in {"owned", "revert"} => d = rs
                        /\ Freed(w) => d = k.freed
      <4>1. st = "active" => d = rs
        BY <1>3, <1>k, <2>1, <2>6 DEF Knows
      <4>2. ASSUME Owns(w)
            PROVE  /\ k.pc \in {"owned", "revert"} => d = rs
                   /\ Freed(w) => d = k.freed
        <5>1. PICK v \in Worker :
                 /\ Owns(v) /\ Parent(wk[v].leg) = g
                 /\ wk[v].pc \in {"owned", "revert"} => d = reserved[g]
                 /\ Freed(v) => d = wk[v].freed
          BY <1>3, <1>k, <2>1, <2>6, <3>2, <4>2 DEF Knows
        <5>2. v = w
          BY <3>2, <4>2, <5>1
        <5> QED
          BY <2>1, <5>1, <5>2
      <4> QED
        BY <4>1, <4>2
    <3>4. Freed(w) => rs = 0
      BY <1>2, <2>1 DEF Settled, WorkerSettled
    <3>5. /\ s # "none"
          /\ s = "active" => d = r
          /\ s = "triggered" => /\ x.leg = l \/ x.pc = "idle"
                                /\ x.pc \in {"owned", "released", "blocked", "failed", "restored", "unfunded", "revert"}
                                /\ x.pc \in {"owned", "revert"} => d = r
                                /\ x.pc \in {"released", "blocked", "failed", "restored", "unfunded"} => d = x.freed
      BY <1>2, <2>1, <3>1, <3>2, <3>3, <3>4 DEF FireMoves, Owns, Freed
    <3>6. s = "triggered" =>
            /\ Owns(w)' /\ Parent(wk'[w].leg) = g
            /\ wk'[w].pc \in {"owned", "revert"} => d = r
            /\ Freed(w)' => d = wk'[w].freed
      BY <1>2, <2>2, <3>5 DEF Owns, Freed
    <3> QED
      BY <1>k, <2>2, <2>6, <3>5, <3>6 DEF Knows
  <2> QED
    BY <2>1, <2>4, <2>5, <2>6
<1>4. CASE InsertsOwn(w, l) /\ cl[c].op # "idle"
  <2>1. PICK x \in Task : wk' = [wk EXCEPT ![w] = x]
    BY <1>4 DEF InsertsOwn
  <2> PICK o : o = [status |-> "open", margin |-> wk[w].held]
    OBVIOUS
  <2>2. order' = [order EXCEPT ![l] = o] /\ o.status = "open"
    BY <1>4 DEF InsertsOwn
  <2>3. /\ status' = status /\ reserved' = reserved /\ leg' = leg
        /\ order'[l] = o
        /\ \A v \in Worker \ {w} : wk'[v] = wk[v]
        /\ \A j \in Leg \ {l} : order'[j] = order[j]
    BY <1>4, <2>1, <2>2 DEF InsertsOwn, TypeOK
  <2>4. \A h \in Gtt : Untouched(h)
    BY <1>a, <2>2, <2>3, Unmoved
  <2>5. CASE cl[c].gtt # g
    <3>1. cl[c].gtt \in Gtt
      BY <1>4 DEF TypeOK
    <3>2. \A v \in Worker : Parent(wk[v].leg) = cl[c].gtt => wk'[v] = wk[v]
      BY <1>2, <2>3, <2>5
    <3> QED
      BY <1>k, <2>4, <3>1, <3>2, KnowsFrame
  <2>6. CASE cl[c].gtt = g
    <3>1. l \in Fired(g)' /\ status'[g] = "triggered"
      BY <1>2, <1>4, <2>2, <2>3, LegShape DEF Fired, Exclusive, Owns, InsertsOwn
    <3> QED
      BY <1>k, <2>6, <3>1 DEF Knows
  <2> QED
    BY <2>5, <2>6
<1> QED
  BY <1>2, <1>i, <1>3, <1>4

\* A request that is under way alone finds in the row what it read.
LEMMA KnownReprice ==
    ASSUME TypeOK, Exclusive, Known, NEW g \in Gtt, NEW s \in GttStatus, NEW b \in Nat, NEW d \in Nat,
           status[g] \in {"none", "active"}, Reprices(g, s, b, d),
           \A c \in Client : cl'[c].op # "idle" => cl'[c] = cl[c] /\ cl[c].gtt # g
    PROVE  Known'
<1> SUFFICES ASSUME NEW c \in Client PROVE Knows(c)'
  BY DEF Known
<1>a. \A h \in Gtt : LegsOf(h) \subseteq Leg
  BY LegShape
<1>1. CASE cl'[c].op = "idle"
  BY <1>1 DEF Knows
<1>2. CASE cl'[c].op # "idle"
  <2>1. PICK h \in Gtt \ {g} : h = cl[c].gtt /\ cl'[c] = cl[c]
    BY <1>2 DEF TypeOK
  <2>2. \A l \in LegsOf(h) : l \in Leg \ LegsOf(g)
    BY <1>a DEF LegsOf
  <2>3. /\ UNCHANGED <<order, wk>> /\ status'[h] = status[h] /\ reserved'[h] = reserved[h]
        /\ \A l \in LegsOf(h) : leg'[l].margin = leg[l].margin
    BY <2>2 DEF Reprices, TypeOK
  <2>4. Untouched(h)
    BY <2>3, Unmoved
  <2> QED
    BY <2>1, <2>3, <2>4, KnowsFrame DEF Known
<1> QED
  BY <1>1, <1>2

\* A step that touches no GTT a request knows of, and no owner.
LEMMA KnownStill ==
    ASSUME TypeOK, Known, NEW g \in Gtt, cl' = cl, \A h \in Gtt \ {g} : Untouched(h),
           Untouched(g) \/ \A c \in Client : cl[c].op # "idle" => cl[c].gtt # g,
           \A v \in Worker : Owns(v) => wk'[v] = wk[v]
    PROVE  Known'
<1> SUFFICES ASSUME NEW c \in Client PROVE Knows(c)'
  BY DEF Known
<1>1. cl[c].op # "idle" => cl[c].gtt \in Gtt
  BY DEF TypeOK
<1>2. cl[c].op # "idle" => Untouched(cl[c].gtt)
  BY <1>1
<1> QED
  BY <1>2, KnowsFrame DEF Known

\* The reaper decides only what no fire has in hand.
LEMMA KnownReap ==
    ASSUME TypeOK, Exclusive, Known, Reap
    PROVE  Known'
<1>a. (\A l \in Leg : leg'[l].margin = leg[l].margin) /\ UNCHANGED <<order, wk, cl>>
  BY ReapMargins
<1>b. \A h \in Gtt : LegsOf(h) \subseteq Leg
  BY LegShape
<1>c. ASSUME NEW h \in Gtt, status'[h] = status[h], reserved'[h] = reserved[h]
      PROVE  Untouched(h)
  BY <1>a, <1>b, <1>c, Unmoved
<1>1. CASE UNCHANGED <<status, reserved>>
  <2>1. \A h \in Gtt : Untouched(h)
    BY <1>c, <1>1
  <2>2. ASSUME NEW c \in Client PROVE Knows(c)'
    BY <1>a, <2>1, KnowsFrame DEF TypeOK, Known
  <2> QED
    BY <2>2 DEF Known
<1>2. CASE ~UNCHANGED <<status, reserved>>
  <2>1. rp.pc \in {"block", "rearm"}
    BY <1>2 DEF Reap, ReapLegs, ReapRead, ReapBlock, ReapRearm
  <2> PICK g \in Gtt : g = rp.gtt
    BY <2>1 DEF TypeOK
  <2>2. /\ status[g] = "triggered" /\ Fired(g) = {}
        /\ \A v \in Worker : Owns(v) => Parent(wk[v].leg) # g
    BY <2>1 DEF Exclusive, TypeOK
  <2>3. \A c \in Client : cl[c].op # "idle" => cl[c].gtt # g
    BY <2>2 DEF Known, Knows
  <2>4. \A h \in Gtt \ {g} : status'[h] = status[h] /\ reserved'[h] = reserved[h]
    BY <1>2, <2>1 DEF Reap, ReapLegs, ReapRead, ReapBlock, ReapRearm, TypeOK
  <2>5. \A h \in Gtt \ {g} : Untouched(h)
    BY <1>c, <2>4
  <2> QED
    BY <1>a, <2>3, <2>5, KnownStill
<1> QED
  BY <1>1, <1>2

\* A thread that scans has nothing in flight.
LEMMA BalancedObserve ==
    ASSUME TypeOK, TypeOK', Settled, NEW w \in Worker, NEW l \in Leg, Observe(w, l)
    PROVE  Balanced
<1> PICK x : x = [pc |-> "crossed", leg |-> l, freed |-> 0, held |-> 0]
  OBVIOUS
<1>1. wk'[w] = x /\ \A v \in Worker \ {w} : wk'[v] = wk[v]
  BY DEF Observe, TypeOK
<1>2. InFlight(w) = 0 /\ InFlight(w)' = 0
  BY <1>1 DEF Observe, InFlight, Settled, WorkerSettled, TypeOK
<1>3. InTheAir' = InTheAir
  BY <1>1, <1>2, AirChange, OwnedParts
<1>4. UNCHANGED <<reserved, order, rp, used>>
  BY DEF Observe, rows, funds
<1>5. InBook' = InBook /\ InRecovery' = InRecovery /\ Sum(reserved)' = Sum(reserved)
  BY <1>4, BookSame DEF InRecovery
<1> QED
  BY <1>3, <1>4, <1>5, OwnedParts, OwnedThen DEF Balanced

\* A crash forgets what was in flight.
LEMMA CrashLoses ==
    ASSUME TypeOK, TypeOK', Crash
    PROVE  Owned' <= Owned /\ used' = used /\ crashes' # 0
<1>1. UNCHANGED <<reserved, order, used>> /\ crashes' # 0
  BY DEF Crash, rows, funds, TypeOK
<1>2. InRecovery' = 0
  BY DEF Crash, InRecovery, IdleReaper
<1>3. InTheAir' = 0
  <2>1. PICK h : h = [v \in Worker |-> InFlight(v)']
    OBVIOUS
  <2>2. \A v \in Worker : InFlight(v)' = 0
    BY DEF InFlight, Crash, IdleWorker
  <2>3. h \in [Worker -> Nat] /\ \A v \in Worker : h[v] = 0
    BY <2>1, <2>2
  <2>4. Sum(h) = 0
    BY <2>3, SumZero
  <2> QED
    BY <2>1, <2>4 DEF InTheAir
<1>4. InBook' = InBook /\ Sum(reserved)' = Sum(reserved)
  BY <1>1, BookSame
<1> QED
  BY <1>1, <1>2, <1>3, <1>4, OwnedParts, OwnedThen

\* Two numbers that keep their distance.
LEMMA SameGap ==
    ASSUME NEW a \in Int, NEW b \in Int, NEW u \in Int, NEW v \in Int, v - b = u - a, a <= u
    PROVE  b <= v /\ (u = a => v = b)
OBVIOUS

\* What was lost once is not found again.
LEMMA RacedStays == [Next]_vars => (raced => raced')
<1>1. ASSUME UNCHANGED funds \/ LetGo \/ Write \/ (\E d : Move(d)) \/ \E r, x, d : Take(r, x, d)
      PROVE  raced => raced'
  BY <1>1 DEF funds, LetGo, Write, Move, Take
<1>2. ASSUME NEW c \in Client, ClientStep(c)
      PROVE  raced => raced'
  BY <1>1, <1>2 DEF ClientStep, Read, Cancel, Modify, Expire, Withdraw
<1>3. ASSUME NEW w \in Worker, Fire(w)
      PROVE  raced => raced'
  BY <1>1, <1>3 DEF Fire, Claim, ClaimParent, Release, PlaceBlock, PlaceInsert, Mark, Restore,
         Short, Persist, Reject, RevertParent, RevertClaim
<1>4. ASSUME Reap
      PROVE  raced => raced'
  BY <1>1, <1>4 DEF Reap, ReapLegs, ReapRead, ReapBlock, ReapRearm, Short
<1>5. ASSUME ReadFunds
      PROVE  raced => raced'
  BY <1>1, <1>5 DEF ReadFunds, BlockRead, RestoreRead, RecoverRead, CancelRead
<1>6. ASSUME NEW l \in Leg, CancelChild(l) \/ FillFails(l)
      PROVE  raced => raced'
  BY <1>1, <1>6 DEF CancelChild, FillFails, Short
<1>7. ASSUME \/ \E g \in Gtt : Place(g)
             \/ \E w \in Worker, l \in Leg : Observe(w, l)
             \/ ResetFunds \/ Crash \/ UNCHANGED vars
      PROVE  raced => raced'
  BY <1>1, <1>7 DEF Place, Observe, ResetFunds, Crash, vars
<1> QED
  BY <1>2, <1>3, <1>4, <1>5, <1>6, <1>7 DEF Next

\* The books stay exact, and whoever reads a row and comes back finds it so.
LEMMA LedgerNext ==
    ASSUME TypeOK, TypeOK', TurnTrue, Exclusive, Settled, Known, LedgerExact, Quiet, OneClient, [Next]_vars
    PROVE  Known' /\ LedgerExact'
<1>u. Undisturbed
  BY DEF Undisturbed, Quiet
<1>o. Owned \in Nat /\ used \in Nat /\ used' \in Nat
  BY OwnedParts DEF TypeOK
<1>b. ASSUME Balanced, crashes' = crashes, Owned' \in Int
      PROVE  LedgerExact'
  <2> SUFFICES ASSUME ~raced'
               PROVE  Backed'
    BY DEF LedgerExact
  <2>1. Owned \in Int /\ Owned' \in Int /\ used \in Int /\ used' \in Int
    BY <1>b, <1>o
  <2>0. Backed
    BY RacedStays DEF LedgerExact
  <2>2. used' - Owned' = used - Owned /\ Owned <= used
    BY <1>b, <2>0 DEF Balanced, Backed
  <2>3. Owned' <= used' /\ (used = Owned => used' = Owned')
    BY <2>1, <2>2, SameGap
  <2> QED
    BY <1>b, <2>0, <2>3 DEF Backed
<1>n. Owned' \in Int
  <2>1. InBook' \in Nat /\ InTheAir' \in Nat /\ Sum(reserved)' \in Nat /\ InRecovery' \in Nat
    <3>1. reserved' \in [Gtt -> Nat] /\ InRecovery' \in Nat
      BY DEF TypeOK, InRecovery
    <3>2. PICK f : f = [l \in Leg |-> order'[l].margin]
      OBVIOUS
    <3>3. f \in [Leg -> Nat]
      BY <3>2 DEF TypeOK
    <3>4. PICK h : h = [w \in Worker |-> InFlight(w)']
      OBVIOUS
    <3>5. \A w \in Worker : InFlight(w)' \in Nat
      BY DEF TypeOK, InFlight
    <3>6. h \in [Worker -> Nat]
      BY <3>4, <3>5
    <3>7. InBook' = Sum(f) /\ InTheAir' = Sum(h)
      BY <3>2, <3>4 DEF InBook, InTheAir
    <3> QED
      BY <3>1, <3>3, <3>6, <3>7, Finite, SumNat
  <2> QED
    BY <2>1, OwnedThen
<1>1. ASSUME NEW g \in Gtt, Place(g) PROVE Known' /\ LedgerExact'
  <2>1. PICK b, d \in Nat, s \in GttStatus : d = 0 /\ Reprices(g, s, b, d)
    <3>1. 0 \in Nat /\ "active" \in GttStatus
      BY DEF GttStatus
    <3> QED
      BY <1>1, <3>1, PlaceShape
  <2>2. status[g] = "none" /\ cl' = cl /\ reserved[g] = d
    BY <1>1, <2>1, PlaceShape DEF Settled, GttSettled
  <2>3. \A c \in Client : cl[c].op # "idle" => cl[c].gtt # g
    BY <2>2 DEF Known, Knows
  <2>4. Known'
    BY <2>1, <2>2, <2>3, KnownReprice
  <2>5. Balanced /\ crashes' = crashes
    BY <2>1, <2>2, BalancedReprice DEF Reprices
  <2> QED
    BY <1>b, <1>n, <2>4, <2>5
<1>2. ASSUME UNCHANGED <<rows, used, wk, rp>> PROVE Balanced
  <2>1. Sum(reserved)' = Sum(reserved) /\ InBook' = InBook /\ InTheAir' = InTheAir /\ InRecovery' = InRecovery
    BY <1>2, AirSame, BookSame DEF rows, InRecovery
  <2> QED
    BY <1>2, <2>1, OwnedParts, OwnedThen DEF Balanced
<1>i. ASSUME NEW c \in Client, cl'[c].op = "idle" PROVE Known'
  BY <1>i DEF OneClient, Known, Knows
<1>3. ASSUME NEW c \in Client, NEW g \in Gtt, NEW op \in ClientOps, Read(c, op, g)
      PROVE  Known' /\ LedgerExact'
  <2>1. Balanced /\ crashes' = crashes
    BY <1>2, <1>3 DEF Read, funds
  <2> PICK x : x = [op |-> op, gtt |-> g, seen |-> reserved[g]]
    OBVIOUS
  <2>2. cl'[c] = x /\ UNCHANGED <<status, reserved>> /\ status[g] = "active"
    BY <1>3 DEF Read, TypeOK, rows
  <2>3. Knows(c)'
    BY <2>2 DEF Knows
  <2> QED
    BY <1>b, <1>n, <2>1, <2>3 DEF OneClient, Known
<1>4. ASSUME NEW c \in Client, Cancel(c) \/ Modify(c) \/ Expire(c)
      PROVE  Known' /\ LedgerExact'
  <2>1. cl'[c] = IdleClient /\ IdleClient.op = "idle"
    BY <1>4, RequestShape DEF IdleClient, TypeOK
  <2>2. Known'
    BY <1>i, <2>1
  <2>3. CASE UNCHANGED <<status, reserved, leg, order, used, wk, rp, crashes>>
    BY <1>2, <1>b, <1>n, <2>2, <2>3 DEF rows
  <2>4. CASE /\ cl[c].op # "idle" /\ cl[c].gtt \in Gtt /\ status[cl[c].gtt] = "active"
             /\ \E s \in GttStatus, b \in Nat : Reprices(cl[c].gtt, s, b, cl[c].seen)
    <3> PICK g \in Gtt, d \in Nat : g = cl[c].gtt /\ d = cl[c].seen
      BY <2>4 DEF TypeOK
    <3>1. PICK s \in GttStatus, b \in Nat : Reprices(g, s, b, d)
      BY <2>4
    <3>2. d = reserved[g]
      BY <2>4 DEF Known, Knows
    <3>3. Balanced /\ crashes' = crashes
      BY <3>1, <3>2, BalancedReprice DEF Reprices
    <3> QED
      BY <1>b, <1>n, <2>2, <3>3
  <2> QED
    BY <1>4, <2>3, <2>4, RequestShape
<1>5. ASSUME NEW w \in Worker, NEW l \in Leg, Observe(w, l) PROVE Known' /\ LedgerExact'
  <2>1. Balanced /\ crashes' = crashes
    BY <1>5, BalancedObserve DEF Observe
  <2>2. /\ UNCHANGED <<cl, status, reserved, leg, order>>
        /\ \A v \in Worker : Owns(v) => wk'[v] = wk[v]
    BY <1>5 DEF Observe, rows, Owns, TypeOK
  <2>3. ASSUME NEW c \in Client PROVE Knows(c)'
    <3>1. cl[c].op # "idle" => Untouched(cl[c].gtt)
      BY <2>2, Unmoved, LegShape DEF TypeOK
    <3> QED
      BY <2>2, <3>1, KnowsFrame DEF Known
  <2> QED
    BY <1>b, <1>n, <2>1, <2>3 DEF Known
<1>6. ASSUME NEW w \in Worker, Fire(w) PROVE Known' /\ LedgerExact'
  <2>1. crashes' = crashes
    BY <1>6 DEF Fire, Claim, ClaimParent, Release, PlaceBlock, PlaceInsert, Mark, Restore, Persist,
         Reject, RevertParent, RevertClaim
  <2> QED
    BY <1>6, <1>u, <1>b, <1>n, <2>1, KnownFire, BalancedFire
<1>7. CASE Reap
  BY <1>7, <1>b, <1>n, KnownReap, BalancedReap, ReapMargins
<1>8. ASSUME NEW l \in Leg, CancelChild(l) PROVE Known' /\ LedgerExact'
  <2>0. ~raced' => Owned <= used
    BY RacedStays DEF LedgerExact, Backed
  <2>1. Balanced /\ crashes' = crashes
    BY <1>8, <2>0, BalancedCancel DEF CancelChild
  <2> PICK o : o = [status |-> "cancelled", margin |-> 0]
    OBVIOUS
  <2>2. order' = [order EXCEPT ![l] = o] /\ UNCHANGED <<status, reserved, leg, wk, cl>>
    BY <1>8 DEF CancelChild
  <2>3. o.status = "cancelled" /\ order'[l] = o /\ \A j \in Leg \ {l} : order'[j] = order[j]
    BY <2>2 DEF TypeOK
  <2>4. \A h \in Gtt : Untouched(h)
    BY <2>2, <2>3, Unmoved, LegShape
  <2>5. ASSUME NEW c \in Client PROVE Knows(c)'
    BY <2>2, <2>4, KnowsFrame DEF TypeOK, Known
  <2> QED
    BY <1>b, <1>n, <2>1, <2>5 DEF Known
<1>9. CASE Crash
  <2>1. \A c \in Client : cl'[c].op = "idle"
    BY <1>9 DEF Crash, IdleClient
  <2>2. Known'
    BY <2>1 DEF Known, Knows
  <2> QED
    BY <1>9, <1>n, <1>o, <2>2, CrashLoses, RacedStays DEF LedgerExact, Backed
<1>10. CASE UNCHANGED vars
  <2>1. Balanced /\ crashes' = crashes
    BY <1>2, <1>10 DEF vars, rows
  <2>2. Known'
    BY <1>10 DEF vars, Known, Knows, Fired, Owns, Freed
  <2> QED
    BY <1>b, <1>n, <2>1, <2>2
<1>12. CASE ReadFunds
  <2>1. UNCHANGED <<rows, avail, used, raced, wk, cl, rp, crashes>>
    BY <1>12 DEF ReadFunds, BlockRead, RestoreRead, RecoverRead, CancelRead, Take
  <2>2. Balanced
    BY <1>2, <2>1
  <2>3. Known'
    BY <2>1 DEF rows, Known, Knows, Fired, Owns, Freed
  <2> QED
    BY <1>b, <1>n, <2>1, <2>2, <2>3
<1>11. /\ ~ResetFunds /\ \A l \in Leg : ~FillFails(l)
  BY DEF Quiet, ResetFunds, FillFails
<1> QED
  BY <1>1, <1>3, <1>4, <1>5, <1>6, <1>7, <1>8, <1>9, <1>10, <1>11, <1>12 DEF Next, ClientStep

\* Every rupee of used_margin belongs to a GTT, to a child order or to a step in
\* progress, and a crash may strand some and never invents any, until a block or a
\* release that was reading under FundManager's lock writes its balances over a
\* move that a GTT staged without it.
THEOREM LedgerIsExact == Quiet /\ OneClient => (Spec => []LedgerExact)
<1> SUFFICES ASSUME Quiet, OneClient
             PROVE  Spec => []LedgerExact
  OBVIOUS
<1>1. Orderly /\ Undisturbed
  BY DEF Quiet, Orderly, Undisturbed
<1>2. TypeOK /\ TurnTrue /\ Exclusive /\ Settled /\ [Next]_vars => Settled'
  BY <1>1, SettledNext
<1>3. TypeOK /\ TypeOK' /\ TurnTrue /\ Exclusive /\ Settled /\ Known /\ LedgerExact /\ [Next]_vars
        => Known' /\ LedgerExact'
  BY LedgerNext
<1>4. Init => Known /\ LedgerExact
  <2> SUFFICES ASSUME Init PROVE Known /\ LedgerExact
    OBVIOUS
  <2>1. Known
    BY DEF Init, Known, Knows, IdleClient
  <2>2. TypeOK
    BY TypeInit
  <2>3. Sum(reserved) = 0
    <3>1. reserved \in [Gtt -> Nat] /\ \A g \in Gtt : reserved[g] = 0
      BY DEF Init
    <3> QED
      BY <3>1, SumZero
  <2>4. InBook = 0
    <3>1. PICK f : f = [l \in Leg |-> order[l].margin]
      OBVIOUS
    <3>2. f \in [Leg -> Nat] /\ \A l \in Leg : f[l] = 0
      BY <3>1 DEF Init
    <3> QED
      BY <3>1, <3>2, SumZero DEF InBook
  <2>5. InTheAir = 0
    <3>1. PICK f : f = [w \in Worker |-> InFlight(w)]
      OBVIOUS
    <3>2. \A w \in Worker : InFlight(w) = 0
      BY DEF Init, InFlight, IdleWorker
    <3>3. f \in [Worker -> Nat] /\ \A w \in Worker : f[w] = 0
      BY <3>1, <3>2
    <3> QED
      BY <3>1, <3>3, SumZero DEF InTheAir
  <2>6. InRecovery = 0 /\ used = 0
    BY DEF Init, InRecovery, IdleReaper
  <2>7. Owned = 0
    BY <2>2, <2>3, <2>4, <2>5, <2>6, OwnedParts
  <2> QED
    BY <2>1, <2>6, <2>7 DEF LedgerExact, Backed
<1> QED
  BY <1>1, <1>2, <1>3, <1>4, SettledInit, TypeCorrect, TurnHolds, ExclusionHolds, PTL DEF Spec

=============================================================================
