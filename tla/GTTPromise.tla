----------------------------- MODULE GTTPromise -----------------------------
(***************************************************************************)
(* What sandbox/gtt_manager.py promises of a GTT, whatever threads compete *)
(* for it: once armed it ends at most once, either by firing exactly one   *)
(* of its legs or by being withdrawn (cancelled, expired or rejected)      *)
(* without any order.                                                      *)
(***************************************************************************)
CONSTANTS
    Gtt,
    LegsOf(_)  \* the legs of a GTT

VARIABLES
    outcome,  \* "none", "armed", "fired" or "withdrawn", for each GTT
    fired     \* the legs of each GTT whose order was placed

pvars == <<outcome, fired>>

PInit ==
    /\ outcome = [g \in Gtt |-> "none"]
    /\ fired = [g \in Gtt |-> {}]

Arm(g) ==
    /\ outcome[g] = "none"
    /\ outcome' = [outcome EXCEPT ![g] = "armed"]
    /\ UNCHANGED fired

FireOne(g) ==
    /\ outcome[g] = "armed"
    /\ \E l \in LegsOf(g) : fired' = [fired EXCEPT ![g] = {l}]
    /\ outcome' = [outcome EXCEPT ![g] = "fired"]

Withdrawal(g) ==
    /\ outcome[g] = "armed"
    /\ outcome' = [outcome EXCEPT ![g] = "withdrawn"]
    /\ UNCHANGED fired

PNext == \E g \in Gtt : Arm(g) \/ FireOne(g) \/ Withdrawal(g)

PSpec == PInit /\ [][PNext]_pvars
=============================================================================
