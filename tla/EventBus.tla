------------------------------ MODULE EventBus ------------------------------
(***************************************************************************)
(* The in-process event bus of utils/event_bus.py: publishers hand each    *)
(* callback of a topic to a thread pool whose queue is unbounded, so the   *)
(* bus itself admits at most MaxPending callbacks at a time and drops the  *)
(* rest.  A slot is taken under the lock, and given back under the lock by *)
(* the callback's wrapper or by the publisher whose submit failed; what    *)
(* happens between those two critical sections is up to the threads.       *)
(*                                                                         *)
(* Topics do not interact but for the slots, so one topic stands for all.  *)
(* The names of the specification begin with Bus, for modules that extend  *)
(* this one beside that of a publisher.                                    *)
(***************************************************************************)
EXTENDS Integers, FiniteSets

CONSTANTS
    Event,       \* the events published in a behaviour
    Callback,    \* entries of the topic's subscriber list
    Publisher,   \* threads that publish
    Workers,     \* threads of the pool
    MaxPending,  \* max_pending
    BusFaults    \* "shutdown": the pool is shut down at interpreter exit
                 \* "thread_fails": the pool cannot start another thread

ASSUME EventBusAssumption ==
    /\ IsFiniteSet(Event)
    /\ IsFiniteSet(Callback)
    /\ Workers \in Nat \ {0}
    /\ MaxPending \in Nat
    /\ BusFaults \subseteq {"shutdown", "thread_fails"}

VARIABLES
    subs,       \* the topic's subscribers
    published,  \* events published so far
    pub,        \* where each publisher is in publish()
    task,       \* what became of each callback of each event
    pending,    \* _pending
    dropped,    \* _dropped
    up          \* the pool accepts work

busVars == <<subs, published, pub, task, pending, dropped, up>>

Delivery == Event \X Callback
State == {"none", "admitted", "queued", "running", "done", "dropped", "refused"}

In(states) == {d \in Delivery : task[d] \in states}

BusInit ==
    /\ subs = {}
    /\ published = {}
    /\ pub = [p \in Publisher |-> [pc |-> "idle", left |-> {}, cur |-> <<>>]]
    /\ task = [d \in Delivery |-> "none"]
    /\ pending = 0
    /\ dropped = 0
    /\ up = TRUE

-----------------------------------------------------------------------------
At(p, pc, left, cur) ==
    pub' = [pub EXCEPT ![p] = [pc |-> pc, left |-> left, cur |-> cur]]
To(p, pc) == At(p, pc, pub[p].left, pub[p].cur)

Subscribe(c) ==
    /\ c \notin subs
    /\ subs' = subs \cup {c}
    /\ UNCHANGED <<published, pub, task, pending, dropped, up>>

Unsubscribe(c) ==
    /\ c \in subs
    /\ subs' = subs \ {c}
    /\ UNCHANGED <<published, pub, task, pending, dropped, up>>

\* The callbacks are copied under the lock and called from the copy.
Publish(p, e) ==
    /\ pub[p].pc = "idle"
    /\ e \notin published
    /\ published' = published \cup {e}
    /\ At(p, "loop", {<<e, c>> : c \in subs}, <<>>)
    /\ UNCHANGED <<subs, task, pending, dropped, up>>

\* A slot is reserved, or the callback is dropped.
Admit(p, d) ==
    /\ pub[p].pc = "loop"
    /\ d \in pub[p].left
    /\ IF pending >= MaxPending
       THEN /\ dropped' = dropped + 1
            /\ task' = [task EXCEPT ![d] = "dropped"]
            /\ At(p, "loop", pub[p].left \ {d}, <<>>)
            /\ UNCHANGED pending
       ELSE /\ pending' = pending + 1
            /\ task' = [task EXCEPT ![d] = "admitted"]
            /\ At(p, "submit", pub[p].left \ {d}, d)
            /\ UNCHANGED dropped
    /\ UNCHANGED <<subs, published, up>>

\* slip: the pool's exception leaves publish
SubmitEscapes(p) ==
    /\ pub[p].pc = "submit"
    /\ IF up
       THEN /\ task' = [task EXCEPT ![pub[p].cur] = "queued"]
            /\ To(p, "loop")
       ELSE /\ At(p, "idle", {}, <<>>)
            /\ UNCHANGED task
    /\ UNCHANGED <<subs, published, pending, dropped, up>>

\* slip: the failure is swallowed and the slot kept
SubmitSwallows(p) ==
    /\ pub[p].pc = "submit"
    /\ task' = [task EXCEPT ![pub[p].cur] = IF up THEN "queued" ELSE "refused"]
    /\ To(p, "loop")
    /\ UNCHANGED <<subs, published, pending, dropped, up>>

\* executor.submit.  A pool that was shut down raises at once; one that cannot
\* start a thread raises after it has put the callback in its queue.
Submit(p) ==
    /\ pub[p].pc = "submit"
    /\ \/ /\ up
          /\ task' = [task EXCEPT ![pub[p].cur] = "queued"]
          /\ To(p, "loop")
       \/ /\ up
          /\ "thread_fails" \in BusFaults
          /\ Cardinality(In({"queued", "running"})) < Workers
          /\ task' = [task EXCEPT ![pub[p].cur] = "queued"]
          /\ To(p, "raised")
       \/ /\ ~up
          /\ task' = [task EXCEPT ![pub[p].cur] = "refused"]
          /\ To(p, "raised")
    /\ UNCHANGED <<subs, published, pending, dropped, up>>

\* The finally clause of publish: the slot goes back.
GiveBack(p) ==
    /\ pub[p].pc = "raised"
    /\ pending' = pending - 1
    /\ To(p, "loop")
    /\ UNCHANGED <<subs, published, task, dropped, up>>

\* publish returns.
Return(p) ==
    /\ pub[p].pc = "loop"
    /\ pub[p].left = {}
    /\ To(p, "idle")
    /\ UNCHANGED <<subs, published, task, pending, dropped, up>>

\* A pool thread takes a callback.
Begin(d) ==
    /\ task[d] = "queued"
    /\ Cardinality(In({"running"})) < Workers
    /\ task' = [task EXCEPT ![d] = "running"]
    /\ UNCHANGED <<subs, published, pub, pending, dropped, up>>

\* slip: a callback that raises keeps its slot
EndIfReturned(d) ==
    /\ task[d] = "running"
    /\ task' = [task EXCEPT ![d] = "done"]
    /\ pending' \in {pending, pending - 1}
    /\ UNCHANGED <<subs, published, pub, dropped, up>>

\* _safe_call ends, whether the callback returned or raised.
End(d) ==
    /\ task[d] = "running"
    /\ task' = [task EXCEPT ![d] = "done"]
    /\ pending' = pending - 1
    /\ UNCHANGED <<subs, published, pub, dropped, up>>

\* Interpreter exit: no more work is accepted, what is queued is still run.
Shutdown ==
    /\ "shutdown" \in BusFaults
    /\ up
    /\ up' = FALSE
    /\ UNCHANGED <<subs, published, pub, task, pending, dropped>>

Loop(p) ==
    \/ \E d \in Delivery : Admit(p, d)
    \/ Submit(p)
    \/ GiveBack(p)
    \/ Return(p)

BusNext ==
    \/ \E c \in Callback : Subscribe(c)
    \/ \E c \in Callback : Unsubscribe(c)
    \/ \E p \in Publisher, e \in Event : Publish(p, e)
    \/ \E p \in Publisher : Loop(p)
    \/ \E d \in Delivery : Begin(d)
    \/ \E d \in Delivery : End(d)
    \/ Shutdown

BusSpec == BusInit /\ [][BusNext]_busVars

\* Publishers and pool threads keep running, and callbacks end.
FairBusSpec ==
    /\ BusSpec
    /\ \A p \in Publisher : WF_busVars(Loop(p))
    /\ \A d \in Delivery : SF_busVars(Begin(d)) /\ WF_busVars(End(d))

-----------------------------------------------------------------------------
\* The shape of the state; a publisher that submits has a callback in hand.
BusTypeOK ==
    /\ subs \subseteq Callback
    /\ published \subseteq Event
    /\ pub \in [Publisher -> [pc : {"idle", "loop", "submit", "raised"},
                              left : SUBSET Delivery, cur : Delivery \cup {<<>>}]]
    /\ task \in [Delivery -> State]
    /\ pending \in Int
    /\ dropped \in Nat
    /\ up \in BOOLEAN
    /\ \A p \in Publisher : pub[p].pc \in {"submit", "raised"} => pub[p].cur \in Delivery

\* "Cap on callbacks queued-or-running at once."
Bounded == Cardinality(In({"queued", "running"})) <= MaxPending

\* A callback that holds a slot: admitted and not yet ended, or refused by the
\* pool and not yet given back.
Holds(d) ==
    \/ task[d] \in {"admitted", "queued", "running"}
    \/ task[d] = "refused" /\ \E p \in Publisher : pub[p].pc = "raised" /\ pub[p].cur = d
Slots == {d \in Delivery : Holds(d)}

\* _pending counts exactly the slots in use: none leaks when a callback raises or
\* the pool refuses it, and none is returned twice, so the bus never wedges shut
\* and never runs past its cap.
PendingExact == pending = Cardinality(Slots)

\* What the count rests on: publishers work on different callbacks, none of which
\* the pool or another publisher has touched, and one that gives a slot back has a
\* callback that the pool does not have.
Handover ==
    /\ \A e \in Event \ published, c \in Callback : task[<<e, c>>] = "none"
    /\ \A p \in Publisher :
         /\ pub[p].pc = "idle" => pub[p].left = {}
         /\ \A d \in pub[p].left : task[d] = "none" /\ d[1] \in published
         /\ pub[p].pc = "submit" => task[pub[p].cur] = "admitted"
         /\ pub[p].pc = "raised" => task[pub[p].cur] = "refused"
    /\ \A p, q \in Publisher : p # q =>
         /\ pub[p].left \cap pub[q].left = {}
         /\ {pub[p].pc, pub[q].pc} \subseteq {"submit", "raised"}
              => pub[p].cur # pub[q].cur

\* A callback is dropped only when as many others as the cap allows hold slots.
DropsOnlyAtCapacity ==
    [][dropped' # dropped => Cardinality(Slots) = MaxPending]_busVars

\* What was admitted runs to its end, unless the pool refuses it.
AdmittedRuns ==
    \A d \in Delivery : task[d] = "admitted" ~> task[d] \in {"done", "refused"}
=============================================================================
