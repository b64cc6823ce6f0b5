---------------------------- MODULE FlowTriggers ----------------------------
(***************************************************************************)
(* What starts a Flow workflow: price alerts, order-update watches,        *)
(* scheduled jobs, webhooks and Run Now (services/flow_price_monitor_      *)
(* service.py, flow_order_update_monitor_service.py, flow_scheduler_       *)
(* service.py, execute_workflow, and the routes of blueprints/flow.py that *)
(* activate, deactivate, update and delete a workflow).                    *)
(*                                                                         *)
(* Alerts and watches live in memory, the active flag and the jobs in the  *)
(* database.  Request threads, the polling loops of the price monitor and  *)
(* the runs interleave between statements.  Which symbol, price or order   *)
(* an alert or watch waits for is a free choice of the environment.        *)
(***************************************************************************)
EXTENDS Naturals, FiniteSets, Functions

CONSTANTS
    Flow,     \* workflows
    Client,   \* request threads that activate, deactivate and delete
    Loop,     \* polling threads of the price monitor
    Run,      \* executions that can be queued or under way
    Workers,  \* threads of each monitor's pool
    MaxIds,   \* registrations of alerts and watches in a behaviour
    MaxFaults \* crashes and failed commits in a behaviour

ASSUME FlowAssumption ==
    /\ IsFiniteSet(Flow) /\ IsFiniteSet(Client \cup Loop) /\ IsFiniteSet(Run)
    /\ Client \cap Loop = {} /\ "none" \notin Flow \cup Client \cup Loop
    /\ Workers \in Nat \ {0} /\ MaxIds \in Nat /\ MaxFaults \in Nat

VARIABLES
    trigger, \* what the trigger node asks for: its kind, and once or every time
    row,     \* flow_workflows: exists, is_active, schedule_job_id names its job
    jobs,    \* the scheduler's job store
    loose,   \* history: workflows that an update has switched off or whose job it
             \* has unnamed, and those at which two requests have been at once
    alert,   \* FlowPriceMonitor._alerts: the registration of a workflow, or 0
    watch,   \* FlowOrderUpdateMonitor._watches, likewise
    flag,    \* of each registration: armed, triggered, or spent: removed by
             \* the loop that fired it
    monitor, \* _running, _stop_event and _monitor_thread; crossed, a history:
             \* two threads have been in _stop_monitoring at once
    stopped, \* the loops whose stop event is set
    pending, \* FlowPriceMonitor._pending
    run,     \* executions, from their queue to their end
    th,      \* where each request thread and polling loop is
    ids,     \* registrations so far
    fired,   \* of each workflow, since a request has registered its watch: the
             \* runs the watch has queued, if it asks for one, and how often a
             \* restart has registered it again
    faults   \* crashes and failed commits so far

store == <<trigger, row, jobs, loose>>
registry == <<alert, watch, flag, ids, fired>>
vars == <<store, registry, monitor, stopped, pending, run, th, faults>>

Thread == Client \cup Loop

Registered(w) == alert[w] # 0
Id == 1 .. MaxIds
NoRun == [src |-> "none", w |-> "none", id |-> 0, pc |-> "free"]

Unfired == [runs |-> 0, restarts |-> 0]

NoMonitor == [running |-> FALSE, event |-> "none", thread |-> "none", crossed |-> FALSE]

\* op: why t removes an alert or what its request is; id: the alert in hand;
\* todo: alerts to check in this cycle; on: the loop joined
Rest(pc) == [pc |-> pc, op |-> "none", w |-> "none", id |-> 0, todo |-> {}, on |-> "none"]

Init ==
    /\ trigger \in [Flow -> [kind : {"alert", "watch", "job"}, once : BOOLEAN]]
    /\ row = [w \in Flow |-> [exists |-> TRUE, active |-> FALSE, job |-> FALSE]]
    /\ jobs = {}
    /\ loose = {}
    /\ alert = [w \in Flow |-> 0]
    /\ watch = [w \in Flow |-> 0]
    /\ flag = [i \in Id |-> "armed"]
    /\ monitor = NoMonitor
    /\ stopped = {}
    /\ pending = {}
    /\ run = [r \in Run |-> NoRun]
    /\ th = [t \in Thread |-> Rest(IF t \in Client THEN "idle" ELSE "off")]
    /\ ids = 0
    /\ fired = [w \in Flow |-> Unfired]
    /\ faults = 0

At(t, pc) == th[t].pc = pc
Goto(t, pc) == th' = [th EXCEPT ![t].pc = pc]
Finish(t) == th' = [th EXCEPT ![t] = Rest("idle")]

\* A commit of flow_db fails: it is logged, rolled back and not reported.
CommitFails == faults < MaxFaults /\ faults' = faults + 1 /\ UNCHANGED store
Commits == UNCHANGED faults

-----------------------------------------------------------------------------
(* activate_workflow: the registration first, the active flag last.        *)

Busy(c, w) == ~At(c, "idle") /\ th[c].w = w

Begin(c, w, op, pc) ==
    /\ c \in Client /\ At(c, "idle")
    /\ th' = [th EXCEPT ![c] = [Rest(pc) EXCEPT !.op = op, !.w = w]]
    /\ loose' = IF \E d \in Client : Busy(d, w) THEN loose \cup {w} ELSE loose
    /\ UNCHANGED <<trigger, row, jobs, registry, monitor, stopped, pending, run, faults>>

Activate(c, w) ==
    /\ row[w].exists /\ ~row[w].active
    /\ Begin(c, w, "activate", trigger[w].kind)

AddAlert(c) ==
    /\ At(c, "alert") /\ ids < MaxIds
    /\ ids' = ids + 1
    /\ alert' = [alert EXCEPT ![th[c].w] = ids + 1]
    /\ Goto(c, "test_running")
    /\ UNCHANGED <<store, watch, flag, fired, monitor, stopped, pending, run, faults>>

TestRunning(c) ==
    /\ At(c, "test_running")
    /\ Goto(c, IF monitor.running THEN "activate" ELSE "new_event")
    /\ UNCHANGED <<store, registry, monitor, stopped, pending, run, faults>>

\* slip: one event, cleared by every start
NewEventShared(c, g) ==
    /\ At(c, "new_event")
    /\ g \in Loop /\ At(g, "off")
    /\ monitor' = [monitor EXCEPT !.event = g]
    /\ stopped' = {}
    /\ th' = [th EXCEPT ![c].pc = "new_thread", ![c].on = g]
    /\ UNCHANGED <<store, registry, pending, run, faults>>

\* _start_monitoring: a fresh event, the flag, and the thread.
NewEvent(c, g) ==
    /\ At(c, "new_event")
    /\ g \in Loop /\ At(g, "off")
    /\ monitor' = [monitor EXCEPT !.event = g]
    /\ stopped' = stopped \ {g}
    /\ th' = [th EXCEPT ![c].pc = "new_thread", ![c].on = g]
    /\ UNCHANGED <<store, registry, pending, run, faults>>

NewThread(c) ==
    LET g == th[c].on IN
    /\ At(c, "new_thread")
    /\ monitor' = [monitor EXCEPT !.running = TRUE, !.thread = g]
    /\ th' = [th EXCEPT ![c].pc = "activate", ![c].on = "none", ![g] = Rest("wait")]
    /\ UNCHANGED <<store, registry, stopped, pending, run, faults>>

AddWatch(c) ==
    /\ At(c, "watch") /\ ids < MaxIds
    /\ ids' = ids + 1
    /\ watch' = [watch EXCEPT ![th[c].w] = ids + 1]
    /\ fired' = [fired EXCEPT ![th[c].w] = Unfired]
    /\ Goto(c, "activate")
    /\ UNCHANGED <<store, alert, flag, monitor, stopped, pending, run, faults>>

AddJob(c) ==
    /\ At(c, "job")
    /\ jobs' = jobs \cup {th[c].w}
    /\ Goto(c, "set_job_id")
    /\ UNCHANGED <<trigger, row, loose, registry, monitor, stopped, pending, run, faults>>

SetJobId(c) ==
    LET w == th[c].w IN
    /\ At(c, "set_job_id")
    /\ \/ row' = [row EXCEPT ![w].job = @ \/ row[w].exists] /\ UNCHANGED <<trigger, jobs, loose>> /\ Commits
       \/ CommitFails
    /\ Goto(c, "activate")
    /\ UNCHANGED <<registry, monitor, stopped, pending, run>>

\* db_activate, whose failure is not looked at
SetActive(c) ==
    LET w == th[c].w IN
    /\ At(c, "activate")
    /\ \/ row' = [row EXCEPT ![w].active = @ \/ row[w].exists] /\ UNCHANGED <<trigger, jobs, loose>> /\ Commits
       \/ CommitFails
    /\ Finish(c)
    /\ UNCHANGED <<registry, monitor, stopped, pending, run>>

-----------------------------------------------------------------------------
(* deactivate_workflow and delete_workflow: job, alert, watch, then row.   *)

Deactivate(c, w) ==
    /\ row[w].active
    /\ Begin(c, w, "deactivate", IF row[w].job THEN "remove_job" ELSE "remove")

Delete(c, w) ==
    /\ row[w].exists
    /\ Begin(c, w, "delete", IF row[w].active THEN "remove_job" ELSE "write")

RemoveJob(c) ==
    LET w == th[c].w IN
    /\ At(c, "remove_job")
    /\ jobs' = jobs \ {w}
    /\ row' = IF th[c].op = "deactivate" THEN [row EXCEPT ![w].job = FALSE] ELSE row
    /\ Goto(c, "remove")
    /\ UNCHANGED <<trigger, loose, registry, monitor, stopped, pending, run, faults>>

\* slip: only the kind of the present trigger is torn down
RemoveWatchKept(c) ==
    /\ At(c, "unwatch")
    /\ Goto(c, "write")
    /\ UNCHANGED <<store, registry, monitor, stopped, pending, run, faults>>

RemoveWatch(c) ==
    /\ At(c, "unwatch")
    /\ watch' = [watch EXCEPT ![th[c].w] = 0]
    /\ Goto(c, "write")
    /\ UNCHANGED <<store, alert, flag, ids, fired, monitor, stopped, pending, run, faults>>

WriteRow(c) ==
    LET w == th[c].w IN
    /\ At(c, "write")
    /\ \/ /\ row' = IF th[c].op = "delete"
                    THEN [row EXCEPT ![w] = [exists |-> FALSE, active |-> FALSE, job |-> FALSE]]
                    ELSE [row EXCEPT ![w].active = FALSE]
          /\ UNCHANGED <<trigger, jobs, loose>> /\ Commits
       \/ CommitFails
    /\ Finish(c)
    /\ UNCHANGED <<registry, monitor, stopped, pending, run>>

\* update_workflow: is_active and schedule_job_id may be part of what is updated,
\* and then nothing is registered or torn down with them.
Update(w) ==
    /\ row[w].exists
    /\ \/ \E active \in BOOLEAN, job \in {row[w].job, FALSE} :
             /\ row' = [row EXCEPT ![w].active = active, ![w].job = job]
             /\ loose' = IF active /\ job = row[w].job THEN loose ELSE loose \cup {w}
             /\ UNCHANGED <<trigger, jobs>> /\ Commits
       \/ CommitFails
    /\ UNCHANGED <<registry, monitor, stopped, pending, run, th>>

-----------------------------------------------------------------------------
(* FlowPriceMonitor.remove_alert and _stop_monitoring, called by requests  *)
(* and by the polling loop itself.                                         *)

\* The caller goes on: a loop with its cycle, a request with the watch.
Scanning(t) == [Rest("scan") EXCEPT !.todo = th[t].todo]
Return(t) ==
    th' = [th EXCEPT ![t] = IF t \in Loop THEN Scanning(t)
                            ELSE [@ EXCEPT !.pc = "unwatch", !.on = "none"]]

RemoveAlert(t) ==
    LET w == th[t].w IN
    /\ At(t, "remove")
    /\ alert' = [alert EXCEPT ![w] = 0]
    /\ flag' = IF Registered(w) /\ th[t].op = "fired" THEN [flag EXCEPT ![alert[w]] = "spent"] ELSE flag
    /\ IF Registered(w) THEN Goto(t, "test_empty") ELSE Return(t)
    /\ UNCHANGED <<store, watch, ids, fired, monitor, stopped, pending, run, faults>>

Stopping(t) == At(t, "stop") \/ At(t, "clear")

TestEmpty(t) ==
    /\ At(t, "test_empty")
    /\ IF monitor.running /\ \A w \in Flow : ~Registered(w)
       THEN /\ Goto(t, "stop")
            /\ monitor' = [monitor EXCEPT !.crossed = @ \/ \E u \in Thread : Stopping(u)]
       ELSE Return(t) /\ UNCHANGED monitor
    /\ UNCHANGED <<store, registry, stopped, pending, run, faults>>

SetStop(t) ==
    /\ At(t, "stop")
    /\ stopped' = stopped \cup {monitor.event}
    /\ Goto(t, "clear")
    /\ UNCHANGED <<store, registry, monitor, pending, run, faults>>

\* The loop is joined, unless it is the caller itself.
ClearRunning(t) ==
    LET g == monitor.thread IN
    /\ At(t, "clear")
    /\ IF g \in {"none", t}
       THEN monitor' = [monitor EXCEPT !.running = FALSE, !.thread = "none"] /\ Return(t)
       ELSE /\ monitor' = [monitor EXCEPT !.running = FALSE]
            /\ th' = [th EXCEPT ![t].pc = "join", ![t].on = g]
    /\ UNCHANGED <<store, registry, stopped, pending, run, faults>>

\* The loop has ended, or has been waiting for a quote for five seconds.
Join(t) ==
    /\ At(t, "join")
    /\ At(th[t].on, "off") \/ At(th[t].on, "quote")
    /\ monitor' = [monitor EXCEPT !.thread = "none"]
    /\ Return(t)
    /\ UNCHANGED <<store, registry, stopped, pending, run, faults>>

-----------------------------------------------------------------------------
(* FlowPriceMonitor._monitoring_loop.                                      *)

\* The stop event is looked at once a cycle.
Cycle(g) ==
    /\ At(g, "wait")
    /\ th' = [th EXCEPT ![g] = IF g \in stopped THEN Rest("off")
                  ELSE [Rest("scan") EXCEPT !.todo = {w \in Flow : Registered(w)}]]
    /\ UNCHANGED <<store, registry, monitor, stopped, pending, run, faults>>

EndCycle(g) ==
    /\ At(g, "scan") /\ th[g].todo = {}
    /\ th' = [th EXCEPT ![g] = Rest("wait")]
    /\ UNCHANGED <<store, registry, monitor, stopped, pending, run, faults>>

\* _check_all_alerts takes the next alert: gone or triggered, it is skipped.
Check(g, w) ==
    /\ At(g, "scan") /\ w \in th[g].todo
    /\ th' = [th EXCEPT ![g] = IF Registered(w) /\ flag[alert[w]] = "armed"
                  THEN [th[g] EXCEPT !.pc = "quote", !.w = w, !.id = alert[w], !.todo = @ \ {w}]
                  ELSE [th[g] EXCEPT !.todo = @ \ {w}]]
    /\ UNCHANGED <<store, registry, monitor, stopped, pending, run, faults>>

\* The window of the alert is over.
Expire(g) ==
    /\ At(g, "quote")
    /\ th' = [th EXCEPT ![g].pc = "remove", ![g].op = "expired"]
    /\ UNCHANGED <<store, registry, monitor, stopped, pending, run, faults>>

\* No quote, or the condition is not met.
NotMet(g) ==
    /\ At(g, "quote")
    /\ Return(g)
    /\ UNCHANGED <<store, registry, monitor, stopped, pending, run, faults>>

\* The condition is met; the latch is set on the alert in hand, which may no
\* longer be the one registered.
Met(g) ==
    LET once == trigger[th[g].w].once IN
    /\ At(g, "quote") /\ flag[th[g].id] = "armed"
    /\ flag' = IF once THEN [flag EXCEPT ![th[g].id] = "triggered"] ELSE flag
    /\ Goto(g, "submit")
    /\ UNCHANGED <<store, alert, watch, ids, fired, monitor, stopped, pending, run, faults>>

Queue(r, src, w, id, pc) ==
    /\ run[r] = NoRun
    /\ run' = [run EXCEPT ![r] = [src |-> src, w |-> w, id |-> id, pc |-> pc]]

AfterSubmit(g) ==
    IF trigger[th[g].w].once THEN th' = [th EXCEPT ![g].pc = "remove", ![g].op = "fired"]
    ELSE Return(g)

\* slip: a run is queued for every tick
SubmitAlways(g) ==
    LET w == th[g].w IN
    /\ At(g, "submit")
    /\ pending' = pending \cup {w}
    /\ \E r \in Run : Queue(r, "alert", w, th[g].id, "queued")
    /\ AfterSubmit(g)
    /\ UNCHANGED <<store, registry, monitor, stopped, faults>>

\* _trigger_workflow: one run of a workflow at a time, then remove_alert.
Submit(g) ==
    LET w == th[g].w IN
    /\ At(g, "submit")
    /\ IF w \in pending
       THEN UNCHANGED <<pending, run>>
       ELSE /\ pending' = pending \cup {w}
            /\ \E r \in Run : Queue(r, "alert", w, th[g].id, "queued")
    /\ AfterSubmit(g)
    /\ UNCHANGED <<store, registry, monitor, stopped, faults>>

-----------------------------------------------------------------------------
(* The other triggers.                                                     *)

\* slip: nothing tells that the watch has been claimed
OrderUpdateUnclaimed(w) ==
    /\ watch[w] # 0 /\ flag[watch[w]] = "armed"
    /\ fired' = IF trigger[w].once THEN [fired EXCEPT ![w].runs = @ + 1] ELSE fired
    /\ \E r \in Run : Queue(r, "watch", w, watch[w], "queued")
    /\ UNCHANGED <<store, alert, watch, flag, ids, monitor, stopped, pending, th, faults>>

\* _on_order_update: a matching watch is claimed under the lock and fired.
OrderUpdate(w) ==
    /\ watch[w] # 0 /\ flag[watch[w]] = "armed"
    /\ flag' = [flag EXCEPT ![watch[w]] = "triggered"]
    /\ fired' = IF trigger[w].once THEN [fired EXCEPT ![w].runs = @ + 1] ELSE fired
    /\ \E r \in Run : Queue(r, "watch", w, watch[w], "queued")
    /\ UNCHANGED <<store, alert, watch, ids, monitor, stopped, pending, th, faults>>

\* execute_workflow_scheduled, in market hours; one instance of a job.
JobFires(w) ==
    /\ w \in jobs
    /\ \A r \in Run : run[r].src = "job" => run[r].w # w
    /\ \E r \in Run : Queue(r, "job", w, 0, "ask")
    /\ jobs' \in {jobs, jobs \ {w}}  \* a job that runs once leaves the store
    /\ UNCHANGED <<trigger, row, loose, registry, monitor, stopped, pending, th, faults>>

Requested(w) ==
    /\ \E r \in Run : Queue(r, "request", w, 0, "ask")
    /\ UNCHANGED <<store, registry, monitor, stopped, pending, th, faults>>

\* execute_workflow_now, whether or not the workflow is active
RunNow(w) == row[w].exists /\ Requested(w)

\* _execute_webhook, for one that is
Webhook(w) == row[w].active /\ Requested(w)

-----------------------------------------------------------------------------
(* A run: the price monitor's checks, then execute_workflow.               *)

RunAt(r, pc) == run[r].pc = pc
RunGoto(r, pc) == run' = [run EXCEPT ![r].pc = pc]
InPool(src) == {r \in Run : run[r].src = src /\ ~RunAt(r, "queued")}

\* A worker of the pool takes the run.  An alert's is dropped when the alert
\* is not registered.
StartRun(r) ==
    /\ RunAt(r, "queued")
    /\ Cardinality(InPool(run[r].src)) < Workers
    /\ RunGoto(r, IF run[r].src = "watch" THEN "ask"
                  ELSE IF Registered(run[r].w) THEN "active" ELSE "end")
    /\ UNCHANGED <<store, registry, monitor, stopped, pending, th, faults>>

\* _workflow_is_active
TestActive(r) ==
    /\ RunAt(r, "active")
    /\ RunGoto(r, IF row[run[r].w].active THEN "ask" ELSE "end")
    /\ UNCHANGED <<store, registry, monitor, stopped, pending, th, faults>>

Locked(w) == \E r \in Run : run[r].w = w /\ RunAt(r, "running")

\* "already running" is asked before the lock is taken.
Ask(r) ==
    /\ RunAt(r, "ask")
    /\ RunGoto(r, IF Locked(run[r].w) THEN "end" ELSE "lock")
    /\ UNCHANGED <<store, registry, monitor, stopped, pending, th, faults>>

\* With the lock: the workflow must be there and be complete.
Execute(r) ==
    /\ RunAt(r, "lock") /\ ~Locked(run[r].w)
    /\ \/ row[run[r].w].exists /\ RunGoto(r, "running")
       \/ RunGoto(r, "end")
    /\ UNCHANGED <<store, registry, monitor, stopped, pending, th, faults>>

\* The walk of the graph is over, completed or failed.
Executed(r) ==
    /\ RunAt(r, "running")
    /\ RunGoto(r, "end")
    /\ UNCHANGED <<store, registry, monitor, stopped, pending, th, faults>>

\* The finally of the run: the pending mark of an alert, the watch by the
\* workflow's id, or the latch of the watch it was fired by.
EndRun(r) ==
    LET w == run[r].w
        watched == run[r].src = "watch"
    IN /\ RunAt(r, "end")
       /\ run' = [run EXCEPT ![r] = NoRun]
       /\ pending' = IF run[r].src = "alert" THEN pending \ {w} ELSE pending
       /\ watch' = IF watched /\ trigger[w].once THEN [watch EXCEPT ![w] = 0] ELSE watch
       /\ flag' = IF watched /\ ~trigger[w].once THEN [flag EXCEPT ![run[r].id] = "armed"] ELSE flag
       /\ UNCHANGED <<store, alert, ids, fired, monitor, stopped, th, faults>>

-----------------------------------------------------------------------------
\* The process is killed and started: the scheduler finds its jobs, and
\* restore_order_update_watches registers the watches of active workflows.
Crash ==
    LET restored == {w \in Flow : row[w].active /\ trigger[w].kind = "watch"} IN
    /\ faults < MaxFaults
    /\ faults' = faults + 1
    /\ ids' = ids + Cardinality(restored) /\ ids' <= MaxIds
    /\ alert' = [w \in Flow |-> 0]
    /\ \E i \in Injection(restored, ids + 1 .. ids') :
          watch' = [w \in Flow |-> IF w \in restored THEN i[w] ELSE 0]
    /\ fired' = [w \in Flow |-> IF w \in restored /\ trigger[w].once
                                THEN [fired[w] EXCEPT !.restarts = @ + 1] ELSE fired[w]]
    /\ UNCHANGED flag
    /\ monitor' = NoMonitor
    /\ stopped' = {}
    /\ pending' = {}
    /\ run' = [r \in Run |-> NoRun]
    /\ th' = [t \in Thread |-> Rest(IF t \in Client THEN "idle" ELSE "off")]
    /\ UNCHANGED store

Request(c) ==
    \/ \E w \in Flow : Activate(c, w) \/ Deactivate(c, w) \/ Delete(c, w)
    \/ AddAlert(c) \/ TestRunning(c) \/ (\E g \in Loop : NewEvent(c, g)) \/ NewThread(c)
    \/ AddWatch(c) \/ AddJob(c) \/ SetJobId(c) \/ SetActive(c)
    \/ RemoveJob(c) \/ RemoveWatch(c) \/ WriteRow(c)

Remove(t) == RemoveAlert(t) \/ TestEmpty(t) \/ SetStop(t) \/ ClearRunning(t) \/ Join(t)

Poll(g) ==
    \/ Cycle(g) \/ EndCycle(g) \/ (\E w \in Flow : Check(g, w))
    \/ Expire(g) \/ NotMet(g) \/ Met(g) \/ Submit(g)

Fire(w) == OrderUpdate(w) \/ JobFires(w) \/ RunNow(w) \/ Webhook(w)

Go(r) == StartRun(r) \/ TestActive(r) \/ Ask(r) \/ Execute(r) \/ Executed(r) \/ EndRun(r)

Next ==
    \/ \E c \in Client : Request(c)
    \/ \E t \in Thread : Remove(t)
    \/ \E g \in Loop : Poll(g)
    \/ \E w \in Flow : Update(w) \/ Fire(w)
    \/ \E r \in Run : Go(r)
    \/ Crash

Spec == Init /\ [][Next]_vars

-----------------------------------------------------------------------------
\* Types of the tables, the registries, the runs and the threads.
TypeOK ==
    /\ trigger \in [Flow -> [kind : {"alert", "watch", "job"}, once : BOOLEAN]]
    /\ row \in [Flow -> [exists : BOOLEAN, active : BOOLEAN, job : BOOLEAN]]
    /\ jobs \subseteq Flow /\ loose \subseteq Flow
    /\ alert \in [Flow -> 0 .. ids]
    /\ watch \in [Flow -> 0 .. ids]
    /\ flag \in [Id -> {"armed", "triggered", "spent"}]
    /\ ids \in 0 .. MaxIds
    /\ fired \in [Flow -> [runs : Nat, restarts : Nat]]
    /\ monitor \in [running : BOOLEAN, event : Loop \cup {"none"},
                    thread : Loop \cup {"none"}, crossed : BOOLEAN]
    /\ stopped \subseteq Loop
    /\ pending \subseteq Flow
    /\ \A r \in Run : run[r] = NoRun \/ run[r].w \in Flow
    /\ \A t \in Thread : th[t].todo \subseteq Flow /\ th[t].id \in 0 .. ids
    /\ faults \in 0 .. MaxFaults

\* At most one polling loop has not been told to stop: a loop that outlives
\* its stop in a slow quote is not revived by the next activation, whichever
\* thread removes the last alert, as long as two threads have not been in
\* _stop_monitoring at once. Then the later of them marks as not running a
\* loop that was started behind its back, and the next activation adds another.
OneLoop ==
    monitor.crossed \/ Cardinality({g \in Loop : ~At(g, "off") /\ g \notin stopped}) <= 1

\* Runs of one workflow never overlap, though each asks whether another is
\* under way before it takes the lock. One run of an alert is queued or under
\* way while its workflow is marked pending, and none else: no backlog builds
\* up behind a slow run, and no mark is left behind that would silence the
\* alert.
OneRunAtATime ==
    /\ TypeOK
    /\ \A r, s \in Run :
          RunAt(r, "running") /\ RunAt(s, "running") /\ run[r].w = run[s].w => r = s
    /\ \A w \in Flow :
          Cardinality({r \in Run : run[r].src = "alert" /\ run[r].w = w})
             = IF w \in pending THEN 1 ELSE 0

\* A watch that asks for one run queues one for each time it was registered:
\* order events that arrive together, late ends of earlier runs and updates of
\* the workflow give it no second one.  A restart registers it again whether or
\* not it has fired, and it may fire again.
WatchFiresOnce ==
    \A w \in Flow : trigger[w].once => fired[w].runs <= 1 + fired[w].restarts

Settled == \A c \in Client : At(c, "idle")

\* Without a crash or a failed commit, no workflow that is switched off or
\* deleted is left with an alert, a watch or a job that would trade for it,
\* unless an update has switched it off, which leaves all three in place, or has
\* overwritten the name of its job, or two requests were at it at once.
InactiveIsSilent ==
    Settled /\ faults = 0 =>
        \A w \in Flow \ loose :
            ~row[w].active => ~Registered(w) /\ watch[w] = 0 /\ w \notin jobs

\* "a queued run can sit behind a slow execution while the alert is removed,
\* the watch expires, or the workflow is deactivated" (flow_price_monitor_
\* service.py): those are the runs that are dropped, not one whose alert was
\* removed because it fired.
DroppedIsWithdrawn ==
    [][\A r \in Run : RunAt(r, "queued") /\ RunAt(r, "end")' => flag[run[r].id] # "spent"]_vars

=============================================================================
