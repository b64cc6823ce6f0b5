---------------------------- MODULE StrategyHost ----------------------------
(***************************************************************************)
(* The host of the user's Python strategies (blueprints/python_strategy.py)*)
(* runs each strategy as a process of its own, in a session of its own, so *)
(* a strategy outlives the server that started it.  What runs is known in  *)
(* three places: RUNNING_STRATEGIES in memory (table), STRATEGY_CONFIGS in *)
(* memory (config) and its copy in a file (disk), which a restart reads.   *)
(* Requests, scheduled jobs, the per-minute enforcer, the reaper and the   *)
(* restoration after a start or a login work on them; PROCESS_LOCK is held *)
(* while a process is started or stopped, and what is checked before and   *)
(* written after it is not under the lock.                                 *)
(*                                                                         *)
(* The production worker switches threads where one waits for the lock, for*)
(* a process to start or for one to end; a step here is what a thread does *)
(* between two such points, and its way back from a start or a stop is a   *)
(* step of its own, as under real threads.                                 *)
(***************************************************************************)
EXTENDS Naturals, FiniteSets

CONSTANTS
    Strategy,   \* strategies, all uploaded before
    Thread,     \* requests, jobs, the enforcer and restorations
    MaxPids,    \* bound: processes the system can tell apart
    MaxEvents,  \* bound: crashes of the server, processes that cannot be killed
    MaxLost     \* bound: no more are refused to the server when this many are lost

ASSUME HostAssumption ==
    MaxPids \in Nat \ {0} /\ MaxEvents \in Nat /\ MaxLost \in Nat /\ "none" \notin Strategy \cup Thread

VARIABLES
    proc,         \* the operating system: the strategy a pid is a live process of
    table,        \* RUNNING_STRATEGIES: the pid behind the handle, or 0
    config,       \* STRATEGY_CONFIGS
    disk,         \* strategy_configs.json
    lock,         \* holder of PROCESS_LOCK
    initialized,  \* _initialized
    armed,        \* the cron jobs have been added since the start
    th,           \* threads
    events,
    lost,         \* live processes that no record led to when the server died, that were
                  \* forgotten because they could not be killed, or that the server may
                  \* not inspect
    misled        \* ghost: strategies that restoration called failed while they ran

vars == <<proc, table, config, disk, lock, initialized, armed, th, events, lost, misled>>
ghosts == <<events, lost, misled>>
hidden == SUBSET lost

Pid == 1 .. MaxPids
Error == {"none", "waiting", "failed"}
Config == [exists : BOOLEAN, running : BOOLEAN, pid : 0 .. MaxPids,
           stopped : BOOLEAN, error : Error, paused : BOOLEAN]
NoConfig == [exists |-> FALSE, running |-> FALSE, pid |-> 0,
             stopped |-> FALSE, error |-> "none", paused |-> FALSE]
NoThread == [op |-> "none", pc |-> "idle", s |-> "none", pid |-> 0,
             todo |-> {}, was |-> {}, res |-> "none", dirty |-> FALSE]

Alive(p) == p # 0 /\ proc[p] # "none"

\* check_process_status, psutil.Process: a process they are refused is taken
\* for dead. What they are refused, u, is chosen at each check.
Seen(p, u) == Alive(p) /\ p \notin u
Existing == {s \in Strategy : config[s].exists}
Free(t) == lock \in {"none", t}
At(t, pc) == th[t].pc = pc
Idle(t) == At(t, "idle")

\* _is_strategy_running: by the table or by the stored pid
IsRunning(s, u) == table[s] # 0 \/ Seen(config[s].pid, u)

\* pids the system may give to the next process
Fresh == {p \in Pid : /\ proc[p] = "none"
                      /\ \A s \in Strategy : p \notin {table[s], config[s].pid, disk[s].pid}
                      /\ \A t \in Thread : th[t].pid # p}

Init ==
    /\ proc = [p \in Pid |-> "none"]
    /\ table = [s \in Strategy |-> 0]
    /\ config = [s \in Strategy |-> [NoConfig EXCEPT !.exists = TRUE]]
    /\ disk = config
    /\ lock = "none"
    /\ initialized = FALSE
    /\ armed = FALSE
    /\ th = [t \in Thread |-> NoThread]
    /\ events = 0
    /\ lost = {}
    /\ misled = {}

Save == disk' = config'
SaveIf(b) == disk' = IF b THEN config' ELSE disk
Goto(t, pc) == th' = [th EXCEPT ![t].pc = pc]
Rest(t) == th' = [th EXCEPT ![t] = NoThread]
Call(t, op, pc, s) == th' = [th EXCEPT ![t] = [NoThread EXCEPT !.op = op, !.pc = pc, !.s = s]]
Loop(t, op, pc) == th' = [th EXCEPT ![t] = [NoThread EXCEPT !.op = op, !.pc = pc,
                                                            !.todo = Existing, !.was = Existing]]
\* Where a thread goes on when its start or stop has returned.
Returned(t) ==
    CASE th[t].op \in {"start", "job"} -> "idle"
      [] th[t].op = "stop" -> "stopped"
      [] th[t].op = "delete" -> "delete"
      [] th[t].op \in {"enforce", "daily"} ->
            IF th[t].pc \in {"start", "popen"} THEN "resumed" ELSE "paused"
      [] th[t].op \in {"init", "login"} -> "restarted"
      [] th[t].op = "pending" -> "tried"
Return(t, res) ==
    th' = [th EXCEPT ![t] = IF Returned(t) = "idle" THEN NoThread
                            ELSE [@ EXCEPT !.pc = Returned(t), !.res = res, !.pid = 0]]

-----------------------------------------------------------------------------
(* start_strategy_process: called with the lock not held, and by nobody who *)
(* holds it.                                                               *)

\* It is running, it is gone, the master contracts are not ready, or the
\* system refuses.
Refuse(t) ==
    /\ At(t, "start") /\ lock = "none"
    /\ \E res \in {"contracts", "other"} :
          /\ table[th[t].s] # 0 \/ ~config[th[t].s].exists => res = "other"
          /\ Return(t, res)
    /\ UNCHANGED <<proc, table, config, disk, lock, initialized, armed, ghosts>>

\* Popen
Spawn(t) ==
    LET s == th[t].s
        p == CHOOSE p \in Fresh : TRUE
    IN
    /\ At(t, "start") /\ lock = "none"
    /\ table[s] = 0 /\ config[s].exists
    /\ Fresh # {}
    /\ lock' = t
    /\ proc' = [proc EXCEPT ![p] = s]
    /\ th' = [th EXCEPT ![t].pc = "popen", ![t].pid = p]
    /\ UNCHANGED <<table, config, disk, initialized, armed, ghosts>>

\* The process is entered in the table and in the configuration, and saved.
Started(t) ==
    LET s == th[t].s IN
    /\ At(t, "popen")
    /\ table' = [table EXCEPT ![s] = th[t].pid]
    /\ config' = [config EXCEPT ![s].running = TRUE, ![s].pid = th[t].pid, ![s].error = "none"]
    /\ Save
    /\ lock' = "none"
    /\ Return(t, "ok")
    /\ UNCHANGED <<proc, initialized, armed, ghosts>>

-----------------------------------------------------------------------------
(* stop_strategy_process; a delete calls it with the lock held.             *)

Release(t) == lock' = IF th[t].op = "delete" THEN t ELSE "none"

NotRunning(t) ==
    LET s == th[t].s IN
    /\ At(t, "stop") /\ Free(t)
    /\ table[s] = 0 /\ \E u \in hidden : ~Seen(config[s].pid, u)
    /\ Return(t, "other")
    /\ UNCHANGED <<proc, table, config, disk, lock, initialized, armed, ghosts>>

\* SIGTERM: to the process of the table, or to that of the stored pid.
Terminate(t) ==
    LET s == th[t].s IN
    /\ At(t, "stop") /\ Free(t)
    /\ table[s] # 0 \/ Alive(config[s].pid)
    /\ lock' = t
    /\ th' = [th EXCEPT ![t].pc = "kill",
                        ![t].res = IF table[s] # 0 THEN "table" ELSE "pid",
                        ![t].pid = IF table[s] # 0 THEN table[s] ELSE config[s].pid]
    /\ UNCHANGED <<proc, table, config, disk, initialized, armed, ghosts>>

\* The entry is removed when the process has ended, and the rest of it fails
\* if the strategy has no configuration.
Forget(t) ==
    LET s == th[t].s IN
    /\ table' = [table EXCEPT ![s] = IF th[t].res = "table" THEN 0 ELSE @]
    /\ config' = [config EXCEPT ![s] = IF @.exists THEN [@ EXCEPT !.running = FALSE, !.pid = 0] ELSE @]
    /\ SaveIf(config[s].exists)
    /\ Return(t, IF config[s].exists THEN "ok" ELSE "other")

Stopped(t) ==
    /\ At(t, "kill")
    /\ proc' = [proc EXCEPT ![th[t].pid] = "none"]
    /\ lost' = lost \ {th[t].pid}
    /\ Forget(t)
    /\ Release(t)
    /\ UNCHANGED <<initialized, armed, events, misled>>

\* The process does not end in time. The table keeps it; a process that was
\* known by its pid only is taken for dead.
Stuck(t) ==
    /\ At(t, "kill") /\ Alive(th[t].pid)
    /\ events < MaxEvents /\ events' = events + 1
    /\ IF th[t].res = "table"
       THEN /\ Return(t, "other")
            /\ lost' = IF th[t].op = "delete" THEN lost \cup {th[t].pid} ELSE lost
            /\ UNCHANGED <<table, config, disk>>
       ELSE Forget(t) /\ lost' = lost \cup {th[t].pid}
    /\ Release(t)
    /\ UNCHANGED <<proc, initialized, armed, misled>>

-----------------------------------------------------------------------------
(* Requests *)

\* start_strategy: a mark of a manual stop is taken away, and the strategy is
\* started now or left to its schedule.
RequestStart(t, s) ==
    /\ Idle(t) /\ initialized /\ config[s].exists
    /\ config' = [config EXCEPT ![s].stopped = FALSE]
    /\ SaveIf(config[s].stopped)
    /\ Call(t, "start", "start", s) \/ UNCHANGED th
    /\ UNCHANGED <<proc, table, lock, initialized, armed, ghosts>>

\* stop_strategy: of one that does not run, the schedule is cancelled.
RequestStop(t, s) ==
    /\ Idle(t) /\ config[s].exists
    /\ IF config[s].running
       THEN Call(t, "stop", "stop", s) /\ UNCHANGED <<config, disk>>
       ELSE config' = [config EXCEPT ![s].stopped = TRUE] /\ Save /\ UNCHANGED th
    /\ UNCHANGED <<proc, table, lock, initialized, armed, ghosts>>

MarkStopped(t) ==
    LET s == th[t].s IN
    /\ At(t, "stopped")
    /\ IF th[t].res = "ok" /\ config[s].exists
       THEN config' = [config EXCEPT ![s].stopped = TRUE] /\ Save
       ELSE UNCHANGED <<config, disk>>
    /\ Rest(t)
    /\ UNCHANGED <<proc, table, lock, initialized, armed, ghosts>>

RequestDelete(t, s) ==
    /\ Idle(t) /\ config[s].exists
    /\ lock = "none" /\ lock' = t
    /\ Call(t, "delete", IF table[s] # 0 \/ config[s].running THEN "stop" ELSE "delete", s)
    /\ UNCHANGED <<proc, table, config, disk, initialized, armed, ghosts>>

\* What the stop has returned is not looked at.
Delete(t) ==
    /\ At(t, "delete")
    /\ config' = [config EXCEPT ![th[t].s] = NoConfig]
    /\ Save
    /\ lock' = "none"
    /\ Rest(t)
    /\ UNCHANGED <<proc, table, initialized, armed, ghosts>>

ClearError(t, s) ==
    /\ Idle(t) /\ config[s].exists /\ ~config[s].running /\ config[s].error # "none"
    /\ config' = [config EXCEPT ![s].error = "none"]
    /\ Save
    /\ UNCHANGED <<proc, table, lock, initialized, armed, th, ghosts>>

-----------------------------------------------------------------------------
(* Jobs *)

\* scheduled_start_strategy on a day without a session, and on any other
ScheduledStart(t, s) ==
    /\ Idle(t) /\ armed /\ config[s].exists /\ ~config[s].stopped
    /\ \/ /\ config' = [config EXCEPT ![s].paused = TRUE]
          /\ Save
          /\ UNCHANGED th
       \/ /\ config' = [config EXCEPT ![s].paused = FALSE]
          /\ Call(t, "job", "start", s)
          /\ UNCHANGED disk
    /\ UNCHANGED <<proc, table, lock, initialized, armed, ghosts>>

ScheduledStop(t, s) ==
    /\ Idle(t) /\ armed /\ config[s].exists
    /\ Call(t, "job", "stop", s)
    /\ UNCHANGED <<proc, table, config, disk, lock, initialized, armed, ghosts>>

\* market_hours_enforcer, every minute from the import on, and
\* daily_trading_day_check, go through the strategies there are.
Sweep(t) ==
    /\ Idle(t)
    /\ \E op \in {"enforce", "daily"} : Loop(t, op, "sweep")
    /\ UNCHANGED <<proc, table, config, disk, lock, initialized, armed, ghosts>>

\* No session today: what runs is stopped.
Closed(t, s) ==
    /\ At(t, "sweep") /\ s \in th[t].todo
    /\ \E u \in hidden :
          th' = [th EXCEPT ![t].todo = @ \ {s},
                           ![t].s = IF IsRunning(s, u) THEN s ELSE "none",
                           ![t].pc = IF IsRunning(s, u) THEN "stop" ELSE @]
    /\ UNCHANGED <<proc, table, config, disk, lock, initialized, armed, ghosts>>

\* A session today: the enforcer resumes what it has paused, if it is time for
\* it and nobody has stopped it, and takes the pause away.
Open(t, s) ==
    /\ At(t, "sweep") /\ s \in th[t].todo
    /\ \/ /\ th[t].op = "enforce" /\ config[s].paused /\ ~config[s].stopped
          /\ \E u \in hidden : ~IsRunning(s, u)
          /\ th' = [th EXCEPT ![t].todo = @ \ {s}, ![t].s = s, ![t].pc = "start", ![t].res = "none"]
          /\ UNCHANGED config
       \/ /\ th' = [th EXCEPT ![t].todo = @ \ {s},
                              ![t].dirty = @ \/ (th[t].op = "enforce" /\ config[s].paused)]
          /\ config' = IF th[t].op = "enforce" THEN [config EXCEPT ![s].paused = FALSE] ELSE config
    /\ UNCHANGED <<proc, table, disk, lock, initialized, armed, ghosts>>

\* The sweep goes on to the next one.
Resumed(t) ==
    LET s == th[t].s IN
    /\ At(t, "resumed")
    /\ config' = [config EXCEPT ![s].paused = FALSE]
    /\ th' = [th EXCEPT ![t].pc = "sweep", ![t].s = "none", ![t].res = "none", ![t].dirty = TRUE]
    /\ UNCHANGED <<proc, table, disk, lock, initialized, armed, ghosts>>

\* The pause is noted, and the sweep given up if the strategy is gone.
Paused(t) ==
    LET s == th[t].s IN
    /\ At(t, "paused")
    /\ IF config[s].exists
       THEN /\ config' = [config EXCEPT ![s].paused = TRUE]
            /\ th' = [th EXCEPT ![t].pc = "sweep", ![t].s = "none", ![t].res = "none", ![t].dirty = TRUE]
       ELSE UNCHANGED config /\ Rest(t)
    /\ UNCHANGED <<proc, table, disk, lock, initialized, armed, ghosts>>

EndSweep(t) ==
    /\ At(t, "sweep") /\ th[t].todo = {}
    /\ UNCHANGED config /\ SaveIf(th[t].dirty)
    /\ Rest(t)
    /\ UNCHANGED <<proc, table, lock, initialized, armed, ghosts>>

\* An entry whose process has ended.
Dead(s) == table[s] # 0 /\ ~Alive(table[s])

\* slip: a pid is taken for a process
StaleNoPid(s) == config[s].running /\ table[s] = 0 /\ config[s].pid = 0

\* A strategy that is said to run, with no entry and no process.
Stale(s) == config[s].running /\ table[s] = 0 /\ ~Alive(config[s].pid)

\* cleanup_dead_processes, every minute and with every page
Reap ==
    LET fix == {s \in Existing : Dead(s) \/ Stale(s)} IN
    /\ lock = "none"
    /\ table' = [s \in Strategy |-> IF Dead(s) THEN 0 ELSE table[s]]
    /\ config' = [s \in Strategy |-> IF s \in fix THEN [config[s] EXCEPT !.running = FALSE, !.pid = 0]
                                     ELSE config[s]]
    /\ SaveIf(fix # {})
    /\ UNCHANGED <<proc, lock, initialized, armed, th, ghosts>>

-----------------------------------------------------------------------------
(* Restoration: once after the start (initialize_with_app_context) and after *)
(* each login (restore_strategies_after_login), without the lock.            *)

\* restore_running_strategy_process: a process that is still alive under the
\* pid that was saved is entered in the table, unless it may not be inspected.
Adopted(u) == {s \in Existing : config[s].running /\ Seen(config[s].pid, u)}

\* slip: what is alive is left alone
AdoptNone(u) == UNCHANGED table

Adopt(u) == table' = [s \in Strategy |-> IF s \in Adopted(u) THEN config[s].pid ELSE table[s]]

\* slip: all that was running is called dead
AllWait ==
    config' = [s \in Strategy |-> IF config[s].running
                                 THEN [config[s] EXCEPT !.running = FALSE, !.pid = 0, !.error = "waiting"]
                                 ELSE config[s]]

\* Without the contracts, what has died waits for them; what is alive stays.
DeadWait ==
    \E u \in hidden :
    config' = [s \in Strategy |-> IF config[s].running /\ ~Seen(config[s].pid, u)
                                 THEN [config[s] EXCEPT !.running = FALSE, !.pid = 0, !.error = "waiting"]
                                 ELSE config[s]]

\* The processes are adopted; what follows depends on the broker and its
\* master contracts.
Restore(t, op) ==
    /\ Idle(t)
    /\ op = "init" => ~initialized
    /\ initialized' = (initialized \/ op = "init")
    /\ \E u \in hidden :
       /\ Adopt(u)
       /\ \/ Call(t, op, "loaded", "none") /\ UNCHANGED <<config, disk>>
          \/ /\ DeadWait
             /\ Save
             /\ Call(t, op, "loaded", "none")
          \/ /\ th' = [th EXCEPT ![t] = [NoThread EXCEPT !.op = op, !.pc = "restore", !.todo = Existing,
                                                          !.was = Existing, !.dirty = Adopted(u) # {}]]
             /\ UNCHANGED <<config, disk>>
    /\ UNCHANGED <<proc, lock, armed, ghosts>>

\* What was running and has died is started again.
Restart(t, s) ==
    LET again == config[s].running /\ config[s].pid # 0 /\ table[s] = 0 IN
    /\ At(t, "restore") /\ Existing = th[t].was /\ s \in th[t].todo
    /\ th' = [th EXCEPT ![t].todo = @ \ {s}, ![t].s = IF again THEN s ELSE "none",
                        ![t].pc = IF again THEN "start" ELSE @]
    /\ UNCHANGED <<proc, table, config, disk, lock, initialized, armed, ghosts>>

\* A start that failed leaves the strategy in error.
Restarted(t) ==
    LET s == th[t].s IN
    /\ At(t, "restarted")
    /\ IF th[t].res # "ok" /\ config[s].exists
       THEN /\ config' = [config EXCEPT ![s].running = FALSE, ![s].pid = 0,
                             ![s].error = IF th[t].res = "contracts" THEN "waiting" ELSE "failed"]
            /\ misled' = IF Alive(table[s]) THEN misled \cup {s} ELSE misled
       ELSE UNCHANGED <<config, misled>>
    /\ th' = [th EXCEPT ![t].pc = "restore", ![t].s = "none", ![t].res = "none", ![t].dirty = TRUE]
    /\ UNCHANGED <<proc, table, disk, lock, initialized, armed, events, lost>>

EndRestore(t) ==
    /\ At(t, "restore") /\ Existing = th[t].was /\ th[t].todo = {}
    /\ UNCHANGED config /\ SaveIf(th[t].dirty)
    /\ th' = [th EXCEPT ![t] = [NoThread EXCEPT !.op = th[t].op, !.pc = "loaded"]]
    /\ UNCHANGED <<proc, table, lock, initialized, armed, ghosts>>

\* STRATEGY_CONFIGS has changed its size under the iteration: the restoration
\* fails, and an initialisation is tried again later.
IterationFails(t) ==
    /\ th[t].pc \in {"restore", "pending"} /\ Existing # th[t].was
    /\ initialized' = (initialized /\ th[t].op # "init")
    /\ Rest(t)
    /\ UNCHANGED <<proc, table, config, disk, lock, armed, ghosts>>

\* The schedules are restored and the day is checked.
Arm(t) ==
    /\ At(t, "loaded") /\ th[t].op = "init"
    /\ armed' = TRUE
    /\ UNCHANGED config /\ SaveIf(Existing # {})
    /\ Loop(t, "daily", "sweep")
    /\ UNCHANGED <<proc, table, lock, initialized, ghosts>>

\* check_and_start_pending_strategies: after a login or on request, when the
\* contracts are there, and when they are not
StartPending(t) ==
    /\ Idle(t) \/ (At(t, "loaded") /\ th[t].op = "login")
    /\ Loop(t, "pending", "pending") \/ Rest(t)
    /\ UNCHANGED <<proc, table, config, disk, lock, initialized, armed, ghosts>>

\* The error is taken away before the start is tried, a manual stop is not
\* looked at.
Try(t, s) ==
    LET waiting == config[s].error = "waiting" IN
    /\ At(t, "pending") /\ Existing = th[t].was /\ s \in th[t].todo
    /\ config' = IF waiting THEN [config EXCEPT ![s].error = "none"] ELSE config
    /\ th' = [th EXCEPT ![t].todo = @ \ {s}, ![t].s = IF waiting THEN s ELSE "none",
                        ![t].pc = IF waiting THEN "start" ELSE @]
    /\ UNCHANGED <<proc, table, disk, lock, initialized, armed, ghosts>>

Tried(t) ==
    /\ At(t, "tried")
    /\ th' = [th EXCEPT ![t].pc = "pending", ![t].s = "none", ![t].res = "none", ![t].dirty = TRUE]
    /\ UNCHANGED <<proc, table, config, disk, lock, initialized, armed, ghosts>>

EndPending(t) ==
    /\ At(t, "pending") /\ Existing = th[t].was /\ th[t].todo = {}
    /\ UNCHANGED config /\ SaveIf(th[t].dirty)
    /\ Rest(t)
    /\ UNCHANGED <<proc, table, lock, initialized, armed, ghosts>>

-----------------------------------------------------------------------------
(* The system *)

\* A strategy ends by itself.
Exits(p) ==
    /\ Alive(p)
    /\ proc' = [proc EXCEPT ![p] = "none"]
    /\ lost' = lost \ {p}
    /\ UNCHANGED <<table, config, disk, lock, initialized, armed, th, events, misled>>

\* The server may not inspect it, from now on or for once.
Deny(p) ==
    /\ Alive(p) /\ p \notin lost /\ Cardinality(lost) < MaxLost
    /\ lost' = lost \cup {p}
    /\ UNCHANGED <<proc, table, config, disk, lock, initialized, armed, th, events, misled>>

OnDisk(p) == LET s == proc[p] IN disk[s].exists /\ disk[s].running /\ disk[s].pid = p

\* The server is started again with what is in the file; the strategies run on.
Boot ==
    /\ table' = [s \in Strategy |-> 0]
    /\ lock' = "none"
    /\ initialized' = FALSE
    /\ armed' = FALSE
    /\ th' = [t \in Thread |-> NoThread]
    /\ misled' = {}

Crash ==
    /\ events < MaxEvents /\ events' = events + 1
    /\ Boot
    /\ config' = disk
    /\ lost' = lost \cup {p \in Pid : Alive(p) /\ ~OnDisk(p)}
    /\ UNCHANGED <<proc, disk>>

\* cleanup_on_exit: an orderly end stops what is in the table.
Exit ==
    LET tabled == {s \in Strategy : table[s] # 0} IN
    /\ lock = "none"
    /\ Boot
    /\ proc' = [p \in Pid |-> IF \E s \in tabled : table[s] = p THEN "none" ELSE proc[p]]
    /\ config' = IF tabled \cap Existing = {} THEN disk
                 ELSE [s \in Strategy |-> IF s \in tabled \cap Existing
                                          THEN [config[s] EXCEPT !.running = FALSE, !.pid = 0]
                                          ELSE config[s]]
    /\ disk' = config'
    /\ lost' = {p \in Pid : proc'[p] # "none" /\ (p \in lost \/ disk'[proc[p]].pid # p)}
    /\ UNCHANGED events

-----------------------------------------------------------------------------
Request(t) ==
    \/ \E s \in Strategy : \/ RequestStart(t, s) \/ RequestStop(t, s) \/ RequestDelete(t, s)
                           \/ ClearError(t, s)
    \/ MarkStopped(t) \/ Delete(t)

Scheduled(t) ==
    \/ \E s \in Strategy : \/ ScheduledStart(t, s) \/ ScheduledStop(t, s)
                           \/ Closed(t, s) \/ Open(t, s)
    \/ Sweep(t) \/ Resumed(t) \/ Paused(t) \/ EndSweep(t)

Restores(t) ==
    \/ \E op \in {"init", "login"} : Restore(t, op)
    \/ \E s \in Strategy : Restart(t, s) \/ Try(t, s)
    \/ Restarted(t) \/ EndRestore(t) \/ IterationFails(t) \/ Arm(t)
    \/ StartPending(t) \/ Tried(t) \/ EndPending(t)

\* Steps with the lock in hand.
Locked(t) ==
    /\ lock = t
    /\ Started(t) \/ NotRunning(t) \/ Terminate(t) \/ Stopped(t) \/ Stuck(t) \/ Delete(t)

Next ==
    \/ \E t \in Thread :
          \/ Request(t) \/ Scheduled(t) \/ Restores(t)
          \/ Refuse(t) \/ Spawn(t) \/ Started(t)
          \/ NotRunning(t) \/ Terminate(t) \/ Stopped(t) \/ Stuck(t)
    \/ Reap
    \/ \E p \in Pid : Exits(p) \/ Deny(p)
    \/ Crash \/ Exit

Spec == Init /\ [][Next]_vars

\* Whoever holds the lock comes to its end, and the reaper, which comes back
\* every minute and waits for the lock, gets it: the worker's semaphore wakes
\* those who wait in their order.
FairSpec ==
    /\ Spec
    /\ \A t \in Thread : WF_vars(Locked(t))
    /\ SF_vars(Reap)

-----------------------------------------------------------------------------
\* Types of the records, the threads and the ghosts.
TypeOK ==
    /\ proc \in [Pid -> Strategy \cup {"none"}]
    /\ table \in [Strategy -> 0 .. MaxPids]
    /\ config \in [Strategy -> Config]
    /\ disk \in [Strategy -> Config]
    /\ lock \in Thread \cup {"none"}
    /\ initialized \in BOOLEAN /\ armed \in BOOLEAN
    /\ \A t \in Thread :
          /\ th[t].s \in Strategy \cup {"none"}
          /\ th[t].pid \in 0 .. MaxPids
          /\ th[t].todo \subseteq th[t].was /\ th[t].was \subseteq Strategy
          /\ th[t].dirty \in BOOLEAN
    /\ events \in 0 .. MaxEvents
    /\ lost \subseteq Pid
    /\ misled \subseteq Strategy

Of(s) == {p \in Pid \ lost : proc[p] = s}

\* A strategy trades with one process, through starts by a user, a job, the
\* enforcer and restorations at the same time and through restarts of the
\* server, except beside a process that no record led to or that the server
\* could not inspect.
OneProcess == TypeOK /\ \A s \in Strategy : Cardinality(Of(s)) <= 1

\* A strategy that runs can be found: it is being started, or it has a
\* configuration, is in the table or under its pid in the configuration, and
\* the file says so in case the server dies, unless the server could not
\* inspect it or a restoration has called it failed because somebody else had
\* just started it.
NoneForgotten ==
    \A s \in Strategy : \A p \in Of(s) :
        \/ \E t \in Thread : At(t, "popen") /\ th[t].pid = p
        \/ /\ config[s].exists
           /\ table[s] = p \/ (config[s].running /\ config[s].pid = p)
           /\ s \in misled \/ OnDisk(p)

\* A strategy that is said to run and does not is noticed: the reaper does, or
\* it is started again, after a crash as well.
Runs(s) == \E p \in Pid : proc[p] = s /\ (p \notin lost \/ p \in {table[s], config[s].pid})
DeadIsNoticed ==
    \A s \in Strategy : (config[s].running /\ ~Runs(s)) ~> (~config[s].running \/ Runs(s))

=============================================================================
