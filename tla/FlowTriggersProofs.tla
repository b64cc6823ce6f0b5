------------------------- MODULE FlowTriggersProofs -------------------------
(***************************************************************************)
(* Runs of a workflow exclude each other and a one-shot watch fires once   *)
(* for each time it is registered, for any number of workflows, requests,  *)
(* polling loops and runs, through crashes and commits that fail.  If      *)
(* requests come one at a time, one loop polls; without a fault, what a    *)
(* request has switched off leaves nothing behind.  At the end the walk    *)
(* that a run makes of its graph, for graphs of any size.                  *)
(***************************************************************************)
EXTENDS FlowTriggers, FlowWalk, FiniteSetTheorems, TLAPS

\* Where a thread has no workflow in hand.
Resting == {"idle", "off", "wait", "scan"}
Pc == Resting \cup
      {"alert", "watch", "job", "test_running", "new_event", "new_thread", "set_job_id",
       "activate", "remove_job", "remove", "unwatch", "write", "test_empty", "stop",
       "clear", "join", "quote", "submit"}
Op == {"none", "activate", "deactivate", "delete", "fired", "expired"}

Hand == [pc : Pc, op : Op, w : Flow \cup {"none"}, id : Nat, todo : SUBSET Flow,
         on : Loop \cup {"none"}]

Job == [src : {"alert", "watch", "job", "request"}, w : Flow, id : Nat,
        pc : {"queued", "active", "ask", "lock", "running", "end"}]

Threads ==
    /\ th \in [Thread -> Hand]
    /\ \A t \in Thread :
          /\ th[t].id <= ids
          /\ th[t].pc \notin Resting => th[t].w \in Flow
          /\ th[t].pc \in {"stop", "new_thread"} => monitor.event \in Loop

Tables ==
    /\ trigger \in [Flow -> [kind : {"alert", "watch", "job"}, once : BOOLEAN]]
    /\ row \in [Flow -> [exists : BOOLEAN, active : BOOLEAN, job : BOOLEAN]]
    /\ jobs \subseteq Flow /\ loose \subseteq Flow
    /\ faults \in 0 .. MaxFaults

\* What is counted of a watch.
Count == [runs : Nat, restarts : Nat]

Registry ==
    /\ alert \in [Flow -> 0 .. ids]
    /\ watch \in [Flow -> 0 .. ids]
    /\ flag \in [Id -> {"armed", "triggered", "spent"}]
    /\ ids \in 0 .. MaxIds
    /\ fired \in [Flow -> Count]

Monitor ==
    /\ monitor \in [running : BOOLEAN, event : Loop \cup {"none"},
                    thread : Loop \cup {"none"}, crossed : BOOLEAN]
    /\ monitor.running => monitor.event \in Loop
    /\ stopped \subseteq Loop

Runs ==
    /\ run \in [Run -> Job \cup {NoRun}]
    /\ pending \subseteq Flow

Typed == Threads /\ Tables /\ Registry /\ Monitor /\ Runs

\* A workflow is marked pending while it has its one run of an alert.
Alert(r) == run[r].src = "alert"
Marked ==
    /\ \A r, s \in Run : Alert(r) /\ Alert(s) /\ run[r].w = run[s].w => r = s
    /\ \A w \in Flow : w \in pending <=> \E r \in Run : Alert(r) /\ run[r].w = w

\* The lock of a workflow.
Exclusive ==
    \A r, s \in Run : RunAt(r, "running") /\ RunAt(s, "running") /\ run[r].w = run[s].w => r = s

\* A registration belongs to one workflow, also for the runs it has queued, and one
\* that is still armed for its one event has a run to queue.
Watched(r) == run[r].src = "watch"
Due(w, armed) ==
    trigger[w].once =>
        /\ fired[w].runs <= 1 + fired[w].restarts
        /\ armed => fired[w].runs <= fired[w].restarts
Armed(w) == watch[w] # 0 /\ flag[watch[w]] = "armed"
Counted ==
    /\ \A v, w \in Flow : watch[v] # 0 /\ watch[v] = watch[w] => v = w
    /\ \A r \in Run : Watched(r) =>
          run[r].id <= ids /\ \A w \in Flow : watch[w] # 0 /\ watch[w] = run[r].id => w = run[r].w
    /\ \A w \in Flow : Due(w, Armed(w))

Inv == Typed /\ Marked /\ Exclusive /\ Counted

-----------------------------------------------------------------------------
(* Types *)

\* A thread that changes what it has in hand.
LEMMA Puts ==
    ASSUME Threads, ids \in Nat, ids' \in Nat, ids <= ids',
           monitor'.event \in Loop \/ monitor'.event = monitor.event,
           NEW t \in Thread, th' \in [Thread -> Hand],
           \A u \in Thread : u # t => th'[u] = th[u],
           th'[t].id <= ids', th'[t].pc \notin Resting => th'[t].w \in Flow,
           th'[t].pc \in {"stop", "new_thread"} => monitor'.event \in Loop
    PROVE  Threads'
<1> SUFFICES ASSUME NEW u \in Thread
             PROVE  /\ th'[u].id <= ids'
                    /\ th'[u].pc \notin Resting => th'[u].w \in Flow
                    /\ th'[u].pc \in {"stop", "new_thread"} => monitor'.event \in Loop
  BY DEF Threads
<1>1. CASE u = t
  BY <1>1
<1>2. CASE u # t
  <2>1. th'[u] = th[u] /\ th[u].id \in Nat
    BY <1>2 DEF Threads, Hand
  <2> QED
    BY <2>1 DEF Threads
<1> QED
  BY <1>1, <1>2

\* A thread that goes on with what it has in hand.
LEMMA Goes ==
    ASSUME Threads, ids \in Nat, ids' \in Nat, ids <= ids',
           monitor'.event \in Loop \/ monitor'.event = monitor.event,
           NEW t \in Thread, NEW pc \in Pc, Goto(t, pc),
           th[t].pc \notin Resting,
           pc \in {"stop", "new_thread"} => monitor'.event \in Loop
    PROVE  Threads'
<1>1. th[t] \in Hand /\ th[t].id <= ids /\ th[t].w \in Flow /\ th[t].id \in Nat
  BY DEF Threads, Hand
<1>2. th' \in [Thread -> Hand] /\ \A u \in Thread : u # t => th'[u] = th[u]
  BY <1>1 DEF Goto, Threads, Hand
<1>3. th'[t] = [th[t] EXCEPT !.pc = pc]
  BY DEF Goto, Threads
<1>4. th'[t].id = th[t].id /\ th'[t].w = th[t].w /\ th'[t].pc = pc
  BY <1>1, <1>3 DEF Hand
<1>5. th'[t].id <= ids'
  BY <1>1, <1>4
<1> QED
  BY <1>1, <1>2, <1>4, <1>5, Puts

\* A thread that rests again.
LEMMA Rests ==
    ASSUME Threads, ids \in Nat, ids' = ids, monitor'.event = monitor.event,
           NEW t \in Thread, NEW pc \in Resting, NEW todo \in SUBSET Flow,
           th' = [th EXCEPT ![t] = [Rest(pc) EXCEPT !.todo = todo]]
    PROVE  Threads'
<1> DEFINE h == [Rest(pc) EXCEPT !.todo = todo]
<1>1. h \in Hand /\ h.id = 0 /\ h.pc = pc
  BY DEF Rest, Hand, Pc, Op, Resting
<1>2. th' = [th EXCEPT ![t] = h]
  OBVIOUS
<1>3. pc \notin {"stop", "new_thread"}
  BY DEF Resting
<1> HIDE DEF h
<1>4. /\ th' \in [Thread -> Hand] /\ th'[t] = h
      /\ \A u \in Thread : u # t => th'[u] = th[u]
  BY <1>1, <1>2 DEF Threads
<1>5. th'[t].id = 0 /\ th'[t].pc = pc /\ ids' \in Nat
  BY <1>1, <1>4
<1>6. th'[t].id <= ids' /\ ids <= ids'
  BY <1>5
<1> QED
  BY <1>3, <1>4, <1>5, <1>6, Puts

\* A row with one of its flags changed.
Row == [exists : BOOLEAN, active : BOOLEAN, job : BOOLEAN]
\* A flag of a row is changed: it is still a row.
LEMMA Fields ==
    ASSUME NEW q \in Row, NEW b \in BOOLEAN
    PROVE  [q EXCEPT !.job = b] \in Row /\ [q EXCEPT !.active = b] \in Row
BY DEF Row

\* Steps of requests that activate, deactivate or delete a workflow.
LEMMA RequestTyped ==
    ASSUME Typed, NEW c \in Client, Request(c)
    PROVE  Typed'
<1> USE FlowAssumption
<1>0. c \in Thread /\ ids \in Nat /\ MaxIds \in Nat
  BY DEF Thread, Typed, Registry
<1>1. ASSUME NEW w \in Flow, NEW op \in {"activate", "deactivate", "delete"},
             NEW pc \in Pc \ {"stop", "new_thread"}, Begin(c, w, op, pc)
      PROVE  Typed'
  <2> DEFINE h == [Rest(pc) EXCEPT !.op = op, !.w = w]
  <2>a. h \in Hand /\ h.id = 0 /\ h.w = w /\ h.pc = pc
    BY DEF Hand, Op, Pc, Rest
  <2>b. th' = [th EXCEPT ![c] = h] /\ ids' = ids /\ monitor' = monitor
    BY <1>1 DEF Begin, registry
  <2> HIDE DEF h
  <2>c. /\ th' \in [Thread -> Hand] /\ th'[c] = h
        /\ \A u \in Thread : u # c => th'[u] = th[u]
    BY <1>0, <2>a, <2>b DEF Typed, Threads
  <2>1. Threads'
    BY <1>0, <2>a, <2>b, <2>c, Puts DEF Typed
  <2> QED
    BY <1>1, <2>1 DEF Begin, store, registry, Typed, Tables, Registry, Monitor, Runs, RunAt, Id
<1>2. ASSUME NEW w \in Flow, Activate(c, w) \/ Deactivate(c, w) \/ Delete(c, w)
      PROVE  Typed'
  <2>1. trigger[w].kind \in Pc \ {"stop", "new_thread"}
    BY DEF Typed, Tables, Pc
  <2> QED
    BY <1>1, <1>2, <2>1 DEF Activate, Deactivate, Delete, Pc
<1>3. CASE AddAlert(c) \/ AddWatch(c)
  <2>a. /\ Goto(c, "test_running") \/ Goto(c, "activate")
        /\ th[c].pc \notin Resting /\ ids' = ids + 1 /\ monitor' = monitor
    BY <1>3 DEF AddAlert, AddWatch, At, Resting
  <2>1. Threads'
    BY <1>0, <2>a, Goes DEF Typed, Pc
  <2>2. Registry'
    <3>0. ids \in 0 .. MaxIds /\ ids < MaxIds /\ ids' = ids + 1 /\ flag' = flag
      BY <1>3 DEF AddAlert, AddWatch, Typed, Registry
    <3>f. Unfired \in Count /\ fired \in [Flow -> Count]
      BY DEF Unfired, Count, Typed, Registry
    <3>g. fired' \in [Flow -> Count]
      BY <1>3, <3>f DEF AddAlert, AddWatch
    <3>1. ids' \in 0 .. MaxIds /\ ids + 1 \in 0 .. ids' /\ 0 .. ids \subseteq 0 .. ids'
      BY <1>0, <3>0, FlowAssumption DEF FlowAssumption
    <3>2. alert \in [Flow -> 0 .. ids'] /\ watch \in [Flow -> 0 .. ids']
      BY <3>1 DEF Typed, Registry
    <3>3. alert' \in [Flow -> 0 .. ids'] /\ watch' \in [Flow -> 0 .. ids']
      <4>1. CASE AddAlert(c)
        BY <3>1, <3>2, <4>1 DEF AddAlert
      <4>2. CASE AddWatch(c)
        BY <3>1, <3>2, <4>2 DEF AddWatch
      <4> QED
        BY <1>3, <4>1, <4>2
    <3> QED
      BY <3>0, <3>1, <3>3, <3>g DEF Typed, Registry
  <2> QED
    BY <1>3, <2>1, <2>2 DEF AddAlert, AddWatch, store, Typed, Tables, Monitor, Runs
<1>4. CASE TestRunning(c)
  <2>a. /\ Goto(c, "activate") \/ Goto(c, "new_event")
        /\ th[c].pc \notin Resting /\ ids' = ids /\ monitor' = monitor
    BY <1>4 DEF TestRunning, At, Resting, registry
  <2>1. Threads'
    BY <1>0, <2>a, Goes DEF Typed, Pc
  <2> QED
    BY <1>4, <2>1 DEF TestRunning, store, registry, Typed, Tables, Registry, Monitor, Runs, Id
<1>5. ASSUME NEW g \in Loop, NewEvent(c, g)
      PROVE  Typed'
  <2> DEFINE h == [th[c] EXCEPT !.pc = "new_thread", !.on = g]
  <2>a. th[c] \in Hand /\ th[c].pc \notin Resting /\ th[c].id <= ids /\ th[c].w \in Flow
    BY <1>0, <1>5 DEF NewEvent, At, Typed, Threads, Resting
  <2>b. h \in Hand /\ h.id = th[c].id /\ h.w = th[c].w /\ h.pc = "new_thread"
    BY <2>a DEF Hand, Pc
  <2>c. th' = [th EXCEPT ![c] = h] /\ ids' = ids /\ monitor'.event = g
    BY <1>5 DEF NewEvent, registry, Typed, Monitor
  <2> HIDE DEF h
  <2>d. /\ th' \in [Thread -> Hand] /\ th'[c] = h
        /\ \A u \in Thread : u # c => th'[u] = th[u]
    BY <1>0, <2>b, <2>c DEF Typed, Threads
  <2>1. Threads'
    BY <1>0, <2>a, <2>b, <2>c, <2>d, Puts DEF Typed
  <2>2. Monitor'
    BY <1>5 DEF NewEvent, Typed, Monitor
  <2> QED
    BY <1>5, <2>1, <2>2 DEF NewEvent, store, registry, Typed, Tables, Registry, Runs, Id
<1>6. CASE NewThread(c)
  <2>1. monitor.event \in Loop
    BY <1>0, <1>6 DEF NewThread, At, Typed, Threads
  <2>2. Monitor'
    BY <1>0, <1>6, <2>1 DEF NewThread, Typed, Monitor, Threads, Hand
  <2>3. monitor'.event = monitor.event
    BY <1>6 DEF NewThread, Typed, Monitor
  <2>4. Threads'
    <3> DEFINE g == th[c].on
               h == [th[c] EXCEPT !.pc = "activate", !.on = "none"]
               mid == [th EXCEPT ![c] = h]
    <3>1. th[c] \in Hand /\ th[c].id <= ids /\ th[c].w \in Flow /\ ids' = ids
      BY <1>0, <1>6 DEF NewThread, At, Typed, Threads, Resting, registry
    <3>2. h \in Hand /\ h.id = th[c].id /\ h.w = th[c].w /\ h.pc = "activate"
      BY <3>1 DEF Hand, Pc
    <3>3. Rest("wait") \in Hand /\ Rest("wait").id = 0 /\ Rest("wait").pc = "wait"
      BY DEF Rest, Hand, Pc, Op, Resting
    <3>4. th' = [mid EXCEPT ![g] = Rest("wait")] /\ th \in [Thread -> Hand]
      BY <1>6 DEF NewThread, Typed, Threads
    <3> HIDE DEF h, g
    <3>5. /\ th' \in [Thread -> Hand]
          /\ \A u \in Thread : th'[u] \in {th[u], h, Rest("wait")}
      BY <1>0, <3>2, <3>3, <3>4
    <3> HIDE DEF mid
    <3>6. ASSUME NEW u \in Thread
          PROVE  /\ th'[u].id <= ids'
                 /\ th'[u].pc \notin Resting => th'[u].w \in Flow
                 /\ th'[u].pc \in {"stop", "new_thread"} => monitor'.event \in Loop
      <4>1. th[u] \in Hand /\ th[u].id <= ids
        BY DEF Typed, Threads
      <4>2. CASE th'[u] = th[u]
        BY <1>0, <2>1, <2>3, <3>1, <4>1, <4>2 DEF Typed, Threads
      <4>3. CASE th'[u] = h
        BY <3>1, <3>2, <4>3
      <4>4. CASE th'[u] = Rest("wait")
        BY <1>0, <3>1, <3>3, <4>4 DEF Resting
      <4> QED
        BY <3>5, <4>2, <4>3, <4>4
    <3> QED
      BY <3>5, <3>6 DEF Threads
  <2> QED
    BY <1>6, <2>2, <2>4 DEF NewThread, store, registry, Typed, Tables, Registry, Runs, Id
<1>7. CASE AddJob(c) \/ RemoveJob(c) \/ SetJobId(c) \/ SetActive(c) \/ WriteRow(c)
  <2>1. th[c].w \in Flow /\ UNCHANGED <<registry, monitor, stopped, pending, run, trigger, loose>>
    BY <1>0, <1>7 DEF AddJob, RemoveJob, SetJobId, SetActive, WriteRow, At, Typed, Threads, Resting,
       CommitFails, store
  <2>a. /\ \/ \E pc \in {"set_job_id", "remove", "activate"} : Goto(c, pc) /\ th[c].pc \notin Resting
           \/ Finish(c)
        /\ ids' = ids /\ monitor' = monitor
    BY <1>7, <2>1 DEF AddJob, RemoveJob, SetJobId, SetActive, WriteRow, At, Resting, registry
  <2>b. ASSUME Finish(c) PROVE Threads'
    <3>1. th' = [th EXCEPT ![c] = [Rest("idle") EXCEPT !.todo = {}]]
      BY <2>b DEF Finish, Rest
    <3> QED
      BY <1>0, <2>a, <3>1, Rests DEF Typed, Resting
  <2>2. Threads'
    BY <1>0, <2>a, <2>b, Goes DEF Typed, Pc
  <2>3. jobs' \subseteq Flow
    BY <1>7, <2>1 DEF AddJob, RemoveJob, SetJobId, SetActive, WriteRow, CommitFails, store, Typed, Tables
  <2>4. faults' \in 0 .. MaxFaults
    BY <1>7 DEF AddJob, RemoveJob, SetJobId, SetActive, WriteRow, CommitFails, Commits, Typed, Tables
  <2>5. row' \in [Flow -> [exists : BOOLEAN, active : BOOLEAN, job : BOOLEAN]]
    <3> DEFINE w == th[c].w
    <3>1. row[w] \in Row /\ row \in [Flow -> Row]
      BY <2>1 DEF Typed, Tables, Row
    <3>2. PICK q \in Row : row' = row \/ row' = [row EXCEPT ![w] = q]
      <4>1. CASE AddJob(c)
        BY <3>1, <4>1 DEF AddJob
      <4>2. CASE RemoveJob(c)
        <5>1. [row[w] EXCEPT !.job = FALSE] \in Row
          BY <3>1, Fields
        <5> QED
          BY <3>1, <4>2, <5>1 DEF RemoveJob
      <4>3. CASE SetJobId(c)
        <5>1. (row[w].job \/ row[w].exists) \in BOOLEAN
          OBVIOUS
        <5>2. [row[w] EXCEPT !.job = row[w].job \/ row[w].exists] \in Row
          BY <3>1, <5>1, Fields
        <5> QED
          BY <3>1, <4>3, <5>2 DEF SetJobId, CommitFails, store
      <4>4. CASE SetActive(c)
        <5>1. (row[w].active \/ row[w].exists) \in BOOLEAN
          OBVIOUS
        <5>2. [row[w] EXCEPT !.active = row[w].active \/ row[w].exists] \in Row
          BY <3>1, <5>1, Fields
        <5> QED
          BY <3>1, <4>4, <5>2 DEF SetActive, CommitFails, store
      <4>5. CASE WriteRow(c)
        <5>1. [row[w] EXCEPT !.active = FALSE] \in Row
          BY <3>1, Fields
        <5>2. [exists |-> FALSE, active |-> FALSE, job |-> FALSE] \in Row
          BY DEF Row
        <5> QED
          BY <3>1, <4>5, <5>1, <5>2 DEF WriteRow, CommitFails, store
      <4> QED
        BY <1>7, <4>1, <4>2, <4>3, <4>4, <4>5
    <3> QED
      BY <2>1, <3>1, <3>2 DEF Row
  <2> QED
    BY <2>1, <2>2, <2>3, <2>4, <2>5 DEF registry, Typed, Tables, Registry, Monitor, Runs, Id
<1>8. CASE RemoveWatch(c)
  <2>a. Goto(c, "write") /\ th[c].pc \notin Resting /\ ids' = ids /\ monitor' = monitor
    BY <1>8 DEF RemoveWatch, At, Resting
  <2>1. Threads'
    BY <1>0, <2>a, Goes DEF Typed, Pc
  <2>2. 0 \in 0 .. ids /\ ids' = ids /\ watch' = [watch EXCEPT ![th[c].w] = 0]
    BY <1>0, <1>8 DEF RemoveWatch
  <2>3. watch' \in [Flow -> 0 .. ids]
    BY <2>2 DEF Typed, Registry
  <2>4. Registry'
    BY <1>8, <2>2, <2>3 DEF RemoveWatch, Typed, Registry, Id
  <2> QED
    BY <1>8, <2>1, <2>4 DEF RemoveWatch, store, Typed, Tables, Monitor, Runs
<1> QED
  BY <1>2, <1>3, <1>4, <1>5, <1>6, <1>7, <1>8 DEF Request

\* The active flag or the name of the job is updated.
LEMMA UpdateTyped ==
    ASSUME Typed, NEW w \in Flow, Update(w)
    PROVE  Typed'
<1>1. UNCHANGED <<trigger, jobs, registry, monitor, stopped, pending, run, th>>
  BY DEF Update, CommitFails, store
<1>2. faults' \in 0 .. MaxFaults
  <2>1. faults' = faults \/ (faults < MaxFaults /\ faults' = faults + 1)
    BY DEF Update, CommitFails, Commits
  <2> QED
    BY <2>1, FlowAssumption DEF Typed, Tables
<1>3. loose' \subseteq Flow
  <2>1. loose' = loose \/ loose' = loose \cup {w}
    BY DEF Update, CommitFails, store
  <2> QED
    BY <2>1 DEF Typed, Tables
<1>4. row' \in [Flow -> Row]
  <2>1. row \in [Flow -> Row]
    BY DEF Typed, Tables, Row
  <2>2. ASSUME NEW active \in BOOLEAN, NEW job \in {row[w].job, FALSE},
               row' = [row EXCEPT ![w].active = active, ![w].job = job]
        PROVE  row' \in [Flow -> Row]
    <3> DEFINE q == [row[w] EXCEPT !.active = active, !.job = job]
    <3>1. row' = [row EXCEPT ![w] = q]
      BY <2>1, <2>2
    <3>2. q \in Row
      BY <2>1 DEF Row
    <3> HIDE DEF q
    <3> QED
      BY <2>1, <3>1, <3>2
  <2> QED
    BY <2>1, <2>2 DEF Update, CommitFails, store
<1> QED
  BY <1>1, <1>2, <1>3, <1>4 DEF registry, Typed, Threads, Tables, Registry, Monitor, Runs, Row, Id

\* A thread that has removed an alert, or has nothing to do with it, goes on.
LEMMA Returns ==
    ASSUME Threads, ids \in Nat, ids' = ids, monitor'.event = monitor.event,
           NEW t \in Thread, th[t].pc \notin Resting, Return(t)
    PROVE  Threads'
<1>1. th[t] \in Hand /\ th[t].todo \in SUBSET Flow /\ th[t].id <= ids /\ th[t].w \in Flow
  BY DEF Threads, Hand
<1>2. CASE t \in Loop
  <2>1. th' = [th EXCEPT ![t] = [Rest("scan") EXCEPT !.todo = th[t].todo]]
    BY <1>2 DEF Return, Scanning
  <2> QED
    BY <1>1, <2>1, Rests DEF Resting
<1>3. CASE t \notin Loop
  <2> DEFINE h == [th[t] EXCEPT !.pc = "unwatch", !.on = "none"]
  <2>1. h \in Hand /\ h.id = th[t].id /\ h.w = th[t].w /\ h.pc = "unwatch"
    BY <1>1 DEF Hand, Pc
  <2>2. th' = [th EXCEPT ![t] = h]
    BY <1>3 DEF Return
  <2> HIDE DEF h
  <2>3. /\ th' \in [Thread -> Hand] /\ th'[t] = h
        /\ \A u \in Thread : u # t => th'[u] = th[u]
    BY <2>1, <2>2 DEF Threads
  <2> QED
    BY <1>1, <2>1, <2>3, Puts
<1> QED
  BY <1>2, <1>3

\* Steps of the removal of an alert.
LEMMA RemoveTyped ==
    ASSUME Typed, NEW t \in Thread, Remove(t)
    PROVE  Typed'
<1>0. ids \in Nat /\ th[t].pc \notin Resting /\ th[t] \in Hand
  BY DEF Typed, Registry, Threads, Remove, RemoveAlert, TestEmpty, SetStop, ClearRunning, Join, At,
     Resting
<1>1. CASE RemoveAlert(t)
  <2>1. ids' = ids /\ monitor' = monitor /\ (Goto(t, "test_empty") \/ Return(t))
    BY <1>1 DEF RemoveAlert
  <2>2. Threads'
    BY <1>0, <2>1, Goes, Returns DEF Typed, Pc
  <2>3. 0 \in 0 .. ids
    BY <1>0
  <2>4. alert' \in [Flow -> 0 .. ids] /\ flag' \in [Id -> {"armed", "triggered", "spent"}]
    BY <1>1, <2>3 DEF RemoveAlert, Typed, Registry
  <2> QED
    BY <1>1, <2>1, <2>2, <2>4 DEF RemoveAlert, store, Typed, Tables, Registry, Monitor, Runs, Id
<1>2. CASE TestEmpty(t)
  <2>1. ids' = ids /\ ((monitor.running /\ Goto(t, "stop")) \/ Return(t))
    BY <1>2 DEF TestEmpty, registry
  <2>2. Monitor' /\ monitor'.event = monitor.event
    BY <1>2 DEF TestEmpty, Typed, Monitor
  <2>3. Threads'
    BY <1>0, <2>1, <2>2, Goes, Returns DEF Typed, Pc, Monitor
  <2> QED
    BY <1>2, <2>2, <2>3 DEF TestEmpty, store, registry, Typed, Tables, Registry, Runs, Id
<1>3. CASE SetStop(t)
  <2>1. UNCHANGED <<ids, monitor>> /\ Goto(t, "clear")
    BY <1>3 DEF SetStop, registry
  <2>2. Threads'
    BY <1>0, <2>1, Goes DEF Typed, Pc
  <2>3. monitor.event \in Loop
    BY <1>3 DEF SetStop, At, Typed, Threads
  <2> QED
    BY <1>3, <2>2, <2>3 DEF SetStop, store, registry, Typed, Tables, Registry, Monitor, Runs, Id
<1>4. CASE ClearRunning(t) \/ Join(t)
  <2>1. /\ ids' = ids /\ UNCHANGED <<store, registry, stopped, pending, run, faults>>
        /\ \/ monitor' = [monitor EXCEPT !.running = FALSE, !.thread = "none"]
           \/ monitor' = [monitor EXCEPT !.running = FALSE]
           \/ monitor' = [monitor EXCEPT !.thread = "none"]
    BY <1>4 DEF ClearRunning, Join, registry
  <2>2. Monitor' /\ monitor'.event = monitor.event
    BY <2>1 DEF Typed, Monitor
  <2>3. ASSUME Return(t) PROVE Threads'
    BY <1>0, <2>1, <2>2, <2>3, Returns DEF Typed
  <2>4. ASSUME NEW g \in Loop, th' = [th EXCEPT ![t].pc = "join", ![t].on = g]
        PROVE  Threads'
    <3> DEFINE h == [th[t] EXCEPT !.pc = "join", !.on = g]
    <3>1. h \in Hand /\ h.id = th[t].id /\ h.w = th[t].w /\ h.pc = "join"
      BY <1>0 DEF Hand, Pc
    <3>2. th' = [th EXCEPT ![t] = h]
      BY <1>0, <2>4 DEF Typed, Threads
    <3> HIDE DEF h
    <3>3. /\ th' \in [Thread -> Hand] /\ th'[t] = h
          /\ \A u \in Thread : u # t => th'[u] = th[u]
      BY <3>1, <3>2 DEF Typed, Threads
    <3>4. th[t].id <= ids /\ th[t].w \in Flow
      BY <1>0 DEF Typed, Threads
    <3> QED
      BY <1>0, <2>1, <2>2, <3>1, <3>3, <3>4, Puts DEF Typed
  <2>5. Return(t) \/ \E g \in Loop : th' = [th EXCEPT ![t].pc = "join", ![t].on = g]
    BY <1>4 DEF ClearRunning, Join, Typed, Monitor
  <2> QED
    BY <2>1, <2>2, <2>3, <2>4, <2>5 DEF store, registry, Typed, Tables, Registry, Runs, Id
<1> QED
  BY <1>1, <1>2, <1>3, <1>4 DEF Remove

\* A new run.
LEMMA Queued ==
    ASSUME Runs, NEW r \in Run, NEW src \in {"alert", "watch", "job", "request"}, NEW w \in Flow,
           NEW id \in Nat, NEW pc \in {"queued", "ask"}, Queue(r, src, w, id, pc)
    PROVE  /\ run' \in [Run -> Job \cup {NoRun}]
           /\ run[r] = NoRun /\ run'[r] = [src |-> src, w |-> w, id |-> id, pc |-> pc]
           /\ \A s \in Run : s # r => run'[s] = run[s]
BY DEF Queue, Runs, Job

\* Steps of a polling loop.
LEMMA PollTyped ==
    ASSUME Typed, NEW g \in Loop, Poll(g)
    PROVE  Typed'
<1>0. g \in Thread /\ ids \in Nat /\ th[g] \in Hand /\ th[g].id <= ids
  BY DEF Typed, Registry, Threads, Thread
<1>1. CASE Cycle(g) \/ EndCycle(g)
  <2>1. UNCHANGED <<store, registry, monitor, stopped, pending, run, faults>>
    BY <1>1 DEF Cycle, EndCycle
  <2>2. \E pc \in Resting, todo \in SUBSET Flow :
            th' = [th EXCEPT ![g] = [Rest(pc) EXCEPT !.todo = todo]]
    <3>1. \A pc \in Resting : Rest(pc) = [Rest(pc) EXCEPT !.todo = {}]
      BY DEF Rest
    <3>2. {w \in Flow : Registered(w)} \in SUBSET Flow /\ {} \in SUBSET Flow
          /\ {"off", "scan", "wait"} \subseteq Resting
      BY DEF Resting
    <3>3. \/ th' = [th EXCEPT ![g] = Rest("off")]
          \/ th' = [th EXCEPT ![g] = Rest("wait")]
          \/ th' = [th EXCEPT ![g] = [Rest("scan") EXCEPT !.todo = {w \in Flow : Registered(w)}]]
      BY <1>1 DEF Cycle, EndCycle
    <3> QED
      BY <3>1, <3>2, <3>3
  <2>3. Threads'
    BY <1>0, <2>1, <2>2, Rests DEF Typed, registry
  <2> QED
    BY <2>1, <2>3 DEF store, registry, Typed, Tables, Registry, Monitor, Runs, Id
<1>2. ASSUME NEW w \in Flow, Check(g, w)
      PROVE  Typed'
  <2> DEFINE h == IF Registered(w) /\ flag[alert[w]] = "armed"
                  THEN [th[g] EXCEPT !.pc = "quote", !.w = w, !.id = alert[w], !.todo = @ \ {w}]
                  ELSE [th[g] EXCEPT !.todo = @ \ {w}]
  <2>1. alert[w] \in Nat /\ alert[w] <= ids /\ th[g].pc = "scan"
    BY <1>0, <1>2 DEF Typed, Registry, Check, At
  <2>2. h \in Hand /\ h.id <= ids
    BY <1>0, <2>1 DEF Hand, Pc
  <2>3. \/ h.pc = "quote" /\ h.w = w
        \/ h.pc = "scan"
    BY <1>0, <2>1 DEF Hand
  <2>4. th' = [th EXCEPT ![g] = h] /\ UNCHANGED <<store, registry, monitor, stopped, pending, run, faults>>
    BY <1>2 DEF Check
  <2> HIDE DEF h
  <2>5. /\ th' \in [Thread -> Hand] /\ th'[g] = h
        /\ \A u \in Thread : u # g => th'[u] = th[u]
    BY <1>0, <2>2, <2>4 DEF Typed, Threads
  <2>6. ids' = ids
    BY <2>4 DEF registry
  <2>7. Threads'
    BY <1>0, <2>2, <2>3, <2>4, <2>5, <2>6, Puts DEF Typed, Resting
  <2> QED
    BY <2>4, <2>7 DEF store, registry, Typed, Tables, Registry, Monitor, Runs, Id
<1>3. ASSUME NEW op \in Op, th[g].pc \notin Resting,
             th' = [th EXCEPT ![g].pc = "remove", ![g].op = op], ids' = ids, monitor' = monitor
      PROVE  Threads'
  <2> DEFINE h == [th[g] EXCEPT !.pc = "remove", !.op = op]
  <2>1. h \in Hand /\ h.id = th[g].id /\ h.w = th[g].w /\ h.pc = "remove"
    BY <1>0 DEF Hand, Pc
  <2>a. th \in [Thread -> Hand] /\ g \in Thread
    BY <1>0 DEF Typed, Threads
  <2>2. th' = [th EXCEPT ![g] = h]
    BY <1>3, <2>a
  <2> HIDE DEF h
  <2>3. /\ th' \in [Thread -> Hand] /\ th'[g] = h
        /\ \A u \in Thread : u # g => th'[u] = th[u]
    BY <1>0, <2>1, <2>2 DEF Typed, Threads
  <2>4. th[g].w \in Flow
    BY <1>0, <1>3 DEF Typed, Threads
  <2> QED
    BY <1>0, <1>3, <2>1, <2>3, <2>4, Puts DEF Typed
<1>4. CASE Expire(g) \/ NotMet(g) \/ Met(g)
  <2>1. /\ th[g].pc \notin Resting
        /\ UNCHANGED <<store, alert, watch, ids, fired, monitor, stopped, pending, run, faults>>
        /\ \/ th' = [th EXCEPT ![g].pc = "remove", ![g].op = "expired"]
           \/ Return(g)
           \/ Goto(g, "submit")
    BY <1>4 DEF Expire, NotMet, Met, At, Resting, registry
  <2>2. Threads'
    BY <1>0, <1>3, <2>1, Returns, Goes DEF Typed, Pc, Op
  <2>3. flag' \in [Id -> {"armed", "triggered", "spent"}]
    BY <1>4 DEF Expire, NotMet, Met, registry, Typed, Registry
  <2> QED
    BY <2>1, <2>2, <2>3 DEF store, Typed, Tables, Registry, Monitor, Runs, Id
<1>5. CASE Submit(g)
  <2>1. /\ th[g].pc \notin Resting /\ th[g].w \in Flow
        /\ UNCHANGED <<store, registry, monitor, stopped, faults>>
    BY <1>0, <1>5 DEF Submit, At, Resting, Typed, Threads
  <2>2. Threads'
    BY <1>0, <1>3, <1>5, <2>1, Returns DEF Submit, AfterSubmit, Typed, Op, registry
  <2>3. Runs'
    <3>1. CASE UNCHANGED <<pending, run>>
      BY <3>1 DEF Typed, Runs
    <3>2. ASSUME NEW r \in Run, Queue(r, "alert", th[g].w, th[g].id, "queued"),
                 pending' = pending \cup {th[g].w}
          PROVE  Runs'
      <4>1. run' \in [Run -> Job \cup {NoRun}]
        BY <1>0, <2>1, <3>2, Queued DEF Typed, Hand
      <4> QED
        BY <2>1, <3>2, <4>1 DEF Typed, Runs
    <3> QED
      BY <1>5, <3>1, <3>2 DEF Submit
  <2> QED
    BY <2>1, <2>2, <2>3 DEF store, registry, Typed, Tables, Registry, Monitor, Id
<1> QED
  BY <1>1, <1>2, <1>4, <1>5 DEF Poll

\* Order events, jobs, Run Now and webhooks.
LEMMA FireTyped ==
    ASSUME Typed, NEW w \in Flow, Fire(w)
    PROVE  Typed'
<1>1. ids \in Nat /\ UNCHANGED <<trigger, row, loose, alert, watch, ids, monitor, stopped, pending, th, faults>>
  BY DEF Typed, Registry, Fire, OrderUpdate, JobFires, RunNow, Webhook, Requested, store, registry
<1>2. PICK r \in Run, src \in {"watch", "job", "request"}, id \in 0 .. ids, pc \in {"queued", "ask"} :
          Queue(r, src, w, id, pc)
  BY <1>1 DEF Typed, Registry, Fire, OrderUpdate, JobFires, RunNow, Webhook, Requested
<1>3. run' \in [Run -> Job \cup {NoRun}]
  <2>1. id \in Nat /\ src \in {"alert", "watch", "job", "request"}
    BY <1>1, <1>2
  <2>2. run \in [Run -> Job \cup {NoRun}]
    BY DEF Typed, Runs
  <2>3. PICK j : j = [src |-> src, w |-> w, id |-> id, pc |-> pc]
    OBVIOUS
  <2>4. run' = [run EXCEPT ![r] = j]
    BY <1>2, <2>3 DEF Queue
  <2>5. j \in Job
    BY <2>1, <2>3 DEF Job
  <2> QED
    BY <2>2, <2>4, <2>5
<1>4. jobs' \subseteq Flow /\ flag' \in [Id -> {"armed", "triggered", "spent"}]
  BY DEF Typed, Tables, Registry, Fire, OrderUpdate, JobFires, RunNow, Webhook, Requested, store, registry
<1>5. fired' \in [Flow -> Count]
  <2>1. CASE fired' = fired
    BY <2>1 DEF Typed, Registry
  <2>2. CASE fired' = [fired EXCEPT ![w].runs = @ + 1]
    <3>1. fired[w] \in Count
      BY DEF Typed, Registry
    <3>2. [fired[w] EXCEPT !.runs = @ + 1] \in Count
      BY <3>1 DEF Count
    <3> QED
      BY <2>2, <3>2 DEF Typed, Registry
  <2> QED
    BY <2>1, <2>2 DEF Fire, OrderUpdate, JobFires, RunNow, Webhook, Requested, registry
<1>6. Threads' /\ Monitor'
  BY <1>1 DEF Typed, Threads, Monitor
<1> QED
  BY <1>1, <1>3, <1>4, <1>5, <1>6 DEF Typed, Tables, Registry, Runs, Id

\* Steps of a run.
LEMMA GoTyped ==
    ASSUME Typed, NEW r \in Run, Go(r)
    PROVE  Typed'
<1>1. run[r] \in Job
  BY DEF Typed, Runs, Go, StartRun, TestActive, Ask, Execute, Executed, EndRun, RunAt, NoRun
<1>2. CASE EndRun(r)
  <2>1. 0 \in 0 .. ids /\ ids' = ids
    BY <1>2 DEF EndRun, Typed, Registry
  <2>2. watch' \in [Flow -> 0 .. ids] /\ flag' \in [Id -> {"armed", "triggered", "spent"}]
    BY <1>2, <2>1 DEF EndRun, Typed, Registry
  <2>3. Runs'
    BY <1>2 DEF EndRun, Typed, Runs
  <2>4. Threads' /\ Monitor'
    BY <1>2 DEF EndRun, Typed, Threads, Monitor
  <2> QED
    BY <1>2, <2>1, <2>2, <2>3, <2>4 DEF EndRun, store, Typed, Tables, Registry, Id
<1>3. CASE ~EndRun(r)
  <2>1. PICK pc \in {"ask", "active", "end", "lock", "running"} : RunGoto(r, pc)
    BY <1>3 DEF Go, StartRun, TestActive, Ask, Execute, Executed
  <2>2. UNCHANGED <<store, registry, monitor, stopped, pending, th, faults>>
    BY <1>3 DEF Go, StartRun, TestActive, Ask, Execute, Executed
  <2>3. Runs'
    BY <1>1, <2>1, <2>2 DEF RunGoto, Typed, Runs, Job
  <2> QED
    BY <2>2, <2>3 DEF store, registry, Typed, Threads, Tables, Registry, Monitor, Id
<1> QED
  BY <1>2, <1>3

\* The watches that a restart registers have numbers of their own.
LEMMA Restored ==
    ASSUME Typed, Crash
    PROVE  /\ ids' \in Nat /\ ids <= ids' /\ ids' <= MaxIds
           /\ watch' \in [Flow -> 0 .. ids']
           /\ \A w \in Flow : watch'[w] # 0 => watch'[w] > ids
           /\ \A v, w \in Flow : watch'[v] # 0 /\ watch'[v] = watch'[w] => v = w
<1> DEFINE restored == {w \in Flow : row[w].active /\ trigger[w].kind = "watch"}
<1>1. ids \in Nat /\ MaxIds \in Nat /\ Cardinality(restored) \in Nat
  BY FlowAssumption, FS_Subset, FS_CardinalityType DEF Typed, Registry
<1>2. ids' = ids + Cardinality(restored) /\ ids' <= MaxIds
  BY DEF Crash
<1>3. PICK i \in Injection(restored, ids + 1 .. ids') :
          watch' = [w \in Flow |-> IF w \in restored THEN i[w] ELSE 0]
  BY DEF Crash
<1>4. i \in [restored -> ids + 1 .. ids'] /\ \A v, w \in restored : i[v] = i[w] => v = w
  BY <1>3 DEF Injection, IsInjective
<1> HIDE DEF restored
<1>5. ids' \in Nat /\ ids <= ids'
  BY <1>1, <1>2
<1>6. \A w \in restored : i[w] \in Nat /\ i[w] > ids /\ i[w] <= ids'
  BY <1>1, <1>4, <1>5
<1> QED
  BY <1>1, <1>2, <1>3, <1>4, <1>5, <1>6

\* A restart.
LEMMA CrashTyped ==
    ASSUME Typed, Crash
    PROVE  Typed'
<1>1. ids' \in 0 .. MaxIds /\ watch' \in [Flow -> 0 .. ids']
  BY Restored, FlowAssumption DEF Typed, Registry
<1>2. alert' \in [Flow -> 0 .. ids']
  <2>1. 0 \in 0 .. ids'
    BY <1>1, Restored
  <2> QED
    BY <2>1 DEF Crash
<1>3. Threads'
  <2>1. \A pc \in Resting : Rest(pc) \in Hand /\ Rest(pc).id = 0 /\ Rest(pc).pc = pc
    BY DEF Rest, Hand, Pc, Op, Resting
  <2>2. "idle" \in Resting /\ "off" \in Resting
    BY DEF Resting
  <2>3. /\ th' \in [Thread -> Hand]
        /\ \A t \in Thread : th'[t] \in {Rest("idle"), Rest("off")}
    BY <2>1, <2>2 DEF Crash
  <2>4. \A t \in Thread : th'[t].id = 0 /\ th'[t].pc \in {"idle", "off"}
    BY <2>1, <2>2, <2>3
  <2>5. 0 <= ids'
    BY Restored
  <2> QED
    BY <2>2, <2>3, <2>4, <2>5 DEF Threads, Resting
<1>5. fired' \in [Flow -> Count]
  <2>1. \A w \in Flow : fired[w] \in Count /\ [fired[w] EXCEPT !.restarts = @ + 1] \in Count
    BY DEF Typed, Registry, Count
  <2> QED
    BY <2>1 DEF Crash
<1>4. Tables' /\ Monitor' /\ Runs'
  BY FlowAssumption DEF Crash, NoMonitor, store, Typed, Tables, Monitor, Runs
<1> QED
  BY <1>1, <1>2, <1>3, <1>4, <1>5 DEF Crash, Typed, Registry, Id

\* Every step keeps the types.
LEMMA TypedNext ==
    ASSUME Typed, [Next]_vars
    PROVE  Typed'
<1>1. CASE UNCHANGED vars
  BY <1>1 DEF vars, store, registry, Typed, Threads, Tables, Registry, Monitor, Runs, Id
<1> QED
  BY <1>1, RequestTyped, UpdateTyped, RemoveTyped, PollTyped, FireTyped, GoTyped, CrashTyped DEF Next

-----------------------------------------------------------------------------
(* Runs of one workflow *)

\* A run that goes on takes the lock only if nobody has it.
LEMMA GoesOn ==
    ASSUME Inv, NEW r \in Run, Go(r), ~EndRun(r)
    PROVE  /\ run[r] \in Job /\ run' \in [Run -> Job \cup {NoRun}]
           /\ UNCHANGED <<store, registry, monitor, stopped, pending, th, faults>>
           /\ \A s \in Run : s # r => run'[s] = run[s]
           /\ run'[r].src = run[r].src /\ run'[r].w = run[r].w /\ run'[r].id = run[r].id
           /\ run'[r].pc = "running" => ~Locked(run[r].w)
<1>1. run[r] \in Job /\ run \in [Run -> Job \cup {NoRun}]
  BY DEF Inv, Typed, Runs, Go, StartRun, TestActive, Ask, Execute, Executed, RunAt, NoRun
<1>2. PICK pc \in {"ask", "active", "end", "lock", "running"} :
          RunGoto(r, pc) /\ (pc = "running" => ~Locked(run[r].w))
  BY DEF Go, StartRun, TestActive, Ask, Execute, Executed
<1>3. run'[r] = [run[r] EXCEPT !.pc = pc] /\ \A s \in Run : s # r => run'[s] = run[s]
  BY <1>1, <1>2 DEF RunGoto
<1>4. run' \in [Run -> Job \cup {NoRun}]
  BY <1>1, <1>2 DEF RunGoto, Job
<1> QED
  BY <1>1, <1>2, <1>3, <1>4 DEF Go, StartRun, TestActive, Ask, Execute, Executed, Job

\* A run that ends is no run, and takes the mark of its alert away.
LEMMA Ends ==
    ASSUME Inv, NEW r \in Run, EndRun(r)
    PROVE  /\ run[r] \in Job /\ run'[r] = NoRun
           /\ \A s \in Run : s # r => run'[s] = run[s]
           /\ pending' = IF Alert(r) THEN pending \ {run[r].w} ELSE pending
BY DEF Inv, Typed, Runs, EndRun, RunAt, NoRun, Alert

\* Every step keeps the mark and the lock of a workflow.
LEMMA RunsNext ==
    ASSUME Inv, [Next]_vars
    PROVE  Marked' /\ Exclusive'
<1>0. run \in [Run -> Job \cup {NoRun}] /\ NoRun.src = "none" /\ NoRun.pc = "free"
  BY DEF Inv, Typed, Runs, NoRun
<1>1. CASE UNCHANGED <<run, pending>>
  BY <1>1 DEF Inv, Marked, Exclusive, Alert, RunAt
<1>2. ASSUME NEW g \in Loop, Submit(g)
      PROVE  Marked' /\ Exclusive'
  <2>1. th[g].w \in Flow /\ th[g].id \in Nat
    BY <1>2 DEF Submit, At, Inv, Typed, Threads, Hand, Thread, Resting
  <2>2. ASSUME NEW r \in Run, Queue(r, "alert", th[g].w, th[g].id, "queued"),
               th[g].w \notin pending, pending' = pending \cup {th[g].w}
        PROVE  Marked' /\ Exclusive'
    <3>1. /\ run[r] = NoRun /\ \A s \in Run : s # r => run'[s] = run[s]
          /\ run'[r].src = "alert" /\ run'[r].w = th[g].w /\ run'[r].pc = "queued"
      <4>1. /\ run[r] = NoRun /\ \A s \in Run : s # r => run'[s] = run[s]
            /\ run'[r] = [src |-> "alert", w |-> th[g].w, id |-> th[g].id, pc |-> "queued"]
        BY <1>0, <2>2 DEF Queue
      <4> QED
        BY <4>1
    <3>2. \A s \in Run : ~(Alert(s) /\ run[s].w = th[g].w)
      BY <2>1, <2>2 DEF Inv, Marked
    <3>3. \A s, u \in Run : Alert(s)' /\ Alert(u)' /\ run'[s].w = run'[u].w => s = u
      BY <3>1, <3>2 DEF Inv, Marked, Alert
    <3>4. ASSUME NEW w \in Flow
          PROVE  w \in pending' <=> \E s \in Run : Alert(s)' /\ run'[s].w = w
      <4>1. CASE w = th[g].w
        BY <2>2, <3>1, <4>1 DEF Alert
      <4>2. CASE w # th[g].w
        BY <1>0, <2>2, <3>1, <4>2 DEF Inv, Marked, Alert
      <4> QED
        BY <4>1, <4>2
    <3>5. Exclusive'
      BY <3>1 DEF Inv, Exclusive, RunAt
    <3> QED
      BY <3>3, <3>4, <3>5 DEF Marked
  <2> QED
    BY <1>1, <1>2, <2>2 DEF Submit
<1>3. ASSUME NEW w \in Flow, Fire(w)
      PROVE  Marked' /\ Exclusive'
  <2>1. PICK r \in Run, src \in {"watch", "job", "request"}, id \in Nat, pc \in {"queued", "ask"} :
            Queue(r, src, w, id, pc)
    BY <1>3 DEF Inv, Typed, Registry, Fire, OrderUpdate, JobFires, RunNow, Webhook, Requested
  <2>2. src \in {"alert", "watch", "job", "request"} /\ src # "alert" /\ pc # "running"
    OBVIOUS
  <2>3. /\ run[r] = NoRun /\ run'[r] = [src |-> src, w |-> w, id |-> id, pc |-> pc]
        /\ \A s \in Run : s # r => run'[s] = run[s]
    <3>1. run \in [Run -> Job \cup {NoRun}]
      BY DEF Inv, Typed, Runs
    <3>2. PICK j : j = [src |-> src, w |-> w, id |-> id, pc |-> pc]
      OBVIOUS
    <3>3. run[r] = NoRun /\ run' = [run EXCEPT ![r] = j]
      BY <2>1, <3>2 DEF Queue
    <3>4. run'[r] = j /\ \A s \in Run : s # r => run'[s] = run[s]
      BY <3>1, <3>3
    <3> QED
      BY <3>2, <3>3, <3>4
  <2>4. pending' = pending
    BY <1>3 DEF Fire, OrderUpdate, JobFires, RunNow, Webhook, Requested
  <2>5. \A s \in Run : Alert(s)' <=> Alert(s)
    BY <1>0, <2>2, <2>3 DEF Alert
  <2>6. \A s \in Run : Alert(s) => run'[s].w = run[s].w
    BY <1>0, <2>3 DEF Alert
  <2>7. Marked'
    BY <2>4, <2>5, <2>6 DEF Inv, Marked
  <2>8. \A s \in Run : RunAt(s, "running")' => run'[s] = run[s]
    BY <2>2, <2>3 DEF RunAt
  <2> QED
    BY <2>7, <2>8 DEF Inv, Exclusive, RunAt
<1>4. ASSUME NEW r \in Run, Go(r), ~EndRun(r)
      PROVE  Marked' /\ Exclusive'
  <2>1. \A s \in Run : run'[s].src = run[s].src /\ run'[s].w = run[s].w
    BY <1>4, GoesOn
  <2>2. pending' = pending
    BY <1>4, GoesOn
  <2>3. Marked'
    BY <2>1, <2>2 DEF Inv, Marked, Alert
  <2>4. \A s \in Run : RunAt(s, "running")' =>
            (s # r /\ RunAt(s, "running")) \/ (s = r /\ ~Locked(run[r].w))
    BY <1>4, GoesOn DEF RunAt
  <2>5. Exclusive'
    BY <2>1, <2>4 DEF Inv, Exclusive, Locked
  <2> QED
    BY <2>3, <2>5
<1>5. ASSUME NEW r \in Run, EndRun(r)
      PROVE  Marked' /\ Exclusive'
  <2>1. /\ run[r] \in Job /\ run'[r] = NoRun /\ run[r].w \in Flow
        /\ \A s \in Run : s # r => run'[s] = run[s]
        /\ pending' = IF Alert(r) THEN pending \ {run[r].w} ELSE pending
    BY <1>5, Ends DEF Job
  <2>2. \A s \in Run : Alert(s)' <=> Alert(s) /\ s # r
    BY <1>0, <2>1 DEF Alert
  <2>3. \A s, u \in Run : Alert(s)' /\ Alert(u)' /\ run'[s].w = run'[u].w => s = u
    BY <2>1, <2>2 DEF Inv, Marked
  <2>4. ASSUME NEW w \in Flow
        PROVE  w \in pending' <=> \E s \in Run : Alert(s)' /\ run'[s].w = w
    BY <2>1, <2>2 DEF Inv, Marked
  <2>5. Exclusive'
    BY <1>0, <2>1 DEF Inv, Exclusive, RunAt
  <2> QED
    BY <2>3, <2>4, <2>5 DEF Marked
<1>6. CASE Crash
  <2>1. pending' = {} /\ \A r \in Run : run'[r] = NoRun
    BY <1>6 DEF Crash
  <2> QED
    BY <1>0, <2>1 DEF Marked, Exclusive, Alert, RunAt
<1>7. ASSUME NEW c \in Client, Request(c)
      PROVE  UNCHANGED <<run, pending>>
  BY <1>7 DEF Request, Activate, Deactivate, Delete, Begin, AddAlert, TestRunning, NewEvent, NewThread,
     AddWatch, AddJob, SetJobId, SetActive, RemoveJob, RemoveWatch, WriteRow
<1>8. ASSUME NEW t \in Thread, Remove(t)
      PROVE  UNCHANGED <<run, pending>>
  BY <1>8 DEF Remove, RemoveAlert, TestEmpty, SetStop, ClearRunning, Join
<1>9. ASSUME NEW g \in Loop, Poll(g), ~Submit(g)
      PROVE  UNCHANGED <<run, pending>>
  BY <1>9 DEF Poll, Cycle, EndCycle, Check, Expire, NotMet, Met
<1>10. UNCHANGED vars \/ (\E w \in Flow : Update(w)) => UNCHANGED <<run, pending>>
  BY DEF vars, Update
<1> QED
  BY <1>1, <1>2, <1>3, <1>4, <1>5, <1>6, <1>7, <1>8, <1>9, <1>10 DEF Next, Go

-----------------------------------------------------------------------------
(* Registrations *)

\* Steps that register no watch, claim none and give none back.
LEMMA CountedFrame ==
    ASSUME Inv, ids' \in Nat, ids <= ids', UNCHANGED <<trigger, fired>>,
           \A w \in Flow : watch'[w] \in {watch[w], 0},
           \A i \in Id : flag'[i] = "armed" => flag[i] = "armed",
           \A r \in Run : Watched(r)' =>
               Watched(r) /\ run'[r].id = run[r].id /\ run'[r].w = run[r].w
    PROVE  Counted'
<1>0. ids \in Nat /\ \A w \in Flow : watch[w] # 0 => watch[w] \in Id
  BY FlowAssumption DEF Inv, Typed, Registry, Id
<1>1. \A v, w \in Flow : watch'[v] # 0 /\ watch'[v] = watch'[w] => v = w
  BY DEF Inv, Counted
<1>2. ASSUME NEW r \in Run, Watched(r)'
      PROVE  /\ run'[r].id <= ids'
             /\ \A w \in Flow : watch'[w] # 0 /\ watch'[w] = run'[r].id => w = run'[r].w
  <2>1. run[r] \in Job /\ run[r].id \in Nat /\ run[r].id <= ids
    BY <1>2 DEF Inv, Typed, Runs, Counted, Watched, Job, NoRun
  <2>2. run'[r].id <= ids'
    BY <1>0, <1>2, <2>1
  <2> QED
    BY <1>2, <2>2 DEF Inv, Counted
<1>3. \A w \in Flow : Due(w, Armed(w))'
  BY <1>0 DEF Inv, Counted, Due, Armed
<1> QED
  BY <1>1, <1>2, <1>3 DEF Counted

\* A new watch has a number that no run and no watch has.
LEMMA CountedAdd ==
    ASSUME Inv, NEW c \in Client, AddWatch(c)
    PROVE  Counted'
<1> DEFINE w == th[c].w
<1>1. /\ ids \in Nat /\ ids' = ids + 1 /\ ids' \in Nat /\ ids' \in Id /\ w \in Flow
      /\ UNCHANGED <<trigger, flag, run>>
  <2>1. ids \in 0 .. MaxIds /\ MaxIds \in Nat /\ ids < MaxIds /\ ids' = ids + 1
    BY FlowAssumption DEF AddWatch, Inv, Typed, Registry
  <2>2. w \in Flow
    BY DEF AddWatch, At, Inv, Typed, Threads, Thread, Resting
  <2>3. UNCHANGED <<trigger, flag, run>>
    BY DEF AddWatch, store
  <2> QED
    BY <2>1, <2>2, <2>3 DEF Id
<1>2. \A v \in Flow : watch'[v] = IF v = w THEN ids' ELSE watch[v]
  BY <1>1 DEF AddWatch, Inv, Typed, Registry
<1>3. \A v \in Flow : watch[v] \in Nat /\ watch[v] <= ids /\ watch[v] # ids'
  <2>1. \A v \in Flow : watch[v] \in 0 .. ids
    BY DEF Inv, Typed, Registry
  <2> QED
    BY <1>1, <2>1
<1> HIDE DEF w
<1>4. \A v, u \in Flow : watch'[v] # 0 /\ watch'[v] = watch'[u] => v = u
  BY <1>2, <1>3 DEF Inv, Counted
<1>5. ASSUME NEW r \in Run, Watched(r)'
      PROVE  /\ run'[r].id <= ids'
             /\ \A v \in Flow : watch'[v] # 0 /\ watch'[v] = run'[r].id => v = run'[r].w
  <2>1. run'[r] = run[r] /\ run[r].id \in Nat /\ run[r].id <= ids /\ Watched(r)
    BY <1>1, <1>5 DEF Inv, Typed, Runs, Counted, Watched, Job, NoRun
  <2>2. run[r].id <= ids' /\ run[r].id # ids'
    BY <1>1, <2>1
  <2> QED
    BY <1>2, <2>1, <2>2 DEF Inv, Counted
<1>6. ASSUME NEW v \in Flow
      PROVE  Due(v, Armed(v))'
  <2>1. CASE v = w
    <3>1. fired'[w] = Unfired
      BY <1>1 DEF AddWatch, w, Inv, Typed, Registry
    <3> QED
      BY <2>1, <3>1 DEF Due, Unfired
  <2>2. CASE v # w
    <3>1. fired'[v] = fired[v] /\ watch'[v] = watch[v]
      BY <1>1, <1>2, <2>2 DEF AddWatch, w, Inv, Typed, Registry
    <3> QED
      BY <1>1, <3>1 DEF Inv, Counted, Due, Armed
  <2> QED
    BY <2>1, <2>2
<1> QED
  BY <1>4, <1>5, <1>6 DEF Counted

\* A watch is claimed before its run is queued.
LEMMA CountedClaim ==
    ASSUME Inv, NEW w \in Flow, OrderUpdate(w)
    PROVE  Counted'
<1> DEFINE i == watch[w]
<1>1. /\ ids \in Nat /\ i \in Id /\ i \in Nat /\ i <= ids /\ flag[i] = "armed"
      /\ UNCHANGED <<trigger, watch, ids>>
  <2>1. watch[w] \in 0 .. ids /\ ids \in 0 .. MaxIds /\ watch[w] # 0 /\ MaxIds \in Nat
    BY FlowAssumption DEF OrderUpdate, Inv, Typed, Registry
  <2> QED
    BY <2>1 DEF OrderUpdate, store, Id
<1>2. /\ flag' = [flag EXCEPT ![i] = "triggered"]
      /\ fired' = IF trigger[w].once THEN [fired EXCEPT ![w].runs = @ + 1] ELSE fired
      /\ \E r \in Run : Queue(r, "watch", w, i, "queued")
  BY DEF OrderUpdate
<1>3. i # 0 /\ i = watch[w]
  BY DEF OrderUpdate
<1> HIDE DEF i
<1>4. flag'[i] = "triggered" /\ \A j \in Id : j # i => flag'[j] = flag[j]
  BY <1>1, <1>2 DEF Inv, Typed, Registry
<1>5. /\ trigger[w].once => fired'[w].runs = fired[w].runs + 1 /\ fired'[w].restarts = fired[w].restarts
      /\ \A v \in Flow : v # w => fired'[v] = fired[v]
  <2>1. fired \in [Flow -> Count] /\ fired[w] \in Count
    BY DEF Inv, Typed, Registry
  <2>2. CASE trigger[w].once
    <3>1. fired' = [fired EXCEPT ![w] = [fired[w] EXCEPT !.runs = fired[w].runs + 1]]
      BY <1>2, <2>1, <2>2 DEF Count
    <3>2. [fired[w] EXCEPT !.runs = fired[w].runs + 1].runs = fired[w].runs + 1
          /\ [fired[w] EXCEPT !.runs = fired[w].runs + 1].restarts = fired[w].restarts
      BY <2>1 DEF Count
    <3> QED
      BY <2>1, <3>1, <3>2
  <2>3. CASE ~trigger[w].once
    BY <1>2, <2>3
  <2> QED
    BY <2>2, <2>3
<1>6. ASSUME NEW r \in Run, Watched(r)'
      PROVE  /\ run'[r].id <= ids'
             /\ \A v \in Flow : watch'[v] # 0 /\ watch'[v] = run'[r].id => v = run'[r].w
  <2>1. PICK s \in Run : Queue(s, "watch", w, i, "queued")
    BY <1>2
  <2>2. CASE r = s
    <3>1. run'[r] = [src |-> "watch", w |-> w, id |-> i, pc |-> "queued"]
      BY <2>1, <2>2 DEF Queue, Inv, Typed, Runs
    <3> QED
      BY <1>1, <1>3, <3>1 DEF Inv, Counted
  <2>3. CASE r # s
    <3>1. run'[r] = run[r]
      BY <2>1, <2>3 DEF Queue, Inv, Typed, Runs
    <3> QED
      BY <1>1, <1>6, <3>1 DEF Inv, Counted, Watched
  <2> QED
    BY <2>2, <2>3
<1>7. ASSUME NEW v \in Flow
      PROVE  Due(v, Armed(v))'
  <2>1. CASE v = w
    <3>1. Armed(w) /\ ~Armed(w)'
      BY <1>1, <1>3, <1>4 DEF Armed
    <3>2. trigger[w].once => fired[w].runs <= fired[w].restarts
      BY <3>1 DEF Inv, Counted, Due
    <3>3. fired[w].runs \in Nat /\ fired[w].restarts \in Nat
      BY DEF Inv, Typed, Registry, Count
    <3>4. trigger[w].once => fired'[w].runs <= 1 + fired'[w].restarts
      BY <1>5, <3>2, <3>3
    <3> QED
      BY <1>1, <2>1, <3>1, <3>4 DEF Due
  <2>2. CASE v # w
    <3>1. Due(v, Armed(v)) /\ (watch[v] # 0 => watch[v] \in Id /\ watch[v] # i)
      BY <1>1, <1>3, <2>2, FlowAssumption DEF Inv, Counted, Typed, Registry, Id
    <3>2. Armed(v)' => Armed(v)
      BY <1>1, <1>4, <3>1 DEF Armed
    <3> QED
      BY <1>1, <1>5, <2>2, <3>1, <3>2 DEF Due
  <2> QED
    BY <2>1, <2>2
<1>8. \A v, u \in Flow : watch'[v] # 0 /\ watch'[v] = watch'[u] => v = u
  BY <1>1 DEF Inv, Counted
<1> QED
  BY <1>6, <1>7, <1>8 DEF Counted

\* A run that ends gives back the watch it was queued by, if that fires every time.
LEMMA CountedEnd ==
    ASSUME Inv, NEW r \in Run, EndRun(r)
    PROVE  Counted'
<1> DEFINE w == run[r].w
<1>1. /\ run[r] \in Job /\ w \in Flow /\ UNCHANGED <<trigger, fired, ids>> /\ ids \in Nat
      /\ run'[r] = NoRun /\ \A s \in Run : s # r => run'[s] = run[s]
  <2>1. ids \in Nat /\ UNCHANGED <<trigger, fired, ids>>
    BY DEF EndRun, store, Inv, Typed, Registry
  <2>2. run[r] \in Job
    BY Ends
  <2> QED
    BY <2>1, <2>2, Ends DEF Job
<1>2. ASSUME NEW s \in Run, Watched(s)'
      PROVE  Watched(s) /\ run'[s].id = run[s].id /\ run'[s].w = run[s].w
  BY <1>1, <1>2 DEF Watched, NoRun
<1>3. \A v \in Flow : watch'[v] \in {watch[v], 0}
  BY <1>1 DEF EndRun, Inv, Typed, Registry
<1>4. CASE ~(Watched(r) /\ ~trigger[w].once)
  <2>1. flag' = flag
    BY <1>4 DEF EndRun, Watched
  <2>2. ids' = ids /\ ids <= ids' /\ ids' \in Nat
    BY <1>1
  <2> QED
    BY <1>1, <1>2, <1>3, <2>1, <2>2, CountedFrame
<1>5. CASE Watched(r) /\ ~trigger[w].once
  <2>1. watch' = watch /\ flag' = [flag EXCEPT ![run[r].id] = "armed"]
    BY <1>5 DEF EndRun, Watched
  <2>2. ASSUME NEW v \in Flow
        PROVE  Due(v, Armed(v))'
    <3>1. trigger[v].once /\ watch[v] # 0 => watch[v] # run[r].id
      BY <1>1, <1>5, <2>1 DEF Inv, Counted
    <3>2. watch[v] # 0 => watch[v] \in Id
      BY <2>1, FlowAssumption DEF Inv, Typed, Registry, Id
    <3>3. trigger[v].once /\ watch[v] # 0 => flag'[watch[v]] = flag[watch[v]]
      BY <2>1, <3>1, <3>2 DEF Inv, Typed, Registry
    <3> QED
      BY <1>1, <2>1, <3>3 DEF Inv, Counted, Due, Armed
  <2> QED
    BY <1>1, <1>2, <2>1, <2>2 DEF Inv, Counted
<1> QED
  BY <1>4, <1>5

\* After a restart no run of a watch is left, and the watches are new.
LEMMA CountedCrash ==
    ASSUME Inv, Crash
    PROVE  Counted'
<1>1. /\ ids \in Nat /\ ids' \in Nat /\ ids <= ids' /\ ids' <= MaxIds
      /\ watch' \in [Flow -> 0 .. ids']
      /\ \A w \in Flow : watch'[w] # 0 => watch'[w] > ids
      /\ \A v, w \in Flow : watch'[v] # 0 /\ watch'[v] = watch'[w] => v = w
  BY Restored DEF Inv, Typed, Registry
<1>2. \A r \in Run : ~Watched(r)'
  BY DEF Crash, Watched, NoRun
<1>3. ASSUME NEW w \in Flow
      PROVE  Due(w, Armed(w))'
  <2> DEFINE again == row[w].active /\ trigger[w].kind = "watch"
  <2>1. /\ fired[w] \in Count /\ Due(w, Armed(w)) /\ trigger' = trigger
        /\ fired'[w] = IF again /\ trigger[w].once
                       THEN [fired[w] EXCEPT !.restarts = fired[w].restarts + 1] ELSE fired[w]
    BY DEF Crash, store, Inv, Typed, Registry, Counted
  <2>2. Armed(w)' => again
    <3>1. watch'[w] # 0 => again
      BY DEF Crash
    <3> QED
      BY <3>1 DEF Armed
  <2> HIDE DEF again
  <2>3. CASE again /\ trigger[w].once
    <3>1. /\ fired'[w].runs = fired[w].runs /\ fired'[w].restarts = fired[w].restarts + 1
          /\ fired[w].runs \in Nat /\ fired[w].restarts \in Nat
      BY <2>1, <2>3 DEF Count
    <3>2. fired'[w].runs <= fired'[w].restarts /\ fired'[w].runs <= 1 + fired'[w].restarts
      BY <2>1, <2>3, <3>1 DEF Due
    <3> QED
      BY <3>2 DEF Due
  <2>4. CASE ~(again /\ trigger[w].once)
    BY <2>1, <2>2, <2>4 DEF Due
  <2> QED
    BY <2>3, <2>4
<1> QED
  BY <1>1, <1>2, <1>3 DEF Counted

\* Every step keeps what is known of the watches.
LEMMA CountedNext ==
    ASSUME Inv, [Next]_vars
    PROVE  Counted'
<1>1. ASSUME UNCHANGED <<trigger, fired>>, ids' \in {ids, ids + 1},
             \A w \in Flow : watch'[w] \in {watch[w], 0},
             \A i \in Id : flag'[i] = "armed" => flag[i] = "armed",
             \A r \in Run : Watched(r)' =>
                 Watched(r) /\ run'[r].id = run[r].id /\ run'[r].w = run[r].w
      PROVE  Counted'
  <2>1. ids \in Nat /\ ids' \in Nat /\ ids <= ids'
    <3>1. ids \in Nat
      BY DEF Inv, Typed, Registry
    <3> QED
      BY <1>1, <3>1
  <2> QED
    BY <1>1, <2>1, CountedFrame
<1>2. ASSUME NEW c \in Client, Request(c), ~AddWatch(c)
      PROVE  Counted'
  <2>1. UNCHANGED <<trigger, fired, flag, run>> /\ ids' \in {ids, ids + 1}
    BY <1>2 DEF Request, Activate, Deactivate, Delete, Begin, AddAlert, TestRunning, NewEvent, NewThread,
       AddJob, SetJobId, SetActive, RemoveJob, RemoveWatch, WriteRow, CommitFails, store, registry
  <2>2. watch' = watch \/ watch' = [watch EXCEPT ![th[c].w] = 0]
    BY <1>2 DEF Request, Activate, Deactivate, Delete, Begin, AddAlert, TestRunning, NewEvent, NewThread,
       AddJob, SetJobId, SetActive, RemoveJob, RemoveWatch, WriteRow, registry
  <2>3. \A w \in Flow : watch'[w] \in {watch[w], 0}
    BY <2>2 DEF Inv, Typed, Registry
  <2> QED
    BY <1>1, <2>1, <2>3 DEF Watched
<1>3. ASSUME NEW t \in Thread, Remove(t)
      PROVE  Counted'
  <2>1. UNCHANGED <<trigger, fired, watch, ids, run>>
    BY <1>3 DEF Remove, RemoveAlert, TestEmpty, SetStop, ClearRunning, Join, store, registry
  <2>2. flag' = flag \/ flag' = [flag EXCEPT ![alert[th[t].w]] = "spent"]
    BY <1>3 DEF Remove, RemoveAlert, TestEmpty, SetStop, ClearRunning, Join, registry
  <2>3. \A i \in Id : flag'[i] = "armed" => flag[i] = "armed"
    BY <2>2 DEF Inv, Typed, Registry
  <2> QED
    BY <1>1, <2>1, <2>3 DEF Watched
<1>4. ASSUME NEW g \in Loop, Poll(g)
      PROVE  Counted'
  <2>1. UNCHANGED <<trigger, fired, watch, ids>>
    BY <1>4 DEF Poll, Cycle, EndCycle, Check, Expire, NotMet, Met, Submit, store, registry
  <2>2. flag' = flag \/ flag' = [flag EXCEPT ![th[g].id] = "triggered"]
    BY <1>4 DEF Poll, Cycle, EndCycle, Check, Expire, NotMet, Met, Submit, registry
  <2>3. \A i \in Id : flag'[i] = "armed" => flag[i] = "armed"
    BY <2>2 DEF Inv, Typed, Registry
  <2>4. run' = run \/ \E r \in Run : Queue(r, "alert", th[g].w, th[g].id, "queued")
    BY <1>4 DEF Poll, Cycle, EndCycle, Check, Expire, NotMet, Met, Submit
  <2>5. \A r \in Run : Watched(r)' => run'[r] = run[r]
    BY <2>4 DEF Queue, Watched, Inv, Typed, Runs
  <2> QED
    BY <1>1, <2>1, <2>3, <2>5 DEF Watched
<1>8. ASSUME NEW w \in Flow, Update(w)
      PROVE  Counted'
  <2>1. UNCHANGED <<trigger, fired, watch, ids, flag, run>>
    BY <1>8 DEF Update, CommitFails, store, registry
  <2> QED
    BY <1>1, <2>1 DEF Watched
<1>5. ASSUME NEW w \in Flow, Fire(w), ~OrderUpdate(w)
      PROVE  Counted'
  <2>1. UNCHANGED <<trigger, fired, watch, ids, flag>>
    BY <1>5 DEF Fire, JobFires, RunNow, Webhook, Requested, store, registry
  <2>2. \E r \in Run, src \in {"job", "request"} : Queue(r, src, w, 0, "ask")
    BY <1>5 DEF Fire, JobFires, RunNow, Webhook, Requested
  <2>3. \A r \in Run : Watched(r)' => run'[r] = run[r]
    BY <2>2 DEF Queue, Watched, Inv, Typed, Runs
  <2> QED
    BY <1>1, <2>1, <2>3 DEF Watched
<1>6. ASSUME NEW r \in Run, Go(r), ~EndRun(r)
      PROVE  Counted'
  <2>1. UNCHANGED <<store, registry>>
    BY <1>6, GoesOn
  <2>2. UNCHANGED <<trigger, fired, watch, ids, flag>>
    BY <2>1 DEF store, registry
  <2>3. \A s \in Run : run'[s].src = run[s].src /\ run'[s].w = run[s].w /\ run'[s].id = run[s].id
    BY <1>6, GoesOn
  <2> QED
    BY <1>1, <2>2, <2>3 DEF Watched
<1>7. CASE UNCHANGED vars
  BY <1>1, <1>7 DEF vars, store, registry, Watched, Inv, Typed, Registry
<1> QED
  BY <1>2, <1>3, <1>4, <1>5, <1>6, <1>7, <1>8, CountedAdd, CountedClaim, CountedEnd, CountedCrash DEF Next, Go

-----------------------------------------------------------------------------
(* The theorems *)

\* At first nothing is registered and nothing runs.
LEMMA InvInit == Init => Inv
<1> SUFFICES ASSUME Init
             PROVE  Inv
  OBVIOUS
<1>1. Threads
  <2>1. \A pc \in Resting : Rest(pc) \in Hand /\ Rest(pc).id = 0 /\ Rest(pc).pc = pc
    BY DEF Rest, Hand, Pc, Op, Resting
  <2>2. "idle" \in Resting /\ "off" \in Resting
    BY DEF Resting
  <2>3. /\ th \in [Thread -> Hand] /\ ids = 0
        /\ \A t \in Thread : th[t] \in {Rest("idle"), Rest("off")}
    BY <2>1, <2>2 DEF Init
  <2>4. \A t \in Thread : th[t].id = 0 /\ th[t].pc \in {"idle", "off"}
    BY <2>1, <2>2, <2>3
  <2> QED
    BY <2>3, <2>4 DEF Threads, Resting
<1>2. ids = 0 /\ 0 \in 0 .. ids /\ ids \in 0 .. MaxIds /\ faults \in 0 .. MaxFaults
  BY FlowAssumption DEF Init
<1>3. alert \in [Flow -> 0 .. ids] /\ watch \in [Flow -> 0 .. ids] /\ fired \in [Flow -> Count]
      /\ flag \in [Id -> {"armed", "triggered", "spent"}]
  <2>1. Unfired \in Count
    BY DEF Unfired, Count
  <2> QED
    BY <1>2, <2>1 DEF Init
<1>4. row \in [Flow -> [exists : BOOLEAN, active : BOOLEAN, job : BOOLEAN]]
  <2>1. [exists |-> TRUE, active |-> FALSE, job |-> FALSE]
            \in [exists : BOOLEAN, active : BOOLEAN, job : BOOLEAN]
    OBVIOUS
  <2> QED
    BY <2>1 DEF Init
<1>5. Typed
  BY <1>1, <1>2, <1>3, <1>4 DEF Init, NoMonitor, Typed, Tables, Registry, Monitor, Runs
<1>6. Marked /\ Exclusive /\ Counted
  BY DEF Init, Marked, Exclusive, Counted, Due, Armed, Unfired, Alert, Watched, RunAt, NoRun
<1> QED
  BY <1>5, <1>6 DEF Inv

\* The three parts of the invariant are inductive together.
LEMMA InvNext == Inv /\ [Next]_vars => Inv'
BY TypedNext, RunsNext, CountedNext DEF Inv

\* The parts of the state are what they are meant to be.
LEMMA TypedOK == Inv => TypeOK
BY DEF Inv, Typed, Threads, Tables, Registry, Count, Monitor, Runs, TypeOK, Hand, Job

\* Runs of a workflow never overlap, and it has one run of its alert while it is
\* marked pending, and none else.
THEOREM RunsExclude == Spec => []OneRunAtATime
<1>1. Inv => OneRunAtATime
  <2> SUFFICES ASSUME Inv
               PROVE  OneRunAtATime
    OBVIOUS
  <2>1. ASSUME NEW w \in Flow
        PROVE  Cardinality({r \in Run : run[r].src = "alert" /\ run[r].w = w})
                   = IF w \in pending THEN 1 ELSE 0
    <3> DEFINE S == {r \in Run : run[r].src = "alert" /\ run[r].w = w}
    <3>1. CASE w \in pending
      <4>1. PICK r \in Run : Alert(r) /\ run[r].w = w
        BY <3>1 DEF Inv, Marked
      <4>2. S = {r}
        BY <4>1 DEF Inv, Marked, Alert
      <4> QED
        BY <3>1, <4>2, FS_Singleton
    <3>2. CASE w \notin pending
      <4>1. S = {}
        BY <3>2 DEF Inv, Marked, Alert
      <4> QED
        BY <3>2, <4>1, FS_EmptySet
    <3> QED
      BY <3>1, <3>2
  <2> QED
    BY <2>1, TypedOK DEF Inv, Exclusive, OneRunAtATime
<1> QED
  BY <1>1, InvInit, InvNext, PTL DEF Spec

\* A watch that asks for one run queues one for each time a request or a restart has
\* registered it.
THEOREM OnceIsOnce == Spec => []WatchFiresOnce
<1>1. Inv => WatchFiresOnce
  BY DEF Inv, Counted, Due, WatchFiresOnce
<1> QED
  BY <1>1, InvInit, InvNext, PTL DEF Spec

-----------------------------------------------------------------------------
(* Polling loops, when requests come one at a time *)

OneClient == \A c, d \in Client : c = d

Polls(g) == ~At(g, "off") /\ g \notin stopped
Starting(c) == At(c, "new_event") \/ At(c, "new_thread")

\* As long as no two threads have been in _stop_monitoring at once, the loop that
\* polls is the monitor's, which is running; it is marked as not running by the
\* thread that has told it to stop, and a new one is started only after that.
Loops ==
    monitor.crossed \/
    /\ \A t, u \in Thread : Stopping(t) /\ Stopping(u) => t = u
    /\ \A t \in Thread : Stopping(t) => monitor.running
    /\ \A t \in Thread : At(t, "clear") => monitor.event \in stopped
    /\ \A c \in Client : Starting(c) => ~monitor.running
    /\ \A c \in Client : At(c, "new_thread") => th[c].on = monitor.event
    /\ \A g \in Loop : Polls(g) => monitor.running /\ g = monitor.event

\* A thread moves that neither starts nor stops a loop.
LEMMA LoopsFrame ==
    ASSUME Typed, Loops, NEW t \in Thread, th' \in [Thread -> Hand],
           \A u \in Thread : u # t => th'[u] = th[u],
           th'[t].pc \notin {"stop", "clear", "new_event", "new_thread"},
           t \in Loop /\ th'[t].pc # "off" => th[t].pc # "off",
           UNCHANGED <<monitor, stopped>>
    PROVE  Loops'
<1>1. \A u \in Thread : (Stopping(u) \/ Starting(u))' => u # t
  BY DEF Stopping, Starting, At
<1>2. \A u \in Thread : u # t =>
          /\ Stopping(u)' = Stopping(u) /\ Starting(u)' = Starting(u)
          /\ At(u, "clear")' = At(u, "clear")
          /\ At(u, "new_thread")' = At(u, "new_thread") /\ th'[u].on = th[u].on
  BY DEF Stopping, Starting, At
<1>3. \A g \in Loop : Polls(g)' => Polls(g)
  BY DEF Polls, At, Thread
<1>4. \A u \in Thread : At(u, "clear")' \/ At(u, "new_thread")' => u # t
  BY DEF At
<1> QED
  BY <1>1, <1>2, <1>3, <1>4 DEF Loops, Thread

\* Requests: a client that starts a loop has seen none running.
LEMMA RequestLoops ==
    ASSUME Typed, OneClient, Loops, NEW c \in Client, Request(c)
    PROVE  Loops'
<1>0. /\ c \in Thread /\ c \notin Loop /\ th \in [Thread -> Hand] /\ th' \in [Thread -> Hand]
      /\ \A d \in Client : d = c
  BY RequestTyped, FlowAssumption DEF Thread, Typed, Threads, OneClient
<1>a. ASSUME NEW h, th' = [th EXCEPT ![c] = h]
      PROVE  th'[c] = h /\ \A u \in Thread : u # c => th'[u] = th[u]
  BY <1>0, <1>a
<1>b. ASSUME NEW pc, Goto(c, pc)
      PROVE  th'[c].pc = pc /\ th'[c].on = th[c].on /\ \A u \in Thread : u # c => th'[u] = th[u]
  <2>1. th[c] \in Hand /\ th'[c] = [th[c] EXCEPT !.pc = pc]
    BY <1>0, <1>b DEF Goto
  <2> QED
    BY <1>0, <1>b, <2>1 DEF Goto, Hand
<1>1. ASSUME NEW w \in Flow, NEW op, NEW pc \in {"alert", "watch", "job", "remove_job", "remove", "write"},
             Begin(c, w, op, pc)
      PROVE  Loops'
  <2> DEFINE h == [Rest(pc) EXCEPT !.op = op, !.w = w]
  <2>1. th' = [th EXCEPT ![c] = h] /\ h.pc = pc /\ UNCHANGED <<monitor, stopped>>
    BY <1>1 DEF Begin, Rest
  <2> HIDE DEF h
  <2> QED
    BY <1>0, <1>a, <2>1, LoopsFrame
<1>2. ASSUME NEW w \in Flow, Activate(c, w) \/ Deactivate(c, w) \/ Delete(c, w)
      PROVE  Loops'
  <2>1. trigger[w].kind \in {"alert", "watch", "job"}
    BY DEF Typed, Tables
  <2> QED
    BY <1>1, <1>2, <2>1 DEF Activate, Deactivate, Delete
<1>3. CASE AddAlert(c) \/ AddWatch(c) \/ AddJob(c) \/ RemoveJob(c) \/ RemoveWatch(c) \/ SetJobId(c)
  <2>1. /\ \E pc \in {"test_running", "activate", "set_job_id", "remove", "write"} : Goto(c, pc)
        /\ UNCHANGED <<monitor, stopped>>
    BY <1>3 DEF AddAlert, AddWatch, AddJob, RemoveJob, RemoveWatch, SetJobId
  <2> QED
    BY <1>0, <1>b, <2>1, LoopsFrame
<1>4. CASE SetActive(c) \/ WriteRow(c)
  <2>1. th' = [th EXCEPT ![c] = Rest("idle")] /\ UNCHANGED <<monitor, stopped>>
    BY <1>4 DEF SetActive, WriteRow, Finish
  <2>2. Rest("idle").pc = "idle"
    BY DEF Rest
  <2> QED
    BY <1>0, <1>a, <2>1, <2>2, LoopsFrame
<1>5. CASE TestRunning(c)
  <2>0. UNCHANGED <<monitor, stopped>>
    BY <1>5 DEF TestRunning
  <2>1. CASE monitor.running
    <3>1. Goto(c, "activate")
      BY <1>5, <2>1 DEF TestRunning
    <3> QED
      BY <1>0, <1>b, <2>0, <3>1, LoopsFrame
  <2>2. CASE ~monitor.running
    <3>1. Goto(c, "new_event")
      BY <1>5, <2>2 DEF TestRunning
    <3>2. th'[c].pc = "new_event" /\ \A u \in Thread : u # c => th'[u] = th[u]
      BY <1>b, <3>1
    <3>3. \A u \in Thread : /\ Stopping(u)' => Stopping(u)
                            /\ At(u, "clear")' => At(u, "clear")
      BY <3>2 DEF Stopping, At
    <3>4. ~At(c, "new_thread")' /\ \A g \in Loop : Polls(g)' => Polls(g)
      BY <1>0, <2>0, <3>2 DEF Polls, At, Thread
    <3> QED
      BY <1>0, <2>0, <2>2, <3>3, <3>4 DEF Loops
  <2> QED
    BY <2>1, <2>2
<1>6. ASSUME NEW g \in Loop, NewEvent(c, g)
      PROVE  Loops'
  <2> DEFINE h == [th[c] EXCEPT !.pc = "new_thread", !.on = g]
  <2>1. th' = [th EXCEPT ![c] = h] /\ h.pc = "new_thread" /\ h.on = g
    BY <1>0, <1>6 DEF NewEvent, Hand
  <2> HIDE DEF h
  <2>2. /\ th'[c].pc = "new_thread" /\ th'[c].on = g
        /\ \A u \in Thread : u # c => th'[u] = th[u]
    BY <1>a, <2>1
  <2>3. /\ monitor'.event = g /\ monitor'.running = monitor.running
        /\ monitor'.crossed = monitor.crossed /\ stopped' = stopped \ {g}
    BY <1>6 DEF NewEvent, Typed, Monitor
  <2>4. CASE ~monitor.crossed
    <3>1. ~monitor.running
      BY <1>6, <2>4 DEF NewEvent, Starting, Loops
    <3>2. \A u \in Thread : ~Stopping(u)' /\ ~At(u, "clear")'
      BY <2>2, <2>4, <3>1 DEF Loops, Stopping, At
    <3>3. \A f \in Loop : ~Polls(f)
      BY <2>4, <3>1 DEF Loops
    <3>4. th[g].pc = "off" /\ th'[g].pc = "off"
      BY <1>0, <1>6, <2>2 DEF NewEvent, At, Thread
    <3>5. \A f \in Loop : ~Polls(f)'
      BY <1>0, <2>2, <2>3, <3>3, <3>4 DEF Polls, At, Thread
    <3> QED
      BY <1>0, <2>2, <2>3, <3>1, <3>2, <3>5 DEF Loops
  <2> QED
    BY <2>3, <2>4 DEF Loops
<1>7. CASE NewThread(c)
  <2> DEFINE g == th[c].on
  <2>1. /\ monitor'.running = TRUE /\ monitor'.event = monitor.event
        /\ monitor'.crossed = monitor.crossed /\ stopped' = stopped
    BY <1>7 DEF NewThread, Typed, Monitor
  <2>2. CASE ~monitor.crossed
    <3>1. ~monitor.running /\ g = monitor.event
      BY <1>7, <2>2 DEF NewThread, Starting, Loops
    <3>2. monitor.event \in Loop
      BY <1>0, <1>7 DEF NewThread, At, Typed, Threads
    <3>3. th' = [th EXCEPT ![c].pc = "activate", ![c].on = "none", ![g] = Rest("wait")]
      BY <1>7 DEF NewThread
    <3>4. g \in Thread /\ g # c /\ th[c] \in Hand
      BY <1>0, <3>1, <3>2 DEF Thread
    <3> HIDE DEF g
    <3>5. /\ th'[g] = Rest("wait") /\ th'[c].pc = "activate"
          /\ \A u \in Thread : u # c /\ u # g => th'[u] = th[u]
      BY <1>0, <3>3, <3>4 DEF Hand
    <3>6. Rest("wait").pc = "wait"
      BY DEF Rest
    <3>7. \A u \in Thread : ~Stopping(u)' /\ ~At(u, "clear")'
      BY <2>2, <3>1, <3>5, <3>6 DEF Loops, Stopping, At
    <3>8. \A d \in Client : ~Starting(d)' /\ ~At(d, "new_thread")'
      BY <1>0, <3>5 DEF Starting, At
    <3>9. \A f \in Loop : Polls(f)' => f = g
      BY <1>0, <2>1, <2>2, <3>1, <3>5 DEF Loops, Polls, At, Thread
    <3> QED
      BY <2>1, <3>1, <3>7, <3>8, <3>9 DEF Loops
  <2> QED
    BY <2>1, <2>2 DEF Loops
<1> QED
  BY <1>2, <1>3, <1>4, <1>5, <1>6, <1>7 DEF Request

\* A thread that stops a loop is the only one, and the loop it stops is the one.
LEMMA RemoveLoops ==
    ASSUME Typed, Loops, NEW t \in Thread, Remove(t)
    PROVE  Loops'
<1>0. /\ th[t] \in Hand /\ th \in [Thread -> Hand] /\ th' \in [Thread -> Hand]
      /\ t \in Loop => th[t].pc # "off"
  BY RemoveTyped DEF Typed, Threads, Remove, RemoveAlert, TestEmpty, SetStop, ClearRunning, Join, At
<1>a. ASSUME NEW pc, Goto(t, pc)
      PROVE  th'[t].pc = pc /\ \A u \in Thread : u # t => th'[u] = th[u]
  BY <1>0, <1>a DEF Goto, Hand
<1>b. ASSUME Return(t)
      PROVE  /\ th'[t].pc \in {"scan", "unwatch"}
             /\ \A u \in Thread : u # t => th'[u] = th[u]
  <2>1. CASE t \in Loop
    <3>1. th' = [th EXCEPT ![t] = Scanning(t)] /\ Scanning(t).pc = "scan"
      BY <1>b, <2>1 DEF Return, Scanning, Rest
    <3> QED
      BY <1>0, <3>1
  <2>2. CASE t \notin Loop
    BY <1>0, <1>b, <2>2 DEF Return, Hand
  <2> QED
    BY <2>1, <2>2
<1>1. CASE RemoveAlert(t)
  <2>1. (Goto(t, "test_empty") \/ Return(t)) /\ UNCHANGED <<monitor, stopped>>
    BY <1>1 DEF RemoveAlert
  <2> QED
    BY <1>0, <1>a, <1>b, <2>1, LoopsFrame
<1>2. CASE TestEmpty(t)
  <2>1. CASE monitor.running /\ \A w \in Flow : ~Registered(w)
    <3>0. Goto(t, "stop") /\ stopped' = stopped
      BY <1>2, <2>1 DEF TestEmpty
    <3>1. /\ monitor'.crossed = (monitor.crossed \/ \E u \in Thread : Stopping(u))
          /\ monitor'.running = monitor.running /\ monitor'.event = monitor.event
          /\ stopped' = stopped
      <4> DEFINE some == \E u \in Thread : Stopping(u)
      <4>1. monitor' = [monitor EXCEPT !.crossed = @ \/ some]
        BY <1>2, <2>1 DEF TestEmpty
      <4> HIDE DEF some
      <4>2. monitor'.crossed = (monitor.crossed \/ some)
        BY <4>1 DEF Typed, Monitor
      <4>3. monitor'.running = monitor.running /\ monitor'.event = monitor.event
        BY <4>1 DEF Typed, Monitor
      <4> QED
        BY <3>0, <4>2, <4>3 DEF some
    <3>2. th'[t].pc = "stop" /\ \A u \in Thread : u # t => th'[u] = th[u]
      BY <1>a, <3>0
    <3>3. CASE ~monitor'.crossed
      <4>1. \A u \in Thread : (Stopping(u)' => u = t) /\ ~At(u, "clear")'
        BY <3>1, <3>2, <3>3 DEF Stopping, At
      <4>2. \A c \in Client : ~Starting(c)'
        BY <2>1, <3>1, <3>2, <3>3 DEF Starting, At, Loops, Thread
      <4>3. \A g \in Loop : Polls(g)' => Polls(g)
        BY <1>0, <3>1, <3>2 DEF Polls, At, Thread
      <4> QED
        BY <2>1, <3>1, <3>3, <4>1, <4>2, <4>3 DEF Loops, Starting
    <3> QED
      BY <3>3 DEF Loops
  <2>2. CASE Return(t) /\ UNCHANGED <<monitor, stopped>>
    BY <1>0, <1>b, <2>2, LoopsFrame
  <2> QED
    BY <1>2, <2>1, <2>2 DEF TestEmpty
<1>3. CASE SetStop(t)
  <2>1. th'[t].pc = "clear" /\ \A u \in Thread : u # t => th'[u] = th[u]
    BY <1>3, <1>a DEF SetStop
  <2>2. monitor' = monitor /\ stopped' = stopped \cup {monitor.event}
    BY <1>3 DEF SetStop
  <2>3. \A u \in Thread : (Stopping(u)' <=> Stopping(u)) /\ (Starting(u)' => Starting(u))
    BY <1>3, <2>1 DEF SetStop, Stopping, Starting, At
  <2>4. \A c \in Client : At(c, "new_thread")' => At(c, "new_thread") /\ th'[c].on = th[c].on
    BY <2>1 DEF At, Thread
  <2>5. \A g \in Loop : Polls(g)' => Polls(g)
    BY <1>0, <2>1, <2>2 DEF Polls, At, Thread
  <2> QED
    BY <2>2, <2>3, <2>4, <2>5 DEF Loops, Thread
<1>4. CASE ClearRunning(t)
  <2>1. /\ th'[t].pc \in {"scan", "unwatch", "join"}
        /\ \A u \in Thread : u # t => th'[u] = th[u]
    BY <1>0, <1>4, <1>b DEF ClearRunning, Hand
  <2>2. /\ monitor'.event = monitor.event /\ monitor'.crossed = monitor.crossed
        /\ stopped' = stopped
    BY <1>4 DEF ClearRunning, Typed, Monitor
  <2>3. CASE ~monitor.crossed
    <3>1. \A u \in Thread : ~Stopping(u)' /\ ~At(u, "clear")'
      BY <1>4, <2>1, <2>3 DEF ClearRunning, Loops, Stopping, At
    <3>2. monitor.running /\ \A c \in Client : ~Starting(c)
      BY <1>4, <2>3 DEF ClearRunning, Loops, Stopping
    <3>3. \A c \in Client : ~Starting(c)'
      BY <2>1, <3>2 DEF Starting, At, Thread
    <3>4. \A g \in Loop : Polls(g)' => Polls(g)
      BY <1>0, <2>1, <2>2 DEF Polls, At, Thread
    <3>5. \A g \in Loop : ~Polls(g)
      BY <1>4, <2>3 DEF ClearRunning, Loops, Polls
    <3> QED
      BY <3>1, <3>3, <3>4, <3>5 DEF Loops, Starting
  <2> QED
    BY <2>2, <2>3 DEF Loops
<1>5. CASE Join(t)
  <2>1. th'[t].pc \in {"scan", "unwatch"} /\ \A u \in Thread : u # t => th'[u] = th[u]
    BY <1>5, <1>b DEF Join
  <2>2. /\ monitor'.event = monitor.event /\ monitor'.crossed = monitor.crossed
        /\ monitor'.running = monitor.running /\ stopped' = stopped
    BY <1>5 DEF Join, Typed, Monitor
  <2>3. \A u \in Thread : /\ Stopping(u)' => Stopping(u) /\ u # t
                          /\ Starting(u)' => Starting(u) /\ u # t
                          /\ At(u, "clear")' => At(u, "clear")
                          /\ At(u, "new_thread")' => At(u, "new_thread") /\ th'[u].on = th[u].on
    BY <2>1 DEF Stopping, Starting, At
  <2>4. \A g \in Loop : Polls(g)' => Polls(g)
    BY <1>0, <2>1, <2>2 DEF Polls, At, Thread
  <2> QED
    BY <2>2, <2>3, <2>4 DEF Loops, Thread
<1> QED
  BY <1>1, <1>2, <1>3, <1>4, <1>5 DEF Remove

\* The steps of a polling loop leave the monitor to the removal of alerts.
LEMMA PollLoops ==
    ASSUME Typed, Loops, NEW g \in Loop, Poll(g)
    PROVE  Loops'
<1>0. /\ g \in Thread /\ th[g] \in Hand /\ th \in [Thread -> Hand] /\ th' \in [Thread -> Hand]
      /\ th[g].pc # "off" /\ UNCHANGED <<monitor, stopped>>
  BY PollTyped DEF Thread, Typed, Threads, Poll, Cycle, EndCycle, Check, Expire, NotMet, Met,
     Submit, At
<1>1. ASSUME NEW h, th' = [th EXCEPT ![g] = h],
             h.pc \notin {"stop", "clear", "new_event", "new_thread"}
      PROVE  Loops'
  <2>1. th'[g] = h /\ \A u \in Thread : u # g => th'[u] = th[u]
    BY <1>0, <1>1
  <2> QED
    BY <1>0, <1>1, <2>1, LoopsFrame
<1>2. CASE Cycle(g) \/ EndCycle(g)
  <2> DEFINE scan == [Rest("scan") EXCEPT !.todo = {w \in Flow : Registered(w)}]
  <2>1. scan.pc = "scan" /\ Rest("wait").pc = "wait" /\ Rest("off").pc = "off"
    BY DEF Rest
  <2>2. \/ th' = [th EXCEPT ![g] = scan]
        \/ th' = [th EXCEPT ![g] = Rest("wait")]
        \/ th' = [th EXCEPT ![g] = Rest("off")]
    BY <1>2 DEF Cycle, EndCycle
  <2> HIDE DEF scan
  <2> QED
    BY <1>1, <2>1, <2>2
<1>3. ASSUME NEW w \in Flow, Check(g, w)
      PROVE  Loops'
  <2> DEFINE quote == [th[g] EXCEPT !.pc = "quote", !.w = w, !.id = alert[w], !.todo = @ \ {w}]
             skip == [th[g] EXCEPT !.todo = @ \ {w}]
  <2>1. quote.pc = "quote" /\ skip.pc = "scan"
    BY <1>0, <1>3 DEF Check, At, Hand
  <2>2. th' = [th EXCEPT ![g] = quote] \/ th' = [th EXCEPT ![g] = skip]
    BY <1>3 DEF Check
  <2> HIDE DEF quote, skip
  <2> QED
    BY <1>1, <2>1, <2>2
<1>4. ASSUME NEW op, th' = [th EXCEPT ![g].pc = "remove", ![g].op = op]
      PROVE  Loops'
  <2> DEFINE h == [th[g] EXCEPT !.pc = "remove", !.op = op]
  <2>1. th' = [th EXCEPT ![g] = h] /\ h.pc = "remove"
    BY <1>0, <1>4 DEF Hand
  <2> HIDE DEF h
  <2> QED
    BY <1>1, <2>1
<1>5. ASSUME Return(g)
      PROVE  Loops'
  <2>1. th' = [th EXCEPT ![g] = Scanning(g)] /\ Scanning(g).pc = "scan"
    BY <1>5 DEF Return, Scanning, Rest
  <2> QED
    BY <1>1, <2>1
<1>6. CASE Met(g)
  <2> DEFINE h == [th[g] EXCEPT !.pc = "submit"]
  <2>1. th' = [th EXCEPT ![g] = h] /\ h.pc = "submit"
    BY <1>0, <1>6 DEF Met, Goto, Hand
  <2> HIDE DEF h
  <2> QED
    BY <1>1, <2>1
<1> QED
  BY <1>2, <1>3, <1>4, <1>5, <1>6 DEF Poll, Expire, NotMet, Submit, AfterSubmit

\* Every step keeps one loop.
LEMMA LoopsNext ==
    ASSUME Typed, OneClient, Loops, [Next]_vars
    PROVE  Loops'
<1>1. CASE Crash
  <2>1. \A t \in Thread : th'[t] = Rest(IF t \in Client THEN "idle" ELSE "off")
    BY <1>1 DEF Crash
  <2>a. Rest("idle").pc = "idle" /\ Rest("off").pc = "off"
    BY DEF Rest
  <2>2. \A t \in Thread : th'[t].pc = IF t \in Client THEN "idle" ELSE "off"
    BY <2>1, <2>a
  <2>3. \A g \in Loop : th'[g].pc = "off" /\ g \in Thread
    BY <2>2, FlowAssumption DEF Thread
  <2> QED
    BY <2>2, <2>3 DEF Loops, Stopping, Starting, Polls, At, Thread
<1>2. CASE UNCHANGED <<th, monitor, stopped>>
  BY <1>2 DEF Loops, Stopping, Starting, Polls, At
<1>3. ASSUME NEW w \in Flow, Fire(w)
      PROVE  Loops'
  BY <1>2, <1>3 DEF Fire, OrderUpdate, JobFires, RunNow, Webhook, Requested
<1>4. ASSUME NEW r \in Run, Go(r)
      PROVE  Loops'
  BY <1>2, <1>4 DEF Go, StartRun, TestActive, Ask, Execute, Executed, EndRun
<1>5. ASSUME NEW w \in Flow, Update(w)
      PROVE  Loops'
  BY <1>2, <1>5 DEF Update
<1> QED
  BY <1>1, <1>2, <1>3, <1>4, <1>5, RequestLoops, RemoveLoops, PollLoops DEF Next, vars

\* One loop polls, for any number of loops, if requests come one at a time.
THEOREM OneLoopPolls == OneClient => (Spec => []OneLoop)
<1>1. Init => Loops
  <2> SUFFICES ASSUME Init
               PROVE  Loops
    OBVIOUS
  <2>1. \A t \in Thread : th[t].pc = IF t \in Client THEN "idle" ELSE "off"
    BY DEF Init, Rest
  <2>2. \A g \in Loop : th[g].pc = "off"
    BY <2>1, FlowAssumption DEF Thread
  <2> QED
    BY <2>1, <2>2 DEF Loops, Stopping, Starting, Polls, At, Thread
<1>2. Loops => OneLoop
  <2> SUFFICES ASSUME Loops, ~monitor.crossed
               PROVE  Cardinality({g \in Loop : ~At(g, "off") /\ g \notin stopped}) <= 1
    BY DEF OneLoop
  <2> DEFINE S == {g \in Loop : ~At(g, "off") /\ g \notin stopped}
  <2>1. S = {} \/ S = {monitor.event}
    BY DEF Loops, Polls
  <2>2. Cardinality({}) = 0 /\ Cardinality({monitor.event}) = 1
    BY FS_EmptySet, FS_Singleton
  <2> QED
    BY <2>1, <2>2
<1>3. Inv /\ OneClient /\ Loops /\ [Next]_vars => Loops'
  BY LoopsNext DEF Inv
<1>4. CASE OneClient
  BY <1>1, <1>2, <1>3, <1>4, InvInit, InvNext, PTL DEF Spec
<1> QED
  BY <1>4

-----------------------------------------------------------------------------
(* What is switched off *)

Clean(w) == ~Registered(w) /\ watch[w] = 0 /\ w \notin jobs

\* Where a request activates; where it has removed the job; and the alert.
Activating == {"alert", "watch", "job", "test_running", "new_event", "new_thread",
               "set_job_id", "activate"}
Unalerted == {"test_empty", "stop", "clear", "join", "unwatch", "write"}
Unscheduled == Unalerted \cup {"remove"}

\* What a request has made sure of so far.
Held(c) ==
    /\ th[c].pc \in Activating => row[th[c].w].exists
    /\ th[c].pc \in Unscheduled => th[c].w \notin jobs
    /\ th[c].pc \in Unalerted => ~Registered(th[c].w)
    /\ th[c].pc = "write" => watch[th[c].w] = 0

\* A job is known to its row, so that it is removed with it; what is switched off and
\* nobody works at has nothing left.
Silent ==
    faults > 0 \/
    /\ \A w \in Flow \ loose : \A c, d \in Client : Busy(c, w) /\ Busy(d, w) => c = d
    /\ \A w \in Flow \ loose : w \in jobs =>
          row[w].job \/ \E c \in Client : At(c, "set_job_id") /\ th[c].w = w
    /\ \A w \in Flow \ loose :
          ~row[w].active /\ (\A c \in Client : ~Busy(c, w)) => Clean(w)
    /\ \A c \in Client : th[c].w \notin loose => Held(c)

\* A step of the request that works at w.
LEMMA SilentStep ==
    ASSUME Typed, Silent, faults = 0, NEW c \in Client, NEW w \in Flow,
           \A d \in Client : d # c => th'[d] = th[d],
           \A v \in Flow : v # w =>
              row'[v] = row[v] /\ alert'[v] = alert[v] /\ watch'[v] = watch[v]
              /\ (v \in jobs' <=> v \in jobs) /\ (v \in loose' <=> v \in loose),
           At(c, "idle") \/ th[c].w = w, At(c, "idle")' \/ th'[c].w = w,
           w \notin loose' =>
              /\ w \notin loose /\ \A d \in Client : d # c => ~Busy(d, w)
              /\ w \in jobs' => row'[w].job \/ (At(c, "set_job_id")' /\ th'[c].w = w)
              /\ At(c, "idle")' /\ ~row'[w].active => Clean(w)',
           w \notin loose' \/ At(c, "idle")' => Held(c)'
    PROVE  Silent'
<1>0. ASSUME NEW v \in Flow, v \notin loose', NEW d \in Client, NEW e \in Client,
             Busy(d, v)', Busy(e, v)'
      PROVE  d = e
  <2>1. CASE v = w
    BY <1>0, <2>1 DEF Busy, At
  <2>2. CASE v # w
    <3>1. \A u \in Client : Busy(u, v)' => Busy(u, v)
      BY <2>2 DEF Busy, At
    <3> QED
      BY <1>0, <2>2, <3>1 DEF Silent
  <2> QED
    BY <2>1, <2>2
<1>1. ASSUME NEW v \in Flow, v \notin loose', v \in jobs'
      PROVE  row'[v].job \/ \E d \in Client : At(d, "set_job_id")' /\ th'[d].w = v
  <2>1. CASE v # w
    <3>1. row[v].job \/ \E d \in Client : At(d, "set_job_id") /\ th[d].w = v
      BY <1>1, <2>1 DEF Silent
    <3>2. ASSUME NEW d \in Client, At(d, "set_job_id"), th[d].w = v
          PROVE  At(d, "set_job_id")' /\ th'[d].w = v
      BY <2>1, <3>2 DEF At
    <3> QED
      BY <2>1, <3>1, <3>2
  <2> QED
    BY <1>1, <2>1
<1>2. ASSUME NEW v \in Flow, v \notin loose', ~row'[v].active, \A d \in Client : ~Busy(d, v)'
      PROVE  Clean(v)'
  <2>1. CASE v = w
    BY <1>2, <2>1 DEF Busy
  <2>2. CASE v # w
    <3>1. \A d \in Client : ~Busy(d, v)
      BY <1>2, <2>2 DEF Busy, At
    <3>2. Clean(v)
      BY <1>2, <2>2, <3>1 DEF Silent
    <3> QED
      BY <2>2, <3>2 DEF Clean, Registered
  <2> QED
    BY <2>1, <2>2
<1>3. ASSUME NEW d \in Client, d # c, th'[d].w \notin loose'
      PROVE  Held(d)'
  <2>1. CASE th[d].pc \in Resting
    BY <1>3, <2>1 DEF Held, Resting, Activating, Unscheduled, Unalerted
  <2>2. CASE th[d].pc \notin Resting
    <3>1. d \in Thread
      BY DEF Thread
    <3>2. th[d].w \in Flow /\ th[d].w # w /\ th[d].w \notin loose
      BY <1>3, <2>2, <3>1 DEF Typed, Threads, Busy, At, Resting
    <3>3. Held(d)
      BY <3>2 DEF Silent
    <3> QED
      BY <1>3, <3>2, <3>3 DEF Held, Registered
  <2> QED
    BY <2>1, <2>2
<1>4. th'[c].w \notin loose' => Held(c)'
  OBVIOUS
<1> QED
  BY <1>0, <1>1, <1>2, <1>3, <1>4 DEF Silent

\* An update of w switches it on, or off.
LEMMA UpdateSilent ==
    ASSUME Typed, Silent, faults = 0, faults' = 0, NEW w \in Flow, Update(w)
    PROVE  Silent'
<1>1. UNCHANGED <<jobs, alert, watch, th>> /\ loose \subseteq loose'
  BY DEF Update, CommitFails, store, registry
<1> DEFINE Kept ==
             /\ \A v \in Flow : row'[v].exists = row[v].exists
             /\ \A v \in Flow \ loose' :
                   row'[v].job = row[v].job /\ (row'[v].active = row[v].active \/ row'[v].active)
<1>2. Kept
  <2>1. row \in [Flow -> Row] /\ row[w] \in Row
    BY DEF Typed, Tables, Row
  <2>2. CASE UNCHANGED <<row, loose>>
    BY <2>2
  <2>3. ASSUME NEW active \in BOOLEAN, NEW job \in {row[w].job, FALSE},
               row' = [row EXCEPT ![w].active = active, ![w].job = job],
               loose' = IF active /\ job = row[w].job THEN loose ELSE loose \cup {w}
        PROVE  Kept
    <3> DEFINE q == [row[w] EXCEPT !.active = active, !.job = job]
    <3>1. row' = [row EXCEPT ![w] = q]
      BY <2>1, <2>3
    <3>2. q.exists = row[w].exists /\ q.active = active /\ q.job = job
      BY <2>1 DEF Row
    <3> HIDE DEF q
    <3>3. row'[w] = q /\ \A v \in Flow : v # w => row'[v] = row[v]
      BY <2>1, <3>1
    <3> QED
      BY <2>1, <2>3, <3>2, <3>3
  <2> QED
    BY <2>2, <2>3 DEF Update, CommitFails, store
<1>3. \A d \in Client : th[d].pc \notin Resting => th[d].w \in Flow
  BY DEF Typed, Threads, Thread
<1>4. ASSUME NEW d \in Client, th[d].w \notin loose'
      PROVE  Held(d)'
  <2>1. Held(d)
    BY <1>1, <1>4 DEF Silent
  <2>2. CASE th[d].pc \in Resting
    BY <1>1, <2>2 DEF Held, Resting, Activating, Unscheduled, Unalerted
  <2>3. CASE th[d].pc \notin Resting
    BY <1>1, <1>2, <1>3, <2>1, <2>3 DEF Held, Registered
  <2> QED
    BY <2>2, <2>3
<1>5. \A d \in Client : \A v \in Flow :
         Busy(d, v)' = Busy(d, v) /\ At(d, "set_job_id")' = At(d, "set_job_id")
         /\ Clean(v)' = Clean(v)
  BY <1>1 DEF Busy, At, Clean, Registered
<1>6. \A v \in Flow : Clean(v)' = Clean(v)
  BY <1>1 DEF Clean, Registered
<1> QED
  BY <1>1, <1>2, <1>4, <1>5, <1>6 DEF Silent

\* A step of no request adds nothing.
LEMMA SilentFrame ==
    ASSUME Typed, Silent, faults = 0, UNCHANGED <<row, loose>>, jobs' \subseteq jobs,
           \A d \in Client : th'[d] = th[d],
           \A v \in Flow : alert'[v] \in {alert[v], 0} /\ watch'[v] \in {watch[v], 0}
    PROVE  Silent'
<1>1. \A v \in Flow : Clean(v) => Clean(v)'
  BY DEF Clean, Registered
<1>2. ASSUME NEW d \in Client, th[d].w \notin loose
      PROVE  Held(d)'
  <2>1. CASE th[d].pc \in Resting
    BY <2>1 DEF Held, Resting, Activating, Unscheduled, Unalerted
  <2>2. CASE th[d].pc \notin Resting
    <3>1. th[d].w \in Flow
      BY <2>2 DEF Typed, Threads, Thread
    <3>2. Held(d)
      BY <1>2 DEF Silent
    <3> QED
      BY <3>1, <3>2 DEF Held, Registered
  <2> QED
    BY <2>1, <2>2
<1>3. \A d \in Client : \A v \in Flow : Busy(d, v)' = Busy(d, v)
  BY DEF Busy, At
<1>4. \A d \in Client : At(d, "set_job_id")' = At(d, "set_job_id")
  BY DEF At
<1> QED
  BY <1>1, <1>2, <1>3, <1>4 DEF Silent

\* A request takes up a workflow: if another has it, it is loose.
LEMMA BeginSilent ==
    ASSUME Typed, Silent, faults = 0, NEW c \in Client, NEW w \in Flow,
           Activate(c, w) \/ Deactivate(c, w) \/ Delete(c, w)
    PROVE  Silent'
<1>0. c \in Thread /\ th \in [Thread -> Hand] /\ At(c, "idle")
  BY DEF Thread, Typed, Threads, Activate, Deactivate, Delete, Begin
<1>1. /\ \A u \in Thread : u # c => th'[u] = th[u]
      /\ UNCHANGED <<row, alert, watch, jobs>>
  BY <1>0 DEF Activate, Deactivate, Delete, Begin, store, registry
<1>2. PICK pc \in {"alert", "watch", "job", "remove_job", "remove", "write"} :
        /\ th'[c].w = w /\ th'[c].pc = pc
        /\ pc \in {"alert", "watch", "job"} => row[w].exists
        /\ pc = "remove" => ~row[w].job
        /\ pc = "write" => ~row[w].active
  <2>1. ASSUME NEW op, NEW pc \in {"alert", "watch", "job", "remove_job", "remove", "write"},
               Begin(c, w, op, pc)
        PROVE  th'[c].w = w /\ th'[c].pc = pc
    <3> DEFINE h == [Rest(pc) EXCEPT !.op = op, !.w = w]
    <3>1. th' = [th EXCEPT ![c] = h] /\ h.pc = pc /\ h.w = w
      BY <2>1 DEF Begin, Rest
    <3> HIDE DEF h
    <3> QED
      BY <1>0, <3>1
  <2>2. CASE Activate(c, w)
    <3>1. trigger[w].kind \in {"alert", "watch", "job"}
      BY DEF Typed, Tables
    <3> QED
      BY <2>1, <2>2, <3>1 DEF Activate
  <2>3. CASE Deactivate(c, w)
    BY <2>1, <2>3 DEF Deactivate
  <2>4. CASE Delete(c, w)
    BY <2>1, <2>4 DEF Delete
  <2> QED
    BY <2>2, <2>3, <2>4
<1>3. ~At(c, "idle")' /\ Busy(c, w)'
  BY <1>2 DEF Busy, At
<1>4. loose' = IF \E d \in Client : Busy(d, w) THEN loose \cup {w} ELSE loose
  BY DEF Activate, Deactivate, Delete, Begin
<1>5. w \notin loose' => w \notin loose /\ \A d \in Client : ~Busy(d, w)
  BY <1>4
<1>6. w \notin loose' => (w \in jobs => row[w].job)
  BY <1>5 DEF Silent, Busy, At
<1>7. w \notin loose' => Held(c)'
  <2>1. w \notin loose' => (~row[w].active => Clean(w))
    BY <1>5 DEF Silent
  <2> QED
    BY <1>1, <1>2, <1>6, <2>1 DEF Held, Activating, Unscheduled, Unalerted, Clean, Registered
<1>8. \A v \in Flow : v # w => (v \in loose' <=> v \in loose)
  BY <1>4
<1>9. \A d \in Client : d # c => th'[d] = th[d]
  BY <1>1 DEF Thread
<1> QED
  BY <1>0, <1>1, <1>2, <1>3, <1>5, <1>6, <1>7, <1>8, <1>9, SilentStep

\* A request works at a workflow of which nothing is claimed.
LEMMA LooseSilent ==
    ASSUME Typed, Silent, faults = 0, faults' = 0, NEW c \in Client, th[c].w \in loose,
           ~At(c, "idle"), Request(c) \/ Remove(c),
           ~\E v \in Flow : Activate(c, v) \/ Deactivate(c, v) \/ Delete(c, v)
    PROVE  Silent'
<1> DEFINE w == th[c].w
<1>0. /\ c \in Thread /\ c \notin Loop /\ th \in [Thread -> Hand] /\ th[c] \in Hand
      /\ w \in Flow /\ loose \subseteq Flow
  BY FlowAssumption DEF Thread, Typed, Threads, Tables
<1>1. /\ row \in [Flow -> Row] /\ alert \in [Flow -> 0 .. ids] /\ watch \in [Flow -> 0 .. ids]
      /\ row[w] \in Row
  BY <1>0 DEF Typed, Tables, Registry, Row
<1>2. /\ loose' = loose
      /\ \A v \in Flow : v # w =>
            alert'[v] = alert[v] /\ watch'[v] = watch[v] /\ (v \in jobs' <=> v \in jobs)
  BY <1>1 DEF Request, AddAlert, TestRunning, NewEvent, NewThread, AddWatch, AddJob, SetJobId,
     SetActive, RemoveJob, RemoveWatch, WriteRow, CommitFails, Remove, RemoveAlert, TestEmpty,
     SetStop, ClearRunning, Join, store, registry
<1>3. \A v \in Flow : v # w => row'[v] = row[v]
  BY <1>1 DEF Request, AddAlert, TestRunning, NewEvent, NewThread, AddWatch, AddJob, SetJobId,
     SetActive, RemoveJob, RemoveWatch, WriteRow, CommitFails, Remove, RemoveAlert, TestEmpty,
     SetStop, ClearRunning, Join, store, registry
<1>4. /\ th'[c].w = w \/ th'[c].pc = "idle"
      /\ \A d \in Client : d # c => th'[d] = th[d]
  <2>1. CASE \/ Finish(c) \/ Return(c) \/ \E pc : Goto(c, pc)
             \/ \E g : th' = [th EXCEPT ![c].pc = "new_thread", ![c].on = g]
                     \/ th' = [th EXCEPT ![c].pc = "join", ![c].on = g]
    <3>1. Rest("idle").pc = "idle"
      BY DEF Rest
    <3>2. CASE Finish(c) \/ Return(c)
      <4>1. PICK h : th' = [th EXCEPT ![c] = h] /\ (h.pc = "idle" \/ h.w = w)
        BY <1>0, <3>1, <3>2 DEF Finish, Return, Hand
      <4> QED
        BY <1>0, <4>1 DEF Thread
    <3>3. ASSUME NEW pc, Goto(c, pc)
          PROVE  th'[c].w = w /\ \A d \in Client : d # c => th'[d] = th[d]
      BY <1>0, <3>3 DEF Goto, Hand, Thread
    <3>4. ASSUME NEW pc, NEW g, th' = [th EXCEPT ![c].pc = pc, ![c].on = g]
          PROVE  th'[c].w = w /\ \A d \in Client : d # c => th'[d] = th[d]
      BY <1>0, <3>4 DEF Hand, Thread
    <3> QED
      BY <2>1, <3>2, <3>3, <3>4
  <2>2. CASE NewThread(c)
    <3> DEFINE g == th[c].on
    <3>1. g \notin Client
      BY <1>0, FlowAssumption, <2>2 DEF Hand, NewThread, At, Typed, Threads
    <3>2. th' = [th EXCEPT ![c].pc = "activate", ![c].on = "none", ![g] = Rest("wait")]
      BY <2>2 DEF NewThread
    <3> HIDE DEF g
    <3> QED
      BY <1>0, <3>1, <3>2 DEF Hand, Thread
  <2> QED
    BY <2>1, <2>2 DEF Request, AddAlert, TestRunning, NewEvent, AddWatch, AddJob, SetJobId,
       SetActive, RemoveJob, RemoveWatch, WriteRow, Remove, RemoveAlert, TestEmpty,
       SetStop, ClearRunning, Join
<1>5. At(c, "idle")' => Held(c)'
  BY DEF Held, At, Activating, Unscheduled, Unalerted
<1> QED
  BY <1>0, <1>2, <1>3, <1>4, <1>5, SilentStep DEF At

\* A request goes on with its workflow.
LEMMA RequestSilent ==
    ASSUME Typed, Silent, faults = 0, faults' = 0, NEW c \in Client,
           Request(c) \/ Remove(c)
    PROVE  Silent'
<1>0. c \in Thread /\ c \notin Loop /\ th \in [Thread -> Hand] /\ th[c] \in Hand
  BY FlowAssumption DEF Thread, Typed, Threads
<1>1. CASE \E w \in Flow : Activate(c, w) \/ Deactivate(c, w) \/ Delete(c, w)
  BY <1>1, BeginSilent
<1> DEFINE w == th[c].w
<1>2. CASE ~\E v \in Flow : Activate(c, v) \/ Deactivate(c, v) \/ Delete(c, v)
  <2>1. th[c].pc \in Activating \cup Unscheduled \cup {"remove_job"}
    BY <1>2 DEF Request, AddAlert, TestRunning, NewEvent, NewThread, AddWatch, AddJob, SetJobId,
       SetActive, RemoveJob, RemoveWatch, WriteRow, Remove, RemoveAlert, TestEmpty, SetStop,
       ClearRunning, Join, At, Activating, Unscheduled, Unalerted
  <2>2. w \in Flow /\ ~At(c, "idle")
    BY <1>0, <2>1 DEF Typed, Threads, At, Resting, Activating, Unscheduled, Unalerted
  <2>e. loose' = loose
    BY <1>2 DEF Request, AddAlert, TestRunning, NewEvent, NewThread, AddWatch, AddJob, SetJobId,
       SetActive, RemoveJob, RemoveWatch, WriteRow, CommitFails, Remove, RemoveAlert, TestEmpty,
       SetStop, ClearRunning, Join, store
  <2>l. CASE w \in loose
    BY <1>2, <2>2, <2>l, LooseSilent
  <2>k. SUFFICES ASSUME w \notin loose
                 PROVE  Silent'
    BY <2>l
  <2>3. \A d \in Client : d # c => ~Busy(d, w)
    BY <2>2, <2>k DEF Silent, Busy
  <2>4. Held(c) /\ (w \in jobs => row[w].job \/ At(c, "set_job_id"))
    BY <2>2, <2>3, <2>k DEF Silent, Busy, At
  <2>5. /\ row \in [Flow -> Row] /\ alert \in [Flow -> 0 .. ids] /\ watch \in [Flow -> 0 .. ids]
        /\ jobs \subseteq Flow /\ row[w] \in Row
    BY <2>2 DEF Typed, Tables, Registry, Row
  <2>a. ASSUME NEW pc, Goto(c, pc)
        PROVE  /\ th'[c].pc = pc /\ th'[c].w = w
               /\ \A d \in Client : d # c => th'[d] = th[d]
    BY <1>0, <2>a DEF Goto, Hand, Thread
  <2>b. ASSUME Return(c)
        PROVE  /\ th'[c].pc = "unwatch" /\ th'[c].w = w
               /\ \A d \in Client : d # c => th'[d] = th[d]
    BY <1>0, <2>b DEF Return, Hand, Thread
  <2>c. ASSUME Finish(c)
        PROVE  /\ th'[c].pc = "idle"
               /\ \A d \in Client : d # c => th'[d] = th[d]
    <3>1. th' = [th EXCEPT ![c] = Rest("idle")] /\ Rest("idle").pc = "idle"
      BY <2>c DEF Finish, Rest
    <3> QED
      BY <1>0, <3>1 DEF Thread
  <2>d. ASSUME NEW pc \in Activating \ {"set_job_id"}, At(c, pc) \/ At(c, "set_job_id"),
               row'[w].exists,
               th'[c].pc \in Activating, th'[c].w = w, w \in jobs' => row'[w].job \/ At(c, "set_job_id")',
               \A d \in Client : d # c => th'[d] = th[d],
               \A v \in Flow : v # w =>
                  row'[v] = row[v] /\ alert'[v] = alert[v] /\ watch'[v] = watch[v]
                  /\ (v \in jobs' <=> v \in jobs)
        PROVE  Silent'
    <3>1. Held(c)' /\ ~At(c, "idle")'
      BY <2>d DEF Held, At, Activating, Unscheduled, Unalerted
    <3> QED
      BY <2>2, <2>3, <2>e, <2>d, <3>1, SilentStep
  <2>6. CASE AddAlert(c) \/ AddWatch(c)
    <3>1. row[w].exists /\ row' = row /\ jobs' = jobs /\ th'[c].w = w
          /\ th'[c].pc \in Activating /\ \A d \in Client : d # c => th'[d] = th[d]
      BY <2>4, <2>6, <2>a DEF AddAlert, AddWatch, At, Held, Activating, store
    <3>2. \A v \in Flow : v # w => alert'[v] = alert[v] /\ watch'[v] = watch[v]
      BY <2>5, <2>6 DEF AddAlert, AddWatch
    <3>3. \E pc \in Activating \ {"set_job_id"} : At(c, pc)
      BY <2>6 DEF AddAlert, AddWatch, Activating
    <3>4. w \in jobs' => row'[w].job
      BY <2>4, <3>1, <3>3 DEF At
    <3> QED
      BY <2>d, <3>1, <3>2, <3>3, <3>4
  <2>7. CASE TestRunning(c) \/ \E g \in Loop : NewEvent(c, g)
    <3>1. row[w].exists /\ UNCHANGED <<row, jobs, alert, watch>>
      BY <2>4, <2>7 DEF TestRunning, NewEvent, At, Held, Activating, store, registry
    <3>2. th'[c].w = w /\ th'[c].pc \in Activating /\ \A d \in Client : d # c => th'[d] = th[d]
      BY <1>0, <2>7, <2>a DEF TestRunning, NewEvent, Activating, Hand, Thread
    <3>3. \E pc \in Activating \ {"set_job_id"} : At(c, pc)
      BY <2>7 DEF TestRunning, NewEvent, Activating
    <3>4. w \in jobs' => row'[w].job
      BY <2>4, <3>1, <3>3 DEF At
    <3> QED
      BY <2>d, <3>1, <3>2, <3>3, <3>4
  <2>8. CASE NewThread(c)
    <3>1. row[w].exists /\ UNCHANGED <<row, jobs, alert, watch>>
      BY <2>4, <2>8 DEF NewThread, At, Held, Activating, store, registry
    <3> DEFINE g == th[c].on
    <3>2. g \notin Client
      BY <1>0, FlowAssumption, <2>8 DEF Hand, NewThread, At, Typed, Threads
    <3>3. th' = [th EXCEPT ![c].pc = "activate", ![c].on = "none", ![g] = Rest("wait")]
      BY <2>8 DEF NewThread
    <3> HIDE DEF g
    <3>4. th'[c].w = w /\ th'[c].pc \in Activating /\ \A d \in Client : d # c => th'[d] = th[d]
      BY <1>0, <3>2, <3>3 DEF Activating, Hand, Thread
    <3>5. \E pc \in Activating \ {"set_job_id"} : At(c, pc)
      BY <2>8 DEF NewThread, Activating
    <3>6. w \in jobs' => row'[w].job
      BY <2>4, <3>1, <3>5 DEF At
    <3> QED
      BY <2>d, <3>1, <3>4, <3>5, <3>6
  <2>9. CASE AddJob(c)
    <3>1. row[w].exists /\ UNCHANGED <<row, alert, watch>> /\ jobs' = jobs \cup {w}
      BY <2>4, <2>9 DEF AddJob, At, Held, Activating, registry
    <3>2. /\ th'[c].w = w /\ th'[c].pc = "set_job_id"
          /\ \A d \in Client : d # c => th'[d] = th[d]
      BY <2>9, <2>a DEF AddJob
    <3> QED
      BY <2>d, <2>9, <3>1, <3>2 DEF AddJob, At, Activating
  <2>10. CASE SetJobId(c)
    <3>1. row[w].exists /\ UNCHANGED <<jobs, alert, watch>>
      BY <2>4, <2>10 DEF SetJobId, CommitFails, store, At, Held, Activating, registry
    <3>2. row' = [row EXCEPT ![w].job = @ \/ row[w].exists]
      BY <2>10 DEF SetJobId, CommitFails
    <3>3. /\ th'[c].w = w /\ th'[c].pc = "activate"
          /\ \A d \in Client : d # c => th'[d] = th[d]
      BY <2>10, <2>a DEF SetJobId
    <3>4. row'[w].exists /\ row'[w].job /\ \A v \in Flow : v # w => row'[v] = row[v]
      BY <2>2, <2>5, <3>1, <3>2 DEF Row
    <3> QED
      BY <2>d, <2>10, <3>1, <3>3, <3>4 DEF SetJobId, At, Activating
  <2>11. CASE SetActive(c)
    <3>1. row[w].exists /\ UNCHANGED <<jobs, alert, watch>>
      BY <2>4, <2>11 DEF SetActive, CommitFails, store, At, Held, Activating, registry
    <3>2. row' = [row EXCEPT ![w].active = @ \/ row[w].exists]
      BY <2>11 DEF SetActive, CommitFails
    <3>3. th'[c].pc = "idle" /\ \A d \in Client : d # c => th'[d] = th[d]
      BY <2>11, <2>c DEF SetActive
    <3>4. /\ row'[w].active /\ row'[w].job = row[w].job
          /\ \A v \in Flow : v # w => row'[v] = row[v]
      BY <2>2, <2>5, <3>1, <3>2 DEF Row
    <3>5. Held(c)' /\ At(c, "idle")'
      BY <3>3 DEF Held, At, Activating, Unscheduled, Unalerted
    <3>6. w \in jobs' => row'[w].job
      BY <2>4, <2>11, <3>1, <3>4 DEF SetActive, At
    <3> QED
      BY <2>2, <2>3, <2>e, <3>1, <3>3, <3>4, <3>5, <3>6, SilentStep
  <2>12. CASE RemoveJob(c)
    <3>1. UNCHANGED <<alert, watch>> /\ jobs' = jobs \ {w}
      BY <2>12 DEF RemoveJob, registry
    <3>2. \A v \in Flow : v # w => row'[v] = row[v]
      BY <2>5, <2>12 DEF RemoveJob
    <3>3. /\ th'[c].w = w /\ th'[c].pc = "remove"
          /\ \A d \in Client : d # c => th'[d] = th[d]
      BY <2>12, <2>a DEF RemoveJob
    <3>4. Held(c)' /\ ~At(c, "idle")'
      BY <3>1, <3>3 DEF Held, At, Activating, Unscheduled, Unalerted
    <3> QED
      BY <2>2, <2>3, <2>e, <3>1, <3>2, <3>3, <3>4, SilentStep
  <2>13. CASE RemoveAlert(c)
    <3>1. UNCHANGED <<row, jobs, watch>> /\ alert' = [alert EXCEPT ![w] = 0]
      BY <2>13 DEF RemoveAlert, store
    <3>2. /\ th'[c].w = w /\ th'[c].pc \in {"test_empty", "unwatch"}
          /\ \A d \in Client : d # c => th'[d] = th[d]
      BY <2>13, <2>a, <2>b DEF RemoveAlert
    <3>3. alert'[w] = 0 /\ \A v \in Flow : v # w => alert'[v] = alert[v]
      BY <2>2, <2>5, <3>1
    <3>4. w \notin jobs
      BY <2>4, <2>13 DEF RemoveAlert, At, Held, Unscheduled
    <3>5. Held(c)' /\ ~At(c, "idle")'
      BY <3>1, <3>2, <3>3, <3>4 DEF Held, At, Activating, Unscheduled, Unalerted, Registered
    <3> QED
      BY <2>2, <2>3, <2>e, <3>1, <3>2, <3>3, <3>4, <3>5, SilentStep
  <2>14. CASE TestEmpty(c) \/ SetStop(c) \/ ClearRunning(c) \/ Join(c)
    <3>1. UNCHANGED <<row, jobs, alert, watch>>
      BY <2>14 DEF TestEmpty, SetStop, ClearRunning, Join, store, registry
    <3>2. /\ th'[c].w = w /\ th'[c].pc \in {"stop", "unwatch", "clear", "join"}
          /\ \A d \in Client : d # c => th'[d] = th[d]
      <4>1. ASSUME NEW g, th' = [th EXCEPT ![c].pc = "join", ![c].on = g]
            PROVE  /\ th'[c].w = w /\ th'[c].pc = "join"
                   /\ \A d \in Client : d # c => th'[d] = th[d]
        BY <1>0, <4>1 DEF Hand, Thread
      <4> QED
        BY <2>14, <2>a, <2>b, <4>1 DEF TestEmpty, SetStop, ClearRunning, Join
    <3>3. w \notin jobs /\ ~Registered(w)
      BY <2>4, <2>14 DEF TestEmpty, SetStop, ClearRunning, Join, At, Held, Unscheduled, Unalerted
    <3>4. Held(c)' /\ ~At(c, "idle")'
      BY <3>1, <3>2, <3>3 DEF Held, At, Activating, Unscheduled, Unalerted, Registered
    <3> QED
      BY <2>2, <2>3, <2>e, <3>1, <3>2, <3>3, <3>4, SilentStep
  <2>15. CASE RemoveWatch(c)
    <3>1. UNCHANGED <<row, jobs, alert>> /\ watch' = [watch EXCEPT ![w] = 0]
      BY <2>15 DEF RemoveWatch, store
    <3>2. /\ th'[c].w = w /\ th'[c].pc = "write"
          /\ \A d \in Client : d # c => th'[d] = th[d]
      BY <2>15, <2>a DEF RemoveWatch
    <3>3. watch'[w] = 0 /\ \A v \in Flow : v # w => watch'[v] = watch[v]
      BY <2>2, <2>5, <3>1
    <3>4. w \notin jobs /\ ~Registered(w)
      BY <2>4, <2>15 DEF RemoveWatch, At, Held, Unscheduled, Unalerted
    <3>5. Held(c)' /\ ~At(c, "idle")'
      BY <3>1, <3>2, <3>3, <3>4 DEF Held, At, Activating, Unscheduled, Unalerted, Registered
    <3> QED
      BY <2>2, <2>3, <2>e, <3>1, <3>2, <3>3, <3>4, <3>5, SilentStep
  <2>16. CASE WriteRow(c)
    <3>1. UNCHANGED <<jobs, alert, watch>> /\ \A v \in Flow : v # w => row'[v] = row[v]
      BY <2>5, <2>16 DEF WriteRow, CommitFails, store, registry
    <3>2. th'[c].pc = "idle" /\ \A d \in Client : d # c => th'[d] = th[d]
      BY <2>16, <2>c DEF WriteRow
    <3>3. Clean(w)
      BY <2>4, <2>16 DEF WriteRow, At, Held, Unscheduled, Unalerted, Clean
    <3>4. Held(c)' /\ At(c, "idle")'
      BY <3>2 DEF Held, At, Activating, Unscheduled, Unalerted
    <3>5. w \notin jobs /\ \A v \in Flow : Clean(v) => Clean(v)'
      BY <3>1, <3>3 DEF Clean, Registered
    <3> QED
      BY <2>2, <2>3, <2>e, <3>1, <3>2, <3>3, <3>4, <3>5, SilentStep
  <2> QED
    BY <1>2, <2>6, <2>7, <2>8, <2>9, <2>10, <2>11, <2>12, <2>13, <2>14, <2>15, <2>16
       DEF Request, Remove
<1> QED
  BY <1>1, <1>2

\* Only requests add anything, and without a fault nothing is forgotten.
LEMMA SilentNext ==
    ASSUME Typed, Silent, [Next]_vars
    PROVE  Silent'
<1>0. faults \in Nat /\ faults' \in Nat /\ (faults' = 0 => faults = 0)
  <2>1. faults \in Nat /\ faults' \in Nat
    BY TypedNext, FlowAssumption DEF Typed, Tables
  <2>2. faults' = faults \/ faults' = faults + 1
    BY DEF Next, vars, store, Request, Activate, Deactivate, Delete, Begin, AddAlert, TestRunning,
       NewEvent, NewThread, AddWatch, AddJob, SetJobId, SetActive, RemoveJob, RemoveWatch, WriteRow,
       CommitFails, Commits, Update, Remove, RemoveAlert, TestEmpty, SetStop, ClearRunning, Join, Poll, Cycle,
       EndCycle, Check, Expire, NotMet, Met, Submit, Fire, OrderUpdate, JobFires, RunNow, Webhook,
       Requested, Go, StartRun, TestActive, Ask, Execute, Executed, EndRun, Crash
  <2> QED
    BY <2>1, <2>2
<1>1. SUFFICES ASSUME faults' = 0
               PROVE  Silent'
  BY <1>0 DEF Silent
<1>2. faults = 0
  BY <1>0, <1>1
<1>3. ASSUME NEW c \in Client, Request(c) \/ Remove(c)
      PROVE  Silent'
  BY <1>1, <1>2, <1>3, RequestSilent
<1>4. alert \in [Flow -> 0 .. ids] /\ watch \in [Flow -> 0 .. ids] /\ th \in [Thread -> Hand]
  BY DEF Typed, Threads, Registry
<1>5. ASSUME NEW g \in Loop, Remove(g) \/ Poll(g)
      PROVE  Silent'
  <2>1. UNCHANGED <<row, jobs, loose, watch>> /\ (alert' = alert \/ alert' = [alert EXCEPT ![th[g].w] = 0])
    BY <1>5 DEF Remove, RemoveAlert, TestEmpty, SetStop, ClearRunning, Join, Poll, Cycle, EndCycle,
       Check, Expire, NotMet, Met, Submit, store, registry
  <2>2. \A v \in Flow : alert'[v] \in {alert[v], 0} /\ watch'[v] \in {watch[v], 0}
    BY <1>4, <2>1
  <2>3. PICK h : th' = [th EXCEPT ![g] = h]
    BY <1>4, <1>5 DEF Remove, RemoveAlert, TestEmpty, SetStop, ClearRunning, Join, Poll, Cycle,
       EndCycle, Check, Expire, NotMet, Met, Submit, Return, AfterSubmit, Goto
  <2>4. \A d \in Client : th'[d] = th[d]
    BY <1>4, <2>3, FlowAssumption DEF Thread
  <2> QED
    BY <1>2, <2>1, <2>2, <2>4, SilentFrame
<1>6. ASSUME NEW w \in Flow, Fire(w)
      PROVE  Silent'
  <2>1. UNCHANGED <<row, loose, alert, watch, th>> /\ jobs' \subseteq jobs
    BY <1>6 DEF Fire, OrderUpdate, JobFires, RunNow, Webhook, Requested, store, registry
  <2> QED
    BY <1>2, <2>1, SilentFrame
<1>7. ASSUME NEW r \in Run, Go(r)
      PROVE  Silent'
  <2>1. UNCHANGED <<row, loose, alert, jobs, th>> /\ (watch' = watch \/ watch' = [watch EXCEPT ![run[r].w] = 0])
    BY <1>7 DEF Go, StartRun, TestActive, Ask, Execute, Executed, EndRun, store, registry
  <2>2. \A v \in Flow : alert'[v] \in {alert[v], 0} /\ watch'[v] \in {watch[v], 0}
    BY <1>4, <2>1
  <2> QED
    BY <1>2, <2>1, <2>2, SilentFrame
<1>8. CASE Crash
  BY <1>1, <1>2, <1>8 DEF Crash
<1>10. ASSUME NEW w \in Flow, Update(w)
       PROVE  Silent'
  BY <1>1, <1>2, <1>10, UpdateSilent
<1>9. CASE UNCHANGED vars
  BY <1>2, <1>9, SilentFrame DEF vars, store, registry
<1> QED
  BY <1>3, <1>5, <1>6, <1>7, <1>8, <1>9, <1>10 DEF Next, Thread

\* A workflow that deactivate_workflow or delete_workflow has switched off has no
\* alert, watch or job, with any number of workflows and requests, unless an update
\* has touched its flag or job or two requests have been at it at once (loose).
THEOREM OffIsSilent == Spec => []InactiveIsSilent
<1>1. Init => Silent
  <2> SUFFICES ASSUME Init
               PROVE  Silent
    OBVIOUS
  <2>a. Rest("idle").pc = "idle"
    BY DEF Rest
  <2>1. \A c \in Client : th[c].pc = "idle"
    BY <2>a DEF Init, Thread
  <2> QED
    BY <2>1 DEF Init, Silent, Busy, At, Held, Clean, Registered, Activating, Unscheduled, Unalerted
<1>2. Silent => InactiveIsSilent
  BY DEF Silent, InactiveIsSilent, Settled, Busy, Clean
<1>3. Inv /\ Silent /\ [Next]_vars => Silent'
  BY SilentNext DEF Inv
<1> QED
  BY <1>1, <1>2, <1>3, InvInit, InvNext, PTL DEF Spec

-----------------------------------------------------------------------------
(***************************************************************************)
(* The walk of a graph, of any size: a gate fires once, no branch is taken *)
(* that its condition has not opened, and no gate whose inputs are wired   *)
(* without a branch is left behind with all of their results.              *)
(***************************************************************************)
Trigger == [from |-> 0, to |-> 1, handle |-> ""]

\* The edges that a walk has still to follow.
Pending(s) == UNION {s[i] : i \in 1 .. Len(s)}

\* What the validation lets through.
Graph ==
    /\ kind \in [Node -> Kinds]
    /\ \A e \in edges :
          /\ e.from \in Node /\ e.to \in Node /\ e.handle \in Wire \ {"none"}
          /\ e.handle # "" => kind[e.from] \in Branching
    /\ \A g \in Node : kind[g] \in Gate => In(g) # {}

WalkTypes ==
    /\ stack \in Seq(SUBSET (edges \cup {Trigger}))
    /\ Len(stack) <= MaxDepth + 2
    /\ result \in [Node -> {"none", "true", "false"}]
    /\ ran \in [Node -> Nat]
    /\ had \in [Node -> SUBSET {"true", "false", "error", "waits"}]
    /\ visits \in 0 .. MaxVisits
    /\ status \in {"running", "completed", "failed"}
    /\ status = "running" => stack # << >>
    /\ status = "completed" => stack = << >>

\* A gate has a result when it has fired, and has fired once.
Once(g) ==
    kind[g] \in Gate => ran[g] <= 1 /\ (ran[g] = 0 <=> result[g] = "none")

\* The node an edge comes from has been executed, and a condition there came out
\* as the branch says.
Opened(e) == ran[e.from] > 0 /\ (e.handle # "" => e.handle \in had[e.from])

\* A gate that need not wait any more, and has not fired, is on the way.
Reached(g) ==
    kind[g] \in Gate /\ ran[g] = 0 /\ ~Waits(g) /\ (\A e \in In(g) : e.handle = "")
        => \E e \in In(g) : e \in Pending(stack)

WalkInv ==
    /\ Graph /\ WalkTypes
    /\ \A g \in Node : Once(g) /\ Reached(g)

\* A set of numbers that has a bound has a greatest one.
LEMMA Greatest ==
    ASSUME NEW b \in Nat, NEW S \in SUBSET (1 .. b), S # {}
    PROVE  \E i \in S : \A j \in S : j <= i
<1> DEFINE T == {k \in Nat : \E m \in S : k = b - m}
<1>1. T \subseteq Nat /\ T # {}
  <2>1. PICK m \in S : TRUE
    OBVIOUS
  <2>2. b - m \in T
    BY <2>1
  <2> QED
    BY <2>2
<1>2. \E k \in T : \A j \in T : <<j, k>> \notin OpToRel(<, Nat)
  BY <1>1, NatLessThanWellFounded, WFMin
<1>a. \A j, k \in T : <<j, k>> \notin OpToRel(<, Nat) => k <= j
  BY DEF OpToRel
<1>3. PICK k \in T : \A j \in T : k <= j
  BY <1>2, <1>a
<1>4. PICK m \in S : k = b - m
  BY <1>3
<1>5. \A j \in S : j <= m
  <2> TAKE j \in S
  <2>1. b - j \in T
    OBVIOUS
  <2> QED
    BY <1>3, <1>4, <2>1
<1> QED
  BY <1>4, <1>5

\* Calls return that have nothing left to follow, and no edge is lost by that.
LEMMA UnwoundKeeps ==
    ASSUME NEW E, NEW s \in Seq(SUBSET E)
    PROVE  /\ Unwound(s) \in Seq(SUBSET E) /\ Len(Unwound(s)) <= Len(s)
           /\ Pending(Unwound(s)) = Pending(s)
<1> DEFINE open == {i \in 1 .. Len(s) : s[i] # {}}
           top == IF open = {} THEN 0 ELSE CHOOSE i \in open : \A j \in open : j <= i
<1>0. Len(s) \in Nat
  OBVIOUS
<1>1. top \in 0 .. Len(s) /\ \A j \in open : j <= top
  <2>1. CASE open = {}
    BY <1>0, <2>1
  <2>2. CASE open # {}
    <3>1. \E i \in open : \A j \in open : j <= i
      BY <1>0, <2>2, Greatest
    <3>2. top \in open /\ \A j \in open : j <= top
      BY <2>2, <3>1
    <3>3. open \subseteq 0 .. Len(s)
      BY <1>0
    <3> HIDE DEF top, open
    <3> QED
      BY <3>2, <3>3
  <2> QED
    BY <2>1, <2>2
<1>2. Unwound(s) = SubSeq(s, 1, top)
  BY DEF Unwound
<1> HIDE DEF top
<1>3. /\ SubSeq(s, 1, top) \in Seq(SUBSET E) /\ Len(SubSeq(s, 1, top)) = top
      /\ \A i \in 1 .. top : SubSeq(s, 1, top)[i] = s[i]
  BY <1>0, <1>1
<1>4. \A i \in 1 .. Len(s) : s[i] # {} => i \in 1 .. top
  BY <1>0, <1>1
<1>5. 1 .. top \subseteq 1 .. Len(s)
  BY <1>0, <1>1
<1>6. Pending(SubSeq(s, 1, top)) = Pending(s)
  BY <1>3, <1>4, <1>5 DEF Pending
<1> QED
  BY <1>0, <1>1, <1>2, <1>3, <1>6

\* A call takes its edge from the walk and leaves it those of its node.
LEMMA CallEffect ==
    ASSUME NEW E, stack \in Seq(SUBSET E), stack # << >>, NEW e, NEW fs \in SUBSET E, Call(e, fs)
    PROVE  /\ stack' \in Seq(SUBSET E) /\ Len(stack') <= Len(stack) + 1
           /\ (Pending(stack) \ {e}) \cup fs \subseteq Pending(stack')
           /\ Pending(stack') \subseteq Pending(stack) \cup fs
<1> DEFINE p == [stack EXCEPT ![Len(stack)] = @ \ {e}]
           s == p \o << fs >>
<1>0. Len(stack) \in Nat \ {0} /\ Len(stack) \in 1 .. Len(stack) /\ \A i \in 1 .. Len(stack) : stack[i] \in SUBSET E
  OBVIOUS
<1>1. p \in Seq(SUBSET E) /\ Len(p) = Len(stack)
  BY <1>0
<1>2. \A i \in 1 .. Len(stack) : p[i] = IF i = Len(stack) THEN stack[i] \ {e} ELSE stack[i]
  <2>1. DOMAIN stack = 1 .. Len(stack)
    OBVIOUS
  <2> QED
    BY <1>0, <2>1
<1> HIDE DEF p
<1>3. << fs >> \in Seq(SUBSET E) /\ Len(<< fs >>) = 1 /\ << fs >>[1] = fs
  OBVIOUS
<1>4. /\ s \in Seq(SUBSET E) /\ Len(s) = Len(stack) + 1
      /\ \A i \in 1 .. Len(stack) : s[i] = p[i]
      /\ s[Len(stack) + 1] = fs
  BY <1>0, <1>1, <1>3
<1>5. stack' = Unwound(s)
  BY DEF Call, p
<1> HIDE DEF s
<1>6. (Pending(stack) \ {e}) \cup fs \subseteq Pending(s)
  <2>1. ASSUME NEW f \in Pending(stack), f # e PROVE f \in Pending(s)
    <3>1. PICK i \in 1 .. Len(stack) : f \in stack[i]
      BY <2>1 DEF Pending
    <3>2. f \in p[i]
      BY <1>2, <2>1, <3>1
    <3>3. f \in s[i] /\ i \in 1 .. Len(s)
      BY <1>0, <1>4, <3>2
    <3> QED
      BY <3>3 DEF Pending
  <2>2. Len(stack) + 1 \in 1 .. Len(s)
    BY <1>0, <1>4
  <2> QED
    BY <1>4, <2>1, <2>2 DEF Pending
<1>7. Pending(s) \subseteq Pending(stack) \cup fs
  <2> SUFFICES ASSUME NEW i \in 1 .. Len(s), NEW f \in s[i], f \notin fs PROVE f \in Pending(stack)
    BY DEF Pending
  <2>1. i \in 1 .. Len(stack)
    BY <1>0, <1>4
  <2>2. f \in p[i]
    BY <1>4, <2>1
  <2>3. f \in stack[i]
    BY <1>2, <2>1, <2>2
  <2> QED
    BY <2>1, <2>3 DEF Pending
<1>8. Len(stack') <= Len(stack) + 1 /\ stack' \in Seq(SUBSET E) /\ Pending(stack') = Pending(s)
  BY <1>4, <1>5, UnwoundKeeps
<1> QED
  BY <1>6, <1>7, <1>8

LEMMA FollowedEdges ==
    ASSUME Graph, NEW n \in Node, NEW o \in {"none", "true", "false", "error"}
    PROVE  /\ \A f \in Followed(n, o) : f \in edges /\ f.from = n /\ (o = "none" \/ f.handle = "" \/ f.handle = o)
           /\ \A f \in edges : f.from = n /\ f.handle = "" => f \in Followed(n, o)
BY DEF Followed, Out

\* What the execution of a node along an edge does.
LEMMA RunsEffect ==
    ASSUME Graph, WalkTypes, NEW e \in Top, Visit(e), NEW o \in {"none", "true", "false", "error"}, NodeRuns(e, o)
    PROVE  /\ e.to \in Node /\ (e \in edges \/ e = Trigger) /\ e \in Pending(stack)
           /\ Graph' /\ WalkTypes' /\ UNCHANGED <<kind, edges>>
           /\ ran' = [ran EXCEPT ![e.to] = @ + 1]
           /\ result' = IF o = "none" THEN result
                        ELSE [result EXCEPT ![e.to] = IF o = "error" THEN "false" ELSE o]
           /\ had' = [had EXCEPT ![e.to] = @ \cup ({o} \ {"none"})]
           /\ (Pending(stack) \ {e}) \cup Followed(e.to, o) \subseteq Pending(stack')
           /\ Pending(stack') \subseteq Pending(stack) \cup Followed(e.to, o)
<1>e. PICK E : E = edges \cup {Trigger}
  OBVIOUS
<1>1. N \in Nat \ {0} /\ MaxDepth \in Nat /\ MaxVisits \in Nat
  BY WalkAssumption DEF WalkAssumption
<1>2. /\ status = "running" /\ visits < MaxVisits /\ Len(stack) - 1 <= MaxDepth
      /\ visits' = visits + 1 /\ UNCHANGED <<kind, edges>>
  BY DEF Visit, Depth, graph
<1>3. stack \in Seq(SUBSET E) /\ stack # << >> /\ Len(stack) \in 1 .. Len(stack)
  BY <1>2, <1>e DEF WalkTypes
<1>4. e \in E /\ e \in Pending(stack)
  BY <1>3 DEF Top, Pending
<1>5. e.to \in Node
  <2>1. 1 \in Node
    BY <1>1 DEF Node
  <2>2. e \in edges \/ e = Trigger
    BY <1>4, <1>e
  <2>3. e \in edges => e.to \in Node
    BY DEF Graph
  <2>4. Trigger.to = 1
    BY DEF Trigger
  <2> QED
    BY <2>1, <2>2, <2>3, <2>4
<1>f. PICK fs : fs = Followed(e.to, o)
  OBVIOUS
<1>6. fs \in SUBSET E
  BY <1>5, <1>e, <1>f, FollowedEdges
<1>7. Call(e, fs)
  BY <1>f DEF NodeRuns, Call
<1>8. /\ stack' \in Seq(SUBSET E) /\ Len(stack') <= Len(stack) + 1
      /\ (Pending(stack) \ {e}) \cup fs \subseteq Pending(stack')
      /\ Pending(stack') \subseteq Pending(stack) \cup fs
  BY <1>3, <1>6, <1>7, CallEffect
<1>9. Graph'
  BY <1>2 DEF Graph, In
<1>10. /\ ran' = [ran EXCEPT ![e.to] = @ + 1]
       /\ result' = IF o = "none" THEN result
                    ELSE [result EXCEPT ![e.to] = IF o = "error" THEN "false" ELSE o]
       /\ had' = [had EXCEPT ![e.to] = @ \cup ({o} \ {"none"})]
  BY DEF NodeRuns
<1>11. status' = IF stack' = << >> THEN "completed" ELSE "running"
  BY <1>7 DEF Call
<1>12. Len(stack') <= MaxDepth + 2 /\ visits' \in 0 .. MaxVisits /\ stack' \in Seq(SUBSET (edges \cup {Trigger}))'
  <2>1. Len(stack) \in Nat /\ Len(stack') \in Nat
    BY <1>3, <1>8
  <2>2. Len(stack') <= MaxDepth + 2
    BY <1>1, <1>2, <1>8, <2>1
  <2>3. visits' \in 0 .. MaxVisits
    BY <1>1, <1>2 DEF WalkTypes
  <2>4. (edges \cup {Trigger})' = E
    BY <1>2, <1>e DEF Trigger
  <2> QED
    BY <1>8, <2>2, <2>3, <2>4
<1>13. ran' \in [Node -> Nat] /\ result' \in [Node -> {"none", "true", "false"}]
  BY <1>5, <1>10 DEF WalkTypes
<1>14. had' \in [Node -> SUBSET {"true", "false", "error", "waits"}]
  BY <1>5, <1>10 DEF WalkTypes
<1>15. WalkTypes'
  BY <1>11, <1>12, <1>13, <1>14 DEF WalkTypes
<1>16. e \in edges \/ e = Trigger
  BY <1>4, <1>e
<1> QED
  BY <1>2, <1>4, <1>5, <1>8, <1>9, <1>10, <1>15, <1>16, <1>f

LEMMA SkipEffect ==
    ASSUME Graph, WalkTypes, NEW e \in Top, SkipGate(e)
    PROVE  /\ e.to \in Node /\ kind[e.to] \in Gate /\ e \in Pending(stack)
           /\ result[e.to] # "none" \/ Waits(e.to)
           /\ Graph' /\ WalkTypes' /\ UNCHANGED <<kind, edges, ran, result>>
           /\ \A n \in Node : had[n] \subseteq had'[n]
           /\ Pending(stack) \ {e} \subseteq Pending(stack')
           /\ Pending(stack') \subseteq Pending(stack)
<1>e. PICK E : E = edges \cup {Trigger}
  OBVIOUS
<1>1. N \in Nat \ {0} /\ MaxDepth \in Nat /\ MaxVisits \in Nat
  BY WalkAssumption DEF WalkAssumption
<1>2. /\ status = "running" /\ visits < MaxVisits /\ Len(stack) - 1 <= MaxDepth
      /\ visits' = visits + 1 /\ UNCHANGED <<kind, edges, ran, result>>
      /\ kind[e.to] \in Gate /\ (result[e.to] # "none" \/ Waits(e.to))
  BY DEF SkipGate, Visit, Depth, graph
<1>3. stack \in Seq(SUBSET E) /\ stack # << >> /\ Len(stack) \in 1 .. Len(stack)
  BY <1>2, <1>e DEF WalkTypes
<1>4. e \in E /\ e \in Pending(stack)
  BY <1>3 DEF Top, Pending
<1>5. e.to \in Node
  <2>1. 1 \in Node
    BY <1>1 DEF Node
  <2>2. e \in edges \/ e = Trigger
    BY <1>4, <1>e
  <2>3. e \in edges => e.to \in Node
    BY DEF Graph
  <2>4. Trigger.to = 1
    BY DEF Trigger
  <2> QED
    BY <2>1, <2>2, <2>3, <2>4
<1>f. PICK fs : fs = {}
  OBVIOUS
<1>6. Call(e, fs)
  BY <1>f DEF SkipGate, Call
<1>7. fs \in SUBSET E
  BY <1>f
<1>8. /\ stack' \in Seq(SUBSET E) /\ Len(stack') <= Len(stack) + 1
      /\ (Pending(stack) \ {e}) \cup fs \subseteq Pending(stack')
      /\ Pending(stack') \subseteq Pending(stack) \cup fs
  BY <1>3, <1>6, <1>7, CallEffect
<1>9. Graph'
  BY <1>2 DEF Graph, In
<1>10. status' = IF stack' = << >> THEN "completed" ELSE "running"
  BY <1>6 DEF Call
<1>11. Len(stack') <= MaxDepth + 2 /\ visits' \in 0 .. MaxVisits /\ stack' \in Seq(SUBSET (edges \cup {Trigger}))'
  <2>1. Len(stack) \in Nat /\ Len(stack') \in Nat
    BY <1>3, <1>8
  <2>2. Len(stack') <= MaxDepth + 2
    BY <1>1, <1>2, <1>8, <2>1
  <2>3. visits' \in 0 .. MaxVisits
    BY <1>1, <1>2 DEF WalkTypes
  <2>4. (edges \cup {Trigger})' = E
    BY <1>2, <1>e DEF Trigger
  <2> QED
    BY <1>8, <2>2, <2>3, <2>4
<1>12. had' = [had EXCEPT ![e.to] = IF Waits(e.to) THEN had[e.to] \cup {"waits"} ELSE had[e.to]]
  BY DEF SkipGate
<1>13. /\ had' \in [Node -> SUBSET {"true", "false", "error", "waits"}]
       /\ \A n \in Node : had[n] \subseteq had'[n]
  <2> DEFINE h == IF Waits(e.to) THEN had[e.to] \cup {"waits"} ELSE had[e.to]
  <2>1. had[e.to] \subseteq h /\ h \in SUBSET {"true", "false", "error", "waits"}
    BY <1>5 DEF WalkTypes
  <2> HIDE DEF h
  <2>2. had' = [had EXCEPT ![e.to] = h]
    BY <1>12 DEF h
  <2> QED
    BY <1>5, <2>1, <2>2 DEF WalkTypes
<1>14. WalkTypes'
  BY <1>2, <1>10, <1>11, <1>13 DEF WalkTypes
<1> QED
  BY <1>2, <1>4, <1>5, <1>8, <1>9, <1>13, <1>14, <1>f

\* The outcomes of a step that executes a node; a gate has always a result.
LEMMA WalkSteps ==
    ASSUME Graph, WalkTypes, WalkNext
    PROVE  \/ Fail
           \/ \E e \in Top : SkipGate(e)
           \/ \E e \in Top : \E o \in {"none", "true", "false", "error"} :
                 /\ Visit(e) /\ NodeRuns(e, o)
                 /\ o = "none" => kind[e.to] \in {"action", "fundCheck"}
                 /\ kind[e.to] \in Gate => result[e.to] = "none"
<1> SUFFICES ASSUME ~Fail, NEW e \in Top, status = "running", Walk(e), ~SkipGate(e)
             PROVE  \E o \in {"none", "true", "false", "error"} :
                       /\ Visit(e) /\ NodeRuns(e, o)
                       /\ o = "none" => kind[e.to] \in {"action", "fundCheck"}
                       /\ kind[e.to] \in Gate => result[e.to] = "none"
  BY DEF WalkNext
<1>1. CASE RunAction(e)
  BY <1>1 DEF RunAction, Gate
<1>2. CASE RunCheck(e)
  BY <1>2 DEF RunCheck, Checks, Outcome, Gate
<1>3. CASE Evaluate(e)
  <2>1. PICK v \in Combined(e.to) : NodeRuns(e, v)
    BY <1>3 DEF Evaluate
  <2>2. kind[e.to] \in Gate /\ Visit(e) /\ result[e.to] = "none"
    BY <1>3 DEF Evaluate
  <2>3. v \in {"true", "false"}
    BY <2>2 DEF Combined, Gate
  <2> QED
    BY <2>1, <2>2, <2>3
<1> QED
  BY <1>1, <1>2, <1>3 DEF Walk

LEMMA WalkInvInit == WalkInit => WalkInv
<1> SUFFICES ASSUME WalkInit PROVE WalkInv
  OBVIOUS
<1>1. N \in Nat \ {0} /\ MaxDepth \in Nat /\ MaxVisits \in Nat
  BY WalkAssumption DEF WalkAssumption
<1>2. PICK wires \in [Pair -> Wire] :
        /\ Valid(kind, wires)
        /\ edges = {[from |-> p[1], to |-> p[2], handle |-> wires[p]] : p \in {p \in Pair : wires[p] # "none"}}
  BY DEF WalkInit
<1>3. Graph
  <2>1. ASSUME NEW e \in edges
        PROVE  /\ e.from \in Node /\ e.to \in Node /\ e.handle \in Wire \ {"none"}
               /\ e.handle # "" => kind[e.from] \in Branching
    <3>1. PICK p \in Pair : wires[p] # "none" /\ e = [from |-> p[1], to |-> p[2], handle |-> wires[p]]
      BY <1>2, <2>1
    <3>2. p[1] \in Node /\ p[2] \in Node
      BY DEF Pair
    <3> QED
      BY <1>2, <3>1, <3>2 DEF Valid, Wire
  <2>2. ASSUME NEW g \in Node, kind[g] \in Gate PROVE In(g) # {}
    <3>1. g # 1
      BY <1>2, <2>2 DEF Valid, Gate
    <3>2. PICK p \in Pair : p[2] = g /\ wires[p] # "none"
      BY <1>2, <3>1 DEF Valid
    <3>3. [from |-> p[1], to |-> p[2], handle |-> wires[p]] \in edges
      BY <1>2, <3>2
    <3> QED
      BY <3>2, <3>3 DEF In
  <2> QED
    BY <2>1, <2>2 DEF Graph, WalkInit
<1>4. WalkTypes
  <2>1. stack = << {Trigger} >>
    BY DEF WalkInit, Trigger
  <2>2. stack \in Seq(SUBSET (edges \cup {Trigger})) /\ Len(stack) = 1 /\ stack # << >>
    BY <2>1
  <2>3. result \in [Node -> {"none", "true", "false"}] /\ ran \in [Node -> Nat]
    BY DEF WalkInit
  <2>4. had \in [Node -> SUBSET {"true", "false", "error", "waits"}]
    BY DEF WalkInit
  <2>5. visits = 0 /\ status = "running"
    BY DEF WalkInit
  <2>6. Len(stack) <= MaxDepth + 2 /\ visits \in 0 .. MaxVisits
    BY <1>1, <2>2, <2>5
  <2> QED
    BY <2>2, <2>3, <2>4, <2>5, <2>6 DEF WalkTypes
<1>5. ASSUME NEW g \in Node PROVE Once(g) /\ Reached(g)
  <2>1. ran[g] = 0 /\ result[g] = "none"
    BY DEF WalkInit
  <2>2. kind[g] \in Gate => Waits(g)
    BY <1>3 DEF WalkInit, Waits, Graph, In
  <2>3. ran[g] <= 1
    BY <2>1
  <2> QED
    BY <2>1, <2>2, <2>3 DEF Once, Reached
<1> QED
  BY <1>3, <1>4, <1>5 DEF WalkInv

LEMMA WalkInvNext == WalkInv /\ [WalkNext]_walkVars => WalkInv'
<1> SUFFICES ASSUME WalkInv, [WalkNext]_walkVars PROVE WalkInv'
  OBVIOUS
<1>0. Graph /\ WalkTypes /\ \A g \in Node : Once(g) /\ Reached(g)
  BY DEF WalkInv
<1>1. CASE Fail \/ UNCHANGED walkVars
  <2>1. UNCHANGED <<kind, edges, stack, result, ran, had, visits>> /\ (status' = status \/ status' = "failed")
    BY <1>1 DEF Fail, walkVars, graph
  <2>2. Graph' /\ WalkTypes'
    BY <1>0, <2>1 DEF Graph, WalkTypes, In, Trigger
  <2>3. ASSUME NEW g \in Node PROVE Once(g)' /\ Reached(g)'
    <3>1. Once(g) /\ Reached(g)
      BY <1>0
    <3>2. In(g)' = In(g) /\ Pending(stack)' = Pending(stack)
      BY <2>1 DEF In, Pending
    <3>3. Waits(g)' = Waits(g)
      BY <2>1, <3>2 DEF Waits
    <3> QED
      BY <2>1, <3>1, <3>2, <3>3 DEF Once, Reached
  <2> QED
    BY <2>2, <2>3 DEF WalkInv
<1>2. ASSUME NEW e \in Top, SkipGate(e) PROVE WalkInv'
  <2>1. Graph' /\ WalkTypes' /\ UNCHANGED <<kind, edges, ran, result>>
    BY <1>0, <1>2, SkipEffect
  <2>2. ASSUME NEW g \in Node PROVE Once(g)' /\ Reached(g)'
    <3>1. Once(g)'
      BY <1>0, <2>1, <2>2 DEF Once
    <3>2. SUFFICES ASSUME kind[g] \in Gate, ran[g] = 0, ~Waits(g), \A f \in In(g) : f.handle = ""
                   PROVE  \E f \in In(g) : f \in Pending(stack')
      BY <2>1, <3>1 DEF Reached, Waits, In, Pending
    <3>3. PICK f \in In(g) : f \in Pending(stack)
      BY <1>0, <2>2, <3>2 DEF Reached
    <3>4. Pending(stack) \ {e} \subseteq Pending(stack')
      BY <1>0, <1>2, SkipEffect
    <3>5. CASE f # e
      BY <3>3, <3>4, <3>5
    <3>6. CASE f = e
      \* A gate that has not fired and does not wait is not skipped.
      <4>1. e.to = g
        BY <3>3, <3>6 DEF In
      <4>2. result[g] # "none"
        BY <1>0, <1>2, <3>2, <4>1, SkipEffect
      <4>3. Once(g)
        BY <1>0
      <4> QED
        BY <3>2, <4>2, <4>3 DEF Once
    <3> QED
      BY <3>5, <3>6
  <2> QED
    BY <2>1, <2>2 DEF WalkInv
<1>3. ASSUME NEW e \in Top, NEW o \in {"none", "true", "false", "error"},
             Visit(e), NodeRuns(e, o),
             o = "none" => kind[e.to] \in {"action", "fundCheck"},
             kind[e.to] \in Gate => result[e.to] = "none"
      PROVE  WalkInv'
  <2>1. /\ e.to \in Node /\ Graph' /\ WalkTypes' /\ UNCHANGED <<kind, edges>>
        /\ ran' = [ran EXCEPT ![e.to] = @ + 1]
        /\ result' = IF o = "none" THEN result
                     ELSE [result EXCEPT ![e.to] = IF o = "error" THEN "false" ELSE o]
        /\ (Pending(stack) \ {e}) \cup Followed(e.to, o) \subseteq Pending(stack')
    BY <1>0, <1>3, RunsEffect
  <2>2. \A n \in Node : n # e.to => ran'[n] = ran[n] /\ result'[n] = result[n]
    BY <1>0, <2>1 DEF WalkTypes
  <2>3. /\ ran'[e.to] = ran[e.to] + 1 /\ ran[e.to] \in Nat
        /\ o # "none" => result'[e.to] # "none"
        /\ o = "none" => result'[e.to] = result[e.to]
    BY <1>0, <2>1 DEF WalkTypes
  <2>4. ASSUME NEW g \in Node PROVE Once(g)'
    <3>1. CASE g # e.to
      BY <1>0, <2>1, <2>2, <3>1 DEF Once
    <3>2. CASE g = e.to
      BY <1>0, <1>3, <2>1, <2>3, <3>2 DEF Once, Gate
    <3> QED
      BY <3>1, <3>2
  <2>5. ASSUME NEW g \in Node PROVE Reached(g)'
    <3>1. SUFFICES ASSUME kind[g] \in Gate, ran'[g] = 0, ~Waits(g)', \A f \in In(g) : f.handle = ""
                   PROVE  \E f \in In(g) : f \in Pending(stack')
      BY <2>1 DEF Reached, In, Pending
    <3>2. g # e.to /\ ran[g] = 0
      <4>1. ran'[g] = 0
        BY <3>1
      <4>2. g # e.to
        BY <2>3, <4>1
      <4> QED
        BY <2>2, <4>1, <4>2
    <3>3. CASE ~Waits(g)
      <4>1. PICK f \in In(g) : f \in Pending(stack)
        BY <1>0, <3>1, <3>2, <3>3 DEF Reached
      <4>2. f # e
        BY <3>2, <4>1 DEF In
      <4> QED
        BY <2>1, <4>1, <4>2
    <3>4. CASE Waits(g)
      \* The input it waited for is the node executed: its edge is followed.
      <4>1. PICK f \in In(g) : result[f.from] = "none"
        BY <3>4 DEF Waits
      <4>2. result'[f.from] # "none"
        BY <2>1, <3>1, <4>1 DEF Waits, In
      <4>3. f \in edges /\ f.from \in Node /\ f.from = e.to
        BY <1>0, <2>2, <4>1, <4>2 DEF Graph, In
      <4>4. f \in Followed(e.to, o)
        BY <1>0, <2>1, <3>1, <4>1, <4>3, FollowedEdges
      <4> QED
        BY <2>1, <4>1, <4>4
    <3> QED
      BY <3>3, <3>4
  <2> QED
    BY <2>1, <2>4, <2>5 DEF WalkInv
<1> QED
  BY <1>0, <1>1, <1>2, <1>3, WalkSteps

\* A gate that several paths reach is evaluated once in a run, in every graph
\* the validation lets through and whatever its nodes come out as
\* (_evaluate_logic_gate and its guard in execute_node_chain).
THEOREM GatesFireOnce == WalkSpec => []GateFiresOnce
<1>1. WalkInv => GateFiresOnce
  <2> SUFFICES ASSUME WalkInv PROVE GateFiresOnce
    OBVIOUS
  <2>1. Graph /\ WalkTypes /\ \A g \in Node : Once(g)
    BY DEF WalkInv
  <2>2. \A i \in 1 .. Len(stack) : stack[i] \subseteq edges \cup {[from |-> 0, to |-> 1, handle |-> ""]}
    <3>1. PICK E : E = edges \cup {Trigger}
      OBVIOUS
    <3>2. stack \in Seq(SUBSET E)
      BY <2>1, <3>1 DEF WalkTypes
    <3>3. \A i \in 1 .. Len(stack) : stack[i] \subseteq E
      BY <3>2
    <3> QED
      BY <3>1, <3>3 DEF Trigger
  <2>3. \A n \in Node : had[n] \subseteq {"true", "false", "error", "waits"}
    BY <2>1 DEF WalkTypes
  <2>4. WalkTypeOK
    BY <2>1, <2>2, <2>3 DEF Graph, WalkTypes, WalkTypeOK
  <2> QED
    BY <2>1, <2>4 DEF GateFiresOnce, Once
<1> QED
  BY <1>1, WalkInvInit, WalkInvNext, PTL DEF WalkSpec

\* "Skipping here is safe because the later input's own traversal reaches this
\* gate again": a completed run leaves no gate unevaluated that has a result
\* for each of its inputs, when these are wired without a branch.
THEOREM NoGateLeftBehind == WalkSpec => []GateReached
<1>a. \A r \in Nat : r # 0 => r > 0
  OBVIOUS
<1>b. 1 .. 0 = {}
  OBVIOUS
<1>1. WalkInv => GateReached
  <2> SUFFICES ASSUME WalkInv, status = "completed", NEW g \in Node,
                      kind[g] \in Gate, ~Waits(g), \A e \in In(g) : e.handle = ""
               PROVE  ran[g] > 0
    BY DEF GateReached
  <2>1. Reached(g) /\ ran[g] \in Nat /\ stack = << >>
    BY DEF WalkInv, WalkTypes
  <2>2. Pending(stack) = {}
    <3>0. Len(stack) = 0
      BY <2>1
    <3>1. 1 .. Len(stack) = {}
      BY <3>0, <1>b
    <3> QED
      BY <3>1 DEF Pending
  <2>3. ran[g] # 0
    BY <2>1, <2>2 DEF Reached
  <2> QED
    BY <2>1, <2>3, <1>a
<1> QED
  BY <1>1, WalkInvInit, WalkInvNext, PTL DEF WalkSpec

-----------------------------------------------------------------------------
\* Every edge still to follow, and one into every node executed, was opened.
Decided ==
    /\ \A f \in Pending(stack) : f = Trigger \/ (f \in edges /\ Opened(f))
    /\ \A n \in Node \ {1} : ran[n] > 0 => \E f \in In(n) : Opened(f)

LEMMA StaysOpened ==
    ASSUME Graph, WalkTypes, WalkTypes', \A n \in Node : ran[n] <= ran'[n] /\ had[n] \subseteq had'[n],
           NEW f \in edges, Opened(f)
    PROVE  Opened(f)'
<1>1. f.from \in Node
  BY DEF Graph
<1>2. ran[f.from] \in Nat /\ ran'[f.from] \in Nat /\ ran[f.from] <= ran'[f.from] /\ ran[f.from] > 0
  BY <1>1 DEF WalkTypes, Opened
<1>3. ran'[f.from] > 0
  BY <1>2
<1> QED
  BY <1>1, <1>3 DEF Opened

LEMMA DecidedNext ==
    ASSUME "fundCheck" \notin Kinds, Graph, WalkTypes, Decided, [WalkNext]_walkVars
    PROVE  Decided'
<1>1. CASE Fail \/ UNCHANGED walkVars
  <2>1. UNCHANGED <<kind, edges, stack, ran, had>>
    BY <1>1 DEF Fail, walkVars, graph
  <2>2. Pending(stack)' = Pending(stack) /\ \A n \in Node : In(n)' = In(n)
    BY <2>1 DEF In, Pending
  <2>3. \A f : Opened(f)' = Opened(f)
    BY <2>1 DEF Opened
  <2>4. \A f \in Pending(stack)' : f = Trigger' \/ (f \in edges' /\ Opened(f)')
    BY <2>1, <2>2, <2>3 DEF Decided, Trigger
  <2>5. \A n \in Node \ {1} : ran'[n] > 0 => \E f \in In(n)' : Opened(f)'
    BY <2>1, <2>2, <2>3 DEF Decided
  <2> QED
    BY <2>4, <2>5 DEF Decided
<1>2. ASSUME NEW e \in Top, SkipGate(e) PROVE Decided'
  <2>1. /\ WalkTypes' /\ UNCHANGED <<kind, edges, ran, result>>
        /\ \A n \in Node : had[n] \subseteq had'[n]
        /\ Pending(stack') \subseteq Pending(stack)
    BY <1>2, SkipEffect
  <2>2. \A n \in Node : ran[n] <= ran'[n]
    BY <2>1 DEF WalkTypes
  <2>3. \A f \in edges : Opened(f) => Opened(f)'
    BY <2>1, <2>2, StaysOpened
  <2>4. \A n \in Node : In(n)' = In(n) /\ In(n) \subseteq edges
    BY <2>1 DEF In
  <2>5. \A f \in Pending(stack') : f = Trigger \/ (f \in edges /\ Opened(f)')
    BY <2>1, <2>3 DEF Decided
  <2>6. \A n \in Node \ {1} : ran'[n] > 0 => \E f \in In(n)' : Opened(f)'
    BY <2>1, <2>3, <2>4 DEF Decided
  <2> QED
    BY <2>1, <2>5, <2>6 DEF Decided, Trigger, Pending
<1>3. ASSUME NEW e \in Top, NEW o \in {"none", "true", "false", "error"},
             Visit(e), NodeRuns(e, o), o = "none" => kind[e.to] \in {"action", "fundCheck"}
      PROVE  Decided'
  <2>1. /\ e.to \in Node /\ (e \in edges \/ e = Trigger) /\ e \in Pending(stack)
        /\ WalkTypes' /\ UNCHANGED <<kind, edges>>
        /\ ran' = [ran EXCEPT ![e.to] = @ + 1]
        /\ had' = [had EXCEPT ![e.to] = @ \cup ({o} \ {"none"})]
        /\ Pending(stack') \subseteq Pending(stack) \cup Followed(e.to, o)
    BY <1>3, RunsEffect
  <2>2. /\ \A n \in Node : ran[n] <= ran'[n] /\ had[n] \subseteq had'[n]
        /\ ran'[e.to] > 0 /\ (o # "none" => o \in had'[e.to])
        /\ \A n \in Node : n # e.to => ran'[n] = ran[n]
    BY <2>1 DEF WalkTypes
  <2>3. \A f \in edges : Opened(f) => Opened(f)'
    BY <2>1, <2>2, StaysOpened
  <2>4. ASSUME NEW f \in Followed(e.to, o) PROVE f \in edges /\ Opened(f)'
    <3>1. f \in edges /\ f.from = e.to /\ (o = "none" \/ f.handle = "" \/ f.handle = o)
      <4>2. \A d \in Followed(e.to, o) : d \in edges /\ d.from = e.to /\ (o = "none" \/ d.handle = "" \/ d.handle = o)
        BY DEF Followed, Out
      <4> QED
        BY <2>4, <4>2
    <3>2. CASE o = "none"
      <4>1. kind[e.to] \in Kinds
        BY <2>1 DEF Graph
      <4>2. kind[f.from] = "action"
        BY <1>3, <3>1, <3>2, <4>1
      <4>3. kind[f.from] \notin Branching
        BY <4>2 DEF Branching, Gate, Checks
      <4>4. f.handle = ""
        BY <3>1, <4>3 DEF Graph
      <4> QED
        BY <2>2, <3>1, <4>4 DEF Opened
    <3>3. CASE o # "none"
      BY <2>2, <3>1, <3>3 DEF Opened
    <3> QED
      BY <3>2, <3>3
  <2>5. ASSUME NEW f \in Pending(stack') PROVE f = Trigger \/ (f \in edges /\ Opened(f)')
    <3>1. CASE f \in Pending(stack)
      BY <2>3, <3>1 DEF Decided
    <3>2. CASE f \in Followed(e.to, o)
      BY <2>4, <3>2
    <3> QED
      BY <2>1, <2>5, <3>1, <3>2
  <2>6. ASSUME NEW n \in Node \ {1}, ran'[n] > 0 PROVE \E f \in In(n) : Opened(f)'
    <3>1. CASE n = e.to
      <4>0. Trigger.to = 1
        BY DEF Trigger
      <4>1. e # Trigger
        BY <3>1, <4>0
      <4>2. e \in edges /\ Opened(e)
        BY <2>1, <4>1 DEF Decided
      <4> QED
        BY <2>3, <3>1, <4>2 DEF In
    <3>2. CASE n # e.to
      <4>1. ran[n] > 0
        BY <2>2, <2>6, <3>2
      <4>2. PICK f \in In(n) : Opened(f)
        BY <4>1 DEF Decided
      <4> QED
        BY <2>3, <4>2 DEF In
    <3> QED
      BY <3>1, <3>2
  <2>7. \A n \in Node : In(n)' = In(n)
    BY <2>1 DEF In
  <2> QED
    BY <2>1, <2>5, <2>6, <2>7 DEF Decided, Trigger, Pending
<1> QED
  BY <1>1, <1>2, <1>3, WalkSteps

\* Through any nesting of conditions, gates and joins a node is executed only
\* along an edge whose condition came out that way (execute_node_chain's
\* filter on sourceHandle), in graphs without a fund check saved with a legacy
\* operator, which answers an error without a condition.
THEOREM OnlyOpenedBranches ==
    ASSUME "fundCheck" \notin Kinds
    PROVE  WalkSpec => []BranchesAreDecided
<1>1. WalkInit => Decided
  <2> SUFFICES ASSUME WalkInit PROVE Decided
    OBVIOUS
  <2>1. stack = << {Trigger} >> /\ \A n \in Node : ran[n] = 0
    BY DEF WalkInit, Trigger
  <2>2. Len(stack) = 1 /\ stack[1] = {Trigger}
    BY <2>1
  <2>3. Pending(stack) = {Trigger}
    BY <2>2 DEF Pending
  <2> QED
    BY <2>1, <2>3 DEF Decided
<1>2. WalkInv /\ Decided /\ [WalkNext]_walkVars => Decided'
  BY DecidedNext DEF WalkInv
<1>3. Decided => BranchesAreDecided
  BY DEF Decided, BranchesAreDecided, Opened
<1> QED
  BY <1>1, <1>2, <1>3, WalkInvInit, WalkInvNext, PTL DEF WalkSpec

=============================================================================
