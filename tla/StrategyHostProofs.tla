------------------------- MODULE StrategyHostProofs -------------------------
(***************************************************************************)
(* That a strategy trades with one process, to which a record leads, for   *)
(* any number of strategies and threads, through crashes and processes     *)
(* that cannot be killed, and beside any the server may not inspect.       *)
(***************************************************************************)
EXTENDS StrategyHost, FiniteSetTheorems, TLAPS

\* Threads, by what they do and where they are.
Restoring == {"init", "login"}
Op == {"start", "stop", "delete", "job", "enforce", "daily", "pending"} \cup Restoring
Working == {"start", "popen", "stop", "kill"}
Pc == {"idle", "stopped", "delete", "sweep", "resumed", "paused", "restarted", "restore",
       "loaded", "pending", "tried"} \cup Working
OnStrategy == Working \cup {"stopped", "delete", "resumed", "paused", "restarted", "tried"}

State == [op : Op \cup {"none"}, pc : Pc, s : Strategy \cup {"none"}, pid : 0 .. MaxPids,
          todo : SUBSET Strategy, was : SUBSET Strategy,
          res : {"none", "ok", "other", "contracts", "table", "pid"}, dirty : BOOLEAN]

\* A thread that works on a strategy knows which, and for whom it does.
Proper ==
    {h \in State : /\ h.todo \subseteq h.was
                   /\ h.pc \in OnStrategy => h.s \in Strategy
                   /\ h.pc # "idle" => h.op # "none"
                   /\ h.pc = "popen" => h.pid # 0
                   /\ h.pc \in {"resumed", "paused", "stopped", "tried", "sweep", "pending"}
                         => h.op \notin Restoring
                   /\ h.pc \in {"restore", "restarted", "loaded"} => h.op \in Restoring
                   /\ h.op = "delete" => h.pc \in {"stop", "kill", "delete"}
                   /\ h.pc = "delete" => h.op = "delete"}

\* A record of a strategy that runs has its process, and no other has one.
Settled(c) ==
    /\ c.running <=> c.pid # 0
    /\ ~c.exists => c.pid = 0
    /\ c.error # "none" => c.pid = 0

Shape ==
    /\ proc \in [Pid -> Strategy \cup {"none"}]
    /\ table \in [Strategy -> 0 .. MaxPids]
    /\ config \in [Strategy -> {c \in Config : Settled(c)}]
    /\ disk \in [Strategy -> {c \in Config : Settled(c)}]
    /\ lock \in Thread \cup {"none"}
    /\ initialized \in BOOLEAN /\ armed \in BOOLEAN
    /\ th \in [Thread -> Proper]
    /\ events \in 0 .. MaxEvents
    /\ lost \subseteq Pid
    /\ misled \subseteq Strategy

\* Who has the lock.
Locks(t) == th[t].pc \in {"popen", "kill"} \/ th[t].op = "delete" => lock = t

\* What the table and a live process on record say is the same.
Agree(s) == table[s] # 0 /\ Alive(config[s].pid) => table[s] = config[s].pid

\* A live process on record, and not lost, that the table does not have: only
\* before a restoration.
Ours(p) == Alive(p) /\ p \notin lost
Wild(s) == table[s] = 0 /\ Ours(config[s].pid)
Tamed ==
    initialized \/ armed \/ (\E t \in Thread : th[t].op \in Restoring)
      => \A s \in Strategy : ~Wild(s)

\* A strategy has no process when one is started for it, but the one being
\* started; the one that is being stopped is its only one; and one that is being
\* deleted has none.
Alone(t) ==
    LET h == th[t] IN
    /\ h.pc = "start" => ~Wild(h.s)
    /\ h.pc = "popen" => config[h.s].exists
    /\ h.pc \in {"popen", "kill"} => Of(h.s) \subseteq {h.pid}
    /\ h.pc = "delete" => Of(h.s) = {}

\* Where a process that runs is known.
Known(s, p) ==
    \/ \E t \in Thread : At(t, "popen") /\ th[t].s = s /\ th[t].pid = p
    \/ table[s] = p
    \/ config[s].pid = p

Inv ==
    /\ Shape
    /\ Tamed
    /\ \A t \in Thread : Locks(t) /\ Alone(t)
    /\ \A s \in Strategy : Agree(s) /\ \A p \in Of(s) : Known(s, p)

Records == [Strategy -> {c \in Config : Settled(c)}]
SameProcess ==
    \A s \in Strategy : config'[s].pid = config[s].pid /\ config'[s].exists = config[s].exists

-----------------------------------------------------------------------------
\* What Inv says of each thread, strategy and live process.
LEMMA ThreadIs ==
    ASSUME Inv, NEW t \in Thread
    PROVE  /\ th[t] \in Proper /\ th[t] \in State
           /\ Locks(t) /\ Alone(t)
           /\ th[t].pc \in OnStrategy => th[t].s \in Strategy
           /\ t # "none"
BY HostAssumption DEF Inv, Shape, Proper

LEMMA RecordIs ==
    ASSUME Inv, NEW s \in Strategy
    PROVE  /\ config[s] \in Config /\ Settled(config[s])
           /\ disk[s] \in Config /\ Settled(disk[s])
           /\ config[s].pid \in 0 .. MaxPids /\ table[s] \in 0 .. MaxPids
           /\ Agree(s)
           /\ s # "none"
BY HostAssumption DEF Inv, Shape, Config

LEMMA LiveIs ==
    ASSUME Inv, NEW s \in Strategy, NEW p \in Of(s)
    PROVE  /\ p \in Pid /\ p # 0 /\ p \notin lost /\ proc[p] = s /\ Alive(p) /\ Ours(p)
           /\ Known(s, p)
<1>1. p \in Pid /\ p \notin lost /\ proc[p] = s
    BY DEF Of
<1>2. p # 0
    BY <1>1, HostAssumption, SMT DEF Pid
<1> QED
    BY <1>1, <1>2, HostAssumption DEF Inv, Alive, Ours

\* Unless one is being started, the only process of a strategy is in the table
\* or, if it has no entry, under the pid on record.
LEMMA OnlyRecorded ==
    ASSUME Inv, NEW s \in Strategy, \A u \in Thread : At(u, "popen") => th[u].s # s
    PROVE  /\ table[s] # 0 => Of(s) \subseteq {table[s]}
           /\ table[s] = 0 => Of(s) \subseteq {config[s].pid}
BY LiveIs, RecordIs DEF Known, Agree, At

\* Nobody starts or stops a process while the lock is free or another's.
LEMMA NobodyElse ==
    ASSUME Inv, NEW t \in Thread, lock \in {"none", t}, NEW u \in Thread, u # t
    PROVE  th[u].pc \notin {"popen", "kill"} /\ th[u].op # "delete"
BY ThreadIs DEF Locks

LEMMA Records1 ==
    ASSUME Inv, NEW s \in Strategy, NEW c \in Config, Settled(c),
           config' = [config EXCEPT ![s] = c]
    PROVE  config' \in Records
BY DEF Inv, Shape, Records

LEMMA Saved ==
    ASSUME Inv, config' \in Records, NEW b \in BOOLEAN,
           Save \/ SaveIf(b) \/ UNCHANGED disk
    PROVE  disk' \in Records
BY DEF Inv, Shape, Records, Save, SaveIf

LEMMA InitInv == Init => Inv
<1> SUFFICES ASSUME Init PROVE Inv
    OBVIOUS
<1>1. 0 \in 0 .. MaxPids /\ 0 \in 0 .. MaxEvents
    BY HostAssumption, SMT
<1>2. NoThread \in Proper
    BY <1>1 DEF NoThread, Proper, State, Op, Pc, Working, OnStrategy, Restoring
<1>3. /\ [NoConfig EXCEPT !.exists = TRUE] \in Config
      /\ Settled([NoConfig EXCEPT !.exists = TRUE])
    BY <1>1 DEF NoConfig, Config, Error, Settled
<1>4. Shape
    BY <1>1, <1>2, <1>3 DEF Init, Shape
<1>5. \A s \in Strategy : config[s].pid = 0 /\ Of(s) = {}
    BY HostAssumption DEF Init, NoConfig, Of
<1>6. \A t \in Thread : Locks(t) /\ Alone(t)
    BY DEF Init, Locks, Alone, NoThread
<1>7. \A s \in Strategy : Agree(s) /\ \A p \in Of(s) : Known(s, p)
    BY <1>5 DEF Agree, Alive
<1>8. Tamed
    BY DEF Init, Tamed, NoThread, Restoring
<1> QED
    BY <1>4, <1>6, <1>7, <1>8 DEF Inv

-----------------------------------------------------------------------------
(* Steps that start and stop no process and leave the table and the pids on   *)
(* record as they are.                                                       *)

LEMMA QuietInv ==
    ASSUME Inv, NEW t \in Thread, NEW h \in Proper, th' = [th EXCEPT ![t] = h],
           th[t].pc # "popen",
           UNCHANGED <<proc, table, lost, events, misled>>,
           config' \in Records, disk' \in Records,
           SameProcess,
           lock' \in Thread \cup {"none"}, initialized' \in BOOLEAN, armed' \in BOOLEAN,
           \A u \in Thread \ {t} : lock = u => lock' = u,
           initialized' \/ armed' \/ h.op \in Restoring =>
               initialized \/ armed \/ (\E u \in Thread : th[u].op \in Restoring),
           h.pc = "kill" \/ h.op = "delete" => lock' = t,
           h.pc = "start" => ~Wild(h.s),
           h.pc # "popen",
           h.pc = "kill" => Of(h.s) \subseteq {h.pid},
           h.pc = "delete" => Of(h.s) = {}
    PROVE  Inv'
<1>1. Shape'
    BY DEF Inv, Shape, Records
<1>2. \A s \in Strategy : (Of(s))' = Of(s) /\ Wild(s)' = Wild(s) /\ Agree(s)' = Agree(s)
    BY DEF Of, Wild, Agree, Alive, Ours, SameProcess
<1>3. Tamed'
    BY <1>2 DEF Inv, Shape, Tamed
<1>4. ASSUME NEW u \in Thread PROVE Locks(u)' /\ Alone(u)'
  <2>1. CASE u = t
    <3>1. th'[u] = h
        BY <2>1 DEF Inv, Shape
    <3>2. Locks(u)'
        BY <2>1, <3>1 DEF Locks
    <3>3. h.pc \in {"start", "kill", "delete"} => h.s \in Strategy
        BY DEF Proper, OnStrategy, Working
    <3>4. Alone(u)'
        BY <1>2, <2>1, <3>1, <3>3 DEF Alone
    <3> QED
        BY <3>2, <3>4
  <2>2. CASE u # t
    <3>1. th'[u] = th[u] /\ Locks(u) /\ Alone(u)
        BY <2>2, ThreadIs DEF Inv, Shape
    <3>2. Locks(u)'
        BY <2>2, <3>1 DEF Locks
    <3>3. th[u].pc \in {"start", "popen", "kill", "delete"} => th[u].s \in Strategy
        BY ThreadIs DEF OnStrategy, Working
    <3>4. Alone(u)'
        BY <1>2, <3>1, <3>3 DEF Alone, SameProcess
    <3> QED
        BY <3>2, <3>4
  <2> QED
      BY <2>1, <2>2
<1>5. ASSUME NEW s \in Strategy, NEW p \in (Of(s))' PROVE Known(s, p)'
  <2>1. Known(s, p)
      BY <1>2, LiveIs
  <2>2. \A u \in Thread : At(u, "popen") => u # t /\ th'[u] = th[u]
      BY DEF At, Inv, Shape
  <2> QED
      BY <2>1, <2>2 DEF Known, At, SameProcess
<1> QED
    BY <1>1, <1>2, <1>3, <1>4, <1>5 DEF Inv

Results == {"none", "ok", "other", "contracts", "table", "pid"}

\* A start or a stop has returned: the thread goes on with what it was for.
LEMMA ReturnIs ==
    ASSUME Inv, NEW t \in Thread, th[t].pc \in Working, NEW res \in Results, Return(t, res)
    PROVE  \E h \in Proper :
              /\ th' = [th EXCEPT ![t] = h]
              /\ h.op = th[t].op \/ h.op = "none"
              /\ h.pc \in Pc \ Working
              /\ h.pc = "delete" => th[t].op = "delete" /\ h.s = th[t].s
<1>1. /\ th[t] \in State /\ th[t].op \in Op /\ th[t].s \in Strategy
      /\ th[t].todo \subseteq th[t].was
  <2>1. th[t].pc # "idle" /\ th[t].pc \in OnStrategy
      BY DEF Working, OnStrategy
  <2> QED
      BY <2>1, ThreadIs DEF Proper, State
<1>2. CASE Returned(t) = "idle"
  <2>1. NoThread \in Proper /\ NoThread.op = "none" /\ NoThread.pc = "idle"
    <3>1. 0 \in 0 .. MaxPids
        BY HostAssumption, SMT
    <3> QED
        BY <3>1 DEF NoThread, Proper, State, Op, Pc, Working, OnStrategy, Restoring
  <2>2. th' = [th EXCEPT ![t] = NoThread]
      BY <1>2 DEF Return, Inv, Shape
  <2> QED
      BY <2>1, <2>2 DEF Pc, Working
<1>3. CASE Returned(t) # "idle"
  <2> DEFINE h == [th[t] EXCEPT !.pc = Returned(t), !.res = res, !.pid = 0]
  <2>1. th' = [th EXCEPT ![t] = h]
      BY <1>3 DEF Return, Inv, Shape
  <2>2. /\ Returned(t) \in {"stopped", "delete", "resumed", "paused", "restarted", "tried"}
        /\ Returned(t) = "delete" <=> th[t].op = "delete"
        /\ Returned(t) = "restarted" <=> th[t].op \in Restoring
        /\ th[t].op # "none"
      BY <1>1, <1>3 DEF Returned, Op, Restoring
  <2>3. 0 \in 0 .. MaxPids
      BY HostAssumption, SMT
  <2>4. h \in State /\ h.pc = Returned(t) /\ h.op = th[t].op /\ h.s = th[t].s
        /\ h.todo = th[t].todo /\ h.was = th[t].was
      BY <1>1, <2>2, <2>3 DEF State, Pc, Results
  <2> HIDE DEF h
  <2>5. h \in Proper
      BY <1>1, <2>2, <2>4 DEF Proper, OnStrategy, Working
  <2> QED
      BY <2>1, <2>2, <2>4, <2>5 DEF Pc, Working
<1> QED
    BY <1>2, <1>3

\* A start or stop that changes nothing but the lock.
LEMMA ReturnInv ==
    ASSUME Inv, NEW t \in Thread, th[t].pc \in {"start", "stop"}, NEW res \in Results,
           Return(t, res), th[t].op = "delete" => Of(th[t].s) = {},
           UNCHANGED <<proc, table, config, disk, lock, initialized, armed, ghosts>>
    PROVE  Inv'
<1>1. PICK h \in Proper :
        /\ th' = [th EXCEPT ![t] = h]
        /\ h.op = th[t].op \/ h.op = "none"
        /\ h.pc \in Pc \ Working
        /\ h.pc = "delete" => th[t].op = "delete" /\ h.s = th[t].s
    BY ReturnIs DEF Working
<1>2. h.op = "delete" => lock' = t
    BY <1>1, ThreadIs DEF Locks, ghosts
<1>3. h.pc \notin {"start", "popen", "kill"} /\ (h.pc = "delete" => Of(h.s) = {})
    BY <1>1 DEF Working
<1>4. h.op \in Restoring => \E u \in Thread : th[u].op \in Restoring
    BY <1>1 DEF Restoring
<1>5. config' \in Records /\ disk' \in Records /\ lock' \in Thread \cup {"none"}
      /\ initialized' \in BOOLEAN /\ armed' \in BOOLEAN
    BY DEF Inv, Shape, Records, ghosts
<1> QED
    BY <1>1, <1>2, <1>3, <1>4, <1>5, QuietInv DEF ghosts, SameProcess

LEMMA RefuseInv ==
    ASSUME Inv, NEW t \in Thread, Refuse(t)
    PROVE  Inv'
<1>1. PICK res \in {"contracts", "other"} : Return(t, res)
    BY DEF Refuse
<1>2. th[t].op # "delete"
    BY ThreadIs DEF Refuse, At, Proper
<1> QED
    BY <1>1, <1>2, ReturnInv DEF Refuse, At, Results

\* A thread about to stop s, or to find that it does not run: nobody starts one.
LEMMA StopSees ==
    ASSUME Inv, NEW t \in Thread, At(t, "stop"), Free(t)
    PROVE  \A u \in Thread : th[u].pc # "popen"
BY NobodyElse DEF At, Free

LEMMA NotRunningInv ==
    ASSUME Inv, NEW t \in Thread, NotRunning(t)
    PROVE  Inv'
<1>1. th[t].s \in Strategy /\ th[t].pc = "stop"
    BY ThreadIs DEF NotRunning, At, OnStrategy, Working
<1>2. Of(th[t].s) \subseteq {config[th[t].s].pid}
    BY <1>1, StopSees, OnlyRecorded DEF NotRunning, At
<1>3. ~Ours(config[th[t].s].pid)
    BY DEF NotRunning, Seen, Ours, hidden
<1>4. Of(th[t].s) = {}
    BY <1>1, <1>2, <1>3, LiveIs
<1> QED
    BY <1>1, <1>4, ReturnInv DEF NotRunning, Results

LEMMA TerminateInv ==
    ASSUME Inv, NEW t \in Thread, Terminate(t)
    PROVE  Inv'
<1> DEFINE s == th[t].s
           res == IF table[s] # 0 THEN "table" ELSE "pid"
           pid == IF table[s] # 0 THEN table[s] ELSE config[s].pid
           h == [th[t] EXCEPT !.pc = "kill", !.res = res, !.pid = pid]
<1>1. s \in Strategy /\ th[t].pc = "stop" /\ Free(t)
    BY ThreadIs DEF Terminate, At, OnStrategy, Working
<1>2. Of(s) \subseteq {pid} /\ pid \in 0 .. MaxPids
    BY <1>1, StopSees, OnlyRecorded, RecordIs DEF At
<1>3. th' = [th EXCEPT ![t] = h] /\ lock' = t
    BY DEF Terminate, Inv, Shape
<1>4. /\ h \in State /\ h.pc = "kill" /\ h.pid = pid /\ h.s = s /\ h.op = th[t].op
      /\ h.todo = th[t].todo /\ h.was = th[t].was
    BY <1>2, ThreadIs, ZenonT(30) DEF State, Pc, Working
<1>5. th[t].op # "none"
    BY <1>1, ThreadIs DEF Proper, Working
<1> HIDE DEF h, pid, s
<1>6. h \in Proper
    BY <1>1, <1>4, <1>5, ThreadIs DEF Proper, OnStrategy, Working
<1>7. \A u \in Thread \ {t} : lock = u => lock' = u
    BY <1>1, ThreadIs DEF Free
<1>8. config' \in Records /\ disk' \in Records /\ initialized' \in BOOLEAN /\ armed' \in BOOLEAN
    BY DEF Terminate, Inv, Shape, Records
<1>9. h.op \in Restoring => \E u \in Thread : th[u].op \in Restoring
    BY <1>4
<1> QED
    BY <1>1, <1>2, <1>3, <1>4, <1>6, <1>7, <1>8, <1>9, QuietInv DEF Terminate, ghosts, SameProcess

\* Notes on a record leave alone whether it runs and as which process.
LEMMA NoteIs ==
    ASSUME Inv, NEW s \in Strategy, NEW b \in BOOLEAN,
           \/ UNCHANGED config
           \/ config' = [config EXCEPT ![s].stopped = b]
           \/ config' = [config EXCEPT ![s].paused = b]
           \/ config' = [config EXCEPT ![s].error = "none"]
    PROVE  config' \in Records /\ SameProcess
<1> DEFINE c == config[s]
<1>1. c \in Config /\ Settled(c)
    BY RecordIs
<1>2. ASSUME NEW d \in Config, Settled(d), d.pid = c.pid, d.exists = c.exists, config' = [config EXCEPT ![s] = d]
      PROVE  config' \in Records /\ SameProcess
    BY <1>2 DEF Inv, Shape, Records, SameProcess
<1>3. CASE UNCHANGED config
    BY <1>3 DEF Inv, Shape, Records, SameProcess
<1>4. CASE config' = [config EXCEPT ![s].stopped = b]
  <2> DEFINE d == [c EXCEPT !.stopped = b]
  <2>1. d \in Config /\ Settled(d) /\ d.pid = c.pid /\ d.exists = c.exists
      BY <1>1 DEF Config, Settled
  <2>2. config' = [config EXCEPT ![s] = d]
      BY <1>4 DEF Inv, Shape
  <2> HIDE DEF d
  <2> QED
      BY <1>2, <2>1, <2>2
<1>5. CASE config' = [config EXCEPT ![s].paused = b]
  <2> DEFINE d == [c EXCEPT !.paused = b]
  <2>1. d \in Config /\ Settled(d) /\ d.pid = c.pid /\ d.exists = c.exists
      BY <1>1 DEF Config, Settled
  <2>2. config' = [config EXCEPT ![s] = d]
      BY <1>5 DEF Inv, Shape
  <2> HIDE DEF d
  <2> QED
      BY <1>2, <2>1, <2>2
<1>6. CASE config' = [config EXCEPT ![s].error = "none"]
  <2> DEFINE d == [c EXCEPT !.error = "none"]
  <2>1. d \in Config /\ Settled(d) /\ d.pid = c.pid /\ d.exists = c.exists
      BY <1>1 DEF Config, Settled, Error
  <2>2. config' = [config EXCEPT ![s] = d]
      BY <1>6 DEF Inv, Shape
  <2> HIDE DEF d
  <2> QED
      BY <1>2, <2>1, <2>2
<1> QED
    BY <1>3, <1>4, <1>5, <1>6

LEMMA BlankThread == NoThread \in Proper /\ NoThread.op = "none" /\ NoThread.pc = "idle"
<1>1. 0 \in 0 .. MaxPids
    BY HostAssumption, SMT
<1> QED
    BY <1>1 DEF NoThread, Proper, State, Op, Pc, Working, OnStrategy, Restoring

\* A thread that stays as it is, is through, or takes up something that is
\* neither a kill nor a deletion.
LEMMA TurnInv ==
    ASSUME Inv, NEW t \in Thread, NEW h \in Proper, th' = [th EXCEPT ![t] = h],
           th[t].pc \notin {"popen", "kill"},
           h.pc \notin {"popen", "kill", "delete"}, h.op # "delete",
           h.op \in Restoring => th[t].op \in Restoring,
           h.pc = "start" => ~Wild(h.s),
           NEW s \in Strategy, NEW b \in BOOLEAN,
           \/ UNCHANGED config
           \/ config' = [config EXCEPT ![s].stopped = b]
           \/ config' = [config EXCEPT ![s].paused = b]
           \/ config' = [config EXCEPT ![s].error = "none"],
           NEW d \in BOOLEAN, Save \/ SaveIf(d) \/ UNCHANGED disk,
           initialized' \in BOOLEAN, armed' \in BOOLEAN,
           initialized' \/ armed' => initialized \/ armed \/ th[t].op \in Restoring,
           UNCHANGED <<proc, table, lock, ghosts>>
    PROVE  Inv'
<1>1. config' \in Records /\ SameProcess
    BY NoteIs
<1>2. disk' \in Records
    BY <1>1, Saved
<1>3. lock' \in Thread \cup {"none"}
    BY DEF Inv, Shape
<1> QED
    BY <1>1, <1>2, <1>3, QuietInv DEF ghosts

\* What Call, Loop and Rest make of a thread.
LEMMA CallIs ==
    ASSUME Inv, NEW t \in Thread, NEW op \in Op, NEW pc \in {"start", "stop", "delete"},
           NEW s \in Strategy, op = "delete" => pc # "start", pc = "delete" => op = "delete",
           Call(t, op, pc, s)
    PROVE  \E h \in Proper : /\ th' = [th EXCEPT ![t] = h]
                             /\ h.op = op /\ h.pc = pc /\ h.s = s
<1> DEFINE h == [NoThread EXCEPT !.op = op, !.pc = pc, !.s = s]
<1>1. /\ h \in State /\ h.op = op /\ h.pc = pc /\ h.s = s
      /\ h.todo = {} /\ h.was = {}
    BY BlankThread DEF NoThread, Proper, State, Pc, Working
<1>2. th' = [th EXCEPT ![t] = h]
    BY DEF Call
<1> HIDE DEF h
<1>3. op # "none"
    BY DEF Op, Restoring
<1>4. h \in Proper
    BY <1>1, <1>3 DEF Proper, OnStrategy, Working
<1> QED
    BY <1>1, <1>2, <1>4

LEMMA LoopIs ==
    ASSUME Inv, NEW t \in Thread, NEW op \in {"enforce", "daily", "pending"},
           NEW pc \in {"sweep", "pending"}, Loop(t, op, pc)
    PROVE  \E h \in Proper : th' = [th EXCEPT ![t] = h] /\ h.op = op /\ h.pc = pc
<1> DEFINE h == [NoThread EXCEPT !.op = op, !.pc = pc, !.todo = Existing, !.was = Existing]
<1>1. /\ h \in State /\ h.op = op /\ h.pc = pc /\ h.todo = Existing /\ h.was = Existing
    BY BlankThread DEF NoThread, Proper, State, Op, Pc, Existing
<1>2. th' = [th EXCEPT ![t] = h]
    BY DEF Loop
<1> HIDE DEF h
<1>3. h \in Proper
    BY <1>1 DEF Proper, OnStrategy, Working, Restoring
<1> QED
    BY <1>1, <1>2, <1>3

LEMMA RequestStartInv ==
    ASSUME Inv, NEW t \in Thread, NEW s \in Strategy, RequestStart(t, s)
    PROVE  Inv'
<1>1. th[t].pc = "idle" /\ initialized
    BY DEF RequestStart, Idle, At
<1>2. ~Wild(s)
    BY <1>1 DEF Inv, Tamed
<1>3. PICK h \in Proper :
        /\ th' = [th EXCEPT ![t] = h]
        /\ h = th[t] \/ (h.op = "start" /\ h.pc = "start" /\ h.s = s)
  <2>1. CASE UNCHANGED th
      BY <2>1, ThreadIs DEF Inv, Shape
  <2>2. CASE Call(t, "start", "start", s)
      BY <2>2, CallIs DEF Op
  <2> QED
      BY <2>1, <2>2 DEF RequestStart
<1>4. th[t].op # "delete"
    BY <1>1, ThreadIs DEF Proper
<1>5. /\ config' = [config EXCEPT ![s].stopped = FALSE] /\ SaveIf(config[s].stopped)
      /\ config[s].stopped \in BOOLEAN
      /\ UNCHANGED <<proc, table, lock, initialized, armed, ghosts>>
    BY RecordIs DEF RequestStart, Config
<1>6. initialized' \in BOOLEAN /\ armed' \in BOOLEAN /\ (initialized' \/ armed' => initialized \/ armed)
    BY <1>5 DEF Inv, Shape
<1>7. /\ h.pc \notin {"popen", "kill", "delete"} /\ h.op # "delete"
      /\ h.op \in Restoring => th[t].op \in Restoring
      /\ h.pc = "start" => ~Wild(h.s)
    BY <1>1, <1>2, <1>3, <1>4 DEF Restoring
<1> QED
    BY <1>1, <1>3, <1>5, <1>6, <1>7, TurnInv

LEMMA RequestStopInv ==
    ASSUME Inv, NEW t \in Thread, NEW s \in Strategy, RequestStop(t, s)
    PROVE  Inv'
<1>1. th[t].pc = "idle"
    BY DEF RequestStop, Idle, At
<1>2. th[t].op # "delete"
    BY <1>1, ThreadIs DEF Proper
<1>3. PICK h \in Proper :
        /\ th' = [th EXCEPT ![t] = h]
        /\ h = th[t] \/ (h.op = "stop" /\ h.pc = "stop")
  <2>1. CASE UNCHANGED th
      BY <2>1, ThreadIs DEF Inv, Shape
  <2>2. CASE Call(t, "stop", "stop", s)
      BY <2>2, CallIs DEF Op
  <2> QED
      BY <2>1, <2>2 DEF RequestStop
<1>4. /\ UNCHANGED config \/ config' = [config EXCEPT ![s].stopped = TRUE]
      /\ Save \/ UNCHANGED disk
      /\ UNCHANGED <<proc, table, lock, initialized, armed, ghosts>>
    BY DEF RequestStop
<1>5. initialized' \in BOOLEAN /\ armed' \in BOOLEAN /\ (initialized' \/ armed' => initialized \/ armed)
    BY <1>4 DEF Inv, Shape
<1>6. /\ h.pc \notin {"popen", "kill", "delete", "start"} /\ h.op # "delete"
      /\ h.op \in Restoring => th[t].op \in Restoring
    BY <1>1, <1>2, <1>3 DEF Restoring
<1> QED
    BY <1>1, <1>3, <1>4, <1>5, <1>6, TurnInv

LEMMA MarkInv ==
    ASSUME Inv, NEW t \in Thread, NEW s \in Strategy, MarkStopped(t) \/ ClearError(t, s)
    PROVE  Inv'
<1>1. th[t].pc \in {"stopped", "idle"}
    BY DEF MarkStopped, ClearError, Idle, At
<1>2. PICK r \in Strategy :
        /\ \/ UNCHANGED config
           \/ config' = [config EXCEPT ![r].stopped = TRUE]
           \/ config' = [config EXCEPT ![r].error = "none"]
        /\ Save \/ UNCHANGED disk
        /\ UNCHANGED <<proc, table, lock, initialized, armed, ghosts>>
  <2>1. CASE MarkStopped(t)
    <3>1. th[t].s \in Strategy
        BY <2>1, ThreadIs DEF MarkStopped, At, OnStrategy
    <3> QED
        BY <2>1, <3>1 DEF MarkStopped
  <2>2. CASE ClearError(t, s)
      BY <2>2 DEF ClearError
  <2> QED
      BY <2>1, <2>2
<1>3. PICK h \in Proper : th' = [th EXCEPT ![t] = h] /\ h.pc = "idle"
  <2>1. CASE UNCHANGED th /\ th[t].pc = "idle"
      BY <2>1, ThreadIs DEF Inv, Shape
  <2>2. CASE Rest(t)
      BY <2>2, BlankThread DEF Rest
  <2> QED
      BY <2>1, <2>2 DEF MarkStopped, ClearError, Idle, At
<1>4. h.op # "delete" /\ (h.op \in Restoring => th[t].op \in Restoring)
  <2>1. h = th[t] \/ h = NoThread
      BY <1>3 DEF MarkStopped, ClearError, Rest, Inv, Shape
  <2> QED
      BY <1>3, <2>1, BlankThread DEF Proper, Restoring
<1>5. initialized' \in BOOLEAN /\ armed' \in BOOLEAN /\ (initialized' \/ armed' => initialized \/ armed)
    BY <1>2 DEF Inv, Shape
<1> QED
    BY <1>1, <1>2, <1>3, <1>4, <1>5, TurnInv

LEMMA RequestDeleteInv ==
    ASSUME Inv, NEW t \in Thread, NEW s \in Strategy, RequestDelete(t, s)
    PROVE  Inv'
<1>1. th[t].pc = "idle" /\ lock = "none" /\ lock' = t
    BY DEF RequestDelete, Idle, At
<1>2. \A u \in Thread : th[u].pc # "popen"
    BY <1>1, NobodyElse, ThreadIs
<1>3. PICK pc \in {"stop", "delete"} :
        /\ Call(t, "delete", pc, s)
        /\ pc = "delete" => table[s] = 0 /\ ~config[s].running
    BY DEF RequestDelete
<1>4. PICK h \in Proper :
        /\ th' = [th EXCEPT ![t] = h]
        /\ h.op = "delete" /\ h.pc = pc /\ h.s = s
    BY <1>3, CallIs DEF Op
<1>5. pc = "delete" => Of(s) = {}
  <2>1. ~config[s].running => config[s].pid = 0
      BY RecordIs DEF Settled
  <2>2. table[s] = 0 => Of(s) \subseteq {config[s].pid}
      BY <1>2, OnlyRecorded DEF At
  <2> QED
      BY <1>3, <2>1, <2>2, LiveIs
<1>6. /\ config' \in Records /\ disk' \in Records /\ initialized' \in BOOLEAN /\ armed' \in BOOLEAN
      /\ SameProcess
      /\ UNCHANGED <<proc, table, lost, events, misled, initialized, armed>>
    BY DEF RequestDelete, ghosts, Inv, Shape, Records, SameProcess
<1>7. h.op \notin Restoring
    BY <1>4 DEF Restoring
<1> QED
    BY <1>1, <1>3, <1>4, <1>5, <1>6, <1>7, ThreadIs, QuietInv

-----------------------------------------------------------------------------
(* Jobs and restorations, as far as they are quiet. *)

\* A thread that does not delete goes on in its loop, to a start or to a stop.
LEMMA GoOnInv ==
    ASSUME Inv, NEW t \in Thread, th[t].pc \notin {"idle", "popen", "kill"}, th[t].op # "delete",
           NEW todo \in SUBSET th[t].todo, NEW r \in Strategy \cup {"none"},
           NEW res \in Results, NEW dirty \in BOOLEAN,
           NEW pc \in {"start", "stop", "sweep", "pending", "restore"},
           pc \in {"start", "stop"} => r \in Strategy,
           pc = "start" => ~Wild(r),
           pc \in {"sweep", "pending"} => th[t].op \notin Restoring,
           pc = "restore" => th[t].op \in Restoring,
           th' = [th EXCEPT ![t] = [th[t] EXCEPT !.todo = todo, !.s = r, !.pc = pc,
                                                 !.res = res, !.dirty = dirty]],
           config' \in Records, SameProcess,
           UNCHANGED <<proc, table, disk, lock, initialized, armed, ghosts>>
    PROVE  Inv'
<1> DEFINE h == [th[t] EXCEPT !.todo = todo, !.s = r, !.pc = pc, !.res = res, !.dirty = dirty]
<1>1. th[t] \in State /\ th[t].todo \subseteq th[t].was /\ th[t].op # "none"
    BY ThreadIs DEF Proper
<1>2. todo \in SUBSET Strategy /\ pc \in Pc
    BY <1>1 DEF State, Pc, Working
<1>3. /\ h \in State /\ h.op = th[t].op /\ h.pc = pc /\ h.s = r /\ h.todo = todo
      /\ h.was = th[t].was
    BY <1>1, <1>2 DEF State, Results
<1>4. th' = [th EXCEPT ![t] = h]
    OBVIOUS
<1> HIDE DEF h
<1>5. h \in Proper
    BY <1>1, <1>3 DEF Proper, OnStrategy, Working
<1>6. /\ initialized' \in BOOLEAN /\ armed' \in BOOLEAN /\ (initialized' \/ armed' => initialized \/ armed)
      /\ disk' \in Records /\ lock' \in Thread \cup {"none"}
    BY DEF Inv, Shape, Records
<1>7. h.pc \notin {"popen", "kill", "delete"} /\ h.op # "delete"
    BY <1>3
<1>8. h.op \in Restoring => \E u \in Thread : th[u].op \in Restoring
    BY <1>3
<1> QED
    BY <1>3, <1>4, <1>5, <1>6, <1>7, <1>8, QuietInv DEF ghosts

LEMMA ScheduledInv ==
    ASSUME Inv, NEW t \in Thread, NEW s \in Strategy,
           ScheduledStart(t, s) \/ ScheduledStop(t, s)
    PROVE  Inv'
<1>1. th[t].pc = "idle" /\ armed
    BY DEF ScheduledStart, ScheduledStop, Idle, At
<1>2. ~Wild(s)
    BY <1>1 DEF Inv, Tamed
<1>3. PICK h \in Proper :
        /\ th' = [th EXCEPT ![t] = h]
        /\ h = th[t] \/ (h.op = "job" /\ h.pc \in {"start", "stop"} /\ h.s = s)
  <2>1. CASE UNCHANGED th
      BY <2>1, ThreadIs DEF Inv, Shape
  <2>2. CASE Call(t, "job", "start", s) \/ Call(t, "job", "stop", s)
      BY <2>2, CallIs DEF Op
  <2> QED
      BY <2>1, <2>2 DEF ScheduledStart, ScheduledStop
<1>4. th[t].op # "delete"
    BY <1>1, ThreadIs DEF Proper
<1>5. PICK b \in BOOLEAN :
        /\ UNCHANGED config \/ config' = [config EXCEPT ![s].paused = b]
        /\ Save \/ UNCHANGED disk
        /\ UNCHANGED <<proc, table, lock, initialized, armed, ghosts>>
    BY DEF ScheduledStart, ScheduledStop
<1>6. initialized' \in BOOLEAN /\ armed' \in BOOLEAN /\ (initialized' \/ armed' => initialized \/ armed)
    BY <1>5 DEF Inv, Shape
<1>7. /\ h.pc \notin {"popen", "kill", "delete"} /\ h.op # "delete"
      /\ h.op \in Restoring => th[t].op \in Restoring
      /\ h.pc = "start" => ~Wild(h.s)
    BY <1>1, <1>2, <1>3, <1>4 DEF Restoring
<1> QED
    BY <1>1, <1>3, <1>5, <1>6, <1>7, TurnInv

LEMMA SweepInv ==
    ASSUME Inv, NEW t \in Thread, Sweep(t) \/ StartPending(t) \/ Arm(t)
    PROVE  Inv'
<1>1. th[t].pc \in {"idle", "loaded"} /\ (Arm(t) => th[t].op \in Restoring)
    BY DEF Sweep, StartPending, Arm, Idle, At, Restoring
<1>2. PICK h \in Proper :
        /\ th' = [th EXCEPT ![t] = h]
        /\ h.op \in {"none", "enforce", "daily", "pending"}
        /\ h.pc \in {"idle", "sweep", "pending"}
  <2>1. CASE Rest(t)
      BY <2>1, BlankThread DEF Rest
  <2>2. CASE \E op \in {"enforce", "daily"} : Loop(t, op, "sweep")
      BY <2>2, LoopIs
  <2>3. CASE Loop(t, "pending", "pending")
      BY <2>3, LoopIs
  <2> QED
      BY <2>1, <2>2, <2>3 DEF Sweep, StartPending, Arm
<1>3. /\ UNCHANGED config
      /\ SaveIf(Existing # {}) \/ UNCHANGED disk
      /\ UNCHANGED <<proc, table, lock, initialized, ghosts>>
      /\ armed' = armed \/ (armed' = TRUE /\ th[t].op \in Restoring)
    BY <1>1 DEF Sweep, StartPending, Arm
<1>4. initialized' \in BOOLEAN /\ armed' \in BOOLEAN
    BY <1>3 DEF Inv, Shape
<1>5. h.op # "delete" /\ h.op \notin Restoring
    BY <1>2 DEF Restoring
<1>6. config' \in Records /\ SameProcess
    BY <1>3 DEF Inv, Shape, Records, SameProcess
<1>7. disk' \in Records
  <2>1. (Existing # {}) \in BOOLEAN
      OBVIOUS
  <2> QED
      BY <1>3, <1>6, <2>1, Saved
<1>8. /\ UNCHANGED <<proc, table, lost, events, misled>> /\ lock' \in Thread \cup {"none"}
      /\ \A u \in Thread \ {t} : lock = u => lock' = u
      /\ h.pc \notin {"start", "popen", "kill", "delete"}
    BY <1>2, <1>3 DEF ghosts, Inv, Shape
<1>9. initialized' \/ armed' \/ h.op \in Restoring =>
          initialized \/ armed \/ (\E u \in Thread : th[u].op \in Restoring)
    BY <1>3, <1>5
<1>10. th[t].pc # "popen" /\ th' = [th EXCEPT ![t] = h]
    BY <1>1, <1>2
<1> QED
    BY <1>4, <1>5, <1>6, <1>7, <1>8, <1>9, <1>10, QuietInv

LEMMA LoopInv ==
    ASSUME Inv, NEW t \in Thread, NEW s \in Strategy,
           Closed(t, s) \/ Open(t, s) \/ Restart(t, s) \/ Try(t, s)
    PROVE  Inv'
<1> DEFINE h == th[t]
           todo == h.todo \ {s}
<1>1. /\ h.pc \in {"sweep", "restore", "pending"} /\ h.op # "delete"
      /\ h.pc \in {"sweep", "pending"} => h.op \notin Restoring
      /\ h.pc = "restore" => h.op \in Restoring
      /\ h \in State
  <2>1. h.pc \in {"sweep", "restore", "pending"}
      BY DEF Closed, Open, Restart, Try, At
  <2> QED
      BY <2>1, ThreadIs DEF Proper
<1>2. /\ todo \in SUBSET h.todo /\ h.res \in Results /\ h.dirty \in BOOLEAN
      /\ h.s \in Strategy \cup {"none"} /\ "none" \in Results
    BY <1>1 DEF State, Results
<1>3. /\ config' \in Records /\ SameProcess
      /\ UNCHANGED <<proc, table, disk, lock, initialized, armed, ghosts>>
    BY NoteIs DEF Closed, Open, Restart, Try
\* The step to the next strategy, to a start or stop of this one.
<1>4. ASSUME NEW r \in {s, h.s, "none"}, NEW res \in {h.res, "none"}, NEW dirty \in BOOLEAN,
             NEW pc \in {"start", "stop", h.pc}, pc \in {"start", "stop"} => r = s,
             pc = "start" => ~Wild(s),
             th' = [th EXCEPT ![t] = [h EXCEPT !.todo = todo, !.s = r, !.pc = pc, !.res = res, !.dirty = dirty]]
      PROVE  Inv'
  <2>1. /\ r \in Strategy \cup {"none"} /\ res \in Results
        /\ pc \in {"start", "stop", "sweep", "pending", "restore"}
        /\ pc \in {"start", "stop"} => r \in Strategy
        /\ pc = "start" => ~Wild(r)
        /\ pc \in {"sweep", "pending"} => h.op \notin Restoring
        /\ pc = "restore" => h.op \in Restoring
      BY <1>1, <1>2, <1>4
  <2>2. h.pc \notin {"idle", "popen", "kill"}
      BY <1>1
  <2> HIDE DEF h, todo
  <2> QED
      BY <1>1, <1>2, <1>3, <1>4, <2>1, <2>2, GoOnInv, ZenonT(30) DEF h
<1>5. CASE Closed(t, s)
  <2>0. PICK z \in hidden :
          th' = [th EXCEPT ![t].todo = @ \ {s},
                           ![t].s = IF IsRunning(s, z) THEN s ELSE "none",
                           ![t].pc = IF IsRunning(s, z) THEN "stop" ELSE @]
      BY <1>5 DEF Closed
  <2> DEFINE r == IF IsRunning(s, z) THEN s ELSE "none"
             pc == IF IsRunning(s, z) THEN "stop" ELSE h.pc
  <2>1. th' = [th EXCEPT ![t] = [h EXCEPT !.todo = todo, !.s = r, !.pc = pc,
                                          !.res = h.res, !.dirty = h.dirty]]
      BY <1>1, <2>0 DEF Inv, Shape, State
  <2>2. /\ r \in {s, h.s, "none"} /\ pc \in {"start", "stop", h.pc}
        /\ pc \in {"start", "stop"} => r = s
        /\ pc # "start"
      BY <1>1
  <2> HIDE DEF r, pc, todo
  <2> QED
      BY <1>2, <1>4, <2>1, <2>2
<1>6. CASE Open(t, s)
  <2>1. CASE /\ \E z \in hidden : ~IsRunning(s, z)
             /\ th' = [th EXCEPT ![t].todo = @ \ {s}, ![t].s = s, ![t].pc = "start", ![t].res = "none"]
    <3>1. th' = [th EXCEPT ![t] = [h EXCEPT !.todo = todo, !.s = s, !.pc = "start",
                                            !.res = "none", !.dirty = h.dirty]]
        BY <1>1, <2>1 DEF Inv, Shape, State
    <3>2. ~Wild(s)
        BY <2>1 DEF IsRunning, Wild, Ours, Seen, hidden
    <3> HIDE DEF todo
    <3> QED
        BY <1>2, <1>4, <3>1, <3>2
  <2>2. CASE th' = [th EXCEPT ![t].todo = @ \ {s},
                              ![t].dirty = @ \/ (th[t].op = "enforce" /\ config[s].paused)]
    <3> DEFINE d == h.dirty \/ (h.op = "enforce" /\ config[s].paused)
    <3>1. th' = [th EXCEPT ![t] = [h EXCEPT !.todo = todo, !.s = h.s, !.pc = h.pc,
                                            !.res = h.res, !.dirty = d]]
        BY <1>1, <2>2 DEF Inv, Shape, State
    <3>2. d \in BOOLEAN
        OBVIOUS
    <3> HIDE DEF d, todo
    <3>3. h.pc \notin {"start", "stop"}
        BY <1>1
    <3> QED
        BY <1>2, <1>4, <3>1, <3>2, <3>3
  <2> QED
      BY <1>6, <2>1, <2>2 DEF Open
<1>7. CASE Restart(t, s)
  <2> DEFINE again == config[s].running /\ config[s].pid # 0 /\ table[s] = 0
             r == IF again THEN s ELSE "none"
             pc == IF again THEN "start" ELSE h.pc
  <2>1. th' = [th EXCEPT ![t] = [h EXCEPT !.todo = todo, !.s = r, !.pc = pc,
                                          !.res = h.res, !.dirty = h.dirty]]
      BY <1>1, <1>7 DEF Restart, Inv, Shape, State
  <2>2. ~Wild(s)
      BY <1>1, <1>7 DEF Restart, At, Inv, Tamed
  <2>3. /\ r \in {s, h.s, "none"} /\ pc \in {"start", "stop", h.pc}
        /\ pc \in {"start", "stop"} => r = s
      BY <1>1
  <2> HIDE DEF r, pc, todo
  <2> QED
      BY <1>2, <1>4, <2>1, <2>2, <2>3
<1>8. CASE Try(t, s)
  <2> DEFINE waiting == config[s].error = "waiting"
             r == IF waiting THEN s ELSE "none"
             pc == IF waiting THEN "start" ELSE h.pc
  <2>1. th' = [th EXCEPT ![t] = [h EXCEPT !.todo = todo, !.s = r, !.pc = pc,
                                          !.res = h.res, !.dirty = h.dirty]]
      BY <1>1, <1>8 DEF Try, Inv, Shape, State
  <2>2. waiting => ~Wild(s)
      BY RecordIs DEF Wild, Ours, Alive, Settled
  <2>3. /\ r \in {s, h.s, "none"} /\ pc \in {"start", "stop", h.pc}
        /\ pc \in {"start", "stop"} => r = s
        /\ pc = "start" => waiting
      BY <1>1
  <2> HIDE DEF r, pc, todo
  <2> QED
      BY <1>2, <1>4, <2>1, <2>2, <2>3
<1> QED
    BY <1>5, <1>6, <1>7, <1>8

LEMMA AfterInv ==
    ASSUME Inv, NEW t \in Thread, Resumed(t) \/ Paused(t) \/ Tried(t)
    PROVE  Inv'
<1> DEFINE h == th[t]
<1>1. /\ h.pc \in {"resumed", "paused", "tried"} /\ h.op # "delete" /\ h.s \in Strategy
      /\ h.op \notin Restoring /\ h \in State
  <2>1. h.pc \in {"resumed", "paused", "tried"}
      BY DEF Resumed, Paused, Tried, At
  <2> QED
      BY <2>1, ThreadIs DEF Proper, OnStrategy
<1>2. /\ config' \in Records /\ SameProcess
      /\ UNCHANGED <<proc, table, disk, lock, initialized, armed, ghosts>>
    BY <1>1, NoteIs DEF Resumed, Paused, Tried
<1>3. CASE Rest(t)
  <2>1. th' = [th EXCEPT ![t] = NoThread]
      BY <1>3 DEF Rest
  <2>2. initialized' \in BOOLEAN /\ armed' \in BOOLEAN /\ (initialized' \/ armed' => initialized \/ armed)
      BY <1>2 DEF Inv, Shape
  <2>3. disk' \in Records /\ lock' \in Thread \cup {"none"}
      BY <1>2 DEF Inv, Shape, Records
  <2>4. NoThread.op \notin Restoring \cup {"delete"} /\ NoThread.pc = "idle" /\ NoThread \in Proper
      BY BlankThread DEF Restoring
  <2> QED
      BY <1>1, <1>2, <2>1, <2>2, <2>3, <2>4, QuietInv DEF ghosts
<1>4. CASE \E pc \in {"sweep", "pending"} :
             th' = [th EXCEPT ![t].pc = pc, ![t].s = "none", ![t].res = "none", ![t].dirty = TRUE]
  <2>1. PICK pc \in {"sweep", "pending"} :
             th' = [th EXCEPT ![t].pc = pc, ![t].s = "none", ![t].res = "none", ![t].dirty = TRUE]
      BY <1>4
  <2>2. th' = [th EXCEPT ![t] = [h EXCEPT !.todo = h.todo, !.s = "none", !.pc = pc,
                                          !.res = "none", !.dirty = TRUE]]
      BY <1>1, <2>1 DEF Inv, Shape, State
  <2>3. /\ h.todo \in SUBSET h.todo /\ "none" \in Results /\ "none" \in Strategy \cup {"none"}
        /\ pc \in {"start", "stop", "sweep", "pending", "restore"}
        /\ pc \notin {"start", "stop", "restore"}
        /\ h.pc \notin {"idle", "popen", "kill"}
      BY <1>1 DEF Results
  <2> QED
      BY <1>1, <1>2, <2>2, <2>3, GoOnInv
<1> QED
    BY <1>3, <1>4 DEF Resumed, Paused, Tried

LEMMA EndInv ==
    ASSUME Inv, NEW t \in Thread,
           EndSweep(t) \/ EndPending(t) \/ EndRestore(t) \/ IterationFails(t)
    PROVE  Inv'
<1>1. /\ th[t].pc \in {"sweep", "restore", "pending"} /\ th[t].op # "delete" /\ th[t] \in State
      /\ th[t].pc = "restore" => th[t].op \in Restoring
  <2>1. th[t].pc \in {"sweep", "restore", "pending"}
      BY DEF EndSweep, EndPending, EndRestore, IterationFails, At
  <2> QED
      BY <2>1, ThreadIs DEF Proper
<1>2. PICK h \in Proper :
        /\ th' = [th EXCEPT ![t] = h]
        /\ h.op \in {"none"} \/ (h.op = th[t].op /\ th[t].op \in Restoring)
        /\ h.pc \in {"idle", "loaded"}
  <2>1. CASE Rest(t)
      BY <2>1, BlankThread DEF Rest
  <2>2. CASE EndRestore(t)
    <3> DEFINE h == [NoThread EXCEPT !.op = th[t].op, !.pc = "loaded"]
    <3>1. th[t].op \in Restoring
        BY <1>1, <2>2 DEF EndRestore, At
    <3>2. /\ h \in State /\ h.op = th[t].op /\ h.pc = "loaded" /\ h.todo = {} /\ h.was = {}
        BY <1>1, BlankThread DEF NoThread, Proper, State, Pc
    <3>3. th' = [th EXCEPT ![t] = h]
        BY <2>2 DEF EndRestore
    <3> HIDE DEF h
    <3>4. h \in Proper
        BY <3>1, <3>2 DEF Proper, OnStrategy, Working, Restoring
    <3> QED
        BY <3>1, <3>2, <3>3, <3>4
  <2> QED
      BY <2>1, <2>2 DEF EndSweep, EndPending, IterationFails
<1>3. /\ UNCHANGED config
      /\ SaveIf(th[t].dirty) \/ UNCHANGED disk
      /\ th[t].dirty \in BOOLEAN
      /\ UNCHANGED <<proc, table, lock, armed, ghosts>>
      /\ initialized' = initialized \/ initialized' = (initialized /\ th[t].op # "init")
    BY <1>1 DEF EndSweep, EndPending, EndRestore, IterationFails, State
<1>4. initialized \in BOOLEAN /\ armed' \in BOOLEAN /\ armed' = armed
    BY <1>3 DEF Inv, Shape, ghosts
<1>5. initialized' \in BOOLEAN /\ (initialized' => initialized)
  <2>1. CASE initialized' = initialized
      BY <1>4, <2>1
  <2>2. CASE initialized' = (initialized /\ th[t].op # "init")
      BY <1>4, <2>2, Zenon
  <2> QED
      BY <1>3, <2>1, <2>2
<1>6. h.op # "delete" /\ (h.op \in Restoring => th[t].op \in Restoring)
    BY <1>1, <1>2 DEF Restoring
<1>7. /\ config' \in Records /\ SameProcess
      /\ disk' \in Records /\ lock' \in Thread \cup {"none"}
  <2>1. config' \in Records
      BY <1>3 DEF Inv, Shape, Records
  <2> QED
      BY <1>3, <2>1, Saved DEF Inv, Shape, SameProcess
<1>8. /\ UNCHANGED <<proc, table, lost, events, misled>>
      /\ \A u \in Thread \ {t} : lock = u => lock' = u
      /\ h.pc \notin {"start", "popen", "kill", "delete"}
    BY <1>2, <1>3 DEF ghosts
<1>9. initialized' \/ armed' \/ h.op \in Restoring =>
          initialized \/ armed \/ (\E u \in Thread : th[u].op \in Restoring)
    BY <1>4, <1>5, <1>6
<1>10. th[t].pc # "popen" /\ th' = [th EXCEPT ![t] = h]
    BY <1>1, <1>2
<1> QED
    BY <1>4, <1>5, <1>6, <1>7, <1>8, <1>9, <1>10, QuietInv

-----------------------------------------------------------------------------
(* Steps that end with the lock given back. *)

\* A thread that has started, stopped or deleted s is through with it: s has
\* the process of the table, or none on record and none that runs, or what it
\* had when the stop failed.
LEMMA DoneInv ==
    ASSUME Inv, NEW t \in Thread, th[t].pc \in {"popen", "kill", "delete"},
           NEW s \in Strategy, s = th[t].s,
           NEW h \in Proper, th' = [th EXCEPT ![t] = h],
           h.pc \notin Working, h.op \in {th[t].op, "none"},
           h.pc = "delete" => h.s = s /\ (Of(s))' = {},
           lock' \in Thread \cup {"none"}, h.op = "delete" => lock' = t,
           proc' \in [Pid -> Strategy \cup {"none"}],
           \A q \in 0 .. MaxPids : (Alive(q)' => Alive(q)) /\ (Ours(q)' => Ours(q)),
           table' \in [Strategy -> 0 .. MaxPids], config' \in Records, disk' \in Records,
           lost' \in SUBSET Pid, events' \in 0 .. MaxEvents, UNCHANGED <<initialized, armed, misled>>,
           \A r \in Strategy : (Of(r))' \subseteq Of(r),
           \A r \in Strategy \ {s} : table'[r] = table[r] /\ config'[r] = config[r],
           \/ /\ table'[s] = table[s] /\ config'[s] = config[s]
              /\ th[t].pc # "popen"
           \/ config'[s].pid = 0 /\ (Of(s))' = {}
           \/ table'[s] # 0 /\ table'[s] = config'[s].pid /\ (Of(s))' \subseteq {table'[s]}
    PROVE  Inv'
<1>1. Shape'
    BY DEF Inv, Shape, Records
<1>2. th[t].op = "delete" \/ th[t].pc \in {"popen", "kill"}
    BY ThreadIs DEF Proper
<1>3. lock = t
    BY <1>2, ThreadIs DEF Locks
<1>4. ASSUME NEW r \in Strategy PROVE (Wild(r)' => Wild(r)) /\ Agree(r)'
  <2>1. config'[r].pid \in 0 .. MaxPids
      BY DEF Records, Config
  <2>2. CASE table'[r] = table[r] /\ config'[r] = config[r]
      BY <2>1, <2>2, RecordIs DEF Wild, Agree
  <2>3. CASE config'[r].pid = 0 \/ (table'[r] # 0 /\ table'[r] = config'[r].pid)
      BY <2>3 DEF Wild, Agree, Alive, Ours
  <2> QED
      BY <2>2, <2>3
<1>5. Tamed'
  <2>1. \A u \in Thread : th'[u].op \in Restoring => th[u].op \in Restoring
      BY DEF Inv, Shape, Restoring
  <2> QED
      BY <1>4, <2>1 DEF Inv, Tamed
<1>6. ASSUME NEW u \in Thread PROVE Locks(u)' /\ Alone(u)'
  <2>1. CASE u = t
    <3>1. th'[u] = h
        BY <2>1 DEF Inv, Shape
    <3> QED
        BY <2>1, <3>1 DEF Locks, Alone, Working
  <2>2. CASE u # t
    <3>1. th'[u] = th[u] /\ Locks(u) /\ Alone(u)
        BY <2>2, ThreadIs DEF Inv, Shape
    <3>2. th[u].pc \notin {"popen", "kill"} /\ th[u].op # "delete"
        BY <1>3, <2>2, NobodyElse
    <3>3. th[u].pc # "delete"
        BY <3>2, ThreadIs DEF Proper
    <3>4. th[u].pc = "start" => th[u].s \in Strategy
        BY ThreadIs DEF OnStrategy, Working
    <3> QED
        BY <1>4, <3>1, <3>2, <3>3, <3>4 DEF Locks, Alone
  <2> QED
      BY <2>1, <2>2
<1>7. ASSUME NEW r \in Strategy, NEW p \in (Of(r))' PROVE Known(r, p)'
  <2>1. Known(r, p) /\ \A u \in Thread \ {t} : th[u].pc # "popen"
      BY <1>3, LiveIs, NobodyElse
  <2>2. CASE r # s \/ (/\ table'[s] = table[s] /\ config'[s] = config[s]
                       /\ th[t].pc # "popen")
    <3>1. table'[r] = table[r] /\ config'[r] = config[r]
        BY <2>2
    <3>2. ~ \E u \in Thread : At(u, "popen") /\ th[u].s = r /\ th[u].pid = p
        BY <2>1, <2>2 DEF At
    <3> QED
        BY <2>1, <3>1, <3>2 DEF Known
  <2>3. CASE r = s /\ (Of(s))' \subseteq {table'[s]}
      BY <2>3 DEF Known
  <2> QED
      BY <2>2, <2>3
<1> QED
    BY <1>1, <1>4, <1>5, <1>6, <1>7 DEF Inv

LEMMA StartedInv ==
    ASSUME Inv, NEW t \in Thread, Started(t)
    PROVE  Inv'
<1>1. th[t].pc = "popen" /\ th[t].s \in Strategy /\ th[t].op # "delete" /\ th[t].pid \in 0 .. MaxPids
  <2>1. th[t].pc = "popen"
      BY DEF Started, At
  <2> QED
      BY <2>1, ThreadIs DEF Proper, State, OnStrategy, Working
<1>2. PICK s \in Strategy, pid \in 0 .. MaxPids :
        /\ s = th[t].s /\ pid = th[t].pid /\ pid # 0
        /\ Of(s) \subseteq {pid} /\ config[s].exists
    BY <1>1, ThreadIs DEF Proper, Alone
<1>3. PICK h \in Proper :
        /\ th' = [th EXCEPT ![t] = h]
        /\ h.op = th[t].op \/ h.op = "none"
        /\ h.pc \in Pc \ Working
        /\ h.pc = "delete" => th[t].op = "delete" /\ h.s = th[t].s
    BY <1>1, ReturnIs DEF Started, Working, Results
<1> DEFINE c == [config[s] EXCEPT !.running = TRUE, !.pid = pid, !.error = "none"]
<1>4. c \in Config /\ Settled(c) /\ c.pid = pid
  <2>1. c \in Config
      BY RecordIs DEF Config, Error
  <2>2. c.exists = config[s].exists /\ c.running = TRUE /\ c.pid = pid /\ c.error = "none"
      BY RecordIs DEF Config
  <2> HIDE DEF c
  <2> QED
      BY <1>2, <2>1, <2>2 DEF Settled
<1>5. config' = [config EXCEPT ![s] = c] /\ table' = [table EXCEPT ![s] = pid]
    BY <1>2 DEF Started, Inv, Shape
<1> HIDE DEF c
<1>6. config' \in Records
    BY <1>4, <1>5, Records1
<1>7. disk' \in Records
    BY <1>6 DEF Started, Save
<1>8. /\ table' \in [Strategy -> 0 .. MaxPids] /\ table'[s] = pid /\ config'[s] = c
      /\ \A r \in Strategy \ {s} : table'[r] = table[r] /\ config'[r] = config[r]
    BY <1>5 DEF Inv, Shape
<1>9. /\ \A r \in Strategy : (Of(r))' = Of(r)
      /\ \A q \in 0 .. MaxPids : (Alive(q)' => Alive(q)) /\ (Ours(q)' => Ours(q))
    BY DEF Started, ghosts, Of, Alive, Ours
<1>10. table'[s] # 0 /\ table'[s] = config'[s].pid /\ (Of(s))' \subseteq {table'[s]}
    BY <1>2, <1>4, <1>8, <1>9
<1>11. /\ lost' \in SUBSET Pid /\ events' \in 0 .. MaxEvents /\ UNCHANGED <<initialized, armed, misled>>
       /\ proc' \in [Pid -> Strategy \cup {"none"}] /\ lock' \in Thread \cup {"none"}
    BY DEF Started, ghosts, Inv, Shape
<1>12. h.pc \notin Working /\ h.pc # "delete" /\ h.op # "delete" /\ h.op \in {th[t].op, "none"}
    BY <1>1, <1>3
<1>13. th[t].pc \in {"popen", "kill", "delete"} /\ \A r \in Strategy : (Of(r))' \subseteq Of(r)
    BY <1>1, <1>9
<1> QED
    BY <1>2, <1>3, <1>6, <1>7, <1>8, <1>9, <1>10, <1>11, <1>12, <1>13, DoneInv

\* What remains of a strategy that has been stopped or given up.
LEMMA ForgetIs ==
    ASSUME Inv, NEW t \in Thread, th[t].pc = "kill", Forget(t)
    PROVE  LET s == th[t].s IN
           /\ table' \in [Strategy -> 0 .. MaxPids] /\ config' \in Records /\ disk' \in Records
           /\ config'[s].pid = 0
           /\ \A r \in Strategy \ {s} : table'[r] = table[r] /\ config'[r] = config[r]
           /\ \E res \in Results : Return(t, res)
<1> DEFINE s == th[t].s
           c == IF config[s].exists THEN [config[s] EXCEPT !.running = FALSE, !.pid = 0] ELSE config[s]
<1>1. s \in Strategy
    BY ThreadIs DEF OnStrategy, Working
<1>2. 0 \in 0 .. MaxPids
    BY HostAssumption, SMT
<1>3. c \in Config /\ Settled(c) /\ c.pid = 0
  <2>1. CASE config[s].exists
    <3> DEFINE d == [config[s] EXCEPT !.running = FALSE, !.pid = 0]
    <3>1. d \in Config /\ d.running = FALSE /\ d.pid = 0
        BY <1>1, <1>2, RecordIs, ZenonT(30) DEF Config
    <3>2. c = d
        BY <2>1
    <3> HIDE DEF c, d
    <3> QED
        BY <3>1, <3>2 DEF Settled
  <2>2. CASE ~config[s].exists
      BY <1>1, <2>2, RecordIs DEF Settled
  <2> QED
      BY <2>1, <2>2
<1>4. config' = [config EXCEPT ![s] = c]
    BY <1>1 DEF Forget, Inv, Shape
<1> HIDE DEF c
<1>5. config' \in Records
    BY <1>1, <1>3, <1>4, Records1
<1>6. disk' \in Records
  <2>1. config[s].exists \in BOOLEAN /\ SaveIf(config[s].exists)
      BY <1>1, RecordIs DEF Forget, Config
  <2> QED
      BY <1>5, <2>1, Saved
<1>7. table' \in [Strategy -> 0 .. MaxPids]
    BY <1>1, <1>2 DEF Forget, Inv, Shape
<1>8. /\ config'[s].pid = 0
      /\ \A r \in Strategy \ {s} : table'[r] = table[r] /\ config'[r] = config[r]
    BY <1>1, <1>3, <1>4 DEF Forget, Inv, Shape
<1>9. \E res \in Results : Return(t, res)
  <2>1. Return(t, IF config[s].exists THEN "ok" ELSE "other")
      BY DEF Forget
  <2> QED
      BY <2>1 DEF Results
<1> QED
    BY <1>5, <1>6, <1>7, <1>8, <1>9

LEMMA StoppedInv ==
    ASSUME Inv, NEW t \in Thread, Stopped(t)
    PROVE  Inv'
<1>0. th[t].pc = "kill" /\ th[t].s \in Strategy
  <2>1. th[t].pc = "kill"
      BY DEF Stopped, At
  <2> QED
      BY <2>1, ThreadIs DEF OnStrategy, Working
<1>1. PICK s \in Strategy, pid \in {th[t].pid} : s = th[t].s /\ pid = th[t].pid /\ Of(s) \subseteq {pid}
    BY <1>0, ThreadIs DEF Alone
<1>2. PICK res \in Results : Return(t, res)
    BY <1>0, <1>1, ForgetIs DEF Stopped
<1>3. PICK h \in Proper :
        /\ th' = [th EXCEPT ![t] = h]
        /\ h.op = th[t].op \/ h.op = "none"
        /\ h.pc \in Pc \ Working
        /\ h.pc = "delete" => th[t].op = "delete" /\ h.s = th[t].s
    BY <1>0, <1>2, ReturnIs DEF Working
<1>4. /\ proc' \in [Pid -> Strategy \cup {"none"}] /\ lost' \in SUBSET Pid /\ events' \in 0 .. MaxEvents
      /\ UNCHANGED <<initialized, armed, misled>>
      /\ \A q \in Pid : proc'[q] = IF q = pid THEN "none" ELSE proc[q]
    BY <1>1 DEF Stopped, Inv, Shape
<1>5. \A q \in 0 .. MaxPids : (Alive(q)' => Alive(q)) /\ (Ours(q)' => Ours(q))
  <2>1. \A q \in 0 .. MaxPids : q # 0 => q \in Pid
      BY HostAssumption, SMT DEF Pid
  <2>2. \A q \in 0 .. MaxPids : Alive(q)' => Alive(q) /\ q # pid
      BY <1>4, <2>1 DEF Alive
  <2>3. lost' = lost \ {pid}
      BY <1>1 DEF Stopped
  <2> QED
      BY <2>2, <2>3 DEF Ours
<1>6. (\A r \in Strategy : (Of(r))' \subseteq Of(r)) /\ (Of(s))' = {}
  <2>1. ASSUME NEW r \in Strategy, NEW q \in (Of(r))' PROVE q \in Of(r) /\ q # pid
    <3>1. q \in Pid /\ proc'[q] = r /\ q \notin lost' /\ r # "none"
        BY HostAssumption DEF Of
    <3>2. q # pid /\ proc[q] = r
        BY <1>4, <3>1
    <3>3. q \notin lost
        BY <1>1, <3>1, <3>2 DEF Stopped
    <3> QED
        BY <3>1, <3>2, <3>3 DEF Of
  <2>2. \A r \in Strategy : (Of(r))' \subseteq Of(r)
      BY <2>1
  <2>3. pid \notin (Of(s))' /\ (Of(s))' \subseteq {pid}
      BY <1>1, <2>1
  <2> QED
      BY <2>2, <2>3
<1>7. lock' \in Thread \cup {"none"} /\ (h.op = "delete" => lock' = t)
    BY <1>3 DEF Stopped, Release
<1>8. h.pc \notin Working /\ h.op \in {th[t].op, "none"} /\ (h.pc = "delete" => h.s = s /\ (Of(s))' = {})
    BY <1>1, <1>3, <1>6
<1>9. /\ table' \in [Strategy -> 0 .. MaxPids] /\ config' \in Records /\ disk' \in Records
      /\ config'[s].pid = 0
      /\ \A r \in Strategy \ {s} : table'[r] = table[r] /\ config'[r] = config[r]
    BY <1>0, <1>1, ForgetIs DEF Stopped
<1>10. th[t].pc \in {"popen", "kill", "delete"}
    BY <1>0
<1> QED
    BY <1>1, <1>3, <1>4, <1>5, <1>6, <1>7, <1>8, <1>9, <1>10, DoneInv

LEMMA StuckInv ==
    ASSUME Inv, NEW t \in Thread, Stuck(t)
    PROVE  Inv'
<1>1. th[t].pc = "kill" /\ th[t].s \in Strategy
  <2>1. th[t].pc = "kill"
      BY DEF Stuck, At
  <2> QED
      BY <2>1, ThreadIs DEF OnStrategy, Working
<1>2. PICK s \in Strategy, pid \in {th[t].pid} : s = th[t].s /\ pid = th[t].pid /\ Of(s) \subseteq {pid}
    BY <1>1, ThreadIs DEF Alone
<1>3. pid \in Pid
  <2>1. pid \in 0 .. MaxPids /\ pid # 0
      BY <1>2, ThreadIs DEF State, Stuck, Alive
  <2> QED
      BY <2>1, HostAssumption, SMT DEF Pid
<1>4. \E res \in Results : Return(t, res)
  <2>1. CASE Return(t, "other")
      BY <2>1 DEF Results
  <2>2. CASE Forget(t)
      BY <1>1, <2>2, ForgetIs
  <2> QED
      BY <2>1, <2>2 DEF Stuck
<1>5. PICK h \in Proper :
        /\ th' = [th EXCEPT ![t] = h]
        /\ h.op = th[t].op \/ h.op = "none"
        /\ h.pc \in Pc \ Working
        /\ h.pc = "delete" => th[t].op = "delete" /\ h.s = th[t].s
    BY <1>1, <1>4, ReturnIs DEF Working
<1>6. events' \in 0 .. MaxEvents
  <2>1. events \in 0 .. MaxEvents /\ events < MaxEvents /\ events' = events + 1
      BY DEF Stuck, Inv, Shape
  <2> QED
      BY <2>1, HostAssumption, SMT
<1>7. /\ proc' = proc /\ lost' \in {lost, lost \cup {pid}} /\ UNCHANGED <<initialized, armed, misled>>
    BY <1>2 DEF Stuck
<1>8. \A q \in 0 .. MaxPids : (Alive(q)' => Alive(q)) /\ (Ours(q)' => Ours(q))
    BY <1>7 DEF Alive, Ours
<1>9. \A r \in Strategy : (Of(r))' \subseteq Of(r)
    BY <1>7 DEF Of
<1>10. lost' \in SUBSET Pid /\ proc' \in [Pid -> Strategy \cup {"none"}]
    BY <1>3, <1>7 DEF Inv, Shape
<1>11. lock' \in Thread \cup {"none"} /\ (h.op = "delete" => lock' = t)
    BY <1>5 DEF Stuck, Release
<1>12. h.pc \notin Working /\ h.op \in {th[t].op, "none"} /\ (h.pc = "delete" => h.s = s)
    BY <1>2, <1>5
<1>13. pid \in lost' => (Of(s))' = {}
    BY <1>2, <1>9 DEF Of
<1>14. th[t].pc \in {"popen", "kill", "delete"} /\ th[t].pc # "popen"
    BY <1>1
<1>15. CASE th[t].res = "table"
  <2>1. UNCHANGED <<table, config, disk>> /\ (th[t].op = "delete" => pid \in lost')
      BY <1>2, <1>15 DEF Stuck
  <2>2. h.pc = "delete" => h.s = s /\ (Of(s))' = {}
      BY <1>5, <1>12, <1>13, <2>1
  <2>3. table' \in [Strategy -> 0 .. MaxPids] /\ config' \in Records /\ disk' \in Records
      BY <2>1 DEF Inv, Shape, Records
  <2> QED
      BY <1>2, <1>5, <1>6, <1>7, <1>8, <1>9, <1>10, <1>11, <1>12, <1>14, <2>1, <2>2, <2>3, DoneInv
<1>16. CASE th[t].res # "table"
  <2>1. Forget(t) /\ pid \in lost'
      BY <1>2, <1>16 DEF Stuck
  <2>2. /\ table' \in [Strategy -> 0 .. MaxPids] /\ config' \in Records /\ disk' \in Records
        /\ config'[s].pid = 0
        /\ \A r \in Strategy \ {s} : table'[r] = table[r] /\ config'[r] = config[r]
      BY <1>1, <1>2, <2>1, ForgetIs
  <2>3. h.pc = "delete" => h.s = s /\ (Of(s))' = {}
      BY <1>12, <1>13, <2>1
  <2> QED
      BY <1>2, <1>5, <1>6, <1>7, <1>8, <1>9, <1>10, <1>11, <1>12, <1>13, <1>14, <2>1, <2>2, <2>3, DoneInv
<1> QED
    BY <1>15, <1>16

LEMMA DeleteInv ==
    ASSUME Inv, NEW t \in Thread, Delete(t)
    PROVE  Inv'
<1>1. th[t].pc = "delete" /\ th[t].s \in Strategy
  <2>1. th[t].pc = "delete"
      BY DEF Delete, At
  <2> QED
      BY <2>1, ThreadIs DEF OnStrategy
<1>2. PICK s \in Strategy : s = th[t].s /\ Of(s) = {}
    BY <1>1, ThreadIs DEF Alone
<1>3. NoConfig \in Config /\ Settled(NoConfig) /\ NoConfig.pid = 0
  <2>1. 0 \in 0 .. MaxPids
      BY HostAssumption, SMT
  <2> QED
      BY <2>1 DEF NoConfig, Config, Error, Settled
<1>4. config' = [config EXCEPT ![s] = NoConfig]
    BY <1>2 DEF Delete
<1>5. config' \in Records /\ disk' \in Records
  <2>1. config' \in Records
      BY <1>3, <1>4, Records1
  <2> QED
      BY <2>1 DEF Delete, Save
<1>6. /\ config'[s].pid = 0
      /\ \A r \in Strategy \ {s} : table'[r] = table[r] /\ config'[r] = config[r]
    BY <1>3, <1>4 DEF Delete, Inv, Shape
<1>7. /\ th' = [th EXCEPT ![t] = NoThread] /\ NoThread \in Proper /\ NoThread.op = "none"
      /\ NoThread.pc \notin Working /\ NoThread.pc # "delete"
    BY BlankThread DEF Delete, Rest, Working
<1>8. /\ \A r \in Strategy : (Of(r))' = Of(r)
      /\ \A q \in 0 .. MaxPids : (Alive(q)' => Alive(q)) /\ (Ours(q)' => Ours(q))
    BY DEF Delete, ghosts, Of, Alive, Ours
<1>9. /\ lock' = "none" /\ proc' \in [Pid -> Strategy \cup {"none"}]
      /\ table' \in [Strategy -> 0 .. MaxPids]
      /\ lost' \in SUBSET Pid /\ events' \in 0 .. MaxEvents /\ UNCHANGED <<initialized, armed, misled>>
    BY DEF Delete, ghosts, Inv, Shape
<1>10. th[t].pc \in {"popen", "kill", "delete"}
    BY <1>1
<1> QED
    BY <1>2, <1>5, <1>6, <1>7, <1>8, <1>9, <1>10, DoneInv, ZenonT(30)

-----------------------------------------------------------------------------
(* Steps that do not depend on what a thread is for. *)

\* A step of the host that leaves the processes alone and lets the table and the
\* records say less, as far as what they said was false.
LEMMA ReapInv == Inv /\ Reap => Inv'
<1> SUFFICES ASSUME Inv, Reap PROVE Inv'
    OBVIOUS
<1> DEFINE fix == {s \in Existing : Dead(s) \/ Stale(s)}
<1>1. /\ lock = "none" /\ lock' = lock /\ UNCHANGED <<proc, initialized, armed, th, lost, events, misled>>
      /\ table' = [s \in Strategy |-> IF Dead(s) THEN 0 ELSE table[s]]
      /\ config' = [s \in Strategy |-> IF s \in fix THEN [config[s] EXCEPT !.running = FALSE, !.pid = 0]
                                       ELSE config[s]]
      /\ SaveIf(fix # {})
    BY DEF Reap, ghosts
<1>2. 0 \in 0 .. MaxPids
    BY HostAssumption, SMT
<1>3. ASSUME NEW s \in Strategy
      PROVE  /\ table'[s] = IF Dead(s) THEN 0 ELSE table[s]
             /\ s \in fix => config'[s] = [config[s] EXCEPT !.running = FALSE, !.pid = 0]
             /\ s \notin fix => config'[s] = config[s]
    BY <1>1
<1> HIDE DEF fix
<1>4. ASSUME NEW s \in Strategy
      PROVE  /\ config'[s] \in Config /\ Settled(config'[s])
             /\ config'[s].exists = config[s].exists
             /\ config'[s].pid = IF s \in fix THEN 0 ELSE config[s].pid
  <2>1. CASE s \in fix
    <3> DEFINE c == [config[s] EXCEPT !.running = FALSE, !.pid = 0]
    <3>1. /\ c \in Config /\ c.running = FALSE /\ c.pid = 0 /\ c.exists = config[s].exists
        BY <1>2, RecordIs DEF Config
    <3>2. config'[s] = c
        BY <1>3, <2>1
    <3> HIDE DEF c
    <3> QED
        BY <2>1, <3>1, <3>2 DEF Settled
  <2>2. CASE s \notin fix
      BY <1>3, <2>2, RecordIs
  <2> QED
      BY <2>1, <2>2
<1>5. config' \in Records
  <2>1. \A s \in Strategy : config'[s] \in {c \in Config : Settled(c)}
      BY <1>4
  <2>2. config' = [s \in Strategy |-> config'[s]]
      BY <1>1
  <2> QED
      BY <2>1, <2>2 DEF Records
<1>6. table' \in [Strategy -> 0 .. MaxPids]
    BY <1>1, <1>2, RecordIs
<1>7. disk' \in Records
  <2>1. (fix # {}) \in BOOLEAN
      OBVIOUS
  <2> QED
      BY <1>1, <1>5, <2>1, Saved
<1>8. Shape'
    BY <1>1, <1>5, <1>6, <1>7 DEF Inv, Shape, Records
<1>9. /\ \A s \in Strategy : (Of(s))' = Of(s)
      /\ \A q \in 0 .. MaxPids : Alive(q)' = Alive(q)
    BY <1>1 DEF Of, Alive
\* What has a live process on record keeps it, unless it is in the table of a dead one.
<1>10. ASSUME NEW s \in Strategy, Alive(config[s].pid), table[s] = 0 \/ table[s] = config[s].pid
       PROVE  s \notin fix /\ ~Dead(s)
  <2>1. ~Dead(s) /\ ~Stale(s)
      BY <1>10 DEF Dead, Stale
  <2> QED
      BY <2>1 DEF fix
<1>11. ASSUME NEW s \in Strategy PROVE (Wild(s)' => Wild(s)) /\ Agree(s)'
  <2>1. CASE Alive(config[s].pid)'
    <3>1. config'[s].pid = config[s].pid /\ Alive(config[s].pid)
        BY <1>4, <1>9, <2>1, RecordIs DEF Alive
    <3>2. table[s] = 0 \/ table[s] = config[s].pid
        BY <3>1, RecordIs DEF Agree
    <3>3. table'[s] = table[s]
        BY <1>3, <1>10, <3>1, <3>2
    <3>4. lost' = lost
        BY <1>1
    <3>5. Wild(s)' => Wild(s)
        BY <3>1, <3>3, <3>4, Zenon DEF Wild, Ours
    <3> QED
        BY <3>1, <3>2, <3>3, <3>5 DEF Agree
  <2>2. CASE ~Alive(config[s].pid)'
      BY <2>2 DEF Wild, Agree, Ours
  <2> QED
      BY <2>1, <2>2
<1>12. Tamed'
    BY <1>1, <1>11 DEF Inv, Tamed
<1>13. ASSUME NEW u \in Thread PROVE Locks(u)' /\ Alone(u)'
  <2>1. th[u].pc \notin {"popen", "kill"} /\ th[u].op # "delete"
      BY <1>1, ThreadIs DEF Locks
  <2>2. th[u].pc # "delete" /\ (th[u].pc = "start" => th[u].s \in Strategy)
      BY <2>1, ThreadIs DEF Proper, OnStrategy, Working
  <2> QED
      BY <1>1, <1>11, <2>1, <2>2, ThreadIs DEF Locks, Alone
<1>14. ASSUME NEW s \in Strategy, NEW p \in (Of(s))' PROVE Known(s, p)'
  <2>1. p \in Of(s) /\ p # 0 /\ Alive(p) /\ Known(s, p)
      BY <1>9, LiveIs
  <2>2. CASE \E u \in Thread : At(u, "popen") /\ th[u].s = s /\ th[u].pid = p
      BY <1>1, <2>2 DEF Known, At
  <2>3. CASE table[s] = p
      BY <1>3, <2>1, <2>3 DEF Known, Dead
  <2>4. CASE config[s].pid = p
    <3>1. table[s] = 0 \/ table[s] = config[s].pid
        BY <2>1, <2>4, RecordIs DEF Agree
    <3>2. s \notin fix
        BY <1>10, <2>1, <2>4, <3>1
    <3> QED
        BY <1>3, <2>4, <3>2 DEF Known
  <2> QED
      BY <2>1, <2>2, <2>3, <2>4 DEF Known
<1> QED
    BY <1>8, <1>11, <1>12, <1>13, <1>14 DEF Inv

LEMMA ExitsInv ==
    ASSUME Inv, NEW p \in Pid, Exits(p)
    PROVE  Inv'
<1>1. /\ proc' = [proc EXCEPT ![p] = "none"] /\ lost' = lost \ {p}
      /\ UNCHANGED <<table, config, disk, lock, initialized, armed, th, events, misled>>
    BY DEF Exits
<1>2. Shape'
    BY <1>1 DEF Inv, Shape
<1>3. \A q \in Pid : proc'[q] = IF q = p THEN "none" ELSE proc[q]
    BY <1>1 DEF Inv, Shape
<1>4. \A s \in Strategy : (Of(s))' \subseteq Of(s)
  <2>1. \A s \in Strategy : s # "none"
      BY HostAssumption
  <2> QED
      BY <1>1, <1>3, <2>1 DEF Of
<1>5. \A q \in 0 .. MaxPids : (Alive(q)' => Alive(q)) /\ (Ours(q)' => Ours(q))
  <2>1. \A q \in 0 .. MaxPids : q # 0 => q \in Pid
      BY HostAssumption, SMT DEF Pid
  <2>2. \A q \in 0 .. MaxPids : Alive(q)' => Alive(q) /\ q # p
      BY <1>3, <2>1 DEF Alive
  <2> QED
      BY <1>1, <2>2 DEF Ours
<1>6. ASSUME NEW s \in Strategy PROVE (Wild(s)' => Wild(s)) /\ Agree(s)'
    BY <1>1, <1>5, RecordIs DEF Wild, Agree
<1>7. Tamed'
    BY <1>1, <1>6 DEF Inv, Tamed
<1>8. ASSUME NEW u \in Thread PROVE Locks(u)' /\ Alone(u)'
  <2>1. Locks(u) /\ Alone(u) /\ (th[u].pc \in {"start", "popen", "kill", "delete"} => th[u].s \in Strategy)
      BY ThreadIs DEF OnStrategy, Working
  <2> QED
      BY <1>1, <1>4, <1>6, <2>1 DEF Locks, Alone
<1>9. ASSUME NEW s \in Strategy, NEW q \in (Of(s))' PROVE Known(s, q)'
    BY <1>1, <1>4, LiveIs DEF Known, At
<1> QED
    BY <1>2, <1>6, <1>7, <1>8, <1>9 DEF Inv

LEMMA DenyInv ==
    ASSUME Inv, NEW p \in Pid, Deny(p)
    PROVE  Inv'
<1>1. /\ lost' = lost \cup {p}
      /\ UNCHANGED <<proc, table, config, disk, lock, initialized, armed, th, events, misled>>
    BY DEF Deny
<1>2. Shape'
    BY <1>1 DEF Inv, Shape
<1>3. ASSUME NEW s \in Strategy
      PROVE  (Of(s))' \subseteq Of(s) /\ (Wild(s)' => Wild(s)) /\ Agree(s)'
    BY <1>1, RecordIs DEF Of, Wild, Ours, Alive, Agree
<1>4. Tamed'
    BY <1>1, <1>3 DEF Inv, Tamed
<1>5. ASSUME NEW u \in Thread PROVE Locks(u)' /\ Alone(u)'
  <2>1. Locks(u) /\ Alone(u) /\ (th[u].pc \in {"start", "popen", "kill", "delete"} => th[u].s \in Strategy)
      BY ThreadIs DEF OnStrategy, Working
  <2> QED
      BY <1>1, <1>3, <2>1 DEF Locks, Alone
<1>6. ASSUME NEW s \in Strategy, NEW q \in (Of(s))' PROVE Known(s, q)'
    BY <1>1, <1>3, LiveIs DEF Known, At
<1> QED
    BY <1>2, <1>3, <1>4, <1>5, <1>6 DEF Inv

-----------------------------------------------------------------------------
(* Starting a process, and restorations. *)

LEMMA SpawnInv ==
    ASSUME Inv, NEW t \in Thread, Spawn(t)
    PROVE  Inv'
<1>1. th[t].pc = "start" /\ lock = "none" /\ th[t].s \in Strategy /\ th[t].op \notin {"delete", "none"}
  <2>1. th[t].pc = "start" /\ lock = "none"
      BY DEF Spawn, At
  <2> QED
      BY <2>1, ThreadIs DEF Proper, OnStrategy, Working
<1>2. \A u \in Thread : th[u].pc \notin {"popen", "kill", "delete"} /\ th[u].op # "delete"
  <2>1. \A u \in Thread : th[u].pc \notin {"popen", "kill"} /\ th[u].op # "delete"
      BY <1>1, ThreadIs DEF Locks
  <2> QED
      BY <2>1, ThreadIs DEF Proper
<1>3. PICK s \in Strategy, p \in Fresh :
        /\ s = th[t].s /\ table[s] = 0 /\ config[s].exists
        /\ lock' = t /\ proc' = [proc EXCEPT ![p] = s]
        /\ th' = [th EXCEPT ![t].pc = "popen", ![t].pid = p]
        /\ UNCHANGED <<table, config, disk, initialized, armed, lost, events, misled>>
  <2> DEFINE q == CHOOSE q \in Fresh : TRUE
  <2>1. q \in Fresh
      BY DEF Spawn
  <2> HIDE DEF q
  <2> QED
      BY <1>1, <2>1 DEF Spawn, ghosts, q
<1>4. p \in Pid /\ proc[p] = "none" /\ \A r \in Strategy : p # table[r] /\ p # config[r].pid
    BY DEF Fresh
<1>5. p \in 0 .. MaxPids /\ p # 0
    BY <1>4, HostAssumption, SMT DEF Pid
<1>6. \A q \in Pid : proc'[q] = IF q = p THEN s ELSE proc[q]
    BY <1>3, <1>4 DEF Inv, Shape
<1>7. \A r \in Strategy : Alive(config[r].pid)' = Alive(config[r].pid)
  <2>1. \A q \in 0 .. MaxPids : q # 0 => q \in Pid
      BY HostAssumption, SMT DEF Pid
  <2> QED
      BY <1>3, <1>4, <1>6, <2>1, RecordIs DEF Alive
<1>8. \A r \in Strategy : Wild(r)' = Wild(r) /\ Agree(r)' = Agree(r)
    BY <1>3, <1>7 DEF Wild, Agree, Ours
<1>9. ~Ours(config[s].pid)
    BY <1>1, <1>3, ThreadIs DEF Alone, Wild
<1>10. Of(s) = {}
  <2>1. Of(s) \subseteq {config[s].pid}
      BY <1>2, <1>3, OnlyRecorded DEF At
  <2> QED
      BY <1>9, <2>1, LiveIs
<1>11. /\ (Of(s))' \subseteq {p}
       /\ \A r \in Strategy \ {s} : (Of(r))' \subseteq Of(r)
    BY <1>3, <1>6, <1>10 DEF Of
<1> DEFINE h == [th[t] EXCEPT !.pc = "popen", !.pid = p]
<1>12. th' = [th EXCEPT ![t] = h]
    BY <1>3 DEF Inv, Shape
<1>13. /\ h \in State /\ h.pc = "popen" /\ h.pid = p /\ h.s = s /\ h.op = th[t].op
       /\ h.todo = th[t].todo /\ h.was = th[t].was
    BY <1>3, <1>5, ThreadIs, ZenonT(30) DEF State, Pc, Working
<1> HIDE DEF h
<1>14. h \in Proper
    BY <1>1, <1>3, <1>5, <1>13, ThreadIs DEF Proper, OnStrategy, Working
<1>15. Shape'
  <2>1. proc' \in [Pid -> Strategy \cup {"none"}]
      BY <1>3, <1>4 DEF Inv, Shape
  <2> QED
      BY <1>3, <1>12, <1>14, <2>1 DEF Inv, Shape
<1>16. th'[t] = h /\ \A u \in Thread \ {t} : th'[u] = th[u]
    BY <1>12 DEF Inv, Shape
<1>17. Tamed'
  <2>1. \A u \in Thread : th'[u].op = th[u].op
      BY <1>13, <1>16
  <2> QED
      BY <1>3, <1>8, <2>1 DEF Inv, Tamed
<1>18. ASSUME NEW u \in Thread PROVE Locks(u)' /\ Alone(u)'
  <2>1. CASE u = t
    <3>1. Locks(u)'
        BY <1>3, <2>1 DEF Locks
    <3>2. Alone(u)'
        BY <1>3, <1>11, <1>13, <1>16, <2>1 DEF Alone
    <3> QED
        BY <3>1, <3>2
  <2>2. CASE u # t
    <3>1. th'[u] = th[u] /\ Alone(u) /\ th[u].pc \notin {"popen", "kill", "delete"}
          /\ th[u].op # "delete" /\ (th[u].pc = "start" => th[u].s \in Strategy)
        BY <1>2, <1>16, <2>2, ThreadIs DEF OnStrategy, Working
    <3> QED
        BY <1>8, <3>1 DEF Locks, Alone
  <2> QED
      BY <2>1, <2>2
<1>19. ASSUME NEW r \in Strategy, NEW q \in (Of(r))' PROVE Known(r, q)'
  <2>1. CASE r = s
    <3>1. q = p
        BY <1>11, <2>1
    <3>2. th'[t].pc = "popen" /\ th'[t].s = r /\ th'[t].pid = q
        BY <1>13, <1>16, <2>1, <3>1
    <3> QED
        BY <3>2 DEF Known, At
  <2>2. CASE r # s
    <3>1. Known(r, q)
        BY <1>11, <2>2, LiveIs
    <3>2. table[r] = q \/ config[r].pid = q
        BY <1>2, <3>1 DEF Known, At
    <3> QED
        BY <1>3, <3>2 DEF Known
  <2> QED
      BY <2>1, <2>2
<1> QED
    BY <1>8, <1>15, <1>17, <1>18, <1>19, <1>3 DEF Inv

LEMMA RestartedInv ==
    ASSUME Inv, NEW t \in Thread, Restarted(t)
    PROVE  Inv'
<1>1. /\ th[t].pc = "restarted" /\ th[t].s \in Strategy /\ th[t].op \in Restoring
      /\ th[t] \in State /\ th[t].todo \subseteq th[t].was
  <2>1. th[t].pc = "restarted"
      BY DEF Restarted, At
  <2> QED
      BY <2>1, ThreadIs DEF Proper, OnStrategy
<1>2. \A s \in Strategy : ~Wild(s)
    BY <1>1 DEF Inv, Tamed
<1>3. PICK s \in Strategy : s = th[t].s
    BY <1>1
<1>4. UNCHANGED <<proc, table, disk, lock, initialized, armed, events, lost>>
    BY DEF Restarted
<1>5. 0 \in 0 .. MaxPids
    BY HostAssumption, SMT
<1>6. /\ config' \in Records
      /\ \A r \in Strategy : /\ config'[r].exists = config[r].exists
                             /\ config'[r].pid \in {0, config[r].pid}
  <2>1. CASE UNCHANGED config
      BY <2>1 DEF Inv, Shape, Records
  <2>2. CASE \E e \in {"waiting", "failed"} :
               config' = [config EXCEPT ![s].running = FALSE, ![s].pid = 0, ![s].error = e]
             /\ config[s].exists
    <3>1. PICK e \in {"waiting", "failed"} :
               /\ config' = [config EXCEPT ![s].running = FALSE, ![s].pid = 0, ![s].error = e]
               /\ config[s].exists
        BY <2>2
    <3> DEFINE c == [config[s] EXCEPT !.running = FALSE, !.pid = 0, !.error = e]
    <3>2. /\ c \in Config /\ c.running = FALSE /\ c.pid = 0 /\ c.exists = config[s].exists
        BY <1>5, RecordIs DEF Config, Error
    <3>3. config' = [config EXCEPT ![s] = c]
        BY <3>1 DEF Inv, Shape
    <3> HIDE DEF c
    <3>4. config' \in Records
        BY <3>2, <3>3, Records1 DEF Settled
    <3>5. \A r \in Strategy : config'[r] = IF r = s THEN c ELSE config[r]
        BY <3>3 DEF Inv, Shape
    <3> QED
        BY <3>2, <3>4, <3>5
  <2> QED
      BY <1>3, <2>1, <2>2 DEF Restarted
<1> DEFINE h == [th[t] EXCEPT !.pc = "restore", !.s = "none", !.res = "none", !.dirty = TRUE]
<1>7. th' = [th EXCEPT ![t] = h]
    BY DEF Restarted, Inv, Shape
<1>8. /\ h \in State /\ h.pc = "restore" /\ h.op = th[t].op /\ h.todo = th[t].todo /\ h.was = th[t].was
    BY <1>1 DEF State, Pc
<1> HIDE DEF h
<1>9. h \in Proper
    BY <1>1, <1>8 DEF Proper, OnStrategy, Working, Restoring
<1>10. Shape'
  <2>1. misled' \in SUBSET Strategy
      BY <1>1 DEF Restarted, Inv, Shape
  <2> QED
      BY <1>4, <1>6, <1>7, <1>9, <2>1 DEF Inv, Shape, Records
<1>11. /\ \A r \in Strategy : (Of(r))' = Of(r)
       /\ \A r \in Strategy : Alive(config[r].pid)' => config'[r].pid = config[r].pid /\ Alive(config[r].pid)
    BY <1>4, <1>6 DEF Of, Alive
<1>12. \A r \in Strategy : ~Wild(r)' /\ Agree(r)'
    BY <1>2, <1>4, <1>11, RecordIs DEF Wild, Agree, Ours
<1>13. Tamed'
    BY <1>12 DEF Tamed
<1>14. th'[t] = h /\ \A u \in Thread \ {t} : th'[u] = th[u]
    BY <1>7 DEF Inv, Shape
<1>15. ASSUME NEW u \in Thread PROVE Locks(u)' /\ Alone(u)'
  <2>1. CASE u = t
    <3>1. h.op # "delete"
        BY <1>1, <1>8 DEF Restoring
    <3> QED
        BY <1>8, <1>14, <2>1, <3>1 DEF Locks, Alone
  <2>2. CASE u # t
    <3>1. /\ th'[u] = th[u] /\ Locks(u) /\ Alone(u)
          /\ th[u].pc \in {"start", "popen", "kill", "delete"} => th[u].s \in Strategy
        BY <1>14, <2>2, ThreadIs DEF OnStrategy, Working
    <3>2. Locks(u)'
        BY <1>4, <3>1 DEF Locks
    <3>3. Alone(u)'
        BY <1>4, <1>6, <1>11, <1>12, <3>1 DEF Alone
    <3> QED
        BY <3>2, <3>3
  <2> QED
      BY <2>1, <2>2
<1>16. ASSUME NEW r \in Strategy, NEW q \in (Of(r))' PROVE Known(r, q)'
  <2>1. q \in Of(r) /\ Alive(q) /\ Ours(q) /\ q # 0 /\ Known(r, q)
      BY <1>11, LiveIs
  <2>2. CASE \E u \in Thread : At(u, "popen") /\ th[u].s = r /\ th[u].pid = q
    <3>1. PICK u \in Thread : th[u].pc = "popen" /\ th[u].s = r /\ th[u].pid = q
        BY <2>2 DEF At
    <3>2. th'[u] = th[u]
        BY <1>1, <1>14, <3>1
    <3> QED
        BY <3>1, <3>2 DEF Known, At
  <2>3. CASE table[r] = q
      BY <1>4, <2>3 DEF Known
  <2>4. CASE config[r].pid = q
    <3>1. table[r] = q
        BY <1>2, <2>1, <2>4, RecordIs DEF Wild, Agree
    <3> QED
        BY <1>4, <3>1 DEF Known
  <2> QED
      BY <2>1, <2>2, <2>3, <2>4 DEF Known
<1> QED
    BY <1>10, <1>12, <1>13, <1>15, <1>16 DEF Inv

LEMMA RestoreInv ==
    ASSUME Inv, NEW t \in Thread, NEW op \in {"init", "login"}, Restore(t, op)
    PROVE  Inv'
<1>1. /\ th[t].pc = "idle" /\ UNCHANGED <<proc, lock, armed, lost, events, misled>>
      /\ initialized' = (initialized \/ op = "init")
      /\ (UNCHANGED <<config, disk>>) \/ (DeadWait /\ Save)
    BY DEF Restore, Idle, At, ghosts
<1>a. PICK z \in hidden :
        /\ table' = [s \in Strategy |-> IF s \in Adopted(z) THEN config[s].pid ELSE table[s]]
        /\ \/ Call(t, op, "loaded", "none")
           \/ th' = [th EXCEPT ![t] = [NoThread EXCEPT !.op = op, !.pc = "restore", !.todo = Existing,
                                                       !.was = Existing, !.dirty = Adopted(z) # {}]]
    BY DEF Restore, Adopt
<1>2. 0 \in 0 .. MaxPids
    BY HostAssumption, SMT
<1>3. ASSUME NEW s \in Strategy
      PROVE  /\ config'[s] \in Config /\ Settled(config'[s])
             /\ config'[s].exists = config[s].exists
             /\ config'[s].pid = config[s].pid \/ (config'[s].pid = 0 /\ ~Ours(config[s].pid))
  <2> DEFINE c == [config[s] EXCEPT !.running = FALSE, !.pid = 0, !.error = "waiting"]
  <2>1. CASE config'[s] = c /\ ~Ours(config[s].pid)
    <3>1. c \in Config /\ c.running = FALSE /\ c.pid = 0 /\ c.exists = config[s].exists
        BY <1>2, RecordIs DEF Config, Error
    <3>2. config'[s] = c
        BY <2>1
    <3> HIDE DEF c
    <3> QED
        BY <2>1, <3>1, <3>2 DEF Settled
  <2>2. CASE config'[s] = config[s]
      BY <2>2, RecordIs
  <2>3. CASE DeadWait
    <3>1. PICK v \in hidden :
             config' = [r \in Strategy |-> IF config[r].running /\ ~Seen(config[r].pid, v)
                          THEN [config[r] EXCEPT !.running = FALSE, !.pid = 0, !.error = "waiting"]
                          ELSE config[r]]
        BY <2>3 DEF DeadWait
    <3>2. ~Seen(config[s].pid, v) => ~Ours(config[s].pid)
        BY DEF Seen, Ours, hidden
    <3> QED
        BY <2>1, <2>2, <3>1, <3>2
  <2> QED
      BY <1>1, <2>2, <2>3
<1>4. config' \in Records
  <2>1. \A s \in Strategy : config'[s] \in {c \in Config : Settled(c)}
      BY <1>3
  <2>2. CASE UNCHANGED config
      BY <2>2 DEF Inv, Shape, Records
  <2>3. CASE DeadWait
    <3>1. config' = [s \in Strategy |-> config'[s]]
        BY <2>3 DEF DeadWait
    <3> QED
        BY <2>1, <3>1 DEF Records
  <2> QED
      BY <1>1, <2>2, <2>3
<1>5. disk' \in Records
    BY <1>1, <1>4 DEF Save, Inv, Shape, Records
<1>6. table' \in [Strategy -> 0 .. MaxPids]
    BY <1>a, RecordIs
\* What is alive on record and not lost is in the table.
<1>7. ASSUME NEW s \in Strategy
      PROVE  /\ table'[s] \in {table[s], config[s].pid}
             /\ Ours(config[s].pid) => table'[s] = config[s].pid
             /\ table'[s] # table[s] => Alive(config[s].pid)
  <2>1. s \in Adopted(z) => Alive(config[s].pid)
      BY DEF Adopted, Seen
  <2>2. Ours(config[s].pid) => s \in Adopted(z)
      BY RecordIs DEF Adopted, Seen, Ours, hidden, Existing, Alive, Settled
  <2> QED
      BY <1>a, <2>1, <2>2
<1>8. PICK h \in Proper :
        /\ th' = [th EXCEPT ![t] = h]
        /\ h.op = op /\ h.pc \in {"loaded", "restore"}
  <2>1. CASE Call(t, op, "loaded", "none")
    <3> DEFINE h == [NoThread EXCEPT !.op = op, !.pc = "loaded", !.s = "none"]
    <3>1. /\ h \in State /\ h.op = op /\ h.pc = "loaded" /\ h.todo = {} /\ h.was = {}
        BY BlankThread DEF NoThread, Proper, State, Op, Restoring, Pc
    <3>2. th' = [th EXCEPT ![t] = h]
        BY <2>1 DEF Call
    <3> HIDE DEF h
    <3>3. h \in Proper
        BY <3>1 DEF Proper, OnStrategy, Working, Restoring
    <3> QED
        BY <3>1, <3>2, <3>3
  <2>2. CASE th' = [th EXCEPT ![t] = [NoThread EXCEPT !.op = op, !.pc = "restore", !.todo = Existing,
                                                      !.was = Existing, !.dirty = Adopted(z) # {}]]
    <3> DEFINE b == Adopted(z) # {}
    <3>1. b \in BOOLEAN /\ Existing \in SUBSET Strategy
        BY DEF Existing
    <3> HIDE DEF b
    <3> DEFINE h == [NoThread EXCEPT !.op = op, !.pc = "restore", !.todo = Existing, !.was = Existing,
                                     !.dirty = b]
    <3>2. /\ h \in State /\ h.op = op /\ h.pc = "restore" /\ h.todo = Existing /\ h.was = Existing
        BY <3>1, BlankThread DEF NoThread, Proper, State, Op, Restoring, Pc
    <3>3. th' = [th EXCEPT ![t] = h]
        BY <2>2 DEF b
    <3> HIDE DEF h
    <3>4. h \in Proper
        BY <3>2 DEF Proper, OnStrategy, Working, Restoring
    <3> QED
        BY <3>2, <3>3, <3>4
  <2> QED
      BY <1>a, <2>1, <2>2
<1>9. Shape'
  <2>1. initialized' \in BOOLEAN
      BY <1>1
  <2> QED
      BY <1>1, <1>4, <1>5, <1>6, <1>8, <2>1 DEF Inv, Shape, Records
<1>10. /\ \A r \in Strategy : (Of(r))' = Of(r)
       /\ \A r \in Strategy : Alive(config[r].pid)' => config'[r].pid = config[r].pid /\ Alive(config[r].pid)
    BY <1>1, <1>3 DEF Of, Alive
<1>11. ASSUME NEW r \in Strategy PROVE ~Wild(r)' /\ Agree(r)'
  <2>1. Ours(config[r].pid)' => config'[r].pid = config[r].pid /\ Ours(config[r].pid)
      BY <1>1, <1>10 DEF Ours
  <2>2. Wild(r)' => FALSE
    <3>1. Ours(config[r].pid) => config[r].pid # 0
        BY DEF Ours, Alive
    <3> QED
        BY <1>7, <2>1, <3>1 DEF Wild
  <2>3. Agree(r)'
      BY <1>7, <1>10, RecordIs DEF Agree
  <2> QED
      BY <2>2, <2>3
<1>12. Tamed'
    BY <1>11 DEF Tamed
<1>13. th'[t] = h /\ \A u \in Thread \ {t} : th'[u] = th[u]
    BY <1>8 DEF Inv, Shape
<1>14. ASSUME NEW u \in Thread PROVE Locks(u)' /\ Alone(u)'
  <2>1. CASE u = t
    <3>1. h.op # "delete"
        BY <1>8
    <3> QED
        BY <1>8, <1>13, <2>1, <3>1 DEF Locks, Alone
  <2>2. CASE u # t
    <3>1. /\ th'[u] = th[u] /\ Locks(u) /\ Alone(u)
          /\ th[u].pc \in {"start", "popen", "kill", "delete"} => th[u].s \in Strategy
        BY <1>13, <2>2, ThreadIs DEF OnStrategy, Working
    <3>2. Locks(u)'
        BY <1>1, <3>1 DEF Locks
    <3>3. th[u].pc = "popen" => config'[th[u].s].exists
        BY <1>3, <3>1 DEF Alone
    <3>4. Alone(u)'
        BY <1>10, <1>11, <3>1, <3>3 DEF Alone
    <3> QED
        BY <3>2, <3>4
  <2> QED
      BY <2>1, <2>2
<1>15. ASSUME NEW r \in Strategy, NEW q \in (Of(r))' PROVE Known(r, q)'
  <2>1. q \in Of(r) /\ Alive(q) /\ q # 0 /\ Known(r, q)
      BY <1>10, LiveIs
  <2>2. CASE \E u \in Thread : At(u, "popen") /\ th[u].s = r /\ th[u].pid = q
    <3>1. PICK u \in Thread : th[u].pc = "popen" /\ th[u].s = r /\ th[u].pid = q
        BY <2>2 DEF At
    <3>2. th'[u] = th[u]
        BY <1>1, <1>13, <3>1
    <3> QED
        BY <3>1, <3>2 DEF Known, At
  <2>3. CASE table[r] = q
    <3>1. table'[r] = q
        BY <1>7, <2>1, <2>3, RecordIs DEF Agree
    <3> QED
        BY <3>1 DEF Known
  <2>4. CASE config[r].pid = q
    <3>1. table'[r] = q
        BY <1>7, <1>10, <2>1, <2>4, LiveIs
    <3> QED
        BY <3>1 DEF Known
  <2> QED
      BY <2>1, <2>2, <2>3, <2>4 DEF Known
<1> QED
    BY <1>9, <1>11, <1>12, <1>14, <1>15 DEF Inv

-----------------------------------------------------------------------------
(* The end of the server and its next start. *)

\* The server starts with a file in which every process that is not lost is.
LEMMA BootInv ==
    ASSUME Inv, Boot, proc' \in [Pid -> Strategy \cup {"none"}],
           config' \in Records, disk' \in Records, events' \in 0 .. MaxEvents, lost' \in SUBSET Pid,
           \A s \in Strategy : \A p \in (Of(s))' : config'[s].pid = p
    PROVE  Inv'
<1>1. 0 \in 0 .. MaxPids
    BY HostAssumption, SMT
<1>2. Shape'
    BY <1>1, BlankThread DEF Boot, Inv, Shape, Records
<1>3. \A t \in Thread : th'[t].pc = "idle" /\ th'[t].op = "none"
    BY BlankThread DEF Boot
<1>4. Tamed'
    BY <1>3 DEF Boot, Tamed, Restoring
<1>5. \A t \in Thread : Locks(t)' /\ Alone(t)'
    BY <1>3 DEF Locks, Alone
<1>6. \A s \in Strategy : Agree(s)' /\ \A p \in (Of(s))' : Known(s, p)'
    BY DEF Boot, Agree, Known
<1> QED
    BY <1>2, <1>4, <1>5, <1>6 DEF Inv

LEMMA CrashInv == Inv /\ Crash => Inv'
<1> SUFFICES ASSUME Inv, Crash PROVE Inv'
    OBVIOUS
<1>1. events' \in 0 .. MaxEvents
  <2>1. events \in 0 .. MaxEvents /\ events < MaxEvents /\ events' = events + 1
      BY DEF Crash, Inv, Shape
  <2> QED
      BY <2>1, HostAssumption, SMT
<1>2. /\ proc' \in [Pid -> Strategy \cup {"none"}] /\ lost' \in SUBSET Pid
      /\ config' \in Records /\ disk' \in Records /\ config' = disk
    BY DEF Crash, Inv, Shape, Records
<1>3. ASSUME NEW s \in Strategy, NEW p \in (Of(s))' PROVE config'[s].pid = p
  <2>1. p \in Pid /\ p \notin lost' /\ proc[p] = s /\ p # 0 /\ s # "none"
    <3>1. \A q \in Pid : q # 0
        BY HostAssumption, SMT DEF Pid
    <3> QED
        BY <3>1, HostAssumption DEF Of, Crash
  <2>2. OnDisk(p)
      BY <2>1 DEF Crash, Alive
  <2> QED
      BY <1>2, <2>1, <2>2 DEF OnDisk
<1> QED
    BY <1>1, <1>2, <1>3, BootInv DEF Crash

LEMMA ExitInv == Inv /\ Exit => Inv'
<1> SUFFICES ASSUME Inv, Exit PROVE Inv'
    OBVIOUS
<1> DEFINE tabled == {s \in Strategy : table[s] # 0}
<1>1. /\ proc' = [p \in Pid |-> IF \E s \in tabled : table[s] = p THEN "none" ELSE proc[p]]
      /\ config' = IF tabled \cap Existing = {} THEN disk
                   ELSE [s \in Strategy |-> IF s \in tabled \cap Existing
                                            THEN [config[s] EXCEPT !.running = FALSE, !.pid = 0]
                                            ELSE config[s]]
      /\ disk' = config' /\ Boot /\ events' = events
      /\ lost' = {p \in Pid : proc'[p] # "none" /\ (p \in lost \/ disk'[proc'[p]].pid # p)}
    BY DEF Exit
<1> HIDE DEF tabled
<1>2. 0 \in 0 .. MaxPids
    BY HostAssumption, SMT
<1>3. config' \in Records
  <2>1. CASE tabled \cap Existing = {}
      BY <1>1, <2>1 DEF Inv, Shape, Records
  <2>2. CASE tabled \cap Existing # {}
    <3>1. ASSUME NEW s \in Strategy
          PROVE  [config[s] EXCEPT !.running = FALSE, !.pid = 0] \in {c \in Config : Settled(c)}
      <4> DEFINE c == [config[s] EXCEPT !.running = FALSE, !.pid = 0]
      <4>1. c \in Config /\ c.running = FALSE /\ c.pid = 0
          BY <1>2, RecordIs DEF Config
      <4> HIDE DEF c
      <4>2. c \in {d \in Config : Settled(d)}
          BY <4>1 DEF Settled
      <4> QED
          BY <4>2 DEF c
    <3> QED
        BY <1>1, <2>2, <3>1, RecordIs DEF Records
  <2> QED
      BY <2>1, <2>2
<1>4. proc' \in [Pid -> Strategy \cup {"none"}] /\ lost' \in SUBSET Pid /\ events' \in 0 .. MaxEvents
    BY <1>1 DEF Inv, Shape
<1>5. ASSUME NEW s \in Strategy, NEW p \in (Of(s))' PROVE config'[s].pid = p
  <2>1. p \in Pid /\ p \notin lost' /\ proc'[p] = s /\ s # "none"
      BY HostAssumption DEF Of
  <2>2. disk'[proc'[p]].pid = p
      BY <1>1, <2>1
  <2> QED
      BY <1>1, <2>1, <2>2
<1> QED
    BY <1>1, <1>3, <1>4, <1>5, BootInv

-----------------------------------------------------------------------------

LEMMA UnchangedInv == Inv /\ UNCHANGED vars => Inv'
BY DEF vars, Inv, Shape, Tamed, Wild, Ours, Alive, Locks, Alone, Of, Agree, Known, At

LEMMA NextInv == Inv /\ [Next]_vars => Inv'
<1> SUFFICES ASSUME Inv, [Next]_vars PROVE Inv'
    OBVIOUS
<1>1. ASSUME NEW t \in Thread, Request(t) PROVE Inv'
  <2>1. CASE \E s \in Strategy : RequestStart(t, s) \/ RequestStop(t, s) \/ RequestDelete(t, s)
                                 \/ ClearError(t, s)
      BY <2>1, RequestStartInv, RequestStopInv, RequestDeleteInv, MarkInv
  <2>2. CASE MarkStopped(t)
    <3>1. th[t].s \in Strategy
        BY <2>2, ThreadIs DEF MarkStopped, At, OnStrategy
    <3> QED
        BY <2>2, <3>1, MarkInv
  <2>3. CASE Delete(t)
      BY <2>3, DeleteInv
  <2> QED
      BY <1>1, <2>1, <2>2, <2>3 DEF Request
<1>2. ASSUME NEW t \in Thread, Scheduled(t) PROVE Inv'
  <2>1. CASE \E s \in Strategy : ScheduledStart(t, s) \/ ScheduledStop(t, s)
      BY <2>1, ScheduledInv
  <2>2. CASE \E s \in Strategy : Closed(t, s) \/ Open(t, s)
      BY <2>2, LoopInv
  <2>3. CASE Sweep(t)
      BY <2>3, SweepInv
  <2>4. CASE Resumed(t) \/ Paused(t)
      BY <2>4, AfterInv
  <2>5. CASE EndSweep(t)
      BY <2>5, EndInv
  <2> QED
      BY <1>2, <2>1, <2>2, <2>3, <2>4, <2>5 DEF Scheduled
<1>3. ASSUME NEW t \in Thread, Restores(t) PROVE Inv'
  <2>1. CASE \E op \in {"init", "login"} : Restore(t, op)
      BY <2>1, RestoreInv
  <2>2. CASE \E s \in Strategy : Restart(t, s) \/ Try(t, s)
      BY <2>2, LoopInv
  <2>3. CASE Restarted(t)
      BY <2>3, RestartedInv
  <2>4. CASE EndRestore(t) \/ IterationFails(t) \/ EndPending(t)
      BY <2>4, EndInv
  <2>5. CASE Arm(t) \/ StartPending(t)
      BY <2>5, SweepInv
  <2>6. CASE Tried(t)
      BY <2>6, AfterInv
  <2> QED
      BY <1>3, <2>1, <2>2, <2>3, <2>4, <2>5, <2>6 DEF Restores
<1>4. ASSUME NEW t \in Thread,
             Refuse(t) \/ Spawn(t) \/ Started(t) \/ NotRunning(t) \/ Terminate(t) \/ Stopped(t) \/ Stuck(t)
      PROVE  Inv'
    BY <1>4, RefuseInv, SpawnInv, StartedInv, NotRunningInv, TerminateInv, StoppedInv, StuckInv
<1>5. ASSUME NEW p \in Pid, Exits(p) \/ Deny(p) PROVE Inv'
    BY <1>5, ExitsInv, DenyInv
<1> QED
    BY <1>1, <1>2, <1>3, <1>4, <1>5, ReapInv, CrashInv, ExitInv, UnchangedInv DEF Next

LEMMA InvHolds == Spec => []Inv
BY InitInv, NextInv, PTL DEF Spec

\* The processes of a strategy that are not lost are all the one of the thread
\* that starts it, or all the one that the table or the record has.
LEMMA OneOf ==
    ASSUME Inv, NEW s \in Strategy
    PROVE  \E p \in 0 .. MaxPids : Of(s) \subseteq {p}
<1>1. CASE \E u \in Thread : At(u, "popen") /\ th[u].s = s
  <2>1. PICK u \in Thread : th[u].pc = "popen" /\ th[u].s = s
      BY <1>1 DEF At
  <2>2. Of(s) \subseteq {th[u].pid} /\ th[u].pid \in 0 .. MaxPids
      BY <2>1, ThreadIs DEF Alone, State
  <2> QED
      BY <2>2
<1>2. CASE \A u \in Thread : At(u, "popen") => th[u].s # s
    BY <1>2, OnlyRecorded, RecordIs
<1> QED
    BY <1>1, <1>2

\* A strategy has at most one process that runs, whoever starts and stops it and
\* whenever the server dies (start_strategy_process, stop_strategy_process,
\* restore_running_strategy_process), unless the server has lost sight of a
\* process or was not allowed to inspect it.
THEOREM NeverTwoProcesses == Spec => []OneProcess
<1>1. ASSUME Inv PROVE OneProcess
  <2>1. TypeOK
    <3>1. \A t \in Thread : th[t] \in State /\ th[t].todo \subseteq th[t].was
        BY <1>1, ThreadIs DEF Proper
    <3>2. \A t \in Thread : /\ th[t].s \in Strategy \cup {"none"} /\ th[t].pid \in 0 .. MaxPids
                            /\ th[t].todo \subseteq th[t].was /\ th[t].was \subseteq Strategy
                            /\ th[t].dirty \in BOOLEAN
        BY <3>1 DEF State
    <3>3. config \in [Strategy -> Config] /\ disk \in [Strategy -> Config]
        BY <1>1 DEF Inv, Shape
    <3> QED
        BY <1>1, <3>2, <3>3 DEF Inv, Shape, TypeOK
  <2>2. ASSUME NEW s \in Strategy PROVE Cardinality(Of(s)) <= 1
    <3>1. PICK p \in 0 .. MaxPids : Of(s) \subseteq {p}
        BY <1>1, OneOf
    <3>2. Of(s) = {} \/ Of(s) = {p}
        BY <3>1
    <3>3. Cardinality({}) = 0 /\ Cardinality({p}) = 1
        BY FS_EmptySet, FS_Singleton
    <3> QED
        BY <3>2, <3>3
  <2> QED
      BY <2>1, <2>2 DEF OneProcess
<1> QED
    BY <1>1, InvHolds, PTL

-----------------------------------------------------------------------------
(* What a strategy that runs has on record *)

Starting(s, p) == \E t \in Thread : At(t, "popen") /\ th[t].s = s /\ th[t].pid = p

\* It is being started, or both records lead to it, unless a restoration has
\* called it failed; and it has a configuration anyway.
Recorded(s, p) ==
    \/ Starting(s, p)
    \/ config[s].exists /\ (s \in misled \/ (config[s].pid = p /\ disk[s].pid = p))
AllRecorded == \A s \in Strategy : \A p \in Of(s) : Recorded(s, p)

\* A step that starts nothing and leaves what leads to a process in place.
LEMMA RecordedStays ==
    ASSUME Inv, NEW s \in Strategy, NEW p, Recorded(s, p),
           Starting(s, p) => (Starting(s, p))',
           config[s].exists => config'[s].exists,
           s \in misled => s \in misled',
           s \notin misled' /\ config[s].pid = p => config'[s].pid = p,
           disk'[s] \in {disk[s], config'[s]}
    PROVE  (Recorded(s, p))'
BY DEF Recorded

\* The same for all of them, when no strategy gets a process, none is deleted and
\* no pid is written.
Tame ==
    /\ \A s \in Strategy : (Of(s))' \subseteq Of(s)
    /\ \A t \in Thread : At(t, "popen") => th'[t] = th[t]
    /\ SameProcess
    /\ UNCHANGED misled
    /\ disk' = disk \/ disk' = config'

LEMMA TameRecorded ==
    ASSUME Inv, AllRecorded, Tame
    PROVE  AllRecorded'
<1> SUFFICES ASSUME NEW s \in Strategy, NEW p \in (Of(s))'
             PROVE  (Recorded(s, p))'
    BY DEF AllRecorded
<1>1. p \in Of(s) /\ Recorded(s, p)
    BY DEF Tame, AllRecorded
<1>2. Starting(s, p) => (Starting(s, p))'
    BY DEF Tame, Starting, At
<1>3. disk'[s] \in {disk[s], config'[s]} /\ misled' = misled
      /\ config'[s].pid = config[s].pid /\ config'[s].exists = config[s].exists
    BY DEF Tame, SameProcess
<1> QED
    BY <1>1, <1>2, <1>3, RecordedStays

\* A step of one thread that is not starting a process.
LEMMA TameIs ==
    ASSUME NEW t \in Thread, ~At(t, "popen"), \A u \in Thread : u # t => th'[u] = th[u],
           UNCHANGED <<proc, lost, misled>>, SameProcess, disk' = disk \/ disk' = config'
    PROVE  Tame
BY DEF Tame, Of, At

\* Requests that start and stop no process.
LEMMA RequestTame ==
    ASSUME Inv, NEW t \in Thread, Request(t), ~Delete(t)
    PROVE  Tame
<1>0. config \in [Strategy -> Config] /\ th \in [Thread -> Proper]
    BY DEF Inv, Shape
<1>r. \A s \in Strategy : config[s] \in Config
    BY <1>0
<1>s. UNCHANGED config => SameProcess
    BY DEF SameProcess
<1>1. ASSUME NEW s \in Strategy, RequestStart(t, s) PROVE Tame
  <2>1. ~At(t, "popen") /\ \A u \in Thread : u # t => th'[u] = th[u]
      BY <1>0, <1>1 DEF RequestStart, At, Idle, Call
  <2>2. SameProcess /\ (disk' = disk \/ disk' = config')
      BY <1>0, <1>r, <1>s, <1>1 DEF RequestStart, SameProcess, Save, SaveIf, Config
  <2> QED
      BY <1>1, <2>1, <2>2, TameIs DEF RequestStart, ghosts
<1>2. ASSUME NEW s \in Strategy, RequestStop(t, s) PROVE Tame
  <2>1. ~At(t, "popen") /\ \A u \in Thread : u # t => th'[u] = th[u]
      BY <1>0, <1>2 DEF RequestStop, At, Idle, Call
  <2>2. SameProcess /\ (disk' = disk \/ disk' = config')
      BY <1>0, <1>r, <1>s, <1>2 DEF RequestStop, SameProcess, Save, SaveIf, Config
  <2> QED
      BY <1>2, <2>1, <2>2, TameIs DEF RequestStop, ghosts
<1>3. ASSUME NEW s \in Strategy, RequestDelete(t, s) PROVE Tame
  <2>1. ~At(t, "popen") /\ \A u \in Thread : u # t => th'[u] = th[u]
      BY <1>0, <1>3 DEF RequestDelete, At, Idle, Call
  <2>2. SameProcess /\ (disk' = disk \/ disk' = config')
      BY <1>0, <1>r, <1>s, <1>3 DEF RequestDelete, SameProcess, Save, SaveIf, Config
  <2> QED
      BY <1>3, <2>1, <2>2, TameIs DEF RequestDelete, ghosts
<1>4. ASSUME NEW s \in Strategy, ClearError(t, s) PROVE Tame
  <2>1. ~At(t, "popen") /\ \A u \in Thread : u # t => th'[u] = th[u]
      BY <1>0, <1>4 DEF ClearError, At, Idle
  <2>2. SameProcess /\ (disk' = disk \/ disk' = config')
      BY <1>0, <1>r, <1>s, <1>4 DEF ClearError, SameProcess, Save, SaveIf, Config
  <2> QED
      BY <1>4, <2>1, <2>2, TameIs DEF ClearError, ghosts
<1>5. ASSUME MarkStopped(t) PROVE Tame
  <2>1. ~At(t, "popen") /\ \A u \in Thread : u # t => th'[u] = th[u]
      BY <1>0, <1>5 DEF MarkStopped, At, Rest
  <2>2. SameProcess /\ (disk' = disk \/ disk' = config')
      BY <1>0, <1>r, <1>s, <1>5 DEF MarkStopped, SameProcess, Save, SaveIf, Config
  <2> QED
      BY <1>5, <2>1, <2>2, TameIs DEF MarkStopped, ghosts
<1> QED
    BY <1>1, <1>2, <1>3, <1>4, <1>5 DEF Request

\* Jobs and sweeps only call starts and stops.
LEMMA ScheduledTame ==
    ASSUME Inv, NEW t \in Thread, Scheduled(t)
    PROVE  Tame
<1>0. config \in [Strategy -> Config] /\ th \in [Thread -> Proper]
    BY DEF Inv, Shape
<1>r. \A s \in Strategy : config[s] \in Config
    BY <1>0
<1>s. UNCHANGED config => SameProcess
    BY DEF SameProcess
<1>1. ASSUME NEW s \in Strategy, ScheduledStart(t, s) PROVE Tame
  <2>1. ~At(t, "popen") /\ \A u \in Thread : u # t => th'[u] = th[u]
      BY <1>0, <1>1 DEF ScheduledStart, At, Idle, Call
  <2>2. SameProcess /\ (disk' = disk \/ disk' = config')
      BY <1>0, <1>r, <1>s, <1>1 DEF ScheduledStart, SameProcess, Save, SaveIf, Config
  <2> QED
      BY <1>1, <2>1, <2>2, TameIs DEF ScheduledStart, ghosts
<1>2. ASSUME NEW s \in Strategy, ScheduledStop(t, s) PROVE Tame
  <2>1. ~At(t, "popen") /\ \A u \in Thread : u # t => th'[u] = th[u]
      BY <1>0, <1>2 DEF ScheduledStop, At, Idle, Call
  <2>2. SameProcess /\ (disk' = disk \/ disk' = config')
      BY <1>0, <1>r, <1>s, <1>2 DEF ScheduledStop, SameProcess, Save, SaveIf, Config
  <2> QED
      BY <1>2, <2>1, <2>2, TameIs DEF ScheduledStop, ghosts
<1>3. ASSUME NEW s \in Strategy, Closed(t, s) PROVE Tame
  <2>1. ~At(t, "popen") /\ \A u \in Thread : u # t => th'[u] = th[u]
      BY <1>0, <1>3 DEF Closed, At
  <2>2. SameProcess /\ (disk' = disk \/ disk' = config')
      BY <1>0, <1>r, <1>s, <1>3 DEF Closed, SameProcess, Save, SaveIf, Config
  <2> QED
      BY <1>3, <2>1, <2>2, TameIs DEF Closed, ghosts
<1>4. ASSUME NEW s \in Strategy, Open(t, s) PROVE Tame
  <2>1. ~At(t, "popen") /\ \A u \in Thread : u # t => th'[u] = th[u]
      BY <1>0, <1>4 DEF Open, At
  <2>2. SameProcess /\ (disk' = disk \/ disk' = config')
      BY <1>0, <1>r, <1>s, <1>4 DEF Open, SameProcess, Save, SaveIf, Config
  <2> QED
      BY <1>4, <2>1, <2>2, TameIs DEF Open, ghosts
<1>5. ASSUME Sweep(t) PROVE Tame
  <2>1. ~At(t, "popen") /\ \A u \in Thread : u # t => th'[u] = th[u]
      BY <1>0, <1>5 DEF Sweep, At, Idle, Loop
  <2>2. SameProcess /\ (disk' = disk \/ disk' = config')
      BY <1>0, <1>r, <1>s, <1>5 DEF Sweep, SameProcess, Save, SaveIf, Config
  <2> QED
      BY <1>5, <2>1, <2>2, TameIs DEF Sweep, ghosts
<1>6. ASSUME Resumed(t) PROVE Tame
  <2>1. ~At(t, "popen") /\ \A u \in Thread : u # t => th'[u] = th[u]
      BY <1>0, <1>6 DEF Resumed, At
  <2>2. SameProcess /\ (disk' = disk \/ disk' = config')
      BY <1>0, <1>r, <1>s, <1>6 DEF Resumed, SameProcess, Save, SaveIf, Config
  <2> QED
      BY <1>6, <2>1, <2>2, TameIs DEF Resumed, ghosts
<1>7. ASSUME Paused(t) PROVE Tame
  <2>1. ~At(t, "popen") /\ \A u \in Thread : u # t => th'[u] = th[u]
      BY <1>0, <1>7 DEF Paused, At, Rest
  <2>2. SameProcess /\ (disk' = disk \/ disk' = config')
      BY <1>0, <1>r, <1>s, <1>7 DEF Paused, SameProcess, Save, SaveIf, Config
  <2> QED
      BY <1>7, <2>1, <2>2, TameIs DEF Paused, ghosts
<1>8. ASSUME EndSweep(t) PROVE Tame
  <2>1. ~At(t, "popen") /\ \A u \in Thread : u # t => th'[u] = th[u]
      BY <1>0, <1>8 DEF EndSweep, At, Rest
  <2>2. SameProcess /\ (disk' = disk \/ disk' = config')
      BY <1>0, <1>r, <1>s, <1>8 DEF EndSweep, SameProcess, Save, SaveIf, Config
  <2> QED
      BY <1>8, <2>1, <2>2, TameIs DEF EndSweep, ghosts
<1> QED
    BY <1>1, <1>2, <1>3, <1>4, <1>5, <1>6, <1>7, <1>8 DEF Scheduled

\* A restoration, between its adoption and the verdicts on what it restarts.
LEMMA RestoresTame ==
    ASSUME Inv, NEW t \in Thread, Restores(t), ~Restarted(t),
           \A op \in {"init", "login"} : ~Restore(t, op)
    PROVE  Tame
<1>0. config \in [Strategy -> Config] /\ th \in [Thread -> Proper]
    BY DEF Inv, Shape
<1>r. \A s \in Strategy : config[s] \in Config
    BY <1>0
<1>s. UNCHANGED config => SameProcess
    BY DEF SameProcess
<1>1. ASSUME NEW s \in Strategy, Restart(t, s) PROVE Tame
  <2>1. ~At(t, "popen") /\ \A u \in Thread : u # t => th'[u] = th[u]
      BY <1>0, <1>1 DEF Restart, At
  <2>2. SameProcess /\ (disk' = disk \/ disk' = config')
      BY <1>0, <1>r, <1>s, <1>1 DEF Restart, SameProcess, Save, SaveIf, Config
  <2> QED
      BY <1>1, <2>1, <2>2, TameIs DEF Restart, ghosts
<1>2. ASSUME NEW s \in Strategy, Try(t, s) PROVE Tame
  <2>1. ~At(t, "popen") /\ \A u \in Thread : u # t => th'[u] = th[u]
      BY <1>0, <1>2 DEF Try, At
  <2>2. SameProcess /\ (disk' = disk \/ disk' = config')
      BY <1>0, <1>r, <1>s, <1>2 DEF Try, SameProcess, Save, SaveIf, Config
  <2> QED
      BY <1>2, <2>1, <2>2, TameIs DEF Try, ghosts
<1>3. ASSUME EndRestore(t) PROVE Tame
  <2>1. ~At(t, "popen") /\ \A u \in Thread : u # t => th'[u] = th[u]
      BY <1>0, <1>3 DEF EndRestore, At
  <2>2. SameProcess /\ (disk' = disk \/ disk' = config')
      BY <1>0, <1>r, <1>s, <1>3 DEF EndRestore, SameProcess, Save, SaveIf, Config
  <2> QED
      BY <1>3, <2>1, <2>2, TameIs DEF EndRestore, ghosts
<1>4. ASSUME IterationFails(t) PROVE Tame
  <2>1. ~At(t, "popen") /\ \A u \in Thread : u # t => th'[u] = th[u]
      BY <1>0, <1>4 DEF IterationFails, At, Rest
  <2>2. SameProcess /\ (disk' = disk \/ disk' = config')
      BY <1>0, <1>r, <1>s, <1>4 DEF IterationFails, SameProcess, Save, SaveIf, Config
  <2> QED
      BY <1>4, <2>1, <2>2, TameIs DEF IterationFails, ghosts
<1>5. ASSUME Arm(t) PROVE Tame
  <2>1. ~At(t, "popen") /\ \A u \in Thread : u # t => th'[u] = th[u]
      BY <1>0, <1>5 DEF Arm, At, Loop
  <2>2. SameProcess /\ (disk' = disk \/ disk' = config')
      BY <1>0, <1>r, <1>s, <1>5 DEF Arm, SameProcess, Save, SaveIf, Config
  <2> QED
      BY <1>5, <2>1, <2>2, TameIs DEF Arm, ghosts
<1>6. ASSUME StartPending(t) PROVE Tame
  <2>1. ~At(t, "popen") /\ \A u \in Thread : u # t => th'[u] = th[u]
      BY <1>0, <1>6 DEF StartPending, At, Idle, Loop, Rest
  <2>2. SameProcess /\ (disk' = disk \/ disk' = config')
      BY <1>0, <1>r, <1>s, <1>6 DEF StartPending, SameProcess, Save, SaveIf, Config
  <2> QED
      BY <1>6, <2>1, <2>2, TameIs DEF StartPending, ghosts
<1>7. ASSUME Tried(t) PROVE Tame
  <2>1. ~At(t, "popen") /\ \A u \in Thread : u # t => th'[u] = th[u]
      BY <1>0, <1>7 DEF Tried, At
  <2>2. SameProcess /\ (disk' = disk \/ disk' = config')
      BY <1>0, <1>r, <1>s, <1>7 DEF Tried, SameProcess, Save, SaveIf, Config
  <2> QED
      BY <1>7, <2>1, <2>2, TameIs DEF Tried, ghosts
<1>8. ASSUME EndPending(t) PROVE Tame
  <2>1. ~At(t, "popen") /\ \A u \in Thread : u # t => th'[u] = th[u]
      BY <1>0, <1>8 DEF EndPending, At, Rest
  <2>2. SameProcess /\ (disk' = disk \/ disk' = config')
      BY <1>0, <1>r, <1>s, <1>8 DEF EndPending, SameProcess, Save, SaveIf, Config
  <2> QED
      BY <1>8, <2>1, <2>2, TameIs DEF EndPending, ghosts
<1> QED
    BY <1>1, <1>2, <1>3, <1>4, <1>5, <1>6, <1>7, <1>8 DEF Restores

\* An answer moves no other thread.
LEMMA OnlyReturns ==
    ASSUME Inv, NEW t \in Thread, NEW res, Return(t, res)
    PROVE  \A u \in Thread : u # t => th'[u] = th[u]
BY DEF Return, Inv, Shape

\* Refusals and signals write no record.
LEMMA RefuseTame ==
    ASSUME Inv, NEW t \in Thread, Refuse(t) \/ NotRunning(t) \/ Terminate(t)
    PROVE  Tame
<1>1. ~At(t, "popen")
    BY DEF Refuse, NotRunning, Terminate, At
<1>2. UNCHANGED <<proc, lost, misled, config, disk>>
    BY DEF Refuse, NotRunning, Terminate, ghosts
<1>3. \A u \in Thread : u # t => th'[u] = th[u]
  <2>1. CASE Refuse(t) \/ NotRunning(t)
      BY <2>1, OnlyReturns DEF Refuse, NotRunning
  <2>2. CASE Terminate(t)
      BY <2>2 DEF Terminate, Inv, Shape
  <2> QED
      BY <2>1, <2>2
<1> QED
    BY <1>1, <1>2, <1>3, TameIs DEF SameProcess

\* A process that exits takes its own record along.
LEMMA ExitsTame ==
    ASSUME Inv, NEW p \in Pid, Exits(p) \/ Deny(p)
    PROVE  Tame
<1>1. \A q \in Pid : q \notin lost' /\ proc'[q] # "none" => q \notin lost /\ proc'[q] = proc[q]
    BY DEF Exits, Deny, Inv, Shape
<1>2. \A s \in Strategy : (Of(s))' \subseteq Of(s)
    BY <1>1, HostAssumption DEF Of
<1> QED
    BY <1>2 DEF Exits, Deny, Tame, SameProcess

\* A stutter.
LEMMA UnchangedTame == UNCHANGED vars => Tame
BY DEF vars, Tame, Of, SameProcess

\* Popen: the new process is being started, and it is the strategy's only one.
LEMMA SpawnRecorded ==
    ASSUME Inv, Inv', AllRecorded, NEW t \in Thread, Spawn(t)
    PROVE  AllRecorded'
<1>0. th \in [Thread -> Proper] /\ th[t].s \in Strategy /\ ~At(t, "popen")
    BY ThreadIs DEF Inv, Shape, Spawn, At, OnStrategy, Working
<1> SUFFICES ASSUME NEW s \in Strategy, NEW p \in (Of(s))'
             PROVE  (Recorded(s, p))'
    BY DEF AllRecorded
<1>1. th'[t].pc = "popen" /\ th'[t].s = th[t].s /\ \A u \in Thread : u # t => th'[u] = th[u]
    BY <1>0 DEF Spawn, Proper, State
<1>2. CASE s = th[t].s
  <2>1. (Of(s))' \subseteq {th'[t].pid}
      BY <1>1, <1>2 DEF Inv, Alone
  <2> QED
      BY <1>1, <1>2, <2>1 DEF Recorded, Starting, At
<1>3. CASE s # th[t].s
  <2>1. p \in Of(s)
      BY <1>0, <1>3 DEF Spawn, Of, ghosts, Inv, Shape
  <2>2. Recorded(s, p)
      BY <2>1 DEF AllRecorded
  <2>3. Starting(s, p) => (Starting(s, p))'
      BY <1>0, <1>1 DEF Starting, At
  <2> QED
      BY <2>2, <2>3, RecordedStays DEF Spawn, ghosts
<1> QED
    BY <1>2, <1>3

\* The process is entered: from now on both records lead to it.
LEMMA StartedRecorded ==
    ASSUME Inv, AllRecorded, NEW t \in Thread, Started(t)
    PROVE  AllRecorded'
<1>0. /\ th \in [Thread -> Proper] /\ th[t].s \in Strategy /\ config \in [Strategy -> Config]
      /\ Alone(t)
    BY ThreadIs DEF Inv, Shape, Started, At, OnStrategy, Working
<1> SUFFICES ASSUME NEW s \in Strategy, NEW p \in (Of(s))'
             PROVE  (Recorded(s, p))'
    BY DEF AllRecorded
<1>1. p \in Of(s) /\ UNCHANGED misled /\ disk' = config'
    BY DEF Started, Of, ghosts, Save
<1>2. CASE s = th[t].s
  <2>1. p = th[t].pid /\ config[s].exists
      BY <1>0, <1>1, <1>2 DEF Started, At, Alone
  <2>2. config'[s].pid = th[t].pid /\ config'[s].exists = config[s].exists
      BY <1>0, <1>2 DEF Started, Config
  <2> QED
      BY <1>1, <2>1, <2>2 DEF Recorded
<1>3. CASE s # th[t].s
  <2>1. Recorded(s, p)
      BY <1>1 DEF AllRecorded
  <2>2. \A u \in Thread : u # t => th'[u] = th[u]
      BY <1>0 DEF Started, Return
  <2>3. Starting(s, p) => (Starting(s, p))'
      BY <1>3, <2>2 DEF Starting, At
  <2>4. config'[s] = config[s]
      BY <1>0, <1>3 DEF Started
  <2> QED
      BY <1>1, <2>1, <2>3, <2>4, RecordedStays
<1> QED
    BY <1>2, <1>3

\* The end of a stop: the records of the strategy go, and so has its only process,
\* or it is lost.
LEMMA StopRecorded ==
    ASSUME Inv, AllRecorded, NEW t \in Thread, Stopped(t) \/ Stuck(t)
    PROVE  AllRecorded'
<1>0. /\ th \in [Thread -> Proper] /\ th[t].s \in Strategy /\ config \in [Strategy -> Config]
      /\ Alone(t) /\ th[t].pc = "kill" /\ proc \in [Pid -> Strategy \cup {"none"}]
    BY ThreadIs DEF Inv, Shape, Stopped, Stuck, At, OnStrategy, Working
<1> SUFFICES ASSUME NEW s \in Strategy, NEW p \in (Of(s))'
             PROVE  (Recorded(s, p))'
    BY DEF AllRecorded
<1>1. \A u \in Thread : u # t => th'[u] = th[u]
    BY <1>0 DEF Stopped, Stuck, Forget, Return
<1>2. Starting(s, p) => (Starting(s, p))'
    BY <1>0, <1>1 DEF Starting, At
<1>3. p \in Of(s) /\ (p = th[t].pid => ~Stopped(t))
  <2>1. CASE Stopped(t)
      BY <1>0, <2>1, HostAssumption DEF Stopped, Of
  <2>2. CASE Stuck(t)
    <3>1. proc' = proc /\ lost \subseteq lost'
        BY <2>2 DEF Stuck
    <3>2. ~Stopped(t)
        BY <1>0, <2>2, <3>1, HostAssumption DEF Stuck, Stopped, Alive, Inv, Shape
    <3> QED
        BY <3>1, <3>2 DEF Of
  <2> QED
      BY <2>1, <2>2 DEF Stopped, Stuck
<1>4. Recorded(s, p) /\ UNCHANGED misled
    BY <1>3 DEF AllRecorded, Stopped, Stuck
<1>5. CASE UNCHANGED <<config, disk>>
    BY <1>2, <1>4, <1>5, RecordedStays
<1>6. CASE Forget(t) /\ s # th[t].s
  <2>1. config'[s] = config[s]
      BY <1>0, <1>6 DEF Forget
  <2>2. disk'[s] \in {disk[s], config'[s]}
      BY <1>6 DEF Forget, SaveIf
  <2> QED
      BY <1>2, <1>4, <2>1, <2>2, RecordedStays
<1>7. CASE s = th[t].s /\ ~UNCHANGED <<config, disk>>
  <2>1. p = th[t].pid
      BY <1>0, <1>3, <1>7 DEF Alone
  <2>2. Stuck(t) /\ th[t].res # "table"
      BY <1>3, <1>7, <2>1 DEF Stuck, Stopped
  <2> QED
      BY <2>1, <2>2 DEF Stuck, Of
<1> QED
    BY <1>5, <1>6, <1>7 DEF Stopped, Stuck

\* A configuration is deleted when its strategy has no process.
LEMMA DeleteRecorded ==
    ASSUME Inv, AllRecorded, NEW t \in Thread, Delete(t)
    PROVE  AllRecorded'
<1>0. /\ th \in [Thread -> Proper] /\ th[t].s \in Strategy /\ config \in [Strategy -> Config]
      /\ Alone(t) /\ th[t].pc = "delete"
    BY ThreadIs DEF Inv, Shape, Delete, At, OnStrategy
<1> SUFFICES ASSUME NEW s \in Strategy, NEW p \in (Of(s))'
             PROVE  (Recorded(s, p))'
    BY DEF AllRecorded
<1>1. p \in Of(s) /\ UNCHANGED misled /\ disk' = config'
    BY DEF Delete, Of, ghosts, Save
<1>2. s # th[t].s
    BY <1>0, <1>1 DEF Alone
<1>3. Starting(s, p) => (Starting(s, p))'
    BY <1>0 DEF Starting, At, Delete, Rest
<1>4. config'[s] = config[s]
    BY <1>0, <1>2 DEF Delete
<1> QED
    BY <1>1, <1>3, <1>4, RecordedStays DEF AllRecorded

\* The reaper takes away no record that leads to a process that runs.
LEMMA ReapKeeps ==
    ASSUME Inv, Reap, NEW s \in Strategy
    PROVE  /\ UNCHANGED <<proc, lost, misled, th>>
           /\ config'[s].exists = config[s].exists
           /\ Alive(config[s].pid) => config'[s].pid = config[s].pid
           /\ disk'[s] \in {disk[s], config'[s]}
<1> DEFINE fix == {q \in Existing : Dead(q) \/ Stale(q)}
<1>1. /\ UNCHANGED <<proc, lost, misled, th>>
      /\ config' = [q \in Strategy |-> IF q \in fix THEN [config[q] EXCEPT !.running = FALSE, !.pid = 0]
                                       ELSE config[q]]
      /\ SaveIf(fix # {})
    BY DEF Reap, ghosts
<1>2. Alive(config[s].pid) => s \notin fix
    BY RecordIs DEF Dead, Stale, Agree
<1> HIDE DEF fix
<1>3. config'[s] = config[s] \/ (s \in fix /\ config'[s] = [config[s] EXCEPT !.running = FALSE, !.pid = 0])
    BY <1>1
<1>4. config'[s].exists = config[s].exists
    BY <1>3, RecordIs DEF Config
<1>5. disk'[s] \in {disk[s], config'[s]}
    BY <1>1 DEF SaveIf
<1> QED
    BY <1>1, <1>2, <1>3, <1>4, <1>5

\* The reaper at the end of an answer.
LEMMA ReapRecorded ==
    ASSUME Inv, AllRecorded, Reap
    PROVE  AllRecorded'
<1> SUFFICES ASSUME NEW s \in Strategy, NEW p \in (Of(s))'
             PROVE  (Recorded(s, p))'
    BY DEF AllRecorded
<1>1. p \in Of(s) /\ UNCHANGED <<misled, th>>
    BY ReapKeeps DEF Of
<1>2. Recorded(s, p) /\ Alive(p)
    BY <1>1, LiveIs DEF AllRecorded
<1>3. Starting(s, p) => (Starting(s, p))'
    BY <1>1 DEF Starting, At
<1> QED
    BY <1>1, <1>2, <1>3, ReapKeeps, RecordedStays

\* Without the contracts a restoration calls off what has died, and only that.
LEMMA WaitKeeps ==
    ASSUME Inv, DeadWait, NEW s \in Strategy
    PROVE  /\ config'[s].exists = config[s].exists
           /\ Ours(config[s].pid) => config'[s].pid = config[s].pid
<1> DEFINE c == [config[s] EXCEPT !.running = FALSE, !.pid = 0, !.error = "waiting"]
<1>1. PICK z \in hidden :
         config' = [r \in Strategy |-> IF config[r].running /\ ~Seen(config[r].pid, z)
                      THEN [config[r] EXCEPT !.running = FALSE, !.pid = 0, !.error = "waiting"]
                      ELSE config[r]]
    BY DEF DeadWait
<1>2. Ours(config[s].pid) => Seen(config[s].pid, z)
    BY DEF Seen, Ours, hidden
<1>3. c.exists = config[s].exists
    BY RecordIs DEF Config
<1>4. config'[s] = c \/ config'[s] = config[s]
    BY <1>1
<1> HIDE DEF c
<1>5. config'[s].exists = config[s].exists
    BY <1>3, <1>4
<1>6. Ours(config[s].pid) => config'[s] = config[s]
    BY <1>1, <1>2
<1> QED
    BY <1>5, <1>6

\* A restoration begins: what is alive keeps its record.
LEMMA RestoreRecorded ==
    ASSUME Inv, AllRecorded, NEW t \in Thread, NEW op \in {"init", "login"}, Restore(t, op)
    PROVE  AllRecorded'
<1>0. th \in [Thread -> Proper] /\ th[t].pc = "idle"
    BY DEF Inv, Shape, Restore, Idle, At
<1> SUFFICES ASSUME NEW s \in Strategy, NEW p \in (Of(s))'
             PROVE  (Recorded(s, p))'
    BY DEF AllRecorded
<1>1. p \in Of(s) /\ UNCHANGED misled
    BY DEF Restore, Of, ghosts
<1>2. Recorded(s, p) /\ Ours(p) /\ config[s] \in Config
    BY <1>1, LiveIs, RecordIs DEF AllRecorded
<1>3. \A u \in Thread : u # t => th'[u] = th[u]
    BY <1>0 DEF Restore, Call
<1>4. Starting(s, p) => (Starting(s, p))'
    BY <1>0, <1>3 DEF Starting, At
<1>5. CASE UNCHANGED <<config, disk>>
    BY <1>1, <1>2, <1>4, <1>5, RecordedStays
<1>6. CASE DeadWait /\ disk' = config'
  <2>1. disk'[s] = config'[s]
      BY <1>6
  <2> QED
      BY <1>1, <1>2, <1>4, <1>6, <2>1, WaitKeeps, RecordedStays
<1> QED
    BY <1>5, <1>6 DEF Restore, Save

\* A restoration that could not start a strategy calls it failed: of one that runs
\* it is remembered that it was misled.
LEMMA RestartedRecorded ==
    ASSUME Inv, AllRecorded, NEW t \in Thread, Restarted(t)
    PROVE  AllRecorded'
<1>0. /\ th \in [Thread -> Proper] /\ th[t].s \in Strategy /\ config \in [Strategy -> Config]
      /\ th[t].pc = "restarted" /\ th[t].op \in Restoring
    BY ThreadIs DEF Inv, Shape, Restarted, At, OnStrategy, Proper
<1> SUFFICES ASSUME NEW s \in Strategy, NEW p \in (Of(s))'
             PROVE  (Recorded(s, p))'
    BY DEF AllRecorded
<1>1. p \in Of(s) /\ UNCHANGED disk
    BY DEF Restarted, Of
<1>2. Recorded(s, p) /\ Alive(p) /\ Ours(p) /\ Agree(s) /\ ~Wild(s)
    BY <1>0, <1>1, LiveIs, RecordIs DEF AllRecorded, Inv, Tamed
<1>3. \A u \in Thread : u # t => th'[u] = th[u]
    BY <1>0 DEF Restarted
<1>4. Starting(s, p) => (Starting(s, p))'
    BY <1>0, <1>3 DEF Starting, At
<1>5. CASE UNCHANGED <<config, misled>>
    BY <1>1, <1>2, <1>4, <1>5, RecordedStays
<1>6. CASE ~UNCHANGED <<config, misled>>
  <2>1. /\ config[th[t].s].exists
        /\ config' = [config EXCEPT ![th[t].s].running = FALSE, ![th[t].s].pid = 0,
             ![th[t].s].error = IF th[t].res = "contracts" THEN "waiting" ELSE "failed"]
        /\ misled' = IF Alive(table[th[t].s]) THEN misled \cup {th[t].s} ELSE misled
      BY <1>6 DEF Restarted
  <2>2. config'[s].exists = config[s].exists /\ (s # th[t].s => config'[s] = config[s])
      BY <1>0, <2>1 DEF Config
  <2>3. s = th[t].s /\ config[s].pid = p => s \in misled'
      BY <1>2, <2>1 DEF Agree, Wild
  <2>4. misled \subseteq misled'
      BY <2>1
  <2> QED
      BY <1>1, <1>2, <1>4, <2>2, <2>3, <2>4, RecordedStays
<1> QED
    BY <1>5, <1>6

\* What an exit leaves running and in sight is in the file, under its pid.
LEMMA ExitLeaves ==
    ASSUME Exit
    PROVE  /\ disk' = config'
           /\ \A p \in Pid : p \notin lost' /\ proc'[p] # "none" => disk'[proc'[p]].pid = p
BY DEF Exit

\* A server that dies has lost sight of what is not in its file; what it has not lost
\* is read from there.
LEMMA BootRecorded ==
    ASSUME Inv, Inv', Crash \/ Exit
    PROVE  AllRecorded'
<1> SUFFICES ASSUME NEW s \in Strategy, NEW p \in (Of(s))'
             PROVE  (Recorded(s, p))'
    BY DEF AllRecorded
<1>1. p \in Pid /\ p \notin lost' /\ proc'[p] = s /\ p # 0 /\ s # "none"
  <2>1. p \in Pid /\ p \notin lost' /\ proc'[p] = s
      BY DEF Of
  <2>2. p # 0
      BY <2>1, HostAssumption, SMT DEF Pid
  <2> QED
      BY <2>1, <2>2, HostAssumption
<1>2. config'[s] = disk'[s] /\ disk'[s].pid = p
  <2>1. CASE Crash
      BY <1>1, <2>1 DEF Crash, OnDisk, Alive
  <2>2. CASE Exit
      BY <1>1, <2>2, ExitLeaves
  <2> QED
      BY <2>1, <2>2
<1>3. config'[s].exists
  <2>1. config' \in [Strategy -> {c \in Config : Settled(c)}]
      BY DEF Inv, Shape
  <2> QED
      BY <1>1, <1>2, <2>1 DEF Settled
<1> QED
    BY <1>2, <1>3 DEF Recorded

LEMMA RecordedHolds == Spec => [](Inv /\ AllRecorded)
<1>1. Init => AllRecorded
    BY HostAssumption DEF Init, AllRecorded, Of
<1>2. ASSUME Inv, Inv', AllRecorded, [Next]_vars PROVE AllRecorded'
  <2>1. ASSUME NEW t \in Thread, Request(t) \/ Scheduled(t) \/ Restores(t) PROVE AllRecorded'
      BY <1>2, <2>1, TameRecorded, RequestTame, ScheduledTame, RestoresTame, DeleteRecorded,
         RestoreRecorded, RestartedRecorded
  <2>2. ASSUME NEW t \in Thread,
               Refuse(t) \/ Spawn(t) \/ Started(t) \/ NotRunning(t) \/ Terminate(t) \/ Stopped(t) \/ Stuck(t)
        PROVE  AllRecorded'
      BY <1>2, <2>2, TameRecorded, RefuseTame, SpawnRecorded, StartedRecorded, StopRecorded
  <2>3. CASE \/ \E p \in Pid : Exits(p) \/ Deny(p)
             \/ UNCHANGED vars
      BY <1>2, <2>3, TameRecorded, ExitsTame, UnchangedTame
  <2>4. CASE Reap \/ Crash \/ Exit
      BY <1>2, <2>4, ReapRecorded, BootRecorded
  <2> QED
      BY <1>2, <2>1, <2>2, <2>3, <2>4 DEF Next
<1> QED
    BY <1>1, <1>2, InitInv, NextInv, PTL DEF Spec

\* Every process that runs, is not lost and may be inspected can be found, and
\* the file says so unless a restoration called it failed: by starts, stops,
\* deletions, the reaper and restorations in any order (_get_running_pid,
\* save_configs).
THEOREM NothingForgotten == Spec => []NoneForgotten
<1>1. ASSUME Inv, AllRecorded PROVE NoneForgotten
  <2> SUFFICES ASSUME NEW s \in Strategy, NEW p \in Of(s)
               PROVE  \/ \E t \in Thread : At(t, "popen") /\ th[t].pid = p
                      \/ /\ config[s].exists
                         /\ table[s] = p \/ (config[s].running /\ config[s].pid = p)
                         /\ s \in misled \/ OnDisk(p)
      BY DEF NoneForgotten
  <2>1. Recorded(s, p) /\ Known(s, p) /\ p # 0 /\ proc[p] = s
      BY <1>1, LiveIs DEF AllRecorded
  <2>2. Settled(config[s]) /\ Settled(disk[s])
      BY <1>1, RecordIs
  <2> QED
      BY <2>1, <2>2 DEF Recorded, Starting, Known, OnDisk, Settled
<1> QED
    BY <1>1, RecordedHolds, PTL

=============================================================================
