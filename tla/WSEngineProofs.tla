--------------------------- MODULE WSEngineProofs ---------------------------
(***************************************************************************)
(* That the engine's refcount counts its users, that it forgets no open    *)
(* order, and that it fills no order twice when it runs alone, for any     *)
(* number of orders and request threads.                                   *)
(***************************************************************************)
EXTENDS WSEngine, FiniteSetTheorems, TLAPS

\* Which threads can be where.
Stage ==
    /\ \A c \in Client : th[c].pc \notin {"todo", "drop", "unsubscribe"}
    /\ th[Ticker].pc \notin {"cancel", "notify", "subscribe"}
    /\ th[Poller].pc \notin
         {"cancel", "notify", "subscribe", "refresh", "drop", "unsubscribe"}

Shape == TypeOK /\ Stage

\* A thread that is through with no order yet has one in hand.
Hand == Pc \ {"idle", "cancel", "subscribe", "todo", "unsubscribe"}

\* Orders that threads know of have been placed.
Known ==
    /\ \A o \in watch : status[o] # "none"
    /\ \A t \in Thread :
         /\ th[t].pc \notin {"idle", "todo"} => status[th[t].o] # "none"
         /\ \A o \in th[t].todo : status[o] # "none"

\* Orders on their way to the index are new to it, and each has one request.
Arriving ==
    \A c \in Client : th[c].pc \in Hand =>
        /\ th[c].o \notin watch
        /\ \A d \in Client : th[d].pc \in Hand /\ th[c].o = th[d].o => c = d

\* Only the tick thread takes orders out of the index, so what it works on is
\* there until it drops it.
Leaving ==
    /\ th[Ticker].todo \subseteq watch
    /\ th[Ticker].pc \in Hand =>
         /\ th[Ticker].o \in watch
         /\ th[Ticker].o \notin th[Ticker].todo
    /\ th[Ticker].pc = "drop" => status[th[Ticker].o] # "open"

Tracks == Known /\ Arriving /\ Leaving /\ OpenIsWatched
IndexInv == Shape /\ Tracks /\ RefsExact

\* A thread about to record a trade is the only one to fill its order.
OneFill ==
    /\ th[Poller].pc = "idle"
    /\ \A o \in Order : status[o] = "none" => trades[o] = 0
    /\ \A c \in Client : th[c].pc \in {"check", "trade"} => trades[th[c].o] = 0
    /\ th[Ticker].pc = "trade" => trades[th[Ticker].o] = 0
    /\ FillsOnce

NoFallback == "fallback" \notin Faults

-----------------------------------------------------------------------------
\* Requests, the tick thread and the polling thread are different threads.
LEMMA ThreadsDiffer ==
    /\ Ticker \in Thread /\ Poller \in Thread /\ Client \subseteq Thread
    /\ Ticker \notin Client /\ Poller \notin Client /\ Ticker # Poller
BY WSEngineAssumption DEF WSEngineAssumption, Thread

\* The initial state.
LEMMA ShapeInit == Init => Shape
<1> SUFFICES ASSUME Init PROVE Shape
  OBVIOUS
<1>1. Idle \in [pc : Pc, o : Order \cup {"none"}, todo : SUBSET Order, qty : Int]
  BY DEF Idle, Pc
<1>2. TypeOK
  BY <1>1 DEF Init, TypeOK, Idle
<1>3. Stage
  BY ThreadsDiffer DEF Init, Stage, Idle
<1> QED
  BY <1>2, <1>3 DEF Shape

\* Where a thread goes when it is through with a fill.
LEMMA FilledGoes ==
  ASSUME NEW t \in Thread, Filled(t)
  PROVE  \E pc \in {"todo", "refresh"} :
           /\ th' = [th EXCEPT ![t].pc = pc]
           /\ pc = "todo" <=> t = Poller
BY DEF Filled, Goto

\* Every step keeps the shape of the state.
LEMMA ShapeNext == Shape /\ [Next]_vars => Shape'
<1> SUFFICES ASSUME Shape, [Next]_vars PROVE Shape'
  OBVIOUS
<1> USE ThreadsDiffer DEF Shape, TypeOK, Stage
<1>1. ASSUME NEW c \in Client, NEW o \in Order, Place(c, o) PROVE Shape'
  BY <1>1 DEF Place, At, With, Pc, index
<1>2. ASSUME NEW c \in Client, NEW o \in Order, Cancel(c, o) PROVE Shape'
  BY <1>2 DEF Cancel, At, With, Pc, index, book
<1>3. ASSUME NEW c \in Client, CancelCommit(c) PROVE Shape'
  <2>1. th' = [th EXCEPT ![c] = Idle] /\ c \in Thread /\ c # Ticker /\ c # Poller
    BY <1>3 DEF CancelCommit, Rest
  <2>2. Idle \in [pc : Pc, o : Order \cup {"none"}, todo : SUBSET Order, qty : Int]
    BY DEF Idle, Pc
  <2>3. Idle.pc = "idle"
    BY DEF Idle
  <2> QED
    BY <1>3, <2>1, <2>2, <2>3 DEF CancelCommit, At, index
<1>4. ASSUME NEW t \in Thread, Look(t) PROVE Shape'
  BY <1>4 DEF Look, At, Todo, Pc, index, book
<1>5. ASSUME NEW t \in Thread, Take(t) PROVE Shape'
  BY <1>5 DEF Take, At, With, Idle, Pc, index, book
<1>6. ASSUME NEW t \in Thread, Check(t) PROVE Shape'
  BY <1>6 DEF Check, At, Goto, Filled, Pc, index
<1>7. ASSUME NEW t \in Thread, Trade(t) PROVE Shape'
  BY <1>7 DEF Trade, At, Goto, Pc, index
<1>8. ASSUME NEW t \in Thread, ReadPosition(t) PROVE Shape'
  BY <1>8 DEF ReadPosition, At, With, Pc, index, book
<1>9. ASSUME NEW t \in Thread, WritePosition(t) PROVE Shape'
  BY <1>9 DEF WritePosition, At, Goto, Filled, Pc, index
<1>10. ASSUME NEW t \in Thread, HasOpen(t) \/ Flat(t) \/ Refresh(t) PROVE Shape'
  BY <1>10 DEF HasOpen, Flat, Refresh, Rest, Idle, At, Goto, Filled, Pc, index, book
<1>11. ASSUME NEW t \in Thread, Opened(t) \/ Closed(t) PROVE Shape'
  <2>1. Less(refs) \in Nat
    BY DEF Less
  <2>2. CASE Opened(t)
    BY <2>2 DEF Opened, At, Goto, Filled, Pc, book
  <2>3. CASE Closed(t)
    <3>1. /\ refs' \in Nat /\ posref' \in BOOLEAN
          /\ th[t].o \in Order
      BY <2>1, <2>3 DEF Closed, At
    <3>2. CASE Goto(t, "unsubscribe_position")
      BY <2>3, <3>1, <3>2 DEF Closed, Goto, Pc, book
    <3>3. CASE Filled(t)
      BY <2>3, <3>1, <3>3, FilledGoes DEF Closed, Pc, book
    <3> QED
      BY <2>3, <3>2, <3>3 DEF Closed
  <2> QED
    BY <1>11, <2>2, <2>3
<1>12. ASSUME NEW t \in Thread, Notify(t) \/ Drop(t) PROVE Shape'
  BY <1>12 DEF Notify, Drop, Less, Rest, Idle, At, Goto, Pc, book
<1>13. ASSUME NEW t \in Thread, Subscribe(t) \/ Unsubscribe(t) PROVE Shape'
  <2>1. CASE Subscribe(t) /\ At(t, "subscribe")
    BY <2>1 DEF Subscribe, Rest, Idle, At, Goto, Pc, book, index
  <2>2. CASE Subscribe(t) /\ ~At(t, "subscribe")
    <3>1. th[t].o \in Order /\ Filled(t) /\ th[t].pc = "subscribe_position"
      BY <2>2 DEF Subscribe, At
    <3> QED
      BY <2>2, <3>1, FilledGoes DEF Subscribe, Pc, book, index
  <2>3. CASE Unsubscribe(t) /\ At(t, "unsubscribe")
    <3>1. th[t].o \in Order /\ t = Ticker
      BY <2>3 DEF At, Thread
    <3>2. feed' \in BOOLEAN
      BY <2>3 DEF Unsubscribe
    <3>3. th' = [th EXCEPT ![t].pc = "todo"]
      BY <2>3, <3>1 DEF Unsubscribe, Rest, At, Goto
    <3> QED
      BY <2>3, <3>1, <3>2, <3>3 DEF Unsubscribe, Pc, book, index
  <2>4. CASE Unsubscribe(t) /\ ~At(t, "unsubscribe")
    <3>1. th[t].o \in Order /\ Filled(t) /\ th[t].pc = "unsubscribe_position"
      BY <2>4 DEF Unsubscribe, At
    <3>2. feed' \in BOOLEAN
      BY <2>4 DEF Unsubscribe
    <3> QED
      BY <2>4, <3>1, <3>2, FilledGoes DEF Unsubscribe, Pc, book, index
  <2> QED
    BY <1>13, <2>1, <2>2, <2>3, <2>4
<1>14. CASE UNCHANGED vars
  BY <1>14 DEF vars, book, index
<1> QED
  BY <1>1, <1>2, <1>3, <1>4, <1>5, <1>6, <1>7, <1>8, <1>9, <1>10, <1>11, <1>12,
     <1>13, <1>14 DEF Next, Step

-----------------------------------------------------------------------------
\* A request that has yet to tell the engine of its order has it in hand.
LEMMA PlacingIsHand ==
  ASSUME Shape, NEW c \in Client, NEW o \in Order
  PROVE  Placing(c, o) <=> th[c].o = o /\ th[c].pc \in Hand
BY ThreadsDiffer DEF Shape, TypeOK, Stage, Placing, Hand

\* The initial state.
LEMMA IndexInit == Init => IndexInv
<1> SUFFICES ASSUME Init PROVE IndexInv
  OBVIOUS
<1>1. Shape
  BY ShapeInit
<1>2. Tracks
  BY ThreadsDiffer DEF Init, Tracks, Known, Arriving, Leaving, OpenIsWatched, Idle, Hand
<1>3. RefsExact
  BY FS_EmptySet DEF Init, RefsExact
<1> QED
  BY <1>1, <1>2, <1>3 DEF IndexInv

\* A thread that goes on with the order it has in hand disturbs nothing, as long
\* as statuses only close.
LEMMA GoingOn ==
  ASSUME Shape, Shape', Tracks, untold \subseteq untold',
         NEW t \in Thread, NEW r,
         th' = [th EXCEPT ![t] = r],
         r.o = th[t].o, r.todo = th[t].todo,
         t # Poller => th[t].pc \in Hand /\ r.pc \in Hand,
         r.pc \notin {"idle", "todo"} => th[t].pc \notin {"idle", "todo"},
         t = Ticker /\ r.pc = "drop" => status'[r.o] # "open",
         watch' = watch,
         \A o \in Order : \/ status'[o] = status[o]
                          \/ status[o] # "none" /\ status'[o] \notin {"none", "open"}
  PROVE  Tracks'
<1> USE ThreadsDiffer
<1>1. /\ th'[t] = r
      /\ \A u \in Thread : u # t => th'[u] = th[u]
  BY DEF Shape, TypeOK
<1>2. \A o \in Order : status'[o] = "none" => status[o] = "none"
  OBVIOUS
<1>3. /\ \A u \in Thread : th[u].pc \notin {"idle", "todo"} => th[u].o \in Order
      /\ \A u \in Thread : th[u].todo \subseteq Order
      /\ watch \subseteq Order
  BY DEF Shape, TypeOK
<1>4. Known'
  BY <1>1, <1>2, <1>3 DEF Tracks, Known
<1>5. Arriving'
  BY <1>1 DEF Tracks, Arriving
<1>6. Leaving'
  <2>1. CASE t = Ticker
    BY <1>1, <2>1 DEF Tracks, Leaving
  <2>2. CASE t # Ticker
    <3>1. th'[Ticker] = th[Ticker]
      BY <1>1, <2>2
    <3>2. th[Ticker].pc = "drop" => th[Ticker].o \in Order
      BY <1>3
    <3> QED
      BY <3>1, <3>2 DEF Tracks, Leaving
  <2> QED
    BY <2>1, <2>2
<1>7. OpenIsWatched'
  <2> SUFFICES ASSUME NEW o \in Order \ untold, status'[o] = "open", o \notin watch
               PROVE  \E c \in Client : Placing(c, o)'
    BY DEF OpenIsWatched
  <2>1. PICK c \in Client : Placing(c, o)
    BY DEF Tracks, OpenIsWatched
  <2>2. th[c].o = o /\ th[c].pc \in Hand
    BY <2>1, PlacingIsHand
  <2>3. th'[c].o = o /\ th'[c].pc \in Hand
    BY <1>1, <2>2
  <2> QED
    BY <2>3 DEF Placing, Hand
<1> QED
  BY <1>4, <1>5, <1>6, <1>7 DEF Tracks

\* The same, of a thread that only moves on.
LEMMA GoingTo ==
  ASSUME Shape, Shape', Tracks, untold \subseteq untold',
         NEW t \in Thread, NEW pc,
         th' = [th EXCEPT ![t].pc = pc],
         t # Poller => th[t].pc \in Hand /\ pc \in Hand,
         pc \notin {"idle", "todo"} => th[t].pc \notin {"idle", "todo"},
         t = Ticker /\ pc = "drop" => status'[th[t].o] # "open",
         watch' = watch,
         \A o \in Order : \/ status'[o] = status[o]
                          \/ status[o] # "none" /\ status'[o] \notin {"none", "open"}
  PROVE  Tracks'
<1> DEFINE r == [th[t] EXCEPT !.pc = pc]
<1>1. r.pc = pc /\ r.o = th[t].o /\ r.todo = th[t].todo
  BY DEF Shape, TypeOK
<1>2. th' = [th EXCEPT ![t] = r]
  OBVIOUS
<1>3. /\ t # Poller => th[t].pc \in Hand /\ r.pc \in Hand
      /\ r.pc \notin {"idle", "todo"} => th[t].pc \notin {"idle", "todo"}
      /\ t = Ticker /\ r.pc = "drop" => status'[r.o] # "open"
  BY <1>1
<1> HIDE DEF r
<1> QED
  BY <1>1, <1>2, <1>3, GoingOn

\* An order in hand has been placed.
LEMMA InHandIsPlaced ==
  ASSUME Shape, Tracks, NEW t \in Thread, th[t].pc \notin {"idle", "todo"}
  PROVE  th[t].o \in Order /\ status[th[t].o] # "none"
BY DEF Shape, TypeOK, Tracks, Known

\* The steps of a fill.
LEMMA FillTracks ==
  ASSUME Shape, Shape', Tracks, untold \subseteq untold', NEW t \in Thread,
         \/ Check(t) \/ Trade(t) \/ ReadPosition(t) \/ WritePosition(t) \/ HasOpen(t)
         \/ Opened(t) \/ Flat(t) \/ Closed(t)
         \/ Subscribe(t) /\ At(t, "subscribe_position")
         \/ Unsubscribe(t) /\ At(t, "unsubscribe_position")
  PROVE  Tracks'
<1>1. th[t].pc \in Hand /\ th[t].pc \notin {"idle", "todo"}
  BY DEF Check, Trade, ReadPosition, WritePosition, HasOpen, Opened, Flat, Closed, At,
         Hand, Pc
<1>2. watch' = watch
  BY DEF Check, Trade, ReadPosition, WritePosition, HasOpen, Opened, Flat, Closed,
         Subscribe, Unsubscribe, index
<1>3. \A o \in Order : \/ status'[o] = status[o]
                       \/ status[o] # "none" /\ status'[o] \notin {"none", "open"}
  <2>1. th[t].o \in Order /\ status[th[t].o] # "none"
    BY <1>1, InHandIsPlaced
  <2>2. \/ status' = status
        \/ \E s \in {"complete", "rejected"} : status' = [status EXCEPT ![th[t].o] = s]
    BY DEF Check, Trade, ReadPosition, WritePosition, HasOpen, Opened, Flat, Closed,
           Subscribe, Unsubscribe, book
  <2>3. status \in [Order -> {"none", "open", "complete", "cancelled", "rejected"}]
    BY DEF Shape, TypeOK
  <2> QED
    BY <2>1, <2>2, <2>3
<1>4. CASE ReadPosition(t)
  <2> DEFINE r == With("write", th[t].o, th[t].todo, pos + side[th[t].o])
  <2>1. r.pc = "write" /\ r.o = th[t].o /\ r.todo = th[t].todo
    BY DEF With
  <2>2. th' = [th EXCEPT ![t] = r]
    BY <1>4 DEF ReadPosition
  <2> HIDE DEF r
  <2>3. r.pc \in Hand
    BY <2>1 DEF Hand, Pc
  <2> QED
    BY <1>1, <1>2, <1>3, <2>1, <2>2, <2>3, GoingOn
<1>5. CASE ~ReadPosition(t)
  <2>1. \E pc \in Pc : /\ th' = [th EXCEPT ![t].pc = pc]
                       /\ t # Poller => pc \in Hand
                       /\ pc # "drop"
    <3>1. CASE Filled(t)
      BY <3>1, FilledGoes DEF Hand, Pc
    <3>2. CASE ~Filled(t)
      BY <1>5, <3>2 DEF Check, Trade, WritePosition, HasOpen, Opened, Flat, Closed,
         Subscribe, Unsubscribe, At, Goto, Hand, Pc
    <3> QED
      BY <3>1, <3>2
  <2> QED
    BY <1>1, <1>2, <1>3, <2>1, GoingTo
<1> QED
  BY <1>4, <1>5

\* A request with no order in hand, before and after, disturbs nothing either.
LEMMA Aside ==
  ASSUME Shape, Shape', Tracks, untold \subseteq untold', NEW c \in Client,
         th[c].pc \notin Hand, th'[c].pc \notin Hand, th'[c].todo = {},
         th'[c].pc # "idle" => status[th'[c].o] # "none" /\ th'[c].o \in Order,
         \A u \in Thread : u # c => th'[u] = th[u],
         watch' = watch,
         \A o \in Order : \/ status'[o] = status[o]
                          \/ status[o] # "none" /\ status'[o] \notin {"none", "open"}
  PROVE  Tracks'
<1> USE ThreadsDiffer
<1>1. /\ \A u \in Thread : th[u].pc \notin {"idle", "todo"} => th[u].o \in Order
      /\ \A u \in Thread : th[u].todo \subseteq Order
      /\ watch \subseteq Order
  BY DEF Shape, TypeOK
<1>2. Known'
  <2>1. \A o \in Order : status'[o] = "none" => status[o] = "none"
    OBVIOUS
  <2>2. th'[c].pc # "todo"
    BY DEF Shape, Stage
  <2> QED
    BY <1>1, <2>1, <2>2 DEF Tracks, Known
<1>3. Arriving'
  BY DEF Tracks, Arriving
<1>4. Leaving'
  <2>1. th'[Ticker] = th[Ticker]
    OBVIOUS
  <2>2. th[Ticker].pc = "drop" => th[Ticker].o \in Order
    BY <1>1
  <2> QED
    BY <2>1, <2>2 DEF Tracks, Leaving
<1>5. OpenIsWatched'
  <2> SUFFICES ASSUME NEW o \in Order \ untold, status'[o] = "open", o \notin watch
               PROVE  \E d \in Client : Placing(d, o)'
    BY DEF OpenIsWatched
  <2>1. PICK d \in Client : Placing(d, o)
    BY DEF Tracks, OpenIsWatched
  <2>2. th[d].pc \in Hand
    BY <2>1, PlacingIsHand
  <2>3. th'[d] = th[d]
    BY <2>2
  <2> QED
    BY <2>1, <2>3 DEF Placing
<1> QED
  BY <1>2, <1>3, <1>4, <1>5 DEF Tracks

\* Requests: an order is placed, or a cancellation begins or ends.
LEMMA RequestTracks ==
  ASSUME Shape, Shape', Tracks, untold \subseteq untold', NEW c \in Client,
         \/ \E o \in Order : Place(c, o) \/ Cancel(c, o)
         \/ CancelCommit(c)
  PROVE  Tracks'
<1> USE ThreadsDiffer
<1>1. ASSUME NEW o \in Order, Place(c, o) PROVE Tracks'
  <2>1. PICK pc \in {"check", "trade", "refresh"} :
          th' = [th EXCEPT ![c] = With(pc, o, {}, 0)]
    BY <1>1 DEF Place
  <2>2. /\ th'[c].o = o /\ th'[c].pc \in Hand /\ th'[c].pc = pc /\ th'[c].todo = {}
        /\ \A u \in Thread : u # c => th'[u] = th[u]
    BY <2>1 DEF Shape, TypeOK, With, Hand, Pc
  <2>3. status[o] = "none" /\ status' = [status EXCEPT ![o] = "open"] /\ watch' = watch
    BY <1>1 DEF Place, index
  <2>4. /\ \A u \in Thread : th[u].pc \notin {"idle", "todo"} => th[u].o \in Order
        /\ \A u \in Thread : th[u].todo \subseteq Order
        /\ watch \subseteq Order /\ o \notin watch
        /\ status \in [Order -> {"none", "open", "complete", "cancelled", "rejected"}]
    BY <2>3 DEF Shape, TypeOK, Tracks, Known
  <2>5. \A u \in Thread : th[u].pc \in Hand => th[u].o # o
    BY <2>3 DEF Tracks, Known, Hand
  <2>6. Known'
    <3>1. \A p \in Order : status'[p] = "none" => status[p] = "none"
      BY <2>3, <2>4
    <3>2. status'[o] = "open"
      BY <2>3, <2>4
    <3> QED
      BY <2>2, <2>3, <2>4, <3>1, <3>2 DEF Tracks, Known
  <2>7. Arriving'
    BY <2>2, <2>3, <2>4, <2>5 DEF Tracks, Arriving
  <2>8. Leaving'
    <3>1. th'[Ticker] = th[Ticker]
      BY <2>2
    <3>2. th[Ticker].pc = "drop" => th[Ticker].o \in Order /\ th[Ticker].o # o
      BY <2>4, <2>5 DEF Hand, Pc
    <3> QED
      BY <2>3, <2>4, <3>1, <3>2 DEF Tracks, Leaving
  <2>9. OpenIsWatched'
    <3> SUFFICES ASSUME NEW p \in Order \ untold, status'[p] = "open", p \notin watch
                 PROVE  \E d \in Client : Placing(d, p)'
      BY <2>3 DEF OpenIsWatched
    <3>1. CASE p = o
      BY <2>2, <3>1 DEF Placing, Hand
    <3>2. CASE p # o
      <4>1. PICK d \in Client : Placing(d, p)
        BY <2>3, <2>4, <3>2 DEF Tracks, OpenIsWatched
      <4>2. d # c
        BY <1>1, <4>1 DEF Placing, Place, At
      <4> QED
        BY <2>2, <4>1, <4>2 DEF Placing
    <3> QED
      BY <3>1, <3>2
  <2> QED
    BY <2>6, <2>7, <2>8, <2>9 DEF Tracks
<1>2. ASSUME NEW o \in Order, Cancel(c, o) PROVE Tracks'
  <2>1. th'[c] = With("cancel", o, {}, 0) /\ status' = status
    BY <1>2 DEF Cancel, book, Shape, TypeOK
  <2>2. th[c].pc = "idle" /\ watch' = watch /\ status[o] # "none"
    BY <1>2 DEF Cancel, index, At
  <2>3. \A u \in Thread : u # c => th'[u] = th[u]
    BY <1>2 DEF Cancel, Shape, TypeOK
  <2> QED
    BY <2>1, <2>2, <2>3, Aside DEF With, Hand
<1>3. ASSUME CancelCommit(c) PROVE Tracks'
  <2>1. th'[c] = Idle /\ watch' = watch /\ th[c].pc = "cancel"
    BY <1>3 DEF CancelCommit, Rest, index, At, Shape, TypeOK
  <2>2. \A u \in Thread : u # c => th'[u] = th[u]
    BY <1>3 DEF CancelCommit, Rest, Shape, TypeOK
  <2>3. th[c].o \in Order /\ status[th[c].o] # "none"
    BY <2>1, InHandIsPlaced
  <2>4. \A o \in Order : \/ status'[o] = status[o]
                         \/ status[o] # "none" /\ status'[o] \notin {"none", "open"}
    BY <1>3, <2>3 DEF CancelCommit, Shape, TypeOK
  <2> QED
    BY <2>1, <2>2, <2>4, Aside DEF Idle, Hand
<1> QED
  BY <1>1, <1>2, <1>3

\* An engine that moves on to orders that it knows of.
LEMMA EngineTracks ==
  ASSUME Shape, Shape', Tracks, untold \subseteq untold', NEW t \in {Ticker, Poller}, NEW r,
         th' = [th EXCEPT ![t] = r], status' = status, watch' = watch,
         \A o \in r.todo : o \in Order /\ status[o] # "none",
         r.pc \notin {"idle", "todo"} => r.o \in Order /\ status[r.o] # "none",
         t = Ticker => /\ r.todo \subseteq watch
                       /\ r.pc \in Hand => r.o \in watch /\ r.o \notin r.todo
                       /\ r.pc = "drop" => status[r.o] # "open"
  PROVE  Tracks'
<1> USE ThreadsDiffer
<1>1. /\ th'[t] = r
      /\ \A u \in Thread : u # t => th'[u] = th[u]
      /\ \A c \in Client : th'[c] = th[c]
  BY DEF Shape, TypeOK
<1>2. Known'
  BY <1>1 DEF Tracks, Known
<1>3. Arriving'
  BY <1>1 DEF Tracks, Arriving
<1>4. Leaving'
  <2>1. CASE t = Ticker
    BY <1>1, <2>1 DEF Leaving
  <2>2. CASE t # Ticker
    BY <1>1, <2>2 DEF Tracks, Leaving
  <2> QED
    BY <2>1, <2>2
<1>5. OpenIsWatched'
  BY <1>1 DEF Tracks, OpenIsWatched, Placing
<1> QED
  BY <1>2, <1>3, <1>4, <1>5 DEF Tracks

\* A request is through with its order when that is in the index or not open.
LEMMA SettledTracks ==
  ASSUME Shape, Shape', Tracks, untold \subseteq untold', NEW c \in Client, th[c].pc \in Hand,
         th'[c].pc \in {"idle", "subscribe"}, th'[c].todo \subseteq th[c].todo,
         th'[c].pc # "idle" => th'[c].o = th[c].o,
         \A u \in Thread : u # c => th'[u] = th[u],
         status' = status,
         watch' = watch \/ watch' = watch \cup {th[c].o},
         status[th[c].o] = "open" => th[c].o \in watch' \cup untold'
  PROVE  Tracks'
<1> USE ThreadsDiffer
<1>1. th[c].o \in Order /\ status[th[c].o] # "none"
  BY InHandIsPlaced DEF Hand
<1>2. Known'
  BY <1>1 DEF Tracks, Known
<1>3. Arriving'
  <2> SUFFICES ASSUME NEW d \in Client, th'[d].pc \in Hand
               PROVE  /\ th'[d].o \notin watch'
                      /\ \A e \in Client :
                           th'[e].pc \in Hand /\ th'[d].o = th'[e].o => d = e
    BY DEF Arriving
  <2>1. d # c /\ th'[d] = th[d]
    BY DEF Hand
  <2>2. th[d].o # th[c].o
    BY <2>1 DEF Tracks, Arriving
  <2>3. \A e \in Client : th'[e].pc \in Hand => th'[e] = th[e]
    BY DEF Hand
  <2>4. th'[d].o \notin watch'
    <3>1. th[d].o \notin watch
      BY <2>1 DEF Tracks, Arriving
    <3> QED
      BY <2>1, <2>2, <3>1
  <2>5. ASSUME NEW e \in Client, th'[e].pc \in Hand, th'[d].o = th'[e].o PROVE d = e
    BY <2>1, <2>3, <2>5 DEF Tracks, Arriving
  <2> QED
    BY <2>4, <2>5
<1>4. Leaving'
  BY DEF Tracks, Leaving
<1>5. OpenIsWatched'
  <2> SUFFICES ASSUME NEW o \in Order \ untold', status[o] = "open", o \notin watch'
               PROVE  \E d \in Client : Placing(d, o)'
    BY DEF OpenIsWatched
  <2>1. PICK d \in Client : Placing(d, o)
    BY DEF Tracks, OpenIsWatched
  <2>2. d # c
    BY <2>1 DEF Placing
  <2> QED
    BY <2>1, <2>2 DEF Placing
<1> QED
  BY <1>2, <1>3, <1>4, <1>5 DEF Tracks

\* The steps of an engine, and the end of a request, outside a fill.
LEMMA WatchTracks ==
  ASSUME Shape, Shape', Tracks, untold \subseteq untold', NEW t \in Thread,
         \/ Look(t) \/ Take(t) \/ Refresh(t) \/ Notify(t) \/ Drop(t)
         \/ Subscribe(t) /\ At(t, "subscribe")
         \/ Unsubscribe(t) /\ At(t, "unsubscribe")
  PROVE  Tracks'
<1> USE ThreadsDiffer
<1>0. /\ th \in [Thread ->
                   [pc : Pc, o : Order \cup {"none"}, todo : SUBSET Order, qty : Int]]
      /\ \A o \in th[t].todo : o \in Order /\ status[o] # "none"
      /\ watch \subseteq Order
      /\ \A o \in watch : status[o] # "none"
  BY DEF Shape, TypeOK, Tracks, Known
<1>1. CASE Look(t)
  <2>1. PICK S \in SUBSET Order :
          /\ th' = [th EXCEPT ![t] = Todo(S)]
          /\ \A o \in S : status[o] # "none"
          /\ t = Ticker => S \subseteq watch
          /\ t \in {Ticker, Poller}
    BY <1>0, <1>1 DEF Look
  <2>2. Todo(S).pc = "todo" /\ Todo(S).todo = S
    BY DEF Todo
  <2>3. status' = status /\ watch' = watch
    BY <1>1 DEF Look, book, index
  <2> QED
    BY <2>1, <2>2, <2>3, EngineTracks DEF Hand
<1>2. CASE Take(t)
  <2>1. th[t].pc = "todo" /\ t \in {Ticker, Poller}
    BY <1>2 DEF Take, At, Shape, Stage, Thread
  <2>2. status' = status /\ watch' = watch
    BY <1>2 DEF Take, book, index
  <2>3. t = Ticker => th[t].todo \subseteq watch
    BY DEF Tracks, Leaving
  <2>4. CASE th[t].todo = {}
    <3>1. th' = [th EXCEPT ![t] = Idle]
      BY <1>2, <2>4 DEF Take
    <3>2. Idle.pc = "idle" /\ Idle.todo = {}
      BY DEF Idle
    <3>3. Idle.pc \notin Hand
      BY <3>2 DEF Hand
    <3> QED
      BY <2>1, <2>2, <3>1, <3>2, <3>3, EngineTracks
  <2>5. CASE th[t].todo # {}
    <3>1. PICK o \in th[t].todo, pc \in {"drop", "check", "todo"} :
            /\ th' = [th EXCEPT ![t] = With(pc, o, th[t].todo \ {o}, 0)]
            /\ pc = "drop" => status[o] # "open"
      BY <1>2, <2>5 DEF Take
    <3> DEFINE r == With(pc, o, th[t].todo \ {o}, 0)
    <3>2. r.pc = pc /\ r.o = o /\ r.todo = th[t].todo \ {o}
      BY DEF With
    <3>3. th' = [th EXCEPT ![t] = r]
      BY <3>1
    <3>4. /\ o \in Order /\ status[o] # "none"
          /\ \A p \in r.todo : p \in Order /\ status[p] # "none"
          /\ t = Ticker => r.todo \subseteq watch /\ o \in watch
      BY <1>0, <2>3, <3>2
    <3> HIDE DEF r
    <3> QED
      BY <2>1, <2>2, <3>1, <3>2, <3>3, <3>4, EngineTracks
  <2> QED
    BY <2>4, <2>5
<1>3. CASE Refresh(t)
  <2>1. /\ th[t].pc = "refresh" /\ th[t].pc \in Hand
        /\ status' = status /\ watch' = watch /\ t # Poller
    BY <1>3 DEF Refresh, At, book, index, Hand, Pc, Shape, Stage
  <2>2. CASE (t \in Client /\ Goto(t, "notify")) \/ (t = Ticker /\ Goto(t, "drop"))
    <3>1. \E pc \in {"notify", "drop"} :
            /\ th' = [th EXCEPT ![t].pc = pc]
            /\ t = Ticker /\ pc = "drop" => status[th[t].o] # "open"
      BY <1>3, <2>1, <2>2 DEF Refresh, Rest, Goto
    <3> QED
      BY <2>1, <3>1, GoingTo DEF Hand, Pc
  <2>3. CASE t \in Client /\ (status[th[t].o] # "open" \/ th[t].o \in untold') /\ Rest(t)
    <3>1. th'[t] = Idle /\ \A u \in Thread : u # t => th'[u] = th[u]
      BY <1>0, <2>3 DEF Rest
    <3>2. Idle.pc = "idle" /\ Idle.todo = {}
      BY DEF Idle
    <3> QED
      BY <2>1, <2>3, <3>1, <3>2, SettledTracks
  <2>4. CASE t = Ticker /\ Rest(t)
    <3> DEFINE r == [th[t] EXCEPT !.pc = "todo"]
    <3>1. r.pc = "todo" /\ r.todo = th[t].todo
      BY <1>0
    <3>2. th' = [th EXCEPT ![t] = r]
      BY <2>4 DEF Rest, Goto
    <3>3. r.pc \notin Hand /\ r.todo \subseteq watch
      BY <2>4, <3>1 DEF Hand, Tracks, Leaving
    <3> HIDE DEF r
    <3> QED
      BY <1>0, <2>1, <2>4, <3>1, <3>2, <3>3, EngineTracks
  <2> QED
    <3>1. \/ t \in Client /\ Goto(t, "notify")
          \/ t = Ticker /\ Goto(t, "drop")
          \/ t \in Client /\ (status[th[t].o] # "open" \/ th[t].o \in untold') /\ Rest(t)
          \/ t \notin Client /\ Rest(t)
      BY <1>3 DEF Refresh
    <3>2. t \in Client \/ t = Ticker
      BY <2>1 DEF Thread
    <3>3. ASSUME t \in Client PROVE Tracks'
      BY <2>2, <2>3, <3>1, <3>3, ThreadsDiffer
    <3>4. ASSUME t = Ticker PROVE Tracks'
      BY <2>2, <2>4, <3>1, <3>4, ThreadsDiffer
    <3> QED
      BY <3>2, <3>3, <3>4
<1>4. CASE Notify(t)
  <2>1. t \in Client /\ th[t].pc = "notify" /\ th[t].pc \in Hand
    BY <1>4 DEF Notify, At, Hand, Pc, Shape, Stage, Thread
  <2>2. status' = status /\ watch' = watch \cup {th[t].o}
    BY <1>4 DEF Notify, book
  <2>3. th' = [th EXCEPT ![t].pc = "subscribe"] \/ th' = [th EXCEPT ![t] = Idle]
    BY <1>4, <2>1 DEF Notify, Goto, Rest
  <2>4. /\ th'[t].pc \in {"idle", "subscribe"}
        /\ th'[t].pc # "idle" => th'[t].o = th[t].o
        /\ \A u \in Thread : u # t => th'[u] = th[u]
    BY <1>0, <2>3 DEF Idle
  <2>5. th'[t].todo \subseteq th[t].todo
    BY <1>0, <2>3 DEF Idle
  <2> QED
    BY <2>1, <2>2, <2>4, <2>5, SettledTracks
<1>5. CASE Drop(t)
  <2>1. /\ th[t].pc = "drop" /\ t = Ticker
        /\ status' = status /\ watch' = watch \ {th[t].o}
    BY <1>5 DEF Drop, At, book, Shape, Stage, Thread
  <2>2. /\ \A u \in Thread : u # Ticker => th'[u] = th[u]
        /\ th'[Ticker].pc \in {"unsubscribe", "todo"}
        /\ th'[Ticker].todo = th[Ticker].todo
    BY <1>0, <1>5, <2>1 DEF Drop, Goto, Rest
  <2>3. status[th[Ticker].o] # "open" /\ th[Ticker].o \notin th[Ticker].todo
    BY <2>1 DEF Tracks, Leaving, Hand, Pc
  <2>4. Known'
    <3>1. th'[Ticker].pc # "todo" => th'[Ticker].o = th[Ticker].o
      BY <1>0, <1>5, <2>1 DEF Drop, Goto, Rest
    <3> QED
      BY <1>0, <2>1, <2>2, <3>1 DEF Tracks, Known
  <2>5. Arriving'
    <3>1. \A c \in Client : th'[c] = th[c]
      BY <2>2
    <3> QED
      BY <2>1, <3>1 DEF Tracks, Arriving
  <2>6. Leaving'
    BY <2>1, <2>2, <2>3 DEF Tracks, Leaving, Hand
  <2>7. OpenIsWatched'
    BY <2>1, <2>2, <2>3 DEF Tracks, OpenIsWatched, Placing
  <2> QED
    BY <2>4, <2>5, <2>6, <2>7 DEF Tracks
<1>6. CASE Subscribe(t) /\ At(t, "subscribe")
  <2>1. th[t].pc = "subscribe" /\ t \in Client
    BY <1>6 DEF At, Shape, Stage, Thread
  <2>2. th'[t] = Idle /\ \A u \in Thread : u # t => th'[u] = th[u]
    BY <1>0, <1>6, <2>1 DEF Subscribe, Rest
  <2>3. status' = status /\ watch' = watch
    BY <1>6 DEF Subscribe, book, index
  <2>4. Idle.pc = "idle" /\ Idle.todo = {} /\ Idle.pc \notin Hand /\ th[t].pc \notin Hand
    BY <2>1 DEF Idle, Hand
  <2> QED
    BY <2>1, <2>2, <2>3, <2>4, Aside
<1>7. CASE Unsubscribe(t) /\ At(t, "unsubscribe")
  <2>1. t = Ticker
    BY <1>7 DEF At, Shape, Stage, Thread
  <2> DEFINE r == [th[t] EXCEPT !.pc = "todo"]
  <2>2. r.pc = "todo" /\ r.todo = th[t].todo
    BY <1>0
  <2>3. th' = [th EXCEPT ![t] = r] /\ status' = status /\ watch' = watch
    BY <1>7, <2>1 DEF Unsubscribe, Rest, Goto, book, index
  <2>4. r.pc \notin Hand /\ r.todo \subseteq watch
    BY <2>1, <2>2 DEF Hand, Tracks, Leaving
  <2> HIDE DEF r
  <2> QED
    BY <1>0, <2>1, <2>2, <2>3, <2>4, EngineTracks
<1> QED
  BY <1>1, <1>2, <1>3, <1>4, <1>5, <1>6, <1>7

\* Every step keeps what the threads know of the orders and of the index.
LEMMA TracksNext == Shape /\ Shape' /\ Tracks /\ [Next]_vars => Tracks'
<1> SUFFICES ASSUME Shape, Shape', Tracks, [Next]_vars PROVE Tracks'
  OBVIOUS
<1>0. untold \subseteq untold'
  BY DEF Next, Step, Place, Cancel, CancelCommit, Look, Take, Check, Trade, ReadPosition,
         WritePosition, HasOpen, Opened, Flat, Closed, Refresh, Notify, Drop, Subscribe,
         Unsubscribe, vars
<1>1. ASSUME NEW t \in Thread, Step(t) PROVE Tracks'
  <2>1. CASE Subscribe(t)
    BY <1>0, <2>1, FillTracks, WatchTracks DEF Subscribe, At
  <2>2. CASE Unsubscribe(t)
    BY <1>0, <2>2, FillTracks, WatchTracks DEF Unsubscribe, At
  <2> QED
    BY <1>0, <1>1, <2>1, <2>2, FillTracks, WatchTracks DEF Step
<1>2. CASE UNCHANGED vars
  BY <1>2 DEF vars, book, index, Tracks, Known, Arriving, Leaving, OpenIsWatched, Placing
<1> QED
  BY <1>0, <1>1, <1>2, RequestTracks DEF Next

\* Every step keeps the refcount exact: the orders that enter the index are new
\* to it, and those that leave it are in it.
LEMMA RefsNext == Shape /\ Tracks /\ RefsExact /\ [Next]_vars => RefsExact'
<1> SUFFICES ASSUME Shape, Tracks, RefsExact, [Next]_vars PROVE RefsExact'
  OBVIOUS
<1>1. /\ IsFiniteSet(watch) /\ Cardinality(watch) \in Nat
      /\ refs = Cardinality(watch) + (IF posref THEN 1 ELSE 0)
      /\ posref \in BOOLEAN
  BY FS_Subset, FS_CardinalityType, WSEngineAssumption
     DEF WSEngineAssumption, Shape, TypeOK, RefsExact
<1>2. ASSUME NEW t \in Thread, Opened(t) PROVE RefsExact'
  BY <1>1, <1>2 DEF Opened, RefsExact
<1>3. ASSUME NEW t \in Thread, Closed(t) PROVE RefsExact'
  BY <1>1, <1>3 DEF Closed, Less, RefsExact
<1>4. ASSUME NEW t \in Thread, Notify(t) PROVE RefsExact'
  <2>1. th[t].o \notin watch
    BY <1>4, ThreadsDiffer
       DEF Notify, At, Hand, Pc, Shape, Stage, Thread, Tracks, Arriving
  <2>2. /\ watch' = watch \cup {th[t].o} /\ posref' = posref /\ refs' = refs + 1
    BY <1>4 DEF Notify
  <2>3. Cardinality(watch \cup {th[t].o}) = Cardinality(watch) + 1
    BY <1>1, <2>1, FS_AddElement
  <2> QED
    BY <1>1, <2>2, <2>3 DEF RefsExact
<1>5. ASSUME NEW t \in Thread, Drop(t) PROVE RefsExact'
  <2>1. th[t].o \in watch
    BY <1>5, ThreadsDiffer
       DEF Drop, At, Hand, Pc, Shape, Stage, Thread, Tracks, Leaving
  <2>2. watch' = watch \ {th[t].o} /\ posref' = posref /\ refs' = Less(refs)
    BY <1>5 DEF Drop
  <2>3. /\ Cardinality(watch \ {th[t].o}) = Cardinality(watch) - 1
        /\ IsFiniteSet(watch \ {th[t].o})
    BY <1>1, <2>1, FS_RemoveElement
  <2>4. Cardinality(watch \ {th[t].o}) \in Nat
    BY <2>3, FS_CardinalityType
  <2>5. Less(refs) = refs - 1
    BY <1>1, <2>3, <2>4 DEF Less
  <2> QED
    BY <1>1, <2>2, <2>3, <2>5 DEF RefsExact
<1>6. CASE UNCHANGED index
  BY <1>1, <1>6 DEF index, RefsExact
<1>7. ASSUME NEW t \in Thread, Step(t) PROVE RefsExact'
  BY <1>2, <1>3, <1>4, <1>5, <1>6, <1>7
     DEF Step, Look, Take, Check, Trade, ReadPosition, WritePosition, HasOpen, Flat,
         Refresh, Subscribe, Unsubscribe, index
<1> QED
  BY <1>6, <1>7 DEF Next, Place, Cancel, CancelCommit, vars

\* The inductive invariant.
LEMMA IndexNext == IndexInv /\ [Next]_vars => IndexInv'
BY ShapeNext, TracksNext, RefsNext DEF IndexInv

\* The shape of the state, whatever the faults.
THEOREM Types == Spec => []TypeOK
<1>1. Shape => TypeOK
  BY DEF Shape
<1> QED
  BY <1>1, ShapeInit, ShapeNext, PTL DEF Spec

\* notify_order_placed, notify_order_completed and the two notifications of a
\* position count exactly the users of the symbol, however the request threads
\* and the two engines interleave.
THEOREM Refcounts == Spec => []RefsExact
<1>1. IndexInv => RefsExact
  BY DEF IndexInv
<1> QED
  BY <1>1, IndexInit, IndexNext, PTL DEF Spec

\* No open order is forgotten: it is in the index, or the request that placed it
\* is about to put it there, or failed before it could and said so.
THEOREM NoneForgotten == Spec => []OpenIsWatched
<1>1. IndexInv => OpenIsWatched
  BY DEF IndexInv, Tracks
<1> QED
  BY <1>1, IndexInit, IndexNext, PTL DEF Spec

-----------------------------------------------------------------------------
\* A step that records no trade, of a thread that is not about to record one
\* unless it was already or has seen that there is none.
LEMMA NoTradeOneFill ==
  ASSUME Shape, OneFill, NEW t \in Thread, t # Poller,
         trades' = trades,
         \A u \in Thread : u # t => th'[u] = th[u],
         \A o \in Order : status'[o] = "none" => status[o] = "none",
         t \in Client /\ th'[t].pc \in {"check", "trade"} => trades[th'[t].o] = 0,
         t = Ticker /\ th'[t].pc = "trade" => trades[th'[t].o] = 0
  PROVE  OneFill'
BY ThreadsDiffer DEF OneFill, FillsOnce, Thread

\* Once an order has a trade, no thread is about to record another one.
LEMMA OneFillNext ==
  NoFallback /\ Shape /\ Tracks /\ OneFill /\ [Next]_vars => OneFill'
<1> SUFFICES ASSUME NoFallback, Shape, Tracks, OneFill, [Next]_vars PROVE OneFill'
  OBVIOUS
<1> USE ThreadsDiffer
<1>0. /\ th \in [Thread ->
                   [pc : Pc, o : Order \cup {"none"}, todo : SUBSET Order, qty : Int]]
      /\ status \in [Order -> {"none", "open", "complete", "cancelled", "rejected"}]
      /\ trades \in [Order -> Nat]
      /\ \A t \in Thread : th[t].pc \notin {"idle", "todo"} =>
           th[t].o \in Order /\ status[th[t].o] # "none"
  BY InHandIsPlaced DEF Shape, TypeOK
<1>1. ASSUME NEW c \in Client, NEW o \in Order, Place(c, o) PROVE OneFill'
  <2>1. /\ th'[c].o = o /\ trades[o] = 0
        /\ \A u \in Thread : u # c => th'[u] = th[u]
    BY <1>0, <1>1 DEF Place, With, OneFill
  <2>2. /\ trades' = trades
        /\ \A p \in Order : status'[p] = "none" => status[p] = "none"
    BY <1>0, <1>1 DEF Place
  <2> QED
    BY <2>1, <2>2, NoTradeOneFill
<1>2. ASSUME NEW c \in Client, NEW o \in Order, Cancel(c, o) PROVE OneFill'
  <2>1. /\ th'[c].pc = "cancel"
        /\ \A u \in Thread : u # c => th'[u] = th[u]
    BY <1>0, <1>2 DEF Cancel, With
  <2> QED
    BY <1>2, <2>1, NoTradeOneFill DEF Cancel, book
<1>3. ASSUME NEW c \in Client, CancelCommit(c) PROVE OneFill'
  <2>1. /\ th'[c].pc = "idle"
        /\ \A u \in Thread : u # c => th'[u] = th[u]
    BY <1>0, <1>3 DEF CancelCommit, Rest, Idle
  <2>2. \A p \in Order : status'[p] = "none" => status[p] = "none"
    BY <1>0, <1>3 DEF CancelCommit
  <2> QED
    BY <1>3, <2>1, <2>2, NoTradeOneFill DEF CancelCommit
<1>4. ASSUME NEW t \in Thread, Step(t) PROVE OneFill'
  <2>1. t # Poller
    BY <1>4 DEF NoFallback, OneFill, Step, Look, Take, Check, Trade, ReadPosition,
       WritePosition, HasOpen, Opened, Flat, Closed, Refresh, Notify, Drop, Subscribe,
       Unsubscribe, At
  <2>2. \A u \in Thread : u # t => th'[u] = th[u]
    BY <1>0, <1>4 DEF Step, Look, Take, Check, Trade, ReadPosition, WritePosition,
       HasOpen, Opened, Flat, Closed, Refresh, Notify, Drop, Subscribe, Unsubscribe,
       Rest, Filled, Goto
  <2>3. CASE Trade(t)
    <3>1. /\ th[t].pc = "trade" /\ th[t].o \in Order /\ trades[th[t].o] = 0
          /\ th'[t].pc = "read" /\ status[th[t].o] # "none"
      BY <1>0, <2>1, <2>3 DEF Trade, At, Goto, OneFill, Thread
    <3>2. /\ trades' = [trades EXCEPT ![th[t].o] = 1]
          /\ \A o \in Order : status'[o] = "none" => status[o] = "none" /\ o # th[t].o
      BY <1>0, <2>3, <3>1 DEF Trade
    <3>3. \A c \in Client : c # t /\ th[c].pc \in {"check", "trade"} => th[c].o # th[t].o
      <4>1. "check" \in Hand /\ "trade" \in Hand
        BY DEF Hand, Pc
      <4> QED
        BY <2>1, <3>1, <4>1 DEF Tracks, Arriving, Leaving, Thread
    <3>4. t # Ticker /\ th[Ticker].pc = "trade" => th[Ticker].o # th[t].o
      <4>1. "trade" \in Hand
        BY DEF Hand, Pc
      <4> QED
        BY <2>1, <3>1, <4>1 DEF Tracks, Arriving, Leaving, Thread
    <3> QED
      BY <1>0, <2>1, <2>2, <3>1, <3>2, <3>3, <3>4 DEF OneFill, FillsOnce
  <2>4. CASE ~Trade(t)
    <3>1. trades' = trades
      BY <1>4, <2>4 DEF Step, Look, Take, Check, ReadPosition, WritePosition, HasOpen,
         Opened, Flat, Closed, Refresh, Notify, Drop, Subscribe, Unsubscribe, book
    <3>2. \A p \in Order : status'[p] = "none" => status[p] = "none"
      <4>1. \/ status' = status
            \/ \E s \in {"complete", "rejected"} :
                 status' = [status EXCEPT ![th[t].o] = s]
        BY <1>4, <2>4 DEF Step, Look, Take, Check, ReadPosition, WritePosition, HasOpen,
           Opened, Flat, Closed, Refresh, Notify, Drop, Subscribe, Unsubscribe, book
      <4> QED
        BY <1>0, <4>1
    <3>3. /\ t \in Client /\ th'[t].pc \in {"check", "trade"} => trades[th'[t].o] = 0
          /\ t = Ticker /\ th'[t].pc = "trade" => trades[th'[t].o] = 0
      <4>1. CASE Check(t)
        BY <1>0, <2>1, <4>1 DEF Check, Goto, Filled
      <4>2. CASE Take(t)
        BY <1>0, <2>1, <4>2 DEF Take, At, With, Idle, Shape, Stage
      <4>3. CASE ~Check(t) /\ ~Take(t)
        BY <1>0, <1>4, <2>1, <2>4, <4>3
           DEF Step, Look, ReadPosition, WritePosition, HasOpen, Opened, Flat, Closed,
               Refresh, Notify, Drop, Subscribe, Unsubscribe, Rest, Filled, Goto, With,
               Idle, Todo, At
      <4> QED
        BY <4>1, <4>2, <4>3
    <3> QED
      BY <2>1, <2>2, <3>1, <3>2, <3>3, NoTradeOneFill
  <2> QED
    BY <2>3, <2>4
<1>5. CASE UNCHANGED vars
  BY <1>5 DEF vars, book, OneFill, FillsOnce
<1> QED
  BY <1>1, <1>2, <1>3, <1>4, <1>5 DEF Next

\* As long as the polling engine does not run beside the tick thread, an order is
\* filled once: _process_order looks for its trade, and an order that its request
\* fills is not in the index.
THEOREM NoDoubleFill == NoFallback => (Spec => []FillsOnce)
<1> SUFFICES ASSUME NoFallback PROVE Spec => []FillsOnce
  OBVIOUS
<1>1. Init => IndexInv /\ OneFill
  <2>1. Init => OneFill
    BY ThreadsDiffer DEF Init, OneFill, FillsOnce, Idle
  <2> QED
    BY <2>1, IndexInit
<1>2. IndexInv /\ OneFill /\ [Next]_vars => (IndexInv /\ OneFill)'
  BY IndexNext, OneFillNext DEF IndexInv
<1>3. IndexInv /\ OneFill => FillsOnce
  BY DEF OneFill
<1> QED
  BY <1>1, <1>2, <1>3, PTL DEF Spec
=============================================================================
