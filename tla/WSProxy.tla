------------------------------ MODULE WSProxy ------------------------------
(***************************************************************************)
(* The WebSocket proxy (websocket_proxy/server.py) gives many clients of   *)
(* one user the market data of one broker session.  What the clients ask   *)
(* for is in subscriptions and in subscription_index; what the broker is   *)
(* asked for is in a pool of connections (connection_manager.py) which     *)
(* fills one connection after the other and sends the highest mode only.   *)
(* The two sides agree as long as every path of failure keeps both.        *)
(*                                                                         *)
(* The proxy is an event loop whose handlers call the pool without an      *)
(* await: a request is one step.  What a handler does to one subscription  *)
(* after the other (a client that leaves, the restoration after the        *)
(* refresh of a token) is a step for each of them, during which the loop   *)
(* does nothing else.  On the development server a login in another thread *)
(* tears the pool down at any moment.                                      *)
(***************************************************************************)
EXTENDS Naturals, Sequences, FiniteSets

CONSTANTS
    Client,          \* connections of the user's programs
    Symbol,
    Narrow,          \* bound: symbols that clients want in the lowest mode only
    MaxMode,         \* modes are 1 .. MaxMode: LTP, Quote, Depth
    MaxSymbols,      \* MAX_SYMBOLS_PER_WEBSOCKET
    MaxConnections,  \* MAX_WEBSOCKET_CONNECTIONS
    InProcess,       \* the proxy runs in the process that serves logins
    MaxFaults,       \* bound: calls of the broker that fail
    MaxLogins        \* bound: logins that change the broker's token

ASSUME ProxyAssumption ==
    /\ Narrow \subseteq Symbol /\ MaxMode \in Nat \ {0}
    /\ MaxSymbols \in Nat \ {0} /\ MaxConnections \in Nat \ {0}
    /\ InProcess \in BOOLEAN /\ MaxFaults \in Nat /\ MaxLogins \in Nat

VARIABLES
    client,    \* user_mapping: the clients that have authenticated
    subs,      \* subscriptions
    index,     \* subscription_index
    attached,  \* the user is in broker_adapters
    pool,      \* the ConnectionPool behind the adapter
    call,      \* what a handler is in the middle of
    notice,    \* a CACHE_INVALIDATE message is on its way
    purge,     \* upsert_auth is about to clean the pools of its own process
    lost,      \* ghost: subscriptions whose feed went with the pool, or with a failed rollback
    faults, logins

vars == <<client, subs, index, attached, pool, call, notice, purge, lost, faults, logins>>

Mode == 1 .. MaxMode
Sub == {x \in Symbol \X Mode : x[1] \in Narrow => x[2] = 1}
AllModes(s) == {x \in Sub : x[1] = s}

\* A broker connection: up, its entry in adapter_symbol_counts, and the mode at
\* which the broker sends each symbol (0: not at all).
NewConn(up) == [up |-> up, count |-> 0, feed |-> [s \in Symbol |-> 0]]

\* map[x] is subscription_map's connection, 0 when x is not tracked.
Untracked == [x \in Sub |-> 0]
EmptyPool == [connected |-> FALSE, conns |-> <<>>, map |-> Untracked]
FirstConn(up, connected) ==
    [connected |-> connected, conns |-> <<NewConn(up)>>, map |-> Untracked]

Tracked(p) == {x \in Sub : p.map[x] # 0}
Modes(p, s) == {m \in Mode : <<s, m>> \in Tracked(p)}
Highest(M) == CHOOSE m \in M : \A n \in M : n <= m

\* zmq_listener: a tick at one mode also goes to the subscribers of the lower ones.
Fed(p, x) == \E i \in DOMAIN p.conns : p.conns[i].feed[x[1]] >= x[2]

Held == {x \in Sub : index[x] # {}}

NoCall == [op |-> "none"]
Idle == call = NoCall

-----------------------------------------------------------------------------
(* The pool *)

\* What a pool operation may come to: the pool it leaves, its answer, how many of
\* the broker's calls failed in it, and the subscriptions it lost.
Outcome(p, answer, failed, gone) ==
    [pool |-> p, answer |-> answer, failed |-> failed, gone |-> gone]

Track(p, x, i) == [p EXCEPT !.map[x] = i]
Send(p, i, x) == [p EXCEPT !.conns[i].feed[x[1]] = IF @ < x[2] THEN x[2] ELSE @]
Count(p, i, n) == [p EXCEPT !.conns[i].count = n]

\* adapter.subscribe: a connection that never came up refuses; any may answer with
\* an error, or with one that reads like an expired token.
Asked(p, i, yes) ==
    IF p.conns[i].up
    THEN {Outcome(yes, "success", 0, {}), Outcome(p, "error", 1, {}), Outcome(p, "auth", 1, {})}
    ELSE {Outcome(p, "error", 0, {})}

\* adapter.unsubscribe: the adapter there is answers "success" without asking the
\* broker, which goes on sending; one that asks ends the feed.
Ended(p, i, s) == {p, [p EXCEPT !.conns[i].feed[s] = 0]}

\* slip: a connection that is full has room for one more
RoomForOneMore(p, i) == i \in DOMAIN p.conns /\ p.conns[i].count <= MaxSymbols

\* _get_adapter_with_capacity: the first connection with room.
HasRoom(p, i) == i \in DOMAIN p.conns /\ p.conns[i].count < MaxSymbols
FirstFree(p) == CHOOSE i \in DOMAIN p.conns :
                    HasRoom(p, i) /\ \A j \in 1 .. i - 1 : ~HasRoom(p, j)

AskNew(p, i, x) ==
    Asked(p, i, Count(Send(Track(p, x, i), i, x), i, p.conns[i].count + 1))

Open(p, up) == [p EXCEPT !.conns = Append(@, NewConn(up))]

\* _subscribe_inner; the result of a new connection's connect() is not looked at.
NewSymbol(p, x) ==
    IF \E i \in DOMAIN p.conns : HasRoom(p, i) THEN AskNew(p, FirstFree(p), x)
    ELSE IF Len(p.conns) >= MaxConnections THEN {Outcome(p, "error", 0, {})}
    ELSE AskNew(Open(p, TRUE), Len(p.conns) + 1, x)
         \cup {Outcome(Open(p, FALSE), "error", 1, {}),
               Outcome(p, "error", 1, {}), Outcome(p, "auth", 1, {})}

SubscribeInner(p, x) ==
    LET M == Modes(p, x[1])
        i == p.map[<<x[1], Highest(M)>>]
    IN  IF p.map[x] # 0 THEN {Outcome(p, "success", 0, {})}
        ELSE IF M = {} THEN NewSymbol(p, x)
        ELSE IF x[2] > Highest(M) THEN Asked(p, i, Send(Track(p, x, i), i, x))
        ELSE {Outcome(Track(p, x, i), "success", 0, {})}

\* slip: tracking is restored although the broker has switched down
DowngradeRestored(p, x, i, next) ==
    {Outcome(Send(q, i, <<x[1], next>>), "success", 0, {}) : q \in Ended(p, i, x[1])}

\* unsubscribe of a symbol's highest mode: drop it and ask for the next one; if that
\* is refused, track it again and ask for it again, whatever comes of it; if one of
\* the calls raises, track it again.
Downgrade(p, x, i, next) ==
    {Outcome(p, "error", 1, {})} \cup
    UNION {LET p1 == un[1]  u == un[2] IN
           {Outcome(Send(Track(p1, x, 0), i, <<x[1], next>>), "success", u, {}),
            Outcome(Send(p1, i, x), "error", u + 1, {}),
            Outcome(p1, "error", u + 1, AllModes(x[1]))} :
           un \in (Ended(p, i, x[1]) \X {0}) \cup {<<p, 1>>}}

UnsubscribeInner(p, x) ==
    LET i == p.map[x]
        q == Track(p, x, 0)
        M == Modes(q, x[1])
    IN  IF i = 0 THEN {Outcome(p, "error", 0, {})}
        ELSE IF M = {}
        THEN {Outcome(p, "error", 1, {})} \cup
             {Outcome(Count(r, i, p.conns[i].count - 1), "success", 0, {}) : r \in Ended(q, i, x[1])}
        ELSE IF x[2] > Highest(M) THEN Downgrade(p, x, i, Highest(M))
        ELSE {Outcome(q, "success", 0, {})}

\* _attempt_auth_recovery up to the restoration: a new first connection; or one that
\* does not connect; or none.
Rebuilds == {Outcome(FirstConn(TRUE, TRUE), "success", 0, {}),
             Outcome(FirstConn(FALSE, FALSE), "error", 1, Held),
             Outcome(EmptyPool, "error", 1, Held)}

-----------------------------------------------------------------------------
Init ==
    /\ client = {}
    /\ subs = [c \in Client |-> {}]
    /\ index = [x \in Sub |-> {}]
    /\ attached = FALSE /\ pool = EmptyPool /\ call = NoCall
    /\ notice = FALSE /\ purge = FALSE
    /\ lost = {} /\ faults = 0 /\ logins = 0

\* The pool becomes p; of what is in gone, and of what was lost, the rest is lost.
Becomes(p, gone) ==
    /\ pool' = p
    /\ lost' = {x \in lost \cup gone : ~(x \in Tracked(p) /\ Fed(p, x))}

Spend(n) == faults + n <= MaxFaults /\ faults' = faults + n

\* subscribe_client, on success
Hold(c, x) ==
    /\ subs' = [subs EXCEPT ![c] = @ \cup {x}]
    /\ index' = [index EXCEPT ![x] = @ \cup {c}]

\* authenticate_client: an adapter whose pool is not connected is evicted and made
\* anew.  connect() of the pool answers "Connected" to a connection that returned an
\* error; only an exception, or a pool that could not be initialised, fails.
Authenticate(c) ==
    /\ Idle
    /\ client' = client \cup {c}
    /\ \/ /\ attached /\ pool.connected
          /\ UNCHANGED <<attached, pool, lost, faults>>
       \/ /\ ~(attached /\ pool.connected)
          /\ \E made \in {Outcome(FirstConn(TRUE, TRUE), "success", 0, {}),
                          Outcome(FirstConn(FALSE, TRUE), "success", 1, {}),
                          Outcome(EmptyPool, "error", 1, {})} :
                /\ Spend(made.failed)
                /\ attached' = (made.answer = "success")
                /\ Becomes(made.pool, Held)
    /\ UNCHANGED <<subs, index, call, notice, purge, logins>>

\* subscribe_client, ConnectionPool.subscribe
Subscribe(c, x) ==
    /\ Idle /\ c \in client /\ attached
    /\ \E o \in SubscribeInner(pool, x) :
          \/ /\ o.answer = "success" /\ Hold(c, x)
             /\ Spend(o.failed) /\ Becomes(o.pool, o.gone) /\ UNCHANGED call
          \/ /\ o.answer = "error" /\ UNCHANGED <<subs, index>>
             /\ Spend(o.failed) /\ Becomes(o.pool, o.gone) /\ UNCHANGED call
          \/ /\ o.answer = "auth" /\ UNCHANGED <<subs, index>>
             /\ \E r \in Rebuilds :
                   /\ Spend(o.failed + r.failed)
                   /\ Becomes(r.pool, r.gone)
                   /\ call' = IF r.answer = "success"
                              THEN [op |-> "restore", c |-> c, x |-> x, todo |-> Tracked(pool)]
                              ELSE NoCall
    /\ UNCHANGED <<client, attached, notice, purge, logins>>

\* _attempt_auth_recovery: the subscriptions of the snapshot, one after the other
Restore ==
    /\ call.op = "restore"
    /\ \E x \in call.todo : \E o \in SubscribeInner(pool, x) :
          /\ Spend(o.failed)
          /\ Becomes(o.pool, IF o.answer = "success" THEN {} ELSE {x})
          /\ call' = [call EXCEPT !.todo = @ \ {x}]
    /\ UNCHANGED <<client, subs, index, attached, notice, purge, logins>>

\* subscribe: once more, and without a second recovery
Retry ==
    /\ call.op = "restore" /\ call.todo = {}
    /\ \E o \in SubscribeInner(pool, call.x) :
          /\ Spend(o.failed)
          /\ Becomes(o.pool, o.gone)
          /\ IF o.answer = "success" THEN Hold(call.c, call.x) ELSE UNCHANGED <<subs, index>>
    /\ call' = NoCall
    /\ UNCHANGED <<client, attached, notice, purge, logins>>

\* slip: the pool is asked although other clients hold the subscription
LetGoShared(c, x) ==
    /\ subs' = [subs EXCEPT ![c] = @ \ {x}]
    /\ index' = [index EXCEPT ![x] = @ \ {c}]
    /\ \E o \in UnsubscribeInner(pool, x) : Spend(o.failed) /\ Becomes(o.pool, o.gone)

\* One subscription of a client: off the index, and off the pool with the last client.
\* An answer of the pool that is an error changes nothing of that.
LetGo(c, x) ==
    /\ subs' = [subs EXCEPT ![c] = @ \ {x}]
    /\ index' = [index EXCEPT ![x] = @ \ {c}]
    /\ \/ /\ index[x] = {c} /\ attached
          /\ \E o \in UnsubscribeInner(pool, x) : Spend(o.failed) /\ Becomes(o.pool, o.gone)
       \/ /\ ~(index[x] = {c} /\ attached)
          /\ UNCHANGED <<pool, lost, faults>>

\* unsubscribe_client, of what the client has: of anything else it changes nothing
Unsubscribe(c, x) ==
    /\ Idle /\ c \in client /\ attached
    /\ x \in subs[c]
    /\ LetGo(c, x)
    /\ UNCHANGED <<client, attached, call, notice, purge, logins>>

\* unsubscribe_all, and cleanup_client when the connection ends
Leave(c, op) ==
    /\ Idle
    /\ \/ op = "clear" /\ c \in client /\ attached
       \/ op = "close" /\ c \in client
    /\ call' = [op |-> op, c |-> c]
    /\ UNCHANGED <<client, subs, index, attached, pool, notice, purge, lost, faults, logins>>

LeaveOne ==
    /\ call.op \in {"clear", "close"}
    /\ \E x \in subs[call.c] : LetGo(call.c, x)
    /\ UNCHANGED <<client, attached, call, notice, purge, logins>>

\* The last client of the user takes the adapter with it.
IsLast(c) == client = {c}

Left ==
    /\ call.op \in {"clear", "close"} /\ subs[call.c] = {}
    /\ call' = NoCall
    /\ IF call.op = "close"
       THEN /\ client' = client \ {call.c}
            /\ IF IsLast(call.c) /\ attached
               THEN attached' = FALSE /\ Becomes(EmptyPool, {})
               ELSE UNCHANGED <<attached, pool, lost>>
       ELSE UNCHANGED <<client, attached, pool, lost>>
    /\ UNCHANGED <<subs, index, notice, purge, faults, logins>>

\* upsert_auth, with a token that has changed: publishes, and then cleans the pools
\* of its own process.
Login ==
    /\ logins < MaxLogins
    /\ logins' = logins + 1
    /\ notice' = TRUE
    /\ purge' = InProcess
    /\ UNCHANGED <<client, subs, index, attached, pool, call, lost, faults>>

\* cleanup_pools_for_user, on the thread of the login: the pool stays behind its adapter
Purge ==
    /\ purge
    /\ purge' = FALSE
    /\ Becomes(EmptyPool, Held)
    /\ UNCHANGED <<client, subs, index, attached, call, notice, faults, logins>>

\* _handle_cache_invalidation
Invalidate ==
    /\ Idle /\ notice
    /\ notice' = FALSE
    /\ attached' = FALSE
    /\ Becomes(EmptyPool, Held)
    /\ UNCHANGED <<client, subs, index, call, purge, faults, logins>>

Next ==
    \/ \E c \in Client : Authenticate(c)
    \/ \E c \in Client, x \in Sub : Subscribe(c, x) \/ Unsubscribe(c, x)
    \/ \E c \in Client, op \in {"clear", "close"} : Leave(c, op)
    \/ Restore \/ Retry \/ LeaveOne \/ Left
    \/ Login \/ Purge \/ Invalidate

Spec == Init /\ [][Next]_vars

-----------------------------------------------------------------------------
(* Properties *)

\* Whoever holds a subscription gets its ticks, at its mode or at a higher one,
\* whatever other clients ask for, give up or leave behind, in whichever order, and
\* although the broker refuses any one of the calls this makes: a feed is only lost
\* with a pool that is torn down (a new token, a recovery that fails, the eviction of
\* an unconnected pool) or when a downgrade and its rollback are both refused, or a
\* downgrade raises.
SubscribedIsFed ==
    \A c \in Client : \A x \in subs[c] :
        \/ x \in Tracked(pool) /\ Fed(pool, x)
        \/ x \in lost
        \/ call.op = "restore" /\ x \in call.todo

\* Of every symbol, the modes that are tracked are on one connection; a connection
\* counts the symbols that are tracked on it and has no more than it may.  A count that
\* is off by one wastes the limit or exceeds it for as long as the pool lives.  The
\* index is who has subscribed.  (What the broker sends is another matter: it may send
\* what is no longer tracked.)
PoolIsExact ==
    /\ \A x \in Sub : index[x] = {c \in Client : x \in subs[c]}
    /\ Len(pool.conns) <= MaxConnections
    /\ \A x \in Sub : pool.map[x] \in 0 .. Len(pool.conns)
    /\ \A i \in DOMAIN pool.conns :
          LET here == {s \in Symbol : \E x \in AllModes(s) : pool.map[x] = i}
          IN  /\ pool.conns[i].count = Cardinality(here)
              /\ Cardinality(here) <= MaxSymbols
              /\ \A s \in here : \A m \in Modes(pool, s) : pool.map[<<s, m>>] = i

\* What takes room in the pool on nobody's behalf: tracked, or about to be restored,
\* without a client.
Unwanted ==
    (Tracked(pool) \cup IF call.op = "restore" THEN call.todo ELSE {}) \ Held

\* A subscription becomes tracked without a client only in a step in which the broker
\* refuses a call: otherwise clients that come and go, in any order and at overlapping
\* modes, leave nothing behind that fills the pool.
NothingLeftBehind ==
    [][faults' = faults => Unwanted' \subseteq Unwanted]_vars

\* What authenticate_client relies on when it keeps an adapter, and what the comment
\* in ConnectionPool.connect promises ("Handle all response formats from adapters"):
\* a pool that says it is connected has a connection.  False in the code, for a
\* connection whose connect() returns an error instead of raising it.
ConnectedIsUp ==
    pool.connected => pool.conns[1].up

=============================================================================
