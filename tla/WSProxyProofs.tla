--------------------------- MODULE WSProxyProofs ---------------------------
(***************************************************************************)
(* That the clients of the proxy are fed and leave nothing behind, and     *)
(* that its pool counts what it has, for any number of clients, symbols,   *)
(* modes and connections.                                                  *)
(***************************************************************************)
EXTENDS WSProxy, FiniteSetTheorems, WellFoundedInduction, TLAPS

\* A set of numbers has a least one.
LEMMA Least ==
    ASSUME NEW N, N \subseteq Nat, N # {}
    PROVE  \E n \in N : \A k \in N : n <= k
<1>1. IsWellFoundedOn(OpToRel(<, Nat), Nat)
  BY NatLessThanWellFounded
<1>2. \E n \in N : \A k \in N : <<k, n>> \notin OpToRel(<, Nat)
  BY <1>1, WFMin
<1>3. \A k, n \in N : <<k, n>> \notin OpToRel(<, Nat) => n <= k
  BY DEF OpToRel
<1> QED
  BY <1>2, <1>3

\* Of some modes, one is the highest.
LEMMA HighestMode ==
    ASSUME NEW M \in SUBSET Mode, M # {}
    PROVE  Highest(M) \in M /\ \A m \in M : m <= Highest(M)
<1> DEFINE N == {k \in Nat : \E m \in M : k = MaxMode - m}
<1>a. MaxMode \in Nat /\ \A m \in M : m \in Nat /\ m <= MaxMode
  BY ProxyAssumption DEF Mode
<1>b. N # {}
  <2>1. PICK m \in M : TRUE
    OBVIOUS
  <2>2. MaxMode - m \in N
    BY <1>a, <2>1
  <2> QED
    BY <2>2
<1>1. PICK k \in N : \A j \in N : k <= j
  BY <1>b, Least
<1>2. PICK m \in M : k = MaxMode - m
  BY <1>1
<1>3. \A n \in M : n <= m
  <2>1. \A n \in M : MaxMode - n \in N
    BY <1>a
  <2> HIDE DEF N
  <2> QED
    BY <1>a, <1>1, <1>2, <2>1
<1> QED
  BY <1>3 DEF Highest

-----------------------------------------------------------------------------
(* What the steps of the pool do to a pool *)

Conn == [up : BOOLEAN, count : Int, feed : [Symbol -> Nat]]
Pool == [connected : BOOLEAN, conns : Seq(Conn), map : [Sub -> Nat]]

\* A pool whose tracking names connections it has.
Ok(p) == p \in Pool /\ \A x \in Sub : p.map[x] <= Len(p.conns)

\* A subscription is a symbol at a mode.
LEMMA SubShape ==
    \A x \in Sub : x = <<x[1], x[2]>> /\ x[1] \in Symbol /\ x[2] \in Mode /\ x[2] \in Nat \ {0}
<1>1. Mode \subseteq Nat \ {0}
  BY ProxyAssumption DEF Mode
<1>2. \A x \in Symbol \X Mode : x = <<x[1], x[2]>> /\ x[1] \in Symbol /\ x[2] \in Mode
  OBVIOUS
<1>3. Sub \subseteq Symbol \X Mode
  BY DEF Sub
<1> QED
  BY <1>1, <1>2, <1>3

\* Tracking changes one entry.
LEMMA TrackSafe ==
    ASSUME NEW p, Ok(p), NEW x \in Sub, NEW i \in 0 .. Len(p.conns)
    PROVE  /\ Ok(Track(p, x, i))
           /\ Track(p, x, i).conns = p.conns
           /\ \A y \in Sub : Track(p, x, i).map[y] = IF y = x THEN i ELSE p.map[y]
<1>1. Len(p.conns) \in Nat
  BY DEF Ok, Pool
<1> QED
  BY <1>1 DEF Ok, Pool, Track

\* Sending changes what one connection sends of one symbol, and never to less.
LEMMA SendSafe ==
    ASSUME NEW p, Ok(p), NEW i \in DOMAIN p.conns, NEW s \in Symbol, NEW m \in Nat
    PROVE  /\ Ok(Send(p, i, <<s, m>>))
           /\ Send(p, i, <<s, m>>).map = p.map
           /\ DOMAIN Send(p, i, <<s, m>>).conns = DOMAIN p.conns
           /\ Len(Send(p, i, <<s, m>>).conns) = Len(p.conns)
           /\ \A j \in DOMAIN p.conns :
                 /\ Send(p, i, <<s, m>>).conns[j].count = p.conns[j].count
                 /\ \A r \in Symbol :
                       Send(p, i, <<s, m>>).conns[j].feed[r] =
                          IF j = i /\ r = s /\ p.conns[j].feed[r] < m
                          THEN m ELSE p.conns[j].feed[r]
<1> DEFINE q == Send(p, i, <<s, m>>)
           c == [p.conns[i] EXCEPT !.feed[s] = IF @ < m THEN m ELSE @]
<1>1. p.conns \in Seq(Conn) /\ p.conns[i] \in Conn
  BY DEF Ok, Pool
<1>2. /\ c \in Conn /\ c.count = p.conns[i].count
      /\ \A r \in Symbol : c.feed[r] = IF r = s /\ p.conns[i].feed[r] < m
                                      THEN m ELSE p.conns[i].feed[r]
  BY <1>1 DEF Conn
<1>3. q.conns = [p.conns EXCEPT ![i] = c] /\ q.map = p.map /\ q.connected = p.connected
  BY DEF Send, Ok, Pool
<1>4. q = [p EXCEPT !.conns = q.conns]
  BY DEF Send, Ok, Pool
<1> HIDE DEF c
<1>5. q.conns \in Seq(Conn) /\ Len(q.conns) = Len(p.conns) /\ DOMAIN q.conns = DOMAIN p.conns
  BY <1>1, <1>2, <1>3
<1>6. q \in Pool
  BY <1>4, <1>5 DEF Ok, Pool
<1>7. \A j \in DOMAIN p.conns :
         /\ q.conns[j].count = p.conns[j].count
         /\ \A r \in Symbol : q.conns[j].feed[r] = IF j = i /\ r = s /\ p.conns[j].feed[r] < m
                                                 THEN m ELSE p.conns[j].feed[r]
  BY <1>1, <1>2, <1>3
<1> QED
  BY <1>3, <1>5, <1>6, <1>7 DEF Ok

\* Counting changes nothing of what is sent or tracked.
LEMMA CountSafe ==
    ASSUME NEW p, Ok(p), NEW i \in DOMAIN p.conns, NEW n \in Int
    PROVE  /\ Ok(Count(p, i, n))
           /\ Count(p, i, n).map = p.map
           /\ DOMAIN Count(p, i, n).conns = DOMAIN p.conns
           /\ Len(Count(p, i, n).conns) = Len(p.conns)
           /\ \A j \in DOMAIN p.conns :
                 /\ Count(p, i, n).conns[j].feed = p.conns[j].feed
                 /\ Count(p, i, n).conns[j].count = IF j = i THEN n ELSE p.conns[j].count
<1> DEFINE q == Count(p, i, n)
           c == [p.conns[i] EXCEPT !.count = n]
<1>1. p.conns \in Seq(Conn) /\ p.conns[i] \in Conn
  BY DEF Ok, Pool
<1>2. c \in Conn /\ c.feed = p.conns[i].feed /\ c.count = n
  BY <1>1 DEF Conn
<1>3. q.conns = [p.conns EXCEPT ![i] = c] /\ q.map = p.map /\ q = [p EXCEPT !.conns = q.conns]
  BY DEF Count, Ok, Pool
<1> HIDE DEF c
<1>4. q.conns \in Seq(Conn) /\ Len(q.conns) = Len(p.conns) /\ DOMAIN q.conns = DOMAIN p.conns
  BY <1>1, <1>2, <1>3
<1>5. q \in Pool
  BY <1>3, <1>4 DEF Ok, Pool
<1> QED
  BY <1>1, <1>2, <1>3, <1>4, <1>5 DEF Ok

\* Ending the feed of a symbol changes what one connection sends of that symbol.
LEMMA EndedSafe ==
    ASSUME NEW p, Ok(p), NEW i \in DOMAIN p.conns, NEW s \in Symbol, NEW q \in Ended(p, i, s)
    PROVE  /\ Ok(q) /\ q.map = p.map
           /\ DOMAIN q.conns = DOMAIN p.conns /\ Len(q.conns) = Len(p.conns)
           /\ \A j \in DOMAIN p.conns :
                 /\ q.conns[j].count = p.conns[j].count
                 /\ \A r \in Symbol : r # s => q.conns[j].feed[r] = p.conns[j].feed[r]
<1> DEFINE c == [p.conns[i] EXCEPT !.feed[s] = 0]
           e == [p EXCEPT !.conns[i].feed[s] = 0]
<1>1. p.conns \in Seq(Conn) /\ p.conns[i] \in Conn
  BY DEF Ok, Pool
<1>2. /\ c \in Conn /\ c.count = p.conns[i].count
      /\ \A r \in Symbol : r # s => c.feed[r] = p.conns[i].feed[r]
  BY <1>1 DEF Conn
<1>3. e.conns = [p.conns EXCEPT ![i] = c] /\ e.map = p.map /\ e = [p EXCEPT !.conns = e.conns]
  BY DEF Ok, Pool
<1> HIDE DEF c
<1>4. e.conns \in Seq(Conn) /\ Len(e.conns) = Len(p.conns) /\ DOMAIN e.conns = DOMAIN p.conns
  BY <1>1, <1>2, <1>3
<1>5. e \in Pool
  BY <1>3, <1>4 DEF Ok, Pool
<1>6. \A j \in DOMAIN p.conns :
         /\ e.conns[j].count = p.conns[j].count
         /\ \A r \in Symbol : r # s => e.conns[j].feed[r] = p.conns[j].feed[r]
  BY <1>1, <1>2, <1>3
<1>7. q = p \/ q = e
  BY DEF Ended
<1> HIDE DEF e
<1> QED
  BY <1>3, <1>4, <1>5, <1>6, <1>7 DEF Ok

\* A new connection sends nothing.
LEMMA OpenSafe ==
    ASSUME NEW p, Ok(p), NEW up \in BOOLEAN
    PROVE  /\ Ok(Open(p, up))
           /\ Open(p, up).map = p.map
           /\ DOMAIN p.conns \subseteq DOMAIN Open(p, up).conns
           /\ Len(p.conns) + 1 \in DOMAIN Open(p, up).conns
           /\ \A j \in DOMAIN p.conns : Open(p, up).conns[j] = p.conns[j]
           /\ \A r \in Symbol : Open(p, up).conns[Len(p.conns) + 1].feed[r] = 0
<1> DEFINE q == Open(p, up)
           c == NewConn(up)
<1>1. p.conns \in Seq(Conn) /\ Len(p.conns) \in Nat
  BY DEF Ok, Pool
<1>2. c \in Conn /\ \A r \in Symbol : c.feed[r] = 0
  BY DEF Conn, NewConn
<1>3. q.conns = Append(p.conns, c) /\ q.map = p.map /\ q = [p EXCEPT !.conns = q.conns]
  BY DEF Open, Ok, Pool
<1> HIDE DEF c
<1>4. /\ q.conns \in Seq(Conn) /\ Len(q.conns) = Len(p.conns) + 1
      /\ DOMAIN q.conns = 1 .. Len(p.conns) + 1 /\ DOMAIN p.conns = 1 .. Len(p.conns)
      /\ q.conns[Len(p.conns) + 1] = c
      /\ \A j \in DOMAIN p.conns : q.conns[j] = p.conns[j]
  BY <1>1, <1>2, <1>3
<1>5. q \in Pool
  BY <1>3, <1>4 DEF Ok, Pool
<1> QED
  BY <1>1, <1>2, <1>3, <1>4, <1>5 DEF Ok, Pool

-----------------------------------------------------------------------------
(* Who is heard *)

\* Of a symbol, everything that is tracked is fed, or whatever is not fed is lost.
Heard(p, s) == \A x \in AllModes(s) : p.map[x] # 0 => Fed(p, x)
Missed(p, L, s) == \A x \in AllModes(s) : x \in L \/ Fed(p, x)
Covered(p, L) == \A s \in Symbol : Heard(p, s) \/ Missed(p, L, s)

\* Sending a symbol at a mode feeds it up to that mode, and nothing less than before.
LEMMA SendFeeds ==
    ASSUME NEW p, Ok(p), NEW i \in DOMAIN p.conns, NEW s \in Symbol, NEW m \in Nat,
           NEW x \in Sub
    PROVE  /\ Fed(p, x) => Fed(Send(p, i, <<s, m>>), x)
           /\ x[1] = s /\ x[2] <= m => Fed(Send(p, i, <<s, m>>), x)
<1> DEFINE q == Send(p, i, <<s, m>>)
<1>1. /\ DOMAIN q.conns = DOMAIN p.conns
      /\ \A j \in DOMAIN p.conns : \A r \in Symbol :
            q.conns[j].feed[r] = IF j = i /\ r = s /\ p.conns[j].feed[r] < m
                                 THEN m ELSE p.conns[j].feed[r]
  BY SendSafe
<1>2. x[1] \in Symbol /\ x[2] \in Nat
  BY SubShape
<1>3. \A j \in DOMAIN p.conns : p.conns[j].feed[x[1]] \in Nat
  <2>1. \A j \in DOMAIN p.conns : p.conns[j] \in Conn
    BY DEF Ok, Pool
  <2> QED
    BY <1>2, <2>1 DEF Conn
<1> HIDE DEF q
<1>4. \A j \in DOMAIN p.conns : q.conns[j].feed[x[1]] >= p.conns[j].feed[x[1]]
                              /\ q.conns[j].feed[x[1]] \in Nat
  BY <1>1, <1>2, <1>3
<1>5. Fed(p, x) => Fed(q, x)
  <2> SUFFICES ASSUME NEW j \in DOMAIN p.conns, p.conns[j].feed[x[1]] >= x[2]
               PROVE  q.conns[j].feed[x[1]] >= x[2]
    BY <1>1 DEF Fed
  <2> QED
    BY <1>2, <1>3, <1>4
<1>6. x[1] = s /\ x[2] <= m => Fed(q, x)
  <2> SUFFICES ASSUME x[1] = s, x[2] <= m
               PROVE  q.conns[i].feed[x[1]] >= x[2]
    BY <1>1 DEF Fed
  <2> QED
    BY <1>1, <1>2, <1>3
<1> QED
  BY <1>5, <1>6 DEF q

\* What happens to one symbol leaves the others as they were.
LEMMA CoveredElsewhere ==
    ASSUME NEW p, NEW q, NEW L, NEW s \in Symbol, Covered(p, L),
           \A x \in Sub : x[1] # s => q.map[x] = p.map[x] /\ (Fed(p, x) => Fed(q, x)),
           Heard(q, s) \/ Missed(q, L, s)
    PROVE  Covered(q, L)
<1> SUFFICES ASSUME NEW r \in Symbol, r # s
             PROVE  Heard(q, r) \/ Missed(q, L, r)
  BY DEF Covered
<1>1. \A x \in AllModes(r) : /\ q.map[x] = p.map[x]
                             /\ Fed(p, x) => Fed(q, x)
  BY DEF AllModes
<1>2. Heard(p, r) \/ Missed(p, L, r)
  BY DEF Covered
<1> QED
  BY <1>1, <1>2 DEF Heard, Missed

\* What a subscription may come to.
Adds(p, L, x, o) ==
    /\ Ok(o.pool) /\ Covered(o.pool, L)
    /\ o.gone = {} /\ o.failed \in Nat
    /\ \A y \in Sub : y # x => o.pool.map[y] = p.map[y]
    /\ o.answer = "success" => o.pool.map[x] # 0
    /\ o.answer # "success" => o.pool.map[x] = p.map[x]
    /\ o.answer = "auth" => o.failed # 0

\* What the removal of a subscription may come to.
Removes(p, L, x, o) ==
    /\ Ok(o.pool) /\ Covered(o.pool, L \cup o.gone)
    /\ o.gone \subseteq Sub /\ o.failed \in Nat
    /\ \A y \in Sub : y # x => o.pool.map[y] = p.map[y]
    /\ o.failed = 0 => o.pool.map[x] = 0

\* A broker that answers with an error leaves the pool as it was.
LEMMA AskedAdds ==
    ASSUME NEW p, Ok(p), NEW L, Covered(p, L), NEW x \in Sub, NEW i, NEW yes,
           Ok(yes), Covered(yes, L), yes.map[x] # 0,
           \A y \in Sub : y # x => yes.map[y] = p.map[y],
           NEW o \in Asked(p, i, yes)
    PROVE  Adds(p, L, x, o)
  BY DEF Adds, Asked, Outcome

\* What is tracked is on a connection that is there.
LEMMA TrackedIsThere ==
    ASSUME NEW p, Ok(p), NEW x \in Sub, p.map[x] # 0
    PROVE  p.map[x] \in DOMAIN p.conns /\ p.map[x] \in 0 .. Len(p.conns)
<1>1. p.conns \in Seq(Conn) /\ Len(p.conns) \in Nat /\ p.map[x] \in Nat
  BY DEF Ok, Pool
<1> QED
  BY <1>1 DEF Ok

\* The modes of a symbol, and the highest.
LEMMA ModesShape ==
    ASSUME NEW p, Ok(p), NEW s \in Symbol
    PROVE  /\ \A m \in Modes(p, s) : m \in Mode /\ <<s, m>> \in Sub /\ p.map[<<s, m>>] # 0
           /\ \A x \in Sub : x[1] = s /\ p.map[x] # 0 => x[2] \in Modes(p, s)
           /\ Modes(p, s) # {} => /\ Highest(Modes(p, s)) \in Modes(p, s)
                                 /\ \A m \in Modes(p, s) : m <= Highest(Modes(p, s))
<1>1. \A m \in Modes(p, s) : m \in Mode /\ <<s, m>> \in Sub /\ p.map[<<s, m>>] # 0
  BY DEF Modes, Tracked
<1>2. ASSUME NEW x \in Sub, x[1] = s, p.map[x] # 0
      PROVE  x[2] \in Modes(p, s)
  <2>1. x = <<s, x[2]>> /\ x[2] \in Mode
    BY <1>2, SubShape
  <2> QED
    BY <1>2, <2>1 DEF Modes, Tracked
<1>3. Modes(p, s) # {} => /\ Highest(Modes(p, s)) \in Modes(p, s)
                         /\ \A m \in Modes(p, s) : m <= Highest(Modes(p, s))
  BY <1>1, HighestMode
<1> QED
  BY <1>1, <1>2, <1>3

\* A symbol that is sent at its highest tracked mode, or higher, is heard.
LEMMA SentIsHeard ==
    ASSUME NEW p, NEW a, Ok(a), NEW L, Covered(p, L),
           NEW s \in Symbol, NEW i \in DOMAIN a.conns, NEW m \in Nat,
           \A y \in Sub : y[1] # s => a.map[y] = p.map[y] /\ (Fed(p, y) => Fed(a, y)),
           \A y \in Sub : y[1] = s /\ a.map[y] # 0 => y[2] <= m
    PROVE  /\ Ok(Send(a, i, <<s, m>>)) /\ Covered(Send(a, i, <<s, m>>), L)
           /\ Send(a, i, <<s, m>>).map = a.map
<1> DEFINE q == Send(a, i, <<s, m>>)
<1>1. Ok(q) /\ q.map = a.map
  BY SendSafe
<1>2. \A y \in Sub : Fed(a, y) => Fed(q, y)
  BY SendFeeds
<1>3. \A y \in Sub : y[1] = s /\ y[2] <= m => Fed(q, y)
  BY SendFeeds
<1> HIDE DEF q
<1>5. Heard(q, s)
  BY <1>1, <1>3 DEF Heard, AllModes
<1>6. \A y \in Sub : y[1] # s => q.map[y] = p.map[y] /\ (Fed(p, y) => Fed(q, y))
  BY <1>1, <1>2
<1>7. Covered(q, L)
  BY <1>5, <1>6, CoveredElsewhere
<1> QED
  BY <1>1, <1>7 DEF q

\* Counting is not heard.
LEMMA CountIsSilent ==
    ASSUME NEW p, Ok(p), NEW i \in DOMAIN p.conns, NEW n \in Int, NEW L, Covered(p, L)
    PROVE  /\ Ok(Count(p, i, n)) /\ Covered(Count(p, i, n), L)
           /\ Count(p, i, n).map = p.map
<1> DEFINE q == Count(p, i, n)
<1>1. /\ Ok(q) /\ q.map = p.map /\ DOMAIN q.conns = DOMAIN p.conns
      /\ \A j \in DOMAIN p.conns : q.conns[j].feed = p.conns[j].feed
  BY CountSafe
<1> HIDE DEF q
<1>2. \A y \in Sub : Fed(q, y) <=> Fed(p, y)
  BY <1>1 DEF Fed
<1>3. \A s \in Symbol : /\ Heard(p, s) => Heard(q, s)
                        /\ Missed(p, L, s) => Missed(q, L, s)
  BY <1>1, <1>2 DEF Heard, Missed, AllModes
<1>4. Covered(q, L)
  BY <1>3 DEF Covered
<1> QED
  BY <1>1, <1>4 DEF q

-----------------------------------------------------------------------------
(* Subscribing *)

\* A symbol that is not tracked, on a connection that is there.
LEMMA AskNewAdds ==
    ASSUME NEW p, Ok(p), NEW L, Covered(p, L), NEW x \in Sub, NEW i \in DOMAIN p.conns,
           Modes(p, x[1]) = {}, NEW o \in AskNew(p, i, x)
    PROVE  Adds(p, L, x, o)
<1> DEFINE a == Track(p, x, i)
           b == Send(a, i, x)
           c == Count(b, i, p.conns[i].count + 1)
<1>1. p.conns \in Seq(Conn) /\ p.conns[i] \in Conn
  BY DEF Ok, Pool
<1>2. i # 0 /\ i \in 0 .. Len(p.conns) /\ p.conns[i].count + 1 \in Int
  BY <1>1 DEF Conn
<1> HIDE DEF a, b, c
<1>3. Ok(a) /\ a.conns = p.conns /\ \A y \in Sub : a.map[y] = IF y = x THEN i ELSE p.map[y]
  BY <1>2, TrackSafe DEF a
<1>4. x = <<x[1], x[2]>> /\ x[1] \in Symbol /\ x[2] \in Nat
  BY SubShape
<1>5. b = Send(a, i, <<x[1], x[2]>>) /\ i \in DOMAIN a.conns
  BY <1>3, <1>4 DEF b
<1>6. \A y \in Sub : y[1] = x[1] /\ a.map[y] # 0 => y[2] <= x[2]
  BY <1>3, <1>4, ModesShape
<1>7. \A y \in Sub : y[1] # x[1] => a.map[y] = p.map[y] /\ (Fed(p, y) => Fed(a, y))
  BY <1>3 DEF Fed
<1>8. Ok(b) /\ Covered(b, L) /\ b.map = a.map
  BY <1>3, <1>4, <1>5, <1>6, <1>7, SentIsHeard
<1>9. i \in DOMAIN b.conns
  BY <1>3, <1>4, <1>5, SendSafe
<1>10. Ok(c) /\ Covered(c, L) /\ c.map = b.map
  BY <1>2, <1>8, <1>9, CountIsSilent DEF c
<1>11. o \in Asked(p, i, c)
  BY DEF AskNew, a, b, c
<1> QED
  BY <1>2, <1>3, <1>8, <1>10, <1>11, AskedAdds

\* The first connection with room is one that has room.
LEMMA FirstFreeHasRoom ==
    ASSUME NEW p, Ok(p), \E i \in DOMAIN p.conns : HasRoom(p, i)
    PROVE  FirstFree(p) \in DOMAIN p.conns /\ HasRoom(p, FirstFree(p))
<1> DEFINE N == {i \in DOMAIN p.conns : HasRoom(p, i)}
<1>1. DOMAIN p.conns \subseteq Nat
  BY DEF Ok, Pool
<1>2. N \subseteq Nat /\ N # {}
  BY <1>1
<1>3. PICK n \in N : \A k \in N : n <= k
  <2> HIDE DEF N
  <2> QED
    BY <1>2, Least
<1>4. \A j \in 1 .. n - 1 : ~HasRoom(p, j)
  <2> SUFFICES ASSUME NEW j \in 1 .. n - 1, HasRoom(p, j)
               PROVE  FALSE
    OBVIOUS
  <2>1. j \in N
    BY DEF HasRoom
  <2>2. n <= j /\ n \in Nat
    BY <1>2, <1>3, <2>1
  <2> QED
    BY <2>2
<1> QED
  BY <1>3, <1>4 DEF FirstFree

\* A symbol nobody has: on a connection with room, on a new one, or refused.
LEMMA NewSymbolAdds ==
    ASSUME NEW p, Ok(p), NEW L, Covered(p, L), NEW x \in Sub,
           Modes(p, x[1]) = {}, NEW o \in NewSymbol(p, x)
    PROVE  Adds(p, L, x, o)
<1>1. CASE \E i \in DOMAIN p.conns : HasRoom(p, i)
  <2>1. o \in AskNew(p, FirstFree(p), x)
    BY <1>1 DEF NewSymbol
  <2> QED
    BY <1>1, <2>1, FirstFreeHasRoom, AskNewAdds
<1>2. CASE o \in {Outcome(p, "error", 0, {}), Outcome(p, "error", 1, {}), Outcome(p, "auth", 1, {})}
  BY <1>2 DEF Adds, Outcome
<1>3. ASSUME NEW up \in BOOLEAN
      PROVE  /\ Ok(Open(p, up)) /\ Covered(Open(p, up), L) /\ Open(p, up).map = p.map
             /\ Len(p.conns) + 1 \in DOMAIN Open(p, up).conns
  <2> DEFINE q == Open(p, up)
  <2>1. /\ Ok(q) /\ q.map = p.map /\ DOMAIN p.conns \subseteq DOMAIN q.conns
        /\ Len(p.conns) + 1 \in DOMAIN q.conns
        /\ \A j \in DOMAIN p.conns : q.conns[j] = p.conns[j]
    BY OpenSafe
  <2> HIDE DEF q
  <2>2. \A y \in Sub : Fed(p, y) => Fed(q, y)
    BY <2>1 DEF Fed
  <2>3. \A s \in Symbol : /\ Heard(p, s) => Heard(q, s)
                          /\ Missed(p, L, s) => Missed(q, L, s)
    BY <2>1, <2>2 DEF Heard, Missed, AllModes
  <2>4. Covered(q, L)
    BY <2>3 DEF Covered
  <2> QED
    BY <2>1, <2>4 DEF q
<1>4. CASE o = Outcome(Open(p, FALSE), "error", 1, {})
  BY <1>3, <1>4 DEF Adds, Outcome
<1>5. CASE o \in AskNew(Open(p, TRUE), Len(p.conns) + 1, x)
  <2> DEFINE q == Open(p, TRUE)
  <2>1. /\ Ok(q) /\ Covered(q, L) /\ q.map = p.map
        /\ Len(p.conns) + 1 \in DOMAIN q.conns
    BY <1>3
  <2> HIDE DEF q
  <2>2. Modes(q, x[1]) = {}
    BY <2>1 DEF Modes, Tracked
  <2>3. Adds(q, L, x, o)
    BY <1>5, <2>1, <2>2, AskNewAdds DEF q
  <2> QED
    BY <2>1, <2>3 DEF Adds
<1> QED
  BY <1>1, <1>2, <1>4, <1>5 DEF NewSymbol

\* _subscribe_inner, whatever becomes of it.
LEMMA SubscribeAdds ==
    ASSUME NEW p, Ok(p), NEW L, Covered(p, L), NEW x \in Sub, NEW o \in SubscribeInner(p, x)
    PROVE  Adds(p, L, x, o)
<1> DEFINE M == Modes(p, x[1])
           h == <<x[1], Highest(M)>>
           i == p.map[h]
           a == Track(p, x, i)
<1>1. CASE p.map[x] # 0
  <2>1. o = Outcome(p, "success", 0, {})
    BY <1>1 DEF SubscribeInner
  <2> QED
    BY <1>1, <2>1 DEF Adds, Outcome
<1>2. CASE p.map[x] = 0 /\ M = {}
  <2>1. o \in NewSymbol(p, x)
    BY <1>2 DEF SubscribeInner
  <2> QED
    BY <1>2, <2>1, NewSymbolAdds
<1>3. CASE p.map[x] = 0 /\ M # {}
  <2>1. x = <<x[1], x[2]>> /\ x[1] \in Symbol /\ x[2] \in Nat
    BY SubShape
  <2>2. /\ \A m \in M : m \in Mode /\ <<x[1], m>> \in Sub /\ p.map[<<x[1], m>>] # 0
        /\ \A y \in Sub : y[1] = x[1] /\ p.map[y] # 0 => y[2] \in M
        /\ Highest(M) \in M /\ \A m \in M : m <= Highest(M)
    BY <1>3, <2>1, ModesShape
  <2> HIDE DEF M
  <2>3. M \subseteq Nat
    <3>1. Mode \subseteq Nat
      BY ProxyAssumption DEF Mode
    <3> QED
      BY <2>2, <3>1
  <2>4. h \in Sub /\ p.map[h] # 0 /\ h[1] = x[1] /\ h[2] = Highest(M) /\ i \in DOMAIN p.conns
        /\ i \in 0 .. Len(p.conns)
    BY <2>2, TrackedIsThere
  <2> HIDE DEF i, h
  <2>5. Ok(a) /\ a.conns = p.conns /\ \A y \in Sub : a.map[y] = IF y = x THEN i ELSE p.map[y]
    BY <2>4, TrackSafe
  <2>6. i # 0
    BY <2>4 DEF i
  <2> HIDE DEF a
  <2>7. CASE x[2] > Highest(M)
    <3> DEFINE b == Send(a, i, x)
    <3>1. b = Send(a, i, <<x[1], x[2]>>) /\ i \in DOMAIN a.conns
      BY <2>1, <2>4, <2>5
    <3>2. \A y \in Sub : y[1] = x[1] /\ a.map[y] # 0 => y[2] <= x[2]
      <4> SUFFICES ASSUME NEW y \in Sub, y[1] = x[1], a.map[y] # 0, y # x
                   PROVE  y[2] <= x[2]
        BY <2>1
      <4>1. y[2] \in M
        BY <2>2, <2>5
      <4> QED
        BY <2>1, <2>2, <2>3, <2>7, <4>1
    <3> HIDE DEF b
    <3>0. \A y \in Sub : y[1] # x[1] => a.map[y] = p.map[y] /\ (Fed(p, y) => Fed(a, y))
      BY <2>5 DEF Fed
    <3>3. Ok(b) /\ Covered(b, L) /\ b.map = a.map
      <4>1. Covered(p, L) /\ Ok(a) /\ i \in DOMAIN a.conns /\ x[1] \in Symbol /\ x[2] \in Nat
        BY <2>1, <2>4, <2>5
      <4> QED
        BY <3>0, <3>1, <3>2, <4>1, SentIsHeard
    <3>4. o \in Asked(p, i, b)
      BY <1>3, <2>7 DEF SubscribeInner, M, h, i, a, b
    <3> QED
      BY <2>5, <2>6, <3>3, <3>4, AskedAdds
  <2>8. CASE ~(x[2] > Highest(M))
    <3>1. o = Outcome(a, "success", 0, {})
      BY <1>3, <2>8 DEF SubscribeInner, M, h, i, a
    <3>2. \A y \in Sub : Fed(a, y) <=> Fed(p, y)
      BY <2>5 DEF Fed
    <3>3. Heard(p, x[1]) => Heard(a, x[1])
      <4> SUFFICES ASSUME Heard(p, x[1])
                   PROVE  Heard(a, x[1])
        OBVIOUS
      <4>1. Fed(p, h)
        BY <2>4 DEF Heard, AllModes
      <4>2. PICK j \in DOMAIN p.conns : p.conns[j].feed[h[1]] >= h[2]
        BY <4>1 DEF Fed
      <4>3. p.conns[j].feed[x[1]] \in Nat
        <5>1. p.conns[j] \in Conn
          BY DEF Ok, Pool
        <5> QED
          BY <2>1, <5>1 DEF Conn
      <4>4. p.conns[j].feed[x[1]] >= x[2]
        BY <2>1, <2>2, <2>3, <2>4, <2>8, <4>2, <4>3
      <4>5. Fed(p, x)
        BY <4>4 DEF Fed
      <4> QED
        BY <2>5, <3>2, <4>5 DEF Heard, AllModes
    <3>4. Missed(p, L, x[1]) => Missed(a, L, x[1])
      BY <3>2 DEF Missed, AllModes
    <3>5. Heard(a, x[1]) \/ Missed(a, L, x[1])
      BY <2>1, <3>3, <3>4 DEF Covered
    <3>6. \A y \in Sub : y[1] # x[1] => a.map[y] = p.map[y] /\ (Fed(p, y) => Fed(a, y))
      BY <2>5, <3>2
    <3>7. Covered(a, L)
      BY <2>1, <3>5, <3>6, CoveredElsewhere
    <3> QED
      BY <2>5, <2>6, <3>1, <3>7 DEF Adds, Outcome
  <2> QED
    BY <2>7, <2>8
<1> QED
  BY <1>1, <1>2, <1>3

-----------------------------------------------------------------------------
(* Unsubscribing *)

\* A switch to a lower mode: refused as it begins, done, rolled back or lost.
LEMMA DowngradeShape ==
    ASSUME NEW p, NEW x, NEW i, NEW next, NEW o \in Downgrade(p, x, i, next)
    PROVE  \/ o = Outcome(p, "error", 1, {})
           \/ \E r \in Ended(p, i, x[1]) : \E u \in {0, 1} :
                 o \in {Outcome(Send(Track(r, x, 0), i, <<x[1], next>>), "success", u, {}),
                       Outcome(Send(r, i, x), "error", u + 1, {}),
                       Outcome(r, "error", u + 1, AllModes(x[1]))}
<1>1. p \in Ended(p, i, x[1])
  BY DEF Ended
<1> QED
  BY <1>1 DEF Downgrade

\* A downgrade leaves every other symbol alone, and its own fed or lost.
LEMMA DowngradeRemoves ==
    ASSUME NEW p, Ok(p), NEW L, Covered(p, L), NEW x \in Sub, NEW i \in DOMAIN p.conns,
           NEW next \in Nat, next < x[2], p.map[x] = i,
           \A y \in Sub \ {x} : y[1] = x[1] /\ p.map[y] # 0 => y[2] <= next,
           NEW o \in Downgrade(p, x, i, next)
    PROVE  Removes(p, L, x, o)
<1>1. x = <<x[1], x[2]>> /\ x[1] \in Symbol /\ x[2] \in Nat /\ 0 \in 0 .. Len(p.conns)
  BY SubShape DEF Ok, Pool
<1>2. CASE o = Outcome(p, "error", 1, {})
  BY <1>2 DEF Removes, Outcome
<1>3. ASSUME NEW r \in Ended(p, i, x[1]), NEW u \in {0, 1},
             o \in {Outcome(Send(Track(r, x, 0), i, <<x[1], next>>), "success", u, {}),
                   Outcome(Send(r, i, x), "error", u + 1, {}),
                   Outcome(r, "error", u + 1, AllModes(x[1]))}
      PROVE  Removes(p, L, x, o)
  <2> DEFINE q == Track(r, x, 0)
             a == Send(q, i, <<x[1], next>>)
             b == Send(r, i, x)
  <2>1. /\ Ok(r) /\ r.map = p.map /\ DOMAIN r.conns = DOMAIN p.conns /\ Len(r.conns) = Len(p.conns)
        /\ \A j \in DOMAIN p.conns : \A s \in Symbol :
              s # x[1] => r.conns[j].feed[s] = p.conns[j].feed[s]
    BY <1>1, EndedSafe
  <2>2. \A y \in Sub : y[1] # x[1] => r.map[y] = p.map[y] /\ (Fed(p, y) => Fed(r, y))
    BY <2>1, SubShape DEF Fed
  <2>3. Ok(q) /\ q.conns = r.conns /\ \A y \in Sub : q.map[y] = IF y = x THEN 0 ELSE r.map[y]
    BY <1>1, <2>1, TrackSafe
  <2> HIDE DEF q, a, b
  <2>4. Ok(a) /\ Covered(a, L) /\ a.map = q.map
    <3>1. \A y \in Sub : y[1] = x[1] /\ q.map[y] # 0 => y[2] <= next
      BY <2>1, <2>3
    <3>2. \A y \in Sub : y[1] # x[1] => q.map[y] = p.map[y] /\ (Fed(p, y) => Fed(q, y))
      BY <2>2, <2>3 DEF Fed
    <3>3. Covered(p, L) /\ Ok(q) /\ i \in DOMAIN q.conns /\ x[1] \in Symbol /\ next \in Nat
      BY <1>1, <2>1, <2>3
    <3> QED
      BY <3>1, <3>2, <3>3, SentIsHeard DEF a
  <2>5. Ok(b) /\ Covered(b, L) /\ b.map = p.map
    <3>1. \A y \in Sub : y[1] = x[1] /\ r.map[y] # 0 => y[2] <= x[2]
      <4> SUFFICES ASSUME NEW y \in Sub \ {x}, y[1] = x[1], p.map[y] # 0
                   PROVE  y[2] <= x[2]
        BY <1>1, <2>1
      <4>1. y[2] <= next /\ y[2] \in Nat
        BY SubShape
      <4> QED
        BY <1>1, <4>1
    <3>2. b = Send(r, i, <<x[1], x[2]>>)
      BY <1>1 DEF b
    <3>3. Covered(p, L) /\ Ok(r) /\ i \in DOMAIN r.conns /\ x[1] \in Symbol /\ x[2] \in Nat
      BY <1>1, <2>1
    <3>4. PICK s \in Symbol, m \in Nat : s = x[1] /\ m = x[2]
      BY <1>1
    <3>5. /\ \A y \in Sub : y[1] # s => r.map[y] = p.map[y] /\ (Fed(p, y) => Fed(r, y))
          /\ \A y \in Sub : y[1] = s /\ r.map[y] # 0 => y[2] <= m
      BY <2>2, <3>1, <3>4
    <3>6. /\ Ok(Send(r, i, <<s, m>>)) /\ Covered(Send(r, i, <<s, m>>), L)
          /\ Send(r, i, <<s, m>>).map = r.map
      BY <3>3, <3>5, SentIsHeard
    <3>7. Ok(b) /\ Covered(b, L) /\ b.map = r.map
      BY <3>2, <3>4, <3>6
    <3> QED
      BY <2>1, <3>7
  <2>6. Covered(r, L \cup AllModes(x[1]))
    <3>1. Covered(p, L \cup AllModes(x[1]))
      BY DEF Covered, Missed
    <3>2. Missed(r, L \cup AllModes(x[1]), x[1])
      BY DEF Missed
    <3> QED
      BY <1>1, <2>2, <3>1, <3>2, CoveredElsewhere
  <2>7. AllModes(x[1]) \subseteq Sub
    BY DEF AllModes
  <2>8. CASE o = Outcome(a, "success", u, {})
    BY <2>1, <2>3, <2>4, <2>8 DEF Removes, Outcome
  <2>9. CASE o = Outcome(b, "error", u + 1, {})
    BY <2>5, <2>9 DEF Removes, Outcome
  <2>10. CASE o = Outcome(r, "error", u + 1, AllModes(x[1]))
    BY <2>1, <2>6, <2>7, <2>10 DEF Removes, Outcome
  <2> QED
    BY <1>3, <2>8, <2>9, <2>10 DEF a, b, q
<1> QED
  BY <1>2, <1>3, DowngradeShape

\* ConnectionPool.unsubscribe, whatever becomes of it.
LEMMA UnsubscribeRemoves ==
    ASSUME NEW p, Ok(p), NEW L, Covered(p, L), NEW x \in Sub,
           NEW o \in UnsubscribeInner(p, x)
    PROVE  Removes(p, L, x, o)
<1> DEFINE i == p.map[x]
           q == Track(p, x, 0)
           M == Modes(q, x[1])
<1>1. CASE i = 0
  <2>1. o = Outcome(p, "error", 0, {})
    BY <1>1 DEF UnsubscribeInner
  <2> QED
    BY <1>1, <2>1 DEF Removes, Outcome
<1>2. CASE i # 0
  <2>1. i \in DOMAIN p.conns /\ p.conns[i].count - 1 \in Int
    <3>1. i \in DOMAIN p.conns
      BY <1>2, TrackedIsThere
    <3>2. p.conns[i] \in Conn
      BY <3>1 DEF Ok, Pool
    <3> QED
      BY <3>1, <3>2 DEF Conn
  <2> HIDE DEF i, q
  <2>2. x = <<x[1], x[2]>> /\ x[1] \in Symbol /\ x[2] \in Nat
    BY SubShape
  <2>3. Ok(q) /\ q.conns = p.conns /\ \A y \in Sub : q.map[y] = IF y = x THEN 0 ELSE p.map[y]
    <3>1. 0 \in 0 .. Len(p.conns)
      BY DEF Ok, Pool
    <3> QED
      BY <3>1, TrackSafe DEF q
  <2>4. /\ \A y \in Sub : y[1] = x[1] /\ q.map[y] # 0 => y[2] \in M
        /\ M # {} => Highest(M) \in M /\ \A m \in M : m <= Highest(M)
        /\ \A m \in M : m \in Mode
    BY <2>2, <2>3, ModesShape
  <2>5. M \subseteq Nat
    <3>1. Mode \subseteq Nat
      BY ProxyAssumption DEF Mode
    <3> QED
      BY <2>4, <3>1
  <2> HIDE DEF M
  <2>6. \A y \in Sub : y[1] # x[1] => q.map[y] = p.map[y]
    BY <2>3
  <2>7. CASE M = {}
    <3>1. CASE o = Outcome(p, "error", 1, {})
      BY <3>1 DEF Removes, Outcome
    <3>2. ASSUME NEW r \in Ended(q, i, x[1]),
                 o = Outcome(Count(r, i, p.conns[i].count - 1), "success", 0, {})
          PROVE  Removes(p, L, x, o)
      <4> DEFINE b == Count(r, i, p.conns[i].count - 1)
      <4>1. /\ Ok(r) /\ r.map = q.map /\ DOMAIN r.conns = DOMAIN q.conns
            /\ \A j \in DOMAIN q.conns : \A s \in Symbol :
                  s # x[1] => r.conns[j].feed[s] = q.conns[j].feed[s]
        BY <2>1, <2>2, <2>3, EndedSafe
      <4>2. \A y \in Sub : y[1] # x[1] => r.map[y] = p.map[y] /\ (Fed(p, y) => Fed(r, y))
        BY <2>3, <2>6, <4>1, SubShape DEF Fed
      <4>3. Heard(r, x[1])
        BY <2>4, <2>7, <4>1 DEF Heard, AllModes
      <4>4. Covered(r, L)
        BY <2>2, <4>2, <4>3, CoveredElsewhere
      <4>5. Ok(b) /\ Covered(b, L) /\ b.map = r.map
        <5>1. i \in DOMAIN r.conns
          BY <2>1, <2>3, <4>1
        <5> QED
          BY <2>1, <4>1, <4>4, <5>1, CountIsSilent
      <4> HIDE DEF b
      <4>6. o.pool = b /\ o.gone = {} /\ o.failed = 0
        BY <3>2 DEF Outcome, b
      <4> QED
        BY <2>3, <4>1, <4>5, <4>6 DEF Removes
    <3> QED
      BY <1>2, <2>7, <3>1, <3>2 DEF UnsubscribeInner, M, q, i
  <2>8. CASE M # {} /\ x[2] > Highest(M)
    <3>1. o \in Downgrade(p, x, i, Highest(M))
      BY <1>2, <2>8 DEF UnsubscribeInner, M, q, i
    <3>2. Highest(M) \in Nat /\ Highest(M) < x[2]
      BY <2>2, <2>4, <2>5, <2>8
    <3>3. \A y \in Sub \ {x} : y[1] = x[1] /\ p.map[y] # 0 => y[2] <= Highest(M)
      BY <2>3, <2>4, <2>8
    <3> QED
      BY <2>1, <3>1, <3>2, <3>3, DowngradeRemoves DEF i
  <2>9. CASE M # {} /\ ~(x[2] > Highest(M))
    <3>1. o = Outcome(q, "success", 0, {})
      BY <1>2, <2>9 DEF UnsubscribeInner, M, q, i
    <3>2. \A y \in Sub : Fed(q, y) <=> Fed(p, y)
      BY <2>3 DEF Fed
    <3>3. \A s \in Symbol : /\ Heard(p, s) => Heard(q, s)
                            /\ Missed(p, L, s) => Missed(q, L, s)
      BY <2>3, <3>2 DEF Heard, Missed, AllModes
    <3>4. Covered(q, L)
      BY <3>3 DEF Covered
    <3> QED
      BY <2>3, <3>1, <3>4 DEF Removes, Outcome
  <2> QED
    BY <2>7, <2>8, <2>9
<1> QED
  BY <1>1, <1>2

-----------------------------------------------------------------------------
(* The invariant *)

Calls ==
    {NoCall} \cup [op : {"restore"}, c : Client, x : Sub, todo : SUBSET Sub]
             \cup [op : {"clear", "close"}, c : Client]

Shape ==
    /\ client \subseteq Client
    /\ subs \in [Client -> SUBSET Sub] /\ index \in [Sub -> SUBSET Client]
    /\ attached \in BOOLEAN /\ call \in Calls /\ Ok(pool)
    /\ lost \subseteq Sub /\ faults \in Nat

Restoring(x) == call.op = "restore" /\ x \in call.todo

\* The index is what the clients hold; whatever a client holds is tracked, lost or
\* about to be restored; and what is tracked is fed or lost with its symbol.
Inv ==
    /\ Shape
    /\ \A x \in Sub : index[x] = {c \in Client : x \in subs[c]}
    /\ \A c \in Client : \A x \in subs[c] : pool.map[x] # 0 \/ x \in lost \/ Restoring(x)
    /\ Covered(pool, lost)
    /\ \A c \in Client : subs[c] # {} => c \in client
    /\ call.op = "restore" => call.c \in client /\ attached
    /\ ~attached => \A x \in Sub : pool.map[x] = 0

\* Without a refusal of the broker nothing is left behind.
Tidy == faults' = faults => Unwanted' \subseteq Unwanted

\* A pool that tracks nothing.
Fresh(p) == Ok(p) /\ \A x \in Sub : p.map[x] = 0

\* An empty pool and one with a first connection are such pools.
LEMMA FreshPools ==
    /\ Fresh(EmptyPool)
    /\ \A up, connected \in BOOLEAN : Fresh(FirstConn(up, connected))
<1>1. \A up \in BOOLEAN : NewConn(up) \in Conn
  BY DEF NewConn, Conn
<1>2. Untracked \in [Sub -> Nat] /\ \A x \in Sub : Untracked[x] = 0
  BY DEF Untracked
<1>3. << >> \in Seq(Conn) /\ Len(<< >>) = 0
  OBVIOUS
<1>4. \A up \in BOOLEAN : <<NewConn(up)>> \in Seq(Conn) /\ Len(<<NewConn(up)>>) = 1
  BY <1>1
<1>5. Fresh(EmptyPool)
  BY <1>2, <1>3 DEF Fresh, Ok, Pool, EmptyPool
<1>6. ASSUME NEW up \in BOOLEAN, NEW connected \in BOOLEAN
      PROVE  Fresh(FirstConn(up, connected))
  BY <1>2, <1>4 DEF Fresh, Ok, Pool, FirstConn
<1> QED
  BY <1>5, <1>6

\* Nothing is missed where nothing is tracked.
LEMMA FreshIsCovered ==
    ASSUME NEW p, Fresh(p), NEW L
    PROVE  Covered(p, L)
  BY DEF Fresh, Covered, Heard, AllModes

\* What is lost with a step stays lost unless it is fed.
LEMMA Becoming ==
    ASSUME NEW p, Ok(p), NEW gone, gone \subseteq Sub, lost \subseteq Sub,
           Covered(p, lost \cup gone), Becomes(p, gone)
    PROVE  /\ Ok(pool') /\ pool' = p /\ Covered(pool', lost') /\ lost' \subseteq Sub
           /\ \A x \in lost \cup gone : x \in lost' \/ p.map[x] # 0
<1>1. pool' = p /\ lost' = {x \in lost \cup gone : ~(x \in Tracked(p) /\ Fed(p, x))}
  BY DEF Becomes
<1>2. \A x \in lost \cup gone : x \in lost' \/ (p.map[x] # 0 /\ Fed(p, x))
  BY <1>1 DEF Tracked
<1>3. \A s \in Symbol : Missed(p, lost \cup gone, s) => Missed(p, lost', s)
  BY <1>2 DEF Missed
<1>4. Covered(p, lost')
  BY <1>3 DEF Covered
<1> QED
  BY <1>1, <1>2, <1>4

\* A step to a pool that tracks nothing loses what is held.
LEMMA Emptied ==
    ASSUME Inv, NEW p, Fresh(p), NEW gone, gone \subseteq Sub, Becomes(p, gone),
           \A c \in Client : subs[c] \subseteq gone \cup lost
    PROVE  /\ Ok(pool') /\ pool' = p /\ Covered(pool', lost') /\ lost' \subseteq Sub
           /\ \A c \in Client : \A x \in subs[c] : x \in lost'
<1>1. Covered(p, lost \cup gone)
  BY FreshIsCovered
<1>2. Ok(p) /\ \A x \in Sub : p.map[x] = 0
  BY DEF Fresh
<1>3. lost \subseteq Sub
  BY DEF Inv, Shape
<1> QED
  BY <1>1, <1>2, <1>3, Becoming

\* What the clients have is in the index.
LEMMA HeldIsHeld ==
    ASSUME Inv
    PROVE  Held \subseteq Sub /\ \A c \in Client : subs[c] \subseteq Held
  BY DEF Inv, Shape, Held

\* A client that authenticates finds a connected pool, or a new one is made.
LEMMA AuthenticateKeeps ==
    ASSUME Inv, NEW c \in Client, Authenticate(c)
    PROVE  Inv' /\ Tidy
<1>1. /\ call = NoCall /\ call' = call /\ client' = client \cup {c}
      /\ subs' = subs /\ index' = index
  BY DEF Authenticate, Idle
<1>2. CASE pool' = pool /\ attached' = attached /\ lost' = lost /\ faults' = faults
  <2>1. Inv'
    BY <1>1, <1>2 DEF Inv, Shape, Restoring, NoCall, Covered, Heard, Missed, Fed, Ok
  <2>2. Tidy
    BY <1>1, <1>2 DEF Tidy, Unwanted, Held, Tracked
  <2> QED
    BY <2>1, <2>2
<1>3. CASE \E made \in {Outcome(FirstConn(TRUE, TRUE), "success", 0, {}),
                        Outcome(FirstConn(FALSE, TRUE), "success", 1, {}),
                        Outcome(EmptyPool, "error", 1, {})} :
              Spend(made.failed) /\ attached' = (made.answer = "success") /\ Becomes(made.pool, Held)
  <2>0. PICK made \in {Outcome(FirstConn(TRUE, TRUE), "success", 0, {}),
                       Outcome(FirstConn(FALSE, TRUE), "success", 1, {}),
                       Outcome(EmptyPool, "error", 1, {})} :
              Spend(made.failed) /\ attached' = (made.answer = "success") /\ Becomes(made.pool, Held)
    BY <1>3
  <2> DEFINE p == made.pool
  <2>1. Fresh(p) /\ made.failed \in Nat
    <3>1. CASE made = Outcome(FirstConn(TRUE, TRUE), "success", 0, {})
      BY <3>1, FreshPools DEF Outcome
    <3>2. CASE made = Outcome(FirstConn(FALSE, TRUE), "success", 1, {})
      BY <3>2, FreshPools DEF Outcome
    <3>3. CASE made = Outcome(EmptyPool, "error", 1, {})
      BY <3>3, FreshPools DEF Outcome
    <3> QED
      BY <2>0, <3>1, <3>2, <3>3
  <2> HIDE DEF p
  <2>2. /\ Ok(pool') /\ pool' = p /\ Covered(pool', lost') /\ lost' \subseteq Sub
        /\ \A d \in Client : \A x \in subs[d] : x \in lost'
    BY <2>0, <2>1, HeldIsHeld, Emptied DEF p
  <2>3. faults' \in Nat /\ attached' \in BOOLEAN
    BY <2>0, <2>1 DEF Spend, Inv, Shape
  <2>4. \A x \in Sub : pool'.map[x] = 0
    BY <2>1, <2>2 DEF Fresh
  <2>5. Inv'
    BY <1>1, <2>1, <2>2, <2>3, <2>4 DEF Inv, Shape, NoCall
  <2>6. Unwanted' = {}
    BY <1>1, <2>4 DEF Unwanted, Tracked, NoCall
  <2> QED
    BY <2>5, <2>6 DEF Tidy
<1> QED
  BY <1>2, <1>3 DEF Authenticate

\* A login of the same process empties the pool behind its adapter.
LEMMA PurgeKeeps ==
    ASSUME Inv, Purge
    PROVE  Inv' /\ Tidy
<1>1. /\ Becomes(EmptyPool, Held)
      /\ UNCHANGED <<client, subs, index, attached, call, faults>>
  BY DEF Purge
<1>2. /\ Ok(pool') /\ pool' = EmptyPool /\ Covered(pool', lost') /\ lost' \subseteq Sub
      /\ \A d \in Client : \A x \in subs[d] : x \in lost'
  BY <1>1, FreshPools, HeldIsHeld, Emptied
<1>3. \A x \in Sub : pool'.map[x] = 0
  BY <1>2, FreshPools DEF Fresh
<1>4. Inv'
  BY <1>1, <1>2, <1>3 DEF Inv, Shape
<1>5. Unwanted' \subseteq Unwanted
  BY <1>1, <1>3 DEF Unwanted, Tracked, Held
<1> QED
  BY <1>4, <1>5 DEF Tidy

\* A new token takes the adapter away.
LEMMA InvalidateKeeps ==
    ASSUME Inv, Invalidate
    PROVE  Inv' /\ Tidy
<1>1. /\ Becomes(EmptyPool, Held) /\ call = NoCall /\ attached' = FALSE
      /\ UNCHANGED <<client, subs, index, call, faults>>
  BY DEF Invalidate, Idle
<1>2. /\ Ok(pool') /\ pool' = EmptyPool /\ Covered(pool', lost') /\ lost' \subseteq Sub
      /\ \A d \in Client : \A x \in subs[d] : x \in lost'
  BY <1>1, FreshPools, HeldIsHeld, Emptied
<1>3. \A x \in Sub : pool'.map[x] = 0
  BY <1>2, FreshPools DEF Fresh
<1>4. Inv'
  BY <1>1, <1>2, <1>3 DEF Inv, Shape, NoCall
<1>5. Unwanted' \subseteq Unwanted
  BY <1>1, <1>3 DEF Unwanted, Tracked, Held
<1> QED
  BY <1>4, <1>5 DEF Tidy

\* A client holds one more subscription, or none more.
LEMMA SubscribeKeeps ==
    ASSUME Inv, NEW c \in Client, NEW x \in Sub, Subscribe(c, x)
    PROVE  Inv' /\ Tidy
<1>1. /\ call = NoCall /\ c \in client /\ attached /\ client' = client /\ attached' = attached
  BY DEF Subscribe, Idle
<1>2. PICK o \in SubscribeInner(pool, x) :
          \/ /\ o.answer = "success" /\ Hold(c, x)
             /\ Spend(o.failed) /\ Becomes(o.pool, o.gone) /\ UNCHANGED call
          \/ /\ o.answer = "error" /\ UNCHANGED <<subs, index>>
             /\ Spend(o.failed) /\ Becomes(o.pool, o.gone) /\ UNCHANGED call
          \/ /\ o.answer = "auth" /\ UNCHANGED <<subs, index>>
             /\ \E r \in Rebuilds :
                   /\ Spend(o.failed + r.failed)
                   /\ Becomes(r.pool, r.gone)
                   /\ call' = IF r.answer = "success"
                              THEN [op |-> "restore", c |-> c, x |-> x, todo |-> Tracked(pool)]
                              ELSE NoCall
  BY DEF Subscribe
<1>3. Adds(pool, lost, x, o)
  BY SubscribeAdds DEF Inv, Shape
<1>4. CASE o.answer \in {"success", "error"}
  <2>1. Becomes(o.pool, {}) /\ Spend(o.failed) /\ call' = call
    BY <1>2, <1>3, <1>4 DEF Adds
  <2>2. /\ Ok(pool') /\ pool' = o.pool /\ Covered(pool', lost') /\ lost' \subseteq Sub
        /\ \A y \in lost : y \in lost' \/ pool'.map[y] # 0
    BY <1>3, <2>1, Becoming DEF Adds, Inv, Shape
  <2>3. faults' \in Nat
    BY <1>3, <2>1 DEF Spend, Adds, Inv, Shape
  <2>4. \A y \in Sub : pool.map[y] # 0 => pool'.map[y] # 0
    BY <1>3, <1>4, <2>2 DEF Adds
  <2>5. CASE o.answer = "success"
    <3>1. Hold(c, x)
      BY <1>2, <2>5
    <3>2. /\ subs' \in [Client -> SUBSET Sub] /\ index' \in [Sub -> SUBSET Client]
          /\ \A d \in Client : subs'[d] = IF d = c THEN subs[d] \cup {x} ELSE subs[d]
          /\ \A y \in Sub : index'[y] = IF y = x THEN index[y] \cup {c} ELSE index[y]
      BY <3>1 DEF Hold, Inv, Shape
    <3>3. pool'.map[x] # 0
      BY <1>3, <2>2, <2>5 DEF Adds
    <3>4. \A y \in Sub : index'[y] = {d \in Client : y \in subs'[d]}
      BY <3>2 DEF Inv
    <3>5. \A d \in Client : \A y \in subs'[d] : pool'.map[y] # 0 \/ y \in lost'
      BY <1>1, <2>2, <2>4, <3>2, <3>3 DEF Inv, Shape, Restoring, NoCall
    <3>6. Inv'
      BY <1>1, <2>1, <2>2, <2>3, <3>2, <3>4, <3>5 DEF Inv, Shape, NoCall
    <3>7. Unwanted' \subseteq Unwanted
      BY <1>1, <1>3, <2>1, <2>2, <3>2 DEF Unwanted, Held, Tracked, NoCall, Adds
    <3> QED
      BY <3>6, <3>7 DEF Tidy
  <2>6. CASE o.answer = "error"
    <3>1. subs' = subs /\ index' = index
      BY <1>2, <2>6
    <3>2. \A d \in Client : \A y \in subs[d] : pool'.map[y] # 0 \/ y \in lost'
      BY <1>1, <2>2, <2>4 DEF Inv, Shape, Restoring, NoCall
    <3>3. Inv'
      BY <1>1, <2>1, <2>2, <2>3, <3>1, <3>2 DEF Inv, Shape, NoCall
    <3>4. \A y \in Sub : pool'.map[y] = pool.map[y]
      BY <1>3, <2>2, <2>6 DEF Adds
    <3>5. Unwanted' \subseteq Unwanted
      BY <1>1, <2>1, <3>1, <3>4 DEF Unwanted, Held, Tracked, NoCall
    <3> QED
      BY <3>3, <3>5 DEF Tidy
  <2> QED
    BY <1>4, <2>5, <2>6
<1>5. CASE o.answer = "auth"
  <2>1. PICK r \in Rebuilds :
                   /\ Spend(o.failed + r.failed)
                   /\ Becomes(r.pool, r.gone)
                   /\ call' = IF r.answer = "success"
                              THEN [op |-> "restore", c |-> c, x |-> x, todo |-> Tracked(pool)]
                              ELSE NoCall
    BY <1>2, <1>5
  <2>2. subs' = subs /\ index' = index
    BY <1>2, <1>5
  <2>3. /\ Fresh(r.pool) /\ r.failed \in Nat /\ r.gone \subseteq Sub
        /\ r.answer # "success" => r.gone = Held
    <3>1. CASE r = Outcome(FirstConn(TRUE, TRUE), "success", 0, {})
      BY <3>1, FreshPools DEF Outcome
    <3>2. CASE r = Outcome(FirstConn(FALSE, FALSE), "error", 1, Held)
      BY <3>2, FreshPools, HeldIsHeld DEF Outcome
    <3>3. CASE r = Outcome(EmptyPool, "error", 1, Held)
      BY <3>3, FreshPools, HeldIsHeld DEF Outcome
    <3> QED
      BY <3>1, <3>2, <3>3 DEF Rebuilds
  <2>4. /\ Ok(pool') /\ pool' = r.pool /\ Covered(pool', lost') /\ lost' \subseteq Sub
        /\ \A y \in lost \cup r.gone : y \in lost'
    <3>1. Covered(r.pool, lost \cup r.gone) /\ Ok(r.pool) /\ \A y \in Sub : r.pool.map[y] = 0
      BY <2>3, FreshIsCovered DEF Fresh
    <3>2. lost \subseteq Sub
      BY DEF Inv, Shape
    <3> QED
      BY <2>1, <2>3, <3>1, <3>2, Becoming
  <2>5. faults' \in Nat /\ faults' # faults
    BY <1>3, <1>5, <2>1, <2>3 DEF Spend, Adds, Inv, Shape
  <2>6. call' \in Calls
    BY <2>1 DEF Calls, Tracked
  <2>7. CASE r.answer = "success"
    <3>1. call'.op = "restore" /\ call'.c = c /\ call'.todo = Tracked(pool)
      BY <2>1, <2>7
    <3>2. \A d \in Client : \A y \in subs[d] : y \in lost' \/ y \in call'.todo
      BY <1>1, <2>4, <3>1 DEF Inv, Shape, Restoring, NoCall, Tracked
    <3>3. Inv'
      BY <1>1, <2>2, <2>4, <2>5, <2>6, <3>1, <3>2 DEF Inv, Shape, Restoring
    <3> QED
      BY <2>5, <3>3 DEF Tidy
  <2>8. CASE r.answer # "success"
    <3>1. call' = NoCall
      BY <2>1, <2>8
    <3>2. \A d \in Client : \A y \in subs[d] : y \in lost'
      BY <2>3, <2>4, <2>8, HeldIsHeld
    <3>3. Inv'
      BY <1>1, <2>2, <2>4, <2>5, <2>6, <3>1, <3>2 DEF Inv, Shape, Restoring, NoCall
    <3> QED
      BY <2>5, <3>3 DEF Tidy
  <2> QED
    BY <2>7, <2>8
<1> QED
  BY <1>2, <1>4, <1>5

\* A subscription of the snapshot is tracked again, or lost.
LEMMA RestoreKeeps ==
    ASSUME Inv, Restore
    PROVE  Inv' /\ Tidy
<1>0. PICK x \in call.todo : \E o \in SubscribeInner(pool, x) :
          /\ Spend(o.failed)
          /\ Becomes(o.pool, IF o.answer = "success" THEN {} ELSE {x})
          /\ call' = [call EXCEPT !.todo = @ \ {x}]
  BY DEF Restore
<1>1. PICK o \in SubscribeInner(pool, x) :
          /\ Spend(o.failed)
          /\ Becomes(o.pool, IF o.answer = "success" THEN {} ELSE {x})
          /\ call' = [call EXCEPT !.todo = @ \ {x}]
  BY <1>0
<1>2. /\ call.op = "restore" /\ call \in [op : {"restore"}, c : Client, x : Sub, todo : SUBSET Sub]
      /\ UNCHANGED <<client, subs, index, attached>> /\ attached
  BY DEF Restore, Inv, Shape, Calls, NoCall
<1>3. /\ x \in Sub /\ call'.op = "restore" /\ call'.c = call.c /\ call'.todo = call.todo \ {x}
      /\ call' \in Calls
  BY <1>1, <1>2 DEF Calls
<1>4. Adds(pool, lost, x, o)
  BY <1>3, SubscribeAdds DEF Inv, Shape
<1> DEFINE gone == IF o.answer = "success" THEN {} ELSE {x}
<1>5. Covered(o.pool, lost \cup gone)
  BY <1>4 DEF Adds, Covered, Missed
<1>6. /\ Ok(pool') /\ pool' = o.pool /\ Covered(pool', lost') /\ lost' \subseteq Sub
      /\ \A y \in lost \cup gone : y \in lost' \/ pool'.map[y] # 0
  <2>1. gone \subseteq Sub /\ lost \subseteq Sub /\ Becomes(o.pool, gone) /\ Ok(o.pool)
    BY <1>1, <1>3, <1>4 DEF Adds, Inv, Shape
  <2> QED
    BY <1>5, <2>1, Becoming
<1>7. x \in lost' \/ pool'.map[x] # 0
  BY <1>4, <1>6 DEF Adds
<1>8. \A y \in Sub : pool.map[y] # 0 /\ y # x => pool'.map[y] # 0
  BY <1>4, <1>6 DEF Adds
<1>9. \A c \in Client : \A y \in subs[c] : pool'.map[y] # 0 \/ y \in lost' \/ y \in call'.todo
  BY <1>2, <1>3, <1>6, <1>7, <1>8 DEF Inv, Shape, Restoring
<1>10. faults' \in Nat
  BY <1>1, <1>4 DEF Adds, Spend, Inv, Shape
<1>11. Inv'
  BY <1>2, <1>3, <1>6, <1>9, <1>10 DEF Inv, Shape, Restoring
<1>12. Unwanted' \subseteq Unwanted
  BY <1>1, <1>2, <1>3, <1>4, <1>6 DEF Unwanted, Held, Tracked, Adds
<1> QED
  BY <1>11, <1>12 DEF Tidy

\* The subscription that began the recovery.
LEMMA RetryKeeps ==
    ASSUME Inv, Retry
    PROVE  Inv' /\ Tidy
<1> DEFINE c == call.c
           x == call.x
<1>1. PICK o \in SubscribeInner(pool, x) :
          /\ Spend(o.failed) /\ Becomes(o.pool, o.gone)
          /\ IF o.answer = "success" THEN Hold(c, x) ELSE UNCHANGED <<subs, index>>
  BY DEF Retry
<1>2. /\ call.op = "restore" /\ call.todo = {} /\ c \in Client /\ x \in Sub /\ c \in client
      /\ call' = NoCall /\ UNCHANGED <<client, attached>> /\ attached
  BY DEF Retry, Inv, Shape, Calls, NoCall
<1> HIDE DEF c, x
<1>3. Adds(pool, lost, x, o)
  BY <1>2, SubscribeAdds DEF Inv, Shape
<1>4. /\ Ok(pool') /\ pool' = o.pool /\ Covered(pool', lost') /\ lost' \subseteq Sub
      /\ \A y \in lost : y \in lost' \/ pool'.map[y] # 0
  BY <1>1, <1>3, Becoming DEF Adds, Inv, Shape
<1>5. faults' \in Nat
  BY <1>1, <1>3 DEF Spend, Adds, Inv, Shape
<1>6. \A y \in Sub : pool.map[y] # 0 => pool'.map[y] # 0
  BY <1>3, <1>4 DEF Adds
<1>7. \A d \in Client : \A y \in subs[d] : pool'.map[y] # 0 \/ y \in lost'
  BY <1>2, <1>4, <1>6 DEF Inv, Shape, Restoring
<1>8. CASE o.answer = "success"
  <2>1. Hold(c, x)
    BY <1>1, <1>8
  <2>2. /\ subs' \in [Client -> SUBSET Sub] /\ index' \in [Sub -> SUBSET Client]
        /\ \A d \in Client : subs'[d] = IF d = c THEN subs[d] \cup {x} ELSE subs[d]
        /\ \A y \in Sub : index'[y] = IF y = x THEN index[y] \cup {c} ELSE index[y]
    BY <1>2, <2>1 DEF Hold, Inv, Shape
  <2>3. pool'.map[x] # 0
    BY <1>3, <1>4, <1>8 DEF Adds
  <2>4. \A y \in Sub : index'[y] = {d \in Client : y \in subs'[d]}
    BY <1>2, <2>2 DEF Inv
  <2>5. \A d \in Client : \A y \in subs'[d] : pool'.map[y] # 0 \/ y \in lost'
    BY <1>7, <2>2, <2>3
  <2>6. Inv'
    BY <1>2, <1>4, <1>5, <2>2, <2>4, <2>5 DEF Inv, Shape, NoCall, Calls
  <2>7. Unwanted' \subseteq Unwanted
    BY <1>2, <1>3, <1>4, <2>2 DEF Unwanted, Held, Tracked, NoCall, Adds
  <2> QED
    BY <2>6, <2>7 DEF Tidy
<1>9. CASE o.answer # "success"
  <2>1. subs' = subs /\ index' = index
    BY <1>1, <1>9
  <2>2. Inv'
    BY <1>2, <1>4, <1>5, <1>7, <2>1 DEF Inv, Shape, NoCall, Calls
  <2>3. Unwanted' \subseteq Unwanted
    BY <1>2, <1>3, <1>4, <1>9, <2>1 DEF Unwanted, Held, Tracked, NoCall, Adds
  <2> QED
    BY <2>2, <2>3 DEF Tidy
<1> QED
  BY <1>8, <1>9

\* A client gives up one subscription.
LEMMA LetGoKeeps ==
    ASSUME Inv, NEW c \in Client, NEW x \in Sub, x \in subs[c], LetGo(c, x),
           call.op # "restore", UNCHANGED <<client, attached, call>>
    PROVE  Inv' /\ Tidy
<1>1. /\ subs' \in [Client -> SUBSET Sub] /\ index' \in [Sub -> SUBSET Client]
      /\ \A d \in Client : subs'[d] = IF d = c THEN subs[d] \ {x} ELSE subs[d]
      /\ \A y \in Sub : index'[y] = IF y = x THEN index[y] \ {c} ELSE index[y]
  BY DEF LetGo, Inv, Shape
<1>2. \A y \in Sub : index'[y] = {d \in Client : y \in subs'[d]}
  BY <1>1 DEF Inv
<1>3. \A d \in Client : subs'[d] # {} => d \in client
  BY <1>1 DEF Inv
<1>4. CASE index[x] = {c} /\ attached
  <2>1. PICK o \in UnsubscribeInner(pool, x) : Spend(o.failed) /\ Becomes(o.pool, o.gone)
    BY <1>4 DEF LetGo
  <2>2. Removes(pool, lost, x, o)
    BY UnsubscribeRemoves DEF Inv, Shape
  <2>3. /\ Ok(pool') /\ pool' = o.pool /\ Covered(pool', lost') /\ lost' \subseteq Sub
        /\ \A y \in lost : y \in lost' \/ pool'.map[y] # 0
    BY <2>1, <2>2, Becoming DEF Removes, Inv, Shape
  <2>4. faults' \in Nat
    BY <2>1, <2>2 DEF Spend, Removes, Inv, Shape
  <2>5. \A y \in Sub : y # x => pool'.map[y] = pool.map[y]
    BY <2>2, <2>3 DEF Removes
  <2>6. \A d \in Client : x \notin subs'[d]
    BY <1>1, <1>4 DEF Inv
  <2>7. \A d \in Client : \A y \in subs'[d] : pool'.map[y] # 0 \/ y \in lost'
    BY <1>1, <2>3, <2>5, <2>6 DEF Inv, Shape, Restoring
  <2>8. Inv'
    BY <1>1, <1>2, <1>3, <1>4, <2>3, <2>4, <2>7 DEF Inv, Shape
  <2>9. ASSUME faults' = faults
        PROVE  Unwanted' \subseteq Unwanted
    <3>1. o.failed = 0
      BY <2>1, <2>2, <2>9 DEF Spend, Removes, Inv, Shape
    <3>2. pool'.map[x] = 0
      BY <2>2, <2>3, <3>1 DEF Removes
    <3> QED
      BY <1>1, <2>5, <3>2 DEF Unwanted, Held, Tracked
  <2> QED
    BY <2>8, <2>9 DEF Tidy
<1>5. CASE ~(index[x] = {c} /\ attached)
  <2>1. UNCHANGED <<pool, lost, faults>>
    BY <1>5 DEF LetGo
  <2>2. \A d \in Client : \A y \in subs'[d] : pool.map[y] # 0 \/ y \in lost
    BY <1>1 DEF Inv, Restoring
  <2>3. Inv'
    BY <1>1, <1>2, <1>3, <2>1, <2>2 DEF Inv, Shape
  <2>4. index[x] # {c} => index'[x] # {}
    BY <1>1 DEF Inv
  <2>5. ~attached => \A y \in Sub : pool.map[y] = 0
    BY DEF Inv
  <2>6. Unwanted' \subseteq Unwanted
    BY <1>1, <1>5, <2>1, <2>4, <2>5 DEF Unwanted, Held, Tracked
  <2> QED
    BY <2>3, <2>6 DEF Tidy
<1> QED
  BY <1>4, <1>5

\* A client that has given up everything is done, and the last one drops the pool.
LEMMA LeftKeeps ==
    ASSUME Inv, Left
    PROVE  Inv' /\ Tidy
<1>1. /\ call.op \in {"clear", "close"} /\ subs[call.c] = {} /\ call' = NoCall
      /\ UNCHANGED <<subs, index, faults>> /\ call.c \in Client
  BY DEF Left, Inv, Shape, Calls, NoCall
<1>2. CASE UNCHANGED <<client, attached, pool, lost>>
  <2>1. Inv'
    BY <1>1, <1>2 DEF Inv, Shape, Calls, NoCall, Restoring, Covered, Heard, Missed, Fed, Ok
  <2>2. Unwanted' \subseteq Unwanted
    BY <1>1, <1>2 DEF Unwanted, Held, Tracked, NoCall
  <2> QED
    BY <2>1, <2>2 DEF Tidy
<1>3. CASE client' = client \ {call.c} /\ UNCHANGED <<attached, pool, lost>>
  <2>1. \A c \in Client : subs[c] # {} => c \in client'
    BY <1>1, <1>3 DEF Inv
  <2>2. Inv'
    BY <1>1, <1>3, <2>1 DEF Inv, Shape, Calls, NoCall, Restoring, Covered, Heard, Missed, Fed, Ok
  <2>3. Unwanted' \subseteq Unwanted
    BY <1>1, <1>3 DEF Unwanted, Held, Tracked, NoCall
  <2> QED
    BY <2>2, <2>3 DEF Tidy
<1>4. CASE /\ client' = client \ {call.c} /\ IsLast(call.c)
           /\ attached' = FALSE /\ Becomes(EmptyPool, {})
  <2>1. \A c \in Client : subs[c] = {}
    BY <1>1, <1>4 DEF Inv, IsLast
  <2>2. /\ Ok(pool') /\ pool' = EmptyPool /\ Covered(pool', lost') /\ lost' \subseteq Sub
    BY <1>4, <2>1, FreshPools, Emptied
  <2>3. \A x \in Sub : pool'.map[x] = 0
    BY <2>2, FreshPools DEF Fresh
  <2>4. client' \subseteq Client
    BY <1>4 DEF Inv, Shape
  <2>5. Inv'
    BY <1>1, <1>4, <2>1, <2>2, <2>3, <2>4 DEF Inv, Shape, Calls, NoCall
  <2>6. Unwanted' \subseteq Unwanted
    BY <1>1, <2>3 DEF Unwanted, Tracked, NoCall
  <2> QED
    BY <2>5, <2>6 DEF Tidy
<1> QED
  BY <1>2, <1>3, <1>4 DEF Left

-----------------------------------------------------------------------------
(* The theorems *)

\* At first nobody holds anything and there is no pool.
LEMMA InvInit == Init => Inv
<1> SUFFICES ASSUME Init
             PROVE  Inv
  OBVIOUS
<1>1. Ok(pool) /\ \A x \in Sub : pool.map[x] = 0
  BY FreshPools DEF Init, Fresh
<1>2. Covered(pool, lost)
  BY <1>1 DEF Covered, Heard, AllModes
<1>3. Shape
  BY <1>1 DEF Init, Shape, Calls
<1> QED
  BY <1>1, <1>2, <1>3 DEF Init, Inv, NoCall

\* Every step keeps the invariant and leaves nothing behind.
LEMMA InvNext ==
    ASSUME Inv, [Next]_vars
    PROVE  Inv' /\ Tidy
<1>1. ASSUME NEW c \in Client, Authenticate(c)
      PROVE  Inv' /\ Tidy
  BY <1>1, AuthenticateKeeps
<1>2. ASSUME NEW c \in Client, NEW x \in Sub, Subscribe(c, x)
      PROVE  Inv' /\ Tidy
  BY <1>2, SubscribeKeeps
<1>3. ASSUME NEW c \in Client, NEW x \in Sub, Unsubscribe(c, x)
      PROVE  Inv' /\ Tidy
  BY <1>3, LetGoKeeps DEF Unsubscribe, Idle, NoCall
<1>4. ASSUME NEW c \in Client, NEW op \in {"clear", "close"}, Leave(c, op)
      PROVE  Inv' /\ Tidy
  <2>1. /\ call' = [op |-> op, c |-> c] /\ call = NoCall
        /\ UNCHANGED <<client, subs, index, attached, pool, lost, faults>>
    BY <1>4 DEF Leave, Idle
  <2>2. call' \in Calls /\ call'.op # "restore"
    BY <2>1 DEF Calls
  <2>3. Inv'
    BY <2>1, <2>2 DEF Inv, Shape, NoCall, Restoring, Covered, Heard, Missed, Fed, Ok
  <2>4. Unwanted' \subseteq Unwanted
    BY <2>1, <2>2 DEF Unwanted, Held, Tracked, NoCall
  <2> QED
    BY <2>3, <2>4 DEF Tidy
<1>5. CASE LeaveOne
  <2>1. call.op \in {"clear", "close"} /\ UNCHANGED <<client, attached, call>>
    BY <1>5 DEF LeaveOne
  <2>2. call.c \in Client /\ subs[call.c] \subseteq Sub
    BY <2>1 DEF Inv, Shape, Calls, NoCall
  <2>3. PICK x \in subs[call.c] : LetGo(call.c, x)
    BY <1>5 DEF LeaveOne
  <2> QED
    BY <2>1, <2>2, <2>3, LetGoKeeps
<1>6. CASE Login \/ UNCHANGED vars
  <2>1. UNCHANGED <<client, subs, index, attached, pool, call, lost, faults>>
    BY <1>6 DEF Login, vars
  <2>2. Inv'
    BY <2>1 DEF Inv, Shape, Restoring, Covered, Heard, Missed, Fed, Ok
  <2>3. Unwanted' \subseteq Unwanted
    BY <2>1 DEF Unwanted, Held, Tracked
  <2> QED
    BY <2>2, <2>3 DEF Tidy
<1> QED
  BY <1>1, <1>2, <1>3, <1>4, <1>5, <1>6, RestoreKeeps, RetryKeeps, LeftKeeps, PurgeKeeps,
     InvalidateKeeps DEF Next

\* Whoever holds a subscription is fed, but for what has been lost with a pool or a
\* rollback, or is about to be restored.
THEOREM HoldersAreFed == Spec => []SubscribedIsFed
<1>1. Inv => SubscribedIsFed
  <2> SUFFICES ASSUME Inv, NEW c \in Client, NEW x \in subs[c],
                      x \notin lost, ~(call.op = "restore" /\ x \in call.todo)
               PROVE  x \in Tracked(pool) /\ Fed(pool, x)
    BY DEF SubscribedIsFed
  <2>1. x \in Sub /\ pool.map[x] # 0
    BY DEF Inv, Shape, Restoring
  <2>2. x[1] \in Symbol /\ x \in AllModes(x[1])
    BY <2>1, SubShape DEF AllModes
  <2>3. Fed(pool, x)
    BY <2>1, <2>2 DEF Inv, Covered, Heard, Missed
  <2> QED
    BY <2>1, <2>3 DEF Tracked
<1>2. Inv /\ [Next]_vars => Inv'
  BY InvNext
<1> QED
  BY <1>1, <1>2, InvInit, PTL DEF Spec

\* A subscription is left tracked without a client only where the broker refuses a call.
THEOREM NothingStays == Spec => NothingLeftBehind
<1>1. Inv /\ [Next]_vars => Inv'
  BY InvNext
<1>2. Inv /\ [Next]_vars => [faults' = faults => Unwanted' \subseteq Unwanted]_vars
  BY InvNext DEF Tidy
<1> QED
  BY <1>1, <1>2, InvInit, PTL DEF Spec, NothingLeftBehind

-----------------------------------------------------------------------------
(* The counts of the pool *)

\* The symbols that are tracked on a connection.
Here(p, i) == {s \in Symbol : \E x \in AllModes(s) : p.map[x] = i}

\* A symbol is on connection i, or on none (0).
On(p, s, i) ==
    /\ i \in 0 .. Len(p.conns)
    /\ \A x \in Sub : x[1] = s => p.map[x] \in {0, i}
    /\ i # 0 => \E x \in Sub : x[1] = s /\ p.map[x] = i

\* A connection counts its symbols.
Counted(p, j) ==
    /\ IsFiniteSet(Here(p, j))
    /\ p.conns[j].count = Cardinality(Here(p, j))
    /\ p.conns[j].count <= MaxSymbols

Exact(p) ==
    /\ Ok(p) /\ Len(p.conns) <= MaxConnections
    /\ \A s \in Symbol : \E i \in Nat : On(p, s, i)
    /\ \A j \in DOMAIN p.conns : Counted(p, j)

\* What a step changes of the tracking of one symbol, counts aside.
Moved(p, q, s) ==
    /\ Ok(q) /\ Len(q.conns) = Len(p.conns)
    /\ \A y \in Sub : y[1] # s => q.map[y] = p.map[y]

\* A symbol that leaves connection a for b is counted there.
Recounted(p, q, a, b) ==
    \A j \in DOMAIN p.conns :
       q.conns[j].count = p.conns[j].count + (IF j = b THEN 1 ELSE 0) - (IF j = a THEN 1 ELSE 0)

\* The connections of a pool are numbered from 1.
LEMMA ConnIndices ==
    ASSUME NEW p, Ok(p)
    PROVE  /\ Len(p.conns) \in Nat /\ DOMAIN p.conns = 1 .. Len(p.conns)
           /\ 0 \in 0 .. Len(p.conns)
           /\ \A j \in DOMAIN p.conns : /\ j \in Nat \ {0} /\ j \in 0 .. Len(p.conns)
                                        /\ p.conns[j].count \in Int
<1>1. p.conns \in Seq(Conn)
  BY DEF Ok, Pool
<1>2. \A j \in DOMAIN p.conns : p.conns[j] \in Conn
  BY <1>1
<1>3. Len(p.conns) \in Nat /\ DOMAIN p.conns = 1 .. Len(p.conns)
  BY <1>1
<1> QED
  BY <1>2, <1>3 DEF Conn

\* A symbol that is on i is one of the symbols of i, and of no other connection.
LEMMA OnIsHere ==
    ASSUME NEW p, Ok(p), NEW s \in Symbol, NEW i \in Nat, On(p, s, i), NEW j \in DOMAIN p.conns
    PROVE  s \in Here(p, j) <=> j = i
<1>1. j # 0
  BY ConnIndices
<1>2. s \in Here(p, j) => j = i
  BY <1>1 DEF Here, AllModes, On
<1>3. j = i => s \in Here(p, j)
  BY <1>1 DEF Here, AllModes, On
<1> QED
  BY <1>2, <1>3

\* A symbol is tracked where its tracked modes are.
LEMMA OnIsModes ==
    ASSUME NEW p, Ok(p), NEW s \in Symbol, NEW i \in Nat, On(p, s, i)
    PROVE  /\ i = 0 <=> Modes(p, s) = {}
           /\ i # 0 => i \in DOMAIN p.conns
           /\ \A m \in Modes(p, s) : p.map[<<s, m>>] = i
<1>1. /\ \A m \in Modes(p, s) : m \in Mode /\ <<s, m>> \in Sub /\ p.map[<<s, m>>] # 0
      /\ \A x \in Sub : x[1] = s /\ p.map[x] # 0 => x[2] \in Modes(p, s)
  BY ModesShape
<1>2. \A m : <<s, m>>[1] = s
  OBVIOUS
<1>3. \A m \in Modes(p, s) : p.map[<<s, m>>] = i /\ i # 0
  BY <1>1, <1>2 DEF On
<1>4. i # 0 => Modes(p, s) # {}
  BY <1>1 DEF On
<1>5. i # 0 => i \in DOMAIN p.conns
  BY ConnIndices DEF On
<1> QED
  BY <1>3, <1>4, <1>5

\* A step that moves one symbol from connection a to connection b, and counts it there.
LEMMA MovedIsExact ==
    ASSUME NEW p, Exact(p), NEW q, NEW s \in Symbol, Moved(p, q, s),
           NEW a \in Nat, On(p, s, a), NEW b \in Nat, On(q, s, b), Recounted(p, q, a, b),
           a = b \/ b = 0 \/ p.conns[b].count < MaxSymbols
    PROVE  Exact(q)
<1>1. /\ Ok(p) /\ Ok(q) /\ Len(q.conns) = Len(p.conns) /\ Len(p.conns) \in Nat
      /\ DOMAIN p.conns = 1 .. Len(p.conns) /\ DOMAIN q.conns = DOMAIN p.conns
      /\ Len(q.conns) <= MaxConnections
  BY ConnIndices DEF Moved, Exact
<1>2. ASSUME NEW r \in Symbol PROVE \E i \in Nat : On(q, r, i)
  <2>1. CASE r = s
    BY <2>1
  <2>2. CASE r # s
    <3>1. PICK i \in Nat : On(p, r, i)
      BY DEF Exact
    <3>2. \A x \in Sub : x[1] = r => q.map[x] = p.map[x]
      BY <2>2 DEF Moved
    <3>3. On(q, r, i)
      BY <1>1, <3>1, <3>2 DEF On
    <3> QED
      BY <3>3
  <2> QED
    BY <2>1, <2>2
<1>3. ASSUME NEW j \in DOMAIN p.conns PROVE Counted(q, j)
  <2>1. \A r \in Symbol : r # s => (r \in Here(q, j) <=> r \in Here(p, j))
    BY DEF Here, AllModes, Moved
  <2>2. (s \in Here(p, j) <=> j = a) /\ (s \in Here(q, j) <=> j = b)
    BY <1>1, OnIsHere
  <2>3. Here(p, j) \subseteq Symbol /\ Here(q, j) \subseteq Symbol
    BY DEF Here
  <2>4. /\ IsFiniteSet(Here(p, j)) /\ p.conns[j].count = Cardinality(Here(p, j))
        /\ p.conns[j].count <= MaxSymbols /\ p.conns[j].count \in Int /\ MaxSymbols \in Nat
    BY <1>1, ConnIndices, ProxyAssumption DEF Exact, Counted, ProxyAssumption
  <2>5. CASE (j = a /\ j = b) \/ (j # a /\ j # b)
    <3>0. \A r \in Symbol : r \in Here(q, j) <=> r \in Here(p, j)
      BY <2>1, <2>2, <2>5
    <3>1. Here(q, j) = Here(p, j)
      BY <2>3, <3>0
    <3>2. q.conns[j].count = p.conns[j].count
      BY <2>4, <2>5 DEF Recounted
    <3> QED
      BY <2>4, <3>1, <3>2 DEF Counted
  <2>6. CASE j = b /\ j # a
    <3>1. Here(q, j) = Here(p, j) \cup {s} /\ s \notin Here(p, j)
      BY <2>1, <2>2, <2>3, <2>6
    <3>2. q.conns[j].count = p.conns[j].count + 1
      BY <2>4, <2>6 DEF Recounted
    <3>3. p.conns[j].count < MaxSymbols
      BY <1>1, <2>6, ConnIndices
    <3>4. IsFiniteSet(Here(q, j)) /\ Cardinality(Here(q, j)) = Cardinality(Here(p, j)) + 1
      BY <2>4, <3>1, FS_AddElement
    <3> QED
      BY <2>4, <3>2, <3>3, <3>4 DEF Counted
  <2>7. CASE j # b /\ j = a
    <3>1. Here(q, j) = Here(p, j) \ {s} /\ s \in Here(p, j)
      BY <2>1, <2>2, <2>3, <2>7
    <3>2. q.conns[j].count = p.conns[j].count - 1
      BY <2>4, <2>7 DEF Recounted
    <3>4. IsFiniteSet(Here(q, j)) /\ Cardinality(Here(q, j)) = Cardinality(Here(p, j)) - 1
      BY <2>4, <3>1, FS_RemoveElement
    <3> QED
      BY <2>4, <3>2, <3>4 DEF Counted
  <2> QED
    BY <2>5, <2>6, <2>7
<1> QED
  BY <1>1, <1>2, <1>3 DEF Exact

\* What the broker is asked to send leaves the tracking and the counts as they are.
LEMMA SameIsExact ==
    ASSUME NEW p, Exact(p), NEW q, Ok(q), q.map = p.map, Len(q.conns) = Len(p.conns),
           \A j \in DOMAIN p.conns : q.conns[j].count = p.conns[j].count
    PROVE  Exact(q)
<1>1. Len(q.conns) <= MaxConnections /\ DOMAIN q.conns = DOMAIN p.conns
  BY ConnIndices DEF Exact
<1>2. \A s \in Symbol : \A i \in Nat : On(p, s, i) => On(q, s, i)
  BY DEF On
<1>3. \A j \in DOMAIN p.conns : Here(q, j) = Here(p, j)
  BY DEF Here
<1> QED
  BY <1>1, <1>2, <1>3 DEF Exact, Counted

\* A subscription is sent by the broker at its mode.
LEMMA SendIsExact ==
    ASSUME NEW p, Exact(p), NEW i \in DOMAIN p.conns, NEW x \in Symbol \X Nat
    PROVE  /\ Exact(Send(p, i, x)) /\ Ok(Send(p, i, x)) /\ Send(p, i, x).map = p.map
           /\ DOMAIN Send(p, i, x).conns = DOMAIN p.conns
           /\ \A j \in DOMAIN p.conns : Send(p, i, x).conns[j].count = p.conns[j].count
<1>1. PICK s \in Symbol, m \in Nat : x = <<s, m>>
  OBVIOUS
<1>2. Ok(p)
  BY DEF Exact
<1>3. /\ Ok(Send(p, i, <<s, m>>)) /\ Send(p, i, <<s, m>>).map = p.map
      /\ Len(Send(p, i, <<s, m>>).conns) = Len(p.conns)
      /\ DOMAIN Send(p, i, <<s, m>>).conns = DOMAIN p.conns
      /\ \A j \in DOMAIN p.conns : Send(p, i, <<s, m>>).conns[j].count = p.conns[j].count
  BY <1>2, SendSafe
<1>4. Exact(Send(p, i, <<s, m>>))
  BY <1>3, SameIsExact
<1> QED
  BY <1>1, <1>3, <1>4

\* A broker that ends a feed, or does not.
LEMMA EndedIsExact ==
    ASSUME NEW p, Exact(p), NEW i \in DOMAIN p.conns, NEW s \in Symbol, NEW q \in Ended(p, i, s)
    PROVE  /\ Exact(q) /\ Ok(q) /\ q.map = p.map /\ DOMAIN q.conns = DOMAIN p.conns
           /\ \A j \in DOMAIN p.conns : q.conns[j].count = p.conns[j].count
<1>1. Ok(p)
  BY DEF Exact
<1>2. /\ Ok(q) /\ q.map = p.map /\ Len(q.conns) = Len(p.conns) /\ DOMAIN q.conns = DOMAIN p.conns
      /\ \A j \in DOMAIN p.conns : q.conns[j].count = p.conns[j].count
  BY <1>1, EndedSafe
<1> QED
  BY <1>2, SameIsExact

\* One more mode of a symbol that is on connection i, or one less but not the last.
LEMMA TrackIsExact ==
    ASSUME NEW p, Exact(p), NEW x \in Sub, NEW i \in Nat \ {0}, On(p, x[1], i), NEW k \in {0, i},
           k = 0 => Modes(Track(p, x, 0), x[1]) # {}
    PROVE  Exact(Track(p, x, k)) /\ Ok(Track(p, x, k)) /\ Track(p, x, k).conns = p.conns
<1> DEFINE q == Track(p, x, k)
<1>1. /\ Ok(p) /\ x[1] \in Symbol /\ DOMAIN p.conns = 1 .. Len(p.conns) /\ Len(p.conns) \in Nat
      /\ k \in 0 .. Len(p.conns) /\ i \in DOMAIN p.conns
      /\ \A j \in DOMAIN p.conns : p.conns[j].count \in Int
  BY SubShape, ConnIndices DEF Exact, On
<1>2. /\ Ok(q) /\ q.conns = p.conns
      /\ \A y \in Sub : q.map[y] = IF y = x THEN k ELSE p.map[y]
  BY <1>1, TrackSafe
<1> HIDE DEF q
<1>3. \E y \in Sub : y[1] = x[1] /\ q.map[y] = i
  <2>1. CASE k = i
    BY <1>2, <2>1
  <2>2. CASE k = 0
    <3>1. PICK m : m \in Modes(q, x[1])
      BY <2>2 DEF q
    <3>2. <<x[1], m>> \in Sub /\ q.map[<<x[1], m>>] # 0 /\ <<x[1], m>>[1] = x[1]
      BY <1>1, <1>2, <3>1, ModesShape
    <3>3. q.map[<<x[1], m>>] \in {0, i}
      BY <1>2, <2>2, <3>2 DEF On
    <3> QED
      BY <3>2, <3>3
  <2> QED
    BY <2>1, <2>2
<1>4. On(q, x[1], i)
  BY <1>1, <1>2, <1>3 DEF On
<1>5. Moved(p, q, x[1]) /\ Recounted(p, q, i, i)
  BY <1>1, <1>2 DEF Moved, Recounted
<1>6. Exact(q)
  <2>1. i \in Nat
    OBVIOUS
  <2> QED
    BY <1>1, <1>4, <1>5, <2>1, MovedIsExact
<1> QED
  BY <1>2, <1>6 DEF q

\* A new symbol, on a connection that has room.
LEMMA AskNewExact ==
    ASSUME NEW p, Exact(p), NEW x \in Sub, NEW i \in DOMAIN p.conns,
           p.conns[i].count < MaxSymbols, Modes(p, x[1]) = {}, NEW o \in AskNew(p, i, x)
    PROVE  Exact(o.pool)
<1> DEFINE a == Track(p, x, i)
           b == Send(a, i, x)
           n == p.conns[i].count + 1
           c == Count(b, i, n)
<1>0. /\ Ok(p) /\ x = <<x[1], x[2]>> /\ x[1] \in Symbol /\ x[2] \in Nat
      /\ i \in 0 .. Len(p.conns) /\ i \in Nat \ {0} /\ n \in Int
      /\ \A j \in DOMAIN p.conns : j \in Nat \ {0} /\ p.conns[j].count \in Int
  BY SubShape, ConnIndices DEF Exact
<1> HIDE DEF a, b, c, n
<1>1. PICK k \in Nat : On(p, x[1], k)
  BY <1>0 DEF Exact
<1>2. k = 0
  BY <1>0, <1>1, OnIsModes
<1>3. Ok(a) /\ a.conns = p.conns /\ \A y \in Sub : a.map[y] = IF y = x THEN i ELSE p.map[y]
  BY <1>0, TrackSafe DEF a
<1>4. /\ Ok(b) /\ b.map = a.map /\ Len(b.conns) = Len(p.conns) /\ DOMAIN b.conns = DOMAIN p.conns
      /\ \A j \in DOMAIN p.conns : b.conns[j].count = p.conns[j].count
  <2>1. b = Send(a, i, <<x[1], x[2]>>)
    BY <1>0 DEF b
  <2> QED
    BY <1>0, <1>3, <2>1, SendSafe
<1>5. /\ Ok(c) /\ c.map = a.map /\ Len(c.conns) = Len(p.conns)
      /\ \A j \in DOMAIN p.conns : c.conns[j].count = IF j = i THEN n ELSE p.conns[j].count
  BY <1>0, <1>4, CountSafe DEF c
<1>6. Moved(p, c, x[1])
  BY <1>3, <1>5 DEF Moved
<1>7. On(c, x[1], i)
  BY <1>0, <1>1, <1>2, <1>3, <1>5 DEF On
<1>8. Recounted(p, c, k, i)
  BY <1>0, <1>2, <1>5 DEF Recounted, n
<1>9. Exact(c)
  BY <1>0, <1>1, <1>6, <1>7, <1>8, MovedIsExact
<1>10. o \in Asked(p, i, c)
  BY DEF AskNew, a, b, c, n
<1>11. o.pool \in {p, c}
  BY <1>10 DEF Asked, Outcome
<1> QED
  BY <1>9, <1>11

\* A connection more, on which nothing is tracked yet.
LEMMA OpenExact ==
    ASSUME NEW p, Exact(p), Len(p.conns) < MaxConnections, NEW up \in BOOLEAN
    PROVE  /\ Exact(Open(p, up)) /\ Open(p, up).map = p.map
           /\ Len(p.conns) + 1 \in DOMAIN Open(p, up).conns
           /\ Open(p, up).conns[Len(p.conns) + 1].count = 0
<1> DEFINE q == Open(p, up)
           n == Len(p.conns) + 1
           c == NewConn(up)
<1>1. /\ Ok(p) /\ p.conns \in Seq(Conn) /\ Len(p.conns) \in Nat /\ DOMAIN p.conns = 1 .. Len(p.conns)
      /\ \A x \in Sub : p.map[x] \in Nat /\ p.map[x] <= Len(p.conns)
  BY DEF Exact, Ok, Pool
<1>2. c \in Conn /\ c.count = 0
  BY DEF Conn, NewConn
<1>3. q.conns = Append(p.conns, c) /\ q.map = p.map
  BY <1>1 DEF Open, Ok, Pool
<1>4. Ok(q)
  BY <1>1, OpenSafe
<1> HIDE DEF c, q
<1>5. /\ Len(q.conns) = n /\ DOMAIN q.conns = 1 .. n /\ q.conns[n] = c
      /\ \A j \in DOMAIN p.conns : q.conns[j] = p.conns[j]
  BY <1>1, <1>2, <1>3
<1>6. \A s \in Symbol : \A i \in Nat : On(p, s, i) => On(q, s, i)
  BY <1>1, <1>3, <1>5 DEF On
<1>7. ASSUME NEW j \in DOMAIN q.conns PROVE Counted(q, j)
  <2>1. CASE j \in DOMAIN p.conns
    <3>1. Here(q, j) = Here(p, j)
      BY <1>3 DEF Here
    <3> QED
      BY <1>5, <2>1, <3>1 DEF Counted, Exact
  <2>2. CASE j = n
    <3>1. \A x \in Sub : p.map[x] # n
      BY <1>1
    <3>2. Here(q, j) = {}
      BY <1>3, <2>2, <3>1 DEF Here, AllModes
    <3>3. q.conns[j].count = 0 /\ 0 <= MaxSymbols
      BY <1>2, <1>5, <2>2, ProxyAssumption DEF ProxyAssumption
    <3> QED
      BY <3>2, <3>3, FS_EmptySet DEF Counted
  <2> QED
    BY <1>1, <1>5, <2>1, <2>2
<1>8. Len(q.conns) <= MaxConnections
  BY <1>1, <1>5, ProxyAssumption DEF ProxyAssumption
<1>9. Exact(q)
  BY <1>4, <1>6, <1>7, <1>8 DEF Exact
<1> QED
  BY <1>1, <1>2, <1>3, <1>5, <1>9 DEF q

\* A symbol nobody has keeps the pool exact, wherever it goes.
LEMMA NewSymbolExact ==
    ASSUME NEW p, Exact(p), NEW x \in Sub, Modes(p, x[1]) = {}, NEW o \in NewSymbol(p, x)
    PROVE  Exact(o.pool)
<1>1. CASE \E i \in DOMAIN p.conns : HasRoom(p, i)
  <2>1. FirstFree(p) \in DOMAIN p.conns /\ HasRoom(p, FirstFree(p))
    BY <1>1, FirstFreeHasRoom DEF Exact
  <2>2. o \in AskNew(p, FirstFree(p), x)
    BY <1>1 DEF NewSymbol
  <2>3. PICK i : i = FirstFree(p)
    OBVIOUS
  <2> QED
    BY <2>1, <2>2, <2>3, AskNewExact DEF HasRoom
<1>2. CASE ~\E i \in DOMAIN p.conns : HasRoom(p, i)
  <2>0. Len(p.conns) \in Nat /\ MaxConnections \in Nat
    BY ConnIndices, ProxyAssumption DEF Exact, ProxyAssumption
  <2>1. CASE o.pool = p
    BY <2>1
  <2>2. CASE Len(p.conns) < MaxConnections /\ o = Outcome(Open(p, FALSE), "error", 1, {})
    BY <2>2, OpenExact DEF Outcome
  <2>3. CASE Len(p.conns) < MaxConnections /\ o \in AskNew(Open(p, TRUE), Len(p.conns) + 1, x)
    <3>1. PICK q : q = Open(p, TRUE)
      OBVIOUS
    <3>2. PICK i : i = Len(p.conns) + 1
      OBVIOUS
    <3>3. Exact(q) /\ q.map = p.map /\ i \in DOMAIN q.conns /\ q.conns[i].count = 0
      BY <2>3, <3>1, <3>2, OpenExact
    <3>4. Modes(q, x[1]) = {}
      BY <3>3 DEF Modes, Tracked
    <3>5. q.conns[i].count < MaxSymbols
      BY <3>3, ProxyAssumption DEF ProxyAssumption
    <3> QED
      BY <2>3, <3>1, <3>2, <3>3, <3>4, <3>5, AskNewExact
  <2>4. \/ o.pool = p
        \/ Len(p.conns) < MaxConnections /\ o = Outcome(Open(p, FALSE), "error", 1, {})
        \/ Len(p.conns) < MaxConnections /\ o \in AskNew(Open(p, TRUE), Len(p.conns) + 1, x)
    <3>1. \A z : z \in {Outcome(p, "error", 0, {}), Outcome(p, "error", 1, {}), Outcome(p, "auth", 1, {})}
                    => z.pool = p
      BY DEF Outcome
    <3>2. CASE Len(p.conns) >= MaxConnections
      BY <1>2, <3>1, <3>2 DEF NewSymbol
    <3>3. CASE ~(Len(p.conns) >= MaxConnections)
      <4>1. Len(p.conns) < MaxConnections
        BY <2>0, <3>3
      <4> QED
        BY <1>2, <3>1, <3>3, <4>1 DEF NewSymbol
    <3> QED
      BY <3>2, <3>3
  <2> QED
    BY <2>1, <2>2, <2>3, <2>4
<1> QED
  BY <1>1, <1>2

\* Whatever becomes of a subscription, the pool stays exact.
LEMMA SubscribeExact ==
    ASSUME NEW p, Exact(p), NEW x \in Sub, NEW o \in SubscribeInner(p, x)
    PROVE  Exact(o.pool)
<1>1. CASE p.map[x] # 0
  BY <1>1 DEF SubscribeInner, Outcome
<1>2. CASE p.map[x] = 0 /\ Modes(p, x[1]) = {}
  BY <1>2, NewSymbolExact DEF SubscribeInner
<1>3. CASE p.map[x] = 0 /\ Modes(p, x[1]) # {}
  <2>1. Ok(p) /\ x \in Symbol \X Nat /\ x[1] \in Symbol
    BY SubShape DEF Exact
  <2>2. PICK i \in Nat : On(p, x[1], i)
    BY <2>1 DEF Exact
  <2>3. i # 0 /\ i \in DOMAIN p.conns /\ p.map[<<x[1], Highest(Modes(p, x[1]))>>] = i
    BY <1>3, <2>1, <2>2, OnIsModes, ModesShape
  <2> DEFINE a == Track(p, x, i)
             b == Send(a, i, x)
  <2>4. Exact(a) /\ Ok(a) /\ a.conns = p.conns
    BY <2>2, <2>3, TrackIsExact
  <2>5. Exact(b)
    BY <2>1, <2>3, <2>4, SendIsExact
  <2>6. o \in Asked(p, i, b) \cup {Outcome(a, "success", 0, {})}
    BY <1>3, <2>3 DEF SubscribeInner
  <2>7. o.pool \in {p, a, b}
    BY <2>6 DEF Asked, Outcome
  <2> QED
    BY <2>4, <2>5, <2>7
<1> QED
  BY <1>1, <1>2, <1>3

\* A switch to a lower mode, whatever becomes of it, keeps the pool exact.
LEMMA DowngradeExact ==
    ASSUME NEW p, Exact(p), NEW x \in Sub, NEW i \in Nat \ {0}, On(p, x[1], i),
           Modes(Track(p, x, 0), x[1]) # {}, NEW next \in Nat, NEW o \in Downgrade(p, x, i, next)
    PROVE  Exact(o.pool)
<1>1. Ok(p) /\ x \in Symbol \X Nat /\ x[1] \in Symbol /\ i \in DOMAIN p.conns
      /\ <<x[1], next>> \in Symbol \X Nat
  BY SubShape, ConnIndices DEF Exact, On
<1>2. CASE o = Outcome(p, "error", 1, {})
  BY <1>2 DEF Outcome
<1>3. ASSUME NEW r \in Ended(p, i, x[1]), NEW u \in {0, 1},
             o \in {Outcome(Send(Track(r, x, 0), i, <<x[1], next>>), "success", u, {}),
                   Outcome(Send(r, i, x), "error", u + 1, {}),
                   Outcome(r, "error", u + 1, AllModes(x[1]))}
      PROVE  Exact(o.pool)
  <2>1. Exact(r) /\ Ok(r) /\ r.map = p.map /\ DOMAIN r.conns = DOMAIN p.conns
    BY <1>1, EndedIsExact
  <2>2. On(r, x[1], i)
    <3>1. Len(r.conns) = Len(p.conns)
      BY <1>1, EndedSafe
    <3> QED
      BY <2>1, <3>1 DEF On
  <2>3. Modes(Track(r, x, 0), x[1]) # {}
    <3>1. Track(r, x, 0).map = Track(p, x, 0).map
      BY <1>1, <2>1 DEF Track, Ok, Pool
    <3> QED
      BY <3>1 DEF Modes, Tracked
  <2> DEFINE q == Track(r, x, 0)
             a == Send(q, i, <<x[1], next>>)
             b == Send(r, i, x)
  <2>4. Exact(q) /\ q.conns = r.conns
    BY <2>1, <2>2, <2>3, TrackIsExact
  <2>5. Exact(a)
    <3>1. i \in DOMAIN q.conns
      BY <1>1, <2>1, <2>4
    <3> HIDE DEF q
    <3> QED
      BY <1>1, <2>4, <3>1, SendIsExact
  <2>6. Exact(b)
    BY <1>1, <2>1, SendIsExact
  <2>7. o.pool \in {a, b, r}
    BY <1>3 DEF Outcome
  <2> QED
    BY <2>1, <2>5, <2>6, <2>7
<1> QED
  BY <1>2, <1>3, DowngradeShape

\* Whatever becomes of the end of a subscription, the pool stays exact.
LEMMA UnsubscribeExact ==
    ASSUME NEW p, Exact(p), NEW x \in Sub, NEW o \in UnsubscribeInner(p, x)
    PROVE  Exact(o.pool)
<1> DEFINE q == Track(p, x, 0)
           M == Modes(q, x[1])
           i == p.map[x]
           n == p.conns[i].count - 1
<1>1. CASE i = 0
  BY <1>1 DEF UnsubscribeInner, Outcome
<1>2. CASE i # 0
  <2>1. /\ Ok(p) /\ x[1] \in Symbol /\ 0 \in 0 .. Len(p.conns)
        /\ \A j \in DOMAIN p.conns : j \in Nat \ {0} /\ p.conns[j].count \in Int
    BY SubShape, ConnIndices DEF Exact
  <2>2. PICK k \in Nat : On(p, x[1], k)
    BY <2>1 DEF Exact
  <2>3. i = k /\ i \in Nat \ {0} /\ On(p, x[1], i)
    BY <1>2, <2>2 DEF On
  <2>4. i \in DOMAIN p.conns
    BY <1>2, <2>1, TrackedIsThere
  <2>5. Ok(q) /\ q.conns = p.conns /\ \A y \in Sub : q.map[y] = IF y = x THEN 0 ELSE p.map[y]
    BY <2>1, TrackSafe
  <2>o. o \in UnsubscribeInner(p, x)
    OBVIOUS
  <2>6. CASE M = {}
    <3>1. CASE o = Outcome(p, "error", 1, {})
      BY <3>1 DEF Outcome
    <3>2. ASSUME NEW r \in Ended(q, i, x[1]), o = Outcome(Count(r, i, n), "success", 0, {})
          PROVE  Exact(o.pool)
      <4>0. n \in Int
        BY <2>1, <2>4
      <4> DEFINE b == Count(r, i, n)
      <4> HIDE DEF i, q, n
      <4>1. /\ Ok(r) /\ r.map = q.map /\ Len(r.conns) = Len(p.conns) /\ DOMAIN r.conns = DOMAIN p.conns
            /\ \A j \in DOMAIN p.conns : r.conns[j].count = p.conns[j].count
        BY <2>1, <2>4, <2>5, EndedSafe
      <4>2. /\ Ok(b) /\ b.map = q.map /\ Len(b.conns) = Len(p.conns)
            /\ \A j \in DOMAIN p.conns : b.conns[j].count = IF j = i THEN n ELSE p.conns[j].count
        BY <2>4, <4>0, <4>1, CountSafe
      <4> HIDE DEF b
      <4>3. Moved(p, b, x[1])
        BY <2>5, <4>2 DEF Moved
      <4>4. \A y \in Sub : y[1] = x[1] => b.map[y] = 0
        BY <2>1, <2>5, <2>6, <4>2, ModesShape
      <4>5. On(b, x[1], 0)
        BY <2>1, <4>2, <4>4 DEF On
      <4>6. Recounted(p, b, i, 0)
        BY <2>1, <4>2 DEF Recounted, n
      <4>7. Exact(b)
        BY <2>1, <2>3, <4>3, <4>5, <4>6, MovedIsExact
      <4> QED
        BY <3>2, <4>7 DEF Outcome, b
    <3> QED
      BY <1>2, <2>6, <3>1, <3>2 DEF UnsubscribeInner
  <2>7. CASE M # {} /\ x[2] > Highest(M)
    <3>1. o \in Downgrade(p, x, i, Highest(M))
      BY <1>2, <2>7 DEF UnsubscribeInner
    <3>2. Highest(M) \in Nat
      <4>1. Highest(M) \in Mode
        BY <2>1, <2>5, <2>7, ModesShape
      <4> QED
        BY <4>1, ProxyAssumption DEF Mode
    <3> HIDE DEF i
    <3> QED
      BY <2>3, <2>7, <3>1, <3>2, DowngradeExact
  <2>8. CASE M # {} /\ ~(x[2] > Highest(M))
    <3>1. o = Outcome(q, "success", 0, {})
      BY <1>2, <2>8 DEF UnsubscribeInner
    <3>2. Exact(q)
      <4> HIDE DEF i
      <4> QED
        BY <2>3, <2>8, TrackIsExact
    <3> QED
      BY <3>1, <3>2 DEF Outcome
  <2> QED
    BY <2>6, <2>7, <2>8
<1> QED
  BY <1>1, <1>2

\* A pool with nothing in it is exact, and so is its first connection.
LEMMA FreshIsExact ==
    /\ Exact(EmptyPool)
    /\ \A up, connected \in BOOLEAN : Exact(FirstConn(up, connected))
<1>1. ASSUME NEW p, Fresh(p), Len(p.conns) <= MaxConnections,
             \A j \in DOMAIN p.conns : p.conns[j].count = 0
      PROVE  Exact(p)
  <2>1. Ok(p) /\ \A x \in Sub : p.map[x] = 0
    BY <1>1 DEF Fresh
  <2>2. ASSUME NEW s \in Symbol PROVE On(p, s, 0)
    BY <2>1, ConnIndices DEF On
  <2>3. ASSUME NEW j \in DOMAIN p.conns PROVE Counted(p, j)
    <3>1. j # 0
      BY <2>1, ConnIndices
    <3>2. Here(p, j) = {}
      BY <2>1, <3>1 DEF Here, AllModes
    <3>3. p.conns[j].count = 0 /\ 0 <= MaxSymbols
      BY <1>1, ProxyAssumption DEF ProxyAssumption
    <3> QED
      BY <3>2, <3>3, FS_EmptySet DEF Counted
  <2> QED
    BY <1>1, <2>1, <2>2, <2>3 DEF Exact
<1>2. Exact(EmptyPool)
  <2>1. EmptyPool.conns = <<>> /\ Len(<<>>) = 0 /\ DOMAIN <<>> = {}
    BY DEF EmptyPool
  <2>2. 0 <= MaxConnections
    BY ProxyAssumption DEF ProxyAssumption
  <2>3. Len(EmptyPool.conns) <= MaxConnections /\ DOMAIN EmptyPool.conns = {}
    BY <2>1, <2>2
  <2> QED
    BY <1>1, <2>3, FreshPools
<1>3. ASSUME NEW up \in BOOLEAN, NEW connected \in BOOLEAN
      PROVE  Exact(FirstConn(up, connected))
  <2>1. PICK c : c = NewConn(up)
    OBVIOUS
  <2>2. PICK p : p = FirstConn(up, connected)
    OBVIOUS
  <2>3. c.count = 0
    BY <2>1 DEF NewConn
  <2>4. p.conns = <<c>>
    BY <2>1, <2>2 DEF FirstConn
  <2>5. Len(p.conns) = 1 /\ DOMAIN p.conns = 1 .. 1 /\ p.conns[1] = c
    BY <2>4
  <2>6. 1 <= MaxConnections
    BY ProxyAssumption DEF ProxyAssumption
  <2>7. Fresh(p)
    BY <2>2, FreshPools
  <2>8. \A j \in DOMAIN p.conns : p.conns[j] = c
    BY <2>5
  <2>9. Exact(p)
    BY <1>1, <2>3, <2>5, <2>6, <2>7, <2>8
  <2> QED
    BY <2>2, <2>9
<1> QED
  BY <1>2, <1>3

\* The end of a subscription, or its keeping.
LEMMA LetGoExact ==
    ASSUME Exact(pool), NEW c, NEW x \in Sub, LetGo(c, x)
    PROVE  Exact(pool')
<1>1. CASE UNCHANGED <<pool, lost, faults>>
  BY <1>1
<1>2. CASE \E o \in UnsubscribeInner(pool, x) : Spend(o.failed) /\ Becomes(o.pool, o.gone)
  BY <1>2, UnsubscribeExact DEF Becomes
<1> QED
  BY <1>1, <1>2 DEF LetGo

\* Every step keeps the pool exact.
LEMMA ExactNext ==
    ASSUME Inv, Exact(pool), [Next]_vars
    PROVE  Exact(pool')
<1>1. ASSUME NEW c \in Client, Authenticate(c) PROVE Exact(pool')
  <2>1. CASE UNCHANGED pool
    BY <2>1
  <2>2. CASE \E made \in {Outcome(FirstConn(TRUE, TRUE), "success", 0, {}),
                          Outcome(FirstConn(FALSE, TRUE), "success", 1, {}),
                          Outcome(EmptyPool, "error", 1, {})} : pool' = made.pool
    <3>1. PICK made \in {Outcome(FirstConn(TRUE, TRUE), "success", 0, {}),
                        Outcome(FirstConn(FALSE, TRUE), "success", 1, {}),
                        Outcome(EmptyPool, "error", 1, {})} : pool' = made.pool
      BY <2>2
    <3>2. CASE made = Outcome(FirstConn(TRUE, TRUE), "success", 0, {})
      BY <3>1, <3>2, FreshIsExact DEF Outcome
    <3>3. CASE made = Outcome(FirstConn(FALSE, TRUE), "success", 1, {})
      BY <3>1, <3>3, FreshIsExact DEF Outcome
    <3>4. CASE made = Outcome(EmptyPool, "error", 1, {})
      BY <3>1, <3>4, FreshIsExact DEF Outcome
    <3> QED
      BY <3>2, <3>3, <3>4
  <2> QED
    BY <1>1, <2>1, <2>2 DEF Authenticate, Becomes
<1>2. ASSUME NEW c \in Client, NEW x \in Sub, Subscribe(c, x) PROVE Exact(pool')
  <2>1. CASE \E o \in SubscribeInner(pool, x) : pool' = o.pool
    BY <2>1, SubscribeExact
  <2>2. CASE \E r \in Rebuilds : pool' = r.pool
    <3>1. PICK r \in Rebuilds : pool' = r.pool
      BY <2>2
    <3>2. CASE r = Outcome(FirstConn(TRUE, TRUE), "success", 0, {})
      BY <3>1, <3>2, FreshIsExact DEF Outcome
    <3>3. CASE r = Outcome(FirstConn(FALSE, FALSE), "error", 1, Held)
      BY <3>1, <3>3, FreshIsExact DEF Outcome
    <3>4. CASE r = Outcome(EmptyPool, "error", 1, Held)
      BY <3>1, <3>4, FreshIsExact DEF Outcome
    <3> QED
      BY <3>2, <3>3, <3>4 DEF Rebuilds
  <2> QED
    BY <1>2, <2>1, <2>2 DEF Subscribe, Becomes
<1>3. ASSUME NEW c \in Client, NEW x \in Sub, Unsubscribe(c, x) PROVE Exact(pool')
  BY <1>3, LetGoExact DEF Unsubscribe
<1>4. ASSUME NEW c \in Client, NEW op \in {"clear", "close"}, Leave(c, op) PROVE Exact(pool')
  BY <1>4 DEF Leave
<1>5. CASE Restore
  <2>1. PICK x \in call.todo : \E o \in SubscribeInner(pool, x) : pool' = o.pool
    BY <1>5 DEF Restore, Becomes
  <2>2. x \in Sub
    BY <1>5, <2>1 DEF Restore, Inv, Shape, Calls, NoCall
  <2> QED
    BY <2>1, <2>2, SubscribeExact
<1>6. CASE Retry
  <2>1. PICK x : x = call.x
    OBVIOUS
  <2>2. x \in Sub
    BY <1>6, <2>1 DEF Retry, Inv, Shape, Calls, NoCall
  <2>3. \E o \in SubscribeInner(pool, x) : pool' = o.pool
    BY <1>6, <2>1 DEF Retry, Becomes
  <2> QED
    BY <2>2, <2>3, SubscribeExact
<1>7. CASE LeaveOne
  <2>1. PICK c : c = call.c
    OBVIOUS
  <2>2. subs[c] \subseteq Sub
    BY <1>7, <2>1 DEF LeaveOne, Inv, Shape, Calls, NoCall
  <2>3. PICK x \in subs[c] : LetGo(c, x)
    BY <1>7, <2>1 DEF LeaveOne
  <2> QED
    BY <2>2, <2>3, LetGoExact
<1>8. CASE Left
  <2>1. UNCHANGED pool \/ pool' = EmptyPool
    BY <1>8 DEF Left, Becomes
  <2> QED
    BY <2>1, FreshIsExact
<1>9. CASE Login \/ UNCHANGED vars
  BY <1>9 DEF Login, vars
<1>10. CASE Purge \/ Invalidate
  <2>1. pool' = EmptyPool
    BY <1>10 DEF Purge, Invalidate, Becomes
  <2> QED
    BY <2>1, FreshIsExact
<1> QED
  BY <1>1, <1>2, <1>3, <1>4, <1>5, <1>6, <1>7, <1>8, <1>9, <1>10 DEF Next

\* The tracked modes of a symbol are on one connection of the pool; every connection
\* counts the symbols that are tracked on it, and has no more than it may; and the index
\* is who has subscribed: through every refusal, rollback, recovery and login, whether or
\* not the broker ends what it is told to end.
THEOREM PoolStaysExact == Spec => []PoolIsExact
<1>1. Init => Exact(pool)
  BY FreshIsExact DEF Init
<1>2. Inv /\ Exact(pool) /\ [Next]_vars => Inv' /\ Exact(pool)'
  BY InvNext, ExactNext
<1>3. Inv /\ Exact(pool) => PoolIsExact
  <2> SUFFICES ASSUME Inv, Exact(pool)
               PROVE  PoolIsExact
    OBVIOUS
  <2>1. /\ Ok(pool) /\ Len(pool.conns) \in Nat /\ Len(pool.conns) <= MaxConnections
        /\ DOMAIN pool.conns = 1 .. Len(pool.conns)
    BY ConnIndices DEF Exact
  <2>2. \A x \in Sub : pool.map[x] \in 0 .. Len(pool.conns)
    BY <2>1 DEF Ok, Pool
  <2>3. ASSUME NEW i \in DOMAIN pool.conns
        PROVE  /\ pool.conns[i].count = Cardinality(Here(pool, i))
               /\ Cardinality(Here(pool, i)) <= MaxSymbols
    BY DEF Exact, Counted
  <2>4. ASSUME NEW i \in DOMAIN pool.conns, NEW s \in Here(pool, i)
        PROVE  \A m \in Modes(pool, s) : pool.map[<<s, m>>] = i
    <3>0. s \in Symbol
      BY DEF Here
    <3>1. PICK k \in Nat : On(pool, s, k)
      BY <3>0 DEF Exact
    <3>2. k = i
      BY <2>1, <3>0, <3>1, OnIsHere
    <3> QED
      BY <2>1, <3>0, <3>1, <3>2, OnIsModes
  <2>5. \A x \in Sub : index[x] = {c \in Client : x \in subs[c]}
    BY DEF Inv
  <2>6. \A i \in DOMAIN pool.conns : Here(pool, i) = {s \in Symbol : \E x \in AllModes(s) : pool.map[x] = i}
    BY DEF Here
  <2> QED
    BY <2>1, <2>2, <2>3, <2>4, <2>5, <2>6 DEF PoolIsExact
<1> QED
  BY <1>1, <1>2, <1>3, InvInit, PTL DEF Spec
=============================================================================
