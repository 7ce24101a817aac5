---------------------------- MODULE Aodv_proofs ----------------------------
(***************************************************************************)
(* Proofs about Aodv, for any network, packets, lifetimes, timeouts and    *)
(* bounds: type correctness; that a packet in the FIFO buffer has a        *)
(* request out and its timer pending; that a lost packet finds a precursor *)
(* list; that a route in force is removed early only behind an invalid     *)
(* entry.                                                                  *)
(***************************************************************************)
EXTENDS Aodv, SequenceTheorems, FiniteSetTheorems, NaturalsInduction,
        WellFoundedInduction, TLAPS

(***************************************************************************)
(* The inductive invariant.  Of the state r of node n: every route in      *)
(* force has a timer that fires before its lifetime ends (Timed), so with  *)
(* nothing due it can be used; it is the last entry of its destination     *)
(* (LastValid), since a new one is only added when none is in force; a     *)
(* packet that waits has its request and timer (Waits).  A node with a     *)
(* route, or with the timer of one, has a precursor list (Listed).         *)
(***************************************************************************)
Entry(n) == [dst : Nodes, seq : Nat, hop : Nat, next : InRange(n),
             valid : BOOLEAN, life : 0 .. Horizon]
Timer == [dst : Nodes, in : Nat]
SentEntry == {NoEntry} \cup [times : Nat, ttl : Nat \ {0}, due : Nat]
NodeState(n) ==
    [route : Seq(Entry(n)), routeTimer : SUBSET Timer,
     fifo : [Nodes -> SUBSET Packets], sent : [Nodes -> SentEntry],
     rreqTimer : [Nodes -> SUBSET Nat], nSequenceNumber : Nat,
     seen : SUBSET (Nodes \X Nat), precursorsList : BOOLEAN, nRerrCount : Nat]

TimedRoute(q, timers) ==
    \A i \in DOMAIN q : q[i].valid => \E t \in timers : t.dst = q[i].dst /\ t.in <= q[i].life
OneValid(q) ==
    \A i, j \in DOMAIN q : i < j /\ q[i].dst = q[j].dst => ~q[i].valid

Timed(r) == TimedRoute(r.route, r.routeTimer)
LastValid(r) == OneValid(r.route)
Fifo(r) == \A d \in Nodes : \A p \in r.fifo[d] : p.dst = d
Waits(r, d) == r.fifo[d] # {} => r.sent[d] # NoEntry /\ r.sent[d].due \in r.rreqTimer[d]
Listed(r) == (r.route # << >> \/ r.routeTimer # {}) => r.precursorsList

Sane(n, r) == /\ r \in NodeState(n) /\ Timed(r) /\ LastValid(r) /\ Fifo(r)
              /\ \A d \in Nodes : Waits(r, d)
Good(n, r) == Sane(n, r) /\ Listed(r)

RreqMsg == [type : {"rreq"}, to : Nodes, ttl : Int, hop : Nat, org : Nodes, oseq : Nat,
            dst : Nodes, last : Nodes]
RrepMsg == [type : {"rrep"}, to : Nodes, ttl : Int, hop : Nat, dst : Nodes, dseq : Nat,
            org : Nodes, last : Nodes, hello : BOOLEAN]
RerrMsg == [type : {"rerr"}, to : Nodes, ttl : Int, src : Nodes, dsts : SUBSET Nodes]

\* A message in the air; what builds a route comes from a neighbour.
InAir(m) ==
    /\ m \in RreqMsg \cup RrepMsg \cup RerrMsg /\ m.ttl > 1
    /\ m.type # "rerr" => m.last \in InRange(m.to)

Sound(x) == /\ x.p \in Packets /\ x.from \in Nodes /\ x.to \in Nodes

IInv == /\ born \in 0 .. Cardinality(Packets) /\ floods \in 0 .. MaxFloods
        /\ node = [n \in Nodes |-> node[n]]
        /\ \A n \in Nodes : Good(n, node[n])
        /\ \A m \in air : InAir(m)
        /\ \A x \in data : Sound(x) /\ node[x.from].precursorsList
-----------------------------------------------------------------------------
\* Numbers, sets of positions and sequences.
LEMMA LeastIndex ==
    ASSUME NEW D, D \in SUBSET Nat, D # {}
    PROVE  \E i \in D : \A j \in D : i <= j
<1>1. \E i \in D : \A j \in D : <<j, i>> \notin OpToRel(<, Nat)
  BY WFMin, NatLessThanWellFounded, Zenon
<1>2. \A i, j \in Nat : <<j, i>> \in OpToRel(<, Nat) <=> j < i
  BY DEF OpToRel
<1>3. \E i \in D : \A j \in D : ~(j < i)
  BY <1>1, <1>2, Zenon
<1> QED  BY <1>3

LEMMA MinLemma ==
    ASSUME NEW D, D \in SUBSET Nat, D # {}
    PROVE  Min(D) \in D /\ \A j \in D : Min(D) <= j
  BY LeastIndex DEF Min

LEMMA ConstantFacts ==
    /\ AODV_TTL_START \in Nat \ {0} /\ AODV_TTL_INCREMENT \in Nat \ {0}
    /\ RingTime \in Nat \ {0} /\ ReverseLife \in Nat \ {0} /\ HelloLife \in Nat \ {0}
    /\ AODV_ACTIVE_ROUTE_TIMEOUT \in Nat \ {0} /\ AODV_DELETE_PERIOD \in Nat \ {0}
    /\ AODV_NET_TRAVERSAL_TIME \in Nat \ {0}
    /\ AODV_NET_DIAMETER \in Nat \ {0} /\ AODV_TTL_THRESHOLD \in Nat \ {0}
    /\ MaxFloods \in Nat
  BY AodvAssumption

LEMMA HorizonFacts ==
    /\ Horizon \in Nat
    /\ ReverseLife <= Horizon /\ HelloLife <= Horizon
    /\ AODV_ACTIVE_ROUTE_TIMEOUT <= Horizon /\ AODV_DELETE_PERIOD <= Horizon
<1> DEFINE S == {AODV_DELETE_PERIOD, ReverseLife, HelloLife, AODV_ACTIVE_ROUTE_TIMEOUT}
<1>1. \E x \in S : \A y \in S : x >= y
  BY ConstantFacts
<1>2. Horizon = CHOOSE x \in S : \A y \in S : x >= y
  BY DEF Horizon, Max
<1>3. Horizon \in S /\ \A y \in S : Horizon >= y
  BY <1>1, <1>2
<1> QED  BY <1>3, ConstantFacts

LEMMA InRangeFacts ==
    /\ \A n : InRange(n) \subseteq Nodes
    /\ \A n, k \in Nodes : k \in InRange(n) => n \in InRange(k)
  BY DEF InRange

Added(q, a) == Append(q, a)
Put(q, p, a) ==
    /\ \A i \in DOMAIN p : /\ i \in Nat \ {0}
                           /\ \/ i \in DOMAIN q /\ p[i] = q[i] /\ i < Len(q) + 1
                              \/ i = Len(q) + 1 /\ p[i] = a
    /\ \A i \in DOMAIN q : i \in DOMAIN p /\ p[i] = q[i]
    /\ Len(q) + 1 \in DOMAIN p /\ p[Len(q) + 1] = a

LEMMA SnocLemma ==
    ASSUME NEW M, NEW q \in Seq(M), NEW a \in M
    PROVE  Added(q, a) \in Seq(M) /\ Put(q, Added(q, a), a)
<1> DEFINE p == Added(q, a)
<1>1. /\ p \in Seq(M) /\ Len(p) = Len(q) + 1 /\ Len(q) \in Nat
      /\ \A i \in 1 .. Len(q) : p[i] = q[i]
      /\ p[Len(q) + 1] = a
  BY AppendProperties DEF Added
<1>2. DOMAIN q = 1 .. Len(q) /\ DOMAIN p = 1 .. Len(q) + 1
  BY <1>1, LenProperties
<1> HIDE DEF p
<1>3. Put(q, p, a)
  BY <1>1, <1>2 DEF Put
<1> QED  BY <1>1, <1>3 DEF p

\* A sequence changed element by element.
LEMMA MapSeq ==
    ASSUME NEW M, NEW q \in Seq(M), NEW p, DOMAIN p = DOMAIN q,
           p = [i \in DOMAIN q |-> p[i]], \A i \in DOMAIN q : p[i] \in M
    PROVE  p \in Seq(M) /\ DOMAIN q \subseteq Nat \ {0}
<1>1. Len(q) \in Nat /\ DOMAIN q = 1 .. Len(q)
  BY LenProperties
<1>2. p \in [1 .. Len(q) -> M]
  BY <1>1
<1> QED  BY <1>1, <1>2, SeqDef

-----------------------------------------------------------------------------
\* The loop of fn_NetSim_AODV_ActiveRouteTimeout: its state after the first n
\* entries exists and is what the equation of Visited says.
Base == [route |-> << >>, time |-> 0, timers |-> {}]
Loop(g, q, d, n) ==
    g = [i \in 0 .. n |-> IF i = 0 THEN Base ELSE Visit(g[i - 1], q[i], d)]

LEMMA LoopExists ==
    ASSUME NEW q, NEW d, NEW n \in Nat
    PROVE  \E g : Loop(g, q, d, n)
<1> DEFINE D == {i \in Nat : ~(\E g : Loop(g, q, d, i))}
<1>1. SUFFICES ASSUME D # {} PROVE FALSE
  OBVIOUS
<1>2. PICK k \in D : \A j \in D : k <= j
  BY <1>1, LeastIndex
<1>3. CASE k = 0
  <2> DEFINE g == [i \in 0 .. 0 |-> Base]
  <2>1. g = [i \in 0 .. 0 |-> IF i = 0 THEN Base ELSE Visit(g[i - 1], q[i], d)]
    OBVIOUS
  <2> QED  BY <1>3, <2>1 DEF Loop
<1>4. CASE k # 0
  <2>1. k - 1 \in Nat /\ k - 1 \notin D
    BY <1>2, <1>4
  <2>2. PICK g : Loop(g, q, d, k - 1)
    BY <2>1
  <2> DEFINE h == [i \in 0 .. k |-> IF i = k THEN Visit(g[k - 1], q[k], d) ELSE g[i]]
  <2>3. \A i \in 0 .. k - 1 : g[i] = IF i = 0 THEN Base ELSE Visit(g[i - 1], q[i], d)
    BY <2>1, <2>2 DEF Loop
  <2>4. ASSUME NEW i \in 0 .. k
        PROVE  h[i] = IF i = 0 THEN Base ELSE Visit(h[i - 1], q[i], d)
    <3>1. CASE i = 0
      BY <1>4, <2>1, <2>3, <3>1
    <3>2. CASE i # 0
      <4>1. i - 1 \in 0 .. k /\ i - 1 # k /\ i - 1 \in 0 .. k - 1
        BY <2>1, <3>2
      <4>2. h[i - 1] = g[i - 1]
        BY <4>1
      <4>3. CASE i = k
        BY <3>2, <4>2, <4>3
      <4>4. CASE i # k
        <5>1. i \in 0 .. k - 1
          BY <2>1, <4>4
        <5>2. h[i] = g[i]
          BY <4>4
        <5> QED  BY <2>3, <3>2, <4>2, <5>1, <5>2
      <4> QED  BY <4>3, <4>4
    <3> QED  BY <3>1, <3>2
  <2>5. h = [i \in 0 .. k |-> h[i]]
    OBVIOUS
  <2> HIDE DEF h
  <2>6. h = [i \in 0 .. k |-> IF i = 0 THEN Base ELSE Visit(h[i - 1], q[i], d)]
    BY <2>4, <2>5
  <2> QED  BY <1>2, <2>6 DEF Loop
<1> QED  BY <1>3, <1>4

LEMMA VisitedLoop ==
    ASSUME NEW S, NEW q \in Seq(S), NEW d
    PROVE  /\ Visited(q, d)[0] = Base
           /\ \A i \in 1 .. Len(q) : Visited(q, d)[i] = Visit(Visited(q, d)[i - 1], q[i], d)
<1>1. Len(q) \in Nat
  BY LenProperties
<1>2. \E g : Loop(g, q, d, Len(q))
  BY <1>1, LoopExists
<1>3. Visited(q, d) = CHOOSE g : Loop(g, q, d, Len(q))
  BY DEF Visited, Loop, Base
<1>4. Loop(Visited(q, d), q, d, Len(q))
  BY <1>2, <1>3
<1> DEFINE v == Visited(q, d)
<1>5. v = [i \in 0 .. Len(q) |-> IF i = 0 THEN Base ELSE Visit(v[i - 1], q[i], d)]
  BY <1>4 DEF Loop
<1> HIDE DEF v
<1>6. v[0] = Base /\ \A i \in 1 .. Len(q) : v[i] = Visit(v[i - 1], q[i], d)
  BY <1>1, <1>5
<1> QED  BY <1>6 DEF v

\* What the loop has done with the first i entries of q: a holds some of them
\* in their order, all those of other destinations and the first of d if it is
\* alive, and every entry of d that it holds has its timer.
Acc(n) == [route : Seq(Entry(n)), time : Nat, timers : SUBSET Timer]
Holds(a, e) == \E k \in DOMAIN a.route : a.route[k] = e
FirstOf(q, d, j) == q[j].dst = d /\ \A l \in 1 .. j - 1 : q[l].dst # d
LoopInv(n, q, d, i, a) ==
    /\ a \in Acc(n)
    /\ \A k \in DOMAIN a.route : \E j \in 1 .. i : a.route[k] = q[j]
    /\ OneValid(a.route)
    /\ \A k \in DOMAIN a.route : a.route[k].dst = d =>
          [dst |-> d, in |-> a.route[k].life] \in a.timers
    /\ \A j \in 1 .. i : q[j].dst # d => Holds(a, q[j])
    /\ \A j \in 1 .. i : FirstOf(q, d, j) /\ q[j].life > 0 => Holds(a, q[j])
    /\ (\A j \in 1 .. i : q[j].dst # d) => a.time = 0

\* One entry e, the i-th, put at the end of what is held.
LEMMA PutLemma ==
    ASSUME NEW n, NEW q \in Seq(Entry(n)), OneValid(q), NEW d, NEW i \in 1 .. Len(q),
           NEW a, LoopInv(n, q, d, i - 1, a), NEW p, p = Added(a.route, q[i])
    PROVE  /\ p \in Seq(Entry(n)) /\ Put(a.route, p, q[i])
           /\ \A k \in DOMAIN p : \E j \in 1 .. i : p[k] = q[j]
           /\ OneValid(p)
<1>1. Len(q) \in Nat /\ DOMAIN q = 1 .. Len(q) /\ q[i] \in Entry(n) /\ i \in Nat
  BY LenProperties, ElementOfSeq
<1>2. a.route \in Seq(Entry(n))
  BY DEF LoopInv, Acc
<1>3. p \in Seq(Entry(n)) /\ Put(a.route, p, q[i])
  BY <1>1, <1>2, SnocLemma
<1>4. ASSUME NEW k \in DOMAIN p
      PROVE  \E j \in 1 .. i : p[k] = q[j]
  <2>1. \/ k \in DOMAIN a.route /\ p[k] = a.route[k]
        \/ p[k] = q[i]
    BY <1>3 DEF Put
  <2>2. k \in DOMAIN a.route => \E j \in 1 .. i - 1 : a.route[k] = q[j]
    BY DEF LoopInv
  <2> QED  BY <1>1, <2>1, <2>2
<1>5. ASSUME NEW k \in DOMAIN p, NEW l \in DOMAIN p, k < l, p[k].dst = p[l].dst
      PROVE  ~p[k].valid
  <2>1. k \in DOMAIN a.route /\ p[k] = a.route[k]
    <3>1. Len(a.route) \in Nat
      BY <1>2, LenProperties
    <3> QED  BY <1>3, <1>5, <3>1 DEF Put
  <2>2. PICK j \in 1 .. i - 1 : a.route[k] = q[j]
    BY <2>1 DEF LoopInv
  <2>3. CASE l \in DOMAIN a.route /\ p[l] = a.route[l]
    BY <1>5, <2>1, <2>3 DEF LoopInv, OneValid
  <2>4. CASE p[l] = q[i]
    <3>1. j \in DOMAIN q /\ j < i /\ i \in DOMAIN q
      BY <1>1, <2>2
    <3> QED  BY <1>5, <2>1, <2>2, <2>4, <3>1 DEF OneValid
  <2> QED  BY <1>3, <2>3, <2>4 DEF Put
<1>6. OneValid(p)
  BY <1>5 DEF OneValid
<1> QED  BY <1>3, <1>4, <1>6

LEMMA VisitLemma ==
    ASSUME NEW n, NEW q \in Seq(Entry(n)), OneValid(q), NEW d \in Nodes, NEW i \in 1 .. Len(q),
           NEW a, LoopInv(n, q, d, i - 1, a)
    PROVE  LoopInv(n, q, d, i, Visit(a, q[i], d))
<1> DEFINE e == q[i]
           b == Visit(a, e, d)
           p == Added(a.route, e)
<1>1. Len(q) \in Nat /\ DOMAIN q = 1 .. Len(q) /\ e \in Entry(n) /\ i \in Nat
  BY LenProperties, ElementOfSeq
<1>2. e.dst \in Nodes /\ e.life \in Nat
  BY <1>1, HorizonFacts DEF Entry
<1>3. /\ p \in Seq(Entry(n)) /\ Put(a.route, p, e)
      /\ \A k \in DOMAIN p : \E j \in 1 .. i : p[k] = q[j]
      /\ OneValid(p)
  BY PutLemma
<1>4. a \in Acc(n)
  BY DEF LoopInv
<1>5. \A j \in 1 .. i : j \in 1 .. i - 1 \/ j = i
  BY <1>1
<1>6. 1 .. i - 1 \subseteq 1 .. i /\ i \in 1 .. i
  BY <1>1
<1>7. ASSUME b.route = p
      PROVE  Holds(b, e) /\ \A f : Holds(a, f) => Holds(b, f)
  BY <1>3, <1>7 DEF Holds, Put
<1>8. \A j \in 1 .. i - 1 : /\ q[j].dst # d => Holds(a, q[j])
                            /\ FirstOf(q, d, j) /\ q[j].life > 0 => Holds(a, q[j])
  BY DEF LoopInv
<1>9. (\A j \in 1 .. i - 1 : q[j].dst # d) => a.time = 0
  BY DEF LoopInv
<1>10. CASE e.dst # d
  <2>1. b = [a EXCEPT !.route = p]
    BY <1>10 DEF Visit, Added
  <2>2. b \in Acc(n) /\ b.route = p /\ b.time = a.time /\ b.timers = a.timers
    BY <1>3, <1>4, <2>1 DEF Acc
  <2> HIDE DEF b, p
  <2>3. \A k \in DOMAIN p : p[k].dst = d => [dst |-> d, in |-> p[k].life] \in b.timers
    BY <1>3, <1>10, <2>2 DEF Put, LoopInv
  <2>4. \A j \in 1 .. i : q[j].dst # d \/ (FirstOf(q, d, j) /\ q[j].life > 0) => Holds(b, q[j])
    BY <1>5, <1>7, <1>8, <2>2
  <2>5. (\A j \in 1 .. i : q[j].dst # d) => b.time = 0
    BY <1>6, <1>9, <2>2
  <2>6. LoopInv(n, q, d, i, b)
    BY <1>3, <2>2, <2>3, <2>4, <2>5 DEF LoopInv
  <2> QED  BY <2>6 DEF b
<1>11. CASE e.dst = d /\ e.life <= a.time
  <2>1. b = a
    BY <1>11 DEF Visit
  <2>2. a.time \in Nat
    BY <1>4 DEF Acc
  <2>3. ~(FirstOf(q, d, i) /\ q[i].life > 0)
    BY <1>2, <1>9, <1>11, <2>2 DEF FirstOf
  <2> HIDE DEF b, p
  <2>4. \A j \in 1 .. i : q[j].dst # d \/ (FirstOf(q, d, j) /\ q[j].life > 0) => Holds(b, q[j])
    BY <1>5, <1>8, <1>11, <2>1, <2>3
  <2>5. (\A j \in 1 .. i : q[j].dst # d) => b.time = 0
    BY <1>6, <1>11
  <2>6. \A k \in DOMAIN a.route : \E j \in 1 .. i : a.route[k] = q[j]
    BY <1>6 DEF LoopInv
  <2>7. LoopInv(n, q, d, i, b)
    BY <2>1, <2>4, <2>5, <2>6 DEF LoopInv
  <2> QED  BY <2>7 DEF b
<1>12. CASE e.dst = d /\ ~(e.life <= a.time)
  <2>1. b = [route |-> p, time |-> e.life,
             timers |-> a.timers \cup {[dst |-> d, in |-> e.life]}]
    BY <1>12 DEF Visit, Added
  <2> HIDE DEF p
  <2>2. /\ b.route = p /\ b.time \in Nat /\ b.timers \subseteq Timer
        /\ a.timers \subseteq b.timers /\ [dst |-> d, in |-> e.life] \in b.timers
    BY <1>2, <1>4, <2>1 DEF Acc, Timer
  <2>3. b \in Acc(n)
    BY <1>3, <2>1, <2>2 DEF Acc
  <2> HIDE DEF b
  <2>4. \A k \in DOMAIN p : p[k].dst = d => [dst |-> d, in |-> p[k].life] \in b.timers
    BY <1>3, <2>2 DEF Put, LoopInv
  <2>5. \A j \in 1 .. i : q[j].dst # d \/ (FirstOf(q, d, j) /\ q[j].life > 0) => Holds(b, q[j])
    BY <1>5, <1>7, <1>8, <2>2
  <2>6. (\A j \in 1 .. i : q[j].dst # d) => b.time = 0
    BY <1>6, <1>12
  <2>7. LoopInv(n, q, d, i, b)
    BY <1>3, <2>2, <2>3, <2>4, <2>5, <2>6 DEF LoopInv
  <2> QED  BY <2>7 DEF b
<1> QED  BY <1>10, <1>11, <1>12

LEMMA LoopLemma ==
    ASSUME NEW n, NEW q \in Seq(Entry(n)), OneValid(q), NEW d \in Nodes
    PROVE  LoopInv(n, q, d, Len(q), Visited(q, d)[Len(q)])
<1> DEFINE v == Visited(q, d)
           D == {i \in 0 .. Len(q) : ~LoopInv(n, q, d, i, v[i])}
<1>1. Len(q) \in Nat
  BY LenProperties
<1>2. v[0] = Base /\ \A i \in 1 .. Len(q) : v[i] = Visit(v[i - 1], q[i], d)
  BY VisitedLoop
<1> HIDE DEF v
<1>3. LoopInv(n, q, d, 0, Base)
  <2>1. << >> \in Seq(Entry(n)) /\ DOMAIN << >> = {}
    OBVIOUS
  <2>2. Base \in Acc(n) /\ Base.route = << >> /\ Base.time = 0
    BY <2>1 DEF Base, Acc
  <2>3. 1 .. 0 = {}
    OBVIOUS
  <2> QED  BY <2>1, <2>2, <2>3 DEF LoopInv, OneValid
<1>4. SUFFICES ASSUME D # {} PROVE FALSE
  BY <1>1 DEF v
<1>a. D \in SUBSET Nat
  BY <1>1
<1>5. PICK k \in D : \A j \in D : k <= j
  <2> HIDE DEF D
  <2> QED  BY <1>a, <1>4, LeastIndex
<1>6. k # 0
  BY <1>2, <1>3, <1>5
<1>7. k \in 1 .. Len(q) /\ k - 1 \in 0 .. Len(q) /\ k - 1 \notin D
  BY <1>1, <1>5, <1>6
<1>8. LoopInv(n, q, d, k - 1, v[k - 1])
  BY <1>7
<1>9. LoopInv(n, q, d, k, Visit(v[k - 1], q[k], d))
  BY <1>7, <1>8, VisitLemma
<1> QED  BY <1>2, <1>5, <1>7, <1>9

-----------------------------------------------------------------------------
(***************************************************************************)
(* The operations on the state of a node keep it Sane.  Grows: the route   *)
(* table keeps its entries at their positions and the precursor list its   *)
(* members; every operation but Expire does.                               *)
(***************************************************************************)
Grows(r, s) ==
    /\ \A i \in DOMAIN r.route : i \in DOMAIN s.route /\ s.route[i].dst = r.route[i].dst
    /\ r.precursorsList => s.precursorsList

LEMMA SaneFacts ==
    ASSUME NEW n, NEW r, Sane(n, r)
    PROVE  /\ r.route \in Seq(Entry(n)) /\ r.routeTimer \subseteq Timer
           /\ r.fifo \in [Nodes -> SUBSET Packets] /\ r.sent \in [Nodes -> SentEntry]
           /\ r.rreqTimer \in [Nodes -> SUBSET Nat] /\ r.nSequenceNumber \in Nat
           /\ r.seen \subseteq Nodes \X Nat /\ r.precursorsList \in BOOLEAN
           /\ r.nRerrCount \in Nat
           /\ DOMAIN r.route \subseteq Nat \ {0}
           /\ \A i \in DOMAIN r.route : /\ r.route[i] \in Entry(n) /\ r.route[i].dst \in Nodes
                                        /\ r.route[i].life \in 0 .. Horizon
                                        /\ r.route[i].valid \in BOOLEAN
<1>1. r \in NodeState(n)
  BY DEF Sane
<1>2. /\ r.route \in Seq(Entry(n)) /\ r.routeTimer \subseteq Timer
      /\ r.fifo \in [Nodes -> SUBSET Packets] /\ r.sent \in [Nodes -> SentEntry]
      /\ r.rreqTimer \in [Nodes -> SUBSET Nat] /\ r.nSequenceNumber \in Nat
      /\ r.seen \subseteq Nodes \X Nat /\ r.precursorsList \in BOOLEAN
      /\ r.nRerrCount \in Nat
  <2> USE <1>1 DEF NodeState
  <2>1. r.route \in Seq(Entry(n))
    OBVIOUS
  <2>2. r.routeTimer \subseteq Timer /\ r.seen \subseteq Nodes \X Nat
    OBVIOUS
  <2>3. r.fifo \in [Nodes -> SUBSET Packets]
    OBVIOUS
  <2>4. r.sent \in [Nodes -> SentEntry]
    OBVIOUS
  <2>5. r.rreqTimer \in [Nodes -> SUBSET Nat]
    OBVIOUS
  <2>6. r.nSequenceNumber \in Nat /\ r.precursorsList \in BOOLEAN /\ r.nRerrCount \in Nat
    OBVIOUS
  <2> QED  BY <2>1, <2>2, <2>3, <2>4, <2>5, <2>6
<1>3. DOMAIN r.route \subseteq Nat \ {0} /\ \A i \in DOMAIN r.route : r.route[i] \in Entry(n)
  <2>1. DOMAIN r.route = 1 .. Len(r.route) /\ Len(r.route) \in Nat
    BY <1>2, LenProperties
  <2> QED  BY <1>2, <2>1, ElementOfSeq
<1>4. \A e \in Entry(n) : e.dst \in Nodes /\ e.life \in 0 .. Horizon /\ e.valid \in BOOLEAN
  BY DEF Entry
<1> QED  BY <1>2, <1>3, <1>4

\* A node state with another route table.
Routed(r, q, tm) == [r EXCEPT !.route = q, !.routeTimer = tm]
SameRest(r, s) == /\ s.fifo = r.fifo /\ s.sent = r.sent /\ s.rreqTimer = r.rreqTimer
                  /\ s.precursorsList = r.precursorsList
                  /\ s.nSequenceNumber = r.nSequenceNumber
LEMMA NewRoute ==
    ASSUME NEW n, NEW r, Sane(n, r), NEW q \in Seq(Entry(n)), NEW tm, tm \subseteq Timer,
           TimedRoute(q, tm), OneValid(q), NEW s, s = Routed(r, q, tm)
    PROVE  Sane(n, s) /\ s.route = q /\ s.routeTimer = tm /\ SameRest(r, s)
<1>1. r \in NodeState(n)
  BY DEF Sane
<1>2. s \in NodeState(n)
  BY <1>1 DEF NodeState, Routed
<1>3. s.route = q /\ s.routeTimer = tm /\ SameRest(r, s)
  BY <1>1 DEF NodeState, Routed, SameRest
<1>4. Timed(s) /\ LastValid(s)
  BY <1>3 DEF Timed, LastValid
<1>5. Fifo(s) /\ \A d \in Nodes : Waits(s, d)
  BY <1>3 DEF Sane, Fifo, Waits, SameRest
<1> QED  BY <1>2, <1>3, <1>4, <1>5 DEF Sane

\* Entries changed in place: none becomes valid or, if valid, ends earlier.
LEMMA Reshape ==
    ASSUME NEW n, NEW r, Sane(n, r), NEW q, q = [i \in DOMAIN r.route |-> q[i]],
           \A i \in DOMAIN r.route :
               /\ q[i] \in Entry(n) /\ q[i].dst = r.route[i].dst
               /\ q[i].valid => r.route[i].valid /\ r.route[i].life <= q[i].life,
           NEW s, s = Routed(r, q, r.routeTimer)
    PROVE  /\ Sane(n, s) /\ Grows(r, s) /\ s.route = q /\ s.routeTimer = r.routeTimer
           /\ SameRest(r, s) /\ (Listed(r) => Listed(s))
<1>1. /\ r.route \in Seq(Entry(n)) /\ r.routeTimer \subseteq Timer
      /\ \A i \in DOMAIN r.route : r.route[i].life \in Nat
  BY SaneFacts, HorizonFacts
<1>2. q \in Seq(Entry(n)) /\ DOMAIN q = DOMAIN r.route /\ DOMAIN q \subseteq Nat
  BY <1>1, MapSeq
<1>a. \A e \in Entry(n) : e.life \in Nat
  BY HorizonFacts DEF Entry
<1>3. \A i \in DOMAIN q : q[i].life \in Nat
  BY <1>a, <1>2
<1>4. \A t \in r.routeTimer : t.in \in Nat
  BY <1>1 DEF Timer
<1>5. TimedRoute(q, r.routeTimer)
  <2>1. SUFFICES ASSUME NEW i \in DOMAIN q, q[i].valid
                 PROVE  \E t \in r.routeTimer : t.dst = q[i].dst /\ t.in <= q[i].life
    BY DEF TimedRoute
  <2>2. PICK t \in r.routeTimer : t.dst = r.route[i].dst /\ t.in <= r.route[i].life
    BY <1>2, <2>1 DEF Sane, Timed, TimedRoute
  <2>3. r.route[i].life <= q[i].life /\ t.dst = q[i].dst
    BY <1>2, <2>1, <2>2
  <2>4. t.in \in Nat /\ r.route[i].life \in Nat /\ q[i].life \in Nat
    BY <1>1, <1>2, <1>3, <1>4
  <2>5. \A x, y, z \in Nat : x <= y /\ y <= z => x <= z
    OBVIOUS
  <2>6. t.in <= q[i].life
    BY <2>2, <2>3, <2>4, <2>5
  <2> QED  BY <2>3, <2>6
<1>6. OneValid(q)
  BY <1>2 DEF Sane, LastValid, OneValid
<1>7. q # << >> => r.route # << >>
  BY <1>1, <1>2
<1>9. Sane(n, s) /\ s.route = q /\ s.routeTimer = r.routeTimer /\ SameRest(r, s)
  <2>2. r.routeTimer \subseteq Timer /\ q \in Seq(Entry(n))
    BY <1>1, <1>2
  <2> QED  BY <1>5, <1>6, <2>2, NewRoute
<1>10. Grows(r, s)
  BY <1>2, <1>9 DEF Grows, SameRest
<1>11. Listed(r) => Listed(s)
  BY <1>7, <1>9 DEF Listed, SameRest
<1> QED  BY <1>9, <1>10, <1>11

LEMMA UpdateLemma ==
    ASSUME NEW n, NEW r, Sane(n, r), NEW ips, NEW life \in Nat, life <= Horizon
    PROVE  LET s == UpdateRouteTable(r, ips, life)
           IN  Sane(n, s) /\ Grows(r, s) /\ s.routeTimer = r.routeTimer /\ SameRest(r, s)
               /\ (Listed(r) => Listed(s))
<1> DEFINE hit(i) == r.route[i].next \in ips \/ r.route[i].dst \in ips
           q == [i \in DOMAIN r.route |-> IF hit(i) THEN Extended(r.route[i], life)
                                                  ELSE r.route[i]]
<1>1. UpdateRouteTable(r, ips, life) = Routed(r, q, r.routeTimer)
  <2>1. UpdateRouteTable(r, ips, life) = [r EXCEPT !.route = q]
    BY DEF UpdateRouteTable
  <2>2. r \in NodeState(n)
    BY DEF Sane
  <2> HIDE DEF q
  <2> QED  BY <2>1, <2>2 DEF NodeState, Routed
<1>2. ASSUME NEW e \in Entry(n)
      PROVE  LET f == Extended(e, life)
             IN  f \in Entry(n) /\ f.dst = e.dst /\ f.valid = e.valid /\ e.life <= f.life
  <2>1. e.life \in Nat /\ e.life <= Horizon /\ Horizon \in Nat
    BY HorizonFacts DEF Entry
  <2>2. Above(e.life, life) \in 0 .. Horizon /\ e.life <= Above(e.life, life)
    BY <2>1 DEF Above
  <2> QED  BY <2>2 DEF Entry, Extended
<1>3. ASSUME NEW i \in DOMAIN r.route
      PROVE  /\ q[i] \in Entry(n) /\ q[i].dst = r.route[i].dst
             /\ q[i].valid => r.route[i].valid /\ r.route[i].life <= q[i].life
  <2>1. r.route[i] \in Entry(n) /\ r.route[i].life \in Nat
    BY SaneFacts, HorizonFacts
  <2>2. CASE hit(i)
    BY <1>2, <2>1, <2>2
  <2>3. CASE ~hit(i)
    BY <2>1, <2>3
  <2> QED  BY <2>2, <2>3
<1>4. q = [i \in DOMAIN r.route |-> q[i]]
  OBVIOUS
<1> HIDE DEF q
<1> QED  BY <1>1, <1>3, <1>4, Reshape

LEMMA InvalidateLemma ==
    ASSUME NEW n, NEW r, Sane(n, r), NEW broken
    PROVE  LET s == Invalidate(r, broken)
           IN  Sane(n, s) /\ Grows(r, s) /\ SameRest(r, s)
               /\ (Listed(r) => Listed(s))
<1> DEFINE gone(i) == [r.route[i] EXCEPT !.valid = FALSE, !.life = AODV_DELETE_PERIOD]
           q == [i \in DOMAIN r.route |-> IF i \in broken THEN gone(i) ELSE r.route[i]]
<1>1. Invalidate(r, broken) = Routed(r, q, r.routeTimer)
  BY DEF Sane, NodeState, Invalidate, Routed
<1>2. ASSUME NEW e \in Entry(n)
      PROVE  LET f == [e EXCEPT !.valid = FALSE, !.life = AODV_DELETE_PERIOD]
             IN  f \in Entry(n) /\ f.dst = e.dst /\ f.valid = FALSE
  <2>1. AODV_DELETE_PERIOD \in 0 .. Horizon
    BY HorizonFacts, ConstantFacts
  <2> QED  BY <2>1 DEF Entry
<1>3. ASSUME NEW i \in DOMAIN r.route
      PROVE  /\ q[i] \in Entry(n) /\ q[i].dst = r.route[i].dst
             /\ q[i].valid => r.route[i].valid /\ r.route[i].life <= q[i].life
  <2>1. r.route[i] \in Entry(n) /\ r.route[i].life \in Nat
    BY SaneFacts, HorizonFacts
  <2>2. CASE i \in broken
    BY <1>2, <2>1, <2>2
  <2>3. CASE i \notin broken
    <3>1. q[i] = r.route[i]
      BY <2>3
    <3>2. r.route[i].life <= r.route[i].life
      BY <2>1
    <3> HIDE DEF q
    <3> QED  BY <2>1, <3>1, <3>2
  <2> QED  BY <2>2, <2>3
<1>4. q = [i \in DOMAIN r.route |-> q[i]]
  OBVIOUS
<1> HIDE DEF q
<1> QED  BY <1>1, <1>3, <1>4, Reshape

\* With no timer due, a valid entry is a route that can be used.
Live(r) == \A t \in r.routeTimer : t.in > 0
LEMMA ValidIsFound ==
    ASSUME NEW n, NEW r, Sane(n, r), Live(r), NEW d, NEW i \in ValidAt(r, d)
    PROVE  CheckRouteFound(r, d)
<1>1. i \in DOMAIN r.route /\ r.route[i].valid
  BY DEF ValidAt, EntriesAt
<1>2. PICK t \in r.routeTimer : t.in <= r.route[i].life
  BY <1>1 DEF Sane, Timed, TimedRoute
<1>3. t.in \in Nat /\ t.in > 0 /\ r.route[i].life \in Nat
  BY <1>1, SaneFacts, HorizonFacts DEF Live, Timer
<1>4. r.route[i].life > 0
  BY <1>2, <1>3
<1> QED  BY <1>4 DEF CheckRouteFound

\* The next hop of a route in force is a neighbour.
LEMMA NextHopLemma ==
    ASSUME NEW n, NEW r, Sane(n, r), NEW d, CheckRouteFound(r, d)
    PROVE  /\ Min(ValidAt(r, d)) \in ValidAt(r, d)
           /\ FindNextHop(r, d) \in InRange(n) /\ (Listed(r) => r.precursorsList)
<1>1. ValidAt(r, d) # {} /\ ValidAt(r, d) \subseteq DOMAIN r.route
  BY DEF CheckRouteFound, ValidAt, EntriesAt
<1>2. ValidAt(r, d) \in SUBSET Nat
  BY <1>1, SaneFacts
<1>3. Min(ValidAt(r, d)) \in ValidAt(r, d)
  BY <1>1, <1>2, MinLemma
<1>4. r.route[Min(ValidAt(r, d))] \in Entry(n)
  BY <1>1, <1>3, SaneFacts
<1>5. \A e \in Entry(n) : e.next \in InRange(n)
  BY DEF Entry
<1>6. r.route # << >>
  BY <1>1
<1> QED  BY <1>3, <1>4, <1>5, <1>6 DEF FindNextHop, Listed

\* A new entry is added when none of its destination is valid; an entry in
\* force is refreshed in place.
LEMMA InsertLemma ==
    ASSUME NEW n, NEW r, Sane(n, r), NEW ip \in Nodes, NEW seq \in Nat, NEW hop \in Nat,
           NEW nh \in InRange(n), NEW life \in Nat, life <= Horizon
    PROVE  LET s == InsertInRouteTable(r, ip, seq, hop, nh, life)
           IN  /\ Sane(n, s) /\ Grows(r, s) /\ SameRest(r, s) /\ (Live(r) => Live(s))
               /\ ValidAt(s, ip) # {}
<1> DEFINE s == InsertInRouteTable(r, ip, seq, hop, nh, life)
<1>1. /\ r.route \in Seq(Entry(n)) /\ r.routeTimer \subseteq Timer
      /\ DOMAIN r.route \subseteq Nat \ {0}
      /\ \A i \in DOMAIN r.route : r.route[i] \in Entry(n)
  BY SaneFacts
<1>2. CASE ValidAt(r, ip) = {}
  <2> DEFINE e == [dst |-> ip, seq |-> seq, hop |-> hop, next |-> nh, valid |-> TRUE,
                   life |-> Above(AODV_ACTIVE_ROUTE_TIMEOUT, life)]
             t == [dst |-> ip, in |-> AODV_ACTIVE_ROUTE_TIMEOUT]
             q == Added(r.route, e)
             tm == r.routeTimer \cup {t}
  <2>1. s = Routed(r, q, tm)
    BY <1>2 DEF InsertInRouteTable, Routed, Added
  <2>2. AODV_ACTIVE_ROUTE_TIMEOUT \in Nat \ {0} /\ AODV_ACTIVE_ROUTE_TIMEOUT <= Horizon
        /\ Horizon \in Nat
    BY ConstantFacts, HorizonFacts
  <2>3. Above(AODV_ACTIVE_ROUTE_TIMEOUT, life) \in 0 .. Horizon
        /\ AODV_ACTIVE_ROUTE_TIMEOUT <= Above(AODV_ACTIVE_ROUTE_TIMEOUT, life)
    BY <2>2 DEF Above
  <2>4. e \in Entry(n) /\ e.dst = ip /\ e.valid /\ AODV_ACTIVE_ROUTE_TIMEOUT <= e.life
    BY <2>3 DEF Entry
  <2>5. tm \subseteq Timer /\ t \in tm /\ t.dst = ip /\ t.in = AODV_ACTIVE_ROUTE_TIMEOUT
    BY <1>1, <2>2 DEF Timer
  <2> HIDE DEF e, t
  <2>6. q \in Seq(Entry(n)) /\ Put(r.route, q, e)
    BY <1>1, <2>4, SnocLemma
  <2> HIDE DEF q
  <2>7. TimedRoute(q, tm)
    <3>1. SUFFICES ASSUME NEW i \in DOMAIN q, q[i].valid
                   PROVE  \E u \in tm : u.dst = q[i].dst /\ u.in <= q[i].life
      BY DEF TimedRoute
    <3>2. CASE q[i] = e
      BY <2>4, <2>5, <3>2
    <3>3. CASE i \in DOMAIN r.route /\ q[i] = r.route[i]
      BY <3>1, <3>3 DEF Sane, Timed, TimedRoute
    <3> QED  BY <2>6, <3>2, <3>3 DEF Put
  <2>8. OneValid(q)
    <3>1. SUFFICES ASSUME NEW i \in DOMAIN q, NEW j \in DOMAIN q, i < j,
                          q[i].dst = q[j].dst
                   PROVE  ~q[i].valid
      BY DEF OneValid
    <3>2. i \in DOMAIN r.route /\ q[i] = r.route[i]
      <4>1. Len(r.route) \in Nat
        BY <1>1, LenProperties
      <4> QED  BY <2>6, <3>1, <4>1 DEF Put
    <3>3. CASE q[j] = e
      BY <1>2, <2>4, <3>1, <3>2, <3>3 DEF ValidAt, EntriesAt
    <3>4. CASE j \in DOMAIN r.route /\ q[j] = r.route[j]
      BY <3>1, <3>2, <3>4 DEF Sane, LastValid, OneValid
    <3> QED  BY <2>6, <3>3, <3>4 DEF Put
  <2> HIDE DEF tm, s
  <2>9. Sane(n, s) /\ s.route = q /\ s.routeTimer = tm /\ SameRest(r, s)
    BY <2>1, <2>5, <2>6, <2>7, <2>8, NewRoute
  <2>10. Grows(r, s)
    BY <2>6, <2>9 DEF Grows, Put, SameRest
  <2>11. Live(r) => Live(s)
    BY <2>2, <2>5, <2>9 DEF Live, tm
  <2>12. ValidAt(s, ip) # {}
    BY <2>4, <2>6, <2>9 DEF Put, ValidAt, EntriesAt
  <2> QED  BY <2>9, <2>10, <2>11, <2>12 DEF s
<1>3. CASE ValidAt(r, ip) # {}
  <2> DEFINE k == Min(ValidAt(r, ip))
             e == r.route[k]
             f == [e EXCEPT !.seq = seq, !.hop = hop, !.life = Above(e.life, life)]
             fresh == e.seq = 0 \/ e.seq < seq \/ (e.seq = seq /\ hop + 1 < e.hop)
             q == [i \in DOMAIN r.route |-> IF i = k THEN f ELSE r.route[i]]
  <2>1. k \in ValidAt(r, ip)
    <3>1. ValidAt(r, ip) \in SUBSET Nat
      BY <1>1 DEF ValidAt, EntriesAt
    <3> QED  BY <1>3, <3>1, MinLemma
  <2>2. k \in DOMAIN r.route /\ e \in Entry(n) /\ e.dst = ip /\ e.valid
    BY <1>1, <2>1 DEF ValidAt, EntriesAt
  <2>3. CASE ~fresh
    <3>1. s = r
      BY <1>3, <2>3 DEF InsertInRouteTable
    <3>2. Grows(r, r) /\ SameRest(r, r)
      BY DEF Grows, SameRest
    <3> QED  BY <1>3, <3>1, <3>2
  <2>4. CASE fresh
    <3>1. s = [r EXCEPT !.route[k] = f]
      BY <1>3, <2>4 DEF InsertInRouteTable
    <3>2. s = Routed(r, q, r.routeTimer)
      <4>1. r \in NodeState(n)
        BY DEF Sane
      <4> HIDE DEF f
      <4> QED  BY <1>1, <2>2, <3>1, <4>1, ZenonT(60) DEF NodeState, Routed
    <3>3. e.life \in Nat /\ e.life <= Horizon /\ Horizon \in Nat
      BY <2>2, HorizonFacts DEF Entry
    <3>4. Above(e.life, life) \in 0 .. Horizon /\ e.life <= Above(e.life, life)
      BY <3>3 DEF Above
    <3>5. f \in Entry(n) /\ f.dst = e.dst /\ f.valid = e.valid /\ e.life <= f.life
      BY <2>2, <3>4 DEF Entry
    <3>6. ASSUME NEW i \in DOMAIN r.route
          PROVE  /\ q[i] \in Entry(n) /\ q[i].dst = r.route[i].dst
                 /\ q[i].valid => r.route[i].valid /\ r.route[i].life <= q[i].life
      <4>1. CASE i = k
        <5>1. q[i] = f /\ r.route[i] = e
          BY <4>1
        <5> HIDE DEF f, q, e
        <5> QED  BY <3>5, <5>1
      <4>2. CASE i # k
        <5>1. q[i] = r.route[i]
          BY <4>2
        <5>2. r.route[i].life <= r.route[i].life
          BY SaneFacts, HorizonFacts
        <5> HIDE DEF q
        <5> QED  BY <1>1, <5>1, <5>2
      <4> QED  BY <4>1, <4>2
    <3>7. q = [i \in DOMAIN r.route |-> q[i]] /\ q[k] = f
      BY <2>2
    <3> HIDE DEF q, s
    <3>8. /\ Sane(n, s) /\ Grows(r, s) /\ s.route = q /\ s.routeTimer = r.routeTimer
          /\ SameRest(r, s)
      BY <3>2, <3>6, <3>7, Reshape
    <3> HIDE DEF k, f
    <3>9. k \in DOMAIN q
      BY <2>2, <3>7
    <3>10. ValidAt(s, ip) # {}
      BY <2>2, <3>5, <3>7, <3>8, <3>9 DEF ValidAt, EntriesAt
    <3>11. Live(r) => Live(s)
      BY <3>8 DEF Live
    <3> QED  BY <3>8, <3>10, <3>11 DEF s
  <2> QED  BY <2>3, <2>4
<1> QED  BY <1>2, <1>3

\* A change of the rest of a node state.
LEMMA SameRoute ==
    ASSUME NEW n, NEW r, Sane(n, r), NEW s, s \in NodeState(n), s.route = r.route,
           s.routeTimer = r.routeTimer, Fifo(s), \A d \in Nodes : Waits(s, d),
           r.precursorsList => s.precursorsList
    PROVE  Sane(n, s) /\ Grows(r, s) /\ (Listed(r) => Listed(s))
  BY DEF Sane, Timed, LastValid, Grows, Listed

LEMMA GrowsTrans ==
    ASSUME NEW r, NEW s, NEW u, Grows(r, s), Grows(s, u)
    PROVE  Grows(r, u)
  BY DEF Grows

\* The buffer of every destination that has a route is emptied.
LEMMA ReleaseLemma ==
    ASSUME NEW n, NEW r, Sane(n, r)
    PROVE  LET s == TransmitFIFOBuffer(r)
           IN  /\ Sane(n, s) /\ Grows(r, s) /\ (Listed(r) => Listed(s))
               /\ s.sent = r.sent /\ s.nSequenceNumber = r.nSequenceNumber
               /\ \A d \in Nodes : CheckRouteFound(r, d) => s.fifo[d] = {}
<1> DEFINE u == UpdateRouteTable(r, Released(r), AODV_ACTIVE_ROUTE_TIMEOUT)
           f == [d \in Nodes |-> IF d \in Released(r) THEN {} ELSE u.fifo[d]]
           s == TransmitFIFOBuffer(r)
<1>1. /\ Sane(n, u) /\ Grows(r, u) /\ u.routeTimer = r.routeTimer /\ SameRest(r, u)
      /\ (Listed(r) => Listed(u))
  BY UpdateLemma, ConstantFacts, HorizonFacts
<1>2. s = [u EXCEPT !.fifo = f]
  BY DEF TransmitFIFOBuffer
<1> HIDE DEF u
<1>3. u \in NodeState(n) /\ u.fifo \in [Nodes -> SUBSET Packets]
  BY <1>1, SaneFacts DEF Sane
<1>4. f \in [Nodes -> SUBSET Packets] /\ \A d \in Nodes : f[d] \subseteq u.fifo[d]
  BY <1>3
<1>5. \A d \in Nodes : CheckRouteFound(r, d) => f[d] = {}
  BY <1>1 DEF Released, SameRest
<1> HIDE DEF f
<1>6. /\ s \in NodeState(n) /\ s.route = u.route /\ s.routeTimer = u.routeTimer
      /\ s.fifo = f /\ s.sent = u.sent /\ s.rreqTimer = u.rreqTimer
      /\ s.precursorsList = u.precursorsList /\ s.nSequenceNumber = u.nSequenceNumber
  BY <1>2, <1>3, <1>4 DEF NodeState
<1> HIDE DEF s
<1>7. Fifo(s)
  BY <1>1, <1>4, <1>6 DEF Sane, Fifo
<1>8. \A d \in Nodes : Waits(s, d)
  BY <1>1, <1>4, <1>6 DEF Sane, Waits
<1>9. Sane(n, s) /\ Grows(u, s) /\ (Listed(u) => Listed(s))
  BY <1>1, <1>6, <1>7, <1>8, SameRoute
<1>10. Grows(r, s)
  BY <1>1, <1>9, GrowsTrans
<1> QED  BY <1>1, <1>5, <1>6, <1>9, <1>10 DEF s, SameRest

-----------------------------------------------------------------------------
\* Discovery.  Almost: sane but for the buffer of d.
Almost(n, r, d) == /\ r \in NodeState(n) /\ Timed(r) /\ LastValid(r) /\ Fifo(r)
                   /\ \A x \in Nodes \ {d} : Waits(r, x)

LEMMA TtlFacts ==
    ASSUME NEW n, NEW r \in NodeState(n), NEW d \in Nodes
    PROVE  fnIncreaseTTL(r, d) \in Nat \ {0} /\ r.sent[d] \in SentEntry /\ r.sent[d].times \in Nat
<1>1. r.sent[d] \in SentEntry
  BY DEF NodeState
<1>2. r.sent[d].times \in Nat /\ r.sent[d].ttl \in Nat
  BY <1>1 DEF SentEntry, NoEntry
<1> DEFINE ttl == r.sent[d].ttl
           D == {ttl + AODV_TTL_INCREMENT, AODV_TTL_THRESHOLD}
<1> HIDE DEF ttl
<1>3. ttl \in Nat
  BY <1>2 DEF ttl
<1>4. ttl + AODV_TTL_INCREMENT \in Nat \ {0} /\ AODV_TTL_THRESHOLD \in Nat \ {0}
  BY <1>3, ConstantFacts
<1>5. Min(D) \in D
  BY <1>4, MinLemma
<1>6. Min(D) \in Nat \ {0}
  BY <1>4, <1>5
<1> HIDE DEF D
<1>7. fnIncreaseTTL(r, d) \in {AODV_TTL_START, AODV_NET_DIAMETER, Min(D)}
  BY DEF fnIncreaseTTL, ttl, D
<1> QED  BY <1>1, <1>2, <1>6, <1>7, ConstantFacts

LEMMA TimeFacts ==
    ASSUME NEW ttl, NEW count \in Nat
    PROVE  fnGetTimeoutTime(ttl, count) \in Nat
<1>1. \A a, b \in Nat : a * b \in Nat
  OBVIOUS
<1> QED  BY <1>1, ConstantFacts DEF fnGetTimeoutTime

\* A request and its timer are out for d.
Asked(r, seq, seen, timers, sent) ==
    [r EXCEPT !.nSequenceNumber = seq, !.seen = seen, !.rreqTimer = timers, !.sent = sent]
LEMMA RequestedLemma ==
    ASSUME NEW n \in Nodes, NEW r, NEW d \in Nodes, Almost(n, r, d), NEW ttl \in Nat \ {0},
           NEW time \in Nat
    PROVE  LET s == Requested(n, r, d, ttl, time)
           IN  /\ Sane(n, s) /\ Grows(r, s) /\ (Listed(r) => Listed(s))
               /\ s.nSequenceNumber \in Nat
<1> DEFINE s == Requested(n, r, d, ttl, time)
           seq == r.nSequenceNumber + 1
           old == IF r.sent[d] = NoEntry THEN 1 ELSE r.sent[d].times
           times == old + (IF ttl = AODV_NET_DIAMETER THEN 1 ELSE 0)
           e == [times |-> times, ttl |-> ttl, due |-> time]
<1>1. s = [r EXCEPT !.nSequenceNumber = seq, !.seen = @ \cup {<<n, seq>>},
                    !.rreqTimer[d] = @ \cup {time}, !.sent[d] = e]
  BY DEF Requested
<1>2. r \in NodeState(n)
  BY DEF Almost
<1>3. seq \in Nat /\ r.seen \cup {<<n, seq>>} \subseteq Nodes \X Nat
  BY <1>2 DEF NodeState
<1>4. e \in SentEntry /\ e # NoEntry /\ e.due = time
  <2>1. old \in Nat
    BY <1>2, TtlFacts
  <2> HIDE DEF old
  <2>2. times \in Nat
    BY <2>1
  <2> HIDE DEF times
  <2> QED  BY <2>2 DEF SentEntry, NoEntry
<1> HIDE DEF seq, e
<1>5. r.sent \in [Nodes -> SentEntry] /\ r.rreqTimer \in [Nodes -> SUBSET Nat]
  BY <1>2 DEF NodeState
<1>6. /\ s.route = r.route /\ s.routeTimer = r.routeTimer /\ s.fifo = r.fifo
      /\ s.precursorsList = r.precursorsList /\ s.nSequenceNumber = seq
      /\ s.sent = [r.sent EXCEPT ![d] = e]
      /\ s.rreqTimer = [r.rreqTimer EXCEPT ![d] = r.rreqTimer[d] \cup {time}]
  BY <1>1, <1>2 DEF NodeState
<1>7. s.sent \in [Nodes -> SentEntry] /\ s.rreqTimer \in [Nodes -> SUBSET Nat]
  BY <1>4, <1>5, <1>6
<1>8. s \in NodeState(n)
  <2>1. s = Asked(r, s.nSequenceNumber, r.seen \cup {<<n, seq>>}, s.rreqTimer, s.sent)
    BY <1>1, <1>2, <1>6 DEF NodeState, Asked
  <2>2. ASSUME NEW a \in Nat, NEW b \in SUBSET (Nodes \X Nat),
               NEW c \in [Nodes -> SUBSET Nat], NEW g \in [Nodes -> SentEntry]
        PROVE  Asked(r, a, b, c, g) \in NodeState(n)
    BY <1>2 DEF NodeState, Asked
  <2>3. s.nSequenceNumber \in Nat /\ r.seen \cup {<<n, seq>>} \in SUBSET (Nodes \X Nat)
    BY <1>3, <1>6
  <2> HIDE DEF s
  <2> QED  BY <1>7, <2>1, <2>2, <2>3
<1> HIDE DEF s
<1>9. Fifo(s) /\ Timed(s) /\ LastValid(s)
  BY <1>6 DEF Almost, Fifo, Timed, LastValid
<1>10. ASSUME NEW x \in Nodes PROVE Waits(s, x)
  <2>1. CASE x = d
    BY <1>4, <1>5, <1>6, <2>1 DEF Waits
  <2>2. CASE x # d
    BY <1>5, <1>6, <2>2 DEF Waits, Almost
  <2> QED  BY <2>1, <2>2
<1>11. Grows(r, s) /\ (Listed(r) => Listed(s))
  BY <1>6 DEF Grows, Listed
<1> QED  BY <1>3, <1>6, <1>8, <1>9, <1>10, <1>11 DEF Sane, s

LEMMA GenerateLemma ==
    ASSUME NEW n \in Nodes, NEW r, NEW d \in Nodes, Almost(n, r, d)
    PROVE  LET s == GenerateRREQ(n, r, d).r
           IN  /\ Sane(n, s) /\ Grows(r, s) /\ (Listed(r) => Listed(s))
               /\ s.nSequenceNumber \in Nat
<1> DEFINE ttl == fnIncreaseTTL(r, d) + 1
           time == fnGetTimeoutTime(ttl, 1)
<1>1. r \in NodeState(n)
  BY DEF Almost
<1>2. fnIncreaseTTL(r, d) \in Nat \ {0}
  BY <1>1, TtlFacts
<1>3. ttl \in Nat \ {0} /\ time \in Nat
  <2>1. ttl \in Nat \ {0}
    BY <1>2
  <2> QED  BY <2>1, TimeFacts
<1>4. GenerateRREQ(n, r, d).r = Requested(n, r, d, ttl, time)
  BY DEF GenerateRREQ
<1> HIDE DEF ttl, time
<1> QED  BY <1>3, <1>4, RequestedLemma

\* The node state on the RREQ timeout, without the timer that fires.
Fired(r, d) == [r EXCEPT !.rreqTimer[d] = @ \ {0}]
LEMMA FiredLemma ==
    ASSUME NEW n, NEW r, NEW d \in Nodes, Sane(n, r), NEW s, s = Fired(r, d)
    PROVE  /\ Almost(n, s, d) /\ Grows(r, s) /\ (Listed(r) => Listed(s))
           /\ s.fifo = r.fifo /\ s.sent = r.sent
           /\ s.rreqTimer[d] = r.rreqTimer[d] \ {0}
<1>1. r \in NodeState(n)
  BY DEF Sane
<1>2. r.rreqTimer \in [Nodes -> SUBSET Nat]
  BY <1>1 DEF NodeState
<1>3. /\ s.route = r.route /\ s.routeTimer = r.routeTimer /\ s.fifo = r.fifo
      /\ s.sent = r.sent /\ s.precursorsList = r.precursorsList
      /\ s.rreqTimer = [r.rreqTimer EXCEPT ![d] = r.rreqTimer[d] \ {0}]
  BY <1>1 DEF Fired, NodeState
<1>4. s \in NodeState(n)
  BY <1>1, <1>2 DEF Fired, NodeState
<1>5. Fifo(s) /\ Timed(s) /\ LastValid(s)
  BY <1>3 DEF Sane, Fifo, Timed, LastValid
<1>6. \A x \in Nodes \ {d} : Waits(s, x)
  BY <1>2, <1>3 DEF Sane, Waits
<1> QED  BY <1>2, <1>3, <1>4, <1>5, <1>6 DEF Almost, Grows, Listed

LEMMA GiveUpLemma ==
    ASSUME NEW n, NEW r, NEW d \in Nodes, Almost(n, r, d)
    PROVE  LET s == GiveUp(r, d)
           IN  Sane(n, s) /\ Grows(r, s) /\ (Listed(r) => Listed(s))
<1> DEFINE s == GiveUp(r, d)
<1>1. r \in NodeState(n)
  BY DEF Almost
<1>2. r.sent \in [Nodes -> SentEntry] /\ r.fifo \in [Nodes -> SUBSET Packets]
  BY <1>1 DEF NodeState
<1>3. /\ s.route = r.route /\ s.routeTimer = r.routeTimer /\ s.rreqTimer = r.rreqTimer
      /\ s.precursorsList = r.precursorsList
      /\ s.sent = [r.sent EXCEPT ![d] = NoEntry] /\ s.fifo = [r.fifo EXCEPT ![d] = {}]
  BY <1>1 DEF GiveUp, NodeState
<1>4. s \in NodeState(n)
  <2>1. s.sent \in [Nodes -> SentEntry] /\ s.fifo \in [Nodes -> SUBSET Packets]
    BY <1>2, <1>3 DEF SentEntry
  <2>2. s = [r EXCEPT !.sent = [r.sent EXCEPT ![d] = NoEntry], !.fifo = [r.fifo EXCEPT ![d] = {}]]
    BY <1>1 DEF GiveUp, NodeState
  <2>3. ASSUME NEW b \in [Nodes -> SUBSET Packets], NEW g \in [Nodes -> SentEntry]
        PROVE  [r EXCEPT !.sent = g, !.fifo = b] \in NodeState(n)
    BY <1>1 DEF NodeState
  <2> HIDE DEF s
  <2> QED  BY <1>3, <2>1, <2>2, <2>3, Zenon
<1> HIDE DEF s
<1>5. Fifo(s) /\ Timed(s) /\ LastValid(s)
  BY <1>2, <1>3 DEF Almost, Fifo, Timed, LastValid
<1>6. ASSUME NEW x \in Nodes PROVE Waits(s, x)
  <2>1. CASE x = d
    BY <1>2, <1>3, <2>1 DEF Waits
  <2>2. CASE x # d
    BY <1>2, <1>3, <2>2 DEF Waits, Almost
  <2> QED  BY <2>1, <2>2
<1> QED  BY <1>3, <1>4, <1>5, <1>6 DEF Sane, Grows, Listed, s

LEMMA RetryLemma ==
    ASSUME NEW n \in Nodes, NEW r, NEW d \in Nodes, Sane(n, r)
    PROVE  LET s == RetryRREQ(n, Fired(r, d), d).r
           IN  Sane(n, s) /\ Grows(r, s) /\ (Listed(r) => Listed(s))
<1> DEFINE u == Fired(r, d)
           ttl == fnIncreaseTTL(u, d)
           time == fnGetTimeoutTime(ttl + 1, u.sent[d].times)
           s == RetryRREQ(n, u, d).r
<1>1. /\ Almost(n, u, d) /\ Grows(r, u) /\ (Listed(r) => Listed(u))
      /\ u.fifo = r.fifo /\ u.sent = r.sent
      /\ u.rreqTimer[d] = r.rreqTimer[d] \ {0}
  <2> HIDE DEF u
  <2>1. u = Fired(r, d)
    BY DEF u
  <2> QED  BY <2>1, FiredLemma
<1> HIDE DEF u
<1>2. u \in NodeState(n)
  BY <1>1 DEF Almost
<1>3. ttl \in Nat \ {0} /\ u.sent[d] \in SentEntry /\ u.sent[d].times \in Nat
  BY <1>2, TtlFacts
<1>4. time \in Nat
  BY <1>3, TimeFacts
<1> HIDE DEF ttl, time
<1>5. CASE u.sent[d] = NoEntry \/ u.sent[d].due > 0
  <2>1. s = u
    BY <1>5 DEF RetryRREQ
  <2>2. Waits(u, d)
    <3>1. Waits(r, d)
      BY DEF Sane
    <3> QED  BY <1>1, <1>5, <3>1 DEF Waits
  <2>3. Sane(n, u)
    BY <1>1, <2>2 DEF Sane, Almost
  <2> QED  BY <1>1, <2>1, <2>3 DEF u
<1>6. CASE ~(u.sent[d] = NoEntry \/ u.sent[d].due > 0) /\ u.sent[d].times > AODV_RREQ_RETRIES
  <2>1. s = GiveUp(u, d)
    BY <1>6 DEF RetryRREQ
  <2>2. Sane(n, s) /\ Grows(u, s) /\ (Listed(u) => Listed(s))
    BY <1>1, <2>1, GiveUpLemma
  <2> QED  BY <1>1, <2>2, GrowsTrans DEF u
<1>7. CASE ~(u.sent[d] = NoEntry \/ u.sent[d].due > 0) /\ ~(u.sent[d].times > AODV_RREQ_RETRIES)
  <2>1. s = Requested(n, u, d, ttl, time)
    BY <1>7 DEF RetryRREQ, ttl, time
  <2>2. Sane(n, s) /\ Grows(u, s) /\ (Listed(u) => Listed(s))
    BY <1>1, <1>3, <1>4, <2>1, RequestedLemma
  <2> QED  BY <1>1, <2>2, GrowsTrans DEF u
<1> QED  BY <1>5, <1>6, <1>7

\* A packet of d put in its buffer.
Queue(r, p) == [r EXCEPT !.fifo[p.dst] = @ \cup {p}]
LEMMA QueueLemma ==
    ASSUME NEW n, NEW r, Sane(n, r), NEW p \in Packets, p.dst \in Nodes
    PROVE  LET s == Queue(r, p)
           IN  /\ Almost(n, s, p.dst) /\ Grows(r, s) /\ (Listed(r) => Listed(s))
               /\ r.fifo[p.dst] # {} => Sane(n, s)
<1> DEFINE s == Queue(r, p)
           d == p.dst
<1>1. r \in NodeState(n)
  BY DEF Sane
<1>2. r.fifo \in [Nodes -> SUBSET Packets]
  BY <1>1 DEF NodeState
<1>3. /\ s.route = r.route /\ s.routeTimer = r.routeTimer /\ s.rreqTimer = r.rreqTimer
      /\ s.sent = r.sent /\ s.precursorsList = r.precursorsList
      /\ s.fifo = [r.fifo EXCEPT ![d] = r.fifo[d] \cup {p}]
  BY <1>1 DEF Queue, NodeState
<1>4. s \in NodeState(n)
  BY <1>1, <1>2 DEF Queue, NodeState
<1> HIDE DEF s
<1>5. Timed(s) /\ LastValid(s)
  BY <1>3 DEF Sane, Timed, LastValid
<1>6. Fifo(s)
  <2>1. ASSUME NEW x \in Nodes, NEW y \in s.fifo[x] PROVE y.dst = x
    <3>1. CASE x = d
      <4>1. y \in r.fifo[d] \/ y = p
        BY <1>2, <1>3, <2>1, <3>1
      <4> QED  BY <3>1, <4>1 DEF Sane, Fifo
    <3>2. CASE x # d
      BY <1>2, <1>3, <2>1, <3>2 DEF Sane, Fifo
    <3> QED  BY <3>1, <3>2
  <2> QED  BY <2>1 DEF Fifo
<1>7. \A x \in Nodes \ {d} : Waits(s, x)
  BY <1>2, <1>3 DEF Sane, Waits
<1>8. r.fifo[d] # {} => Waits(s, d)
  BY <1>3 DEF Sane, Waits
<1>9. Almost(n, s, d)
  BY <1>4, <1>5, <1>6, <1>7 DEF Almost
<1>10. r.fifo[d] # {} => Sane(n, s)
  BY <1>4, <1>5, <1>6, <1>7, <1>8 DEF Sane
<1> QED  BY <1>3, <1>9, <1>10 DEF Grows, Listed, s

-----------------------------------------------------------------------------
\* The ACTIVE_ROUTE_TIMEOUT event t: the entries that stay have their timers,
\* and a route in force that is the first of its destination stays.
Without(r, t) == [r EXCEPT !.routeTimer = @ \ {t}]
LEMMA ExpireLemma ==
    ASSUME NEW n, NEW r, Sane(n, r), NEW t \in r.routeTimer, NEW s, s = Expire(Without(r, t), t.dst)
    PROVE  /\ Sane(n, s) /\ s.precursorsList = r.precursorsList
           /\ Listed(r) => Listed(s)
           /\ \A d \in Nodes : CheckRouteFound(r, d) /\ FirstEntry(r, d).valid
                                => CheckRouteFound(s, d)
<1> DEFINE d == t.dst
           q == r.route
           a == Visited(q, d)[Len(q)]
           tm == (r.routeTimer \ {t}) \cup a.timers
<1>1. /\ q \in Seq(Entry(n)) /\ r.routeTimer \subseteq Timer /\ d \in Nodes /\ OneValid(q)
      /\ DOMAIN q = 1 .. Len(q) /\ Len(q) \in Nat
  BY SaneFacts, LenProperties DEF Timer, Sane, LastValid
<1>2. LoopInv(n, q, d, Len(q), a)
  BY <1>1, LoopLemma
<1>3. s = Routed(r, a.route, tm)
  <2>1. r \in NodeState(n)
    BY DEF Sane
  <2>2. Without(r, t).route = q /\ Without(r, t).routeTimer = r.routeTimer \ {t}
    BY <2>1 DEF Without, NodeState
  <2>3. s = [Without(r, t) EXCEPT !.route = a.route, !.routeTimer = tm]
    BY <2>2 DEF Expire
  <2> HIDE DEF a, tm
  <2> QED  BY <2>1, <2>3 DEF Without, Routed, NodeState
<1> HIDE DEF a
<1>4. a \in Acc(n) /\ OneValid(a.route)
  BY <1>2 DEF LoopInv
<1>5. a.route \in Seq(Entry(n)) /\ a.timers \subseteq Timer
  BY <1>4 DEF Acc
<1>6. \A k \in DOMAIN a.route : \E j \in DOMAIN q : a.route[k] = q[j]
  BY <1>1, <1>2 DEF LoopInv
<1>7. TimedRoute(a.route, tm)
  <2>1. SUFFICES ASSUME NEW k \in DOMAIN a.route, a.route[k].valid
                 PROVE  \E u \in tm : u.dst = a.route[k].dst /\ u.in <= a.route[k].life
    BY DEF TimedRoute
  <2>2. PICK j \in DOMAIN q : a.route[k] = q[j]
    BY <1>6
  <2>3. CASE a.route[k].dst = d
    <3> DEFINE u == [dst |-> d, in |-> a.route[k].life]
    <3>1. u \in a.timers
      BY <1>2, <2>3 DEF LoopInv
    <3>2. a.route[k].life \in Nat
      BY <2>2, SaneFacts, HorizonFacts
    <3>3. u.dst = a.route[k].dst /\ u.in <= a.route[k].life
      BY <2>3, <3>2
    <3> HIDE DEF u
    <3> QED  BY <3>1, <3>3
  <2>4. CASE a.route[k].dst # d
    <3>1. PICK u \in r.routeTimer : u.dst = q[j].dst /\ u.in <= q[j].life
      BY <2>1, <2>2 DEF Sane, Timed, TimedRoute
    <3> QED  BY <2>2, <2>4, <3>1
  <2> QED  BY <2>3, <2>4
<1>8. tm \subseteq Timer
  BY <1>1, <1>5
<1> HIDE DEF tm
<1>9. Sane(n, s) /\ s.route = a.route /\ s.routeTimer = tm /\ SameRest(r, s)
  BY <1>3, <1>4, <1>5, <1>7, <1>8, NewRoute
<1>10. s.precursorsList = r.precursorsList /\ (Listed(r) => Listed(s))
  BY <1>9 DEF SameRest, Listed
<1>11. ASSUME NEW x \in Nodes, CheckRouteFound(r, x), FirstEntry(r, x).valid
       PROVE  CheckRouteFound(s, x)
  <2>1. PICK i \in DOMAIN q : q[i].dst = x /\ q[i].valid /\ q[i].life > 0
    BY <1>11 DEF CheckRouteFound, ValidAt, EntriesAt
  <2>2. CASE x # d
    <3>1. Holds(a, q[i])
      BY <1>1, <1>2, <2>1, <2>2 DEF LoopInv
    <3> QED  BY <1>9, <2>1, <3>1 DEF Holds, CheckRouteFound, ValidAt, EntriesAt
  <2>3. CASE x = d
    <3> DEFINE D == EntriesAt(r, x)
               m == Min(D)
    <3>1. D # {} /\ D \in SUBSET Nat /\ D \subseteq DOMAIN q
      BY <1>1, <2>1 DEF EntriesAt
    <3>2. m \in D /\ \A j \in D : m <= j
      BY <3>1, MinLemma
    <3> HIDE DEF m
    <3>3. i \in D /\ q[m].valid
      BY <1>11, <2>1 DEF EntriesAt, FirstEntry, m
    <3>4. m = i
      <4>1. m \in Nat /\ i \in Nat /\ m <= i
        BY <3>1, <3>2, <3>3
      <4>2. ~(m < i)
        BY <1>1, <2>1, <3>2, <3>3 DEF OneValid, EntriesAt
      <4> QED  BY <4>1, <4>2
    <3>5. FirstOf(q, d, i)
      <4>1. ASSUME NEW l \in 1 .. i - 1 PROVE q[l].dst # d
        <5>1. l \in DOMAIN q /\ ~(i <= l)
          BY <1>1
        <5> QED  BY <2>3, <3>2, <3>4, <5>1 DEF EntriesAt
      <4> QED  BY <2>1, <2>3, <4>1 DEF FirstOf
    <3>6. Holds(a, q[i])
      BY <1>1, <1>2, <2>1, <3>5 DEF LoopInv
    <3> QED  BY <1>9, <2>1, <3>6 DEF Holds, CheckRouteFound, ValidAt, EntriesAt
  <2> QED  BY <2>2, <2>3
<1> QED  BY <1>9, <1>10, <1>11

LEMMA SettleLemma ==
    ASSUME NEW n, NEW r, Sane(n, r), NEW m, m.dst \in Nodes, r.fifo[m.dst] = {}
    PROVE  LET s == Settle(n, r, m)
           IN  Sane(n, s) /\ Grows(r, s) /\ (Listed(r) => Listed(s))
               /\ s.precursorsList = r.precursorsList
<1> DEFINE s == Settle(n, r, m)
           d == m.dst
<1>1. r \in NodeState(n)
  BY DEF Sane
<1>2. r.sent \in [Nodes -> SentEntry]
  BY <1>1 DEF NodeState
<1>3. CASE n = m.org
  <2>1. s = [r EXCEPT !.sent[d] = NoEntry]
    BY <1>3 DEF Settle
  <2>2. /\ s.route = r.route /\ s.routeTimer = r.routeTimer /\ s.rreqTimer = r.rreqTimer
        /\ s.precursorsList = r.precursorsList /\ s.fifo = r.fifo
        /\ s.sent = [r.sent EXCEPT ![d] = NoEntry]
    BY <1>1, <2>1 DEF NodeState
  <2>3. s \in NodeState(n)
    <3>1. NoEntry \in SentEntry
      BY DEF SentEntry
    <3>2. s.sent \in [Nodes -> SentEntry]
      BY <1>2, <2>2, <3>1
    <3>3. s = [r EXCEPT !.sent = [r.sent EXCEPT ![d] = NoEntry]]
      BY <1>1, <2>1 DEF NodeState
    <3>4. ASSUME NEW g \in [Nodes -> SentEntry] PROVE [r EXCEPT !.sent = g] \in NodeState(n)
      BY <1>1 DEF NodeState
    <3> HIDE DEF s
    <3> QED  BY <2>2, <3>2, <3>3, <3>4, Zenon
  <2> HIDE DEF s
  <2>4. Fifo(s) /\ \A x \in Nodes : Waits(s, x)
    BY <1>2, <2>2 DEF Sane, Fifo, Waits
  <2>5. Sane(n, s) /\ Grows(r, s) /\ (Listed(r) => Listed(s))
    BY <2>2, <2>3, <2>4, SameRoute
  <2> QED  BY <2>2, <2>5 DEF s
<1>4. CASE n # m.org
  BY <1>4 DEF Settle, Grows
<1> QED  BY <1>3, <1>4

LEMMA PrecursorLemma ==
    ASSUME NEW n, NEW r, Sane(n, r)
    PROVE  LET s == AddPrecursor(r)
           IN  Good(n, s) /\ Grows(r, s) /\ s.precursorsList /\ s.fifo = r.fifo
<1> DEFINE s == AddPrecursor(r)
<1>1. r \in NodeState(n)
  BY DEF Sane
<1>2. /\ s.route = r.route /\ s.routeTimer = r.routeTimer /\ s.rreqTimer = r.rreqTimer
      /\ s.fifo = r.fifo /\ s.sent = r.sent /\ s.precursorsList
  BY <1>1 DEF AddPrecursor, NodeState
<1>3. s \in NodeState(n)
  BY <1>1 DEF AddPrecursor, NodeState
<1> HIDE DEF s
<1>4. Fifo(s) /\ \A x \in Nodes : Waits(s, x)
  BY <1>2 DEF Sane, Fifo, Waits
<1>5. Sane(n, s) /\ Grows(r, s)
  BY <1>2, <1>3, <1>4, SameRoute
<1> QED  BY <1>2, <1>5 DEF Good, Listed, s

\* A tick takes one off every lifetime and timer.
OlderEntry(e) == [e EXCEPT !.life = Down(@)]
OlderTimer(t) == [t EXCEPT !.in = Down(@)]
OlderSent(s) == [s EXCEPT !.due = Down(@)]
Aged(r, q, tm, sent, timers) ==
    [r EXCEPT !.route = q, !.routeTimer = tm, !.sent = sent, !.rreqTimer = timers]

LEMMA DownFacts ==
    /\ \A k \in Nat : Down(k) \in Nat /\ Down(k) <= k
    /\ \A k, l \in Nat : k <= l => Down(k) <= Down(l)
  BY DEF Down

LEMMA OlderLemma ==
    ASSUME NEW n, NEW r, Sane(n, r), NEW s, s = Older(r)
    PROVE  /\ Sane(n, s) /\ Grows(r, s) /\ s.precursorsList = r.precursorsList
           /\ Listed(r) => Listed(s)
<1> DEFINE q == [i \in DOMAIN r.route |-> OlderEntry(r.route[i])]
           tm == {OlderTimer(t) : t \in r.routeTimer}
           sent == [d \in Nodes |-> OlderSent(r.sent[d])]
           timers == [d \in Nodes |-> {Down(k) : k \in r.rreqTimer[d]}]
<1>1. r \in NodeState(n)
  BY DEF Sane
<1>2. s = Aged(r, q, tm, sent, timers)
  BY DEF Older, Aged, OlderEntry, OlderTimer, OlderSent
<1>3. ASSUME NEW e \in Entry(n)
      PROVE  /\ OlderEntry(e) \in Entry(n) /\ OlderEntry(e).dst = e.dst
             /\ OlderEntry(e).valid = e.valid /\ OlderEntry(e).life = Down(e.life)
             /\ e.life \in Nat
  <2>1. e.life \in Nat /\ e.life <= Horizon /\ Horizon \in Nat
    BY HorizonFacts DEF Entry
  <2>2. Down(e.life) \in 0 .. Horizon
    BY <2>1 DEF Down
  <2> QED  BY <2>1, <2>2 DEF Entry, OlderEntry
<1>4. ASSUME NEW t \in Timer
      PROVE  /\ OlderTimer(t) \in Timer /\ OlderTimer(t).dst = t.dst
             /\ OlderTimer(t).in = Down(t.in) /\ t.in \in Nat
  BY DownFacts DEF Timer, OlderTimer
<1>5. ASSUME NEW e \in SentEntry
      PROVE  /\ OlderSent(e) \in SentEntry /\ OlderSent(e).due = Down(e.due)
             /\ (e # NoEntry => OlderSent(e) # NoEntry)
  <2>1. CASE e = NoEntry
    <3>1. OlderSent(NoEntry) = NoEntry
      BY DEF OlderSent, NoEntry, Down
    <3>2. NoEntry.due = 0 /\ Down(0) = 0
      BY DEF NoEntry, Down
    <3> QED  BY <2>1, <3>1, <3>2 DEF SentEntry
  <2>2. CASE e \in [times : Nat, ttl : Nat \ {0}, due : Nat]
    <3>1. OlderSent(e) \in [times : Nat, ttl : Nat \ {0}, due : Nat]
          /\ OlderSent(e).due = Down(e.due)
      BY <2>2, DownFacts DEF OlderSent
    <3>2. OlderSent(e) # NoEntry
      BY <3>1 DEF NoEntry
    <3> QED  BY <3>1, <3>2 DEF SentEntry
  <2> QED  BY <2>1, <2>2 DEF SentEntry
<1>6. /\ r.route \in Seq(Entry(n)) /\ DOMAIN r.route \subseteq Nat \ {0}
      /\ \A i \in DOMAIN r.route : r.route[i] \in Entry(n)
      /\ r.routeTimer \subseteq Timer
      /\ r.sent \in [Nodes -> SentEntry] /\ r.rreqTimer \in [Nodes -> SUBSET Nat]
  BY SaneFacts
<1>7. q \in Seq(Entry(n)) /\ DOMAIN q = DOMAIN r.route
  <2>1. DOMAIN q = DOMAIN r.route /\ q = [i \in DOMAIN r.route |-> q[i]]
        /\ \A i \in DOMAIN r.route : q[i] \in Entry(n)
    BY <1>3, <1>6
  <2> HIDE DEF q
  <2> QED  BY <1>6, <2>1, MapSeq
<1>8. tm \in SUBSET Timer
  BY <1>4, <1>6
<1>9. sent \in [Nodes -> SentEntry]
  BY <1>5, <1>6
<1>10. timers \in [Nodes -> SUBSET Nat]
  BY <1>6, DownFacts
<1>11. \A i \in DOMAIN q : q[i].dst = r.route[i].dst /\ q[i].valid = r.route[i].valid
                           /\ q[i].life = Down(r.route[i].life) /\ r.route[i].life \in Nat
  BY <1>3, <1>6, <1>7
<1>12. TimedRoute(q, tm)
  <2>1. SUFFICES ASSUME NEW i \in DOMAIN q, q[i].valid
                 PROVE  \E u \in tm : u.dst = q[i].dst /\ u.in <= q[i].life
    BY DEF TimedRoute
  <2>2. PICK t \in r.routeTimer : t.dst = r.route[i].dst /\ t.in <= r.route[i].life
    BY <1>7, <1>11, <2>1 DEF Sane, Timed, TimedRoute
  <2>3. OlderTimer(t) \in tm
    OBVIOUS
  <2>4. OlderTimer(t).dst = t.dst /\ OlderTimer(t).in = Down(t.in) /\ t.in \in Nat
    BY <1>4, <1>6
  <2>5. Down(t.in) <= Down(r.route[i].life)
    BY <1>11, <2>2, <2>4, DownFacts
  <2> HIDE DEF q, tm
  <2> QED  BY <1>11, <2>2, <2>3, <2>4, <2>5
<1>13. OneValid(q)
  <2> HIDE DEF q
  <2> QED  BY <1>7, <1>11 DEF Sane, LastValid, OneValid
<1>14. \A d \in Nodes : r.sent[d] # NoEntry /\ r.sent[d].due \in r.rreqTimer[d]
                         => sent[d] # NoEntry /\ sent[d].due \in timers[d]
  BY <1>5, <1>6
<1>15. (q # << >> \/ tm # {}) => (r.route # << >> \/ r.routeTimer # {})
  BY <1>6, <1>7
<1> HIDE DEF q, tm, sent, timers
<1>16. /\ s \in NodeState(n) /\ s.route = q /\ s.routeTimer = tm /\ s.sent = sent
       /\ s.rreqTimer = timers /\ s.fifo = r.fifo /\ s.precursorsList = r.precursorsList
  BY <1>1, <1>2, <1>7, <1>8, <1>9, <1>10 DEF NodeState, Aged
<1>17. Timed(s) /\ LastValid(s) /\ Fifo(s)
  BY <1>12, <1>13, <1>16 DEF Sane, Timed, LastValid, Fifo
<1>18. \A d \in Nodes : Waits(s, d)
  BY <1>14, <1>16 DEF Sane, Waits
<1>19. Grows(r, s)
  BY <1>7, <1>11, <1>16 DEF Grows
<1>20. Listed(r) => Listed(s)
  BY <1>15, <1>16 DEF Listed
<1> QED  BY <1>16, <1>17, <1>18, <1>19, <1>20 DEF Sane

-----------------------------------------------------------------------------
\* The messages sent.
Msg == RreqMsg \cup RrepMsg \cup RerrMsg

LEMMA BroadcastLemma ==
    ASSUME NEW n \in Nodes, NEW m \in Msg, m.type # "rerr" => m.last = n
    PROVE  \A x \in Broadcast(n, m) : InAir(x)
<1>1. SUFFICES ASSUME NEW k \in InRange(n), NEW x, x = [m EXCEPT !.to = k], m.ttl > 1
               PROVE  InAir(x)
  BY DEF Broadcast
<1>2. k \in Nodes /\ n \in InRange(k)
  BY <1>1, InRangeFacts
<1>3. CASE m \in RreqMsg
  <2>1. x \in RreqMsg /\ x.to = k /\ x.ttl = m.ttl /\ x.last = m.last /\ m.type = "rreq"
    BY <1>1, <1>2, <1>3 DEF RreqMsg
  <2> QED  BY <1>1, <1>2, <2>1 DEF InAir
<1>4. CASE m \in RrepMsg
  <2>1. x \in RrepMsg /\ x.to = k /\ x.ttl = m.ttl /\ x.last = m.last /\ m.type = "rrep"
    BY <1>1, <1>2, <1>4 DEF RrepMsg
  <2> QED  BY <1>1, <1>2, <2>1 DEF InAir
<1>5. CASE m \in RerrMsg
  <2>1. x \in RerrMsg /\ x.ttl = m.ttl /\ x.type = "rerr"
    BY <1>1, <1>2, <1>5 DEF RerrMsg
  <2> QED  BY <1>1, <2>1 DEF InAir
<1> QED  BY <1>3, <1>4, <1>5 DEF Msg

LEMMA UnicastLemma ==
    ASSUME NEW n \in Nodes, NEW m \in RrepMsg, m.last = n
    PROVE  \A x \in Unicast(n, m) : InAir(x)
<1>1. SUFFICES ASSUME m.ttl > 1, m.to \in InRange(n) PROVE InAir(m)
  BY DEF Unicast
<1>2. n \in InRange(m.to)
  BY <1>1, InRangeFacts
<1> QED  BY <1>1, <1>2 DEF InAir

LEMMA RreqLemma ==
    ASSUME NEW n \in Nodes, NEW r, r.nSequenceNumber \in Nat, NEW d \in Nodes, NEW ttl \in Int
    PROVE  \A x \in Broadcast(n, Rreq(n, r, d, ttl)) : InAir(x)
<1>1. Rreq(n, r, d, ttl) \in RreqMsg /\ Rreq(n, r, d, ttl).last = n
  BY DEF Rreq, RreqMsg
<1> HIDE DEF Rreq
<1> QED  BY <1>1, BroadcastLemma DEF Msg

LEMMA ForwardRreqLemma ==
    ASSUME NEW n \in Nodes, NEW m \in RreqMsg
    PROVE  \A x \in ForwardRREQ(n, m) : InAir(x)
<1> DEFINE t == m.ttl - 1
           h == m.hop + 1
           f == [m EXCEPT !.ttl = t, !.hop = h, !.last = n]
<1>1. f \in RreqMsg /\ f.last = n
  <2>1. t \in Int /\ h \in Nat
    BY DEF RreqMsg
  <2> HIDE DEF t, h
  <2> QED  BY <2>1 DEF RreqMsg
<1>2. ForwardRREQ(n, m) \in {{}, Broadcast(n, f)}
  BY DEF ForwardRREQ
<1> HIDE DEF f
<1>3. \A x \in Broadcast(n, f) : InAir(x)
  BY <1>1, BroadcastLemma DEF Msg
<1> QED  BY <1>2, <1>3

LEMMA RrepLemma ==
    ASSUME NEW n \in Nodes, NEW m \in RreqMsg, NEW seq \in Nat, NEW hop \in Nat, NEW ttl \in Int
    PROVE  \A x \in Unicast(n, Rrep(n, m, seq, hop, ttl)) : InAir(x)
<1>1. Rrep(n, m, seq, hop, ttl) \in RrepMsg /\ Rrep(n, m, seq, hop, ttl).last = n
  BY DEF Rrep, RreqMsg, RrepMsg
<1> QED  BY <1>1, UnicastLemma

LEMMA IntermediateLemma ==
    ASSUME NEW n \in Nodes, NEW r, Sane(n, r), NEW m \in RreqMsg, CheckRouteFound(r, m.dst)
    PROVE  \A x \in GenerateRREPByIntermediate(n, r, m) : InAir(x)
<1> DEFINE D == EntriesAt(r, m.dst)
           e == FirstEntry(r, m.dst)
           seq == fnFindSequenceNumber(r, m.dst)
<1>1. D # {} /\ D \subseteq DOMAIN r.route
  BY DEF CheckRouteFound, ValidAt, EntriesAt
<1>2. D \in SUBSET Nat
  BY <1>1, SaneFacts
<1>3. Min(D) \in D
  BY <1>1, <1>2, MinLemma
<1>4. e \in Entry(n)
  BY <1>1, <1>3, SaneFacts DEF FirstEntry
<1>5. seq = e.seq
  BY <1>1 DEF fnFindSequenceNumber
<1>6. seq \in Nat /\ e.hop \in Nat /\ AODV_NET_DIAMETER \in Int
  BY <1>4, <1>5, ConstantFacts DEF Entry
<1>7. GenerateRREPByIntermediate(n, r, m) \in
          {ForwardRREQ(n, m), Unicast(n, Rrep(n, m, seq, e.hop, AODV_NET_DIAMETER))}
  BY DEF GenerateRREPByIntermediate
<1> HIDE DEF e, seq
<1>8. \A x \in Unicast(n, Rrep(n, m, seq, e.hop, AODV_NET_DIAMETER)) : InAir(x)
  BY <1>6, RrepLemma
<1> QED  BY <1>7, <1>8, ForwardRreqLemma

LEMMA ForwardRrepLemma ==
    ASSUME NEW n \in Nodes, NEW r, Sane(n, r), NEW m \in RrepMsg
    PROVE  \A x \in ForwardRREP(n, r, m) : InAir(x)
<1>1. SUFFICES ASSUME CheckRouteFound(r, m.org)
               PROVE  \A x \in Unicast(n, [m EXCEPT !.to = FindNextHop(r, m.org),
                                 !.hop = @ + 1, !.last = n, !.ttl = @ - 1]) : InAir(x)
  BY DEF ForwardRREP
<1> DEFINE t == m.ttl - 1
           h == m.hop + 1
           k == FindNextHop(r, m.org)
           f == [m EXCEPT !.to = k, !.hop = h, !.last = n, !.ttl = t]
<1>2. k \in Nodes
  BY <1>1, NextHopLemma, InRangeFacts
<1>3. f \in RrepMsg /\ f.last = n
  <2>1. t \in Int /\ h \in Nat
    BY DEF RrepMsg
  <2> HIDE DEF t, h, k
  <2> QED  BY <1>2, <2>1 DEF RrepMsg
<1> HIDE DEF f
<1>4. \A x \in Unicast(n, f) : InAir(x)
  BY <1>3, UnicastLemma
<1> QED  BY <1>4 DEF f

LEMMA RerrLemma ==
    ASSUME NEW n \in Nodes, NEW dsts \in SUBSET Nodes, NEW ttl \in Int
    PROVE  \A x \in Rerr(n, dsts, ttl) : InAir(x)
<1> DEFINE f == [type |-> "rerr", to |-> n, ttl |-> ttl, src |-> n, dsts |-> dsts]
<1>1. f \in RerrMsg /\ f.type = "rerr"
  BY DEF RerrMsg
<1>2. Rerr(n, dsts, ttl) \in {{}, Broadcast(n, f)}
  BY DEF Rerr
<1> HIDE DEF f
<1>3. \A x \in Broadcast(n, f) : InAir(x)
  BY <1>1, BroadcastLemma DEF Msg
<1> QED  BY <1>2, <1>3

\* The kind of a message in the air.
LEMMA KindLemma ==
    ASSUME NEW m, InAir(m)
    PROVE  /\ m.to \in Nodes /\ m.ttl \in Int
           /\ m.type = "rreq" => m \in RreqMsg /\ m.last \in InRange(m.to)
           /\ m.type = "rrep" => m \in RrepMsg /\ m.last \in InRange(m.to)
           /\ m.type = "rerr" => m \in RerrMsg
<1>1. \A x \in RreqMsg : x.to \in Nodes /\ x.type = "rreq" /\ x.ttl \in Int
  BY DEF RreqMsg
<1>2. \A x \in RrepMsg : x.to \in Nodes /\ x.type = "rrep" /\ x.ttl \in Int
  BY DEF RrepMsg
<1>3. \A x \in RerrMsg : x.to \in Nodes /\ x.type = "rerr" /\ x.ttl \in Int
  BY DEF RerrMsg
<1> QED  BY <1>1, <1>2, <1>3 DEF InAir

LEMMA GenerateOut ==
    ASSUME NEW n \in Nodes, NEW r, NEW d \in Nodes, Almost(n, r, d)
    PROVE  \A x \in GenerateRREQ(n, r, d).out : InAir(x)
<1> DEFINE ttl == fnIncreaseTTL(r, d) + 1
           s == GenerateRREQ(n, r, d).r
<1>1. s.nSequenceNumber \in Nat
  BY GenerateLemma
<1>2. fnIncreaseTTL(r, d) \in Nat
  BY TtlFacts DEF Almost
<1>3. ttl + 1 \in Int
  BY <1>2
<1>4. GenerateRREQ(n, r, d).out = Broadcast(n, Rreq(n, s, d, ttl + 1))
  BY DEF GenerateRREQ
<1> HIDE DEF s, ttl
<1> QED  BY <1>1, <1>3, <1>4, RreqLemma

LEMMA RetryOut ==
    ASSUME NEW n \in Nodes, NEW r, NEW d \in Nodes, Almost(n, r, d)
    PROVE  \A x \in RetryRREQ(n, r, d).out : InAir(x)
<1> DEFINE ttl == fnIncreaseTTL(r, d)
           time == fnGetTimeoutTime(ttl + 1, r.sent[d].times)
           s == Requested(n, r, d, ttl, time)
<1>1. ttl \in Nat \ {0} /\ r.sent[d].times \in Nat
  BY TtlFacts DEF Almost
<1>2. time \in Nat
  BY <1>1, TimeFacts
<1>3. RetryRREQ(n, r, d).out \in {{}, Broadcast(n, Rreq(n, s, d, ttl + 1))}
  BY DEF RetryRREQ
<1> HIDE DEF ttl, time
<1>4. s.nSequenceNumber \in Nat
  BY <1>1, <1>2, RequestedLemma
<1> HIDE DEF s
<1>5. ttl + 1 \in Int
  BY <1>1
<1>6. \A x \in Broadcast(n, Rreq(n, s, d, ttl + 1)) : InAir(x)
  BY <1>4, <1>5, RreqLemma
<1> QED  BY <1>3, <1>6

LEMMA FifoDataLemma ==
    ASSUME NEW n \in Nodes, NEW r, Sane(n, r)
    PROVE  \A x \in FifoData(n, r) : Sound(x) /\ x.from = n
<1>1. SUFFICES ASSUME NEW d \in Released(r), NEW p \in r.fifo[d],
                      NEW x, x = Data(n, p, FindNextHop(r, d))
               PROVE  Sound(x) /\ x.from = n
  BY DEF FifoData
<1>2. d \in Nodes /\ CheckRouteFound(r, d)
  BY DEF Released
<1>3. p \in Packets
  BY <1>2, SaneFacts
<1>4. FindNextHop(r, d) \in Nodes
  BY <1>2, NextHopLemma, InRangeFacts
<1> QED  BY <1>1, <1>3, <1>4 DEF Data, Sound

-----------------------------------------------------------------------------
(***************************************************************************)
(* Every step preserves IInv, and every step but the route timeout keeps   *)
(* the entries of every table.                                             *)
(***************************************************************************)
Kept == \A n \in Nodes : Grows(node[n], node'[n])
Step == IInv' /\ Kept

LEMMA NodeStep ==
    ASSUME IInv, NEW n \in Nodes, NEW s, Good(n, s), node' = [node EXCEPT ![n] = s]
    PROVE  /\ node' = [k \in Nodes |-> node'[k]] /\ node'[n] = s
           /\ \A k \in Nodes : Good(k, node'[k])
           /\ \A k \in Nodes \ {n} : node'[k] = node[k]
           /\ Grows(node[n], s) => Kept
<1>1. node = [k \in Nodes |-> node[k]] /\ \A k \in Nodes : Good(k, node[k])
  BY DEF IInv
<1>2. /\ node' = [k \in Nodes |-> node'[k]] /\ node'[n] = s
      /\ \A k \in Nodes \ {n} : node'[k] = node[k]
  BY <1>1
<1>3. \A r : Grows(r, r)
  BY DEF Grows
<1> QED  BY <1>1, <1>2, <1>3 DEF Kept

LEMMA StepLemma ==
    ASSUME IInv, Kept, born' \in 0 .. Cardinality(Packets), floods' \in 0 .. MaxFloods,
           node' = [k \in Nodes |-> node'[k]], \A k \in Nodes : Good(k, node'[k]),
           \A m \in air' : InAir(m),
           \A x \in data' : x \in data \/ (Sound(x) /\ node'[x.from].precursorsList)
    PROVE  Step
<1>1. \A x \in data' : Sound(x) /\ node'[x.from].precursorsList
  BY DEF IInv, Kept, Grows, Sound
<1> QED  BY <1>1 DEF IInv, Step

LEMMA TransmitLemma ==
    ASSUME IInv, NEW m, NEW out, Transmit(m, out), \A x \in out : InAir(x)
    PROVE  \A x \in air' : InAir(x)
<1>1. air' \subseteq air \cup out
  BY DEF Transmit
<1> QED  BY <1>1 DEF IInv

LEMMA LiveNode ==
    ASSUME IInv, NothingDue, NEW n \in Nodes
    PROVE  Live(node[n])
<1>1. node[n].routeTimer \subseteq Timer
  BY SaneFacts DEF IInv, Good
<1>2. \A t \in node[n].routeTimer : t.in \in Nat /\ t.in # 0
  BY <1>1 DEF NothingDue, RouteTimersDue, Timer
<1> QED  BY <1>2 DEF Live

LEMMA PacketFacts ==
    /\ Cardinality(Packets) \in Nat
    /\ \A p \in Packets : /\ p.src \in Nodes /\ p.dst \in Nodes
                          /\ p.id \in 1 .. Cardinality(Packets)
  BY AodvAssumption, FS_CardinalityType

\* GeneralPacketProcessing, of a node whose state is node[n] or an update of it.
LEMMA ProcessingStep ==
    ASSUME IInv, NEW n \in Nodes, NEW r, Good(n, r), Grows(node[n], r), NEW p \in Packets,
           GeneralPacketProcessing(n, r, p), born' \in 0 .. Cardinality(Packets)
    PROVE  Step
<1> DEFINE d == p.dst
           queued == Queue(r, p)
<1>1. d \in Nodes /\ Sane(n, r) /\ Listed(r)
  BY PacketFacts DEF Good
<1>2. \A x \in data' : x \in data \/ (CheckRouteFound(r, d) /\ x = Data(n, p, FindNextHop(r, d)))
  BY DEF GeneralPacketProcessing
<1>3. CASE CheckRouteFound(r, d)
  <2> DEFINE s == UpdateRouteTable(r, {d}, AODV_ACTIVE_ROUTE_TIMEOUT)
  <2>1. node' = [node EXCEPT ![n] = s] /\ UNCHANGED <<air, floods>>
    BY <1>3 DEF GeneralPacketProcessing
  <2>2. Sane(n, s) /\ Grows(r, s) /\ Listed(s) /\ SameRest(r, s)
    BY <1>1, UpdateLemma, ConstantFacts, HorizonFacts
  <2> HIDE DEF s
  <2>3. Good(n, s) /\ Grows(node[n], s)
    BY <2>2, GrowsTrans DEF Good
  <2>4. /\ node' = [k \in Nodes |-> node'[k]] /\ node'[n] = s /\ Kept
        /\ \A k \in Nodes : Good(k, node'[k])
    BY <2>1, <2>3, NodeStep
  <2>5. FindNextHop(r, d) \in Nodes /\ r.precursorsList
    BY <1>1, <1>3, NextHopLemma, InRangeFacts
  <2>6. \A x \in data' : x \in data \/ (Sound(x) /\ node'[x.from].precursorsList)
    <3>1. \A k \in Nodes : Sound(Data(n, p, k)) /\ Data(n, p, k).from = n
      BY DEF Data, Sound
    <3>2. s.precursorsList
      BY <2>2, <2>5 DEF SameRest
    <3> QED  BY <1>2, <2>4, <2>5, <3>1, <3>2
  <2>7. \A m \in air' : InAir(m)
    BY <2>1 DEF IInv
  <2>8. floods' \in 0 .. MaxFloods
    BY <2>1 DEF IInv
  <2> QED  BY <2>4, <2>6, <2>7, <2>8, StepLemma
<1>4. CASE ~CheckRouteFound(r, d)
  <2>1. /\ Almost(n, queued, d) /\ Grows(r, queued) /\ (Listed(r) => Listed(queued))
        /\ r.fifo[d] # {} => Sane(n, queued)
    BY <1>1, QueueLemma
  <2>2. \A x \in data' : x \in data \/ (Sound(x) /\ node'[x.from].precursorsList)
    BY <1>2, <1>4
  <2>3. CASE r.fifo[d] # {}
    <3>1. node' = [node EXCEPT ![n] = queued] /\ UNCHANGED <<air, floods>>
      BY <1>4, <2>3 DEF GeneralPacketProcessing, Queue
    <3> HIDE DEF queued
    <3>2. Good(n, queued) /\ Grows(node[n], queued)
      BY <1>1, <2>1, <2>3, GrowsTrans DEF Good
    <3>3. node' = [k \in Nodes |-> node'[k]] /\ Kept /\ \A k \in Nodes : Good(k, node'[k])
      BY <3>1, <3>2, NodeStep
    <3>4. floods' \in 0 .. MaxFloods /\ \A m \in air' : InAir(m)
      BY <3>1 DEF IInv
    <3> QED  BY <2>2, <3>3, <3>4, StepLemma
  <2>4. CASE r.fifo[d] = {}
    <3> DEFINE rreq == GenerateRREQ(n, queued, d)
    <3>1. /\ node' = [node EXCEPT ![n] = rreq.r] /\ Transmit({}, rreq.out)
          /\ floods < MaxFloods /\ floods' = floods + 1
      BY <1>4, <2>4 DEF GeneralPacketProcessing, Queue
    <3> HIDE DEF queued
    <3>2. Sane(n, rreq.r) /\ Grows(queued, rreq.r) /\ (Listed(queued) => Listed(rreq.r))
      BY <1>1, <2>1, GenerateLemma
    <3>3. \A x \in rreq.out : InAir(x)
      BY <1>1, <2>1, GenerateOut
    <3> HIDE DEF rreq
    <3>4. Good(n, rreq.r) /\ Grows(node[n], rreq.r)
      BY <1>1, <2>1, <3>2, GrowsTrans DEF Good
    <3>5. node' = [k \in Nodes |-> node'[k]] /\ Kept /\ \A k \in Nodes : Good(k, node'[k])
      BY <3>1, <3>4, NodeStep
    <3>6. \A m \in air' : InAir(m)
      BY <3>1, <3>3, TransmitLemma
    <3>7. floods' \in 0 .. MaxFloods
      BY <3>1, ConstantFacts DEF IInv
    <3> QED  BY <2>2, <3>5, <3>6, <3>7, StepLemma
  <2> QED  BY <2>3, <2>4
<1> QED  BY <1>3, <1>4

LEMMA OriginateStep ==
    ASSUME IInv, NEW p \in Packets, Originate(p)
    PROVE  Step
<1>1. born' = born + 1 /\ p.id = born + 1 /\ GeneralPacketProcessing(p.src, node[p.src], p)
  BY DEF Originate
<1>2. born' \in 0 .. Cardinality(Packets)
  BY <1>1, PacketFacts
<1>3. p.src \in Nodes /\ Good(p.src, node[p.src]) /\ Grows(node[p.src], node[p.src])
  BY PacketFacts DEF IInv, Grows
<1> QED  BY <1>1, <1>2, <1>3, ProcessingStep

LEMMA ReceiveDataStep ==
    ASSUME IInv, NEW x \in data, ReceiveData(x)
    PROVE  Step
<1> DEFINE n == x.to
           p == x.p
<1>1. p \in Packets /\ n \in Nodes /\ Good(n, node[n]) /\ born' \in 0 .. Cardinality(Packets)
  BY DEF IInv, Sound, ReceiveData
<1>2. Sane(n, node[n]) /\ Listed(node[n])
  BY <1>1 DEF Good
<1>3. ASSUME NEW ips, NEW s, s = UpdateRouteTable(node[n], ips, AODV_ACTIVE_ROUTE_TIMEOUT)
      PROVE  Good(n, s) /\ Grows(node[n], s)
  BY <1>2, <1>3, UpdateLemma, ConstantFacts, HorizonFacts DEF Good
<1>4. CASE n = p.dst
  <2> DEFINE s == UpdateRouteTable(node[n], {p.src}, AODV_ACTIVE_ROUTE_TIMEOUT)
  <2>1. node' = [node EXCEPT ![n] = s] /\ data' = data \ {x} /\ UNCHANGED <<air, floods>>
    <3>1. n \in DOMAIN node
      BY <1>1 DEF IInv
    <3> QED  BY <1>4, <3>1 DEF ReceiveData
  <2>2. Good(n, s) /\ Grows(node[n], s)
    BY <1>3
  <2> HIDE DEF s
  <2>3. node' = [k \in Nodes |-> node'[k]] /\ Kept /\ \A k \in Nodes : Good(k, node'[k])
    BY <1>1, <2>1, <2>2, NodeStep
  <2>4. floods' \in 0 .. MaxFloods /\ \A m \in air' : InAir(m)
    BY <2>1 DEF IInv
  <2>5. \A y \in data' : y \in data \/ (Sound(y) /\ node'[y.from].precursorsList)
    BY <2>1
  <2> QED  BY <1>1, <2>3, <2>4, <2>5, StepLemma
<1>5. CASE n # p.dst
  <2> DEFINE s == UpdateRouteTable(node[n], {p.dst, p.src}, AODV_ACTIVE_ROUTE_TIMEOUT)
  <2>1. GeneralPacketProcessing(n, s, p)
    BY <1>5 DEF ReceiveData
  <2>2. Good(n, s) /\ Grows(node[n], s)
    BY <1>3
  <2> HIDE DEF s
  <2> QED  BY <1>1, <2>1, <2>2, ProcessingStep
<1> QED  BY <1>4, <1>5

\* The state of a node that has seen request m.
Saw(r, m) == [r EXCEPT !.seen = @ \cup {<<m.org, m.oseq>>}, !.precursorsList = TRUE]
LEMMA SawLemma ==
    ASSUME NEW n, NEW r, Sane(n, r), NEW m, m.org \in Nodes, m.oseq \in Nat
    PROVE  LET s == Saw(r, m) IN Sane(n, s) /\ Grows(r, s) /\ s.precursorsList
<1> DEFINE s == Saw(r, m)
           seen == r.seen \cup {<<m.org, m.oseq>>}
<1>1. r \in NodeState(n)
  BY DEF Sane
<1>2. seen \in SUBSET (Nodes \X Nat)
  BY <1>1 DEF NodeState
<1>3. s = [r EXCEPT !.seen = seen, !.precursorsList = TRUE]
  BY <1>1 DEF Saw, NodeState
<1> HIDE DEF seen, s
<1>4. /\ s.route = r.route /\ s.routeTimer = r.routeTimer /\ s.rreqTimer = r.rreqTimer
      /\ s.fifo = r.fifo /\ s.sent = r.sent /\ s.precursorsList
  BY <1>1, <1>3 DEF NodeState
<1>5. s \in NodeState(n)
  BY <1>1, <1>2, <1>3 DEF NodeState
<1>6. Fifo(s) /\ \A x \in Nodes : Waits(s, x)
  BY <1>4 DEF Sane, Fifo, Waits
<1>7. Sane(n, s) /\ Grows(r, s)
  BY <1>4, <1>5, <1>6, SameRoute
<1> QED  BY <1>4, <1>7 DEF s

\* The state of a node that answers, its sequence number raised.
Raised(r) == [r EXCEPT !.nSequenceNumber = @ + 1]
LEMMA RaisedLemma ==
    ASSUME NEW n, NEW r, Sane(n, r)
    PROVE  LET s == Raised(r)
           IN  /\ Sane(n, s) /\ Grows(r, s) /\ s.precursorsList = r.precursorsList
               /\ s.nSequenceNumber \in Nat
<1> DEFINE s == Raised(r)
           seq == r.nSequenceNumber + 1
<1>1. r \in NodeState(n)
  BY DEF Sane
<1>2. seq \in Nat
  BY <1>1 DEF NodeState
<1>3. s = [r EXCEPT !.nSequenceNumber = seq]
  BY <1>1 DEF Raised, NodeState
<1> HIDE DEF seq, s
<1>4. /\ s.route = r.route /\ s.routeTimer = r.routeTimer /\ s.rreqTimer = r.rreqTimer
      /\ s.fifo = r.fifo /\ s.sent = r.sent /\ s.precursorsList = r.precursorsList
      /\ s.nSequenceNumber = seq
  BY <1>1, <1>3 DEF NodeState
<1>5. s \in NodeState(n)
  BY <1>1, <1>2, <1>3 DEF NodeState
<1>6. Fifo(s) /\ \A x \in Nodes : Waits(s, x)
  BY <1>4 DEF Sane, Fifo, Waits
<1>7. Sane(n, s) /\ Grows(r, s)
  BY <1>4, <1>5, <1>6, SameRoute
<1> QED  BY <1>2, <1>4, <1>7 DEF s

LEMMA ProcessRREQStep ==
    ASSUME IInv, NEW m \in air, m.type = "rreq", ProcessRREQ(m)
    PROVE  Step
<1> DEFINE n == m.to
           r0 == Saw(node[n], m)
           r1 == InsertInRouteTable(r0, m.org, m.oseq, m.hop, m.last, ReverseLife)
           r2 == TransmitFIFOBuffer(r1)
           r3 == Raised(r2)
<1>1. n \in Nodes /\ m \in RreqMsg /\ m.last \in InRange(n)
  BY KindLemma DEF IInv
<1>2. m.org \in Nodes /\ m.oseq \in Nat /\ m.hop \in Nat /\ m.dst \in Nodes
  BY <1>1 DEF RreqMsg
<1>3. Sane(n, node[n]) /\ n \in DOMAIN node
  BY <1>1 DEF IInv, Good
<1>4. /\ Saw(node[n], m) = [node[n] EXCEPT !.seen = @ \cup {<<m.org, m.oseq>>},
                                           !.precursorsList = TRUE]
      /\ Raised(r2) = [r2 EXCEPT !.nSequenceNumber = @ + 1]
  BY DEF Saw, Raised
<1>5. Sane(n, r0) /\ Grows(node[n], r0) /\ r0.precursorsList
  BY <1>2, <1>3, SawLemma
<1>6. born' = born /\ floods' = floods
  BY DEF ProcessRREQ
<1>7. CASE <<m.org, m.oseq>> \in node[n].seen
  <2>1. air' = air \ {m} /\ node' = node /\ data' = data
    BY <1>7 DEF ProcessRREQ
  <2>2. IInv'
    BY <1>6, <2>1 DEF IInv
  <2>3. Kept
    BY <2>1 DEF Kept, Grows
  <2> QED  BY <2>2, <2>3 DEF Step
<1>8. CASE <<m.org, m.oseq>> \notin node[n].seen
  <2>1. /\ data' = data \cup FifoData(n, r1)
        /\ \/ /\ node' = [node EXCEPT ![n] = r3]
              /\ Transmit({m}, Unicast(n, Rrep(n, m, r3.nSequenceNumber, 1, m.hop + 2)))
           \/ /\ node' = [node EXCEPT ![n] = r2]
              /\ Transmit({m}, IF CheckRouteFound(r2, m.dst)
                               THEN GenerateRREPByIntermediate(n, r2, m)
                               ELSE ForwardRREQ(n, m))
    BY <1>4, <1>8 DEF ProcessRREQ
  <2> HIDE DEF r0
  <2>2. ReverseLife \in Nat /\ ReverseLife <= Horizon
    BY ConstantFacts, HorizonFacts
  <2>3. Sane(n, r1) /\ Grows(r0, r1)
    BY <1>1, <1>2, <1>5, <2>2, InsertLemma
  <2> HIDE DEF r1
  <2>4. Sane(n, r2) /\ Grows(r1, r2)
    BY <2>3, ReleaseLemma
  <2> HIDE DEF r2
  <2>5. Grows(node[n], r2) /\ r2.precursorsList
    <3>1. Grows(node[n], r1)
      BY <1>5, <2>3, GrowsTrans
    <3>2. Grows(node[n], r2)
      BY <2>4, <3>1, GrowsTrans
    <3> QED  BY <1>5, <2>3, <2>4, <3>2 DEF Grows
  <2>6. /\ Sane(n, r3) /\ Grows(r2, r3) /\ r3.precursorsList = r2.precursorsList
        /\ r3.nSequenceNumber \in Nat
    BY <2>4, RaisedLemma
  <2> HIDE DEF r3
  <2>7. Good(n, r2) /\ Good(n, r3) /\ r3.precursorsList /\ Grows(node[n], r3)
    BY <2>4, <2>5, <2>6, GrowsTrans DEF Good, Listed
  <2>8. ASSUME NEW s, s = r2 \/ s = r3, node' = [node EXCEPT ![n] = s],
               NEW out, Transmit({m}, out), \A y \in out : InAir(y)
        PROVE  Step
    <3>1. Good(n, s) /\ s.precursorsList /\ Grows(node[n], s)
      BY <2>5, <2>7, <2>8
    <3>2. /\ node' = [k \in Nodes |-> node'[k]] /\ Kept /\ node'[n] = s
          /\ \A k \in Nodes : Good(k, node'[k])
      BY <1>1, <2>8, <3>1, NodeStep
    <3>3. \A y \in data' : y \in data \/ (Sound(y) /\ node'[y.from].precursorsList)
      BY <1>1, <2>1, <2>3, <3>1, <3>2, FifoDataLemma
    <3>4. \A y \in air' : InAir(y)
      BY <2>8, TransmitLemma
    <3>5. born' \in 0 .. Cardinality(Packets) /\ floods' \in 0 .. MaxFloods
      BY <1>6 DEF IInv
    <3> QED  BY <3>2, <3>3, <3>4, <3>5, StepLemma
  <2>9. \A y \in Unicast(n, Rrep(n, m, r3.nSequenceNumber, 1, m.hop + 2)) : InAir(y)
    <3>1. m.hop + 2 \in Int /\ 1 \in Nat
      BY <1>2
    <3> QED  BY <1>1, <2>6, <3>1, RrepLemma
  <2>10. \A y \in ForwardRREQ(n, m) : InAir(y)
    BY <1>1, ForwardRreqLemma
  <2>11. CheckRouteFound(r2, m.dst) => \A y \in GenerateRREPByIntermediate(n, r2, m) : InAir(y)
    BY <1>1, <2>4, IntermediateLemma
  <2> QED  BY <2>1, <2>8, <2>9, <2>10, <2>11
<1> QED  BY <1>7, <1>8

LEMMA SameNode ==
    ASSUME IInv, node' = node
    PROVE  /\ node' = [k \in Nodes |-> node'[k]] /\ Kept
           /\ \A k \in Nodes : Good(k, node'[k])
  BY DEF IInv, Kept, Grows

\* A reply about the node itself changes nothing there.
LEMMA OwnRREPStep ==
    ASSUME IInv, NEW m \in air, Transmit({m}, {}), UNCHANGED <<node, data, born, floods>>
    PROVE  Step
<1>1. \A y \in air' : InAir(y)
  <2>1. \A y \in {} : InAir(y)
    OBVIOUS
  <2> QED  BY <2>1, TransmitLemma
<1>2. born' \in 0 .. Cardinality(Packets) /\ floods' \in 0 .. MaxFloods
  BY DEF IInv
<1>3. \A y \in data' : y \in data \/ (Sound(y) /\ node'[y.from].precursorsList)
  OBVIOUS
<1> QED  BY <1>1, <1>2, <1>3, SameNode, StepLemma

\* With nothing due the route the reply brings can be used: the buffer of its
\* destination is empty when the entry of the sent table goes.
LEMMA OtherRREPStep ==
    ASSUME IInv, NothingDue, NEW m \in air, m.type = "rrep", ProcessRREP(m), m.dst # m.to
    PROVE  Step
<1> DEFINE n == m.to
           r1 == InsertInRouteTable(node[n], m.dst, m.dseq, m.hop, m.last,
                                    AODV_ACTIVE_ROUTE_TIMEOUT)
           t == TransmitFIFOBuffer(r1)
           r2 == AddPrecursor(t)
           r3 == IF m.hello THEN UpdateRouteTable(r2, {m.last}, HelloLife) ELSE r2
           s == Settle(n, r3, m)
           out == IF n = m.org THEN {} ELSE ForwardRREP(n, r3, m)
<1>1. n \in Nodes /\ m \in RrepMsg /\ m.last \in InRange(n)
  BY KindLemma DEF IInv
<1>2. m.dst \in Nodes /\ m.dseq \in Nat /\ m.hop \in Nat
  BY <1>1 DEF RrepMsg
<1>3. Sane(n, node[n]) /\ Live(node[n])
  BY <1>1, LiveNode DEF IInv, Good
<1>4. /\ data' = data \cup FifoData(n, r1) /\ node' = [node EXCEPT ![n] = s]
      /\ Transmit({m}, out) /\ born' = born /\ floods' = floods
  BY DEF ProcessRREP
<1>5. /\ AODV_ACTIVE_ROUTE_TIMEOUT \in Nat /\ AODV_ACTIVE_ROUTE_TIMEOUT <= Horizon
      /\ HelloLife \in Nat /\ HelloLife <= Horizon
  BY ConstantFacts, HorizonFacts
<1>6. Sane(n, r1) /\ Grows(node[n], r1) /\ Live(r1) /\ ValidAt(r1, m.dst) # {}
  BY <1>1, <1>2, <1>3, <1>5, InsertLemma
<1> HIDE DEF r1
<1>7. CheckRouteFound(r1, m.dst)
  BY <1>6, ValidIsFound
<1>8. Sane(n, t) /\ Grows(r1, t) /\ t.fifo[m.dst] = {}
  BY <1>2, <1>6, <1>7, ReleaseLemma
<1> HIDE DEF t
<1>9. Good(n, r2) /\ Grows(t, r2) /\ r2.precursorsList /\ r2.fifo[m.dst] = {}
  BY <1>8, PrecursorLemma
<1> HIDE DEF r2
<1>10. Good(n, r3) /\ Grows(r2, r3) /\ r3.precursorsList /\ r3.fifo[m.dst] = {}
  <2>1. CASE m.hello
    <3> DEFINE u == UpdateRouteTable(r2, {m.last}, HelloLife)
    <3>1. Sane(n, u) /\ Grows(r2, u) /\ SameRest(r2, u) /\ (Listed(r2) => Listed(u))
      BY <1>5, <1>9, UpdateLemma DEF Good
    <3>2. r3 = u
      BY <2>1
    <3> HIDE DEF u, r3
    <3> QED  BY <1>9, <3>1, <3>2 DEF Good, SameRest
  <2>2. CASE ~m.hello
    <3>1. r3 = r2
      BY <2>2
    <3> HIDE DEF r3
    <3> QED  BY <1>9, <3>1 DEF Grows
  <2> QED  BY <2>1, <2>2
<1> HIDE DEF r3
<1>11. Sane(n, s) /\ Grows(r3, s) /\ Listed(s) /\ s.precursorsList
  BY <1>2, <1>10, SettleLemma DEF Good
<1>12. \A y \in out : InAir(y)
  BY <1>1, <1>10, ForwardRrepLemma DEF Good
<1> HIDE DEF s, out
<1>13. Good(n, s) /\ Grows(node[n], s)
  <2>1. Grows(node[n], t)
    BY <1>6, <1>8, GrowsTrans
  <2>2. Grows(node[n], r2)
    BY <1>9, <2>1, GrowsTrans
  <2>3. Grows(node[n], r3)
    BY <1>10, <2>2, GrowsTrans
  <2> QED  BY <1>11, <2>3, GrowsTrans DEF Good
<1>14. /\ node' = [k \in Nodes |-> node'[k]] /\ Kept /\ node'[n] = s
       /\ \A k \in Nodes : Good(k, node'[k])
  BY <1>1, <1>4, <1>13, NodeStep
<1>15. \A y \in data' : y \in data \/ (Sound(y) /\ node'[y.from].precursorsList)
  BY <1>1, <1>4, <1>6, <1>11, <1>14, FifoDataLemma
<1>16. \A y \in air' : InAir(y)
  BY <1>4, <1>12, TransmitLemma
<1>17. born' \in 0 .. Cardinality(Packets) /\ floods' \in 0 .. MaxFloods
  BY <1>4 DEF IInv
<1> QED  BY <1>14, <1>15, <1>16, <1>17, StepLemma

LEMMA ProcessRREPStep ==
    ASSUME IInv, NothingDue, NEW m \in air, m.type = "rrep", ProcessRREP(m)
    PROVE  Step
<1>1. CASE m.dst = m.to
  <2>1. Transmit({m}, {}) /\ UNCHANGED <<node, data, born, floods>>
    BY <1>1 DEF ProcessRREP
  <2> QED  BY <2>1, OwnRREPStep
<1>2. CASE m.dst # m.to
  BY <1>2, OtherRREPStep
<1> QED  BY <1>1, <1>2

LEMMA HelloStep ==
    ASSUME IInv, NEW n \in Nodes, TransmitHelloMessage(n)
    PROVE  Step
<1> DEFINE m == [type |-> "rrep", to |-> n, ttl |-> 2, hop |-> 0, dst |-> n,
                 dseq |-> node[n].nSequenceNumber, org |-> n, last |-> n, hello |-> TRUE]
<1>1. /\ Transmit({}, Broadcast(n, m)) /\ node' = node /\ data' = data /\ born' = born
      /\ floods < MaxFloods /\ floods' = floods + 1
  BY DEF TransmitHelloMessage
<1>2. node[n].nSequenceNumber \in Nat
  BY SaneFacts DEF IInv, Good
<1>3. m \in RrepMsg /\ m.last = n
  BY <1>2 DEF RrepMsg
<1> HIDE DEF m
<1>4. \A x \in Broadcast(n, m) : InAir(x)
  BY <1>3, BroadcastLemma DEF Msg
<1>5. \A x \in air' : InAir(x)
  BY <1>1, <1>4, TransmitLemma
<1>6. born' \in 0 .. Cardinality(Packets) /\ floods' \in 0 .. MaxFloods
  BY <1>1, ConstantFacts DEF IInv
<1> QED  BY <1>1, <1>5, <1>6, SameNode, StepLemma

\* Positions of the table of a node and the destinations there.
LEMMA DstsLemma ==
    ASSUME NEW n, NEW r, Sane(n, r), NEW broken, broken \subseteq DOMAIN r.route
    PROVE  Dsts(r, broken) \in SUBSET Nodes
  BY SaneFacts DEF Dsts

Counted(r, k) == [r EXCEPT !.nRerrCount = k]
LEMMA CountedLemma ==
    ASSUME NEW n, NEW r, Sane(n, r), NEW k \in Nat
    PROVE  LET s == Counted(r, k)
           IN  Sane(n, s) /\ Grows(r, s) /\ (Listed(r) => Listed(s))
<1> DEFINE s == Counted(r, k)
<1>1. r \in NodeState(n)
  BY DEF Sane
<1>2. /\ s.route = r.route /\ s.routeTimer = r.routeTimer /\ s.rreqTimer = r.rreqTimer
      /\ s.fifo = r.fifo /\ s.sent = r.sent /\ s.precursorsList = r.precursorsList
  BY <1>1 DEF Counted, NodeState
<1>3. s \in NodeState(n)
  BY <1>1 DEF Counted, NodeState
<1> HIDE DEF s
<1>4. Fifo(s) /\ \A x \in Nodes : Waits(s, x)
  BY <1>2 DEF Sane, Fifo, Waits
<1>5. Sane(n, s) /\ Grows(r, s) /\ (Listed(r) => Listed(s))
  BY <1>2, <1>3, <1>4, SameRoute
<1> QED  BY <1>5 DEF s

LEMMA DropStep ==
    ASSUME IInv, NEW x \in data, PacketDropNotification(x)
    PROVE  Step
<1> DEFINE n == x.from
           r == node[n]
           broken == {i \in DOMAIN r.route : r.route[i].next = x.to}
<1>1. n \in Nodes /\ Sane(n, r) /\ Listed(r)
  BY DEF IInv, Sound, Good
<1>2. data' = data \ {x} /\ born' = born /\ floods' = floods
  BY DEF PacketDropNotification
<1>3. r.nRerrCount \in Nat /\ r.nRerrCount + 1 \in Nat /\ 2 \in Nat /\ RerrLimit \in Nat
  BY <1>1, SaneFacts, AodvAssumption, SMTT(30)
<1>4. ASSUME NEW s, Good(n, s), Grows(r, s), node' = [node EXCEPT ![n] = s],
             \A y \in air' : InAir(y)
      PROVE  Step
  <2>1. /\ node' = [k \in Nodes |-> node'[k]] /\ Kept
        /\ \A k \in Nodes : Good(k, node'[k])
    BY <1>1, <1>4, NodeStep
  <2>2. \A y \in data' : y \in data \/ (Sound(y) /\ node'[y.from].precursorsList)
    BY <1>2
  <2>3. born' \in 0 .. Cardinality(Packets) /\ floods' \in 0 .. MaxFloods
    BY <1>2 DEF IInv
  <2> QED  BY <1>4, <2>1, <2>2, <2>3, StepLemma
<1>5. CASE r.nRerrCount <= RerrLimit
  <2> DEFINE s == Counted(r, r.nRerrCount + 1)
  <2>1. node' = [node EXCEPT ![n] = s] /\ air' = air
    <3>1. ~(r.nRerrCount > RerrLimit)
      BY <1>3, <1>5
    <3> QED  BY <1>5, <3>1 DEF PacketDropNotification, Counted
  <2>2. Sane(n, s) /\ Grows(r, s) /\ Listed(s)
    BY <1>1, <1>3, CountedLemma
  <2> HIDE DEF s
  <2>3. \A y \in air' : InAir(y)
    BY <2>1 DEF IInv
  <2> QED  BY <1>4, <2>1, <2>2, <2>3 DEF Good
<1>6. CASE ~(r.nRerrCount <= RerrLimit)
  <2> DEFINE u == Counted(r, 2)
             s == Invalidate(u, broken)
             out == Rerr(n, Dsts(r, broken), AODV_NET_DIAMETER)
  <2>1. node' = [node EXCEPT ![n] = s] /\ Transmit({}, out)
    BY <1>6 DEF PacketDropNotification, Counted
  <2>2. Sane(n, u) /\ Grows(r, u) /\ Listed(u)
    BY <1>1, <1>3, CountedLemma
  <2>3. Dsts(r, broken) \in SUBSET Nodes
    BY <1>1, DstsLemma
  <2> HIDE DEF u, broken
  <2>4. Sane(n, s) /\ Grows(u, s) /\ Listed(s)
    BY <2>2, InvalidateLemma
  <2>5. \A y \in out : InAir(y)
    BY <1>1, <2>3, RerrLemma, ConstantFacts
  <2> HIDE DEF s, out
  <2>6. \A y \in air' : InAir(y)
    BY <2>1, <2>5, TransmitLemma
  <2>7. Good(n, s) /\ Grows(r, s)
    BY <2>2, <2>4, GrowsTrans DEF Good
  <2> QED  BY <1>4, <2>1, <2>6, <2>7
<1> QED  BY <1>5, <1>6

LEMMA ProcessRERRStep ==
    ASSUME IInv, NEW m \in air, m.type = "rerr", ProcessRERR(m)
    PROVE  Step
<1> DEFINE n == m.to
           table == node[n].route
           broken == {i \in DOMAIN table : table[i].dst \in m.dsts /\ table[i].next = m.src}
           s == Invalidate(node[n], broken)
           out == IF Dsts(node[n], broken) = {} THEN {} ELSE Rerr(n, m.dsts, m.ttl - 1)
<1>1. n \in Nodes /\ m \in RerrMsg /\ m.ttl \in Int
  BY KindLemma DEF IInv
<1>2. Sane(n, node[n]) /\ Listed(node[n]) /\ n \in DOMAIN node
  BY <1>1 DEF IInv, Good
<1>3. /\ node' = [node EXCEPT ![n] = s] /\ Transmit({m}, out)
      /\ data' = data /\ born' = born /\ floods' = floods
  BY <1>2 DEF ProcessRERR
<1>4. Sane(n, s) /\ Grows(node[n], s) /\ Listed(s)
  BY <1>2, InvalidateLemma
<1>5. m.ttl - 1 \in Int /\ m.dsts \in SUBSET Nodes
  BY <1>1 DEF RerrMsg
<1>6. \A y \in Rerr(n, m.dsts, m.ttl - 1) : InAir(y)
  BY <1>1, <1>5, RerrLemma
<1>7. \A y \in out : InAir(y)
  BY <1>6
<1> HIDE DEF s, out
<1>8. /\ node' = [k \in Nodes |-> node'[k]] /\ Kept
      /\ \A k \in Nodes : Good(k, node'[k])
  BY <1>1, <1>3, <1>4, NodeStep DEF Good
<1>9. \A y \in air' : InAir(y)
  BY <1>3, <1>7, TransmitLemma
<1>10. born' \in 0 .. Cardinality(Packets) /\ floods' \in 0 .. MaxFloods
  BY <1>3 DEF IInv
<1>11. \A y \in data' : y \in data \/ (Sound(y) /\ node'[y.from].precursorsList)
  BY <1>3
<1> QED  BY <1>8, <1>9, <1>10, <1>11, StepLemma

LEMMA RreqTimeoutStep ==
    ASSUME IInv, NEW n \in Nodes, NEW d \in Nodes, RreqTimeout(n, d)
    PROVE  Step
<1> DEFINE u == Fired(node[n], d)
           res == RetryRREQ(n, u, d)
<1>1. /\ node' = [node EXCEPT ![n] = res.r] /\ Transmit({}, res.out)
      /\ data' = data /\ born' = born /\ floods' = floods
  BY DEF RreqTimeout, Fired
<1>2. Sane(n, node[n]) /\ Listed(node[n])
  BY DEF IInv, Good
<1>3. Sane(n, res.r) /\ Grows(node[n], res.r) /\ Listed(res.r)
  BY <1>2, RetryLemma
<1>4. Almost(n, u, d)
  <2>1. u = Fired(node[n], d)
    OBVIOUS
  <2> HIDE DEF u
  <2> QED  BY <1>2, <2>1, FiredLemma
<1> HIDE DEF u
<1>5. \A y \in res.out : InAir(y)
  BY <1>4, RetryOut
<1> HIDE DEF res
<1>6. /\ node' = [k \in Nodes |-> node'[k]] /\ Kept
      /\ \A k \in Nodes : Good(k, node'[k])
  BY <1>1, <1>3, NodeStep DEF Good
<1>7. \A y \in air' : InAir(y)
  BY <1>1, <1>5, TransmitLemma
<1>8. born' \in 0 .. Cardinality(Packets) /\ floods' \in 0 .. MaxFloods
  BY <1>1 DEF IInv
<1>9. \A y \in data' : y \in data \/ (Sound(y) /\ node'[y.from].precursorsList)
  BY <1>1
<1> QED  BY <1>6, <1>7, <1>8, <1>9, StepLemma

LEMMA TickStep ==
    ASSUME IInv, Tick
    PROVE  Step
<1>1. /\ node' = [k \in Nodes |-> Older(node[k])]
      /\ air' = air /\ data' = data /\ born' = born /\ floods' = floods
  BY DEF Tick
<1>2. node' = [k \in Nodes |-> node'[k]]
  BY <1>1
<1>3. \A k \in Nodes : Good(k, node'[k]) /\ Grows(node[k], node'[k])
  <2>1. SUFFICES ASSUME NEW k \in Nodes PROVE Good(k, node'[k]) /\ Grows(node[k], node'[k])
    OBVIOUS
  <2>2. node'[k] = Older(node[k]) /\ Sane(k, node[k]) /\ Listed(node[k])
    BY <1>1 DEF IInv, Good
  <2> QED  BY <2>2, OlderLemma DEF Good
<1>4. Kept
  BY <1>3 DEF Kept
<1>5. \A y \in air' : InAir(y)
  BY <1>1 DEF IInv
<1>6. born' \in 0 .. Cardinality(Packets) /\ floods' \in 0 .. MaxFloods
  BY <1>1 DEF IInv
<1>7. \A y \in data' : y \in data \/ (Sound(y) /\ node'[y.from].precursorsList)
  BY <1>1
<1> QED  BY <1>2, <1>3, <1>4, <1>5, <1>6, <1>7, StepLemma

\* What EarlyRemovalNeedsStale says of one step.
Explained(n, d) ==
    /\ CheckRouteFound(node[n], d) /\ ~CheckRouteFound(node'[n], d)
    /\ Cardinality(EntriesAt(node'[n], d)) < Cardinality(EntriesAt(node[n], d))
    => ~FirstEntry(node[n], d).valid

LEMMA RouteTimeoutStep ==
    ASSUME IInv, NEW n \in Nodes, NEW t \in RouteTimersDue(n), ActiveRouteTimeout(n, t)
    PROVE  IInv' /\ \A k, d \in Nodes : Explained(k, d)
<1> DEFINE r == node[n]
           s == Expire(Without(r, t), t.dst)
<1>1. Sane(n, r) /\ Listed(r) /\ t \in r.routeTimer
  BY DEF IInv, Good, RouteTimersDue
<1>2. /\ node' = [node EXCEPT ![n] = s]
      /\ air' = air /\ data' = data /\ born' = born /\ floods' = floods
  BY DEF ActiveRouteTimeout, Without
<1>3. /\ Sane(n, s) /\ s.precursorsList = r.precursorsList
      /\ Listed(s)
      /\ \A d \in Nodes : CheckRouteFound(r, d) /\ FirstEntry(r, d).valid
                           => CheckRouteFound(s, d)
  <2>1. s = Expire(Without(r, t), t.dst)
    OBVIOUS
  <2> HIDE DEF s
  <2> QED  BY <1>1, <2>1, ExpireLemma
<1> HIDE DEF s
<1>4. /\ node' = [k \in Nodes |-> node'[k]] /\ node'[n] = s
      /\ \A k \in Nodes : Good(k, node'[k])
      /\ \A k \in Nodes \ {n} : node'[k] = node[k]
  BY <1>2, <1>3, NodeStep DEF Good
<1>5. \A x \in data' : Sound(x) /\ node'[x.from].precursorsList
  BY <1>2, <1>3, <1>4 DEF IInv, Sound
<1>6. IInv'
  BY <1>2, <1>4, <1>5 DEF IInv
<1>7. ASSUME NEW k \in Nodes, NEW d \in Nodes PROVE Explained(k, d)
  <2>1. CASE k = n
    BY <1>3, <1>4, <2>1 DEF Explained
  <2>2. CASE k # n
    BY <1>4, <2>2 DEF Explained
  <2> QED  BY <2>1, <2>2
<1> QED  BY <1>6, <1>7

\* A step that keeps the entries removes none.
LEMMA KeptExplained ==
    ASSUME Step, NEW n \in Nodes, NEW d \in Nodes
    PROVE  Explained(n, d)
<1> DEFINE S == EntriesAt(node[n], d)
           T == EntriesAt(node'[n], d)
<1>1. S \subseteq T
  BY DEF Step, Kept, Grows, EntriesAt
<1>2. node'[n].route \in Seq(Entry(n))
  BY SaneFacts DEF Step, IInv, Good
<1>3. IsFiniteSet(T)
  <2>1. DOMAIN node'[n].route = 1 .. Len(node'[n].route) /\ Len(node'[n].route) \in Nat
    BY <1>2, LenProperties
  <2>2. IsFiniteSet(1 .. Len(node'[n].route))
    BY <2>1, FS_Interval
  <2>3. T \subseteq 1 .. Len(node'[n].route)
    BY <2>1 DEF EntriesAt
  <2> QED  BY <2>2, <2>3, FS_Subset
<1>4. Cardinality(S) \in Nat /\ Cardinality(T) \in Nat /\ Cardinality(S) <= Cardinality(T)
  BY <1>1, <1>3, FS_Subset, FS_CardinalityType
<1>5. ~(Cardinality(T) < Cardinality(S))
  BY <1>4
<1> QED  BY <1>5 DEF Explained

-----------------------------------------------------------------------------
LEMMA InitIInv == Init => IInv
<1> SUFFICES ASSUME Init PROVE IInv
  OBVIOUS
<1> DEFINE r == [route |-> << >>, routeTimer |-> {}, fifo |-> [d \in Nodes |-> {}],
                 sent |-> [d \in Nodes |-> NoEntry], rreqTimer |-> [d \in Nodes |-> {}],
                 nSequenceNumber |-> 0, seen |-> {}, precursorsList |-> FALSE,
                 nRerrCount |-> 0]
<1>1. node = [n \in Nodes |-> r] /\ air = {} /\ data = {} /\ born = 0 /\ floods = 0
  BY DEF Init
<1>2. ASSUME NEW n PROVE Good(n, r)
  <2>1. << >> \in Seq(Entry(n)) /\ DOMAIN << >> = {} /\ NoEntry \in SentEntry
    BY DEF SentEntry
  <2>2. r \in NodeState(n)
    BY <2>1 DEF NodeState
  <2>3. /\ r.route = << >> /\ r.routeTimer = {} /\ r.fifo = [d \in Nodes |-> {}]
    OBVIOUS
  <2> HIDE DEF r
  <2>4. Timed(r) /\ LastValid(r)
    BY <2>1, <2>3 DEF Timed, TimedRoute, LastValid, OneValid
  <2>5. Fifo(r) /\ Listed(r) /\ \A d \in Nodes : Waits(r, d)
    BY <2>3 DEF Fifo, Listed, Waits
  <2> QED  BY <2>2, <2>4, <2>5 DEF Good, Sane
<1> HIDE DEF r
<1>3. node = [n \in Nodes |-> node[n]] /\ \A n \in Nodes : Good(n, node[n])
  BY <1>1, <1>2
<1> QED  BY <1>1, <1>3, PacketFacts, ConstantFacts DEF IInv

LEMMA NextIInv ==
    ASSUME IInv, Next
    PROVE  IInv' /\ \A n, d \in Nodes : Explained(n, d)
<1>1. CASE Step
  BY <1>1, KeptExplained DEF Step
<1>2. CASE TimerEvent
  <2>1. ASSUME NEW n \in Nodes, NEW d \in RreqTimersDue(n), RreqTimeout(n, d) PROVE Step
    BY <2>1, RreqTimeoutStep DEF RreqTimersDue
  <2> QED  BY <1>1, <1>2, <2>1, RouteTimeoutStep DEF TimerEvent
<1>3. CASE Tick
  BY <1>1, <1>3, TickStep
<1>4. CASE DataEvent
  BY <1>1, <1>4, ReceiveDataStep, DropStep DEF DataEvent
<1>5. CASE \E p \in Packets : Originate(p)
  BY <1>1, <1>5, OriginateStep
<1>6. CASE NothingDue /\ \E m \in air : Receive(m)
  BY <1>1, <1>6, ProcessRREQStep, ProcessRREPStep, ProcessRERRStep DEF Receive
<1>7. CASE \E n \in Nodes : TransmitHelloMessage(n)
  BY <1>1, <1>7, HelloStep
<1> QED  BY <1>2, <1>3, <1>4, <1>5, <1>6, <1>7 DEF Next

LEMMA StutterIInv ==
    ASSUME IInv, UNCHANGED vars
    PROVE  IInv' /\ \A n, d \in Nodes : Explained(n, d)
<1>1. node' = node /\ air' = air /\ data' = data /\ born' = born /\ floods' = floods
  BY DEF vars
<1>2. IInv'
  BY <1>1 DEF IInv
<1> QED  BY <1>1, <1>2 DEF Explained

LEMMA Inductive == Spec => []IInv
<1>1. Init => IInv
  BY InitIInv
<1>2. IInv /\ [Next]_vars => IInv'
  BY NextIInv, StutterIInv
<1> QED  BY <1>1, <1>2, PTL DEF Spec

\* The tables hold what their declarations say, the next hop of every route is
\* a neighbour and no entry outlives the longest lifetime.
THEOREM TypeCorrect == Spec => []TypeOK
<1>1. IInv => TypeOK
  <2> SUFFICES ASSUME IInv PROVE TypeOK
    OBVIOUS
  <2>1. \A x \in data : x.p \in Packets /\ {x.from, x.to} \subseteq Nodes
    BY DEF IInv, Sound
  <2>2. \A m \in air : m.type \in {"rreq", "rrep", "rerr"} /\ m.to \in Nodes /\ m.ttl > 1
    <3>1. \A m : m \in RreqMsg \/ m \in RrepMsg \/ m \in RerrMsg
                 => m.type \in {"rreq", "rrep", "rerr"}
      BY DEF RreqMsg, RrepMsg, RerrMsg
    <3> QED  BY <3>1, KindLemma DEF IInv, InAir
  <2>3. ASSUME NEW n \in Nodes, NEW i \in DOMAIN node[n].route
        PROVE  LET e == node[n].route[i]
               IN  /\ e.dst \in Nodes /\ e.next \in InRange(n)
                   /\ e.life \in 0 .. Horizon /\ e.seq \in Nat /\ e.hop \in Nat
    <3>1. node[n].route[i] \in Entry(n)
      BY SaneFacts DEF IInv, Good
    <3>2. \A e \in Entry(n) : /\ e.dst \in Nodes /\ e.next \in InRange(n)
                              /\ e.life \in 0 .. Horizon /\ e.seq \in Nat /\ e.hop \in Nat
      BY DEF Entry
    <3> QED  BY <3>1, <3>2
  <2>4. ASSUME NEW n \in Nodes, NEW d \in Nodes
        PROVE  node[n].fifo[d] \subseteq {p \in Packets : p.dst = d}
    <3>1. node[n].fifo \in [Nodes -> SUBSET Packets] /\ Fifo(node[n])
      BY SaneFacts DEF IInv, Good, Sane
    <3> QED  BY <3>1 DEF Fifo
  <2> QED  BY <2>1, <2>2, <2>3, <2>4 DEF TypeOK, IInv
<1> QED  BY <1>1, Inductive, PTL

\* A packet in the FIFO buffer has a request out for its destination and the
\* timeout of that request pending: it is not forgotten when the reply is lost.
THEOREM QueuedHasTimer == Spec => []WaitingHasTimer
<1>1. IInv => WaitingHasTimer
  BY DEF IInv, Good, Sane, Waits, WaitingHasTimer
<1> QED  BY <1>1, Inductive, PTL

\* A node that reports a lost packet has the precursor list GenerateRERR reads.
THEOREM LossFindsList == Spec => []ErrorFindsPrecursors
<1>1. IInv => ErrorFindsPrecursors
  BY DEF IInv, ErrorFindsPrecursors
<1> QED  BY <1>1, Inductive, PTL

\* A route in force goes before its lifetime ends only behind an invalid entry
\* of its destination: the loop of the timeout keeps the first entry if alive,
\* and a valid entry is the last of its destination.
THEOREM EarlyOnlyBehindStale == Spec => EarlyRemovalNeedsStale
<1>1. IInv /\ [Next]_vars => [\A n, d \in Nodes : Explained(n, d)]_vars
  BY NextIInv
<1>2. Spec => [][\A n, d \in Nodes : Explained(n, d)]_vars
  BY <1>1, Inductive, PTL DEF Spec
<1> QED  BY <1>2 DEF EarlyRemovalNeedsStale, Explained
=============================================================================
