-------------------------------- MODULE Aodv --------------------------------
(***************************************************************************)
(* AODV routing: discovery of routes for the data packets of a set of      *)
(* nodes, the expanding ring of route requests and its timer, the route    *)
(* table and its timers, hello messages and route errors.                  *)
(*                                                                         *)
(* Times are durations in ticks, counted down by Tick; the entries of a    *)
(* table, the timers of a node and the messages of the network are as the  *)
(* code has them.  Left out, since nothing reads them: the destination     *)
(* sequence number of a request, the contents of the precursor list, the   *)
(* times of the seen table.  RREQID is the originator's sequence number,   *)
(* which every request raises.  The Lifetime of a reply is a duration that *)
(* AODV_UPDATE_ROUTE_TABLE takes for a time: after the first six seconds,  *)
(* where the model is, it changes nothing; a hello's is a time.            *)
(***************************************************************************)
EXTENDS Integers, Sequences, SequencesExt, FiniteSetsExt

CONSTANTS
    Nodes, Links,           \* the devices, and the set of pairs in range
    Packets,                \* data packets [src, dst, id], ids from 1
    AODV_TTL_START, AODV_TTL_INCREMENT, AODV_TTL_THRESHOLD,
    AODV_NET_DIAMETER, AODV_RREQ_RETRIES,
    RerrLimit,              \* 10: losses before a route error
    AODV_ACTIVE_ROUTE_TIMEOUT, AODV_DELETE_PERIOD, ReverseLife, HelloLife,
    RingTime,               \* AODV_RING_TRAVERSAL_TIME, of any ring
    AODV_NET_TRAVERSAL_TIME,
    MaxFloods,              \* bound on the requests of GenerateRREQ and hellos
    MaxAir                  \* bound on the control messages in the air

ASSUME AodvAssumption ==
    /\ Links \subseteq Nodes \X Nodes /\ IsFiniteSet(Packets)
    /\ \A p \in Packets : /\ p.src \in Nodes /\ p.dst \in Nodes \ {p.src}
                          /\ p.id \in 1 .. Cardinality(Packets)
    /\ {AODV_TTL_START, AODV_TTL_INCREMENT, RingTime, ReverseLife, HelloLife,
        AODV_ACTIVE_ROUTE_TIMEOUT, AODV_DELETE_PERIOD,
        AODV_NET_TRAVERSAL_TIME} \subseteq Nat \ {0}
    /\ {AODV_RREQ_RETRIES, AODV_NET_DIAMETER, RerrLimit, MaxFloods, MaxAir} \subseteq Nat
    /\ AODV_TTL_THRESHOLD \in 1 .. AODV_NET_DIAMETER - 1

VARIABLES
    node,           \* the AODV_DEVICE_VAR of each node and its timers
    air,            \* control messages in the air
    data,           \* data packets in the air: [p, from, to]
    born,           \* packets the applications have sent
    floods          \* history: requests of GenerateRREQ and hello messages

vars == <<node, air, data, born, floods>>

NoEntry == [times |-> 0, ttl |-> 0, due |-> 0]
Above(a, b) == IF a > b THEN a ELSE b

\* route: entries [dst, seq, hop, next, valid, life] (the flag of the sequence
\* number is seq # 0); routeTimer: pending ACTIVE_ROUTE_TIMEOUT events
\* [dst, in]; sent: the RREQ sent table; rreqTimer: pending RREQ_TIMEOUT events.
Init ==
    /\ node = [n \in Nodes |->
         [route |-> << >>, routeTimer |-> {}, fifo |-> [d \in Nodes |-> {}],
          sent |-> [d \in Nodes |-> NoEntry], rreqTimer |-> [d \in Nodes |-> {}],
          nSequenceNumber |-> 0, seen |-> {}, precursorsList |-> FALSE,
          nRerrCount |-> 0]]
    /\ air = {} /\ data = {} /\ born = 0 /\ floods = 0

----------------------------------------------------------------------------
(* The route table of a node r. *)

EntriesAt(r, d) == {i \in DOMAIN r.route : r.route[i].dst = d}
FirstEntry(r, d) == r.route[Min(EntriesAt(r, d))]
ValidAt(r, d) == {i \in EntriesAt(r, d) : r.route[i].valid}

CheckRouteFound(r, d) == \E i \in ValidAt(r, d) : r.route[i].life > 0

FindNextHop(r, d) == r.route[Min(ValidAt(r, d))].next

fnFindSequenceNumber(r, d) ==
    IF EntriesAt(r, d) = {} THEN 0 ELSE FirstEntry(r, d).seq

\* Mutant: the reverse route kept under the originator instead of the last hop.
InsertInRouteTable_Origin(r, ip, seq, hop, nextHop, life) ==
    [r EXCEPT
      !.route = Append(SelectSeq(@, LAMBDA e : e.dst # ip),
                       [dst |-> ip, seq |-> seq, hop |-> hop, next |-> ip,
                        valid |-> TRUE, life |-> life]),
      !.routeTimer = @ \cup {[dst |-> ip, in |-> life]}]

\* An existing entry keeps its NextHop.
InsertInRouteTable(r, ip, seq, hop, nextHop, life) ==
    IF ValidAt(r, ip) = {}
    THEN [r EXCEPT
           !.route = Append(@, [dst |-> ip, seq |-> seq, hop |-> hop,
                                next |-> nextHop, valid |-> TRUE,
                                life |-> Above(AODV_ACTIVE_ROUTE_TIMEOUT, life)]),
           !.routeTimer = @ \cup {[dst |-> ip, in |-> AODV_ACTIVE_ROUTE_TIMEOUT]}]
    ELSE LET i == Min(ValidAt(r, ip))
             e == r.route[i]
         IN  IF e.seq = 0 \/ e.seq < seq \/ (e.seq = seq /\ hop + 1 < e.hop)
             THEN [r EXCEPT !.route[i] = [e EXCEPT !.seq = seq, !.hop = hop,
                                                   !.life = Above(e.life, life)]]
             ELSE r

\* The entries with NextHop or destination in ips.
Extended(e, life) == [e EXCEPT !.life = Above(@, life)]
UpdateRouteTable(r, ips, life) ==
    [r EXCEPT !.route = [i \in DOMAIN @ |->
        IF @[i].next \in ips \/ @[i].dst \in ips THEN Extended(@[i], life) ELSE @[i]]]

\* The entries at the positions broken.
Invalidate(r, broken) ==
    [r EXCEPT !.route = [i \in DOMAIN @ |->
        IF i \in broken
        THEN [@[i] EXCEPT !.valid = FALSE, !.life = AODV_DELETE_PERIOD] ELSE @[i]]]

\* Mutant: all entries of the destination go.
Expire_Always(r, d) ==
    [r EXCEPT !.route = SelectSeq(@, LAMBDA e : e.dst # d)]

\* An entry of d that has expired is removed, for any other a new event is added
\* at its Lifetime, which becomes the time the entries after it are compared with.
Visit(acc, e, d) ==
    IF e.dst # d THEN [acc EXCEPT !.route = Append(@, e)]
    ELSE IF e.life <= acc.time THEN acc
    ELSE [route |-> Append(acc.route, e), time |-> e.life,
          timers |-> acc.timers \cup {[dst |-> d, in |-> e.life]}]

\* The entries in turn.
Visited(route, d) ==
    LET after[i \in 0 .. Len(route)] ==
            IF i = 0 THEN [route |-> << >>, time |-> 0, timers |-> {}]
            ELSE Visit(after[i - 1], route[i], d)
    IN  after
Expire(r, d) ==
    LET end == Visited(r.route, d)[Len(r.route)]
    IN  [r EXCEPT !.route = end.route, !.routeTimer = @ \cup end.timers]

----------------------------------------------------------------------------
(* Messages.  A broadcast is heard by any of the nodes in range; a packet or *)
(* a unicast may be lost as well.                                            *)

InRange(n) == {k \in Nodes : <<n, k>> \in Links \/ <<k, n>> \in Links}

Broadcast(n, m) ==
    IF m.ttl > 1 THEN {[m EXCEPT !.to = k] : k \in InRange(n)} ELSE {}
Unicast(n, m) == IF m.ttl > 1 /\ m.to \in InRange(n) THEN {m} ELSE {}

\* The control messages out are sent and m is off the air.
Transmit(m, out) ==
    \E heard \in SUBSET out :
        /\ Cardinality((air \ m) \cup heard) <= MaxAir
        /\ air' = (air \ m) \cup heard

Data(n, p, k) == [p |-> p, from |-> n, to |-> k]

Rreq(n, r, d, ttl) ==
    [type |-> "rreq", to |-> n, ttl |-> ttl, hop |-> 0, org |-> n,
     oseq |-> r.nSequenceNumber, dst |-> d, last |-> n]

----------------------------------------------------------------------------
(* Discovery: the expanding ring. *)

fnIncreaseTTL(r, d) ==
    LET ttl == r.sent[d].ttl
    IN  IF r.sent[d] = NoEntry THEN AODV_TTL_START
        ELSE IF ttl >= AODV_TTL_THRESHOLD THEN AODV_NET_DIAMETER
        ELSE Min({ttl + AODV_TTL_INCREMENT, AODV_TTL_THRESHOLD})

fnGetTimeoutTime(ttl, count) ==
    IF ttl # AODV_NET_DIAMETER THEN RingTime ELSE count * AODV_NET_TRAVERSAL_TIME

\* A request with time to live ttl, sent again after time: the sequence number,
\* the seen table, the timeout event and the sent table.
Requested(n, r, d, ttl, time) ==
    LET seq == r.nSequenceNumber + 1
        times == IF r.sent[d] = NoEntry THEN 1 ELSE r.sent[d].times
    IN  [r EXCEPT
          !.nSequenceNumber = seq,
          !.seen = @ \cup {<<n, seq>>},
          !.rreqTimer[d] = @ \cup {time},
          !.sent[d] = [times |-> times + (IF ttl = AODV_NET_DIAMETER THEN 1 ELSE 0),
                       ttl |-> ttl, due |-> time]]

GenerateRREQ(n, r, d) ==
    LET ttl == fnIncreaseTTL(r, d) + 1
        r1 == Requested(n, r, d, ttl, fnGetTimeoutTime(ttl, 1))
    IN  [r |-> r1, out |-> Broadcast(n, Rreq(n, r1, d, ttl + 1))]

\* Mutant: only the sent table is cleared.
GiveUp_KeepsFifo(r, d) == [r EXCEPT !.sent[d] = NoEntry]

\* fnDeleteRREQSentTable and fnEmptyFIFOBuffer: the packets are dropped.
GiveUp(r, d) == [r EXCEPT !.sent[d] = NoEntry, !.fifo[d] = {}]

\* RetryRREQ, on a due timer: the reply came (no entry), a later request was
\* sent, the retries are used up, or another request.
RetryRREQ(n, r, d) ==
    LET ttl == fnIncreaseTTL(r, d)
        r1 == Requested(n, r, d, ttl, fnGetTimeoutTime(ttl + 1, r.sent[d].times))
    IN  IF r.sent[d] = NoEntry \/ r.sent[d].due > 0 THEN [r |-> r, out |-> {}]
        ELSE IF r.sent[d].times > AODV_RREQ_RETRIES
        THEN [r |-> GiveUp(r, d), out |-> {}]
        ELSE [r |-> r1, out |-> Broadcast(n, Rreq(n, r1, d, ttl + 1))]

----------------------------------------------------------------------------
(* Data packets. *)

\* GeneralPacketProcessing of packet p: sent to the next hop, queued behind
\* others for which a request is out, or queued and a request sent.
GeneralPacketProcessing(n, r, p) ==
    LET d == p.dst
        queued == [r EXCEPT !.fifo[d] = @ \cup {p}]
        found == CheckRouteFound(r, d)
        rreq == GenerateRREQ(n, queued, d)
    IN  /\ data' = (data \ {x \in data : x.p = p})
                     \cup (IF found THEN {Data(n, p, FindNextHop(r, d))} ELSE {})
        /\ \/ /\ found
              /\ node' = [node EXCEPT ![n] =
                              UpdateRouteTable(r, {d}, AODV_ACTIVE_ROUTE_TIMEOUT)]
              /\ UNCHANGED <<air, floods>>
           \/ /\ ~found /\ r.fifo[d] # {}
              /\ node' = [node EXCEPT ![n] = queued]
              /\ UNCHANGED <<air, floods>>
           \/ /\ ~found /\ r.fifo[d] = {}
              /\ floods < MaxFloods /\ floods' = floods + 1
              /\ node' = [node EXCEPT ![n] = rreq.r]
              /\ Transmit({}, rreq.out)

\* TransmitFIFOBuffer, with the NETWORK_OUT events of the packets it releases.
Released(r) == {d \in Nodes : r.fifo[d] # {} /\ CheckRouteFound(r, d)}
TransmitFIFOBuffer(r) ==
    [UpdateRouteTable(r, Released(r), AODV_ACTIVE_ROUTE_TIMEOUT) EXCEPT
        !.fifo = [d \in Nodes |-> IF d \in Released(r) THEN {} ELSE @[d]]]
FifoData(n, r) ==
    UNION {{Data(n, p, FindNextHop(r, d)) : p \in r.fifo[d]} : d \in Released(r)}

\* NETWORK_OUT of a packet of the application.
Originate(p) ==
    /\ p.id = born + 1
    /\ born' = born + 1
    /\ GeneralPacketProcessing(p.src, node[p.src], p)

\* NETWORK_IN of a data packet: at its destination, or on the way, where IP
\* routes it again.
ReceiveData(x) ==
    /\ \/ /\ x.to = x.p.dst
          /\ node' = [node EXCEPT ![x.to] =
                 UpdateRouteTable(@, {x.p.src}, AODV_ACTIVE_ROUTE_TIMEOUT)]
          /\ data' = data \ {x}
          /\ UNCHANGED <<air, floods>>
       \/ /\ x.to # x.p.dst
          /\ GeneralPacketProcessing(x.to,
                 UpdateRouteTable(node[x.to], {x.p.dst, x.p.src},
                                  AODV_ACTIVE_ROUTE_TIMEOUT), x.p)
    /\ UNCHANGED born

----------------------------------------------------------------------------
(* Requests and replies.  IP takes one off the time to live on reception. *)

ForwardRREQ(n, m) ==
    IF m.ttl - 1 = 1 THEN {}
    ELSE Broadcast(n, [m EXCEPT !.ttl = @ - 1, !.hop = @ + 1, !.last = n])

Rrep(n, m, seq, hop, ttl) ==
    [type |-> "rrep", to |-> m.last, ttl |-> ttl, hop |-> hop, dst |-> m.dst,
     dseq |-> seq, org |-> m.org, last |-> n, hello |-> FALSE]

\* GenerateRREPByIntermediate takes the first entry, also one no longer valid.
GenerateRREPByIntermediate(n, r, m) ==
    LET table == FirstEntry(r, m.dst)
    IN  IF table.next = m.last THEN ForwardRREQ(n, m)
        ELSE Unicast(n, Rrep(n, m, fnFindSequenceNumber(r, m.dst), table.hop,
                             AODV_NET_DIAMETER))

ProcessRREQ(m) ==
    LET n == m.to
        r0 == [node[n] EXCEPT !.seen = @ \cup {<<m.org, m.oseq>>},
                              !.precursorsList = TRUE]
        r1 == InsertInRouteTable(r0, m.org, m.oseq, m.hop, m.last, ReverseLife)
        r2 == TransmitFIFOBuffer(r1)
        r3 == [r2 EXCEPT !.nSequenceNumber = @ + 1]
    IN  \/ /\ <<m.org, m.oseq>> \in node[n].seen
           /\ air' = air \ {m}
           /\ UNCHANGED <<node, data, born, floods>>
        \/ /\ <<m.org, m.oseq>> \notin node[n].seen
           /\ data' = data \cup FifoData(n, r1)
           /\ \/ /\ n = m.dst
                 /\ node' = [node EXCEPT ![n] = r3]
                 /\ Transmit({m}, Unicast(n, Rrep(n, m, r3.nSequenceNumber, 1,
                                                  m.hop + 2)))
              \/ /\ n # m.dst
                 /\ node' = [node EXCEPT ![n] = r2]
                 /\ Transmit({m}, IF CheckRouteFound(r2, m.dst)
                                  THEN GenerateRREPByIntermediate(n, r2, m)
                                  ELSE ForwardRREQ(n, m))
           /\ UNCHANGED <<born, floods>>

ForwardRREP(n, r, m) ==
    IF CheckRouteFound(r, m.org) /\ ~m.hello
    THEN Unicast(n, [m EXCEPT !.to = FindNextHop(r, m.org), !.hop = @ + 1,
                              !.last = n, !.ttl = @ - 1])
    ELSE {}

\* Mutant: any reply clears the sent table.
Settle_AnyReply(n, r, m) == [r EXCEPT !.sent = [d \in Nodes |-> NoEntry]]

\* The entry of the sent table a reply to this node settles.
Settle(n, r, m) == IF n = m.org THEN [r EXCEPT !.sent[m.dst] = NoEntry] ELSE r

\* Mutant: replies add no precursor.
AddPrecursor_Never(r) == r

\* AODV_INSERT_PRECURSOR: the list exists from the first one on.
AddPrecursor(r) == [r EXCEPT !.precursorsList = TRUE]

\* A reply about the node itself, which a route of its originator can lead
\* here, is given up unread.
ProcessRREP(m) ==
    LET n == m.to
        r1 == InsertInRouteTable(node[n], m.dst, m.dseq, m.hop, m.last,
                                 AODV_ACTIVE_ROUTE_TIMEOUT)
        r2 == AddPrecursor(TransmitFIFOBuffer(r1))
        r3 == IF m.hello THEN UpdateRouteTable(r2, {m.last}, HelloLife) ELSE r2
    IN  \/ /\ m.dst = n
           /\ Transmit({m}, {})
           /\ UNCHANGED <<node, data, born, floods>>
        \/ /\ m.dst # n
           /\ data' = data \cup FifoData(n, r1)
           /\ node' = [node EXCEPT ![n] = Settle(n, r3, m)]
           /\ Transmit({m}, IF n = m.org THEN {} ELSE ForwardRREP(n, r3, m))
           /\ UNCHANGED <<born, floods>>

\* The hello timer; its period is left out.
TransmitHelloMessage(n) ==
    /\ node[n].route # << >>
    /\ floods < MaxFloods /\ floods' = floods + 1
    /\ Transmit({}, Broadcast(n,
           [type |-> "rrep", to |-> n, ttl |-> 2, hop |-> 0, dst |-> n,
            dseq |-> node[n].nSequenceNumber, org |-> n, last |-> n,
            hello |-> TRUE]))
    /\ UNCHANGED <<node, data, born>>

----------------------------------------------------------------------------
(* Route errors. *)

Dsts(r, broken) == {r.route[i].dst : i \in broken}
Rerr(n, dsts, ttl) ==
    IF dsts = {} THEN {}
    ELSE Broadcast(n, [type |-> "rerr", to |-> n, ttl |-> ttl, src |-> n,
                       dsts |-> dsts])

\* The MAC gives up a data packet: PacketDropNotification, GenerateRERR.
PacketDropNotification(x) ==
    LET n == x.from
        r == node[n]
        broken == {i \in DOMAIN r.route : r.route[i].next = x.to}
        counted == [r EXCEPT !.nRerrCount = @ + 1]
    IN  /\ data' = data \ {x}
        /\ \/ /\ r.nRerrCount <= RerrLimit
              /\ node' = [node EXCEPT ![n] = counted]
              /\ UNCHANGED air
           \/ /\ r.nRerrCount > RerrLimit
              /\ node' = [node EXCEPT ![n] =
                     Invalidate([r EXCEPT !.nRerrCount = 2], broken)]
              /\ Transmit({}, Rerr(n, Dsts(r, broken), AODV_NET_DIAMETER))
        /\ UNCHANGED <<born, floods>>

ProcessRERR(m) ==
    LET n == m.to
        table == node[n].route
        broken == {i \in DOMAIN table : table[i].dst \in m.dsts /\ table[i].next = m.src}
    IN  /\ node' = [node EXCEPT ![n] = Invalidate(@, broken)]
        /\ Transmit({m}, IF Dsts(node[n], broken) = {} THEN {}
                         ELSE Rerr(n, m.dsts, m.ttl - 1))
        /\ UNCHANGED <<data, born, floods>>

----------------------------------------------------------------------------
(* Timers and the event queue.  A timer that is due fires before anything  *)
(* else happens.  Within a tick a broadcast is received or missed and a    *)
(* data packet leaves the MAC; a reply, sent again by the MAC until it is  *)
(* acknowledged, may take longer than the timer of its request.            *)

RouteTimersDue(n) == {t \in node[n].routeTimer : t.in = 0}
RreqTimersDue(n) == {d \in Nodes : 0 \in node[n].rreqTimer[d]}
NothingDue == \A n \in Nodes : RouteTimersDue(n) = {} /\ RreqTimersDue(n) = {}

ActiveRouteTimeout(n, t) ==
    /\ node' = [node EXCEPT ![n] =
           Expire([node[n] EXCEPT !.routeTimer = @ \ {t}], t.dst)]
    /\ UNCHANGED <<air, data, born, floods>>

RreqTimeout(n, d) ==
    LET res == RetryRREQ(n, [node[n] EXCEPT !.rreqTimer[d] = @ \ {0}], d)
    IN  /\ node' = [node EXCEPT ![n] = res.r]
        /\ Transmit({}, res.out)
        /\ UNCHANGED <<data, born, floods>>

TimerEvent ==
    \E n \in Nodes : \/ \E t \in RouteTimersDue(n) : ActiveRouteTimeout(n, t)
                     \/ \E d \in RreqTimersDue(n) : RreqTimeout(n, d)

Down(k) == IF k = 0 THEN 0 ELSE k - 1
Older(r) ==
    LET entry(e) == [e EXCEPT !.life = Down(@)]
        timer(t) == [t EXCEPT !.in = Down(@)]
        sent(s) == [s EXCEPT !.due = Down(@)]
    IN  [r EXCEPT !.route = [i \in DOMAIN @ |-> entry(@[i])],
                  !.routeTimer = {timer(t) : t \in @},
                  !.sent = [d \in Nodes |-> sent(@[d])],
                  !.rreqTimer = [d \in Nodes |-> {Down(k) : k \in @[d]}]]
Broadcasts == {m \in air : m.type # "rrep" \/ m.hello}
Tick ==
    /\ NothingDue /\ data = {} /\ Broadcasts = {}
    /\ node' = [n \in Nodes |-> Older(node[n])]
    /\ UNCHANGED <<air, data, born, floods>>

\* A node sends its packets in the order of their ids.
First(x) == \A y \in data : y.from = x.from => x.p.id <= y.p.id

Receive(m) ==
    \/ m.type = "rreq" /\ ProcessRREQ(m)
    \/ m.type = "rrep" /\ ProcessRREP(m)
    \/ m.type = "rerr" /\ ProcessRERR(m)

DataEvent ==
    /\ NothingDue
    /\ \E x \in data : First(x) /\ (ReceiveData(x) \/ PacketDropNotification(x))

Next ==
    \/ TimerEvent
    \/ Tick
    \/ DataEvent
    \/ /\ NothingDue
       /\ \/ \E p \in Packets : Originate(p)
          \/ \E m \in air : Receive(m)
          \/ \E n \in Nodes : TransmitHelloMessage(n)

Spec == Init /\ [][Next]_vars

\* The event queue: timers fire, packets leave the MAC and time passes.  No
\* control message need arrive.
Dispatch ==
    \/ TimerEvent \/ Tick \/ DataEvent
    \/ NothingDue /\ \E m \in Broadcasts : Receive(m)
FairSpec == Spec /\ WF_vars(Dispatch)

----------------------------------------------------------------------------
(* Properties. *)

Horizon == Max({AODV_DELETE_PERIOD, ReverseLife, HelloLife,
                AODV_ACTIVE_ROUTE_TIMEOUT})

\* The tables hold what their declarations say, the next hop of every route is
\* in range, and no entry outlives the longest lifetime.
TypeOK ==
    /\ born \in 0 .. Cardinality(Packets) /\ floods \in 0 .. MaxFloods
    /\ \A x \in data : x.p \in Packets /\ {x.from, x.to} \subseteq Nodes
    /\ \A m \in air : m.type \in {"rreq", "rrep", "rerr"} /\ m.to \in Nodes /\ m.ttl > 1
    /\ \A n \in Nodes : \A i \in DOMAIN node[n].route :
          LET e == node[n].route[i]
          IN  /\ e.dst \in Nodes /\ e.next \in InRange(n)
              /\ e.life \in 0 .. Horizon /\ e.seq \in Nat /\ e.hop \in Nat
    /\ \A n, d \in Nodes : node[n].fifo[d] \subseteq {p \in Packets : p.dst = d}

\* A packet waits for a route only while a request for its destination is out
\* and its timeout is pending: "No route found but RREQ is already sent".
WaitingHasTimer ==
    \A n, d \in Nodes : node[n].fifo[d] # {} =>
        /\ node[n].sent[d] # NoEntry
        /\ node[n].sent[d].due \in node[n].rreqTimer[d]

\* A node whose data packet may still be lost has a precursor list:
\* GenerateRERR reads its count without looking whether there is one.
ErrorFindsPrecursors == \A x \in data : node[x.from].precursorsList

\* A route in force goes from the table before its lifetime ends only behind an
\* older entry of the destination that a route error made invalid: the timeout
\* event takes the lifetime of that entry for the time.
EarlyRemovalNeedsStale ==
    [][\A n, d \in Nodes :
         /\ CheckRouteFound(node[n], d) /\ ~CheckRouteFound(node'[n], d)
         /\ Cardinality(EntriesAt(node'[n], d)) < Cardinality(EntriesAt(node[n], d))
         => ~FirstEntry(node[n], d).valid]_vars

\* Whatever the network loses, a packet does not stay in the FIFO buffer: a
\* route comes or the retries run out.
Queued(p) == \E n \in Nodes : p \in node[n].fifo[p.dst]
QueuedIsServed == \A p \in Packets : Queued(p) ~> ~Queued(p)
=============================================================================
