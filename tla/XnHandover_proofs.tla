------------------------- MODULE XnHandover_proofs -------------------------
(***************************************************************************)
(* Proofs about XnHandover, for any gNBs, UEs, interface numbers and       *)
(* bounds: type correctness; that a UE whose handovers do not overlap is   *)
(* served by the cell it has selected, without loss; that the core then    *)
(* follows the radio; that null pointers and ping-pong reports need an     *)
(* overlap.                                                                *)
(***************************************************************************)
EXTENDS XnHandover, SequenceTheorems, TLAPS

(***************************************************************************)
(* The inductive invariant.  Of every UE: messages are on the links of     *)
(* their headers (Located); at most one gNB has entities for it, and they  *)
(* hold all its packets (OneServer, Queued).  Of a UE whose handovers have *)
(* not overlapped (UeInv): at most one message or timer carries a          *)
(* handover, its token, and what the token is tells where the UE, the AMF, *)
(* the SMF and the ping-pong table stand (Claim); without token they agree *)
(* on the cell selected (Idle).  A reconfiguration message is no token:    *)
(* it comes from the cell selected, and is always ahead of the next        *)
(* command on the radio link, so none is left when a switch is made.       *)
(***************************************************************************)
Placed(l, m) ==
    /\ m.s # m.t
    /\ m.type \in {"HO_REQUEST", "CONTEXT_RELEASE_ACK"} => l = Xn(m.s, m.t)
    /\ m.type \in {"HO_REQUEST_ACK", "CONTEXT_RELEASE"} => l = Xn(m.t, m.s)
    /\ \A g \in Gnbs, u \in UEs : l = Uu(g, u) => m.ue = u

Located ==
    /\ \A l \in Links : \A i \in DOMAIN link[l] : Placed(l, link[l][i])
    /\ \A u \in UEs : \A i \in DOMAIN timer[u] :
          timer[u][i].ue = u /\ timer[u][i].s # timer[u][i].t

OneServer == \A u \in UEs, g, h \in Gnbs : u \in entities[g] /\ u \in entities[h] => g = h

Queued == \A u \in UEs, g \in Gnbs :
              queue[g][u] = IF u \in entities[g] THEN outstanding[u] ELSE 0

\* The AMF lists u once, at cell g.
AmfAt(u, g) ==
    /\ \A x \in Gnbs : amfUes[x][u] = IF x = g THEN 1 ELSE 0
    /\ g \in amfGnbs

Idle(u) ==
    /\ AmfAt(u, SelectedCell[u])
    /\ smfUe[u].ip = SelectedCell[u]
    /\ lastServingCell[u] \in {NoCell, SelectedCell[u]}

BeforeSwitch == {"HO_REQUEST", "HO_REQUEST_ACK", "HO_COMMAND"}
AfterSmf == {"MODIFY_RESPONSE", "PATH_SWITCH_ACK", "CONTEXT_RELEASE", "CONTEXT_RELEASE_ACK"}

Claim(l, m, u) ==
    /\ m.type \in BeforeSwitch => m.s = SelectedCell[u] /\ Idle(u)
    /\ m.type = "HO_COMMAND" => l = Uu(SelectedCell[u], u)
    /\ m.type \notin BeforeSwitch =>
          m.t = SelectedCell[u] /\ lastServingCell[u] \in {NoCell, m.s}
    /\ m.type = "PATH_SWITCH" => AmfAt(u, m.s)
    /\ m.type \in AfterSmf \cup {"MODIFY_REQUEST"} => AmfAt(u, m.t)
    /\ m.type \in AfterSmf => smfUe[u].ip = m.t

IsToken(m, u) == m.ue = u /\ m.type # "RECONFIGURATION"
IsReconf(m, u) == m.ue = u /\ m.type = "RECONFIGURATION"
NoToken(u) == \A l \in Links : \A i \in DOMAIN link[l] : ~IsToken(link[l][i], u)

OneToken(u) ==
    /\ \A l, k \in Links : \A i \in DOMAIN link[l], j \in DOMAIN link[k] :
          IsToken(link[l][i], u) /\ IsToken(link[k][j], u) => l = k /\ i = j
    /\ timer[u] # << >> => Len(timer[u]) = 1 /\ NoToken(u)

On(l) == {link[l][i] : i \in DOMAIN link[l]}

Claims(u) ==
    /\ \A l \in Links : \A m \in On(l) : IsToken(m, u) => Claim(l, m, u)
    /\ timer[u] # << >> => timer[u][1].s = SelectedCell[u]
    /\ NoToken(u) => Idle(u)

Reconf(u) ==
    \A l \in Links : \A i \in DOMAIN link[l] :
        IsReconf(link[l][i], u) =>
            /\ l = Uu(SelectedCell[u], u)
            /\ link[l][i].t = SelectedCell[u]
            /\ timer[u] = << >>
            /\ \A j \in DOMAIN link[l] :
                  link[l][j].ue = u /\ link[l][j].type = "HO_COMMAND" => i < j

UeInv(u) ==
    /\ u \in entities[SelectedCell[u]]
    /\ report[u] \in {NoCell, SelectedCell[u]}
    /\ OneToken(u) /\ Claims(u) /\ Reconf(u)

IInv == /\ TypeOK /\ Located /\ OneServer /\ Queued
        /\ \A u \in UEs \ overlapped : UeInv(u)
        /\ CrashNeedsOverlap /\ ReportsNeedOverlap
-----------------------------------------------------------------------------
\* What Tail and Append do to the elements of a queue: p is q without its
\* first element, p is q with a behind it.
Taken(q, p) ==
    /\ \A i \in DOMAIN p : i \in Nat \ {0} /\ i + 1 \in DOMAIN q /\ p[i] = q[i + 1]
    /\ \A i \in DOMAIN q : /\ i \in Nat \ {0}
                           /\ i # 1 => i - 1 \in DOMAIN p /\ p[i - 1] = q[i]
    /\ 1 \in DOMAIN q

Put(q, p, a) ==
    /\ \A i \in DOMAIN p : /\ i \in Nat \ {0}
                           /\ \/ i \in DOMAIN q /\ p[i] = q[i]
                              \/ i = Len(q) + 1 /\ p[i] = a
    /\ \A i \in DOMAIN q : i \in DOMAIN p /\ p[i] = q[i] /\ i < Len(q) + 1
    /\ Len(q) + 1 \in DOMAIN p /\ p[Len(q) + 1] = a

LEMMA TailLemma ==
    ASSUME NEW M, NEW q \in Seq(M), q # << >>
    PROVE  /\ Tail(q) \in Seq(M) /\ Head(q) \in M /\ Head(q) = q[1]
           /\ Taken(q, Tail(q))
<1> DEFINE p == Tail(q)
<1>1. /\ Head(q) \in M /\ p \in Seq(M)
      /\ Len(p) = Len(q) - 1 /\ Len(q) \in Nat \ {0}
      /\ \A i \in 1 .. Len(p) : p[i] = q[i + 1]
      /\ q[1] = Head(q)
  BY HeadTailProperties, EmptySeq
<1>2. DOMAIN q = 1 .. Len(q) /\ DOMAIN p = 1 .. Len(q) - 1
  BY <1>1, LenProperties
<1> HIDE DEF p
<1>3. Taken(q, p)
  BY <1>1, <1>2 DEF Taken
<1> QED  BY <1>1, <1>3 DEF p

Snoc(q, a) == Append(q, a)

LEMMA SnocLemma ==
    ASSUME NEW M, NEW q \in Seq(M), NEW a \in M
    PROVE  Snoc(q, a) \in Seq(M) /\ Put(q, Snoc(q, a), a)
<1> DEFINE p == Snoc(q, a)
<1>1. /\ p \in Seq(M) /\ Len(p) = Len(q) + 1 /\ Len(q) \in Nat
      /\ \A i \in 1 .. Len(q) : p[i] = q[i]
      /\ p[Len(q) + 1] = a
  BY AppendProperties DEF Snoc
<1>2. DOMAIN q = 1 .. Len(q) /\ DOMAIN p = 1 .. Len(q) + 1
  BY <1>1, LenProperties
<1> HIDE DEF p
<1>3. Put(q, p, a)
  BY <1>1, <1>2 DEF Put
<1> QED  BY <1>1, <1>3 DEF p

\* What the messages on the links become.
TookOnly(l) ==
    /\ link' \in [Links -> Seq(Msg)]
    /\ \A c \in Links : c # l => link'[c] = link[c]
    /\ Taken(link[l], link'[l])

SentOnly(r, a) ==
    /\ link' \in [Links -> Seq(Msg)]
    /\ \A c \in Links : c # r => link'[c] = link[c]
    /\ Put(link[r], link'[r], a)

Passed(l, r, a) ==
    /\ link' \in [Links -> Seq(Msg)]
    /\ \A c \in Links : c # l /\ c # r => link'[c] = link[c]
    /\ Taken(link[l], link'[l])
    /\ Put(link[r], link'[r], a)

LinkType == link \in [Links -> Seq(Msg)]

LEMMA TakeLemma ==
    ASSUME LinkType, NEW l \in Links, link[l] # << >>, Take(l)
    PROVE  TookOnly(l) /\ Head(link[l]) \in Msg /\ Head(link[l]) = link[l][1]
<1>1. link[l] \in Seq(Msg)
  BY DEF LinkType
<1>2. /\ Tail(link[l]) \in Seq(Msg) /\ Head(link[l]) \in Msg /\ Head(link[l]) = link[l][1]
      /\ Taken(link[l], Tail(link[l]))
  BY <1>1, TailLemma
<1> DEFINE p == Tail(link[l])
<1>3. link' = [link EXCEPT ![l] = p]
  BY DEF Take
<1> HIDE DEF p
<1>4. link'[l] = p /\ p \in Seq(Msg) /\ link' \in [Links -> Seq(Msg)]
  BY <1>2, <1>3 DEF p, LinkType
<1>5. \A c \in Links : c # l => link'[c] = link[c]
  BY <1>3 DEF LinkType
<1>6. Taken(link[l], link'[l])
  BY <1>2, <1>4 DEF p
<1> QED  BY <1>2, <1>4, <1>5, <1>6 DEF TookOnly

LEMMA SendLemma ==
    ASSUME LinkType, NEW r \in Links, NEW a \in Msg, Send(r, a)
    PROVE  SentOnly(r, a)
<1>1. link[r] \in Seq(Msg)
  BY DEF LinkType
<1>2. Snoc(link[r], a) \in Seq(Msg) /\ Put(link[r], Snoc(link[r], a), a)
  BY <1>1, SnocLemma
<1> DEFINE p == Snoc(link[r], a)
<1>3. link' = [link EXCEPT ![r] = p]
  BY DEF Send, Snoc
<1> HIDE DEF p
<1>4. link'[r] = p /\ p \in Seq(Msg) /\ link' \in [Links -> Seq(Msg)]
  BY <1>2, <1>3 DEF p, LinkType
<1>5. \A c \in Links : c # r => link'[c] = link[c]
  BY <1>3 DEF LinkType
<1>6. Put(link[r], link'[r], a)
  BY <1>2, <1>4 DEF p
<1> QED  BY <1>4, <1>5, <1>6 DEF SentOnly

\* The header goes on unchanged.
LEMMA AsLemma ==
    ASSUME NEW m \in Msg, NEW t \in Types
    PROVE  /\ As(m, t) \in Msg /\ As(m, t).type = t
           /\ As(m, t).ue = m.ue /\ As(m, t).s = m.s /\ As(m, t).t = m.t
           /\ As(m, t).start = m.start
  BY DEF As, Msg

LEMMA RelayLemma ==
    ASSUME LinkType, NEW l \in Links, NEW r \in Links, l # r, link[l] # << >>,
           NEW t \in Types, Relay(l, r, t)
    PROVE  /\ Passed(l, r, As(Head(link[l]), t))
           /\ Head(link[l]) \in Msg /\ Head(link[l]) = link[l][1]
<1> DEFINE h == Head(link[l])
           a == As(h, t)
           p == Tail(link[l])
           q == Snoc(link[r], a)
<1>1. link[l] \in Seq(Msg) /\ link[r] \in Seq(Msg)
  BY DEF LinkType
<1>2. p \in Seq(Msg) /\ h \in Msg /\ h = link[l][1] /\ Taken(link[l], p)
  BY <1>1, TailLemma
<1>3. link' = [link EXCEPT ![l] = p, ![r] = q]
  BY DEF Relay, Snoc
<1> HIDE DEF h
<1>4. a \in Msg
  BY <1>2, AsLemma
<1> HIDE DEF a
<1>5. q \in Seq(Msg) /\ Put(link[r], q, a)
  BY <1>1, <1>4, SnocLemma
<1> HIDE DEF p, q
<1>6. /\ link'[l] = p /\ link'[r] = q /\ link' \in [Links -> Seq(Msg)]
      /\ \A c \in Links : c # l /\ c # r => link'[c] = link[c]
  BY <1>2, <1>3, <1>5 DEF LinkType
<1>7. Passed(l, r, a)
  BY <1>2, <1>5, <1>6 DEF Passed
<1> QED  BY <1>2, <1>7 DEF a, h

-----------------------------------------------------------------------------
\* The messages of UE v are still there, shifted where a queue has lost its
\* first message; v itself loses a reconfiguration message at most.
Shifted(v, d) ==
    /\ \A c \in Links : \A i \in DOMAIN link'[c] : link'[c][i].ue = v =>
          i \in Nat /\ i + d[c] \in DOMAIN link[c] /\ link'[c][i] = link[c][i + d[c]]
    /\ \A c \in Links : \A i \in DOMAIN link[c] : link[c][i].ue = v =>
          \/ d[c] = 1 /\ i = 1 /\ link[c][i].type = "RECONFIGURATION"
          \/ i - d[c] \in DOMAIN link'[c] /\ link'[c][i - d[c]] = link[c][i]

\* The rest of v's state, in the core and in the ping-pong table.
SameCore(v) ==
    /\ lastServingCell'[v] = lastServingCell[v]
    /\ smfUe'[v] = smfUe[v]
    /\ \A x \in Gnbs : amfUes'[x][v] = amfUes[x][v]
    /\ amfGnbs \subseteq amfGnbs'

Served(v) == /\ SelectedCell'[v] = SelectedCell[v]
             /\ v \in entities'[SelectedCell[v]]
             /\ report'[v] \in {NoCell, SelectedCell[v]}

LEMMA IdleSame ==
    ASSUME NEW v \in UEs, SameCore(v), SelectedCell'[v] = SelectedCell[v]
    PROVE  /\ \A g : AmfAt(v, g) => AmfAt(v, g)'
           /\ Idle(v) => Idle(v)'
           /\ \A l, m : Claim(l, m, v) => Claim(l, m, v)'
<1>1. ASSUME NEW g, AmfAt(v, g) PROVE AmfAt(v, g)'
  BY <1>1 DEF AmfAt, SameCore
<1>2. Idle(v) => Idle(v)'
  BY <1>1 DEF Idle, SameCore
<1>3. ASSUME NEW l, NEW m, Claim(l, m, v) PROVE Claim(l, m, v)'
  BY <1>1, <1>2, <1>3 DEF Claim, SameCore
<1> QED  BY <1>1, <1>2, <1>3

\* A step in which v's token does not move keeps what is known of v.
LEMMA OtherUe ==
    ASSUME NEW v \in UEs, UeInv(v), NEW d \in [Links -> {0, 1}], Shifted(v, d),
           timer'[v] = timer[v], SameCore(v), Served(v)
    PROVE  UeInv(v)'
<1> USE DEF UeInv
<1>1. \A c \in Links : d[c] \in Int
  OBVIOUS
<1>2. ASSUME NEW c \in Links, NEW i \in DOMAIN link'[c], link'[c][i].ue = v
      PROVE  i \in Nat /\ i + d[c] \in DOMAIN link[c] /\ link'[c][i] = link[c][i + d[c]]
  BY <1>2 DEF Shifted
<1>3. NoToken(v)' => NoToken(v)
  <2> SUFFICES ASSUME NEW c \in Links, NEW i \in DOMAIN link[c], IsToken(link[c][i], v)
               PROVE  \E j \in DOMAIN link'[c] : IsToken(link'[c][j], v)
    BY DEF NoToken
  <2> QED  BY DEF Shifted, IsToken
<1>4. OneToken(v)'
  <2>1. ASSUME NEW l \in Links, NEW k \in Links,
               NEW i \in DOMAIN link'[l], NEW j \in DOMAIN link'[k],
               IsToken(link'[l][i], v), IsToken(link'[k][j], v)
        PROVE  l = k /\ i = j
    <3>1. /\ i \in Nat /\ i + d[l] \in DOMAIN link[l] /\ IsToken(link[l][i + d[l]], v)
          /\ j \in Nat /\ j + d[k] \in DOMAIN link[k] /\ IsToken(link[k][j + d[k]], v)
      BY <1>2, <2>1 DEF IsToken
    <3>2. l = k /\ i + d[l] = j + d[k]
      BY <3>1 DEF OneToken
    <3> QED  BY <1>1, <3>1, <3>2
  <2>2. NoToken(v) => NoToken(v)'
    <3> SUFFICES ASSUME NEW c \in Links, NEW i \in DOMAIN link'[c], IsToken(link'[c][i], v)
                 PROVE  \E j \in DOMAIN link[c] : IsToken(link[c][j], v)
      BY DEF NoToken
    <3> QED  BY <1>2 DEF IsToken
  <2> QED  BY <2>1, <2>2 DEF OneToken
<1>5. Claims(v)'
  <2>1. ASSUME NEW l \in Links, NEW m \in On(l)', IsToken(m, v)
        PROVE  Claim(l, m, v)'
    <3>1. m \in On(l)
      BY <1>2, <2>1 DEF On, IsToken
    <3> QED  BY <2>1, <3>1, IdleSame DEF Claims, Served
  <2>2. NoToken(v)' => Idle(v)'
    BY <1>3, IdleSame DEF Claims, Served
  <2> QED  BY <2>1, <2>2 DEF Claims, Served
<1>6. Reconf(v)'
  <2> SUFFICES ASSUME NEW l \in Links, NEW i \in DOMAIN link'[l], IsReconf(link'[l][i], v)
               PROVE  /\ l = Uu(SelectedCell[v], v)
                      /\ link'[l][i].t = SelectedCell[v]
                      /\ timer[v] = << >>
                      /\ \A j \in DOMAIN link'[l] :
                            link'[l][j].ue = v /\ link'[l][j].type = "HO_COMMAND" => i < j
    BY DEF Reconf, Served, Uu
  <2>1. /\ i \in Nat /\ i + d[l] \in DOMAIN link[l] /\ link'[l][i] = link[l][i + d[l]]
        /\ IsReconf(link[l][i + d[l]], v)
    BY <1>2 DEF IsReconf
  <2>2. ASSUME NEW j \in DOMAIN link'[l], link'[l][j].ue = v, link'[l][j].type = "HO_COMMAND"
        PROVE  i < j
    <3>1. j \in Nat /\ j + d[l] \in DOMAIN link[l] /\ link'[l][j] = link[l][j + d[l]]
      BY <1>2, <2>2
    <3>2. i + d[l] < j + d[l]
      BY <2>1, <2>2, <3>1 DEF Reconf
    <3> QED  BY <1>1, <2>1, <3>1, <3>2
  <2> QED  BY <2>1, <2>2 DEF Reconf
<1> QED  BY <1>4, <1>5, <1>6 DEF Served

\* Where the messages of a link were before the first of l was taken, and
\* possibly a new one appended to r.
LEMMA PassedFrom ==
    ASSUME LinkType, NEW l \in Links, NEW r \in Links, l # r, NEW a, Passed(l, r, a),
           NEW c \in Links, NEW i \in DOMAIN link'[c]
    PROVE  /\ i \in Nat \ {0}
           /\ \/ c = l /\ i + 1 \in DOMAIN link[c] /\ link'[c][i] = link[c][i + 1]
              \/ c # l /\ i \in DOMAIN link[c] /\ link'[c][i] = link[c][i]
              \/ c = r /\ i = Len(link[r]) + 1 /\ link'[c][i] = a
<1>1. CASE c = l
  BY <1>1 DEF Passed, Taken
<1>2. CASE c = r
  BY <1>2 DEF Passed, Put
<1>3. CASE c # l /\ c # r
  <2>1. link'[c] = link[c] /\ link[c] \in Seq(Msg)
    BY <1>3 DEF Passed, LinkType
  <2>2. i \in Nat \ {0}
    BY <2>1, LenProperties
  <2> QED  BY <1>3, <2>1, <2>2
<1> QED  BY <1>1, <1>2, <1>3

\* The token of v is passed on.
LEMMA MineRelay ==
    ASSUME LinkType, NEW v \in UEs, UeInv(v),
           NEW l \in Links, NEW r \in Links, l # r, NEW a, Passed(l, r, a),
           IsToken(link[l][1], v), IsToken(a, v),
           timer'[v] = timer[v], Served(v), Claim(r, a, v)'
    PROVE  UeInv(v)'
<1> USE DEF UeInv
<1>1. 1 \in DOMAIN link[l]
  BY DEF Passed, Taken
<1>2. \A c \in Links : \A i \in DOMAIN link[c] : IsToken(link[c][i], v) => c = l /\ i = 1
  BY <1>1 DEF OneToken
<1>3. timer[v] = << >>
  BY <1>1 DEF OneToken, NoToken
<1>4. ASSUME NEW c \in Links, NEW i \in DOMAIN link'[c], IsToken(link'[c][i], v)
      PROVE  c = r /\ i = Len(link[r]) + 1 /\ link'[c][i] = a
  <2>1. i \in Nat \ {0} /\ (c = l => i + 1 # 1)
    BY PassedFrom
  <2>2. CASE c = l /\ i + 1 \in DOMAIN link[c] /\ link'[c][i] = link[c][i + 1]
    BY <1>2, <1>4, <2>1, <2>2
  <2>3. CASE c # l /\ i \in DOMAIN link[c] /\ link'[c][i] = link[c][i]
    BY <1>2, <1>4, <2>3
  <2> QED  BY <2>2, <2>3, PassedFrom
<1>5. Len(link[r]) + 1 \in DOMAIN link'[r] /\ link'[r][Len(link[r]) + 1] = a
  BY DEF Passed, Put
<1>6. OneToken(v)'
  BY <1>3, <1>4 DEF OneToken
<1>7. Claims(v)'
  <2>1. ASSUME NEW c \in Links, NEW m \in On(c)', IsToken(m, v)
        PROVE  Claim(c, m, v)'
    <3>1. c = r /\ m = a
      BY <1>4, <2>1 DEF On
    <3> QED  BY <3>1
  <2>2. ~NoToken(v)'
    BY <1>5 DEF NoToken
  <2> QED  BY <1>3, <2>1, <2>2 DEF Claims
<1>8. Reconf(v)'
  <2> SUFFICES ASSUME NEW c \in Links, NEW i \in DOMAIN link'[c], IsReconf(link'[c][i], v)
               PROVE  /\ c = Uu(SelectedCell[v], v)
                      /\ link'[c][i].t = SelectedCell[v]
                      /\ \A j \in DOMAIN link'[c] :
                            link'[c][j].ue = v /\ link'[c][j].type = "HO_COMMAND" => i < j
    BY <1>3 DEF Reconf, Served, Uu
  <2>1. ~(link'[c][i] = a)
    BY DEF IsToken, IsReconf
  <2>2. \E k \in DOMAIN link[c] : link'[c][i] = link[c][k]
    BY <2>1, PassedFrom
  <2>3. c = Uu(SelectedCell[v], v) /\ link'[c][i].t = SelectedCell[v]
    BY <2>2 DEF Reconf
  <2>4. ASSUME NEW j \in DOMAIN link'[c],
               link'[c][j].ue = v, link'[c][j].type = "HO_COMMAND"
        PROVE  i < j
    <3>1. c = r /\ j = Len(link[r]) + 1
      BY <1>4, <2>4 DEF IsToken
    <3>2. i \in DOMAIN link[r]
      BY <2>1, <3>1, PassedFrom
    <3> QED  BY <3>1, <3>2 DEF Passed, Put
  <2> QED  BY <2>3, <2>4
<1> QED  BY <1>6, <1>7, <1>8 DEF Served

\* The token of v is taken off the links: dropped or done, or now in a timer.
LEMMA MineGone ==
    ASSUME LinkType, NEW v \in UEs, UeInv(v),
           NEW l \in Links, TookOnly(l), IsToken(link[l][1], v), Served(v), Idle(v)',
           \/ timer'[v] = timer[v]
           \/ /\ link[l][1].type = "HO_COMMAND"
              /\ Len(timer'[v]) = 1 /\ timer'[v][1].s = SelectedCell[v]
    PROVE  UeInv(v)'
<1> USE DEF UeInv
<1>1. 1 \in DOMAIN link[l]
  BY DEF TookOnly, Taken
<1>2. \A c \in Links : \A i \in DOMAIN link[c] : IsToken(link[c][i], v) => c = l /\ i = 1
  BY <1>1 DEF OneToken
<1>3. timer[v] = << >>
  BY <1>1 DEF OneToken, NoToken
<1>4. ASSUME NEW c \in Links, NEW i \in DOMAIN link'[c]
      PROVE  /\ c # l => i \in DOMAIN link[c] /\ link'[c][i] = link[c][i]
             /\ c = l => /\ i \in Nat \ {0} /\ i + 1 # 1
                         /\ i + 1 \in DOMAIN link[c] /\ link'[c][i] = link[c][i + 1]
  <2>1. CASE c = l
    <3>1. i \in Nat \ {0} /\ i + 1 \in DOMAIN link[c] /\ link'[c][i] = link[c][i + 1]
      BY <2>1 DEF TookOnly, Taken
    <3> QED  BY <2>1, <3>1
  <2>2. CASE c # l
    BY <2>2 DEF TookOnly
  <2> QED  BY <2>1, <2>2
<1>5. NoToken(v)'
  <2> SUFFICES ASSUME NEW c \in Links, NEW i \in DOMAIN link'[c], IsToken(link'[c][i], v)
               PROVE  FALSE
    BY DEF NoToken
  <2> QED  BY <1>2, <1>4
<1>6. OneToken(v)'
  BY <1>3, <1>5 DEF OneToken, NoToken
<1>7. Claims(v)'
  BY <1>3, <1>5 DEF Claims, NoToken, On, Served
<1>8. Reconf(v)'
  <2> SUFFICES ASSUME NEW c \in Links, NEW i \in DOMAIN link'[c], IsReconf(link'[c][i], v)
               PROVE  /\ c = Uu(SelectedCell[v], v)
                      /\ link'[c][i].t = SelectedCell[v]
                      /\ timer'[v] = << >>
                      /\ \A j \in DOMAIN link'[c] :
                            ~(link'[c][j].ue = v /\ link'[c][j].type = "HO_COMMAND")
    BY DEF Reconf, Served, Uu
  <2>1. PICK k \in DOMAIN link[c] : link'[c][i] = link[c][k]
    BY <1>4
  <2>2. c = Uu(SelectedCell[v], v) /\ link'[c][i].t = SelectedCell[v]
    BY <2>1 DEF Reconf
  <2>3. \A j \in DOMAIN link'[c] : ~(link'[c][j].ue = v /\ link'[c][j].type = "HO_COMMAND")
    BY <1>5 DEF NoToken, IsToken
  <2>4. link[l][1].type # "HO_COMMAND"
    <3> SUFFICES ASSUME link[l][1].type = "HO_COMMAND" PROVE FALSE
      OBVIOUS
    <3>1. link[l][1] \in On(l)
      BY <1>1 DEF On
    <3>2. l = c
      BY <2>2, <3>1 DEF Claims, Claim
    <3>3. k < 1
      BY <1>1, <2>1, <3>2 DEF Reconf, IsToken
    <3>4. k \in Nat \ {0}
      BY LenProperties DEF LinkType
    <3> QED  BY <3>3, <3>4
  <2> QED  BY <1>3, <2>2, <2>3, <2>4
<1> QED  BY <1>6, <1>7, <1>8 DEF Served

\* A handover of v starts.
LEMMA MineNew ==
    ASSUME LinkType, NEW v \in UEs, UeInv(v), NoToken(v), timer[v] = << >>,
           NEW r \in Links, NEW a, SentOnly(r, a), IsToken(a, v), a.type # "HO_COMMAND",
           timer'[v] = timer[v], Served(v), Claim(r, a, v)'
    PROVE  UeInv(v)'
<1> USE DEF UeInv
<1>1. ASSUME NEW c \in Links, NEW i \in DOMAIN link'[c]
      PROVE  \/ i \in DOMAIN link[c] /\ link'[c][i] = link[c][i]
             \/ c = r /\ i = Len(link[r]) + 1 /\ link'[c][i] = a
  BY DEF SentOnly, Put
<1>2. ASSUME NEW c \in Links, NEW i \in DOMAIN link'[c], IsToken(link'[c][i], v)
      PROVE  c = r /\ i = Len(link[r]) + 1 /\ link'[c][i] = a
  BY <1>1, <1>2 DEF NoToken
<1>3. Len(link[r]) + 1 \in DOMAIN link'[r] /\ link'[r][Len(link[r]) + 1] = a
  BY DEF SentOnly, Put
<1>4. OneToken(v)'
  BY <1>2 DEF OneToken
<1>5. Claims(v)'
  <2>1. ASSUME NEW c \in Links, NEW m \in On(c)', IsToken(m, v)
        PROVE  Claim(c, m, v)'
    <3>1. c = r /\ m = a
      BY <1>2, <2>1 DEF On
    <3> QED  BY <3>1
  <2>2. ~NoToken(v)'
    BY <1>3 DEF NoToken
  <2> QED  BY <2>1, <2>2 DEF Claims
<1>6. Reconf(v)'
  <2> SUFFICES ASSUME NEW c \in Links, NEW i \in DOMAIN link'[c], IsReconf(link'[c][i], v)
               PROVE  /\ c = Uu(SelectedCell[v], v)
                      /\ link'[c][i].t = SelectedCell[v]
                      /\ \A j \in DOMAIN link'[c] :
                            link'[c][j].ue = v => link'[c][j].type # "HO_COMMAND"
    BY DEF Reconf, Served, Uu
  <2>1. i \in DOMAIN link[c] /\ link'[c][i] = link[c][i]
    BY <1>1 DEF IsToken, IsReconf
  <2>2. \A j \in DOMAIN link'[c] : link'[c][j].ue = v => link'[c][j].type # "HO_COMMAND"
    BY <1>2 DEF IsToken
  <2> QED  BY <2>1, <2>2 DEF Reconf
<1> QED  BY <1>4, <1>5, <1>6 DEF Served

-----------------------------------------------------------------------------
\* How the messages of the other UEs are shifted.
D(l) == [c \in Links |-> IF c = l THEN 1 ELSE 0]

LEMMA ShiftedPassed ==
    ASSUME LinkType, NEW v \in UEs, NEW l \in Links, NEW r \in Links, l # r,
           NEW a, Passed(l, r, a), a.ue # v, link[l][1].ue # v
    PROVE  D(l) \in [Links -> {0, 1}] /\ Shifted(v, D(l))
<1> DEFINE d == D(l)
<1>1. d \in [Links -> {0, 1}] /\ d[l] = 1 /\ \A c \in Links : c # l => d[c] = 0
  BY DEF D
<1> HIDE DEF d
<1>2. \A c \in Links : \A i \in DOMAIN link[c] : i \in Nat \ {0}
  BY LenProperties DEF LinkType
<1>3. ASSUME NEW c \in Links, NEW i \in DOMAIN link'[c], link'[c][i].ue = v
      PROVE  i \in Nat /\ i + d[c] \in DOMAIN link[c] /\ link'[c][i] = link[c][i + d[c]]
  <2>1. CASE c = l
    BY <1>1, <2>1 DEF Passed, Taken
  <2>2. CASE c # l
    <3>1. i \in DOMAIN link[c] /\ link'[c][i] = link[c][i] /\ i \in Nat
      BY <1>3, <2>2, PassedFrom
    <3> QED  BY <1>1, <2>2, <3>1
  <2> QED  BY <2>1, <2>2
<1>4. ASSUME NEW c \in Links, NEW i \in DOMAIN link[c], link[c][i].ue = v
      PROVE  i - d[c] \in DOMAIN link'[c] /\ link'[c][i - d[c]] = link[c][i]
  <2>1. CASE c = l
    BY <1>1, <1>2, <1>4, <2>1 DEF Passed, Taken
  <2>2. CASE c = r
    <3>1. i \in DOMAIN link'[c] /\ link'[c][i] = link[c][i]
      BY <2>2 DEF Passed, Put
    <3> QED  BY <1>1, <1>2, <2>2, <3>1
  <2>3. CASE c # l /\ c # r
    <3>1. link'[c] = link[c]
      BY <2>3 DEF Passed
    <3> QED  BY <1>1, <1>2, <2>3, <3>1
  <2> QED  BY <2>1, <2>2, <2>3
<1> QED  BY <1>1, <1>3, <1>4 DEF Shifted, d

LEMMA ShiftedTook ==
    ASSUME LinkType, NEW v \in UEs, NEW l \in Links, TookOnly(l),
           link[l][1].ue = v => link[l][1].type = "RECONFIGURATION"
    PROVE  D(l) \in [Links -> {0, 1}] /\ Shifted(v, D(l))
<1> DEFINE d == D(l)
<1>1. d \in [Links -> {0, 1}] /\ d[l] = 1 /\ \A c \in Links : c # l => d[c] = 0
  BY DEF D
<1> HIDE DEF d
<1>2. \A c \in Links : \A i \in DOMAIN link[c] : i \in Nat \ {0}
  BY LenProperties DEF LinkType
<1>3. ASSUME NEW c \in Links, NEW i \in DOMAIN link'[c], link'[c][i].ue = v
      PROVE  i \in Nat /\ i + d[c] \in DOMAIN link[c] /\ link'[c][i] = link[c][i + d[c]]
  <2>1. CASE c = l
    BY <1>1, <2>1 DEF TookOnly, Taken
  <2>2. CASE c # l
    <3>1. i \in DOMAIN link[c] /\ link'[c][i] = link[c][i] /\ i \in Nat
      BY <1>2, <2>2 DEF TookOnly
    <3> QED  BY <1>1, <2>2, <3>1
  <2> QED  BY <2>1, <2>2
<1>4. ASSUME NEW c \in Links, NEW i \in DOMAIN link[c], link[c][i].ue = v
      PROVE  \/ d[c] = 1 /\ i = 1 /\ link[c][i].type = "RECONFIGURATION"
             \/ i - d[c] \in DOMAIN link'[c] /\ link'[c][i - d[c]] = link[c][i]
  <2>1. CASE c = l
    BY <1>1, <1>2, <1>4, <2>1 DEF TookOnly, Taken
  <2>2. CASE c # l
    <3>1. link'[c] = link[c]
      BY <2>2 DEF TookOnly
    <3> QED  BY <1>1, <1>2, <2>2, <3>1
  <2> QED  BY <2>1, <2>2
<1> QED  BY <1>1, <1>3, <1>4 DEF Shifted, d

Zero == [c \in Links |-> 0]

LEMMA ShiftedNot ==
    ASSUME LinkType, NEW v \in UEs,
           \A c \in Links : \A i \in DOMAIN link'[c] :
                link'[c][i].ue = v => i \in DOMAIN link[c] /\ link'[c][i] = link[c][i],
           \A c \in Links : \A i \in DOMAIN link[c] :
                link[c][i].ue = v => i \in DOMAIN link'[c] /\ link'[c][i] = link[c][i]
    PROVE  Zero \in [Links -> {0, 1}] /\ Shifted(v, Zero)
<1> DEFINE d == Zero
<1>1. d \in [Links -> {0, 1}] /\ \A c \in Links : d[c] = 0
  BY DEF Zero
<1> HIDE DEF d
<1>2. \A c \in Links : \A i \in DOMAIN link[c] : i \in Nat \ {0} /\ i + 0 = i /\ i - 0 = i
  <2>1. \A c \in Links : \A i \in DOMAIN link[c] : i \in Nat \ {0}
    BY LenProperties DEF LinkType
  <2> QED  BY <2>1
<1> QED  BY <1>1, <1>2 DEF Shifted, d

-----------------------------------------------------------------------------
CoreType == /\ amfGnbs \in SUBSET Gnbs
            /\ amfUes \in [Gnbs -> [UEs -> Nat]]
            /\ smfUe \in [UEs -> [gnb : Gnbs, ip : Gnbs]]

SameRadio == UNCHANGED <<SelectedCell, entities, queue, timer, outstanding, report>>
SamePingPong == UNCHANGED <<lastServingCell, leftCell, reported, missed>>

\* A message is passed on, and the core perhaps updated for its UE.
LEMMA RelayStep ==
    ASSUME IInv, ~crashed, NEW l \in Links, NEW r \in Links, l # r, link[l] # << >>,
           NEW t \in Types, t # "RECONFIGURATION", Relay(l, r, t),
           NEW h, h = Head(link[l]), h.type # "RECONFIGURATION",
           Placed(r, As(h, t)),
           SameRadio, ueRRCState' = ueRRCState, SamePingPong,
           UNCHANGED <<crashed, started, overlapped>>, CoreType',
           \A v \in UEs : v # h.ue => SameCore(v),
           h.ue \in UEs \ overlapped /\ Claim(l, h, h.ue) => Claim(r, As(h, t), h.ue)'
    PROVE  IInv'
<1> DEFINE a == As(h, t)
<1> USE DEF IInv
<1>1. LinkType
  BY DEF TypeOK, LinkType
<1>2. Passed(l, r, a) /\ h \in Msg /\ h = link[l][1]
  BY <1>1, RelayLemma
<1>3. a \in Msg /\ a.type = t /\ a.ue = h.ue
  BY <1>2, AsLemma
<1> HIDE DEF a
<1>4. h.ue \in UEs /\ 1 \in DOMAIN link[l]
  BY <1>2 DEF Msg, Passed, Taken
<1>5. TypeOK'
  BY <1>2 DEF TypeOK, CoreType, SameRadio, SamePingPong, Passed
<1>6. Located'
  <2>1. ASSUME NEW c \in Links, NEW i \in DOMAIN link'[c]
        PROVE  Placed(c, link'[c][i])
    <3>1. CASE c = r /\ link'[c][i] = a
      BY <3>1 DEF a
    <3>2. CASE \E k \in DOMAIN link[c] : link'[c][i] = link[c][k]
      BY <3>2 DEF Located
    <3> QED  BY <1>1, <1>2, <3>1, <3>2, PassedFrom
  <2> QED  BY <2>1 DEF Located, SameRadio, Placed
<1>7. OneServer' /\ Queued'
  BY DEF OneServer, Queued, SameRadio
<1>8. CrashNeedsOverlap' /\ ReportsNeedOverlap'
  BY DEF CrashNeedsOverlap, ReportsNeedOverlap, SamePingPong
<1>9. ASSUME NEW v \in UEs \ overlapped PROVE UeInv(v)'
  <2>1. UeInv(v) /\ Served(v) /\ timer'[v] = timer[v]
    BY DEF Served, SameRadio, UeInv
  <2>2. CASE v # h.ue
    <3>1. D(l) \in [Links -> {0, 1}] /\ Shifted(v, D(l))
      BY <1>1, <1>2, <1>3, <2>2, ShiftedPassed
    <3> QED  BY <2>1, <2>2, <3>1, OtherUe
  <2>3. CASE v = h.ue
    <3>1. IsToken(link[l][1], v) /\ IsToken(a, v)
      BY <1>2, <1>3, <2>3 DEF IsToken
    <3>2. h \in On(l)
      BY <1>2, <1>4 DEF On
    <3>3. Claim(l, h, v)
      BY <1>2, <2>1, <3>1, <3>2 DEF UeInv, Claims
    <3>4. Claim(r, a, v)'
      BY <2>3, <3>3 DEF a
    <3> QED  BY <1>1, <1>2, <2>1, <3>1, <3>4, MineRelay
  <2> QED  BY <2>2, <2>3
<1> QED  BY <1>5, <1>6, <1>7, <1>8, <1>9

\* A message h is taken off l and nothing sent: what may change with it.
TakeEffect(l, h) ==
    /\ \A u \in UEs : u # h.ue => timer'[u] = timer[u]
    /\ timer' \in [UEs -> Seq(Msg)]
    /\ \A i \in DOMAIN timer'[h.ue] :
          timer'[h.ue][i].ue = h.ue /\ timer'[h.ue][i].s # timer'[h.ue][i].t
    /\ UNCHANGED <<entities, queue, outstanding, report>>
    /\ SelectedCell' \in [UEs -> Gnbs]
    /\ \A u \in UEs : u \notin overlapped => SelectedCell'[u] = SelectedCell[u]
    /\ ueRRCState' \in [UEs -> {"CONNECTED", "INACTIVE"}]
    /\ lastServingCell' \in [UEs -> Gnbs \cup {NoCell}]
    /\ leftCell' \in [UEs -> Gnbs \cup {NoCell}]
    /\ \A u \in UEs : u # h.ue => lastServingCell'[u] = lastServingCell[u]
    /\ {reported', missed'} \subseteq SUBSET UEs
    /\ UNCHANGED <<amfGnbs, amfUes, smfUe, crashed, started, overlapped>>
    /\ h.type = "RECONFIGURATION" =>
          timer'[h.ue] = timer[h.ue] /\ lastServingCell'[h.ue] = lastServingCell[h.ue]

TokenTaken(l, h) ==
    h.type # "RECONFIGURATION" /\ h.ue \in UEs \ overlapped
        /\ Claim(l, h, h.ue) /\ timer[h.ue] = << >> =>
        /\ Idle(h.ue)'
        /\ \/ timer'[h.ue] = timer[h.ue]
           \/ /\ h.type = "HO_COMMAND" /\ Len(timer'[h.ue]) = 1
              /\ timer'[h.ue][1].s = SelectedCell[h.ue]

LEMMA TakeStep ==
    ASSUME IInv, ~crashed, NEW l \in Links, link[l] # << >>, Take(l),
           NEW h, h = Head(link[l]), TakeEffect(l, h), TokenTaken(l, h),
           ReportsNeedOverlap'
    PROVE  IInv'
<1> USE DEF IInv, TakeEffect
<1>1. LinkType
  BY DEF TypeOK, LinkType
<1>2. TookOnly(l) /\ h \in Msg /\ h = link[l][1]
  BY <1>1, TakeLemma
<1>3. h.ue \in UEs /\ 1 \in DOMAIN link[l]
  BY <1>2 DEF Msg, TookOnly, Taken
<1>4. TypeOK'
  BY <1>2 DEF TypeOK, TookOnly
<1>5. Located'
  <2>1. ASSUME NEW c \in Links, NEW i \in DOMAIN link'[c]
        PROVE  Placed(c, link'[c][i])
    <3>1. \E k \in DOMAIN link[c] : link'[c][i] = link[c][k]
      <4>1. CASE c = l
        BY <1>2, <4>1 DEF TookOnly, Taken
      <4>2. CASE c # l
        BY <1>2, <4>2 DEF TookOnly
      <4> QED  BY <4>1, <4>2
    <3> QED  BY <3>1 DEF Located
  <2>2. ASSUME NEW u \in UEs, NEW i \in DOMAIN timer'[u]
        PROVE  timer'[u][i].ue = u /\ timer'[u][i].s # timer'[u][i].t
    <3>1. CASE u = h.ue
      BY <3>1
    <3>2. CASE u # h.ue
      <4>1. timer'[u] = timer[u]
        BY <3>2
      <4> QED  BY <4>1 DEF Located
    <3> QED  BY <3>1, <3>2
  <2> QED  BY <2>1, <2>2 DEF Located, Placed
<1>6. OneServer' /\ Queued'
  BY DEF OneServer, Queued
<1>7. CrashNeedsOverlap'
  BY DEF CrashNeedsOverlap
<1>8. ASSUME NEW v \in UEs \ overlapped PROVE UeInv(v)'
  <2>1. UeInv(v) /\ Served(v)
    BY DEF Served, UeInv
  <2>2. CASE v # h.ue \/ h.type = "RECONFIGURATION"
    <3>1. D(l) \in [Links -> {0, 1}] /\ Shifted(v, D(l))
      BY <1>1, <1>2, <2>2, ShiftedTook
    <3>2. timer'[v] = timer[v] /\ lastServingCell'[v] = lastServingCell[v]
      BY <2>2
    <3>3. SameCore(v)
      BY <3>2 DEF SameCore
    <3> QED  BY <2>1, <3>1, <3>2, <3>3, OtherUe
  <2>3. CASE v = h.ue /\ h.type # "RECONFIGURATION"
    <3>1. IsToken(link[l][1], v) /\ h \in On(l)
      BY <1>2, <1>3, <2>3 DEF IsToken, On
    <3>2. Claim(l, h, v)
      BY <1>2, <2>1, <3>1 DEF UeInv, Claims
    <3>3. timer[v] = << >>
      BY <1>3, <2>1, <3>1 DEF UeInv, OneToken, NoToken
    <3>4. /\ Idle(v)'
          /\ \/ timer'[v] = timer[v]
             \/ /\ link[l][1].type = "HO_COMMAND" /\ Len(timer'[v]) = 1
                /\ timer'[v][1].s = SelectedCell[v]
      BY <1>2, <2>3, <3>2, <3>3 DEF TokenTaken
    <3> QED  BY <1>1, <1>2, <2>1, <3>1, <3>4, MineGone
  <2> QED  BY <2>2, <2>3
<1> QED  BY <1>4, <1>5, <1>6, <1>7, <1>8

\* Nothing happens on the links, and no handover moves.
LEMMA RadioStep ==
    ASSUME IInv, TypeOK', link' = link, timer' = timer, entities' = entities,
           SelectedCell' = SelectedCell, OneServer', Queued',
           \A v \in UEs \ overlapped : report'[v] \in {NoCell, SelectedCell[v]},
           UNCHANGED <<amfGnbs, amfUes, smfUe, lastServingCell, reported, overlapped>>,
           CrashNeedsOverlap'
    PROVE  IInv'
<1> USE DEF IInv
<1>1. LinkType
  BY DEF TypeOK, LinkType
<1>2. Located'
  BY DEF Located, Placed
<1>3. ReportsNeedOverlap'
  BY DEF ReportsNeedOverlap
<1>4. ASSUME NEW v \in UEs \ overlapped PROVE UeInv(v)'
  <2>1. Zero \in [Links -> {0, 1}] /\ Shifted(v, Zero)
    BY <1>1, ShiftedNot
  <2>2. UeInv(v) /\ Served(v) /\ SameCore(v) /\ timer'[v] = timer[v]
    BY DEF Served, SameCore, UeInv
  <2> QED  BY <2>1, <2>2, OtherUe
<1> QED  BY <1>2, <1>3, <1>4

-----------------------------------------------------------------------------
\* The links are different.
LEMMA LinkFacts ==
    /\ \A a, b \in Gnbs : Xn(a, b) \in Links /\ N2up(a) \in Links /\ N2down(a) \in Links
    /\ \A a \in Gnbs, u \in UEs : Uu(a, u) \in Links
    /\ N11("request") \in Links /\ N11("response") \in Links
    /\ \A a, b, c, d : Xn(a, b) = Xn(c, d) => a = c /\ b = d
    /\ \A a, b, c, d : Uu(a, b) = Uu(c, d) => a = c /\ b = d
    /\ \A a, b, g, u : Xn(a, b) # Uu(g, u) /\ N2up(a) # Uu(g, u)
                       /\ N2down(a) # Uu(g, u) /\ N11(a) # Uu(g, u)
    /\ \A a, b, g : Xn(a, b) # N2down(g) /\ N2up(g) # N11(a) /\ N11(a) # N2down(g)
    /\ N11("request") # N11("response")
<1>1. /\ \A a, b \in Gnbs : Xn(a, b) \in Links /\ N2up(a) \in Links /\ N2down(a) \in Links
      /\ \A a \in Gnbs, u \in UEs : Uu(a, u) \in Links
      /\ N11("request") \in Links /\ N11("response") \in Links
  BY DEF Links, Xn, Uu, N2up, N2down, N11
<1>2. /\ \A a, b, c, d : Xn(a, b) = Xn(c, d) => a = c /\ b = d
      /\ \A a, b, c, d : Uu(a, b) = Uu(c, d) => a = c /\ b = d
  BY DEF Xn, Uu
<1>3. /\ \A a, b, g, u : Xn(a, b) # Uu(g, u) /\ N2up(a) # Uu(g, u)
                       /\ N2down(a) # Uu(g, u) /\ N11(a) # Uu(g, u)
      /\ \A a, b, g : Xn(a, b) # N2down(g) /\ N2up(g) # N11(a) /\ N11(a) # N2down(g)
      /\ N11("request") # N11("response")
  BY DEF Xn, Uu, N2up, N2down, N11
<1> QED  BY <1>1, <1>2, <1>3

\* The first message of a link, and what is known of it.
LEMMA HeadFacts ==
    ASSUME IInv, NEW l \in Links, link[l] # << >>
    PROVE  /\ Head(link[l]) \in Msg /\ Head(link[l]) = link[l][1] /\ 1 \in DOMAIN link[l]
           /\ Placed(l, Head(link[l]))
           /\ Head(link[l]).ue \notin overlapped /\ Head(link[l]).type # "RECONFIGURATION"
                => Claim(l, Head(link[l]), Head(link[l]).ue)
<1> DEFINE h == Head(link[l])
<1>1. link[l] \in Seq(Msg)
  BY DEF IInv, TypeOK
<1>2. h \in Msg /\ h = link[l][1] /\ 1 \in DOMAIN link[l]
  BY <1>1, TailLemma DEF Taken
<1> HIDE DEF h
<1>3. Placed(l, h)
  BY <1>2 DEF IInv, Located
<1>4. h.ue \in UEs /\ h \in On(l)
  BY <1>2 DEF Msg, On
<1>5. h.ue \notin overlapped /\ h.type # "RECONFIGURATION" => Claim(l, h, h.ue)
  BY <1>4 DEF IInv, UeInv, Claims, IsToken
<1> QED  BY <1>2, <1>3, <1>5 DEF h

\* What all the steps on the links that touch neither the radio, nor the core,
\* nor the ping-pong table leave as it is.
OnlyLinks == UNCHANGED <<radio, report, core, pingpong, crashed, started, overlapped>>

LEMMA OnlyLinksLemma ==
    ASSUME IInv, OnlyLinks
    PROVE  /\ SameRadio /\ SamePingPong /\ ueRRCState' = ueRRCState
           /\ UNCHANGED <<amfGnbs, amfUes, smfUe, crashed, started, overlapped>>
           /\ CoreType'
           /\ \A v \in UEs : SameCore(v) /\ SelectedCell'[v] = SelectedCell[v]
<1>1. /\ UNCHANGED <<SelectedCell, entities, queue, timer, outstanding, report>>
      /\ UNCHANGED <<lastServingCell, leftCell, reported, missed>>
      /\ ueRRCState' = ueRRCState
      /\ UNCHANGED <<amfGnbs, amfUes, smfUe, crashed, started, overlapped>>
  BY DEF OnlyLinks, radio, core, pingpong
<1>2. CoreType'
  BY <1>1 DEF CoreType, IInv, TypeOK
<1>3. \A v \in UEs : SameCore(v) /\ SelectedCell'[v] = SelectedCell[v]
  BY <1>1 DEF SameCore
<1> QED  BY <1>1, <1>2, <1>3 DEF SameRadio, SamePingPong

\* A message is passed on, and nothing else happens.
LEMMA ForwardStep ==
    ASSUME IInv, ~crashed, OnlyLinks, NEW l \in Links, NEW r \in Links, l # r,
           NEW t0 \in Types, t0 # "RECONFIGURATION", Arrived(l, t0),
           NEW t \in Types, t # "RECONFIGURATION", Relay(l, r, t),
           NEW h, h = Head(link[l]), Placed(r, As(h, t)),
           \/ {t0, t} \subseteq BeforeSwitch
           \/ {t0, t} \subseteq AfterSmf,
           t = "HO_COMMAND" => r = Uu(h.s, h.ue)
    PROVE  IInv'
<1>1. link[l] # << >> /\ h.type = t0
  BY DEF Arrived
<1>2. h \in Msg /\ h.ue \in UEs
  BY <1>1, HeadFacts DEF Msg
<1>3. /\ As(h, t).type = t /\ As(h, t).s = h.s /\ As(h, t).t = h.t
  BY <1>2, AsLemma
<1>4. /\ SameRadio /\ SamePingPong /\ ueRRCState' = ueRRCState
      /\ UNCHANGED <<amfGnbs, amfUes, smfUe, crashed, started, overlapped>>
      /\ CoreType'
      /\ \A v \in UEs : SameCore(v) /\ SelectedCell'[v] = SelectedCell[v]
  BY OnlyLinksLemma
<1> DEFINE a == As(h, t)
<1>5. ASSUME Claim(l, h, h.ue) PROVE Claim(r, a, h.ue)'
  <2> HIDE DEF a
  <2>1. Claim(l, h, h.ue)'
    BY <1>2, <1>4, <1>5, IdleSame
  <2> DEFINE u == h.ue
             g == SelectedCell'[u]
             I == Idle(u)'
             A(x) == AmfAt(u, x)'
             last == lastServingCell'[u]
             ip == smfUe'[u].ip
  <2>2. /\ h.type \in BeforeSwitch => h.s = g /\ I
        /\ h.type \notin BeforeSwitch => h.t = g /\ last \in {NoCell, h.s}
        /\ h.type \in AfterSmf \cup {"MODIFY_REQUEST"} => A(h.t)
        /\ h.type \in AfterSmf => ip = h.t
    BY <2>1 DEF Claim
  <2>3. /\ a.type \in BeforeSwitch => a.s = g /\ I
        /\ a.type = "HO_COMMAND" => r = Uu(g, u)
        /\ a.type \notin BeforeSwitch => a.t = g /\ last \in {NoCell, a.s}
        /\ a.type = "PATH_SWITCH" => A(a.s)
        /\ a.type \in AfterSmf \cup {"MODIFY_REQUEST"} => A(a.t)
        /\ a.type \in AfterSmf => ip = a.t
    <3> HIDE DEF u, g, I, A, last, ip
    <3>1. /\ a.type = t /\ a.s = h.s /\ a.t = h.t
      BY <1>3 DEF a
    <3>2. CASE {t0, t} \subseteq BeforeSwitch
      <4>1. h.s = g /\ I
        BY <1>1, <2>2, <3>2
      <4>2. t = "HO_COMMAND" => r = Uu(g, u)
        BY <4>1 DEF u
      <4> QED  BY <3>1, <3>2, <4>1, <4>2 DEF BeforeSwitch, AfterSmf
    <3>3. CASE {t0, t} \subseteq AfterSmf
      BY <1>1, <2>2, <3>1, <3>3 DEF BeforeSwitch, AfterSmf
    <3> QED  BY <3>2, <3>3
  <2> QED  BY <2>3 DEF Claim
<1> QED  BY <1>1, <1>4, <1>5, RelayStep

LEMMA RequestStep ==
    ASSUME IInv, ~crashed, NEW s \in Gnbs, NEW t \in Gnbs, HANDOVER_REQUEST_RECV(s, t)
    PROVE  IInv'
<1> DEFINE l == Xn(s, t)
           r == Xn(t, s)
           h == Head(link[l])
           t0 == "HO_REQUEST"
           t1 == "HO_REQUEST_ACK"
<1>1. Arrived(l, t0) /\ Relay(l, r, t1) /\ OnlyLinks
  BY DEF HANDOVER_REQUEST_RECV, OnlyLinks
<1>2. l \in Links /\ r \in Links
  BY LinkFacts
<1>3. link[l] # << >> /\ h.type = t0
  BY <1>1 DEF Arrived
<1>4. h \in Msg /\ Placed(l, h)
  BY <1>2, <1>3, HeadFacts
<1>5. t0 \in Types /\ t1 \in Types /\ t0 # "RECONFIGURATION" /\ t1 # "RECONFIGURATION"
      /\ {t0, t1} \subseteq BeforeSwitch /\ t1 # "HO_COMMAND"
  BY DEF Types, BeforeSwitch
<1> DEFINE a == As(h, t1)
<1> HIDE DEF h
<1>6. a.type = t1 /\ a.s = h.s /\ a.t = h.t
  BY <1>4, <1>5, AsLemma
<1>7. l = Xn(h.s, h.t) /\ h.s # h.t
  BY <1>3, <1>4 DEF Placed
<1>8. s = h.s /\ t = h.t /\ l # r
  BY <1>7, LinkFacts
<1>9. Placed(r, a)
  <2> HIDE DEF a
  <2>1. \A g, u : r # Uu(g, u)
    BY LinkFacts
  <2> QED  BY <1>6, <1>7, <1>8, <2>1 DEF Placed
<1> HIDE DEF l, r, t0, t1
<1> QED  BY <1>1, <1>2, <1>5, <1>8, <1>9, ForwardStep DEF h

\* A message before the switch is dropped, and nothing else happens.
LEMMA DropStep ==
    ASSUME IInv, ~crashed, OnlyLinks, NEW l \in Links, link[l] # << >>, Take(l),
           NEW h, h = Head(link[l]), h.type \in BeforeSwitch
    PROVE  IInv'
<1>1. /\ SameRadio /\ SamePingPong /\ ueRRCState' = ueRRCState
      /\ UNCHANGED <<amfGnbs, amfUes, smfUe, crashed, started, overlapped>>
      /\ \A v \in UEs : SameCore(v) /\ SelectedCell'[v] = SelectedCell[v]
  BY OnlyLinksLemma
<1>2. /\ timer' = timer /\ SelectedCell' = SelectedCell
      /\ UNCHANGED <<entities, queue, outstanding, report>>
      /\ lastServingCell' = lastServingCell /\ leftCell' = leftCell
      /\ reported' = reported /\ missed' = missed
  BY <1>1 DEF SameRadio, SamePingPong
<1>3. /\ timer \in [UEs -> Seq(Msg)] /\ SelectedCell \in [UEs -> Gnbs]
      /\ ueRRCState \in [UEs -> {"CONNECTED", "INACTIVE"}]
      /\ lastServingCell \in [UEs -> Gnbs \cup {NoCell}]
      /\ leftCell \in [UEs -> Gnbs \cup {NoCell}]
      /\ {reported, missed} \subseteq SUBSET UEs
  BY DEF IInv, TypeOK
<1>4. ReportsNeedOverlap'
  BY <1>1, <1>2 DEF IInv, ReportsNeedOverlap
<1>5. h.ue \in UEs
  BY HeadFacts DEF Msg
<1>6. \A i \in DOMAIN timer[h.ue] :
         timer[h.ue][i].ue = h.ue /\ timer[h.ue][i].s # timer[h.ue][i].t
  BY <1>5 DEF IInv, Located
<1>7. ASSUME Claim(l, h, h.ue) PROVE Idle(h.ue)'
  <2>1. Idle(h.ue)
    BY <1>7 DEF Claim
  <2> QED  BY <1>1, <1>5, <2>1, IdleSame
<1>8. h.type # "RECONFIGURATION"
  BY DEF BeforeSwitch
<1>9. timer'[h.ue] = timer[h.ue]
  BY <1>2
<1>10. TokenTaken(l, h)
  BY <1>7, <1>9 DEF TokenTaken
<1>11. TakeEffect(l, h)
  BY <1>1, <1>2, <1>3, <1>6 DEF TakeEffect
<1> QED  BY <1>4, <1>10, <1>11, TakeStep

LEMMA RequestAckStep ==
    ASSUME IInv, ~crashed, NEW t \in Gnbs, NEW s \in Gnbs, HANDOVER_REQUEST_ACK_RECV(t, s)
    PROVE  IInv'
<1> DEFINE l == Xn(t, s)
           h == Head(link[l])
           u == h.ue
           r == Uu(s, u)
           t0 == "HO_REQUEST_ACK"
           t1 == "HO_COMMAND"
<1>1. /\ Arrived(l, t0) /\ OnlyLinks
      /\ IF u \in entities[s] THEN Relay(l, r, t1) ELSE Take(l)
  BY DEF HANDOVER_REQUEST_ACK_RECV, OnlyLinks
<1>2. l \in Links
  BY LinkFacts
<1>3. link[l] # << >> /\ h.type = t0
  BY <1>1 DEF Arrived
<1>4. h \in Msg /\ Placed(l, h) /\ u \in UEs
  BY <1>2, <1>3, HeadFacts DEF Msg
<1>5. r \in Links /\ l # r
  BY <1>4, LinkFacts
<1>6. t0 \in Types /\ t1 \in Types /\ t0 # "RECONFIGURATION" /\ t1 # "RECONFIGURATION"
      /\ {t0, t1} \subseteq BeforeSwitch
  BY DEF Types, BeforeSwitch
<1> DEFINE a == As(h, t1)
<1> HIDE DEF h
<1>7. a.type = t1 /\ a.s = h.s /\ a.t = h.t /\ a.ue = u
  BY <1>4, <1>6, AsLemma
<1>8. l = Xn(h.t, h.s) /\ h.s # h.t
  BY <1>3, <1>4 DEF Placed
<1>9. s = h.s /\ t = h.t
  BY <1>8, LinkFacts
<1>10. Placed(r, a)
  <2> HIDE DEF a
  <2>1. \A g, x : r = Uu(g, x) => x = u
    BY LinkFacts
  <2> QED  BY <1>7, <1>8, <2>1 DEF Placed
<1>11. CASE u \in entities[s]
  <2> HIDE DEF l, r, t0, t1
  <2> QED  BY <1>1, <1>2, <1>5, <1>6, <1>9, <1>10, <1>11, ForwardStep DEF h, r
<1>12. CASE u \notin entities[s]
  <2>1. h.type \in BeforeSwitch /\ Take(l)
    BY <1>1, <1>3, <1>12 DEF BeforeSwitch
  <2> HIDE DEF l, t0
  <2> QED  BY <1>1, <1>2, <1>3, <2>1, DropStep DEF h
<1> QED  BY <1>11, <1>12

LEMMA ResponseStep ==
    ASSUME IInv, ~crashed, MODIFY_BEARER_RESPONSE_RECV
    PROVE  IInv'
<1> DEFINE l == N11("response")
           h == Head(link[l])
           r == N2down(h.t)
           t0 == "MODIFY_RESPONSE"
           t1 == "PATH_SWITCH_ACK"
<1>1. Arrived(l, t0) /\ Relay(l, r, t1) /\ OnlyLinks
  BY DEF MODIFY_BEARER_RESPONSE_RECV, OnlyLinks
<1>2. l \in Links
  BY LinkFacts
<1>3. link[l] # << >> /\ h.type = t0
  BY <1>1 DEF Arrived
<1>4. h \in Msg /\ Placed(l, h) /\ h.t \in Gnbs
  BY <1>2, <1>3, HeadFacts DEF Msg
<1>5. r \in Links /\ l # r
  BY <1>4, LinkFacts
<1>6. t0 \in Types /\ t1 \in Types /\ t0 # "RECONFIGURATION" /\ t1 # "RECONFIGURATION"
      /\ {t0, t1} \subseteq AfterSmf /\ t1 # "HO_COMMAND"
  BY DEF Types, AfterSmf
<1> DEFINE a == As(h, t1)
<1> HIDE DEF h
<1>7. a.type = t1 /\ a.s = h.s /\ a.t = h.t
  BY <1>4, <1>6, AsLemma
<1>8. Placed(r, a)
  <2> HIDE DEF a
  <2>1. \A g, u : r # Uu(g, u)
    BY LinkFacts
  <2> QED  BY <1>4, <1>7, <2>1 DEF Placed
<1> HIDE DEF l, r, t0, t1
<1> QED  BY <1>1, <1>2, <1>5, <1>6, <1>8, ForwardStep DEF h

LEMMA PathSwitchAckStep ==
    ASSUME IInv, ~crashed, NEW g \in Gnbs, PATH_SWITCH_ACK_RECV(g)
    PROVE  IInv'
<1> DEFINE l == N2down(g)
           h == Head(link[l])
           r == Xn(h.t, h.s)
           t0 == "PATH_SWITCH_ACK"
           t1 == "CONTEXT_RELEASE"
<1>1. Arrived(l, t0) /\ Relay(l, r, t1) /\ OnlyLinks
  BY DEF PATH_SWITCH_ACK_RECV, OnlyLinks
<1>2. l \in Links
  BY LinkFacts
<1>3. link[l] # << >> /\ h.type = t0
  BY <1>1 DEF Arrived
<1>4. h \in Msg /\ Placed(l, h) /\ h.t \in Gnbs /\ h.s \in Gnbs
  BY <1>2, <1>3, HeadFacts DEF Msg
<1>5. r \in Links /\ l # r
  BY <1>4, LinkFacts
<1>6. t0 \in Types /\ t1 \in Types /\ t0 # "RECONFIGURATION" /\ t1 # "RECONFIGURATION"
      /\ {t0, t1} \subseteq AfterSmf /\ t1 # "HO_COMMAND"
  BY DEF Types, AfterSmf
<1> DEFINE a == As(h, t1)
<1> HIDE DEF h
<1>7. a.type = t1 /\ a.s = h.s /\ a.t = h.t
  BY <1>4, <1>6, AsLemma
<1>8. Placed(r, a)
  <2> HIDE DEF a
  <2>1. \A x, u : r # Uu(x, u)
    BY LinkFacts
  <2> QED  BY <1>4, <1>7, <2>1 DEF Placed
<1> HIDE DEF l, r, t0, t1
<1> QED  BY <1>1, <1>2, <1>5, <1>6, <1>8, ForwardStep DEF h

LEMMA ReleaseStep ==
    ASSUME IInv, ~crashed, NEW t \in Gnbs, NEW s \in Gnbs, UE_CONTEXT_RELEASE_RECV(t, s)
    PROVE  IInv'
<1> DEFINE l == Xn(t, s)
           r == Xn(s, t)
           h == Head(link[l])
           t0 == "CONTEXT_RELEASE"
           t1 == "CONTEXT_RELEASE_ACK"
<1>1. Arrived(l, t0) /\ Relay(l, r, t1) /\ OnlyLinks
  BY DEF UE_CONTEXT_RELEASE_RECV, OnlyLinks
<1>2. l \in Links /\ r \in Links
  BY LinkFacts
<1>3. link[l] # << >> /\ h.type = t0
  BY <1>1 DEF Arrived
<1>4. h \in Msg /\ Placed(l, h)
  BY <1>2, <1>3, HeadFacts
<1>5. t0 \in Types /\ t1 \in Types /\ t0 # "RECONFIGURATION" /\ t1 # "RECONFIGURATION"
      /\ {t0, t1} \subseteq AfterSmf /\ t1 # "HO_COMMAND"
  BY DEF Types, AfterSmf
<1> DEFINE a == As(h, t1)
<1> HIDE DEF h
<1>6. a.type = t1 /\ a.s = h.s /\ a.t = h.t
  BY <1>4, <1>5, AsLemma
<1>7. l = Xn(h.t, h.s) /\ h.s # h.t
  BY <1>3, <1>4 DEF Placed
<1>8. s = h.s /\ t = h.t /\ l # r
  BY <1>7, LinkFacts
<1>9. Placed(r, a)
  <2> HIDE DEF a
  <2>1. \A g, u : r # Uu(g, u)
    BY LinkFacts
  <2> QED  BY <1>6, <1>7, <1>8, <2>1 DEF Placed
<1> HIDE DEF l, r, t0, t1
<1> QED  BY <1>1, <1>2, <1>5, <1>8, <1>9, ForwardStep DEF h

-----------------------------------------------------------------------------
\* The command starts the timer of the interruption.
LEMMA CommandStep ==
    ASSUME IInv, ~crashed, NEW g \in Gnbs, NEW u \in UEs, HANDOVER_COMMAND_HANDLE(g, u)
    PROVE  IInv'
<1> DEFINE l == Uu(g, u)
<1>1. PICK h : h = Head(link[l])
  OBVIOUS
<1>2. /\ link[l] # << >> /\ h.type = "HO_COMMAND" /\ Take(l)
      /\ timer' = [timer EXCEPT ![u] = Snoc(timer[u], h)]
      /\ ueRRCState' = [ueRRCState EXCEPT ![u] = "INACTIVE"]
      /\ UNCHANGED <<SelectedCell, entities, queue, outstanding, report>>
      /\ UNCHANGED <<lastServingCell, leftCell, reported, missed>>
      /\ UNCHANGED <<amfGnbs, amfUes, smfUe, crashed, started, overlapped>>
  BY <1>1 DEF HANDOVER_COMMAND_HANDLE, Arrived, Snoc, core, pingpong
<1>3. l \in Links
  BY LinkFacts
<1>4. h \in Msg /\ Placed(l, h)
  BY <1>1, <1>2, <1>3, HeadFacts
<1>5. h.ue = u /\ h.s # h.t
  BY <1>4 DEF Placed
<1>6. /\ timer \in [UEs -> Seq(Msg)] /\ SelectedCell \in [UEs -> Gnbs]
      /\ ueRRCState \in [UEs -> {"CONNECTED", "INACTIVE"}]
      /\ lastServingCell \in [UEs -> Gnbs \cup {NoCell}]
      /\ leftCell \in [UEs -> Gnbs \cup {NoCell}]
      /\ {reported, missed} \subseteq SUBSET UEs
  BY DEF IInv, TypeOK
<1>7. timer[u] \in Seq(Msg)
  BY <1>6
<1> DEFINE p == Snoc(timer[u], h)
<1>8. p \in Seq(Msg) /\ Put(timer[u], p, h)
  BY <1>4, <1>7, SnocLemma
<1>9. timer[u] = << >> => Len(p) = 1 /\ p[1] = h
  <2> SUFFICES ASSUME timer[u] = << >> PROVE Len(p) = 1 /\ p[1] = h
    OBVIOUS
  <2>1. Len(timer[u]) = 0
    BY <1>7, EmptySeq
  <2>2. Len(p) = Len(timer[u]) + 1 /\ p[Len(timer[u]) + 1] = h
    BY <1>4, <1>7, AppendProperties DEF Snoc
  <2> QED  BY <2>1, <2>2
<1> HIDE DEF p
<1>10. timer'[u] = p /\ timer' \in [UEs -> Seq(Msg)] /\ \A v \in UEs : v # u => timer'[v] = timer[v]
  BY <1>2, <1>6, <1>8 DEF p
<1>11. \A i \in DOMAIN p : p[i].ue = u /\ p[i].s # p[i].t
  BY <1>5, <1>8 DEF Put, IInv, Located
<1>12. ueRRCState' \in [UEs -> {"CONNECTED", "INACTIVE"}]
  BY <1>2, <1>6
<1> HIDE DEF l
<1>13. TakeEffect(l, h)
  BY <1>2, <1>5, <1>6, <1>10, <1>11, <1>12 DEF TakeEffect
<1>14. TokenTaken(l, h)
  <2> SUFFICES ASSUME Claim(l, h, u), timer[u] = << >>
               PROVE  Idle(u)' /\ Len(timer'[u]) = 1 /\ timer'[u][1].s = SelectedCell[u]
    BY <1>2, <1>5 DEF TokenTaken
  <2>1. h.s = SelectedCell[u] /\ Idle(u)
    BY <1>2 DEF Claim, BeforeSwitch
  <2>2. SameCore(u) /\ SelectedCell'[u] = SelectedCell[u]
    BY <1>2 DEF SameCore
  <2>3. Idle(u)'
    BY <2>1, <2>2, IdleSame
  <2> QED  BY <1>9, <1>10, <2>1, <2>3
<1>15. ReportsNeedOverlap'
  BY <1>2 DEF IInv, ReportsNeedOverlap
<1> QED  BY <1>1, <1>2, <1>3, <1>13, <1>14, <1>15, TakeStep

\* A reconfiguration message of a UE whose handovers do not overlap names the
\* cell it has selected already.
LEMMA ReconfigurationStep ==
    ASSUME IInv, ~crashed, NEW g \in Gnbs, NEW u \in UEs, RECONFIGURATION_RECV(g, u)
    PROVE  IInv'
<1> DEFINE l == Uu(g, u)
<1>1. PICK h : h = Head(link[l])
  OBVIOUS
<1>2. /\ link[l] # << >> /\ h.type = "RECONFIGURATION" /\ Take(l)
      /\ \/ SelectedCell' = SelectedCell
         \/ SelectedCell[u] # h.t /\ SelectedCell' = [SelectedCell EXCEPT ![u] = h.t]
      /\ UNCHANGED <<ueRRCState, timer, entities, queue, outstanding, report>>
      /\ UNCHANGED <<lastServingCell, leftCell, reported, missed>>
      /\ UNCHANGED <<amfGnbs, amfUes, smfUe, crashed, started, overlapped>>
  BY <1>1 DEF RECONFIGURATION_RECV, Arrived, core, pingpong
<1>3. l \in Links
  BY LinkFacts
<1>4. h \in Msg /\ Placed(l, h) /\ h = link[l][1] /\ 1 \in DOMAIN link[l]
  BY <1>1, <1>2, <1>3, HeadFacts
<1>5. h.ue = u /\ h.t \in Gnbs
  BY <1>4 DEF Placed, Msg
<1>6. /\ timer \in [UEs -> Seq(Msg)] /\ SelectedCell \in [UEs -> Gnbs]
      /\ ueRRCState \in [UEs -> {"CONNECTED", "INACTIVE"}]
      /\ lastServingCell \in [UEs -> Gnbs \cup {NoCell}]
      /\ leftCell \in [UEs -> Gnbs \cup {NoCell}]
      /\ {reported, missed} \subseteq SUBSET UEs
  BY DEF IInv, TypeOK
<1>7. u \notin overlapped => h.t = SelectedCell[u]
  BY <1>2, <1>3, <1>4, <1>5 DEF IInv, UeInv, Reconf, IsReconf
<1>8. /\ SelectedCell' \in [UEs -> Gnbs]
      /\ \A v \in UEs : v \notin overlapped => SelectedCell'[v] = SelectedCell[v]
  BY <1>2, <1>5, <1>6, <1>7
<1>9. \A i \in DOMAIN timer[u] : timer[u][i].ue = u /\ timer[u][i].s # timer[u][i].t
  BY DEF IInv, Located
<1> HIDE DEF l
<1>10. TakeEffect(l, h)
  BY <1>2, <1>5, <1>6, <1>8, <1>9 DEF TakeEffect
<1>11. TokenTaken(l, h)
  BY <1>2 DEF TokenTaken
<1>12. ReportsNeedOverlap'
  BY <1>2 DEF IInv, ReportsNeedOverlap
<1> QED  BY <1>1, <1>2, <1>3, <1>10, <1>11, <1>12, TakeStep

\* The end of a handover: the table never holds the target of a handover that
\* does not overlap another.
LEMMA ReleaseAckStep ==
    ASSUME IInv, ~crashed, NEW s \in Gnbs, NEW t \in Gnbs, NEW gap \in Gaps,
           UE_CONTEXT_RELEASE_ACK_RECV(s, t, gap)
    PROVE  IInv'
<1> DEFINE l == Xn(s, t)
<1>1. PICK h : h = Head(link[l])
  OBVIOUS
<1>2. /\ link[l] # << >> /\ h.type = "CONTEXT_RELEASE_ACK" /\ Take(l)
      /\ lastServingCell' = [lastServingCell EXCEPT ![h.ue] = h.t]
      /\ leftCell' = [leftCell EXCEPT ![h.ue] = h.s]
      /\ \/ reported' = reported
         \/ h.t = lastServingCell[h.ue] /\ reported' = reported \cup {h.ue}
      /\ missed' \in {missed, missed \cup {h.ue}}
      /\ UNCHANGED <<SelectedCell, ueRRCState, timer, entities, queue, outstanding, report>>
      /\ UNCHANGED <<amfGnbs, amfUes, smfUe, crashed, started, overlapped>>
  BY <1>1 DEF UE_CONTEXT_RELEASE_ACK_RECV, send_pingpong_event, IsPingPong, Arrived,
              core, radio
<1>3. l \in Links
  BY LinkFacts
<1>4. h \in Msg /\ Placed(l, h)
      /\ (h.ue \notin overlapped => Claim(l, h, h.ue))
  BY <1>1, <1>2, <1>3, HeadFacts
<1>5. h.ue \in UEs /\ h.s \in Gnbs /\ h.t \in Gnbs /\ h.s # h.t
  BY <1>4 DEF Msg, Placed
<1>6. /\ timer \in [UEs -> Seq(Msg)] /\ SelectedCell \in [UEs -> Gnbs]
      /\ ueRRCState \in [UEs -> {"CONNECTED", "INACTIVE"}]
      /\ lastServingCell \in [UEs -> Gnbs \cup {NoCell}]
      /\ leftCell \in [UEs -> Gnbs \cup {NoCell}]
      /\ reported \subseteq UEs /\ missed \subseteq UEs
  BY DEF IInv, TypeOK
<1>7. ASSUME h.ue \notin overlapped
      PROVE  /\ h.t = SelectedCell[h.ue] /\ lastServingCell[h.ue] \in {NoCell, h.s}
             /\ AmfAt(h.ue, h.t) /\ smfUe[h.ue].ip = h.t
  BY <1>2, <1>4, <1>7 DEF Claim, BeforeSwitch, AfterSmf
<1>8. ReportsNeedOverlap'
  <2>1. reported \subseteq overlapped
    BY DEF IInv, ReportsNeedOverlap
  <2>2. h.t # NoCell
    BY <1>5, XnHandoverAssumption
  <2>3. h.ue \notin overlapped => h.t # lastServingCell[h.ue]
    BY <1>5, <1>7, <2>2
  <2> QED  BY <1>2, <2>1, <2>3 DEF ReportsNeedOverlap
<1>9. reported' \subseteq UEs /\ missed' \subseteq UEs
  BY <1>2, <1>5, <1>6
<1>10. /\ lastServingCell' \in [UEs -> Gnbs \cup {NoCell}]
       /\ leftCell' \in [UEs -> Gnbs \cup {NoCell}]
       /\ \A u \in UEs : u # h.ue => lastServingCell'[u] = lastServingCell[u]
       /\ lastServingCell'[h.ue] = h.t
  BY <1>2, <1>5, <1>6
<1>11. \A i \in DOMAIN timer[h.ue] :
          timer[h.ue][i].ue = h.ue /\ timer[h.ue][i].s # timer[h.ue][i].t
  BY <1>5 DEF IInv, Located
<1> HIDE DEF l
<1>12. TakeEffect(l, h)
  BY <1>2, <1>6, <1>9, <1>10, <1>11 DEF TakeEffect
<1>13. TokenTaken(l, h)
  <2> SUFFICES ASSUME h.ue \notin overlapped
               PROVE  Idle(h.ue)' /\ timer'[h.ue] = timer[h.ue]
    BY DEF TokenTaken
  <2>1. AmfAt(h.ue, h.t)'
    BY <1>2, <1>7 DEF AmfAt
  <2>2. SelectedCell'[h.ue] = h.t /\ smfUe'[h.ue].ip = h.t
    BY <1>2, <1>7
  <2> QED  BY <1>2, <1>10, <2>1, <2>2 DEF Idle
<1> QED  BY <1>1, <1>2, <1>3, <1>8, <1>12, <1>13, TakeStep

-----------------------------------------------------------------------------
\* The AMF finds the source of a handover that does not overlap another.
LEMMA PathSwitchStep ==
    ASSUME IInv, ~crashed, NEW g \in Gnbs, PATH_SWITCH_RECV(g)
    PROVE  IInv'
<1> DEFINE l == N2up(g)
           r == N11("request")
           t0 == "PATH_SWITCH"
           t1 == "MODIFY_REQUEST"
<1>1. PICK h : h = Head(link[l])
  OBVIOUS
<1>2. /\ link[l] # << >> /\ h.type = t0
      /\ \/ ~({h.s, h.t} \subseteq amfGnbs \cup {h.t}) /\ Crash
         \/ /\ amfGnbs' = amfGnbs \cup {h.t}
            /\ \E left \in AMF_DeleteUE(amfUes[h.s][h.ue]) : AMF_Move(h, left)
            /\ Relay(l, r, t1)
            /\ UNCHANGED <<radio, report, smfUe, pingpong, crashed, started, overlapped>>
  BY <1>1 DEF PATH_SWITCH_RECV, Arrived, AddgNB
<1>3. l \in Links /\ r \in Links /\ l # r
  BY LinkFacts
<1>4. h \in Msg /\ Placed(l, h)
      /\ (h.ue \notin overlapped => Claim(l, h, h.ue))
  BY <1>1, <1>2, <1>3, HeadFacts
<1>5. h.ue \in UEs /\ h.s \in Gnbs /\ h.t \in Gnbs /\ h.s # h.t
  BY <1>4 DEF Msg, Placed
<1>6. CASE ~({h.s, h.t} \subseteq amfGnbs \cup {h.t}) /\ Crash
  <2>1. /\ link' = link /\ timer' = timer /\ entities' = entities /\ queue' = queue
        /\ outstanding' = outstanding /\ ueRRCState' = ueRRCState /\ started' = started
        /\ SelectedCell' = SelectedCell /\ report' = report
        /\ UNCHANGED <<amfGnbs, amfUes, smfUe, lastServingCell, reported, overlapped>>
        /\ UNCHANGED <<leftCell, missed>> /\ crashed' = TRUE
    BY <1>6 DEF Crash, radio, core, pingpong
  <2>2. h.s \notin amfGnbs
    BY <1>6
  <2>3. h.ue \in overlapped
    BY <1>2, <1>4, <2>2 DEF Claim, AmfAt
  <2>4. CrashNeedsOverlap'
    BY <2>1, <2>3 DEF CrashNeedsOverlap
  <2>5. OneServer' /\ Queued'
    BY <2>1 DEF IInv, OneServer, Queued
  <2>6. \A v \in UEs \ overlapped : report'[v] \in {NoCell, SelectedCell[v]}
    BY <2>1 DEF IInv, UeInv
  <2>7. TypeOK'
    <3>1. crashed' \in BOOLEAN
      BY <2>1
    <3> QED  BY <2>1, <3>1 DEF IInv, TypeOK
  <2> QED  BY <2>1, <2>4, <2>5, <2>6, <2>7, RadioStep
<1>7. CASE /\ amfGnbs' = amfGnbs \cup {h.t}
           /\ \E left \in AMF_DeleteUE(amfUes[h.s][h.ue]) : AMF_Move(h, left)
           /\ Relay(l, r, t1)
           /\ UNCHANGED <<radio, report, smfUe, pingpong, crashed, started, overlapped>>
  <2>1. /\ SameRadio /\ SamePingPong /\ ueRRCState' = ueRRCState
        /\ UNCHANGED <<smfUe, crashed, started, overlapped>>
    BY <1>7 DEF radio, pingpong, SameRadio, SamePingPong
  <2>2. PICK left \in AMF_DeleteUE(amfUes[h.s][h.ue]) :
           amfUes' = [amfUes EXCEPT ![h.s][h.ue] = left, ![h.t][h.ue] = @ + 1]
    BY <1>7 DEF AMF_Move
  <2>3. amfUes \in [Gnbs -> [UEs -> Nat]] /\ amfGnbs \in SUBSET Gnbs
        /\ smfUe \in [UEs -> [gnb : Gnbs, ip : Gnbs]]
    BY DEF IInv, TypeOK
  <2>4. amfUes[h.s][h.ue] \in Nat /\ amfUes[h.t][h.ue] \in Nat
    BY <1>5, <2>3
  <2>5. left \in Nat /\ (amfUes[h.s][h.ue] = 1 => left = 0)
    BY <2>2, <2>4 DEF AMF_DeleteUE
  <2>6. /\ amfUes' \in [Gnbs -> [UEs -> Nat]]
        /\ amfUes'[h.s][h.ue] = left
        /\ amfUes'[h.t][h.ue] = amfUes[h.t][h.ue] + 1
        /\ \A x \in Gnbs : x # h.s /\ x # h.t => amfUes'[x] = amfUes[x]
        /\ \A x \in Gnbs, v \in UEs : v # h.ue => amfUes'[x][v] = amfUes[x][v]
    <3>1. amfUes' = [amfUes EXCEPT ![h.s][h.ue] = left, ![h.t][h.ue] = @ + 1]
      BY <2>2
    <3>2. \A x \in Gnbs :
             amfUes'[x] = IF x = h.s THEN [amfUes[h.s] EXCEPT ![h.ue] = left]
                          ELSE IF x = h.t THEN [amfUes[h.t] EXCEPT ![h.ue] = amfUes[h.t][h.ue] + 1]
                          ELSE amfUes[x]
      BY <1>5, <2>3, <2>4, <2>5, <3>1
    <3>3. amfUes' = [x \in Gnbs |-> amfUes'[x]]
      BY <2>3, <3>1
    <3> DEFINE p == [amfUes[h.s] EXCEPT ![h.ue] = left]
               q == [amfUes[h.t] EXCEPT ![h.ue] = amfUes[h.t][h.ue] + 1]
    <3>4. /\ p \in [UEs -> Nat] /\ p[h.ue] = left
          /\ \A v \in UEs : v # h.ue => p[v] = amfUes[h.s][v]
      BY <1>5, <2>3, <2>5
    <3>5. /\ q \in [UEs -> Nat] /\ q[h.ue] = amfUes[h.t][h.ue] + 1
          /\ \A v \in UEs : v # h.ue => q[v] = amfUes[h.t][v]
      <4> DEFINE n == amfUes[h.t][h.ue] + 1
      <4>1. n \in Nat
        BY <2>4
      <4> HIDE DEF n
      <4>2. q = [amfUes[h.t] EXCEPT ![h.ue] = n]
        BY DEF n
      <4> QED  BY <1>5, <2>3, <4>1, <4>2 DEF n
    <3>6. amfUes'[h.s] = p /\ amfUes'[h.t] = q
          /\ \A x \in Gnbs : x # h.s /\ x # h.t => amfUes'[x] = amfUes[x]
      BY <1>5, <3>2
    <3> HIDE DEF p, q
    <3>7. \A x \in Gnbs : amfUes'[x] \in [UEs -> Nat]
      BY <2>3, <3>4, <3>5, <3>6
    <3>8. amfUes' \in [Gnbs -> [UEs -> Nat]]
      BY <3>3, <3>7
    <3> QED  BY <3>4, <3>5, <3>6, <3>8
  <2>7. CoreType'
    BY <1>5, <1>7, <2>1, <2>3, <2>6 DEF CoreType
  <2>8. \A v \in UEs : v # h.ue => SameCore(v)
    BY <1>7, <2>1, <2>6 DEF SameCore, SamePingPong
  <2> DEFINE a == As(h, t1)
  <2>9. a.type = t1 /\ a.s = h.s /\ a.t = h.t
    <3>1. t1 \in Types
      BY DEF Types
    <3> HIDE DEF t1
    <3> QED  BY <1>4, <3>1, AsLemma
  <2>10. Placed(r, a)
    <3> HIDE DEF a
    <3>1. \A x, u : r # Uu(x, u)
      BY LinkFacts
    <3> QED  BY <1>5, <2>9, <3>1 DEF Placed
  <2>11. ASSUME Claim(l, h, h.ue) PROVE Claim(r, a, h.ue)'
    <3>1. /\ h.t = SelectedCell[h.ue] /\ lastServingCell[h.ue] \in {NoCell, h.s}
          /\ AmfAt(h.ue, h.s)
      BY <1>2, <2>11 DEF Claim, BeforeSwitch
    <3>2. /\ h.t = SelectedCell'[h.ue] /\ lastServingCell'[h.ue] \in {NoCell, h.s}
      BY <2>1, <3>1 DEF SameRadio, SamePingPong
    <3>3. AmfAt(h.ue, h.t)'
      <4>1. left = 0 /\ amfUes[h.t][h.ue] = 0
        BY <1>5, <2>5, <3>1 DEF AmfAt
      <4>2. \A x \in Gnbs : amfUes'[x][h.ue] = IF x = h.t THEN 1 ELSE 0
        BY <1>5, <2>6, <3>1, <4>1 DEF AmfAt
      <4> QED  BY <1>7, <4>2 DEF AmfAt
    <3> HIDE DEF a
    <3> QED  BY <2>9, <3>2, <3>3 DEF Claim, BeforeSwitch, AfterSmf
  <2>12. h.type # "RECONFIGURATION" /\ t1 # "RECONFIGURATION" /\ t1 \in Types
    BY <1>2 DEF Types
  <2> HIDE DEF l, r, t0, t1
  <2> QED  BY <1>1, <1>2, <1>3, <1>7, <2>1, <2>7, <2>8, <2>10, <2>11, <2>12, RelayStep
<1> QED  BY <1>2, <1>6, <1>7

\* The SMF reads the cell the UE has selected by now: the target, unless
\* handovers overlap.
LEMMA ModifyStep ==
    ASSUME IInv, ~crashed, MODIFY_BEARER_REQUEST_RECV
    PROVE  IInv'
<1> DEFINE l == N11("request")
           r == N11("response")
           t1 == "MODIFY_RESPONSE"
<1>1. PICK h : h = Head(link[l])
  OBVIOUS
<1>2. /\ link[l] # << >> /\ h.type = "MODIFY_REQUEST" /\ Relay(l, r, t1)
      /\ smfUe' = [smfUe EXCEPT ![h.ue] = [gnb |-> h.s, ip |-> SelectedCell[h.ue]]]
      /\ UNCHANGED <<radio, report, amfGnbs, amfUes, pingpong, crashed, started, overlapped>>
  BY <1>1 DEF MODIFY_BEARER_REQUEST_RECV, Arrived, SMF_Entry
<1>3. l \in Links /\ r \in Links /\ l # r
  BY LinkFacts
<1>4. h \in Msg /\ Placed(l, h)
  BY <1>1, <1>2, <1>3, HeadFacts
<1>5. h.ue \in UEs /\ h.s \in Gnbs /\ h.t \in Gnbs /\ h.s # h.t
  BY <1>4 DEF Msg, Placed
<1>6. /\ SameRadio /\ SamePingPong /\ ueRRCState' = ueRRCState
      /\ UNCHANGED <<amfGnbs, amfUes, crashed, started, overlapped>>
  BY <1>2 DEF radio, pingpong, SameRadio, SamePingPong
<1>7. amfUes \in [Gnbs -> [UEs -> Nat]] /\ amfGnbs \in SUBSET Gnbs
      /\ smfUe \in [UEs -> [gnb : Gnbs, ip : Gnbs]] /\ SelectedCell \in [UEs -> Gnbs]
  BY DEF IInv, TypeOK
<1>8. /\ smfUe' \in [UEs -> [gnb : Gnbs, ip : Gnbs]]
      /\ smfUe'[h.ue].ip = SelectedCell[h.ue]
      /\ \A v \in UEs : v # h.ue => smfUe'[v] = smfUe[v]
  BY <1>2, <1>5, <1>7
<1>9. CoreType'
  BY <1>6, <1>7, <1>8 DEF CoreType
<1>10. \A v \in UEs : v # h.ue => SameCore(v)
  BY <1>6, <1>8 DEF SameCore, SamePingPong
<1> DEFINE a == As(h, t1)
<1>11. t1 \in Types /\ t1 # "RECONFIGURATION" /\ h.type # "RECONFIGURATION"
  BY <1>2 DEF Types
<1>12. a.type = t1 /\ a.s = h.s /\ a.t = h.t
  <2> HIDE DEF t1
  <2> QED  BY <1>4, <1>11, AsLemma
<1>13. Placed(r, a)
  <2> HIDE DEF a
  <2>1. \A x, u : r # Uu(x, u)
    BY LinkFacts
  <2> QED  BY <1>5, <1>12, <2>1 DEF Placed
<1>14. ASSUME Claim(l, h, h.ue) PROVE Claim(r, a, h.ue)'
  <2>1. /\ h.t = SelectedCell[h.ue] /\ lastServingCell[h.ue] \in {NoCell, h.s}
        /\ AmfAt(h.ue, h.t)
    BY <1>2, <1>14 DEF Claim, BeforeSwitch, AfterSmf
  <2>2. /\ h.t = SelectedCell'[h.ue] /\ lastServingCell'[h.ue] \in {NoCell, h.s}
        /\ smfUe'[h.ue].ip = h.t
    BY <1>6, <1>8, <2>1 DEF SameRadio, SamePingPong
  <2>3. AmfAt(h.ue, h.t)'
    BY <1>6, <2>1 DEF AmfAt
  <2> HIDE DEF a
  <2> QED  BY <1>12, <2>2, <2>3 DEF Claim, BeforeSwitch, AfterSmf
<1> HIDE DEF l, r, t1
<1> QED  BY <1>1, <1>2, <1>3, <1>6, <1>9, <1>10, <1>11, <1>13, <1>14, RelayStep

-----------------------------------------------------------------------------
\* Packets come and go at the serving gNB, and reports are asked for.
LEMMA DataStep ==
    ASSUME IInv, ~crashed, NEW g \in Gnbs, NEW u \in UEs, Enqueue(g, u) \/ Transmit(g, u)
    PROVE  IInv'
<1>1. /\ u \in entities[g]
      /\ link' = link /\ timer' = timer /\ entities' = entities
      /\ SelectedCell' = SelectedCell /\ ueRRCState' = ueRRCState /\ report' = report
      /\ UNCHANGED <<amfGnbs, amfUes, smfUe, lastServingCell, reported, overlapped>>
      /\ UNCHANGED <<leftCell, missed, crashed, started>>
  BY DEF Enqueue, Transmit, core, pingpong
<1>2. /\ queue \in [Gnbs -> [UEs -> 0 .. MaxPackets]] /\ outstanding \in [UEs -> Nat]
      /\ MaxPackets \in Nat
  BY XnHandoverAssumption DEF IInv, TypeOK
<1>3. queue[g][u] = outstanding[u] /\ queue[g][u] \in 0 .. MaxPackets
      /\ \A h \in Gnbs : u \in entities[h] => h = g
  BY <1>1, <1>2 DEF IInv, Queued, OneServer
<1>4. PICK n \in 0 .. MaxPackets :
         /\ queue' = [queue EXCEPT ![g][u] = n]
         /\ outstanding' = [outstanding EXCEPT ![u] = n]
  <2>1. CASE Enqueue(g, u)
    <3>1. queue[g][u] + 1 \in 0 .. MaxPackets
      BY <1>2, <1>3, <2>1 DEF Enqueue
    <3>2. /\ queue' = [queue EXCEPT ![g][u] = queue[g][u] + 1]
          /\ outstanding' = [outstanding EXCEPT ![u] = queue[g][u] + 1]
      BY <1>2, <1>3, <2>1 DEF Enqueue
    <3> QED  BY <3>1, <3>2
  <2>2. CASE Transmit(g, u)
    <3>1. queue[g][u] - 1 \in 0 .. MaxPackets
      BY <1>2, <1>3, <2>2 DEF Transmit
    <3>2. /\ queue' = [queue EXCEPT ![g][u] = queue[g][u] - 1]
          /\ outstanding' = [outstanding EXCEPT ![u] = queue[g][u] - 1]
      BY <1>2, <1>3, <2>2 DEF Transmit
    <3> QED  BY <3>1, <3>2
  <2> QED  BY <2>1, <2>2
<1>5. /\ queue' \in [Gnbs -> [UEs -> 0 .. MaxPackets]] /\ outstanding' \in [UEs -> Nat]
      /\ queue'[g][u] = n /\ outstanding'[u] = n
      /\ \A h \in Gnbs, v \in UEs : h # g \/ v # u => queue'[h][v] = queue[h][v]
      /\ \A v \in UEs : v # u => outstanding'[v] = outstanding[v]
  BY <1>2, <1>4
<1>6. Queued'
  BY <1>1, <1>3, <1>5 DEF IInv, Queued
<1>7. OneServer' /\ CrashNeedsOverlap'
  BY <1>1 DEF IInv, OneServer, CrashNeedsOverlap
<1>8. \A v \in UEs \ overlapped : report'[v] \in {NoCell, SelectedCell[v]}
  BY <1>1 DEF IInv, UeInv
<1>9. TypeOK'
  BY <1>1, <1>5 DEF IInv, TypeOK
<1> QED  BY <1>1, <1>6, <1>7, <1>8, <1>9, RadioStep

LEMMA ReportStep ==
    ASSUME IInv, ~crashed, NEW u \in UEs, Measurement_Report(u)
    PROVE  IInv'
<1>1. /\ link' = link /\ timer' = timer /\ entities' = entities
      /\ queue' = queue /\ outstanding' = outstanding
      /\ SelectedCell' = SelectedCell /\ ueRRCState' = ueRRCState
      /\ report' = [report EXCEPT ![u] = SelectedCell[u]]
      /\ UNCHANGED <<amfGnbs, amfUes, smfUe, lastServingCell, reported, overlapped>>
      /\ UNCHANGED <<leftCell, missed, crashed, started>>
  BY DEF Measurement_Report, radio, core, pingpong
<1>2. report \in [UEs -> Gnbs \cup {NoCell}] /\ SelectedCell \in [UEs -> Gnbs]
  BY DEF IInv, TypeOK
<1>3. report' \in [UEs -> Gnbs \cup {NoCell}]
  BY <1>1, <1>2
<1>4. OneServer' /\ Queued' /\ CrashNeedsOverlap'
  BY <1>1 DEF IInv, OneServer, Queued, CrashNeedsOverlap
<1>5. ASSUME NEW v \in UEs \ overlapped PROVE report'[v] \in {NoCell, SelectedCell[v]}
  <2>1. report[v] \in {NoCell, SelectedCell[v]}
    BY DEF IInv, UeInv
  <2> QED  BY <1>1, <1>2, <2>1
<1>6. TypeOK'
  BY <1>1, <1>3 DEF IInv, TypeOK
<1> QED  BY <1>1, <1>4, <1>5, <1>6, RadioStep

-----------------------------------------------------------------------------
\* A UE without handover under way has no token and no timer.
LEMMA NotUnderWay ==
    ASSUME TypeOK, NEW u \in UEs, UnderWay(u) = {}
    PROVE  NoToken(u) /\ timer[u] = << >>
<1>1. ASSUME NEW l \in Links, NEW i \in DOMAIN link[l], IsToken(link[l][i], u)
      PROVE  FALSE
  <2>1. link[l][i] \in Messages
    BY DEF Messages
  <2>2. link[l][i] \in UnderWay(u)
    BY <1>1, <2>1 DEF UnderWay, IsToken
  <2> QED  BY <2>2
<1>2. timer[u] = << >>
  <2> SUFFICES ASSUME timer[u] # << >> PROVE FALSE
    OBVIOUS
  <2>1. timer[u] \in Seq(Msg)
    BY DEF TypeOK
  <2>2. 1 \in DOMAIN timer[u]
    BY <2>1, TailLemma DEF Taken
  <2>3. timer[u][1] \in UnderWay(u)
    BY <2>2 DEF UnderWay
  <2> QED  BY <2>3
<1> QED  BY <1>1, <1>2 DEF NoToken

\* A handover starts.  If the UE has another one under way it is overlapped
\* from now on; if not, the new one is its only token.
LEMMA MeasurementStep ==
    ASSUME IInv, ~crashed, NEW u \in UEs, NEW t \in Gnbs, UE_MEASUREMENT_RECV(u, t)
    PROVE  IInv'
<1>1. PICK g : g = report[u]
  OBVIOUS
<1>2. PICK a : a = [type |-> "HO_REQUEST", ue |-> u, s |-> g, t |-> t, start |-> started + 1]
  OBVIOUS
<1> DEFINE r == Xn(g, t)
<1>3. /\ g # NoCell /\ t # g /\ started < MaxHandovers /\ started' = started + 1
      /\ report' = [report EXCEPT ![u] = NoCell]
      /\ Send(r, a)
      /\ overlapped' = IF UnderWay(u) # {} THEN overlapped \cup {u} ELSE overlapped
      /\ UNCHANGED <<SelectedCell, ueRRCState, entities, queue, timer, outstanding>>
      /\ UNCHANGED <<amfGnbs, amfUes, smfUe, lastServingCell, leftCell, reported, missed>>
      /\ crashed' = crashed
  BY <1>1, <1>2 DEF UE_MEASUREMENT_RECV, radio, core, pingpong
<1>4. TypeOK /\ LinkType /\ report \in [UEs -> Gnbs \cup {NoCell}]
      /\ started \in 0 .. MaxHandovers /\ overlapped \subseteq UEs
      /\ MaxHandovers \in Nat
  BY XnHandoverAssumption DEF IInv, TypeOK, LinkType
<1>5. g \in Gnbs /\ started + 1 \in 1 .. MaxHandovers
  BY <1>1, <1>3, <1>4
<1>6. a \in Msg /\ a.type = "HO_REQUEST" /\ a.ue = u /\ a.s = g /\ a.t = t
  BY <1>2, <1>5 DEF Msg, Types
<1>7. r \in Links /\ \A x, v : r # Uu(x, v)
  BY <1>5, LinkFacts
<1>8. Placed(r, a)
  BY <1>3, <1>6, <1>7 DEF Placed
<1>9. SentOnly(r, a)
  <2> HIDE DEF r
  <2> QED  BY <1>3, <1>4, <1>6, <1>7, SendLemma
<1> HIDE DEF r
<1>10. overlapped \subseteq overlapped' /\ overlapped' \subseteq UEs
  BY <1>3, <1>4
<1>11. TypeOK'
  <2>1. report' \in [UEs -> Gnbs \cup {NoCell}]
    BY <1>3, <1>4
  <2>2. started' \in 0 .. MaxHandovers
    BY <1>3, <1>5
  <2>3. link' \in [Links -> Seq(Msg)]
    BY <1>9 DEF SentOnly
  <2>4. {overlapped', reported', missed'} \subseteq SUBSET UEs
    BY <1>3, <1>4, <1>10 DEF TypeOK
  <2>5. crashed' \in BOOLEAN
    BY <1>3, <1>4 DEF TypeOK
  <2> QED  BY <1>3, <1>4, <2>1, <2>2, <2>3, <2>4, <2>5 DEF TypeOK
<1>12. Located'
  <2>1. ASSUME NEW c \in Links, NEW i \in DOMAIN link'[c]
        PROVE  Placed(c, link'[c][i])
    <3>1. CASE c = r /\ link'[c][i] = a
      BY <1>8, <3>1
    <3>2. CASE i \in DOMAIN link[c] /\ link'[c][i] = link[c][i]
      BY <3>2 DEF IInv, Located
    <3> QED  BY <1>9, <3>1, <3>2 DEF SentOnly, Put
  <2> QED  BY <1>3, <2>1 DEF IInv, Located, Placed
<1>13. OneServer' /\ Queued' /\ CrashNeedsOverlap'
  BY <1>3 DEF IInv, OneServer, Queued, CrashNeedsOverlap
<1>14. ReportsNeedOverlap'
  BY <1>3, <1>10 DEF IInv, ReportsNeedOverlap
<1>15. ASSUME NEW v \in UEs \ overlapped' PROVE UeInv(v)'
  <2>1. UeInv(v)
    BY <1>10 DEF IInv
  <2>2. report'[v] \in {NoCell, SelectedCell[v]}
    BY <1>3, <1>4, <2>1 DEF UeInv
  <2>3. Served(v) /\ SameCore(v) /\ timer'[v] = timer[v]
    BY <1>3, <2>1, <2>2 DEF Served, SameCore, UeInv
  <2>4. CASE v # u
    <3>1. \A c \in Links : \A i \in DOMAIN link'[c] :
             link'[c][i].ue = v => i \in DOMAIN link[c] /\ link'[c][i] = link[c][i]
      BY <1>6, <1>9, <2>4 DEF SentOnly, Put
    <3>2. \A c \in Links : \A i \in DOMAIN link[c] :
             i \in DOMAIN link'[c] /\ link'[c][i] = link[c][i]
      BY <1>9 DEF SentOnly, Put
    <3>3. Zero \in [Links -> {0, 1}] /\ Shifted(v, Zero)
      BY <1>4, <3>1, <3>2, ShiftedNot
    <3> QED  BY <2>1, <2>3, <3>3, OtherUe
  <2>5. CASE v = u
    <3>1. UnderWay(u) = {}
      BY <1>3, <2>5
    <3>2. NoToken(u) /\ timer[u] = << >>
      BY <1>4, <3>1, NotUnderWay
    <3>3. IsToken(a, v)
      BY <1>6, <2>5 DEF IsToken
    <3>4. Idle(u)'
      BY <2>1, <2>3, <2>5, <3>2, IdleSame DEF UeInv, Claims, Served
    <3>5. a.s = SelectedCell'[u]
      BY <1>1, <1>3, <1>6, <2>1, <2>5 DEF UeInv
    <3>6. Claim(r, a, v)'
      BY <1>6, <2>5, <3>4, <3>5 DEF Claim, BeforeSwitch, AfterSmf
    <3>7. a.type # "HO_COMMAND"
      BY <1>6
    <3> QED  BY <1>4, <1>7, <1>9, <2>1, <2>3, <2>5, <3>2, <3>3, <3>6, <3>7, MineNew
  <2> QED  BY <2>4, <2>5
<1> QED  BY <1>11, <1>12, <1>13, <1>14, <1>15 DEF IInv

-----------------------------------------------------------------------------
\* A part of a queue, and two queues joined, hold elements of those queues.
From(p, q) == \A i \in DOMAIN p : \E j \in DOMAIN q : p[i] = q[j]
Part(q, m, n) == SubSeq(q, m, n)
Joined(p, q) == p \o q

LEMMA PartLemma ==
    ASSUME NEW M, NEW q \in Seq(M), NEW m \in Nat \ {0}, NEW n \in Int, n <= Len(q)
    PROVE  Part(q, m, n) \in Seq(M) /\ From(Part(q, m, n), q) /\ (n < m => Part(q, m, n) = << >>)
<1> DEFINE p == Part(q, m, n)
           k == Len(q)
<1>1. k \in Nat /\ DOMAIN q = 1 .. k
  BY LenProperties
<1> HIDE DEF k
<1>2. \A i \in m .. n : i \in 1 .. k
  BY <1>1 DEF k
<1>3. \A i \in m .. n : q[i] \in M
  BY <1>1, <1>2, ElementOfSeq DEF k
<1>4. /\ p \in Seq(M) /\ Len(p) = IF m <= n THEN n - m + 1 ELSE 0
      /\ \A i \in 1 .. n - m + 1 : p[i] = q[m + i - 1]
  BY <1>3, SubSeqProperties DEF Part
<1>5. n < m => p = << >>
  BY SubSeqEmpty DEF Part
<1> HIDE DEF p
<1>6. ASSUME NEW i \in DOMAIN p PROVE \E j \in DOMAIN q : p[i] = q[j]
  <2>1. i \in 1 .. n - m + 1
    BY <1>4, LenProperties
  <2>2. n <= k /\ p[i] = q[m + i - 1]
    BY <1>4, <2>1 DEF k
  <2>3. m + i - 1 \in 1 .. k
    BY <1>1, <2>1, <2>2
  <2> QED  BY <1>1, <2>2, <2>3
<1> QED  BY <1>4, <1>5, <1>6 DEF From, p

LEMMA JoinedLemma ==
    ASSUME NEW M, NEW p \in Seq(M), NEW q \in Seq(M)
    PROVE  /\ Joined(p, q) \in Seq(M)
           /\ \A i \in DOMAIN Joined(p, q) :
                 \/ \E j \in DOMAIN p : Joined(p, q)[i] = p[j]
                 \/ \E j \in DOMAIN q : Joined(p, q)[i] = q[j]
           /\ p = << >> => Joined(p, q) = q
           /\ q = << >> => Joined(p, q) = p
<1> DEFINE s == Joined(p, q)
           k == Len(p)
           n == Len(q)
<1>1. /\ k \in Nat /\ n \in Nat /\ DOMAIN p = 1 .. k /\ DOMAIN q = 1 .. n
  BY LenProperties
<1>2. /\ s \in Seq(M) /\ Len(s) = k + n
      /\ \A i \in 1 .. k + n : s[i] = IF i <= k THEN p[i] ELSE q[i - k]
  BY ConcatProperties DEF Joined
<1>3. (p = << >> => s = q) /\ (q = << >> => s = p)
  BY ConcatEmptySeq DEF Joined
<1>4. DOMAIN s = 1 .. k + n
  BY <1>2, LenProperties
<1> HIDE DEF s, k, n
<1>5. ASSUME NEW i \in DOMAIN s
      PROVE  (\E j \in DOMAIN p : s[i] = p[j]) \/ (\E j \in DOMAIN q : s[i] = q[j])
  <2>1. CASE i <= k
    <3>1. i \in DOMAIN p /\ s[i] = p[i]
      BY <1>1, <1>2, <1>4, <2>1
    <3> QED  BY <3>1
  <2>2. CASE ~(i <= k)
    <3>1. i - k \in DOMAIN q /\ s[i] = q[i - k]
      BY <1>1, <1>2, <1>4, <2>2
    <3> QED  BY <3>1
  <2> QED  BY <2>1, <2>2
<1> QED  BY <1>2, <1>3, <1>5 DEF s

\* The timers left when the i-th has expired.
Without(q, i) == Joined(Part(q, 1, i - 1), Part(q, i + 1, Len(q)))

LEMMA WithoutLemma ==
    ASSUME NEW M, NEW q \in Seq(M), NEW i \in DOMAIN q
    PROVE  Without(q, i) \in Seq(M) /\ From(Without(q, i), q) /\ (Len(q) = 1 => Without(q, i) = << >>)
<1> DEFINE n == Len(q)
           a == Part(q, 1, i - 1)
           b == Part(q, i + 1, n)
<1>1. n \in Nat /\ i \in 1 .. n
  BY LenProperties
<1>2. i - 1 \in Int /\ i - 1 <= n /\ i + 1 \in Nat \ {0} /\ n <= n
  <2> HIDE DEF n
  <2> QED  BY <1>1
<1>3. a \in Seq(M) /\ From(a, q) /\ (i - 1 < 1 => a = << >>)
  BY <1>2, PartLemma
<1>4. b \in Seq(M) /\ From(b, q) /\ (n < i + 1 => b = << >>)
  BY <1>1, <1>2, PartLemma
<1> HIDE DEF a, b
<1>5. /\ Joined(a, b) \in Seq(M)
      /\ \A k \in DOMAIN Joined(a, b) :
            \/ \E j \in DOMAIN a : Joined(a, b)[k] = a[j]
            \/ \E j \in DOMAIN b : Joined(a, b)[k] = b[j]
      /\ a = << >> => Joined(a, b) = b
  BY <1>3, <1>4, JoinedLemma
<1>6. From(Joined(a, b), q)
  BY <1>3, <1>4, <1>5 DEF From
<1>7. n = 1 => Joined(a, b) = << >>
  <2> HIDE DEF n
  <2>1. n = 1 => i - 1 < 1 /\ n < i + 1
    BY <1>1
  <2> QED  BY <2>1, <1>3, <1>4, <1>5
<1> QED  BY <1>5, <1>6, <1>7 DEF Without, a, b

\* What is readdressed to the target, and the reconfiguration message behind it.
Readdressed(q, s, k, a) == Joined(Joined(q, Part(s, k + 1, Len(s))), <<a>>)
Mixed(p, q, s, a) ==
    \A i \in DOMAIN p : \/ p[i] = a
                        \/ \E j \in DOMAIN q : p[i] = q[j]
                        \/ \E j \in DOMAIN s : p[i] = s[j]
Single(p, a) == DOMAIN p = {1} /\ p[1] = a

LEMMA ReaddressedLemma ==
    ASSUME NEW M, NEW q \in Seq(M), NEW s \in Seq(M), NEW k \in 0 .. Len(s), NEW a \in M
    PROVE  /\ Readdressed(q, s, k, a) \in Seq(M)
           /\ Mixed(Readdressed(q, s, k, a), q, s, a)
           /\ q = << >> /\ s = << >> => Single(Readdressed(q, s, k, a), a)
<1> DEFINE n == Len(s)
           b == Part(s, k + 1, n)
           c == Joined(q, b)
           d == <<a>>
<1>1. n \in Nat /\ k + 1 \in Nat \ {0} /\ n \in Int /\ n <= n
  <2>1. n \in Nat
    BY LenProperties
  <2> HIDE DEF n
  <2>2. k \in Nat
    BY <2>1 DEF n
  <2> QED  BY <2>1, <2>2
<1>2. b \in Seq(M) /\ From(b, s) /\ (n < k + 1 => b = << >>)
  BY <1>1, PartLemma
<1> HIDE DEF b
<1>3. /\ c \in Seq(M)
      /\ \A i \in DOMAIN c : \/ \E j \in DOMAIN q : c[i] = q[j]
                             \/ \E j \in DOMAIN b : c[i] = b[j]
      /\ q = << >> => c = b
  BY <1>2, JoinedLemma
<1> HIDE DEF c
<1>4. d \in Seq(M) /\ DOMAIN d = {1} /\ d[1] = a
  OBVIOUS
<1> HIDE DEF d
<1>5. /\ Joined(c, d) \in Seq(M)
      /\ \A i \in DOMAIN Joined(c, d) : \/ \E j \in DOMAIN c : Joined(c, d)[i] = c[j]
                                        \/ \E j \in DOMAIN d : Joined(c, d)[i] = d[j]
      /\ c = << >> => Joined(c, d) = d
  BY <1>3, <1>4, JoinedLemma, ZenonT(60)
<1>6. s = << >> => b = << >>
  <2> SUFFICES ASSUME s = << >> PROVE b = << >>
    OBVIOUS
  <2>1. n = 0
    BY EmptySeq
  <2> HIDE DEF n
  <2> QED  BY <1>1, <1>2, <2>1
<1>7. ASSUME NEW i \in DOMAIN Joined(c, d)
      PROVE  \/ Joined(c, d)[i] = a
             \/ \E j \in DOMAIN q : Joined(c, d)[i] = q[j]
             \/ \E j \in DOMAIN s : Joined(c, d)[i] = s[j]
  <2>1. CASE \E j \in DOMAIN d : Joined(c, d)[i] = d[j]
    BY <1>4, <2>1
  <2>2. CASE \E j \in DOMAIN c : Joined(c, d)[i] = c[j]
    <3>1. PICK j \in DOMAIN c : Joined(c, d)[i] = c[j]
      BY <2>2
    <3> QED  BY <1>2, <1>3, <3>1 DEF From
  <2> QED  BY <1>5, <2>1, <2>2
<1>8. Readdressed(q, s, k, a) = Joined(c, d)
  BY DEF Readdressed, b, c, d
<1>9. q = << >> /\ s = << >> => Single(Joined(c, d), a)
  BY <1>3, <1>4, <1>5, <1>6 DEF Single
<1> HIDE DEF n
<1>10. Mixed(Joined(c, d), q, s, a)
  BY <1>7 DEF Mixed
<1> QED  BY <1>5, <1>8, <1>9, <1>10

-----------------------------------------------------------------------------
\* The timer of a UE whose handovers do not overlap is alone, its source is the
\* cell selected, and no message of the UE is on a link.
LEMMA TimerAlone ==
    ASSUME IInv, NEW u \in UEs \ overlapped, NEW i \in DOMAIN timer[u]
    PROVE  /\ Len(timer[u]) = 1 /\ timer[u][i].s = SelectedCell[u] /\ Idle(u)
           /\ \A l \in Links : \A j \in DOMAIN link[l] : link[l][j].ue # u
<1>1. UeInv(u) /\ timer[u] \in Seq(Msg)
  BY DEF IInv, TypeOK
<1>2. timer[u] # << >>
  OBVIOUS
<1>3. Len(timer[u]) = 1 /\ NoToken(u)
  BY <1>1, <1>2 DEF UeInv, OneToken
<1>4. i = 1
  BY <1>1, <1>3, LenProperties
<1>5. timer[u][i].s = SelectedCell[u] /\ Idle(u)
  BY <1>1, <1>2, <1>3, <1>4 DEF UeInv, Claims
<1>6. ASSUME NEW l \in Links, NEW j \in DOMAIN link[l], link[l][j].ue = u PROVE FALSE
  BY <1>1, <1>2, <1>3, <1>6 DEF UeInv, NoToken, IsToken, Reconf, IsReconf
<1> QED  BY <1>3, <1>5, <1>6

\* The links after the switch of the timer m.
Switched(u, m, k) ==
    /\ link' \in [Links -> Seq(Msg)]
    /\ link'[Uu(m.s, u)] = << >>
    /\ link'[Uu(m.t, u)] = Readdressed(link[Uu(m.t, u)], link[Uu(m.s, u)], k, As(m, "RECONFIGURATION"))
    /\ Put(link[N2up(m.t)], link'[N2up(m.t)], As(m, "PATH_SWITCH"))
    /\ \A c \in Links : c # Uu(m.s, u) /\ c # Uu(m.t, u) /\ c # N2up(m.t) => link'[c] = link[c]

Three(f, a, x, b, y, c, z) == [f EXCEPT ![a] = x, ![b] = y, ![c] = z]

SwitchLinks(u, m, k) ==
    link' = [link EXCEPT
        ![Uu(m.s, u)] = << >>,
        ![Uu(m.t, u)] = @ \o SubSeq(link[Uu(m.s, u)], k + 1, Len(link[Uu(m.s, u)]))
                          \o <<As(m, "RECONFIGURATION")>>,
        ![N2up(m.t)] = Append(@, As(m, "PATH_SWITCH"))]

LEMMA SwitchedLemma ==
    ASSUME LinkType, NEW u \in UEs, NEW m \in Msg, m.s # m.t,
           NEW k \in 0 .. Len(link[Uu(m.s, u)]), SwitchLinks(u, m, k)
    PROVE  Switched(u, m, k)
<1> DEFINE a == Uu(m.s, u)
           b == Uu(m.t, u)
           c == N2up(m.t)
           tr == "RECONFIGURATION"
           tp == "PATH_SWITCH"
           mr == As(m, tr)
           mp == As(m, tp)
           q == Readdressed(link[b], link[a], k, mr)
           p == Snoc(link[c], mp)
<1>1. m.s \in Gnbs /\ m.t \in Gnbs
  BY DEF Msg
<1>2. /\ a \in Links /\ b \in Links /\ c \in Links /\ a # b /\ a # c /\ b # c
  BY <1>1, LinkFacts
<1>3. tr \in Types /\ tp \in Types
  BY DEF Types
<1>4. mr \in Msg /\ mp \in Msg
  <2> HIDE DEF tr, tp
  <2> QED  BY <1>3, AsLemma
<1>5. link[a] \in Seq(Msg) /\ link[b] \in Seq(Msg) /\ link[c] \in Seq(Msg)
  BY <1>2 DEF LinkType
<1>6. q \in Seq(Msg)
  <2> HIDE DEF mr, a, b
  <2>1. k \in 0 .. Len(link[a])
    BY DEF a
  <2> QED  BY <1>4, <1>5, <2>1, ReaddressedLemma
<1>7. p \in Seq(Msg) /\ Put(link[c], p, mp)
  <2> HIDE DEF mp, c
  <2> QED  BY <1>4, <1>5, SnocLemma
<1>8. link' = Three(link, a, << >>, b, q, c, p)
  BY <1>2 DEF SwitchLinks, Three, Readdressed, Joined, Part, Snoc
<1> HIDE DEF a, b, c, p, q, mr, mp
<1>9. << >> \in Seq(Msg)
  <2>1. \A S : << >> \in Seq(S)
    OBVIOUS
  <2> QED  BY <2>1
<1>10. /\ link' \in [Links -> Seq(Msg)]
       /\ link'[a] = << >> /\ link'[b] = q /\ link'[c] = p
       /\ \A d \in Links : d # a /\ d # b /\ d # c => link'[d] = link[d]
  <2> DEFINE T == Seq(Msg)
             e == << >>
  <2>1. link \in [Links -> T] /\ q \in T /\ p \in T /\ e \in T
    BY <1>6, <1>7, <1>9 DEF LinkType
  <2>2. link' = Three(link, a, e, b, q, c, p)
    BY <1>8
  <2> HIDE DEF T, e
  <2>3. /\ link' \in [Links -> T] /\ link'[a] = e /\ link'[b] = q /\ link'[c] = p
        /\ \A d \in Links : d # a /\ d # b /\ d # c => link'[d] = link[d]
    BY <1>2, <2>1, <2>2 DEF Three
  <2> QED  BY <2>3 DEF T, e
<1>11. Put(link[c], link'[c], mp)
  BY <1>7, <1>10
<1>12. link'[b] = Readdressed(link[b], link[a], k, mr)
  BY <1>10 DEF q
<1>13. mr = As(m, "RECONFIGURATION") /\ mp = As(m, "PATH_SWITCH")
  BY DEF mr, mp
<1>14. /\ link' \in [Links -> Seq(Msg)]
       /\ link'[a] = << >>
       /\ link'[b] = Readdressed(link[b], link[a], k, As(m, "RECONFIGURATION"))
       /\ Put(link[c], link'[c], As(m, "PATH_SWITCH"))
       /\ \A d \in Links : d # a /\ d # b /\ d # c => link'[d] = link[d]
  BY <1>10, <1>11, <1>12, <1>13
<1> QED  BY <1>14 DEF Switched, a, b, c

\* Where the messages are after the switch.
LEMMA SwitchedPlaces ==
    ASSUME IInv, NEW u \in UEs, NEW m \in Msg, m.s # m.t, m.ue = u,
           NEW k \in 0 .. Len(link[Uu(m.s, u)]), Switched(u, m, k)
    PROVE  /\ \A l \in Links : \A j \in DOMAIN link'[l] : Placed(l, link'[l][j])
           /\ \A v \in UEs : v # u => Zero \in [Links -> {0, 1}] /\ Shifted(v, Zero)
<1> DEFINE a == Uu(m.s, u)
           b == Uu(m.t, u)
           c == N2up(m.t)
           tr == "RECONFIGURATION"
           tp == "PATH_SWITCH"
           mr == As(m, tr)
           mp == As(m, tp)
<1>1. m.s \in Gnbs /\ m.t \in Gnbs
  BY DEF Msg
<1>2. /\ a \in Links /\ b \in Links /\ c \in Links /\ a # b /\ a # c /\ b # c
      /\ \A x, v : a = Uu(x, v) => v = u
      /\ \A x, v : b = Uu(x, v) => v = u
      /\ \A x, v : c # Uu(x, v)
      /\ \A x, y : a # Xn(x, y) /\ b # Xn(x, y)
  BY <1>1, LinkFacts
<1>3. tr \in Types /\ tp \in Types
  BY DEF Types
<1>4. /\ mr \in Msg /\ mr.type = tr /\ mr.ue = u /\ mr.s = m.s /\ mr.t = m.t
      /\ mp \in Msg /\ mp.type = tp /\ mp.ue = u /\ mp.s = m.s /\ mp.t = m.t
  <2> HIDE DEF tr, tp
  <2> QED  BY <1>3, AsLemma
<1>5. LinkType /\ Located
  BY DEF IInv, TypeOK, LinkType
<1>6. link[a] \in Seq(Msg) /\ link[b] \in Seq(Msg) /\ link[c] \in Seq(Msg)
  BY <1>2, <1>5 DEF LinkType
<1>7. /\ link'[a] = << >>
      /\ link'[b] = Readdressed(link[b], link[a], k, mr)
      /\ Put(link[c], link'[c], mp)
      /\ \A d \in Links : d # a /\ d # b /\ d # c => link'[d] = link[d]
  BY DEF Switched
<1>8. k \in 0 .. Len(link[a])
  OBVIOUS
<1> HIDE DEF a, b, c, mr, mp
<1>9. \A j \in DOMAIN link'[b] :
         \/ link'[b][j] = mr
         \/ \E i \in DOMAIN link[b] : link'[b][j] = link[b][i]
         \/ \E i \in DOMAIN link[a] : link'[b][j] = link[a][i]
  <2> DEFINE q == link[b]
             p == link[a]
             R == Readdressed(q, p, k, mr)
  <2>1. q \in Seq(Msg) /\ p \in Seq(Msg) /\ k \in 0 .. Len(p) /\ link'[b] = R
    BY <1>6, <1>7, <1>8
  <2> HIDE DEF q, p
  <2>2. Mixed(R, q, p, mr)
    BY <1>4, <2>1, ReaddressedLemma
  <2> HIDE DEF R
  <2> QED  BY <2>1, <2>2 DEF q, p, Mixed
<1>10. /\ \A i \in DOMAIN link[a] : Placed(a, link[a][i]) /\ link[a][i].ue = u
       /\ \A i \in DOMAIN link[b] : Placed(b, link[b][i]) /\ link[b][i].ue = u
  <2>1. /\ \A i \in DOMAIN link[a] : Placed(a, link[a][i])
        /\ \A i \in DOMAIN link[b] : Placed(b, link[b][i])
    BY <1>2, <1>5 DEF Located
  <2>2. a = Uu(m.s, u) /\ b = Uu(m.t, u)
    BY DEF a, b
  <2> QED  BY <1>1, <2>1, <2>2 DEF Placed
<1>11. \A j \in DOMAIN link'[b] : Placed(b, link'[b][j]) /\ link'[b][j].ue = u
  <2>1. Placed(b, mr) /\ mr.ue = u
    BY <1>2, <1>4 DEF Placed
  <2>2. ASSUME NEW x, Placed(a, x), x.ue = u PROVE Placed(b, x)
    BY <1>2, <2>2 DEF Placed
  <2> QED  BY <1>9, <1>10, <2>1, <2>2
<1>12. ASSUME NEW l \in Links, NEW j \in DOMAIN link'[l] PROVE Placed(l, link'[l][j])
  <2>1. CASE l = a
    BY <1>7, <2>1
  <2>2. CASE l = b
    BY <1>11, <2>2
  <2>3. CASE l = c
    <3>1. Placed(c, mp)
      BY <1>2, <1>4 DEF Placed
    <3>2. \A i \in DOMAIN link[c] : Placed(c, link[c][i])
      BY <1>2, <1>5 DEF Located
    <3>3. \/ link'[c][j] = mp
          \/ j \in DOMAIN link[c] /\ link'[c][j] = link[c][j]
      BY <1>7, <2>3 DEF Put
    <3> QED  BY <2>3, <3>1, <3>2, <3>3
  <2>4. CASE l # a /\ l # b /\ l # c
    <3>1. link'[l] = link[l]
      BY <1>7, <2>4
    <3> QED  BY <1>5, <3>1 DEF Located
  <2> QED  BY <2>1, <2>2, <2>3, <2>4
<1>13. ASSUME NEW v \in UEs, v # u
       PROVE  Zero \in [Links -> {0, 1}] /\ Shifted(v, Zero)
  <2>1. ASSUME NEW l \in Links, NEW j \in DOMAIN link'[l], link'[l][j].ue = v
        PROVE  j \in DOMAIN link[l] /\ link'[l][j] = link[l][j]
    <3>1. l # a /\ l # b
      BY <1>7, <1>11, <1>13, <2>1
    <3>2. CASE l = c
      BY <1>4, <1>7, <1>13, <2>1, <3>2 DEF Put
    <3>3. CASE l # c
      <4>1. link'[l] = link[l]
        BY <1>7, <3>1, <3>3
      <4> QED  BY <4>1
    <3> QED  BY <3>2, <3>3
  <2>2. ASSUME NEW l \in Links, NEW j \in DOMAIN link[l], link[l][j].ue = v
        PROVE  j \in DOMAIN link'[l] /\ link'[l][j] = link[l][j]
    <3>1. l # a /\ l # b
      BY <1>10, <1>13, <2>2
    <3>2. CASE l = c
      BY <1>7, <3>2 DEF Put
    <3>3. CASE l # c
      <4>1. link'[l] = link[l]
        BY <1>7, <3>1, <3>3
      <4> QED  BY <4>1
    <3> QED  BY <3>2, <3>3
  <2> QED  BY <1>5, <2>1, <2>2, ShiftedNot
<1> QED  BY <1>12, <1>13

\* The UE that has switched: its new token is the path switch request, and the
\* reconfiguration message is alone on its radio link.
LEMMA MineSwitched ==
    ASSUME LinkType, NEW u \in UEs, NEW m \in Msg, m.s # m.t, m.ue = u, Idle(u),
           SelectedCell[u] = m.s,
           NEW k \in 0 .. Len(link[Uu(m.s, u)]), Switched(u, m, k), SameCore(u),
           \A l \in Links : \A j \in DOMAIN link[l] : link[l][j].ue # u,
           link[Uu(m.s, u)] = << >>, link[Uu(m.t, u)] = << >>,
           timer'[u] = << >>, SelectedCell'[u] = m.t, u \in entities'[m.t],
           report'[u] \in {NoCell, m.t}
    PROVE  UeInv(u)'
<1> DEFINE a == Uu(m.s, u)
           b == Uu(m.t, u)
           c == N2up(m.t)
           tr == "RECONFIGURATION"
           tp == "PATH_SWITCH"
           mr == As(m, tr)
           mp == As(m, tp)
<1>1. m.s \in Gnbs /\ m.t \in Gnbs
  BY DEF Msg
<1>2. /\ a \in Links /\ b \in Links /\ c \in Links /\ a # b /\ a # c /\ b # c
  BY <1>1, LinkFacts
<1>3. tr \in Types /\ tp \in Types
  BY DEF Types
<1>4. /\ mr \in Msg /\ mr.type = tr /\ mr.ue = u /\ mr.s = m.s /\ mr.t = m.t
      /\ mp \in Msg /\ mp.type = tp /\ mp.ue = u /\ mp.s = m.s /\ mp.t = m.t
  <2> HIDE DEF tr, tp
  <2> QED  BY <1>3, AsLemma
<1>5. /\ link'[a] = << >>
      /\ link'[b] = Readdressed(link[b], link[a], k, mr)
      /\ Put(link[c], link'[c], mp)
      /\ \A d \in Links : d # a /\ d # b /\ d # c => link'[d] = link[d]
  BY DEF Switched
<1>6. k \in 0 .. Len(link[a]) /\ link[a] = << >> /\ link[b] = << >>
      /\ link[a] \in Seq(Msg) /\ link[b] \in Seq(Msg)
  BY <1>2 DEF LinkType
<1>7. DOMAIN link'[b] = {1} /\ link'[b][1] = mr
  <2> HIDE DEF a, b, mr
  <2>1. Single(link'[b], mr)
    <3> DEFINE q == link[b]
               p == link[a]
    <3>1. q \in Seq(Msg) /\ p \in Seq(Msg) /\ k \in 0 .. Len(p)
      BY <1>6
    <3>2. link'[b] = Readdressed(q, p, k, mr) /\ q = << >> /\ p = << >>
      BY <1>5, <1>6
    <3> HIDE DEF q, p
    <3>3. q = << >> /\ p = << >> => Single(Readdressed(q, p, k, mr), mr)
      BY <1>4, <3>1, ReaddressedLemma
    <3> QED  BY <3>2, <3>3
  <2> QED  BY <2>1 DEF Single
<1> HIDE DEF a, c, mr, mp
<1>8. ASSUME NEW l \in Links, NEW j \in DOMAIN link'[l], link'[l][j].ue = u
      PROVE  \/ l = b /\ j = 1 /\ link'[l][j] = mr
             \/ l = c /\ j = Len(link[c]) + 1 /\ link'[l][j] = mp
  <2> HIDE DEF b
  <2>1. CASE l = a
    BY <1>5, <2>1
  <2>2. CASE l = b
    BY <1>7, <2>2
  <2>3. CASE l = c
    BY <1>2, <1>5, <1>8, <2>3 DEF Put
  <2>4. CASE l # a /\ l # b /\ l # c
    <3>1. link'[l] = link[l]
      BY <1>5, <2>4
    <3> QED  BY <1>8, <3>1
  <2> QED  BY <2>1, <2>2, <2>3, <2>4
<1>9. ASSUME NEW l \in Links, NEW j \in DOMAIN link'[l], IsToken(link'[l][j], u)
      PROVE  l = c /\ j = Len(link[c]) + 1 /\ link'[l][j] = mp
  <2> HIDE DEF b
  <2> QED  BY <1>4, <1>8, <1>9 DEF IsToken
<1>10. OneToken(u)'
  BY <1>9 DEF OneToken
<1>11. Claims(u)'
  <2>1. /\ lastServingCell'[u] \in {NoCell, m.s} /\ AmfAt(u, m.s)
    BY DEF Idle, SameCore
  <2>2. AmfAt(u, m.s)'
    BY <2>1 DEF AmfAt, SameCore
  <2>3. Claim(c, mp, u)'
    BY <1>4, <2>1, <2>2 DEF Claim, BeforeSwitch, AfterSmf
  <2>4. ASSUME NEW l \in Links, NEW x \in On(l)', IsToken(x, u) PROVE Claim(l, x, u)'
    <3>1. l = c /\ x = mp
      BY <1>9, <2>4 DEF On
    <3> QED  BY <2>3, <3>1
  <2>5. ~NoToken(u)'
    <3>1. Len(link[c]) + 1 \in DOMAIN link'[c] /\ link'[c][Len(link[c]) + 1] = mp
      BY <1>5 DEF Put
    <3>2. IsToken(mp, u)
      BY <1>4 DEF IsToken
    <3> QED  BY <1>2, <3>1, <3>2 DEF NoToken
  <2> QED  BY <2>4, <2>5 DEF Claims
<1>12. Reconf(u)'
  <2>1. ASSUME NEW l \in Links, NEW j \in DOMAIN link'[l], IsReconf(link'[l][j], u)
        PROVE  l = b /\ link'[l][j].t = m.t
    <3> HIDE DEF b
    <3> QED  BY <1>4, <1>8, <2>1 DEF IsReconf
  <2>2. \A j \in DOMAIN link'[b] : link'[b][j].type # "HO_COMMAND"
    BY <1>4, <1>7
  <2>3. b = Uu(SelectedCell'[u], u)
    OBVIOUS
  <2> HIDE DEF b
  <2> QED  BY <2>1, <2>2, <2>3 DEF Reconf, Uu
<1> QED  BY <1>10, <1>11, <1>12 DEF UeInv

-----------------------------------------------------------------------------
\* Without entities at the source, the switch ends the simulation.
LEMMA SwitchCrashes ==
    ASSUME IInv, NEW u \in UEs, NEW i \in DOMAIN timer[u],
           u \notin entities[timer[u][i].s], Crash
    PROVE  IInv'
<1>1. /\ link' = link /\ timer' = timer /\ entities' = entities /\ queue' = queue
      /\ outstanding' = outstanding /\ ueRRCState' = ueRRCState /\ started' = started
      /\ SelectedCell' = SelectedCell /\ report' = report
      /\ UNCHANGED <<amfGnbs, amfUes, smfUe, lastServingCell, reported, overlapped>>
      /\ UNCHANGED <<leftCell, missed>> /\ crashed' = TRUE
  BY DEF Crash, radio, core, pingpong
<1>2. u \in overlapped
  <2> SUFFICES ASSUME u \notin overlapped PROVE FALSE
    OBVIOUS
  <2>1. timer[u][i].s = SelectedCell[u]
    BY TimerAlone
  <2> QED  BY <2>1 DEF IInv, UeInv
<1>3. CrashNeedsOverlap'
  BY <1>1, <1>2 DEF CrashNeedsOverlap
<1>4. OneServer' /\ Queued'
  BY <1>1 DEF IInv, OneServer, Queued
<1>5. \A v \in UEs \ overlapped : report'[v] \in {NoCell, SelectedCell[v]}
  BY <1>1 DEF IInv, UeInv
<1>6. TypeOK'
  <2>1. crashed' \in BOOLEAN
    BY <1>1
  <2> QED  BY <1>1, <2>1 DEF IInv, TypeOK
<1> QED  BY <1>1, <1>3, <1>4, <1>5, <1>6, RadioStep

\* The queues after the switch: all packets of the UE are at the target.
LEMMA QueuesMoved ==
    ASSUME TypeOK, OneServer, Queued, NEW u \in UEs, NEW s \in Gnbs, NEW t \in Gnbs, s # t,
           u \in entities[s], BUFFER_TRANSFER(u, s, t), Associate(u, s, t),
           outstanding' = outstanding
    PROVE  /\ queue' \in [Gnbs -> [UEs -> 0 .. MaxPackets]]
           /\ entities' \in [Gnbs -> SUBSET UEs]
           /\ OneServer' /\ Queued' /\ u \in entities'[t]
           /\ \A g \in Gnbs, v \in UEs : v # u => (v \in entities'[g] <=> v \in entities[g])
<1>1. /\ queue \in [Gnbs -> [UEs -> 0 .. MaxPackets]] /\ entities \in [Gnbs -> SUBSET UEs]
      /\ MaxPackets \in Nat
  BY XnHandoverAssumption DEF TypeOK
<1>2. \A g \in Gnbs : entities'[g] = IF g = t THEN entities[t] \cup {u}
                                     ELSE IF g = s THEN entities[s] \ {u} ELSE entities[g]
  BY <1>1 DEF Associate
<1>3. entities' \in [Gnbs -> SUBSET UEs]
  BY <1>1 DEF Associate
<1>4. \A g \in Gnbs : u \in entities[g] <=> g = s
  BY DEF OneServer
<1>5. \A g \in Gnbs : u \in entities'[g] <=> g = t
  BY <1>2, <1>4
<1>6. \A g \in Gnbs, v \in UEs : v # u => (v \in entities'[g] <=> v \in entities[g])
  BY <1>2
<1>7. OneServer'
  BY <1>5, <1>6 DEF OneServer
<1>8. queue[s][u] \in 0 .. MaxPackets /\ queue[s][u] = outstanding[u]
  BY <1>1 DEF Queued
<1>9. PICK n \in 0 .. MaxPackets : n = queue[s][u] /\ n = outstanding[u]
  BY <1>8
<1>10. queue' = [queue EXCEPT ![t][u] = n, ![s][u] = 0]
  BY <1>9 DEF BUFFER_TRANSFER
<1>11. 0 \in 0 .. MaxPackets
  BY <1>1
<1> DEFINE P == 0 .. MaxPackets
           z == 0
<1>12. /\ queue \in [Gnbs -> [UEs -> P]] /\ n \in P /\ z \in P
       /\ queue' = [queue EXCEPT ![t][u] = n, ![s][u] = z]
  BY <1>1, <1>10, <1>11
<1> HIDE DEF P, z
<1>13. \A g \in Gnbs : queue'[g] = IF g = t THEN [queue[t] EXCEPT ![u] = n]
                                   ELSE IF g = s THEN [queue[s] EXCEPT ![u] = z] ELSE queue[g]
  BY <1>12
<1>14. queue' = [g \in Gnbs |-> queue'[g]]
  BY <1>12
<1>15. \A g \in Gnbs : queue'[g] \in [UEs -> P]
  BY <1>12, <1>13
<1>16. queue' \in [Gnbs -> [UEs -> P]]
  BY <1>14, <1>15
<1>17. /\ queue'[t][u] = n /\ queue'[s][u] = z
       /\ \A g \in Gnbs, v \in UEs : ((g # s /\ g # t) \/ v # u) => queue'[g][v] = queue[g][v]
  BY <1>12, <1>13
<1>18. ASSUME NEW v \in UEs, NEW g \in Gnbs
       PROVE  queue'[g][v] = IF v \in entities'[g] THEN outstanding[v] ELSE 0
  <2>1. queue[g][v] = IF v \in entities[g] THEN outstanding[v] ELSE 0
    BY DEF Queued
  <2>2. CASE v # u
    BY <1>6, <1>17, <2>1, <2>2
  <2>3. CASE v = u /\ g = t
    BY <1>5, <1>9, <1>17, <2>3
  <2>4. CASE v = u /\ g = s
    BY <1>5, <1>17, <2>4 DEF z
  <2>5. CASE v = u /\ g # t /\ g # s
    BY <1>4, <1>5, <1>17, <2>1, <2>5
  <2> QED  BY <2>2, <2>3, <2>4, <2>5
<1>19. Queued'
  BY <1>18 DEF Queued
<1> QED  BY <1>3, <1>5, <1>6, <1>7, <1>16, <1>19 DEF P

LEMMA SwitchStep ==
    ASSUME IInv, ~crashed, NEW u \in UEs, NEW i \in DOMAIN timer[u], NEW moved \in BOOLEAN,
           NEW k \in 0 .. Len(link[Uu(timer[u][i].s, u)]),
           GENERATE_HANDOVER_COMMAND_HANDLE(u, i, k, moved)
    PROVE  IInv'
<1>1. PICK m : m = timer[u][i]
  OBVIOUS
<1>2. CASE u \notin entities[m.s]
  <2>1. Crash
    BY <1>1, <1>2 DEF GENERATE_HANDOVER_COMMAND_HANDLE
  <2> QED  BY <1>1, <1>2, <2>1, SwitchCrashes
<1>3. CASE u \in entities[m.s]
  <2>1. TypeOK /\ LinkType /\ timer[u] \in Seq(Msg) /\ timer \in [UEs -> Seq(Msg)]
        /\ SelectedCell \in [UEs -> Gnbs] /\ report \in [UEs -> Gnbs \cup {NoCell}]
        /\ ueRRCState \in [UEs -> {"CONNECTED", "INACTIVE"}]
    <3>1. TypeOK
      BY DEF IInv
    <3>2. /\ LinkType /\ timer[u] \in Seq(Msg) /\ timer \in [UEs -> Seq(Msg)]
          /\ SelectedCell \in [UEs -> Gnbs] /\ report \in [UEs -> Gnbs \cup {NoCell}]
          /\ ueRRCState \in [UEs -> {"CONNECTED", "INACTIVE"}]
      BY <3>1 DEF TypeOK, LinkType
    <3> QED  BY <3>1, <3>2
  <2>2. m \in Msg /\ m.ue = u /\ m.s # m.t
    BY <1>1, <2>1, ElementOfSeq, LenProperties DEF IInv, Located
  <2>3. m.s \in Gnbs /\ m.t \in Gnbs /\ k \in 0 .. Len(link[Uu(m.s, u)])
    BY <1>1, <2>2 DEF Msg
  <2>4. /\ timer' = [timer EXCEPT ![u] = Without(timer[u], i)]
        /\ Connect(u, m.t) /\ Associate(u, m.s, m.t) /\ BUFFER_TRANSFER(u, m.s, m.t)
        /\ report' = [report EXCEPT ![u] =
              IF @ = m.s THEN (IF moved THEN m.t ELSE NoCell) ELSE @]
        /\ SwitchLinks(u, m, k)
        /\ UNCHANGED <<outstanding, amfGnbs, amfUes, smfUe>>
        /\ UNCHANGED <<lastServingCell, leftCell, reported, missed>>
        /\ UNCHANGED <<crashed, started, overlapped>>
    <3>1. /\ timer' = [timer EXCEPT ![u] = SubSeq(@, 1, i - 1) \o SubSeq(@, i + 1, Len(@))]
          /\ Connect(u, m.t) /\ Associate(u, m.s, m.t) /\ BUFFER_TRANSFER(u, m.s, m.t)
          /\ report' = [report EXCEPT ![u] =
                IF @ = m.s THEN (IF moved THEN m.t ELSE NoCell) ELSE @]
          /\ link' = [link EXCEPT
                ![Uu(m.s, u)] = << >>,
                ![Uu(m.t, u)] = @ \o SubSeq(link[Uu(m.s, u)], k + 1, Len(link[Uu(m.s, u)]))
                                  \o <<As(m, "RECONFIGURATION")>>,
                ![N2up(m.t)] = Append(@, As(m, "PATH_SWITCH"))]
          /\ UNCHANGED <<outstanding, core, pingpong, crashed, started, overlapped>>
      BY <1>1, <1>3, Zenon DEF GENERATE_HANDOVER_COMMAND_HANDLE
    <3>2. timer' = [timer EXCEPT ![u] = Without(timer[u], i)]
      BY <3>1 DEF Without, Joined, Part
    <3>3. SwitchLinks(u, m, k)
      BY <3>1, Zenon DEF SwitchLinks
    <3> QED  BY <3>1, <3>2, <3>3 DEF core, pingpong
  <2>5. Switched(u, m, k)
    BY <2>1, <2>2, <2>3, <2>4, SwitchedLemma
  <2>6. /\ \A l \in Links : \A j \in DOMAIN link'[l] : Placed(l, link'[l][j])
        /\ \A v \in UEs : v # u => Zero \in [Links -> {0, 1}] /\ Shifted(v, Zero)
    BY <2>2, <2>3, <2>5, SwitchedPlaces
  <2> DEFINE w == Without(timer[u], i)
  <2>7. w \in Seq(Msg) /\ From(w, timer[u]) /\ (Len(timer[u]) = 1 => w = << >>)
    BY <2>1, WithoutLemma
  <2> HIDE DEF w
  <2>8. /\ timer' \in [UEs -> Seq(Msg)] /\ timer'[u] = w
        /\ \A v \in UEs : v # u => timer'[v] = timer[v]
    BY <2>1, <2>4, <2>7 DEF w
  <2>9. /\ SelectedCell' \in [UEs -> Gnbs] /\ SelectedCell'[u] = m.t
        /\ \A v \in UEs : v # u => SelectedCell'[v] = SelectedCell[v]
        /\ ueRRCState' \in [UEs -> {"CONNECTED", "INACTIVE"}]
    BY <2>1, <2>3, <2>4 DEF Connect
  <2>10. /\ queue' \in [Gnbs -> [UEs -> 0 .. MaxPackets]]
         /\ entities' \in [Gnbs -> SUBSET UEs]
         /\ OneServer' /\ Queued' /\ u \in entities'[m.t]
         /\ \A g \in Gnbs, v \in UEs : v # u => (v \in entities'[g] <=> v \in entities[g])
    BY <1>3, <2>1, <2>2, <2>3, <2>4, QueuesMoved DEF IInv
  <2>11. /\ report' \in [UEs -> Gnbs \cup {NoCell}]
         /\ report'[u] = (IF report[u] = m.s THEN (IF moved THEN m.t ELSE NoCell) ELSE report[u])
         /\ \A v \in UEs : v # u => report'[v] = report[v]
    <3> DEFINE x == IF report[u] = m.s THEN (IF moved THEN m.t ELSE NoCell) ELSE report[u]
    <3>1. x \in Gnbs \cup {NoCell}
      BY <2>1, <2>3
    <3>2. report' = [report EXCEPT ![u] = x]
      BY <2>4
    <3> HIDE DEF x
    <3>3. /\ report' \in [UEs -> Gnbs \cup {NoCell}] /\ report'[u] = x
          /\ \A v \in UEs : v # u => report'[v] = report[v]
      BY <2>1, <3>1, <3>2
    <3> QED  BY <3>3 DEF x
  <2>12. TypeOK'
    <3>1. link' \in [Links -> Seq(Msg)]
      BY <2>5 DEF Switched
    <3>2. crashed' \in BOOLEAN
      BY <2>1, <2>4 DEF TypeOK
    <3>3. /\ outstanding' \in [UEs -> Nat] /\ started' \in 0 .. MaxHandovers
          /\ amfGnbs' \in SUBSET Gnbs /\ amfUes' \in [Gnbs -> [UEs -> Nat]]
          /\ smfUe' \in [UEs -> [gnb : Gnbs, ip : Gnbs]]
          /\ lastServingCell' \in [UEs -> Gnbs \cup {NoCell}]
          /\ leftCell' \in [UEs -> Gnbs \cup {NoCell}]
          /\ {overlapped', reported', missed'} \subseteq SUBSET UEs
      BY <2>1, <2>4 DEF TypeOK
    <3> QED  BY <2>8, <2>9, <2>10, <2>11, <3>1, <3>2, <3>3 DEF TypeOK
  <2>13. Located'
    <3>1. ASSUME NEW v \in UEs, NEW j \in DOMAIN timer'[v]
          PROVE  timer'[v][j].ue = v /\ timer'[v][j].s # timer'[v][j].t
      <4>1. \A x \in DOMAIN timer[v] : timer[v][x].ue = v /\ timer[v][x].s # timer[v][x].t
        BY DEF IInv, Located
      <4>2. CASE v = u
        BY <2>7, <2>8, <4>1, <4>2 DEF From
      <4>3. CASE v # u
        <5>1. timer'[v] = timer[v]
          BY <2>8, <4>3
        <5> QED  BY <4>1, <5>1
      <4> QED  BY <4>2, <4>3
    <3> QED  BY <2>6, <3>1 DEF Located, Placed
  <2>14. CrashNeedsOverlap' /\ ReportsNeedOverlap'
    BY <2>4 DEF IInv, CrashNeedsOverlap, ReportsNeedOverlap
  <2>15. ASSUME NEW v \in UEs \ overlapped PROVE UeInv(v)'
    <3>1. UeInv(v) /\ SameCore(v)
      BY <2>4 DEF IInv, SameCore
    <3>2. CASE v # u
      <4>1. Served(v) /\ timer'[v] = timer[v]
        BY <2>1, <2>8, <2>9, <2>10, <2>11, <3>1, <3>2 DEF Served, UeInv
      <4> QED  BY <2>6, <3>1, <3>2, <4>1, OtherUe
    <3>3. CASE v = u
      <4>1. /\ Len(timer[u]) = 1 /\ m.s = SelectedCell[u] /\ Idle(u)
            /\ \A l \in Links : \A j \in DOMAIN link[l] : link[l][j].ue # u
        BY <1>1, <3>3, TimerAlone
      <4>2. timer'[u] = << >>
        BY <2>7, <2>8, <4>1
      <4>3. report'[u] \in {NoCell, m.t}
        BY <2>11, <3>1, <3>3, <4>1 DEF UeInv
      <4>4. ASSUME NEW g \in Gnbs PROVE link[Uu(g, u)] = << >>
        <5>1. Uu(g, u) \in Links
          BY LinkFacts
        <5>2. link[Uu(g, u)] \in Seq(Msg)
          BY <2>1, <5>1 DEF LinkType
        <5> SUFFICES ASSUME link[Uu(g, u)] # << >> PROVE FALSE
          OBVIOUS
        <5>3. 1 \in DOMAIN link[Uu(g, u)]
          BY <5>2, TailLemma DEF Taken
        <5>4. link[Uu(g, u)][1].ue = u
          BY <5>1, <5>3 DEF IInv, Located, Placed
        <5> QED  BY <4>1, <5>1, <5>3, <5>4
      <4>5. link[Uu(m.s, u)] = << >> /\ link[Uu(m.t, u)] = << >>
        BY <2>3, <4>4
      <4> QED  BY <2>1, <2>2, <2>3, <2>5, <2>9, <2>10, <3>1, <3>3, <4>1, <4>2, <4>3, <4>5,
                  MineSwitched
    <3> QED  BY <3>2, <3>3
  <2>16. overlapped' = overlapped
    BY <2>4
  <2> QED  BY <2>10, <2>12, <2>13, <2>14, <2>15, <2>16 DEF IInv
<1> QED  BY <1>2, <1>3

-----------------------------------------------------------------------------
LEMMA InitIInv == Init => IInv
<1> SUFFICES ASSUME Init PROVE IInv
  OBVIOUS
<1>1. Home \in [UEs -> Gnbs] /\ MaxHandovers \in Nat /\ MaxPackets \in Nat
  BY XnHandoverAssumption
<1>2. \A S : << >> \in Seq(S)
  OBVIOUS
<1>3. << >> \in Seq(Msg)
  BY <1>2
<1>4. TypeOK
  <2>1. /\ SelectedCell \in [UEs -> Gnbs]
        /\ ueRRCState \in [UEs -> {"CONNECTED", "INACTIVE"}]
        /\ report \in [UEs -> Gnbs \cup {NoCell}]
        /\ entities \in [Gnbs -> SUBSET UEs]
        /\ queue \in [Gnbs -> [UEs -> 0 .. MaxPackets]]
    BY <1>1 DEF Init
  <2>2. timer \in [UEs -> Seq(Msg)] /\ link \in [Links -> Seq(Msg)]
    BY <1>3 DEF Init
  <2>3. /\ amfGnbs \in SUBSET Gnbs
        /\ amfUes \in [Gnbs -> [UEs -> Nat]]
        /\ smfUe \in [UEs -> [gnb : Gnbs, ip : Gnbs]]
        /\ lastServingCell \in [UEs -> Gnbs \cup {NoCell}]
        /\ started \in 0 .. MaxHandovers
        /\ outstanding \in [UEs -> Nat]
        /\ {overlapped, reported, missed} \subseteq SUBSET UEs
        /\ leftCell \in [UEs -> Gnbs \cup {NoCell}]
    BY <1>1 DEF Init
  <2>4. crashed \in BOOLEAN
    BY DEF Init
  <2> QED  BY <2>1, <2>2, <2>3, <2>4 DEF TypeOK
<1>5. /\ \A l \in Links : DOMAIN link[l] = {}
      /\ \A u \in UEs : timer[u] = << >> /\ DOMAIN timer[u] = {}
  BY DEF Init
<1>6. Located
  BY <1>5 DEF Located
<1>7. OneServer /\ Queued
  BY DEF Init, OneServer, Queued
<1>8. ASSUME NEW u \in UEs PROVE UeInv(u)
  <2>1. SelectedCell[u] = Home[u] /\ Home[u] \in Gnbs /\ u \in entities[Home[u]]
    BY <1>1 DEF Init
  <2>2. AmfAt(u, Home[u])
    BY <1>1 DEF AmfAt, Init
  <2>3. Idle(u)
    BY <2>1, <2>2 DEF Idle, Init
  <2>4. OneToken(u) /\ Reconf(u)
    BY <1>5 DEF OneToken, Reconf, NoToken
  <2>5. Claims(u)
    BY <1>5, <2>3 DEF Claims, On
  <2>6. report[u] = NoCell
    BY DEF Init
  <2> QED  BY <2>1, <2>4, <2>5, <2>6 DEF UeInv
<1>9. CrashNeedsOverlap /\ ReportsNeedOverlap
  BY DEF Init, CrashNeedsOverlap, ReportsNeedOverlap
<1> QED  BY <1>4, <1>6, <1>7, <1>8, <1>9 DEF IInv

LEMMA NextIInv == IInv /\ [Next]_vars => IInv'
<1> SUFFICES ASSUME IInv, [Next]_vars PROVE IInv'
  OBVIOUS
<1>1. ASSUME Next, Deliver PROVE IInv'
  <2>1. ~crashed
    BY <1>1 DEF Next
  <2>2. CASE \E a, b \in Gnbs : HANDOVER_REQUEST_RECV(a, b) \/ HANDOVER_REQUEST_ACK_RECV(a, b)
    BY <2>1, <2>2, RequestStep, RequestAckStep
  <2>3. CASE \E g \in Gnbs, u \in UEs : HANDOVER_COMMAND_HANDLE(g, u) \/ RECONFIGURATION_RECV(g, u)
    BY <2>1, <2>3, CommandStep, ReconfigurationStep
  <2>4. CASE \E g \in Gnbs : PATH_SWITCH_RECV(g) \/ PATH_SWITCH_ACK_RECV(g)
    BY <2>1, <2>4, PathSwitchStep, PathSwitchAckStep
  <2>5. CASE MODIFY_BEARER_REQUEST_RECV \/ MODIFY_BEARER_RESPONSE_RECV
    BY <2>1, <2>5, ModifyStep, ResponseStep
  <2>6. CASE \E a, b \in Gnbs : UE_CONTEXT_RELEASE_RECV(a, b)
    BY <2>1, <2>6, ReleaseStep
  <2>7. CASE \E a, b \in Gnbs, gap \in Gaps : UE_CONTEXT_RELEASE_ACK_RECV(a, b, gap)
    BY <2>1, <2>7, ReleaseAckStep
  <2> QED  BY <1>1, <2>2, <2>3, <2>4, <2>5, <2>6, <2>7 DEF Deliver
<1>2. ASSUME Next, NEW u \in UEs, Expire(u) PROVE IInv'
  <2>1. ~crashed
    BY <1>2 DEF Next
  <2> QED  BY <1>2, <2>1, SwitchStep DEF Expire
<1>3. ASSUME Next, Environment PROVE IInv'
  <2>1. ~crashed
    BY <1>3 DEF Next
  <2>2. CASE \E g \in Gnbs, u \in UEs : Enqueue(g, u) \/ Transmit(g, u)
    BY <2>1, <2>2, DataStep
  <2>3. CASE \E u \in UEs : Measurement_Report(u)
    BY <2>1, <2>3, ReportStep
  <2>4. CASE \E u \in UEs, t \in Gnbs : UE_MEASUREMENT_RECV(u, t)
    BY <2>1, <2>4, MeasurementStep
  <2> QED  BY <1>3, <2>2, <2>3, <2>4 DEF Environment
<1>4. ASSUME UNCHANGED vars PROVE IInv'
  <2>1. /\ link' = link /\ timer' = timer /\ entities' = entities /\ queue' = queue
        /\ outstanding' = outstanding /\ ueRRCState' = ueRRCState /\ started' = started
        /\ SelectedCell' = SelectedCell /\ report' = report
        /\ UNCHANGED <<amfGnbs, amfUes, smfUe, lastServingCell, reported, overlapped>>
        /\ UNCHANGED <<leftCell, missed>> /\ crashed' = crashed
    BY <1>4 DEF vars, radio, core, pingpong
  <2>2. TypeOK'
    <3>1. crashed' \in BOOLEAN
      BY <2>1 DEF IInv, TypeOK
    <3> QED  BY <2>1, <3>1 DEF IInv, TypeOK
  <2>3. OneServer' /\ Queued' /\ CrashNeedsOverlap'
    BY <2>1 DEF IInv, OneServer, Queued, CrashNeedsOverlap
  <2>4. \A v \in UEs \ overlapped : report'[v] \in {NoCell, SelectedCell[v]}
    BY <2>1 DEF IInv, UeInv
  <2> QED  BY <2>1, <2>2, <2>3, <2>4, RadioStep
<1> QED  BY <1>1, <1>2, <1>3, <1>4 DEF Next

LEMMA Inductive == Spec => []IInv
  BY InitIInv, NextIInv, PTL DEF Spec

-----------------------------------------------------------------------------
\* Every handler keeps the type of the state, for any gNBs, UEs and bounds.
THEOREM TypeCorrect == Spec => []TypeOK
<1>1. IInv => TypeOK
  BY DEF IInv
<1> QED  BY <1>1, Inductive, PTL

\* The null pointers of LTENR_RLC_UNESTABLISHENTITY and LTENR_AMF_Find_gNB_Info
\* need two handovers of one UE under way at the same time.
THEOREM CrashOnlyByOverlap == Spec => []CrashNeedsOverlap
<1>1. IInv => CrashNeedsOverlap
  BY DEF IInv
<1> QED  BY <1>1, Inductive, PTL

\* send_pingpong_event reports nothing else than overlapping handovers.
THEOREM ReportOnlyByOverlap == Spec => []ReportsNeedOverlap
<1>1. IInv => ReportsNeedOverlap
  BY DEF IInv
<1> QED  BY <1>1, Inductive, PTL

\* A UE whose handovers do not overlap is served by the cell it has selected and
\* by no other, and fn_NetSim_LTENR_NAS_PDCP_BUFFER_TRANSFER loses no packet.
THEOREM HandoverLosesNothing == Spec => []ServedWithoutLoss
<1>1. IInv => ServedWithoutLoss
  <2> SUFFICES ASSUME IInv, NEW u \in UEs \ overlapped, NEW g \in Gnbs
               PROVE  /\ u \in entities[g] <=> g = SelectedCell[u]
                      /\ queue[g][u] = IF g = SelectedCell[u] THEN outstanding[u] ELSE 0
    BY DEF ServedWithoutLoss
  <2>1. u \in entities[SelectedCell[u]] /\ SelectedCell[u] \in Gnbs
    BY DEF IInv, UeInv, TypeOK
  <2>2. u \in entities[g] <=> g = SelectedCell[u]
    BY <2>1 DEF IInv, OneServer
  <2> QED  BY <2>2 DEF IInv, Queued
<1> QED  BY <1>1, Inductive, PTL

\* When no handover of such a UE is under way, LTENR_AMF_DeleteUE, LTENR_AMF_AddUE
\* and LTENR_SMF_AddUE have left the core at the cell the UE has selected.
THEOREM CoreFollowsRadio == Spec => []CoreFollows
<1>1. IInv => CoreFollows
  <2> SUFFICES ASSUME IInv, NEW u \in UEs \ overlapped, UnderWay(u) = {}
               PROVE  /\ \A g \in Gnbs : amfUes[g][u] = IF g = SelectedCell[u] THEN 1 ELSE 0
                      /\ smfUe[u].ip = SelectedCell[u]
    BY DEF CoreFollows
  <2>1. NoToken(u)
    BY NotUnderWay DEF IInv
  <2>2. Idle(u)
    BY <2>1 DEF IInv, UeInv, Claims
  <2> QED  BY <2>2 DEF Idle, AmfAt
<1> QED  BY <1>1, Inductive, PTL
=============================================================================
