---------------------- MODULE CoreRegistration_proofs ----------------------
(***************************************************************************)
(* Proofs about CoreRegistration, for any gNBs, UEs and number of          *)
(* registrations: type correctness; that gNB and SMF agree on the bearer   *)
(* of a UE that is not registering; that the AMF finds a UE that has a     *)
(* bearer; that no bearer is replaced by an older one.                     *)
(***************************************************************************)
EXTENDS CoreRegistration, SequenceTheorems, NaturalsInduction, WellFoundedInduction, TLAPS

N2up(g) == <<"N2up", g>>
N2down(g) == <<"N2down", g>>
N11req == <<"N11", "request">>
N4req == <<"N4", "request">>
N4resp == <<"N4", "response">>
N11resp == <<"N11", "response">>

(***************************************************************************)
(* The inductive invariant.  Between the AMF's session request and the     *)
(* gNB, all registrations pass through the same pipe of links, ranked in   *)
(* the order they are passed.  A message behind another in the pipe has a  *)
(* greater bearer identifier, and from the SMF's response on a greater     *)
(* tunnel identifier too (Ordered).  What a UE has at its gNB is older     *)
(* than what is in the pipe for it (Newer); of what has passed the SMF,    *)
(* the newest is what the SMF keeps (AtSmf, Last).                         *)
(***************************************************************************)
Pipe == {N11req, N4req, N4resp, N11resp} \cup {N2down(g) : g \in Gnbs}
Rank(l) == IF l = N11req THEN 1 ELSE IF l = N4req THEN 2
           ELSE IF l = N4resp THEN 3 ELSE IF l = N11resp THEN 4 ELSE 5

Val(m, f) == IF f = "id" THEN m.bearer.id ELSE m.bearer.teid
Start(f) == IF f = "id" THEN 1 ELSE 4

\* Message i of l is behind message j of k.
Behind(l, i, k, j) == Rank(l) < Rank(k) \/ (l = k /\ j < i)

Ordered(f) ==
    \A l, k \in Pipe : Rank(l) >= Start(f) /\ Rank(k) >= Start(f) =>
        \A i \in DOMAIN link[l], j \in DOMAIN link[k] :
            Behind(l, i, k, j) => Val(link[k][j], f) < Val(link[l][i], f)

Bounded ==
    \A l \in Pipe : \A i \in DOMAIN link[l] :
        /\ link[l][i].bearer.id \in 1 .. epsBearer
        /\ Rank(l) >= 4 => link[l][i].bearer.teid \in 1 .. smfTEID

\* Where a message may be.
Placed(l, m) ==
    /\ m.gnb = SelectedCell[m.ue]
    /\ \A g \in Gnbs : l \in {N2up(g), N2down(g)} => g = m.gnb

Located == \A l \in Links : \A i \in DOMAIN link[l] : Placed(l, link[l][i])

Newer(u) ==
    \A l \in Pipe : \A i \in DOMAIN link[l] : link[l][i].ue = u =>
        /\ bearer[u].id < link[l][i].bearer.id
        /\ Rank(l) >= 4 => bearer[u].teid < link[l][i].bearer.teid

AtSmf(u) ==
    \A l \in Pipe : Rank(l) >= 2 => \A i \in DOMAIN link[l] :
        link[l][i].ue = u => link[l][i].bearer.id <= SmfBearer(u)

Last(u) ==
    \/ bearer[u].id = SmfBearer(u)
    \/ \E l \in Pipe : Rank(l) >= 2 /\ \E i \in DOMAIN link[l] :
          link[l][i].ue = u /\ link[l][i].bearer.id = SmfBearer(u)

\* The first entry of the AMF for gNB g, and a UE on its list.
Known(g) == \E i \in DOMAIN amfInfo : amfInfo[i].gnb = g
FirstAt(i, g) ==
    /\ i \in DOMAIN amfInfo /\ amfInfo[i].gnb = g
    /\ \A j \in DOMAIN amfInfo : amfInfo[j].gnb = g => i <= j
On(i, u) == \E k \in DOMAIN amfInfo[i].ueList : amfInfo[i].ueList[k] = u
Listed(u) == \E i \in DOMAIN amfInfo : FirstAt(i, SelectedCell[u]) /\ On(i, u)

Announced ==
    \A g \in Gnbs : \A i \in DOMAIN link[N2up(g)] :
        link[N2up(g)][i].type = "INITIAL_UE" => Known(g)

Registered(u) ==
    /\ bearer[u] # NoBearer => Listed(u)
    /\ \A l \in Pipe : \A i \in DOMAIN link[l] : link[l][i].ue = u => Listed(u)

IInv == /\ TypeOK /\ Located /\ Bounded /\ Ordered("id") /\ Ordered("teid") /\ Announced
        /\ \A u \in UEs : Newer(u) /\ AtSmf(u) /\ Last(u) /\ Registered(u)
-----------------------------------------------------------------------------
\* What Tail and Append do to the elements of a queue: p is q without its
\* first element, p is q with a behind it.
Taken(q, p) ==
    /\ \A i \in DOMAIN p : i \in Nat \ {0} /\ i + 1 \in DOMAIN q /\ p[i] = q[i + 1]
    /\ \A i \in DOMAIN q : /\ i \in Nat \ {0}
                           /\ i # 1 => i - 1 \in DOMAIN p /\ p[i - 1] = q[i]
    /\ 1 \in DOMAIN q

Put(q, p, a) ==
    /\ \A i \in DOMAIN p : /\ i \in Nat \ {0}
                           /\ \/ i \in DOMAIN q /\ p[i] = q[i]
                              \/ i = Len(q) + 1 /\ p[i] = a
    /\ \A i \in DOMAIN q : i \in DOMAIN p /\ p[i] = q[i] /\ i < Len(q) + 1
    /\ Len(q) + 1 \in DOMAIN p /\ p[Len(q) + 1] = a

LEMMA TailLemma ==
    ASSUME NEW M, NEW q \in Seq(M), q # << >>
    PROVE  /\ Tail(q) \in Seq(M) /\ Head(q) \in M /\ Head(q) = q[1]
           /\ Taken(q, Tail(q))
<1> DEFINE p == Tail(q)
<1>1. /\ Head(q) \in M /\ p \in Seq(M)
      /\ Len(p) = Len(q) - 1 /\ Len(q) \in Nat \ {0}
      /\ \A i \in 1 .. Len(p) : p[i] = q[i + 1]
      /\ q[1] = Head(q)
  BY HeadTailProperties, EmptySeq
<1>2. DOMAIN q = 1 .. Len(q) /\ DOMAIN p = 1 .. Len(q) - 1
  BY <1>1, LenProperties
<1> HIDE DEF p
<1>3. Taken(q, p)
  BY <1>1, <1>2 DEF Taken
<1> QED  BY <1>1, <1>3 DEF p

Snoc(q, a) == Append(q, a)

LEMMA SnocLemma ==
    ASSUME NEW M, NEW q \in Seq(M), NEW a \in M
    PROVE  Snoc(q, a) \in Seq(M) /\ Put(q, Snoc(q, a), a)
<1> DEFINE p == Snoc(q, a)
<1>1. /\ p \in Seq(M) /\ Len(p) = Len(q) + 1 /\ Len(q) \in Nat
      /\ \A i \in 1 .. Len(q) : p[i] = q[i]
      /\ p[Len(q) + 1] = a
  BY AppendProperties DEF Snoc
<1>2. DOMAIN q = 1 .. Len(q) /\ DOMAIN p = 1 .. Len(q) + 1
  BY <1>1, LenProperties
<1> HIDE DEF p
<1>3. Put(q, p, a)
  BY <1>1, <1>2 DEF Put
<1> QED  BY <1>1, <1>3 DEF p

\* What the messages on the links become.
TookOnly(l) ==
    /\ link' \in [Links -> Seq(Msg)]
    /\ \A c \in Links : c # l => link'[c] = link[c]
    /\ Taken(link[l], link'[l])

SentOnly(r, a) ==
    /\ link' \in [Links -> Seq(Msg)]
    /\ \A c \in Links : c # r => link'[c] = link[c]
    /\ Put(link[r], link'[r], a)

Passed(l, r, a) ==
    /\ link' \in [Links -> Seq(Msg)]
    /\ \A c \in Links : c # l /\ c # r => link'[c] = link[c]
    /\ Taken(link[l], link'[l])
    /\ Put(link[r], link'[r], a)

LinkType == link \in [Links -> Seq(Msg)]

LEMMA TakeLemma ==
    ASSUME LinkType, NEW l \in Links, link[l] # << >>,
           link' = [link EXCEPT ![l] = Tail(@)]
    PROVE  TookOnly(l) /\ Head(link[l]) \in Msg /\ Head(link[l]) = link[l][1]
<1>1. link[l] \in Seq(Msg)
  BY DEF LinkType
<1>2. /\ Tail(link[l]) \in Seq(Msg) /\ Head(link[l]) \in Msg /\ Head(link[l]) = link[l][1]
      /\ Taken(link[l], Tail(link[l]))
  BY <1>1, TailLemma
<1> DEFINE p == Tail(link[l])
<1>3. link' = [link EXCEPT ![l] = p]
  OBVIOUS
<1> HIDE DEF p
<1>4. link'[l] = p /\ p \in Seq(Msg) /\ link' \in [Links -> Seq(Msg)]
  BY <1>2, <1>3 DEF p, LinkType
<1>5. \A c \in Links : c # l => link'[c] = link[c]
  BY <1>3 DEF LinkType
<1>6. Taken(link[l], link'[l])
  BY <1>2, <1>4 DEF p
<1> QED  BY <1>2, <1>4, <1>5, <1>6 DEF TookOnly

LEMMA SendLemma ==
    ASSUME LinkType, NEW r \in Links, NEW a \in Msg, Send(r, a)
    PROVE  SentOnly(r, a)
<1>1. link[r] \in Seq(Msg)
  BY DEF LinkType
<1>2. Snoc(link[r], a) \in Seq(Msg) /\ Put(link[r], Snoc(link[r], a), a)
  BY <1>1, SnocLemma
<1> DEFINE p == Snoc(link[r], a)
<1>3. link' = [link EXCEPT ![r] = p]
  BY DEF Send, Snoc
<1> HIDE DEF p
<1>4. link'[r] = p /\ p \in Seq(Msg) /\ link' \in [Links -> Seq(Msg)]
  BY <1>2, <1>3 DEF p, LinkType
<1>5. \A c \in Links : c # r => link'[c] = link[c]
  BY <1>3 DEF LinkType
<1>6. Put(link[r], link'[r], a)
  BY <1>2, <1>4 DEF p
<1> QED  BY <1>4, <1>5, <1>6 DEF SentOnly

\* The header goes on unchanged.
LEMMA AsLemma ==
    ASSUME NEW m \in Msg, NEW t \in Types, NEW b \in [id : Nat, teid : Nat]
    PROVE  /\ As(m, t, b) \in Msg /\ As(m, t, b).type = t /\ As(m, t, b).bearer = b
           /\ As(m, t, b).ue = m.ue /\ As(m, t, b).gnb = m.gnb
  BY DEF As, Msg

LEMMA RelayLemma ==
    ASSUME LinkType, NEW l \in Links, NEW r \in Links, l # r, link[l] # << >>,
           NEW a \in Msg, Relay(l, r, a)
    PROVE  /\ Passed(l, r, a)
           /\ Head(link[l]) \in Msg /\ Head(link[l]) = link[l][1] /\ 1 \in DOMAIN link[l]
<1> DEFINE h == Head(link[l])
           p == Tail(link[l])
           q == Snoc(link[r], a)
<1>1. link[l] \in Seq(Msg) /\ link[r] \in Seq(Msg)
  BY DEF LinkType
<1>2. p \in Seq(Msg) /\ h \in Msg /\ h = link[l][1] /\ Taken(link[l], p)
  BY <1>1, TailLemma
<1>3. link' = [link EXCEPT ![l] = p, ![r] = q]
  BY DEF Relay, Snoc
<1> HIDE DEF h
<1>5. q \in Seq(Msg) /\ Put(link[r], q, a)
  BY <1>1, SnocLemma
<1> HIDE DEF p, q
<1>6. /\ link'[l] = p /\ link'[r] = q /\ link' \in [Links -> Seq(Msg)]
      /\ \A c \in Links : c # l /\ c # r => link'[c] = link[c]
  BY <1>2, <1>3, <1>5 DEF LinkType
<1>7. Passed(l, r, a)
  BY <1>2, <1>5, <1>6 DEF Passed
<1> QED  BY <1>2, <1>7 DEF h, Taken

\* Where the messages of a link were before the first of l was taken, and
\* possibly a new one appended to r.
LEMMA PassedFrom ==
    ASSUME LinkType, NEW l \in Links, NEW r \in Links, l # r, NEW a, Passed(l, r, a),
           NEW c \in Links, NEW i \in DOMAIN link'[c]
    PROVE  /\ i \in Nat \ {0}
           /\ \/ c = l /\ i + 1 \in DOMAIN link[c] /\ link'[c][i] = link[c][i + 1]
              \/ c # l /\ i \in DOMAIN link[c] /\ link'[c][i] = link[c][i]
              \/ c = r /\ i = Len(link[r]) + 1 /\ link'[c][i] = a
<1>1. CASE c = l
  BY <1>1 DEF Passed, Taken
<1>2. CASE c = r
  BY <1>2 DEF Passed, Put
<1>3. CASE c # l /\ c # r
  <2>1. link'[c] = link[c] /\ link[c] \in Seq(Msg)
    BY <1>3 DEF Passed, LinkType
  <2>2. i \in Nat \ {0}
    BY <2>1, LenProperties
  <2> QED  BY <1>3, <2>1, <2>2
<1> QED  BY <1>1, <1>2, <1>3

-----------------------------------------------------------------------------
\* The pipe, and the ranks of its links.
LEMMA PipeFacts ==
    /\ {N11req, N4req, N4resp, N11resp} \subseteq Pipe /\ Pipe \subseteq Links
    /\ \A g \in Gnbs : N2up(g) \in Links /\ N2down(g) \in Pipe
    /\ \A g : N2up(g) \notin Pipe
    /\ \A l : Rank(l) \in 1 .. 5
    /\ \A l, k \in Pipe : Rank(l) = Rank(k) /\ Rank(l) < 5 => l = k
    /\ Rank(N11req) = 1 /\ Rank(N4req) = 2 /\ Rank(N4resp) = 3 /\ Rank(N11resp) = 4
    /\ \A g : Rank(N2down(g)) = 5
    /\ \A g, h : N2up(g) # N2down(h) /\ (N2up(g) = N2up(h) => g = h)
                 /\ (N2down(g) = N2down(h) => g = h)
    /\ \A l \in Pipe : \A g : Rank(l) < 5 => l # N2down(g)
    /\ \A l \in Pipe : \A k : Rank(l) # Rank(k) => l # k
<1>1. /\ {N11req, N4req, N4resp, N11resp} \subseteq Pipe /\ Pipe \subseteq Links
      /\ \A g \in Gnbs : N2up(g) \in Links /\ N2down(g) \in Pipe
  BY DEF Pipe, Links, N11req, N4req, N4resp, N11resp, N2up, N2down
<1>2. \A g : N2up(g) \notin Pipe
  BY DEF Pipe, N11req, N4req, N4resp, N11resp, N2up, N2down
<1>3. /\ Rank(N11req) = 1 /\ Rank(N4req) = 2 /\ Rank(N4resp) = 3 /\ Rank(N11resp) = 4
      /\ \A g : Rank(N2down(g)) = 5
  BY DEF Rank, N11req, N4req, N4resp, N11resp, N2down
<1>4. \A l : Rank(l) \in 1 .. 5
  BY DEF Rank
<1>5. \A l, k \in Pipe : Rank(l) = Rank(k) /\ Rank(l) < 5 => l = k
  BY DEF Rank
<1>6. \A g, h : N2up(g) # N2down(h) /\ (N2up(g) = N2up(h) => g = h)
                 /\ (N2down(g) = N2down(h) => g = h)
  BY DEF N2up, N2down
<1> QED  BY <1>1, <1>2, <1>3, <1>4, <1>5, <1>6

\* The values compared are numbers.
LEMMA ValType ==
    ASSUME LinkType, NEW f, NEW l \in Links, NEW i \in DOMAIN link[l]
    PROVE  Val(link[l][i], f) \in Nat /\ i \in Nat \ {0}
<1>1. link[l] \in Seq(Msg)
  BY DEF LinkType
<1>2. link[l][i] \in Msg /\ i \in Nat \ {0}
  BY <1>1, ElementOfSeq, LenProperties
<1> QED  BY <1>2 DEF Msg, Val

\* A message leaves the part of the pipe that is ordered by f, or passes
\* outside of it: the order of what is left is the same.
LEMMA OrderedKept ==
    ASSUME LinkType, NEW f, Ordered(f), NEW l \in Links, NEW r \in Links, l # r, NEW a,
           Passed(l, r, a), r \notin Pipe \/ Rank(r) < Start(f)
    PROVE  Ordered(f)'
<1>1. ASSUME NEW c \in Pipe, NEW k \in Pipe, Rank(c) >= Start(f), Rank(k) >= Start(f),
             NEW i \in DOMAIN link'[c], NEW j \in DOMAIN link'[k], Behind(c, i, k, j)
      PROVE  Val(link'[k][j], f) < Val(link'[c][i], f)
  <2>1. c \in Links /\ k \in Links /\ Rank(c) \in 1 .. 5 /\ Rank(k) \in 1 .. 5
        /\ Rank(r) \in 1 .. 5 /\ Start(f) \in Nat
    BY PipeFacts DEF Start
  <2>2. c # r /\ k # r
    BY <1>1, <2>1
  <2>3. /\ i \in Nat \ {0}
        /\ \/ c = l /\ i + 1 \in DOMAIN link[c] /\ link'[c][i] = link[c][i + 1]
           \/ c # l /\ i \in DOMAIN link[c] /\ link'[c][i] = link[c][i]
    BY <2>1, <2>2, PassedFrom
  <2>4. /\ j \in Nat \ {0}
        /\ \/ k = l /\ j + 1 \in DOMAIN link[k] /\ link'[k][j] = link[k][j + 1]
           \/ k # l /\ j \in DOMAIN link[k] /\ link'[k][j] = link[k][j]
    BY <2>1, <2>2, PassedFrom
  <2>5. PICK x \in DOMAIN link[c] : link'[c][i] = link[c][x] /\ (x = IF c = l THEN i + 1 ELSE i)
    BY <2>3
  <2>6. PICK y \in DOMAIN link[k] : link'[k][j] = link[k][y] /\ (y = IF k = l THEN j + 1 ELSE j)
    BY <2>4
  <2>7. Behind(c, x, k, y)
    BY <1>1, <2>3, <2>4, <2>5, <2>6 DEF Behind
  <2> QED  BY <1>1, <2>5, <2>6, <2>7 DEF Ordered
<1> QED  BY <1>1 DEF Ordered

\* A message passes from one link of the ordered part to the next.
LEMMA OrderedPass ==
    ASSUME LinkType, NEW f, Ordered(f), NEW l \in Pipe, NEW r \in Pipe, NEW a,
           Passed(l, r, a), Rank(r) = Rank(l) + 1, Rank(l) >= Start(f),
           Val(a, f) = Val(link[l][1], f)
    PROVE  Ordered(f)'
<1>0. /\ l \in Links /\ r \in Links /\ l # r /\ Start(f) \in Nat
      /\ Rank(l) \in 1 .. 5 /\ Rank(r) \in 1 .. 5 /\ 1 \in DOMAIN link[l]
  BY PipeFacts DEF Start, Passed, Taken
<1>1. ASSUME NEW c \in Pipe, NEW k \in Pipe, Rank(c) >= Start(f), Rank(k) >= Start(f),
             NEW i \in DOMAIN link'[c], NEW j \in DOMAIN link'[k], Behind(c, i, k, j)
      PROVE  Val(link'[k][j], f) < Val(link'[c][i], f)
  <2>1. c \in Links /\ k \in Links /\ Rank(c) \in 1 .. 5 /\ Rank(k) \in 1 .. 5
    BY PipeFacts
  <2>2. PICK b, x : /\ b \in Pipe /\ x \in DOMAIN link[b]
                    /\ Val(link'[c][i], f) = Val(link[b][x], f)
                    /\ i \in Nat \ {0}
                    /\ \/ b = c /\ x = (IF c = l THEN i + 1 ELSE i)
                       \/ b = l /\ x = 1 /\ c = r /\ i = Len(link[r]) + 1
    <3>1. CASE c = r /\ i = Len(link[r]) + 1 /\ link'[c][i] = a
      <4>1. i \in Nat \ {0}
        BY <1>0, <2>1, PassedFrom
      <4> QED  BY <1>0, <3>1, <4>1
    <3>2. CASE i \in Nat \ {0} /\ c = l /\ i + 1 \in DOMAIN link[c] /\ link'[c][i] = link[c][i + 1]
      BY <3>2
    <3>3. CASE i \in Nat \ {0} /\ c # l /\ i \in DOMAIN link[c] /\ link'[c][i] = link[c][i]
      BY <3>3
    <3> QED  BY <1>0, <2>1, <3>1, <3>2, <3>3, PassedFrom
  <2>3. PICK d, y : /\ d \in Pipe /\ y \in DOMAIN link[d]
                    /\ Val(link'[k][j], f) = Val(link[d][y], f)
                    /\ j \in Nat \ {0}
                    /\ \/ d = k /\ y = (IF k = l THEN j + 1 ELSE j)
                       \/ d = l /\ y = 1 /\ k = r /\ j = Len(link[r]) + 1
    <3>1. CASE k = r /\ j = Len(link[r]) + 1 /\ link'[k][j] = a
      <4>1. j \in Nat \ {0}
        BY <1>0, <2>1, PassedFrom
      <4> QED  BY <1>0, <3>1, <4>1
    <3>2. CASE j \in Nat \ {0} /\ k = l /\ j + 1 \in DOMAIN link[k] /\ link'[k][j] = link[k][j + 1]
      BY <3>2
    <3>3. CASE j \in Nat \ {0} /\ k # l /\ j \in DOMAIN link[k] /\ link'[k][j] = link[k][j]
      BY <3>3
    <3> QED  BY <1>0, <2>1, <3>1, <3>2, <3>3, PassedFrom
  <2>4. \A z \in DOMAIN link[r] : z \in Nat /\ z < Len(link[r]) + 1
    <3>1. link[r] \in Seq(Msg)
      BY <1>0 DEF LinkType
    <3>2. DOMAIN link[r] = 1 .. Len(link[r]) /\ Len(link[r]) \in Nat
      BY <3>1, LenProperties
    <3> QED  BY <3>2
  <2>5. Behind(b, x, d, y)
    <3>1. CASE b = c /\ x = (IF c = l THEN i + 1 ELSE i) /\ d = k /\ y = (IF k = l THEN j + 1 ELSE j)
      BY <1>1, <2>2, <2>3, <3>1 DEF Behind
    <3>2. CASE b = l /\ x = 1 /\ c = r /\ i = Len(link[r]) + 1
               /\ d = k /\ y = (IF k = l THEN j + 1 ELSE j)
      BY <1>0, <1>1, <2>1, <3>2 DEF Behind
    <3>3. CASE b = c /\ x = (IF c = l THEN i + 1 ELSE i)
               /\ d = l /\ y = 1 /\ k = r /\ j = Len(link[r]) + 1
      <4>1. ~(c = k /\ j < i)
        BY <1>0, <2>2, <2>4, <3>3
      <4>2. Rank(c) < Rank(r)
        BY <1>1, <3>3, <4>1 DEF Behind
      <4>3. Rank(c) < Rank(l) \/ (Rank(c) = Rank(l) /\ Rank(c) < 5)
        BY <1>0, <2>1, <4>2
      <4>4. Rank(c) < Rank(l) \/ c = l
        BY <4>3, PipeFacts
      <4> QED  BY <2>2, <3>3, <4>4 DEF Behind
    <3>4. CASE b = l /\ x = 1 /\ c = r /\ i = Len(link[r]) + 1
               /\ d = l /\ y = 1 /\ k = r /\ j = Len(link[r]) + 1
      BY <1>1, <2>1, <2>2, <3>4 DEF Behind
    <3> QED  BY <2>2, <2>3, <3>1, <3>2, <3>3, <3>4
  <2>6. Rank(b) >= Start(f) /\ Rank(d) >= Start(f)
    BY <1>1, <2>2, <2>3
  <2> QED  BY <2>2, <2>3, <2>5, <2>6 DEF Ordered
<1> QED  BY <1>1 DEF Ordered

\* A message enters the ordered part with a value greater than all in it.
LEMMA OrderedFresh ==
    ASSUME LinkType, NEW f, Ordered(f), NEW l \in Links, NEW r \in Pipe, l # r, NEW a,
           Passed(l, r, a), Rank(r) = Start(f), Rank(r) < 5,
           l \notin Pipe \/ Rank(l) < Start(f),
           \A c \in Pipe : Rank(c) >= Start(f) =>
              \A i \in DOMAIN link[c] : Val(link[c][i], f) < Val(a, f)
    PROVE  Ordered(f)'
<1>0. r \in Links /\ Rank(r) \in 1 .. 5 /\ Rank(l) \in 1 .. 5 /\ Start(f) \in Nat
  BY PipeFacts DEF Start
<1>1. ASSUME NEW c \in Pipe, NEW k \in Pipe, Rank(c) >= Start(f), Rank(k) >= Start(f),
             NEW i \in DOMAIN link'[c], NEW j \in DOMAIN link'[k], Behind(c, i, k, j)
      PROVE  Val(link'[k][j], f) < Val(link'[c][i], f)
  <2>1. c \in Links /\ k \in Links /\ c # l /\ k # l
        /\ Rank(c) \in 1 .. 5 /\ Rank(k) \in 1 .. 5
    BY <1>0, <1>1, PipeFacts
  <2>2. /\ i \in Nat \ {0}
        /\ \/ i \in DOMAIN link[c] /\ link'[c][i] = link[c][i]
           \/ c = r /\ i = Len(link[r]) + 1 /\ link'[c][i] = a
    BY <1>0, <2>1, PassedFrom
  <2>3. /\ j \in Nat \ {0}
        /\ \/ j \in DOMAIN link[k] /\ link'[k][j] = link[k][j]
           \/ k = r /\ j = Len(link[r]) + 1 /\ link'[k][j] = a
    BY <1>0, <2>1, PassedFrom
  <2>4. \A z \in DOMAIN link[r] : z < Len(link[r]) + 1
    <3>1. link[r] \in Seq(Msg)
      BY <1>0 DEF LinkType
    <3>2. DOMAIN link[r] = 1 .. Len(link[r]) /\ Len(link[r]) \in Nat
      BY <3>1, LenProperties
    <3> QED  BY <3>2
  <2>5. CASE j \in DOMAIN link[k] /\ link'[k][j] = link[k][j]
    <3>1. CASE i \in DOMAIN link[c] /\ link'[c][i] = link[c][i]
      BY <1>1, <2>5, <3>1 DEF Ordered
    <3>2. CASE link'[c][i] = a
      BY <1>1, <2>5, <3>2
    <3> QED  BY <2>2, <3>1, <3>2
  <2>6. CASE k = r /\ j = Len(link[r]) + 1 /\ link'[k][j] = a
    <3>1. ~(Rank(c) < Rank(k))
      BY <1>0, <1>1, <2>1, <2>6
    <3>2. c = r /\ j < i
      BY <1>1, <2>6, <3>1 DEF Behind
    <3>3. i \in DOMAIN link[r] \/ i = j
      BY <2>2, <2>6, <3>2
    <3> QED  BY <2>2, <2>3, <2>4, <2>6, <3>2, <3>3
  <2> QED  BY <2>3, <2>5, <2>6
<1> QED  BY <1>1 DEF Ordered

-----------------------------------------------------------------------------
\* What a message that is passed on keeps of the rest of the invariant.
LEMMA LocatedPass ==
    ASSUME LinkType, Located, NEW l \in Links, NEW r \in Links, l # r, NEW a,
           Passed(l, r, a), Placed(r, a)
    PROVE  Located'
<1>1. ASSUME NEW c \in Links, NEW i \in DOMAIN link'[c] PROVE Placed(c, link'[c][i])
  <2>1. CASE c = r /\ link'[c][i] = a
    BY <2>1
  <2>2. CASE \E k \in DOMAIN link[c] : link'[c][i] = link[c][k]
    BY <2>2 DEF Located
  <2> QED  BY <2>1, <2>2, PassedFrom
<1> QED  BY <1>1 DEF Located

LEMMA BoundedPass ==
    ASSUME LinkType, Bounded, NEW l \in Links, NEW r \in Links, l # r, NEW a,
           Passed(l, r, a),
           epsBearer \in Nat, epsBearer' \in Nat, epsBearer <= epsBearer',
           smfTEID \in Nat, smfTEID' \in Nat, smfTEID <= smfTEID',
           r \in Pipe => /\ a.bearer.id \in 1 .. epsBearer'
                         /\ Rank(r) >= 4 => a.bearer.teid \in 1 .. smfTEID'
    PROVE  Bounded'
<1>1. ASSUME NEW c \in Pipe, NEW i \in DOMAIN link'[c]
      PROVE  /\ link'[c][i].bearer.id \in 1 .. epsBearer'
             /\ Rank(c) >= 4 => link'[c][i].bearer.teid \in 1 .. smfTEID'
  <2>0. c \in Links
    BY PipeFacts
  <2>1. CASE c = r /\ link'[c][i] = a
    BY <2>1
  <2>2. CASE \E k \in DOMAIN link[c] : link'[c][i] = link[c][k]
    <3>1. PICK k \in DOMAIN link[c] : link'[c][i] = link[c][k]
      BY <2>2
    <3>2. /\ link[c][k].bearer.id \in 1 .. epsBearer
          /\ Rank(c) >= 4 => link[c][k].bearer.teid \in 1 .. smfTEID
      BY DEF Bounded
    <3> QED  BY <3>1, <3>2
  <2> QED  BY <2>0, <2>1, <2>2, PassedFrom
<1> QED  BY <1>1 DEF Bounded

LEMMA NewerPass ==
    ASSUME LinkType, NEW u \in UEs, Newer(u), NEW l \in Links, NEW r \in Links, l # r, NEW a,
           Passed(l, r, a), bearer'[u] = bearer[u],
           r \in Pipe /\ a.ue = u =>
              /\ bearer[u].id < a.bearer.id
              /\ Rank(r) >= 4 => bearer[u].teid < a.bearer.teid
    PROVE  Newer(u)'
<1>1. ASSUME NEW c \in Pipe, NEW i \in DOMAIN link'[c], link'[c][i].ue = u
      PROVE  /\ bearer[u].id < link'[c][i].bearer.id
             /\ Rank(c) >= 4 => bearer[u].teid < link'[c][i].bearer.teid
  <2>0. c \in Links
    BY PipeFacts
  <2>1. CASE c = r /\ link'[c][i] = a
    BY <1>1, <2>1
  <2>2. CASE \E k \in DOMAIN link[c] : link'[c][i] = link[c][k]
    BY <1>1, <2>2 DEF Newer
  <2> QED  BY <2>0, <2>1, <2>2, PassedFrom
<1> QED  BY <1>1 DEF Newer

LEMMA AtSmfPass ==
    ASSUME LinkType, NEW u \in UEs, NEW b, b = SmfBearer(u)',
           NEW l \in Links, NEW r \in Links, l # r, NEW a, Passed(l, r, a),
           \A c \in Pipe : Rank(c) >= 2 => \A i \in DOMAIN link[c] :
              link[c][i].ue = u => link[c][i].bearer.id <= b,
           r \in Pipe /\ Rank(r) >= 2 /\ a.ue = u => a.bearer.id <= b
    PROVE  AtSmf(u)'
<1>1. ASSUME NEW c \in Pipe, Rank(c) >= 2, NEW i \in DOMAIN link'[c], link'[c][i].ue = u
      PROVE  link'[c][i].bearer.id <= b
  <2>0. c \in Links
    BY PipeFacts
  <2>1. CASE c = r /\ link'[c][i] = a
    BY <1>1, <2>1
  <2>2. CASE \E k \in DOMAIN link[c] : link'[c][i] = link[c][k]
    BY <1>1, <2>2
  <2> QED  BY <2>0, <2>1, <2>2, PassedFrom
<1> QED  BY <1>1 DEF AtSmf

\* The message with the bearer of the SMF stays in the pipe.
LEMMA LastPass ==
    ASSUME LinkType, NEW u \in UEs, Last(u), SmfBearer(u)' = SmfBearer(u),
           bearer'[u] = bearer[u],
           NEW l \in Links, NEW r \in Links, l # r, NEW a, Passed(l, r, a),
           \/ link[l][1].ue # u
           \/ l \notin Pipe \/ Rank(l) < 2
           \/ /\ r \in Pipe /\ Rank(r) >= 2
              /\ a.ue = link[l][1].ue /\ a.bearer.id = link[l][1].bearer.id
    PROVE  Last(u)'
<1> DEFINE b == SmfBearer(u)
<1>1. CASE bearer[u].id = b
  BY <1>1 DEF Last
<1>2. CASE \E c \in Pipe : Rank(c) >= 2 /\ \E i \in DOMAIN link[c] :
             link[c][i].ue = u /\ link[c][i].bearer.id = b
  <2>1. PICK c \in Pipe : Rank(c) >= 2 /\ \E i \in DOMAIN link[c] :
             link[c][i].ue = u /\ link[c][i].bearer.id = b
    BY <1>2
  <2>2. PICK i \in DOMAIN link[c] : link[c][i].ue = u /\ link[c][i].bearer.id = b
    BY <2>1
  <2>3. c \in Links /\ Rank(c) \in 1 .. 5
    BY PipeFacts
  <2> HIDE DEF b
  <2>4. CASE c = l /\ i = 1
    <3>1. r \in Pipe /\ Rank(r) >= 2 /\ a.ue = u /\ a.bearer.id = b
      BY <2>1, <2>2, <2>3, <2>4
    <3>2. Len(link[r]) + 1 \in DOMAIN link'[r] /\ link'[r][Len(link[r]) + 1] = a
      BY DEF Passed, Put
    <3> QED  BY <3>1, <3>2 DEF Last, b
  <2>5. CASE ~(c = l /\ i = 1)
    <3>1. \E k \in DOMAIN link'[c] : link'[c][k] = link[c][i]
      <4>1. CASE c = l
        BY <2>5, <4>1 DEF Passed, Taken
      <4>2. CASE c = r
        BY <4>2 DEF Passed, Put
      <4>3. CASE c # l /\ c # r
        BY <2>3, <4>3 DEF Passed
      <4> QED  BY <4>1, <4>2, <4>3
    <3> QED  BY <2>1, <2>2, <3>1 DEF Last, b
  <2> QED  BY <2>4, <2>5
<1> QED  BY <1>1, <1>2 DEF Last

LEMMA RegisteredPass ==
    ASSUME LinkType, NEW u \in UEs, Registered(u), Listed(u) => Listed(u)',
           NEW l \in Links, NEW r \in Links, l # r, NEW a, Passed(l, r, a),
           bearer'[u] # bearer[u] => Listed(u)',
           r \in Pipe /\ a.ue = u => Listed(u)'
    PROVE  Registered(u)'
<1>1. ASSUME NEW c \in Pipe, NEW i \in DOMAIN link'[c], link'[c][i].ue = u PROVE Listed(u)'
  <2>0. c \in Links
    BY PipeFacts
  <2>1. CASE c = r /\ link'[c][i] = a
    BY <1>1, <2>1
  <2>2. CASE \E k \in DOMAIN link[c] : link'[c][i] = link[c][k]
    BY <1>1, <2>2 DEF Registered
  <2> QED  BY <2>0, <2>1, <2>2, PassedFrom
<1>2. bearer'[u] # NoBearer => Listed(u)'
  BY DEF Registered
<1>3. NoBearer' = NoBearer
  BY DEF NoBearer
<1> QED  BY <1>1, <1>2, <1>3 DEF Registered

LEMMA AnnouncedPass ==
    ASSUME LinkType, Announced, \A g \in Gnbs : Known(g) => Known(g)',
           NEW l \in Links, NEW r \in Links, l # r, NEW a, Passed(l, r, a),
           a.type # "INITIAL_UE"
    PROVE  Announced'
<1>1. ASSUME NEW g \in Gnbs, NEW i \in DOMAIN link'[N2up(g)],
             link'[N2up(g)][i].type = "INITIAL_UE"
      PROVE  Known(g)'
  <2> DEFINE c == N2up(g)
  <2>0. c \in Links
    BY PipeFacts
  <2>1. \E k \in DOMAIN link[c] : link'[c][i] = link[c][k]
    <3> HIDE DEF c
    <3>1. i \in DOMAIN link'[c] /\ link'[c][i].type = "INITIAL_UE"
      BY <1>1 DEF c
    <3> QED  BY <2>0, <3>1, PassedFrom
  <2> QED  BY <1>1, <2>1 DEF Announced
<1> QED  BY <1>1 DEF Announced, N2up

-----------------------------------------------------------------------------
\* The lists of the AMF and the SMF.
LEMMA LeastIndex ==
    ASSUME NEW D, D \in SUBSET Nat, D # {}
    PROVE  \E i \in D : \A j \in D : i <= j
<1>1. \E i \in D : \A j \in D : <<j, i>> \notin OpToRel(<, Nat)
  BY WFMin, NatLessThanWellFounded, Zenon
<1>2. \A i, j \in Nat : <<j, i>> \in OpToRel(<, Nat) <=> j < i
  BY DEF OpToRel
<1>3. \E i \in D : \A j \in D : ~(j < i)
  BY <1>1, <1>2, Zenon
<1> QED  BY <1>3

AmfEntry == [gnb : Gnbs, ueList : Seq(UEs)]
AmfType == amfInfo \in Seq(AmfEntry)

\* LTENR_AMF_Find_gNB_Info returns the first entry of a gNB that has one.
LEMMA FindGnbLemma ==
    ASSUME AmfType, NEW g, Known(g)
    PROVE  FirstAt(Find_gNB_Info(g), g)
<1> DEFINE D == {i \in DOMAIN amfInfo : amfInfo[i].gnb = g}
<1>1. DOMAIN amfInfo \subseteq Nat
  BY LenProperties DEF AmfType
<1>2. D \in SUBSET Nat /\ D # {}
  BY <1>1 DEF Known
<1>3. \E i \in D : \A j \in D : i <= j
  <2> HIDE DEF D
  <2> QED  BY <1>2, LeastIndex
<1>4. \E i \in DOMAIN amfInfo : amfInfo[i].gnb = g /\ \A j \in DOMAIN amfInfo : amfInfo[j].gnb = g => i <= j
  BY <1>3
<1>5. Find_gNB_Info(g) = CHOOSE i \in DOMAIN amfInfo : amfInfo[i].gnb = g
                             /\ \A j \in DOMAIN amfInfo : amfInfo[j].gnb = g => i <= j
  BY DEF Find_gNB_Info, First
<1> QED  BY <1>4, <1>5 DEF FirstAt

LEMMA FirstAtUnique ==
    ASSUME AmfType, NEW g, NEW i, NEW j, FirstAt(i, g), FirstAt(j, g)
    PROVE  i = j
<1>1. DOMAIN amfInfo \subseteq Nat
  BY LenProperties DEF AmfType
<1> QED  BY <1>1 DEF FirstAt

\* Another entry at the end hides no earlier one.
LEMMA AddgNBLemma ==
    ASSUME AmfType, NEW g \in Gnbs, AMF_AddgNB(g)
    PROVE  /\ AmfType' /\ Known(g)'
           /\ \A h \in Gnbs : Known(h) => Known(h)'
           /\ \A u \in UEs : Listed(u) => Listed(u)'
<1> DEFINE e == [gnb |-> g, ueList |-> << >>]
<1>1. << >> \in Seq(UEs)
  OBVIOUS
<1>2. e \in AmfEntry /\ e.gnb = g
  BY <1>1 DEF AmfEntry
<1>3. amfInfo' = Snoc(amfInfo, e)
  BY DEF AMF_AddgNB, Snoc
<1> HIDE DEF e
<1>4. amfInfo' \in Seq(AmfEntry) /\ Put(amfInfo, amfInfo', e)
  BY <1>2, <1>3, SnocLemma DEF AmfType
<1>5. Known(g)'
  BY <1>2, <1>4 DEF Put, Known
<1>6. ASSUME NEW h \in Gnbs, Known(h) PROVE Known(h)'
  BY <1>4, <1>6 DEF Put, Known
<1>7. ASSUME NEW u \in UEs, Listed(u) PROVE Listed(u)'
  <2>1. PICK i \in DOMAIN amfInfo : FirstAt(i, SelectedCell[u]) /\ On(i, u)
    BY <1>7 DEF Listed
  <2>2. i \in DOMAIN amfInfo' /\ amfInfo'[i] = amfInfo[i]
    BY <1>4 DEF Put
  <2>3. \A j \in DOMAIN amfInfo' : amfInfo'[j].gnb = SelectedCell[u] => i <= j
    <3>1. DOMAIN amfInfo = 1 .. Len(amfInfo) /\ Len(amfInfo) \in Nat
      BY LenProperties DEF AmfType
    <3> SUFFICES ASSUME NEW j \in DOMAIN amfInfo', amfInfo'[j].gnb = SelectedCell[u]
                 PROVE  i <= j
      OBVIOUS
    <3>2. CASE j \in DOMAIN amfInfo /\ amfInfo'[j] = amfInfo[j]
      BY <2>1, <3>2 DEF FirstAt
    <3>3. CASE j = Len(amfInfo) + 1
      BY <3>1, <3>3
    <3> QED  BY <1>4, <3>2, <3>3 DEF Put
  <2>4. FirstAt(i, SelectedCell[u])'
    BY <2>1, <2>2, <2>3 DEF FirstAt
  <2>5. On(i, u)'
    BY <2>1, <2>2 DEF On
  <2> QED  BY <2>2, <2>4, <2>5 DEF Listed
<1> QED  BY <1>4, <1>5, <1>6, <1>7 DEF AmfType, AmfEntry

\* LTENR_AMF_AddUE puts the UE on the list of the first entry.
LEMMA AddUELemma ==
    ASSUME AmfType, NEW u \in UEs, NEW g \in Gnbs, g = SelectedCell[u], Known(g),
           AMF_AddUE(g, u)
    PROVE  /\ AmfType' /\ Listed(u)'
           /\ \A h \in Gnbs : Known(h) => Known(h)'
           /\ \A v \in UEs : Listed(v) => Listed(v)'
<1>1. PICK n : n = Find_gNB_Info(g)
  OBVIOUS
<1>2. FirstAt(n, g)
  BY <1>1, FindGnbLemma
<1>3. n \in DOMAIN amfInfo
  BY <1>2 DEF FirstAt
<1> DEFINE q == Snoc(amfInfo[n].ueList, u)
<1>4. amfInfo' = [amfInfo EXCEPT ![n].ueList = q]
  BY <1>1 DEF AMF_AddUE, Snoc
<1>5. \A i \in DOMAIN amfInfo : amfInfo[i] \in AmfEntry
  BY ElementOfSeq, LenProperties DEF AmfType
<1>6. amfInfo[n].ueList \in Seq(UEs)
  BY <1>3, <1>5 DEF AmfEntry
<1>7. q \in Seq(UEs) /\ Put(amfInfo[n].ueList, q, u)
  BY <1>6, SnocLemma
<1> HIDE DEF q
<1>8. /\ DOMAIN amfInfo' = DOMAIN amfInfo
      /\ \A i \in DOMAIN amfInfo : i # n => amfInfo'[i] = amfInfo[i]
      /\ amfInfo'[n].gnb = amfInfo[n].gnb /\ amfInfo'[n].ueList = q
      /\ amfInfo'[n] \in AmfEntry
  <2>1. DOMAIN amfInfo' = DOMAIN amfInfo
    BY <1>4
  <2>2. \A i \in DOMAIN amfInfo : i # n => amfInfo'[i] = amfInfo[i]
    BY <1>4
  <2>3. amfInfo'[n] = [amfInfo[n] EXCEPT !.ueList = q]
    BY <1>3, <1>4
  <2>4. amfInfo[n] \in AmfEntry
    BY <1>3, <1>5
  <2> QED  BY <1>7, <2>1, <2>2, <2>3, <2>4 DEF AmfEntry
<1>9. amfInfo' \in Seq(AmfEntry)
  <2> DEFINE e == amfInfo'[n]
  <2>1. amfInfo' = [amfInfo EXCEPT ![n] = [amfInfo[n] EXCEPT !.ueList = q]]
    BY <1>4
  <2>2. amfInfo'[n] = [amfInfo[n] EXCEPT !.ueList = q]
    BY <1>3, <2>1
  <2>3. amfInfo' = [amfInfo EXCEPT ![n] = e]
    BY <2>1, <2>2
  <2>4. e \in AmfEntry
    BY <1>8
  <2>5. n \in 1 .. Len(amfInfo) /\ amfInfo \in Seq(AmfEntry)
    BY <1>3, LenProperties DEF AmfType
  <2> HIDE DEF e
  <2> QED  BY <2>3, <2>4, <2>5, ExceptSeq
<1>10. \A i \in DOMAIN amfInfo : amfInfo'[i].gnb = amfInfo[i].gnb
  BY <1>8
<1>11. ASSUME NEW i, NEW h, FirstAt(i, h) PROVE FirstAt(i, h)'
  BY <1>8, <1>10, <1>11 DEF FirstAt
<1>12. ASSUME NEW i \in DOMAIN amfInfo, NEW v, On(i, v) PROVE On(i, v)'
  <2>1. CASE i = n
    BY <1>7, <1>8, <1>12, <2>1 DEF On, Put
  <2>2. CASE i # n
    BY <1>8, <1>12, <2>2 DEF On
  <2> QED  BY <2>1, <2>2
<1>13. On(n, u)'
  BY <1>7, <1>8 DEF On, Put
<1>14. Listed(u)'
  BY <1>2, <1>3, <1>8, <1>11, <1>13 DEF Listed
<1>15. \A h \in Gnbs : Known(h) => Known(h)'
  BY <1>8, <1>10 DEF Known
<1>16. ASSUME NEW v \in UEs, Listed(v) PROVE Listed(v)'
  BY <1>8, <1>11, <1>12, <1>16 DEF Listed
<1> QED  BY <1>9, <1>14, <1>15, <1>16 DEF AmfType, AmfEntry

\* The same for a list of the SMF: its first entry for u.
SmfEntry(n) == [ue : UEs, gnb : Gnbs, bearer : 0 .. n]
Holds(list, u) == \E i \in DOMAIN list : list[i].ue = u
FirstOf(list, i, u) ==
    /\ i \in DOMAIN list /\ list[i].ue = u
    /\ \A j \in DOMAIN list : list[j].ue = u => i <= j

LEMMA FindUELemma ==
    ASSUME NEW S, NEW list \in Seq(S), NEW u, Holds(list, u)
    PROVE  FirstOf(list, SMF_FindUE(list, u), u)
<1> DEFINE D == {i \in DOMAIN list : list[i].ue = u}
<1>1. DOMAIN list \subseteq Nat
  BY LenProperties
<1>2. D \in SUBSET Nat /\ D # {}
  BY <1>1 DEF Holds
<1>3. \E i \in D : \A j \in D : i <= j
  <2> HIDE DEF D
  <2> QED  BY <1>2, LeastIndex
<1>4. \E i \in DOMAIN list : list[i].ue = u /\ \A j \in DOMAIN list : list[j].ue = u => i <= j
  BY <1>3
<1>5. SMF_FindUE(list, u) = CHOOSE i \in DOMAIN list : list[i].ue = u
                             /\ \A j \in DOMAIN list : list[j].ue = u => i <= j
  BY DEF SMF_FindUE, First
<1> QED  BY <1>4, <1>5 DEF FirstOf

LEMMA FirstOfUnique ==
    ASSUME NEW S, NEW list \in Seq(S), NEW u, NEW i, NEW j,
           FirstOf(list, i, u), FirstOf(list, j, u)
    PROVE  i = j
<1>1. DOMAIN list \subseteq Nat
  BY LenProperties
<1> QED  BY <1>1 DEF FirstOf

\* The bearer the SMF keeps for v, read from a list.
Kept(list, v) == IF Holds(list, v) THEN list[SMF_FindUE(list, v)].bearer ELSE 0

LEMMA SmfBearerIsKept ==
    \A v : SmfBearer(v) = Kept(ueInfo, v)
  BY DEF SmfBearer, Kept, Holds

LEMMA SmfTypeKept ==
    ASSUME NEW n \in Nat, NEW list \in Seq(SmfEntry(n)), NEW v \in UEs
    PROVE  Kept(list, v) \in 0 .. n
<1>1. CASE Holds(list, v)
  <2> DEFINE i == SMF_FindUE(list, v)
  <2>1. FirstOf(list, i, v)
    BY <1>1, FindUELemma
  <2>2. i \in DOMAIN list
    BY <2>1 DEF FirstOf
  <2> HIDE DEF i
  <2>3. list[i] \in SmfEntry(n)
    BY <2>2, ElementOfSeq, LenProperties
  <2> QED  BY <1>1, <2>3 DEF Kept, SmfEntry, i
<1>2. CASE ~Holds(list, v)
  BY <1>2 DEF Kept
<1> QED  BY <1>1, <1>2

\* A further entry for u, and the bearer b stored in the first one.
LEMMA AddBearerLemma ==
    ASSUME NEW n \in Nat, NEW list \in Seq(SmfEntry(n)), NEW u \in UEs, NEW e \in SmfEntry(n),
           e.ue = u, NEW b \in 0 .. n,
           NEW new, new = SMF_AddBearer(Snoc(list, e), u, b)
    PROVE  /\ new \in Seq(SmfEntry(n)) /\ Kept(new, u) = b
           /\ \A v \in UEs : v # u => Kept(new, v) = Kept(list, v)
<1>1. PICK s : s = Snoc(list, e)
  OBVIOUS
<1>2. s \in Seq(SmfEntry(n)) /\ Put(list, s, e)
  BY <1>1, SnocLemma
<1>3. Holds(s, u)
  BY <1>2 DEF Holds, Put
<1>4. PICK k : k = SMF_FindUE(s, u)
  OBVIOUS
<1>5. FirstOf(s, k, u)
  BY <1>2, <1>3, <1>4, FindUELemma
<1>6. new = [s EXCEPT ![k].bearer = b]
  BY <1>1, <1>4 DEF SMF_AddBearer
<1>7. k \in DOMAIN s /\ s[k] \in SmfEntry(n) /\ s[k].ue = u
  BY <1>2, <1>5, ElementOfSeq, LenProperties DEF FirstOf
<1>8. /\ DOMAIN new = DOMAIN s
      /\ \A i \in DOMAIN s : i # k => new[i] = s[i]
      /\ new[k] = [s[k] EXCEPT !.bearer = b]
  BY <1>6, <1>7
<1>9. new[k] \in SmfEntry(n) /\ new[k].ue = u /\ new[k].bearer = b
  BY <1>7, <1>8 DEF SmfEntry
<1>10. new \in Seq(SmfEntry(n))
  <2> DEFINE d == new[k]
  <2>1. new = [s EXCEPT ![k] = d]
    BY <1>6, <1>7, <1>8
  <2>2. d \in SmfEntry(n)
    BY <1>9
  <2>3. k \in 1 .. Len(s)
    BY <1>2, <1>7, LenProperties
  <2> HIDE DEF d
  <2> QED  BY <1>2, <2>1, <2>2, <2>3, ExceptSeq
<1>11. \A i \in DOMAIN s : new[i].ue = s[i].ue
  BY <1>7, <1>8, <1>9
<1>12. Kept(new, u) = b
  <2>1. FirstOf(new, k, u)
    BY <1>5, <1>8, <1>11 DEF FirstOf
  <2>2. Holds(new, u)
    BY <2>1 DEF FirstOf, Holds
  <2>3. SMF_FindUE(new, u) = k
    BY <1>10, <2>1, <2>2, FindUELemma, FirstOfUnique
  <2> QED  BY <1>9, <2>2, <2>3 DEF Kept
<1>13. ASSUME NEW v \in UEs, v # u PROVE Kept(new, v) = Kept(list, v)
  <2>1. CASE Holds(list, v)
    <3>1. PICK i : i = SMF_FindUE(list, v)
      OBVIOUS
    <3>2. FirstOf(list, i, v)
      BY <2>1, <3>1, FindUELemma
    <3>3. i \in DOMAIN list /\ i \in DOMAIN s /\ s[i] = list[i] /\ list[i].ue = v
      BY <1>2, <3>2 DEF FirstOf, Put
    <3>4. i # k /\ new[i] = list[i] /\ i \in DOMAIN new
      BY <1>7, <1>8, <1>13, <3>3
    <3>5. \A j \in DOMAIN new : new[j].ue = v => i <= j
      <4> SUFFICES ASSUME NEW j \in DOMAIN s, s[j].ue = v PROVE i <= j
        BY <1>8, <1>11
      <4>1. j \in DOMAIN list /\ s[j] = list[j]
        BY <1>2, <1>13 DEF Put
      <4> QED  BY <3>2, <4>1 DEF FirstOf
    <3>6. FirstOf(new, i, v) /\ Holds(new, v)
      BY <3>3, <3>4, <3>5 DEF FirstOf, Holds
    <3>7. SMF_FindUE(new, v) = i
      BY <1>10, <3>6, FindUELemma, FirstOfUnique
    <3> QED  BY <2>1, <3>1, <3>4, <3>6, <3>7 DEF Kept
  <2>2. CASE ~Holds(list, v)
    <3>1. ~Holds(new, v)
      <4> SUFFICES ASSUME NEW j \in DOMAIN s, s[j].ue = v PROVE FALSE
        BY <1>8, <1>11 DEF Holds
      <4>1. j \in DOMAIN list /\ s[j] = list[j]
        BY <1>2, <1>13 DEF Put
      <4> QED  BY <2>2, <4>1 DEF Holds
    <3> QED  BY <2>2, <3>1 DEF Kept
  <2> QED  BY <2>1, <2>2
<1> QED  BY <1>10, <1>12, <1>13

-----------------------------------------------------------------------------
\* What the counters bound grows with them.
BearerOf(n, t) == [id : 1 .. n, teid : 1 .. t] \cup {NoBearer}
BearerType == bearer \in [UEs -> BearerOf(epsBearer, smfTEID)]
SmfType == ueInfo \in Seq(SmfEntry(epsBearer))

LEMMA TypeParts ==
    TypeOK <=> /\ AmfType /\ gnbList \in Seq(Gnbs) /\ SmfType
               /\ epsBearer \in Nat /\ smfTEID \in Nat /\ pduSessionID \in Nat
               /\ BearerType
               /\ ueCMState \in [UEs -> {"IDLE", "CONNECTED"}]
               /\ LinkType
               /\ registrations \in [UEs -> 0 .. MaxRegistrations]
  BY DEF TypeOK, AmfType, AmfEntry, SmfType, SmfEntry, BearerType, BearerOf, LinkType

LEMMA SmfTypeGrows ==
    ASSUME NEW n \in Nat, NEW k \in Nat, n <= k, NEW list \in Seq(SmfEntry(n))
    PROVE  list \in Seq(SmfEntry(k))
<1>1. SmfEntry(n) \subseteq SmfEntry(k)
  BY DEF SmfEntry
<1>2. \A i \in 1 .. Len(list) : list[i] \in SmfEntry(k)
  BY <1>1, ElementOfSeq
<1>3. /\ Len(list) \in Nat /\ DOMAIN list = 1 .. Len(list)
      /\ list = [i \in 1 .. Len(list) |-> list[i]]
  BY LenProperties
<1> HIDE DEF SmfEntry
<1>4. list \in [1 .. Len(list) -> SmfEntry(k)]
  BY <1>2, <1>3
<1> QED  BY <1>3, <1>4, SeqDef

LEMMA BearerGrows ==
    ASSUME NEW n \in Nat, NEW k \in Nat, n <= k, NEW t \in Nat, NEW s \in Nat, t <= s
    PROVE  BearerOf(n, t) \subseteq BearerOf(k, s)
  BY DEF BearerOf

LEMMA BearerOfFacts ==
    ASSUME NEW n \in Nat, NEW t \in Nat, NEW b \in BearerOf(n, t)
    PROVE  b.id \in 0 .. n /\ b.teid \in 0 .. t
  BY DEF BearerOf, NoBearer

-----------------------------------------------------------------------------
\* A session message passed on between SMF, UPF, AMF and gNB.
LEMMA PassedOn ==
    ASSUME IInv, NEW l \in Pipe, NEW r \in Pipe, Rank(r) = Rank(l) + 1, Rank(l) >= 2,
           NEW h, h = link[l][1], NEW a \in Msg, Passed(l, r, a), Placed(r, a),
           a.ue = h.ue, a.bearer.id = h.bearer.id, a.type # "INITIAL_UE",
           UNCHANGED <<amfInfo, ueInfo, bearer, epsBearer>>,
           smfTEID' \in Nat, smfTEID <= smfTEID',
           Rank(r) >= 4 => a.bearer.teid \in 1 .. smfTEID' /\ bearer[h.ue].teid < a.bearer.teid
    PROVE  /\ Located' /\ Bounded' /\ Ordered("id")' /\ Announced'
           /\ \A u \in UEs : Newer(u)' /\ AtSmf(u)' /\ Last(u)' /\ Registered(u)'
<1>0. /\ LinkType /\ Located /\ Bounded /\ Ordered("id") /\ Announced
      /\ epsBearer \in Nat /\ smfTEID \in Nat
      /\ \A u \in UEs : Newer(u) /\ AtSmf(u) /\ Last(u) /\ Registered(u)
  BY TypeParts DEF IInv
<1>1. /\ l \in Links /\ r \in Links /\ l # r /\ 1 \in DOMAIN link[l]
      /\ Rank(l) \in 1 .. 5 /\ Rank(r) \in 1 .. 5
  BY PipeFacts DEF Passed, Taken
<1>2. Located'
  BY <1>0, <1>1, LocatedPass
<1>3. Bounded'
  <2>1. a.bearer.id \in 1 .. epsBearer
    BY <1>0, <1>1 DEF Bounded
  <2> QED  BY <1>0, <1>1, <2>1, BoundedPass
<1>4. Ordered("id")'
  <2> DEFINE f == "id"
  <2>1. Start(f) = 1 /\ Val(a, f) = Val(link[l][1], f)
    BY DEF Start, Val
  <2>2. Ordered(f)
    BY <1>0
  <2> HIDE DEF f
  <2>3. Ordered(f)'
    BY <1>0, <1>1, <2>1, <2>2, OrderedPass
  <2> QED  BY <2>3 DEF f
<1>5. Announced'
  <2>1. \A g \in Gnbs : Known(g) => Known(g)'
    BY DEF Known
  <2> QED  BY <1>0, <1>1, <2>1, AnnouncedPass
<1>6. ASSUME NEW u \in UEs PROVE Newer(u)' /\ AtSmf(u)' /\ Last(u)' /\ Registered(u)'
  <2>1. /\ SmfBearer(u)' = SmfBearer(u) /\ bearer'[u] = bearer[u]
        /\ Listed(u)' = Listed(u)
    BY DEF SmfBearer, SMF_FindUE, First, Listed, FirstAt, On
  <2>2. Newer(u) /\ AtSmf(u) /\ Last(u) /\ Registered(u)
    BY <1>0
  <2>3. Newer(u)'
    <3>1. a.ue = u => bearer[u].id < a.bearer.id
      BY <1>1, <2>2 DEF Newer
    <3> QED  BY <1>0, <1>1, <2>1, <2>2, <3>1, NewerPass
  <2>4. AtSmf(u)'
    <3>1. PICK b : b = SmfBearer(u)
      OBVIOUS
    <3>2. b = SmfBearer(u)'
      BY <2>1, <3>1
    <3>3. \A c \in Pipe : Rank(c) >= 2 => \A i \in DOMAIN link[c] :
              link[c][i].ue = u => link[c][i].bearer.id <= b
      BY <2>2, <3>1 DEF AtSmf
    <3>4. a.ue = u => a.bearer.id <= b
      BY <1>1, <3>3
    <3> QED  BY <1>0, <1>1, <3>2, <3>3, <3>4, AtSmfPass
  <2>5. Last(u)'
    <3>1. Rank(r) >= 2 /\ a.ue = link[l][1].ue /\ a.bearer.id = link[l][1].bearer.id
      BY <1>1
    <3> QED  BY <1>0, <1>1, <2>1, <2>2, <3>1, LastPass
  <2>6. Registered(u)'
    <3>1. a.ue = u => Listed(u)
      BY <1>1, <2>2 DEF Registered
    <3> QED  BY <1>0, <1>1, <2>1, <2>2, <3>1, RegisteredPass
  <2> QED  BY <2>3, <2>4, <2>5, <2>6
<1> QED  BY <1>2, <1>3, <1>4, <1>5, <1>6

\* The message at the head of a link, with its place.
LEMMA HeadFacts ==
    ASSUME IInv, NEW l \in Links, NEW t, Arrived(l, t)
    PROVE  /\ link[l] # << >> /\ Head(link[l]) = link[l][1] /\ 1 \in DOMAIN link[l]
           /\ Head(link[l]) \in Msg /\ Head(link[l]).type = t
           /\ Placed(l, Head(link[l]))
<1>1. link[l] # << >> /\ Head(link[l]).type = t /\ link[l] \in Seq(Msg)
  BY TypeParts DEF Arrived, IInv, LinkType
<1>2. Head(link[l]) \in Msg /\ Head(link[l]) = link[l][1] /\ 1 \in DOMAIN link[l]
  BY <1>1, TailLemma DEF Taken
<1> QED  BY <1>1, <1>2 DEF IInv, Located

\* Only the links of the gNBs fix the gNB of a message.
LEMMA PlacedOn ==
    ASSUME NEW l, NEW r, NEW m, Placed(l, m), NEW a, a.ue = m.ue, a.gnb = m.gnb,
           r \in {N11req, N4req, N4resp, N11resp, N2up(m.gnb), N2down(m.gnb)}
    PROVE  Placed(r, a)
  BY DEF Placed, N11req, N4req, N4resp, N11resp, N2up, N2down

LEMMA PfcpRequestStep ==
    ASSUME IInv, PFCP_SESSION_REQUEST_RECV
    PROVE  IInv'
<1> DEFINE l == N4req
           r == N4resp
           t == "PFCP_RESPONSE"
<1>1. PICK h : h = Head(link[l])
  OBVIOUS
<1> DEFINE a == As(h, t, h.bearer)
<1>2. /\ Arrived(l, "PFCP_REQUEST") /\ Relay(l, r, a)
      /\ UNCHANGED <<amfInfo, gnbList, ueInfo, epsBearer, smfTEID, pduSessionID,
                     bearer, ueCMState, registrations>>
  BY <1>1 DEF PFCP_SESSION_REQUEST_RECV, N4req, N4resp
<1>3. /\ l \in Pipe /\ r \in Pipe /\ l \in Links /\ r \in Links /\ l # r
      /\ Rank(l) = 2 /\ Rank(r) = 3 /\ t \in Types /\ t # "INITIAL_UE"
  BY PipeFacts DEF Types
<1> HIDE DEF l, r
<1>4. /\ link[l] # << >> /\ h = link[l][1] /\ h \in Msg /\ Placed(l, h)
  BY <1>1, <1>2, <1>3, HeadFacts
<1>5. h.bearer \in [id : Nat, teid : Nat]
  BY <1>4 DEF Msg
<1> HIDE DEF t
<1>6. a \in Msg /\ a.type = t /\ a.bearer = h.bearer /\ a.ue = h.ue /\ a.gnb = h.gnb
  BY <1>3, <1>4, <1>5, AsLemma
<1> HIDE DEF a
<1>7. TypeOK /\ LinkType /\ Ordered("teid") /\ smfTEID \in Nat
  BY TypeParts DEF IInv
<1>8. Passed(l, r, a)
  BY <1>2, <1>3, <1>4, <1>6, <1>7, RelayLemma
<1>9. Placed(r, a)
  BY <1>4, <1>6, PlacedOn DEF r
<1>10. TypeOK'
  BY <1>2, <1>7, <1>8 DEF TypeOK, Passed
<1>11. Ordered("teid")'
  <2> DEFINE f == "teid"
  <2>1. Rank(r) < Start(f)
    BY <1>3 DEF Start
  <2>2. Ordered(f)
    BY <1>7
  <2> HIDE DEF f
  <2>3. Ordered(f)'
    BY <1>3, <1>7, <1>8, <2>1, <2>2, OrderedKept
  <2> QED  BY <2>3 DEF f
<1>12. /\ Located' /\ Bounded' /\ Ordered("id")' /\ Announced'
       /\ \A u \in UEs : Newer(u)' /\ AtSmf(u)' /\ Last(u)' /\ Registered(u)'
  BY <1>2, <1>3, <1>4, <1>6, <1>7, <1>8, <1>9, PassedOn
<1> QED  BY <1>10, <1>11, <1>12 DEF IInv

LEMMA PfcpResponseStep ==
    ASSUME IInv, PFCP_SESSION_RESPONSE_RECV
    PROVE  IInv'
<1> DEFINE l == N4resp
           r == N11resp
           t == "CREATE_RESPONSE"
<1>1. PICK h : h = Head(link[l])
  OBVIOUS
<1> DEFINE b == [h.bearer EXCEPT !.teid = smfTEID + 1]
           a == As(h, t, b)
<1>2. /\ Arrived(l, "PFCP_RESPONSE") /\ Relay(l, r, a) /\ smfTEID' = smfTEID + 1
      /\ UNCHANGED <<amfInfo, gnbList, ueInfo, epsBearer, pduSessionID,
                     bearer, ueCMState, registrations>>
  BY <1>1 DEF PFCP_SESSION_RESPONSE_RECV, SMF_CREATE_SESSION_REPONSE, N4resp, N11resp
<1>3. /\ l \in Pipe /\ r \in Pipe /\ l \in Links /\ r \in Links /\ l # r
      /\ Rank(l) = 3 /\ Rank(r) = 4 /\ t \in Types /\ t # "INITIAL_UE"
  BY PipeFacts DEF Types
<1> HIDE DEF l, r
<1>4. /\ link[l] # << >> /\ h = link[l][1] /\ h \in Msg /\ Placed(l, h)
  BY <1>1, <1>2, <1>3, HeadFacts
<1>7. TypeOK /\ LinkType /\ Ordered("teid") /\ smfTEID \in Nat /\ epsBearer \in Nat
      /\ BearerType /\ Bounded
  BY TypeParts DEF IInv
<1>5. b \in [id : Nat, teid : Nat] /\ b.id = h.bearer.id /\ b.teid = smfTEID + 1
  BY <1>4, <1>7 DEF Msg
<1> HIDE DEF b, t
<1>6. a \in Msg /\ a.type = t /\ a.bearer = b /\ a.ue = h.ue /\ a.gnb = h.gnb
  BY <1>3, <1>4, <1>5, AsLemma
<1> HIDE DEF a
<1>8. Passed(l, r, a)
  BY <1>2, <1>3, <1>4, <1>6, <1>7, RelayLemma
<1>9. Placed(r, a)
  BY <1>4, <1>6, PlacedOn DEF r
<1>10. TypeOK'
  <2>1. BearerOf(epsBearer, smfTEID) \subseteq BearerOf(epsBearer, smfTEID')
    BY <1>2, <1>7, BearerGrows
  <2>2. bearer' \in [UEs -> BearerOf(epsBearer', smfTEID')]
    BY <1>2, <1>7, <2>1 DEF BearerType
  <2> QED  BY <1>2, <1>7, <1>8, <2>2 DEF TypeOK, BearerOf, Passed
<1>11. Ordered("teid")'
  <2> DEFINE f == "teid"
  <2>1. Start(f) = 4 /\ Val(a, f) = smfTEID + 1
    BY <1>5, <1>6 DEF Start, Val
  <2>2. Ordered(f)
    BY <1>7
  <2>3. \A c \in Pipe : Rank(c) >= Start(f) =>
              \A i \in DOMAIN link[c] : Val(link[c][i], f) < Val(a, f)
    BY <1>7, <2>1 DEF Bounded, Val
  <2> HIDE DEF f
  <2>4. Ordered(f)'
    BY <1>3, <1>7, <1>8, <2>1, <2>2, <2>3, OrderedFresh
  <2> QED  BY <2>4 DEF f
<1>12. /\ a.bearer.teid \in 1 .. smfTEID' /\ bearer[h.ue].teid < a.bearer.teid
       /\ smfTEID' \in Nat /\ smfTEID <= smfTEID'
  <2>1. h.ue \in UEs
    BY <1>4 DEF Msg
  <2>2. bearer[h.ue].teid \in 0 .. smfTEID
    BY <1>7, <2>1, BearerOfFacts DEF BearerType
  <2> QED  BY <1>2, <1>5, <1>6, <1>7, <2>2
<1>13. /\ Located' /\ Bounded' /\ Ordered("id")' /\ Announced'
       /\ \A u \in UEs : Newer(u)' /\ AtSmf(u)' /\ Last(u)' /\ Registered(u)'
  BY <1>2, <1>3, <1>4, <1>5, <1>6, <1>7, <1>8, <1>9, <1>12, PassedOn DEF t
<1> QED  BY <1>10, <1>11, <1>13 DEF IInv

LEMMA AmfResponseStep ==
    ASSUME IInv, AMF_CREATE_SESSION_RESPONSE_RECV
    PROVE  IInv'
<1> DEFINE l == N11resp
           t == "SETUP_REQUEST"
<1>1. PICK h : h = Head(link[l])
  OBVIOUS
<1> DEFINE r == N2down(h.gnb)
           a == As(h, t, h.bearer)
<1>2. /\ Arrived(l, "CREATE_RESPONSE") /\ Relay(l, r, a) /\ pduSessionID' = pduSessionID + 1
      /\ UNCHANGED <<amfInfo, gnbList, ueInfo, epsBearer, smfTEID,
                     bearer, ueCMState, registrations>>
  BY <1>1 DEF AMF_CREATE_SESSION_RESPONSE_RECV, N11resp, N2down
<1>3. l \in Pipe /\ l \in Links /\ Rank(l) = 4 /\ t \in Types /\ t # "INITIAL_UE"
  BY PipeFacts DEF Types
<1> HIDE DEF l
<1>4. /\ link[l] # << >> /\ h = link[l][1] /\ h \in Msg /\ Placed(l, h) /\ 1 \in DOMAIN link[l]
  BY <1>1, <1>2, <1>3, HeadFacts
<1>5. h.bearer \in [id : Nat, teid : Nat] /\ h.gnb \in Gnbs /\ h.ue \in UEs
  BY <1>4 DEF Msg
<1>14. r \in Pipe /\ r \in Links /\ Rank(r) = 5 /\ l # r
  BY <1>3, <1>5, PipeFacts
<1> HIDE DEF t, r
<1>6. a \in Msg /\ a.type = t /\ a.bearer = h.bearer /\ a.ue = h.ue /\ a.gnb = h.gnb
  BY <1>3, <1>4, <1>5, AsLemma
<1> HIDE DEF a
<1>7. TypeOK /\ LinkType /\ Ordered("teid") /\ smfTEID \in Nat /\ Bounded
      /\ pduSessionID \in Nat /\ \A u \in UEs : Newer(u)
  BY TypeParts DEF IInv
<1>8. Passed(l, r, a)
  BY <1>2, <1>3, <1>4, <1>6, <1>7, <1>14, RelayLemma
<1>9. Placed(r, a)
  BY <1>4, <1>6, PlacedOn DEF r
<1>10. TypeOK'
  BY <1>2, <1>7, <1>8 DEF TypeOK, Passed
<1>11. Ordered("teid")'
  <2> DEFINE f == "teid"
  <2>1. Start(f) = 4 /\ Val(a, f) = Val(link[l][1], f)
    BY <1>4, <1>6 DEF Start, Val
  <2>2. Ordered(f)
    BY <1>7
  <2> HIDE DEF f
  <2>3. Ordered(f)'
    BY <1>3, <1>7, <1>8, <1>14, <2>1, <2>2, OrderedPass
  <2> QED  BY <2>3 DEF f
<1>12. /\ a.bearer.teid \in 1 .. smfTEID' /\ bearer[h.ue].teid < a.bearer.teid
  <2>1. link[l][1].bearer.teid \in 1 .. smfTEID
    BY <1>3, <1>4, <1>7 DEF Bounded
  <2>2. Newer(h.ue)
    BY <1>5, <1>7
  <2>3. bearer[h.ue].teid < link[l][1].bearer.teid
    BY <1>3, <1>4, <2>2 DEF Newer
  <2> QED  BY <1>2, <1>4, <1>6, <2>1, <2>3
<1>13. /\ Located' /\ Bounded' /\ Ordered("id")' /\ Announced'
       /\ \A u \in UEs : Newer(u)' /\ AtSmf(u)' /\ Last(u)' /\ Registered(u)'
  BY <1>2, <1>3, <1>4, <1>6, <1>7, <1>8, <1>9, <1>12, <1>14, PassedOn
<1> QED  BY <1>10, <1>11, <1>13 DEF IInv

\* The SMF stores the newest bearer of the UE that has reached it.
LEMMA SmfStep ==
    ASSUME IInv, SMF_CREATE_SESSION_REQUEST_RECV
    PROVE  IInv'
<1> DEFINE l == N11req
           r == N4req
           t == "PFCP_REQUEST"
<1>1. PICK h : h = Head(link[l])
  OBVIOUS
<1> DEFINE a == As(h, t, h.bearer)
           e == [ue |-> h.ue, gnb |-> h.gnb, bearer |-> 0]
<1>2. /\ Arrived(l, "CREATE_REQUEST") /\ Relay(l, r, a)
      /\ gnbList' = Append(gnbList, h.gnb)
      /\ ueInfo' = SMF_AddBearer(Snoc(ueInfo, e), h.ue, h.bearer.id)
      /\ UNCHANGED <<amfInfo, epsBearer, smfTEID, pduSessionID, bearer,
                     ueCMState, registrations>>
  BY <1>1 DEF SMF_CREATE_SESSION_REQUEST_RECV, N11req, N4req, Snoc
<1>3. /\ l \in Pipe /\ r \in Pipe /\ l \in Links /\ r \in Links /\ l # r
      /\ Rank(l) = 1 /\ Rank(r) = 2 /\ t \in Types /\ t # "INITIAL_UE"
  BY PipeFacts DEF Types
<1> HIDE DEF l, r
<1>4. /\ link[l] # << >> /\ h = link[l][1] /\ h \in Msg /\ Placed(l, h) /\ 1 \in DOMAIN link[l]
  BY <1>1, <1>2, <1>3, HeadFacts
<1>5. h.bearer \in [id : Nat, teid : Nat] /\ h.gnb \in Gnbs /\ h.ue \in UEs
  BY <1>4 DEF Msg
<1> HIDE DEF t
<1>6. a \in Msg /\ a.type = t /\ a.bearer = h.bearer /\ a.ue = h.ue /\ a.gnb = h.gnb
  BY <1>3, <1>4, <1>5, AsLemma
<1> HIDE DEF a
<1>7. /\ TypeOK /\ LinkType /\ Ordered("teid") /\ Ordered("id") /\ Located /\ Announced
      /\ smfTEID \in Nat /\ epsBearer \in Nat /\ Bounded /\ SmfType
      /\ gnbList \in Seq(Gnbs)
      /\ \A u \in UEs : Newer(u) /\ AtSmf(u) /\ Last(u) /\ Registered(u)
  BY TypeParts DEF IInv
<1>8. Passed(l, r, a)
  BY <1>2, <1>3, <1>4, <1>6, <1>7, RelayLemma
<1>9. Placed(r, a)
  BY <1>4, <1>6, PlacedOn DEF r
<1>10. h.bearer.id \in 1 .. epsBearer
  BY <1>3, <1>4, <1>7 DEF Bounded
<1>11. /\ SmfType' /\ SmfBearer(h.ue)' = h.bearer.id
       /\ \A v \in UEs : v # h.ue => SmfBearer(v)' = SmfBearer(v)
  <2>1. e \in SmfEntry(epsBearer) /\ e.ue = h.ue
    BY <1>5, <1>7 DEF SmfEntry
  <2> HIDE DEF e
  <2>2. h.bearer.id \in 0 .. epsBearer
    BY <1>10
  <2>3. /\ ueInfo' \in Seq(SmfEntry(epsBearer)) /\ Kept(ueInfo', h.ue) = h.bearer.id
        /\ \A v \in UEs : v # h.ue => Kept(ueInfo', v) = Kept(ueInfo, v)
    BY <1>2, <1>5, <1>7, <2>1, <2>2, AddBearerLemma DEF SmfType
  <2>4. \A v : SmfBearer(v) = Kept(ueInfo, v)
    BY SmfBearerIsKept
  <2>5. \A v : SmfBearer(v)' = Kept(ueInfo', v)
    BY DEF SmfBearer, Kept, Holds
  <2> QED  BY <1>2, <1>5, <2>3, <2>4, <2>5 DEF SmfType, SmfEntry
<1> HIDE DEF e
<1>12. TypeOK'
  <2>1. gnbList' \in Seq(Gnbs)
    BY <1>2, <1>5, <1>7, AppendProperties
  <2> QED  BY <1>2, <1>7, <1>8, <1>11, <2>1 DEF TypeOK, SmfType, SmfEntry, Passed
<1>13. Located'
  BY <1>3, <1>7, <1>8, <1>9, LocatedPass
<1>14. Bounded'
  BY <1>2, <1>3, <1>6, <1>7, <1>8, <1>10, BoundedPass
<1>15. Ordered("id")'
  <2> DEFINE f == "id"
  <2>1. Start(f) = 1 /\ Val(a, f) = Val(link[l][1], f)
    BY <1>4, <1>6 DEF Start, Val
  <2>2. Ordered(f)
    BY <1>7
  <2> HIDE DEF f
  <2>3. Ordered(f)'
    BY <1>3, <1>7, <1>8, <2>1, <2>2, OrderedPass
  <2> QED  BY <2>3 DEF f
<1>16. Ordered("teid")'
  <2> DEFINE f == "teid"
  <2>1. Rank(r) < Start(f)
    BY <1>3 DEF Start
  <2>2. Ordered(f)
    BY <1>7
  <2> HIDE DEF f
  <2>3. Ordered(f)'
    BY <1>3, <1>7, <1>8, <2>1, <2>2, OrderedKept
  <2> QED  BY <2>3 DEF f
<1>17. Announced'
  <2>1. \A g \in Gnbs : Known(g) => Known(g)'
    BY <1>2 DEF Known
  <2> QED  BY <1>3, <1>6, <1>7, <1>8, <2>1, AnnouncedPass
<1>18. ASSUME NEW u \in UEs PROVE Newer(u)' /\ AtSmf(u)' /\ Last(u)' /\ Registered(u)'
  <2>1. bearer'[u] = bearer[u] /\ Listed(u)' = Listed(u)
    BY <1>2 DEF Listed, FirstAt, On
  <2>2. Newer(u) /\ AtSmf(u) /\ Last(u) /\ Registered(u)
    BY <1>7
  <2>3. Newer(u)'
    <3>1. a.ue = u => bearer[u].id < a.bearer.id
      BY <1>3, <1>4, <1>6, <2>2 DEF Newer
    <3> QED  BY <1>3, <1>7, <1>8, <2>1, <2>2, <3>1, NewerPass
  <2>4. AtSmf(u)'
    <3>1. PICK b : b = IF u = h.ue THEN h.bearer.id ELSE SmfBearer(u)
      OBVIOUS
    <3>2. b = SmfBearer(u)'
      BY <1>11, <3>1
    <3>3. ASSUME NEW c \in Pipe, Rank(c) >= 2, NEW i \in DOMAIN link[c], link[c][i].ue = u
          PROVE  link[c][i].bearer.id <= b
      <4>1. CASE u = h.ue
        <5> DEFINE f == "id"
        <5>1. Start(f) = 1 /\ Rank(c) \in 1 .. 5
          BY PipeFacts DEF Start
        <5>2. Behind(l, 1, c, i)
          BY <1>3, <3>3, <5>1 DEF Behind
        <5>3. Val(link[c][i], f) < Val(link[l][1], f)
          BY <1>3, <1>4, <1>7, <5>1, <5>2 DEF Ordered
        <5>4. link[c][i].bearer.id < h.bearer.id
          BY <1>4, <5>3 DEF Val
        <5>5. link[c][i].bearer.id \in Nat
          BY <1>7 DEF Bounded
        <5> QED  BY <1>10, <3>1, <4>1, <5>4, <5>5
      <4>2. CASE u # h.ue
        BY <2>2, <3>1, <3>3, <4>2 DEF AtSmf
      <4> QED  BY <4>1, <4>2
    <3>4. a.ue = u => a.bearer.id <= b
      BY <1>6, <1>10, <3>1
    <3> QED  BY <1>3, <1>7, <1>8, <3>2, <3>3, <3>4, AtSmfPass
  <2>5. Last(u)'
    <3>1. CASE u = h.ue
      <4>1. Len(link[r]) + 1 \in DOMAIN link'[r] /\ link'[r][Len(link[r]) + 1] = a
        BY <1>8 DEF Passed, Put
      <4> QED  BY <1>3, <1>6, <1>11, <3>1, <4>1 DEF Last
    <3>2. CASE u # h.ue
      <4>1. SmfBearer(u)' = SmfBearer(u) /\ link[l][1].ue # u
        BY <1>4, <1>11, <3>2
      <4> QED  BY <1>3, <1>7, <1>8, <2>1, <2>2, <4>1, LastPass
    <3> QED  BY <3>1, <3>2
  <2>6. Registered(u)'
    <3>1. a.ue = u => Listed(u)
      BY <1>3, <1>4, <1>6, <2>2 DEF Registered
    <3> QED  BY <1>3, <1>7, <1>8, <2>1, <2>2, <3>1, RegisteredPass
  <2> QED  BY <2>3, <2>4, <2>5, <2>6
<1> QED  BY <1>12, <1>13, <1>14, <1>15, <1>16, <1>17, <1>18 DEF IInv

\* A message in the pipe for the UE of the message at the head of the gNB's
\* link is behind it.
LEMMA BehindHead ==
    ASSUME IInv, NEW g \in Gnbs, NEW l, l = N2down(g), Placed(l, link[l][1]), 1 \in DOMAIN link[l],
           NEW c \in Pipe, NEW i \in DOMAIN link[c], link[c][i].ue = link[l][1].ue,
           c # l \/ i # 1
    PROVE  /\ link[l][1].bearer.id < link[c][i].bearer.id
           /\ Rank(c) >= 4 => link[l][1].bearer.teid < link[c][i].bearer.teid
<1>1. LinkType /\ Located /\ Ordered("id") /\ Ordered("teid")
  BY TypeParts DEF IInv
<1>2. c \in Links /\ l \in Pipe /\ Rank(l) = 5 /\ Rank(c) \in 1 .. 5
  BY PipeFacts
<1>3. i \in Nat \ {0}
  BY <1>1, <1>2, ValType
<1>4. Behind(c, i, l, 1)
  <2>1. CASE Rank(c) < 5
    BY <1>2, <2>1 DEF Behind
  <2>2. CASE Rank(c) = 5
    <3>1. PICK k \in Gnbs : c = N2down(k)
      BY <2>2, PipeFacts DEF Pipe
    <3>2. Placed(c, link[c][i])
      BY <1>1, <1>2 DEF Located
    <3>3. k = link[c][i].gnb /\ link[c][i].gnb = SelectedCell[link[c][i].ue]
      BY <3>1, <3>2 DEF Placed
    <3>4. g = link[l][1].gnb /\ link[l][1].gnb = SelectedCell[link[l][1].ue]
      BY DEF Placed
    <3>5. c = l
      <4>1. k = g
        BY <3>3, <3>4, Zenon
      <4> QED  BY <3>1, <4>1
    <3> QED  BY <1>3, <3>5 DEF Behind
  <2> QED  BY <1>2, <2>1, <2>2
<1>5. link[l][1].bearer.id < link[c][i].bearer.id
  <2> DEFINE f == "id"
  <2>1. Start(f) = 1
    BY DEF Start
  <2>2. Val(link[l][1], f) < Val(link[c][i], f)
    BY <1>1, <1>2, <1>4, <2>1 DEF Ordered
  <2> QED  BY <2>2 DEF Val
<1>6. ASSUME Rank(c) >= 4 PROVE link[l][1].bearer.teid < link[c][i].bearer.teid
  <2> DEFINE f == "teid"
  <2>1. Start(f) = 4
    BY DEF Start
  <2>2. Val(link[l][1], f) < Val(link[c][i], f)
    BY <1>1, <1>2, <1>4, <1>6, <2>1 DEF Ordered
  <2> QED  BY <2>2 DEF Val
<1> QED  BY <1>5, <1>6

\* The gNB takes the bearer of the context setup request, which is newer than
\* the UE's.
LEMMA GnbStep ==
    ASSUME IInv, NEW g \in Gnbs, INITIAL_CONTEXT_SETUP_REQUEST_RECV(g)
    PROVE  IInv' /\ \A u \in UEs : bearer'[u] # bearer[u] =>
                       bearer'[u].id > bearer[u].id /\ bearer'[u].teid > bearer[u].teid
<1> DEFINE l == N2down(g)
           r == N2up(g)
           t == "SETUP_RESPONSE"
<1>1. PICK h : h = Head(link[l])
  OBVIOUS
<1> DEFINE a == As(h, t, h.bearer)
<1>2. /\ Arrived(l, "SETUP_REQUEST") /\ Relay(l, r, a)
      /\ bearer' = [bearer EXCEPT ![h.ue] = h.bearer]
      /\ UNCHANGED <<amfInfo, gnbList, ueInfo, epsBearer, smfTEID,
                     pduSessionID, ueCMState, registrations>>
  BY <1>1 DEF INITIAL_CONTEXT_SETUP_REQUEST_RECV, NewBearer, N2up, N2down
<1>3. /\ l \in Pipe /\ r \notin Pipe /\ l \in Links /\ r \in Links /\ l # r
      /\ Rank(l) = 5 /\ t \in Types /\ t # "INITIAL_UE"
  BY PipeFacts DEF Types
<1> HIDE DEF l, r
<1>4. /\ link[l] # << >> /\ h = link[l][1] /\ h \in Msg /\ Placed(l, h) /\ 1 \in DOMAIN link[l]
  BY <1>1, <1>2, <1>3, HeadFacts
<1>5. h.bearer \in [id : Nat, teid : Nat] /\ h.gnb = g /\ h.ue \in UEs
  BY <1>4 DEF Msg, Placed, l
<1> HIDE DEF t
<1>6. a \in Msg /\ a.type = t /\ a.bearer = h.bearer /\ a.ue = h.ue /\ a.gnb = h.gnb
  BY <1>3, <1>4, <1>5, AsLemma
<1> HIDE DEF a
<1>7. /\ TypeOK /\ LinkType /\ Ordered("teid") /\ Ordered("id") /\ Located /\ Announced
      /\ smfTEID \in Nat /\ epsBearer \in Nat /\ Bounded /\ SmfType /\ BearerType
      /\ \A u \in UEs : Newer(u) /\ AtSmf(u) /\ Last(u) /\ Registered(u)
  BY TypeParts DEF IInv
<1>8. Passed(l, r, a)
  BY <1>2, <1>3, <1>4, <1>6, <1>7, RelayLemma
<1>9. Placed(r, a)
  BY <1>4, <1>5, <1>6, PlacedOn DEF r
<1>10. h.bearer.id \in 1 .. epsBearer /\ h.bearer.teid \in 1 .. smfTEID
  BY <1>3, <1>4, <1>7 DEF Bounded
<1>11. bearer[h.ue].id < h.bearer.id /\ bearer[h.ue].teid < h.bearer.teid
  <2>1. Newer(h.ue)
    BY <1>5, <1>7
  <2> QED  BY <1>3, <1>4, <2>1 DEF Newer
<1>12. \A u \in UEs : bearer'[u] = IF u = h.ue THEN h.bearer ELSE bearer[u]
  BY <1>2, <1>7 DEF BearerType
<1>13. BearerType'
  <2>1. h.bearer \in BearerOf(epsBearer, smfTEID)
    BY <1>5, <1>10 DEF BearerOf
  <2>2. bearer' \in [UEs -> BearerOf(epsBearer, smfTEID)]
    BY <1>2, <1>5, <1>7, <2>1 DEF BearerType
  <2> QED  BY <1>2, <2>2 DEF BearerType, BearerOf, NoBearer
<1>14. TypeOK'
  BY <1>2, <1>7, <1>8, <1>13 DEF TypeOK, BearerType, BearerOf, Passed
<1>15. Located'
  BY <1>3, <1>7, <1>8, <1>9, LocatedPass
<1>16. Bounded'
  BY <1>2, <1>3, <1>7, <1>8, BoundedPass
<1>17. Ordered("id")' /\ Ordered("teid")'
  <2>1. ASSUME NEW f, Ordered(f) PROVE Ordered(f)'
    BY <1>3, <1>7, <1>8, <2>1, OrderedKept
  <2> QED  BY <1>7, <2>1
<1>18. Announced'
  <2>1. \A k \in Gnbs : Known(k) => Known(k)'
    BY <1>2 DEF Known
  <2> QED  BY <1>3, <1>6, <1>7, <1>8, <2>1, AnnouncedPass
<1>19. ASSUME NEW u \in UEs PROVE Newer(u)' /\ AtSmf(u)' /\ Last(u)' /\ Registered(u)'
  <2>1. SmfBearer(u)' = SmfBearer(u) /\ Listed(u)' = Listed(u)
    BY <1>2 DEF SmfBearer, SMF_FindUE, First, Listed, FirstAt, On
  <2>2. Newer(u) /\ AtSmf(u) /\ Last(u) /\ Registered(u)
    BY <1>7
  <2>3. Newer(u)'
    <3>1. CASE u # h.ue
      BY <1>3, <1>7, <1>8, <1>12, <2>2, <3>1, NewerPass
    <3>2. CASE u = h.ue
      <4>1. ASSUME NEW c \in Pipe, NEW i \in DOMAIN link'[c], link'[c][i].ue = u
            PROVE  /\ h.bearer.id < link'[c][i].bearer.id
                   /\ Rank(c) >= 4 => h.bearer.teid < link'[c][i].bearer.teid
        <5>1. c \in Links /\ c # r
          BY <1>3, PipeFacts
        <5>2. PICK k \in DOMAIN link[c] : link'[c][i] = link[c][k] /\ (c # l \/ k # 1)
          <6>1. /\ i \in Nat \ {0}
                /\ \/ c = l /\ i + 1 \in DOMAIN link[c] /\ link'[c][i] = link[c][i + 1]
                   \/ c # l /\ i \in DOMAIN link[c] /\ link'[c][i] = link[c][i]
            BY <1>3, <1>7, <1>8, <5>1, PassedFrom
          <6> QED  BY <6>1
        <5>3. link[c][k].ue = link[l][1].ue
          BY <1>4, <3>2, <4>1, <5>2
        <5>4. l = N2down(g)
          BY DEF l
        <5>5. /\ link[l][1].bearer.id < link[c][k].bearer.id
              /\ Rank(c) >= 4 => link[l][1].bearer.teid < link[c][k].bearer.teid
          BY <1>4, <5>2, <5>3, <5>4, BehindHead
        <5> QED  BY <1>4, <5>2, <5>5
      <4> QED  BY <1>12, <3>2, <4>1 DEF Newer
    <3> QED  BY <3>1, <3>2
  <2>4. AtSmf(u)'
    <3>1. PICK b : b = SmfBearer(u)
      OBVIOUS
    <3>2. b = SmfBearer(u)'
      BY <2>1, <3>1
    <3>3. \A c \in Pipe : Rank(c) >= 2 => \A i \in DOMAIN link[c] :
              link[c][i].ue = u => link[c][i].bearer.id <= b
      BY <2>2, <3>1 DEF AtSmf
    <3> QED  BY <1>3, <1>7, <1>8, <3>2, <3>3, AtSmfPass
  <2>5. Last(u)'
    <3>1. CASE u # h.ue
      BY <1>3, <1>4, <1>7, <1>8, <1>12, <2>1, <2>2, <3>1, LastPass
    <3>2. CASE u = h.ue
      <4>1. PICK b : b = SmfBearer(u)
        OBVIOUS
      <4>2. b = SmfBearer(u)' /\ h.bearer.id <= b
        BY <1>3, <1>4, <2>1, <2>2, <3>2, <4>1 DEF AtSmf
      <4>3. b \in Nat /\ bearer[u].id \in Nat
        <5>1. SmfBearer(u) = Kept(ueInfo, u)
          BY SmfBearerIsKept
        <5>2. Kept(ueInfo, u) \in 0 .. epsBearer
          BY <1>7, SmfTypeKept DEF SmfType
        <5>3. bearer[u] \in BearerOf(epsBearer, smfTEID)
          BY <1>7 DEF BearerType
        <5>4. bearer[u].id \in 0 .. epsBearer
          BY <1>7, <5>3, BearerOfFacts
        <5> QED  BY <1>7, <4>1, <5>1, <5>2, <5>4
      <4>4. bearer[u].id # b
        BY <1>10, <1>11, <3>2, <4>2, <4>3
      <4>5. PICK c \in Pipe : Rank(c) >= 2 /\ \E i \in DOMAIN link[c] :
                link[c][i].ue = u /\ link[c][i].bearer.id = b
        BY <2>2, <4>1, <4>4 DEF Last
      <4>6. PICK i \in DOMAIN link[c] : link[c][i].ue = u /\ link[c][i].bearer.id = b
        BY <4>5
      <4>7. CASE c = l /\ i = 1
        BY <1>4, <1>12, <3>2, <4>2, <4>6, <4>7 DEF Last
      <4>8. CASE ~(c = l /\ i = 1)
        <5>1. c \in Links /\ c # r
          BY <1>3, PipeFacts
        <5>2. \E k \in DOMAIN link'[c] : link'[c][k] = link[c][i]
          <6>1. CASE c = l
            BY <1>8, <4>8, <6>1 DEF Passed, Taken
          <6>2. CASE c # l
            BY <1>8, <5>1, <6>2 DEF Passed
          <6> QED  BY <6>1, <6>2
        <5> QED  BY <4>2, <4>5, <4>6, <5>2 DEF Last
      <4> QED  BY <4>7, <4>8
    <3> QED  BY <3>1, <3>2
  <2>6. Registered(u)'
    <3>1. h.ue = u => Listed(u)
      BY <1>3, <1>4, <2>2 DEF Registered
    <3> QED  BY <1>3, <1>6, <1>7, <1>8, <1>12, <2>1, <2>2, <3>1, RegisteredPass
  <2> QED  BY <2>3, <2>4, <2>5, <2>6
<1>20. \A u \in UEs : bearer'[u] # bearer[u] =>
           bearer'[u].id > bearer[u].id /\ bearer'[u].teid > bearer[u].teid
  BY <1>11, <1>12
<1> QED  BY <1>14, <1>15, <1>16, <1>17, <1>18, <1>19, <1>20 DEF IInv

\* The AMF registers the UE and starts a session with a new identifier.
LEMMA AmfInitialStep ==
    ASSUME IInv, NEW g \in Gnbs, AMF_INITIAL_MSG_RECV(g)
    PROVE  IInv'
<1> DEFINE l == N2up(g)
           r == N11req
           t == "CREATE_REQUEST"
           b == [NoBearer EXCEPT !.id = epsBearer + 1]
<1>1. PICK h : h = Head(link[l])
  OBVIOUS
<1> DEFINE a == As(h, t, b)
<1>2. /\ Arrived(l, "INITIAL_UE") /\ Relay(l, r, a) /\ AMF_AddUE(h.gnb, h.ue)
      /\ epsBearer' = epsBearer + 1
      /\ UNCHANGED <<gnbList, ueInfo, smfTEID, pduSessionID, bearer,
                     ueCMState, registrations>>
  BY <1>1 DEF AMF_INITIAL_MSG_RECV, AMF_CREATE_SESSION_REQUEST, N2up, N11req
<1>3. /\ l \notin Pipe /\ r \in Pipe /\ l \in Links /\ r \in Links /\ l # r
      /\ Rank(r) = 1 /\ t \in Types /\ t # "INITIAL_UE"
  BY PipeFacts DEF Types
<1> HIDE DEF l, r
<1>4. /\ link[l] # << >> /\ h = link[l][1] /\ h \in Msg /\ Placed(l, h) /\ 1 \in DOMAIN link[l]
      /\ h.type = "INITIAL_UE"
  BY <1>1, <1>2, <1>3, HeadFacts
<1>5. h.gnb = g /\ h.ue \in UEs /\ g = SelectedCell[h.ue]
  BY <1>4 DEF Msg, Placed, l
<1>7. /\ TypeOK /\ LinkType /\ Ordered("teid") /\ Ordered("id") /\ Located /\ Announced
      /\ smfTEID \in Nat /\ epsBearer \in Nat /\ Bounded /\ SmfType /\ BearerType /\ AmfType
      /\ \A u \in UEs : Newer(u) /\ AtSmf(u) /\ Last(u) /\ Registered(u)
  BY TypeParts DEF IInv
<1>20. b \in [id : Nat, teid : Nat] /\ b.id = epsBearer + 1
  BY <1>7 DEF NoBearer
<1> HIDE DEF b, t
<1>6. a \in Msg /\ a.type = t /\ a.bearer = b /\ a.ue = h.ue /\ a.gnb = h.gnb
  BY <1>3, <1>4, <1>20, AsLemma
<1> HIDE DEF a
<1>8. Passed(l, r, a)
  BY <1>2, <1>3, <1>4, <1>6, <1>7, RelayLemma
<1>9. Placed(r, a)
  BY <1>4, <1>5, <1>6, PlacedOn DEF r
<1>10. Known(g)
  BY <1>4, <1>7 DEF Announced, l
<1>11. /\ AmfType' /\ Listed(h.ue)'
       /\ \A k \in Gnbs : Known(k) => Known(k)'
       /\ \A v \in UEs : Listed(v) => Listed(v)'
  <2>1. AMF_AddUE(g, h.ue)
    BY <1>2, <1>5
  <2> QED  BY <1>5, <1>7, <1>10, <2>1, AddUELemma
<1>12. epsBearer' \in Nat /\ epsBearer <= epsBearer' /\ smfTEID' \in Nat /\ smfTEID <= smfTEID'
  BY <1>2, <1>7
<1>13. TypeOK'
  <2>1. ueInfo' \in Seq(SmfEntry(epsBearer'))
    BY <1>2, <1>7, <1>12, SmfTypeGrows DEF SmfType
  <2>2. BearerOf(epsBearer, smfTEID) \subseteq BearerOf(epsBearer', smfTEID')
    BY <1>7, <1>12, BearerGrows
  <2>3. bearer' \in [UEs -> BearerOf(epsBearer', smfTEID')]
    BY <1>2, <1>7, <2>2 DEF BearerType
  <2> QED  BY <1>2, <1>7, <1>8, <1>11, <1>12, <2>1, <2>3
              DEF TypeOK, AmfType, AmfEntry, SmfEntry, BearerOf, Passed
<1>14. Located'
  BY <1>3, <1>7, <1>8, <1>9, LocatedPass
<1>15. Bounded'
  <2>1. a.bearer.id \in 1 .. epsBearer'
    BY <1>2, <1>6, <1>7, <1>20
  <2> QED  BY <1>3, <1>7, <1>8, <1>12, <2>1, BoundedPass
<1>16. Ordered("id")'
  <2> DEFINE f == "id"
  <2>1. Start(f) = 1 /\ Val(a, f) = epsBearer + 1
    BY <1>6, <1>20 DEF Start, Val
  <2>2. Ordered(f)
    BY <1>7
  <2>3. \A c \in Pipe : Rank(c) >= Start(f) =>
              \A i \in DOMAIN link[c] : Val(link[c][i], f) < Val(a, f)
    BY <1>7, <2>1 DEF Bounded, Val
  <2> HIDE DEF f
  <2>4. Ordered(f)'
    BY <1>3, <1>7, <1>8, <2>1, <2>2, <2>3, OrderedFresh
  <2> QED  BY <2>4 DEF f
<1>17. Ordered("teid")'
  <2> DEFINE f == "teid"
  <2>1. Rank(r) < Start(f)
    BY <1>3 DEF Start
  <2>2. Ordered(f)
    BY <1>7
  <2> HIDE DEF f
  <2>3. Ordered(f)'
    BY <1>3, <1>7, <1>8, <2>1, <2>2, OrderedKept
  <2> QED  BY <2>3 DEF f
<1>18. Announced'
  BY <1>3, <1>6, <1>7, <1>8, <1>11, AnnouncedPass
<1>19. ASSUME NEW u \in UEs PROVE Newer(u)' /\ AtSmf(u)' /\ Last(u)' /\ Registered(u)'
  <2>1. SmfBearer(u)' = SmfBearer(u) /\ bearer'[u] = bearer[u]
    BY <1>2 DEF SmfBearer, SMF_FindUE, First
  <2>2. Newer(u) /\ AtSmf(u) /\ Last(u) /\ Registered(u)
    BY <1>7
  <2>3. Newer(u)'
    <3>1. bearer[u].id \in 0 .. epsBearer
      BY <1>7, BearerOfFacts DEF BearerType
    <3>2. bearer[u].id < a.bearer.id
      BY <1>6, <1>7, <1>20, <3>1
    <3> QED  BY <1>3, <1>7, <1>8, <2>1, <2>2, <3>2, NewerPass
  <2>4. AtSmf(u)'
    <3>1. PICK d : d = SmfBearer(u)
      OBVIOUS
    <3>2. d = SmfBearer(u)'
      BY <2>1, <3>1
    <3>3. \A c \in Pipe : Rank(c) >= 2 => \A i \in DOMAIN link[c] :
              link[c][i].ue = u => link[c][i].bearer.id <= d
      BY <2>2, <3>1 DEF AtSmf
    <3> QED  BY <1>3, <1>7, <1>8, <3>2, <3>3, AtSmfPass
  <2>5. Last(u)'
    BY <1>3, <1>7, <1>8, <2>1, <2>2, LastPass
  <2>6. Registered(u)'
    BY <1>3, <1>6, <1>7, <1>8, <1>11, <2>1, <2>2, RegisteredPass
  <2> QED  BY <2>3, <2>4, <2>5, <2>6
<1> QED  BY <1>13, <1>14, <1>15, <1>16, <1>17, <1>18, <1>19 DEF IInv

\* Steps that leave the pipe as it is.
LEMMA PipeSame ==
    ASSUME IInv, \A c \in Pipe : link'[c] = link[c],
           UNCHANGED <<ueInfo, epsBearer, smfTEID, bearer>>,
           \A u \in UEs : Listed(u) => Listed(u)'
    PROVE  /\ Bounded' /\ Ordered("id")' /\ Ordered("teid")'
           /\ \A u \in UEs : Newer(u)' /\ AtSmf(u)' /\ Last(u)' /\ Registered(u)'
<1>1. Bounded'
  BY DEF IInv, Bounded
<1>2. Ordered("id")' /\ Ordered("teid")'
  <2>1. ASSUME NEW f, Ordered(f) PROVE Ordered(f)'
    <3>1. ASSUME NEW c \in Pipe, NEW k \in Pipe, Rank(c) >= Start(f), Rank(k) >= Start(f),
                 NEW i \in DOMAIN link'[c], NEW j \in DOMAIN link'[k], Behind(c, i, k, j)
          PROVE  Val(link'[k][j], f) < Val(link'[c][i], f)
      BY <2>1, <3>1 DEF Ordered
    <3> QED  BY <3>1 DEF Ordered
  <2> QED  BY <2>1 DEF IInv
<1>3. ASSUME NEW u \in UEs PROVE Newer(u)' /\ AtSmf(u)' /\ Last(u)' /\ Registered(u)'
  <2>1. SmfBearer(u)' = SmfBearer(u) /\ bearer'[u] = bearer[u]
    BY DEF SmfBearer, SMF_FindUE, First
  <2>2. Newer(u) /\ AtSmf(u) /\ Last(u) /\ Registered(u)
    BY DEF IInv
  <2>3. Newer(u)'
    BY <2>1, <2>2 DEF Newer
  <2>4. AtSmf(u)'
    BY <2>1, <2>2 DEF AtSmf
  <2>5. Last(u)'
    BY <2>1, <2>2 DEF Last
  <2>6. Registered(u)'
    BY <2>1, <2>2 DEF Registered, NoBearer
  <2> QED  BY <2>3, <2>4, <2>5, <2>6
<1> QED  BY <1>1, <1>2, <1>3

\* A registration starts: the gNB is known to the AMF before its message is.
LEMMA RrcStep ==
    ASSUME IInv, NEW u \in UEs, RRCSETUPCOMPLETE_RECV(u)
    PROVE  IInv'
<1>1. PICK g : g = SelectedCell[u]
  OBVIOUS
<1> DEFINE r == N2up(g)
           a == [type |-> "INITIAL_UE", ue |-> u, gnb |-> g, bearer |-> NoBearer]
<1>2. /\ registrations[u] < MaxRegistrations
      /\ registrations' = [registrations EXCEPT ![u] = @ + 1]
      /\ AMF_AddgNB(g) /\ Send(r, a)
      /\ UNCHANGED <<gnbList, ueInfo, epsBearer, smfTEID, pduSessionID,
                     bearer, ueCMState>>
  BY <1>1 DEF RRCSETUPCOMPLETE_RECV, INITIAL_UE_MSG, N2up
<1>3. /\ TypeOK /\ LinkType /\ Located /\ Announced /\ AmfType
      /\ registrations \in [UEs -> 0 .. MaxRegistrations]
  BY TypeParts DEF IInv
<1>4. g \in Gnbs
  BY <1>1, CoreRegistrationAssumption
<1>5. r \in Links /\ r \notin Pipe
  BY <1>4, PipeFacts
<1>6. a \in Msg /\ a.ue = u /\ a.gnb = g
  BY <1>4 DEF Msg, Types, NoBearer
<1>7. Placed(r, a)
  <2>1. \A k \in Gnbs : r \in {N2up(k), N2down(k)} => k = g
    BY PipeFacts
  <2> HIDE DEF a, r
  <2> QED  BY <1>1, <1>6, <2>1 DEF Placed
<1> HIDE DEF r, a
<1>8. SentOnly(r, a)
  BY <1>2, <1>3, <1>5, <1>6, SendLemma
<1>9. /\ AmfType' /\ Known(g)'
      /\ \A k \in Gnbs : Known(k) => Known(k)'
      /\ \A v \in UEs : Listed(v) => Listed(v)'
  BY <1>2, <1>3, <1>4, AddgNBLemma
<1>10. TypeOK'
  <2>1. registrations' \in [UEs -> 0 .. MaxRegistrations]
    <3>1. MaxRegistrations \in Nat
      BY CoreRegistrationAssumption
    <3>2. registrations[u] + 1 \in 0 .. MaxRegistrations
      BY <1>2, <1>3, <3>1
    <3> DEFINE n == registrations[u] + 1
    <3>3. registrations' = [registrations EXCEPT ![u] = n]
      BY <1>2
    <3> HIDE DEF n
    <3> QED  BY <1>3, <3>2, <3>3 DEF n
  <2> QED  BY <1>2, <1>3, <1>8, <1>9, <2>1 DEF TypeOK, AmfType, AmfEntry, SentOnly
<1>11. ASSUME NEW c \in Links, NEW i \in DOMAIN link'[c]
       PROVE  \/ i \in DOMAIN link[c] /\ link'[c][i] = link[c][i]
              \/ c = r /\ link'[c][i] = a
  BY <1>8 DEF SentOnly, Put
<1>12. Located'
  <2>1. ASSUME NEW c \in Links, NEW i \in DOMAIN link'[c] PROVE Placed(c, link'[c][i])
    BY <1>3, <1>7, <1>11 DEF Located
  <2> QED  BY <2>1 DEF Located
<1>13. Announced'
  <2>1. ASSUME NEW k \in Gnbs, NEW i \in DOMAIN link'[N2up(k)],
               link'[N2up(k)][i].type = "INITIAL_UE"
        PROVE  Known(k)'
    <3> DEFINE c == N2up(k)
    <3>1. c \in Links /\ (c = r => k = g)
      BY PipeFacts DEF r
    <3>2. i \in DOMAIN link'[c]
      OBVIOUS
    <3>3. (i \in DOMAIN link[c] /\ link'[c][i] = link[c][i]) \/ c = r
      <4> HIDE DEF c
      <4> QED  BY <1>11, <3>1, <3>2
    <3>4. CASE i \in DOMAIN link[c] /\ link'[c][i] = link[c][i]
      BY <1>3, <1>9, <2>1, <3>4 DEF Announced
    <3>5. CASE c = r
      BY <1>9, <3>1, <3>5
    <3> QED  BY <3>3, <3>4, <3>5
  <2> QED  BY <2>1 DEF Announced, N2up
<1>14. \A c \in Pipe : link'[c] = link[c]
  BY <1>5, <1>8, PipeFacts DEF SentOnly
<1>15. /\ Bounded' /\ Ordered("id")' /\ Ordered("teid")'
       /\ \A v \in UEs : Newer(v)' /\ AtSmf(v)' /\ Last(v)' /\ Registered(v)'
  BY <1>2, <1>9, <1>14, PipeSame
<1> QED  BY <1>10, <1>12, <1>13, <1>15 DEF IInv

LEMMA AmfSetupStep ==
    ASSUME IInv, NEW g \in Gnbs, AMF_INITIAL_CONTEXT_SETUP_RESPONSE_RECV(g)
    PROVE  IInv'
<1> DEFINE l == N2up(g)
<1>1. PICK h : h = Head(link[l])
  OBVIOUS
<1>2. /\ Arrived(l, "SETUP_RESPONSE")
      /\ ueCMState' = [ueCMState EXCEPT ![h.ue] = "CONNECTED"]
      /\ link' = [link EXCEPT ![l] = Tail(@)]
      /\ UNCHANGED <<amfInfo, gnbList, ueInfo, epsBearer, smfTEID,
                     pduSessionID, bearer, registrations>>
  BY <1>1 DEF AMF_INITIAL_CONTEXT_SETUP_RESPONSE_RECV, N2up
<1>3. l \in Links /\ l \notin Pipe
  BY PipeFacts
<1> HIDE DEF l
<1>4. TypeOK /\ LinkType /\ Located /\ Announced
  BY TypeParts DEF IInv
<1>5. TookOnly(l) /\ h \in Msg
  BY <1>1, <1>2, <1>3, <1>4, TakeLemma DEF Arrived
<1>6. /\ UNCHANGED <<amfInfo, gnbList, ueInfo, epsBearer, smfTEID,
                     pduSessionID, bearer, registrations>>
      /\ ueCMState' \in [UEs -> {"IDLE", "CONNECTED"}]
  BY <1>2, <1>4, <1>5 DEF TypeOK, Msg
<1>7. TypeOK'
  BY <1>4, <1>5, <1>6 DEF TypeOK, TookOnly
<1>8. ASSUME NEW c \in Links, NEW i \in DOMAIN link'[c]
      PROVE  \E k \in DOMAIN link[c] : link'[c][i] = link[c][k]
  <2>1. CASE c = l
    BY <1>5, <2>1 DEF TookOnly, Taken
  <2>2. CASE c # l
    BY <1>5, <2>2 DEF TookOnly
  <2> QED  BY <2>1, <2>2
<1>9. Located'
  <2>1. ASSUME NEW c \in Links, NEW i \in DOMAIN link'[c] PROVE Placed(c, link'[c][i])
    BY <1>4, <1>8 DEF Located
  <2> QED  BY <2>1 DEF Located
<1>10. Announced'
  <2>1. ASSUME NEW k \in Gnbs, NEW i \in DOMAIN link'[N2up(k)],
               link'[N2up(k)][i].type = "INITIAL_UE"
        PROVE  Known(k)'
    <3>1. N2up(k) \in Links
      BY PipeFacts
    <3>2. \E j \in DOMAIN link[N2up(k)] : link'[N2up(k)][i] = link[N2up(k)][j]
      BY <1>8, <3>1
    <3>3. Known(k)
      BY <1>4, <2>1, <3>2 DEF Announced
    <3> QED  BY <1>6, <3>3 DEF Known
  <2> QED  BY <2>1 DEF Announced, N2up
<1>11. \A c \in Pipe : link'[c] = link[c]
  BY <1>3, <1>5, PipeFacts DEF TookOnly
<1>12. \A u \in UEs : Listed(u) => Listed(u)'
  BY <1>6 DEF Listed, FirstAt, On
<1>13. /\ Bounded' /\ Ordered("id")' /\ Ordered("teid")'
       /\ \A v \in UEs : Newer(v)' /\ AtSmf(v)' /\ Last(v)' /\ Registered(v)'
  BY <1>6, <1>11, <1>12, PipeSame
<1> QED  BY <1>7, <1>9, <1>10, <1>13 DEF IInv

-----------------------------------------------------------------------------
LEMMA InitIInv ==
    ASSUME Init
    PROVE  IInv
<1>1. \A S : << >> \in Seq(S)
  OBVIOUS
<1>2. TypeOK
  BY <1>1, CoreRegistrationAssumption DEF Init, TypeOK
<1>3. \A l \in Links : DOMAIN link[l] = {}
  BY DEF Init
<1>4. \A l \in Pipe : DOMAIN link[l] = {}
  BY <1>3, PipeFacts
<1>5. Located /\ Bounded /\ Ordered("id") /\ Ordered("teid")
  BY <1>3, <1>4 DEF Located, Bounded, Ordered
<1>6. Announced
  BY <1>3, PipeFacts DEF Announced
<1>7. ASSUME NEW u \in UEs PROVE Newer(u) /\ AtSmf(u) /\ Last(u) /\ Registered(u)
  <2>1. bearer[u] = NoBearer /\ ueInfo = << >>
    BY DEF Init
  <2>2. bearer[u].id = 0
    BY <2>1 DEF NoBearer
  <2>3. SmfBearer(u) = 0
    BY <2>1 DEF SmfBearer
  <2> QED  BY <1>4, <2>1, <2>2, <2>3 DEF Newer, AtSmf, Last, Registered
<1> QED  BY <1>2, <1>5, <1>6, <1>7 DEF IInv

\* One step of the specification, or none: the invariant holds, and bearers
\* advance.
Advance == \A u \in UEs : bearer'[u] # bearer[u]
              => bearer'[u].id > bearer[u].id /\ bearer'[u].teid > bearer[u].teid

LEMMA NextIInv ==
    ASSUME IInv, [Next]_vars
    PROVE  IInv' /\ Advance
<1>1. CASE SMF_CREATE_SESSION_REQUEST_RECV
  BY <1>1, SmfStep DEF SMF_CREATE_SESSION_REQUEST_RECV, Advance
<1>2. CASE PFCP_SESSION_REQUEST_RECV
  BY <1>2, PfcpRequestStep DEF PFCP_SESSION_REQUEST_RECV, Advance
<1>3. CASE PFCP_SESSION_RESPONSE_RECV
  BY <1>3, PfcpResponseStep DEF PFCP_SESSION_RESPONSE_RECV, Advance
<1>4. CASE AMF_CREATE_SESSION_RESPONSE_RECV
  BY <1>4, AmfResponseStep DEF AMF_CREATE_SESSION_RESPONSE_RECV, Advance
<1>5. ASSUME NEW g \in Gnbs, AMF_INITIAL_MSG_RECV(g) PROVE IInv' /\ Advance
  BY <1>5, AmfInitialStep DEF AMF_INITIAL_MSG_RECV, Advance
<1>6. ASSUME NEW g \in Gnbs, INITIAL_CONTEXT_SETUP_REQUEST_RECV(g) PROVE IInv' /\ Advance
  BY <1>6, GnbStep DEF Advance
<1>7. ASSUME NEW g \in Gnbs, AMF_INITIAL_CONTEXT_SETUP_RESPONSE_RECV(g) PROVE IInv' /\ Advance
  BY <1>7, AmfSetupStep DEF AMF_INITIAL_CONTEXT_SETUP_RESPONSE_RECV, Advance
<1>8. ASSUME NEW u \in UEs, RRCSETUPCOMPLETE_RECV(u) PROVE IInv' /\ Advance
  BY <1>8, RrcStep DEF RRCSETUPCOMPLETE_RECV, Advance
<1>9. CASE UNCHANGED vars
  <2>1. UNCHANGED <<amfInfo, gnbList, ueInfo, epsBearer, smfTEID, pduSessionID, bearer,
                    ueCMState, link, registrations>>
    BY <1>9 DEF vars
  <2>2. TypeOK'
    BY <2>1 DEF IInv, TypeOK
  <2>3. Located'
    BY <2>1 DEF IInv, Located
  <2>4. Announced'
    BY <2>1 DEF IInv, Announced, Known, N2up
  <2>5. \A u \in UEs : Listed(u) => Listed(u)'
    BY <2>1 DEF Listed, FirstAt, On
  <2>6. /\ Bounded' /\ Ordered("id")' /\ Ordered("teid")'
        /\ \A v \in UEs : Newer(v)' /\ AtSmf(v)' /\ Last(v)' /\ Registered(v)'
    BY <2>1, <2>5, PipeSame
  <2>7. Advance
    BY <2>1 DEF Advance
  <2> QED  BY <2>2, <2>3, <2>4, <2>6, <2>7 DEF IInv
<1> QED  BY <1>1, <1>2, <1>3, <1>4, <1>5, <1>6, <1>7, <1>8, <1>9 DEF Next, Handle

\* The invariant is inductive.
LEMMA Inductive == Spec => []IInv
<1>1. Init => IInv
  BY InitIInv
<1>2. IInv /\ [Next]_vars => IInv'
  BY NextIInv
<1> QED  BY <1>1, <1>2, PTL DEF Spec

\* The type of the lists of AMF and SMF, of the counters and of the messages;
\* every identifier stored is one the counters have handed out.
THEOREM TypeCorrect == Spec => []TypeOK
<1>1. IInv => TypeOK
  BY DEF IInv
<1> QED  BY <1>1, Inductive, PTL

\* However many registrations overlapped, a UE that is not registering has at
\* its gNB the bearer that LTENR_SMF_FindUE finds at the SMF.
THEOREM GnbAndSmfAgree == Spec => []BearerAgreed
<1>1. ASSUME IInv PROVE BearerAgreed
  <2> SUFFICES ASSUME NEW u \in UEs, ~Underway(u) PROVE bearer[u].id = SmfBearer(u)
    BY DEF BearerAgreed
  <2>1. Last(u)
    BY <1>1 DEF IInv
  <2>2. \A l \in Pipe : \A i \in DOMAIN link[l] : link[l][i].ue # u
    BY PipeFacts DEF Underway
  <2> QED  BY <2>1, <2>2 DEF Last
<1> QED  BY <1>1, Inductive, PTL

\* A UE with a bearer is on the list of the entry LTENR_AMF_Find_gNB_Info
\* returns for its gNB.
THEOREM AmfKnowsUe == Spec => []AmfFindsUe
<1>1. ASSUME IInv PROVE AmfFindsUe
  <2> SUFFICES ASSUME NEW u \in UEs, bearer[u] # NoBearer
               PROVE  \E i \in DOMAIN amfInfo :
                         /\ i = Find_gNB_Info(SelectedCell[u])
                         /\ \E k \in DOMAIN amfInfo[i].ueList : amfInfo[i].ueList[k] = u
    BY DEF AmfFindsUe
  <2>1. AmfType /\ Registered(u)
    BY <1>1, TypeParts DEF IInv
  <2>2. PICK i \in DOMAIN amfInfo : FirstAt(i, SelectedCell[u]) /\ On(i, u)
    BY <2>1 DEF Registered, Listed
  <2>3. Known(SelectedCell[u])
    BY <2>2 DEF Known, FirstAt
  <2>4. FirstAt(Find_gNB_Info(SelectedCell[u]), SelectedCell[u])
    BY <2>1, <2>3, FindGnbLemma
  <2>5. i = Find_gNB_Info(SelectedCell[u])
    BY <2>1, <2>2, <2>4, FirstAtUnique
  <2> QED  BY <2>2, <2>5 DEF On
<1> QED  BY <1>1, Inductive, PTL

\* No context setup request gives a UE an older bearer or tunnel than the one
\* it has.
THEOREM NoStaleBearer == Spec => BearersAdvance
<1>1. IInv /\ [Next]_vars => [Advance]_vars
  BY NextIInv
<1>2. Spec => [][Advance]_vars
  BY <1>1, Inductive, PTL DEF Spec
<1> QED  BY <1>2 DEF BearersAdvance, Advance
=============================================================================
