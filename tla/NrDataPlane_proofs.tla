------------------------- MODULE NrDataPlane_proofs -------------------------
(***************************************************************************)
(* Proofs about NrDataPlane, for any number of HARQ processes, sizes,      *)
(* grants and bounds.                                                      *)
(***************************************************************************)
EXTENDS NrDataPlane, SequenceTheorems, FiniteSetTheorems, NaturalsInduction,
        WellFoundedInduction, TLAPS

LEMMA LeastIndex ==
    ASSUME NEW D, D \in SUBSET Nat, D # {}
    PROVE  \E i \in D : \A j \in D : i <= j
<1>1. \E i \in D : \A j \in D : <<j, i>> \notin OpToRel(<, Nat)
  BY WFMin, NatLessThanWellFounded, Zenon
<1>2. \A i, j \in Nat : <<j, i>> \in OpToRel(<, Nat) <=> j < i
  BY DEF OpToRel
<1>3. \E i \in D : \A j \in D : ~(j < i)
  BY <1>1, <1>2, Zenon
<1> QED  BY <1>3

LEMMA ConstantFacts ==
    /\ maxProcessCount \in Nat \ {0} /\ MinPdu \in Nat \ {0}
    /\ PrbBytes \in Nat \ {0} /\ Word \in Nat \ {0}
    /\ retryLimit \in Nat /\ Overhead \in Nat /\ MaxPrb \in Nat /\ SnRange \in Nat
    /\ First \in Nat /\ MaxSdus \in Nat /\ MaxHandovers \in Nat
    /\ MaxUnderWay \in Nat /\ 2 * MaxUnderWay + 2 < SnRange
    /\ Sizes \subseteq Nat \ {0}
  BY NrDataPlaneAssumption

-----------------------------------------------------------------------------
(* Division. *)

\* Quotient and remainder of a by b.
LEMMA DivMod ==
    ASSUME NEW a \in Int, NEW b \in Nat \ {0}
    PROVE  \E q \in Int : \E r \in 0 .. b - 1 :
              a = b * q + r /\ a \div b = q /\ a % b = r
<1> DEFINE D == {x \in Nat : \E q \in Int : a = b * q + x}
<1>1. D # {}
  <2>1. CASE a >= 0
    <3>1. a = b * 0 + a /\ 0 \in Int /\ a \in Nat
      BY <2>1
    <3>2. \E q \in Int : a = b * q + a
      BY <3>1, Zenon
    <3> QED  BY <3>1, <3>2
  <2>2. CASE a < 0
    <3>1. a = b * a + (a - b * a)
      OBVIOUS
    <3>2. a - b * a = (b - 1) * (- a)
      OBVIOUS
    <3>3. \A u, v \in Nat : u * v \in Nat
      OBVIOUS
    <3>4. a - b * a \in Nat
      BY <2>2, <3>2, <3>3
    <3>5. \E q \in Int : a = b * q + (a - b * a)
      BY <3>1, Zenon
    <3> DEFINE z == a - b * a
    <3> HIDE DEF z
    <3>6. z \in D
      BY <3>4, <3>5 DEF z
    <3> HIDE DEF D
    <3> QED  BY <3>6
  <2> HIDE DEF D
  <2> QED  BY <2>1, <2>2
<1>2. PICK r \in D : \A j \in D : r <= j
  <2>1. D \in SUBSET Nat
    OBVIOUS
  <2> HIDE DEF D
  <2> QED  BY <1>1, <2>1, LeastIndex
<1>3. PICK q \in Int : a = b * q + r
  BY <1>2
<1>4. r \in 0 .. b - 1
  <2> SUFFICES ASSUME r >= b PROVE FALSE
    BY <1>2
  <2>1. a = b * (q + 1) + (r - b)
    BY <1>2, <1>3
  <2>2. r - b \in D
    BY <1>2, <2>1
  <2>3. r \in Nat /\ r <= r - b
    BY <1>2, <2>2
  <2> HIDE DEF D
  <2> QED  BY <2>3
<1>5. (b * q + r) \div b = q /\ (b * q + r) % b = r
  BY <1>3, <1>4
<1> HIDE DEF D
<1>6. a \div b = q /\ a % b = r
  BY <1>3, <1>5, Zenon
<1> QED  BY <1>3, <1>4, <1>6, Zenon

LEMMA ModUnique ==
    ASSUME NEW b \in Nat \ {0}, NEW q \in Int, NEW r \in 0 .. b - 1
    PROVE  (b * q + r) % b = r
  OBVIOUS

LEMMA ModRange ==
    ASSUME NEW a \in Int, NEW b \in Nat \ {0}
    PROVE  a % b \in 0 .. b - 1
  OBVIOUS

\* A remainder may be taken before the next term is added.
LEMMA ModAdd ==
    ASSUME NEW b \in Nat \ {0}, NEW a \in Int, NEW c \in Int
    PROVE  ((a % b) + c) % b = (a + c) % b
<1>1. PICK q \in Int, r \in 0 .. b - 1 : a = b * q + r /\ a % b = r
  BY DivMod
<1>2. PICK p \in Int, s \in 0 .. b - 1 : r + c = b * p + s /\ (r + c) % b = s
  <2>1. r + c \in Int
    BY <1>1
  <2> QED  BY <2>1, DivMod
<1>3. a + c = b * (q + p) + s /\ q + p \in Int
  BY <1>1, <1>2
<1>4. (b * (q + p) + s) % b = s
  BY <1>2, <1>3, ModUnique
<1>5. (a + c) % b = s
  BY <1>3, <1>4, Zenon
<1>6. ((a % b) + c) % b = s
  BY <1>1, <1>2, Zenon
<1> QED  BY <1>5, <1>6, Zenon
-----------------------------------------------------------------------------
(***************************************************************************)
(* Payload.  Sums(f, s, n): f[i] is the payload of the first i packets of  *)
(* s, as the recursive definition of Payload says.                         *)
(***************************************************************************)
Sums(f, s, n) == f = [i \in 0 .. n |-> IF i = 0 THEN 0 ELSE f[i - 1] + s[i].len]

LEMMA SumsExist ==
    ASSUME NEW s, NEW n \in Nat
    PROVE  \E f : Sums(f, s, n)
<1> DEFINE D == {i \in Nat : ~(\E f : Sums(f, s, i))}
<1>1. SUFFICES ASSUME D # {} PROVE FALSE
  OBVIOUS
<1>2. PICK k \in D : \A j \in D : k <= j
  BY <1>1, LeastIndex
<1>3. CASE k = 0
  <2> DEFINE f == [i \in 0 .. 0 |-> 0]
  <2>1. f = [i \in 0 .. 0 |-> IF i = 0 THEN 0 ELSE f[i - 1] + s[i].len]
    OBVIOUS
  <2> QED  BY <1>3, <2>1 DEF Sums
<1>4. CASE k # 0
  <2>1. k - 1 \in Nat /\ k - 1 \notin D
    BY <1>2, <1>4
  <2>2. PICK f : Sums(f, s, k - 1)
    BY <2>1
  <2> DEFINE h == [i \in 0 .. k |-> IF i = k THEN f[k - 1] + s[k].len ELSE f[i]]
  <2>3. \A i \in 0 .. k - 1 : f[i] = IF i = 0 THEN 0 ELSE f[i - 1] + s[i].len
    BY <2>1, <2>2 DEF Sums
  <2>4. ASSUME NEW i \in 0 .. k
        PROVE  h[i] = IF i = 0 THEN 0 ELSE h[i - 1] + s[i].len
    <3>1. CASE i = 0
      BY <1>4, <2>1, <2>3, <3>1
    <3>2. CASE i # 0
      <4>1. i - 1 \in 0 .. k /\ i - 1 # k /\ i - 1 \in 0 .. k - 1
        BY <2>1, <3>2
      <4>2. h[i - 1] = f[i - 1]
        BY <4>1
      <4>3. CASE i = k
        BY <3>2, <4>2, <4>3
      <4>4. CASE i # k
        <5>1. i \in 0 .. k - 1
          BY <2>1, <4>4
        <5>2. h[i] = f[i]
          BY <4>4
        <5> QED  BY <2>3, <3>2, <4>2, <5>1, <5>2
      <4> QED  BY <4>3, <4>4
    <3> QED  BY <3>1, <3>2
  <2>5. h = [i \in 0 .. k |-> h[i]]
    OBVIOUS
  <2> HIDE DEF h
  <2>6. h = [i \in 0 .. k |-> IF i = 0 THEN 0 ELSE h[i - 1] + s[i].len]
    BY <2>4, <2>5
  <2> QED  BY <1>2, <2>6 DEF Sums
<1> QED  BY <1>3, <1>4


\* Functions f and g that grow alike, by d[i], from m and 0 on differ by what
\* they differ there.
Alike(f, m, g, n, d) ==
    \A i \in 1 .. n : /\ d[i] \in Int
                      /\ f[m + i] = f[m + i - 1] + d[i]
                      /\ g[i] = g[i - 1] + d[i]

LEMMA SameSteps ==
    ASSUME NEW m \in Nat, NEW n \in Nat, NEW f, NEW g, NEW d, NEW c \in Int,
           g[0] \in Int, f[m] = g[0] + c, Alike(f, m, g, n, d)
    PROVE  \A i \in 0 .. n : g[i] \in Int /\ f[m + i] = g[i] + c
<1> DEFINE D == {i \in 0 .. n : ~(g[i] \in Int /\ f[m + i] = g[i] + c)}
<1>1. SUFFICES ASSUME D # {} PROVE FALSE
  OBVIOUS
<1>2. PICK k \in D : \A j \in D : k <= j
  <2>1. D \in SUBSET Nat
    OBVIOUS
  <2> HIDE DEF D
  <2> QED  BY <1>1, <2>1, LeastIndex
<1>3. k \in 0 .. n /\ ~(g[k] \in Int /\ f[m + k] = g[k] + c)
  BY <1>2
<1>4. k # 0
  BY <1>3
<1>5. k \in 1 .. n /\ k - 1 \in 0 .. n /\ k - 1 \notin D
  BY <1>2, <1>3, <1>4
<1>6. g[k - 1] \in Int /\ f[m + (k - 1)] = g[k - 1] + c /\ m + (k - 1) = m + k - 1
  BY <1>5
<1> HIDE DEF D
<1>7. d[k] \in Int /\ f[m + k] = f[m + k - 1] + d[k] /\ g[k] = g[k - 1] + d[k]
  BY <1>5 DEF Alike
<1> DEFINE x == g[k - 1]
           y == f[m + k - 1]
           z == d[k]
<1>8. x \in Int /\ y = x + c /\ z \in Int /\ f[m + k] = y + z /\ g[k] = x + z
  BY <1>6, <1>7
<1> HIDE DEF x, y, z
<1>9. g[k] \in Int /\ f[m + k] = g[k] + c
  BY <1>8
<1> QED  BY <1>3, <1>9
Sized(s) == Len(s) \in Nat /\ \A i \in 1 .. Len(s) : s[i].len \in Int

LEMMA PayloadSums ==
    ASSUME NEW s, Len(s) \in Nat
    PROVE  \E f : /\ f[0] = 0 /\ Payload(s) = f[Len(s)]
                  /\ \A i \in 1 .. Len(s) : f[i] = f[i - 1] + s[i].len
<1> DEFINE f == CHOOSE f : Sums(f, s, Len(s))
<1>1. Payload(s) = f[Len(s)]
  BY DEF Payload, Sums
<1>2. Sums(f, s, Len(s))
  BY SumsExist
<1> HIDE DEF f
<1>3. f = [i \in 0 .. Len(s) |-> IF i = 0 THEN 0 ELSE f[i - 1] + s[i].len]
  BY <1>2 DEF Sums
<1>4. f[0] = 0 /\ \A i \in 1 .. Len(s) : f[i] = f[i - 1] + s[i].len
  BY <1>3
<1> QED  BY <1>1, <1>4

\* The payload of u followed by t, whatever else changes in the packets.
Joined(s, u, t) ==
    /\ Len(s) = Len(u) + Len(t)
    /\ \A i \in 1 .. Len(u) : s[i].len = u[i].len
    /\ \A i \in 1 .. Len(t) : s[Len(u) + i].len = t[i].len

LEMMA PayloadConcat ==
    ASSUME NEW s, NEW u, NEW t, Sized(s), Sized(u), Sized(t), Joined(s, u, t)
    PROVE  /\ Payload(s) \in Int /\ Payload(u) \in Int /\ Payload(t) \in Int
           /\ Payload(s) = Payload(u) + Payload(t)
<1> DEFINE m == Len(u)
           n == Len(t)
<1>1. m \in Nat /\ n \in Nat /\ Len(s) = m + n
  BY DEF Sized, Joined
<1>2. PICK f : /\ f[0] = 0 /\ Payload(s) = f[Len(s)]
               /\ \A i \in 1 .. Len(s) : f[i] = f[i - 1] + s[i].len
  BY PayloadSums DEF Sized
<1>3. PICK g : /\ g[0] = 0 /\ Payload(u) = g[m]
               /\ \A i \in 1 .. m : g[i] = g[i - 1] + u[i].len
  BY PayloadSums DEF Sized
<1>4. PICK h : /\ h[0] = 0 /\ Payload(t) = h[n]
               /\ \A i \in 1 .. n : h[i] = h[i - 1] + t[i].len
  BY PayloadSums DEF Sized
<1> DEFINE a == [i \in 1 .. m |-> u[i].len]
           b == [i \in 1 .. n |-> t[i].len]
<1>5. Alike(f, 0, g, m, a)
  <2> SUFFICES ASSUME NEW i \in 1 .. m
               PROVE  a[i] \in Int /\ f[0 + i] = f[0 + i - 1] + a[i] /\ g[i] = g[i - 1] + a[i]
    BY DEF Alike
  <2>1. i \in 1 .. Len(s) /\ 0 + i = i /\ 0 + i - 1 = i - 1
    BY <1>1
  <2>2. a[i] = u[i].len /\ u[i].len \in Int /\ s[i].len = u[i].len
    BY DEF Sized, Joined
  <2> HIDE DEF a
  <2> QED  BY <1>2, <1>3, <2>1, <2>2
<1>6. Alike(f, m, h, n, b)
  <2> SUFFICES ASSUME NEW i \in 1 .. n
               PROVE  b[i] \in Int /\ f[m + i] = f[m + i - 1] + b[i] /\ h[i] = h[i - 1] + b[i]
    BY DEF Alike
  <2>1. m + i \in 1 .. Len(s)
    BY <1>1
  <2>2. b[i] = t[i].len /\ t[i].len \in Int /\ s[m + i].len = t[i].len
    BY DEF Sized, Joined
  <2> HIDE DEF b, m
  <2>3. f[m + i] = f[m + i - 1] + s[m + i].len
    <3> DEFINE j == m + i
    <3>1. j \in 1 .. Len(s) /\ j - 1 = m + i - 1
      BY <1>1, <2>1
    <3> HIDE DEF j
    <3>2. f[j] = f[j - 1] + s[j].len
      BY <1>2, <3>1
    <3> QED  BY <3>1, <3>2, Zenon DEF j
  <2> QED  BY <1>4, <2>2, <2>3
<1> HIDE DEF a, b, m, n
<1>7. \A i \in 0 .. m : g[i] \in Int /\ f[0 + i] = g[i] + 0
  <2> DEFINE z == 0
  <2>1. z \in Nat /\ z \in Int /\ g[0] \in Int /\ f[z] = g[0] + z
    BY <1>2, <1>3
  <2>2. Alike(f, z, g, m, a)
    BY <1>5
  <2> HIDE DEF z
  <2>3. \A i \in 0 .. m : g[i] \in Int /\ f[z + i] = g[i] + z
    BY <1>1, <2>1, <2>2, SameSteps
  <2> QED  BY <2>3, Zenon DEF z
<1>8. g[m] \in Int /\ f[m] = g[m]
  <2>1. m \in 0 .. m /\ 0 + m = m
    BY <1>1
  <2> QED  BY <1>7, <2>1
<1>9. \A i \in 0 .. n : h[i] \in Int /\ f[m + i] = h[i] + g[m]
  <2> DEFINE c == g[m]
  <2>1. c \in Int /\ h[0] \in Int /\ f[m] = h[0] + c
    BY <1>4, <1>8
  <2> HIDE DEF c
  <2>2. \A i \in 0 .. n : h[i] \in Int /\ f[m + i] = h[i] + c
    BY <1>1, <1>6, <2>1, SameSteps
  <2> QED  BY <2>2, Zenon DEF c
<1>10. h[n] \in Int /\ f[m + n] = h[n] + g[m]
  <2>1. n \in 0 .. n
    BY <1>1
  <2> QED  BY <1>9, <2>1
<1> QED  BY <1>1, <1>2, <1>3, <1>4, <1>8, <1>10

LEMMA PayloadShort ==
    /\ Payload(<< >>) = 0
    /\ \A s : Len(s) = 1 /\ s[1].len \in Int => Payload(s) = s[1].len /\ Sized(s)
<1>1. Payload(<< >>) = 0
  <2>1. Len(<< >>) = 0
    OBVIOUS
  <2> QED  BY <2>1, PayloadSums
<1>2. ASSUME NEW s, Len(s) = 1, s[1].len \in Int PROVE Payload(s) = s[1].len /\ Sized(s)
  <2>1. PICK f : /\ f[0] = 0 /\ Payload(s) = f[1]
                 /\ \A i \in 1 .. 1 : f[i] = f[i - 1] + s[i].len
    BY <1>2, PayloadSums
  <2>2. f[1] = f[1 - 1] + s[1].len /\ 1 - 1 = 0
    BY <2>1
  <2>3. f[1] = s[1].len
    BY <1>2, <2>1, <2>2
  <2>4. \A i \in 1 .. Len(s) : i = 1
    BY <1>2
  <2> QED  BY <1>2, <2>1, <2>3, <2>4 DEF Sized
<1> QED  BY <1>1, <1>2

\* Packets of the same lengths.
LEMMA PayloadSame ==
    ASSUME NEW s, NEW t, Sized(s), Len(t) = Len(s), \A i \in 1 .. Len(s) : t[i].len = s[i].len
    PROVE  Sized(t) /\ Payload(t) = Payload(s) /\ Payload(s) \in Int
<1> DEFINE e == << >>
<1>1. Len(e) = 0 /\ Payload(e) = 0 /\ Sized(e)
  BY PayloadShort DEF Sized
<1>2. Sized(t)
  BY DEF Sized
<1> HIDE DEF e
<1>3. Joined(t, s, e)
  BY <1>1 DEF Sized, Joined
<1>4. Payload(t) = Payload(s) + 0 /\ Payload(s) \in Int
  BY <1>1, <1>2, <1>3, PayloadConcat
<1> QED  BY <1>2, <1>4
-----------------------------------------------------------------------------
(***************************************************************************)
(* LTENR_RLC_UM_SEND_PDU: the PDUs are the first k packets and perhaps the *)
(* first bytes of the next one, and the rest stays in the buffer.          *)
(***************************************************************************)
Cut(k, left) == k < Len(txBuf) /\ left >= MinPdu

Sent(k, left, pdus) ==
    /\ \A i \in 1 .. k : pdus[i] = ADD_HDR(txBuf[i], TX_Next)
    /\ ~Cut(k, left) => Len(pdus) = k
    /\ Cut(k, left) =>
          /\ Len(pdus) = k + 1
          /\ pdus[k + 1] = FRAGMENT_PACKET(txBuf[k + 1], left, NextSn(SubSeq(txBuf, 1, k)))

Kept(k, left, buf) ==
    /\ Len(buf) = Len(txBuf) - k
    /\ \A i \in 1 .. Len(txBuf) - k :
          buf[i] = IF i = 1 /\ Cut(k, left) THEN Remainder(txBuf[k + 1], left)
                   ELSE txBuf[k + i]

LEMMA SubSeqFacts ==
    ASSUME NEW S, NEW s \in Seq(S), NEW k \in 0 .. Len(s)
    PROVE  /\ SubSeq(s, 1, k) \in Seq(S) /\ Len(SubSeq(s, 1, k)) = k
           /\ \A i \in 1 .. k : SubSeq(s, 1, k)[i] = s[i]
           /\ SubSeq(s, k + 1, Len(s)) \in Seq(S)
           /\ Len(SubSeq(s, k + 1, Len(s))) = Len(s) - k
           /\ \A i \in 1 .. Len(s) - k : SubSeq(s, k + 1, Len(s))[i] = s[k + i]
<1> DEFINE a == SubSeq(s, 1, k)
           b == SubSeq(s, k + 1, Len(s))
           n == Len(s)
<1>1. n \in Nat /\ k \in Nat /\ k <= n /\ \A i \in 1 .. n : s[i] \in S
  BY LenProperties, ElementOfSeq
<1>2. /\ a \in Seq(S)
      /\ Len(a) = IF 1 <= k THEN k - 1 + 1 ELSE 0
      /\ \A i \in 1 .. (k - 1 + 1) : a[i] = s[1 + i - 1]
  BY <1>1, SubSeqProperties
<1>3. /\ b \in Seq(S)
      /\ Len(b) = IF k + 1 <= n THEN n - (k + 1) + 1 ELSE 0
      /\ \A i \in 1 .. (n - (k + 1) + 1) : b[i] = s[k + 1 + i - 1]
  BY <1>1, SubSeqProperties
<1> HIDE DEF a, b, n
<1>4. Len(a) = k /\ Len(b) = n - k
  BY <1>1, <1>2, <1>3
<1>5. ASSUME NEW i \in 1 .. k PROVE a[i] = s[i]
  <2>1. i \in 1 .. (k - 1 + 1) /\ 1 + i - 1 = i
    BY <1>1
  <2> QED  BY <1>2, <2>1
<1>6. ASSUME NEW i \in 1 .. n - k PROVE b[i] = s[k + i]
  <2>1. i \in 1 .. (n - (k + 1) + 1) /\ k + 1 + i - 1 = k + i
    BY <1>1
  <2> QED  BY <1>3, <2>1
<1> QED  BY <1>2, <1>3, <1>4, <1>5, <1>6 DEF a, b, n

\* A function on 1 .. n with values in S is a sequence of S.
LEMMA IsSeq ==
    ASSUME NEW S, NEW n \in Nat, NEW f, f = [i \in 1 .. n |-> f[i]],
           \A i \in 1 .. n : f[i] \in S
    PROVE  f \in Seq(S) /\ Len(f) = n
<1>1. f \in [1 .. n -> S]
  OBVIOUS
<1>2. f \in Seq(S)
  BY <1>1, SeqDef
<1>3. DOMAIN f = 1 .. n /\ DOMAIN f = 1 .. Len(f) /\ Len(f) \in Nat
  BY <1>1, <1>2, LenProperties
<1> QED  BY <1>2, <1>3
LEMMA HdrFacts ==
    ASSUME NEW p \in Packet, NEW sn \in Nat
    PROVE  ADD_HDR(p, sn) \in Pdu /\ ADD_HDR(p, sn).len = p.len
  BY DEF ADD_HDR, Packet, Pdu

LEMMA FragmentFacts ==
    ASSUME NEW p \in Packet, NEW sn \in Nat, NEW bytes \in Int
    PROVE  FRAGMENT_PACKET(p, bytes, sn) \in Pdu /\ FRAGMENT_PACKET(p, bytes, sn).len = bytes
  BY DEF FRAGMENT_PACKET, Packet, Pdu

LEMMA RemainderFacts ==
    ASSUME NEW p \in Packet, NEW bytes \in Int
    PROVE  /\ Remainder(p, bytes) \in Packet /\ p.len \in Int
           /\ Remainder(p, bytes).len = p.len - bytes
           /\ Remainder(p, bytes).so = p.so + 1 /\ Remainder(p, bytes).id = p.id
<1>1. p.id \in Accepted /\ p.len \in Int /\ p.so \in Nat
  BY DEF Packet
<1> QED  BY <1>1 DEF Packet, Remainder

LEMMA SendLemma ==
    ASSUME txBuf \in Seq(Packet), TX_Next \in Nat, NEW k \in 0 .. Len(txBuf),
           NEW left \in Int, NEW new, new = SEND_PDU(k, left)
    PROVE  /\ new.pdus \in Seq(Pdu) /\ Sent(k, left, new.pdus)
           /\ new.buf \in Seq(Packet) /\ Kept(k, left, new.buf)
           /\ new.TX_Next = NextSn(SubSeq(txBuf, 1, k)) /\ new.TX_Next \in Nat
           /\ new.status = Reduced(new.pdus)
<1> DEFINE cut == Cut(k, left)
           n == Len(txBuf)
           sn == NextSn(SubSeq(txBuf, 1, k))
           whole == [i \in 1 .. k |-> ADD_HDR(txBuf[i], TX_Next)]
           next == FRAGMENT_PACKET(txBuf[k + 1], left, sn)
           pdus == IF cut THEN Append(whole, next) ELSE whole
           rest == SubSeq(txBuf, k + 1, Len(txBuf))
           buf == IF cut THEN [rest EXCEPT ![1] = Remainder(@, left)] ELSE rest
<1>1. new = [pdus |-> pdus, TX_Next |-> sn, status |-> Reduced(pdus), buf |-> buf]
  BY Zenon DEF SEND_PDU, Cut
<1>2. new.pdus = pdus /\ new.TX_Next = sn /\ new.status = Reduced(pdus) /\ new.buf = buf
  <2> HIDE DEF pdus, sn, buf
  <2> QED  BY <1>1
<1>3. n \in Nat /\ k \in Nat /\ k <= n /\ \A i \in 1 .. n : txBuf[i] \in Packet
  BY LenProperties, ElementOfSeq
<1>4. sn \in Nat
  BY DEF NextSn
<1>5. whole \in Seq(Pdu) /\ Len(whole) = k
  <2>1. \A i \in 1 .. k : ADD_HDR(txBuf[i], TX_Next) \in Pdu
    <3> TAKE i \in 1 .. k
    <3>1. txBuf[i] \in Packet /\ 0 \in Int
      BY <1>3
    <3> QED  BY <3>1, HdrFacts
  <2>2. \A i \in 1 .. k : whole[i] \in Pdu
    BY <2>1
  <2>3. whole = [i \in 1 .. k |-> whole[i]]
    OBVIOUS
  <2> HIDE DEF whole
  <2> QED  BY <1>3, <2>2, <2>3, IsSeq
<1>6. \A i \in 1 .. k : whole[i] = ADD_HDR(txBuf[i], TX_Next)
  OBVIOUS
<1>7. rest \in Seq(Packet) /\ Len(rest) = n - k /\ \A i \in 1 .. n - k : rest[i] = txBuf[k + i]
  BY SubSeqFacts
<1> HIDE DEF whole, next, rest, sn, n, cut
<1>8. CASE cut
  <2>1. k + 1 \in 1 .. n /\ txBuf[k + 1] \in Packet
    BY <1>3, <1>8 DEF cut, Cut, n
  <2>2. next \in Pdu /\ Remainder(txBuf[k + 1], left) \in Packet
    BY <1>4, <2>1, FragmentFacts, RemainderFacts DEF next
  <2>3. pdus = Append(whole, next)
    BY <1>8
  <2>4. /\ pdus \in Seq(Pdu) /\ Len(pdus) = k + 1 /\ pdus[k + 1] = next
        /\ \A i \in 1 .. k : pdus[i] = whole[i]
    BY <1>5, <2>2, <2>3, AppendProperties
  <2>5. Sent(k, left, pdus)
    BY <1>6, <1>8, <2>4 DEF Sent, next, sn, cut
  <2> DEFINE x == Remainder(rest[1], left)
  <2>6. 1 \in 1 .. n - k /\ rest[1] = txBuf[k + 1] /\ x \in Packet
    BY <1>3, <1>7, <2>1, <2>2
  <2>7. buf = [rest EXCEPT ![1] = x]
    BY <1>8
  <2>8. DOMAIN rest = 1 .. n - k
    BY <1>7, LenProperties
  <2> HIDE DEF x
  <2>9. /\ buf = [i \in 1 .. n - k |-> buf[i]]
        /\ \A i \in 1 .. n - k : buf[i] = IF i = 1 THEN x ELSE txBuf[k + i]
    <3> HIDE DEF buf
    <3> QED  BY <1>7, <2>6, <2>7, <2>8
  <2>10. \A i \in 1 .. n - k : buf[i] \in Packet
    <3> HIDE DEF buf
    <3>1. \A i \in 1 .. n - k : k + i \in 1 .. n
      BY <1>3
    <3> QED  BY <1>3, <2>6, <2>9, <3>1
  <2>11. buf \in Seq(Packet) /\ Len(buf) = n - k
    <3> HIDE DEF buf
    <3>1. n - k \in Nat
      BY <1>3
    <3> QED  BY <2>9, <2>10, <3>1, IsSeq
  <2> HIDE DEF buf, pdus
  <2>12. Kept(k, left, buf)
    BY <1>8, <2>6, <2>9, <2>11 DEF Kept, x, n, cut
  <2> QED  BY <1>2, <1>4, <2>4, <2>5, <2>11, <2>12 DEF sn
<1>9. CASE ~cut
  <2>1. pdus = whole /\ buf = rest
    BY <1>9
  <2> HIDE DEF buf, pdus
  <2>2. Sent(k, left, pdus)
    BY <1>5, <1>6, <1>9, <2>1 DEF Sent, cut
  <2>3. Kept(k, left, buf)
    BY <1>7, <1>9, <2>1 DEF Kept, cut, n
  <2> QED  BY <1>2, <1>4, <1>5, <1>7, <2>1, <2>2, <2>3 DEF sn
<1> QED  BY <1>8, <1>9
LEMMA SizedSeq ==
    /\ \A s \in Seq(Packet) : Sized(s)
    /\ \A s \in Seq(Pdu) : Sized(s)
<1>1. ASSUME NEW s \in Seq(Packet) PROVE Sized(s)
  <2>1. Len(s) \in Nat /\ \A i \in 1 .. Len(s) : s[i] \in Packet
    BY LenProperties, ElementOfSeq
  <2> QED  BY <2>1 DEF Sized, Packet
<1>2. ASSUME NEW s \in Seq(Pdu) PROVE Sized(s)
  <2>1. Len(s) \in Nat /\ \A i \in 1 .. Len(s) : s[i] \in Pdu
    BY LenProperties, ElementOfSeq
  <2> QED  BY <2>1 DEF Sized, Pdu
<1> QED  BY <1>1, <1>2

One(n) == << [len |-> n] >>

LEMMA OneLemma ==
    ASSUME NEW n \in Int
    PROVE  Len(One(n)) = 1 /\ One(n)[1].len = n /\ Sized(One(n)) /\ Payload(One(n)) = n
<1>1. Len(One(n)) = 1 /\ One(n)[1].len = n
  BY DEF One
<1> QED  BY <1>1, PayloadShort

\* No byte of payload is lost or sent twice, not even by a segment longer than
\* its packet.
LEMMA PayloadKept ==
    ASSUME txBuf \in Seq(Packet), TX_Next \in Nat, NEW k \in 0 .. Len(txBuf),
           NEW left \in Int, NEW pdus \in Seq(Pdu), Sent(k, left, pdus),
           NEW buf \in Seq(Packet), Kept(k, left, buf)
    PROVE  /\ Payload(txBuf) \in Int /\ Payload(pdus) \in Int
           /\ Payload(buf) = Payload(txBuf) - Payload(pdus)
<1> DEFINE n == Len(txBuf)
           a == SubSeq(txBuf, 1, k)
           b == SubSeq(txBuf, k + 1, n)
<1>1. n \in Nat /\ k \in Nat /\ k <= n /\ \A i \in 1 .. n : txBuf[i] \in Packet
  BY LenProperties, ElementOfSeq
<1>2. /\ a \in Seq(Packet) /\ Len(a) = k /\ \A i \in 1 .. k : a[i] = txBuf[i]
      /\ b \in Seq(Packet) /\ Len(b) = n - k /\ \A i \in 1 .. n - k : b[i] = txBuf[k + i]
  BY SubSeqFacts
<1> HIDE DEF a, b
<1>3. Sized(txBuf) /\ Sized(a) /\ Sized(b) /\ Sized(pdus) /\ Sized(buf)
  BY <1>2, SizedSeq
<1>4. /\ Payload(txBuf) \in Int /\ Payload(a) \in Int /\ Payload(b) \in Int
      /\ Payload(txBuf) = Payload(a) + Payload(b)
  <2>1. Len(txBuf) = Len(a) + Len(b)
    BY <1>1, <1>2
  <2>2. /\ \A i \in 1 .. Len(a) : txBuf[i].len = a[i].len
        /\ \A i \in 1 .. Len(b) : txBuf[Len(a) + i].len = b[i].len
    BY <1>2
  <2>3. Joined(txBuf, a, b)
    BY <2>1, <2>2 DEF Joined
  <2> QED  BY <1>3, <2>3, PayloadConcat
<1>5. \A i \in 1 .. k : pdus[i].len = a[i].len
  <2> TAKE i \in 1 .. k
  <2>1. txBuf[i] \in Packet /\ 0 \in Int
    BY <1>1
  <2>2. pdus[i] = ADD_HDR(txBuf[i], TX_Next)
    BY DEF Sent
  <2> QED  BY <1>2, <2>1, <2>2, HdrFacts
<1>6. CASE ~Cut(k, left)
  <2>1. Len(pdus) = Len(a) /\ Len(buf) = Len(b) /\ \A i \in 1 .. Len(b) : buf[i].len = b[i].len
    BY <1>2, <1>6 DEF Sent, Kept
  <2>2. Payload(pdus) = Payload(a)
    BY <1>2, <1>3, <1>5, <2>1, PayloadSame
  <2>3. Payload(buf) = Payload(b)
    BY <1>3, <2>1, PayloadSame
  <2> QED  BY <1>4, <2>2, <2>3
<1>7. CASE Cut(k, left)
  <2> DEFINE p == txBuf[k + 1]
             c == SubSeq(txBuf, k + 2, n)
             len == p.len
  <2>1. k + 1 \in 0 .. n /\ k + 1 \in 1 .. n /\ p \in Packet /\ len \in Int
    BY <1>1, <1>7 DEF Cut, Packet
  <2>2. c \in Seq(Packet) /\ Len(c) = n - (k + 1) /\ \A i \in 1 .. n - (k + 1) : c[i] = txBuf[k + 1 + i]
    <3> DEFINE j == k + 1
    <3>1. j \in 0 .. n /\ j + 1 = k + 2
      BY <1>1, <2>1
    <3> HIDE DEF j
    <3>2. /\ SubSeq(txBuf, j + 1, n) \in Seq(Packet)
          /\ Len(SubSeq(txBuf, j + 1, n)) = n - j
          /\ \A i \in 1 .. n - j : SubSeq(txBuf, j + 1, n)[i] = txBuf[j + i]
      BY <3>1, SubSeqFacts
    <3>3. c = SubSeq(txBuf, j + 1, n)
      BY <3>1
    <3> HIDE DEF c
    <3> QED  BY <3>2, <3>3 DEF j
  <2> HIDE DEF c
  <2>3. Sized(c)
    BY <2>2, SizedSeq
  <2> DEFINE u == One(left)
             v == One(len)
             w == One(len - left)
  <2>4. /\ Len(u) = 1 /\ u[1].len = left /\ Sized(u) /\ Payload(u) = left
        /\ Len(v) = 1 /\ v[1].len = len /\ Sized(v) /\ Payload(v) = len
    BY <2>1, OneLemma
  <2>5. Len(w) = 1 /\ w[1].len = len - left /\ Sized(w) /\ Payload(w) = len - left
    <3> DEFINE x == len - left
    <3>1. x \in Int
      BY <2>1
    <3> HIDE DEF x
    <3>2. Len(One(x)) = 1 /\ One(x)[1].len = x /\ Sized(One(x)) /\ Payload(One(x)) = x
      BY <3>1, OneLemma
    <3> QED  BY <3>2, Zenon DEF x
  <2>6. pdus[k + 1].len = left /\ Len(pdus) = k + 1
    <3>1. pdus[k + 1] = FRAGMENT_PACKET(p, left, NextSn(a)) /\ Len(pdus) = k + 1
      BY <1>7 DEF Sent, a
    <3>2. NextSn(a) \in Nat
      BY DEF NextSn
    <3> QED  BY <2>1, <3>1, <3>2, FragmentFacts
  <2>7. buf[1].len = len - left /\ Len(buf) = n - k
    <3>1. 1 \in 1 .. n - k
      BY <1>1, <2>1
    <3>2. buf[1] = Remainder(p, left) /\ Len(buf) = n - k
      BY <1>7, <3>1 DEF Kept
    <3> QED  BY <2>1, <3>2, RemainderFacts
  <2>8. \A i \in 1 .. Len(c) : /\ 1 + i \in 1 .. n - k /\ 1 + i # 1
                               /\ k + (1 + i) = k + 1 + i
                               /\ b[1 + i].len = c[i].len /\ buf[1 + i].len = c[i].len
    <3> TAKE i \in 1 .. Len(c)
    <3> DEFINE j == 1 + i
    <3>1. j \in 1 .. n - k /\ j # 1 /\ k + j = k + 1 + i /\ i \in 1 .. n - (k + 1)
      BY <1>1, <2>1, <2>2
    <3> HIDE DEF j
    <3>2. b[j] = txBuf[k + j] /\ buf[j] = txBuf[k + j]
      BY <1>2, <3>1 DEF Kept
    <3>3. c[i] = txBuf[k + j]
      BY <2>2, <3>1
    <3> QED  BY <3>1, <3>2, <3>3 DEF j
  <2> HIDE DEF u, v, w, len
  <2>9. Payload(pdus) = Payload(a) + left
    <3>1. Len(pdus) = Len(a) + Len(u)
      BY <1>2, <2>4, <2>6
    <3>2. \A i \in 1 .. Len(a) : pdus[i].len = a[i].len
      BY <1>2, <1>5
    <3>3. \A i \in 1 .. Len(u) : pdus[Len(a) + i].len = u[i].len
      BY <1>2, <2>4, <2>6
    <3>5. Joined(pdus, a, u)
      BY <3>1, <3>2, <3>3 DEF Joined
    <3>6. Payload(pdus) = Payload(a) + Payload(u) /\ Payload(u) \in Int
      BY <1>3, <2>4, <3>5, PayloadConcat
    <3> QED  BY <2>4, <3>6
  <2>10. Payload(b) = len + Payload(c) /\ Payload(c) \in Int
    <3>1. Len(b) = Len(v) + Len(c)
      BY <1>1, <1>2, <2>1, <2>2, <2>4
    <3>2. b[1].len = len
      <4>1. 1 \in 1 .. n - k
        BY <1>1, <2>1
      <4> QED  BY <1>2, <4>1 DEF len
    <3>3. \A i \in 1 .. Len(v) : b[i].len = v[i].len
      BY <2>4, <3>2
    <3>4. \A i \in 1 .. Len(c) : b[Len(v) + i].len = c[i].len
      BY <2>4, <2>8
    <3>5. Joined(b, v, c)
      BY <3>1, <3>3, <3>4 DEF Joined
    <3>6. Payload(b) = Payload(v) + Payload(c) /\ Payload(c) \in Int
      BY <1>3, <2>3, <2>4, <3>5, PayloadConcat
    <3> QED  BY <2>3, <2>4, <3>6
  <2>11. Payload(buf) = (len - left) + Payload(c)
    <3>1. Len(buf) = Len(w) + Len(c)
      BY <1>1, <2>1, <2>2, <2>5, <2>7
    <3>3. \A i \in 1 .. Len(w) : buf[i].len = w[i].len
      BY <2>5, <2>7
    <3>4. \A i \in 1 .. Len(c) : buf[Len(w) + i].len = c[i].len
      BY <2>5, <2>8
    <3>5. Joined(buf, w, c)
      BY <3>1, <3>3, <3>4 DEF Joined
    <3>6. Payload(buf) = Payload(w) + Payload(c) /\ Payload(c) \in Int
      BY <1>3, <2>3, <2>5, <3>5, PayloadConcat
    <3> QED  BY <2>3, <2>5, <3>6
  <2> DEFINE T == Payload(txBuf)
             A == Payload(a)
             B == Payload(b)
             C == Payload(c)
             P == Payload(pdus)
  <2>12. /\ T \in Int /\ A \in Int /\ B \in Int /\ C \in Int /\ len \in Int
         /\ T = A + B /\ P = A + left /\ B = len + C /\ Payload(buf) = (len - left) + C
    BY <1>4, <2>1, <2>9, <2>10, <2>11 DEF len
  <2> HIDE DEF T, A, B, C, P
  <2>13. T \in Int /\ P \in Int /\ Payload(buf) = T - P
    BY <2>12
  <2> QED  BY <2>13, Zenon DEF T, P
<1> QED  BY <1>6, <1>7
-----------------------------------------------------------------------------
(***************************************************************************)
(* The slot.  Slot(p, k, left, new, pkts): process p, k whole packets and  *)
(* left bytes after them, the PDUs new and what is transmitted.            *)
(***************************************************************************)
Slot(error, p, k, left, new, pkts) ==
    /\ p = NextProcess /\ new = SEND_PDU(k, left) /\ pkts = StoreDLPacket(p, new.pdus)
    /\ current' = p
    /\ txBuf' = new.buf /\ TX_Next' = new.TX_Next /\ bufferStatus' = new.status
    /\ SendToReceiver(p, pkts, error)
    /\ lost' = IF SetNDI(p) THEN lost \cup Ids(process[p].pkts) ELSE lost
    /\ UNCHANGED <<pdcpTx, cell, rx>>

LEMMA GrantFacts ==
    ASSUME NEW prb \in 0 .. MaxPrb, NEW p, bufferStatus \in Nat
    PROVE  GrantFor(p, prb) \in Int
<1> DEFINE n == (bufferStatus + PrbBytes - 1) \div PrbBytes
<1>1. prb \in Int /\ PrbBytes \in Nat \ {0} /\ bufferStatus + PrbBytes - 1 \in Int
  BY ConstantFacts
<1>2. n \in Int
  BY <1>1, DivMod
<1> HIDE DEF n
<1> DEFINE S == {prb, n}
<1>3. \E x \in S : \A y \in S : x <= y
  BY <1>1, <1>2
<1>4. Min(S) = CHOOSE x \in S : \A y \in S : x <= y
  BY DEF Min
<1>5. Min(S) \in Int
  BY <1>1, <1>2, <1>3, <1>4
<1>6. PrbBytes * Min(S) \in Int
  <2> HIDE DEF S
  <2> QED  BY <1>1, <1>5
<1>7. Grant(prb) \in Int
  BY <1>6 DEF Grant, n
<1> QED  BY <1>7 DEF GrantFor

\* The number of whole packets of a grant exists.
LEMMA WholeFacts ==
    ASSUME NEW grant, txBuf \in Seq(Packet)
    PROVE  Whole(grant) \in 0 .. Len(txBuf) /\ Fits(grant, Whole(grant))
<1> DEFINE n == Len(txBuf)
           D == {j \in 0 .. n : j < n => ~Fits(grant, j + 1)}
<1>1. n \in Nat
  BY LenProperties
<1>2. n \in D
  BY <1>1
<1>3. PICK k \in D : \A j \in D : k <= j
  <2>1. D \in SUBSET Nat
    BY <1>1
  <2> HIDE DEF D
  <2> QED  BY <1>2, <2>1, LeastIndex
<1>4. Fits(grant, k)
  <2>1. CASE k = 0
    BY <2>1 DEF Fits
  <2>2. CASE k # 0
    <3> DEFINE j == k - 1
    <3>1. k \in 0 .. n
      BY <1>3
    <3>2. j \in 0 .. n /\ j < n /\ j + 1 = k /\ ~(k <= j)
      BY <1>1, <2>2, <3>1
    <3> HIDE DEF j
    <3>3. j \notin D
      <4> HIDE DEF D
      <4> QED  BY <1>3, <3>2
    <3> QED  BY <3>2, <3>3
  <2> QED  BY <2>1, <2>2
<1>5. k \in 0 .. Len(txBuf) /\ Fits(grant, k) /\ (k < Len(txBuf) => ~Fits(grant, k + 1))
  BY <1>3, <1>4
<1> QED  BY <1>5 DEF Whole

\* Without a grant nothing is taken from the buffer.
LEMMA NoGrant ==
    ASSUME txBuf \in Seq(Packet), NEW k \in 0 .. Len(txBuf), Fits(0, k)
    PROVE  k = 0 /\ 0 - Payload(SubSeq(txBuf, 1, k)) = 0
<1>1. Payload(SubSeq(txBuf, 1, 0)) = 0
  <2>1. Len(txBuf) \in Nat /\ 0 \in 0 .. Len(txBuf)
    BY LenProperties
  <2>2. SubSeq(txBuf, 1, 0) \in Seq(Packet) /\ Len(SubSeq(txBuf, 1, 0)) = 0
    BY <2>1, SubSeqFacts
  <2>3. SubSeq(txBuf, 1, 0) = << >>
    BY <2>2, EmptySeq
  <2> QED  BY <2>3, PayloadShort
<1>2. k = 0
  <2> SUFFICES ASSUME k # 0 PROVE FALSE
    OBVIOUS
  <2>1. 1 \in 1 .. k
    BY LenProperties
  <2>2. 0 - Payload(SubSeq(txBuf, 1, 1 - 1)) >= MinPdu
    BY <2>1 DEF Fits
  <2>3. 1 - 1 = 0
    OBVIOUS
  <2>4. 0 - 0 >= MinPdu
    BY <1>1, <2>2, <2>3
  <2> QED  BY <2>4, ConstantFacts
<1> QED  BY <1>1, <1>2

LEMMA SlotFacts ==
    ASSUME NEW prb \in 0 .. MaxPrb, NEW error, StartingSlot(prb, error),
           txBuf \in Seq(Packet), bufferStatus \in Nat, current \in 0 .. maxProcessCount
    PROVE  \E p \in Processes, k \in 0 .. Len(txBuf), left \in Int : \E new, pkts :
              /\ Slot(error, p, k, left, new, pkts)
              /\ SetNDI(p) \/ (k = 0 /\ left = 0)
<1> DEFINE p == NextProcess
           grant == GrantFor(p, prb)
           k == Whole(grant)
           left == grant - Payload(SubSeq(txBuf, 1, k))
           new == SEND_PDU(k, left)
           pkts == StoreDLPacket(p, new.pdus)
<1>1. p \in Processes
  <2> DEFINE m == current % maxProcessCount
  <2>1. m \in 0 .. maxProcessCount - 1
    BY ConstantFacts, ModRange
  <2>2. p = m + 1
    BY DEF NextProcess
  <2> HIDE DEF m
  <2> QED  BY <2>1, <2>2, ConstantFacts DEF Processes
<1>2. grant \in Int /\ k \in 0 .. Len(txBuf)
  BY GrantFacts, WholeFacts
<1>3. left \in Int
  <2> DEFINE x == Payload(SubSeq(txBuf, 1, k))
  <2> HIDE DEF k, grant
  <2>1. SubSeq(txBuf, 1, k) \in Seq(Packet)
    BY <1>2, SubSeqFacts
  <2>2. x \in Int
    BY <2>1, SizedSeq, PayloadSame
  <2> HIDE DEF x
  <2> QED  BY <1>2, <2>2 DEF x
<1>4. Slot(error, p, k, left, new, pkts)
  BY DEF StartingSlot, Slot
<1>5. SetNDI(p) \/ (k = 0 /\ left = 0)
  <2> SUFFICES ASSUME ~SetNDI(p) PROVE k = 0 /\ left = 0
    OBVIOUS
  <2>1. grant = 0
    BY DEF GrantFor
  <2>2. k \in 0 .. Len(txBuf) /\ Fits(grant, k)
    BY WholeFacts
  <2> HIDE DEF grant, k
  <2> QED  BY <2>1, <2>2, NoGrant
<1> HIDE DEF p, grant, k, left, new, pkts
<1> QED  BY <1>1, <1>2, <1>3, <1>4, <1>5
-----------------------------------------------------------------------------
(***************************************************************************)
(* COUNT at the sender and at the UE.  Of the moduli the sender's is one   *)
(* less than the UE's; an SDU with COUNT c = (SnRange - 1) * q + e has the *)
(* COUNT Counted(c) = SnRange * q + e at the UE.                           *)
(***************************************************************************)
LEMMA CountedFacts ==
    ASSUME NEW c \in Nat
    PROVE  \E q \in Nat : \E e \in 0 .. SnRange - 2 :
              /\ c = (SnRange - 1) * q + e /\ PDCP_ADDHDR(c) = e
              /\ Counted(c) = c + q /\ Counted(c) = SnRange * q + e
              /\ Counted(c) % SnRange = e
<1> DEFINE S == SnRange
           M == SnRange - 1
<1>1. S \in Nat /\ M \in Nat \ {0} /\ S = M + 1
  BY ConstantFacts
<1>2. PICK q \in Int, e \in 0 .. M - 1 : c = M * q + e /\ c \div M = q /\ c % M = e
  <2>1. c \in Int
    OBVIOUS
  <2> HIDE DEF M
  <2> QED  BY <1>1, <2>1, DivMod
<1>3. Counted(c) = c + q /\ PDCP_ADDHDR(c) = e
  BY <1>2 DEF Counted, PDCP_ADDHDR, POW_2_SN_SIZE
<1> HIDE DEF S, M
<1>4. q \in Nat
  <2> SUFFICES ASSUME q <= -1 PROVE FALSE
    BY <1>2
  <2> DEFINE y == M * q
  <2>1. y \in Int /\ c = y + e /\ e < M /\ e \in Int
    BY <1>1, <1>2
  <2>2. y <= - M
    BY <1>1, <1>2
  <2> HIDE DEF y
  <2> QED  BY <1>1, <2>1, <2>2
<1>5. Counted(c) = S * q + e
  <2>1. S * q = M * q + q
    BY <1>1, <1>2
  <2> DEFINE y == M * q
  <2>2. y \in Int /\ c = y + e /\ S * q = y + q
    BY <1>1, <1>2, <2>1
  <2> HIDE DEF y
  <2> QED  BY <1>2, <1>3, <2>2
<1>6. (S * q + e) % S = e
  <2>1. S \in Nat \ {0} /\ e \in 0 .. S - 1
    BY <1>1, <1>2
  <2> QED  BY <2>1, ModUnique
<1>7. e \in 0 .. S - 2 /\ M = S - 1 /\ S = SnRange
  BY <1>1, <1>2 DEF S
<1>8. c = (SnRange - 1) * q + e /\ Counted(c) = SnRange * q + e /\ Counted(c) % SnRange = e
  BY <1>2, <1>5, <1>6, <1>7, Zenon
<1> QED  BY <1>3, <1>4, <1>7, <1>8, Zenon

\* The COUNT of the UE grows with the sender's, by one more when that wraps.
LEMMA CountedOrder ==
    ASSUME NEW c \in Nat, NEW d \in Nat
    PROVE  /\ Counted(c) \in Nat
           /\ c < d => Counted(c) < Counted(d)
           /\ c <= d /\ d - c < SnRange - 1 => Counted(d) - Counted(c) <= d - c + 1
<1> DEFINE M == SnRange - 1
<1>1. M \in Nat \ {0} /\ 0 .. SnRange - 2 = 0 .. M - 1
  BY ConstantFacts
<1>0. \A a \in Nat : \E q \in Nat : \E e \in 0 .. M - 1 :
         a = M * q + e /\ Counted(a) = a + q
  <2> SUFFICES ASSUME NEW a \in Nat
               PROVE  \E q \in Nat : \E e \in 0 .. M - 1 : a = M * q + e /\ Counted(a) = a + q
    OBVIOUS
  <2>1. \E q \in Nat : \E e \in 0 .. SnRange - 2 : a = M * q + e /\ Counted(a) = a + q
    BY CountedFacts, Zenon
  <2> QED  BY <1>1, <2>1, Zenon
<1>2. PICK q \in Nat, e \in 0 .. M - 1 : c = M * q + e /\ Counted(c) = c + q
  BY <1>0, Zenon
<1>3. PICK p \in Nat, f \in 0 .. M - 1 : d = M * p + f /\ Counted(d) = d + p
  BY <1>0, Zenon
<1> DEFINE x == p - q
           y == M * x
           z == f - e
<1> HIDE DEF M
<1>4. y = (d - c) - z /\ x \in Int /\ y \in Int /\ z \in Int /\ - M < z /\ z < M
  BY <1>1, <1>2, <1>3
<1>5. Counted(c) = c + q /\ Counted(d) = d + p /\ x = p - q
  BY <1>2, <1>3
<1> HIDE DEF x
<1>6. /\ x >= 2 => y >= 2 * M
      /\ x <= -1 => y <= - M
  <2>1. ASSUME x >= 2 PROVE y >= 2 * M
    BY <1>1, <1>4, <2>1
  <2>2. ASSUME x <= -1 PROVE y <= - M
    BY <1>1, <1>4, <2>2
  <2> QED  BY <2>1, <2>2
<1> HIDE DEF y, z
<1>7. c < d => Counted(c) < Counted(d)
  BY <1>1, <1>4, <1>5, <1>6
<1>8. c <= d /\ d - c < M => Counted(d) - Counted(c) <= d - c + 1
  BY <1>1, <1>4, <1>5, <1>6
<1> QED  BY <1>5, <1>7, <1>8 DEF M
-----------------------------------------------------------------------------
(***************************************************************************)
(* PDCP of the UE.  RX_DELIV is the COUNT the UE has for the SDU handed up *)
(* last (At), and that SDU and those that may still arrive (Recent) are so *)
(* close to each other (Near) that the COUNT is reconstructed; the receive *)
(* buffer is empty between PDUs.  The reception buffers of the RLC hold    *)
(* PDUs of Q, each in the buffer of its SN (Filed).                        *)
(***************************************************************************)
Sdu == [id : Accepted, len : Int]
UeState(Q) ==
    [segments : [Sns -> Seq(Q)], RX_DELIV : Nat, RX_NEXT : Nat, receive : {{}},
     handed : Seq(Sdu), late : SUBSET Accepted]
At(r) == IF r.handed = << >> THEN (IF First = 0 THEN 0 ELSE First - 1) ELSE Last(r.handed).id
Recent(c) == (First + Len(size)) - MaxUnderWay <= c
Near(r) ==
    /\ At(r) \in Nat /\ At(r) <= First + Len(size) /\ Recent(At(r) + 1)
    /\ r.RX_DELIV = Counted(At(r))
Agree(r) ==
    r.RX_NEXT = IF r.handed = << >> /\ First = 0 THEN 0 ELSE r.RX_DELIV + 1
Filed(r) == \A n \in Sns : \A x \in ToSet(r.segments[n]) : x.sn = n /\ x.si # "ALL"
SaneUe(r, Q) == r \in UeState(Q) /\ Near(r) /\ Agree(r) /\ Filed(r)

\* LTENR_PDCP_CALCULATE_STATE_VARIABLE inverts the sequence number.
LEMMA RecvCount ==
    ASSUME NEW deliv \in Nat, NEW id \in Nat,
           2 * (id - deliv) < SnRange, 2 * (deliv - id) < SnRange, SnRange > 0
    PROVE  RECV_COUNT(deliv, id % SnRange) = id
<1> DEFINE S == SnRange
           W == SnRange \div 2
<1>1. S \in Nat \ {0} /\ S % 2 = 0
  BY NrDataPlaneAssumption, ConstantFacts
<1>2. W \in Int /\ S = 2 * W
  <2> HIDE DEF S
  <2>1. PICK q \in Int, r \in 0 .. 2 - 1 : S = 2 * q + r /\ S \div 2 = q /\ S % 2 = r
    BY <1>1, DivMod
  <2> QED  BY <1>1, <2>1 DEF S
<1>3. PICK q \in Int, d \in 0 .. S - 1 : deliv = S * q + d /\ deliv \div S = q /\ deliv % S = d
  BY <1>1, DivMod
<1>4. PICK p \in Int, e \in 0 .. S - 1 : id = S * p + e /\ id % S = e
  BY <1>1, DivMod
<1> DEFINE h == q + (IF e < d - W THEN 1 ELSE IF e >= d + W THEN -1 ELSE 0)
<1>5. RECV_COUNT(deliv, id % SnRange) = S * h + e
  BY <1>3, <1>4 DEF RECV_COUNT
<1> HIDE DEF S, W
<1>6. 2 * (id - deliv) < S /\ 2 * (deliv - id) < S
  BY DEF S
<1> DEFINE x == p - q
<1>7. id - deliv = S * x + (e - d) /\ x \in Int
  BY <1>1, <1>3, <1>4
<1>8. S * x + (e - d) < W /\ - W < S * x + (e - d)
  BY <1>2, <1>3, <1>4, <1>6, <1>7
<1>9. x \in {-1, 0, 1}
  <2> DEFINE y == S * x
             z == e - d
  <2>0. /\ y \in Int /\ z \in Int /\ - S < z /\ z < S /\ S \in Int /\ S > 0
        /\ 2 * (y + z) < S /\ - S < 2 * (y + z)
    BY <1>1, <1>2, <1>3, <1>4, <1>7, <1>8
  <2> HIDE DEF x, z
  <2>1. ASSUME x >= 2 PROVE FALSE
    <3>1. y >= 2 * S
      BY <1>1, <1>7, <2>1
    <3> HIDE DEF y
    <3> QED  BY <2>0, <3>1
  <2>2. ASSUME x <= -2 PROVE FALSE
    <3>1. y <= -2 * S
      BY <1>1, <1>7, <2>2
    <3> HIDE DEF y
    <3> QED  BY <2>0, <3>1
  <2> QED  BY <1>7, <2>1, <2>2
<1>10. h = p
  <2>1. CASE x = 0
    BY <1>2, <1>3, <1>4, <1>8, <2>1
  <2>2. CASE x = 1
    BY <1>2, <1>3, <1>4, <1>8, <2>2
  <2>3. CASE x = -1
    BY <1>2, <1>3, <1>4, <1>8, <2>3
  <2> QED  BY <1>9, <2>1, <2>2, <2>3
<1> HIDE DEF h
<1> QED  BY <1>4, <1>5, <1>10, Zenon

\* The UE finds its COUNT of an SDU that is pending; the SDUs before the one
\* handed up last are those it takes for late.
LEMMA CloseCounts ==
    ASSUME NEW r, NEW Q, SaneUe(r, Q), Len(size) \in 0 .. MaxSdus,
           NEW id \in Accepted, Recent(id)
    PROVE  /\ id \in Nat /\ Counted(id) \in Nat /\ At(r) \in Nat
           /\ RECV_COUNT(r.RX_DELIV, PDCP_ADDHDR(id)) = Counted(id)
           /\ Counted(id) < r.RX_DELIV <=> id < At(r)
<1>0. /\ At(r) \in Nat
      /\ At(r) <= First + Len(size)
      /\ (First + Len(size)) - MaxUnderWay <= At(r) + 1
      /\ r.RX_DELIV = Counted(At(r))
  <2>1. Near(r)
    BY Zenon DEF SaneUe
  <2> QED  BY <2>1, Zenon DEF Near, Recent
<1> DEFINE a == At(r)
           W == MaxUnderWay
           L == First + Len(size)
           c == Counted(id)
           d == r.RX_DELIV
<1>1. W \in Nat /\ 2 * W + 2 < SnRange /\ SnRange \in Nat
  BY ConstantFacts
<1>2. L \in Nat /\ id \in Nat /\ id < L /\ L - W <= id
  BY ConstantFacts DEF Accepted, Recent
<1>3. /\ a \in Nat
      /\ a <= L
      /\ L - W <= a + 1
      /\ d = Counted(a)
  BY <1>0
<1> HIDE DEF a, W, L, c, d
<1>4. /\ Counted(id) \in Nat /\ Counted(a) \in Nat
      /\ id < a => Counted(id) < Counted(a)
      /\ a < id => Counted(a) < Counted(id)
  BY <1>2, <1>3, CountedOrder
<1>5. /\ id <= a /\ a - id < SnRange - 1 => Counted(a) - Counted(id) <= a - id + 1
      /\ a <= id /\ id - a < SnRange - 1 => Counted(id) - Counted(a) <= id - a + 1
  BY <1>2, <1>3, CountedOrder
<1>6. 2 * (c - d) < SnRange /\ 2 * (d - c) < SnRange /\ SnRange > 0 /\ c \in Nat /\ d \in Nat
  <2>1. c = Counted(id) /\ c \in Nat /\ d = Counted(a) /\ d \in Nat
    BY <1>3, <1>4 DEF c
  <2>2. CASE id <= a
    <3>1. a - id <= W /\ a - id < SnRange - 1
      BY <1>1, <1>2, <1>3
    <3>2. d - c <= a - id + 1
      BY <1>5, <2>1, <2>2, <3>1, Zenon
    <3>3. c <= d
      BY <1>2, <1>3, <1>4, <2>1, <2>2
    <3>4. /\ a \in Nat /\ id \in Nat /\ c \in Nat /\ d \in Nat /\ W \in Nat
          /\ SnRange \in Nat /\ 2 * W + 2 < SnRange /\ a - id <= W
      BY <1>1, <1>2, <1>3, <2>1, <3>1, Zenon
    <3> DEFINE y == a - id
    <3>5. y \in Int /\ y <= W /\ d - c <= y + 1
      BY <3>2, <3>4
    <3> HIDE DEF c, y
    <3> QED  BY <3>3, <3>4, <3>5
  <2>3. CASE a < id
    <3>1. id - a <= W /\ id - a < SnRange - 1
      BY <1>1, <1>2, <1>3
    <3>2. a <= id
      BY <1>2, <1>3, <2>3
    <3>3. c - d <= id - a + 1
      BY <1>5, <2>1, <3>1, <3>2, Zenon
    <3>4. d < c
      BY <1>4, <2>1, <2>3, Zenon
    <3>5. /\ a \in Nat /\ id \in Nat /\ c \in Nat /\ d \in Nat /\ W \in Nat
          /\ SnRange \in Nat /\ 2 * W + 2 < SnRange /\ id - a <= W
      BY <1>1, <1>2, <1>3, <2>1, <3>1, Zenon
    <3> DEFINE y == id - a
    <3>6. y \in Int /\ y <= W /\ c - d <= y + 1
      BY <3>3, <3>5
    <3> HIDE DEF y
    <3> QED  BY <3>4, <3>5, <3>6
  <2> QED  BY <1>2, <1>3, <2>2, <2>3
<1>7. RECV_COUNT(d, c % SnRange) = c
  BY <1>6, RecvCount
<1>8. c % SnRange = PDCP_ADDHDR(id)
  BY <1>2, CountedFacts, Zenon DEF c
<1>9. RECV_COUNT(d, PDCP_ADDHDR(id)) = c
  BY <1>7, <1>8, Zenon
<1>10. c < d <=> id < a
  BY <1>2, <1>3, <1>4 DEF c
<1> QED  BY <1>2, <1>3, <1>4, <1>9, <1>10 DEF c, d, a

LEMMA SortedOne ==
    ASSUME NEW e, e.count \in Int
    PROVE  Sorted({e}) = << e >> /\ HeadOf({e}) = e
<1>1. Cardinality({e}) = 1
  BY FS_Singleton
<1>2. Sorted({e}) \in [1 .. 1 -> {e}]
  <2> DEFINE q == << e >>
  <2>1. q \in [1 .. 1 -> {e}]
    OBVIOUS
  <2>2. \A i, j \in DOMAIN q : i < j => q[i].count <= q[j].count /\ q[i] # q[j]
    BY <2>1
  <2> HIDE DEF q
  <2> QED  BY <1>1, <2>1, <2>2 DEF Sorted
<1> DEFINE s == Sorted({e})
<1>3. s = << e >>
  <2> HIDE DEF s
  <2> QED  BY <1>2 DEF s
<1> QED  BY <1>3 DEF HeadOf

\* What PDCP does with an SDU: it is late, or handed up.
Late(r, id) == [r EXCEPT !.late = @ \cup {id}]
Up(r, id, bytes) ==
    [segments |-> r.segments, RX_DELIV |-> Counted(id),
     RX_NEXT |-> IF Counted(id) >= r.RX_NEXT THEN Counted(id) + 1 ELSE r.RX_NEXT,
     receive |-> {}, handed |-> Append(r.handed, [id |-> id, len |-> bytes]),
     late |-> r.late]

Enqueued(r, id, p, m) ==
    [r EXCEPT !.receive = {[count |-> id, p |-> p]}, !.RX_DELIV = id, !.RX_NEXT = m]

LEMMA DeliverOne ==
    ASSUME NEW Q, NEW r \in UeState(Q), NEW id \in Nat, NEW p, NEW m \in Nat
    PROVE  DeliverSDUToUpperLayer(Enqueued(r, id, p, m), id) =
              [segments |-> r.segments, RX_DELIV |-> id, RX_NEXT |-> m, receive |-> {},
               handed |-> Append(r.handed, p), late |-> r.late]
<1> DEFINE e == [count |-> id, p |-> p]
           t == Enqueued(r, id, p, m)
           run == {f \in t.receive :
                      \A c \in t.RX_DELIV .. f.count : \E g \in t.receive : g.count = c}
           up == IF isoutOfOrderDelivery THEN {HeadOf(t.receive)}
                 ELSE IF id = t.RX_DELIV THEN run ELSE {}
           order == Sorted(up)
           rest == t.receive \ up
           gap == ~isoutOfOrderDelivery /\ id = t.RX_DELIV /\ rest # {}
           v == [t EXCEPT !.receive = rest,
                          !.handed = @ \o [i \in DOMAIN order |-> order[i].p],
                          !.RX_DELIV = IF gap THEN HeadOf(rest).count ELSE @]
<1>1. DeliverSDUToUpperLayer(t, id) = v
  BY DEF DeliverSDUToUpperLayer
<1>2. e.count = id /\ e.p = p
  OBVIOUS
<1>3. t = [segments |-> r.segments, RX_DELIV |-> id, RX_NEXT |-> m, receive |-> {e},
           handed |-> r.handed, late |-> r.late]
  <2>1. r = [segments |-> r.segments, RX_DELIV |-> r.RX_DELIV, RX_NEXT |-> r.RX_NEXT,
             receive |-> r.receive, handed |-> r.handed, late |-> r.late]
    BY DEF UeState
  <2> DEFINE a == r.segments
             b == r.RX_DELIV
             c == r.RX_NEXT
             d == r.receive
             h == r.handed
             l == r.late
  <2>2. r = [segments |-> a, RX_DELIV |-> b, RX_NEXT |-> c, receive |-> d, handed |-> h,
             late |-> l]
    BY <2>1, Zenon
  <2> HIDE DEF e, a, b, c, d, h, l
  <2> DEFINE x == {e}
  <2>3. t = [r EXCEPT !.receive = x, !.RX_DELIV = id, !.RX_NEXT = m]
    BY Zenon DEF Enqueued, e
  <2> HIDE DEF x, t
  <2>4. t = [segments |-> a, RX_DELIV |-> id, RX_NEXT |-> m, receive |-> x, handed |-> h,
             late |-> l]
    BY <2>2, <2>3
  <2> QED  BY <2>4, Zenon DEF a, h, l, x
<1> HIDE DEF e, t
<1>4. /\ t.receive = {e} /\ t.RX_DELIV = id /\ t.RX_NEXT = m /\ t.handed = r.handed
      /\ t.late = r.late /\ t.segments = r.segments
  BY <1>3
<1>5. HeadOf({e}) = e /\ Sorted({e}) = << e >>
  BY <1>2, SortedOne
<1>6. run = {e}
  <2>1. \A c \in id .. id : c = id
    OBVIOUS
  <2> QED  BY <1>2, <1>4, <2>1
<1>7. up = {e}
  <2> HIDE DEF run
  <2> QED  BY <1>4, <1>5, <1>6
<1> HIDE DEF run, up
<1>8. rest = {} /\ ~gap /\ order = << e >>
  BY <1>4, <1>5, <1>7
<1>9. [i \in DOMAIN order |-> order[i].p] = << p >>
  BY <1>2, <1>8
<1> DEFINE o == [i \in DOMAIN order |-> order[i].p]
<1> HIDE DEF rest, gap, order
<1>10. v = [t EXCEPT !.receive = {}, !.handed = t.handed \o << p >>, !.RX_DELIV = t.RX_DELIV]
  BY <1>8, <1>9
<1>11. t.handed \o << p >> = Append(r.handed, p)
  BY <1>4 DEF UeState
<1> DEFINE w == Append(r.handed, p)
<1>12. v = [t EXCEPT !.receive = {}, !.handed = w, !.RX_DELIV = id]
  BY <1>4, <1>10, <1>11
<1> HIDE DEF v, w
<1>13. v = [segments |-> r.segments, RX_DELIV |-> id, RX_NEXT |-> m, receive |-> {},
            handed |-> w, late |-> r.late]
  BY <1>3, <1>12
<1> QED  BY <1>1, <1>13 DEF w, t
\* An SDU accepted is given up as late or handed up: nothing else happens.
LEMMA PdcpResult ==
    ASSUME NEW r, NEW Q, SaneUe(r, Q), Len(size) \in 0 .. MaxSdus,
           NEW id \in Accepted, Recent(id), NEW bytes
    PROVE  ReceivePDCPSDU(r, id, bytes) =
              IF id < At(r) THEN Late(r, id) ELSE Up(r, id, bytes)
<1> DEFINE count == RECV_COUNT(r.RX_DELIV, PDCP_ADDHDR(id))
           c == Counted(id)
           p == [id |-> id, len |-> bytes]
           s == RXBUFFER_ENQUEUE(r, count, p)
           t == [s EXCEPT !.RX_NEXT = IF count >= @ THEN count + 1 ELSE @]
<1>1. ReceivePDCPSDU(r, id, bytes) =
         IF ISDUPLICATEPDU(r, count) THEN [r EXCEPT !.late = @ \cup {id}]
         ELSE DeliverSDUToUpperLayer(t, count)
  BY DEF ReceivePDCPSDU
<1>2. r \in UeState(Q) /\ r.RX_DELIV \in Nat /\ r.RX_NEXT \in Nat /\ r.receive = {}
  BY DEF SaneUe, UeState
<1>3. count = c /\ c \in Nat /\ (c < r.RX_DELIV <=> id < At(r))
  BY CloseCounts
<1> HIDE DEF count, c
<1>4. CASE id < At(r)
  BY <1>1, <1>3, <1>4 DEF ISDUPLICATEPDU, Late
<1>5. CASE ~(id < At(r))
  <2> DEFINE e == [count |-> c, p |-> p]
             m == IF c >= r.RX_NEXT THEN c + 1 ELSE r.RX_NEXT
             w == [r EXCEPT !.receive = {e}, !.RX_DELIV = c, !.RX_NEXT = m]
  <2>1. m \in Nat
    BY <1>2, <1>3
  <2>2. HeadOf({e}).count = c
    <3>1. e.count = c /\ e.count \in Int
      BY <1>3
    <3> HIDE DEF e
    <3> QED  BY <3>1, SortedOne
  <2>3. s = [r EXCEPT !.receive = {e}, !.RX_DELIV = c]
    <3>1. r.receive \cup {[count |-> count, p |-> p]} = {e}
      BY <1>2, <1>3
    <3> HIDE DEF e, p
    <3> QED  BY <2>2, <3>1 DEF RXBUFFER_ENQUEUE
  <2>4. s.RX_NEXT = r.RX_NEXT
    <3> HIDE DEF e, s
    <3> QED  BY <1>2, <2>3 DEF UeState
  <2>5. t = [s EXCEPT !.RX_NEXT = m]
    <3> HIDE DEF s
    <3> QED  BY <1>3, <2>4
  <2>6. t = w
    <3> DEFINE x == {e}
    <3>1. s = [r EXCEPT !.receive = x, !.RX_DELIV = c] /\ t = [s EXCEPT !.RX_NEXT = m]
          /\ w = [r EXCEPT !.receive = x, !.RX_DELIV = c, !.RX_NEXT = m]
      BY <2>3, <2>5
    <3> HIDE DEF x, s, m, t, w
    <3> QED  BY <1>2, <3>1 DEF UeState
  <2>7. DeliverSDUToUpperLayer(w, c) =
           [segments |-> r.segments, RX_DELIV |-> c, RX_NEXT |-> m, receive |-> {},
            handed |-> Append(r.handed, p), late |-> r.late]
    <3>1. w = Enqueued(r, c, p, m)
      BY DEF Enqueued
    <3> HIDE DEF m, p, w
    <3>2. r \in UeState(Q) /\ c \in Nat /\ m \in Nat
      BY <1>2, <1>3, <2>1
    <3>3. DeliverSDUToUpperLayer(Enqueued(r, c, p, m), c) =
             [segments |-> r.segments, RX_DELIV |-> c, RX_NEXT |-> m, receive |-> {},
              handed |-> Append(r.handed, p), late |-> r.late]
      BY <3>2, DeliverOne
    <3> QED  BY <3>1, <3>3, Zenon
  <2>8. ReceivePDCPSDU(r, id, bytes) = DeliverSDUToUpperLayer(w, c)
    <3> HIDE DEF t, w
    <3> QED  BY <1>1, <1>3, <1>5, <2>6 DEF ISDUPLICATEPDU
  <2> HIDE DEF w
  <2> QED  BY <1>5, <2>7, <2>8 DEF Up, c
<1> QED  BY <1>4, <1>5

LEMMA PdcpLemma ==
    ASSUME NEW r, NEW Q, SaneUe(r, Q), Len(size) \in 0 .. MaxSdus,
           NEW id \in Accepted, Recent(id), NEW bytes \in Int
    PROVE  /\ SaneUe(ReceivePDCPSDU(r, id, bytes), Q)
           /\ ReceivePDCPSDU(r, id, bytes).segments = r.segments
<1> DEFINE c == Counted(id)
<1>0. /\ First \in Nat /\ id \in Nat /\ id <= First + Len(size) /\ Recent(id + 1)
      /\ [id |-> id, len |-> bytes] \in Sdu
  BY ConstantFacts DEF Accepted, Sdu, Recent
<1>1. r \in UeState(Q) /\ Near(r) /\ Agree(r) /\ Filed(r)
  BY DEF SaneUe
<1>2. CASE id < At(r)
  <2> DEFINE t == Late(r, id)
  <2>1. /\ t \in UeState(Q) /\ t.segments = r.segments /\ t.RX_DELIV = r.RX_DELIV
        /\ t.RX_NEXT = r.RX_NEXT /\ t.handed = r.handed
    BY <1>1 DEF Late, UeState
  <2> HIDE DEF t
  <2>2. SaneUe(t, Q)
    BY <1>1, <2>1 DEF SaneUe, Near, At, Agree, Filed
  <2> QED  BY <1>2, <2>1, <2>2, PdcpResult DEF t
<1>3. CASE ~(id < At(r))
  <2> DEFINE t == Up(r, id, bytes)
             p == [id |-> id, len |-> bytes]
             h == Append(r.handed, p)
             m == IF c >= r.RX_NEXT THEN c + 1 ELSE r.RX_NEXT
  <2>1. /\ r.handed \in Seq(Sdu) /\ r.RX_NEXT \in Nat /\ r.RX_DELIV \in Nat
        /\ r.segments \in [Sns -> Seq(Q)] /\ r.late \in SUBSET Accepted
    BY <1>1 DEF UeState
  <2>2. h \in Seq(Sdu) /\ h # << >> /\ Last(h) = p /\ p.id = id
    <3>1. p \in Sdu /\ p.id = id
      BY <1>0
    <3> HIDE DEF p
    <3>2. /\ h \in Seq(Sdu) /\ Len(h) = Len(r.handed) + 1 /\ h[Len(r.handed) + 1] = p
          /\ Len(r.handed) \in Nat
      BY <2>1, <3>1, AppendProperties, LenProperties
    <3> HIDE DEF h
    <3>3. Len(h) # 0
      BY <3>2
    <3>4. h # << >>
      BY <3>3
    <3> QED  BY <3>1, <3>2, <3>4 DEF Last
  <2>3. c \in Nat /\ r.RX_DELIV <= c
    BY <1>3, <2>1, CloseCounts
  <2> HIDE DEF c
  <2>4. m \in Nat /\ m = c + 1
    BY <1>1, <2>1, <2>3 DEF Agree
  <2> HIDE DEF h, m, p
  <2>5. t = [segments |-> r.segments, RX_DELIV |-> c, RX_NEXT |-> m, receive |-> {},
             handed |-> h, late |-> r.late]
    BY DEF Up, h, m, p, c
  <2> HIDE DEF t
  <2>6. /\ t \in UeState(Q) /\ t.segments = r.segments /\ t.RX_DELIV = c /\ t.RX_NEXT = m
        /\ t.handed = h
    BY <1>0, <2>1, <2>2, <2>3, <2>4, <2>5 DEF UeState
  <2>7. At(t) = id
    BY <2>2, <2>6 DEF At
  <2>8. Near(t)
    BY <1>0, <2>6, <2>7 DEF Near, c
  <2>9. Agree(t) /\ Filed(t)
    BY <1>1, <2>2, <2>4, <2>6 DEF Agree, Filed
  <2>10. SaneUe(t, Q)
    BY <2>6, <2>8, <2>9 DEF SaneUe
  <2> QED  BY <1>3, <2>6, <2>10, PdcpResult DEF t
<1> QED  BY <1>2, <1>3
-----------------------------------------------------------------------------
(* RLC of the UE. *)

LEMMA SeqMono ==
    ASSUME NEW S, NEW T, S \subseteq T, NEW s \in Seq(S)
    PROVE  s \in Seq(T)
<1>1. Len(s) \in Nat /\ \A i \in 1 .. Len(s) : s[i] \in T
  BY LenProperties, ElementOfSeq
<1>2. s = [i \in 1 .. Len(s) |-> s[i]]
  BY <1>1
<1> QED  BY <1>1, <1>2, IsSeq

LEMMA ToSetFacts ==
    ASSUME NEW S, NEW s \in Seq(S)
    PROVE  /\ ToSet(s) \subseteq S
           /\ \A x : x \in ToSet(s) <=> \E i \in 1 .. Len(s) : x = s[i]
<1>1. DOMAIN s = 1 .. Len(s) /\ \A i \in 1 .. Len(s) : s[i] \in S
  BY LenProperties, ElementOfSeq
<1>2. ToSet(s) = {s[i] : i \in DOMAIN s}
  BY DEF ToSet
<1> QED  BY <1>1, <1>2

\* A PDU that may arrive: a segment has an SN that the reception buffers know,
\* and its SDU is not far from those PDCP has handed up.
Numbered(p) == (p.si = "ALL" \/ p.sn \in Sns) /\ Recent(p.id)
OneSn(Q) == \A x, y \in Q : x.si # "ALL" /\ y.si # "ALL" /\ x.sn = y.sn => x.id = y.id

LEMMA PlaceLemma ==
    ASSUME NEW r, NEW Q, SaneUe(r, Q), Q \subseteq Pdu, OneSn(Q), Len(size) \in 0 .. MaxSdus,
           NEW p \in Q, Numbered(p), p.si # "ALL"
    PROVE  SaneUe(PLACE_IN_RECEPTIONBUFFER(r, p), Q)
<1> DEFINE sn == p.sn
           old == r.segments[sn]
           segs == Append(old, p)
           id == Head(segs).id
           bytes == Payload(segs)
           x == [r EXCEPT !.segments[sn] = << >>]
           y == [r EXCEPT !.segments[sn] = segs]
<1>1. PLACE_IN_RECEPTIONBUFFER(r, p) =
         IF AllByteSegmentReceived(ToSet(segs)) THEN ReceivePDCPSDU(x, id, bytes) ELSE y
  BY DEF PLACE_IN_RECEPTIONBUFFER, ReassembleAllBytes
<1>2. r \in UeState(Q) /\ r.segments \in [Sns -> Seq(Q)] /\ sn \in Sns /\ old \in Seq(Q)
  BY DEF SaneUe, UeState, Numbered
<1>13. \A z \in ToSet(old) : z \in Q /\ z.sn = sn /\ z.si # "ALL"
  <2>1. ToSet(old) \subseteq Q
    BY <1>2, ToSetFacts
  <2> QED  BY <1>2, <2>1 DEF SaneUe, Filed
<1> HIDE DEF old
<1>3. /\ segs \in Seq(Q) /\ Len(segs) \in Nat /\ Len(segs) >= 1
      /\ Len(segs) = Len(old) + 1 /\ Len(old) \in Nat /\ segs[Len(old) + 1] = p
      /\ \A i \in 1 .. Len(old) : segs[i] = old[i]
  BY <1>2, AppendProperties, LenProperties
<1> HIDE DEF segs
<1>14. \A i \in 1 .. Len(segs) : segs[i] \in Q /\ segs[i].sn = sn /\ segs[i].si # "ALL"
  <2> TAKE i \in 1 .. Len(segs)
  <2>1. CASE i = Len(old) + 1
    BY <1>3, <2>1
  <2>2. CASE i # Len(old) + 1
    <3>1. i \in 1 .. Len(old)
      BY <1>3, <2>2
    <3>2. segs[i] \in ToSet(old)
      BY <1>2, <1>3, <3>1, ToSetFacts
    <3> QED  BY <1>13, <3>2
  <2> QED  BY <2>1, <2>2
<1>15. \A z \in ToSet(segs) : z.sn = sn /\ z.si # "ALL"
  BY <1>3, <1>14, ToSetFacts
<1>4. id \in Accepted /\ bytes \in Int /\ id = p.id
  <2>1. 1 \in 1 .. Len(segs) /\ Head(segs) = segs[1]
    BY <1>3
  <2>2. Head(segs) \in Q /\ Head(segs).sn = sn /\ Head(segs).si # "ALL"
    BY <1>14, <2>1, Zenon
  <2>3. segs \in Seq(Pdu)
    BY <1>3, SeqMono
  <2>4. Payload(segs) \in Int
    BY <2>3, SizedSeq, PayloadSame
  <2>5. Head(segs).id = p.id
    BY <2>2 DEF OneSn
  <2>6. Head(segs).id \in Accepted
    BY <2>2 DEF Pdu
  <2> QED  BY <2>4, <2>5, <2>6
<1>12. Recent(id)
  BY <1>4, Zenon DEF Numbered
<1> HIDE DEF id, bytes, sn
<1>5. ASSUME NEW q \in Seq(Q), \A z \in ToSet(q) : z.sn = sn /\ z.si # "ALL",
             NEW z, z = [r EXCEPT !.segments[sn] = q]
      PROVE  SaneUe(z, Q)
  <2>1. /\ z \in UeState(Q) /\ z.RX_DELIV = r.RX_DELIV /\ z.RX_NEXT = r.RX_NEXT
        /\ z.handed = r.handed
    BY <1>2, <1>5 DEF UeState
  <2>2. ASSUME NEW n \in Sns PROVE z.segments[n] = IF n = sn THEN q ELSE r.segments[n]
    BY <1>2, <1>5 DEF UeState
  <2>3. Filed(z)
    <3> SUFFICES ASSUME NEW n \in Sns, NEW e \in ToSet(z.segments[n])
                 PROVE  e.sn = n /\ e.si # "ALL"
      BY DEF Filed
    <3>1. CASE n = sn
      BY <1>5, <2>2, <3>1
    <3>2. CASE n # sn
      BY <2>2, <3>2 DEF SaneUe, Filed
    <3> QED  BY <3>1, <3>2
  <2> QED  BY <2>1, <2>3 DEF SaneUe, Near, At, Agree
<1>6. SaneUe(x, Q) /\ SaneUe(y, Q)
  <2>1. << >> \in Seq(Q) /\ ToSet(<< >>) = {}
    BY DEF ToSet
  <2>2. SaneUe(x, Q)
    BY <1>5, <2>1
  <2> QED  BY <1>3, <1>5, <1>15, <2>2
<1> HIDE DEF x, y
<1>7. SaneUe(ReceivePDCPSDU(x, id, bytes), Q)
  BY <1>4, <1>6, <1>12, PdcpLemma
<1> QED  BY <1>1, <1>6, <1>7

LEMMA ReceiveLemma ==
    ASSUME NEW r, NEW Q, SaneUe(r, Q), Q \subseteq Pdu, OneSn(Q), Len(size) \in 0 .. MaxSdus,
           NEW p \in Q, Numbered(p)
    PROVE  SaneUe(RECEIVE_PDU(r, p), Q)
<1>1. CASE p.si = "ALL"
  <2>1. p.id \in Accepted /\ p.len \in Int /\ Recent(p.id)
    BY DEF Pdu, Numbered
  <2>2. SaneUe(ReceivePDCPSDU(r, p.id, p.len), Q)
    BY <2>1, PdcpLemma
  <2> QED  BY <1>1, <2>2 DEF RECEIVE_PDU
<1>2. CASE p.si # "ALL"
  <2>1. SaneUe(PLACE_IN_RECEPTIONBUFFER(r, p), Q)
    BY <1>2, PlaceLemma
  <2> QED  BY <1>2, <2>1 DEF RECEIVE_PDU
<1> QED  BY <1>1, <1>2

\* The loop of macIn, as the recursive definition of Received says.
After(g, r, q, n) == g = [i \in 0 .. n |-> IF i = 0 THEN r ELSE RECEIVE_PDU(g[i - 1], q[i])]

LEMMA AfterExists ==
    ASSUME NEW r, NEW q, NEW n \in Nat
    PROVE  \E g : After(g, r, q, n)
<1> DEFINE D == {i \in Nat : ~(\E g : After(g, r, q, i))}
<1>1. SUFFICES ASSUME D # {} PROVE FALSE
  OBVIOUS
<1>2. PICK k \in D : \A j \in D : k <= j
  BY <1>1, LeastIndex
<1>3. CASE k = 0
  <2> DEFINE g == [i \in 0 .. 0 |-> r]
  <2>1. g = [i \in 0 .. 0 |-> IF i = 0 THEN r ELSE RECEIVE_PDU(g[i - 1], q[i])]
    OBVIOUS
  <2> QED  BY <1>3, <2>1 DEF After
<1>4. CASE k # 0
  <2>1. k - 1 \in Nat /\ k - 1 \notin D
    BY <1>2, <1>4
  <2>2. PICK g : After(g, r, q, k - 1)
    BY <2>1
  <2> DEFINE h == [i \in 0 .. k |-> IF i = k THEN RECEIVE_PDU(g[k - 1], q[k]) ELSE g[i]]
  <2>3. \A i \in 0 .. k - 1 : g[i] = IF i = 0 THEN r ELSE RECEIVE_PDU(g[i - 1], q[i])
    BY <2>1, <2>2 DEF After
  <2>4. ASSUME NEW i \in 0 .. k
        PROVE  h[i] = IF i = 0 THEN r ELSE RECEIVE_PDU(h[i - 1], q[i])
    <3>1. CASE i = 0
      BY <1>4, <2>1, <2>3, <3>1
    <3>2. CASE i # 0
      <4>1. i - 1 \in 0 .. k /\ i - 1 # k /\ i - 1 \in 0 .. k - 1
        BY <2>1, <3>2
      <4>2. h[i - 1] = g[i - 1]
        BY <4>1
      <4>3. CASE i = k
        BY <3>2, <4>2, <4>3
      <4>4. CASE i # k
        <5>1. i \in 0 .. k - 1
          BY <2>1, <4>4
        <5>2. h[i] = g[i]
          BY <4>4
        <5> QED  BY <2>3, <3>2, <4>2, <5>1, <5>2
      <4> QED  BY <4>3, <4>4
    <3> QED  BY <3>1, <3>2
  <2>5. h = [i \in 0 .. k |-> h[i]]
    OBVIOUS
  <2> HIDE DEF h
  <2>6. h = [i \in 0 .. k |-> IF i = 0 THEN r ELSE RECEIVE_PDU(h[i - 1], q[i])]
    BY <2>4, <2>5
  <2> QED  BY <1>2, <2>6 DEF After
<1> QED  BY <1>3, <1>4

LEMMA ReceivedLemma ==
    ASSUME NEW r, NEW Q, SaneUe(r, Q), Q \subseteq Pdu, OneSn(Q), Len(size) \in 0 .. MaxSdus,
           NEW pkts \in Seq(Q), \A i \in 1 .. Len(pkts) : Numbered(pkts[i])
    PROVE  SaneUe(Received(r, pkts), Q)
<1> DEFINE n == Len(pkts)
           g == CHOOSE g : After(g, r, pkts, n)
           D == {i \in 0 .. n : ~SaneUe(g[i], Q)}
<1>1. n \in Nat /\ \A i \in 1 .. n : pkts[i] \in Q
  BY LenProperties, ElementOfSeq
<1>2. Received(r, pkts) = g[n]
  BY DEF Received, After
<1>3. After(g, r, pkts, n)
  BY <1>1, AfterExists
<1> HIDE DEF g
<1>4. g = [i \in 0 .. n |-> IF i = 0 THEN r ELSE RECEIVE_PDU(g[i - 1], pkts[i])]
  BY <1>3 DEF After
<1>5. g[0] = r /\ \A i \in 1 .. n : g[i] = RECEIVE_PDU(g[i - 1], pkts[i])
  BY <1>1, <1>4
<1>6. SUFFICES ASSUME D # {} PROVE FALSE
  BY <1>1, <1>2
<1>7. PICK k \in D : \A j \in D : k <= j
  <2>1. D \in SUBSET Nat
    BY <1>1
  <2> HIDE DEF D
  <2> QED  BY <1>6, <2>1, LeastIndex
<1>8. k # 0
  BY <1>5, <1>7
<1>9. k \in 1 .. n /\ k - 1 \in 0 .. n /\ k - 1 \notin D
  BY <1>1, <1>7, <1>8
<1>10. SaneUe(g[k - 1], Q)
  BY <1>9
<1>11. SaneUe(RECEIVE_PDU(g[k - 1], pkts[k]), Q)
  BY <1>1, <1>9, <1>10, ReceiveLemma
<1> QED  BY <1>5, <1>7, <1>9, <1>11
-----------------------------------------------------------------------------
(***************************************************************************)
(* The inductive invariant.  The PDUs that exist outside the buffer of the *)
(* sender are those that a HARQ process holds (Waiting), those of a MAC_IN *)
(* event (Flying) and those of the reception buffers (Held).  The SN of a  *)
(* segment was given up by the sender, or is that of the SDU at the head   *)
(* of its buffer, of which a part has been sent (Fresh); so no other SDU   *)
(* can get it (Unique).  A new SN needs an SDU that leaves the buffer.     *)
(* What is still to reach the UE is not far behind the sender (InWindow).  *)
(***************************************************************************)
SenderOK ==
    /\ size \in Seq(Sizes) /\ Len(size) <= MaxSdus
    /\ copies \in 0 .. Len(size) /\ discardTimer \in BOOLEAN
    /\ txBuf \in Seq(Packet) /\ TX_Next \in Nat

HarqOK ==
    /\ current \in 0 .. maxProcessCount
    /\ process \in [Processes -> [pkts : Seq(Pdu), n : Nat]]
    /\ \A p \in Processes : process[p].n = 0 \/ process[p].n \in 1 .. retryLimit - 1
    /\ air \in Seq([cell : 0 .. cell, pkts : Seq(Pdu)])
    /\ cell \in 0 .. MaxHandovers
    /\ lost \subseteq Accepted

Waiting == UNION {ToSet(process[q].pkts) : q \in Processes}
Flying == UNION {ToSet(tb.pkts) : tb \in ToSet(air)}
Held == UNION {ToSet(rx.segments[n]) : n \in Sns}
Segments == {p \in Held \cup Waiting \cup Flying : p.si # "ALL"}

Begun(id) == Len(txBuf) > 0 /\ txBuf[1].so > 0 /\ txBuf[1].id = id
Fresh ==
    \A p \in Segments : /\ p.sn \in Sns
                        /\ p.sn < TX_Next \/ (p.sn = TX_Next /\ Begun(p.id))
Unique == \A p, q \in Segments : p.sn = q.sn => p.id = q.id
SnOK ==
    /\ TX_Next + Len(txBuf) <= Len(size)
    /\ \A i \in 2 .. Len(txBuf) : txBuf[i].so = 0
    /\ Fresh /\ Unique

PendingRecent == \A c \in Pending : Recent(c)

IInv ==
    /\ SenderOK /\ TimerHasPacket /\ BufferStatusIsPayload
    /\ HarqOK /\ SaneUe(rx, Pdu) /\ SnOK /\ PendingRecent

\* An SDU more leaves everything in its type.
LEMMA Widened ==
    ASSUME Accepted \subseteq Accepted'
    PROVE  /\ Packet \subseteq Packet' /\ Pdu \subseteq Pdu'
           /\ \A s : s \in Seq(Packet) => s \in Seq(Packet')
           /\ \A s : s \in Seq(Pdu) => s \in Seq(Pdu')
           /\ \A s : s \in Seq(Sdu) => s \in Seq(Sdu')
<1>1. Packet \subseteq Packet' /\ Pdu \subseteq Pdu' /\ Sdu \subseteq Sdu'
  BY DEF Packet, Pdu, Sdu
<1> QED  BY <1>1, SeqMono

LEMMA HarqWidened ==
    ASSUME HarqOK, Accepted \subseteq Accepted', UNCHANGED <<harq, air, cell, lost>>
    PROVE  HarqOK'
<1>1. \A s : s \in Seq(Pdu) => s \in Seq(Pdu')
  BY Widened
<1>2. /\ process' = process /\ air' = air /\ cell' = cell /\ lost' = lost /\ current' = current
  BY DEF harq
<1>3. process' \in [Processes -> [pkts : Seq(Pdu'), n : Nat]]
  BY <1>1, <1>2 DEF HarqOK
<1>4. air' \in Seq([cell : 0 .. cell', pkts : Seq(Pdu')])
  <2> DEFINE S == [cell : 0 .. cell, pkts : Seq(Pdu)]
             T == [cell : 0 .. cell, pkts : Seq(Pdu')]
  <2>1. S \subseteq T
    BY <1>1
  <2>2. air \in Seq(S)
    BY DEF HarqOK
  <2> HIDE DEF S, T
  <2>3. air \in Seq(T)
    BY <2>1, <2>2, SeqMono
  <2> QED  BY <1>2, <2>3 DEF T
<1> QED  BY <1>2, <1>3, <1>4 DEF HarqOK, Processes

LEMMA UeWidened ==
    ASSUME SaneUe(rx, Pdu), Accepted \subseteq Accepted', rx' = rx, size' = size \/ Near(rx)'
    PROVE  SaneUe(rx, Pdu)'
<1>1. /\ \A s : s \in Seq(Pdu) => s \in Seq(Pdu')
      /\ \A s : s \in Seq(Sdu) => s \in Seq(Sdu')
  BY Widened
<1>2. rx' \in UeState(Pdu)'
  BY <1>1 DEF SaneUe, UeState, Sns
<1>3. Near(rx)'
  BY DEF SaneUe, Near, At, Recent
<1>4. Filed(rx)' /\ Agree(rx)'
  BY DEF SaneUe, Filed, Agree, Sns
<1> QED  BY <1>2, <1>3, <1>4 DEF SaneUe

LEMMA UeKept ==
    ASSUME SaneUe(rx', Pdu), UNCHANGED size
    PROVE  SaneUe(rx, Pdu)'
<1>1. Accepted' = Accepted /\ Pdu' = Pdu /\ Sdu' = Sdu
  BY DEF Accepted, Pdu, Sdu
<1>2. rx' \in UeState(Pdu)'
  BY <1>1 DEF SaneUe, UeState, Sns
<1>3. Near(rx)'
  BY DEF SaneUe, Near, At, Recent
<1>4. Filed(rx)' /\ Agree(rx)'
  BY DEF SaneUe, Filed, Agree, Sns
<1> QED  BY <1>2, <1>3, <1>4 DEF SaneUe

\* Where a segment is.
LEMMA SegmentsIn ==
    ASSUME HarqOK, SaneUe(rx, Pdu)
    PROVE  /\ Segments \subseteq Pdu
           /\ \A p : p \in Segments <=>
                 /\ p.si # "ALL"
                 /\ \/ \E n \in Sns : p \in ToSet(rx.segments[n])
                    \/ \E q \in Processes : p \in ToSet(process[q].pkts)
                    \/ \E j \in 1 .. Len(air) : p \in ToSet(air[j].pkts)
<1>1. /\ \A q \in Processes : process[q].pkts \in Seq(Pdu)
      /\ \A n \in Sns : rx.segments[n] \in Seq(Pdu)
  BY DEF HarqOK, SaneUe, UeState
<1>2. air \in Seq([cell : 0 .. cell, pkts : Seq(Pdu)])
  BY DEF HarqOK
<1>3. \A j \in 1 .. Len(air) : air[j].pkts \in Seq(Pdu)
  <2> DEFINE S == [cell : 0 .. cell, pkts : Seq(Pdu)]
  <2>1. \A j \in 1 .. Len(air) : air[j] \in S
    <3> HIDE DEF S
    <3> QED  BY <1>2, ElementOfSeq DEF S
  <2> QED  BY <2>1
<1>4. \A x : x \in Flying <=> \E j \in 1 .. Len(air) : x \in ToSet(air[j].pkts)
  BY <1>2, ToSetFacts DEF Flying
<1>5. \A x : x \in Waiting <=> \E q \in Processes : x \in ToSet(process[q].pkts)
  BY DEF Waiting
<1>6. \A x : x \in Held <=> \E n \in Sns : x \in ToSet(rx.segments[n])
  BY DEF Held
<1>7. Held \subseteq Pdu /\ Waiting \subseteq Pdu /\ Flying \subseteq Pdu
  BY <1>1, <1>3, <1>4, <1>5, <1>6, ToSetFacts
<1>8. Segments \subseteq Pdu
  BY <1>7 DEF Segments
<1> QED  BY <1>4, <1>5, <1>6, <1>8 DEF Segments
\* Segments that were there before keep the invariant about SNs, as long as the
\* sender goes on with the same SN and the same SDU.
LEMMA SnKept ==
    ASSUME SnOK, Segments' \subseteq Segments, TX_Next' = TX_Next,
           \A id : Begun(id) => Begun(id)',
           (TX_Next + Len(txBuf) <= Len(size))',
           (\A i \in 2 .. Len(txBuf) : txBuf[i].so = 0)'
    PROVE  SnOK'
<1>1. Fresh' /\ Unique'
  BY DEF SnOK, Fresh, Unique, Sns
<1> QED  BY <1>1 DEF SnOK

LEMMA IdsIn == \A s, c : c \in Ids(s) <=> \E x \in ToSet(s) : c = x.id
  BY DEF Ids

LEMMA IdsFacts ==
    ASSUME NEW s \in Seq(Pdu)
    PROVE  Ids(s) \subseteq Accepted
<1>1. ToSet(s) \subseteq Pdu
  BY ToSetFacts
<1> QED  BY <1>1 DEF Ids, Pdu

\* The SDUs that are pending.
LEMMA PendingIn ==
    ASSUME HarqOK
    PROVE  \A c : c \in Pending <=>
              \/ c \in Ids(txBuf)
              \/ \E q \in Processes : c \in Ids(process[q].pkts)
              \/ \E j \in 1 .. Len(air) : c \in Ids(air[j].pkts)
<1> DEFINE S == [cell : 0 .. cell, pkts : Seq(Pdu)]
<1>1. air \in Seq(S)
  BY DEF HarqOK
<1> HIDE DEF S
<1>2. \A tb : tb \in ToSet(air) <=> \E j \in 1 .. Len(air) : tb = air[j]
  BY <1>1, ToSetFacts
<1>3. \A c : c \in OnAir <=> \E j \in 1 .. Len(air) : c \in Ids(air[j].pkts)
  BY <1>2 DEF OnAir
<1>4. \A c : c \in InHarq <=> \E q \in Processes : c \in Ids(process[q].pkts)
  BY DEF InHarq
<1> QED  BY <1>3, <1>4 DEF Pending

LEMMA PendingAccepted ==
    ASSUME HarqOK, SenderOK
    PROVE  Pending \subseteq Accepted
<1> DEFINE S == [cell : 0 .. cell, pkts : Seq(Pdu)]
<1>1. Ids(txBuf) \subseteq Accepted
  <2>1. txBuf \in Seq(Packet)
    BY DEF SenderOK
  <2>2. ToSet(txBuf) \subseteq Packet
    BY <2>1, ToSetFacts
  <2> QED  BY <2>2 DEF Ids, Packet
<1>2. \A q \in Processes : Ids(process[q].pkts) \subseteq Accepted
  <2>1. \A q \in Processes : process[q].pkts \in Seq(Pdu)
    BY DEF HarqOK
  <2> QED  BY <2>1, IdsFacts
<1>3. \A j \in 1 .. Len(air) : Ids(air[j].pkts) \subseteq Accepted
  <2>1. air \in Seq(S)
    BY DEF HarqOK
  <2>2. \A x \in S : x.pkts \in Seq(Pdu)
    OBVIOUS
  <2> HIDE DEF S
  <2>3. \A j \in 1 .. Len(air) : air[j].pkts \in Seq(Pdu)
    BY <2>1, <2>2, ElementOfSeq
  <2> QED  BY <2>3, IdsFacts
<1> QED  BY <1>1, <1>2, <1>3, PendingIn

LEMMA RecentKept ==
    ASSUME PendingRecent, Pending' \subseteq Pending, size' = size
    PROVE  PendingRecent'
  BY DEF PendingRecent, Recent

LEMMA InitIInv == Init => IInv
<1> SUFFICES ASSUME Init PROVE IInv
  OBVIOUS
<1> USE DEF Init
<1>0. Len(<< >>) = 0 /\ \A S : << >> \in Seq(S)
  OBVIOUS
<1>1. SenderOK
  <2>1. << >> \in Seq(Sizes) /\ << >> \in Seq(Packet)
    OBVIOUS
  <2>2. 0 <= MaxSdus /\ 0 \in 0 .. 0
    BY ConstantFacts
  <2> QED  BY <1>0, <2>1, <2>2 DEF SenderOK
<1>2. TimerHasPacket
  BY DEF TimerHasPacket
<1>3. BufferStatusIsPayload
  <2>1. Payload(<< >>) % Word = 0
    BY PayloadShort, ConstantFacts
  <2> QED  BY <2>1 DEF BufferStatusIsPayload
<1>4. HarqOK
  <2>1. Idle \in [pkts : Seq(Pdu), n : Nat] /\ Idle.n = 0
    BY <1>0 DEF Idle
  <2>2. process \in [Processes -> [pkts : Seq(Pdu), n : Nat]] /\ \A p \in Processes : process[p].n = 0
    BY <2>1
  <2>3. air \in Seq([cell : 0 .. cell, pkts : Seq(Pdu)])
    BY <1>0
  <2>4. 0 \in 0 .. maxProcessCount /\ 0 \in 0 .. MaxHandovers
    BY ConstantFacts
  <2> QED  BY <2>2, <2>3, <2>4 DEF HarqOK
<1>5. SaneUe(rx, Pdu)
  <2> DEFINE a == IF First = 0 THEN 0 ELSE First - 1
             d == IF First = 0 THEN 0 ELSE Counted(First - 1)
             m == IF First = 0 THEN 0 ELSE Counted(First - 1) + 1
             f == [sn \in Sns |-> << >>]
  <2>1. /\ a \in Nat /\ First \in Nat /\ MaxUnderWay \in Nat
        /\ a <= First + 0 /\ First + 0 - MaxUnderWay <= a + 1
    BY ConstantFacts
  <2>2. d = Counted(a) /\ d \in Nat /\ m = (IF First = 0 THEN 0 ELSE d + 1) /\ m \in Nat
    <3>1. CASE First = 0
      <4>1. PICK q \in Nat, e \in 0 .. SnRange - 2 : 0 = (SnRange - 1) * q + e /\ Counted(0) = 0 + q
        BY CountedFacts
      <4>2. q = 0
        <5> DEFINE M == SnRange - 1
        <5>1. M \in Nat \ {0} /\ M * q + e = 0 /\ e \in Nat
          BY <4>1, ConstantFacts
        <5> HIDE DEF M
        <5>2. q > 0 => M * q > 0
          BY <5>1
        <5> DEFINE y == M * q
        <5>3. y \in Nat /\ y + e = 0 /\ (q > 0 => y > 0)
          BY <5>1, <5>2
        <5> HIDE DEF y
        <5> QED  BY <5>1, <5>3
      <4>3. Counted(0) = 0
        BY <4>1, <4>2
      <4> QED  BY <3>1, <4>3
    <3>2. CASE First # 0
      <4>1. First - 1 \in Nat
        BY <3>2, ConstantFacts
      <4>2. Counted(First - 1) \in Nat
        BY <4>1, CountedOrder
      <4> QED  BY <3>2, <4>2
    <3> QED  BY <3>1, <3>2
  <2>3. f \in [Sns -> Seq(Pdu)] /\ << >> \in Seq(Sdu)
    BY <1>0
  <2>4. rx = [segments |-> f, RX_DELIV |-> d, RX_NEXT |-> m, receive |-> {},
              handed |-> << >>, late |-> {}] /\ Len(size) = 0
    OBVIOUS
  <2>5. \A n \in Sns : ToSet(f[n]) = {}
    BY DEF ToSet
  <2> HIDE DEF a, d, m, f, Init
  <2>6. At(rx) = a
    BY <2>4 DEF At, a
  <2>7. Near(rx)
    BY <2>1, <2>2, <2>4, <2>6 DEF Near, Recent
  <2>8. Agree(rx) /\ Filed(rx)
    BY <2>2, <2>4, <2>5 DEF Agree, Filed
  <2> QED  BY <2>2, <2>3, <2>4, <2>7, <2>8 DEF SaneUe, UeState
<1>6. SnOK
  <2>1. \A p : p \notin Segments
    <3>1. /\ \A q \in Processes : process[q].pkts = << >>
          /\ \A n \in Sns : rx.segments[n] = << >>
          /\ air = << >>
      BY DEF Idle
    <3>2. \A x : x \notin ToSet(<< >>)
      BY DEF ToSet
    <3> HIDE DEF Init
    <3> QED  BY <1>0, <1>4, <1>5, <3>1, <3>2, SegmentsIn
  <2>2. 2 .. 0 = {}
    OBVIOUS
  <2> QED  BY <1>0, <2>1, <2>2 DEF SnOK, Fresh, Unique
<1>7. PendingRecent
  <2>1. \A c : c \notin Ids(<< >>)
    BY DEF Ids, ToSet
  <2>2. txBuf = << >> /\ air = << >> /\ \A q \in Processes : process[q].pkts = << >>
    BY DEF Idle
  <2> HIDE DEF Init
  <2>3. \A c : c \notin Pending
    BY <1>0, <1>4, <2>1, <2>2, PendingIn
  <2> QED  BY <2>3 DEF PendingRecent
<1> QED  BY <1>1, <1>2, <1>3, <1>4, <1>5, <1>6, <1>7 DEF IInv

LEMMA TransmitLemma ==
    ASSUME IInv, NEW n \in Sizes, TransmitPDCPSDU(n)
    PROVE  IInv'
<1> DEFINE L == Len(size)
           b == Len(txBuf)
           p == [id |-> First + Len(size), len |-> n, so |-> 0]
<1>0. /\ SenderOK /\ HarqOK /\ SaneUe(rx, Pdu) /\ SnOK /\ BufferStatusIsPayload
      /\ PendingRecent /\ InWindow
      /\ n \in Nat /\ First \in Nat /\ MaxSdus \in Nat /\ Word \in Nat \ {0}
  BY ConstantFacts DEF IInv, TransmitPDCPSDU
<1>1. /\ L < MaxSdus /\ size' = Append(size, n) /\ copies' = copies + 1 /\ discardTimer' = TRUE
      /\ txBuf' = Append(txBuf, p) /\ bufferStatus' = (bufferStatus + n) % Word
      /\ TX_Next' = TX_Next /\ rx' = rx
      /\ UNCHANGED <<harq, air, cell, lost>>
  BY DEF TransmitPDCPSDU
<1>2. size' \in Seq(Sizes) /\ Len(size') = L + 1 /\ L \in Nat
  BY <1>0, <1>1, AppendProperties, LenProperties DEF SenderOK
<1>3. Accepted \subseteq Accepted' /\ First + L \in Accepted'
  <2> HIDE DEF L
  <2>1. Accepted = First .. First + L - 1 /\ Accepted' = First .. First + (L + 1) - 1
    BY <1>2 DEF Accepted, L
  <2> QED  BY <1>0, <1>2, <2>1
<1>4. p \in Packet' /\ p.so = 0 /\ p.len = n
  BY <1>0, <1>3 DEF Packet
<1> HIDE DEF p
<1>5. txBuf \in Seq(Packet') /\ b \in Nat
  BY <1>0, <1>3, Widened, LenProperties DEF SenderOK
<1>6. /\ txBuf' \in Seq(Packet') /\ Len(txBuf') = b + 1 /\ txBuf'[b + 1] = p
      /\ \A i \in 1 .. b : txBuf'[i] = txBuf[i]
  BY <1>1, <1>4, <1>5, AppendProperties
<1>7. SenderOK'
  <2> HIDE DEF L, b
  <2>1. copies' \in 0 .. L + 1 /\ L + 1 <= MaxSdus
    BY <1>0, <1>1, <1>2 DEF SenderOK, L
  <2> QED  BY <1>0, <1>1, <1>2, <1>6, <2>1 DEF SenderOK
<1>8. TimerHasPacket'
  BY <1>0, <1>1, <1>2 DEF TimerHasPacket, SenderOK
<1>9. BufferStatusIsPayload'
  <2>1. Sized(txBuf)
    BY <1>0, SizedSeq DEF SenderOK
  <2>2. Len(One(n)) = 1 /\ One(n)[1].len = n /\ Sized(One(n)) /\ Payload(One(n)) = n
    BY <1>0, OneLemma
  <2>3. Sized(txBuf')
    <3>1. ASSUME NEW i \in 1 .. b + 1 PROVE txBuf'[i].len \in Int
      <4>1. CASE i = b + 1
        BY <1>0, <1>4, <1>6, <4>1
      <4>2. CASE i # b + 1
        <5>1. i \in 1 .. b
          BY <1>5, <4>2
        <5> QED  BY <1>6, <2>1, <5>1 DEF Sized
      <4> QED  BY <4>1, <4>2
    <3> QED  BY <1>5, <1>6, <3>1 DEF Sized
  <2>4. Joined(txBuf', txBuf, One(n))
    <3>1. \A i \in 1 .. 1 : i = 1
      OBVIOUS
    <3> QED  BY <1>4, <1>5, <1>6, <2>2, <3>1 DEF Joined
  <2> DEFINE P == Payload(txBuf)
  <2>5. P \in Int /\ Payload(txBuf') = P + n
    BY <2>1, <2>2, <2>3, <2>4, PayloadConcat
  <2>6. bufferStatus' = ((P % Word) + n) % Word
    BY <1>0, <1>1 DEF BufferStatusIsPayload
  <2> HIDE DEF P
  <2>7. bufferStatus' = (P + n) % Word
    <3>1. n \in Int
      BY <1>0
    <3>2. ((P % Word) + n) % Word = (P + n) % Word
      BY <1>0, <2>5, <3>1, ModAdd
    <3> QED  BY <2>6, <3>2, Zenon
  <2> QED  BY <2>5, <2>7 DEF BufferStatusIsPayload
<1>12. /\ LastHanded + 1 <= First + L /\ LastHanded \in Int /\ At(rx) >= LastHanded
       /\ At(rx) \in Nat /\ At(rx) <= First + L /\ rx.RX_DELIV = Counted(At(rx))
  <2> DEFINE h == rx.handed
  <2>1. At(rx) \in Nat /\ At(rx) <= First + L /\ rx.RX_DELIV = Counted(At(rx))
    BY <1>0, Zenon DEF SaneUe, Near
  <2>2. CASE h = << >>
    BY <1>0, <1>2, <2>1, <2>2 DEF LastHanded, At
  <2>3. CASE h # << >>
    <3>1. LastHanded = At(rx)
      BY <2>3 DEF LastHanded, At
    <3>2. h \in Seq(Sdu) /\ Len(h) \in Nat /\ Len(h) # 0
      <4>1. h \in Seq(Sdu)
        BY <1>0 DEF SaneUe, UeState
      <4> HIDE DEF h
      <4> QED  BY <2>3, <4>1, LenProperties, EmptySeq
    <3>3. Last(h) \in Sdu
      <4> HIDE DEF h
      <4> QED  BY <3>2, ElementOfSeq DEF Last
    <3>4. Last(h).id \in Accepted
      BY <3>3 DEF Sdu
    <3>5. LastHanded \in First .. First + L - 1
      BY <2>3, <3>4 DEF LastHanded, Accepted
    <3> HIDE DEF L
    <3> QED  BY <1>0, <1>2, <2>1, <3>1, <3>5
  <2> QED  BY <2>2, <2>3
<1>13. /\ First + L - (LastHanded + 1) < MaxUnderWay
       /\ \A c \in Pending : First + L - c < MaxUnderWay
  BY <1>0, Zenon DEF InWindow
<1>14. Near(rx)'
  <2> DEFINE a == At(rx)
             W == MaxUnderWay
             l == LastHanded
  <2>1. a' = a /\ rx'.RX_DELIV = Counted(a)
    BY <1>1, <1>12 DEF At
  <2>2. /\ a \in Nat /\ a <= First + L /\ a >= l /\ l \in Int /\ First + L - (l + 1) < W
        /\ W \in Nat
    BY <1>12, <1>13, ConstantFacts
  <2> HIDE DEF a, l, W, L
  <2>3. a <= First + (L + 1) /\ (First + (L + 1)) - W <= a + 1
    BY <1>0, <1>2, <2>2
  <2> QED  BY <1>2, <2>1, <2>2, <2>3 DEF Near, Recent, a, W, L
<1>10. HarqOK' /\ SaneUe(rx, Pdu)'
  BY <1>0, <1>1, <1>3, <1>14, HarqWidened, UeWidened
<1>15. PendingRecent'
  <2>0. MaxUnderWay \in Nat
    BY ConstantFacts
  <2>1. \A c \in Pending : c \in Nat
    <3>1. Accepted \subseteq Nat
      BY <1>0 DEF Accepted
    <3> QED  BY <1>0, <3>1, PendingAccepted
  <2>2. ASSUME NEW c \in Pending' PROVE c \in Pending \/ c = First + L
    <3>1. InHarq' = InHarq /\ OnAir' = OnAir
      BY <1>1 DEF InHarq, OnAir, harq, Processes
    <3>2. CASE c \in Ids(txBuf')
      <4>1. PICK x \in ToSet(txBuf') : c = x.id
        BY <3>2, IdsIn
      <4>2. PICK i \in 1 .. b + 1 : x = txBuf'[i]
        BY <1>6, <4>1, ToSetFacts
      <4>3. CASE i = b + 1
        BY <1>6, <4>1, <4>2, <4>3 DEF p
      <4>4. CASE i # b + 1
        <5>1. i \in 1 .. b /\ x = txBuf[i]
          BY <1>5, <1>6, <4>2, <4>4
        <5>2. x \in ToSet(txBuf)
          BY <1>5, <5>1, ToSetFacts
        <5> QED  BY <4>1, <5>2, IdsIn DEF Pending
      <4> QED  BY <4>3, <4>4
    <3> QED  BY <3>1, <3>2 DEF Pending
  <2> SUFFICES ASSUME NEW c \in Pending' PROVE (First + (L + 1)) - MaxUnderWay <= c
    BY <1>2 DEF PendingRecent, Recent
  <2> HIDE DEF L
  <2>3. CASE c \in Pending
    BY <1>0, <1>2, <1>13, <2>0, <2>1, <2>3
  <2>4. CASE c = First + L
    BY <1>0, <1>2, <1>12, <1>13, <2>0, <2>4
  <2> QED  BY <2>2, <2>3, <2>4
<1>11. SnOK'
  <2>1. Segments' = Segments
    BY <1>1 DEF Segments, Held, Waiting, Flying, harq, Sns, Processes
  <2>2. \A id : Begun(id) => Begun(id)'
    BY <1>5, <1>6 DEF Begun
  <2>3. TX_Next' + Len(txBuf') <= Len(size')
    BY <1>0, <1>1, <1>2, <1>5, <1>6 DEF SnOK, SenderOK
  <2>4. \A i \in 2 .. Len(txBuf') : txBuf'[i].so = 0
    <3> TAKE i \in 2 .. Len(txBuf')
    <3>1. CASE i = b + 1
      BY <1>4, <1>6, <3>1
    <3>2. CASE i # b + 1
      <4>1. i \in 1 .. b /\ i \in 2 .. Len(txBuf)
        BY <1>5, <1>6, <3>2
      <4> QED  BY <1>0, <1>6, <4>1 DEF SnOK
    <3> QED  BY <3>1, <3>2
  <2> QED  BY <1>0, <1>1, <2>1, <2>2, <2>3, <2>4, SnKept
<1> QED  BY <1>7, <1>8, <1>9, <1>10, <1>11, <1>15 DEF IInv

\* Nothing of the size of the SDUs changes.
LEMMA SameSdus ==
    ASSUME UNCHANGED size
    PROVE  Accepted' = Accepted /\ Packet' = Packet /\ Pdu' = Pdu /\ Sdu' = Sdu
  BY DEF Accepted, Packet, Pdu, Sdu

LEMMA DiscardLemma ==
    ASSUME IInv, NEW k \in 1 .. MaxSdus, HANDLE_DISCARD_TIMER(k)
    PROVE  IInv'
<1>0. SenderOK /\ HarqOK /\ SaneUe(rx, Pdu) /\ SnOK /\ BufferStatusIsPayload /\ PendingRecent
  BY DEF IInv
<1>1. /\ k \in 1 .. copies /\ copies' = copies - k /\ discardTimer' = (copies - k > 0)
      /\ size' = size /\ txBuf' = txBuf /\ TX_Next' = TX_Next /\ bufferStatus' = bufferStatus
      /\ rx' = rx /\ UNCHANGED <<harq, air, cell, lost>>
  BY DEF HANDLE_DISCARD_TIMER, RESET_DISCARD_TIMER, rlcTx
<1>2. Accepted' = Accepted /\ Packet' = Packet
  BY <1>1, SameSdus
<1>3. SenderOK'
  <2>1. Len(size) \in Nat /\ copies \in 0 .. Len(size)
    BY <1>0, LenProperties DEF SenderOK
  <2>2. copies' \in 0 .. Len(size)
    BY <1>1, <2>1
  <2> QED  BY <1>0, <1>1, <1>2, <2>2 DEF SenderOK
<1>4. TimerHasPacket'
  BY <1>1 DEF TimerHasPacket
<1>5. BufferStatusIsPayload'
  BY <1>0, <1>1 DEF BufferStatusIsPayload
<1>6. HarqOK' /\ SaneUe(rx, Pdu)'
  BY <1>0, <1>1, <1>2, HarqWidened, UeWidened
<1>7. SnOK'
  <2>1. Segments' = Segments
    BY <1>1 DEF Segments, Held, Waiting, Flying, harq, Sns, Processes
  <2>2. \A id : Begun(id) => Begun(id)'
    BY <1>1 DEF Begun
  <2> QED  BY <1>0, <1>1, <2>1, <2>2, SnKept DEF SnOK
<1>8. PendingRecent'
  <2>1. Pending' = Pending
    BY <1>1 DEF Pending, InHarq, OnAir, harq, Processes
  <2> QED  BY <1>0, <1>1, <2>1, RecentKept
<1> QED  BY <1>3, <1>4, <1>5, <1>6, <1>7, <1>8 DEF IInv

LEMMA HandoverLemma ==
    ASSUME IInv, GENERATE_HANDOVER_COMMAND_HANDLE
    PROVE  IInv'
<1>0. SenderOK /\ HarqOK /\ SaneUe(rx, Pdu) /\ SnOK /\ BufferStatusIsPayload /\ PendingRecent
  BY DEF IInv
<1>1. /\ cell < MaxHandovers /\ cell' = cell + 1 /\ current' = 0
      /\ process' = [p \in Processes |-> Idle]
      /\ lost' = lost \cup UNION {Ids(process[p].pkts) : p \in Processes}
      /\ discardTimer' = FALSE /\ copies' = copies
      /\ size' = size /\ txBuf' = txBuf /\ TX_Next' = TX_Next /\ bufferStatus' = bufferStatus
      /\ rx' = rx /\ air' = air
  BY DEF GENERATE_HANDOVER_COMMAND_HANDLE, UM_Transfer
<1>2. Accepted' = Accepted /\ Packet' = Packet /\ Pdu' = Pdu
  BY <1>1, SameSdus
<1>3. SenderOK'
  BY <1>0, <1>1, <1>2 DEF SenderOK
<1>4. TimerHasPacket'
  BY <1>1 DEF TimerHasPacket
<1>5. BufferStatusIsPayload'
  BY <1>0, <1>1 DEF BufferStatusIsPayload
<1>6. HarqOK'
  <2>1. Idle \in [pkts : Seq(Pdu), n : Nat] /\ Idle.n = 0
    BY DEF Idle
  <2>2. /\ process' \in [Processes -> [pkts : Seq(Pdu'), n : Nat]]
        /\ \A p \in Processes : process'[p].n = 0
    BY <1>1, <1>2, <2>1
  <2>3. cell \in Nat /\ cell' \in 0 .. MaxHandovers
    BY <1>0, <1>1, ConstantFacts DEF HarqOK
  <2>4. air' \in Seq([cell : 0 .. cell', pkts : Seq(Pdu')])
    <3> DEFINE S == [cell : 0 .. cell, pkts : Seq(Pdu)]
               T == [cell : 0 .. cell + 1, pkts : Seq(Pdu)]
    <3>1. 0 .. cell \subseteq 0 .. cell + 1
      BY <2>3
    <3>2. S \subseteq T
      BY <3>1
    <3>3. air \in Seq(S)
      BY <1>0 DEF HarqOK
    <3> HIDE DEF S, T
    <3>4. air \in Seq(T)
      BY <3>2, <3>3, SeqMono
    <3> QED  BY <1>1, <1>2, <3>4 DEF T
  <2>5. lost' \subseteq Accepted'
    <3>1. \A p \in Processes : Ids(process[p].pkts) \subseteq Accepted
      BY <1>0, IdsFacts DEF HarqOK
    <3> QED  BY <1>0, <1>1, <1>2, <3>1 DEF HarqOK
  <2>6. 0 \in 0 .. maxProcessCount
    BY ConstantFacts
  <2> QED  BY <1>1, <2>2, <2>3, <2>4, <2>5, <2>6 DEF HarqOK, Processes
<1>7. SaneUe(rx, Pdu)'
  BY <1>0, <1>1, <1>2, UeWidened
<1>8. SnOK'
  <2>1. Segments' \subseteq Segments
    <3>1. \A q \in Processes : process'[q].pkts = << >>
      BY <1>1 DEF Idle
    <3>2. \A x : x \notin ToSet(<< >>)
      BY DEF ToSet
    <3>3. Waiting' = {}
      BY <3>1, <3>2 DEF Waiting, Processes
    <3>4. Held' = Held /\ Flying' = Flying
      BY <1>1 DEF Held, Flying, Sns
    <3> QED  BY <3>3, <3>4 DEF Segments
  <2>2. \A id : Begun(id) => Begun(id)'
    BY <1>1 DEF Begun
  <2> QED  BY <1>0, <1>1, <2>1, <2>2, SnKept DEF SnOK
<1>9. PendingRecent'
  <2>1. \A q \in Processes : process'[q].pkts = << >>
    BY <1>1 DEF Idle
  <2>2. \A c : c \notin Ids(<< >>)
    BY DEF Ids, ToSet
  <2>3. InHarq' = {}
    BY <2>1, <2>2 DEF InHarq, Processes
  <2>4. OnAir' = OnAir
    BY <1>1 DEF OnAir
  <2>5. Pending' \subseteq Pending
    BY <1>1, <2>3, <2>4 DEF Pending
  <2> QED  BY <1>0, <1>1, <2>5, RecentKept
<1> QED  BY <1>3, <1>4, <1>5, <1>6, <1>7, <1>8, <1>9 DEF IInv

\* What the UE can receive: SDUs that were not segmented, and segments on their
\* way.
Known == {x \in Pdu : x.si = "ALL" \/ x \in Segments}

LEMMA KnownFacts ==
    ASSUME HarqOK, SaneUe(rx, Pdu), SnOK, PendingRecent
    PROVE  /\ Known \subseteq Pdu /\ OneSn(Known) /\ SaneUe(rx, Known)
           /\ \A j \in 1 .. Len(air) :
                 /\ air[j].pkts \in Seq(Known)
                 /\ \A i \in 1 .. Len(air[j].pkts) : Numbered(air[j].pkts[i])
<1>1. Known \subseteq Pdu /\ \A x \in Known : x.si = "ALL" \/ x.sn \in Sns
  BY DEF Known, SnOK, Fresh
<1>2. OneSn(Known)
  BY DEF Known, OneSn, SnOK, Unique
<1>3. ASSUME NEW s \in Seq(Pdu), \A x \in ToSet(s) : x.si # "ALL" => x \in Segments
      PROVE  s \in Seq(Known)
  <2>1. Len(s) \in Nat /\ s = [i \in 1 .. Len(s) |-> s[i]]
    BY LenProperties
  <2>2. \A i \in 1 .. Len(s) : s[i] \in Pdu /\ s[i] \in ToSet(s)
    BY ElementOfSeq, ToSetFacts
  <2>3. \A i \in 1 .. Len(s) : s[i] \in Known
    BY <1>3, <2>2 DEF Known
  <2> QED  BY <2>1, <2>3, IsSeq
<1>4. SaneUe(rx, Known)
  <2>1. ASSUME NEW n \in Sns PROVE rx.segments[n] \in Seq(Known)
    <3>1. rx.segments[n] \in Seq(Pdu)
      BY DEF SaneUe, UeState
    <3> QED  BY <1>3, <3>1, SegmentsIn
  <2>2. rx \in UeState(Known)
    BY <2>1 DEF SaneUe, UeState
  <2> QED  BY <2>2 DEF SaneUe
<1>5. ASSUME NEW j \in 1 .. Len(air)
      PROVE  /\ air[j].pkts \in Seq(Known)
             /\ \A i \in 1 .. Len(air[j].pkts) : Numbered(air[j].pkts[i])
  <2> DEFINE S == [cell : 0 .. cell, pkts : Seq(Pdu)]
  <2>1. air \in Seq(S)
    BY DEF HarqOK
  <2> HIDE DEF S
  <2>2. air[j] \in S
    BY <2>1, ElementOfSeq
  <2>3. air[j].pkts \in Seq(Pdu)
    BY <2>2 DEF S
  <2> DEFINE s == air[j].pkts
  <2>4. s \in Seq(Known)
    BY <1>3, <2>3, SegmentsIn
  <2>5. \A c \in Ids(s) : c \in Pending
    BY PendingIn
  <2> HIDE DEF s
  <2>6. ASSUME NEW i \in 1 .. Len(s) PROVE Numbered(s[i])
    <3>1. s[i] \in ToSet(s) /\ s[i] \in Known
      BY <2>4, ToSetFacts, ElementOfSeq
    <3>2. s[i].id \in Pending
      BY <2>5, <3>1, IdsIn
    <3> QED  BY <1>1, <3>1, <3>2 DEF Numbered, PendingRecent
  <2> QED  BY <2>4, <2>6 DEF s
<1> QED  BY <1>1, <1>2, <1>4, <1>5

LEMMA MacInLemma ==
    ASSUME IInv, macIn
    PROVE  IInv'
<1> DEFINE tb == Head(air)
<1>0. SenderOK /\ HarqOK /\ SaneUe(rx, Pdu) /\ SnOK /\ BufferStatusIsPayload /\ TimerHasPacket
      /\ PendingRecent
  BY DEF IInv
<1>1. /\ air # << >> /\ air' = Tail(air)
      /\ IF tb.cell = cell THEN rx' = Received(rx, tb.pkts) /\ lost' = lost
         ELSE lost' = lost \cup Ids(tb.pkts) /\ rx' = rx
      /\ size' = size /\ copies' = copies /\ discardTimer' = discardTimer
      /\ txBuf' = txBuf /\ TX_Next' = TX_Next /\ bufferStatus' = bufferStatus
      /\ current' = current /\ process' = process /\ cell' = cell
  BY DEF macIn, MacInEvent, pdcpTx, rlcTx, harq
<1>2. Accepted' = Accepted /\ Packet' = Packet /\ Pdu' = Pdu
  BY <1>1, SameSdus
<1> DEFINE S == [cell : 0 .. cell, pkts : Seq(Pdu)]
<1>3. /\ tb = air[1] /\ tb \in S /\ 1 \in 1 .. Len(air)
      /\ Tail(air) \in Seq(S) /\ Len(Tail(air)) = Len(air) - 1 /\ Len(air) \in Nat
      /\ \A j \in 1 .. Len(air) - 1 : Tail(air)[j] = air[j + 1]
  <2>1. air \in Seq(S)
    BY <1>0 DEF HarqOK
  <2> HIDE DEF S
  <2>2. /\ Head(air) \in S /\ Tail(air) \in Seq(S) /\ Len(Tail(air)) = Len(air) - 1
        /\ \A j \in 1 .. Len(Tail(air)) : Tail(air)[j] = air[j + 1]
    BY <1>1, <2>1, HeadTailProperties
  <2>3. Head(air) = air[1] /\ Len(air) \in Nat
    BY <2>1, LenProperties
  <2>4. Len(air) # 0
    BY <1>1, <2>1, EmptySeq
  <2> QED  BY <2>2, <2>3, <2>4
<1>4. tb.pkts \in Seq(Pdu)
  BY <1>3
<1>5. SenderOK' /\ TimerHasPacket' /\ BufferStatusIsPayload'
  BY <1>0, <1>1, <1>2 DEF SenderOK, TimerHasPacket, BufferStatusIsPayload
<1>6. HarqOK'
  <2>1. air' \in Seq([cell : 0 .. cell', pkts : Seq(Pdu')])
    BY <1>1, <1>2, <1>3
  <2>2. lost' \subseteq Accepted'
    BY <1>0, <1>1, <1>2, <1>4, IdsFacts DEF HarqOK
  <2> HIDE DEF S, tb
  <2> QED  BY <1>0, <1>1, <1>2, <2>1, <2>2 DEF HarqOK, Processes
<1> HIDE DEF tb, S
<1>7. /\ Known \subseteq Pdu /\ SaneUe(rx, Known) /\ tb.pkts \in Seq(Known) /\ OneSn(Known)
      /\ \A i \in 1 .. Len(tb.pkts) : Numbered(tb.pkts[i])
  BY <1>0, <1>3, KnownFacts
<1>8. SaneUe(rx', Known)
  <2>1. Len(size) \in 0 .. MaxSdus
    BY <1>0, LenProperties, ConstantFacts DEF SenderOK
  <2>2. CASE tb.cell = cell
    <3> DEFINE s == tb.pkts
    <3>1. s \in Seq(Known)
      BY <1>7
    <3>2. \A i \in 1 .. Len(s) : Numbered(s[i])
      BY <1>7
    <3> HIDE DEF s
    <3>3. SaneUe(Received(rx, s), Known)
      BY <1>7, <2>1, <3>1, <3>2, ReceivedLemma
    <3> QED  BY <1>1, <2>2, <3>3 DEF s
  <2>3. CASE tb.cell # cell
    BY <1>1, <1>7, <2>3
  <2> QED  BY <2>2, <2>3
<1>9. rx'.segments \in [Sns -> Seq(Known)]
  BY <1>8 DEF SaneUe, UeState
<1>10. SaneUe(rx, Pdu)'
  <2>1. \A n \in Sns : rx'.segments[n] \in Seq(Pdu)
    BY <1>7, <1>9, SeqMono
  <2>2. SaneUe(rx', Pdu)
    BY <1>8, <2>1 DEF SaneUe, UeState
  <2> QED  BY <1>1, <2>2, UeKept
<1>12. ToSet(Tail(air)) \subseteq ToSet(air)
  <2>1. air \in Seq(S)
    BY <1>0 DEF HarqOK, S
  <2>2. \A j \in 1 .. Len(air) - 1 : j + 1 \in 1 .. Len(air)
    BY <1>3
  <2> DEFINE t == Tail(air)
  <2>3. t \in Seq(S) /\ Len(t) = Len(air) - 1 /\ \A j \in 1 .. Len(t) : t[j] = air[j + 1]
    BY <1>3
  <2> HIDE DEF t
  <2>4. ASSUME NEW x \in ToSet(t) PROVE x \in ToSet(air)
    <3>1. PICK j \in 1 .. Len(t) : x = t[j]
      BY <2>3, ToSetFacts
    <3>2. j + 1 \in 1 .. Len(air) /\ x = air[j + 1]
      BY <2>2, <2>3, <3>1
    <3> QED  BY <2>1, <3>2, ToSetFacts
  <2> QED  BY <2>4 DEF t
<1>11. SnOK'
  <2>1. Segments' \subseteq Segments
    <3>0. Sns' = Sns /\ Processes' = Processes
      BY DEF Sns, Processes
    <3>1. \A x : x \in Held' => x \in Known
      <4>1. \A n \in Sns : ToSet(rx'.segments[n]) \subseteq Known
        BY <1>9, ToSetFacts
      <4> QED  BY <3>0, <4>1 DEF Held
    <3>2. Waiting' = Waiting
      BY <1>1, <3>0 DEF Waiting
    <3>3. Flying' \subseteq Flying
      BY <1>1, <1>12 DEF Flying
    <3> QED  BY <3>1, <3>2, <3>3 DEF Segments, Known
  <2>2. \A id : Begun(id) => Begun(id)'
    BY <1>1 DEF Begun
  <2> QED  BY <1>0, <1>1, <2>1, <2>2, SnKept DEF SnOK
<1>13. PendingRecent'
  <2>1. OnAir' \subseteq OnAir
    BY <1>1, <1>12 DEF OnAir
  <2>2. InHarq' = InHarq
    BY <1>1 DEF InHarq, Processes
  <2>3. Pending' \subseteq Pending
    BY <1>1, <2>1, <2>2 DEF Pending
  <2> QED  BY <1>0, <1>1, <2>3, RecentKept
<1> QED  BY <1>5, <1>6, <1>10, <1>11, <1>13 DEF IInv

LEMMA NextSnFacts ==
    ASSUME txBuf \in Seq(Packet), TX_Next \in Nat, NEW k \in 0 .. Len(txBuf)
    PROVE  NextSn(SubSeq(txBuf, 1, k)) =
              IF k > 0 /\ txBuf[1].so > 0 THEN TX_Next + 1 ELSE TX_Next
<1> DEFINE a == SubSeq(txBuf, 1, k)
<1>1. a \in Seq(Packet) /\ Len(a) = k /\ \A i \in 1 .. k : a[i] = txBuf[i]
  BY SubSeqFacts
<1> HIDE DEF a
<1>2. CASE k = 0
  <2>1. a = << >>
    BY <1>1, <1>2, EmptySeq
  <2> QED  BY <1>2, <2>1 DEF NextSn, a
<1>3. CASE k # 0
  <2>1. k > 0 /\ 1 \in 1 .. k
    BY <1>3
  <2>2. a # << >> /\ Head(a) = txBuf[1]
    BY <1>1, <2>1, EmptySeq
  <2>3. NextSn(a) = IF txBuf[1].so > 0 THEN TX_Next + 1 ELSE TX_Next
    BY <2>2 DEF NextSn
  <2> QED  BY <2>1, <2>3 DEF a
<1> QED  BY <1>2, <1>3

\* A segment sent is the last one of the SDU at the head of the buffer, or the
\* one just cut off the SDU that is then at its head.
NewLast(k, x) ==
    /\ k > 0 /\ Len(txBuf) > 0 /\ txBuf[1].so > 0
    /\ x.sn = TX_Next /\ x.id = txBuf[1].id
NewCut(buf, sn, x) == Len(buf) > 0 /\ buf[1].so > 0 /\ x.sn = sn /\ x.id = buf[1].id

LEMMA NewSegment ==
    ASSUME SenderOK, SnOK, NEW k \in 0 .. Len(txBuf), NEW left \in Int,
           NEW pdus \in Seq(Pdu), Sent(k, left, pdus),
           NEW buf \in Seq(Packet), Kept(k, left, buf),
           NEW x \in ToSet(pdus), x.si # "ALL"
    PROVE  NewLast(k, x) \/ NewCut(buf, NextSn(SubSeq(txBuf, 1, k)), x)
<1>1. txBuf \in Seq(Packet) /\ TX_Next \in Nat /\ Len(txBuf) \in Nat
      /\ \A i \in 1 .. Len(txBuf) : txBuf[i] \in Packet
  BY LenProperties, ElementOfSeq DEF SenderOK
<1>2. PICK i \in 1 .. Len(pdus) : x = pdus[i]
  BY ToSetFacts
<1>3. CASE i \in 1 .. k
  <2>1. i \in 1 .. Len(txBuf) /\ x = ADD_HDR(txBuf[i], TX_Next)
    BY <1>1, <1>2, <1>3 DEF Sent
  <2>2. txBuf[i].so \in Nat /\ txBuf[i].so # 0 /\ x.sn = TX_Next /\ x.id = txBuf[i].id
    BY <1>1, <2>1 DEF ADD_HDR, Packet
  <2>3. i = 1
    <3>1. i \notin 2 .. Len(txBuf)
      BY <2>2 DEF SnOK
    <3> QED  BY <1>1, <2>1, <3>1
  <2> QED  BY <1>1, <1>3, <2>1, <2>2, <2>3 DEF NewLast
<1>4. CASE i \notin 1 .. k
  <2>1. Cut(k, left)
    BY <1>2, <1>4 DEF Sent
  <2>2. i = k + 1 /\ k + 1 \in 1 .. Len(txBuf) /\ 1 \in 1 .. Len(txBuf) - k
    BY <1>1, <1>2, <1>4, <2>1 DEF Sent, Cut
  <2> DEFINE sn == NextSn(SubSeq(txBuf, 1, k))
             p == txBuf[k + 1]
  <2>3. x = FRAGMENT_PACKET(p, left, sn) /\ p \in Packet
    BY <1>1, <1>2, <2>1, <2>2 DEF Sent
  <2>4. Len(buf) = Len(txBuf) - k /\ buf[1] = Remainder(p, left)
    BY <2>1, <2>2 DEF Kept
  <2> HIDE DEF sn, p
  <2>5. x.sn = sn /\ x.id = p.id
    BY <2>3 DEF FRAGMENT_PACKET
  <2>6. buf[1].so > 0 /\ buf[1].id = p.id
    BY <2>3, <2>4 DEF Remainder, Packet
  <2>7. Len(buf) > 0
    BY <1>1, <2>2, <2>4
  <2> QED  BY <2>5, <2>6, <2>7 DEF NewCut, sn
<1> QED  BY <1>3, <1>4

\* Sending keeps the invariant about SNs.
LEMMA SnSent ==
    ASSUME SenderOK, SnOK, NEW k \in 0 .. Len(txBuf), NEW left \in Int,
           NEW pdus \in Seq(Pdu), Sent(k, left, pdus),
           txBuf' \in Seq(Packet), Kept(k, left, txBuf'),
           TX_Next' = NextSn(SubSeq(txBuf, 1, k)), UNCHANGED size,
           \A x \in Segments' : x \in Segments \/ (x \in ToSet(pdus) /\ x.si # "ALL")
    PROVE  SnOK'
<1> DEFINE b == Len(txBuf)
           T == TX_Next
           U == TX_Next'
           so == txBuf[1].so
<1>1. /\ b \in Nat /\ T \in Nat /\ k \in Nat /\ k <= b /\ Len(size) \in Nat
      /\ Len(size) <= MaxSdus /\ T + b <= Len(size) /\ MaxSdus \in Nat
      /\ txBuf \in Seq(Packet)
  BY LenProperties, ConstantFacts DEF SenderOK, SnOK
<1>2. U = IF k > 0 /\ so > 0 THEN T + 1 ELSE T
  BY <1>1, NextSnFacts
<1>3. Len(txBuf') = b - k
  BY DEF Kept
<1> HIDE DEF b, T, U, so
<1>4. U \in Nat /\ T <= U /\ U + (b - k) <= Len(size) /\ U <= T + 1
  BY <1>1, <1>2
<1>5. \A i \in 1 .. b : txBuf[i] \in Packet
  BY <1>1, ElementOfSeq DEF b
<1>6. \A i \in 2 .. Len(txBuf') : txBuf'[i].so = 0
  <2> TAKE i \in 2 .. Len(txBuf')
  <2>1. i \in 1 .. b - k /\ i # 1 /\ k + i \in 2 .. b
    BY <1>1, <1>3
  <2>2. txBuf'[i] = txBuf[k + i]
    BY <2>1 DEF Kept, b
  <2> QED  BY <2>1, <2>2 DEF SnOK, b
<1>7. ASSUME NEW id, Begun(id), k = 0 PROVE Begun(id)' /\ U = T
  <2>1. 1 \in 1 .. b /\ b > 0 /\ so > 0 /\ txBuf[1].id = id /\ txBuf[1] \in Packet
    BY <1>1, <1>5, <1>7 DEF Begun, b, so
  <2>2. /\ 1 \in 1 .. Len(txBuf) - k
        /\ txBuf'[1] = IF Cut(k, left) THEN Remainder(txBuf[k + 1], left) ELSE txBuf[k + 1]
    <3>1. 1 \in 1 .. Len(txBuf) - k /\ k + 1 = 1
      BY <1>1, <1>7, <2>1 DEF b
    <3> QED  BY <3>1 DEF Kept
  <2>3. txBuf'[1].so > 0 /\ txBuf'[1].id = id
    <3>1. txBuf[k + 1] = txBuf[1]
      BY <1>7
    <3>2. CASE Cut(k, left)
      BY <2>1, <2>2, <3>1, <3>2 DEF Remainder, Packet
    <3>3. CASE ~Cut(k, left)
      BY <2>1, <2>2, <3>1, <3>3 DEF so
    <3> QED  BY <3>2, <3>3
  <2>4. Len(txBuf') > 0
    BY <1>1, <1>3, <1>7, <2>1
  <2> QED  BY <1>2, <1>7, <2>3, <2>4 DEF Begun
<1>8. ASSUME NEW x \in Segments PROVE x.sn \in Sns /\ (x.sn < U \/ (x.sn = U /\ Begun(x.id)'))
  <2>1. x.sn \in Sns /\ (x.sn < T \/ (x.sn = T /\ Begun(x.id)))
    BY DEF SnOK, Fresh, T
  <2>2. x.sn \in Nat
    BY <2>1 DEF Sns
  <2>3. CASE x.sn < T
    <3> DEFINE n == x.sn
    <3>1. n \in Nat /\ n < T /\ T \in Nat /\ U \in Nat /\ T <= U
      BY <1>1, <1>4, <2>2, <2>3
    <3> HIDE DEF n
    <3>2. n < U
      BY <3>1
    <3> QED  BY <2>1, <3>2 DEF n
  <2>4. CASE x.sn = T /\ Begun(x.id) /\ k = 0
    BY <1>7, <2>1, <2>4
  <2>5. CASE x.sn = T /\ Begun(x.id) /\ k # 0
    <3>1. so > 0 /\ k > 0
      BY <1>1, <2>5 DEF Begun, so
    <3>2. U = T + 1
      BY <1>2, <3>1
    <3> QED  BY <1>1, <2>1, <2>5, <3>2
  <2> QED  BY <2>1, <2>3, <2>4, <2>5
<1>9. ASSUME NEW x \in ToSet(pdus), x.si # "ALL"
      PROVE  \/ NewLast(k, x) /\ x.sn = T /\ U = T + 1 /\ x.sn \in Sns
             \/ NewCut(txBuf', U, x) /\ x.sn = U /\ x.sn \in Sns /\ Begun(x.id)'
  <2>1. NewLast(k, x) \/ NewCut(txBuf', U, x)
    BY <1>9, NewSegment DEF U
  <2>2. CASE NewLast(k, x)
    <3>1. b > 0 /\ so > 0 /\ x.sn = T /\ k > 0
      BY <2>2 DEF NewLast, b, so, T
    <3>2. T \in 0 .. MaxSdus - 1
      BY <1>1, <3>1
    <3> QED  BY <1>2, <2>2, <3>1, <3>2 DEF Sns
  <2>3. CASE NewCut(txBuf', U, x)
    <3>1. x.sn = U /\ Begun(x.id)' /\ b - k > 0
      BY <1>3, <2>3 DEF NewCut, Begun
    <3>2. U \in 0 .. MaxSdus - 1
      BY <1>1, <1>4, <3>1
    <3> QED  BY <2>3, <3>1, <3>2 DEF Sns
  <2> QED  BY <2>1, <2>2, <2>3
<1>10. Fresh'
  <2> SUFFICES ASSUME NEW x \in Segments'
               PROVE  x.sn \in Sns /\ (x.sn < U \/ (x.sn = U /\ Begun(x.id)'))
    BY DEF Fresh, Sns, U
  <2>1. CASE x \in Segments
    BY <1>8, <2>1
  <2>2. CASE x \in ToSet(pdus) /\ x.si # "ALL"
    <3>1. T < T + 1
      BY <1>1
    <3> QED  BY <1>9, <2>2, <3>1
  <2> QED  BY <2>1, <2>2
<1>11. ASSUME NEW x \in Segments, NEW y \in ToSet(pdus), y.si # "ALL", x.sn = y.sn
       PROVE  x.id = y.id
  <2>1. x.sn \in Nat /\ (x.sn < T \/ (x.sn = T /\ Begun(x.id)))
    BY DEF SnOK, Fresh, T, Sns
  <2>2. CASE NewLast(k, y) /\ y.sn = T
    BY <1>1, <1>11, <2>1, <2>2 DEF NewLast, Begun
  <2>3. CASE NewCut(txBuf', U, y) /\ y.sn = U
    <3>1. x.sn = T /\ U = T /\ Begun(x.id)
      BY <1>1, <1>4, <1>11, <2>1, <2>3
    <3>2. k = 0
      <4>1. so > 0
        BY <3>1 DEF Begun, so
      <4> QED  BY <1>1, <1>2, <3>1, <4>1
    <3>3. Begun(x.id)'
      BY <1>7, <3>1, <3>2
    <3> QED  BY <2>3, <3>3 DEF Begun, NewCut
  <2> QED  BY <1>9, <1>11, <2>2, <2>3
<1>12. ASSUME NEW x \in ToSet(pdus), NEW y \in ToSet(pdus), x.si # "ALL", y.si # "ALL",
              x.sn = y.sn
       PROVE  x.id = y.id
  <2>1. T # T + 1
    BY <1>1
  <2> QED  BY <1>9, <1>12, <2>1 DEF NewLast, NewCut
<1>13. Unique'
  <2> SUFFICES ASSUME NEW x \in Segments', NEW y \in Segments', x.sn = y.sn
               PROVE  x.id = y.id
    BY DEF Unique
  <2>1. x \in Segments /\ y \in Segments => x.id = y.id
    BY DEF SnOK, Unique
  <2> QED  BY <1>11, <1>12, <2>1
<1>14. TX_Next' + Len(txBuf') <= Len(size')
  BY <1>3, <1>4 DEF U
<1> QED  BY <1>6, <1>10, <1>13, <1>14 DEF SnOK

\* What the slot does to the HARQ processes and to the MAC_IN events: they hold
\* what they held, or the TB transmitted.
Transmitted(p, pdus, pkts) ==
    /\ \A x : x \in ToSet(pkts) => x \in ToSet(pdus) \/ x \in ToSet(process[p].pkts)
    /\ \A q \in Processes : process'[q].pkts \in {process[q].pkts, pkts, << >>}
    /\ \A j \in 1 .. Len(air') : air'[j].pkts = pkts \/
          (j \in 1 .. Len(air) /\ air'[j] = air[j])

LEMMA HarqSent ==
    ASSUME HarqOK, NEW error \in BOOLEAN, NEW p \in Processes, NEW pdus \in Seq(Pdu), NEW pkts,
           pkts = StoreDLPacket(p, pdus), SendToReceiver(p, pkts, error), current' = p,
           lost' = IF SetNDI(p) THEN lost \cup Ids(process[p].pkts) ELSE lost,
           UNCHANGED <<size, cell>>
    PROVE  HarqOK' /\ Transmitted(p, pdus, pkts)
<1> DEFINE S == [cell : 0 .. cell, pkts : Seq(Pdu)]
           m == IF SetNDI(p) THEN 0 ELSE TransmissionNumber(p)
           h == [pkts |-> IF error THEN pkts ELSE << >>, n |-> m]
           tb == [cell |-> cell, pkts |-> pkts]
<1>1. /\ process \in [Processes -> [pkts : Seq(Pdu), n : Nat]]
      /\ \A q \in Processes : process[q].n = 0 \/ process[q].n \in 1 .. retryLimit - 1
      /\ air \in Seq(S) /\ cell \in 0 .. MaxHandovers /\ lost \subseteq Accepted
  BY DEF HarqOK
<1>2. process[p].pkts \in Seq(Pdu) /\ process[p].n \in Nat
  BY <1>1
<1>3. pkts \in Seq(Pdu)
  BY <1>2 DEF StoreDLPacket
<1>4. m \in Nat /\ (m = 0 \/ m \in 1 .. retryLimit - 1)
  <2> DEFINE v == process[p].n
  <2>1. v \in Nat /\ retryLimit \in Nat
    BY <1>2, ConstantFacts
  <2>2. SetNDI(p) \/ ~(v + 1 >= retryLimit)
    BY DEF SetNDI, GivesUp, TransmissionNumber
  <2>3. m = IF SetNDI(p) THEN 0 ELSE v + 1
    BY DEF TransmissionNumber
  <2> HIDE DEF v, m
  <2> QED  BY <2>1, <2>2, <2>3
<1> HIDE DEF m
<1>5. h \in [pkts : Seq(Pdu), n : Nat] /\ h.n = m /\ h.pkts \in {pkts, << >>}
  BY <1>3, <1>4
<1> HIDE DEF h
<1>6. process' = [process EXCEPT ![p] = h]
  BY DEF SendToReceiver, h, m
<1>7. /\ process' \in [Processes -> [pkts : Seq(Pdu), n : Nat]]
      /\ \A q \in Processes : process'[q] = IF q = p THEN h ELSE process[q]
  BY <1>1, <1>5, <1>6
<1>8. \A q \in Processes : process'[q].n = 0 \/ process'[q].n \in 1 .. retryLimit - 1
  BY <1>1, <1>4, <1>5, <1>7
<1>9. \A q \in Processes : process'[q].pkts \in {process[q].pkts, pkts, << >>}
  BY <1>5, <1>7
<1>10. tb \in S /\ tb.pkts = pkts
  <2>1. cell \in 0 .. cell
    BY <1>1, ConstantFacts
  <2> QED  BY <1>3, <2>1
<1>11. air' = air \/ air' = Append(air, tb)
  BY DEF SendToReceiver
<1> HIDE DEF S, tb
<1>12. /\ air' \in Seq(S)
       /\ \A j \in 1 .. Len(air') : air'[j].pkts = pkts \/ (j \in 1 .. Len(air) /\ air'[j] = air[j])
  <2>1. CASE air' = air
    BY <1>1, <2>1
  <2>2. CASE air' = Append(air, tb)
    <3>1. Len(air) \in Nat
      BY <1>1, LenProperties
    <3>2. /\ Append(air, tb) \in Seq(S) /\ Len(Append(air, tb)) = Len(air) + 1
          /\ \A j \in 1 .. Len(air) : Append(air, tb)[j] = air[j]
          /\ Append(air, tb)[Len(air) + 1] = tb
      BY <1>1, <1>10, AppendProperties
    <3> QED  BY <1>10, <2>2, <3>1, <3>2
  <2> QED  BY <1>11, <2>1, <2>2
<1>13. Accepted' = Accepted /\ Pdu' = Pdu /\ cell' = cell
  BY SameSdus
<1>14. lost' \subseteq Accepted'
  BY <1>1, <1>2, <1>13, IdsFacts
<1>15. air' \in Seq([cell : 0 .. cell', pkts : Seq(Pdu')])
  BY <1>12, <1>13 DEF S
<1>16. HarqOK'
  <2>1. current' \in 0 .. maxProcessCount
    BY ConstantFacts DEF Processes
  <2>2. Processes' = Processes
    BY DEF Processes
  <2> QED  BY <1>1, <1>7, <1>8, <1>13, <1>14, <1>15, <2>1, <2>2 DEF HarqOK
<1>17. \A x : x \in ToSet(pkts) => x \in ToSet(pdus) \/ x \in ToSet(process[p].pkts)
  BY DEF StoreDLPacket
<1> QED  BY <1>9, <1>12, <1>16, <1>17 DEF Transmitted

\* The PDUs of a slot and what remains are of SDUs of the buffer.
LEMMA SentIds ==
    ASSUME txBuf \in Seq(Packet), NEW k \in 0 .. Len(txBuf), NEW left \in Int,
           NEW pdus \in Seq(Pdu), Sent(k, left, pdus),
           NEW buf \in Seq(Packet), Kept(k, left, buf)
    PROVE  Ids(pdus) \subseteq Ids(txBuf) /\ Ids(buf) \subseteq Ids(txBuf)
<1>1. Len(txBuf) \in Nat /\ \A i \in 1 .. Len(txBuf) : txBuf[i].id \in Ids(txBuf)
  BY LenProperties, ToSetFacts, IdsIn
<1>2. ASSUME NEW i \in 1 .. Len(pdus) PROVE pdus[i].id \in Ids(txBuf)
  <2>0. Len(pdus) = k \/ Len(pdus) = k + 1
    BY DEF Sent
  <2>1. CASE i \in 1 .. k
    <3>1. i \in 1 .. Len(txBuf) /\ pdus[i] = ADD_HDR(txBuf[i], TX_Next)
      BY <1>1, <2>1 DEF Sent
    <3>2. ADD_HDR(txBuf[i], TX_Next).id = txBuf[i].id
      BY DEF ADD_HDR
    <3> QED  BY <1>1, <3>1, <3>2
  <2>2. CASE i \notin 1 .. k
    <3>1. Cut(k, left) /\ i = k + 1 /\ i \in 1 .. Len(txBuf)
      BY <1>1, <2>0, <2>2 DEF Sent, Cut
    <3>2. pdus[i] = FRAGMENT_PACKET(txBuf[i], left, NextSn(SubSeq(txBuf, 1, k)))
      BY <3>1 DEF Sent
    <3>3. pdus[i].id = txBuf[i].id
      BY <3>2 DEF FRAGMENT_PACKET
    <3> QED  BY <1>1, <3>1, <3>3
  <2> QED  BY <2>1, <2>2
<1>3. ASSUME NEW i \in 1 .. Len(buf) PROVE buf[i].id \in Ids(txBuf)
  <2>1. k + i \in 1 .. Len(txBuf) /\ i \in 1 .. Len(txBuf) - k
    BY <1>1 DEF Kept
  <2>2. CASE i = 1 /\ Cut(k, left)
    <3>1. buf[i] = Remainder(txBuf[k + 1], left) /\ k + 1 \in 1 .. Len(txBuf)
      BY <2>1, <2>2 DEF Kept
    <3>2. buf[i].id = txBuf[k + 1].id
      BY <3>1 DEF Remainder
    <3> QED  BY <1>1, <3>1, <3>2
  <2>3. CASE ~(i = 1 /\ Cut(k, left))
    <3>1. buf[i] = txBuf[k + i]
      BY <2>1, <2>3 DEF Kept
    <3> QED  BY <1>1, <2>1, <3>1
  <2> QED  BY <2>2, <2>3
<1>4. \A x \in ToSet(pdus) : x.id \in Ids(txBuf)
  BY <1>2, ToSetFacts
<1>5. \A x \in ToSet(buf) : x.id \in Ids(txBuf)
  BY <1>3, ToSetFacts
<1>6. \A d \in Ids(pdus) : d \in Ids(txBuf)
  BY <1>4, IdsIn
<1>7. \A d \in Ids(buf) : d \in Ids(txBuf)
  BY <1>5, IdsIn
<1> QED  BY <1>6, <1>7
LEMMA SlotLemma ==
    ASSUME IInv, NEW prb \in 0 .. MaxPrb, NEW error \in BOOLEAN, StartingSlot(prb, error)
    PROVE  IInv'
<1>0. SenderOK /\ HarqOK /\ SaneUe(rx, Pdu) /\ SnOK /\ BufferStatusIsPayload /\ TimerHasPacket
      /\ PendingRecent
  BY DEF IInv
<1>1. txBuf \in Seq(Packet) /\ TX_Next \in Nat /\ current \in 0 .. maxProcessCount
  BY <1>0 DEF SenderOK, HarqOK
<1>2. Payload(txBuf) \in Int
  BY <1>1, SizedSeq, PayloadSame
<1>3. bufferStatus = Payload(txBuf) % Word /\ bufferStatus \in Nat /\ Word \in Nat \ {0}
  <2>1. Payload(txBuf) % Word \in 0 .. Word - 1
    BY <1>2, ConstantFacts, ModRange
  <2> QED  BY <1>0, <2>1, ConstantFacts DEF BufferStatusIsPayload
<1>4. PICK p \in Processes, k \in 0 .. Len(txBuf), left \in Int :
         \E new, pkts : Slot(error, p, k, left, new, pkts)
  BY <1>1, <1>3, SlotFacts
<1>5. PICK new, pkts : Slot(error, p, k, left, new, pkts)
  BY <1>4
<1>6. /\ new = SEND_PDU(k, left) /\ pkts = StoreDLPacket(p, new.pdus)
      /\ current' = p /\ txBuf' = new.buf /\ TX_Next' = new.TX_Next
      /\ bufferStatus' = new.status /\ SendToReceiver(p, pkts, error)
      /\ lost' = IF SetNDI(p) THEN lost \cup Ids(process[p].pkts) ELSE lost
      /\ size' = size /\ copies' = copies /\ discardTimer' = discardTimer
      /\ cell' = cell /\ rx' = rx
  BY <1>5 DEF Slot, pdcpTx
<1> DEFINE pdus == new.pdus
<1>7. /\ pdus \in Seq(Pdu) /\ Sent(k, left, pdus)
      /\ txBuf' \in Seq(Packet) /\ Kept(k, left, txBuf')
      /\ TX_Next' = NextSn(SubSeq(txBuf, 1, k)) /\ TX_Next' \in Nat
      /\ bufferStatus' = Reduced(pdus)
  BY <1>1, <1>6, SendLemma
<1>8. Accepted' = Accepted /\ Packet' = Packet /\ Pdu' = Pdu
  BY <1>6, SameSdus
<1>9. HarqOK' /\ Transmitted(p, pdus, pkts)
  <2>1. pkts = StoreDLPacket(p, pdus) /\ UNCHANGED <<size, cell>>
    BY <1>6
  <2> HIDE DEF pdus
  <2>2. /\ SendToReceiver(p, pkts, error) /\ current' = p
        /\ lost' = IF SetNDI(p) THEN lost \cup Ids(process[p].pkts) ELSE lost
    BY <1>6
  <2>3. HarqOK /\ pdus \in Seq(Pdu)
    BY <1>0, <1>7
  <2> QED  BY <2>1, <2>2, <2>3, HarqSent, ZenonT(60)
<1> HIDE DEF pdus
<1>10. SenderOK' /\ TimerHasPacket'
  BY <1>0, <1>6, <1>7, <1>8 DEF SenderOK, TimerHasPacket
<1>11. BufferStatusIsPayload'
  <2> DEFINE B == Payload(txBuf)
             P == Payload(pdus)
  <2>1. B \in Int /\ P \in Int /\ Payload(txBuf') = B - P
    BY <1>1, <1>7, PayloadKept
  <2>2. bufferStatus' = ((B % Word) - P) % Word
    BY <1>3, <1>7 DEF Reduced
  <2> HIDE DEF B, P
  <2>3. B % Word \in Int
    BY <1>3, <2>1, ModRange
  <2>4. (B % Word) - P = (B % Word) + (-P) /\ B - P = B + (-P) /\ -P \in Int
    BY <2>1, <2>3
  <2>5. ((B % Word) + (-P)) % Word = (B + (-P)) % Word
    BY <1>3, <2>1, <2>4, ModAdd
  <2>6. bufferStatus' = Payload(txBuf') % Word
    BY <2>1, <2>2, <2>4, <2>5, Zenon
  <2> QED  BY <2>6 DEF BufferStatusIsPayload
<1>12. SaneUe(rx, Pdu)'
  BY <1>0, <1>6, <1>8, UeWidened
<1>13. ASSUME NEW x \in Segments'
       PROVE  x \in Segments \/ (x \in ToSet(pdus) /\ x.si # "ALL")
  <2>0. Sns' = Sns /\ Processes' = Processes
    BY DEF Sns, Processes
  <2>1. /\ x.si # "ALL"
        /\ \/ \E n \in Sns : x \in ToSet(rx'.segments[n])
           \/ \E q \in Processes : x \in ToSet(process'[q].pkts)
           \/ \E j \in 1 .. Len(air') : x \in ToSet(air'[j].pkts)
    <3>1. x.si # "ALL" /\ (x \in Held' \/ x \in Waiting' \/ x \in Flying')
      BY DEF Segments
    <3>2. x \in Held' => \E n \in Sns : x \in ToSet(rx'.segments[n])
      BY <2>0 DEF Held
    <3>3. x \in Waiting' => \E q \in Processes : x \in ToSet(process'[q].pkts)
      BY <2>0 DEF Waiting
    <3>4. x \in Flying' => \E j \in 1 .. Len(air') : x \in ToSet(air'[j].pkts)
      <4> DEFINE S == [cell : 0 .. cell', pkts : Seq(Pdu')]
      <4>1. air' \in Seq(S)
        BY <1>9 DEF HarqOK
      <4> HIDE DEF S
      <4>2. \A tb : tb \in ToSet(air') <=> \E j \in 1 .. Len(air') : tb = air'[j]
        BY <4>1, ToSetFacts
      <4> QED  BY <4>2 DEF Flying
    <3> QED  BY <3>1, <3>2, <3>3, <3>4
  <2>2. x \notin ToSet(<< >>)
    BY DEF ToSet
  <2>3. \/ x \in ToSet(pkts)
        \/ \E n \in Sns : x \in ToSet(rx.segments[n])
        \/ \E q \in Processes : x \in ToSet(process[q].pkts)
        \/ \E j \in 1 .. Len(air) : x \in ToSet(air[j].pkts)
    BY <1>6, <1>9, <2>1, <2>2, Zenon DEF Transmitted
  <2>4. \/ x \in ToSet(pdus)
        \/ \E n \in Sns : x \in ToSet(rx.segments[n])
        \/ \E q \in Processes : x \in ToSet(process[q].pkts)
        \/ \E j \in 1 .. Len(air) : x \in ToSet(air[j].pkts)
    BY <1>9, <2>3 DEF Transmitted
  <2> QED  BY <1>0, <2>1, <2>4, SegmentsIn
<1>14. SnOK'
  BY <1>0, <1>6, <1>7, <1>13, SnSent
<1>15. PendingRecent'
  <2>1. Ids(pdus) \subseteq Ids(txBuf) /\ Ids(txBuf') \subseteq Ids(txBuf)
    BY <1>1, <1>7, SentIds
  <2>2. Ids(pkts) \subseteq Pending
    <3> SUFFICES ASSUME NEW x \in ToSet(pkts) PROVE x.id \in Pending
      BY IdsIn
    <3>1. x \in ToSet(pdus) \/ x \in ToSet(process[p].pkts)
      BY <1>9 DEF Transmitted
    <3>2. x.id \in Ids(pdus) \/ x.id \in Ids(process[p].pkts)
      BY <3>1, IdsIn
    <3> QED  BY <1>0, <2>1, <3>2, PendingIn
  <2>3. Ids(<< >>) = {}
    BY DEF Ids, ToSet
  <2>4. InHarq' \subseteq Pending
    <3>1. \A q \in Processes : Ids(process'[q].pkts) \subseteq Pending
      <4> TAKE q \in Processes
      <4>1. process'[q].pkts \in {process[q].pkts, pkts, << >>}
        BY <1>9 DEF Transmitted
      <4>2. Ids(process[q].pkts) \subseteq Pending
        BY <1>0, PendingIn
      <4> QED  BY <2>2, <2>3, <4>1, <4>2
    <3> QED  BY <3>1 DEF InHarq, Processes
  <2>5. OnAir' \subseteq Pending
    <3> SUFFICES ASSUME NEW tb \in ToSet(air') PROVE Ids(tb.pkts) \subseteq Pending
      BY DEF OnAir
    <3>1. PICK j \in 1 .. Len(air') : tb = air'[j]
      <4> DEFINE S == [cell : 0 .. cell', pkts : Seq(Pdu')]
      <4>1. air' \in Seq(S)
        BY <1>9 DEF HarqOK
      <4> HIDE DEF S
      <4> QED  BY <4>1, ToSetFacts
    <3>2. tb.pkts = pkts \/ (j \in 1 .. Len(air) /\ tb = air[j])
      BY <1>9, <3>1 DEF Transmitted
    <3> QED  BY <1>0, <2>2, <3>2, PendingIn
  <2>6. Pending' \subseteq Pending
    BY <2>1, <2>4, <2>5 DEF Pending
  <2> QED  BY <1>0, <1>6, <2>6, RecentKept
<1> QED  BY <1>9, <1>10, <1>11, <1>12, <1>14, <1>15 DEF IInv
-----------------------------------------------------------------------------
LEMMA NextIInv == IInv /\ [Next]_vars => IInv'
<1> SUFFICES ASSUME IInv, [Next]_vars PROVE IInv'
  OBVIOUS
<1>1. ASSUME NEW n \in Sizes, TransmitPDCPSDU(n) PROVE IInv'
  BY <1>1, TransmitLemma
<1>2. ASSUME NEW k \in 1 .. MaxSdus, HANDLE_DISCARD_TIMER(k) PROVE IInv'
  BY <1>2, DiscardLemma
<1>3. ASSUME NEW prb \in 0 .. MaxPrb, NEW error \in BOOLEAN, StartingSlot(prb, error)
      PROVE  IInv'
  BY <1>3, SlotLemma
<1>4. CASE macIn
  BY <1>4, MacInLemma
<1>5. CASE GENERATE_HANDOVER_COMMAND_HANDLE
  BY <1>5, HandoverLemma
<1>6. CASE UNCHANGED vars
  <2>0. SenderOK /\ HarqOK /\ SaneUe(rx, Pdu) /\ SnOK /\ BufferStatusIsPayload /\ TimerHasPacket
        /\ PendingRecent
    BY DEF IInv
  <2>1. /\ size' = size /\ copies' = copies /\ discardTimer' = discardTimer
        /\ txBuf' = txBuf /\ TX_Next' = TX_Next /\ bufferStatus' = bufferStatus
        /\ current' = current /\ process' = process /\ air' = air /\ cell' = cell
        /\ rx' = rx /\ lost' = lost
    BY <1>6 DEF vars, pdcpTx, rlcTx, harq
  <2>2. Accepted' = Accepted /\ Packet' = Packet
    BY <2>1, SameSdus
  <2>3. SenderOK' /\ TimerHasPacket' /\ BufferStatusIsPayload'
    BY <2>0, <2>1, <2>2 DEF SenderOK, TimerHasPacket, BufferStatusIsPayload
  <2>4. HarqOK' /\ SaneUe(rx, Pdu)'
    BY <2>0, <2>1, <2>2, HarqWidened, UeWidened DEF harq
  <2>5. SnOK'
    <3>1. Segments' = Segments
      BY <2>1 DEF Segments, Held, Waiting, Flying, Sns, Processes
    <3>2. \A id : Begun(id) => Begun(id)'
      BY <2>1 DEF Begun
    <3> QED  BY <2>0, <2>1, <3>1, <3>2, SnKept DEF SnOK
  <2>6. PendingRecent'
    <3>1. Pending' = Pending
      BY <2>1 DEF Pending, InHarq, OnAir, Processes
    <3> QED  BY <2>0, <2>1, <3>1, RecentKept
  <2> QED  BY <2>3, <2>4, <2>5, <2>6 DEF IInv
<1> QED  BY <1>1, <1>2, <1>3, <1>4, <1>5, <1>6 DEF Next

LEMMA Inductive == Spec => []IInv
BY InitIInv, NextIInv, PTL DEF Spec

\* The type of the state for any number of HARQ processes, SDUs and handovers;
\* in particular SetNDI (LTENR_HARQ.c:404-428) never counts a process beyond
\* the limit, and what it holds are always PDUs of SDUs that were accepted.
THEOREM TypeCorrect == Spec => []TypeOK
<1>1. IInv => TypeOK
  <2> SUFFICES ASSUME IInv PROVE TypeOK
    OBVIOUS
  <2>0. SenderOK /\ HarqOK /\ SaneUe(rx, Pdu) /\ BufferStatusIsPayload
    BY DEF IInv
  <2>1. size \in Seq(Sizes) /\ Len(size) <= MaxSdus /\ discardTimer \in BOOLEAN
        /\ txBuf \in Seq(Packet) /\ TX_Next \in Nat
    BY <2>0 DEF SenderOK
  <2>2. copies \in 0 .. MaxSdus
    <3>1. Len(size) \in Nat
      BY <2>1, LenProperties
    <3> QED  BY <2>0, <2>1, <3>1, ConstantFacts DEF SenderOK
  <2>3. bufferStatus \in 0 .. Word - 1
    <3>1. Payload(txBuf) \in Int
      BY <2>1, SizedSeq, PayloadSame
    <3>2. Payload(txBuf) % Word \in 0 .. Word - 1
      BY <3>1, ConstantFacts, ModRange
    <3> QED  BY <2>0, <3>2 DEF BufferStatusIsPayload
  <2>4. \A p \in Processes :
          /\ process[p].pkts \in Seq(Pdu)
          /\ process[p].n = 0 \/ process[p].n \in 1 .. retryLimit - 1
    BY <2>0 DEF HarqOK
  <2>5. \A i \in DOMAIN air : air[i].cell \in 0 .. cell /\ air[i].pkts \in Seq(Pdu)
    <3> DEFINE S == [cell : 0 .. cell, pkts : Seq(Pdu)]
    <3>1. air \in Seq(S)
      BY <2>0 DEF HarqOK
    <3>2. \A x \in S : x.cell \in 0 .. cell /\ x.pkts \in Seq(Pdu)
      OBVIOUS
    <3> HIDE DEF S
    <3>3. DOMAIN air = 1 .. Len(air) /\ \A i \in 1 .. Len(air) : air[i] \in S
      BY <3>1, LenProperties, ElementOfSeq
    <3> QED  BY <3>2, <3>3
  <2>6. rx.segments \in [Sns -> Seq(Pdu)] /\ {rx.RX_DELIV, rx.RX_NEXT} \subseteq Nat
        /\ rx.late \subseteq Accepted
    BY <2>0 DEF SaneUe, UeState
  <2>7. current \in 0 .. maxProcessCount /\ cell \in 0 .. MaxHandovers /\ lost \subseteq Accepted
    BY <2>0 DEF HarqOK
  <2> QED  BY <2>1, <2>2, <2>3, <2>4, <2>5, <2>6, <2>7 DEF TypeOK
<1> QED  BY <1>1, Inductive, PTL

\* LTENR_PDCP_HANDLE_DISCARD_TIMER (LTENR_PDCP.c:422) reads the head of the
\* transmission buffer without a test: there always is one, also when timers of
\* several SDUs expire at once or a handover deletes the timer.
THEOREM TimerNeverOnEmpty == Spec => []TimerHasPacket
<1>1. IInv => TimerHasPacket
  BY DEF IInv
<1> QED  BY <1>1, Inductive, PTL

\* What RLC reports to the scheduler is the payload that waits, modulo 2^32,
\* for all sizes and grants: also after a segment longer than what was left of
\* its SDU (LTENR_RLC_UM.c:307-313, 391).
THEOREM ReportedIsPayload == Spec => []BufferStatusIsPayload
<1>1. IInv => BufferStatusIsPayload
  BY DEF IInv
<1> QED  BY <1>1, Inductive, PTL

\* The COUNT that the UE reconstructs follows the sender's, one more ahead of it
\* after each wrap-around of the sender's sequence number (LTENR_PDCP.c:329,
\* 568-594), and no SDU is held back, whatever number of wrap-arounds: as long as
\* the sender is never half the range of sequence numbers ahead of the UE or of
\* what is still to reach it.
THEOREM CountsFollowed == Spec => []CountsFollow
<1>1. IInv => CountsFollow
  BY DEF IInv, SaneUe, UeState, Near, At, Agree, CountsFollow
<1> QED  BY <1>1, Inductive, PTL

\* No two SDUs have segments with the same SN at the same time, in HARQ
\* processes, MAC_IN events and reception buffers, whatever is segmented before
\* and after a handover (LTENR_NAS.c:353, LTENR_RLC_UM.c:377).
THEOREM OneSduForEachSn == Spec => []OneSduPerSn
<1>1. IInv => OneSduPerSn
  <2> SUFFICES ASSUME IInv PROVE OneSduPerSn
    OBVIOUS
  <2>1. \A p, q \in Segments : p.sn = q.sn => p.id = q.id
    BY DEF IInv, SnOK, Unique
  <2>2. \A x : x \in Segments <=> (x \in Held \cup Waiting \cup Flying /\ x.si # "ALL")
    BY DEF Segments
  <2>3. SUFFICES ASSUME NEW p \in Held \cup Waiting \cup Flying, p.si # "ALL",
                        NEW q \in Held \cup Waiting \cup Flying, q.si # "ALL"
                 PROVE  p.sn = q.sn => p.id = q.id
    BY DEF OneSduPerSn, Held, Waiting, Flying
  <2> QED  BY <2>1, <2>2, <2>3
<1> QED  BY <1>1, Inductive, PTL

TbStep(p) ==
    process[p].pkts \notin {<< >>, process[p].pkts'} =>
        \/ cell' # cell
        \/ process[p].n + 1 >= retryLimit
        \/ air' # << >> /\ Last(air').pkts = process[p].pkts

\* A TB leaves its process as a whole and to the UE, or when all attempts have
\* been made, or with the cell: SetNDI (LTENR_HARQ.c:404-428) and the grant of
\* the scheduler (LTENR_MAC.c:207-216) never replace it by new data.
THEOREM TbKept == Spec => TbKeptUntilSent
<1>1. IInv /\ [Next]_vars => [\A p \in Processes : TbStep(p)]_vars
  <2> SUFFICES ASSUME IInv, Next, NEW q \in Processes PROVE TbStep(q)
    BY DEF Processes
  <2>1. ASSUME process' = process PROVE TbStep(q)
    BY <2>1 DEF TbStep
  <2>2. ASSUME NEW n \in Sizes, TransmitPDCPSDU(n) PROVE TbStep(q)
    BY <2>1, <2>2 DEF TransmitPDCPSDU, harq
  <2>3. ASSUME NEW k \in 1 .. MaxSdus, HANDLE_DISCARD_TIMER(k) PROVE TbStep(q)
    BY <2>1, <2>3 DEF HANDLE_DISCARD_TIMER, harq
  <2>4. CASE macIn
    BY <2>1, <2>4 DEF macIn, harq
  <2>5. CASE GENERATE_HANDOVER_COMMAND_HANDLE
    <3>1. cell' = cell + 1 /\ cell \in 0 .. MaxHandovers
      BY <2>5 DEF GENERATE_HANDOVER_COMMAND_HANDLE, IInv, HarqOK
    <3>2. cell' # cell
      BY <3>1, ConstantFacts
    <3> QED  BY <3>2 DEF TbStep
  <2>6. ASSUME NEW prb \in 0 .. MaxPrb, NEW error \in BOOLEAN, StartingSlot(prb, error)
        PROVE  TbStep(q)
    <3>1. PICK p, pkts, new :
             pkts = StoreDLPacket(p, new.pdus) /\ SendToReceiver(p, pkts, error)
      BY <2>6, Zenon DEF StartingSlot
    <3> DEFINE S == [cell : 0 .. cell, pkts : Seq(Pdu)]
               tb == [cell |-> cell, pkts |-> pkts]
               m == IF SetNDI(p) THEN 0 ELSE TransmissionNumber(p)
               h == [pkts |-> IF error THEN pkts ELSE << >>, n |-> m]
    <3>2. process \in [Processes -> [pkts : Seq(Pdu), n : Nat]] /\ air \in Seq(S)
          /\ cell \in 0 .. MaxHandovers
      BY DEF IInv, HarqOK
    <3>3. process' = [process EXCEPT ![p] = h]
      BY <3>1 DEF SendToReceiver
    <3>4. air' = IF ~error /\ pkts # << >> THEN Append(air, tb) ELSE air
      BY <3>1 DEF SendToReceiver
    <3>5. h.pkts = IF error THEN pkts ELSE << >>
      OBVIOUS
    <3> HIDE DEF h, m
    <3>6. process'[q] = IF q = p THEN h ELSE process[q]
      BY <3>2, <3>3
    <3>7. CASE q # p
      BY <3>6, <3>7 DEF TbStep
    <3>8. CASE q = p /\ SetNDI(p)
      BY <3>8 DEF SetNDI, GivesUp, TransmissionNumber, TbStep
    <3>9. CASE q = p /\ ~SetNDI(p)
      <4>1. pkts = process[q].pkts /\ process'[q].pkts = IF error THEN pkts ELSE << >>
        BY <3>1, <3>5, <3>6, <3>9 DEF StoreDLPacket
      <4>2. CASE error
        BY <4>1, <4>2 DEF TbStep
      <4>3. CASE pkts = << >>
        BY <4>1, <4>3 DEF TbStep
      <4>4. CASE ~error /\ pkts # << >>
        <5>1. pkts \in Seq(Pdu) /\ cell \in 0 .. cell
          BY <3>2, <4>1, ConstantFacts
        <5>2. tb \in S /\ tb.pkts = pkts
          BY <5>1
        <5> HIDE DEF S, tb
        <5>3. Append(air, tb) # << >> /\ Last(Append(air, tb)) = tb
          <6>1. /\ Append(air, tb) \in Seq(S) /\ Len(Append(air, tb)) = Len(air) + 1
                /\ Append(air, tb)[Len(air) + 1] = tb /\ Len(air) \in Nat
            BY <3>2, <5>2, AppendProperties, LenProperties
          <6>2. Len(Append(air, tb)) # 0
            BY <6>1
          <6> QED  BY <6>1, <6>2, EmptySeq DEF Last
        <5> QED  BY <3>4, <4>1, <4>4, <5>2, <5>3 DEF TbStep
      <4> QED  BY <4>2, <4>3, <4>4
    <3> QED  BY <3>7, <3>8, <3>9
  <2> QED  BY <2>2, <2>3, <2>4, <2>5, <2>6 DEF Next
<1>2. Spec => [][\A p \in Processes : TbStep(p)]_vars
  BY <1>1, Inductive, PTL DEF Spec
<1> QED  BY <1>2 DEF TbKeptUntilSent, TbStep
-----------------------------------------------------------------------------
(***************************************************************************)
(* The payload of packets does not depend on the order they arrive in.     *)
(***************************************************************************)
Injective(s) == \A i, j \in 1 .. Len(s) : s[i] = s[j] => i = j
Lengths(S) == \A x \in S : x.len \in Int

LEMMA SizedIn ==
    ASSUME NEW S, Lengths(S), NEW s \in Seq(S)
    PROVE  Sized(s) /\ Payload(s) \in Int
<1>1. Len(s) \in Nat /\ \A i \in 1 .. Len(s) : s[i] \in S
  BY LenProperties, ElementOfSeq
<1>2. Sized(s)
  BY <1>1 DEF Sized, Lengths
<1> QED  BY <1>2, PayloadSame

\* Sequence t without its element i.
Without(t, i) == [j \in 1 .. Len(t) - 1 |-> IF j < i THEN t[j] ELSE t[j + 1]]

LEMMA WithoutFacts ==
    ASSUME NEW S, Lengths(S), NEW t \in Seq(S), Injective(t), NEW i \in 1 .. Len(t)
    PROVE  /\ Without(t, i) \in Seq(S) /\ Len(Without(t, i)) = Len(t) - 1
           /\ Injective(Without(t, i))
           /\ ToSet(Without(t, i)) = ToSet(t) \ {t[i]}
           /\ t[i].len \in Int /\ Payload(Without(t, i)) \in Int
           /\ Payload(t) = Payload(Without(t, i)) + t[i].len
<1> DEFINE n == Len(t)
           u == Without(t, i)
           a == SubSeq(t, 1, i - 1)
           b == SubSeq(t, i + 1, n)
           v == SubSeq(t, 1, i)
           e == One(t[i].len)
<1>1. n \in Nat /\ i \in Nat /\ 1 <= i /\ i <= n /\ \A j \in 1 .. n : t[j] \in S
  BY LenProperties, ElementOfSeq
<1>2. \A j \in 1 .. n - 1 : /\ u[j] = IF j < i THEN t[j] ELSE t[j + 1]
                            /\ u[j] \in S
  <2> TAKE j \in 1 .. n - 1
  <2>1. j \in 1 .. n /\ j + 1 \in 1 .. n
    BY <1>1
  <2>2. u[j] = IF j < i THEN t[j] ELSE t[j + 1]
    BY DEF Without
  <2> HIDE DEF u, n
  <2> QED  BY <1>1, <2>1, <2>2
<1>3. u \in Seq(S) /\ Len(u) = n - 1
  <2>1. u = [j \in 1 .. n - 1 |-> u[j]]
    BY DEF Without
  <2>2. n - 1 \in Nat
    BY <1>1
  <2> HIDE DEF u, n
  <2> QED  BY <1>2, <2>1, <2>2, IsSeq
<1> HIDE DEF u
<1>4. Injective(u)
  <2> SUFFICES ASSUME NEW j \in 1 .. n - 1, NEW k \in 1 .. n - 1, u[j] = u[k] PROVE j = k
    BY <1>3 DEF Injective
  <2> DEFINE x == IF j < i THEN j ELSE j + 1
             y == IF k < i THEN k ELSE k + 1
  <2>1. x \in 1 .. n /\ y \in 1 .. n /\ u[j] = t[x] /\ u[k] = t[y]
    <3>1. x \in 1 .. n /\ y \in 1 .. n
      BY <1>1
    <3>2. u[j] = t[x]
      BY <1>2
    <3>3. u[k] = t[y]
      BY <1>2
    <3> QED  BY <3>1, <3>2, <3>3
  <2>2. x = y
    <3> HIDE DEF x, y
    <3> QED  BY <2>1 DEF Injective
  <2> QED  BY <1>1, <2>2
<1>5. ToSet(u) = ToSet(t) \ {t[i]}
  <2>1. ASSUME NEW x \in ToSet(u) PROVE x \in ToSet(t) /\ x # t[i]
    <3>1. PICK j \in 1 .. n - 1 : x = u[j]
      BY <1>3, <2>1, ToSetFacts
    <3> DEFINE k == IF j < i THEN j ELSE j + 1
    <3>2. k \in 1 .. n /\ k # i
      BY <1>1, <3>1
    <3>3. x = t[k]
      BY <1>2, <3>1
    <3> HIDE DEF k
    <3> QED  BY <1>1, <3>2, <3>3, ToSetFacts DEF Injective
  <2>2. ASSUME NEW x \in ToSet(t), x # t[i] PROVE x \in ToSet(u)
    <3>1. PICK k \in 1 .. n : x = t[k]
      BY <2>2, ToSetFacts
    <3>2. k # i
      BY <2>2, <3>1
    <3> DEFINE j == IF k < i THEN k ELSE k - 1
    <3>3. j \in 1 .. n - 1 /\ (IF j < i THEN j ELSE j + 1) = k
      BY <1>1, <3>2
    <3> HIDE DEF j
    <3>4. u[j] = t[k]
      BY <1>2, <3>3
    <3> QED  BY <1>3, <3>1, <3>3, <3>4, ToSetFacts
  <2> QED  BY <2>1, <2>2
<1>6. /\ a \in Seq(S) /\ Len(a) = i - 1 /\ \A j \in 1 .. i - 1 : a[j] = t[j]
      /\ v \in Seq(S) /\ Len(v) = i /\ \A j \in 1 .. i : v[j] = t[j]
      /\ b \in Seq(S) /\ Len(b) = n - i /\ \A j \in 1 .. n - i : b[j] = t[i + j]
  <2>1. i - 1 \in 0 .. n /\ i \in 0 .. n
    BY <1>1
  <2> HIDE DEF n
  <2> QED  BY <2>1, SubSeqFacts DEF n
<1>7. Len(e) = 1 /\ e[1].len = t[i].len /\ Sized(e) /\ Payload(e) = t[i].len /\ t[i].len \in Int
  BY <1>1, OneLemma DEF Lengths
<1> HIDE DEF a, b, v, e
<1>8. Sized(t) /\ Sized(u) /\ Sized(a) /\ Sized(b) /\ Sized(v)
  BY <1>3, <1>6, SizedIn
<1>9. Payload(t) = Payload(v) + Payload(b) /\ Payload(v) \in Int /\ Payload(b) \in Int
  <2>1. Joined(t, v, b)
    BY <1>1, <1>6 DEF Joined
  <2> QED  BY <1>8, <2>1, PayloadConcat
<1>10. Payload(v) = Payload(a) + Payload(e) /\ Payload(a) \in Int
  <2>1. Joined(v, a, e)
    <3>1. Len(v) = Len(a) + Len(e)
      BY <1>1, <1>6, <1>7
    <3>2. \A j \in 1 .. Len(a) : v[j].len = a[j].len
      <4>1. \A j \in 1 .. i - 1 : j \in 1 .. i
        BY <1>1
      <4> QED  BY <1>6, <4>1
    <3>3. \A j \in 1 .. Len(e) : v[Len(a) + j].len = e[j].len
      <4>1. Len(a) + 1 = i /\ i \in 1 .. i
        BY <1>1, <1>6
      <4> QED  BY <1>6, <1>7, <4>1
    <3> QED  BY <3>1, <3>2, <3>3 DEF Joined
  <2> QED  BY <1>7, <1>8, <2>1, PayloadConcat
<1>11. Payload(u) = Payload(a) + Payload(b)
  <2>1. Joined(u, a, b)
    <3>1. Len(u) = Len(a) + Len(b)
      BY <1>1, <1>3, <1>6
    <3>2. \A j \in 1 .. Len(a) : u[j].len = a[j].len
      <4>1. \A j \in 1 .. i - 1 : j \in 1 .. n - 1 /\ j < i
        BY <1>1
      <4> QED  BY <1>2, <1>6, <4>1
    <3>3. \A j \in 1 .. Len(b) : u[Len(a) + j].len = b[j].len
      <4> TAKE j \in 1 .. Len(b)
      <4> DEFINE k == Len(a) + j
      <4>1. k \in 1 .. n - 1 /\ ~(k < i) /\ k + 1 = i + j /\ j \in 1 .. n - i
        BY <1>1, <1>6
      <4> HIDE DEF k
      <4>2. u[k] = t[i + j]
        BY <1>2, <4>1
      <4> QED  BY <1>6, <4>1, <4>2 DEF k
    <3> QED  BY <3>1, <3>2, <3>3 DEF Joined
  <2> QED  BY <1>8, <2>1, PayloadConcat
<1> DEFINE T == Payload(t)
           U == Payload(u)
           A == Payload(a)
           B == Payload(b)
           V == Payload(v)
           E == t[i].len
<1>12. /\ A \in Int /\ B \in Int /\ V \in Int /\ E \in Int
       /\ T = V + B /\ V = A + E /\ U = A + B
  BY <1>7, <1>9, <1>10, <1>11
<1> HIDE DEF T, U, A, B, V, E
<1>13. T = U + E /\ U \in Int /\ E \in Int
  BY <1>12
<1>14. u = Without(t, i) /\ n = Len(t)
  BY DEF u
<1> QED  BY <1>3, <1>4, <1>5, <1>13, <1>14, Zenon DEF T, U, E

LEMMA PayloadPermuted ==
    ASSUME NEW S, Lengths(S), NEW s \in Seq(S), NEW t \in Seq(S),
           Injective(s), Injective(t), ToSet(s) = ToSet(t)
    PROVE  Payload(s) = Payload(t)
<1> DEFINE Differ(u, v) == /\ Injective(u) /\ Injective(v) /\ ToSet(u) = ToSet(v)
                           /\ Payload(u) # Payload(v)
           D == {n \in Nat : \E u, v \in Seq(S) : Len(u) = n /\ Differ(u, v)}
<1>1. SUFFICES ASSUME D # {} PROVE FALSE
  <2>1. Len(s) \in Nat
    BY LenProperties
  <2> QED  BY <2>1
<1>2. PICK n \in D : \A m \in D : n <= m
  <2>1. D \in SUBSET Nat
    OBVIOUS
  <2> HIDE DEF D
  <2> QED  BY <1>1, <2>1, LeastIndex
<1>3. n \in Nat /\ \E u, v \in Seq(S) : Len(u) = n /\ Differ(u, v)
  BY <1>2
<1>4. PICK u \in Seq(S), v \in Seq(S) : Len(u) = n /\ Differ(u, v)
  BY <1>3
<1>5. Len(v) \in Nat
  BY LenProperties
<1>6. CASE n = 0
  <2>1. u = << >>
    BY <1>4, <1>6, EmptySeq
  <2>2. ToSet(v) = {}
    BY <1>4, <2>1 DEF ToSet
  <2>3. Len(v) = 0
    <3>1. CASE 1 \in 1 .. Len(v)
      BY <2>2, <3>1, ToSetFacts
    <3> QED  BY <1>5, <3>1
  <2>4. v = << >>
    BY <2>3, EmptySeq
  <2> QED  BY <1>4, <2>1, <2>4
<1>7. CASE n # 0
  <2>1. n \in 1 .. Len(u)
    BY <1>3, <1>4, <1>7
  <2>2. u[n] \in ToSet(v)
    BY <1>4, <2>1, ToSetFacts
  <2>3. PICK i \in 1 .. Len(v) : u[n] = v[i]
    BY <2>2, ToSetFacts
  <2> DEFINE a == Without(u, n)
             b == Without(v, i)
  <2>4. /\ a \in Seq(S) /\ Len(a) = n - 1 /\ Injective(a) /\ ToSet(a) = ToSet(u) \ {u[n]}
        /\ Payload(u) = Payload(a) + u[n].len
    <3>1. Injective(u) /\ u \in Seq(S)
      BY <1>4
    <3> HIDE DEF D, Differ
    <3>2. /\ a \in Seq(S) /\ Len(a) = Len(u) - 1 /\ Injective(a)
          /\ ToSet(a) = ToSet(u) \ {u[n]} /\ Payload(u) = Payload(a) + u[n].len
      BY <2>1, <3>1, WithoutFacts
    <3> HIDE DEF a
    <3> QED  BY <1>4, <3>2
  <2>5. /\ b \in Seq(S) /\ Injective(b) /\ ToSet(b) = ToSet(v) \ {v[i]}
        /\ Payload(v) = Payload(b) + v[i].len
    <3>1. Injective(v) /\ v \in Seq(S)
      BY <1>4
    <3> HIDE DEF D, Differ
    <3> QED  BY <2>3, <3>1, WithoutFacts
  <2> HIDE DEF a, b
  <2>6. Payload(a) # Payload(b)
    BY <1>4, <2>3, <2>4, <2>5
  <2>7. Differ(a, b)
    BY <1>4, <2>3, <2>4, <2>5, <2>6
  <2>8. n - 1 \in Nat /\ ~(n <= n - 1)
    BY <1>3, <1>7
  <2> HIDE DEF Differ
  <2>9. n - 1 \in D
    BY <2>4, <2>5, <2>7, <2>8
  <2> HIDE DEF D
  <2> QED  BY <1>2, <2>8, <2>9
<1> QED  BY <1>6, <1>7
-----------------------------------------------------------------------------
(***************************************************************************)
(* Where the pieces of the SDUs are.  z are the sizes of the SDUs          *)
(* accepted, b is the buffer of the sender with next as its next SN; X are *)
(* the PDUs under way or in the reception buffers; of the SDUs gone a PDU  *)
(* was freed; those of done were handed up or discarded as late.           *)
(*                                                                         *)
(* A piece is known by its SDU and its number so.  Order: there is at most *)
(* one PDU for each piece, the pieces of an SDU have the same SN, and none *)
(* follows the last one (Final) or one still in the buffer.  Settled:      *)
(* nothing is left of an SDU that is done.  Broken: of an SDU gone a piece *)
(* is missing and will not be made again.  Complete: all pieces of any     *)
(* other SDU are there, and they have its size.                            *)
(***************************************************************************)
Buffered == [id : Int, len : Int, so : Nat]
UnderWay == [id : Int, len : Int, so : Nat, sn : Nat, si : {"ALL", "FIRST", "MIDDLE", "LAST"}]

Base(z, b) == First + Len(z) - Len(b)
SizeOf(z, c) == z[c - First + 1]
Final(x) == x.si \in {"LAST", "ALL"}

Typed(z, b, next, X, gone, done) ==
    /\ z \in Seq(Nat) /\ b \in Seq(Buffered) /\ next \in Nat
    /\ X \subseteq UnderWay /\ gone \subseteq Int /\ done \subseteq Int
InBuffer(z, b) ==
    /\ Len(b) <= Len(z)
    /\ \A i \in 1 .. Len(b) : b[i].id = Base(z, b) + (i - 1)
    /\ \A i \in 2 .. Len(b) : b[i].so = 0
Order(z, b, next, X) ==
    /\ \A x \in X : /\ x.id <= Base(z, b) /\ x.id < First + Len(z)
                    /\ x.si = "ALL" => x.so = 0
                    /\ x.id = Base(z, b) => x.so < b[1].so /\ ~Final(x) /\ x.sn = next
    /\ \A x, y \in X : x.id = y.id => /\ x.so = y.so => x = y
                                      /\ Final(y) => x.so <= y.so
                                      /\ x.sn = y.sn
Settled(z, b, X, gone, done) ==
    \A c \in done : c < Base(z, b) /\ c \notin gone /\ \A x \in X : x.id # c
Missing(z, b, X, c, j) ==
    /\ c = Base(z, b) => Len(b) > 0 /\ j < b[1].so
    /\ \A x \in X : x.id = c => x.so # j /\ (Final(x) => j < x.so)
Broken(z, b, X, gone) == \A c \in gone : c <= Base(z, b) /\ \E j \in Nat : Missing(z, b, X, c, j)
PiecesOf(c, q, b, X) ==
    /\ q \in Seq(UnderWay \cup Buffered) /\ Len(q) > 0
    /\ \A i \in 1 .. Len(q) : q[i].id = c /\ q[i].so = i - 1
    /\ \A i \in 1 .. Len(q) - 1 : q[i] \in X
    /\ q[Len(q)] \in ToSet(b) \/ (q[Len(q)] \in X /\ Final(q[Len(q)]))
Complete(z, b, X, gone, done) ==
    \A c \in First .. First + Len(z) - 1 :
        c \notin gone \cup done => \E q : PiecesOf(c, q, b, X) /\ Payload(q) = SizeOf(z, c)

Net(z, b, next, X, gone, done) ==
    /\ Typed(z, b, next, X, gone, done) /\ InBuffer(z, b) /\ Order(z, b, next, X)
    /\ Settled(z, b, X, gone, done) /\ Broken(z, b, X, gone) /\ Complete(z, b, X, gone, done)

LEMMA NetNumbers ==
    ASSUME NEW z, NEW b, NEW next, NEW X, NEW gone, NEW done, Typed(z, b, next, X, gone, done)
    PROVE  /\ Len(z) \in Nat /\ Len(b) \in Nat /\ First \in Nat /\ Base(z, b) \in Int
           /\ Base(z, b) = First + Len(z) - Len(b)
           /\ \A i \in 1 .. Len(b) : b[i] \in Buffered /\ b[i].id \in Int /\ b[i].so \in Nat
           /\ \A x \in X : x.id \in Int /\ x.so \in Nat /\ x.sn \in Nat /\ x.len \in Int
<1>1. Len(z) \in Nat /\ Len(b) \in Nat /\ First \in Nat
  BY LenProperties, ConstantFacts DEF Typed
<1>2. Base(z, b) \in Int /\ Base(z, b) = First + Len(z) - Len(b)
  BY <1>1 DEF Base
<1>3. \A i \in 1 .. Len(b) : b[i] \in Buffered
  BY ElementOfSeq DEF Typed
<1>4. \A i \in 1 .. Len(b) : b[i].id \in Int /\ b[i].so \in Nat
  BY <1>3 DEF Buffered
<1>5. \A x \in X : x.id \in Int /\ x.so \in Nat /\ x.sn \in Nat /\ x.len \in Int
  BY DEF Typed, UnderWay
<1> QED  BY <1>1, <1>2, <1>3, <1>4, <1>5

\* The pieces of an SDU stay its pieces as long as none is taken away.
LEMMA PiecesKept ==
    ASSUME NEW c, NEW q, NEW b, NEW X, NEW d, NEW Y, PiecesOf(c, q, b, X),
           \A x \in X : x.id = c => x \in Y,
           \A p \in ToSet(b) : p.id = c => p \in ToSet(d)
    PROVE  PiecesOf(c, q, d, Y)
<1>1. Len(q) \in 1 .. Len(q) /\ \A i \in 1 .. Len(q) - 1 : i \in 1 .. Len(q)
  <2>1. Len(q) \in Nat /\ Len(q) > 0
    BY LenProperties DEF PiecesOf
  <2> QED  BY <2>1
<1>2. \A i \in 1 .. Len(q) : q[i].id = c
  BY DEF PiecesOf
<1>3. \A i \in 1 .. Len(q) - 1 : q[i] \in Y
  BY <1>1, <1>2 DEF PiecesOf
<1>4. q[Len(q)] \in ToSet(d) \/ (q[Len(q)] \in Y /\ Final(q[Len(q)]))
  BY <1>1, <1>2 DEF PiecesOf
<1> QED  BY <1>3, <1>4 DEF PiecesOf

\* PDUs are freed: all SDUs they belong to are gone.
LEMMA DropNet ==
    ASSUME NEW z, NEW b, NEW next, NEW X, NEW gone, NEW done,
           Net(z, b, next, X, gone, done), NEW D \in SUBSET X
    PROVE  Net(z, b, next, X \ D, gone \cup {x.id : x \in D}, done)
<1> DEFINE Y == X \ D
           lose == gone \cup {x.id : x \in D}
           B == Base(z, b)
<1>1. /\ Typed(z, b, next, X, gone, done) /\ InBuffer(z, b) /\ Order(z, b, next, X)
      /\ Settled(z, b, X, gone, done) /\ Broken(z, b, X, gone) /\ Complete(z, b, X, gone, done)
  BY DEF Net
<1>2. /\ Len(z) \in Nat /\ Len(b) \in Nat /\ First \in Nat /\ B \in Int
      /\ B = First + Len(z) - Len(b)
      /\ \A x \in X : x.id \in Int /\ x.so \in Nat
  BY <1>1, NetNumbers
<1>3. Y \subseteq X /\ \A x \in D : x \in X /\ x \notin Y
  OBVIOUS
<1>4. \A c \in lose : c \in gone \/ \E x \in D : c = x.id
  OBVIOUS
<1>5. Typed(z, b, next, Y, lose, done)
  <2>1. lose \subseteq Int
    <3> HIDE DEF lose
    <3> QED  BY <1>1, <1>2, <1>3, <1>4 DEF Typed
  <2> HIDE DEF lose, Y
  <2> QED  BY <1>1, <1>3, <2>1 DEF Typed
<1> HIDE DEF B
<1>6. Order(z, b, next, Y)
  <2> HIDE DEF Y
  <2> QED  BY <1>1, <1>3 DEF Order
<1>7. Settled(z, b, Y, lose, done)
  <2> HIDE DEF lose, Y
  <2> QED  BY <1>1, <1>3, <1>4 DEF Settled
<1>8. Broken(z, b, Y, lose)
  <2> SUFFICES ASSUME NEW c \in lose PROVE c <= B /\ \E j \in Nat : Missing(z, b, Y, c, j)
    BY DEF Broken, B
  <2>1. CASE c \in gone
    <3>1. c <= B /\ \E j \in Nat : Missing(z, b, X, c, j)
      BY <1>1, <2>1 DEF Broken, B
    <3> HIDE DEF Y
    <3> QED  BY <1>3, <3>1 DEF Missing
  <2>2. CASE c \notin gone
    <3>1. PICK x \in D : c = x.id
      BY <1>4, <2>2
    <3>2. /\ x \in X /\ x.so \in Nat /\ x.id \in Int /\ c <= B /\ c < First + Len(z)
          /\ c = B => x.so < b[1].so
      BY <1>1, <1>2, <1>3, <3>1 DEF Order, B
    <3>3. c = B => Len(b) > 0
      BY <1>2, <3>1, <3>2
    <3>4. ASSUME NEW y \in Y, y.id = c PROVE y.so # x.so /\ (Final(y) => x.so < y.so)
      <4>1. y \in X /\ y # x /\ y.so \in Nat
        BY <1>2, <3>1
      <4>2. y.so # x.so
        BY <1>1, <3>1, <3>2, <3>4, <4>1 DEF Order
      <4>3. Final(y) => x.so <= y.so
        BY <1>1, <3>1, <3>2, <3>4, <4>1 DEF Order
      <4> QED  BY <3>2, <4>1, <4>2, <4>3
    <3> HIDE DEF Y
    <3>5. Missing(z, b, Y, c, x.so)
      BY <3>2, <3>3, <3>4 DEF Missing, B
    <3> QED  BY <3>2, <3>5
  <2> QED  BY <2>1, <2>2
<1>9. Complete(z, b, Y, lose, done)
  <2> SUFFICES ASSUME NEW c \in First .. First + Len(z) - 1, c \notin lose \cup done
               PROVE  \E q : PiecesOf(c, q, b, Y) /\ Payload(q) = SizeOf(z, c)
    BY DEF Complete
  <2>1. c \notin gone \cup done /\ \A x \in D : x.id # c
    OBVIOUS
  <2>2. PICK q : PiecesOf(c, q, b, X) /\ Payload(q) = SizeOf(z, c)
    BY <1>1, <2>1 DEF Complete
  <2>3. \A x \in X : x.id = c => x \in Y
    BY <2>1
  <2> HIDE DEF Y
  <2>4. PiecesOf(c, q, b, Y)
    BY <2>2, <2>3, PiecesKept
  <2> QED  BY <2>2, <2>4
<1> HIDE DEF lose, Y
<1>10. Net(z, b, next, Y, lose, done)
  BY <1>1, <1>5, <1>6, <1>7, <1>8, <1>9 DEF Net
<1> QED  BY <1>10 DEF lose, Y

\* An SDU is done, and with it all its PDUs.
LEMMA TakeNet ==
    ASSUME NEW z, NEW b, NEW next, NEW X, NEW gone, NEW done,
           Net(z, b, next, X, gone, done), NEW c \in Int, c \notin gone, c < Base(z, b)
    PROVE  Net(z, b, next, {x \in X : x.id # c}, gone, done \cup {c})
<1> DEFINE Y == {x \in X : x.id # c}
           all == done \cup {c}
<1>1. /\ Typed(z, b, next, X, gone, done) /\ InBuffer(z, b) /\ Order(z, b, next, X)
      /\ Settled(z, b, X, gone, done) /\ Broken(z, b, X, gone) /\ Complete(z, b, X, gone, done)
  BY DEF Net
<1>2. Y \subseteq X /\ (\A x \in Y : x.id # c) /\ (\A x \in X : x.id # c => x \in Y)
  OBVIOUS
<1>3. \A e : e \in all <=> e \in done \/ e = c
  OBVIOUS
<1> HIDE DEF Y, all
<1>4. Typed(z, b, next, Y, gone, all)
  BY <1>1, <1>2, <1>3 DEF Typed
<1>5. Order(z, b, next, Y)
  BY <1>1, <1>2 DEF Order
<1>6. Settled(z, b, Y, gone, all)
  BY <1>1, <1>2, <1>3 DEF Settled
<1>7. Broken(z, b, Y, gone)
  <2> SUFFICES ASSUME NEW e \in gone PROVE e <= Base(z, b) /\ \E j \in Nat : Missing(z, b, Y, e, j)
    BY DEF Broken
  <2>1. e <= Base(z, b) /\ \E j \in Nat : Missing(z, b, X, e, j)
    BY <1>1 DEF Broken
  <2> QED  BY <1>2, <2>1 DEF Missing
<1>8. Complete(z, b, Y, gone, all)
  <2> SUFFICES ASSUME NEW e \in First .. First + Len(z) - 1, e \notin gone \cup all
               PROVE  \E q : PiecesOf(e, q, b, Y) /\ Payload(q) = SizeOf(z, e)
    BY DEF Complete
  <2>1. e \notin gone \cup done /\ e # c
    BY <1>3
  <2>2. PICK q : PiecesOf(e, q, b, X) /\ Payload(q) = SizeOf(z, e)
    BY <1>1, <2>1 DEF Complete
  <2>3. \A x \in X : x.id = e => x \in Y
    BY <1>2, <2>1
  <2>4. PiecesOf(e, q, b, Y)
    BY <2>2, <2>3, PiecesKept
  <2> QED  BY <2>2, <2>4
<1>9. Net(z, b, next, Y, gone, all)
  BY <1>1, <1>4, <1>5, <1>6, <1>7, <1>8 DEF Net
<1> QED  BY <1>9 DEF Y, all

\* The PDUs segs of SDU c with which it is complete are all there is of it.
HasAll(segs) ==
    \E p \in ToSet(segs) : Final(p) /\ \A i \in 0 .. p.so - 1 : \E q \in ToSet(segs) : q.so = i

LEMMA CompleteFacts ==
    ASSUME NEW z, NEW b, NEW next, NEW X, NEW gone, NEW done, Net(z, b, next, X, gone, done),
           NEW segs \in Seq(X), Injective(segs), HasAll(segs),
           NEW c \in Int, First <= c, \A x \in ToSet(segs) : x.id = c
    PROVE  /\ c \notin gone /\ c \notin done /\ c < Base(z, b)
           /\ Payload(segs) = SizeOf(z, c)
           /\ \A x \in X : x.id = c => x \in ToSet(segs)
<1> DEFINE B == Base(z, b)
<1>1. /\ Typed(z, b, next, X, gone, done) /\ InBuffer(z, b) /\ Order(z, b, next, X)
      /\ Settled(z, b, X, gone, done) /\ Broken(z, b, X, gone) /\ Complete(z, b, X, gone, done)
  BY DEF Net
<1>2. /\ Len(z) \in Nat /\ Len(b) \in Nat /\ First \in Nat /\ B \in Int
      /\ B = First + Len(z) - Len(b)
      /\ \A x \in X : x.id \in Int /\ x.so \in Nat /\ x.len \in Int
  BY <1>1, NetNumbers
<1>3. \A x \in ToSet(segs) : x \in X /\ x.id = c
  BY ToSetFacts
<1>4. PICK p \in ToSet(segs) :
         Final(p) /\ \A i \in 0 .. p.so - 1 : \E q \in ToSet(segs) : q.so = i
  BY DEF HasAll
<1>5. p \in X /\ p.id = c /\ p.so \in Nat
  BY <1>2, <1>3
<1>6. c < B /\ c < First + Len(z)
  BY <1>1, <1>2, <1>4, <1>5 DEF Order
<1>7. c \notin done
  BY <1>1, <1>5 DEF Settled
<1>8. c \notin gone
  <2> SUFFICES ASSUME c \in gone PROVE FALSE
    OBVIOUS
  <2>1. PICK j \in Nat : \A x \in X : x.id = c => x.so # j /\ (Final(x) => j < x.so)
    BY <1>1 DEF Broken, Missing
  <2>2. j \in 0 .. p.so - 1
    BY <1>4, <1>5, <2>1
  <2>3. PICK q \in ToSet(segs) : q.so = j
    BY <1>4, <2>2
  <2> QED  BY <1>3, <2>1, <2>3
<1>9. PICK q : PiecesOf(c, q, b, X) /\ Payload(q) = SizeOf(z, c)
  <2>1. c \in First .. First + Len(z) - 1 /\ c \notin gone \cup done
    BY <1>2, <1>6, <1>7, <1>8
  <2> QED  BY <1>1, <2>1 DEF Complete
<1> DEFINE m == Len(q)
<1>10. /\ q \in Seq(UnderWay \cup Buffered) /\ m \in Nat /\ m > 0
       /\ \A i \in 1 .. m : q[i].id = c /\ q[i].so = i - 1
  BY <1>9, LenProperties DEF PiecesOf
<1>11. q[m] \in X /\ Final(q[m])
  <2>1. q[m] \notin ToSet(b)
    <3> SUFFICES ASSUME q[m] \in ToSet(b) PROVE FALSE
      OBVIOUS
    <3>1. PICK i \in 1 .. Len(b) : q[m] = b[i]
      BY <1>1, ToSetFacts DEF Typed
    <3>2. b[i].id = B + (i - 1)
      BY <1>1 DEF InBuffer
    <3>3. m \in 1 .. m
      BY <1>10
    <3>4. q[m].id = c
      BY <1>10, <3>3
    <3> HIDE DEF B, m
    <3> QED  BY <1>2, <1>6, <3>1, <3>2, <3>4
  <2> QED  BY <1>9, <2>1 DEF PiecesOf
<1>12. \A i \in 1 .. m : q[i] \in X
  <2>1. \A i \in 1 .. m - 1 : q[i] \in X
    BY <1>9 DEF PiecesOf
  <2>2. \A i \in 1 .. m : i = m \/ i \in 1 .. m - 1
    BY <1>10
  <2> HIDE DEF m
  <2> QED  BY <1>11, <2>1, <2>2
<1>13. q \in Seq(X)
  <2>1. q = [i \in 1 .. m |-> q[i]]
    BY <1>10
  <2> QED  BY <1>10, <1>12, <2>1, IsSeq
<1>14. \A x : x \in ToSet(q) <=> \E i \in 1 .. m : x = q[i]
  BY <1>13, ToSetFacts
<1> HIDE DEF m, B
<1>15. ASSUME NEW x \in X, x.id = c PROVE x \in ToSet(q) /\ x \in ToSet(segs)
  <2>1. x \in ToSet(q)
    <3> DEFINE i == x.so + 1
    <3>1. m \in 1 .. m /\ q[m].so = m - 1 /\ q[m].id = c
      BY <1>10
    <3>2. x.so <= q[m].so
      BY <1>1, <1>11, <1>15, <3>1 DEF Order
    <3>3. x.so \in Nat /\ i \in 1 .. m /\ i - 1 = x.so
      <4> DEFINE s == x.so
      <4>1. s \in Nat /\ s <= m - 1 /\ m \in Nat
        BY <1>2, <1>10, <3>1, <3>2
      <4> HIDE DEF s
      <4>2. s + 1 \in 1 .. m /\ s + 1 - 1 = s
        BY <4>1
      <4> QED  BY <4>1, <4>2 DEF s
    <3>4. q[i] \in X /\ q[i].id = x.id /\ q[i].so = x.so
      BY <1>10, <1>12, <1>15, <3>3
    <3>5. q[i] = x
      BY <1>1, <3>4 DEF Order
    <3> QED  BY <1>14, <3>3, <3>5
  <2>2. x \in ToSet(segs)
    <3>1. x.so <= p.so /\ x.so \in Nat
      BY <1>1, <1>2, <1>4, <1>5, <1>15 DEF Order
    <3>2. CASE x.so = p.so
      BY <1>1, <1>5, <1>15, <3>2 DEF Order
    <3>3. CASE x.so # p.so
      <4>1. x.so \in 0 .. p.so - 1
        BY <1>5, <3>1, <3>3
      <4>2. PICK y \in ToSet(segs) : y.so = x.so
        BY <1>4, <4>1
      <4>3. y = x
        BY <1>1, <1>3, <1>15, <4>2 DEF Order
      <4> QED  BY <4>3
    <3> QED  BY <3>2, <3>3
  <2> QED  BY <2>1, <2>2
<1>16. ToSet(q) = ToSet(segs)
  <2>1. \A x \in ToSet(q) : x \in X /\ x.id = c
    BY <1>10, <1>12, <1>14
  <2> QED  BY <1>3, <1>15, <2>1
<1>17. Injective(q)
  <2>1. \A i \in 1 .. m, j \in 1 .. m : q[i] = q[j] => i - 1 = j - 1
    BY <1>10
  <2>2. \A i \in 1 .. m, j \in 1 .. m : q[i] = q[j] => i = j
    BY <1>10, <2>1
  <2> QED  BY <2>2 DEF Injective, m
<1>18. Lengths(X)
  BY <1>2 DEF Lengths
<1>19. Payload(segs) = Payload(q)
  BY <1>13, <1>16, <1>17, <1>18, PayloadPermuted
<1> QED  BY <1>6, <1>7, <1>8, <1>9, <1>15, <1>19 DEF B

\* The last packet is split in two.
LEMMA PayloadSplit ==
    ASSUME NEW q, NEW t, Sized(q), Sized(t), Len(q) > 0, Len(t) = Len(q) + 1,
           \A i \in 1 .. Len(q) - 1 : t[i].len = q[i].len,
           t[Len(q)].len + t[Len(q) + 1].len = q[Len(q)].len
    PROVE  Payload(t) = Payload(q)
<1> DEFINE m == Len(q)
           a == [i \in 1 .. m - 1 |-> q[i]]
           v == [i \in 1 .. 2 |-> t[m - 1 + i]]
           d == t[m].len
           e == t[m + 1].len
           f == q[m].len
<1>1. m \in Nat /\ m > 0 /\ \A i \in 1 .. m : q[i].len \in Int
  BY DEF Sized
<1>2. \A i \in 1 .. m + 1 : t[i].len \in Int
  BY DEF Sized
<1>3. /\ Len(a) = m - 1 /\ \A i \in 1 .. m - 1 : a[i].len = q[i].len
  <2>1. m - 1 \in Nat
    BY <1>1
  <2> HIDE DEF m
  <2> QED  BY <2>1
<1>4. d \in Int /\ e \in Int /\ f \in Int /\ d + e = f
  BY <1>1, <1>2
<1>5. Len(v) = 2 /\ v[1].len = d /\ v[2].len = e
  <2>1. m - 1 + 1 = m /\ m - 1 + 2 = m + 1
    BY <1>1
  <2> HIDE DEF m
  <2> QED  BY <2>1
<1> HIDE DEF a, v, d, e, f
<1>6. Sized(a) /\ Sized(v)
  <2>1. \A i \in 1 .. m - 1 : i \in 1 .. m
    BY <1>1
  <2>2. Sized(a)
    <3>1. Len(a) \in Nat
      BY <1>1, <1>3
    <3>2. \A i \in 1 .. Len(a) : a[i].len \in Int
      <4> HIDE DEF m
      <4> QED  BY <1>1, <1>3, <2>1
    <3> QED  BY <3>1, <3>2 DEF Sized
  <2>3. \A i \in 1 .. 2 : i = 1 \/ i = 2
    OBVIOUS
  <2> QED  BY <1>4, <1>5, <2>2, <2>3 DEF Sized
<1> DEFINE x == One(d)
           y == One(e)
           w == One(f)
<1>7. /\ Len(x) = 1 /\ x[1].len = d /\ Sized(x) /\ Payload(x) = d
      /\ Len(y) = 1 /\ y[1].len = e /\ Sized(y) /\ Payload(y) = e
      /\ Len(w) = 1 /\ w[1].len = f /\ Sized(w) /\ Payload(w) = f
  BY <1>4, OneLemma
<1> HIDE DEF x, y, w
<1>8. Payload(v) = d + e
  <2>1. Joined(v, x, y)
    <3>1. \A i \in 1 .. 1 : i = 1
      OBVIOUS
    <3> QED  BY <1>5, <1>7, <3>1 DEF Joined
  <2> QED  BY <1>6, <1>7, <2>1, PayloadConcat
<1>9. Payload(t) = Payload(a) + Payload(v) /\ Payload(a) \in Int
  <2>1. Len(t) = Len(a) + Len(v)
    BY <1>1, <1>3, <1>5
  <2>2. \A i \in 1 .. Len(a) : t[i].len = a[i].len
    BY <1>3
  <2>3. \A i \in 1 .. Len(v) : t[Len(a) + i].len = v[i].len
    BY <1>3, <1>5 DEF v
  <2>4. Joined(t, a, v)
    BY <2>1, <2>2, <2>3 DEF Joined
  <2> QED  BY <1>6, <2>4, PayloadConcat
<1>10. Payload(q) = Payload(a) + f
  <2>1. Len(q) = Len(a) + Len(w)
    BY <1>1, <1>3, <1>7
  <2>2. \A i \in 1 .. Len(a) : q[i].len = a[i].len
    BY <1>3
  <2>3. \A i \in 1 .. Len(w) : q[Len(a) + i].len = w[i].len
    <3> TAKE i \in 1 .. Len(w)
    <3>1. i = 1 /\ Len(a) + i = m
      BY <1>1, <1>3, <1>7
    <3> QED  BY <1>7, <3>1 DEF f
  <2>4. Joined(q, a, w)
    BY <2>1, <2>2, <2>3 DEF Joined
  <2> QED  BY <1>6, <1>7, <2>4, PayloadConcat
<1> QED  BY <1>4, <1>8, <1>9, <1>10

\* What SEND_PDU makes of the buffer b, B being the SDU at its head: the first
\* k packets become PDUs; if there is a cut, so do the first bytes of the next
\* one.  The rest is buf, and sn is the next SN.
Emitted(B, b, next, k, cut, pdus, buf, sn) ==
    /\ k \in 0 .. Len(b) /\ pdus \in Seq(UnderWay) /\ buf \in Seq(Buffered)
    /\ Len(pdus) = (IF cut THEN k + 1 ELSE k) /\ Len(buf) = Len(b) - k
    /\ sn = IF k > 0 /\ b[1].so > 0 THEN next + 1 ELSE next
    /\ \A i \in 1 .. Len(pdus) : pdus[i].id = B + (i - 1) /\ pdus[i].so = b[i].so
    /\ \A i \in 1 .. k : /\ Final(pdus[i]) /\ pdus[i].len = b[i].len
                         /\ pdus[i].si = "ALL" => b[i].so = 0
                         /\ b[i].so > 0 => pdus[i].sn = next
    /\ \A i \in 1 .. Len(buf) : buf[i] = b[k + i] \/ (i = 1 /\ cut)
    /\ cut => /\ k < Len(b) /\ ~Final(pdus[k + 1]) /\ pdus[k + 1].sn = sn
              /\ buf[1].id = b[k + 1].id /\ buf[1].so = b[k + 1].so + 1
              /\ buf[1].len = b[k + 1].len - pdus[k + 1].len

\* The PDUs of a slot are new, and everything stays where it should be.
LEMMA EmittedNet ==
    ASSUME NEW z, NEW b, NEW next, NEW X, NEW gone, NEW done, Net(z, b, next, X, gone, done),
           NEW k, NEW cut \in BOOLEAN, NEW pdus, NEW buf, NEW sn,
           Emitted(Base(z, b), b, next, k, cut, pdus, buf, sn)
    PROVE  /\ Injective(pdus) /\ X \cap ToSet(pdus) = {}
           /\ Net(z, buf, sn, X \cup ToSet(pdus), gone, done)
<1> DEFINE B == Base(z, b)
           C == Base(z, buf)
           L == Len(z)
           l == Len(b)
           N == ToSet(pdus)
           Y == X \cup N
<1>1. /\ Typed(z, b, next, X, gone, done) /\ InBuffer(z, b) /\ Order(z, b, next, X)
      /\ Settled(z, b, X, gone, done) /\ Broken(z, b, X, gone) /\ Complete(z, b, X, gone, done)
  BY DEF Net
<1>2. /\ L \in Nat /\ l \in Nat /\ First \in Nat /\ B \in Int /\ B = First + L - l
      /\ \A x \in X : x.id \in Int /\ x.so \in Nat
  BY <1>1, NetNumbers
<1>3. \A i \in 1 .. l : b[i].id \in Int /\ b[i].so \in Nat /\ b[i].len \in Int /\ b[i] \in ToSet(b)
  <2>1. b \in Seq(Buffered)
    BY <1>1 DEF Typed
  <2>2. \A i \in 1 .. l : b[i] \in Buffered /\ b[i] \in ToSet(b)
    BY <2>1, ElementOfSeq, ToSetFacts
  <2> QED  BY <2>2 DEF Buffered
<1>4. /\ k \in Nat /\ k <= l /\ next \in Nat /\ sn \in Nat
      /\ pdus \in Seq(UnderWay) /\ buf \in Seq(Buffered)
      /\ Len(pdus) = (IF cut THEN k + 1 ELSE k) /\ Len(buf) = l - k /\ (cut => k < l)
      /\ Len(pdus) \in Nat /\ Len(pdus) <= l
  <2>1. k \in 0 .. l
    BY DEF Emitted
  <2>2. next \in Nat
    BY <1>1 DEF Typed
  <2>3. sn \in Nat
    BY <2>2 DEF Emitted
  <2>4. /\ pdus \in Seq(UnderWay) /\ buf \in Seq(Buffered)
        /\ Len(pdus) = (IF cut THEN k + 1 ELSE k) /\ Len(buf) = l - k /\ (cut => k < l)
    BY DEF Emitted
  <2> HIDE DEF l
  <2>5. Len(pdus) \in Nat /\ Len(pdus) <= l
    BY <1>2, <2>1, <2>4
  <2> QED  BY <1>2, <2>1, <2>2, <2>3, <2>4, <2>5
<1>5. sn = IF k > 0 /\ b[1].so > 0 THEN next + 1 ELSE next
  BY DEF Emitted
<1>6. \A i \in 1 .. Len(pdus) : pdus[i].id = B + (i - 1) /\ pdus[i].so = b[i].so
  BY DEF Emitted
<1>7. \A i \in 1 .. k : /\ Final(pdus[i]) /\ pdus[i].len = b[i].len
                        /\ pdus[i].si = "ALL" => b[i].so = 0
                        /\ b[i].so > 0 => pdus[i].sn = next
  BY DEF Emitted
<1>8. \A i \in 1 .. Len(buf) : buf[i] = b[k + i] \/ (i = 1 /\ cut)
  BY DEF Emitted
<1>9. cut => /\ k < l /\ ~Final(pdus[k + 1]) /\ pdus[k + 1].sn = sn
             /\ buf[1].id = b[k + 1].id /\ buf[1].so = b[k + 1].so + 1
             /\ buf[1].len = b[k + 1].len - pdus[k + 1].len
  BY DEF Emitted
<1>10. \A x : x \in N <=> \E i \in 1 .. Len(pdus) : x = pdus[i]
  BY <1>4, ToSetFacts
<1>11. \A x : x \in Y <=> x \in X \/ x \in N
  OBVIOUS
<1>12. C = B + k /\ C \in Int
  <2> HIDE DEF B, L, l
  <2> QED  BY <1>2, <1>4 DEF Base, L
<1>13. \A i \in 1 .. l : b[i].id = B + (i - 1)
  BY <1>1 DEF InBuffer
<1>14. \A i \in 2 .. l : b[i].so = 0
  BY <1>1 DEF InBuffer
<1>15. \A x \in X : /\ x.id <= B /\ x.id < First + L
                    /\ x.si = "ALL" => x.so = 0
                    /\ x.id = B => x.so < b[1].so /\ ~Final(x) /\ x.sn = next /\ l > 0
  <2>1. \A x \in X : /\ x.id <= B /\ x.id < First + L
                     /\ x.si = "ALL" => x.so = 0
                     /\ x.id = B => x.so < b[1].so /\ ~Final(x) /\ x.sn = next
    BY <1>1 DEF Order
  <2> HIDE DEF B, L, l
  <2> QED  BY <1>2, <2>1
<1>16. pdus \in Seq(UnderWay) /\ \A i \in 1 .. Len(pdus) : pdus[i] \in UnderWay
  BY <1>4, ElementOfSeq
<1> HIDE DEF B, C, L, l, N, Y
<1>17. Injective(pdus)
  <2>1. \A i \in 1 .. Len(pdus), j \in 1 .. Len(pdus) : pdus[i] = pdus[j] => B + (i - 1) = B + (j - 1)
    BY <1>6
  <2>2. \A i \in 1 .. Len(pdus), j \in 1 .. Len(pdus) : pdus[i] = pdus[j] => i = j
    BY <1>2, <1>4, <2>1
  <2> QED  BY <2>2 DEF Injective
\* An old PDU and a new one belong to the same SDU only if it is at the head.
<1>18. ASSUME NEW x \in X, NEW i \in 1 .. Len(pdus), x.id = pdus[i].id
       PROVE  /\ i = 1 /\ x.id = B /\ 1 \in 1 .. l /\ x.so < b[1].so /\ b[1].so > 0
              /\ pdus[1].so = b[1].so /\ ~Final(x) /\ x.sn = next /\ pdus[1].sn = next
  <2>1. i \in 1 .. l /\ B + (i - 1) <= B /\ x.id \in Int
    <3>1. x.id \in Int /\ x.id <= B
      BY <1>2, <1>15
    <3>2. pdus[i].id = B + (i - 1)
      BY <1>6
    <3>3. i \in 1 .. l
      BY <1>2, <1>4
    <3> QED  BY <1>18, <3>1, <3>2, <3>3
  <2>2. i = 1
    BY <1>2, <2>1
  <2>3. x.id = B
    <3>1. B + (1 - 1) = B
      BY <1>2
    <3> QED  BY <1>6, <1>18, <2>2, <3>1
  <2>4. x.so < b[1].so /\ ~Final(x) /\ x.sn = next /\ pdus[1].so = b[1].so
    BY <1>6, <1>15, <2>2, <2>3
  <2>5. b[1].so > 0
    <3>1. x.so \in Nat /\ b[1].so \in Nat
      BY <1>2, <1>3, <2>1, <2>2
    <3> QED  BY <2>4, <3>1
  <2>6. pdus[1].sn = next
    <3>1. CASE k > 0
      <4>1. 1 \in 1 .. k
        BY <1>4, <3>1
      <4> QED  BY <1>7, <2>5, <4>1
    <3>2. CASE ~(k > 0)
      <4>1. k = 0
        BY <1>4, <3>2
      <4>2. cut /\ k + 1 = 1
        BY <1>4, <2>2, <4>1
      <4> QED  BY <1>5, <1>9, <3>2, <4>2
    <3> QED  BY <3>1, <3>2
  <2> QED  BY <2>1, <2>2, <2>3, <2>4, <2>5, <2>6
<1>19. X \cap N = {}
  <2> SUFFICES ASSUME NEW x \in X, x \in N PROVE FALSE
    OBVIOUS
  <2>1. PICK i \in 1 .. Len(pdus) : x = pdus[i]
    BY <1>10
  <2>2. x.so < b[1].so /\ x.so = b[1].so /\ 1 \in 1 .. l
    BY <1>18, <2>1
  <2>3. b[1].so \in Nat
    BY <1>3, <2>2
  <2> QED  BY <2>2, <2>3
<1>20. Typed(z, buf, sn, Y, gone, done)
  <2>1. \A x \in N : x \in UnderWay
    BY <1>10, <1>16
  <2> QED  BY <1>1, <1>4, <1>11, <2>1 DEF Typed
\* What is in the buffer then.
<1>21. ASSUME NEW i \in 1 .. Len(buf)
       PROVE  /\ k + i \in 1 .. l /\ buf[i].id = b[k + i].id
              /\ buf[i].so \in Nat /\ b[k + i].so <= buf[i].so
              /\ i # 1 => buf[i] = b[k + i]
  <2>1. k + i \in 1 .. l
    BY <1>2, <1>4
  <2>2. b[k + i].so \in Nat
    BY <1>3, <2>1
  <2>3. CASE buf[i] = b[k + i]
    BY <2>1, <2>2, <2>3
  <2>4. CASE i = 1 /\ cut
    <3>1. buf[i].id = b[k + i].id /\ buf[i].so = b[k + i].so + 1
      BY <1>9, <2>4
    <3> QED  BY <2>1, <2>2, <2>4, <3>1
  <2> QED  BY <1>8, <2>3, <2>4
<1>22. InBuffer(z, buf)
  <2>1. Len(buf) <= L
    BY <1>1, <1>2, <1>4 DEF InBuffer, L, l
  <2>2. ASSUME NEW i \in 1 .. Len(buf) PROVE buf[i].id = C + (i - 1)
    <3>1. buf[i].id = B + ((k + i) - 1)
      BY <1>13, <1>21
    <3>2. B + ((k + i) - 1) = (B + k) + (i - 1)
      BY <1>2, <1>4
    <3> QED  BY <1>12, <3>1, <3>2
  <2>3. ASSUME NEW i \in 2 .. Len(buf) PROVE buf[i].so = 0
    <3>1. i \in 1 .. Len(buf) /\ i # 1
      BY <1>2, <1>4
    <3>2. buf[i] = b[k + i] /\ k + i \in 1 .. l
      BY <1>21, <3>1
    <3>3. k + i \in 2 .. l
      <4>1. i \in Nat /\ i >= 2
        OBVIOUS
      <4> QED  BY <1>2, <1>4, <3>2, <4>1
    <3> QED  BY <1>14, <3>2, <3>3
  <2> QED  BY <2>1, <2>2, <2>3 DEF InBuffer, L, C
\* The SDU that was at the head and still is.
<1>23. ASSUME NEW x \in X, x.id = C
       PROVE  /\ k = 0 /\ x.id = B /\ sn = next /\ 1 \in 1 .. Len(buf) /\ 1 \in 1 .. l
              /\ b[1].so <= buf[1].so /\ b[1].so \in Nat /\ buf[1].so \in Nat
  <2>1. k = 0 /\ x.id = B
    BY <1>2, <1>4, <1>12, <1>15, <1>23
  <2>2. sn = next
    BY <1>5, <2>1
  <2>3. 1 \in 1 .. l /\ Len(buf) = l
    BY <1>2, <1>4, <1>15, <2>1
  <2>4. k + 1 = 1 /\ 1 \in 1 .. Len(buf)
    BY <2>1, <2>3
  <2>5. b[1].so <= buf[1].so /\ buf[1].so \in Nat
    BY <1>21, <2>4
  <2> QED  BY <1>3, <2>1, <2>2, <2>3, <2>4, <2>5
<1>24. ASSUME NEW x \in N
       PROVE  \E i \in 1 .. Len(pdus) :
                 /\ x = pdus[i] /\ i \in 1 .. l /\ x.id = B + (i - 1) /\ x.so = b[i].so /\ b[i].so \in Nat
  <2>1. PICK i \in 1 .. Len(pdus) : x = pdus[i]
    BY <1>10
  <2>2. i \in 1 .. l
    BY <1>2, <1>4
  <2> QED  BY <1>3, <1>6, <2>1, <2>2
<1>25. Order(z, buf, sn, Y)
  <2>1. ASSUME NEW x \in Y
        PROVE  /\ x.id <= C /\ x.id < First + L
               /\ x.si = "ALL" => x.so = 0
               /\ x.id = C => x.so < buf[1].so /\ ~Final(x) /\ x.sn = sn
    <3>1. CASE x \in X
      <4>1. x.id <= C
        <5> DEFINE c == x.id
        <5>1. c \in Int /\ c <= B
          BY <1>2, <1>15, <3>1
        <5> HIDE DEF c
        <5>2. c <= C
          BY <1>2, <1>4, <1>12, <5>1
        <5> QED  BY <5>2 DEF c
      <4>2. x.id = C => x.so < buf[1].so /\ ~Final(x) /\ x.sn = sn
        BY <1>2, <1>15, <1>23, <3>1
      <4> QED  BY <1>15, <3>1, <4>1, <4>2
    <3>2. CASE x \in N
      <4>1. PICK i \in 1 .. Len(pdus) :
               x = pdus[i] /\ i \in 1 .. l /\ x.id = B + (i - 1) /\ x.so = b[i].so /\ b[i].so \in Nat
        BY <1>24, <3>2
      <4>2. x.id <= C /\ x.id < First + L
        BY <1>2, <1>4, <1>12, <4>1
      <4>3. CASE i \in 1 .. k
        <5>1. x.id # C
          <6>1. B + (i - 1) # C
            BY <1>2, <1>4, <1>12, <4>3
          <6> QED  BY <4>1, <6>1
        <5> QED  BY <1>7, <4>1, <4>2, <4>3, <5>1
      <4>4. CASE i \notin 1 .. k
        <5>1. cut /\ i = k + 1
          BY <1>4, <4>1, <4>4
        <5>2. ~Final(x) /\ x.sn = sn /\ buf[1].so = b[i].so + 1
          BY <1>9, <4>1, <5>1
        <5>3. x.so < buf[1].so /\ x.si # "ALL"
          BY <4>1, <5>2 DEF Final
        <5> QED  BY <4>2, <5>2, <5>3
      <4> QED  BY <4>3, <4>4
    <3> QED  BY <1>11, <3>1, <3>2
  <2>2. ASSUME NEW x \in Y, NEW y \in Y, x.id = y.id
        PROVE  /\ x.so = y.so => x = y
               /\ Final(y) => x.so <= y.so
               /\ x.sn = y.sn
    <3>1. CASE x \in X /\ y \in X
      BY <1>1, <2>2, <3>1 DEF Order
    <3>2. CASE x \in X /\ y \in N
      <4>1. PICK i \in 1 .. Len(pdus) : y = pdus[i]
        BY <1>10, <3>2
      <4>2. x.so < y.so /\ x.sn = y.sn
        BY <1>18, <2>2, <3>2, <4>1
      <4>3. x.so \in Nat /\ y.so \in Nat
        BY <1>2, <1>24, <3>2
      <4> QED  BY <4>2, <4>3
    <3>3. CASE x \in N /\ y \in X
      <4>1. PICK i \in 1 .. Len(pdus) : x = pdus[i]
        BY <1>10, <3>3
      <4>2. y.so < x.so /\ x.sn = y.sn /\ ~Final(y)
        BY <1>18, <2>2, <3>3, <4>1
      <4>3. x.so \in Nat /\ y.so \in Nat
        BY <1>2, <1>24, <3>3
      <4> QED  BY <4>2, <4>3
    <3>4. CASE x \in N /\ y \in N
      <4>1. PICK i \in 1 .. Len(pdus) : x = pdus[i] /\ x.id = B + (i - 1) /\ x.so \in Nat
        BY <1>24, <3>4
      <4>2. PICK j \in 1 .. Len(pdus) : y = pdus[j] /\ y.id = B + (j - 1)
        BY <1>24, <3>4
      <4>3. i = j
        BY <1>2, <2>2, <4>1, <4>2
      <4> QED  BY <4>1, <4>2, <4>3
    <3> QED  BY <1>11, <3>1, <3>2, <3>3, <3>4
  <2> QED  BY <2>1, <2>2 DEF Order, C, L
<1>26. Settled(z, buf, Y, gone, done)
  <2> SUFFICES ASSUME NEW c \in done
               PROVE  c < C /\ c \notin gone /\ \A x \in Y : x.id # c
    BY DEF Settled, C
  <2>1. c < B /\ c \notin gone /\ \A x \in X : x.id # c
    BY <1>1 DEF Settled, B
  <2>2. c \in Int
    BY <1>1 DEF Typed
  <2>3. ASSUME NEW x \in N PROVE x.id # c
    BY <1>2, <1>24, <2>1, <2>2
  <2>4. c < C
    BY <1>2, <1>4, <1>12, <2>1, <2>2
  <2> QED  BY <1>11, <2>1, <2>3, <2>4
<1>27. Broken(z, buf, Y, gone)
  <2> SUFFICES ASSUME NEW c \in gone
               PROVE  c <= C /\ \E j \in Nat : Missing(z, buf, Y, c, j)
    BY DEF Broken, C
  <2>1. c <= B /\ \E j \in Nat : Missing(z, b, X, c, j)
    BY <1>1 DEF Broken, B
  <2>2. PICK j \in Nat : Missing(z, b, X, c, j)
    BY <2>1
  <2>3. /\ c = B => l > 0 /\ j < b[1].so
        /\ \A x \in X : x.id = c => x.so # j /\ (Final(x) => j < x.so)
    BY <2>2 DEF Missing, B, l
  <2>4. c \in Int
    BY <1>1 DEF Typed
  <2>5. c <= C
    BY <1>2, <1>4, <1>12, <2>1, <2>4
  <2>6. ASSUME c = C PROVE Len(buf) > 0 /\ j < buf[1].so
    <3>1. k = 0 /\ c = B
      BY <1>2, <1>4, <1>12, <2>1, <2>4, <2>6
    <3>2. l > 0 /\ j < b[1].so /\ Len(buf) = l
      BY <1>2, <1>4, <2>3, <3>1
    <3>3. 1 \in 1 .. Len(buf) /\ k + 1 = 1 /\ 1 \in 1 .. l
      BY <1>2, <3>1, <3>2
    <3>4. b[1].so <= buf[1].so /\ buf[1].so \in Nat /\ b[1].so \in Nat
      BY <1>3, <1>21, <3>3
    <3> QED  BY <3>2, <3>4
  <2>7. ASSUME NEW x \in N, x.id = c PROVE x.so # j /\ j < x.so
    <3>1. PICK i \in 1 .. Len(pdus) :
             x = pdus[i] /\ i \in 1 .. l /\ x.id = B + (i - 1) /\ x.so = b[i].so /\ b[i].so \in Nat
      BY <1>24
    <3>2. i = 1 /\ c = B
      BY <1>2, <2>1, <2>4, <2>7, <3>1
    <3>3. j < x.so
      BY <2>3, <3>1, <3>2
    <3> QED  BY <3>1, <3>3
  <2>8. Missing(z, buf, Y, c, j)
    BY <1>11, <2>3, <2>6, <2>7 DEF Missing, C
  <2> QED  BY <2>5, <2>8
<1>28. Complete(z, buf, Y, gone, done)
  <2> SUFFICES ASSUME NEW c \in First .. First + L - 1, c \notin gone \cup done
               PROVE  \E t : PiecesOf(c, t, buf, Y) /\ Payload(t) = SizeOf(z, c)
    BY DEF Complete, L
  <2>1. PICK q : PiecesOf(c, q, b, X) /\ Payload(q) = SizeOf(z, c)
    BY <1>1 DEF Complete, L
  <2> DEFINE m == Len(q)
             S == UnderWay \cup Buffered
  <2>2. /\ q \in Seq(S) /\ m \in Nat /\ m > 0
        /\ \A i \in 1 .. m : q[i].id = c /\ q[i].so = i - 1
        /\ \A i \in 1 .. m - 1 : q[i] \in X
        /\ q[m] \in ToSet(b) \/ (q[m] \in X /\ Final(q[m]))
    BY <2>1, LenProperties DEF PiecesOf
  <2>3. /\ \A i \in 1 .. m : q[i] \in S /\ i \in DOMAIN q
        /\ m \in 1 .. m /\ \A i \in 1 .. m - 1 : i \in 1 .. m
        /\ q = [i \in 1 .. m |-> q[i]]
    <3>1. \A i \in 1 .. m : q[i] \in S
      <4> HIDE DEF S, m
      <4> QED  BY <2>2, ElementOfSeq DEF m
    <3>2. DOMAIN q = 1 .. m /\ q = [i \in 1 .. m |-> q[i]]
      BY <2>2, LenProperties
    <3> HIDE DEF m, S
    <3> QED  BY <2>2, <3>1, <3>2
  <2>4. Lengths(S)
    BY DEF Lengths, UnderWay, Buffered
  <2> HIDE DEF m, S
  <2>5. q[m].id = c /\ q[m].so = m - 1
    BY <2>2, <2>3
  <2>6. \A i \in 1 .. m - 1 : q[i] \in Y
    BY <1>11, <2>2
  <2>7. CASE q[m] \in X /\ Final(q[m])
    <3>1. PiecesOf(c, q, buf, Y)
      BY <1>11, <2>2, <2>6, <2>7 DEF PiecesOf, S, m
    <3> QED  BY <2>1, <3>1
  <2>8. CASE q[m] \in ToSet(b)
    <3>1. PICK i \in 1 .. l : q[m] = b[i]
      <4>1. b \in Seq(Buffered)
        BY <1>1 DEF Typed
      <4> QED  BY <2>8, <4>1, ToSetFacts DEF l
    <3>2. b[i].id = c /\ b[i].so = m - 1 /\ b[i].id = B + (i - 1) /\ b[i].len \in Int
      BY <1>3, <1>13, <2>5, <3>1
    <3>3. CASE i > k /\ ~(i = k + 1 /\ cut)
      <4> DEFINE j == i - k
      <4>1. j \in 1 .. Len(buf) /\ k + j = i /\ ~(j = 1 /\ cut)
        BY <1>2, <1>4, <3>3
      <4> HIDE DEF j
      <4>2. buf[j] = b[i]
        BY <1>8, <4>1
      <4>3. q[m] \in ToSet(buf)
        BY <1>4, <3>1, <4>1, <4>2, ToSetFacts
      <4>4. PiecesOf(c, q, buf, Y)
        BY <2>2, <2>6, <4>3 DEF PiecesOf, S, m
      <4> QED  BY <2>1, <4>4
    <3>4. CASE i <= k
      <4>1. i \in 1 .. k /\ i \in 1 .. Len(pdus)
        BY <1>4, <3>1, <3>4
      <4> DEFINE x == pdus[i]
      <4>2. /\ x \in N /\ x \in UnderWay /\ Final(x) /\ x.id = c /\ x.so = m - 1
            /\ x.len = b[i].len
        <5>1. x \in N /\ x \in UnderWay /\ Final(x) /\ x.len = b[i].len
          BY <1>7, <1>10, <1>16, <4>1
        <5>2. x.id = B + (i - 1) /\ x.so = b[i].so
          BY <1>6, <4>1
        <5> QED  BY <3>2, <5>1, <5>2
      <4> HIDE DEF x
      <4> DEFINE t == [j \in 1 .. m |-> IF j = m THEN x ELSE q[j]]
      <4>3. \A j \in 1 .. m : t[j] = IF j = m THEN x ELSE q[j]
        OBVIOUS
      <4>4. t = [j \in 1 .. m |-> t[j]]
        OBVIOUS
      <4> HIDE DEF t
      <4>5. \A j \in 1 .. m : t[j] \in S
        BY <2>3, <4>2, <4>3 DEF S
      <4>6. t \in Seq(S) /\ Len(t) = m
        BY <2>2, <4>4, <4>5, IsSeq
      <4>7. \A j \in 1 .. m : t[j].id = c /\ t[j].so = j - 1
        BY <2>2, <4>2, <4>3
      <4>8. t[m] \in Y /\ Final(t[m]) /\ \A j \in 1 .. m - 1 : t[j] \in Y
        <5>1. \A j \in 1 .. m - 1 : j \in 1 .. m /\ j # m
          BY <2>2
        <5> QED  BY <1>11, <2>3, <2>6, <4>2, <4>3, <5>1
      <4>9. PiecesOf(c, t, buf, Y)
        BY <2>2, <4>6, <4>7, <4>8 DEF PiecesOf, S
      <4>10. Payload(t) = Payload(q)
        <5>1. \A j \in 1 .. Len(q) : t[j].len = q[j].len
          BY <3>1, <4>2, <4>3 DEF m
        <5>2. Sized(q)
          BY <2>2, <2>4, SizedIn
        <5> QED  BY <4>6, <5>1, <5>2, PayloadSame DEF m
      <4> QED  BY <2>1, <4>9, <4>10
    <3>5. CASE i = k + 1 /\ cut
      <4> DEFINE x == pdus[k + 1]
                 y == buf[1]
      <4>1. k + 1 \in 1 .. Len(pdus) /\ 1 \in 1 .. Len(buf)
        BY <1>2, <1>4, <3>5
      <4>2. /\ x \in N /\ x \in UnderWay /\ x.id = c /\ x.so = m - 1
        <5>1. x.id = B + (i - 1) /\ x.so = b[i].so
          BY <1>6, <3>5, <4>1
        <5> QED  BY <1>10, <1>16, <3>2, <4>1, <5>1
      <4>3. y \in ToSet(buf) /\ y \in Buffered
        BY <1>4, <4>1, ToSetFacts
      <4>4. y.id = c /\ y.so = m
        <5>1. y.id = b[i].id /\ y.so = b[i].so + 1
          BY <1>9, <3>5
        <5>2. (m - 1) + 1 = m
          BY <2>2
        <5> QED  BY <3>2, <5>1, <5>2
      <4>5. x.len \in Int /\ y.len \in Int /\ x.len + y.len = b[i].len
        <5>1. y.len = b[i].len - x.len
          BY <1>9, <3>5
        <5>2. x.len \in Int
          BY <4>2 DEF UnderWay
        <5> DEFINE d == x.len
        <5> HIDE DEF d, x, y
        <5> QED  BY <3>2, <5>1, <5>2 DEF d
      <4> HIDE DEF x, y
      <4> DEFINE t == [j \in 1 .. m + 1 |-> IF j = m THEN x ELSE IF j = m + 1 THEN y ELSE q[j]]
      <4>6. \A j \in 1 .. m + 1 : t[j] = IF j = m THEN x ELSE IF j = m + 1 THEN y ELSE q[j]
        OBVIOUS
      <4>7. t = [j \in 1 .. m + 1 |-> t[j]]
        OBVIOUS
      <4> HIDE DEF t
      <4>8. \A j \in 1 .. m + 1 : j = m + 1 \/ j = m \/ (j \in 1 .. m - 1 /\ j \in 1 .. m /\ j # m /\ j # m + 1)
        BY <2>2
      <4>9. m + 1 \in 1 .. m + 1 /\ m \in 1 .. m + 1 /\ m # m + 1 /\ m + 1 \in Nat /\ m + 1 > 0
            /\ (m + 1) - 1 = m
        BY <2>2
      <4>10. t[m] = x /\ t[m + 1] = y /\ \A j \in 1 .. m - 1 : j \in 1 .. m /\ t[j] = q[j]
        <5>1. \A j \in 1 .. m - 1 : j \in 1 .. m + 1 /\ j # m /\ j # m + 1 /\ j \in 1 .. m
          BY <2>2
        <5> QED  BY <4>6, <4>9, <5>1
      <4>11. \A j \in 1 .. m + 1 : t[j] \in S
        BY <2>3, <4>2, <4>3, <4>8, <4>10 DEF S
      <4>12. t \in Seq(S) /\ Len(t) = m + 1
        BY <4>7, <4>9, <4>11, IsSeq
      <4>13. \A j \in 1 .. m + 1 : t[j].id = c /\ t[j].so = j - 1
        <5> TAKE j \in 1 .. m + 1
        <5>1. CASE j = m + 1
          BY <4>4, <4>9, <4>10, <5>1
        <5>2. CASE j = m
          BY <4>2, <4>10, <5>2
        <5>3. CASE j \in 1 .. m - 1
          BY <2>2, <4>10, <5>3
        <5> QED  BY <4>8, <5>1, <5>2, <5>3
      <4>14. \A j \in 1 .. m : t[j] \in Y
        <5>1. \A j \in 1 .. m : j = m \/ j \in 1 .. m - 1
          BY <2>2
        <5> QED  BY <1>11, <2>6, <4>2, <4>10, <5>1
      <4>15. PiecesOf(c, t, buf, Y)
        BY <4>3, <4>9, <4>10, <4>12, <4>13, <4>14 DEF PiecesOf, S
      <4>16. Payload(t) = Payload(q)
        <5>1. \A j \in 1 .. Len(q) - 1 : t[j].len = q[j].len
          BY <4>10 DEF m
        <5>2. Sized(q) /\ Sized(t)
          BY <2>2, <2>4, <4>12, SizedIn
        <5>3. t[Len(q)].len + t[Len(q) + 1].len = q[Len(q)].len
          BY <3>1, <4>5, <4>10 DEF m
        <5> QED  BY <2>2, <4>12, <5>1, <5>2, <5>3, PayloadSplit DEF m
      <4> QED  BY <2>1, <4>15, <4>16
    <3>6. i > k \/ i <= k
      BY <1>4, <3>1
    <3> QED  BY <3>3, <3>4, <3>5, <3>6
  <2> QED  BY <2>2, <2>7, <2>8
<1>29. Net(z, buf, sn, Y, gone, done)
  BY <1>20, <1>22, <1>25, <1>26, <1>27, <1>28 DEF Net
<1> QED  BY <1>17, <1>19, <1>29 DEF Y, N

\* What the state calls a packet and a PDU.
LEMMA Ranges ==
    ASSUME Len(size) \in Nat
    PROVE  /\ Accepted \subseteq Nat /\ Pdu \subseteq UnderWay /\ Packet \subseteq Buffered
           /\ \A s : s \in Seq(Pdu) => s \in Seq(UnderWay)
           /\ \A s : s \in Seq(Packet) => s \in Seq(Buffered)
<1>1. Accepted \subseteq Nat
  BY ConstantFacts DEF Accepted
<1> DEFINE I == Int
<1>2. Accepted \subseteq I
  BY <1>1
<1> HIDE DEF I
<1>3. Pdu \subseteq UnderWay
  BY <1>2 DEF Pdu, UnderWay, I
<1>4. Packet \subseteq Buffered
  BY <1>2 DEF Packet, Buffered, I
<1> QED  BY <1>1, <1>3, <1>4, SeqMono

\* SEND_PDU puts nothing twice on its way and leaves everything as it should be.
LEMMA SendNet ==
    ASSUME SenderOK, NEW X, NEW gone, NEW done, Net(size, txBuf, TX_Next, X, gone, done),
           NEW k \in 0 .. Len(txBuf), NEW left \in Int,
           NEW pdus \in Seq(Pdu), Sent(k, left, pdus),
           NEW buf \in Seq(Packet), Kept(k, left, buf)
    PROVE  /\ Injective(pdus) /\ X \cap ToSet(pdus) = {}
           /\ Net(size, buf, NextSn(SubSeq(txBuf, 1, k)), X \cup ToSet(pdus), gone, done)
<1> DEFINE cut == Cut(k, left)
           sn == NextSn(SubSeq(txBuf, 1, k))
           B == Base(size, txBuf)
           l == Len(txBuf)
<1>1. /\ txBuf \in Seq(Packet) /\ TX_Next \in Nat /\ l \in Nat /\ Len(size) \in Nat
      /\ \A i \in 1 .. l : txBuf[i] \in Packet
  BY LenProperties, ElementOfSeq DEF SenderOK
<1>2. sn = IF k > 0 /\ txBuf[1].so > 0 THEN TX_Next + 1 ELSE TX_Next
  BY <1>1, NextSnFacts
<1>3. pdus \in Seq(UnderWay) /\ buf \in Seq(Buffered)
  BY <1>1, Ranges
<1>4. \A i \in 1 .. l : txBuf[i].id = B + (i - 1)
  BY DEF Net, InBuffer
<1>5. /\ \A i \in 1 .. k : pdus[i] = ADD_HDR(txBuf[i], TX_Next)
      /\ ~cut => Len(pdus) = k
      /\ cut => Len(pdus) = k + 1 /\ pdus[k + 1] = FRAGMENT_PACKET(txBuf[k + 1], left, sn)
  BY DEF Sent
<1>6. /\ Len(buf) = l - k
      /\ \A i \in 1 .. l - k :
            buf[i] = IF i = 1 /\ cut THEN Remainder(txBuf[k + 1], left) ELSE txBuf[k + i]
  BY DEF Kept
<1>7. cut => k < l
  BY DEF Cut
<1>8. cut \in BOOLEAN
  BY DEF Cut
<1>9. k \in Nat /\ k <= l
  BY <1>1
<1> HIDE DEF cut, sn, B, l
<1>10. ASSUME NEW i \in 1 .. k
       PROVE  /\ Final(pdus[i]) /\ pdus[i].len = txBuf[i].len /\ pdus[i].id = txBuf[i].id
              /\ pdus[i].so = txBuf[i].so
              /\ pdus[i].si = "ALL" => txBuf[i].so = 0
              /\ txBuf[i].so > 0 => pdus[i].sn = TX_Next
  <2>1. i \in 1 .. l /\ txBuf[i] \in Packet
    BY <1>1, <1>9
  <2> DEFINE p == txBuf[i]
  <2>2. p.so \in Nat
    BY <2>1 DEF Packet
  <2>3. pdus[i] = [id |-> p.id, len |-> p.len, so |-> p.so,
                   sn |-> IF p.so = 0 THEN 0 ELSE TX_Next,
                   si |-> IF p.so = 0 THEN "ALL" ELSE "LAST"]
    BY <1>5 DEF ADD_HDR
  <2> HIDE DEF p
  <2>4. /\ Final(pdus[i]) /\ pdus[i].len = p.len /\ pdus[i].id = p.id /\ pdus[i].so = p.so
        /\ pdus[i].si = "ALL" => p.so = 0
        /\ p.so > 0 => pdus[i].sn = TX_Next
    BY <2>2, <2>3 DEF Final
  <2> QED  BY <2>4 DEF p
<1>11. ASSUME cut
       PROVE  /\ k < l /\ ~Final(pdus[k + 1]) /\ pdus[k + 1].sn = sn
              /\ pdus[k + 1].id = txBuf[k + 1].id /\ pdus[k + 1].so = txBuf[k + 1].so
              /\ buf[1].id = txBuf[k + 1].id /\ buf[1].so = txBuf[k + 1].so + 1
              /\ buf[1].len = txBuf[k + 1].len - pdus[k + 1].len
  <2>1. 1 \in 1 .. l - k /\ k < l
    BY <1>1, <1>7, <1>9, <1>11
  <2> DEFINE p == txBuf[k + 1]
  <2>2. pdus[k + 1] = [id |-> p.id, len |-> left, so |-> p.so,
                       sn |-> sn, si |-> IF p.so = 0 THEN "FIRST" ELSE "MIDDLE"]
    BY <1>5, <1>11 DEF FRAGMENT_PACKET
  <2>3. buf[1] = [id |-> p.id, len |-> p.len - left, so |-> p.so + 1]
    BY <1>6, <1>11, <2>1 DEF Remainder
  <2> DEFINE d == p.len - left
             e == p.so + 1
  <2> HIDE DEF p, d, e
  <2>4. /\ ~Final(pdus[k + 1]) /\ pdus[k + 1].sn = sn /\ pdus[k + 1].id = p.id
        /\ pdus[k + 1].so = p.so /\ pdus[k + 1].len = left
    BY <2>2 DEF Final
  <2>5. buf[1].id = p.id /\ buf[1].so = e /\ buf[1].len = d
    BY <2>3 DEF d, e
  <2> QED  BY <2>1, <2>4, <2>5, Zenon DEF p, d, e
<1>12. ASSUME NEW i \in 1 .. Len(pdus)
       PROVE  pdus[i].id = B + (i - 1) /\ pdus[i].so = txBuf[i].so
  <2>1. CASE i \in 1 .. k
    <3>1. i \in 1 .. l
      BY <1>1, <1>9, <2>1
    <3> QED  BY <1>4, <1>10, <2>1, <3>1
  <2>2. CASE i \notin 1 .. k
    <3>1. cut /\ i = k + 1
      BY <1>5, <1>9, <2>2
    <3>2. k + 1 \in 1 .. l
      BY <1>1, <1>9, <1>11, <3>1
    <3> QED  BY <1>4, <1>11, <3>1, <3>2
  <2> QED  BY <2>1, <2>2
<1>13. Emitted(B, txBuf, TX_Next, k, cut, pdus, buf, sn)
  <2>1. /\ k \in 0 .. Len(txBuf) /\ pdus \in Seq(UnderWay) /\ buf \in Seq(Buffered)
        /\ Len(pdus) = (IF cut THEN k + 1 ELSE k) /\ Len(buf) = Len(txBuf) - k
    BY <1>3, <1>5, <1>6 DEF l
  <2>2. \A i \in 1 .. Len(buf) : buf[i] = txBuf[k + i] \/ (i = 1 /\ cut)
    BY <1>6
  <2>3. /\ sn = IF k > 0 /\ txBuf[1].so > 0 THEN TX_Next + 1 ELSE TX_Next
        /\ \A i \in 1 .. Len(pdus) : pdus[i].id = B + (i - 1) /\ pdus[i].so = txBuf[i].so
    BY <1>2, <1>12
  <2>4. \A i \in 1 .. k : /\ Final(pdus[i]) /\ pdus[i].len = txBuf[i].len
                          /\ pdus[i].si = "ALL" => txBuf[i].so = 0
                          /\ txBuf[i].so > 0 => pdus[i].sn = TX_Next
    BY <1>10
  <2>5. cut => /\ k < Len(txBuf) /\ ~Final(pdus[k + 1]) /\ pdus[k + 1].sn = sn
               /\ buf[1].id = txBuf[k + 1].id /\ buf[1].so = txBuf[k + 1].so + 1
               /\ buf[1].len = txBuf[k + 1].len - pdus[k + 1].len
    BY <1>11 DEF l
  <2> QED  BY <2>1, <2>2, <2>3, <2>4, <2>5 DEF Emitted
<1>14. /\ Injective(pdus) /\ X \cap ToSet(pdus) = {}
       /\ Net(size, buf, sn, X \cup ToSet(pdus), gone, done)
  BY <1>8, <1>13, EmittedNet, SMTT(30) DEF B
<1> QED  BY <1>14 DEF sn

\* An SDU more.
NewPacket(z, n) == [id |-> First + Len(z), len |-> n, so |-> 0]

LEMMA TransmitNet ==
    ASSUME NEW z, NEW b, NEW next, NEW X, NEW gone, NEW done, Net(z, b, next, X, gone, done),
           NEW n \in Nat
    PROVE  Net(Append(z, n), Append(b, NewPacket(z, n)), next, X, gone, done)
<1> DEFINE p == NewPacket(z, n)
           y == Append(z, n)
           d == Append(b, p)
           B == Base(z, b)
           L == Len(z)
           l == Len(b)
<1>1. /\ Typed(z, b, next, X, gone, done) /\ InBuffer(z, b) /\ Order(z, b, next, X)
      /\ Settled(z, b, X, gone, done) /\ Broken(z, b, X, gone) /\ Complete(z, b, X, gone, done)
  BY DEF Net
<1>2. /\ L \in Nat /\ l \in Nat /\ First \in Nat /\ B \in Int /\ B = First + L - l
      /\ \A x \in X : x.id \in Int /\ x.so \in Nat
  BY <1>1, NetNumbers
<1>3. z \in Seq(Nat) /\ b \in Seq(Buffered)
  BY <1>1 DEF Typed
<1>4. p.id = First + L /\ p.len = n /\ p.so = 0 /\ p \in Buffered
  BY <1>2 DEF NewPacket, Buffered
<1> HIDE DEF p
<1>5. /\ y \in Seq(Nat) /\ Len(y) = L + 1 /\ y[L + 1] = n
      /\ \A i \in 1 .. L : y[i] = z[i]
  BY <1>3, AppendProperties
<1>6. /\ d \in Seq(Buffered) /\ Len(d) = l + 1 /\ d[l + 1] = p
      /\ \A i \in 1 .. l : d[i] = b[i]
  BY <1>3, <1>4, AppendProperties
<1> HIDE DEF y, d, B, L, l
<1>7. Base(y, d) = B
  BY <1>2, <1>5, <1>6 DEF Base
<1>8. Typed(y, d, next, X, gone, done)
  BY <1>1, <1>5, <1>6 DEF Typed
<1>9. InBuffer(y, d)
  <2>1. Len(d) <= Len(y)
    BY <1>1, <1>2, <1>5, <1>6 DEF InBuffer, L, l
  <2>2. ASSUME NEW i \in 1 .. Len(d) PROVE d[i].id = B + (i - 1)
    <3>1. CASE i \in 1 .. l
      BY <1>1, <1>6, <3>1 DEF InBuffer, B, l
    <3>2. CASE i \notin 1 .. l
      <4>1. i = l + 1
        BY <1>2, <1>6, <3>2
      <4>2. First + L = B + ((l + 1) - 1)
        BY <1>2
      <4> QED  BY <1>4, <1>6, <4>1, <4>2
    <3> QED  BY <3>1, <3>2
  <2>3. ASSUME NEW i \in 2 .. Len(d) PROVE d[i].so = 0
    <3>1. CASE i \in 2 .. l
      <4>1. i \in 1 .. l
        BY <1>2, <3>1
      <4> QED  BY <1>1, <1>6, <3>1, <4>1 DEF InBuffer, l
    <3>2. CASE i \notin 2 .. l
      <4>1. i = l + 1
        BY <1>2, <1>6, <3>2
      <4> QED  BY <1>4, <1>6, <4>1
    <3> QED  BY <3>1, <3>2
  <2> QED  BY <1>7, <2>1, <2>2, <2>3 DEF InBuffer
<1>10. l > 0 => d[1] = b[1]
  <2>1. l > 0 => 1 \in 1 .. l
    BY <1>2
  <2> QED  BY <1>6, <2>1
<1>11. Order(y, d, next, X)
  <2>1. ASSUME NEW x \in X
        PROVE  /\ x.id <= B /\ x.id < First + Len(y)
               /\ x.si = "ALL" => x.so = 0
               /\ x.id = B => x.so < d[1].so /\ ~Final(x) /\ x.sn = next
    <3>1. /\ x.id <= B /\ x.id < First + L
          /\ x.si = "ALL" => x.so = 0
          /\ x.id = B => x.so < b[1].so /\ ~Final(x) /\ x.sn = next
      BY <1>1 DEF Order, B, L
    <3>2. x.id \in Int
      BY <1>2
    <3>3. x.id < First + Len(y)
      <4> DEFINE c == x.id
      <4>1. c < First + L /\ c \in Int
        BY <3>1, <3>2
      <4> HIDE DEF c
      <4>2. c < First + (L + 1)
        BY <1>2, <4>1
      <4> QED  BY <1>5, <4>2 DEF c
    <3>4. x.id = B => l > 0
      BY <1>2, <3>1
    <3> QED  BY <1>10, <3>1, <3>3, <3>4
  <2>2. \A u, v \in X : u.id = v.id => /\ u.so = v.so => u = v
                                       /\ Final(v) => u.so <= v.so
                                       /\ u.sn = v.sn
    BY <1>1 DEF Order
  <2> QED  BY <1>7, <2>1, <2>2 DEF Order
<1>12. Settled(y, d, X, gone, done)
  BY <1>1, <1>7 DEF Settled, B
<1>13. Broken(y, d, X, gone)
  <2> SUFFICES ASSUME NEW c \in gone
               PROVE  c <= B /\ \E j \in Nat : Missing(y, d, X, c, j)
    BY <1>7 DEF Broken
  <2>1. c <= B /\ \E j \in Nat : Missing(z, b, X, c, j)
    BY <1>1 DEF Broken, B
  <2>2. PICK j \in Nat : Missing(z, b, X, c, j)
    BY <2>1
  <2>3. /\ c = B => l > 0 /\ j < b[1].so
        /\ \A x \in X : x.id = c => x.so # j /\ (Final(x) => j < x.so)
    BY <2>2 DEF Missing, B, l
  <2>4. Len(d) > 0
    BY <1>2, <1>6
  <2>5. Missing(y, d, X, c, j)
    BY <1>7, <1>10, <2>3, <2>4 DEF Missing
  <2> QED  BY <2>1, <2>5
<1>14. Complete(y, d, X, gone, done)
  <2> SUFFICES ASSUME NEW c \in First .. First + Len(y) - 1, c \notin gone \cup done
               PROVE  \E q : PiecesOf(c, q, d, X) /\ Payload(q) = SizeOf(y, c)
    BY DEF Complete
  <2>1. CASE c \in First .. First + L - 1
    <3>1. PICK q : PiecesOf(c, q, b, X) /\ Payload(q) = SizeOf(z, c)
      BY <1>1, <2>1 DEF Complete, L
    <3>2. \A e \in ToSet(b) : e \in ToSet(d)
      <4> TAKE e \in ToSet(b)
      <4>1. PICK i \in 1 .. l : e = b[i]
        BY <1>3, ToSetFacts DEF l
      <4>2. i \in 1 .. Len(d) /\ d[i] = e
        BY <1>2, <1>6, <4>1
      <4> QED  BY <1>6, <4>2, ToSetFacts
    <3>3. PiecesOf(c, q, d, X)
      BY <3>1, <3>2, PiecesKept
    <3>4. SizeOf(y, c) = SizeOf(z, c)
      <4>1. c - First + 1 \in 1 .. L
        BY <1>2, <2>1
      <4> QED  BY <1>5, <4>1 DEF SizeOf
    <3> QED  BY <3>1, <3>3, <3>4
  <2>2. CASE c \notin First .. First + L - 1
    <3>1. c = First + L /\ c - First + 1 = L + 1
      BY <1>2, <1>5, <2>2
    <3> DEFINE q == << p >>
    <3>2. Len(q) = 1 /\ q[1] = p /\ q \in Seq(UnderWay \cup Buffered)
      BY <1>4
    <3> HIDE DEF q
    <3>3. p \in ToSet(d)
      <4>1. l + 1 \in 1 .. Len(d)
        BY <1>2, <1>6
      <4> QED  BY <1>6, <4>1, ToSetFacts
    <3>4. PiecesOf(c, q, d, X)
      <4>1. \A i \in 1 .. Len(q) : i = 1
        BY <3>2
      <4>2. \A i \in 1 .. Len(q) - 1 : FALSE
        BY <3>2
      <4>3. \A i \in 1 .. Len(q) : q[i].id = c /\ q[i].so = i - 1
        BY <1>4, <3>1, <3>2, <4>1
      <4> QED  BY <3>2, <3>3, <4>2, <4>3 DEF PiecesOf
    <3>5. Payload(q) = SizeOf(y, c)
      <4>1. Payload(q) = n
        BY <1>4, <3>2, PayloadShort
      <4> QED  BY <1>5, <3>1, <4>1 DEF SizeOf
    <3> QED  BY <3>4, <3>5
  <2> QED  BY <2>1, <2>2
<1>15. Net(y, d, next, X, gone, done)
  BY <1>8, <1>9, <1>11, <1>12, <1>13, <1>14 DEF Net
<1> QED  BY <1>15 DEF y, d, p
-----------------------------------------------------------------------------
(***************************************************************************)
(* The UE.  The reception buffer of SN n holds each segment once, all of   *)
(* them have the SN n, and they are not all segments of their SDU.  What   *)
(* was handed up is whole, in order, and was not discarded.                *)
(***************************************************************************)
HeldOf(r) == UNION {ToSet(r.segments[n]) : n \in Sns}
Done(r) == r.late \cup Ids(r.handed)
HeldOK(r) ==
    \A n \in Sns : /\ Injective(r.segments[n])
                   /\ \A x \in ToSet(r.segments[n]) : x.sn = n /\ x.si # "ALL"
                   /\ ~AllByteSegmentReceived(ToSet(r.segments[n]))
Delivered(z, r) ==
    /\ \A i \in 1 .. Len(r.handed) : r.handed[i].len = SizeOf(z, r.handed[i].id)
    /\ \A i \in 2 .. Len(r.handed) : r.handed[i - 1].id < r.handed[i].id
    /\ r.late \cap Ids(r.handed) = {}
Grown(r, s) ==
    /\ r.late \subseteq s.late /\ Len(r.handed) <= Len(s.handed)
    /\ \A i \in 1 .. Len(r.handed) : s.handed[i] = r.handed[i]

LEMMA GrownFacts ==
    /\ \A r : Len(r.handed) \in Nat => Grown(r, r)
    /\ \A r, s, t : /\ Len(r.handed) \in Nat /\ Len(s.handed) \in Nat /\ Len(t.handed) \in Nat
                    /\ Grown(r, s) /\ Grown(s, t) => Grown(r, t)
<1>1. ASSUME NEW r, Len(r.handed) \in Nat PROVE Grown(r, r)
  BY <1>1 DEF Grown
<1>2. ASSUME NEW r, NEW s, NEW t,
             Len(r.handed) \in Nat, Len(s.handed) \in Nat, Len(t.handed) \in Nat,
             Grown(r, s), Grown(s, t)
      PROVE  Grown(r, t)
  <2> DEFINE a == Len(r.handed)
             b == Len(s.handed)
             c == Len(t.handed)
  <2>1. a \in Nat /\ b \in Nat /\ c \in Nat /\ a <= b /\ b <= c
    BY <1>2 DEF Grown
  <2>2. /\ r.late \subseteq s.late /\ s.late \subseteq t.late
        /\ \A i \in 1 .. a : s.handed[i] = r.handed[i]
        /\ \A i \in 1 .. b : t.handed[i] = s.handed[i]
    BY <1>2 DEF Grown
  <2> HIDE DEF a, b, c
  <2>3. a <= c /\ \A i \in 1 .. a : i \in 1 .. b
    BY <2>1
  <2>4. r.late \subseteq t.late /\ \A i \in 1 .. a : t.handed[i] = r.handed[i]
    BY <2>2, <2>3
  <2> QED  BY <2>3, <2>4 DEF Grown, a, c
<1> QED  BY <1>1, <1>2

\* PDCP takes an SDU that is complete and was not there before.
Takes(b, next, X, gone, r, id, bytes) ==
    /\ Net(size, b, next, X, gone, Done(r)) /\ Delivered(size, r)
    /\ id \in Accepted /\ Recent(id) /\ bytes = SizeOf(size, id)
    /\ id \notin gone /\ id \notin Done(r) /\ id < Base(size, b)
Taken(b, next, X, gone, r, id, s) ==
    /\ s.segments = r.segments
    /\ Net(size, b, next, {x \in X : x.id # id}, gone, Done(s))
    /\ Delivered(size, s) /\ Grown(r, s)

LEMMA PdcpNet ==
    ASSUME NEW r, NEW Q, SaneUe(r, Q), Len(size) \in 0 .. MaxSdus,
           NEW b, NEW next, NEW X, NEW gone, NEW id, NEW bytes, Takes(b, next, X, gone, r, id, bytes)
    PROVE  Taken(b, next, X, gone, r, id, ReceivePDCPSDU(r, id, bytes))
<1> DEFINE s == ReceivePDCPSDU(r, id, bytes)
<1>0. /\ Net(size, b, next, X, gone, Done(r)) /\ Delivered(size, r)
      /\ id \in Accepted /\ id \notin gone /\ id \notin Done(r) /\ id < Base(size, b)
      /\ bytes = SizeOf(size, id) /\ Recent(id)
  BY DEF Takes
<1>1. /\ r \in UeState(Q) /\ At(r) \in Nat
      /\ r.handed \in Seq(Sdu) /\ Len(r.handed) \in Nat
      /\ \A i \in 1 .. Len(r.handed) : r.handed[i] \in Sdu
  <2>1. r \in UeState(Q) /\ At(r) \in Nat
    BY DEF SaneUe, Near
  <2>2. r.handed \in Seq(Sdu)
    BY <2>1 DEF UeState
  <2> QED  BY <2>1, <2>2, LenProperties, ElementOfSeq
<1>2. id \in Nat
  BY <1>0, ConstantFacts DEF Accepted
<1>3. Net(size, b, next, {x \in X : x.id # id}, gone, Done(r) \cup {id})
  BY <1>0, <1>2, TakeNet
<1>4. id \notin r.late /\ id \notin Ids(r.handed)
  BY <1>0 DEF Done
<1> HIDE DEF s
<1>5. \A e : e \in Ids(r.handed) <=> \E i \in 1 .. Len(r.handed) : e = r.handed[i].id
  BY <1>1, ToSetFacts DEF Ids
<1>6. CASE id < At(r)
  <2>1. s = Late(r, id)
    BY <1>0, <1>6, PdcpResult DEF s
  <2>2. s.segments = r.segments /\ s.handed = r.handed /\ s.late = r.late \cup {id}
    BY <1>1, <2>1 DEF Late, UeState
  <2>3. Done(s) = Done(r) \cup {id}
    BY <2>2 DEF Done
  <2>4. Delivered(size, s)
    BY <1>0, <1>4, <2>2 DEF Delivered
  <2>5. Grown(r, s)
    BY <1>1, <2>2 DEF Grown
  <2> QED  BY <1>3, <2>2, <2>3, <2>4, <2>5 DEF Taken, s
<1>7. CASE ~(id < At(r))
  <2> DEFINE p == [id |-> id, len |-> bytes]
             h == Append(r.handed, p)
             m == Len(r.handed)
  <2>1. s = Up(r, id, bytes)
    BY <1>0, <1>7, PdcpResult DEF s
  <2>2. s.segments = r.segments /\ s.handed = h /\ s.late = r.late
    BY <2>1 DEF Up
  <2>3. p.id = id /\ p.len = bytes
    OBVIOUS
  <2> HIDE DEF p
  <2>4. /\ Len(h) = m + 1 /\ h[m + 1] = p
        /\ \A i \in 1 .. m : h[i] = r.handed[i]
        /\ h \in Seq(Sdu \cup {p})
    <3> DEFINE S == Sdu \cup {p}
    <3>1. Sdu \subseteq S /\ p \in S
      OBVIOUS
    <3> HIDE DEF S
    <3>2. r.handed \in Seq(S)
      BY <1>1, <3>1, SeqMono
    <3>3. /\ h \in Seq(S) /\ Len(h) = m + 1 /\ h[m + 1] = p
          /\ \A i \in 1 .. m : h[i] = r.handed[i]
      BY <3>1, <3>2, AppendProperties
    <3> QED  BY <3>3 DEF S
  <2> HIDE DEF h
  <2>5. m \in Nat /\ m + 1 \in Nat /\ m <= m + 1 /\ m + 1 \in 1 .. m + 1
        /\ \A i \in 1 .. m + 1 : i \in 1 .. m \/ i = m + 1
    <3>1. m \in Nat
      BY <1>1
    <3> HIDE DEF m
    <3> QED  BY <3>1
  <2>6. \A e : e \in Ids(h) <=> e \in Ids(r.handed) \/ e = id
    <3>1. \A e : e \in Ids(h) <=> \E i \in 1 .. m + 1 : e = h[i].id
      BY <2>4, ToSetFacts DEF Ids
    <3>2. ASSUME NEW i \in 1 .. m + 1 PROVE h[i].id \in Ids(r.handed) \/ h[i].id = id
      BY <1>5, <2>3, <2>4, <2>5
    <3>3. ASSUME NEW i \in 1 .. m PROVE r.handed[i].id \in Ids(h)
      <4>1. i \in 1 .. m + 1 /\ h[i] = r.handed[i]
        BY <2>4, <2>5
      <4> QED  BY <3>1, <4>1
    <3>4. id \in Ids(h)
      BY <2>3, <2>4, <2>5, <3>1
    <3> QED  BY <1>5, <3>1, <3>2, <3>3, <3>4
  <2>7. Done(s) = Done(r) \cup {id}
    <3>1. \A e : e \in Done(s) <=> e \in r.late \/ e \in Ids(h)
      BY <2>2 DEF Done
    <3>2. \A e : e \in Done(r) <=> e \in r.late \/ e \in Ids(r.handed)
      BY DEF Done
    <3> QED  BY <2>6, <3>1, <3>2
  <2>8. m # 0 => r.handed[m].id < id
    <3> SUFFICES ASSUME m # 0 PROVE r.handed[m].id < id
      OBVIOUS
    <3>1. m \in 1 .. m
      BY <2>5
    <3>2. At(r) = r.handed[m].id
      <4>1. r.handed # << >>
        BY <1>1, EmptySeq
      <4> QED  BY <4>1 DEF At, Last
    <3>3. r.handed[m].id # id
      BY <1>4, <1>5, <3>1
    <3> DEFINE d == At(r)
    <3>4. d \in Nat /\ ~(id < d) /\ d # id
      BY <1>1, <1>7, <3>2, <3>3
    <3> HIDE DEF d
    <3>5. d < id
      BY <1>2, <3>4
    <3> QED  BY <3>2, <3>5 DEF d
  <2>9. Delivered(size, s)
    <3>1. \A i \in 1 .. m + 1 : h[i].len = SizeOf(size, h[i].id)
      BY <1>0, <2>3, <2>4, <2>5 DEF Delivered
    <3>2. ASSUME NEW i \in 2 .. m + 1 PROVE h[i - 1].id < h[i].id
      <4>1. CASE i \in 2 .. m
        <5>1. i - 1 \in 1 .. m /\ i \in 1 .. m
          BY <2>5, <4>1
        <5> QED  BY <1>0, <2>4, <4>1, <5>1 DEF Delivered
      <4>2. CASE i \notin 2 .. m
        <5>1. i = m + 1 /\ i - 1 = m /\ m # 0 /\ m \in 1 .. m
          BY <2>5, <4>2
        <5> QED  BY <2>3, <2>4, <2>8, <5>1
      <4> QED  BY <4>1, <4>2
    <3>3. s.late \cap Ids(h) = {}
      BY <1>0, <1>4, <2>2, <2>6 DEF Delivered
    <3> QED  BY <2>2, <2>4, <3>1, <3>2, <3>3 DEF Delivered
  <2>10. Grown(r, s)
    BY <2>2, <2>4, <2>5 DEF Grown
  <2> QED  BY <1>3, <2>2, <2>7, <2>9, <2>10 DEF Taken, s
<1> QED  BY <1>6, <1>7

Put(r, sn, q) == [r EXCEPT !.segments[sn] = q]

LEMMA PutFacts ==
    ASSUME NEW r, NEW Q, SaneUe(r, Q), NEW sn \in Sns, NEW q \in Seq(Q),
           \A z \in ToSet(q) : z.sn = sn /\ z.si # "ALL"
    PROVE  /\ SaneUe(Put(r, sn, q), Q)
           /\ \A n \in Sns : Put(r, sn, q).segments[n] = IF n = sn THEN q ELSE r.segments[n]
           /\ Put(r, sn, q).handed = r.handed /\ Put(r, sn, q).late = r.late
<1> DEFINE x == Put(r, sn, q)
<1>1. r \in UeState(Q) /\ r.segments \in [Sns -> Seq(Q)]
  BY DEF SaneUe, UeState
<1>2. x = [r EXCEPT !.segments[sn] = q]
  BY DEF Put
<1> HIDE DEF x
<1>3. x.handed = r.handed /\ x.late = r.late /\ x.segments = [r.segments EXCEPT ![sn] = q]
  BY <1>1, <1>2 DEF UeState
<1>4. \A n \in Sns : x.segments[n] = IF n = sn THEN q ELSE r.segments[n]
  BY <1>1, <1>3
<1>5. x \in UeState(Q) /\ x.RX_DELIV = r.RX_DELIV /\ x.RX_NEXT = r.RX_NEXT
  BY <1>1, <1>2 DEF UeState
<1>6. SaneUe(x, Q)
  <2>1. Filed(x)
    <3> SUFFICES ASSUME NEW n \in Sns, NEW e \in ToSet(x.segments[n])
                 PROVE  e.sn = n /\ e.si # "ALL"
      BY DEF Filed
    <3>1. CASE n = sn
      BY <1>4, <3>1
    <3>2. CASE n # sn
      BY <1>4, <3>2 DEF SaneUe, Filed
    <3> QED  BY <3>1, <3>2
  <2> QED  BY <1>3, <1>5, <2>1 DEF SaneUe, Near, At, Agree
<1> QED  BY <1>3, <1>4, <1>6 DEF x

UeNet(z, b, next, Y, gone, r) ==
    /\ Net(z, b, next, HeldOf(r) \cup Y, gone, Done(r))
    /\ HeldOf(r) \cap Y = {} /\ HeldOK(r) /\ Delivered(z, r)

\* An SDU that was not segmented.
LEMMA WholeNet ==
    ASSUME NEW r, NEW Q, SaneUe(r, Q), Q \subseteq Pdu, Len(size) \in 0 .. MaxSdus,
           NEW b, NEW next, NEW Y, NEW gone, NEW p \in Q, p \notin Y, p.si = "ALL", Recent(p.id),
           UeNet(size, b, next, Y \cup {p}, gone, r), NEW s, s = RECEIVE_PDU(r, p)
    PROVE  UeNet(size, b, next, Y, gone, s) /\ Grown(r, s)
<1> DEFINE X == HeldOf(r) \cup (Y \cup {p})
           c == p.id
           t == << p >>
<1>1. /\ Net(size, b, next, X, gone, Done(r))
      /\ HeldOf(r) \cap (Y \cup {p}) = {} /\ HeldOK(r) /\ Delivered(size, r)
  BY DEF UeNet
<1>2. s = ReceivePDCPSDU(r, c, p.len)
  BY DEF RECEIVE_PDU
<1>3. p \in X /\ \A x : x \in X <=> x \in HeldOf(r) \/ x \in Y \/ x = p
  OBVIOUS
<1>4. c \in Accepted /\ c \in Int /\ First <= c /\ p.len \in Int /\ Recent(c)
  <2>1. c \in Accepted /\ p.len \in Int
    BY DEF Pdu
  <2> QED  BY <2>1, ConstantFacts DEF Accepted
<1>5. Len(t) = 1 /\ t[1] = p /\ t \in Seq(X)
  BY <1>3
<1> HIDE DEF X, c, t
<1>6. \A x : x \in ToSet(t) <=> x = p
  <2>1. \A i \in 1 .. Len(t) : i = 1
    BY <1>5
  <2>2. 1 \in 1 .. Len(t)
    BY <1>5
  <2>3. \A x : x \in ToSet(t) <=> \E i \in 1 .. Len(t) : x = t[i]
    BY <1>5, ToSetFacts, Zenon
  <2>4. t[1] = p
    BY <1>5
  <2> QED  BY <2>1, <2>2, <2>3, <2>4, Zenon
<1>7. Injective(t) /\ HasAll(t) /\ \A x \in ToSet(t) : x.id = c
  <2>1. \A i, j \in 1 .. Len(t) : i = j
    BY <1>5
  <2>2. p.so = 0
    BY <1>1, <1>3 DEF Net, Order
  <2>3. \A i \in 0 .. p.so - 1 : FALSE
    BY <2>2
  <2>4. Final(p) /\ p \in ToSet(t)
    BY <1>6 DEF Final
  <2> QED  BY <1>6, <2>1, <2>3, <2>4 DEF Injective, HasAll, c
<1>8. /\ c \notin gone /\ c \notin Done(r) /\ c < Base(size, b)
      /\ Payload(t) = SizeOf(size, c) /\ \A x \in X : x.id = c => x = p
  BY <1>1, <1>4, <1>5, <1>6, <1>7, CompleteFacts
<1>9. p.len = SizeOf(size, c)
  <2>1. Payload(t) = p.len
    BY <1>4, <1>5, PayloadShort
  <2> QED  BY <1>8, <2>1
<1>10. /\ s.segments = r.segments
       /\ Net(size, b, next, {x \in X : x.id # c}, gone, Done(s))
       /\ Delivered(size, s) /\ Grown(r, s)
  <2> DEFINE n == p.len
  <2>1. Takes(b, next, X, gone, r, c, n)
    BY <1>1, <1>4, <1>8, <1>9 DEF Takes
  <2> HIDE DEF n
  <2>2. Taken(b, next, X, gone, r, c, ReceivePDCPSDU(r, c, n))
    BY <2>1, PdcpNet
  <2> QED  BY <1>2, <2>2 DEF Taken, n
<1>11. HeldOf(s) = HeldOf(r) /\ HeldOK(s)
  BY <1>1, <1>10 DEF HeldOf, HeldOK
<1>12. {x \in X : x.id # c} = HeldOf(s) \cup Y
  <2>1. p \notin HeldOf(r)
    BY <1>1
  <2>2. \A x \in X : x.id # c <=> x # p
    BY <1>8 DEF c
  <2> QED  BY <1>3, <1>11, <2>1, <2>2
<1>13. HeldOf(s) \cap Y = {}
  BY <1>1, <1>11
<1> QED  BY <1>10, <1>11, <1>12, <1>13 DEF UeNet

\* A segment.
LEMMA SegmentNet ==
    ASSUME NEW r, NEW Q, SaneUe(r, Q), Q \subseteq Pdu, OneSn(Q), Len(size) \in 0 .. MaxSdus,
           NEW b, NEW next, NEW Y, NEW gone, NEW p \in Q, p \notin Y, p.si # "ALL", Numbered(p),
           UeNet(size, b, next, Y \cup {p}, gone, r), NEW s, s = PLACE_IN_RECEPTIONBUFFER(r, p)
    PROVE  UeNet(size, b, next, Y, gone, s) /\ Grown(r, s)
<1> DEFINE X == HeldOf(r) \cup (Y \cup {p})
           c == p.id
           sn == p.sn
           old == r.segments[sn]
           segs == Append(old, p)
           none == << >>
           u == Put(r, sn, none)
           v == Put(r, sn, segs)
<1>1. /\ Net(size, b, next, X, gone, Done(r))
      /\ HeldOf(r) \cap (Y \cup {p}) = {} /\ HeldOK(r) /\ Delivered(size, r)
  BY DEF UeNet
<1>2. p \in X /\ \A x : x \in X <=> x \in HeldOf(r) \/ x \in Y \/ x = p
  OBVIOUS
<1>3. c \in Accepted /\ c \in Int /\ First <= c /\ Recent(c) /\ sn \in Sns
  <2>1. c \in Accepted /\ Recent(c) /\ sn \in Sns
    BY DEF Pdu, Numbered
  <2> QED  BY <2>1, ConstantFacts DEF Accepted
<1>4. \A n \in Sns : r.segments[n] \in Seq(Q)
  BY DEF SaneUe, UeState
<1>5. /\ s = IF AllByteSegmentReceived(ToSet(segs))
             THEN ReceivePDCPSDU(u, Head(segs).id, Payload(segs)) ELSE v
  BY DEF PLACE_IN_RECEPTIONBUFFER, ReassembleAllBytes, Put
<1>6. sn \in Sns /\ old \in Seq(Q)
  BY <1>3, <1>4
<1>7. \A x : x \in HeldOf(r) <=> \E n \in Sns : x \in ToSet(r.segments[n])
  BY DEF HeldOf
<1>8. p \notin HeldOf(r) /\ p \notin ToSet(old)
  BY <1>1, <1>6, <1>7
<1>9. \A x \in ToSet(old) : x \in Q /\ x.sn = sn /\ x.si # "ALL"
  BY <1>1, <1>6, ToSetFacts DEF HeldOK
<1>10. Injective(old)
  BY <1>1, <1>6 DEF HeldOK
<1> HIDE DEF X, c, sn, old
<1>11. /\ segs \in Seq(Q) /\ Len(segs) = Len(old) + 1 /\ Len(old) \in Nat
       /\ segs[Len(old) + 1] = p /\ \A i \in 1 .. Len(old) : segs[i] = old[i]
  BY <1>6, AppendProperties, LenProperties
<1> HIDE DEF segs
<1>12. \A x : x \in ToSet(segs) <=> x \in ToSet(old) \/ x = p
  <2>1. \A i \in 1 .. Len(segs) : i \in 1 .. Len(old) \/ i = Len(old) + 1
    BY <1>11
  <2>2. Len(old) + 1 \in 1 .. Len(segs) /\ \A i \in 1 .. Len(old) : i \in 1 .. Len(segs)
    BY <1>11
  <2>3. /\ \A x : x \in ToSet(segs) <=> \E i \in 1 .. Len(segs) : x = segs[i]
        /\ \A x : x \in ToSet(old) <=> \E i \in 1 .. Len(old) : x = old[i]
    BY <1>6, <1>11, ToSetFacts
  <2>4. ASSUME NEW x \in ToSet(segs) PROVE x \in ToSet(old) \/ x = p
    BY <1>11, <2>1, <2>3
  <2>5. ASSUME NEW x \in ToSet(old) PROVE x \in ToSet(segs)
    BY <1>11, <2>2, <2>3
  <2>6. p \in ToSet(segs)
    BY <1>11, <2>2, <2>3
  <2> QED  BY <2>4, <2>5, <2>6
<1>13. Injective(segs)
  <2> SUFFICES ASSUME NEW i \in 1 .. Len(segs), NEW j \in 1 .. Len(segs), segs[i] = segs[j]
               PROVE  i = j
    BY DEF Injective
  <2>1. \A k \in 1 .. Len(old) : segs[k] # p
    BY <1>6, <1>8, <1>11, ToSetFacts
  <2>2. CASE i \in 1 .. Len(old) /\ j \in 1 .. Len(old)
    BY <1>10, <1>11, <2>2 DEF Injective
  <2>3. CASE ~(i \in 1 .. Len(old) /\ j \in 1 .. Len(old))
    BY <1>11, <2>1, <2>3
  <2> QED  BY <2>2, <2>3
<1>14. \A x \in ToSet(segs) : x \in Q /\ x.sn = sn /\ x.si # "ALL" /\ x.id = c
  <2>1. \A x \in ToSet(segs) : x \in Q /\ x.sn = sn /\ x.si # "ALL"
    BY <1>9, <1>12 DEF sn
  <2> QED  BY <2>1 DEF OneSn, c, sn
<1>15. Head(segs).id = c
  <2>1. 1 \in 1 .. Len(segs) /\ Head(segs) = segs[1]
    BY <1>11
  <2>2. segs[1] \in ToSet(segs)
    BY <1>11, <2>1, ToSetFacts
  <2> QED  BY <1>14, <2>1, <2>2
<1>16. /\ SaneUe(u, Q) /\ u.handed = r.handed /\ u.late = r.late
       /\ \A n \in Sns : u.segments[n] = IF n = sn THEN none ELSE r.segments[n]
  <2>1. none \in Seq(Q) /\ ToSet(none) = {}
    BY DEF ToSet
  <2> HIDE DEF none
  <2> QED  BY <1>6, <2>1, PutFacts
<1>17. /\ SaneUe(v, Q) /\ v.handed = r.handed /\ v.late = r.late
       /\ \A n \in Sns : v.segments[n] = IF n = sn THEN segs ELSE r.segments[n]
  BY <1>6, <1>11, <1>14, PutFacts
<1> HIDE DEF u, v
<1>18. Len(r.handed) \in Nat
  <2>1. r.handed \in Seq(Sdu)
    BY DEF SaneUe, UeState
  <2> QED  BY <2>1, LenProperties
<1>19. CASE AllByteSegmentReceived(ToSet(segs))
  <2>1. HasAll(segs)
    BY <1>19 DEF AllByteSegmentReceived, HasAll, Final
  <2>2. segs \in Seq(X)
    <3>1. \A x \in ToSet(old) : x \in X
      BY <1>2, <1>6, <1>7 DEF old
    <3>2. \A i \in 1 .. Len(segs) : segs[i] \in X
      <4>1. \A i \in 1 .. Len(segs) : segs[i] \in ToSet(segs)
        BY <1>11, ToSetFacts
      <4> QED  BY <1>2, <1>12, <3>1, <4>1
    <3>3. segs = [i \in 1 .. Len(segs) |-> segs[i]] /\ Len(segs) \in Nat
      BY <1>11
    <3> QED  BY <3>2, <3>3, IsSeq
  <2>3. /\ c \notin gone /\ c \notin Done(r) /\ c < Base(size, b)
        /\ Payload(segs) = SizeOf(size, c) /\ \A x \in X : x.id = c => x \in ToSet(segs)
    <3>1. \A x \in ToSet(segs) : x.id = c
      BY <1>14
    <3> QED  BY <1>1, <1>3, <1>13, <2>1, <2>2, <3>1, CompleteFacts
  <2>4. s = ReceivePDCPSDU(u, c, Payload(segs))
    BY <1>5, <1>15, <1>19
  <2>5. Done(u) = Done(r) /\ Delivered(size, u) /\ Grown(r, u)
    <3>1. Done(u) = Done(r)
      BY <1>16, Zenon DEF Done
    <3>2. Delivered(size, u)
      BY <1>1, <1>16, Zenon DEF Delivered
    <3>3. Grown(r, u)
      BY <1>16, <1>18 DEF Grown
    <3> QED  BY <3>1, <3>2, <3>3
  <2>6. /\ s.segments = u.segments
        /\ Net(size, b, next, {x \in X : x.id # c}, gone, Done(s))
        /\ Delivered(size, s) /\ Grown(u, s)
    <3>1. Net(size, b, next, X, gone, Done(u))
      BY <1>1, <2>5
    <3>2. c \notin Done(u)
      BY <2>3, <2>5
    <3> DEFINE n == Payload(segs)
    <3>3. Takes(b, next, X, gone, u, c, n)
      BY <1>3, <2>3, <2>5, <3>1, <3>2 DEF Takes
    <3> HIDE DEF n
    <3>4. Taken(b, next, X, gone, u, c, ReceivePDCPSDU(u, c, n))
      BY <1>16, <3>3, PdcpNet
    <3> QED  BY <2>4, <3>4 DEF Taken, n
  <2>7. Grown(r, s)
    BY <1>16, <2>6 DEF Grown
  <2>8. \A x : x \in HeldOf(s) <=> \E n \in Sns : n # sn /\ x \in ToSet(r.segments[n])
    <3>1. \A x : x \notin ToSet(none)
      BY DEF ToSet
    <3>2. \A n \in Sns : s.segments[n] = IF n = sn THEN none ELSE r.segments[n]
      BY <1>16, <2>6
    <3> HIDE DEF none
    <3> QED  BY <3>1, <3>2 DEF HeldOf
  <2>9. {x \in X : x.id # c} = HeldOf(s) \cup Y
    <3>1. ASSUME NEW x \in X, x.id # c PROVE x \in HeldOf(s) \cup Y
      <4>1. x # p /\ x \notin ToSet(old)
        BY <1>12, <1>14, <3>1 DEF c
      <4>2. CASE x \in HeldOf(r)
        BY <1>7, <2>8, <4>1, <4>2 DEF old
      <4> QED  BY <1>2, <4>1, <4>2
    <3>2. ASSUME NEW x \in HeldOf(s) PROVE x \in X /\ x.id # c
      <4>1. PICK n \in Sns : n # sn /\ x \in ToSet(r.segments[n])
        BY <2>8
      <4>2. x.sn = n /\ x \in X
        BY <1>1, <1>2, <1>7, <4>1 DEF HeldOK
      <4> QED  BY <1>14, <2>3, <4>1, <4>2
    <3>3. ASSUME NEW x \in Y PROVE x \in X /\ x.id # c
      <4>1. x \in X /\ x # p /\ x \notin HeldOf(r)
        BY <1>1, <1>2
      <4>2. x \notin ToSet(segs)
        BY <1>6, <1>7, <1>12, <4>1 DEF old
      <4> QED  BY <2>3, <4>1, <4>2
    <3> QED  BY <3>1, <3>2, <3>3
  <2>10. HeldOf(s) \cap Y = {}
    BY <1>1, <1>7, <2>8
  <2>11. HeldOK(s)
    <3> SUFFICES ASSUME NEW n \in Sns
                 PROVE  /\ Injective(s.segments[n])
                        /\ \A x \in ToSet(s.segments[n]) : x.sn = n /\ x.si # "ALL"
                        /\ ~AllByteSegmentReceived(ToSet(s.segments[n]))
      BY DEF HeldOK
    <3>1. CASE n = sn
      <4>1. s.segments[n] = none
        BY <1>16, <2>6, <3>1
      <4>2. Injective(none) /\ \A x : x \notin ToSet(none)
        BY DEF Injective, ToSet
      <4> HIDE DEF none
      <4> QED  BY <4>1, <4>2 DEF AllByteSegmentReceived
    <3>2. CASE n # sn
      BY <1>1, <1>16, <2>6, <3>2 DEF HeldOK
    <3> QED  BY <3>1, <3>2
  <2> QED  BY <2>6, <2>7, <2>9, <2>10, <2>11 DEF UeNet
<1>20. CASE ~AllByteSegmentReceived(ToSet(segs))
  <2>1. s = v
    BY <1>5, <1>20
  <2>2. Done(s) = Done(r) /\ Delivered(size, s) /\ Grown(r, s)
    <3>1. Done(s) = Done(r)
      BY <1>17, <2>1, Zenon DEF Done
    <3>2. Delivered(size, s)
      BY <1>1, <1>17, <2>1, Zenon DEF Delivered
    <3>3. Grown(r, s)
      BY <1>17, <1>18, <2>1 DEF Grown
    <3> QED  BY <3>1, <3>2, <3>3
  <2>3. \A x : x \in HeldOf(s) <=> x \in HeldOf(r) \/ x = p
    <3>1. \A x : x \in HeldOf(s) <=> \E n \in Sns : x \in ToSet(v.segments[n])
      BY <2>1 DEF HeldOf
    <3>2. ASSUME NEW x \in HeldOf(s) PROVE x \in HeldOf(r) \/ x = p
      <4>1. PICK n \in Sns : x \in ToSet(v.segments[n])
        BY <3>1
      <4> QED  BY <1>6, <1>7, <1>12, <1>17, <4>1 DEF old
    <3>3. ASSUME NEW x \in HeldOf(r) PROVE x \in HeldOf(s)
      <4>1. PICK n \in Sns : x \in ToSet(r.segments[n])
        BY <1>7
      <4>2. x \in ToSet(v.segments[n])
        BY <1>12, <1>17, <4>1 DEF old
      <4> QED  BY <3>1, <4>2
    <3>4. p \in HeldOf(s)
      BY <1>6, <1>12, <1>17, <3>1
    <3> QED  BY <3>2, <3>3, <3>4
  <2>4. HeldOf(s) \cup Y = X
    BY <1>2, <2>3
  <2>5. HeldOf(s) \cap Y = {}
    BY <1>1, <2>3
  <2>6. HeldOK(s)
    <3> SUFFICES ASSUME NEW n \in Sns
                 PROVE  /\ Injective(s.segments[n])
                        /\ \A x \in ToSet(s.segments[n]) : x.sn = n /\ x.si # "ALL"
                        /\ ~AllByteSegmentReceived(ToSet(s.segments[n]))
      BY DEF HeldOK
    <3>1. CASE n = sn
      BY <1>13, <1>14, <1>17, <1>20, <2>1, <3>1
    <3>2. CASE n # sn
      BY <1>1, <1>17, <2>1, <3>2 DEF HeldOK
    <3> QED  BY <3>1, <3>2
  <2> QED  BY <1>1, <2>2, <2>4, <2>5, <2>6 DEF UeNet
<1> QED  BY <1>19, <1>20

LEMMA ReceiveNet ==
    ASSUME NEW r, NEW Q, SaneUe(r, Q), Q \subseteq Pdu, OneSn(Q), Len(size) \in 0 .. MaxSdus,
           NEW b, NEW next, NEW Y, NEW gone, NEW p \in Q, p \notin Y, Numbered(p),
           UeNet(size, b, next, Y \cup {p}, gone, r)
    PROVE  UeNet(size, b, next, Y, gone, RECEIVE_PDU(r, p)) /\ Grown(r, RECEIVE_PDU(r, p))
<1> DEFINE s == RECEIVE_PDU(r, p)
<1>1. CASE p.si = "ALL"
  <2> HIDE DEF s
  <2>1. s = RECEIVE_PDU(r, p)
    BY DEF s
  <2>2. UeNet(size, b, next, Y, gone, s) /\ Grown(r, s)
    BY <1>1, <2>1, WholeNet DEF Numbered
  <2> QED  BY <2>2 DEF s
<1>2. CASE p.si # "ALL"
  <2> HIDE DEF s
  <2>1. s = PLACE_IN_RECEPTIONBUFFER(r, p)
    BY <1>2 DEF RECEIVE_PDU, s
  <2>2. UeNet(size, b, next, Y, gone, s) /\ Grown(r, s)
    BY <1>2, <2>1, SegmentNet
  <2> QED  BY <2>2 DEF s
<1> QED  BY <1>1, <1>2

\* All PDUs of a TB.
LEMMA ReceivedNet ==
    ASSUME NEW r, NEW Q, SaneUe(r, Q), Q \subseteq Pdu, OneSn(Q), Len(size) \in 0 .. MaxSdus,
           NEW b, NEW next, NEW Y, NEW gone, NEW pkts \in Seq(Q), Injective(pkts),
           \A i \in 1 .. Len(pkts) : Numbered(pkts[i]),
           Y \cap ToSet(pkts) = {}, UeNet(size, b, next, Y \cup ToSet(pkts), gone, r)
    PROVE  UeNet(size, b, next, Y, gone, Received(r, pkts)) /\ Grown(r, Received(r, pkts))
<1> DEFINE n == Len(pkts)
           g == CHOOSE g : After(g, r, pkts, n)
           Rest(i) == {pkts[j] : j \in i + 1 .. n}
           Good(i) == /\ SaneUe(g[i], Q) /\ Grown(r, g[i])
                      /\ UeNet(size, b, next, Y \cup Rest(i), gone, g[i])
           D == {i \in 0 .. n : ~Good(i)}
<1>1. n \in Nat /\ \A i \in 1 .. n : pkts[i] \in Q /\ pkts[i] \in ToSet(pkts)
  BY LenProperties, ElementOfSeq, ToSetFacts
<1>2. Received(r, pkts) = g[n]
  BY DEF Received, After
<1>3. After(g, r, pkts, n)
  BY <1>1, AfterExists
<1> HIDE DEF g
<1>4. g = [i \in 0 .. n |-> IF i = 0 THEN r ELSE RECEIVE_PDU(g[i - 1], pkts[i])]
  BY <1>3 DEF After
<1>5. g[0] = r /\ \A i \in 1 .. n : g[i] = RECEIVE_PDU(g[i - 1], pkts[i])
  BY <1>1, <1>4
<1>6. \A t : SaneUe(t, Q) => Len(t.handed) \in Nat
  <2> SUFFICES ASSUME NEW t, SaneUe(t, Q) PROVE Len(t.handed) \in Nat
    OBVIOUS
  <2>1. t.handed \in Seq(Sdu)
    BY DEF SaneUe, UeState
  <2> QED  BY <2>1, LenProperties
<1>7. Good(0)
  <2>1. Rest(0) = ToSet(pkts)
    <3>1. \A x : x \in ToSet(pkts) <=> \E i \in 1 .. n : x = pkts[i]
      BY ToSetFacts
    <3>2. 0 + 1 .. n = 1 .. n
      OBVIOUS
    <3> QED  BY <3>1, <3>2
  <2>2. Grown(r, r)
    BY <1>6, GrownFacts
  <2> HIDE DEF Rest
  <2> QED  BY <1>5, <2>1, <2>2
<1>8. ASSUME NEW i \in 1 .. n, Good(i - 1) PROVE Good(i)
  <2> DEFINE p == pkts[i]
             h == g[i - 1]
             Z == Y \cup Rest(i)
  <2>1. p \in Q /\ Numbered(p) /\ p \in ToSet(pkts)
    BY <1>1
  <2>2. p \notin Rest(i)
    <3> SUFFICES ASSUME p \in Rest(i) PROVE FALSE
      OBVIOUS
    <3>1. PICK j \in i + 1 .. n : p = pkts[j]
      OBVIOUS
    <3>2. j \in 1 .. n /\ j # i
      BY <1>1
    <3> QED  BY <3>1, <3>2 DEF Injective
  <2>3. p \notin Z
    <3> HIDE DEF Rest, p
    <3> QED  BY <2>1, <2>2
  <2>4. Y \cup Rest(i - 1) = Z \cup {p}
    <3>1. \A j : j \in (i - 1) + 1 .. n <=> j = i \/ j \in i + 1 .. n
      BY <1>1
    <3>2. Rest(i - 1) = Rest(i) \cup {p}
      BY <3>1
    <3> HIDE DEF Rest, p
    <3> QED  BY <3>2
  <2>5. g[i] = RECEIVE_PDU(h, p)
    BY <1>5
  <2>6. SaneUe(h, Q) /\ Grown(r, h) /\ UeNet(size, b, next, Z \cup {p}, gone, h)
    <3> HIDE DEF Rest, Z
    <3> QED  BY <1>8, <2>4
  <2> HIDE DEF p, h, Z, Good
  <2>7. UeNet(size, b, next, Z, gone, RECEIVE_PDU(h, p)) /\ Grown(h, RECEIVE_PDU(h, p))
    BY <2>1, <2>3, <2>6, ReceiveNet
  <2>8. SaneUe(RECEIVE_PDU(h, p), Q)
    BY <2>1, <2>6, ReceiveLemma
  <2>9. Grown(r, RECEIVE_PDU(h, p))
    <3> DEFINE k == RECEIVE_PDU(h, p)
    <3> HIDE DEF k
    <3>1. SaneUe(k, Q) /\ Grown(h, k)
      BY <2>7, <2>8 DEF k
    <3>2. Grown(r, k)
      BY <1>6, <2>6, <3>1, GrownFacts
    <3> QED  BY <3>2 DEF k
  <2> QED  BY <2>5, <2>7, <2>8, <2>9 DEF Good, Z
<1>9. \A i \in 0 .. n : Good(i)
  <2> SUFFICES ASSUME D # {} PROVE FALSE
    OBVIOUS
  <2> HIDE DEF Good
  <2>1. PICK k \in D : \A j \in D : k <= j
    <3>1. D \in SUBSET Nat
      BY <1>1
    <3> HIDE DEF D
    <3> QED  BY <3>1, LeastIndex
  <2>2. k # 0
    BY <1>7, <2>1
  <2>3. k \in 1 .. n /\ k - 1 \in 0 .. n /\ k - 1 \notin D
    BY <1>1, <2>1, <2>2
  <2> QED  BY <1>8, <2>1, <2>3
<1>10. Good(n)
  <2> HIDE DEF Good
  <2> QED  BY <1>1, <1>9
<1>11. Y \cup Rest(n) = Y
  <2>1. \A j : j \notin n + 1 .. n
    BY <1>1
  <2>2. Rest(n) = {}
    BY <2>1
  <2> HIDE DEF Rest
  <2> QED  BY <2>2
<1> HIDE DEF Rest
<1> QED  BY <1>2, <1>10, <1>11
-----------------------------------------------------------------------------
(***************************************************************************)
(* The HARQ processes w and the MAC_IN events a: no PDU is there twice.    *)
(***************************************************************************)
InTbs(w) == UNION {ToSet(w[q].pkts) : q \in Processes}
InEvents(a) == UNION {ToSet(tb.pkts) : tb \in ToSet(a)}
Once(w, a) ==
    /\ \A p \in Processes : Injective(w[p].pkts)
    /\ \A p, q \in Processes : p # q => ToSet(w[p].pkts) \cap ToSet(w[q].pkts) = {}
    /\ \A j \in 1 .. Len(a) : Injective(a[j].pkts)
    /\ \A i, j \in 1 .. Len(a) : i # j => ToSet(a[i].pkts) \cap ToSet(a[j].pkts) = {}
    /\ InTbs(w) \cap InEvents(a) = {}

LEMMA InEventsFacts ==
    ASSUME NEW S, NEW a \in Seq(S)
    PROVE  \A x : x \in InEvents(a) <=> \E j \in 1 .. Len(a) : x \in ToSet(a[j].pkts)
<1>1. \A tb : tb \in ToSet(a) <=> \E j \in 1 .. Len(a) : tb = a[j]
  BY ToSetFacts
<1> QED  BY <1>1 DEF InEvents

LEMMA InTbsFacts ==
    \A w : \A x : x \in InTbs(w) <=> \E q \in Processes : x \in ToSet(w[q].pkts)
  BY DEF InTbs

LEMMA NoPkts ==
    ASSUME NEW s, s = << >>
    PROVE  Injective(s) /\ \A x : x \notin ToSet(s)
  BY DEF Injective, ToSet

\* Process p transmits pkts: they stay there, or leave with a MAC_IN event.
Stored(w, a, p, pkts, error, v, e) ==
    /\ \A q \in Processes : v[q].pkts = IF q # p THEN w[q].pkts
                                        ELSE IF error THEN pkts ELSE << >>
    /\ IF ~error /\ pkts # << >>
       THEN /\ Len(e) = Len(a) + 1 /\ e[Len(a) + 1].pkts = pkts
            /\ \A j \in 1 .. Len(a) : e[j] = a[j]
       ELSE e = a

\* No PDU of pkts is elsewhere.
Apart(w, a, p, pkts) ==
    /\ Injective(pkts) /\ \A x \in ToSet(pkts) : x \notin InEvents(a)
    /\ \A q \in Processes : q # p => ToSet(w[q].pkts) \cap ToSet(pkts) = {}

\* What there is then.
Whereabouts(w, a, p, pkts, v, e) ==
    \A x : x \in InTbs(v) \cup InEvents(e) <=>
        \/ x \in ToSet(pkts) \/ x \in InEvents(a)
        \/ \E q \in Processes : q # p /\ x \in ToSet(w[q].pkts)

LEMMA StoredOnce ==
    ASSUME NEW S, NEW a \in Seq(S), NEW e \in Seq(S), NEW w, NEW v, Once(w, a),
           NEW p \in Processes, NEW pkts, NEW error \in BOOLEAN,
           Stored(w, a, p, pkts, error, v, e), Apart(w, a, p, pkts)
    PROVE  Once(v, e) /\ Whereabouts(w, a, p, pkts, v, e)
<1> DEFINE n == Len(a)
<1>0. /\ Injective(pkts) /\ \A x \in ToSet(pkts) : x \notin InEvents(a)
      /\ \A q \in Processes : q # p => ToSet(w[q].pkts) \cap ToSet(pkts) = {}
  BY DEF Apart
<1>1. n \in Nat
  BY LenProperties
<1>2. /\ \A q \in Processes : Injective(w[q].pkts)
      /\ \A q, u \in Processes : q # u => ToSet(w[q].pkts) \cap ToSet(w[u].pkts) = {}
      /\ \A j \in 1 .. n : Injective(a[j].pkts)
      /\ \A i, j \in 1 .. n : i # j => ToSet(a[i].pkts) \cap ToSet(a[j].pkts) = {}
      /\ InTbs(w) \cap InEvents(a) = {}
  BY DEF Once
<1>3. \A x : x \in InEvents(a) <=> \E j \in 1 .. n : x \in ToSet(a[j].pkts)
  BY InEventsFacts
<1>4. \A x : x \in InEvents(e) <=> \E j \in 1 .. Len(e) : x \in ToSet(e[j].pkts)
  BY InEventsFacts
<1>5. /\ \A x : x \in InTbs(w) <=> \E q \in Processes : x \in ToSet(w[q].pkts)
      /\ \A x : x \in InTbs(v) <=> \E q \in Processes : x \in ToSet(v[q].pkts)
  BY InTbsFacts
<1> HIDE DEF n
<1>6. \A q \in Processes : q # p => v[q].pkts = w[q].pkts
  BY DEF Stored
<1>7. CASE error \/ pkts = << >>
  <2>1. e = a /\ v[p].pkts = pkts
    BY <1>7 DEF Stored
  <2>2. \A q \in Processes : Injective(v[q].pkts)
    BY <1>0, <1>2, <1>6, <2>1
  <2>3. \A q, u \in Processes : q # u => ToSet(v[q].pkts) \cap ToSet(v[u].pkts) = {}
    BY <1>0, <1>2, <1>6, <2>1
  <2>4. \A x : x \in InTbs(v) <=>
           x \in ToSet(pkts) \/ \E q \in Processes : q # p /\ x \in ToSet(w[q].pkts)
    BY <1>5, <1>6, <2>1
  <2>5. InTbs(v) \cap InEvents(e) = {}
    BY <1>0, <1>2, <1>5, <2>1, <2>4
  <2>6. Once(v, e)
    BY <1>2, <2>1, <2>2, <2>3, <2>5 DEF Once, n
  <2> QED  BY <2>1, <2>4, <2>6 DEF Whereabouts
<1>8. CASE ~error /\ pkts # << >>
  <2>1. /\ Len(e) = n + 1 /\ e[n + 1].pkts = pkts /\ v[p].pkts = << >>
        /\ \A j \in 1 .. n : e[j] = a[j]
    BY <1>8 DEF Stored, n
  <2>2. Injective(v[p].pkts) /\ \A x : x \notin ToSet(v[p].pkts)
    BY <2>1, NoPkts
  <2>3. \A q \in Processes : Injective(v[q].pkts)
    BY <1>2, <1>6, <2>2
  <2>4. \A q, u \in Processes : q # u => ToSet(v[q].pkts) \cap ToSet(v[u].pkts) = {}
    BY <1>2, <1>6, <2>2
  <2>5. \A j \in 1 .. Len(e) : j \in 1 .. n \/ j = n + 1
    BY <1>1, <2>1
  <2>6. n + 1 \in 1 .. Len(e) /\ \A j \in 1 .. n : j \in 1 .. Len(e)
    BY <1>1, <2>1
  <2>7. \A j \in 1 .. Len(e) : Injective(e[j].pkts)
    BY <1>0, <1>2, <2>1, <2>5
  <2>8. \A j \in 1 .. n : ToSet(a[j].pkts) \cap ToSet(pkts) = {}
    BY <1>0, <1>3
  <2>9. ASSUME NEW i \in 1 .. Len(e), NEW j \in 1 .. Len(e), i # j
        PROVE  ToSet(e[i].pkts) \cap ToSet(e[j].pkts) = {}
    <3>1. CASE i \in 1 .. n /\ j \in 1 .. n
      BY <1>2, <2>1, <2>9, <3>1
    <3>2. CASE i \in 1 .. n /\ j = n + 1
      BY <2>1, <2>8, <3>2
    <3>3. CASE i = n + 1 /\ j \in 1 .. n
      BY <2>1, <2>8, <3>3
    <3> QED  BY <2>5, <2>9, <3>1, <3>2, <3>3
  <2>10. \A x : x \in InTbs(v) <=> \E q \in Processes : q # p /\ x \in ToSet(w[q].pkts)
    BY <1>5, <1>6, <2>2
  <2>11. \A x : x \in InEvents(e) <=> x \in ToSet(pkts) \/ x \in InEvents(a)
    <3>1. ASSUME NEW j \in 1 .. Len(e), NEW x \in ToSet(e[j].pkts)
          PROVE  x \in ToSet(pkts) \/ x \in InEvents(a)
      BY <1>3, <2>1, <2>5
    <3>2. ASSUME NEW j \in 1 .. n, NEW x \in ToSet(a[j].pkts) PROVE x \in InEvents(e)
      <4>1. j \in 1 .. Len(e) /\ e[j] = a[j]
        BY <2>1, <2>6
      <4> QED  BY <1>4, <4>1
    <3>3. \A x \in ToSet(pkts) : x \in InEvents(e)
      BY <1>4, <2>1, <2>6
    <3> QED  BY <1>3, <1>4, <3>1, <3>2, <3>3
  <2>12. InTbs(v) \cap InEvents(e) = {}
    BY <1>0, <1>2, <1>5, <2>10, <2>11
  <2>13. Once(v, e)
    BY <2>3, <2>4, <2>7, <2>9, <2>12 DEF Once
  <2> QED  BY <2>10, <2>11, <2>13 DEF Whereabouts
<1> QED  BY <1>7, <1>8
-----------------------------------------------------------------------------
(***************************************************************************)
(* The inductive invariant of the pieces, added to IInv: those at the UE,  *)
(* in the HARQ processes and in the MAC_IN events are a Net, each is in    *)
(* one place only, and what was freed (lost) is what is gone.  A step only *)
(* adds to what was handed up, discarded or lost (UeStep).                 *)
(***************************************************************************)
NInv ==
    /\ UeNet(size, txBuf, TX_Next, InTbs(process) \cup InEvents(air), lost, rx)
    /\ Once(process, air)

UeStep == Grown(rx, rx') /\ lost \subseteq lost'

LEMMA StateFacts ==
    ASSUME IInv
    PROVE  /\ SenderOK /\ HarqOK /\ SaneUe(rx, Pdu) /\ SnOK /\ PendingRecent
           /\ Len(size) \in 0 .. MaxSdus /\ size \in Seq(Nat)
           /\ rx.handed \in Seq(Sdu) /\ Len(rx.handed) \in Nat /\ rx.late \subseteq Accepted
           /\ \A i \in 1 .. Len(rx.handed) : rx.handed[i] \in Sdu
           /\ \A q \in Processes : process[q].pkts \in Seq(Pdu)
<1>1. SenderOK /\ HarqOK /\ SaneUe(rx, Pdu) /\ SnOK /\ PendingRecent
  BY DEF IInv
<1>2. size \in Seq(Nat) /\ Len(size) \in Nat
  <2>1. size \in Seq(Sizes) /\ Sizes \subseteq Nat
    BY <1>1, ConstantFacts DEF SenderOK
  <2> QED  BY <2>1, SeqMono, LenProperties
<1>3. Len(size) \in 0 .. MaxSdus
  BY <1>1, <1>2, ConstantFacts DEF SenderOK
<1>4. rx.handed \in Seq(Sdu) /\ rx.late \subseteq Accepted
  BY <1>1 DEF SaneUe, UeState
<1>5. Len(rx.handed) \in Nat /\ \A i \in 1 .. Len(rx.handed) : rx.handed[i] \in Sdu
  BY <1>4, LenProperties, ElementOfSeq
<1>6. \A q \in Processes : process[q].pkts \in Seq(Pdu)
  BY <1>1 DEF HarqOK
<1> QED  BY <1>1, <1>2, <1>3, <1>4, <1>5, <1>6

LEMMA InitNInv == Init => NInv
<1> SUFFICES ASSUME Init PROVE NInv
  OBVIOUS
<1> DEFINE z == size
           b == txBuf
           r == rx
           w == process
           a == air
<1>1. /\ z = << >> /\ b = << >> /\ TX_Next = 0 /\ a = << >> /\ lost = {}
      /\ w = [p \in Processes |-> Idle]
      /\ r.segments = [sn \in Sns |-> << >>] /\ r.handed = << >> /\ r.late = {}
  BY DEF Init
<1>2. Len(z) = 0 /\ Len(b) = 0 /\ Len(a) = 0 /\ z \in Seq(Nat) /\ b \in Seq(Buffered)
  BY <1>1
<1>3. \A x : x \notin ToSet(z)
  BY <1>1, NoPkts
<1>4. \A q \in Processes : Injective(w[q].pkts) /\ \A x : x \notin ToSet(w[q].pkts)
  BY <1>1, NoPkts DEF Idle
<1>5. \A n \in Sns : Injective(r.segments[n]) /\ \A x : x \notin ToSet(r.segments[n])
  BY <1>1, NoPkts
<1> HIDE DEF z, b, r, w, a
<1>6. InTbs(w) = {}
  BY <1>4 DEF InTbs
<1>7. InEvents(a) = {}
  <2>1. \A x : x \notin ToSet(a)
    BY <1>1, NoPkts
  <2> QED  BY <2>1 DEF InEvents
<1>8. HeldOf(r) = {}
  BY <1>5 DEF HeldOf
<1>9. Done(r) = {} /\ Ids(r.handed) = {}
  <2>1. \A x : x \notin ToSet(r.handed)
    BY <1>1, NoPkts
  <2>2. Ids(r.handed) = {}
    BY <2>1 DEF Ids
  <2> QED  BY <1>1, <2>2 DEF Done
<1>10. HeldOK(r)
  BY <1>5 DEF HeldOK, AllByteSegmentReceived
<1>11. Delivered(z, r)
  <2>1. Len(r.handed) = 0
    BY <1>1
  <2> QED  BY <1>1, <2>1 DEF Delivered
<1>12. Once(w, a)
  BY <1>2, <1>4, <1>6 DEF Once
<1>13. Net(z, b, TX_Next, {}, lost, {})
  <2>1. Typed(z, b, TX_Next, {}, lost, {}) /\ InBuffer(z, b)
    BY <1>1, <1>2 DEF Typed, InBuffer
  <2>2. Order(z, b, TX_Next, {}) /\ Settled(z, b, {}, lost, {}) /\ Broken(z, b, {}, lost)
    BY <1>1 DEF Order, Settled, Broken
  <2>3. Complete(z, b, {}, lost, {})
    <3>1. First .. First + Len(z) - 1 = {}
      BY <1>2, ConstantFacts
    <3> QED  BY <3>1 DEF Complete
  <2> QED  BY <2>1, <2>2, <2>3 DEF Net
<1>14. UeNet(z, b, TX_Next, InTbs(w) \cup InEvents(a), lost, r)
  <2>1. HeldOf(r) \cup (InTbs(w) \cup InEvents(a)) = {}
    BY <1>6, <1>7, <1>8
  <2> QED  BY <1>8, <1>9, <1>10, <1>11, <1>13, <2>1 DEF UeNet
<1> QED  BY <1>12, <1>14 DEF NInv, z, b, r, w, a

\* PDCP accepts an SDU.
LEMMA NetTransmitted ==
    ASSUME IInv, NInv, NEW n \in Sizes, TransmitPDCPSDU(n)
    PROVE  NInv' /\ UeStep
<1> DEFINE Y == InTbs(process) \cup InEvents(air)
           X == HeldOf(rx) \cup Y
           p == NewPacket(size, n)
           L == Len(size)
<1>1. /\ size' = Append(size, n) /\ txBuf' = Append(txBuf, p) /\ TX_Next' = TX_Next
      /\ process' = process /\ air' = air /\ lost' = lost /\ rx' = rx
  BY DEF TransmitPDCPSDU, NewPacket, harq
<1>2. /\ Net(size, txBuf, TX_Next, X, lost, Done(rx))
      /\ HeldOf(rx) \cap Y = {} /\ HeldOK(rx) /\ Delivered(size, rx) /\ Once(process, air)
  BY DEF NInv, UeNet
<1>3. /\ size \in Seq(Nat) /\ Len(rx.handed) \in Nat /\ L \in Nat /\ n \in Nat /\ First \in Nat
      /\ \A i \in 1 .. Len(rx.handed) : rx.handed[i] \in Sdu
  BY StateFacts, LenProperties, ConstantFacts
<1>4. Net(size', txBuf', TX_Next', X, lost, Done(rx))
  <2> HIDE DEF X
  <2> QED  BY <1>1, <1>2, <1>3, TransmitNet
<1>5. Delivered(size', rx)
  <2>1. ASSUME NEW i \in 1 .. Len(rx.handed)
        PROVE  SizeOf(size', rx.handed[i].id) = SizeOf(size, rx.handed[i].id)
    <3> DEFINE c == rx.handed[i].id
               m == c - First + 1
    <3>1. c \in First .. First + L - 1
      BY <1>3 DEF Sdu, Accepted
    <3> HIDE DEF c
    <3>2. m \in 1 .. L
      BY <1>3, <3>1
    <3> HIDE DEF m, L
    <3>3. Append(size, n)[m] = size[m]
      BY <1>3, <3>2, AppendProperties DEF L
    <3> QED  BY <1>1, <3>3, Zenon DEF SizeOf, m, c
  <2> QED  BY <1>2, <2>1 DEF Delivered
<1>6. UeNet(size', txBuf', TX_Next', Y, lost', rx')
  <2> HIDE DEF Y
  <2>1. Net(size', txBuf', TX_Next', HeldOf(rx) \cup Y, lost, Done(rx))
    BY <1>4 DEF X
  <2>2. rx' = rx /\ lost' = lost
    BY <1>1
  <2> QED  BY <1>2, <1>5, <2>1, <2>2 DEF UeNet
<1>7. Once(process', air')
  BY <1>1, <1>2
<1>8. UeNet(size', txBuf', TX_Next', InTbs(process') \cup InEvents(air'), lost', rx')
  BY <1>1, <1>6
<1>9. UeStep
  BY <1>1, <1>3, GrownFacts DEF UeStep
<1> QED  BY <1>7, <1>8, <1>9 DEF NInv

\* Steps that leave all of this alone.
LEMMA NetSame ==
    ASSUME IInv, NInv, UNCHANGED <<size, txBuf, TX_Next, process, air, lost, rx>>
    PROVE  NInv' /\ UeStep
<1>1. /\ UeNet(size', txBuf', TX_Next', InTbs(process') \cup InEvents(air'), lost', rx')
      /\ Once(process', air')
  BY DEF NInv
<1>2. UeStep
  <2>1. Len(rx.handed) \in Nat
    BY StateFacts
  <2>2. rx' = rx /\ lost' = lost
    OBVIOUS
  <2> QED  BY <2>1, <2>2, GrownFacts DEF UeStep
<1> QED  BY <1>1, <1>2 DEF NInv

\* PDUs on their way are freed.
LEMMA DropUe ==
    ASSUME NEW z, NEW b, NEW next, NEW Y, NEW gone, NEW r, UeNet(z, b, next, Y, gone, r),
           NEW D \in SUBSET Y, NEW lose, \A c : c \in lose <=> c \in gone \/ \E x \in D : c = x.id
    PROVE  UeNet(z, b, next, Y \ D, lose, r)
<1> DEFINE H == HeldOf(r)
           X == H \cup Y
<1>1. Net(z, b, next, X, gone, Done(r)) /\ H \cap Y = {} /\ HeldOK(r) /\ Delivered(z, r)
  BY DEF UeNet
<1> HIDE DEF H
<1>2. D \in SUBSET X /\ X \ D = H \cup (Y \ D) /\ H \cap (Y \ D) = {}
  BY <1>1
<1>3. lose = gone \cup {x.id : x \in D}
  OBVIOUS
<1> HIDE DEF X
<1>4. Net(z, b, next, X \ D, gone \cup {x.id : x \in D}, Done(r))
  BY <1>1, <1>2, DropNet
<1>5. Net(z, b, next, H \cup (Y \ D), lose, Done(r))
  BY <1>2, <1>3, <1>4
<1> QED  BY <1>1, <1>2, <1>5 DEF UeNet, H

\* The HARQ processes of the old cell are freed.
LEMMA NetHandover ==
    ASSUME IInv, NInv, GENERATE_HANDOVER_COMMAND_HANDLE
    PROVE  NInv' /\ UeStep
<1> DEFINE D == InTbs(process)
           E == InEvents(air)
<1>1. /\ process' = [p \in Processes |-> Idle]
      /\ lost' = lost \cup UNION {Ids(process[p].pkts) : p \in Processes}
      /\ size' = size /\ txBuf' = txBuf /\ TX_Next' = TX_Next /\ rx' = rx /\ air' = air
  BY DEF GENERATE_HANDOVER_COMMAND_HANDLE, UM_Transfer
<1>2. UeNet(size, txBuf, TX_Next, D \cup E, lost, rx) /\ Once(process, air)
  BY DEF NInv
<1>3. \A x : x \in D <=> \E q \in Processes : x \in ToSet(process[q].pkts)
  BY InTbsFacts
<1>4. \A c : c \in lost' <=> c \in lost \/ \E x \in D : c = x.id
  <2>1. \A c : c \in lost' <=> c \in lost \/ \E p \in Processes : c \in Ids(process[p].pkts)
    BY <1>1
  <2>2. \A c : (\E p \in Processes : c \in Ids(process[p].pkts)) <=> \E x \in D : c = x.id
    <3> HIDE DEF D
    <3> QED  BY <1>3, IdsIn
  <2> QED  BY <2>1, <2>2, Zenon
<1>5. D \cap E = {}
  BY <1>2 DEF Once
<1>6. \A q \in Processes : Injective(process'[q].pkts) /\ \A x : x \notin ToSet(process'[q].pkts)
  BY <1>1, NoPkts DEF Idle
<1>7. InTbs(process') = {}
  BY <1>6 DEF InTbs
<1>8. Once(process', air')
  BY <1>1, <1>2, <1>6, <1>7 DEF Once
<1> HIDE DEF D, E
<1>9. UeNet(size, txBuf, TX_Next, E, lost', rx)
  <2>1. D \in SUBSET (D \cup E) /\ (D \cup E) \ D = E
    BY <1>5
  <2>2. UeNet(size, txBuf, TX_Next, (D \cup E) \ D, lost', rx)
    BY <1>2, <1>4, <2>1, DropUe
  <2> QED  BY <2>1, <2>2
<1>10. InTbs(process') \cup InEvents(air') = E
  BY <1>1, <1>7 DEF E
<1>11. UeNet(size', txBuf', TX_Next', InTbs(process') \cup InEvents(air'), lost', rx')
  BY <1>1, <1>9, <1>10
<1>12. UeStep
  <2>1. Len(rx.handed) \in Nat /\ lost \subseteq lost'
    BY <1>4, StateFacts
  <2> QED  BY <1>1, <2>1, GrownFacts DEF UeStep
<1> QED  BY <1>8, <1>11, <1>12 DEF NInv

\* The MAC_IN event at the head is taken out.
LEMMA TailOnce ==
    ASSUME NEW S, NEW a \in Seq(S), a # << >>, NEW w, Once(w, a)
    PROVE  /\ Once(w, Tail(a)) /\ Injective(Head(a).pkts)
           /\ \A x : x \in InEvents(a) <=> x \in ToSet(Head(a).pkts) \/ x \in InEvents(Tail(a))
           /\ \A x \in ToSet(Head(a).pkts) : x \notin InTbs(w) \cup InEvents(Tail(a))
<1> DEFINE n == Len(a)
           t == Tail(a)
           h == Head(a)
<1>1. n \in Nat /\ n # 0
  BY LenProperties, EmptySeq
<1>2. h = a[1] /\ t \in Seq(S) /\ Len(t) = n - 1 /\ \A j \in 1 .. Len(t) : t[j] = a[j + 1]
  BY HeadTailProperties
<1>3. /\ \A j \in 1 .. n : Injective(a[j].pkts)
      /\ \A i, j \in 1 .. n : i # j => ToSet(a[i].pkts) \cap ToSet(a[j].pkts) = {}
      /\ InTbs(w) \cap InEvents(a) = {}
      /\ \A p \in Processes : Injective(w[p].pkts)
      /\ \A p, q \in Processes : p # q => ToSet(w[p].pkts) \cap ToSet(w[q].pkts) = {}
  BY DEF Once
<1>4. \A x : x \in InEvents(a) <=> \E j \in 1 .. n : x \in ToSet(a[j].pkts)
  BY InEventsFacts
<1> HIDE DEF n, t, h
<1>5. \A x : x \in InEvents(t) <=> \E j \in 1 .. Len(t) : x \in ToSet(t[j].pkts)
  BY <1>2, InEventsFacts
<1>6. /\ 1 \in 1 .. n /\ \A j \in 1 .. Len(t) : j + 1 \in 1 .. n /\ j + 1 # 1
      /\ \A j \in 1 .. n : j = 1 \/ (j - 1 \in 1 .. Len(t) /\ (j - 1) + 1 = j)
  BY <1>1, <1>2
<1>7. \A i, j \in 1 .. Len(t) : i # j => i + 1 # j + 1
  BY <1>1, <1>2
<1>8. \A x : x \in InEvents(a) <=> x \in ToSet(h.pkts) \/ x \in InEvents(t)
  BY <1>2, <1>4, <1>5, <1>6
<1>9. \A x \in ToSet(h.pkts) : x \notin InEvents(t)
  <2> SUFFICES ASSUME NEW x \in ToSet(h.pkts), x \in InEvents(t) PROVE FALSE
    OBVIOUS
  <2>1. PICK j \in 1 .. Len(t) : x \in ToSet(t[j].pkts)
    BY <1>5
  <2>2. j + 1 \in 1 .. n /\ j + 1 # 1 /\ x \in ToSet(a[j + 1].pkts) /\ x \in ToSet(a[1].pkts)
    BY <1>2, <1>6, <2>1
  <2> QED  BY <1>3, <1>6, <2>2
<1>10. \A j \in 1 .. Len(t) : Injective(t[j].pkts)
  BY <1>2, <1>3, <1>6
<1>11. ASSUME NEW i \in 1 .. Len(t), NEW j \in 1 .. Len(t), i # j
       PROVE  ToSet(t[i].pkts) \cap ToSet(t[j].pkts) = {}
  <2>1. i + 1 \in 1 .. n /\ j + 1 \in 1 .. n /\ i + 1 # j + 1 /\ t[i] = a[i + 1] /\ t[j] = a[j + 1]
    BY <1>2, <1>6, <1>7, <1>11
  <2> QED  BY <1>3, <2>1
<1>12. InTbs(w) \cap InEvents(t) = {} /\ \A x \in ToSet(h.pkts) : x \notin InTbs(w)
  BY <1>3, <1>8
<1>13. Once(w, t)
  BY <1>3, <1>10, <1>11, <1>12 DEF Once
<1>14. Injective(h.pkts)
  BY <1>2, <1>3, <1>6
<1> QED  BY <1>8, <1>9, <1>12, <1>13, <1>14 DEF t, h

\* macIn at the UE, or at a cell that it has left.
LEMMA NetMacIn ==
    ASSUME IInv, NInv, macIn
    PROVE  NInv' /\ UeStep
<1> DEFINE W == InTbs(process)
           t == Tail(air)
           E == InEvents(t)
           tb == Head(air)
           Y == W \cup E
           A == InEvents(air)
<1>1. /\ air # << >> /\ air' = t
      /\ IF tb.cell = cell THEN rx' = Received(rx, tb.pkts) /\ lost' = lost
         ELSE lost' = lost \cup Ids(tb.pkts) /\ rx' = rx
      /\ size' = size /\ txBuf' = txBuf /\ TX_Next' = TX_Next /\ process' = process
  BY DEF macIn, MacInEvent, pdcpTx, rlcTx, harq
<1>2. UeNet(size, txBuf, TX_Next, W \cup A, lost, rx) /\ Once(process, air)
  BY DEF NInv
<1>3. /\ HarqOK /\ SaneUe(rx, Pdu) /\ SnOK /\ PendingRecent
      /\ Len(size) \in 0 .. MaxSdus /\ Len(rx.handed) \in Nat
  BY StateFacts
<1>4. air \in Seq([cell : 0 .. cell, pkts : Seq(Pdu)])
  BY <1>3 DEF HarqOK
<1>5. /\ Once(process, t) /\ Injective(tb.pkts)
      /\ \A x : x \in A <=> x \in ToSet(tb.pkts) \/ x \in E
      /\ \A x \in ToSet(tb.pkts) : x \notin W \cup E
  <2> DEFINE S == [cell : 0 .. cell, pkts : Seq(Pdu)]
  <2>1. air \in Seq(S) /\ air # << >> /\ Once(process, air)
    BY <1>1, <1>2, <1>4
  <2> HIDE DEF S
  <2> QED  BY <2>1, TailOnce
<1>6. tb.pkts \in Seq(Known) /\ \A i \in 1 .. Len(tb.pkts) : Numbered(tb.pkts[i])
  <2>1. Head(air) = air[1] /\ 1 \in 1 .. Len(air)
    <3> DEFINE S == [cell : 0 .. cell, pkts : Seq(Pdu)]
    <3>1. air \in Seq(S) /\ air # << >>
      BY <1>1, <1>4
    <3> HIDE DEF S
    <3>2. Len(air) \in Nat /\ Len(air) # 0 /\ Head(air) = air[1]
      BY <3>1, HeadTailProperties, LenProperties, EmptySeq
    <3> QED  BY <3>2
  <2> QED  BY <1>3, <2>1, KnownFacts
<1>7. Known \subseteq Pdu /\ OneSn(Known) /\ SaneUe(rx, Known)
  BY <1>3, KnownFacts
<1> DEFINE pkts == tb.pkts
<1> HIDE DEF W, E, A, t
<1>8. W \cup A = Y \cup ToSet(pkts) /\ Y \cap ToSet(pkts) = {}
  BY <1>5
<1>9. UeNet(size, txBuf, TX_Next, Y \cup ToSet(pkts), lost, rx)
  BY <1>2, <1>8
<1>10. \A i \in 1 .. Len(pkts) : Numbered(pkts[i])
  BY <1>6
<1>11. UeNet(size, txBuf, TX_Next, Y, lost', rx') /\ UeStep
  <2> HIDE DEF Y, pkts
  <2>1. CASE tb.cell = cell
    <3>1. rx' = Received(rx, pkts) /\ lost' = lost
      BY <1>1, <2>1 DEF pkts
    <3>2. pkts \in Seq(Known) /\ Injective(pkts)
      BY <1>5, <1>6 DEF pkts
    <3>3. UeNet(size, txBuf, TX_Next, Y, lost, Received(rx, pkts)) /\ Grown(rx, Received(rx, pkts))
      BY <1>3, <1>7, <1>8, <1>9, <1>10, <3>2, ReceivedNet
    <3> QED  BY <3>1, <3>3 DEF UeStep
  <2>2. CASE tb.cell # cell
    <3> DEFINE D == ToSet(pkts)
    <3>1. rx' = rx /\ lost' = lost \cup Ids(pkts)
      BY <1>1, <2>2 DEF pkts
    <3>2. \A c : c \in lost' <=> c \in lost \/ \E x \in D : c = x.id
      BY <3>1, IdsIn
    <3>3. D \in SUBSET (Y \cup D) /\ (Y \cup D) \ D = Y
      BY <1>8
    <3> HIDE DEF D
    <3>4. UeNet(size, txBuf, TX_Next, (Y \cup D) \ D, lost', rx)
      BY <1>9, <3>2, <3>3, DropUe DEF D
    <3>5. UeStep
      <4>1. lost \subseteq lost'
        BY <3>2
      <4> QED  BY <1>3, <3>1, <4>1, GrownFacts DEF UeStep
    <3> QED  BY <3>1, <3>3, <3>4, <3>5
  <2> QED  BY <2>1, <2>2
<1>12. UeNet(size', txBuf', TX_Next', InTbs(process') \cup InEvents(air'), lost', rx')
  BY <1>1, <1>11 DEF W, E, t
<1>13. Once(process', air')
  BY <1>1, <1>5
<1> QED  BY <1>11, <1>12, <1>13 DEF NInv

\* SendToReceiver and StoreDLPacket: what the process gives up (drop) leaves,
\* what is new (pdus) comes; without a grant there is nothing new.
LEMMA NetStored ==
    ASSUME HarqOK, HarqOK', Once(process, air), NEW error \in BOOLEAN, NEW p \in Processes,
           NEW pdus \in Seq(Pdu), NEW pkts, pkts = StoreDLPacket(p, pdus),
           SendToReceiver(p, pkts, error), UNCHANGED <<size, cell>>,
           SetNDI(p) \/ pdus = << >>, Injective(pdus),
           ToSet(pdus) \cap (InTbs(process) \cup InEvents(air)) = {},
           NEW drop, drop = IF SetNDI(p) THEN ToSet(process[p].pkts) ELSE {}
    PROVE  /\ Once(process', air')
           /\ InTbs(process') \cup InEvents(air')
                 = ((InTbs(process) \cup InEvents(air)) \ drop) \cup ToSet(pdus)
<1> DEFINE S == [cell : 0 .. cell, pkts : Seq(Pdu)]
           h == [pkts |-> IF error THEN pkts ELSE << >>,
                 n |-> IF SetNDI(p) THEN 0 ELSE TransmissionNumber(p)]
           tb == [cell |-> cell, pkts |-> pkts]
<1>1. /\ air \in Seq(S) /\ process \in [Processes -> [pkts : Seq(Pdu), n : Nat]]
      /\ cell \in 0 .. MaxHandovers
  BY DEF HarqOK
<1>2. air' \in Seq(S)
  <2>1. Pdu' = Pdu /\ cell' = cell
    BY SameSdus
  <2> QED  BY <2>1 DEF HarqOK
<1>3. pkts \in Seq(Pdu)
  BY <1>1 DEF StoreDLPacket
<1>4. tb \in S /\ tb.pkts = pkts
  <2>1. cell \in 0 .. cell
    BY <1>1, ConstantFacts
  <2> QED  BY <1>3, <2>1
<1>5. h.pkts = IF error THEN pkts ELSE << >>
  OBVIOUS
<1>6. /\ process' = [process EXCEPT ![p] = h]
      /\ air' = IF ~error /\ pkts # << >> THEN Append(air, tb) ELSE air
  BY DEF SendToReceiver
<1> HIDE DEF h
<1>7. \A q \in Processes : process'[q].pkts = IF q # p THEN process[q].pkts
                                              ELSE IF error THEN pkts ELSE << >>
  BY <1>1, <1>5, <1>6
<1> HIDE DEF S, tb
<1>8. Stored(process, air, p, pkts, error, process', air')
  <2>1. /\ Len(Append(air, tb)) = Len(air) + 1 /\ Append(air, tb)[Len(air) + 1] = tb
        /\ \A j \in 1 .. Len(air) : Append(air, tb)[j] = air[j]
    BY <1>1, <1>4, AppendProperties
  <2> QED  BY <1>4, <1>6, <1>7, <2>1 DEF Stored
<1>9. /\ \A x : x \in InTbs(process) <=> \E q \in Processes : x \in ToSet(process[q].pkts)
      /\ \A q, u \in Processes : q # u => ToSet(process[q].pkts) \cap ToSet(process[u].pkts) = {}
      /\ \A q \in Processes : Injective(process[q].pkts)
      /\ InTbs(process) \cap InEvents(air) = {}
  BY InTbsFacts DEF Once
<1>10. pkts = IF SetNDI(p) THEN pdus ELSE process[p].pkts
  BY DEF StoreDLPacket
<1> DEFINE A == InEvents(air)
           W == InTbs(process)
<1> HIDE DEF A, W
<1>11. Injective(pkts) /\ \A x \in ToSet(pkts) : x \notin A
  BY <1>9, <1>10 DEF A, W
<1>12. \A q \in Processes : q # p => ToSet(process[q].pkts) \cap ToSet(pkts) = {}
  BY <1>9, <1>10
<1>13. /\ Once(process', air')
       /\ \A x : x \in InTbs(process') \cup InEvents(air') <=>
             \/ x \in ToSet(pkts) \/ x \in A
             \/ \E q \in Processes : q # p /\ x \in ToSet(process[q].pkts)
  <2> DEFINE w == process
             v == process'
             a == air
             e == air'
  <2>1. a \in Seq(S) /\ e \in Seq(S) /\ Once(w, a) /\ Stored(w, a, p, pkts, error, v, e)
    BY <1>1, <1>2, <1>8
  <2>2. Apart(w, a, p, pkts)
    BY <1>11, <1>12 DEF A, Apart
  <2> HIDE DEF w, v, a, e
  <2>3. Once(v, e) /\ Whereabouts(w, a, p, pkts, v, e)
    BY <2>1, <2>2, StoredOnce
  <2> QED  BY <2>3 DEF Whereabouts, w, v, a, e, A
<1> DEFINE U == InTbs(process') \cup InEvents(air')
           T == ((W \cup A) \ drop) \cup ToSet(pdus)
<1>14. ASSUME NEW x PROVE x \in U <=> x \in T
  <2>1. x \in U <=> \/ x \in ToSet(pkts) \/ x \in A
                    \/ \E q \in Processes : q # p /\ x \in ToSet(process[q].pkts)
    BY <1>13
  <2>2. x \in W <=> \E q \in Processes : x \in ToSet(process[q].pkts)
    BY <1>9 DEF W
  <2>3. x \in T <=> ((x \in W \/ x \in A) /\ x \notin drop) \/ x \in ToSet(pdus)
    OBVIOUS
  <2> HIDE DEF U, T
  <2>4. CASE SetNDI(p)
    <3>1. pkts = pdus /\ drop = ToSet(process[p].pkts)
      BY <1>10, <2>4
    <3>2. x \in ToSet(process[p].pkts) => x \notin A /\ x \in W
      BY <1>9, <2>2 DEF A, W
    <3>3. \A q \in Processes : q # p /\ x \in ToSet(process[q].pkts) => x \notin drop
      BY <1>9, <3>1
    <3> QED  BY <2>1, <2>2, <2>3, <3>1, <3>2, <3>3
  <2>5. CASE ~SetNDI(p)
    <3>1. pkts = process[p].pkts /\ drop = {} /\ x \notin ToSet(pdus)
      BY <1>10, <2>5, NoPkts
    <3> QED  BY <2>1, <2>2, <2>3, <3>1
  <2> QED  BY <2>4, <2>5
<1>15. U = T
  <2> HIDE DEF U, T
  <2> QED  BY <1>14
<1> QED  BY <1>13, <1>15 DEF W, A

\* New PDUs are sent, and the TB that is given up is freed.
LEMMA SendUe ==
    ASSUME IInv, NInv, NEW k \in 0 .. Len(txBuf), NEW left \in Int,
           NEW pdus \in Seq(Pdu), Sent(k, left, pdus), NEW buf \in Seq(Packet), Kept(k, left, buf),
           NEW Y, Y = InTbs(process) \cup InEvents(air)
    PROVE  /\ Injective(pdus) /\ \A x \in ToSet(pdus) : x \notin Y
           /\ UeNet(size, buf, NextSn(SubSeq(txBuf, 1, k)), Y \cup ToSet(pdus), lost, rx)
<1> DEFINE H == HeldOf(rx)
           X == H \cup Y
           new == ToSet(pdus)
           sn == NextSn(SubSeq(txBuf, 1, k))
<1>1. /\ Net(size, txBuf, TX_Next, X, lost, Done(rx))
      /\ H \cap Y = {} /\ HeldOK(rx) /\ Delivered(size, rx)
  BY DEF NInv, UeNet
<1>2. SenderOK
  BY DEF IInv
<1> HIDE DEF H, X, new, sn
<1>3. /\ Injective(pdus) /\ X \cap new = {} /\ Net(size, buf, sn, X \cup new, lost, Done(rx))
  BY <1>1, <1>2, SendNet DEF new, sn
<1>4. /\ X \cup new = H \cup (Y \cup new) /\ \A x \in new : x \notin Y /\ x \notin H
  BY <1>3 DEF X
<1>5. H \cap (Y \cup new) = {}
  BY <1>1, <1>4
<1>6. UeNet(size, buf, sn, Y \cup new, lost, rx)
  BY <1>1, <1>3, <1>4, <1>5 DEF UeNet, H
<1> QED  BY <1>3, <1>4, <1>6 DEF new, sn

\* A slot.
LEMMA NetSlot ==
    ASSUME IInv, NInv, NEW prb \in 0 .. MaxPrb, NEW error \in BOOLEAN, StartingSlot(prb, error)
    PROVE  NInv' /\ UeStep
<1> DEFINE Y == InTbs(process) \cup InEvents(air)
           Z == InTbs(process') \cup InEvents(air')
<1>1. /\ SenderOK /\ HarqOK /\ Len(rx.handed) \in Nat /\ Once(process, air)
      /\ HarqOK'
  BY StateFacts, SlotLemma DEF IInv, NInv
<1>2. txBuf \in Seq(Packet) /\ TX_Next \in Nat /\ current \in 0 .. maxProcessCount
  BY <1>1 DEF SenderOK, HarqOK
<1>3. bufferStatus \in Nat
  <2>1. Payload(txBuf) \in Int
    BY <1>2, SizedSeq, PayloadSame
  <2>2. Payload(txBuf) % Word \in 0 .. Word - 1
    BY <2>1, ConstantFacts, ModRange
  <2> QED  BY <2>2, ConstantFacts DEF IInv, BufferStatusIsPayload
<1>4. PICK p \in Processes, k \in 0 .. Len(txBuf), left \in Int : \E new, pkts :
         Slot(error, p, k, left, new, pkts) /\ (SetNDI(p) \/ (k = 0 /\ left = 0))
  BY <1>2, <1>3, SlotFacts
<1>5. PICK new, pkts : Slot(error, p, k, left, new, pkts) /\ (SetNDI(p) \/ (k = 0 /\ left = 0))
  BY <1>4
<1> DEFINE pdus == new.pdus
<1>6. /\ new = SEND_PDU(k, left) /\ pkts = StoreDLPacket(p, pdus)
      /\ txBuf' = new.buf /\ TX_Next' = new.TX_Next /\ SendToReceiver(p, pkts, error)
      /\ lost' = IF SetNDI(p) THEN lost \cup Ids(process[p].pkts) ELSE lost
      /\ size' = size /\ cell' = cell /\ rx' = rx
  BY <1>5 DEF Slot, pdcpTx
<1>7. /\ pdus \in Seq(Pdu) /\ Sent(k, left, pdus)
      /\ txBuf' \in Seq(Packet) /\ Kept(k, left, txBuf')
      /\ TX_Next' = NextSn(SubSeq(txBuf, 1, k))
  BY <1>2, <1>6, SendLemma
<1> HIDE DEF pdus, Y, Z
<1>8. /\ Injective(pdus) /\ \A x \in ToSet(pdus) : x \notin Y
      /\ UeNet(size, txBuf', TX_Next', Y \cup ToSet(pdus), lost, rx)
  <2> DEFINE buf == txBuf'
  <2>1. buf \in Seq(Packet) /\ Kept(k, left, buf)
    BY <1>7
  <2> HIDE DEF buf
  <2>2. /\ Injective(pdus) /\ \A x \in ToSet(pdus) : x \notin Y
        /\ UeNet(size, buf, NextSn(SubSeq(txBuf, 1, k)), Y \cup ToSet(pdus), lost, rx)
    BY <1>7, <2>1, SendUe DEF Y
  <2> QED  BY <1>7, <2>2 DEF buf
<1>9. SetNDI(p) \/ pdus = << >>
  <2> SUFFICES ASSUME k = 0, left = 0 PROVE pdus = << >>
    BY <1>5
  <2>1. ~Cut(k, left)
    BY ConstantFacts DEF Cut
  <2>2. Len(pdus) = 0
    BY <1>7, <2>1 DEF Sent
  <2> QED  BY <1>7, <2>2, EmptySeq
<1> DEFINE drop == IF SetNDI(p) THEN ToSet(process[p].pkts) ELSE {}
<1> HIDE DEF drop
<1>10. drop \in SUBSET Y
  <2>1. ToSet(process[p].pkts) \subseteq InTbs(process)
    BY DEF InTbs
  <2> QED  BY <2>1 DEF Y, drop
<1>11. Once(process', air') /\ Z = (Y \ drop) \cup ToSet(pdus)
  <2>1. /\ UNCHANGED <<size, cell>> /\ ToSet(pdus) \cap (InTbs(process) \cup InEvents(air)) = {}
        /\ pkts = StoreDLPacket(p, pdus) /\ SendToReceiver(p, pkts, error)
    BY <1>6, <1>8 DEF Y
  <2>2. drop = IF SetNDI(p) THEN ToSet(process[p].pkts) ELSE {}
    BY DEF drop
  <2>3. /\ HarqOK /\ HarqOK' /\ Once(process, air) /\ pdus \in Seq(Pdu) /\ Injective(pdus)
        /\ SetNDI(p) \/ pdus = << >>
    BY <1>1, <1>7, <1>8, <1>9
  <2>4. /\ Once(process', air')
        /\ InTbs(process') \cup InEvents(air')
              = ((InTbs(process) \cup InEvents(air)) \ drop) \cup ToSet(pdus)
    BY <2>1, <2>2, <2>3, NetStored
  <2> QED  BY <2>4 DEF Y, Z
<1>12. \A c : c \in lost' <=> c \in lost \/ \E x \in drop : c = x.id
  <2>1. CASE SetNDI(p)
    <3>1. lost' = lost \cup Ids(process[p].pkts) /\ drop = ToSet(process[p].pkts)
      BY <1>6, <2>1 DEF drop
    <3> QED  BY <3>1, IdsIn
  <2>2. CASE ~SetNDI(p)
    BY <1>6, <2>2 DEF drop
  <2> QED  BY <2>1, <2>2
<1>13. UeNet(size, txBuf', TX_Next', Z, lost', rx)
  <2> DEFINE T == Y \cup ToSet(pdus)
             b == txBuf'
             sn == TX_Next'
             lose == lost'
  <2>1. drop \in SUBSET T /\ T \ drop = Z
    BY <1>8, <1>10, <1>11
  <2>2. UeNet(size, b, sn, T, lost, rx) /\ \A c : c \in lose <=> c \in lost \/ \E x \in drop : c = x.id
    BY <1>8, <1>12
  <2> HIDE DEF T, b, sn, lose
  <2>3. UeNet(size, b, sn, T \ drop, lose, rx)
    BY <2>1, <2>2, DropUe
  <2> QED  BY <2>1, <2>3 DEF b, sn, lose
<1>14. UeNet(size', txBuf', TX_Next', InTbs(process') \cup InEvents(air'), lost', rx')
  BY <1>6, <1>13 DEF Z
<1>15. UeStep
  <2>1. lost \subseteq lost'
    BY <1>12
  <2> QED  BY <1>1, <1>6, <2>1, GrownFacts DEF UeStep
<1> QED  BY <1>11, <1>14, <1>15 DEF NInv

LEMMA NextNInv == IInv /\ NInv /\ [Next]_vars => NInv' /\ UeStep
<1> SUFFICES ASSUME IInv, NInv, [Next]_vars PROVE NInv' /\ UeStep
  OBVIOUS
<1>1. ASSUME NEW n \in Sizes, TransmitPDCPSDU(n) PROVE NInv' /\ UeStep
  BY <1>1, NetTransmitted
<1>2. ASSUME NEW k \in 1 .. MaxSdus, HANDLE_DISCARD_TIMER(k) PROVE NInv' /\ UeStep
  <2>1. UNCHANGED <<size, txBuf, TX_Next, process, air, lost, rx>>
    BY <1>2 DEF HANDLE_DISCARD_TIMER, rlcTx, harq
  <2> QED  BY <2>1, NetSame
<1>3. ASSUME NEW prb \in 0 .. MaxPrb, NEW error \in BOOLEAN, StartingSlot(prb, error)
      PROVE  NInv' /\ UeStep
  BY <1>3, NetSlot
<1>4. CASE macIn
  BY <1>4, NetMacIn
<1>5. CASE GENERATE_HANDOVER_COMMAND_HANDLE
  BY <1>5, NetHandover
<1>6. CASE UNCHANGED vars
  <2>1. UNCHANGED <<size, txBuf, TX_Next, process, air, lost, rx>>
    BY <1>6 DEF vars, pdcpTx, rlcTx, harq
  <2> QED  BY <2>1, NetSame
<1> QED  BY <1>1, <1>2, <1>3, <1>4, <1>5, <1>6 DEF Next

LEMMA Inductive2 == Spec => [](IInv /\ NInv)
<1>1. Init => IInv /\ NInv
  BY InitIInv, InitNInv
<1>2. IInv /\ NInv /\ [Next]_vars => (IInv /\ NInv)'
  BY NextIInv, NextNInv
<1> QED  BY <1>1, <1>2, PTL DEF Spec
-----------------------------------------------------------------------------
\* Whatever the order of segmentation, retransmissions and handovers, the UE
\* never holds all parts of an SDU back (LTENR_RLC_UM.c:166-185): an SDU that
\* was neither handed up nor discarded by PDCP, and of which HARQ or a handover
\* has freed no part, is still to come.
THEOREM NoneForgotten == Spec => []EverySduAccounted
<1>1. IInv /\ NInv => EverySduAccounted
  <2> SUFFICES ASSUME IInv, NInv,
                      NEW c \in Accepted, c \notin Handed, c \notin rx.late, c \notin lost,
                      c \notin Ids(txBuf), c \notin InHarq, c \notin OnAir
               PROVE  FALSE
    BY DEF EverySduAccounted, Pending
  <2> DEFINE H == HeldOf(rx)
             X == H \cup (InTbs(process) \cup InEvents(air))
  <2>1. /\ Order(size, txBuf, TX_Next, X) /\ Complete(size, txBuf, X, lost, Done(rx))
        /\ HeldOK(rx)
    BY DEF NInv, UeNet, Net
  <2>2. ASSUME NEW x \in X, x.id = c PROVE x \in H
    <3>1. CASE x \in InTbs(process)
      <4>1. PICK q \in Processes : x \in ToSet(process[q].pkts)
        BY <3>1 DEF InTbs
      <4>2. c \in Ids(process[q].pkts)
        BY <2>2, <4>1, IdsIn
      <4> QED  BY <4>2 DEF InHarq
    <3>2. CASE x \in InEvents(air)
      <4>1. PICK tb \in ToSet(air) : x \in ToSet(tb.pkts)
        BY <3>2 DEF InEvents
      <4>2. c \in Ids(tb.pkts)
        BY <2>2, <4>1, IdsIn
      <4> QED  BY <4>1, <4>2 DEF OnAir
    <3> QED  BY <3>1, <3>2
  <2>3. c \notin lost \cup Done(rx)
    BY DEF Done, Handed
  <2> HIDE DEF X
  <2>4. PICK q : PiecesOf(c, q, txBuf, X)
    BY <2>1, <2>3 DEF Complete, Accepted
  <2> DEFINE n == Len(q)
  <2>5. n \in Nat /\ n > 0 /\ \A i \in 1 .. n : q[i].id = c /\ q[i].so = i - 1
    BY <2>4, LenProperties DEF PiecesOf
  <2>6. q[n] \notin ToSet(txBuf)
    <3>1. q[n].id = c
      BY <2>5
    <3> QED  BY <3>1, IdsIn
  <2>7. Final(q[n]) /\ q[n] \in X /\ \A i \in 1 .. n - 1 : q[i] \in X
    BY <2>4, <2>6 DEF PiecesOf
  <2> HIDE DEF n
  <2>8. \A i \in 1 .. n : q[i] \in X /\ q[i] \in H
    BY <2>2, <2>5, <2>7
  <2> DEFINE m == q[n].sn
             segs == ToSet(rx.segments[m])
  <2>9. ASSUME NEW i \in 1 .. n PROVE m \in Sns /\ q[i] \in segs /\ q[i].si # "ALL"
    <3>1. PICK s \in Sns : q[i] \in ToSet(rx.segments[s])
      BY <2>8 DEF HeldOf
    <3>2. q[i].sn = s /\ q[i].si # "ALL"
      BY <2>1, <3>1 DEF HeldOK
    <3>3. n \in 1 .. n
      BY <2>5
    <3>4. q[i].sn = q[n].sn
      BY <2>1, <2>5, <2>8, <3>3 DEF Order
    <3> QED  BY <3>1, <3>2, <3>4
  <2>10. n \in 1 .. n /\ m \in Sns
    BY <2>5, <2>9
  <2> HIDE DEF m
  <2>11. AllByteSegmentReceived(segs)
    <3>1. q[n] \in segs /\ q[n].si = "LAST" /\ q[n].so = n - 1
      BY <2>5, <2>7, <2>9, <2>10 DEF Final
    <3>2. ASSUME NEW i \in 0 .. n - 1 - 1 PROVE \E p \in segs : p.so = i
      <4>1. i + 1 \in 1 .. n /\ (i + 1) - 1 = i
        BY <2>5
      <4>2. q[i + 1] \in segs /\ q[i + 1].so = i
        BY <2>5, <2>9, <4>1
      <4> QED  BY <4>2
    <3> QED  BY <3>1, <3>2 DEF AllByteSegmentReceived
  <2> QED  BY <2>1, <2>10, <2>11 DEF HeldOK
<1> QED  BY <1>1, Inductive2, PTL

-----------------------------------------------------------------------------
(***************************************************************************)
(* The refinement.  Between states of the invariant every step accepts a   *)
(* packet, or only adds to what was handed up or given up.                 *)
(***************************************************************************)

\* What the abstract channel asks of what was handed up and given up.
Lawful ==
    /\ Channel!Legal(rx.handed, rx.late \cup lost)
    /\ rx.late \cup lost \subseteq Channel!Ids

LEMMA HandedLegal == IInv /\ NInv => Lawful
<1> SUFFICES ASSUME IInv, NInv PROVE Lawful
  OBVIOUS
<1> DEFINE h == rx.handed
           gone == rx.late \cup lost
<1>1. /\ h \in Seq(Sdu) /\ Len(h) \in Nat /\ rx.late \subseteq Accepted
      /\ lost \subseteq Accepted /\ \A i \in 1 .. Len(h) : h[i] \in Sdu
  BY StateFacts DEF HarqOK
<1>2. /\ Delivered(size, rx)
      /\ \A c \in Done(rx) : c \notin lost
  BY DEF NInv, UeNet, Net, Settled
<1>3. Channel!Ids = Accepted
  BY DEF Channel!Ids, Accepted
<1>4. DOMAIN h = 1 .. Len(h)
  BY <1>1, LenProperties
<1>5. ASSUME NEW i \in 1 .. Len(h)
      PROVE  /\ h[i].id \in Accepted \ gone
             /\ h[i].len = Channel!Size(h[i].id)
  <2>1. h[i].id \in Accepted /\ h[i].id \in Ids(h)
    <3>1. h[i] \in ToSet(h)
      BY <1>4 DEF ToSet
    <3> QED  BY <1>1, <3>1 DEF Sdu, Ids
  <2>2. h[i].id \notin rx.late /\ h[i].id \notin lost
    BY <1>2, <2>1 DEF Delivered, Done
  <2>3. h[i].len = SizeOf(size, h[i].id)
    BY <1>2 DEF Delivered
  <2> QED  BY <2>1, <2>2, <2>3 DEF Channel!Size, SizeOf
<1>6. ASSUME NEW i \in 1 .. Len(h), i > 1 PROVE h[i - 1].id < h[i].id
  <2>1. i \in 2 .. Len(h)
    BY <1>1, <1>6
  <2> QED  BY <1>2, <2>1 DEF Delivered
<1> HIDE DEF h, gone
<1>7. Channel!Legal(h, gone)
  BY <1>3, <1>4, <1>5, <1>6 DEF Channel!Legal
<1>8. gone \subseteq Channel!Ids
  BY <1>1, <1>3 DEF gone
<1> QED  BY <1>7, <1>8 DEF Lawful, h, gone

LEMMA ChannelStep ==
    ASSUME IInv, NInv, IInv', Lawful', [Next]_vars
    PROVE  [Channel!Next]_<<size, rx.handed, rx.late \cup lost>>
<1>1. UeStep
  BY NextNInv
<1>2. CASE UNCHANGED size
  <2> DEFINE h == rx.handed
             k == rx'.handed
  <2>1. Len(h) \in Nat /\ h \in Seq(Sdu) /\ k \in Seq(Sdu)
    <3>1. Sdu' = Sdu
      BY <1>2, SameSdus
    <3>2. rx'.handed \in Seq(Sdu')
      BY DEF IInv, SaneUe, UeState
    <3> QED  BY <3>1, <3>2, StateFacts
  <2>2. Len(h) <= Len(k) /\ \A i \in 1 .. Len(h) : k[i] = h[i]
    BY <1>1 DEF UeStep, Grown
  <2> HIDE DEF h, k
  <2>3. SubSeq(k, 1, Len(h)) = h
    <3> DEFINE s == SubSeq(k, 1, Len(h))
    <3>1. Len(k) \in Nat /\ Len(h) \in 0 .. Len(k)
      BY <2>1, <2>2, LenProperties
    <3>2. /\ s \in Seq(Sdu) /\ Len(s) = Len(h)
          /\ \A i \in 1 .. Len(h) : s[i] = k[i]
      BY <2>1, <3>1, SubSeqFacts
    <3> HIDE DEF s
    <3>3. \A i \in 1 .. Len(h) : s[i] = h[i]
      BY <2>2, <3>2
    <3>4. s = h
      BY <2>1, <3>2, <3>3, SeqEqual
    <3> QED  BY <3>4 DEF s
  <2>4. rx.late \cup lost \subseteq rx'.late \cup lost'
    BY <1>1 DEF UeStep, Grown
  <2>5. /\ Channel!Legal(rx'.handed, rx'.late \cup lost')
        /\ rx'.late \cup lost' \subseteq Channel!Ids
    <3>1. (Channel!Ids)' = Channel!Ids
      BY <1>2 DEF Channel!Ids
    <3>2. \A c : Channel!Size(c)' = Channel!Size(c)
      BY <1>2 DEF Channel!Size
    <3>3. /\ Channel!Legal(rx.handed, rx.late \cup lost)'
          /\ rx'.late \cup lost' \subseteq (Channel!Ids)'
      BY DEF Lawful
    <3> QED  BY <1>2, <3>1, <3>2, <3>3 DEF Channel!Legal, Channel!Size
  <2>6. Channel!Progress
    BY <1>2, <2>3, <2>4, <2>5 DEF Channel!Progress, h, k
  <2> QED  BY <2>6 DEF Channel!Next
<1>3. CASE \E n \in Sizes : TransmitPDCPSDU(n)
  <2>1. rx' = rx /\ lost' = lost /\ \E n \in Sizes : size' = Append(size, n)
    BY <1>3 DEF TransmitPDCPSDU
  <2> QED  BY <2>1 DEF Channel!Next, Channel!Accept
<1>4. UNCHANGED size \/ \E n \in Sizes : TransmitPDCPSDU(n)
  BY DEF Next, HANDLE_DISCARD_TIMER, StartingSlot, macIn, GENERATE_HANDOVER_COMMAND_HANDLE,
         vars, pdcpTx
<1> QED  BY <1>2, <1>3, <1>4

\* From the sender's PDCP to the upper layers of the UE the data path is a
\* channel that loses packets and does nothing else: segmentation, HARQ, the
\* reassembly buffers (LTENR_RLC_UM.c:166-185), PDCP's counters
\* (LTENR_PDCP.c:883-898) and handovers neither duplicate nor reorder nor cut a
\* packet, and none that was given up appears later.  It holds across wrap-arounds
\* of the sequence number, at each of which the UE's COUNT gains one on the sender's,
\* as long as what is under way stays within the window (MaxUnderWay).
THEOREM LossyChannelImplemented == Spec => ImplementsLossyChannel
<1>1. Init => Channel!Init
  BY DEF Init, Channel!Init
<1>2. IInv /\ NInv /\ IInv' /\ Lawful' /\ [Next]_vars
          => [Channel!Next]_<<size, rx.handed, rx.late \cup lost>>
  BY ChannelStep
<1>3. IInv /\ NInv => Lawful
  BY HandedLegal
<1> QED  BY <1>1, <1>2, <1>3, Inductive2, PTL DEF Spec, ImplementsLossyChannel, Channel!Spec
=============================================================================
