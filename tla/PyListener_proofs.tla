------------------------- MODULE PyListener_proofs -------------------------
(***************************************************************************)
(* Proofs about PyListener: type correctness, that an orderly end loses no *)
(* event, and that the alerts of the whole program are those of            *)
(* PpCollector, for any number of lines, any window and any time bound.    *)
(***************************************************************************)
EXTENDS PyListener, SequenceTheorems, TLAPS

\* What is proved of Collector.push alone.
Pp == INSTANCE PpCollector_proofs WITH MaxPingPongs <- MaxLines

(***************************************************************************)
(* The inductive invariant.  Numbering the halves of all lines sent from 1 *)
(* on, the stream holds the last ones of them in order (StreamSuffix), so  *)
(* every line between the first and the last of a chunk has a half in it;  *)
(* the pieces still to be parsed are of lines that were sent (LinesSent).  *)
(* What was pushed is in memory, with the writer or in the queue, in this  *)
(* order (Flow), and the log keeps up with the memory (Logged).  A writer  *)
(* that has ended found the queue empty when nothing could be pushed any   *)
(* more, unless Ctrl-C stopped it (Stopping).                              *)
(***************************************************************************)
Number(x) == 2 * x.line - (IF x.half = "head" THEN 1 ELSE 0)

StreamSuffix ==
    /\ Len(sent) <= MaxLines
    /\ \A i \in 1 .. Len(stream) :
          Number(stream[i]) = 2 * Len(sent) - Len(stream) + i

LinesSent == \A i \in 1 .. Len(lines) : lines[i].line <= Len(sent)

Flow ==
    /\ pushed = (events \o held) \o q
    /\ writer \notin {"write", "remember"} => held = << >>

Logged ==
    ~ioError => log = IF writer = "remember" THEN events \o held ELSE events

Stopping ==
    /\ stop /\ ~interrupted => reader = "done"
    /\ writer = "done" /\ ~ioError /\ ~interrupted => stop /\ q = << >>

IInv == TypeOK /\ Pp!IInv /\ StreamSuffix /\ LinesSent /\ Flow /\ Logged /\ Stopping
-----------------------------------------------------------------------------
\* The Collector's own invariant is kept by what PyListener does with it.
LEMMA PpAssumption == Pp!PpCollectorAssumption
  BY PyListenerAssumption DEF Pp!PpCollectorAssumption

LEMMA PpInit == Collector!Init => Pp!IInv
<1>1. Collector!Init => Pp!Init
  BY DEF Collector!Init, Pp!Init
<1> QED  BY <1>1, Pp!InitIInv, PpAssumption

LEMMA PpTick == Pp!IInv /\ Collector!Tick => Pp!IInv'
<1>1. Collector!Tick => Pp!Tick
  BY DEF Collector!Tick, Pp!Tick, Collector!pp, Pp!pp
<1> QED  BY <1>1, Pp!TickStep, PpAssumption

LEMMA PpDetect == Pp!IInv /\ Collector!DetectPingPong => Pp!IInv'
<1>1. Collector!DetectPingPong => Pp!DetectPingPong
  BY DEF Collector!DetectPingPong, Pp!DetectPingPong, Collector!DropOlder, Pp!DropOlder
<1> QED  BY <1>1, Pp!DetectStep, PpAssumption

LEMMA PpStutter == Pp!IInv /\ UNCHANGED <<now, pp>> => Pp!IInv'
  BY DEF pp, Pp!IInv, Pp!Types, Pp!Sorted, Pp!Suffix, Pp!Cut, Pp!Flag,
         Pp!AlertsOncePerBurst, Pp!Quick

\* The types of the Collector's variables, from its own invariant.
PpTypeOK ==
    /\ now \in Nat
    /\ {pp_times, ppLog} \subseteq Seq(Nat)
    /\ alerts \subseteq Nat
    /\ pp_alerted \in BOOLEAN

LEMMA PpTypes == Pp!IInv => PpTypeOK
<1> SUFFICES ASSUME Pp!IInv PROVE PpTypeOK
  OBVIOUS
<1>1. Pp!Types /\ alerts = {i \in 1 .. Len(ppLog) : Pp!Quick(i) /\ ~Pp!Quick(i - 1)}
  BY DEF Pp!IInv, Pp!AlertsOncePerBurst
<1>2. alerts \subseteq Nat
  BY <1>1, LenProperties DEF Pp!Types
<1> QED  BY <1>1, <1>2 DEF Pp!Types, PpTypeOK

LEMMA PpTypesNext == Pp!IInv' => PpTypeOK'
  BY PpTypes, PTL
-----------------------------------------------------------------------------
\* The halves of a chunk lie on consecutive lines: whatever recv returns,
\* splitlines makes well-formed pieces of it, of lines that were sent.
LEMMA SplitLemma ==
    ASSUME NEW n \in Nat, NEW b \in Int, NEW c \in Seq(Unit), c # << >>,
           b + Len(c) <= 2 * n,
           \A i \in 1 .. Len(c) : Number(c[i]) = b + i
    PROVE  /\ splitlines(c) \in Seq(Piece)
           /\ \A i \in 1 .. Len(splitlines(c)) : splitlines(c)[i].line <= n
<1> DEFINE k == Len(c)
           f == c[1].line
           l == c[k].line
           H(m) == {c[j].half : j \in {x \in DOMAIN c : c[x].line = m}}
           P(i) == [line |-> f + i - 1, halves |-> H(f + i - 1)]
<1> USE PyListenerAssumption
<1>1. k \in Nat \ {0} /\ DOMAIN c = 1 .. k
  BY EmptySeq, LenProperties
<1>2. ASSUME NEW i \in 1 .. k
      PROVE  /\ c[i].line \in 1 .. MaxLines
             /\ c[i].half \in Halves
             /\ 2 * c[i].line = b + i \/ 2 * c[i].line = b + i + 1
  <2>1. c[i] \in Unit /\ Number(c[i]) = b + i
    BY ElementOfSeq
  <2>2. c[i].line \in 1 .. MaxLines /\ c[i].half \in Halves /\ i \in Int
    BY <1>1, <2>1 DEF Unit
  <2>3. 2 * c[i].line - 1 = b + i \/ 2 * c[i].line - 0 = b + i
    BY <2>1 DEF Number
  <2> DEFINE x == c[i].line
  <2>4. 2 * x = b + i \/ 2 * x = b + i + 1
    <3>1. x \in Int
      BY <2>2
    <3>2. 2 * x - 1 = b + i \/ 2 * x - 0 = b + i
      BY <2>3
    <3> HIDE DEF x
    <3> QED  BY <3>1, <3>2, <2>2
  <2> QED  BY <2>2, <2>4
<1>3. f \in 1 .. MaxLines /\ l \in 1 .. MaxLines /\ f <= l /\ l <= n
  <2>1. 1 \in 1 .. k /\ k \in 1 .. k
    BY <1>1
  <2>2. /\ f \in 1 .. MaxLines /\ (2 * f = b + 1 \/ 2 * f = b + 2)
        /\ l \in 1 .. MaxLines /\ (2 * l = b + k \/ 2 * l = b + k + 1)
    BY <1>2, <2>1
  <2> HIDE DEF f, l
  <2> QED  BY <1>1, <2>2
<1>4. ASSUME NEW m \in f .. l PROVE H(m) \in (SUBSET Halves) \ {{}}
  <2>1. H(m) \subseteq Halves
    BY <1>1, <1>2
  <2>2. \E j \in 1 .. k : c[j].line = m
    <3>0. /\ 2 * f = b + 1 \/ 2 * f = b + 2
          /\ 2 * l = b + k \/ 2 * l = b + k + 1
      BY <1>1, <1>2
    <3>1. m \in Int /\ 2 * m >= b + 1 /\ f \in Int /\ l \in Int
      <4> HIDE DEF f, l
      <4> QED  BY <1>3, <3>0
    <3>2. CASE 2 * m - b <= k
      <4> DEFINE j == 2 * m - b
      <4>1. j \in 1 .. k
        BY <3>1, <3>2, <1>1
      <4> HIDE DEF j
      <4>2. c[j].line \in Int /\ (2 * c[j].line = b + j \/ 2 * c[j].line = b + j + 1)
        BY <1>2, <4>1
      <4>3. c[j].line = m
        BY <4>2, <3>1, SMTT(30) DEF j
      <4> QED  BY <4>1, <4>3
    <3>3. CASE 2 * m - b > k
      <4>1. l = m
        <5> HIDE DEF f, l
        <5> QED  BY <1>1, <1>3, <3>0, <3>1, <3>3
      <4> QED  BY <4>1, <1>1
    <3> QED  BY <3>1, <3>2, <3>3, <1>1
  <2>3. PICK j \in 1 .. k : c[j].line = m
    BY <2>2
  <2>4. c[j].half \in H(m)
    BY <1>1, <2>3
  <2> HIDE DEF H
  <2> QED  BY <2>1, <2>4
<1>5. splitlines(c) = [i \in 1 .. l - f + 1 |-> P(i)]
  BY DEF splitlines
<1> HIDE DEF H
<1>6. \A i \in 1 .. l - f + 1 : P(i) \in Piece /\ P(i).line <= n
  <2> SUFFICES ASSUME NEW i \in 1 .. l - f + 1 PROVE P(i) \in Piece /\ P(i).line <= n
    OBVIOUS
  <2>1. f + i - 1 \in f .. l
    BY <1>3
  <2>2. H(f + i - 1) \in (SUBSET Halves) \ {{}}
    BY <1>4, <2>1
  <2> QED  BY <1>3, <2>1, <2>2, SMTT(30) DEF Piece
<1>7. l - f + 1 \in Nat
  BY <1>3
<1> HIDE DEF P, l, f
<1>8. splitlines(c) \in Seq(Piece) /\ Len(splitlines(c)) = l - f + 1
  BY <1>5, <1>6, <1>7
<1> QED  BY <1>5, <1>6, <1>8
-----------------------------------------------------------------------------
\* Moving the first event of the queue to the writer keeps the order of all.
LEMMA MoveHead ==
    ASSUME NEW S, NEW e \in Seq(S), NEW s \in Seq(S), s # << >>
    PROVE  (e \o <<Head(s)>>) \o Tail(s) = (e \o << >>) \o s
<1>1. Head(s) \in S /\ Tail(s) \in Seq(S) /\ <<Head(s)>> \in Seq(S)
  BY HeadTailProperties
<1>2. (e \o <<Head(s)>>) \o Tail(s) = e \o (<<Head(s)>> \o Tail(s))
  BY <1>1, ConcatAssociative
<1>3. <<Head(s)>> \o Tail(s) = s
  <2> DEFINE a == <<Head(s)>>
             t == Tail(s)
  <2>1. /\ a \in Seq(S) /\ Len(a) = 1 /\ a[1] = s[1]
        /\ t \in Seq(S) /\ Len(t) = Len(s) - 1
        /\ \A i \in 1 .. Len(t) : t[i] = s[i + 1]
    BY <1>1, HeadTailProperties
  <2>2. Len(s) \in Nat \ {0}
    BY EmptySeq
  <2> HIDE DEF a, t
  <2>3. /\ a \o t \in Seq(S) /\ Len(a \o t) = Len(s)
        /\ \A i \in 1 .. Len(s) : (a \o t)[i] = IF i <= 1 THEN a[i] ELSE t[i - 1]
    <3>1. /\ a \o t \in Seq(S) /\ Len(a \o t) = Len(a) + Len(t)
          /\ \A i \in 1 .. Len(a) + Len(t) :
                (a \o t)[i] = IF i <= Len(a) THEN a[i] ELSE t[i - Len(a)]
      <4>1. a \in Seq(S) /\ t \in Seq(S)
        BY <2>1
      <4> QED  BY <4>1, ConcatProperties, Zenon
    <3> QED  BY <2>1, <2>2, <3>1
  <2>4. \A i \in 1 .. Len(s) : (a \o t)[i] = s[i]
    <3> SUFFICES ASSUME NEW i \in 1 .. Len(s) PROVE (a \o t)[i] = s[i]
      OBVIOUS
    <3>1. CASE i = 1
      BY <2>1, <2>2, <2>3, <3>1
    <3>2. CASE i # 1
      <4>1. i - 1 \in 1 .. Len(t) /\ ~(i <= 1)
        BY <2>1, <2>2, <3>2
      <4>2. t[i - 1] = s[i]
        BY <2>1, <2>2, <4>1
      <4> QED  BY <2>3, <4>1, <4>2
    <3> QED  BY <3>1, <3>2
  <2>5. a \o t = s
    BY <2>3, <2>4, SeqEqual
  <2> QED  BY <2>5 DEF a, t
<1>4. e \o << >> = e
  BY ConcatEmptySeq
<1> QED  BY <1>2, <1>3, <1>4

\* The initial states satisfy the inductive invariant.
LEMMA InitIInv == Init => IInv
<1> SUFFICES ASSUME Init PROVE IInv
  OBVIOUS
<1>1. Pp!IInv
  BY PpInit DEF Init
<1>2. TypeOK
  <2>1. PpTypeOK
    BY <1>1, PpTypes
  <2>2. \A S : << >> \in Seq(S)
    OBVIOUS
  <2> QED  BY <2>1, <2>2, Zenon DEF Init, TypeOK, PpTypeOK
<1>3. StreamSuffix /\ LinesSent
  BY PyListenerAssumption DEF Init, StreamSuffix, LinesSent
<1>4. Flow /\ Logged /\ Stopping
  BY DEF Init, Flow, Logged, Stopping
<1> QED  BY <1>1, <1>2, <1>3, <1>4 DEF IInv

\* Steps of the environment: the clock, a line, the end of the connection.
LEMMA EnvStep ==
    ASSUME IInv, Tick \/ (\E t \in Types : SendLine(t)) \/ RemoteClose
    PROVE  IInv'
<1> USE DEF IInv
<1>1. CASE Tick
  <2>1. Pp!IInv'
    BY <1>1, PpTick DEF Tick
  <2>2. TypeOK'
    BY <1>1, <2>1, PpTypesNext DEF Tick, TypeOK, PpTypeOK, inVars, outVars, mainVars
  <2>3. StreamSuffix' /\ LinesSent' /\ Flow' /\ Logged' /\ Stopping'
    BY <1>1 DEF Tick, StreamSuffix, LinesSent, Flow, Logged, Stopping, inVars, outVars, mainVars
  <2> QED  BY <2>1, <2>2, <2>3
<1>2. ASSUME NEW t \in Types, SendLine(t) PROVE IInv'
  <2> DEFINE n == Len(sent)
             a == [i \in 1 .. 2 |-> [line |-> n + 1, half |-> IF i = 1 THEN "head" ELSE "tail"]]
  <2>1. /\ n \in Nat /\ n < MaxLines /\ stream \in Seq(Unit) /\ Len(stream) \in Nat
        /\ sent' = Append(sent, t) /\ stream' = stream \o a
        /\ UNCHANGED <<now, remote, reader, lines, q, pushed, pp, outVars, mainVars>>
    BY <1>2, LenProperties DEF SendLine, TypeOK
  <2>2. sent' \in Seq(Types) /\ Len(sent') = n + 1
    BY <2>1, AppendProperties DEF TypeOK
  <2>3. a \in Seq(Unit) /\ Len(a) = 2 /\ Number(a[1]) = 2 * n + 1 /\ Number(a[2]) = 2 * n + 2
    <3>1. n + 1 \in 1 .. MaxLines
      BY <2>1, PyListenerAssumption
    <3>2. \A i \in 1 .. 2 : a[i] \in Unit
      BY <3>1 DEF Unit, Halves
    <3>3. a \in Seq(Unit) /\ Len(a) = 2
      BY <3>2
    <3>4. /\ a[1].line = n + 1 /\ a[1].half = "head"
          /\ a[2].line = n + 1 /\ a[2].half = "tail"
      OBVIOUS
    <3> HIDE DEF n, a
    <3> QED  BY <3>3, <3>4, <2>1 DEF Number
  <2> HIDE DEF a
  <2>4. /\ stream' \in Seq(Unit) /\ Len(stream') = Len(stream) + 2
        /\ \A i \in 1 .. Len(stream) + 2 :
              stream'[i] = IF i <= Len(stream) THEN stream[i] ELSE a[i - Len(stream)]
    <3>1. /\ stream \o a \in Seq(Unit) /\ Len(stream \o a) = Len(stream) + Len(a)
          /\ \A i \in 1 .. Len(stream) + Len(a) : (stream \o a)[i] =
                IF i <= Len(stream) THEN stream[i] ELSE a[i - Len(stream)]
      BY <2>1, <2>3, ConcatProperties
    <3> QED  BY <2>1, <2>3, <3>1
  <2>5. StreamSuffix'
    <3> SUFFICES ASSUME NEW i \in 1 .. Len(stream')
                 PROVE  Number(stream'[i]) = 2 * Len(sent') - Len(stream') + i
      BY <2>1, <2>2, PyListenerAssumption DEF StreamSuffix
    <3>1. CASE i \in 1 .. Len(stream)
      <4>1. stream'[i] = stream[i] /\ Number(stream[i]) = 2 * n - Len(stream) + i
        BY <2>1, <2>4, <3>1 DEF StreamSuffix
      <4> HIDE DEF n
      <4> QED  BY <2>1, <2>2, <2>4, <4>1
    <3>2. CASE i = Len(stream) + 1
      <4>1. stream'[i] = a[1]
        BY <2>1, <2>4, <3>2
      <4> HIDE DEF n
      <4> QED  BY <2>1, <2>2, <2>3, <2>4, <3>2, <4>1
    <3>3. CASE i = Len(stream) + 2
      <4>1. stream'[i] = a[2]
        BY <2>1, <2>4, <3>3
      <4> HIDE DEF n
      <4> QED  BY <2>1, <2>2, <2>3, <2>4, <3>3, <4>1
    <3> QED  BY <2>1, <2>4, <3>1, <3>2, <3>3
  <2>6. LinesSent'
    <3>1. ASSUME NEW i \in 1 .. Len(lines) PROVE lines[i].line \in Nat
      <4>1. lines \in Seq(Piece)
        BY DEF TypeOK
      <4>2. lines[i] \in Piece
        BY <4>1, ElementOfSeq
      <4> QED  BY <4>2, PyListenerAssumption DEF Piece
    <3> QED  BY <2>1, <2>2, <3>1 DEF LinesSent
  <2>7. Pp!IInv'
    BY <2>1, PpStutter
  <2>8. TypeOK'
    BY <2>1, <2>2, <2>4 DEF TypeOK, outVars, mainVars, pp
  <2>9. Flow' /\ Logged' /\ Stopping'
    BY <2>1 DEF Flow, Logged, Stopping, outVars, mainVars
  <2> QED  BY <2>5, <2>6, <2>7, <2>8, <2>9
<1>3. CASE RemoteClose
  <2>1. Pp!IInv'
    BY <1>3, PpStutter DEF RemoteClose
  <2>2. TypeOK'
    BY <1>3 DEF RemoteClose, TypeOK, inVars, outVars, mainVars, pp
  <2>3. StreamSuffix' /\ LinesSent' /\ Flow' /\ Logged' /\ Stopping'
    BY <1>3 DEF RemoteClose, StreamSuffix, LinesSent, Flow, Logged, Stopping, inVars, outVars, mainVars
  <2> QED  BY <2>1, <2>2, <2>3
<1> QED  BY <1>1, <1>2, <1>3

\* Steps of the reader that take nothing from the chunk.
LEMMA ReaderIdle ==
    ASSUME IInv, NEW from, NEW to \in {"test", "recv", "parse", "done"},
           ReaderAt(from, to), from # "done",
           UNCHANGED <<lines, q, pushed, pp>>,
           stream' = stream \/ stream' = << >>
    PROVE  IInv'
<1> USE DEF IInv
<1>1. Pp!IInv'
  BY PpStutter DEF ReaderAt
<1>2. TypeOK'
  <2>1. stream' \in Seq(Unit)
    BY EmptySeq DEF TypeOK
  <2> QED  BY <2>1 DEF ReaderAt, TypeOK, outVars, mainVars, pp
<1>3. StreamSuffix' /\ LinesSent'
  <2>1. CASE stream' = stream
    BY <2>1 DEF ReaderAt, StreamSuffix, LinesSent
  <2>2. CASE stream' = << >>
    <3>1. Len(stream') = 0 /\ 1 .. 0 = {}
      BY <2>2
    <3> QED  BY <3>1 DEF ReaderAt, StreamSuffix, LinesSent
  <2> QED  BY <2>1, <2>2
<1>4. Flow' /\ Logged' /\ Stopping'
  BY DEF ReaderAt, Flow, Logged, Stopping, outVars, mainVars
<1> QED  BY <1>1, <1>2, <1>3, <1>4

\* A chunk is received: any part of the stream, cut into pieces.
LEMMA RecvStep ==
    ASSUME IInv, Recv
    PROVE  IInv'
<1> USE DEF IInv
<1>0. PICK k \in 1 .. Len(stream) :
          /\ lines' = splitlines(SubSeq(stream, 1, k))
          /\ stream' = SubSeq(stream, k + 1, Len(stream))
  BY DEF Recv
<1> DEFINE c == SubSeq(stream, 1, k)
           n == Len(sent)
           L == Len(stream)
           b == 2 * n - L
<1>1. /\ stream \in Seq(Unit) /\ L \in Nat /\ n \in Nat /\ k \in 1 .. L
      /\ \A i \in 1 .. L : stream[i] \in Unit /\ Number(stream[i]) = b + i
  <2>1. stream \in Seq(Unit) /\ sent \in Seq(Types)
    BY DEF TypeOK
  <2> QED  BY <2>1, LenProperties, ElementOfSeq DEF StreamSuffix
<1>2. /\ c \in Seq(Unit) /\ Len(c) = k /\ c # << >>
      /\ \A i \in 1 .. k : c[i] = stream[i]
  <2>1. /\ c \in Seq(Unit) /\ Len(c) = IF 1 <= k THEN k - 1 + 1 ELSE 0
        /\ \A i \in 1 .. k - 1 + 1 : c[i] = stream[1 + i - 1]
    BY <1>1, SubSeqProperties
  <2>2. Len(c) = k /\ \A i \in 1 .. k : c[i] = stream[i]
    BY <1>1, <2>1
  <2>3. c # << >>
    <3>1. Len(<< >>) = 0
      OBVIOUS
    <3> HIDE DEF c
    <3> QED  BY <1>1, <2>2, <3>1
  <2> QED  BY <2>1, <2>2, <2>3
<1>3. /\ stream' \in Seq(Unit) /\ Len(stream') = L - k
      /\ \A i \in 1 .. L - k : stream'[i] = stream[k + i]
  <2>1. /\ stream' \in Seq(Unit) /\ Len(stream') = IF k + 1 <= L THEN L - (k + 1) + 1 ELSE 0
        /\ \A i \in 1 .. L - (k + 1) + 1 : stream'[i] = stream[k + 1 + i - 1]
    BY <1>0, <1>1, SubSeqProperties
  <2>2. k \in 1 .. L /\ L \in Nat
    BY <1>1
  <2>3. Len(stream') = L - k
    <3> HIDE DEF L, c, n, b
    <3> QED  BY <2>1, <2>2
  <2>4. \A i \in 1 .. L - k : stream'[i] = stream[k + i]
    <3> HIDE DEF L, c, n, b
    <3>1. ASSUME NEW i \in 1 .. L - k
          PROVE  i \in 1 .. L - (k + 1) + 1 /\ k + 1 + i - 1 = k + i
      BY <2>2, <3>1
    <3> QED  BY <2>1, <3>1
  <2> QED  BY <2>1, <2>3, <2>4
<1> HIDE DEF c, L, n
<1>4. b \in Int /\ b + Len(c) <= 2 * n /\ \A i \in 1 .. Len(c) : Number(c[i]) = b + i
  BY <1>1, <1>2
<1>5. lines' \in Seq(Piece) /\ \A i \in 1 .. Len(lines') : lines'[i].line <= n
  <2> HIDE DEF b
  <2> QED  BY <1>0, <1>1, <1>2, <1>4, SplitLemma DEF c
<1>6. /\ reader = "recv" /\ reader' = "parse"
      /\ UNCHANGED <<now, remote, sent, outVars, mainVars, q, pushed, pp>>
  BY DEF Recv, ReaderAt
<1>7. StreamSuffix'
  <2> SUFFICES ASSUME NEW i \in 1 .. Len(stream')
               PROVE  Number(stream'[i]) = 2 * n - Len(stream') + i
    BY <1>6 DEF StreamSuffix, n
  <2>1. k + i \in 1 .. L /\ stream'[i] = stream[k + i]
    BY <1>1, <1>3
  <2>2. Number(stream[k + i]) = b + (k + i)
    BY <1>1, <2>1
  <2> QED  BY <1>1, <1>3, <2>1, <2>2
<1>8. LinesSent'
  BY <1>5, <1>6 DEF LinesSent, n
<1>9. Pp!IInv'
  BY <1>6, PpStutter
<1>10. TypeOK'
  BY <1>3, <1>5, <1>6 DEF TypeOK, outVars, mainVars, pp
<1>11. Flow' /\ Logged' /\ Stopping'
  BY <1>6 DEF Flow, Logged, Stopping, outVars, mainVars
<1> QED  BY <1>7, <1>8, <1>9, <1>10, <1>11

\* One piece is parsed and perhaps pushed.
LEMMA ParseStep ==
    ASSUME IInv, ParseLine
    PROVE  IInv'
<1> USE DEF IInv
<1> DEFINE p == Head(lines)
<1>1. /\ lines \in Seq(Piece) /\ lines # << >> /\ lines' = Tail(lines)
      /\ reader = "parse" /\ reader' = "parse"
      /\ UNCHANGED <<now, remote, sent, outVars, mainVars, stream>>
  BY DEF ParseLine, ReaderAt, TypeOK
<1>2. PICK r \in parse_line(p) : push(r)
  BY DEF ParseLine
<1>3. /\ p \in Piece /\ lines' \in Seq(Piece) /\ Len(lines') = Len(lines) - 1
      /\ \A i \in 1 .. Len(lines') : lines'[i] = lines[i + 1]
  BY <1>1, HeadTailProperties
<1>4. Len(lines) \in Nat \ {0} /\ sent \in Seq(Types) /\ p = lines[1]
  BY <1>1, EmptySeq DEF TypeOK
<1>5. p.line \in 1 .. Len(sent) /\ p.line \in 1 .. MaxLines
  BY <1>3, <1>4, PyListenerAssumption DEF Piece, LinesSent
<1>6. r \in Seq(Event)
  <2>1. sent[p.line] \in Types
    BY <1>4, <1>5, ElementOfSeq
  <2>2. ASSUME NEW t \in Types, NEW f \in {"intact", "damaged", "bogus"}
        PROVE  <<[line |-> p.line, type |-> t, form |-> f]>> \in Seq(Event)
    <3>1. [line |-> p.line, type |-> t, form |-> f] \in Event
      BY <1>5 DEF Event
    <3> QED  BY <3>1
  <2> DEFINE Ev(t, f) == <<[line |-> p.line, type |-> t, form |-> f]>>
  <2>3. \/ r = << >>
        \/ r = Ev(sent[p.line], "intact")
        \/ r = Ev(sent[p.line], "damaged")
        \/ r = Ev("HANDOVER", "bogus")
    <3> HIDE DEF p
    <3> QED  BY <1>2 DEF parse_line
  <2>4. << >> \in Seq(Event) /\ "HANDOVER" \in Types
    BY DEF Types
  <2> QED  BY <2>1, <2>2, <2>3, <2>4
<1> HIDE DEF p
<1>7. /\ q \in Seq(Event) /\ pushed \in Seq(Event) /\ events \in Seq(Event) /\ held \in Seq(Event)
      /\ q' = q \o r /\ pushed' = pushed \o r
      /\ q' \in Seq(Event) /\ pushed' \in Seq(Event)
  BY <1>2, <1>6, ConcatProperties DEF push, TypeOK
<1>8. Pp!IInv'
  <2>1. CASE \E i \in DOMAIN r : r[i].type = "PINGPONG"
    BY <1>2, <2>1, PpDetect DEF push
  <2>2. CASE ~\E i \in DOMAIN r : r[i].type = "PINGPONG"
    BY <1>1, <1>2, <2>2, PpStutter DEF push
  <2> QED  BY <2>1, <2>2
<1>9. TypeOK'
  <2>1. PpTypeOK'
    BY <1>8, PpTypesNext
  <2> QED  BY <1>1, <1>3, <1>7, <2>1 DEF TypeOK, PpTypeOK, outVars, mainVars
<1>10. StreamSuffix' /\ LinesSent'
  <2>1. \A i \in 1 .. Len(lines') : i + 1 \in 1 .. Len(lines)
    BY <1>3, <1>4
  <2> QED  BY <1>1, <1>3, <2>1 DEF StreamSuffix, LinesSent
<1>11. Flow'
  <2>1. pushed' = (events \o held) \o q'
    <3>1. events \o held \in Seq(Event) /\ pushed = (events \o held) \o q
      BY <1>7, ConcatProperties DEF Flow
    <3>2. \A x, y, z \in Seq(Event) : (x \o y) \o z = x \o (y \o z)
      BY ConcatAssociative
    <3>3. ASSUME NEW x \in Seq(Event), pushed = x \o q PROVE pushed' = x \o q'
      <4>1. q \in Seq(Event)
        BY <1>7
      <4>2. \A z \in Seq(Event) : (x \o q) \o z = x \o (q \o z)
        BY <4>1, <3>2, Zenon
      <4>3. (x \o q) \o r = x \o (q \o r)
        BY <1>6, <4>2, Zenon
      <4> QED  BY <1>7, <3>3, <4>3
    <3> QED  BY <3>1, <3>3, Zenon
  <2> QED  BY <1>1, <2>1 DEF Flow, outVars
<1>12. Logged' /\ Stopping'
  BY <1>1 DEF Logged, Stopping, outVars, mainVars
<1> QED  BY <1>8, <1>9, <1>10, <1>11, <1>12

\* Steps of the writer.
LEMMA WriterStep ==
    ASSUME IInv, Writer
    PROVE  IInv'
<1> USE DEF IInv
<1> DEFINE Same == /\ UNCHANGED <<now, remote, sent, pushed, pp, inVars, mainVars>>
                   /\ writer' \in {"open", "test", "get", "write", "remember", "done"}
<1>1. ASSUME Same,
             {q', held', log', events'} \subseteq Seq(Event), ioError' \in BOOLEAN,
             Flow', Logged', Stopping'
      PROVE  IInv'
  <2>1. Pp!IInv'
    BY <1>1, PpStutter
  <2>2. TypeOK'
    BY <1>1 DEF TypeOK, inVars, mainVars, pp
  <2>3. StreamSuffix' /\ LinesSent'
    BY <1>1 DEF StreamSuffix, LinesSent, inVars
  <2> QED  BY <1>1, <2>1, <2>2, <2>3
<1>2. {q, held, log, events} \subseteq Seq(Event)
  BY DEF TypeOK
<1>3. CASE OpenLog
  <2>0. Same /\ ioError' \in BOOLEAN
    BY <1>3 DEF OpenLog, WriterAt, inVars, mainVars, TypeOK
  <2>1. Flow' /\ Logged' /\ Stopping'
    BY <1>3 DEF OpenLog, WriterAt, Flow, Logged, Stopping, inVars, mainVars
  <2> QED  BY <1>1, <1>2, <1>3, <2>0, <2>1 DEF OpenLog
<1>4. CASE WriterTest
  <2>1. Same /\ Flow' /\ Logged' /\ Stopping' /\ ioError' \in BOOLEAN
    BY <1>4 DEF WriterTest, WriterAt, Flow, Logged, Stopping, inVars, mainVars, TypeOK
  <2> QED  BY <1>1, <1>2, <1>4, <2>1 DEF WriterTest
<1>5. CASE Get
  <2>1. Same /\ Stopping' /\ Logged' /\ UNCHANGED <<log, events, ioError>> /\ ioError' \in BOOLEAN
    BY <1>5 DEF Get, WriterAt, Logged, Stopping, inVars, mainVars, TypeOK
  <2>2. /\ q \in Seq(Event) /\ q # << >> /\ held' = <<Head(q)>> /\ q' = Tail(q)
        /\ held = << >> /\ writer' = "write"
    BY <1>2, <1>5 DEF Get, WriterAt, Flow
  <2>3. q' \in Seq(Event) /\ held' \in Seq(Event)
    BY <2>2, HeadTailProperties
  <2>4. (events \o held') \o q' = (events \o held) \o q
    BY <1>2, <2>2, MoveHead
  <2>5. Flow'
    BY <2>1, <2>2, <2>4 DEF Flow
  <2> QED  BY <1>1, <1>2, <2>1, <2>3, <2>5
<1>6. CASE GetTimeout
  <2>1. Same /\ Flow' /\ Logged' /\ Stopping' /\ ioError' \in BOOLEAN
    BY <1>6 DEF GetTimeout, WriterAt, Flow, Logged, Stopping, inVars, mainVars, TypeOK
  <2> QED  BY <1>1, <1>2, <1>6, <2>1 DEF GetTimeout
<1>7. CASE Write
  <2>0. Same /\ ioError' \in BOOLEAN
    BY <1>7 DEF Write, WriterAt, inVars, mainVars, TypeOK
  <2>1. Flow' /\ Logged' /\ Stopping'
    BY <1>7, SMTT(30) DEF Write, WriterAt, Flow, Logged, Stopping, inVars, mainVars
  <2>2. log' \in Seq(Event)
    BY <1>2, <1>7, ConcatProperties DEF Write
  <2> QED  BY <1>1, <1>2, <1>7, <2>0, <2>1, <2>2 DEF Write
<1>8. CASE add_to_memory
  <2>1. Same /\ Stopping' /\ UNCHANGED <<q, log, ioError>> /\ ioError' \in BOOLEAN
    BY <1>8 DEF add_to_memory, WriterAt, Stopping, inVars, mainVars, TypeOK
  <2>2. /\ writer = "remember" /\ writer' = "test"
        /\ events' = events \o held /\ held' = << >>
    BY <1>8 DEF add_to_memory, WriterAt
  <2>3. events' \in Seq(Event) /\ held' \in Seq(Event) /\ events' \o held' = events'
    BY <1>2, <2>2, ConcatProperties, ConcatEmptySeq, EmptySeq
  <2>4. Flow' /\ Logged'
    BY <2>1, <2>2, <2>3 DEF Flow, Logged
  <2> QED  BY <1>1, <1>2, <2>1, <2>3, <2>4
<1> QED  BY <1>3, <1>4, <1>5, <1>6, <1>7, <1>8 DEF Writer

\* Steps of the main thread.
LEMMA MainStep ==
    ASSUME IInv, Interrupt \/ Main
    PROVE  IInv'
<1> USE DEF IInv
<1>1. main' \in {"interrupted", "joinWriter", "done"}
  BY DEF Interrupt, Main, ReaderJoined, WriterJoined, JoinTimeout, MainAt
<1>2. UNCHANGED <<now, remote, sent, q, pushed, pp, inVars, outVars>>
  BY DEF Interrupt, Main, ReaderJoined, WriterJoined, JoinTimeout, MainAt
<1>3. Pp!IInv'
  BY <1>2, PpStutter
<1>4. StreamSuffix' /\ LinesSent' /\ Flow' /\ Logged'
  BY <1>2 DEF StreamSuffix, LinesSent, Flow, Logged, inVars, outVars
<1>5. {stop', interrupted'} \subseteq BOOLEAN
  BY DEF Interrupt, Main, ReaderJoined, WriterJoined, JoinTimeout, TypeOK
<1>6. TypeOK'
  BY <1>1, <1>2, <1>5 DEF TypeOK, inVars, outVars, pp
<1>7. Stopping'
  BY <1>2 DEF Interrupt, Main, ReaderJoined, WriterJoined, JoinTimeout, Stopping,
              inVars, outVars, TypeOK
<1> QED  BY <1>3, <1>4, <1>6, <1>7

\* Every step of the specification preserves the inductive invariant.
LEMMA NextIInv == IInv /\ [Next]_vars => IInv'
<1> SUFFICES ASSUME IInv, [Next]_vars PROVE IInv'
  OBVIOUS
<1>1. CASE Tick \/ (\E t \in Types : SendLine(t)) \/ RemoteClose
  BY <1>1, EnvStep
<1>2. CASE Reader
  <2>1. CASE Recv
    BY <2>1, RecvStep
  <2>2. CASE ParseLine
    BY <2>2, ParseStep
  <2>3. CASE Connect
    BY <2>3, ReaderIdle DEF Connect
  <2>4. CASE ReaderTest
    <3> DEFINE to == IF stop THEN "done" ELSE "recv"
    <3>1. to \in {"test", "recv", "parse", "done"} /\ ReaderAt("test", to)
      BY <2>4 DEF ReaderTest
    <3> QED  BY <2>4, <3>1, ReaderIdle DEF ReaderTest
  <2>5. CASE RecvTimeout
    BY <2>5, ReaderIdle DEF RecvTimeout
  <2>6. CASE RecvClosed
    BY <2>6, ReaderIdle DEF RecvClosed
  <2>7. CASE RecvError
    BY <2>7, ReaderIdle DEF RecvError
  <2>8. CASE ChunkDone
    BY <2>8, ReaderIdle DEF ChunkDone
  <2> QED  BY <1>2, <2>1, <2>2, <2>3, <2>4, <2>5, <2>6, <2>7, <2>8 DEF Reader
<1>3. CASE Writer
  BY <1>3, WriterStep
<1>4. CASE Interrupt \/ Main
  BY <1>4, MainStep
<1>5. CASE UNCHANGED vars
  <2>1. UNCHANGED <<now, remote, sent, q, pushed, pp, inVars, outVars, mainVars>>
    BY <1>5 DEF vars
  <2>2. Pp!IInv'
    BY <2>1, PpStutter DEF IInv
  <2>3. TypeOK' /\ StreamSuffix' /\ LinesSent' /\ Flow' /\ Logged' /\ Stopping'
    BY <2>1 DEF IInv, TypeOK, StreamSuffix, LinesSent, Flow, Logged, Stopping, pp,
                inVars, outVars, mainVars
  <2> QED  BY <2>2, <2>3 DEF IInv
<1> QED  BY <1>1, <1>2, <1>3, <1>4, <1>5 DEF Next
-----------------------------------------------------------------------------
LEMMA Inductive == Spec => []IInv
  BY InitIInv, NextIInv, PTL DEF Spec

\* Whatever recv cuts and however the threads interleave, chunks, queue and
\* log hold well-formed pieces and events only.
THEOREM TypeCorrect == Spec => []TypeOK
<1>1. IInv => TypeOK
  BY DEF IInv
<1> QED  BY <1>1, Inductive, PTL

\* When writer_thread has ended, with a writable file, the log and the memory
\* hold what Collector.push was given, in order and without a gap: all of it, or
\* after Ctrl-C all but the last events, which are still in the queue.
THEOREM WriterLeavesNoGap == Spec => []NothingLeftBehind
<1>1. IInv => NothingLeftBehind
  <2> SUFFICES ASSUME IInv, writer = "done", ~ioError
               PROVE  /\ log = events /\ pushed = log \o q
                      /\ ~interrupted => q = << >>
    BY DEF NothingLeftBehind
  <2>1. /\ held = << >> /\ log = events /\ pushed = (events \o held) \o q
        /\ ~interrupted => q = << >>
    BY DEF IInv, Stopping, Flow, Logged
  <2>2. events \in Seq(Event)
    BY DEF IInv, TypeOK
  <2>3. events \o << >> = events
    BY <2>2, ConcatEmptySeq
  <2> QED  BY <2>1, <2>3
<1> QED  BY <1>1, Inductive, PTL

\* The alerts of the whole program are one per burst, with its second event,
\* whatever the reader makes of the stream: what PpCollector promises of
\* Collector.push alone holds where tcp_client_once calls it.
THEOREM AlertsOncePerBurstHere == Spec => []Collector!AlertsOncePerBurst
<1>1. IInv => Collector!AlertsOncePerBurst
  BY DEF IInv, Pp!IInv, Pp!AlertsOncePerBurst, Collector!AlertsOncePerBurst,
         Pp!Quick, Collector!Quick
<1> QED  BY <1>1, Inductive, PTL
=============================================================================
