------------------------- MODULE PpCollector_proofs -------------------------
(***************************************************************************)
(* Proofs about PpCollector: one alert per burst, for any window and any   *)
(* number and times of ping-pong events.                                   *)
(***************************************************************************)
EXTENDS PpCollector, SequenceTheorems, WellFoundedInduction, TLAPS

(***************************************************************************)
(* The inductive invariant.  pp_times is the end of the whole history      *)
(* (Suffix) that the window cuts off (Cut); since times never decrease     *)
(* (Sorted), whether it has two entries tells whether the last event was   *)
(* quick, and that is also what the flag says.                             *)
(***************************************************************************)
Types ==
    /\ now \in Nat
    /\ pp_times \in Seq(Nat)
    /\ pp_alerted \in BOOLEAN
    /\ ppLog \in Seq(Nat)

Sorted ==
    /\ \A i \in 1 .. Len(ppLog) : ppLog[i] <= now
    /\ \A i, j \in 1 .. Len(ppLog) : i <= j => ppLog[i] <= ppLog[j]

Suffix ==
    /\ Len(pp_times) <= Len(ppLog)
    /\ \A k \in 1 .. Len(pp_times) :
          pp_times[k] = ppLog[Len(ppLog) - Len(pp_times) + k]

Cut ==
    \A i \in 1 .. Len(ppLog) :
        ppLog[Len(ppLog)] - ppLog[i] <= Window
            <=> i > Len(ppLog) - Len(pp_times)

Flag == pp_alerted <=> Len(pp_times) >= 2

IInv == Types /\ Sorted /\ Suffix /\ Cut /\ Flag /\ AlertsOncePerBurst
-----------------------------------------------------------------------------
\* The popleft loop of Collector.push stops at the first time that is not
\* older than the cutoff, when the last one is not.
LEMMA DropOlderLemma ==
    ASSUME NEW times \in Seq(Nat), NEW c \in Int,
           Len(times) >= 1, times[Len(times)] >= c
    PROVE  \E k \in 1 .. Len(times) :
              /\ times[k] >= c
              /\ \A j \in 1 .. k - 1 : times[j] < c
              /\ DropOlder(times, c) \in Seq(Nat)
              /\ Len(DropOlder(times, c)) = Len(times) - k + 1
              /\ \A i \in 1 .. Len(times) - k + 1 :
                    DropOlder(times, c)[i] = times[k + i - 1]
<1> DEFINE S == {i \in 1 .. Len(times) : times[i] >= c}
           First(i) == /\ times[i] >= c
                       /\ \A j \in 1 .. i - 1 : times[j] < c
           k0 == CHOOSE i \in 1 .. Len(times) : First(i)
<1>1. Len(times) \in Nat /\ \A i \in 1 .. Len(times) : times[i] \in Nat
  BY LenProperties, ElementOfSeq
<1>2. S \in SUBSET Nat /\ S # {}
  BY <1>1
<1>3. \E i \in S : \A j \in S : i <= j
  <2> HIDE DEF S
  <2>1. \E i \in S : \A j \in S : <<j, i>> \notin OpToRel(<, Nat)
    BY <1>2, WFMin, NatLessThanWellFounded
  <2>2. \A i, j \in Nat : <<j, i>> \in OpToRel(<, Nat) <=> j < i
    BY DEF OpToRel
  <2>3. \E i \in S : \A j \in S : ~(j < i)
    BY <1>2, <2>1, <2>2, Zenon
  <2> QED  BY <1>2, <2>3
<1>4. \E i \in 1 .. Len(times) : First(i)
  <2>1. PICK i \in S : \A j \in S : i <= j
    BY <1>3
  <2>2. i \in 1 .. Len(times) /\ times[i] >= c
    OBVIOUS
  <2>3. ASSUME NEW j \in 1 .. i - 1 PROVE times[j] < c
    BY <1>1, <2>1, <2>2, SMTT(30)
  <2> QED  BY <2>2, <2>3
<1>5. k0 \in 1 .. Len(times) /\ First(k0)
  <2> HIDE DEF First
  <2> QED  BY <1>4
<1>6. DropOlder(times, c) = SubSeq(times, k0, Len(times))
  BY DEF DropOlder
<1> HIDE DEF k0
<1>7. /\ SubSeq(times, k0, Len(times)) \in Seq(Nat)
      /\ Len(SubSeq(times, k0, Len(times))) = Len(times) - k0 + 1
      /\ \A i \in 1 .. Len(times) - k0 + 1 :
            SubSeq(times, k0, Len(times))[i] = times[k0 + i - 1]
  BY <1>1, <1>5, SubSeqProperties
<1> QED  BY <1>5, <1>6, <1>7

LEMMA InitIInv == Init => IInv
<1> SUFFICES ASSUME Init PROVE IInv
  OBVIOUS
<1>1. Len(ppLog) = 0 /\ Len(pp_times) = 0 /\ 1 .. 0 = {}
  BY DEF Init
<1>2. Types
  BY EmptySeq DEF Init, Types
<1>3. Sorted /\ Suffix /\ Cut /\ AlertsOncePerBurst
  BY <1>1 DEF Init, Sorted, Suffix, Cut, AlertsOncePerBurst
<1>4. Flag
  BY <1>1 DEF Init, Flag
<1> QED  BY <1>2, <1>3, <1>4 DEF IInv

LEMMA TickStep == IInv /\ Tick => IInv'
<1> SUFFICES ASSUME IInv, Tick PROVE IInv'
  OBVIOUS
<1> USE PpCollectorAssumption
<1>1. Types' /\ Suffix' /\ Cut' /\ Flag' /\ AlertsOncePerBurst'
  BY DEF IInv, Tick, pp, Types, Suffix, Cut, Flag, AlertsOncePerBurst, Quick
<1>2. Sorted'
  BY LenProperties, ElementOfSeq DEF IInv, Tick, pp, Types, Sorted
<1> QED  BY <1>1, <1>2 DEF IInv

\* A ping-pong event: one per call of Collector.push with such an event.
LEMMA DetectStep == IInv /\ DetectPingPong => IInv'
<1> SUFFICES ASSUME IInv, DetectPingPong PROVE IInv'
  OBVIOUS
<1> USE PpCollectorAssumption
<1> DEFINE n == Len(ppLog)
           m == Len(pp_times)
           T == Append(pp_times, now)
           c == now - Window
           recent == DropOlder(T, c)
<1>1. /\ n \in Nat /\ m \in Nat /\ m <= n /\ now \in Nat /\ Window \in Nat
      /\ c \in Int
      /\ \A i \in 1 .. n : ppLog[i] \in Nat
      /\ \A i \in 1 .. m : pp_times[i] \in Nat
  BY LenProperties, ElementOfSeq, SMTT(30) DEF IInv, Types, Suffix
<1>2. /\ ppLog' \in Seq(Nat) /\ Len(ppLog') = n + 1
      /\ ppLog'[n + 1] = now
      /\ \A i \in 1 .. n : ppLog'[i] = ppLog[i]
  BY <1>1, AppendProperties DEF IInv, Types, DetectPingPong
<1>3. /\ T \in Seq(Nat) /\ Len(T) = m + 1 /\ T[m + 1] = now
      /\ \A i \in 1 .. m : T[i] = pp_times[i]
  BY <1>1, AppendProperties DEF IInv, Types
<1>4. \A i \in 1 .. m + 1 : T[i] = ppLog'[n - m + i]
  <2> SUFFICES ASSUME NEW i \in 1 .. m + 1 PROVE T[i] = ppLog'[n - m + i]
    OBVIOUS
  <2>1. CASE i = m + 1
    BY <1>1, <1>2, <1>3, <2>1
  <2>2. CASE i \in 1 .. m
    <3>1. T[i] = ppLog[n - m + i]
      BY <1>3, <2>2 DEF IInv, Suffix
    <3>2. n - m + i \in 1 .. n
      BY <1>1, <2>2
    <3> QED  BY <1>2, <3>1, <3>2
  <2> QED  BY <1>1, <2>1, <2>2
<1>5. PICK k \in 1 .. Len(T) :
          /\ T[k] >= c
          /\ \A j \in 1 .. k - 1 : T[j] < c
          /\ recent \in Seq(Nat)
          /\ Len(recent) = Len(T) - k + 1
          /\ \A i \in 1 .. Len(T) - k + 1 : recent[i] = T[k + i - 1]
  <2> HIDE DEF T
  <2>1. Len(T) >= 1 /\ T[Len(T)] >= c
    BY <1>1, <1>3
  <2> HIDE DEF c
  <2> QED  BY <1>1, <1>3, <2>1, DropOlderLemma
<1>5a. k \in 1 .. m + 1 /\ Len(recent) = m + 2 - k
  BY <1>1, <1>3, <1>5
<1>6. /\ pp_times' = recent
      /\ pp_alerted' = (Len(recent) >= 2)
      /\ alerts' = IF Len(recent) >= 2 /\ ~pp_alerted
                   THEN alerts \cup {n + 1} ELSE alerts
      /\ now' = now
  BY DEF DetectPingPong
<1> HIDE DEF T, recent, n, m, c
<1>7. \A i, j \in 1 .. n + 1 : i <= j => ppLog'[i] <= ppLog'[j]
  <2>1. /\ \A i \in 1 .. n : ppLog[i] <= now
        /\ \A i, j \in 1 .. n : i <= j => ppLog[i] <= ppLog[j]
    BY DEF IInv, Sorted, n
  <2> SUFFICES ASSUME NEW i \in 1 .. n + 1, NEW j \in 1 .. n + 1, i <= j
               PROVE  ppLog'[i] <= ppLog'[j]
    OBVIOUS
  <2>2. CASE j \in 1 .. n
    BY <1>1, <1>2, <2>1, <2>2
  <2>3. CASE j = n + 1
    BY <1>1, <1>2, <2>1, <2>3
  <2> QED  BY <1>1, <2>2, <2>3
<1>8. Types'
  BY <1>1, <1>2, <1>5, <1>5a, <1>6 DEF Types
<1>9. Sorted'
  <2>1. \A i \in 1 .. n : ppLog[i] <= now
    BY DEF IInv, Sorted, n
  <2> QED  BY <1>1, <1>2, <1>6, <1>7, <2>1 DEF Sorted
<1>10. Suffix'
  <2>1. Len(pp_times') = m + 2 - k
    BY <1>1, <1>5, <1>5a, <1>6
  <2>2. ASSUME NEW i \in 1 .. m + 2 - k
        PROVE  pp_times'[i] = ppLog'[(n + 1) - (m + 2 - k) + i]
    <3>1. pp_times'[i] = T[k + i - 1] /\ k + i - 1 \in 1 .. m + 1
      BY <1>1, <1>3, <1>5, <1>5a, <1>6
    <3>2. n - m + (k + i - 1) = (n + 1) - (m + 2 - k) + i
      BY <1>1, <1>5, <1>5a
    <3> QED  BY <1>4, <3>1, <3>2
  <2> QED  BY <1>1, <1>2, <1>5a, <2>1, <2>2 DEF Suffix
\* The cut before k in T is the cut before n - m + k in the history: what was
\* dropped earlier is older still.
<1>11. \A i \in 1 .. n + 1 :
          now - ppLog'[i] <= Window <=> i > n + 1 - (m + 2 - k)
  <2> SUFFICES ASSUME NEW i \in 1 .. n + 1
               PROVE  now - ppLog'[i] <= Window <=> i > n - m + k - 1
    BY <1>1, <1>5, <1>5a
  <2>0. ppLog'[i] \in Nat
    BY <1>2, ElementOfSeq
  <2>1. CASE i >= n - m + k
    <3>1. n - m + k \in 1 .. n + 1 /\ ppLog'[n - m + k] >= c
      BY <1>1, <1>4, <1>5, <1>5a
    <3>2. ppLog'[n - m + k] <= ppLog'[i] /\ ppLog'[n - m + k] \in Nat
      BY <1>2, <1>7, <2>1, <3>1, ElementOfSeq
    <3> QED  BY <1>1, <1>5, <1>5a, <2>0, <2>1, <3>1, <3>2, SMTT(30) DEF c
  <2>2. CASE i < n - m + k /\ i > n - m
    <3>1. i - (n - m) \in 1 .. k - 1 /\ i - (n - m) \in 1 .. m + 1
      BY <1>1, <1>5, <1>5a, <2>2
    <3>2. T[i - (n - m)] < c /\ T[i - (n - m)] = ppLog'[i]
      BY <1>1, <1>4, <1>5, <1>5a, <3>1
    <3> QED  BY <1>1, <1>5, <1>5a, <2>0, <2>2, <3>2 DEF c
  <2>3. CASE i <= n - m
    <3>1. i \in 1 .. n /\ n \in 1 .. n
      BY <1>1, <2>3
    <3>2. ppLog[n] - ppLog[i] > Window
      BY <1>1, <2>3, <3>1, SMTT(30) DEF IInv, Cut, n, m
    <3>3. ppLog[n] <= now /\ ppLog'[i] = ppLog[i]
      BY <1>2, <3>1 DEF IInv, Sorted, n
    <3>4. ppLog[n] \in Nat /\ ppLog[i] \in Nat
      BY <1>1, <3>1
    <3>5. ~(now - ppLog'[i] <= Window)
      BY <1>1, <3>2, <3>3, <3>4
    <3>6. ~(i > n - m + k - 1)
      BY <1>1, <1>5a, <2>3
    <3> QED  BY <3>5, <3>6
  <2> QED  BY <1>1, <1>5, <1>5a, <2>1, <2>2, <2>3
<1>12. Cut'
  <2>1. Len(pp_times') = m + 2 - k /\ Len(ppLog') = n + 1
    BY <1>2, <1>5a, <1>6
  <2>2. ppLog'[Len(ppLog')] = now
    BY <1>2, <2>1
  <2>3. ASSUME NEW i \in 1 .. Len(ppLog')
        PROVE  ppLog'[Len(ppLog')] - ppLog'[i] <= Window
                   <=> i > Len(ppLog') - Len(pp_times')
    <3>1. now - ppLog'[i] <= Window <=> i > n + 1 - (m + 2 - k)
      BY <1>11, <2>1
    <3>2. n + 1 - (m + 2 - k) = Len(ppLog') - Len(pp_times')
      BY <1>1, <1>5a, <2>1
    <3> QED  BY <2>2, <3>1, <3>2
  <2> QED  BY <2>3 DEF Cut
<1>13. Flag'
  BY <1>6 DEF Flag
<1>14. AlertsOncePerBurst'
  <2> DEFINE QuickNow(i) == i > 1 /\ ppLog'[i] - ppLog'[i - 1] <= Window
  <2>1. \A i \in 1 .. n : QuickNow(i) <=> Quick(i)
    BY <1>1, <1>2 DEF Quick
  <2>2. ~Quick(0) /\ ~QuickNow(0)
    BY DEF Quick
  <2>3. QuickNow(n + 1) <=> Len(recent) >= 2
    <3>1. Len(recent) >= 2 <=> k <= m
      BY <1>1, <1>5a
    <3>2. CASE n = 0
      BY <1>1, <1>5a, <3>1, <3>2
    <3>3. CASE n > 0
      <4>1. now - ppLog'[n] <= Window <=> n > n + 1 - (m + 2 - k)
        BY <1>1, <1>11, <3>3
      <4>2. n + 1 - 1 = n /\ n + 1 > 1
        BY <1>1, <3>3
      <4> QED  BY <1>1, <1>2, <1>5a, <3>1, <4>1, <4>2
    <3> QED  BY <1>1, <3>2, <3>3
  <2>4. Quick(n) <=> pp_alerted
    <3>1. pp_alerted <=> m >= 2
      BY DEF IInv, Flag, m
    <3>2. CASE n < 2
      BY <1>1, <3>1, <3>2 DEF Quick
    <3>3. CASE n > 1
      <4>1. n - 1 \in 1 .. n
        BY <1>1, <3>3
      <4>2. ppLog[n] - ppLog[n - 1] <= Window <=> n - 1 > n - m
        BY <4>1 DEF IInv, Cut, n, m
      <4> QED  BY <1>1, <3>1, <3>3, <4>2 DEF Quick
    <3> QED  BY <1>1, <3>2, <3>3
  <2>5. alerts = {i \in 1 .. n : Quick(i) /\ ~Quick(i - 1)}
    BY DEF IInv, AlertsOncePerBurst, n
  <2> HIDE DEF QuickNow
  <2> DEFINE New == {i \in 1 .. n + 1 : QuickNow(i) /\ ~QuickNow(i - 1)}
  <2>6. \A i \in 1 .. n : i \in New <=> i \in alerts
    <3> SUFFICES ASSUME NEW i \in 1 .. n PROVE i \in New <=> i \in alerts
      OBVIOUS
    <3>1. i \in 1 .. n + 1 /\ (i - 1 = 0 \/ i - 1 \in 1 .. n)
      BY <1>1
    <3>2. QuickNow(i - 1) <=> Quick(i - 1)
      BY <2>1, <2>2, <3>1
    <3> QED  BY <2>1, <2>5, <3>1, <3>2
  <2>7. n + 1 \in New <=> Len(recent) >= 2 /\ ~pp_alerted
    <3>1. n + 1 \in 1 .. n + 1 /\ n + 1 - 1 = n
      BY <1>1
    <3>2. QuickNow(n) <=> Quick(n)
      <4>1. n = 0 \/ n \in 1 .. n
        BY <1>1
      <4> QED  BY <2>1, <2>2, <4>1
    <3>3. QuickNow((n + 1) - 1) <=> pp_alerted
      <4>1. QuickNow((n + 1) - 1) <=> QuickNow(n)
        BY <1>1 DEF QuickNow
      <4> QED  BY <2>4, <3>2, <4>1
    <3>4. n + 1 \in New <=> QuickNow(n + 1) /\ ~QuickNow((n + 1) - 1)
      BY <3>1
    <3> QED  BY <2>3, <3>3, <3>4
  <2>8. alerts' = New
    <3>1. alerts \subseteq 1 .. n /\ New \subseteq 1 .. n + 1
      BY <2>5
    <3> HIDE DEF New
    <3>2. \A i : i \in 1 .. n + 1 <=> i \in 1 .. n \/ i = n + 1
      BY <1>1
    <3>4. CASE Len(recent) >= 2 /\ ~pp_alerted
      <4>1. alerts' = alerts \cup {n + 1} /\ n + 1 \in New
        BY <1>6, <2>7, <3>4
      <4> QED  BY <2>6, <3>1, <3>2, <4>1
    <3>5. CASE ~(Len(recent) >= 2 /\ ~pp_alerted)
      <4>1. alerts' = alerts /\ n + 1 \notin New
        BY <1>6, <2>7, <3>5
      <4> QED  BY <2>6, <3>1, <3>2, <4>1
    <3> QED  BY <3>4, <3>5
  <2> QED  BY <1>2, <2>8 DEF AlertsOncePerBurst, Quick, QuickNow
<1> QED  BY <1>8, <1>9, <1>10, <1>12, <1>13, <1>14 DEF IInv

LEMMA Inductive == Spec => []IInv
<1>1. IInv /\ [Next]_<<now, pp>> => IInv'
  <2>1. IInv /\ UNCHANGED <<now, pp>> => IInv'
    BY DEF pp, IInv, Types, Sorted, Suffix, Cut, Flag, AlertsOncePerBurst, Quick
  <2> QED  BY <2>1, TickStep, DetectStep DEF Next
<1> QED  BY <1>1, InitIInv, PTL DEF Spec

\* The alert of Collector.push is printed once per burst, with its second
\* event: for every window, clock and number of events.
THEOREM OneAlertPerBurst == Spec => []AlertsOncePerBurst
<1>1. IInv => AlertsOncePerBurst
  BY DEF IInv
<1> QED  BY <1>1, Inductive, PTL

\* pp_times of Collector.push holds exactly the events within the window.
THEOREM RecentKept == Spec => []OnlyRecentKept
<1>1. IInv => OnlyRecentKept
  <2> SUFFICES ASSUME IInv PROVE OnlyRecentKept
    OBVIOUS
  <2> USE PpCollectorAssumption
  <2> DEFINE n == Len(ppLog)
             m == Len(pp_times)
             s == SubSeq(ppLog, n - m + 1, n)
  <2>1. n \in Nat /\ m \in Nat /\ m <= n
    BY LenProperties DEF IInv, Types, Suffix
  <2>2. s \in Seq(Nat) /\ Len(s) = m /\ \A i \in 1 .. m : s[i] = ppLog[n - m + i]
    BY <2>1, SubSeqProperties DEF IInv, Types
  <2>3. pp_times = s
    <3> HIDE DEF s
    <3>1. \A i \in 1 .. m : pp_times[i] = s[i]
      BY <2>2 DEF IInv, Suffix
    <3> QED  BY <2>2, <3>1, SeqEqual DEF IInv, Types
  <2>4. {i \in 1 .. n : ppLog[n] - ppLog[i] <= Window} = n - m + 1 .. n
    BY <2>1 DEF IInv, Cut
  <2> QED  BY <2>1, <2>3, <2>4 DEF OnlyRecentKept
<1> QED  BY <1>1, Inductive, PTL
=============================================================================
