--------------------------- MODULE GnbRrc_proofs ---------------------------
(***************************************************************************)
(* Proofs about GnbRrc: type correctness, and that time to trigger is      *)
(* honoured (ElapsedIsEarned), for any set of gNBs and UEs, any TTT and    *)
(* any bounds.                                                             *)
(***************************************************************************)
EXTENDS GnbRrc, SequenceTheorems, WellFoundedInduction, TLAPS

(***************************************************************************)
(* The inductive invariant.  Chained bounds the setup events of a UE (its  *)
(* procedure is one chain of events, so moving an event along the chain    *)
(* cannot overflow); Earned ties every stored trigger time to the history  *)
(* of reports, and survives a report because later rows are unset.         *)
(***************************************************************************)
Chained ==
    \A u \in UEs : ev["CONN_REQUEST"][u] + ev["SETUP_REQUEST"][u]
                     + ev["GENERATE_SETUP"][u] + ev["SETUP"][u] <= MaxEvents

Earned(m, g, since) ==
    \A i \in DOMAIN m : \A c \in Gnbs \ {g} :
        m[i].TriggerTime[c] # TTT_NOT_SET =>
            /\ since[m[i].ueID][c] # TTT_NOT_SET
            /\ since[m[i].ueID][c] <= m[i].TriggerTime[c]

TriggersEarned == \A g \in Gnbs : Earned(matrix[g], g, betterSince[g])

\* The history never runs ahead of the clock.
NotFuture == \A g \in Gnbs, u \in UEs, c \in Gnbs : betterSince[g][u][c] <= now

IInv == TypeOK /\ Chained /\ LaterRowsUnset /\ TriggersEarned /\ NotFuture

----------------------------------------------------------------------------
\* Every non-empty set of rows of a UE has a first one
\* (fn_NetSim_LTENR_Conditional_HO_TTT_Matrix_Find stops at it).
LEMMA FirstRowIsFirst ==
    ASSUME NEW S, NEW m \in Seq(S), NEW u, RowsOf(m, u) # {}
    PROVE  /\ FirstRow(m, u) \in DOMAIN m
           /\ m[FirstRow(m, u)].ueID = u
           /\ \A j \in RowsOf(m, u) : FirstRow(m, u) <= j
<1>1. RowsOf(m, u) \in SUBSET Nat
  BY LenProperties DEF RowsOf
<1>2. \E i \in RowsOf(m, u) : \A j \in RowsOf(m, u) : i <= j
  <2>1. \E i \in RowsOf(m, u) : \A j \in RowsOf(m, u) :
           <<j, i>> \notin OpToRel(<, Nat)
    BY <1>1, WFMin, NatLessThanWellFounded
  <2>2. \A i, j \in Nat : <<j, i>> \in OpToRel(<, Nat) <=> j < i
    BY DEF OpToRel
  <2>3. \E i \in RowsOf(m, u) : \A j \in RowsOf(m, u) : ~(j < i)
    BY <1>1, <2>1, <2>2, Zenon
  <2> QED  BY <1>1, <2>3
<1>3. /\ FirstRow(m, u) \in RowsOf(m, u)
      /\ \A j \in RowsOf(m, u) : FirstRow(m, u) <= j
  BY <1>2 DEF FirstRow
<1> QED  BY <1>3 DEF RowsOf

\* A new row of gNB g is a row of its matrix.
LEMMA NewRowType ==
    ASSUME NEW g \in Gnbs, NEW u \in UEs
    PROVE  NewRow(g, u) \in RowOf(g)
  BY DEF NewRow, RowOf, Stamp

\* Appending the row of a PHY association keeps the matrix well formed.
LEMMA AddLemma ==
    ASSUME NEW g \in Gnbs, NEW u \in UEs, NEW m \in Seq(RowOf(g)), NEW since,
           LaterUnset(m, g), Earned(m, g, since)
    PROVE  /\ Add(m, g, u) \in Seq(RowOf(g))
           /\ LaterUnset(Add(m, g, u), g)
           /\ Earned(Add(m, g, u), g, since)
<1> DEFINE a == Add(m, g, u)
<1>1. NewRow(g, u) \in RowOf(g)
  BY NewRowType
<1>2. /\ a \in Seq(RowOf(g)) /\ Len(a) = Len(m) + 1
      /\ \A i \in 1 .. Len(m) : a[i] = m[i]
      /\ a[Len(m) + 1] = NewRow(g, u)
  BY <1>1, AppendProperties DEF Add
<1>3. DOMAIN a = 1 .. Len(m) + 1 /\ DOMAIN m = 1 .. Len(m) /\ Len(m) \in Nat
  BY <1>2, LenProperties
<1>4. \A c \in Gnbs \ {g} : a[Len(m) + 1].TriggerTime[c] = TTT_NOT_SET
  BY <1>2 DEF NewRow
<1> HIDE DEF a
<1>5. LaterUnset(a, g)
  <2> SUFFICES ASSUME NEW i \in DOMAIN a, NEW j \in DOMAIN a,
                      j < i, a[j].ueID = a[i].ueID, NEW c \in Gnbs \ {g}
               PROVE  a[i].TriggerTime[c] = TTT_NOT_SET
    BY DEF LaterUnset
  <2>1. CASE i = Len(m) + 1
    BY <2>1, <1>4
  <2>2. CASE i \in 1 .. Len(m)
    BY <2>2, <1>2, <1>3 DEF LaterUnset
  <2> QED  BY <2>1, <2>2, <1>3
<1>6. Earned(a, g, since)
  <2> SUFFICES ASSUME NEW i \in DOMAIN a, NEW c \in Gnbs \ {g},
                      a[i].TriggerTime[c] # TTT_NOT_SET
               PROVE  /\ since[a[i].ueID][c] # TTT_NOT_SET
                      /\ since[a[i].ueID][c] <= a[i].TriggerTime[c]
    BY DEF Earned
  <2>1. i \in 1 .. Len(m)
    BY <1>3, <1>4
  <2> QED  BY <2>1, <1>2, <1>3 DEF Earned
<1> QED  BY <1>2, <1>5, <1>6 DEF a

\* Whatever rows Remove drops, those that stay keep their order and content.
LEMMA RemoveLemma ==
    ASSUME NEW g \in Gnbs, NEW u \in UEs, NEW m \in Seq(RowOf(g)), NEW since,
           LaterUnset(m, g), Earned(m, g, since)
    PROVE  /\ Remove(m, u) \in Seq(RowOf(g))
           /\ LaterUnset(Remove(m, u), g)
           /\ Earned(Remove(m, u), g, since)
<1>1. CASE RowsOf(m, u) = {}
  <2>1. Remove(m, u) = << >>
    BY <1>1 DEF Remove
  <2> QED  BY <2>1 DEF LaterUnset, Earned
<1>2. CASE RowsOf(m, u) # {}
  <2> DEFINE k == FirstRow(m, u)
             a == SubSeq(m, k + 1, Len(m))
  <2>1. k \in DOMAIN m /\ DOMAIN m = 1 .. Len(m) /\ Len(m) \in Nat
    BY <1>2, FirstRowIsFirst, LenProperties
  <2> HIDE DEF k
  <2>2. \A i \in k + 1 .. Len(m) : m[i] \in RowOf(g)
    BY <2>1, ElementOfSeq
  <2>3. /\ a \in Seq(RowOf(g))
        /\ Len(a) = Len(m) - k
        /\ \A i \in 1 .. Len(m) - k : a[i] = m[k + i]
    <3>1. /\ a \in Seq(RowOf(g))
          /\ Len(a) = IF k + 1 <= Len(m) THEN Len(m) - (k + 1) + 1 ELSE 0
          /\ \A i \in 1 .. Len(m) - (k + 1) + 1 : a[i] = m[k + 1 + i - 1]
      BY <2>1, <2>2, SubSeqProperties
    <3> QED  BY <3>1, <2>1
  <2>4. DOMAIN a = 1 .. Len(m) - k
    BY <2>3, LenProperties
  <2> HIDE DEF a
  <2>5. \A i \in DOMAIN a : k + i \in DOMAIN m /\ a[i] = m[k + i]
    BY <2>1, <2>3, <2>4
  <2>6. LaterUnset(a, g)
    <3> SUFFICES ASSUME NEW i \in DOMAIN a, NEW j \in DOMAIN a,
                        j < i, a[j].ueID = a[i].ueID
                 PROVE  \A c \in Gnbs \ {g} : a[i].TriggerTime[c] = TTT_NOT_SET
      BY DEF LaterUnset
    <3>1. k + j < k + i
      BY <2>1, <2>4
    <3> QED  BY <3>1, <2>5 DEF LaterUnset
  <2>7. Earned(a, g, since)
    BY <2>5 DEF Earned
  <2>8. Remove(m, u) = a
    BY <1>2 DEF Remove, a, k
  <2> QED  BY <2>3, <2>6, <2>7, <2>8
<1> QED  BY <1>1, <1>2

\* Storing the trigger times of a report in the UE's first row: what the
\* history sa of the report supports is earned, and later rows stay unset.
LEMMA SetLemma ==
    ASSUME NEW g \in Gnbs, NEW u \in UEs, NEW m \in Seq(RowOf(g)),
           NEW since \in [UEs -> [Gnbs -> Stamp]],
           LaterUnset(m, g), Earned(m, g, since),
           NEW tt \in [Gnbs \ {g} -> Stamp], NEW sa \in [Gnbs -> Stamp],
           \A c \in Gnbs \ {g} : tt[c] # TTT_NOT_SET =>
               sa[c] # TTT_NOT_SET /\ sa[c] <= tt[c]
    PROVE  /\ Set(m, u, tt) \in Seq(RowOf(g))
           /\ LaterUnset(Set(m, u, tt), g)
           /\ Earned(Set(m, u, tt), g, [since EXCEPT ![u] = sa])
<1>0. \A i \in DOMAIN m : m[i] \in RowOf(g) /\ i \in Nat
  BY LenProperties, ElementOfSeq
<1>1. CASE RowsOf(m, u) = {}
  <2>1. Set(m, u, tt) = m /\ \A i \in DOMAIN m : m[i].ueID # u
    BY <1>1 DEF Set, RowsOf
  <2>2. \A v \in UEs : v # u => [since EXCEPT ![u] = sa][v] = since[v]
    OBVIOUS
  <2>3. Earned(m, g, [since EXCEPT ![u] = sa])
    BY <1>0, <2>1, <2>2 DEF Earned, RowOf
  <2> QED  BY <2>1, <2>3
<1>2. CASE RowsOf(m, u) # {}
  <2> DEFINE k == FirstRow(m, u)
             a == [m EXCEPT ![k].TriggerTime = tt]
             sn == [since EXCEPT ![u] = sa]
  <2>1. k \in DOMAIN m /\ m[k].ueID = u /\ \A j \in RowsOf(m, u) : k <= j
    BY <1>2, FirstRowIsFirst
  <2> HIDE DEF k
  <2>2. /\ DOMAIN a = DOMAIN m
        /\ a[k].ueID = u /\ a[k].TriggerTime = tt /\ a[k] \in RowOf(g)
        /\ \A i \in DOMAIN m \ {k} : a[i] = m[i]
    BY <1>0, <2>1 DEF RowOf
  <2>3. a \in Seq(RowOf(g))
    <3>1. a = [m EXCEPT ![k] = a[k]]
      BY <2>1, <2>2
    <3> QED  BY <2>1, <2>2, <3>1, ExceptSeq, LenProperties
  <2> HIDE DEF a
  <2>4. LaterUnset(a, g)
    <3> SUFFICES ASSUME NEW i \in DOMAIN a, NEW j \in DOMAIN a,
                        j < i, a[j].ueID = a[i].ueID
                 PROVE  \A c \in Gnbs \ {g} : a[i].TriggerTime[c] = TTT_NOT_SET
      BY DEF LaterUnset
    <3>1. m[j].ueID = m[i].ueID
      BY <2>1, <2>2
    <3>2. CASE i = k
      <4>1. j \in RowsOf(m, u)
        BY <2>1, <2>2, <3>1, <3>2 DEF RowsOf
      <4> QED  BY <1>0, <2>1, <2>2, <3>2, <4>1
    <3>3. CASE i # k
      BY <2>2, <3>1, <3>3 DEF LaterUnset
    <3> QED  BY <3>2, <3>3
  <2>5. Earned(a, g, sn)
    <3> SUFFICES ASSUME NEW i \in DOMAIN a, NEW c \in Gnbs \ {g},
                        a[i].TriggerTime[c] # TTT_NOT_SET
                 PROVE  /\ sn[a[i].ueID][c] # TTT_NOT_SET
                        /\ sn[a[i].ueID][c] <= a[i].TriggerTime[c]
      BY DEF Earned
    <3>1. CASE i = k
      BY <2>2, <3>1
    <3>2. CASE i # k
      <4>1. a[i] = m[i] /\ i \in DOMAIN m /\ m[i].ueID \in UEs
        BY <1>0, <2>2, <3>2 DEF RowOf
      <4>2. m[i].ueID # u
        <5> SUFFICES ASSUME m[i].ueID = u PROVE FALSE
          OBVIOUS
        <5>1. k < i
          BY <1>0, <2>1, <3>2, <4>1 DEF RowsOf
        <5> QED  BY <2>1, <4>1, <5>1 DEF LaterUnset
      <4>3. sn[m[i].ueID] = since[m[i].ueID]
        BY <4>1, <4>2
      <4> QED  BY <4>1, <4>3 DEF Earned
    <3> QED  BY <3>1, <3>2
  <2>6. Set(m, u, tt) = a
    BY <1>2 DEF Set, a, k
  <2> QED  BY <2>3, <2>4, <2>5, <2>6
<1> QED  BY <1>1, <1>2

----------------------------------------------------------------------------
EvType == ev \in [Kinds -> [UEs -> 0 .. MaxEvents]]

\* The event list after an event is added, taken or passed on along the chain.
LEMMA AddEventLemma ==
    ASSUME EvType, NEW k \in Kinds, NEW u \in UEs, ev[k][u] < MaxEvents,
           AddEvent(k, u)
    PROVE  /\ EvType'
           /\ \A l \in Kinds, v \in UEs :
                 ev'[l][v] = IF l = k /\ v = u THEN ev[l][v] + 1 ELSE ev[l][v]
  BY GnbRrcAssumption DEF EvType, AddEvent

LEMMA TakeEventLemma ==
    ASSUME EvType, NEW k \in Kinds, NEW u \in UEs, ev[k][u] > 0,
           TakeEvent(k, u)
    PROVE  /\ EvType'
           /\ \A l \in Kinds, v \in UEs :
                 ev'[l][v] = IF l = k /\ v = u THEN ev[l][v] - 1 ELSE ev[l][v]
  BY GnbRrcAssumption DEF EvType, TakeEvent

LEMMA PassLemma ==
    ASSUME EvType, NEW k \in Kinds, NEW l \in Kinds, k # l, NEW u \in UEs,
           ev[k][u] > 0, ev[l][u] < MaxEvents, Pass(k, l, u)
    PROVE  /\ EvType'
           /\ \A n \in Kinds, v \in UEs :
                 ev'[n][v] = IF v # u THEN ev[n][v]
                             ELSE IF n = k THEN ev[n][v] - 1
                             ELSE IF n = l THEN ev[n][v] + 1 ELSE ev[n][v]
<1>1. ev' = [ev EXCEPT ![k] = [ev[k] EXCEPT ![u] = @ - 1],
                       ![l] = [ev[l] EXCEPT ![u] = @ + 1]]
  BY DEF Pass, EvType
<1> DEFINE a == [ev[k] EXCEPT ![u] = @ - 1]
           b == [ev[l] EXCEPT ![u] = @ + 1]
<1>2. /\ a \in [UEs -> 0 .. MaxEvents]
      /\ \A v \in UEs : a[v] = IF v = u THEN ev[k][v] - 1 ELSE ev[k][v]
  BY GnbRrcAssumption DEF EvType
<1>3. /\ b \in [UEs -> 0 .. MaxEvents]
      /\ \A v \in UEs : b[v] = IF v = u THEN ev[l][v] + 1 ELSE ev[l][v]
  BY GnbRrcAssumption DEF EvType
<1> HIDE DEF a, b
<1>4. ev' = [ev EXCEPT ![k] = a, ![l] = b]
  BY <1>1 DEF a, b
<1>5. EvType'
  BY <1>2, <1>3, <1>4 DEF EvType
<1>6. \A n \in Kinds : ev'[n] = IF n = k THEN a ELSE IF n = l THEN b ELSE ev[n]
  BY <1>4 DEF EvType
<1> QED  BY <1>2, <1>3, <1>5, <1>6

\* The initial states satisfy the inductive invariant.
LEMMA InitIInv == Init => IInv
<1> SUFFICES ASSUME Init PROVE IInv
  OBVIOUS
<1>1. TypeOK
  BY GnbRrcAssumption DEF Init, TypeOK, Time, Stamp
<1>2. Chained
  BY GnbRrcAssumption DEF Init, Chained, Kinds
<1>3. LaterRowsUnset /\ TriggersEarned
  BY DEF Init, LaterRowsUnset, LaterUnset, TriggersEarned, Earned
<1>4. NotFuture
  BY DEF Init, NotFuture, TTT_NOT_SET
<1> QED  BY <1>1, <1>2, <1>3, <1>4 DEF IInv

\* Steps that touch neither the matrix nor the history keep what ties them.
LEMMA KeepMatrix ==
    ASSUME IInv, UNCHANGED <<matrix, betterSince>>, now <= now'
    PROVE  LaterRowsUnset' /\ TriggersEarned' /\ (now' \in Nat => NotFuture')
<1>1. LaterRowsUnset' /\ TriggersEarned'
  BY DEF IInv, LaterRowsUnset, TriggersEarned
<1>2. ASSUME now' \in Nat PROVE NotFuture'
  <2>1. now \in Int /\ betterSince \in [Gnbs -> [UEs -> [Gnbs -> Int]]]
    BY GnbRrcAssumption DEF IInv, TypeOK, Time, Stamp, TTT_NOT_SET
  <2> QED  BY <1>2, <2>1 DEF IInv, NotFuture
<1> QED  BY <1>1, <1>2

\* A report of UE u (fn_NetSim_LTENR_RRC_UE_MEASUREMENT_RECV).
LEMMA ReportStep ==
    ASSUME IInv, NEW u \in UEs, UE_MEASUREMENT_RECV(u)
    PROVE  IInv'
<1> DEFINE r == Head(reports[u])
           g == r.gnb
           tt == TriggersAfter(g, u, r.better)
           sa == BetterAfter(g, u, r.better)
<1>1. /\ now \in Time /\ now \in Nat
      /\ matrix[g] \in Seq(RowOf(g)) /\ DOMAIN matrix = Gnbs
      /\ betterSince \in [Gnbs -> [UEs -> [Gnbs -> Stamp]]]
      /\ r \in Report /\ g \in Gnbs
      /\ reports[u] \in Seq(Report) /\ reports[u] # << >>
  <2>1. reports[u] \in Seq(Report) /\ reports[u] # << >>
    BY DEF IInv, TypeOK, UE_MEASUREMENT_RECV
  <2>2. r \in Report
    BY <2>1, HeadTailProperties
  <2> QED  BY <2>1, <2>2 DEF IInv, TypeOK, Report, Time
<1>2. /\ matrix' = [matrix EXCEPT ![g] = Set(matrix[g], u, tt)]
      /\ betterSince' = [betterSince EXCEPT ![g][u] = sa]
      /\ hoRequests' = hoRequests
      /\ reports' = [reports EXCEPT ![u] = Tail(reports[u])]
      /\ UNCHANGED <<now, ueRRCState, mib, SelectedCellID, rlcEntities, ev, reportLoops>>
  BY DEF UE_MEASUREMENT_RECV, HandoverTarget
<1>3. \A c \in Gnbs \ {g} : Find(matrix[g], u, c) \in Stamp
  <2> SUFFICES ASSUME NEW c \in Gnbs \ {g} PROVE Find(matrix[g], u, c) \in Stamp
    OBVIOUS
  <2>1. CASE RowsOf(matrix[g], u) = {}
    BY <2>1 DEF Find, Stamp
  <2>2. CASE RowsOf(matrix[g], u) # {}
    <3>1. FirstRow(matrix[g], u) \in DOMAIN matrix[g]
      BY <1>1, <2>2, FirstRowIsFirst
    <3>2. matrix[g][FirstRow(matrix[g], u)] \in RowOf(g)
      BY <1>1, <3>1, ElementOfSeq, LenProperties
    <3> QED  BY <2>2, <3>2 DEF Find, RowOf
  <2> QED  BY <2>1, <2>2
<1>4. tt \in [Gnbs \ {g} -> Stamp]
  BY <1>1, <1>3 DEF TriggersAfter, Stamp
<1>5. sa \in [Gnbs -> Stamp] /\ \A c \in Gnbs : sa[c] <= now
  <2>1. sa \in [Gnbs -> Stamp]
    BY <1>1 DEF BetterAfter, Stamp
  <2>2. \A c \in Gnbs : sa[c] <= now
    BY <1>1 DEF BetterAfter, IInv, NotFuture, TTT_NOT_SET
  <2> QED  BY <2>1, <2>2
<1>6. \A c \in Gnbs \ {g} : tt[c] # TTT_NOT_SET =>
          sa[c] # TTT_NOT_SET /\ sa[c] <= tt[c]
  <2> SUFFICES ASSUME NEW c \in Gnbs \ {g}, tt[c] # TTT_NOT_SET
               PROVE  sa[c] # TTT_NOT_SET /\ sa[c] <= tt[c]
    OBVIOUS
  <2> DEFINE t == Find(matrix[g], u, c)
             b == betterSince[g][u][c]
  <2>1. c \in r.better
    BY DEF TriggersAfter
  <2>2. sa[c] = IF b = TTT_NOT_SET THEN now ELSE b
    BY <2>1 DEF BetterAfter
  <2>3. CASE t = TTT_NOT_SET
    <3>1. tt[c] = now
      BY <2>1, <2>3 DEF TriggersAfter
    <3>2. b \in Stamp /\ b <= now
      BY <1>1 DEF IInv, NotFuture
    <3> QED  BY <2>2, <3>1, <3>2, <1>1 DEF TTT_NOT_SET, Stamp, Time
  <2>4. CASE t # TTT_NOT_SET
    <3>1. tt[c] = t
      BY <2>1, <2>4 DEF TriggersAfter
    <3>2. b # TTT_NOT_SET /\ b <= t
      <4>1. RowsOf(matrix[g], u) # {}
        BY <2>4 DEF Find
      <4>2. /\ FirstRow(matrix[g], u) \in DOMAIN matrix[g]
            /\ matrix[g][FirstRow(matrix[g], u)].ueID = u
        BY <1>1, <4>1, FirstRowIsFirst
      <4>3. t = matrix[g][FirstRow(matrix[g], u)].TriggerTime[c]
        BY <4>1 DEF Find
      <4>4. Earned(matrix[g], g, betterSince[g])
        BY <1>1 DEF IInv, TriggersEarned
      <4> HIDE DEF g, r
      <4> QED  BY <2>4, <4>2, <4>3, <4>4 DEF Earned
    <3> QED  BY <2>2, <3>1, <3>2
  <2> QED  BY <2>3, <2>4
<1> DEFINE m == Set(matrix[g], u, tt)
           sn == [betterSince[g] EXCEPT ![u] = sa]
<1> HIDE DEF tt, sa, g, r
<1>7. /\ m \in Seq(RowOf(g))
      /\ LaterUnset(m, g)
      /\ Earned(m, g, sn)
  <2>1. LaterUnset(matrix[g], g) /\ Earned(matrix[g], g, betterSince[g])
    BY <1>1 DEF IInv, LaterRowsUnset, TriggersEarned
  <2> QED  BY <1>1, <1>4, <1>5, <1>6, <2>1, SetLemma
<1> HIDE DEF m
<1>8. /\ matrix' = [matrix EXCEPT ![g] = m]
      /\ betterSince' = [betterSince EXCEPT ![g] = sn]
      /\ sn \in [UEs -> [Gnbs -> Stamp]]
  BY <1>1, <1>2, <1>5 DEF m
<1>9. TypeOK'
  <2>1. DOMAIN matrix' = Gnbs /\ \A h \in Gnbs : matrix'[h] \in Seq(RowOf(h))
    BY <1>1, <1>7, <1>8 DEF IInv, TypeOK
  <2>2. reports' \in [UEs -> Seq(Report)]
    BY <1>1, <1>2, HeadTailProperties DEF IInv, TypeOK
  <2>3. betterSince' \in [Gnbs -> [UEs -> [Gnbs -> Stamp]]]
    BY <1>1, <1>8
  <2> QED  BY <1>2, <2>1, <2>2, <2>3 DEF IInv, TypeOK
<1>10. Chained'
  BY <1>2 DEF IInv, Chained
<1>11. LaterRowsUnset' /\ TriggersEarned'
  BY <1>1, <1>7, <1>8 DEF IInv, LaterRowsUnset, TriggersEarned
<1>12. NotFuture'
  <2> SUFFICES ASSUME NEW h \in Gnbs, NEW v \in UEs, NEW c \in Gnbs
               PROVE  betterSince'[h][v][c] <= now
    BY <1>2 DEF NotFuture
  <2>1. CASE h = g /\ v = u
    BY <1>1, <1>5, <1>8, <2>1
  <2>2. CASE ~(h = g /\ v = u)
    BY <1>1, <1>8, <2>2 DEF IInv, NotFuture
  <2> QED  BY <2>1, <2>2
<1> QED  BY <1>9, <1>10, <1>11, <1>12 DEF IInv

\* Every step of the specification preserves the inductive invariant.
LEMMA NextIInv == IInv /\ [Next]_vars => IInv'
<1> SUFFICES ASSUME IInv, [Next]_vars PROVE IInv'
  OBVIOUS
<1>0. /\ TypeOK /\ Chained /\ LaterRowsUnset /\ TriggersEarned /\ NotFuture
      /\ EvType
  BY DEF IInv, TypeOK, EvType
<1> USE GnbRrcAssumption
<1>1. CASE Tick
  <2>1. now' \in Time /\ now' \in Nat /\ now <= now'
    BY <1>0, <1>1 DEF Tick, TypeOK, Time
  <2>2. TypeOK' /\ Chained'
    BY <1>0, <1>1, <2>1 DEF Tick, TypeOK, Chained
  <2>3. UNCHANGED <<matrix, betterSince>>
    BY <1>1 DEF Tick
  <2> QED  BY <2>1, <2>2, <2>3, KeepMatrix DEF IInv
<1>2. ASSUME NEW u \in UEs, MIB_RECV(u) PROVE IInv'
  <2>1. TypeOK' /\ Chained'
    BY <1>0, <1>2 DEF MIB_RECV, TypeOK, Chained
  <2>2. UNCHANGED <<matrix, betterSince, now>> /\ now \in Nat
    BY <1>0, <1>2 DEF MIB_RECV, TypeOK, Time
  <2> QED  BY <2>1, <2>2, KeepMatrix DEF IInv
<1>3. ASSUME NEW u \in UEs, NEW g \in Gnbs, SIB1_RECV(u, g) PROVE IInv'
  <2>1. /\ EvType'
        /\ \A l \in Kinds, v \in UEs : l # "GENERATE_SI" => ev'[l][v] = ev[l][v]
    BY <1>0, <1>3, AddEventLemma DEF SIB1_RECV, EvaluateCellForSelection, Room, Kinds
  <2>2. TypeOK'
    BY <1>0, <1>3, <2>1 DEF SIB1_RECV, EvaluateCellForSelection, TypeOK, EvType
  <2>3. Chained'
    BY <1>0, <2>1 DEF Chained, Kinds
  <2>4. UNCHANGED <<matrix, betterSince, now>> /\ now \in Nat
    BY <1>0, <1>3 DEF SIB1_RECV, EvaluateCellForSelection, TypeOK, Time
  <2> QED  BY <2>2, <2>3, <2>4, KeepMatrix DEF IInv
<1>4. ASSUME NEW u \in UEs, GENERATE_SI(u) PROVE IInv'
  <2> DEFINE g == Association[u]
  <2>1. /\ EvType'
        /\ \A l \in Kinds, v \in UEs : l \notin {"GENERATE_SI", "SI"} => ev'[l][v] = ev[l][v]
    <3>1. Pass("GENERATE_SI", "SI", u) /\ ev["GENERATE_SI"][u] > 0 /\ ev["SI"][u] < MaxEvents
      BY <1>4 DEF GENERATE_SI, Room
    <3>2. "GENERATE_SI" \in Kinds /\ "SI" \in Kinds /\ "GENERATE_SI" # "SI"
      BY DEF Kinds
    <3> QED  BY <1>0, <3>1, <3>2, PassLemma
  <2>2. g \in Gnbs
    OBVIOUS
  <2>3. /\ Add(matrix[g], g, u) \in Seq(RowOf(g))
        /\ LaterUnset(Add(matrix[g], g, u), g)
        /\ Earned(Add(matrix[g], g, u), g, betterSince[g])
    BY <1>0, <2>2, AddLemma DEF TypeOK, LaterRowsUnset, TriggersEarned
  <2>4. /\ matrix' = [matrix EXCEPT ![g] = Add(matrix[g], g, u)]
        /\ rlcEntities' = [rlcEntities EXCEPT ![u] = TRUE]
        /\ UNCHANGED <<now, ueRRCState, mib, SelectedCellID, reports, reportLoops,
                       hoRequests, betterSince>>
    BY <1>4 DEF GENERATE_SI
  <2> HIDE DEF g
  <2>5. TypeOK'
    BY <1>0, <2>1, <2>2, <2>3, <2>4 DEF TypeOK, EvType
  <2>6. Chained'
    BY <1>0, <2>1 DEF Chained, Kinds
  <2>7. LaterRowsUnset' /\ TriggersEarned' /\ NotFuture'
    BY <1>0, <2>2, <2>3, <2>4 DEF TypeOK, LaterRowsUnset, TriggersEarned, NotFuture
  <2> QED  BY <2>5, <2>6, <2>7 DEF IInv
<1>5. ASSUME NEW u \in UEs, SI_RECV(u) PROVE IInv'
  <2>1. /\ EvType'
        /\ \A l \in Kinds, v \in UEs : l # "SI" => ev'[l][v] = ev[l][v]
    BY <1>0, <1>5, TakeEventLemma DEF SI_RECV, Kinds
  <2>2. TypeOK'
    BY <1>0, <1>5, <2>1 DEF SI_RECV, TypeOK, EvType
  <2>3. Chained'
    BY <1>0, <2>1 DEF Chained, Kinds
  <2>4. UNCHANGED <<matrix, betterSince, now>> /\ now \in Nat
    BY <1>0, <1>5 DEF SI_RECV, TypeOK, Time
  <2> QED  BY <2>2, <2>3, <2>4, KeepMatrix DEF IInv
<1>6. ASSUME NEW u \in UEs, Connection_Request(u) PROVE IInv'
  <2>0. ev["CONN_REQUEST"][u] < MaxEvents
    BY <1>0, <1>6 DEF Connection_Request, EvType, Kinds
  <2>1. /\ EvType'
        /\ \A l \in Kinds, v \in UEs :
              ev'[l][v] = IF l = "CONN_REQUEST" /\ v = u THEN ev[l][v] + 1 ELSE ev[l][v]
    BY <1>0, <1>6, <2>0, AddEventLemma DEF Connection_Request, Kinds
  <2>2. TypeOK'
    BY <1>0, <1>6, <2>1 DEF Connection_Request, TypeOK, EvType
  <2>3. Chained'
    BY <1>0, <1>6, <2>1 DEF Connection_Request, Chained, Kinds, EvType
  <2>4. UNCHANGED <<matrix, betterSince, now>> /\ now \in Nat
    BY <1>0, <1>6 DEF Connection_Request, TypeOK, Time
  <2> QED  BY <2>2, <2>3, <2>4, KeepMatrix DEF IInv
<1>7. ASSUME NEW u \in UEs, GENERATE_RRC_CONN_REQUEST(u) PROVE IInv'
  <2>0. ev["CONN_REQUEST"][u] > 0 /\ ev["SETUP_REQUEST"][u] < MaxEvents
    BY <1>0, <1>7 DEF GENERATE_RRC_CONN_REQUEST, EvType, Kinds, Chained
  <2>1. EvType' /\ Chained'
    <3>1. CASE ~(ueRRCState[u] # "CONNECTED" /\ CanSend(u))
      <4>1. TakeEvent("CONN_REQUEST", u)
        BY <1>7, <3>1 DEF GENERATE_RRC_CONN_REQUEST
      <4>2. /\ EvType'
            /\ \A l \in Kinds, v \in UEs : ev'[l][v] =
                  IF l = "CONN_REQUEST" /\ v = u THEN ev[l][v] - 1 ELSE ev[l][v]
        BY <1>0, <2>0, <4>1, TakeEventLemma DEF Kinds
      <4> QED  BY <1>0, <4>2 DEF Chained, Kinds, EvType
    <3>2. CASE ueRRCState[u] # "CONNECTED" /\ CanSend(u)
      <4>1. Pass("CONN_REQUEST", "SETUP_REQUEST", u)
        BY <1>7, <3>2 DEF GENERATE_RRC_CONN_REQUEST
      <4>2. /\ EvType'
            /\ \A n \in Kinds, v \in UEs : ev'[n][v] =
                  IF v # u THEN ev[n][v]
                  ELSE IF n = "CONN_REQUEST" THEN ev[n][v] - 1
                  ELSE IF n = "SETUP_REQUEST" THEN ev[n][v] + 1 ELSE ev[n][v]
        BY <1>0, <2>0, <4>1, PassLemma DEF Kinds
      <4> QED  BY <1>0, <4>2 DEF Chained, Kinds, EvType
    <3> QED  BY <3>1, <3>2
  <2>2. TypeOK'
    BY <1>0, <1>7, <2>1 DEF GENERATE_RRC_CONN_REQUEST, TypeOK, EvType
  <2>3. UNCHANGED <<matrix, betterSince, now>> /\ now \in Nat
    BY <1>0, <1>7 DEF GENERATE_RRC_CONN_REQUEST, TypeOK, Time
  <2> QED  BY <2>1, <2>2, <2>3, KeepMatrix DEF IInv
<1>8. ASSUME NEW u \in UEs, SETUP_REQUEST_RECV(u) PROVE IInv'
  <2>0. ev["SETUP_REQUEST"][u] > 0 /\ ev["GENERATE_SETUP"][u] < MaxEvents
    BY <1>0, <1>8 DEF SETUP_REQUEST_RECV, EvType, Kinds, Chained
  <2>1. EvType' /\ Chained'
    <3>1. CASE TakeEvent("SETUP_REQUEST", u)
      <4>1. /\ EvType'
            /\ \A l \in Kinds, v \in UEs : ev'[l][v] =
                  IF l = "SETUP_REQUEST" /\ v = u THEN ev[l][v] - 1 ELSE ev[l][v]
        BY <1>0, <2>0, <3>1, TakeEventLemma DEF Kinds
      <4> QED  BY <1>0, <4>1 DEF Chained, Kinds, EvType
    <3>2. CASE Pass("SETUP_REQUEST", "GENERATE_SETUP", u)
      <4>1. /\ EvType'
            /\ \A n \in Kinds, v \in UEs : ev'[n][v] =
                  IF v # u THEN ev[n][v]
                  ELSE IF n = "SETUP_REQUEST" THEN ev[n][v] - 1
                  ELSE IF n = "GENERATE_SETUP" THEN ev[n][v] + 1 ELSE ev[n][v]
        BY <1>0, <2>0, <3>2, PassLemma DEF Kinds
      <4> QED  BY <1>0, <4>1 DEF Chained, Kinds, EvType
    <3> QED  BY <1>8, <3>1, <3>2 DEF SETUP_REQUEST_RECV
  <2>2. TypeOK'
    BY <1>0, <1>8, <2>1 DEF SETUP_REQUEST_RECV, TypeOK, EvType
  <2>3. UNCHANGED <<matrix, betterSince, now>> /\ now \in Nat
    BY <1>0, <1>8 DEF SETUP_REQUEST_RECV, TypeOK, Time
  <2> QED  BY <2>1, <2>2, <2>3, KeepMatrix DEF IInv
<1>9. ASSUME NEW u \in UEs, GENERATE_RRCSETUP(u) PROVE IInv'
  <2> DEFINE g == Association[u]
             m == Add(Remove(matrix[g], u), g, u)
  <2>1. ev["GENERATE_SETUP"][u] > 0 /\ ev["SETUP"][u] < MaxEvents
    BY <1>0, <1>9 DEF GENERATE_RRCSETUP, EvType, Kinds, Chained
  <2>2. /\ EvType'
        /\ \A n \in Kinds, v \in UEs : ev'[n][v] =
              IF v # u THEN ev[n][v]
              ELSE IF n = "GENERATE_SETUP" THEN ev[n][v] - 1
              ELSE IF n = "SETUP" THEN ev[n][v] + 1 ELSE ev[n][v]
    <3>1. Pass("GENERATE_SETUP", "SETUP", u) /\ ev["GENERATE_SETUP"][u] > 0 /\ ev["SETUP"][u] < MaxEvents
      BY <1>9, <2>1 DEF GENERATE_RRCSETUP
    <3>2. "GENERATE_SETUP" \in Kinds /\ "SETUP" \in Kinds /\ "GENERATE_SETUP" # "SETUP"
      BY DEF Kinds
    <3> QED  BY <1>0, <3>1, <3>2, PassLemma
  <2>3. g \in Gnbs
    OBVIOUS
  <2>4. /\ Remove(matrix[g], u) \in Seq(RowOf(g))
        /\ LaterUnset(Remove(matrix[g], u), g)
        /\ Earned(Remove(matrix[g], u), g, betterSince[g])
    BY <1>0, <2>3, RemoveLemma DEF TypeOK, LaterRowsUnset, TriggersEarned
  <2>5. m \in Seq(RowOf(g)) /\ LaterUnset(m, g) /\ Earned(m, g, betterSince[g])
    BY <2>3, <2>4, AddLemma
  <2>6. /\ matrix' = [matrix EXCEPT ![g] = m]
        /\ UNCHANGED <<now, ueRRCState, mib, SelectedCellID, rlcEntities, reports,
                       reportLoops, hoRequests, betterSince>>
    BY <1>9 DEF GENERATE_RRCSETUP
  <2> HIDE DEF g, m
  <2>7. TypeOK'
    BY <1>0, <2>2, <2>3, <2>5, <2>6 DEF TypeOK, EvType
  <2>8. Chained'
    BY <1>0, <2>2 DEF Chained, Kinds, EvType
  <2>9. LaterRowsUnset' /\ TriggersEarned' /\ NotFuture'
    BY <1>0, <2>3, <2>5, <2>6 DEF TypeOK, LaterRowsUnset, TriggersEarned, NotFuture
  <2> QED  BY <2>7, <2>8, <2>9 DEF IInv
<1>10. ASSUME NEW u \in UEs, SETUP_RECV(u) PROVE IInv'
  <2>1. /\ EvType'
        /\ \A n \in Kinds, v \in UEs : ev'[n][v] =
              IF v # u THEN ev[n][v]
              ELSE IF n = "SETUP" THEN ev[n][v] - 1
              ELSE IF n = "SETUP_COMPLETE" THEN ev[n][v] + 1 ELSE ev[n][v]
    <3>1. Pass("SETUP", "SETUP_COMPLETE", u) /\ ev["SETUP"][u] > 0 /\ ev["SETUP_COMPLETE"][u] < MaxEvents
      BY <1>10 DEF SETUP_RECV, Room
    <3>2. "SETUP" \in Kinds /\ "SETUP_COMPLETE" \in Kinds /\ "SETUP" # "SETUP_COMPLETE"
      BY DEF Kinds
    <3> QED  BY <1>0, <3>1, <3>2, PassLemma
  <2>2. TypeOK'
    BY <1>0, <1>10, <2>1 DEF SETUP_RECV, TypeOK, EvType
  <2>3. Chained'
    BY <1>0, <2>1 DEF Chained, Kinds, EvType
  <2>4. UNCHANGED <<matrix, betterSince, now>> /\ now \in Nat
    BY <1>0, <1>10 DEF SETUP_RECV, TypeOK, Time
  <2> QED  BY <2>2, <2>3, <2>4, KeepMatrix DEF IInv
<1>11. ASSUME NEW u \in UEs, RRCSETUPCOMPLETE_RECV(u) PROVE IInv'
  <2>1. /\ EvType'
        /\ \A l \in Kinds, v \in UEs : l # "SETUP_COMPLETE" => ev'[l][v] = ev[l][v]
    BY <1>0, <1>11, TakeEventLemma DEF RRCSETUPCOMPLETE_RECV, Kinds
  <2>2. TypeOK'
    BY <1>0, <1>11, <2>1 DEF RRCSETUPCOMPLETE_RECV, TypeOK, EvType
  <2>3. Chained'
    BY <1>0, <2>1 DEF Chained, Kinds
  <2>4. UNCHANGED <<matrix, betterSince, now>> /\ now \in Nat
    BY <1>0, <1>11 DEF RRCSETUPCOMPLETE_RECV, TypeOK, Time
  <2> QED  BY <2>2, <2>3, <2>4, KeepMatrix DEF IInv
<1>12. ASSUME NEW u \in UEs, NEW g \in Gnbs, NEW better \in SUBSET Gnbs,
              Measurement_Report(u, g, better)
       PROVE  IInv'
  <2>1. [gnb |-> g, better |-> better] \in Report
    BY DEF Report
  <2>2. reports' \in [UEs -> Seq(Report)]
    BY <1>0, <1>12, <2>1, AppendProperties DEF Measurement_Report, TypeOK
  <2>3. TypeOK' /\ Chained'
    BY <1>0, <1>12, <2>2 DEF Measurement_Report, TypeOK, Chained
  <2>4. UNCHANGED <<matrix, betterSince, now>> /\ now \in Nat
    BY <1>0, <1>12 DEF Measurement_Report, TypeOK, Time
  <2> QED  BY <2>3, <2>4, KeepMatrix DEF IInv
<1>13. ASSUME NEW u \in UEs, UE_MEASUREMENT_RECV(u) PROVE IInv'
  BY <1>13, ReportStep
<1>14. CASE UNCHANGED vars
  BY <1>0, <1>14 DEF vars, IInv, TypeOK, Chained, LaterRowsUnset, TriggersEarned, NotFuture
<1> QED
  BY <1>1, <1>2, <1>3, <1>4, <1>5, <1>6, <1>7, <1>8, <1>9, <1>10, <1>11, <1>12,
     <1>13, <1>14 DEF Next

----------------------------------------------------------------------------
LEMMA Inductive == Spec => []IInv
  BY InitIInv, NextIInv, PTL DEF Spec

\* Type correctness: no chain of setup events, reports and matrix operations
\* leaves the types, for any number of gNBs and UEs.
THEOREM TypeCorrect == Spec => []TypeOK
<1>1. IInv => TypeOK
  BY DEF IInv
<1> QED  BY <1>1, Inductive, PTL

\* Repeated PHY associations append rows that stay unset while an earlier row
\* of the UE exists (fn_NetSim_LTENR_Conditional_HO_TTT_Matrix_Set).
THEOREM OnlyFirstRowSet == Spec => []LaterRowsUnset
<1>1. IInv => LaterRowsUnset
  BY DEF IInv
<1> QED  BY <1>1, Inductive, PTL

\* Time to trigger is honoured: a neighbour whose time to trigger the gNB
\* regards as elapsed was better in every report over at least the last TTT
\* (fn_NetSim_LTENR_RRC_UE_MEASUREMENT_RECV).
THEOREM TimeToTriggerHonoured == Spec => []ElapsedIsEarned
<1>1. ASSUME IInv PROVE ElapsedIsEarned
  <2> SUFFICES ASSUME TTT > 0, NEW u \in UEs, reports[u] # << >>,
                      NEW c \in Elapsed(Head(reports[u]).gnb, u, Head(reports[u]).better)
               PROVE  /\ betterSince[Head(reports[u]).gnb][u][c] # TTT_NOT_SET
                      /\ now - betterSince[Head(reports[u]).gnb][u][c] >= TTT
    BY DEF ElapsedIsEarned
  <2> DEFINE r == Head(reports[u])
             g == r.gnb
             m == matrix[g]
             t == Find(m, u, c)
             b == betterSince[g][u][c]
  <2>1. r \in Report
    BY <1>1, HeadTailProperties DEF IInv, TypeOK
  <2>2. /\ g \in Gnbs /\ c \in Gnbs \ {g} /\ t # TTT_NOT_SET /\ now - t >= TTT
    BY <2>1 DEF Elapsed, Report
  <2>3. m \in Seq(RowOf(g)) /\ now \in Int /\ b \in Int /\ Earned(m, g, betterSince[g])
    BY <1>1, <2>2, GnbRrcAssumption
       DEF IInv, TypeOK, TriggersEarned, Time, Stamp, TTT_NOT_SET
  <2>4. RowsOf(m, u) # {}
    BY <2>2 DEF Find
  <2>5. FirstRow(m, u) \in DOMAIN m /\ m[FirstRow(m, u)].ueID = u
    BY <2>3, <2>4, FirstRowIsFirst
  <2>6. t = m[FirstRow(m, u)].TriggerTime[c] /\ m[FirstRow(m, u)] \in RowOf(g)
    BY <2>3, <2>4, <2>5, ElementOfSeq, LenProperties DEF Find
  <2>7. t \in Int
    <3> HIDE DEF m, t, g
    <3>1. t \in Stamp
      BY <2>2, <2>6 DEF RowOf
    <3> QED  BY <3>1, GnbRrcAssumption DEF Stamp, Time, TTT_NOT_SET
  <2>8. b # TTT_NOT_SET /\ b <= t
    <3> HIDE DEF m, t, g
    <3> QED  BY <2>2, <2>3, <2>5, <2>6 DEF Earned
  <2> HIDE DEF b, t
  <2>9. now - b >= TTT
    BY <2>2, <2>3, <2>7, <2>8, GnbRrcAssumption
  <2> QED  BY <2>8, <2>9 DEF b
<1> QED  BY <1>1, Inductive, PTL
=============================================================================
