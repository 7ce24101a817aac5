------------------------- MODULE SnHandover_proofs -------------------------
(***************************************************************************)
(* Proofs about SnHandover, for any number of secondary nodes, UEs and     *)
(* reports: type correctness; that master and radio agree on the secondary *)
(* node; that a switch leaves nothing behind; and that only overlapping    *)
(* handovers of a UE reach the null pointer.                               *)
(***************************************************************************)
EXTENDS SnHandover, SequenceTheorems, TLAPS

\* Message m belongs to a handover of u whose switch is still to come, or is
\* the addition of u.
IsPending(m, u) ==
    /\ m.ue = u
    /\ m.type \in {"HO_ADDITION_REQUEST", "HO_ADDITION_ACK", "HO_RELEASE_REQUEST"}
IsAddition(m, u) == m.ue = u /\ m.type = "ADDITION"

(***************************************************************************)
(* The inductive invariant.  Located: a release request is on its way to   *)
(* the old node of its header, an addition to the node MN records.         *)
(* AdditionFirst: while an addition of u is on its way no node has u       *)
(* associated, all handovers of u leave the same node, and on the wire to  *)
(* it their release requests are behind the addition (the wire is in       *)
(* order); so a release request never meets a node that has not yet heard  *)
(* of u.  OneAtATime: a UE that never had two handovers at once has at     *)
(* most one message of a handover before its switch, which names the node  *)
(* MN records.  OneRow: a UE has one row at most in a matrix, so Remove    *)
(* takes all of its rows.                                                  *)
(***************************************************************************)
Located ==
    \A s \in SNs, u \in UEs :
        /\ \A i \in DOMAIN down[s] :
              /\ IsAddition(down[s][i], u) => SNID[u] = s
              /\ IsPending(down[s][i], u) =>
                    /\ SNID[u] # NoNode
                    /\ down[s][i].sn # down[s][i].tsn
                    /\ down[s][i].type = "HO_RELEASE_REQUEST" => down[s][i].sn = s
        /\ \A i \in DOMAIN up[s] :
              IsPending(up[s][i], u) =>
                    /\ SNID[u] # NoNode
                    /\ up[s][i].sn # up[s][i].tsn

AdditionFirst ==
    \A s \in SNs, u \in UEs : \A i \in DOMAIN down[s] :
        IsAddition(down[s][i], u) =>
            /\ \A t \in SNs : u \notin isAssociated[t]
            /\ \A j \in DOMAIN down[s] : IsAddition(down[s][j], u) => j = i
            /\ \A t \in SNs : \A j \in DOMAIN down[t] :
                  IsPending(down[t][j], u) =>
                      /\ down[t][j].sn = s
                      /\ down[t][j].type = "HO_RELEASE_REQUEST" => i < j
            /\ \A t \in SNs : \A j \in DOMAIN up[t] :
                  IsPending(up[t][j], u) => up[t][j].sn = s

OneAtATime ==
    \A u \in UEs \ overlapped, s, t \in SNs :
        /\ \A i \in DOMAIN down[s] : IsPending(down[s][i], u) =>
              /\ down[s][i].sn = SNID[u]
              /\ \A j \in DOMAIN down[t] : IsPending(down[t][j], u) => s = t /\ i = j
              /\ \A j \in DOMAIN up[t] : ~IsPending(up[t][j], u)
        /\ \A i \in DOMAIN up[s] : IsPending(up[s][i], u) =>
              /\ up[s][i].sn = SNID[u]
              /\ \A j \in DOMAIN up[t] : IsPending(up[t][j], u) => s = t /\ i = j

OneRow == \A s \in SNs : \A i, j \in DOMAIN matrix[s] :
              matrix[s][i].ueID = matrix[s][j].ueID => i = j

IInv == /\ TypeOK /\ Located /\ AdditionFirst /\ OneAtATime /\ OneRow
        /\ ServingNodeServes /\ NothingLeftBehind /\ CrashNeedsOverlap
-----------------------------------------------------------------------------
\* A row of the matrix of node s.
Row(s) == [ueID : UEs, TriggerTime : [SNs \ {s} -> {TTT_NOT_SET}]]
Unique(m) == \A i, j \in DOMAIN m : m[i].ueID = m[j].ueID => i = j

\* The row of a new association (fn_NetSim_LTENR_Conditional_HO_TTT_Matrix_Add).
LEMMA AddRow ==
    ASSUME NEW s \in SNs, NEW u \in UEs, NEW m \in Seq(Row(s)),
           Unique(m), RowsOf(m, u) = {}
    PROVE  /\ Add(m, s, u) \in Seq(Row(s))
           /\ Unique(Add(m, s, u))
           /\ \A v : RowsOf(Add(m, s, u), v) # {} => v = u \/ RowsOf(m, v) # {}
<1> DEFINE a == Add(m, s, u)
<1>1. NewRow(s, u) \in Row(s) /\ NewRow(s, u).ueID = u
  BY DEF NewRow, Row, SNs
<1>2. /\ a \in Seq(Row(s)) /\ Len(a) = Len(m) + 1
      /\ \A i \in 1 .. Len(m) : a[i] = m[i]
      /\ a[Len(m) + 1] = NewRow(s, u)
  BY <1>1, AppendProperties DEF Add
<1>3. DOMAIN a = 1 .. Len(m) + 1 /\ DOMAIN m = 1 .. Len(m) /\ Len(m) \in Nat
  BY <1>2, LenProperties
<1> HIDE DEF a
<1>4. \A i \in DOMAIN a : \/ i \in DOMAIN m /\ a[i] = m[i]
                          \/ i = Len(m) + 1 /\ a[i].ueID = u
  BY <1>1, <1>2, <1>3
<1>5. \A i \in DOMAIN m : m[i].ueID # u
  BY DEF RowsOf
<1>6. Unique(a)
  BY <1>4, <1>5 DEF Unique
<1>7. \A v : RowsOf(a, v) # {} => v = u \/ RowsOf(m, v) # {}
  BY <1>4 DEF RowsOf
<1> QED  BY <1>2, <1>6, <1>7 DEF a

\* Remove takes the only row of the UE, and perhaps rows of others.
LEMMA RemoveRow ==
    ASSUME NEW s \in SNs, NEW u \in UEs, NEW m \in Seq(Row(s)), Unique(m)
    PROVE  /\ Remove(m, u) \in Seq(Row(s))
           /\ Unique(Remove(m, u))
           /\ RowsOf(Remove(m, u), u) = {}
           /\ \A v : RowsOf(Remove(m, u), v) # {} => RowsOf(m, v) # {}
<1>1. CASE RowsOf(m, u) = {}
  <2>1. Remove(m, u) = << >>
    BY <1>1 DEF Remove
  <2> QED  BY <2>1 DEF Unique, RowsOf
<1>2. CASE RowsOf(m, u) # {}
  <2> DEFINE k == FirstRow(m, u)
             a == SubSeq(m, k + 1, Len(m))
  <2>1. DOMAIN m = 1 .. Len(m) /\ Len(m) \in Nat
    BY LenProperties
  <2>2. \E i \in RowsOf(m, u) : \A j \in RowsOf(m, u) : i <= j
    <3>1. PICK i : i \in RowsOf(m, u)
      BY <1>2
    <3>2. i \in Nat /\ \A j \in RowsOf(m, u) : i = j
      BY <2>1, <3>1 DEF RowsOf, Unique
    <3> QED  BY <3>1, <3>2
  <2>3. k \in DOMAIN m /\ m[k].ueID = u
    BY <2>2 DEF FirstRow, RowsOf
  <2> HIDE DEF k
  <2>4. \A i \in k + 1 .. Len(m) : m[i] \in Row(s)
    BY <2>1, <2>3, ElementOfSeq
  <2>5. /\ a \in Seq(Row(s))
        /\ Len(a) = Len(m) - k
        /\ \A i \in 1 .. Len(m) - k : a[i] = m[k + i]
    <3>1. /\ a \in Seq(Row(s))
          /\ Len(a) = IF k + 1 <= Len(m) THEN Len(m) - (k + 1) + 1 ELSE 0
          /\ \A i \in 1 .. Len(m) - (k + 1) + 1 : a[i] = m[k + 1 + i - 1]
      BY <2>1, <2>3, <2>4, SubSeqProperties
    <3> QED  BY <2>1, <2>3, <3>1, SMTT(30)
  <2>6. DOMAIN a = 1 .. Len(m) - k
    BY <2>5, LenProperties
  <2> HIDE DEF a
  <2>7. \A i \in DOMAIN a : i \in Nat /\ k + i \in DOMAIN m /\ k + i # k /\ a[i] = m[k + i]
    BY <2>1, <2>3, <2>5, <2>6
  <2>8. Unique(a)
    <3> SUFFICES ASSUME NEW i \in DOMAIN a, NEW j \in DOMAIN a, a[i].ueID = a[j].ueID
                 PROVE  i = j
      BY DEF Unique
    <3>1. k + i = k + j
      BY <2>7 DEF Unique
    <3> QED  BY <2>1, <2>3, <2>7, <3>1
  <2>9. RowsOf(a, u) = {}
    BY <2>3, <2>7 DEF RowsOf, Unique
  <2>10. \A v : RowsOf(a, v) # {} => RowsOf(m, v) # {}
    BY <2>7 DEF RowsOf
  <2>11. Remove(m, u) = a
    BY <1>2 DEF Remove, a, k
  <2> QED  BY <2>5, <2>8, <2>9, <2>10, <2>11
<1> QED  BY <1>1, <1>2

-----------------------------------------------------------------------------
\* What taking the first message of wire s, and appending m to wire r, do to
\* the messages of a set of wires.
Taken(old, new, s) ==
    /\ \A x \in SNs : x # s => new[x] = old[x]
    /\ \A i \in DOMAIN new[s] :
          i \in Nat \ {0} /\ i + 1 \in DOMAIN old[s] /\ new[s][i] = old[s][i + 1]
    /\ \A i \in DOMAIN old[s] :
          i # 1 => i - 1 \in DOMAIN new[s] /\ new[s][i - 1] = old[s][i]
    /\ 1 \in DOMAIN old[s] /\ old[s][1] = Head(old[s])

Put(old, new, r, m) ==
    /\ \A x \in SNs : x # r => new[x] = old[x]
    /\ \A i \in DOMAIN new[r] : \/ i \in DOMAIN old[r] /\ new[r][i] = old[r][i]
                                \/ i = Len(old[r]) + 1 /\ new[r][i] = m
    /\ \A i \in DOMAIN old[r] : i \in DOMAIN new[r] /\ new[r][i] = old[r][i]
    /\ \A i \in DOMAIN old[r] : i < Len(old[r]) + 1

LEMMA TakeLemma ==
    ASSUME NEW M, NEW old \in [SNs -> Seq(M)], NEW s \in SNs, old[s] # << >>,
           NEW new, new = [old EXCEPT ![s] = Tail(@)]
    PROVE  new \in [SNs -> Seq(M)] /\ Head(old[s]) \in M /\ Taken(old, new, s)
<1> DEFINE q == old[s]
<1>1. q \in Seq(M) /\ q # << >> /\ new = [old EXCEPT ![s] = Tail(q)] /\ new[s] = Tail(q)
  OBVIOUS
<1> HIDE DEF q
<1>2. /\ Head(q) \in M /\ Tail(q) \in Seq(M)
      /\ Len(Tail(q)) = Len(q) - 1 /\ Len(q) \in Nat \ {0}
      /\ \A i \in 1 .. Len(Tail(q)) : Tail(q)[i] = q[i + 1]
      /\ q[1] = Head(q)
  BY <1>1, HeadTailProperties, EmptySeq
<1>3. DOMAIN q = 1 .. Len(q) /\ DOMAIN Tail(q) = 1 .. Len(q) - 1
  BY <1>1, <1>2, LenProperties
<1> DEFINE t == Tail(q)
<1> HIDE DEF t
<1>4. /\ \A i \in DOMAIN t : i \in Nat \ {0} /\ i + 1 \in DOMAIN q /\ t[i] = q[i + 1]
      /\ \A i \in DOMAIN q : i # 1 => i - 1 \in DOMAIN t /\ t[i - 1] = q[i]
      /\ 1 \in DOMAIN q
  BY <1>2, <1>3 DEF t
<1>5. Taken(old, new, s)
  BY <1>1, <1>2, <1>4 DEF Taken, q, t
<1> QED  BY <1>1, <1>2, <1>5 DEF q

AppendTo(old, r, m) == [old EXCEPT ![r] = Append(@, m)]

LEMMA PutLemma ==
    ASSUME NEW M, NEW old \in [SNs -> Seq(M)], NEW r \in SNs, NEW m \in M
    PROVE  /\ AppendTo(old, r, m) \in [SNs -> Seq(M)]
           /\ Put(old, AppendTo(old, r, m), r, m)
<1> DEFINE q == old[r]
           a == Append(q, m)
           new == AppendTo(old, r, m)
<1>1. q \in Seq(M) /\ new = [old EXCEPT ![r] = a] /\ new[r] = a
  BY DEF AppendTo
<1> HIDE DEF new
<1> HIDE DEF q
<1>2. /\ a \in Seq(M) /\ Len(a) = Len(q) + 1 /\ Len(q) \in Nat
      /\ \A i \in 1 .. Len(q) : a[i] = q[i]
      /\ a[Len(q) + 1] = m
  BY <1>1, AppendProperties
<1>3. DOMAIN q = 1 .. Len(q) /\ DOMAIN a = 1 .. Len(q) + 1
  BY <1>1, <1>2, LenProperties
<1> HIDE DEF a
<1>4. /\ \A i \in DOMAIN a : \/ i \in DOMAIN q /\ a[i] = q[i]
                             \/ i = Len(q) + 1 /\ a[i] = m
      /\ \A i \in DOMAIN q : i \in DOMAIN a /\ a[i] = q[i] /\ i < Len(q) + 1
  BY <1>2, <1>3
<1>5. Put(old, new, r, m)
  BY <1>1, <1>4 DEF Put, q
<1> QED  BY <1>1, <1>2, <1>5 DEF new

-----------------------------------------------------------------------------
Wires == down \in [SNs -> Seq(Msg(DownTypes))] /\ up \in [SNs -> Seq(Msg(UpTypes))]

\* An SN takes a message and answers: what stays true of the messages, when
\* the answer is not of a later handover, and u is moved only by the release.
LEMMA AnswerKeeps ==
    ASSUME IInv, NEW s \in SNs, down[s] # << >>, NEW t \in UpTypes,
           Answer(s, t),
           t = "HO_ADDITION_ACK" => Head(down[s]).type = "HO_ADDITION_REQUEST",
           overlapped' = overlapped,
           \A v \in UEs : \/ SNID'[v] = SNID[v]
                          \/ /\ v = Head(down[s]).ue /\ ~Adding(v)
                             /\ Head(down[s]).type = "HO_RELEASE_REQUEST"
                             /\ SNID'[v] # NoNode,
           \A v \in UEs, x \in SNs : v \in isAssociated'[x] =>
                \/ \E y \in SNs : v \in isAssociated[y]
                \/ v = Head(down[s]).ue /\ Head(down[s]).type = "ADDITION"
    PROVE  /\ Wires' /\ Located' /\ AdditionFirst' /\ OneAtATime'
           /\ \A v \in UEs : Adding(v) /\ ~Adding(v)' => IsAddition(Head(down[s]), v)
<1> DEFINE h == Head(down[s])
           a == As(h, t)
<1>1. /\ down' \in [SNs -> Seq(Msg(DownTypes))] /\ h \in Msg(DownTypes)
      /\ Taken(down, down', s)
  BY TakeLemma DEF IInv, TypeOK, Answer
<1>2. a \in Msg(UpTypes) /\ a.type = t /\ a.ue = h.ue /\ a.sn = h.sn /\ a.tsn = h.tsn
  <2> HIDE DEF h
  <2>1. h \in Msg(DownTypes)
    BY <1>1
  <2> QED  BY <2>1 DEF As, Msg
<1>3. up' \in [SNs -> Seq(Msg(UpTypes))] /\ Put(up, up', s, a)
  <2>1. up' = AppendTo(up, s, a) /\ up \in [SNs -> Seq(Msg(UpTypes))]
    BY DEF Answer, IInv, TypeOK, AppendTo
  <2>2. a \in Msg(UpTypes)
    BY <1>2
  <2> HIDE DEF a
  <2> QED  BY <2>1, <2>2, PutLemma
<1> HIDE DEF a
<1>4. h = down[s][1] /\ 1 \in DOMAIN down[s]
  BY <1>1 DEF Taken
<1> HIDE DEF h
<1>5. \A v \in UEs : IsPending(a, v) => IsPending(h, v)
  BY <1>2 DEF IsPending, h, UpTypes
<1>6. Located'
  <2>1. ASSUME NEW x \in SNs, NEW v \in UEs, NEW i \in DOMAIN down'[x]
        PROVE  /\ IsAddition(down'[x][i], v) => SNID'[v] = x
               /\ IsPending(down'[x][i], v) =>
                    /\ SNID'[v] # NoNode
                    /\ down'[x][i].sn # down'[x][i].tsn
                    /\ down'[x][i].type = "HO_RELEASE_REQUEST" => down'[x][i].sn = x
    <3>1. PICK j \in DOMAIN down[x] : down'[x][i] = down[x][j]
      BY <1>1 DEF Taken
    <3> QED  BY <3>1 DEF IInv, Located, Adding, IsAddition
  <2>2. ASSUME NEW x \in SNs, NEW v \in UEs, NEW i \in DOMAIN up'[x],
               IsPending(up'[x][i], v)
        PROVE  SNID'[v] # NoNode /\ up'[x][i].sn # up'[x][i].tsn
    <3>1. CASE i \in DOMAIN up[x] /\ up'[x][i] = up[x][i]
      BY <2>2, <3>1 DEF IInv, Located
    <3>2. CASE x = s /\ up'[x][i] = a
      BY <1>2, <1>4, <1>5, <2>2, <3>2 DEF IInv, Located
    <3> QED  BY <1>3, <3>1, <3>2 DEF Put
  <2> QED  BY <2>1, <2>2 DEF Located
<1>7. AdditionFirst'
  <2> SUFFICES ASSUME NEW x \in SNs, NEW v \in UEs, NEW i \in DOMAIN down'[x],
                      IsAddition(down'[x][i], v)
               PROVE  /\ \A y \in SNs : v \notin isAssociated'[y]
                      /\ \A j \in DOMAIN down'[x] : IsAddition(down'[x][j], v) => j = i
                      /\ \A y \in SNs : \A j \in DOMAIN down'[y] :
                            IsPending(down'[y][j], v) =>
                                /\ down'[y][j].sn = x
                                /\ down'[y][j].type = "HO_RELEASE_REQUEST" => i < j
                      /\ \A y \in SNs : \A j \in DOMAIN up'[y] :
                            IsPending(up'[y][j], v) => up'[y][j].sn = x
    BY DEF AdditionFirst
  <2> DEFINE d(y) == IF y = s THEN 1 ELSE 0
  <2>1. \A y \in SNs : \A j \in DOMAIN down'[y] :
            j \in Nat /\ j + d(y) \in DOMAIN down[y] /\ down'[y][j] = down[y][j + d(y)]
    <3>1. \A y \in SNs : \A j \in DOMAIN down[y] : j \in Nat
      BY LenProperties DEF IInv, TypeOK
    <3> QED  BY <1>1, <3>1 DEF Taken
  <2> HIDE DEF d
  <2>2. IsAddition(down[x][i + d(x)], v) /\ SNID[v] = x /\ i \in Nat
    BY <2>1 DEF IInv, Located
  <2>3. \A y \in SNs : v \notin isAssociated[y]
    BY <2>1, <2>2 DEF IInv, AdditionFirst
  <2>4. ~IsAddition(h, v)
    <3> SUFFICES ASSUME IsAddition(h, v) PROVE FALSE
      OBVIOUS
    <3>1. x = s /\ i + d(x) = 1
      BY <1>4, <2>1, <2>2 DEF IInv, Located, AdditionFirst
    <3> QED  BY <1>1, <2>2, <3>1 DEF d
  <2>5. \A y \in SNs : v \notin isAssociated'[y]
    BY <2>3, <2>4 DEF IsAddition, h
  <2>6. \A j \in DOMAIN down'[x] : IsAddition(down'[x][j], v) => j = i
    <3> SUFFICES ASSUME NEW j \in DOMAIN down'[x], IsAddition(down'[x][j], v) PROVE j = i
      OBVIOUS
    <3>1. j + d(x) = i + d(x)
      BY <2>1, <2>2 DEF IInv, AdditionFirst
    <3> QED  BY <2>1, <3>1 DEF d
  <2>7. ASSUME NEW y \in SNs, NEW j \in DOMAIN down'[y], IsPending(down'[y][j], v)
        PROVE  /\ down'[y][j].sn = x
               /\ down'[y][j].type = "HO_RELEASE_REQUEST" => i < j
    <3>1. /\ down'[y][j].sn = x
          /\ down'[y][j].type = "HO_RELEASE_REQUEST" => i + d(x) < j + d(y) /\ y = x
      BY <2>1, <2>2, <2>7 DEF IInv, AdditionFirst, Located
    <3> QED  BY <2>1, <3>1 DEF d
  <2>8. ASSUME NEW y \in SNs, NEW j \in DOMAIN up'[y], IsPending(up'[y][j], v)
        PROVE  up'[y][j].sn = x
    <3>1. CASE j \in DOMAIN up[y] /\ up'[y][j] = up[y][j]
      BY <2>1, <2>2, <2>8, <3>1 DEF IInv, AdditionFirst
    <3>2. CASE y = s /\ up'[y][j] = a
      BY <1>2, <1>4, <1>5, <2>1, <2>2, <2>8, <3>2 DEF IInv, AdditionFirst
    <3> QED  BY <1>3, <3>1, <3>2 DEF Put
  <2> QED  BY <2>5, <2>6, <2>7, <2>8
<1>8. OneAtATime'
  <2> DEFINE d(y) == IF y = s THEN 1 ELSE 0
  <2>1. \A y \in SNs : \A j \in DOMAIN down'[y] :
            /\ j \in Nat /\ j + d(y) \in DOMAIN down[y] /\ down'[y][j] = down[y][j + d(y)]
            /\ y = s => j + d(y) # 1
    <3>1. \A y \in SNs : \A j \in DOMAIN down[y] : j \in Nat \ {0}
      BY LenProperties DEF IInv, TypeOK
    <3> QED  BY <1>1, <3>1 DEF Taken
  <2>2. \A y \in SNs : \A j \in DOMAIN up'[y] :
            \/ j \in DOMAIN up[y] /\ up'[y][j] = up[y][j]
            \/ y = s /\ j = Len(up[s]) + 1 /\ up'[y][j] = a
    BY <1>3 DEF Put
  <2> SUFFICES ASSUME NEW v \in UEs \ overlapped, NEW x \in SNs, NEW y \in SNs
               PROVE  /\ \A i \in DOMAIN down'[x] : IsPending(down'[x][i], v) =>
                            /\ down'[x][i].sn = SNID'[v]
                            /\ \A j \in DOMAIN down'[y] :
                                  IsPending(down'[y][j], v) => x = y /\ i = j
                            /\ \A j \in DOMAIN up'[y] : ~IsPending(up'[y][j], v)
                      /\ \A i \in DOMAIN up'[x] : IsPending(up'[x][i], v) =>
                            /\ up'[x][i].sn = SNID'[v]
                            /\ \A j \in DOMAIN up'[y] :
                                  IsPending(up'[y][j], v) => x = y /\ i = j
    BY DEF OneAtATime
  <2> USE DEF IInv
  <2>3. ASSUME NEW i \in DOMAIN down'[x], IsPending(down'[x][i], v)
        PROVE  /\ down'[x][i].sn = SNID'[v]
               /\ \A j \in DOMAIN down'[y] : IsPending(down'[y][j], v) => x = y /\ i = j
               /\ \A j \in DOMAIN up'[y] : ~IsPending(up'[y][j], v)
    <3> HIDE DEF d
    <3>1. ~IsPending(h, v)
      BY <1>4, <2>1, <2>3 DEF OneAtATime
    <3>2. SNID'[v] = SNID[v]
      BY <3>1 DEF IsPending, h
    <3>3. down'[x][i].sn = SNID'[v]
      BY <2>1, <2>3, <3>2 DEF OneAtATime
    <3>4. ASSUME NEW j \in DOMAIN down'[y], IsPending(down'[y][j], v)
          PROVE  x = y /\ i = j
      <4>1. x = y /\ i + d(x) = j + d(y)
        BY <2>1, <2>3, <3>4 DEF OneAtATime
      <4> QED  BY <2>1, <4>1 DEF d
    <3>5. ASSUME NEW j \in DOMAIN up'[y], IsPending(up'[y][j], v)
          PROVE  FALSE
      <4>1. j \in DOMAIN up[y] /\ up'[y][j] = up[y][j]
        BY <1>5, <2>2, <3>1, <3>5
      <4> QED  BY <2>1, <2>3, <3>5, <4>1 DEF OneAtATime
    <3> QED  BY <3>3, <3>4, <3>5
  <2>4. ASSUME NEW i \in DOMAIN up'[x], IsPending(up'[x][i], v)
        PROVE  /\ up'[x][i].sn = SNID'[v]
               /\ \A j \in DOMAIN up'[y] : IsPending(up'[y][j], v) => x = y /\ i = j
    <3>1. CASE ~IsPending(h, v)
      <4>1. SNID'[v] = SNID[v] \/ ~\E z \in SNs : \E k \in DOMAIN up[z] : IsPending(up[z][k], v)
        BY <3>1 DEF IsPending, h
      <4>2. i \in DOMAIN up[x] /\ up'[x][i] = up[x][i]
        BY <1>5, <2>2, <2>4, <3>1
      <4>3. \A j \in DOMAIN up'[y] : IsPending(up'[y][j], v) => j \in DOMAIN up[y] /\ up'[y][j] = up[y][j]
        BY <1>5, <2>2, <3>1
      <4> QED  BY <2>4, <4>1, <4>2, <4>3 DEF OneAtATime
    <3>2. CASE IsPending(h, v)
      <4>1. \A z \in SNs : \A k \in DOMAIN up[z] : ~IsPending(up[z][k], v)
        BY <1>4, <3>2 DEF OneAtATime
      <4>2. x = s /\ i = Len(up[s]) + 1 /\ up'[x][i] = a
        BY <2>2, <2>4, <4>1
      <4>3. \A j \in DOMAIN up'[y] : IsPending(up'[y][j], v) => y = s /\ j = Len(up[s]) + 1
        BY <2>2, <4>1
      <4>4. t = "HO_ADDITION_ACK"
        BY <1>2, <2>4, <4>2 DEF IsPending, UpTypes
      <4>5. SNID'[v] = SNID[v]
        BY <4>4 DEF h
      <4> QED  BY <1>2, <1>4, <3>2, <4>2, <4>3, <4>5 DEF OneAtATime
    <3> QED  BY <3>1, <3>2
  <2> QED  BY <2>3, <2>4
<1>9. ASSUME NEW v \in UEs, Adding(v), ~Adding(v)' PROVE IsAddition(h, v)
  <2>1. PICK x \in SNs : \E i \in DOMAIN down[x] : IsAddition(down[x][i], v)
    BY <1>9 DEF Adding, IsAddition
  <2>2. \A j \in DOMAIN down'[x] : ~IsAddition(down'[x][j], v)
    BY <1>9 DEF Adding, IsAddition
  <2> QED  BY <1>1, <1>4, <2>1, <2>2, SMTT(30) DEF Taken
<1> QED  BY <1>1, <1>3, <1>6, <1>7, <1>8, <1>9 DEF Wires, h

\* At most m was appended, to wire r.
Grown(old, new, r, m) ==
    /\ \A x \in SNs : \A i \in DOMAIN new[x] :
          \/ i \in DOMAIN old[x] /\ new[x][i] = old[x][i]
          \/ x = r /\ i = Len(old[x]) + 1 /\ new[x][i] = m
    /\ \A x \in SNs : \A i \in DOMAIN old[x] :
          i \in DOMAIN new[x] /\ new[x][i] = old[x][i] /\ i < Len(old[x]) + 1

\* MN takes a message and sends at most m, which is no addition, and asks the
\* old node of the header to release the UE when the target has agreed.
LEMMA ForwardKeeps ==
    ASSUME IInv, NEW s \in SNs, NEW r \in SNs, NEW a, NEW h,
           Taken(up, up', s), h = up[s][1], Grown(down, down', r, a),
           a.type \in {"HO_RELEASE_REQUEST", "HO_CONTEXT_RELEASE"},
           a.ue = h.ue, a.sn = h.sn, a.tsn = h.tsn,
           a.type = "HO_RELEASE_REQUEST" => h.type = "HO_ADDITION_ACK" /\ r = h.sn,
           SNID' = SNID, isAssociated' = isAssociated, overlapped' = overlapped
    PROVE  /\ Located' /\ AdditionFirst' /\ OneAtATime'
           /\ \A v \in UEs : Adding(v) => Adding(v)'
<1> DEFINE d(y) == IF y = s THEN 1 ELSE 0
<1>1. /\ \A y \in SNs : \A j \in DOMAIN up'[y] :
            /\ j \in Nat /\ j + d(y) \in DOMAIN up[y] /\ up'[y][j] = up[y][j + d(y)]
            /\ y = s => j + d(y) # 1
      /\ 1 \in DOMAIN up[s]
  <2>1. \A y \in SNs : \A j \in DOMAIN up[y] : j \in Nat \ {0}
    BY LenProperties DEF IInv, TypeOK
  <2> QED  BY <2>1 DEF Taken
<1> HIDE DEF d
<1>2. /\ \A y \in SNs : \A j \in DOMAIN down'[y] :
            \/ j \in DOMAIN down[y] /\ down'[y][j] = down[y][j]
            \/ y = r /\ j = Len(down[y]) + 1 /\ down'[y][j] = a
      /\ \A y \in SNs : \A j \in DOMAIN down[y] :
            j \in DOMAIN down'[y] /\ down'[y][j] = down[y][j] /\ j < Len(down[y]) + 1
  BY DEF Grown
<1>3. /\ \A v \in UEs : IsPending(a, v) => IsPending(h, v) /\ r = h.sn
      /\ \A v \in UEs : ~IsAddition(a, v)
  BY DEF IsPending, IsAddition
<1> USE DEF IInv
<1>4. Located'
  <2>1. ASSUME NEW x \in SNs, NEW v \in UEs, NEW i \in DOMAIN down'[x]
        PROVE  /\ IsAddition(down'[x][i], v) => SNID'[v] = x
               /\ IsPending(down'[x][i], v) =>
                    /\ SNID'[v] # NoNode
                    /\ down'[x][i].sn # down'[x][i].tsn
                    /\ down'[x][i].type = "HO_RELEASE_REQUEST" => down'[x][i].sn = x
    <3>1. CASE i \in DOMAIN down[x] /\ down'[x][i] = down[x][i]
      BY <3>1 DEF Located
    <3>2. CASE x = r /\ down'[x][i] = a
      BY <1>1, <1>3, <3>2 DEF Located
    <3> QED  BY <1>2, <3>1, <3>2
  <2>2. ASSUME NEW x \in SNs, NEW v \in UEs, NEW i \in DOMAIN up'[x],
               IsPending(up'[x][i], v)
        PROVE  SNID'[v] # NoNode /\ up'[x][i].sn # up'[x][i].tsn
    BY <1>1, <2>2 DEF Located
  <2> QED  BY <2>1, <2>2 DEF Located
<1>5. AdditionFirst'
  <2> SUFFICES ASSUME NEW x \in SNs, NEW v \in UEs, NEW i \in DOMAIN down'[x],
                      IsAddition(down'[x][i], v)
               PROVE  /\ \A y \in SNs : v \notin isAssociated'[y]
                      /\ \A j \in DOMAIN down'[x] : IsAddition(down'[x][j], v) => j = i
                      /\ \A y \in SNs : \A j \in DOMAIN down'[y] :
                            IsPending(down'[y][j], v) =>
                                /\ down'[y][j].sn = x
                                /\ down'[y][j].type = "HO_RELEASE_REQUEST" => i < j
                      /\ \A y \in SNs : \A j \in DOMAIN up'[y] :
                            IsPending(up'[y][j], v) => up'[y][j].sn = x
    BY DEF AdditionFirst
  <2>1. i \in DOMAIN down[x] /\ IsAddition(down[x][i], v)
    BY <1>2, <1>3
  <2>2. \A y \in SNs : v \notin isAssociated'[y]
    BY <2>1 DEF AdditionFirst
  <2>3. \A j \in DOMAIN down'[x] : IsAddition(down'[x][j], v) => j = i
    BY <1>2, <1>3, <2>1 DEF AdditionFirst
  <2>4. ASSUME NEW y \in SNs, NEW j \in DOMAIN down'[y], IsPending(down'[y][j], v)
        PROVE  /\ down'[y][j].sn = x
               /\ down'[y][j].type = "HO_RELEASE_REQUEST" => i < j
    <3>1. CASE j \in DOMAIN down[y] /\ down'[y][j] = down[y][j]
      BY <2>1, <2>4, <3>1 DEF AdditionFirst
    <3>2. CASE y = r /\ j = Len(down[y]) + 1 /\ down'[y][j] = a
      <4>1. h.sn = x /\ r = x
        BY <1>1, <1>3, <2>1, <2>4, <3>2 DEF AdditionFirst
      <4> QED  BY <1>2, <2>1, <3>2, <4>1
    <3> QED  BY <1>2, <3>1, <3>2
  <2>5. ASSUME NEW y \in SNs, NEW j \in DOMAIN up'[y], IsPending(up'[y][j], v)
        PROVE  up'[y][j].sn = x
    BY <1>1, <2>1, <2>5 DEF AdditionFirst
  <2> QED  BY <2>2, <2>3, <2>4, <2>5
<1>6. OneAtATime'
  <2> SUFFICES ASSUME NEW v \in UEs \ overlapped, NEW x \in SNs, NEW y \in SNs
               PROVE  /\ \A i \in DOMAIN down'[x] : IsPending(down'[x][i], v) =>
                            /\ down'[x][i].sn = SNID'[v]
                            /\ \A j \in DOMAIN down'[y] :
                                  IsPending(down'[y][j], v) => x = y /\ i = j
                            /\ \A j \in DOMAIN up'[y] : ~IsPending(up'[y][j], v)
                      /\ \A i \in DOMAIN up'[x] : IsPending(up'[x][i], v) =>
                            /\ up'[x][i].sn = SNID'[v]
                            /\ \A j \in DOMAIN up'[y] :
                                  IsPending(up'[y][j], v) => x = y /\ i = j
    BY DEF OneAtATime
  <2>1. ASSUME NEW i \in DOMAIN down'[x], IsPending(down'[x][i], v)
        PROVE  /\ down'[x][i].sn = SNID'[v]
               /\ \A j \in DOMAIN down'[y] : IsPending(down'[y][j], v) => x = y /\ i = j
               /\ \A j \in DOMAIN up'[y] : ~IsPending(up'[y][j], v)
    <3>1. CASE IsPending(h, v)
      <4>1. \A z \in SNs : \A k \in DOMAIN down[z] : ~IsPending(down[z][k], v)
        BY <1>1, <3>1 DEF OneAtATime
      <4>2. \A z \in SNs : \A k \in DOMAIN down'[z] : IsPending(down'[z][k], v) =>
                z = r /\ k = Len(down[z]) + 1 /\ down'[z][k] = a
        BY <1>2, <4>1
      <4>3. \A j \in DOMAIN up'[y] : ~IsPending(up'[y][j], v)
        BY <1>1, <3>1 DEF OneAtATime
      <4> QED  BY <1>1, <2>1, <3>1, <4>2, <4>3 DEF OneAtATime
    <3>2. CASE ~IsPending(h, v)
      <4>1. \A z \in SNs : \A k \in DOMAIN down'[z] : IsPending(down'[z][k], v) =>
                k \in DOMAIN down[z] /\ down'[z][k] = down[z][k]
        BY <1>2, <1>3, <3>2
      <4> QED  BY <1>1, <2>1, <4>1 DEF OneAtATime
    <3> QED  BY <3>1, <3>2
  <2>2. ASSUME NEW i \in DOMAIN up'[x], IsPending(up'[x][i], v)
        PROVE  /\ up'[x][i].sn = SNID'[v]
               /\ \A j \in DOMAIN up'[y] : IsPending(up'[y][j], v) => x = y /\ i = j
    <3>1. up'[x][i].sn = SNID'[v]
      BY <1>1, <2>2 DEF OneAtATime
    <3>2. ASSUME NEW j \in DOMAIN up'[y], IsPending(up'[y][j], v)
          PROVE  x = y /\ i = j
      <4>1. x = y /\ i + d(x) = j + d(y)
        BY <1>1, <2>2, <3>2 DEF OneAtATime
      <4> QED  BY <1>1, <4>1 DEF d
    <3> QED  BY <3>1, <3>2
  <2> QED  BY <2>1, <2>2
<1>7. \A v \in UEs : Adding(v) => Adding(v)'
  BY <1>2 DEF Adding
<1> QED  BY <1>4, <1>5, <1>6, <1>7

-----------------------------------------------------------------------------
\* What a measurement report puts on the wires.
LEMMA AppendSome ==
    ASSUME NEW M, NEW q \in Seq(M), NEW m \in M
    PROVE  /\ (q \o << >>) \o << >> = q
           /\ (q \o <<m>>) \o << >> = Append(q, m)
           /\ (q \o << >>) \o <<m>> = Append(q, m)
           /\ Append(q, m) \in Seq(M)
           /\ Len(Append(q, m)) = Len(q) + 1
           /\ DOMAIN Append(q, m) = 1 .. Len(q) + 1
           /\ \A i \in 1 .. Len(q) : Append(q, m)[i] = q[i]
           /\ Append(q, m)[Len(q) + 1] = m
<1> DEFINE a == Append(q, m)
<1>1. /\ a \in Seq(M) /\ Len(a) = Len(q) + 1
      /\ \A i \in 1 .. Len(q) : a[i] = q[i]
      /\ a[Len(q) + 1] = m
  BY AppendProperties
<1>2. q \o <<m>> = a
  BY AppendIsConcat
<1> HIDE DEF a
<1>3. q \o << >> = q /\ a \o << >> = a
  BY <1>1, ConcatEmptySeq
<1>4. DOMAIN a = 1 .. Len(q) + 1
  BY <1>1, LenProperties
<1> QED  BY <1>1, <1>2, <1>3, <1>4 DEF a

\* A UE's messages in flight, as Pending sees them.
LEMMA NonePending ==
    ASSUME NEW u \in UEs, Pending(u) = {}, NEW s \in SNs
    PROVE  /\ \A i \in DOMAIN down[s] : ~IsPending(down[s][i], u)
           /\ \A i \in DOMAIN up[s] : ~IsPending(up[s][i], u)
<1> DEFINE In(x) == {down[x][i] : i \in DOMAIN down[x]} \cup {up[x][i] : i \in DOMAIN up[x]}
<1>1. Pending(u) = {m \in UNION {In(x) : x \in SNs} : IsPending(m, u)}
  BY Zenon DEF Pending, IsPending
<1>2. \A m \in In(s) : ~IsPending(m, u)
  BY <1>1
<1> QED  BY <1>2

LEMMA ReportMessages ==
    ASSUME TypeOK, NEW u \in UEs, NEW best \in SNs, NEW target \in SNs,
           NEW beats \in BOOLEAN, MeasurementReport(u, best, target, beats),
           NEW sn, sn = SEC_CELL_SelectionAddition(u, best),
           NEW am, am = [type |-> "ADDITION", ue |-> u, sn |-> sn, tsn |-> sn],
           NEW hm, hm = [type |-> "HO_ADDITION_REQUEST", ue |-> u, sn |-> sn, tsn |-> target]
    PROVE  /\ down' \in [SNs -> Seq(Msg(DownTypes))]
           /\ sn \in SNs
           /\ \A x \in SNs : \A i \in DOMAIN down'[x] :
                \/ i \in DOMAIN down[x] /\ down'[x][i] = down[x][i]
                \/ /\ SNID[u] = NoNode /\ x = sn
                   /\ i = Len(down[x]) + 1 /\ down'[x][i] = am
                \/ /\ beats /\ target # sn /\ x = target
                   /\ i = Len(down[x]) + 1 /\ down'[x][i] = hm
           /\ \A x \in SNs : \A i \in DOMAIN down[x] :
                i \in DOMAIN down'[x] /\ down'[x][i] = down[x][i] /\ i < Len(down[x]) + 1
           /\ SNID[u] = NoNode => /\ Len(down[sn]) + 1 \in DOMAIN down'[sn]
                                  /\ down'[sn][Len(down[sn]) + 1] = am
<1> DEFINE add == SNID[u] = NoNode
           handover == beats /\ target # sn
           A(x) == IF add /\ x = sn THEN <<am>> ELSE << >>
           B(x) == IF handover /\ x = target THEN <<hm>> ELSE << >>
<1>1. sn \in SNs
  BY DEF TypeOK, SEC_CELL_SelectionAddition
<1>2. am \in Msg(DownTypes) /\ hm \in Msg(DownTypes)
  BY <1>1 DEF Msg, DownTypes
<1>3. down' = [x \in SNs |-> (down[x] \o A(x)) \o B(x)]
  BY DEF MeasurementReport, Secondary_Cell_Addition, DC_HO_SN_ADDITION_REQUEST
<1>4. ASSUME NEW x \in SNs
      PROVE  /\ ~(add /\ x = sn) /\ ~(handover /\ x = target) => down'[x] = down[x]
             /\ add /\ x = sn => down'[x] = Append(down[x], am)
             /\ handover /\ x = target => down'[x] = Append(down[x], hm)
  <2>1. down[x] \in Seq(Msg(DownTypes))
    BY DEF TypeOK
  <2> DEFINE q == down[x]
  <2>2. down'[x] = (q \o A(x)) \o B(x)
    BY <1>3
  <2> HIDE DEF q
  <2>3. /\ (q \o << >>) \o << >> = q
        /\ (q \o <<am>>) \o << >> = Append(q, am)
        /\ (q \o << >>) \o <<hm>> = Append(q, hm)
    BY <1>2, <2>1, AppendSome DEF q
  <2>4. CASE ~(add /\ x = sn) /\ ~(handover /\ x = target)
    BY <2>2, <2>3, <2>4 DEF q
  <2>5. CASE add /\ x = sn
    <3>1. ~(handover /\ x = target)
      BY <2>5
    <3>2. A(x) = <<am>> /\ B(x) = << >>
      BY <2>5, <3>1
    <3> HIDE DEF A, B
    <3> QED  BY <2>2, <2>3, <2>5, <3>1, <3>2 DEF q
  <2>6. CASE handover /\ x = target
    <3>1. ~(add /\ x = sn)
      BY <2>6
    <3>2. A(x) = << >> /\ B(x) = <<hm>>
      BY <2>6, <3>1
    <3> HIDE DEF A, B
    <3> QED  BY <2>2, <2>3, <2>6, <3>1, <3>2 DEF q
  <2> QED  BY <2>4, <2>5, <2>6
<1> HIDE DEF add, handover
<1>5. ASSUME NEW x \in SNs
      PROVE  /\ down[x] \in Seq(Msg(DownTypes)) /\ Len(down[x]) \in Nat
             /\ DOMAIN down[x] = 1 .. Len(down[x])
  BY LenProperties DEF TypeOK
<1>6. ASSUME NEW x \in SNs, NEW m \in Msg(DownTypes)
      PROVE  /\ Append(down[x], m) \in Seq(Msg(DownTypes))
             /\ DOMAIN Append(down[x], m) = 1 .. Len(down[x]) + 1
             /\ \A i \in 1 .. Len(down[x]) : Append(down[x], m)[i] = down[x][i]
             /\ Append(down[x], m)[Len(down[x]) + 1] = m
  BY <1>5, AppendSome
<1>7. ASSUME NEW x \in SNs
      PROVE  /\ down'[x] \in Seq(Msg(DownTypes))
             /\ \A i \in DOMAIN down'[x] :
                \/ i \in DOMAIN down[x] /\ down'[x][i] = down[x][i]
                \/ add /\ x = sn /\ i = Len(down[x]) + 1 /\ down'[x][i] = am
                \/ handover /\ x = target /\ i = Len(down[x]) + 1 /\ down'[x][i] = hm
             /\ \A i \in DOMAIN down[x] :
                i \in DOMAIN down'[x] /\ down'[x][i] = down[x][i] /\ i < Len(down[x]) + 1
             /\ add /\ x = sn => Len(down[x]) + 1 \in DOMAIN down'[x]
                                 /\ down'[x][Len(down[x]) + 1] = am
  <2> DEFINE n == Len(down[x])
             q == down[x]
             a1 == Append(q, am)
             a2 == Append(q, hm)
  <2>1. /\ n \in Nat /\ DOMAIN q = 1 .. n /\ q \in Seq(Msg(DownTypes))
        /\ a1 \in Seq(Msg(DownTypes)) /\ DOMAIN a1 = 1 .. n + 1
        /\ (\A i \in 1 .. n : a1[i] = q[i]) /\ a1[n + 1] = am
        /\ a2 \in Seq(Msg(DownTypes)) /\ DOMAIN a2 = 1 .. n + 1
        /\ (\A i \in 1 .. n : a2[i] = q[i]) /\ a2[n + 1] = hm
    BY <1>2, <1>5, <1>6
  <2>2. /\ ~(add /\ x = sn) /\ ~(handover /\ x = target) => down'[x] = q
        /\ add /\ x = sn => down'[x] = a1
        /\ handover /\ x = target => down'[x] = a2
    BY <1>4
  <2> HIDE DEF n, q, a1, a2
  <2>3. /\ down'[x] \in Seq(Msg(DownTypes))
        /\ \A i \in DOMAIN down'[x] :
                \/ i \in DOMAIN q /\ down'[x][i] = q[i]
                \/ add /\ x = sn /\ i = n + 1 /\ down'[x][i] = am
                \/ handover /\ x = target /\ i = n + 1 /\ down'[x][i] = hm
        /\ \A i \in DOMAIN q :
                i \in DOMAIN down'[x] /\ down'[x][i] = q[i] /\ i < n + 1
        /\ add /\ x = sn => n + 1 \in DOMAIN down'[x] /\ down'[x][n + 1] = am
    BY <2>1, <2>2
  <2> QED  BY <2>3 DEF n, q
<1>8. down' \in [SNs -> Seq(Msg(DownTypes))]
  BY <1>3, <1>7
<1> QED  BY <1>1, <1>7, <1>8 DEF add, handover

\* A measurement report keeps the invariant.
LEMMA ReportStep ==
    ASSUME IInv, ~crashed, NEW u \in UEs, NEW best \in SNs, NEW target \in SNs,
           NEW beats \in BOOLEAN, MeasurementReport(u, best, target, beats)
    PROVE  IInv'
<1> DEFINE sn == SEC_CELL_SelectionAddition(u, best)
           am == [type |-> "ADDITION", ue |-> u, sn |-> sn, tsn |-> sn]
           hm == [type |-> "HO_ADDITION_REQUEST", ue |-> u, sn |-> sn, tsn |-> target]
           add == SNID[u] = NoNode
           handover == beats /\ target # sn
<1>1. /\ down' \in [SNs -> Seq(Msg(DownTypes))]
      /\ sn \in SNs
      /\ \A x \in SNs : \A i \in DOMAIN down'[x] :
            \/ i \in DOMAIN down[x] /\ down'[x][i] = down[x][i]
            \/ add /\ x = sn /\ i = Len(down[x]) + 1 /\ down'[x][i] = am
            \/ handover /\ x = target /\ i = Len(down[x]) + 1 /\ down'[x][i] = hm
      /\ \A x \in SNs : \A i \in DOMAIN down[x] :
            i \in DOMAIN down'[x] /\ down'[x][i] = down[x][i] /\ i < Len(down[x]) + 1
      /\ add => Len(down[sn]) + 1 \in DOMAIN down'[sn] /\ down'[sn][Len(down[sn]) + 1] = am
  BY ReportMessages DEF IInv
<1>2. /\ am.type = "ADDITION" /\ am.ue = u
      /\ hm.type = "HO_ADDITION_REQUEST" /\ hm.ue = u /\ hm.sn = sn /\ hm.tsn = target
  OBVIOUS
<1>3. add => sn = best
  BY DEF SEC_CELL_SelectionAddition
<1>4. ~add => sn = SNID[u]
  BY DEF SEC_CELL_SelectionAddition
<1>5. /\ SNID' = [SNID EXCEPT ![u] = sn]
      /\ UNCHANGED <<phyGnb, isAssociated, matrix, secRRCState, up, crashed>>
      /\ handled[u] < MaxReports
      /\ handled' = [handled EXCEPT ![u] = @ + 1]
      /\ overlapped' = IF handover /\ Pending(u) # {}
                       THEN overlapped \cup {u} ELSE overlapped
  BY DEF MeasurementReport, radio
<1> HIDE DEF sn, am, hm, add, handover
<1>6. /\ \A v \in UEs : (IsPending(am, v) <=> FALSE) /\ (IsAddition(am, v) <=> v = u)
      /\ \A v \in UEs : (IsPending(hm, v) <=> v = u) /\ (IsAddition(hm, v) <=> FALSE)
  BY <1>2 DEF IsPending, IsAddition
<1> USE DEF IInv
<1>7. TypeOK'
  <2>1. handled' \in [UEs -> 0 .. MaxReports]
    BY <1>5, SnHandoverAssumption DEF TypeOK
  <2> QED  BY <1>1, <1>5, <2>1 DEF TypeOK
<1>8. /\ \A v \in UEs : v # u => SNID'[v] = SNID[v]
      /\ SNID'[u] = sn /\ SNID'[u] # NoNode
      /\ ~add => SNID'[u] = SNID[u]
  BY <1>1, <1>4, <1>5, NoNodeAssumption DEF TypeOK, SNs
<1>9. add => \A x \in SNs :
                /\ u \notin isAssociated[x]
                /\ \A i \in DOMAIN down[x] : ~IsPending(down[x][i], u) /\ ~IsAddition(down[x][i], u)
                /\ \A i \in DOMAIN up[x] : ~IsPending(up[x][i], u)
  BY NoNodeAssumption DEF Located, NothingLeftBehind, add, SNs
<1>10. Located'
  <2>1. ASSUME NEW x \in SNs, NEW v \in UEs, NEW i \in DOMAIN down'[x]
        PROVE  /\ IsAddition(down'[x][i], v) => SNID'[v] = x
               /\ IsPending(down'[x][i], v) =>
                    /\ SNID'[v] # NoNode
                    /\ down'[x][i].sn # down'[x][i].tsn
                    /\ down'[x][i].type = "HO_RELEASE_REQUEST" => down'[x][i].sn = x
    <3>1. CASE i \in DOMAIN down[x] /\ down'[x][i] = down[x][i]
      BY <1>8, <1>9, <3>1 DEF Located
    <3>2. CASE x = sn /\ down'[x][i] = am
      BY <1>6, <1>8, <3>2
    <3>3. CASE handover /\ down'[x][i] = hm
      BY <1>2, <1>6, <1>8, <3>3 DEF handover
    <3> QED  BY <1>1, <3>1, <3>2, <3>3
  <2>2. ASSUME NEW x \in SNs, NEW v \in UEs, NEW i \in DOMAIN up'[x],
               IsPending(up'[x][i], v)
        PROVE  SNID'[v] # NoNode /\ up'[x][i].sn # up'[x][i].tsn
    BY <1>5, <1>8, <2>2 DEF Located
  <2> QED  BY <2>1, <2>2 DEF Located
<1>11. AdditionFirst'
  <2> SUFFICES ASSUME NEW x \in SNs, NEW v \in UEs, NEW i \in DOMAIN down'[x],
                      IsAddition(down'[x][i], v)
               PROVE  /\ \A y \in SNs : v \notin isAssociated'[y]
                      /\ \A j \in DOMAIN down'[x] : IsAddition(down'[x][j], v) => j = i
                      /\ \A y \in SNs : \A j \in DOMAIN down'[y] :
                            IsPending(down'[y][j], v) =>
                                /\ down'[y][j].sn = x
                                /\ down'[y][j].type = "HO_RELEASE_REQUEST" => i < j
                      /\ \A y \in SNs : \A j \in DOMAIN up'[y] :
                            IsPending(up'[y][j], v) => up'[y][j].sn = x
    BY DEF AdditionFirst
  <2>1. CASE i \in DOMAIN down[x] /\ IsAddition(down[x][i], v)
    <3>1. v = u => ~add /\ SNID[u] = x /\ sn = x
      BY <1>4, <1>9, <2>1 DEF Located
    <3>2. \A y \in SNs : v \notin isAssociated'[y]
      BY <1>5, <2>1 DEF AdditionFirst
    <3>3. \A j \in DOMAIN down'[x] : IsAddition(down'[x][j], v) => j = i
      BY <1>1, <1>6, <2>1, <3>1 DEF AdditionFirst
    <3>4. ASSUME NEW y \in SNs, NEW j \in DOMAIN down'[y], IsPending(down'[y][j], v)
          PROVE  /\ down'[y][j].sn = x
                 /\ down'[y][j].type = "HO_RELEASE_REQUEST" => i < j
      <4>1. CASE j \in DOMAIN down[y] /\ down'[y][j] = down[y][j]
        BY <2>1, <3>4, <4>1 DEF AdditionFirst
      <4>2. CASE down'[y][j] = am
        BY <1>6, <3>4, <4>2
      <4>3. CASE down'[y][j] = hm
        BY <1>2, <1>6, <3>1, <3>4, <4>3
      <4> QED  BY <1>1, <4>1, <4>2, <4>3
    <3>5. \A y \in SNs : \A j \in DOMAIN up'[y] : IsPending(up'[y][j], v) => up'[y][j].sn = x
      BY <1>5, <2>1 DEF AdditionFirst
    <3> QED  BY <3>2, <3>3, <3>4, <3>5
  <2>2. CASE add /\ x = sn /\ i = Len(down[x]) + 1 /\ down'[x][i] = am
    <3>1. v = u
      BY <1>6, <2>2
    <3>2. \A j \in DOMAIN down'[x] : IsAddition(down'[x][j], v) => j = i
      BY <1>1, <1>6, <1>9, <2>2, <3>1
    <3>3. ASSUME NEW y \in SNs, NEW j \in DOMAIN down'[y], IsPending(down'[y][j], v)
          PROVE  /\ down'[y][j].sn = x
                 /\ down'[y][j].type = "HO_RELEASE_REQUEST" => i < j
      <4>1. down'[y][j] = hm
        BY <1>1, <1>6, <1>9, <2>2, <3>1, <3>3
      <4> QED  BY <1>2, <2>2, <4>1
    <3> QED  BY <1>5, <1>9, <2>2, <3>1, <3>2, <3>3
  <2> QED  BY <1>1, <1>6, <2>1, <2>2
<1>12. OneAtATime'
  <2> SUFFICES ASSUME NEW v \in UEs \ overlapped', NEW x \in SNs, NEW y \in SNs
               PROVE  /\ \A i \in DOMAIN down'[x] : IsPending(down'[x][i], v) =>
                            /\ down'[x][i].sn = SNID'[v]
                            /\ \A j \in DOMAIN down'[y] :
                                  IsPending(down'[y][j], v) => x = y /\ i = j
                            /\ \A j \in DOMAIN up'[y] : ~IsPending(up'[y][j], v)
                      /\ \A i \in DOMAIN up'[x] : IsPending(up'[x][i], v) =>
                            /\ up'[x][i].sn = SNID'[v]
                            /\ \A j \in DOMAIN up'[y] :
                                  IsPending(up'[y][j], v) => x = y /\ i = j
    BY DEF OneAtATime
  <2>1. v \in UEs \ overlapped
    BY <1>5
  <2>2. CASE v = u /\ handover
    <3>1. \A z \in SNs : /\ \A i \in DOMAIN down[z] : ~IsPending(down[z][i], u)
                         /\ \A i \in DOMAIN up[z] : ~IsPending(up[z][i], u)
      BY <1>5, <2>2, NonePending
    <3>2. \A z \in SNs : \A i \in DOMAIN down'[z] : IsPending(down'[z][i], v) =>
              z = target /\ i = Len(down[z]) + 1 /\ down'[z][i] = hm
      BY <1>1, <1>6, <2>2, <3>1
    <3> QED  BY <1>2, <1>5, <1>8, <2>2, <3>1, <3>2
  <2>3. CASE ~(v = u /\ handover)
    <3>1. \A z \in SNs : \A i \in DOMAIN down'[z] : IsPending(down'[z][i], v) =>
              i \in DOMAIN down[z] /\ down'[z][i] = down[z][i]
      BY <1>1, <1>6, <2>3
    <3>2. ASSUME NEW z \in SNs,
                 \/ \E i \in DOMAIN down[z] : IsPending(down[z][i], v)
                 \/ \E i \in DOMAIN up[z] : IsPending(up[z][i], v)
          PROVE  SNID'[v] = SNID[v]
      BY <1>8, <1>9, <3>2
    <3> QED  BY <1>5, <2>1, <3>1, <3>2 DEF OneAtATime
  <2> QED  BY <2>2, <2>3
<1>13. ServingNodeServes'
  <2> SUFFICES ASSUME NEW v \in UEs, ~Adding(v)', SNID'[v] # NoNode
               PROVE  phyGnb'[v] = SNID'[v] /\ v \in isAssociated'[SNID'[v]]
    BY DEF ServingNodeServes
  <2>1. ~Adding(v)
    BY <1>1 DEF Adding
  <2>2. v = u => ~add
    BY <1>1, <1>2 DEF Adding
  <2>3. SNID'[v] = SNID[v]
    BY <1>8, <2>2
  <2> QED  BY <1>5, <2>1, <2>3 DEF ServingNodeServes
<1>14. NothingLeftBehind'
  <2> SUFFICES ASSUME NEW v \in UEs, NEW s \in SNs
               PROVE  /\ v \in isAssociated'[s] => s = SNID'[v]
                      /\ RowsOf(matrix'[s], v) # {} => v \in isAssociated'[s]
    BY DEF NothingLeftBehind
  <2> QED  BY <1>5, <1>8, <1>9 DEF NothingLeftBehind
<1>15. OneRow' /\ CrashNeedsOverlap'
  BY <1>5 DEF OneRow, CrashNeedsOverlap
<1> QED  BY <1>7, <1>10, <1>11, <1>12, <1>13, <1>14, <1>15

\* The first message on a wire of well-typed messages.
LEMMA HeadMsg ==
    ASSUME TypeOK, NEW s \in SNs
    PROVE  /\ down[s] # << >> =>
                /\ Head(down[s]) \in Msg(DownTypes) /\ 1 \in DOMAIN down[s]
                /\ Head(down[s]) = down[s][1]
           /\ up[s] # << >> =>
                /\ Head(up[s]) \in Msg(UpTypes) /\ 1 \in DOMAIN up[s]
                /\ Head(up[s]) = up[s][1]
<1>1. down[s] \in Seq(Msg(DownTypes)) /\ up[s] \in Seq(Msg(UpTypes))
  BY DEF TypeOK
<1>2. ASSUME NEW M, NEW q \in Seq(M), q # << >>
      PROVE  Head(q) \in M /\ 1 \in DOMAIN q /\ Head(q) = q[1]
  <2>1. Head(q) \in M /\ Head(q) = q[1] /\ Len(q) \in Nat \ {0}
    BY <1>2, HeadTailProperties, EmptySeq
  <2>2. DOMAIN q = 1 .. Len(q)
    BY LenProperties
  <2> QED  BY <2>1, <2>2
<1> QED  BY <1>1, <1>2

\* An SN handles the addition of a UE.
LEMMA AdditionStep ==
    ASSUME IInv, ~crashed, NEW s \in SNs, Secondary_Cell_Addition_Request_Recv(s)
    PROVE  IInv'
<1> USE DEF IInv
<1> DEFINE h == Head(down[s])
           u == h.ue
<1>1. /\ down[s] # << >> /\ h.type = "ADDITION"
      /\ phyGnb' = [phyGnb EXCEPT ![u] = s]
      /\ isAssociated' = [isAssociated EXCEPT ![s] = @ \cup {u}]
      /\ matrix' = [matrix EXCEPT ![s] = Add(@, s, u)]
      /\ Answer(s, "ADDITION_RESPONSE")
      /\ UNCHANGED <<SNID, secRRCState, handled, crashed, overlapped>>
  BY DEF Secondary_Cell_Addition_Request_Recv, DownIs
<1>2. h \in Msg(DownTypes) /\ 1 \in DOMAIN down[s] /\ h = down[s][1]
  BY <1>1, HeadMsg
<1> HIDE DEF h
<1>3. u \in UEs /\ IsAddition(down[s][1], u)
  BY <1>1, <1>2 DEF Msg, IsAddition
<1>4. SNID[u] = s /\ \A x \in SNs : u \notin isAssociated[x]
  BY <1>2, <1>3 DEF Located, AdditionFirst
<1>5. /\ \A x \in SNs : isAssociated'[x] = IF x = s THEN isAssociated[x] \cup {u} ELSE isAssociated[x]
      /\ isAssociated' \in [SNs -> SUBSET UEs]
      /\ phyGnb' \in [UEs -> SNs \cup {NoNode}] /\ phyGnb'[u] = s
      /\ \A v \in UEs : v # u => phyGnb'[v] = phyGnb[v]
  BY <1>1, <1>3 DEF TypeOK
<1>6. /\ Wires' /\ Located' /\ AdditionFirst' /\ OneAtATime'
      /\ \A v \in UEs : Adding(v) /\ ~Adding(v)' => IsAddition(h, v)
  <2>1. \A v \in UEs, x \in SNs : v \in isAssociated'[x] =>
            (\E y \in SNs : v \in isAssociated[y]) \/ (v = h.ue /\ h.type = "ADDITION")
    BY <1>1, <1>5
  <2>2. \A v \in UEs : SNID'[v] = SNID[v]
    BY <1>1
  <2> DEFINE t == "ADDITION_RESPONSE"
  <2>3. t \in UpTypes /\ Answer(s, t) /\ t # "HO_ADDITION_ACK"
    BY <1>1 DEF UpTypes
  <2> HIDE DEF t
  <2> QED  BY <1>1, <2>1, <2>2, <2>3, AnswerKeeps DEF h
<1>7. /\ matrix[s] \in Seq(Row(s)) /\ Unique(matrix[s]) /\ RowsOf(matrix[s], u) = {}
      /\ DOMAIN matrix = SNs
  BY <1>3, <1>4 DEF TypeOK, OneRow, NothingLeftBehind, Row, Unique
<1>8. /\ \A x \in SNs : x # s => matrix'[x] = matrix[x]
      /\ matrix'[s] = Add(matrix[s], s, u) /\ DOMAIN matrix' = SNs
  BY <1>1, <1>7
<1>9. /\ matrix'[s] \in Seq(Row(s)) /\ Unique(matrix'[s])
      /\ \A v : RowsOf(matrix'[s], v) # {} => v = u \/ RowsOf(matrix[s], v) # {}
  BY <1>3, <1>7, <1>8, AddRow
<1>10. TypeOK'
  <2>1. \A x \in SNs : matrix'[x] \in Seq(Row(x))
    BY <1>8, <1>9 DEF TypeOK, Row
  <2> QED  BY <1>1, <1>5, <1>6, <1>8, <2>1 DEF TypeOK, Wires, Row
<1>11. OneRow'
  BY <1>8, <1>9 DEF OneRow, Unique
<1>12. NothingLeftBehind'
  <2> SUFFICES ASSUME NEW v \in UEs, NEW x \in SNs
               PROVE  /\ v \in isAssociated'[x] => x = SNID'[v]
                      /\ RowsOf(matrix'[x], v) # {} => v \in isAssociated'[x]
    BY DEF NothingLeftBehind
  <2>1. v \in isAssociated'[x] => x = SNID'[v]
    BY <1>1, <1>4, <1>5 DEF NothingLeftBehind
  <2>2. RowsOf(matrix'[x], v) # {} => v \in isAssociated'[x]
    <3>1. CASE x = s
      BY <1>5, <1>9, <3>1 DEF NothingLeftBehind
    <3>2. CASE x # s
      BY <1>5, <1>8, <3>2 DEF NothingLeftBehind
    <3> QED  BY <3>1, <3>2
  <2> QED  BY <2>1, <2>2
<1>13. ServingNodeServes'
  <2> SUFFICES ASSUME NEW v \in UEs, ~Adding(v)', SNID'[v] # NoNode
               PROVE  phyGnb'[v] = SNID'[v] /\ v \in isAssociated'[SNID'[v]]
    BY DEF ServingNodeServes
  <2>1. CASE v = u
    BY <1>1, <1>4, <1>5, <2>1
  <2>2. CASE v # u
    <3>1. ~Adding(v)
      BY <1>6, <2>2 DEF IsAddition
    <3>2. phyGnb[v] = SNID[v] /\ v \in isAssociated[SNID[v]] /\ SNID[v] \in SNs
      BY <1>1, <3>1 DEF ServingNodeServes, TypeOK
    <3> QED  BY <1>1, <1>5, <2>2, <3>2
  <2> QED  BY <2>1, <2>2
<1>14. CrashNeedsOverlap'
  BY <1>1 DEF CrashNeedsOverlap
<1> QED  BY <1>6, <1>10, <1>11, <1>12, <1>13, <1>14

\* The old SN performs the switch.
LEMMA ReleaseStep ==
    ASSUME IInv, ~crashed, NEW s \in SNs, DC_HO_SN_RELEASE_RECV(s)
    PROVE  IInv'
<1> USE DEF IInv
<1> DEFINE h == Head(down[s])
           u == h.ue
           t == h.tsn
<1>1. /\ down[s] # << >> /\ h.type = "HO_RELEASE_REQUEST" /\ u \in isAssociated[s]
      /\ Switch(u, h.sn, t)
      /\ secRRCState' = [secRRCState EXCEPT ![u] = "INACTIVE"]
      /\ Answer(s, "HO_RELEASE_ACK")
      /\ UNCHANGED <<handled, crashed, overlapped>>
  BY DEF DC_HO_SN_RELEASE_RECV, DownIs
<1>2. h \in Msg(DownTypes) /\ 1 \in DOMAIN down[s] /\ h = down[s][1]
  BY <1>1, HeadMsg
<1> HIDE DEF h
<1>3. u \in UEs /\ t \in SNs /\ IsPending(down[s][1], u)
  BY <1>1, <1>2 DEF Msg, IsPending
<1>4. h.sn = s /\ s # t
  BY <1>1, <1>2, <1>3 DEF Located
<1>5. SNID[u] = s /\ \A x \in SNs : u \in isAssociated[x] => x = s
  BY <1>1, <1>3 DEF NothingLeftBehind
<1>6. ~Adding(u)
  BY <1>1, <1>3 DEF Adding, AdditionFirst, IsAddition
<1>7. /\ isAssociated' = [isAssociated EXCEPT ![t] = @ \cup {u}, ![s] = @ \ {u}]
      /\ phyGnb' = [phyGnb EXCEPT ![u] = t]
      /\ matrix' = [matrix EXCEPT ![t] = Add(@, t, u), ![s] = Remove(@, u)]
      /\ SNID' = [SNID EXCEPT ![u] = t]
  BY <1>1, <1>4 DEF Switch
<1>8. /\ \A x \in SNs : isAssociated'[x] = IF x = t THEN isAssociated[x] \cup {u}
                                           ELSE isAssociated[x] \ {u}
      /\ isAssociated' \in [SNs -> SUBSET UEs]
  <2>1. \A x \in SNs \ {s, t} : isAssociated[x] \ {u} = isAssociated[x]
    BY <1>5
  <2> QED  BY <1>3, <1>4, <1>7, <2>1, ZenonT(60) DEF TypeOK
<1>9. /\ SNID' \in [UEs -> SNs \cup {NoNode}] /\ SNID'[u] = t /\ t # NoNode
      /\ phyGnb' \in [UEs -> SNs \cup {NoNode}] /\ phyGnb'[u] = t
      /\ \A v \in UEs : v # u => SNID'[v] = SNID[v] /\ phyGnb'[v] = phyGnb[v]
      /\ secRRCState' \in [UEs -> {"IDLE", "CONNECTED", "INACTIVE"}]
  BY <1>1, <1>3, <1>7, NoNodeAssumption DEF TypeOK, SNs
<1>10. /\ Wires' /\ Located' /\ AdditionFirst' /\ OneAtATime'
       /\ \A v \in UEs : Adding(v) /\ ~Adding(v)' => IsAddition(h, v)
  <2>1. \A v \in UEs, x \in SNs : v \in isAssociated'[x] =>
            (\E y \in SNs : v \in isAssociated[y]) \/ (v = h.ue /\ h.type = "ADDITION")
    BY <1>1, <1>8
  <2>2. \A v \in UEs : \/ SNID'[v] = SNID[v]
                       \/ /\ v = h.ue /\ ~Adding(v) /\ h.type = "HO_RELEASE_REQUEST"
                          /\ SNID'[v] # NoNode
    BY <1>1, <1>6, <1>9
  <2> DEFINE a == "HO_RELEASE_ACK"
  <2>3. a \in UpTypes /\ Answer(s, a) /\ a # "HO_ADDITION_ACK"
    BY <1>1 DEF UpTypes
  <2> HIDE DEF a
  <2> QED  BY <1>1, <2>1, <2>2, <2>3, AnswerKeeps DEF h
<1>11. /\ matrix[s] \in Seq(Row(s)) /\ Unique(matrix[s])
       /\ matrix[t] \in Seq(Row(t)) /\ Unique(matrix[t]) /\ RowsOf(matrix[t], u) = {}
       /\ DOMAIN matrix = SNs
  BY <1>3, <1>4, <1>5 DEF TypeOK, OneRow, NothingLeftBehind, Row, Unique
<1>12. /\ \A x \in SNs \ {s, t} : matrix'[x] = matrix[x]
       /\ matrix'[t] = Add(matrix[t], t, u) /\ matrix'[s] = Remove(matrix[s], u)
       /\ DOMAIN matrix' = SNs
  BY <1>3, <1>4, <1>7, <1>11
<1>13. /\ matrix'[t] \in Seq(Row(t)) /\ Unique(matrix'[t])
       /\ \A v : RowsOf(matrix'[t], v) # {} => v = u \/ RowsOf(matrix[t], v) # {}
  BY <1>3, <1>11, <1>12, AddRow
<1>14. /\ matrix'[s] \in Seq(Row(s)) /\ Unique(matrix'[s]) /\ RowsOf(matrix'[s], u) = {}
       /\ \A v : RowsOf(matrix'[s], v) # {} => RowsOf(matrix[s], v) # {}
  BY <1>3, <1>11, <1>12, RemoveRow
<1>15. TypeOK'
  <2>1. \A x \in SNs : matrix'[x] \in Seq(Row(x))
    BY <1>12, <1>13, <1>14 DEF TypeOK, Row
  <2> QED  BY <1>1, <1>8, <1>9, <1>10, <1>12, <2>1 DEF TypeOK, Wires, Row
<1>16. OneRow'
  BY <1>12, <1>13, <1>14 DEF OneRow, Unique
<1>17. NothingLeftBehind'
  <2> SUFFICES ASSUME NEW v \in UEs, NEW x \in SNs
               PROVE  /\ v \in isAssociated'[x] => x = SNID'[v]
                      /\ RowsOf(matrix'[x], v) # {} => v \in isAssociated'[x]
    BY DEF NothingLeftBehind
  <2>1. v \in isAssociated'[x] => x = SNID'[v]
    BY <1>8, <1>9 DEF NothingLeftBehind
  <2>2. ASSUME RowsOf(matrix'[x], v) # {} PROVE v \in isAssociated'[x]
    <3>1. CASE x = t
      BY <1>8, <1>13, <2>2, <3>1 DEF NothingLeftBehind
    <3>2. CASE x = s
      BY <1>4, <1>8, <1>14, <2>2, <3>2 DEF NothingLeftBehind
    <3>3. CASE x \notin {s, t}
      BY <1>5, <1>8, <1>12, <2>2, <3>3 DEF NothingLeftBehind
    <3> QED  BY <3>1, <3>2, <3>3
  <2> QED  BY <2>1, <2>2
<1>18. ServingNodeServes'
  <2> SUFFICES ASSUME NEW v \in UEs, ~Adding(v)', SNID'[v] # NoNode
               PROVE  phyGnb'[v] = SNID'[v] /\ v \in isAssociated'[SNID'[v]]
    BY DEF ServingNodeServes
  <2>1. CASE v = u
    BY <1>3, <1>8, <1>9, <2>1
  <2>2. CASE v # u
    <3>1. ~Adding(v)
      BY <1>1, <1>10 DEF IsAddition
    <3>2. phyGnb[v] = SNID[v] /\ v \in isAssociated[SNID[v]] /\ SNID[v] \in SNs
      BY <1>9, <2>2, <3>1 DEF ServingNodeServes, TypeOK
    <3> QED  BY <1>8, <1>9, <2>2, <3>2
  <2> QED  BY <2>1, <2>2
<1>19. CrashNeedsOverlap'
  BY <1>1 DEF CrashNeedsOverlap
<1> QED  BY <1>10, <1>15, <1>16, <1>17, <1>18, <1>19

\* The null pointer: the UE has had two handovers at once, and is served.
LEMMA CrashStep ==
    ASSUME IInv, ~crashed, NEW s \in SNs, RELEASE_RECV_Crash(s)
    PROVE  IInv'
<1> USE DEF IInv
<1> DEFINE h == Head(down[s])
           u == h.ue
<1>1. /\ down[s] # << >> /\ h.type = "HO_RELEASE_REQUEST" /\ u \notin isAssociated[s]
      /\ crashed' = TRUE
      /\ UNCHANGED <<SNID, phyGnb, isAssociated, matrix, secRRCState, down, up,
                     handled, overlapped>>
  BY DEF RELEASE_RECV_Crash, DownIs, radio
<1>2. h \in Msg(DownTypes) /\ 1 \in DOMAIN down[s] /\ h = down[s][1]
  BY <1>1, HeadMsg
<1> HIDE DEF h
<1>3. u \in UEs /\ IsPending(down[s][1], u) /\ down[s][1].type = "HO_RELEASE_REQUEST"
  BY <1>1, <1>2 DEF Msg, IsPending
<1>4. h.sn = s /\ SNID[u] # NoNode
  BY <1>1, <1>2, <1>3 DEF Located
<1>5. ~Adding(u)
  <2> SUFFICES ASSUME NEW x \in SNs, NEW i \in DOMAIN down[x], IsAddition(down[x][i], u)
               PROVE  FALSE
    BY DEF Adding, IsAddition
  <2>1. i < 1 /\ i \in DOMAIN down[x]
    BY <1>2, <1>3 DEF AdditionFirst
  <2>2. i \in Nat \ {0}
    BY LenProperties DEF TypeOK
  <2> QED  BY <2>1, <2>2
<1>6. u \in isAssociated[SNID[u]]
  BY <1>3, <1>4, <1>5 DEF ServingNodeServes
<1>7. u \in overlapped
  BY <1>1, <1>2, <1>3, <1>4, <1>6 DEF OneAtATime
<1>8. CrashNeedsOverlap'
  BY <1>1, <1>6, <1>7 DEF CrashNeedsOverlap
<1>9. TypeOK'
  BY <1>1 DEF TypeOK
<1>10. Located' /\ AdditionFirst'
  BY <1>1 DEF Located, AdditionFirst
<1>11. OneAtATime' /\ OneRow'
  BY <1>1 DEF OneAtATime, OneRow
<1>12. NothingLeftBehind'
  BY <1>1 DEF NothingLeftBehind
<1>13. ServingNodeServes'
  <2>1. \A v \in UEs : Adding(v)' <=> Adding(v)
    BY <1>1 DEF Adding
  <2> QED  BY <1>1, <2>1 DEF ServingNodeServes
<1> QED  BY <1>8, <1>9, <1>10, <1>11, <1>12, <1>13

\* A step that moves messages only.
LEMMA QuietStep ==
    ASSUME IInv, ~crashed,
           UNCHANGED <<SNID, phyGnb, isAssociated, matrix, handled, crashed, overlapped>>,
           secRRCState' \in [UEs -> {"IDLE", "CONNECTED", "INACTIVE"}],
           Wires', Located', AdditionFirst', OneAtATime',
           \A v \in UEs : Adding(v) => Adding(v)'
    PROVE  IInv'
<1> USE DEF IInv
<1>1. TypeOK'
  BY DEF TypeOK, Wires
<1>2. OneRow' /\ CrashNeedsOverlap'
  BY DEF OneRow, CrashNeedsOverlap
<1>3. NothingLeftBehind'
  BY DEF NothingLeftBehind
<1>4. ServingNodeServes'
  BY DEF ServingNodeServes
<1> QED  BY <1>1, <1>2, <1>3, <1>4

\* An SN answers and does nothing else.
LEMMA QuietAnswer ==
    ASSUME IInv, ~crashed, NEW s \in SNs, NEW t \in UpTypes,
           down[s] # << >>, Head(down[s]).type # "ADDITION",
           t = "HO_ADDITION_ACK" => Head(down[s]).type = "HO_ADDITION_REQUEST",
           Answer(s, t),
           UNCHANGED <<SNID, radio, secRRCState, handled, crashed, overlapped>>
    PROVE  IInv'
<1>1. UNCHANGED <<SNID, phyGnb, isAssociated, matrix, secRRCState, handled, crashed, overlapped>>
  BY DEF radio
<1>2. /\ \A v \in UEs : SNID'[v] = SNID[v]
      /\ \A v \in UEs, x \in SNs : v \in isAssociated'[x] => \E y \in SNs : v \in isAssociated[y]
  BY <1>1
<1>3. /\ Wires' /\ Located' /\ AdditionFirst' /\ OneAtATime'
      /\ \A v \in UEs : Adding(v) /\ ~Adding(v)' => IsAddition(Head(down[s]), v)
  BY <1>1, <1>2, AnswerKeeps
<1>4. \A v \in UEs : Adding(v) => Adding(v)'
  BY <1>3 DEF IsAddition
<1>5. secRRCState' \in [UEs -> {"IDLE", "CONNECTED", "INACTIVE"}]
  BY <1>1 DEF IInv, TypeOK
<1> QED  BY <1>1, <1>3, <1>4, <1>5, QuietStep

\* MN passes a header on.
LEMMA ForwardStep ==
    ASSUME IInv, ~crashed, NEW s \in SNs, up[s] # << >>,
           NEW t \in {"HO_RELEASE_REQUEST", "HO_CONTEXT_RELEASE"},
           t = "HO_RELEASE_REQUEST" => Head(up[s]).type = "HO_ADDITION_ACK",
           Forward(s, Head(up[s]).sn, t),
           UNCHANGED <<SNID, radio, secRRCState, handled, crashed, overlapped>>
    PROVE  IInv'
<1> USE DEF IInv
<1> DEFINE h == Head(up[s])
           r == h.sn
           a == As(h, t)
<1>1. UNCHANGED <<SNID, phyGnb, isAssociated, matrix, secRRCState, handled, crashed, overlapped>>
  BY DEF radio
<1>2. /\ up' \in [SNs -> Seq(Msg(UpTypes))] /\ h \in Msg(UpTypes)
      /\ Taken(up, up', s)
  BY TakeLemma DEF TypeOK, Forward
<1>3. h = up[s][1]
  BY <1>2 DEF Taken
<1>4. /\ a \in Msg(DownTypes) /\ a.type = t
      /\ a.ue = h.ue /\ a.sn = h.sn /\ a.tsn = h.tsn /\ r \in SNs
  <2> HIDE DEF h
  <2>1. h \in Msg(UpTypes)
    BY <1>2
  <2> QED  BY <2>1 DEF As, Msg, DownTypes
<1>5. down' = AppendTo(down, r, a) /\ down \in [SNs -> Seq(Msg(DownTypes))]
  BY DEF Forward, AppendTo, TypeOK
<1> HIDE DEF a, h
<1>6. down' \in [SNs -> Seq(Msg(DownTypes))] /\ Put(down, down', r, a)
  BY <1>4, <1>5, PutLemma
<1>7. Grown(down, down', r, a)
  <2>1. \A x \in SNs : \A i \in DOMAIN down[x] : i < Len(down[x]) + 1
    <3>1. ASSUME NEW x \in SNs
          PROVE  DOMAIN down[x] = 1 .. Len(down[x]) /\ Len(down[x]) \in Nat
      BY <1>5, LenProperties
    <3> QED  BY <3>1
  <2> QED  BY <1>6, <2>1 DEF Put, Grown
<1>8. /\ Located' /\ AdditionFirst' /\ OneAtATime'
      /\ \A v \in UEs : Adding(v) => Adding(v)'
  <2>1. /\ a.type \in {"HO_RELEASE_REQUEST", "HO_CONTEXT_RELEASE"}
        /\ a.type = "HO_RELEASE_REQUEST" => h.type = "HO_ADDITION_ACK" /\ r = h.sn
    BY <1>4 DEF h
  <2> HIDE DEF r
  <2> QED  BY <1>1, <1>2, <1>3, <1>4, <1>7, <2>1, ForwardKeeps
<1>9. secRRCState' \in [UEs -> {"IDLE", "CONNECTED", "INACTIVE"}]
  BY <1>1 DEF TypeOK
<1> QED  BY <1>1, <1>2, <1>6, <1>8, <1>9, QuietStep DEF Wires

\* MN takes the last message of an exchange.
LEMMA TakeUpStep ==
    ASSUME IInv, ~crashed, NEW s \in SNs, up[s] # << >>,
           up' = [up EXCEPT ![s] = Tail(@)], down' = down,
           secRRCState' \in [UEs -> {"IDLE", "CONNECTED", "INACTIVE"}],
           UNCHANGED <<SNID, radio, handled, crashed, overlapped>>
    PROVE  IInv'
<1> USE DEF IInv
<1> DEFINE h == Head(up[s])
           a == As(h, "HO_CONTEXT_RELEASE")
<1>1. UNCHANGED <<SNID, phyGnb, isAssociated, matrix, handled, crashed, overlapped>>
  BY DEF radio
<1>2. /\ up' \in [SNs -> Seq(Msg(UpTypes))] /\ h \in Msg(UpTypes)
      /\ Taken(up, up', s)
  BY TakeLemma DEF TypeOK
<1>3. h = up[s][1]
  BY <1>2 DEF Taken
<1>4. /\ a.type = "HO_CONTEXT_RELEASE"
      /\ a.ue = h.ue /\ a.sn = h.sn /\ a.tsn = h.tsn
  <2> HIDE DEF h
  <2>1. h \in Msg(UpTypes)
    BY <1>2
  <2> QED  BY <2>1 DEF As, Msg
<1>5. Grown(down, down', s, a)
  <2> HIDE DEF a
  <2>1. ASSUME NEW x \in SNs
        PROVE  DOMAIN down[x] = 1 .. Len(down[x]) /\ Len(down[x]) \in Nat
    BY LenProperties DEF TypeOK
  <2> QED  BY <2>1 DEF Grown
<1> HIDE DEF a, h
<1>6. /\ Located' /\ AdditionFirst' /\ OneAtATime'
      /\ \A v \in UEs : Adding(v) => Adding(v)'
  <2>1. /\ a.type \in {"HO_RELEASE_REQUEST", "HO_CONTEXT_RELEASE"}
        /\ a.type # "HO_RELEASE_REQUEST"
    BY <1>4
  <2> QED  BY <1>1, <1>2, <1>3, <1>4, <1>5, <2>1, ForwardKeeps
<1>7. Wires'
  BY <1>2 DEF Wires, TypeOK
<1> QED  BY <1>1, <1>6, <1>7, QuietStep

-----------------------------------------------------------------------------
\* The initial states satisfy the inductive invariant.
LEMMA InitIInv == Init => IInv
<1> SUFFICES ASSUME Init PROVE IInv
  OBVIOUS
<1> USE DEF Init
<1>1. TypeOK
  <2>1. \A S : << >> \in Seq(S)
    OBVIOUS
  <2>2. /\ DOMAIN matrix = SNs
        /\ \A s \in SNs : matrix[s] \in Seq(Row(s))
    BY <2>1
  <2>3. /\ down \in [SNs -> Seq(Msg(DownTypes))]
        /\ up \in [SNs -> Seq(Msg(UpTypes))]
    BY <2>1
  <2>4. /\ SNID \in [UEs -> SNs \cup {NoNode}] /\ phyGnb \in [UEs -> SNs \cup {NoNode}]
        /\ secRRCState \in [UEs -> {"IDLE", "CONNECTED", "INACTIVE"}]
    OBVIOUS
  <2>5. handled \in [UEs -> 0 .. MaxReports]
    BY SnHandoverAssumption
  <2>6. crashed \in BOOLEAN /\ overlapped \in SUBSET UEs /\ isAssociated \in [SNs -> SUBSET UEs]
    BY Zenon
  <2> HIDE DEF Init
  <2> QED  BY <2>2, <2>3, <2>4, <2>5, <2>6 DEF TypeOK, Row
<1>2. \A s \in SNs : down[s] = << >> /\ up[s] = << >> /\ matrix[s] = << >>
  OBVIOUS
<1>3. Located /\ AdditionFirst /\ OneAtATime /\ OneRow
  BY <1>2 DEF Located, AdditionFirst, OneAtATime, OneRow
<1>4. ServingNodeServes /\ NothingLeftBehind /\ CrashNeedsOverlap
  BY <1>2 DEF ServingNodeServes, NothingLeftBehind, CrashNeedsOverlap, RowsOf
<1> QED  BY <1>1, <1>3, <1>4 DEF IInv

\* Every step keeps it.
LEMMA NextIInv == IInv /\ [Next]_vars => IInv'
<1> SUFFICES ASSUME IInv, [Next]_vars PROVE IInv'
  OBVIOUS
<1>1. CASE UNCHANGED vars
  <2>1. UNCHANGED <<SNID, phyGnb, isAssociated, matrix, secRRCState, down, up,
                    handled, crashed, overlapped>>
    BY <1>1 DEF vars
  <2>2. TypeOK'
    BY <2>1 DEF IInv, TypeOK
  <2>3. Located' /\ AdditionFirst'
    BY <2>1 DEF IInv, Located, AdditionFirst
  <2>4. OneAtATime' /\ OneRow' /\ NothingLeftBehind'
    BY <2>1 DEF IInv, OneAtATime, OneRow, NothingLeftBehind
  <2>5. \A v \in UEs : Adding(v)' <=> Adding(v)
    BY <2>1 DEF Adding
  <2>6. ServingNodeServes' /\ CrashNeedsOverlap'
    BY <2>1, <2>5 DEF IInv, ServingNodeServes, CrashNeedsOverlap
  <2> QED  BY <2>2, <2>3, <2>4, <2>6 DEF IInv
<1>2. ASSUME ~crashed, NEW u \in UEs, NEW best \in FIND_BEST_SN_CELL_FOR_UE,
             NEW target \in SNs, NEW beats \in BOOLEAN,
             MeasurementReport(u, best, target, beats)
      PROVE  IInv'
  BY <1>2, ReportStep DEF FIND_BEST_SN_CELL_FOR_UE
<1>3. ASSUME ~crashed, NEW s \in SNs, AtNode(s)
      PROVE  IInv'
  <2>1. CASE Secondary_Cell_Addition_Request_Recv(s)
    BY <1>3, <2>1, AdditionStep
  <2>2. CASE DC_HO_SN_ADDITION_REQUEST_RECV(s)
    <3> DEFINE t == "HO_ADDITION_ACK"
    <3>1. /\ t \in UpTypes /\ Answer(s, t)
          /\ down[s] # << >> /\ Head(down[s]).type # "ADDITION"
          /\ t = "HO_ADDITION_ACK" => Head(down[s]).type = "HO_ADDITION_REQUEST"
          /\ UNCHANGED <<SNID, radio, secRRCState, handled, crashed, overlapped>>
      BY <2>2 DEF DC_HO_SN_ADDITION_REQUEST_RECV, DownIs, UpTypes
    <3> HIDE DEF t
    <3> QED  BY <1>3, <3>1, QuietAnswer
  <2>3. CASE DC_HO_SN_RELEASE_RECV(s)
    BY <1>3, <2>3, ReleaseStep
  <2>4. CASE RELEASE_RECV_Crash(s)
    BY <1>3, <2>4, CrashStep
  <2>5. CASE DC_HO_SN_UE_CONTEXT_RELEASE_RECV(s)
    <3> DEFINE t == "HO_CONTEXT_RELEASE_ACK"
    <3>1. /\ t \in UpTypes /\ Answer(s, t)
          /\ down[s] # << >> /\ Head(down[s]).type # "ADDITION"
          /\ t # "HO_ADDITION_ACK"
          /\ UNCHANGED <<SNID, radio, secRRCState, handled, crashed, overlapped>>
      BY <2>5 DEF DC_HO_SN_UE_CONTEXT_RELEASE_RECV, DownIs, UpTypes
    <3> HIDE DEF t
    <3> QED  BY <1>3, <3>1, QuietAnswer
  <2> QED  BY <1>3, <2>1, <2>2, <2>3, <2>4, <2>5 DEF AtNode
<1>4. ASSUME ~crashed, NEW s \in SNs, AtMaster(s)
      PROVE  IInv'
  <2>1. CASE Secondary_Cell_Addition_Response_Recv(s)
    <3>1. /\ up[s] # << >> /\ up' = [up EXCEPT ![s] = Tail(@)] /\ down' = down
          /\ UNCHANGED <<SNID, radio, handled, crashed, overlapped>>
          /\ secRRCState' = [secRRCState EXCEPT ![Head(up[s]).ue] = "CONNECTED"]
      BY <2>1 DEF Secondary_Cell_Addition_Response_Recv, UpIs
    <3>2. secRRCState' \in [UEs -> {"IDLE", "CONNECTED", "INACTIVE"}]
      BY <3>1 DEF IInv, TypeOK
    <3> QED  BY <1>4, <3>1, <3>2, TakeUpStep
  <2>2. CASE DC_HO_SN_ADDITION_REQUEST_ACK_RECV(s)
    <3> DEFINE t == "HO_RELEASE_REQUEST"
    <3>1. /\ t \in {"HO_RELEASE_REQUEST", "HO_CONTEXT_RELEASE"}
          /\ up[s] # << >> /\ Head(up[s]).type = "HO_ADDITION_ACK"
          /\ Forward(s, Head(up[s]).sn, t)
          /\ UNCHANGED <<SNID, radio, secRRCState, handled, crashed, overlapped>>
      BY <2>2 DEF DC_HO_SN_ADDITION_REQUEST_ACK_RECV, UpIs
    <3> HIDE DEF t
    <3> QED  BY <1>4, <3>1, ForwardStep
  <2>3. CASE DC_HO_SN_RELEASE_REQUEST_ACK_RECV(s)
    <3> DEFINE t == "HO_CONTEXT_RELEASE"
    <3>1. /\ t \in {"HO_RELEASE_REQUEST", "HO_CONTEXT_RELEASE"}
          /\ up[s] # << >> /\ t # "HO_RELEASE_REQUEST"
          /\ Forward(s, Head(up[s]).sn, t)
          /\ UNCHANGED <<SNID, radio, secRRCState, handled, crashed, overlapped>>
      BY <2>3 DEF DC_HO_SN_RELEASE_REQUEST_ACK_RECV, UpIs
    <3> HIDE DEF t
    <3> QED  BY <1>4, <3>1, ForwardStep
  <2>4. CASE DC_HO_SN_UE_CONTEXT_RELEASE_ACK_RECV(s)
    <3>1. /\ up[s] # << >> /\ up' = [up EXCEPT ![s] = Tail(@)] /\ down' = down
          /\ UNCHANGED <<SNID, radio, secRRCState, handled, crashed, overlapped>>
      BY <2>4 DEF DC_HO_SN_UE_CONTEXT_RELEASE_ACK_RECV, UpIs
    <3>2. secRRCState' \in [UEs -> {"IDLE", "CONNECTED", "INACTIVE"}]
      BY <3>1 DEF IInv, TypeOK
    <3> QED  BY <1>4, <3>1, <3>2, TakeUpStep
  <2> QED  BY <1>4, <2>1, <2>2, <2>3, <2>4 DEF AtMaster
<1> QED  BY <1>1, <1>2, <1>3, <1>4 DEF Next

LEMMA Inductive == Spec => []IInv
<1>1. Init => IInv
  BY InitIInv
<1>2. IInv /\ [Next]_vars => IInv'
  BY NextIInv
<1> QED  BY <1>1, <1>2, PTL DEF Spec

\* The state always has its type.
THEOREM TypeCorrect == Spec => []TypeOK
<1>1. IInv => TypeOK
  BY DEF IInv
<1> QED  BY <1>1, Inductive, PTL

\* The node MN records for a UE (ueRRC->SNID) is the one the UE's PHY points at
\* and one that has it associated, from the moment it has handled the addition
\* and however many handovers overlap.
THEOREM MasterAndRadioAgree == Spec => []ServingNodeServes
<1>1. IInv => ServingNodeServes
  BY DEF IInv
<1> QED  BY <1>1, Inductive, PTL

\* No other SN ever has the UE associated or keeps a matrix row for it: the
\* switch in fn_NetSim_LTENR_DC_HO_SN_RELEASE_RECV leaves nothing behind.
THEOREM SwitchLeavesNothing == Spec => []NothingLeftBehind
<1>1. IInv => NothingLeftBehind
  BY DEF IInv
<1> QED  BY <1>1, Inductive, PTL

\* The null pointer of LTENR_RLC_UNESTABLISHENTITY is only reached after two
\* handovers of a UE have been under way at once.
THEOREM CrashOnlyByOverlap == Spec => []CrashNeedsOverlap
<1>1. IInv => CrashNeedsOverlap
  BY DEF IInv
<1> QED  BY <1>1, Inductive, PTL
=============================================================================
