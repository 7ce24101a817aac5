---------------------------- MODULE NrDataPlane ----------------------------
(***************************************************************************)
(* The downlink user plane of one UE: PDCP and RLC (unacknowledged mode,   *)
(* which LTENR_SDAP_SETMODE gives all data), the HARQ processes, the slot  *)
(* of the MAC, and RLC and PDCP of the UE, across handovers.               *)
(*                                                                         *)
(* A PDU has the identity of its SDU (id, its COUNT) and len bytes of its  *)
(* payload.  Of the SDU's segments in the RLC all but the last are cut off *)
(* in front; what remains keeps the same sequence number and the next      *)
(* offset (so; 0: not segmented).  The PDCP header is written once, by the *)
(* sender, from the COUNT: PDCP_ADDHDR(id) is its sequence number.         *)
(*                                                                         *)
(* Left out because the code cannot reach it: RX_Next_Highest is written   *)
(* only when sn < RX_Next_Highest and starts at 0, so no UMD PDU is        *)
(* dropped for the window and t_Reassembly never starts; RX_REORD is       *)
(* written only when RX_DELIV < RX_REORD and starts at 0, so t-Reordering  *)
(* never starts.                                                           *)
(***************************************************************************)
EXTENDS Integers, Sequences, FiniteSets, SequencesExt, FiniteSetsExt

CONSTANTS
    maxProcessCount,    \* HARQ processes
    retryLimit,         \* HARQ_RetryLimit (0 when HARQ is disabled)
    Sizes,              \* payload sizes of the SDUs
    Overhead,           \* dOverhead: dPacketSize - dPayload of a packet
    MinPdu,             \* MIN_RLC_PDU_SIZE
    PrbBytes,           \* bitsPerPRB / 8
    MaxPrb,             \* PRBs of a slot
    SnRange,            \* 2^LTENR_PDCP_SN_SIZE
    isoutOfOrderDelivery,
    Word,               \* 2^32, the range of UINT
    MaxUnderWay,        \* bound on the SDUs the sender is ahead of the UE
    First,              \* COUNT of the first SDU: those before were delivered
    MaxSdus,            \* bound on the SDUs
    MaxHandovers        \* bound on the handovers

ASSUME NrDataPlaneAssumption ==
    /\ {maxProcessCount, MinPdu, PrbBytes, Word} \subseteq Nat \ {0}
    /\ {retryLimit, Overhead, MaxPrb, SnRange, First, MaxUnderWay, MaxSdus, MaxHandovers}
           \subseteq Nat
    /\ Sizes \subseteq Nat \ {0}
    /\ SnRange % 2 = 0 /\ isoutOfOrderDelivery \in BOOLEAN
    /\ 2 * MaxUnderWay + 2 < SnRange     \* fewer than the window

VARIABLES
    size,           \* sizes of the SDUs accepted: TX_NEXT = First + Len(size)
    copies,         \* packets in the PDCP transmission buffer
    discardTimer,   \* isDiscardTimerStarted
    txBuf,          \* RLC transmission buffer: packets [id, len, so]
    TX_Next,        \* SN of the next segmented SDU
    bufferStatus,   \* what RLC reports to the MAC (UINT)
    current,        \* currentProcessId
    process,        \* [1 .. maxProcessCount -> [pkts, n]]
    air,            \* MAC_IN events: [cell, pkts], in order
    cell,           \* the serving cell, numbered by the handovers so far
    rx,             \* RLC and PDCP of the UE, a record
    lost            \* history: SDUs a segment of which was freed

pdcpTx == <<size, copies, discardTimer>>
rlcTx == <<txBuf, TX_Next, bufferStatus>>
harq == <<current, process>>
vars == <<pdcpTx, rlcTx, harq, air, cell, rx, lost>>

Ids(pkts) == {p.id : p \in ToSet(pkts)}
Processes == 1 .. maxProcessCount
Sns == 0 .. MaxSdus - 1     \* at most one SN for each SDU
Idle == [pkts |-> << >>, n |-> 0]

\* The sequence numbers the sender uses, 0xFFF of the 2^12 there are, and
\* LTENR_PDCP_ADDHDR: the one in the header of the SDU with COUNT sn.
POW_2_SN_SIZE == SnRange - 1
PDCP_ADDHDR(sn) == sn % POW_2_SN_SIZE

\* The COUNT the UE has for that SDU: one more for each time the sender's
\* sequence number has wrapped around before its range is used up.
Counted(c) == c + c \div POW_2_SN_SIZE

\* The UE: the segments in the UM reception buffer of each SN, PDCP's RX_DELIV,
\* RX_NEXT and receive buffer (COUNT and packet), the packets handed up, and
\* (history) the SDUs discarded as duplicates.
Init ==
    /\ size = << >> /\ copies = 0 /\ discardTimer = FALSE
    /\ txBuf = << >> /\ TX_Next = 0 /\ bufferStatus = 0
    /\ current = 0 /\ process = [p \in Processes |-> Idle]
    /\ air = << >> /\ cell = 0
    /\ rx = [segments |-> [sn \in Sns |-> << >>],
             RX_DELIV |-> IF First = 0 THEN 0 ELSE Counted(First - 1),
             RX_NEXT |-> IF First = 0 THEN 0 ELSE Counted(First - 1) + 1,
             receive |-> {}, handed |-> << >>, late |-> {}]
    /\ lost = {}

----------------------------------------------------------------------------
(* Sender: PDCP and the RLC buffer. *)

\* The SDUs a part of which has still to reach the UE, and the last handed up.
InHarq == UNION {Ids(process[p].pkts) : p \in Processes}
OnAir == UNION {Ids(tb.pkts) : tb \in ToSet(air)}
Pending == Ids(txBuf) \cup InHarq \cup OnAir
LastHanded == IF rx.handed = << >> THEN First - 1 ELSE Last(rx.handed).id

\* The bound MaxUnderWay on the load: the next SDU is so close to all that is
\* pending and to what the UE waits for.  PDCP itself keeps no such window.
InWindow == \A c \in Pending \cup {LastHanded + 1} : First + Len(size) - c < MaxUnderWay

\* fn_NetSim_LTENR_PDCP_TransmitPDCPSDU with LTENR_PDCP_TXBUFFER_ENQUEUE, and
\* LTENR_RLC_UM_HandlePDUFromUpperLayer.
TransmitPDCPSDU(n) ==
    /\ Len(size) < MaxSdus /\ InWindow
    /\ size' = Append(size, n)
    /\ copies' = copies + 1
    /\ discardTimer' = TRUE
    /\ txBuf' = Append(txBuf, [id |-> First + Len(size), len |-> n, so |-> 0])
    /\ bufferStatus' = (bufferStatus + n) % Word
    /\ UNCHANGED <<TX_Next, harq, air, cell, rx, lost>>

\* Mutant: the timer is set again even when no packet is left.
RESET_DISCARD_TIMER_Always(left) == TRUE

\* LTENR_PDCP_RESET_DISCARD_TIMER.
RESET_DISCARD_TIMER(left) == left > 0

\* LTENR_PDCP_HANDLE_DISCARD_TIMER: the packet at the head is due, and
\* perhaps others.
HANDLE_DISCARD_TIMER(k) ==
    /\ discardTimer /\ k \in 1 .. copies
    /\ copies' = copies - k
    /\ discardTimer' = RESET_DISCARD_TIMER(copies - k)
    /\ UNCHANGED <<size, rlcTx, harq, air, cell, rx, lost>>

----------------------------------------------------------------------------
(* Slot: the grant, the RLC PDUs, the HARQ process. *)

Payload(pkts) ==
    LET sum[i \in 0 .. Len(pkts)] == IF i = 0 THEN 0 ELSE sum[i - 1] + pkts[i].len
    IN sum[Len(pkts)]

\* LTENR_PRB_AllocatePRB for a UE to which prb PRBs are available.
Grant(prb) == PrbBytes * Min({prb, (bufferStatus + PrbBytes - 1) \div PrbBytes})

\* The first k packets fit: before each, at least MinPdu bytes are left and no
\* fewer than its dPacketSize.  Only the payloads are counted as used.
Fits(grant, k) ==
    \A i \in 1 .. k :
        LET left == grant - Payload(SubSeq(txBuf, 1, i - 1))
        IN left >= MinPdu /\ txBuf[i].len + Overhead <= left
Whole(grant) ==
    CHOOSE k \in 0 .. Len(txBuf) :
        Fits(grant, k) /\ (k < Len(txBuf) => ~Fits(grant, k + 1))

\* LTENR_RLC_UM_ADD_HDR, LTENR_RLC_UM_FRAGMENT_PACKET: the PDU made of a packet
\* or of its remainder, and of its first bytes; what remains then.
ADD_HDR(p, sn) ==
    [id |-> p.id, len |-> p.len, so |-> p.so,
     sn |-> IF p.so = 0 THEN 0 ELSE sn, si |-> IF p.so = 0 THEN "ALL" ELSE "LAST"]
FRAGMENT_PACKET(p, bytes, sn) ==
    [id |-> p.id, len |-> bytes, so |-> p.so,
     sn |-> sn, si |-> IF p.so = 0 THEN "FIRST" ELSE "MIDDLE"]
Remainder(p, bytes) == [id |-> p.id, len |-> p.len - bytes, so |-> p.so + 1]

\* TX_Next after the packets: it advances with the last segment of an SDU (the
\* head of the buffer is the only packet that can have been segmented before).
NextSn(pkts) == IF pkts # << >> /\ Head(pkts).so > 0 THEN TX_Next + 1 ELSE TX_Next

\* Mutant: the buffer status is reduced by dPacketSize.
Reduced_PacketSize(pdus) ==
    (bufferStatus - Payload(pdus) - Overhead * Len(pdus)) % Word

\* bufferStatus after the PDUs; (UINT) of a negative dPayload wraps around.
Reduced(pdus) == (bufferStatus - Payload(pdus)) % Word

\* LTENR_RLC_UM_SEND_PDU with room for k whole packets, after which left bytes
\* are left: a segment of the next one if that is at least MinPdu.  Its length
\* is what is left even when that exceeds the payload (dPayload <= left <
\* dPacketSize): the remainder then has a length of zero or less.
SEND_PDU(k, left) ==
    LET cut == k < Len(txBuf) /\ left >= MinPdu
        sn == NextSn(SubSeq(txBuf, 1, k))
        whole == [i \in 1 .. k |-> ADD_HDR(txBuf[i], TX_Next)]
        pdus == IF cut THEN Append(whole, FRAGMENT_PACKET(txBuf[k + 1], left, sn)) ELSE whole
        rest == SubSeq(txBuf, k + 1, Len(txBuf))
    IN  [pdus |-> pdus, TX_Next |-> sn, status |-> Reduced(pdus),
         buf |-> IF cut THEN [rest EXCEPT ![1] = Remainder(@, left)] ELSE rest]

\* Mutant: the counter is not advanced.
TransmissionNumber_Same(p) == process[p].n

\* SetNDI: transmissionNumber of a process that holds a TB.
TransmissionNumber(p) == process[p].n + 1

\* Mutant: as many retransmissions as the limit, after the first transmission.
GivesUp_Later(n) == n > retryLimit

\* SetNDI: all attempts have been made.
GivesUp(n) == n >= retryLimit

\* Mutant: a TB is overwritten by new data while it waits for retransmission.
SetNDI_Always(p) == TRUE

\* SetNDI: the process takes new data if it is empty, or gives its TB up.
SetNDI(p) == process[p].pkts = << >> \/ GivesUp(TransmissionNumber(p))

\* IncreaseProcessNumber of fn_NetSim_LTENR_HARQ_HandleSlotStart.
NextProcess == (current % maxProcessCount) + 1

\* LTENR_MACScheduler_UpdateInfoForUE: a process that keeps its TB gets no
\* grant for new data.
GrantFor(p, prb) == IF SetNDI(p) THEN Grant(prb) ELSE 0

\* fn_NetSim_LTENR_HARQ_StoreDLPacket: what process p has to transmit.
StoreDLPacket(p, pdus) == IF SetNDI(p) THEN pdus ELSE process[p].pkts

\* SendToReceiver and AddMACINEvent: without error the TB becomes the MAC_IN
\* event of the end of the slot.
SendToReceiver(p, pkts, error) ==
    /\ process' = [process EXCEPT ![p] =
           [pkts |-> IF error THEN pkts ELSE << >>,
            n |-> IF SetNDI(p) THEN 0 ELSE TransmissionNumber(p)]]
    /\ air' = IF ~error /\ pkts # << >>
              THEN Append(air, [cell |-> cell, pkts |-> pkts]) ELSE air

(***************************************************************************)
(* LTENR_NotifyMACForStartingSlot: the next process, new data or the old   *)
(* TB, transmission with error or not.  The slot before last has ended.    *)
(***************************************************************************)
StartingSlot(prb, error) ==
    /\ Len(air) <= 1
    /\ \E p \in {NextProcess} : \E grant \in {GrantFor(p, prb)} :
       \E k \in {Whole(grant)} :
       \E new \in {SEND_PDU(k, grant - Payload(SubSeq(txBuf, 1, k)))} :
       \E pkts \in {StoreDLPacket(p, new.pdus)} :
            /\ error => pkts # << >>
            /\ current' = p
            /\ txBuf' = new.buf /\ TX_Next' = new.TX_Next /\ bufferStatus' = new.status
            /\ SendToReceiver(p, pkts, error)
            /\ lost' = IF SetNDI(p) THEN lost \cup Ids(process[p].pkts) ELSE lost
    /\ UNCHANGED <<pdcpTx, cell, rx>>

----------------------------------------------------------------------------
(* Receiver: MAC, RLC and PDCP of the UE. *)

\* Mutant: any lower sequence number is taken for one that has wrapped around.
RECV_COUNT_NoWindow(deliv, sn) ==
    SnRange * (deliv \div SnRange + (IF sn < deliv % SnRange THEN 1 ELSE 0)) + sn

\* LTENR_PDCP_CALCULATE_STATE_VARIABLE.
RECV_COUNT(deliv, sn) ==
    LET delvSN == deliv % SnRange
        window == SnRange \div 2
        hfn == deliv \div SnRange + (IF sn < delvSN - window THEN 1
                                     ELSE IF sn >= delvSN + window THEN -1 ELSE 0)
    IN SnRange * hfn + sn

\* The receive buffer is sorted by COUNT: its head, and the order of elements.
HeadOf(buf) == CHOOSE e \in buf : \A f \in buf : e.count <= f.count
Sorted(elements) ==
    CHOOSE q \in [1 .. Cardinality(elements) -> elements] :
        \A i, j \in DOMAIN q : i < j => q[i].count <= q[j].count /\ q[i] # q[j]

\* LTENR_PDCP_RXBUFFER_ENQUEUE: RX_DELIV becomes the COUNT at the head of the
\* sorted buffer.
RXBUFFER_ENQUEUE(r, count, p) ==
    LET buf == r.receive \cup {[count |-> count, p |-> p]}
    IN [r EXCEPT !.receive = buf, !.RX_DELIV = HeadOf(buf).count]

\* LTENR_PDCP_DeliverSDUToUpperLayer: with out-of-order delivery, the head;
\* otherwise, if the PDU received is the head, also all that follow it
\* without a gap, and RX_DELIV becomes the COUNT after the gap.
DeliverSDUToUpperLayer(r, count) ==
    LET run == {e \in r.receive :
                    \A c \in r.RX_DELIV .. e.count : \E f \in r.receive : f.count = c}
        up == IF isoutOfOrderDelivery THEN {HeadOf(r.receive)}
              ELSE IF count = r.RX_DELIV THEN run ELSE {}
        order == Sorted(up)
        rest == r.receive \ up
        gap == ~isoutOfOrderDelivery /\ count = r.RX_DELIV /\ rest # {}
    IN  [r EXCEPT !.receive = rest,
                  !.handed = @ \o [i \in DOMAIN order |-> order[i].p],
                  !.RX_DELIV = IF gap THEN HeadOf(rest).count ELSE @]

\* LTENR_PDCP_ISDUPLICATEPDU.
ISDUPLICATEPDU(r, count) == count < r.RX_DELIV

\* fn_NetSim_LTENR_PDCP_ReceivePDCPSDU with the state variables.
ReceivePDCPSDU(r, id, bytes) ==
    LET count == RECV_COUNT(r.RX_DELIV, PDCP_ADDHDR(id))
        s == RXBUFFER_ENQUEUE(r, count, [id |-> id, len |-> bytes])
        t == [s EXCEPT !.RX_NEXT = IF count >= @ THEN count + 1 ELSE @]
    IN  IF ISDUPLICATEPDU(r, count) THEN [r EXCEPT !.late = @ \cup {id}]
        ELSE DeliverSDUToUpperLayer(t, count)

\* Mutant: the last segment completes the SDU.
AllByteSegmentReceived_Last(segs) == \E p \in segs : p.si = "LAST"

\* LTENR_RLC_UM_isAllByteSegmentReceived for the segments of one SN.
AllByteSegmentReceived(segs) ==
    \E p \in segs : p.si = "LAST" /\ \A i \in 0 .. p.so - 1 : \E q \in segs : q.so = i

\* LTENR_RLC_UM_ReassembleAllBytes: the packet received first gets the payload
\* of all.
ReassembleAllBytes(segs) == [id |-> Head(segs).id, len |-> Payload(segs)]

\* Mutant: only the arrival of the last segment can complete an SDU.
PLACE_IN_RECEPTIONBUFFER_OnLast(r, p) ==
    LET segs == Append(r.segments[p.sn], p)
        sdu == ReassembleAllBytes(segs)
    IN  IF p.si = "LAST" /\ AllByteSegmentReceived(ToSet(segs))
        THEN ReceivePDCPSDU([r EXCEPT !.segments[p.sn] = << >>], sdu.id, sdu.len)
        ELSE [r EXCEPT !.segments[p.sn] = segs]

\* LTENR_RLC_UM_PLACE_UMDPDU_IN_RECEPTIONBUFFER.
PLACE_IN_RECEPTIONBUFFER(r, p) ==
    LET segs == Append(r.segments[p.sn], p)
        sdu == ReassembleAllBytes(segs)
    IN  IF AllByteSegmentReceived(ToSet(segs))
        THEN ReceivePDCPSDU([r EXCEPT !.segments[p.sn] = << >>], sdu.id, sdu.len)
        ELSE [r EXCEPT !.segments[p.sn] = segs]

\* LTENR_RLC_UM_RECEIVE_PDU: an SDU that was not segmented goes to PDCP at once.
RECEIVE_PDU(r, p) ==
    IF p.si = "ALL" THEN ReceivePDCPSDU(r, p.id, p.len)
    ELSE PLACE_IN_RECEPTIONBUFFER(r, p)

\* The UE after the packets of a TB, one after the other.
Received(r, pkts) ==
    LET after[i \in 0 .. Len(pkts)] ==
            IF i = 0 THEN r ELSE RECEIVE_PDU(after[i - 1], pkts[i])
    IN after[Len(pkts)]

\* The simulator dispatches the next MAC_IN event.
MacInEvent == air # << >> /\ air' = Tail(air)

\* macIn at the UE: the TB is received, unless it comes from a cell the UE is no
\* longer associated with.
macIn ==
    /\ MacInEvent
    /\ LET tb == Head(air)
       IN  IF tb.cell = cell
           THEN rx' = Received(rx, tb.pkts) /\ UNCHANGED lost
           ELSE lost' = lost \cup Ids(tb.pkts) /\ UNCHANGED rx
    /\ UNCHANGED <<pdcpTx, rlcTx, harq, cell>>

----------------------------------------------------------------------------
(* Handover. *)

\* Mutant: the RLC entity of the new cell starts with its own numbers.
UM_Transfer_Fresh == TX_Next' = 0

\* tar->UM = ser->UM in fn_NetSim_LTENR_NAS_RLC_BUFFER_TRANSFER: with it the
\* sequence number of a packet segmented at the old cell.
UM_Transfer == UNCHANGED TX_Next

\* The switch of fn_NetSim_LTENR_NAS_GENERATE_HANDOVER_COMMAND_HANDLE for the
\* user plane: buffers and state variables of PDCP and RLC go to the new cell
\* on both sides; its HARQ processes are new, those of the old cell are freed
\* with what they hold (FreeHARQ); the discard timer of the old entity is
\* deleted and the new one has none.
GENERATE_HANDOVER_COMMAND_HANDLE ==
    /\ cell < MaxHandovers
    /\ cell' = cell + 1
    /\ current' = 0 /\ process' = [p \in Processes |-> Idle]
    /\ lost' = lost \cup UNION {Ids(process[p].pkts) : p \in Processes}
    /\ discardTimer' = FALSE
    /\ UM_Transfer
    /\ UNCHANGED <<size, copies, txBuf, bufferStatus, air, rx>>

----------------------------------------------------------------------------
Next ==
    \/ \E n \in Sizes : TransmitPDCPSDU(n)
    \/ \E k \in 1 .. MaxSdus : HANDLE_DISCARD_TIMER(k)
    \/ \E prb \in 0 .. MaxPrb, error \in BOOLEAN : StartingSlot(prb, error)
    \/ macIn
    \/ GENERATE_HANDOVER_COMMAND_HANDLE

Spec == Init /\ [][Next]_vars

\* Slots and MAC_IN events come for ever, and again and again the scheduler
\* has a PRB for the UE.  SDUs, timers and handovers need not come.
FairSpec ==
    /\ Spec
    /\ WF_vars(\E prb \in 1 .. MaxPrb, error \in BOOLEAN : StartingSlot(prb, error))
    /\ WF_air(MacInEvent)

----------------------------------------------------------------------------
Accepted == First .. First + Len(size) - 1
Handed == Ids(rx.handed)

Packet == [id : Accepted, len : Int, so : Nat]
Pdu == [id : Accepted, len : Int, so : Nat, sn : Nat, si : {"ALL", "FIRST", "MIDDLE", "LAST"}]

\* The type of the state; a HARQ process is never transmitted more often than
\* the limit allows (once if it is 0), whatever SetNDI has counted, and has
\* lost no packet of its TB while it waits (LTENR_HARQ.c:404-428).
TypeOK ==
    /\ size \in Seq(Sizes) /\ Len(size) <= MaxSdus
    /\ copies \in 0 .. MaxSdus /\ discardTimer \in BOOLEAN
    /\ txBuf \in Seq(Packet) /\ TX_Next \in Nat /\ bufferStatus \in 0 .. Word - 1
    /\ current \in 0 .. maxProcessCount
    /\ \A p \in Processes :
        /\ process[p].pkts \in Seq(Pdu)
        /\ process[p].n = 0 \/ process[p].n \in 1 .. retryLimit - 1
    /\ \A i \in DOMAIN air : air[i].cell \in 0 .. cell /\ air[i].pkts \in Seq(Pdu)
    /\ cell \in 0 .. MaxHandovers
    /\ rx.segments \in [Sns -> Seq(Pdu)] /\ {rx.RX_DELIV, rx.RX_NEXT} \subseteq Nat
    /\ rx.late \cup lost \subseteq Accepted

Channel == INSTANCE LossyChannel
    WITH accepted <- size, handed <- rx.handed, givenUp <- rx.late \cup lost

\* Packets reach the upper layers of the UE at most once, in order and whole:
\* no retransmission, segmentation, reassembly or handover (LTENR_RLC_UM.c:166,
\* LTENR_PDCP.c:883) duplicates, reorders or cuts one.  The COUNT by which PDCP
\* of the UE orders them is ahead of the sender's (CountsFollow), but increases
\* with it.
ImplementsLossyChannel == Channel!Spec

\* Every SDU accepted has been handed up, discarded as late, or had a part
\* freed by HARQ or a handover, or a part of it has still to reach the UE: the
\* UE never keeps all parts of an SDU without handing it up
\* (LTENR_RLC_UM.c:166-185, LTENR_PDCP.c:891-898).
EverySduAccounted ==
    Accepted \subseteq Handed \cup rx.late \cup lost \cup Pending

\* Segments with the same SN on their way or at the UE belong to the same SDU
\* also when it was segmented before a handover and the next one after
\* (LTENR_NAS.c:353, LTENR_RLC_UM.c:377).
OneSduPerSn ==
    LET pdus == {p \in (UNION {ToSet(rx.segments[n]) : n \in Sns})
                     \cup (UNION {ToSet(process[q].pkts) : q \in Processes})
                     \cup (UNION {ToSet(tb.pkts) : tb \in ToSet(air)}) : p.si # "ALL"}
    IN \A p, q \in pdus : p.sn = q.sn => p.id = q.id

\* What RLC reports to the scheduler is the payload that waits, modulo 2^32:
\* also after a segment longer than the payload (LTENR_RLC_UM.c:307-313, 391).
BufferStatusIsPayload == bufferStatus = Payload(txBuf) % Word

\* The discard timer never expires on an empty buffer, whose head
\* LTENR_PDCP_HANDLE_DISCARD_TIMER (LTENR_PDCP.c:422) reads without a test.
TimerHasPacket == discardTimer => copies > 0

\* The COUNT the UE reconstructs follows the sender's across every wrap-around
\* and for late PDUs, though it runs ahead of it by one more per wrap-around:
\* the sender counts modulo 0xFFF (LTENR_PDCP.c:329), the UE modulo 2^12
\* (LTENR_PDCP.c:568-594).  The receive buffer holds nothing back, although
\* SDUs are missing (LTENR_PDCP.c:555).
CountsFollow ==
    /\ rx.receive = {}
    /\ rx.handed # << >> => /\ rx.RX_DELIV = Counted(Last(rx.handed).id)
                            /\ rx.RX_NEXT = rx.RX_DELIV + 1

\* A TB leaves its process as a whole, to the UE, unless all attempts have been
\* made or the cell is left: new data never replaces it or is added to it
\* (LTENR_HARQ.c:404-428, LTENR_MAC.c:207-216).
TbKeptUntilSent ==
    [][\A p \in Processes :
        process[p].pkts \notin {<< >>, process[p].pkts'} =>
            \/ cell' # cell
            \/ process[p].n + 1 >= retryLimit
            \/ air' # << >> /\ Last(air').pkts = process[p].pkts]_vars

Unserved == IF Grant(MaxPrb) < MinPdu THEN Ids(txBuf) ELSE {}

\* Every SDU is settled in the end, handed up or not, unless the scheduler has
\* no reason to serve it: the grant for the reported bytes is then below
\* MinPdu (a remainder without payload is reported as 0 bytes,
\* LTENR_RLC_UM.c:369, 391).
EverySduSettles ==
    \A c \in First .. First + MaxSdus - 1 :
        (c \in Accepted) ~> \/ c \in Handed \cup rx.late \cup lost
                            \/ c \in Unserved

\* LTENR_PDCP.h:73 says that RX_DELIV is the first SDU "not delivered to the
\* upper layers, but still waited for": PDUs below it, which
\* LTENR_PDCP_ISDUPLICATEPDU discards, have been delivered.
OnlyDuplicatesDiscarded == rx.late \subseteq Handed
=============================================================================
