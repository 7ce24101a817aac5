----------------------------- MODULE XnHandover -----------------------------
(***************************************************************************)
(* Handover of a standalone UE between gNBs (LTENR_HANDOVER.c, LTENR_NAS.c *)
(* and the path switch in LTENR_GNB_CORE.c, LTENR_AMF.c, LTENR_SMF_UPF.c): *)
(*                                                                         *)
(*   s --HO_REQUEST--> t --HO_REQUEST_ACK--> s --HO_COMMAND--> UE          *)
(*   UE, after the interruption time: the switch from s to t               *)
(*   t --PATH_SWITCH--> AMF --MODIFY_REQUEST--> SMF                        *)
(*   t <--PATH_SWITCH_ACK-- AMF <--MODIFY_RESPONSE-- SMF                   *)
(*   t --CONTEXT_RELEASE--> s --CONTEXT_RELEASE_ACK--> t: ping-pong test   *)
(*                                                                         *)
(* The header (UE, s, t, start time) goes through all of it.  Nothing      *)
(* keeps s from starting a handover while another of the UE is under way.  *)
(* A handler that follows a null pointer ends the simulation (crashed).    *)
(* The target is an input: the assignment in UE_MEASUREMENT_RECV is a      *)
(* comment (GnbRrc).  One AMF, SMF and UPF, links without errors, in order *)
(* each; the UPF's routing table is external.                              *)
(***************************************************************************)
EXTENDS Integers, Sequences, FiniteSets

CONSTANTS
    Gnbs, UEs,
    Home,           \* [UEs -> Gnbs]: the gNB a UE is connected to at first
    gnbIF,          \* [Gnbs -> Nat]: the interface of a gNB
    MaxHandovers,   \* bound on the handovers started
    MaxPackets      \* bound on the packets queued for a UE

NoCell == 0
ASSUME XnHandoverAssumption ==
    /\ Home \in [UEs -> Gnbs]
    /\ gnbIF \in [Gnbs -> Nat]
    /\ MaxHandovers \in Nat /\ MaxPackets \in Nat
    /\ NoCell \notin Gnbs

VARIABLES
    SelectedCell,       \* [UEs -> Gnbs]: ueRRC->SelectedCellID
    ueRRCState,         \* [UEs -> {"CONNECTED", "INACTIVE"}]
    report,             \* [UEs -> Gnbs \cup {NoCell}]: where a report is going
    entities,           \* [Gnbs -> SUBSET UEs]: UEs the gNB's PHY, PDCP and
                        \* RLC serve (set and reset together)
    queue,              \* [Gnbs -> [UEs -> Nat]]: packets in those entities
    timer,              \* [UEs -> Seq(header)]: GENERATE_HANDOVER_COMMAND_HANDLE
    link,               \* [Links -> Seq(message)]
    amfGnbs, amfUes,    \* AMFVar->info: gNBs known, and how often each lists a UE
    smfUe,              \* [UEs -> [gnb, ip]]: gnbID and gnbLTENRIP at the SMF
    lastServingCell,    \* [UEs -> Gnbs \cup {NoCell}]
    crashed,            \* a null pointer has been followed
    started,            \* number of handovers started; the last HandoverStartTime
    outstanding,        \* history: packets accepted and not yet delivered
    overlapped,         \* history: UEs with a handover started during another
    leftCell,           \* history: source of the handover completed last
    reported,           \* history: UEs a PINGPONG message was sent for
    missed              \* history: UEs that returned within 2 s unreported

radio == <<SelectedCell, ueRRCState, entities, queue, timer, outstanding>>
core == <<amfGnbs, amfUes, smfUe>>
pingpong == <<lastServingCell, leftCell, reported, missed>>
vars == <<radio, report, link, core, pingpong, crashed, started, overlapped>>

Xn(a, b) == <<"Xn", a, b>>
Uu(g, u) == <<"Uu", g, u>>
N2up(g) == <<"N2up", g>>
N2down(g) == <<"N2down", g>>
N11(w) == <<"N11", w>>
Links == ({"Xn"} \X Gnbs \X Gnbs) \cup ({"Uu"} \X Gnbs \X UEs)
         \cup ({"N2up", "N2down"} \X Gnbs) \cup ({"N11"} \X {"request", "response"})
Types == {"HO_REQUEST", "HO_REQUEST_ACK", "HO_COMMAND", "RECONFIGURATION",
          "PATH_SWITCH", "MODIFY_REQUEST", "MODIFY_RESPONSE",
          "PATH_SWITCH_ACK", "CONTEXT_RELEASE", "CONTEXT_RELEASE_ACK"}
Msg == [type : Types, ue : UEs, s : Gnbs, t : Gnbs, start : 1 .. MaxHandovers]
As(m, t) == [m EXCEPT !.type = t]

Send(l, m) == link' = [link EXCEPT ![l] = Append(@, m)]
Take(l) == link' = [link EXCEPT ![l] = Tail(@)]
Relay(l, r, t) == link' = [link EXCEPT ![l] = Tail(@), ![r] = Append(@, As(Head(link[l]), t))]
Arrived(l, t) == link[l] # << >> /\ Head(link[l]).type = t

Init ==
    /\ SelectedCell = Home
    /\ ueRRCState = [u \in UEs |-> "CONNECTED"]
    /\ report = [u \in UEs |-> NoCell]
    /\ entities = [g \in Gnbs |-> {u \in UEs : Home[u] = g}]
    /\ queue = [g \in Gnbs |-> [u \in UEs |-> 0]]
    /\ timer = [u \in UEs |-> << >>]
    /\ link = [l \in Links |-> << >>]
    /\ amfGnbs = {Home[u] : u \in UEs}
    /\ amfUes = [g \in Gnbs |-> [u \in UEs |-> IF Home[u] = g THEN 1 ELSE 0]]
    /\ smfUe = [u \in UEs |-> [gnb |-> Home[u], ip |-> Home[u]]]
    /\ lastServingCell = [u \in UEs |-> NoCell]
    /\ crashed = FALSE /\ started = 0
    /\ outstanding = [u \in UEs |-> 0]
    /\ overlapped = {} /\ reported = {} /\ missed = {}
    /\ leftCell = [u \in UEs |-> NoCell]

\* Handovers of u under way, by the messages and timers that carry them.
Messages == UNION {{link[l][i] : i \in DOMAIN link[l]} : l \in Links}
UnderWay(u) ==
    {m \in Messages : m.ue = u /\ m.type # "RECONFIGURATION"}
    \cup {timer[u][i] : i \in DOMAIN timer[u]}

\* A null pointer is followed: the simulation ends where it is.
Crash ==
    /\ crashed' = TRUE
    /\ UNCHANGED <<radio, report, link, core, pingpong, started, overlapped>>

----------------------------------------------------------------------------
(* Radio: data, measurement reports and the handover command. *)

\* fn_NetSim_LTENR_PDCP_TransmitPDCPSDU at a gNB with entities for the UE.
Enqueue(g, u) ==
    /\ u \in entities[g] /\ queue[g][u] < MaxPackets
    /\ queue' = [queue EXCEPT ![g][u] = @ + 1]
    /\ outstanding' = [outstanding EXCEPT ![u] = @ + 1]
    /\ UNCHANGED <<SelectedCell, ueRRCState, entities, timer, report, link, core,
                   pingpong, crashed, started, overlapped>>

\* A gNB transmits a packet to the UE it serves.  That what a HARQ process holds
\* at the switch is freed is left to NrDataPlane: here a packet is queued or
\* delivered.
Transmit(g, u) ==
    /\ u \in entities[g] /\ queue[g][u] > 0
    /\ queue' = [queue EXCEPT ![g][u] = @ - 1]
    /\ outstanding' = [outstanding EXCEPT ![u] = @ - 1]
    /\ UNCHANGED <<SelectedCell, ueRRCState, entities, timer, report, link, core,
                   pingpong, crashed, started, overlapped>>

\* fn_NetSim_LTENR_RRC_UE_Measurement_Report_Request_Handle: connected UEs
\* are asked for a report to their cell.
Measurement_Report(u) ==
    /\ ueRRCState[u] = "CONNECTED" /\ report[u] = NoCell
    /\ started < MaxHandovers
    /\ report' = [report EXCEPT ![u] = SelectedCell[u]]
    /\ UNCHANGED <<radio, link, core, pingpong, crashed, started, overlapped>>

\* fn_NetSim_LTENR_RRC_UE_MEASUREMENT_RECV with a better target (t), and
\* LTENR_HANDOVER_REQUEST.
UE_MEASUREMENT_RECV(u, t) ==
    LET g == report[u]
        m == [type |-> "HO_REQUEST", ue |-> u, s |-> g, t |-> t, start |-> started + 1]
    IN  /\ g # NoCell /\ t # g
        /\ started < MaxHandovers
        /\ started' = started + 1
        /\ report' = [report EXCEPT ![u] = NoCell]
        /\ Send(Xn(g, t), m)
        /\ overlapped' = IF UnderWay(u) # {} THEN overlapped \cup {u} ELSE overlapped
        /\ UNCHANGED <<radio, core, pingpong, crashed>>

\* LTENR_HANDOVER_REQUEST_RECV with LTENR_HANDOVER_REQUEST_ACK at the target.
HANDOVER_REQUEST_RECV(s, t) ==
    /\ Arrived(Xn(s, t), "HO_REQUEST")
    /\ Relay(Xn(s, t), Xn(t, s), "HO_REQUEST_ACK")
    /\ UNCHANGED <<radio, report, core, pingpong, crashed, started, overlapped>>

\* LTENR_HANDOVER_REQUEST_ACK_RECV: the command goes to the UE, or is dropped
\* when the gNB has no PDCP entity for it any more.
HANDOVER_REQUEST_ACK_RECV(t, s) ==
    /\ Arrived(Xn(t, s), "HO_REQUEST_ACK")
    /\ LET u == Head(link[Xn(t, s)]).ue
       IN  IF u \in entities[s] THEN Relay(Xn(t, s), Uu(s, u), "HO_COMMAND")
                                ELSE Take(Xn(t, s))
    /\ UNCHANGED <<radio, report, core, pingpong, crashed, started, overlapped>>

\* fn_NetSim_LTENR_NAS_HANDOVER_COMMAND_HANDLE: the UE is INACTIVE until the
\* interruption time has passed.
HANDOVER_COMMAND_HANDLE(g, u) ==
    /\ Arrived(Uu(g, u), "HO_COMMAND")
    /\ timer' = [timer EXCEPT ![u] = Append(@, Head(link[Uu(g, u)]))]
    /\ ueRRCState' = [ueRRCState EXCEPT ![u] = "INACTIVE"]
    /\ Take(Uu(g, u))
    /\ UNCHANGED <<SelectedCell, entities, queue, outstanding, report, core,
                   pingpong, crashed, started, overlapped>>

\* The timer expires the interruption time after the start of the handover,
\* at once when that has passed: of two timers the later one can be the first
\* only if its handover started earlier.
Expires(u, i) == \A j \in 1 .. i - 1 : timer[u][j].start > timer[u][i].start

\* Mutant: the buffers are appended to the target's and kept at the source.
BUFFER_TRANSFER_Copies(u, s, t) == queue' = [queue EXCEPT ![t][u] = @ + queue[s][u]]

\* Mutant: the packet buffers are not handed over.
BUFFER_TRANSFER_None(u, s, t) == queue' = [queue EXCEPT ![s][u] = 0]

\* fn_NetSim_LTENR_NAS_PDCP_BUFFER_TRANSFER, ..._RLC_GNB_BUFFER_TRANSFER: the
\* target's entities get the buffers of the source, which are then removed.
BUFFER_TRANSFER(u, s, t) ==
    queue' = [queue EXCEPT ![t][u] = queue[s][u], ![s][u] = 0]

\* Mutant: the UE's state is left to the reconfiguration message.
Connect_Stays(u, t) ==
    /\ SelectedCell' = [SelectedCell EXCEPT ![u] = t]
    /\ UNCHANGED ueRRCState

\* The UE's RRC after the switch.
Connect(u, t) ==
    /\ SelectedCell' = [SelectedCell EXCEPT ![u] = t]
    /\ ueRRCState' = [ueRRCState EXCEPT ![u] = "CONNECTED"]

\* LTENR_PHY_ASSOCIATION, LTENR_PDCP_ASSOCIATION and LTENR_RLC_ASSOCIATION
\* with t, then (false) with s.
Associate(u, s, t) == entities' = [entities EXCEPT ![t] = @ \cup {u}, ![s] = @ \ {u}]

(***************************************************************************)
(* fn_NetSim_LTENR_NAS_GENERATE_HANDOVER_COMMAND_HANDLE, the switch.  When *)
(* s has no entities for the UE, LTENR_RLC_UNESTABLISHENTITY passes a null *)
(* entity to LIST_REMOVE.  What still waits in the RLC buffers of s for    *)
(* the UE, or of the UE for s, is readdressed; what is on the air (the     *)
(* first k messages, the report unless it is moved) finds no entity and is *)
(* dropped.                                                                *)
(***************************************************************************)
GENERATE_HANDOVER_COMMAND_HANDLE(u, i, k, moved) ==
    LET m == timer[u][i]
        rest == SubSeq(link[Uu(m.s, u)], k + 1, Len(link[Uu(m.s, u)]))
    IN  /\ Expires(u, i)
        /\ IF u \notin entities[m.s]
           THEN Crash
           ELSE /\ timer' = [timer EXCEPT ![u] =
                       SubSeq(@, 1, i - 1) \o SubSeq(@, i + 1, Len(@))]
                /\ Connect(u, m.t)
                /\ Associate(u, m.s, m.t)
                /\ BUFFER_TRANSFER(u, m.s, m.t)
                /\ report' = [report EXCEPT ![u] =
                       IF @ = m.s THEN (IF moved THEN m.t ELSE NoCell) ELSE @]
                /\ link' = [link EXCEPT
                       ![Uu(m.s, u)] = << >>,
                       ![Uu(m.t, u)] = @ \o rest \o <<As(m, "RECONFIGURATION")>>,
                       ![N2up(m.t)] = Append(@, As(m, "PATH_SWITCH"))]
                /\ UNCHANGED <<outstanding, core, pingpong, crashed, started, overlapped>>

\* fn_NetSim_LTENR_RRC_RECONFIGURATION_RECV: it selects its sender's cell only
\* if that differs in its interface as well.
RECONFIGURATION_RECV(g, u) ==
    /\ Arrived(Uu(g, u), "RECONFIGURATION")
    /\ LET t == Head(link[Uu(g, u)]).t
           c == SelectedCell[u]
       IN SelectedCell' = IF c # t /\ gnbIF[c] # gnbIF[t] /\ ueRRCState[u] = "CONNECTED"
                          THEN [SelectedCell EXCEPT ![u] = t] ELSE SelectedCell
    /\ Take(Uu(g, u))
    /\ UNCHANGED <<ueRRCState, entities, queue, timer, outstanding, report, core,
                   pingpong, crashed, started, overlapped>>

----------------------------------------------------------------------------
(* Core: the path switch. *)

\* LTENR_AMF_DeleteUE: the walk reads the element it has just unlinked, so it
\* removes all entries of the UE or only the first one.
AMF_DeleteUE(n) == IF n = 0 THEN {0} ELSE {0, n - 1}

\* LTENR_AMF_DeleteUE at the source and LTENR_AMF_AddUE at the target.
AMF_Move(m, left) ==
    amfUes' = [amfUes EXCEPT ![m.s][m.ue] = left, ![m.t][m.ue] = @ + 1]

\* Mutant: only gNBs with a UE of their own are known to the AMF.
AddgNB_Never(t) == amfGnbs

\* LTENR_AMF_AddgNB unless LTENR_AMF_Find_gNB_Info finds the gNB.
AddgNB(t) == amfGnbs \cup {t}

\* fn_NetSim_SMF_UPF_LTENR_PATH_SWITCH_RECV with ..._AMF_MODIFY_BEARER_REQUEST
\* at the AMF; a source gNB it does not know is a null pointer.
PATH_SWITCH_RECV(g) ==
    /\ Arrived(N2up(g), "PATH_SWITCH")
    /\ LET m == Head(link[N2up(g)])
           known == AddgNB(m.t)
       IN  IF ~({m.s, m.t} \subseteq known)
           THEN Crash
           ELSE /\ amfGnbs' = known
                /\ \E left \in AMF_DeleteUE(amfUes[m.s][m.ue]) : AMF_Move(m, left)
                /\ Relay(N2up(g), N11("request"), "MODIFY_REQUEST")
                /\ UNCHANGED <<radio, report, smfUe, pingpong, crashed, started, overlapped>>

\* Mutant: the address is that of the source as well.
SMF_Entry_Source(m) == [gnb |-> m.s, ip |-> m.s]

\* LTENR_SMF_AddUE with the source of the header, and the address of the cell
\* the UE has selected by now.
SMF_Entry(m) == [gnb |-> m.s, ip |-> SelectedCell[m.ue]]

\* fn_NetSim_SMF_UPF_LTENR_MODIFY_BEARER_REQUEST_RECV with ..._RESPONSE.
MODIFY_BEARER_REQUEST_RECV ==
    /\ Arrived(N11("request"), "MODIFY_REQUEST")
    /\ LET m == Head(link[N11("request")])
       IN smfUe' = [smfUe EXCEPT ![m.ue] = SMF_Entry(m)]
    /\ Relay(N11("request"), N11("response"), "MODIFY_RESPONSE")
    /\ UNCHANGED <<radio, report, amfGnbs, amfUes, pingpong, crashed, started, overlapped>>

\* fn_NetSim_SMF_UPF_LTENR_MODIFY_BEARER_RESPONSE_RECV with ..._PATH_SWITCH_ACK_MSG.
MODIFY_BEARER_RESPONSE_RECV ==
    /\ Arrived(N11("response"), "MODIFY_RESPONSE")
    /\ Relay(N11("response"), N2down(Head(link[N11("response")]).t), "PATH_SWITCH_ACK")
    /\ UNCHANGED <<radio, report, core, pingpong, crashed, started, overlapped>>

\* fn_NetSim_GNB_CORE_PATH_SWITCH_ACK_RECV with LTENR_HANDOVER_UE_CONTEXT_RELEASE.
PATH_SWITCH_ACK_RECV(g) ==
    /\ Arrived(N2down(g), "PATH_SWITCH_ACK")
    /\ LET m == Head(link[N2down(g)])
       IN Relay(N2down(g), Xn(m.t, m.s), "CONTEXT_RELEASE")
    /\ UNCHANGED <<radio, report, core, pingpong, crashed, started, overlapped>>

\* LTENR_HANDOVER_UE_CONTEXT_RELEASE_RECV with ..._RELEASE_ACK at the source.
UE_CONTEXT_RELEASE_RECV(t, s) ==
    /\ Arrived(Xn(t, s), "CONTEXT_RELEASE")
    /\ Relay(Xn(t, s), Xn(s, t), "CONTEXT_RELEASE_ACK")
    /\ UNCHANGED <<radio, report, core, pingpong, crashed, started, overlapped>>

\* Since the UE's previous completed handover: less than 2.0 (the event time
\* is in microseconds), less than two seconds, or more.
Gaps == {"2us", "2s", "more"}

\* Mutant: the cell left is compared, with the right unit of time.
IsPingPong_Left(m, gap) ==
    m.s = lastServingCell[m.ue] /\ gap \in {"2us", "2s"}

\* The test of send_pingpong_event.
IsPingPong(m, gap) == m.t = lastServingCell[m.ue] /\ gap = "2us"

\* Mutant: the table keeps the cell the UE has left.
send_pingpong_event_Source(m, gap) ==
    /\ lastServingCell' = [lastServingCell EXCEPT ![m.ue] = m.s]
    /\ reported' = IF IsPingPong(m, gap) THEN reported \cup {m.ue} ELSE reported

\* send_pingpong_event.
send_pingpong_event(m, gap) ==
    /\ lastServingCell' = [lastServingCell EXCEPT ![m.ue] = m.t]
    /\ reported' = IF IsPingPong(m, gap) THEN reported \cup {m.ue} ELSE reported

\* LTENR_HANDOVER_UE_CONTEXT_RELEASE_ACK_RECV at the target.
UE_CONTEXT_RELEASE_ACK_RECV(s, t, gap) ==
    /\ Arrived(Xn(s, t), "CONTEXT_RELEASE_ACK")
    /\ LET m == Head(link[Xn(s, t)])
           returned == m.t = leftCell[m.ue] /\ gap \in {"2us", "2s"}
       IN  /\ send_pingpong_event(m, gap)
           /\ leftCell' = [leftCell EXCEPT ![m.ue] = m.s]
           /\ missed' = IF returned /\ ~IsPingPong(m, gap)
                        THEN missed \cup {m.ue} ELSE missed
    /\ Take(Xn(s, t))
    /\ UNCHANGED <<radio, report, core, crashed, started, overlapped>>

----------------------------------------------------------------------------
\* The handlers of what is on a link, and of the timers.
Deliver ==
    \/ \E a, b \in Gnbs : HANDOVER_REQUEST_RECV(a, b) \/ HANDOVER_REQUEST_ACK_RECV(a, b)
    \/ \E g \in Gnbs, u \in UEs : HANDOVER_COMMAND_HANDLE(g, u) \/ RECONFIGURATION_RECV(g, u)
    \/ \E g \in Gnbs : PATH_SWITCH_RECV(g) \/ PATH_SWITCH_ACK_RECV(g)
    \/ MODIFY_BEARER_REQUEST_RECV
    \/ MODIFY_BEARER_RESPONSE_RECV
    \/ \E a, b \in Gnbs : UE_CONTEXT_RELEASE_RECV(a, b)
    \/ \E a, b \in Gnbs, gap \in Gaps : UE_CONTEXT_RELEASE_ACK_RECV(a, b, gap)
Expire(u) ==
    \E i \in DOMAIN timer[u], moved \in BOOLEAN :
        \E k \in 0 .. Len(link[Uu(timer[u][i].s, u)]) :
            GENERATE_HANDOVER_COMMAND_HANDLE(u, i, k, moved)
Environment ==
    \/ \E g \in Gnbs, u \in UEs : Enqueue(g, u) \/ Transmit(g, u)
    \/ \E u \in UEs : Measurement_Report(u)
    \/ \E u \in UEs, t \in Gnbs : UE_MEASUREMENT_RECV(u, t)

Next == ~crashed /\ (Deliver \/ (\E u \in UEs : Expire(u)) \/ Environment)

Spec == Init /\ [][Next]_vars

\* The simulator hands every event to its handler: as handovers are bounded,
\* so are deliveries, and fairness of all of them together is that of each.
\* Reports and packets need not come.
FairSpec ==
    /\ Spec
    /\ WF_vars(~crashed /\ Deliver)
    /\ \A u \in UEs : WF_vars(~crashed /\ Expire(u))

----------------------------------------------------------------------------
\* The type of the state.
TypeOK ==
    /\ SelectedCell \in [UEs -> Gnbs]
    /\ ueRRCState \in [UEs -> {"CONNECTED", "INACTIVE"}]
    /\ report \in [UEs -> Gnbs \cup {NoCell}]
    /\ entities \in [Gnbs -> SUBSET UEs]
    /\ queue \in [Gnbs -> [UEs -> 0 .. MaxPackets]]
    /\ timer \in [UEs -> Seq(Msg)]
    /\ link \in [Links -> Seq(Msg)]
    /\ amfGnbs \in SUBSET Gnbs
    /\ amfUes \in [Gnbs -> [UEs -> Nat]]
    /\ smfUe \in [UEs -> [gnb : Gnbs, ip : Gnbs]]
    /\ lastServingCell \in [UEs -> Gnbs \cup {NoCell}]
    /\ crashed \in BOOLEAN
    /\ started \in 0 .. MaxHandovers
    /\ outstanding \in [UEs -> Nat]
    /\ {overlapped, reported, missed} \subseteq SUBSET UEs
    /\ leftCell \in [UEs -> Gnbs \cup {NoCell}]

\* The null pointers of the switch (LTENR_RLC.c:181) and of the AMF
\* (LTENR_AMF.c:95-115) are only reached when handovers of a UE overlap: a
\* switch for which s has no entities left, or a source the AMF has never seen.
CrashNeedsOverlap == crashed => overlapped # {}

\* A UE whose handovers do not overlap is served by exactly the cell it has
\* selected, and no queued packet is lost or kept elsewhere: its queue holds
\* all that was accepted and not yet delivered, whatever
\* fn_NetSim_LTENR_NAS_PDCP_BUFFER_TRANSFER has moved.
ServedWithoutLoss ==
    \A u \in UEs \ overlapped, g \in Gnbs :
        /\ u \in entities[g] <=> g = SelectedCell[u]
        /\ queue[g][u] = IF g = SelectedCell[u] THEN outstanding[u] ELSE 0

\* When no handover is under way, the core agrees with the radio: the AMF lists
\* the UE once, at its cell, and the SMF sends to the address of that cell
\* (LTENR_AMF_DeleteUE, LTENR_AMF_AddUE, LTENR_SMF_AddUE).  Nothing is said of
\* the gNB identifier at the SMF, which stays the one of the cell the UE has left
\* (LTENR_SMF_UPF.c:322).
CoreFollows ==
    \A u \in UEs \ overlapped : UnderWay(u) = {} =>
        /\ \A g \in Gnbs : amfUes[g][u] = IF g = SelectedCell[u] THEN 1 ELSE 0
        /\ smfUe[u].ip = SelectedCell[u]

\* send_pingpong_event compares the targets of consecutive handovers, which
\* differ unless the handovers overlap: no other ping-pong is ever reported.
ReportsNeedOverlap == reported \subseteq overlapped

\* A UE that was told to hand over is not left INACTIVE.
UeReturns ==
    \A u \in UEs : ueRRCState[u] = "INACTIVE" ~> (ueRRCState[u] = "CONNECTED" \/ crashed)

\* A handover goes through all its steps, to the release of the source.
HandoverCompletes ==
    \A u \in UEs, t \in Gnbs :
        (\E m \in UnderWay(u) : m.t = t)
            ~> (lastServingCell[u] = t \/ u \in overlapped \/ crashed)

\* "Ping-pong: UE returns to same cell within 2 seconds" (LTENR_HANDOVER.c:47).
ReturnIsReported == missed = {}
=============================================================================
