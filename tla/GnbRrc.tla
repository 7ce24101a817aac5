------------------------------ MODULE GnbRrc ------------------------------
(***************************************************************************)
(* RRC of the 5G stack (LTENR_GNBRRC.c, LTENR_RRC.c): a UE acquires the    *)
(* MIB and SIB1 of the gNB it is configured with, asks for system          *)
(* information, connects (setup request, setup, setup complete) and then   *)
(* reports measurements, from which the gNB keeps the time-to-trigger      *)
(* matrix that decides on handovers.                                       *)
(*                                                                         *)
(* The simulator runs one event at a time; an action is one event handler. *)
(* Events and messages in flight are counted per kind and UE (their gNB is *)
(* the UE's: a UE only ever selects the cell it is associated with).  A    *)
(* measurement report is abstracted to the set of neighbour cells whose    *)
(* SINR exceeds the serving cell's by more than HandoverMargin, which is   *)
(* all that the receiving gNB reads from it.                               *)
(***************************************************************************)
EXTENDS TttMatrix

CONSTANTS
    UEs,
    Association,    \* [UEs -> Gnbs]: the gNB each UE is linked to at start
    TTT,            \* time to trigger, in ticks (rrc->TTT * MILLISECOND)
    MaxTime,        \* bound on simulated time
    MaxEvents,      \* bound on the events of one kind in flight for a UE
    MaxReports,     \* bound on the measurement reports of a UE in flight
    MaxRows         \* bound on the length of a gNB's matrix

ASSUME GnbRrcAssumption ==
    /\ Association \in [UEs -> Gnbs]
    /\ TTT \in Nat
    /\ MaxTime \in Nat /\ MaxEvents \in Nat /\ MaxReports \in Nat /\ MaxRows \in Nat

NoCell == 0                 \* SelectedCellID of a UE that selected no cell
ASSUME NoCellAssumption == NoCell \notin Gnbs

VARIABLES
    now,            \* ldEventTime
    ueRRCState,     \* [UEs -> {"IDLE", "CONNECTED"}]
    mib,            \* [UEs -> BOOLEAN]: the UE has stored a MIB
    SelectedCellID, \* [UEs -> Gnbs \cup {NoCell}]
    rlcEntities,    \* [UEs -> BOOLEAN]: the UE has RLC entities for its gNB
    matrix,         \* [Gnbs -> Seq(row)]: Conditional_HO_TTT_Matrix
    ev,             \* [Kinds -> [UEs -> Nat]]: events in flight
    reports,        \* [UEs -> Seq(report)]: measurement reports in flight
    reportLoops,    \* [Gnbs -> Nat]: self-rearming report-request timers
    hoRequests,     \* handover requests issued: set of <<ue, source, target>>
    betterSince     \* history: [Gnbs -> [UEs -> [Gnbs -> time or -1]]]

vars == <<now, ueRRCState, mib, SelectedCellID, rlcEntities, matrix, ev, reports,
          reportLoops, hoRequests, betterSince>>

\* GENERATE_SI, the SI message, RRC_CONN_REQUEST timer event, and the setup
\* messages in the order of the procedure.
Kinds == {"GENERATE_SI", "SI", "CONN_REQUEST", "SETUP_REQUEST",
          "GENERATE_SETUP", "SETUP", "SETUP_COMPLETE"}

Report == [gnb : Gnbs, better : SUBSET Gnbs]
Time == 0 .. MaxTime
Stamp == Time \cup {TTT_NOT_SET}
RowOf(g) == [ueID : UEs, TriggerTime : [Gnbs \ {g} -> Stamp]]

(***************************************************************************)
(* The event list: adding an event, and handing one to its handler.        *)
(***************************************************************************)
Room(k, u) == ev[k][u] < MaxEvents
AddEvent(k, u) == ev' = [ev EXCEPT ![k][u] = @ + 1]
TakeEvent(k, u) == ev' = [ev EXCEPT ![k][u] = @ - 1]
Pass(k, l, u) == ev' = [ev EXCEPT ![k][u] = @ - 1, ![l][u] = @ + 1]

Init ==
    /\ now = 0
    /\ ueRRCState = [u \in UEs |-> "IDLE"]
    /\ mib = [u \in UEs |-> FALSE]
    /\ SelectedCellID = [u \in UEs |-> NoCell]
    /\ rlcEntities = [u \in UEs |-> FALSE]
    /\ matrix = [g \in Gnbs |-> << >>]
    /\ ev = [k \in Kinds |-> [u \in UEs |-> 0]]
    /\ reports = [u \in UEs |-> << >>]
    /\ reportLoops = [g \in Gnbs |-> 1]
    /\ hoRequests = {}
    /\ betterSince = [g \in Gnbs |-> [u \in UEs |-> [c \in Gnbs |-> TTT_NOT_SET]]]

\* Simulated time advances between events.
Tick ==
    /\ now < MaxTime
    /\ now' = now + 1
    /\ UNCHANGED <<ueRRCState, mib, SelectedCellID, rlcEntities, matrix, ev,
                   reports, reportLoops, hoRequests, betterSince>>

\* fn_NetSim_LTENR_UERRC_MIB_RECV: the first MIB is stored in any state, a
\* later one only replaces it.
MIB_RECV(u) ==
    /\ ~mib[u]
    /\ mib' = [mib EXCEPT ![u] = TRUE]
    /\ UNCHANGED <<now, ueRRCState, SelectedCellID, rlcEntities, matrix, ev,
                   reports, reportLoops, hoRequests, betterSince>>

\* fn_NetSim_LTENR_EvaluateCellForSelection: only the associated cell.
EvaluateCellForSelection(u, g) == Association[u] = g

\* fn_NetSim_LTENR_UERRC_SIB1_RECV: an idle UE that has a MIB selects the
\* broadcasting cell when it is the associated one and schedules the
\* generation of SI there.
SIB1_RECV(u, g) ==
    /\ ueRRCState[u] = "IDLE" /\ mib[u]
    /\ EvaluateCellForSelection(u, g)
    /\ Room("GENERATE_SI", u)
    /\ AddEvent("GENERATE_SI", u)
    /\ SelectedCellID' = [SelectedCellID EXCEPT ![u] = g]
    /\ UNCHANGED <<now, ueRRCState, mib, rlcEntities, matrix, reports,
                   reportLoops, hoRequests, betterSince>>

\* fn_NETSIM_LTENR_SUBEVENT_GENERATE_SI: PHY association, which appends a
\* matrix row, RLC entities on both sides, and transmission of SI.
GENERATE_SI(u) ==
    LET g == Association[u] IN
    /\ ev["GENERATE_SI"][u] > 0 /\ Room("SI", u)
    /\ Len(matrix[g]) < MaxRows
    /\ matrix' = [matrix EXCEPT ![g] = Add(@, g, u)]
    /\ rlcEntities' = [rlcEntities EXCEPT ![u] = TRUE]
    /\ Pass("GENERATE_SI", "SI", u)
    /\ UNCHANGED <<now, ueRRCState, mib, SelectedCellID, reports,
                   reportLoops, hoRequests, betterSince>>

\* fn_NetSim_LTENR_RRC_SI_RECV: a connected UE's gNB gets one more
\* report-request timer.
SI_RECV(u) ==
    /\ ev["SI"][u] > 0
    /\ TakeEvent("SI", u)
    /\ reportLoops' = IF ueRRCState[u] = "CONNECTED"
                      THEN [reportLoops EXCEPT ![Association[u]] = @ + 1]
                      ELSE reportLoops
    /\ UNCHANGED <<now, ueRRCState, mib, SelectedCellID, rlcEntities, matrix,
                   reports, hoRequests, betterSince>>

\* fn_NetSim_LTENR_RRC_Connection_Request (paging, or the RRC timer library
\* when T300 expires): schedule the generation of a setup request.
Connection_Request(u) ==
    /\ ev["CONN_REQUEST"][u] + ev["SETUP_REQUEST"][u] + ev["GENERATE_SETUP"][u]
         + ev["SETUP"][u] < MaxEvents
    /\ AddEvent("CONN_REQUEST", u)
    /\ UNCHANGED <<now, ueRRCState, mib, SelectedCellID, rlcEntities, matrix,
                   reports, reportLoops, hoRequests, betterSince>>

\* The UE can send to the cell it has selected: before SIB1 its request would be
\* addressed to device 0, whose RLC entity at a UE no slot serves, and before
\* GENERATE_SI the RLC finds no entity and frees the packet.
CanSend(u) == SelectedCellID[u] # NoCell /\ rlcEntities[u]

\* fn_NetSim_LTENR_RRC_GENERATE_RRC_CONN_REQUEST: a connected UE drops it, and
\* the request of one that cannot send is lost.
GENERATE_RRC_CONN_REQUEST(u) ==
    /\ ev["CONN_REQUEST"][u] > 0
    /\ IF ueRRCState[u] # "CONNECTED" /\ CanSend(u)
       THEN Pass("CONN_REQUEST", "SETUP_REQUEST", u)
       ELSE TakeEvent("CONN_REQUEST", u)
    /\ UNCHANGED <<now, ueRRCState, mib, SelectedCellID, rlcEntities, matrix,
                   reports, reportLoops, hoRequests, betterSince>>

\* Mutant: the test of the selected cell is inverted.
SETUP_REQUEST_RECV_Inverted(u) ==
    /\ ev["SETUP_REQUEST"][u] > 0
    /\ IF SelectedCellID[u] # Association[u]
       THEN Pass("SETUP_REQUEST", "GENERATE_SETUP", u)
       ELSE TakeEvent("SETUP_REQUEST", u)
    /\ UNCHANGED <<now, ueRRCState, mib, SelectedCellID, rlcEntities, matrix,
                   reports, reportLoops, hoRequests, betterSince>>

\* fn_NetSim_LTENR_RRC_SETUP_REQUEST_RECV: answered by the selected cell only.
SETUP_REQUEST_RECV(u) ==
    /\ ev["SETUP_REQUEST"][u] > 0
    /\ IF SelectedCellID[u] = Association[u]
       THEN Pass("SETUP_REQUEST", "GENERATE_SETUP", u)
       ELSE TakeEvent("SETUP_REQUEST", u)
    /\ UNCHANGED <<now, ueRRCState, mib, SelectedCellID, rlcEntities, matrix,
                   reports, reportLoops, hoRequests, betterSince>>

\* fn_NetSIM_LTENR_RRC_GENERATE_RRCSETUP: the gNB de-associates and then
\* associates the UE again, so its matrix row is removed and appended.
GENERATE_RRCSETUP(u) ==
    LET g == Association[u] IN
    /\ ev["GENERATE_SETUP"][u] > 0
    /\ matrix' = [matrix EXCEPT ![g] = Add(Remove(@, u), g, u)]
    /\ Pass("GENERATE_SETUP", "SETUP", u)
    /\ UNCHANGED <<now, ueRRCState, mib, SelectedCellID, rlcEntities, reports,
                   reportLoops, hoRequests, betterSince>>

\* fn_NetSim_LTENR_RRC_SETUP_RECV: the UE is connected.
SETUP_RECV(u) ==
    /\ ev["SETUP"][u] > 0 /\ Room("SETUP_COMPLETE", u)
    /\ ueRRCState' = [ueRRCState EXCEPT ![u] = "CONNECTED"]
    /\ SelectedCellID' = [SelectedCellID EXCEPT ![u] = Association[u]]
    /\ Pass("SETUP", "SETUP_COMPLETE", u)
    /\ UNCHANGED <<now, mib, rlcEntities, matrix, reports, reportLoops,
                   hoRequests, betterSince>>

\* fn_NetSim_LTENR_RRC_RRCSETUPCOMPLETE_RECV: hands the UE to the core (the
\* initial UE message), which is outside this module.
RRCSETUPCOMPLETE_RECV(u) ==
    /\ ev["SETUP_COMPLETE"][u] > 0
    /\ TakeEvent("SETUP_COMPLETE", u)
    /\ UNCHANGED <<now, ueRRCState, mib, SelectedCellID, rlcEntities, matrix,
                   reports, reportLoops, hoRequests, betterSince>>

\* fn_NetSim_LTENR_RRC_UE_Measurement_Report_Request_Handle for one UE, with
\* the generation of its report: only a connected UE whose selected cell is g
\* reports, with the radio conditions of the moment.
Measurement_Report(u, g, better) ==
    /\ reportLoops[g] > 0
    /\ ueRRCState[u] = "CONNECTED" /\ SelectedCellID[u] = g
    /\ Len(reports[u]) < MaxReports
    /\ better \subseteq Gnbs \ {g}
    /\ reports' = [reports EXCEPT ![u] = Append(@, [gnb |-> g, better |-> better])]
    /\ UNCHANGED <<now, ueRRCState, mib, SelectedCellID, rlcEntities, matrix,
                   ev, reportLoops, hoRequests, betterSince>>

\* Mutant: a cell that is no longer better keeps its trigger time.
TriggersAfter_NoReset(g, u, better) ==
    [c \in Gnbs \ {g} |->
        LET t == Find(matrix[g], u, c) IN
        IF c \in better /\ t = TTT_NOT_SET /\ TTT > 0 THEN now ELSE t]

\* The trigger times a report of UE u leaves behind, cell by cell.
TriggersAfter(g, u, better) ==
    [c \in Gnbs \ {g} |->
        LET t == Find(matrix[g], u, c) IN
        IF c \notin better THEN TTT_NOT_SET
        ELSE IF t = TTT_NOT_SET /\ TTT > 0 THEN now ELSE t]

\* The cells whose time to trigger has elapsed when the report is processed.
Elapsed(g, u, better) ==
    {c \in better \ {g} :
        LET t == Find(matrix[g], u, c)
        IN  ~(t = TTT_NOT_SET /\ TTT > 0) /\ now - t >= TTT}

\* The assignment of the handover target in the loop over the report: it is
\* commented out in the code, so no cell is ever chosen.
HandoverTarget(cells) == NoCell

\* The history of a report: since when c has been better in every report.
BetterAfter(g, u, better) ==
    [c \in Gnbs |-> IF c \notin better THEN TTT_NOT_SET
                    ELSE IF betterSince[g][u][c] = TTT_NOT_SET THEN now
                    ELSE betterSince[g][u][c]]

\* fn_NetSim_LTENR_RRC_UE_MEASUREMENT_RECV at gNB g.
UE_MEASUREMENT_RECV(u) ==
    /\ reports[u] # << >>
    /\ LET r == Head(reports[u])
           g == r.gnb
           target == HandoverTarget(Elapsed(g, u, r.better))
       IN  /\ matrix' = [matrix EXCEPT ![g] =
                            Set(@, u, TriggersAfter(g, u, r.better))]
           /\ hoRequests' = IF Elapsed(g, u, r.better) # {} /\ target # NoCell /\ g # target
                            THEN hoRequests \cup {<<u, g, target>>}
                            ELSE hoRequests
           /\ betterSince' = [betterSince EXCEPT ![g][u] = BetterAfter(g, u, r.better)]
    /\ reports' = [reports EXCEPT ![u] = Tail(@)]
    /\ UNCHANGED <<now, ueRRCState, mib, SelectedCellID, rlcEntities, ev,
                   reportLoops>>

Next ==
    \/ Tick
    \/ \E u \in UEs :
        \/ MIB_RECV(u)
        \/ \E g \in Gnbs : SIB1_RECV(u, g)
        \/ GENERATE_SI(u)
        \/ SI_RECV(u)
        \/ Connection_Request(u)
        \/ GENERATE_RRC_CONN_REQUEST(u)
        \/ SETUP_REQUEST_RECV(u)
        \/ GENERATE_RRCSETUP(u)
        \/ SETUP_RECV(u)
        \/ RRCSETUPCOMPLETE_RECV(u)
        \/ \E g \in Gnbs, better \in SUBSET Gnbs : Measurement_Report(u, g, better)
        \/ UE_MEASUREMENT_RECV(u)

Spec == Init /\ [][Next]_vars

\* The simulator hands every queued event to its handler.
FairSpec ==
    /\ Spec
    /\ \A u \in UEs : /\ WF_vars(GENERATE_RRC_CONN_REQUEST(u))
                      /\ WF_vars(SETUP_REQUEST_RECV(u))
                      /\ WF_vars(GENERATE_RRCSETUP(u))
                      /\ WF_vars(SETUP_RECV(u))
                      /\ WF_vars(RRCSETUPCOMPLETE_RECV(u))

----------------------------------------------------------------------------
\* The type of the state (a gNB's rows have an entry for every other cell).
TypeOK ==
    /\ now \in Time
    /\ ueRRCState \in [UEs -> {"IDLE", "CONNECTED"}]
    /\ mib \in [UEs -> BOOLEAN]
    /\ SelectedCellID \in [UEs -> Gnbs \cup {NoCell}] /\ rlcEntities \in [UEs -> BOOLEAN]
    /\ DOMAIN matrix = Gnbs /\ \A g \in Gnbs : matrix[g] \in Seq(RowOf(g))
    /\ ev \in [Kinds -> [UEs -> 0 .. MaxEvents]]
    /\ reports \in [UEs -> Seq(Report)]
    /\ reportLoops \in [Gnbs -> Nat]
    /\ hoRequests \in SUBSET (UEs \X Gnbs \X Gnbs)
    /\ betterSince \in [Gnbs -> [UEs -> [Gnbs -> Stamp]]]

\* Time to trigger is honoured (fn_NetSim_LTENR_RRC_UE_MEASUREMENT_RECV): when
\* a report makes gNB g regard cell c's time to trigger as elapsed for UE u, c
\* has beaten the serving cell in every report g handled from u over at least
\* the last TTT, whatever rows re-associations removed, duplicated or lost
\* meanwhile: no stale trigger time survives.
ElapsedIsEarned ==
    TTT > 0 =>
    \A u \in UEs : reports[u] # << >> =>
        LET r == Head(reports[u]) IN
        \A c \in Elapsed(r.gnb, u, r.better) :
            /\ betterSince[r.gnb][u][c] # TTT_NOT_SET
            /\ now - betterSince[r.gnb][u][c] >= TTT

\* In matrix m of gNB g, a row behind another row of its UE is unset.
LaterUnset(m, g) ==
    \A i, j \in DOMAIN m :
        (j < i /\ m[j].ueID = m[i].ueID)
          => \A c \in Gnbs \ {g} : m[i].TriggerTime[c] = TTT_NOT_SET

\* Only the first row of a UE can hold a trigger time: fn_..._Matrix_Set and
\* fn_..._Matrix_Find stop at the first row, so rows that repeated
\* associations append behind it stay unset until they come first.
LaterRowsUnset == \A g \in Gnbs : LaterUnset(matrix[g], g)

\* A setup that is under way ends with a connected UE: once a UE that can send to
\* its cell has a request, neither its way through the chain of setup events nor
\* the gNB's test of the cell the UE has selected (LTENR_GNBRRC.c:976) leaves the
\* UE idle, whatever selections and associations fall in between.
SetupCompletes ==
    \A u \in UEs :
        (\/ ev["CONN_REQUEST"][u] > 0 /\ CanSend(u)
         \/ \E k \in {"SETUP_REQUEST", "GENERATE_SETUP", "SETUP"} : ev[k][u] > 0)
            ~> (ueRRCState[u] = "CONNECTED")

\* A connected UE is known to the matrix of its serving gNB, as the (commented
\* out) error report of the lookup supposes.
ConnectedHasRow ==
    \A u \in UEs : ueRRCState[u] = "CONNECTED"
        => RowsOf(matrix[SelectedCellID[u]], u) # {}
=============================================================================
