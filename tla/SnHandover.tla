----------------------------- MODULE SnHandover -----------------------------
(***************************************************************************)
(* Secondary nodes of dual-connectivity UEs (LTENR_NSA.c,                  *)
(* LTENR_SN_HandOver.c, and the part of fn_NetSim_LTENR_RRC_UE_            *)
(* MEASUREMENT_RECV that calls them).  The master node MN adds a secondary *)
(* node (SN) when it handles the first measurement report of a UE and, on  *)
(* every report, may start the handover of the secondary leg to a better   *)
(* SN: addition request and ack with the target, release request and ack   *)
(* with the old SN (which performs the switch), context release and ack.   *)
(*                                                                         *)
(* An SN is connected to MN by a wire; down[s] and up[s] are the packets   *)
(* on it in the two directions, delivered in order.  The header of a       *)
(* handover travels unchanged through all six messages.  Nothing keeps MN  *)
(* from starting a handover while another one of the same UE is under way; *)
(* both then name the same old SN, and the second switch follows a null    *)
(* pointer, which ends the simulation (crashed).                           *)
(*                                                                         *)
(* UEs here keep one master; packet buffers move with the RLC entities     *)
(* (and PDCP entities of split bearers) and are not modelled, neither is   *)
(* the core's route to the UE.                                             *)
(***************************************************************************)
EXTENDS TttMatrix

CONSTANTS
    UEs,            \* dual-connectivity UEs of one master node
    MaxReports      \* bound on the measurement reports MN handles per UE

ASSUME SnHandoverAssumption == MaxReports \in Nat

SNs == Gnbs         \* the gNBs of the secondary cell type
NoNode == 0         \* rrc->SNID of a UE without secondary node
ASSUME NoNodeAssumption == NoNode \notin Gnbs

VARIABLES
    SNID,           \* [UEs -> SNs \cup {NoNode}]: on the master interface
    phyGnb,         \* [UEs -> SNs \cup {NoNode}]: uePhy->gnBId
    isAssociated,   \* [SNs -> SUBSET UEs]: UEs the SN's PHY has associated
                    \* and has RLC entities for (set and reset together)
    matrix,         \* [SNs -> Seq(row)]: Conditional_HO_TTT_Matrix
    secRRCState,    \* [UEs -> state]: ueRRCState of the secondary interface
    down, up,       \* [SNs -> Seq(message)]: MN to SN and SN to MN
    handled,        \* [UEs -> 0 .. MaxReports]: reports handled
    crashed,        \* a null pointer has been followed
    overlapped      \* history: UEs that had two handovers under way at once

vars == <<SNID, phyGnb, isAssociated, matrix, secRRCState, down, up,
          handled, crashed, overlapped>>
radio == <<phyGnb, isAssociated, matrix>>

\* A message: its type and the header (UE, old SN, target SN).
DownTypes == {"ADDITION", "HO_ADDITION_REQUEST", "HO_RELEASE_REQUEST",
              "HO_CONTEXT_RELEASE"}
UpTypes == {"ADDITION_RESPONSE", "HO_ADDITION_ACK", "HO_RELEASE_ACK",
            "HO_CONTEXT_RELEASE_ACK"}
Msg(types) == [type : types, ue : UEs, sn : SNs, tsn : SNs]
As(m, t) == [m EXCEPT !.type = t]

Init ==
    /\ SNID = [u \in UEs |-> NoNode]
    /\ phyGnb = [u \in UEs |-> NoNode]
    /\ isAssociated = [s \in SNs |-> {}]
    /\ matrix = [s \in SNs |-> << >>]
    /\ secRRCState = [u \in UEs |-> "IDLE"]
    /\ down = [s \in SNs |-> << >>] /\ up = [s \in SNs |-> << >>]
    /\ handled = [u \in UEs |-> 0]
    /\ crashed = FALSE
    /\ overlapped = {}

\* Handovers of u whose switch is still to come, by the messages in flight.
Pending(u) ==
    {m \in UNION {{down[s][i] : i \in DOMAIN down[s]} \cup
                  {up[s][i] : i \in DOMAIN up[s]} : s \in SNs} :
        /\ m.ue = u
        /\ m.type \in {"HO_ADDITION_REQUEST", "HO_ADDITION_ACK", "HO_RELEASE_REQUEST"}}

\* fn_NetSim_LTENR_FIND_BEST_SN_CELL_FOR_UE: the SN with the best SINR at the
\* moment, which may be any of them.
FIND_BEST_SN_CELL_FOR_UE == SNs

\* fn_NetSim_LTENR_SEC_CELL_SelectionAddition: a UE without SN gets best.
SEC_CELL_SelectionAddition(u, best) == IF SNID[u] = NoNode THEN best ELSE SNID[u]

\* fn_Netsim_NSA_Secondary_Cell_Addition: what MN sends to sn.
Secondary_Cell_Addition(u, sn) ==
    <<[type |-> "ADDITION", ue |-> u, sn |-> sn, tsn |-> sn]>>

\* fn_NetSim_LTENR_DC_HO_SN_ADDITION_REQUEST: what MN sends to target.
DC_HO_SN_ADDITION_REQUEST(u, sn, target) ==
    <<[type |-> "HO_ADDITION_REQUEST", ue |-> u, sn |-> sn, tsn |-> target]>>

(***************************************************************************)
(* fn_NetSim_LTENR_RRC_UE_MEASUREMENT_RECV of a UE with isDCEnable: without *)
(* SN, fn_NetSim_LTENR_SEC_CELL_SelectionAddition asks the best one now     *)
(* (best) to join and stores it as SNID at once; fn_NetSim_DC_HO_SN_        *)
(* PROCESSIONG then compares SNID with the best cell of the report (target) *)
(* and beats says that target exceeds it by more than the margin.           *)
(***************************************************************************)
MeasurementReport(u, best, target, beats) ==
    LET sn == SEC_CELL_SelectionAddition(u, best)
        add == SNID[u] = NoNode
        handover == beats /\ target # sn
    IN  /\ handled[u] < MaxReports
        /\ handled' = [handled EXCEPT ![u] = @ + 1]
        /\ SNID' = [SNID EXCEPT ![u] = sn]
        /\ down' = [s \in SNs |-> down[s]
                \o (IF add /\ s = sn THEN Secondary_Cell_Addition(u, sn) ELSE << >>)
                \o (IF handover /\ s = target
                    THEN DC_HO_SN_ADDITION_REQUEST(u, sn, target) ELSE << >>)]
        /\ overlapped' = IF handover /\ Pending(u) # {}
                         THEN overlapped \cup {u} ELSE overlapped
        /\ UNCHANGED <<radio, secRRCState, up, crashed>>

\* An SN takes the first packet from MN and answers with one of type t.
Answer(s, t) == /\ down' = [down EXCEPT ![s] = Tail(@)]
                /\ up' = [up EXCEPT ![s] = Append(@, As(Head(down[s]), t))]

\* MN takes the first packet of SN s and sends the header on to node r.
Forward(s, r, t) == /\ up' = [up EXCEPT ![s] = Tail(@)]
                    /\ down' = [down EXCEPT ![r] = Append(@, As(Head(up[s]), t))]

DownIs(s, t) == down[s] # << >> /\ Head(down[s]).type = t
UpIs(s, t) == up[s] # << >> /\ Head(up[s]).type = t

\* fn_Netsim_NSA_Secondary_Cell_Addition_Request_Recv at SN s.
Secondary_Cell_Addition_Request_Recv(s) ==
    /\ DownIs(s, "ADDITION")
    /\ LET u == Head(down[s]).ue
       IN  /\ phyGnb' = [phyGnb EXCEPT ![u] = s]
           /\ isAssociated' = [isAssociated EXCEPT ![s] = @ \cup {u}]
           /\ matrix' = [matrix EXCEPT ![s] = Add(@, s, u)]
    /\ Answer(s, "ADDITION_RESPONSE")
    /\ UNCHANGED <<SNID, secRRCState, handled, crashed, overlapped>>

\* fn_Netsim_NSA_Secondary_Cell_Addition_Response_Recv at MN.
Secondary_Cell_Addition_Response_Recv(s) ==
    /\ UpIs(s, "ADDITION_RESPONSE")
    /\ secRRCState' = [secRRCState EXCEPT ![Head(up[s]).ue] = "CONNECTED"]
    /\ up' = [up EXCEPT ![s] = Tail(@)]
    /\ UNCHANGED <<SNID, radio, down, handled, crashed, overlapped>>

\* fn_NetSim_LTENR_DC_HO_SN_ADDITION_REQUEST_RECV at the target.
DC_HO_SN_ADDITION_REQUEST_RECV(s) ==
    /\ DownIs(s, "HO_ADDITION_REQUEST")
    /\ Answer(s, "HO_ADDITION_ACK")
    /\ UNCHANGED <<SNID, radio, secRRCState, handled, crashed, overlapped>>

\* Mutant: the release request is sent back to the target.
DC_HO_SN_ADDITION_REQUEST_ACK_RECV_Back(s) ==
    /\ UpIs(s, "HO_ADDITION_ACK")
    /\ Forward(s, s, "HO_CONTEXT_RELEASE")
    /\ UNCHANGED <<SNID, radio, secRRCState, handled, crashed, overlapped>>

\* fn_NetSim_LTENR_DC_HO_SN_ADDITION_REQUEST_ACK_RECV at MN: release the old
\* SN of the header, whatever SNID is by now.
DC_HO_SN_ADDITION_REQUEST_ACK_RECV(s) ==
    /\ UpIs(s, "HO_ADDITION_ACK")
    /\ Forward(s, Head(up[s]).sn, "HO_RELEASE_REQUEST")
    /\ UNCHANGED <<SNID, radio, secRRCState, handled, crashed, overlapped>>

\* Mutant: the switch without the PHY disassociation of the old SN.
Switch_NoDisassociation(u, d, t) ==
    /\ isAssociated' = [isAssociated EXCEPT ![t] = @ \cup {u}]
    /\ phyGnb' = [phyGnb EXCEPT ![u] = t]
    /\ matrix' = [matrix EXCEPT ![t] = Add(@, t, u), ![d] = Remove(@, u)]
    /\ SNID' = [SNID EXCEPT ![u] = t]

\* Mutant: the switch leaves SNID at the old node.
Switch_KeepsSnid(u, d, t) ==
    /\ isAssociated' = [isAssociated EXCEPT ![t] = @ \cup {u}, ![d] = @ \ {u}]
    /\ phyGnb' = [phyGnb EXCEPT ![u] = t]
    /\ matrix' = [matrix EXCEPT ![t] = Add(@, t, u), ![d] = Remove(@, u)]
    /\ UNCHANGED SNID

\* The switch of UE u from node d to node t: association with t, SNID, then
\* disassociation from d (establishing an RLC entity that exists changes
\* nothing).
Switch(u, d, t) ==
    /\ isAssociated' = [isAssociated EXCEPT ![t] = @ \cup {u}, ![d] = @ \ {u}]
    /\ phyGnb' = [phyGnb EXCEPT ![u] = t]
    /\ matrix' = [matrix EXCEPT ![t] = Add(@, t, u), ![d] = Remove(@, u)]
    /\ SNID' = [SNID EXCEPT ![u] = t]

\* fn_NetSim_LTENR_DC_HO_SN_RELEASE_RECV at the old SN, with the release ack
\* it sends (isMNHandoverComplete is false: the UE keeps its master).
DC_HO_SN_RELEASE_RECV(s) ==
    /\ DownIs(s, "HO_RELEASE_REQUEST")
    /\ Head(down[s]).ue \in isAssociated[s]
    /\ LET m == Head(down[s])
       IN  /\ Switch(m.ue, m.sn, m.tsn)
           /\ secRRCState' = [secRRCState EXCEPT ![m.ue] = "INACTIVE"]
    /\ Answer(s, "HO_RELEASE_ACK")
    /\ UNCHANGED <<handled, crashed, overlapped>>

\* The same handler when the old SN has already lost the UE to another switch:
\* LTENR_RLC_UNESTABLISHENTITY passes the entity it has not found to LIST_REMOVE.
RELEASE_RECV_Crash(s) ==
    /\ DownIs(s, "HO_RELEASE_REQUEST")
    /\ Head(down[s]).ue \notin isAssociated[s]
    /\ crashed' = TRUE
    /\ UNCHANGED <<SNID, radio, secRRCState, down, up, handled, overlapped>>

\* fn_NetSim_LTENR_DC_HO_SN_RELEASE_REQUEST_ACK_RECV at MN.
DC_HO_SN_RELEASE_REQUEST_ACK_RECV(s) ==
    /\ UpIs(s, "HO_RELEASE_ACK")
    /\ Forward(s, Head(up[s]).sn, "HO_CONTEXT_RELEASE")
    /\ UNCHANGED <<SNID, radio, secRRCState, handled, crashed, overlapped>>

\* fn_NetSim_LTENR_DC_HO_SN_UE_CONTEXT_RELEASE_RECV at the old SN.
DC_HO_SN_UE_CONTEXT_RELEASE_RECV(s) ==
    /\ DownIs(s, "HO_CONTEXT_RELEASE")
    /\ Answer(s, "HO_CONTEXT_RELEASE_ACK")
    /\ UNCHANGED <<SNID, radio, secRRCState, handled, crashed, overlapped>>

\* fn_NetSim_LTENR_DC_HO_SN_UE_CONTEXT_RELEASE_ACK_RECV at MN does nothing.
DC_HO_SN_UE_CONTEXT_RELEASE_ACK_RECV(s) ==
    /\ UpIs(s, "HO_CONTEXT_RELEASE_ACK")
    /\ up' = [up EXCEPT ![s] = Tail(@)]
    /\ UNCHANGED <<SNID, radio, secRRCState, down, handled, crashed, overlapped>>

\* fn_NetSim_SN_HANDOVER_PACKET_HANDLER and fn_NetSim_LTENR_NSA_RECV: the
\* first packet on a wire reaches its handler, at the SN or at MN.
AtNode(s) ==
    \/ Secondary_Cell_Addition_Request_Recv(s)
    \/ DC_HO_SN_ADDITION_REQUEST_RECV(s)
    \/ DC_HO_SN_RELEASE_RECV(s)
    \/ RELEASE_RECV_Crash(s)
    \/ DC_HO_SN_UE_CONTEXT_RELEASE_RECV(s)

AtMaster(s) ==
    \/ Secondary_Cell_Addition_Response_Recv(s)
    \/ DC_HO_SN_ADDITION_REQUEST_ACK_RECV(s)
    \/ DC_HO_SN_RELEASE_REQUEST_ACK_RECV(s)
    \/ DC_HO_SN_UE_CONTEXT_RELEASE_ACK_RECV(s)

Next ==
    /\ ~crashed
    /\ \/ \E u \in UEs, best \in FIND_BEST_SN_CELL_FOR_UE, target \in SNs, beats \in BOOLEAN :
               MeasurementReport(u, best, target, beats)
       \/ \E s \in SNs : AtNode(s) \/ AtMaster(s)

Spec == Init /\ [][Next]_vars

\* A packet on a wire arrives (the links are configured without errors); no
\* report ever has to come.
FairSpec == Spec /\ \A s \in SNs : /\ WF_vars(~crashed /\ AtNode(s))
                                  /\ WF_vars(~crashed /\ AtMaster(s))

----------------------------------------------------------------------------
\* The type of the state.
TypeOK ==
    /\ SNID \in [UEs -> SNs \cup {NoNode}]
    /\ phyGnb \in [UEs -> SNs \cup {NoNode}]
    /\ isAssociated \in [SNs -> SUBSET UEs]
    /\ DOMAIN matrix = SNs
    /\ \A s \in SNs : matrix[s] \in
            Seq([ueID : UEs, TriggerTime : [SNs \ {s} -> {TTT_NOT_SET}]])
    /\ secRRCState \in [UEs -> {"IDLE", "CONNECTED", "INACTIVE"}]
    /\ down \in [SNs -> Seq(Msg(DownTypes))]
    /\ up \in [SNs -> Seq(Msg(UpTypes))]
    /\ handled \in [UEs -> 0 .. MaxReports]
    /\ crashed \in BOOLEAN
    /\ overlapped \in SUBSET UEs

\* The addition of UE u is on its way to an SN.
Adding(u) == \E s \in SNs : \E i \in DOMAIN down[s] :
                down[s][i].type = "ADDITION" /\ down[s][i].ue = u

\* The master and the radio agree on the secondary node: from the moment the
\* SN has handled its addition, the node MN records (ueRRC->SNID, which the
\* splitting algorithm sends data to) is the one the UE's PHY points at and
\* one that has it associated, with RLC entities for it.  Reports may
\* start any number of overlapping handovers, the first of them in the very
\* report that adds the SN, before the SN has even heard of the UE.
ServingNodeServes ==
    \A u \in UEs : SNID[u] # NoNode /\ ~Adding(u)
        => /\ phyGnb[u] = SNID[u]
           /\ u \in isAssociated[SNID[u]]

\* A switch leaves nothing behind (fn_NetSim_LTENR_DC_HO_SN_RELEASE_RECV
\* associates the target and dissociates the old node of the header, which need
\* not be SNID): however handovers overlap, no other SN ever has the UE
\* associated, and only one that has it associated keeps a matrix row for it.
NothingLeftBehind ==
    \A u \in UEs, s \in SNs :
        /\ u \in isAssociated[s] => s = SNID[u]
        /\ RowsOf(matrix[s], u) # {} => u \in isAssociated[s]

\* The null pointer (LTENR_RLC.c:181) is only reached after two handovers of a
\* UE have been under way at once, and that UE still has a node that serves it.
CrashNeedsOverlap == crashed => \E u \in overlapped : u \in isAssociated[SNID[u]]

\* A handover MN has started is carried out: once the addition request is on
\* its way to target t, the UE's SNID becomes t, even when other handovers of
\* the UE run at the same time, unless the simulation crashes.
HandoverCarriedOut ==
    \A u \in UEs, t \in SNs :
        (\E m \in Pending(u) : m.tsn = t) ~> (SNID[u] = t \/ crashed)
=============================================================================
