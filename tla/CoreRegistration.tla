-------------------------- MODULE CoreRegistration --------------------------
(***************************************************************************)
(* Registration of a UE with the 5G core (LTENR_GNB_CORE.c, LTENR_AMF.c,   *)
(* LTENR_SMF_UPF.c), started by every RRC setup complete message the gNB   *)
(* receives:                                                               *)
(*                                                                         *)
(*   gNB --INITIAL_UE--> AMF --CREATE_REQUEST--> SMF --PFCP_REQUEST--> UPF *)
(*   gNB <--SETUP_REQUEST-- AMF <--CREATE_RESPONSE-- SMF <--PFCP_RESPONSE--*)
(*   gNB --SETUP_RESPONSE--> AMF                                           *)
(*                                                                         *)
(* A UE registers again whenever it completes another RRC setup, also      *)
(* while an earlier registration of it is still under way, so the AMF's    *)
(* and the SMF's lists collect several entries for one gNB or UE.  Lists   *)
(* are sequences; searches return the first match.  One AMF, SMF and UPF;  *)
(* each link delivers in order.  The UPF's routing table is external.      *)
(***************************************************************************)
EXTENDS Integers, Sequences

CONSTANTS
    Gnbs, UEs,
    SelectedCell,       \* [UEs -> Gnbs]: the gNB a UE is connected to
    MaxRegistrations    \* bound on the registrations of a UE

ASSUME CoreRegistrationAssumption ==
    /\ SelectedCell \in [UEs -> Gnbs]
    /\ MaxRegistrations \in Nat

NoBearer == [id |-> 0, teid |-> 0]

VARIABLES
    amfInfo,        \* Seq([gnb, ueList]): AMFVar->info
    gnbList,        \* Seq(Gnbs): the SMF's gNBs
    ueInfo,         \* Seq([ue, gnb, bearer]): the SMF's UEs; 0 is no bearer
    epsBearer, smfTEID, pduSessionID,       \* counters
    bearer,         \* [UEs -> [id, teid]]: rrc->bearer
    ueCMState,      \* [UEs -> {"IDLE", "CONNECTED"}]
    link,           \* [Links -> Seq(message)]
    registrations   \* [UEs -> 0 .. MaxRegistrations]

vars == <<amfInfo, gnbList, ueInfo, epsBearer, smfTEID,
          pduSessionID, bearer, ueCMState, link, registrations>>

\* N2 of every gNB in both directions, N11 and N4 in both directions.
Links == ({"N2up", "N2down"} \X Gnbs) \cup {<<"N11", "request">>,
            <<"N11", "response">>, <<"N4", "request">>, <<"N4", "response">>}
Types == {"INITIAL_UE", "CREATE_REQUEST", "PFCP_REQUEST", "PFCP_RESPONSE",
          "CREATE_RESPONSE", "SETUP_REQUEST", "SETUP_RESPONSE"}
Msg == [type : Types, ue : UEs, gnb : Gnbs, bearer : [id : Nat, teid : Nat]]

Init ==
    /\ amfInfo = << >> /\ gnbList = << >> /\ ueInfo = << >>
    /\ epsBearer = 0 /\ smfTEID = 0 /\ pduSessionID = 0
    /\ bearer = [u \in UEs |-> NoBearer]
    /\ ueCMState = [u \in UEs |-> "IDLE"]
    /\ link = [l \in Links |-> << >>]
    /\ registrations = [u \in UEs |-> 0]

\* Messages: sending m on a link, and moving the first of a link on as m.
Send(l, m) == link' = [link EXCEPT ![l] = Append(@, m)]
Relay(l, r, m) == link' = [link EXCEPT ![l] = Tail(@), ![r] = Append(@, m)]
Arrived(l, t) == link[l] # << >> /\ Head(link[l]).type = t
As(m, t, b) == [m EXCEPT !.type = t, !.bearer = b]

First(s, P(_)) ==
    CHOOSE i \in DOMAIN s : P(s[i]) /\ \A j \in DOMAIN s : P(s[j]) => i <= j

\* Mutant: the new entry becomes the head of the list.
AMF_AddgNB_AtHead(g) == amfInfo' = <<[gnb |-> g, ueList |-> << >>]>> \o amfInfo

\* LTENR_AMF_AddgNB: another entry for the gNB at every registration.
AMF_AddgNB(g) == amfInfo' = Append(amfInfo, [gnb |-> g, ueList |-> << >>])

\* LTENR_AMF_Find_gNB_Info.
Find_gNB_Info(g) == LET Is(e) == e.gnb = g IN First(amfInfo, Is)

\* LTENR_AMF_AddUE.
AMF_AddUE(g, u) ==
    amfInfo' = [amfInfo EXCEPT ![Find_gNB_Info(g)].ueList = Append(@, u)]

\* fn_NetSim_LTENR_GNB_CORE_INITIAL_UE_MSG.
INITIAL_UE_MSG(g, u) ==
    Send(<<"N2up", g>>, [type |-> "INITIAL_UE", ue |-> u, gnb |-> g,
                         bearer |-> NoBearer])

\* fn_NetSim_LTENR_RRC_RRCSETUPCOMPLETE_RECV at the gNB.
RRCSETUPCOMPLETE_RECV(u) ==
    LET g == SelectedCell[u] IN
    /\ registrations[u] < MaxRegistrations
    /\ registrations' = [registrations EXCEPT ![u] = @ + 1]
    /\ AMF_AddgNB(g)
    /\ INITIAL_UE_MSG(g, u)
    /\ UNCHANGED <<gnbList, ueInfo, epsBearer, smfTEID, pduSessionID,
                   bearer, ueCMState>>

\* Mutant: the bearer identifier is taken before the increment.
AMF_CREATE_SESSION_REQUEST_PostIncrement(l, m) ==
    /\ epsBearer' = epsBearer + 1
    /\ Relay(l, <<"N11", "request">>,
             As(m, "CREATE_REQUEST", [NoBearer EXCEPT !.id = epsBearer]))

\* LTENR_AMF_CREATE_SESSION_REQUEST: a new bearer identifier.
AMF_CREATE_SESSION_REQUEST(l, m) ==
    /\ epsBearer' = epsBearer + 1
    /\ Relay(l, <<"N11", "request">>,
             As(m, "CREATE_REQUEST", [NoBearer EXCEPT !.id = epsBearer + 1]))

\* fn_NetSim_LTENR_AMF_INITIAL_MSG_RECV.
AMF_INITIAL_MSG_RECV(g) ==
    /\ Arrived(<<"N2up", g>>, "INITIAL_UE")
    /\ LET m == Head(link[<<"N2up", g>>])
       IN  /\ AMF_AddUE(m.gnb, m.ue)
           /\ AMF_CREATE_SESSION_REQUEST(<<"N2up", g>>, m)
    /\ UNCHANGED <<gnbList, ueInfo, smfTEID, pduSessionID, bearer,
                   ueCMState, registrations>>

\* LTENR_SMF_FindUE.
SMF_FindUE(list, u) == LET Is(e) == e.ue = u IN First(list, Is)

\* Mutant: the bearer is stored in the entry just appended.
SMF_AddBearer_NewEntry(list, u, b) == [list EXCEPT ![Len(list)].bearer = b]

\* LTENR_SMF_AddBearer on the entry LTENR_SMF_FindUE returns.
SMF_AddBearer(list, u, b) == [list EXCEPT ![SMF_FindUE(list, u)].bearer = b]

\* fn_NetSim_SMF_UPF_LTENR_CREATE_SESSION_REQUEST_RECV: a further entry for
\* the UE is appended, but the bearer goes to the first one.
SMF_CREATE_SESSION_REQUEST_RECV ==
    LET l == <<"N11", "request">> IN
    /\ Arrived(l, "CREATE_REQUEST")
    /\ LET m == Head(link[l])
           added == Append(ueInfo, [ue |-> m.ue, gnb |-> m.gnb, bearer |-> 0])
       IN  /\ gnbList' = Append(gnbList, m.gnb)
           /\ ueInfo' = SMF_AddBearer(added, m.ue, m.bearer.id)
           /\ Relay(l, <<"N4", "request">>, As(m, "PFCP_REQUEST", m.bearer))
    /\ UNCHANGED <<amfInfo, epsBearer, smfTEID, pduSessionID, bearer,
                   ueCMState, registrations>>

\* fn_NetSim_LTENR_SMF_UPF_GENERATE_PFCP_SESSION_REQUEST_RECV at the UPF.
PFCP_SESSION_REQUEST_RECV ==
    LET l == <<"N4", "request">> IN
    /\ Arrived(l, "PFCP_REQUEST")
    /\ LET m == Head(link[l])
       IN  Relay(l, <<"N4", "response">>, As(m, "PFCP_RESPONSE", m.bearer))
    /\ UNCHANGED <<amfInfo, gnbList, ueInfo, epsBearer, smfTEID, pduSessionID,
                   bearer, ueCMState, registrations>>

\* Mutant: the tunnel counter starts afresh in every call.
SMF_CREATE_SESSION_REPONSE_LocalCounter(l, m) ==
    /\ smfTEID' = 1
    /\ Relay(l, <<"N11", "response">>,
             As(m, "CREATE_RESPONSE", [m.bearer EXCEPT !.teid = 1]))

\* LTENR_SMF_CREATE_SESSION_REPONSE: a new tunnel endpoint identifier.
SMF_CREATE_SESSION_REPONSE(l, m) ==
    /\ smfTEID' = smfTEID + 1
    /\ Relay(l, <<"N11", "response">>,
             As(m, "CREATE_RESPONSE", [m.bearer EXCEPT !.teid = smfTEID + 1]))

\* fn_NetSim_LTENR_SMF_UPF_GENERATE_PFCP_SESSION_RESPONSE_RECV at the SMF.
PFCP_SESSION_RESPONSE_RECV ==
    LET l == <<"N4", "response">> IN
    /\ Arrived(l, "PFCP_RESPONSE")
    /\ SMF_CREATE_SESSION_REPONSE(l, Head(link[l]))
    /\ UNCHANGED <<amfInfo, gnbList, ueInfo, epsBearer, pduSessionID,
                   bearer, ueCMState, registrations>>

\* fn_NetSim_LTENR_AMF_CREATE_SESSION_RESPONSE_RECV, with
\* fn_NetSim_LTENR_AMF_INITIAL_CONTEXT_SETUP_REQUEST.
AMF_CREATE_SESSION_RESPONSE_RECV ==
    LET l == <<"N11", "response">> IN
    /\ Arrived(l, "CREATE_RESPONSE")
    /\ LET m == Head(link[l])
       IN  Relay(l, <<"N2down", m.gnb>>, As(m, "SETUP_REQUEST", m.bearer))
    /\ pduSessionID' = pduSessionID + 1
    /\ UNCHANGED <<amfInfo, gnbList, ueInfo, epsBearer, smfTEID,
                   bearer, ueCMState, registrations>>

\* Mutant: the gNB keeps the UE's bearer when it has one already.
NewBearer_KeepFirst(old, new) == IF old # NoBearer THEN old ELSE new

\* The bearer a context setup request gives the UE: always the new one.
NewBearer(old, new) == new

\* fn_NetSIM_LTENR_GNB_CORE_GENERATE_INITIAL_CONTEXT_SETUP_REQUEST_RECV.
INITIAL_CONTEXT_SETUP_REQUEST_RECV(g) ==
    /\ Arrived(<<"N2down", g>>, "SETUP_REQUEST")
    /\ LET m == Head(link[<<"N2down", g>>])
       IN  /\ bearer' = [bearer EXCEPT ![m.ue] = NewBearer(@, m.bearer)]
           /\ Relay(<<"N2down", g>>, <<"N2up", g>>, As(m, "SETUP_RESPONSE", m.bearer))
    /\ UNCHANGED <<amfInfo, gnbList, ueInfo, epsBearer, smfTEID,
                   pduSessionID, ueCMState, registrations>>

\* fn_NetSim_LTENR_AMF_INITIAL_CONTEXT_SETUP_RESPONSE_RECV.
AMF_INITIAL_CONTEXT_SETUP_RESPONSE_RECV(g) ==
    /\ Arrived(<<"N2up", g>>, "SETUP_RESPONSE")
    /\ ueCMState' = [ueCMState EXCEPT ![Head(link[<<"N2up", g>>]).ue] = "CONNECTED"]
    /\ link' = [link EXCEPT ![<<"N2up", g>>] = Tail(@)]
    /\ UNCHANGED <<amfInfo, gnbList, ueInfo, epsBearer, smfTEID,
                   pduSessionID, bearer, registrations>>

\* The packet handlers of AMF, SMF, UPF and gNB.
Handle ==
    \/ SMF_CREATE_SESSION_REQUEST_RECV
    \/ PFCP_SESSION_REQUEST_RECV
    \/ PFCP_SESSION_RESPONSE_RECV
    \/ AMF_CREATE_SESSION_RESPONSE_RECV
    \/ \E g \in Gnbs : \/ AMF_INITIAL_MSG_RECV(g)
                       \/ INITIAL_CONTEXT_SETUP_REQUEST_RECV(g)
                       \/ AMF_INITIAL_CONTEXT_SETUP_RESPONSE_RECV(g)

Next == Handle \/ \E u \in UEs : RRCSETUPCOMPLETE_RECV(u)

Spec == Init /\ [][Next]_vars

\* Packets in the core network arrive (its links are configured without
\* errors).  Every registration sends finitely many, so it is enough that
\* some packet is handled while there is one.
FairSpec == Spec /\ WF_vars(Handle)

----------------------------------------------------------------------------
\* The type of the state; the identifiers handed out are those the counters
\* have reached.
TypeOK ==
    /\ amfInfo \in Seq([gnb : Gnbs, ueList : Seq(UEs)])
    /\ gnbList \in Seq(Gnbs)
    /\ ueInfo \in Seq([ue : UEs, gnb : Gnbs, bearer : 0 .. epsBearer])
    /\ epsBearer \in Nat /\ smfTEID \in Nat /\ pduSessionID \in Nat
    /\ bearer \in [UEs -> ([id : 1 .. epsBearer, teid : 1 .. smfTEID] \cup {NoBearer})]
    /\ ueCMState \in [UEs -> {"IDLE", "CONNECTED"}]
    /\ link \in [Links -> Seq(Msg)]
    /\ registrations \in [UEs -> 0 .. MaxRegistrations]

\* A registration of u is under way in the core.
Underway(u) == \E l \in Links : \E i \in DOMAIN link[l] : link[l][i].ue = u

\* The bearer on u's first SMF entry, 0 when there is none.
SmfBearer(u) == IF \E i \in DOMAIN ueInfo : ueInfo[i].ue = u
                THEN ueInfo[SMF_FindUE(ueInfo, u)].bearer ELSE 0

\* gNB and SMF agree on the bearer of a UE: whenever no registration of the UE
\* is under way, the bearer in rrc->bearer is the one of the SMF entry that
\* LTENR_SMF_FindUE returns, however many registrations of however many UEs
\* overlapped before.
BearerAgreed == \A u \in UEs : ~Underway(u) => bearer[u].id = SmfBearer(u)

\* A UE that has a bearer is on the list of the AMF entry that
\* LTENR_AMF_Find_gNB_Info returns for its gNB, although every registration
\* through that gNB adds an entry.
AmfFindsUe ==
    \A u \in UEs : bearer[u] # NoBearer =>
        \E i \in DOMAIN amfInfo :
            /\ i = Find_gNB_Info(SelectedCell[u])
            /\ \E k \in DOMAIN amfInfo[i].ueList : amfInfo[i].ueList[k] = u

\* A UE's bearer is only ever replaced by one of a later registration, with a
\* later tunnel: no stale context setup overwrites a newer one
\* (fn_NetSIM_LTENR_GNB_CORE_GENERATE_INITIAL_CONTEXT_SETUP_REQUEST_RECV).
BearersAdvance ==
    [][\A u \in UEs : bearer'[u] # bearer[u]
            => bearer'[u].id > bearer[u].id /\ bearer'[u].teid > bearer[u].teid]_vars

\* Every registration completes: once an initial UE message is sent, the UE
\* becomes CM-connected with the bearer the SMF keeps for it, and no message
\* of it is left in the core.
RegistrationCompletes ==
    \A u \in UEs : Underway(u) ~>
        /\ ~Underway(u)
        /\ ueCMState[u] = "CONNECTED"
        /\ bearer[u].id = SmfBearer(u)
=============================================================================
