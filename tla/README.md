# A TLA+ model of the 5G stack in this NetSim workspace

The repository is a NetSim workspace: C protocol libraries that a discrete-event
network simulator loads, scenario files, and the work this workspace is for, the
study of handover ping-pong in the 5G stack (`src/src/Simulation/LTE_NR`) with
handover events passed to a Python listener. The project models what that study
rests on: how a UE connects, how a gNB decides on handovers, how a UE and the
secondary leg of a dual-connectivity UE move between nodes, how the core follows,
how packets reach the UE through PDCP, RLC and HARQ while it moves, and the Python
listener that logs the events. Of the simulator's stock protocol libraries it models
AODV, whose source is complete and whose timers and tables are the hardest to test.

## 1. Inventory

The simulator executes one event at a time (`pstruEventDetails`); a handler runs
to its end and schedules further events (`fnpAddEvent`) or sends packets. There is
no preemption inside the simulator, so the hard behaviours are *orderings of
events*: several procedures of one UE, or of several UEs, under way at once. The
exception is the Python event channel, whose accept thread runs beside it.

| Part | State | Operations | Interacts with | Hard behaviour, and what is correct |
|---|---|---|---|---|
| RRC (`LTENR_GNBRRC.c`, `LTENR_RRC.c`) | UE state, selected cell, MIB; timers of the gNB | MIB, SIB1, SI, connection request, setup request, setup, setup complete, measurement reports | PHY association, core (initial UE message), NAS, NSA | repeated and concurrent setups; a setup under way ends connected |
| Time-to-trigger matrix (`LTENR_GNBRRC.c:1210-1323`) | list of rows per gNB | Add, Remove, Find, Set | called by RRC and PHY | rows duplicated, removed, lost; a time to trigger that counts as elapsed has elapsed |
| Dual connectivity (`LTENR_NSA.c`, `LTENR_SN_HandOver.c`) | SNID, associations at SNs, RRC state of the secondary interface | addition and response, six handover messages | RRC reports, PHY, RLC | overlapping handovers; the node on record serves the UE, a switch leaves nothing behind, handovers are carried out |
| Core (`LTENR_AMF.c`, `LTENR_SMF_UPF.c`, `LTENR_GNB_CORE.c`) | lists of gNBs and UEs at AMF and SMF, bearer counters | initial UE message, session creation, PFCP, context setup, path switch, modify bearer | RRC, NAS | overlapping registrations; the nodes agree on the bearer |
| NAS and Xn handover (`LTENR_NAS.c`, `LTENR_HANDOVER.c`) | associations, buffers, per-UE ping-pong memory | request, ack, command, switch, path switch, context release | RRC, core, PDCP and RLC, Python channel | handovers of one UE that overlap; the UE is served by the cell it selects, nothing queued is lost, the core follows, a return to the old cell is reported |
| Python channel (`LTENR_GNBRRC.c:42-209`) | sockets, thread handle, flags | start, accept, send, stop | two threads, TCP | races on the socket handle, lost stop |
| Listener (`handover_pingpong_listener.py`) | queue, events, 3 s window, alerted flag, stop event | read, collect, write, shut down | TCP, three threads | partial lines, shutdown with a full queue; what is parsed is written, a burst is announced once, the program ends |
| Data plane (`LTENR_PDCP.c`, `LTENR_RLC_UM.c`, `LTENR_HARQ.c`, `LTENR_MAC.c`) | sequence numbers, buffers and timers of PDCP and RLC, HARQ processes | transmit, segment, grant, transmit a TB, reassemble, deliver, discard | NAS moves buffers between cells | retransmissions reorder segments, a handover in the middle of an SDU, wrap-around; packets arrive at most once, whole and in order, and none is forgotten |
| RLC AM (`LTENR_RLC_AM.c`) | windows, buffers, timers | transmit, receive, status, retransmit | PDCP, MAC | not reached by any packet at this commit |
| SDAP, PHY, radio models | tables | packet handling, radio arithmetic | each other | mostly numeric |
| AODV (`AODV/*.c`) | route table, FIFO buffer, tables of requests sent and seen, timers | originate, forward, request, retry, reply, hello, route error | IP, MAC drop notification | a timeout racing a late reply, tables that disagree; what is queued is served or given up |
| Other protocol libraries (TCP, OSPF, ARP, 802.11, ...) | their own | their own | stack | stock code, not changed here |

`PROJECT.json` lists every part under `components`, with what is left out of each,
and under `hazards` the places where this code is hard to test.

## 2. Modules

| Module | What it is |
|---|---|
| `TttMatrix` | the time-to-trigger matrix: constant operators on sequences |
| `GnbRrc`, `GnbRrc_proofs` | RRC between UEs and gNBs, with time and measurement reports; theorems |
| `SnHandover`, `SnHandover_proofs` | secondary node addition and handover; theorems |
| `CoreRegistration`, `CoreRegistration_proofs` | registration of UEs at gNB, AMF, SMF and UPF; theorems |
| `XnHandover`, `XnHandover_proofs` | handover of a standalone UE between gNBs: Xn, NAS, path switch in the core, ping-pong test; theorems |
| `LossyChannel` | what the data plane promises: packets at most once, whole, in order |
| `NrDataPlane`, `NrDataPlane_proofs` | PDCP, RLC (UM), HARQ and the slot of the MAC on the downlink of a UE; implements `LossyChannel`; theorems |
| `Aodv`, `Aodv_proofs` | AODV routing in a network of nodes; theorems |
| `PpCollector`, `PpCollector_proofs` | burst detection of the Python listener; theorems |
| `PyListener`, `PyListener_proofs` | the threads of the Python listener; its collector is an instance of `PpCollector`; theorems |
| `MCGnbRrc`, `MCCoreRegistration`, `MCXnHandover`, `MCAodv` | the instances TLC checks (the other modules need none) |

Operators carry the names of the C functions without their prefixes
(`fn_NetSim_LTENR_...`). An operator with a suffix such as `_NoReset`, marked
*Mutant*, is a wrong version of the one after it: replacing the definition by it
must make TLC find the named property violated.

### TttMatrix and GnbRrc

A matrix is a sequence of rows `[ueID, TriggerTime]`. `Remove` does what the code
does, not what its name says: it stores its iterator back as the list head, so
the rows in front of the removed one disappear, and all of them if the UE has
none. `NewRow` has an entry for every cell but the gNB's own.

Variables of `GnbRrc`: `now` is `ldEventTime`; `ueRRCState`, `mib` and
`SelectedCellID` are fields of `LTENR_UERRC`; `matrix` and `reportLoops` belong to
`LTENR_GNBRRC`. Events and messages in flight are counted per kind and UE in `ev`;
their handlers can run in any order, which includes the time order of the event
list. `reports` holds the measurement reports of a UE, in order, reduced to the set
of neighbours that beat the serving cell by more than the margin: all that the
receiver reads from the SINR values when it updates the matrix. `betterSince` is a
history variable: since when a cell has been better in *every* report handled.
One action is one handler; the generation of MIB, SIB1 and reports is part of the
action in which they arrive or are sent. `Connection_Request` may happen at any
time, also before the UE has a cell: it is called by paging and by the T300 timer, whose
code is in a library. Such a request never reaches a gNB. While `SelectedCellID` is 0
its packet is addressed to device 0 and goes to the UE's broadcast entity
(`LTENR_RLC.c:264-270`), which no slot of a UE serves; before `GENERATE_SI` there are no
entities for the gNB (`rlcEntities`: the calls at `LTENR_RLC.c:76` and `:94` are
comments) and RLC frees the packet. `CanSend` is the condition under which it does. So
the gNB's test at `LTENR_GNBRRC.c:976` always finds itself selected here; it can only
fail when a reconfiguration (`LTENR_NAS.c:614`) changes the cell while a request is on
its way, which takes a handover and is outside this module.

### SnHandover

One master node and the SNs of the secondary cell type, each connected to it by a
point-to-point link (`down[s]`, `up[s]`, in order). The header (UE, old node,
target) travels unchanged through the six messages. `MeasurementReport` is the part
of `fn_NetSim_LTENR_RRC_UE_MEASUREMENT_RECV` that serves dual connectivity: it adds
an SN when there is none, storing `SNID` before the SN has even been asked, and may
start a handover in the same call. The switch happens when the old node receives
the release request. `isAssociated` stands for the PHY association and for the RLC
entities, which are set and removed together. `overlapped` is a history variable:
the UEs for which a handover was started while another one was pending. A release
request that reaches a node which has already lost the UE passes a null entity to
`LIST_REMOVE` (`LTENR_RLC.c:181`): `crashed` becomes true and the simulation stops.

### CoreRegistration

Lists of AMF and SMF are sequences that grow with every registration
(`LTENR_AMF_AddgNB`, `LTENR_SMF_AddUE` never look for an existing entry); searches
return the first match. Messages travel in order on N2, N11 and N4. The record of
a message holds the fields of the header the handlers use.

### XnHandover

The header (UE, source, target, start time) travels over Xn, to the UE, through the
core and back; `link` holds what is on each link, in order. `timer` holds the
`GENERATE_HANDOVER_COMMAND_HANDLE` events of a UE; `Expires` says in which order they
can fire, since an event is scheduled the interruption time after the *start* of its
handover. The switch (`GENERATE_HANDOVER_COMMAND_HANDLE`) is one action, as it is one
handler: RRC state, PHY, PDCP and RLC associations, buffers, reconfiguration and path
switch. What of the UE's messages is on the air is dropped, what waits in an RLC
buffer is readdressed (the parameters `k` and `moved`). `AMF_DeleteUE` has two
results: the code advances over an element it has just unlinked, and what that reads
depends on the list library. The target is an input, since its assignment in
`UE_MEASUREMENT_RECV` is a comment. `gap` is what the ping-pong test sees of the time:
less than 2.0 (microseconds), less than two seconds, or more. History variables:
`outstanding` (packets accepted and not delivered), `overlapped`, `leftCell`,
`reported`, `missed`. `smfUe` has both things the SMF keeps: the address is that of the
cell selected by then, the identifier of the gNB stays that of the cell the UE has left
(`LTENR_SMF_UPF.c:322`); `CoreFollows` speaks of the address, to which data is sent.

### LossyChannel and NrDataPlane

`NrDataPlane` follows the packets of one UE from PDCP of the gNB to PDCP of the UE.
A packet has the COUNT of its SDU and a number of payload bytes; the RLC buffer holds
packets and the remainder of one that was segmented. The sequence number in the PDCP
header is written once and never changed, so it is a function of the COUNT,
`PDCP_ADDHDR`: the COUNT modulo `POW_2_SN_SIZE`, which is `0xFFF` = 4095
(`LTENR_PDCP.h:31`). The UE (`RECV_COUNT`) masks and shifts by 12 bits, that is, works
modulo `SnRange` = 4096. The two agree up to COUNT 4094; SDU 4095 travels as 0 and is
counted as 4096 by the UE, whose COUNT gains one on the sender's at every wrap-around
(`Counted`). `InWindow`, the guard that what is under way stays within `MaxUnderWay`
SDUs, is an assumption on the load: PDCP keeps no transmission window. `SEND_PDU` is the loop of
`LTENR_RLC_UM_SEND_PDU`: it compares the room with `dPacketSize` but uses up
`dPayload`, so a segment can be longer than the payload that is left, the remainder has
a length of zero or less, and `bufferStatus`, unsigned, wraps (`Word`). `StartingSlot`
is one slot: next HARQ process, new data or the TB it keeps (`SetNDI`), the grant,
transmission with or without error. `macIn` hands the packets of a TB, one after the
other (`Received`), to RLC and PDCP of the UE, a record `rx` with one reception buffer
for each SN. `GENERATE_HANDOVER_COMMAND_HANDLE` is the part of the switch
of `XnHandover` that concerns these layers: buffers and counters move, the HARQ
processes of the old cell are freed with what they hold. (In `XnHandover` a packet is
either queued or delivered.) Two timers are left out because the code can never start
them: `t_Reassembly` and `t_Reordering` are conditional on state variables that are
only written when they already are greater than something; they stay 0.

`LossyChannel` is the abstract specification: packets are accepted, handed up in order,
at most once and with the size they had, or given up for good. The refinement maps
`accepted` to the sizes accepted by PDCP, `handed` to what the UE's PDCP has delivered,
and `givenUp` to the SDUs PDCP has discarded and those of which HARQ or a handover has
freed a part.

### Aodv

Each node is a record: route table (a sequence, with invalid and duplicate entries),
FIFO buffer, tables of requests sent and seen, sequence number, pending timers.
Messages are sets: a broadcast is heard by any subset of the neighbours, a unicast may
be lost, a data packet is received or reported lost by the MAC. Times are durations
that `Tick` counts down; a timer that is due fires first. Within a tick broadcasts and
data packets leave the air, while a reply, which the MAC repeats until it is
acknowledged, can take longer than the timer of its request: the race of a late reply
with the retry is in the model. `Expire` is the loop of the route timeout, including
what it does to the event time it compares with (`Visit` is one turn, the function
`Visited` the states after each). `GenerateRREQ`, `RetryRREQ` and
`Requested` follow the code in which time to live goes into the packet and which into
the table (they differ by one between a first request and a retry). A reply about the
node that receives it is given up at once (`AODV/RREP.c:68`); in the line of three nodes
none comes up.

### PpCollector and PyListener

`handover_pingpong_listener.py` has three threads, `reader`, `writer` and `main` in
`PyListener`, each a variable that says where the thread is. They share the queue
`q`, the list `events` and `stop_event`. One action is the code of a thread between
two accesses to what another thread, the socket or the file can change; the loop
conditions `ReaderTest` and `WriterTest` are such steps, since what they see can be
out of date when the thread acts on it. A line is two halves and `Recv` takes any
prefix of the stream; `parse_line` gives the results that exist for a whole line, a
head and a tail (it does not tie what becomes of a tail to what became of its head).
Whatever ends `main` kills the daemon writer (`Running`). Errors of connect, recv,
open and write are alternatives of their actions. `push` runs the ping-pong
detection of `PpCollector`, in which `Window` stands for the 3 seconds and `ppLog`
and `alerts` record all ping-pong events and the ones that printed.

## 3. Runs

| Run | Module | Expect | Properties |
|---|---|---|---|
| `GnbRrc` | `MCGnbRrc` | pass | `TypeOK`, `ElapsedIsEarned`, `LaterRowsUnset`, `SetupCompletes` |
| `GnbRrcRow` | `MCGnbRrc` | violation | `ConnectedHasRow` |
| `SnHandover` | `SnHandover` | pass | `TypeOK`, `ServingNodeServes`, `NothingLeftBehind`, `CrashNeedsOverlap`, `HandoverCarriedOut` |
| `CoreRegistration` | `MCCoreRegistration` | pass | `TypeOK`, `BearerAgreed`, `AmfFindsUe`, `BearersAdvance`, `RegistrationCompletes` |
| `XnHandover` | `MCXnHandover` | pass | `TypeOK`, `CrashNeedsOverlap`, `ServedWithoutLoss`, `CoreFollows`, `ReportsNeedOverlap`, `UeReturns`, `HandoverCompletes` |
| `XnReturn` | `MCXnHandover` | violation | `ReturnIsReported` |
| `NrDataPlane` | `NrDataPlane` | pass | `TypeOK`, `EverySduAccounted`, `OneSduPerSn`, `BufferStatusIsPayload`, `TimerHasPacket`, `CountsFollow`, `ImplementsLossyChannel`, `TbKeptUntilSent`, `EverySduSettles` |
| `NrDataPlaneLate` | `NrDataPlane` | violation | `OnlyDuplicatesDiscarded` |
| `Aodv` | `MCAodv` | pass | `TypeOK`, `WaitingHasTimer`, `ErrorFindsPrecursors`, `EarlyRemovalNeedsStale`, `QueuedIsServed` |
| `PpCollector` | `PpCollector` | pass | `AlertsOncePerBurst`, `OnlyRecentKept` |
| `PyListener` | `PyListener` | pass | `TypeOK`, `NothingLeftBehind`, `ShutsDown` |
| `PyListenerLines` | `PyListener` | violation | `EventsAreLines` |

`tlc -config GnbRrc.cfg MCGnbRrc` runs the first; the others likewise.

**What they show.**
- *Time to trigger.* Although rows are duplicated and lost, a neighbour only counts
  as past its time to trigger when it has been better in all reports for that long.
  Loss of a row errs on the safe side: the time to trigger starts again, or, with no
  row left, is never recorded (`ConnectedHasRow` is violated: the setup of one UE
  removes the row of another).
- *Secondary leg.* Even with overlapping handovers the master's record, the UE's PHY
  and the association at that node agree once the first node has been added, a switch
  leaves nothing behind, and every handover is carried out, unless the second of two
  overlapping handovers reaches a node that has already lost the UE: then the code
  follows a null pointer (`CrashNeedsOverlap` says that nothing else leads there).
- *Handover of the UE.* Nothing keeps a gNB from starting a handover while another of
  the UE is under way, and overlapping ones can reach null pointers in RLC and AMF.
  Without overlap the UE is always served by exactly the cell it has selected, with all
  that was queued for it, AMF and SMF follow, and the handover runs to the release of
  the source. The ping-pong test never fires for a UE whose handovers do not overlap:
  it compares consecutive targets (`ReportsNeedOverlap`; `ReturnIsReported` violated).
- *Data plane.* Whatever HARQ reorders, segmentation cuts and a handover interrupts,
  the UE's upper layers get packets at most once, whole and in order
  (`ImplementsLossyChannel`), and no packet is forgotten without one of the reasons the
  code has for dropping it. The COUNT at the UE is not the sender's: it runs ahead by one
  for each wrap-around, since the sender counts modulo 4095 and the UE modulo 4096, but
  it follows it in order (`CountsFollow`), which is all that delivery needs. The order
  is bought by loss: PDCP takes a PDU delayed by HARQ for a duplicate
  (`OnlyDuplicatesDiscarded` violated), so its receive buffer holds nothing back
  (`CountsFollow`). `EverySduSettles` has an exception the code really has: a remainder
  of no bytes is reported as 0 and gets no grant until more data comes.
- *AODV.* FIFO buffer, sent table and timers always agree, although three handlers
  change them: a packet in the buffer has a request out and a timer pending, and leaves
  the buffer even if no reply ever arrives. A route in force can be removed early, but
  only behind an entry that a route error has invalidated (`EarlyRemovalNeedsStale`).
- *Registration.* gNB, AMF and SMF agree on a UE's bearer although their lists
  collect duplicates, because insertion is at the end and every search takes the
  first match; a bearer is never replaced by an older one, because all links and
  nodes keep the order of registrations.

- *Listener.* Each burst of ping-pong events is announced exactly once. A listener
  that ends because the connection did has written everything it parsed, in order,
  and no ordering of the three threads keeps it from ending. After Ctrl-C the writer
  can end while the reader still pushes: then the last events stay in the queue, but
  what is written has no gap (`NothingLeftBehind`). A line cut by `recv` becomes wrong
  events.

**Bounds, and why they are enough.** Two UEs at one gNB are what it takes to lose a
row; `MaxRows = 2` gives a matrix with two rows of one UE or one of each, `TTT = 1`
and `MaxTime = 1` let a trigger be set, elapse, and be reset and set again.
`MaxEvents = 1` is one connection request per UE in the chain up to the setup message:
the next may come while the setup-complete message of the first is on its way, and the
two UEs' setups interleave; `MaxReports = 1` is one report of a UE on its way. Three SNs are
needed for two different targets of one old node; three reports allow three
handovers, since the report that adds the first node may start one: three at once, or
two that overlap and one before or after them. (With four reports the invariants were
found to hold as well; the liveness property makes that run slow.) Three registrations
of each of two UEs overlap in all ways the links allow. Three handovers between three
gNBs, two of which have the same interface number (`MCgnbIF`, which the reconfiguration
handler compares), include a return, a handover that overtakes another, and a third one
during or after two that overlap; `MaxPackets = 1` is a buffer that is empty or not.
In `NrDataPlane` two SDUs of 5 or 6 bytes, grants of 4 or 8 bytes and an overhead of 2
give SDUs whole, cut in two and three segments, and segments longer than the payload
(6 < 8 - 2 + 2); two processes with two attempts each let a segment overtake another or
get lost; `First = 6` with a range of 8 makes both sequence numbers wrap, the sender's,
modulo 7, after the first SDU, so that COUNTs 6 and 7 travel as 6 and 0 and become 6 and 8
at the UE; one handover may come at any point. `MaxUnderWay = 2` does not restrict two
SDUs; the proofs need it. In `Aodv` a line of three nodes has an originator, a forwarder
and a destination, two packets that queue behind one request, a ring that does not reach
the destination at first, one retry, routes that expire while in use and lifetimes of
different lengths (`ReverseLife`, `AODV_DELETE_PERIOD`); `MaxFloods = 2` lets a second
discovery, or a hello, meet the remains of the first; `MaxAir = 1` control message in the
air at once keeps the run short, since subsets heard and losses already give the
orders in which nodes get them. (Safety was also checked with a ring of three steps and
diameter 4.) Five ping-pong events make
two bursts with a gap, at distances below, equal to and above the window. Two lines
are four halves: chunks end within and between lines, and a chunk of two pieces can
be half parsed when the writer looks at the queue. All bounds are in guards
(`Room`, `MaxRows`, `MaxReports`, `MaxRegistrations`, `MaxHandovers`, `MaxSdus`,
`MaxFloods`), and runs stop when they are reached, hence `CHECK_DEADLOCK FALSE`: a
simulation too may end with no event left in these procedures.

**Fairness.** `FairSpec` of `GnbRrc` has weak fairness of the handlers of the setup
chain: the simulator hands every queued event to its handler, and control messages
bypass HARQ and its errors (`macOut` in `LTENR_MAC.c:71-88`). No fairness is assumed
of connection requests, reports or time. In `SnHandover` and `CoreRegistration`
packets on wires arrive (scenarios configure wired links without errors); reports
and registrations need not come. In `XnHandover` every event is handed to its handler;
reports and packets need not come. In `NrDataPlane` slots and MAC_IN events go on for
ever and the scheduler has a PRB for the UE again and again, whether or not the TB is
received; SDUs, timers and handovers need not come. In `Aodv` timers fire, packets leave
the MAC, broadcasts are received or missed and time passes (`Dispatch`); no packet need
be sent and no reply need arrive. In `PyListener` the three threads are scheduled and
their timeouts expire; nothing is assumed of the simulator, the clock and the user
(except, for safety, that the wall clock `time.time` is never set back).

## 4. Proofs

Every theorem holds for all values of the constants that satisfy the named assumption
of its module, which only gives the constants their types (and, in `Aodv`, numbers the
packets from 1 and makes them finitely many; in `NrDataPlane` the range of sequence
numbers is even and exceeds twice the SDUs under way, `MaxUnderWay`, by more than two,
without which no receiver could tell the COUNT; the number of SDUs, and so of
wrap-arounds, is not limited by it). All are proved by an inductive invariant
`IInv`, which TLC checked on the run's instance before it was proved, with a lemma
`InitIInv`, one lemma per action, `NextIInv` and `Inductive`. `NrDataPlane` has a second
part, `NInv`, with the same lemmas; it speaks of sequences of pieces of which only the
existence is stated, which TLC cannot enumerate, so it is only proved.

| Module | Theorems, and the property each states |
|---|---|
| `GnbRrc_proofs` | `TypeCorrect`; `OnlyFirstRowSet` (`LaterRowsUnset`); `TimeToTriggerHonoured` (`ElapsedIsEarned`) |
| `PpCollector_proofs` | `OneAlertPerBurst` (`AlertsOncePerBurst`); `RecentKept` (`OnlyRecentKept`) |
| `PyListener_proofs` | `TypeCorrect`; `WriterLeavesNoGap` (`NothingLeftBehind`); `AlertsOncePerBurstHere` (`AlertsOncePerBurst` of its collector) |
| `SnHandover_proofs` | `TypeCorrect`; `MasterAndRadioAgree` (`ServingNodeServes`); `SwitchLeavesNothing` (`NothingLeftBehind`); `CrashOnlyByOverlap` (`CrashNeedsOverlap`) |
| `XnHandover_proofs` | `TypeCorrect`; `CrashOnlyByOverlap` (`CrashNeedsOverlap`); `ReportOnlyByOverlap` (`ReportsNeedOverlap`); `HandoverLosesNothing` (`ServedWithoutLoss`); `CoreFollowsRadio` (`CoreFollows`) |
| `CoreRegistration_proofs` | `TypeCorrect`; `GnbAndSmfAgree` (`BearerAgreed`); `AmfKnowsUe` (`AmfFindsUe`); `NoStaleBearer` (`BearersAdvance`, an action property) |
| `Aodv_proofs` | `TypeCorrect`; `QueuedHasTimer` (`WaitingHasTimer`); `LossFindsList` (`ErrorFindsPrecursors`); `EarlyOnlyBehindStale` (`EarlyRemovalNeedsStale`, an action property) |
| `NrDataPlane_proofs` | `TypeCorrect`; `TimerNeverOnEmpty` (`TimerHasPacket`); `ReportedIsPayload` (`BufferStatusIsPayload`); `CountsFollowed` (`CountsFollow`); `OneSduForEachSn` (`OneSduPerSn`); `TbKept` (`TbKeptUntilSent`, an action property); `NoneForgotten` (`EverySduAccounted`); `LossyChannelImplemented` (`ImplementsLossyChannel`, the refinement) |

**GnbRrc.** `ElapsedIsEarned` speaks of the report about to be handled and is not
inductive. `IInv` adds three facts. `TriggersEarned`: a trigger time in any row of a UE
is not earlier than `betterSince` of that cell. It must hold for every row, not only the
first, since a removal can bring a later row to the front; there `LaterRowsUnset` helps,
which says that such a row is unset. `NotFuture`: `betterSince` is not after `now`.
`Chained`: what the setup events in flight have in common per UE, which the bounds of
the event counters need. The lemmas `AddLemma`, `RemoveLemma` and `SetLemma` state what
the matrix operators preserve; `ReportStep` does the one difficult action.

**PpCollector.** `AlertsOncePerBurst` relates the history to itself, while the code
decides from `pp_times` and the flag. `IInv` ties them together: `pp_times` is the end
of the history (`Suffix`) that the window cuts off (`Cut`), times do not decrease
(`Sorted`), and the flag says whether two are left (`Flag`). `Cut` has to speak of all
earlier events, so that what was dropped once is known to stay too old.
`DropOlderLemma` says where the popleft loop stops; `DetectStep` is the main step.

**PyListener.** `NothingLeftBehind` speaks of a writer that has ended. `Flow`: what was pushed is
in memory, with the writer or in the queue, in this order; `Logged`: the file keeps up
with the memory; `Stopping`: `stop_event` is set, Ctrl-C apart, only after the reader
has ended, and a writer that has ended saw an empty queue after that. The steps of
`PpCollector_proofs` are used through `INSTANCE`: the program calls `push` only in ways
its invariant survives.

**SnHandover.** A release request must never meet a node that has not heard of the UE.
`AdditionFirst` says why: while the addition is on its way, all handovers of the UE
leave the node it goes to, and on that wire the release requests are behind it.
`OneAtATime`: a UE without overlap has at most one message of a handover that has not
switched, and it names the node on record; hence the crash needs an overlap.

**XnHandover.** A UE whose handovers have not overlapped has at most one message or
timer that carries a handover, its *token* (`OneToken`), and the token's type tells
where UE, AMF, SMF and ping-pong table stand (`Claim`); without one they agree on the
selected cell (`Idle`). A reconfiguration message is no token; it is always ahead of the
next command on the radio link, so none is left when a switch is made. That at most one
gNB serves a UE with all its packets (`OneServer`, `Queued`) holds under overlap too.

**CoreRegistration.** From the AMF's session request to the gNB all registrations pass
through one pipe of links. `Ordered`: a message behind another has the greater bearer
identifier and, once the SMF has given one, the greater tunnel identifier. With `Newer`
(what the gNB has is older than what is in the pipe) this gives `BearersAdvance`; with
`AtSmf` and `Last` (of what has passed the SMF the newest is what it keeps) it gives
`BearerAgreed` when the pipe holds nothing of the UE.

**Aodv.** The invariant is one of the state of a node (`Good`), and each operation on it
has a lemma. A valid entry has a timer that fires no later than its lifetime ends
(`Timed`), so with nothing due it can be used. That is why a reply may clear the sent
table: the route it brings has just emptied the buffer (`ProcessRREPStep`). A valid
entry is the last of its destination (`LastValid`), as a new one is only inserted when
none is valid. For the loop of the route timeout `LoopExists` shows that the recursive
function `Visited` has the values its equation says, and `LoopLemma` what the loop
keeps, by least counterexample on the number of entries visited. `EarlyRemovalNeedsStale`
follows: the first entry of the destination stays if alive, and if it is valid it is the
only candidate; every other action keeps all entries (`Kept`).

**NrDataPlane**, the counters. Four arguments meet in `SlotLemma` and `MacInLemma`.
*Payload*: the recursive sum has the values its equation says (`SumsExist`), it is
additive (`PayloadConcat`), so `SEND_PDU` moves payload from the buffer to the PDUs and
loses none, even when a segment is longer than its packet (`PayloadKept`); with
`ModAdd` the counter that wraps stays congruent. *Sequence numbers* (`SnOK`): the SN of
a segment under way has been used up, or is the current one and belongs to the SDU at
the head of the buffer, of which a part was sent (`Fresh`); a handover that keeps
`TX_Next` keeps this, and a new SN needs an SDU that leaves the buffer, so there are no
more SNs than SDUs. *PDCP of the UE* (`SaneUe`): `RX_DELIV` is `Counted` of the SDU
handed up last, which, like all that is pending (`PendingRecent`), lies in the window
(`Near`). `Counted` is increasing and grows by at most one more than its argument over
less than a whole range (`CountedOrder`), so what is pending is less than half the
receiver's range from `RX_DELIV` (`CloseCounts`), its sequence number is that of
`Counted` modulo `SnRange`, and `RECV_COUNT` finds it (`RecvCount`); the receive buffer
never holds more than the one PDU just put there (`DeliverOne`). *A TB*: `ReceivedLemma`
carries `SaneUe` over the packets of a TB by least counterexample on the packets
received.

**NrDataPlane**, the pieces (`NInv`). An SDU is handed up whole, once and in order only
if all its segments are followed wherever they are. `Net` says this of the buffer of the
sender and of the set X of PDUs in the reception buffers of the UE, in the HARQ
processes and in MAC_IN events: the buffer holds the last SDUs, of which only the first
may be begun; a PDU belongs to an SDU before these, or precedes what is left of that
first one; offset and SDU determine a PDU, and the PDUs of an SDU share the SN (`Order`);
nothing is left of an SDU that is done (`Settled`); an SDU of which a PDU was freed
misses that offset for good (`Broken`), so it can never become complete; and any other
SDU has all its pieces, numbered from 0, with its size as their payload (`Complete`).
`Once` adds that no PDU is in two places, which a retransmission must not break
(`StoredOnce`). One lemma says how each operation acts on a net: `TransmitNet` (an SDU
more), `EmittedNet` and `SendNet` (a slot moves pieces out of the buffer and may split
one), `DropNet` (HARQ, the cell left or the handover frees PDUs), `TakeNet` and
`PdcpNet` (PDCP takes a complete SDU, of which nothing is left in the buffer, and discards
it if its `Counted` is below `RX_DELIV`; otherwise it is later than all that were handed up),
`ReceiveNet` (a PDU at the UE) and `ReceivedNet` (a TB, by
least counterexample). Payloads are added up in the order of arrival, so
`PayloadPermuted` shows that the order does not matter, and `PayloadSplit` that cutting
keeps the sum. `CompleteFacts` is the heart: PDUs with one SN that reach from offset 0
to a last one are all there is of that SDU, so it was not given up or handed up before,
and they have its size. `NoneForgotten` follows since the reception buffer of an SN
never holds a complete SDU (`HeldOK`); the refinement since a step of the UE only adds
(`UeStep`) and what was handed up stays lawful (`HandedLegal`): `ChannelStep` maps
`TransmitPDCPSDU` to `Accept` and every other step to `Progress`, which allows a step
that changes nothing.

**Only model-checked.** Liveness (`SetupCompletes`, `HandoverCarriedOut`,
`RegistrationCompletes`, `UeReturns`, `HandoverCompletes`, `EverySduSettles`,
`QueuedIsServed`, `ShutsDown`) is out of the prover's reach: it needs ENABLED and the
fairness assumptions. All other properties of the runs that pass are theorems.

## 5. Findings

See `findings` in `PROJECT.json`: the matrix removal (`LTENR_GNBRRC.c:1262`), the
ping-pong test (`LTENR_HANDOVER.c:48`), the late PDU taken for a duplicate
(`LTENR_PDCP.c:555`), lines cut by recv (`handover_pingpong_listener.py:186`). The
different moduli of sender and receiver (`LTENR_PDCP.h:31`, section 2) disagree with
`LTENR_PDCP.h:70-71`, by which `RX_NEXT` is the COUNT of the next SDU expected: after a
wrap-around it is ahead of `TX_NEXT` even if all was received. `CountsFollow` states this
drift exactly, and what the upper layers see does not depend on it.

## 6. Not modelled

- Radio arithmetic (propagation, interference, antennas, link adaptation): floating
  point without control state. Schedulers, timers T300/T311 and the event list: binary
  libraries.
- The handover decision that would start `XnHandover`: the assignment of the target is
  a comment (`LTENR_GNBRRC.c:625`), so at this commit no handover of the master starts
  by itself; `XnHandover` takes the target as an input.
- RLC acknowledged mode: no packet reaches it. SDAP gives data unacknowledged mode (the
  assignment of AM at `LTENR_SDAP.c:266` is a comment) and `LTENR_GNBRRC.c:504-513`
  changes AM to TM. Reassembly and reordering timers: never started (section 2).
  Re-establishment: no caller.
- The handover of a dual-connectivity UE's master, traffic splitting, and the S1
  variant of the handover through the EPC.
- The event channel from the simulator to Python: a Win32 thread that shares a socket
  handle with the simulator thread; what happens on a handle closed meanwhile is
  decided by Winsock.
- AODV routes over four and more nodes, where loops would be possible.
- The other stock protocol libraries (TCP, IP, OSPF, 802.11, DSR, ZigBee, ...), which
  make up most of the repository's lines and are not part of its work.

## 7. Plan

1. Done: the modules of section 2 and the theorems of section 4: all safety invariants
   and action properties of the runs, and the refinement of `LossyChannel`.
2. To model: the handover of a dual-connectivity UE (`XnHandover` composed with
   `SnHandover`), and of the stock libraries TCP and OSPF.
