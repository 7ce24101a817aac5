----------------------------- MODULE PyListener -----------------------------
(***************************************************************************)
(* The Python program that logs the handover and ping-pong lines of the    *)
(* simulator (src/handover_pingpong_listener.py).  A reader thread         *)
(* receives chunks of a TCP stream, splits each chunk into lines, parses   *)
(* them and pushes events into a queue; on the way, quick successions of   *)
(* ping-pong events are announced once.  A daemon writer thread moves      *)
(* events from the queue to the log file and to memory.  The main thread   *)
(* waits for the reader, sets stop_event and waits for the writer.         *)
(*                                                                         *)
(* The simulator is the environment: it sends lines and may close the      *)
(* connection.  A line is two halves: recv may end anywhere in the stream, *)
(* so also between them.  A half has at least one character other than the *)
(* line end.  The user presses Ctrl-C at most once.                        *)
(***************************************************************************)
EXTENDS Integers, Sequences

CONSTANTS
    MaxLines,       \* bound on the lines the simulator sends
    MaxTime,        \* bound on the clock
    Window          \* the 3.0 seconds of Collector.push, in clock ticks

ASSUME PyListenerAssumption ==
    /\ MaxLines \in Nat
    /\ MaxTime \in Nat
    /\ Window \in Nat

VARIABLES
    now,            \* time.time(), assumed never to be set back
    remote,         \* the simulator keeps the connection open
    sent,           \* Seq(type): the lines sent so far
    stream,         \* Seq([line, half]): sent and not yet received
    reader,         \* where the reader thread is
    lines,          \* Seq([line, halves]): what is left of the chunk
    q,              \* Collector.q
    pp_times,       \* Collector.pp_times
    pp_alerted,     \* Collector.pp_alerted
    writer,         \* where the writer thread is
    held,           \* Seq(event): at most one, taken from q by the writer
    log,            \* Seq(event): the lines of the log file
    events,         \* Collector.events
    stop,           \* stop_event
    main,           \* where the main thread is
    pushed,         \* history: all events pushed
    ppLog,          \* history: times of all ping-pong events pushed
    alerts,         \* history: indices in ppLog of the events that printed
    interrupted,    \* history: Ctrl-C was pressed
    ioError         \* history: the log file could not be opened or written

\* The ping-pong detection in Collector.push.
Collector == INSTANCE PpCollector WITH MaxPingPongs <- MaxLines

pp == <<pp_times, pp_alerted, ppLog, alerts>>
inVars == <<reader, lines, stream>>
outVars == <<writer, held, log, events, ioError>>
mainVars == <<main, stop, interrupted>>
vars == <<now, remote, sent, q, pushed, pp, inVars, outVars, mainVars>>

Types == {"HANDOVER", "PINGPONG"}
Halves == {"head", "tail"}
Event == [line : 1 .. MaxLines, type : Types,
          form : {"intact", "damaged", "bogus"}]
Unit == [line : 1 .. MaxLines, half : Halves]
Piece == [line : 1 .. MaxLines, halves : (SUBSET Halves) \ {{}}]

Init ==
    /\ Collector!Init
    /\ remote = TRUE
    /\ sent = << >>
    /\ stream = << >>
    /\ reader = "connect"
    /\ lines = << >>
    /\ q = << >>
    /\ writer = "open"
    /\ held = << >>
    /\ log = << >>
    /\ events = << >>
    /\ stop = FALSE
    /\ main = "join"
    /\ pushed = << >>
    /\ interrupted = FALSE
    /\ ioError = FALSE

Running == main # "done"    \* the end of main kills the daemon writer
-----------------------------------------------------------------------------
(* The environment: the clock and the simulator. *)

Tick ==
    /\ Running
    /\ Collector!Tick
    /\ UNCHANGED <<remote, sent, q, pushed, inVars, outVars, mainVars>>

SendLine(t) ==
    /\ remote
    /\ reader \notin {"connect", "done"}
    /\ Len(sent) < MaxLines
    /\ sent' = Append(sent, t)
    /\ stream' = stream \o [i \in 1 .. 2 |->
                    [line |-> Len(sent) + 1,
                     half |-> IF i = 1 THEN "head" ELSE "tail"]]
    /\ UNCHANGED <<now, remote, reader, lines, q, pushed, pp, outVars,
                   mainVars>>

RemoteClose ==
    /\ Running
    /\ remote
    /\ remote' = FALSE
    /\ UNCHANGED <<now, sent, q, pushed, pp, inVars, outVars, mainVars>>
-----------------------------------------------------------------------------
(* The reader thread (tcp_client_once). *)

ReaderAt(from, to) ==
    /\ reader = from
    /\ reader' = to
    /\ UNCHANGED <<now, remote, sent, outVars, mainVars>>

\* connect succeeds, or raises: refused, timed out or closed again.
Connect ==
    /\ \E to \in {"test", "done"} :
          /\ to = "test" => remote
          /\ ReaderAt("connect", to)
    /\ UNCHANGED <<lines, stream, q, pushed, pp>>

\* while not stop_event.is_set()
ReaderTest ==
    /\ ReaderAt("test", IF stop THEN "done" ELSE "recv")
    /\ UNCHANGED <<lines, stream, q, pushed, pp>>

\* Mutant: split('\n'), which yields an empty piece after a final line end.
splitlines_Split(c) ==
    [i \in 1 .. c[Len(c)].line - c[1].line + 2 |->
        LET n == c[1].line + i - 1
        IN  [line |-> n,
             halves |-> {c[j].half : j \in {k \in DOMAIN c : c[k].line = n}}]]

\* Chunk c cut at line ends: one piece for each line of which c has a part.
splitlines(c) ==
    [i \in 1 .. c[Len(c)].line - c[1].line + 1 |->
        LET n == c[1].line + i - 1
        IN  [line |-> n,
             halves |-> {c[j].half : j \in {k \in DOMAIN c : c[k].line = n}}]]

Recv ==
    /\ ReaderAt("recv", "parse")
    /\ \E k \in 1 .. Len(stream) :
          /\ lines' = splitlines(SubSeq(stream, 1, k))
          /\ stream' = SubSeq(stream, k + 1, Len(stream))
    /\ UNCHANGED <<q, pushed, pp>>

RecvTimeout ==
    /\ stream = << >>
    /\ remote
    /\ ReaderAt("recv", "test")
    /\ UNCHANGED <<lines, stream, q, pushed, pp>>

\* Mutant: an empty chunk is skipped like a timeout.
RecvClosed_Continue ==
    /\ stream = << >>
    /\ ~remote
    /\ ReaderAt("recv", "test")
    /\ UNCHANGED <<lines, stream, q, pushed, pp>>

RecvClosed ==
    /\ stream = << >>
    /\ ~remote
    /\ ReaderAt("recv", "done")
    /\ UNCHANGED <<lines, stream, q, pushed, pp>>

\* A reset of the connection: what is in the stream is lost.
RecvError ==
    /\ ReaderAt("recv", "done")
    /\ stream' = << >>
    /\ UNCHANGED <<lines, q, pushed, pp>>

\* What parse_line can make of piece p, as a sequence of at most one event.
\* A head is recognised by its keyword unless the cut is inside it, and
\* then lacks the later fields.  A tail is taken for a CSV row, which fails
\* unless it has enough fields and starts with a number or a comma.
parse_line(p) ==
    LET Ev(t, f) == <<[line |-> p.line, type |-> t, form |-> f]>>
    IN  CASE p.halves = Halves   -> {Ev(sent[p.line], "intact")}
          [] p.halves = {"head"} -> {<< >>, Ev(sent[p.line], "damaged")}
          [] p.halves = {"tail"} -> {<< >>, Ev("HANDOVER", "bogus")}
          [] OTHER               -> {<< >>}

\* Collector.push(ev) with r = <<ev>>; nothing for r = << >>.
push(r) ==
    /\ q' = q \o r
    /\ pushed' = pushed \o r
    /\ IF \E i \in DOMAIN r : r[i].type = "PINGPONG"
       THEN Collector!DetectPingPong ELSE UNCHANGED pp

\* One iteration of the loop over the lines of the chunk.
ParseLine ==
    /\ lines # << >>
    /\ ReaderAt("parse", "parse")
    /\ \E r \in parse_line(Head(lines)) : push(r)
    /\ lines' = Tail(lines)
    /\ UNCHANGED stream

ChunkDone ==
    /\ lines = << >>
    /\ ReaderAt("parse", "test")
    /\ UNCHANGED <<lines, stream, q, pushed, pp>>

Reader == Connect \/ ReaderTest \/ Recv \/ RecvTimeout \/ RecvClosed
          \/ RecvError \/ ParseLine \/ ChunkDone
-----------------------------------------------------------------------------
(* The writer thread (writer_thread). *)

WriterAt(from, to) ==
    /\ Running
    /\ writer = from
    /\ writer' = to
    /\ UNCHANGED <<now, remote, sent, pushed, pp, inVars, mainVars>>

OpenLog ==
    /\ \/ WriterAt("open", "test") /\ UNCHANGED ioError
       \/ WriterAt("open", "done") /\ ioError' = TRUE
    /\ UNCHANGED <<q, held, log, events>>

\* Mutant: while not stop_event.is_set(), without a look at the queue.
WriterTest_AtOnce ==
    /\ WriterAt("test", IF stop THEN "done" ELSE "get")
    /\ UNCHANGED <<q, held, log, events, ioError>>

\* while not stop_event.is_set() or not collector.q.empty()
WriterTest ==
    /\ WriterAt("test", IF stop /\ q = << >> THEN "done" ELSE "get")
    /\ UNCHANGED <<q, held, log, events, ioError>>

Get ==
    /\ q # << >>
    /\ WriterAt("get", "write")
    /\ held' = <<Head(q)>>
    /\ q' = Tail(q)
    /\ UNCHANGED <<log, events, ioError>>

GetTimeout ==
    /\ q = << >>
    /\ WriterAt("get", "test")
    /\ UNCHANGED <<q, held, log, events, ioError>>

\* f.write; an exception is ignored.
Write ==
    /\ WriterAt("write", "remember")
    /\ \/ log' = log \o held /\ UNCHANGED ioError
       \/ ioError' = TRUE /\ UNCHANGED log
    /\ UNCHANGED <<q, held, events>>

add_to_memory ==
    /\ WriterAt("remember", "test")
    /\ events' = events \o held
    /\ held' = << >>
    /\ UNCHANGED <<q, log, ioError>>

Writer == OpenLog \/ WriterTest \/ Get \/ GetTimeout \/ Write
          \/ add_to_memory
-----------------------------------------------------------------------------
(* The main thread (main, from the loop that waits for the reader on). *)

MainAt(from, to) ==
    /\ main = from
    /\ main' = to
    /\ UNCHANGED <<now, remote, sent, q, pushed, pp, inVars, outVars>>

\* KeyboardInterrupt: the stop event, then reader.join().
Interrupt ==
    /\ MainAt("join", "interrupted")
    /\ stop' = TRUE
    /\ interrupted' = TRUE

ReaderJoined ==
    /\ reader = "done"
    /\ \E from \in {"join", "interrupted"} : MainAt(from, "joinWriter")
    /\ stop' = TRUE
    /\ UNCHANGED interrupted

\* writer.join(timeout=5.0) returns because the writer has ended, or not.
WriterJoined ==
    /\ writer = "done"
    /\ MainAt("joinWriter", "done")
    /\ UNCHANGED <<stop, interrupted>>

JoinTimeout ==
    /\ writer # "done"
    /\ MainAt("joinWriter", "done")
    /\ UNCHANGED <<stop, interrupted>>

Main == ReaderJoined \/ WriterJoined \/ JoinTimeout
-----------------------------------------------------------------------------
Next ==
    \/ Tick
    \/ \E t \in Types : SendLine(t)
    \/ RemoteClose
    \/ Reader
    \/ Writer
    \/ Interrupt
    \/ Main

Spec == Init /\ [][Next]_vars

\* The three threads run; nothing is assumed of the simulator, the clock
\* and the user.
FairSpec == Spec /\ WF_vars(Reader) /\ WF_vars(Writer) /\ WF_vars(Main)
-----------------------------------------------------------------------------
(* Types of the state: chunks, queue and log hold well-formed pieces and   *)
(* events only, whatever recv cuts.                                        *)
TypeOK ==
    /\ now \in Nat
    /\ sent \in Seq(Types)
    /\ stream \in Seq(Unit)
    /\ lines \in Seq(Piece)
    /\ {q, held, log, events, pushed} \subseteq Seq(Event)
    /\ {pp_times, ppLog} \subseteq Seq(Nat)
    /\ alerts \subseteq Nat
    /\ {remote, pp_alerted, stop, interrupted, ioError} \subseteq BOOLEAN
    /\ reader \in {"connect", "test", "recv", "parse", "done"}
    /\ writer \in {"open", "test", "get", "write", "remember", "done"}
    /\ main \in {"join", "interrupted", "joinWriter", "done"}

(* A writer that has ended, with a writable file, leaves no gap: file and  *)
(* memory hold the events in the order in which they were pushed, all of   *)
(* them unless Ctrl-C set stop_event while the reader still pushed; then   *)
(* those after the writer's last look at the queue are still in it.        *)
NothingLeftBehind ==
    writer = "done" /\ ~ioError =>
        /\ log = events /\ pushed = log \o q
        /\ ~interrupted => q = << >>

(* Once the simulator has closed the connection, or the user has pressed   *)
(* Ctrl-C, the program ends: no thread waits for another for ever.         *)
ShutsDown == (~remote \/ stop) ~> (main = "done")

(* The log holds the lines sent ("newline-delimited CSV/text lines sent by *)
(* NetSim runtime"): no event is made of a part of a line.  Violated, each *)
(* chunk is split on its own.                                              *)
EventsAreLines == \A i \in DOMAIN pushed : pushed[i].form = "intact"
=============================================================================
