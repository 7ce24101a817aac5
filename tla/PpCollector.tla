---------------------------- MODULE PpCollector -----------------------------
(***************************************************************************)
(* The ping-pong detection of Collector.push in                            *)
(* src/handover_pingpong_listener.py: on each ping-pong event the times of *)
(* recent events are kept and "Pingpong detected" is printed when there    *)
(* are two of them, unless it has been printed in the current burst.       *)
(***************************************************************************)
EXTENDS Integers, Sequences

CONSTANTS
    MaxTime,        \* bound on the clock
    MaxPingPongs,   \* bound on the ping-pong events
    Window          \* the 3.0 seconds of Collector.push, in clock ticks

ASSUME PpCollectorAssumption ==
    /\ MaxTime \in Nat
    /\ MaxPingPongs \in Nat
    /\ Window \in Nat

VARIABLES
    now,            \* time.time(), assumed never to be set back
    pp_times,       \* Collector.pp_times
    pp_alerted,     \* Collector.pp_alerted
    ppLog,          \* history: times of all ping-pong events pushed
    alerts          \* history: indices in ppLog of the events that printed

pp == <<pp_times, pp_alerted, ppLog, alerts>>

Init ==
    /\ now = 0
    /\ pp_times = << >>
    /\ pp_alerted = FALSE
    /\ ppLog = << >>
    /\ alerts = {}

Tick ==
    /\ now < MaxTime
    /\ now' = now + 1
    /\ UNCHANGED pp

\* Mutant: a time exactly as old as the window is dropped too, and so is
\* the newest when the window is 0.
DropOlder_OrEqual(times, cutoff) ==
    LET k == CHOOSE i \in 1 .. Len(times) + 1 :
                /\ i <= Len(times) => times[i] > cutoff
                /\ \A j \in 1 .. i - 1 : times[j] <= cutoff
    IN  SubSeq(times, k, Len(times))

\* popleft while the front is older than cutoff; the back never is.
DropOlder(times, cutoff) ==
    LET k == CHOOSE i \in 1 .. Len(times) :
                /\ times[i] >= cutoff
                /\ \A j \in 1 .. i - 1 : times[j] < cutoff
    IN  SubSeq(times, k, Len(times))

\* Mutant: the alerted flag is never reset.
DetectPingPong_NoReset ==
    LET recent == DropOlder(Append(pp_times, now), now - Window)
    IN  /\ Len(ppLog) < MaxPingPongs
        /\ ppLog' = Append(ppLog, now)
        /\ pp_times' = recent
        /\ alerts' = IF Len(recent) >= 2 /\ ~pp_alerted
                     THEN alerts \cup {Len(ppLog) + 1} ELSE alerts
        /\ pp_alerted' = (pp_alerted \/ Len(recent) >= 2)
        /\ UNCHANGED now

\* The part of Collector.push for ping-pong events, all of it under the
\* lock.  Its two ifs leave the flag set exactly if two events are recent.
DetectPingPong ==
    LET recent == DropOlder(Append(pp_times, now), now - Window)
    IN  /\ Len(ppLog) < MaxPingPongs
        /\ ppLog' = Append(ppLog, now)
        /\ pp_times' = recent
        /\ alerts' = IF Len(recent) >= 2 /\ ~pp_alerted
                     THEN alerts \cup {Len(ppLog) + 1} ELSE alerts
        /\ pp_alerted' = (Len(recent) >= 2)
        /\ UNCHANGED now

Next == Tick \/ DetectPingPong
Spec == Init /\ [][Next]_<<now, pp>>
-----------------------------------------------------------------------------
\* Event i of ppLog follows its predecessor within the window.
Quick(i) == i > 1 /\ ppLog[i] - ppLog[i - 1] <= Window

(* "Pingpong detected" is printed exactly once for every burst of          *)
(* ping-pong events, a maximal succession with gaps of at most the window: *)
(* with its second event.  Collector.push only learns that a burst has     *)
(* ended when the next event comes in, and keeps only recent times.        *)
AlertsOncePerBurst ==
    alerts = {i \in 1 .. Len(ppLog) : Quick(i) /\ ~Quick(i - 1)}

(* pp_times stays as short as the window allows: it holds exactly the last *)
(* events that lie within the window before the latest one.                *)
OnlyRecentKept ==
    LET n == Len(ppLog)
        Recent == {i \in 1 .. n : ppLog[n] - ppLog[i] <= Window}
    IN  /\ Len(pp_times) <= n
        /\ pp_times = SubSeq(ppLog, n - Len(pp_times) + 1, n)
        /\ Recent = n - Len(pp_times) + 1 .. n
=============================================================================
