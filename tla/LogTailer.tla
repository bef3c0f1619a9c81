----------------------------- MODULE LogTailer ------------------------------
(***************************************************************************)
(* The tower's log tailer (src/telegram_watchtower/log_tailer.py) on one log   *)
(* file, with the program that writes the file, the bot's alert throttle        *)
(* (bot_controller.on_log_alert), which runs in the tailer's thread, and its     *)
(* health thread, which keeps its own alerts in the same table of times.        *)
(*   A line of the file is written in one piece <<l, "whole">> or in two,      *)
(* <<l, "front">> and <<l, "back">>; the word the tailer looks for lies in the  *)
(* front of an odd line and across the cut of an even one.                     *)
(***************************************************************************)
EXTENDS Integers, Sequences, SequencesExt

CONSTANTS Throttle,     \* alert_throttle_seconds, in ticks
          ResourceThrottle, \* the 300 s of the resource alerts
          Percents,     \* memory percentages over the threshold, each a key of its own
          ReportEvery,  \* health_check_interval, in ticks
          MaxLines,     \* bound: alert lines written
          MaxRotations, \* bound: times the file is emptied
          MaxErrors,    \* bound: times the file cannot be read
          MaxNow        \* bound: the clock

\* What the constants are assumed to be.
TailerAssumption ==
    /\ {Throttle, ResourceThrottle, ReportEvery, MaxLines, MaxRotations, MaxErrors, MaxNow} \subseteq Nat
    /\ "log" \notin Percents

VARIABLES file,       \* the pieces in the file
          written,    \* lines begun
          position,   \* file_positions
          batch,      \* pieces read and not yet processed
          reported,   \* [line -> times the callback was given it]
          alerts,     \* [key -> times of the alerts sent]; the last is last_alert_times
          reports,    \* times of the health reports
          checked,    \* the health thread's last look, once a tick
          rotations, errors, now

tailerVars == <<file, written, position, batch, reported, alerts, reports, checked, rotations, errors, now>>

AlertKeys == {"log"} \cup Percents
Piece == (1..MaxLines) \X {"whole", "front", "back"}
Cut == file # <<>> /\ Last(file)[2] = "front"

TailerTypeOK ==
    /\ file \in Seq(Piece) /\ batch \in Seq(Piece) /\ written \in 0..MaxLines
    /\ position \in 0..(2 * MaxLines) /\ reported \in [1..MaxLines -> Nat]
    /\ alerts \in [AlertKeys -> Seq(0..MaxNow)]
    /\ reports \in Seq(0..MaxNow) /\ checked \in 0..MaxNow /\ checked <= now /\ now \in 0..MaxNow
    /\ rotations \in 0..MaxRotations /\ errors \in 0..MaxErrors

\* The tailer starts at the end of the file; what lies before is not modelled.
Init ==
    /\ file = <<>> /\ written = 0 /\ position = 0 /\ batch = <<>>
    /\ reported = [l \in 1..MaxLines |-> 0]
    /\ alerts = [k \in AlertKeys |-> <<>>] /\ reports = <<>> /\ checked = 0
    /\ rotations = 0 /\ errors = 0 /\ now = 0

-----------------------------------------------------------------------------
Write(part) ==
    /\ IF part = "back" THEN Cut ELSE ~Cut /\ written < MaxLines
    /\ written' = IF part = "back" THEN written ELSE written + 1
    /\ file' = Append(file, <<written', part>>)
    /\ UNCHANGED <<position, batch, reported, alerts, reports, checked, rotations, errors, now>>

Rotate ==
    /\ file # <<>> /\ ~Cut /\ rotations < MaxRotations
    /\ file' = <<>> /\ rotations' = rotations + 1
    /\ UNCHANGED <<written, position, batch, reported, alerts, reports, checked, errors, now>>

\* Reads on from the position.  A file that has become shorter gives nothing, and the
\* position stays.
CheckLogFile ==
    /\ batch = <<>> /\ position < Len(file)
    /\ batch' = SubSeq(file, position + 1, Len(file))
    /\ position' = Len(file)
    /\ UNCHANGED <<file, written, reported, alerts, reports, checked, rotations, errors, now>>

\* An error while reading sends the tailer back to the beginning of the file.
CheckFails ==
    /\ batch = <<>> /\ errors < MaxErrors
    /\ errors' = errors + 1 /\ position' = 0
    /\ UNCHANGED <<file, written, batch, reported, alerts, reports, checked, rotations, now>>

Matches(piece) == piece[2] = "whole" \/ (piece[2] = "front" /\ piece[1] % 2 = 1)

\* An alert is sent unless one was sent under this key less than Throttle ago; whether the
\* message gets through does not matter to the table.
DueSinceFirst(key) == alerts[key] = <<>> \/ now - Head(alerts[key]) >= Throttle
Due(key) == alerts[key] = <<>> \/ now - Last(alerts[key]) >= Throttle
Alerted(key) == IF Due(key) THEN [alerts EXCEPT ![key] = Append(@, now)] ELSE alerts

ProcessLogLine ==
    /\ batch # <<>> /\ batch' = Tail(batch)
    /\ IF Matches(Head(batch))
       THEN reported' = [reported EXCEPT ![Head(batch)[1]] = @ + 1] /\ alerts' = Alerted("log")
       ELSE UNCHANGED <<reported, alerts>>
    /\ UNCHANGED <<file, written, position, reports, checked, rotations, errors, now>>

\* The health thread looks once a tick.  The key of a resource alert holds the rounded
\* percentage, so each percentage has a throttle of its own; here the alert waits until
\* more than ResourceThrottle has passed.
ResourceAlerted(percent) ==
    IF alerts[percent] = <<>> \/ now - Last(alerts[percent]) > ResourceThrottle
    THEN [alerts EXCEPT ![percent] = Append(@, now)] ELSE alerts

HealthReported ==
    IF reports = <<>> \/ now - Last(reports) >= ReportEvery THEN Append(reports, now) ELSE reports

CheckResources ==
    /\ checked < now /\ checked' = now
    /\ alerts' \in {alerts} \cup {ResourceAlerted(percent) : percent \in Percents}
    /\ reports' = HealthReported
    /\ UNCHANGED <<file, written, position, batch, reported, rotations, errors, now>>

Tick ==
    /\ now < MaxNow /\ now' = now + 1
    /\ UNCHANGED <<file, written, position, batch, reported, alerts, reports, checked, rotations, errors>>

Next ==
    \/ \E part \in {"whole", "front", "back"} : Write(part)
    \/ Rotate \/ CheckLogFile \/ CheckFails \/ ProcessLogLine \/ CheckResources \/ Tick

\* The tailer's loop goes on.
Fairness == WF_tailerVars(CheckLogFile) /\ WF_tailerVars(ProcessLogLine)

-----------------------------------------------------------------------------
\* A line is reported once; only an error that sends the tailer back repeats it.
RepeatedByErrors == \A l \in 1..MaxLines : reported[l] <= 1 + errors

\* Two alerts of one key are at least their throttle apart, and the health reports their interval,
\* although the tailer's thread and the health thread keep one table.
Spaced(times, gap) == \A i \in 2..Len(times) : times[i] - times[i - 1] >= gap
AlertsSpaced ==
    /\ Spaced(alerts["log"], Throttle)
    /\ \A k \in Percents : Spaced(alerts[k], ResourceThrottle + 1)
    /\ Spaced(reports, ReportEvery)

\* A line that was written in one piece to a file that is never emptied is reported.
InFile(l) == <<l, "whole">> \in ToSet(file)
Reported == \A l \in 1..MaxLines : InFile(l) ~> (reported[l] > 0 \/ rotations > 0)
=============================================================================
