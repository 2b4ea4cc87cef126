----------------------------- MODULE DebugStreams ------------------------------
(***************************************************************************)
(* The debug output of one thread.  A DebugOutput is an object on the      *)
(* stack, so those that are open form a stack too.  The outermost that is  *)
(* not for a report the user has asked for, an "async" one, begins a       *)
(* report for the targets; async ones opened inside it add to that report, *)
(* also when a user's report, which is kept apart, is open in between.     *)
(* What is opened on a parent to write another MIME type adds to the       *)
(* parent's report.  The text is abstracted to the MIME type of the output *)
(* that wrote it.                                                          *)
(***************************************************************************)
EXTENDS Integers, FiniteSetsExt, SequencesExt

CONSTANTS
    Mimes, plain,   \* the MIME types, and Mime_Text_Plain
    MaxDepth,       \* bound on the outputs open
    MaxOutputs,     \* bound on the outputs of the reports
    MaxText         \* bound on their text

DebugStreamsAssumption ==
    /\ plain \in Mimes /\ {MaxDepth, MaxOutputs, MaxText} \subseteq Nat

VARIABLES
    streams,    \* the DebugOutputs' streams, the innermost last
    active,     \* m_active_stream_ptr, as a place in streams, or 0
    reports     \* the report each has begun

vars == <<streams, active, reports>>

Init == streams = <<>> /\ active = 0 /\ reports = <<>>

-----------------------------------------------------------------------------
Top == Len(streams)

\* What there is of a field in all reports.
Total(f) == Len(FlattenSeq([i \in 1 .. Top |-> reports[i][f]]))

Report(outputs, text, spans) == [outputs |-> outputs, text |-> text, spans |-> spans]
Span(output, start, length) == [output |-> output, start |-> start, length |-> length]
NewReport == Report(<<>>, <<>>, <<>>)

\* A new stream, whose output is the last of report r.
Opened(kind, parent, r, mime) ==
    LET begun == Append(reports, NewReport)
    IN  /\ Top < MaxDepth /\ Total("outputs") < MaxOutputs
        /\ reports' = [begun EXCEPT ![r] = Report(Append(@.outputs, mime), @.text, @.spans)]
        /\ streams' = Append(streams, [kind |-> kind, parent |-> parent, report |-> r,
                                       output |-> Len(begun[r].outputs) + 1])

\* AllocateStream for an async output: part of the report that is active, or a new one.
OpenAsync ==
    /\ Opened("async", active, IF active = 0 THEN Top + 1 ELSE streams[active].report, plain)
    /\ active' = Top + 1

\* AllocateStream for a report the user has asked for.
OpenUser == Opened("user", 0, Top + 1, plain) /\ UNCHANGED active

\* AllocateStream for another MIME type in the innermost output.
OpenMime(mime) ==
    /\ Top > 0
    /\ Opened(streams[Top].kind, Top, streams[Top].report, mime)
    /\ active' = IF streams[Top].kind = "async" THEN Top + 1 ELSE active

\* Mutant: text goes on in the last span, whoever wrote that.
SpansAs(s, r) ==
    IF r.spans # <<>> THEN r.spans
    ELSE Append(r.spans, Span(s.output, Len(r.text), 0))

\* The spans of report r as stream s is about to write to it.
SpansFor(s, r) ==
    IF r.spans # <<>> /\ Last(r.spans).output = s.output THEN r.spans
    ELSE Append(r.spans, Span(s.output, Len(r.text), 0))

\* xsputn: report r after stream s has written to it.
Written(s, r) ==
    LET spans == SpansFor(s, r)
    IN  Report(r.outputs, Append(r.text, r.outputs[s.output]),
               [spans EXCEPT ![Len(spans)] = Span(@.output, @.start, @.length + 1)])

\* The innermost output writes.
Write ==
    /\ Top > 0 /\ Total("text") < MaxText
    /\ reports' = [reports EXCEPT ![streams[Top].report] = Written(streams[Top], @)]
    /\ UNCHANGED <<streams, active>>

\* Mutant: no output is active after one is destroyed.
Deactivate(s) == active' = IF s.kind = "async" THEN 0 ELSE active

\* The parent of an async output is the active one again.
Reactivate(s) == active' = IF s.kind = "async" THEN s.parent ELSE active

\* DestroyStream; an outermost one gives its report to the user or to the targets.
DestroyStream ==
    /\ Top > 0
    /\ Reactivate(streams[Top])
    /\ streams' = Front(streams) /\ reports' = Front(reports)

Next ==
    \/ OpenAsync \/ OpenUser \/ \E m \in Mimes : OpenMime(m)
    \/ Write \/ DestroyStream

Spec == Init /\ [][Next]_vars

-----------------------------------------------------------------------------
Stream == [kind : {"async", "user"}, parent : Nat, report : Nat, output : Nat]
Spans == [output : Nat, start : Nat, length : Nat]
Reports == [outputs : Seq(Mimes), text : Seq(Mimes), spans : Seq(Spans)]

\* The variables have their types, and an output belongs to a report that is not newer.
TypeOK ==
    /\ streams \in Seq(Stream) /\ reports \in Seq(Reports) /\ Len(reports) = Top
    /\ active \in 0 .. Top
    /\ \A i \in 1 .. Top :
          /\ streams[i].parent \in 0 .. i - 1 /\ streams[i].report \in 1 .. i
          /\ streams[i].output \in DOMAIN reports[streams[i].report].outputs

AsyncOutputs == {i \in 1 .. Top : streams[i].kind = "async"}

\* The active output is the innermost async one, as AllocateStream and DestroyStream
\* assert; async text goes to the report of the outermost one, and a user's to his,
\* whichever of them are opened inside which.
StreamsNest ==
    /\ active = IF AsyncOutputs = {} THEN 0 ELSE Max(AsyncOutputs)
    /\ \A i \in AsyncOutputs : streams[i].report = Min(AsyncOutputs)
    /\ \A i \in 1 .. Top \ AsyncOutputs :
          streams[i].report = IF streams[i].parent = 0 THEN i ELSE streams[i - 1].report

\* The places in the text of r that its span k covers.
Covered(r, k) == (r.spans[k].start + 1) .. (r.spans[k].start + r.spans[k].length)

\* The spans of a report cover its text without a gap, and each piece is shown with
\* the MIME type of the output that wrote it.
Whole(r) ==
    /\ \A k \in DOMAIN r.spans : \A j \in Covered(r, k) :
          j \in DOMAIN r.text /\ r.text[j] = r.outputs[r.spans[k].output]
    /\ \A j \in DOMAIN r.text : \E k \in DOMAIN r.spans : j \in Covered(r, k)
    /\ \A k \in 1 .. Len(r.spans) - 1 : r.spans[k + 1].start = r.spans[k].start + r.spans[k].length

ReportsWhole == \A i \in 1 .. Top : Whole(reports[i])

Consistent == TypeOK /\ StreamsNest /\ ReportsWhole
=============================================================================
