------------------------------ MODULE SseFrames ------------------------------
(***************************************************************************)
(* The reader of server-sent events every provider is read through         *)
(* (util/sse/sse.go): Frames takes one line at a time and yields a frame   *)
(* at every blank line and at the end of the stream.                       *)
(***************************************************************************)
EXTENDS Integers, Sequences, SequencesExt

CONSTANTS
  MaxLines,        \* bound: lines of a stream
  Values           \* what a field may hold

VARIABLES
  lines,           \* what was read
  atEnd,           \* the stream is over
  event,           \* ev.Event
  data,            \* data
  frames           \* the frames yielded

vars == <<lines, atEnd, event, data, frames>>

NoValue == ""

\* A line is blank, a comment, or a field with its value.
Fields == {"event", "data", "id"}
Lines  == [field : {"blank", "comment"}, value : {NoValue}]
          \cup [field : Fields, value : Values \cup {NoValue}]

\* Data is the data lines of the frame, which the code joins.
Frames == [event : Values \cup {NoValue}, data : Seq(Values \cup {NoValue})]

TypeOK ==
  /\ lines  \in Seq(Lines)
  /\ atEnd  \in BOOLEAN
  /\ event  \in Values \cup {NoValue}
  /\ data   \in Seq(Values \cup {NoValue})
  /\ frames \in Seq(Frames)

Init ==
  /\ lines  = <<>>
  /\ atEnd  = FALSE
  /\ event  = NoValue
  /\ data   = <<>>
  /\ frames = <<>>

-----------------------------------------------------------------------------
\* The lines of a frame with its event and its data so far, when a line has
\* been added to them.
Take(ev, line) ==
  CASE line.field = "event" -> [ev EXCEPT !.event = line.value]
    [] line.field = "data"  -> [ev EXCEPT !.data = Append(@, line.value)]
    [] OTHER                -> ev

\* Mutant: the name of a frame's event stays for the next.
FlushKeepsEvent(ev) ==
  /\ frames' = IF ev.data = <<>> /\ ev.event = NoValue THEN frames ELSE Append(frames, ev)
  /\ event'  = ev.event
  /\ data'   = <<>>

\* flush: a frame with neither data nor event is not one.
Flush(ev) ==
  /\ frames' = IF ev.data = <<>> /\ ev.event = NoValue THEN frames ELSE Append(frames, ev)
  /\ event'  = NoValue
  /\ data'   = <<>>

\* A line that is terminated.
ReadLine(line) ==
  /\ ~atEnd
  /\ Len(lines) < MaxLines
  /\ lines' = Append(lines, line)
  /\ LET ev == Take([event |-> event, data |-> data], line)
     IN  IF line.field = "blank" THEN Flush(ev)
         ELSE event' = ev.event /\ data' = ev.data /\ UNCHANGED frames
  /\ UNCHANGED atEnd

\* The end of the stream, or a read that fails: a last line that was not
\* terminated counts as one, and what was read of the frame is a frame.
ReadEnd(tail) ==
  /\ ~atEnd
  /\ Len(lines) + Len(tail) <= MaxLines
  /\ atEnd' = TRUE
  /\ lines' = lines \o tail
  /\ LET ev == [event |-> event, data |-> data]
     IN  Flush(IF tail = <<>> THEN ev ELSE Take(ev, tail[1]))

\* The last line, if it is not terminated, is not blank.
Tails == {<<>>} \cup {<<line>> : line \in {l \in Lines : l.field # "blank"}}

Next ==
  \/ \E line \in Lines : ReadLine(line)
  \/ \E tail \in Tails : ReadEnd(tail)

Spec == Init /\ [][Next]_vars

-----------------------------------------------------------------------------
(* What the frames of a stream are, said of the whole stream.              *)

\* The lines after the last blank one before, up to this end.
Ending(ends, e) == {n \in 1..e : \A b \in ends : b < n \/ b >= e}

ValuesOf(block, field) ==
  FlattenSeq([n \in 1..Len(lines) |->
                IF n \in block /\ lines[n].field = field THEN <<lines[n].value>> ELSE <<>>])

FrameOf(block) ==
  LET names == ValuesOf(block, "event")
  IN  [event |-> IF names = <<>> THEN NoValue ELSE Last(names),
       data  |-> ValuesOf(block, "data")]

\* The blank lines, and the end.
BlockEnds ==
  {n \in 1..Len(lines) : lines[n].field = "blank"}
  \cup (IF atEnd THEN {Len(lines) + 1} ELSE {})

\* A frame for each of them that has an event or data.
FrameAt(n) ==
  LET f == FrameOf(Ending(BlockEnds, n))
  IN  IF n \in BlockEnds /\ (f.event # NoValue \/ f.data # <<>>) THEN <<f>> ELSE <<>>

Reference == FlattenSeq([n \in 1..Len(lines) + 1 |-> FrameAt(n)])

-----------------------------------------------------------------------------
(* Properties.                                                             *)

\* Whatever the lines, the frames yielded are those of the stream: nothing of
\* one frame is left in the next, and at the end nothing read is lost
\* (sse.go:30-60).
FramesOfTheStream == frames = Reference
=============================================================================
