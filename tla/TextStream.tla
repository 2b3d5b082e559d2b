------------------------------ MODULE TextStream ------------------------------
(***************************************************************************)
(* One answer of the backends that only speak text: grok.com, one JSON     *)
(* object per line (provider/grokweb/protocol.go), and Cursor, Connect     *)
(* frames of protobuf messages (provider/cursor).  forEachToken and        *)
(* streamDeltas give the deltas to the stream and to the aggregate alike.  *)
(***************************************************************************)
EXTENDS ChatChunks

CONSTANTS
  MaxFrames,       \* bound: frames or lines of an answer
  MaxDeltas        \* bound: text deltas batched in one frame

VARIABLES
  backend,         \* who answers
  frames,          \* upstream: the frames so far, with the deltas each holds
  ended            \* upstream: how the stream ended

textVars == <<backend, frames, ended>>
vars     == <<textVars, sentVars>>

\* A line of Grok is an object with a token, or one without, or no object.  A
\* frame of Cursor is flagged as plain, compressed, or the trailer, which holds
\* the error if there is one.
LineKinds  == {"token", "other"}
FrameKinds == {"plain", "gzip", "corrupt gzip", "trailer"}
Ends       == {"no", "eof", "mid-frame", "oversized"}

TypeOK ==
  /\ backend  \in {"grok", "cursor"}
  /\ frames   \in Seq([kind : LineKinds \cup FrameKinds, deltas : Seq(Nat)])
  /\ ended    \in Ends
  /\ sentText \in Seq(Nat)
  /\ sentRole /\ sentTools = <<>>
  /\ (sentDone <=> ended # "no") /\ sentFinish = IF sentDone THEN "stop" ELSE "none"

TextInit ==
  /\ backend \in {"grok", "cursor"}
  /\ frames  = <<>>
  /\ ended   = "no"

\* streamToOpenAI sends the role first.
Init == TextInit /\ SentNothing(TRUE)

-----------------------------------------------------------------------------
\* The next n deltas.
NextDeltas(n) ==
  LET said == FlattenSeq([f \in 1..Len(frames) |-> frames[f].deltas])
  IN  [k \in 1..n |-> Len(said) + k]

\* forEachToken: a line that is not an object with a token is passed over.
Line(kind) ==
  /\ backend = "grok" /\ ended = "no"
  /\ Len(frames) < MaxFrames
  /\ LET deltas == NextDeltas(IF kind = "token" THEN 1 ELSE 0)
     IN  /\ frames'   = Append(frames, [kind |-> kind, deltas |-> deltas])
         /\ sentText' = sentText \o deltas
  /\ UNCHANGED <<backend, ended, sentRole, sentTools, sentFinish, sentDone>>

\* extractResponseText: all the deltas of a frame that can be read.
Extract(frame) ==
  IF frame.kind \in {"plain", "gzip"} THEN frame.deltas ELSE <<>>

\* streamDeltas: a trailer does not end the stream, nor does a frame that
\* cannot be decompressed; both are passed over.
ConnectFrame(kind, n) ==
  /\ backend = "cursor" /\ ended = "no"
  /\ Len(frames) < MaxFrames
  /\ kind = "trailer" => n = 0
  /\ LET frame == [kind |-> kind, deltas |-> NextDeltas(n)]
     IN  /\ frames'   = Append(frames, frame)
         /\ sentText' = sentText \o Extract(frame)
  /\ UNCHANGED <<backend, ended, sentRole, sentTools, sentFinish, sentDone>>

\* The end of the stream, wherever it comes, or a length beyond maxFrameBytes.
\* The answer is complete, with whatever text there is.
End(how) ==
  /\ ended = "no"
  /\ how \in {"eof", "mid-frame"} \/ backend = "cursor"
  /\ ended' = how
  /\ SendEnd("stop")
  /\ UNCHANGED <<backend, frames, sentRole, sentText, sentTools>>

Next ==
  \/ \E kind \in LineKinds : Line(kind)
  \/ \E kind \in FrameKinds, n \in 0..MaxDeltas : ConnectFrame(kind, n)
  \/ \E how \in Ends \ {"no"} : End(how)

Spec == Init /\ [][Next]_vars

-----------------------------------------------------------------------------
(* Properties.                                                             *)

\* Of what the upstream said nothing is missing but what could not be read,
\* and it is in order: "returning only the first would truncate output"
\* (protobuf.go:158-161); a frame that is passed over does not end the text.
NothingTruncated ==
  sentText = FlattenSeq([f \in 1..Len(frames) |->
                           IF frames[f].kind = "corrupt gzip" THEN <<>>
                                                              ELSE frames[f].deltas])
=============================================================================
