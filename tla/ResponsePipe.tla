----------------------------- MODULE ResponsePipe -----------------------------
(***************************************************************************)
(* The body of an answer on its way to the client: writeUpstream in        *)
(* server/server.go reads it, and for a translated stream a goroutine of   *)
(* relay.StreamingResponse (relay/relay.go) produces it, through an        *)
(* unbuffered io.Pipe, from the body of the upstream.                      *)
(*                                                                         *)
(* producer[r]: none; read (the next frame of the upstream); write (the    *)
(* opening chunk, or the one made of a frame); last (what ends the stream: *)
(* finish and [DONE]);                                                     *)
(* exit (produce returns: its defer closes the upstream); shut (pw.Close). *)
(* reader[r]: none; read (Body.Read); send (the chunk to the client);      *)
(* release, close (the two steps of releaseCloser.Close); done.            *)
(***************************************************************************)
EXTENDS Integers, FiniteSets

CONSTANTS
  Requests,        \* requests under way at a time
  Bodies,          \* kinds of bodies: "whole", "relayed", "piped"
  MaxFrames        \* bound: frames of an upstream; then it ends or hangs

ASSUME PipeAssumption ==
  /\ IsFiniteSet(Requests)
  /\ Bodies \subseteq {"whole", "relayed", "piped"}
  /\ MaxFrames \in Nat

VARIABLES
  body,        \* the kind of the body; "none" before there is one
  upstream,    \* the upstream's body: none, open, ended (by it), closed
  frames,      \* frames the upstream has sent
  producer,
  wrote,       \* the pipe's end at the producer: open, eof, error
  reader,
  rclosed,     \* the pipe's end at the reader is closed
  sent,        \* chunks that the client has been sent
  slot,        \* the request holds its account's slot
  gone         \* the client has gone, and r.Context() is done

pipeVars == <<body, upstream, frames, producer, wrote, reader, rclosed, sent>>

PipeTypeOK ==
  /\ body     \in [Requests -> {"none", "whole", "relayed", "piped"}]
  /\ upstream \in [Requests -> {"none", "open", "ended", "closed"}]
  /\ frames   \in [Requests -> 0..MaxFrames]
  /\ producer \in [Requests -> {"none", "read", "write", "last", "exit", "shut"}]
  /\ wrote    \in [Requests -> {"open", "eof", "error"}]
  /\ reader   \in [Requests -> {"none", "read", "send", "release", "close", "done"}]
  /\ rclosed  \in [Requests -> BOOLEAN]
  /\ sent     \in [Requests -> 0..(MaxFrames + 2)]
  /\ slot     \in [Requests -> BOOLEAN]
  /\ gone     \in [Requests -> BOOLEAN]

NoBody(r) ==
  /\ body'     = [body     EXCEPT ![r] = "none"]
  /\ upstream' = [upstream EXCEPT ![r] = "none"]
  /\ frames'   = [frames   EXCEPT ![r] = 0]
  /\ producer' = [producer EXCEPT ![r] = "none"]
  /\ wrote'    = [wrote    EXCEPT ![r] = "open"]
  /\ reader'   = [reader   EXCEPT ![r] = "none"]
  /\ rclosed'  = [rclosed  EXCEPT ![r] = FALSE]
  /\ sent'     = [sent     EXCEPT ![r] = 0]

PipeInit ==
  /\ body     = [r \in Requests |-> "none"]
  /\ upstream = [r \in Requests |-> "none"]
  /\ frames   = [r \in Requests |-> 0]
  /\ producer = [r \in Requests |-> "none"]
  /\ wrote    = [r \in Requests |-> "open"]
  /\ reader   = [r \in Requests |-> "none"]
  /\ rclosed  = [r \in Requests |-> FALSE]
  /\ sent     = [r \in Requests |-> 0]
  /\ slot     = [r \in Requests |-> FALSE]
  /\ gone     = [r \in Requests |-> FALSE]

\* writeUpstream starts.  A whole body has been built (JSONResponse) from an
\* upstream that was read to its end and closed.  A translated stream opens with
\* a chunk of its own.
StartBody(r, b) ==
  /\ body'     = [body EXCEPT ![r] = b]
  /\ upstream' = [upstream EXCEPT ![r] = IF b = "whole" THEN "closed" ELSE "open"]
  /\ producer' = [producer EXCEPT ![r] = IF b = "piped" THEN "write" ELSE "none"]
  /\ reader'   = [reader EXCEPT ![r] = "read"]
  /\ UNCHANGED <<frames, wrote, rclosed, sent>>

-----------------------------------------------------------------------------
(* The upstream.                                                           *)

\* A frame arrives: at the producer, or at the reader of a relayed body.
UpstreamSends(r) ==
  /\ upstream[r] = "open"
  /\ frames[r] < MaxFrames
  /\ frames' = [frames EXCEPT ![r] = @ + 1]
  /\ \/ /\ producer[r] = "read"
        /\ producer' = [producer EXCEPT ![r] = "write"]
        /\ UNCHANGED reader
     \/ /\ body[r] = "relayed" /\ reader[r] = "read"
        /\ reader' = [reader EXCEPT ![r] = "send"]
        /\ UNCHANGED producer
  /\ UNCHANGED <<body, upstream, wrote, rclosed, sent, slot, gone>>

\* An event that ends the answer (response.completed, message_stop): the
\* producer does not wait for the end of the upstream.
FinalEvent(r) ==
  /\ upstream[r] = "open"
  /\ producer[r] = "read"
  /\ producer' = [producer EXCEPT ![r] = "last"]
  /\ UNCHANGED <<body, upstream, frames, wrote, reader, rclosed, sent, slot, gone>>

\* Whoever reads the upstream finds its end.
FindsEnd(r, u) ==
  /\ upstream[r] = "open"
  /\ upstream' = [upstream EXCEPT ![r] = u]
  /\ \/ /\ producer[r] = "read"
        /\ producer' = [producer EXCEPT ![r] = "last"]
        /\ UNCHANGED reader
     \/ /\ body[r] = "relayed" /\ reader[r] = "read"
        /\ reader' = [reader EXCEPT ![r] = "release"]
        /\ UNCHANGED producer
  /\ UNCHANGED <<body, frames, wrote, rclosed, sent, slot, gone>>

UpstreamEnds(r) == FindsEnd(r, "ended")

\* The upstream request was made with r.Context(), which is done when the
\* client has gone or the handler has returned: reading fails.
ReadCancelled(r) == (gone[r] \/ reader[r] = "done") /\ FindsEnd(r, "open")

-----------------------------------------------------------------------------
(* The goroutine of StreamingResponse.                                     *)

\* Mutant: a chunk that the reader is not ready for is dropped.
WriteNoWait(r) ==
  /\ producer[r] \in {"write", "last"}
  /\ IF reader[r] = "read" /\ ~rclosed[r]
     THEN reader' = [reader EXCEPT ![r] = "send"]
     ELSE UNCHANGED reader
  /\ producer' = [producer EXCEPT ![r] = IF @ = "write" THEN "read" ELSE "exit"]
  /\ UNCHANGED <<body, upstream, frames, wrote, rclosed, sent, slot, gone>>

\* A chunk passes through the pipe when both ends are there; once the reader
\* has closed its end the write fails, which produce ignores.
Write(r) ==
  /\ producer[r] \in {"write", "last"}
  /\ \/ /\ reader[r] = "read" /\ ~rclosed[r]
        /\ reader' = [reader EXCEPT ![r] = "send"]
     \/ rclosed[r] /\ UNCHANGED reader
  /\ producer' = [producer EXCEPT ![r] = IF @ = "write" THEN "read" ELSE "exit"]
  /\ UNCHANGED <<body, upstream, frames, wrote, rclosed, sent, slot, gone>>

\* Mutant: produce leaves the upstream open.
ProduceReturnsOpen(r) ==
  /\ producer[r] = "exit"
  /\ producer' = [producer EXCEPT ![r] = "shut"]
  /\ UNCHANGED <<body, upstream, frames, wrote, reader, rclosed, sent, slot, gone>>

\* produce returns; its defer closes the upstream.
ProduceReturns(r) ==
  /\ producer[r] = "exit"
  /\ upstream' = [upstream EXCEPT ![r] = "closed"]
  /\ producer' = [producer EXCEPT ![r] = "shut"]
  /\ UNCHANGED <<body, frames, wrote, reader, rclosed, sent, slot, gone>>

\* pw.Close, and the goroutine is over.
PipeCloses(r) ==
  /\ producer[r] = "shut"
  /\ producer' = [producer EXCEPT ![r] = "none"]
  /\ wrote' = [wrote EXCEPT ![r] = "eof"]
  /\ UNCHANGED <<body, upstream, frames, reader, rclosed, sent, slot, gone>>

\* Mutant: the recovered panic leaves the pipe as it is.
ProducePanicsSilently(r) ==
  /\ producer[r] = "write"
  /\ upstream' = [upstream EXCEPT ![r] = "closed"]
  /\ producer' = [producer EXCEPT ![r] = "none"]
  /\ UNCHANGED <<body, frames, wrote, reader, rclosed, sent, slot, gone>>

\* The translation of a frame panics: the defer closes the upstream, the
\* recover ends the pipe with an error.
ProducePanics(r) ==
  /\ producer[r] = "write"
  /\ upstream' = [upstream EXCEPT ![r] = "closed"]
  /\ producer' = [producer EXCEPT ![r] = "none"]
  /\ wrote' = [wrote EXCEPT ![r] = "error"]
  /\ UNCHANGED <<body, frames, reader, rclosed, sent, slot, gone>>

-----------------------------------------------------------------------------
(* writeUpstream and releaseCloser.Close.                                  *)

\* A whole body is one chunk.
ReadWhole(r) ==
  /\ body[r] = "whole" /\ reader[r] = "read"
  /\ reader' = [reader EXCEPT ![r] = IF sent[r] = 0 THEN "send" ELSE "release"]
  /\ UNCHANGED <<body, upstream, frames, producer, wrote, rclosed, sent, slot, gone>>

\* EOF, or the error the producer has closed the pipe with: the loop ends.
ReadEnds(r) ==
  /\ body[r] = "piped" /\ reader[r] = "read" /\ wrote[r] # "open"
  /\ reader' = [reader EXCEPT ![r] = "release"]
  /\ UNCHANGED <<body, upstream, frames, producer, wrote, rclosed, sent, slot, gone>>

\* The chunk is written and flushed: when the client takes it, which it need not
\* ever do, for the server has no WriteTimeout (main.go).
Send(r) ==
  /\ reader[r] = "send"
  /\ reader' = [reader EXCEPT ![r] = "read"]
  /\ sent'   = [sent EXCEPT ![r] = @ + 1]
  /\ UNCHANGED <<body, upstream, frames, producer, wrote, rclosed, slot, gone>>

\* To a client that has gone it fails, which ends the loop.
SendFails(r) ==
  /\ reader[r] = "send" /\ gone[r]
  /\ reader' = [reader EXCEPT ![r] = "release"]
  /\ UNCHANGED <<body, upstream, frames, producer, wrote, rclosed, sent, slot, gone>>

\* The deferred Close: the slot goes back ...
ReleaseSlot(r) ==
  /\ reader[r] = "release"
  /\ reader' = [reader EXCEPT ![r] = "close"]
  /\ slot'   = [slot EXCEPT ![r] = FALSE]
  /\ UNCHANGED <<body, upstream, frames, producer, wrote, rclosed, sent, gone>>

\* ... and the body is closed: the pipe, or the upstream itself.
CloseBody(r) ==
  /\ reader[r] = "close"
  /\ reader'   = [reader EXCEPT ![r] = "done"]
  /\ rclosed'  = [rclosed EXCEPT ![r] = body[r] = "piped"]
  /\ upstream' = [upstream EXCEPT ![r] = IF body[r] = "relayed" THEN "closed" ELSE @]
  /\ UNCHANGED <<body, frames, producer, wrote, sent, slot, gone>>

-----------------------------------------------------------------------------
\* What the two goroutines of a body do by themselves.
PipeStep(r) ==
  \/ ReadCancelled(r) \/ Write(r) \/ ProduceReturns(r) \/ PipeCloses(r)
  \/ ReadWhole(r) \/ ReadEnds(r) \/ SendFails(r) \/ ReleaseSlot(r) \/ CloseBody(r)

\* What the client or the upstream decides.
OutsideStep(r) ==
  \/ Send(r)
  \/ UpstreamSends(r) \/ FinalEvent(r) \/ UpstreamEnds(r) \/ ProducePanics(r)
=============================================================================
