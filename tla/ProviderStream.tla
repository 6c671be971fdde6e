--------------------------- MODULE ProviderStream ---------------------------
(***************************************************************************)
(* One answer of a provider: RetryingProvider asks again when an attempt   *)
(* fails early, OpenAICompatibleProvider makes events of the chunks of an  *)
(* attempt and puts the tool calls together, and the round of the run      *)
(* collects them (_run_loop).                                              *)
(*                                                                         *)
(* An answer is a text in Texts pieces, then Calls tool calls in three     *)
(* fragments each: the name, then two of the arguments.  A server sends    *)
(* it as deltas, as one message, or as deltas and the whole message once   *)
(* more; every attempt is answered anew, so a piece carries its attempt.   *)
(***************************************************************************)
EXTENDS Integers, Sequences, SequencesExt

CONSTANTS
    MaxAttempts,    \* max_attempts
    Texts,          \* pieces of text of an answer
    Calls           \* tool calls of an answer

VARIABLES
    at,             \* "ask", "stream", "pause", "completed", "failed" or "cancelled"
    attempt,        \* attempts_made
    form,           \* how the server sends this answer
    sent,           \* pieces it has sent as deltas
    whole,          \* it has sent the message
    emitted,        \* an event of this attempt was given to the run
    saw,            \* saw_incremental
    fragments,      \* tool_fragments: the fragments of each call
    text,           \* text_parts of the round
    cut             \* history: the server closed the answer before its end

vars == <<at, attempt, form, sent, whole, emitted, saw, fragments, text, cut>>

Forms == {"deltas", "message", "both"}

Piece(a, kind, call, part) == [attempt |-> a, kind |-> kind, call |-> call, part |-> part]

TextOf(a) == [i \in 1..Texts |-> Piece(a, "text", 0, i)]
CallOf(a, c) == [i \in 1..3 |-> Piece(a, "call", c, i)]
Answer(a) == TextOf(a) \o FlattenSeq([c \in 1..Calls |-> CallOf(a, c)])

NoFragments == [c \in 1..Calls |-> <<>>]

Init ==
    /\ at = "ask" /\ attempt = 1
    /\ form = "deltas" /\ sent = 0 /\ whole = FALSE
    /\ emitted = FALSE /\ saw = FALSE
    /\ fragments = NoFragments /\ text = <<>> /\ cut = FALSE
-----------------------------------------------------------------------------
(* The attempt *)

\* _ingest_tool_calls of fragments that carry their index
Ingest(pieces) ==
    [c \in 1..Calls |-> fragments[c] \o SelectSeq(pieces, LAMBDA p : p.call = c)]

\* The events of a chunk reach the run: text is collected, the rest counted
Emit(texts, calls) ==
    /\ text' = text \o texts
    /\ fragments' = Ingest(calls)
    /\ emitted' = (emitted \/ texts # <<>> \/ calls # <<>>)
    /\ saw' = (saw \/ texts # <<>> \/ calls # <<>>)

Held == \E c \in 1..Calls : fragments[c] # <<>>

Accepted ==
    /\ at = "ask"
    /\ at' = "stream"
    /\ form' \in Forms
    /\ UNCHANGED <<attempt, sent, whole, emitted, saw, fragments, text, cut>>

\* A chunk whose delta holds the next piece
Delta ==
    /\ at = "stream" /\ form # "message" /\ sent < Len(Answer(attempt))
    /\ sent' = sent + 1
    /\ LET p == Answer(attempt)[sent + 1]
       IN  IF p.kind = "text" THEN Emit(<<p>>, <<>>) ELSE Emit(<<>>, <<p>>)
    /\ UNCHANGED <<at, attempt, form, whole, cut>>

\* A chunk with a usage and no choice
Usage ==
    /\ at = "stream"
    /\ emitted' = TRUE
    /\ UNCHANGED <<at, attempt, form, sent, whole, saw, fragments, text, cut>>

AllSent == form # "message" => sent = Len(Answer(attempt))

CallsOfMessage == SelectSeq(Answer(attempt), LAMBDA p : p.kind = "call")

\* What if: the message counts although its deltas came before
MessageAgain ==
    /\ at = "stream" /\ form # "deltas" /\ AllSent /\ ~whole
    /\ whole' = TRUE
    /\ Emit(TextOf(attempt), IF Held THEN <<>> ELSE CallsOfMessage)
    /\ UNCHANGED <<at, attempt, form, sent, cut>>

\* A chunk with the message: its text counts if no delta came before, its
\* calls if none was seen
Message ==
    /\ at = "stream" /\ form # "deltas" /\ AllSent /\ ~whole
    /\ whole' = TRUE
    /\ Emit(IF saw THEN <<>> ELSE TextOf(attempt), IF Held THEN <<>> ELSE CallsOfMessage)
    /\ UNCHANGED <<at, attempt, form, sent, cut>>

\* No arguments at all are read as {}, half of them are not JSON
Parsed == \A c \in 1..Calls : Len(fragments[c]) # 2

\* The end of the body, at [DONE] or without it: what came is completed
\* if it can be parsed
Closes ==
    /\ at = "stream"
    /\ at' = IF Parsed THEN "completed" ELSE "failed"
    /\ cut' = ~(AllSent /\ (form # "deltas" => whole))
    /\ UNCHANGED <<attempt, form, sent, whole, emitted, saw, fragments, text>>
-----------------------------------------------------------------------------
(* Failures and attempts *)

\* What if: an answer that has begun is asked for again
MayRetryLater(retryable) == attempt < MaxAttempts /\ retryable

MayRetry(retryable) == ~emitted /\ attempt < MaxAttempts /\ retryable

\* The request is refused, times out or is cut, or a chunk is malformed
Fails(retryable) ==
    /\ at \in {"ask", "stream"}
    /\ at' = IF MayRetry(retryable) THEN "pause" ELSE "failed"
    /\ UNCHANGED <<attempt, form, sent, whole, emitted, saw, fragments, text, cut>>

AsksAgain ==
    /\ at = "pause"
    /\ at' = "ask" /\ attempt' = attempt + 1
    /\ sent' = 0 /\ whole' = FALSE /\ emitted' = FALSE /\ saw' = FALSE
    /\ fragments' = NoFragments
    /\ UNCHANGED <<form, text, cut>>

\* The task of the run is cancelled, or the run leaves the stream
Cancelled ==
    /\ at \in {"ask", "stream", "pause"}
    /\ at' = "cancelled"
    /\ UNCHANGED <<attempt, form, sent, whole, emitted, saw, fragments, text, cut>>

Next ==
    \/ Accepted \/ Delta \/ Usage \/ Message \/ Closes
    \/ (\E r \in BOOLEAN : Fails(r)) \/ AsksAgain \/ Cancelled

Spec == Init /\ [][Next]_vars
-----------------------------------------------------------------------------
(* Properties *)

TypeOK ==
    /\ at \in {"ask", "stream", "pause", "completed", "failed", "cancelled"}
    /\ attempt \in 1..MaxAttempts /\ sent \in 0..Len(Answer(1))
    /\ form \in Forms /\ {whole, emitted, saw, cut} \subseteq BOOLEAN

(* The run never sees an answer twice or two answers mixed: its text and    *)
(* its calls are the beginning of the answer of the last attempt, ...       *)
OneAnswer ==
    /\ IsPrefix(text, TextOf(attempt))
    /\ \A c \in 1..Calls : IsPrefix(fragments[c], CallOf(attempt, c))

(* ... and all of it when the answer completes, unless the server closed it *)
(* early.                                                                   *)
WholeAnswer == at = "completed" /\ ~cut =>
    text = TextOf(attempt) /\ \A c \in 1..Calls : fragments[c] = CallOf(attempt, c)
=============================================================================
