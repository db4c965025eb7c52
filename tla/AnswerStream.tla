---------------------------- MODULE AnswerStream ----------------------------
(***************************************************************************)
(* One question, asked at POST /query or at POST /query/stream.  The first *)
(* is answered in one piece by AnswerQuestion.execute; for the second      *)
(* AnswerQuestion.stream yields events while it searches and while the     *)
(* model answers, and query_stream turns them into server-sent events.     *)
(* LangfuseTracer records a span around either.  The search, the model and *)
(* the tracing service may fail at any call, and the client of a stream    *)
(* may go away at any moment.  Texts are left out: an event is its type,   *)
(* with the number of sources where it has one.                            *)
(***************************************************************************)
EXTENDS Naturals, FiniteSets, SequencesExt

CONSTANTS
  MaxHits,     \* the most hits a search returns (final_limit)
  MaxDeltas    \* bound: chunks of the model's answer

ASSUME BoundsAssumption == MaxHits \in Nat /\ MaxDeltas \in Nat

VARIABLES
  mode,      \* "plain" or "stream"
  hits,      \* hits that are relevant enough
  deltas,    \* chunks of the answer received from the model
  texts,     \* history: how many of them had text
  whole,     \* history: the model has ended its answer itself
  sent,      \* the events of the stream, or the one response
  span,      \* the span of the request
  pc

vars == <<mode, hits, deltas, texts, whole, sent, span, pc>>

EventType == {"metadata", "token", "sources", "done", "answer", "error"}
Event == [type : EventType, count : 0..MaxHits]

End == {"answered", "failed", "gone"}

Init ==
  /\ mode \in {"plain", "stream"}
  /\ hits = 0 /\ deltas = 0 /\ texts = 0
  /\ whole = FALSE
  /\ sent = <<>>
  /\ span = "none"
  /\ pc = "trace"

-----------------------------------------------------------------------------
\* A plain event, and one that has a number of sources.
Plain(type) == [type |-> type, count |-> 0]
Counted(type) == [type |-> type, count |-> hits]

Send(event) == sent' = Append(sent, event)

\* The span is started; when the tracing service fails there is none to close,
\* and its failure to take the metadata does not show.
OpenSpan ==
  /\ pc = "trace"
  /\ span' \in {"open", "absent"}
  /\ pc' = "search"
  /\ UNCHANGED <<mode, hits, whole, deltas, texts, sent>>

\* Variant: one hit more than final_limit is kept.
FoundUncut == 0..MaxHits + 1

Found == 0..MaxHits

\* search.execute and _filter_hits; without a hit the model is not asked.
Search ==
  /\ pc = "search"
  /\ hits' \in Found
  /\ pc' = CASE mode = "stream" -> "metadata"
             [] mode = "plain" /\ hits' = 0 -> "output"
             [] OTHER -> "generate"
  /\ UNCHANGED <<mode, whole, deltas, texts, sent, span>>

SendMetadata ==
  /\ pc = "metadata"
  /\ Send(Counted("metadata"))
  /\ pc' = IF hits = 0 THEN "noEvidence" ELSE "generate"
  /\ UNCHANGED <<mode, hits, whole, deltas, texts, span>>

\* NO_EVIDENCE_ANSWER.
SendNoEvidence ==
  /\ pc = "noEvidence"
  /\ Send(Plain("token"))
  /\ pc' = "sources"
  /\ UNCHANGED <<mode, hits, whole, deltas, texts, span>>

\* A chunk of a streamed answer, which may have no choice or no text.
ReceiveDelta ==
  /\ mode = "stream" /\ pc = "generate" /\ deltas < MaxDeltas
  /\ deltas' = deltas + 1
  /\ \/ texts' = texts + 1 /\ Send(Plain("token"))
     \/ UNCHANGED <<texts, sent>>
  /\ UNCHANGED <<mode, hits, whole, span, pc>>

\* generate returns, or there is no further chunk.
EndOfAnswer ==
  /\ pc = "generate"
  /\ whole' = TRUE
  /\ pc' = IF mode = "stream" THEN "sources" ELSE "output"
  /\ UNCHANGED <<mode, hits, deltas, texts, sent, span>>

SendSources ==
  /\ pc = "sources"
  /\ Send(Counted("sources"))
  /\ pc' = "done"
  /\ UNCHANGED <<mode, hits, whole, deltas, texts, span>>

SendDone ==
  /\ pc = "done"
  /\ Send(Plain("done"))
  /\ pc' = "output"
  /\ UNCHANGED <<mode, hits, whole, deltas, texts, span>>

\* Variant: a span is closed at the end of its block alone.
ClosedAtEnd == IF span = "open" /\ pc = "output" THEN "closed" ELSE span

\* The span after the trace block, however that is left: closed means that __exit__ has
\* been called on it, even if the tracing service raises there.
Closed == IF span = "open" THEN "closed" ELSE span

\* Variant: a failure of the tracing service is not caught.
AfterOutputUnsafe == {"raised", IF mode = "stream" THEN "answered" ELSE "respond"}

\* Neither set_output nor _safe_exit raises, whatever the tracing service does.
AfterOutput == {IF mode = "stream" THEN "answered" ELSE "respond"}

\* span.set_output and the end of the trace block.
CloseSpan ==
  /\ pc = "output"
  /\ span' = Closed
  /\ pc' \in AfterOutput
  /\ UNCHANGED <<mode, hits, whole, deltas, texts, sent>>

\* The answer and its sources in one response.
Respond ==
  /\ pc = "respond"
  /\ Send(Counted("answer"))
  /\ pc' = "answered"
  /\ UNCHANGED <<mode, hits, whole, deltas, texts, span>>

\* Variant: an answer that breaks off is taken as it is.
AfterFailureTaken == IF pc = "search" THEN "raised" ELSE "sources"

AfterFailure == "raised"

\* The search or the model raises.
Raise ==
  /\ pc \in {"search", "generate"}
  /\ pc' = AfterFailure
  /\ UNCHANGED <<mode, hits, whole, deltas, texts, sent, span>>

\* Variant: the failure is only logged.
ReportNothing == UNCHANGED sent

Report == Send(Plain("error"))

\* The exception leaves the trace block; query_stream makes it the last event, and
\* without a handler it makes a plain request fail with status 500.
ReportError ==
  /\ pc = "raised"
  /\ span' = Closed
  /\ Report
  /\ pc' = "failed"
  /\ UNCHANGED <<mode, hits, whole, deltas, texts>>

\* The client closes the connection: a stream is cancelled where it waits, a plain
\* request is not.
Disconnect ==
  /\ mode = "stream" /\ pc \notin End \cup {"cancelled"}
  /\ pc' = "cancelled"
  /\ UNCHANGED <<mode, hits, whole, deltas, texts, sent, span>>

\* The cancelled generator is closed, by the CancelledError or when it is
\* collected; neither is an Exception, and both leave the trace block.
Leave ==
  /\ pc = "cancelled"
  /\ span' = Closed
  /\ pc' = "gone"
  /\ UNCHANGED <<mode, hits, whole, deltas, texts, sent>>

Proceed ==
  \/ OpenSpan \/ Search \/ SendMetadata \/ SendNoEvidence \/ ReceiveDelta \/ EndOfAnswer
  \/ SendSources \/ SendDone \/ CloseSpan \/ Respond \/ Raise \/ ReportError \/ Leave

Next == Proceed \/ Disconnect

Spec == Init /\ [][Next]_vars

\* Every call the request waits for returns or raises in the end.
FairSpec == Spec /\ WF_vars(Proceed)

-----------------------------------------------------------------------------
\* Every variable keeps its type.
TypeOK ==
  /\ mode \in {"plain", "stream"}
  /\ hits \in 0..MaxHits
  /\ deltas \in 0..MaxDeltas
  /\ texts \in 0..deltas
  /\ whole \in BOOLEAN
  /\ sent \in Seq(Event)
  /\ span \in {"none", "open", "absent", "closed"}
  /\ pc \in {"trace", "search", "metadata", "noEvidence", "generate", "sources", "done",
             "output", "respond", "raised", "cancelled"} \cup End

Types == [i \in 1..Len(sent) |-> sent[i].type]

\* The tokens sent, by their places.
Tokens == {i \in 1..Len(sent) : Types[i] = "token"}

\* The types of an answer in n tokens.
Complete(n) ==
  IF mode = "stream"
    THEN <<"metadata">> \o [i \in 1..n |-> "token"] \o <<"sources", "done">>
    ELSE <<"answer">>

\* At any moment the client has the beginning of a complete answer, or that of
\* one followed by an error: never a second end, and nothing behind an end
\* (answering.py:59, 72-82, query.py:47-51, 60-73).
WellFormed ==
  \E n \in 0..Len(sent) :
    \/ IsPrefix(Types, Complete(n))
    \/ Len(sent) > 0 /\ Last(Types) = "error" /\ IsStrictPrefix(Front(Types), Complete(n))

\* Only an answer of which nothing is missing looks like one: a search or a model
\* that fails half-way never ends with done, or in a response, and every part of an
\* answer counts the same sources (answering.py:52-59, 70-82, openai_client.py:99-117).
DoneIsComplete ==
  Len(sent) > 0 /\ Last(Types) \in {"done", "answer"} =>
    /\ hits > 0 => whole
    /\ mode = "stream" => Cardinality(Tokens) = IF hits = 0 THEN 1 ELSE texts
    /\ \A i \in 1..Len(sent) :
         Types[i] \in {"metadata", "sources", "answer"} => sent[i].count = hits

\* However a request ends, __exit__ has been called on a span that was opened for it
\* (observability.py:48-70).
SpanIsClosed == pc \in End => span # "open"

\* Every request ends, and if the client stays it ends with done, a response
\* or an error (answering.py:43-83, query.py:42-75).
StreamEnds ==
  <>(pc = "gone" \/ (pc \in End /\ Len(sent) > 0 /\ Last(Types) \in {"done", "answer", "error"}))

=============================================================================
