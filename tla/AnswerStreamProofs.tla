------------------------- MODULE AnswerStreamProofs -------------------------
(***************************************************************************)
(* Theorems about AnswerStream, for every number of hits and every length  *)
(* of an answer: at each step of a request, what has been sent is exactly  *)
(* the events of a complete answer as far as that step (Shape), and the    *)
(* safety properties are read off from it.                                 *)
(***************************************************************************)
EXTENDS AnswerStream, SequenceTheorems, FiniteSetTheorems, TLAPS

-----------------------------------------------------------------------------
(* The inductive invariant.                                                *)

\* The tokens of this answer, as many as there have been so far.
TokenCount == IF hits = 0 THEN 1 ELSE texts

\* The events of a complete stream.
EventAt(i) ==
  CASE i = 1                  -> Counted("metadata")
    [] i \in 2..TokenCount + 1 -> Plain("token")
    [] i = TokenCount + 2      -> Counted("sources")
    [] OTHER                   -> Plain("done")

\* An error that was reported is the last event, and no event of an answer.
Regular(i) == pc = "failed" => i < Len(sent)

StreamShape ==
  /\ pc # "respond"
  /\ pc \in {"trace", "search", "metadata"} => sent = <<>> /\ texts = 0
  /\ pc = "noEvidence" => hits = 0 /\ Len(sent) = 1
  /\ pc = "generate" => hits > 0 /\ Len(sent) = texts + 1
  /\ pc = "sources" => Len(sent) = TokenCount + 1 /\ (hits > 0 => whole)
  /\ pc = "done" => Len(sent) = TokenCount + 2
  /\ pc \in {"output", "answered"} => Len(sent) = TokenCount + 3
  /\ pc = "raised" => Len(sent) <= TokenCount + 1
  /\ pc = "failed" => Len(sent) \in 1..TokenCount + 2 /\ sent[Len(sent)] = Plain("error")
  /\ Len(sent) <= TokenCount + 3
  /\ \A i \in 1..Len(sent) : Regular(i) => sent[i] = EventAt(i)
  /\ pc # "failed" /\ hits > 0 /\ Len(sent) >= TokenCount + 2 => whole

PlainShape ==
  /\ pc \notin {"metadata", "noEvidence", "sources", "done", "cancelled", "gone"}
  /\ pc = "answered" => sent = <<Counted("answer")>>
  /\ pc = "failed" => sent = <<Plain("error")>>
  /\ pc \notin {"answered", "failed"} => sent = <<>>
  /\ pc \in {"output", "respond", "answered"} /\ hits > 0 => whole

Shape ==
  /\ mode = "stream" => StreamShape
  /\ mode = "plain" => PlainShape
  /\ pc \in {"respond"} \cup End => span # "open"

-----------------------------------------------------------------------------
(* Types.                                                                  *)

LEMMA EventsType ==
  ASSUME TypeOK, NEW t \in EventType
  PROVE  Plain(t) \in Event /\ Counted(t) \in Event
BY BoundsAssumption DEF TypeOK, Event, Plain, Counted

\* Sending adds one event behind the others.
LEMMA SendFacts ==
  ASSUME TypeOK, NEW e \in Event, Send(e)
  PROVE  /\ sent' \in Seq(Event)
         /\ Len(sent') = Len(sent) + 1 /\ sent'[Len(sent) + 1] = e
         /\ \A i \in 1..Len(sent) : sent'[i] = sent[i]
BY DEF TypeOK, Send

LEMMA TypeInit == Init => TypeOK
<1> SUFFICES ASSUME Init PROVE TypeOK
  OBVIOUS
<1>1. sent \in Seq(Event)
  BY DEF Init
<1>2. hits \in 0..MaxHits /\ deltas \in 0..MaxDeltas /\ texts \in 0..deltas
  BY BoundsAssumption DEF Init
<1> QED BY <1>1, <1>2 DEF Init, TypeOK

LEMMA TypeStep == TypeOK /\ [Next]_vars => TypeOK'
<1> SUFFICES ASSUME TypeOK, [Next]_vars PROVE TypeOK'
  OBVIOUS
<1> USE BoundsAssumption DEF TypeOK, End
<1>1. CASE OpenSpan
  BY <1>1 DEF OpenSpan
<1>2. CASE Search
  BY <1>2 DEF Search, Found
<1>3. CASE SendMetadata
  BY <1>3, EventsType, SendFacts DEF SendMetadata, EventType
<1>4. CASE SendNoEvidence
  BY <1>4, EventsType, SendFacts DEF SendNoEvidence, EventType
<1>5. CASE ReceiveDelta
  BY <1>5, EventsType, SendFacts DEF ReceiveDelta, EventType
<1>6. CASE EndOfAnswer
  BY <1>6 DEF EndOfAnswer
<1>7. CASE SendSources
  BY <1>7, EventsType, SendFacts DEF SendSources, EventType
<1>8. CASE SendDone
  BY <1>8, EventsType, SendFacts DEF SendDone, EventType
<1>9. CASE CloseSpan
  BY <1>9 DEF CloseSpan, Closed, AfterOutput
<1>10. CASE Respond
  BY <1>10, EventsType, SendFacts DEF Respond, EventType
<1>11. CASE Raise
  BY <1>11 DEF Raise, AfterFailure
<1>12. CASE ReportError
  BY <1>12, EventsType, SendFacts DEF ReportError, Report, Closed, EventType
<1>13. CASE Disconnect
  BY <1>13 DEF Disconnect
<1>14. CASE Leave
  BY <1>14 DEF Leave, Closed
<1>15. CASE UNCHANGED vars
  BY <1>15 DEF vars
<1> QED
  BY <1>1, <1>2, <1>3, <1>4, <1>5, <1>6, <1>7, <1>8, <1>9, <1>10, <1>11, <1>12, <1>13, <1>14, <1>15
    DEF Next, Proceed

\* Every variable keeps its type; in particular no event has more sources than a
\* search may find (answering.py:48-83).
THEOREM TypeCorrect == Spec => []TypeOK
BY TypeInit, TypeStep, PTL DEF Spec

-----------------------------------------------------------------------------
(* The shape of what has been sent.                                        *)

LEMMA ShapeInit == Init => Shape
BY DEF Init, Shape, StreamShape, PlainShape, End, TokenCount

\* What the events of a complete stream are.
LEMMA EventFacts ==
  ASSUME TypeOK
  PROVE  /\ TokenCount \in Nat
         /\ EventAt(1) = Counted("metadata")
         /\ \A i \in 2..TokenCount + 1 : EventAt(i) = Plain("token")
         /\ EventAt(TokenCount + 2) = Counted("sources")
         /\ EventAt(TokenCount + 3) = Plain("done")
<1>1. TokenCount \in Nat
  BY BoundsAssumption DEF TypeOK, TokenCount
<1> QED BY <1>1 DEF EventAt

\* The events of the answer stay as they are while it gets no token.
LEMMA EventsStay ==
  ASSUME UNCHANGED <<hits, texts>>
  PROVE  TokenCount' = TokenCount /\ \A i : EventAt(i)' = EventAt(i)
BY DEF TokenCount, EventAt, Counted

\* An event that continues a stream.
LEMMA Continues ==
  ASSUME TypeOK, mode = "stream", StreamShape, pc # "failed", UNCHANGED <<hits, texts>>,
         NEW e \in Event, Send(e), e = EventAt(Len(sent) + 1)
  PROVE  /\ Len(sent') = Len(sent) + 1 /\ TokenCount' = TokenCount /\ TokenCount \in Nat
         /\ \A i \in 1..Len(sent') : sent'[i] = EventAt(i)'
<1>1. \A i \in 1..Len(sent) : sent'[i] = EventAt(i)
  BY SendFacts DEF StreamShape, Regular
<1>2. Len(sent) \in Nat
  BY DEF TypeOK
<1> QED BY <1>1, <1>2, SendFacts, EventsStay, EventFacts

LEMMA ShapeStep == TypeOK /\ Shape /\ [Next]_vars => Shape'
<1> SUFFICES ASSUME TypeOK, Shape, [Next]_vars PROVE Shape'
  OBVIOUS
<1> USE BoundsAssumption DEF TypeOK, Shape, End
<1>1. CASE OpenSpan
  BY <1>1 DEF OpenSpan, StreamShape, PlainShape, TokenCount
<1>2. CASE Search
  BY <1>2 DEF Search, Found, StreamShape, PlainShape, TokenCount
<1>3. CASE SendMetadata
  <2>1. mode = "stream" /\ StreamShape /\ Len(sent) = 0 /\ TokenCount \in Nat
    BY <1>3, EventFacts DEF SendMetadata, StreamShape, PlainShape, TokenCount
  <2>2. Counted("metadata") = EventAt(Len(sent) + 1)
    BY <1>3, <2>1, EventFacts DEF SendMetadata, StreamShape, TokenCount
  <2>3. /\ Len(sent') = Len(sent) + 1 /\ TokenCount' = TokenCount
        /\ \A i \in 1..Len(sent') : sent'[i] = EventAt(i)'
    BY <1>3, <2>1, <2>2, EventsType, Continues DEF SendMetadata, EventType
  <2> QED BY <1>3, <2>1, <2>3 DEF SendMetadata, StreamShape, TokenCount
<1>4. CASE SendNoEvidence
  <2>1. mode = "stream" /\ StreamShape /\ Len(sent) = 1 /\ TokenCount \in Nat
    BY <1>4, EventFacts DEF SendNoEvidence, StreamShape, PlainShape, TokenCount
  <2>2. Plain("token") = EventAt(Len(sent) + 1)
    BY <1>4, <2>1, EventFacts DEF SendNoEvidence, StreamShape, TokenCount
  <2>3. /\ Len(sent') = Len(sent) + 1 /\ TokenCount' = TokenCount
        /\ \A i \in 1..Len(sent') : sent'[i] = EventAt(i)'
    BY <1>4, <2>1, <2>2, EventsType, Continues DEF SendNoEvidence, EventType
  <2> QED BY <1>4, <2>1, <2>3 DEF SendNoEvidence, StreamShape, TokenCount
<1>5. CASE ReceiveDelta /\ UNCHANGED <<texts, sent>>
  <2>1. TokenCount' = TokenCount /\ \A i : EventAt(i)' = EventAt(i)
    BY <1>5, EventsStay DEF ReceiveDelta
  <2> QED BY <1>5, <2>1 DEF ReceiveDelta, StreamShape, Regular
<1>6. CASE ReceiveDelta /\ texts' = texts + 1 /\ Send(Plain("token"))
  <2>1. /\ mode = "stream" /\ StreamShape /\ hits > 0 /\ pc = "generate"
        /\ UNCHANGED <<mode, hits, whole, span, pc>>
        /\ Len(sent) = texts + 1 /\ texts \in Nat
    BY <1>6 DEF ReceiveDelta, StreamShape
  <2>2. TokenCount = texts /\ TokenCount' = texts + 1
    BY <1>6, <2>1 DEF TokenCount
  <2>3. Plain("token") \in Event
    BY EventsType DEF EventType
  <2>4. Len(sent') = texts + 2 /\ sent'[texts + 2] = Plain("token")
    BY <1>6, <2>1, <2>3, SendFacts
  <2>5. ASSUME NEW i \in 1..texts + 1 PROVE sent'[i] = EventAt(i)
    BY <1>6, <2>1, <2>3, <2>5, SendFacts DEF StreamShape, Regular
  <2>6. ASSUME NEW i \in 1..texts + 2 PROVE sent'[i] = EventAt(i)'
    <3>1. CASE i = 1
      <4>1. EventAt(i) = Counted("metadata")
        BY <2>1, <2>2, <3>1, EventFacts
      <4>2. EventAt(i)' = Counted("metadata")
        BY <2>1, <2>2, <3>1 DEF EventAt, Counted
      <4> QED BY <2>1, <2>5, <3>1, <4>1, <4>2
    <3>2. CASE i \in 2..texts + 2
      <4>1. EventAt(i)' = Plain("token")
        BY <2>1, <2>2, <3>2 DEF EventAt, Plain
      <4>2. i \in 2..texts + 1 => EventAt(i) = Plain("token")
        BY <2>1, <2>2, <3>2, EventFacts
      <4> QED BY <2>1, <2>4, <2>5, <3>2, <4>1, <4>2
    <3> QED BY <2>1, <2>6, <3>1, <3>2
  <2> QED BY <1>6, <2>1, <2>2, <2>4, <2>6 DEF StreamShape
<1>7. CASE EndOfAnswer
  <2>1. TokenCount' = TokenCount /\ \A i : EventAt(i)' = EventAt(i)
    BY <1>7, EventsStay DEF EndOfAnswer
  <2> QED BY <1>7, <2>1 DEF EndOfAnswer, StreamShape, PlainShape, Regular, TokenCount
<1>8. CASE SendSources
  <2>1. mode = "stream" /\ StreamShape /\ Len(sent) = TokenCount + 1 /\ TokenCount \in Nat
    BY <1>8, EventFacts DEF SendSources, StreamShape, PlainShape, TokenCount
  <2>2. Counted("sources") = EventAt(Len(sent) + 1)
    BY <1>8, <2>1, EventFacts DEF SendSources, StreamShape, TokenCount
  <2>3. /\ Len(sent') = Len(sent) + 1 /\ TokenCount' = TokenCount
        /\ \A i \in 1..Len(sent') : sent'[i] = EventAt(i)'
    BY <1>8, <2>1, <2>2, EventsType, Continues DEF SendSources, EventType
  <2> QED BY <1>8, <2>1, <2>3 DEF SendSources, StreamShape, TokenCount
<1>9. CASE SendDone
  <2>1. mode = "stream" /\ StreamShape /\ Len(sent) = TokenCount + 2 /\ TokenCount \in Nat
    BY <1>9, EventFacts DEF SendDone, StreamShape, PlainShape, TokenCount
  <2>2. Plain("done") = EventAt(Len(sent) + 1)
    BY <1>9, <2>1, EventFacts DEF SendDone, StreamShape, TokenCount
  <2>3. /\ Len(sent') = Len(sent) + 1 /\ TokenCount' = TokenCount
        /\ \A i \in 1..Len(sent') : sent'[i] = EventAt(i)'
    BY <1>9, <2>1, <2>2, EventsType, Continues DEF SendDone, EventType
  <2> QED BY <1>9, <2>1, <2>3 DEF SendDone, StreamShape, TokenCount
<1>10. CASE CloseSpan
  <2>1. TokenCount' = TokenCount /\ TokenCount \in Nat /\ \A i : EventAt(i)' = EventAt(i)
    BY <1>10, EventsStay, EventFacts DEF CloseSpan
  <2> QED BY <1>10, <2>1 DEF CloseSpan, Closed, AfterOutput, StreamShape, PlainShape, Regular, TokenCount
<1>11. CASE Respond
  <2>1. mode = "plain" /\ sent = <<>> /\ pc = "respond" /\ (hits > 0 => whole)
    BY <1>11 DEF Respond, StreamShape, PlainShape
  <2>2. Counted("answer")' = Counted("answer") /\ sent' = <<Counted("answer")>>
    BY <1>11, <2>1 DEF Respond, Send, Counted
  <2> QED BY <1>11, <2>1, <2>2 DEF Respond, PlainShape
<1>12. CASE Raise
  <2>1. TokenCount' = TokenCount /\ TokenCount \in Nat /\ \A i : EventAt(i)' = EventAt(i)
    BY <1>12, EventsStay, EventFacts DEF Raise
  <2> QED BY <1>12, <2>1 DEF Raise, AfterFailure, StreamShape, PlainShape, Regular, TokenCount
<1>13. CASE ReportError
  <2>1. Plain("error") \in Event /\ Send(Plain("error"))
    BY <1>13, EventsType DEF ReportError, Report, EventType
  <2>2. /\ Len(sent') = Len(sent) + 1 /\ sent'[Len(sent) + 1] = Plain("error")
        /\ \A i \in 1..Len(sent) : sent'[i] = sent[i]
    BY <2>1, SendFacts
  <2>3. TokenCount' = TokenCount /\ TokenCount \in Nat /\ \A i : EventAt(i)' = EventAt(i)
    BY <1>13, EventsStay, EventFacts DEF ReportError
  <2>4. CASE mode = "plain"
    BY <1>13, <2>1, <2>4 DEF ReportError, Send, Closed, PlainShape, Plain
  <2>5. CASE mode = "stream"
    <3>1. \A i \in 1..Len(sent) : sent'[i] = EventAt(i)'
      BY <1>13, <2>2, <2>3, <2>5 DEF ReportError, StreamShape, Regular
    <3> QED BY <1>13, <2>2, <2>3, <2>5, <3>1 DEF ReportError, Closed, StreamShape, Regular
  <2> QED BY <2>4, <2>5
<1>14. CASE Disconnect
  <2>1. TokenCount' = TokenCount /\ TokenCount \in Nat /\ \A i : EventAt(i)' = EventAt(i)
    BY <1>14, EventsStay, EventFacts DEF Disconnect
  <2> QED BY <1>14, <2>1 DEF Disconnect, StreamShape, PlainShape, Regular, TokenCount
<1>15. CASE Leave
  <2>1. TokenCount' = TokenCount /\ TokenCount \in Nat /\ \A i : EventAt(i)' = EventAt(i)
    BY <1>15, EventsStay, EventFacts DEF Leave
  <2> QED BY <1>15, <2>1 DEF Leave, Closed, StreamShape, PlainShape, Regular, TokenCount
<1>16. CASE UNCHANGED vars
  <2>1. TokenCount' = TokenCount /\ \A i : EventAt(i)' = EventAt(i)
    BY <1>16, EventsStay DEF vars
  <2>2. \A t : Counted(t)' = Counted(t)
    BY <1>16 DEF vars, Counted
  <2> QED BY <1>16, <2>1, <2>2 DEF vars, StreamShape, PlainShape, Regular, Plain
<1> QED
  BY <1>1, <1>2, <1>3, <1>4, <1>5, <1>6, <1>7, <1>8, <1>9, <1>10, <1>11, <1>12, <1>13, <1>14, <1>15,
     <1>16
    DEF Next, Proceed, ReceiveDelta

\* The inductive invariant holds in every reachable state
\* (answering.py:48-83, query.py:47-73).
THEOREM ShapeAlways == Spec => [](TypeOK /\ Shape)
BY TypeInit, TypeStep, ShapeInit, ShapeStep, PTL DEF Spec

-----------------------------------------------------------------------------
(* Safety.                                                                 *)

\* __exit__ has been called on a span that was opened when the request has ended,
\* wherever it failed or its client left (observability.py:48-70).
THEOREM SpanClosed == Spec => []SpanIsClosed
<1>1. Shape => SpanIsClosed
  BY DEF Shape, SpanIsClosed
<1> QED BY <1>1, ShapeAlways, PTL

-----------------------------------------------------------------------------
(* The order of the events.                                                *)

\* A sequence is a prefix of another where the two agree place by place.
LEMMA PrefixByPlaces ==
  ASSUME NEW S, NEW s \in Seq(S), NEW t \in Seq(S), Len(s) <= Len(t),
         \A i \in 1..Len(s) : s[i] = t[i]
  PROVE  IsPrefix(s, t)
<1>1. SubSeq(s, 1, Len(s)) = s
  BY SubSeqFull
<1>2. \A i \in 1..Len(s) : t[i] \in S
  OBVIOUS
<1>3. /\ SubSeq(t, 1, Len(s)) \in Seq(S) /\ Len(SubSeq(t, 1, Len(s))) = Len(s)
      /\ \A i \in 1..Len(s) : SubSeq(t, 1, Len(s))[i] = t[i]
  BY <1>2, SubSeqProperties
<1>4. SubSeq(t, 1, Len(s)) = s
  BY <1>3, SeqEqual
<1> QED BY <1>1, <1>4 DEF IsPrefix

\* The places of a complete stream.
LEMMA CompleteFacts ==
  ASSUME mode = "stream", NEW n \in Nat
  PROVE  /\ Complete(n) \in Seq(EventType) /\ Len(Complete(n)) = n + 3
         /\ Complete(n)[1] = "metadata"
         /\ \A i \in 2..n + 1 : Complete(n)[i] = "token"
         /\ Complete(n)[n + 2] = "sources" /\ Complete(n)[n + 3] = "done"
<1> DEFINE head == <<"metadata">>
           body == [i \in 1..n |-> "token"]
           tail == <<"sources", "done">>
<1>1. head \in Seq(EventType) /\ Len(head) = 1 /\ head[1] = "metadata"
  BY DEF EventType
<1>2. body \in Seq(EventType) /\ Len(body) = n /\ \A i \in 1..n : body[i] = "token"
  BY DEF EventType
<1>3. tail \in Seq(EventType) /\ Len(tail) = 2 /\ tail[1] = "sources" /\ tail[2] = "done"
  BY DEF EventType
<1>4. Complete(n) = (head \o body) \o tail
  BY DEF Complete
<1> HIDE DEF head, body, tail
<1>5. /\ head \o body \in Seq(EventType) /\ Len(head \o body) = n + 1
      /\ \A i \in 1..n + 1 : (head \o body)[i] = IF i <= 1 THEN head[i] ELSE body[i - 1]
  <2>1. /\ head \o body \in Seq(EventType) /\ Len(head \o body) = Len(head) + Len(body)
        /\ \A i \in 1..Len(head) + Len(body) :
             (head \o body)[i] = IF i <= Len(head) THEN head[i] ELSE body[i - Len(head)]
    BY <1>1, <1>2, ConcatProperties
  <2>2. Len(head) + Len(body) = n + 1
    BY <1>1, <1>2
  <2> QED BY <1>1, <1>2, <2>1, <2>2
<1>6. /\ Complete(n) \in Seq(EventType) /\ Len(Complete(n)) = n + 3
      /\ \A i \in 1..n + 3 :
           Complete(n)[i] = IF i <= n + 1 THEN (head \o body)[i] ELSE tail[i - (n + 1)]
  <2> DEFINE front == head \o body
  <2>1. front \in Seq(EventType) /\ Len(front) = n + 1 /\ Complete(n) = front \o tail
    BY <1>4, <1>5
  <2> HIDE DEF front
  <2>2. /\ front \o tail \in Seq(EventType) /\ Len(front \o tail) = Len(front) + Len(tail)
        /\ \A i \in 1..Len(front) + Len(tail) :
             (front \o tail)[i] = IF i <= Len(front) THEN front[i] ELSE tail[i - Len(front)]
    BY <1>3, <2>1, ConcatProperties
  <2>3. Len(front) + Len(tail) = n + 3
    BY <1>3, <2>1
  <2>4. \A i \in 1..n + 3 :
          Complete(n)[i] = IF i <= n + 1 THEN front[i] ELSE tail[i - (n + 1)]
    BY <2>1, <2>2, <2>3
  <2> QED BY <2>1, <2>2, <2>3, <2>4 DEF front
<1>7. Complete(n)[1] = "metadata"
  BY <1>1, <1>5, <1>6
<1>8. ASSUME NEW i \in 2..n + 1 PROVE Complete(n)[i] = "token"
  BY <1>2, <1>5, <1>6
<1>9. Complete(n)[n + 2] = "sources" /\ Complete(n)[n + 3] = "done"
  BY <1>3, <1>6
<1> QED BY <1>6, <1>7, <1>8, <1>9

LEMMA TypesFacts ==
  ASSUME TypeOK
  PROVE  /\ Types \in Seq(EventType) /\ Len(Types) = Len(sent)
         /\ \A i \in 1..Len(sent) : Types[i] = sent[i].type
<1>1. Len(sent) \in Nat /\ \A i \in 1..Len(sent) : sent[i] \in Event
  BY DEF TypeOK
<1>2. \A i \in 1..Len(sent) : sent[i].type \in EventType
  BY <1>1 DEF Event
<1> QED BY <1>1, <1>2 DEF Types

\* The types of the events a stream has sent, up to an error.
LEMMA TypesOfStream ==
  ASSUME TypeOK, Shape, mode = "stream", NEW i \in 1..Len(sent), Regular(i)
  PROVE  /\ TokenCount \in Nat /\ i \in 1..TokenCount + 3
         /\ i = 1 => Types[i] = "metadata"
         /\ i \in 2..TokenCount + 1 => Types[i] = "token"
         /\ i = TokenCount + 2 => Types[i] = "sources"
         /\ i = TokenCount + 3 => Types[i] = "done"
<1>1. TokenCount \in Nat /\ sent[i] = EventAt(i) /\ Len(sent) <= TokenCount + 3
  BY EventFacts DEF Shape, StreamShape
<1>2. Types[i] = EventAt(i).type
  BY <1>1, TypesFacts
<1> QED BY <1>1, <1>2, EventFacts DEF TypeOK, Plain, Counted

LEMMA StreamWellFormed ==
  ASSUME TypeOK, Shape, mode = "stream", pc # "failed"
  PROVE  WellFormed
<1> DEFINE n == IF Len(sent) <= TokenCount + 1 THEN Len(sent) ELSE TokenCount
<1>1. TokenCount \in Nat /\ Len(sent) \in Nat /\ Len(sent) <= TokenCount + 3
  BY EventFacts DEF TypeOK, Shape, StreamShape
<1>2. /\ n \in 0..Len(sent) /\ n \in Nat /\ Len(sent) <= n + 3
      /\ n = TokenCount \/ (Len(sent) <= n /\ Len(sent) <= TokenCount + 1)
  BY <1>1
<1> HIDE DEF n
<1>3. ASSUME NEW i \in 1..Len(sent) PROVE Types[i] = Complete(n)[i]
  <2>1. Regular(i)
    BY DEF Regular
  <2>2. i = 1 \/ i \in 2..n + 1 \/ (n = TokenCount /\ i \in {n + 2, n + 3})
    BY <1>1, <1>2
  <2>3. CASE i = 1
    BY <1>2, <2>1, <2>3, TypesOfStream, CompleteFacts
  <2>4. CASE i \in 2..n + 1
    <3>1. i \in 2..TokenCount + 1
      BY <1>1, <1>2, <2>4
    <3> QED BY <1>2, <2>1, <2>4, <3>1, TypesOfStream, CompleteFacts
  <2>5. CASE n = TokenCount /\ i \in {n + 2, n + 3}
    BY <1>2, <2>1, <2>5, TypesOfStream, CompleteFacts
  <2> QED BY <2>2, <2>3, <2>4, <2>5
<1>4. IsPrefix(Types, Complete(n))
  <2>1. /\ Types \in Seq(EventType) /\ Complete(n) \in Seq(EventType)
        /\ Len(Types) = Len(sent) /\ Len(Complete(n)) = n + 3
    BY <1>2, TypesFacts, CompleteFacts
  <2> QED BY <1>2, <1>3, <2>1, PrefixByPlaces
<1> QED BY <1>2, <1>4 DEF WellFormed

LEMMA FailedWellFormed ==
  ASSUME TypeOK, Shape, mode = "stream", pc = "failed"
  PROVE  WellFormed
<1> DEFINE n == Len(sent) - 1
<1>1. /\ TokenCount \in Nat /\ Len(sent) \in 1..TokenCount + 2
      /\ sent[Len(sent)] = Plain("error")
  BY EventFacts DEF Shape, StreamShape
<1>2. n \in 0..Len(sent) /\ n \in Nat /\ Len(sent) > 0
  BY <1>1
<1>3. Last(Types) = "error"
  BY <1>1, TypesFacts DEF Last, Plain
<1>4. /\ Front(Types) \in Seq(EventType) /\ Len(Front(Types)) = n
      /\ \A i \in 1..n : Front(Types)[i] = Types[i]
  <2>1. \A i \in 1..n : Types[i] \in EventType
    BY <1>1, TypesFacts
  <2>2. Front(Types) = SubSeq(Types, 1, n)
    BY TypesFacts DEF Front
  <2> HIDE DEF n
  <2>3. /\ SubSeq(Types, 1, n) \in Seq(EventType)
        /\ Len(SubSeq(Types, 1, n)) = IF 1 <= n THEN n - 1 + 1 ELSE 0
        /\ \A i \in 1..n - 1 + 1 : SubSeq(Types, 1, n)[i] = Types[1 + i - 1]
    BY <1>2, <2>1, SubSeqProperties
  <2> QED BY <1>2, <2>2, <2>3
<1>5. ASSUME NEW i \in 1..n PROVE Front(Types)[i] = Complete(n)[i]
  <2>1. Regular(i) /\ i \in 1..Len(sent) /\ i <= TokenCount + 1
    BY <1>1 DEF Regular
  <2>2. Types[i] = IF i = 1 THEN "metadata" ELSE "token"
    BY <1>1, <2>1, TypesOfStream
  <2> HIDE DEF n
  <2>3. Complete(n)[i] = IF i = 1 THEN "metadata" ELSE "token"
    <3>1. i = 1 \/ i \in 2..n + 1
      BY <1>2, <1>5
    <3>2. i = 1 => Complete(n)[i] = "metadata"
      BY <1>2, CompleteFacts
    <3>3. i \in 2..n + 1 => Complete(n)[i] = "token"
      BY <1>2, CompleteFacts
    <3> QED BY <1>2, <3>1, <3>2, <3>3
  <2> QED BY <1>4, <2>2, <2>3
<1>6. IsStrictPrefix(Front(Types), Complete(n))
  <2> HIDE DEF n
  <2>1. Complete(n) \in Seq(EventType) /\ Len(Complete(n)) = n + 3
    BY <1>2, CompleteFacts
  <2>2. IsPrefix(Front(Types), Complete(n))
    BY <1>2, <1>4, <1>5, <2>1, PrefixByPlaces
  <2> QED BY <1>2, <1>4, <2>1, <2>2 DEF IsStrictPrefix
<1> QED BY <1>2, <1>3, <1>6 DEF WellFormed

LEMMA PlainWellFormed ==
  ASSUME TypeOK, Shape, mode = "plain"
  PROVE  WellFormed
<1>1. Complete(0) = <<"answer">> /\ Complete(0) \in Seq(EventType) /\ Len(Complete(0)) = 1
  BY DEF Complete, EventType
<1>2. 0 \in 0..Len(sent) /\ Len(sent) \in Nat
  BY DEF TypeOK
<1>3. CASE pc # "failed"
  <2>1. sent = <<>> \/ sent = <<Counted("answer")>>
    BY <1>3 DEF Shape, PlainShape
  <2>2. Len(sent) <= 1 /\ \A i \in 1..Len(sent) : i = 1 /\ sent[i].type = "answer"
    BY <2>1 DEF Counted
  <2>3. \A i \in 1..Len(sent) : Types[i] = Complete(0)[i]
    BY <1>1, <2>2, TypesFacts
  <2>4. IsPrefix(Types, Complete(0))
    BY <1>1, <2>2, <2>3, TypesFacts, PrefixByPlaces
  <2> QED BY <1>2, <2>4 DEF WellFormed
<1>4. CASE pc = "failed"
  <2>1. Len(sent) = 1 /\ sent[1].type = "error"
    BY <1>4 DEF Shape, PlainShape, Plain
  <2>2. Len(Types) = 1 /\ Types[1] = "error"
    <3>1. 1 \in 1..Len(sent)
      BY <2>1
    <3> QED BY <2>1, <3>1, TypesFacts
  <2>3. Last(Types) = "error" /\ Front(Types) = SubSeq(Types, 1, 0)
    BY <2>2 DEF Last, Front
  <2>4. Front(Types) = <<>>
    BY <2>3, SubSeqEmpty
  <2>5. <<>> \in Seq(EventType)
    OBVIOUS
  <2>6. IsPrefix(<<>>, Complete(0)) /\ <<>> # Complete(0)
    <3>1. Len(<<>>) <= Len(Complete(0)) /\ \A i \in 1..Len(<<>>) : <<>>[i] = Complete(0)[i]
      BY <1>1
    <3>2. IsPrefix(<<>>, Complete(0))
      BY <1>1, <2>5, <3>1, PrefixByPlaces
    <3> QED BY <1>1, <3>2
  <2>7. IsStrictPrefix(Front(Types), Complete(0))
    BY <2>4, <2>6 DEF IsStrictPrefix
  <2>8. Len(sent) > 0
    BY <2>1
  <2> QED BY <1>2, <2>3, <2>7, <2>8 DEF WellFormed
<1> QED BY <1>3, <1>4

\* Whatever fails and whenever the client leaves, what a client has is the beginning
\* of one complete answer, or that and an error behind it
\* (answering.py:59, 72-82, query.py:47-51, 60-73).
THEOREM StreamsAreWellFormed == Spec => []WellFormed
<1>1. TypeOK /\ Shape => WellFormed
  BY StreamWellFormed, FailedWellFormed, PlainWellFormed DEF TypeOK
<1> QED BY <1>1, ShapeAlways, PTL

-----------------------------------------------------------------------------
(* What an answer that looks complete consists of.                         *)

\* A stream that ends with done has all its places.
LEMMA DoneIsLast ==
  ASSUME TypeOK, Shape, mode = "stream", Len(sent) > 0, Last(Types) \in {"done", "answer"}
  PROVE  pc # "failed" /\ TokenCount \in Nat /\ Len(sent) = TokenCount + 3
<1>1. Len(sent) \in 1..Len(sent) /\ Last(Types) = Types[Len(sent)]
  BY TypesFacts DEF TypeOK, Last
<1>2. pc # "failed"
  BY <1>1, TypesFacts DEF Shape, StreamShape, Plain
<1>3. Regular(Len(sent))
  BY <1>2 DEF Regular
<1> QED BY <1>1, <1>2, <1>3, TypesOfStream

LEMMA TokensOfDone ==
  ASSUME TypeOK, Shape, mode = "stream", pc # "failed", Len(sent) = TokenCount + 3
  PROVE  Cardinality(Tokens) = TokenCount
<1>1. TokenCount \in Nat
  BY EventFacts
<1>2. ASSUME NEW i \in 1..Len(sent)
      PROVE  Types[i] = "token" <=> i \in 2..TokenCount + 1
  <2>1. Regular(i)
    BY DEF Regular
  <2> QED BY <1>1, <2>1, TypesOfStream
<1>3. Tokens = 2..TokenCount + 1
  BY <1>1, <1>2 DEF Tokens
<1> QED BY <1>1, <1>3, FS_Interval

LEMMA DoneStream ==
  ASSUME TypeOK, Shape, mode = "stream", Len(sent) > 0, Last(Types) \in {"done", "answer"}
  PROVE  /\ hits > 0 => whole
         /\ Cardinality(Tokens) = IF hits = 0 THEN 1 ELSE texts
         /\ \A i \in 1..Len(sent) :
              Types[i] \in {"metadata", "sources", "answer"} => sent[i].count = hits
<1>1. pc # "failed" /\ TokenCount \in Nat /\ Len(sent) = TokenCount + 3
  BY DoneIsLast
<1>2. hits > 0 => whole
  BY <1>1 DEF Shape, StreamShape
<1>3. Cardinality(Tokens) = IF hits = 0 THEN 1 ELSE texts
  BY <1>1, TokensOfDone DEF TokenCount
<1>4. ASSUME NEW i \in 1..Len(sent), Types[i] \in {"metadata", "sources", "answer"}
      PROVE  sent[i].count = hits
  <2>1. Regular(i) /\ sent[i] = EventAt(i)
    BY <1>1 DEF Regular, Shape, StreamShape
  <2>2. i = 1 \/ i = TokenCount + 2
    BY <1>1, <1>4, <2>1, TypesOfStream
  <2> QED BY <2>1, <2>2, EventFacts DEF Counted
<1> QED BY <1>2, <1>3, <1>4

LEMMA DonePlain ==
  ASSUME TypeOK, Shape, mode = "plain", Len(sent) > 0, Last(Types) \in {"done", "answer"}
  PROVE  /\ hits > 0 => whole
         /\ \A i \in 1..Len(sent) : sent[i].count = hits
<1>1. pc # "failed"
  BY TypesFacts DEF Shape, PlainShape, Plain, Last
<1>2. pc = "answered" /\ sent = <<Counted("answer")>>
  BY <1>1 DEF Shape, PlainShape
<1> QED BY <1>2 DEF Shape, PlainShape, Counted

\* An answer that ends like a whole one is a whole one: the model has ended it, every
\* text the model sent has reached the client, and every part counts the same sources
\* (answering.py:52-59, 70-82, openai_client.py:99-117).
THEOREM DoneMeansComplete == Spec => []DoneIsComplete
<1>1. TypeOK /\ Shape => DoneIsComplete
  BY DoneStream, DonePlain DEF TypeOK, DoneIsComplete
<1> QED BY <1>1, ShapeAlways, PTL

-----------------------------------------------------------------------------
(* No request goes round in circles.                                       *)

\* How far a request is from its end: no path takes more places than this.
Distance ==
  CASE pc = "trace"                    -> 10
    [] pc = "search"                   -> 9
    [] pc = "metadata"                 -> 8
    [] pc \in {"noEvidence", "generate"} -> 7
    [] pc = "sources"                  -> 6
    [] pc = "done"                     -> 5
    [] pc = "output"                   -> 4
    [] pc = "respond"                  -> 3
    [] pc = "raised"                   -> 2
    [] pc = "cancelled"                -> 1
    [] pc \in End                      -> 0

\* With the chunks of the answer that may still come.
Pending == Distance + (MaxDeltas - deltas)

LEMMA PendingIsCounted == TypeOK => Pending \in Nat
BY BoundsAssumption DEF TypeOK, Pending, Distance, End

LEMMA PendingGoesDown == TypeOK /\ Next => Pending' < Pending
<1> SUFFICES ASSUME TypeOK, Next PROVE Pending' < Pending
  OBVIOUS
<1>1. MaxDeltas \in Nat /\ deltas \in 0..MaxDeltas
  BY BoundsAssumption DEF TypeOK
<1>2. pc \in {"trace", "search", "metadata", "noEvidence", "generate", "sources", "done",
              "output", "respond", "raised", "cancelled", "answered", "failed", "gone"}
  BY DEF TypeOK, End
<1> USE DEF Pending, Distance, End
<1>3. CASE ReceiveDelta
  BY <1>1, <1>3 DEF ReceiveDelta
<1>4. CASE OpenSpan \/ Search \/ SendMetadata \/ SendNoEvidence \/ EndOfAnswer
  BY <1>1, <1>4 DEF OpenSpan, Search, SendMetadata, SendNoEvidence, EndOfAnswer
<1>5. CASE SendSources \/ SendDone \/ CloseSpan \/ Respond
  BY <1>1, <1>5 DEF SendSources, SendDone, CloseSpan, Respond, AfterOutput
<1>6. CASE Raise \/ ReportError \/ Leave
  BY <1>1, <1>6 DEF Raise, AfterFailure, ReportError, Leave
<1>7. CASE Disconnect
  BY <1>1, <1>2, <1>7 DEF Disconnect
<1> QED
  BY <1>3, <1>4, <1>5, <1>6, <1>7 DEF Next, Proceed

\* A request cannot go on for ever: whatever fails, and whenever the client leaves,
\* each step takes from a natural number that nothing raises, so that of StreamEnds
\* only that calls return or raise has to be assumed (answering.py:43-83,
\* query.py:42-75).
THEOREM NoEndlessRequest == Spec => [](Pending \in Nat) /\ [][Pending' < Pending]_vars
<1>1. TypeOK /\ [Next]_vars => [Pending' < Pending]_vars
  BY PendingGoesDown
<1> QED BY <1>1, TypeInit, TypeStep, PendingIsCounted, PTL DEF Spec

=============================================================================
