-------------------------- MODULE LspServerProofs --------------------------
(***************************************************************************)
(* Theorems about the protocol loop, for any number of messages, documents *)
(* and texts.  The editor is one that sends whole documents: one change in *)
(* each didChange.                                                         *)
(***************************************************************************)
EXTENDS LspServer, TLAPS

-----------------------------------------------------------------------------
(* One message.                                                            *)

\* What a handler does to the documents is what the message means to the
\* editor.
LEMMA HandleEffect ==
  ASSUME NEW m \in Messages, WellSent(m), Handle(m)
  PROVE  documents' = Effect(m, documents)
<1>0. CASE BadRequest(m)
  BY <1>0, NoMethodAssumption DEF BadRequest, Silently, Effect, WithId, Queries,
     Methods, Synchronisation
<1>1. CASE StopAtBadHeader(m) \/ SkipMalformed(m) \/ UnbindableParams(m)
  BY <1>1 DEF StopAtBadHeader, SkipMalformed, UnbindableParams, Silently, Effect, Bound
<1>2. CASE Initialize(m) \/ Shutdown(m) \/ Initialized(m) \/ Exit(m)
  BY <1>2 DEF Initialize, Shutdown, Initialized, Exit, Respond, Silently, Effect
<1>3. CASE DidOpen(m)
  BY <1>3 DEF DidOpen, Reparsed, FindFile, Silently, WellSent, Effect
<1>4. CASE DidChange(m)
  BY <1>4 DEF DidChange, Reparsed, FindFile, Silently, Effect
<1>5. CASE DidClose(m) \/ Query(m) \/ UnknownMethod(m)
  BY <1>5 DEF DidClose, Query, UnknownMethod, Unknown, Respond, Silently, Effect, Queries
<1> QED
  BY <1>0, <1>1, <1>2, <1>3, <1>4, <1>5 DEF Handle

Response(m, kind) == [to |-> handled + 1, id |-> m.id, kind |-> kind, seen |-> documents]

\* A handler writes one response, to a request, or none; it has written one if
\* the message was a request, unless it has ended in an exception.
LEMMA HandleOutput ==
  ASSUME NEW m \in Messages, Handle(m)
  PROVE  \/ output' = output /\ (server' # "crashed" => ~IsRequest(m))
         \/ /\ IsRequest(m)
            /\ \E kind \in {"result", "error"} :
                 /\ kind = "error" <=> m.method = Unknown
                 /\ output' = Append(output, Response(m, kind))
<1>1. CASE StopAtBadHeader(m) \/ SkipMalformed(m) \/ UnbindableParams(m)
  BY <1>1 DEF StopAtBadHeader, SkipMalformed, UnbindableParams, Silently, IsRequest, Bound
<1>2. CASE BadRequest(m)
  <2>1. m.method # Unknown
    BY <1>2, NoMethodAssumption DEF BadRequest, Methods, WithId, Queries, Unknown
  <2>2. ~ (m.method \in WithId /\ HasId(m))
    BY <1>2, NoMethodAssumption DEF BadRequest, Methods
  <2> QED
    BY <1>2, <2>1, <2>2 DEF BadRequest, Silently, IsRequest
<1>3. CASE Initialize(m) \/ Shutdown(m)
  BY <1>3 DEF Initialize, Shutdown, Respond, Response, IsRequest, WithId, Unknown
<1>4. CASE Initialized(m) \/ Exit(m) \/ DidClose(m)
  BY <1>4 DEF Initialized, Exit, DidClose, Silently, IsRequest, WithId, Queries, Unknown
<1>5. CASE DidOpen(m) \/ DidChange(m)
  BY <1>5 DEF DidOpen, DidChange, Reparsed, Silently, IsRequest, WithId, Queries, Unknown
<1>6. CASE Query(m)
  BY <1>6 DEF Query, Respond, Response, IsRequest, WithId, Queries, Unknown
<1>7. CASE UnknownMethod(m)
  BY <1>7 DEF UnknownMethod, Respond, Response, Silently, IsRequest, WithId, Queries, Unknown
<1> QED
  BY <1>1, <1>2, <1>3, <1>4, <1>5, <1>6, <1>7 DEF Handle

\* The server goes from running to one of its last states, or goes on.
LEMMA HandleServer ==
  ASSUME NEW m, server = "running", Handle(m)
  PROVE  server' \in {"running", "stopped", "crashed"}
BY DEF Handle, StopAtBadHeader, SkipMalformed, BadRequest, UnbindableParams, Initialize,
   Shutdown, Initialized, Exit, DidOpen, DidChange, DidClose, Query, UnknownMethod,
   Respond, Reparsed, Silently

\* The texts of the indexed documents after a message are texts of the same
\* documents.
LEMMA EffectType ==
  ASSUME NEW D \in SUBSET Uris, NEW texts \in [D -> Texts], NEW m \in Messages
  PROVE  Effect(m, texts) \in [D -> Texts]
<1>1. CASE m.texts # << >>
  <2>1. m.texts[1] \in Texts
    BY <1>1 DEF Messages
  <2> QED
    BY <2>1 DEF Effect
<1>2. CASE m.texts = << >>
  BY <1>2 DEF Effect
<1> QED
  BY <1>1, <1>2

-----------------------------------------------------------------------------
(* The editor's steps.                                                     *)

\* The views of the editor before the last message stay as they are when one
\* is appended.
LEMMA ViewsStay ==
  ASSUME IndInv, NEW m, input' = Append(input, m), disk' = disk
  PROVE  /\ \A k \in DOMAIN input : k \in DOMAIN input' /\ input'[k] = input[k]
         /\ \A k \in 0..Len(input) : ViewAt(k)' = ViewAt(k)
         /\ input'[Len(input) + 1] = m
         /\ Len(input') = Len(input) + 1
         /\ DOMAIN input' = 1..(Len(input) + 1)
<1>1. input \in Seq(Messages)
  BY DEF IndInv, TypeOK
<1> QED
  BY <1>1 DEF ViewAt

\* Whatever message is sent, with the view it leads to, the invariant holds on.
LEMMA SendKeeps ==
  ASSUME IndInv, NEW m \in Messages, WellSent(m), m.view = Effect(m, view), Send(m)
  PROVE  IndInv'
<1>1. /\ input' = Append(input, m) /\ view' = m.view /\ client = "open"
      /\ Len(input) < MaxMessages
      /\ UNCHANGED <<server, client, handled, output, documents, disk>>
  BY DEF Send
<1>2. /\ input \in Seq(Messages) /\ handled \in 0..Len(input) /\ Len(input) \in Nat
      /\ view \in [DOMAIN disk -> Texts] /\ DOMAIN disk \in SUBSET Uris
  BY DEF IndInv, TypeOK, Views
<1>3. TypeOK'
  <2>1. input' \in Seq(Messages) /\ Len(input') = Len(input) + 1
    BY <1>1, <1>2
  <2>2. view' \in [DOMAIN disk -> Texts]
    <3>1. Effect(m, view) \in [DOMAIN disk -> Texts]
      BY <1>2, EffectType
    <3> QED
      BY <1>1, <3>1
  <2> QED
    BY <1>1, <1>2, <2>1, <2>2, MaxMessagesAssumption DEF IndInv, TypeOK
<1>4. PipeIsCoherent'
  <2>1. ASSUME NEW k \in DOMAIN input'
        PROVE  WellSent(input'[k]) /\ input'[k].view = Effect(input'[k], ViewAt(k - 1)')
    <3>1. CASE k \in DOMAIN input
      <4>1. k - 1 \in 0..Len(input)
        BY <1>2, <3>1
      <4> QED
        BY <1>1, <3>1, <4>1, ViewsStay DEF IndInv, PipeIsCoherent
    <3>2. CASE k = Len(input) + 1
      <4>1. k - 1 = Len(input) /\ Len(input) \in 0..Len(input)
        BY <1>2, <3>2
      <4> QED
        BY <1>1, <3>2, <4>1, ViewsStay DEF IndInv, PipeIsCoherent
    <3> QED
      BY <1>1, <1>2, <3>1, <3>2, ViewsStay
  <2>2. view' = ViewAt(Len(input))'
    <3>1. Len(input') # 0 /\ input'[Len(input')] = m
      BY <1>1, <1>2, ViewsStay
    <3> QED
      BY <1>1, <3>1 DEF ViewAt
  <2> QED
    BY <1>1, <2>1, <2>2, ViewsStay DEF PipeIsCoherent
<1>5. \A i \in DOMAIN output : /\ output[i].to \in DOMAIN input
                               /\ output[i].to \in 0..Len(input)
  BY <1>2 DEF IndInv, ResponsesInOrder
<1>6. ResponsesInOrder'
  BY <1>1 DEF IndInv, ResponsesInOrder
<1>7. OnlyRequestsAnswered'
  BY <1>1, <1>5, ViewsStay DEF IndInv, OnlyRequestsAnswered
<1>8. NoRequestDropped'
  <2>1. \A k \in 1..handled : input'[k] = input[k]
    BY <1>1, <1>2, ViewsStay
  <2> QED
    BY <1>1, <1>2, <2>1 DEF IndInv, NoRequestDropped
<1>9. DocumentsFollowEditor'
  BY <1>1, <1>2, ViewsStay DEF IndInv, DocumentsFollowEditor
<1>10. AnswersSeeTheirTexts'
  BY <1>1, <1>5, ViewsStay DEF IndInv, AnswersSeeTheirTexts
<1> QED
  BY <1>3, <1>4, <1>6, <1>7, <1>8, <1>9, <1>10 DEF IndInv

\* Everything the editor may send is such a message, if it sends one change in
\* a didChange.
LEMMA ClientKeeps ==
  ASSUME MaxChanges <= 1, IndInv, Client
  PROVE  IndInv'
<1>1. /\ AnyUri \in Uris /\ FreshId \in Ids /\ view \in Views
      /\ BadId \in Ids /\ NONE \in Ids
  <2>1. Len(input) + 1 \in Nat
    BY DEF IndInv, TypeOK
  <2> QED
    BY <2>1, UrisAssumption DEF AnyUri, FreshId, Ids, IndInv, TypeOK, Views
<1>2. << >> \in Seq(Texts)
  OBVIOUS
<1>3. \A uri \in Uris, text \in Texts : Becomes(uri, text) \in Views
  BY DEF Becomes, IndInv, TypeOK, Views
<1>4. ASSUME NEW method \in Queries \cup {"initialize", "shutdown", Unknown}, NEW uri \in Uris,
             SendRequest(method, uri)
      PROVE  IndInv'
  <2> DEFINE m == Message("ok", method, FreshId, "ok", uri, << >>, view)
  <2>1. m \in Messages
    BY <1>1, <1>2 DEF Message, Messages, Methods, WithId
  <2>2. WellSent(m) /\ m.view = Effect(m, view)
    BY DEF Message, WellSent, Effect, Queries, Unknown
  <2> QED
    BY <1>4, <2>1, <2>2, SendKeeps DEF SendRequest
<1>5. ASSUME NEW method \in Notifications \cup {Unknown}, SendNotification(method)
      PROVE  IndInv'
  <2> DEFINE m == Message("ok", method, NONE, "ok", AnyUri, << >>, view)
  <2>1. m \in Messages
    BY <1>1, <1>2 DEF Message, Messages, Methods
  <2>2. WellSent(m) /\ m.view = Effect(m, view)
    BY DEF Message, WellSent, Effect, Notifications, Unknown
  <2> QED
    BY <1>5, <2>1, <2>2, SendKeeps DEF SendNotification
<1>6. ASSUME NEW uri \in Uris, NEW text \in Texts, SendDidOpen(uri, text)
      PROVE  IndInv'
  <2> DEFINE m == Message("ok", "textDocument/didOpen", NONE, "ok", uri, <<text>>, Becomes(uri, text))
  <2>1. m \in Messages
    BY <1>1, <1>3 DEF Message, Messages, Methods, Synchronisation
  <2>2. WellSent(m) /\ m.view = Effect(m, view)
    BY DEF Message, WellSent, Bound, Effect, Becomes
  <2> QED
    BY <1>6, <2>1, <2>2, SendKeeps DEF SendDidOpen
<1>7. ASSUME NEW uri \in Uris, NEW texts \in ChangeLists, SendDidChange(uri, texts)
      PROVE  IndInv'
  <2> DEFINE after == IF texts = << >> THEN view ELSE Becomes(uri, texts[Len(texts)])
             m == Message("ok", "textDocument/didChange", NONE, "ok", uri, texts, after)
  <2>1. PICK n \in 0..MaxChanges : texts \in [1..n -> Texts]
    BY DEF ChangeLists
  <2>2. n = 0 \/ n = 1
    BY MaxChangesAssumption
  <2>3. texts \in Seq(Texts) /\ Len(texts) = n
    BY <2>1, <2>2
  <2>4. after \in Views
    BY <1>1, <1>3, <2>2, <2>3
  <2>5. m \in Messages
    BY <1>1, <2>3, <2>4 DEF Message, Messages, Methods, Synchronisation
  <2>6. WellSent(m) /\ m.view = Effect(m, view)
    <3>1. CASE n = 0
      <4>1. texts = << >>
        BY <2>1, <3>1
      <4> QED
        BY <4>1 DEF Message, WellSent, Effect
    <3>2. CASE n = 1
      <4>1. Len(texts) = 1
        BY <2>3, <3>2
      <4>2. texts # << >>
        BY <4>1
      <4> QED
        BY <4>1, <4>2 DEF Message, WellSent, Bound, Effect, Becomes
    <3> QED
      BY <2>2, <3>1, <3>2
  <2> QED
    BY <1>7, <2>5, <2>6, SendKeeps DEF SendDidChange
<1>8. ASSUME NEW uri \in Uris, SendDidClose(uri)
      PROVE  IndInv'
  <2> DEFINE m == Message("ok", "textDocument/didClose", NONE, "ok", uri, << >>, view)
  <2>1. m \in Messages
    BY <1>1, <1>2 DEF Message, Messages, Methods, Synchronisation
  <2>2. WellSent(m) /\ m.view = Effect(m, view)
    BY DEF Message, WellSent, Effect
  <2> QED
    BY <1>8, <2>1, <2>2, SendKeeps DEF SendDidClose
<1>9. ASSUME NEW m \in Malformed, Send(m)
      PROVE  IndInv'
  <2>a. NONE # "textDocument/didOpen"
    BY NoMethodAssumption DEF Methods, Synchronisation
  <2>0. PICK frame \in {"ok", "noLength", "notJson"}, params \in {"ok", "unbindable"},
             method \in {NONE, "textDocument/hover", "textDocument/didOpen", Unknown},
             id \in {NONE, BadId, FreshId} :
          /\ m = Message(frame, method, id, params, AnyUri, << >>, view)
          /\ method = "textDocument/didOpen" => params = "unbindable"
    BY <2>a DEF Malformed, Unknown
  <2>1. m \in Messages
    <3>1. method \in Methods \cup {NONE}
      BY DEF Methods, WithId, Queries, Synchronisation
    <3> QED
      BY <1>1, <1>2, <2>0, <3>1 DEF Message, Messages
  <2>2. WellSent(m) /\ m.view = Effect(m, view)
    BY <2>0 DEF Message, WellSent, Bound, Effect
  <2> QED
    BY <1>9, <2>1, <2>2, SendKeeps
<1>10. CASE Leave
  BY <1>10 DEF Leave, IndInv, TypeOK, PipeIsCoherent, ViewAt, ResponsesInOrder,
     OnlyRequestsAnswered, NoRequestDropped, DocumentsFollowEditor, AnswersSeeTheirTexts
<1> QED
  BY <1>1, <1>4, <1>5, <1>6, <1>7, <1>8, <1>9, <1>10 DEF Client

-----------------------------------------------------------------------------
(* The server's steps.                                                     *)

\* A step that changes no more than the state of the server keeps the invariant.
LEMMA LastStatesKeep ==
  ASSUME IndInv, server' \in {"running", "stopped", "crashed"},
         server = "running" \/ handled = 0,
         UNCHANGED <<client, input, handled, output, documents, disk, view>>
  PROVE  IndInv'
<1>1. TypeOK' /\ PipeIsCoherent' /\ ResponsesInOrder' /\ OnlyRequestsAnswered'
  BY DEF IndInv, TypeOK, PipeIsCoherent, ViewAt, ResponsesInOrder, OnlyRequestsAnswered
<1>2. NoRequestDropped'
  BY DEF IndInv, TypeOK, NoRequestDropped
<1>3. DocumentsFollowEditor' /\ AnswersSeeTheirTexts'
  BY DEF IndInv, ViewAt, DocumentsFollowEditor, AnswersSeeTheirTexts
<1> QED
  BY <1>1, <1>2, <1>3 DEF IndInv

\* A turn of the loop: the handler of the next message runs to its end.
LEMMA TurnKeeps ==
  ASSUME IndInv, NEW m, Take(m), Handle(m)
  PROVE  IndInv'
<1> DEFINE n == handled + 1
<1>1. /\ server = "running" /\ handled < Len(input) /\ m = input[n] /\ handled' = n
      /\ UNCHANGED <<client, input, disk, view>>
  BY DEF Take
<1>2. /\ input \in Seq(Messages) /\ handled \in 0..Len(input) /\ n \in 1..Len(input)
      /\ DOMAIN input = 1..Len(input)
      /\ documents \in [DOMAIN disk -> Texts] /\ DOMAIN disk \in SUBSET Uris
      /\ output \in Seq(Responses)
  BY <1>1 DEF IndInv, TypeOK, Views
<1>3. m \in Messages /\ WellSent(m) /\ m.view = Effect(m, ViewAt(handled))
  <2>1. n - 1 = handled
    BY <1>2
  <2> QED
    BY <1>1, <1>2, <2>1 DEF IndInv, PipeIsCoherent
<1>4. documents = ViewAt(handled)
  BY DEF IndInv, DocumentsFollowEditor
<1>5. documents' = Effect(m, documents)
  BY <1>3, HandleEffect
<1>6. \A k : ViewAt(k)' = ViewAt(k)
  BY <1>1 DEF ViewAt
<1>7. ViewAt(n) = documents'
  BY <1>1, <1>2, <1>3, <1>4, <1>5 DEF ViewAt
<1>8. DocumentsFollowEditor'
  <2>1. ViewAt(handled)' = ViewAt(n)
    BY <1>1 DEF ViewAt
  <2> QED
    BY <1>7, <2>1 DEF DocumentsFollowEditor
<1>9. PipeIsCoherent'
  BY <1>1, <1>6 DEF IndInv, PipeIsCoherent, ViewAt
<1>10. /\ server' \in {"starting", "running", "stopped", "crashed"}
       /\ documents' \in [DOMAIN disk -> Texts]
       /\ handled' \in 0..Len(input)
  <2>1. Effect(m, documents) \in [DOMAIN disk -> Texts]
    BY <1>2, <1>3, EffectType
  <2> QED
    BY <1>1, <1>2, <1>5, <2>1, HandleServer
<1>11. CASE output' = output /\ (server' # "crashed" => ~IsRequest(m))
  <2>1. TypeOK'
    BY <1>1, <1>10, <1>11 DEF IndInv, TypeOK
  <2>2. ResponsesInOrder' /\ OnlyRequestsAnswered'
    BY <1>1, <1>2, <1>11 DEF IndInv, ResponsesInOrder, OnlyRequestsAnswered
  <2>3. NoRequestDropped'
    <3>1. ASSUME NEW k \in 1..handled', IsRequest(input[k])
          PROVE  \/ \E i \in DOMAIN output : output[i].to = k
                 \/ server' = "crashed" /\ k = n
      BY <1>1, <1>2, <1>11, <3>1 DEF IndInv, NoRequestDropped
    <3> QED
      BY <1>1, <1>11, <3>1 DEF NoRequestDropped
  <2>4. AnswersSeeTheirTexts'
    BY <1>6, <1>11 DEF IndInv, AnswersSeeTheirTexts
  <2> QED
    BY <1>8, <1>9, <2>1, <2>2, <2>3, <2>4 DEF IndInv
<1>12. ASSUME IsRequest(m), NEW kind \in {"result", "error"},
              kind = "error" <=> m.method = Unknown,
              output' = Append(output, Response(m, kind))
       PROVE  IndInv'
  <2> DEFINE r == Response(m, kind)
  <2>1. r \in Responses /\ r.to = n /\ r.id = m.id /\ r.kind = kind /\ r.seen = documents
    BY <1>2, <1>3 DEF Response, Responses, Messages, Views
  <2>2. /\ DOMAIN output' = DOMAIN output \cup {Len(output) + 1}
        /\ \A i \in DOMAIN output : output'[i] = output[i]
        /\ output'[Len(output) + 1] = r
        /\ output' \in Seq(Responses)
        /\ Len(output) \in Nat /\ DOMAIN output = 1..Len(output)
    BY <1>2, <1>12, <2>1
  <2> HIDE DEF r
  <2>3. TypeOK'
    BY <1>1, <1>10, <2>2 DEF IndInv, TypeOK
  <2>4. \A i \in DOMAIN output : output[i].to \in 1..handled
    BY DEF IndInv, ResponsesInOrder
  <2>5. ResponsesInOrder'
    <3>1. \A i \in DOMAIN output' : output'[i].to \in 1..handled'
      BY <1>1, <1>2, <2>1, <2>2, <2>4
    <3>2. \A i, j \in DOMAIN output' : i < j => output'[i].to < output'[j].to
      BY <1>1, <1>2, <2>1, <2>2, <2>4 DEF IndInv, ResponsesInOrder
    <3> QED
      BY <3>1, <3>2 DEF ResponsesInOrder
  <2>6. OnlyRequestsAnswered'
    BY <1>1, <1>12, <2>1, <2>2 DEF IndInv, OnlyRequestsAnswered
  <2>7. NoRequestDropped'
    <3>1. ASSUME NEW k \in 1..handled', IsRequest(input[k])
          PROVE  \E i \in DOMAIN output' : output'[i].to = k
      BY <1>1, <1>2, <2>1, <2>2, <3>1 DEF IndInv, NoRequestDropped
    <3> QED
      BY <1>1, <3>1 DEF NoRequestDropped
  <2>8. documents = ViewAt(n)
    <3>1. Effect(m, documents) = documents
      BY <1>12 DEF Effect, IsRequest, WithId, Queries, Unknown
    <3> QED
      BY <1>5, <1>7, <3>1
  <2>9. AnswersSeeTheirTexts'
    BY <1>6, <2>1, <2>2, <2>8 DEF IndInv, AnswersSeeTheirTexts
  <2> QED
    BY <1>8, <1>9, <2>3, <2>5, <2>6, <2>7, <2>9 DEF IndInv
<1> QED
  BY <1>3, <1>11, <1>12, HandleOutput

-----------------------------------------------------------------------------
(* What holds in every state.                                              *)

\* A server that has not started satisfies the invariant.
LEMMA InitEstablishes == Init => IndInv
<1> SUFFICES ASSUME Init PROVE IndInv
  OBVIOUS
<1>1. /\ server = "starting" /\ client = "open" /\ handled = 0
      /\ input = << >> /\ output = << >>
      /\ disk \in Views /\ documents = disk /\ view = disk
  BY DEF Init, Views
<1>2. disk \in [DOMAIN disk -> Texts]
  BY <1>1 DEF Views
<1>3. TypeOK
  BY <1>1, <1>2, MaxMessagesAssumption DEF TypeOK
<1>4. PipeIsCoherent /\ DocumentsFollowEditor
  BY <1>1 DEF PipeIsCoherent, DocumentsFollowEditor, ViewAt
<1>5. ResponsesInOrder /\ OnlyRequestsAnswered /\ NoRequestDropped /\ AnswersSeeTheirTexts
  BY <1>1 DEF ResponsesInOrder, OnlyRequestsAnswered, NoRequestDropped, AnswersSeeTheirTexts
<1> QED
  BY <1>3, <1>4, <1>5 DEF IndInv

\* The server has taken nothing before it runs.
LEMMA NothingTakenYet == Spec => [](server = "starting" => handled = 0)
<1> DEFINE Untaken == server = "starting" => handled = 0
<1>1. Init => Untaken
  BY DEF Init
<1>2. Untaken /\ [Next]_vars => Untaken'
  <2> SUFFICES ASSUME Untaken, [Next]_vars PROVE Untaken'
    OBVIOUS
  <2>1. CASE Client
    BY <2>1 DEF Client, SendRequest, SendNotification, SendDidOpen, SendDidChange,
       SendDidClose, Send, Leave
  <2>2. CASE Start \/ EndOfInput
    BY <2>2 DEF Start, EndOfInput
  <2>3. ASSUME NEW m, Take(m), Handle(m) PROVE Untaken'
    BY <2>3, HandleServer DEF Take
  <2>4. CASE UNCHANGED vars
    BY <2>4 DEF vars
  <2> QED
    BY <2>1, <2>2, <2>3, <2>4 DEF Next, Server, Ended
<1> QED
  BY <1>1, <1>2, PTL DEF Spec

\* Every step keeps the invariant.
LEMMA StepKeeps ==
  ASSUME MaxChanges <= 1
  PROVE  IndInv /\ (server = "starting" => handled = 0) /\ [Next]_vars => IndInv'
<1> SUFFICES ASSUME IndInv, server = "starting" => handled = 0, [Next]_vars PROVE IndInv'
  OBVIOUS
<1>1. CASE Client
  BY <1>1, ClientKeeps
<1>2. CASE Start
  BY <1>2, LastStatesKeep DEF Start
<1>3. CASE EndOfInput
  BY <1>3, LastStatesKeep DEF EndOfInput
<1>4. ASSUME NEW m, Take(m), Handle(m) PROVE IndInv'
  BY <1>4, TurnKeeps
<1>5. CASE UNCHANGED vars
  BY <1>5 DEF vars, IndInv, TypeOK, PipeIsCoherent, ViewAt, ResponsesInOrder,
     OnlyRequestsAnswered, NoRequestDropped, DocumentsFollowEditor, AnswersSeeTheirTexts
<1> QED
  BY <1>1, <1>2, <1>3, <1>4, <1>5 DEF Next, Server, Ended

\* The invariant holds throughout.
LEMMA IndInvHolds ==
  ASSUME MaxChanges <= 1
  PROVE  Spec => []IndInv
BY InitEstablishes, StepKeeps, NothingTakenYet, PTL DEF Spec

\* The loop, the pipes and the documents stay what they are declared to be: the
\* set of documents in the index is the one of the start.
THEOREM TypeCorrectness ==
  ASSUME MaxChanges <= 1
  PROVE  Spec => []TypeOK
<1>1. IndInv => TypeOK
  BY DEF IndInv
<1> QED
  BY <1>1, IndInvHolds, PTL

\* Every request the server can read is answered once at the most, in the order
\* of the requests, and never before it has been taken.
THEOREM AnswersInOrder ==
  ASSUME MaxChanges <= 1
  PROVE  Spec => []ResponsesInOrder
<1>1. IndInv => ResponsesInOrder
  BY DEF IndInv
<1> QED
  BY <1>1, IndInvHolds, PTL

\* An answer carries the id of the request it is for; notifications, malformed
\* messages and requests without a usable id are never answered.
THEOREM RequestsOnly ==
  ASSUME MaxChanges <= 1
  PROVE  Spec => []OnlyRequestsAnswered
<1>1. IndInv => OnlyRequestsAnswered
  BY DEF IndInv
<1> QED
  BY <1>1, IndInvHolds, PTL

\* No request is left behind, whatever else is in the pipe and whether or not
\* the editor is still there; the one that may be is the one the server dies of.
THEOREM NothingLeftBehind ==
  ASSUME MaxChanges <= 1
  PROVE  Spec => []NoRequestDropped
<1>1. IndInv => NoRequestDropped
  BY DEF IndInv
<1> QED
  BY <1>1, IndInvHolds, PTL

\* A turn of the loop that ends in an exception was a query about a document the
\* index does not have.
LEMMA HandleCrash ==
  ASSUME NEW m, server = "running", Handle(m), server' = "crashed"
  PROVE  IsRequest(m) /\ m.method \in Queries /\ m.uri \notin DOMAIN documents
<1>1. CASE StopAtBadHeader(m) \/ SkipMalformed(m) \/ BadRequest(m) \/ UnbindableParams(m)
  BY <1>1 DEF StopAtBadHeader, SkipMalformed, BadRequest, UnbindableParams, Silently
<1>2. CASE Initialize(m) \/ Shutdown(m) \/ Initialized(m) \/ Exit(m)
  BY <1>2 DEF Initialize, Shutdown, Initialized, Exit, Silently, Respond
<1>3. CASE DidOpen(m) \/ DidChange(m) \/ DidClose(m)
  BY <1>3 DEF DidOpen, DidChange, DidClose, Reparsed, Silently
<1>4. CASE Query(m)
  BY <1>4 DEF Query, FindFile, Respond, IsRequest, WithId
<1>5. CASE UnknownMethod(m)
  BY <1>5 DEF UnknownMethod, Silently, Respond
<1> QED
  BY <1>1, <1>2, <1>3, <1>4, <1>5 DEF Handle

CrashInv == server = "crashed" => handled \in DOMAIN input /\ CrashCauses

\* Only this cause leads to a crash.
LEMMA CrashKeeps == IndInv /\ IndInv' /\ CrashInv /\ [Next]_vars => CrashInv'
<1> SUFFICES ASSUME IndInv, IndInv', CrashInv, [Next]_vars PROVE CrashInv'
  OBVIOUS
<1>1. /\ input \in Seq(Messages) /\ input' \in Seq(Messages)
      /\ handled \in 0..Len(input) /\ handled' \in 0..Len(input')
  BY DEF IndInv, TypeOK
<1>2. ASSUME NEW m, Send(m) PROVE CrashInv'
  <2>1. /\ input' = Append(input, m)
        /\ server' = server /\ handled' = handled /\ documents' = documents
    BY <1>2 DEF Send
  <2>2. \A k \in DOMAIN input : k \in DOMAIN input' /\ input'[k] = input[k]
    BY <1>1, <2>1
  <2> QED
    BY <2>1, <2>2 DEF CrashInv, CrashCauses
<1>3. CASE Leave
  BY <1>3 DEF Leave, CrashInv, CrashCauses
<1>4. CASE Start \/ EndOfInput
  BY <1>4 DEF Start, EndOfInput, CrashInv
<1>5. ASSUME NEW m, Take(m), Handle(m) PROVE CrashInv'
  <2>1. /\ server = "running" /\ m = input[handled + 1]
        /\ handled' = handled + 1 /\ handled' \in DOMAIN input
        /\ input' = input
    BY <1>1, <1>5 DEF Take
  <2>2. DOMAIN documents' = DOMAIN documents
    BY <1>5 DEF IndInv, TypeOK, Take
  <2> QED
    BY <1>5, <2>1, <2>2, HandleCrash DEF CrashInv, CrashCauses
<1>6. CASE UNCHANGED vars
  BY <1>6 DEF vars, CrashInv, CrashCauses
<1> QED
  BY <1>2, <1>3, <1>4, <1>5, <1>6 DEF Next, Server, Ended, Client, SendRequest,
     SendNotification, SendDidOpen, SendDidChange, SendDidClose

\* Nothing an editor writes, in whatever order, ends the server with an exception
\* but a query about a document that is not in the index, and an editor that goes
\* away with messages unhandled and answers unread does not either.
THEOREM CrashesAreKnown ==
  ASSUME MaxChanges <= 1
  PROVE  Spec => []CrashCauses
<1>1. Init => CrashInv
  BY DEF Init, CrashInv
<1>2. CrashInv => CrashCauses
  BY DEF CrashInv, CrashCauses
<1> QED
  BY <1>1, <1>2, CrashKeeps, IndInvHolds, PTL DEF Spec

\* With full synchronisation, one change in a didChange, the index has the texts
\* of the editor: those it had when it sent the last message that was taken.
THEOREM IndexFollowsEditor ==
  ASSUME MaxChanges <= 1
  PROVE  Spec => []DocumentsFollowEditor
<1>1. IndInv => DocumentsFollowEditor
  BY DEF IndInv
<1> QED
  BY <1>1, IndInvHolds, PTL

\* Every answer is computed on the texts the editor had when it asked, whatever
\* it has sent since.
THEOREM AnswersOnTheirTexts ==
  ASSUME MaxChanges <= 1
  PROVE  Spec => []AnswersSeeTheirTexts
<1>1. IndInv => AnswersSeeTheirTexts
  BY DEF IndInv
<1> QED
  BY <1>1, IndInvHolds, PTL
=============================================================================
