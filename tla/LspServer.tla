----------------------------- MODULE LspServer -----------------------------
(***************************************************************************)
(* The protocol loop of the language server, LspServer.java, with the      *)
(* handlers it calls and the editor at the other end of the pipes.         *)
(*                                                                         *)
(* The server is one thread: it takes a message from its standard input,   *)
(* handles it to the end, writes the response if there is one and takes    *)
(* the next message.  The editor writes messages at any time, also while   *)
(* the server is still indexing, and goes away at any time.  What the      *)
(* handlers compute is in the modules about the index; here a document is  *)
(* the text the index has of it, and an answer says which texts it saw.    *)
(***************************************************************************)
EXTENDS Naturals, Sequences

CONSTANTS
    NONE,         \* Java's null; a missing field
    Uris,         \* the documents the editor speaks of, indexed or not
    Texts,        \* their contents
    BadId,        \* an id that is neither an integer nor a string
    MaxMessages,  \* bound on the number of messages the editor writes
    MaxChanges    \* bound on the changes in one didChange; 1 is what full
                  \* synchronisation needs

ASSUME UrisAssumption == Uris # {}
ASSUME MaxMessagesAssumption == MaxMessages \in Nat
ASSUME MaxChangesAssumption == MaxChanges \in Nat
ASSUME IdAssumption == BadId # NONE /\ BadId \notin Nat /\ NONE \notin Nat

VARIABLES
    server,      \* "starting", "running", "stopped" or "crashed"
    client,      \* "open", or "gone" with both its ends of the pipes
    input,       \* all the messages written to the server, in order
    handled,     \* how many of them the server has taken
    output,      \* all the responses the server has written, in order; what
                 \* it writes when the editor has gone nobody reads
    documents,   \* the text the index has of each document it knows
    disk,        \* these texts when the server was started
    view         \* the text each of these documents has for the editor

vars == <<server, client, input, handled, output, documents, disk, view>>

Queries == {"textDocument/hover", "textDocument/definition",
            "textDocument/references", "textDocument/completion"}
WithId == Queries \cup {"initialize", "shutdown"}
Notifications == {"initialized", "exit"}
Synchronisation == {"textDocument/didOpen", "textDocument/didChange", "textDocument/didClose"}
Unknown == "workspace/symbol"
Methods == WithId \cup Notifications \cup Synchronisation \cup {Unknown}

ASSUME NoMethodAssumption == NONE \notin Methods

\* A framed message.  `frame` is "ok", or "noLength" if its header has no
\* positive Content-Length, or "notJson"; `method` is NONE if it is missing or
\* no string; `view` is the editor's view of the documents once it has sent it.
Message(frame, method, id, params, uri, texts, seen) ==
    [frame |-> frame, method |-> method, id |-> id, params |-> params,
     uri |-> uri, texts |-> texts, view |-> seen]

FindFile(uri) == uri \in DOMAIN documents

Init ==
    /\ server = "starting" /\ client = "open"
    /\ input = << >> /\ handled = 0 /\ output = << >>
    /\ disk \in UNION {[indexed -> Texts] : indexed \in SUBSET Uris}
    /\ documents = disk /\ view = disk

-----------------------------------------------------------------------------
(* The editor.                                                             *)

Send(m) ==
    /\ client = "open" /\ Len(input) < MaxMessages
    /\ input' = Append(input, m)
    /\ view' = m.view
    /\ UNCHANGED <<server, client, handled, output, documents, disk>>

FreshId == Len(input) + 1
AnyUri == CHOOSE uri \in Uris : TRUE

\* the editor's view when the document becomes text; documents that are not in
\* the index are left out of the views
Becomes(uri, text) == IF uri \in DOMAIN view THEN [view EXCEPT ![uri] = text] ELSE view

SendRequest(method, uri) == Send(Message("ok", method, FreshId, "ok", uri, << >>, view))

SendNotification(method) == Send(Message("ok", method, NONE, "ok", AnyUri, << >>, view))

SendDidOpen(uri, text) ==
    Send(Message("ok", "textDocument/didOpen", NONE, "ok", uri, <<text>>, Becomes(uri, text)))

\* each change is the whole text at some moment: the document ends as the last
SendDidChange(uri, texts) ==
    Send(Message("ok", "textDocument/didChange", NONE, "ok", uri, texts,
                 IF texts = << >> THEN view ELSE Becomes(uri, texts[Len(texts)])))

SendDidClose(uri) == Send(Message("ok", "textDocument/didClose", NONE, "ok", uri, << >>, view))

\* what a broken or a newer editor may send
Malformed == {
    Message("noLength", NONE, NONE, "ok", AnyUri, << >>, view),
    Message("notJson", NONE, NONE, "ok", AnyUri, << >>, view),
    Message("ok", NONE, FreshId, "ok", AnyUri, << >>, view),
    Message("ok", "textDocument/hover", NONE, "ok", AnyUri, << >>, view),
    Message("ok", "textDocument/hover", BadId, "ok", AnyUri, << >>, view),
    Message("ok", "textDocument/hover", FreshId, "unbindable", AnyUri, << >>, view),
    Message("ok", "textDocument/didOpen", NONE, "unbindable", AnyUri, << >>, view),
    Message("ok", Unknown, BadId, "ok", AnyUri, << >>, view) }

Leave ==
    /\ client = "open"
    /\ client' = "gone"
    /\ UNCHANGED <<server, input, handled, output, documents, disk, view>>

ChangeLists == UNION {[1..n -> Texts] : n \in 0..MaxChanges}

Client ==
    \/ \E method \in Queries, uri \in Uris : SendRequest(method, uri)
    \/ \E method \in {"initialize", "shutdown", Unknown} : SendRequest(method, AnyUri)
    \/ \E method \in Notifications \cup {Unknown} : SendNotification(method)
    \/ \E uri \in Uris, text \in Texts : SendDidOpen(uri, text)
    \/ \E uri \in Uris, texts \in ChangeLists : SendDidChange(uri, texts)
    \/ \E uri \in Uris : SendDidClose(uri)
    \/ \E m \in Malformed : Send(m)
    \/ Leave

-----------------------------------------------------------------------------
(* The server.                                                             *)

\* Main: the index is built, or the scan fails and the program exits
Start ==
    /\ server = "starting"
    /\ server' \in {"running", "stopped"}
    /\ UNCHANGED <<client, input, handled, output, documents, disk, view>>

\* Mutant: the end of the input is taken for an empty header.
EndOfInputLoops ==
    /\ server = "running" /\ handled = Len(input) /\ client = "gone"
    /\ UNCHANGED vars

\* readMessage at the end of the input, also when that is inside a message
EndOfInput ==
    /\ server = "running" /\ handled = Len(input) /\ client = "gone"
    /\ server' = "stopped"
    /\ UNCHANGED <<client, input, handled, output, documents, disk, view>>

\* One turn of the loop of run, for the message m.
Take(m) ==
    /\ server = "running" /\ handled < Len(input)
    /\ m = input[handled + 1]
    /\ handled' = handled + 1
    /\ UNCHANGED <<client, input, disk, view>>

Silently == UNCHANGED <<server, output, documents>>

\* Mutant: respond falls through to respondMethodNotFound.
RespondTwice(m, kind) ==
    /\ UNCHANGED <<server, documents>>
    /\ LET response == [to |-> handled + 1, id |-> m.id, kind |-> kind, seen |-> documents]
       IN  output' = output \o <<response, response>>

\* respond and respondMethodNotFound.  The stream is System.out, a PrintStream,
\* which keeps an IOException to itself: when the editor has gone the answer is
\* lost without a word and the loop goes on.  The fields `to`, the number of
\* the message that is answered, and `seen` are not written.
Respond(m, kind) ==
    /\ output' = Append(output, [to |-> handled + 1, id |-> m.id,
                                 kind |-> kind, seen |-> documents])
    /\ UNCHANGED <<server, documents>>

\* The header of the message has no Content-Length, or one that is no positive
\* integer: readMessage returns null, as at the end of the input.
StopAtBadHeader(m) ==
    /\ m.frame = "noLength"
    /\ server' = "stopped"
    /\ UNCHANGED <<output, documents>>

SkipMalformed(m) == m.frame = "notJson" /\ Silently

HasId(m) == m.id \notin {NONE, BadId}

\* Mutant: the IllegalArgumentException is not caught.
BadRequestThrown(m) ==
    /\ m.frame = "ok"
    /\ m.method = NONE \/ (m.method \in WithId /\ ~HasId(m))
    /\ server' = "crashed"
    /\ UNCHANGED <<output, documents>>

\* getRequestMethodOrThrow and getRequestIdOrThrow: an IllegalArgumentException
\* is caught and logged in run
BadRequest(m) ==
    /\ m.frame = "ok"
    /\ m.method = NONE \/ (m.method \in WithId /\ ~HasId(m))
    /\ Silently

\* A JacksonException of bind is caught and logged in dispatch; the id of a
\* query has been looked at before.
UnbindableParams(m) ==
    /\ m.frame = "ok" /\ m.params = "unbindable"
    /\ m.method \in Synchronisation \/ (m.method \in Queries /\ HasId(m))
    /\ Silently

Bound(m) == m.frame = "ok" /\ m.params = "ok"

Initialize(m) == Bound(m) /\ m.method = "initialize" /\ HasId(m) /\ Respond(m, "result")

\* the answer to shutdown is null, and the server goes on serving
Shutdown(m) == Bound(m) /\ m.method = "shutdown" /\ HasId(m) /\ Respond(m, "result")

Initialized(m) == Bound(m) /\ m.method = "initialized" /\ Silently

Exit(m) ==
    /\ Bound(m) /\ m.method = "exit"
    /\ server' = "stopped"
    /\ UNCHANGED <<output, documents>>

\* app.reparse, as far as the documents show it
Reparsed(uri, text) ==
    /\ documents' = [documents EXCEPT ![uri] = text]
    /\ UNCHANGED <<server, output>>

\* Mutants: a document the index does not know is added; didOpen is only logged.
DidOpenAdds(m) ==
    /\ Bound(m) /\ m.method = "textDocument/didOpen"
    /\ documents' = [uri \in DOMAIN documents \cup {m.uri} |->
                       IF uri = m.uri THEN m.texts[1] ELSE documents[uri]]
    /\ UNCHANGED <<server, output>>

DidOpenLogged(m) == Bound(m) /\ m.method = "textDocument/didOpen" /\ Silently

\* a document that is not in the index is skipped
DidOpen(m) ==
    /\ Bound(m) /\ m.method = "textDocument/didOpen"
    /\ IF FindFile(m.uri) THEN Reparsed(m.uri, m.texts[1]) ELSE Silently

\* contentChanges.get(0)
DidChange(m) ==
    /\ Bound(m) /\ m.method = "textDocument/didChange"
    /\ IF m.texts # << >> /\ FindFile(m.uri) THEN Reparsed(m.uri, m.texts[1]) ELSE Silently

DidClose(m) == Bound(m) /\ m.method = "textDocument/didClose" /\ Silently

\* hover, definition, references, completion: findFileOrThrow throws an
\* AppException, which nothing catches
Query(m) ==
    /\ Bound(m) /\ m.method \in Queries /\ HasId(m)
    /\ IF FindFile(m.uri) THEN Respond(m, "result")
       ELSE server' = "crashed" /\ UNCHANGED <<output, documents>>

\* Mutants: unknown notifications get an error too; unknown requests get none.
UnknownAlwaysAnswered(m) == Bound(m) /\ m.method = Unknown /\ Respond(m, "error")

UnknownIgnored(m) == Bound(m) /\ m.method = Unknown /\ Silently

\* an unknown notification is ignored, an unknown request gets an error, with
\* the id it came with whatever that is
UnknownMethod(m) ==
    /\ Bound(m) /\ m.method = Unknown
    /\ IF m.id = NONE THEN Silently ELSE Respond(m, "error")

Handle(m) ==
    \/ StopAtBadHeader(m)
    \/ SkipMalformed(m)
    \/ BadRequest(m)
    \/ UnbindableParams(m)
    \/ Initialize(m)
    \/ Shutdown(m)
    \/ Initialized(m)
    \/ Exit(m)
    \/ DidOpen(m)
    \/ DidChange(m)
    \/ DidClose(m)
    \/ Query(m)
    \/ UnknownMethod(m)

Server ==
    \/ Start
    \/ EndOfInput
    \/ \E m \in {input[i] : i \in DOMAIN input} : Take(m) /\ Handle(m)

Ended == server \in {"stopped", "crashed"} /\ UNCHANGED vars

Next == Client \/ Server \/ Ended

Spec == Init /\ [][Next]_vars

\* The one thread of the server runs while it has something to do: nothing in
\* the loop waits for anything but the next message.
LiveSpec == Spec /\ WF_vars(Server)

-----------------------------------------------------------------------------
Views == UNION {[indexed -> Texts] : indexed \in SUBSET Uris}
Ids == Nat \cup {NONE, BadId}
Messages == [frame : {"ok", "noLength", "notJson"}, method : Methods \cup {NONE}, id : Ids,
             params : {"ok", "unbindable"}, uri : Uris, texts : Seq(Texts), view : Views]
Responses == [to : Nat, id : Ids, kind : {"result", "error"}, seen : Views]

\* Type correctness: the loop, the pipes and the documents of the index.
TypeOK ==
    /\ server \in {"starting", "running", "stopped", "crashed"}
    /\ client \in {"open", "gone"}
    /\ input \in Seq(Messages) /\ Len(input) <= MaxMessages
    /\ handled \in 0..Len(input)
    /\ output \in Seq(Responses)
    /\ disk \in Views
    /\ documents \in [DOMAIN disk -> Texts]
    /\ view \in [DOMAIN disk -> Texts]

\* What the protocol wants an answer to: a request the server can read.
IsRequest(m) ==
    /\ Bound(m)
    /\ \/ m.method \in WithId /\ HasId(m)
       \/ m.method = Unknown /\ m.id # NONE

\* Responses come in the order of the requests, one for each at the most, and
\* none comes before its request is taken.
ResponsesInOrder ==
    /\ \A i \in DOMAIN output : output[i].to \in 1..handled
    /\ \A i, j \in DOMAIN output : i < j => output[i].to < output[j].to

\* What is answered is a request, with its id, and an error says that the
\* method is not known; a notification is never answered.
OnlyRequestsAnswered ==
    \A i \in DOMAIN output :
      LET m == input[output[i].to]
      IN  /\ IsRequest(m)
          /\ output[i].id = m.id
          /\ output[i].kind = "error" <=> m.method = Unknown

\* Each request the server has taken has been answered, also when it has ended
\* since: no request is lost behind messages that were malformed, refused or
\* ignored.  The one exception is the request the server dies of.
NoRequestDropped ==
    \A k \in 1..handled :
      IsRequest(input[k]) =>
        \/ \E i \in DOMAIN output : output[i].to = k
        \/ server = "crashed" /\ k = handled

ViewAt(k) == IF k = 0 THEN disk ELSE input[k].view

\* The pipe keeps the order, so the texts in the index are the ones the editor
\* had when it sent the last message the server has taken.
DocumentsFollowEditor == documents = ViewAt(handled)

\* Whatever the editor does while its request waits, the request is answered
\* on the texts the editor had when it sent it.
AnswersSeeTheirTexts ==
    \A i \in DOMAIN output : output[i].seen = ViewAt(output[i].to)

\* The server dies in one case only, a query about a document that is not in
\* the index: neither a malformed message nor an editor that has gone with its
\* answers unread ends it.
CrashCauses ==
    server = "crashed" =>
      /\ IsRequest(input[handled]) /\ input[handled].method \in Queries
      /\ input[handled].uri \notin DOMAIN documents

\* didOpen and didChange skip a document that is not in the index and serve on
\* (DidOpenHandler.java:32, "not in index, skipping reparse"), so an editor may
\* open one; README.md:4 says the server serves hover, definition, references
\* and completion.  The server should not die of one.
ServerSurvives == server # "crashed"

\* The inductive invariant adds how the views in the pipe follow from each
\* other: each message that is a well-formed didOpen or didChange gives its
\* document a text, and no other message changes anything for the editor.
Effect(m, texts) ==
    IF /\ Bound(m) /\ m.method \in {"textDocument/didOpen", "textDocument/didChange"}
       /\ m.texts # << >> /\ m.uri \in DOMAIN texts
    THEN [texts EXCEPT ![m.uri] = m.texts[1]]
    ELSE texts

WellSent(m) == Bound(m) /\ m.method = "textDocument/didOpen" => m.texts # << >>

PipeIsCoherent ==
    /\ \A k \in DOMAIN input :
         WellSent(input[k]) /\ input[k].view = Effect(input[k], ViewAt(k - 1))
    /\ view = ViewAt(Len(input))

IndInv ==
    /\ TypeOK
    /\ PipeIsCoherent
    /\ ResponsesInOrder
    /\ OnlyRequestsAnswered
    /\ NoRequestDropped
    /\ DocumentsFollowEditor
    /\ AnswersSeeTheirTexts

\* A request that is sent is answered in the end, if the server gets to it.
RequestsAnswered ==
    \A k \in 1..MaxMessages :
      k \in DOMAIN input /\ IsRequest(input[k]) ~>
        \/ server \in {"stopped", "crashed"}
        \/ \E i \in DOMAIN output : output[i].to = k

\* The server does not outlive its editor: it works off what is still in the
\* pipe, for nobody, and ends at the end of it.
ServerEndsWithClient == client = "gone" ~> server \in {"stopped", "crashed"}
=============================================================================
