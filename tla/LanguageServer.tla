-------------------------- MODULE LanguageServer ---------------------------
(***************************************************************************)
(* The whole program: the protocol loop of LspServer over the index of     *)
(* Workspace, started by Main.  The editor writes while the index is being *)
(* built; a didOpen or didChange the loop takes parses the file again and  *)
(* resolves the project before the next message is taken.                  *)
(*                                                                         *)
(* A document is named by the number of its file; 0 is a document that is  *)
(* not among the files the server has scanned.                             *)
(*                                                                         *)
(* Init, Next, Spec and vars are those of Workspace; the whole program has *)
(* MainInit, MainNext, MainSpec and mainVars.                              *)
(***************************************************************************)
EXTENDS Workspace

CONSTANT BadId  \* an id that is neither an integer nor a string

\* null, of the protocol too, is no id and no method
ASSUME ProtocolAssumption ==
    /\ BadId # NONE /\ BadId \notin Nat /\ NONE \notin Nat
    /\ NONE \notin {"textDocument/hover", "textDocument/definition", "textDocument/references",
                    "textDocument/completion", "initialize", "shutdown", "initialized", "exit",
                    "textDocument/didOpen", "textDocument/didChange", "textDocument/didClose",
                    "workspace/symbol"}

VARIABLES
    server, client, input, handled, output, disk, view  \* LspServer

\* the documents the index knows: those it will have, until it is built
documents == [f \in IF phase = "serving" THEN files ELSE ToParse |-> text[f]]

\* A message makes the index parse one file at the most: the bound on the
\* reparses is the bound on the messages.
S == INSTANCE LspServer WITH Uris <- 0..NumFiles, MaxChanges <- 1, MaxMessages <- MaxReparses

serverVars == <<server, client, input, handled, output, disk, view>>
mainVars == <<phase, unread, text, parsed, files, symbols, clock, definition, type,
              server, client, input, handled, output, disk, view>>

MainInit == Init /\ S!Init

-----------------------------------------------------------------------------
\* The messages that reach the index; what the loop does with the others is in
\* LspServer.
Editor ==
    /\ UNCHANGED vars
    /\ \/ \E uri \in 0..NumFiles : S!SendRequest("textDocument/definition", uri)
       \/ \E uri \in 0..NumFiles, content \in Texts : S!SendDidOpen(uri, content)
       \/ \E uri \in 0..NumFiles, content \in Texts : S!SendDidChange(uri, <<content>>)
       \/ S!Leave

\* Workspace.index, until the stream of parsed files has ended
Indexing ==
    /\ server = "starting"
    /\ ReadFile \/ \E file \in Files : ParseFile(file)
    /\ UNCHANGED serverVars

\* Main goes on to LspServer.run when index returns, and exits if it throws.
Indexed == Collect /\ S!Start /\ server' = "running"
IndexingFailed == ScanFails /\ S!Start /\ server' = "stopped"

Reparses(m) ==
    /\ S!Bound(m) /\ m.method \in {"textDocument/didOpen", "textDocument/didChange"}
    /\ m.texts # << >> /\ S!FindFile(m.uri)

\* Mutant: the file is given its new content and not parsed again.
OnlyReplaces(m) ==
    IF Reparses(m)
    THEN /\ text' = [text EXCEPT ![m.uri] = m.texts[1]]
         /\ UNCHANGED <<phase, unread, parsed, files, symbols, clock, definition, type>>
    ELSE UNCHANGED vars

IndexStep(m) ==
    IF Reparses(m) THEN Reparse(m.uri, m.texts[1]) ELSE UNCHANGED vars

HandleMessage ==
    \E m \in {input[i] : i \in DOMAIN input} :
      /\ server = "running"
      /\ handled < Len(input) /\ m = input[handled + 1]
      /\ IndexStep(m)
      /\ S!Take(m) /\ S!Handle(m)

EndOfInput == UNCHANGED vars /\ S!EndOfInput

Ended == server \in {"stopped", "crashed"} /\ UNCHANGED mainVars

MainNext ==
    \/ Editor
    \/ Indexing
    \/ Indexed
    \/ IndexingFailed
    \/ HandleMessage
    \/ EndOfInput
    \/ Ended

MainSpec == MainInit /\ [][MainNext]_mainVars

-----------------------------------------------------------------------------
\* Whatever the loop is made to do by the messages it takes, the index goes
\* through the steps of Workspace only.  (That the loop goes through the steps
\* of LspServer is a theorem in LanguageServerProofs; that the two never wait
\* for each other is what the absence of deadlocks shows.)
IndexIsWorkspace == Spec

\* no two files of the contents declare the same name
Distinct(contents) ==
    \A f, g \in DOMAIN contents :
      f = g \/ Exported(FreshBlock(contents, f)) \cap Exported(FreshBlock(contents, g)) = {}

LinksIn(links, uri) == {link \in links : link[1][1] = uri}

\* The answer to a definition request, for any place of the document, leads to
\* where a server would lead that was started on the texts the editor had when
\* it sent the request: earlier edits of this and of all other files are in the
\* answer, later ones are not, although they may have been written before the
\* server came to the request.
AnswersAreFresh ==
    [][\A i \in DOMAIN output' \ DOMAIN output :
         LET m == input[output'[i].to]
         IN  Distinct(m.view) =>
               LinksIn(Links(definition), m.uri) =
               LinksIn(Links(FreshDefinitions(m.view)), m.uri)]_mainVars
=============================================================================
