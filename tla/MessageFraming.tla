--------------------------- MODULE MessageFraming ---------------------------
(***************************************************************************)
(* How LspServer.java finds the messages in the bytes of its standard      *)
(* input: readMessage, readHeaderLine and parseContentLength.  The editor  *)
(* writes its messages in pieces and may go away inside one of them; the   *)
(* server reads what is there and waits for more.                          *)
(*                                                                         *)
(* The unit of the stream is a byte, but for the text `Content-Length: n`, *)
(* which is a unit too, in a header as in a body.  A stream that ends      *)
(* inside this text is one that ends inside a line.                        *)
(***************************************************************************)
EXTENDS Integers, SequencesExt

CONSTANTS
    Bodies,       \* the bodies of the messages the editor sends
    MaxInt,       \* the greatest int, 2^31 - 1 in Java
    MaxMessages   \* bound on the number of messages

Bytes == [kind : {"text", "cr", "lf", "length"}, n : Nat]

ASSUME MaxIntAssumption == MaxInt \in Nat
ASSUME BodiesAssumption ==
    \A body \in Bodies : body \in Seq(Bytes) /\ body # << >> /\ Len(body) <= MaxInt
ASSUME MaxMessagesAssumption == MaxMessages \in Nat

Byte(kind) == [kind |-> kind, n |-> 0]
Text == Byte("text")             \* a byte that is none of the others
CR == Byte("cr")
LF == Byte("lf")
ContentLength(n) == [kind |-> "length", n |-> n]

\* a body in the plainest of frames
Framed(body) == <<ContentLength(Len(body)), CR, LF, CR, LF>> \o body

\* The frames of editors may have more header fields and bare line feeds.
WellFramed(body) ==
    LET field == <<Text, CR, LF>>
    IN  {Framed(body), field \o Framed(body),
         <<ContentLength(Len(body)), CR, LF>> \o field \o <<CR, LF>> \o body,
         <<ContentLength(Len(body)), LF, LF>> \o body}

\* Headers that do not say how long the body is.
BadHeaders ==
    {<<CR, LF>>, <<Text, CR, LF, CR, LF>>, <<ContentLength(1), Text, CR, LF, CR, LF>>,
     <<ContentLength(0), CR, LF, CR, LF>>, <<ContentLength(MaxInt + 1), LF, LF>>}

\* A frame counts as a message from its last byte on, or, without a length, from
\* the last byte of its header on: its body is never looked at.
Unreadable == << >>
Frame(header, rest, content) == [bytes |-> header \o rest, due |-> Len(header), body |-> content]
Frames ==
    (UNION {{Frame(bytes, << >>, content) : bytes \in WellFramed(content)} : content \in Bodies})
    \cup {Frame(header, <<Text>>, Unreadable) : header \in BadHeaders}

VARIABLES
    frames,          \* the frames the editor has come to write, in order
    written,         \* how many bytes of the last one it has written
    open,            \* the editor has its end of the pipe
    unread,          \* the bytes in the pipe
    pc,              \* "header", "body" or "stopped": where readMessage is
    line,            \* the line of readHeaderLine
    contentLength,   \* the variable of readMessage
    body,            \* the bytes of readNBytes
    messages         \* what readMessage has returned

pipeVars == <<frames, written, open, unread>>
readVars == <<pc, line, contentLength, body, messages>>
vars == <<pipeVars, readVars>>

Init ==
    /\ frames = << >> /\ written = 0 /\ open = TRUE /\ unread = << >>
    /\ pc = "header" /\ line = << >> /\ contentLength = -1 /\ body = << >>
    /\ messages = << >>

-----------------------------------------------------------------------------
(* The editor.                                                             *)

LastIsWritten == frames # << >> => written = Len(Last(frames).bytes)

BeginFrame(frame) ==
    /\ open /\ LastIsWritten /\ Len(frames) < MaxMessages
    /\ frames' = Append(frames, frame)
    /\ written' = 0
    /\ UNCHANGED <<open, unread, readVars>>

\* a piece of a frame is as many of these steps as it has bytes
WriteByte ==
    /\ open /\ ~LastIsWritten
    /\ written' = written + 1
    /\ unread' = Append(unread, Last(frames).bytes[written + 1])
    /\ UNCHANGED <<frames, open, readVars>>

Leave == open /\ open' = FALSE /\ UNCHANGED <<frames, written, unread, readVars>>

-----------------------------------------------------------------------------
(* The server.                                                             *)

ReadByte == unread # << >> /\ unread' = Tail(unread) /\ UNCHANGED <<frames, written, open>>

\* readHeaderLine, before the end of the line
ReadOfLine ==
    /\ pc = "header" /\ ReadByte /\ Head(unread) # LF
    /\ line' = IF Head(unread) = CR THEN line ELSE Append(line, Head(unread))
    /\ UNCHANGED <<pc, contentLength, body, messages>>

\* parseContentLength of the line after its name: -1 unless it is an int
Parsed(fields) ==
    LET n == Head(fields).n IN IF Len(fields) = 1 /\ n <= MaxInt THEN n ELSE -1

\* a line of the header: the last Content-Length counts
EndOfLine ==
    /\ pc = "header" /\ ReadByte /\ Head(unread) = LF /\ line # << >>
    /\ contentLength' = IF Head(line).kind = "length" THEN Parsed(line) ELSE contentLength
    /\ line' = << >>
    /\ UNCHANGED <<pc, body, messages>>

\* the empty line: readMessage returns null, which ends run, or reads the body
EndOfHeader ==
    /\ pc = "header" /\ ReadByte /\ Head(unread) = LF /\ line = << >>
    /\ pc' = IF contentLength <= 0 THEN "stopped" ELSE "body"
    /\ UNCHANGED <<line, contentLength, body, messages>>

\* readNBytes, before the last byte
ReadOfBody ==
    /\ pc = "body" /\ ReadByte /\ Len(body) + 1 < contentLength
    /\ body' = Append(body, Head(unread))
    /\ UNCHANGED <<pc, line, contentLength, messages>>

\* Mutant: the length of the message before counts if the header has none.
NextMessageKeepsLength ==
    /\ pc' = "header" /\ line' = << >> /\ body' = << >> /\ UNCHANGED contentLength

\* run calls readMessage again: its variables are new.
NextMessage ==
    /\ pc' = "header" /\ line' = << >> /\ body' = << >> /\ contentLength' = -1

\* Mutant: the body is parsed as it comes, up to the byte after it.
EndOfBodyReadsAhead ==
    /\ pc = "body" /\ ReadByte /\ Len(body) + 1 = contentLength
    /\ Len(unread) > 1 \/ ~open
    /\ messages' = Append(messages, Append(body, Head(unread)))
    /\ NextMessage

\* the last byte of the body: readMessage returns it
EndOfBody ==
    /\ pc = "body" /\ ReadByte /\ Len(body) + 1 = contentLength
    /\ messages' = Append(messages, Append(body, Head(unread)))
    /\ NextMessage

\* Mutant: the end of the input inside a line is taken for a line.
EndOfInputInHeaderLoops ==
    /\ pc # "stopped" /\ ~open /\ unread = << >>
    /\ pc' = IF line = << >> THEN "stopped" ELSE "header"
    /\ UNCHANGED <<pipeVars, line, contentLength, body, messages>>

\* The end of the input: a line that is cut off is looked at as any other, and
\* after it readHeaderLine has no line; of a body that is cut off readNBytes
\* returns less than was asked for.  readMessage returns null in each case.
EndOfInput ==
    /\ pc # "stopped" /\ ~open /\ unread = << >>
    /\ pc' = "stopped"
    /\ UNCHANGED <<pipeVars, line, contentLength, body, messages>>

Read ==
    \/ ReadOfLine
    \/ EndOfLine
    \/ EndOfHeader
    \/ ReadOfBody
    \/ EndOfBody
    \/ EndOfInput

Ended == pc = "stopped" /\ UNCHANGED vars

Next ==
    \/ \E frame \in Frames : BeginFrame(frame)
    \/ WriteByte
    \/ Leave
    \/ Read
    \/ Ended

Spec == Init /\ [][Next]_vars

\* run does nothing but read and handle; the editor need not write on
LiveSpec == Spec /\ WF_vars(Read)

-----------------------------------------------------------------------------
\* the messages that are there to be taken, or taken
Sent ==
    LET whole == IF frames # << >> => written >= Last(frames).due THEN frames ELSE Front(frames)
    IN  [i \in DOMAIN whole |-> whole[i].body]

\* However the messages are cut into pieces, whatever they hold and wherever
\* the editor stops, the loop gets the whole messages in their order: no byte
\* of one is ever read as part of another, a message that is cut off is not
\* handled, and nothing is after a header that is of no use.
Pipe == INSTANCE MessagePipe
          WITH Messages <- Bodies \cup {Unreadable}, sent <- Sent, taken <- messages,
               running <- pc # "stopped"
IsMessagePipe == Pipe!Spec

\* A message that has been written whole is handled in the end, without the
\* editor having to write more, unless a header before it was of no use: the
\* server does not wait for a byte that is not part of the message.
WholeMessagesArrive ==
    \A k \in 1..MaxMessages :
      k \in DOMAIN Sent /\ (\A i \in 1..k : Sent[i] # Unreadable) ~> k \in DOMAIN messages

\* When the editor goes away the server comes to its end, inside a line or a
\* body as well as between messages.
EndsWithEditor == ~open ~> pc = "stopped"
=============================================================================
