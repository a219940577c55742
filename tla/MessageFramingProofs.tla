------------------------ MODULE MessageFramingProofs ------------------------
(***************************************************************************)
(* What readMessage makes of any number of messages of any bodies, however *)
(* they are cut into pieces: a pipe of whole messages.                     *)
(***************************************************************************)
EXTENDS MessageFraming, TLAPS

-----------------------------------------------------------------------------
(* Headers.                                                                *)

\* The line and the length that readMessage has after one more byte of a header.
LineAfter(seen, byte) ==
    IF byte = LF THEN << >> ELSE IF byte = CR THEN seen ELSE Append(seen, byte)
LengthAfter(seen, length, byte) ==
    IF byte = LF /\ Head(seen).kind = "length" THEN Parsed(seen) ELSE length

\* How readMessage reads a header: it ends with the byte shape.end, and before
\* its i-th byte the line is shape.line[i] and the length shape.length[i].
Passes(bytes, shape, i) ==
    /\ bytes[i] # LF \/ shape.line[i] # << >>
    /\ shape.line[i + 1] = LineAfter(shape.line[i], bytes[i])
    /\ shape.length[i + 1] = LengthAfter(shape.line[i], shape.length[i], bytes[i])

Reads(bytes, shape, length) ==
    /\ shape.line[1] = << >> /\ shape.length[1] = -1
    /\ \A i \in 1..(shape.end - 1) : Passes(bytes, shape, i)
    /\ bytes[shape.end] = LF /\ shape.line[shape.end] = << >>
    /\ shape.length[shape.end] = length

\* The bytes of the lines are what they are called.
LEMMA BytesDiffer ==
  /\ Text \in Bytes /\ CR \in Bytes /\ LF \in Bytes
  /\ Text # CR /\ Text # LF /\ CR # LF
  /\ \A n : ContentLength(n) # CR /\ ContentLength(n) # LF /\ ContentLength(n).kind = "length"
  /\ \A n \in Nat : ContentLength(n) \in Bytes /\ ContentLength(n).n = n
  /\ Text.kind # "length"
BY DEF Bytes, Byte, Text, CR, LF, ContentLength

\* What is read of a line that has a length and nothing else.
LEMMA LengthIsParsed ==
  ASSUME NEW n \in Nat
  PROVE  Parsed(<<ContentLength(n)>>) = IF n <= MaxInt THEN n ELSE -1
BY BytesDiffer DEF Parsed

\* Each of the headers is read to its end, and to its length.
\* Content-Length and the empty line, as the program itself writes them.
LEMMA LengthAlone ==
  ASSUME NEW n \in Nat
  PROVE  LET header == <<ContentLength(n), CR, LF, CR, LF>>
         IN  \E shape : shape.end = Len(header) /\ Reads(header, shape, IF n <= MaxInt THEN n ELSE -1)
<1> DEFINE header == <<ContentLength(n), CR, LF, CR, LF>>
           l == <<ContentLength(n)>>
           v == IF n <= MaxInt THEN n ELSE -1
           shape == [end |-> 5, line |-> <<<< >>, l, l, << >>, << >>>>,
                     length |-> <<-1, -1, -1, v, v>>]
<1>1. /\ Parsed(l) = v /\ Head(l).kind = "length" /\ Append(<< >>, ContentLength(n)) = l /\ l # << >>
  BY LengthIsParsed, BytesDiffer
<1>2. /\ header[1] = ContentLength(n) /\ header[2] = CR /\ header[3] = LF /\ header[4] = CR
      /\ header[5] = LF
      /\ Len(header) = 5 /\ shape.end = 5
      /\ shape.line[1] = << >> /\ shape.line[2] = l /\ shape.line[3] = l /\ shape.line[4] = << >>
      /\ shape.line[5] = << >>
      /\ shape.length[1] = -1 /\ shape.length[2] = -1 /\ shape.length[3] = -1 /\ shape.length[4] = v
      /\ shape.length[5] = v
  OBVIOUS
<1> HIDE DEF header, shape, l, v
<1>3. /\ Passes(header, shape, 1) /\ Passes(header, shape, 2) /\ Passes(header, shape, 3)
      /\ Passes(header, shape, 4)
  BY <1>1, <1>2, BytesDiffer DEF Passes, LineAfter, LengthAfter
<1>4. Reads(header, shape, v)
  BY <1>1, <1>2, <1>3 DEF Reads
<1> QED
  BY <1>4, <1>2 DEF header, v

\* Another field before it.
LEMMA LengthLast ==
  ASSUME NEW n \in Nat
  PROVE  LET header == <<Text, CR, LF, ContentLength(n), CR, LF, CR, LF>>
         IN  \E shape : shape.end = Len(header) /\ Reads(header, shape, IF n <= MaxInt THEN n ELSE -1)
<1> DEFINE header == <<Text, CR, LF, ContentLength(n), CR, LF, CR, LF>>
           l == <<ContentLength(n)>>
           t == <<Text>>
           v == IF n <= MaxInt THEN n ELSE -1
           shape == [end |-> 8, line |-> <<<< >>, t, t, << >>, l, l, << >>, << >>>>,
                     length |-> <<-1, -1, -1, -1, -1, -1, v, v>>]
<1>1. /\ Parsed(l) = v /\ Head(l).kind = "length" /\ Append(<< >>, ContentLength(n)) = l /\ l # << >>
      /\ Head(t).kind # "length" /\ Append(<< >>, Text) = t /\ t # << >>
  BY LengthIsParsed, BytesDiffer
<1>2. /\ header[1] = Text /\ header[2] = CR /\ header[3] = LF /\ header[4] = ContentLength(n)
      /\ header[5] = CR /\ header[6] = LF /\ header[7] = CR /\ header[8] = LF
      /\ Len(header) = 8 /\ shape.end = 8
      /\ shape.line[1] = << >> /\ shape.line[2] = t /\ shape.line[3] = t /\ shape.line[4] = << >>
      /\ shape.line[5] = l /\ shape.line[6] = l /\ shape.line[7] = << >> /\ shape.line[8] = << >>
      /\ shape.length[1] = -1 /\ shape.length[2] = -1 /\ shape.length[3] = -1 /\ shape.length[4] = -1
      /\ shape.length[5] = -1 /\ shape.length[6] = -1 /\ shape.length[7] = v /\ shape.length[8] = v
  OBVIOUS
<1> HIDE DEF header, shape, l, t, v
<1>3. /\ Passes(header, shape, 1) /\ Passes(header, shape, 2) /\ Passes(header, shape, 3)
      /\ Passes(header, shape, 4) /\ Passes(header, shape, 5) /\ Passes(header, shape, 6)
      /\ Passes(header, shape, 7)
  BY <1>1, <1>2, BytesDiffer DEF Passes, LineAfter, LengthAfter
<1>4. Reads(header, shape, v)
  BY <1>1, <1>2, <1>3 DEF Reads
<1> QED
  BY <1>4, <1>2 DEF header, v

\* Another field after it.
LEMMA LengthFirst ==
  ASSUME NEW n \in Nat
  PROVE  LET header == <<ContentLength(n), CR, LF, Text, CR, LF, CR, LF>>
         IN  \E shape : shape.end = Len(header) /\ Reads(header, shape, IF n <= MaxInt THEN n ELSE -1)
<1> DEFINE header == <<ContentLength(n), CR, LF, Text, CR, LF, CR, LF>>
           l == <<ContentLength(n)>>
           t == <<Text>>
           v == IF n <= MaxInt THEN n ELSE -1
           shape == [end |-> 8, line |-> <<<< >>, l, l, << >>, t, t, << >>, << >>>>,
                     length |-> <<-1, -1, -1, v, v, v, v, v>>]
<1>1. /\ Parsed(l) = v /\ Head(l).kind = "length" /\ Append(<< >>, ContentLength(n)) = l /\ l # << >>
      /\ Head(t).kind # "length" /\ Append(<< >>, Text) = t /\ t # << >>
  BY LengthIsParsed, BytesDiffer
<1>2. /\ header[1] = ContentLength(n) /\ header[2] = CR /\ header[3] = LF /\ header[4] = Text
      /\ header[5] = CR /\ header[6] = LF /\ header[7] = CR /\ header[8] = LF
      /\ Len(header) = 8 /\ shape.end = 8
      /\ shape.line[1] = << >> /\ shape.line[2] = l /\ shape.line[3] = l /\ shape.line[4] = << >>
      /\ shape.line[5] = t /\ shape.line[6] = t /\ shape.line[7] = << >> /\ shape.line[8] = << >>
      /\ shape.length[1] = -1 /\ shape.length[2] = -1 /\ shape.length[3] = -1 /\ shape.length[4] = v
      /\ shape.length[5] = v /\ shape.length[6] = v /\ shape.length[7] = v /\ shape.length[8] = v
  OBVIOUS
<1> HIDE DEF header, shape, l, t, v
<1>3. /\ Passes(header, shape, 1) /\ Passes(header, shape, 2) /\ Passes(header, shape, 3)
      /\ Passes(header, shape, 4) /\ Passes(header, shape, 5) /\ Passes(header, shape, 6)
      /\ Passes(header, shape, 7)
  BY <1>1, <1>2, BytesDiffer DEF Passes, LineAfter, LengthAfter
<1>4. Reads(header, shape, v)
  BY <1>1, <1>2, <1>3 DEF Reads
<1> QED
  BY <1>4, <1>2 DEF header, v

\* Lines that end without a carriage return.
LEMMA BareLineFeeds ==
  ASSUME NEW n \in Nat
  PROVE  LET header == <<ContentLength(n), LF, LF>>
         IN  \E shape : shape.end = Len(header) /\ Reads(header, shape, IF n <= MaxInt THEN n ELSE -1)
<1> DEFINE header == <<ContentLength(n), LF, LF>>
           l == <<ContentLength(n)>>
           v == IF n <= MaxInt THEN n ELSE -1
           shape == [end |-> 3, line |-> <<<< >>, l, << >>>>,
                     length |-> <<-1, -1, v>>]
<1>1. /\ Parsed(l) = v /\ Head(l).kind = "length" /\ Append(<< >>, ContentLength(n)) = l /\ l # << >>
  BY LengthIsParsed, BytesDiffer
<1>2. /\ header[1] = ContentLength(n) /\ header[2] = LF /\ header[3] = LF
      /\ Len(header) = 3 /\ shape.end = 3
      /\ shape.line[1] = << >> /\ shape.line[2] = l /\ shape.line[3] = << >>
      /\ shape.length[1] = -1 /\ shape.length[2] = -1 /\ shape.length[3] = v
  OBVIOUS
<1> HIDE DEF header, shape, l, v
<1>3. /\ Passes(header, shape, 1) /\ Passes(header, shape, 2)
  BY <1>1, <1>2, BytesDiffer DEF Passes, LineAfter, LengthAfter
<1>4. Reads(header, shape, v)
  BY <1>1, <1>2, <1>3 DEF Reads
<1> QED
  BY <1>4, <1>2 DEF header, v

\* No field at all.
LEMMA NoField ==
  LET header == <<CR, LF>>
         IN  \E shape : shape.end = Len(header) /\ Reads(header, shape, -1)
<1> DEFINE header == <<CR, LF>>
           shape == [end |-> 2, line |-> <<<< >>, << >>>>,
                     length |-> <<-1, -1>>]
<1>1. /\ header[1] = CR /\ header[2] = LF
      /\ Len(header) = 2 /\ shape.end = 2
      /\ shape.line[1] = << >> /\ shape.line[2] = << >>
      /\ shape.length[1] = -1 /\ shape.length[2] = -1
  OBVIOUS
<1> HIDE DEF header, shape
<1>2. /\ Passes(header, shape, 1)
  BY <1>1, BytesDiffer DEF Passes, LineAfter, LengthAfter
<1>3. Reads(header, shape, -1)
  BY <1>1, <1>2 DEF Reads
<1> QED
  BY <1>3, <1>1 DEF header

\* No Content-Length.
LEMMA OtherField ==
  LET header == <<Text, CR, LF, CR, LF>>
         IN  \E shape : shape.end = Len(header) /\ Reads(header, shape, -1)
<1> DEFINE header == <<Text, CR, LF, CR, LF>>
           t == <<Text>>
           shape == [end |-> 5, line |-> <<<< >>, t, t, << >>, << >>>>,
                     length |-> <<-1, -1, -1, -1, -1>>]
<1>1. /\ Head(t).kind # "length" /\ Append(<< >>, Text) = t /\ t # << >>
  BY LengthIsParsed, BytesDiffer
<1>2. /\ header[1] = Text /\ header[2] = CR /\ header[3] = LF /\ header[4] = CR
      /\ header[5] = LF
      /\ Len(header) = 5 /\ shape.end = 5
      /\ shape.line[1] = << >> /\ shape.line[2] = t /\ shape.line[3] = t /\ shape.line[4] = << >>
      /\ shape.line[5] = << >>
      /\ shape.length[1] = -1 /\ shape.length[2] = -1 /\ shape.length[3] = -1 /\ shape.length[4] = -1
      /\ shape.length[5] = -1
  OBVIOUS
<1> HIDE DEF header, shape, t
<1>3. /\ Passes(header, shape, 1) /\ Passes(header, shape, 2) /\ Passes(header, shape, 3)
      /\ Passes(header, shape, 4)
  BY <1>1, <1>2, BytesDiffer DEF Passes, LineAfter, LengthAfter
<1>4. Reads(header, shape, -1)
  BY <1>1, <1>2, <1>3 DEF Reads
<1> QED
  BY <1>4, <1>2 DEF header

\* Something after the number: it is no int.
LEMMA NoNumber ==
  LET header == <<ContentLength(1), Text, CR, LF, CR, LF>>
  IN  \E shape : shape.end = Len(header) /\ Reads(header, shape, -1)
<1> DEFINE header == <<ContentLength(1), Text, CR, LF, CR, LF>>
           l == <<ContentLength(1)>>
           t == Append(l, Text)
           shape == [end |-> 6, line |-> << << >>, l, t, t, << >>, << >> >>,
                     length |-> <<-1, -1, -1, -1, -1, -1>>]
<1>0. Len(t) = 2
  OBVIOUS
<1>1. /\ Parsed(t) = -1 /\ Append(<< >>, ContentLength(1)) = l /\ l # << >>
      /\ Append(l, Text) = t /\ t # << >> /\ Head(t).kind = "length"
  <2>1. Parsed(t) = -1
    BY <1>0 DEF Parsed
  <2>2. Head(t) = ContentLength(1) /\ t # << >> /\ l # << >>
    OBVIOUS
  <2>3. Append(<< >>, ContentLength(1)) = l
    OBVIOUS
  <2> QED
    BY <2>1, <2>2, <2>3, BytesDiffer
<1>2. /\ header[1] = ContentLength(1) /\ header[2] = Text /\ header[3] = CR /\ header[4] = LF
      /\ header[5] = CR /\ header[6] = LF
      /\ Len(header) = 6 /\ shape.end = 6
      /\ shape.line[1] = << >> /\ shape.line[2] = l /\ shape.line[3] = t /\ shape.line[4] = t
      /\ shape.line[5] = << >> /\ shape.line[6] = << >>
      /\ shape.length[1] = -1 /\ shape.length[2] = -1 /\ shape.length[3] = -1
      /\ shape.length[4] = -1 /\ shape.length[5] = -1 /\ shape.length[6] = -1
  OBVIOUS
<1> HIDE DEF header, shape, l, t
<1>3. /\ Passes(header, shape, 1) /\ Passes(header, shape, 2) /\ Passes(header, shape, 3)
      /\ Passes(header, shape, 4) /\ Passes(header, shape, 5)
  BY <1>1, <1>2, BytesDiffer DEF Passes, LineAfter, LengthAfter
<1>4. Reads(header, shape, -1)
  BY <1>1, <1>2, <1>3 DEF Reads
<1> QED
  BY <1>2, <1>4 DEF header

-----------------------------------------------------------------------------
(* Frames.                                                                 *)

\* A frame is read as its header is; the body of a readable frame is as long
\* as the header says, and the frame is due with its last byte.
IsShape(frame, shape) ==
    /\ frame.bytes \in Seq(Bytes)
    /\ shape.end \in 1..(Len(frame.bytes) - 1)
    /\ Reads(frame.bytes, shape, shape.length[shape.end])
    /\ frame.body = Unreadable => frame.due = shape.end /\ shape.length[shape.end] <= 0
    /\ frame.body # Unreadable =>
         /\ frame.body \in Seq(Bytes) /\ Len(frame.body) > 0
         /\ shape.length[shape.end] = Len(frame.body)
         /\ Len(frame.bytes) = shape.end + Len(frame.body)
         /\ frame.due = Len(frame.bytes)
         /\ \A i \in 1..Len(frame.body) : frame.bytes[shape.end + i] = frame.body[i]

Shape(frame) == CHOOSE shape : IsShape(frame, shape)

\* What follows the header does not change how it is read.
LEMMA ReadsPrefix ==
  ASSUME NEW header \in Seq(Bytes), NEW rest \in Seq(Bytes), NEW shape, NEW length,
         shape.end = Len(header), header # << >>, Reads(header, shape, length)
  PROVE  Reads(header \o rest, shape, length)
<1>1. Len(header) \in Nat /\ Len(header) > 0
  OBVIOUS
<1>2. \A i \in 1..Len(header) : (header \o rest)[i] = header[i]
  OBVIOUS
<1> DEFINE bytes == header \o rest
<1> HIDE DEF bytes
<1>3. \A i \in 1..Len(header) : bytes[i] = header[i]
  BY <1>2 DEF bytes
<1>4. Reads(bytes, shape, length)
  BY <1>1, <1>3 DEF Reads, Passes
<1> QED
  BY <1>4 DEF bytes

\* A message with a header that says how long it is.
LEMMA GoodFrame ==
  ASSUME NEW content \in Bodies, NEW header \in Seq(Bytes), header # << >>,
         \E shape : shape.end = Len(header) /\
           Reads(header, shape, IF Len(content) <= MaxInt THEN Len(content) ELSE -1)
  PROVE  \E shape : IsShape(Frame(header \o content, << >>, content), shape)
<1> DEFINE frame == Frame(header \o content, << >>, content)
<1>1. content \in Seq(Bytes) /\ content # << >> /\ Len(content) <= MaxInt
  BY BodiesAssumption
<1>2. PICK shape : shape.end = Len(header) /\ Reads(header, shape, Len(content))
  BY <1>1
<1>3. Reads(header \o content, shape, Len(content))
  BY <1>1, <1>2, ReadsPrefix
<1>4. /\ header \o content \in Seq(Bytes)
      /\ (header \o content) \o << >> = header \o content
      /\ Len(header \o content) = Len(header) + Len(content)
      /\ Len(header) \in Nat /\ Len(header) > 0
      /\ Len(content) \in Nat /\ Len(content) > 0
      /\ \A i \in 1..Len(content) : (header \o content)[Len(header) + i] = content[i]
  BY <1>1
<1>5. /\ frame.bytes = header \o content
      /\ frame.due = Len(header \o content)
      /\ frame.body = content
  BY <1>4 DEF Frame
<1>6. shape.length[shape.end] = Len(content)
  BY <1>3 DEF Reads
<1> HIDE DEF frame
<1>7. IsShape(frame, shape)
  BY <1>1, <1>2, <1>3, <1>4, <1>5, <1>6 DEF IsShape, Unreadable
<1> QED
  BY <1>7 DEF frame

\* A message with a header that does not.
LEMMA BadFrame ==
  ASSUME NEW header \in Seq(Bytes), header # << >>, NEW length \in Int, length <= 0,
         \E shape : shape.end = Len(header) /\ Reads(header, shape, length)
  PROVE  \E shape : IsShape(Frame(header, <<Text>>, Unreadable), shape)
<1> DEFINE frame == Frame(header, <<Text>>, Unreadable)
<1>1. PICK shape : shape.end = Len(header) /\ Reads(header, shape, length)
  OBVIOUS
<1>2. <<Text>> \in Seq(Bytes)
  BY BytesDiffer
<1>3. Reads(header \o <<Text>>, shape, length)
  BY <1>1, <1>2, ReadsPrefix
<1>4. /\ header \o <<Text>> \in Seq(Bytes)
      /\ Len(header \o <<Text>>) = Len(header) + 1
      /\ Len(header) \in Nat /\ Len(header) > 0
  BY <1>2
<1>5. /\ frame.bytes = header \o <<Text>>
      /\ frame.due = Len(header)
      /\ frame.body = Unreadable
  BY DEF Frame
<1>6. shape.length[shape.end] = length
  BY <1>3 DEF Reads
<1> HIDE DEF frame
<1>7. IsShape(frame, shape)
  BY <1>1, <1>3, <1>4, <1>5, <1>6 DEF IsShape
<1> QED
  BY <1>7 DEF frame

\* Every frame an editor writes is read as it was meant.
LEMMA FramesHaveShapes ==
  ASSUME NEW frame \in Frames
  PROVE  IsShape(frame, Shape(frame))
<1> DEFINE Alone(n) == <<ContentLength(n), CR, LF, CR, LF>>
           LastField(n) == <<Text, CR, LF, ContentLength(n), CR, LF, CR, LF>>
           FirstField(n) == <<ContentLength(n), CR, LF, Text, CR, LF, CR, LF>>
           Bare(n) == <<ContentLength(n), LF, LF>>
<1>1. ASSUME NEW content \in Bodies, NEW bytes \in WellFramed(content),
             frame = Frame(bytes, << >>, content)
      PROVE  \E shape : IsShape(frame, shape)
  <2> DEFINE n == Len(content)
  <2>0. content \in Seq(Bytes) /\ n \in Nat
    BY BodiesAssumption
  <2>1. CASE bytes = Framed(content)
    <3>1. Alone(n) \in Seq(Bytes) /\ Alone(n) # << >> /\ bytes = Alone(n) \o content
      BY <2>0, <2>1, BytesDiffer DEF Framed
    <3> QED
      BY <1>1, <2>0, <3>1, LengthAlone, GoodFrame
  <2>2. CASE bytes = <<Text, CR, LF>> \o Framed(content)
    <3>1. LastField(n) \in Seq(Bytes) /\ LastField(n) # << >>
      BY <2>0, BytesDiffer
    <3>2. <<Text, CR, LF>> \o (Alone(n) \o content) = LastField(n) \o content
      BY <2>0, BytesDiffer
    <3>3. bytes = LastField(n) \o content
      BY <2>2, <3>2 DEF Framed
    <3> QED
      BY <1>1, <2>0, <3>1, <3>3, LengthLast, GoodFrame
  <2>3. CASE bytes = <<ContentLength(n), CR, LF>> \o <<Text, CR, LF>> \o <<CR, LF>> \o content
    <3>1. FirstField(n) \in Seq(Bytes) /\ FirstField(n) # << >>
      BY <2>0, BytesDiffer
    <3>2. bytes = FirstField(n) \o content
      BY <2>3
    <3> QED
      BY <1>1, <2>0, <3>1, <3>2, LengthFirst, GoodFrame
  <2>4. CASE bytes = <<ContentLength(n), LF, LF>> \o content
    <3>1. Bare(n) \in Seq(Bytes) /\ Bare(n) # << >>
      BY <2>0, BytesDiffer
    <3> QED
      BY <1>1, <2>0, <2>4, <3>1, BareLineFeeds, GoodFrame
  <2> QED
    BY <2>1, <2>2, <2>3, <2>4 DEF WellFramed
<1>2. ASSUME NEW header \in BadHeaders, frame = Frame(header, <<Text>>, Unreadable)
      PROVE  \E shape : IsShape(frame, shape)
  <2>0. 0 \in Nat /\ 0 <= MaxInt /\ MaxInt + 1 \in Nat /\ ~ (MaxInt + 1 <= MaxInt)
    BY MaxIntAssumption
  <2>1. CASE header = <<CR, LF>>
    <3>1. header \in Seq(Bytes) /\ header # << >>
      BY <2>1, BytesDiffer
    <3>2. \E shape : shape.end = Len(header) /\ Reads(header, shape, -1)
      BY <2>1, NoField
    <3> QED
      BY <1>2, <3>1, <3>2, BadFrame
  <2>2. CASE header = <<Text, CR, LF, CR, LF>>
    <3>1. header \in Seq(Bytes) /\ header # << >>
      BY <2>2, BytesDiffer
    <3>2. \E shape : shape.end = Len(header) /\ Reads(header, shape, -1)
      BY <2>2, OtherField
    <3> QED
      BY <1>2, <3>1, <3>2, BadFrame
  <2>3. CASE header = <<ContentLength(1), Text, CR, LF, CR, LF>>
    <3>1. header \in Seq(Bytes) /\ header # << >>
      BY <2>3, BytesDiffer
    <3>2. \E shape : shape.end = Len(header) /\ Reads(header, shape, -1)
      BY <2>3, NoNumber
    <3> QED
      BY <1>2, <3>1, <3>2, BadFrame
  <2>4. CASE header = Alone(0)
    <3>1. header \in Seq(Bytes) /\ header # << >>
      BY <2>0, <2>4, BytesDiffer
    <3>2. \E shape : shape.end = Len(header) /\ Reads(header, shape, 0)
      BY <2>0, <2>4, LengthAlone
    <3> QED
      BY <1>2, <3>1, <3>2, BadFrame
  <2>5. CASE header = Bare(MaxInt + 1)
    <3>1. header \in Seq(Bytes) /\ header # << >>
      BY <2>0, <2>5, BytesDiffer
    <3>2. \E shape : shape.end = Len(header) /\ Reads(header, shape, -1)
      BY <2>0, <2>5, BareLineFeeds
    <3> QED
      BY <1>2, <3>1, <3>2, BadFrame
  <2> QED
    BY <2>1, <2>2, <2>3, <2>4, <2>5 DEF BadHeaders
<1>3. \/ \E content \in Bodies : \E bytes \in WellFramed(content) : frame = Frame(bytes, << >>, content)
      \/ \E header \in BadHeaders : frame = Frame(header, <<Text>>, Unreadable)
  BY DEF Frames
<1>4. \E shape : IsShape(frame, shape)
  BY <1>1, <1>2, <1>3
<1> QED
  BY <1>4 DEF Shape

-----------------------------------------------------------------------------
(* The bytes in the pipe and the place of the reader.                      *)

TypeInv ==
    /\ frames \in Seq(Frames)
    /\ written \in Nat
    /\ frames = << >> => written = 0
    /\ frames # << >> => written <= Len(frames[Len(frames)].bytes)
    /\ unread \in Seq(Bytes)
    /\ messages \in Seq(Seq(Bytes))
    /\ pc \in {"header", "body", "stopped"}

\* The k-th frame is in the pipe from the place start[k] + 1 on; what has been
\* read of it is before the place 1.
Starts(start) ==
    /\ start \in [1..(Len(frames) + 1) -> Int]
    /\ \A k \in 1..Len(frames) : start[k + 1] = start[k] + Len(frames[k].bytes)
    /\ \A k \in 1..Len(frames), l \in 1..(Len(frames) + 1) :
         k < l => start[k] + Len(frames[k].bytes) <= start[l]
    /\ Len(unread) = IF frames = << >> THEN 0 ELSE start[Len(frames)] + written
    /\ \A k \in 1..Len(frames) : \A j \in 1..Len(frames[k].bytes) :
         start[k] + j \in 1..Len(unread) => unread[start[k] + j] = frames[k].bytes[j]

\* readMessage when it is called
Fresh == pc = "header" /\ line = << >> /\ contentLength = -1 /\ body = << >>

\* readMessage when it has read this many bytes of a frame
ReaderAt(frame, place) ==
    LET shape == Shape(frame)
    IN  IF place < shape.end
        THEN /\ pc = "header" /\ body = << >>
             /\ line = shape.line[place + 1]
             /\ contentLength = shape.length[place + 1]
        ELSE /\ pc = "body" /\ line = << >>
             /\ frame.body # Unreadable
             /\ contentLength = Len(frame.body)
             /\ body \in Seq(Bytes) /\ Len(body) = place - shape.end
             /\ \A i \in 1..Len(body) : body[i] = frame.body[i]

\* the frame that is being read
Current == Len(messages) + 1

Reading(start) ==
    /\ Current <= Len(frames) + 1
    /\ start[Current] <= 0
    /\ Current <= Len(frames) =>
         /\ -start[Current] < Len(frames[Current].bytes)
         /\ ReaderAt(frames[Current], -start[Current])
    /\ Current = Len(frames) + 1 => start[Current] = 0 /\ Fresh

\* The inductive invariant: until it stops, the reader is inside the frame after
\* those it has returned, where that frame's header and body say it should be.
IndInv ==
    /\ TypeInv
    /\ pc # "stopped" => \E start : Starts(start) /\ Reading(start)

\* What is known of every frame.
LEMMA FrameFacts ==
  ASSUME NEW frame \in Frames
  PROVE  /\ IsShape(frame, Shape(frame))
         /\ frame.bytes \in Seq(Bytes)
         /\ Len(frame.bytes) \in Nat
         /\ Shape(frame).end \in 1..(Len(frame.bytes) - 1)
         /\ frame.due \in 1..Len(frame.bytes)
         /\ frame.body \in Bodies \cup {Unreadable}
<1>1. IsShape(frame, Shape(frame))
  BY FramesHaveShapes
<1>2. /\ frame.bytes \in Seq(Bytes)
      /\ Len(frame.bytes) \in Nat
      /\ Shape(frame).end \in 1..(Len(frame.bytes) - 1)
      /\ frame.due \in 1..Len(frame.bytes)
  BY <1>1 DEF IsShape
<1>3. frame.body \in Bodies \cup {Unreadable}
  <2>1. \/ \E content \in Bodies : \E bytes \in WellFramed(content) : frame = Frame(bytes, << >>, content)
        \/ \E header \in BadHeaders : frame = Frame(header, <<Text>>, Unreadable)
    BY DEF Frames
  <2> QED
    BY <2>1 DEF Frame
<1> QED
  BY <1>1, <1>2, <1>3

\* The byte that is read is the next one of the frame that is being read, and
\* the editor has written it.
LEMMA ReadsCurrent ==
  ASSUME TypeInv, NEW start, Starts(start), Reading(start), unread # << >>
  PROVE  /\ Current \in 1..Len(frames)
         /\ frames[Current] \in Frames
         /\ -start[Current] \in Nat
         /\ -start[Current] + 1 \in 1..Len(frames[Current].bytes)
         /\ Head(unread) = frames[Current].bytes[-start[Current] + 1]
         /\ Current = Len(frames) => -start[Current] + 1 <= written
<1>1. /\ frames \in Seq(Frames) /\ unread \in Seq(Bytes) /\ Len(unread) \in Nat /\ Len(unread) > 0
      /\ Len(messages) \in Nat /\ Len(frames) \in Nat /\ written \in Nat
  BY DEF TypeInv
<1>2. Current \in 1..(Len(frames) + 1) /\ start[Current] \in Int /\ start[Current] <= 0
  BY <1>1 DEF Reading, Starts, Current
<1>3. Current # Len(frames) + 1
  <2> SUFFICES ASSUME Current = Len(frames) + 1 PROVE FALSE
    OBVIOUS
  <2>1. CASE frames = << >>
    BY <1>1, <2>1 DEF Starts
  <2>2. CASE frames # << >>
    <3>1. Len(frames) \in 1..Len(frames) /\ frames[Len(frames)] \in Frames
      BY <1>1, <2>2
    <3>2. start[Len(frames) + 1] = start[Len(frames)] + Len(frames[Len(frames)].bytes)
      BY <3>1 DEF Starts
    <3>3. start[Len(frames) + 1] = 0
      BY DEF Reading
    <3>4. Len(unread) = start[Len(frames)] + written /\ written <= Len(frames[Len(frames)].bytes)
      BY <2>2 DEF Starts, TypeInv
    <3>5. start[Len(frames)] \in Int /\ Len(frames[Len(frames)].bytes) \in Nat
      BY <1>1, <3>1, FrameFacts DEF Starts
    <3> QED
      BY <1>1, <3>2, <3>3, <3>4, <3>5
  <2> QED
    BY <2>1, <2>2
<1>4. Current \in 1..Len(frames) /\ frames[Current] \in Frames /\ frames # << >>
  BY <1>1, <1>2, <1>3
<1>5. Len(frames[Current].bytes) \in Nat
  BY <1>4, FrameFacts
<1> DEFINE place == -start[Current]
<1>6. place \in Nat /\ place + 1 \in 1..Len(frames[Current].bytes)
  BY <1>2, <1>4, <1>5 DEF Reading
<1>7. start[Current] + (place + 1) = 1
  BY <1>2
<1>8. Head(unread) = unread[1] /\ 1 \in 1..Len(unread)
  BY <1>1
<1>9. Head(unread) = frames[Current].bytes[place + 1]
  BY <1>4, <1>6, <1>7, <1>8 DEF Starts
<1>10. Current = Len(frames) => place + 1 <= written
  BY <1>1, <1>2, <1>4 DEF Starts
<1> QED
  BY <1>4, <1>6, <1>9, <1>10

\* When a byte is read all the places move by one.
LEMMA StartsMove ==
  ASSUME TypeInv, NEW start, Starts(start), ReadByte
  PROVE  Starts([k \in DOMAIN start |-> start[k] - 1])'
<1> DEFINE moved == [k \in DOMAIN start |-> start[k] - 1]
<1>1. /\ unread \in Seq(Bytes) /\ unread # << >> /\ unread' = Tail(unread)
      /\ frames' = frames /\ written' = written /\ frames \in Seq(Frames)
      /\ Len(frames) \in Nat /\ written \in Nat
  BY DEF TypeInv, ReadByte
<1>2. /\ Len(unread') = Len(unread) - 1 /\ Len(unread) \in Nat
      /\ \A i \in 1..(Len(unread) - 1) : unread'[i] = unread[i + 1]
  BY <1>1
<1>3. DOMAIN start = 1..(Len(frames) + 1) /\ \A k \in 1..(Len(frames) + 1) : start[k] \in Int
  BY DEF Starts
<1>4. \A k \in 1..Len(frames) : Len(frames[k].bytes) \in Nat
  BY <1>1, FrameFacts
<1>5. \A k \in 1..(Len(frames) + 1) : moved[k] = start[k] - 1
  BY <1>3
<1>6. moved \in [1..(Len(frames) + 1) -> Int]
  BY <1>3
<1> HIDE DEF moved
<1>7. ASSUME NEW k \in 1..Len(frames)
      PROVE  /\ moved[k + 1] = moved[k] + Len(frames[k].bytes)
             /\ \A l \in 1..(Len(frames) + 1) : k < l => moved[k] + Len(frames[k].bytes) <= moved[l]
  <2>1. k \in 1..(Len(frames) + 1) /\ k + 1 \in 1..(Len(frames) + 1)
    BY <1>1
  <2>2. moved[k] = start[k] - 1 /\ moved[k + 1] = start[k + 1] - 1 /\ start[k] \in Int
    BY <1>3, <1>5, <2>1
  <2>3. start[k + 1] = start[k] + Len(frames[k].bytes)
    BY DEF Starts
  <2>4. Len(frames[k].bytes) \in Nat
    BY <1>4
  <2>5. ASSUME NEW l \in 1..(Len(frames) + 1), k < l
        PROVE  moved[k] + Len(frames[k].bytes) <= moved[l]
    <3>1. start[k] + Len(frames[k].bytes) <= start[l]
      BY <2>5 DEF Starts
    <3>2. moved[l] = start[l] - 1 /\ start[l] \in Int
      BY <1>3, <1>5
    <3>3. \A x, y \in Int, n \in Nat : x + n <= y => (x - 1) + n <= y - 1
      OBVIOUS
    <3> QED
      BY <2>2, <2>4, <3>1, <3>2, <3>3
  <2> QED
    BY <2>2, <2>3, <2>4, <2>5
<1>9. frames # << >>
  BY <1>1, <1>2 DEF Starts
<1>10. Len(unread') = moved[Len(frames)] + written
  BY <1>1, <1>2, <1>3, <1>5, <1>9 DEF Starts
<1>11. ASSUME NEW k \in 1..Len(frames), NEW j \in 1..Len(frames[k].bytes),
              moved[k] + j \in 1..Len(unread')
       PROVE  unread'[moved[k] + j] = frames[k].bytes[j]
  <2>1. /\ start[k] + j \in 1..Len(unread) /\ moved[k] + j + 1 = start[k] + j
        /\ moved[k] + j \in 1..(Len(unread) - 1)
    <3>1. k \in 1..(Len(frames) + 1) /\ j \in Nat /\ j > 0
      BY <1>1, <1>4
    <3>2. moved[k] = start[k] - 1 /\ start[k] \in Int
      BY <1>3, <1>5, <3>1
    <3> QED
      BY <1>2, <1>11, <3>1, <3>2
  <2> QED
    BY <1>2, <2>1 DEF Starts
<1>12. Starts(moved)'
  BY <1>1, <1>6, <1>7, <1>9, <1>10, <1>11 DEF Starts
<1> QED
  BY <1>12 DEF moved

\* When readMessage is called again it is at the beginning of the next frame.
LEMMA FreshAtFrame ==
  ASSUME NEW frame \in Frames, Fresh
  PROVE  ReaderAt(frame, 0)
<1>1. IsShape(frame, Shape(frame)) /\ Shape(frame).end \in 1..(Len(frame.bytes) - 1)
  BY FrameFacts
<1>2. 0 < Shape(frame).end
  BY <1>1, FrameFacts
<1> QED
  BY <1>1, <1>2 DEF ReaderAt, Fresh, IsShape, Reads

\* A byte inside the frame: the reader goes on to the next place.
LEMMA MovesOn ==
  ASSUME TypeInv, NEW start, Starts(start), Reading(start), ReadByte, messages' = messages,
         -start[Current] + 1 < Len(frames[Current].bytes),
         ReaderAt(frames[Current], -start[Current] + 1)'
  PROVE  \E s : Starts(s)' /\ Reading(s)'
<1> DEFINE moved == [k \in DOMAIN start |-> start[k] - 1]
<1>1. Starts(moved)'
  BY StartsMove
<1>2. /\ Current \in 1..Len(frames) /\ -start[Current] \in Nat /\ frames' = frames
      /\ frames \in Seq(Frames) /\ Current' = Current
  BY ReadsCurrent DEF ReadByte, TypeInv, Current
<1>3. moved[Current] = start[Current] - 1 /\ start[Current] \in Int
  <2>1. Current \in 1..(Len(frames) + 1)
    BY <1>2
  <2> QED
    BY <2>1 DEF Starts
<1> HIDE DEF moved
<1>4. Current' \in 1..Len(frames') /\ Len(frames) \in Nat
  BY <1>2
<1>5. -moved[Current] = -start[Current] + 1
  BY <1>3
<1>6. Reading(moved)'
  BY <1>2, <1>3, <1>4, <1>5 DEF Reading
<1> QED
  BY <1>1, <1>6

\* What the reader knows of the frame it is in.
LEMMA InFrame ==
  ASSUME IndInv, pc # "stopped", ReadByte
  PROVE  \E start, frame, place :
           /\ Starts(start) /\ Reading(start)
           /\ Current \in 1..Len(frames)
           /\ frame = frames[Current] /\ frame \in Frames
           /\ place = -start[Current] /\ place \in Nat
           /\ place + 1 \in 1..Len(frame.bytes)
           /\ Head(unread) = frame.bytes[place + 1]
           /\ Current = Len(frames) => place + 1 <= written
           /\ ReaderAt(frame, place)
<1>1. PICK start : Starts(start) /\ Reading(start)
  BY DEF IndInv
<1>2. TypeInv /\ unread # << >> /\ Len(frames) \in Nat
  BY DEF IndInv, ReadByte, TypeInv
<1>3. Current \in 1..Len(frames)
  BY <1>1, <1>2, ReadsCurrent
<1>4. ReaderAt(frames[Current], -start[Current])
  BY <1>1, <1>2, <1>3 DEF Reading
<1> QED
  BY <1>1, <1>2, <1>3, <1>4, ReadsCurrent

\* The types of what the reader changes.
LEMMA ReadKeepsTypes ==
  ASSUME TypeInv, ReadByte, pc' \in {"header", "body", "stopped"}, messages' \in Seq(Seq(Bytes))
  PROVE  TypeInv'
<1>1. unread' \in Seq(Bytes)
  BY DEF TypeInv, ReadByte
<1> QED
  BY <1>1 DEF TypeInv, ReadByte

\* A byte of a line of the header, the last one of the line or not.
LEMMA HeaderByteKeeps == IndInv /\ (ReadOfLine \/ EndOfLine) => IndInv'
<1> SUFFICES ASSUME IndInv, ReadOfLine \/ EndOfLine PROVE IndInv'
  OBVIOUS
<1>1. pc = "header" /\ pc' = pc /\ ReadByte /\ messages' = messages /\ body' = body /\ TypeInv
  BY DEF ReadOfLine, EndOfLine, IndInv
<1>2. PICK start, frame, place :
           /\ Starts(start) /\ Reading(start)
           /\ Current \in 1..Len(frames)
           /\ frame = frames[Current] /\ frame \in Frames
           /\ place = -start[Current] /\ place \in Nat
           /\ place + 1 \in 1..Len(frame.bytes)
           /\ Head(unread) = frame.bytes[place + 1]
           /\ ReaderAt(frame, place)
  BY <1>1, InFrame
<1> DEFINE shape == Shape(frame)
           byte == frame.bytes[place + 1]
<1>3. /\ IsShape(frame, shape) /\ shape.end \in 1..(Len(frame.bytes) - 1)
      /\ Len(frame.bytes) \in Nat
  BY <1>2, FrameFacts
<1>4. place < shape.end /\ line = shape.line[place + 1] /\ contentLength = shape.length[place + 1]
      /\ body = << >>
  BY <1>1, <1>2 DEF ReaderAt
<1>5. place + 1 # shape.end
  <2>1. CASE ReadOfLine
    BY <1>2, <1>3, <2>1 DEF ReadOfLine, IsShape, Reads
  <2>2. CASE EndOfLine
    BY <1>3, <1>4, <2>2 DEF EndOfLine, IsShape, Reads
  <2> QED
    BY <2>1, <2>2
<1>6. place + 1 \in 1..(shape.end - 1) /\ place + 1 < shape.end
      /\ place + 1 < Len(frame.bytes)
  BY <1>2, <1>3, <1>4, <1>5
<1>7. Passes(frame.bytes, shape, place + 1)
  BY <1>3, <1>6 DEF IsShape, Reads
<1>8. line' = LineAfter(line, byte) /\ contentLength' = LengthAfter(line, contentLength, byte)
  <2>1. CASE ReadOfLine
    BY <1>2, <2>1 DEF ReadOfLine, LineAfter, LengthAfter
  <2>2. CASE EndOfLine
    BY <1>2, <2>2 DEF EndOfLine, LineAfter, LengthAfter
  <2> QED
    BY <2>1, <2>2
<1>9. line' = shape.line[(place + 1) + 1] /\ contentLength' = shape.length[(place + 1) + 1]
  BY <1>4, <1>7, <1>8 DEF Passes
<1>10. ReaderAt(frame, place + 1)'
  BY <1>1, <1>4, <1>6, <1>9 DEF ReaderAt
<1>11. ReaderAt(frames[Current], -start[Current] + 1)'
  BY <1>1, <1>2, <1>10 DEF ReadByte, Current
<1>12. TypeInv'
  BY <1>1, ReadKeepsTypes DEF TypeInv
<1> QED
  BY <1>1, <1>2, <1>6, <1>11, <1>12, MovesOn DEF IndInv

\* The empty line: the header has been read to its end.
LEMMA EndOfHeaderAt ==
  ASSUME IndInv, EndOfHeader
  PROVE  \E start, frame, place :
           /\ Starts(start) /\ Reading(start)
           /\ Current \in 1..Len(frames)
           /\ frame = frames[Current] /\ frame \in Frames
           /\ place = -start[Current] /\ place \in Nat
           /\ Current = Len(frames) => place + 1 <= written
           /\ place + 1 = Shape(frame).end
           /\ contentLength = Shape(frame).length[Shape(frame).end]
           /\ body = << >> /\ line = << >>
<1>1. pc = "header" /\ ReadByte /\ Head(unread) = LF /\ line = << >>
  BY DEF EndOfHeader
<1>2. PICK start, frame, place :
           /\ Starts(start) /\ Reading(start)
           /\ Current \in 1..Len(frames)
           /\ frame = frames[Current] /\ frame \in Frames
           /\ place = -start[Current] /\ place \in Nat
           /\ place + 1 \in 1..Len(frame.bytes)
           /\ Head(unread) = frame.bytes[place + 1]
           /\ Current = Len(frames) => place + 1 <= written
           /\ ReaderAt(frame, place)
  BY <1>1, InFrame
<1> DEFINE shape == Shape(frame)
<1>3. /\ IsShape(frame, shape) /\ shape.end \in 1..(Len(frame.bytes) - 1)
      /\ Len(frame.bytes) \in Nat
  BY <1>2, FrameFacts
<1>4. place < shape.end /\ line = shape.line[place + 1] /\ contentLength = shape.length[place + 1]
      /\ body = << >>
  BY <1>1, <1>2 DEF ReaderAt
<1>5. place + 1 = shape.end
  <2> SUFFICES ASSUME place + 1 # shape.end PROVE FALSE
    OBVIOUS
  <2>1. place + 1 \in 1..(shape.end - 1)
    BY <1>2, <1>3, <1>4
  <2>2. Passes(frame.bytes, shape, place + 1)
    BY <1>3, <2>1 DEF IsShape, Reads
  <2> QED
    BY <1>1, <1>2, <1>4, <2>2 DEF Passes
<1>6. contentLength = shape.length[shape.end]
  BY <1>4, <1>5
<1> HIDE DEF shape
<1> QED
  BY <1>1, <1>2, <1>4, <1>5, <1>6 DEF shape

\* It is where the body begins, or the server stops.
LEMMA EndOfHeaderKeeps == IndInv /\ EndOfHeader => IndInv'
<1> SUFFICES ASSUME IndInv, EndOfHeader PROVE IndInv'
  OBVIOUS
<1>1. /\ ReadByte /\ messages' = messages /\ body' = body /\ line' = line /\ TypeInv
      /\ contentLength' = contentLength
      /\ pc' = IF contentLength <= 0 THEN "stopped" ELSE "body"
  BY DEF EndOfHeader, IndInv
<1>2. TypeInv'
  BY <1>1, ReadKeepsTypes DEF TypeInv
<1>3. CASE contentLength <= 0
  BY <1>1, <1>2, <1>3 DEF IndInv
<1>4. CASE ~ (contentLength <= 0)
  <2>1. PICK start, frame, place :
           /\ Starts(start) /\ Reading(start)
           /\ Current \in 1..Len(frames)
           /\ frame = frames[Current] /\ frame \in Frames
           /\ place = -start[Current] /\ place \in Nat
           /\ place + 1 = Shape(frame).end
           /\ contentLength = Shape(frame).length[Shape(frame).end]
           /\ body = << >> /\ line = << >>
    BY EndOfHeaderAt
  <2>2. IsShape(frame, Shape(frame)) /\ Shape(frame).end \in 1..(Len(frame.bytes) - 1)
    BY <2>1, FrameFacts
  <2>3. frame.body # Unreadable /\ contentLength = Len(frame.body)
    BY <1>4, <2>1, <2>2 DEF IsShape
  <2>4. Shape(frame).end < Len(frame.bytes)
    BY <2>1, <2>2, FrameFacts
  <2>5. << >> \in Seq(Bytes) /\ Len(<< >>) = 0
    OBVIOUS
  <2>6. ReaderAt(frame, place + 1)'
    BY <1>1, <1>4, <2>1, <2>2, <2>3, <2>5 DEF ReaderAt
  <2>7. ReaderAt(frames[Current], -start[Current] + 1)'
    BY <1>1, <2>1, <2>6 DEF ReadByte, Current
  <2> QED
    BY <1>1, <1>2, <2>1, <2>4, <2>7, MovesOn DEF IndInv
<1> QED
  BY <1>3, <1>4

\* What the reader knows in a body.
LEMMA InBody ==
  ASSUME IndInv, pc = "body", ReadByte
  PROVE  \E start, frame, place :
           /\ Starts(start) /\ Reading(start)
           /\ Current \in 1..Len(frames)
           /\ frame = frames[Current] /\ frame \in Frames
           /\ place = -start[Current] /\ place \in Nat
           /\ Current = Len(frames) => place + 1 <= written
           /\ frame.body # Unreadable /\ frame.body \in Seq(Bytes)
           /\ contentLength = Len(frame.body)
           /\ Len(frame.bytes) = Shape(frame).end + Len(frame.body)
           /\ place = Shape(frame).end + Len(body)
           /\ body \in Seq(Bytes) /\ \A i \in 1..Len(body) : body[i] = frame.body[i]
           /\ Head(unread) = frame.body[Len(body) + 1] /\ Head(unread) \in Bytes
           /\ Len(body) + 1 <= Len(frame.body)
           /\ line = << >>
<1>1. PICK start, frame, place :
           /\ Starts(start) /\ Reading(start)
           /\ Current \in 1..Len(frames)
           /\ frame = frames[Current] /\ frame \in Frames
           /\ place = -start[Current] /\ place \in Nat
           /\ place + 1 \in 1..Len(frame.bytes)
           /\ Head(unread) = frame.bytes[place + 1]
           /\ Current = Len(frames) => place + 1 <= written
           /\ ReaderAt(frame, place)
  BY InFrame
<1> DEFINE end == Shape(frame).end
<1>2. IsShape(frame, Shape(frame)) /\ end \in 1..(Len(frame.bytes) - 1)
  BY <1>1, FrameFacts
<1>3. /\ ~ (place < end) /\ line = << >>
      /\ frame.body # Unreadable
      /\ contentLength = Len(frame.body)
      /\ body \in Seq(Bytes) /\ Len(body) = place - end
      /\ \A i \in 1..Len(body) : body[i] = frame.body[i]
  BY <1>1 DEF ReaderAt
<1>4. /\ frame.body \in Seq(Bytes)
      /\ Len(frame.bytes) = end + Len(frame.body)
      /\ \A i \in 1..Len(frame.body) : frame.bytes[end + i] = frame.body[i]
      /\ frame.bytes \in Seq(Bytes)
  BY <1>2, <1>3 DEF IsShape
<1>5. place = end + Len(body) /\ Len(body) + 1 \in 1..Len(frame.body) /\ place + 1 = end + (Len(body) + 1)
  <2>1. Len(body) \in Nat /\ Len(frame.body) \in Nat /\ Len(frame.bytes) \in Nat
    BY <1>3, <1>4
  <2>2. end \in Nat /\ place \in Nat /\ place + 1 <= Len(frame.bytes)
    BY <1>1, <1>2, <2>1
  <2>3. place = end + Len(body)
    BY <1>3, <2>1, <2>2
  <2>4. Len(body) + 1 <= Len(frame.body)
    BY <1>4, <2>1, <2>2, <2>3
  <2> QED
    BY <2>1, <2>2, <2>3, <2>4
<1>6. Head(unread) = frame.body[Len(body) + 1] /\ Head(unread) \in Bytes
  <2> HIDE DEF end
  <2>1. frame.bytes[end + (Len(body) + 1)] = frame.body[Len(body) + 1]
    BY <1>4, <1>5
  <2>2. Head(unread) = frame.bytes[end + (Len(body) + 1)]
    BY <1>1, <1>5
  <2>3. frame.body[Len(body) + 1] \in Bytes
    BY <1>4, <1>5
  <2> QED
    BY <2>1, <2>2, <2>3
<1>7. Len(body) + 1 <= Len(frame.body)
  BY <1>5
<1> QED
  BY <1>1, <1>3, <1>4, <1>5, <1>6, <1>7

\* A byte of a body that is not the last one.
LEMMA ReadOfBodyKeeps == IndInv /\ ReadOfBody => IndInv'
<1> SUFFICES ASSUME IndInv, ReadOfBody PROVE IndInv'
  OBVIOUS
<1>1. /\ pc = "body" /\ pc' = pc /\ ReadByte /\ messages' = messages /\ TypeInv
      /\ line' = line /\ contentLength' = contentLength /\ Len(body) + 1 < contentLength
      /\ body' = Append(body, Head(unread))
  BY DEF ReadOfBody, IndInv
<1>2. PICK start, frame, place :
           /\ Starts(start) /\ Reading(start)
           /\ Current \in 1..Len(frames)
           /\ frame = frames[Current] /\ frame \in Frames
           /\ place = -start[Current] /\ place \in Nat
           /\ frame.body # Unreadable /\ frame.body \in Seq(Bytes)
           /\ contentLength = Len(frame.body)
           /\ Len(frame.bytes) = Shape(frame).end + Len(frame.body)
           /\ place = Shape(frame).end + Len(body)
           /\ body \in Seq(Bytes) /\ \A i \in 1..Len(body) : body[i] = frame.body[i]
           /\ Head(unread) = frame.body[Len(body) + 1] /\ Head(unread) \in Bytes
           /\ line = << >>
  BY <1>1, InBody
<1>3. /\ body' \in Seq(Bytes) /\ Len(body') = Len(body) + 1
      /\ \A i \in 1..Len(body') : body'[i] = frame.body[i]
  BY <1>1, <1>2
<1>4. Shape(frame).end \in Nat /\ Len(body) \in Nat
  BY <1>2, FrameFacts
<1>5. /\ place + 1 < Len(frame.bytes) /\ ~ (place + 1 < Shape(frame).end)
      /\ Len(body') = (place + 1) - Shape(frame).end
  <2>1. Len(frame.body) \in Nat /\ Len(body) + 1 < Len(frame.body)
    BY <1>1, <1>2
  <2>2. /\ Len(frame.bytes) = Shape(frame).end + Len(frame.body)
        /\ place = Shape(frame).end + Len(body)
        /\ Len(body') = Len(body) + 1
    BY <1>2, <1>3
  <2>3. \A e, b, f \in Nat : b + 1 < f =>
          /\ (e + b) + 1 < e + f /\ ~ ((e + b) + 1 < e)
          /\ b + 1 = ((e + b) + 1) - e
    OBVIOUS
  <2> QED
    BY <1>4, <2>1, <2>2, <2>3
<1>6. ReaderAt(frame, place + 1)'
  BY <1>1, <1>2, <1>3, <1>5 DEF ReaderAt
<1>7. ReaderAt(frames[Current], -start[Current] + 1)'
  BY <1>1, <1>2, <1>6 DEF ReadByte, Current
<1>8. TypeInv'
  BY <1>1, ReadKeepsTypes DEF TypeInv
<1> QED
  BY <1>1, <1>2, <1>5, <1>7, <1>8, MovesOn DEF IndInv

\* The last byte: what is returned is the body of the frame.
LEMMA ReturnsBody ==
  ASSUME IndInv, EndOfBody
  PROVE  \E start, frame :
           /\ Starts(start) /\ Reading(start)
           /\ Current \in 1..Len(frames)
           /\ frame = frames[Current] /\ frame \in Frames
           /\ frame.body # Unreadable /\ frame.body \in Seq(Bytes)
           /\ -start[Current] + 1 = Len(frame.bytes)
           /\ Current = Len(frames) => Len(frame.bytes) <= written
           /\ messages' = Append(messages, frame.body)
<1>1. /\ pc = "body" /\ ReadByte /\ Len(body) + 1 = contentLength
      /\ messages' = Append(messages, Append(body, Head(unread)))
  BY DEF EndOfBody
<1>2. PICK start, frame, place :
           /\ Starts(start) /\ Reading(start)
           /\ Current \in 1..Len(frames)
           /\ frame = frames[Current] /\ frame \in Frames
           /\ place = -start[Current] /\ place \in Nat
           /\ Current = Len(frames) => place + 1 <= written
           /\ frame.body # Unreadable /\ frame.body \in Seq(Bytes)
           /\ contentLength = Len(frame.body)
           /\ Len(frame.bytes) = Shape(frame).end + Len(frame.body)
           /\ place = Shape(frame).end + Len(body)
           /\ body \in Seq(Bytes) /\ \A i \in 1..Len(body) : body[i] = frame.body[i]
           /\ Head(unread) = frame.body[Len(body) + 1] /\ Head(unread) \in Bytes
  BY <1>1, InBody
<1>3. Append(body, Head(unread)) = frame.body
  <2> DEFINE whole == Append(body, Head(unread))
  <2>1. /\ whole \in Seq(Bytes) /\ Len(whole) = Len(frame.body)
        /\ \A i \in 1..Len(frame.body) : whole[i] = frame.body[i]
    BY <1>1, <1>2
  <2> HIDE DEF whole
  <2>2. whole = frame.body
    <3>1. whole \in [1..Len(frame.body) -> Bytes] /\ frame.body \in [1..Len(frame.body) -> Bytes]
      BY <1>2, <2>1
    <3> QED
      BY <2>1, <3>1
  <2> QED
    BY <2>2 DEF whole
<1>4. Shape(frame).end \in Nat /\ Len(body) \in Nat
  BY <1>2, FrameFacts
<1>5. place + 1 = Len(frame.bytes)
  BY <1>1, <1>2, <1>4
<1> QED
  BY <1>1, <1>2, <1>3, <1>5

\* The reader is at the beginning of the next frame.
LEMMA EndOfBodyKeeps == IndInv /\ EndOfBody => IndInv'
<1> SUFFICES ASSUME IndInv, EndOfBody PROVE IndInv'
  OBVIOUS
<1>1. TypeInv /\ ReadByte /\ pc' = "header" /\ line' = << >> /\ body' = << >> /\ contentLength' = -1
  BY DEF IndInv, EndOfBody, NextMessage
<1>2. PICK start, frame :
           /\ Starts(start) /\ Reading(start)
           /\ Current \in 1..Len(frames)
           /\ frame = frames[Current] /\ frame \in Frames
           /\ frame.body \in Seq(Bytes)
           /\ -start[Current] + 1 = Len(frame.bytes)
           /\ messages' = Append(messages, frame.body)
  BY ReturnsBody
<1>3. TypeInv'
  <2>1. messages' \in Seq(Seq(Bytes))
    BY <1>2 DEF IndInv, TypeInv
  <2> QED
    BY <1>1, <2>1, ReadKeepsTypes
<1> DEFINE moved == [k \in DOMAIN start |-> start[k] - 1]
<1>4. Starts(moved)'
  BY <1>1, <1>2, StartsMove
<1>5. /\ Current' = Current + 1 /\ frames' = frames /\ frames \in Seq(Frames)
      /\ Len(frames) \in Nat /\ Len(messages) \in Nat
      /\ Current' \in 1..(Len(frames) + 1)
  BY <1>1, <1>2 DEF TypeInv, ReadByte, Current
<1>6. /\ DOMAIN start = 1..(Len(frames) + 1)
      /\ start[Current] \in Int
      /\ start[Current + 1] = start[Current] + Len(frame.bytes)
      /\ Current + 1 \in 1..(Len(frames) + 1)
  <2>1. Current \in 1..(Len(frames) + 1)
    BY <1>2, <1>5
  <2> QED
    BY <1>2, <1>5, <2>1 DEF Starts
<1>7. Len(frame.bytes) \in Nat
  BY <1>2, FrameFacts
<1>8. moved[Current + 1] = 0
  BY <1>2, <1>6, <1>7
<1> HIDE DEF moved
<1>9. Fresh'
  BY <1>1 DEF Fresh
<1>10. ASSUME Current' <= Len(frames')
       PROVE  /\ 0 < Len(frames'[Current'].bytes)
              /\ ReaderAt(frames[Current], 0)'
  <2> DEFINE next == frames'[Current']
  <2>1. next \in Frames
    BY <1>5, <1>10
  <2> HIDE DEF next
  <2>2. /\ IsShape(next, Shape(next))
        /\ 0 < Len(next.bytes) /\ 0 < Shape(next).end
    BY <2>1, FrameFacts
  <2>3. line' = Shape(next).line[0 + 1] /\ contentLength' = Shape(next).length[0 + 1]
    BY <1>1, <2>2 DEF IsShape, Reads
  <2>4. frames'[Current'] = next
    BY DEF next
  <2> QED
    BY <1>1, <2>2, <2>3, <2>4 DEF ReaderAt
<1>11. Reading(moved)'
  <2>1. moved[Current'] = 0
    BY <1>5, <1>8
  <2>2. -moved[Current'] = 0 /\ moved[Current'] <= 0
    <3>1. \A x \in Int : x = 0 => -x <= 0 /\ -x >= 0 /\ -x \in Int
      OBVIOUS
    <3>2. \A y \in Int : y <= 0 /\ y >= 0 => y = 0
      OBVIOUS
    <3>3. moved[Current'] \in Int
      BY <2>1
    <3> QED
      BY <2>1, <3>1, <3>2, <3>3
  <2>3. Current' <= Len(frames') + 1
    BY <1>5
  <2> QED
    BY <1>9, <1>10, <2>1, <2>2, <2>3 DEF Reading
<1> QED
  BY <1>3, <1>4, <1>11 DEF IndInv

\* At the beginning nothing has been written or read.
LEMMA InitKeeps == Init => IndInv
<1> SUFFICES ASSUME Init PROVE IndInv
  OBVIOUS
<1>1. /\ frames = << >> /\ written = 0 /\ unread = << >> /\ pc = "header" /\ line = << >>
      /\ contentLength = -1 /\ body = << >> /\ messages = << >>
      /\ Len(frames) = 0 /\ Len(unread) = 0 /\ Len(messages) = 0
  BY DEF Init
<1>2. TypeInv
  BY <1>1 DEF TypeInv
<1> DEFINE start == [k \in 1..1 |-> 0]
<1>3. start \in [1..1 -> Int] /\ start[1] = 0
  OBVIOUS
<1> HIDE DEF start
<1>4. Starts(start)
  BY <1>1, <1>3 DEF Starts
<1>5. Reading(start)
  BY <1>1, <1>3 DEF Reading, Current, Fresh
<1> QED
  BY <1>2, <1>4, <1>5 DEF IndInv

\* The frame that is begun comes after the others.
LEMMA BeginFrameKeeps ==
  ASSUME IndInv, NEW frame \in Frames, BeginFrame(frame)
  PROVE  IndInv'
<1> DEFINE n == Len(frames)
<1>1. /\ frames' = Append(frames, frame) /\ written' = 0 /\ unread' = unread /\ pc' = pc
      /\ line' = line /\ contentLength' = contentLength /\ body' = body /\ messages' = messages
      /\ LastIsWritten
  BY DEF BeginFrame, readVars
<1>2. TypeInv /\ frames \in Seq(Frames) /\ n \in Nat /\ unread \in Seq(Bytes) /\ Len(unread) \in Nat
      /\ Len(messages) \in Nat
  BY DEF IndInv, TypeInv
<1>3. /\ frames' \in Seq(Frames) /\ Len(frames') = n + 1 /\ frames' # << >>
      /\ frames'[n + 1] = frame /\ \A k \in 1..n : frames'[k] = frames[k]
  BY <1>1, <1>2
<1>4. Len(frame.bytes) \in Nat /\ 0 < Len(frame.bytes)
  BY FrameFacts
<1>5. TypeInv'
  BY <1>1, <1>2, <1>3, <1>4 DEF TypeInv
<1>6. ASSUME pc # "stopped"
      PROVE  \E start : Starts(start)' /\ Reading(start)'
  <2>1. PICK start : Starts(start) /\ Reading(start)
    BY <1>6 DEF IndInv
  <2>2. DOMAIN start = 1..(n + 1) /\ \A k \in 1..(n + 1) : start[k] \in Int
    BY <2>1 DEF Starts
  <2>3. n + 1 \in 1..(n + 1) /\ \A k \in 1..n : k \in 1..(n + 1) /\ k + 1 \in 1..(n + 1)
    BY <1>2
  <2>4. \A k \in 1..n : Len(frames[k].bytes) \in Nat
    BY <1>2, FrameFacts
  <2>5. Len(unread) = start[n + 1]
    <3>1. CASE frames = << >>
      <4>1. n = 0 /\ Current = n + 1
        BY <1>2, <2>1, <3>1 DEF Reading, Current
      <4>2. start[n + 1] = 0
        BY <2>1, <4>1 DEF Reading
      <4> QED
        BY <2>1, <3>1, <4>2 DEF Starts
    <3>2. CASE frames # << >>
      <4>1. n \in 1..n /\ written = Len(frames[n].bytes)
        BY <1>1, <1>2, <3>2 DEF LastIsWritten, Last
      <4>2. Len(unread) = start[n] + written
        BY <2>1, <3>2 DEF Starts
      <4>3. start[n + 1] = start[n] + Len(frames[n].bytes)
        BY <2>1, <4>1 DEF Starts
      <4> QED
        BY <4>1, <4>2, <4>3
    <3> QED
      BY <3>1, <3>2
  <2>6. PICK longer :
          /\ longer \in [1..(n + 2) -> Int]
          /\ \A k \in 1..(n + 1) : longer[k] = start[k]
          /\ longer[n + 2] = start[n + 1] + Len(frame.bytes)
    <3> DEFINE more == [k \in 1..(n + 2) |-> IF k <= n + 1 THEN start[k] ELSE start[n + 1] + Len(frame.bytes)]
    <3>1. start[n + 1] + Len(frame.bytes) \in Int
      BY <1>4, <2>2, <2>3
    <3>2. \A k \in 1..(n + 2) : k <= n + 1 => k \in 1..(n + 1)
      BY <1>2
    <3>3. n + 2 \in 1..(n + 2) /\ ~ (n + 2 <= n + 1) /\ \A k \in 1..(n + 1) : k \in 1..(n + 2) /\ k <= n + 1
      BY <1>2
    <3>4. /\ more \in [1..(n + 2) -> Int]
          /\ \A k \in 1..(n + 1) : more[k] = start[k]
          /\ more[n + 2] = start[n + 1] + Len(frame.bytes)
      BY <2>2, <3>1, <3>2, <3>3
    <3> QED
      BY <3>4
  <2>7. ASSUME NEW k \in 1..Len(frames')
        PROVE  /\ longer[k + 1] = longer[k] + Len(frames'[k].bytes)
               /\ \A l \in 1..(Len(frames') + 1) : k < l => longer[k] + Len(frames'[k].bytes) <= longer[l]
    <3>1. CASE k \in 1..n
      <4>1. /\ longer[k + 1] = start[k + 1] /\ longer[k] = start[k] /\ frames'[k] = frames[k]
            /\ start[k + 1] = start[k] + Len(frames[k].bytes)
        BY <1>3, <2>1, <2>3, <2>6, <3>1 DEF Starts
      <4>2. ASSUME NEW l \in 1..(Len(frames') + 1), k < l
            PROVE  longer[k] + Len(frames'[k].bytes) <= longer[l]
        <5>1. CASE l \in 1..(n + 1)
          BY <2>1, <2>6, <3>1, <4>1, <4>2, <5>1 DEF Starts
        <5>2. CASE l = n + 2
          <6>1. start[k] + Len(frames[k].bytes) <= start[n + 1]
            <7>1. k < n + 1
              BY <1>2, <3>1
            <7> QED
              BY <2>1, <2>3, <3>1, <7>1 DEF Starts
          <6>2. start[k] + Len(frames[k].bytes) \in Int /\ start[n + 1] \in Int
            BY <2>2, <2>3, <2>4, <3>1
          <6>3. \A x, y \in Int, z \in Nat : x <= y => x <= y + z
            OBVIOUS
          <6> QED
            BY <1>4, <2>6, <4>1, <5>2, <6>1, <6>2, <6>3
        <5> QED
          BY <1>2, <1>3, <5>1, <5>2
      <4> QED
        BY <4>1, <4>2
    <3>2. CASE k = n + 1
      <4>1. longer[k + 1] = start[n + 1] + Len(frame.bytes) /\ longer[k] = start[n + 1]
            /\ frames'[k] = frame
        <5>1. k + 1 = n + 2
          BY <1>2, <3>2
        <5> QED
          BY <1>3, <2>3, <2>6, <3>2, <5>1
      <4>2. \A l \in 1..(Len(frames') + 1) : k < l => l = k + 1
        BY <1>2, <1>3, <3>2
      <4>3. start[n + 1] + Len(frame.bytes) <= start[n + 1] + Len(frame.bytes)
        BY <1>4, <2>2, <2>3
      <4> QED
        BY <4>1, <4>2, <4>3
    <3> QED
      BY <1>2, <1>3, <3>1, <3>2
  <2>8. Len(unread') = longer[Len(frames')] + written'
    <3>1. longer[n + 1] = start[n + 1] /\ start[n + 1] \in Int
      BY <2>2, <2>3, <2>6
    <3>2. \A x \in Int : x + 0 = x
      OBVIOUS
    <3> QED
      BY <1>1, <1>3, <2>5, <3>1, <3>2
  <2>9. ASSUME NEW k \in 1..Len(frames'), NEW j \in 1..Len(frames'[k].bytes),
               longer[k] + j \in 1..Len(unread')
        PROVE  unread'[longer[k] + j] = frames'[k].bytes[j]
    <3>1. CASE k \in 1..n
      BY <1>1, <1>3, <2>1, <2>3, <2>6, <2>9, <3>1 DEF Starts
    <3>2. CASE k = n + 1
      <4>1. longer[k] = Len(unread) /\ Len(unread') = Len(unread)
        BY <1>1, <2>3, <2>5, <2>6, <3>2
      <4>2. j \in Nat /\ j > 0
        BY <1>3, <1>4, <3>2
      <4> QED
        BY <1>2, <2>9, <4>1, <4>2
    <3> QED
      BY <1>2, <1>3, <3>1, <3>2
  <2>10. Starts(longer)'
    <3>1. Len(frames') + 1 = n + 2
      BY <1>2, <1>3
    <3>2. longer \in [1..(Len(frames') + 1) -> Int]
      BY <2>6, <3>1
    <3>3. Len(unread') = IF frames' = << >> THEN 0 ELSE longer[Len(frames')] + written'
      BY <1>3, <2>8
    <3>4. \A k \in 1..Len(frames') : longer[k + 1] = longer[k] + Len(frames'[k].bytes)
      BY <2>7
    <3>5. \A k \in 1..Len(frames'), l \in 1..(Len(frames') + 1) :
            k < l => longer[k] + Len(frames'[k].bytes) <= longer[l]
      BY <2>7
    <3>6. \A k \in 1..Len(frames') : \A j \in 1..Len(frames'[k].bytes) :
            longer[k] + j \in 1..Len(unread') => unread'[longer[k] + j] = frames'[k].bytes[j]
      BY <2>9
    <3> QED
      BY <3>2, <3>3, <3>4, <3>5, <3>6 DEF Starts
  <2>11. Current' = Current /\ Current \in 1..(n + 1) /\ longer[Current] = start[Current]
    BY <1>1, <1>2, <2>1, <2>6 DEF Current, Reading
  <2>12. Reading(longer)'
    <3>1. Current' <= Len(frames') + 1 /\ longer[Current'] <= 0 /\ Current' # Len(frames') + 1
      <4>1. start[Current] <= 0
        BY <2>1 DEF Reading
      <4> QED
        BY <1>2, <1>3, <2>11, <4>1
    <3>2. CASE Current \in 1..n
      <4>1. frames'[Current'] = frames[Current]
        BY <1>3, <2>11, <3>2
      <4>2. /\ -start[Current] < Len(frames[Current].bytes)
            /\ ReaderAt(frames[Current], -start[Current])
        BY <1>2, <2>1, <3>2 DEF Reading
      <4>3. -longer[Current'] < Len(frames'[Current'].bytes)
        BY <2>11, <4>1, <4>2
      <4>4. ReaderAt(frames[Current], -longer[Current])'
        BY <1>1, <2>11, <4>1, <4>2 DEF ReaderAt
      <4> QED
        BY <3>1, <4>3, <4>4 DEF Reading
    <3>3. CASE Current = n + 1
      <4>1. start[Current] = 0 /\ Fresh
        BY <2>1, <3>3 DEF Reading
      <4>2. frames'[Current'] = frame /\ -longer[Current'] = 0
        <5>1. \A x \in Int : x = 0 => -x <= 0 /\ -x >= 0 /\ -x \in Int
          OBVIOUS
        <5>2. \A y \in Int : y <= 0 /\ y >= 0 => y = 0
          OBVIOUS
        <5>3. longer[Current'] = 0 /\ longer[Current'] \in Int
          BY <2>11, <4>1
        <5> QED
          BY <1>3, <2>11, <3>3, <5>1, <5>2, <5>3
      <4>3. ReaderAt(frame, 0)
        BY <4>1, FreshAtFrame
      <4>4. ReaderAt(frame, 0)'
        BY <1>1, <4>3 DEF ReaderAt
      <4>5. ReaderAt(frames[Current], -longer[Current])'
        BY <4>2, <4>4
      <4> QED
        BY <1>4, <3>1, <4>2, <4>5 DEF Reading
    <3> QED
      BY <1>2, <2>11, <3>2, <3>3
  <2> QED
    BY <2>10, <2>12
<1> QED
  BY <1>1, <1>5, <1>6 DEF IndInv

\* The byte that is written is the next one of the last frame, and of no other.
LEMMA WriteByteKeeps == IndInv /\ WriteByte => IndInv'
<1> SUFFICES ASSUME IndInv, WriteByte PROVE IndInv'
  OBVIOUS
<1> DEFINE n == Len(frames)
           last == frames[n]
<1>1. /\ frames' = frames /\ pc' = pc /\ written' = written + 1
      /\ line' = line /\ contentLength' = contentLength /\ body' = body /\ messages' = messages
      /\ unread' = Append(unread, last.bytes[written + 1])
      /\ frames # << >> /\ written # Len(last.bytes)
  BY DEF WriteByte, LastIsWritten, Last, readVars
<1>2. TypeInv /\ frames \in Seq(Frames) /\ n \in Nat /\ unread \in Seq(Bytes) /\ Len(unread) \in Nat
      /\ written \in Nat
  BY DEF IndInv, TypeInv
<1>3. n \in 1..n /\ last \in Frames
  BY <1>1, <1>2
<1>4. \A k \in 1..n : Len(frames[k].bytes) \in Nat
  BY <1>2, FrameFacts
<1>5. written + 1 <= Len(last.bytes) /\ written + 1 \in 1..Len(last.bytes)
      /\ last.bytes[written + 1] \in Bytes
  <2>1. last.bytes \in Seq(Bytes) /\ written <= Len(last.bytes)
    BY <1>1, <1>2, <1>3, FrameFacts DEF TypeInv
  <2> QED
    BY <1>1, <1>2, <2>1
<1>6. /\ unread' \in Seq(Bytes) /\ Len(unread') = Len(unread) + 1
      /\ unread'[Len(unread) + 1] = last.bytes[written + 1]
      /\ \A i \in 1..Len(unread) : unread'[i] = unread[i]
  BY <1>1, <1>2, <1>5
<1>7. TypeInv'
  BY <1>1, <1>2, <1>5, <1>6 DEF TypeInv
<1>8. ASSUME NEW start, Starts(start), Reading(start)
      PROVE  Starts(start)' /\ Reading(start)'
  <2>1. \A k \in 1..n : start[k] \in Int
    <3>1. \A k \in 1..n : k \in 1..(n + 1)
      BY <1>2
    <3> QED
      BY <1>8, <3>1 DEF Starts
  <2>2. Len(unread) = start[n] + written
    BY <1>1, <1>8 DEF Starts
  <2>3. Len(unread') = start[n] + written'
    <3>1. \A x \in Int, y \in Nat : (x + y) + 1 = x + (y + 1)
      OBVIOUS
    <3> QED
      BY <1>1, <1>2, <1>3, <1>6, <2>1, <2>2, <3>1
  <2>4. ASSUME NEW k \in 1..n, NEW j \in 1..Len(frames[k].bytes), start[k] + j \in 1..Len(unread')
        PROVE  unread'[start[k] + j] = frames[k].bytes[j]
    <3>1. j \in Nat /\ start[k] \in Int /\ start[n] \in Int /\ Len(frames[k].bytes) \in Nat
          /\ j <= Len(frames[k].bytes)
      BY <1>3, <1>4, <2>1
    <3>2. CASE start[k] + j \in 1..Len(unread)
      BY <1>6, <1>8, <3>2 DEF Starts
    <3>3. CASE start[k] + j = Len(unread) + 1
      <4>1. k = n
        <5> SUFFICES ASSUME k # n PROVE FALSE
          OBVIOUS
        <5>1. k < n /\ n \in 1..(n + 1)
          BY <1>2
        <5>2. start[k] + Len(frames[k].bytes) <= start[n]
          BY <1>8, <5>1 DEF Starts
        <5>3. \A a, b \in Int, c, d, w \in Nat : c <= d /\ a + d <= b => a + c # (b + w) + 1
          OBVIOUS
        <5> QED
          BY <1>2, <2>2, <3>1, <3>3, <5>2, <5>3
      <4>2. j = written + 1
        <5>1. \A a \in Int, c, w \in Nat : a + c = (a + w) + 1 => c = w + 1
          OBVIOUS
        <5> QED
          BY <1>2, <2>2, <3>1, <3>3, <4>1, <5>1
      <4> QED
        BY <1>6, <3>3, <4>1, <4>2
    <3>4. start[k] + j \in 1..Len(unread) \/ start[k] + j = Len(unread) + 1
      BY <1>2, <1>6, <2>4
    <3> QED
      BY <3>2, <3>3, <3>4
  <2>5. Starts(start)'
    BY <1>1, <1>8, <2>3, <2>4 DEF Starts
  <2>6. Reading(start)'
    BY <1>1, <1>8 DEF Reading, Current, ReaderAt, Fresh
  <2> QED
    BY <2>5, <2>6
<1> QED
  BY <1>1, <1>7, <1>8 DEF IndInv

\* Nothing that is written or read changes.
LEMMA RestKeeps ==
  ASSUME IndInv, UNCHANGED <<frames, written, unread, line, contentLength, body, messages>>,
         pc' \in {pc, "stopped"}
  PROVE  IndInv'
<1>1. TypeInv'
  BY DEF IndInv, TypeInv
<1>2. ASSUME pc' # "stopped", NEW start, Starts(start), Reading(start)
      PROVE  Starts(start)' /\ Reading(start)'
  <2>1. pc' = pc
    BY <1>2
  <2>2. Starts(start)'
    BY <1>2 DEF Starts
  <2>3. Reading(start)'
    BY <1>2, <2>1 DEF Reading, Current, ReaderAt, Fresh
  <2> QED
    BY <2>2, <2>3
<1> QED
  BY <1>1, <1>2 DEF IndInv

\* Every step keeps the invariant.
LEMMA StepKeeps == IndInv /\ [Next]_vars => IndInv'
<1> SUFFICES ASSUME IndInv, [Next]_vars PROVE IndInv'
  OBVIOUS
<1>1. CASE \E frame \in Frames : BeginFrame(frame)
  BY <1>1, BeginFrameKeeps
<1>2. CASE WriteByte
  BY <1>2, WriteByteKeeps
<1>3. CASE Leave
  BY <1>3, RestKeeps DEF Leave, readVars
<1>4. CASE Read
  <2>1. CASE ReadOfLine \/ EndOfLine
    BY <2>1, HeaderByteKeeps
  <2>2. CASE EndOfHeader
    BY <2>2, EndOfHeaderKeeps
  <2>3. CASE ReadOfBody
    BY <2>3, ReadOfBodyKeeps
  <2>4. CASE EndOfBody
    BY <2>4, EndOfBodyKeeps
  <2>5. CASE EndOfInput
    BY <2>5, RestKeeps DEF EndOfInput, pipeVars
  <2> QED
    BY <1>4, <2>1, <2>2, <2>3, <2>4, <2>5 DEF Read
<1>5. CASE UNCHANGED vars
  BY <1>5, RestKeeps DEF vars, pipeVars, readVars
<1> QED
  BY <1>1, <1>2, <1>3, <1>4, <1>5 DEF Next, Ended

\* The invariant holds in every reachable state.
LEMMA IndInvHolds == Spec => []IndInv
<1> QED
  BY InitKeeps, StepKeeps, PTL DEF Spec

-----------------------------------------------------------------------------
(* The messages.                                                           *)

\* Sequences are the same when they are as long and hold the same.
LEMMA SameSequence ==
  ASSUME NEW S, NEW s \in Seq(S), NEW t \in Seq(S), Len(s) = Len(t),
         \A i \in 1..Len(s) : s[i] = t[i]
  PROVE  s = t
<1>1. s \in [1..Len(s) -> S] /\ t \in [1..Len(s) -> S]
  OBVIOUS
<1> QED
  BY <1>1

\* How many of the frames count as messages, and what they hold.
WholeOf(f, w) == IF f # << >> => w >= Last(f).due THEN Len(f) ELSE Len(f) - 1
SentOf(f, w) ==
    LET whole == IF f # << >> => w >= Last(f).due THEN f ELSE Front(f)
    IN  [i \in DOMAIN whole |-> whole[i].body]

\* The messages that are sent are the bodies of the first frames, all but the last
\* one or all.
LEMMA SentFacts ==
  ASSUME NEW f \in Seq(Frames), NEW w
  PROVE  /\ WholeOf(f, w) \in 0..Len(f)
         /\ SentOf(f, w) \in Seq(Bodies \cup {Unreadable})
         /\ Len(SentOf(f, w)) = WholeOf(f, w)
         /\ \A i \in 1..WholeOf(f, w) : SentOf(f, w)[i] = f[i].body
<1> DEFINE whole == IF f # << >> => w >= Last(f).due THEN f ELSE Front(f)
           n == WholeOf(f, w)
<1>0. Len(f) \in Nat /\ (f # << >> => Len(f) > 0)
  OBVIOUS
<1>1. n \in 0..Len(f) /\ n \in Nat
  BY <1>0 DEF WholeOf
<1>2. /\ DOMAIN whole = 1..n
      /\ \A i \in 1..n : whole[i] = f[i] /\ f[i] \in Frames
  <2>1. CASE f # << >> => w >= Last(f).due
    BY <2>1 DEF WholeOf
  <2>2. CASE ~ (f # << >> => w >= Last(f).due)
    <3>1. n = Len(f) - 1 /\ whole = SubSeq(f, 1, Len(f) - 1)
      BY <2>2 DEF WholeOf, Front
    <3>2. DOMAIN SubSeq(f, 1, Len(f) - 1) = 1..(Len(f) - 1)
          /\ \A i \in 1..(Len(f) - 1) : SubSeq(f, 1, Len(f) - 1)[i] = f[i] /\ f[i] \in Frames
      BY <1>0, <2>2
    <3> QED
      BY <3>1, <3>2
  <2> QED
    BY <2>1, <2>2
<1> DEFINE sent == [i \in DOMAIN whole |-> whole[i].body]
<1>3. SentOf(f, w) = sent
  BY DEF SentOf
<1> HIDE DEF whole, n
<1>4. sent \in [1..n -> Bodies \cup {Unreadable}] /\ \A i \in 1..n : sent[i] = f[i].body
  BY <1>2, FrameFacts
<1> HIDE DEF sent
<1>5. sent \in Seq(Bodies \cup {Unreadable}) /\ Len(sent) = n
  BY <1>1, <1>4
<1> QED
  BY <1>1, <1>3, <1>4, <1>5 DEF n

\* What the refinement takes for sent, before and after a step.
LEMMA SentIs == Sent = SentOf(frames, written) /\ Sent' = SentOf(frames', written')
BY DEF Sent, SentOf

\* At the beginning nothing has been sent.
LEMMA InitIsPipeInit == Init => Pipe!Init
<1> SUFFICES ASSUME Init PROVE Pipe!Init
  OBVIOUS
<1>1. frames = << >> /\ messages = << >> /\ open = TRUE /\ pc = "header" /\ frames \in Seq(Frames)
  BY DEF Init
<1>2. WholeOf(frames, written) = 0
  BY <1>1 DEF WholeOf
<1>3. Sent \in Seq(Bodies \cup {Unreadable}) /\ Len(Sent) = 0
  BY <1>1, <1>2, SentFacts, SentIs
<1>4. Sent = << >>
  BY <1>3
<1> QED
  BY <1>1, <1>4 DEF Pipe!Init

\* A frame that is begun is no message yet.
LEMMA BeginFrameIsNoStep ==
  ASSUME IndInv, NEW frame \in Frames, BeginFrame(frame)
  PROVE  UNCHANGED Pipe!vars
<1>1. /\ frames' = Append(frames, frame) /\ written' = 0 /\ LastIsWritten
      /\ UNCHANGED <<open, pc, messages>>
  BY DEF BeginFrame, readVars
<1>2. frames \in Seq(Frames) /\ Len(frames) \in Nat
  BY DEF IndInv, TypeInv
<1>3. /\ frames' \in Seq(Frames) /\ Len(frames') = Len(frames) + 1 /\ frames' # << >>
      /\ frames'[Len(frames')] = frame
      /\ \A k \in 1..Len(frames) : frames'[k] = frames[k]
  BY <1>1, <1>2
<1>4. WholeOf(frames, written) = Len(frames)
  <2>1. CASE frames = << >>
    BY <2>1 DEF WholeOf
  <2>2. CASE frames # << >>
    <3>1. Last(frames) \in Frames /\ written = Len(Last(frames).bytes)
      BY <1>1, <1>2, <2>2 DEF LastIsWritten, Last
    <3>2. written >= Last(frames).due
      BY <3>1, FrameFacts
    <3> QED
      BY <3>2 DEF WholeOf
  <2> QED
    BY <2>1, <2>2
<1>5. WholeOf(frames', written') = Len(frames)
  <2>1. frame.due \in Nat /\ ~ (0 >= frame.due)
    BY FrameFacts
  <2>2. Last(frames') = frame
    BY <1>3 DEF Last
  <2> QED
    BY <1>1, <1>2, <1>3, <2>1, <2>2 DEF WholeOf
<1>6. Sent' = Sent
  <2>1. /\ Sent \in Seq(Bodies \cup {Unreadable}) /\ Len(Sent) = Len(frames)
        /\ \A i \in 1..Len(frames) : Sent[i] = frames[i].body
    BY <1>2, <1>4, SentFacts, SentIs
  <2>2. /\ Sent' \in Seq(Bodies \cup {Unreadable}) /\ Len(Sent') = Len(frames)
        /\ \A i \in 1..Len(frames) : Sent'[i] = frames'[i].body
    BY <1>3, <1>5, SentFacts, SentIs
  <2> QED
    BY <1>3, <2>1, <2>2, SameSequence
<1> QED
  BY <1>1, <1>6 DEF Pipe!vars

\* A byte that is written makes a message of the last frame, or does nothing.
LEMMA WriteByteIsSend == IndInv /\ WriteByte => [Pipe!Next]_Pipe!vars
<1> SUFFICES ASSUME IndInv, WriteByte PROVE [Pipe!Next]_Pipe!vars
  OBVIOUS
<1> DEFINE n == Len(frames)
           last == frames[n]
<1>1. /\ frames' = frames /\ written' = written + 1 /\ open /\ frames # << >>
      /\ UNCHANGED <<open, pc, messages>>
  BY DEF WriteByte, LastIsWritten, readVars
<1>2. frames \in Seq(Frames) /\ n \in Nat /\ n > 0 /\ written \in Nat
  BY <1>1 DEF IndInv, TypeInv
<1>3. last \in Frames /\ Last(frames) = last /\ last.due \in Nat /\ n \in 1..n
  <2>1. last \in Frames /\ Last(frames) = last /\ n \in 1..n
    BY <1>2 DEF Last
  <2> QED
    BY <2>1, FrameFacts
<1>4. /\ WholeOf(frames, written) = IF written >= last.due THEN n ELSE n - 1
      /\ WholeOf(frames', written') = IF written + 1 >= last.due THEN n ELSE n - 1
  BY <1>1, <1>3 DEF WholeOf
<1>5. /\ Sent \in Seq(Bodies \cup {Unreadable}) /\ Len(Sent) = WholeOf(frames, written)
      /\ \A i \in 1..Len(Sent) : Sent[i] = frames[i].body
      /\ Sent' \in Seq(Bodies \cup {Unreadable}) /\ Len(Sent') = WholeOf(frames', written')
      /\ \A i \in 1..Len(Sent') : Sent'[i] = frames[i].body
  BY <1>1, <1>2, SentFacts, SentIs
<1>6. CASE written + 1 = last.due
  <2>1. Len(Sent) = n - 1 /\ Len(Sent') = n
    BY <1>2, <1>3, <1>4, <1>5, <1>6
  <2>2. last.body \in Bodies \cup {Unreadable}
    BY <1>3, FrameFacts
  <2> DEFINE more == Append(Sent, last.body)
  <2>3. /\ more \in Seq(Bodies \cup {Unreadable}) /\ Len(more) = n
        /\ more[n] = last.body /\ \A i \in 1..(n - 1) : more[i] = frames[i].body
    BY <1>2, <1>5, <2>1, <2>2
  <2> HIDE DEF more
  <2>4. \A i \in 1..n : Sent'[i] = more[i]
    BY <1>2, <1>5, <2>1, <2>3
  <2>5. Sent' = more
    BY <1>5, <2>1, <2>3, <2>4, SameSequence
  <2>6. Pipe!Send(last.body)
    BY <1>1, <2>5 DEF Pipe!Send, more
  <2> QED
    BY <2>2, <2>6 DEF Pipe!Next
<1>7. CASE written + 1 # last.due
  <2>1. Len(Sent') = Len(Sent)
    BY <1>2, <1>3, <1>4, <1>5, <1>7
  <2>2. \A i \in 1..Len(Sent') : Sent'[i] = Sent[i]
    BY <1>5, <2>1
  <2>3. Sent' = Sent
    BY <1>5, <2>1, <2>2, SameSequence
  <2> QED
    BY <1>1, <2>3 DEF Pipe!vars
<1> QED
  BY <1>6, <1>7

\* A frame that has been read up to a byte that makes a message of it is the
\* next message to take.
LEMMA NextIsCurrent ==
  ASSUME IndInv, Current \in 1..Len(frames),
         Current = Len(frames) => written >= frames[Current].due
  PROVE  ~ Pipe!AllTaken /\ Pipe!NextToTake = frames[Current].body
<1>1. frames \in Seq(Frames) /\ Len(frames) \in Nat /\ Len(messages) \in Nat
  BY DEF IndInv, TypeInv
<1>2. Current \in 1..WholeOf(frames, written) /\ WholeOf(frames, written) \in Nat
  <2>1. CASE Current = Len(frames)
    <3>1. Last(frames) = frames[Current]
      BY <2>1 DEF Last
    <3> QED
      BY <1>1, <2>1, <3>1 DEF WholeOf
  <2>2. CASE Current # Len(frames)
    BY <1>1, <2>2 DEF WholeOf
  <2> QED
    BY <2>1, <2>2
<1>3. Len(Sent) = WholeOf(frames, written) /\ Sent[Current] = frames[Current].body
  BY <1>1, <1>2, SentFacts, SentIs
<1>4. Len(messages) # Len(Sent)
  BY <1>1, <1>2, <1>3 DEF Current
<1> QED
  BY <1>3, <1>4 DEF Pipe!AllTaken, Pipe!NextToTake, Current

\* A header of no use ends the loop at the message it belongs to.
LEMMA EndOfHeaderIsEnd == IndInv /\ EndOfHeader => [Pipe!Next]_Pipe!vars
<1> SUFFICES ASSUME IndInv, EndOfHeader PROVE [Pipe!Next]_Pipe!vars
  OBVIOUS
<1>1. /\ pc = "header" /\ messages' = messages /\ UNCHANGED <<frames, written, open>>
      /\ pc' = IF contentLength <= 0 THEN "stopped" ELSE "body"
  BY DEF EndOfHeader, ReadByte
<1>2. Sent' = Sent
  BY <1>1, SentIs
<1>3. CASE contentLength <= 0
  <2>1. PICK start, frame, place :
           /\ Current \in 1..Len(frames)
           /\ frame = frames[Current] /\ frame \in Frames
           /\ Current = Len(frames) => place + 1 <= written
           /\ place + 1 = Shape(frame).end
           /\ contentLength = Shape(frame).length[Shape(frame).end]
    BY EndOfHeaderAt
  <2>2. IsShape(frame, Shape(frame)) /\ Shape(frame).end \in Nat
    BY <2>1, FrameFacts
  <2>3. frame.body = Unreadable
    <3> SUFFICES ASSUME frame.body # Unreadable PROVE FALSE
      OBVIOUS
    <3>1. contentLength = Len(frame.body) /\ Len(frame.body) > 0 /\ Len(frame.body) \in Nat
      BY <2>1, <2>2 DEF IsShape
    <3> QED
      BY <1>3, <3>1
  <2>4. frame.due = Shape(frame).end
    BY <2>2, <2>3 DEF IsShape
  <2>5. Current = Len(frames) => written >= frame.due
    <3>1. written \in Nat
      BY DEF IndInv, TypeInv
    <3> QED
      BY <2>1, <2>2, <2>4, <3>1
  <2>6. ~ Pipe!AllTaken /\ Pipe!NextToTake = Unreadable
    BY <2>1, <2>3, <2>5, NextIsCurrent
  <2>7. Pipe!End
    BY <1>1, <1>2, <1>3, <2>6 DEF Pipe!End
  <2> QED
    BY <2>7 DEF Pipe!Next
<1>4. CASE ~ (contentLength <= 0)
  BY <1>1, <1>2, <1>4 DEF Pipe!vars
<1> QED
  BY <1>3, <1>4

\* The last byte of a body takes the message.
LEMMA EndOfBodyIsTake == IndInv /\ EndOfBody => Pipe!Take
<1> SUFFICES ASSUME IndInv, EndOfBody PROVE Pipe!Take
  OBVIOUS
<1>1. pc = "body" /\ pc' = "header" /\ UNCHANGED <<frames, written, open>>
  BY DEF EndOfBody, ReadByte, NextMessage
<1>2. Sent' = Sent
  BY <1>1, SentIs
<1>3. PICK start, frame :
           /\ Current \in 1..Len(frames)
           /\ frame = frames[Current] /\ frame \in Frames
           /\ frame.body # Unreadable
           /\ Current = Len(frames) => Len(frame.bytes) <= written
           /\ messages' = Append(messages, frame.body)
  BY ReturnsBody
<1>4. Current = Len(frames) => written >= frame.due
  <2>1. written \in Nat
    BY DEF IndInv, TypeInv
  <2>2. frame.due \in 1..Len(frame.bytes) /\ Len(frame.bytes) \in Nat
    BY <1>3, FrameFacts
  <2> QED
    BY <1>3, <2>1, <2>2
<1>5. ~ Pipe!AllTaken /\ Pipe!NextToTake = frame.body
  BY <1>3, <1>4, NextIsCurrent
<1> QED
  BY <1>1, <1>2, <1>3, <1>5 DEF Pipe!Take

\* At the end of the input every whole message has been taken.
LEMMA NothingIsLeft ==
  ASSUME IndInv, pc # "stopped", unread = << >>
  PROVE  Pipe!AllTaken
<1>1. PICK start : Starts(start) /\ Reading(start)
  BY DEF IndInv
<1> DEFINE n == Len(frames)
<1>2. frames \in Seq(Frames) /\ n \in Nat /\ Len(messages) \in Nat /\ written \in Nat /\ Len(unread) = 0
  BY DEF IndInv, TypeInv
<1>3. Len(Sent) = WholeOf(frames, written)
  BY <1>2, SentFacts, SentIs
<1>4. Current \in 1..(n + 1)
  BY <1>1, <1>2 DEF Reading, Current
<1>5. CASE frames = << >>
  <2>1. WholeOf(frames, written) = 0 /\ n = 0
    BY <1>5 DEF WholeOf
  <2>2. Len(messages) = 0
    BY <1>2, <1>4, <2>1 DEF Current
  <2> QED
    BY <1>3, <2>1, <2>2 DEF Pipe!AllTaken
<1>6. CASE frames # << >>
  <2> DEFINE last == frames[n]
  <2>1. n \in 1..n /\ n \in 1..(n + 1) /\ last \in Frames /\ Last(frames) = last
    BY <1>2, <1>6 DEF Last
  <2>2. start[n] + written = 0 /\ start[n] \in Int /\ start[n + 1] = start[n] + Len(last.bytes)
    BY <1>1, <1>2, <1>6, <2>1 DEF Starts
  <2>3. Len(last.bytes) \in Nat /\ last.due \in 1..Len(last.bytes) /\ IsShape(last, Shape(last))
        /\ Shape(last).end \in 1..(Len(last.bytes) - 1)
    BY <2>1, FrameFacts
  <2>4. CASE Current = n + 1
    <3>1. start[n + 1] = 0
      BY <1>1, <2>4 DEF Reading
    <3>2. written = Len(last.bytes)
      BY <1>2, <2>2, <2>3, <3>1
    <3>3. WholeOf(frames, written) = n
      BY <2>1, <2>3, <3>2 DEF WholeOf
    <3>4. Len(messages) = n
      BY <1>2, <2>4 DEF Current
    <3> QED
      BY <1>3, <3>3, <3>4 DEF Pipe!AllTaken
  <2>5. CASE Current \in 1..n
    <3>1. /\ -start[Current] < Len(frames[Current].bytes)
          /\ ReaderAt(frames[Current], -start[Current])
      BY <1>1, <1>2, <2>5 DEF Reading
    <3>2. Current = n
      <4> SUFFICES ASSUME Current # n PROVE FALSE
        OBVIOUS
      <4>1. Current < n /\ Current \in 1..(n + 1)
        BY <1>2, <2>5
      <4>2. start[Current] + Len(frames[Current].bytes) <= start[n]
        BY <1>1, <2>1, <2>5, <4>1 DEF Starts
      <4>3. start[Current] \in Int /\ Len(frames[Current].bytes) \in Nat
        <5>1. frames[Current] \in Frames
          BY <1>2, <2>5
        <5> QED
          BY <1>1, <4>1, <5>1, FrameFacts DEF Starts
      <4>4. \A a, b \in Int, l, w \in Nat : a + l <= b /\ b + w = 0 => ~ (-a < l)
        OBVIOUS
      <4> QED
        BY <1>2, <2>2, <3>1, <4>2, <4>3, <4>4
    <3>3. -start[Current] = written
      <4>1. \A a \in Int, w \in Nat : a + w = 0 => -a = w
        OBVIOUS
      <4> QED
        BY <1>2, <2>2, <3>2, <4>1
    <3>4. written < Len(last.bytes) /\ ReaderAt(last, written)
      BY <3>1, <3>2, <3>3
    <3>5. ~ (written >= last.due)
      <4>1. CASE last.body = Unreadable
        <5>1. written < Shape(last).end
          BY <3>4, <4>1 DEF ReaderAt
        <5> QED
          BY <1>2, <2>3, <4>1, <5>1 DEF IsShape
      <4>2. CASE last.body # Unreadable
        BY <1>2, <2>3, <3>4, <4>2 DEF IsShape
      <4> QED
        BY <4>1, <4>2
    <3>6. WholeOf(frames, written) = n - 1
      BY <1>6, <2>1, <3>5 DEF WholeOf
    <3>7. Len(messages) = n - 1
      BY <1>2, <3>2 DEF Current
    <3> QED
      BY <1>3, <3>6, <3>7 DEF Pipe!AllTaken
  <2> QED
    BY <1>2, <1>4, <2>4, <2>5
<1> QED
  BY <1>5, <1>6

\* Every step is one of the pipe's, or none.
LEMMA StepIsPipeStep == IndInv /\ [Next]_vars => [Pipe!Next]_Pipe!vars
<1> SUFFICES ASSUME IndInv, [Next]_vars PROVE [Pipe!Next]_Pipe!vars
  OBVIOUS
<1>1. CASE \E frame \in Frames : BeginFrame(frame)
  BY <1>1, BeginFrameIsNoStep
<1>2. CASE WriteByte
  BY <1>2, WriteByteIsSend
<1>3. CASE Leave
  <2>1. Sent' = Sent /\ open /\ open' = FALSE /\ UNCHANGED <<messages, pc>>
    BY <1>3, SentIs DEF Leave, readVars
  <2> QED
    BY <2>1 DEF Pipe!Close, Pipe!Next
<1>4. CASE ReadOfLine \/ EndOfLine \/ ReadOfBody
  <2>1. UNCHANGED <<frames, written, open, messages, pc>>
    BY <1>4 DEF ReadOfLine, EndOfLine, ReadOfBody, ReadByte
  <2> QED
    BY <2>1, SentIs DEF Pipe!vars
<1>5. CASE EndOfHeader
  BY <1>5, EndOfHeaderIsEnd
<1>6. CASE EndOfBody
  BY <1>6, EndOfBodyIsTake DEF Pipe!Next
<1>7. CASE EndOfInput
  <2>1. pc # "stopped" /\ ~open /\ unread = << >> /\ pc' = "stopped"
        /\ UNCHANGED <<frames, written, open, messages>>
    BY <1>7 DEF EndOfInput, pipeVars
  <2>2. Pipe!AllTaken
    BY <2>1, NothingIsLeft
  <2>3. Pipe!End
    BY <2>1, <2>2, SentIs DEF Pipe!End
  <2> QED
    BY <2>3 DEF Pipe!Next
<1>8. CASE UNCHANGED vars
  BY <1>8, SentIs DEF vars, pipeVars, readVars, Pipe!vars
<1> QED
  BY <1>1, <1>2, <1>3, <1>4, <1>5, <1>6, <1>7, <1>8 DEF Next, Read, Ended

\* Whatever the bodies of the messages are and however many there are, readMessage
\* makes a pipe of whole messages of the bytes: write's frames and those of other
\* programs are taken as they were sent, in their order, and the loop ends when
\* the editor is gone and nothing is left, or at a header of no use.
THEOREM LoopIsMessagePipe == Spec => IsMessagePipe
<1> QED
  BY InitIsPipeInit, StepIsPipeStep, IndInvHolds, PTL DEF Spec, IsMessagePipe, Pipe!Spec

=============================================================================
