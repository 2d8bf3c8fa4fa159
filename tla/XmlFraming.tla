----------------------------- MODULE XmlFraming -----------------------------
(***************************************************************************)
(* XMLLightweightParser and the decoder that feeds it: the bytes of a      *)
(* client come in chunks cut anywhere, and the parser cuts the stanzas out *)
(* of them.                                                                *)
(*                                                                         *)
(* A byte of ASCII is the string of its character.  "f1", "f2" are the two *)
(* bytes of one character, "e1", "e2", "e3" the three of another; decoded  *)
(* they are "F" and "E", and bytes without their character are "FFFD".     *)
(* The tag stream:stream is written "s" and ?xml is written "?".  The two  *)
(* halves of a surrogate pair come out of one decoding and are left out.   *)
(***************************************************************************)
EXTENDS Integers, Sequences, SequencesExt

CONSTANTS
    Streams,    \* what a client may send: sequences of stanzas and white space
    MaxBuffer   \* XMLLightweightParser.maxBufferSize, in characters

MaxBufferAssumption == MaxBuffer \in Nat

VARIABLES
    stream,  \* what the client sends
    taken,   \* how many of its bytes have arrived
    kept,    \* the byte left in the decoder's buffer
    parser,  \* the fields of XMLLightweightParser
    out      \* the stanzas the decoder has written

vars == <<stream, taken, kept, parser, out>>

CDATA_START == <<"<", "!", "[", "C", "D", "A", "T", "A", "[">>
CDATA_END == <<"]", "]", ">">>
Name(letter) == <<letter, ">">>
Closing == <<"/", "s", ">">>

\* `at' is the loop's place in the buffer: what its index computes the end from.
Fresh == [status |-> "INIT", cdataOffset |-> 0, tailCount |-> 0, startLastMsg |-> 0,
          insideRootTag |-> FALSE, head |-> <<>>, depth |-> 0,
          buffer |-> <<>>, at |-> 0, msgs |-> <<>>, failed |-> FALSE]

Bytes == FlattenSeq(stream)

Init ==
    /\ stream \in Streams
    /\ taken = 0 /\ kept = <<>>
    /\ parser = Fresh
    /\ out = <<>>

-----------------------------------------------------------------------------
(* The robot: what one character does in each status. *)

FoundMsg(p, msg) ==
    [p EXCEPT !.msgs = Append(@, msg), !.status = "INIT", !.tailCount = 0,
              !.cdataOffset = 0, !.head = <<>>, !.insideRootTag = FALSE, !.depth = 0]

\* The message that ends with the character just read.
FoundHere(p) ==
    [FoundMsg(p, SubSeq(p.buffer, p.startLastMsg + 1, p.at)) EXCEPT !.startLastMsg = p.at]

OnTail(p, ch) ==
    IF p.depth < 1 /\ ch = p.head[p.tailCount + 1]
    THEN IF p.tailCount + 1 = Len(p.head) THEN FoundHere(p)
         ELSE [p EXCEPT !.tailCount = @ + 1]
    ELSE [p EXCEPT !.tailCount = 0, !.status = "INSIDE"]

\* The next character of <![CDATA[, or not one.
MatchCdata(p, ch) ==
    IF ch = CDATA_START[p.cdataOffset + 1]
    THEN IF p.cdataOffset + 1 = Len(CDATA_START)
         THEN [p EXCEPT !.cdataOffset = 0, !.status = "INSIDE_CDATA"]
         ELSE [p EXCEPT !.cdataOffset = @ + 1]
    ELSE [p EXCEPT !.cdataOffset = 0, !.status = "INSIDE"]

OnPretail(p, ch) ==
    LET q == MatchCdata(p, ch) IN
    CASE q.status = "INSIDE_CDATA" -> q
      [] ch = "/" -> [q EXCEPT !.status = "TAIL", !.depth = @ - 1]
      [] ch = "!" -> [q EXCEPT !.status = "INSIDE"]
      [] OTHER -> [q EXCEPT !.depth = @ + 1]

OnVerifyCloseTag(p, ch) ==
    CASE ch = ">" /\ p.depth - 1 < 1 -> FoundHere(p)
      [] ch = ">" -> [p EXCEPT !.depth = @ - 1, !.status = "OUTSIDE"]
      [] ch = "<" -> [p EXCEPT !.status = "PRETAIL"]
      [] OTHER -> [p EXCEPT !.status = "INSIDE"]

OnCdata(p, ch) ==
    IF ch = CDATA_END[p.cdataOffset + 1]
    THEN IF p.cdataOffset + 1 = Len(CDATA_END)
         THEN [p EXCEPT !.cdataOffset = 0, !.status = "OUTSIDE"]
         ELSE [p EXCEPT !.cdataOffset = @ + 1]
    ELSE [p EXCEPT !.cdataOffset = 0]

\* The tag that opens a stream is a message of its own, from its "<" on.
FoundOpening(p) ==
    LET starts == {k \in p.startLastMsg .. p.at - 1 : p.buffer[k + 1] = "<"}
        first == CHOOSE k \in starts : \A l \in starts : k <= l
    IN FoundHere([p EXCEPT !.startLastMsg = first])

OnInside(p, ch) ==
    LET q == MatchCdata(p, ch) IN
    CASE q.status = "INSIDE_CDATA" -> q
      [] ch = "\"" -> [q EXCEPT !.status = "INSIDE_PARAM_VALUE"]
      [] ch = ">" /\ q.insideRootTag /\ q.head \in {Name("s"), Name("?")} -> FoundOpening(q)
      [] ch = ">" -> [q EXCEPT !.status = "OUTSIDE", !.insideRootTag = FALSE]
      [] ch = "/" -> [q EXCEPT !.status = "VERIFY_CLOSE_TAG"]
      [] OTHER -> q

OnHead(p, ch) ==
    CASE ch \in {" ", ">"} ->
            [p EXCEPT !.head = Append(@, ">"), !.insideRootTag = TRUE,
                      !.status = IF ch = ">" THEN "OUTSIDE" ELSE "INSIDE"]
      [] ch = "/" /\ p.head # <<>> ->
            [p EXCEPT !.head = Append(@, ch), !.status = "VERIFY_CLOSE_TAG", !.depth = @ - 1]
      [] OTHER -> [p EXCEPT !.head = Append(@, ch)]

OnInit(p, ch) ==
    IF ch = "<" THEN [p EXCEPT !.status = "HEAD", !.depth = 1]
    ELSE [p EXCEPT !.startLastMsg = @ + 1]

OnOutside(p, ch) ==
    IF ch = "<" THEN [p EXCEPT !.status = "PRETAIL", !.cdataOffset = 1] ELSE p

\* One turn of the loop; a control character ends it with an exception.
Robot(before, ch) ==
    LET p == [before EXCEPT !.at = @ + 1] IN
    CASE before.failed -> before
      [] ch = "ctl" -> [p EXCEPT !.failed = TRUE]
      [] p.status = "TAIL" -> OnTail(p, ch)
      [] p.status = "PRETAIL" -> OnPretail(p, ch)
      [] p.status = "VERIFY_CLOSE_TAG" -> OnVerifyCloseTag(p, ch)
      [] p.status = "INSIDE_PARAM_VALUE" ->
            (IF ch = "\"" THEN [p EXCEPT !.status = "INSIDE"] ELSE p)
      [] p.status = "INSIDE_CDATA" -> OnCdata(p, ch)
      [] p.status = "INSIDE" -> OnInside(p, ch)
      [] p.status = "HEAD" -> OnHead(p, ch)
      [] p.status = "INIT" -> OnInit(p, ch)
      [] p.status = "OUTSIDE" -> OnOutside(p, ch)

-----------------------------------------------------------------------------
(* read() *)

\* What comes before the next message is dropped.
InvalidateBuffer(p) ==
    [p EXCEPT !.buffer = SubSeq(@, p.startLastMsg + 1, Len(@)), !.startLastMsg = 0,
              !.at = Len(p.buffer) - p.startLastMsg]

\* CharsetDecoder.decode: what is left of a character at the end is one FFFD.
Decode(bytes) ==
    LET from[k \in 1 .. Len(bytes) + 1] ==
          CASE k > Len(bytes) -> <<>>
            [] bytes[k] = "f1" /\ k < Len(bytes) -> <<"F">> \o from[k + 2]
            [] bytes[k] = "e1" /\ k + 1 < Len(bytes) -> <<"E">> \o from[k + 3]
            [] bytes[k] \in {"f1", "e1"} -> <<"FFFD">>
            [] bytes[k] \in {"f2", "e2", "e3"} -> <<"FFFD">> \o from[k + 1]
            [] OTHER -> <<bytes[k]>> \o from[k + 1]
    IN from[1]

Blank(chars) == \A k \in DOMAIN chars : chars[k] = " "

\* Fault: the byte that is left over is not kept.
Rest_Dropped(bytes) == <<>>

\* The last byte stays with the decoder while its character is not complete.
Rest(bytes) == IF Last(Decode(bytes)) = "FFFD" THEN <<Last(bytes)>> ELSE <<>>

\* The characters read now: all that were decoded, but for a last incomplete one.
Chars(bytes) ==
    LET chars == Decode(bytes) IN IF Last(chars) = "FFFD" THEN Front(chars) ELSE chars

Parse(before, chars) ==
    LET p == [before EXCEPT !.buffer = @ \o chars]
        q == FoldLeft(Robot, p, chars)
    IN CASE chars = <<>> -> before
         [] Blank(p.buffer) -> [before EXCEPT !.buffer = <<>>]
         [] ~q.failed /\ q.head = Closing -> FoundMsg(q, <<"<", "/", "s", ">">>)
         [] OTHER -> q

\* XmppDecoder.doDecode: a chunk is read, and the messages found are written.
Receive(n) ==
    LET bytes == kept \o SubSeq(Bytes, taken + 1, taken + n)
        p == InvalidateBuffer(parser)
        q == Parse(p, Chars(bytes))
    IN /\ ~parser.failed
       /\ taken' = taken + n
       /\ IF Len(p.buffer) > MaxBuffer
          THEN parser' = [p EXCEPT !.failed = TRUE] /\ UNCHANGED <<kept, out>>
          ELSE IF q.failed
          THEN parser' = q /\ UNCHANGED <<kept, out>>
          ELSE /\ kept' = Rest(bytes)
               /\ out' = out \o q.msgs
               /\ parser' = IF q.msgs = <<>> THEN q ELSE InvalidateBuffer([q EXCEPT !.msgs = <<>>])
       /\ UNCHANGED stream

Next == \E n \in 1 .. Len(Bytes) - taken : Receive(n)
Spec == Init /\ [][Next]_vars

-----------------------------------------------------------------------------
TypeOK ==
    /\ taken \in 0 .. Len(Bytes)
    /\ Len(kept) \in {0, 1}
    /\ parser.startLastMsg \in 0 .. Len(parser.buffer)
    /\ parser.cdataOffset \in 0 .. Len(CDATA_START) - 1
    /\ parser.depth >= 0 /\ (parser.status = "INIT" => parser.depth = 0)
    /\ parser.msgs = <<>> \/ parser.failed
    /\ parser.head # <<>> => parser.tailCount < Len(parser.head)

\* What has arrived whole, however it was cut into chunks.
Arrived ==
    LET whole == SelectSeq([k \in DOMAIN stream |-> k],
                    LAMBDA k : Len(FlattenSeq(SubSeq(stream, 1, k))) <= taken)
        stanzas == SelectSeq(whole, LAMBDA k : ~Blank(stream[k]))
    IN [k \in DOMAIN stanzas |-> Decode(stream[stanzas[k]])]

\* Each stanza is written once, whole, in its order and with the chunk that
\* brings its end, wherever the chunks are cut: in a tag, in a character or in
\* the white space between two stanzas.
FramesAsSent == ~parser.failed => out = Arrived

\* The parser gives up for what the client sent, and not for how it was cut: a
\* control character, or a stanza longer than the buffer may grow.
FailsForCause ==
    parser.failed =>
        \/ \E k \in 1 .. taken : Bytes[k] = "ctl"
        \/ \E k \in DOMAIN stream : Len(stream[k]) > MaxBuffer
=============================================================================
