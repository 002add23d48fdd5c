----------------------------- MODULE HttpParser -----------------------------
(* How an HTTP message is read from a connection: http_parser_t, which is  *)
(* given the bytes in whatever pieces the socket returns them and parses   *)
(* again from the last complete element, and HttpRequest and HttpResponse, *)
(* which limit the size, answer "Expect: 100-continue" and skip interim    *)
(* (1xx) responses.                                                        *)
(*                                                                         *)
(* The unit of a stream is a token.  CR, LF, SP, COLON, NUL and the digits *)
(* are single bytes (SP is any blank), and every other token stands for a  *)
(* word the code compares as a whole ("Content-Length", "HTTP/1.0") or for *)
(* any other byte.  No token is a sign, so a chunk size is never negative. *)
(* Numbers have the width of their types, whose sizes are parameters.      *)
(* The loop of a parser looks at one byte at a time, so a word that is     *)
(* split in the middle is parsed like one that has not arrived.            *)
EXTENDS Integers, SequencesExt

CONSTANTS
    Streams,         \* what connections carry: records, see Init
    SizeLimit,       \* size_limit of the message
    StartLineMax,    \* HTTP_START_LINE_MAX
    HeaderNameMax,   \* HTTP_HEADER_NAME_MAX
    HeaderValueMax,  \* HTTP_HEADER_VALUE_MAX
    ChunkLineMax,    \* HTTP_CHUNK_LINE_MAX
    TrailerLineMax,  \* HTTP_TRAILER_LINE_MAX
    ChunkSizeMax,    \* CHUNK_SIZE_MAX
    IntValues,       \* 2^32, the number of values of an int
    SizeValues       \* 2^64, the number of values of a size_t and of a long

ASSUME HttpAssumption ==
    /\ {SizeLimit, StartLineMax, HeaderNameMax, HeaderValueMax, ChunkLineMax,
        TrailerLineMax, ChunkSizeMax, IntValues} \subseteq Nat \ {0}
    /\ SizeValues \in Nat /\ SizeValues > IntValues
    /\ SizeValues % 2 = 0 /\ IntValues % 2 = 0 /\ SizeValues % IntValues = 0

VARIABLES
    stream,     \* the stream of this connection
    delivered,  \* how much of it has been read
    msg         \* the message: parser, msgbuf, cur_size, what the last append
                \* returned and what was fed back

vars == <<stream, delivered, msg>>

CR == "CR"
LF == "LF"
SP == "SP"
COLON == ":"
NUL == "NUL"
NoLength == SizeValues - 1   \* (size_t)-1
More == 0        \* an append or a parser wants more bytes
NoMemory == -1
BadMessage == -2

-----------------------------------------------------------------------------
(* Searching in a sequence of tokens.                                      *)

(* Op(x), for an x that is computed once: Op may use it in many places.    *)
Then(x, Op(_)) == CHOOSE y \in {Op(z) : z \in {x}} : TRUE

(* The first position up to max of a token of S, or 0.                     *)
FirstOf(s, S, max) ==
    SelectInSubSeq(s, 1, IF Len(s) < max THEN Len(s) ELSE max, LAMBDA c : c \in S)

From(s, k) == SubSeq(s, k, Len(s))

StartsWithCRLF(s) == Len(s) >= 2 /\ s[1] = CR /\ s[2] = LF

DigitOf == [d \in {"0", "1", "2", "3"} |->
              CASE d = "0" -> 0 [] d = "1" -> 1 [] d = "2" -> 2 [] d = "3" -> 3]

LeadingDigits(s) ==
    LET k == SelectInSeq(s, LAMBDA c : c \notin DOMAIN DigitOf)
    IN  IF k = 0 THEN s ELSE SubSeq(s, 1, k - 1)

(* The number that the digits a string begins with stand for.              *)
Digits(s, base) ==
    FoldLeft(LAMBDA n, d : n * base + DigitOf[d], 0, LeadingDigits(s))

(* strtol, which stops at LONG_MAX; and atoi, its result as an int.        *)
Number(s, base) == Min({Digits(s, base), SizeValues \div 2 - 1})

AsInt(n) == ((n + IntValues \div 2) % IntValues) - IntValues \div 2

(* A number as a size_t.                                                   *)
AsSize(n) == n % SizeValues

TrimLeft(s) ==
    LET k == SelectInSeq(s, LAMBDA c : c # SP) IN IF k = 0 THEN <<>> ELSE From(s, k)

TrimRight(s) == Reverse(TrimLeft(Reverse(s)))

(* What a parser says of the bytes it was given: it consumed an element    *)
(* (1) or it stopped, for want of bytes, of memory or of a good message.   *)
Go(p) == [ret |-> 1, parser |-> p]
Stop(r, p) == [ret |-> r, parser |-> p]

(* Mutant of LineEndBody: a CR without its LF is refused at once.          *)
LineEndBodyHasty(s, k, max) ==
    CASE k = 0          -> IF Len(s) >= max THEN BadMessage ELSE More
      [] s[k] = NUL     -> BadMessage
      [] k = Len(s)     -> BadMessage
      [] s[k + 1] # LF  -> BadMessage
      [] OTHER          -> k

(* The loop of the start line, chunk line and trailer line: the position   *)
(* of the CR that ends the line, More or BadMessage.  A CR which is the    *)
(* last byte so far decides nothing.                                       *)
LineEndBody(s, k, max) ==
    CASE k = 0          -> IF Len(s) >= max THEN BadMessage ELSE More
      [] s[k] = NUL     -> BadMessage
      [] k = Len(s)     -> More
      [] s[k + 1] # LF  -> BadMessage
      [] OTHER          -> k

LineEnd(s, stops, max) == LineEndBody(s, FirstOf(s, stops, max), max)

-----------------------------------------------------------------------------
(* The header of the message.                                              *)

http_parser_init(is_resp) ==
    [header_state |-> "START_LINE", header_offset |-> 0,
     chunk_state |-> "CHUNK_DATA", chunk_offset |-> 0,
     transfer_length |-> NoLength,
     content_length |-> IF is_resp THEN NoLength ELSE 0,
     name |-> <<>>, code |-> <<>>, headers |-> <<>>,
     expect_continue |-> FALSE, keep_alive |-> TRUE, chunked |-> FALSE,
     complete |-> FALSE, is_resp |-> is_resp]

(* __match_request_line and __match_status_line, up to their strdups.      *)
MatchStartLine(p, first, second, third) ==
    LET version == IF p.is_resp THEN first ELSE third
        old == version = <<"HTTP/1.0">> \/ (version # <<>> /\ version[1] = "HTTP/0")
    IN  [p EXCEPT !.keep_alive = @ /\ ~old,
                  !.transfer_length =
                      IF /\ p.is_resp
                         /\ second # <<>>
                         /\ \/ second[1] = "1"
                            \/ second \in {<<"204">>, <<"304">>}
                      THEN 0 ELSE @]

(* The start line ends before position k: its parts lie around the first   *)
(* two blanks.                                                             *)
StartLine(p, s, k, nomem) ==
    LET line == SubSeq(s, 1, k - 1)
        sp1 == FirstOf(line, {SP}, Len(line))
        sp2 == SelectInSubSeq(line, sp1 + 1, Len(line), LAMBDA c : c = SP)
        code == SubSeq(line, sp1 + 1, sp2 - 1)
        matched == MatchStartLine(p, SubSeq(line, 1, sp1 - 1), code, From(line, sp2 + 1))
    IN  IF k <= 0 THEN Stop(k, p)
        ELSE IF sp1 = 0 \/ sp2 = 0 THEN Stop(BadMessage, p)
        ELSE IF nomem THEN Stop(NoMemory, matched)
        ELSE Go([matched EXCEPT !.code = code,
                                !.header_offset = @ + k + 1,
                                !.header_state = "HEADER_NAME"])

parse_start_line(p, s, nomem) ==
    IF StartsWithCRLF(s) THEN Go([p EXCEPT !.header_offset = @ + 2])
    ELSE Then(LineEnd(s, {CR, NUL}, StartLineMax), LAMBDA k : StartLine(p, s, k, nomem))

parse_header_name(p, s) ==
    LET k == FirstOf(s, {COLON, NUL}, HeaderNameMax)
    IN  IF StartsWithCRLF(s)
        THEN Go([p EXCEPT !.header_offset = @ + 2, !.header_state = "HEADER_COMPLETE"])
        ELSE IF k = 0
        THEN Stop(IF Len(s) >= HeaderNameMax THEN BadMessage ELSE More, p)
        ELSE IF s[k] = NUL THEN Stop(BadMessage, p)
        ELSE Go([p EXCEPT !.name = SubSeq(s, 1, k - 1),
                          !.header_offset = @ + k,
                          !.header_state = "HEADER_VALUE"])

(* __match_message_header before it adds the line to the list.             *)
MatchHeader(p, name, value) ==
    CASE name = <<"Expect">> ->
           [p EXCEPT !.expect_continue = @ \/ value = <<"100-continue">>]
      [] name = <<"Connection">> ->
           [p EXCEPT !.keep_alive = \/ value = <<"Keep-Alive">>
                                    \/ @ /\ value # <<"close">>]
      [] name = <<"Content-Length">> /\ LeadingDigits(value) # <<>> ->
           [p EXCEPT !.content_length = AsSize(AsInt(Number(value, 10)))]
      [] name = <<"Transfer-Encoding">> /\ value # <<"identity">> ->
           [p EXCEPT !.chunked = TRUE]
      [] OTHER -> p

(* The length a value has, blanks behind it included, when its end has     *)
(* come: the test that would fold a continuation line into it is always    *)
(* false, so that a value ends with its line, once one byte more is there. *)
ValueEnd(v) ==
    LET k == FirstOf(v, {CR, NUL}, Len(v))
        stop == IF k = 0 THEN Len(v) + 1 ELSE k
    IN  CASE stop > HeaderValueMax /\ Len(v) > HeaderValueMax -> BadMessage
          [] stop >= Len(v)      -> More
          [] v[stop] = NUL       -> BadMessage
          [] v[stop + 1] # LF    -> BadMessage
          [] stop + 1 = Len(v)   -> More
          [] OTHER               -> stop

(* The value v, after so many blanks, ends before position k.              *)
HeaderValue(p, v, k, blanks, nomem) ==
    LET value == TrimRight(SubSeq(v, 1, k - 1))
        matched == MatchHeader(p, p.name, value)
    IN  IF k <= 0 THEN Stop(k, p)
        ELSE IF nomem THEN Stop(NoMemory, matched)
        ELSE Go([matched EXCEPT !.headers = Append(@, <<p.name, value>>),
                                !.header_offset = @ + blanks + k + 1,
                                !.header_state = "HEADER_NAME"])

parse_header_value(p, s, nomem) ==
    Then(TrimLeft(s), LAMBDA v :
        Then(ValueEnd(v), LAMBDA k : HeaderValue(p, v, k, Len(s) - Len(v), nomem)))

RECURSIVE parse_message_header(_, _, _)
parse_message_header(p, buf, nomem) ==
    LET s == From(buf, p.header_offset + 1)
        step == CASE p.header_state = "START_LINE"   -> parse_start_line(p, s, nomem)
                  [] p.header_state = "HEADER_VALUE" -> parse_header_value(p, s, nomem)
                  [] p.header_state = "HEADER_NAME"  -> parse_header_name(p, s)
    IN  Then(step, LAMBDA r :
            IF r.ret > 0 /\ r.parser.header_state # "HEADER_COMPLETE"
            THEN parse_message_header(r.parser, buf, nomem) ELSE r)

-----------------------------------------------------------------------------
(* The chunks.                                                             *)

(* Mutant of ChunkOverhead: the CR LF after the data is not counted.       *)
ChunkOverheadShort(k) == k + 1

(* What a chunk takes besides its data: its line, and CR LF after both.    *)
ChunkOverhead(k) == k + 3

(* The chunk line ends before position k.                                  *)
ChunkData(p, s, k) ==
    LET digits == TrimLeft(SubSeq(s, 1, k - 1))
        size == Number(digits, 16)
    IN  IF k <= 0 THEN Stop(k, p)
        ELSE IF LeadingDigits(digits) = <<>> THEN Stop(BadMessage, p)
        ELSE IF size = 0
        THEN Go([p EXCEPT !.chunk_offset = @ + k + 1, !.chunk_state = "TRAILER_PART"])
        ELSE IF size >= ChunkSizeMax THEN Stop(BadMessage, p)
        ELSE IF Len(s) < size + ChunkOverhead(k) THEN Stop(More, p)
        ELSE Go([p EXCEPT !.chunk_offset = @ + size + ChunkOverhead(k)])

parse_chunk_data(p, s) ==
    Then(LineEnd(s, {CR}, ChunkLineMax), LAMBDA k : ChunkData(p, s, k))

parse_trailer_part(p, s) ==
    LET k == LineEnd(s, {CR}, TrailerLineMax)
    IN  IF k <= 0 THEN Stop(k, p)
        ELSE Go([p EXCEPT !.chunk_offset = @ + k + 1,
                          !.chunk_state = IF k = 1 THEN "CHUNK_COMPLETE" ELSE @])

RECURSIVE parse_chunk(_, _)
parse_chunk(p, buf) ==
    LET s == From(buf, p.chunk_offset + 1)
        step == IF p.chunk_state = "CHUNK_DATA" THEN parse_chunk_data(p, s)
                ELSE parse_trailer_part(p, s)
    IN  Then(step, LAMBDA r :
            IF r.ret > 0 /\ r.parser.chunk_state # "CHUNK_COMPLETE"
            THEN parse_chunk(r.parser, buf) ELSE r)

-----------------------------------------------------------------------------
(* http_parser_append_message: the outcome, the parser, the buffer and how *)
(* much of the bytes was taken.                                            *)

Outcome(r, p, buf, n) == [ret |-> r, parser |-> p, msgbuf |-> buf, n |-> n]

(* The message is the first total bytes of the buffer.                     *)
Completed(p, buf, n, total) ==
    Outcome(1, [p EXCEPT !.complete = TRUE], SubSeq(buf, 1, total),
            AsSize(n - (Len(buf) - total)))

(* What the end of the header settles about the body.                      *)
HeaderDone(p) ==
    IF p.chunked THEN [p EXCEPT !.chunk_offset = p.header_offset,
                                !.chunk_state = "CHUNK_DATA"]
    ELSE IF p.transfer_length = NoLength
    THEN [p EXCEPT !.transfer_length = p.content_length]
    ELSE p

AppendChunks(r, buf, n) ==
    IF r.ret <= 0 THEN Outcome(r.ret, r.parser, buf, n)
    ELSE Completed(r.parser, buf, n, r.parser.chunk_offset)

(* header_offset + transfer_length, as a size_t.                           *)
Total(p) == AsSize(p.header_offset + p.transfer_length)

AppendBody(p, buf, n) ==
    LET total == Total(p)
    IN  IF p.transfer_length # NoLength
        THEN IF Len(buf) >= total THEN Completed(p, buf, n, total)
             ELSE Outcome(More, p, buf, n)
        ELSE IF ~p.chunked THEN Outcome(More, p, buf, n)
        ELSE Then(parse_chunk(p, buf), LAMBDA r : AppendChunks(r, buf, n))

AppendHeader(r, buf, n) ==
    IF r.ret <= 0 THEN Outcome(r.ret, r.parser, buf, n)
    ELSE AppendBody(HeaderDone(r.parser), buf, n)

(* An allocation may fail: the buffer's, or that of the first start line   *)
(* or header parsed.                                                       *)
http_parser_append_message(p, msgbuf, bytes, fault) ==
    LET buf == msgbuf \o bytes
        n == Len(bytes)
    IN  IF p.complete THEN Outcome(1, p, msgbuf, 0)
        ELSE IF fault = "msgbuf" THEN Outcome(NoMemory, p, msgbuf, n)
        ELSE IF p.header_state = "HEADER_COMPLETE" THEN AppendBody(p, buf, n)
        ELSE Then(parse_message_header(p, buf, fault = "line"),
                  LAMBDA r : AppendHeader(r, buf, n))

http_parser_get_body(p, msgbuf) ==
    IF p.complete /\ p.header_state = "HEADER_COMPLETE"
    THEN IF p.header_offset <= Len(msgbuf) THEN From(msgbuf, p.header_offset + 1)
         ELSE "undefined"
    ELSE "none"

-----------------------------------------------------------------------------
(* HttpMessage::append and what a request and a response make of it.       *)

Failures == {"ENOMEM", "EBADMSG", "EMSGSIZE", "EAGAIN"}

(* HttpMessage::append, after the parser has said o.                       *)
Limited(m, o) ==
    LET size == AsSize(m.cur_size + o.n)
    IN  [m EXCEPT !.parser = o.parser, !.msgbuf = o.msgbuf, !.taken = o.n,
                  !.cur_size = IF o.ret >= 0 THEN size ELSE @,
                  !.ret = CASE o.ret = NoMemory     -> "ENOMEM"
                            [] o.ret = BadMessage   -> "EBADMSG"
                            [] o.ret >= 0 /\ size > SizeLimit -> "EMSGSIZE"
                            [] o.ret = More /\ size <= SizeLimit -> "more"
                            [] o.ret = 1 /\ size <= SizeLimit    -> "done"]

MessageAppend(m, bytes, fault) ==
    Then(http_parser_append_message(m.parser, m.msgbuf, bytes, fault),
         LAMBDA o : Limited(m, o))

(* handle_expect_continue; feedback may write less than all of the answer. *)
handle_expect_continue(m, fault) ==
    LET p == m.parser
    IN  IF p.transfer_length # NoLength /\ Total(p) > SizeLimit
        THEN [m EXCEPT !.ret = "EMSGSIZE", !.fed = Append(@, 417)]
        ELSE [m EXCEPT !.ret = IF fault = "feedback" THEN "EAGAIN" ELSE "more",
                       !.fed = Append(@, 100)]

(* Mutant of ExpectTaken: the request still expects an answer.             *)
ExpectTakenNot(m) == m

(* The expectation is answered once.                                       *)
ExpectTaken(m) == [m EXCEPT !.parser.expect_continue = FALSE]

(* HttpRequest::append and HttpResponse::append, after HttpMessage's.      *)
RequestAppend(m, fault) ==
    CASE m.ret = "more" /\ m.parser.expect_continue
                        /\ m.parser.header_state = "HEADER_COMPLETE" ->
           handle_expect_continue(ExpectTaken(m), fault)
      [] m.ret = "EBADMSG"  -> [m EXCEPT !.fed = Append(@, 400)]
      [] m.ret = "EMSGSIZE" -> [m EXCEPT !.fed = Append(@, 413)]
      [] OTHER -> m

ResponseAppend(m) ==
    IF m.ret = "done" /\ m.parser.code # <<>> /\ m.parser.code[1] = "1"
    THEN [m EXCEPT !.ret = "more", !.parser = http_parser_init(TRUE), !.msgbuf = <<>>]
    ELSE m

(* The loop of __poller_handle_read over the bytes of one read.  A message *)
(* that is complete is handed over; the bytes after it are not its own.    *)
RECURSIVE AppendAll(_, _, _)
AppendAll(m, bytes, fault) ==
    LET append(x) == IF x.parser.is_resp THEN ResponseAppend(x) ELSE RequestAppend(x, fault)
    IN  Then(MessageAppend(m, bytes, fault), LAMBDA x : Then(append(x), LAMBDA r :
            IF r.ret = "more" /\ r.taken < Len(bytes)
            THEN AppendAll(r, From(bytes, r.taken + 1), fault)
            ELSE [r EXCEPT !.taken = 0]))

-----------------------------------------------------------------------------
(* A message for a stream: for the answer to a HEAD request message_in has *)
(* called parse_zero_body.                                                 *)
NewMessage(st) ==
    [parser |-> IF st.head THEN [http_parser_init(st.is_resp) EXCEPT !.transfer_length = 0]
                ELSE http_parser_init(st.is_resp),
     msgbuf |-> <<>>, cur_size |-> 0, taken |-> 0, ret |-> "more", fed |-> <<>>]

(* A stream has the bytes of the connection, from its message on, and says *)
(* whether this is the response to a request, and to a HEAD request.       *)
Init ==
    /\ stream \in Streams
    /\ delivered = 0
    /\ msg = NewMessage(stream)

(* The poller reads the next n bytes and appends them.                     *)
Read(n) ==
    /\ msg.ret = "more" /\ ~msg.parser.complete
    /\ delivered + n <= Len(stream.bytes)
    /\ delivered' = delivered + n
    /\ \E fault \in {"none", "msgbuf", "line", "feedback"} :
          msg' = AppendAll(msg, SubSeq(stream.bytes, delivered + 1, delivered + n), fault)
    /\ UNCHANGED stream

(* The connection fails or ends, or the message is bad: the client task is *)
(* finished without success and ends the parsing.                          *)
EndParsing ==
    /\ stream.is_resp
    /\ msg.ret \in {"more"} \cup Failures
    /\ ~msg.parser.complete
    /\ msg' = [msg EXCEPT !.parser.complete = TRUE]
    /\ UNCHANGED <<stream, delivered>>

Next == (\E n \in 1 .. Len(stream.bytes) : Read(n)) \/ EndParsing

Spec == Init /\ [][Next]_vars
-----------------------------------------------------------------------------
(* What the program sees of a message that has not failed.                 *)
Seen(m) == [m EXCEPT !.parser.expect_continue = FALSE, !.fed = <<>>]

(* Where a read ends is invisible: whatever pieces the bytes came in, the  *)
(* parser of http_parser_append_message is where it would be had they come *)
(* in one, with the same headers, offsets and flags, and it has taken as   *)
(* many of them; and a verdict is final: the whole stream, read at once,   *)
(* would get it too.  Only the error of a bad message may differ.          *)
FragmentsDontMatter ==
    LET n == IF msg.ret = "more" THEN delivered ELSE Len(stream.bytes)
        once == AppendAll(NewMessage(stream), SubSeq(stream.bytes, 1, n), "none")
    IN  ~(msg.parser.complete /\ msg.ret # "done") /\ msg.ret \notin {"ENOMEM", "EAGAIN"} =>
          \A m \in {once} :
             IF msg.ret \in {"more", "done"} THEN Seen(msg) = Seen(m) ELSE m.ret \in Failures

(* The Content-Length headers have numbers that an int holds.  (A longer   *)
(* one is not refused: content_length = atoi(value) can come out negative, *)
(* and the message then ends before its header does.)                      *)
LengthsFit(p) ==
    \A i \in DOMAIN p.headers :
        p.headers[i][1] = <<"Content-Length">> =>
            Digits(p.headers[i][2], 10) < IntValues \div 2

(* Of a stream known to begin with a good message, append takes exactly    *)
(* that message: it says so at its last byte and at no other, leaves what  *)
(* follows to the next message, and http_parser_get_body returns the body, *)
(* or what has come of it when the connection ends first.  And of any      *)
(* stream, good or bad, whose lengths fit: a message that append calls     *)
(* complete ends neither inside its header nor behind the bytes that came, *)
(* and those taken, an unsigned difference, are no more than those given.  *)
TakesExactlyTheMessage ==
    LET come == IF delivered < stream.end THEN delivered ELSE stream.end
        p == msg.parser
        body == http_parser_get_body(p, msg.msgbuf)
    IN  /\ stream.good /\ msg.ret \notin {"ENOMEM", "EAGAIN", "EMSGSIZE"} =>
             /\ msg.ret = "done" \/ (msg.ret = "more" /\ delivered < stream.end)
             /\ msg.cur_size = come
             /\ body = IF p.complete /\ come >= stream.header
                       THEN SubSeq(stream.bytes, stream.header + 1, come) ELSE "none"
        /\ msg.ret = "done" /\ LengthsFit(p) =>
             /\ p.header_offset <= Len(msg.msgbuf) /\ Len(msg.msgbuf) <= msg.cur_size
             /\ msg.cur_size <= delivered
             /\ body # "undefined"

(* A client that asked for "100 Continue" and waits for it is never left   *)
(* waiting, and is told only once: HttpRequest::append answers as soon as  *)
(* the header is in and the body is not.  A request that is refused gets   *)
(* one error answer, and none that succeeds gets any.                      *)
ContinueAnsweredOnce ==
    LET asked == \E i \in DOMAIN msg.parser.headers :
                    msg.parser.headers[i] = <<<<"Expect">>, <<"100-continue">>>>
        errors == SelectSeq(msg.fed, LAMBDA c : c # 100)
    IN  ~stream.is_resp =>
          /\ msg.ret = "more" /\ asked /\ msg.parser.header_state = "HEADER_COMPLETE"
                => msg.fed = <<100>>
          /\ msg.fed \in {<<>>, <<100>>} \cup {Append(f, e) : f \in {<<>>, <<100>>}, e \in {400, 413, 417}}
          /\ Len(errors) = 1 <=> msg.ret \in {"EBADMSG", "EMSGSIZE"}
          /\ msg.fed # errors => asked
=============================================================================
