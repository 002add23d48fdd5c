---------------------------- MODULE MCHttpParser ----------------------------
(* HttpParser for TLC.  The streams are good messages, each followed by    *)
(* bytes of the next one, and the same messages with one token changed,    *)
(* missing or added.                                                       *)
EXTENDS HttpParser

CRLF == <<CR, LF>>
Line(name, value) == <<name, COLON>> \o value \o CRLF

Good(is_resp, head, header, body, next) ==
    [is_resp |-> is_resp, head |-> head, good |-> TRUE, bytes |-> header \o body \o next,
     header |-> Len(header), end |-> Len(header) + Len(body)]

Request == <<"GET", SP, "/", SP, "HTTP/1.1">> \o CRLF
OldRequest == <<"GET", SP, "/", SP, "HTTP/0", ".9">> \o CRLF
Status(code) == <<"HTTP/1.1", SP>> \o code \o <<SP, "OK">> \o CRLF
Interim == Status(<<"1", "00">>) \o CRLF
Length(n) == Line("Content-Length", <<SP, n>>)
Expect(value) == Line("Expect", value)
Chunked == Line("Transfer-Encoding", <<"chunked">>)
Chunks == <<"1">> \o CRLF \o <<"x">> \o CRLF \o <<"0">> \o CRLF

Requests == {
    Good(FALSE, FALSE, CRLF \o OldRequest \o CRLF, <<>>, <<"GET">>),
    Good(FALSE, FALSE, Request \o Length("2") \o CRLF, <<"x", CR>>, <<LF>>),
    Good(FALSE, FALSE, Request \o Expect(<<SP, "100-continue", SP>>) \o Length("1") \o CRLF,
         <<"x">>, <<"x">>),
    Good(FALSE, FALSE, Request \o Length("1") \o Expect(<<"100-continue">>) \o Chunked \o CRLF,
         Chunks \o <<"t">> \o CRLF \o CRLF, <<"GET">>)}

(* The last response is as long as its connection: no byte of it is the    *)
(* last.                                                                   *)
Responses == {
    Good(TRUE, FALSE, Interim \o Status(<<"200">>) \o Length("1") \o CRLF, <<"x">>, <<"x">>),
    Good(TRUE, FALSE, Status(<<"204">>) \o Chunked \o CRLF, <<>>, <<"0">>),
    Good(TRUE, TRUE, Status(<<"200">>) \o Line("Connection", <<"close">>) \o Length("2") \o CRLF,
         <<>>, <<"x">>),
    Good(TRUE, FALSE, <<"HTTP/1.0", SP, "200", SP>> \o CRLF \o Chunked \o CRLF, Chunks \o CRLF, <<>>),
    [Good(TRUE, FALSE, Status(<<"200">>) \o CRLF, <<"x", CR, LF>>, <<>>) EXCEPT !.end = 100]}

(* An interim response before the answer to a HEAD request: the code waits *)
(* for a body, and it is not said where the message should end.            *)
InterimBeforeHead ==
    [Good(TRUE, TRUE, Interim \o Status(<<"200">>) \o Length("1") \o CRLF, <<>>, <<"x">>)
        EXCEPT !.good = FALSE]

Changed(st, i, c) == [st EXCEPT !.good = FALSE, !.bytes[i] = c]
Missing(st, i) == [st EXCEPT !.good = FALSE, !.bytes = RemoveAt(@, i)]
Added(st, i, c) == [st EXCEPT !.good = FALSE, !.bytes = InsertAt(@, i, c)]

MCStreams ==
    LET good == Requests \cup Responses
    IN  good \cup {InterimBeforeHead} \cup UNION {UNION {
          {Missing(st, i)} \cup {Changed(st, i, c) : c \in {COLON, NUL, "x"}}
                          \cup {Added(st, i, c) : c \in {CR, SP, "3"}} :
          i \in DOMAIN st.bytes} : st \in good}
=============================================================================
