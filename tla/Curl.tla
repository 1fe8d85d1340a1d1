-------------------------------- MODULE Curl --------------------------------
(***************************************************************************)
(* The web client apps/curl/curl.c: its dialogue, name resolution over two *)
(* servers, the connection, and the response, which arrives in pieces that *)
(* respect no boundary of the protocol.  The network, DNS messages and the *)
(* TLS library answer nondeterministically.                                *)
(*                                                                         *)
(* A response is a sequence of bytes; the field name "content-length:" is  *)
(* one byte of the model, Name.                                            *)
(***************************************************************************)
EXTENDS Integers, FiniteSetsExt, SequencesExt

CONSTANTS
    Responses,         \* what a server may have to send
    HeaderCapacity,    \* response_header_capacity
    PieceCapacity,     \* input_capacity, also arwill_tls_exchange's input
    RequestLength,     \* length of the request, in pieces of PieceCapacity or less
    SizeMax            \* SIZE_MAX

Name == "content-length:"
Digit == [d \in {"0", "1", "2", "9"} |->
             CASE d = "0" -> 0 [] d = "1" -> 1 [] d = "2" -> 2 [] d = "9" -> 9]
Ending == <<"CR", "LF", "CR", "LF">>

ASSUME CurlAssumption == {HeaderCapacity, PieceCapacity, RequestLength} \subseteq Nat \ {0}

VARIABLES
    curl,       \* the program: phase, server, https, udp, handle, offset, exit
    response,   \* struct response_state
    printed,    \* bytes of the body written to the console
    served      \* the server: its response, and how many bytes of it were read

curlVars == <<curl, response, printed, served>>

-----------------------------------------------------------------------------
(***************************************************************************)
(* The response.                                                           *)
(***************************************************************************)
NoResponse ==
    [ending |-> <<>>, header |-> <<>>, content_length |-> 0, body_received |-> 0,
     has_content_length |-> FALSE, complete |-> FALSE, body |-> FALSE]

\* The digits at the start of text as a number, or -1 if there are none or the number
\* exceeds SIZE_MAX.
Number(text) ==
    LET digits == Max({n \in 0 .. Len(text) : \A k \in 1 .. n : text[k] \in DOMAIN Digit})
        value  == FoldLeft(LAMBDA v, d : IF v < 0 \/ v > (SizeMax - Digit[d]) \div 10
                                         THEN -1 ELSE v * 10 + Digit[d],
                           0, SubSeq(text, 1, digits))
    IN  IF digits = 0 THEN -1 ELSE value

\* The text without the blanks at its start.
SkipBlanks(text) ==
    LET blanks == Max({n \in 0 .. Len(text) : \A k \in 1 .. n : text[k] = "blank"})
    IN  SubSeq(text, blanks + 1, Len(text))

\* parse_content_length: the first line that starts with the name decides.
parse_content_length(r) ==
    LET lines == {k \in 1 .. Len(r.header) - 1 :
                     r.header[k] = Name /\ (k = 1 \/ r.header[k - 1] = "LF")}
        value == Number(SkipBlanks(SubSeq(r.header, Min(lines) + 1, Len(r.header))))
    IN  IF lines = {} \/ value < 0 THEN r
        ELSE [r EXCEPT !.content_length = value, !.has_content_length = TRUE]

\* A byte of the header: stored while there is room, and shifted into ending.
HeaderByte(r, byte) ==
    LET last  == Append(r.ending, byte)
        moved == [r EXCEPT
                    !.header = IF Len(@) < HeaderCapacity THEN Append(@, byte) ELSE @,
                    !.ending = IF Len(last) > 4 THEN Tail(last) ELSE last]
        ended == parse_content_length([moved EXCEPT !.body = TRUE])
    IN  IF moved.ending # Ending THEN moved
        ELSE [ended EXCEPT !.complete = ended.has_content_length /\ ended.content_length = 0]

\* How many of the bytes on offer are written to the console.
BodyLength(r, offered) ==
    IF r.has_content_length
    THEN Min({offered, r.content_length - r.body_received}) ELSE offered

\* Wrong variant, for the mutation runs: ending starts afresh with every piece.
receive_response_window(r, piece) ==
    LET clean == [r EXCEPT !.ending = <<>>]
        after == [n \in 0 .. Len(piece) |-> FoldLeft(HeaderByte, clean, SubSeq(piece, 1, n))]
        used  == Min({n \in 0 .. Len(piece) : after[n].body} \cup {Len(piece)})
        head  == IF r.body THEN r ELSE after[used]
        start == IF r.body THEN 0 ELSE used
        count == IF head.body THEN BodyLength(head, Len(piece) - start) ELSE 0
    IN  [state |-> [head EXCEPT
                      !.body_received = @ + count,
                      !.complete = @ \/ (/\ head.body /\ Len(piece) > start
                                         /\ head.has_content_length
                                         /\ head.body_received + count = head.content_length)],
         written |-> SubSeq(piece, start + 1, start + count)]

\* receive_response: header bytes up to the blank line, then body.
receive_response(r, piece) ==
    LET after == [n \in 0 .. Len(piece) |-> FoldLeft(HeaderByte, r, SubSeq(piece, 1, n))]
        used  == Min({n \in 0 .. Len(piece) : after[n].body} \cup {Len(piece)})
        head  == IF r.body THEN r ELSE after[used]
        start == IF r.body THEN 0 ELSE used
        count == IF head.body THEN BodyLength(head, Len(piece) - start) ELSE 0
    IN  [state |-> [head EXCEPT
                      !.body_received = @ + count,
                      !.complete = @ \/ (/\ head.body /\ Len(piece) > start
                                         /\ head.has_content_length
                                         /\ head.body_received + count = head.content_length)],
         written |-> SubSeq(piece, start + 1, start + count)]

\* What print_plain_response and print_tls_response make of the end of the response.
ResponseOk(r) == r.body /\ (~r.has_content_length \/ r.complete)

-----------------------------------------------------------------------------
(***************************************************************************)
(* The program.                                                            *)
(***************************************************************************)
NewCurl ==
    [phase |-> "method", server |-> 1, https |-> FALSE, udp |-> FALSE, handle |-> FALSE,
     offset |-> 0, exit |-> -1]

CurlInit ==
    /\ curl = NewCurl
    /\ response = NoResponse /\ printed = <<>>
    /\ \E text \in Responses : served = [text |-> text, read |-> 0]

At(phase) == curl.phase = phase
Exit(status) == curl' = [curl EXCEPT !.phase = "over", !.exit = status]
Goto(phase) == curl' = [curl EXCEPT !.phase = phase]
Quiet == UNCHANGED <<response, printed, served>>

\* The dialogue: method, URL, the body of a POST, and arwill_http_build_request.
AskMethod == At("method") /\ (Exit(1) \/ Exit(2) \/ Goto("url")) /\ Quiet
AskUrl ==
    /\ At("url")
    /\ \/ Exit(2)
       \/ \E https \in BOOLEAN : curl' = [curl EXCEPT !.phase = "build", !.https = https]
    /\ Quiet
BuildRequest == At("build") /\ (Exit(2) \/ Goto("resolve")) /\ Quiet

\* resolve_host: a literal address, or a query to each server in turn.
ResolveFails(udp) ==
    IF curl.server = 1 THEN curl' = [curl EXCEPT !.server = 2, !.udp = udp, !.phase = "resolve"]
    ELSE curl' = [curl EXCEPT !.udp = udp, !.phase = "over", !.exit = 3]

\* The query is built, the endpoint opened and bound.  When binding fails the endpoint
\* stays open, and opening it for the second server fails.
ResolveOpen ==
    /\ At("resolve")
    /\ \/ curl.server = 1 /\ Goto("connect")
       \/ ResolveFails(curl.udp)
       \/ ~curl.udp /\ ResolveFails(TRUE)
       \/ ~curl.udp /\ curl' = [curl EXCEPT !.udp = TRUE, !.phase = "query"]
    /\ Quiet

\* udp_connect, udp_send and udp_receive, each retried; udp_close; then the answer.
ResolveQuery ==
    /\ At("query")
    /\ \/ ResolveFails(FALSE)
       \/ curl' = [curl EXCEPT !.udp = FALSE, !.phase = "connect"]
    /\ Quiet

\* open_connection: no endpoint, the port taken (the endpoint stays open), refused, or
\* connected.
OpenConnection ==
    /\ At("connect")
    /\ \/ Exit(4)
       \/ curl' = [curl EXCEPT !.phase = "over", !.exit = 4, !.handle = TRUE]
       \/ curl' = [curl EXCEPT !.phase = IF curl.https THEN "handshake" ELSE "write",
                               !.handle = TRUE]
    /\ Quiet

\* syscall_net_close and the exit status.
Finished(ok) ==
    curl' = [curl EXCEPT !.phase = "over", !.handle = FALSE, !.exit = IF ok THEN 0 ELSE 5]

\* write_plain: pieces of the request, as many bytes as the endpoint takes each time.
WritePlain ==
    /\ At("write")
    /\ \/ \E n \in 1 .. Min({PieceCapacity, RequestLength - curl.offset}) :
             curl' = [curl EXCEPT !.offset = @ + n,
                                  !.phase = IF curl.offset + n = RequestLength
                                            THEN "read" ELSE "write"]
       \/ Finished(FALSE)
    /\ Quiet

\* print_tls_response up to the response: time and entropy, and arwill_tls_exchange's
\* handshake and request.
Handshake == At("handshake") /\ (Goto("read") \/ Finished(FALSE)) /\ Quiet

\* A read that brings a piece of the response; the loop ends when it is complete.
ReadPiece(n) ==
    /\ At("read")
    /\ n <= Len(served.text) - served.read
    /\ LET piece == SubSeq(served.text, served.read + 1, served.read + n)
           got   == receive_response(response, piece)
       IN  /\ response' = got.state
           /\ printed' = printed \o got.written
           /\ IF got.state.complete THEN Finished(ResponseOk(got.state)) ELSE UNCHANGED curl
    /\ served' = [served EXCEPT !.read = @ + n]

\* The peer closes or nothing comes for five seconds, at any point: what there is of the
\* response is judged.  Over TLS the same holds for a proper end, and for a broken one
\* after something was received.
ReadEnds ==
    /\ At("read")
    /\ Finished(ResponseOk(response))
    /\ Quiet

\* A read error, an invalid record.
ReadFails == At("read") /\ Finished(FALSE) /\ Quiet

CurlNext ==
    \/ AskMethod \/ AskUrl \/ BuildRequest
    \/ ResolveOpen \/ ResolveQuery
    \/ OpenConnection \/ WritePlain \/ Handshake
    \/ \E n \in 1 .. PieceCapacity : ReadPiece(n)
    \/ ReadEnds \/ ReadFails

CurlSpec == CurlInit /\ [][CurlNext]_curlVars

-----------------------------------------------------------------------------
\* The body of a whole text: what follows the first blank line, and of that no more than
\* the header declares.
Received == SubSeq(served.text, 1, served.read)
BlankLines(text) == {k \in 4 .. Len(text) : SubSeq(text, k - 3, k) = Ending}
Declared(text) ==
    LET header == SubSeq(text, 1, Min(BlankLines(text)))
        fields == {k \in DOMAIN header :
                      header[k] = Name /\ (k = 1 \/ header[k - 1] = "LF")}
    IN  IF fields = {} THEN -1
        ELSE Number(SkipBlanks(SubSeq(header, Min(fields) + 1, Len(header))))
Body(text) ==
    LET rest == SubSeq(text, Min(BlankLines(text)) + 1, Len(text))
    IN  IF Declared(text) < 0 THEN rest
        ELSE SubSeq(rest, 1, Min({Len(rest), Declared(text)}))

\* Whatever pieces a response comes in, what curl has printed is the body of the bytes
\* received so far, and it exits with status 0 only after a whole header and all of the
\* body that the header declares, provided the header fits response_header_capacity
\* (receive_response, print_plain_response and print_tls_response in apps/curl/curl.c).
PrintedIsBody ==
    IF BlankLines(Received) = {} THEN printed = <<>> /\ curl.exit # 0
    ELSE Min(BlankLines(Received)) <= HeaderCapacity =>
            /\ printed = Body(Received)
            /\ curl.exit = 0 /\ Declared(Received) >= 0 => Len(printed) = Declared(Received)
=============================================================================
