------------------------- MODULE HttpRequestParser --------------------------
(***************************************************************************)
(* argb::HttpRequest::Parser (network-library): what one connection's      *)
(* parser makes of the bytes a client sends, however the network cuts them *)
(* into chunks.  The server calls parse for each chunk, in order, until it *)
(* returns true.                                                           *)
(*                                                                         *)
(* A byte is an element of Bytes.  A method name, the names of the two     *)
(* headers that frame a body and the value "chunked" are one element each. *)
(* Positions start at 1 and 0 is npos.  Views into the header buffer are   *)
(* the text they show: SplitAtHeaderEnd says why they may be.              *)
(***************************************************************************)
EXTENDS Integers, Sequences, SequencesExt

CONSTANTS
  Bytes,
  Streams,    \* what clients may send, in all
  IntMax      \* the greatest value of an int

Methods == {"OPTIONS", "HEAD", "GET", "POST", "PUT", "LINK", "UNLINK",
            "DELETE", "TRACE"}

ASSUME ParserAssumption ==
  /\ Streams \subseteq Seq(Bytes)
  /\ IntMax \in Nat

VARIABLES
  stream,         \* of this client
  consumed,       \* how much of it has been received
  header, body,   \* the buffers of HttpMessage
  request,        \* method, path, fragment, query and protocol
  headers,
  header_complete, chunked_transfer, expected_body_size,
  parsed          \* what parse returned last

line_vars == <<request, headers, header_complete, chunked_transfer,
               expected_body_size>>

vars == <<stream, consumed, header, body, line_vars, parsed>>

CRLF      == <<"CR", "LF">>
Delimiter == CRLF \o CRLF
LastChunk == <<"0">> \o Delimiter

Nothing == <<>>     \* an empty text, and an empty dictionary

\* string_view::find, from a position.
Find(text, pattern, from) ==
  LET Matches == {i \in from .. Len(text) - Len(pattern) + 1 :
                    SubSeq(text, i, i + Len(pattern) - 1) = pattern}
  IN IF Matches = {} THEN 0 ELSE Min(Matches)

\* A dictionary of one name, and one updated with another.
Entry(name, value) == [n \in {name} |-> value]

Updated(earlier, later) ==
  [n \in DOMAIN earlier \cup DOMAIN later |->
     IF n \in DOMAIN later THEN later[n] ELSE earlier[n]]

Before(text, i) == SubSeq(text, 1, i - 1)
After(text, i)  == SubSeq(text, i + 1, Len(text))

-----------------------------------------------------------------------------
(* The request line *)

\* query[name] = value
Assign(pair) ==
  LET equals == Find(pair, <<"=">>, 1)
  IN IF equals = 0 THEN Entry(pair, Nothing)
     ELSE Entry(Before(pair, equals), After(pair, equals))

\* The loop, from position i: a later pair replaces an earlier one.
ParseQuery(text) ==
  LET Rest[i \in 1 .. Len(text) + 1] ==
        LET separator == Find(text, <<"&">>, i) IN
        IF i > Len(text) THEN Nothing
        ELSE IF separator = 0 THEN Assign(SubSeq(text, i, Len(text)))
        ELSE Updated(Assign(SubSeq(text, i, separator - 1)), Rest[separator + 1])
  IN Rest[1]

\* Mutant: the query is cut off before the fragment.
ParseUri_QueryFirst(uri) ==
  LET query_pos    == Find(uri, <<"?">>, 1)
      rest         == IF query_pos = 0 THEN Nothing ELSE After(uri, query_pos)
      whole        == IF query_pos = 0 THEN uri ELSE Before(uri, query_pos)
      fragment_pos == Find(whole, <<"#">>, 1)
  IN [path     |-> IF fragment_pos = 0 THEN whole ELSE Before(whole, fragment_pos),
      query    |-> ParseQuery(rest),
      fragment |-> IF fragment_pos = 0 THEN Nothing ELSE After(whole, fragment_pos)]

ParseUri(uri) ==
  LET fragment_pos == Find(uri, <<"#">>, 1)
      whole        == IF fragment_pos = 0 THEN uri ELSE Before(uri, fragment_pos)
      query_pos    == Find(whole, <<"?">>, 1)
  IN [path     |-> IF query_pos = 0 THEN whole ELSE Before(whole, query_pos),
      query    |-> IF query_pos = 0 THEN Nothing
                   ELSE ParseQuery(After(whole, query_pos)),
      fragment |-> IF fragment_pos = 0 THEN Nothing ELSE After(uri, fragment_pos)]

MethodFromString(text) ==
  IF Len(text) = 1 /\ text[1] \in Methods THEN text[1] ELSE "UNDEFINED"

Unparsed == [method |-> "UNDEFINED", path |-> Nothing, query |-> Nothing,
             fragment |-> Nothing, protocol |-> Nothing]

ParseRequestLine(line) ==
  LET method_end == Find(line, <<"SP">>, 1)
      uri_end    == Find(line, <<"SP">>, method_end + 1)
      method     == MethodFromString(Before(line, method_end))
      uri        == ParseUri(SubSeq(line, method_end + 1, uri_end - 1))
  IN IF method_end = 0 THEN Unparsed
     ELSE IF uri_end = 0 THEN [Unparsed EXCEPT !.method = method]
     ELSE [method |-> method, path |-> uri.path, query |-> uri.query,
           fragment |-> uri.fragment, protocol |-> After(line, uri_end)]

-----------------------------------------------------------------------------
(* The header fields *)

WithoutLeadingBlanks(text) ==
  LET Ink == {i \in 1 .. Len(text) : text[i] \notin {"SP", "TAB"}}
  IN IF Ink = {} THEN Nothing ELSE SubSeq(text, Min(Ink), Len(text))

\* A line without a colon is ignored.
Field(line) ==
  LET colon == Find(line, <<":">>, 1)
  IN IF colon = 0 THEN Nothing
     ELSE Entry(Before(line, colon), WithoutLeadingBlanks(After(line, colon)))

\* The loop, from position i, to the empty line.
ParseHeaderFields(text) ==
  LET Rest[i \in 1 .. Len(text) + 1] ==
        LET line_end == Find(text, CRLF, i) IN
        IF line_end \in {0, i} THEN Nothing
        ELSE Updated(Field(SubSeq(text, i, line_end - 1)), Rest[line_end + 2])
  IN Rest[1]

GetHeader(fields, name) ==
  IF <<name>> \in DOMAIN fields THEN fields[<<name>>] ELSE Nothing

Digits == <<"0", "1", "2", "3">>

DigitValue(c) == (CHOOSE i \in DOMAIN Digits : Digits[i] = c) - 1

\* What an int holds, in two's complement.
Ints == -(IntMax + 1) .. IntMax

\* std::from_chars, which reads a sign and as many digits as there are: a set
\* with the number, or empty if there is none or an int cannot hold it.
ToInt(text) ==
  LET negative == text # Nothing /\ text[1] = "-"
      number   == IF negative THEN Tail(text) ELSE text
      Other    == {i \in 1 .. Len(number) : number[i] \notin Range(Digits)}
      digits   == IF Other = {} THEN number ELSE Before(number, Min(Other))
      value    == FoldLeft(LAMBDA n, c : 10 * n + DigitValue(c), 0, digits)
  IN IF digits = Nothing THEN {} ELSE {IF negative THEN -value ELSE value} \cap Ints

\* Mutant: a negative length is accepted.
BodySize_Signed(value) == ToInt(value)

\* A set again: empty if there is no body to wait for, because there is no
\* number, an int cannot hold it or it is negative.
BodySize(value) == ToInt(value) \cap Nat

-----------------------------------------------------------------------------
(* parse *)

\* Mutant: the search starts again where the last one ended.
SearchStart_NoOverlap == Len(header) + 1

\* A delimiter may have begun in an earlier chunk.
SearchStart ==
  IF Len(header) >= Len(Delimiter) THEN Len(header) - Len(Delimiter) + 2 ELSE 1

\* Mutant: off by one.
BodyEnds_TooEarly(text, size, chunked) ==
  IF chunked THEN IsSuffix(LastChunk, text) ELSE Len(text) + 1 >= size

BodyEnds(text, size, chunked) ==
  IF chunked THEN IsSuffix(LastChunk, text) ELSE Len(text) >= size

Init ==
  /\ stream \in Streams
  /\ consumed = 0
  /\ header = Nothing
  /\ body = Nothing
  /\ request = Unparsed
  /\ headers = Nothing
  /\ header_complete = FALSE
  /\ chunked_transfer = FALSE
  /\ expected_body_size = 0
  /\ parsed = FALSE

\* parse (chunk), the header not complete before nor after.
ParseHeaderPart(chunk) ==
  LET received == header \o chunk IN
  /\ ~header_complete
  /\ Find(received, Delimiter, SearchStart) = 0
  /\ header' = received
  /\ parsed' = FALSE
  /\ UNCHANGED <<body, line_vars>>

\* The chunk completes the header; what follows it is the body's.  A length
\* that is not one, or neither length nor chunks: there is no body to wait for.
ParseHeaderEnd(chunk) ==
  LET received == header \o chunk
      location == Find(received, Delimiter, SearchStart)
      head     == SubSeq(received, 1, location + Len(Delimiter) - 1)
      line_end == Find(head, CRLF, 1)
      fields   == ParseHeaderFields(After(head, line_end + 1))
      length   == GetHeader(fields, "Content-Length")
      chunked  == GetHeader(fields, "Transfer-Encoding") = <<"chunked">>
  IN /\ ~header_complete
     /\ location # 0
     /\ header_complete' = TRUE
     /\ header' = head
     /\ body' = After(received, Len(head))
     /\ request' = ParseRequestLine(Before(head, line_end))
     /\ headers' = fields
     /\ \/ /\ length # Nothing
           /\ expected_body_size' \in BodySize(length)
           /\ UNCHANGED chunked_transfer
           /\ parsed' = BodyEnds(body', expected_body_size', FALSE)
        \/ /\ length # Nothing
           /\ BodySize(length) = {}
           /\ UNCHANGED <<expected_body_size, chunked_transfer>>
           /\ parsed' = TRUE
        \/ /\ length = Nothing
           /\ chunked_transfer' = chunked
           /\ UNCHANGED expected_body_size
           /\ parsed' = (chunked => BodyEnds(body', 0, TRUE))

ParseBody(chunk) ==
  /\ header_complete
  /\ body' = body \o chunk
  /\ parsed' = BodyEnds(body', expected_body_size, chunked_transfer)
  /\ UNCHANGED <<header, line_vars>>

\* The socket delivers the next n bytes.
Receive(n) ==
  LET chunk == SubSeq(stream, consumed + 1, consumed + n) IN
  /\ ~parsed
  /\ consumed' = consumed + n
  /\ UNCHANGED stream
  /\ ParseHeaderPart(chunk) \/ ParseHeaderEnd(chunk) \/ ParseBody(chunk)

Next == \E n \in 1 .. Len(stream) - consumed : Receive(n)

Spec == Init /\ [][Next]_vars

-----------------------------------------------------------------------------
(* Properties *)

Received == SubSeq(stream, 1, consumed)

\* What the parser and its request hold; a length is never negative.
TypeOK ==
  /\ stream \in Streams
  /\ consumed \in 0 .. Len(stream)
  /\ header \in Seq(Bytes)
  /\ body \in Seq(Bytes)
  /\ request.method \in Methods \cup {"UNDEFINED"}
  /\ \A part \in {"path", "fragment", "protocol"} : request[part] \in Seq(Bytes)
  /\ \A dictionary \in {request.query, headers} :
       \A name \in DOMAIN dictionary :
         name \in Seq(Bytes) /\ dictionary[name] \in Seq(Bytes)
  /\ header_complete \in BOOLEAN
  /\ chunked_transfer \in BOOLEAN
  /\ expected_body_size \in Nat
  /\ parsed \in BOOLEAN

HeaderEnds(text) ==
  {n \in Len(Delimiter) .. Len(text) :
     SubSeq(text, n - Len(Delimiter) + 1, n) = Delimiter}

\* However the delimiter is cut, the header is what comes up to the first one,
\* the body is the rest, and no byte is lost or doubled.  So the buffer the views
\* of a complete header point into never changes again.
SplitAtHeaderEnd ==
  /\ header \o body = Received
  /\ header_complete = (HeaderEnds(Received) # {})
  /\ header_complete => Len(header) = Min(HeaderEnds(Received))

\* What the last Content-Length line of the header announces, spelled exactly so:
\* get_header compares names as they are, although HttpMessage.hpp:69 calls them
\* case-insensitive.
\* One that is negative, above IntMax or no number announces no body.
AnnouncedLength ==
  LET Lines == {i \in 3 .. Min(HeaderEnds(stream)) :
                  /\ SubSeq(stream, i - 2, i - 1) = CRLF
                  /\ SubSeq(stream, i, i + 1) = <<"Content-Length", ":">>}
      start == Max(Lines) + 2
      value == SubSeq(stream, start, Find(stream, CRLF, start) - 1)
      sizes == ToInt(WithoutLeadingBlanks(value)) \cap Nat
  IN IF Lines = {} \/ sizes = {} THEN 0 ELSE Max(sizes)

\* parse returns true with the chunk that brings the last byte of the message,
\* never sooner or later, however the message is cut; with the header, if no
\* length it can use is announced.  A chunked body is not framed this way: where
\* it ends depends on the cuts.
MessageRecognised ==
  ~chunked_transfer /\ HeaderEnds(stream) # {} =>
    parsed = (consumed >= Min(HeaderEnds(stream)) + AnnouncedLength)

Until(text, stops) ==
  SubSeq(text, 1, Min({i \in 1 .. Len(text) : text[i] \in stops}
                        \cup {Len(text) + 1}) - 1)

Dictionary(text) ==
  LET Starts   == {i \in 1 .. Len(text) : i = 1 \/ text[i - 1] = "&"}
      Pair(i)  == Until(SubSeq(text, i, Len(text)), {"&"})
      Name(i)  == Until(Pair(i), {"="})
      Final(n) == Max({i \in Starts : Name(i) = n})
  IN [n \in {Name(i) : i \in Starts} |-> After(Pair(Final(n)), Len(n) + 1)]

\* What a handler is told of the address: the path ends at the first ? or #,
\* a ? inside the fragment begins no query, the last pair of a name counts.
UriUnderstood ==
  LET line  == Until(header, {"CR"})
      first == Len(Until(line, {"SP"}))
      uri   == Until(After(line, first + 1), {"SP"})
      main  == Until(uri, {"#"})
      path  == Until(uri, {"?", "#"})
  IN header_complete /\ first + Len(uri) + 1 < Len(line) =>
       /\ request.path = path
       /\ request.fragment = After(uri, Len(main) + 1)
       /\ request.query = Dictionary(After(main, Len(path) + 1))

=============================================================================
