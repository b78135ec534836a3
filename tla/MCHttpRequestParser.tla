------------------------ MODULE MCHttpRequestParser -------------------------
(***************************************************************************)
(* The instance of HttpRequestParser that TLC checks: request lines that   *)
(* use every separator, every way to announce a body, twice, badly, in     *)
(* lower case, with the greatest int and with one more, bodies with decoys *)
(* of both delimiters, and lines that almost end one.  Every cut of every  *)
(* stream is explored.                                                     *)
(***************************************************************************)
EXTENDS HttpRequestParser

Line(uri) == <<"GET", "SP">> \o uri \o <<"SP", "1.1">> \o CRLF

Uris ==
  {<<"/">>, <<"/", "a", "?">>, <<"/", "?", "a", "=", "b", "&", "a", "&", "&">>,
   <<"/", "#", "b", "?", "a">>, <<"?", "a", "=", "=", "#", "#">>,
   <<"/", "?", "&", "=", "b", "?", "a", "=", "b">>}

Length(value) == <<"Content-Length", ":">> \o value \o CRLF

LowerCase == <<"content-length", ":", "2">> \o CRLF

Chunked == <<"Transfer-Encoding", ":", "SP", "chunked">> \o CRLF

Headers ==
  {<<>>, Length(<<"SP", "2">>), Length(<<"-", "2">>), LowerCase,
   Length(<<"1", "2">>), Length(<<"1", "3">>), Length(<<"-", "2", "0">>),
   Length(<<"TAB">>), Length(<<"3", "b">>) \o Length(<<"0">>), Chunked,
   Chunked \o Length(<<"1">>), Length(<<>>) \o Chunked,
   <<"a">> \o CRLF \o Length(<<"1">>)}

Bodies ==
  {<<>>, <<"b", "b">>, <<"0">> \o Delimiter,
   <<"b", "0">> \o Delimiter \o <<"b", "b", "0">> \o Delimiter}

OddLines ==
  {CRLF, <<"CR">> \o CRLF, <<"a", "CR", "CR", "LF">>, <<"LF">> \o CRLF,
   <<"a", "SP", "/">> \o CRLF}

MCStreams ==
       {Line(u) \o CRLF : u \in Uris}
  \cup {Line(<<"/">>) \o h \o CRLF \o b : h \in Headers, b \in Bodies}
  \cup {o \o h \o CRLF \o <<"b">> : o \in OddLines, h \in {<<>>, Length(<<"1">>)}}

MCBytes ==
  {"GET", "SP", "TAB", "/", "?", "#", "&", "=", ":", "a", "b", "-", "0", "1",
   "2", "3", "1.1", "CR", "LF", "Content-Length", "content-length",
   "Transfer-Encoding", "chunked"}
=============================================================================
