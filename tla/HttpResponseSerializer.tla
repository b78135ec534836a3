----------------------- MODULE HttpResponseSerializer -----------------------
(***************************************************************************)
(* argb::HttpResponse::Serializer (network-library): the calls that write  *)
(* a response, as operators on what the serializer and its response hold.  *)
(* A call throws, and leaves them as they are, when its Can... is FALSE.   *)
(*                                                                         *)
(* A header is the sequence of its parts; of the header fields only the    *)
(* last Content-Length is remembered, as a set: empty if there was none.   *)
(***************************************************************************)
EXTENDS Integers, Sequences

Parts == {"version", "status", "field", "end"}

\* Mutant: the constructor does not clear the body.
Restart_BodyKept(response) ==
  [status |-> 0, header |-> <<"version">>, announced |-> {},
   body |-> response.body, status_serialized |-> FALSE,
   header_serialized |-> FALSE]

\* The constructor, for a response that may have been written to before.
Restart(response) ==
  [status |-> 0, header |-> <<"version">>, announced |-> {}, body |-> <<>>,
   status_serialized |-> FALSE, header_serialized |-> FALSE]

\* A response nothing has been written to.
Unserialized ==
  [status |-> 0, header |-> <<>>, announced |-> {}, body |-> <<>>,
   status_serialized |-> FALSE, header_serialized |-> FALSE]

\* Mutant: any number is a status.
CanStatus_AnyCode(s, code) == ~s.status_serialized

CanStatus(s, code) ==
  /\ ~s.status_serialized
  /\ ~s.header_serialized
  /\ code \in 100 .. 599

Status(s, code) ==
  [s EXCEPT !.status = code, !.header = Append(@, "status"),
            !.status_serialized = TRUE]

\* Mutant: a header may come before the status.
CanHeader_Always(s) == TRUE

CanHeader(s) == s.status_serialized

\* announced: a set with the value of a Content-Length, or empty.
Header(s, announced) ==
  [s EXCEPT !.header = Append(@, "field"), !.header_serialized = TRUE,
            !.announced = IF announced = {} THEN @ ELSE announced]

CanEndHeader(s) == s.status_serialized /\ s.header_serialized

EndHeader(s) == [s EXCEPT !.header = Append(@, "end")]

Body(s, content) == [s EXCEPT !.body = @ \o content]

-----------------------------------------------------------------------------

\* Content-Type, Content-Length, Connection, the end and the body: the chain
\* of calls of send_response, receive_request and send_plain_text_response.
Complete(response, code, content) ==
  LET length == {Len(content)}
      fields == Header(Header(Header(Status(Restart(response), code),
                                     {}), length), {})
  IN Body(EndHeader(fields), content)

WellFormed(s) ==
  /\ \E n \in 1 .. Len(s.header) :
       s.header = <<"version", "status">> \o [i \in 1 .. n |-> "field"] \o <<"end">>
  /\ s.announced = {Len(s.body)}

\* Whatever the order of the calls: one status, before every field, and no end
\* before the first field.
InOrder(s) ==
  \A i \in 1 .. Len(s.header) :
    /\ s.header[i] = "version" <=> i = 1
    /\ s.header[i] = "status" <=> i = 2
    /\ i = 3 => s.header[i] = "field"

=============================================================================
