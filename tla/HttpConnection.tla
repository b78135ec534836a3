--------------------------- MODULE HttpConnection ---------------------------
(***************************************************************************)
(* What HttpServer promises the client of one connection, with no map, no  *)
(* passes, no pool and no mutex.  The client sends a request and is        *)
(* answered with one response: its units reach the client in order and     *)
(* without gaps, and a connection the server ends of its own accord has    *)
(* received all of them.  A connection may break off (the peer leaves, the *)
(* network fails, a timeout) while the request is being received or the    *)
(* response sent, but never while a handler is processing the request; and *)
(* only a server that is going down abandons a connection.                 *)
(***************************************************************************)
EXTENDS Naturals, Sequences

CONSTANTS HeaderSizes, BodySizes

VARIABLES
  phase,     \* "absent", "requesting", "processing" (a handler is at work),
             \* "prepared" (it is done), "answering" or "over"
  response,  \* the sizes of the two parts of the response
  output,    \* the units the client has been sent
  fate,      \* how the connection ended: "none", "answered" or "broken"
  up         \* the server is not going down

vars == <<phase, response, output, fate, up>>

Sizes == [header : HeaderSizes, body : BodySizes]

\* The units of a response in the order of the wire.
Units(r) ==
  [i \in 1 .. r.header + r.body |->
     IF i <= r.header THEN <<"header", i>> ELSE <<"body", i - r.header>>]

Init ==
  /\ phase = "absent"
  /\ response = [header |-> 0, body |-> 0]
  /\ output = <<>>
  /\ fate = "none"
  /\ up = TRUE

Goes(from, to) == phase \in from /\ phase' = to

Open ==
  /\ up
  /\ Goes({"absent"}, "requesting")
  /\ UNCHANGED <<response, output, fate, up>>

Process ==
  /\ up
  /\ Goes({"requesting"}, "processing")
  /\ UNCHANGED <<response, output, fate, up>>

\* The handler completes the response: once, and before any of it is sent.
Prepare ==
  /\ Goes({"processing"}, "prepared")
  /\ response' \in Sizes
  /\ UNCHANGED <<output, fate, up>>

\* The prepared response, or one the server makes itself, is sent.
Answer ==
  /\ up
  /\ \/ Goes({"prepared"}, "answering") /\ UNCHANGED response
     \/ Goes({"requesting"}, "answering") /\ response' \in Sizes
  /\ UNCHANGED <<output, fate, up>>

Deliver ==
  /\ up
  /\ phase = "answering"
  /\ \E n \in Len(output) .. response.header + response.body :
       output' = SubSeq(Units(response), 1, n)
  /\ \/ UNCHANGED <<phase, fate>>
     \/ output' = Units(response) /\ phase' = "over" /\ fate' = "answered"
  /\ UNCHANGED <<response, up>>

Break ==
  /\ up
  /\ Goes({"requesting", "answering"}, "over")
  /\ fate' = "broken"
  /\ UNCHANGED <<response, output, up>>

GoDown ==
  /\ up
  /\ up' = FALSE
  /\ UNCHANGED <<phase, response, output, fate>>

Abandon ==
  /\ ~up
  /\ Goes({"requesting", "processing", "prepared", "answering"}, "over")
  /\ UNCHANGED <<response, output, fate, up>>

Next ==
  \/ Open \/ Process \/ Prepare \/ Answer \/ Deliver \/ Break
  \/ GoDown \/ Abandon

Spec == Init /\ [][Next]_vars

=============================================================================
