------------------------ MODULE HttpServerRefinement ------------------------
(***************************************************************************)
(* HttpServer keeps the promise of HttpConnection to every client.         *)
(***************************************************************************)
EXTENDS HttpServer

Ended(c) == context[c].state = "CLOSED" \/ context[c].socket = NoHandle

\* What the client of context c sees of it.
Phase(c) ==
  CASE c \notin accepted -> "absent"
    [] c \in accepted /\ Ended(c) -> "over"
    [] OTHER ->
         CASE context[c].state = "RECEIVING_REQUEST" -> "requesting"
           [] context[c].state = "RUNNING_HANDLER" ->
                IF context[c].future = "finished" THEN "prepared" ELSE "processing"
           [] OTHER -> "answering"

Fate(c) ==
  IF context[c].ending \in {"none", "answered"} THEN context[c].ending ELSE "broken"

Connection(c) ==
  INSTANCE HttpConnection WITH
    phase <- Phase(c), response <- context[c].response,
    output <- context[c].wire, fate <- Fate(c),
    up <- main_pc \notin {"pool_destroyed", "destroyed"}

\* Every connection of the server behaves like the connection HttpConnection
\* specifies: passes, pool, partial sends, eviction and shutdown included.
ImplementsConnection ==
  /\ \A c \in Conns : Connection(c)!Init
  /\ [][\A c \in Conns : [Connection(c)!Next]_(Connection(c)!vars)]_vars

=============================================================================
