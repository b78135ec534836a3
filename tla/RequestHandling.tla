-------------------------- MODULE RequestHandling ---------------------------
(***************************************************************************)
(* From a parsed request to its response (network-library HttpServer,      *)
(* http-server LuaServerApplication and StaticFileServer): which factory   *)
(* makes the handler, what the handler writes, and the file system that    *)
(* other programs change meanwhile.  One request at a time: threads and    *)
(* connections are the matter of HttpServer and LuaServerApplication.      *)
(*                                                                         *)
(* A file is a name that may point to a node, and a node has a content, so *)
(* that a file can be removed, replaced or rewritten under its reader.     *)
(***************************************************************************)
EXTENDS HttpResponseSerializer, RouteLookup

CONSTANTS
  Methods,
  Paths,        \* of requests
  Routes,       \* that scripts may register: a method and a key each
  Files, Nodes, NoNode,
  FileOf,       \* of a path: the file it resolves to inside the base directory
  Outside,      \* or Outside
  Bytes, MaxSize,
  MaxCalls      \* bounds the calls of a script on the serializer

Index == <<Slash>>

\* What a reader that fails leaves in the buffer.
Unread == "unread"

ASSUME HandlingAssumption ==
  /\ "GET" \in Methods
  /\ Paths \subseteq Seq(Nat) /\ Index \in Paths
  /\ Routes \subseteq Methods \X {path \in Paths : path # <<>> /\ path[1] = Slash}
  /\ FileOf \in [Paths -> Files \cup {Outside}]
  /\ NoNode \notin Nodes /\ Outside \notin Files
  /\ MaxSize \in Nat /\ MaxCalls \in Nat
  /\ Unread \notin Bytes

VARIABLES
  endpoints,    \* the registered keys of each method
  nodes,        \* of each file, or NoNode
  contents,     \* of each node
  phase,        \* of the request
  state,        \* of the static handler
  file_path,
  reader,       \* the node its reader has open, or NoNode
  content_length,
  response,     \* and its serializer
  calls,        \* made by the script
  author        \* history: who wrote the response

file_vars    == <<nodes, contents>>
handler_vars == <<state, file_path, reader, content_length>>
vars == <<endpoints, file_vars, phase, handler_vars, response, calls, author>>

Contents == UNION {[1 .. n -> Bytes] : n \in 0 .. MaxSize}

\* Statuses a script may ask for: one is not a status.
Statuses == {200, 42}

\* The text of an error response.
Message == <<"message">>

Init ==
  /\ endpoints = [m \in Methods |-> {}]
  /\ nodes \in [Files -> Nodes \cup {NoNode}]
  /\ contents = [n \in Nodes |-> <<>>]
  /\ phase = "waiting"
  /\ state = "FINISHED" /\ file_path = Outside
  /\ reader = NoNode /\ content_length = 0
  /\ response = Unserialized
  /\ calls = 0
  /\ author = "nobody"

Answered(who) ==
  /\ phase' = "answered"
  /\ author' = who

-----------------------------------------------------------------------------
(* RequestHandlerManager::create_handler: the first factory that has one *)

\* LuaServerApplication::create_handler, and the task that begins.
ToEndpoint(method, path) ==
  /\ phase = "waiting"
  /\ Lookup(endpoints[method], path) # {}
  /\ phase' = "endpoint"
  /\ response' = Restart(response)
  /\ UNCHANGED <<endpoints, file_vars, handler_vars, calls, author>>

\* StaticFileServer::create_handler, its base path in requests being "/".
StaticFile(method, path) ==
  LET requested == IF path = <<>> THEN Index ELSE path IN
  /\ method = "GET"
  /\ requested[1] = Slash
  /\ FileOf[requested] # Outside

\* The constructor: the file is there, and then it can be opened.
ToFile(method, path) ==
  LET file == FileOf[IF path = <<>> THEN Index ELSE path] IN
  /\ phase = "waiting"
  /\ Lookup(endpoints[method], path) = {}
  /\ StaticFile(method, path)
  /\ phase' = "created"
  /\ file_path' = file
  /\ \/ /\ nodes[file] = NoNode
        /\ state' = "FILE_NOT_FOUND"
        /\ UNCHANGED reader
     \/ /\ nodes[file] # NoNode
        /\ state' = "READING_FILE"
        /\ reader' = nodes[file]
     \/ /\ nodes[file] # NoNode      \* it cannot be opened, or not any more
        /\ state' = "INTERNAL_ERROR"
        /\ UNCHANGED reader
  /\ UNCHANGED <<endpoints, file_vars, content_length, response, calls, author>>

\* No factory has a handler: receive_request writes the response.
ToNobody(method, path) ==
  /\ phase = "waiting"
  /\ Lookup(endpoints[method], path) = {}
  /\ ~StaticFile(method, path)
  /\ response' = Complete(response, 404, Message)
  /\ Answered("server")
  /\ UNCHANGED <<endpoints, file_vars, handler_vars, calls>>

-----------------------------------------------------------------------------
(* StaticFileRequestHandler::process *)

\* FILE_NOT_FOUND and INTERNAL_ERROR
ProcessError ==
  /\ phase = "created"
  /\ \/ state = "FILE_NOT_FOUND" /\ response' = Complete(response, 404, Message)
     \/ state = "INTERNAL_ERROR" /\ response' = Complete(response, 500, Message)
  /\ state' = "FINISHED"
  /\ Answered("static")
  /\ UNCHANGED <<endpoints, file_vars, file_path, reader, content_length, calls>>

\* READING_FILE: file_size looks at the name, not at the reader, and throws if
\* there is nothing.
ProcessSize ==
  /\ phase = "created"
  /\ state = "READING_FILE"
  /\ \/ /\ nodes[file_path] # NoNode
        /\ content_length' = Len(contents[nodes[file_path]])
        /\ phase' = "sized"
     \/ /\ nodes[file_path] = NoNode
        /\ phase' = "failed"
        /\ UNCHANGED content_length
  /\ UNCHANGED <<endpoints, file_vars, state, file_path, reader, response,
                 calls, author>>

\* Mutant: what the reader could not deliver is sent as well.
EnoughToRead_Always == TRUE

EnoughToRead == Len(contents[reader]) >= content_length

Padded(content, size) ==
  [i \in 1 .. size |-> IF i <= Len(content) THEN content[i] ELSE Unread]

ProcessRead ==
  /\ phase = "sized"
  /\ EnoughToRead
  /\ response' = Complete(response, 200, Padded(contents[reader], content_length))
  /\ state' = "FINISHED"
  /\ Answered("static")
  /\ UNCHANGED <<endpoints, file_vars, file_path, reader, content_length, calls>>

\* Mutant: the state stays READING_FILE.
ProcessShort_Retry ==
  /\ phase = "sized"
  /\ ~EnoughToRead
  /\ phase' = "created"
  /\ UNCHANGED <<endpoints, file_vars, handler_vars, response, calls, author>>

\* The file is shorter by now: process returns false.
ProcessShort ==
  /\ phase = "sized"
  /\ ~EnoughToRead
  /\ state' = "INTERNAL_ERROR"
  /\ phase' = "created"
  /\ UNCHANGED <<endpoints, file_vars, file_path, reader, content_length,
                 response, calls, author>>

Process == ProcessError \/ ProcessSize \/ ProcessRead \/ ProcessShort

-----------------------------------------------------------------------------
(* The task of a Lua handler *)

Call(written) ==
  /\ phase = "endpoint"
  /\ calls < MaxCalls
  /\ calls' = calls + 1
  /\ response' = written
  /\ UNCHANGED <<endpoints, file_vars, phase, handler_vars, author>>

ScriptStatus(code) == CanStatus(response, code) /\ Call(Status(response, code))

ScriptHeader(announced) == CanHeader(response) /\ Call(Header(response, announced))

ScriptEndHeader == CanEndHeader(response) /\ Call(EndHeader(response))

ScriptBody(byte) == Call(Body(response, <<byte>>))

\* server.route
ScriptRoute(route) ==
  /\ phase = "endpoint"
  /\ endpoints' = [endpoints EXCEPT ![route[1]] = @ \cup {route[2]}]
  /\ UNCHANGED <<file_vars, phase, handler_vars, response, calls, author>>

ScriptReturns ==
  /\ phase = "endpoint"
  /\ Answered("script")
  /\ UNCHANGED <<endpoints, file_vars, handler_vars, response, calls>>

\* lua::RuntimeError: send_plain_text_response on the same response.
ScriptFails ==
  /\ phase = "endpoint"
  /\ response' = Complete(response, 500, Message)
  /\ Answered("error")
  /\ UNCHANGED <<endpoints, file_vars, handler_vars, calls>>

\* The NetworkException of a call that is not allowed goes through Lua, unless
\* Lua was built to catch it (ScriptFails), into the future.
ScriptThrows ==
  /\ phase = "endpoint"
  /\ Answered("exception")
  /\ \/ \E code \in Statuses : ~CanStatus(response, code)
     \/ ~CanHeader(response)
     \/ ~CanEndHeader(response)
  /\ UNCHANGED <<endpoints, file_vars, handler_vars, response, calls>>

-----------------------------------------------------------------------------
(* Around the request *)

\* The script registers routes as it is loaded, before the server runs.
LoadRoute(route) ==
  /\ phase = "waiting"
  /\ endpoints' = [endpoints EXCEPT ![route[1]] = @ \cup {route[2]}]
  /\ UNCHANGED <<file_vars, phase, handler_vars, response, calls, author>>

\* Other programs.
Write(node, content) ==
  /\ contents' = [contents EXCEPT ![node] = content]
  /\ UNCHANGED <<endpoints, nodes, phase, handler_vars, response, calls, author>>

Replace(file, node) ==
  /\ nodes' = [nodes EXCEPT ![file] = node]
  /\ UNCHANGED <<endpoints, contents, phase, handler_vars, response, calls, author>>

Serve ==
  \/ \E m \in Methods, p \in Paths : ToEndpoint(m, p) \/ ToFile(m, p) \/ ToNobody(m, p)
  \/ Process

Script ==
  \/ \E code \in Statuses : ScriptStatus(code)
  \/ \E announced \in {{}, {0}, {1}} : ScriptHeader(announced)
  \/ ScriptEndHeader
  \/ \E byte \in Bytes : ScriptBody(byte)
  \/ \E r \in Routes : ScriptRoute(r) \/ LoadRoute(r)
  \/ ScriptReturns \/ ScriptFails \/ ScriptThrows

Others ==
  \/ \E n \in Nodes, c \in Contents : Write(n, c)
  \/ \E f \in Files, n \in Nodes \cup {NoNode} : Replace(f, n)

Next == Serve \/ Script \/ Others

\* The pool calls process again and again.
Spec == Init /\ [][Next]_vars /\ WF_vars(Process)

-----------------------------------------------------------------------------
(* Properties *)

States == {"FILE_NOT_FOUND", "INTERNAL_ERROR", "READING_FILE", "FINISHED"}

\* What the handler, the response and the files hold; only a valid status is
\* ever written.
TypeOK ==
  /\ endpoints \in [Methods -> SUBSET Paths]
  /\ nodes \in [Files -> Nodes \cup {NoNode}]
  /\ contents \in [Nodes -> Contents]
  /\ phase \in {"waiting", "endpoint", "created", "sized", "answered", "failed"}
  /\ state \in States
  /\ file_path \in Files \cup {Outside}
  /\ reader \in Nodes \cup {NoNode}
  /\ content_length \in 0 .. MaxSize
  /\ response.header \in Seq(Parts)
  /\ response.body \in Seq(Bytes \cup {Message[1], Unread})
  /\ response.status \in {0} \cup 100 .. 599
  /\ response.announced \subseteq Nat
  /\ calls \in 0 .. MaxCalls
  /\ author \in {"nobody", "server", "static", "error", "script", "exception"}

\* The search looks at one key only, yet a path that is registered finds its
\* own endpoint, and what is found is never a shorter match than another key.
\* (A match can be missed: a sibling may stand between it and the path.)
LongestRouteFound ==
  \A method \in Methods, path \in Paths :
    LET found == Lookup(endpoints[method], path) IN
    /\ path \in endpoints[method] => found = {path}
    /\ \A key \in found :
         /\ key = path \/ path[Len(key) + 1] = Slash \/ key[Len(key)] = Slash
         /\ \A other \in endpoints[method] :
              Matches(other, path) => Len(other) <= Len(key)

\* No order of calls a script can make puts two statuses into a header, a field
\* before the status or the end before a field.
SerializerOrder == InOrder(response)

\* A response the server writes itself, also over what a failed script had
\* written, is complete, and the length it announces is that of its body.
AnswersWellFormed ==
  phase = "answered" /\ author \in {"server", "static", "error"} =>
    WellFormed(response)

\* A file that shrinks, grows or is replaced between the opening, the look at
\* its size and the reading: nothing is sent that was not read from it.
SentAsRead ==
  phase = "answered" /\ response.status = 200 =>
    \A i \in 1 .. Len(response.body) : response.body[i] # Unread

\* However the file changes, process is not called for ever.
FileAnswered == phase = "created" ~> phase \in {"answered", "failed"}

=============================================================================
