----------------------------- MODULE SqliteRows -----------------------------
(***************************************************************************)
(* The rows a script gets from db.query (http-server Sqlite and the bridge *)
(* of LuaServerApplication): a prepared statement that a Row owns, which a *)
(* bridge in database_row_bridges owns, which a Lua table refers to by     *)
(* address and keeps until the garbage collector takes its sentinel.  The  *)
(* table reaches the script over the stack of the virtual machine, which   *)
(* the tasks of the requests share (LuaStack).  All of it happens on one   *)
(* thread at a time: main until the script is loaded and after the join,   *)
(* the Lua thread in between.                                              *)
(***************************************************************************)
EXTENDS LuaStack

CONSTANTS
  Rows,       \* bounds the statements
  Arguments,  \* what db.query and db.execute find and read on their stack
  Callees,    \* what other functions of the bridge that throw have on theirs
  Results,    \* what an endpoint may return
  MaxSlots,   \* bounds the tasks: no task starts above it
  MaxCaps     \* bounds the tasks: none starts with more caps in the queue

ASSUME SqliteRowsAssumption ==
  /\ Arguments \subseteq Seq(Contents)
  /\ Callees \subseteq Seq(Contents)
  /\ Results \subseteq Seq({"result"})

VARIABLES
  stack,        \* what C++ sees of the stack between two calls of a script
  base,         \* the slots before the tables of the last task
  statement,    \* of each row: its sqlite3_stmt
  bridges,      \* database_row_bridges: the rows whose bridge exists
  tables,       \* of each row: its Lua table
  database,     \* database_ptr
  phase,        \* what the virtual machine does, then which members are left
  unwound       \* history: an exception has passed through the virtual machine

rows_vars == <<statement, bridges, tables>>
task_vars == <<stack, base, phase, unwound>>

vars == <<rows_vars, task_vars, database>>

Running == {"loading", "idle", "endpoint"}
Scripts == {"loading", "endpoint"}

\* A statement that was stepped is at a row or at the end.
Live == {"prepared", "row", "done"}

Init ==
  /\ stack = [slots |-> <<>>, dealloc |-> <<>>]
  /\ base = 0
  /\ statement = [r \in Rows |-> "none"]
  /\ bridges = {}
  /\ tables = [r \in Rows |-> "none"]
  /\ database = "none"
  /\ phase = "loading"
  /\ unwound = FALSE

\* Mutant: the pointer to the statement is not reset.
Finalize_Dangling(statements, rows) ==
  [r \in Rows |-> IF r \in rows THEN "dangling" ELSE statements[r]]

Finalize(statements, rows) ==
  [r \in Rows |-> IF r \in rows THEN "finalized" ELSE statements[r]]

-----------------------------------------------------------------------------
(* Calls of a script *)

\* An exception leaves a C function that has these slots.  Lua was built as C:
\* nothing on the way restores the frame of its caller, so the locals of the
\* task are released against the slots of the callee, and its frame is the one
\* later tasks find.  An exception of the script itself ends the constructor.
Throw(callee) ==
  LET frame == [stack EXCEPT !.slots = callee] IN
  /\ stack' = IF phase = "endpoint" THEN TaskLocals(frame, base) ELSE frame
  /\ phase' = IF phase = "endpoint" THEN "idle" ELSE "failed"
  /\ unwound' = TRUE
  /\ UNCHANGED base

\* database () opens the connection when it is first needed.
Open ==
  /\ phase \in Scripts
  /\ database = "none"
  /\ database' = "open"
  /\ UNCHANGED <<rows_vars, task_vars>>

\* Mutant: the sentinel does not hold the hook, which runs at once.
MakeRowTable_HookDropped(r, frame) ==
  /\ stack' = [stack EXCEPT !.dealloc = frame.dealloc]
  /\ tables' = [tables EXCEPT ![r] = "reachable"]
  /\ statement' = Finalize(statement, {r})
  /\ UNCHANGED bridges

\* make_sqlite_row_table: the bridge takes the row over.  Nobody has the table
\* if it is not what the call returns.
MakeRowTable(r, frame) ==
  /\ stack' = [stack EXCEPT !.dealloc = frame.dealloc]
  /\ tables' = [tables EXCEPT ![r] =
                  IF Returned(frame) = "row" THEN "reachable" ELSE "garbage"]
  /\ statement' = [statement EXCEPT ![r] = "prepared"]
  /\ bridges' = bridges \cup {r}

CanPrepare(r) == phase \in Scripts /\ database = "open" /\ statement[r] = "none"

Query(r) ==
  /\ CanPrepare(r)
  /\ \E args \in Arguments : MakeRowTable(r, QueryFrame(args, stack.dealloc))
  /\ UNCHANGED <<base, phase, unwound, database>>

\* execute_all: its Row is local and finalizes the statement.
Execute(r) ==
  /\ CanPrepare(r)
  /\ statement' = Finalize(statement, {r})
  /\ UNCHANGED <<bridges, tables, task_vars, database>>

\* query_all or execute_all throws: a statement that cannot be prepared is
\* none, and the destructor of Row finalizes one that cannot be bound or run.
PrepareFails(r) ==
  /\ CanPrepare(r)
  /\ statement' = Finalize(statement, {r})
  /\ \E args \in Arguments : Throw(args)
  /\ UNCHANGED <<bridges, tables, database>>

\* Row::advance, by the address in the table.  A step after the end begins
\* the result again; one that fails leaves the statement as prepared and throws.
Advance(r) ==
  /\ phase \in Scripts
  /\ tables[r] = "reachable"
  /\ statement[r] \in Live
  /\ \/ /\ \E s \in Live : statement' = [statement EXCEPT ![r] = s]
        /\ UNCHANGED task_vars
     \/ /\ statement' = [statement EXCEPT ![r] = "prepared"]
        /\ \E callee \in Callees : Throw(callee)
  /\ UNCHANGED <<bridges, tables, database>>

\* Any other exception that is no error of Lua: a connection that cannot be
\* opened, a column that is not there, an argument that is no text.
FunctionThrows ==
  /\ phase \in Scripts
  /\ \E callee \in Arguments \cup Callees : Throw(callee)
  /\ UNCHANGED <<rows_vars, database>>

\* The script lets go of the table.
Forget(r) ==
  /\ phase \in Scripts
  /\ tables[r] = "reachable"
  /\ tables' = [tables EXCEPT ![r] = "garbage"]
  /\ UNCHANGED <<statement, bridges, task_vars, database>>

\* The collector: the hooks of the sentinels erase the bridges.
CollectTables(rows) ==
  /\ tables' = [r \in Rows |-> IF r \in rows THEN "collected" ELSE tables[r]]
  /\ bridges' = bridges \ rows
  /\ statement' = Finalize(statement, rows \cap bridges)

Collect(r) ==
  /\ phase \in Running
  /\ tables[r] = "garbage"
  /\ CollectTables({r})
  /\ UNCHANGED <<task_vars, database>>

-----------------------------------------------------------------------------
(* The tasks of the Lua thread, which starts when the script is loaded *)

Loaded ==
  /\ phase = "loading"
  /\ phase' = "idle"
  /\ UNCHANGED <<rows_vars, stack, base, unwound, database>>

\* The second setmetatable is called without protection: an error in it is a
\* panic, which aborts.  Once an exception has passed, it jumps to a frame that
\* has gone: nothing is said of what comes after that either.
StartTask ==
  /\ phase = "idle"
  /\ Len(stack.slots) <= MaxSlots
  /\ Len(stack.dealloc) <= MaxCaps
  /\ base' = Len(stack.slots)
  /\ stack' = TaskFrame(stack)
  /\ phase' = IF SecondIsTable(stack) THEN "endpoint" ELSE "aborted"
  /\ UNCHANGED <<rows_vars, unwound, database>>

\* The endpoint returns, or fails with an error of Lua and returns nothing:
\* lua_pcall restores the frame of the task.
EndTask ==
  /\ phase = "endpoint"
  /\ \E results \in Results \cup {<<>>} : stack' = TaskEnd(stack, base, results)
  /\ phase' = "idle"
  /\ UNCHANGED <<rows_vars, base, unwound, database>>

-----------------------------------------------------------------------------
(* The members of the application, in the reverse of their order *)

\* The virtual machine collects every table that is left.
CloseVirtualMachine ==
  /\ phase \in {"loading", "failed", "idle"}
  /\ phase' = "vm_closed"
  /\ CollectTables({r \in Rows : tables[r] \in {"reachable", "garbage"}})
  /\ UNCHANGED <<stack, base, unwound, database>>

\* Mutant: the map is destroyed first.
DestroyBridges_First ==
  /\ phase \in {"loading", "failed", "idle"}
  /\ phase' = "bridges_destroyed"
  /\ bridges' = {}
  /\ statement' = Finalize(statement, bridges)
  /\ UNCHANGED <<tables, stack, base, unwound, database>>

DestroyBridges ==
  /\ phase = "vm_closed"
  /\ phase' = "bridges_destroyed"
  /\ bridges' = {}
  /\ statement' = Finalize(statement, bridges)
  /\ UNCHANGED <<tables, stack, base, unwound, database>>

\* Mutant: the connection is closed as soon as the virtual machine may be.
CloseDatabase_First ==
  /\ phase \in {"loading", "failed", "idle"}
  /\ phase' = "destroyed"
  /\ database' = IF \E r \in Rows : statement[r] \in Live THEN "leaked" ELSE "closed"
  /\ UNCHANGED <<rows_vars, stack, base, unwound>>

\* sqlite3_close refuses, and its result is not looked at, if a statement is
\* not finalized.
CloseDatabase ==
  /\ phase = "bridges_destroyed"
  /\ phase' = "destroyed"
  /\ database' = IF \E r \in Rows : statement[r] \in Live THEN "leaked" ELSE "closed"
  /\ UNCHANGED <<rows_vars, stack, base, unwound>>

Next ==
  \/ Open \/ FunctionThrows
  \/ \E r \in Rows :
       \/ Query(r) \/ Execute(r) \/ PrepareFails(r)
       \/ Advance(r) \/ Forget(r) \/ Collect(r)
  \/ Loaded \/ StartTask \/ EndTask
  \/ CloseVirtualMachine \/ DestroyBridges \/ CloseDatabase

Spec == Init /\ [][Next]_vars

-----------------------------------------------------------------------------
(* Properties *)

\* What the rows, their tables and the application hold.
TypeOK ==
  /\ statement \in [Rows -> Live \cup {"none", "finalized"}]
  /\ bridges \subseteq Rows
  /\ tables \in [Rows -> {"none", "reachable", "garbage", "collected"}]
  /\ database \in {"none", "open", "closed", "leaked"}
  /\ phase \in Running \cup {"aborted", "failed", "vm_closed", "bridges_destroyed",
                           "destroyed"}
  /\ unwound \in BOOLEAN
  /\ base \in Nat
  /\ stack \in [slots : Seq(Contents), dealloc : Seq(Nat)]

\* The address a table keeps is that of a bridge whose statement is live, for
\* as long as a script or a hook of the collector may use it.
RowUsable ==
  \A r \in Rows : tables[r] \in {"reachable", "garbage"} =>
    /\ r \in bridges
    /\ statement[r] \in Live

\* The hooks run while the map they erase from is there, and no statement
\* keeps the connection from being closed.
ClosedCleanly ==
  /\ phase \in {"bridges_destroyed", "destroyed"} =>
       \A r \in Rows : tables[r] \notin {"reachable", "garbage"}
  /\ database # "leaked"

\* Until an exception has passed through the virtual machine, and db.query has
\* left its first cap in the queue that all frames share, a value keeps its slot
\* while it lives: an endpoint is called with its two tables and nothing above
\* them, and all that a finished task leaves is what it did not own (the
\* endpoint, its results) and what is under that.
ValuesKeepSlots ==
  ~unwound /\ (\A r \in Rows : tables[r] = "none") =>
    /\ phase # "aborted"
    /\ phase = "endpoint" =>
         SubSeq(stack.slots, base + 1, Len(stack.slots)) = <<"request", "response">>
    /\ phase = "idle" =>
         \A i \in DOMAIN stack.slots :
           (stack.slots[i] \in {"request", "response"}) <=> (i \in Caps(stack.dealloc))

\* After queries and exceptions too, a task whose frame ends above every cap in
\* the queue calls its endpoint with its two tables.
TaskFindsTables ==
  [][(/\ phase = "idle" /\ phase' \in {"endpoint", "aborted"}
      /\ \A c \in Caps(stack.dealloc) : c <= Len(stack.slots)) =>
       /\ phase' = "endpoint"
       /\ SubSeq(stack'.slots, base' + 1, Len(stack'.slots)) = <<"request", "response">>]_vars

\* What main.lua does with the result of db.query: it is the row, whose advance
\* it calls.
QueryReturnsRow ==
  [][\A r \in Rows : tables[r] = "none" => tables'[r] \in {"none", "reachable"}]_vars

=============================================================================
