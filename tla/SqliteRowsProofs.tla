-------------------------- MODULE SqliteRowsProofs --------------------------
(***************************************************************************)
(* Proofs about SqliteRows, for any rows, arguments and results: the type  *)
(* of its variables, that rows outlive their tables and are gone before    *)
(* the connection closes, that the values of a task keep their slots until *)
(* the first query or exception, and that later a task finds its tables    *)
(* where no cap is above its frame.                                        *)
(***************************************************************************)
EXTENDS SqliteRows, LuaStackProofs

\* What an endpoint returns can be on the stack.
LEMMA ResultsType ==
  ASSUME NEW results \in Results \cup {<<>>}
  PROVE  results \in Seq(Contents) /\ results \in Seq({"result"})
<1>1. results \in Seq({"result"})
  <2>1. <<>> \in Seq({"result"})
    OBVIOUS
  <2> QED
    BY <2>1, SqliteRowsAssumption, Zenon
<1>2. {"result"} \subseteq Contents
  BY DEF Contents
<1> QED
  BY <1>1, <1>2

-----------------------------------------------------------------------------
(* Types *)

\* The statements after a finalization, whichever rows it is for.
LEMMA FinalizeType ==
  ASSUME statement \in [Rows -> Live \cup {"none", "finalized"}], NEW rows
  PROVE  Finalize(statement, rows) \in [Rows -> Live \cup {"none", "finalized"}]
BY DEF Finalize

\* A collection keeps the types, whichever tables it takes.
LEMMA CollectType ==
  ASSUME TypeOK, NEW rows, CollectTables(rows)
  PROVE  /\ statement' \in [Rows -> Live \cup {"none", "finalized"}]
         /\ bridges' \subseteq Rows
         /\ tables' \in [Rows -> {"none", "reachable", "garbage", "collected"}]
<1>1. statement' \in [Rows -> Live \cup {"none", "finalized"}]
  BY FinalizeType DEF TypeOK, CollectTables
<1> QED
  BY <1>1 DEF TypeOK, CollectTables

\* An exception leaves a frame of the stack, whichever function it left.
LEMMA ThrowType ==
  ASSUME TypeOK, NEW callee \in Arguments \cup Callees, Throw(callee)
  PROVE  /\ stack' \in Frames /\ base' \in Nat
         /\ phase' \in {"idle", "failed"} /\ unwound' = TRUE
<1> DEFINE frame == [stack EXCEPT !.slots = callee]
<1>1. callee \in Seq(Contents) /\ base \in Nat
  BY SqliteRowsAssumption DEF TypeOK
<1>2. frame \in Frames
  BY <1>1 DEF TypeOK, Frames
<1> HIDE DEF frame
<1>3. /\ stack' = IF phase = "endpoint" THEN TaskLocals(frame, base) ELSE frame
      /\ phase' = IF phase = "endpoint" THEN "idle" ELSE "failed"
      /\ unwound' = TRUE /\ base' = base
  BY DEF Throw, frame
<1>4. TaskLocals(frame, base) \in Frames
  BY <1>1, <1>2, TaskLocalsType
<1> QED
  BY <1>1, <1>2, <1>3, <1>4

\* The types at the start.
LEMMA InitType == Init => TypeOK
<1> SUFFICES ASSUME Init PROVE TypeOK
  OBVIOUS
<1>1. stack \in [slots : Seq(Contents), dealloc : Seq(Nat)]
  <2>1. <<>> \in Seq(Contents) /\ <<>> \in Seq(Nat)
    OBVIOUS
  <2> QED
    BY <2>1 DEF Init
<1>2. phase \in Running /\ unwound \in BOOLEAN /\ base \in Nat
  BY DEF Init, Running
<1>3. /\ statement \in [Rows -> Live \cup {"none", "finalized"}] /\ bridges \subseteq Rows
      /\ tables \in [Rows -> {"none", "reachable", "garbage", "collected"}]
      /\ database \in {"none", "open", "closed", "leaked"}
  BY DEF Init
<1> QED
  BY <1>1, <1>2, <1>3 DEF TypeOK

\* Every step keeps the types.
LEMMA TypeStep == TypeOK /\ [Next]_vars => TypeOK'
<1> SUFFICES ASSUME TypeOK, [Next]_vars PROVE TypeOK'
  OBVIOUS
<1>f. stack \in Frames
  BY DEF TypeOK, Frames
<1>1. CASE Open
  BY <1>1 DEF Open, rows_vars, task_vars, TypeOK
<1>2. ASSUME NEW r \in Rows, Query(r) PROVE TypeOK'
  <2>1. PICK args \in Arguments : MakeRowTable(r, QueryFrame(args, stack.dealloc))
    BY <1>2 DEF Query
  <2>2. QueryFrame(args, stack.dealloc) \in Frames
    BY SqliteRowsAssumption, QueryFrameType DEF TypeOK
  <2> DEFINE frame == QueryFrame(args, stack.dealloc)
  <2>3. frame.dealloc \in Seq(Nat)
    BY <2>2 DEF Frames
  <2> HIDE DEF frame
  <2>4. MakeRowTable(r, frame)
    BY <2>1 DEF frame
  <2>5. stack' \in [slots : Seq(Contents), dealloc : Seq(Nat)]
    BY <2>3, <2>4 DEF TypeOK, MakeRowTable
  <2>6. /\ tables' \in [Rows -> {"none", "reachable", "garbage", "collected"}]
        /\ statement' \in [Rows -> Live \cup {"none", "finalized"}]
        /\ bridges' \subseteq Rows
    BY <2>4 DEF TypeOK, MakeRowTable, Live
  <2> QED
    BY <1>2, <2>5, <2>6 DEF TypeOK, Query
<1>3. ASSUME NEW r \in Rows, Advance(r) PROVE TypeOK'
  <2>1. /\ statement' \in [Rows -> Live \cup {"none", "finalized"}]
        /\ UNCHANGED <<bridges, tables, database>>
    BY <1>3 DEF Advance, TypeOK, Live
  <2>2. CASE UNCHANGED task_vars
    BY <2>1, <2>2 DEF task_vars, TypeOK
  <2>3. CASE \E callee \in Callees : Throw(callee)
    <3>1. PICK callee \in Callees : Throw(callee)
      BY <2>3
    <3>2. callee \in Arguments \cup Callees
      OBVIOUS
    <3>3. /\ stack' \in Frames /\ base' \in Nat
          /\ phase' \in {"idle", "failed"} /\ unwound' = TRUE
      BY <3>1, <3>2, ThrowType
    <3> QED
      BY <2>1, <3>3 DEF TypeOK, Frames, Running
  <2> QED
    BY <1>3, <2>2, <2>3 DEF Advance
<1>4. ASSUME NEW r \in Rows, Forget(r) PROVE TypeOK'
  BY <1>4 DEF Forget, task_vars, TypeOK
<1>5. ASSUME NEW r \in Rows, Collect(r) PROVE TypeOK'
  <2>1. CollectTables({r}) /\ UNCHANGED <<stack, base, database, phase, unwound>>
    BY <1>5 DEF Collect, task_vars
  <2> QED
    BY <2>1, CollectType DEF TypeOK
<1>6. CASE Loaded
  BY <1>6 DEF Loaded, rows_vars, TypeOK, Running
<1>7. CASE StartTask
  <2>1. stack' \in Frames
    BY <1>f, <1>7, TaskFrameType DEF StartTask
  <2>2. base' \in Nat /\ phase' \in {"endpoint", "aborted"}
    BY <1>f, <1>7 DEF StartTask, Frames
  <2> QED
    BY <1>7, <2>1, <2>2 DEF StartTask, rows_vars, TypeOK, Frames, Running
<1>8. CASE EndTask
  <2>1. PICK results \in Results \cup {<<>>} : stack' = TaskEnd(stack, base, results)
    BY <1>8 DEF EndTask
  <2>2. stack' \in Frames
    <3>1. results \in Seq(Contents)
      BY ResultsType
    <3>2. base \in Nat
      BY DEF TypeOK
    <3> QED
      BY <1>f, <2>1, <3>1, <3>2, TaskEndCaps
  <2> QED
    BY <1>8, <2>2 DEF EndTask, rows_vars, TypeOK, Frames, Running
<1>9. CASE CloseVirtualMachine
  <2>1. /\ CollectTables({r \in Rows : tables[r] \in {"reachable", "garbage"}})
        /\ phase' = "vm_closed" /\ UNCHANGED <<stack, base, unwound, database>>
    BY <1>9 DEF CloseVirtualMachine
  <2> QED
    BY <2>1, CollectType DEF TypeOK
<1>10. CASE DestroyBridges
  <2>1. statement' \in [Rows -> Live \cup {"none", "finalized"}]
    BY <1>10, FinalizeType DEF DestroyBridges, TypeOK
  <2> QED
    BY <1>10, <2>1 DEF DestroyBridges, TypeOK
<1>11. CASE CloseDatabase
  BY <1>11 DEF CloseDatabase, rows_vars, TypeOK
<1>12. CASE UNCHANGED vars
  BY <1>12 DEF vars, rows_vars, task_vars, TypeOK
<1>13. ASSUME NEW r \in Rows, Execute(r) PROVE TypeOK'
  <2>1. statement' \in [Rows -> Live \cup {"none", "finalized"}]
    BY <1>13, FinalizeType DEF Execute, TypeOK
  <2> QED
    BY <1>13, <2>1 DEF Execute, task_vars, TypeOK
<1>14. ASSUME NEW r \in Rows, PrepareFails(r) PROVE TypeOK'
  <2>1. PICK args \in Arguments : Throw(args)
    BY <1>14 DEF PrepareFails
  <2>2. args \in Arguments \cup Callees
    OBVIOUS
  <2>3. statement' \in [Rows -> Live \cup {"none", "finalized"}]
    BY <1>14, FinalizeType DEF PrepareFails, TypeOK
  <2>4. /\ stack' \in Frames /\ base' \in Nat
        /\ phase' \in {"idle", "failed"} /\ unwound' = TRUE
    BY <2>1, <2>2, ThrowType
  <2> QED
    BY <1>14, <2>3, <2>4 DEF PrepareFails, TypeOK, Frames, Running
<1>15. CASE FunctionThrows
  <2>1. PICK callee \in Arguments \cup Callees : Throw(callee)
    BY <1>15 DEF FunctionThrows
  <2>2. /\ stack' \in Frames /\ base' \in Nat
        /\ phase' \in {"idle", "failed"} /\ unwound' = TRUE
    BY <2>1, ThrowType
  <2> QED
    BY <1>15, <2>2 DEF FunctionThrows, rows_vars, TypeOK, Frames, Running
<1> QED
  BY <1>1, <1>2, <1>3, <1>4, <1>5, <1>6, <1>7, <1>8, <1>9, <1>10, <1>11, <1>12, <1>13, <1>14, <1>15
  DEF Next

\* Every variable keeps its type.
THEOREM TypeCorrect == Spec => []TypeOK
BY InitType, TypeStep, PTL DEF Spec

-----------------------------------------------------------------------------
(* The rows *)

\* A row has a bridge exactly while Lua has its table, and a statement to
\* finalize exactly while it has a bridge.  Closing the virtual machine takes
\* every table, so the connection finds no statement.
RowInv ==
  /\ \A r \in Rows :
       /\ tables[r] \in {"reachable", "garbage"} <=> r \in bridges
       /\ statement[r] \in Live <=> r \in bridges
  /\ phase \in {"vm_closed", "bridges_destroyed", "destroyed"} => bridges = {}
  /\ database # "leaked"

\* A collection of tables that Lua has takes their bridges and statements.
LEMMA CollectRows ==
  ASSUME TypeOK, RowInv, NEW rows \in SUBSET bridges, CollectTables(rows)
  PROVE  /\ bridges' = bridges \ rows
         /\ \A r \in Rows :
              /\ tables'[r] \in {"reachable", "garbage"} <=> r \in bridges'
              /\ statement'[r] \in Live <=> r \in bridges'
<1> SUFFICES ASSUME NEW r \in Rows
             PROVE  /\ tables'[r] \in {"reachable", "garbage"} <=> r \in bridges'
                    /\ statement'[r] \in Live <=> r \in bridges'
  BY DEF CollectTables
<1>1. CASE r \in rows
  <2>1. tables'[r] = "collected" /\ statement'[r] = "finalized" /\ r \notin bridges'
    BY <1>1 DEF CollectTables, Finalize
  <2> QED
    BY <2>1 DEF Live, CollectTables
<1>2. CASE r \notin rows
  <2>1. tables'[r] = tables[r] /\ statement'[r] = statement[r] /\ (r \in bridges' <=> r \in bridges)
    BY <1>2 DEF CollectTables, Finalize
  <2> QED
    BY <2>1 DEF RowInv, CollectTables
<1> QED
  BY <1>1, <1>2

\* Every step keeps the rows and their tables in step.
LEMMA RowStep == TypeOK /\ RowInv /\ [Next]_vars => RowInv'
<1> SUFFICES ASSUME TypeOK, RowInv, [Next]_vars PROVE RowInv'
  OBVIOUS
<1>1. CASE Open
  BY <1>1 DEF Open, rows_vars, task_vars, RowInv
<1>2. ASSUME NEW r \in Rows, Query(r) PROVE RowInv'
  <2>1. /\ phase \in Scripts /\ statement[r] = "none"
        /\ phase' = phase /\ database' = database
    BY <1>2 DEF Query, CanPrepare
  <2>2. PICK args \in Arguments : MakeRowTable(r, QueryFrame(args, stack.dealloc))
    BY <1>2 DEF Query
  <2> DEFINE frame == QueryFrame(args, stack.dealloc)
  <2> HIDE DEF frame
  <2>3. MakeRowTable(r, frame)
    BY <2>2 DEF frame
  <2>4. /\ tables'[r] \in {"reachable", "garbage"} /\ statement'[r] = "prepared"
        /\ bridges' = bridges \cup {r}
        /\ \A q \in Rows \ {r} : tables'[q] = tables[q] /\ statement'[q] = statement[q]
    BY <2>3 DEF MakeRowTable, TypeOK
  <2> QED
    BY <2>1, <2>4 DEF RowInv, Live, Scripts
<1>3. ASSUME NEW r \in Rows, Advance(r) PROVE RowInv'
  <2>1. PICK s \in Live : statement' = [statement EXCEPT ![r] = s]
    BY <1>3 DEF Advance, Live
  <2>2. phase' \in {phase, "idle", "failed"}
    BY <1>3 DEF Advance, task_vars, Throw
  <2>3. /\ statement[r] \in Live /\ statement'[r] \in Live
        /\ \A q \in Rows \ {r} : statement'[q] = statement[q]
        /\ UNCHANGED <<bridges, tables, database>>
    BY <1>3, <2>1 DEF Advance, TypeOK
  <2> QED
    BY <2>2, <2>3 DEF RowInv
<1>4. ASSUME NEW r \in Rows, Forget(r) PROVE RowInv'
  <2>1. /\ tables[r] = "reachable" /\ tables'[r] = "garbage"
        /\ \A q \in Rows \ {r} : tables'[q] = tables[q]
        /\ UNCHANGED <<statement, bridges, database, phase>>
    BY <1>4 DEF Forget, task_vars, TypeOK
  <2> QED
    BY <2>1 DEF RowInv
<1>5. ASSUME NEW r \in Rows, Collect(r) PROVE RowInv'
  <2>1. CollectTables({r}) /\ UNCHANGED <<database, phase>> /\ {r} \in SUBSET bridges
    BY <1>5 DEF Collect, task_vars, RowInv
  <2>2. phase \in Running => bridges' = {} \/ phase \notin {"vm_closed", "bridges_destroyed", "destroyed"}
    BY DEF Running
  <2> QED
    BY <1>5, <2>1, <2>2, CollectRows DEF RowInv, Collect
<1>6. CASE Loaded
  BY <1>6 DEF Loaded, rows_vars, RowInv
<1>7. CASE StartTask
  BY <1>7 DEF StartTask, rows_vars, RowInv
<1>8. CASE EndTask
  BY <1>8 DEF EndTask, rows_vars, RowInv
<1>9. CASE CloseVirtualMachine
  <2> DEFINE rows == {r \in Rows : tables[r] \in {"reachable", "garbage"}}
  <2>1. rows = bridges
    BY DEF RowInv, TypeOK
  <2> HIDE DEF rows
  <2>2. CollectTables(rows) /\ database' = database
    BY <1>9 DEF CloseVirtualMachine, rows
  <2>3. bridges' = {}
    BY <2>1, <2>2 DEF CollectTables
  <2> QED
    BY <2>1, <2>2, <2>3, CollectRows DEF RowInv
<1>10. CASE DestroyBridges
  <2>1. bridges = {} /\ bridges' = {} /\ statement' = Finalize(statement, {})
        /\ UNCHANGED <<tables, database>>
    BY <1>10 DEF DestroyBridges, RowInv
  <2>2. \A r \in Rows : statement'[r] = statement[r]
    BY <2>1 DEF Finalize
  <2> QED
    BY <2>1, <2>2 DEF RowInv
<1>11. CASE CloseDatabase
  <2>1. \A r \in Rows : statement[r] \notin Live
    BY <1>11 DEF CloseDatabase, RowInv
  <2> QED
    BY <1>11, <2>1 DEF CloseDatabase, rows_vars, RowInv
<1>12. CASE UNCHANGED vars
  BY <1>12 DEF vars, rows_vars, task_vars, RowInv
<1>13. ASSUME NEW r \in Rows, Execute(r) \/ PrepareFails(r) PROVE RowInv'
  <2>1. statement[r] = "none" /\ UNCHANGED <<bridges, tables, database>>
    BY <1>13 DEF Execute, PrepareFails, CanPrepare
  <2>2. phase' \in {phase, "idle", "failed"}
    BY <1>13 DEF Execute, PrepareFails, task_vars, Throw
  <2>3. /\ statement'[r] = "finalized"
        /\ \A q \in Rows \ {r} : statement'[q] = statement[q]
    BY <1>13 DEF Execute, PrepareFails, Finalize
  <2> QED
    BY <2>1, <2>2, <2>3 DEF RowInv, Live
<1>14. CASE FunctionThrows
  <2>1. phase' \in {"idle", "failed"}
    BY <1>14 DEF FunctionThrows, Throw
  <2> QED
    BY <1>14, <2>1 DEF FunctionThrows, rows_vars, RowInv
<1> QED
  BY <1>1, <1>2, <1>3, <1>4, <1>5, <1>6, <1>7, <1>8, <1>9, <1>10, <1>11, <1>12, <1>13, <1>14 DEF Next

\* The rows and their tables are in step in every state.
LEMMA RowsInStep == Spec => [](TypeOK /\ RowInv)
<1>1. Init => RowInv
  BY DEF Init, RowInv, Live
<1> QED
  BY <1>1, InitType, TypeStep, RowStep, PTL DEF Spec

\* The address a table keeps is that of a bridge whose statement is live.
THEOREM RowSafety == Spec => []RowUsable
<1>1. RowInv => RowUsable
  BY DEF RowInv, RowUsable
<1> QED
  BY <1>1, RowsInStep, PTL

\* No hook runs after its map is gone, and no statement keeps the connection
\* from closing.
THEOREM ClosingSafety == Spec => []ClosedCleanly
<1>1. RowInv => ClosedCleanly
  BY DEF RowInv, ClosedCleanly
<1> QED
  BY <1>1, RowsInStep, PTL

-----------------------------------------------------------------------------
(* The stack before the first query and the first exception *)

NoRow == ~unwound /\ (\A r \in Rows : tables[r] = "none")

\* Under the slots of the running task there are what earlier tasks left: the
\* tables, whose caps wait in the queue, and what nobody owns.
Left(slots, dealloc, n) ==
  /\ \A i \in 1 .. n : slots[i] \in {"request", "response"} <=> i \in Caps(dealloc)
  /\ \A i \in DOMAIN dealloc : dealloc[i] \in 1 .. n

SlotInv ==
  NoRow =>
    /\ phase # "aborted"
    /\ phase \in {"loading", "idle"} => Left(stack.slots, stack.dealloc, Len(stack.slots))
    /\ phase = "endpoint" =>
         /\ Len(stack.slots) = base + 2
         /\ stack.slots[base + 1] = "request" /\ stack.slots[base + 2] = "response"
         /\ Left(stack.slots, stack.dealloc, base)

\* A row never becomes one nobody asked for, and no exception is forgotten.
LEMMA NoRowBefore == TypeOK /\ [Next]_vars /\ NoRow' => NoRow
<1>0. ASSUME TypeOK, [Next]_vars, ~unwound' PROVE ~unwound
  <2>1. ASSUME UNCHANGED unwound PROVE ~unwound
    BY <1>0, <2>1
  <2>2. ASSUME NEW callee, Throw(callee) PROVE FALSE
    BY <1>0, <2>2 DEF Throw
  <2> QED
    BY <1>0, <2>1, <2>2
    DEF Next, Open, Query, Execute, PrepareFails, Advance, FunctionThrows, Forget, Collect, Loaded,
        StartTask, EndTask, CloseVirtualMachine, DestroyBridges, CloseDatabase, vars, task_vars
<1> SUFFICES ASSUME TypeOK, [Next]_vars, NoRow', NEW r \in Rows PROVE tables[r] = "none"
  BY <1>0 DEF NoRow
<1>1. tables'[r] = "none"
  BY DEF NoRow
<1>2. ASSUME NEW q \in Rows, Query(q) PROVE tables[r] = "none"
  <2>1. PICK args \in Arguments : MakeRowTable(q, QueryFrame(args, stack.dealloc))
    BY <1>2 DEF Query
  <2> DEFINE frame == QueryFrame(args, stack.dealloc)
  <2> HIDE DEF frame
  <2>2. MakeRowTable(q, frame)
    BY <2>1 DEF frame
  <2> QED
    BY <1>1, <2>2 DEF MakeRowTable, TypeOK
<1>3. ASSUME NEW q \in Rows, Forget(q) PROVE tables[r] = "none"
  BY <1>1, <1>3 DEF Forget, TypeOK
<1>4. ASSUME NEW rows, CollectTables(rows) PROVE tables[r] = "none"
  BY <1>1, <1>4 DEF CollectTables
<1>5. ASSUME UNCHANGED tables PROVE tables[r] = "none"
  BY <1>1, <1>5
<1>6. tables[r] = "none"
  BY <1>2, <1>3, <1>4, <1>5
  DEF Next, Open, Execute, PrepareFails, Advance, FunctionThrows, Collect, Loaded, StartTask, EndTask,
      CloseVirtualMachine, DestroyBridges, CloseDatabase, vars, rows_vars
<1> QED
  BY <1>6

\* What a task leaves is as before under its tables, which are queued, and
\* above them is what nobody owns.
LEMMA LeftByTask ==
  ASSUME TypeOK, Len(stack.slots) = base + 2,
         stack.slots[base + 1] = "request", stack.slots[base + 2] = "response",
         Left(stack.slots, stack.dealloc, base),
         NEW results \in Results \cup {<<>>}
  PROVE  Left(TaskEnd(stack, base, results).slots, TaskEnd(stack, base, results).dealloc,
              Len(TaskEnd(stack, base, results).slots))
<1> DEFINE frame == TaskEnd(stack, base, results)
           n == Len(results)
<1>1. /\ base \in Nat /\ stack \in Frames /\ stack.slots \in Seq(Contents)
      /\ stack.dealloc \in Seq(Nat)
  BY DEF TypeOK, Frames
<1>2. results \in Seq(Contents) /\ results \in Seq({"result"}) /\ n \in Nat
  BY ResultsType
<1>3. /\ frame \in Frames
      /\ frame.slots = stack.slots \o <<"endpoint">> \o results
      /\ Caps(frame.dealloc) = Caps(stack.dealloc) \cup {base + 1, base + 2}
  BY <1>1, <1>2, TaskEndCaps
<1> HIDE DEF frame
<1>4. /\ Len(frame.slots) = base + 3 + n
      /\ \A i \in 1 .. base + 3 + n :
           frame.slots[i] = IF i <= base + 2 THEN stack.slots[i]
                            ELSE IF i = base + 3 THEN "endpoint" ELSE "result"
  <2> DEFINE called == stack.slots \o <<"endpoint">>
  <2>1. /\ called \in Seq(Contents) /\ Len(called) = base + 3
        /\ \A i \in 1 .. base + 3 :
             called[i] = IF i <= base + 2 THEN stack.slots[i] ELSE "endpoint"
    <3>1. "endpoint" \in Contents
      BY DEF Contents
    <3> QED
      BY <1>1, <3>1
  <2> HIDE DEF called
  <2>2. /\ Len(called \o results) = Len(called) + n
        /\ \A i \in 1 .. Len(called) + n :
             (called \o results)[i] = IF i <= Len(called) THEN called[i] ELSE results[i - Len(called)]
    BY <1>2, <2>1, ConcatProperties, ZenonT(60)
  <2>3. \A j \in 1 .. n : results[j] = "result"
    BY <1>2
  <2>4. frame.slots = called \o results
    BY <1>3 DEF called
  <2> QED
    BY <1>1, <1>2, <2>1, <2>2, <2>3, <2>4, SMTT(60)
<1>5. ASSUME NEW i \in 1 .. base + 3 + n
      PROVE  frame.slots[i] \in {"request", "response"} <=> i \in Caps(frame.dealloc)
  <2>1. Caps(stack.dealloc) \subseteq 1 .. base
    BY DEF Left, Caps
  <2>2. CASE i <= base
    BY <1>1, <1>3, <1>4, <2>2 DEF Left
  <2>3. CASE i = base + 1 \/ i = base + 2
    BY <1>1, <1>3, <1>4, <2>3
  <2>4. CASE i > base + 2
    <3>1. frame.slots[i] \in {"endpoint", "result"}
      BY <1>1, <1>2, <1>4, <2>4
    <3>2. i \notin Caps(frame.dealloc)
      BY <1>1, <1>2, <1>3, <2>1, <2>4
    <3> QED
      BY <3>1, <3>2
  <2> QED
    BY <1>1, <1>2, <2>2, <2>3, <2>4
<1>6. ASSUME NEW i \in DOMAIN frame.dealloc PROVE frame.dealloc[i] \in 1 .. base + 3 + n
  <2>1. frame.dealloc[i] \in Caps(frame.dealloc)
    BY DEF Caps
  <2>2. frame.dealloc[i] \in 1 .. base \/ frame.dealloc[i] \in {base + 1, base + 2}
    BY <1>3, <2>1 DEF Left, Caps
  <2> QED
    BY <1>1, <1>2, <2>2
<1> QED
  BY <1>4, <1>5, <1>6 DEF Left, frame

\* Every step keeps what is known of the slots.
LEMMA SlotStep == TypeOK /\ SlotInv /\ [Next]_vars => SlotInv'
<1> SUFFICES ASSUME TypeOK, SlotInv, [Next]_vars, NoRow'
             PROVE  SlotInv'
  BY DEF SlotInv
<1>1. /\ NoRow /\ phase # "aborted"
      /\ phase \in {"loading", "idle"} => Left(stack.slots, stack.dealloc, Len(stack.slots))
      /\ phase = "endpoint" =>
           /\ Len(stack.slots) = base + 2
           /\ stack.slots[base + 1] = "request" /\ stack.slots[base + 2] = "response"
           /\ Left(stack.slots, stack.dealloc, base)
  BY NoRowBefore DEF SlotInv
<1>2. stack \in Frames /\ stack.slots \in Seq(Contents) /\ stack.dealloc \in Seq(Nat)
  BY DEF TypeOK, Frames
<1>3. ASSUME UNCHANGED <<stack, base, phase>> PROVE SlotInv'
  BY <1>1, <1>3 DEF SlotInv
<1>4. ASSUME NEW r \in Rows, Query(r) PROVE SlotInv'
  <2>1. PICK args \in Arguments : MakeRowTable(r, QueryFrame(args, stack.dealloc))
    BY <1>4 DEF Query
  <2> DEFINE frame == QueryFrame(args, stack.dealloc)
  <2> HIDE DEF frame
  <2>2. MakeRowTable(r, frame)
    BY <2>1 DEF frame
  <2>3. tables'[r] \in {"reachable", "garbage"}
    BY <2>2 DEF MakeRowTable, TypeOK
  <2> QED
    BY <2>3 DEF NoRow
<1>5. CASE Loaded
  BY <1>1, <1>5 DEF Loaded, SlotInv
<1>6. CASE StartTask
  <2>1. /\ Left(stack.slots, stack.dealloc, Len(stack.slots))
        /\ base' = Len(stack.slots) /\ stack' = TaskFrame(stack)
        /\ phase' = IF SecondIsTable(stack) THEN "endpoint" ELSE "aborted"
    BY <1>1, <1>6 DEF StartTask
  <2>2. \A i \in DOMAIN stack.dealloc : stack.dealloc[i] <= Len(stack.slots)
    BY <1>2, <2>1 DEF Left
  <2>3. /\ SecondIsTable(stack)
        /\ TaskFrame(stack).slots = stack.slots \o <<"request", "response">>
        /\ TaskFrame(stack).dealloc = stack.dealloc
    BY <1>2, <2>2, TaskFrameTables
  <2>4. /\ Len(stack'.slots) = Len(stack.slots) + 2
        /\ stack'.slots[Len(stack.slots) + 1] = "request"
        /\ stack'.slots[Len(stack.slots) + 2] = "response"
        /\ \A i \in 1 .. Len(stack.slots) : stack'.slots[i] = stack.slots[i]
    BY <1>2, <2>1, <2>3
  <2>5. phase' = "endpoint" /\ stack'.dealloc = stack.dealloc
    BY <2>1, <2>3
  <2>6. Left(stack'.slots, stack'.dealloc, base')
    BY <2>1, <2>4, <2>5 DEF Left
  <2> QED
    BY <2>1, <2>4, <2>5, <2>6 DEF SlotInv
<1>7. CASE EndTask
  <2>1. /\ phase = "endpoint" /\ phase' = "idle"
        /\ \E results \in Results \cup {<<>>} : stack' = TaskEnd(stack, base, results)
    BY <1>7 DEF EndTask
  <2>2. Left(stack'.slots, stack'.dealloc, Len(stack'.slots))
    BY <1>1, <2>1, LeftByTask
  <2> QED
    BY <2>1, <2>2 DEF SlotInv
<1>8. ASSUME phase' \in {"vm_closed", "bridges_destroyed", "destroyed"} PROVE SlotInv'
  BY <1>8 DEF SlotInv
<1>9. ASSUME NEW callee, Throw(callee) PROVE SlotInv'
  BY <1>9 DEF Throw, NoRow
<1> QED
  BY <1>3, <1>4, <1>5, <1>6, <1>7, <1>8, <1>9
  DEF Next, Open, Execute, PrepareFails, Advance, FunctionThrows, Forget, Collect, CloseVirtualMachine,
      DestroyBridges, CloseDatabase, vars, task_vars

\* Until the first query and the first exception that passes through Lua every
\* value keeps its slot while it lives.
THEOREM SlotSafety == Spec => []ValuesKeepSlots
<1>1. Init => SlotInv
  BY DEF Init, SlotInv, Left, Caps
<1>2. ASSUME TypeOK, SlotInv PROVE ValuesKeepSlots
  <2> SUFFICES ASSUME NoRow
               PROVE  /\ phase # "aborted"
                      /\ phase = "endpoint" =>
                           SubSeq(stack.slots, base + 1, Len(stack.slots)) = <<"request", "response">>
                      /\ phase = "idle" =>
                           \A i \in DOMAIN stack.slots :
                             (stack.slots[i] \in {"request", "response"}) <=> (i \in Caps(stack.dealloc))
    BY DEF ValuesKeepSlots, NoRow
  <2>1. stack.slots \in Seq(Contents) /\ base \in Nat
    BY <1>2 DEF TypeOK
  <2>2. ASSUME phase = "endpoint"
        PROVE  SubSeq(stack.slots, base + 1, Len(stack.slots)) = <<"request", "response">>
    <3>1. /\ Len(stack.slots) = base + 2
          /\ stack.slots[base + 1] = "request" /\ stack.slots[base + 2] = "response"
      BY <1>2, <2>2 DEF SlotInv
    <3> DEFINE tasks == SubSeq(stack.slots, base + 1, Len(stack.slots))
    <3>2. /\ tasks \in Seq(Contents) /\ Len(tasks) = 2
          /\ tasks[1] = "request" /\ tasks[2] = "response"
      BY <2>1, <3>1, SubSeqProperties
    <3> HIDE DEF tasks
    <3>3. tasks = <<"request", "response">>
      BY <3>2
    <3> QED
      BY <3>3 DEF tasks
  <2>3. ASSUME phase = "idle"
        PROVE  \A i \in DOMAIN stack.slots :
                 (stack.slots[i] \in {"request", "response"}) <=> (i \in Caps(stack.dealloc))
    BY <1>2, <2>1, <2>3 DEF SlotInv, Left
  <2> QED
    BY <1>2, <2>2, <2>3 DEF SlotInv
<1> QED
  BY <1>1, <1>2, InitType, TypeStep, SlotStep, PTL DEF Spec

\* After queries and exceptions a task finds its two tables if no cap in the
\* queue is above the slots it starts from.
THEOREM TableSafety == Spec => TaskFindsTables
<1> DEFINE Found ==
      (/\ phase = "idle" /\ phase' \in {"endpoint", "aborted"}
       /\ \A c \in Caps(stack.dealloc) : c <= Len(stack.slots)) =>
        /\ phase' = "endpoint"
        /\ SubSeq(stack'.slots, base' + 1, Len(stack'.slots)) = <<"request", "response">>
<1>1. TypeOK /\ [Next]_vars => [Found]_vars
  <2> SUFFICES ASSUME TypeOK, Next, phase = "idle", phase' \in {"endpoint", "aborted"},
                      \A c \in Caps(stack.dealloc) : c <= Len(stack.slots)
               PROVE  /\ phase' = "endpoint"
                      /\ SubSeq(stack'.slots, base' + 1, Len(stack'.slots)) = <<"request", "response">>
    OBVIOUS
  <2>1. StartTask
    BY DEF Next, Open, CanPrepare, Query, Execute, PrepareFails, Advance, FunctionThrows, Forget,
           Collect, Loaded, EndTask, CloseVirtualMachine, DestroyBridges, CloseDatabase, Scripts, task_vars
  <2>2. stack \in Frames /\ stack.slots \in Seq(Contents) /\ stack.dealloc \in Seq(Nat)
    BY DEF TypeOK, Frames
  <2>3. \A i \in DOMAIN stack.dealloc : stack.dealloc[i] <= Len(stack.slots)
    BY DEF Caps
  <2>4. /\ SecondIsTable(stack)
        /\ TaskFrame(stack).slots = stack.slots \o <<"request", "response">>
    BY <2>2, <2>3, TaskFrameTables
  <2>5. /\ base' = Len(stack.slots) /\ phase' = "endpoint"
        /\ stack'.slots = stack.slots \o <<"request", "response">>
    BY <2>1, <2>4 DEF StartTask
  <2>6. SubSeq(stack'.slots, base' + 1, Len(stack'.slots)) = <<"request", "response">>
    <3> DEFINE n == Len(stack.slots)
               pair == SubSeq(stack'.slots, n + 1, n + 2)
    <3>1. /\ n \in Nat /\ Len(stack'.slots) = n + 2 /\ stack'.slots \in Seq(Contents)
          /\ stack'.slots[n + 1] = "request" /\ stack'.slots[n + 2] = "response"
      <4>1. <<"request", "response">> \in Seq(Contents)
        BY DEF Contents
      <4> QED
        BY <2>2, <2>5, <4>1
    <3> HIDE DEF n
    <3>2. /\ pair \in Seq(Contents) /\ Len(pair) = 2
          /\ pair[1] = "request" /\ pair[2] = "response"
      BY <3>1, SubSeqProperties
    <3> HIDE DEF pair
    <3>3. pair = <<"request", "response">>
      BY <3>2
    <3> QED
      BY <2>5, <3>1, <3>3 DEF n, pair
  <2> QED
    BY <2>5, <2>6
<1> QED
  BY <1>1, TypeCorrect, PTL DEF Spec, TaskFindsTables

=============================================================================
