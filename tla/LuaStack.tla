------------------------------ MODULE LuaStack ------------------------------
(***************************************************************************)
(* The stack of the virtual machine as luastate keeps it for C++: a        *)
(* lua::Value owns the slot it pushed and gives it back when it is         *)
(* destroyed.  A slot that is not the last one is put in the deallocation  *)
(* queue, and popped when everything above it has gone.                    *)
(*                                                                         *)
(* A frame is what a C function sees: slots counts from that function's    *)
(* first argument, while the State has one dealloc for all its frames, the *)
(* caps in it in the order the priority queue gives them out.  Every value *)
(* this application queues has one slot.                                   *)
(***************************************************************************)
EXTENDS FiniteSets, Naturals, Sequences

Contents == {"nil", "functor", "sql", "args", "value", "row", "methods", "metatable",
             "setmetatable", "request", "response", "endpoint", "result"}
Tables == {"args", "row", "methods", "metatable", "request", "response"}

\* lua_pushvalue: an index above the top reads nil.
At(frame, i) == IF i \in DOMAIN frame.slots THEN frame.slots[i] ELSE "nil"

Caps(dealloc) == {dealloc[i] : i \in DOMAIN dealloc}

Push(frame, x) == [frame EXCEPT !.slots = Append(@, x)]

\* Mutant: the least cap first.
Enqueue_LeastFirst(dealloc, cap) ==
  LET n == Cardinality({i \in DOMAIN dealloc : dealloc[i] <= cap})
  IN  SubSeq(dealloc, 1, n) \o <<cap>> \o SubSeq(dealloc, n + 1, Len(dealloc))

\* DeallocQueue::push: the greatest cap first.
Enqueue(dealloc, cap) ==
  LET n == Cardinality({i \in DOMAIN dealloc : dealloc[i] >= cap})
  IN  SubSeq(dealloc, 1, n) \o <<cap>> \o SubSeq(dealloc, n + 1, Len(dealloc))

\* How many queued values end where the one above them began.
Settled(dealloc, top) ==
  Cardinality({n \in DOMAIN dealloc : \A i \in 1 .. n : dealloc[i] + i = top + 1})

\* Mutant: only the value's own slot is popped.
Release_OwnSlot(frame, top) ==
  LET size == Len(frame.slots)
  IN  CASE size <= top -> frame
        [] size > top + 1 -> [frame EXCEPT !.dealloc = Enqueue(@, top + 1)]
        [] OTHER -> [frame EXCEPT !.slots = SubSeq(@, 1, top)]

\* ~StackItem of a value that found top slots and pushed one.
Release(frame, top) ==
  LET size == Len(frame.slots)
      n == Settled(frame.dealloc, top)
  IN  CASE size <= top -> frame
        [] size > top + 1 -> [frame EXCEPT !.dealloc = Enqueue(@, top + 1)]
        [] OTHER -> [slots |-> SubSeq(frame.slots, 1, top - n),
                     dealloc |-> SubSeq(frame.dealloc, n + 1, Len(frame.dealloc))]

-----------------------------------------------------------------------------
(* What the application does with it *)

\* virtual_machine["setmetatable"](table, metatable), the metatable a value of
\* the caller's: the function and the result are temporaries.
SetMetatable(frame, table) ==
  LET function == Push(frame, "setmetatable")
      result == Push(function, At(frame, table))
  IN  Release(Release(result, Len(function.slots)), Len(frame.slots))

\* The same with virtual_machine["__metatable"] as the argument, which the
\* callee destroys before the caller destroys the result.
SetGlobalMetatable(frame, table) ==
  LET function == Push(frame, "setmetatable")
      metatable == Push(function, "metatable")
      result == Push(metatable, At(metatable, table))
      returned == Release(result, Len(function.slots))
  IN  Release(Release(returned, Len(metatable.slots)), Len(frame.slots))

\* db.query on its arguments: make_sqlite_row_table, whose locals go in the
\* reverse of their order, and Functor::call, which pushes what it returned
\* and then destroys it.
QueryFrame(args, dealloc) ==
  LET row == Len(args)
      tables == [slots |-> args \o <<"row", "methods", "metatable">>, dealloc |-> dealloc]
      made == Release(Release(SetMetatable(tables, row + 1), row + 2), row + 1)
  IN  Release(Push(made, At(made, row + 1)), row)

\* The one result of the function is the last slot; under the first one is
\* the function itself.
Returned(frame) == At([slots |-> <<"functor">> \o frame.slots], Len(frame.slots) + 1)

\* The two tables of a task, the first with its metatable.
TaskTables(frame) ==
  SetGlobalMetatable(Push(Push(frame, "request"), "response"), Len(frame.slots) + 1)

\* What is at the index of the second when setmetatable is called for it.
SecondIsTable(frame) ==
  At(Push(Push(TaskTables(frame), "setmetatable"), "metatable"), Len(frame.slots) + 2) \in Tables

\* The slots and the queue before the endpoint is called.
TaskFrame(frame) == SetGlobalMetatable(TaskTables(frame), Len(frame.slots) + 2)

\* The locals of a task that found base slots are destroyed, in the frame that
\* is the State's by then.
TaskLocals(frame, base) == Release(Release(frame, base + 1), base)

\* Ref::unref gives a value without a queue, like what its call returns: both
\* stay.
TaskEnd(frame, base, results) ==
  TaskLocals([frame EXCEPT !.slots = @ \o <<"endpoint">> \o results], base)

=============================================================================
