----------------------------- MODULE MCSqliteRows ---------------------------
(* The instance of SqliteRows that TLC checks. *)
EXTENDS SqliteRows

\* db.query(sql), and db.query(sql, {value}), whose values stay on the stack of
\* the call.
MCArguments == {<<"functor", "sql">>, <<"functor", "sql", "args", "value", "nil">>}

\* row:advance () with the pointer it reads, and a function of which the
\* argument cannot be converted.
MCCallees == {<<"functor", "row", "value">>, <<"functor", "nil">>}

MCResults == {<<"result">>}
=============================================================================
