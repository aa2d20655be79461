---------------------------- MODULE MCTodoFile ----------------------------
(* Instances of TodoFile: the lists a model gives todo_write. *)
EXTENDS TodoFile

I(status) == [status |-> status, line |-> TRUE]

Broken(status) == [status |-> status, line |-> FALSE]

\* Started, half done, done, with a line break, without an item in progress.
AnyList ==
  { <<I("in_progress"), I("pending")>>,
    <<I("completed"), I("in_progress")>>,
    <<I("completed"), I("completed")>>,
    <<I("pending"), Broken("in_progress")>>,
    <<I("pending")>>,
    <<>> }
=============================================================================
