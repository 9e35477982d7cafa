-------------------------------- MODULE TaskTree --------------------------------
(***************************************************************************)
(* The tree that the monitor draws of a list of tasks.  The id of a task   *)
(* is the path to it, "root/a/x"; here it is the sequence of its parts.    *)
(* The list may lack any task: Trenni forgets, and lists are cut.          *)
(***************************************************************************)
EXTENDS Naturals, Sequences

IsTop(id) == Len(id) = 1
Parent(id) == SubSeq(id, 1, Len(id) - 1)

\* _build_task_tree: the children of a listed task ...
Children(tasks, id) == {t \in tasks : ~IsTop(t) /\ Parent(t) = id}

\* Mutant: only ids without a slash are roots.
TopLevel(tasks) == {t \in tasks : IsTop(t)}

\* ... and the tasks whose parent is not listed.
Roots(tasks) == {t \in tasks : IsTop(t) \/ Parent(t) \notin tasks}

Siblings(tasks, id) ==
  IF ~IsTop(id) /\ Parent(id) \in tasks THEN Children(tasks, Parent(id)) ELSE Roots(tasks)

\* _render_dag: the parent, the siblings, and below the task that is marked its children.
Dag(tasks, id) ==
  [parent   |-> IF IsTop(id) THEN "none" ELSE IF Parent(id) \in tasks THEN "listed" ELSE "not loaded",
   siblings |-> Siblings(tasks, id),
   below    |-> IF id \in Siblings(tasks, id) THEN Children(tasks, id) ELSE {}]
================================================================================
