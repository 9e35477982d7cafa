------------------------------ MODULE MonitorDetail ------------------------------
(***************************************************************************)
(* The detail screens of the monitor, one on top of the other.  A job's    *)
(* screen is loaded in two steps, its metadata and then its events; a      *)
(* task's in one, from three requests that are gathered.  Each load is a   *)
(* worker of its screen and goes on under other screens; an exclusive one  *)
(* cancels whatever its screen has running, the look-up of a job's task    *)
(* included.  A screen that is dismissed takes its workers with it.        *)
(*                                                                         *)
(* Loads of a screen are numbered, and what is shown is known by the load  *)
(* that brought it.  Answers are those that the services may give: what    *)
(* is asked for may be missing, and the list of tasks may lack any of them.*)
(***************************************************************************)
EXTENDS TaskTree

CONSTANTS
  Ids,        \* of tasks
  Jobs,
  TaskOf,     \* the task of each job
  MaxScreens, \* bound on the screens
  MaxLoads    \* bound on the loads of a screen

ASSUME DetailAssumption ==
  /\ \A t \in Ids : t \in Seq(STRING) /\ t # <<>> /\ (IsTop(t) \/ Parent(t) \in Ids)
  /\ Ids \cap Jobs = {}
  /\ TaskOf \in [Jobs -> Ids]
  /\ MaxScreens \in Nat /\ MaxLoads \in Nat \ {0}

VARIABLE screens  \* from the bottom to the top

Top == Len(screens)
Worker(n, at) == [no |-> n, at |-> at]

Blank == [parent |-> "none", siblings |-> {}, below |-> {}]

\* A screen is mounted with its first load running.
Screen(kind, id) ==
  [kind |-> kind, id |-> id, loads |-> 1, looks |-> 0, work |-> {Worker(1, "asked")},
   meta |-> 0,          \* the load that brought the metadata,
   known |-> FALSE,     \*   and whether it found the job or task
   rest |-> 0,          \* the load that brought the events or jobs
   dag |-> "loading", tasks |-> {}, tree |-> Blank, rows |-> {},
   cut |-> FALSE]       \* a look-up has cancelled a load (history)

DetailInit == screens = <<>>

Room == Top < MaxScreens
Push(screen) == screens' = Append(screens, screen)

\* A row of the main tables is selected.
OpenJob == Top = 0 /\ Room /\ \E j \in Jobs : Push(Screen("job", j))
OpenTask == Top = 0 /\ Room /\ \E t \in Ids : Push(Screen("task", t))

\* Escape removes the screen and cancels its workers.
Dismiss == Top > 0 /\ screens' = SubSeq(screens, 1, Top - 1)
--------------------------------------------------------------------------------
\* Mutant: the worker is not exclusive.
RefreshDetailBeside ==
  /\ Top > 0 /\ screens[Top].loads < MaxLoads
  /\ LET n == screens[Top].loads + 1 IN
       screens' = [screens EXCEPT ![Top].loads = n, ![Top].work = @ \cup {Worker(n, "asked")}]

\* action_refresh_detail of either screen: an exclusive worker.
RefreshDetail ==
  /\ Top > 0 /\ screens[Top].loads < MaxLoads
  /\ LET n == screens[Top].loads + 1 IN
       screens' = [screens EXCEPT ![Top].loads = n, ![Top].work = {Worker(n, "asked")}]

\* Mutant: a job that is not found ends the load without a word.
JobAnsweredQuiet(i, w) ==
  /\ screens[i].kind = "job" /\ w.at = "asked"
  /\ \/ screens' = [screens EXCEPT ![i].work = @ \ {w}]
     \/ screens' = [screens EXCEPT ![i].meta = w.no, ![i].known = TRUE,
                                   ![i].work = (@ \ {w}) \cup {Worker(w.no, "events")}]

\* JobDetailScreen._load: the metadata is shown, and the events are asked for.
JobAnswered(i, w) ==
  /\ screens[i].kind = "job" /\ w.at = "asked"
  /\ \E found \in BOOLEAN :
       screens' = [screens EXCEPT ![i].meta = w.no, ![i].known = found,
                                  ![i].work = (@ \ {w}) \cup {Worker(w.no, "events")}]

\* Those of the newest 100 events that are of the job; none if they cannot be had.
EventsAnswered(i, w) ==
  /\ screens[i].kind = "job" /\ w.at = "events"
  /\ screens' = [screens EXCEPT ![i].rest = w.no, ![i].work = @ \ {w}]

\* Mutant: the look-up is not exclusive.
GoTaskBeside ==
  /\ Top > 0 /\ screens[Top].kind = "job" /\ screens[Top].looks < MaxLoads
  /\ LET n == screens[Top].looks + 1 IN
       screens' = [screens EXCEPT ![Top].looks = n, ![Top].work = @ \cup {Worker(n, "task")}]

\* action_go_task: an exclusive worker, which cancels a load that is running.
GoTask ==
  /\ Top > 0 /\ screens[Top].kind = "job" /\ screens[Top].looks < MaxLoads
  /\ LET n == screens[Top].looks + 1 IN
       screens' = [screens EXCEPT ![Top].looks = n, ![Top].work = {Worker(n, "task")},
                                  ![Top].cut = @ \/ \E w \in screens[Top].work : w.at # "task"]

\* _go_task: the task's screen on top of whatever there is, or nothing.
TaskLookedUp(i, w) ==
  /\ w.at = "task"
  /\ LET idle == [screens EXCEPT ![i].work = @ \ {w}] IN
       \/ screens' = idle
       \/ Room /\ screens' = Append(idle, Screen("task", TaskOf[screens[i].id]))
--------------------------------------------------------------------------------
JobsOf(id) == {j \in Jobs : TaskOf[j] = id}

\* TaskDetailScreen._load: three answers together.  A task that is not found ends it with
\* all but the metadata as it was; without a list of tasks there is no tree.
TaskAnswered(i, w) ==
  /\ screens[i].kind = "task" /\ w.at = "asked"
  /\ LET shown == [screens[i] EXCEPT !.work = @ \ {w}, !.meta = w.no] IN
       \/ screens' = [screens EXCEPT ![i] = [shown EXCEPT !.known = FALSE]]
       \/ \E list \in SUBSET Ids, rows \in SUBSET JobsOf(screens[i].id) :
            screens' = [screens EXCEPT ![i] = [shown EXCEPT
              !.known = TRUE, !.rest = w.no, !.rows = rows,
              !.dag = IF list = {} THEN "unavailable" ELSE "drawn",
              !.tasks = IF list = {} THEN @ ELSE list,
              !.tree = IF list = {} THEN @ ELSE Dag(list, screens[i].id)]]

GoParent ==
  /\ Top > 0 /\ Room /\ screens[Top].kind = "task" /\ ~IsTop(screens[Top].id)
  /\ Push(Screen("task", Parent(screens[Top].id)))

SelectJob == Top > 0 /\ Room /\ \E j \in screens[Top].rows : Push(Screen("job", j))
--------------------------------------------------------------------------------
Answered(i) ==
  i <= Top /\ \E w \in screens[i].work :
    \/ JobAnswered(i, w) \/ EventsAnswered(i, w) \/ TaskLookedUp(i, w) \/ TaskAnswered(i, w)

DetailUser == \/ OpenJob \/ OpenTask \/ Dismiss \/ RefreshDetail
              \/ GoTask \/ GoParent \/ SelectJob

DetailNext == DetailUser \/ \E i \in 1..Top : Answered(i)

\* Requests have timeouts; the user owes nothing.
DetailSpec == DetailInit /\ [][DetailNext]_screens /\ \A i \in 1..MaxScreens : WF_screens(Answered(i))
--------------------------------------------------------------------------------
Stage(kind) == IF kind = "job" THEN {"asked", "events", "task"} ELSE {"asked"}

DetailTypeOK ==
  /\ Top <= MaxScreens
  /\ \A i \in 1..Top : LET s == screens[i] IN
       /\ s.kind \in {"job", "task"}
       /\ s.id \in IF s.kind = "job" THEN Jobs ELSE Ids
       /\ {s.loads, s.looks, s.meta, s.rest} \subseteq 0..MaxLoads
       /\ s.work \subseteq {Worker(n, at) : n \in 1..MaxLoads, at \in Stage(s.kind)}
       /\ {s.known, s.cut} \subseteq BOOLEAN
       /\ s.dag \in {"loading", "unavailable", "drawn"}
       /\ s.tasks \subseteq Ids /\ s.rows \subseteq Jobs

\* A task's screen comes up over the job's that asked for it: no look-up is under way below
\* another screen, where its answer would cover what the user is looking at.
LookUpOnTop ==
  \A i \in 1..Top : (\E w \in screens[i].work : w.at = "task") => i = Top

\* A screen at rest shows its last load and nothing older, metadata and events or jobs
\* alike: a refresh cannot be overwritten by the answer to an earlier one.  The exceptions are
\* a job whose load `t` has cancelled, and a task not found, whose jobs stay as they were; at
\* any time, jobs that are older than a task's metadata are only shown under "not found".
Settled ==
  \A i \in 1..Top : LET s == screens[i] IN
    /\ s.work = {} /\ ~s.cut =>
         /\ s.meta = s.loads
         /\ s.kind = "job" \/ s.known => s.rest = s.meta
    /\ s.kind = "task" => s.rest <= s.meta /\ (s.known <=> s.rest = s.meta /\ s.meta > 0)

\* The tree of a list, whatever the list lacks: every task has exactly one place, and the
\* task of the screen, if it is listed at all, is marked and has its listed children below it.
DagComplete ==
  \A i \in 1..Top : LET s == screens[i] IN
    s.dag = "drawn" =>
      /\ \A t \in s.tasks :
           (t \in Roots(s.tasks)) # (\E p \in s.tasks : t \in Children(s.tasks, p))
      /\ s.id \in s.tasks => /\ s.id \in s.tree.siblings
                             /\ s.tree.below = Children(s.tasks, s.id)

\* No screen says "loading" for ever, unless a look-up has cancelled its load.
LoadEnds ==
  \A i \in 1..MaxScreens :
    (i <= Top /\ screens[i].meta = 0 /\ ~screens[i].cut)
      ~> (i > Top \/ screens[i].meta > 0 \/ screens[i].cut)
================================================================================
