------------------------------- MODULE EventTail -------------------------------
(***************************************************************************)
(* The commands that follow the event log of Pasloe:                       *)
(*                                                                         *)
(*   events tail              every event from the current tail on         *)
(*   events tail --task t     the history of t and its subtasks, then on   *)
(*   jobs tail j              the history of one job, then on              *)
(*   watch                    every event there is, counted                *)
(*                                                                         *)
(* Pasloe is external: an append-only log, read by `poll', which returns   *)
(* the first `limit' events after a cursor that pass a filter, and a next  *)
(* cursor when more of them are left.  An event is named by its place in   *)
(* the log; a cursor is such a place, 0 for None.                          *)
(***************************************************************************)
EXTENDS Naturals, Sequences, FiniteSets

CONSTANTS
  Modes,        \* the commands that may be run
  Filters,      \* the filters --source and --type may amount to: sets of classes
  PageLimit,    \* events in a page (100, and 1000 in a scan)
  ScanLimit,    \* _STOPGAP_EVENT_SCAN_LIMIT (10000)
  HistoryLimit, \* _TAIL_HISTORY_LIMIT (200)
  MaxEvents     \* bound: events that are ever committed

ASSUME TailAssumption ==
  /\ Modes \subseteq {"all", "task", "job", "watch"}
  /\ PageLimit \in Nat \ {0}
  /\ ScanLimit \in Nat /\ HistoryLimit \in Nat \ {0} /\ MaxEvents \in Nat

\* What tells two events apart here: an event of the task given, the creation of
\* a subtask of it, an event of that subtask (and of the job given), any other.
Classes == {"root", "created", "child", "other"}

ASSUME FilterAssumption == Filters \subseteq SUBSET Classes

VARIABLES
  log,      \* the classes of the events committed, in order (external)
  mode,     \* the command
  wanted,   \* the classes its --source and --type let through
  pc,       \* the poll the command waits for
  cursor,   \* the cursor of that poll
  known,    \* has the scan for created tasks found the subtask?
  seen,     \* where the log ended when that scan ended (history)
  events,   \* what the running scan has gathered
  shown,    \* how often each event has been printed (by watch: counted)
  history,  \* where the log ended when the history was read
  start     \* where following started

vars == <<log, mode, wanted, pc, cursor, known, seen, events, shown, history, start>>
clientVars == <<mode, wanted, pc, cursor, known, seen, events, shown, history, start>>

Scanning == {"created", "history"}
Following == {"follow", "asleep"}
Stopped == {"failed", "done"}

Init ==
  /\ log = <<>>
  /\ mode \in Modes
  /\ wanted \in IF mode = "watch" THEN {Classes} ELSE Filters
  /\ pc = IF mode = "task" THEN "created" ELSE IF mode = "job" THEN "history"
          ELSE IF mode = "all" THEN "tail" ELSE "follow"
  /\ cursor = 0
  /\ known = FALSE
  /\ seen = 0
  /\ events = {}
  /\ shown = [i \in 1..MaxEvents |-> 0]
  /\ history = 0
  /\ start = 0

\* Something in the system commits an event.
Commit(c) ==
  /\ Len(log) < MaxEvents
  /\ log' = Append(log, c)
  /\ UNCHANGED clientVars

(***************************************************************************)
(* poll                                                                    *)
(***************************************************************************)
Matching(S, n) == {i \in cursor + 1 .. n : log[i] \in S}

\* The page that ends at place n, with a next cursor: n.
FullPage(S, n) ==
  /\ n \in cursor + 1 .. Len(log)
  /\ log[n] \in S
  /\ Cardinality(Matching(S, n)) = PageLimit
  /\ Matching(S, n) # Matching(S, Len(log))

\* The page that holds all there is, without a next cursor.
LastPage(S) == Cardinality(Matching(S, Len(log))) <= PageLimit

(***************************************************************************)
(* The history                                                             *)
(***************************************************************************)
\* _event_matches_task and _event_matches_job: what the command is about.
About ==
  IF mode = "task" THEN {"root", "created", "child"}
  ELSE IF mode = "job" THEN {"child"} ELSE Classes

\* The history of a task is that of the subtasks the first scan has found.
AboutHistory == IF mode = "task" /\ ~known THEN {"root"} ELSE About

\* Mutant: the scan for created tasks is made with the filters of the command.
ScannedFiltered == wanted

Scanned == IF pc = "created" THEN {"created"} ELSE wanted

\* historical[-_TAIL_HISTORY_LIMIT:]
Newest(T) == {i \in T : Cardinality({j \in T : i < j}) < HistoryLimit}

Echo(T) == shown' = [i \in 1..MaxEvents |-> IF i \in T THEN shown[i] + 1 ELSE shown[i]]

\* The scan has gathered `all' and does not raise.
Within(all) == Cardinality(all) <= ScanLimit

\* A page of a scan, and more of them to come.
ScanOn ==
  /\ pc \in Scanning
  /\ \E n \in 1..Len(log) :
       /\ FullPage(Scanned, n)
       /\ events' = events \cup Matching(Scanned, n)
       /\ cursor' = n
  /\ Within(events')
  /\ UNCHANGED <<log, mode, wanted, pc, known, seen, shown, history, start>>

\* The last page of the scan for created tasks; the scan of the history begins.
CreatedEnd ==
  /\ pc = "created"
  /\ LastPage(Scanned)
  /\ LET all == events \cup Matching(Scanned, Len(log))
     IN  Within(all) /\ known' = \E i \in all : log[i] = "created"
  /\ pc' = "history"
  /\ seen' = Len(log)
  /\ cursor' = 0
  /\ events' = {}
  /\ UNCHANGED <<log, mode, wanted, shown, history, start>>

\* The last page of the scan of the history, which is printed.
HistoryEnd ==
  /\ pc = "history"
  /\ LastPage(Scanned)
  /\ LET all == events \cup Matching(Scanned, Len(log))
     IN  Within(all) /\ Echo(Newest({i \in all : log[i] \in AboutHistory}))
  /\ history' = Len(log)
  /\ pc' = "tail"
  /\ events' = {}
  /\ UNCHANGED <<log, mode, wanted, cursor, known, seen, start>>

\* The page takes the scan over its limit: RuntimeError.
ScanTooLong ==
  /\ pc \in Scanning
  /\ \E n \in 1..Len(log) :
       /\ FullPage(Scanned, n) \/ (n = Len(log) /\ LastPage(Scanned))
       /\ ~Within(events \cup Matching(Scanned, n))
  /\ pc' = "failed"
  /\ events' = {}
  /\ UNCHANGED <<log, mode, wanted, cursor, known, seen, shown, history, start>>

(***************************************************************************)
(* Following                                                               *)
(***************************************************************************)

\* Mutant: following goes on from the cursor of the last scan.
TailCursorOfScan ==
  /\ pc = "tail"
  /\ start' = cursor
  /\ pc' = "follow"
  /\ UNCHANGED <<log, mode, wanted, cursor, known, seen, events, shown, history>>

\* _current_tail_cursor: the newest event there is, whatever the filter.
TailCursor ==
  /\ pc = "tail"
  /\ cursor' = Len(log)
  /\ start' = Len(log)
  /\ pc' = "follow"
  /\ UNCHANGED <<log, mode, wanted, known, seen, events, shown, history>>

\* Mutant: after a full page the cursor moves to the end of the log.
FollowToEnd ==
  /\ pc = "follow"
  /\ \/ \E n \in 1..Len(log) :
          /\ FullPage(wanted, n)
          /\ Echo({i \in Matching(wanted, n) : log[i] \in About})
     \/ /\ LastPage(wanted)
        /\ Echo({i \in Matching(wanted, Len(log)) : log[i] \in About})
  /\ cursor' = Len(log)
  /\ pc' = "asleep"
  /\ UNCHANGED <<log, mode, wanted, known, seen, events, history, start>>

\* One poll: the page is printed, and the cursor moves to the end of it.
Follow ==
  /\ pc = "follow"
  /\ \/ \E n \in 1..Len(log) :
          /\ FullPage(wanted, n)
          /\ Echo({i \in Matching(wanted, n) : log[i] \in About})
          /\ cursor' = n
     \/ LET page == Matching(wanted, Len(log))
        IN  /\ LastPage(wanted)
            /\ Echo({i \in page : log[i] \in About})
            /\ \/ page = {} /\ cursor' = cursor
               \/ cursor' \in page /\ \A i \in page : i <= cursor'
  /\ pc' = "asleep"
  /\ UNCHANGED <<log, mode, wanted, known, seen, events, history, start>>

\* Pasloe does not answer, or answers with an error: only watch goes on.
PollFails ==
  /\ pc \in Scanning \cup {"tail", "follow"}
  /\ pc' = IF mode = "watch" THEN "asleep" ELSE "failed"
  /\ events' = {}
  /\ UNCHANGED <<log, mode, wanted, cursor, known, seen, shown, history, start>>

\* asyncio.sleep(interval).
Wake ==
  /\ pc = "asleep"
  /\ pc' = "follow"
  /\ UNCHANGED <<log, mode, wanted, cursor, known, seen, events, shown, history, start>>

\* Ctrl-C, which watch heeds only between two polls; the end of its --hours.
Stop ==
  /\ pc \in IF mode = "watch" THEN {"asleep"} ELSE Scanning \cup Following \cup {"tail"}
  /\ pc' = "done"
  /\ events' = {}
  /\ UNCHANGED <<log, mode, wanted, cursor, known, seen, shown, history, start>>

Poll == ScanOn \/ ScanTooLong \/ CreatedEnd \/ HistoryEnd \/ TailCursor \/ Follow
Next == (\E c \in Classes : Commit(c)) \/ Poll \/ PollFails \/ Wake \/ Stop

\* A poll returns within the ten seconds of the HTTP client, a sleep ends.
Fairness == WF_vars(Poll \/ PollFails) /\ WF_vars(Wake)

Spec == Init /\ [][Next]_vars /\ Fairness

(***************************************************************************)
(* Properties                                                              *)
(***************************************************************************)
TypeOK ==
  /\ log \in Seq(Classes) /\ Len(log) <= MaxEvents
  /\ mode \in Modes /\ wanted \subseteq Classes
  /\ pc \in Scanning \cup Following \cup Stopped \cup {"tail"}
  /\ cursor \in 0..Len(log) /\ history \in 0..Len(log) /\ start \in 0..Len(log)
  /\ known \in BOOLEAN /\ seen \in 0..Len(log)
  /\ events \subseteq 1..Len(log)
  /\ shown \in [1..MaxEvents -> Nat]

\* An event is printed only after every event printed before it is older: no
\* event is printed twice, by the history and by a page or by two pages, and
\* none is printed late, whatever was committed between the scans and the polls.
ShownInOrder ==
  [][\A i, j \in 1..MaxEvents : shown'[i] > shown[i] /\ shown[j] > 0 => j < i]_vars

\* Once it follows, the command has printed every event it is about between the
\* place where it started and its cursor: full pages and failed polls lose none.
NothingSkipped ==
  pc \in Following =>
    \A i \in start + 1 .. cursor : log[i] \in wanted \cap About => shown[i] > 0

\* What belonged to the task when the scan for created tasks ended: its subtask
\* too, if the log held the creation of it.
Subtree ==
  IF mode = "task" /\ ~\E i \in 1..seen : log[i] = "created" THEN {"root"} ELSE About

\* The history printed lacks no event of the task, or of a subtask created before the
\* first scan ended, that the log held when the second scan ended, except those that
\* HistoryLimit newer ones push out: scans of several pages miss nothing however the
\* log grows between them, and one that was cut short prints nothing.  The code loses
\* what is left out here: a subtask created between the two scans (cli.py:257-274).
HistoryWhole ==
  pc \in Following \cup {"tail"} =>
    \A i \in 1..history :
      log[i] \in wanted \cap Subtree =>
        \/ shown[i] > 0
        \/ Cardinality({j \in i + 1 .. history : log[j] \in wanted \cap Subtree}) >= HistoryLimit

\* While polls are answered now and then, every event the command is about and
\* that is committed after its start is printed: none is stuck behind a cursor.
EventuallyShown ==
  []<><<Follow>>_vars =>
    \A i \in 1..MaxEvents :
      (/\ pc \in Following /\ i \in start + 1 .. Len(log)
       /\ log[i] \in wanted \cap About) ~> (shown[i] > 0)

================================================================================
