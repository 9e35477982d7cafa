-------------------------------- MODULE TaskWait --------------------------------
(***************************************************************************)
(* The commands that tell how a task and its subtasks are doing:           *)
(*                                                                         *)
(*   tasks chain t     one round, printed                                  *)
(*   tasks wait t      a round every interval, until t has an outcome or   *)
(*                     the timeout has passed; the exit code is the answer *)
(*                                                                         *)
(* A round (_load_task_chain_rows) reads two services that change while it *)
(* runs: it scans the log of Pasloe for created tasks, then for all events *)
(* of the supervisor, then asks Trenni about the tasks that have no        *)
(* outcome yet, one by one, and about the root.                            *)
(*                                                                         *)
(* A scan is one step: EventTail shows that the pages of a scan amount to  *)
(* the log as it was at the last of them.  Pasloe and Trenni are external; *)
(* Trenni keeps its tasks in memory and forgets them when it likes, and    *)
(* nothing ties the moment it changes its mind to the moment the event is  *)
(* committed.                                                              *)
(***************************************************************************)
EXTENDS Naturals, Sequences, FiniteSets

CONSTANTS
  Root,       \* the task asked about
  Subtasks,   \* the tasks below it
  Outcomes,   \* the terminal states
  Completed,  \* the one that is a success
  MaxEvents   \* bound: events that are ever committed

ASSUME WaitAssumption ==
  /\ Root \notin Subtasks
  /\ Completed \in Outcomes
  /\ {"absent", "pending", "created"} \cap Outcomes = {}
  /\ MaxEvents \in Nat

Tasks == {Root} \cup Subtasks
States == {"pending"} \cup Outcomes

VARIABLES
  log,      \* the supervisor's events, in order (external)
  live,     \* what Trenni holds in memory about each task (external)
  command,  \* "chain" or "wait"
  expired,  \* has the timeout passed?
  pc,       \* what the command does next
  subtree,  \* the tasks the round is about
  seen,     \* where the log ended when the round scanned it for events
  answers,  \* what Trenni has answered in the round
  rows,     \* the state shown of each task
  code,     \* the exit code
  error,    \* the service, or user, that made the command fail
  since,    \* where the log ended when the round began (history)
  truth     \* the outcomes that tasks have had since then (history)

external == <<log, live, truth>>
vars == <<log, live, command, expired, pc, subtree, seen, answers, rows, code, error, since, truth>>

None == [t \in {} |-> "absent"]

\* The latest terminal event of t in the first n events of the log.
Terminals(t, n) == {i \in 1..n : log[i].task = t /\ log[i].type \in Outcomes}
Latest(t, n) == log[CHOOSE i \in Terminals(t, n) : \A j \in Terminals(t, n) : j <= i].type

\* The outcomes t has at the moment: by the log and in Trenni's memory.
OutcomesNow(t) ==
  {<<t, s>> : s \in ({live[t]} \cap Outcomes)
                     \cup (IF Terminals(t, Len(log)) = {} THEN {} ELSE {Latest(t, Len(log))})}

Init ==
  /\ log = <<>>
  /\ live = [t \in Tasks |-> "absent"]
  /\ command \in {"chain", "wait"}
  /\ expired = FALSE
  /\ pc = "round"
  /\ subtree = {}
  /\ seen = 0
  /\ answers = None
  /\ rows = None
  /\ code = "none"
  /\ error = "none"
  /\ since = 0
  /\ truth = {}

(***************************************************************************)
(* Trenni and Pasloe                                                       *)
(***************************************************************************)
\* The history of a round is kept from its beginning to its end.
Note(t, s) ==
  truth' = IF pc \in {"events", "ask"} /\ s \in Outcomes THEN truth \cup {<<t, s>>} ELSE truth

Commit(t, type) ==
  /\ pc # "exited" /\ Len(log) < MaxEvents
  /\ log' = Append(log, [task |-> t, type |-> type])
  /\ Note(t, type)
  /\ UNCHANGED <<live, command, expired, pc, subtree, seen, answers, rows, code, error, since>>

\* A task comes to an outcome in Trenni's memory, and is forgotten at any time.
Hold(t, s) ==
  /\ pc # "exited" /\ live[t] # s
  /\ \/ s \in {"absent", "pending"}
     \/ s \in Outcomes /\ live[t] = "pending"
  /\ live' = [live EXCEPT ![t] = s]
  /\ Note(t, s)
  /\ UNCHANGED <<log, command, expired, pc, subtree, seen, answers, rows, code, error, since>>

(***************************************************************************)
(* A round                                                                 *)
(***************************************************************************)
\* The scan for created tasks.
Begin ==
  /\ pc = "round"
  /\ subtree' = {Root} \cup {log[i].task : i \in {k \in 1..Len(log) : log[k].type = "created"}}
  /\ pc' = "events"
  /\ answers' = None
  /\ rows' = None
  /\ since' = Len(log)
  /\ truth' = UNION {OutcomesNow(t) : t \in Tasks}
  /\ UNCHANGED <<log, live, command, expired, seen, code, error>>

\* The scan for the events of the supervisor.
ReadEvents ==
  /\ pc = "events"
  /\ seen' = Len(log)
  /\ pc' = "ask"
  /\ UNCHANGED <<external, command, expired, subtree, answers, rows, code, error, since>>

\* Only tasks without an outcome are asked about, and the root.
ToAsk == {t \in subtree : t = Root \/ Terminals(t, seen) = {}} \ DOMAIN answers

\* get_task_strict(t), where 404 is an answer too.
Ask(t) ==
  /\ pc = "ask"
  /\ t \in ToAsk
  /\ answers' = [u \in DOMAIN answers \cup {t} |-> IF u = t THEN live[t] ELSE answers[u]]
  /\ UNCHANGED <<external, command, expired, pc, subtree, seen, rows, code, error, since>>

\* Mutant: the first terminal event of a task decides, not the latest.
RowStateFirst(t) ==
  IF Terminals(t, seen) # {}
  THEN log[CHOOSE i \in Terminals(t, seen) : \A j \in Terminals(t, seen) : i <= j].type
  ELSE IF t \in DOMAIN answers /\ answers[t] # "absent" THEN answers[t]
  ELSE "pending"

\* The event decides; without one Trenni does; without an answer it is pending.
RowState(t) ==
  IF Terminals(t, seen) # {} THEN Latest(t, seen)
  ELSE IF t \in DOMAIN answers /\ answers[t] # "absent" THEN answers[t]
  ELSE "pending"

\* Mutant: the wait ends with the first task that has an outcome, whichever it is.
ShowAny ==
  /\ pc = "ask"
  /\ ToAsk = {}
  /\ rows' = [t \in subtree |-> RowState(t)]
  /\ \/ /\ command = "chain" \/ \E t \in subtree : rows'[t] \in Outcomes
        /\ pc' = "exited"
        /\ code' = IF command = "chain" \/ \E t \in subtree : rows'[t] = Completed THEN "0" ELSE "1"
     \/ /\ command = "wait" /\ \A t \in subtree : rows'[t] \notin Outcomes
        /\ pc' = "late?" /\ code' = code
  /\ UNCHANGED <<external, command, expired, subtree, seen, answers, error, since>>

\* The rows are there: the command prints them and, waiting, goes by the root's.
Show ==
  /\ pc = "ask"
  /\ ToAsk = {}
  /\ rows' = [t \in subtree |-> RowState(t)]
  /\ \/ /\ command = "chain"
        /\ pc' = "exited" /\ code' = "0"
     \/ /\ command = "wait" /\ rows'[Root] \in Outcomes
        /\ pc' = "exited" /\ code' = IF rows'[Root] = Completed THEN "0" ELSE "1"
     \/ /\ command = "wait" /\ rows'[Root] \notin Outcomes
        /\ pc' = "late?" /\ code' = code
  /\ UNCHANGED <<external, command, expired, subtree, seen, answers, error, since>>

\* No outcome yet: the deadline has passed, or the round is over and the command
\* sleeps (what the round has read is dead: it is dropped).
Timeout ==
  /\ pc = "late?" /\ expired
  /\ pc' = "exited"
  /\ code' = "2"
  /\ UNCHANGED <<external, command, expired, subtree, seen, answers, rows, error, since>>

Sleep ==
  /\ pc = "late?" /\ ~expired
  /\ pc' = "asleep"
  /\ subtree' = {} /\ answers' = None /\ rows' = None
  /\ seen' = 0 /\ since' = 0 /\ truth' = {}
  /\ UNCHANGED <<log, live, command, expired, code, error>>

\* Mutant: every round has the whole timeout before it.
WakeRearmed ==
  /\ pc = "asleep"
  /\ pc' = "round"
  /\ expired' = FALSE
  /\ UNCHANGED <<external, command, subtree, seen, answers, rows, code, error, since>>

Wake ==
  /\ pc = "asleep"
  /\ pc' = "round"
  /\ UNCHANGED <<external, command, expired, subtree, seen, answers, rows, code, error, since>>

\* A service answers with an error or not at all (or the scan is over its limit,
\* or it is Ctrl-C): the command fails, with code 1.
Fail(service) ==
  /\ pc' = "exited"
  /\ code' = "1"
  /\ error' = service
  /\ UNCHANGED <<external, command, expired, subtree, seen, answers, rows, since>>
PasloeFails == pc \in {"round", "events"} /\ Fail("pasloe")
TrenniFails == pc = "ask" /\ ToAsk # {} /\ Fail("trenni")

Interrupt == pc # "exited" /\ Fail("user")

\* The clock passes the deadline.
Expire ==
  /\ ~expired
  /\ expired' = TRUE
  /\ UNCHANGED <<external, command, pc, subtree, seen, answers, rows, code, error, since>>

Round == Begin \/ ReadEvents \/ (\E t \in Tasks : Ask(t)) \/ Show
Step == Round \/ Timeout \/ Sleep \/ Wake \/ PasloeFails \/ TrenniFails

Next ==
  \/ \E t \in Tasks, type \in {"created"} \cup Outcomes : Commit(t, type)
  \/ \E t \in Tasks, s \in {"absent"} \cup States : Hold(t, s)
  \/ Step \/ Interrupt \/ Expire

\* Requests have a timeout, a sleep ends, and so does the time given.
Fairness == WF_vars(Step) /\ WF_vars(Expire)

Spec == Init /\ [][Next]_vars /\ Fairness

(***************************************************************************)
(* Properties                                                              *)
(***************************************************************************)
TypeOK ==
  /\ log \in Seq([task : Tasks, type : {"created"} \cup Outcomes]) /\ Len(log) <= MaxEvents
  /\ live \in [Tasks -> {"absent"} \cup States]
  /\ command \in {"chain", "wait"} /\ expired \in BOOLEAN
  /\ pc \in {"round", "events", "ask", "late?", "asleep", "exited"}
  /\ subtree \subseteq Tasks
  /\ seen \in 0..Len(log) /\ since \in 0..Len(log)
  /\ DOMAIN answers \subseteq Tasks /\ \A t \in DOMAIN answers : answers[t] \in {"absent"} \cup States
  /\ DOMAIN rows \subseteq Tasks /\ \A t \in DOMAIN rows : rows[t] \in States
  /\ code \in {"none", "0", "1", "2"} /\ error \in {"none", "pasloe", "trenni", "user"}
  /\ truth \subseteq Tasks \X Outcomes

\* Every outcome in the rows was the task's outcome at a moment of the round that
\* made them: the two scans and the answers, each of another moment, never add up
\* to an outcome that was over before the round began or that never was.
RowsTrue == \A t \in DOMAIN rows : rows[t] \in Outcomes => <<t, rows[t]>> \in truth

\* Unless a service failed, `tasks wait' exits with 0 only if the task was
\* completed, and with 1 only if it had another outcome, during its last round.
ExitTrue ==
  pc = "exited" /\ command = "wait" /\ error = "none" /\ code \in {"0", "1"} =>
    \E s \in Outcomes : <<Root, s>> \in truth /\ (code = "0" <=> s = Completed)

\* A timeout (2) is reported only when the deadline has passed and the task had
\* no outcome in the log when the last round began: a task that is done in time
\* is not reported late because the rounds are slow.
TimeoutTrue ==
  code = "2" => expired /\ Terminals(Root, since) = {}

\* The command ends, whatever the services do.
WaitEnds == <>(pc = "exited")
================================================================================
