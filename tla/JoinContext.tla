------------------------------- MODULE JoinContext -------------------------------
(***************************************************************************)
(* What a continuation planner is told about its children.  join_context   *)
(* asks the event store for the newest events of one type after another,   *)
(* five types of task events and, for the children that are still missing, *)
(* four of job events.  It passes over a query that fails, keeps the first *)
(* event it meets of each child, and renders what it has.  The log grows   *)
(* between two queries.                                                    *)
(*                                                                         *)
(* A result is the place in the log of the event it was made from.  The    *)
(* texts of summaries and criteria are left out, of job ids and traces     *)
(* what decides the role and the commit shown is kept.                     *)
(***************************************************************************)
EXTENDS Integers, Sequences, FiniteSets, FiniteSetsExt

CONSTANTS
  Tasks,
  TaskData,     \* what a task event may carry: its verdict and trace of jobs
  JobData,      \* what a job event may carry: the segments of a job id, a commit
  Committed,    \* the types of events that are committed
  PageLimit,    \* 200 events of a query
  TraceShown,   \* 4 entries of a trace are rendered
  MaxLog,       \* bound on the log
  MaxFailures   \* bound on the queries that fail

TaskTypes == <<"task.completed", "task.failed", "task.partial", "task.cancelled",
               "task.eval_failed">>
JobTypes == <<"job.completed", "job.failed", "job.cancelled", "supervisor.job.failed">>
Types == TaskTypes \o JobTypes
Roles == {"evaluator", "implementer", "optimizer", "worker", "planner", "reviewer"}

IsTask(type) == \E i \in DOMAIN TaskTypes : TaskTypes[i] = type

ASSUME JoinAssumption ==
  /\ Committed \subseteq {Types[i] : i \in DOMAIN Types}
  /\ {PageLimit, TraceShown} \subseteq Nat \ {0}
  /\ {MaxLog, MaxFailures} \subseteq Nat

VARIABLES
  log,       \* the events of the store
  children,  \* child_task_ids of the join
  q,         \* the query to be made next
  found,     \* the event each child's result was made from, or 0
  out,       \* whether the context has been built, and whether it has sections
  text,      \* the section of each child
  asked      \* the length of the log when each query was answered (history)

joinVars == <<log, children, q, found, out, text, asked>>

Unasked == -1
FailedQuery == -2
LastType == Len(Types)
Data(type) == IF IsTask(type) THEN TaskData ELSE JobData

Unknown == [status |-> "unknown", role |-> "unknown", ref |-> "", verdict |-> "", trace |-> <<>>]

JoinInit ==
  /\ log = <<>>
  /\ children \in SUBSET Tasks
  /\ q = 0
  /\ found = [c \in children |-> 0]
  /\ out = "pending"
  /\ text = [c \in children |-> Unknown]
  /\ asked = [i \in 1..LastType |-> Unasked]

\* Anything is committed at any moment (external); what comes after the last query is
\* nothing to the join.
Commit ==
  /\ Len(log) < MaxLog /\ q <= LastType
  /\ \E type \in Committed, t \in Tasks : \E d \in Data(type) :
       log' = Append(log, [type |-> type, task |-> t, data |-> d])
  /\ UNCHANGED <<children, q, found, out, text, asked>>
--------------------------------------------------------------------------------
\* A join without children has no context.
BeginJoin ==
  /\ q = 0
  /\ IF children = {} THEN out' = "empty" /\ q' = LastType + 1 ELSE q' = 1 /\ UNCHANGED out
  /\ UNCHANGED <<log, children, found, text, asked>>

\* Mutant: the oldest events of a type.
Oldest(type) ==
  {i \in DOMAIN log : /\ log[i].type = type
                      /\ Cardinality({k \in DOMAIN log : k < i /\ log[k].type = type}) < PageLimit}

\* The places of the newest PageLimit events of a type: order=desc, limit=200.
Newest(type) ==
  {i \in DOMAIN log : /\ log[i].type = type
                      /\ Cardinality({k \in DOMAIN log : k > i /\ log[k].type = type}) < PageLimit}

Of(c, places) == {i \in places : log[i].task = c}

\* The first of a child in a page that begins with the newest, once only.
Take(places) ==
  [c \in children |-> IF found[c] = 0 /\ Of(c, places) # {} THEN Max(Of(c, places))
                                                           ELSE found[c]]

\* Mutant: the loop over the tasks ends as soon as anybody is found.
AfterAny(results, i) == IF \E c \in children : results[c] # 0 THEN LastType + 1 ELSE i + 1

\* The loops end with the last type, or when nobody is missing.
After(results, i) == IF \A c \in children : results[c] # 0 THEN LastType + 1 ELSE i + 1

Query ==
  /\ q \in 1..LastType
  /\ LET results == Take(Newest(Types[q])) IN
       /\ found' = results
       /\ q' = After(results, q)
  /\ asked' = [asked EXCEPT ![q] = Len(log)]
  /\ UNCHANGED <<log, children, out, text>>

\* An error, the timeout, or an answer that is no list.
QueryFails ==
  /\ q \in 1..LastType
  /\ Cardinality({i \in 1..(q - 1) : asked[i] = FailedQuery}) < MaxFailures
  /\ q' = q + 1
  /\ asked' = [asked EXCEPT ![q] = FailedQuery]
  /\ UNCHANGED <<log, children, found, out, text>>
--------------------------------------------------------------------------------
\* _latest_trace_role, _latest_trace_git_ref: the last entry that has one.
LatestOf(values, default) ==
  LET given == {i \in DOMAIN values : values[i] # ""}
  IN IF given = {} THEN default ELSE values[Max(given)]

\* _extract_role: the last segment that is a role, or the last segment.
RoleOf(segments) ==
  LET known == {i \in DOMAIN segments : segments[i] \in Roles}
  IN segments[IF known = {} THEN Len(segments) ELSE Max(known)]

Status(type) ==
  LET statuses == <<"completed", "failed", "partial", "cancelled", "eval_failed",
                    "completed", "failed", "cancelled", "failed">>
  IN statuses[CHOOSE i \in DOMAIN Types : Types[i] = type]

TaskResult(e) ==
  LET trace == e.data.trace IN
  [status |-> Status(e.type),
   role |-> LatestOf([i \in DOMAIN trace |-> trace[i].role], "unknown"),
   ref |-> LatestOf([i \in DOMAIN trace |-> trace[i].ref], ""),
   verdict |-> IF e.data.verdict = "" THEN "unknown" ELSE e.data.verdict,
   trace |-> trace]

JobResult(e) ==
  [status |-> Status(e.type), role |-> RoleOf(e.data.segments), ref |-> e.data.ref,
   verdict |-> "", trace |-> <<>>]

Result(i) == IF IsTask(log[i].type) THEN TaskResult(log[i]) ELSE JobResult(log[i])

\* One section per child; of a trace the first entries are shown.
Section(c) ==
  IF found[c] = 0 THEN Unknown
  ELSE [Result(found[c]) EXCEPT !.trace = SubSeq(@, 1, Min({TraceShown, Len(@)}))]

Render ==
  /\ q = LastType + 1 /\ out = "pending"
  /\ IF \A c \in children : found[c] = 0
     THEN out' = "no results" /\ UNCHANGED text
     ELSE out' = "sections" /\ text' = [c \in children |-> Section(c)]
  /\ UNCHANGED <<log, children, q, found, asked>>
--------------------------------------------------------------------------------
Join == BeginJoin \/ Query \/ QueryFails \/ Render
JoinNext == Commit \/ Join
JoinSpec == JoinInit /\ [][JoinNext]_joinVars
--------------------------------------------------------------------------------
JoinTypeOK ==
  /\ \A i \in DOMAIN log :
       /\ log[i].type \in Committed /\ log[i].task \in Tasks
       /\ log[i].data \in Data(log[i].type)
  /\ children \subseteq Tasks
  /\ q \in 0..(LastType + 1)
  /\ found \in [children -> 0..Len(log)]
  /\ out \in {"pending", "empty", "no results", "sections"}
  /\ DOMAIN text = children
  /\ asked \in [1..LastType -> FailedQuery..Len(log)]

Told == q = LastType + 1 /\ children # {}
PlaceOf(type) == CHOOSE i \in DOMAIN Types : Types[i] = type

\* What a query of type number i was shown of child c: the newest PageLimit events of the
\* type in the log as it was then.
Visible(i, c) ==
  {k \in 1..asked[i] :
     /\ log[k].type = Types[i] /\ log[k].task = c
     /\ Cardinality({j \in (k + 1)..asked[i] : log[j].type = Types[i]}) < PageLimit}

\* A query that was made, and failed or was shown nothing of c.
SawNothing(i, c) == asked[i] # Unasked /\ Visible(i, c) = {}

\* The result of a child is the newest event of the first type that showed any of it:
\* what was committed between two queries, a query that failed and events beyond the limit
\* change what is found, never which of two visible events is preferred.  In
\* particular a job event never stands for a child of which a task event was seen.
FirstAndNewest ==
  \A c \in DOMAIN found : found[c] # 0 =>
    LET i == PlaceOf(log[found[c]].type) IN
      /\ found[c] \in Visible(i, c)
      /\ \A k \in Visible(i, c) : k <= found[c]
      /\ \A k \in 1..(i - 1) : SawNothing(k, c)

\* A child is called unknown, or left out with all the others, only if each of the nine
\* queries failed or showed nothing of it: no early return drops a child.
UnknownExplained ==
  Told => \A c \in children : found[c] = 0 =>
            \A i \in 1..LastType : SawNothing(i, c)
================================================================================
