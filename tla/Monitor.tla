--------------------------------- MODULE Monitor ---------------------------------
(***************************************************************************)
(* The dashboard of `yoitsu monitor`.  A timer starts a worker that asks   *)
(* both services for everything that is shown; the worker is exclusive, so *)
(* that a new one cancels the last.  The r key runs the same refresh in    *)
(* the application's own loop, beside whatever worker there is.  Each of   *)
(* the three tables is filled from its answer as soon as it comes, through *)
(* its filter, and the summary once all its sources have answered.         *)
(*                                                                         *)
(* An answer carries the version of the services it was made of.  A row is *)
(* what a filter can tell apart of it.  The widgets of Textual and the     *)
(* services are external.                                                  *)
(***************************************************************************)
EXTENDS Naturals, Sequences

CONSTANTS
  Tables,      \* events, jobs, tasks
  Sources,     \* of the summary: Trenni's status, podman, LLM statistics
  Kinds,       \* what a filter can tell apart of the rows
  Queries,     \* filters that the user may type
  Anything,    \* the empty filter
  Workers,     \* coroutines that the timer may have running
  Key,         \* the refresh that the r key runs
  MaxVersion,  \* bound on the changes of the services
  MaxChanges   \* bound on the messages of an input that are not yet handled

ASSUME MonitorAssumption ==
  /\ Tables \cap Sources = {}
  /\ Anything \notin Queries
  /\ Workers # {} /\ Key \notin Workers
  /\ MaxVersion \in Nat \ {0} /\ MaxChanges \in Nat

VARIABLES
  world,   \* the version of the services, and the rows they have for each table
  flight,  \* the requests of each refresh: idle, sent, or answered
  data,    \* _events_data, _jobs_data, _tasks_data, and of which version they are
  shown,   \* the rows of each table
  bar,     \* the version each source of the summary was shown from, or 0
  filter,  \* _filter_text
  field,   \* the value of each filter input
  hidden,  \* the inputs that are hidden
  changes, \* Input.Changed messages on their way to the application
  beside   \* refreshes that have run beside one of the other kind (history)

display == <<data, shown, bar>>
inputs == <<filter, field, hidden, changes>>
vars == <<world, flight, display, inputs, beside>>

Requests == Tables \cup Sources
Refreshes == Workers \cup {Key}
Filters == Queries \cup {Anything}
Versions == 1..MaxVersion

Idle == [st |-> "idle", ver |-> 0, rows |-> {}]
Sent == [st |-> "sent", ver |-> 0, rows |-> {}]
None == [st |-> "back", ver |-> 0, rows |-> {}]
Answer(r) == [st |-> "back", ver |-> world.ver,
              rows |-> IF r \in Tables THEN world.rows[r] ELSE {}]

AllIdle == [r \in Requests |-> Idle]
AllSent == [r \in Requests |-> Sent]
Busy(w) == \E r \in Requests : flight[w][r].st # "idle"
NoRows == [ver |-> 0, rows |-> {}]

\* _matches_filter, of all rows.
Matching(rows, query) == IF query = Anything THEN rows ELSE rows \cap {query}

Init ==
  /\ world \in [ver : {1}, rows : [Tables -> SUBSET Kinds]]
  /\ flight = [w \in Refreshes |-> AllIdle]
  /\ data = [t \in Tables |-> NoRows]
  /\ shown = [t \in Tables |-> {}]
  /\ bar = [s \in Sources |-> 0]
  /\ filter = [t \in Tables |-> Anything]
  /\ field = filter
  /\ hidden = Tables
  /\ changes = [t \in Tables |-> <<>>]
  /\ beside = {}

\* The services move on (external).
Move ==
  /\ world.ver < MaxVersion
  /\ \E rows \in [Tables -> SUBSET Kinds] : world' = [ver |-> world.ver + 1, rows |-> rows]
  /\ UNCHANGED <<flight, display, inputs, beside>>
--------------------------------------------------------------------------------
Company(w, others) == IF \E o \in others : Busy(o) THEN {w} \cup {o \in others : Busy(o)} ELSE {}

\* A coroutine that is not running: the new worker.
Fresh == CHOOSE w \in Workers : ~Busy(w) \/ \A o \in Workers : Busy(o)

\* Mutant: the worker is not exclusive.
ScheduleRefreshBeside ==
  /\ flight' = [flight EXCEPT ![Fresh] = AllSent]
  /\ beside' = (beside \ {Fresh}) \cup Company(Fresh, {Key})
  /\ UNCHANGED <<world, display, inputs>>

\* _schedule_refresh, every interval: run_worker(..., exclusive=True).
ScheduleRefresh ==
  /\ flight' = [w \in Refreshes |-> IF w = Fresh THEN AllSent
                                    ELSE IF w \in Workers THEN AllIdle ELSE flight[w]]
  /\ beside' = (beside \ Workers) \cup Company(Fresh, {Key})
  /\ UNCHANGED <<world, display, inputs>>

\* action_refresh: awaited in the loop of the application, so there is one at a time.
ActionRefresh ==
  /\ ~Busy(Key)
  /\ flight' = [flight EXCEPT ![Key] = AllSent]
  /\ beside' = (beside \ {Key}) \cup Company(Key, Workers)
  /\ UNCHANGED <<world, display, inputs>>

Return(w, r, answer) ==
  /\ flight[w][r] = Sent
  /\ flight' = [flight EXCEPT ![w][r] = answer]
  /\ UNCHANGED <<world, display, inputs, beside>>

\* A service answers with what it has.
Serve(w, r) == Return(w, r, Answer(r))

\* A client method answers None to any error or timeout.
Fail(w, r) == Return(w, r, None)

\* Mutant: the rows are shown as they come.
RefreshTableUnfiltered(w, t) ==
  /\ flight[w][t].st = "back"
  /\ data' = [data EXCEPT ![t] = [ver |-> flight[w][t].ver, rows |-> flight[w][t].rows]]
  /\ shown' = [shown EXCEPT ![t] = flight[w][t].rows]
  /\ flight' = [flight EXCEPT ![w][t] = Idle]
  /\ UNCHANGED <<world, bar, inputs, beside>>

\* Mutant: the early return comes before the table is cleared.
RefreshTableKeep(w, t) ==
  /\ flight[w][t].st = "back"
  /\ LET rows == flight[w][t].rows IN
       IF rows = {} THEN UNCHANGED <<data, shown>>
       ELSE /\ data' = [data EXCEPT ![t] = [ver |-> flight[w][t].ver, rows |-> rows]]
            /\ shown' = [shown EXCEPT ![t] = Matching(rows, filter[t])]
  /\ flight' = [flight EXCEPT ![w][t] = Idle]
  /\ UNCHANGED <<world, bar, inputs, beside>>

\* _refresh_events, _refresh_jobs, _refresh_tasks: clear, keep, filter, without an await.
RefreshTable(w, t) ==
  /\ flight[w][t].st = "back"
  /\ LET rows == flight[w][t].rows IN
       /\ data' = [data EXCEPT ![t] = IF rows = {} THEN NoRows
                                      ELSE [ver |-> flight[w][t].ver, rows |-> rows]]
       /\ shown' = [shown EXCEPT ![t] = Matching(rows, filter[t])]
  /\ flight' = [flight EXCEPT ![w][t] = Idle]
  /\ UNCHANGED <<world, bar, inputs, beside>>

\* _format_summary: each part from its own answer, 0 standing for "unreachable".
FormatSummary(answers) == [s \in Sources |-> answers[s].ver]

Summarised(w) ==
  flight' = [flight EXCEPT ![w] = [r \in Requests |-> IF r \in Sources THEN Idle ELSE @[r]]]

\* _refresh_summary: a gather of all the sources, each of which may fail by itself.
RefreshSummary(w) ==
  /\ \A s \in Sources : flight[w][s].st = "back"
  /\ bar' = FormatSummary(flight[w])
  /\ Summarised(w)
  /\ UNCHANGED <<world, data, shown, inputs, beside>>
--------------------------------------------------------------------------------
\* What the user does reaches the application only while no refresh is awaited in its loop.
Listening == ~Busy(Key)

\* _apply_filter: the table again, from the cached data.
ApplyFilter(t, query) ==
  /\ filter' = [filter EXCEPT ![t] = query]
  /\ shown' = [shown EXCEPT ![t] = Matching(data[t].rows, query)]
  /\ UNCHANGED <<world, flight, data, bar, beside>>

\* An input tells the application of a new value, later.
SetField(t, value) ==
  /\ field' = [field EXCEPT ![t] = value]
  /\ changes' = IF field[t] = value THEN changes
                ELSE [changes EXCEPT ![t] = Append(@, value)]

\* The user types into an input (external).
Type(t) ==
  /\ Listening /\ t \notin hidden /\ Len(changes[t]) < MaxChanges
  /\ \E x \in Filters \ {field[t]} : SetField(t, x)
  /\ UNCHANGED <<world, flight, display, filter, hidden, beside>>

\* action_filter, of a hidden input.
ShowFilter(t) ==
  /\ Listening /\ t \in hidden
  /\ hidden' = hidden \ {t}
  /\ UNCHANGED <<world, flight, display, filter, field, changes, beside>>

\* Mutant: the value stays in the input.
HideFilterKeep(t) ==
  /\ Listening /\ t \notin hidden
  /\ hidden' = hidden \cup {t}
  /\ ApplyFilter(t, Anything)
  /\ UNCHANGED <<field, changes>>

\* action_filter of a visible input, and on_key for Escape.
HideFilter(t) ==
  /\ Listening /\ t \notin hidden
  /\ hidden' = hidden \cup {t}
  /\ SetField(t, Anything)
  /\ ApplyFilter(t, Anything)

\* on_input_changed.
InputChanged(t) ==
  /\ Listening /\ changes[t] # <<>>
  /\ changes' = [changes EXCEPT ![t] = Tail(@)]
  /\ ApplyFilter(t, Head(changes[t]))
  /\ UNCHANGED <<field, hidden>>
--------------------------------------------------------------------------------
Step(w) == \/ \E r \in Requests : Serve(w, r) \/ Fail(w, r)
           \/ \E t \in Tables : RefreshTable(w, t)
           \/ RefreshSummary(w)

User(t) == Type(t) \/ ShowFilter(t) \/ HideFilter(t) \/ InputChanged(t)

Next ==
  \/ Move
  \/ ScheduleRefresh \/ ActionRefresh
  \/ \E w \in Refreshes : Step(w)
  \/ \E t \in Tables : User(t)

\* The timer fires, requests have timeouts, and messages are handled.
Fairness ==
  /\ WF_vars(ScheduleRefresh)
  /\ \A w \in Refreshes :
       /\ \A r \in Requests : WF_vars(Serve(w, r) \/ Fail(w, r))
       /\ \A t \in Tables : WF_vars(RefreshTable(w, t))
       /\ WF_vars(RefreshSummary(w))
  /\ \A t \in Tables : WF_vars(InputChanged(t))

Spec == Init /\ [][Next]_vars /\ Fairness
--------------------------------------------------------------------------------
Flight == {Idle, Sent, None} \cup [st : {"back"}, ver : Versions, rows : SUBSET Kinds]

TypeOK ==
  /\ world \in [ver : Versions, rows : [Tables -> SUBSET Kinds]]
  /\ flight \in [Refreshes -> [Requests -> Flight]]
  /\ data \in [Tables -> {NoRows} \cup [ver : Versions, rows : (SUBSET Kinds) \ {{}}]]
  /\ shown \in [Tables -> SUBSET Kinds]
  /\ bar \in [Sources -> 0..MaxVersion]
  /\ {filter, field} \subseteq [Tables -> Filters]
  /\ hidden \subseteq Tables
  /\ changes \in [Tables -> Seq(Filters)]
  /\ beside \subseteq Refreshes

\* A table shows the cached rows that match its filter, neither more nor less, whichever
\* of the four handlers that write to it came last, with whatever refresh on its way.
TableMatches == \A t \in Tables : shown[t] = Matching(data[t].rows, filter[t])

\* Once its messages are handled an input and the filter agree, and a filter that the
\* user no longer sees hides no rows: typing, hiding and showing again may overtake the
\* messages, never each other's.
FilterVisible ==
  \A t \in Tables :
    /\ changes[t] = <<>> => filter[t] = field[t]
    /\ t \in hidden => field[t] = Anything

\* The rows of a table and the parts of the summary never go back in time, but for a
\* refresh that has run beside one of the other kind: the r key is not exclusive.
NeverBackward ==
  [][\A w \in Refreshes \ beside :
       /\ \A t \in Tables :
            RefreshTable(w, t) => data'[t] = NoRows \/ data'[t].ver >= data[t].ver
       /\ RefreshSummary(w) => \A s \in Sources : bar'[s] = 0 \/ bar'[s] >= bar[s]]_vars

\* What is shown of a request is what the services have.
Current(r) == IF r \in Tables THEN data[r].rows = world.rows[r] ELSE bar[r] = world.ver

\* When the services come to rest, one that does not go on failing is shown as it is, for good,
\* whatever the others do, as long as its refreshes are not for ever overtaken by the timer:
\* answers slower than the interval never get on the screen.
Converges ==
  \A r \in Requests :
    (/\ ~[]<><<\E w \in Refreshes : Fail(w, r)>>_vars
     /\ []<>(\A w \in Workers : ~Busy(w)))
    => <>[]Current(r)

================================================================================
