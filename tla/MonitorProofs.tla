------------------------------- MODULE MonitorProofs -------------------------------
(***************************************************************************)
(* Theorems about the monitor: its dashboard, for any tables, sources,     *)
(* rows and workers, and its detail screens, for any tasks, jobs and       *)
(* number of screens and loads.                                            *)
(***************************************************************************)
EXTENDS Monitor, MonitorDetail, SequenceTheorems, TLAPS

(***************************************************************************)
(* The dashboard.  TableMatches is inductive by itself.  FilterVisible     *)
(* needs to know what is on its way to the application: the last message   *)
(* of an input carries the input's value.  NeverBackward rests on who may  *)
(* run at the same time: a refresh that has kept no company is the only    *)
(* one with requests under way, so that nothing was shown since it asked   *)
(* that is newer than what it brings.                                      *)
(***************************************************************************)
Pending == \A t \in Tables : changes[t] # <<>> => changes[t][Len(changes[t])] = field[t]

Alone == \A w \in Refreshes \ beside : Busy(w) => \A o \in Refreshes \ {w} : ~Busy(o)

Past ==
  /\ \A t \in Tables : data[t].ver <= world.ver
  /\ \A s \in Sources : bar[s] <= world.ver
  /\ \A w \in Refreshes : \A r \in Requests : flight[w][r].ver <= world.ver

Ahead ==
  \A w \in Refreshes \ beside :
    /\ \A t \in Tables : flight[w][t].st = "back" =>
         flight[w][t].rows = {} \/ flight[w][t].ver >= data[t].ver
    /\ \A s \in Sources : flight[w][s].st = "back" =>
         flight[w][s].ver = 0 \/ flight[w][s].ver >= bar[s]

MonitorInv == TypeOK /\ TableMatches /\ FilterVisible /\ Pending /\ Alone /\ Past /\ Ahead

\* What an answer carries.
LEMMA FlightIs ==
  ASSUME NEW f \in Flight
  PROVE  /\ f.ver \in 0..MaxVersion /\ f.rows \subseteq Kinds
         /\ f.rows # {} => f.ver \in Versions
<1>1. MaxVersion \in Nat
  BY MonitorAssumption
<1>2. CASE f \in {Idle, Sent, None}
  BY <1>1, <1>2 DEF Idle, Sent, None
<1>3. CASE f \in [st : {"back"}, ver : Versions, rows : SUBSET Kinds]
  BY <1>1, <1>3 DEF Versions
<1> QED
  BY <1>2, <1>3 DEF Flight

LEMMA AtRest ==
  /\ {Idle, Sent, None} \subseteq Flight
  /\ Idle.st = "idle" /\ Sent.st = "sent" /\ None.st = "back" /\ None.rows = {}
  /\ Idle.ver = 0 /\ Sent.ver = 0 /\ None.ver = 0
BY DEF Flight, Idle, Sent, None

LEMMA MatchingIs ==
  ASSUME NEW rows \in SUBSET Kinds, NEW query
  PROVE  Matching(rows, query) \in SUBSET Kinds
BY DEF Matching

\* Only refreshes write to the data and only the user to the inputs.
LEMMA FreshIs == Fresh \in Workers
<1>1. \E w \in Workers : ~Busy(w) \/ \A o \in Workers : Busy(o)
  BY MonitorAssumption
<1> QED
  BY <1>1 DEF Fresh

--------------------------------------------------------------------------------
LEMMA MonitorInitInv == Init => MonitorInv
<1> SUFFICES ASSUME Init PROVE MonitorInv
  OBVIOUS
<1>1. MaxVersion \in Nat /\ 1 \in Versions
  BY MonitorAssumption DEF Versions
<1>2. TypeOK
  <2>1. flight \in [Refreshes -> [Requests -> Flight]]
    BY AtRest DEF Init, AllIdle
  <2>2. world \in [ver : Versions, rows : [Tables -> SUBSET Kinds]]
    BY <1>1 DEF Init
  <2>3. bar \in [Sources -> 0..MaxVersion]
    BY <1>1 DEF Init
  <2>4. changes \in [Tables -> Seq(Filters)]
    BY DEF Init
  <2>5. {filter, field} \subseteq [Tables -> Filters]
    BY DEF Init, Filters
  <2> QED
    BY <2>1, <2>2, <2>3, <2>4, <2>5 DEF Init, TypeOK
<1>3. TableMatches
  BY DEF Init, TableMatches, Matching, NoRows
<1>4. FilterVisible /\ Pending
  BY DEF Init, FilterVisible, Pending
<1>5. \A w \in Refreshes : \A r \in Requests : flight[w][r].st = "idle" /\ flight[w][r].ver = 0
  BY AtRest DEF Init, AllIdle
<1>6. Alone /\ Ahead
  BY <1>5 DEF Alone, Ahead, Busy, Requests
<1>7. Past
  BY <1>1, <1>5 DEF Init, Past, NoRows
<1> QED
  BY <1>2, <1>3, <1>4, <1>6, <1>7 DEF MonitorInv

\* Steps that leave the requests alone.
LEMMA MoveInv == ASSUME MonitorInv, Move PROVE MonitorInv'
<1>1. UNCHANGED <<flight, data, shown, bar, filter, field, hidden, changes, beside>>
  BY DEF Move, display, inputs
<1>2. PICK rows \in [Tables -> SUBSET Kinds] : world' = [ver |-> world.ver + 1, rows |-> rows]
  BY DEF Move
<1>3. world.ver \in 1..MaxVersion /\ world.ver < MaxVersion /\ MaxVersion \in Nat
  BY MonitorAssumption DEF MonitorInv, TypeOK, Versions, Move
<1>4. world' \in [ver : Versions, rows : [Tables -> SUBSET Kinds]] /\ world'.ver = world.ver + 1
  BY <1>2, <1>3 DEF Versions
<1>5. TypeOK'
  BY <1>1, <1>4 DEF MonitorInv, TypeOK
<1>6. Past'
  <2>1. \A t \in Tables : data[t].ver \in 0..MaxVersion
    BY <1>3 DEF MonitorInv, TypeOK, NoRows, Versions
  <2>2. \A s \in Sources : bar[s] \in 0..MaxVersion
    BY DEF MonitorInv, TypeOK
  <2>3. \A w \in Refreshes : \A r \in Requests : flight[w][r].ver \in 0..MaxVersion
    BY FlightIs DEF MonitorInv, TypeOK
  <2> QED
    BY <1>1, <1>3, <1>4, <2>1, <2>2, <2>3 DEF MonitorInv, Past
<1>7. TableMatches' /\ FilterVisible' /\ Pending' /\ Alone' /\ Ahead'
  BY <1>1 DEF MonitorInv, TableMatches, FilterVisible, Pending, Alone, Ahead, Busy
<1> QED
  BY <1>5, <1>6, <1>7 DEF MonitorInv

LEMMA UserInv == ASSUME MonitorInv, NEW t \in Tables, User(t) PROVE MonitorInv'
<1>1. UNCHANGED <<world, flight, data, bar, beside>>
  BY DEF User, Type, ShowFilter, HideFilter, InputChanged, ApplyFilter, display
<1>2. Alone' /\ Past' /\ Ahead'
  BY <1>1 DEF MonitorInv, Alone, Past, Ahead, Busy
<1>3. /\ filter \in [Tables -> Filters] /\ field \in [Tables -> Filters] /\ hidden \subseteq Tables
      /\ changes \in [Tables -> Seq(Filters)] /\ shown \in [Tables -> SUBSET Kinds]
      /\ data \in [Tables -> {NoRows} \cup [ver : Versions, rows : (SUBSET Kinds) \ {{}}]]
      /\ Anything \in Filters
  BY DEF MonitorInv, TypeOK, Filters
<1>4. ASSUME NEW x \in Tables PROVE data[x].rows \in SUBSET Kinds
  <2>1. data[x] \in {NoRows} \cup [ver : Versions, rows : (SUBSET Kinds) \ {{}}]
    BY <1>3
  <2> QED
    BY <2>1 DEF NoRows
<1> DEFINE Typed == /\ filter' \in [Tables -> Filters] /\ field' \in [Tables -> Filters]
                    /\ hidden' \subseteq Tables /\ changes' \in [Tables -> Seq(Filters)]
                    /\ shown' \in [Tables -> SUBSET Kinds]
<1>5. Typed => TypeOK'
  BY <1>1 DEF MonitorInv, TypeOK
<1>6. \A x \in Tables :
        /\ changes[x] = <<>> => filter[x] = field[x]
        /\ x \in hidden => field[x] = Anything
        /\ changes[x] # <<>> => changes[x][Len(changes[x])] = field[x]
        /\ shown[x] = Matching(data[x].rows, filter[x])
  BY DEF MonitorInv, FilterVisible, Pending, TableMatches
<1> DEFINE Fits(x) ==
        /\ changes'[x] = <<>> => filter'[x] = field'[x]
        /\ x \in hidden' => field'[x] = Anything
        /\ changes'[x] # <<>> => changes'[x][Len(changes'[x])] = field'[x]
        /\ shown'[x] = Matching(data[x].rows, filter'[x])
<1>7. (\A x \in Tables : Fits(x)) => FilterVisible' /\ Pending' /\ TableMatches'
  BY <1>1 DEF FilterVisible, Pending, TableMatches
<1>8. ASSUME NEW s \in Seq(Filters), NEW x \in Filters
      PROVE  /\ Append(s, x) \in Seq(Filters) /\ Append(s, x) # <<>>
             /\ Append(s, x)[Len(Append(s, x))] = x
  OBVIOUS
\* What telling the application of a value does to the messages of an input.
<1>9. ASSUME NEW value \in Filters, SetField(t, value)
      PROVE  /\ field' \in [Tables -> Filters] /\ changes' \in [Tables -> Seq(Filters)]
             /\ field'[t] = value
             /\ changes'[t] # <<>> => changes'[t][Len(changes'[t])] = value
             /\ changes'[t] = <<>> => field[t] = value /\ changes[t] = <<>>
             /\ \A x \in Tables \ {t} : field'[x] = field[x] /\ changes'[x] = changes[x]
  <2>1. field' = [field EXCEPT ![t] = value]
    BY <1>9 DEF SetField
  <2>2. CASE field[t] = value
    <3>1. changes' = changes
      BY <1>9, <2>2 DEF SetField
    <3> QED
      BY <1>3, <1>6, <2>1, <2>2, <3>1
  <2>3. CASE field[t] # value
    <3>1. changes' = [changes EXCEPT ![t] = Append(changes[t], value)]
      BY <1>9, <2>3 DEF SetField
    <3>2. changes[t] \in Seq(Filters)
      BY <1>3
    <3>3. changes'[t] = Append(changes[t], value)
      BY <1>3, <3>1
    <3> QED
      BY <1>3, <1>8, <2>1, <3>1, <3>2, <3>3
  <2> QED
    BY <2>2, <2>3
\* What a filter that is applied does to the table.
<1>10. ASSUME NEW query \in Filters, ApplyFilter(t, query)
       PROVE  /\ filter' \in [Tables -> Filters] /\ shown' \in [Tables -> SUBSET Kinds]
              /\ filter'[t] = query /\ shown'[t] = Matching(data[t].rows, query)
              /\ \A x \in Tables \ {t} : filter'[x] = filter[x] /\ shown'[x] = shown[x]
  <2>1. /\ filter' = [filter EXCEPT ![t] = query]
        /\ shown' = [shown EXCEPT ![t] = Matching(data[t].rows, query)]
    BY <1>10 DEF ApplyFilter
  <2>2. Matching(data[t].rows, query) \in SUBSET Kinds
    BY <1>4, MatchingIs
  <2> QED
    BY <1>3, <2>1, <2>2
<1>11. CASE Type(t)
  <2>1. PICK x \in Filters \ {field[t]} : SetField(t, x)
    BY <1>11 DEF Type
  <2>2. UNCHANGED <<filter, hidden, shown>> /\ t \notin hidden
    BY <1>11 DEF Type, display
  <2>3. Typed
    BY <1>3, <1>9, <2>1, <2>2
  <2>4. \A y \in Tables : Fits(y)
    <3>1. Fits(t)
      BY <1>6, <1>9, <2>1, <2>2
    <3>2. ASSUME NEW y \in Tables \ {t} PROVE Fits(y)
      BY <1>6, <1>9, <2>1, <2>2
    <3> QED
      BY <3>1, <3>2
  <2> QED
    BY <1>2, <1>5, <1>7, <2>3, <2>4 DEF MonitorInv
<1>12. CASE ShowFilter(t)
  <2>1. UNCHANGED <<filter, field, shown, changes>> /\ hidden' = hidden \ {t}
    BY <1>12 DEF ShowFilter, display
  <2>2. Typed /\ \A y \in Tables : Fits(y)
    BY <1>3, <1>6, <2>1
  <2> QED
    BY <1>2, <1>5, <1>7, <2>2 DEF MonitorInv
<1>13. CASE HideFilter(t)
  <2>1. SetField(t, Anything) /\ ApplyFilter(t, Anything) /\ hidden' = hidden \cup {t}
    BY <1>13 DEF HideFilter
  <2>2. Typed
    BY <1>3, <1>9, <1>10, <2>1
  <2>3. Fits(t)
    BY <1>3, <1>9, <1>10, <2>1
  <2>4. ASSUME NEW y \in Tables \ {t} PROVE Fits(y)
    <3>1. /\ field'[y] = field[y] /\ changes'[y] = changes[y]
          /\ filter'[y] = filter[y] /\ shown'[y] = shown[y] /\ (y \in hidden' <=> y \in hidden)
      BY <1>3, <1>9, <1>10, <2>1
    <3> QED
      BY <1>6, <3>1
  <2> QED
    BY <1>2, <1>5, <1>7, <2>2, <2>3, <2>4 DEF MonitorInv
<1>14. CASE InputChanged(t)
  <2>1. /\ changes[t] # <<>> /\ changes' = [changes EXCEPT ![t] = Tail(changes[t])]
        /\ ApplyFilter(t, Head(changes[t])) /\ UNCHANGED <<field, hidden>>
    BY <1>14 DEF InputChanged
  <2>2. /\ changes[t] \in Seq(Filters) /\ Head(changes[t]) \in Filters
        /\ Tail(changes[t]) \in Seq(Filters) /\ Len(changes[t]) \in Nat \ {0}
    BY <1>3, <2>1
  <2>3. Typed
    BY <1>3, <1>10, <2>1, <2>2
  <2>4. changes'[t] = Tail(changes[t])
    BY <1>3, <2>1
  <2>5. changes'[t] = <<>> => Len(changes[t]) = 1
    <3>1. \A m \in Seq(Filters) : m # <<>> /\ Tail(m) = <<>> => Len(m) = 1
      <4> SUFFICES ASSUME NEW m \in Seq(Filters), m # <<>>, Tail(m) = <<>> PROVE Len(m) = 1
        OBVIOUS
      <4>1. Len(Tail(m)) = Len(m) - 1 /\ Len(m) \in Nat
        OBVIOUS
      <4> QED
        BY <4>1
    <3> QED
      BY <2>1, <2>2, <2>4, <3>1
  <2>6. changes'[t] = <<>> => Head(changes[t]) = field[t]
    BY <1>6, <2>1, <2>2, <2>5
  <2>7. changes'[t] # <<>> => changes'[t][Len(changes'[t])] = changes[t][Len(changes[t])]
    BY <2>2, <2>4
  <2>8. Fits(t)
    BY <1>6, <1>10, <2>1, <2>2, <2>6, <2>7
  <2>9. ASSUME NEW y \in Tables \ {t} PROVE Fits(y)
    BY <1>3, <1>6, <1>10, <2>1, <2>2
  <2> QED
    BY <1>2, <1>5, <1>7, <2>3, <2>8, <2>9 DEF MonitorInv
<1> QED
  BY <1>11, <1>12, <1>13, <1>14 DEF User

\* A refresh begins: it is alone, or it is known to have kept company.
LEMMA BeginInv == ASSUME MonitorInv, ScheduleRefresh \/ ActionRefresh PROVE MonitorInv'
<1>1. UNCHANGED <<world, data, shown, bar, filter, field, hidden, changes>>
  BY DEF ScheduleRefresh, ActionRefresh, display, inputs
<1>2. flight \in [Refreshes -> [Requests -> Flight]] /\ beside \subseteq Refreshes
      /\ Fresh \in Workers /\ Key \notin Workers
  BY FreshIs, MonitorAssumption DEF MonitorInv, TypeOK
<1>3. /\ AllSent \in [Requests -> Flight] /\ AllIdle \in [Requests -> Flight]
      /\ \A r \in Requests : AllSent[r].st = "sent" /\ AllIdle[r].st = "idle"
      /\ \A r \in Requests : AllSent[r].ver = 0 /\ AllIdle[r].ver = 0
  BY AtRest DEF AllSent, AllIdle
<1>6. (\A w \in Refreshes : \A r \in Requests :
          flight'[w][r].ver = 0 \/ flight'[w][r].ver = flight[w][r].ver) => Past'
  <2>1. world.ver \in Nat
    BY DEF MonitorInv, TypeOK, Versions
  <2> QED
    BY <1>1, <2>1 DEF MonitorInv, Past
<1>4. CASE ScheduleRefresh
  <2>1. /\ flight' = [w \in Refreshes |-> IF w = Fresh THEN AllSent
                                          ELSE IF w \in Workers THEN AllIdle ELSE flight[w]]
        /\ beside' = (beside \ Workers) \cup Company(Fresh, {Key})
    BY <1>4 DEF ScheduleRefresh
  <2>2. flight' \in [Refreshes -> [Requests -> Flight]] /\ beside' \subseteq Refreshes
    BY <1>2, <1>3, <2>1 DEF Company, Refreshes
  <2>3. /\ \A r \in Requests : flight'[Fresh][r].st = "sent" /\ flight'[Key][r] = flight[Key][r]
        /\ \A w \in Workers \ {Fresh} : \A r \in Requests : flight'[w][r].st = "idle"
    BY <1>2, <1>3, <2>1 DEF Refreshes
  <2>4. /\ Busy(Key)' <=> Busy(Key)
        /\ \A w \in Workers \ {Fresh} : ~Busy(w)'
    BY <2>3 DEF Busy
  <2>5. Busy(Key) => Fresh \in beside' /\ Key \in beside'
    BY <2>1 DEF Company
  <2>6. Key \notin beside' => Key \notin beside
    BY <1>2, <2>1
  <2>7. Alone'
    <3> SUFFICES ASSUME NEW w \in Refreshes, w \notin beside', Busy(w)',
                        NEW o \in Refreshes, o # w, Busy(o)'
                 PROVE  FALSE
      BY DEF Alone
    <3> QED
      BY <2>4, <2>5 DEF Refreshes
  <2>8. Ahead'
    <3>1. ASSUME NEW w \in Refreshes, w \notin beside', NEW r \in Requests, flight'[w][r].st = "back"
          PROVE  w = Key /\ w \notin beside /\ flight'[w][r] = flight[w][r]
      BY <2>3, <2>6, <3>1 DEF Refreshes
    <3> QED
      BY <1>1, <3>1 DEF MonitorInv, Ahead, Requests
  <2>9. Past'
    BY <1>2, <1>3, <1>6, <2>1
  <2> QED
    BY <1>1, <2>2, <2>7, <2>8, <2>9 DEF MonitorInv, TypeOK, TableMatches, FilterVisible, Pending
<1>5. CASE ActionRefresh
  <2>1. /\ ~Busy(Key) /\ flight' = [flight EXCEPT ![Key] = AllSent]
        /\ beside' = (beside \ {Key}) \cup Company(Key, Workers)
    BY <1>5 DEF ActionRefresh
  <2>2. flight' \in [Refreshes -> [Requests -> Flight]] /\ beside' \subseteq Refreshes
    BY <1>2, <1>3, <2>1 DEF Company, Refreshes
  <2>3. /\ \A r \in Requests : flight'[Key][r].st = "sent"
        /\ \A w \in Workers : flight'[w] = flight[w]
    BY <1>2, <1>3, <2>1 DEF Refreshes
  <2>4. \A w \in Workers : Busy(w)' <=> Busy(w)
    BY <2>3 DEF Busy
  <2>5. \A w \in Workers : Busy(w) => w \in beside' /\ Key \in beside'
    BY <2>1 DEF Company
  <2>6. \A w \in Workers : w \notin beside' => w \notin beside
    BY <1>2, <2>1
  <2>7. Alone'
    <3> SUFFICES ASSUME NEW w \in Refreshes, w \notin beside', Busy(w)',
                        NEW o \in Refreshes, o # w, Busy(o)'
                 PROVE  FALSE
      BY DEF Alone
    <3> QED
      BY <2>4, <2>5 DEF Refreshes
  <2>8. Ahead'
    <3>1. ASSUME NEW w \in Refreshes, w \notin beside', NEW r \in Requests, flight'[w][r].st = "back"
          PROVE  w \notin beside /\ flight'[w][r] = flight[w][r]
      BY <2>3, <2>6, <3>1 DEF Refreshes
    <3> QED
      BY <1>1, <3>1 DEF MonitorInv, Ahead, Requests
  <2>9. Past'
    BY <1>2, <1>3, <1>6, <2>1
  <2> QED
    BY <1>1, <2>2, <2>7, <2>8, <2>9 DEF MonitorInv, TypeOK, TableMatches, FilterVisible, Pending
<1> QED
  BY <1>4, <1>5

\* An answer comes, of the present or of nothing.
LEMMA ReturnInv ==
  ASSUME MonitorInv, NEW w \in Refreshes, NEW r \in Requests, Serve(w, r) \/ Fail(w, r)
  PROVE  MonitorInv'
<1>1. PICK answer \in {Answer(r), None} : Return(w, r, answer)
  BY DEF Serve, Fail
<1>2. /\ flight[w][r] = Sent /\ flight' = [flight EXCEPT ![w][r] = answer]
      /\ UNCHANGED <<world, data, shown, bar, filter, field, hidden, changes, beside>>
  BY <1>1 DEF Return, display, inputs
<1>3. /\ flight \in [Refreshes -> [Requests -> Flight]]
      /\ world \in [ver : Versions, rows : [Tables -> SUBSET Kinds]]
  BY DEF MonitorInv, TypeOK
<1>4. answer \in Flight /\ answer.st = "back" /\ (answer = None \/ answer.ver = world.ver)
  <2>1. Answer(r) \in [st : {"back"}, ver : Versions, rows : SUBSET Kinds]
    BY <1>3 DEF Answer
  <2> QED
    BY <1>1, <2>1, AtRest DEF Answer, Flight
<1>5. /\ flight' \in [Refreshes -> [Requests -> Flight]] /\ flight'[w][r] = answer
      /\ \A o \in Refreshes, x \in Requests : o # w \/ x # r => flight'[o][x] = flight[o][x]
  BY <1>2, <1>3, <1>4
<1>6. \A o \in Refreshes : Busy(o)' <=> Busy(o)
  <2>1. Busy(w)' /\ Busy(w)
    BY <1>2, <1>4, <1>5, AtRest DEF Busy
  <2>2. \A o \in Refreshes \ {w} : Busy(o)' <=> Busy(o)
    BY <1>5 DEF Busy
  <2> QED
    BY <2>1, <2>2
<1>7. Alone'
  BY <1>2, <1>6 DEF MonitorInv, Alone
<1>8. Ahead'
  <2>1. ASSUME NEW o \in Refreshes, o \notin beside, NEW t \in Tables, flight'[o][t].st = "back"
        PROVE  flight'[o][t].rows = {} \/ flight'[o][t].ver >= data[t].ver
    <3>1. t \in Requests
      BY DEF Requests
    <3>2. CASE o = w /\ t = r
      <4>1. world.ver >= data[t].ver
        <5>1. data[t].ver <= world.ver /\ data[t].ver \in Nat /\ world.ver \in Nat
          BY <1>3 DEF MonitorInv, TypeOK, Past, NoRows, Versions
        <5> QED
          BY <5>1
      <4> QED
        BY <1>4, <1>5, <3>2, <4>1, AtRest
    <3>3. CASE o # w \/ t # r
      BY <1>5, <2>1, <3>1, <3>3 DEF MonitorInv, Ahead
    <3> QED
      BY <3>2, <3>3
  <2>2. ASSUME NEW o \in Refreshes, o \notin beside, NEW s \in Sources, flight'[o][s].st = "back"
        PROVE  flight'[o][s].ver = 0 \/ flight'[o][s].ver >= bar[s]
    <3>1. s \in Requests
      BY DEF Requests
    <3>2. CASE o = w /\ s = r
      <4>1. world.ver >= bar[s]
        <5>1. bar[s] <= world.ver /\ bar[s] \in Nat /\ world.ver \in Nat
          BY <1>3 DEF MonitorInv, TypeOK, Past, Versions
        <5> QED
          BY <5>1
      <4> QED
        BY <1>4, <1>5, <3>2, <4>1, AtRest
    <3>3. CASE o # w \/ s # r
      BY <1>5, <2>2, <3>1, <3>3 DEF MonitorInv, Ahead
    <3> QED
      BY <3>2, <3>3
  <2> QED
    BY <1>2, <2>1, <2>2 DEF Ahead
<1>9. Past'
  <2>1. answer.ver <= world.ver
    BY <1>3, <1>4, AtRest DEF Versions
  <2>2. \A o \in Refreshes, x \in Requests : flight'[o][x].ver <= world.ver
    BY <1>5, <2>1 DEF MonitorInv, Past
  <2> QED
    BY <1>2, <2>2 DEF MonitorInv, Past
<1> QED
  BY <1>2, <1>5, <1>7, <1>8, <1>9 DEF MonitorInv, TypeOK, TableMatches, FilterVisible, Pending

\* A refresh with an answer that it has not used yet: if it has kept no company, no other
\* has requests under way.
LEMMA OnlyOne ==
  ASSUME MonitorInv, NEW w \in Refreshes, NEW r \in Requests, flight[w][r].st = "back",
         NEW o \in Refreshes \ beside, o # w
  PROVE  \A x \in Requests : flight[o][x].st = "idle"
<1>1. Busy(w)
  BY DEF Busy
<1>2. ~Busy(o)
  BY <1>1 DEF MonitorInv, Alone
<1> QED
  BY <1>2 DEF Busy

LEMMA RefreshTableInv ==
  ASSUME MonitorInv, NEW w \in Refreshes, NEW t \in Tables, RefreshTable(w, t)
  PROVE  MonitorInv'
<1> DEFINE f == flight[w][t]
           kept == IF f.rows = {} THEN NoRows ELSE [ver |-> f.ver, rows |-> f.rows]
<1>1. /\ f.st = "back" /\ data' = [data EXCEPT ![t] = kept]
      /\ shown' = [shown EXCEPT ![t] = Matching(f.rows, filter[t])]
      /\ flight' = [flight EXCEPT ![w][t] = Idle]
      /\ UNCHANGED <<world, bar, filter, field, hidden, changes, beside>>
  BY DEF RefreshTable, inputs
<1>2. /\ flight \in [Refreshes -> [Requests -> Flight]] /\ t \in Requests
      /\ data \in [Tables -> {NoRows} \cup [ver : Versions, rows : (SUBSET Kinds) \ {{}}]]
      /\ shown \in [Tables -> SUBSET Kinds] /\ Idle \in Flight /\ Idle.st = "idle"
  BY AtRest DEF MonitorInv, TypeOK, Requests
<1>3. f \in Flight /\ f.rows \in SUBSET Kinds /\ (f.rows # {} => f.ver \in Versions)
  BY <1>2, FlightIs
<1>4. kept \in {NoRows} \cup [ver : Versions, rows : (SUBSET Kinds) \ {{}}] /\ kept.rows = f.rows
  BY <1>3 DEF NoRows
<1>5. Matching(f.rows, filter[t]) \in SUBSET Kinds
  BY <1>3, MatchingIs
<1>6. /\ flight' \in [Refreshes -> [Requests -> Flight]] /\ flight'[w][t] = Idle
      /\ \A o \in Refreshes, x \in Requests : o # w \/ x # t => flight'[o][x] = flight[o][x]
  BY <1>1, <1>2
<1>7. /\ data' \in [Tables -> {NoRows} \cup [ver : Versions, rows : (SUBSET Kinds) \ {{}}]]
      /\ shown' \in [Tables -> SUBSET Kinds]
      /\ data'[t] = kept /\ shown'[t] = Matching(f.rows, filter[t])
      /\ \A x \in Tables \ {t} : data'[x] = data[x] /\ shown'[x] = shown[x]
  BY <1>1, <1>2, <1>4, <1>5
<1> HIDE DEF kept
<1>8. TableMatches'
  BY <1>1, <1>4, <1>7 DEF MonitorInv, TableMatches
<1>9. \A o \in Refreshes : Busy(o)' => Busy(o)
  BY <1>2, <1>6 DEF Busy
<1>10. Alone'
  BY <1>1, <1>9 DEF MonitorInv, Alone
<1>11. Past'
  <2>1. f.ver <= world.ver /\ world.ver \in Nat
    BY <1>2 DEF MonitorInv, Past, TypeOK, Versions
  <2>2. kept.ver <= world.ver
    BY <2>1 DEF kept, NoRows
  <2>3. \A o \in Refreshes, x \in Requests : flight'[o][x].ver <= world.ver
    BY <1>6, <2>1, AtRest DEF MonitorInv, Past
  <2> QED
    BY <1>1, <1>7, <2>2, <2>3 DEF MonitorInv, Past
<1>12. Ahead'
  <2>1. ASSUME NEW o \in Refreshes, o \notin beside, NEW x \in Requests, flight'[o][x].st = "back"
        PROVE  o = w /\ x # t /\ flight'[o][x] = flight[o][x]
    <3>1. o = w
      BY <1>1, <1>2, <1>6, <2>1, OnlyOne
    <3> QED
      BY <1>2, <1>6, <2>1, <3>1
  <2> QED
    BY <1>1, <1>7, <2>1 DEF MonitorInv, Ahead, Requests
<1> QED
  BY <1>1, <1>6, <1>7, <1>8, <1>10, <1>11, <1>12
     DEF MonitorInv, TypeOK, FilterVisible, Pending

LEMMA SummaryInv ==
  ASSUME MonitorInv, NEW w \in Refreshes, RefreshSummary(w)
  PROVE  MonitorInv'
<1>1. /\ \A s \in Sources : flight[w][s].st = "back"
      /\ bar' = [s \in Sources |-> flight[w][s].ver]
      /\ flight' = [flight EXCEPT ![w] = [r \in Requests |-> IF r \in Sources THEN Idle
                                                               ELSE flight[w][r]]]
      /\ UNCHANGED <<world, data, shown, filter, field, hidden, changes, beside>>
  BY DEF RefreshSummary, FormatSummary, Summarised, inputs
<1>2. /\ flight \in [Refreshes -> [Requests -> Flight]] /\ Sources \subseteq Requests
      /\ Idle \in Flight /\ Idle.st = "idle" /\ Idle.ver = 0
      /\ world.ver \in Nat /\ \A s \in Sources : s \notin Tables
  <2>1. flight \in [Refreshes -> [Requests -> Flight]] /\ world.ver \in Nat
    BY DEF MonitorInv, TypeOK, Versions
  <2>2. Sources \subseteq Requests /\ \A s \in Sources : s \notin Tables
    BY MonitorAssumption DEF Requests
  <2> QED
    BY <2>1, <2>2, AtRest
<1>3. \A s \in Sources : flight[w][s].ver \in 0..MaxVersion
  BY <1>2, FlightIs
<1>4. /\ flight' \in [Refreshes -> [Requests -> Flight]]
      /\ \A s \in Sources : flight'[w][s] = Idle
      /\ \A o \in Refreshes, x \in Requests : o # w \/ x \notin Sources => flight'[o][x] = flight[o][x]
  BY <1>1, <1>2
<1>5. bar' \in [Sources -> 0..MaxVersion] /\ \A s \in Sources : bar'[s] = flight[w][s].ver
  BY <1>1, <1>3
<1>6. \A o \in Refreshes : Busy(o)' => Busy(o)
  <2> SUFFICES ASSUME NEW o \in Refreshes, NEW x \in Requests, flight'[o][x].st # "idle"
               PROVE  flight[o][x].st # "idle"
    BY DEF Busy
  <2> QED
    BY <1>2, <1>4
<1>7. Alone'
  BY <1>1, <1>6 DEF MonitorInv, Alone
<1>8. Past'
  <2>1. \A o \in Refreshes, x \in Requests : flight'[o][x].ver <= world.ver
    BY <1>2, <1>4 DEF MonitorInv, Past
  <2>2. \A s \in Sources : bar'[s] <= world.ver
    BY <1>2, <1>5 DEF MonitorInv, Past
  <2> QED
    BY <1>1, <2>1, <2>2 DEF MonitorInv, Past
<1>9. Ahead'
  <2>1. ASSUME NEW o \in Refreshes, o \notin beside, NEW x \in Requests, flight'[o][x].st = "back"
        PROVE  x \notin Sources \/ bar' = bar
    BY <1>1, <1>2, <1>4, <2>1, OnlyOne
  <2>2. ASSUME NEW o \in Refreshes, o \notin beside, NEW x \in Requests, flight'[o][x].st = "back"
        PROVE  flight'[o][x] = flight[o][x]
    BY <1>2, <1>4, <2>2
  <2> QED
    BY <1>1, <1>2, <2>1, <2>2 DEF MonitorInv, Ahead, Requests
<1> QED
  BY <1>1, <1>4, <1>5, <1>7, <1>8, <1>9
     DEF MonitorInv, TypeOK, TableMatches, FilterVisible, Pending

LEMMA MonitorStepInv == MonitorInv /\ [Next]_vars => MonitorInv'
<1> SUFFICES ASSUME MonitorInv, [Next]_vars PROVE MonitorInv'
  OBVIOUS
<1>1. CASE Next
  BY <1>1, MoveInv, UserInv, BeginInv, ReturnInv, RefreshTableInv, SummaryInv DEF Next, Step
<1>2. CASE UNCHANGED vars
  BY <1>2 DEF vars, display, inputs, MonitorInv, TypeOK, TableMatches, FilterVisible, Pending,
              Alone, Past, Ahead, Busy
<1> QED
  BY <1>1, <1>2

LEMMA MonitorInvariant == Spec => []MonitorInv
BY MonitorInitInv, MonitorStepInv, PTL DEF Spec

\* The tables, filters and answers of the dashboard stay what they are meant to be.
THEOREM MonitorTypeCorrect == Spec => []TypeOK
<1>1. MonitorInv => TypeOK
  BY DEF MonitorInv
<1> QED
  BY <1>1, MonitorInvariant, PTL

\* A table shows the cached rows that match its filter, whichever handler wrote last.
THEOREM MatchesFilter == Spec => []TableMatches
<1>1. MonitorInv => TableMatches
  BY DEF MonitorInv
<1> QED
  BY <1>1, MonitorInvariant, PTL

\* An input without messages on their way agrees with the filter, and a hidden one is empty.
THEOREM FilterIsVisible == Spec => []FilterVisible
<1>1. MonitorInv => FilterVisible
  BY DEF MonitorInv
<1> QED
  BY <1>1, MonitorInvariant, PTL

\* A refresh that has kept no company shows nothing that is older than what was there.
THEOREM StaysCurrent == Spec => NeverBackward
<1>1. MonitorInv /\ [Next]_vars =>
        [\A w \in Refreshes \ beside :
           /\ \A t \in Tables :
                RefreshTable(w, t) => data'[t] = NoRows \/ data'[t].ver >= data[t].ver
           /\ RefreshSummary(w) => \A s \in Sources : bar'[s] = 0 \/ bar'[s] >= bar[s]]_vars
  <2> SUFFICES ASSUME MonitorInv, NEW w \in Refreshes \ beside
               PROVE  /\ \A t \in Tables : RefreshTable(w, t) =>
                           data'[t] = NoRows \/ data'[t].ver >= data[t].ver
                      /\ RefreshSummary(w) =>
                           \A s \in Sources : bar'[s] = 0 \/ bar'[s] >= bar[s]
    OBVIOUS
  <2>1. ASSUME NEW t \in Tables, RefreshTable(w, t)
        PROVE  data'[t] = NoRows \/ data'[t].ver >= data[t].ver
    <3> DEFINE f == flight[w][t]
               kept == IF f.rows = {} THEN NoRows ELSE [ver |-> f.ver, rows |-> f.rows]
    <3>1. f.st = "back" /\ data' = [data EXCEPT ![t] = kept] /\ t \in DOMAIN data
      BY <2>1 DEF RefreshTable, MonitorInv, TypeOK
    <3>2. f.rows = {} \/ f.ver >= data[t].ver
      BY <3>1 DEF MonitorInv, Ahead
    <3>3. data'[t] = kept
      BY <3>1
    <3> QED
      BY <3>2, <3>3
  <2>2. ASSUME RefreshSummary(w), NEW s \in Sources
        PROVE  bar'[s] = 0 \/ bar'[s] >= bar[s]
    <3>1. flight[w][s].st = "back" /\ bar'[s] = flight[w][s].ver
      BY <2>2 DEF RefreshSummary, FormatSummary
    <3> QED
      BY <3>1 DEF MonitorInv, Ahead
  <2> QED
    BY <2>1, <2>2
<1> QED
  BY <1>1, MonitorInvariant, PTL DEF Spec, NeverBackward
--------------------------------------------------------------------------------
(***************************************************************************)
(* The detail screens.  What keeps them right is said of each screen by    *)
(* itself: it has one worker at most; a load under way is the last one     *)
(* that was begun, and nothing that is shown is as recent, but for the     *)
(* metadata of a job whose events are awaited; a screen that waits for no  *)
(* load, and lost none to a look-up, shows its last one.  Of the screens   *)
(* together it says that a look-up is only under way on top.               *)
(***************************************************************************)
Trees == [parent : {"none", "listed", "not loaded"}, siblings : SUBSET Ids, below : SUBSET Ids]

Works == [no : 1..MaxLoads, at : {"asked", "events", "task"}]

Records ==
  [kind : {"job", "task"}, id : Ids \cup Jobs, loads : 0..MaxLoads, looks : 0..MaxLoads,
   work : SUBSET Works, meta : 0..MaxLoads, known : BOOLEAN, rest : 0..MaxLoads,
   dag : {"loading", "unavailable", "drawn"}, tasks : SUBSET Ids, tree : Trees,
   rows : SUBSET Jobs, cut : BOOLEAN]

LookingUp(s) == \E w \in s.work : w.at = "task"

OneWorker(s) ==
  /\ \A v, w \in s.work : v = w
  /\ \A w \in s.work :
       \/ w.at = "asked" /\ w.no = s.loads /\ s.meta < s.loads /\ s.rest < s.loads
       \/ w.at = "events" /\ s.kind = "job" /\ w.no = s.loads /\ s.meta = s.loads
       \/ w.at = "task" /\ s.kind = "job"

ShowsLast(s) ==
  /\ s.meta <= s.loads /\ s.rest <= s.loads /\ s.loads >= 1
  /\ ~s.cut /\ (\A w \in s.work : w.at = "task") =>
       s.meta = s.loads /\ (s.kind = "job" => s.rest = s.meta)

OfKind(s) ==
  /\ s.kind = "task" => /\ s.id \in Ids /\ s.rest <= s.meta
                        /\ (s.known <=> s.rest = s.meta /\ s.meta > 0)
  /\ s.kind = "job" => s.id \in Jobs /\ s.rows = {}

Drawn(s) == s.dag = "drawn" => s.tree = Dag(s.tasks, s.id)

Sound(s) == s \in Records /\ OneWorker(s) /\ ShowsLast(s) /\ OfKind(s) /\ Drawn(s)

AllSound(stack) ==
  /\ stack \in Seq(Records) /\ Len(stack) <= MaxScreens
  /\ \A i \in 1..Len(stack) :
       Sound(stack[i]) /\ (LookingUp(stack[i]) => i = Len(stack))

DetailInv == AllSound(screens)

\* The tree of a list is made of tasks.
LEMMA DagType ==
  ASSUME NEW list \in SUBSET Ids, NEW id
  PROVE  Dag(list, id) \in Trees
<1>1. \A x : Children(list, x) \in SUBSET Ids
  BY DEF Children
<1>2. Roots(list) \in SUBSET Ids
  BY DEF Roots
<1>3. Siblings(list, id) \in SUBSET Ids
  BY <1>1, <1>2 DEF Siblings
<1> QED
  BY <1>1, <1>3 DEF Dag, Trees

\* Every task of a list has one place in its tree: it is a root, or the child of one of
\* the others.
LEMMA OnePlace ==
  ASSUME NEW list, NEW t \in list
  PROVE  (t \in Roots(list)) # (\E p \in list : t \in Children(list, p))
<1>1. (\E p \in list : t \in Children(list, p)) <=> ~IsTop(t) /\ Parent(t) \in list
  BY DEF Children
<1>2. t \in Roots(list) <=> IsTop(t) \/ Parent(t) \notin list
  BY DEF Roots
<1> QED
  BY <1>1, <1>2

\* The task whose tree it is, if it is listed, is one of its own siblings.
LEMMA IsListed ==
  ASSUME NEW list, NEW id \in list
  PROVE  id \in Dag(list, id).siblings /\ Dag(list, id).below = Children(list, id)
<1>1. id \in Siblings(list, id)
  <2>1. CASE ~IsTop(id) /\ Parent(id) \in list
    BY <2>1 DEF Siblings, Children
  <2>2. CASE ~(~IsTop(id) /\ Parent(id) \in list)
    BY <2>2 DEF Siblings, Roots
  <2> QED
    BY <2>1, <2>2
<1> QED
  BY <1>1 DEF Dag

LEMMA FirstSound ==
  ASSUME NEW kind \in {"job", "task"}, NEW id, kind = "job" => id \in Jobs,
         kind = "task" => id \in Ids
  PROVE  Sound(Screen(kind, id)) /\ ~LookingUp(Screen(kind, id))
<1> DEFINE s == Screen(kind, id)
<1>1. /\ s.kind = kind /\ s.id = id /\ s.loads = 1 /\ s.meta = 0 /\ s.rest = 0
      /\ s.work = {Worker(1, "asked")} /\ s.known = FALSE /\ s.dag = "loading" /\ s.rows = {}
      /\ s.cut = FALSE
  BY DEF Screen
<1>2. Worker(1, "asked") \in Works /\ Worker(1, "asked").at = "asked"
        /\ Worker(1, "asked").no = 1 /\ 1 \in 0..MaxLoads /\ 0 \in 0..MaxLoads
  BY DetailAssumption DEF Worker, Works
<1>3. Blank \in Trees
  BY DEF Blank, Trees
<1>4. id \in Ids \cup Jobs
  OBVIOUS
<1>5. s \in Records
  BY <1>2, <1>3, <1>4 DEF Screen, Records
<1> HIDE DEF s
<1>6. OneWorker(s) /\ ~LookingUp(s)
  BY <1>1, <1>2 DEF OneWorker, LookingUp
<1>7. ShowsLast(s) /\ OfKind(s) /\ Drawn(s)
  BY <1>1, <1>2 DEF ShowsLast, OfKind, Drawn
<1> QED
  BY <1>5, <1>6, <1>7 DEF Sound, s

--------------------------------------------------------------------------------
\* The stack of screens: one is changed, one is put on top, the last is removed.
LEMMA ChangeOne ==
  ASSUME NEW stack, AllSound(stack), NEW i \in 1..Len(stack), NEW s, Sound(s),
         LookingUp(s) => i = Len(stack)
  PROVE  AllSound([stack EXCEPT ![i] = s])
<1> DEFINE new == [stack EXCEPT ![i] = s]
<1>1. stack \in Seq(Records) /\ s \in Records /\ Len(stack) \in Nat
  BY DEF AllSound, Sound
<1>2. /\ new \in Seq(Records) /\ Len(new) = Len(stack) /\ new[i] = s
      /\ \A k \in 1..Len(stack) : k # i => new[k] = stack[k]
  BY <1>1
<1> HIDE DEF new
<1>3. AllSound(new)
  BY <1>1, <1>2 DEF AllSound
<1> QED
  BY <1>3 DEF new

LEMMA PutOnTop ==
  ASSUME NEW stack, AllSound(stack), Len(stack) < MaxScreens,
         \A i \in 1..Len(stack) : ~LookingUp(stack[i]), NEW s, Sound(s)
  PROVE  AllSound(Append(stack, s))
<1> DEFINE new == Append(stack, s)
<1>1. stack \in Seq(Records) /\ s \in Records /\ Len(stack) \in Nat /\ MaxScreens \in Nat
  BY DetailAssumption DEF AllSound, Sound
<1>2. /\ new \in Seq(Records) /\ Len(new) = Len(stack) + 1 /\ new[Len(stack) + 1] = s
      /\ \A k \in 1..Len(stack) : new[k] = stack[k]
  BY <1>1
<1> HIDE DEF new
<1>3. Len(new) <= MaxScreens
  BY <1>1, <1>2
<1>4. ASSUME NEW i \in 1..Len(new)
      PROVE  Sound(new[i]) /\ (LookingUp(new[i]) => i = Len(new))
  <2>1. CASE i = Len(stack) + 1
    BY <1>2, <2>1
  <2>2. CASE i # Len(stack) + 1
    <3>1. i \in 1..Len(stack)
      BY <1>1, <1>2, <2>2
    <3> QED
      BY <1>2, <3>1 DEF AllSound
  <2> QED
    BY <2>1, <2>2
<1>5. AllSound(new)
  BY <1>2, <1>3, <1>4 DEF AllSound
<1> QED
  BY <1>5 DEF new

LEMMA Removed ==
  ASSUME NEW stack, AllSound(stack), Len(stack) > 0
  PROVE  AllSound(SubSeq(stack, 1, Len(stack) - 1))
<1> DEFINE new == SubSeq(stack, 1, Len(stack) - 1)
<1>1. stack \in Seq(Records) /\ Len(stack) \in Nat /\ MaxScreens \in Nat
  BY DetailAssumption DEF AllSound
<1>2. /\ new \in Seq(Records) /\ Len(new) = Len(stack) - 1
      /\ \A k \in 1..(Len(stack) - 1) : new[k] = stack[k]
  <2>1. 1 \in Int /\ Len(stack) - 1 \in Int /\ \A k \in 1..(Len(stack) - 1) : stack[k] \in Records
    BY <1>1
  <2>2. /\ new \in Seq(Records)
        /\ Len(new) = IF 1 <= Len(stack) - 1 THEN Len(stack) - 1 - 1 + 1 ELSE 0
        /\ \A k \in 1..(Len(stack) - 1 - 1 + 1) : new[k] = stack[1 + k - 1]
    BY <2>1, SubSeqProperties
  <2> HIDE DEF new
  <2>3. Len(new) = Len(stack) - 1
    <3>1. \A n \in Nat : n > 0 => (IF 1 <= n - 1 THEN n - 1 - 1 + 1 ELSE 0) = n - 1
      OBVIOUS
    <3>2. Len(new) = IF 1 <= Len(stack) - 1 THEN Len(stack) - 1 - 1 + 1 ELSE 0
      BY <2>2
    <3> QED
      BY <1>1, <3>1, <3>2
  <2>4. ASSUME NEW k \in 1..(Len(stack) - 1) PROVE new[k] = stack[k]
    <3>1. k \in 1..(Len(stack) - 1 - 1 + 1) /\ 1 + k - 1 = k
      BY <1>1
    <3> QED
      BY <2>2, <3>1
  <2> QED
    BY <2>2, <2>3, <2>4
<1> HIDE DEF new
<1>3. ASSUME NEW i \in 1..Len(new)
      PROVE  Sound(new[i]) /\ (LookingUp(new[i]) => i = Len(new))
  <2>1. i \in 1..Len(stack) /\ i # Len(stack) /\ i \in 1..(Len(stack) - 1)
    BY <1>1, <1>2
  <2> QED
    BY <1>2, <2>1 DEF AllSound
<1>4. AllSound(new)
  BY <1>1, <1>2, <1>3 DEF AllSound
<1> QED
  BY <1>4 DEF new

\* The screen on top, when it has a task or none at all, and nothing looks up: so does none.
LEMMA NobodyLooks ==
  ASSUME DetailInv, Top > 0 => ~LookingUp(screens[Top])
  PROVE  \A i \in 1..Top : ~LookingUp(screens[i])
BY DEF DetailInv, AllSound, Top
--------------------------------------------------------------------------------
LEMMA OpenInv == ASSUME DetailInv, OpenJob \/ OpenTask PROVE DetailInv'
<1>1. Len(screens) = 0 /\ Len(screens) < MaxScreens
  BY DEF OpenJob, OpenTask, Top, Room
<1>2. PICK kind \in {"job", "task"} : \E id :
        /\ (kind = "job" => id \in Jobs) /\ (kind = "task" => id \in Ids)
        /\ screens' = Append(screens, Screen(kind, id))
  <2>1. CASE OpenJob
    BY <2>1 DEF OpenJob, Push
  <2>2. CASE OpenTask
    BY <2>2 DEF OpenTask, Push
  <2> QED
    BY <2>1, <2>2
<1>3. PICK id : /\ (kind = "job" => id \in Jobs) /\ (kind = "task" => id \in Ids)
                /\ screens' = Append(screens, Screen(kind, id))
  BY <1>2
<1>4. Sound(Screen(kind, id))
  BY <1>3, FirstSound
<1>5. \A i \in 1..Len(screens) : ~LookingUp(screens[i])
  BY <1>1
<1>6. AllSound(screens)
  BY DEF DetailInv
<1> QED
  BY <1>1, <1>3, <1>4, <1>5, <1>6, PutOnTop DEF DetailInv

LEMMA GoParentInv == ASSUME DetailInv, GoParent PROVE DetailInv'
<1> DEFINE s == screens[Top]
<1>1. /\ Top > 0 /\ Top < MaxScreens /\ s.kind = "task" /\ ~IsTop(s.id)
      /\ screens' = Append(screens, Screen("task", Parent(s.id)))
  BY DEF GoParent, Room, Push
<1>2. Top \in Nat /\ Sound(s)
  BY <1>1 DEF DetailInv, AllSound, Top
<1>3. Parent(s.id) \in Ids
  BY <1>1, <1>2, DetailAssumption DEF Sound, OfKind
<1>4. ~LookingUp(s)
  BY <1>1, <1>2 DEF Sound, OneWorker, LookingUp
<1>5. \A i \in 1..Top : ~LookingUp(screens[i])
  BY <1>4, NobodyLooks
<1>6. Sound(Screen("task", Parent(s.id)))
  BY <1>3, FirstSound
<1> QED
  BY <1>1, <1>5, <1>6, PutOnTop DEF DetailInv, Top

LEMMA SelectJobInv == ASSUME DetailInv, SelectJob PROVE DetailInv'
<1> DEFINE s == screens[Top]
<1>1. Top > 0 /\ Top < MaxScreens
  BY DEF SelectJob, Room
<1>2. PICK j \in s.rows : screens' = Append(screens, Screen("job", j))
  BY DEF SelectJob, Push
<1>3. Top \in Nat /\ Sound(s)
  BY <1>1 DEF DetailInv, AllSound, Top
<1>4. j \in Jobs /\ s.kind = "task"
  BY <1>2, <1>3 DEF Sound, OfKind, Records
<1>5. ~LookingUp(s)
  BY <1>3, <1>4 DEF Sound, OneWorker, LookingUp
<1>6. \A i \in 1..Top : ~LookingUp(screens[i])
  BY <1>5, NobodyLooks
<1>7. Sound(Screen("job", j))
  BY <1>4, FirstSound
<1> QED
  BY <1>1, <1>2, <1>6, <1>7, PutOnTop DEF DetailInv, Top

LEMMA DismissInv == ASSUME DetailInv, Dismiss PROVE DetailInv'
BY Removed DEF Dismiss, DetailInv, Top

\* A load or a look-up begins, and cancels what was running.
LEMMA RefreshDetailInv == ASSUME DetailInv, RefreshDetail PROVE DetailInv'
<1> DEFINE s == screens[Top]
           n == s.loads + 1
           new == [s EXCEPT !.loads = n, !.work = {Worker(n, "asked")}]
<1>1. Top > 0 /\ s.loads < MaxLoads
  BY DEF RefreshDetail
<1>2. Top \in Nat /\ Sound(s) /\ s \in Records
  BY <1>1 DEF DetailInv, AllSound, Top, Sound
<1>3. screens' = [screens EXCEPT ![Top] = new]
  BY DEF RefreshDetail
<1>4. n \in 1..MaxLoads /\ n \in 0..MaxLoads
  BY <1>1, <1>2, DetailAssumption DEF Records
<1> DEFINE work == {Worker(n, "asked")}
<1>5. work \in SUBSET Works /\ \A w \in work : w.at = "asked" /\ w.no = n
  BY <1>4 DEF Works, Worker
<1>6. /\ new \in Records /\ new.loads = n /\ new.work = work
      /\ new.kind = s.kind /\ new.id = s.id /\ new.meta = s.meta /\ new.rest = s.rest
      /\ new.known = s.known /\ new.dag = s.dag /\ new.tasks = s.tasks /\ new.tree = s.tree
      /\ new.rows = s.rows /\ new.cut = s.cut
  BY <1>2, <1>4, <1>5 DEF Records
<1>7. s.meta \in Nat /\ s.rest \in Nat /\ s.loads \in Nat /\ s.meta <= s.loads /\ s.rest <= s.loads
  BY <1>2 DEF Records, Sound, ShowsLast
<1> HIDE DEF new
<1>8. OneWorker(new) /\ ~LookingUp(new)
  <2>1. \A v, w \in work : v = w
    OBVIOUS
  <2> QED
    BY <1>5, <1>6, <1>7, <2>1 DEF OneWorker, LookingUp
<1>9. ShowsLast(new)
  <2>1. Worker(n, "asked") \in new.work /\ Worker(n, "asked").at # "task"
    BY <1>6 DEF Worker
  <2> QED
    BY <1>6, <1>7, <2>1 DEF ShowsLast
<1>10. OfKind(new) /\ Drawn(new)
  BY <1>2, <1>6 DEF Sound, OfKind, Drawn
<1>11. Sound(new)
  BY <1>6, <1>8, <1>9, <1>10 DEF Sound
<1>12. Top \in 1..Len(screens) /\ Top = Len(screens)
  BY <1>1, <1>2 DEF Top
<1>13. AllSound([screens EXCEPT ![Top] = new])
  BY <1>11, <1>12, ChangeOne DEF DetailInv
<1> QED
  BY <1>3, <1>13 DEF DetailInv

LEMMA GoTaskInv == ASSUME DetailInv, GoTask PROVE DetailInv'
<1> DEFINE s == screens[Top]
           n == s.looks + 1
           cut == s.cut \/ \E w \in s.work : w.at # "task"
           work == {Worker(n, "task")}
           new == [s EXCEPT !.looks = n, !.work = work, !.cut = cut]
<1>1. Top > 0 /\ s.looks < MaxLoads /\ s.kind = "job"
  BY DEF GoTask
<1>2. Top \in Nat /\ Sound(s) /\ s \in Records
  BY <1>1 DEF DetailInv, AllSound, Top, Sound
<1>3. screens' = [screens EXCEPT ![Top] = new]
  BY DEF GoTask
<1>4. n \in 1..MaxLoads /\ n \in 0..MaxLoads
  BY <1>1, <1>2, DetailAssumption DEF Records
<1>5. work \in SUBSET Works /\ \A w \in work : w.at = "task"
  BY <1>4 DEF Works, Worker
<1>6. cut \in BOOLEAN
  BY <1>2 DEF Records
<1> HIDE DEF cut
<1>7. /\ new \in Records /\ new.loads = s.loads /\ new.work = work
      /\ new.kind = s.kind /\ new.id = s.id /\ new.meta = s.meta /\ new.rest = s.rest
      /\ new.known = s.known /\ new.dag = s.dag /\ new.tasks = s.tasks /\ new.tree = s.tree
      /\ new.rows = s.rows /\ new.cut = cut
  BY <1>2, <1>4, <1>5, <1>6 DEF Records
<1> HIDE DEF new
<1>8. OneWorker(new)
  <2>1. \A v, w \in work : v = w
    OBVIOUS
  <2> QED
    BY <1>1, <1>5, <1>7, <2>1 DEF OneWorker
<1>9. ShowsLast(new)
  <2>1. ~cut => ~s.cut /\ \A w \in s.work : w.at = "task"
    BY DEF cut
  <2> QED
    BY <1>2, <1>7, <2>1 DEF ShowsLast, Sound
<1>10. OfKind(new) /\ Drawn(new)
  BY <1>2, <1>7 DEF Sound, OfKind, Drawn
<1>11. Sound(new)
  BY <1>7, <1>8, <1>9, <1>10 DEF Sound
<1>12. Top \in 1..Len(screens) /\ Top = Len(screens)
  BY <1>1, <1>2 DEF Top
<1>13. AllSound([screens EXCEPT ![Top] = new])
  BY <1>11, <1>12, ChangeOne DEF DetailInv
<1> QED
  BY <1>3, <1>13 DEF DetailInv

\* A worker that is answered was the only one of its screen.
LEMMA TheWorker ==
  ASSUME DetailInv, NEW i \in 1..Top, NEW w \in screens[i].work
  PROVE  /\ Sound(screens[i]) /\ screens[i] \in Records /\ screens[i].work \ {w} = {}
         /\ w.no \in 1..MaxLoads /\ w.no \in 0..MaxLoads
         /\ w.at = "asked" =>
              w.no = screens[i].loads /\ screens[i].meta < w.no /\ screens[i].rest < w.no
         /\ w.at = "events" => w.no = screens[i].loads /\ w.no = screens[i].meta
<1> DEFINE s == screens[i]
<1>1. Sound(s)
  BY DEF DetailInv, AllSound, Top
<1> HIDE DEF s
<1>2. s \in Records /\ OneWorker(s) /\ w \in s.work
  BY <1>1 DEF Sound, s
<1>3. w \in Works /\ MaxLoads \in Nat
  BY <1>2, DetailAssumption DEF Records
<1>4. w.no \in 1..MaxLoads /\ w.no \in 0..MaxLoads
  BY <1>3 DEF Works
<1>5. s.work \ {w} = {}
  BY <1>2 DEF OneWorker
<1>6. \/ w.at = "asked" /\ w.no = s.loads /\ s.meta < s.loads /\ s.rest < s.loads
      \/ w.at = "events" /\ s.kind = "job" /\ w.no = s.loads /\ s.meta = s.loads
      \/ w.at = "task" /\ s.kind = "job"
  BY <1>2 DEF OneWorker
<1> QED
  BY <1>1, <1>2, <1>4, <1>5, <1>6 DEF s

\* The events of a job are awaited after its metadata: the load goes on.
LEMMA JobAnsweredInv ==
  ASSUME DetailInv, NEW i \in 1..Top, NEW w \in screens[i].work, JobAnswered(i, w)
  PROVE  DetailInv'
<1> DEFINE s == screens[i]
           work == {Worker(w.no, "events")}
<1>1. s.kind = "job" /\ w.at = "asked"
  BY DEF JobAnswered
<1>2. PICK known \in BOOLEAN :
        screens' = [screens EXCEPT ![i] = [s EXCEPT !.meta = w.no, !.known = known,
                                                    !.work = (s.work \ {w}) \cup work]]
  BY DEF JobAnswered
<1> DEFINE new == [s EXCEPT !.meta = w.no, !.known = known, !.work = work]
<1>3. /\ Sound(s) /\ s \in Records /\ s.work \ {w} = {} /\ w.no \in 1..MaxLoads
      /\ w.no \in 0..MaxLoads /\ w.no = s.loads /\ s.meta < w.no /\ s.rest < w.no
  BY <1>1, TheWorker
<1>4. screens' = [screens EXCEPT ![i] = new]
  BY <1>2, <1>3
<1>5. work \in SUBSET Works /\ \A v \in work : v.at = "events" /\ v.no = w.no
  BY <1>3 DEF Works, Worker
<1>6. /\ new \in Records /\ new.loads = s.loads /\ new.work = work
      /\ new.kind = s.kind /\ new.id = s.id /\ new.meta = w.no /\ new.rest = s.rest
      /\ new.known = known /\ new.dag = s.dag /\ new.tasks = s.tasks /\ new.tree = s.tree
      /\ new.rows = s.rows /\ new.cut = s.cut
  BY <1>3, <1>5 DEF Records
<1>7. s.rest \in Nat /\ s.loads \in Nat
  BY <1>3 DEF Records
<1> HIDE DEF new
<1>8. OneWorker(new) /\ ~LookingUp(new)
  <2>1. \A v, u \in work : v = u
    OBVIOUS
  <2> QED
    BY <1>1, <1>3, <1>5, <1>6, <2>1 DEF OneWorker, LookingUp
<1>9. ShowsLast(new)
  <2>1. Worker(w.no, "events") \in new.work /\ Worker(w.no, "events").at # "task"
    BY <1>6 DEF Worker
  <2>2. s.loads >= 1
    BY <1>3
  <2> QED
    BY <1>3, <1>6, <1>7, <2>1, <2>2 DEF ShowsLast
<1>10. OfKind(new) /\ Drawn(new)
  BY <1>1, <1>3, <1>6 DEF Sound, OfKind, Drawn
<1>11. Sound(new)
  BY <1>6, <1>8, <1>9, <1>10 DEF Sound
<1>12. AllSound([screens EXCEPT ![i] = new])
  BY <1>8, <1>11, ChangeOne DEF DetailInv, Top
<1> QED
  BY <1>4, <1>12 DEF DetailInv

LEMMA EventsAnsweredInv ==
  ASSUME DetailInv, NEW i \in 1..Top, NEW w \in screens[i].work, EventsAnswered(i, w)
  PROVE  DetailInv'
<1> DEFINE s == screens[i]
           new == [s EXCEPT !.rest = w.no, !.work = {}]
<1>1. s.kind = "job" /\ w.at = "events"
  BY DEF EventsAnswered
<1>2. screens' = [screens EXCEPT ![i] = [s EXCEPT !.rest = w.no, !.work = s.work \ {w}]]
  BY DEF EventsAnswered
<1>3. /\ Sound(s) /\ s \in Records /\ s.work \ {w} = {} /\ w.no \in 1..MaxLoads
      /\ w.no \in 0..MaxLoads /\ w.no = s.loads /\ s.meta = w.no
  BY <1>1, TheWorker
<1>4. screens' = [screens EXCEPT ![i] = new]
  BY <1>2, <1>3
<1>5. /\ new \in Records /\ new.loads = s.loads /\ new.work = {}
      /\ new.kind = s.kind /\ new.id = s.id /\ new.meta = w.no /\ new.rest = w.no
      /\ new.known = s.known /\ new.dag = s.dag /\ new.tasks = s.tasks /\ new.tree = s.tree
      /\ new.rows = s.rows /\ new.cut = s.cut
  BY <1>3 DEF Records
<1> HIDE DEF new
<1>6. OneWorker(new) /\ ~LookingUp(new)
  BY <1>5 DEF OneWorker, LookingUp
<1>7. ShowsLast(new)
  <2>1. s.loads >= 1 /\ s.loads \in Nat
    BY <1>3 DEF Records
  <2> QED
    BY <1>3, <1>5, <2>1 DEF ShowsLast
<1>8. OfKind(new) /\ Drawn(new)
  BY <1>1, <1>3, <1>5 DEF Sound, OfKind, Drawn
<1>9. Sound(new)
  BY <1>5, <1>6, <1>7, <1>8 DEF Sound
<1>10. AllSound([screens EXCEPT ![i] = new])
  BY <1>6, <1>9, ChangeOne DEF DetailInv, Top
<1> QED
  BY <1>4, <1>10 DEF DetailInv

\* The task's screen comes up over the job's that looked it up.
LEMMA TaskLookedUpInv ==
  ASSUME DetailInv, NEW i \in 1..Top, NEW w \in screens[i].work, TaskLookedUp(i, w)
  PROVE  DetailInv'
<1> DEFINE s == screens[i]
           new == [s EXCEPT !.work = {}]
           idle == [screens EXCEPT ![i] = new]
<1>1. w.at = "task"
  BY DEF TaskLookedUp
<1>2. /\ Sound(s) /\ s \in Records /\ s.work \ {w} = {}
      /\ LookingUp(s) /\ i = Len(screens) /\ s.kind = "job" /\ s.id \in Jobs
  <2>1. Sound(s) /\ s \in Records /\ s.work \ {w} = {}
    BY TheWorker
  <2>2. LookingUp(s)
    BY <1>1 DEF LookingUp
  <2>3. s.kind = "job"
    BY <1>1, <2>1 DEF Sound, OneWorker
  <2>4. s.id \in Jobs
    BY <2>1, <2>3 DEF Sound, OfKind
  <2>5. i = Len(screens)
    BY <2>2 DEF DetailInv, AllSound, Top
  <2> QED
    BY <2>1, <2>2, <2>3, <2>4, <2>5
<1>3. [screens EXCEPT ![i].work = @ \ {w}] = idle
  BY <1>2
<1>4. \/ screens' = idle
      \/ Top < MaxScreens /\ screens' = Append(idle, Screen("task", TaskOf[s.id]))
  BY <1>3 DEF TaskLookedUp, Room
<1>5. /\ new \in Records /\ new.loads = s.loads /\ new.work = {}
      /\ new.kind = s.kind /\ new.id = s.id /\ new.meta = s.meta /\ new.rest = s.rest
      /\ new.known = s.known /\ new.dag = s.dag /\ new.tasks = s.tasks /\ new.tree = s.tree
      /\ new.rows = s.rows /\ new.cut = s.cut
  BY <1>2 DEF Records
<1> HIDE DEF new
<1>6. OneWorker(new) /\ ~LookingUp(new)
  BY <1>5 DEF OneWorker, LookingUp
<1>7. ShowsLast(new)
  <2>1. \A v \in s.work : v.at = "task"
    BY <1>1, <1>2
  <2> QED
    BY <1>2, <1>5, <2>1 DEF Sound, ShowsLast
<1>8. OfKind(new) /\ Drawn(new)
  BY <1>2, <1>5 DEF Sound, OfKind, Drawn
<1>9. Sound(new)
  BY <1>5, <1>6, <1>7, <1>8 DEF Sound
<1>10. AllSound(idle)
  BY <1>6, <1>9, ChangeOne DEF DetailInv, Top
<1>11. Len(idle) = Top /\ \A k \in 1..Len(idle) : ~LookingUp(idle[k])
  <2>1. screens \in Seq(Records) /\ Len(screens) \in Nat
    BY DEF DetailInv, AllSound
  <2>2. /\ Len(idle) = Len(screens) /\ idle[i] = new
        /\ \A k \in 1..Len(screens) : k # i => idle[k] = screens[k]
    BY <2>1 DEF Top
  <2>3. \A k \in 1..Len(screens) : k # i => ~LookingUp(screens[k])
    BY <1>2 DEF DetailInv, AllSound
  <2> QED
    BY <1>6, <2>2, <2>3 DEF Top
<1> HIDE DEF idle
<1>12. Sound(Screen("task", TaskOf[s.id]))
  <2>1. TaskOf[s.id] \in Ids
    BY <1>2, DetailAssumption
  <2> QED
    BY <2>1, FirstSound
<1> QED
  BY <1>4, <1>10, <1>11, <1>12, PutOnTop DEF DetailInv

LEMMA TaskAnsweredInv ==
  ASSUME DetailInv, NEW i \in 1..Top, NEW w \in screens[i].work, TaskAnswered(i, w)
  PROVE  DetailInv'
<1> DEFINE s == screens[i]
<1>1. s.kind = "task" /\ w.at = "asked"
  BY DEF TaskAnswered
<1>2. /\ Sound(s) /\ s \in Records /\ s.work \ {w} = {} /\ w.no \in 1..MaxLoads
      /\ w.no \in 0..MaxLoads /\ w.no = s.loads /\ s.meta < w.no /\ s.rest < w.no
  BY <1>1, TheWorker
<1>3. s.rest \in Nat /\ s.meta \in Nat /\ s.loads \in Nat /\ s.loads >= 1
  BY <1>2 DEF Records
<1> DEFINE answered == [s EXCEPT !.work = {}, !.meta = w.no]
           missing == [answered EXCEPT !.known = FALSE]
           loaded(list, rows) ==
             [answered EXCEPT !.known = TRUE, !.rest = w.no, !.rows = rows,
                           !.dag = IF list = {} THEN "unavailable" ELSE "drawn",
                           !.tasks = IF list = {} THEN @ ELSE list,
                           !.tree = IF list = {} THEN @ ELSE Dag(list, s.id)]
<1>4. \/ screens' = [screens EXCEPT ![i] = missing]
      \/ \E list \in SUBSET Ids, rows \in SUBSET JobsOf(s.id) :
           screens' = [screens EXCEPT ![i] = loaded(list, rows)]
  <2>1. [s EXCEPT !.work = s.work \ {w}, !.meta = w.no] = answered
    BY <1>2
  <2>2. CASE screens' = [screens EXCEPT ![i] = [[s EXCEPT !.work = s.work \ {w}, !.meta = w.no]
                                                EXCEPT !.known = FALSE]]
    BY <2>1, <2>2
  <2>3. ASSUME NEW list \in SUBSET Ids, NEW rows \in SUBSET JobsOf(s.id),
               screens' = [screens EXCEPT ![i] =
                 [[s EXCEPT !.work = s.work \ {w}, !.meta = w.no] EXCEPT
                   !.known = TRUE, !.rest = w.no, !.rows = rows,
                   !.dag = IF list = {} THEN "unavailable" ELSE "drawn",
                   !.tasks = IF list = {} THEN @ ELSE list,
                   !.tree = IF list = {} THEN @ ELSE Dag(list, s.id)]]
        PROVE  screens' = [screens EXCEPT ![i] = loaded(list, rows)]
    BY <2>1, <2>3
  <2> QED
    BY <2>2, <2>3 DEF TaskAnswered
<1>5. CASE screens' = [screens EXCEPT ![i] = missing]
  <2>1. /\ missing \in Records /\ missing.loads = s.loads /\ missing.work = {}
        /\ missing.kind = s.kind /\ missing.id = s.id /\ missing.meta = w.no
        /\ missing.rest = s.rest /\ missing.known = FALSE /\ missing.dag = s.dag
        /\ missing.tasks = s.tasks /\ missing.tree = s.tree /\ missing.cut = s.cut
    BY <1>2 DEF Records
  <2> HIDE DEF missing
  <2>2. OneWorker(missing) /\ ~LookingUp(missing)
    BY <2>1 DEF OneWorker, LookingUp
  <2>3. ShowsLast(missing)
    BY <1>1, <1>2, <1>3, <2>1 DEF ShowsLast
  <2>4. OfKind(missing)
    BY <1>1, <1>2, <1>3, <2>1 DEF Sound, OfKind
  <2>5. Drawn(missing)
    BY <1>2, <2>1 DEF Sound, Drawn
  <2>6. Sound(missing)
    BY <2>1, <2>2, <2>3, <2>4, <2>5 DEF Sound
  <2>7. AllSound([screens EXCEPT ![i] = missing])
    BY <2>2, <2>6, ChangeOne DEF DetailInv, Top
  <2> QED
    BY <1>5, <2>7 DEF DetailInv
<1>6. ASSUME NEW list \in SUBSET Ids, NEW rows \in SUBSET JobsOf(s.id),
             screens' = [screens EXCEPT ![i] = loaded(list, rows)]
      PROVE  DetailInv'
  <2> DEFINE new == loaded(list, rows)
  <2>1. rows \in SUBSET Jobs
    BY DEF JobsOf
  <2>2. Dag(list, s.id) \in Trees
    BY DagType
  <2>3. /\ new \in Records /\ new.loads = s.loads /\ new.work = {}
        /\ new.kind = s.kind /\ new.id = s.id /\ new.meta = w.no
        /\ new.rest = w.no /\ new.known = TRUE /\ new.cut = s.cut
        /\ list = {} => new.dag # "drawn"
        /\ list # {} => new.tasks = list /\ new.tree = Dag(list, s.id)
    BY <1>2, <2>1, <2>2 DEF Records
  <2> HIDE DEF new
  <2>4. OneWorker(new) /\ ~LookingUp(new)
    BY <2>3 DEF OneWorker, LookingUp
  <2>5. ShowsLast(new)
    BY <1>1, <1>2, <1>3, <2>3 DEF ShowsLast
  <2>6. OfKind(new)
    BY <1>1, <1>2, <1>3, <2>3 DEF Sound, OfKind
  <2>7. Drawn(new)
    BY <2>3 DEF Drawn
  <2>8. Sound(new)
    BY <2>3, <2>4, <2>5, <2>6, <2>7 DEF Sound
  <2>9. AllSound([screens EXCEPT ![i] = new])
    BY <2>4, <2>8, ChangeOne DEF DetailInv, Top
  <2> QED
    BY <1>6, <2>9 DEF DetailInv, new
<1> QED
  BY <1>4, <1>5, <1>6
--------------------------------------------------------------------------------
LEMMA DetailInitInv == DetailInit => DetailInv
<1> SUFFICES ASSUME DetailInit PROVE AllSound(<<>>)
  BY DEF DetailInit, DetailInv
<1>1. <<>> \in Seq(Records) /\ Len(<<>>) = 0 /\ MaxScreens \in Nat
  BY DetailAssumption
<1> QED
  BY <1>1 DEF AllSound

LEMMA DetailStepInv == DetailInv /\ [DetailNext]_screens => DetailInv'
<1> SUFFICES ASSUME DetailInv, [DetailNext]_screens PROVE DetailInv'
  OBVIOUS
<1>1. CASE DetailUser
  BY <1>1, OpenInv, DismissInv, RefreshDetailInv, GoTaskInv, GoParentInv, SelectJobInv
     DEF DetailUser
<1>2. CASE \E i \in 1..Top : Answered(i)
  BY <1>2, JobAnsweredInv, EventsAnsweredInv, TaskLookedUpInv, TaskAnsweredInv DEF Answered
<1>3. CASE UNCHANGED screens
  BY <1>3 DEF DetailInv
<1> QED
  BY <1>1, <1>2, <1>3 DEF DetailNext

LEMMA DetailInvariant == DetailSpec => []DetailInv
BY DetailInitInv, DetailStepInv, PTL DEF DetailSpec

\* Screens are as many as there may be, and what each holds is of its kind.
THEOREM DetailTypeCorrect == DetailSpec => []DetailTypeOK
<1>1. DetailInv => DetailTypeOK
  <2> SUFFICES ASSUME DetailInv, NEW i \in 1..Top
               PROVE  LET s == screens[i] IN
                        /\ s.kind \in {"job", "task"}
                        /\ s.id \in IF s.kind = "job" THEN Jobs ELSE Ids
                        /\ {s.loads, s.looks, s.meta, s.rest} \subseteq 0..MaxLoads
                        /\ s.work \subseteq {Worker(n, at) : n \in 1..MaxLoads, at \in Stage(s.kind)}
                        /\ {s.known, s.cut} \subseteq BOOLEAN
                        /\ s.dag \in {"loading", "unavailable", "drawn"}
                        /\ s.tasks \subseteq Ids /\ s.rows \subseteq Jobs
    BY DEF DetailTypeOK, DetailInv, AllSound, Top
  <2> DEFINE s == screens[i]
  <2>1. Sound(s)
    BY DEF DetailInv, AllSound, Top
  <2> HIDE DEF s
  <2>2. s \in Records /\ OneWorker(s) /\ OfKind(s)
    BY <2>1 DEF Sound
  <2>3. /\ s.kind \in {"job", "task"} /\ {s.loads, s.looks, s.meta, s.rest} \subseteq 0..MaxLoads
        /\ {s.known, s.cut} \subseteq BOOLEAN /\ s.dag \in {"loading", "unavailable", "drawn"}
        /\ s.tasks \subseteq Ids /\ s.rows \subseteq Jobs /\ s.work \subseteq Works
    BY <2>2 DEF Records
  <2>4. s.id \in IF s.kind = "job" THEN Jobs ELSE Ids
    BY <2>2, <2>3 DEF OfKind
  <2>5. ASSUME NEW w \in s.work
        PROVE  \E n \in 1..MaxLoads, at \in Stage(s.kind) : w = Worker(n, at)
    <3>1. w \in Works
      BY <2>3
    <3>2. w.no \in 1..MaxLoads /\ w = Worker(w.no, w.at)
      BY <3>1 DEF Works, Worker
    <3>3. w.at \in Stage(s.kind)
      BY <2>2, <2>3 DEF OneWorker, Stage
    <3> QED
      BY <3>2, <3>3
  <2> QED
    BY <2>3, <2>4, <2>5 DEF s
<1> QED
  BY <1>1, DetailInvariant, PTL

\* A look-up is only under way on top, where the task's screen belongs.
THEOREM LooksUpOnTop == DetailSpec => []LookUpOnTop
<1>1. DetailInv => LookUpOnTop
  BY DEF DetailInv, AllSound, LookUpOnTop, LookingUp, Top
<1> QED
  BY <1>1, DetailInvariant, PTL

\* A screen at rest shows its last load: an earlier answer never overwrites it.
THEOREM SettlesOnLast == DetailSpec => []Settled
<1>1. DetailInv => Settled
  <2> SUFFICES ASSUME DetailInv, NEW i \in 1..Top
               PROVE  LET s == screens[i] IN
                        /\ s.work = {} /\ ~s.cut =>
                             /\ s.meta = s.loads
                             /\ s.kind = "job" \/ s.known => s.rest = s.meta
                        /\ s.kind = "task" =>
                             s.rest <= s.meta /\ (s.known <=> s.rest = s.meta /\ s.meta > 0)
    BY DEF Settled
  <2> DEFINE s == screens[i]
  <2>1. Sound(s)
    BY DEF DetailInv, AllSound, Top
  <2> HIDE DEF s
  <2>2. ShowsLast(s) /\ OfKind(s) /\ s.kind \in {"job", "task"}
    BY <2>1 DEF Sound, Records
  <2>3. s.work = {} /\ ~s.cut => s.meta = s.loads /\ (s.kind = "job" => s.rest = s.meta)
    BY <2>2 DEF ShowsLast
  <2>4. s.kind = "task" => s.rest <= s.meta /\ (s.known <=> s.rest = s.meta /\ s.meta > 0)
    BY <2>2 DEF OfKind
  <2> QED
    BY <2>2, <2>3, <2>4 DEF s
<1> QED
  BY <1>1, DetailInvariant, PTL

\* In the tree of a task's screen every listed task has one place, whatever the list lacks.
THEOREM TreeIsComplete == DetailSpec => []DagComplete
<1>1. DetailInv => DagComplete
  <2> SUFFICES ASSUME DetailInv, NEW i \in 1..Top, screens[i].dag = "drawn"
               PROVE  LET s == screens[i] IN
                        /\ \A t \in s.tasks :
                             (t \in Roots(s.tasks)) # (\E p \in s.tasks : t \in Children(s.tasks, p))
                        /\ s.id \in s.tasks => /\ s.id \in s.tree.siblings
                                               /\ s.tree.below = Children(s.tasks, s.id)
    BY DEF DagComplete
  <2>1. screens[i].tree = Dag(screens[i].tasks, screens[i].id)
    BY DEF DetailInv, AllSound, Top, Sound, Drawn
  <2> QED
    BY <2>1, OnePlace, IsListed
<1> QED
  BY <1>1, DetailInvariant, PTL
================================================================================
