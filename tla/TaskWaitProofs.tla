----------------------------- MODULE TaskWaitProofs -----------------------------
(***************************************************************************)
(* What tasks chain and tasks wait report is true, for any number of       *)
(* subtasks, outcomes and events.  The inductive invariant says that while *)
(* a round runs, `truth' holds every outcome that any prefix of the log    *)
(* from the beginning of the round on gives a task, and the one in Trenni's*)
(* memory: whatever the round reads, and whenever, it is in there.         *)
(***************************************************************************)
EXTENDS TaskWait, TLAPS

Entries == [task : Tasks, type : {"created"} \cup Outcomes]
Midway == pc \in {"events", "ask"}

\* A task with terminal events has a latest one.
HasLatest ==
  \A t \in Tasks, n \in 0..Len(log) :
    Terminals(t, n) # {} => \E i \in Terminals(t, n) : \A j \in Terminals(t, n) : j <= i

\* All that a running round may yet read has been recorded as true.
TruthOK ==
  Midway =>
    /\ \A t \in Tasks, k \in since..Len(log) :
         Terminals(t, k) # {} => <<t, Latest(t, k)>> \in truth
    /\ \A t \in Tasks : live[t] \in Outcomes => <<t, live[t]>> \in truth

\* What the round has read already.
ReadOK ==
  /\ pc \in {"events", "ask", "late?"} => Root \in subtree
  /\ pc = "ask" => since <= seen
  /\ Midway => \A t \in DOMAIN answers : answers[t] \in Outcomes => <<t, answers[t]>> \in truth
  /\ pc = "late?" => Terminals(Root, since) = {}
  /\ code # "none" => pc = "exited"

Inv == TypeOK /\ HasLatest /\ TruthOK /\ ReadOK /\ RowsTrue /\ ExitTrue /\ TimeoutTrue

\* Appending keeps every element and adds one.
LEMMA AppendElements ==
  ASSUME NEW S, NEW s \in Seq(S), NEW e \in S
  PROVE  /\ Append(s, e) \in Seq(S) /\ Len(Append(s, e)) = Len(s) + 1 /\ Len(s) \in Nat
         /\ \A i \in 1..Len(s) : Append(s, e)[i] = s[i]
         /\ Append(s, e)[Len(s) + 1] = e
  OBVIOUS

\* The greatest element of a set of numbers is the one chosen as such.
LEMMA GreatestChosen ==
  ASSUME NEW S \in SUBSET Nat, NEW n \in S, \A j \in S : j <= n
  PROVE  (CHOOSE i \in S : \A j \in S : j <= i) = n
<1>1. \A i \in S : (\A j \in S : j <= i) => i = n
  OBVIOUS
<1> QED
  BY <1>1

\* The latest terminal event of a task is one of its terminal events.
LEMMA LatestIs ==
  ASSUME NEW t \in Tasks, NEW n \in 0..Len(log), HasLatest, Terminals(t, n) # {}
  PROVE  \E i \in Terminals(t, n) :
           /\ \A j \in Terminals(t, n) : j <= i
           /\ i = CHOOSE k \in Terminals(t, n) : \A j \in Terminals(t, n) : j <= k
           /\ Latest(t, n) = log[i].type /\ Latest(t, n) \in Outcomes
<1> DEFINE c == CHOOSE k \in Terminals(t, n) : \A j \in Terminals(t, n) : j <= k
<1>1. c \in Terminals(t, n) /\ \A j \in Terminals(t, n) : j <= c
  BY DEF HasLatest
<1>2. Latest(t, n) = log[c].type
  BY DEF Latest
<1>3. log[c].type \in Outcomes
  BY <1>1 DEF Terminals
<1> QED
  BY <1>1, <1>2, <1>3

\* A round's events on top of a task's state: the state shown is one it has had.
LEMMA RowTrue ==
  ASSUME Inv, pc = "ask", NEW t \in subtree, RowState(t) \in Outcomes
  PROVE  <<t, RowState(t)>> \in truth
<1>1. t \in Tasks /\ seen \in since..Len(log) /\ seen \in 0..Len(log)
  BY DEF Inv, TypeOK, ReadOK
<1>2. CASE Terminals(t, seen) # {}
  BY <1>1, <1>2 DEF RowState, Inv, TruthOK, Midway
<1>3. CASE Terminals(t, seen) = {}
  <2>1. "pending" \notin Outcomes
    BY WaitAssumption
  <2>2. t \in DOMAIN answers /\ RowState(t) = answers[t]
    BY <1>3, <2>1 DEF RowState
  <2> QED
    BY <2>2 DEF Inv, ReadOK, Midway
<1> QED
  BY <1>2, <1>3

\* The commands start with an empty log and nothing read.
LEMMA InitInv == Init => Inv
<1> SUFFICES ASSUME Init PROVE Inv
  OBVIOUS
<1>1. Len(log) = 0 /\ log \in Seq(Entries) /\ 0 \in 0..Len(log) /\ Len(log) <= MaxEvents
  BY WaitAssumption DEF Init
<1>2. \A t \in Tasks, n \in 0..Len(log) : Terminals(t, n) = {}
  BY <1>1 DEF Terminals
<1>3. DOMAIN None = {}
  BY DEF None
<1>4. TypeOK
  BY <1>1, <1>3 DEF Init, TypeOK, Entries
<1> QED
  BY <1>2, <1>3, <1>4
     DEF Inv, Init, HasLatest, TruthOK, ReadOK, Midway, RowsTrue, ExitTrue, TimeoutTrue

\* The log grows by one entry: every prefix of it is what it was.
LEMMA PrefixKept ==
  ASSUME Inv, NEW e \in Entries, log' = Append(log, e)
  PROVE  /\ log' \in Seq(Entries) /\ Len(log') = Len(log) + 1 /\ Len(log) \in Nat
         /\ \A t \in Tasks, n \in 0..Len(log) : Terminals(t, n)' = Terminals(t, n)
         /\ \A t \in Tasks, n \in 0..Len(log) :
              Terminals(t, n) # {} => Latest(t, n)' = Latest(t, n)
<1>1. /\ log' \in Seq(Entries) /\ Len(log') = Len(log) + 1 /\ Len(log) \in Nat
      /\ \A i \in 1..Len(log) : log'[i] = log[i]
  BY AppendElements DEF Inv, TypeOK, Entries
<1>2. ASSUME NEW t \in Tasks, NEW n \in 0..Len(log) PROVE Terminals(t, n)' = Terminals(t, n)
  <2>1. \A i \in 1..n : log'[i] = log[i]
    BY <1>1
  <2> QED
    BY <2>1 DEF Terminals
<1>3. ASSUME NEW t \in Tasks, NEW n \in 0..Len(log), Terminals(t, n) # {}
      PROVE  Latest(t, n)' = Latest(t, n)
  <2>1. PICK i \in Terminals(t, n) :
          /\ i = CHOOSE k \in Terminals(t, n) : \A j \in Terminals(t, n) : j <= k
          /\ Latest(t, n) = log[i].type
    BY <1>3, LatestIs DEF Inv
  <2>2. Terminals(t, n)' = Terminals(t, n)
    BY <1>2
  <2>3. Latest(t, n)' = log'[i].type
    BY <2>1, <2>2 DEF Latest
  <2>4. i \in 1..Len(log)
    BY <1>1, <2>1 DEF Terminals
  <2> QED
    BY <1>1, <2>1, <2>3, <2>4
<1> QED
  BY <1>1, <1>2, <1>3

\* An event is committed: the only new prefix of the log is the whole of it.
LEMMA CommitInv ==
  ASSUME Inv, NEW t \in Tasks, NEW type \in {"created"} \cup Outcomes, Commit(t, type)
  PROVE  Inv'
<1> DEFINE e == [task |-> t, type |-> type]
<1>0. PICK m \in Nat, n \in Nat : m = Len(log) /\ n = m + 1
  BY DEF Inv, TypeOK
<1>1. e \in Entries /\ log' = Append(log, e) /\ e.task = t /\ e.type = type
  BY DEF Commit, Entries
<1> HIDE DEF e
<1>2. /\ log' \in Seq(Entries) /\ Len(log') = n /\ Len(log) = m /\ n = m + 1
      /\ \A u \in Tasks, k \in 0..m : Terminals(u, k)' = Terminals(u, k)
      /\ \A u \in Tasks, k \in 0..m :
           Terminals(u, k) # {} => Latest(u, k)' = Latest(u, k)
  BY <1>0, <1>1, PrefixKept
<1>3. /\ pc # "exited" /\ n <= MaxEvents
      /\ UNCHANGED <<live, command, expired, pc, subtree, seen, answers, rows, code, error, since>>
  BY WaitAssumption, <1>2 DEF Commit
<1>4. /\ truth \subseteq truth' /\ truth' \subseteq Tasks \X Outcomes
      /\ Midway /\ type \in Outcomes => <<t, type>> \in truth'
  BY DEF Commit, Note, Midway, Inv, TypeOK
<1>5. TypeOK'
  BY <1>2, <1>3, <1>4 DEF Inv, TypeOK, Entries
<1>6. log'[n] = e /\ \A i \in 1..m : log'[i] = log[i]
  BY <1>1, <1>2, AppendElements DEF Inv, TypeOK, Entries
<1>7. ASSUME NEW u \in Tasks
      PROVE  /\ u = t /\ type \in Outcomes => Terminals(u, n)' = Terminals(u, m) \cup {n}
             /\ ~(u = t /\ type \in Outcomes) => Terminals(u, n)' = Terminals(u, m)
  <2>1. \A i : i \in 1..n <=> i \in 1..m \/ i = n
    BY <1>2
  <2>2. n \notin 1..m
    BY <1>2
  <2>3. \A i : i \in Terminals(u, n)' <=> i \in 1..n /\ log'[i].task = u /\ log'[i].type \in Outcomes
    BY DEF Terminals
  <2>4. \A i : i \in Terminals(u, m) <=> i \in 1..m /\ log[i].task = u /\ log[i].type \in Outcomes
    BY DEF Terminals
  <2>5. \A i : i \in Terminals(u, n)' <=>
                 i \in Terminals(u, m) \/ (i = n /\ u = t /\ type \in Outcomes)
    BY <1>1, <1>6, <2>1, <2>2, <2>3, <2>4
  <2> QED
    BY <2>5
<1>8. \A u \in Tasks : \A i \in Terminals(u, m) : i \in Nat /\ i < n
  BY <1>2 DEF Terminals
<1>9. HasLatest'
  <2> SUFFICES ASSUME NEW u \in Tasks, NEW k \in 0..n, Terminals(u, k)' # {}
               PROVE  \E i \in Terminals(u, k)' : \A j \in Terminals(u, k)' : j <= i
    BY <1>2 DEF HasLatest
  <2>1. CASE k \in 0..m
    BY <1>2, <2>1 DEF Inv, HasLatest
  <2>2. CASE k = n /\ u = t /\ type \in Outcomes
    <3>1. Terminals(u, k)' = Terminals(u, m) \cup {n}
      BY <1>7, <2>2
    <3> QED
      BY <1>2, <1>8, <3>1
  <2>3. CASE k = n /\ ~(u = t /\ type \in Outcomes)
    <3>1. Terminals(u, k)' = Terminals(u, m)
      BY <1>7, <2>3
    <3>2. m \in 0..Len(log)
      BY <1>2
    <3> QED
      BY <3>1, <3>2 DEF Inv, HasLatest
  <2> QED
    BY <1>2, <2>1, <2>2, <2>3
<1>10. TruthOK'
  <2> SUFFICES ASSUME Midway
               PROVE  /\ \A u \in Tasks, k \in since..n :
                           Terminals(u, k)' # {} => <<u, Latest(u, k)'>> \in truth'
                      /\ \A u \in Tasks : live[u] \in Outcomes => <<u, live[u]>> \in truth'
    BY <1>2, <1>3 DEF TruthOK, Midway
  <2>1. \A u \in Tasks : live[u] \in Outcomes => <<u, live[u]>> \in truth'
    BY <1>4 DEF Inv, TruthOK
  <2>2. ASSUME NEW u \in Tasks, NEW k \in since..n, Terminals(u, k)' # {}
        PROVE  <<u, Latest(u, k)'>> \in truth'
    <3>1. since \in 0..m
      BY <1>2 DEF Inv, TypeOK
    <3>2. CASE k \in since..m
      <4>1. k \in 0..m
        BY <1>2, <3>1, <3>2
      <4> QED
        BY <1>2, <1>4, <2>2, <3>2, <4>1 DEF Inv, TruthOK
    <3>3. CASE k = n /\ u = t /\ type \in Outcomes
      <4>0. Terminals(u, k)' = Terminals(u, m) \cup {n}
        BY <1>7, <3>3
      <4>1. n \in Terminals(u, k)' /\ \A j \in Terminals(u, k)' : j <= n
        BY <1>2, <1>8, <4>0
      <4>2. Terminals(u, k)' \in SUBSET Nat
        BY <1>2, <1>8, <4>0
      <4>3. (CHOOSE i \in Terminals(u, k)' : \A j \in Terminals(u, k)' : j <= i) = n
        BY <4>1, <4>2, GreatestChosen
      <4>4. Latest(u, k)' = type
        BY <1>1, <1>6, <4>3 DEF Latest
      <4> QED
        BY <1>4, <3>3, <4>4
    <3>4. CASE k = n /\ ~(u = t /\ type \in Outcomes)
      <4>1. Terminals(u, k)' = Terminals(u, m) /\ m \in 0..m /\ m \in since..Len(log)
        BY <1>2, <1>7, <3>1, <3>4
      <4>2. Terminals(u, m)' = Terminals(u, m)
        BY <1>2, <4>1
      <4>3. Latest(u, k)' = Latest(u, m)'
        BY <4>1, <4>2 DEF Latest
      <4>4. Latest(u, m)' = Latest(u, m)
        BY <1>2, <2>2, <4>1
      <4> QED
        BY <1>4, <2>2, <4>1, <4>3, <4>4 DEF Inv, TruthOK
    <3> QED
      BY <1>2, <2>2, <3>1, <3>2, <3>3, <3>4
  <2> QED
    BY <2>1, <2>2
<1>11. Root \in Tasks /\ Terminals(Root, since)' = Terminals(Root, since)
  BY <1>2, <1>3 DEF Tasks, Inv, TypeOK
<1>12. ReadOK' /\ TimeoutTrue'
  BY <1>3, <1>4, <1>11 DEF Inv, ReadOK, Midway, TimeoutTrue
<1>13. RowsTrue' /\ ExitTrue'
  BY <1>3, <1>4 DEF Inv, RowsTrue, ExitTrue
<1> QED
  BY <1>5, <1>9, <1>10, <1>12, <1>13 DEF Inv

\* Without a new event nothing changes about the latest ones.
LEMMA LatestKept == ASSUME HasLatest, log' = log PROVE HasLatest'
  BY DEF HasLatest, Terminals

\* Trenni changes its mind about a task, or forgets it.
LEMMA HoldInv ==
  ASSUME Inv, NEW t \in Tasks, NEW s \in {"absent"} \cup States, Hold(t, s)
  PROVE  Inv'
<1>1. /\ pc # "exited" /\ live' = [live EXCEPT ![t] = s]
      /\ UNCHANGED <<log, command, expired, pc, subtree, seen, answers, rows, code, error, since>>
  BY DEF Hold
<1>2. /\ truth \subseteq truth' /\ truth' \subseteq Tasks \X Outcomes
      /\ Midway /\ s \in Outcomes => <<t, s>> \in truth'
  BY DEF Hold, Note, Midway, Inv, TypeOK
<1>3. TypeOK'
  BY <1>1, <1>2 DEF Inv, TypeOK
<1>4. HasLatest'
  BY <1>1, LatestKept DEF Inv
<1>5. \A u \in Tasks, k \in Nat : Terminals(u, k)' = Terminals(u, k) /\ Latest(u, k)' = Latest(u, k)
  BY <1>1 DEF Terminals, Latest
<1>6. TruthOK'
  <2> SUFFICES ASSUME Midway
               PROVE  /\ \A u \in Tasks, k \in since..Len(log) :
                           Terminals(u, k)' # {} => <<u, Latest(u, k)'>> \in truth'
                      /\ \A u \in Tasks : live'[u] \in Outcomes => <<u, live'[u]>> \in truth'
    BY <1>1 DEF TruthOK, Midway
  <2>1. \A u \in Tasks : live'[u] \in Outcomes => <<u, live'[u]>> \in truth'
    BY <1>1, <1>2 DEF Inv, TypeOK, TruthOK
  <2>2. since..Len(log) \subseteq Nat
    BY DEF Inv, TypeOK
  <2> QED
    BY <1>2, <1>5, <2>1, <2>2 DEF Inv, TruthOK
<1>7. Terminals(Root, since)' = Terminals(Root, since)
  BY <1>1 DEF Terminals
<1>8. ReadOK'
  BY <1>1, <1>2, <1>7 DEF Inv, ReadOK, Midway
<1>9. RowsTrue' /\ ExitTrue' /\ TimeoutTrue'
  BY <1>1, <1>2, <1>7 DEF Inv, RowsTrue, ExitTrue, TimeoutTrue
<1> QED
  BY <1>3, <1>4, <1>6, <1>8, <1>9 DEF Inv

\* A round begins: what is true at this moment is recorded.
LEMMA BeginInv == ASSUME Inv, Begin PROVE Inv'
<1>1. /\ pc = "round" /\ pc' = "events" /\ answers' = None /\ rows' = None /\ since' = Len(log)
      /\ truth' = UNION {OutcomesNow(t) : t \in Tasks}
      /\ UNCHANGED <<log, live, command, expired, seen, code, error>>
  BY DEF Begin
<1>2. DOMAIN None = {}
  BY DEF None
<1>3. Len(log) \in Nat /\ log \in Seq(Entries) /\ code = "none"
  BY <1>1 DEF Inv, TypeOK, ReadOK, Entries
<1>4. subtree' \subseteq Tasks /\ Root \in subtree'
  <2>1. \A i \in 1..Len(log) : log[i].task \in Tasks
    <3>1. \A i \in 1..Len(log) : log[i] \in Entries
      BY <1>3
    <3> QED
      BY <3>1 DEF Entries
  <2>2. subtree' = {Root} \cup {log[i].task : i \in {k \in 1..Len(log) : log[k].type = "created"}}
    BY DEF Begin
  <2>3. Root \in Tasks
    BY DEF Tasks
  <2> QED
    BY <2>1, <2>2, <2>3
<1>5. ASSUME NEW t \in Tasks, Terminals(t, Len(log)) # {}
      PROVE  <<t, Latest(t, Len(log))>> \in truth' /\ Latest(t, Len(log)) \in Outcomes
  <2>1. <<t, Latest(t, Len(log))>> \in OutcomesNow(t)
    BY <1>5 DEF OutcomesNow
  <2>2. Latest(t, Len(log)) \in Outcomes
    <3>1. Len(log) \in 0..Len(log)
      BY <1>3
    <3> QED
      BY <1>5, <3>1, LatestIs DEF Inv
  <2> QED
    BY <1>1, <2>1, <2>2
<1>6. truth' \subseteq Tasks \X Outcomes
  <2> SUFFICES ASSUME NEW t \in Tasks PROVE OutcomesNow(t) \subseteq Tasks \X Outcomes
    BY <1>1
  <2> QED
    BY <1>5 DEF OutcomesNow
<1>7. \A t \in Tasks : live[t] \in Outcomes => <<t, live[t]>> \in truth'
  <2> SUFFICES ASSUME NEW t \in Tasks, live[t] \in Outcomes
               PROVE  <<t, live[t]>> \in OutcomesNow(t)
    BY <1>1
  <2> QED
    BY DEF OutcomesNow
<1>8. TypeOK'
  BY <1>1, <1>2, <1>3, <1>4, <1>6 DEF Inv, TypeOK
<1>9. HasLatest'
  BY <1>1 DEF Inv, HasLatest, Terminals
<1>10. TruthOK'
  <2>1. ASSUME NEW t \in Tasks, NEW k \in since'..Len(log), Terminals(t, k) # {}
        PROVE  <<t, Latest(t, k)>> \in truth'
    <3>1. k = Len(log)
      BY <1>1, <1>3
    <3> QED
      BY <1>5, <2>1, <3>1
  <2>2. \A t \in Tasks, k \in since'..Len(log) :
           Terminals(t, k)' = Terminals(t, k) /\ Latest(t, k)' = Latest(t, k)
    BY <1>1 DEF Terminals, Latest
  <2> QED
    BY <1>1, <1>7, <2>1, <2>2 DEF TruthOK
<1>11. ReadOK' /\ RowsTrue' /\ ExitTrue' /\ TimeoutTrue'
  BY <1>1, <1>2, <1>3, <1>4 DEF ReadOK, Midway, RowsTrue, ExitTrue, TimeoutTrue
<1> QED
  BY <1>8, <1>9, <1>10, <1>11 DEF Inv

\* A step of the command that leaves the two services and the record of them alone.
LEMMA TruthKept ==
  ASSUME Inv, UNCHANGED <<log, live, truth, since>>, Midway' => Midway
  PROVE  HasLatest' /\ TruthOK' /\ Terminals(Root, since)' = Terminals(Root, since)
<1>1. HasLatest'
  BY DEF Inv, HasLatest, Terminals
<1>2. \A t \in Tasks, k \in since..Len(log) :
         Terminals(t, k)' = Terminals(t, k) /\ Latest(t, k)' = Latest(t, k)
  BY DEF Terminals, Latest
<1>3. TruthOK'
  BY <1>2 DEF Inv, TruthOK
<1> QED
  BY <1>1, <1>3 DEF Terminals

\* The scan reads the whole log, which is no shorter than when the round began.
LEMMA ReadEventsInv == ASSUME Inv, ReadEvents PROVE Inv'
<1>1. /\ pc = "events" /\ pc' = "ask" /\ seen' = Len(log)
      /\ UNCHANGED <<log, live, truth, command, expired, subtree, answers, rows, code, error, since>>
  BY DEF ReadEvents, external
<1>2. Len(log) \in Nat /\ since <= Len(log)
  BY DEF Inv, TypeOK
<1>3. HasLatest' /\ TruthOK' /\ Terminals(Root, since)' = Terminals(Root, since)
  BY <1>1, TruthKept DEF Midway
<1>4. TypeOK'
  BY <1>1, <1>2 DEF Inv, TypeOK
<1>5. ReadOK' /\ RowsTrue' /\ ExitTrue' /\ TimeoutTrue'
  BY <1>1, <1>2, <1>3 DEF Inv, ReadOK, Midway, RowsTrue, ExitTrue, TimeoutTrue
<1> QED
  BY <1>3, <1>4, <1>5 DEF Inv

\* Trenni answers with what it holds at that moment, which is on record.
LEMMA AskInv == ASSUME Inv, NEW t \in Tasks, Ask(t) PROVE Inv'
<1>1. /\ pc = "ask" /\ DOMAIN answers' = DOMAIN answers \cup {t}
      /\ \A u \in DOMAIN answers' : answers'[u] = IF u = t THEN live[t] ELSE answers[u]
      /\ UNCHANGED <<log, live, truth, command, expired, pc, subtree, seen, rows, code, error, since>>
  BY DEF Ask, external
<1>2. HasLatest' /\ TruthOK' /\ Terminals(Root, since)' = Terminals(Root, since)
  BY <1>1, TruthKept DEF Midway
<1>3. live[t] \in {"absent"} \cup States
  BY DEF Inv, TypeOK
<1>4. \A u \in DOMAIN answers' :
         /\ answers'[u] \in {"absent"} \cup States
         /\ answers'[u] \in Outcomes => <<u, answers'[u]>> \in truth
  BY <1>1, <1>3 DEF Inv, TypeOK, ReadOK, TruthOK, Midway
<1>5. TypeOK'
  BY <1>1, <1>4 DEF Inv, TypeOK
<1>6. ReadOK'
  BY <1>1, <1>2, <1>4 DEF Inv, ReadOK, Midway
<1>7. RowsTrue' /\ ExitTrue' /\ TimeoutTrue'
  BY <1>1, <1>2 DEF Inv, RowsTrue, ExitTrue, TimeoutTrue
<1> QED
  BY <1>2, <1>5, <1>6, <1>7 DEF Inv

\* The rows are made of what the round has read; without an outcome of the root
\* in them, there was none in the log when the round began.
LEMMA ShowInv == ASSUME Inv, Show PROVE Inv'
<1>1. /\ pc = "ask" /\ rows' = [t \in subtree |-> RowState(t)]
      /\ UNCHANGED <<log, live, truth, command, expired, subtree, seen, answers, error, since>>
      /\ pc' \in {"exited", "late?"} /\ code = "none" /\ code' \in {"none", "0", "1"}
      /\ Root \in subtree
  BY DEF Show, external, Inv, ReadOK
<1>2. HasLatest' /\ TruthOK' /\ Terminals(Root, since)' = Terminals(Root, since)
  BY <1>1, TruthKept DEF Midway
<1>3. seen \in 0..Len(log) /\ since \in 0..Len(log) /\ since <= seen /\ Len(log) \in Nat
      /\ subtree \subseteq Tasks
  BY <1>1 DEF Inv, TypeOK, ReadOK
<1>4. ASSUME NEW t \in subtree PROVE RowState(t) \in States
  <2>1. CASE Terminals(t, seen) # {}
    BY <1>3, <2>1, LatestIs DEF RowState, States, Inv
  <2>2. CASE Terminals(t, seen) = {}
    BY <2>2 DEF RowState, States, Inv, TypeOK
  <2> QED
    BY <2>1, <2>2
<1>5. ASSUME NEW t \in subtree, RowState(t) \in Outcomes PROVE <<t, RowState(t)>> \in truth
  BY <1>1, <1>5, RowTrue
<1>6. TypeOK'
  BY <1>1, <1>4 DEF Inv, TypeOK
<1>7. RowsTrue'
  BY <1>1, <1>5 DEF RowsTrue
<1>8. rows'[Root] \notin Outcomes => Terminals(Root, since) = {}
  <2> SUFFICES ASSUME Terminals(Root, since) # {} PROVE rows'[Root] \in Outcomes
    OBVIOUS
  <2>1. Terminals(Root, seen) # {}
    BY <1>3 DEF Terminals
  <2> QED
    BY <1>1, <1>3, <2>1, LatestIs DEF RowState, Inv
<1>9. pc' = "late?" => rows'[Root] \notin Outcomes /\ code' = "none"
  BY <1>1 DEF Show
<1>10. ReadOK'
  BY <1>1, <1>2, <1>8, <1>9 DEF ReadOK, Midway
<1>11. ExitTrue'
  <2> SUFFICES ASSUME command = "wait", pc' = "exited"
               PROVE  \E s \in Outcomes : <<Root, s>> \in truth /\ (code' = "0" <=> s = Completed)
    BY <1>1 DEF ExitTrue
  <2>1. rows'[Root] \in Outcomes /\ code' = IF rows'[Root] = Completed THEN "0" ELSE "1"
    BY DEF Show
  <2>2. <<Root, rows'[Root]>> \in truth
    BY <1>1, <1>5, <2>1
  <2> QED
    BY <2>1, <2>2
<1>12. TimeoutTrue'
  BY <1>1 DEF TimeoutTrue
<1> QED
  BY <1>2, <1>6, <1>7, <1>10, <1>11, <1>12 DEF Inv

\* What ends a round, ends the command or passes the time.
LEMMA QuietInv ==
  ASSUME Inv, \/ Timeout \/ Sleep \/ Wake \/ PasloeFails \/ TrenniFails \/ Interrupt \/ Expire
              \/ UNCHANGED vars
  PROVE  Inv'
<1>1. CASE Timeout
  <2>1. /\ pc = "late?" /\ expired /\ pc' = "exited" /\ code' = "2"
        /\ UNCHANGED <<log, live, truth, command, expired, subtree, seen, answers, rows, error, since>>
    BY <1>1 DEF Timeout, external
  <2>2. HasLatest' /\ TruthOK' /\ Terminals(Root, since)' = Terminals(Root, since)
    BY <2>1, TruthKept DEF Midway
  <2> QED
    BY <2>1, <2>2 DEF Inv, TypeOK, ReadOK, Midway, RowsTrue, ExitTrue, TimeoutTrue
<1>2. CASE Sleep
  <2>1. /\ pc = "late?" /\ pc' = "asleep"
        /\ subtree' = {} /\ DOMAIN answers' = {} /\ DOMAIN rows' = {}
        /\ seen' = 0 /\ since' = 0 /\ truth' = {}
        /\ UNCHANGED <<log, live, command, expired, code, error>>
    BY <1>2 DEF Sleep, None
  <2>2. code = "none"
    BY <2>1 DEF Inv, TypeOK, ReadOK
  <2>3. HasLatest'
    BY <2>1 DEF Inv, HasLatest, Terminals
  <2> QED
    BY <2>1, <2>2, <2>3
       DEF Inv, TypeOK, TruthOK, ReadOK, Midway, RowsTrue, ExitTrue, TimeoutTrue
<1>3. CASE Wake
  <2>1. /\ pc = "asleep" /\ pc' = "round"
        /\ UNCHANGED <<log, live, truth, command, expired, subtree, seen, answers, rows, code, error, since>>
    BY <1>3 DEF Wake, external
  <2>2. HasLatest' /\ TruthOK' /\ Terminals(Root, since)' = Terminals(Root, since)
    BY <2>1, TruthKept DEF Midway
  <2> QED
    BY <2>1, <2>2 DEF Inv, TypeOK, ReadOK, Midway, RowsTrue, ExitTrue, TimeoutTrue
<1>4. CASE PasloeFails \/ TrenniFails \/ Interrupt
  <2>1. /\ pc' = "exited" /\ code' = "1" /\ error' \in {"pasloe", "trenni", "user"}
        /\ UNCHANGED <<log, live, truth, command, expired, subtree, seen, answers, rows, since>>
    BY <1>4 DEF PasloeFails, TrenniFails, Interrupt, Fail, external
  <2>2. HasLatest' /\ TruthOK' /\ Terminals(Root, since)' = Terminals(Root, since)
    BY <2>1, TruthKept DEF Midway
  <2> QED
    BY <2>1, <2>2 DEF Inv, TypeOK, ReadOK, Midway, RowsTrue, ExitTrue, TimeoutTrue
<1>5. CASE Expire
  <2>1. /\ expired' = TRUE
        /\ UNCHANGED <<log, live, truth, command, pc, subtree, seen, answers, rows, code, error, since>>
    BY <1>5 DEF Expire, external
  <2>2. HasLatest' /\ TruthOK' /\ Terminals(Root, since)' = Terminals(Root, since)
    BY <2>1, TruthKept DEF Midway
  <2> QED
    BY <2>1, <2>2 DEF Inv, TypeOK, ReadOK, Midway, RowsTrue, ExitTrue, TimeoutTrue
<1>6. CASE UNCHANGED vars
  <2>1. HasLatest' /\ TruthOK' /\ Terminals(Root, since)' = Terminals(Root, since)
    BY <1>6, TruthKept DEF vars, Midway
  <2> QED
    BY <1>6, <2>1 DEF vars, Inv, TypeOK, ReadOK, Midway, RowsTrue, ExitTrue, TimeoutTrue
<1> QED
  BY <1>1, <1>2, <1>3, <1>4, <1>5, <1>6

\* Every step keeps the invariant.
LEMMA StepInv == ASSUME Inv, [Next]_vars PROVE Inv'
<1>1. CASE \E t \in Tasks, type \in {"created"} \cup Outcomes : Commit(t, type)
  BY <1>1, CommitInv
<1>2. CASE \E t \in Tasks, s \in {"absent"} \cup States : Hold(t, s)
  BY <1>2, HoldInv
<1>3. CASE Round
  BY <1>3, BeginInv, ReadEventsInv, AskInv, ShowInv DEF Round
<1>4. CASE Timeout \/ Sleep \/ Wake \/ PasloeFails \/ TrenniFails \/ Interrupt \/ Expire \/ UNCHANGED vars
  BY <1>4, QuietInv
<1> QED
  BY <1>1, <1>2, <1>3, <1>4 DEF Next, Step

\* The invariant holds of every reachable state.
LEMMA Invariance == Spec => []Inv
<1> QED
  BY InitInv, StepInv, PTL DEF Spec

\* Type correctness for any number of tasks, outcomes and events.
THEOREM TypeCorrect == Spec => []TypeOK
<1>1. Inv => TypeOK
  BY DEF Inv
<1> QED
  BY <1>1, Invariance, PTL

\* The rows of a round report only outcomes that held while it ran.
THEOREM RowsAreTrue == Spec => []RowsTrue
<1>1. Inv => RowsTrue
  BY DEF Inv
<1> QED
  BY <1>1, Invariance, PTL

\* The exit codes 0 and 1 of a wait that no service failed are the task's outcome.
THEOREM ExitIsTrue == Spec => []ExitTrue
<1>1. Inv => ExitTrue
  BY DEF Inv
<1> QED
  BY <1>1, Invariance, PTL

\* A timeout is never reported of a task that was done before the last round.
THEOREM TimeoutIsTrue == Spec => []TimeoutTrue
<1>1. Inv => TimeoutTrue
  BY DEF Inv
<1> QED
  BY <1>1, Invariance, PTL

================================================================================
