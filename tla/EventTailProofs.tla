---------------------------- MODULE EventTailProofs ----------------------------
(***************************************************************************)
(* Safety of the commands that follow the event log, for logs, pages and   *)
(* limits of any size.  The inductive invariant adds to the properties     *)
(* where the events already printed lie: nothing is printed while a scan   *)
(* runs, and a command that follows has printed nothing beyond its cursor. *)
(***************************************************************************)
EXTENDS EventTail, FiniteSetTheorems, TLAPS

\* The running scan holds what its pages held.
ScanOK ==
  /\ pc = "history" => events = {i \in 1..cursor : log[i] \in wanted}
  /\ pc = "created" => events = {i \in 1..cursor : log[i] = "created"}

\* The command knows of the subtask just when it had been created by then.
KnownOK == known <=> \E i \in 1..seen : log[i] = "created"

\* What has been printed lies behind the command.
Behind ==
  /\ pc \in Scanning => \A i \in 1..MaxEvents : shown[i] = 0
  /\ pc \in Following => \A i \in 1..MaxEvents : shown[i] > 0 => i <= cursor
  /\ \A i \in 1..MaxEvents : shown[i] > 0 => i <= Len(log)
  /\ mode = "watch" => pc \in Following \cup Stopped

Inv == TypeOK /\ ScanOK /\ KnownOK /\ Behind /\ NothingSkipped /\ HistoryWhole

\* Appending keeps every element and adds one.
LEMMA AppendElements ==
  ASSUME NEW S, NEW s \in Seq(S), NEW e \in S
  PROVE  /\ Append(s, e) \in Seq(S) /\ Len(Append(s, e)) = Len(s) + 1 /\ Len(s) \in Nat
         /\ \A i \in 1..Len(s) : Append(s, e)[i] = s[i]
  OBVIOUS

\* Echoing a set of events prints each of them once more, and nothing else.
LEMMA EchoShown ==
  ASSUME NEW T, shown \in [1..MaxEvents -> Nat], Echo(T)
  PROVE  /\ shown' \in [1..MaxEvents -> Nat]
         /\ \A i \in 1..MaxEvents : i \in T => shown'[i] > shown[i] /\ shown'[i] > 0
         /\ \A i \in 1..MaxEvents : i \notin T => shown'[i] = shown[i]
  BY DEF Echo

\* A command starts with nothing printed, wherever it starts.
LEMMA InitInv == Init => Inv
<1> SUFFICES ASSUME Init PROVE Inv
  OBVIOUS
<1>1. mode \in {"all", "task", "job", "watch"}
  BY TailAssumption DEF Init
<1>2. pc \in {"created", "history", "tail", "follow"} /\ (mode = "watch" => pc = "follow")
  BY <1>1 DEF Init
<1>3. wanted \subseteq Classes
  BY FilterAssumption DEF Init
<1>4. Len(log) = 0 /\ log \in Seq(Classes) /\ cursor = 0 /\ history = 0 /\ start = 0 /\ events = {}
      /\ seen = 0 /\ known = FALSE
  BY DEF Init
<1>5. shown \in [1..MaxEvents -> Nat] /\ \A i \in 1..MaxEvents : shown[i] = 0
  BY DEF Init
<1>6. TypeOK
  <2>1. Len(log) <= MaxEvents /\ 0 \in 0..Len(log) /\ {} \subseteq 1..Len(log)
    BY <1>4, TailAssumption
  <2>2. mode \in Modes /\ known \in BOOLEAN
    BY DEF Init
  <2>3. pc \in Scanning \cup Following \cup Stopped \cup {"tail"}
    BY <1>2 DEF Scanning, Following, Stopped
  <2> QED
    BY <1>3, <1>4, <1>5, <2>1, <2>2, <2>3 DEF TypeOK
<1> QED
  BY <1>2, <1>4, <1>5, <1>6 DEF Inv, ScanOK, KnownOK, Behind, NothingSkipped, HistoryWhole, Following

\* The log only grows: what is known of its places stays true.
LEMMA CommitInv == ASSUME Inv, NEW c \in Classes, Commit(c) PROVE Inv'
<1>1. /\ log' \in Seq(Classes) /\ Len(log') = Len(log) + 1 /\ Len(log) \in Nat
      /\ \A i \in 1..Len(log) : log'[i] = log[i]
  BY AppendElements DEF Commit, Inv, TypeOK
<1>2. TypeOK'
  BY <1>1, TailAssumption DEF Commit, clientVars, Inv, TypeOK
<1>3. ScanOK'
  BY <1>1 DEF Commit, clientVars, Inv, TypeOK, ScanOK
<1>4. Behind'
  BY <1>1 DEF Commit, clientVars, Inv, TypeOK, Behind
<1>5. NothingSkipped'
  BY <1>1 DEF Commit, clientVars, Inv, TypeOK, NothingSkipped, About
<1>8. KnownOK'
  BY <1>1 DEF Commit, clientVars, Inv, TypeOK, KnownOK
<1>7. Subtree' = Subtree
  BY <1>1 DEF Commit, clientVars, Inv, TypeOK, Subtree, About
<1>6. HistoryWhole'
  <2> SUFFICES ASSUME pc \in Following \cup {"tail"}, NEW i \in 1..history,
                      log[i] \in wanted \cap Subtree
               PROVE  \/ shown[i] > 0
                      \/ Cardinality({j \in i + 1 .. history : log'[j] \in wanted \cap Subtree})
                           >= HistoryLimit
    BY <1>1, <1>7 DEF Commit, clientVars, Inv, TypeOK, HistoryWhole
  <2>1. {j \in i + 1 .. history : log'[j] \in wanted \cap Subtree}
          = {j \in i + 1 .. history : log[j] \in wanted \cap Subtree}
    BY <1>1 DEF Inv, TypeOK
  <2> QED
    BY <2>1 DEF Inv, HistoryWhole
<1> QED
  BY <1>2, <1>3, <1>4, <1>5, <1>6, <1>8 DEF Inv

\* A step that ends the command, or wakes it, and leaves log, cursor and output alone.
LEMMA QuietInv == ASSUME Inv, PollFails \/ Wake \/ Stop \/ ScanTooLong \/ UNCHANGED vars PROVE Inv'
<1>1. UNCHANGED <<log, mode, wanted, cursor, known, seen, shown, history, start>>
  BY DEF PollFails, Wake, Stop, ScanTooLong, vars
<1>2. /\ pc' \in Scanning \cup Following \cup Stopped \cup {"tail"}
      /\ events' \subseteq 1..Len(log)
      /\ pc' \in Scanning => pc' = pc /\ events' = events
      /\ pc' = "tail" => pc = "tail"
      /\ pc' \in Following => pc \in Following
      /\ mode = "watch" => pc' \in Following \cup Stopped
  BY DEF PollFails, Wake, Stop, ScanTooLong, vars, Inv, TypeOK, Behind, Scanning, Following, Stopped
<1>3. TypeOK'
  BY <1>1, <1>2 DEF Inv, TypeOK
<1>4. ScanOK'
  BY <1>1, <1>2 DEF Inv, ScanOK, Scanning
<1>5. Behind'
  BY <1>1, <1>2 DEF Inv, Behind
<1>6. NothingSkipped'
  BY <1>1, <1>2 DEF Inv, NothingSkipped, About
<1>7. HistoryWhole'
  BY <1>1, <1>2 DEF Inv, HistoryWhole, Subtree, About
<1>8. KnownOK'
  BY <1>1 DEF Inv, KnownOK
<1> QED
  BY <1>3, <1>4, <1>5, <1>6, <1>7, <1>8 DEF Inv

\* A page that ends at n holds the events wanted from the cursor to n.
LEMMA ScanOnInv == ASSUME Inv, ScanOn PROVE Inv'
<1>1. PICK n \in 1..Len(log) :
        /\ FullPage(Scanned, n)
        /\ events' = events \cup Matching(Scanned, n)
        /\ cursor' = n
  BY DEF ScanOn
<1>2. n \in cursor + 1 .. Len(log) /\ Len(log) \in Nat /\ cursor \in Nat /\ n \in 0..Len(log)
  BY <1>1 DEF FullPage, Inv, TypeOK
<1>3. Matching(Scanned, n) = {i \in cursor + 1 .. n : log[i] \in Scanned}
  BY DEF Matching
<1>4. events' \subseteq 1..Len(log)
  <2>1. events \subseteq 1..Len(log)
    BY DEF Inv, TypeOK
  <2>2. Matching(Scanned, n) \subseteq 1..Len(log)
    BY <1>2, <1>3
  <2> QED
    BY <1>1, <2>1, <2>2
<1>5. TypeOK'
  BY <1>1, <1>2, <1>4 DEF ScanOn, Inv, TypeOK
<1>6. ScanOK'
  <2>1. ASSUME pc = "history" PROVE events' = {i \in 1..n : log[i] \in wanted}
    <3>1. Scanned = wanted /\ events = {i \in 1..cursor : log[i] \in wanted}
      BY <2>1 DEF Scanned, Inv, ScanOK
    <3> QED
      BY <1>1, <1>2, <1>3, <3>1
  <2>2. ASSUME pc = "created" PROVE events' = {i \in 1..n : log[i] = "created"}
    <3>1. Scanned = {"created"} /\ events = {i \in 1..cursor : log[i] = "created"}
      BY <2>2 DEF Scanned, Inv, ScanOK
    <3> QED
      BY <1>1, <1>2, <1>3, <3>1
  <2> QED
    BY <1>1, <2>1, <2>2 DEF ScanOK, ScanOn
<1>7. KnownOK' /\ Behind' /\ NothingSkipped' /\ HistoryWhole'
  BY <1>2 DEF ScanOn, Inv, KnownOK, Behind, NothingSkipped, HistoryWhole, Scanning, Following, Stopped
<1> QED
  BY <1>5, <1>6, <1>7 DEF Inv

\* The scan of the history starts at the beginning of the log.
LEMMA CreatedEndInv == ASSUME Inv, CreatedEnd PROVE Inv'
<1>1. /\ pc = "created" /\ pc' = "history" /\ cursor' = 0 /\ events' = {} /\ known' \in BOOLEAN
      /\ seen' = Len(log) /\ Len(log) \in Nat
      /\ UNCHANGED <<log, mode, wanted, shown, history, start>>
  BY DEF CreatedEnd, Inv, TypeOK
<1>2. TypeOK'
  BY <1>1 DEF Inv, TypeOK, Scanning
<1>3. ScanOK' /\ Behind' /\ NothingSkipped' /\ HistoryWhole'
  BY <1>1 DEF Inv, TypeOK, ScanOK, Behind, NothingSkipped, HistoryWhole, Scanning, Following, Stopped
<1>4. KnownOK'
  <2>1. events \cup Matching(Scanned, Len(log)) = {i \in 1..Len(log) : log[i] = "created"}
    <3>1. Scanned = {"created"} /\ events = {i \in 1..cursor : log[i] = "created"} /\ cursor \in 0..Len(log)
      BY <1>1 DEF Scanned, Inv, TypeOK, ScanOK
    <3> QED
      BY <1>1, <3>1 DEF Matching
  <2> QED
    BY <1>1, <2>1 DEF CreatedEnd, KnownOK
<1> QED
  BY <1>2, <1>3, <1>4 DEF Inv

\* An event of a finite set that is not among the newest has HistoryLimit newer ones.
LEMMA NotNewest ==
  ASSUME NEW n \in Nat, NEW T \in SUBSET (1..n), NEW i \in T, i \notin Newest(T)
  PROVE  Cardinality({j \in T : i < j}) >= HistoryLimit
<1>1. IsFiniteSet({j \in T : i < j})
  <2>1. IsFiniteSet(1..n)
    BY FS_Interval
  <2>2. {j \in T : i < j} \subseteq 1..n
    OBVIOUS
  <2> QED
    BY <2>1, <2>2, FS_Subset
<1>2. Cardinality({j \in T : i < j}) \in Nat
  BY <1>1, FS_CardinalityType
<1> QED
  BY <1>2, TailAssumption DEF Newest

\* The history printed is all of it, but for what the newest push out.
LEMMA HistoryEndInv == ASSUME Inv, HistoryEnd PROVE Inv'
<1> DEFINE all == events \cup Matching(Scanned, Len(log))
           T == {i \in all : log[i] \in AboutHistory}
<1>1. /\ pc = "history" /\ pc' = "tail" /\ history' = Len(log) /\ events' = {}
      /\ Echo(Newest(T))
      /\ UNCHANGED <<log, mode, wanted, cursor, known, seen, start>>
  BY DEF HistoryEnd
<1>2. Len(log) \in Nat /\ cursor \in 0..Len(log) /\ shown \in [1..MaxEvents -> Nat]
      /\ Len(log) <= MaxEvents /\ MaxEvents \in Nat
  BY TailAssumption DEF Inv, TypeOK
<1>3. all = {i \in 1..Len(log) : log[i] \in wanted}
  <2>1. Scanned = wanted /\ events = {i \in 1..cursor : log[i] \in wanted}
    BY <1>1 DEF Scanned, Inv, ScanOK
  <2> QED
    BY <1>2, <2>1 DEF Matching
<1>10. AboutHistory = Subtree
  BY DEF AboutHistory, Subtree, Inv, KnownOK
<1>4. T = {i \in 1..Len(log) : log[i] \in wanted \cap Subtree}
  BY <1>3, <1>10
<1> HIDE DEF all, T
<1>5. /\ shown' \in [1..MaxEvents -> Nat]
      /\ \A i \in 1..MaxEvents : i \in Newest(T) => shown'[i] > 0
      /\ \A i \in 1..MaxEvents : i \notin Newest(T) => shown'[i] = shown[i]
  BY <1>1, <1>2, EchoShown
<1>6. TypeOK'
  BY <1>1, <1>2, <1>5 DEF Inv, TypeOK
<1>7. Behind'
  <2>1. Newest(T) \subseteq 1..Len(log)
    BY <1>4 DEF Newest
  <2>2. \A i \in 1..MaxEvents : shown'[i] > 0 => i <= Len(log)
    BY <1>2, <1>5, <2>1 DEF Inv, Behind
  <2> QED
    BY <1>1, <2>2 DEF Inv, Behind, Scanning, Following, Stopped
<1>8. HistoryWhole'
  <2> SUFFICES ASSUME NEW i \in 1..Len(log), log[i] \in wanted \cap Subtree
               PROVE  \/ shown'[i] > 0
                      \/ Cardinality({j \in i + 1 .. Len(log) : log[j] \in wanted \cap Subtree})
                           >= HistoryLimit
    BY <1>1 DEF HistoryWhole, Subtree, About
  <2>1. i \in T /\ T \in SUBSET (1..Len(log)) /\ i \in 1..MaxEvents
    BY <1>2, <1>4
  <2>2. CASE i \in Newest(T)
    BY <1>5, <2>1, <2>2
  <2>3. CASE i \notin Newest(T)
    <3>1. Cardinality({j \in T : i < j}) >= HistoryLimit
      BY <1>2, <2>1, <2>3, NotNewest
    <3>2. {j \in T : i < j} = {j \in i + 1 .. Len(log) : log[j] \in wanted \cap Subtree}
      BY <1>2, <1>4
    <3> QED
      BY <3>1, <3>2
  <2> QED
    BY <2>2, <2>3
<1>9. ScanOK' /\ KnownOK' /\ NothingSkipped'
  BY <1>1 DEF Inv, ScanOK, KnownOK, NothingSkipped, Following
<1> QED
  BY <1>6, <1>7, <1>8, <1>9 DEF Inv

\* Following starts at the end of the log, beyond all that has been printed.
LEMMA TailCursorInv == ASSUME Inv, TailCursor PROVE Inv'
<1>1. /\ pc = "tail" /\ pc' = "follow" /\ cursor' = Len(log) /\ start' = Len(log)
      /\ UNCHANGED <<log, mode, wanted, known, seen, events, shown, history>>
  BY DEF TailCursor
<1>2. Len(log) \in Nat
  BY DEF Inv, TypeOK
<1>3. TypeOK'
  BY <1>1, <1>2 DEF Inv, TypeOK, Following
<1>4. ScanOK' /\ KnownOK' /\ Behind' /\ NothingSkipped'
  BY <1>1, <1>2 DEF Inv, ScanOK, KnownOK, Behind, NothingSkipped, Scanning, Following, Stopped
<1>5. HistoryWhole'
  BY <1>1 DEF Inv, HistoryWhole, Subtree, About
<1> QED
  BY <1>3, <1>4, <1>5 DEF Inv

\* A page that is followed: what it prints lies between the cursor and the new
\* cursor, and is all there is between them.
LEMMA FollowPage ==
  ASSUME Inv, Follow
  PROVE  \E T \in SUBSET (cursor + 1 .. cursor') :
           /\ cursor' \in cursor..Len(log)
           /\ T = {i \in cursor + 1 .. cursor' : log[i] \in wanted \cap About}
           /\ Echo(T)
<1>1. cursor \in Nat /\ Len(log) \in Nat /\ cursor <= Len(log)
  BY DEF Inv, TypeOK
<1>2. ASSUME NEW n \in 1..Len(log), FullPage(wanted, n),
             Echo({i \in Matching(wanted, n) : log[i] \in About}), cursor' = n
      PROVE  /\ cursor' \in cursor..Len(log)
             /\ Echo({i \in cursor + 1 .. cursor' : log[i] \in wanted \cap About})
  <2>1. n \in cursor + 1 .. Len(log)
    BY <1>2 DEF FullPage
  <2>2. {i \in Matching(wanted, n) : log[i] \in About}
          = {i \in cursor + 1 .. cursor' : log[i] \in wanted \cap About}
    BY <1>2 DEF Matching
  <2>3. cursor' \in cursor..Len(log)
    BY <1>1, <1>2, <2>1
  <2> QED
    BY <1>2, <2>2, <2>3
<1>3. ASSUME Echo({i \in Matching(wanted, Len(log)) : log[i] \in About}),
             \/ Matching(wanted, Len(log)) = {} /\ cursor' = cursor
             \/ /\ cursor' \in Matching(wanted, Len(log))
                /\ \A i \in Matching(wanted, Len(log)) : i <= cursor'
      PROVE  /\ cursor' \in cursor..Len(log)
             /\ Echo({i \in cursor + 1 .. cursor' : log[i] \in wanted \cap About})
  <2>1. cursor' \in cursor..Len(log)
    BY <1>1, <1>3 DEF Matching
  <2>2. {i \in Matching(wanted, Len(log)) : log[i] \in About}
          = {i \in cursor + 1 .. cursor' : log[i] \in wanted \cap About}
    BY <1>1, <1>3, <2>1 DEF Matching
  <2> QED
    BY <1>3, <2>1, <2>2
<1>4. /\ cursor' \in cursor..Len(log)
      /\ Echo({i \in cursor + 1 .. cursor' : log[i] \in wanted \cap About})
  BY <1>2, <1>3 DEF Follow
<1> QED
  BY <1>4

\* One poll of a command that follows.
LEMMA FollowInv == ASSUME Inv, Follow PROVE Inv'
<1>1. PICK T \in SUBSET (cursor + 1 .. cursor') :
           /\ cursor' \in cursor..Len(log)
           /\ T = {i \in cursor + 1 .. cursor' : log[i] \in wanted \cap About}
           /\ Echo(T)
  BY FollowPage
<1>2. /\ pc = "follow" /\ pc' = "asleep"
      /\ UNCHANGED <<log, mode, wanted, known, seen, events, history, start>>
  BY DEF Follow
<1>3. /\ Len(log) \in Nat /\ cursor \in Nat /\ cursor <= Len(log) /\ Len(log) <= MaxEvents
      /\ MaxEvents \in Nat /\ start \in Nat /\ shown \in [1..MaxEvents -> Nat]
  BY TailAssumption DEF Inv, TypeOK
<1>4. /\ shown' \in [1..MaxEvents -> Nat]
      /\ \A i \in 1..MaxEvents : i \in T => shown'[i] > 0
      /\ \A i \in 1..MaxEvents : i \notin T => shown'[i] = shown[i]
  BY <1>1, <1>3, EchoShown
<1>5. TypeOK'
  BY <1>1, <1>2, <1>3, <1>4 DEF Inv, TypeOK, Following
<1>6. \A i \in 1..MaxEvents : shown[i] > 0 => shown'[i] > 0
  BY <1>4
<1>7. Behind'
  <2>1. \A i \in 1..MaxEvents : shown'[i] > 0 => i <= cursor'
    <3> SUFFICES ASSUME NEW i \in 1..MaxEvents, shown'[i] > 0, i \notin T PROVE i <= cursor'
      BY <1>1, <1>3
    <3>1. shown[i] > 0
      BY <1>4
    <3>2. i <= cursor
      BY <1>2, <3>1 DEF Inv, Behind, Following
    <3> QED
      BY <1>1, <1>3, <3>2
  <2>2. cursor' \in Nat /\ cursor' <= Len(log)
    BY <1>1, <1>3
  <2> QED
    BY <1>2, <1>3, <2>1, <2>2 DEF Inv, Behind, Scanning, Following, Stopped
<1>8. NothingSkipped'
  <2> SUFFICES ASSUME NEW i \in start + 1 .. cursor', log[i] \in wanted \cap About
               PROVE  shown'[i] > 0
    BY <1>2 DEF NothingSkipped, About
  <2>1. i \in 1..MaxEvents
    BY <1>1, <1>3
  <2>2. CASE i <= cursor
    BY <1>2, <1>3, <1>6, <2>1, <2>2 DEF Inv, NothingSkipped, Following
  <2>3. CASE i > cursor
    BY <1>1, <1>3, <1>4, <2>1, <2>3
  <2> QED
    BY <1>3, <2>2, <2>3
<1>9. HistoryWhole'
  <2>1. 1..history \subseteq 1..MaxEvents
    BY <1>3 DEF Inv, TypeOK
  <2> QED
    BY <1>2, <1>6, <2>1 DEF Inv, HistoryWhole, Subtree, About, Following
<1>10. ScanOK' /\ KnownOK'
  BY <1>2 DEF Inv, ScanOK, KnownOK
<1> QED
  BY <1>5, <1>7, <1>8, <1>9, <1>10 DEF Inv

\* Every step keeps the invariant.
LEMMA StepInv == ASSUME Inv, [Next]_vars PROVE Inv'
<1>1. CASE UNCHANGED vars
  BY <1>1, QuietInv
<1>2. CASE \E c \in Classes : Commit(c)
  BY <1>2, CommitInv
<1>3. CASE Poll
  BY <1>3, ScanOnInv, QuietInv, CreatedEndInv, HistoryEndInv, TailCursorInv, FollowInv DEF Poll
<1>4. CASE PollFails \/ Wake \/ Stop
  BY <1>4, QuietInv
<1> QED
  BY <1>1, <1>2, <1>3, <1>4 DEF Next

\* No step prints an event that is not newer than all that have been printed.
LEMMA StepInOrder ==
  ASSUME Inv, [Next]_vars
  PROVE  \A i, j \in 1..MaxEvents : shown'[i] > shown[i] /\ shown[j] > 0 => j < i
<1> SUFFICES ASSUME NEW i \in 1..MaxEvents, NEW j \in 1..MaxEvents,
                    shown'[i] > shown[i], shown[j] > 0
             PROVE  j < i
  OBVIOUS
<1>1. shown \in [1..MaxEvents -> Nat]
  BY DEF Inv, TypeOK
<1>2. CASE UNCHANGED shown
  BY <1>1, <1>2
<1>3. CASE HistoryEnd
  <2>1. shown[j] = 0
    BY <1>3 DEF HistoryEnd, Inv, Behind, Scanning
  <2> QED
    BY <2>1
<1>4. CASE Follow
  <2>1. PICK T \in SUBSET (cursor + 1 .. cursor') : Echo(T)
    BY <1>4, FollowPage
  <2>2. i \in T
    BY <1>1, <2>1, EchoShown
  <2>3. j <= cursor
    BY <1>4 DEF Follow, Inv, Behind, Following
  <2>4. cursor \in Nat /\ i \in cursor + 1 .. cursor'
    BY <2>2 DEF Inv, TypeOK
  <2> QED
    BY <2>3, <2>4
<1>5. UNCHANGED shown \/ HistoryEnd \/ Follow
  BY DEF Next, Poll, Commit, clientVars, ScanOn, ScanTooLong, CreatedEnd, TailCursor, PollFails,
         Wake, Stop, vars
<1> QED
  BY <1>2, <1>3, <1>4, <1>5

\* The invariant holds of every reachable state.
LEMMA Invariance == Spec => []Inv
<1> QED
  BY InitInv, StepInv, PTL DEF Spec

\* Type correctness for every log, page and limit.
THEOREM TypeCorrect == Spec => []TypeOK
<1>1. Inv => TypeOK
  BY DEF Inv
<1> QED
  BY <1>1, Invariance, PTL

\* A command that follows has printed everything it is about up to its cursor.
THEOREM FollowsAll == Spec => []NothingSkipped
<1>1. Inv => NothingSkipped
  BY DEF Inv
<1> QED
  BY <1>1, Invariance, PTL

\* The history printed holds every event of the task, and of the subtasks created before
\* the scan for them ended, that newer ones do not push out.
THEOREM HistoryIsWhole == Spec => []HistoryWhole
<1>1. Inv => HistoryWhole
  BY DEF Inv
<1> QED
  BY <1>1, Invariance, PTL

\* Events are printed in the order of the log, each once.
THEOREM PrintsInOrder == Spec => ShownInOrder
<1>1. Inv /\ [Next]_vars
        => [\A i, j \in 1..MaxEvents : shown'[i] > shown[i] /\ shown[j] > 0 => j < i]_vars
  BY StepInOrder
<1> QED
  BY <1>1, Invariance, PTL DEF Spec, ShownInOrder

================================================================================
