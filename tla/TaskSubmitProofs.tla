---------------------------- MODULE TaskSubmitProofs ----------------------------
(***************************************************************************)
(* What stamps, exit codes and skipped files mean, for any number of files *)
(* and tasks, of runs side by side and of lost requests and answers.       *)
(***************************************************************************)
EXTENDS TaskSubmit, TLAPS

(* What a run that is posting a file knows about it: nothing has failed so *)
(* far only if every task so far is in the store, and something has been   *)
(* sent only if something is.                                              *)
Posting(r) ==
  /\ run[r].failed = 0 => \A i \in 1..(run[r].next - 1) : stored[run[r].file][i] > 0
  /\ run[r].sent > 0 => \E i \in Positions(run[r].file) : stored[run[r].file][i] > 0

PostingOK == \A r \in Runs : run[r].pc = "post" => Posting(r)

(* A run of the tool for one file is about a file.                         *)
OneFile ==
  tool = "quadlet" => \A r \in Runs : run[r].pc = "pick" => run[r].file = run[r].last /\ run[r].last > 0

(* What either tool may stamp: a file it could read, of which something is *)
(* stored, or everything.                                                  *)
Earned(f) ==
  /\ content[f] \in TaskLists
  /\ IF tool = "batch" THEN \E i \in Positions(f) : stored[f][i] > 0 ELSE AllStored(f)

StampsEarned == \A f \in stamps : Earned(f)
OkEarned ==
  tool = "quadlet" => \A r \in Runs : run[r].pc = "ended" /\ run[r].code = "ok" =>
                        \E f \in Files : f = run[r].file /\ Earned(f)

Inv == TypeOK /\ PostingOK /\ OneFile /\ StampsEarned /\ OkEarned

RunStates == [pc : {"idle", "pick", "post", "ended"},
              file : 1..(NFiles + 1), last : 0..NFiles, next : 1..(MaxLength + 1),
              sent : Nat, failed : Nat, total : Nat,
              code : {"none", "ok", "error", "killed"}]

\* The positions of a readable file are the first few numbers.
LEMMA PositionsOf ==
  ASSUME NEW f \in Files, content[f] \in TaskLists
  PROVE  \E n \in 0..MaxLength : Positions(f) = 1..n /\ content[f] \in [1..n -> TaskKinds]
BY DEF TaskLists, Positions

LEMMA BetweenState ==
  ASSUME NEW pc \in {"idle", "pick", "ended"}, NEW file \in 1..(NFiles + 1), NEW last \in 0..NFiles,
         NEW total \in Nat, NEW code \in {"none", "ok", "error", "killed"}
  PROVE  LET s == Between(pc, file, last, total, code)
         IN /\ s \in RunStates
            /\ s.pc = pc /\ s.file = file /\ s.last = last /\ s.total = total /\ s.code = code
BY SubmitAssumption DEF Between, RunStates

\* What is in the store stays there.
Kept == \A f \in Files : \A i \in 1..MaxLength : stored[f][i] > 0 => stored'[f][i] > 0

\* A stamp that was earned stays so, and so does what a posting run knows.
LEMMA EarnedKept ==
  ASSUME Kept, UNCHANGED <<tool, content>>, NEW f \in Files, Earned(f)
  PROVE  Earned(f)'
<1>1. content[f] \in TaskLists
  BY DEF Earned
<1>2. PICK n \in 0..MaxLength : Positions(f) = 1..n
  BY <1>1, PositionsOf
<1>3. Positions(f)' = Positions(f)
  BY DEF Positions
<1>4. \A i \in Positions(f) : i \in 1..MaxLength
  BY <1>2, SubmitAssumption
<1>. QED
  BY <1>1, <1>3, <1>4 DEF Earned, AllStored, Kept

LEMMA PostingKept ==
  ASSUME TypeOK, Kept, UNCHANGED <<tool, content>>, NEW r \in Runs, run[r].pc = "post", Posting(r),
         run'[r] = run[r]
  PROVE  Posting(r)'
<1>1. run[r].file \in Files /\ content[run[r].file] \in TaskLists
  BY DEF TypeOK
<1>2. PICK n \in 0..MaxLength : Positions(run[r].file) = 1..n
  BY <1>1, PositionsOf
<1>3. \A i \in 1..(run[r].next - 1) : i \in 1..MaxLength
  BY SubmitAssumption DEF TypeOK
<1>4. \A i \in Positions(run[r].file) : i \in 1..MaxLength
  BY <1>2, SubmitAssumption
<1>5. Positions(run[r].file)' = Positions(run[r].file)
  BY DEF Positions
<1>. QED
  BY <1>1, <1>3, <1>4, <1>5 DEF Posting, Kept

\* The other runs, and all stamps but a new one, are not disturbed by a step of
\* one run.
LEMMA OthersKept ==
  ASSUME Inv, Kept, UNCHANGED <<tool, content>>, NEW r \in Runs,
         NEW s \in RunStates, run' = [run EXCEPT ![r] = s]
  PROVE  /\ run' \in [Runs -> RunStates]
         /\ run'[r] = s
         /\ \A q \in Runs \ {r} : run'[q] = run[q]
         /\ \A q \in Runs \ {r} : run'[q].pc = "post" => Posting(q)'
         /\ \A f \in stamps : Earned(f)'
         /\ tool = "quadlet" => \A q \in Runs \ {r} : run'[q].pc = "ended" /\ run'[q].code = "ok" =>
                        \E f \in Files : f = run'[q].file /\ Earned(f)'
<1>1. run \in [Runs -> RunStates] /\ stamps \subseteq Files
  BY DEF Inv, TypeOK, RunStates
<1>2. \A q \in Runs \ {r} : run'[q] = run[q]
  BY <1>1
<1>3. ASSUME NEW q \in Runs \ {r}, run'[q].pc = "post"
      PROVE  Posting(q)'
  BY <1>2, <1>3, PostingKept DEF Inv, PostingOK
<1>4. \A f \in stamps : Earned(f)'
  BY <1>1, EarnedKept DEF Inv, StampsEarned
<1>5. ASSUME tool = "quadlet", NEW q \in Runs \ {r}, run'[q].pc = "ended", run'[q].code = "ok"
      PROVE  \E f \in Files : f = run'[q].file /\ Earned(f)'
  <2>1. PICK f \in Files : f = run[q].file /\ Earned(f)
    BY <1>2, <1>5 DEF Inv, OkEarned
  <2>2. Earned(f)'
    BY <2>1, EarnedKept
  <2>. QED
    BY <1>2, <2>1, <2>2
<1>. QED
  BY <1>1, <1>2, <1>3, <1>4, <1>5

\* What one run has to show for its step.
LEMMA StepOfOne ==
  ASSUME Inv, Kept, UNCHANGED <<tool, content>>, NEW r \in Runs,
         NEW s \in RunStates, run' = [run EXCEPT ![r] = s],
         stored' \in [Files -> [1..MaxLength -> 0..2]], faults' \in 0..MaxFaults,
         stamps' \subseteq Files, \A f \in stamps' \ stamps : Earned(f)',
         s.pc = "post" => /\ s.file \in Files
                          /\ content[s.file] \in TaskLists
                          /\ s.sent + s.failed = s.next - 1
                          /\ Posting(r)',
         tool = "quadlet" /\ s.pc = "pick" => s.file = s.last /\ s.last > 0,
         tool = "quadlet" /\ s.pc = "ended" /\ s.code = "ok" =>
           \E f \in Files : f = s.file /\ Earned(f)'
  PROVE  Inv'
<1>. USE OthersKept
<1>1. run' \in [Runs -> RunStates] /\ run'[r] = s /\ \A q \in Runs \ {r} : run'[q] = run[q]
  OBVIOUS
<1>2. TypeOK'
  <2>1. \A q \in Runs : run'[q].pc = "post" =>
          /\ run'[q].file \in Files
          /\ content'[run'[q].file] \in TaskLists
          /\ run'[q].sent + run'[q].failed = run'[q].next - 1
    BY <1>1 DEF Inv, TypeOK
  <2>. QED
    BY <1>1, <2>1 DEF Inv, TypeOK, RunStates
<1>3. PostingOK'
  BY <1>1 DEF PostingOK
<1>4. OneFile'
  BY <1>1 DEF Inv, OneFile
<1>5. StampsEarned'
  BY DEF StampsEarned
<1>6. OkEarned'
  BY <1>1 DEF OkEarned
<1>. QED
  BY <1>2, <1>3, <1>4, <1>5, <1>6 DEF Inv

LEMMA InitInv == Init => Inv
<1>. SUFFICES ASSUME Init PROVE Inv
  OBVIOUS
<1>1. \A r \in Runs : run[r] \in RunStates /\ run[r].pc = "idle"
  BY BetweenState, SubmitAssumption DEF Init
<1>2. TypeOK
  BY <1>1, SubmitAssumption DEF Init, TypeOK, RunStates
<1>3. PostingOK /\ OneFile /\ StampsEarned /\ OkEarned
  BY <1>1 DEF Init, PostingOK, OneFile, StampsEarned, OkEarned
<1>. QED
  BY <1>2, <1>3 DEF Inv

LEMMA KeptByStutter == TypeOK /\ stored' = stored => Kept
BY DEF Kept

LEMMA BeginInv ==
  ASSUME Inv, NEW r \in Runs, Begin(r)
  PROVE  Inv'
<1>1. PICK f \in Files, n \in Files :
        /\ run' = [run EXCEPT ![r] = Between("pick", f, n, 0, "none")]
        /\ tool = "quadlet" => f = n
  BY SubmitAssumption DEF Begin, Files
<1>. DEFINE s == Between("pick", f, n, 0, "none")
<1>2. s \in RunStates /\ s.pc = "pick" /\ s.file = f /\ s.last = n
  BY BetweenState, SubmitAssumption DEF Files
<1>3. run' = [run EXCEPT ![r] = s]
  BY <1>1
<1>4. tool = "quadlet" => s.file = s.last /\ s.last > 0
  BY <1>1, <1>2 DEF Files
<1>5. UNCHANGED <<tool, content, stamps, stored, faults>>
  BY DEF Begin
<1>. HIDE DEF s
<1>. QED
  BY <1>2, <1>3, <1>4, <1>5, KeptByStutter, StepOfOne DEF Inv, TypeOK

\* A run that ends.
LEMMA LeaveInv ==
  ASSUME Inv, NEW r \in Runs, NEW code \in {"ok", "error", "killed"}, Leave(r, code),
         UNCHANGED <<tool, content, stored, faults>>, stamps' \subseteq Files,
         \A f \in stamps' \ stamps : Earned(f),
         tool = "quadlet" /\ code = "ok" => run[r].file \in Files /\ Earned(run[r].file)
  PROVE  Inv'
<1>1. run[r] \in RunStates
  BY DEF Inv, TypeOK, RunStates
<1>. DEFINE s == Between("ended", run[r].file, run[r].last, run[r].total, code)
<1>2. s \in RunStates /\ s.pc = "ended" /\ s.file = run[r].file /\ s.code = code
  BY <1>1, BetweenState DEF RunStates
<1>3. run' = [run EXCEPT ![r] = s]
  BY DEF Leave
<1>4. Kept
  BY KeptByStutter DEF Inv
<1>5. \A f \in Files : Earned(f) => Earned(f)'
  BY <1>4, EarnedKept
<1>6. tool = "quadlet" /\ code = "ok" => \E f \in Files : f = s.file /\ Earned(f)'
  BY <1>2, <1>5
<1>. HIDE DEF s
<1>. QED
  BY <1>2, <1>3, <1>4, <1>5, <1>6, StepOfOne DEF Inv, TypeOK

\* A batch that goes on to the next file.
LEMMA GoOnInv ==
  ASSUME Inv, NEW r \in Runs, NEW total \in Nat, GoOn(r, total), run[r].file \in Files,
         UNCHANGED <<tool, content, stored, faults>>, stamps' \subseteq Files,
         \A f \in stamps' \ stamps : Earned(f),
         tool = "quadlet" => Earned(run[r].file)
  PROVE  Inv'
<1>1. CASE tool = "batch"
  <2>1. run[r] \in RunStates
    BY DEF Inv, TypeOK, RunStates
  <2>. DEFINE s == Between("pick", run[r].file + 1, run[r].last, total, "none")
  <2>2. run[r].file + 1 \in 1..(NFiles + 1) /\ run[r].last \in 0..NFiles
    BY <2>1, SubmitAssumption DEF RunStates, Files
  <2>6. s \in RunStates /\ s.pc = "pick"
    BY <2>2, BetweenState
  <2>3. run' = [run EXCEPT ![r] = s]
    BY <1>1 DEF GoOn
  <2>4. Kept
    BY KeptByStutter DEF Inv
  <2>5. \A f \in Files : Earned(f) => Earned(f)'
    BY <2>4, EarnedKept
  <2>. HIDE DEF s
  <2>. QED
    BY <1>1, <2>6, <2>3, <2>4, <2>5, StepOfOne DEF Inv, TypeOK
<1>2. CASE tool # "batch"
  BY <1>2, SubmitAssumption, LeaveInv DEF GoOn
<1>. QED
  BY <1>1, <1>2

LEMMA LoadInv ==
  ASSUME Inv, NEW r \in Runs, run[r].file \in Files, Load(r),
         UNCHANGED <<tool, content, stamps, stored, faults>>,
         run[r].pc = "pick", run[r].next = 1, run[r].sent = 0, run[r].failed = 0
  PROVE  Inv'
<1>1. CASE content[run[r].file] = Unreadable
  BY <1>1, LeaveInv DEF Load, Inv, TypeOK
<1>2. CASE content[run[r].file] # Unreadable
  <2>. DEFINE s == [run[r] EXCEPT !.pc = "post"]
  <2>1. run[r] \in RunStates
    BY DEF Inv, TypeOK, RunStates
  <2>2. /\ s \in RunStates
        /\ s.pc = "post" /\ s.file = run[r].file /\ s.next = 1 /\ s.sent = 0 /\ s.failed = 0
    BY <2>1 DEF RunStates
  <2>3. run' = [run EXCEPT ![r] = s]
    BY <1>2 DEF Load
  <2>4. run'[r] = s
    BY <2>3, <2>1 DEF Inv, TypeOK
  <2>5. content[s.file] \in TaskLists
    BY <1>2, <2>2 DEF Inv, TypeOK
  <2>. HIDE DEF s
  <2>6. Posting(r)'
    BY <2>2, <2>4 DEF Posting
  <2>7. Kept
    BY KeptByStutter DEF Inv
  <2>8. /\ stored' \in [Files -> [1..MaxLength -> 0..2]] /\ faults' \in 0..MaxFaults
        /\ stamps' \subseteq Files /\ stamps' \ stamps = {}
    BY DEF Inv, TypeOK
  <2>9. s.file \in Files /\ s.sent + s.failed = s.next - 1
    BY <2>2
  <2>. QED
    BY <2>2, <2>3, <2>5, <2>6, <2>7, <2>8, <2>9, StepOfOne
<1>. QED
  BY <1>1, <1>2

(* A run that picks a file has nothing of the last one in hand.            *)
Clean == \A r \in Runs : run[r].pc # "post" => run[r].next = 1 /\ run[r].sent = 0 /\ run[r].failed = 0

LEMMA PickInv ==
  ASSUME Inv, Clean, NEW r \in Runs, Pick(r)
  PROVE  Inv'
<1>1. run[r] \in RunStates /\ run[r].pc = "pick" /\ UNCHANGED <<tool, content, stamps, stored, faults>>
  BY DEF Pick, Inv, TypeOK, RunStates
<1>2. CASE run[r].file > run[r].last \/ Enough(r)
  <2>1. tool # "quadlet"
    BY <1>1, <1>2 DEF Inv, OneFile, Enough, RunStates
  <2>. QED
    BY <1>1, <1>2, <2>1, LeaveInv DEF Pick, Inv, TypeOK
<1>3. CASE ~(run[r].file > run[r].last \/ Enough(r))
  <2>1. run[r].file \in Files
    BY <1>1, <1>3, SubmitAssumption DEF RunStates, Files
  <2>2. CASE run[r].file \in stamps
    BY <1>1, <1>3, <2>1, <2>2, GoOnInv DEF Pick, Inv, TypeOK, StampsEarned, RunStates
  <2>3. CASE run[r].file \notin stamps
    BY <1>1, <1>3, <2>1, <2>3, LoadInv DEF Pick, Clean
  <2>. QED
    BY <2>2, <2>3
<1>. QED
  BY <1>2, <1>3

LEMMA DeliverEffect ==
  ASSUME TypeOK, NEW f \in Files, NEW i \in 1..MaxLength, NEW d \in Deliveries, Deliver(f, i, d)
  PROVE  /\ faults' \in 0..MaxFaults
         /\ stored' \in [Files -> [1..MaxLength -> 0..2]]
         /\ Kept
         /\ d = "answered" => stored'[f][i] > 0
         /\ \A g \in Files \ {f} : stored'[g] = stored[g]
<1>1. stored \in [Files -> [1..MaxLength -> 0..2]] /\ faults \in 0..MaxFaults
  BY DEF TypeOK
<1>2. faults' \in 0..MaxFaults
  <2>1. CASE d = "answered"
    BY <1>1, <2>1 DEF Deliver
  <2>2. CASE d # "answered"
    <3>1. faults < MaxFaults /\ faults' = faults + 1
      BY <2>2 DEF Deliver
    <3>. QED
      BY <1>1, <3>1, SubmitAssumption
  <2>. QED
    BY <2>1, <2>2
<1>3. CASE d = "request lost"
  BY <1>1, <1>2, <1>3 DEF Deliver, Kept
<1>4. CASE d # "request lost"
  <2>. DEFINE v == IF stored[f][i] = 0 THEN 1 ELSE 2
              row == [stored[f] EXCEPT ![i] = v]
  <2>1. stored' = [stored EXCEPT ![f] = row]
    BY <1>4 DEF Deliver
  <2>2. v \in 0..2 /\ v > 0
    OBVIOUS
  <2>. HIDE DEF v
  <2>3. row \in [1..MaxLength -> 0..2] /\ row[i] = v /\ \A j \in 1..MaxLength \ {i} : row[j] = stored[f][j]
    BY <1>1, <2>2
  <2>. HIDE DEF row
  <2>4. stored' \in [Files -> [1..MaxLength -> 0..2]] /\ stored'[f] = row
        /\ \A g \in Files \ {f} : stored'[g] = stored[g]
    BY <1>1, <2>1, <2>3
  <2>5. Kept
    BY <2>2, <2>3, <2>4 DEF Kept
  <2>. QED
    BY <1>2, <2>2, <2>3, <2>4, <2>5
<1>. QED
  BY <1>3, <1>4

\* What a step does to its run, as far as every action knows.
LEMMA CountedEffect ==
  ASSUME run \in [Runs -> RunStates], NEW r \in Runs, NEW sent, Counted(r, sent)
  PROVE  /\ run'[r].pc = run[r].pc /\ run'[r].file = run[r].file
         /\ \A q \in Runs \ {r} : run'[q] = run[q]
<1>. DEFINE a == IF sent THEN run[r].sent + 1 ELSE run[r].sent
            b == IF sent THEN run[r].failed ELSE run[r].failed + 1
<1>1. run' = [run EXCEPT ![r] = [run[r] EXCEPT !.next = run[r].next + 1, !.sent = a, !.failed = b]]
  BY DEF Counted
<1>. HIDE DEF a, b
<1>. QED
  BY <1>1 DEF RunStates

LEMMA BetweenEffect ==
  ASSUME run \in [Runs -> RunStates], NEW r \in Runs, NEW pc, NEW file, NEW last, NEW total, NEW code,
         run' = [run EXCEPT ![r] = Between(pc, file, last, total, code)]
  PROVE  /\ run'[r].pc = pc /\ run'[r].next = 1 /\ run'[r].sent = 0 /\ run'[r].failed = 0
         /\ \A q \in Runs \ {r} : run'[q] = run[q]
BY DEF Between

LEMMA LeaveEffect ==
  ASSUME run \in [Runs -> RunStates], NEW r \in Runs, NEW code, Leave(r, code)
  PROVE  /\ run'[r].pc = "ended" /\ run'[r].next = 1 /\ run'[r].sent = 0 /\ run'[r].failed = 0
         /\ \A q \in Runs \ {r} : run'[q] = run[q]
BY BetweenEffect DEF Leave

LEMMA GoOnEffect ==
  ASSUME run \in [Runs -> RunStates], NEW r \in Runs, NEW total, GoOn(r, total)
  PROVE  /\ run'[r].pc # "post" /\ run'[r].next = 1 /\ run'[r].sent = 0 /\ run'[r].failed = 0
         /\ \A q \in Runs \ {r} : run'[q] = run[q]
<1>1. CASE tool = "batch"
  BY <1>1, BetweenEffect DEF GoOn
<1>2. CASE tool # "batch"
  BY <1>2, LeaveEffect DEF GoOn
<1>. QED
  BY <1>1, <1>2

\* A run comes to post only by reading a file without a stamp.
LEMMA StepEffect ==
  ASSUME TypeOK, NEW r \in Runs, Begin(r) \/ Step(r) \/ Kill(r)
  PROVE  /\ \A q \in Runs \ {r} : run'[q] = run[q]
         /\ \/ /\ run'[r].pc # "post"
               /\ run'[r].next = 1 /\ run'[r].sent = 0 /\ run'[r].failed = 0
            \/ /\ run[r].pc = "pick" /\ run[r].file \notin stamps
               /\ run'[r].pc = "post" /\ run'[r].file = run[r].file
            \/ run[r].pc = "post" /\ run'[r].pc = "post" /\ run'[r].file = run[r].file
<1>1. run \in [Runs -> RunStates]
  BY DEF TypeOK, RunStates
<1>2. CASE Begin(r)
  BY <1>1, <1>2, BetweenEffect DEF Begin
<1>3. CASE Kill(r)
  BY <1>1, <1>3, LeaveEffect DEF Kill
<1>4. CASE Finish(r)
  BY <1>1, <1>4, LeaveEffect, GoOnEffect DEF Finish
<1>5. CASE Pick(r)
  <2>1. CASE \E code : Leave(r, code)
    BY <1>1, <2>1, LeaveEffect
  <2>2. CASE \E total : GoOn(r, total)
    BY <1>1, <2>2, GoOnEffect
  <2>3. CASE run' = [run EXCEPT ![r].pc = "post"] /\ run[r].file \notin stamps
    BY <1>1, <1>5, <2>3 DEF Pick, RunStates
  <2>. QED
    BY <1>5, <2>1, <2>2, <2>3 DEF Pick, Load
<1>6. CASE Post(r)
  <2>1. CASE \E code : Leave(r, code)
    BY <1>1, <2>1, LeaveEffect
  <2>2. CASE \E sent : Counted(r, sent)
    BY <1>1, <1>6, <2>2, CountedEffect DEF Post
  <2>. QED
    BY <1>6, <2>1, <2>2 DEF Post
<1>. QED
  BY <1>2, <1>3, <1>4, <1>5, <1>6 DEF Step

LEMMA PostInv ==
  ASSUME Inv, NEW r \in Runs, Post(r)
  PROVE  Inv'
<1>0. PICK f, i : f = run[r].file /\ i = run[r].next
  OBVIOUS
<1>1. /\ run[r] \in RunStates /\ run[r].pc = "post" /\ i \in Positions(f)
      /\ f \in Files /\ content[f] \in TaskLists /\ run[r].sent + run[r].failed = i - 1
      /\ Posting(r)
      /\ UNCHANGED <<tool, content, stamps>>
  BY <1>0 DEF Post, Inv, TypeOK, RunStates, PostingOK
<1>2. PICK n \in 0..MaxLength : Positions(f) = 1..n
  BY <1>1, PositionsOf
<1>3. i \in 1..MaxLength
  BY <1>1, <1>2, SubmitAssumption
<1>4. CASE Leave(r, "error") /\ UNCHANGED <<stored, faults>>
  BY <1>1, <1>4, LeaveInv DEF Inv, TypeOK
<1>5. ASSUME NEW sent \in BOOLEAN, Counted(r, sent), faults' \in 0..MaxFaults, Kept,
             stored' \in [Files -> [1..MaxLength -> 0..2]], sent => stored'[f][i] > 0
      PROVE  Inv'
  <2>. DEFINE s == [run[r] EXCEPT !.next = @ + 1,
                                  !.sent = IF sent THEN @ + 1 ELSE @,
                                  !.failed = IF sent THEN @ ELSE @ + 1]
  <2>1. /\ s.pc = "post" /\ s.file = f /\ s.next = i + 1
        /\ s.sent = IF sent THEN run[r].sent + 1 ELSE run[r].sent
        /\ s.failed = IF sent THEN run[r].failed ELSE run[r].failed + 1
    BY <1>0, <1>1 DEF RunStates
  <2>2. s \in RunStates
    <3>1. /\ i + 1 \in 1..(MaxLength + 1)
          /\ (IF sent THEN run[r].sent + 1 ELSE run[r].sent) \in Nat
          /\ (IF sent THEN run[r].failed ELSE run[r].failed + 1) \in Nat
      BY <1>1, <1>3, SubmitAssumption DEF RunStates
    <3>. QED
      BY <1>0, <1>1, <3>1 DEF RunStates
  <2>3. run' = [run EXCEPT ![r] = s] /\ run'[r] = s
    BY <1>5 DEF Counted, Inv, TypeOK
  <2>6. s.sent + s.failed = s.next - 1
    <3>1. run[r].sent \in Nat /\ run[r].failed \in Nat /\ i \in Nat
      BY <1>1, <1>3 DEF RunStates
    <3>2. CASE sent
      BY <1>1, <2>1, <3>1, <3>2
    <3>3. CASE ~sent
      BY <1>1, <2>1, <3>1, <3>3
    <3>. QED
      BY <3>2, <3>3
  <2>. HIDE DEF s
  <2>7. ASSUME s.failed = 0
        PROVE  \A j \in 1..(s.next - 1) : stored'[f][j] > 0
    <3>1. sent /\ run[r].failed = 0
      BY <1>1, <2>1, <2>7 DEF RunStates
    <3>2. \A j \in 1..(i - 1) : stored[f][j] > 0
      BY <1>0, <1>1, <3>1 DEF Posting
    <3>. QED
      BY <1>1, <1>3, <2>1, <1>5, <3>1, <3>2, SubmitAssumption DEF Kept
  <2>8. ASSUME s.sent > 0
        PROVE  \E j \in Positions(f)' : stored'[f][j] > 0
    <3>1. Positions(f)' = Positions(f)
      BY <1>1 DEF Positions
    <3>2. CASE sent
      BY <1>1, <1>5, <3>1, <3>2
    <3>3. CASE ~sent
      <4>1. \E j \in Positions(f) : stored[f][j] > 0
        BY <1>0, <1>1, <2>1, <2>8, <3>3 DEF Posting
      <4>. QED
        BY <1>1, <1>2, <1>5, <3>1, <4>1, SubmitAssumption DEF Kept
    <3>. QED
      BY <3>2, <3>3
  <2>9. Posting(r)'
    BY <2>1, <2>3, <2>7, <2>8 DEF Posting
  <2>. QED
    BY <1>1, <1>5, <2>1, <2>2, <2>3, <1>5, <2>6, <2>9, StepOfOne DEF Inv, TypeOK
<1>. QED
  <2>1. CASE Counted(r, FALSE) /\ UNCHANGED <<stored, faults>>
    BY <1>5, <2>1, KeptByStutter DEF Inv, TypeOK
  <2>2. ASSUME NEW d \in Deliveries, Deliver(f, i, d), Counted(r, d = "answered")
        PROVE  Inv'
    BY <1>1, <1>3, <1>5, <2>2, DeliverEffect DEF Inv
  <2>3. ASSUME NEW d \in Deliveries, Deliver(f, i, d), Leave(r, "error")
        PROVE  Inv'
    <3>. DEFINE s == Between("ended", run[r].file, run[r].last, run[r].total, "error")
    <3>1. s \in RunStates /\ s.pc = "ended" /\ s.code = "error"
      BY <1>1, BetweenState DEF RunStates
    <3>2. run' = [run EXCEPT ![r] = s]
      BY <2>3 DEF Leave
    <3>3. /\ Kept /\ faults' \in 0..MaxFaults
          /\ stored' \in [Files -> [1..MaxLength -> 0..2]]
      BY <1>1, <1>3, <2>3, DeliverEffect DEF Inv
    <3>. HIDE DEF s
    <3>. QED
      BY <1>1, <3>1, <3>2, <3>3, StepOfOne DEF Inv, TypeOK
  <2>. QED
    BY <1>0, <1>4, <2>1, <2>2, <2>3 DEF Post

LEMMA FinishInv ==
  ASSUME Inv, NEW r \in Runs, Finish(r)
  PROVE  Inv'
<1>. DEFINE f == run[r].file
<1>1. /\ run[r] \in RunStates /\ run[r].pc = "post" /\ run[r].next \notin Positions(f)
      /\ f \in Files /\ content[f] \in TaskLists
      /\ run[r].sent + run[r].failed = run[r].next - 1
      /\ Posting(r)
      /\ UNCHANGED <<tool, content, stored, faults>>
  BY DEF Finish, Finished, Inv, TypeOK, RunStates, PostingOK
<1>2. PICK n \in 0..MaxLength : Positions(f) = 1..n
  BY <1>1, PositionsOf
<1>3. \A i \in Positions(f) : i \in 1..(run[r].next - 1)
  BY <1>1, <1>2 DEF RunStates
<1>4. run[r].failed = 0 => AllStored(f)
  BY <1>1, <1>3 DEF Posting, AllStored
<1>5. CASE tool = "batch"
  <2>1. run[r].total + run[r].sent \in Nat
    BY <1>1 DEF RunStates
  <2>2. GoOn(r, run[r].total + run[r].sent) /\ StampFile(r, run[r].sent > 0)
    BY <1>5 DEF Finish
  <2>3. stamps' \subseteq Files /\ \A g \in stamps' \ stamps : Earned(g)
    BY <1>1, <1>5, <2>2 DEF StampFile, Earned, Posting, Inv, TypeOK
  <2>. QED
    BY <1>1, <1>5, <2>1, <2>2, <2>3, GoOnInv
<1>6. CASE tool # "batch"
  <2>1. /\ Leave(r, IF run[r].failed = 0 THEN "ok" ELSE "error")
        /\ StampFile(r, run[r].failed = 0)
    BY <1>6 DEF Finish
  <2>2. stamps' \subseteq Files /\ \A g \in stamps' \ stamps : Earned(g)
    BY <1>1, <1>4, <1>6, <2>1 DEF StampFile, Earned, Inv, TypeOK
  <2>3. run[r].failed = 0 => Earned(f)
    BY <1>1, <1>4, <1>6 DEF Earned
  <2>. QED
    BY <1>1, <2>1, <2>2, <2>3, LeaveInv
<1>. QED
  BY <1>5, <1>6

LEMMA KillInv ==
  ASSUME Inv, NEW r \in Runs, Kill(r)
  PROVE  Inv'
BY LeaveInv DEF Kill, Inv, TypeOK

LEMMA CleanStep ==
  ASSUME TypeOK, Clean, [Next]_vars
  PROVE  Clean'
<1>1. CASE UNCHANGED vars
  BY <1>1 DEF Clean, vars
<1>2. ASSUME NEW r \in Runs, Begin(r) \/ Step(r) \/ Kill(r)
      PROVE  Clean'
  <2>1. /\ \A q \in Runs \ {r} : run'[q] = run[q]
        /\ run'[r].pc # "post" => run'[r].next = 1 /\ run'[r].sent = 0 /\ run'[r].failed = 0
    BY <1>2, StepEffect
  <2>. QED
    BY <2>1 DEF Clean
<1>. QED
  BY <1>1, <1>2 DEF Next

THEOREM Inductive == Spec => [](Inv /\ Clean)
<1>1. Init => Inv /\ Clean
  BY InitInv DEF Init, Clean, Between
<1>2. Inv /\ Clean /\ [Next]_vars => (Inv /\ Clean)'
  <2>. SUFFICES ASSUME Inv, Clean, [Next]_vars PROVE Inv'
    BY CleanStep DEF Inv
  <2>1. CASE UNCHANGED vars
    BY <2>1 DEF vars, Inv, TypeOK, PostingOK, Posting, OneFile, StampsEarned, OkEarned, Earned, AllStored, Positions
  <2>. QED
    BY <2>1, BeginInv, PickInv, PostInv, FinishInv, KillInv DEF Next, Step
<1>. QED
  BY <1>1, <1>2, PTL DEF Spec

(* Every variable keeps its type, and a run that posts is about a file it  *)
(* could read.                                                             *)
THEOREM TypeCorrect == Spec => []TypeOK
<1>1. Inv => TypeOK
  BY DEF Inv
<1>. QED
  BY <1>1, Inductive, PTL

(* With submit-tasks-file.py, a file that has a stamp has all its tasks in *)
(* the store.                                                              *)
THEOREM StampsAreTrue == Spec => []StampTrue
<1>1. Inv => StampTrue
  BY DEF Inv, StampsEarned, Earned, StampTrue
<1>. QED
  BY <1>1, Inductive, PTL

(* So does a file for which that tool has exited with 0.                   *)
THEOREM OkIsTrue == Spec => []OkMeansStored
<1>1. Inv => OkMeansStored
  BY DEF Inv, OkEarned, Earned, OkMeansStored
<1>. QED
  BY <1>1, Inductive, PTL

(* With batch-submit.sh, a file that has a stamp has a task in the store.  *)
THEOREM StampsAreEarned == Spec => []StampEarned
<1>1. Inv => StampEarned
  BY DEF Inv, StampsEarned, Earned, StampEarned
<1>. QED
  BY <1>1, Inductive, PTL

================================================================================
