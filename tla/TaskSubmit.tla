------------------------------- MODULE TaskSubmit -------------------------------
(***************************************************************************)
(* How files of tasks reach the event store, and how the programs remember *)
(* that they did.  Two tools do it:                                        *)
(*                                                                         *)
(*   "batch"    batch-submit.sh: every file of a directory, in order, each *)
(*              by `yoitsu submit`, one POST per task                      *)
(*   "quadlet"  submit-tasks-file.py, in the pod: one file, one POST per   *)
(*              task                                                       *)
(*                                                                         *)
(* Each leaves a stamp beside a file it has submitted, and skips a file    *)
(* that has one.  They differ in what they refuse to post, in when they    *)
(* stamp, and in what a file they cannot read does to them.                *)
(*                                                                         *)
(* A POST may be lost on the way to Pasloe or its answer on the way back,  *)
(* and the tool cannot tell which.  Several runs may be under way at once, *)
(* and a run may be killed between any two steps.  Files do not change,    *)
(* and no two of them have the same name.                                  *)
(***************************************************************************)
EXTENDS Naturals

CONSTANTS
  NFiles,     \* the files, numbered in the order in which they sort
  MaxLength,  \* bound: tasks in a file
  Runs,       \* runs of the tool that may be under way together
  MaxTasks,   \* MAX_TASKS: a batch posts no further file after so many; 0: no limit
  MaxFaults   \* bound: requests and answers that are lost

ASSUME SubmitAssumption ==
  /\ NFiles \in Nat \ {0}
  /\ MaxLength \in Nat
  /\ MaxTasks \in Nat
  /\ MaxFaults \in Nat

Files == 1..NFiles

(* A task is a mapping with the fields of a task, a mapping that            *)
(* `yoitsu submit` refuses (no goal, a legacy or unknown field), or not a  *)
(* mapping at all.                                                         *)
TaskKinds == {"good", "refused", "odd"}
Unreadable == <<"unreadable">>
TaskLists == UNION {[1..n -> TaskKinds] : n \in 0..MaxLength}

VARIABLES
  tool,     \* the tool in use: "batch" or "quadlet"
  content,  \* the tasks of each file, or Unreadable
  stamps,   \* the files that have a stamp
  stored,   \* how often Pasloe has stored each task: once, or 2 for more than once
  run,      \* the state of each run of the tool
  faults    \* requests and answers lost so far

vars == <<tool, content, stamps, stored, run, faults>>

Positions(f) == DOMAIN content[f]
AllStored(f) == \A i \in Positions(f) : stored[f][i] > 0

\* A run that is not in the middle of a file.
Between(pc, file, last, total, code) ==
  [pc |-> pc, file |-> file, last |-> last, next |-> 1, sent |-> 0, failed |-> 0,
   total |-> total, code |-> code]

Init ==
  /\ tool \in {"batch", "quadlet"}
  /\ content \in [Files -> TaskLists \cup {Unreadable}]
  /\ stamps = {}
  /\ stored = [f \in Files |-> [i \in 1..MaxLength |-> 0]]
  /\ run = [r \in Runs |-> Between("idle", 1, 0, 0, "none")]
  /\ faults = 0

\* A run that ends, with the exit code of the tool.
Leave(r, code) ==
  run' = [run EXCEPT ![r] = Between("ended", @.file, @.last, @.total, code)]

\* The loop of a batch goes on to the next file; the other tool has one file.
GoOn(r, total) ==
  IF tool = "batch"
  THEN run' = [run EXCEPT ![r] = Between("pick", @.file + 1, @.last, total, "none")]
  ELSE Leave(r, "ok")

Enough(r) == tool = "batch" /\ MaxTasks > 0 /\ run[r].total >= MaxTasks

Begin(r) ==
  /\ run[r].pc \in {"idle", "ended"}
  /\ IF tool = "batch"
     THEN run' = [run EXCEPT ![r] = Between("pick", 1, NFiles, 0, "none")]
     ELSE \E f \in Files : run' = [run EXCEPT ![r] = Between("pick", f, f, 0, "none")]
  /\ UNCHANGED <<tool, content, stamps, stored, faults>>

\* The file has no stamp: read it, or fail.  A batch runs under `set -e`, so
\* the submit that fails to read its file ends the whole of it.
Load(r) ==
  IF content[run[r].file] = Unreadable
  THEN Leave(r, "error")
  ELSE run' = [run EXCEPT ![r].pc = "post"]

Pick(r) ==
  /\ run[r].pc = "pick"
  /\ IF run[r].file > run[r].last \/ Enough(r) THEN Leave(r, "ok")
     ELSE IF run[r].file \in stamps THEN GoOn(r, run[r].total)
     ELSE Load(r)
  /\ UNCHANGED <<tool, content, stamps, stored, faults>>

\* What becomes of a POST: only an answer tells the tool that it arrived, and the
\* answer may be none that can be read as JSON.
Deliveries == {"answered", "answer garbled", "answer lost", "request lost"}

Deliver(f, i, d) ==
  /\ d # "answered" => faults < MaxFaults
  /\ faults' = IF d = "answered" THEN faults ELSE faults + 1
  /\ stored' = IF d = "request lost" THEN stored
               ELSE [stored EXCEPT ![f][i] = IF @ = 0 THEN 1 ELSE 2]

Counted(r, sent) ==
  run' = [run EXCEPT ![r].next = @ + 1,
                     ![r].sent = IF sent THEN @ + 1 ELSE @,
                     ![r].failed = IF sent THEN @ ELSE @ + 1]

\* One task of the file.  Something that is not a mapping raises, in either
\* tool, outside of what they catch; so does resp.json() of a garbled answer in
\* submit-tasks-file.py, where `yoitsu submit' counts it as a failure.
Post(r) ==
  LET f == run[r].file
      i == run[r].next
  IN /\ run[r].pc = "post"
     /\ i \in Positions(f)
     /\ \/ /\ content[f][i] = "odd"
           /\ Leave(r, "error")
           /\ UNCHANGED <<stored, faults>>
        \/ /\ content[f][i] = "refused" /\ tool = "batch"
           /\ Counted(r, FALSE)
           /\ UNCHANGED <<stored, faults>>
        \/ /\ content[f][i] = "good" \/ (content[f][i] = "refused" /\ tool = "quadlet")
           /\ \E d \in Deliveries :
                /\ Deliver(f, i, d)
                /\ IF d = "answer garbled" /\ tool = "quadlet"
                   THEN Leave(r, "error")
                   ELSE Counted(r, d = "answered")
     /\ UNCHANGED <<tool, content, stamps>>

\* All tasks of the file have been tried: stamp it, or not.
Finished(r) == run[r].pc = "post" /\ run[r].next \notin Positions(run[r].file)
StampFile(r, earned) ==
  stamps' = IF earned THEN stamps \cup {run[r].file} ELSE stamps

\* Mutants: a stamp that is never set, or always; an exit code 0 if anything was sent.
FinishUnstamped(r) ==
  /\ Finished(r)
  /\ stamps' = stamps
  /\ GoOn(r, run[r].total + run[r].sent)
  /\ UNCHANGED <<tool, content, stored, faults>>

FinishAlways(r) ==
  /\ Finished(r)
  /\ StampFile(r, TRUE)
  /\ GoOn(r, run[r].total + run[r].sent)
  /\ UNCHANGED <<tool, content, stored, faults>>

FinishOkIfAny(r) ==
  /\ Finished(r)
  /\ IF tool = "batch"
     THEN /\ StampFile(r, run[r].sent > 0)
          /\ GoOn(r, run[r].total + run[r].sent)
     ELSE /\ StampFile(r, run[r].failed = 0)
          /\ Leave(r, IF run[r].sent > 0 \/ run[r].failed = 0 THEN "ok" ELSE "error")
  /\ UNCHANGED <<tool, content, stored, faults>>

Finish(r) ==
  /\ Finished(r)
  /\ IF tool = "batch"
     THEN /\ StampFile(r, run[r].sent > 0)
          /\ GoOn(r, run[r].total + run[r].sent)
     ELSE /\ StampFile(r, run[r].failed = 0)
          /\ Leave(r, IF run[r].failed = 0 THEN "ok" ELSE "error")
  /\ UNCHANGED <<tool, content, stored, faults>>

\* Ctrl-C, a pod that is stopped, or a stamp that cannot be written.
Kill(r) ==
  /\ run[r].pc \in {"pick", "post"}
  /\ Leave(r, "killed")
  /\ UNCHANGED <<tool, content, stamps, stored, faults>>

Step(r) == Pick(r) \/ Post(r) \/ Finish(r)

Next == \E r \in Runs : Begin(r) \/ Step(r) \/ Kill(r)

(* Every POST has a timeout, so a run that is under way takes its next     *)
(* step.  Nothing makes anybody run the tool again, or kill it.            *)
Fairness == \A r \in Runs : WF_vars(Step(r))

Spec == Init /\ [][Next]_vars /\ Fairness
--------------------------------------------------------------------------------
TypeOK ==
  /\ tool \in {"batch", "quadlet"}
  /\ content \in [Files -> TaskLists \cup {Unreadable}]
  /\ stamps \subseteq Files
  /\ stored \in [Files -> [1..MaxLength -> 0..2]]
  /\ run \in [Runs -> [pc : {"idle", "pick", "post", "ended"},
                       file : 1..(NFiles + 1), last : 0..NFiles, next : 1..(MaxLength + 1),
                       sent : Nat, failed : Nat, total : Nat,
                       code : {"none", "ok", "error", "killed"}]]
  /\ \A r \in Runs : run[r].pc = "post" =>
       /\ run[r].file \in Files
       /\ content[run[r].file] \in TaskLists
       /\ run[r].sent + run[r].failed = run[r].next - 1
  /\ faults \in 0..MaxFaults

(* A file with a stamp has all its tasks in the store, whatever was lost,  *)
(* killed or run at the same time (submit-tasks-file.py 55-67 answers      *)
(* "already_submitted" on the strength of the stamp).                      *)
StampTrue == tool = "quadlet" => \A f \in stamps : AllStored(f)

(* The exit code 0 of submit-tasks-file.py says the same of the file it    *)
(* was run with, whether it posted the tasks or found a stamp.             *)
OkMeansStored ==
  tool = "quadlet" =>
    \A r \in Runs : run[r].pc = "ended" /\ run[r].code = "ok" => AllStored(run[r].file)

(* All that a stamp of batch-submit.sh means: something of the file has     *)
(* arrived, in that run or an earlier one (batch-submit.sh 79-91).         *)
StampEarned ==
  tool = "batch" => \A f \in stamps : \E i \in Positions(f) : stored[f][i] > 0

(* A file for which the tool is run again and again is stamped in the end, *)
(* if it has something to post, no file breaks a run off, and runs are not *)
(* killed for ever: the retry that a missing stamp invites does its work.  *)
Postable(f) == tool = "batch" => \E i \in Positions(f) : content[f][i] = "good"
Sound == \A f \in Files : content[f] # Unreadable /\ \A i \in Positions(f) : content[f][i] # "odd"
UnderWay(f) ==
  \E r \in Runs : run[r].pc \in {"pick", "post"} /\ (tool = "quadlet" => run[r].file = f)
EventuallyStamped ==
  Sound => \A f \in Files : Postable(f) /\ []<>UnderWay(f) /\ <>[][~\E r \in Runs : Kill(r)]_vars
                              => <>(f \in stamps)
================================================================================
