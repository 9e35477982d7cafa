------------------------------- MODULE GitPublish -------------------------------
(***************************************************************************)
(* How the work of a job gets from its workspace to the branch it was      *)
(* cloned from: git_workspace.finalize, once the agent has stopped.        *)
(*                                                                         *)
(*   add -A;  diff --cached: nothing staged means nothing to publish;      *)
(*   commit;  rev-parse;  push, tried three times                          *)
(*                                                                         *)
(* Every step is a git command that may fail, some of them unheeded, and   *)
(* the job may be killed between any two.  A push that reached the remote  *)
(* may still look like a failure, and other jobs and people push to the    *)
(* same branch.  The remote accepts a push only if it continues what it    *)
(* has.                                                                    *)
(***************************************************************************)
EXTENDS Naturals, Sequences

CONSTANTS
  Jobs,
  Edits,         \* bound: the things an agent may change
  MaxOthers,     \* bound: commits pushed by somebody else
  MaxRetries     \* MAX_RETRIES: attempts to push

ASSUME PublishAssumption ==
  /\ "somebody" \notin Jobs
  /\ MaxOthers \in Nat
  /\ MaxRetries \in Nat \ {0}

VARIABLES
  remote,  \* the branch on the remote: its commits, oldest first
  others,  \* how many of them are somebody else's
  target,  \* what each job was given: "repo", "no uri", or "none" for no workspace
  job,     \* the state of each job
  made,    \* all that the agent of each job has changed (history)
  slips    \* jobs whose agent has committed, or whose `git add` has failed (history)

vars == <<remote, others, target, job, made, slips>>

\* A commit, by what it changes; nobody changes the same thing twice.
Works == Jobs \X Edits
Commits == [by : Jobs \cup {"somebody"}, work : SUBSET Works]
Histories == Seq(Commits)
WorkIn(history) == UNION {history[i].work : i \in DOMAIN history}
Has(history, commit) == \E i \in DOMAIN history : history[i] = commit
Tip(history) == history[Len(history)]
Continues(new, old) ==
  Len(old) <= Len(new) /\ \A i \in 1..Len(old) : new[i] = old[i]

NoEvent == [type |-> "none", stage |-> "none", persisted |-> FALSE, success |-> FALSE]
Skipped == [type |-> "publication.skipped", stage |-> "none", persisted |-> FALSE, success |-> TRUE]
Published == [type |-> "artifact.published", stage |-> "none", persisted |-> TRUE, success |-> TRUE]
FailedAt(stage, persisted) ==
  [type |-> "finalize.failed", stage |-> stage, persisted |-> persisted, success |-> FALSE]
Events == [type : {"none", "publication.skipped", "artifact.published", "finalize.failed"},
           stage : {"none", "commit", "push", "artifact_uri"},
           persisted : BOOLEAN, success : BOOLEAN]

Init ==
  /\ remote = <<>>
  /\ others = 0
  /\ target \in [Jobs -> {"repo", "no uri", "none"}]
  /\ job = [j \in Jobs |-> [pc |-> "queued", local |-> <<>>, tree |-> {}, staged |-> {},
                            attempt |-> 1, event |-> NoEvent]]
  /\ made = [j \in Jobs |-> {}]
  /\ slips = {}

At(j, pc) == job[j].pc = pc

\* finalize returns, with its event.
Return(j, event) == job' = [job EXCEPT ![j].pc = "returned", ![j].event = event]
Raise(j) == job' = [job EXCEPT ![j].pc = "raised"]
GoTo(j, pc) == job' = [job EXCEPT ![j].pc = pc]
--------------------------------------------------------------------------------
\* The workspace of a job is a clone of the branch (external).
Clone(j) ==
  /\ At(j, "queued")
  /\ job' = [job EXCEPT ![j].pc = "work", ![j].local = remote]
  /\ UNCHANGED <<remote, others, target, made, slips>>

\* The agent changes something.
Edit(j) ==
  /\ At(j, "work") /\ target[j] # "none"
  /\ \E e \in Edits :
       /\ <<j, e>> \notin made[j]
       /\ job' = [job EXCEPT ![j].tree = @ \cup {<<j, e>>}]
       /\ made' = [made EXCEPT ![j] = @ \cup {<<j, e>>}]
  /\ UNCHANGED <<remote, others, target, slips>>

CommitAll(j, work, pc) ==
  job' = [job EXCEPT ![j].local = Append(@, [by |-> j, work |-> work]),
                     ![j].tree = @ \ work, ![j].staged = {}, ![j].pc = pc]

\* The agent has a shell and may commit by itself.
AgentCommit(j) ==
  /\ At(j, "work") /\ job[j].tree # {}
  /\ CommitAll(j, job[j].tree, "work")
  /\ slips' = slips \cup {j}
  /\ UNCHANGED <<remote, others, target, made>>

\* Somebody else pushes to the branch.
OtherPush ==
  /\ others < MaxOthers
  /\ others' = others + 1
  /\ remote' = Append(remote, [by |-> "somebody", work |-> {}])
  /\ UNCHANGED <<target, job, made, slips>>
--------------------------------------------------------------------------------
Finalize(j) ==
  /\ At(j, "work")
  /\ IF target[j] = "none" THEN Return(j, Skipped) ELSE GoTo(j, "add")
  /\ UNCHANGED <<remote, others, target, made, slips>>

\* Whether it worked is not looked at.
Add(j) ==
  /\ At(j, "add")
  /\ \/ /\ job' = [job EXCEPT ![j].staged = job[j].tree, ![j].pc = "diff"]
        /\ slips' = slips
     \/ GoTo(j, "diff") /\ slips' = slips \cup {j}
  /\ UNCHANGED <<remote, others, target, made>>

\* A diff that fails counts as a difference.
Diff(j) ==
  /\ At(j, "diff")
  /\ \/ job[j].staged = {} /\ Return(j, Skipped)
     \/ GoTo(j, "commit")
  /\ UNCHANGED <<remote, others, target, made, slips>>

CommitUnchecked(j) ==
  /\ At(j, "commit")
  /\ \/ Raise(j)
     \/ GoTo(j, "sha")
     \/ job[j].staged # {} /\ CommitAll(j, job[j].staged, "sha")
  /\ UNCHANGED <<remote, others, target, made, slips>>

\* rev-parse may raise, and commit fail, before anything is committed.
Commit(j) ==
  /\ At(j, "commit")
  /\ \/ Raise(j)
     \/ Return(j, FailedAt("commit", FALSE))
     \/ job[j].staged # {} /\ CommitAll(j, job[j].staged, "sha")
  /\ UNCHANGED <<remote, others, target, made, slips>>

Sha(j) ==
  /\ At(j, "sha")
  /\ Raise(j) \/ GoTo(j, "push")
  /\ UNCHANGED <<remote, others, target, made, slips>>

\* The push has worked, as far as git tells.
Pushed(j) ==
  Return(j, IF target[j] = "repo" THEN Published ELSE FailedAt("artifact_uri", TRUE))

PushGivesUp(j) ==
  IF job[j].attempt < MaxRetries
  THEN job' = [job EXCEPT ![j].attempt = @ + 1]
  ELSE Pushed(j)

\* It has not, be it refused, not sent, or not answered.
PushFailed(j) ==
  IF job[j].attempt < MaxRetries
  THEN job' = [job EXCEPT ![j].attempt = @ + 1]
  ELSE Return(j, FailedAt("push", FALSE))

Accepted(j) == Continues(job[j].local, remote)

\* The remote lets a branch be replaced.
PushForced(j) ==
  /\ At(j, "push")
  /\ \/ /\ remote' = job[j].local
        /\ Pushed(j) \/ PushFailed(j)
     \/ remote' = remote /\ PushFailed(j)
  /\ UNCHANGED <<others, target, made, slips>>

PushRebased(j) ==
  /\ At(j, "push")
  /\ \/ /\ remote' = Append(remote, Tip(job[j].local))
        /\ Pushed(j) \/ PushFailed(j)
     \/ remote' = remote /\ PushFailed(j)
  /\ UNCHANGED <<others, target, made, slips>>

Push(j) ==
  /\ At(j, "push")
  /\ \/ /\ Accepted(j)
        /\ remote' = job[j].local
        /\ Pushed(j) \/ PushFailed(j)
     \/ remote' = remote /\ PushFailed(j)
  /\ UNCHANGED <<others, target, made, slips>>

\* The container of the job is stopped.
Kill(j) ==
  /\ job[j].pc \notin {"queued", "returned", "raised", "killed"}
  /\ GoTo(j, "killed")
  /\ UNCHANGED <<remote, others, target, made, slips>>

Step(j) == Add(j) \/ Diff(j) \/ Commit(j) \/ Sha(j) \/ Push(j)

Next ==
  \/ OtherPush
  \/ \E j \in Jobs : Clone(j) \/ Edit(j) \/ AgentCommit(j) \/ Finalize(j) \/ Step(j) \/ Kill(j)

\* Nothing has to happen: no git command is given a timeout, so one that hangs holds
\* its job until somebody stops the container.
Spec == Init /\ [][Next]_vars
--------------------------------------------------------------------------------
TypeOK ==
  /\ remote \in Histories
  /\ others \in 0..MaxOthers
  /\ target \in [Jobs -> {"repo", "no uri", "none"}]
  /\ job \in [Jobs -> [pc : {"queued", "work", "add", "diff", "commit", "sha", "push",
                             "returned", "raised", "killed"},
                       local : Histories, tree : SUBSET Works, staged : SUBSET Works,
                       attempt : 1..MaxRetries, event : Events]]
  /\ made \in [Jobs -> SUBSET Works]
  /\ slips \subseteq Jobs

(* What is announced as published, or as persisted, is on the remote, in   *)
(* the commit that is named and with everything the agent has done; and it *)
(* stays there whatever is pushed later.                                   *)
PersistedIsRemote ==
  \A j \in Jobs : job[j].event.persisted =>
    Has(remote, Tip(job[j].local)) /\ made[j] \subseteq WorkIn(remote)

(* A push that is tried again puts nothing on the branch twice.            *)
PublishedOnce ==
  \A i, k \in DOMAIN remote : remote[i].by \in Jobs /\ remote[i] = remote[k] => i = k

(* No push takes away what somebody else has published.                    *)
OthersKept == [][Continues(remote', remote)]_remote

(* A job whose finalize reports success has left no work behind, unless    *)
(* its agent has committed or `git add` has failed.                        *)
SuccessIsSafe ==
  \A j \in Jobs \ slips : job[j].event.success => made[j] \subseteq WorkIn(remote)
================================================================================
