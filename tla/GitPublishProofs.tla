---------------------------- MODULE GitPublishProofs ----------------------------
(***************************************************************************)
(* What the events of finalize say about the remote, for any number of     *)
(* jobs, edits, retries and commits of somebody else.                      *)
(***************************************************************************)
EXTENDS GitPublish, TLAPS

JobStates == [pc : {"queued", "work", "add", "diff", "commit", "sha", "push",
                    "returned", "raised", "killed"},
              local : Histories, tree : SUBSET Works, staged : SUBSET Works,
              attempt : 1..MaxRetries, event : Events]

Unstaged == {"queued", "work", "add"}
Committed == {"sha", "push"}

(* What the agent has changed is in the working tree or committed.         *)
WorkKept(j) ==
  /\ job[j].pc = "queued" => made[j] = {}
  /\ made[j] \subseteq job[j].tree \cup WorkIn(job[j].local)

(* A commit takes the whole of the working tree, or there is none.         *)
TreeOK(j) ==
  /\ job[j].pc \in Unstaged => job[j].staged = {}
  /\ job[j].pc \in {"diff", "commit"} => job[j].staged = job[j].tree \/ job[j].staged = {}
  /\ job[j].pc \in Committed => job[j].tree = {} /\ Len(job[j].local) > 0

(* There is no event before finalize returns.                              *)
EventOK(j) == job[j].pc # "returned" => job[j].event = NoEvent

PersistedOK(j) ==
  job[j].event.persisted => Has(remote, Tip(job[j].local)) /\ made[j] \subseteq WorkIn(remote)

Inv == TypeOK /\ \A j \in Jobs : WorkKept(j) /\ TreeOK(j) /\ EventOK(j) /\ PersistedOK(j)

(* If its agent does not commit and `git add` works, a job leaves nothing  *)
(* behind.                                                                 *)
Careful(j) ==
  /\ target[j] = "none" => made[j] = {}
  /\ job[j].pc \in Unstaged \cup {"diff", "commit"} => made[j] \subseteq job[j].tree
  /\ job[j].pc \in {"diff", "commit"} => job[j].staged = job[j].tree
  /\ job[j].event.success => made[j] \subseteq WorkIn(remote)
--------------------------------------------------------------------------------
(* Histories.                                                              *)

LEMMA HistoryGrows ==
  ASSUME NEW old \in Histories, NEW new \in Histories, Continues(new, old)
  PROVE  /\ WorkIn(old) \subseteq WorkIn(new)
         /\ \A c : Has(old, c) => Has(new, c)
BY DEF Continues, WorkIn, Has, Histories

LEMMA HistoryAppended ==
  ASSUME NEW h \in Histories, NEW c \in Commits
  PROVE  /\ Append(h, c) \in Histories
         /\ Len(Append(h, c)) > 0
         /\ Tip(Append(h, c)) = c
         /\ WorkIn(h) \cup c.work \subseteq WorkIn(Append(h, c))
         /\ Continues(Append(h, c), h)
<1>1. Append(h, c) \in Histories /\ Len(Append(h, c)) = Len(h) + 1 /\ Len(h) \in Nat
  BY DEF Histories
<1>2. \A i \in 1..Len(h) : Append(h, c)[i] = h[i]
  BY DEF Histories
<1>3. Append(h, c)[Len(h) + 1] = c
  BY DEF Histories
<1>4. DOMAIN h = 1..Len(h) /\ DOMAIN Append(h, c) = 1..(Len(h) + 1)
  BY <1>1 DEF Histories
<1>5. WorkIn(h) \cup c.work \subseteq WorkIn(Append(h, c))
  BY <1>1, <1>2, <1>3, <1>4 DEF WorkIn
<1>. QED
  BY <1>1, <1>2, <1>3, <1>5 DEF Tip, Continues

LEMMA TipIsThere ==
  ASSUME NEW h \in Histories, Len(h) > 0
  PROVE  Has(h, Tip(h))
BY DEF Has, Tip, Histories

LEMMA EventTypes ==
  /\ NoEvent \in Events /\ ~NoEvent.persisted /\ ~NoEvent.success
  /\ Skipped \in Events /\ ~Skipped.persisted /\ Skipped.success
  /\ Published \in Events /\ Published.persisted
  /\ \A s \in {"commit", "push", "artifact_uri"} :
       /\ FailedAt(s, TRUE) \in Events /\ ~FailedAt(s, TRUE).success
       /\ FailedAt(s, FALSE) \in Events /\ ~FailedAt(s, FALSE).success /\ ~FailedAt(s, FALSE).persisted
<1>1. NoEvent \in Events /\ Skipped \in Events /\ Published \in Events
  BY DEF Events, NoEvent, Skipped, Published
<1>2. \A s \in {"commit", "push", "artifact_uri"} : FailedAt(s, TRUE) \in Events /\ FailedAt(s, FALSE) \in Events
  BY DEF Events, FailedAt
<1>3. /\ ~NoEvent.persisted /\ ~NoEvent.success
      /\ ~Skipped.persisted /\ Skipped.success
      /\ Published.persisted
  BY DEF NoEvent, Skipped, Published
<1>4. \A s \in {"commit", "push", "artifact_uri"} :
        ~FailedAt(s, TRUE).success /\ ~FailedAt(s, FALSE).success /\ ~FailedAt(s, FALSE).persisted
  BY DEF FailedAt
<1>. QED
  BY <1>1, <1>2, <1>3, <1>4
--------------------------------------------------------------------------------
(* Of a step of one job, the others notice at most that the branch grows.  *)
LEMMA StepOfOne ==
  ASSUME Inv, slips' \subseteq Jobs, NEW j \in Jobs, NEW s \in JobStates, job' = [job EXCEPT ![j] = s],
         remote' \in Histories, Continues(remote', remote),
         UNCHANGED <<others, target>>,
         made' \in [Jobs -> SUBSET Works], \A k \in Jobs \ {j} : made'[k] = made[k],
         (WorkKept(j) /\ TreeOK(j) /\ EventOK(j) /\ PersistedOK(j))'
  PROVE  Inv'
<1>1. job \in [Jobs -> JobStates]
  BY DEF Inv, TypeOK, JobStates
<1>2. TypeOK'
  BY <1>1 DEF Inv, TypeOK, JobStates
<1>3. ASSUME NEW k \in Jobs \ {j}
      PROVE  (WorkKept(k) /\ TreeOK(k) /\ EventOK(k) /\ PersistedOK(k))'
  <2>1. job'[k] = job[k] /\ made'[k] = made[k]
    BY <1>1
  <2>2. WorkKept(k) /\ TreeOK(k) /\ EventOK(k) /\ PersistedOK(k)
    BY DEF Inv
  <2>3. (WorkKept(k) /\ TreeOK(k) /\ EventOK(k))'
    BY <2>1, <2>2 DEF WorkKept, TreeOK, EventOK
  <2>4. WorkIn(remote) \subseteq WorkIn(remote') /\ \A c : Has(remote, c) => Has(remote', c)
    BY HistoryGrows DEF Inv, TypeOK
  <2>. QED
    BY <2>1, <2>2, <2>3, <2>4 DEF PersistedOK
<1>. QED
  BY <1>2, <1>3 DEF Inv

LEMMA Unmoved == ASSUME TypeOK PROVE Continues(remote, remote) /\ remote \in Histories
<1>1. remote \in Seq(Commits)
  BY DEF TypeOK, Histories
<1>. QED
  BY <1>1 DEF Continues, Histories

(* A step of finalize that ends or goes on with what it has.               *)
LEMMA MoveInv ==
  ASSUME Inv, slips' \subseteq Jobs, NEW j \in Jobs, job[j].pc # "returned",
         NEW s \in JobStates, job' = [job EXCEPT ![j] = s],
         s.local = job[j].local, s.tree = job[j].tree,
         s.event = NoEvent, UNCHANGED <<remote, others, target, made>>,
         s.pc \in Unstaged => s.staged = {},
         s.pc \in {"diff", "commit"} => s.staged = s.tree \/ s.staged = {},
         s.pc \in Committed => job[j].pc \in Committed,
         s.pc # "queued"
  PROVE  Inv'
<1>1. job'[j] = s
  BY DEF Inv, TypeOK
<1>2. WorkKept(j) /\ TreeOK(j)
  BY DEF Inv
<1>3. (WorkKept(j) /\ TreeOK(j) /\ EventOK(j) /\ PersistedOK(j))'
  BY <1>1, <1>2, EventTypes DEF WorkKept, TreeOK, EventOK, PersistedOK, Unstaged, Committed
<1>. QED
  BY <1>3, Unmoved, StepOfOne DEF Inv, TypeOK

LEMMA CommitAllInv ==
  ASSUME Inv, slips' \subseteq Jobs, NEW j \in Jobs, NEW pc \in {"work", "sha"}, CommitAll(j, job[j].tree, pc),
         UNCHANGED <<remote, others, target, made>>, job[j].pc # "returned"
  PROVE  Inv'
<1>. DEFINE c == [by |-> j, work |-> job[j].tree]
            h == Append(job[j].local, c)
            s == [job[j] EXCEPT !.local = h, !.tree = @ \ job[j].tree, !.staged = {}, !.pc = pc]
<1>1. job[j] \in JobStates /\ WorkKept(j) /\ EventOK(j)
  BY DEF Inv, TypeOK, JobStates
<1>2. c \in Commits /\ job[j].local \in Histories /\ c.work = job[j].tree
  BY <1>1 DEF JobStates, Commits
<1>3. h \in Histories /\ Len(h) > 0 /\ WorkIn(job[j].local) \cup job[j].tree \subseteq WorkIn(h)
  BY <1>2, HistoryAppended
<1>. HIDE DEF h, c
<1>4. /\ s \in JobStates /\ s.pc = pc /\ s.local = h /\ s.tree = {} /\ s.staged = {}
      /\ s.event = NoEvent
  BY <1>1, <1>3 DEF JobStates, EventOK
<1>5. job' = [job EXCEPT ![j] = s]
  BY DEF CommitAll, c, h
<1>. HIDE DEF s
<1>6. job'[j] = s
  BY <1>5 DEF Inv, TypeOK
<1>7. (WorkKept(j) /\ TreeOK(j) /\ EventOK(j) /\ PersistedOK(j))'
  BY <1>1, <1>3, <1>4, <1>6, EventTypes
     DEF WorkKept, TreeOK, EventOK, PersistedOK, Unstaged, Committed
<1>. QED
  BY <1>4, <1>5, <1>7, Unmoved, StepOfOne DEF Inv, TypeOK

LEMMA GoToInv ==
  ASSUME Inv, slips' \subseteq Jobs, NEW j \in Jobs, job[j].pc # "returned", NEW pc, GoTo(j, pc),
         UNCHANGED <<remote, others, target, made>>,
         \/ job[j].pc = "work" /\ pc = "add"
         \/ job[j].pc = "add" /\ pc = "diff"
         \/ job[j].pc = "diff" /\ pc = "commit"
         \/ job[j].pc = "sha" /\ pc = "push"
         \/ pc \in {"raised", "killed"}
  PROVE  Inv'
<1>. DEFINE s == [job[j] EXCEPT !.pc = pc]
<1>1. job[j] \in JobStates /\ TreeOK(j) /\ EventOK(j)
  BY DEF Inv, TypeOK, JobStates
<1>2. /\ s \in JobStates /\ s.pc = pc /\ s.local = job[j].local /\ s.tree = job[j].tree
      /\ s.staged = job[j].staged /\ s.event = NoEvent
  BY <1>1 DEF JobStates, EventOK
<1>3. job' = [job EXCEPT ![j] = s]
  BY DEF GoTo
<1>. HIDE DEF s
<1>. QED
  BY <1>1, <1>2, <1>3, MoveInv DEF TreeOK, Unstaged, Committed

(* finalize returns with an event that persists nothing.                   *)
LEMMA ReturnInv ==
  ASSUME Inv, slips' \subseteq Jobs, NEW j \in Jobs, NEW event \in Events, Return(j, event), job[j].pc # "returned",
         UNCHANGED <<others, target, made>>, remote' \in Histories, Continues(remote', remote),
         event.persisted => Has(remote', Tip(job[j].local)) /\ made[j] \subseteq WorkIn(remote')
  PROVE  Inv'
<1>. DEFINE s == [job[j] EXCEPT !.pc = "returned", !.event = event]
<1>1. job[j] \in JobStates /\ WorkKept(j)
  BY DEF Inv, TypeOK, JobStates
<1>2. /\ s \in JobStates /\ s.pc = "returned" /\ s.local = job[j].local /\ s.tree = job[j].tree
      /\ s.event = event
  BY <1>1 DEF JobStates
<1>3. job' = [job EXCEPT ![j] = s]
  BY DEF Return
<1>. HIDE DEF s
<1>4. job'[j] = s
  BY <1>3 DEF Inv, TypeOK
<1>5. (WorkKept(j) /\ TreeOK(j) /\ EventOK(j) /\ PersistedOK(j))'
  BY <1>1, <1>2, <1>4 DEF WorkKept, TreeOK, EventOK, PersistedOK, Unstaged, Committed
<1>. QED
  BY <1>2, <1>3, <1>5, StepOfOne DEF Inv, TypeOK
--------------------------------------------------------------------------------
LEMMA InitInv == ASSUME Init PROVE Inv
<1>. DEFINE s0 == [pc |-> "queued", local |-> <<>>, tree |-> {}, staged |-> {},
                   attempt |-> 1, event |-> NoEvent]
<1>1. <<>> \in Histories /\ 1 \in 1..MaxRetries /\ 0 \in 0..MaxOthers
  BY PublishAssumption DEF Histories
<1>2. s0 \in JobStates
  BY <1>1, EventTypes DEF JobStates
<1>3. TypeOK
  BY <1>1, <1>2 DEF Init, TypeOK, JobStates
<1>4. \A j \in Jobs :
        /\ job[j].pc = "queued" /\ job[j].staged = {} /\ job[j].event = NoEvent
        /\ made[j] = {}
  BY DEF Init
<1>5. \A j \in Jobs : WorkKept(j) /\ TreeOK(j) /\ EventOK(j) /\ PersistedOK(j)
  BY <1>4, EventTypes DEF WorkKept, TreeOK, EventOK, PersistedOK, Unstaged, Committed
<1>. QED
  BY <1>3, <1>5 DEF Inv

LEMMA OtherPushInv == ASSUME Inv, slips' \subseteq Jobs, OtherPush PROVE Inv' /\ Continues(remote', remote)
<1>. DEFINE c == [by |-> "somebody", work |-> {}]
<1>1. c \in Commits /\ remote \in Histories
  BY DEF Commits, Inv, TypeOK
<1>2. remote' \in Histories /\ Continues(remote', remote)
  BY <1>1, HistoryAppended DEF OtherPush
<1>3. others' \in 0..MaxOthers
  <2>1. others \in 0..MaxOthers /\ others < MaxOthers /\ others' = others + 1
    BY DEF OtherPush, Inv, TypeOK
  <2>. QED
    BY <2>1, PublishAssumption
<1>4. TypeOK'
  BY <1>2, <1>3 DEF OtherPush, Inv, TypeOK
<1>5. WorkIn(remote) \subseteq WorkIn(remote') /\ \A d : Has(remote, d) => Has(remote', d)
  BY <1>1, <1>2, HistoryGrows
<1>6. ASSUME NEW j \in Jobs
      PROVE  (WorkKept(j) /\ TreeOK(j) /\ EventOK(j) /\ PersistedOK(j))'
  <2>1. job' = job /\ made' = made /\ WorkKept(j) /\ TreeOK(j) /\ EventOK(j) /\ PersistedOK(j)
    BY DEF Inv, OtherPush
  <2>2. (WorkKept(j) /\ TreeOK(j) /\ EventOK(j))'
    BY <2>1 DEF WorkKept, TreeOK, EventOK
  <2>. QED
    BY <1>5, <2>1, <2>2 DEF PersistedOK
<1>. QED
  BY <1>2, <1>4, <1>6 DEF Inv

LEMMA CloneInv == ASSUME Inv, slips' \subseteq Jobs, NEW j \in Jobs, Clone(j) PROVE Inv'
<1>. DEFINE s == [job[j] EXCEPT !.pc = "work", !.local = remote]
<1>1. job[j] \in JobStates /\ remote \in Histories /\ WorkKept(j) /\ TreeOK(j) /\ EventOK(j)
  BY DEF Inv, TypeOK, JobStates
<1>2. /\ s \in JobStates /\ s.pc = "work" /\ s.local = remote /\ s.tree = job[j].tree
      /\ s.staged = {} /\ s.event = NoEvent
  BY <1>1 DEF JobStates, Clone, At, TreeOK, EventOK, Unstaged
<1>3. job' = [job EXCEPT ![j] = s]
  BY DEF Clone
<1>. HIDE DEF s
<1>4. job'[j] = s
  BY <1>3 DEF Inv, TypeOK
<1>5. made[j] \subseteq job[j].tree
  BY <1>1 DEF Clone, At, WorkKept
<1>6. (WorkKept(j) /\ TreeOK(j) /\ EventOK(j) /\ PersistedOK(j))'
  BY <1>2, <1>4, <1>5, EventTypes
     DEF Clone, WorkKept, TreeOK, EventOK, PersistedOK, Unstaged, Committed
<1>. QED
  BY <1>2, <1>3, <1>6, Unmoved, StepOfOne DEF Inv, TypeOK, Clone

LEMMA EditInv == ASSUME Inv, slips' \subseteq Jobs, NEW j \in Jobs, Edit(j) PROVE Inv'
<1>1. PICK e \in Edits :
        /\ job' = [job EXCEPT ![j].tree = @ \cup {<<j, e>>}]
        /\ made' = [made EXCEPT ![j] = @ \cup {<<j, e>>}]
  BY DEF Edit
<1>. DEFINE s == [job[j] EXCEPT !.tree = @ \cup {<<j, e>>}]
<1>2. job[j] \in JobStates /\ WorkKept(j) /\ TreeOK(j) /\ EventOK(j) /\ made[j] \in SUBSET Works
  BY DEF Inv, TypeOK, JobStates
<1>3. <<j, e>> \in Works
  BY DEF Works
<1>4. /\ s \in JobStates /\ s.pc = "work" /\ s.local = job[j].local
      /\ s.tree = job[j].tree \cup {<<j, e>>} /\ s.staged = {} /\ s.event = NoEvent
  BY <1>2, <1>3 DEF JobStates, Edit, At, TreeOK, EventOK, Unstaged
<1>5. job' = [job EXCEPT ![j] = s]
  BY <1>1
<1>. HIDE DEF s
<1>6. job'[j] = s /\ made'[j] = made[j] \cup {<<j, e>>}
  BY <1>1, <1>5 DEF Inv, TypeOK
<1>7. (WorkKept(j) /\ TreeOK(j) /\ EventOK(j) /\ PersistedOK(j))'
  BY <1>2, <1>4, <1>6, EventTypes
     DEF WorkKept, TreeOK, EventOK, PersistedOK, Unstaged, Committed
<1>8. made' \in [Jobs -> SUBSET Works] /\ \A k \in Jobs \ {j} : made'[k] = made[k]
  BY <1>1, <1>2, <1>3 DEF Inv, TypeOK
<1>. QED
  BY <1>4, <1>5, <1>7, <1>8, Unmoved, StepOfOne DEF Edit, Inv, TypeOK

(* Another attempt to push, the last one having reached the remote or not. *)
LEMMA AttemptInv ==
  ASSUME Inv, slips' \subseteq Jobs, NEW j \in Jobs, At(j, "push"), job[j].attempt < MaxRetries,
         job' = [job EXCEPT ![j].attempt = @ + 1], UNCHANGED <<others, target, made>>,
         remote' \in Histories, Continues(remote', remote)
  PROVE  Inv'
<1>. DEFINE s == [job[j] EXCEPT !.attempt = @ + 1]
<1>1. job[j] \in JobStates /\ WorkKept(j) /\ TreeOK(j) /\ EventOK(j)
  BY DEF Inv, TypeOK, JobStates
<1>2. job[j].attempt + 1 \in 1..MaxRetries
  BY <1>1, PublishAssumption DEF JobStates
<1>3. /\ s \in JobStates /\ s.pc = "push" /\ s.local = job[j].local /\ s.tree = job[j].tree
      /\ s.event = NoEvent
  BY <1>1, <1>2 DEF JobStates, At, EventOK
<1>4. job' = [job EXCEPT ![j] = s]
  OBVIOUS
<1>. HIDE DEF s
<1>5. job'[j] = s
  BY <1>4 DEF Inv, TypeOK
<1>6. (WorkKept(j) /\ TreeOK(j) /\ EventOK(j) /\ PersistedOK(j))'
  BY <1>1, <1>3, <1>5, EventTypes
     DEF WorkKept, TreeOK, EventOK, PersistedOK, Unstaged, Committed, At
<1>. QED
  BY <1>3, <1>4, <1>6, StepOfOne DEF Inv, TypeOK

LEMMA PushFailedInv ==
  ASSUME Inv, slips' \subseteq Jobs, NEW j \in Jobs, At(j, "push"), PushFailed(j), UNCHANGED <<others, target, made>>,
         remote' \in Histories, Continues(remote', remote)
  PROVE  Inv'
<1>1. CASE job[j].attempt < MaxRetries
  BY <1>1, AttemptInv DEF PushFailed
<1>2. CASE ~(job[j].attempt < MaxRetries)
  BY <1>2, ReturnInv, EventTypes DEF PushFailed, At
<1>. QED
  BY <1>1, <1>2

(* A push that is accepted leaves the remote with the history of the job,  *)
(* which has all its work.                                                 *)
LEMMA PushedAll ==
  ASSUME Inv, NEW j \in Jobs, job[j].pc \in Committed
  PROVE  /\ job[j].local \in Histories
         /\ Has(job[j].local, Tip(job[j].local))
         /\ made[j] \subseteq WorkIn(job[j].local)
<1>1. job[j].local \in Histories
  BY DEF Inv, TypeOK
<1>2. Len(job[j].local) > 0 /\ job[j].tree = {} /\ WorkKept(j)
  BY DEF Inv, TreeOK
<1>. QED
  BY <1>1, <1>2, TipIsThere DEF WorkKept

LEMMA PushInv == ASSUME Inv, slips' \subseteq Jobs, NEW j \in Jobs, Push(j) PROVE Inv' /\ Continues(remote', remote)
<1>1. At(j, "push") /\ UNCHANGED <<others, target, made>> /\ job[j].pc \in Committed
      /\ job[j].pc # "returned"
  BY DEF Push, At, Committed
<1>2. CASE remote' = remote /\ PushFailed(j)
  BY <1>1, <1>2, Unmoved, PushFailedInv DEF Inv
<1>3. CASE Accepted(j) /\ remote' = job[j].local /\ PushFailed(j)
  BY <1>1, <1>3, PushedAll, PushFailedInv DEF Accepted
<1>4. CASE Accepted(j) /\ remote' = job[j].local /\ Pushed(j)
  <2>1. remote' \in Histories /\ Continues(remote', remote)
    BY <1>1, <1>4, PushedAll DEF Accepted
  <2>2. Has(remote', Tip(job[j].local)) /\ made[j] \subseteq WorkIn(remote')
    BY <1>1, <1>4, PushedAll
  <2>3. PICK event \in Events : Return(j, event)
    <3>1. Published \in Events /\ FailedAt("artifact_uri", TRUE) \in Events
      BY EventTypes
    <3>. QED
      BY <1>4, <3>1 DEF Pushed
  <2>. QED
    BY <1>1, <2>1, <2>2, <2>3, ReturnInv
<1>. QED
  BY <1>2, <1>3, <1>4 DEF Push

LEMMA CommitInv == ASSUME Inv, slips' \subseteq Jobs, NEW j \in Jobs, Commit(j) PROVE Inv'
<1>1. At(j, "commit") /\ UNCHANGED <<remote, others, target, made>> /\ job[j].pc # "returned"
  BY DEF Commit, At
<1>2. CASE Raise(j)
  BY <1>1, <1>2, GoToInv DEF Raise, GoTo
<1>3. CASE Return(j, FailedAt("commit", FALSE))
  BY <1>1, <1>3, ReturnInv, EventTypes, Unmoved DEF Inv
<1>4. CASE job[j].staged # {} /\ CommitAll(j, job[j].staged, "sha")
  <2>1. job[j].staged = job[j].tree
    BY <1>1, <1>4 DEF Inv, TreeOK, At
  <2>. QED
    BY <1>1, <1>4, <2>1, CommitAllInv
<1>. QED
  BY <1>2, <1>3, <1>4 DEF Commit

LEMMA AddInv == ASSUME Inv, slips' \subseteq Jobs, NEW j \in Jobs, Add(j) PROVE Inv'
<1>1. At(j, "add") /\ UNCHANGED <<remote, others, target, made>> /\ job[j].pc # "returned"
  BY DEF Add, At
<1>2. CASE GoTo(j, "diff")
  BY <1>1, <1>2, GoToInv DEF At
<1>3. CASE job' = [job EXCEPT ![j].staged = job[j].tree, ![j].pc = "diff"]
  <2>. DEFINE s == [job[j] EXCEPT !.staged = job[j].tree, !.pc = "diff"]
  <2>1. job[j] \in JobStates /\ EventOK(j)
    BY DEF Inv, TypeOK, JobStates
  <2>2. /\ s \in JobStates /\ s.pc = "diff" /\ s.local = job[j].local /\ s.tree = job[j].tree
        /\ s.staged = s.tree /\ s.event = NoEvent
    BY <1>1, <2>1 DEF JobStates, EventOK
  <2>3. job' = [job EXCEPT ![j] = s]
    BY <1>3
  <2>. HIDE DEF s
  <2>. QED
    BY <1>1, <2>2, <2>3, MoveInv DEF Unstaged, Committed
<1>. QED
  BY <1>2, <1>3 DEF Add

LEMMA NextInv == ASSUME Inv, [Next]_vars PROVE Inv' /\ (remote' = remote \/ Continues(remote', remote))
<1>0. slips' \subseteq Jobs
  BY DEF Inv, TypeOK, Next, vars, OtherPush, Clone, Edit, AgentCommit, Finalize, Step, Add, Diff,
     Commit, Sha, Push, Kill
<1>1. CASE OtherPush
  BY <1>0, <1>1, OtherPushInv
<1>2. ASSUME NEW j \in Jobs, Clone(j) \/ Edit(j) \/ AgentCommit(j) \/ Finalize(j) \/ Step(j) \/ Kill(j)
      PROVE  Inv' /\ (remote' = remote \/ Continues(remote', remote))
  <2>1. CASE Clone(j)
    BY <2>1, <1>0, CloneInv DEF Clone
  <2>2. CASE Edit(j)
    BY <2>2, <1>0, EditInv DEF Edit
  <2>3. CASE AgentCommit(j)
    BY <2>3, <1>0, CommitAllInv DEF AgentCommit, At
  <2>4. CASE Finalize(j)
    <3>1. At(j, "work") /\ UNCHANGED <<remote, others, target, made>> /\ job[j].pc # "returned"
      BY <2>4 DEF Finalize, At
    <3>2. CASE Return(j, Skipped)
      BY <3>1, <3>2, <1>0, ReturnInv, EventTypes, Unmoved DEF Inv
    <3>3. CASE GoTo(j, "add")
      BY <3>1, <3>3, <1>0, GoToInv DEF At
    <3>. QED
      BY <2>4, <3>1, <3>2, <3>3 DEF Finalize
  <2>5. CASE Add(j)
    BY <2>5, <1>0, AddInv DEF Add
  <2>6. CASE Diff(j)
    <3>1. At(j, "diff") /\ UNCHANGED <<remote, others, target, made>> /\ job[j].pc # "returned"
      BY <2>6 DEF Diff, At
    <3>2. CASE Return(j, Skipped)
      BY <3>1, <3>2, <1>0, ReturnInv, EventTypes, Unmoved DEF Inv
    <3>3. CASE GoTo(j, "commit")
      BY <3>1, <3>3, <1>0, GoToInv DEF At
    <3>. QED
      BY <2>6, <3>1, <3>2, <3>3 DEF Diff
  <2>7. CASE Commit(j)
    BY <2>7, <1>0, CommitInv DEF Commit
  <2>8. CASE Sha(j)
    <3>1. At(j, "sha") /\ UNCHANGED <<remote, others, target, made>> /\ job[j].pc # "returned"
      BY <2>8 DEF Sha, At
    <3>. QED
      BY <2>8, <3>1, <1>0, GoToInv DEF Sha, Raise, GoTo, At
  <2>9. CASE Push(j)
    BY <2>9, <1>0, PushInv
  <2>10. CASE Kill(j)
    BY <2>10, <1>0, GoToInv DEF Kill
  <2>. QED
    BY <1>2, <2>1, <2>2, <2>3, <2>4, <2>5, <2>6, <2>7, <2>8, <2>9, <2>10 DEF Step
<1>3. CASE UNCHANGED vars
  <2>1. ASSUME NEW j \in Jobs PROVE (WorkKept(j) /\ TreeOK(j) /\ EventOK(j) /\ PersistedOK(j))'
    <3>1. WorkKept(j) /\ TreeOK(j) /\ EventOK(j) /\ PersistedOK(j)
      BY DEF Inv
    <3>. QED
      BY <1>3, <3>1 DEF vars, WorkKept, TreeOK, EventOK, PersistedOK
  <2>. QED
    BY <1>3, <2>1 DEF vars, Inv, TypeOK
<1>. QED
  BY <1>1, <1>2, <1>3 DEF Next

LEMMA Inductive == Spec => []Inv
BY InitInv, NextInv, PTL DEF Spec

(* Every state is of the declared shape.                                   *)
THEOREM TypeCorrect == Spec => []TypeOK
<1>1. Inv => TypeOK
  BY DEF Inv
<1>. QED
  BY <1>1, Inductive, PTL

(* What an event of finalize calls published, or persisted, is on the      *)
(* remote, whole, and stays there: git_workspace.py:146-167 for any number *)
(* of jobs, retries and competing pushes.                                  *)
THEOREM PersistedIsThere == Spec => []PersistedIsRemote
<1>1. Inv => PersistedIsRemote
  BY DEF Inv, PersistedOK, PersistedIsRemote
<1>. QED
  BY <1>1, Inductive, PTL

(* The branch only ever grows: no push of finalize takes a commit of       *)
(* somebody else away (git_workspace.py:140-145 pushes without force).     *)
THEOREM OthersAreKept == Spec => OthersKept
<1>1. Inv /\ [Next]_vars => [Continues(remote', remote)]_remote
  BY NextInv
<1>. QED
  BY <1>1, Inductive, PTL DEF Spec, OthersKept
--------------------------------------------------------------------------------
LEMMA CarefulOther ==
  ASSUME NEW k \in Jobs, Careful(k), UNCHANGED target, job'[k] = job[k], made'[k] = made[k],
         WorkIn(remote) \subseteq WorkIn(remote')
  PROVE  Careful(k)'
BY DEF Careful

LEMMA CarefulStep ==
  ASSUME Inv, NEW j \in Jobs, Careful(j), PersistedOK(j)', EventOK(j)',
         Clone(j) \/ Edit(j) \/ AgentCommit(j) \/ Finalize(j) \/ Step(j) \/ Kill(j),
         j \notin slips'
  PROVE  Careful(j)'
<1>1. job \in [Jobs -> JobStates] /\ made \in [Jobs -> SUBSET Works] /\ EventOK(j) /\ TreeOK(j)
  BY DEF Inv, TypeOK, JobStates
<1>2. CASE Clone(j)
  BY <1>1, <1>2, EventTypes DEF Clone, At, Careful, EventOK, Unstaged, JobStates
<1>3. CASE Edit(j)
  <2>1. PICK e \in Edits :
          /\ job' = [job EXCEPT ![j].tree = @ \cup {<<j, e>>}]
          /\ made' = [made EXCEPT ![j] = @ \cup {<<j, e>>}]
    BY <1>3 DEF Edit
  <2>2. /\ job'[j].tree = job[j].tree \cup {<<j, e>>} /\ made'[j] = made[j] \cup {<<j, e>>}
        /\ job'[j].pc = "work" /\ job'[j].event = NoEvent /\ target'[j] # "none"
    BY <1>1, <1>3, <2>1 DEF Edit, At, EventOK, JobStates
  <2>. QED
    BY <1>3, <2>2, EventTypes DEF Edit, At, Careful, Unstaged
<1>4. CASE Finalize(j)
  <2>1. CASE target[j] = "none"
    BY <1>1, <1>4, <2>1 DEF Finalize, Return, At, Careful, Unstaged, JobStates
  <2>2. CASE target[j] # "none"
    BY <1>1, <1>4, <2>2, EventTypes DEF Finalize, GoTo, At, Careful, EventOK, Unstaged, JobStates
  <2>. QED
    BY <2>1, <2>2
<1>5. CASE Add(j)
  BY <1>1, <1>5, EventTypes DEF Add, GoTo, At, Careful, EventOK, Unstaged, JobStates
<1>6. CASE Diff(j)
  <2>1. CASE job[j].staged = {} /\ Return(j, Skipped)
    BY <1>1, <1>6, <2>1 DEF Diff, Return, At, Careful, Unstaged, JobStates
  <2>2. CASE GoTo(j, "commit")
    BY <1>1, <1>6, <2>2, EventTypes DEF Diff, GoTo, At, Careful, EventOK, Unstaged, JobStates
  <2>. QED
    BY <1>6, <2>1, <2>2 DEF Diff
<1>7. CASE Commit(j)
  <2>1. UNCHANGED <<target, made>> /\ job[j].event = NoEvent
    BY <1>1, <1>7, EventTypes DEF Commit, At, EventOK
  <2>2. job'[j].pc \in {"raised", "returned", "sha"} /\ ~job'[j].event.success
    <3>1. CASE Raise(j)
      BY <1>1, <2>1, <3>1, EventTypes DEF Raise, JobStates
    <3>2. CASE Return(j, FailedAt("commit", FALSE))
      BY <1>1, <3>2, EventTypes DEF Return, JobStates
    <3>3. CASE CommitAll(j, job[j].staged, "sha")
      BY <1>1, <2>1, <3>3, EventTypes DEF CommitAll, JobStates
    <3>. QED
      BY <1>7, <3>1, <3>2, <3>3 DEF Commit
  <2>. QED
    BY <2>1, <2>2 DEF Careful, Unstaged
<1>8. CASE Sha(j)
  <2>1. UNCHANGED <<target, made>> /\ job[j].event = NoEvent
    BY <1>1, <1>8 DEF Sha, At, EventOK
  <2>2. job'[j].pc \in {"raised", "push"} /\ ~job'[j].event.success
    BY <1>1, <1>8, <2>1, EventTypes DEF Sha, Raise, GoTo, JobStates
  <2>. QED
    BY <2>1, <2>2 DEF Careful, Unstaged
<1>9. CASE Push(j)
  <2>1. UNCHANGED <<target, made>> /\ job[j].pc = "push" /\ job[j].event = NoEvent
    BY <1>1, <1>9 DEF Push, At, EventOK
  <2>2. job'[j].pc \in {"push", "returned"} /\ (job'[j].event.success => job'[j].event.persisted)
    <3>1. CASE Pushed(j)
      <4>1. PICK event : Return(j, event) /\ (event = Published \/ event = FailedAt("artifact_uri", TRUE))
        BY <3>1 DEF Pushed
      <4>2. job'[j].pc = "returned" /\ job'[j].event = event
        BY <1>1, <4>1 DEF Return, JobStates
      <4>. QED
        BY <4>1, <4>2, EventTypes
    <3>2. CASE job' = [job EXCEPT ![j].attempt = @ + 1]
      BY <1>1, <2>1, <3>2, EventTypes DEF JobStates
    <3>3. CASE Return(j, FailedAt("push", FALSE))
      BY <1>1, <3>3, EventTypes DEF Return, JobStates
    <3>. QED
      BY <1>9, <3>1, <3>2, <3>3 DEF Push, PushFailed
  <2>. QED
    BY <2>1, <2>2 DEF Careful, PersistedOK, Unstaged
<1>10. CASE Kill(j)
  <2>1. UNCHANGED <<target, made>> /\ job[j].event = NoEvent
    BY <1>1, <1>10 DEF Kill, EventOK
  <2>2. job'[j].pc = "killed" /\ ~job'[j].event.success
    BY <1>1, <1>10, <2>1, EventTypes DEF Kill, GoTo, JobStates
  <2>. QED
    BY <2>1, <2>2 DEF Careful, Unstaged
<1>. QED
  BY <1>2, <1>3, <1>4, <1>5, <1>6, <1>7, <1>8, <1>9, <1>10 DEF Step, AgentCommit

(* A job that finalize reports as a success has left nothing unpublished,  *)
(* if its agent has not committed and its `git add` has not failed: these  *)
(* two are all that git_workspace.py:83-97 is missing.                     *)
THEOREM SuccessSafe == Spec => []SuccessIsSafe
<1>. DEFINE AllCareful == \A j \in Jobs \ slips : Careful(j)
<1>1. Init => AllCareful
  <2>1. ASSUME Init, NEW j \in Jobs
        PROVE /\ made[j] = {} /\ job[j].pc = "queued" /\ job[j].event = NoEvent
    BY <2>1 DEF Init
  <2>. QED
    BY <2>1, EventTypes DEF Careful
<1>2. Inv /\ Inv' /\ AllCareful /\ [Next]_vars => AllCareful'
  <2>. SUFFICES ASSUME Inv, Inv', AllCareful, [Next]_vars, NEW k \in Jobs, k \notin slips'
                PROVE  Careful(k)'
    OBVIOUS
  <2>a. k \notin slips
    BY DEF Next, vars, OtherPush, Clone, Edit, AgentCommit, Finalize, Step, Add, Diff, Commit, Sha,
       Push, Kill
  <2>0. /\ Careful(k)
        /\ job \in [Jobs -> JobStates] /\ made \in [Jobs -> SUBSET Works]
        /\ remote \in Histories /\ remote' \in Histories
        /\ PersistedOK(k)' /\ EventOK(k)'
    BY <2>a DEF Inv, TypeOK, JobStates
  <2>1. WorkIn(remote) \subseteq WorkIn(remote')
    BY <2>0, NextInv, HistoryGrows
  <2>2. CASE OtherPush
    BY <2>0, <2>1, <2>2, CarefulOther DEF OtherPush
  <2>3. ASSUME NEW j \in Jobs,
               Clone(j) \/ Edit(j) \/ AgentCommit(j) \/ Finalize(j) \/ Step(j) \/ Kill(j)
        PROVE  Careful(k)'
    <3>1. CASE j = k
      BY <2>0, <2>3, <3>1, CarefulStep
    <3>2. CASE j # k
      <4>1. UNCHANGED target
        BY <2>3 DEF Clone, Edit, AgentCommit, Finalize, Step, Add, Diff, Commit, Sha, Push, Kill
      <4>2. job'[k] = job[k]
        BY <2>0, <2>3, <3>2 DEF Clone, Edit, AgentCommit, Finalize, Step, Add, Diff, Commit, Sha,
             Push, Kill, Pushed, PushFailed, GoTo, Return, Raise, CommitAll
      <4>3. made'[k] = made[k]
        BY <2>0, <2>3, <3>2 DEF Clone, Edit, AgentCommit, Finalize, Step, Add, Diff, Commit, Sha,
             Push, Kill
      <4>. QED
        BY <2>0, <2>1, <4>1, <4>2, <4>3, CarefulOther
    <3>. QED
      BY <3>1, <3>2
  <2>4. CASE UNCHANGED vars
    BY <2>0, <2>4, CarefulOther DEF vars
  <2>. QED
    BY <2>2, <2>3, <2>4 DEF Next
<1>3. AllCareful => SuccessIsSafe
  BY DEF Careful, SuccessIsSafe
<1>. QED
  BY <1>1, <1>2, <1>3, Inductive, PTL DEF Spec
--------------------------------------------------------------------------------
(* No commit of a job is in a history twice.                               *)
Once(h) == \A i, k \in DOMAIN h : h[i].by \in Jobs /\ h[i] = h[k] => i = k

(* What is in a history was made, and is in no working tree any more: so a *)
(* job never commits the same work again.                                  *)
Tracked(h) ==
  /\ Once(h)
  /\ \A k \in Jobs : WorkIn(h) \cap job[k].tree = {}
  /\ \A w \in WorkIn(h) : \A k \in Jobs, e \in Edits : w = <<k, e>> => w \in made[k]

Own(k) == job[k].tree \subseteq made[k] \cap ({k} \X Edits)

AllTracked == Tracked(remote) /\ \A k \in Jobs : Tracked(job[k].local) /\ Own(k)

LEMMA InitTracked == Init => AllTracked
<1>. SUFFICES ASSUME Init PROVE AllTracked
  OBVIOUS
<1>1. remote = <<>> /\ \A k \in Jobs : job[k].local = <<>> /\ job[k].tree = {}
  BY DEF Init
<1>2. Tracked(<<>>)
  BY DEF Tracked, Once, WorkIn
<1>. QED
  BY <1>1, <1>2 DEF AllTracked, Own

(* The histories only change places, and nothing is made.                  *)
LEMMA PassedOn ==
  ASSUME TypeOK, TypeOK', AllTracked, made' = made, \A k \in Jobs : job'[k].tree = job[k].tree,
         remote' = remote \/ \E i \in Jobs : remote' = job[i].local,
         \A k \in Jobs : job'[k].local = remote \/ \E i \in Jobs : job'[k].local = job[i].local
  PROVE  AllTracked'
<1>2. Tracked(remote)'
  BY DEF AllTracked, Tracked, Once, WorkIn
<1>3. ASSUME NEW k \in Jobs PROVE Tracked(job[k].local)'
  BY DEF AllTracked, Tracked, Once, WorkIn
<1>. QED
  BY <1>2, <1>3 DEF AllTracked, Own

(* An edit is nowhere in any history: nobody has made it before.           *)
LEMMA EditTracked ==
  ASSUME TypeOK, AllTracked, NEW j \in Jobs, Edit(j)
  PROVE  AllTracked'
<1>1. PICK e \in Edits :
        /\ <<j, e>> \notin made[j]
        /\ job' = [job EXCEPT ![j].tree = @ \cup {<<j, e>>}]
        /\ made' = [made EXCEPT ![j] = @ \cup {<<j, e>>}]
  BY DEF Edit
<1>2. job \in [Jobs -> JobStates] /\ made \in [Jobs -> SUBSET Works]
  BY DEF TypeOK, JobStates
<1>3. /\ remote' = remote /\ \A k \in Jobs : job'[k].local = job[k].local
      /\ job'[j].tree = job[j].tree \cup {<<j, e>>} /\ made'[j] = made[j] \cup {<<j, e>>}
      /\ \A k \in Jobs : k # j => job'[k].tree = job[k].tree /\ made'[k] = made[k]
  BY <1>1, <1>2 DEF Edit, JobStates
<1>4. ASSUME NEW h, Tracked(h)
      PROVE  /\ \A k \in Jobs : WorkIn(h) \cap job'[k].tree = {}
             /\ \A w \in WorkIn(h) : \A k \in Jobs, d \in Edits : w = <<k, d>> => w \in made'[k]
  <2>1. <<j, e>> \notin WorkIn(h)
    BY <1>1, <1>4 DEF Tracked
  <2>. QED
    BY <1>3, <1>4, <2>1 DEF Tracked
<1>5. Tracked(remote)'
  BY <1>3, <1>4 DEF AllTracked, Tracked, Once, WorkIn
<1>6. ASSUME NEW k \in Jobs PROVE Tracked(job[k].local)'
  BY <1>3, <1>4 DEF AllTracked, Tracked, Once, WorkIn
<1>7. ASSUME NEW k \in Jobs PROVE Own(k)'
  BY <1>3 DEF AllTracked, Own
<1>. QED
  BY <1>5, <1>6, <1>7 DEF AllTracked

(* A commit whose work is not in the history is a new one.                 *)
LEMMA OnceAppended ==
  ASSUME NEW h \in Histories, NEW c \in Commits, Once(h),
         c.by \in Jobs => c.work # {} /\ c.work \cap WorkIn(h) = {}
  PROVE  /\ Once(Append(h, c))
         /\ WorkIn(Append(h, c)) = WorkIn(h) \cup c.work
<1>1. /\ DOMAIN h = 1..Len(h) /\ DOMAIN Append(h, c) = 1..(Len(h) + 1) /\ Len(h) \in Nat
      /\ \A i \in 1..Len(h) : Append(h, c)[i] = h[i]
      /\ Append(h, c)[Len(h) + 1] = c
  BY DEF Histories
<1>2. c.by \in Jobs => \A i \in DOMAIN h : h[i] # c
  BY DEF WorkIn
<1>3. Once(Append(h, c))
  BY <1>1, <1>2 DEF Once
<1>4. WorkIn(Append(h, c)) = WorkIn(h) \cup c.work
  BY <1>1 DEF WorkIn
<1>. QED
  BY <1>3, <1>4

LEMMA CommitTracked ==
  ASSUME TypeOK, AllTracked, NEW j \in Jobs, NEW pc, CommitAll(j, job[j].tree, pc), job[j].tree # {},
         UNCHANGED <<remote, made>>
  PROVE  AllTracked'
<1>. DEFINE c == [by |-> j, work |-> job[j].tree]
            h == Append(job[j].local, c)
<1>1. job \in [Jobs -> JobStates] /\ job[j].local \in Histories /\ c \in Commits
  BY DEF TypeOK, JobStates, Commits
<1>2. c.by = j /\ c.work = job[j].tree
  OBVIOUS
<1>3. /\ job'[j].local = h /\ job'[j].tree = {}
      /\ \A k \in Jobs : k # j => job'[k].local = job[k].local /\ job'[k].tree = job[k].tree
  BY <1>1 DEF CommitAll, JobStates
<1>4. Once(h) /\ WorkIn(h) = WorkIn(job[j].local) \cup job[j].tree
  <2>. HIDE DEF c
  <2>1. Once(job[j].local) /\ c.work # {} /\ c.work \cap WorkIn(job[j].local) = {}
    BY <1>2 DEF AllTracked, Tracked
  <2>. QED
    BY <1>1, <1>2, <2>1, OnceAppended
<1>. HIDE DEF c, h
<1>5. ASSUME NEW k \in Jobs PROVE WorkIn(h) \cap job'[k].tree = {}
  <2>1. CASE k = j
    BY <1>3, <2>1
  <2>2. CASE k # j
    <3>1. job[j].tree \cap job[k].tree = {}
      BY <2>2 DEF AllTracked, Own
    <3>2. WorkIn(job[j].local) \cap job[k].tree = {}
      BY DEF AllTracked, Tracked
    <3>. QED
      BY <1>3, <1>4, <2>2, <3>1, <3>2
  <2>. QED
    BY <2>1, <2>2
<1>6. \A w \in WorkIn(h) : \A k \in Jobs, e \in Edits : w = <<k, e>> => w \in made[k]
  <2>1. \A w \in job[j].tree : \A k \in Jobs, e \in Edits : w = <<k, e>> => w \in made[k]
    BY DEF AllTracked, Own
  <2>. QED
    BY <1>4, <2>1 DEF AllTracked, Tracked
<1>7. Tracked(job[j].local)'
  BY <1>3, <1>4, <1>5, <1>6 DEF Tracked, Once, WorkIn
<1>8. ASSUME NEW k \in Jobs, k # j PROVE Tracked(job[k].local)'
  BY <1>3, <1>8 DEF AllTracked, Tracked, Once, WorkIn
<1>9. Tracked(remote)'
  BY <1>3 DEF AllTracked, Tracked, Once, WorkIn
<1>10. ASSUME NEW k \in Jobs PROVE Own(k)'
  BY <1>3 DEF AllTracked, Own
<1>. QED
  BY <1>7, <1>8, <1>9, <1>10 DEF AllTracked

LEMMA OtherPushTracked == ASSUME TypeOK, AllTracked, OtherPush PROVE AllTracked'
<1>. DEFINE c == [by |-> "somebody", work |-> {}]
<1>1. c \in Commits /\ remote \in Histories /\ Once(remote) /\ c.by \notin Jobs /\ c.work = {}
  BY PublishAssumption DEF Commits, TypeOK, AllTracked, Tracked
<1>2. remote' = Append(remote, c) /\ UNCHANGED <<job, made>>
  BY DEF OtherPush
<1>. HIDE DEF c
<1>3. Once(remote') /\ WorkIn(remote') = WorkIn(remote)
  BY <1>1, <1>2, OnceAppended
<1>4. Tracked(remote)'
  BY <1>2, <1>3 DEF AllTracked, Tracked, Once, WorkIn
<1>5. ASSUME NEW k \in Jobs PROVE (Tracked(job[k].local) /\ Own(k))'
  BY <1>2 DEF AllTracked, Own, Tracked, Once, WorkIn
<1>. QED
  BY <1>4, <1>5 DEF AllTracked

LEMMA NextTracked == ASSUME Inv, Inv', AllTracked, [Next]_vars PROVE AllTracked'
<1>1. /\ job \in [Jobs -> JobStates] /\ TypeOK /\ TypeOK'
      /\ \A j \in Jobs : job[j].local \in Histories /\ job'[j] \in JobStates
  BY DEF Inv, TypeOK, JobStates
<1>2. CASE OtherPush
  BY <1>1, <1>2, OtherPushTracked
<1>3. ASSUME NEW j \in Jobs, Edit(j) PROVE AllTracked'
  BY <1>1, <1>3, EditTracked
<1>4. ASSUME NEW j \in Jobs, AgentCommit(j) PROVE AllTracked'
  BY <1>1, <1>4, CommitTracked DEF AgentCommit
<1>5. ASSUME NEW j \in Jobs, Commit(j), CommitAll(j, job[j].staged, "sha"), job[j].staged # {}
      PROVE  AllTracked'
  <2>1. job[j].staged = job[j].tree
    BY <1>5 DEF Inv, TreeOK, Commit, At
  <2>. QED
    BY <1>1, <1>5, <2>1, CommitTracked DEF Commit
<1>6. ASSUME NEW j \in Jobs, NEW pc, Clone(j) \/ GoTo(j, pc), UNCHANGED <<remote, made>>
      PROVE  AllTracked'
  BY <1>1, <1>6, PassedOn DEF Clone, GoTo, JobStates
<1>7. ASSUME NEW j \in Jobs, NEW event, Return(j, event), made' = made,
             remote' = remote \/ remote' = job[j].local
      PROVE  AllTracked'
  BY <1>1, <1>7, PassedOn DEF Return, JobStates
<1>8. ASSUME NEW j \in Jobs, job' = [job EXCEPT ![j].attempt = @ + 1], made' = made,
             remote' = remote \/ remote' = job[j].local
      PROVE  AllTracked'
  BY <1>1, <1>8, PassedOn DEF JobStates
<1>9. ASSUME NEW j \in Jobs, Add(j) PROVE AllTracked'
  <2>1. UNCHANGED <<remote, made>>
    BY <1>9 DEF Add
  <2>2. CASE job' = [job EXCEPT ![j].staged = job[j].tree, ![j].pc = "diff"]
    BY <1>1, <2>1, <2>2, PassedOn DEF JobStates
  <2>. QED
    BY <1>6, <1>9, <2>1, <2>2 DEF Add
<1>10. ASSUME NEW j \in Jobs, Push(j) PROVE AllTracked'
  BY <1>7, <1>8, <1>10 DEF Push, Pushed, PushFailed
<1>11. ASSUME NEW j \in Jobs, Finalize(j) \/ Diff(j) \/ Commit(j) \/ Sha(j) \/ Kill(j)
       PROVE  AllTracked'
  BY <1>5, <1>6, <1>7, <1>11 DEF Finalize, Diff, Commit, Sha, Kill, Raise, GoTo
<1>12. CASE UNCHANGED vars
  BY <1>1, <1>12, PassedOn DEF vars
<1>. QED
  BY <1>2, <1>3, <1>4, <1>6, <1>9, <1>10, <1>11, <1>12 DEF Next, Step, Clone

(* However often pushes are tried again, lost, answered late or beaten, no *)
(* commit of a job is on the branch twice (git_workspace.py:168-180).      *)
THEOREM NothingTwice == Spec => []PublishedOnce
<1>1. AllTracked => PublishedOnce
  BY DEF AllTracked, Tracked, Once, PublishedOnce
<1>. QED
  BY <1>1, InitTracked, NextTracked, Inductive, PTL DEF Spec
================================================================================
