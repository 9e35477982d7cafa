----------------------------- MODULE FactorioRuntime -----------------------------
(***************************************************************************)
(* How a worker job prepares the game: factorio_runtime.setup clears the   *)
(* directory of the mod's scripts, copies those of the job's bundle into   *)
(* it, connects to RCON and has the game reload.  The directory and the    *)
(* game are shared by all jobs, and nothing but Trenni's limit on the      *)
(* running jobs keeps them apart.  Any job may be killed between two files *)
(* and what it leaves is for the next one to clear.                        *)
(*                                                                         *)
(* A child of the directory counts as one file.  A job is identified with  *)
(* the revision of the bundle in its workspace.  The histories `met` and   *)
(* `deaf` are read by the properties alone.                                *)
(***************************************************************************)
EXTENDS Naturals, FiniteSets

CONSTANTS
  Jobs,
  Children,       \* what a directory of scripts may hold
  Dirs,           \* those that are directories
  Bundles,        \* the sets of scripts a revision of the bundle may have
  Limit,          \* 100: a directory with more files is not cleared
  MaxConcurrent   \* max_concurrent_jobs of the bundle

ASSUME RuntimeAssumption ==
  /\ {"absent", "torn", "foreign"} \cap Jobs = {}
  /\ IsFiniteSet(Children)
  /\ Dirs \subseteq Children
  /\ Bundles \subseteq SUBSET Children
  /\ Limit \in Nat
  /\ MaxConcurrent \in Nat \ {0}

VARIABLES
  live,    \* the directory of the mod's scripts: from which job each child is
  loaded,  \* what of it the game has loaded
  src,     \* the children of the bundle of each job
  job,     \* how far each job is, and with which children
  met,     \* jobs that have run beside another (history)
  deaf     \* jobs whose reload failed inside the pcall (history)

runtimeVars == <<live, loaded, src, job, met, deaf>>

Contents == Jobs \cup {"absent", "torn", "foreign"}
Directories == [Children -> Contents]
Present == {c \in Children : live[c] # "absent"}
Scripts(j) == [c \in Children |-> IF c \in src[j] THEN j ELSE "absent"]

Setup == {"check", "clear", "copy", "copying", "connect", "reload"}
Active == Setup \cup {"ready"}
Running == {j \in Jobs : job[j].pc \in Active}

Idle(pc) == [pc |-> pc, todo |-> {}, child |-> {}]

RuntimeInit ==
  /\ live \in [Children -> {"absent", "foreign"}]
  /\ loaded = live
  /\ src \in [Jobs -> Bundles]
  /\ job = [j \in Jobs |-> Idle("queued")]
  /\ met = {} /\ deaf = {}

At(j, pc) == job[j].pc = pc
GoTo(j, pc) == job' = [job EXCEPT ![j].pc = pc]
End(j, pc) == job' = [job EXCEPT ![j] = Idle(pc)]
Raise(j) == End(j, "raised")
--------------------------------------------------------------------------------
\* Trenni launches a job when the bundle has room for one (external).
Launch(j) ==
  /\ At(j, "queued")
  /\ Cardinality(Running) < MaxConcurrent
  /\ GoTo(j, "check")
  /\ met' = IF Running = {} THEN met ELSE met \cup Running \cup {j}
  /\ UNCHANGED <<live, loaded, src, deaf>>

\* Mutant: a full directory is refused as well.
CheckFull(j) ==
  /\ At(j, "check")
  /\ IF Cardinality(Present) >= Limit
     THEN End(j, "refused")
     ELSE job' = [job EXCEPT ![j].pc = "clear", ![j].todo = Present]
  /\ UNCHANGED <<live, loaded, src, met, deaf>>

\* A missing directory is made, an overfull one refused.
Check(j) ==
  /\ At(j, "check")
  /\ IF Cardinality(Present) > Limit
     THEN End(j, "refused")
     ELSE job' = [job EXCEPT ![j].pc = "clear", ![j].todo = Present]
  /\ UNCHANGED <<live, loaded, src, met, deaf>>

\* One file, or one whole child of `todo`; what somebody else has removed is an error.
Clear(j) ==
  /\ At(j, "clear")
  /\ \E c \in job[j].todo :
       IF live[c] = "absent"
       THEN Raise(j) /\ UNCHANGED live
       ELSE \/ /\ c \in Dirs
               /\ live' = [live EXCEPT ![c] = "torn"] /\ UNCHANGED job
            \/ /\ live' = [live EXCEPT ![c] = "absent"]
               /\ job' = [job EXCEPT ![j].todo = @ \ {c}]
  /\ UNCHANGED <<loaded, src, met, deaf>>

\* Mutant: one child may be left.
ClearedButOne(j) ==
  /\ At(j, "clear") /\ Cardinality(job[j].todo) <= 1
  /\ job' = [job EXCEPT ![j].pc = "copy", ![j].todo = src[j]]
  /\ UNCHANGED <<live, loaded, src, met, deaf>>

Cleared(j) ==
  /\ At(j, "clear") /\ job[j].todo = {}
  /\ job' = [job EXCEPT ![j].pc = "copy", ![j].todo = src[j]]
  /\ UNCHANGED <<live, loaded, src, met, deaf>>

\* copytree makes the directory, which must not be there; copy2 overwrites.
Copy(j) ==
  /\ At(j, "copy")
  /\ \E c \in job[j].todo :
       IF c \in Dirs /\ live[c] # "absent"
       THEN Raise(j) /\ UNCHANGED live
       ELSE /\ live' = [live EXCEPT ![c] = "torn"]
            /\ job' = [job EXCEPT ![j].pc = "copying", ![j].child = {c}]
  /\ UNCHANGED <<loaded, src, met, deaf>>

CopyEnds(j) ==
  /\ At(j, "copying")
  /\ \E c \in job[j].child :
       /\ live' = [live EXCEPT ![c] = j]
       /\ job' = [job EXCEPT ![j].pc = "copy", ![j].todo = @ \ {c}, ![j].child = {}]
  /\ UNCHANGED <<loaded, src, met, deaf>>

Copied(j) ==
  /\ At(j, "copy") /\ job[j].todo = {}
  /\ GoTo(j, "connect")
  /\ UNCHANGED <<live, loaded, src, met, deaf>>

Connect(j) ==
  /\ At(j, "connect")
  /\ GoTo(j, "reload") \/ Raise(j)
  /\ UNCHANGED <<live, loaded, src, met, deaf>>

\* Mutant: the connection is all that is waited for.
ReloadUnsent(j) ==
  /\ At(j, "reload")
  /\ GoTo(j, "ready")
  /\ UNCHANGED <<live, loaded, src, met, deaf>>

\* What the pcall catches, nobody is told.  A lost reply raises, whether or not the
\* game has run the command.
Reload(j) ==
  /\ At(j, "reload")
  /\ \/ GoTo(j, "ready") /\ loaded' = live /\ UNCHANGED deaf
     \/ GoTo(j, "ready") /\ deaf' = deaf \cup {j} /\ UNCHANGED loaded
     \/ Raise(j) /\ loaded' \in {loaded, live} /\ UNCHANGED deaf
  /\ UNCHANGED <<live, src, met>>

Finalize(j) ==
  /\ At(j, "ready")
  /\ End(j, "done")
  /\ UNCHANGED <<live, loaded, src, met, deaf>>

\* The container of the job is stopped.
Kill(j) ==
  /\ j \in Running
  /\ End(j, "killed")
  /\ UNCHANGED <<live, loaded, src, met, deaf>>

\* The game is started anew and loads what it finds.
Restart ==
  /\ loaded' = live
  /\ UNCHANGED <<live, src, job, met, deaf>>

Step(j) ==
  \/ Check(j) \/ Clear(j) \/ Cleared(j) \/ Copy(j) \/ CopyEnds(j) \/ Copied(j)
  \/ Connect(j) \/ Reload(j)

RuntimeNext ==
  \/ Restart
  \/ \E j \in Jobs : Launch(j) \/ Step(j) \/ Finalize(j) \/ Kill(j)

RuntimeSpec == RuntimeInit /\ [][RuntimeNext]_runtimeVars
--------------------------------------------------------------------------------
States ==
  [pc : Active \cup {"queued", "refused", "raised", "done", "killed"},
   todo : SUBSET Children, child : SUBSET Children]

\* What is in which variable; a job copies nothing but the children of its bundle,
\* the one in hand among those still to do.
RuntimeTypeOK ==
  /\ live \in Directories /\ loaded \in Directories
  /\ src \in [Jobs -> Bundles]
  /\ job \in [Jobs -> States]
  /\ met \subseteq Jobs /\ deaf \subseteq Jobs
  /\ \A j \in Jobs :
       /\ job[j].pc \in {"copy", "copying"} => job[j].todo \subseteq src[j]
       /\ job[j].child \subseteq job[j].todo

\* Of a job that has never run beside another, whatever killed or failed jobs left in
\* the directory before it: once its setup has returned, and as long as it runs, the
\* directory holds its bundle's scripts, whole, and no other (setup's "sync").
ReadyMeansSynced ==
  \A j \in Jobs \ met : At(j, "ready") => live = Scripts(j)

\* And, had the game no error to swallow while reloading, the game runs those scripts
\* and no others ("reload mod scripts so freshly synced files take effect").
ReadyMeansLoaded ==
  \A j \in Jobs \ (met \cup deaf) : At(j, "ready") => loaded = Scripts(j)

\* The refusal to clear an overfull directory is never brought about by jobs that come
\* one after the other with bundles within the limit, though they may be killed half
\* way: somebody else's files, or a bundle over the limit, are there.
RefusalExplained ==
  (\E j \in Jobs : At(j, "refused")) =>
    \/ met # {}
    \/ \E c \in Children : live[c] = "foreign"
    \/ \E i \in Jobs : Cardinality(src[i]) > Limit
================================================================================
