------------------------------ MODULE FactorioProofs ------------------------------
(***************************************************************************)
(* Theorems about the components of the Factorio bundle: the runtime that  *)
(* prepares the game for a job, the batch script, the context of a join.   *)
(*                                                                         *)
(* The runtime: what setup leaves in the directory, for any number of jobs *)
(* and scripts, any limits and whatever earlier jobs left.  Of a job that  *)
(* never ran beside another the invariant keeps that it is the only one    *)
(* running, and what it has already made of the directory: cleared but for *)
(* its `todo`, then copied but for its `todo`.                             *)
(***************************************************************************)
EXTENDS FactorioRuntime, BatchOperations, JoinContext, FiniteSetTheorems,
        WellFoundedInduction, TLAPS

Alone(j) == \A i \in Jobs : i # j => job[i].pc \notin Active

\* What is in hand is one child, and none unless something is being copied.
Hand(j) ==
  /\ job[j].pc # "copying" => job[j].child = {}
  /\ \A c, d \in job[j].child : c = d

Holds(j, done) ==
  \A c \in Children \ job[j].child : live[c] = IF c \in done THEN j ELSE "absent"

Synced(j) ==
  /\ job[j].pc = "clear" => Present \subseteq job[j].todo
  /\ job[j].pc \in {"copy", "copying"} => Holds(j, src[j] \ job[j].todo)
  /\ job[j].pc \in {"connect", "reload", "ready"} => Holds(j, src[j])
  /\ job[j].pc = "ready" /\ j \notin deaf => loaded = live

RuntimeInv ==
  /\ RuntimeTypeOK
  /\ \A j \in Jobs : Hand(j)
  /\ \A j \in Jobs \ met : job[j].pc \in Active => Alone(j) /\ Synced(j)

\* Any step of a job but its launch.
Work(j) == Step(j) \/ Finalize(j) \/ Kill(j)

USE RuntimeAssumption
--------------------------------------------------------------------------------
LEMMA RuntimeInitInv == RuntimeInit => RuntimeInv
<1> SUFFICES ASSUME RuntimeInit PROVE RuntimeInv
  OBVIOUS
<1>1. \A j \in Jobs : job[j] = Idle("queued")
  BY DEF RuntimeInit
<1>2. RuntimeTypeOK
  BY <1>1 DEF RuntimeInit, RuntimeTypeOK, States, Directories, Contents, Idle, Active
<1>3. \A j \in Jobs : Hand(j) /\ job[j].pc \notin Active
  BY <1>1 DEF Hand, Idle, Active, Setup
<1> QED
  BY <1>2, <1>3 DEF RuntimeInv

\* The effect of a launch on the jobs.
LEMMA LaunchEffect ==
  ASSUME NEW j \in Jobs, RuntimeTypeOK, Launch(j)
  PROVE  /\ job'[j] \in States /\ job'[j].pc = "check"
         /\ job'[j].todo = job[j].todo /\ job'[j].child = job[j].child
         /\ \A i \in Jobs : i # j => job'[i] = job[i]
         /\ job' \in [Jobs -> States]
BY DEF RuntimeTypeOK, Launch, GoTo, At, States, Active, Setup

\* A job that works was active, and nothing but its own record changes.
LEMMA WorkEffect ==
  ASSUME NEW j \in Jobs, RuntimeTypeOK, Work(j)
  PROVE  /\ job[j].pc \in Active
         /\ job' \in [Jobs -> States]
         /\ \A i \in Jobs : i # j => job'[i] = job[i]
         /\ src' = src /\ met' = met
<1>1. job \in [Jobs -> States] /\ live \in [Children -> Contents]
  BY DEF RuntimeTypeOK, Directories
<1>2. job[j] \in States /\ job[j].todo \subseteq Children
  BY <1>1 DEF States
<1>3. \A pc \in {"refused", "raised", "done", "killed"} : Idle(pc) \in States
  BY DEF Idle, States
<1>4. CASE Check(j)
  BY <1>1, <1>2, <1>3, <1>4, Present \subseteq Children
  DEF Check, At, End, Present, States, Active, Setup
<1>5. CASE Clear(j)
  BY <1>1, <1>2, <1>3, <1>5 DEF Clear, At, Raise, End, States, Active, Setup
<1>6. CASE Cleared(j)
  <2>1. src[j] \subseteq Children
    BY DEF RuntimeTypeOK
  <2> QED
    BY <1>1, <1>2, <1>6, <2>1 DEF Cleared, At, States, Active, Setup
<1>7. CASE Copy(j)
  BY <1>1, <1>2, <1>3, <1>7 DEF Copy, At, Raise, End, States, Active, Setup
<1>8. CASE CopyEnds(j)
  BY <1>1, <1>2, <1>8 DEF CopyEnds, At, States, Active, Setup
<1>9. CASE Copied(j) \/ Connect(j) \/ Reload(j)
  BY <1>1, <1>2, <1>3, <1>9
  DEF Copied, Connect, Reload, At, GoTo, Raise, End, States, Active, Setup
<1>10. CASE Finalize(j) \/ Kill(j)
  BY <1>1, <1>2, <1>3, <1>10
  DEF Finalize, Kill, Running, At, End, States, Active, Setup
<1> QED
  BY <1>4, <1>5, <1>6, <1>7, <1>8, <1>9, <1>10 DEF Work, Step

\* What a working job makes of its own record, the directory and the game.
LEMMA WorkOwn ==
  ASSUME NEW j \in Jobs, RuntimeTypeOK, Hand(j), Work(j)
  PROVE  /\ live' \in Directories /\ loaded' \in Directories /\ deaf' \subseteq Jobs
         /\ job'[j].pc \in {"copy", "copying"} => job'[j].todo \subseteq src[j]
         /\ job'[j].child \subseteq job'[j].todo
         /\ Hand(j)'
         /\ Alone(j) /\ Synced(j) => Synced(j)'
<1> DEFINE Own == /\ live' \in Directories /\ loaded' \in Directories /\ deaf' \subseteq Jobs
                  /\ job'[j].pc \in {"copy", "copying"} => job'[j].todo \subseteq src[j]
                  /\ job'[j].child \subseteq job'[j].todo
                  /\ Hand(j)'
                  /\ Synced(j) => Synced(j)'
<1> SUFFICES Own
  OBVIOUS
<1>1. /\ job \in [Jobs -> States] /\ job[j] \in States
      /\ live \in [Children -> Contents] /\ loaded \in Directories /\ live \in Directories
      /\ src[j] \subseteq Children /\ deaf \subseteq Jobs
      /\ job[j].pc \in {"copy", "copying"} => job[j].todo \subseteq src[j]
      /\ job[j].child \subseteq job[j].todo /\ job[j].todo \subseteq Children
  BY DEF RuntimeTypeOK, States, Directories
<1>2. src' = src
  BY WorkEffect
<1>3. ASSUME NEW pc \in {"refused", "raised", "done", "killed"}, End(j, pc),
             live' = live \/ live' \in Directories, loaded' \in {loaded, live}, deaf' = deaf
      PROVE  Own
  <2>1. job'[j] = Idle(pc)
    BY <1>1, <1>3 DEF End
  <2> QED
    BY <1>1, <1>3, <2>1 DEF Idle, Hand, Synced
<1>4. CASE Check(j)
  <2>1. CASE Cardinality(Present) > Limit
    BY <1>1, <1>3, <1>4, <2>1 DEF Check
  <2>2. CASE ~(Cardinality(Present) > Limit)
    <3>1. /\ job'[j].pc = "clear" /\ job'[j].todo = Present /\ job'[j].child = job[j].child
          /\ job[j].child = {} /\ live' = live /\ loaded' = loaded /\ deaf' = deaf
      BY <1>1, <1>4, <2>2 DEF Check, At, States, Hand
    <3> QED
      BY <1>1, <3>1 DEF Hand, Synced, Present
  <2> QED
    BY <2>1, <2>2
<1>5. CASE Clear(j)
  <2>1. PICK c \in job[j].todo :
          IF live[c] = "absent"
          THEN Raise(j) /\ UNCHANGED live
          ELSE \/ /\ c \in Dirs
                  /\ live' = [live EXCEPT ![c] = "torn"] /\ UNCHANGED job
               \/ /\ live' = [live EXCEPT ![c] = "absent"]
                  /\ job' = [job EXCEPT ![j].todo = @ \ {c}]
    BY <1>5 DEF Clear
  <2>2. /\ loaded' = loaded /\ deaf' = deaf /\ job[j].pc = "clear" /\ job[j].child = {}
        /\ c \in Children
    BY <1>1, <1>5 DEF Clear, At, Hand
  <2>3. CASE live[c] = "absent"
    BY <1>1, <1>3, <2>1, <2>2, <2>3 DEF Raise
  <2>4. CASE live' = [live EXCEPT ![c] = "torn"] /\ UNCHANGED job /\ live[c] # "absent"
    BY <1>1, <2>2, <2>4 DEF Directories, Contents, Hand, Synced, Present
  <2>5. CASE /\ live' = [live EXCEPT ![c] = "absent"]
             /\ job' = [job EXCEPT ![j].todo = @ \ {c}]
    <3>1. /\ job'[j].pc = "clear" /\ job'[j].child = {} /\ job'[j].todo = job[j].todo \ {c}
          /\ live' \in Directories
      BY <1>1, <2>2, <2>5 DEF States, Directories, Contents
    <3>2. Present \subseteq job[j].todo => Present' \subseteq job'[j].todo
      BY <1>1, <2>2, <2>5, <3>1 DEF Present
    <3> QED
      BY <1>1, <2>2, <3>1, <3>2 DEF Hand, Synced
  <2> QED
    BY <2>1, <2>3, <2>4, <2>5
<1>6. CASE Cleared(j)
  <2>1. /\ job[j].pc = "clear" /\ job[j].todo = {} /\ job[j].child = {}
        /\ job'[j].pc = "copy" /\ job'[j].todo = src[j] /\ job'[j].child = {}
        /\ live' = live /\ loaded' = loaded /\ deaf' = deaf
    BY <1>1, <1>6 DEF Cleared, At, States, Hand
  <2> QED
    BY <1>1, <1>2, <2>1 DEF Hand, Synced, Holds, Present
<1>7. CASE Copy(j)
  <2>1. PICK c \in job[j].todo :
          IF c \in Dirs /\ live[c] # "absent"
          THEN Raise(j) /\ UNCHANGED live
          ELSE /\ live' = [live EXCEPT ![c] = "torn"]
               /\ job' = [job EXCEPT ![j].pc = "copying", ![j].child = {c}]
    BY <1>7 DEF Copy
  <2>2. /\ loaded' = loaded /\ deaf' = deaf /\ job[j].pc = "copy" /\ job[j].child = {}
        /\ c \in Children
    BY <1>1, <1>7 DEF Copy, At, Hand
  <2>3. CASE Raise(j) /\ UNCHANGED live
    BY <1>1, <1>3, <2>2, <2>3 DEF Raise
  <2>4. CASE /\ live' = [live EXCEPT ![c] = "torn"]
             /\ job' = [job EXCEPT ![j].pc = "copying", ![j].child = {c}]
    <3>1. /\ job'[j].pc = "copying" /\ job'[j].child = {c} /\ job'[j].todo = job[j].todo
          /\ live' \in Directories /\ \A d \in Children \ {c} : live'[d] = live[d]
      BY <1>1, <2>2, <2>4 DEF States, Directories, Contents
    <3> QED
      BY <1>1, <1>2, <2>2, <3>1 DEF Hand, Synced, Holds
  <2> QED
    BY <2>1, <2>3, <2>4
<1>8. CASE CopyEnds(j)
  <2>1. PICK c \in job[j].child :
          /\ live' = [live EXCEPT ![c] = j]
          /\ job' = [job EXCEPT ![j].pc = "copy", ![j].todo = @ \ {c}, ![j].child = {}]
    BY <1>8 DEF CopyEnds
  <2>2. /\ loaded' = loaded /\ deaf' = deaf /\ job[j].pc = "copying"
        /\ c \in Children /\ c \in src[j] /\ job[j].child = {c}
    BY <1>1, <1>8 DEF CopyEnds, At, Hand
  <2>3. /\ job'[j].pc = "copy" /\ job'[j].child = {} /\ job'[j].todo = job[j].todo \ {c}
        /\ live' \in Directories /\ live'[c] = j
        /\ \A d \in Children \ {c} : live'[d] = live[d]
    BY <1>1, <2>1, <2>2 DEF States, Directories, Contents
  <2> QED
    BY <1>1, <1>2, <2>2, <2>3 DEF Hand, Synced, Holds
<1>9. CASE Copied(j)
  <2>1. /\ job[j].pc = "copy" /\ job[j].todo = {} /\ job[j].child = {}
        /\ job'[j].pc = "connect" /\ job'[j].todo = {} /\ job'[j].child = {}
        /\ live' = live /\ loaded' = loaded /\ deaf' = deaf
    BY <1>1, <1>9 DEF Copied, At, GoTo, States, Hand
  <2> QED
    BY <1>1, <1>2, <2>1 DEF Hand, Synced, Holds
<1>10. CASE Connect(j)
  <2>1. CASE Raise(j)
    BY <1>1, <1>3, <1>10, <2>1 DEF Connect, Raise
  <2>2. CASE GoTo(j, "reload")
    <3>1. /\ job[j].pc = "connect" /\ job[j].child = {}
          /\ job'[j].pc = "reload" /\ job'[j].todo = job[j].todo /\ job'[j].child = {}
          /\ live' = live /\ loaded' = loaded /\ deaf' = deaf
      BY <1>1, <1>10, <2>2 DEF Connect, At, GoTo, States, Hand
    <3> QED
      BY <1>1, <1>2, <3>1 DEF Hand, Synced, Holds
  <2> QED
    BY <1>10, <2>1, <2>2 DEF Connect
<1>11. CASE Reload(j)
  <2>1. CASE Raise(j) /\ loaded' \in {loaded, live} /\ UNCHANGED deaf
    BY <1>1, <1>3, <1>11, <2>1 DEF Reload, Raise
  <2>2. CASE /\ GoTo(j, "ready")
             /\ \/ loaded' = live /\ UNCHANGED deaf
                \/ deaf' = deaf \cup {j} /\ UNCHANGED loaded
    <3>1. /\ job[j].pc = "reload" /\ job[j].child = {}
          /\ job'[j].pc = "ready" /\ job'[j].todo = job[j].todo /\ job'[j].child = {}
          /\ live' = live
      BY <1>1, <1>11, <2>2 DEF Reload, At, GoTo, States, Hand
    <3> QED
      BY <1>1, <1>2, <2>2, <3>1 DEF Hand, Synced, Holds
  <2> QED
    BY <1>11, <2>1, <2>2 DEF Reload
<1>12. CASE Finalize(j) \/ Kill(j)
  BY <1>1, <1>3, <1>12 DEF Finalize, Kill
<1> QED
  BY <1>4, <1>5, <1>6, <1>7, <1>8, <1>9, <1>10, <1>11, <1>12 DEF Work, Step

\* A launch: the new job has done nothing yet, and whoever runs has now met it.
LEMMA LaunchInv == ASSUME RuntimeInv, NEW j \in Jobs, Launch(j) PROVE RuntimeInv'
<1>1. RuntimeTypeOK /\ job[j].pc = "queued"
  BY DEF RuntimeInv, Launch, At
<1>2. /\ job'[j] \in States /\ job'[j].pc = "check"
      /\ job'[j].todo = job[j].todo /\ job'[j].child = job[j].child
      /\ \A i \in Jobs : i # j => job'[i] = job[i]
      /\ job' \in [Jobs -> States]
  BY <1>1, LaunchEffect
<1>3. UNCHANGED <<live, loaded, src, deaf>>
  BY DEF Launch
<1>4. met' = IF Running = {} THEN met ELSE met \cup Running \cup {j}
  BY DEF Launch
<1>5. RuntimeTypeOK'
  <2>1. met' \subseteq Jobs
    BY <1>1, <1>4 DEF RuntimeTypeOK, Running
  <2> QED
    BY <1>1, <1>2, <1>3, <2>1 DEF RuntimeTypeOK
<1>6. \A i \in Jobs : Hand(i)'
  BY <1>1, <1>2 DEF RuntimeInv, Hand
<1>7. ASSUME NEW i \in Jobs \ met', job'[i].pc \in Active PROVE Alone(i)' /\ Synced(i)'
  <2>1. Running = {}
    <3>1. CASE i = j
      BY <1>4, <1>7, <3>1
    <3>2. CASE i # j
      BY <1>2, <1>4, <1>7, <3>2 DEF Running
    <3> QED
      BY <3>1, <3>2
  <2>2. i = j
    BY <1>2, <1>7, <2>1 DEF Running
  <2>3. Alone(i)'
    BY <1>2, <2>1, <2>2 DEF Alone, Running
  <2> QED
    BY <1>2, <2>2, <2>3 DEF Synced
<1> QED
  BY <1>5, <1>6, <1>7 DEF RuntimeInv

LEMMA WorkInv == ASSUME RuntimeInv, NEW j \in Jobs, Work(j) PROVE RuntimeInv'
<1>1. RuntimeTypeOK /\ Hand(j)
  BY DEF RuntimeInv
<1>2. /\ job[j].pc \in Active /\ job' \in [Jobs -> States]
      /\ \A i \in Jobs : i # j => job'[i] = job[i]
      /\ src' = src /\ met' = met
  BY <1>1, WorkEffect
<1>3. /\ live' \in Directories /\ loaded' \in Directories /\ deaf' \subseteq Jobs
      /\ job'[j].pc \in {"copy", "copying"} => job'[j].todo \subseteq src[j]
      /\ job'[j].child \subseteq job'[j].todo
      /\ Hand(j)'
      /\ Alone(j) /\ Synced(j) => Synced(j)'
  BY <1>1, WorkOwn
<1>4. RuntimeTypeOK'
  <2>1. \A i \in Jobs :
          /\ job'[i].pc \in {"copy", "copying"} => job'[i].todo \subseteq src[i]
          /\ job'[i].child \subseteq job'[i].todo
    BY <1>1, <1>2, <1>3 DEF RuntimeTypeOK
  <2> QED
    BY <1>1, <1>2, <1>3, <2>1 DEF RuntimeTypeOK
<1>5. \A i \in Jobs : Hand(i)'
  BY <1>2, <1>3 DEF RuntimeInv, Hand
<1>6. ASSUME NEW i \in Jobs \ met', job'[i].pc \in Active PROVE Alone(i)' /\ Synced(i)'
  <2>1. i = j
    BY <1>2, <1>6 DEF RuntimeInv, Alone
  <2>2. Alone(j) /\ Synced(j)
    BY <1>2, <1>6, <2>1 DEF RuntimeInv
  <2> QED
    BY <1>2, <1>3, <2>1, <2>2 DEF Alone
<1> QED
  BY <1>4, <1>5, <1>6 DEF RuntimeInv

LEMMA RestartInv == ASSUME RuntimeInv, Restart PROVE RuntimeInv'
<1>1. RuntimeTypeOK'
  BY DEF RuntimeInv, RuntimeTypeOK, Restart
<1> QED
  BY <1>1 DEF RuntimeInv, Restart, Hand, Alone, Synced, Holds, Present

LEMMA RuntimeStepInv == RuntimeInv /\ [RuntimeNext]_runtimeVars => RuntimeInv'
<1> SUFFICES ASSUME RuntimeInv, [RuntimeNext]_runtimeVars PROVE RuntimeInv'
  OBVIOUS
<1>1. CASE UNCHANGED runtimeVars
  BY <1>1 DEF RuntimeInv, RuntimeTypeOK, Hand, Alone, Synced, Holds, Present, runtimeVars
<1>2. CASE Restart
  BY <1>2, RestartInv
<1>3. CASE \E j \in Jobs : Launch(j) \/ Step(j) \/ Finalize(j) \/ Kill(j)
  BY <1>3, LaunchInv, WorkInv DEF Work
<1> QED
  BY <1>1, <1>2, <1>3 DEF RuntimeNext

LEMMA RuntimeInvariant == RuntimeSpec => []RuntimeInv
  BY RuntimeInitInv, RuntimeStepInv, PTL DEF RuntimeSpec
--------------------------------------------------------------------------------
\* Every variable keeps its type, and a job copies only what its bundle has.
THEOREM RuntimeTypeCorrect == RuntimeSpec => []RuntimeTypeOK
<1>1. RuntimeInv => RuntimeTypeOK
  BY DEF RuntimeInv
<1> QED
  BY <1>1, RuntimeInvariant, PTL

\* A job that never ran beside another finds its bundle's scripts and no others in the
\* directory when setup returns, whatever the jobs before it left there.
THEOREM ReadySynced == RuntimeSpec => []ReadyMeansSynced
<1>1. RuntimeInv => ReadyMeansSynced
  <2> SUFFICES ASSUME RuntimeInv, NEW j \in Jobs \ met, At(j, "ready") PROVE live = Scripts(j)
    BY DEF ReadyMeansSynced
  <2>1. Holds(j, src[j]) /\ job[j].child = {}
    BY DEF RuntimeInv, Synced, Hand, At, Active
  <2>2. \A c \in Children : live[c] = IF c \in src[j] THEN j ELSE "absent"
    BY <2>1 DEF Holds
  <2>3. live \in [Children -> Contents]
    BY DEF RuntimeInv, RuntimeTypeOK, Directories
  <2> QED
    BY <2>2, <2>3 DEF Scripts
<1> QED
  BY <1>1, RuntimeInvariant, PTL

\* And the game runs them, unless its reload failed inside the pcall.
THEOREM ReadyLoaded == RuntimeSpec => []ReadyMeansLoaded
<1>1. RuntimeInv /\ ReadyMeansSynced => ReadyMeansLoaded
  BY DEF RuntimeInv, Synced, At, Active, ReadyMeansSynced, ReadyMeansLoaded
<1> QED
  BY <1>1, RuntimeInvariant, ReadySynced, PTL
--------------------------------------------------------------------------------
\* The hypotheses of RefusalExplained.
Sequential == met = {} /\ \A i \in Jobs : ~(Cardinality(src[i]) > Limit)

NoForeign == \A c \in Children : live[c] # "foreign"

\* What has passed the check is not over the limit, and does not become so, neither by
\* what is copied nor by what a job leaves behind; what was refused still is.
Tidy ==
  Sequential =>
    /\ NoForeign => Cardinality(Present) <= Limit
    /\ \A j \in Jobs : job[j].pc \in Active \ {"check"} => Cardinality(Present) <= Limit
    /\ \A j \in Jobs : job[j].pc = "refused" => Cardinality(Present) > Limit

LEMMA PresentFinite == /\ IsFiniteSet(Present) /\ Cardinality(Present) \in Nat
                       /\ IsFiniteSet(Present') /\ Cardinality(Present') \in Nat
<1>1. Present \subseteq Children /\ Present' \subseteq Children
  BY DEF Present
<1>2. IsFiniteSet(Children)
  BY RuntimeAssumption
<1>3. IsFiniteSet(Present) /\ IsFiniteSet(Present')
  BY <1>1, <1>2, FS_Subset
<1> QED
  BY <1>3, FS_CardinalityType

LEMMA InitTidy == RuntimeInit => Tidy
<1> SUFFICES ASSUME RuntimeInit, Sequential PROVE Tidy
  BY DEF Tidy
<1>1. NoForeign => Present = {}
  BY DEF RuntimeInit, NoForeign, Present
<1>2. \A j \in Jobs : job[j].pc = "queued"
  BY DEF RuntimeInit, Idle
<1>3. Cardinality({}) <= Limit
  BY FS_EmptySet
<1> QED
  BY <1>1, <1>2, <1>3 DEF Tidy, Active, Setup

\* A step adds to the directory only while it copies, and is refused only by its check.
LEMMA WorkPresent ==
  ASSUME NEW j \in Jobs, RuntimeTypeOK, Work(j)
  PROVE  /\ job'[j].pc \in {"copy", "copying"} \/ Present' \subseteq Present
         /\ job'[j].pc = "refused" => job[j].pc = "check"
<1>1. /\ job \in [Jobs -> States] /\ live \in [Children -> Contents]
      /\ job[j].todo \subseteq Children
  BY DEF RuntimeTypeOK, States, Directories
<1>2. CASE Clear(j)
  BY <1>1, <1>2 DEF Clear, At, Raise, End, Idle, Present, States
<1>3. CASE Copy(j)
  BY <1>1, <1>3 DEF Copy, Raise, End, Idle, Present, States
<1>4. CASE CopyEnds(j)
  BY <1>1, <1>4 DEF CopyEnds, States
<1>5. CASE Check(j)
  BY <1>5 DEF Check, At, Present
<1>6. CASE Cleared(j) \/ Copied(j) \/ Connect(j) \/ Reload(j)
  BY <1>1, <1>6 DEF Cleared, Copied, Connect, Reload, GoTo, Raise, End, Idle, Present, States
<1>7. CASE Finalize(j) \/ Kill(j)
  BY <1>1, <1>7 DEF Finalize, Kill, End, Idle, Present, States
<1> QED
  BY <1>2, <1>3, <1>4, <1>5, <1>6, <1>7 DEF Work, Step

\* And then the directory holds nothing but what is in the bundle.
LEMMA CopyWithinLimit ==
  ASSUME RuntimeInv', Sequential', NEW j \in Jobs, job'[j].pc \in {"copy", "copying"}
  PROVE  Cardinality(Present') <= Limit
<1>1. Holds(j, src[j] \ job[j].todo)' /\ job'[j].child \subseteq src'[j] /\ src'[j] \subseteq Children
  BY DEF RuntimeInv, Sequential, Synced, Active, Setup, RuntimeTypeOK
<1>2. Present' \subseteq src'[j]
  BY <1>1 DEF Holds, Present
<1>3. Cardinality(Present') <= Cardinality(src'[j]) /\ Cardinality(src'[j]) \in Nat
  <2>1. IsFiniteSet(src'[j])
    BY <1>1, FS_Subset, IsFiniteSet(Children)
  <2> QED
    BY <1>2, <2>1, FS_Subset, FS_CardinalityType
<1>4. Cardinality(src'[j]) <= Limit
  BY <1>3 DEF Sequential
<1> QED
  BY <1>3, <1>4, PresentFinite

LEMMA WorkTidy == ASSUME RuntimeInv, RuntimeInv', Tidy, NEW j \in Jobs, Work(j) PROVE Tidy'
<1>1. /\ job[j].pc \in Active /\ job' \in [Jobs -> States]
      /\ \A i \in Jobs : i # j => job'[i] = job[i]
      /\ src' = src /\ met' = met
  BY WorkEffect DEF RuntimeInv
<1> SUFFICES ASSUME Sequential' PROVE Tidy'
  BY DEF Tidy
<1>2. Sequential /\ Alone(j)
  BY <1>1 DEF Sequential, RuntimeInv
<1>3. \A i \in Jobs : i # j => job'[i].pc \notin Active
  BY <1>1, <1>2 DEF Alone
<1>4. CASE job[j].pc = "check"
  <2>1. live' = live /\ Present' = Present
    BY <1>4 DEF Work, Step, Check, Clear, Cleared, Copy, CopyEnds, Copied, Connect, Reload,
       Finalize, Kill, At, Active, Setup, Present
  <2>2. NoForeign' => Cardinality(Present') <= Limit
    BY <1>2, <2>1 DEF Tidy, NoForeign
  <2>3. CASE Check(j)
    <3>1. /\ job'[j].pc = "refused" => Cardinality(Present) > Limit
          /\ job'[j].pc \in Active => Cardinality(Present) <= Limit
      <4>1. job \in [Jobs -> States]
        BY DEF RuntimeInv, RuntimeTypeOK
      <4>2. CASE Cardinality(Present) > Limit
        BY <2>3, <4>1, <4>2 DEF Check, End, Idle, Active, Setup
      <4>3. CASE ~(Cardinality(Present) > Limit)
        BY <2>3, <4>1, <4>3, PresentFinite DEF Check, States
      <4> QED
        BY <4>2, <4>3
    <3> QED
      BY <1>1, <1>2, <1>3, <2>1, <2>2, <3>1 DEF Tidy
  <2>4. CASE Kill(j)
    <3>1. job'[j].pc = "killed"
      BY <2>4 DEF Kill, End, Idle, RuntimeInv, RuntimeTypeOK
    <3> QED
      BY <1>1, <1>2, <1>3, <2>1, <2>2, <3>1 DEF Tidy, Active, Setup
  <2> QED
    BY <1>4, <2>3, <2>4 DEF Work, Step, Clear, Cleared, Copy, CopyEnds, Copied, Connect, Reload,
       Finalize, At
<1>5. CASE job[j].pc # "check"
  <2>1. Cardinality(Present) <= Limit
    BY <1>1, <1>2, <1>5 DEF Tidy
  <2>2. Cardinality(Present') <= Limit
    <3>1. CASE job'[j].pc \in {"copy", "copying"}
      BY <3>1, CopyWithinLimit
    <3>2. CASE Present' \subseteq Present
      <4>1. Cardinality(Present') <= Cardinality(Present)
        BY <3>2, PresentFinite, FS_Subset
      <4> QED
        BY <2>1, <4>1, PresentFinite
    <3> QED
      BY <3>1, <3>2, WorkPresent DEF RuntimeInv
  <2>3. \A i \in Jobs : job[i].pc # "refused"
    BY <1>2, <2>1, PresentFinite DEF Tidy
  <2>4. job'[j].pc # "refused"
    BY <1>5, WorkPresent DEF RuntimeInv
  <2> QED
    BY <1>1, <2>2, <2>3, <2>4 DEF Tidy
<1> QED
  BY <1>4, <1>5

LEMMA StepTidy == RuntimeInv /\ RuntimeInv' /\ Tidy /\ [RuntimeNext]_runtimeVars => Tidy'
<1> SUFFICES ASSUME RuntimeInv, RuntimeInv', Tidy, [RuntimeNext]_runtimeVars PROVE Tidy'
  OBVIOUS
<1>1. CASE UNCHANGED <<live, src, job, met>>
  BY <1>1 DEF Tidy, Sequential, NoForeign, Present
<1>2. ASSUME NEW j \in Jobs, Launch(j) PROVE Tidy'
  <2>1. UNCHANGED <<live, src>> /\ job'[j].pc = "check" /\ (met' = {} => met = {})
        /\ \A i \in Jobs : i # j => job'[i] = job[i]
    BY <1>2, LaunchEffect DEF RuntimeInv, Launch
  <2> QED
    BY <2>1 DEF Tidy, Sequential, NoForeign, Present
<1>3. ASSUME NEW j \in Jobs, Work(j) PROVE Tidy'
  BY <1>3, WorkTidy
<1> QED
  BY <1>1, <1>2, <1>3 DEF RuntimeNext, Restart, Work, runtimeVars

\* However many jobs come one after the other, killed or not, with bundles within the
\* limit: none of them is refused its directory unless somebody else's files are there.
THEOREM RefusalIsExplained == RuntimeSpec => []RefusalExplained
<1>1. Tidy => RefusalExplained
  BY PresentFinite DEF Tidy, Sequential, NoForeign, RefusalExplained, At
<1> QED
  BY <1>1, InitTidy, StepTidy, RuntimeInvariant, PTL DEF RuntimeSpec
--------------------------------------------------------------------------------
HIDE RuntimeAssumption

(***************************************************************************)
(* The batch script: the rollback of a transaction, for any items, places, *)
(* inventory and length of the batch.  Restorable is not inductive by      *)
(* itself: that the rollback really removes the entity it names needs that *)
(* the entity was there after the operation that placed it (Standing), and *)
(* that inserting finds room needs that every past world was one the game  *)
(* can hold, which BatchTypeOK says.                                       *)
(***************************************************************************)

Standing ==
    ~ spoilt =>
        \A i \in DOMAIN rollback_data :
            rollback_data[i].kind = "remove_entity" =>
                rollback_data[i].entity \in past[i + 1].ents

BatchInv == BatchTypeOK /\ Len(past) = Len(rollback_data) + 1 /\ Restorable /\ Standing

\* The four things a step can do to the world and to what is recorded.
Same == UNCHANGED <<world, rollback_data, past, spoilt>>

Records(entry, w) ==
    /\ Recorded(entry, w)
    /\ entry \in Entries /\ w \in Worlds
    /\ Undone(entry, w) = world
    /\ entry.kind = "remove_entity" => entry.entity \in w.ents

Spoils(w) == Unrecorded(w) /\ w \in Worlds

Pops ==
    /\ rollback_data # << >>
    /\ rollback_data' = Front(rollback_data) /\ past' = Front(past)
    /\ world' \in Worlds /\ spoilt' \in BOOLEAN
    /\ ~ spoilt' => ~ spoilt /\ world' = Undone(Entry, world)

Effect ==
    \/ Same
    \/ \E entry \in Entries, w \in Worlds : Records(entry, w)
    \/ \E w \in Worlds : Spoils(w)
    \/ Pops

\* What a step does to the rest.
Frame ==
    /\ phase' \in {"called", "refused", "executing", "executed", "answered", "raised"}
    /\ results' \in Seq(BOOLEAN) /\ given' \in [Names -> Nat] /\ UNCHANGED args

USE FitsAssumption, BoundsAssumption
-----------------------------------------------------------------------------
LEMMA BatchInitInv == BatchInit => BatchInv
<1> SUFFICES ASSUME BatchInit PROVE BatchInv
  OBVIOUS
<1>1. before \in Worlds
  BY DEF BatchInit, Worlds, Entities
<1>2. BatchTypeOK
  <2>1. results \in Seq(BOOLEAN) /\ rollback_data \in Seq(Entries) /\ given \in [Names -> Nat]
    BY DEF BatchInit
  <2>2. past \in Seq(Worlds)
    BY <1>1 DEF BatchInit
  <2> QED
    BY <1>1, <2>1, <2>2, Zenon DEF BatchInit, BatchTypeOK
<1>3. Len(past) = Len(rollback_data) + 1 /\ DOMAIN rollback_data = {}
  BY DEF BatchInit
<1> QED
  BY <1>1, <1>2, <1>3 DEF BatchInit, BatchInv, Restorable, Standing

\* Inventories: what is taken can be put back, and less always fits.
LEMMA PlusMinus ==
  ASSUME NEW inv \in Fits, NEW n \in Names, NEW c \in Nat
  PROVE  /\ Plus(Minus(inv, n, c), n, c) = inv
         /\ c <= inv[n] => Minus(inv, n, c) \in Fits
<1> DEFINE less == Minus(inv, n, c)
<1>1. inv \in [Names -> Nat]
  OBVIOUS
<1>2. less \in [Names -> Int] /\ less[n] = inv[n] - c
        /\ \A m \in Names : m # n => less[m] = inv[m]
  BY <1>1 DEF Minus
<1>3. c <= inv[n] => less \in Fits
  <2>1. c <= inv[n] => inv[n] - c \in 0..inv[n]
    BY <1>1
  <2>2. \A d \in 0..inv[n] : [inv EXCEPT ![n] = d] \in Fits
    OBVIOUS
  <2>3. less = [inv EXCEPT ![n] = inv[n] - c]
    BY DEF Minus
  <2> HIDE DEF less
  <2> QED
    BY <2>1, <2>2, <2>3
<1> HIDE DEF less
<1>4. Plus(less, n, c) = inv
  <2> DEFINE again == Plus(less, n, c)
  <2>1. again \in [Names -> Int] /\ again[n] = less[n] + c
          /\ \A m \in Names : m # n => again[m] = less[m]
    BY <1>2 DEF Plus
  <2> HIDE DEF again
  <2>2. inv[n] \in Int /\ inv[n] - c + c = inv[n]
    BY <1>1
  <2>3. \A m \in Names : again[m] = inv[m]
    BY <1>2, <2>1, <2>2
  <2> QED
    BY <1>1, <2>1, <2>3 DEF again
<1> QED
  BY <1>3, <1>4 DEF less

\* An insertion that has room for everything inserts everything.
LEMMA RoomForAll ==
  ASSUME NEW inv, NEW n, NEW c \in Nat, NEW k \in 0..c,
         Inserts(inv, n, c, k), Plus(inv, n, c) \in Fits
  PROVE  k = c
<1>1. k # c => c \in (k + 1)..c
  OBVIOUS
<1> QED
  BY <1>1 DEF Inserts

\* The beginning of a sequence.
LEMMA Beginning ==
  ASSUME NEW S, NEW s \in Seq(S), NEW n \in 0..Len(s)
  PROVE  /\ SubSeq(s, 1, n) \in Seq(S) /\ Len(SubSeq(s, 1, n)) = n
         /\ \A i \in 1..n : SubSeq(s, 1, n)[i] = s[i]
<1>1. n \in Nat /\ \A i \in 1..n : i \in 1..Len(s) /\ 1 + i - 1 = i
  OBVIOUS
<1>2. Len(SubSeq(s, 1, n)) = n
  BY <1>1
<1>3. \A i \in 1..n : SubSeq(s, 1, n)[i] = s[i]
  BY <1>1
<1> QED
  BY <1>1, <1>2, <1>3

-----------------------------------------------------------------------------
\* One operation of the list.
LEMMA ExecutingFrame ==
  ASSUME BatchTypeOK, NEW success \in BOOLEAN, NEW gave \in [Names -> Nat],
         Executing(success, gave)
  PROVE  Frame /\ phase = "executing" /\ phase' \in {"executing", "executed"}
BY DEF BatchTypeOK, Executing, PhaseAfter, Frame

LEMMA MoveEffect ==
  ASSUME BatchTypeOK, NEW p \in Places, Move(p)
  PROVE  \E entry \in Entries, w \in Worlds : Records(entry, w)
<1> DEFINE entry == [kind |-> "teleport", position |-> world.pos]
           w == [world EXCEPT !.pos = p]
<1>1. world \in Worlds /\ world.pos \in Places
  BY DEF BatchTypeOK, Worlds
<1>2. entry \in Entries /\ w \in Worlds
  BY <1>1 DEF Entries, Worlds
<1>3. Undone(entry, w) = world
  BY <1>1 DEF Undone, Worlds
<1>4. Recorded(entry, w)
  BY DEF Move
<1> QED
  BY <1>2, <1>3, <1>4 DEF Records

LEMMA PlaceEffect ==
  ASSUME BatchTypeOK, NEW n \in Names, NEW p \in Places, Place(n, p)
  PROVE  \E entry \in Entries, w \in Worlds : Records(entry, w)
<1> DEFINE e == New(n, p)
           entry == [kind |-> "remove_entity", entity |-> e]
           w == [world EXCEPT !.inv = Minus(@, n, 1), !.ents = @ \cup {e}]
<1>1. /\ world \in [pos : Places, inv : Fits, ents : SUBSET Entities]
      /\ world.inv \in Fits /\ world.inv \in [Names -> Nat] /\ world.ents \in SUBSET Entities
  BY DEF BatchTypeOK, Worlds
<1>2. e \in Entities /\ e.name = n /\ e \notin world.ents
  <2>1. Len(results) + 1 \in Nat
    BY DEF BatchTypeOK
  <2> QED
    BY <1>1, <2>1 DEF New, Entities, Place
<1>3. Minus(world.inv, n, 1) \in Fits /\ Plus(Minus(world.inv, n, 1), n, 1) = world.inv
  <2>1. 1 <= world.inv[n]
    BY <1>1 DEF Place
  <2> QED
    BY <1>1, <2>1, PlusMinus
<1>4. entry \in Entries /\ w \in Worlds
  BY <1>1, <1>2, <1>3 DEF Entries, Worlds
<1>5. Undone(entry, w) = world
  <2>1. Undone(entry, w) = [w EXCEPT !.inv = Plus(@, n, 1), !.ents = @ \ {e}]
    BY <1>2 DEF Undone
  <2>2. w \in [pos : Places, inv : Fits, ents : SUBSET Entities]
    BY <1>4 DEF Worlds
  <2>3. w.inv = Minus(world.inv, n, 1) /\ w.ents \ {e} = world.ents /\ w.pos = world.pos
    BY <1>1, <1>2
  <2> HIDE DEF e, w
  <2> QED
    BY <1>1, <1>3, <2>1, <2>2, <2>3
<1>6. Recorded(entry, w)
  BY DEF Place
<1>7. entry.entity \in w.ents
  BY <1>1
<1> HIDE DEF entry, w
<1> QED
  BY <1>4, <1>5, <1>6, <1>7 DEF Records

LEMMA InventoryRemoveEffect ==
  ASSUME BatchTypeOK, NEW n \in Names, NEW c \in 1..MaxCount, InventoryRemove(n, c)
  PROVE  \E entry \in Entries, w \in Worlds : Records(entry, w)
<1> DEFINE k == IF c <= world.inv[n] THEN c ELSE world.inv[n]
           entry == [kind |-> "inventory_add", name |-> n, count |-> k]
           w == [world EXCEPT !.inv = Minus(@, n, k)]
<1>1. /\ world \in [pos : Places, inv : Fits, ents : SUBSET Entities]
      /\ world.inv \in Fits /\ world.inv \in [Names -> Nat]
  BY DEF BatchTypeOK, Worlds
<1>2. k \in Nat /\ k <= world.inv[n]
  BY <1>1
<1>3. Recorded(entry, w)
  BY DEF InventoryRemove
<1> HIDE DEF k
<1>4. Minus(world.inv, n, k) \in Fits /\ Plus(Minus(world.inv, n, k), n, k) = world.inv
  BY <1>1, <1>2, PlusMinus
<1>5. entry \in Entries /\ w \in Worlds
  BY <1>1, <1>2, <1>4 DEF Entries, Worlds
<1>6. Undone(entry, w) = world
  BY <1>1, <1>4 DEF Undone
<1>7. entry.kind # "remove_entity"
  OBVIOUS
<1> HIDE DEF entry, w
<1> QED
  BY <1>3, <1>5, <1>6, <1>7 DEF Records

LEMMA MineEffect ==
  ASSUME BatchTypeOK, NEW e \in world.ents, Mine(e)
  PROVE  \E w \in Worlds : Spoils(w)
<1> PICK k \in 0..1 :
           /\ Inserts(world.inv, e.name, 1, k)
           /\ Unrecorded([world EXCEPT !.inv = Plus(@, e.name, k), !.ents = @ \ {e}])
  BY DEF Mine
<1> DEFINE w == [world EXCEPT !.inv = Plus(@, e.name, k), !.ents = @ \ {e}]
<1>1. world \in [pos : Places, inv : Fits, ents : SUBSET Entities]
  BY DEF BatchTypeOK, Worlds
<1>2. Plus(world.inv, e.name, k) \in Fits
  BY DEF Inserts
<1>3. w \in Worlds
  BY <1>1, <1>2 DEF Worlds
<1> QED
  BY <1>3 DEF Spoils

LEMMA InventoryAddEffect ==
  ASSUME BatchTypeOK, NEW n \in Names, NEW c \in 1..MaxCount, InventoryAdd(n, c)
  PROVE  \E w \in Worlds : Spoils(w)
<1> PICK k \in 1..c :
           /\ Inserts(world.inv, n, c, k)
           /\ Unrecorded([world EXCEPT !.inv = Plus(@, n, k)])
  BY DEF InventoryAdd
<1> DEFINE w == [world EXCEPT !.inv = Plus(@, n, k)]
<1>1. world \in [pos : Places, inv : Fits, ents : SUBSET Entities]
  BY DEF BatchTypeOK, Worlds
<1>2. Plus(world.inv, n, k) \in Fits
  BY DEF Inserts
<1>3. w \in Worlds
  BY <1>1, <1>2 DEF Worlds
<1> QED
  BY <1>3 DEF Spoils

LEMMA OperationEffect ==
  ASSUME BatchTypeOK, Operation
  PROVE  Effect /\ Frame /\ phase = "executing" /\ phase' \in {"executing", "executed"}
<1>0. given \in [Names -> Nat]
  BY DEF BatchTypeOK
<1>1. CASE Fail
  <2>1. Same
    BY <1>1 DEF Fail, Unchanged, Same
  <2>2. Executing(FALSE, given)
    BY <1>1 DEF Fail
  <2> QED
    BY <1>0, <2>1, <2>2, ExecutingFrame DEF Effect
<1>2. CASE Inspect
  <2>1. Same
    BY <1>2 DEF Inspect, Unchanged, Same
  <2>2. Executing(TRUE, given)
    BY <1>2 DEF Inspect, Succeeding
  <2> QED
    BY <1>0, <2>1, <2>2, ExecutingFrame DEF Effect
<1>3. CASE \E p \in Places : Move(p)
  <2>1. Executing(TRUE, given)
    BY <1>3 DEF Move, Succeeding
  <2> QED
    BY <1>0, <1>3, <2>1, ExecutingFrame, MoveEffect DEF Effect
<1>4. CASE \E n \in Names, p \in Places : Place(n, p)
  <2>1. Executing(TRUE, given)
    BY <1>4 DEF Place, Succeeding
  <2> QED
    BY <1>0, <1>4, <2>1, ExecutingFrame, PlaceEffect DEF Effect
<1>5. CASE \E e \in world.ents : Mine(e)
  <2>1. Executing(TRUE, given)
    BY <1>5 DEF Mine, Succeeding
  <2> QED
    BY <1>0, <1>5, <2>1, ExecutingFrame, MineEffect DEF Effect
<1>6. ASSUME NEW n \in Names, NEW c \in 1..MaxCount, InventoryAdd(n, c) PROVE Effect /\ Frame
             /\ phase = "executing" /\ phase' \in {"executing", "executed"}
  <2>1. PICK k \in 1..c : Executing(TRUE, Plus(given, n, k))
    BY <1>6 DEF InventoryAdd
  <2>2. Plus(given, n, k) \in [Names -> Nat]
    BY <1>0 DEF Plus
  <2> QED
    BY <1>6, <2>1, <2>2, ExecutingFrame, InventoryAddEffect DEF Effect
<1>7. ASSUME NEW n \in Names, NEW c \in 1..MaxCount, InventoryRemove(n, c) PROVE Effect /\ Frame
             /\ phase = "executing" /\ phase' \in {"executing", "executed"}
  <2>1. Executing(TRUE, given)
    BY <1>7 DEF InventoryRemove, Succeeding
  <2> QED
    BY <1>0, <1>7, <2>1, ExecutingFrame, InventoryRemoveEffect DEF Effect
<1> QED
  BY <1>1, <1>2, <1>3, <1>4, <1>5, <1>6, <1>7 DEF Operation

-----------------------------------------------------------------------------
\* One entry of the rollback.
LEMMA LastEntry ==
  ASSUME BatchInv, rollback_data # << >>
  PROVE  /\ Entry \in Entries
         /\ ~ spoilt => Undone(Entry, world) \in Worlds
         /\ ~ spoilt /\ Entry.kind = "remove_entity" => Entry.entity \in world.ents
<1> DEFINE L == Len(rollback_data)
<1>1. L \in Nat /\ L \in DOMAIN rollback_data /\ L \in 1..Len(past) /\ L + 1 = Len(past)
  BY DEF BatchInv, BatchTypeOK
<1>2. Entry \in Entries /\ past[L] \in Worlds
  BY <1>1 DEF BatchInv, BatchTypeOK, Entry
<1>3. ~ spoilt => Undone(Entry, world) = past[L]
  BY <1>1 DEF BatchInv, Restorable, Entry
<1>4. ~ spoilt /\ Entry.kind = "remove_entity" => Entry.entity \in world.ents
  BY <1>1 DEF BatchInv, Restorable, Standing, Entry
<1> QED
  BY <1>2, <1>3, <1>4

LEMMA TeleportEffect ==
  ASSUME BatchInv, TeleportBack
  PROVE  Pops
<1>1. rollback_data # << >> /\ Entry.kind = "teleport"
  BY DEF TeleportBack, Undoing
<1>2. Entry \in Entries /\ Entry.position \in Places
  BY <1>1, LastEntry DEF Entries
<1>3. Undone(Entry, world) \in Worlds /\ world \in Worlds
  BY <1>1, <1>2 DEF BatchInv, BatchTypeOK, Undone, Worlds
<1>4. rollback_data' = Front(rollback_data) /\ past' = Front(past)
  BY DEF TeleportBack, Undoing
<1>5. \/ world' = Undone(Entry, world) /\ spoilt' = spoilt
      \/ world' = world /\ spoilt' = TRUE
  BY DEF TeleportBack
<1>6. spoilt \in BOOLEAN
  BY DEF BatchInv, BatchTypeOK
<1>7. CASE world' = Undone(Entry, world) /\ spoilt' = spoilt
  BY <1>1, <1>3, <1>4, <1>6, <1>7 DEF Pops
<1>8. CASE world' = world /\ spoilt' = TRUE
  BY <1>1, <1>3, <1>4, <1>8 DEF Pops
<1> QED
  BY <1>5, <1>7, <1>8

LEMMA RemoveEntityEffect ==
  ASSUME BatchInv, RemoveEntity
  PROVE  Pops
<1> DEFINE n == Entry.entity.name
           gone(k) == [world EXCEPT !.inv = Plus(@, n, k), !.ents = @ \ {Entry.entity}]
<1>1. rollback_data # << >> /\ Entry.kind = "remove_entity" /\ spoilt' = spoilt
        /\ rollback_data' = Front(rollback_data) /\ past' = Front(past)
  BY DEF RemoveEntity, Undoing
<1>2. /\ world \in [pos : Places, inv : Fits, ents : SUBSET Entities]
      /\ world \in Worlds /\ spoilt \in BOOLEAN
  BY DEF BatchInv, BatchTypeOK, Worlds
<1>3. \A k : gone(k).inv = Plus(world.inv, n, k)
  BY <1>2
<1>4. \A k : Inserts(world.inv, n, 1, k) => gone(k) \in Worlds
  BY <1>2 DEF Inserts, Worlds
<1>5. Undone(Entry, world) = gone(1)
  BY <1>1 DEF Undone
<1>6. ~ spoilt => Plus(world.inv, n, 1) \in Fits /\ Entry.entity \in world.ents
  <2> HIDE DEF gone
  <2>1. \A w \in Worlds : w.inv \in Fits
    BY DEF Worlds
  <2> QED
    BY <1>1, <1>3, <1>5, <2>1, LastEntry
<1>7. \/ \E k \in 0..1 : Inserts(world.inv, n, 1, k) /\ world' = gone(k)
      \/ Entry.entity \notin world.ents /\ world' = world
  BY DEF RemoveEntity
<1> HIDE DEF gone, n
<1>8. world' \in Worlds
  BY <1>2, <1>4, <1>7
<1>9. ~ spoilt => world' = Undone(Entry, world)
  <2>1. \A k \in 0..1 : Inserts(world.inv, n, 1, k) /\ ~ spoilt => k = 1
    BY <1>6, RoomForAll, 1 \in Nat
  <2> QED
    BY <1>5, <1>6, <1>7, <2>1
<1> QED
  BY <1>1, <1>2, <1>8, <1>9, Zenon DEF Pops

LEMMA AddBackEffect ==
  ASSUME BatchInv, AddBack
  PROVE  Pops
<1> DEFINE n == Entry.name
           c == Entry.count
           more(k) == [world EXCEPT !.inv = Plus(@, n, k)]
<1>1. rollback_data # << >> /\ Entry.kind = "inventory_add" /\ spoilt' = spoilt
        /\ rollback_data' = Front(rollback_data) /\ past' = Front(past)
  BY DEF AddBack, Undoing
<1>2. /\ world \in [pos : Places, inv : Fits, ents : SUBSET Entities]
      /\ world \in Worlds /\ spoilt \in BOOLEAN
  BY DEF BatchInv, BatchTypeOK, Worlds
<1>3. \A k : more(k).inv = Plus(world.inv, n, k)
  BY <1>2
<1>4. \A k : Inserts(world.inv, n, c, k) => more(k) \in Worlds
  BY <1>2 DEF Inserts, Worlds
<1>5. Undone(Entry, world) = more(c)
  BY <1>1 DEF Undone
<1>6. ~ spoilt => Plus(world.inv, n, c) \in Fits
  <2> HIDE DEF more
  <2>1. \A w \in Worlds : w.inv \in Fits
    BY DEF Worlds
  <2> QED
    BY <1>1, <1>3, <1>5, <2>1, LastEntry
<1>7. \E k \in 0..c : Inserts(world.inv, n, c, k) /\ world' = more(k)
  BY DEF AddBack
<1>8. c \in Nat
  BY <1>1, LastEntry DEF Entries
<1> HIDE DEF more, n, c
<1>9. world' \in Worlds
  BY <1>4, <1>7
<1>10. ~ spoilt => world' = Undone(Entry, world)
  <2>1. \A k \in 0..c : Inserts(world.inv, n, c, k) /\ ~ spoilt => k = c
    BY <1>6, <1>8, RoomForAll
  <2> QED
    BY <1>5, <1>7, <2>1
<1> QED
  BY <1>1, <1>2, <1>9, <1>10, Zenon DEF Pops

-----------------------------------------------------------------------------
LEMMA StepEffect ==
  ASSUME BatchInv, [BatchNext]_batchVars
  PROVE  Effect /\ Frame
<1>1. CASE Operation
  BY <1>1, OperationEffect DEF BatchInv
<1>2. CASE TeleportBack
  BY <1>2, TeleportEffect DEF Effect, Frame, TeleportBack, Undoing, BatchInv, BatchTypeOK
<1>3. CASE RemoveEntity
  BY <1>3, RemoveEntityEffect DEF Effect, Frame, RemoveEntity, Undoing, BatchInv, BatchTypeOK
<1>4. CASE AddBack
  BY <1>4, AddBackEffect DEF Effect, Frame, AddBack, Undoing, BatchInv, BatchTypeOK
<1>5. CASE Begin \/ Refuse \/ EndOfList \/ CallRaises \/ Answer \/ UNCHANGED batchVars
  <2>1. Same /\ results' = results /\ given' = given /\ UNCHANGED args
    BY <1>5 DEF Begin, Refuse, EndOfList, CallRaises, Answer, batchVars, Same
  <2>2. phase' \in {"called", "refused", "executing", "executed", "answered", "raised"}
    BY <1>5 DEF Begin, Refuse, EndOfList, CallRaises, Answer, batchVars, BatchInv, BatchTypeOK
  <2>3. results \in Seq(BOOLEAN) /\ given \in [Names -> Nat]
    BY DEF BatchInv, BatchTypeOK
  <2> QED
    BY <2>1, <2>2, <2>3 DEF Effect, Frame
<1> QED
  BY <1>1, <1>2, <1>3, <1>4, <1>5 DEF BatchNext

\* Recording an operation keeps the chain of past worlds.
LEMMA RecordsInv ==
  ASSUME BatchInv, Frame, NEW entry \in Entries, NEW w \in Worlds, Records(entry, w)
  PROVE  BatchInv'
<1> DEFINE L == Len(rollback_data)
<1>1. /\ rollback_data \in Seq(Entries) /\ past \in Seq(Worlds) /\ L \in Nat /\ Len(past) = L + 1
      /\ before \in Worlds /\ spoilt \in BOOLEAN
  BY DEF BatchInv, BatchTypeOK
<1>2. /\ world' = w /\ spoilt' = spoilt
      /\ rollback_data' = Append(rollback_data, entry) /\ past' = Append(past, w)
  BY DEF Records, Recorded
<1>3. BatchTypeOK'
  BY <1>1, <1>2 DEF BatchInv, BatchTypeOK, Frame, args
<1>4. Len(past') = Len(rollback_data') + 1 /\ Len(past') = L + 2 /\ DOMAIN rollback_data' = 1..(L + 1)
  BY <1>1, <1>2
<1>5. /\ rollback_data'[L + 1] = entry /\ past'[L + 2] = w /\ past'[L + 1] = past[L + 1]
      /\ \A i \in 1..L : /\ rollback_data'[i] = rollback_data[i]
                        /\ past'[i] = past[i] /\ past'[i + 1] = past[i + 1]
  BY <1>1, <1>2
<1>6. ASSUME ~ spoilt PROVE /\ past[1] = before /\ past[L + 1] = world
                            /\ \A i \in 1..L : Undone(rollback_data[i], past[i + 1]) = past[i]
                            /\ \A i \in 1..L : rollback_data[i].kind = "remove_entity" =>
                                   rollback_data[i].entity \in past[i + 1].ents
  <2>1. DOMAIN rollback_data = 1..L
    BY <1>1
  <2>2. past[1] = before /\ past[L + 1] = world
    BY <1>1, <1>6 DEF BatchInv, Restorable
  <2>3. \A i \in 1..L : Undone(rollback_data[i], past[i + 1]) = past[i]
    BY <1>6, <2>1, Zenon DEF BatchInv, Restorable
  <2>4. \A i \in 1..L : rollback_data[i].kind = "remove_entity" =>
                          rollback_data[i].entity \in past[i + 1].ents
    BY <1>6, <2>1, Zenon DEF BatchInv, Standing
  <2> QED
    BY <2>2, <2>3, <2>4
<1>7. Restorable'
  <2> SUFFICES ASSUME ~ spoilt' PROVE
         /\ past'[1] = before' /\ past'[L + 2] = world'
         /\ \A i \in 1..(L + 1) : Undone(rollback_data'[i], past'[i + 1]) = past'[i]
    BY <1>4 DEF Restorable
  <2>1. past'[1] = before'
    BY <1>1, <1>2, <1>5, <1>6 DEF Frame, args
  <2>2. \A i \in 1..L : Undone(rollback_data'[i], past'[i + 1]) = past'[i]
    BY <1>2, <1>5, <1>6
  <2>3. Undone(rollback_data'[L + 1], past'[L + 2]) = past'[L + 1]
    BY <1>2, <1>5, <1>6 DEF Records
  <2>4. \A i \in 1..(L + 1) : i \in 1..L \/ i = L + 1
    BY <1>1
  <2>5. (L + 1) + 1 = L + 2
    BY <1>1
  <2> QED
    BY <1>2, <1>5, <2>1, <2>2, <2>3, <2>4, <2>5
<1>8. Standing'
  <2> SUFFICES ASSUME ~ spoilt', NEW i \in 1..(L + 1), rollback_data'[i].kind = "remove_entity"
               PROVE  rollback_data'[i].entity \in past'[i + 1].ents
    BY <1>4 DEF Standing
  <2>1. CASE i \in 1..L
    BY <1>2, <1>5, <1>6, <2>1
  <2>2. CASE i = L + 1
    <3>1. i + 1 = L + 2
      BY <1>1, <2>2
    <3> QED
      BY <1>5, <2>2, <3>1 DEF Records
  <2> QED
    BY <1>1, <2>1, <2>2
<1> QED
  BY <1>3, <1>4, <1>7, <1>8 DEF BatchInv

\* So does taking the last entry off again.
LEMMA PopsInv ==
  ASSUME BatchInv, Frame, Pops
  PROVE  BatchInv'
<1> DEFINE L == Len(rollback_data)
<1>1. /\ rollback_data \in Seq(Entries) /\ past \in Seq(Worlds) /\ L \in Nat \ {0}
      /\ Len(past) = L + 1 /\ before \in Worlds
  BY DEF BatchInv, BatchTypeOK, Pops
<1>2. /\ rollback_data' = SubSeq(rollback_data, 1, L - 1) /\ past' = SubSeq(past, 1, L)
      /\ world' \in Worlds /\ spoilt' \in BOOLEAN
  BY <1>1 DEF Pops, Front
<1>3. /\ rollback_data' \in Seq(Entries) /\ past' \in Seq(Worlds)
      /\ Len(rollback_data') = L - 1 /\ Len(past') = L /\ DOMAIN rollback_data' = 1..(L - 1)
      /\ \A i \in 1..(L - 1) : rollback_data'[i] = rollback_data[i]
      /\ \A i \in 1..L : past'[i] = past[i]
  <2>1. L - 1 \in 0..L /\ L \in 0..Len(past)
    BY <1>1
  <2>2. /\ SubSeq(rollback_data, 1, L - 1) \in Seq(Entries)
        /\ Len(SubSeq(rollback_data, 1, L - 1)) = L - 1
        /\ \A i \in 1..(L - 1) : SubSeq(rollback_data, 1, L - 1)[i] = rollback_data[i]
    BY <1>1, <2>1, Beginning
  <2>3. /\ SubSeq(past, 1, L) \in Seq(Worlds) /\ Len(SubSeq(past, 1, L)) = L
        /\ \A i \in 1..L : SubSeq(past, 1, L)[i] = past[i]
    BY <1>1, <2>1, Beginning
  <2> QED
    BY <1>2, <2>2, <2>3
<1>4. BatchTypeOK'
  BY <1>2, <1>3, Zenon DEF BatchInv, BatchTypeOK, Frame, args
<1>5. ASSUME ~ spoilt' PROVE
        /\ past[1] = before /\ past[L] = world'
        /\ \A i \in 1..L : Undone(rollback_data[i], past[i + 1]) = past[i]
        /\ \A i \in 1..L : rollback_data[i].kind = "remove_entity" =>
               rollback_data[i].entity \in past[i + 1].ents
  <2>1. ~ spoilt /\ world' = Undone(Entry, world)
    BY <1>5 DEF Pops
  <2>2. world = past[L + 1] /\ Entry = rollback_data[L] /\ L \in DOMAIN rollback_data
          /\ DOMAIN rollback_data = 1..L
    BY <1>1, <2>1 DEF BatchInv, Restorable, Entry
  <2> QED
    BY <1>1, <2>1, <2>2 DEF BatchInv, Restorable, Standing
<1>6. 1 \in 1..L /\ L \in 1..L /\ \A i \in 1..(L - 1) : i \in 1..L /\ i + 1 \in 1..L
  BY <1>1
<1>7. Restorable'
  <2> SUFFICES ASSUME ~ spoilt' PROVE
         /\ past'[1] = before' /\ past'[L] = world'
         /\ \A i \in 1..(L - 1) : Undone(rollback_data'[i], past'[i + 1]) = past'[i]
    BY <1>1, <1>3 DEF Restorable
  <2>1. before' = before
    BY DEF Frame, args
  <2> QED
    BY <1>3, <1>5, <1>6, <2>1
<1>8. Standing'
  BY <1>3, <1>5, <1>6 DEF Standing
<1>9. Len(past') = Len(rollback_data') + 1
  BY <1>1, <1>3
<1> QED
  BY <1>4, <1>7, <1>8, <1>9 DEF BatchInv

LEMMA BatchStepInv == BatchInv /\ [BatchNext]_batchVars => BatchInv'
<1> SUFFICES ASSUME BatchInv, [BatchNext]_batchVars PROVE BatchInv'
  OBVIOUS
<1>1. Effect /\ Frame
  BY StepEffect
<1>2. CASE Same
  <2>1. BatchTypeOK'
    BY <1>1, <1>2, Zenon DEF Same, Frame, args, BatchInv, BatchTypeOK
  <2> QED
    BY <1>1, <1>2, <2>1 DEF Same, Frame, args, BatchInv, Restorable, Standing
<1>3. CASE \E entry \in Entries, w \in Worlds : Records(entry, w)
  BY <1>1, <1>3, RecordsInv
<1>4. CASE \E w \in Worlds : Spoils(w)
  <2>1. world' \in Worlds /\ spoilt' /\ rollback_data' = rollback_data /\ past' = past
    BY <1>4 DEF Spoils, Unrecorded
  <2>2. BatchTypeOK'
    BY <1>1, <2>1, <1>4, Zenon DEF Spoils, Unrecorded, Frame, args, BatchInv, BatchTypeOK
  <2> QED
    BY <1>1, <2>1, <2>2 DEF BatchInv, Restorable, Standing
<1>5. CASE Pops
  BY <1>1, <1>5, PopsInv
<1> QED
  BY <1>1, <1>2, <1>3, <1>4, <1>5 DEF Effect

LEMMA BatchInvariant == BatchSpec => []BatchInv
BY BatchInitInv, BatchStepInv, PTL DEF BatchSpec

\* Every state of the script is well-formed: no insertion of the rollback
\* overfills the inventory, and the entries keep their shapes.
THEOREM BatchTypeCorrect == BatchSpec => []BatchTypeOK
<1>1. BatchInv => BatchTypeOK
  BY DEF BatchInv
<1> QED
  BY <1>1, BatchInvariant, PTL

\* As long as every change was recorded, what is recorded leads back, entry
\* by entry, to the world of the call.
THEOREM AlwaysRestorable == BatchSpec => []Restorable
<1>1. BatchInv => Restorable
  BY DEF BatchInv
<1> QED
  BY <1>1, BatchInvariant, PTL

-----------------------------------------------------------------------------
(***************************************************************************)
(* Items are not multiplied.  What rollback_data still owes the inventory  *)
(* counts as well: `owed` is what each of its beginnings owes of an item,  *)
(* and the stock with what all of it owes never exceeds what there was     *)
(* and what was given.  Some such sequence is there after every step:      *)
(* an entry recorded makes it longer, an entry undone shorter.             *)
(***************************************************************************)
Back(entry, n) == IF entry.kind = "inventory_add" /\ entry.name = n THEN entry.count ELSE 0

Owes(owed) ==
    /\ owed \in [1..(Len(rollback_data) + 1) -> [Names -> Nat]]
    /\ \A i \in DOMAIN rollback_data, n \in Names :
           owed[i + 1][n] = owed[i][n] + Back(rollback_data[i], n)
    /\ \A n \in Names :
           Stock(world, n) + owed[Len(rollback_data) + 1][n] <= Stock(before, n) + given[n]

Balanced ==
    /\ IsFiniteSet(world.ents) /\ IsFiniteSet(before.ents)
    /\ \E owed : Owes(owed)

\* What a step does to the stock: it is given, or what an entry owes is taken off or added.
Settles ==
    /\ UNCHANGED rollback_data
    /\ \A n \in Names : Stock(world', n) + given[n] <= Stock(world, n) + given'[n]

Borrows(entry) ==
    /\ rollback_data' = Append(rollback_data, entry)
    /\ \A n \in Names : Stock(world', n) + Back(entry, n) <= Stock(world, n)
    /\ UNCHANGED given

Returns ==
    /\ rollback_data # << >> /\ rollback_data' = Front(rollback_data)
    /\ \A n \in Names : Stock(world', n) <= Stock(world, n) + Back(Entry, n)
    /\ UNCHANGED given

StockStep ==
    /\ IsFiniteSet(world'.ents) /\ before' = before
    /\ Settles \/ Returns \/ \E entry \in Entries : Borrows(entry)

Called(ents, n) == {e \in ents : e.name = n}
One(n, m) == IF n = m THEN 1 ELSE 0

\* One more entity is one more of its name and none of any other.
LEMMA OneMore ==
  ASSUME NEW ents, IsFiniteSet(ents), NEW e, e \notin ents, NEW n
  PROVE  /\ IsFiniteSet(ents \cup {e})
         /\ Cardinality(Called(ents, n)) \in Nat
         /\ Cardinality(Called(ents \cup {e}, n)) = Cardinality(Called(ents, n)) + One(e.name, n)
<1>1. IsFiniteSet(Called(ents, n))
  BY FS_Subset, Called(ents, n) \subseteq ents DEF Called
<1>2. Cardinality(Called(ents, n)) \in Nat
  BY <1>1, FS_CardinalityType
<1>3. IsFiniteSet(ents \cup {e})
  BY FS_AddElement
<1>4. CASE e.name = n
  <2>1. Called(ents \cup {e}, n) = Called(ents, n) \cup {e} /\ e \notin Called(ents, n)
    BY <1>4 DEF Called
  <2> QED
    BY <1>1, <1>2, <1>3, <1>4, <2>1, FS_AddElement DEF One
<1>5. CASE e.name # n
  <2>1. Called(ents \cup {e}, n) = Called(ents, n)
    BY <1>5 DEF Called
  <2> QED
    BY <1>2, <1>3, <1>5, <2>1 DEF One
<1> QED
  BY <1>4, <1>5

\* And one less is one less.
LEMMA OneLess ==
  ASSUME NEW ents, IsFiniteSet(ents), NEW e \in ents, NEW n
  PROVE  /\ IsFiniteSet(ents \ {e})
         /\ Cardinality(Called(ents \ {e}, n)) \in Nat
         /\ Cardinality(Called(ents, n)) = Cardinality(Called(ents \ {e}, n)) + One(e.name, n)
<1>1. IsFiniteSet(ents \ {e})
  BY FS_Subset
<1>2. (ents \ {e}) \cup {e} = ents /\ e \notin ents \ {e}
  OBVIOUS
<1> QED
  BY <1>1, <1>2, OneMore

LEMMA PlusAt ==
  ASSUME NEW inv \in [Names -> Nat], NEW m \in Names, NEW n \in Names, NEW k \in Nat
  PROVE  /\ Plus(inv, m, k) \in [Names -> Nat]
         /\ Plus(inv, m, k)[n] = inv[n] + (IF m = n THEN k ELSE 0)
BY DEF Plus

LEMMA MinusAt ==
  ASSUME NEW inv \in [Names -> Nat], NEW m \in Names, NEW n \in Names, NEW k \in Nat
  PROVE  Minus(inv, m, k)[n] = inv[n] - (IF m = n THEN k ELSE 0)
BY DEF Minus

LEMMA StockType ==
  ASSUME NEW w \in Worlds, IsFiniteSet(w.ents), NEW n \in Names
  PROVE  /\ Stock(w, n) = w.inv[n] + Cardinality(Called(w.ents, n))
         /\ Stock(w, n) \in Nat /\ w.inv \in [Names -> Nat] /\ w.inv[n] \in Nat
         /\ Cardinality(Called(w.ents, n)) \in Nat
<1>1. w.inv \in [Names -> Nat]
  BY DEF Worlds
<1>2. Called(w.ents, n) \subseteq w.ents
  BY DEF Called
<1>3. Cardinality(Called(w.ents, n)) \in Nat
  BY <1>2, FS_Subset, FS_CardinalityType
<1> QED
  BY <1>1, <1>3 DEF Stock, Called

\* The operations of the list.
LEMMA OperationStock ==
  ASSUME BatchTypeOK, IsFiniteSet(world.ents), Operation, world' \in Worlds
  PROVE  StockStep
<1>1. /\ world \in [pos : Places, inv : Fits, ents : SUBSET Entities]
      /\ world \in Worlds /\ given \in [Names -> Nat]
      /\ \A n \in Names : Stock(world, n) \in Nat /\ world.inv[n] \in Nat
  BY StockType DEF BatchTypeOK, Worlds
<1>2. before' = before
  BY OperationEffect DEF Frame, args
<1>3. CASE Fail \/ Inspect
  <2>1. UNCHANGED <<world, rollback_data, given>>
    BY <1>3 DEF Fail, Inspect, Succeeding, Executing, Unchanged
  <2> QED
    BY <1>1, <1>2, <2>1 DEF StockStep, Settles
<1>4. ASSUME NEW p \in Places, Move(p) PROVE StockStep
  <2> DEFINE entry == [kind |-> "teleport", position |-> world.pos]
  <2>1. entry \in Entries /\ \A n \in Names : Back(entry, n) = 0
    BY <1>1 DEF Entries, Back
  <2>2. /\ world'.inv = world.inv /\ world'.ents = world.ents /\ given' = given
        /\ rollback_data' = Append(rollback_data, entry)
    BY <1>1, <1>4 DEF Move, Recorded, Succeeding, Executing
  <2> HIDE DEF entry
  <2>3. \A n \in Names : Stock(world', n) + Back(entry, n) <= Stock(world, n)
    BY <1>1, <2>1, <2>2 DEF Stock
  <2> QED
    BY <1>2, <2>1, <2>2, <2>3 DEF StockStep, Borrows
<1>5. ASSUME NEW m \in Names, NEW p \in Places, Place(m, p) PROVE StockStep
  <2>0. PICK e : e = New(m, p)
    OBVIOUS
  <2> DEFINE entry == [kind |-> "remove_entity", entity |-> e]
  <2>1. e \in Entities /\ e.name = m /\ e \notin world.ents
    <3>1. Len(results) + 1 \in Nat
      BY DEF BatchTypeOK
    <3> QED
      BY <1>1, <1>5, <2>0, <3>1 DEF New, Entities, Place
  <2>2. entry \in Entries /\ \A n \in Names : Back(entry, n) = 0
    BY <2>1 DEF Entries, Back
  <2>3. /\ world'.inv = Minus(world.inv, m, 1) /\ world'.ents = world.ents \cup {e}
        /\ given' = given /\ rollback_data' = Append(rollback_data, entry)
    BY <1>1, <1>5, <2>0 DEF Place, Recorded, Succeeding, Executing
  <2> HIDE DEF entry
  <2>4. IsFiniteSet(world'.ents)
    BY <2>1, <2>3, OneMore
  <2>5. ASSUME NEW n \in Names PROVE Stock(world', n) + Back(entry, n) <= Stock(world, n)
    <3>1. world'.inv[n] = world.inv[n] - One(m, n)
      BY <2>3, MinusAt, StockType, <1>1, 1 \in Nat DEF One
    <3>2. Cardinality(Called(world'.ents, n)) = Cardinality(Called(world.ents, n)) + One(m, n)
      <4>1. Cardinality(Called(world.ents \cup {e}, n))
              = Cardinality(Called(world.ents, n)) + One(e.name, n)
        BY <2>1, OneMore
      <4> QED
        BY <2>1, <2>3, <4>1
    <3>3. One(m, n) \in Nat
      BY DEF One
    <3> QED
      BY <1>1, <2>2, <2>4, <3>1, <3>2, <3>3, StockType
  <2> QED
    BY <1>2, <2>2, <2>3, <2>4, <2>5 DEF StockStep, Borrows
<1>6. ASSUME NEW e \in world.ents, Mine(e) PROVE StockStep
  <2>1. PICK k \in 0..1 :
          /\ world' = [world EXCEPT !.inv = Plus(@, e.name, k), !.ents = @ \ {e}]
          /\ rollback_data' = rollback_data /\ given' = given
    BY <1>6 DEF Mine, Unrecorded, Succeeding, Executing
  <2>2. /\ world'.inv = Plus(world.inv, e.name, k) /\ world'.ents = world.ents \ {e}
        /\ e.name \in Names
    BY <1>1, <2>1 DEF Entities
  <2>3. IsFiniteSet(world'.ents)
    BY <2>2, OneLess
  <2>4. ASSUME NEW n \in Names PROVE Stock(world', n) <= Stock(world, n)
    <3>1. world'.inv[n] <= world.inv[n] + One(e.name, n)
      <4>1. k \in Nat /\ k <= 1 /\ world.inv \in [Names -> Nat]
        BY <1>1 DEF Worlds
      <4>2. world'.inv[n] = world.inv[n] + (IF e.name = n THEN k ELSE 0)
        BY <2>2, <4>1, PlusAt
      <4> QED
        BY <1>1, <4>1, <4>2 DEF One
    <3>2. Cardinality(Called(world.ents, n)) = Cardinality(Called(world'.ents, n)) + One(e.name, n)
      BY <2>2, OneLess
    <3>3. One(e.name, n) \in Nat
      BY DEF One
    <3> QED
      BY <1>1, <2>3, <3>1, <3>2, <3>3, StockType
  <2>5. \A n \in Names : Stock(world', n) \in Nat
    BY <2>3, StockType
  <2>6. \A n \in Names : Stock(world', n) + given[n] <= Stock(world, n) + given'[n]
    BY <1>1, <2>1, <2>4, <2>5
  <2> QED
    BY <1>2, <2>1, <2>3, <2>6 DEF StockStep, Settles
<1>7. ASSUME NEW m \in Names, NEW c \in 1..MaxCount, InventoryAdd(m, c) PROVE StockStep
  <2>1. PICK k \in 1..c :
          /\ world' = [world EXCEPT !.inv = Plus(@, m, k)]
          /\ rollback_data' = rollback_data /\ given' = Plus(given, m, k)
    BY <1>7 DEF InventoryAdd, Unrecorded, Executing
  <2>2. world'.inv = Plus(world.inv, m, k) /\ world'.ents = world.ents /\ k \in Nat
    BY <1>1, <2>1
  <2>3. ASSUME NEW n \in Names PROVE Stock(world', n) + given[n] <= Stock(world, n) + given'[n]
    <3>1. /\ world'.inv[n] = world.inv[n] + (IF m = n THEN k ELSE 0)
          /\ given'[n] = given[n] + (IF m = n THEN k ELSE 0)
      <4>1. world.inv \in [Names -> Nat] /\ given \in [Names -> Nat] /\ k \in Nat
        BY <1>1, <2>2 DEF Worlds
      <4>2. Plus(world.inv, m, k)[n] = world.inv[n] + (IF m = n THEN k ELSE 0)
        <5>1. PICK inv \in [Names -> Nat] : inv = world.inv
          BY <4>1
        <5>2. inv \in [Names -> Nat] /\ k \in Nat
          BY <4>1, <5>1
        <5>3. Plus(inv, m, k)[n] = inv[n] + (IF m = n THEN k ELSE 0)
          BY <5>2, PlusAt
        <5> QED
          BY <5>1, <5>3
      <4>3. Plus(given, m, k)[n] = given[n] + (IF m = n THEN k ELSE 0)
        BY <4>1, PlusAt
      <4> QED
        BY <2>1, <2>2, <4>2, <4>3
    <3>2. Called(world'.ents, n) = Called(world.ents, n)
      BY <2>2
    <3> QED
      BY <1>1, <2>2, <3>1, <3>2, StockType
  <2> QED
    BY <1>2, <2>1, <2>2, <2>3 DEF StockStep, Settles
<1>8. ASSUME NEW m \in Names, NEW c \in 1..MaxCount, InventoryRemove(m, c) PROVE StockStep
  <2> DEFINE k == IF c <= world.inv[m] THEN c ELSE world.inv[m]
             entry == [kind |-> "inventory_add", name |-> m, count |-> k]
  <2>1. k \in Nat
    BY <1>1
  <2>2. entry \in Entries /\ \A n \in Names : Back(entry, n) = IF m = n THEN k ELSE 0
    BY <2>1 DEF Entries, Back
  <2>3. /\ world'.inv = Minus(world.inv, m, k) /\ world'.ents = world.ents
        /\ given' = given /\ rollback_data' = Append(rollback_data, entry)
    BY <1>1, <1>8 DEF InventoryRemove, Recorded, Succeeding, Executing
  <2> HIDE DEF k, entry
  <2>4. ASSUME NEW n \in Names PROVE Stock(world', n) + Back(entry, n) <= Stock(world, n)
    <3>1. world'.inv[n] = world.inv[n] - (IF m = n THEN k ELSE 0)
      <4>1. world.inv \in [Names -> Nat]
        BY <1>1 DEF Worlds
      <4>2. Minus(world.inv, m, k)[n] = world.inv[n] - (IF m = n THEN k ELSE 0)
        BY <2>1, <4>1, MinusAt
      <4> QED
        BY <2>3, <4>2
    <3>2. /\ Stock(world, n) = world.inv[n] + Cardinality(Called(world.ents, n))
          /\ Stock(world', n) = world'.inv[n] + Cardinality(Called(world.ents, n))
          /\ Cardinality(Called(world.ents, n)) \in Nat
      BY <1>1, <2>3, StockType
    <3>3. Back(entry, n) = IF m = n THEN k ELSE 0
      BY <2>2
    <3> QED
      BY <1>1, <2>1, <3>1, <3>2, <3>3
  <2> QED
    BY <1>2, <2>2, <2>3, <2>4 DEF StockStep, Borrows
<1> QED
  BY <1>3, <1>4, <1>5, <1>6, <1>7, <1>8 DEF Operation

\* The entries of the rollback: an entity that is gone gives nothing back.
LEMMA RollbackStock ==
  ASSUME BatchInv, BatchInv', IsFiniteSet(world.ents), TeleportBack \/ RemoveEntity \/ AddBack
  PROVE  StockStep
<1>1. /\ world \in [pos : Places, inv : Fits, ents : SUBSET Entities]
      /\ world \in Worlds /\ world' \in Worlds
      /\ \A n \in Names : Stock(world, n) \in Nat /\ world.inv[n] \in Nat
  BY StockType DEF BatchInv, BatchTypeOK, Worlds
<1>2. /\ before' = before /\ given' = given
      /\ rollback_data # << >> /\ rollback_data' = Front(rollback_data)
  BY DEF TeleportBack, RemoveEntity, AddBack, Undoing, args
<1>3. Entry \in Entries
  BY <1>2, LastEntry
<1>4. \A n \in Names : Back(Entry, n) \in Nat
  <2>1. Entry.kind = "inventory_add" => Entry.count \in Nat
    BY <1>3 DEF Entries
  <2> QED
    BY <2>1 DEF Back
<1>5. CASE world'.inv = world.inv /\ world'.ents = world.ents
  BY <1>1, <1>2, <1>4, <1>5 DEF StockStep, Returns, Stock
<1>6. CASE TeleportBack
  <2>1. world'.inv = world.inv /\ world'.ents = world.ents
    BY <1>1, <1>6 DEF TeleportBack, Undoing, Undone
  <2> QED
    BY <1>5, <2>1
<1>7. CASE RemoveEntity
  <2>0. PICK e : e = Entry.entity
    OBVIOUS
  <2>1. CASE e \notin world.ents
    BY <1>5, <1>7, <2>0, <2>1 DEF RemoveEntity
  <2>2. CASE e \in world.ents
    <3>1. e.name \in Names
      BY <1>1, <2>2 DEF Entities
    <3>2. PICK k \in 0..1 : world' = [world EXCEPT !.inv = Plus(@, e.name, k), !.ents = @ \ {e}]
      BY <1>7, <2>0, <2>2 DEF RemoveEntity
    <3>3. world'.inv = Plus(world.inv, e.name, k) /\ world'.ents = world.ents \ {e}
      BY <1>1, <3>2
    <3>4. IsFiniteSet(world'.ents)
      BY <2>2, <3>3, OneLess
    <3>5. ASSUME NEW n \in Names PROVE Stock(world', n) <= Stock(world, n) + Back(Entry, n)
      <4>1. world'.inv[n] <= world.inv[n] + One(e.name, n)
        <5>1. k \in Nat /\ k <= 1 /\ world.inv \in [Names -> Nat]
          BY <1>1 DEF Worlds
        <5>2. world'.inv[n] = world.inv[n] + (IF e.name = n THEN k ELSE 0)
          BY <3>1, <3>3, <5>1, PlusAt
        <5> QED
          BY <1>1, <5>1, <5>2 DEF One
      <4>2. Cardinality(Called(world.ents, n)) = Cardinality(Called(world'.ents, n)) + One(e.name, n)
        BY <2>2, <3>3, OneLess
      <4>3. One(e.name, n) \in Nat
        BY DEF One
      <4> QED
        BY <1>1, <1>4, <3>4, <4>1, <4>2, <4>3, StockType
    <3> QED
      BY <1>2, <3>4, <3>5 DEF StockStep, Returns
  <2> QED
    BY <2>1, <2>2
<1>8. CASE AddBack
  <2> DEFINE m == Entry.name
             c == Entry.count
  <2>1. Entry.kind = "inventory_add" /\ m \in Names /\ c \in Nat
    BY <1>3, <1>8 DEF AddBack, Undoing, Entries
  <2>2. PICK k \in 0..c : world' = [world EXCEPT !.inv = Plus(@, m, k)]
    BY <1>8 DEF AddBack
  <2>3. world'.inv = Plus(world.inv, m, k) /\ world'.ents = world.ents /\ k \in Nat /\ k <= c
    BY <1>1, <2>1, <2>2
  <2>4. \A n \in Names : Back(Entry, n) = IF m = n THEN c ELSE 0
    BY <2>1 DEF Back
  <2> HIDE DEF m, c
  <2>5. ASSUME NEW n \in Names PROVE Stock(world', n) <= Stock(world, n) + Back(Entry, n)
    <3>1. world'.inv[n] = world.inv[n] + (IF m = n THEN k ELSE 0)
      BY <1>1, <2>1, <2>3, PlusAt, StockType
    <3>2. Called(world'.ents, n) = Called(world.ents, n)
      BY <2>3
    <3> QED
      BY <1>1, <2>1, <2>3, <2>4, <3>1, <3>2, StockType
  <2> QED
    BY <1>2, <2>3, <2>5 DEF StockStep, Returns
<1> QED
  BY <1>6, <1>7, <1>8

LEMMA AnyStock ==
  ASSUME BatchInv, BatchInv', IsFiniteSet(world.ents), [BatchNext]_batchVars
  PROVE  StockStep
<1>1. world' \in Worlds /\ BatchTypeOK
  BY DEF BatchInv, BatchTypeOK
<1>2. CASE Operation
  BY <1>1, <1>2, OperationStock
<1>3. CASE TeleportBack \/ RemoveEntity \/ AddBack
  BY <1>3, RollbackStock
<1>4. CASE Begin \/ Refuse \/ EndOfList \/ CallRaises \/ Answer \/ UNCHANGED batchVars
  <2>1. UNCHANGED <<world, rollback_data, given, before>>
    BY <1>4 DEF Begin, Refuse, EndOfList, CallRaises, Answer, batchVars, args
  <2>2. \A n \in Names : Stock(world, n) \in Nat /\ given[n] \in Nat
    BY <1>1, StockType DEF BatchTypeOK
  <2> QED
    BY <2>1, <2>2 DEF StockStep, Settles
<1> QED
  BY <1>2, <1>3, <1>4 DEF BatchNext

LEMMA BalancedInit == BatchInit => Balanced
<1> SUFFICES ASSUME BatchInit PROVE Balanced
  OBVIOUS
<1> DEFINE none == [i \in {1} |-> [n \in Names |-> 0]]
<1>1. world = before /\ before \in Worlds /\ IsFiniteSet(before.ents)
  BY BatchInitInv DEF BatchInit, BatchInv, BatchTypeOK
<1>2. \A n \in Names : Stock(world, n) \in Nat
  BY <1>1, StockType
<1>3. rollback_data = << >> /\ Len(rollback_data) = 0 /\ DOMAIN rollback_data = {} /\ 1..(0 + 1) = {1}
  BY DEF BatchInit
<1>4. none \in [1..(0 + 1) -> [Names -> Nat]] /\ \A n \in Names : none[0 + 1][n] = 0 /\ given[n] = 0
  BY DEF BatchInit
<1> HIDE DEF none
<1>5. Owes(none)
  BY <1>1, <1>2, <1>3, <1>4 DEF Owes
<1> QED
  BY <1>1, <1>5 DEF Balanced

LEMMA BalancedStep ==
  ASSUME BatchInv, BatchInv', Balanced, [BatchNext]_batchVars
  PROVE  Balanced'
<1> DEFINE L == Len(rollback_data)
<1>1. StockStep
  BY AnyStock DEF Balanced
<1>2. PICK owed : Owes(owed)
  BY DEF Balanced
<1>3. /\ rollback_data \in Seq(Entries) /\ L \in Nat /\ DOMAIN rollback_data = 1..L
      /\ rollback_data' \in Seq(Entries)
      /\ world \in Worlds /\ world' \in Worlds /\ before \in Worlds
      /\ given \in [Names -> Nat] /\ given' \in [Names -> Nat]
  BY DEF BatchInv, BatchTypeOK
<1>4. /\ IsFiniteSet(world.ents) /\ IsFiniteSet(world'.ents) /\ before' = before
      /\ IsFiniteSet(before.ents)
  BY <1>1 DEF Balanced, StockStep
<1>5. \A n \in Names : /\ Stock(world, n) \in Nat /\ Stock(world', n) \in Nat
                       /\ Stock(before, n) \in Nat
                       /\ given[n] \in Nat /\ given'[n] \in Nat
  BY <1>3, <1>4, StockType
<1>6. /\ owed \in [1..(L + 1) -> [Names -> Nat]]
      /\ \A i \in 1..L, n \in Names : owed[i + 1][n] = owed[i][n] + Back(rollback_data[i], n)
      /\ \A n \in Names : Stock(world, n) + owed[L + 1][n] <= Stock(before, n) + given[n]
      /\ L + 1 \in 1..(L + 1) /\ \A n \in Names : owed[L + 1][n] \in Nat
  <2>1. L + 1 \in 1..(L + 1)
    BY <1>3
  <2> QED
    BY <1>2, <1>3, <2>1 DEF Owes
<1>7. \A entry \in Entries, n \in Names : Back(entry, n) \in Nat
  <2>1. \A entry \in Entries : entry.kind = "inventory_add" => entry.count \in Nat
    BY DEF Entries
  <2> QED
    BY <2>1 DEF Back
<1>8. ASSUME Settles PROVE \E o : Owes(o)'
  <2>1. ASSUME NEW n \in Names
        PROVE  Stock(world', n) + owed[L + 1][n] <= Stock(before, n) + given'[n]
    <3>1. Stock(world', n) + given[n] <= Stock(world, n) + given'[n]
      BY <1>8 DEF Settles
    <3> QED
      BY <1>5, <1>6, <3>1
  <2>2. rollback_data' = rollback_data
    BY <1>8 DEF Settles
  <2> QED
    BY <1>3, <1>4, <1>6, <2>1, <2>2 DEF Owes
<1>9. ASSUME NEW entry \in Entries, Borrows(entry) PROVE \E o : Owes(o)'
  <2> DEFINE next == [n \in Names |-> owed[L + 1][n] + Back(entry, n)]
  <2>1. /\ rollback_data' = Append(rollback_data, entry) /\ Len(rollback_data') = L + 1
        /\ DOMAIN rollback_data' = 1..(L + 1) /\ rollback_data'[L + 1] = entry
        /\ \A i \in 1..L : rollback_data'[i] = rollback_data[i]
    BY <1>3, <1>9 DEF Borrows
  <2>2. next \in [Names -> Nat] /\ \A n \in Names : next[n] = owed[L + 1][n] + Back(entry, n)
    BY <1>6, <1>7
  <2> HIDE DEF next
  <2>3. PICK more :
        /\ more \in [1..(L + 2) -> [Names -> Nat]] /\ more[L + 2] = next
        /\ \A i \in 1..(L + 1) : more[i] = owed[i]
    <3> DEFINE f == [i \in 1..(L + 2) |-> IF i = L + 2 THEN next ELSE owed[i]]
    <3>1. f \in [1..(L + 2) -> [Names -> Nat]]
      BY <1>3, <1>6, <2>2
    <3>2. f[L + 2] = next /\ \A i \in 1..(L + 1) : f[i] = owed[i]
      BY <1>3
    <3> HIDE DEF f
    <3> QED
      BY <3>1, <3>2
  <2>4. ASSUME NEW i \in 1..(L + 1), NEW n \in Names
        PROVE  more[i + 1][n] = more[i][n] + Back(rollback_data'[i], n)
    <3>1. CASE i \in 1..L
      <4>1. i + 1 \in 1..(L + 1)
        BY <1>3, <3>1
      <4> QED
        BY <1>6, <2>1, <2>3, <3>1, <4>1
    <3>2. CASE i = L + 1
      <4>1. i + 1 = L + 2 /\ L + 1 \in 1..(L + 1)
        BY <1>3, <3>2
      <4> QED
        BY <2>1, <2>2, <2>3, <3>2, <4>1
    <3> QED
      BY <1>3, <3>1, <3>2
  <2>5. ASSUME NEW n \in Names
        PROVE  Stock(world', n) + more[L + 2][n] <= Stock(before, n) + given'[n]
    <3>1. Stock(world', n) + Back(entry, n) <= Stock(world, n) /\ given' = given
      BY <1>9 DEF Borrows
    <3>2. Back(entry, n) \in Nat /\ more[L + 2][n] = owed[L + 1][n] + Back(entry, n)
      BY <1>7, <2>2, <2>3
    <3> QED
      BY <1>5, <1>6, <3>1, <3>2
  <2>6. Len(rollback_data') + 1 = L + 2
    BY <1>3, <2>1
  <2>7. Owes(more)'
    BY <1>4, <2>1, <2>3, <2>4, <2>5, <2>6 DEF Owes
  <2> QED
    BY <2>7
<1>10. ASSUME Returns PROVE \E o : Owes(o)'
  <2>1. L \in Nat \ {0} /\ rollback_data' = SubSeq(rollback_data, 1, L - 1) /\ Entry = rollback_data[L]
    BY <1>3, <1>10 DEF Returns, Front, Entry
  <2>2. /\ Len(rollback_data') = L - 1 /\ DOMAIN rollback_data' = 1..(L - 1)
        /\ \A i \in 1..(L - 1) : rollback_data'[i] = rollback_data[i]
    <3>1. L - 1 \in 0..L
      BY <2>1
    <3> QED
      BY <1>3, <2>1, <3>1, Beginning
  <2>3. PICK less : less \in [1..L -> [Names -> Nat]] /\ \A i \in 1..L : less[i] = owed[i]
    <3> DEFINE f == [i \in 1..L |-> owed[i]]
    <3>1. \A i \in 1..L : owed[i] \in [Names -> Nat]
      <4>1. \A i \in 1..L : i \in 1..(L + 1)
        BY <1>3
      <4> HIDE DEF L
      <4> QED
        BY <1>6, <4>1
    <3>2. f \in [1..L -> [Names -> Nat]]
      BY <3>1
    <3>3. \A i \in 1..L : f[i] = owed[i]
      OBVIOUS
    <3> HIDE DEF f
    <3> QED
      BY <3>2, <3>3
  <2>4. ASSUME NEW i \in 1..(L - 1), NEW n \in Names
        PROVE  less[i + 1][n] = less[i][n] + Back(rollback_data'[i], n)
    <3>1. i \in 1..L /\ i + 1 \in 1..L
      BY <2>1
    <3> QED
      BY <1>6, <2>2, <2>3, <3>1
  <2>5. ASSUME NEW n \in Names
        PROVE  Stock(world', n) + less[L][n] <= Stock(before, n) + given'[n]
    <3>1. L \in 1..L /\ Entry \in Entries
      BY <1>3, <2>1
    <3>2. owed[L + 1][n] = less[L][n] + Back(Entry, n)
      BY <1>6, <2>1, <2>3, <3>1
    <3>3. less[L][n] \in Nat /\ Back(Entry, n) \in Nat
      BY <1>7, <2>3, <3>1
    <3>4. Stock(world', n) <= Stock(world, n) + Back(Entry, n) /\ given' = given
      BY <1>10 DEF Returns
    <3>5. Stock(world, n) + owed[L + 1][n] <= Stock(before, n) + given[n]
      BY <1>6
    <3>6. Stock(world', n) \in Nat /\ Stock(world, n) \in Nat /\ Stock(before, n) \in Nat /\ given[n] \in Nat
      BY <1>5
    <3> HIDE DEF L
    <3> QED
      BY <3>2, <3>3, <3>4, <3>5, <3>6
  <2>6. (L - 1) + 1 = L
    BY <2>1
  <2>7. Owes(less)'
    BY <1>4, <2>2, <2>3, <2>4, <2>5, <2>6 DEF Owes
  <2> QED
    BY <2>7
<1>11. \E o : Owes(o)'
  BY <1>1, <1>8, <1>9, <1>10 DEF StockStep
<1> QED
  BY <1>4, <1>11 DEF Balanced

\* However operations and their rollback mix, the inventory and the surface hold
\* no more of an item than before the batch and what inventory_add gave.
THEOREM NothingDuplicated == BatchSpec => []NoDuplication
<1>1. BatchInv /\ Balanced => NoDuplication
  <2> SUFFICES ASSUME BatchInv, Balanced, NEW n \in Names
               PROVE  Stock(world, n) <= Stock(before, n) + given[n]
    BY DEF NoDuplication
  <2>1. PICK owed : Owes(owed)
    BY DEF Balanced
  <2>2. Len(rollback_data) + 1 \in 1..(Len(rollback_data) + 1)
    BY DEF BatchInv, BatchTypeOK
  <2>3. /\ owed[Len(rollback_data) + 1][n] \in Nat
        /\ Stock(world, n) + owed[Len(rollback_data) + 1][n] <= Stock(before, n) + given[n]
    BY <2>1, <2>2 DEF Owes
  <2>4. Stock(world, n) \in Nat /\ Stock(before, n) \in Nat /\ given[n] \in Nat
    BY StockType DEF BatchInv, BatchTypeOK, Balanced
  <2> QED
    BY <2>3, <2>4
<1>2. BatchInit => Balanced
  BY BalancedInit
<1>3. BatchInv /\ BatchInv' /\ Balanced /\ [BatchNext]_batchVars => Balanced'
  BY BalancedStep
<1> QED
  BY <1>1, <1>2, <1>3, BatchInvariant, PTL DEF BatchSpec

-----------------------------------------------------------------------------
LEMMA AsOneInit == BatchInit => AsOne!Init
BY BatchInitInv DEF BatchInit, AsOne!Init, Outcome, BatchInv, BatchTypeOK

\* The answer is the one step in which the batch happens.
LEMMA AnswerAsOne ==
  ASSUME BatchInv, Answer
  PROVE  AsOne!Next
<1>1. phase = "executed" /\ phase' = "answered" /\ before' = before /\ world' = world
        /\ spoilt' = spoilt /\ results' = results /\ transaction' = transaction
        /\ world \in Worlds
  BY DEF Answer, args, BatchInv, BatchTypeOK
<1>2. Outcome = "none"
  BY <1>1 DEF Outcome
<1>3. RolledBack' = RolledBack
  BY <1>1 DEF RolledBack, Failed
<1>4. CASE ~ RolledBack
  <2>1. Outcome' = "kept"
    BY <1>1, <1>3, <1>4 DEF Outcome
  <2> QED
    BY <1>1, <1>2, <2>1 DEF AsOne!Next, AsOne!Keep, AsOne!End
<1>5. CASE RolledBack /\ spoilt
  <2>1. Outcome' = "partly"
    BY <1>1, <1>3, <1>5 DEF Outcome
  <2> QED
    BY <1>1, <1>2, <2>1 DEF AsOne!Next, AsOne!Patch, AsOne!End
<1>6. CASE RolledBack /\ ~ spoilt
  <2>1. Outcome' = "undone"
    BY <1>1, <1>3, <1>6 DEF Outcome
  <2>2. rollback_data = << >>
    BY <1>6 DEF Answer
  <2>3. Len(past) = 1 /\ past[1] = before /\ past[Len(past)] = world
    BY <1>6, <2>2 DEF BatchInv, Restorable
  <2> QED
    BY <1>1, <1>2, <2>1, <2>3 DEF AsOne!Next, AsOne!Undo, AsOne!End
<1> QED
  BY <1>4, <1>5, <1>6

LEMMA AsOneStep ==
  ASSUME BatchInv, [BatchNext]_batchVars
  PROVE  [AsOne!Next]_(AsOne!vars)
<1>1. CASE Answer
  BY <1>1, AnswerAsOne
<1>2. CASE Refuse
  BY <1>2 DEF Refuse, args, Outcome, AsOne!Next, AsOne!Refuse, AsOne!End
<1>3. CASE UNCHANGED batchVars
  BY <1>3 DEF batchVars, args, Outcome, RolledBack, Failed, AsOne!vars
<1>5. CASE CallRaises
  <2>1. world' = world /\ world \in Worlds /\ Outcome = "none" /\ Outcome' = "aborted" /\ phase' = "raised"
    BY <1>5 DEF CallRaises, Outcome, BatchInv, BatchTypeOK
  <2> QED
    BY <2>1 DEF AsOne!Next, AsOne!Abort, AsOne!End
<1>4. CASE Begin \/ Operation \/ EndOfList \/ TeleportBack \/ RemoveEntity \/ AddBack
  <2>1. /\ phase \notin {"answered", "refused", "raised"} /\ phase' \notin {"answered", "refused", "raised"}
        /\ before' = before
    <3>1. CASE Operation
      BY <3>1, OperationEffect DEF BatchInv, Frame, args
    <3>2. CASE Begin \/ EndOfList
      BY <3>2 DEF Begin, EndOfList, args
    <3>3. CASE TeleportBack \/ RemoveEntity \/ AddBack
      BY <3>3 DEF TeleportBack, RemoveEntity, AddBack, Undoing, args
    <3> QED
      BY <1>4, <3>1, <3>2, <3>3
  <2> QED
    BY <2>1 DEF Outcome, AsOne!vars
<1> QED
  BY <1>1, <1>2, <1>3, <1>4, <1>5 DEF BatchNext

\* A batch implements the single step it looks like from outside: a transaction
\* that answers with a failure leaves the world of the call unless a change
\* without an entry was made.  One that a raising call ended may have changed it.
THEOREM Atomic == BatchSpec => ImplementsTransaction
<1>1. BatchSpec => AsOne!Init
  BY AsOneInit DEF BatchSpec
<1>2. BatchInv /\ [BatchNext]_batchVars => [AsOne!Next]_(AsOne!vars)
  BY AsOneStep
<1> QED
  BY <1>1, <1>2, BatchInvariant, PTL DEF BatchSpec, ImplementsTransaction, AsOne!Spec
--------------------------------------------------------------------------------
HIDE FitsAssumption
HIDE BoundsAssumption

(***************************************************************************)
(* The join context: the result of each child, for any tasks, any page     *)
(* size, any number of failures and whatever is committed between two      *)
(* queries.  What a query was shown does not change afterwards, for the    *)
(* log only grows.  So the invariant says of every query made so far, and  *)
(* every child still missing, that it failed or was shown nothing of the   *)
(* child; that queries not yet made have been shown nothing; and of the    *)
(* sections that they are those of the results found.                      *)
(***************************************************************************)
Events == [type : Committed, task : Tasks, data : TaskData \cup JobData]

Made == \A i \in 1..LastType : q <= i => asked[i] = Unasked

Missed == \A c \in children : found[c] = 0 => \A i \in 1..LastType : i < q => SawNothing(i, c)

\* Type number i gave the result of c, the types before it were shown nothing of c.
From(i, c) ==
  /\ found[c] \in Visible(i, c)
  /\ \A k \in Visible(i, c) : k <= found[c]
  /\ \A k \in 1..(i - 1) : SawNothing(k, c)

Chosen == \A c \in children : found[c] # 0 => \E i \in 1..9 : From(i, c)

Written == out = "sections" => q = LastType + 1 /\ \A c \in children : text[c] = Section(c)

JoinInv ==
  /\ JoinTypeOK /\ log \in Seq(Events)
  /\ Made /\ Missed /\ Chosen /\ Written

\* The order of the natural numbers: what is not empty has a least element, and a
\* greatest one if it is bounded.
Order == OpToRel(<, Nat)

LEMMA OrderIs == \A x, y \in Nat : <<x, y>> \in Order <=> x < y
BY DEF Order, OpToRel

LEMMA Least ==
  ASSUME NEW T, T \subseteq Nat, T # {}
  PROVE  \E x \in T : \A y \in T : x <= y
<1>1. IsWellFoundedOn(Order, Nat)
  BY NatLessThanWellFounded DEF Order
<1>2. PICK x \in T : \A y \in T : ~ (<<y, x>> \in Order)
  BY <1>1, WFMin
<1>3. ASSUME NEW y \in T PROVE x <= y
  <2>1. x \in Nat /\ y \in Nat /\ ~ (<<y, x>> \in Order)
    BY <1>2
  <2>2. ~ (y < x)
    BY <2>1, OrderIs
  <2> QED
    BY <2>1, <2>2
<1> QED
  BY <1>3

LEMMA MaxIs ==
  ASSUME NEW n \in Nat, NEW S, S \subseteq 1..n, S # {}
  PROVE  Max(S) \in S /\ \A y \in S : y <= Max(S)
<1> DEFINE T == {n - x : x \in S}
<1>1. T \subseteq Nat /\ T # {}
  <2>1. \A x \in S : x \in 1..n /\ n - x \in Nat
    OBVIOUS
  <2> QED
    BY <2>1
<1>2. PICK t \in T : \A y \in T : t <= y
  BY <1>1, Least
<1>3. PICK m \in S : t = n - m
  OBVIOUS
<1>4. \A y \in S : n - y \in T
  OBVIOUS
<1> HIDE DEF T
<1>5. ASSUME NEW y \in S PROVE m >= y
  BY <1>2, <1>3, <1>4
<1>6. \E x \in S : \A y \in S : x >= y
  BY <1>5
<1> QED
  BY <1>6 DEF Max

\* The nine types, in the order in which they are asked for, are different.
LEMMA TypesAre ==
  /\ LastType = 9 /\ Len(Types) = 9 /\ DOMAIN Types = 1..9
  /\ \A i, k \in 1..9 : Types[i] = Types[k] => i = k
  /\ \A i \in 1..9 : IsTask(Types[i]) <=> i \in 1..5
<1>1. /\ Len(Types) = 9 /\ DOMAIN Types = 1..9
      /\ Types[1] = "task.completed" /\ Types[2] = "task.failed" /\ Types[3] = "task.partial"
      /\ Types[4] = "task.cancelled" /\ Types[5] = "task.eval_failed"
      /\ Types[6] = "job.completed" /\ Types[7] = "job.failed" /\ Types[8] = "job.cancelled"
      /\ Types[9] = "supervisor.job.failed"
  BY DEF Types, TaskTypes, JobTypes
<1>2. \A i \in 1..9 : i = 1 \/ i = 2 \/ i = 3 \/ i = 4 \/ i = 5 \/ i = 6 \/ i = 7 \/ i = 8 \/ i = 9
  OBVIOUS
<1>3. \A i, k \in 1..9 : Types[i] = Types[k] => i = k
  BY <1>1, <1>2
<1>4. \A type : IsTask(type) <=> \/ type = "task.completed" \/ type = "task.failed"
                                 \/ type = "task.partial" \/ type = "task.cancelled"
                                 \/ type = "task.eval_failed"
  <2>1. /\ DOMAIN TaskTypes = 1..5 /\ TaskTypes[1] = "task.completed"
        /\ TaskTypes[2] = "task.failed" /\ TaskTypes[3] = "task.partial"
        /\ TaskTypes[4] = "task.cancelled" /\ TaskTypes[5] = "task.eval_failed"
    BY DEF TaskTypes
  <2>2. \A i \in 1..5 : i = 1 \/ i = 2 \/ i = 3 \/ i = 4 \/ i = 5
    OBVIOUS
  <2> QED
    BY <2>1, <2>2 DEF IsTask
<1>5. \A i \in 1..9 : IsTask(Types[i]) <=> i \in 1..5
  BY <1>1, <1>2, <1>4
<1> QED
  BY <1>1, <1>3, <1>5 DEF LastType

LEMMA PlaceIs ==
  ASSUME NEW i \in 1..9
  PROVE  PlaceOf(Types[i]) = i
BY TypesAre DEF PlaceOf

\* What a query was shown stays as it was while the log grows.
LEMMA ShownStays ==
  ASSUME log \in Seq(Events), NEW i \in 1..9, NEW c,
         asked[i] \in FailedQuery..Len(log), asked'[i] = asked[i],
         \A k \in 1..Len(log) : log'[k] = log[k]
  PROVE  Visible(i, c)' = Visible(i, c) /\ (SawNothing(i, c)' <=> SawNothing(i, c))
<1> DEFINE later(k) == {j \in (k + 1)..asked[i] : log[j].type = Types[i]}
<1>1. Len(log) \in Nat /\ asked[i] \in Int /\ asked[i] <= Len(log)
  BY DEF FailedQuery
<1>2. \A k \in 1..asked[i] : /\ k \in 1..Len(log)
                             /\ {j \in (k + 1)..asked[i] : log'[j].type = Types[i]} = later(k)
  BY <1>1
<1>3. Visible(i, c) = {k \in 1..asked[i] : /\ log[k].type = Types[i] /\ log[k].task = c
                                           /\ Cardinality(later(k)) < PageLimit}
  BY DEF Visible
<1>4. Visible(i, c)' =
        {k \in 1..asked[i] : /\ log'[k].type = Types[i] /\ log'[k].task = c
                             /\ Cardinality({j \in (k + 1)..asked[i] : log'[j].type = Types[i]})
                                  < PageLimit}
  BY DEF Visible
<1> HIDE DEF later
<1>5. Visible(i, c)' = Visible(i, c)
  BY <1>2, <1>3, <1>4
<1> QED
  BY <1>5 DEF SawNothing

\* What a query is shown when it is answered, and when it fails.
LEMMA ShownNow ==
  ASSUME log \in Seq(Events), NEW i \in 1..9, NEW c, asked'[i] = Len(log), log' = log
  PROVE  Visible(i, c)' = Of(c, Newest(Types[i]))
<1> DEFINE after(k) == {j \in DOMAIN log : j > k /\ log[j].type = Types[i]}
<1>1. Len(log) \in Nat /\ DOMAIN log = 1..Len(log)
  OBVIOUS
<1>2. \A k \in 1..Len(log) : {j \in (k + 1)..Len(log) : log[j].type = Types[i]} = after(k)
  BY <1>1
<1>3. Visible(i, c)' =
        {k \in 1..Len(log) : /\ log[k].type = Types[i] /\ log[k].task = c
                             /\ Cardinality({j \in (k + 1)..Len(log) : log[j].type = Types[i]})
                                  < PageLimit}
  BY DEF Visible
<1>4. Of(c, Newest(Types[i])) =
        {k \in 1..Len(log) : /\ log[k].type = Types[i] /\ log[k].task = c
                             /\ Cardinality(after(k)) < PageLimit}
  BY <1>1 DEF Of, Newest
<1> HIDE DEF after
<1> QED
  BY <1>2, <1>3, <1>4

LEMMA ShownFailed ==
  ASSUME NEW i \in 1..9, NEW c, asked'[i] = FailedQuery
  PROVE  SawNothing(i, c)'
BY DEF SawNothing, Visible, FailedQuery, Unasked

\* The query an event in the log belongs to.
LEMMA PlaceType ==
  ASSUME log \in Seq(Events), NEW k \in 1..Len(log)
  PROVE  PlaceOf(log[k].type) \in 1..9 /\ Types[PlaceOf(log[k].type)] = log[k].type
<1>1. log[k] \in Events
  OBVIOUS
<1>2. log[k].type \in Committed
  BY <1>1 DEF Events
<1>3. PICK i \in 1..9 : Types[i] = log[k].type
  BY <1>2, JoinAssumption, TypesAre
<1> QED
  BY <1>3, PlaceIs

LEMMA FromIsPlace ==
  ASSUME log \in Seq(Events), NEW c, NEW i \in 1..9, From(i, c)
  PROVE  log[found[c]].type = Types[i] /\ PlaceOf(log[found[c]].type) = i
BY PlaceIs DEF From, Visible

LEMMA ChosenIsFirst == JoinInv => FirstAndNewest
<1> SUFFICES ASSUME JoinInv, NEW c \in DOMAIN found, found[c] # 0
             PROVE  LET i == PlaceOf(log[found[c]].type) IN
                      /\ found[c] \in Visible(i, c)
                      /\ \A k \in Visible(i, c) : k <= found[c]
                      /\ \A k \in 1..(i - 1) : SawNothing(k, c)
  BY DEF FirstAndNewest
<1>1. c \in children /\ log \in Seq(Events)
  BY DEF JoinInv, JoinTypeOK
<1>2. PICK i \in 1..9 : From(i, c)
  BY <1>1 DEF JoinInv, Chosen
<1>3. PlaceOf(log[found[c]].type) = i
  BY <1>1, <1>2, FromIsPlace
<1> QED
  BY <1>2, <1>3 DEF From

\* The type of the fields of the invariant, with the number of types in place.
LEMMA JoinTypes ==
  JoinInv => /\ log \in Seq(Events) /\ Len(log) \in Nat /\ DOMAIN log = 1..Len(log)
             /\ q \in 0..10 /\ asked \in [1..9 -> FailedQuery..Len(log)]
             /\ found \in [children -> 0..Len(log)] /\ LastType = 9 /\ LastType + 1 = 10
<1> HAVE JoinInv
<1>0. LastType = 9
  BY TypesAre
<1>1. log \in Seq(Events) /\ q \in 0..(LastType + 1)
      /\ asked \in [1..LastType -> FailedQuery..Len(log)] /\ found \in [children -> 0..Len(log)]
  BY DEF JoinInv, JoinTypeOK
<1>2. Len(log) \in Nat /\ DOMAIN log = 1..Len(log)
  BY <1>1
<1> QED
  BY <1>0, <1>1, <1>2

--------------------------------------------------------------------------------
LEMMA JoinInitInv == JoinInit => JoinInv
<1> SUFFICES ASSUME JoinInit PROVE JoinInv
  OBVIOUS
<1>1. log \in Seq(Events) /\ Len(log) = 0 /\ DOMAIN log = {}
  BY DEF JoinInit
<1>2. LastType = 9 /\ LastType + 1 = 10
  BY TypesAre
<1>3. asked \in [1..LastType -> FailedQuery..Len(log)]
  BY <1>1 DEF JoinInit, Unasked, FailedQuery
<1>4. JoinTypeOK
  BY <1>1, <1>2, <1>3 DEF JoinInit, JoinTypeOK
<1>5. Made /\ Missed /\ Chosen /\ Written
  BY <1>2 DEF JoinInit, Made, Missed, Chosen, Written
<1> QED
  BY <1>1, <1>4, <1>5 DEF JoinInv

LEMMA CommitInv == ASSUME JoinInv, Commit PROVE JoinInv'
<1>1. PICK type \in Committed, t \in Tasks : \E d \in Data(type) :
        log' = Append(log, [type |-> type, task |-> t, data |-> d])
  BY DEF Commit
<1>2. PICK d \in Data(type) : log' = Append(log, [type |-> type, task |-> t, data |-> d])
  BY <1>1
<1> DEFINE e == [type |-> type, task |-> t, data |-> d]
<1>3. e \in Events /\ e.type \in Committed /\ e.task \in Tasks /\ e.data \in Data(e.type)
  BY DEF Events, Data
<1>4. log \in Seq(Events) /\ Len(log) \in Nat /\ q <= LastType /\ LastType = 9
        /\ UNCHANGED <<children, q, found, out, text, asked>>
        /\ asked \in [1..9 -> FailedQuery..Len(log)] /\ found \in [children -> 0..Len(log)]
  BY JoinTypes DEF Commit
<1> HIDE DEF e
<1>5. /\ log' \in Seq(Events) /\ Len(log') = Len(log) + 1 /\ log'[Len(log) + 1] = e
      /\ \A k \in 1..Len(log) : log'[k] = log[k]
      /\ DOMAIN log' = 1..(Len(log) + 1) /\ DOMAIN log = 1..Len(log)
  BY <1>2, <1>3, <1>4 DEF e
<1>6. JoinTypeOK'
  <2>1. ASSUME NEW k \in DOMAIN log'
        PROVE  /\ log'[k].type \in Committed /\ log'[k].task \in Tasks
               /\ log'[k].data \in Data(log'[k].type)
    <3>1. CASE k = Len(log) + 1
      BY <1>3, <1>5, <3>1
    <3>2. CASE k # Len(log) + 1
      <4>1. k \in 1..Len(log)
        BY <1>4, <1>5, <3>2
      <4> QED
        BY <1>5, <4>1 DEF JoinInv, JoinTypeOK
    <3> QED
      BY <3>1, <3>2
  <2>2. found' \in [children' -> 0..Len(log')]
    <3>1. \A x \in 0..Len(log) : x \in 0..Len(log')
      BY <1>4, <1>5
    <3> QED
      BY <1>4, <3>1
  <2>3. asked' \in [1..LastType -> FailedQuery..Len(log')]
    <3>1. \A x \in FailedQuery..Len(log) : x \in FailedQuery..Len(log')
      BY <1>4, <1>5 DEF FailedQuery
    <3> QED
      BY <1>4, <3>1
  <2>4. /\ children \subseteq Tasks /\ q \in 0..(LastType + 1) /\ DOMAIN text = children
        /\ out \in {"pending", "empty", "no results", "sections"}
    BY DEF JoinInv, JoinTypeOK
  <2> QED
    BY <1>4, <2>1, <2>2, <2>3, <2>4 DEF JoinTypeOK, Data
<1>7. \A i \in 1..9 : \A c : Visible(i, c)' = Visible(i, c) /\ (SawNothing(i, c)' <=> SawNothing(i, c))
  BY <1>4, <1>5, ShownStays
<1>8. Made'
  BY <1>4 DEF JoinInv, Made
<1>9. Missed'
  BY <1>4, <1>7 DEF JoinInv, Missed
<1>10. Chosen'
  <2> SUFFICES ASSUME NEW c \in children, found[c] # 0
               PROVE  \E i \in 1..9 : From(i, c)'
    BY <1>4 DEF Chosen
  <2>1. PICK i \in 1..9 : From(i, c)
    BY DEF JoinInv, Chosen
  <2>2. \A k \in 1..(i - 1) : k \in 1..9
    OBVIOUS
  <2>3. From(i, c)'
    BY <1>4, <1>7, <2>1, <2>2 DEF From
  <2> QED
    BY <2>3
<1>11. Written'
  <2>1. out # "sections"
    BY <1>4 DEF JoinInv, Written
  <2> QED
    BY <1>4, <2>1 DEF Written
<1> QED
  BY <1>5, <1>6, <1>8, <1>9, <1>10, <1>11 DEF JoinInv

\* What was found of a child is kept by a step that leaves the queries before it alone.
LEMMA FoundStays ==
  ASSUME JoinInv, log' = log, NEW n \in 1..9, q = n,
         \A i \in 1..9 : i # n => asked'[i] = asked[i],
         NEW c \in children, found[c] # 0, found'[c] = found[c]
  PROVE  \E i \in 1..9 : From(i, c)'
<1>1. /\ log \in Seq(Events) /\ LastType = 9 /\ Len(log) \in Nat
      /\ asked \in [1..9 -> FailedQuery..Len(log)]
  BY JoinTypes
<1>2. PICK i \in 1..9 : From(i, c)
  BY DEF JoinInv, Chosen
<1>3. asked[i] # Unasked
  <2>1. found[c] \in 1..asked[i]
    BY <1>2 DEF From, Visible
  <2> QED
    BY <2>1 DEF Unasked
<1>4. i < n
  <2>1. ~ (n <= i)
    BY <1>1, <1>3 DEF JoinInv, Made
  <2> QED
    BY <2>1
<1>5. \A k \in 1..i : k \in 1..9 /\ k # n
  BY <1>4
<1>6. \A k \in 1..i : asked'[k] = asked[k] /\ asked[k] \in FailedQuery..Len(log)
  BY <1>1, <1>5
<1>7. \A k \in 1..Len(log) : log'[k] = log[k]
  OBVIOUS
<1>8. \A k \in 1..i : Visible(k, c)' = Visible(k, c) /\ (SawNothing(k, c)' <=> SawNothing(k, c))
  BY <1>1, <1>5, <1>6, <1>7, ShownStays
<1>9. i \in 1..i /\ \A k \in 1..(i - 1) : k \in 1..i
  OBVIOUS
<1>10. From(i, c)'
  BY <1>2, <1>8, <1>9 DEF From
<1> QED
  BY <1>10

\* So is what was not found.
LEMMA MissedStays ==
  ASSUME JoinInv, log' = log, NEW n \in 1..9, q = n,
         \A i \in 1..9 : i # n => asked'[i] = asked[i],
         NEW c \in children, found[c] = 0
  PROVE  \A k \in 1..(n - 1) : SawNothing(k, c)'
<1>1. /\ log \in Seq(Events) /\ LastType = 9 /\ asked \in [1..9 -> FailedQuery..Len(log)]
  BY JoinTypes
<1>2. ASSUME NEW k \in 1..(n - 1) PROVE SawNothing(k, c)'
  <2>1. k \in 1..9 /\ k < n /\ k # n
    OBVIOUS
  <2>2. SawNothing(k, c)
    BY <1>1, <2>1 DEF JoinInv, Missed
  <2> QED
    BY <1>1, <2>1, <2>2, ShownStays
<1> QED
  BY <1>2

LEMMA QueryInv == ASSUME JoinInv, Query PROVE JoinInv'
<1> DEFINE page == Newest(Types[q])
<1>0. LastType = 9 /\ LastType + 1 = 10
  BY TypesAre
<1>1. /\ log \in Seq(Events) /\ Len(log) \in Nat /\ DOMAIN log = 1..Len(log)
      /\ q \in 1..9 /\ asked \in [1..9 -> FailedQuery..Len(log)]
      /\ found \in [children -> 0..Len(log)] /\ out # "sections"
  <2>1. q \in 1..9
    BY <1>0 DEF Query
  <2>2. out # "sections"
    BY <1>0, <2>1 DEF JoinInv, Written
  <2> QED
    BY <2>1, <2>2, JoinTypes
<1>2. /\ UNCHANGED <<log, children, out, text>>
      /\ found' = Take(page) /\ q' = After(Take(page), q)
      /\ asked' = [asked EXCEPT ![q] = Len(log)]
  BY DEF Query
<1>3. asked' \in [1..9 -> FailedQuery..Len(log)] /\ asked'[q] = Len(log)
        /\ \A i \in 1..9 : i # q => asked'[i] = asked[i]
  <2>1. Len(log) \in FailedQuery..Len(log)
    BY <1>1 DEF FailedQuery
  <2> QED
    BY <1>1, <1>2, <2>1
<1>4. \A c : /\ Of(c, page) \subseteq 1..Len(log)
             /\ \A k \in Of(c, page) : log[k].type = Types[q]
  BY <1>1 DEF Of, Newest
<1>5. \A c \in children : Of(c, page) # {} =>
        Max(Of(c, page)) \in Of(c, page) /\ \A y \in Of(c, page) : y <= Max(Of(c, page))
  BY <1>1, <1>4, MaxIs
<1> HIDE DEF page
<1>6. \A c \in children :
        found'[c] = IF found[c] = 0 /\ Of(c, page) # {} THEN Max(Of(c, page)) ELSE found[c]
  BY <1>2 DEF Take
<1>7. found' \in [children -> 0..Len(log)]
  <2>1. \A c \in children : found'[c] \in 0..Len(log)
    <3> SUFFICES ASSUME NEW c \in children PROVE found'[c] \in 0..Len(log)
      OBVIOUS
    <3>1. CASE found[c] = 0 /\ Of(c, page) # {}
      <4>1. found'[c] \in 1..Len(log)
        BY <1>4, <1>5, <1>6, <3>1
      <4> QED
        BY <1>1, <4>1
    <3>2. CASE ~ (found[c] = 0 /\ Of(c, page) # {})
      BY <1>1, <1>6, <3>2
    <3> QED
      BY <3>1, <3>2
  <2>2. found' = [c \in children |-> found'[c]]
    BY <1>2 DEF Take
  <2> QED
    BY <2>1, <2>2
<1>8. q' \in 0..10 /\ (q' = 10 \/ q' = q + 1) /\ (q' # q + 1 => \A c \in children : found'[c] # 0)
  BY <1>0, <1>1, <1>2 DEF After
<1>9. JoinTypeOK'
  <2>1. /\ \A k \in DOMAIN log : /\ log[k].type \in Committed /\ log[k].task \in Tasks
                                /\ log[k].data \in Data(log[k].type)
        /\ children \subseteq Tasks /\ DOMAIN text = children
        /\ out \in {"pending", "empty", "no results", "sections"}
    BY DEF JoinInv, JoinTypeOK
  <2>2. asked' \in [1..LastType -> FailedQuery..Len(log)] /\ q' \in 0..(LastType + 1)
    BY <1>0, <1>3, <1>8
  <2> QED
    BY <1>2, <1>7, <2>1, <2>2 DEF JoinTypeOK, Data
<1>10. Made'
  <2>1. \A i \in 1..9 : q' <= i => q <= i /\ i # q
    BY <1>1, <1>8
  <2> QED
    BY <1>0, <1>3, <2>1 DEF JoinInv, Made
<1>11. Missed'
  <2> SUFFICES ASSUME NEW c \in children, found'[c] = 0, NEW i \in 1..9, i < q'
               PROVE  SawNothing(i, c)'
    BY <1>0, <1>2 DEF Missed
  <2>1. q' = q + 1
    BY <1>8
  <2>2. found[c] = 0 /\ Of(c, page) = {}
    <3>1. ~ (found[c] = 0 /\ Of(c, page) # {})
      <4>1. found[c] = 0 /\ Of(c, page) # {} => found'[c] \in 1..Len(log)
        BY <1>4, <1>5, <1>6
      <4> QED
        BY <1>1, <4>1
    <3>2. found'[c] = found[c]
      BY <1>6, <3>1
    <3> QED
      BY <3>1, <3>2
  <2>3. CASE i = q
    <3>1. asked'[i] = Len(log) /\ Len(log) # Unasked
      BY <1>1, <1>3, <2>3 DEF Unasked
    <3>2. Visible(i, c)' = Of(c, page)
      BY <1>1, <1>2, <2>3, <3>1, ShownNow DEF page
    <3> QED
      BY <2>2, <3>1, <3>2 DEF SawNothing
  <2>4. CASE i # q
    <3>1. i \in 1..(q - 1)
      BY <1>1, <2>1, <2>4
    <3> QED
      BY <1>1, <1>2, <1>3, <2>2, <3>1, MissedStays
  <2> QED
    BY <2>3, <2>4
<1>12. Chosen'
  <2> SUFFICES ASSUME NEW c \in children, found'[c] # 0
               PROVE  \E i \in 1..9 : From(i, c)'
    BY <1>2 DEF Chosen
  <2>1. CASE found[c] = 0
    <3>1. Of(c, page) # {} /\ found'[c] = Max(Of(c, page))
      BY <1>6, <2>1
    <3>2. found'[c] \in Of(c, page) /\ \A y \in Of(c, page) : y <= found'[c]
      BY <1>5, <3>1
    <3>3. \A k \in 1..(q - 1) : SawNothing(k, c)'
      BY <1>1, <1>2, <1>3, <2>1, MissedStays
    <3>4. PICK i \in 1..9 : i = q
      BY <1>1
    <3>5. Visible(i, c)' = Of(c, page) /\ \A k \in 1..(i - 1) : SawNothing(k, c)'
      BY <1>1, <1>2, <1>3, <3>3, <3>4, ShownNow DEF page
    <3>6. From(i, c)'
      BY <3>2, <3>5 DEF From
    <3> QED
      BY <3>6
  <2>2. CASE found[c] # 0
    <3>1. found'[c] = found[c]
      BY <1>6, <2>2
    <3> QED
      BY <1>1, <1>2, <1>3, <2>2, <3>1, FoundStays
  <2> QED
    BY <2>1, <2>2
<1>13. Written'
  BY <1>1, <1>2 DEF Written
<1> QED
  BY <1>1, <1>2, <1>9, <1>10, <1>11, <1>12, <1>13 DEF JoinInv

LEMMA QueryFailsInv == ASSUME JoinInv, QueryFails PROVE JoinInv'
<1>0. LastType = 9 /\ LastType + 1 = 10
  BY TypesAre
<1>1. /\ log \in Seq(Events) /\ Len(log) \in Nat
      /\ q \in 1..9 /\ asked \in [1..9 -> FailedQuery..Len(log)] /\ DOMAIN found = children
      /\ out # "sections"
  <2>1. q \in 1..9
    BY <1>0 DEF QueryFails
  <2>2. out # "sections"
    BY <1>0, <2>1 DEF JoinInv, Written
  <2> QED
    BY <2>1, <2>2, JoinTypes
<1>2. /\ UNCHANGED <<log, children, found, out, text>> /\ q' = q + 1
      /\ asked' = [asked EXCEPT ![q] = FailedQuery]
  BY DEF QueryFails
<1>3. asked' \in [1..9 -> FailedQuery..Len(log)] /\ asked'[q] = FailedQuery
        /\ \A i \in 1..9 : i # q => asked'[i] = asked[i]
  <2>1. FailedQuery \in FailedQuery..Len(log)
    BY <1>1 DEF FailedQuery
  <2> QED
    BY <1>1, <1>2, <2>1
<1>4. JoinTypeOK'
  <2>1. /\ \A k \in DOMAIN log : /\ log[k].type \in Committed /\ log[k].task \in Tasks
                                /\ log[k].data \in Data(log[k].type)
        /\ children \subseteq Tasks /\ DOMAIN text = children
        /\ out \in {"pending", "empty", "no results", "sections"}
    BY DEF JoinInv, JoinTypeOK
  <2>2. asked' \in [1..LastType -> FailedQuery..Len(log)] /\ q' \in 0..(LastType + 1)
    BY <1>0, <1>1, <1>2, <1>3
  <2>3. found \in [children -> 0..Len(log)]
    BY JoinTypes
  <2> QED
    BY <1>2, <2>1, <2>2, <2>3 DEF JoinTypeOK, Data
<1>5. Made'
  <2>1. \A i \in 1..9 : q + 1 <= i => q <= i /\ i # q
    BY <1>1
  <2> QED
    BY <1>0, <1>2, <1>3, <2>1 DEF JoinInv, Made
<1>6. Missed'
  <2> SUFFICES ASSUME NEW c \in children, found[c] = 0, NEW i \in 1..9, i < q'
               PROVE  SawNothing(i, c)'
    BY <1>0, <1>2 DEF Missed
  <2>1. CASE i = q
    BY <1>1, <1>3, <2>1, ShownFailed
  <2>2. CASE i # q
    <3>1. i \in 1..(q - 1)
      BY <1>1, <1>2, <2>2
    <3> QED
      BY <1>1, <1>2, <1>3, <3>1, MissedStays
  <2> QED
    BY <2>1, <2>2
<1>7. Chosen'
  <2> SUFFICES ASSUME NEW c \in children, found[c] # 0
               PROVE  \E i \in 1..9 : From(i, c)'
    BY <1>2 DEF Chosen
  <2> QED
    BY <1>1, <1>2, <1>3, FoundStays
<1>8. Written'
  BY <1>1, <1>2 DEF Written
<1> QED
  BY <1>1, <1>2, <1>4, <1>5, <1>6, <1>7, <1>8 DEF JoinInv

\* Beginning, rendering and stuttering leave the queries and what was found alone.
LEMMA RestInv ==
  ASSUME JoinInv, BeginJoin \/ Render \/ UNCHANGED joinVars
  PROVE  JoinInv'
<1>0. LastType = 9 /\ LastType + 1 = 10
  BY TypesAre
<1>1. UNCHANGED <<log, children, found, asked>>
  BY DEF BeginJoin, Render, joinVars
<1>2. /\ log \in Seq(Events) /\ q \in 0..10 /\ found \in [children -> 0..Len(log)]
      /\ asked \in [1..9 -> FailedQuery..Len(log)]
  BY JoinTypes
<1>3. \A i \in 1..9 : \A c : Visible(i, c)' = Visible(i, c) /\ (SawNothing(i, c)' <=> SawNothing(i, c))
  BY <1>1, <1>2, ShownStays
<1>4. \/ q' = q
      \/ q = 0 /\ (q' = 1 \/ (q' = 10 /\ children = {}))
  BY <1>0 DEF BeginJoin, Render, joinVars
<1>5. q' \in 0..10
  BY <1>2, <1>4
<1>6. JoinTypeOK'
  <2>1. /\ out' \in {"pending", "empty", "no results", "sections"} /\ DOMAIN text' = children
    BY DEF JoinInv, JoinTypeOK, BeginJoin, Render, joinVars
  <2>2. /\ \A k \in DOMAIN log : /\ log[k].type \in Committed /\ log[k].task \in Tasks
                                /\ log[k].data \in Data(log[k].type)
        /\ children \subseteq Tasks
    BY DEF JoinInv, JoinTypeOK
  <2>3. asked \in [1..LastType -> FailedQuery..Len(log)] /\ q' \in 0..(LastType + 1)
    BY <1>0, <1>2, <1>5
  <2> QED
    BY <1>1, <1>2, <2>1, <2>2, <2>3 DEF JoinTypeOK, Data
<1>7. Made'
  <2>1. \A i \in 1..9 : q' <= i => q <= i
    BY <1>2, <1>4, <1>5
  <2> QED
    BY <1>0, <1>1, <2>1 DEF JoinInv, Made
<1>8. Missed'
  <2> SUFFICES ASSUME NEW c \in children, found[c] = 0, NEW i \in 1..9, i < q'
               PROVE  SawNothing(i, c)'
    BY <1>0, <1>1 DEF Missed
  <2>1. i < q
    BY <1>4
  <2> QED
    BY <1>0, <1>3, <2>1 DEF JoinInv, Missed
<1>9. Chosen'
  <2> SUFFICES ASSUME NEW c \in children, found[c] # 0
               PROVE  \E i \in 1..9 : From(i, c)'
    BY <1>1 DEF Chosen
  <2>1. PICK i \in 1..9 : From(i, c)
    BY DEF JoinInv, Chosen
  <2>2. \A k \in 1..(i - 1) : k \in 1..9
    OBVIOUS
  <2>3. From(i, c)'
    BY <1>1, <1>3, <2>1, <2>2 DEF From
  <2> QED
    BY <2>3
<1>10. Written'
  <2>1. \A c : Section(c)' = Section(c)
    BY <1>1 DEF Section, Result, TaskResult, JobResult
  <2>2. CASE Render
    <3>1. out' = "sections" => text' = [c \in children |-> Section(c)]
      BY <2>2 DEF Render
    <3>2. q' = LastType + 1
      BY <2>2 DEF Render
    <3> QED
      BY <1>1, <2>1, <3>1, <3>2 DEF Written
  <2>3. CASE BeginJoin
    <3>1. out' # "sections"
      BY <1>0, <2>3 DEF BeginJoin, JoinInv, Written
    <3> QED
      BY <3>1 DEF Written
  <2>4. CASE UNCHANGED joinVars
    BY <1>1, <2>1, <2>4 DEF joinVars, JoinInv, Written
  <2> QED
    BY <2>2, <2>3, <2>4
<1> QED
  BY <1>1, <1>2, <1>6, <1>7, <1>8, <1>9, <1>10 DEF JoinInv

LEMMA JoinStepInv == JoinInv /\ [JoinNext]_joinVars => JoinInv'
BY CommitInv, QueryInv, QueryFailsInv, RestInv DEF JoinNext, Join

LEMMA JoinInvariant == JoinSpec => []JoinInv
BY JoinInitInv, JoinStepInv, PTL DEF JoinSpec

\* The results of a join stay within the log, one for each of its children and for
\* nobody else.
THEOREM JoinTypeCorrect == JoinSpec => []JoinTypeOK
<1>1. JoinInv => JoinTypeOK
  BY DEF JoinInv
<1> QED
  BY <1>1, JoinInvariant, PTL

\* A child's result is made from the newest event of the first type that showed any of
\* it, whatever fails and whatever is committed while the join asks.
THEOREM NewestOfFirst == JoinSpec => []FirstAndNewest
BY ChosenIsFirst, JoinInvariant, PTL

\* A child without a result was missed by every query of the nine.
THEOREM UnknownIsExplained == JoinSpec => []UnknownExplained
<1>1. JoinInv => UnknownExplained
  <2> SUFFICES ASSUME JoinInv, Told, NEW c \in children, found[c] = 0, NEW i \in 1..LastType
               PROVE  SawNothing(i, c)
    BY DEF UnknownExplained
  <2>1. i < q
    BY TypesAre DEF Told
  <2> QED
    BY <2>1 DEF JoinInv, Missed
<1> QED
  BY <1>1, JoinInvariant, PTL
================================================================================
