------------------------- MODULE StackLifecycleProofs -------------------------
(***************************************************************************)
(* What holds of StackLifecycle for any number of processes and shells.    *)
(*                                                                         *)
(* TypeOK and the lock discipline hold whatever happens.  NoOrphans and    *)
(* OneStack hold as long as operators are orderly: no `down' has run       *)
(* beside another command, none was interrupted, the host never restarted; *)
(* and of all processes but those an exception stranded, which no command  *)
(* can know of.                                                            *)
(***************************************************************************)
EXTENDS StackLifecycle, TLAPS

-----------------------------------------------------------------------------
(* Types and the lock. *)

Killing(c) == pc[c] \in {"kill", "kill_wait"}

\* A kill loop has something to kill and a statement to go on with.
KillOK == \A c \in Shells :
  IF Killing(c) THEN todo[c] # <<>> /\ ret[c] # "none"
  ELSE todo[c] = <<>> /\ ret[c] = "none"

\* The statements only `up' reaches.
UpLabels == {"up_read", "up_check", "up_clear", "start_pasloe", "wait_pasloe",
             "start_trenni", "wait_trenni", "failed", "write"}

\* Whoever is past acquire_lock, or has started a process, holds the lock.
LockOK == \A c \in Shells :
  pc[c] \in UpLabels \/ ret[c] \in {"up_clear", "failed"} \/ kids[c] # NoPids
    => lock = c

Safe == TypeOK /\ KillOK /\ LockOK

\* Nothing runs at first, so nothing holds the lock.
LEMMA InitSafe == Init => Safe
  BY StackAssumption DEF Init, Safe, TypeOK, KillOK, Killing, LockOK, UpLabels, PidPair, NoPids,
     Services, Labels, KillLists, Alive

\* The victim of the next kill_pid call is a process or none.
LEMMA VictimType ==
  ASSUME TypeOK, KillOK, NEW c \in Shells, Killing(c)
  PROVE  Victim(c) \in Pids \cup {NoPid}
<1>1. todo[c] \in KillLists \ {<<>>}
  BY DEF TypeOK, KillOK
<1>2. Head(todo[c]) \in Services
  BY <1>1 DEF KillLists, Services
<1>3. read[c] \in PidPair /\ kids[c] \in PidPair
  BY DEF TypeOK
<1> QED
  BY <1>2, <1>3 DEF Victim, PidPair

\* Leaving: every local of the shell is reset.
LEMMA ExitSafe ==
  ASSUME Safe, NEW c \in Shells, NEW r \in {"none", "ok", "fail", "raised"}, Exit(c, r),
         kind' \in [Pids -> Services \cup {"none", "foreign"}],
         st' \in [Pids -> Alive \cup {"unused", "dead"}],
         pidfile' \in PidPair, crashes' \in Nat, reboots' \in Nat, orderly' \in BOOLEAN,
         stranded' \subseteq Pids
  PROVE  Safe'
<1>1. NoPids \in PidPair
  BY DEF NoPids, PidPair
<1>2. TypeOK'
  BY <1>1 DEF Safe, TypeOK, Exit, Labels, KillLists
<1>3. KillOK'
  BY DEF Safe, KillOK, Killing, Exit, TypeOK
<1>4. LockOK'
  BY StackAssumption DEF Safe, LockOK, Exit, TypeOK, UpLabels
<1> QED
  BY <1>2, <1>3, <1>4 DEF Safe

\* A list of services to kill, or nothing: the locals of the shell stay in step.
LEMMA KillThenOK ==
  ASSUME TypeOK, KillOK, NEW c \in Shells, NEW services \in KillLists,
         NEW label \in {"up_clear", "failed", "down_pasloe", "down_clear"},
         ~Killing(c), KillThen(c, services, label)
  PROVE  /\ pc' \in [Shells -> Labels] /\ todo' \in [Shells -> KillLists]
         /\ ret' \in [Shells -> {"none", "up_clear", "failed", "down_pasloe", "down_clear"}]
         /\ KillOK'
         /\ \A d \in Shells \ {c} : pc'[d] = pc[d] /\ ret'[d] = ret[d]
         /\ pc'[c] \in {label, "kill"} /\ ret'[c] \in {label, "none"}
  BY DEF KillThen, Goto, TypeOK, KillOK, Killing, Labels

\* The kill lists, taken apart.
LEMMA KillListTail ==
  ASSUME NEW l \in KillLists, l # <<>>
  PROVE  /\ Tail(l) \in KillLists
         /\ Len(l) > 1 => l = <<"trenni", "pasloe">> /\ Tail(l) = <<"pasloe">> /\ Tail(l) # <<>>
         /\ ~(Len(l) > 1) => Tail(l) = <<>>
<1>1. CASE l = <<"pasloe">>
  BY <1>1 DEF KillLists
<1>2. CASE l = <<"trenni">>
  BY <1>2 DEF KillLists
<1>3. CASE l = <<"trenni", "pasloe">>
  BY <1>3 DEF KillLists
<1> QED
  BY <1>1, <1>2, <1>3 DEF KillLists

\* kill_pid returned: one service less, or the statement after the calls.
LEMMA KillReturnsOK ==
  ASSUME TypeOK, KillOK, NEW c \in Shells, Killing(c), KillReturns(c)
  PROVE  /\ pc' \in [Shells -> Labels] /\ todo' \in [Shells -> KillLists]
         /\ ret' \in [Shells -> {"none", "up_clear", "failed", "down_pasloe", "down_clear"}]
         /\ KillOK'
         /\ \A d \in Shells \ {c} : pc'[d] = pc[d] /\ ret'[d] = ret[d]
         /\ pc'[c] \in {ret[c], "kill"} /\ ret'[c] \in {ret[c], "none"}
<1>1. todo[c] \in KillLists \ {<<>>} /\ ret[c] \in {"up_clear", "failed", "down_pasloe", "down_clear"}
  BY DEF TypeOK, KillOK
<1>2. /\ Tail(todo[c]) \in KillLists
      /\ Len(todo[c]) > 1 => Tail(todo[c]) # <<>>
      /\ ~(Len(todo[c]) > 1) => Tail(todo[c]) = <<>>
  BY <1>1, KillListTail
<1> QED
  BY <1>1, <1>2 DEF KillReturns, Goto, TypeOK, KillOK, Killing, Labels

\* Beginning a command.
LEMMA BeginSafe ==
  ASSUME Safe, NEW c \in Shells, NEW command \in {"up", "down"},
         NEW label \in {"up_read", "down_read"}, Begin(c, command, label),
         label = "up_read" => lock' = c /\ lock = Nobody,
         label = "down_read" => lock' = lock, orderly' \in BOOLEAN
  PROVE  Safe'
<1>1. TypeOK'
  BY DEF Safe, TypeOK, Begin, Labels
<1>2. KillOK'
  BY DEF Safe, KillOK, Killing, Begin, TypeOK
<1>3. LockOK'
  BY StackAssumption DEF Safe, LockOK, KillOK, Killing, Begin, TypeOK, UpLabels
<1> QED
  BY <1>1, <1>2, <1>3 DEF Safe

\* The list of Survivor(c) is one `up' may kill.
LEMMA SurvivorsType ==
  ASSUME NEW c \in Shells
  PROVE  IfAlive(c, "pasloe") \in KillLists /\ Survivor(c) \in KillLists
  BY DEF IfAlive, Survivor, KillLists

\* Every step of a command keeps the invariant.
LEMMA StepSafe ==
  ASSUME Safe, NEW c \in Shells, Step(c)
  PROVE  Safe'
<1> USE DEF Safe
<1>0. NoPids \in PidPair
  BY DEF NoPids, PidPair
<1>1. CASE UpRead(c)
  BY <1>1 DEF UpRead, Goto, TypeOK, KillOK, Killing, LockOK, UpLabels, Labels
<1>2. CASE UpCheck(c)
  <2>1. CASE Exit(c, "ok")
    BY <1>2, <2>1, ExitSafe DEF UpCheck, TypeOK
  <2>2. CASE KillThen(c, Survivor(c), "up_clear") /\ UNCHANGED <<lock, cmd, read, kids, out>>
    <3>1. Survivor(c) \in KillLists
      BY SurvivorsType
    <3>2. ~Killing(c) /\ lock = c
      BY <1>2 DEF UpCheck, Killing, LockOK, UpLabels
    <3> QED
      BY <1>2, <2>2, <3>1, <3>2, KillThenOK DEF UpCheck, TypeOK, LockOK, UpLabels
  <2> QED
    BY <1>2, <2>1, <2>2 DEF UpCheck
<1>3. CASE UpClear(c)
  BY <1>3, <1>0 DEF UpClear, Goto, TypeOK, KillOK, Killing, LockOK, UpLabels, Labels
<1>4. CASE StartPasloe(c)
  <2>1. CASE Exit(c, "fail") /\ UNCHANGED procVars
    BY <1>4, <2>1, ExitSafe DEF StartPasloe, TypeOK, procVars
  <2>2. CASE /\ Start(c, "pasloe", "wait_pasloe")
             /\ UNCHANGED <<lock, cmd, read, todo, ret, out>>
    BY <1>4, <2>2 DEF StartPasloe, Start, Goto, TypeOK, KillOK, Killing, LockOK, UpLabels,
       Labels, Services, Alive, PidPair
  <2> QED
    BY <1>4, <2>1, <2>2 DEF StartPasloe
<1>5. CASE WaitPasloe(c)
  <2>1. ~Killing(c) /\ lock = c /\ <<"pasloe">> \in KillLists
    BY <1>5 DEF WaitPasloe, Killing, LockOK, UpLabels, KillLists
  <2>2. CASE KillThen(c, <<"pasloe">>, "failed")
    BY <1>5, <2>1, <2>2, KillThenOK DEF WaitPasloe, WaitReady, TypeOK, LockOK, UpLabels
  <2>3. CASE Goto(c, "start_trenni") /\ UNCHANGED <<todo, ret>>
    BY <1>5, <2>3 DEF WaitPasloe, WaitReady, Goto, TypeOK, KillOK, Killing, LockOK, UpLabels, Labels
  <2> QED
    BY <1>5, <2>2, <2>3 DEF WaitPasloe, WaitReady
<1>6. CASE StartTrenni(c)
  <2>1. ~Killing(c) /\ lock = c /\ <<"pasloe">> \in KillLists
    BY <1>6 DEF StartTrenni, Killing, LockOK, UpLabels, KillLists
  <2>2. CASE KillThen(c, <<"pasloe">>, "failed") /\ UNCHANGED <<kind, st, kids>>
    BY <1>6, <2>1, <2>2, KillThenOK DEF StartTrenni, TypeOK, LockOK, UpLabels
  <2>3. CASE Start(c, "trenni", "wait_trenni") /\ UNCHANGED <<todo, ret>>
    BY <1>6, <2>3 DEF StartTrenni, Start, Goto, TypeOK, KillOK, Killing, LockOK, UpLabels,
       Labels, Services, Alive, PidPair
  <2> QED
    BY <1>6, <2>2, <2>3 DEF StartTrenni
<1>7. CASE WaitTrenni(c)
  <2>1. ~Killing(c) /\ lock = c /\ <<"trenni", "pasloe">> \in KillLists
    BY <1>7 DEF WaitTrenni, Killing, LockOK, UpLabels, KillLists
  <2>2. CASE KillThen(c, <<"trenni", "pasloe">>, "failed")
    BY <1>7, <2>1, <2>2, KillThenOK DEF WaitTrenni, WaitReady, TypeOK, LockOK, UpLabels
  <2>3. CASE Goto(c, "write") /\ UNCHANGED <<todo, ret>>
    BY <1>7, <2>3 DEF WaitTrenni, WaitReady, Goto, TypeOK, KillOK, Killing, LockOK, UpLabels, Labels
  <2> QED
    BY <1>7, <2>2, <2>3 DEF WaitTrenni, WaitReady
<1>8. CASE UpFailed(c)
  BY <1>8, ExitSafe DEF UpFailed, TypeOK
<1>9. CASE WritePids(c)
  <2>1. pidfile' \in PidPair
    BY <1>9 DEF WritePids, TypeOK
  <2> QED
    BY <1>9, <2>1, ExitSafe DEF WritePids, TypeOK
<1>18. CASE UpRaises(c) \/ WritePidsFails(c)
  <2>1. Raise(c)
    BY <1>18 DEF UpRaises, WritePidsFails
  <2>2. crashes' \in Nat /\ stranded' \subseteq Pids
    BY <2>1 DEF Raise, TypeOK
  <2> QED
    BY <2>1, <2>2, ExitSafe DEF Raise, TypeOK
<1>10. CASE DownRead(c)
  <2>1. CASE Exit(c, "ok")
    BY <1>10, <2>1, ExitSafe DEF DownRead, TypeOK
  <2>2. CASE /\ read' = [read EXCEPT ![c] = pidfile]
             /\ Goto(c, "down_check")
             /\ UNCHANGED <<lock, cmd, kids, todo, ret, out>>
    BY <1>10, <2>2 DEF DownRead, Goto, TypeOK, KillOK, Killing, LockOK, UpLabels, Labels
  <2> QED
    BY <1>10, <2>1, <2>2 DEF DownRead
<1>11. CASE DownCheck(c)
  BY <1>11 DEF DownCheck, Goto, TypeOK, KillOK, Killing, LockOK, UpLabels, Labels
<1>12. CASE DownStop(c)
  BY <1>12 DEF DownStop, Goto, TypeOK, KillOK, Killing, LockOK, UpLabels, Labels, Alive
<1>13. CASE DownPoll(c)
  <2>1. ~Killing(c) /\ <<"trenni">> \in KillLists
    BY <1>13 DEF DownPoll, Killing, KillLists
  <2>2. CASE KillThen(c, <<"trenni">>, "down_pasloe")
    BY <1>13, <2>1, <2>2, KillThenOK DEF DownPoll, TypeOK, LockOK, UpLabels
  <2>3. CASE Goto(c, "down_pasloe") /\ UNCHANGED <<todo, ret>>
    BY <1>13, <2>3 DEF DownPoll, Goto, TypeOK, KillOK, Killing, LockOK, UpLabels, Labels
  <2> QED
    BY <1>13, <2>2, <2>3 DEF DownPoll
<1>14. CASE DownPasloe(c)
  <2>1. ~Killing(c) /\ IfAlive(c, "pasloe") \in KillLists
    BY <1>14, SurvivorsType DEF DownPasloe, Killing
  <2> QED
    BY <1>14, <2>1, KillThenOK DEF DownPasloe, TypeOK, LockOK, UpLabels
<1>15. CASE DownClear(c)
  BY <1>15, <1>0, ExitSafe DEF DownClear, TypeOK
<1>16. CASE KillTerm(c)
  <2>1. Killing(c)
    BY <1>16 DEF KillTerm, Killing
  <2>2. CASE KillReturns(c) /\ UNCHANGED <<st, lock, cmd, read, kids, out>>
    BY <1>16, <2>1, <2>2, KillReturnsOK DEF KillTerm, TypeOK, LockOK, UpLabels, KillOK
  <2>3. CASE /\ st' = [st EXCEPT ![Victim(c)] = "stopping"]
             /\ Goto(c, "kill_wait")
             /\ UNCHANGED <<lock, cmd, read, kids, todo, ret, out>>
    BY <1>16, <2>1, <2>3 DEF KillTerm, Goto, TypeOK, KillOK, Killing, LockOK, UpLabels, Labels, Alive
  <2>4. CASE Exit(c, "fail") /\ UNCHANGED st
    BY <1>16, <2>4, ExitSafe DEF KillTerm, TypeOK
  <2> QED
    BY <1>16, <2>2, <2>3, <2>4 DEF KillTerm
<1>17. CASE KillWait(c)
  <2>1. Killing(c)
    BY <1>17 DEF KillWait, Killing
  <2>2. KillReturns(c) /\ UNCHANGED <<kind, pidfile, lock, cmd, read, kids, out, crashes, reboots, orderly, stranded>>
    BY <1>17 DEF KillWait
  <2>3. st' \in [Pids -> Alive \cup {"unused", "dead"}]
    BY <1>17 DEF KillWait, TypeOK
  <2>4. TypeOK' /\ KillOK'
    BY <2>1, <2>2, <2>3, KillReturnsOK DEF TypeOK
  <2>5. LockOK'
    BY <2>1, <2>2, KillReturnsOK DEF LockOK, UpLabels, KillOK, TypeOK
  <2> QED
    BY <2>4, <2>5
<1> QED
  BY <1>1, <1>2, <1>3, <1>4, <1>5, <1>6, <1>7, <1>8, <1>9, <1>10, <1>11, <1>12, <1>13,
     <1>14, <1>15, <1>16, <1>17, <1>18 DEF Step

\* Safe is inductive: commands, services and the host all keep it.
LEMMA NextSafe == Safe /\ [Next]_vars => Safe'
<1> SUFFICES ASSUME Safe, [Next]_vars PROVE Safe'
  OBVIOUS
<1>1. ASSUME NEW c \in Shells, UpAcquire(c) PROVE Safe'
  <2>1. orderly' \in BOOLEAN
    BY <1>1 DEF UpAcquire
  <2> QED
    BY <1>1, <2>1, BeginSafe DEF UpAcquire
<1>2. ASSUME NEW c \in Shells, UpRefused(c) PROVE Safe'
  BY <1>2 DEF UpRefused, Safe, TypeOK, KillOK, Killing, LockOK, UpLabels
<1>3. ASSUME NEW c \in Shells, Down(c) PROVE Safe'
  <2>1. orderly' \in BOOLEAN
    BY <1>3 DEF Down
  <2> QED
    BY <1>3, <2>1, BeginSafe DEF Down
<1>4. ASSUME NEW c \in Shells, Step(c) PROVE Safe'
  BY <1>4, StepSafe
<1>5. ASSUME NEW c \in Shells, Interrupt(c) PROVE Safe'
  <2>1. crashes' \in Nat
    BY <1>5 DEF Interrupt, Safe, TypeOK
  <2> QED
    BY <1>5, <2>1, ExitSafe DEF Interrupt, Safe, TypeOK
<1>6. ASSUME NEW p \in Pids, Bind(p) \/ Die(p) PROVE Safe'
  BY <1>6 DEF Bind, Die, Safe, TypeOK, KillOK, Killing, LockOK, UpLabels, Alive
<1>7. CASE Reboot
  <2>1. NoPids \in PidPair
    BY DEF NoPids, PidPair
  <2>2. TypeOK'
    <3>0. orderly' = FALSE /\ reboots' = reboots + 1 /\ reboots \in Nat
      BY <1>7 DEF Reboot, Safe, TypeOK
    <3>1. reboots' \in Nat
      BY <3>0
    <3>4. orderly' \in BOOLEAN
      BY <3>0, Zenon
    <3>2. st' \in [Pids -> Alive \cup {"unused", "dead"}]
      BY <1>7 DEF Reboot, Alive
    <3>3. kind' \in [Pids -> Services \cup {"none", "foreign"}]
      <4>1. kind \in [Pids -> Services \cup {"none", "foreign"}]
        BY DEF Safe, TypeOK
      <4>2. PICK taken \in SUBSET Pids : kind' = [p \in Pids |-> IF p \in taken THEN "foreign" ELSE kind[p]]
        BY <1>7 DEF Reboot
      <4> QED
        BY <4>1, <4>2
    <3> QED
      BY <1>7, <2>1, <3>1, <3>2, <3>3, <3>4 DEF Reboot, Safe, TypeOK, Labels, KillLists
  <2>3. KillOK' /\ LockOK'
    BY <1>7 DEF Reboot, KillOK, Killing, LockOK, UpLabels
  <2> QED
    BY <2>2, <2>3 DEF Safe
<1>8. CASE UNCHANGED vars
  BY <1>8 DEF vars, Safe, TypeOK, KillOK, Killing, LockOK, UpLabels
<1> QED
  BY <1>1, <1>2, <1>3, <1>4, <1>5, <1>6, <1>7, <1>8 DEF Next

\* Every variable keeps its type, whatever the operators and the host do.
THEOREM TypeCorrect == Spec => []TypeOK
<1>1. Safe => TypeOK
  BY DEF Safe
<1> QED
  BY <1>1, InitSafe, NextSafe, PTL DEF Spec

\* The lock holds: two `up's never have started processes in hand at once, with
\* any number of shells, racing `down's, interrupts and reboots.
THEOREM LockExcludes == Spec => []OneStarter
<1>1. Safe => OneStarter
  BY DEF Safe, LockOK, OneStarter
<1> QED
  BY <1>1, InitSafe, NextSafe, PTL DEF Spec

-----------------------------------------------------------------------------
(* No orphans, under orderly operators. *)

\* p was started as service s.
Started(p, s) == st[p] # "unused" /\ kind[p] = s

\* From the first Popen to write_pids, or to the end of the cleanup.
Starting(c) ==
  \/ pc[c] \in {"start_pasloe", "wait_pasloe", "start_trenni", "wait_trenni", "write", "failed"}
  \/ ret[c] = "failed"

\* Between reading the file and clearing it.
FromFile(c) ==
  \/ pc[c] \in {"up_check", "up_clear", "down_check", "down_stop", "down_poll",
               "down_pasloe", "down_clear"}
  \/ ret[c] \in {"up_clear", "down_pasloe", "down_clear"}

Target(c) == IF ret[c] = "failed" THEN kids[c] ELSE read[c]

ToKill(c, s) == \E i \in DOMAIN todo[c] : todo[c][i] = s

\* Only one command runs, and an `up' holds the lock.
Serial ==
  /\ \A c, d \in Shells : pc[c] # "idle" /\ pc[d] # "idle" => c = d
  /\ \A c \in Shells : pc[c] # "idle" => cmd[c] = "down" \/ (cmd[c] = "up" /\ lock = c)

\* The file and the locals name what was started.
Names ==
  /\ reboots = 0
  /\ \A p \in Pids : st[p] # "unused" => kind[p] \in Services
  /\ \A s \in Services : pidfile[s] \in Pids => Started(pidfile[s], s)
  /\ \A c \in Shells, s \in Services : kids[c][s] \in Pids => Started(kids[c][s], s)

\* Every live service is on record or in hand, under its own name, or lost to an exception.
Covered ==
  \A p \in Pids : Running(p) =>
    \/ pidfile[kind[p]] = p
    \/ \E c \in Shells : kids[c][kind[p]] = p
    \/ p \in stranded

\* What a command knows at each of its statements.
Phase(c) ==
  /\ Starting(c) => pidfile = NoPids
  /\ ~Starting(c) => kids[c] = NoPids
  /\ pc[c] = "start_pasloe" => kids[c] = NoPids
  /\ pc[c] \in {"wait_pasloe", "start_trenni"} => kids[c]["trenni"] = NoPid
  /\ pc[c] = "failed" => \A s \in Services : ~is_alive(kids[c][s])
  /\ FromFile(c) => read[c] = pidfile
  /\ pc[c] \in {"up_clear", "down_clear"} => \A s \in Services : ~is_alive(read[c][s])
  /\ pc[c] = "down_pasloe" => ~is_alive(read[c]["trenni"])
  /\ Killing(c) => \A s \in Services :
       is_alive(Target(c)[s]) => ToKill(c, s) \/ (ret[c] = "down_pasloe" /\ s = "pasloe")

Quiet == Safe /\ Serial /\ Names /\ Covered /\ \A c \in Shells : Phase(c)

\* A fresh checkout: no process, no record.
LEMMA InitQuiet == Init => Quiet
  BY InitSafe, StackAssumption DEF Init, Quiet, Serial, Names, Covered, Phase, Started, Starting, FromFile,
     Killing, NoPids, Services, Alive, Running

\* While shell c runs a command, every other shell is idle and empty-handed.
LEMMA OthersIdle ==
  ASSUME Quiet, NEW c \in Shells, pc[c] # "idle", NEW d \in Shells, d # c
  PROVE  pc[d] = "idle" /\ ret[d] = "none" /\ todo[d] = <<>> /\ kids[d] = NoPids
<1>1. pc[d] = "idle"
  BY DEF Quiet, Serial
<1>2. ret[d] = "none" /\ todo[d] = <<>>
  BY <1>1 DEF Quiet, Safe, KillOK, Killing
<1> QED
  BY <1>1, <1>2 DEF Quiet, Phase, Starting

\* An idle, empty-handed shell knows nothing.
LEMMA IdlePhase ==
  ASSUME NEW d \in Shells, pc'[d] = "idle", ret'[d] = "none", kids'[d] = NoPids
  PROVE  Phase(d)'
  BY DEF Phase, Starting, FromFile, Killing

\* A step of a single shell: what is left to show is about that shell.
LEMMA OneShell ==
  ASSUME Quiet, Safe', NEW c \in Shells, pc[c] # "idle",
         \A d \in Shells \ {c} : pc'[d] = pc[d] /\ ret'[d] = ret[d] /\ kids'[d] = kids[d],
         Names', Covered', Phase(c)',
         pc'[c] # "idle" => cmd'[c] = cmd[c] /\ lock' = lock
  PROVE  Quiet'
<1>1. \A d \in Shells \ {c} : pc'[d] = "idle" /\ ret'[d] = "none" /\ kids'[d] = NoPids
  BY OthersIdle
<1>2. Serial'
  BY <1>1 DEF Quiet, Serial
<1>3. \A d \in Shells : Phase(d)'
  BY <1>1, IdlePhase
<1> QED
  BY <1>2, <1>3 DEF Quiet

\* Leaving with nothing live in hand, with it stranded, or with the file naming it.
LEMMA ExitQuiet ==
  ASSUME Quiet, Safe', NEW c \in Shells, pc[c] # "idle", NEW r, Exit(c, r),
         UNCHANGED <<kind, st, reboots>>, stranded \subseteq stranded',
         \/ pidfile' = pidfile /\ \A s \in Services : is_alive(kids[c][s]) => kids[c][s] \in stranded'
         \/ pidfile' = kids[c] /\ pidfile = NoPids
         \/ pidfile' = NoPids /\ kids[c] = NoPids /\ \A s \in Services : ~is_alive(pidfile[s])
  PROVE  Quiet'
<1>1. \A d \in Shells \ {c} : kids[d] = NoPids
  BY OthersIdle
<1>2. /\ pc' = [pc EXCEPT ![c] = "idle"] /\ kids' = [kids EXCEPT ![c] = NoPids]
      /\ ret' = [ret EXCEPT ![c] = "none"]
  BY DEF Exit
<1>3. pc'[c] = "idle" /\ kids'[c] = NoPids /\ ret'[c] = "none"
  BY <1>2 DEF Quiet, Safe, TypeOK
<1>4. Names'
  BY <1>2, StackAssumption DEF Quiet, Names, Started, NoPids, Services, Safe, TypeOK, PidPair
<1>5. Covered'
  BY <1>1, <1>2, StackAssumption DEF Quiet, Covered, Names, Running, is_alive, NoPids, Services, Safe, TypeOK, PidPair
<1>6. Phase(c)'
  BY <1>3, IdlePhase
<1>7. \A d \in Shells \ {c} : pc'[d] = pc[d] /\ ret'[d] = ret[d] /\ kids'[d] = kids[d]
  BY <1>2 DEF Quiet, Safe, TypeOK
<1> QED
  BY <1>3, <1>4, <1>5, <1>6, <1>7, OneShell

\* Statements that move one shell on, and touch neither processes nor the file.
LEMMA MoveQuiet ==
  ASSUME Quiet, Safe', NEW c \in Shells, pc[c] # "idle",
         \A d \in Shells \ {c} : pc'[d] = pc[d] /\ ret'[d] = ret[d],
         UNCHANGED <<kind, st, pidfile, kids, cmd, lock, reboots, stranded>>,
         Phase(c)'
  PROVE  Quiet'
<1>1. Names' /\ Covered'
  BY DEF Quiet, Names, Started, Covered, Running
<1> QED
  BY <1>1, OneShell

\* A kill loop begins: Phase speaks of the whole list.
LEMMA KillThenQuiet ==
  ASSUME Quiet, Safe', NEW c \in Shells, pc[c] # "idle", ~Killing(c), NEW services \in KillLists,
         NEW label \in {"up_clear", "failed", "down_pasloe", "down_clear"},
         KillThen(c, services, label),
         UNCHANGED <<kind, st, pidfile, read, kids, cmd, lock, reboots, stranded>>,
         label = "failed" <=> Starting(c),
         label # "failed" => FromFile(c),
         \A s \in Services :
           is_alive((IF label = "failed" THEN kids[c] ELSE read[c])[s]) =>
             \/ \E i \in DOMAIN services : services[i] = s
             \/ label = "down_pasloe" /\ s = "pasloe"
  PROVE  Quiet'
<1>1. \A d \in Shells \ {c} : pc'[d] = pc[d] /\ ret'[d] = ret[d]
  BY KillThenOK DEF Quiet, Safe
<1>2. CASE services = <<>>
  <2>1. pc'[c] = label /\ ret'[c] = "none" /\ DOMAIN services = {}
    BY <1>2 DEF KillThen, Goto, Quiet, Safe, TypeOK, KillOK
  <2>2. Phase(c)'
    BY <2>1 DEF Phase, Quiet, Starting, FromFile, Killing, is_alive, Services
  <2> QED
    BY <1>1, <2>2, MoveQuiet
<1>3. CASE services # <<>>
  <2>1. pc'[c] = "kill" /\ ret'[c] = label /\ todo'[c] = services
    BY <1>3 DEF KillThen, Goto, Quiet, Safe, TypeOK
  <2>2. Phase(c)'
    BY <2>1 DEF Phase, Quiet, Starting, FromFile, Killing, is_alive, Target, ToKill
  <2> QED
    BY <1>1, <2>2, MoveQuiet
<1> QED
  BY <1>2, <1>3

\* kill_pid returned and its process is dead: the rest of the list is what is left.
LEMMA KillReturnsQuiet ==
  ASSUME Quiet, Safe', NEW c \in Shells, Killing(c), KillReturns(c),
         UNCHANGED <<kind, pidfile, read, kids, cmd, lock, reboots, stranded>>,
         \A p \in Pids : st'[p] = st[p] \/ (st[p] # "unused" /\ st'[p] = "dead"),
         Victim(c) \in Pids => st'[Victim(c)] \notin Alive
  PROVE  Quiet'
<1>1. /\ \A d \in Shells \ {c} : pc'[d] = pc[d] /\ ret'[d] = ret[d]
      /\ pc[c] # "idle" /\ kids' = kids
  BY KillReturnsOK DEF Quiet, Safe, Killing
<1>2. Names' /\ Covered'
  BY DEF Quiet, Names, Started, Covered, Running, Alive
<1>3. todo[c] \in KillLists \ {<<>>} /\ ret[c] \in {"up_clear", "failed", "down_pasloe", "down_clear"}
  BY DEF Quiet, Safe, TypeOK, KillOK
<1>4. \A s \in Services : Target(c)[s] \in Pids /\ st'[Target(c)[s]] \in Alive =>
        is_alive(Target(c)[s]) /\ s # Head(todo[c])
  BY DEF is_alive, Alive, Target, Victim
<1>5. CASE Len(todo[c]) > 1
  <2>1. /\ pc'[c] = "kill" /\ ret'[c] = ret[c] /\ todo'[c] = Tail(todo[c])
        /\ Target(c)' = Target(c)
    BY <1>5 DEF KillReturns, Goto, Quiet, Safe, TypeOK, Target
  <2>2. todo[c] = <<"trenni", "pasloe">> /\ todo'[c] = <<"pasloe">>
    BY <1>3, <1>5, <2>1, KillListTail
  <2>3. ToKill(c, "pasloe")'
    BY <2>2 DEF ToKill
  <2>4. \A s \in Services : is_alive(Target(c)[s])' => s = "pasloe"
    BY <1>4, <2>1, <2>2 DEF Services, is_alive
  <2>5. Phase(c)'
    BY <1>1, <1>3, <2>1, <2>3, <2>4 DEF Phase, Quiet, Starting, FromFile, Killing
  <2> QED
    BY <1>1, <1>2, <2>5, OneShell
<1>6. CASE ~(Len(todo[c]) > 1)
  <2>1. pc'[c] = ret[c] /\ ret'[c] = "none"
    BY <1>6 DEF KillReturns, Goto, Quiet, Safe, TypeOK
  <2>2. \A s \in Services : ToKill(c, s) => s = Head(todo[c])
    BY <1>3, <1>6 DEF KillLists, ToKill
  <2>3. Phase(c)'
    BY <1>1, <1>3, <1>4, <2>1, <2>2 DEF Phase, Quiet, Starting, FromFile, Killing, Services, Target, is_alive
  <2> QED
    BY <1>1, <1>2, <2>3, OneShell
<1> QED
  BY <1>5, <1>6


\* Every step of a command keeps the invariant.
LEMMA StepQuiet ==
  ASSUME Quiet, NEW c \in Shells, Step(c)
  PROVE  Quiet'
<1>0. /\ Safe' /\ TypeOK /\ pc[c] # "idle" /\ Phase(c)
      /\ ~Killing(c) => ret[c] = "none" /\ todo[c] = <<>>
  BY StepSafe DEF Quiet, Safe, KillOK, Step, UpRead, UpCheck, UpClear, StartPasloe, WaitPasloe,
     StartTrenni, WaitTrenni, UpFailed, UpRaises, WritePidsFails, Raise, WritePids, DownRead, DownCheck, DownStop, DownPoll,
     DownPasloe, DownClear, KillTerm, KillWait
<1> USE <1>0
<1>1. CASE UpRead(c)
  <2>1. Phase(c)'
    BY <1>1 DEF UpRead, Goto, Phase, Starting, FromFile, Killing, TypeOK
  <2>2. \A d \in Shells \ {c} : pc'[d] = pc[d] /\ ret'[d] = ret[d]
    BY <1>1 DEF UpRead, Goto, TypeOK
  <2> QED
    BY <1>1, <2>1, <2>2, MoveQuiet DEF UpRead
<1>2. CASE UpCheck(c)
  <2>1. ~Killing(c) /\ ~Starting(c) /\ FromFile(c)
    BY <1>2 DEF UpCheck, Killing, Starting, FromFile
  <2>2. CASE Exit(c, "ok")
    <3>1. \A s \in Services : ~is_alive(kids[c][s])
      BY <2>1, StackAssumption DEF Phase, is_alive, NoPids
    <3> QED
      BY <1>2, <2>2, <3>1, ExitQuiet DEF UpCheck
  <2>3. CASE /\ ~\A s \in Services : is_alive(read[c][s])
             /\ KillThen(c, Survivor(c), "up_clear")
             /\ UNCHANGED <<lock, cmd, read, kids, out>>
    <3>1. \A s \in Services : is_alive(read[c][s]) => Survivor(c) = <<s>>
      BY <2>3 DEF Survivor, IfAlive, Services
    <3>2. ASSUME NEW s \in Services, is_alive(read[c][s])
          PROVE  \E i \in DOMAIN Survivor(c) : Survivor(c)[i] = s
      <4>1. Survivor(c) = <<s>>
        BY <3>1, <3>2
      <4>2. 1 \in DOMAIN <<s>> /\ <<s>>[1] = s
        OBVIOUS
      <4> QED
        BY <4>1, <4>2
    <3> QED
      BY <1>2, <2>1, <2>3, <3>2, SurvivorsType, KillThenQuiet DEF UpCheck
  <2> QED
    BY <1>2, <2>2, <2>3 DEF UpCheck
<1>3. CASE UpClear(c)
  <2>1. \A s \in Services : ~is_alive(pidfile[s])
    BY <1>3 DEF UpClear, Phase, FromFile
  <2>2. kids[c] = NoPids /\ kids' = kids
    BY <1>3 DEF UpClear, Phase, Starting, Killing
  <2>3. Names' /\ Covered'
    BY <1>3, <2>1, StackAssumption DEF UpClear, Quiet, Names, Started, Covered, Running, is_alive, NoPids
  <2>4. Phase(c)'
    BY <1>3, <2>2 DEF UpClear, Goto, Phase, Starting, FromFile, Killing, TypeOK
  <2>5. \A d \in Shells \ {c} : pc'[d] = pc[d] /\ ret'[d] = ret[d]
    BY <1>3 DEF UpClear, Goto, TypeOK
  <2> QED
    BY <1>3, <2>2, <2>3, <2>4, <2>5, OneShell DEF UpClear
<1>4. CASE StartPasloe(c)
  <2>1. kids[c] = NoPids /\ pidfile = NoPids
    BY <1>4 DEF StartPasloe, Phase, Starting
  <2>2. CASE Exit(c, "fail") /\ UNCHANGED procVars
    <3>1. \A s \in Services : ~is_alive(kids[c][s])
      BY <2>1, StackAssumption DEF is_alive, NoPids
    <3> QED
      BY <1>4, <2>2, <3>1, ExitQuiet DEF StartPasloe, procVars
  <2>3. CASE /\ Start(c, "pasloe", "wait_pasloe")
             /\ UNCHANGED <<lock, cmd, read, todo, ret, out>>
    <3>1. PICK p \in Pids : st[p] = "unused" /\ kind' = [kind EXCEPT ![p] = "pasloe"]
            /\ st' = [st EXCEPT ![p] = "booting"] /\ kids' = [kids EXCEPT ![c]["pasloe"] = p]
      BY <2>3 DEF Start
    <3>2. Names' /\ Covered'
      <4>1. /\ UNCHANGED <<pidfile, reboots, stranded>> /\ pidfile = NoPids
            /\ kind'[p] = "pasloe" /\ st'[p] = "booting" /\ kids'[c]["pasloe"] = p
            /\ \A q \in Pids \ {p} : kind'[q] = kind[q] /\ st'[q] = st[q]
            /\ \A d \in Shells, s \in Services : d # c \/ s # "pasloe" => kids'[d][s] = kids[d][s]
            /\ kids[c]["pasloe"] = NoPid
        BY <1>4, <2>1, <2>3, <3>1 DEF StartPasloe, TypeOK, PidPair, Services, NoPids
      <4>2. Names'
        BY <3>1, <4>1, StackAssumption DEF Quiet, Names, Started, NoPids, Services
      <4>3. ASSUME NEW q \in Pids, Running(q)'
            PROVE  pidfile'[kind'[q]] = q \/ (\E d \in Shells : kids'[d][kind'[q]] = q) \/ q \in stranded'
        <5>1. CASE q = p
          BY <4>1, <5>1
        <5>2. CASE q # p
          <6>1. Running(q) /\ kind'[q] = kind[q] /\ pidfile[kind[q]] # q
            BY <4>1, <4>3, <5>2, StackAssumption DEF Running, NoPids
          <6>2. CASE \E d \in Shells : kids[d][kind[q]] = q
            <7>1. PICK d \in Shells : kids[d][kind[q]] = q
              BY <6>2
            <7> QED
              BY <4>1, <6>1, <7>1, StackAssumption DEF Running
          <6>3. CASE q \in stranded
            BY <4>1, <6>3
          <6> QED
            BY <6>1, <6>2, <6>3 DEF Quiet, Covered
        <5> QED
          BY <5>1, <5>2
      <4> QED
        BY <4>2, <4>3 DEF Covered
    <3>3. pc'[c] = "wait_pasloe" /\ \A d \in Shells \ {c} : pc'[d] = pc[d] /\ kids'[d] = kids[d]
      BY <2>3, <3>1 DEF Start, Goto, TypeOK
    <3>4. Phase(c)'
      BY <1>4, <2>1, <2>3, <3>1, <3>3 DEF StartPasloe, Phase, Starting, FromFile, Killing, TypeOK, PidPair,
         Services, NoPids
    <3> QED
      BY <1>4, <2>3, <3>2, <3>3, <3>4, OneShell DEF StartPasloe
  <2> QED
    BY <1>4, <2>2, <2>3 DEF StartPasloe
<1>5. CASE WaitPasloe(c)
  <2>1. ~Killing(c) /\ Starting(c) /\ <<"pasloe">> \in KillLists /\ kids[c]["trenni"] = NoPid
    BY <1>5 DEF WaitPasloe, Killing, Starting, KillLists, Phase
  <2>2. CASE Goto(c, "start_trenni") /\ UNCHANGED <<todo, ret>>
    <3>1. Phase(c)' /\ \A d \in Shells \ {c} : pc'[d] = pc[d] /\ ret'[d] = ret[d]
      BY <1>5, <2>1, <2>2 DEF WaitPasloe, WaitReady, Goto, Phase, Starting, FromFile, Killing, TypeOK
    <3> QED
      BY <1>5, <2>2, <3>1, MoveQuiet DEF WaitPasloe, WaitReady
  <2>3. CASE KillThen(c, <<"pasloe">>, "failed")
    <3>1. \A s \in Services : is_alive(kids[c][s]) => \E i \in DOMAIN <<"pasloe">> : <<"pasloe">>[i] = s
      BY <2>1, StackAssumption DEF Services, is_alive
    <3> QED
      BY <1>5, <2>1, <2>3, <3>1, KillThenQuiet DEF WaitPasloe, WaitReady
  <2> QED
    BY <1>5, <2>2, <2>3 DEF WaitPasloe, WaitReady
<1>6. CASE StartTrenni(c)
  <2>1. /\ ~Killing(c) /\ Starting(c) /\ <<"pasloe">> \in KillLists /\ kids[c]["trenni"] = NoPid
        /\ pidfile = NoPids
    BY <1>6 DEF StartTrenni, Killing, Starting, KillLists, Phase
  <2>2. CASE KillThen(c, <<"pasloe">>, "failed") /\ UNCHANGED <<kind, st, kids>>
    <3>1. \A s \in Services : is_alive(kids[c][s]) => \E i \in DOMAIN <<"pasloe">> : <<"pasloe">>[i] = s
      BY <2>1, StackAssumption DEF Services, is_alive
    <3> QED
      BY <1>6, <2>1, <2>2, <3>1, KillThenQuiet DEF StartTrenni
  <2>3. CASE Start(c, "trenni", "wait_trenni") /\ UNCHANGED <<todo, ret>>
    <3>1. PICK p \in Pids : st[p] = "unused" /\ kind' = [kind EXCEPT ![p] = "trenni"]
            /\ st' = [st EXCEPT ![p] = "booting"] /\ kids' = [kids EXCEPT ![c]["trenni"] = p]
      BY <2>3 DEF Start
    <3>2. Names' /\ Covered'
      <4>1. /\ UNCHANGED <<pidfile, reboots, stranded>> /\ pidfile = NoPids
            /\ kind'[p] = "trenni" /\ st'[p] = "booting" /\ kids'[c]["trenni"] = p
            /\ \A q \in Pids \ {p} : kind'[q] = kind[q] /\ st'[q] = st[q]
            /\ \A d \in Shells, s \in Services : d # c \/ s # "trenni" => kids'[d][s] = kids[d][s]
            /\ kids[c]["trenni"] = NoPid
        BY <1>6, <2>1, <2>3, <3>1 DEF StartTrenni, TypeOK, PidPair, Services, NoPids
      <4>2. Names'
        BY <3>1, <4>1, StackAssumption DEF Quiet, Names, Started, NoPids, Services
      <4>3. ASSUME NEW q \in Pids, Running(q)'
            PROVE  pidfile'[kind'[q]] = q \/ (\E d \in Shells : kids'[d][kind'[q]] = q) \/ q \in stranded'
        <5>1. CASE q = p
          BY <4>1, <5>1
        <5>2. CASE q # p
          <6>1. Running(q) /\ kind'[q] = kind[q] /\ pidfile[kind[q]] # q
            BY <4>1, <4>3, <5>2, StackAssumption DEF Running, NoPids
          <6>2. CASE \E d \in Shells : kids[d][kind[q]] = q
            <7>1. PICK d \in Shells : kids[d][kind[q]] = q
              BY <6>2
            <7> QED
              BY <4>1, <6>1, <7>1, StackAssumption DEF Running
          <6>3. CASE q \in stranded
            BY <4>1, <6>3
          <6> QED
            BY <6>1, <6>2, <6>3 DEF Quiet, Covered
        <5> QED
          BY <5>1, <5>2
      <4> QED
        BY <4>2, <4>3 DEF Covered
    <3>3. pc'[c] = "wait_trenni" /\ \A d \in Shells \ {c} : pc'[d] = pc[d] /\ kids'[d] = kids[d]
      BY <2>3, <3>1 DEF Start, Goto, TypeOK
    <3>4. Phase(c)'
      BY <1>6, <2>1, <2>3, <3>1, <3>3 DEF StartTrenni, Phase, Starting, FromFile, Killing
    <3> QED
      BY <1>6, <2>3, <3>2, <3>3, <3>4, OneShell DEF StartTrenni
  <2> QED
    BY <1>6, <2>2, <2>3 DEF StartTrenni
<1>7. CASE WaitTrenni(c)
  <2>1. ~Killing(c) /\ Starting(c) /\ <<"trenni", "pasloe">> \in KillLists
    BY <1>7 DEF WaitTrenni, Killing, Starting, KillLists
  <2>2. CASE Goto(c, "write") /\ UNCHANGED <<todo, ret>>
    <3>1. Phase(c)' /\ \A d \in Shells \ {c} : pc'[d] = pc[d] /\ ret'[d] = ret[d]
      BY <1>7, <2>1, <2>2 DEF WaitTrenni, WaitReady, Goto, Phase, Starting, FromFile, Killing, TypeOK
    <3> QED
      BY <1>7, <2>2, <3>1, MoveQuiet DEF WaitTrenni, WaitReady
  <2>3. CASE KillThen(c, <<"trenni", "pasloe">>, "failed")
    <3>1. \A s \in Services : \E i \in DOMAIN <<"trenni", "pasloe">> : <<"trenni", "pasloe">>[i] = s
      BY DEF Services
    <3> QED
      BY <1>7, <2>1, <2>3, <3>1, KillThenQuiet DEF WaitTrenni, WaitReady
  <2> QED
    BY <1>7, <2>2, <2>3 DEF WaitTrenni, WaitReady
<1>8. CASE UpFailed(c)
  BY <1>8, ExitQuiet DEF UpFailed, Phase
<1>9. CASE WritePids(c)
  <2>1. pidfile = NoPids
    BY <1>9 DEF WritePids, Phase, Starting
  <2> QED
    BY <1>9, <2>1, ExitQuiet DEF WritePids
<1>18. CASE UpRaises(c) \/ WritePidsFails(c)
  <2>1. Raise(c)
    BY <1>18 DEF UpRaises, WritePidsFails
  <2>2. \A s \in Services : is_alive(kids[c][s]) => kids[c][s] \in stranded'
    BY <2>1 DEF Raise, is_alive
  <2> QED
    BY <2>1, <2>2, ExitQuiet DEF Raise
<1>10. CASE DownRead(c)
  <2>1. ~Starting(c) /\ kids[c] = NoPids
    BY <1>10 DEF DownRead, Killing, Starting, Phase
  <2>2. CASE Exit(c, "ok")
    <3>1. \A s \in Services : ~is_alive(kids[c][s])
      BY <2>1, StackAssumption DEF is_alive, NoPids
    <3>2. UNCHANGED <<kind, st, pidfile, reboots, stranded>>
      BY <1>10 DEF DownRead
    <3> QED
      BY <2>2, <3>1, <3>2, ExitQuiet
  <2>3. CASE /\ read' = [read EXCEPT ![c] = pidfile]
             /\ Goto(c, "down_check")
             /\ UNCHANGED <<lock, cmd, kids, todo, ret, out>>
    <3>1. Phase(c)' /\ \A d \in Shells \ {c} : pc'[d] = pc[d] /\ ret'[d] = ret[d]
      BY <1>10, <2>1, <2>3 DEF DownRead, Goto, Phase, Starting, FromFile, Killing, TypeOK
    <3> QED
      BY <1>10, <2>3, <3>1, MoveQuiet DEF DownRead
  <2> QED
    BY <1>10, <2>2, <2>3 DEF DownRead
<1>11. CASE DownCheck(c)
  <2>1. Phase(c)' /\ \A d \in Shells \ {c} : pc'[d] = pc[d] /\ ret'[d] = ret[d]
    BY <1>11 DEF DownCheck, Goto, Phase, Starting, FromFile, Killing, TypeOK, Services, is_alive
  <2> QED
    BY <1>11, <2>1, MoveQuiet DEF DownCheck
<1>12. CASE DownStop(c)
  <2>1. Names' /\ Covered'
    BY <1>12 DEF DownStop, Quiet, Names, Started, Covered, Running, Holders, Alive, TypeOK
  <2>2. Phase(c)' /\ \A d \in Shells \ {c} : pc'[d] = pc[d] /\ ret'[d] = ret[d]
    BY <1>12 DEF DownStop, Goto, Phase, Starting, FromFile, Killing, TypeOK
  <2> QED
    BY <1>12, <2>1, <2>2, OneShell DEF DownStop
<1>13. CASE DownPoll(c)
  <2>1. ~Killing(c) /\ ~Starting(c) /\ FromFile(c) /\ <<"trenni">> \in KillLists
    BY <1>13 DEF DownPoll, Killing, Starting, FromFile, KillLists
  <2>2. CASE ~is_alive(read[c]["trenni"]) /\ Goto(c, "down_pasloe") /\ UNCHANGED <<todo, ret>>
    <3>1. Phase(c)' /\ \A d \in Shells \ {c} : pc'[d] = pc[d] /\ ret'[d] = ret[d]
      BY <1>13, <2>1, <2>2 DEF DownPoll, Goto, Phase, Starting, FromFile, Killing, TypeOK, is_alive
    <3> QED
      BY <1>13, <2>2, <3>1, MoveQuiet DEF DownPoll
  <2>3. CASE KillThen(c, <<"trenni">>, "down_pasloe")
    <3>1. \E i \in DOMAIN <<"trenni">> : <<"trenni">>[i] = "trenni"
      OBVIOUS
    <3> QED
      BY <1>13, <2>1, <2>3, <3>1, KillThenQuiet DEF DownPoll, Services
  <2> QED
    BY <1>13, <2>2, <2>3 DEF DownPoll
<1>14. CASE DownPasloe(c)
  <2>1. ~Killing(c) /\ ~Starting(c) /\ FromFile(c) /\ ~is_alive(read[c]["trenni"])
    BY <1>14 DEF DownPasloe, Killing, Starting, FromFile, Phase
  <2>2. \A s \in Services : is_alive(read[c][s]) => IfAlive(c, "pasloe") = <<s>>
    BY <2>1 DEF IfAlive, Services
  <2>3. ASSUME NEW s \in Services, is_alive(read[c][s])
        PROVE  \E i \in DOMAIN IfAlive(c, "pasloe") : IfAlive(c, "pasloe")[i] = s
    <3>1. IfAlive(c, "pasloe") = <<s>>
      BY <2>2, <2>3
    <3>2. 1 \in DOMAIN <<s>> /\ <<s>>[1] = s
      OBVIOUS
    <3> QED
      BY <3>1, <3>2
  <2> QED
    BY <1>14, <2>1, <2>3, SurvivorsType, KillThenQuiet DEF DownPasloe
<1>15. CASE DownClear(c)
  <2>1. kids[c] = NoPids /\ \A s \in Services : ~is_alive(pidfile[s])
    BY <1>15 DEF DownClear, Killing, Starting, FromFile, Phase
  <2> QED
    BY <1>15, <2>1, ExitQuiet DEF DownClear
<1>16. CASE KillTerm(c)
  <2>1. Killing(c) /\ Victim(c) \in Pids \cup {NoPid}
    BY <1>16, VictimType DEF KillTerm, Killing, Quiet, Safe
  <2>2. CASE ~is_alive(Victim(c)) /\ KillReturns(c) /\ UNCHANGED <<st, lock, cmd, read, kids, out>>
    BY <1>16, <2>1, <2>2, KillReturnsQuiet DEF KillTerm, is_alive
  <2>3. CASE /\ is_alive(Victim(c))
             /\ st' = [st EXCEPT ![Victim(c)] = "stopping"]
             /\ Goto(c, "kill_wait")
             /\ UNCHANGED <<lock, cmd, read, kids, todo, ret, out>>
    <3>1. UNCHANGED <<kind, pidfile, reboots, stranded>>
      BY <1>16 DEF KillTerm
    <3>2. Names' /\ Covered'
      BY <2>3, <3>1 DEF Quiet, Names, Started, Covered, Running, Alive, TypeOK, is_alive
    <3>3. \A p : is_alive(p)' => is_alive(p)
      BY <2>3 DEF is_alive, TypeOK
    <3>4. Phase(c)' /\ \A d \in Shells \ {c} : pc'[d] = pc[d] /\ ret'[d] = ret[d]
      BY <2>1, <2>3, <3>1, <3>3 DEF Goto, Phase, Starting, FromFile, Killing, TypeOK, Target, ToKill
    <3> QED
      BY <2>3, <3>1, <3>2, <3>4, OneShell
  <2>4. CASE is_alive(Victim(c)) /\ kind[Victim(c)] = "foreign"
    BY <2>4 DEF is_alive, Quiet, Names, Alive, Services
  <2> QED
    BY <1>16, <2>2, <2>3, <2>4 DEF KillTerm
<1>17. CASE KillWait(c)
  <2>1. Killing(c) /\ Victim(c) \in Pids \cup {NoPid}
    BY <1>17, VictimType DEF KillWait, Killing, Quiet, Safe
  <2>2. todo[c] \in KillLists \ {<<>>} /\ ret[c] \in {"up_clear", "failed", "down_pasloe", "down_clear"}
    BY <2>1 DEF Quiet, Safe, TypeOK, KillOK
  <2>3. Head(todo[c]) \in Services
    BY <2>2 DEF KillLists, Services
  <2>4. Victim(c) \in Pids => st[Victim(c)] # "unused"
    BY <2>2, <2>3 DEF Victim, Quiet, Names, Started, Phase, FromFile
  <2>5. /\ \A p \in Pids : st'[p] = st[p] \/ (st[p] # "unused" /\ st'[p] = "dead")
        /\ Victim(c) \in Pids => st'[Victim(c)] \notin Alive
    BY <1>17, <2>4 DEF KillWait, TypeOK, Alive
  <2>6. KillReturns(c) /\ UNCHANGED <<kind, pidfile, read, kids, cmd, lock, reboots, stranded>>
    BY <1>17 DEF KillWait
  <2> QED
    BY <2>1, <2>5, <2>6, KillReturnsQuiet
<1> QED
  BY <1>1, <1>2, <1>3, <1>4, <1>5, <1>6, <1>7, <1>8, <1>9, <1>10, <1>11, <1>12, <1>13,
     <1>14, <1>15, <1>16, <1>17, <1>18 DEF Step

\* A command begins only when no other runs: an `up' finds the lock free and no
\* `down' under way, an orderly `down' finds every shell idle.
LEMMA BeginQuiet ==
  ASSUME Quiet, orderly', NEW c \in Shells, UpAcquire(c) \/ Down(c)
  PROVE  Quiet'
<1>1. \A d \in Shells : pc[d] = "idle"
  BY StackAssumption DEF Quiet, Serial, UpAcquire, Down
<1>2. \A d \in Shells : ret[d] = "none" /\ kids[d] = NoPids
  BY <1>1 DEF Quiet, Safe, KillOK, Killing, Phase, Starting
<1> DEFINE Begun(command, label) ==
             /\ Begin(c, command, label)
             /\ command = "up" => label = "up_read" /\ lock' = c /\ lock = Nobody
             /\ command = "down" => label = "down_read" /\ lock' = lock
<1>3. PICK command \in {"up", "down"}, label \in {"up_read", "down_read"} : Begun(command, label)
  <2>1. CASE UpAcquire(c)
    <3>1. Begun("up", "up_read")
      BY <2>1 DEF UpAcquire
    <3> QED
      BY <3>1
  <2>2. CASE Down(c)
    <3>1. Begun("down", "down_read")
      BY <2>2 DEF Down
    <3> QED
      BY <3>1
  <2> QED
    BY <2>1, <2>2
<1>4. Safe'
  BY <1>3, BeginSafe DEF Quiet
<1>5. /\ cmd' = [cmd EXCEPT ![c] = command] /\ pc' = [pc EXCEPT ![c] = label]
      /\ UNCHANGED <<kind, st, pidfile, read, kids, todo, ret, reboots, stranded>>
  BY <1>3 DEF Begin
<1>6. Serial'
  BY <1>1, <1>3, <1>5 DEF Serial, Quiet, Safe, TypeOK
<1>7. Names' /\ Covered'
  BY <1>5 DEF Quiet, Names, Started, Covered, Running
<1>8. \A d \in Shells : Phase(d)'
  BY <1>1, <1>2, <1>5 DEF Phase, Starting, FromFile, Killing, Quiet, Safe, TypeOK
<1> QED
  BY <1>4, <1>6, <1>7, <1>8 DEF Quiet

\* Orderly steps keep Quiet.
LEMMA NextQuiet == Quiet /\ [Next]_vars /\ orderly' => Quiet'
<1> SUFFICES ASSUME Quiet, [Next]_vars, orderly' PROVE Quiet'
  OBVIOUS
<1>0. Safe'
  BY NextSafe DEF Quiet
<1>1. ASSUME NEW c \in Shells, UpAcquire(c) \/ Down(c) PROVE Quiet'
  BY <1>1, BeginQuiet
<1>2. ASSUME NEW c \in Shells, UpRefused(c) PROVE Quiet'
  BY <1>0, <1>2 DEF UpRefused, Quiet, Serial, Names, Started, Covered, Running, Phase, Starting,
     FromFile, Killing, is_alive, Target, ToKill
<1>3. ASSUME NEW c \in Shells, Step(c) PROVE Quiet'
  BY <1>3, StepQuiet
<1>4. ASSUME NEW c \in Shells, Interrupt(c) PROVE Quiet'
  BY <1>4 DEF Interrupt
<1>5. ASSUME NEW p \in Pids, Bind(p) \/ Die(p) PROVE Quiet'
  <2>1. /\ UNCHANGED <<kind, pidfile, lock, cmd, pc, read, kids, todo, ret, reboots, stranded>>
        /\ \A q \in Pids : /\ st[q] = "unused" <=> st'[q] = "unused"
                           /\ st'[q] \in Alive => st[q] \in Alive
    BY <1>5 DEF Bind, Die, Quiet, Safe, TypeOK, Alive
  <2>2. Serial' /\ Names' /\ Covered'
    BY <2>1 DEF Quiet, Serial, Names, Started, Covered, Running
  <2>3. ASSUME NEW c \in Shells PROVE Phase(c)'
    BY <2>1 DEF Quiet, Phase, Starting, FromFile, Killing, is_alive, Target, ToKill
  <2> QED
    BY <1>0, <2>2, <2>3 DEF Quiet
<1>6. CASE Reboot
  BY <1>6 DEF Reboot
<1>7. CASE UNCHANGED vars
  BY <1>0, <1>7 DEF vars, Quiet, Serial, Names, Started, Covered, Running, Phase, Starting,
     FromFile, Killing, is_alive, Target, ToKill
<1> QED
  BY <1>1, <1>2, <1>3, <1>4, <1>5, <1>6, <1>7 DEF Next

\* Quiet is strong enough for both properties.
LEMMA QuietMeansOneStack == Quiet => NoOrphans /\ OneStack
<1> SUFFICES ASSUME Quiet PROVE NoOrphans /\ OneStack
  OBVIOUS
<1>1. NoOrphans
  BY DEF NoOrphans, Quiet, Covered, Recorded, Owned, Running
<1>2. ASSUME NEW p \in Pids, NEW q \in Pids, p \notin stranded, q \notin stranded,
             Running(p), Running(q), kind[p] = kind[q]
      PROVE  p = q
  <2>1. ASSUME NEW c \in Shells, kids[c] # NoPids
        PROVE  pc[c] # "idle" /\ pidfile = NoPids
    BY <2>1 DEF Quiet, Safe, KillOK, Killing, Phase, Starting
  <2>2. ASSUME NEW c \in Shells, NEW d \in Shells, kids[c] # NoPids, kids[d] # NoPids
        PROVE  c = d
    BY <2>1, <2>2 DEF Quiet, Serial
  <2> QED
    BY <1>2, <2>1, <2>2, StackAssumption DEF Quiet, Covered, Running, NoPids
<1> QED
  BY <1>1, <1>2 DEF OneStack

\* What is lost by disorder never comes back: nothing is known after it.
LEMMA OrderlyInvariant == Spec => [](Safe /\ (orderly => Quiet))
<1>1. Init => Safe /\ (orderly => Quiet)
  BY InitSafe, InitQuiet
<1>2. ASSUME Safe, [Next]_vars, orderly' PROVE orderly
  <2>1. orderly \in BOOLEAN
    BY <1>2 DEF Safe, TypeOK
  <2> QED
    BY <1>2, <2>1 DEF Next, vars, UpAcquire, UpRefused, Down, Step, Interrupt, Bind, Die, Reboot,
       UpRead, UpCheck, UpClear, StartPasloe, WaitPasloe, StartTrenni, WaitTrenni, WaitReady, UpFailed,
       UpRaises, WritePidsFails, Raise, WritePids, DownRead, DownCheck, DownStop, DownPoll, DownPasloe, DownClear, KillTerm, KillWait
<1>3. Safe /\ (orderly => Quiet) /\ [Next]_vars => (Safe /\ (orderly => Quiet))'
  BY <1>2, NextSafe, NextQuiet
<1> QED
  BY <1>1, <1>3, PTL DEF Spec

\* Orderly operators never lose a service: whatever dies, fails to boot or does
\* not answer, each live service is on record, in the hands of a running `up', or
\* stranded by one that an exception ended.
THEOREM NothingOrphaned == Spec => []NoOrphans
<1>1. (orderly => Quiet) => NoOrphans
  BY QuietMeansOneStack DEF NoOrphans
<1> QED
  BY <1>1, OrderlyInvariant, PTL

\* Orderly operators never get two stacks, beside what an exception stranded.
THEOREM NeverTwoStacks == Spec => []OneStack
<1>1. (orderly => Quiet) => OneStack
  BY QuietMeansOneStack DEF OneStack
<1> QED
  BY <1>1, OrderlyInvariant, PTL

-----------------------------------------------------------------------------
(* What a command leaves when it answers, in any company and after any crash. *)

DownLabels == {"down_read", "down_check", "down_stop", "down_poll", "down_pasloe", "down_clear"}

\* Phase without the file, which somebody else may have written: what a command knows of
\* the processes it has read and of those it has started.
Known(c) ==
  /\ pc[c] \in UpLabels \/ ret[c] \in {"up_clear", "failed"} => cmd[c] = "up"
  /\ pc[c] \in DownLabels \/ ret[c] \in {"down_pasloe", "down_clear"} => cmd[c] = "down"
  /\ pc[c] \in {"idle", "down_read"} => read[c] = NoPids
  /\ \A s \in Services : /\ read[c][s] \in Pids => st[read[c][s]] # "unused"
                         /\ kids[c][s] \in Pids => Started(kids[c][s], s)
  /\ ~Starting(c) => kids[c] = NoPids
  /\ pc[c] = "start_pasloe" => kids[c] = NoPids
  /\ pc[c] \in {"wait_pasloe", "start_trenni"} => kids[c]["trenni"] = NoPid
  /\ pc[c] = "failed" => \A s \in Services : ~is_alive(kids[c][s])
  /\ pc[c] = "down_clear" => \A s \in Services : ~is_alive(read[c][s])
  /\ pc[c] = "down_pasloe" => ~is_alive(read[c]["trenni"])
  /\ Killing(c) /\ ret[c] # "up_clear" => \A s \in Services :
       is_alive(Target(c)[s]) => ToKill(c, s) \/ (ret[c] = "down_pasloe" /\ s = "pasloe")

\* The file names processes that were started once.
Used == \A s \in Services : pidfile[s] \in Pids => st[pidfile[s]] # "unused"

Informed == Safe /\ Used /\ \A c \in Shells : Known(c)

\* Until the host restarts no process comes to life again, or becomes another program.
Ages == \A p \in Pids : st[p] # "unused" =>
  st'[p] # "unused" /\ kind'[p] = kind[p] /\ (st'[p] \in Alive => st[p] \in Alive)

Frame(d) == /\ pc'[d] = pc[d] /\ ret'[d] = ret[d] /\ todo'[d] = todo[d]
            /\ read'[d] = read[d] /\ kids'[d] = kids[d] /\ cmd'[d] = cmd[d]

LEMMA InitInformed == Init => Informed
<1> SUFFICES ASSUME Init PROVE Informed
  OBVIOUS
<1>1. Safe /\ Used
  BY InitSafe, StackAssumption DEF Init, Used, NoPids
<1>2. ASSUME NEW c \in Shells PROVE Known(c)
  BY StackAssumption DEF Init, Known, UpLabels, DownLabels, NoPids, Starting, Killing, Services
<1> QED
  BY <1>1, <1>2 DEF Informed

\* What a shell knows stays true while others act.
LEMMA FrameKnown ==
  ASSUME NEW d \in Shells, TypeOK, Known(d), Frame(d), Ages
  PROVE  Known(d)'
<1>1. read[d] \in PidPair /\ kids[d] \in PidPair
  BY DEF TypeOK
<1>2. \A p : p \in Pids /\ st[p] # "unused" => (is_alive(p)' => is_alive(p))
  BY DEF Ages, is_alive
<1>3. \A s \in Services : /\ read[d][s] \in Pids => st'[read[d][s]] # "unused"
                          /\ kids[d][s] \in Pids => Started(kids[d][s], s)'
  BY DEF Known, Frame, Ages, Started
<1>4. \A s \in Services : /\ is_alive(read[d][s])' => is_alive(read[d][s])
                          /\ is_alive(kids[d][s])' => is_alive(kids[d][s])
  BY <1>2 DEF Known, Frame, is_alive, Started
<1>5. Starting(d)' = Starting(d) /\ Killing(d)' = Killing(d) /\ Target(d)' = Target(d)
  BY DEF Frame, Starting, Killing, Target
<1>6. \A s \in Services : ToKill(d, s)' = ToKill(d, s)
  BY DEF Frame, ToKill
<1>7. \A s \in Services : is_alive(Target(d)[s])' => is_alive(Target(d)[s])
  BY <1>4, <1>5 DEF Target, Frame
<1>8. "trenni" \in Services
  BY DEF Services
<1> QED
  BY <1>3, <1>4, <1>5, <1>6, <1>7, <1>8 DEF Known, Frame

\* The statements, by what they do to the locals of the other shells.
LEMMA OthersFramed ==
  ASSUME TypeOK, NEW c \in Shells, Step(c), NEW d \in Shells, d # c
  PROVE  Frame(d)
<1>1. ASSUME NEW r, Exit(c, r) PROVE Frame(d)
  BY <1>1 DEF Exit, Frame, TypeOK
<1>2. ASSUME NEW l, Goto(c, l), todo' = todo, ret' = ret, UNCHANGED <<cmd, read, kids>> PROVE Frame(d)
  BY <1>2 DEF Goto, Frame, TypeOK
<1>3. ASSUME NEW l, NEW services, KillThen(c, services, l), UNCHANGED <<cmd, read, kids>> PROVE Frame(d)
  BY <1>3 DEF KillThen, Goto, Frame, TypeOK
<1>4. ASSUME KillReturns(c), UNCHANGED <<cmd, read, kids>> PROVE Frame(d)
  BY <1>4 DEF KillReturns, Goto, Frame, TypeOK
<1>5. CASE UpRead(c) \/ UpClear(c) \/ UpFailed(c) \/ UpRaises(c) \/ WritePids(c) \/ WritePidsFails(c)
  BY <1>1, <1>2, <1>5 DEF UpRead, UpClear, UpFailed, UpRaises, WritePidsFails, Raise, WritePids, Goto, Frame, TypeOK
<1>6. CASE UpCheck(c)
  BY <1>1, <1>3, <1>6 DEF UpCheck
<1>7. CASE StartPasloe(c)
  BY <1>1, <1>7 DEF StartPasloe, Start, Goto, Frame, TypeOK
<1>8. CASE StartTrenni(c)
  BY <1>3, <1>8 DEF StartTrenni, Start, Goto, Frame, TypeOK
<1>9. CASE WaitPasloe(c) \/ WaitTrenni(c)
  BY <1>2, <1>3, <1>9 DEF WaitPasloe, WaitTrenni, WaitReady
<1>10. CASE DownRead(c)
  BY <1>1, <1>10 DEF DownRead, Goto, Frame, TypeOK
<1>11. CASE DownCheck(c) \/ DownStop(c) \/ DownPoll(c) \/ DownPasloe(c) \/ DownClear(c)
  BY <1>1, <1>2, <1>3, <1>11 DEF DownCheck, DownStop, DownPoll, DownPasloe, DownClear
<1>12. CASE KillTerm(c) \/ KillWait(c)
  BY <1>1, <1>2, <1>4, <1>12 DEF KillTerm, KillWait
<1> QED
  BY <1>5, <1>6, <1>7, <1>8, <1>9, <1>10, <1>11, <1>12 DEF Step

LEMMA StepAges ==
  ASSUME TypeOK, NEW c \in Shells, Step(c)
  PROVE  Ages
<1>1. CASE UNCHANGED <<kind, st>>
  BY <1>1 DEF Ages
<1>2. ASSUME NEW s, NEW l, Start(c, s, l) PROVE Ages
  BY <1>2 DEF Start, Ages, TypeOK
<1>3. CASE StartPasloe(c) \/ StartTrenni(c)
  BY <1>1, <1>2, <1>3 DEF StartPasloe, StartTrenni, procVars
<1>4. CASE DownStop(c)
  BY <1>4 DEF DownStop, Holders, Ages, Alive, TypeOK
<1>5. CASE KillTerm(c)
  BY <1>5 DEF KillTerm, is_alive, Ages, Alive, TypeOK
<1>6. CASE KillWait(c)
  BY <1>6 DEF KillWait, Ages, Alive, TypeOK
<1> QED
  BY <1>1, <1>3, <1>4, <1>5, <1>6 DEF Step, UpRead, UpCheck, UpClear, WaitPasloe, WaitTrenni,
     WaitReady, UpFailed, UpRaises, WritePidsFails, Raise, WritePids, DownRead, DownCheck, DownPoll, DownPasloe, DownClear

\* A shell that has left a command knows nothing.
LEMMA ExitKnown ==
  ASSUME TypeOK, NEW c \in Shells, NEW r, Exit(c, r)
  PROVE  Known(c)'
<1>1. /\ pc'[c] = "idle" /\ read'[c] = NoPids /\ kids'[c] = NoPids /\ ret'[c] = "none"
  BY DEF Exit, TypeOK
<1>2. NoPids["trenni"] = NoPid /\ \A s \in Services : NoPids[s] \notin Pids
  BY StackAssumption DEF NoPids, Services
<1> QED
  BY <1>1, <1>2 DEF Known, UpLabels, DownLabels, Starting, Killing

\* A kill loop begins: what is not in its list is dead already.
LEMMA KillThenKnown ==
  ASSUME Informed, NEW c \in Shells, ~Killing(c), NEW services \in KillLists,
         NEW label \in {"up_clear", "failed", "down_pasloe", "down_clear"},
         KillThen(c, services, label), UNCHANGED <<kind, st, read, kids, cmd>>,
         label \in {"up_clear", "failed"} => cmd[c] = "up",
         label \in {"down_pasloe", "down_clear"} => cmd[c] = "down",
         label # "failed" => ~Starting(c),
         label # "up_clear" => \A s \in Services :
           is_alive((IF label = "failed" THEN kids[c] ELSE read[c])[s]) =>
             \/ \E i \in DOMAIN services : services[i] = s
             \/ label = "down_pasloe" /\ s = "pasloe"
  PROVE  Known(c)'
<1>1. TypeOK /\ KillOK /\ Known(c)
  BY DEF Informed, Safe
<1>2. \A s \in Services : /\ read[c][s] \in Pids => st[read[c][s]] # "unused"
                          /\ kids[c][s] \in Pids => Started(kids[c][s], s)'
  BY <1>1 DEF Known, Started
<1>3. CASE services = <<>>
  <2>1. pc'[c] = label /\ ret'[c] = "none" /\ DOMAIN services = {}
    BY <1>1, <1>3 DEF KillThen, Goto, TypeOK, KillOK
  <2> QED
    BY <1>1, <1>2, <2>1 DEF Known, UpLabels, DownLabels, Starting, Killing, is_alive, Services
<1>4. CASE services # <<>>
  <2>1. pc'[c] = "kill" /\ ret'[c] = label /\ todo'[c] = services
    BY <1>1, <1>4 DEF KillThen, Goto, TypeOK
  <2> QED
    BY <1>1, <1>2, <2>1 DEF Known, UpLabels, DownLabels, Starting, Killing, is_alive, Target, ToKill
<1> QED
  BY <1>3, <1>4

\* kill_pid returned and its process is dead: the rest of the list is what is left.
LEMMA KillReturnsKnown ==
  ASSUME Informed, NEW c \in Shells, Killing(c), KillReturns(c), Ages,
         UNCHANGED <<read, kids, cmd>>,
         Victim(c) \in Pids => st'[Victim(c)] \notin Alive
  PROVE  Known(c)'
<1>1. TypeOK /\ KillOK /\ Known(c) /\ read[c] \in PidPair /\ kids[c] \in PidPair
  BY DEF Informed, Safe, TypeOK
<1>2. todo[c] \in KillLists \ {<<>>} /\ ret[c] \in {"up_clear", "failed", "down_pasloe", "down_clear"}
  BY <1>1 DEF TypeOK, KillOK
<1>3. \A s \in Services : /\ read[c][s] \in Pids => st'[read[c][s]] # "unused"
                          /\ kids[c][s] \in Pids => Started(kids[c][s], s)'
  BY <1>1 DEF Known, Ages, Started
<1>4. \A s \in Services : Target(c)[s] \in Pids /\ st'[Target(c)[s]] \in Alive =>
        is_alive(Target(c)[s]) /\ s # Head(todo[c])
  BY <1>1 DEF Known, Ages, Started, is_alive, Target, Victim
<1>5. CASE Len(todo[c]) > 1
  <2>1. /\ pc'[c] = "kill" /\ ret'[c] = ret[c] /\ todo'[c] = Tail(todo[c])
        /\ Target(c)' = Target(c)
    BY <1>1, <1>5 DEF KillReturns, Goto, TypeOK, Target
  <2>2. todo[c] = <<"trenni", "pasloe">> /\ todo'[c] = <<"pasloe">>
    BY <1>2, <1>5, <2>1, KillListTail
  <2>3. ToKill(c, "pasloe")'
    BY <2>2 DEF ToKill
  <2>4. \A s \in Services : is_alive(Target(c)[s])' => s = "pasloe"
    BY <1>4, <2>1, <2>2 DEF Services, is_alive
  <2> QED
    BY <1>1, <1>2, <1>3, <2>1, <2>3, <2>4 DEF Known, UpLabels, DownLabels, Starting, Killing
<1>6. CASE ~(Len(todo[c]) > 1)
  <2>1. pc'[c] = ret[c] /\ ret'[c] = "none"
    BY <1>1, <1>6 DEF KillReturns, Goto, TypeOK
  <2>2. \A s \in Services : ToKill(c, s) => s = Head(todo[c])
    BY <1>2, <1>6 DEF KillLists, ToKill
  <2> QED
    BY <1>1, <1>2, <1>3, <1>4, <2>1, <2>2
    DEF Known, UpLabels, DownLabels, Starting, Killing, Services, Target, is_alive
<1> QED
  BY <1>5, <1>6

\* What a command learns from its own statement.
LEMMA StepKnown ==
  ASSUME Informed, NEW c \in Shells, Step(c)
  PROVE  Known(c)'
<1>0. /\ TypeOK /\ KillOK /\ Known(c) /\ Ages /\ Used
      /\ ~Killing(c) => ret[c] = "none" /\ todo[c] = <<>>
  BY StepAges DEF Informed, Safe, KillOK
<1>a. \A s \in Services :
        /\ read[c][s] \in Pids => st'[read[c][s]] # "unused"
        /\ kids[c][s] \in Pids => st'[kids[c][s]] # "unused" /\ kind'[kids[c][s]] = s
  BY <1>0 DEF Known, Ages, Started
<1> USE <1>0
<1>1. CASE UpRead(c)
  <2>1. /\ pc'[c] \in {"start_pasloe", "up_check"} /\ ret'[c] = "none" /\ read'[c] = pidfile
        /\ kids'[c] = NoPids /\ kids'[c] = kids[c] /\ cmd'[c] = "up" /\ st' = st
    BY <1>1 DEF UpRead, Goto, Known, UpLabels, Starting, Killing, TypeOK
  <2> QED
    BY <1>a, <2>1 DEF Used, Known, Started, UpLabels, DownLabels, Starting, Killing
<1>2. CASE UpCheck(c)
  <2>1. ~Killing(c) /\ ~Starting(c) /\ cmd[c] = "up"
    BY <1>2 DEF UpCheck, Killing, Starting, Known, UpLabels
  <2>2. CASE Exit(c, "ok")
    BY <2>2, ExitKnown
  <2>3. CASE KillThen(c, Survivor(c), "up_clear") /\ UNCHANGED <<lock, cmd, read, kids, out>>
    BY <1>2, <2>1, <2>3, SurvivorsType, KillThenKnown DEF UpCheck
  <2> QED
    BY <1>2, <2>2, <2>3 DEF UpCheck
<1>3. CASE UpClear(c)
  <2>1. /\ pc'[c] = "start_pasloe" /\ ret'[c] = "none" /\ read'[c] = read[c]
        /\ kids'[c] = NoPids /\ kids'[c] = kids[c] /\ cmd'[c] = "up"
    BY <1>3 DEF UpClear, Goto, Known, UpLabels, Starting, Killing, TypeOK
  <2> QED
    BY <1>a, <2>1 DEF Known, Started, UpLabels, DownLabels, Starting, Killing
<1>4. CASE StartPasloe(c)
  <2>1. CASE Exit(c, "fail")
    BY <2>1, ExitKnown
  <2>2. CASE /\ Start(c, "pasloe", "wait_pasloe")
             /\ UNCHANGED <<lock, cmd, read, todo, ret, out>>
    <3>1. PICK p \in Pids : /\ kind' = [kind EXCEPT ![p] = "pasloe"]
                            /\ st' = [st EXCEPT ![p] = "booting"]
                            /\ kids' = [kids EXCEPT ![c]["pasloe"] = p]
      BY <2>2 DEF Start
    <3>2. /\ pc'[c] = "wait_pasloe" /\ ret'[c] = "none" /\ read'[c] = read[c] /\ cmd'[c] = "up"
          /\ kids'[c]["pasloe"] = p /\ kids'[c]["trenni"] = NoPid /\ st'[p] = "booting" /\ kind'[p] = "pasloe"
      BY <1>4, <2>2, <3>1 DEF StartPasloe, Start, Goto, Known, UpLabels, Killing, TypeOK, PidPair,
         Services, NoPids, Started
    <3>3. \A s \in Services :
            kids'[c][s] \in Pids => st'[kids'[c][s]] # "unused" /\ kind'[kids'[c][s]] = s
      BY <3>2, StackAssumption DEF Services, Started
    <3> QED
      BY <1>a, <3>2, <3>3 DEF Known, Started, UpLabels, DownLabels, Starting, Killing
  <2> QED
    BY <1>4, <2>1, <2>2 DEF StartPasloe
<1>5. CASE WaitPasloe(c)
  <2>1. ~Killing(c) /\ <<"pasloe">> \in KillLists /\ kids[c]["trenni"] = NoPid /\ cmd[c] = "up"
    BY <1>5 DEF WaitPasloe, Killing, KillLists, Known, UpLabels
  <2>2. CASE Goto(c, "start_trenni") /\ UNCHANGED <<todo, ret>>
    BY <1>5, <1>a, <2>1, <2>2
    DEF WaitPasloe, WaitReady, Goto, Known, Started, UpLabels, DownLabels, Starting, Killing, TypeOK
  <2>3. CASE KillThen(c, <<"pasloe">>, "failed")
    <3>1. \A s \in Services : is_alive(kids[c][s]) => \E i \in DOMAIN <<"pasloe">> : <<"pasloe">>[i] = s
      BY <2>1, StackAssumption DEF Services, is_alive
    <3> QED
      BY <1>5, <2>1, <2>3, <3>1, KillThenKnown DEF WaitPasloe, WaitReady
  <2> QED
    BY <1>5, <2>2, <2>3 DEF WaitPasloe, WaitReady
<1>6. CASE StartTrenni(c)
  <2>1. ~Killing(c) /\ <<"pasloe">> \in KillLists /\ kids[c]["trenni"] = NoPid /\ cmd[c] = "up"
    BY <1>6 DEF StartTrenni, Killing, KillLists, Known, UpLabels
  <2>2. CASE KillThen(c, <<"pasloe">>, "failed") /\ UNCHANGED <<kind, st, kids>>
    <3>1. \A s \in Services : is_alive(kids[c][s]) => \E i \in DOMAIN <<"pasloe">> : <<"pasloe">>[i] = s
      BY <2>1, StackAssumption DEF Services, is_alive
    <3> QED
      BY <1>6, <2>1, <2>2, <3>1, KillThenKnown DEF StartTrenni
  <2>3. CASE Start(c, "trenni", "wait_trenni") /\ UNCHANGED <<todo, ret>>
    <3>1. PICK p \in Pids : /\ st[p] = "unused"
                            /\ kind' = [kind EXCEPT ![p] = "trenni"]
                            /\ st' = [st EXCEPT ![p] = "booting"]
                            /\ kids' = [kids EXCEPT ![c]["trenni"] = p]
      BY <2>3 DEF Start
    <3>2. /\ pc'[c] = "wait_trenni" /\ ret'[c] = "none" /\ read'[c] = read[c] /\ cmd'[c] = "up"
          /\ kids'[c]["trenni"] = p /\ kids'[c]["pasloe"] = kids[c]["pasloe"] /\ st'[p] = "booting" /\ kind'[p] = "trenni"
      BY <1>6, <2>1, <2>3, <3>1 DEF StartTrenni, Start, Goto, Killing, TypeOK, PidPair, Services, Started
    <3>3. \A s \in Services :
            kids'[c][s] \in Pids => st'[kids'[c][s]] # "unused" /\ kind'[kids'[c][s]] = s
      BY <1>a, <3>2 DEF Services, Started
    <3> QED
      BY <1>a, <3>2, <3>3 DEF Known, Started, UpLabels, DownLabels, Starting, Killing
  <2> QED
    BY <1>6, <2>2, <2>3 DEF StartTrenni
<1>7. CASE WaitTrenni(c)
  <2>1. ~Killing(c) /\ <<"trenni", "pasloe">> \in KillLists /\ cmd[c] = "up"
    BY <1>7 DEF WaitTrenni, Killing, KillLists, Known, UpLabels
  <2>2. CASE Goto(c, "write") /\ UNCHANGED <<todo, ret>>
    BY <1>7, <1>a, <2>1, <2>2
    DEF WaitTrenni, WaitReady, Goto, Known, Started, UpLabels, DownLabels, Starting, Killing, TypeOK
  <2>3. CASE KillThen(c, <<"trenni", "pasloe">>, "failed")
    <3>1. \A s \in Services : \E i \in DOMAIN <<"trenni", "pasloe">> : <<"trenni", "pasloe">>[i] = s
      BY DEF Services
    <3> QED
      BY <1>7, <2>1, <2>3, <3>1, KillThenKnown DEF WaitTrenni, WaitReady
  <2> QED
    BY <1>7, <2>2, <2>3 DEF WaitTrenni, WaitReady
<1>8. CASE UpFailed(c) \/ UpRaises(c) \/ WritePids(c) \/ WritePidsFails(c) \/ DownClear(c)
  BY <1>8, ExitKnown DEF UpFailed, UpRaises, WritePidsFails, Raise, WritePids, DownClear
<1>9. CASE DownRead(c)
  <2>1. CASE Exit(c, "ok")
    BY <2>1, ExitKnown
  <2>2. CASE /\ read' = [read EXCEPT ![c] = pidfile]
             /\ Goto(c, "down_check")
             /\ UNCHANGED <<lock, cmd, kids, todo, ret, out>>
    <3>1. /\ pc'[c] = "down_check" /\ ret'[c] = "none" /\ read'[c] = pidfile
          /\ kids'[c] = NoPids /\ kids'[c] = kids[c] /\ cmd'[c] = "down" /\ st' = st
      BY <1>9, <2>2 DEF DownRead, Goto, Known, DownLabels, Starting, Killing, TypeOK
    <3> QED
      BY <1>a, <3>1 DEF Used, Known, Started, UpLabels, DownLabels, Starting, Killing
  <2> QED
    BY <1>9, <2>1, <2>2 DEF DownRead
<1>10. CASE DownCheck(c)
  BY <1>10, <1>a DEF DownCheck, Goto, Known, Started, UpLabels, DownLabels, Starting, Killing, TypeOK, Services,
     is_alive
<1>11. CASE DownStop(c)
  BY <1>11, <1>a DEF DownStop, Goto, Known, Started, UpLabels, DownLabels, Starting, Killing, TypeOK
<1>12. CASE DownPoll(c)
  <2>1. ~Killing(c) /\ ~Starting(c) /\ <<"trenni">> \in KillLists /\ cmd[c] = "down"
    BY <1>12 DEF DownPoll, Killing, Starting, KillLists, Known, DownLabels
  <2>2. CASE ~is_alive(read[c]["trenni"]) /\ Goto(c, "down_pasloe") /\ UNCHANGED <<todo, ret>>
    BY <1>12, <1>a, <2>1, <2>2
    DEF DownPoll, Goto, Known, Started, UpLabels, DownLabels, Starting, Killing, TypeOK, is_alive
  <2>3. CASE KillThen(c, <<"trenni">>, "down_pasloe")
    <3>1. \E i \in DOMAIN <<"trenni">> : <<"trenni">>[i] = "trenni"
      OBVIOUS
    <3> QED
      BY <1>12, <2>1, <2>3, <3>1, KillThenKnown DEF DownPoll, Services
  <2> QED
    BY <1>12, <2>2, <2>3 DEF DownPoll
<1>13. CASE DownPasloe(c)
  <2>1. ~Killing(c) /\ ~Starting(c) /\ cmd[c] = "down" /\ ~is_alive(read[c]["trenni"])
    BY <1>13 DEF DownPasloe, Killing, Starting, Known, DownLabels
  <2>2. ASSUME NEW s \in Services, is_alive(read[c][s])
        PROVE  \E i \in DOMAIN IfAlive(c, "pasloe") : IfAlive(c, "pasloe")[i] = s
    <3>1. IfAlive(c, "pasloe") = <<s>>
      BY <2>1, <2>2 DEF IfAlive, Services
    <3>2. 1 \in DOMAIN <<s>> /\ <<s>>[1] = s
      OBVIOUS
    <3> QED
      BY <3>1, <3>2
  <2> QED
    BY <1>13, <2>1, <2>2, SurvivorsType, KillThenKnown DEF DownPasloe
<1>14. CASE KillTerm(c)
  <2>1. Killing(c) /\ Victim(c) \in Pids \cup {NoPid}
    BY <1>14, VictimType DEF KillTerm, Killing
  <2>2. CASE ~is_alive(Victim(c)) /\ KillReturns(c) /\ UNCHANGED <<st, lock, cmd, read, kids, out>>
    BY <2>1, <2>2, KillReturnsKnown DEF is_alive
  <2>3. CASE /\ st' = [st EXCEPT ![Victim(c)] = "stopping"]
             /\ Goto(c, "kill_wait")
             /\ UNCHANGED <<lock, cmd, read, kids, todo, ret, out>>
    <3>1. /\ pc'[c] = "kill_wait" /\ ret'[c] = ret[c] /\ todo'[c] = todo[c]
          /\ read'[c] = read[c] /\ kids'[c] = kids[c] /\ cmd'[c] = cmd[c]
      BY <2>3 DEF Goto, TypeOK
    <3>2. \A s \in Services : is_alive(Target(c)[s])' => is_alive(Target(c)[s])
      BY <3>1 DEF Known, Ages, Started, is_alive, Target
    <3> QED
      BY <1>a, <2>1, <3>1, <3>2 DEF Known, Started, UpLabels, DownLabels, Starting, Killing, ToKill
  <2>4. CASE Exit(c, "fail")
    BY <2>4, ExitKnown
  <2> QED
    BY <1>14, <2>2, <2>3, <2>4 DEF KillTerm
<1>15. CASE KillWait(c)
  <2>1. Killing(c)
    BY <1>15 DEF KillWait, Killing
  <2>2. Victim(c) \in Pids => st'[Victim(c)] \notin Alive
    BY <1>15 DEF KillWait, TypeOK, Alive
  <2> QED
    BY <1>15, <2>1, <2>2, KillReturnsKnown DEF KillWait
<1> QED
  BY <1>1, <1>2, <1>3, <1>4, <1>5, <1>6, <1>7, <1>8, <1>9, <1>10, <1>11, <1>12, <1>13,
     <1>14, <1>15 DEF Step
\* A shell whose command has not read anything yet.
LEMMA FreshKnown ==
  ASSUME NEW c \in Shells, read'[c] = NoPids, kids'[c] = NoPids, ret'[c] = "none",
         \/ pc'[c] = "idle"
         \/ pc'[c] = "up_read" /\ cmd'[c] = "up"
         \/ pc'[c] = "down_read" /\ cmd'[c] = "down"
  PROVE  Known(c)'
<1>1. NoPids["trenni"] = NoPid /\ \A s \in Services : NoPids[s] \notin Pids
  BY StackAssumption DEF NoPids, Services
<1> QED
  BY <1>1 DEF Known, UpLabels, DownLabels, Starting, Killing

LEMMA BeginKnown ==
  ASSUME Informed, NEW c \in Shells, UpAcquire(c) \/ Down(c), NEW d \in Shells
  PROVE  Known(d)'
<1>1. TypeOK /\ KillOK /\ Known(c) /\ Known(d) /\ Ages
  BY DEF Informed, Safe, UpAcquire, Down, Begin, Ages
<1>2. CASE d = c
  <2>1. pc[c] = "idle" /\ ret[c] = "none"
    BY <1>1 DEF UpAcquire, Down, Begin, KillOK, Killing
  <2>2. read[c] = NoPids /\ kids[c] = NoPids
    BY <1>1, <2>1 DEF Known, Starting
  <2> QED
    BY <1>1, <1>2, <2>1, <2>2, FreshKnown DEF UpAcquire, Down, Begin, TypeOK
<1>3. CASE d # c
  <2>1. Frame(d)
    BY <1>1, <1>3 DEF UpAcquire, Down, Begin, Frame, TypeOK
  <2> QED
    BY <1>1, <2>1, FrameKnown
<1> QED
  BY <1>2, <1>3

\* What is put on record has been started.
LEMMA StepUsed ==
  ASSUME Informed, NEW c \in Shells, Step(c)
  PROVE  Used'
<1>1. TypeOK /\ Known(c) /\ Ages /\ Used
  BY StepAges DEF Informed, Safe
<1>2. CASE pidfile' = pidfile
  BY <1>1, <1>2 DEF Used, Ages
<1>3. CASE pidfile' = NoPids
  BY <1>3, StackAssumption DEF Used, NoPids
<1>4. CASE pidfile' = kids[c]
  BY <1>1, <1>4 DEF Used, Known, Started, Ages
<1> QED
  BY <1>2, <1>3, <1>4 DEF Step, UpRead, UpCheck, UpClear, StartPasloe, WaitPasloe, StartTrenni,
     WaitTrenni, WaitReady, UpFailed, UpRaises, WritePidsFails, Raise, WritePids, DownRead, DownCheck, DownStop, DownPoll,
     DownPasloe, DownClear, KillTerm, KillWait

\* Informed is inductive, whatever the operators, the services and the host do.
LEMMA NextInformed == Informed /\ [Next]_vars => Informed'
<1> SUFFICES ASSUME Informed, [Next]_vars PROVE Informed'
  OBVIOUS
<1>0. Safe' /\ TypeOK /\ KillOK /\ Used
  BY NextSafe DEF Informed, Safe
<1>1. ASSUME NEW c \in Shells, UpAcquire(c) \/ Down(c) PROVE Informed'
  <2>1. Used'
    BY <1>0, <1>1 DEF UpAcquire, Down, Begin, Used
  <2> QED
    BY <1>0, <1>1, <2>1, BeginKnown DEF Informed
<1>2. ASSUME NEW c \in Shells, Step(c) PROVE Informed'
  <2>1. ASSUME NEW d \in Shells PROVE Known(d)'
    BY <1>0, <1>2, StepKnown, StepAges, OthersFramed, FrameKnown DEF Informed
  <2> QED
    BY <1>0, <1>2, <2>1, StepUsed DEF Informed
<1>3. ASSUME NEW c \in Shells, Interrupt(c) PROVE Informed'
  <2>1. UNCHANGED <<kind, st, pidfile>> /\ Exit(c, "none")
    BY <1>3 DEF Interrupt
  <2>2. Ages /\ Used'
    BY <1>0, <2>1 DEF Ages, Used
  <2>3. ASSUME NEW d \in Shells, d # c PROVE Frame(d)
    BY <1>0, <2>1, <2>3 DEF Exit, Frame, TypeOK
  <2>4. ASSUME NEW d \in Shells PROVE Known(d)'
    BY <1>0, <2>1, <2>2, <2>3, ExitKnown, FrameKnown DEF Informed
  <2> QED
    BY <1>0, <2>2, <2>4 DEF Informed
<1>4. CASE \/ \E c \in Shells : UpRefused(c)
           \/ \E p \in Pids : Bind(p) \/ Die(p)
           \/ UNCHANGED vars
  <2>1. Ages /\ pidfile' = pidfile
    BY <1>0, <1>4 DEF UpRefused, Bind, Die, vars, Ages, Alive, TypeOK
  <2>2. Used'
    BY <1>0, <2>1 DEF Ages, Used
  <2>3. ASSUME NEW d \in Shells PROVE Frame(d)
    BY <1>4 DEF UpRefused, Bind, Die, vars, Frame
  <2>4. ASSUME NEW d \in Shells PROVE Known(d)'
    BY <1>0, <2>1, <2>3, FrameKnown DEF Informed
  <2> QED
    BY <1>0, <2>2, <2>4 DEF Informed
<1>5. CASE Reboot
  <2>1. ASSUME NEW d \in Shells PROVE Known(d)'
    BY <1>5, FreshKnown DEF Reboot
  <2>2. Used'
    BY <1>0, <1>5 DEF Reboot, Used
  <2> QED
    BY <1>0, <2>1, <2>2 DEF Informed
<1> QED
  BY <1>1, <1>2, <1>3, <1>4, <1>5 DEF Next

\* A command that ends with an answer ends by a statement of its own.
LEMMA OwnAnswer ==
  ASSUME TypeOK, [Next]_vars, NEW c \in Shells, pc[c] # "idle", pc'[c] = "idle", out'[c] # "none"
  PROVE  Step(c)
<1>1. ASSUME NEW d \in Shells, UpAcquire(d) \/ UpRefused(d) \/ Down(d) PROVE FALSE
  BY <1>1 DEF UpAcquire, UpRefused, Down, Begin, TypeOK
<1>2. ASSUME NEW d \in Shells, Step(d), d # c PROVE FALSE
  BY <1>2, OthersFramed DEF Frame
<1>3. ASSUME NEW d \in Shells, Interrupt(d) PROVE FALSE
  BY <1>3 DEF Interrupt, Exit, TypeOK
<1>4. ASSUME Reboot PROVE FALSE
  BY <1>4 DEF Reboot
<1>5. ASSUME \/ \E p \in Pids : Bind(p) \/ Die(p)
             \/ UNCHANGED vars
      PROVE  FALSE
  BY <1>5 DEF Bind, Die, vars
<1> QED
  BY <1>1, <1>2, <1>3, <1>4, <1>5 DEF Next

\* The statements a command can end with.
LEMMA LastStatement ==
  ASSUME TypeOK, KillOK, NEW c \in Shells, Step(c), pc[c] # "idle", pc'[c] = "idle"
  PROVE  \/ out'[c] = "ok" /\ (UpCheck(c) \/ WritePids(c) \/ DownRead(c) \/ DownClear(c))
         \/ out'[c] = "fail" /\ (StartPasloe(c) \/ UpFailed(c) \/ KillTerm(c))
         \/ out'[c] = "raised" /\ (UpRaises(c) \/ WritePidsFails(c))
<1>1. ASSUME NEW l, l # "idle", Goto(c, l) PROVE FALSE
  BY <1>1 DEF Goto, TypeOK
<1>2. ASSUME NEW services, NEW l, l # "idle", KillThen(c, services, l) PROVE FALSE
  BY <1>1, <1>2 DEF KillThen
<1>3. ASSUME Killing(c), KillReturns(c) PROVE FALSE
  <2>1. ret[c] # "idle"
    BY DEF TypeOK
  <2> QED
    BY <1>1, <1>3, <2>1 DEF KillReturns
<1>4. ASSUME NEW r, Exit(c, r) PROVE out'[c] = r
  BY <1>4 DEF Exit, TypeOK
<1>5. CASE UpRead(c) \/ UpClear(c) \/ DownCheck(c) \/ DownStop(c)
  BY <1>1, <1>5 DEF UpRead, UpClear, DownCheck, DownStop
<1>6. CASE UpCheck(c)
  BY <1>2, <1>4, <1>6 DEF UpCheck
<1>7. CASE StartPasloe(c)
  BY <1>1, <1>4, <1>7 DEF StartPasloe, Start
<1>8. CASE StartTrenni(c) \/ WaitPasloe(c) \/ WaitTrenni(c) \/ DownPoll(c) \/ DownPasloe(c)
  BY <1>1, <1>2, <1>8 DEF StartTrenni, Start, WaitPasloe, WaitTrenni, WaitReady, DownPoll, DownPasloe
<1>9. CASE UpFailed(c) \/ UpRaises(c) \/ WritePids(c) \/ WritePidsFails(c) \/ DownClear(c)
  BY <1>4, <1>9 DEF UpFailed, UpRaises, WritePidsFails, Raise, WritePids, DownClear
<1>10. CASE DownRead(c)
  BY <1>1, <1>4, <1>10 DEF DownRead
<1>11. CASE KillTerm(c)
  BY <1>1, <1>3, <1>4, <1>11 DEF KillTerm, Killing
<1>12. CASE KillWait(c)
  BY <1>3, <1>12 DEF KillWait, Killing
<1> QED
  BY <1>5, <1>6, <1>7, <1>8, <1>9, <1>10, <1>11, <1>12 DEF Step

\* A `down' that answers ok found no file, or has just cleared it.
LEMMA DownAnswers ==
  ASSUME Informed, [Next]_vars, NEW c \in Shells, Returns(c, "down")
  PROVE  /\ st' = st /\ kind' = kind
         /\ \/ DownRead(c) /\ pidfile = NoPids /\ read[c] = NoPids
            \/ DownClear(c) /\ \A s \in Services : ~is_alive(read[c][s])
<1>1. TypeOK /\ KillOK /\ Known(c) /\ cmd[c] = "down" /\ Step(c)
  BY OwnAnswer DEF Informed, Safe, Returns
<1>2. ~UpCheck(c) /\ ~WritePids(c)
  BY <1>1 DEF UpCheck, WritePids, Known, UpLabels
<1>3. DownRead(c) \/ DownClear(c)
  BY <1>1, <1>2, LastStatement DEF Returns
<1>4. CASE DownRead(c)
  <2>1. pidfile = NoPids
    BY <1>1, <1>4 DEF DownRead, Goto, TypeOK, Returns
  <2> QED
    BY <1>1, <1>4, <2>1 DEF DownRead, Known
<1>5. CASE DownClear(c)
  BY <1>1, <1>5 DEF DownClear, Known
<1> QED
  BY <1>3, <1>4, <1>5

\* The services `down' found in the file are dead when it answers ok, for any number
\* of shells, racing commands, interrupts and reboots.
THEOREM NamedServicesDie == Spec => DownStopsWhatItRead
<1>1. Informed /\ [Next]_vars => [\A c \in Shells : Returns(c, "down") =>
        \A s \in Services : read[c][s] \in Pids => st'[read[c][s]] \notin Alive]_vars
  <2> SUFFICES ASSUME Informed, [Next]_vars, NEW c \in Shells, Returns(c, "down"),
                      NEW s \in Services, read[c][s] \in Pids
               PROVE  st'[read[c][s]] \notin Alive
    OBVIOUS
  <2> QED
    BY DownAnswers, StackAssumption DEF is_alive, NoPids
<1> QED
  BY <1>1, InitInformed, NextInformed, PTL DEF Spec, DownStopsWhatItRead

\* When `up' reports a failure that _do_up handles, none of the processes it started is
\* alive.  The two unhandled exits end in `raised', of which this says nothing.
THEOREM FailureLeavesNothing == Spec => FailedUpCleansUp
<1>1. Informed /\ [Next]_vars => [\A c \in Shells :
        pc[c] # "idle" /\ pc'[c] = "idle" /\ out'[c] = "fail" =>
          \A s \in Services : kids[c][s] \in Pids => st'[kids[c][s]] \notin Alive]_vars
  <2> SUFFICES ASSUME Informed, [Next]_vars, NEW c \in Shells, pc[c] # "idle", pc'[c] = "idle",
                      out'[c] = "fail", NEW s \in Services, kids[c][s] \in Pids
               PROVE  st'[kids[c][s]] \notin Alive
    OBVIOUS
  <2>0. TypeOK /\ KillOK /\ Known(c) /\ Step(c)
    BY OwnAnswer DEF Informed, Safe
  <2>1. StartPasloe(c) \/ UpFailed(c) \/ KillTerm(c)
    BY <2>0, LastStatement
  <2>2. kids[c] # NoPids
    BY StackAssumption DEF NoPids
  <2>3. CASE StartPasloe(c)
    BY <2>0, <2>2, <2>3 DEF StartPasloe, Known
  <2>4. CASE UpFailed(c)
    BY <2>0, <2>4 DEF UpFailed, Known, is_alive
  <2>5. CASE KillTerm(c)
    <3>1. ret[c] = "failed"
      BY <2>0, <2>2, <2>5 DEF KillTerm, Known, Starting
    <3>2. Victim(c) = kids[c][Head(todo[c])] /\ Head(todo[c]) \in Services
      <4>1. todo[c] \in KillLists \ {<<>>}
        BY <2>0, <2>5 DEF KillTerm, KillOK, Killing, TypeOK
      <4> QED
        BY <3>1, <4>1 DEF Victim, KillLists, Services
    <3>3. is_alive(Victim(c)) => kind[Victim(c)] # "foreign"
      BY <2>0, <3>2 DEF Known, Started, is_alive, Services
    <3>4. ~(KillReturns(c) /\ UNCHANGED <<st, lock, cmd, read, kids, out>>)
      BY <2>0, <3>1 DEF KillReturns, Goto, TypeOK
    <3>5. ~Goto(c, "kill_wait")
      BY <2>0 DEF Goto, TypeOK
    <3> QED
      BY <2>5, <3>3, <3>4, <3>5 DEF KillTerm
  <2> QED
    BY <2>1, <2>3, <2>4, <2>5
<1> QED
  BY <1>1, InitInformed, NextInformed, PTL DEF Spec, FailedUpCleansUp

\* An orderly `down' that answers ok leaves no service process, beside what an exception
\* in an earlier `up' stranded.
THEOREM DownLeavesNothing == Spec => DownStops
<1>1. Informed /\ (Safe /\ (orderly => Quiet)) /\ [Next]_vars => [\A c \in Shells :
        orderly /\ Returns(c, "down") => \A p \in Pids : Running(p)' => p \in stranded]_vars
  <2> SUFFICES ASSUME Informed, Quiet, [Next]_vars, NEW c \in Shells, Returns(c, "down"),
                      NEW p \in Pids, Running(p)', p \notin stranded
               PROVE  FALSE
    OBVIOUS
  <2>1. Running(p)
    BY DownAnswers DEF Running
  <2>2. \A s \in Services : ~is_alive(pidfile[s])
    BY DownAnswers, StackAssumption DEF Quiet, Phase, FromFile, DownClear, NoPids, is_alive
  <2>3. ASSUME NEW d \in Shells PROVE kids[d] = NoPids
    <3>1. ~Starting(c) /\ pc[c] # "idle"
      BY DownAnswers DEF DownRead, DownClear, Starting, Informed, Safe, KillOK, Killing
    <3> QED
      BY <3>1, OthersIdle DEF Quiet, Phase
  <2> QED
    BY <2>1, <2>2, <2>3, StackAssumption DEF Quiet, Covered, Running, is_alive, NoPids
<1> QED
  BY <1>1, InitInformed, NextInformed, OrderlyInvariant, PTL DEF Spec, DownStops
===============================================================================
