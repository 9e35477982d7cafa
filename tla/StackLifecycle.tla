---------------------------- MODULE StackLifecycle ----------------------------
(***************************************************************************)
(* The operator's `yoitsu up' and `yoitsu down' commands, run from several *)
(* shells at once against one checkout: the advisory lock, the PID file,   *)
(* the two services they start and stop, and the URLs they poll.           *)
(*                                                                         *)
(* Only `up' takes the lock, and it keeps it until its process exits.      *)
(* `down' takes none.  A service is a detached process (its own session),  *)
(* so it outlives the command that started it.  Readiness is asked of a    *)
(* URL, never of a PID.                                                    *)
(*                                                                         *)
(* Not distinguished: a PID file that is absent and one that is truncated  *)
(* or half written (read_pids answers None for both).                      *)
(***************************************************************************)
EXTENDS Naturals, Sequences

CONSTANTS
  Pids,        \* process ids the kernel hands out, in increasing order
  Shells,      \* operator shells, each running one command at a time
  NoPid,       \* no process
  Nobody,      \* no shell
  MaxCrashes,  \* bound: commands ended half way: killed, interrupted (Ctrl-C), or by an exception
  MaxReboots   \* bound: host reboots

ASSUME StackAssumption ==
  /\ Pids \subseteq Nat /\ NoPid \notin Pids
  /\ Nobody \notin Shells
  /\ MaxCrashes \in Nat
  /\ MaxReboots \in Nat

Services == {"pasloe", "trenni"}

\* What {"pasloe": {"pid": ..}, "trenni": {"pid": ..}} holds, NoPids when the
\* file is absent or unreadable.
PidPair == [Services -> Pids \cup {NoPid}]
NoPids == [s \in Services |-> NoPid]

VARIABLES
  kind,     \* kind[p]: which service process p is, "foreign" for any other program
  st,       \* st[p]: where process p is in its life
  pidfile,  \* .pids.json
  lock,     \* the shell whose `up' holds .yoitsu.lock
  cmd,      \* cmd[c]: the command shell c is running
  pc,       \* pc[c]: the next statement of that command
  read,     \* read[c]: the PIDs it read from the file
  kids,     \* kids[c]: the processes it started
  todo,     \* todo[c]: the services its kill_pid calls have left to kill
  ret,      \* ret[c]: the statement after those calls
  out,      \* out[c]: how the last command of c ended
  crashes,  \* how many commands ended half way
  reboots,  \* how many times the host restarted
  orderly,  \* no interrupt, no restart, and no `down' beside another command (history)
  stranded  \* what an `up' had started when an exception ended it uncleaned (history)

procVars == <<kind, st>>
vars == <<kind, st, pidfile, lock, cmd, pc, read, kids, todo, ret, out,
          crashes, reboots, orderly, stranded>>

Alive == {"booting", "serving", "stopping"}

\* os.kill(pid, 0) succeeds: the process exists, whoever it belongs to.
is_alive(p) == p \in Pids /\ st[p] \in Alive

\* Processes that hold the service's port.  The port admits one of them.
Holders(s) == {p \in Pids : kind[p] = s /\ st[p] \in {"serving", "stopping"}}

Init ==
  /\ kind = [p \in Pids |-> "none"]
  /\ st = [p \in Pids |-> "unused"]
  /\ pidfile = NoPids
  /\ lock = Nobody
  /\ cmd = [c \in Shells |-> "none"]
  /\ pc = [c \in Shells |-> "idle"]
  /\ read = [c \in Shells |-> NoPids]
  /\ kids = [c \in Shells |-> NoPids]
  /\ todo = [c \in Shells |-> <<>>]
  /\ ret = [c \in Shells |-> "none"]
  /\ out = [c \in Shells |-> "none"]
  /\ crashes = 0
  /\ reboots = 0
  /\ orderly = TRUE
  /\ stranded = {}

-----------------------------------------------------------------------------
(* Control of one command. *)

Goto(c, label) == pc' = [pc EXCEPT ![c] = label]

\* The process of the command ends; the kernel drops its flock.
Exit(c, result) ==
  /\ pc' = [pc EXCEPT ![c] = "idle"]
  /\ out' = [out EXCEPT ![c] = result]
  /\ lock' = IF lock = c THEN Nobody ELSE lock
  /\ read' = [read EXCEPT ![c] = NoPids]
  /\ kids' = [kids EXCEPT ![c] = NoPids]
  /\ todo' = [todo EXCEPT ![c] = <<>>]
  /\ ret' = [ret EXCEPT ![c] = "none"]
  /\ cmd' = [cmd EXCEPT ![c] = "none"]

Begin(c, command, label) ==
  /\ pc[c] = "idle"
  /\ cmd' = [cmd EXCEPT ![c] = command]
  /\ pc' = [pc EXCEPT ![c] = label]
  /\ out' = [out EXCEPT ![c] = "none"]
  /\ UNCHANGED <<kind, st, pidfile, read, kids, todo, ret, crashes, reboots, stranded>>

\* Consecutive kill_pid calls on `services', then the statement `label'.
KillThen(c, services, label) ==
  IF services = <<>>
  THEN Goto(c, label) /\ UNCHANGED <<todo, ret>>
  ELSE /\ Goto(c, "kill")
       /\ todo' = [todo EXCEPT ![c] = services]
       /\ ret' = [ret EXCEPT ![c] = label]

\* The PID behind the next kill_pid call: cleanup of a failed start kills what
\* this command started, everything else kills what the file named.
Victim(c) ==
  IF ret[c] = "failed" THEN kids[c][Head(todo[c])] ELSE read[c][Head(todo[c])]

\* kill_pid returned: go on with the next one, or after the calls.
KillReturns(c) ==
  /\ todo' = [todo EXCEPT ![c] = Tail(@)]
  /\ Goto(c, IF Len(todo[c]) > 1 THEN "kill" ELSE ret[c])
  /\ ret' = IF Len(todo[c]) > 1 THEN ret ELSE [ret EXCEPT ![c] = "none"]

\* SIGTERM: already gone, delivered, or refused (another user's process), which
\* nothing catches: the command dies with the traceback.
KillTerm(c) ==
  /\ pc[c] = "kill"
  /\ \/ /\ ~is_alive(Victim(c))
        /\ KillReturns(c)
        /\ UNCHANGED <<st, lock, cmd, read, kids, out>>
     \/ /\ is_alive(Victim(c))
        /\ st' = [st EXCEPT ![Victim(c)] = "stopping"]
        /\ Goto(c, "kill_wait")
        /\ UNCHANGED <<lock, cmd, read, kids, todo, ret, out>>
     \/ /\ is_alive(Victim(c)) /\ kind[Victim(c)] = "foreign"
        /\ Exit(c, "fail")
        /\ UNCHANGED st
  /\ UNCHANGED <<kind, pidfile, crashes, reboots, orderly, stranded>>

\* The process exits within wait_s, or the deadline passes and SIGKILL ends it.
KillWait(c) ==
  /\ pc[c] = "kill_wait"
  /\ st' = [st EXCEPT ![Victim(c)] = "dead"]
  /\ KillReturns(c)
  /\ UNCHANGED <<kind, pidfile, lock, cmd, read, kids, out,
                 crashes, reboots, orderly, stranded>>

-----------------------------------------------------------------------------
(* yoitsu up *)

\* LOCK_EX | LOCK_NB: the second `up' fails at once.
UpAcquire(c) ==
  /\ lock = Nobody
  /\ Begin(c, "up", "up_read")
  /\ lock' = c
  /\ orderly' = (orderly /\ \A d \in Shells : cmd[d] # "down")

UpRefused(c) ==
  /\ pc[c] = "idle" /\ lock # Nobody /\ out[c] # "fail"
  /\ out' = [out EXCEPT ![c] = "fail"]
  /\ UNCHANGED <<kind, st, pidfile, lock, cmd, pc, read, kids, todo, ret,
                 crashes, reboots, orderly, stranded>>

UpRead(c) ==
  /\ pc[c] = "up_read"
  /\ read' = [read EXCEPT ![c] = pidfile]
  /\ Goto(c, IF pidfile = NoPids THEN "start_pasloe" ELSE "up_check")
  /\ UNCHANGED <<kind, st, pidfile, lock, cmd, kids, todo, ret, out,
                 crashes, reboots, orderly, stranded>>

\* `if is_alive(pid): kill_pid(pid)'.
IfAlive(c, s) == IF is_alive(read[c][s]) THEN <<s>> ELSE <<>>

\* At most one of the two is alive where `up' kills the survivor.
Survivor(c) ==
  IF is_alive(read[c]["pasloe"]) THEN <<"pasloe">> ELSE IfAlive(c, "trenni")

\* Mutant: a half-dead stack is cleared from the file but its survivor lives on.
UpCheckNoKill(c) ==
  /\ pc[c] = "up_check"
  /\ IF \A s \in Services : is_alive(read[c][s])
     THEN Exit(c, "ok")
     ELSE /\ KillThen(c, <<>>, "up_clear")
          /\ UNCHANGED <<lock, cmd, read, kids, out>>
  /\ UNCHANGED <<kind, st, pidfile, crashes, reboots, orderly, stranded>>

\* Both alive: nothing to do.  Otherwise the survivor is killed, the file cleared.
UpCheck(c) ==
  /\ pc[c] = "up_check"
  /\ IF \A s \in Services : is_alive(read[c][s])
     THEN Exit(c, "ok")
     ELSE /\ KillThen(c, Survivor(c), "up_clear")
          /\ UNCHANGED <<lock, cmd, read, kids, out>>
  /\ UNCHANGED <<kind, st, pidfile, crashes, reboots, orderly, stranded>>

UpClear(c) ==
  /\ pc[c] = "up_clear"
  /\ pidfile' = NoPids
  /\ Goto(c, "start_pasloe")
  /\ UNCHANGED <<kind, st, lock, cmd, read, kids, todo, ret, out,
                 crashes, reboots, orderly, stranded>>

\* Popen: a new detached process, or an exception.
Start(c, s, next) ==
  \E p \in Pids :
    /\ st[p] = "unused" /\ \A q \in Pids : st[q] = "unused" => p <= q
    /\ kind' = [kind EXCEPT ![p] = s]
    /\ st' = [st EXCEPT ![p] = "booting"]
    /\ kids' = [kids EXCEPT ![c][s] = p]
    /\ Goto(c, next)

StartPasloe(c) ==
  /\ pc[c] = "start_pasloe"
  /\ \/ Start(c, "pasloe", "wait_pasloe") /\ UNCHANGED <<lock, cmd, read, todo, ret, out>>
     \/ Exit(c, "fail") /\ UNCHANGED procVars
  /\ UNCHANGED <<pidfile, crashes, reboots, orderly, stranded>>

\* Mutant: trenni's Popen raises and pasloe is left running.
StartTrenniNoCleanup(c) ==
  /\ pc[c] = "start_trenni"
  /\ \/ Start(c, "trenni", "wait_trenni") /\ UNCHANGED <<todo, ret>>
     \/ KillThen(c, <<>>, "failed") /\ UNCHANGED <<kind, st, kids>>
  /\ UNCHANGED <<pidfile, lock, cmd, read, out, crashes, reboots, orderly, stranded>>

StartTrenni(c) ==
  /\ pc[c] = "start_trenni"
  /\ \/ Start(c, "trenni", "wait_trenni") /\ UNCHANGED <<todo, ret>>
     \/ KillThen(c, <<"pasloe">>, "failed") /\ UNCHANGED <<kind, st, kids>>
  /\ UNCHANGED <<pidfile, lock, cmd, read, out, crashes, reboots, orderly, stranded>>

\* Mutant: the readiness poll has no deadline.
WaitReadyForever(c, s, next, cleanup) ==
  /\ Holders(s) # {}
  /\ Goto(c, next)
  /\ UNCHANGED <<todo, ret, kind, st, pidfile, lock, cmd, read, kids, out,
                 crashes, reboots, orderly, stranded>>

\* _wait_ready polls the service's URL: whoever holds the port answers.  The
\* poll may also time out, however healthy the service is.
WaitReady(c, s, next, cleanup) ==
  /\ \/ /\ Holders(s) # {}
        /\ Goto(c, next)
        /\ UNCHANGED <<todo, ret>>
     \/ KillThen(c, cleanup, "failed")
  /\ UNCHANGED <<kind, st, pidfile, lock, cmd, read, kids, out,
                 crashes, reboots, orderly, stranded>>

WaitPasloe(c) ==
  pc[c] = "wait_pasloe" /\ WaitReady(c, "pasloe", "start_trenni", <<"pasloe">>)

\* Mutants: the failed start kills only trenni, or kills in the wrong order.
WaitTrenniHalfCleanup(c) ==
  pc[c] = "wait_trenni" /\ WaitReady(c, "trenni", "write", <<"trenni">>)

WaitTrenni(c) ==
  pc[c] = "wait_trenni" /\ WaitReady(c, "trenni", "write", <<"trenni", "pasloe">>)

UpFailed(c) ==
  /\ pc[c] = "failed"
  /\ Exit(c, "fail")
  /\ UNCHANGED <<kind, st, pidfile, crashes, reboots, orderly, stranded>>

WritePids(c) ==
  /\ pc[c] = "write"
  /\ pidfile' = kids[c]
  /\ Exit(c, "ok")
  /\ UNCHANGED <<kind, st, crashes, reboots, orderly, stranded>>

\* `up' ends by an exception, with whatever it has started alive and on no record.
Raise(c) ==
  /\ crashes < MaxCrashes
  /\ crashes' = crashes + 1
  /\ Exit(c, "raised")
  /\ stranded' = stranded \cup (Pids \cap {kids[c][s] : s \in Services})
  /\ UNCHANGED <<kind, st, pidfile, reboots, orderly>>

\* A statement of _do_up outside its own handlers raises after a Popen: a client's
\* constructor or aclose, Path.resolve.  `except Exception' reports it and kills nothing.
UpRaises(c) ==
  pc[c] \in {"wait_pasloe", "start_trenni", "wait_trenni"} /\ Raise(c)

\* OSError: write_pids stands outside any try.  The file is absent, or truncated.
WritePidsFails(c) ==
  pc[c] = "write" /\ Raise(c)

-----------------------------------------------------------------------------
(* yoitsu down *)

Down(c) ==
  /\ Begin(c, "down", "down_read")
  /\ orderly' = (orderly /\ \A d \in Shells : pc[d] = "idle")
  /\ UNCHANGED lock

DownRead(c) ==
  /\ pc[c] = "down_read"
  /\ IF pidfile = NoPids
     THEN Exit(c, "ok")
     ELSE /\ read' = [read EXCEPT ![c] = pidfile]
          /\ Goto(c, "down_check")
          /\ UNCHANGED <<lock, cmd, kids, todo, ret, out>>
  /\ UNCHANGED <<kind, st, pidfile, crashes, reboots, orderly, stranded>>

DownCheck(c) ==
  /\ pc[c] = "down_check"
  /\ Goto(c, IF \A s \in Services : ~is_alive(read[c][s]) THEN "down_clear"
             ELSE IF is_alive(read[c]["trenni"]) THEN "down_stop"
             ELSE "down_pasloe")
  /\ UNCHANGED <<kind, st, pidfile, lock, cmd, read, kids, todo, ret, out,
                 crashes, reboots, orderly, stranded>>

\* POST /control/stop reaches whichever trenni holds the port, or nobody; an
\* error is ignored.
DownStop(c) ==
  /\ pc[c] = "down_stop"
  /\ \/ \E p \in Holders("trenni") : st' = [st EXCEPT ![p] = "stopping"]
     \/ UNCHANGED st
  /\ Goto(c, "down_poll")
  /\ UNCHANGED <<kind, pidfile, lock, cmd, read, kids, todo, ret, out,
                 crashes, reboots, orderly, stranded>>

\* Mutant: trenni is not killed when the graceful stop runs out of time.
DownPollGivesUp(c) ==
  /\ pc[c] = "down_poll"
  /\ Goto(c, "down_pasloe")
  /\ UNCHANGED <<todo, ret, kind, st, pidfile, lock, cmd, read, kids, out,
                 crashes, reboots, orderly, stranded>>

\* The PID exits within 30 s, or is killed.
DownPoll(c) ==
  /\ pc[c] = "down_poll"
  /\ \/ ~is_alive(read[c]["trenni"]) /\ Goto(c, "down_pasloe") /\ UNCHANGED <<todo, ret>>
     \/ is_alive(read[c]["trenni"]) /\ KillThen(c, <<"trenni">>, "down_pasloe")
  /\ UNCHANGED <<kind, st, pidfile, lock, cmd, read, kids, out,
                 crashes, reboots, orderly, stranded>>

\* Mutant: pasloe is left to stop by itself.
DownPasloeSkipped(c) ==
  /\ pc[c] = "down_pasloe"
  /\ KillThen(c, <<>>, "down_clear")
  /\ UNCHANGED <<kind, st, pidfile, lock, cmd, read, kids, out,
                 crashes, reboots, orderly, stranded>>

DownPasloe(c) ==
  /\ pc[c] = "down_pasloe"
  /\ KillThen(c, IfAlive(c, "pasloe"), "down_clear")
  /\ UNCHANGED <<kind, st, pidfile, lock, cmd, read, kids, out,
                 crashes, reboots, orderly, stranded>>

DownClear(c) ==
  /\ pc[c] = "down_clear"
  /\ pidfile' = NoPids
  /\ Exit(c, "ok")
  /\ UNCHANGED <<kind, st, crashes, reboots, orderly, stranded>>

-----------------------------------------------------------------------------
(* The services and the environment. *)

\* A booting service binds its port if no other process holds it.
Bind(p) ==
  /\ st[p] = "booting" /\ kind[p] \in Services
  /\ Holders(kind[p]) = {}
  /\ st' = [st EXCEPT ![p] = "serving"]
  /\ UNCHANGED <<kind, pidfile, lock, cmd, pc, read, kids, todo, ret, out,
                 crashes, reboots, orderly, stranded>>

\* It could not bind, finished stopping, or crashed.
Die(p) ==
  /\ st[p] \in Alive
  /\ st' = [st EXCEPT ![p] = "dead"]
  /\ UNCHANGED <<kind, pidfile, lock, cmd, pc, read, kids, todo, ret, out,
                 crashes, reboots, orderly, stranded>>

\* Ctrl-C or SIGKILL: KeyboardInterrupt is no Exception, so nothing is cleaned up.
Interrupt(c) ==
  /\ pc[c] # "idle" /\ crashes < MaxCrashes
  /\ crashes' = crashes + 1
  /\ orderly' = FALSE
  /\ Exit(c, "none")
  /\ UNCHANGED <<kind, st, pidfile, reboots, stranded>>

\* Every process is gone, the PID file is not, and the kernel hands the same
\* numbers out again, to any program.
Reboot ==
  /\ reboots < MaxReboots
  /\ reboots' = reboots + 1
  /\ orderly' = FALSE
  /\ stranded' = {}
  /\ \E taken \in SUBSET {p \in Pids : st[p] # "unused"} :
       /\ kind' = [p \in Pids |-> IF p \in taken THEN "foreign" ELSE kind[p]]
       /\ st' = [p \in Pids |-> IF p \in taken THEN "serving"
                                ELSE IF st[p] = "unused" THEN "unused" ELSE "dead"]
  /\ lock' = Nobody
  /\ pc' = [c \in Shells |-> "idle"]
  /\ read' = [c \in Shells |-> NoPids]
  /\ kids' = [c \in Shells |-> NoPids]
  /\ todo' = [c \in Shells |-> <<>>]
  /\ ret' = [c \in Shells |-> "none"]
  /\ out' = [c \in Shells |-> "none"]
  /\ cmd' = [c \in Shells |-> "none"]
  /\ UNCHANGED <<pidfile, crashes>>

\* One statement of the command shell c is running.
Step(c) ==
  \/ UpRead(c) \/ UpCheck(c) \/ UpClear(c) \/ StartPasloe(c) \/ WaitPasloe(c)
  \/ StartTrenni(c) \/ WaitTrenni(c) \/ UpFailed(c) \/ UpRaises(c)
  \/ WritePids(c) \/ WritePidsFails(c)
  \/ DownRead(c) \/ DownCheck(c) \/ DownStop(c) \/ DownPoll(c) \/ DownPasloe(c)
  \/ DownClear(c)
  \/ KillTerm(c) \/ KillWait(c)

Next ==
  \/ \E c \in Shells : UpAcquire(c) \/ UpRefused(c) \/ Down(c) \/ Step(c) \/ Interrupt(c)
  \/ \E p \in Pids : Bind(p) \/ Die(p)
  \/ Reboot

\* A running command keeps running: every wait in it has a deadline.  Nobody has
\* to type a command, and no service has to boot, answer or exit.
Spec == Init /\ [][Next]_vars /\ \A c \in Shells : WF_vars(Step(c))

-----------------------------------------------------------------------------
(* Properties. *)

Labels ==
  {"idle", "kill", "kill_wait", "up_read", "up_check", "up_clear", "start_pasloe",
   "wait_pasloe", "start_trenni", "wait_trenni", "failed", "write", "down_read",
   "down_check", "down_stop", "down_poll", "down_pasloe", "down_clear"}

KillLists ==
  {<<>>, <<"pasloe">>, <<"trenni">>, <<"trenni", "pasloe">>}

\* Every variable has its type.
TypeOK ==
  /\ kind \in [Pids -> Services \cup {"none", "foreign"}]
  /\ st \in [Pids -> Alive \cup {"unused", "dead"}]
  /\ pidfile \in PidPair
  /\ lock \in Shells \cup {Nobody}
  /\ cmd \in [Shells -> {"none", "up", "down"}]
  /\ pc \in [Shells -> Labels]
  /\ read \in [Shells -> PidPair]
  /\ kids \in [Shells -> PidPair]
  /\ todo \in [Shells -> KillLists]
  /\ ret \in [Shells -> {"none", "up_clear", "failed", "down_pasloe", "down_clear"}]
  /\ out \in [Shells -> {"none", "ok", "fail", "raised"}]
  /\ crashes \in Nat
  /\ reboots \in Nat
  /\ orderly \in BOOLEAN
  /\ stranded \subseteq Pids

Running(p) == kind[p] \in Services /\ st[p] \in Alive
Recorded(p) == \E s \in Services : pidfile[s] = p
Owned(p) == \E c \in Shells, s \in Services : kids[c][s] = p

\* As long as operators are orderly, every live service process is on record in
\* .pids.json or in the hands of the `up' that started it, so that a later command
\* can find and stop it, whatever services fail to start or die.  The one way to lose
\* a service is an exception that ends `up' behind its own cleanup (cli.py:685-687).
NoOrphans == orderly =>
  \A p \in Pids : Running(p) => Recorded(p) \/ Owned(p) \/ p \in stranded

\* Nor are there ever two stacks, beside what such an exception has left: `up' kills
\* the survivor of a half-dead stack before it starts one.
OneStack == orderly =>
  \A p, q \in Pids \ stranded :
    Running(p) /\ Running(q) /\ kind[p] = kind[q] => p = q

\* The flock: two `up's never have processes in hand at once, so the one that
\* writes .pids.json last is the one whose processes answer, whatever `down's,
\* interrupts and reboots happen in between.
OneStarter ==
  \A c, d \in Shells : kids[c] # NoPids /\ kids[d] # NoPids => c = d

Returns(c, command) ==
  cmd[c] = command /\ pc[c] # "idle" /\ pc'[c] = "idle" /\ out'[c] = "ok"

\* An orderly `down' ("Stop trenni + pasloe.") leaves no service process when it
\* answers ok, but those an `up' lost to an exception, which no file names.
DownStops ==
  [][\A c \in Shells : orderly /\ Returns(c, "down") =>
       \A p \in Pids : Running(p)' => p \in stranded]_vars

\* The services `down' found in the file are dead when it answers ok, in any
\* company and after any crash: its stop request may have reached another trenni.
DownStopsWhatItRead ==
  [][\A c \in Shells : Returns(c, "down") =>
       \A s \in Services : read[c][s] \in Pids => st'[read[c][s]] \notin Alive]_vars

\* Each failure _do_up handles (a Popen that raises, a service that does not become
\* ready, at either service) leaves nothing: none of the processes this `up' started
\* is alive when it reports it.  UpRaises and WritePidsFails are the unhandled ones.
FailedUpCleansUp ==
  [][\A c \in Shells : pc[c] # "idle" /\ pc'[c] = "idle" /\ out'[c] = "fail" =>
       \A s \in Services : kids[c][s] \in Pids => st'[kids[c][s]] \notin Alive]_vars

\* Every command ends, and with it the lock goes, whatever the services do.
CommandsEnd == \A c \in Shells : pc[c] # "idle" ~> pc[c] = "idle"
===============================================================================
