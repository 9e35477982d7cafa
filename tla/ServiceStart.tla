------------------------------ MODULE ServiceStart ------------------------------
(***************************************************************************)
(* start-trenni.sh, the program of Trenni's container: it brings the       *)
(* packages the service is made of up to the revision of their sources and *)
(* becomes the service.  Per package there are the source (mounted         *)
(* read-only, changed from outside), a build tree, and a marker that holds *)
(* the revision installed last.  All packages are installed into one venv, *)
(* which begins as a copy of the one in the image.                         *)
(*                                                                         *)
(* systemd starts the script again whenever it ends (Restart=always).  It  *)
(* may be killed between any two commands, which for `cp' and `pip' means  *)
(* half way; and while it is stopped the operator may clear the venv or a  *)
(* build tree.  A revision is what current_src_rev prints: changes that it *)
(* does not see (git rev-parse HEAD before a commit) are no revisions.     *)
(***************************************************************************)
EXTENDS Naturals, Sequences

CONSTANTS
  Packages,   \* the packages' names, in the order in which the script treats them
  MaxRev,     \* bound: revisions of a source
  MaxKills,   \* bound: starts that are cut off
  MaxClears   \* bound: times the operator clears something

Package == {Packages[i] : i \in DOMAIN Packages}

\* Revisions count from 1, which is also what the image was built from.
BaseRev == 1
Missing == 0
Torn == MaxRev + 1
All(rev) == [p \in Package |-> rev]

VARIABLES
  pc,      \* where the script is; "stopped", or "running" once it is the service
  at,      \* the package it is at
  cur,     \* current_rev
  src,     \* the revision of each source
  build,   \* what each build tree holds: a revision, Torn, or Missing
  marker,  \* the revision in each .rev file, or Missing
  venv,    \* the venv: is there a directory, its python, all of the image's; and each package
  asked,   \* history: the revisions of the sources when the script was started
  kills, clears

vars == <<pc, at, cur, src, build, marker, venv, asked, kills, clears>>

NoVenv == [dir |-> FALSE, python |-> FALSE, whole |-> FALSE, has |-> All(Missing)]
BaseVenv == [dir |-> TRUE, python |-> TRUE, whole |-> TRUE, has |-> All(BaseRev)]

P == Packages[at]

Init ==
  /\ pc = "stopped" /\ at = 1 /\ cur = Missing
  /\ src \in [Package -> BaseRev..MaxRev] /\ asked = src
  /\ build = All(Missing) /\ marker = All(Missing) /\ venv = NoVenv
  /\ kills = 0 /\ clears = 0

Start ==
  /\ pc = "stopped"
  /\ pc' = "check" /\ at' = 1 /\ asked' = src
  /\ UNCHANGED <<cur, src, build, marker, venv, kills, clears>>

\* The script has ended in an error (set -e): systemd will start it again.
Exit == pc' = "stopped" /\ UNCHANGED <<at, cur, src, build, marker, venv, asked, kills, clears>>

Goto(label) == pc' = label /\ UNCHANGED <<at, src, asked, kills, clears>>

\* On to the next package, or to the wait for Pasloe.
NextPackage ==
  /\ IF at < Len(Packages) THEN pc' = "check" /\ at' = at + 1 ELSE pc' = "wait" /\ at' = at
  /\ UNCHANGED <<src, build, venv, asked, kills, clears>>

NeedsRefresh == build[P] = Missing \/ ~venv.python \/ src[P] # marker[P]

Check ==
  /\ pc = "check"
  /\ cur' = src[P]
  /\ \/ NeedsRefresh /\ Goto("sync") /\ UNCHANGED <<build, marker, venv>>
     \/ ~NeedsRefresh /\ NextPackage /\ UNCHANGED marker

\* rm -rf and mkdir; the source may have moved on when it is copied.
SyncBegins ==
  /\ pc = "sync"
  /\ build' = [build EXCEPT ![P] = Torn]
  /\ Goto("syncing") /\ UNCHANGED <<cur, marker, venv>>

Synced ==
  /\ pc = "syncing"
  /\ build' = [build EXCEPT ![P] = src[P]]
  /\ Goto("venv") /\ UNCHANGED <<cur, marker, venv>>

HasPython ==
  /\ pc = "venv" /\ venv.python
  /\ Goto("install") /\ UNCHANGED <<cur, build, marker, venv>>

\* cp -a of the image's venv: python may be among the first files or the last ones.
CopyBegins ==
  /\ pc = "venv" /\ ~venv.python /\ ~venv.dir
  /\ \E python \in BOOLEAN : venv' = [NoVenv EXCEPT !.dir = TRUE, !.python = python]
  /\ Goto("copying") /\ UNCHANGED <<cur, build, marker>>

CopyEnds ==
  /\ pc = "copying"
  /\ venv' = BaseVenv
  /\ Goto("basemark") /\ UNCHANGED <<cur, build, marker>>

\* Into a directory that is there, cp -a copies beside what it should replace.
CopyNested ==
  /\ pc = "venv" /\ ~venv.python /\ venv.dir
  /\ Goto("basemark") /\ UNCHANGED <<cur, build, marker, venv>>

\* The image says which revision of this package, and of no other, it was built from;
\* or it was built without saying.
BaseMark ==
  /\ pc = "basemark"
  /\ \E rev \in {Missing, BaseRev} : marker' = [marker EXCEPT ![P] = rev]
  /\ Goto("install") /\ UNCHANGED <<cur, build, venv>>

\* pip takes the old package away before it puts the new one in its place.
InstallBegins ==
  /\ pc = "install" /\ venv.python /\ venv.whole
  /\ venv' = [venv EXCEPT !.has[P] = Missing]
  /\ Goto("installing") /\ UNCHANGED <<cur, build, marker>>

InstallEnds ==
  /\ pc = "installing"
  /\ venv' = [venv EXCEPT !.has[P] = build[P]]
  /\ Goto("mark") /\ UNCHANGED <<cur, build, marker>>

\* No python, no pip, or pip cannot build the package.
InstallFails == pc = "install" /\ Exit

Mark ==
  /\ pc = "mark"
  /\ marker' = [marker EXCEPT ![P] = cur]
  /\ NextPackage /\ UNCHANGED cur

\* Pasloe is up: the script becomes the service, if there is one in the venv.
Exec ==
  /\ pc = "wait" /\ venv.whole /\ \A p \in Package : venv.has[p] # Missing
  /\ Goto("running") /\ UNCHANGED <<cur, build, marker, venv>>

\* Pasloe is not ready in 60 s, or there is nothing to become.
GiveUp == pc = "wait" /\ Exit

\* The service ends or is restarted.
Stop == pc = "running" /\ Exit

Kill ==
  /\ pc \notin {"stopped", "running"} /\ kills < MaxKills
  /\ pc' = "stopped" /\ kills' = kills + 1
  /\ UNCHANGED <<at, cur, src, build, marker, venv, asked, clears>>

Revise(p) ==
  /\ src[p] < MaxRev
  /\ src' = [src EXCEPT ![p] = @ + 1]
  /\ UNCHANGED <<pc, at, cur, build, marker, venv, asked, kills, clears>>

ClearVenv ==
  /\ pc = "stopped" /\ clears < MaxClears
  /\ venv' = NoVenv /\ clears' = clears + 1
  /\ UNCHANGED <<pc, at, cur, src, build, marker, asked, kills>>

ClearBuild(p) ==
  /\ pc = "stopped" /\ clears < MaxClears
  /\ build' = [build EXCEPT ![p] = Missing] /\ clears' = clears + 1
  /\ UNCHANGED <<pc, at, cur, src, marker, venv, asked, kills>>

Script ==
  \/ Start \/ Check \/ SyncBegins \/ Synced \/ HasPython \/ CopyBegins \/ CopyEnds \/ CopyNested
  \/ BaseMark \/ InstallBegins \/ InstallEnds \/ InstallFails \/ Mark \/ Exec \/ GiveUp

Next ==
  \/ Script \/ Stop \/ Kill \/ ClearVenv
  \/ \E p \in Package : Revise(p) \/ ClearBuild(p)

Spec == Init /\ [][Next]_vars

(***************************************************************************)
(* Properties                                                              *)
(***************************************************************************)

\* "source changes are picked up on service restart because the wrapper recopies and
\* reinstalls the service repo" (deploy/quadlet/README.md:129): the service runs
\* nothing older than what the sources were at when its start began.
ChangesPickedUp ==
  pc = "running" => \A p \in Package : venv.has[p] >= asked[p]
================================================================================
