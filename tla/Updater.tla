-------------------------------- MODULE Updater --------------------------------
(***************************************************************************)
(* The update of an OpenWRT router: openwrt/update.sh apply, the installer *)
(* it runs, the rpcd method that starts it detached and the LuCI page that *)
(* polls its log.  What matters is what is on the disk between any two     *)
(* steps, because the updater may be killed, the power may fail, and       *)
(* nothing keeps a second updater from starting on the command line.       *)
(*                                                                         *)
(* A directory is the versions of its files; it exists if it has a file.   *)
(* What is written is on the flash at once: the scripts never call sync, so *)
(* a file system that delays its writes can lose more than shown here.     *)
(* Versions differ in every file.                                          *)
(***************************************************************************)
EXTENDS Naturals, FiniteSets

CONSTANTS
  Versions,      \* release tags
  Broken,        \* the releases whose modules cannot be imported
  NoVersion,     \* of a file that is not there, or of a service on a mixed tree
  Files,         \* the files of /opt/sni-spoof, numbered as install.sh copies them
  UpdateSh,      \* the one that is update.sh
  Outside,       \* how many files it then copies elsewhere: the init script, LuCI
  Updaters,      \* identities of update.sh processes
  NoUpdater,
  Pages,         \* LuCI pages with an update button
  MaxRuns,       \* how many updates are started
  MaxCuts,       \* how often the power fails
  MaxKills       \* how often an updater is killed

ASSUME UpdaterAssumption ==
  /\ Broken \subseteq Versions /\ NoVersion \notin Versions
  /\ Files \in Nat \ {0} /\ UpdateSh \in 1 .. Files /\ Outside \in Nat
  /\ NoUpdater \notin Updaters
  /\ MaxRuns \in Nat /\ MaxCuts \in Nat /\ MaxKills \in Nat

VARIABLES
  \* the flash
  prog,          \* PROG_DIR
  backup,        \* BACKUP_DIR
  outside,       \* the files install.sh puts elsewhere
  \* the updaters
  pc,            \* where cmd_apply, or install.sh under it, is
  tag,           \* the release in its temporary directory
  copied,        \* how many files install.sh has copied
  todo,          \* the files the backup still has to copy
  rc,            \* the return code of cmd_apply
  tee,           \* the updaters whose tee writes into the present log file
  \* /tmp, lost with the power
  log,           \* the codes of the EXIT: lines in the log
  pid,           \* the live updater the pid file names
  daemons,       \* children of start-stop-daemon that have not written it yet
  \* the others
  page,          \* where runUpdate() of each page is
  service,       \* the version main.py runs
  \* history and bounds
  origin,        \* the tree the latest update found
  ended,         \* the codes updates have ended with since the page removed the log
  torn,          \* the pages that have read nothing since the log was removed or truncated
  stray,         \* whether the log of an updater that was running was removed
  runs,          \* the updates asked for
  cuts, kills

disk    == <<prog, backup, outside>>
proc    == <<pc, tag, copied, todo, rc, tee>>
tmp     == <<log, pid, daemons>>
told    == <<ended, torn, stray>>
bounds  == <<origin, ended, torn, stray, runs, cuts, kills>>
vars    == <<disk, proc, tmp, page, service, bounds>>

Content == Versions \cup {NoVersion}
Tree    == [1 .. Files -> Content]
Stages  == {"none", "fetch", "unlink", "unlinked", "backup", "install", "import",
            "commit", "restart", "rollback", "remove", "restore", "revert", "exit", "end"}

\* Where a page is: "polling" before each request for the status, then what that has
\* found so far, and "success" or "failure" once the page has said so.
Following == {"polling", "finished", "good", "bad"}
Asking    == {"granted", "starting"} \cup Following

TypeOK ==
  /\ prog \in Tree /\ backup \in Tree /\ origin \in Tree
  /\ outside \in [1 .. Outside -> Content]
  /\ pc \in [Updaters -> Stages]
  /\ tag \in [Updaters -> Content]
  /\ copied \in [Updaters -> 0 .. Files + Outside]
  /\ todo \in [Updaters -> SUBSET (1 .. Files)]
  /\ rc \in [Updaters -> {0, 1}]
  /\ tee \subseteq Updaters
  /\ log \subseteq {0, 1}
  /\ pid \in Updaters \cup {NoUpdater}
  /\ daemons \in Nat
  /\ page \in [Pages -> {"closed", "success", "failure"} \cup Asking]
  /\ service \in Content
  /\ ended \in [Pages -> SUBSET {0, 1}] /\ torn \subseteq Pages /\ stray \in BOOLEAN
  /\ runs \in 0 .. MaxRuns /\ cuts \in 0 .. MaxCuts /\ kills \in 0 .. MaxKills

Empty == [f \in 1 .. Files |-> NoVersion]
Of(v) == [f \in 1 .. Files |-> v]
exists(t) == \E f \in 1 .. Files : t[f] # NoVersion

\* A complete tree of one release, and one that also runs.
Whole(t) == \E v \in Versions : t = Of(v)
Good(t)  == \E v \in Versions \ Broken : t = Of(v)

\* What main.py is when procd starts it now.
Started(v) == (v \in Versions /\ prog = Of(v)) \/ (v = NoVersion /\ ~Whole(prog))

\* A router with a release installed by hand.
Init ==
  /\ \E v \in Versions \ Broken :
       /\ prog = Of(v) /\ outside = [o \in 1 .. Outside |-> v] /\ service = v
  /\ backup = Empty /\ origin = prog
  /\ pc = [u \in Updaters |-> "none"] /\ tag = [u \in Updaters |-> NoVersion]
  /\ copied = [u \in Updaters |-> 0] /\ todo = [u \in Updaters |-> {}]
  /\ rc = [u \in Updaters |-> 0] /\ tee = {}
  /\ log = {} /\ pid = NoUpdater /\ daemons = 0
  /\ page = [g \in Pages |-> "closed"]
  /\ ended = [g \in Pages |-> {}] /\ torn = {} /\ stray = FALSE
  /\ runs = 0 /\ cuts = 0 /\ kills = 0

(***************************************************************************)
(* rpcd and the page                                                       *)
(***************************************************************************)
update_running == pid # NoUpdater

\* method_update checks and, in a step of its own, removes the log of the last
\* update.  A tee that is still at work goes on writing into the removed file.
Ask(g) ==
  /\ page[g] \in {"closed", "success", "failure"}
  /\ runs < MaxRuns /\ runs' = runs + 1
  /\ ~update_running /\ prog[UpdateSh] # NoVersion
  /\ page' = [page EXCEPT ![g] = "granted"]
  /\ UNCHANGED <<disk, proc, tmp, service, origin, told, cuts, kills>>

\* (A plausible bug: the log of the last update is left.)
KeepLog(g) ==
  /\ page[g] = "granted" /\ page' = [page EXCEPT ![g] = "starting"]
  /\ torn' = Pages /\ ended' = [ended EXCEPT ![g] = {}] /\ UNCHANGED stray
  /\ UNCHANGED <<disk, proc, tmp, service, origin, runs, cuts, kills>>

ClearLog(g) ==
  /\ page[g] = "granted" /\ page' = [page EXCEPT ![g] = "starting"]
  /\ log' = {} /\ tee' = {}
  /\ torn' = Pages /\ ended' = [ended EXCEPT ![g] = {}] /\ stray' = (stray \/ update_running)
  /\ UNCHANGED <<disk, pc, tag, copied, todo, rc, pid, daemons, service, origin, runs, cuts,
                 kills>>

\* start-stop-daemon looks at the pid file once more, forks and returns; the
\* page is told that an update has started whatever it found.
StartStopDaemon(g) ==
  /\ page[g] = "starting" /\ page' = [page EXCEPT ![g] = "polling"]
  /\ daemons' = IF update_running THEN daemons ELSE daemons + 1
  /\ UNCHANGED <<disk, proc, log, pid, service, bounds>>

\* A new updater: its tee truncates the log.
Begin(u) ==
  /\ pc[u] = "none" /\ pc' = [pc EXCEPT ![u] = "fetch"]
  /\ log' = {} /\ tee' = tee \cup {u}
  /\ origin' = prog /\ torn' = Pages
  /\ UNCHANGED <<disk, tag, copied, todo, rc, page, service, ended, stray, cuts, kills>>

\* The child writes the pid file and becomes update.sh, if that is still there.
Launch(u) ==
  /\ pc[u] = "none"
  /\ daemons > 0 /\ daemons' = daemons - 1
  /\ IF prog[UpdateSh] # NoVersion
     THEN Begin(u) /\ pid' = u /\ UNCHANGED runs
     ELSE UNCHANGED <<disk, proc, log, pid, page, service, bounds>>

\* update.sh apply on the command line asks nobody.
CommandLine(u) ==
  /\ runs < MaxRuns /\ runs' = runs + 1
  /\ Begin(u) /\ UNCHANGED <<pid, daemons>>

\* method_update_status reads the log twice and then looks for the updater: three
\* steps, during which both may change.  First, whether there is an EXIT: line; if
\* there is none the page will ask again, whatever the other two find.
\* (A plausible bug: no such line is asked for, an updater that is gone has ended.)
HastyReadFinished(g) ==
  /\ page[g] = "polling" /\ page' = [page EXCEPT ![g] = "finished"]
  /\ torn' = torn \ {g}
  /\ UNCHANGED <<disk, proc, tmp, service, origin, ended, stray, runs, cuts, kills>>

ReadFinished(g) ==
  /\ page[g] = "polling" /\ log # {} /\ page' = [page EXCEPT ![g] = "finished"]
  /\ torn' = torn \ {g}
  /\ UNCHANGED <<disk, proc, tmp, service, origin, ended, stray, runs, cuts, kills>>

\* Then, whether there is an EXIT:0 line in what is now the log.
ReadSuccess(g) ==
  /\ page[g] = "finished"
  /\ page' = [page EXCEPT ![g] = IF 0 \in log THEN "good" ELSE "bad"]
  /\ UNCHANGED <<disk, proc, tmp, service, bounds>>

\* Then the pid file.  followUpdate() asks again while an updater runs; otherwise
\* runUpdate() says how the update ended.
ReadRunning(g) ==
  /\ page[g] \in {"good", "bad"}
  /\ page' = [page EXCEPT ![g] = IF update_running THEN "polling"
                                 ELSE IF @ = "good" THEN "success" ELSE "failure"]
  /\ UNCHANGED <<disk, proc, tmp, service, bounds>>

\* A request fails: the page says only that, and follows no further.
Catch(g) ==
  /\ page[g] \in Asking /\ page' = [page EXCEPT ![g] = "closed"]
  /\ UNCHANGED <<disk, proc, tmp, service, bounds>>

(***************************************************************************)
(* cmd_apply                                                               *)
(***************************************************************************)
Goto(u, a, b) == pc[u] = a /\ pc' = [pc EXCEPT ![u] = b]

\* What its steps leave alone.
around == <<tag, rc, tee, tmp, page, bounds>>

Step(u, a, b) == Goto(u, a, b) /\ UNCHANGED around

\* It ends with code c; nothing but the EXIT: line is left to do.
Return(u, a, c) ==
  /\ Goto(u, a, "exit") /\ rc' = [rc EXCEPT ![u] = c]
  /\ UNCHANGED <<disk, tag, copied, todo, tee, tmp, page, bounds>>

\* The tag, the download, the archive and its layout.
Fetch(u) ==
  /\ Goto(u, "fetch", "unlink")
  /\ \E v \in Versions : tag' = [tag EXCEPT ![u] = v]
  /\ UNCHANGED <<disk, copied, todo, rc, tee, tmp, page, service, bounds>>

FetchFails(u) == Return(u, "fetch", 1) /\ UNCHANGED service

\* rm -rf BACKUP_DIR, file by file in any order; rm ends when it finds none.
Unlink(u) ==
  /\ pc[u] \in {"unlink", "commit"}
  /\ \E f \in 1 .. Files :
       backup[f] # NoVersion /\ backup' = [backup EXCEPT ![f] = NoVersion]
  /\ UNCHANGED <<prog, outside, proc, tmp, page, service, bounds>>

Unlinked(u) ==
  /\ ~exists(backup) /\ Step(u, "unlink", "unlinked")
  /\ UNCHANGED <<disk, copied, todo, service>>

\* cp -a PROG_DIR BACKUP_DIR.  Should the backup have come back, cp copies into
\* a directory inside it, which nobody reads.
Present(t) == {f \in 1 .. Files : t[f] # NoVersion}

BeginBackup(u) ==
  /\ Step(u, "unlinked", "backup")
  /\ todo' = [todo EXCEPT ![u] = IF exists(backup) THEN {} ELSE Present(prog)]
  /\ UNCHANGED <<disk, copied, service>>

CopyBackup(u) ==
  /\ pc[u] = "backup"
  /\ \E f \in todo[u] :
       /\ backup' = [backup EXCEPT ![f] = prog[f]]
       /\ todo' = [todo EXCEPT ![u] = @ \ {f}]
  /\ UNCHANGED <<prog, outside, pc, copied, service, around>>

StartInstaller(u) ==
  /\ Step(u, "backup", "install")
  /\ copied' = [copied EXCEPT ![u] = 0]
  /\ UNCHANGED <<disk, todo, service>>

BackedUp(u) == todo[u] = {} /\ StartInstaller(u)

\* (A plausible bug: the installer runs although the backup has failed.)
CarelessBackupFails(u) == todo[u] # {} /\ StartInstaller(u)

\* The flash is full.
BackupFails(u) == todo[u] # {} /\ Return(u, "backup", 1) /\ UNCHANGED service

(***************************************************************************)
(* install.sh: the program files and VERSION, then what goes elsewhere     *)
(***************************************************************************)
\* (A plausible bug: the last file is copied twice.)
TwiceInstallFile(u) ==
  /\ pc[u] = "install" /\ copied[u] <= Files + Outside
  /\ copied' = [copied EXCEPT ![u] = @ + 1]
  /\ UNCHANGED <<disk, pc, todo, service, around>>

InstallFile(u) ==
  LET f == copied[u] + 1 IN
  /\ pc[u] = "install" /\ f <= Files + Outside
  /\ copied' = [copied EXCEPT ![u] = f]
  /\ IF f <= Files
     THEN prog' = [prog EXCEPT ![f] = tag[u]] /\ UNCHANGED outside
     ELSE outside' = [outside EXCEPT ![f - Files] = tag[u]] /\ UNCHANGED prog
  /\ UNCHANGED <<backup, pc, todo, service, around>>

\* `start' does nothing to a service that runs.
Installed(u) ==
  /\ copied[u] = Files + Outside /\ Step(u, "install", "import")
  /\ UNCHANGED <<disk, copied, todo, service>>

\* (A plausible bug: what a failed installer has copied is left as it is.)
CarelessInstallFails(u) ==
  copied[u] < Files + Outside /\ Return(u, "install", 1) /\ UNCHANGED service

\* No python3, a module that is missing, a copy or a commit that fails: set -e.
InstallFails(u) ==
  /\ copied[u] < Files + Outside /\ Step(u, "install", "rollback")
  /\ UNCHANGED <<disk, copied, todo, service>>

(***************************************************************************)
(* cmd_apply after the installer, and rollback                             *)
(***************************************************************************)
\* Whether the modules of a mixed tree can be imported is anyone's guess.
Imports(u) ==
  /\ \A v \in Broken : prog # Of(v)
  /\ Step(u, "import", "commit")
  /\ UNCHANGED <<disk, copied, todo, service>>

ImportFails(u) ==
  /\ Step(u, "import", "rollback")
  /\ UNCHANGED <<disk, copied, todo, service>>

Committed(u) ==
  /\ ~exists(backup) /\ Step(u, "commit", "restart")
  /\ UNCHANGED <<disk, copied, todo, service>>

Restart(u) == Return(u, "restart", 0) /\ Started(service')

Rollback(u) ==
  /\ Step(u, "rollback", IF exists(backup) THEN "remove" ELSE "revert")
  /\ UNCHANGED <<disk, copied, todo, service>>

\* rm -rf PROG_DIR
Remove(u) ==
  /\ pc[u] = "remove"
  /\ \E f \in 1 .. Files :
       prog[f] # NoVersion /\ prog' = [prog EXCEPT ![f] = NoVersion]
  /\ UNCHANGED <<backup, outside, proc, tmp, page, service, bounds>>

Removed(u) ==
  /\ ~exists(prog) /\ Step(u, "remove", "restore")
  /\ UNCHANGED <<disk, copied, todo, service>>

\* mv BACKUP_DIR PROG_DIR, which moves it inside a PROG_DIR that has come back.
Restore(u) ==
  /\ Step(u, "restore", "revert")
  /\ prog' = IF exists(prog) THEN prog ELSE backup
  /\ backup' = Empty
  /\ UNCHANGED <<outside, copied, todo, service>>

\* (A plausible bug: the service goes on as it is.)
LazyRevert(u) == Return(u, "revert", 1) /\ UNCHANGED service

Revert(u) == Return(u, "revert", 1) /\ Started(service')

Written(u) ==
  /\ Goto(u, "exit", "end") /\ tee' = tee \ {u}
  /\ ended' = [g \in Pages |-> ended[g] \cup {rc[u]}]
  /\ UNCHANGED <<disk, tag, copied, todo, rc, pid, daemons, page, service, origin, torn, stray,
                 runs, cuts, kills>>

\* (A plausible bug: a failed update leaves no EXIT: line.)
MuteFinish(u) ==
  /\ Written(u)
  /\ log' = IF u \in tee /\ rc[u] = 0 THEN log \cup {rc[u]} ELSE log

\* The EXIT: line, which tee writes before it ends.
Finish(u) ==
  /\ Written(u)
  /\ log' = IF u \in tee THEN log \cup {rc[u]} ELSE log

\* The shell looks at the log once more and ends.
Exit(u) ==
  /\ Goto(u, "end", "none")
  /\ pid' = IF pid = u THEN NoUpdater ELSE pid
  /\ UNCHANGED <<disk, tag, copied, todo, rc, tee, log, daemons, page, service, bounds>>

(***************************************************************************)
(* The machine                                                             *)
(***************************************************************************)
\* main.py dies and procd starts it again, at any moment of an update.
Respawn ==
  /\ Started(service')
  /\ UNCHANGED <<disk, proc, tmp, page, bounds>>

\* Out of memory: the subshell that runs cmd_apply is killed, or its tee, or all of
\* them.  A cp or install.sh that outlives it goes on to its own end and holds the
\* pipe, and so tee and the shell above, until then: as if the kill had come later.
Kill(u) ==
  /\ kills < MaxKills /\ kills' = kills + 1
  /\ pc[u] # "none" /\ pc' = [pc EXCEPT ![u] = "none"]
  /\ tee' = tee \ {u}
  /\ pid' = IF pid = u THEN NoUpdater ELSE pid
  /\ UNCHANGED <<disk, tag, copied, todo, rc, log, daemons, page, service, origin, told, runs,
                 cuts>>

\* The shell the pid file names is killed: cmd_apply and tee go on without it.
KillShell(u) ==
  /\ kills < MaxKills /\ kills' = kills + 1
  /\ pid = u /\ pc[u] # "end" /\ pid' = NoUpdater
  /\ UNCHANGED <<disk, proc, log, daemons, page, service, origin, told, runs, cuts>>

\* The flash stays; the session of the page ends with its next request.
PowerCut ==
  /\ cuts < MaxCuts /\ cuts' = cuts + 1
  /\ pc' = [u \in Updaters |-> "none"] /\ tee' = {}
  /\ log' = {} /\ pid' = NoUpdater /\ daemons' = 0
  /\ page' = [g \in Pages |-> "closed"]
  /\ Started(service')
  /\ UNCHANGED <<disk, tag, copied, todo, rc, origin, told, runs, kills>>

Apply(u) ==
  \/ Fetch(u) \/ FetchFails(u) \/ Unlink(u) \/ Unlinked(u)
  \/ BeginBackup(u) \/ CopyBackup(u) \/ BackedUp(u) \/ BackupFails(u)
  \/ InstallFile(u) \/ Installed(u) \/ InstallFails(u)
  \/ Imports(u) \/ ImportFails(u) \/ Committed(u) \/ Restart(u)
  \/ Rollback(u) \/ Remove(u) \/ Removed(u) \/ Restore(u) \/ Revert(u)
  \/ Finish(u) \/ Exit(u)

Status(g) == ReadFinished(g) \/ ReadSuccess(g) \/ ReadRunning(g)

Page(g) == Ask(g) \/ ClearLog(g) \/ StartStopDaemon(g) \/ Status(g) \/ Catch(g)

Next ==
  \/ \E g \in Pages : Page(g)
  \/ \E u \in Updaters : Launch(u) \/ CommandLine(u) \/ Apply(u) \/ Kill(u) \/ KillShell(u)
  \/ Respawn \/ PowerCut

Spec == Init /\ [][Next]_vars

\* Processes run, requests are answered, and the page polls every 2 s.
Fairness ==
  /\ \A u \in Updaters : WF_vars(Launch(u)) /\ WF_vars(Apply(u))
  /\ \A g \in Pages : WF_vars(ClearLog(g)) /\ WF_vars(StartStopDaemon(g)) /\ WF_vars(Status(g))

FairSpec == Spec /\ Fairness

(***************************************************************************)
(* Properties                                                              *)
(***************************************************************************)
\* An update of a working router leaves, wherever it is interrupted and however
\* it ends, one complete working release on the flash: the program directory or
\* its backup (update.sh, the order of backup, install, import check, rollback).
WorkingCopy == Good(origin) => Good(prog) \/ Good(backup)

\* When cmd_apply returns, either everything it installs is of the new release,
\* which can be imported, or the program directory is what it was before.  (The
\* init script and the LuCI files are not restored.)
AllOrNothing ==
  \A u \in Updaters : pc[u] = "exit" =>
    IF rc[u] = 0
    THEN /\ prog = Of(tag[u]) /\ tag[u] \in Versions \ Broken
         /\ outside = [o \in 1 .. Outside |-> tag[u]]
    ELSE exists(origin) => prog = origin

\* Between updates the service runs what is installed, even if procd has started
\* it again from a tree that was being replaced; only an updater that was killed
\* can leave the two apart (the restarts of cmd_apply and rollback).
ServiceIsInstalled ==
  kills = 0 /\ (\A u \in Updaters : pc[u] = "none") => Started(service)

\* A page says "Updated to ..." only if an update has ended with code 0 since the page
\* itself removed the log: never for the EXIT: line of an earlier update, however the
\* reads of the status fall between the steps of updaters and other pages
\* (method_update, method_update_status, runUpdate).
SuccessIsReal == \A g \in Pages : page[g] = "success" => 0 \in ended[g]

\* If the log is not removed or truncated under the three reads of a status, what the
\* page says at the end is true: after "Updated to ..." a complete working release is
\* installed and running; after "The previous version was restored" an update has
\* failed and the program directory is the one it found.  Without the condition it is
\* not: a log truncated between ReadFinished and ReadSuccess turns success into failure.
PageTellsTruth ==
  [][\A g \in Pages : page[g] \in Following /\ g \notin torn =>
       /\ page'[g] = "success" => Good(prog) /\ Started(service)
       /\ page'[g] = "failure" => 1 \in ended[g] /\ (exists(origin) => prog = origin)]_vars

\* A page that follows an update comes to an end, unless an updater was killed, or a
\* request that had found none removed the log of one that had begun meanwhile: then the
\* EXIT: line the page waits for is never written, or not into the log (followUpdate).
PageEnds ==
  \A g \in Pages :
    page[g] \in Following ~> (page[g] \notin Following \/ kills > 0 \/ stray)

\* "... so a failed update over a flaky WAN cannot leave a router with a
\* half-copied tree" (update.sh:7-8): when no update is running, the program
\* directory is complete.
NoHalfCopiedTree == (\A u \in Updaters : pc[u] = "none") => Whole(prog)
================================================================================
