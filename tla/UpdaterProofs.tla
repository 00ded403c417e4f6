----------------------------- MODULE UpdaterProofs -----------------------------
(***************************************************************************)
(* Safety of Updater for every number of files, every set of releases and  *)
(* any number of updates, interruptions and pages, provided that one       *)
(* updater is at work at a time.                                           *)
(***************************************************************************)
EXTENDS Updater, TLAPS

Secured == {"install", "import", "rollback", "remove", "restore"}

\* The release an updater installs.
Tagged(u) ==
  pc[u] \in Secured \cup {"unlink", "unlinked", "backup", "commit", "restart"} =>
    tag[u] \in Versions

\* The tree is as it was found until the backup of it is complete, and the
\* backup stays as long as the tree is being changed.
Kept(u) ==
  /\ pc[u] \in {"fetch", "unlink", "unlinked", "backup"} => prog = origin
  /\ pc[u] = "unlinked" => ~exists(backup)
  /\ pc[u] = "backup" => \A f \in (1 .. Files) \ todo[u] : backup[f] = origin[f]
  /\ pc[u] \in Secured => backup = origin

\* How far the installer is.
Complete(u) == prog = Of(tag[u]) /\ outside = [o \in 1 .. Outside |-> tag[u]]

Progress(u) ==
  /\ pc[u] = "install" => \A f \in 1 .. Files : (f <= copied[u] => prog[f] = tag[u])
  /\ pc[u] = "install" =>
       \A o \in 1 .. Outside : (Files + o <= copied[u] => outside[o] = tag[u])
  /\ pc[u] \in {"import", "commit", "restart"} => Complete(u)
  /\ pc[u] \in {"commit", "restart"} => tag[u] \notin Broken

\* How far the rollback is.
Restoring(u) ==
  /\ pc[u] \in {"remove", "restore"} => exists(origin)
  /\ pc[u] = "restore" => ~exists(prog)
  /\ pc[u] = "revert" => (exists(origin) => prog = origin)

Outcome(u) ==
  pc[u] = "exit" =>
    IF rc[u] = 0 THEN Complete(u) /\ tag[u] \in Versions \ Broken
                 ELSE exists(origin) => prog = origin

Phase(u) == Tagged(u) /\ Kept(u) /\ Progress(u) /\ Restoring(u) /\ Outcome(u)

\* Between updates, the stages say nothing.
Over == {"none", "end"}
Idle == (\A u \in Updaters : pc[u] \in Over) => WorkingCopy

IInv == TypeOK /\ (\A u \in Updaters : Phase(u)) /\ Idle

\* What the service runs while the tree is not being changed, and what the log
\* says once an update has ended.
Untouched == Over \cup {"fetch", "unlink", "unlinked", "backup", "exit"}

Served ==
  /\ kills = 0 /\ (\A u \in Updaters : pc[u] \in Untouched) => Started(service)
  /\ \A u \in Updaters : pc[u] = "exit" /\ rc[u] = 0 => Started(service)

Logged ==
  /\ log # {} => \A u \in Updaters : pc[u] \in Over
  /\ 0 \in log => Good(prog) /\ Started(service)
  /\ 1 \in log => (exists(origin) => prog = origin)

SInv == IInv /\ Served /\ Logged

USE UpdaterAssumption

(***************************************************************************)
(* Types                                                                   *)
(***************************************************************************)
\* What the operators on trees return.
LEMMA TreeFacts ==
  /\ Empty \in Tree
  /\ \A v \in Content : Of(v) \in Tree
  /\ \A t \in Tree, f \in 1 .. Files, c \in Content : [t EXCEPT ![f] = c] \in Tree
  /\ \A t \in Tree, f \in 1 .. Files : t[f] \in Content
  /\ \A t : Present(t) \subseteq 1 .. Files
BY DEF Tree, Content, Empty, Of, Present

LEMMA StartedType == \A v : Started(v) => v \in Content
BY DEF Started, Content

LEMMA TypeInit == Init => TypeOK
<1> SUFFICES ASSUME Init PROVE TypeOK
  OBVIOUS
<1>1. PICK v \in Versions \ Broken :
        prog = Of(v) /\ outside = [o \in 1 .. Outside |-> v] /\ service = v
  BY DEF Init
<1>2. v \in Content
  BY DEF Content
<1>3. prog \in Tree /\ backup \in Tree /\ origin \in Tree
  BY <1>1, <1>2, TreeFacts DEF Init
<1>4. outside \in [1 .. Outside -> Content] /\ service \in Content
  BY <1>1, <1>2
<1>5. /\ copied \in [Updaters -> 0 .. Files + Outside] /\ tag \in [Updaters -> Content]
      /\ todo \in [Updaters -> SUBSET (1 .. Files)] /\ pc \in [Updaters -> Stages]
      /\ ended \in [Pages -> SUBSET {0, 1}] /\ rc \in [Updaters -> {0, 1}]
      /\ page \in [Pages -> {"closed", "success", "failure"} \cup Asking]
  BY DEF Init, Stages, Content
<1>6. daemons = 0 /\ runs = 0 /\ cuts = 0 /\ kills = 0
  BY DEF Init
<1>7. /\ tee \subseteq Updaters /\ log \subseteq {0, 1} /\ pid \in Updaters \cup {NoUpdater}
      /\ torn \subseteq Pages /\ stray \in BOOLEAN
  BY DEF Init
<1>8. /\ daemons \in Nat
      /\ runs \in 0 .. MaxRuns /\ cuts \in 0 .. MaxCuts /\ kills \in 0 .. MaxKills
  BY <1>6, UpdaterAssumption
<1>9. QED
  BY <1>3, <1>4, <1>5, <1>7, <1>8 DEF TypeOK

\* No step of an updater's life leaves the types.
LEMMA TypeApply ==
  ASSUME TypeOK, NEW u \in Updaters, Apply(u)
  PROVE  TypeOK'
<1>1. CASE Fetch(u)
  BY <1>1, TreeFacts
     DEF Fetch, Goto, disk, tmp, bounds, Content, TypeOK, Stages
<1>2. CASE FetchFails(u)
  BY <1>2
     DEF FetchFails, Return, Goto, disk, tmp, bounds, TypeOK, Stages
<1>3. CASE Unlink(u)
  <2>1. PICK f \in 1 .. Files : backup' = [backup EXCEPT ![f] = NoVersion]
    BY <1>3 DEF Unlink
  <2>2. f \in 1 .. Files
    BY <2>1, TreeFacts DEF TypeOK
  <2>3. backup' \in Tree
    BY <2>1, <2>2, TreeFacts DEF TypeOK, Content
  <2>4. QED
    BY <1>3, <2>1, <2>3
       DEF Unlink, proc, tmp, bounds, TypeOK, Stages
<1>4. CASE Unlinked(u)
  BY <1>4
     DEF Unlinked, Step, Goto, around, disk, tmp, bounds, TypeOK, Stages
<1>5. CASE BeginBackup(u)
  BY <1>5, TreeFacts
     DEF BeginBackup, Step, Goto, around, disk, tmp, bounds, TypeOK, Stages
<1>6. CASE CopyBackup(u)
  <2>1. PICK f \in todo[u] : /\ backup' = [backup EXCEPT ![f] = prog[f]]
                             /\ todo' = [todo EXCEPT ![u] = @ \ {f}]
    BY <1>6 DEF CopyBackup
  <2>2. f \in 1 .. Files
    BY <2>1 DEF TypeOK
  <2>3. backup' \in Tree
    BY <2>1, <2>2, TreeFacts DEF TypeOK, Content
  <2>4. QED
    BY <1>6, <2>1, <2>3
       DEF CopyBackup, around, tmp, bounds, TypeOK, Stages
<1>7. CASE BackedUp(u)
  BY <1>7
     DEF BackedUp, StartInstaller, Step, Goto, around, disk, tmp, bounds, TypeOK, Stages
<1>8. CASE BackupFails(u)
  BY <1>8
     DEF BackupFails, Return, Goto, disk, tmp, bounds, TypeOK, Stages
<1>9. CASE InstallFile(u)
  <2>1. copied'[u] \in 0 .. Files + Outside /\ prog' \in Tree
    BY <1>9, TreeFacts DEF InstallFile, TypeOK
  <2>2. outside' \in [1 .. Outside -> Content]
    BY <1>9 DEF InstallFile, TypeOK
  <2>3. QED
    BY <1>9, <2>1, <2>2 DEF InstallFile, around, tmp, bounds, TypeOK
<1>10. CASE Installed(u)
  BY <1>10
     DEF Installed, Step, Goto, around, disk, tmp, bounds, TypeOK, Stages
<1>11. CASE InstallFails(u)
  BY <1>11
     DEF InstallFails, Step, Goto, around, disk, tmp, bounds, TypeOK, Stages
<1>12. CASE Imports(u)
  BY <1>12
     DEF Imports, Step, Goto, around, disk, tmp, bounds, TypeOK, Stages
<1>13. CASE ImportFails(u)
  BY <1>13
     DEF ImportFails, Step, Goto, around, disk, tmp, bounds, TypeOK, Stages
<1>14. CASE Committed(u)
  BY <1>14
     DEF Committed, Step, Goto, around, disk, tmp, bounds, TypeOK, Stages
<1>15. CASE Restart(u)
  BY <1>15, StartedType
     DEF Restart, Return, Goto, disk, tmp, bounds, TypeOK, Stages
<1>16. CASE Rollback(u)
  BY <1>16
     DEF Rollback, Step, Goto, around, disk, tmp, bounds, TypeOK, Stages
<1>17. CASE Remove(u)
  <2>1. PICK f \in 1 .. Files : prog' = [prog EXCEPT ![f] = NoVersion]
    BY <1>17 DEF Remove
  <2>2. f \in 1 .. Files
    BY <2>1, TreeFacts DEF TypeOK
  <2>3. prog' \in Tree
    BY <2>1, <2>2, TreeFacts DEF TypeOK, Content
  <2>4. QED
    BY <1>17, <2>1, <2>3
       DEF Remove, proc, tmp, bounds, TypeOK, Stages
<1>18. CASE Removed(u)
  BY <1>18
     DEF Removed, Step, Goto, around, disk, tmp, bounds, TypeOK, Stages
<1>19. CASE Restore(u)
  BY <1>19, TreeFacts
     DEF Restore, Step, Goto, around, tmp, bounds, TypeOK, Stages
<1>20. CASE Revert(u)
  BY <1>20, StartedType
     DEF Revert, Return, Goto, disk, tmp, bounds, TypeOK, Stages
<1>21. CASE Finish(u)
  BY <1>21
     DEF Finish, Written, Goto, disk, TypeOK, Stages
<1>22. CASE Exit(u)
  BY <1>22
     DEF Exit, Goto, disk, bounds, TypeOK, Stages
<1>23. QED
  BY <1>1, <1>2, <1>3, <1>4, <1>5, <1>6, <1>7, <1>8, <1>9, <1>10, <1>11, <1>12,
     <1>13, <1>14, <1>15, <1>16, <1>17, <1>18, <1>19, <1>20, <1>21, <1>22
     DEF Apply

LEMMA TypeStep == TypeOK /\ [Next]_vars => TypeOK'
<1> SUFFICES ASSUME TypeOK, [Next]_vars PROVE TypeOK'
  OBVIOUS
<1>1. ASSUME NEW g \in Pages, Ask(g) PROVE TypeOK'
  BY <1>1
     DEF Ask, update_running, disk, proc, tmp, told, TypeOK, Asking, Following
<1>2. ASSUME NEW g \in Pages, ClearLog(g) PROVE TypeOK'
  BY <1>2
     DEF ClearLog, update_running, disk, TypeOK, Asking, Following
<1>3. ASSUME NEW g \in Pages, StartStopDaemon(g) PROVE TypeOK'
  BY <1>3
     DEF StartStopDaemon, update_running, disk, proc, bounds, TypeOK, Asking, Following
<1>4. ASSUME NEW g \in Pages, Status(g) \/ Catch(g) PROVE TypeOK'
  <2>1. CASE ReadFinished(g)
    BY <2>1 DEF ReadFinished, disk, proc, tmp, TypeOK, Asking, Following
  <2>2. CASE ReadSuccess(g)
    BY <2>2 DEF ReadSuccess, disk, proc, tmp, bounds, TypeOK, Asking, Following
  <2>3. CASE ReadRunning(g)
    BY <2>3 DEF ReadRunning, disk, proc, tmp, bounds, TypeOK, Asking, Following
  <2>4. CASE Catch(g)
    BY <2>4 DEF Catch, disk, proc, tmp, bounds, TypeOK, Asking, Following
  <2>5. QED
    BY <1>4, <2>1, <2>2, <2>3, <2>4 DEF Status
<1>5. ASSUME NEW u \in Updaters, Launch(u) PROVE TypeOK'
  <2>1. daemons' \in Nat
    BY <1>5 DEF Launch, TypeOK
  <2>2. CASE prog[UpdateSh] # NoVersion
    BY <1>5, <2>1, <2>2
       DEF Launch, Begin, disk, proc, bounds, TypeOK, Stages
  <2>3. CASE ~(prog[UpdateSh] # NoVersion)
    BY <1>5, <2>1, <2>3
       DEF Launch, Begin, disk, proc, bounds, TypeOK
  <2>4. QED
    BY <2>2, <2>3
<1>6. ASSUME NEW u \in Updaters, CommandLine(u) PROVE TypeOK'
  BY <1>6
     DEF CommandLine, Begin, disk, TypeOK, Stages
<1>7. ASSUME NEW u \in Updaters, Kill(u) \/ KillShell(u) PROVE TypeOK'
  <2>1. CASE Kill(u)
    BY <2>1 DEF Kill, disk, told, TypeOK, Stages
  <2>2. CASE KillShell(u)
    BY <2>2 DEF KillShell, disk, proc, told, TypeOK
  <2>3. QED
    BY <1>7, <2>1, <2>2
<1>8. ASSUME NEW u \in Updaters, Apply(u) PROVE TypeOK'
  BY <1>8, TypeApply
<1>9. CASE Respawn
  BY <1>9, StartedType
     DEF Respawn, disk, proc, tmp, bounds, TypeOK
<1>10. CASE PowerCut
  BY <1>10, StartedType
     DEF PowerCut, disk, told, TypeOK, Stages
<1>11. CASE UNCHANGED vars
  BY <1>11
     DEF vars, disk, proc, tmp, bounds, TypeOK
<1>12. QED
  BY <1>1, <1>2, <1>3, <1>4, <1>5, <1>6, <1>7, <1>8, <1>9, <1>10, <1>11 DEF Next, Page

\* The types hold in every state.
THEOREM TypeCorrect == Spec => []TypeOK
<1>1. TypeOK /\ [Next]_vars => TypeOK'
  BY TypeStep
<1>2. QED
  BY TypeInit, <1>1, PTL DEF Spec

(***************************************************************************)
(* The disk                                                                *)
(***************************************************************************)
\* The facts about trees that the stages rest on.
LEMMA TreeShapes ==
  /\ \A t \in Tree : \A v : (\A f \in 1 .. Files : t[f] = v) => t = Of(v)
  /\ \A s, t \in Tree : (\A f \in 1 .. Files : s[f] = t[f]) => s = t
  /\ \A t : Good(t) => exists(t)
  /\ \A v \in Versions \ Broken : Good(Of(v))
<1>1. \A t \in Tree : \A v : (\A f \in 1 .. Files : t[f] = v) => t = Of(v)
  BY DEF Tree, Of
<1>2. \A s, t \in Tree : (\A f \in 1 .. Files : s[f] = t[f]) => s = t
  BY DEF Tree
<1>3. \A t : Good(t) => exists(t)
  <2> SUFFICES ASSUME NEW t, Good(t) PROVE exists(t)
    OBVIOUS
  <2>1. PICK v \in Versions \ Broken : t = Of(v)
    BY DEF Good
  <2>2. 1 \in 1 .. Files /\ t[1] = v
    BY <2>1 DEF Of
  <2>3. QED
    BY <2>2 DEF exists
<1>4. QED
  BY <1>1, <1>2, <1>3 DEF Good

\* An updater that keeps to its stages has a working copy at every moment.
LEMMA AlwaysACopy == IInv => WorkingCopy
<1> SUFFICES ASSUME IInv, Good(origin) PROVE Good(prog) \/ Good(backup)
  BY DEF WorkingCopy
<1>1. CASE \A u \in Updaters : pc[u] \in Over
  BY <1>1 DEF IInv, Idle, WorkingCopy
<1>2. ASSUME NEW u \in Updaters, pc[u] \notin Over PROVE Good(prog) \/ Good(backup)
  <2>1. exists(origin)
    BY TreeShapes
  <2>2. Phase(u) /\ pc[u] \in Stages
    BY DEF IInv, TypeOK
  <2>3. pc[u] \in {"fetch", "unlink", "unlinked", "backup"} \cup Secured =>
        prog = origin \/ backup = origin
    BY <2>2 DEF Phase, Kept
  <2>4. pc[u] \in {"commit", "restart"} => Good(prog)
    BY <2>2, TreeShapes DEF Phase, Progress, Complete, Tagged
  <2>5. pc[u] = "revert" => prog = origin
    BY <2>1, <2>2 DEF Phase, Restoring
  <2>6. pc[u] = "exit" => prog = origin \/ Good(prog)
    BY <2>1, <2>2, TreeShapes DEF Phase, Outcome, Complete
  <2>7. QED
    BY <1>2, <2>2, <2>3, <2>4, <2>5, <2>6 DEF Stages, Secured, Over
<1>3. QED
  BY <1>1, <1>2

LEMMA DiskInit == Init => (\A u \in Updaters : Phase(u)) /\ Idle
BY DEF Init, Phase, Tagged, Kept, Progress, Restoring, Outcome, Idle, WorkingCopy, Secured

\* Each step of an updater leaves it in its next stage.
LEMMA PhaseApply ==
  ASSUME IInv, TypeOK', NEW u \in Updaters, Apply(u)
  PROVE  Phase(u)'
<1>0. TypeOK /\ Phase(u)
  BY DEF IInv
<1>1. CASE Fetch(u)
  BY <1>0, <1>1
     DEF Fetch, Goto, disk, tmp, bounds, Phase, Tagged, Kept, Progress, Restoring, Outcome,
         Complete, Secured, TypeOK, Stages
<1>2. CASE FetchFails(u)
  BY <1>0, <1>2
     DEF FetchFails, Return, Goto, disk, tmp, bounds, Phase, Tagged, Kept, Progress,
         Restoring, Outcome, Complete, Secured, TypeOK, Stages
<1>3. CASE Unlink(u)
  BY <1>0, <1>3
     DEF Unlink, proc, tmp, bounds, Phase, Tagged, Kept, Progress, Restoring, Outcome,
         Complete, Secured, TypeOK, Stages
<1>4. CASE Unlinked(u)
  BY <1>0, <1>4
     DEF Unlinked, Step, Goto, around, disk, tmp, bounds, Phase, Tagged, Kept, Progress,
         Restoring, Outcome, Complete, Secured, TypeOK, Stages
<1>5. CASE BeginBackup(u)
  <2>1. pc'[u] = "backup" /\ UNCHANGED <<prog, backup, outside, tag, origin, rc, copied>>
    BY <1>0, <1>5
       DEF BeginBackup, Step, Goto, around, disk, tmp, bounds, TypeOK
  <2>2. ~exists(backup) /\ prog = origin /\ tag[u] \in Versions
    BY <1>0, <1>5 DEF BeginBackup, Step, Goto, Phase, Kept, Tagged
  <2>3. todo'[u] = Present(prog)
    BY <1>0, <1>5, <2>2 DEF BeginBackup, TypeOK
  <2>4. \A f \in (1 .. Files) \ todo'[u] : backup[f] = origin[f]
    BY <2>2, <2>3 DEF exists, Present
  <2>5. QED
    BY <2>1, <2>2, <2>4
       DEF Phase, Tagged, Kept, Progress, Restoring, Outcome, Complete, Secured
<1>6. CASE CopyBackup(u)
  <2>1. PICK f \in todo[u] : /\ backup' = [backup EXCEPT ![f] = prog[f]]
                             /\ todo' = [todo EXCEPT ![u] = @ \ {f}]
    BY <1>6 DEF CopyBackup
  <2>2. pc[u] = "backup" /\ UNCHANGED <<prog, outside, pc, tag, origin, rc, copied>>
    BY <1>6
       DEF CopyBackup, around, tmp, bounds
  <2>3. /\ prog = origin /\ tag[u] \in Versions
        /\ \A e \in (1 .. Files) \ todo[u] : backup[e] = origin[e]
    BY <1>0, <2>2 DEF Phase, Kept, Tagged
  <2>4. \A e \in (1 .. Files) \ todo'[u] : backup'[e] = origin[e]
    BY <1>0, <2>1, <2>3 DEF TypeOK, Tree
  <2>5. QED
    BY <2>2, <2>3, <2>4
       DEF Phase, Tagged, Kept, Progress, Restoring, Outcome, Complete, Secured
<1>7. CASE BackedUp(u)
  BY <1>0, <1>7, TreeShapes
     DEF BackedUp, StartInstaller, Step, Goto, around, disk, tmp, bounds, Phase, Tagged,
         Kept, Progress, Restoring, Outcome, Complete, Secured, TypeOK, Stages
<1>8. CASE BackupFails(u)
  BY <1>0, <1>8
     DEF BackupFails, Return, Goto, disk, tmp, bounds, Phase, Tagged, Kept, Progress,
         Restoring, Outcome, Complete, Secured, TypeOK, Stages
<1>9. CASE InstallFile(u)
  <2> DEFINE f == copied[u] + 1
  <2>1. /\ pc[u] = "install" /\ f \in 1 .. Files + Outside /\ copied'[u] = f
        /\ UNCHANGED <<backup, pc, tag, origin, rc, todo>>
    BY <1>0, <1>9
       DEF InstallFile, around, tmp, bounds, TypeOK
  <2>2. /\ backup = origin /\ tag[u] \in Versions
        /\ \A e \in 1 .. Files : e <= copied[u] => prog[e] = tag[u]
        /\ \A o \in 1 .. Outside : Files + o <= copied[u] => outside[o] = tag[u]
    BY <1>0, <2>1 DEF Phase, Kept, Tagged, Progress, Secured
  <2>3. CASE f <= Files
    <3>1. prog' = [prog EXCEPT ![f] = tag[u]] /\ outside' = outside
      BY <1>9, <2>3 DEF InstallFile
    <3>2. \A e \in 1 .. Files : e <= f => prog'[e] = tag[u]
      BY <1>0, <2>2, <3>1 DEF TypeOK, Tree
    <3>3. \A o \in 1 .. Outside : ~(Files + o <= f)
      BY <1>0, <2>3 DEF TypeOK
    <3>4. QED
      BY <2>1, <2>2, <3>2, <3>3
         DEF Phase, Tagged, Kept, Progress, Restoring, Outcome, Complete, Secured
  <2>4. CASE ~(f <= Files)
    <3>1. outside' = [outside EXCEPT ![f - Files] = tag[u]] /\ prog' = prog
      BY <1>9, <2>4 DEF InstallFile
    <3>2. \A o \in 1 .. Outside : Files + o <= f => outside'[o] = tag[u]
      BY <1>0, <2>2, <2>4, <3>1 DEF TypeOK
    <3>3. \A e \in 1 .. Files : e <= copied[u]
      BY <1>0, <2>4 DEF TypeOK
    <3>4. QED
      BY <2>1, <2>2, <3>1, <3>2, <3>3
         DEF Phase, Tagged, Kept, Progress, Restoring, Outcome, Complete, Secured
  <2>5. QED
    BY <2>3, <2>4
<1>10. CASE Installed(u)
  BY <1>0, <1>10, TreeShapes
     DEF Installed, Step, Goto, around, disk, tmp, bounds, Phase, Tagged, Kept, Progress,
         Restoring, Outcome, Complete, Secured, TypeOK, Stages
<1>11. CASE InstallFails(u)
  BY <1>0, <1>11
     DEF InstallFails, Step, Goto, around, disk, tmp, bounds, Phase, Tagged, Kept,
         Progress, Restoring, Outcome, Complete, Secured, TypeOK, Stages
<1>12. CASE Imports(u)
  BY <1>0, <1>12
     DEF Imports, Step, Goto, around, disk, tmp, bounds, Phase, Tagged, Kept, Progress,
         Restoring, Outcome, Complete, Secured, TypeOK, Stages
<1>13. CASE ImportFails(u)
  BY <1>0, <1>13
     DEF ImportFails, Step, Goto, around, disk, tmp, bounds, Phase, Tagged, Kept, Progress,
         Restoring, Outcome, Complete, Secured, TypeOK, Stages
<1>14. CASE Committed(u)
  BY <1>0, <1>14
     DEF Committed, Step, Goto, around, disk, tmp, bounds, Phase, Tagged, Kept, Progress,
         Restoring, Outcome, Complete, Secured, TypeOK, Stages
<1>15. CASE Restart(u)
  BY <1>0, <1>15
     DEF Restart, Return, Goto, disk, tmp, bounds, Phase, Tagged, Kept, Progress,
         Restoring, Outcome, Complete, Secured, TypeOK, Stages
<1>16. CASE Rollback(u)
  BY <1>0, <1>16
     DEF Rollback, Step, Goto, around, disk, tmp, bounds, Phase, Tagged, Kept, Progress,
         Restoring, Outcome, Complete, Secured, TypeOK, Stages
<1>17. CASE Remove(u)
  BY <1>0, <1>17
     DEF Remove, proc, tmp, bounds, Phase, Tagged, Kept, Progress, Restoring, Outcome,
         Complete, Secured, TypeOK, Stages
<1>18. CASE Removed(u)
  BY <1>0, <1>18
     DEF Removed, Step, Goto, around, disk, tmp, bounds, Phase, Tagged, Kept, Progress,
         Restoring, Outcome, Complete, Secured, TypeOK, Stages
<1>19. CASE Restore(u)
  BY <1>0, <1>19
     DEF Restore, Step, Goto, around, tmp, bounds, Phase, Tagged, Kept, Progress,
         Restoring, Outcome, Complete, Secured, TypeOK, Stages
<1>20. CASE Revert(u)
  <2>1. pc[u] = "revert" /\ pc'[u] = "exit" /\ rc'[u] = 1 /\ UNCHANGED <<prog, origin>>
    BY <1>0, <1>20
       DEF Revert, Return, Goto, disk, tmp, bounds, TypeOK
  <2>2. exists(origin) => prog = origin
    BY <1>0, <2>1 DEF Phase, Restoring
  <2>3. Outcome(u)'
    BY <2>1, <2>2 DEF Outcome, exists
  <2>4. Tagged(u)' /\ Kept(u)' /\ Progress(u)' /\ Restoring(u)'
    BY <2>1 DEF Tagged, Kept, Progress, Restoring, Secured
  <2>5. QED
    BY <2>3, <2>4 DEF Phase
<1>21. CASE Finish(u) \/ Exit(u)
  <2>1. pc'[u] \in Over
    BY <1>0, <1>21 DEF Finish, Written, Exit, Goto, TypeOK, Over
  <2>2. QED
    BY <2>1 DEF Over, Phase, Tagged, Kept, Progress, Restoring, Outcome, Secured
<1>22. QED
  BY <1>1, <1>2, <1>3, <1>4, <1>5, <1>6, <1>7, <1>8, <1>9, <1>10, <1>11, <1>12,
     <1>13, <1>14, <1>15, <1>16, <1>17, <1>18, <1>19, <1>20, <1>21
     DEF Apply

\* Only what an updater does itself, or the start of one, touches the disk, the
\* stages and the tree that was found.
Apart == UNCHANGED <<disk, pc, tag, copied, todo, rc, origin>>

LEMMA OthersApart ==
  ASSUME NEW g \in Pages, Page(g)
  PROVE  Apart
BY DEF Page, Ask, ClearLog, StartStopDaemon, Status, ReadFinished, ReadSuccess, ReadRunning, Catch,
       Apart, disk, proc, tmp, bounds

LEMMA ApartKeeps == IInv /\ Apart => (\A u \in Updaters : Phase(u))' /\ Idle'
<1> SUFFICES ASSUME IInv, Apart PROVE (\A u \in Updaters : Phase(u))' /\ Idle'
  OBVIOUS
<1>1. \A u \in Updaters : Phase(u)'
  BY ZenonT(30) DEF IInv, Apart, disk, Phase, Tagged, Kept, Progress, Restoring, Outcome, Complete
<1>2. Idle'
  BY DEF IInv, Apart, disk, Idle, WorkingCopy
<1>3. QED
  BY <1>1, <1>2

\* When the only updater begins or ends.
LEMMA BeginKeeps ==
  ASSUME \A u, w \in Updaters : u = w, IInv, TypeOK', NEW u \in Updaters, Begin(u)
  PROVE  (\A w \in Updaters : Phase(w))' /\ Idle'
<1>1. pc'[u] = "fetch" /\ prog' = origin' /\ pc[u] = "none"
  BY DEF IInv, TypeOK, Begin, disk
<1>2. Phase(u)'
  BY <1>1 DEF Phase, Tagged, Kept, Progress, Restoring, Outcome, Secured
<1>3. Idle'
  BY <1>1 DEF Idle, Over
<1>4. QED
  BY <1>2, <1>3

LEMMA EndKeeps ==
  ASSUME IInv, UNCHANGED <<disk, origin>>, \A w \in Updaters : pc'[w] \in Over
  PROVE  (\A w \in Updaters : Phase(w))' /\ Idle'
<1>1. WorkingCopy'
  BY AlwaysACopy DEF WorkingCopy, disk
<1>2. \A w \in Updaters : Phase(w)'
  BY DEF Over, Phase, Tagged, Kept, Progress, Restoring, Outcome, Secured
<1>3. QED
  BY <1>1, <1>2 DEF Idle

\* The invariant is inductive if there is one updater.
LEMMA InvStep ==
  ASSUME \A u, w \in Updaters : u = w, IInv, [Next]_vars
  PROVE  IInv'
<1>1. TypeOK'
  BY TypeStep DEF IInv
<1>2. (\A u \in Updaters : Phase(u))' /\ Idle'
  <2>1. ASSUME NEW g \in Pages, Page(g)
        PROVE  (\A u \in Updaters : Phase(u))' /\ Idle'
    BY <2>1, OthersApart, ApartKeeps
  <2>2. ASSUME NEW u \in Updaters, Launch(u) PROVE (\A w \in Updaters : Phase(w))' /\ Idle'
    <3>1. CASE Begin(u)
      BY <1>1, <3>1, BeginKeeps
    <3>2. CASE ~Begin(u)
      <4>1. Apart
        BY <2>2, <3>2 DEF Launch, Apart, disk, proc, bounds
      <4>2. QED
        BY <4>1, ApartKeeps
    <3>3. QED
      BY <3>1, <3>2
  <2>3. ASSUME NEW u \in Updaters, CommandLine(u) PROVE (\A w \in Updaters : Phase(w))' /\ Idle'
    <3>1. Begin(u)
      BY <2>3 DEF CommandLine
    <3>2. QED
      BY <1>1, <3>1, BeginKeeps
  <2>4. ASSUME NEW u \in Updaters, Apply(u) PROVE (\A w \in Updaters : Phase(w))' /\ Idle'
    <3>1. (\A w \in Updaters : Phase(w))'
      <4>1. Phase(u)'
        BY <1>1, <2>4, PhaseApply
      <4>2. \A w \in Updaters : w = u
        OBVIOUS
      <4>3. \A w \in Updaters : Phase(w)'
        BY <4>1, <4>2
      <4>4. QED
        BY <4>3
    <3>2. CASE Finish(u) \/ Exit(u)
      <4>1. UNCHANGED <<disk, origin>> /\ pc'[u] \in Over
        BY <3>2 DEF Finish, Written, Exit, Goto, bounds, IInv, TypeOK, Over
      <4>2. QED
        BY <4>1, EndKeeps
    <3>3. CASE ~Finish(u) /\ ~Exit(u)
      <4>1. pc'[u] \notin Over
        BY <2>4, <3>3 DEF Apply, Fetch, FetchFails, Unlink, Unlinked, BeginBackup, CopyBackup,
           BackedUp, BackupFails, InstallFile, Installed, InstallFails, Imports, ImportFails,
           Committed, Restart, Rollback, Remove, Removed, Restore, Revert,
           Goto, Step, Return, StartInstaller, proc, IInv, TypeOK, Over
      <4>2. QED
        BY <3>1, <4>1 DEF Idle
    <3>4. QED
      BY <3>1, <3>2, <3>3
  <2>5. ASSUME NEW u \in Updaters, Kill(u) PROVE (\A w \in Updaters : Phase(w))' /\ Idle'
    <3>1. UNCHANGED <<disk, origin>> /\ pc'[u] \in Over
      BY <2>5 DEF Kill, IInv, TypeOK, Over
    <3>2. QED
      BY <3>1, EndKeeps
  <2>6. CASE Respawn
    BY <2>6, ApartKeeps DEF Respawn, Apart, proc, bounds
  <2>7. CASE PowerCut
    <3>1. UNCHANGED <<disk, origin>> /\ \A w \in Updaters : pc'[w] \in Over
      BY <2>7 DEF PowerCut, Over
    <3>2. QED
      BY <3>1, EndKeeps
  <2>8. CASE UNCHANGED vars
    BY <2>8, ApartKeeps DEF vars, Apart, proc, bounds
  <2>9. ASSUME NEW u \in Updaters, KillShell(u) PROVE (\A w \in Updaters : Phase(w))' /\ Idle'
    BY <2>9, ApartKeeps DEF KillShell, Apart, proc
  <2>10. QED
    BY <2>1, <2>2, <2>3, <2>4, <2>5, <2>6, <2>7, <2>8, <2>9 DEF Next
<1>3. QED
  BY <1>1, <1>2 DEF IInv

LEMMA Inductive ==
  ASSUME \A u, w \in Updaters : u = w
  PROVE  Spec => []IInv
<1>1. Init => IInv
  BY TypeInit, DiskInit DEF IInv
<1>2. IInv /\ [Next]_vars => IInv'
  BY InvStep
<1>3. QED
  BY <1>1, <1>2, PTL DEF Spec

\* One complete working release is on the flash at every moment of an update of a
\* working router, and after every way it can end (the order of the steps of
\* cmd_apply and rollback).
THEOREM WorkingCopySafe ==
  ASSUME \A u, w \in Updaters : u = w
  PROVE  Spec => []WorkingCopy
BY Inductive, AlwaysACopy, PTL

\* cmd_apply installs all of the new release or leaves the tree it found.
THEOREM UpdateIsAtomic ==
  ASSUME \A u, w \in Updaters : u = w
  PROVE  Spec => []AllOrNothing
<1>1. IInv => AllOrNothing
  BY DEF IInv, Phase, Outcome, Complete, AllOrNothing
<1>2. QED
  BY <1>1, Inductive, PTL

(***************************************************************************)
(* The service and the page                                                *)
(***************************************************************************)
LEMMA SameStart == UNCHANGED <<prog, service>> => (Started(service) <=> Started(service)')
BY DEF Started, Whole

LEMMA NewStart == UNCHANGED prog /\ Started(service') => Started(service)'
BY DEF Started, Whole

\* Every step of cmd_apply but the three last ones either finds and leaves the tree
\* untouched, or leaves a stage in which nothing is said of the service.
LEMMA QuietStep ==
  ASSUME TypeOK, NEW u \in Updaters, Apply(u), ~Restart(u), ~Revert(u), ~Finish(u), ~Exit(u)
  PROVE  /\ UNCHANGED <<service, kills, log>>
         /\ pc[u] \notin Over /\ pc'[u] \notin Over
         /\ \/ pc'[u] \notin Untouched
            \/ pc[u] \in Untouched /\ prog' = prog /\ (pc'[u] = "exit" => rc'[u] = 1)
<1>1. CASE Fetch(u)
  BY <1>1
     DEF Fetch, Goto, disk, tmp, bounds, Untouched, Over, TypeOK
<1>2. CASE FetchFails(u)
  BY <1>2
     DEF FetchFails, Return, Goto, disk, tmp, bounds, Untouched, Over, TypeOK
<1>3. CASE Unlink(u)
  BY <1>3
     DEF Unlink, proc, tmp, bounds, Untouched, Over, TypeOK
<1>4. CASE Unlinked(u)
  BY <1>4
     DEF Unlinked, Step, Goto, around, disk, tmp, bounds, Untouched, Over, TypeOK
<1>5. CASE BeginBackup(u)
  BY <1>5
     DEF BeginBackup, Step, Goto, around, disk, tmp, bounds, Untouched, Over, TypeOK
<1>6. CASE CopyBackup(u)
  BY <1>6
     DEF CopyBackup, around, tmp, bounds, Untouched, Over, TypeOK
<1>7. CASE BackedUp(u)
  BY <1>7
     DEF BackedUp, StartInstaller, Step, Goto, around, disk, tmp, bounds, Untouched, Over, TypeOK
<1>8. CASE BackupFails(u)
  BY <1>8
     DEF BackupFails, Return, Goto, disk, tmp, bounds, Untouched, Over, TypeOK
<1>9. CASE InstallFile(u)
  BY <1>9
     DEF InstallFile, around, tmp, bounds, Untouched, Over, TypeOK
<1>10. CASE Installed(u)
  BY <1>10
     DEF Installed, Step, Goto, around, disk, tmp, bounds, Untouched, Over, TypeOK
<1>11. CASE InstallFails(u)
  BY <1>11
     DEF InstallFails, Step, Goto, around, disk, tmp, bounds, Untouched, Over, TypeOK
<1>12. CASE Imports(u)
  BY <1>12
     DEF Imports, Step, Goto, around, disk, tmp, bounds, Untouched, Over, TypeOK
<1>13. CASE ImportFails(u)
  BY <1>13
     DEF ImportFails, Step, Goto, around, disk, tmp, bounds, Untouched, Over, TypeOK
<1>14. CASE Committed(u)
  BY <1>14
     DEF Committed, Step, Goto, around, disk, tmp, bounds, Untouched, Over, TypeOK
<1>15. CASE Rollback(u)
  BY <1>15
     DEF Rollback, Step, Goto, around, disk, tmp, bounds, Untouched, Over, TypeOK
<1>16. CASE Remove(u)
  BY <1>16
     DEF Remove, proc, tmp, bounds, Untouched, Over, TypeOK
<1>17. CASE Removed(u)
  BY <1>17
     DEF Removed, Step, Goto, around, disk, tmp, bounds, Untouched, Over, TypeOK
<1>18. CASE Restore(u)
  BY <1>18
     DEF Restore, Step, Goto, around, tmp, bounds, Untouched, Over, TypeOK
<1>19. QED
  BY <1>1, <1>2, <1>3, <1>4, <1>5, <1>6, <1>7, <1>8, <1>9, <1>10, <1>11, <1>12,
     <1>13, <1>14, <1>15, <1>16, <1>17, <1>18
     DEF Apply

LEMMA ServeApply ==
  ASSUME \A u, w \in Updaters : u = w, SInv, IInv', NEW u \in Updaters, Apply(u)
  PROVE  Served' /\ Logged'
<1>0. TypeOK /\ Phase(u) /\ Served /\ Logged /\ \A w \in Updaters : w = u
  BY DEF SInv, IInv
<1>1. CASE ~Restart(u) /\ ~Revert(u) /\ ~Finish(u) /\ ~Exit(u)
  <2>1. /\ UNCHANGED <<service, kills, log>>
        /\ pc[u] \notin Over /\ pc'[u] \notin Over
        /\ \/ pc'[u] \notin Untouched
           \/ pc[u] \in Untouched /\ prog' = prog /\ (pc'[u] = "exit" => rc'[u] = 1)
    BY <1>0, <1>1, QuietStep
  <2>2. log' = {}
    BY <1>0, <2>1 DEF Logged
  <2>3. CASE pc'[u] \notin Untouched
    BY <2>2, <2>3 DEF Served, Logged, Untouched
  <2>4. CASE pc[u] \in Untouched /\ prog' = prog /\ (pc'[u] = "exit" => rc'[u] = 1)
    <3>1. kills' = 0 => Started(service)'
      BY <1>0, <2>1, <2>4, SameStart DEF Served
    <3>2. \A w \in Updaters : ~(pc'[w] = "exit" /\ rc'[w] = 0)
      BY <1>0, <2>4
    <3>3. QED
      BY <2>2, <3>1, <3>2 DEF Served, Logged
  <2>5. QED
    BY <2>1, <2>3, <2>4
<1>2. CASE Restart(u) \/ Revert(u)
  <2>1. UNCHANGED <<prog, log>> /\ Started(service') /\ pc[u] \notin Over
    BY <1>2 DEF Restart, Revert, Return, Goto, disk, tmp, Over
  <2>2. Started(service)' /\ log' = {}
    BY <1>0, <2>1, NewStart DEF Logged
  <2>3. QED
    BY <2>2 DEF Served, Logged
<1>3. CASE Finish(u)
  <2>1. /\ UNCHANGED <<prog, origin, service, kills, rc>>
        /\ pc[u] = "exit" /\ pc'[u] = "end"
        /\ log' \subseteq log \cup {rc[u]}
    BY <1>0, <1>3 DEF Finish, Written, Goto, disk, TypeOK
  <2>2. log = {} /\ rc[u] \in {0, 1}
    BY <1>0, <2>1 DEF Logged, TypeOK, Over
  <2>3. kills' = 0 => Started(service)'
    BY <1>0, <2>1, SameStart DEF Served, Untouched
  <2>4. rc[u] = 0 => Good(prog') /\ Started(service)'
    <3>1. rc[u] = 0 => Good(prog) /\ Started(service)
      BY <1>0, <2>1, TreeShapes DEF Phase, Outcome, Complete, Served
    <3>2. QED
      BY <2>1, <3>1, SameStart
  <2>5. rc[u] = 1 => (exists(origin) => prog = origin)
    BY <1>0, <2>1 DEF Phase, Outcome
  <2>6. Served'
    BY <1>0, <2>1, <2>3 DEF Served
  <2>7. Logged'
    BY <1>0, <2>1, <2>2, <2>4, <2>5 DEF Logged, Good, Over
  <2>8. QED
    BY <2>6, <2>7
<1>4. CASE Exit(u)
  <2>1. /\ UNCHANGED <<prog, origin, service, kills, rc, log>>
        /\ pc[u] = "end" /\ pc'[u] = "none"
    BY <1>0, <1>4 DEF Exit, Goto, disk, bounds, TypeOK
  <2>2. Started(service) <=> Started(service)'
    BY <2>1, SameStart
  <2>3. Served'
    BY <1>0, <2>1, <2>2 DEF Served, Untouched, Over
  <2>4. Logged'
    BY <1>0, <2>1, <2>2 DEF Logged, Good, Over
  <2>5. QED
    BY <2>3, <2>4
<1>5. QED
  BY <1>1, <1>2, <1>3, <1>4

\* Steps that leave the updaters, the tree and the service alone.
LEMMA StillServed ==
  ASSUME SInv, UNCHANGED <<pc, rc, prog, service, origin, kills>>, log' \subseteq log
  PROVE  Served' /\ Logged'
<1>1. Started(service) <=> Started(service)'
  BY SameStart
<1>2. QED
  BY <1>1 DEF SInv, Served, Logged, Good

LEMMA BeginServed ==
  ASSUME \A u, w \in Updaters : u = w, SInv, NEW u \in Updaters, Begin(u)
  PROVE  Served' /\ Logged'
<1>1. /\ UNCHANGED <<prog, service, kills>> /\ log' = {}
      /\ pc[u] = "none" /\ pc'[u] = "fetch" /\ \A w \in Updaters : w = u
  BY DEF Begin, disk, SInv, IInv, TypeOK
<1>2. QED
  BY <1>1, SameStart DEF SInv, Served, Logged, Untouched, Over

LEMMA ServeStep ==
  ASSUME \A u, w \in Updaters : u = w, SInv, [Next]_vars
  PROVE  SInv'
<1>1. IInv'
  BY InvStep DEF SInv
<1>2. Served' /\ Logged'
  <2>1. ASSUME NEW g \in Pages, Page(g) PROVE Served' /\ Logged'
    <3>1. UNCHANGED <<pc, rc, prog, service, origin, kills>> /\ log' \subseteq log
      BY <2>1
         DEF Page, Ask, ClearLog, StartStopDaemon, Status, ReadFinished, ReadSuccess,
             ReadRunning, Catch, disk, proc, tmp, bounds
    <3>2. QED
      BY <3>1, StillServed
  <2>2. ASSUME NEW u \in Updaters, Launch(u) PROVE Served' /\ Logged'
    <3>1. CASE Begin(u)
      BY <3>1, BeginServed
    <3>2. CASE ~Begin(u)
      BY <2>2, <3>2, StillServed DEF Launch, disk, proc, bounds
    <3>3. QED
      BY <3>1, <3>2
  <2>3. ASSUME NEW u \in Updaters, CommandLine(u) PROVE Served' /\ Logged'
    BY <2>3, BeginServed DEF CommandLine
  <2>4. ASSUME NEW u \in Updaters, Apply(u) PROVE Served' /\ Logged'
    BY <1>1, <2>4, ServeApply
  <2>5. ASSUME NEW u \in Updaters, Kill(u) PROVE Served' /\ Logged'
    <3>1. /\ kills' # 0 /\ UNCHANGED <<prog, origin, service, log>>
          /\ \A w \in Updaters : pc'[w] = "none"
      BY <2>5 DEF Kill, disk, SInv, IInv, TypeOK
    <3>2. Started(service) <=> Started(service)'
      BY <3>1, SameStart
    <3>3. QED
      BY <3>1, <3>2 DEF SInv, Served, Logged, Good, Over
  <2>6. CASE Respawn
    <3>1. UNCHANGED <<pc, rc, prog, origin, kills, log>> /\ Started(service')
      BY <2>6 DEF Respawn, disk, proc, tmp, bounds
    <3>2. Started(service)'
      BY <3>1, NewStart
    <3>3. QED
      BY <3>1, <3>2 DEF SInv, Served, Logged, Good
  <2>7. CASE PowerCut
    <3>1. UNCHANGED prog /\ Started(service') /\ log' = {}
      BY <2>7 DEF PowerCut, disk
    <3>2. Started(service)'
      BY <3>1, NewStart
    <3>3. QED
      BY <3>1, <3>2 DEF Served, Logged
  <2>8. CASE UNCHANGED vars
    BY <2>8, StillServed DEF vars, disk, proc, tmp, bounds
  <2>9. ASSUME NEW u \in Updaters, KillShell(u) PROVE Served' /\ Logged'
    <3>1. kills' # 0 /\ UNCHANGED <<pc, rc, prog, service, origin, log>>
      BY <2>9 DEF KillShell, disk, proc, SInv, IInv, TypeOK
    <3>2. Started(service) <=> Started(service)'
      BY <3>1, SameStart
    <3>3. QED
      BY <3>1, <3>2 DEF SInv, Served, Logged, Good
  <2>10. QED
    BY <2>1, <2>2, <2>3, <2>4, <2>5, <2>6, <2>7, <2>8, <2>9 DEF Next
<1>3. QED
  BY <1>1, <1>2 DEF SInv

LEMMA ServeInit == Init => SInv
<1>1. ASSUME Init PROVE Served /\ Logged
  <2>1. PICK v \in Versions \ Broken : prog = Of(v) /\ service = v
    BY <1>1 DEF Init
  <2>2. QED
    BY <1>1, <2>1 DEF Init, Served, Logged, Started
<1>2. QED
  BY <1>1, TypeInit, DiskInit DEF SInv, IInv

LEMMA ServeInductive ==
  ASSUME \A u, w \in Updaters : u = w
  PROVE  Spec => []SInv
BY ServeInit, ServeStep, PTL DEF Spec

\* Between updates the service runs what is installed, unless an updater was
\* killed (the restarts in cmd_apply and rollback).
THEOREM ServiceFollowsTree ==
  ASSUME \A u, w \in Updaters : u = w
  PROVE  Spec => []ServiceIsInstalled
<1>1. SInv => ServiceIsInstalled
  BY DEF SInv, Served, Untouched, Over, ServiceIsInstalled
<1>2. QED
  BY <1>1, ServeInductive, PTL

(***************************************************************************)
(* What a page says                                                        *)
(***************************************************************************)
\* The codes in the log are of updates that have ended since the page removed it, and
\* what the page has read of it it has read since.
Heard(g) ==
  /\ page[g] \in Asking \ {"granted"} => log \subseteq ended[g]
  /\ page[g] \in {"good", "success"} => 0 \in ended[g]

HInv == TypeOK /\ \A g \in Pages : Heard(g)

LEMMA HeardStep ==
  ASSUME HInv, [Next]_vars
  PROVE  HInv'
<1>1. TypeOK'
  BY TypeStep DEF HInv
<1> SUFFICES ASSUME NEW g \in Pages PROVE Heard(g)'
  BY <1>1 DEF HInv
<1>2. Heard(g) /\ TypeOK
  BY DEF HInv
<1>3. ASSUME page'[g] = page[g], ended'[g] = ended[g], log' \subseteq log PROVE Heard(g)'
  BY <1>2, <1>3 DEF Heard
<1>4. ASSUME NEW h \in Pages, Page(h) PROVE Heard(g)'
  <2>1. CASE h # g
    <3>1. page'[g] = page[g] /\ ended'[g] = ended[g] /\ log' \subseteq log
      BY <1>2, <1>4, <2>1
         DEF Page, Ask, ClearLog, StartStopDaemon, Status, ReadFinished, ReadSuccess,
             ReadRunning, Catch, tmp, bounds, told, TypeOK
    <3>2. QED
      BY <1>3, <3>1
  <2>2. CASE h = g /\ ClearLog(g)
    BY <1>2, <2>2 DEF ClearLog, Heard, TypeOK
  <2>3. CASE h = g /\ ~ClearLog(g)
    <3>1. UNCHANGED <<ended, log>>
      BY <1>4, <2>3
         DEF Page, Ask, StartStopDaemon, Status, ReadFinished, ReadSuccess, ReadRunning, Catch,
             tmp, bounds, told
    <3>2. CASE Ask(g) \/ Catch(g)
      BY <1>2, <3>2 DEF Ask, Catch, Heard, TypeOK, Asking, Following
    <3>3. CASE StartStopDaemon(g) \/ ReadFinished(g)
      BY <1>2, <3>1, <3>3
         DEF StartStopDaemon, ReadFinished, Heard, TypeOK, Asking, Following
    <3>4. CASE ReadSuccess(g)
      BY <1>2, <3>1, <3>4 DEF ReadSuccess, Heard, TypeOK, Asking, Following
    <3>5. CASE ReadRunning(g)
      BY <1>2, <3>1, <3>5 DEF ReadRunning, Heard, TypeOK, Asking, Following
    <3>6. QED
      BY <1>4, <2>3, <3>2, <3>3, <3>4, <3>5 DEF Page, Status
  <2>4. QED
    BY <2>1, <2>2, <2>3
<1>5. ASSUME NEW u \in Updaters, Begin(u) PROVE Heard(g)'
  BY <1>3, <1>5 DEF Begin
<1>6. ASSUME NEW u \in Updaters, Launch(u) \/ CommandLine(u) PROVE Heard(g)'
  BY <1>3, <1>5, <1>6 DEF Launch, CommandLine, bounds
<1>7. ASSUME NEW u \in Updaters, Finish(u) PROVE Heard(g)'
  <2>1. ended'[g] = ended[g] \cup {rc[u]} /\ log' \subseteq log \cup {rc[u]} /\ page' = page
    BY <1>7 DEF Finish, Written
  <2>2. QED
    BY <1>2, <2>1 DEF Heard
<1>8. ASSUME NEW u \in Updaters, Apply(u), ~Finish(u) PROVE Heard(g)'
  <2>1. UNCHANGED <<page, ended, log>>
    BY <1>8
       DEF Apply, Fetch, FetchFails, Unlink, Unlinked, BeginBackup, CopyBackup, BackedUp,
           BackupFails, InstallFile, Installed, InstallFails, Imports, ImportFails, Committed,
           Restart, Rollback, Remove, Removed, Restore, Revert, Exit,
           Step, Return, StartInstaller, around, tmp, bounds
  <2>2. QED
    BY <1>3, <2>1
<1>9. ASSUME NEW u \in Updaters, Kill(u) \/ KillShell(u) PROVE Heard(g)'
  BY <1>3, <1>9 DEF Kill, KillShell, told
<1>10. CASE Respawn \/ UNCHANGED vars
  BY <1>3, <1>10 DEF Respawn, vars, tmp, bounds
<1>11. CASE PowerCut
  BY <1>11 DEF PowerCut, Heard, Asking, Following
<1>12. QED
  BY <1>4, <1>6, <1>7, <1>8, <1>9, <1>10, <1>11 DEF Next

LEMMA HeardAlways == Spec => []HInv
<1>1. Init => HInv
  BY TypeInit DEF HInv, Heard, Init, Asking, Following
<1>2. QED
  BY <1>1, HeardStep, PTL DEF Spec

\* A page says "Updated to ..." only if an update has ended with code 0 since it removed
\* the log itself: for any number of updaters and pages at once.
THEOREM SuccessIsNeverStale == Spec => []SuccessIsReal
<1>1. HInv => SuccessIsReal
  BY DEF HInv, Heard, SuccessIsReal
<1>2. QED
  BY <1>1, HeardAlways, PTL

\* A page moves by its own requests and with the power only.
LEMMA PageMoves ==
  ASSUME [Next]_vars, page' # page, NEW g \in Pages, page'[g] # "closed"
  PROVE  \E h \in Pages : Page(h)
<1>1. ASSUME NEW u \in Updaters, Launch(u) \/ CommandLine(u) \/ Kill(u) \/ KillShell(u) PROVE FALSE
  BY <1>1 DEF Launch, CommandLine, Begin, Kill, KillShell
<1>2. ASSUME NEW u \in Updaters, Apply(u) PROVE FALSE
  BY <1>2
     DEF Apply, Fetch, FetchFails, Unlink, Unlinked, BeginBackup, CopyBackup, BackedUp,
         BackupFails, InstallFile, Installed, InstallFails, Imports, ImportFails, Committed,
         Restart, Rollback, Remove, Removed, Restore, Revert, Finish, Written, Exit,
         Step, Return, StartInstaller, around
<1>3. CASE PowerCut
  BY <1>3 DEF PowerCut
<1>4. QED
  BY <1>1, <1>2, <1>3 DEF Next, Respawn, vars

\* What the page has read is in the log, as long as that is not removed or truncated.
Fresh(g) ==
  g \notin torn =>
    /\ page[g] \in {"finished", "good", "bad"} => log # {}
    /\ page[g] = "good" => 0 \in log
    /\ page[g] = "bad" => 0 \notin log

PInv == SInv /\ HInv /\ \A g \in Pages : Fresh(g)

LEMMA FreshStep ==
  ASSUME \A u, w \in Updaters : u = w, PInv, [Next]_vars
  PROVE  PInv'
<1>1. SInv' /\ HInv'
  BY ServeStep, HeardStep DEF PInv
<1> SUFFICES ASSUME NEW g \in Pages PROVE Fresh(g)'
  BY <1>1 DEF PInv
<1>2. Fresh(g) /\ TypeOK /\ Logged
  BY DEF PInv, HInv, SInv
<1>3. ASSUME page'[g] = page[g], (g \notin torn' => g \notin torn /\ log' = log) PROVE Fresh(g)'
  BY <1>2, <1>3 DEF Fresh
<1>4. ASSUME NEW h \in Pages, Page(h) PROVE Fresh(g)'
  <2>1. CASE h # g
    <3>1. page'[g] = page[g] /\ (g \notin torn' => g \notin torn /\ log' = log)
      BY <1>2, <1>4, <2>1
         DEF Page, Ask, ClearLog, StartStopDaemon, Status, ReadFinished, ReadSuccess,
             ReadRunning, Catch, tmp, bounds, told, TypeOK
    <3>2. QED
      BY <1>3, <3>1
  <2>2. CASE h = g /\ ReadFinished(g)
    BY <1>2, <2>2 DEF ReadFinished, Fresh, TypeOK, tmp
  <2>3. CASE h = g /\ ReadSuccess(g)
    BY <1>2, <2>3 DEF ReadSuccess, Fresh, TypeOK, tmp, bounds
  <2>4. CASE h = g /\ ~ReadFinished(g) /\ ~ReadSuccess(g)
    <3>1. page'[g] \notin {"finished", "good", "bad"}
      BY <1>2, <1>4, <2>4
         DEF Page, Ask, ClearLog, StartStopDaemon, Status, ReadRunning, Catch, TypeOK
    <3>2. QED
      BY <3>1 DEF Fresh
  <2>5. QED
    BY <2>1, <2>2, <2>3, <2>4
<1>5. ASSUME NEW u \in Updaters, Begin(u) PROVE Fresh(g)'
  BY <1>5 DEF Begin, Fresh
<1>6. ASSUME NEW u \in Updaters, Launch(u) \/ CommandLine(u) PROVE Fresh(g)'
  BY <1>3, <1>5, <1>6 DEF Launch, CommandLine, bounds
<1>7. ASSUME NEW u \in Updaters, Finish(u) PROVE Fresh(g)'
  <2>1. pc[u] = "exit" /\ log = {}
    BY <1>2, <1>7 DEF Finish, Written, Goto, Logged, Over
  <2>2. UNCHANGED <<page, torn>>
    BY <1>7 DEF Finish, Written
  <2>3. QED
    BY <1>2, <2>1, <2>2 DEF Fresh
<1>8. ASSUME NEW u \in Updaters, Apply(u), ~Finish(u) PROVE Fresh(g)'
  <2>1. UNCHANGED <<page, torn, log>>
    BY <1>8
       DEF Apply, Fetch, FetchFails, Unlink, Unlinked, BeginBackup, CopyBackup, BackedUp,
           BackupFails, InstallFile, Installed, InstallFails, Imports, ImportFails, Committed,
           Restart, Rollback, Remove, Removed, Restore, Revert, Exit,
           Step, Return, StartInstaller, around, tmp, bounds
  <2>2. QED
    BY <1>3, <2>1
<1>9. ASSUME NEW u \in Updaters, Kill(u) \/ KillShell(u) PROVE Fresh(g)'
  BY <1>3, <1>9 DEF Kill, KillShell, told
<1>10. CASE Respawn \/ UNCHANGED vars
  BY <1>3, <1>10 DEF Respawn, vars, tmp, bounds
<1>11. CASE PowerCut
  BY <1>11 DEF PowerCut, Fresh
<1>12. QED
  BY <1>4, <1>6, <1>7, <1>8, <1>9, <1>10, <1>11 DEF Next

LEMMA FreshAlways ==
  ASSUME \A u, w \in Updaters : u = w
  PROVE  Spec => []PInv
<1>1. Init => HInv
  BY TypeInit DEF HInv, Heard, Init, Asking, Following
<1>2. Init => PInv
  BY <1>1, ServeInit DEF PInv, Fresh, Init
<1>3. QED
  BY <1>2, FreshStep, PTL DEF Spec

\* What a page says is true if nobody removes or truncates the log between its reads
\* (method_update_status, runUpdate); without that condition it is not.
THEOREM PageIsTruthful ==
  ASSUME \A u, w \in Updaters : u = w
  PROVE  Spec => PageTellsTruth
<1> DEFINE Truth == \A g \in Pages : page[g] \in Following /\ g \notin torn =>
      /\ page'[g] = "success" => Good(prog) /\ Started(service)
      /\ page'[g] = "failure" => 1 \in ended[g] /\ (exists(origin) => prog = origin)
<1>1. PInv /\ [Next]_vars => Truth
  <2> SUFFICES ASSUME PInv, [Next]_vars, NEW g \in Pages, page[g] \in Following, g \notin torn,
                      page'[g] \in {"success", "failure"}
               PROVE  /\ page'[g] = "success" => Good(prog) /\ Started(service)
                      /\ page'[g] = "failure" =>
                           1 \in ended[g] /\ (exists(origin) => prog = origin)
    OBVIOUS
  <2>1. /\ TypeOK /\ Logged /\ Heard(g) /\ Fresh(g)
    BY DEF PInv, SInv, HInv
  <2>2. page' # page
    BY DEF Following
  <2>3. PICK h \in Pages : Page(h)
    BY <2>2, PageMoves
  <2>4. ReadRunning(g)
    BY <2>1, <2>2, <2>3
       DEF Page, Ask, ClearLog, StartStopDaemon, Status, ReadFinished, ReadSuccess,
           ReadRunning, Catch, TypeOK, Following
  <2>5. /\ page[g] \in {"good", "bad"}
        /\ page'[g] = IF page[g] = "good" THEN "success" ELSE "failure"
    BY <2>1, <2>4 DEF ReadRunning, TypeOK
  <2>6. log # {} /\ log \subseteq {0, 1} /\ log \subseteq ended[g]
    BY <2>1, <2>5 DEF Fresh, Heard, TypeOK, Asking, Following
  <2>7. CASE page[g] = "good"
    BY <2>1, <2>5, <2>7 DEF Fresh, Logged
  <2>8. CASE page[g] = "bad"
    <3>1. 1 \in log
      BY <2>1, <2>6, <2>8 DEF Fresh
    <3>2. QED
      BY <2>1, <2>5, <2>6, <2>8, <3>1 DEF Logged
  <2>9. QED
    BY <2>5, <2>7, <2>8
<1>2. QED
  BY <1>1, FreshAlways, PTL DEF Spec, PageTellsTruth
================================================================================
