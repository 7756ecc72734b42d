----------------------------- MODULE CameraFocus ------------------------------
(***************************************************************************)
(* The auto focus of the receiving page.  newCameraManager builds an       *)
(* AutoFocusManager when the preview starts and again when a volume key    *)
(* unlocks the focus.  A manager asks the camera to focus; when the camera *)
(* calls back, or refuses, it starts a task that sleeps and asks again.    *)
(* The tasks run on a thread pool and outlive the page; start, stop and    *)
(* onAutoFocus hold the manager's lock, so each is one step.               *)
(*                                                                         *)
(* A camera is named by the visit that opened it.  Nothing happens unless  *)
(* UseAutoFocus, which the preferences and the camera's focus mode decide. *)
(***************************************************************************)
EXTENDS Naturals, Sequences, FiniteSets

CONSTANTS
  UseAutoFocus,  \* useAutoFocus
  Task, NoTask,  \* AutoFocusTasks of one manager; null
  MaxVisits, MaxManagers  \* bounds: visits of the page, AutoFocusManagers built

ASSUME FocusAssumption ==
  /\ UseAutoFocus \in BOOLEAN /\ NoTask \notin Task
  /\ MaxVisits \in Nat /\ MaxManagers \in Nat

VARIABLES
  visits,    \* how often the page was opened
  camera,    \* the camera that is open, or 0
  handler,   \* ReceiveActivity.handler # null
  completed, \* visits whose file was received
  isautofocus, \* what the page takes the focus for: automatic or locked
  managers,  \* the AutoFocusManagers, in the order they were built
  current    \* newCameraManager.autoFocusManager, or 0

page == <<visits, camera, handler, completed, isautofocus>>
vars == <<visits, camera, handler, completed, isautofocus, managers, current>>

Init ==
  /\ visits = 0 /\ camera = 0 /\ handler = FALSE /\ completed = {}
  /\ isautofocus = TRUE /\ managers = <<>> /\ current = 0

-----------------------------------------------------------------------------
(* AutoFocusManager.  Each operator gives the states a call may leave.     *)

\* alive: the tasks that have not ended; starts: how often start was called from outside;
\* rejected: a task was refused by the thread pool; late: a released camera was asked.
NewManager(c, starts) ==
  [camera |-> c, starts |-> starts, stopped |-> FALSE, focusing |-> FALSE,
   outstanding |-> NoTask, alive |-> {}, rejected |-> FALSE, late |-> FALSE]

\* The thread pool takes the task or rejects it.
AutoFocusAgainLater(r) ==
  IF r.stopped \/ r.outstanding # NoTask THEN {r}
  ELSE {[r EXCEPT !.rejected = TRUE]} \cup
       {[r EXCEPT !.outstanding = t, !.alive = @ \cup {t}] : t \in Task \ r.alive}

\* Mutants of start: the reference to the last task is kept; focusing is set before the
\* camera is asked; stopped is not looked at.
StartKeepsTask(r, open) ==
  IF ~UseAutoFocus \/ r.stopped \/ r.focusing THEN {r}
  ELSE (IF r.camera = open THEN {[r EXCEPT !.focusing = TRUE]} ELSE {})
       \cup AutoFocusAgainLater([r EXCEPT !.late = @ \/ r.camera # open])

StartFocusingFirst(r, open) ==
  LET cleared == [r EXCEPT !.outstanding = NoTask] IN
  IF ~UseAutoFocus THEN {r}
  ELSE IF r.stopped \/ r.focusing THEN {cleared}
  ELSE (IF r.camera = open THEN {[cleared EXCEPT !.focusing = TRUE]} ELSE {})
       \cup AutoFocusAgainLater([cleared EXCEPT !.late = @ \/ r.camera # open, !.focusing = TRUE])

StartAfterStop(r, open) ==
  LET cleared == [r EXCEPT !.outstanding = NoTask] IN
  IF ~UseAutoFocus THEN {r}
  ELSE IF r.focusing THEN {cleared}
  ELSE (IF r.camera = open THEN {[cleared EXCEPT !.focusing = TRUE]} ELSE {})
       \cup AutoFocusAgainLater([cleared EXCEPT !.late = @ \/ r.camera # open])

\* start.  An open camera may refuse, one that was released always does.
Start(r, open) ==
  LET cleared == [r EXCEPT !.outstanding = NoTask] IN
  IF ~UseAutoFocus THEN {r}
  ELSE IF r.stopped \/ r.focusing THEN {cleared}
  ELSE (IF r.camera = open THEN {[cleared EXCEPT !.focusing = TRUE]} ELSE {})
       \cup AutoFocusAgainLater([cleared EXCEPT !.late = @ \/ r.camera # open])

\* stop: the outstanding task is interrupted, which wakes it but does not end it.
Stop(r) ==
  IF UseAutoFocus THEN [r EXCEPT !.stopped = TRUE, !.outstanding = NoTask]
  ELSE [r EXCEPT !.stopped = TRUE]

-----------------------------------------------------------------------------
(* The main thread.                                                        *)

\* onResume, initCamera and startPreview: the constructor of the manager calls start.  The
\* activity is new, or it was paused and has kept isautofocus; its newCameraManager is new
\* in both cases.  A camera that does not open is left out.
OpenPage ==
  /\ camera = 0 /\ visits < MaxVisits /\ Len(managers) < MaxManagers
  /\ visits' = visits + 1 /\ camera' = visits + 1 /\ handler' = TRUE
  /\ \E r \in Start(NewManager(visits + 1, 1), visits + 1) : managers' = Append(managers, r)
  /\ current' = Len(managers) + 1
  /\ isautofocus' \in {isautofocus, TRUE}
  /\ UNCHANGED completed

TransmissionComplete ==
  /\ camera # 0 /\ handler
  /\ handler' = FALSE
  /\ completed' = completed \cup {camera}
  /\ UNCHANGED <<visits, camera, isautofocus, managers, current>>

\* Mutant: the preview is stopped, but not the focus.
OnPauseKeepsFocus ==
  /\ camera # 0
  /\ camera' = 0 /\ handler' = FALSE /\ current' = 0
  /\ UNCHANGED <<visits, completed, isautofocus, managers>>

\* onPause: quitSynchronously stops the preview and with it the manager, if there is still
\* a handler; the camera is released in any case.  The next visit has a new
\* newCameraManager, so nobody keeps the manager.
OnPause ==
  /\ camera # 0
  /\ managers' = IF handler /\ current # 0
                 THEN [managers EXCEPT ![current] = Stop(@)] ELSE managers
  /\ camera' = 0 /\ handler' = FALSE /\ current' = 0
  /\ UNCHANGED <<visits, completed, isautofocus>>

\* Mutant: the manager is dropped without being stopped.
LockFocusDropped ==
  /\ current # 0
  /\ current' = 0
  /\ UNCHANGED managers

\* setAutoFocus: the focus is locked, or a new manager is built and started once more than
\* its constructor has done.
LockFocus ==
  /\ current # 0
  /\ managers' = [managers EXCEPT ![current] = Stop(@)]
  /\ current' = 0

UnlockFocus ==
  /\ current = 0 /\ Len(managers) < MaxManagers
  /\ \E first \in Start(NewManager(camera, 2), camera) :
       \E r \in Start(first, camera) : managers' = Append(managers, r)
  /\ current' = Len(managers) + 1

\* A volume key.
SwitchAutoFocus ==
  /\ camera # 0
  /\ isautofocus' = ~isautofocus
  /\ LockFocus \/ UnlockFocus
  /\ UNCHANGED <<visits, camera, handler, completed>>

\* The camera has focused.  A call that was posted comes even after stop and release.
OnAutoFocus(m) ==
  /\ managers[m].focusing
  /\ \E r \in AutoFocusAgainLater([managers[m] EXCEPT !.focusing = FALSE]) :
       managers' = [managers EXCEPT ![m] = r]
  /\ UNCHANGED <<page, current>>

-----------------------------------------------------------------------------
\* AutoFocusTask.doInBackground: the task has slept, or was interrupted; it calls start and
\* ends.
DoInBackground(m, t) ==
  /\ t \in managers[m].alive
  /\ \E r \in Start([managers[m] EXCEPT !.alive = @ \ {t}], camera) :
       managers' = [managers EXCEPT ![m] = r]
  /\ UNCHANGED <<page, current>>

Next ==
  \/ OpenPage \/ TransmissionComplete \/ OnPause \/ SwitchAutoFocus
  \/ \E m \in DOMAIN managers : OnAutoFocus(m) \/ \E t \in Task : DoInBackground(m, t)

Spec == Init /\ [][Next]_vars

\* A task sleeps for two seconds and then runs.
Fairness ==
  \A m \in 1 .. MaxManagers, t \in Task : WF_vars(m \in DOMAIN managers /\ DoInBackground(m, t))

FairSpec == Spec /\ Fairness

-----------------------------------------------------------------------------
(* Properties.                                                             *)

Manager ==
  [camera : Nat, starts : {1, 2}, stopped : BOOLEAN, focusing : BOOLEAN,
   outstanding : Task \cup {NoTask}, alive : SUBSET Task, rejected : BOOLEAN, late : BOOLEAN]

\* The variables keep their types; a manager's outstanding task has not ended.
TypeOK ==
  /\ visits \in Nat /\ camera \in {0, visits}
  /\ handler \in BOOLEAN /\ completed \subseteq 1 .. visits /\ isautofocus \in BOOLEAN
  /\ managers \in Seq(Manager) /\ current \in 0 .. Len(managers)
  /\ \A m \in DOMAIN managers :
       managers[m].outstanding \in managers[m].alive \cup {NoTask}

\* Retries do not multiply: the focusing under way and the tasks that will ask again are
\* never more than the calls of start from outside.
AttemptsDoNotMultiply ==
  \A m \in DOMAIN managers :
    Cardinality(managers[m].alive) + (IF managers[m].focusing THEN 1 ELSE 0) <= managers[m].starts

\* "Try again later to keep cycle going": a manager that was not stopped, and whose tasks
\* the thread pool has taken, is focusing or has a task that will ask again.
CycleGoesOn ==
  \A m \in DOMAIN managers :
    UseAutoFocus /\ ~managers[m].stopped /\ ~managers[m].rejected
      => managers[m].focusing \/ managers[m].alive # {}

\* No two managers that are not stopped are on the same camera.
OneManagerPerCamera ==
  \A m, n \in DOMAIN managers :
    /\ managers[m].camera = managers[n].camera
    /\ ~managers[m].stopped /\ ~managers[n].stopped
    => m = n

\* A camera is asked to focus after its release only when its page was left with the file
\* received: on that way nobody stops the manager.
ReleasedCameraIsLeftAlone ==
  \A m \in DOMAIN managers : managers[m].late => managers[m].camera \in completed

\* Once a page is left without the file received, all tasks of its managers end.
LeftPageGoesQuiet ==
  \A v \in 1 .. MaxVisits :
    (v <= visits /\ camera # v /\ v \notin completed) ~>
    (\A m \in DOMAIN managers : managers[m].camera = v => managers[m].alive = {})
=============================================================================
