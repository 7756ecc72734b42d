-------------------------- MODULE CameraFocusProofs ---------------------------
(***************************************************************************)
(* The safety properties of CameraFocus, for any number of visits and      *)
(* managers and any set of tasks.  A manager is changed by four operators  *)
(* on records; what each of them keeps is a lemma, and the steps of the    *)
(* page only have to say which manager they change.                        *)
(***************************************************************************)
EXTENDS CameraFocus, FiniteSetTheorems, SequenceTheorems, TLAPS

\* The attempts of a manager that are under way.
Attempts(r) == Cardinality(r.alive) + (IF r.focusing THEN 1 ELSE 0)

\* A manager whose parts fit together, apart from its attempts being counted.
Sound(r) ==
  /\ r \in Manager /\ IsFiniteSet(r.alive)
  /\ r.outstanding \in r.alive \cup {NoTask}
  /\ r.focusing \/ r.alive # {} => UseAutoFocus

\* A manager goes on trying unless it was stopped or the thread pool refused it.
GoesOn(r) == UseAutoFocus /\ ~r.stopped /\ ~r.rejected => r.focusing \/ r.alive # {}

\* What no operation on a manager changes.
SameButStop(r, s) == s.camera = r.camera /\ s.starts = r.starts /\ (r.stopped => s.stopped)

LEMMA AttemptsType ==
  ASSUME NEW r \in Manager, IsFiniteSet(r.alive)
  PROVE  Attempts(r) \in Nat /\ r.starts \in Nat
<1>1. Cardinality(r.alive) \in Nat
  BY FS_CardinalityType
<1> QED BY <1>1 DEF Attempts, Manager

-----------------------------------------------------------------------------
\* autoFocusAgainLater adds at most one attempt, and one at least unless it is stopped,
\* refused, or has a task already.
LEMMA AgainLaterFacts ==
  ASSUME UseAutoFocus, NEW r, Sound(r), NEW s \in AutoFocusAgainLater(r)
  PROVE  /\ Sound(s) /\ SameButStop(r, s) /\ s.stopped = r.stopped
         /\ s.late = r.late /\ s.focusing = r.focusing
         /\ ~s.stopped /\ ~s.rejected => s.alive # {}
         /\ Attempts(s) <= Attempts(r) + 1
<1>0. r \in Manager /\ IsFiniteSet(r.alive) /\ r.outstanding \in r.alive \cup {NoTask}
  BY DEF Sound
<1>1. CASE s = r /\ (r.stopped \/ r.outstanding # NoTask)
  <2>1. Cardinality(r.alive) \in Nat
    BY <1>0, FS_CardinalityType
  <2>2. ~s.stopped => s.alive # {}
    BY <1>0, <1>1
  <2> QED BY <1>1, <2>1, <2>2 DEF SameButStop, Attempts
<1>2. CASE s = [r EXCEPT !.rejected = TRUE]
  <2>1. Cardinality(r.alive) \in Nat
    BY <1>0, FS_CardinalityType
  <2>2. /\ s \in Manager /\ s.rejected /\ s.alive = r.alive /\ s.outstanding = r.outstanding
        /\ SameButStop(r, s) /\ s.stopped = r.stopped
        /\ s.late = r.late /\ s.focusing = r.focusing
    BY <1>0, <1>2 DEF Manager, SameButStop
  <2>3. Attempts(s) = Attempts(r) /\ Attempts(r) \in Nat
    BY <2>1, <2>2 DEF Attempts
  <2> QED BY <1>0, <2>2, <2>3 DEF Sound
<1>3. ASSUME NEW t \in Task \ r.alive,
             s = [r EXCEPT !.outstanding = t, !.alive = @ \cup {t}]
      PROVE  /\ Sound(s) /\ SameButStop(r, s) /\ s.stopped = r.stopped
             /\ s.late = r.late /\ s.focusing = r.focusing
             /\ s.alive # {}
             /\ Attempts(s) <= Attempts(r) + 1
  <2>1. /\ s \in Manager /\ s.alive = r.alive \cup {t} /\ s.outstanding = t
        /\ SameButStop(r, s) /\ s.stopped = r.stopped
        /\ s.late = r.late /\ s.focusing = r.focusing
    BY <1>0, <1>3 DEF Manager, SameButStop
  <2>2. IsFiniteSet(s.alive) /\ Cardinality(s.alive) = Cardinality(r.alive) + 1
    BY <1>0, <1>3, <2>1, FS_AddElement
  <2>3. Cardinality(r.alive) \in Nat
    BY <1>0, FS_CardinalityType
  <2>4. Attempts(s) <= Attempts(r) + 1
    BY <2>1, <2>2, <2>3 DEF Attempts
  <2> QED BY <2>1, <2>2, <2>4 DEF Sound
<1> QED BY <1>1, <1>2, <1>3 DEF AutoFocusAgainLater

\* start adds at most one attempt, leaves one unless stopped or refused, and asks another
\* camera than the open one only when it was not stopped.  It may be called by the very task
\* that is still the outstanding one.
LEMMA StartFacts ==
  ASSUME UseAutoFocus, NEW r \in Manager, IsFiniteSet(r.alive),
         NEW open, NEW s \in Start(r, open)
  PROVE  /\ Sound(s) /\ SameButStop(r, s) /\ s.stopped = r.stopped
         /\ s.late => r.late \/ (~r.stopped /\ r.camera # open)
         /\ GoesOn(s)
         /\ Attempts(s) <= Attempts(r) + 1
<1> DEFINE cleared == [r EXCEPT !.outstanding = NoTask]
           asked   == [cleared EXCEPT !.late = @ \/ r.camera # open]
<1>0. Cardinality(r.alive) \in Nat
  BY FS_CardinalityType
<1>2. CASE r.stopped \/ r.focusing
  <2>1. s = cleared
    BY <1>2 DEF Start
  <2> QED BY <1>0, <1>2, <2>1 DEF Sound, SameButStop, GoesOn, Attempts, Manager
<1>3. CASE ~r.stopped /\ ~r.focusing
  <2>1. \/ s = [cleared EXCEPT !.focusing = TRUE] /\ r.camera = open
        \/ s \in AutoFocusAgainLater(asked)
    BY <1>3 DEF Start
  <2>2. CASE s = [cleared EXCEPT !.focusing = TRUE] /\ r.camera = open
    <3>1. /\ s \in Manager /\ s.focusing /\ s.alive = r.alive /\ s.outstanding = NoTask
          /\ SameButStop(r, s) /\ s.stopped = r.stopped /\ s.late = r.late
      BY <1>0, <2>2 DEF Manager, SameButStop
    <3>2. Attempts(s) = Attempts(r) + 1
      BY <1>0, <1>3, <3>1 DEF Attempts
    <3>3. Attempts(r) \in Nat
      BY <1>0 DEF Attempts
    <3>4. Sound(s)
      BY <1>0, <1>3, <3>1 DEF Sound
    <3> QED BY <1>3, <3>1, <3>2, <3>3, <3>4, <2>2 DEF GoesOn
  <2>3. CASE s \in AutoFocusAgainLater(asked)
    <3>1. /\ Sound(asked) /\ SameButStop(r, asked) /\ asked.stopped = r.stopped
          /\ asked.late = (r.late \/ r.camera # open)
          /\ Attempts(asked) = Attempts(r)
      BY <1>0 DEF Sound, SameButStop, Attempts, Manager
    <3>2. /\ Sound(s) /\ SameButStop(asked, s) /\ s.stopped = asked.stopped
          /\ s.late = asked.late
          /\ ~s.stopped /\ ~s.rejected => s.alive # {}
          /\ Attempts(s) <= Attempts(asked) + 1
      BY <1>3, <2>3, <3>1, AgainLaterFacts
    <3> QED BY <1>3, <3>1, <3>2 DEF SameButStop, GoesOn
  <2> QED BY <2>1, <2>2, <2>3
<1> QED BY <1>2, <1>3

-----------------------------------------------------------------------------
(* The inductive invariant.                                                *)

\* The types; every manager is sound, goes on, and its attempts are counted.
Typed ==
  /\ visits \in Nat /\ camera \in {0, visits}
  /\ handler \in BOOLEAN /\ completed \subseteq 1 .. visits /\ isautofocus \in BOOLEAN
  /\ managers \in Seq(Manager) /\ current \in 0 .. Len(managers)

Each ==
  \A m \in 1 .. Len(managers) :
    Sound(managers[m]) /\ GoesOn(managers[m]) /\ Attempts(managers[m]) <= managers[m].starts

\* The open camera is in the hands of the current manager alone; every other manager was
\* stopped, or is the last one of a camera left in its hands.
Owned ==
  /\ \A m \in 1 .. Len(managers) : managers[m].camera \in 1 .. visits
  /\ current # 0 => camera # 0 /\ managers[current].camera = camera
  /\ \A m \in 1 .. Len(managers) :
       ~managers[m].stopped /\ managers[m].camera = camera => m = current
  /\ \A m, n \in 1 .. Len(managers) :
       /\ managers[m].camera = managers[n].camera
       /\ ~managers[m].stopped /\ ~managers[n].stopped
       => m = n

\* What is left behind running belongs to a page that received its file.
Left ==
  /\ camera # 0 /\ ~handler => camera \in completed
  /\ \A m \in 1 .. Len(managers) :
       /\ ~managers[m].stopped /\ managers[m].camera # camera => managers[m].camera \in completed
       /\ managers[m].late => managers[m].camera \in completed

Inv == Typed /\ Each /\ Owned /\ Left

LEMMA InvInit == Init => Inv
<1> SUFFICES ASSUME Init PROVE Inv
  OBVIOUS
<1>1. managers = <<>> /\ managers \in Seq(Manager) /\ Len(managers) = 0
  BY EmptySeq DEF Init
<1>2. Typed
  <2>1. /\ visits = 0 /\ camera = 0 /\ handler = FALSE /\ completed = {}
        /\ isautofocus = TRUE /\ current = 0
    BY DEF Init
  <2>2. managers \in Seq(Manager) /\ current \in 0 .. Len(managers)
    BY <1>1, <2>1
  <2> QED BY <2>1, <2>2 DEF Typed
<1>3. 1 .. Len(managers) = {}
  BY <1>1
<1>4. Each
  BY <1>3 DEF Each
<1>5. Owned
  BY <1>3 DEF Init, Owned
<1>6. Left
  BY <1>3 DEF Init, Left
<1> QED BY <1>2, <1>4, <1>5, <1>6 DEF Inv

\* A manager is replaced, or one is added.
LEMMA Changed ==
  ASSUME managers \in Seq(Manager), NEW m \in 1 .. Len(managers), NEW r \in Manager,
         managers' = [managers EXCEPT ![m] = r]
  PROVE  /\ managers' \in Seq(Manager) /\ Len(managers') = Len(managers)
         /\ \A n \in 1 .. Len(managers) : managers'[n] = IF n = m THEN r ELSE managers[n]
BY ExceptSeq

LEMMA Added ==
  ASSUME managers \in Seq(Manager), NEW r \in Manager, managers' = Append(managers, r)
  PROVE  /\ managers' \in Seq(Manager) /\ Len(managers') = Len(managers) + 1
         /\ Len(managers) \in Nat
         /\ \A n \in 1 .. Len(managers) : managers'[n] = managers[n]
         /\ managers'[Len(managers) + 1] = r
BY AppendProperties, LenProperties

\* A manager that is built has one start from its constructor, or two when setAutoFocus
\* starts it again; neither makes more attempts than that.
LEMMA BuiltFacts ==
  ASSUME NEW c \in Nat, NEW starts \in {1, 2}, NEW s \in Start(NewManager(c, starts), c)
  PROVE  /\ Sound(s) /\ GoesOn(s) /\ Attempts(s) <= 1
         /\ s.camera = c /\ s.starts = starts /\ ~s.stopped /\ ~s.late
<1> DEFINE r == NewManager(c, starts)
<1>1. /\ r \in Manager /\ r.alive = {} /\ r.outstanding = NoTask /\ ~r.focusing
      /\ r.camera = c /\ r.starts = starts /\ ~r.stopped /\ ~r.late
  BY DEF NewManager, Manager
<1>2. IsFiniteSet(r.alive) /\ Cardinality(r.alive) = 0
  BY <1>1, FS_EmptySet
<1>3. Sound(r) /\ Attempts(r) = 0
  BY <1>1, <1>2 DEF Sound, Attempts
<1>4. CASE ~UseAutoFocus
  <2>1. s = r
    BY <1>4 DEF Start
  <2> QED BY <1>1, <1>3, <1>4, <2>1 DEF GoesOn
<1>5. CASE UseAutoFocus
  <2>1. s \in Start(r, c)
    OBVIOUS
  <2> HIDE DEF r
  <2>2. /\ Sound(s) /\ SameButStop(r, s) /\ s.stopped = r.stopped
        /\ s.late => r.late \/ (~r.stopped /\ r.camera # c)
        /\ GoesOn(s) /\ Attempts(s) <= Attempts(r) + 1
    BY <1>1, <1>2, <1>5, <2>1, StartFacts
  <2> QED BY <1>1, <1>3, <2>2 DEF SameButStop
<1> QED BY <1>4, <1>5

-----------------------------------------------------------------------------
\* A step of a manager on its own: the camera calls back, or a task wakes up.
LEMMA OwnStep ==
  ASSUME Inv, NEW m \in 1 .. Len(managers), NEW r,
         Sound(r), GoesOn(r), Attempts(r) <= r.starts,
         SameButStop(managers[m], r), r.stopped = managers[m].stopped,
         r.late => managers[m].late
                   \/ (~managers[m].stopped /\ managers[m].camera # camera),
         managers' = [managers EXCEPT ![m] = r],
         UNCHANGED <<page, current>>
  PROVE  Inv'
<1>1. r \in Manager /\ r.camera = managers[m].camera
  BY DEF Sound, SameButStop
<1>2. /\ managers' \in Seq(Manager) /\ Len(managers') = Len(managers)
      /\ \A n \in 1 .. Len(managers) : managers'[n] = IF n = m THEN r ELSE managers[n]
  BY <1>1, Changed DEF Inv, Typed
<1>3. Typed'
  BY <1>2 DEF Inv, Typed, page
<1>4. Each'
  BY <1>2 DEF Inv, Each
<1>5. Owned'
  BY <1>1, <1>2 DEF Inv, Typed, Owned, page
<1>6. Left'
  BY <1>1, <1>2 DEF Inv, Typed, Left, page
<1> QED BY <1>3, <1>4, <1>5, <1>6 DEF Inv

LEMMA OnAutoFocusStep ==
  ASSUME Inv, NEW m \in DOMAIN managers, OnAutoFocus(m)
  PROVE  Inv'
<1> DEFINE old == managers[m]
           called == [old EXCEPT !.focusing = FALSE]
<1>0. m \in 1 .. Len(managers) /\ old \in Manager
  BY LenProperties, ElementOfSeq DEF Inv, Typed
<1>1. Sound(old) /\ Attempts(old) <= old.starts /\ old.focusing
  BY <1>0 DEF Inv, Each, OnAutoFocus
<1>2. Cardinality(old.alive) \in Nat
  BY <1>1, FS_CardinalityType DEF Sound
<1>3. /\ called \in Manager /\ called.alive = old.alive
      /\ called.outstanding = old.outstanding /\ ~called.focusing
      /\ SameButStop(old, called) /\ called.stopped = old.stopped /\ called.late = old.late
      /\ called.rejected = old.rejected
  BY <1>0 DEF Manager, SameButStop
<1>4. UseAutoFocus /\ Sound(called) /\ Attempts(called) + 1 = Attempts(old)
  BY <1>1, <1>2, <1>3 DEF Sound, Attempts
<1>5. PICK r \in AutoFocusAgainLater(called) : managers' = [managers EXCEPT ![m] = r]
  BY DEF OnAutoFocus
<1>6. /\ Sound(r) /\ SameButStop(called, r) /\ r.stopped = called.stopped
      /\ r.late = called.late
      /\ ~r.stopped /\ ~r.rejected => r.alive # {}
      /\ Attempts(r) <= Attempts(called) + 1
  BY <1>4, AgainLaterFacts
<1>7. SameButStop(old, r) /\ r.stopped = old.stopped /\ r.late = old.late /\ GoesOn(r)
  BY <1>3, <1>6 DEF SameButStop, GoesOn
<1>8. Attempts(r) <= r.starts
  <2>1. Attempts(r) \in Nat /\ Attempts(old) \in Nat /\ Attempts(called) \in Nat
    BY <1>1, <1>4, <1>6, AttemptsType DEF Sound
  <2>2. old.starts \in Nat /\ r.starts = old.starts
    BY <1>1, <1>7, AttemptsType DEF SameButStop, Sound
  <2> QED BY <1>1, <1>4, <1>6, <2>1, <2>2
<1>9. UNCHANGED <<page, current>>
  BY DEF OnAutoFocus
<1> QED BY <1>0, <1>5, <1>6, <1>7, <1>8, <1>9, OwnStep

LEMMA DoInBackgroundStep ==
  ASSUME Inv, NEW m \in DOMAIN managers, NEW t \in Task, DoInBackground(m, t)
  PROVE  Inv'
<1> DEFINE old == managers[m]
           ended == [old EXCEPT !.alive = @ \ {t}]
<1>0. m \in 1 .. Len(managers) /\ old \in Manager /\ t \in old.alive
  BY LenProperties, ElementOfSeq DEF Inv, Typed, DoInBackground
<1>1. Sound(old) /\ Attempts(old) <= old.starts /\ UseAutoFocus
  BY <1>0 DEF Inv, Each, Sound
<1>2. /\ ended \in Manager /\ ended.alive = old.alive \ {t} /\ ended.focusing = old.focusing
      /\ SameButStop(old, ended) /\ ended.stopped = old.stopped /\ ended.late = old.late
  BY <1>0 DEF Manager, SameButStop
<1>3. /\ IsFiniteSet(ended.alive) /\ Cardinality(ended.alive) = Cardinality(old.alive) - 1
      /\ Cardinality(old.alive) \in Nat
  BY <1>0, <1>1, <1>2, FS_RemoveElement, FS_CardinalityType DEF Sound
<1>4. Attempts(ended) + 1 = Attempts(old)
  BY <1>2, <1>3 DEF Attempts
<1>5. PICK r \in Start(ended, camera) : managers' = [managers EXCEPT ![m] = r]
  BY DEF DoInBackground
<1>6. /\ Sound(r) /\ SameButStop(ended, r) /\ r.stopped = ended.stopped
      /\ r.late => ended.late \/ (~ended.stopped /\ ended.camera # camera)
      /\ GoesOn(r) /\ Attempts(r) <= Attempts(ended) + 1
  <2>1. r \in Start(ended, camera)
    BY <1>5
  <2> HIDE DEF ended
  <2> QED BY <1>1, <1>2, <1>3, <2>1, StartFacts
<1>7. /\ SameButStop(old, r) /\ r.stopped = old.stopped
      /\ r.late => old.late \/ (~old.stopped /\ old.camera # camera)
  BY <1>2, <1>6 DEF SameButStop
<1>8. Attempts(r) <= r.starts
  <2>1. Attempts(r) \in Nat /\ Attempts(old) \in Nat /\ Attempts(ended) \in Nat
    BY <1>1, <1>2, <1>3, <1>6, AttemptsType DEF Sound
  <2>2. old.starts \in Nat /\ r.starts = old.starts
    BY <1>1, <1>7, AttemptsType DEF SameButStop, Sound
  <2> QED BY <1>1, <1>4, <1>6, <2>1, <2>2
<1>9. UNCHANGED <<page, current>>
  BY DEF DoInBackground
<1> QED BY <1>0, <1>5, <1>6, <1>7, <1>8, <1>9, OwnStep

-----------------------------------------------------------------------------
\* stop changes nothing a count looks at.
LEMMA StopFacts ==
  ASSUME NEW r, Sound(r)
  PROVE  /\ Sound(Stop(r)) /\ SameButStop(r, Stop(r)) /\ Stop(r).stopped
         /\ Stop(r).late = r.late /\ Attempts(Stop(r)) = Attempts(r) /\ GoesOn(Stop(r))
BY DEF Stop, Sound, SameButStop, Attempts, GoesOn, Manager

\* The current manager is stopped: by the user, or because the page is left.
LEMMA StopStep ==
  ASSUME Inv, current # 0, managers' = [managers EXCEPT ![current] = Stop(@)]
  PROVE  /\ managers' \in Seq(Manager) /\ Len(managers') = Len(managers) /\ Each'
         /\ \A n \in 1 .. Len(managers) :
              /\ SameButStop(managers[n], managers'[n])
              /\ managers'[n].late = managers[n].late
              /\ ~managers'[n].stopped => n # current /\ ~managers[n].stopped
<1> DEFINE r == Stop(managers[current])
<1>1. current \in 1 .. Len(managers) /\ Sound(managers[current])
      /\ Attempts(managers[current]) <= managers[current].starts
  BY LenProperties DEF Inv, Typed, Each
<1>2. /\ Sound(r) /\ SameButStop(managers[current], r) /\ r.stopped
      /\ r.late = managers[current].late /\ Attempts(r) = Attempts(managers[current])
      /\ GoesOn(r)
  BY <1>1, StopFacts
<1>3. r \in Manager
  BY <1>2 DEF Sound
<1>4. /\ managers' \in Seq(Manager) /\ Len(managers') = Len(managers)
      /\ \A n \in 1 .. Len(managers) :
           managers'[n] = IF n = current THEN r ELSE managers[n]
  <2> HIDE DEF r
  <2>1. managers' = [managers EXCEPT ![current] = r]
    BY DEF r
  <2> QED BY <1>1, <1>3, <2>1, Changed DEF Inv, Typed
<1>5. Each'
  <2> HIDE DEF r
  <2> QED BY <1>1, <1>2, <1>4 DEF Inv, Each, SameButStop
<1>6. ASSUME NEW n \in 1 .. Len(managers)
      PROVE  /\ SameButStop(managers[n], managers'[n])
             /\ managers'[n].late = managers[n].late
             /\ ~managers'[n].stopped => n # current /\ ~managers[n].stopped
  <2> HIDE DEF r
  <2> QED BY <1>2, <1>4 DEF SameButStop
<1> QED BY <1>4, <1>5, <1>6

LEMMA LockFocusStep ==
  ASSUME Inv, SwitchAutoFocus, LockFocus
  PROVE  Inv'
<1>1. /\ current # 0 /\ managers' = [managers EXCEPT ![current] = Stop(@)] /\ current' = 0
      /\ isautofocus' = ~isautofocus
      /\ UNCHANGED <<visits, camera, handler, completed>>
  BY DEF SwitchAutoFocus, LockFocus
<1>2. /\ managers' \in Seq(Manager) /\ Len(managers') = Len(managers) /\ Each'
      /\ \A n \in 1 .. Len(managers) :
           /\ SameButStop(managers[n], managers'[n])
           /\ managers'[n].late = managers[n].late
           /\ ~managers'[n].stopped => n # current /\ ~managers[n].stopped
  BY <1>1, StopStep
<1>3. Typed'
  BY <1>1, <1>2, LenProperties DEF Inv, Typed
<1>4. Owned'
  BY <1>1, <1>2 DEF Inv, Owned, SameButStop
<1>5. Left'
  BY <1>1, <1>2 DEF Inv, Left, SameButStop
<1> QED BY <1>2, <1>3, <1>4, <1>5 DEF Inv

LEMMA BuiltTwiceFacts ==
  ASSUME NEW c \in Nat, NEW first \in Start(NewManager(c, 2), c), NEW s \in Start(first, c)
  PROVE  /\ Sound(s) /\ GoesOn(s) /\ Attempts(s) <= 2
         /\ s.camera = c /\ s.starts = 2 /\ ~s.stopped /\ ~s.late
<1>1. /\ Sound(first) /\ GoesOn(first) /\ Attempts(first) <= 1
      /\ first.camera = c /\ first.starts = 2 /\ ~first.stopped /\ ~first.late
  BY BuiltFacts
<1>2. first \in Manager /\ IsFiniteSet(first.alive) /\ Attempts(first) \in Nat
  BY <1>1, AttemptsType DEF Sound
<1>3. CASE ~UseAutoFocus
  <2>1. s = first
    BY <1>3 DEF Start
  <2> QED BY <1>1, <1>2, <2>1
<1>4. CASE UseAutoFocus
  <2>1. /\ Sound(s) /\ SameButStop(first, s) /\ s.stopped = first.stopped
        /\ s.late => first.late \/ (~first.stopped /\ first.camera # c)
        /\ GoesOn(s) /\ Attempts(s) <= Attempts(first) + 1
    BY <1>2, <1>4, StartFacts
  <2>2. Attempts(s) \in Nat
    BY <2>1, AttemptsType DEF Sound
  <2> QED BY <1>1, <1>2, <2>1, <2>2 DEF SameButStop
<1> QED BY <1>3, <1>4

\* A manager is built for the open camera, which no running manager has.
LEMMA BuiltStep ==
  ASSUME Inv, NEW r, Sound(r), GoesOn(r), Attempts(r) <= r.starts, ~r.late,
         r.camera = camera', managers' = Append(managers, r), current' = Len(managers) + 1,
         visits' \in Nat, visits <= visits', camera' = visits', camera' # 0,
         camera' = camera \/ camera = 0,
         \A n \in 1 .. Len(managers) : managers[n].camera = camera' => managers[n].stopped,
         handler' \in BOOLEAN, isautofocus' \in BOOLEAN, completed' = completed,
         ~handler' => camera' \in completed
  PROVE  Inv'
<1>1. r \in Manager
  BY DEF Sound
<1>2. /\ managers' \in Seq(Manager) /\ Len(managers') = Len(managers) + 1
      /\ Len(managers) \in Nat
      /\ \A n \in 1 .. Len(managers) : managers'[n] = managers[n]
      /\ managers'[Len(managers) + 1] = r
  BY <1>1, Added DEF Inv, Typed
<1>3. \A n \in 1 .. Len(managers') : n \in 1 .. Len(managers) \/ n = Len(managers) + 1
  BY <1>2
<1>4. Typed'
  BY <1>2 DEF Inv, Typed
<1>5. Each'
  BY <1>2, <1>3 DEF Inv, Each
<1>6. Owned'
  <2>1. \A n \in 1 .. Len(managers') : managers'[n].camera \in 1 .. visits'
    BY <1>2, <1>3 DEF Inv, Typed, Owned
  <2>2. current' # 0 => camera' # 0 /\ managers'[current'].camera = camera'
    BY <1>2
  <2>3. \A n \in 1 .. Len(managers') :
          ~managers'[n].stopped /\ managers'[n].camera = camera' => n = current'
    BY <1>2, <1>3
  <2>4. \A m, n \in 1 .. Len(managers') :
          /\ managers'[m].camera = managers'[n].camera
          /\ ~managers'[m].stopped /\ ~managers'[n].stopped
          => m = n
    BY <1>2, <1>3 DEF Inv, Owned
  <2> QED BY <2>1, <2>2, <2>3, <2>4 DEF Owned
<1>7. Left'
  <2>1. \A n \in 1 .. Len(managers) :
          ~managers[n].stopped /\ managers[n].camera # camera'
          => managers[n].camera \in completed
    BY DEF Inv, Typed, Owned, Left
  <2> QED BY <1>2, <1>3, <2>1 DEF Inv, Left
<1> QED BY <1>4, <1>5, <1>6, <1>7 DEF Inv

LEMMA UnlockFocusStep ==
  ASSUME Inv, SwitchAutoFocus, UnlockFocus
  PROVE  Inv'
<1>1. /\ camera # 0 /\ current = 0 /\ current' = Len(managers) + 1
      /\ isautofocus' = ~isautofocus
      /\ UNCHANGED <<visits, camera, handler, completed>>
  BY DEF SwitchAutoFocus, UnlockFocus
<1>2. /\ visits \in Nat /\ camera = visits /\ handler \in BOOLEAN
      /\ ~handler => camera \in completed
      /\ \A n \in 1 .. Len(managers) : managers[n].camera = camera => managers[n].stopped
  BY <1>1 DEF Inv, Typed, Owned, Left
<1>3. PICK first \in Start(NewManager(camera, 2), camera) :
        \E r \in Start(first, camera) : managers' = Append(managers, r)
  BY DEF UnlockFocus
<1>4. PICK r \in Start(first, camera) : managers' = Append(managers, r)
  BY <1>3
<1>5. /\ Sound(r) /\ GoesOn(r) /\ Attempts(r) <= 2
      /\ r.camera = camera /\ r.starts = 2 /\ ~r.stopped /\ ~r.late
  BY <1>2, BuiltTwiceFacts
<1> QED BY <1>1, <1>2, <1>4, <1>5, BuiltStep

LEMMA OpenPageStep ==
  ASSUME Inv, OpenPage
  PROVE  Inv'
<1>1. /\ camera = 0 /\ visits' = visits + 1 /\ camera' = visits + 1 /\ handler' = TRUE
      /\ current' = Len(managers) + 1 /\ isautofocus' \in {isautofocus, TRUE}
      /\ completed' = completed
  BY DEF OpenPage
<1>2. /\ visits \in Nat /\ isautofocus' \in BOOLEAN
      /\ \A n \in 1 .. Len(managers) : managers[n].camera = camera' => managers[n].stopped
  <2>1. visits \in Nat /\ isautofocus \in BOOLEAN
    BY DEF Inv, Typed
  <2>2. isautofocus' \in BOOLEAN
    BY <1>1, <2>1
  <2>3. \A n \in 1 .. Len(managers) : managers[n].camera # camera'
    BY <1>1, <2>1 DEF Inv, Owned
  <2> QED BY <2>1, <2>2, <2>3
<1>3. PICK r \in Start(NewManager(visits + 1, 1), visits + 1) : managers' = Append(managers, r)
  BY DEF OpenPage
<1>4. /\ Sound(r) /\ GoesOn(r) /\ Attempts(r) <= 1
      /\ r.camera = visits + 1 /\ r.starts = 1 /\ ~r.stopped /\ ~r.late
  <2>1. visits + 1 \in Nat /\ 1 \in {1, 2}
    BY <1>2
  <2> QED BY <2>1, BuiltFacts
<1> QED BY <1>1, <1>2, <1>3, <1>4, BuiltStep

LEMMA OnPauseStep ==
  ASSUME Inv, OnPause
  PROVE  Inv'
<1>1. /\ camera # 0 /\ camera' = 0 /\ handler' = FALSE /\ current' = 0
      /\ UNCHANGED <<visits, completed, isautofocus>>
  BY DEF OnPause
<1>0. /\ visits' \in Nat /\ camera' \in {0, visits'} /\ completed' \subseteq 1 .. visits'
      /\ Len(managers) \in Nat /\ managers \in Seq(Manager)
  BY <1>1, LenProperties DEF Inv, Typed
<1>00. handler' \in BOOLEAN /\ isautofocus' \in BOOLEAN
  BY <1>1 DEF Inv, Typed
<1>2. CASE handler /\ current # 0
  <2>1. managers' = [managers EXCEPT ![current] = Stop(@)]
    BY <1>2 DEF OnPause
  <2>2. /\ managers' \in Seq(Manager) /\ Len(managers') = Len(managers) /\ Each'
        /\ \A n \in 1 .. Len(managers) :
             /\ SameButStop(managers[n], managers'[n])
             /\ managers'[n].late = managers[n].late
             /\ ~managers'[n].stopped => n # current /\ ~managers[n].stopped
    BY <1>2, <2>1, StopStep
  <2>3. Typed'
    <3>1. current' \in 0 .. Len(managers')
      BY <1>0, <1>1, <2>2
    <3> QED BY <1>0, <1>00, <2>2, <3>1 DEF Typed
  <2>4. Owned'
    BY <1>1, <2>2 DEF Inv, Typed, Owned, SameButStop
  <2>5. Left'
    BY <1>1, <2>2 DEF Inv, Owned, Left, SameButStop
  <2> QED BY <2>2, <2>3, <2>4, <2>5 DEF Inv
<1>3. CASE ~(handler /\ current # 0)
  <2>1. managers' = managers
    BY <1>3 DEF OnPause
  <2>2. Typed'
    <3>1. current' \in 0 .. Len(managers')
      BY <1>0, <1>1, <2>1
    <3> QED BY <1>0, <1>00, <2>1, <3>1 DEF Typed
  <2>3. Each'
    BY <2>1 DEF Inv, Each
  <2>4. Owned'
    BY <1>1, <2>1 DEF Inv, Typed, Owned
  <2>5. Left'
    BY <1>1, <1>3, <2>1 DEF Inv, Owned, Left
  <2> QED BY <2>2, <2>3, <2>4, <2>5 DEF Inv
<1> QED BY <1>2, <1>3

LEMMA TransmissionCompleteStep ==
  ASSUME Inv, TransmissionComplete
  PROVE  Inv'
<1>1. /\ camera # 0 /\ handler' = FALSE /\ completed' = completed \cup {camera}
      /\ UNCHANGED <<visits, camera, isautofocus, managers, current>>
  BY DEF TransmissionComplete
<1>2. Typed'
  <2>1. completed' \subseteq 1 .. visits'
    BY <1>1 DEF Inv, Typed
  <2>2. handler' \in BOOLEAN /\ isautofocus' \in BOOLEAN
    BY <1>1 DEF Inv, Typed
  <2>3. /\ visits' \in Nat /\ camera' \in {0, visits'}
        /\ managers' \in Seq(Manager) /\ current' \in 0 .. Len(managers')
    BY <1>1 DEF Inv, Typed
  <2> QED BY <2>1, <2>2, <2>3 DEF Typed
<1>3. Each'
  BY <1>1 DEF Inv, Each
<1>4. Owned'
  BY <1>1 DEF Inv, Owned
<1>5. Left'
  BY <1>1 DEF Inv, Left
<1> QED BY <1>2, <1>3, <1>4, <1>5 DEF Inv

LEMMA InvNext == Inv /\ [Next]_vars => Inv'
<1> SUFFICES ASSUME Inv, [Next]_vars PROVE Inv'
  OBVIOUS
<1>1. CASE SwitchAutoFocus
  BY <1>1, LockFocusStep, UnlockFocusStep DEF SwitchAutoFocus
<1>2. CASE UNCHANGED vars
  BY <1>2 DEF vars, Inv, Typed, Each, Owned, Left
<1> QED BY <1>1, <1>2, OpenPageStep, TransmissionCompleteStep, OnPauseStep, OnAutoFocusStep,
           DoInBackgroundStep DEF Next

-----------------------------------------------------------------------------
\* The page, its managers and their tasks keep their types, for every set of tasks.
THEOREM TypeCorrect == Spec => []TypeOK
<1>1. Inv => TypeOK
  BY LenProperties DEF Inv, Typed, Each, Sound, TypeOK
<1> QED BY InvInit, InvNext, <1>1, PTL DEF Spec

\* However many managers are built and however their tasks interleave, none has more
\* attempts under way than calls of start from outside.
THEOREM AttemptsDoNotMultiplyHolds == Spec => []AttemptsDoNotMultiply
<1>1. Inv => AttemptsDoNotMultiply
  BY LenProperties DEF Inv, Typed, Each, Attempts, AttemptsDoNotMultiply
<1> QED BY InvInit, InvNext, <1>1, PTL DEF Spec

\* "Try again later to keep cycle going": a manager nobody stopped, whose tasks were all
\* taken, is focusing or has a task that will ask again.
THEOREM CycleGoesOnHolds == Spec => []CycleGoesOn
<1>1. Inv => CycleGoesOn
  BY LenProperties DEF Inv, Typed, Each, GoesOn, CycleGoesOn
<1> QED BY InvInit, InvNext, <1>1, PTL DEF Spec

\* Locking, unlocking, leaving and coming back never set two running managers on a camera.
THEOREM OneManagerPerCameraHolds == Spec => []OneManagerPerCamera
<1>1. Inv => OneManagerPerCamera
  BY LenProperties DEF Inv, Typed, Owned, OneManagerPerCamera
<1> QED BY InvInit, InvNext, <1>1, PTL DEF Spec

\* A released camera is only asked again on behalf of a page that received its file.
THEOREM ReleasedCameraIsLeftAloneHolds == Spec => []ReleasedCameraIsLeftAlone
<1>1. Inv => ReleasedCameraIsLeftAlone
  BY LenProperties DEF Inv, Typed, Left, ReleasedCameraIsLeftAlone
<1> QED BY InvInit, InvNext, <1>1, PTL DEF Spec
=============================================================================
