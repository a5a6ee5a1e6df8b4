------------------------------ MODULE KeyProofs ------------------------------
(***************************************************************************)
(* Theorems about Key, for every wrap of the time, every limit within it   *)
(* and every delay of main_func.  The argument: until a press has lasted   *)
(* for a whole wrap, the difference of two times is the time between them; *)
(* a press that lasted longer is long whatever the difference says.        *)
(***************************************************************************)
EXTENDS Key, TLAPS

\* A time and what has passed since, up to a whole wrap.
Timed(t, elapsed) == elapsed < Wrap => Since(t) = elapsed

KeyInv ==
  /\ Timed(key_press_time, held) /\ Timed(key_release_time, up)
  /\ ~rearmed => key_long_press
SessionInv == SessionAgrees /\ (running /\ linked => station)

\* Differences of times in terms of the times.
LEMMA SinceValue ==
  ASSUME KeyAssumption, now \in 0 .. Wrap - 1, NEW t \in 0 .. Wrap - 1
  PROVE  /\ now >= t => Since(t) = now - t
         /\ now < t  => Since(t) = now - t + Wrap
<1>1. Wrap \in Nat \ {0}
  BY DEF KeyAssumption
<1>2. CASE now >= t
  <2>1. now - t \in 0 .. Wrap - 1
    BY <1>1, <1>2
  <2> QED  BY <1>1, <1>2, <2>1 DEF Since
<1>3. CASE now < t
  <2>1. now - t \in Int /\ now - t < 0 /\ now - t >= -Wrap
    BY <1>1, <1>3
  <2>2. (now - t) % Wrap = now - t + Wrap
    BY <1>1, <2>1
  <2> QED  BY <1>1, <1>3, <2>2 DEF Since
<1> QED  BY <1>1, <1>2, <1>3

LEMMA LaterValue ==
  ASSUME KeyAssumption, now \in 0 .. Wrap - 1
  PROVE  Later = (IF now + 1 = Wrap THEN 0 ELSE now + 1) /\ Later \in 0 .. Wrap - 1
<1>1. Wrap \in Nat \ {0}
  BY DEF KeyAssumption
<1>2. CASE now + 1 = Wrap
  BY <1>1, <1>2 DEF Later
<1>3. CASE now + 1 # Wrap
  <2>1. now + 1 \in 0 .. Wrap - 1
    BY <1>1, <1>3
  <2> QED  BY <1>1, <1>3, <2>1 DEF Later
<1> QED  BY <1>2, <1>3

-----------------------------------------------------------------------------
\* All variables keep their types, and times stay below their wrap.
THEOREM TypeCorrect == Spec => []TypeOK
<1>1. Init => TypeOK
  <2> SUFFICES ASSUME Init PROVE TypeOK
    OBVIOUS
  <2>1. /\ {now, key_press_time, key_release_time, smartconfig_start_time} \subseteq 0 .. Wrap - 1
        /\ unpolled \in 0 .. Gap /\ held \in 0 .. Wrap /\ up \in 0 .. Wrap
    BY KeyAssumption DEF Init, KeyAssumption
  <2>2. pressed \in BOOLEAN /\ is_super_key \in BOOLEAN
    BY Zenon DEF Init
  <2>3. {key_long_press, is_in_smartconfig, smartconfig_done, running, linked, station,
         rearmed} \subseteq BOOLEAN
    BY DEF Init
  <2> QED  BY <2>1, <2>2, <2>3 DEF TypeOK
<1>2. TypeOK /\ [Next]_vars => TypeOK'
  <2> SUFFICES ASSUME TypeOK, [Next]_vars PROVE TypeOK'
    OBVIOUS
  <2> USE DEF TypeOK
  <2>0. Wrap \in Nat \ {0} /\ Gap \in Nat
    BY KeyAssumption DEF KeyAssumption
  <2>1. CASE Tick
    <3>1. now' \in 0 .. Wrap - 1
      BY <2>1, KeyAssumption, LaterValue DEF Tick
    <3>2. held' \in 0 .. Wrap /\ up' \in 0 .. Wrap /\ unpolled' \in 0 .. Gap
      BY <2>0, <2>1 DEF Tick, Saturated
    <3> QED  BY <2>1, <3>1, <3>2 DEF Tick, sessionVars
  <2>2. CASE Press \/ Release
    BY <2>2 DEF Press, Release, timeVars, keyVars, sessionVars
  <2>3. CASE Poll
    <3>1. {now, key_press_time, key_release_time}' \subseteq 0 .. Wrap - 1
      BY <2>3 DEF Poll, KeyUpdate, PressTime, ReleaseTime
    <3>2. unpolled' \in 0 .. Gap /\ held' \in 0 .. Wrap /\ up' \in 0 .. Wrap
      BY <2>0, <2>3 DEF Poll
    <3>3. key_long_press' \in BOOLEAN /\ rearmed' \in BOOLEAN
      BY <2>3 DEF Poll, KeyUpdate
    <3>4. /\ smartconfig_start_time' \in 0 .. Wrap - 1
          /\ {is_in_smartconfig, smartconfig_done, running, linked, station}'
               \subseteq BOOLEAN
      BY <2>3 DEF Poll, BeginSession, EndSession, sessionVars
    <3> QED  BY <2>3, <3>1, <3>2, <3>3, <3>4 DEF Poll
  <2>4. CASE Link \/ LinkOver \/ Exit \/ ServerConnected
    BY <2>4 DEF Link, LinkOver, Exit, ServerConnected, timeVars, keyVars
  <2>5. CASE UNCHANGED vars
    BY <2>5 DEF vars, timeVars, keyVars, sessionVars
  <2> QED  BY <2>1, <2>2, <2>3, <2>4, <2>5 DEF Next
<1> QED  BY <1>1, <1>2, PTL DEF Spec

-----------------------------------------------------------------------------
\* The flag agrees with the SDK's session and the station is connected again
\* without one, whichever of the key, the phone, the MCU and time ended it.
THEOREM SessionCorrect == Spec => []SessionAgrees
<1>1. Init => SessionInv
  BY DEF Init, SessionInv, SessionAgrees
<1>2. TypeOK /\ SessionInv /\ [Next]_vars => SessionInv'
  <2> SUFFICES ASSUME TypeOK, SessionInv, [Next]_vars PROVE SessionInv'
    OBVIOUS
  <2> USE DEF SessionInv, SessionAgrees
  <2>1. CASE Tick \/ Press \/ Release \/ UNCHANGED vars
    BY <2>1 DEF Tick, Press, Release, vars, sessionVars
  <2>2. CASE Poll
    <3>1. is_in_smartconfig \in BOOLEAN /\ running \in BOOLEAN
      BY DEF TypeOK
    <3>2. BeginSession \/ EndSession \/ UNCHANGED sessionVars
      BY <2>2 DEF Poll
    <3>3. CASE ~running /\ BeginSession
      BY <3>3 DEF BeginSession
    <3>4. CASE running /\ BeginSession
      BY <3>4 DEF BeginSession
    <3>5. CASE EndSession
      BY <3>5 DEF EndSession, sessionVars
    <3>6. CASE UNCHANGED sessionVars
      BY <3>6 DEF sessionVars
    <3> QED  BY <3>1, <3>2, <3>3, <3>4, <3>5, <3>6
  <2>3. CASE Link \/ LinkOver \/ Exit \/ ServerConnected
    BY <2>3 DEF Link, LinkOver, Exit, ServerConnected
  <2> QED  BY <2>1, <2>2, <2>3 DEF Next
<1>3. SessionInv => SessionAgrees
  BY DEF SessionInv
<1> QED  BY <1>1, <1>2, <1>3, TypeCorrect, PTL DEF Spec

-----------------------------------------------------------------------------
\* Time passing keeps a time and what has passed since in step.
LEMMA TickKeepsTimed ==
  ASSUME KeyAssumption, TypeOK, Tick, NEW t \in 0 .. Wrap - 1, NEW e \in 0 .. Wrap,
         Timed(t, e)
  PROVE  Saturated(e) < Wrap => (now' - t) % Wrap = Saturated(e)
<1> SUFFICES ASSUME Saturated(e) < Wrap PROVE (now' - t) % Wrap = Saturated(e)
  OBVIOUS
<1>1. /\ Wrap \in Nat \ {0} /\ now \in 0 .. Wrap - 1
      /\ now' = IF now + 1 = Wrap THEN 0 ELSE now + 1
  BY KeyAssumption, LaterValue DEF KeyAssumption, TypeOK, Tick
<1>2. e < Wrap /\ Saturated(e) = e + 1 /\ e + 1 < Wrap
  BY <1>1 DEF Saturated
<1>3. Since(t) = e
  BY <1>2 DEF Timed
<1>4. now >= t => e = now - t
  BY <1>1, <1>3, KeyAssumption, SinceValue
<1>5. now < t => e = now - t + Wrap
  BY <1>1, <1>3, KeyAssumption, SinceValue
<1>6. CASE now' >= t
  <2>1. now' - t \in 0 .. Wrap - 1 /\ now' - t = e + 1
    BY <1>1, <1>2, <1>4, <1>5, <1>6
  <2>2. (now' - t) % Wrap = now' - t
    BY <1>1, <2>1
  <2> QED  BY <1>2, <2>1, <2>2
<1>7. CASE now' < t
  <2>1. /\ now' - t \in Int /\ now' - t < 0 /\ now' - t >= -Wrap
        /\ now' - t + Wrap = e + 1
    BY <1>1, <1>2, <1>4, <1>5, <1>7
  <2>2. (now' - t) % Wrap = now' - t + Wrap
    BY <1>1, <2>1
  <2> QED  BY <1>2, <2>1, <2>2
<1>8. now' \in Int /\ t \in Int
  BY <1>1
<1> QED  BY <1>6, <1>7, <1>8

\* What a poll finds of a press and of a release.
LEMMA PollFinds ==
  ASSUME KeyAssumption, TypeOK, KeyInv
  PROVE  /\ Since(PressTime) > KEY_LONG_PRESS => pressed /\ held > KEY_LONG_PRESS
         /\ IsUp(ReleaseTime) => ~pressed /\ up > KEY_ACTION_TIME
<1>1. /\ Wrap \in Nat \ {0} /\ Gap \in Nat /\ now \in 0 .. Wrap - 1
      /\ KEY_LONG_PRESS \in Nat /\ KEY_ACTION_TIME \in Nat
      /\ KEY_LONG_PRESS < Wrap /\ KEY_ACTION_TIME < Wrap
  BY DEF KeyAssumption, TypeOK
<1>2. Since(now) = 0
  BY <1>1, KeyAssumption, SinceValue
<1>3. held \in 0 .. Wrap /\ up \in 0 .. Wrap
  BY DEF TypeOK
<1>4. Since(PressTime) > KEY_LONG_PRESS => pressed /\ held > KEY_LONG_PRESS
  BY <1>1, <1>2, <1>3 DEF PressTime, KeyInv, Timed
<1>5. IsUp(ReleaseTime) => ~pressed /\ up > KEY_ACTION_TIME
  BY <1>1, <1>2, <1>3 DEF ReleaseTime, IsUp, KeyInv, Timed
<1> QED  BY <1>4, <1>5

LEMMA KeyInvariant == Spec => []KeyInv
<1>1. Init => KeyInv
  <2> SUFFICES ASSUME Init PROVE KeyInv
    OBVIOUS
  <2>1. Wrap \in Nat \ {0} /\ now = 0
    BY KeyAssumption DEF KeyAssumption, Init
  <2>2. Since(0) = 0
    BY <2>1, KeyAssumption, SinceValue
  <2> QED  BY <2>2 DEF Init, KeyInv, Timed
<1>2. TypeOK /\ KeyInv /\ [Next]_vars => KeyInv'
  <2> SUFFICES ASSUME TypeOK, KeyInv, [Next]_vars PROVE KeyInv'
    OBVIOUS
  <2>0. Wrap \in Nat \ {0} /\ now \in 0 .. Wrap - 1
    BY KeyAssumption DEF KeyAssumption, TypeOK
  <2>1. CASE Tick
    <3>1. /\ key_press_time \in 0 .. Wrap - 1 /\ key_release_time \in 0 .. Wrap - 1
          /\ held \in 0 .. Wrap /\ up \in 0 .. Wrap
      BY DEF TypeOK
    <3>2. Saturated(held) < Wrap => (now' - key_press_time) % Wrap = Saturated(held)
      BY <2>1, <3>1, KeyAssumption, TickKeepsTimed DEF KeyInv
    <3>3. Saturated(up) < Wrap => (now' - key_release_time) % Wrap = Saturated(up)
      BY <2>1, <3>1, KeyAssumption, TickKeepsTimed DEF KeyInv
    <3> QED  BY <2>1, <3>2, <3>3 DEF Tick, KeyInv, Timed, Since
  <2>2. CASE Poll
    <3>1. now' = now /\ Since(now) = 0
      BY <2>0, <2>2, KeyAssumption, SinceValue DEF Poll
    <3>2. Timed(key_press_time, held)'
      BY <2>2, <3>1 DEF Poll, KeyUpdate, PressTime, KeyInv, Timed, Since
    <3>3. Timed(key_release_time, up)'
      BY <2>2, <3>1 DEF Poll, KeyUpdate, ReleaseTime, KeyInv, Timed, Since
    <3>4. ~rearmed' => key_long_press'
      <4> SUFFICES ASSUME ~rearmed', ~key_long_press' PROVE FALSE
        OBVIOUS
      <4>1. ~Acts /\ ~rearmed /\ key_long_press
        BY <2>2 DEF Poll, Acts, KeyInv
      <4>2. IsUp(ReleaseTime)
        BY <2>2, <4>1 DEF Poll, KeyUpdate
      <4>3. ~pressed /\ up > KEY_ACTION_TIME
        BY <4>2, KeyAssumption, PollFinds
      <4> QED  BY <2>2, <4>1, <4>3 DEF Poll
    <3> QED  BY <3>2, <3>3, <3>4 DEF KeyInv
  <2>3. CASE Press \/ Release \/ Link \/ LinkOver \/ Exit \/ ServerConnected
    BY <2>3 DEF Press, Release, Link, LinkOver, Exit, ServerConnected, timeVars, keyVars,
                KeyInv, Timed, Since
  <2>4. CASE UNCHANGED vars
    BY <2>4 DEF vars, timeVars, keyVars, KeyInv, Timed, Since
  <2> QED  BY <2>1, <2>2, <2>3, <2>4 DEF Next
<1> QED  BY <1>1, <1>2, TypeCorrect, PTL DEF Spec

\* No press is taken for long before it was, however the time wraps.
THEOREM LongPressCorrect == Spec => LongPressIsLong
<1>1. TypeOK /\ KeyInv /\ [Next]_vars =>
        [key_long_press' /\ ~key_long_press => held > KEY_LONG_PRESS]_vars
  <2> SUFFICES ASSUME TypeOK, KeyInv, Next, key_long_press', ~key_long_press
               PROVE  held > KEY_LONG_PRESS
    OBVIOUS
  <2>1. Poll
    BY DEF Next, Tick, Press, Release, Link, LinkOver, Exit, ServerConnected, keyVars
  <2>2. Since(PressTime) > KEY_LONG_PRESS
    BY <2>1 DEF Poll, KeyUpdate
  <2> QED  BY <2>2, KeyAssumption, PollFinds
<1> QED  BY <1>1, TypeCorrect, KeyInvariant, PTL DEF Spec, LongPressIsLong

\* A press acts once, until the key was up for KEY_ACTION_TIME.
THEOREM OneActionCorrect == Spec => OneActionPerPress
<1>1. TypeOK /\ KeyInv /\ [Next]_vars =>
        [key_long_press' /\ ~key_long_press /\ ~is_super_key => rearmed]_vars
  BY DEF KeyInv
<1> QED  BY <1>1, TypeCorrect, KeyInvariant, PTL DEF Spec, OneActionPerPress
=============================================================================
