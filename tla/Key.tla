--------------------------------- MODULE Key ---------------------------------
(***************************************************************************)
(* The key (user/key.c) and the smartconfig session it starts and ends     *)
(* (user/user_main.c, user/smartconfig_api.c).  main_func polls the key    *)
(* and the session's age; the SDK, the MCU and time can end a session too. *)
(*                                                                         *)
(* system_get_time wraps (71 minutes in the device), and a run of          *)
(* main_func that writes flash delays the next one: up to Gap.  Times are  *)
(* in units of the coarsest grain that tells the limits apart.             *)
(***************************************************************************)
EXTENDS Integers

CONSTANTS
  Wrap,                    \* system_get_time: 2^32 microseconds
  KEY_ACTION_TIME, KEY_LONG_PRESS, SMARTCONFIG_TIMEOUT,
  Gap                      \* at most so long between two runs of main_func

ASSUME KeyAssumption ==
  /\ {Wrap, KEY_ACTION_TIME, KEY_LONG_PRESS, SMARTCONFIG_TIMEOUT, Gap} \subseteq Nat \ {0}
  /\ KEY_ACTION_TIME < KEY_LONG_PRESS
  /\ KEY_LONG_PRESS + Gap < Wrap /\ SMARTCONFIG_TIMEOUT + Gap < Wrap

VARIABLES
  now, unpolled,           \* system_get_time; time since main_func ran
  pressed,                 \* the level of the key
  key_press_time, key_release_time, key_long_press, is_super_key,
  is_in_smartconfig, smartconfig_start_time, smartconfig_done,
  running, linked,         \* the SDK's session, whether it has the network's name
  station,                 \* the SDK connects the station, or has connected it
  held, up, rearmed        \* time since a poll found the key up, and down; it was
                           \* up long enough since a long press was acted upon

timeVars    == <<now, unpolled>>
keyVars     == <<key_press_time, key_release_time, key_long_press, is_super_key,
                 held, up, rearmed>>
sessionVars == <<is_in_smartconfig, smartconfig_start_time, smartconfig_done,
                 running, linked, station>>
vars == <<timeVars, pressed, keyVars, sessionVars>>

BugSince(t) == IF now >= t THEN now - t ELSE 0
Since(t) == (now - t) % Wrap

Later == (now + 1) % Wrap          \* 32 bits
Saturated(t) == IF t < Wrap THEN t + 1 ELSE t

\* user_init: a key held down then is super.
Init ==
  /\ now = 0 /\ unpolled = 0
  /\ pressed \in BOOLEAN /\ is_super_key = pressed
  /\ key_press_time = 0 /\ key_release_time = 0 /\ key_long_press = FALSE
  /\ is_in_smartconfig = FALSE /\ smartconfig_start_time = 0 /\ smartconfig_done = FALSE
  /\ running = FALSE /\ linked = FALSE /\ station = TRUE
  /\ held = 0 /\ up = 0 /\ rearmed = TRUE

Tick ==
  /\ unpolled < Gap
  /\ unpolled' = unpolled + 1
  /\ now' = Later
  /\ held' = Saturated(held) /\ up' = Saturated(up)
  /\ UNCHANGED <<pressed, key_press_time, key_release_time, key_long_press, is_super_key,
                 rearmed, sessionVars>>

Press   == ~pressed /\ pressed' = TRUE  /\ UNCHANGED <<timeVars, keyVars, sessionVars>>
Release == pressed  /\ pressed' = FALSE /\ UNCHANGED <<timeVars, keyVars, sessionVars>>

-----------------------------------------------------------------------------
(* The session.                                                            *)

\* smartconfig_end and what its callers do when the SDK had a session.
EndSession ==
  IF running
    THEN /\ is_in_smartconfig' = FALSE /\ running' = FALSE /\ station' = TRUE
         /\ UNCHANGED <<smartconfig_start_time, smartconfig_done, linked>>
    ELSE UNCHANGED sessionVars

\* The SDK drops the station's connection and listens; a second start fails.
BeginSession ==
  /\ smartconfig_done' = TRUE
  /\ IF running
       THEN UNCHANGED <<is_in_smartconfig, smartconfig_start_time, running, linked, station>>
       ELSE /\ is_in_smartconfig' = TRUE /\ running' = TRUE
            /\ smartconfig_start_time' = now
            /\ linked' = FALSE /\ station' = FALSE

\* SC_STATUS_LINK: the station connects to the network it was told.
Link ==
  /\ running /\ ~linked
  /\ linked' = TRUE /\ station' = TRUE
  /\ UNCHANGED <<timeVars, pressed, keyVars, is_in_smartconfig, smartconfig_start_time,
                 smartconfig_done, running>>

\* SC_STATUS_LINK_OVER: smartconfig_stop, then smartconfig_callback.
BugLinkOver ==
  /\ running /\ linked
  /\ running' = FALSE
  /\ UNCHANGED <<timeVars, pressed, keyVars, is_in_smartconfig, smartconfig_start_time,
                 smartconfig_done, linked, station>>
LinkOver ==
  /\ running /\ linked
  /\ running' = FALSE /\ is_in_smartconfig' = FALSE
  /\ UNCHANGED <<timeVars, pressed, keyVars, smartconfig_start_time, smartconfig_done,
                 linked, station>>

\* exit_smartconfig, when the MCU requests an upgrade.
Exit ==
  /\ running' = FALSE /\ is_in_smartconfig' = FALSE /\ station' = TRUE
  /\ UNCHANGED <<timeVars, pressed, keyVars, smartconfig_start_time, smartconfig_done, linked>>

\* server_connect_callback: the MCU is told the MAC address after a session.
ServerConnected ==
  /\ station /\ smartconfig_done
  /\ smartconfig_done' = FALSE
  /\ UNCHANGED <<timeVars, pressed, keyVars, is_in_smartconfig, smartconfig_start_time,
                 running, linked, station>>

-----------------------------------------------------------------------------
(* main_func: key_func and net_func.                                       *)

BugPressTime == key_press_time
PressTime   == IF pressed THEN key_press_time ELSE now
ReleaseTime == IF pressed THEN now ELSE key_release_time

BugIsUp(t) == Since(t) > 0
IsUp(t) == Since(t) > KEY_ACTION_TIME

\* key_update: a key that was up for a moment only is still down.
KeyUpdate ==
  /\ key_press_time' = PressTime /\ key_release_time' = ReleaseTime
  /\ key_long_press' = (Since(PressTime) > KEY_LONG_PRESS
                        \/ (key_long_press /\ ~IsUp(ReleaseTime)))

\* last_is_key_long_press is what the poll before found.
Acts == key_long_press' /\ ~key_long_press /\ ~is_super_key
Expired == is_in_smartconfig /\ Since(smartconfig_start_time) > SMARTCONFIG_TIMEOUT

Poll ==
  /\ unpolled' = 0
  /\ KeyUpdate
  /\ IF Acts /\ ~is_in_smartconfig THEN BeginSession
     ELSE IF Acts \/ Expired THEN EndSession
     ELSE UNCHANGED sessionVars
  /\ held' = IF pressed THEN held ELSE 0
  /\ up' = IF pressed THEN 0 ELSE up
  /\ rearmed' = (~Acts /\ (rearmed \/ up' > KEY_ACTION_TIME))
  /\ UNCHANGED <<now, pressed, is_super_key>>

Next == Tick \/ Press \/ Release \/ Poll \/ Link \/ LinkOver \/ Exit \/ ServerConnected
Spec == Init /\ [][Next]_vars
\* Time goes on, and main_func is a repeating timer.
FairSpec == Spec /\ WF_vars(Tick) /\ WF_vars(Poll)

-----------------------------------------------------------------------------
(* Properties.                                                             *)

TypeOK ==
  /\ {now, key_press_time, key_release_time, smartconfig_start_time} \subseteq 0 .. Wrap - 1
  /\ unpolled \in 0 .. Gap /\ held \in 0 .. Wrap /\ up \in 0 .. Wrap
  /\ {pressed, key_long_press, is_super_key, is_in_smartconfig, smartconfig_done,
      running, linked, station, rearmed} \subseteq BOOLEAN

\* A press is long only when no poll found the key up for KEY_LONG_PRESS, by a
\* time that does not wrap, whatever the contacts do and however late the polls
\* come (key_update).
LongPressIsLong ==
  [][key_long_press' /\ ~key_long_press => held > KEY_LONG_PRESS]_vars

\* One press acts once: however long it lasts, and although the contacts
\* bounce, the session is not started or ended again before the key was up for
\* KEY_ACTION_TIME (key_func).
OneActionPerPress ==
  [][key_long_press' /\ ~key_long_press /\ ~is_super_key => rearmed]_vars

\* The flag that decides what a press does is that of the SDK: neither the MCU,
\* the SDK nor the time limit ends a session behind its back.  Without a session
\* the station is on its network, or connects to it, whichever way it ended.
SessionAgrees == is_in_smartconfig = running /\ (running \/ station)

\* A session ends though no phone answers and the time wraps (net_func).
SessionEnds == running ~> ~running
=============================================================================
