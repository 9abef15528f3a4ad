----------------------------- MODULE AlarmClock ----------------------------
(***************************************************************************)
(* What timer_sleep promises, without threads or lists: an alarm rings at  *)
(* the first tick that is not before it.  Every tick wakes exactly the     *)
(* alarms that are due, in any order, before anything else happens.        *)
(***************************************************************************)
EXTENDS Integers

CONSTANTS
  Sleepers,  \* who can set an alarm
  Spans      \* numbers of ticks that can be asked for

VARIABLES
  now,      \* ticks since boot
  alarms,   \* pairs of a sleeper and the tick it is to wake at
  ringing   \* the alarms of the current tick are being woken

clock_vars == <<now, alarms, ringing>>

Init == now = 0 /\ alarms = {} /\ ringing = FALSE

Asleep(s) == \E a \in alarms : a[1] = s

\* The caller read the time at some tick then, now or earlier.
SetAlarm(s) ==
  /\ ~ringing
  /\ ~Asleep(s)
  /\ \E then \in 0 .. now, n \in Spans : alarms' = alarms \cup {<<s, then + n>>}
  /\ UNCHANGED <<now, ringing>>

Tick ==
  /\ ~ringing
  /\ now' = now + 1
  /\ ringing' = TRUE
  /\ UNCHANGED alarms

Wake(a) ==
  /\ ringing
  /\ a[2] <= now
  /\ alarms' = alarms \ {a}
  /\ UNCHANGED <<now, ringing>>

Silence ==
  /\ ringing
  /\ \A a \in alarms : a[2] > now
  /\ ringing' = FALSE
  /\ UNCHANGED <<now, alarms>>

Next ==
  \/ \E s \in Sleepers : SetAlarm(s)
  \/ Tick
  \/ \E a \in alarms : Wake(a)
  \/ Silence

Spec == Init /\ [][Next]_clock_vars
=============================================================================
