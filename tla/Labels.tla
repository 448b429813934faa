--------------------------------- MODULE Labels ---------------------------------
(***************************************************************************)
(* The times that the dashboard shows, format.ts: how long a job took, how *)
(* long ago it was accepted and for how long a deployment is up.  A label  *)
(* is the number of units it names and the unit; its wording is left out.  *)
(***************************************************************************)
EXTENDS Integers

Second == 1
Minute == 60
Hour == 3600
Day == 86400

\* what a label says, in units of the time it was made from
Reads(label) == label.n * label.unit

\* Math.round of a quotient: to the nearest integer, halves upwards
Rounded(a, b) == (2 * a + b) \div (2 * b)

Abs(n) == IF n < 0 THEN -n ELSE n

-----------------------------------------------------------------------------
\* "<1s", whole seconds or whole minutes of a number of milliseconds
formatDuration(ms) ==
  IF ms < 1000 THEN [n |-> 0, unit |-> 1000]
  ELSE IF ms < 60000 THEN [n |-> Rounded(ms, 1000), unit |-> 1000]
  ELSE [n |-> Rounded(ms, 60000), unit |-> 60000]

\* each unit is rounded from the one before, not from the seconds
Minutes(seconds) == Rounded(seconds, 60)
Hours(seconds) == Rounded(Minutes(seconds), 60)
Days(seconds) == Rounded(Hours(seconds), 24)

\* a difference in whole seconds, negative in the past; from thirty days on the
\* label is a month and a day without a year, which names no distance.  (A job
\* without a time is "Not started".)
CalendarDate == [n |-> 0, unit |-> 0]
formatRelativeTime(seconds) ==
  IF Abs(seconds) < 60 THEN [n |-> seconds, unit |-> Second]
  ELSE IF Abs(Minutes(seconds)) < 60 THEN [n |-> Minutes(seconds), unit |-> Minute]
  ELSE IF Abs(Hours(seconds)) < 24 THEN [n |-> Hours(seconds), unit |-> Hour]
  ELSE IF Abs(Days(seconds)) < 30 THEN [n |-> Days(seconds), unit |-> Day]
  ELSE CalendarDate
HasRelativeTime(seconds) == formatRelativeTime(seconds) # CalendarDate

\* seconds, minutes, hours with minutes up to two days, days with hours; the
\* smaller unit of the two is the unit of the label
formatUptimeSeconds(seconds) ==
  LET minutes == seconds \div 60
      hours == minutes \div 60
      days == hours \div 24
  IN IF seconds < 60 THEN [n |-> seconds, unit |-> Second]
     ELSE IF minutes < 60 THEN [n |-> minutes, unit |-> Minute]
     ELSE IF hours < 48 THEN [n |-> 60 * hours + (minutes % 60), unit |-> Minute]
     ELSE [n |-> 24 * days + (hours % 24), unit |-> Hour]

\* containers are known by the second at which they started last, 0 if unknown;
\* it counts from the newest of them, also if that one has exited since
Newest(started) == CHOOSE s \in started : \A t \in started : t <= s
Offline == [n |-> 0, unit |-> 0]
FromStatus == [n |-> 1, unit |-> 0]   \* what Docker's status text says, or "Running"
deploymentUptime(started, now) ==
  IF started = {} THEN Offline
  ELSE IF Newest(started) = 0 THEN FromStatus
  ELSE formatUptimeSeconds(IF now < Newest(started) THEN 0 ELSE now - Newest(started))

-----------------------------------------------------------------------------
(* What the labels promise, for one time and for two. *)

\* A duration is off by half of its unit at most, or is less than one second.
DurationIsClose(ms) ==
  LET d == formatDuration(ms)
  IN IF d.n = 0 THEN ms < 1000 ELSE 2 * Abs(Reads(d) - ms) <= d.unit

\* The time since a job is off by half of its unit and what the smaller units
\* were off by, and no label says "0 minutes", "0 hours" or "0 days".
Half(unit) ==
  IF unit = Second THEN 0
  ELSE IF unit = Minute THEN 30
  ELSE IF unit = Hour THEN 1800 + 30
  ELSE 43200 + 1800 + 30
RelativeIsClose(seconds) ==
  LET r == formatRelativeTime(seconds)
  IN r # CalendarDate =>
     /\ Abs(Reads(r) - seconds) <= Half(r.unit)
     /\ r.unit # Second => r.n # 0

\* Of two jobs whose labels name a distance the older one never reads as the
\* newer one, also where one label is in minutes and the other one in hours; and
\* a job that is older than one shown by its date is shown by its date, too.
\* (Which of two dates is the older one they do not say.)
OlderReadsOlder(s, t) == s <= t =>
  /\ HasRelativeTime(s) /\ HasRelativeTime(t)
       => Reads(formatRelativeTime(s)) <= Reads(formatRelativeTime(t))
  /\ t <= 0 /\ HasRelativeTime(s) => HasRelativeTime(t)

\* An uptime is cut to its smaller unit and never goes back as time goes by.
UptimeIsExact(s) ==
  LET u == formatUptimeSeconds(s) IN Reads(u) <= s /\ s < Reads(u) + u.unit
UptimeGrows(s, t) == s <= t => Reads(formatUptimeSeconds(s)) <= Reads(formatUptimeSeconds(t))
=============================================================================
