------------------------------ MODULE Rotation ------------------------------
(***************************************************************************)
(* Daily directories for the files of the recorder.  A day is a number;    *)
(* the code compares days of the month only.  A client asks needs_rotation *)
(* from time to time, and rotates and cleans up when it says so.           *)
(***************************************************************************)
EXTENDS Integers, FiniteSets

CONSTANTS
    Month,            \* days of a month
    retention_days,   \* 0 means for ever
    MaxDay            \* bound

ASSUME CalendarAssumption ==
    Month \in Nat \ {0} /\ retention_days \in Nat /\ MaxDay \in Nat

VARIABLES
    day,        \* the current day
    last_day,   \* last_day_: the day of the month, -1 at first
    dirs,       \* the directories, each the day of its name
    path        \* the day of the path in use, -1 at first

rotation_vars == <<day, last_day, dirs, path>>

RotationInit == day = 0 /\ last_day = -1 /\ dirs = {} /\ path = -1

tm_mday(d) == d % Month

needs_rotation == last_day < 0 \/ tm_mday(day) # last_day

\* A client may be late by some days.
DaysPass(n) ==
    /\ day + n <= MaxDay
    /\ day' = day + n
    /\ UNCHANGED <<last_day, dirs, path>>

\* current_path creates the directory of today.
current_path ==
    /\ last_day' = tm_mday(day)
    /\ dirs' = dirs \cup {day}
    /\ path' = day

\* The client rotates if it must.  rotate also resets last_day_ first.
Poll ==
    /\ IF needs_rotation THEN current_path ELSE UNCHANGED <<last_day, dirs, path>>
    /\ UNCHANGED day

\* A bug of cleanup: the directory at the limit goes a day early.
ExpiredEarly(d) == d <= day - retention_days + 1

\* A directory stands for the midnight before its day, so at any time after
\* midnight the one that is retention_days old is too old.
Expired(d) == d <= day - retention_days

cleanup ==
    /\ retention_days > 0
    /\ dirs' = {d \in dirs : ~Expired(d)}
    /\ UNCHANGED <<day, last_day, path>>

RotationNext ==
    \/ \E n \in 1 .. Month + 1 : DaysPass(n)
    \/ Poll
    \/ cleanup

------------------------------------------------------------------------------

\* A client that asks at least once a month has a path of a day that it asked
\* on, and the directory of that path is there until it is retention_days old:
\* cleanup does not take the file away that is being written.
PathIsThere ==
    path >= 0 /\ day - path < retention_days => path \in dirs

==============================================================================
