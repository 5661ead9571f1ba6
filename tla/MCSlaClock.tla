----------------------------- MODULE MCSlaClock -----------------------------
(* Finite instances of SlaClock: two targets' policies and one workflow.     *)
EXTENDS SlaClock

\* Calendars, in milliseconds: always open, and eight on, eight off with edges
\* that fall between requests.
Always == Int
Shifts == {t \in -64..128 : ((t + 2) % 16) < 8}

HoursNamed == [always |-> Always, shifts |-> Shifts]

\* The categories of a ticket: worked on, waiting for two reasons, resolved.
Workflow == [open |-> "run", pending |-> "pause", vendor |-> "pause", resolved |-> "met"]

TwoBudgets == [p1 |-> 8, p2 |-> 12]

OneWarn == {50}

\* A resolution clock that pauses while the device is offline, and a response
\* clock, of a ticket an alert raised, that pauses outside office hours.
TwoPolicies ==
    {[hours |-> "always", switchMode |-> "keep_elapsed", pauseSources |-> {"device_offline"},
      stopsOnReply |-> FALSE, grace |-> None],
     [hours |-> "shifts", switchMode |-> "recompute_from_start",
      pauseSources |-> {"outside_hours"},
      stopsOnReply |-> TRUE, grace |-> 4]}
=============================================================================
