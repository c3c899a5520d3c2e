------------------------------ MODULE MCServerLog ------------------------------
EXTENDS ServerLog

MCField == {"hour", "day"}

\* Two hours of one day, and the first hour of the next.
MCCalendar ==
  [h \in 0 .. 2 |-> IF h < 2 THEN [hour |-> 22 + h, day |-> 1] ELSE [hour |-> 0, day |-> 2]]
===============================================================================
