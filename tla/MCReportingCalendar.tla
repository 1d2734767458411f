------------------------ MODULE MCReportingCalendar ------------------------
(* Years at both ends of the calendar and around a leap day, for TLC. *)
EXTENDS ReportingCalendar, TLC

CONSTANTS c1, c2

SomeRanges ==
    {<<1, 1>>, <<2000, 2000>>, <<2000, 2001>>, <<1900, 1900>>, <<2020, 2020>>, <<9998, 9998>>,
     <<9999, 9999>>, <<0, 1>>, <<2021, 2020>>, <<1900, 2000>>}

Symmetry == Permutations({c1, c2})
=============================================================================
