---------------------------- MODULE MCSchedule ----------------------------
(* An instance of Schedule for TLC: month ends of a leap year, of 1900 and *)
(* of 2000, the turn of a year, and a date on no anchor.                   *)
EXTENDS Schedule, TLC

Plan(f, due, a1, a2) == [frequency |-> f, due |-> due, anchor |-> a1, anchor2 |-> a2]

MCPlans ==
  {Plan(f, d, d.day, 0) : f \in {"monthly", "biweekly"},
                          d \in {Date(2028, 1, 31), Date(1900, 2, 20)}}
    \cup {Plan("weekly", Date(2000, 2, 24), 24, 0), Plan("once", Date(2026, 1, 15), 15, 0),
          Plan("quarterly", Date(2027, 11, 30), 30, 0), Plan("annual", Date(2028, 2, 29), 29, 0),
          Plan("semiannual", Date(2026, 8, 31), 31, 0),
          Plan("semimonthly", Date(2027, 1, 30), 15, 30),
          Plan("semimonthly", Date(2028, 2, 1), 1, 31)}
MCRedates == {Date(2026, 1, 15)}
MCRecasts == {Plan("semimonthly", Date(2026, 1, 15), 30, 15), Plan("monthly", Date(2026, 1, 15), 0, 0)}

Symmetry == Permutations(Tabs)
=============================================================================
