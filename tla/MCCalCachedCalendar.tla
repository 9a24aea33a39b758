------------------------ MODULE MCCalCachedCalendar ------------------------
(* Instances of CalCachedCalendar for TLC: items are model values. *)
EXTENDS CalCachedCalendar

CONSTANTS i1, i2
=============================================================================
