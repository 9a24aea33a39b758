--------------------------- MODULE MCICSCalendar ---------------------------
(* Instances of ICSCalendar for TLC: changes of others are model values. *)
EXTENDS ICSCalendar

CONSTANTS e1, e2
=============================================================================
