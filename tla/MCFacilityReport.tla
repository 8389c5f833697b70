-------------------------- MODULE MCFacilityReport --------------------------
(* Days around the end of a year: the first is six days before the second   *)
(* and seven before the third; and one that few years have.                 *)
EXTENDS FacilityReport

MCDates == {<<2027, 12, 25>>, <<2027, 12, 31>>, <<2028, 1, 1>>,
            <<2028, 2, 29>>}
=============================================================================
