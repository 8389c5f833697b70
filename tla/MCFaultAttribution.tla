------------------------- MODULE MCFaultAttribution -------------------------
(* A small instance of FaultAttribution: an attribution that compares two   *)
(* classifiers and is asked for a detector and for a name nobody saved too, *)
(* an explanation of the first classifier, and the score of the detector.   *)
EXTENDS FaultAttribution

CONSTANTS r, s, t, a, b, d, u

Asked == [q \in Requests |->
             CASE q = r -> "attribute" [] q = s -> "predict" [] q = t -> "explain"]
AskedNames == [q \in Requests |->
                  CASE q = r -> <<a, u, d, b>> [] q = s -> <<d>> [] q = t -> <<a>>]
=============================================================================
