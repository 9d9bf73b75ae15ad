------------------------------- MODULE MCGeo --------------------------------
(* Two editions of a small directory: a range splits, a network moves and an *)
(* address falls out of it.                                                  *)
EXTENDS Geo

TwoEditions ==
  << {[lo |-> 0, hi |-> 1, asns |-> {"A"}], [lo |-> 2, hi |-> 3, asns |-> {"A", "B"}]},
     {[lo |-> 0, hi |-> 0, asns |-> {"A"}], [lo |-> 1, hi |-> 2, asns |-> {"B"}]} >>
=============================================================================
