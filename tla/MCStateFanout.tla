---------------------------- MODULE MCStateFanout -----------------------------
(* Keys other than the scraper's, and values, are interchangeable.           *)
EXTENDS StateFanout, TLC

MCSymmetry == Permutations(Keys \ {HealthKey}) \cup Permutations(Values)
===============================================================================
