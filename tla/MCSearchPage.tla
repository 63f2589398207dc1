------------------------------ MODULE MCSearchPage ------------------------------
(* A query with more files than the service returns and one without any.   *)
EXTENDS SearchPage

MCHits == [t \in Texts |-> IF t = Star THEN 3 ELSE 0]
===============================================================================
