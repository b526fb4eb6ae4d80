------------------------------ MODULE MCDelayed ------------------------------
(***************************************************************************)
(* Three sends, two of which share the id <cancel> knows them by.          *)
(***************************************************************************)
EXTENDS DelayedEventQueue

CONSTANTS s1, s2, s3

ThreeSends == {s1, s2, s3}
SharedId == [u \in ThreeSends |-> IF u = s3 THEN "b" ELSE "a"]
=============================================================================
