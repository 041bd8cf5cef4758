------------------------------ MODULE MCKbCrawl ------------------------------
(***************************************************************************)
(* An instance of KbCrawl for TLC.                                         *)
(***************************************************************************)
EXTENDS KbCrawl

\* Two topics of one category, so that pages shift, and one of another
Split == [t \in Topics |-> IF t = 3 THEN 2 ELSE 1]

\* Four posts and two faults, but less of a Discourse forum, whose listings have
\* the most states: two posts and two faults, or three and one, and without a fault
\* where there are validators as well
Small == kind = "discourse" => /\ Len(log) <= 3 /\ Len(log) + faults <= 4
                               /\ Len(log) = 3 /\ etags => faults = 0

SmallSpec == Init /\ [][Next /\ Small']_vars
=============================================================================
