---- MODULE MCDashboard ----
\* Instance of Dashboard: two tabs of one browser and one of another.
EXTENDS Dashboard, TLC

CONSTANTS b1, b2, t1, t2, t3, c1, c2, p1, p2

TwoAndOne == (t1 :> b1) @@ (t2 :> b1) @@ (t3 :> b2)

Alike == Permutations({t1, t2}) \cup Permutations({c1, c2}) \cup Permutations({p1, p2})
====
