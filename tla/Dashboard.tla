------------------------------ MODULE Dashboard ------------------------------
(***************************************************************************)
(* The sessions of the admin panel, the weekly reports it shows, and the   *)
(* alerts of its /runs page.  They share no state: a behaviour follows one *)
(* of them and leaves the others.                                          *)
(***************************************************************************)
EXTENDS AdminSession, Weekly, Alerts

VARIABLE scene

vars == <<scene, session, weekly, alerts>>

Scenes == {"sessions", "reports", "alerts"}

TypeOK == /\ scene \in Scenes
          /\ TypeOKSession
          /\ TypeOKWeekly
          /\ TypeOKAlerts

Init == /\ scene \in Scenes
        /\ InitSession
        /\ InitWeekly
        /\ IF scene = "alerts" THEN InitAlerts ELSE QuietAlerts

Next == \/ scene = "sessions" /\ SessionNext /\ UNCHANGED <<scene, weekly, alerts>>
        \/ scene = "reports"  /\ WeeklyNext  /\ UNCHANGED <<scene, session, alerts>>
        \/ scene = "alerts"   /\ AlertsNext  /\ UNCHANGED <<scene, session, weekly>>

Spec == Init /\ [][Next]_vars
=============================================================================
