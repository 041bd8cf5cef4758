---------------------------- MODULE LeadLifecycle ----------------------------
(***************************************************************************)
(* What delivery promises of an item, seen from the CRM: a bounded number  *)
(* of sends, a lead only for a send, no more leads than sends, and a       *)
(* shelved item that stays shelved.  How runs, locks, sweeps and           *)
(* executions bring this about is not said here; module RfpDelivery        *)
(* implements it.                                                          *)
(***************************************************************************)
EXTENDS Naturals

CONSTANTS Items, MaxAttempts

VARIABLES standing,   \* what the item is to the CRM
          sends,      \* times it was handed to the workflow
          leads,      \* leads the CRM got for it
          losses      \* runs that ended early: each may hide one send

lifecycleVars == <<standing, sends, leads, losses>>

Recordable == {"pending", "shelved"}
Sendable   == {"pending", "done", "dead"}

Init ==
    /\ standing = [i \in Items |-> "unseen"]
    /\ sends = [i \in Items |-> 0]
    /\ leads = [i \in Items |-> 0]
    /\ losses = 0

\* Unseen items get their standing, several at once; a run may end with it.
Recorded ==
    /\ standing' \in [Items -> Recordable \union Sendable \union {"unseen"}]
    /\ \A i \in Items :
         \/ standing'[i] = standing[i]
         \/ standing[i] = "unseen" /\ standing'[i] \in Recordable
    /\ losses' \in {losses, losses + 1}
    /\ UNCHANGED <<sends, leads>>

\* An item is sent at most MaxAttempts times and once more for each loss.
Send(i) ==
    /\ standing[i] \in Sendable
    /\ sends[i] < MaxAttempts + losses
    /\ sends' = [sends EXCEPT ![i] = @ + 1]
    /\ UNCHANGED <<standing, leads, losses>>

\* A lead answers a send of its own.
Lead(i) ==
    /\ leads[i] < sends[i]
    /\ leads' = [leads EXCEPT ![i] = @ + 1]
    /\ UNCHANGED <<standing, sends, losses>>

\* The workflow has answered, with or without a lead.
Settle(i) ==
    /\ sends[i] > 0
    /\ standing[i] \in Sendable
    /\ standing' = [standing EXCEPT ![i] = "done"]
    /\ UNCHANGED <<sends, leads, losses>>

Abandon(i) ==
    /\ standing[i] \in Sendable
    /\ standing' = [standing EXCEPT ![i] = "dead"]
    /\ UNCHANGED <<sends, leads, losses>>

Next ==
    \/ Recorded
    \/ \E i \in Items : Send(i) \/ Lead(i) \/ Settle(i) \/ Abandon(i)

Spec == Init /\ [][Next]_lifecycleVars
=============================================================================
