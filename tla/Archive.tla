------------------------------ MODULE Archive ------------------------------
(***************************************************************************)
(* What the archive of one forum promises, however the forum is crawled.   *)
(* The site is the log of its activity.  The archive knows the first posts *)
(* of each topic, it has given up on some topics, and, once it says so, it *)
(* knows all activity up to a point.  Pages, cursors, watermarks and jobs  *)
(* are not said here; module KbCrawl implements it.                        *)
(***************************************************************************)
EXTENDS Integers, Sequences, FiniteSets

CONSTANT Topics

VARIABLES site,       \* site[k] is the topic that got the k-th post
          known,      \* how many posts of each topic the archive knows of
          given,      \* the topics it has given up on
          claim       \* it claims to know site[1 .. claim]

archiveVars == <<site, known, given, claim>>

PostsUpTo(t, v) == Cardinality({k \in 1 .. v : site[k] = t})

\* All activity up to a time is known, or its topic given up.
Accounted(v) ==
    \A k \in 1 .. v : \/ known[site[k]] >= PostsUpTo(site[k], k)
                      \/ site[k] \in given

Init ==
    /\ site = <<>>
    /\ known = [t \in Topics |-> 0]
    /\ given = {}
    /\ claim = 0

\* The site moves on, perhaps under a crawler that walks its pages.
Post(t) ==
    /\ site' = Append(site, t)
    /\ given' \in {given, given \cup {t}}
    /\ UNCHANGED <<known, claim>>

\* A topic is read, as it was at a time no earlier than the claim.
Read(t) ==
    /\ \E v \in claim .. Len(site) :
          /\ known[t] <= PostsUpTo(t, v)
          /\ known' = [known EXCEPT ![t] = PostsUpTo(t, v)]
    /\ given' = given \ {t}
    /\ UNCHANGED <<site, claim>>

GiveUp ==
    /\ given \subseteq given' /\ given' \subseteq Topics
    /\ UNCHANGED <<site, known, claim>>

\* The claim is raised over what is accounted for.
Claim ==
    /\ claim' \in claim .. Len(site)
    /\ Accounted(claim')
    /\ UNCHANGED <<site, known, given>>

Next ==
    \/ GiveUp
    \/ Claim
    \/ \E t \in Topics : Post(t) \/ Read(t)

Spec == Init /\ [][Next]_archiveVars

-----------------------------------------------------------------------------
\* A claim is kept for good: what is posted, read or given up later does not
\* take away from it.
ClaimKept == Accounted(claim)
=============================================================================
