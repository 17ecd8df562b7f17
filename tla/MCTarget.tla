------------------------------ MODULE MCTarget ------------------------------
(* A small instance of Target for TLC. *)
EXTENDS TargetProps, TLC

Interchangeable ==
    Permutations(Loops) \cup Permutations(Standbys) \cup Permutations(Jobs)

First == CHOOSE j \in Jobs : TRUE

Working == {l \in Loops : pc[l] # "none"}
StandingBy == {p \in Standbys : ppc[p] # "none"}

\* Bound: three of the two loops and two standby loops are at work.
ThreeAtWork == Cardinality(Working) + Cardinality(StandingBy) <= 3

\* Bound: the second request comes where at most one loop and one standby
\* loop are at work; which request is the first makes no difference.
RequestsMeet ==
    \A j \in Jobs \ {First} : fate[j] # "new" =>
        /\ fate[First] # "new"
        /\ Cardinality(Working) <= 1
        /\ Cardinality(StandingBy) <= 1

\* Bound: while a loop awaits a write, or has frames left of a connection that
\* was closed, another one has no connection and the profile is there.
WritesAlone ==
    \A l \in Loops : \A k \in Working \ {l} :
        pc[l] \in Writing \/ sock[l] = "left" =>
            sock[k] = "none" /\ profile /\ listed
=============================================================================
