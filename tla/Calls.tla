------------------------------- MODULE Calls --------------------------------
(***************************************************************************)
(* What a controller's requests promise their callers, with no connection, *)
(* relay or session in sight: a request is answered only after the agent   *)
(* has carried it out, is carried out at most once and only if it was      *)
(* sent, and in the order of issue.  A request that fails before it is     *)
(* sent is never carried out; one that fails later may be.                 *)
(***************************************************************************)
EXTENDS Naturals, Sequences, Functions

CONSTANT MaxReqs   \* requests issued, numbered in order

Reqs == 1 .. MaxReqs

VARIABLES
    call,   \* call[r]: what became of request r
    ran     \* the requests the agent carried out, in order

States == {"new", "queued", "sent", "ok", "rejected", "late"}

\* From issue to settlement; "rejected" was never sent, "late" was.
Moves == { <<"new", "queued">>, <<"new", "sent">>, <<"queued", "sent">>,
           <<"queued", "rejected">>, <<"sent", "ok">>, <<"sent", "late">> }

CallsInit ==
    /\ call = [r \in Reqs |-> "new"]
    /\ ran = <<>>

\* The controller: requests settle and are sent, several in one step; one is
\* in flight at a time, and only what was carried out is answered.
Settle ==
    /\ call' \in [Reqs -> States]
    /\ \A r \in Reqs :
         /\ call'[r] # call[r] => <<call[r], call'[r]>> \in Moves
         /\ call'[r] = "ok" => r \in Range(ran)
    /\ \A r, q \in Reqs : call'[r] = "sent" /\ call'[q] = "sent" => r = q
    /\ UNCHANGED ran

\* The agent: a request that was sent and is newer than what it ran before.
Run(r) ==
    /\ call[r] \in {"sent", "late"}
    /\ \A q \in Range(ran) : q < r
    /\ ran' = Append(ran, r)
    /\ UNCHANGED call

CallsNext == Settle \/ \E r \in Reqs : Run(r)

CallsSpec == CallsInit /\ [][CallsNext]_<<call, ran>>
=============================================================================
