----------------------------- MODULE Supervisor -----------------------------
(***************************************************************************)
(* What the desktop program promises of the agents it runs, without how it *)
(* does it: an agent that was started works until it is told to stop, ends *)
(* only then, and is not started again.  held is the agent the program can *)
(* tell to stop.  Module Desktop implements it (DesktopProps!Supervised).  *)
(***************************************************************************)
CONSTANTS Runs, None

VARIABLES phase, held

Init ==
    /\ phase = [r \in Runs |-> "off"]
    /\ held = None

Start(r) ==
    /\ phase[r] = "off"
    /\ phase' = [phase EXCEPT ![r] = "works"]
    /\ held' = r

Tell(r) ==
    /\ held = r
    /\ phase[r] = "works"
    /\ phase' = [phase EXCEPT ![r] = "told"]
    /\ UNCHANGED held

End(r) ==
    /\ phase[r] = "told"
    /\ phase' = [phase EXCEPT ![r] = "ended"]
    /\ held' = IF held = r THEN None ELSE held

\* The program ends, and all that it ran with it.
Exit ==
    /\ phase' = [r \in Runs |-> "off"]
    /\ held' = None

Next ==
    \/ \E r \in Runs : Start(r) \/ Tell(r) \/ End(r)
    \/ Exit

Spec == Init /\ [][Next]_<<phase, held>>
=============================================================================
