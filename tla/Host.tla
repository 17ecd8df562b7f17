-------------------------------- MODULE Host --------------------------------
(***************************************************************************)
(* A controlled machine: the requests its agents execute and the update of *)
(* the service's program, which ends the process in the middle of them.    *)
(***************************************************************************)
EXTENDS Requests, Update

CONSTANTS
    Service,  \* the agent that runs as a service and updates itself
    Loads     \* bound: the requests, releases, crashes and faults that a
              \* behaviour may have, in the combinations that are explored

ASSUME HostConstants ==
    /\ Service \in Agents
    /\ Loads \subseteq [jobs : 0 .. MaxJobs, releases : 0 .. Newest - 1,
                        crashes : 0 .. MaxCrashes, faults : 0 .. MaxFaults]

vars == <<requestVars, updateVars>>

Init == \E load \in Loads :
    /\ RequestsInit
    /\ UpdateInit(Newest - load.releases)
    /\ jobs = MaxJobs - load.jobs
    /\ crashes = MaxCrashes - load.crashes
    /\ faults = MaxFaults - load.faults

Serving(a) == a = Service => proc = "up"

\* A request is executed, or its command and its file go on by themselves.
Serves ==
    /\ \/ \E a \in Agents : Serving(a) /\ (Request(a) \/ Works(a) \/ Machine(a))
       \/ \E v \in Versions : LocalSave(v)
    /\ UNCHANGED updateVars

\* The service's process ends, by itself or not.
ServiceEnds ==
    /\ Crash \/ ExitForUpdate
    /\ Gone(Service)

\* The desktop program ends; it is not updated.
DesktopEnds == \E a \in Agents \ {Service} :
    /\ Gone(a)
    /\ UNCHANGED updateVars

Next ==
    \/ Serves
    \/ Updates /\ UNCHANGED requestVars
    \/ ServiceEnds
    \/ DesktopEnds

Spec == Init /\ [][Next]_vars

\* The service manager starts the program again, the loop goes on, and the
\* relay answers often enough.
Fairness ==
    /\ WF_vars(UNCHANGED requestVars /\
               (Start \/ ApplyFirst \/ ApplySecond \/ StageOpen \/ StageFill))
    /\ WF_vars(UNCHANGED requestVars /\ FetchMan)
    /\ SF_vars(UNCHANGED requestVars /\ FetchSig)
    /\ SF_vars(UNCHANGED requestVars /\ FetchFile)
    /\ WF_vars(ExitForUpdate /\ Gone(Service))
    /\ \A p \in Parts : WF_vars(UNCHANGED requestVars /\ Publish(p))

FairSpec == Spec /\ Fairness
=============================================================================
