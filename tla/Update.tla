------------------------------- MODULE Update -------------------------------
(***************************************************************************)
(* The agent program that keeps itself up to date: the relay serves a      *)
(* release (internal/hub/update.go), the program fetches, checks and       *)
(* stages it (updateLoop in cmd/agent/main.go, CheckAndStageUpdate in      *)
(* internal/agent/update.go), ends, is started again by the service        *)
(* manager and puts the staged program in its place (ApplyStagedUpdate).   *)
(*                                                                         *)
(* Programs and releases are versions.  The release is three files, which  *)
(* an operator replaces one after the other and the program fetches one    *)
(* after the other.  A process runs the image it was started from, whatever *)
(* becomes of the file.                                                    *)
(***************************************************************************)
EXTENDS Naturals

CONSTANTS
    Newest,     \* bound: the last version that is published
    MaxCrashes, \* bound: times the process is killed
    MaxFaults,  \* bound: times a write or a rename of it fails
    Missing, Partial

ASSUME UpdateConstants ==
    /\ Newest \in Nat \ {0} /\ MaxCrashes \in Nat /\ MaxFaults \in Nat
    /\ Missing \notin Nat /\ Partial \notin Nat /\ Missing # Partial

VARIABLES
    release,  \* of what version the served manifest, signature and file are
    proc,     \* off, apply, mid (between two renames), up
    running,  \* the version of the image
    exe,      \* the program's file
    old,      \* exe + ".old"
    staged,   \* oclink-agent.staged
    loop,     \* where updateLoop stands
    man,      \* the version of the manifest it has fetched
    crashes, faults,
    \* history
    hurt      \* a fault or a crash hit a file on its way into place, and
              \* nothing has mended it

updateVars == <<release, proc, running, exe, old, staged, loop, man,
                crashes, faults, hurt>>

Releases == 1 .. Newest
Images   == Releases \cup {Missing, Partial}
Parts    == {"man", "sig", "file"}

UpdateTypeOK ==
    /\ release \in [Parts -> Releases]
    /\ proc \in {"off", "apply", "mid", "up"}
    /\ running \in Releases
    /\ exe \in Images /\ old \in Images /\ staged \in Images
    /\ loop \in {"sleep", "sig", "file", "stage", "fill", "done"}
    /\ man \in Releases
    /\ crashes \in 0 .. MaxCrashes /\ faults \in 0 .. MaxFaults
    /\ hurt \in BOOLEAN

\* The version v is installed, published and not started yet.
UpdateInit(v) ==
    /\ release = [p \in Parts |-> v]
    /\ proc = "off" /\ running = v
    /\ exe = v /\ old = Missing /\ staged = Missing
    /\ loop = "sleep" /\ man = v
    /\ hurt = FALSE

program == <<proc, running, exe, old, crashes>>

Faulty ==
    /\ faults < MaxFaults
    /\ faults' = faults + 1

-----------------------------------------------------------------------------
(* Mutated forms: what a slip in the code would make of a definition below. *)

\* The renamed program is not given its name back.
ApplyFailsMidway ==
    /\ proc = "mid"
    /\ Faulty
    /\ proc' = "up"
    /\ UNCHANGED <<release, running, exe, old, staged, loop, man, crashes,
                   hurt>>

\* The manifest is compared with the program's file, which a start has put
\* in place, and not with the image that runs.
FetchSigForFile ==
    /\ proc = "up" /\ loop = "sig"
    /\ loop' = IF release["sig"] = man /\ man # exe THEN "file" ELSE "sleep"
    /\ UNCHANGED <<release, program, staged, man, faults, hurt>>

-----------------------------------------------------------------------------

\* An operator publishes the next version, part by part in any order.
Publish(p) ==
    /\ release[p] < Newest
    /\ \A q \in Parts : release[p] <= release[q]
    /\ release' = [release EXCEPT ![p] = @ + 1]
    /\ UNCHANGED <<program, staged, loop, man, faults, hurt>>

\* main, started by hand or by the service manager: a program that is not
\* whole cannot be started.
Start ==
    /\ proc = "off" /\ exe \in Releases
    /\ proc' = "apply" /\ running' = exe
    /\ loop' = "sleep"
    /\ UNCHANGED <<release, exe, old, staged, man, crashes, faults, hurt>>

\* ApplyStagedUpdate, up to its first rename.
ApplyFirst ==
    /\ proc = "apply"
    /\ \/ /\ staged # Missing
          /\ proc' = "mid" /\ old' = exe /\ exe' = Missing
          /\ UNCHANGED faults
       \/ /\ staged # Missing /\ Faulty
          /\ proc' = "up" /\ old' = Missing
          /\ UNCHANGED exe
       \/ /\ staged = Missing
          /\ proc' = "up"
          /\ UNCHANGED <<exe, old, faults>>
    /\ UNCHANGED <<release, running, staged, loop, man, crashes, hurt>>

\* Its second rename: nobody looks at what was staged.
ApplySecond ==
    /\ proc = "mid"
    /\ proc' = "up" /\ exe' = staged /\ staged' = Missing
    /\ UNCHANGED <<release, running, old, loop, man, crashes, faults, hurt>>

\* It fails and the first one is taken back, which may fail as well.
ApplyFails ==
    /\ proc = "mid"
    /\ \/ /\ Faulty
          /\ exe' = old /\ old' = Missing
          /\ UNCHANGED hurt
       \/ /\ faults + 2 <= MaxFaults
          /\ faults' = faults + 2 /\ hurt' = TRUE
          /\ UNCHANGED <<exe, old>>
    /\ proc' = "up"
    /\ UNCHANGED <<release, running, staged, loop, man, crashes>>

\* CheckAndStageUpdate: ServeLatest, ServeSig and ServeFile answer from what
\* is there; a signature of another manifest, or a file of another digest,
\* ends the attempt.
FetchMan ==
    /\ proc = "up" /\ loop = "sleep"
    /\ man' = release["man"] /\ loop' = "sig"
    /\ UNCHANGED <<release, program, staged, faults, hurt>>

FetchSig ==
    /\ proc = "up" /\ loop = "sig"
    /\ loop' = IF release["sig"] = man /\ man # running THEN "file" ELSE "sleep"
    /\ UNCHANGED <<release, program, staged, man, faults, hurt>>

FetchFile ==
    /\ proc = "up" /\ loop = "file"
    /\ loop' = IF release["file"] = man THEN "stage" ELSE "sleep"
    /\ UNCHANGED <<release, program, staged, man, faults, hurt>>

FetchFails ==
    /\ proc = "up" /\ loop \in {"sig", "file"}
    /\ loop' = "sleep"
    /\ UNCHANGED <<release, program, staged, man, faults, hurt>>

\* WriteFile empties the staged file and fills it.
StageOpen ==
    /\ proc = "up" /\ loop = "stage"
    /\ staged' = Partial /\ loop' = "fill"
    /\ UNCHANGED <<release, program, man, faults, hurt>>

StageFill ==
    /\ proc = "up" /\ loop = "fill"
    /\ \/ /\ staged' = man /\ loop' = "done"
          /\ hurt' = (exe \notin Releases)
          /\ UNCHANGED faults
       \/ /\ Faulty
          /\ loop' = "sleep" /\ hurt' = TRUE
          /\ UNCHANGED staged
    /\ UNCHANGED <<release, program, man>>

\* The process is gone: killed, or by the end of the machine.
Ends ==
    /\ proc' = "off" /\ loop' = "sleep"
    /\ hurt' = (hurt \/ proc = "mid" \/ loop = "fill")
    /\ UNCHANGED <<release, running, exe, old, staged, man, faults>>

Crash ==
    /\ proc # "off" /\ crashes < MaxCrashes
    /\ crashes' = crashes + 1
    /\ Ends

\* updateLoop in a service: the program ends so that it is started again.
ExitForUpdate ==
    /\ proc = "up" /\ loop = "done"
    /\ Ends
    /\ UNCHANGED crashes

Updates ==
    \/ Start \/ ApplyFirst \/ ApplySecond \/ ApplyFails
    \/ FetchMan \/ FetchSig \/ FetchFile \/ FetchFails
    \/ StageOpen \/ StageFill
    \/ \E p \in Parts : Publish(p)
=============================================================================
