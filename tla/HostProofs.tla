----------------------------- MODULE HostProofs -----------------------------
(***************************************************************************)
(* What is proved about the module Host for every number of agents, files, *)
(* releases, crashes and faults.                                           *)
(***************************************************************************)
EXTENDS HostProps, NatFacts, FiniteSetTheorems

\* What a program that is not whole needs to get into place: a staged file
\* that was cut short, or a rename that has lost its partner.
Staging ==
    /\ staged \in Releases \cup {Missing}
          \/ hurt \/ (proc = "up" /\ loop \in {"fill"})
    /\ proc # "up" => loop = "sleep"
    /\ proc = "apply" => exe \in Releases
    /\ proc = "mid" => old \in Releases /\ staged # Missing

UpdateInv == UpdateTypeOK /\ Staging /\ ExeWhole

LEMMA UpdateStarts == Init => UpdateInv
<1> SUFFICES ASSUME Init PROVE UpdateInv
  OBVIOUS
<1>1. PICK load \in Loads :
        /\ UpdateInit(Newest - load.releases)
        /\ crashes = MaxCrashes - load.crashes
        /\ faults = MaxFaults - load.faults
  BY DEF Init
<1>2. /\ load.releases \in 0 .. Newest - 1
      /\ load.crashes \in 0 .. MaxCrashes
      /\ load.faults \in 0 .. MaxFaults
  BY HostConstants
<1>3. Newest - load.releases \in Releases
  BY <1>2, UpdateConstants DEF Releases
<1>4. crashes \in 0 .. MaxCrashes /\ faults \in 0 .. MaxFaults
  BY <1>1, <1>2, UpdateConstants
<1> QED
  BY <1>1, <1>3, <1>4
  DEF UpdateInit, UpdateInv, UpdateTypeOK, Staging, ExeWhole, Images, Parts

\* The update's own steps keep the invariant, and so does what ends it.
LEMMA UpdateSteps ==
    UpdateInv /\ (Updates \/ Crash \/ ExitForUpdate) => UpdateInv'
<1> SUFFICES ASSUME UpdateInv, Updates \/ Crash \/ ExitForUpdate
             PROVE  UpdateInv'
  OBVIOUS
<1> USE UpdateConstants
    DEF UpdateInv, UpdateTypeOK, Staging, ExeWhole, Images, Releases, program,
        Faulty
<1>1. CASE Start
  BY <1>1 DEF Start
<1>2. CASE ApplyFirst
  BY <1>2 DEF ApplyFirst
<1>3. CASE ApplySecond
  BY <1>3 DEF ApplySecond
<1>4. CASE ApplyFails
  <2>1. UpdateTypeOK'
    <3>1. hurt' \in BOOLEAN
      BY <1>4, Zenon DEF ApplyFails
    <3> QED
      BY <1>4, <3>1 DEF ApplyFails
  <2>2. Staging' /\ ExeWhole'
    BY <1>4 DEF ApplyFails
  <2> QED
    BY <2>1, <2>2
<1>5. CASE FetchMan
  BY <1>5 DEF FetchMan, Parts
<1>6. CASE FetchSig
  BY <1>6 DEF FetchSig
<1>7. CASE FetchFile
  BY <1>7 DEF FetchFile
<1>8. CASE FetchFails
  BY <1>8 DEF FetchFails
<1>9. CASE StageOpen
  BY <1>9 DEF StageOpen
<1>10. CASE StageFill
  <2>1. UpdateTypeOK'
    <3>1. hurt' \in BOOLEAN
      BY <1>10, Zenon DEF StageFill
    <3> QED
      BY <1>10, <3>1 DEF StageFill
  <2>2. hurt' \/ (exe \in Releases /\ staged' \in Releases)
    BY <1>10 DEF StageFill
  <2> QED
    BY <1>10, <2>1, <2>2 DEF StageFill
<1>11. ASSUME NEW p \in Parts, Publish(p) PROVE UpdateInv'
  BY <1>11 DEF Publish
<1>12. CASE Crash
  <2>1. hurt' \in BOOLEAN /\ (hurt \/ proc = "mid" \/ loop = "fill" => hurt')
    BY <1>12, Zenon DEF Crash, Ends
  <2> QED
    BY <1>12, <2>1 DEF Crash, Ends
<1>13. CASE ExitForUpdate
  BY <1>13 DEF ExitForUpdate, Ends
<1> QED
  BY <1>1, <1>2, <1>3, <1>4, <1>5, <1>6, <1>7, <1>8, <1>9, <1>10, <1>11,
     <1>12, <1>13
  DEF Updates

LEMMA UpdateStutters == UpdateInv /\ UNCHANGED updateVars => UpdateInv'
BY DEF updateVars, UpdateInv, UpdateTypeOK, Staging, ExeWhole, Releases, Images

\* The program's file is whole at every moment but between the two renames of
\* ApplyStagedUpdate, unless a crash or a fault hit it or the staged file,
\* whatever the requests that the process executes meanwhile.
THEOREM ExeWholeEver == Spec => []ExeWhole
<1>1. UpdateInv /\ [Next]_vars => UpdateInv'
  BY UpdateSteps, UpdateStutters
  DEF Next, vars, Serves, ServiceEnds, DesktopEnds
<1>2. UpdateInv => ExeWhole
  BY DEF UpdateInv
<1> QED
  BY UpdateStarts, <1>1, <1>2, PTL DEF Spec

-----------------------------------------------------------------------------
(* A file is written as a whole. *)

Fields == {"op", "at", "data", "fd", "stat", "put", "still", "ok", "error",
           "cut", "hits", "tree"}

Shaped ==
    /\ inode \in [Inodes -> Contents]
    /\ path \in Inodes \cup {None} /\ tmp \in Inodes \cup {None}
    /\ crossed \in SUBSET Inodes
    /\ DOMAIN job = Agents
    /\ \A a \in Agents : DOMAIN job[a] = Fields

Writes(a) == job[a].at \in {"fill", "rename"}

\* A writer that was alone from its open to its rename owns the temporary
\* name; what the name stands for is not another's unless both are crossed.
Owns(a) ==
    /\ job[a].fd \in Inodes
    /\ job[a].fd \notin crossed => tmp = job[a].fd
    /\ tmp # None /\ tmp \notin crossed =>
          /\ job[a].fd = tmp
          /\ \A b \in Agents : Writes(b) => b = a

\* What it has written, and what it has answered.
Keeps(a) ==
    /\ job[a].at \in {"open", "fill", "rename"} =>
          job[a].data \in Versions \cup {Torn}
    /\ job[a].at = "fill" /\ job[a].fd \notin crossed =>
          inode[job[a].fd] = Empty
    /\ job[a].at = "rename" /\ job[a].fd \notin crossed =>
          inode[job[a].fd] = job[a].data /\ job[a].data \in Versions
    /\ job[a].at \in {"readStat", "readLoad"} => job[a].op = "read"
    /\ job[a].at = "run" => job[a].op = "exec"

Answered(a) ==
    job[a].ok /\ job[a].op \in {"write", "edit"} =>
        /\ job[a].at = "answered"
        /\ job[a].fd \in Inodes /\ job[a].fd # tmp
        /\ job[a].fd \notin crossed => job[a].put = job[a].data

PathKept ==
    /\ path # None /\ path \notin crossed => inode[path] \in Versions
    /\ tmp # None => tmp # path

WriteInv ==
    /\ Shaped /\ PathKept
    /\ \A a \in Agents : /\ Writes(a) => Owns(a)
                         /\ Keeps(a) /\ Answered(a)

LEMMA WritesStart == Init => WriteInv
<1> SUFFICES ASSUME Init PROVE WriteInv
  OBVIOUS
<1>1. RequestsInit
  BY DEF Init
<1> DEFINE i == CHOOSE j \in Inodes : TRUE
<1>2. /\ i \in Inodes
      /\ path \in {i, None}
      /\ \E v \in Versions : inode =
           [j \in Inodes |-> IF j = i THEN v ELSE Empty]
  <2>1. i \in Inodes
    BY RequestsConstants
  <2> QED
    BY <1>1, <2>1 DEF RequestsInit
<1> HIDE DEF i
<1>3. Shaped /\ PathKept
  BY <1>1, <1>2, RequestsConstants
  DEF RequestsInit, Shaped, PathKept, Contents, NoJob, Fields
<1>4. ASSUME NEW a \in Agents PROVE ~Writes(a) /\ Keeps(a) /\ Answered(a)
  BY <1>1 DEF RequestsInit, NoJob, Writes, Keeps, Answered
<1> QED
  BY <1>3, <1>4 DEF WriteInv

\* A step that leaves the files alone and moves one agent.
JobStep(a) ==
    /\ UNCHANGED files
    /\ DOMAIN job' = Agents /\ DOMAIN job'[a] = Fields
    /\ \A b \in Agents \ {a} : job'[b] = job[b]
    /\ job'[a].at \notin {"fill", "rename"}
    /\ job'[a].at = "open" => job'[a].data \in Versions \cup {Torn}
    /\ job'[a].at \in {"readStat", "readLoad"} => job'[a].op = "read"
    /\ job'[a].at = "run" => job'[a].op = "exec"
    /\ job'[a].ok => job'[a].op \notin {"write", "edit"}

LEMMA JobKeeps ==
    ASSUME WriteInv, NEW a \in Agents, JobStep(a)
    PROVE  WriteInv'
<1> USE DEF JobStep
<1>2. Shaped'
  BY DEF WriteInv, Shaped, files
<1>3. PathKept'
  BY DEF WriteInv, PathKept, files
<1>4. ASSUME NEW b \in Agents
      PROVE  (Writes(b) => Owns(b))' /\ Keeps(b)' /\ Answered(b)'
  <2>1. CASE b = a
    BY <2>1 DEF Writes, Keeps, Answered
  <2>2. CASE b # a
    <3>1. (Writes(b) => Owns(b))'
      BY <2>2 DEF WriteInv, Writes, Owns, files
    <3>2. Keeps(b)' /\ Answered(b)'
      BY <2>2 DEF WriteInv, Keeps, Answered, files
    <3> QED
      BY <3>1, <3>2
  <2> QED
    BY <2>1, <2>2
<1> QED
  BY <1>2, <1>3, <1>4 DEF WriteInv

LEMMA RequestKeeps ==
    ASSUME WriteInv, NEW a \in Agents, Request(a)
    PROVE  WriteInv'
<1>1. JobStep(a)
  <2> USE DEF JobStep, WriteInv, Shaped, NoJob, Fields
  <2>1. CASE \E v \in Versions : Begin(a, "write", "open", v)
    BY <2>1 DEF Begin
  <2>2. CASE Begin(a, "edit", "editStat", None)
    BY <2>2 DEF Begin
  <2>3. CASE Begin(a, "read", "readStat", None)
    BY <2>3 DEF Begin
  <2>4. CASE Exec(a)
    BY <2>4 DEF Exec
  <2>5. CASE \E op \in {"grep", "glob"}, t \in Trees : Search(a, op, t)
    BY <2>5 DEF Search
  <2> QED
    BY <2>1, <2>2, <2>3, <2>4, <2>5 DEF Request
<1> QED
  BY <1>1, JobKeeps

LEMMA GoneKeeps ==
    ASSUME WriteInv, NEW a \in Agents, Gone(a)
    PROVE  WriteInv'
<1>1. JobStep(a)
  BY DEF Gone, JobStep, WriteInv, Shaped, NoJob, Fields
<1> QED
  BY <1>1, JobKeeps

\* A step of reading, editing up to the write, or running a command.
Reads(a) ==
    \/ EditStat(a)
    \/ \E v \in Versions : EditLoad(a, v)
    \/ ReadStat(a) \/ ReadLoad(a)
    \/ ExecAnswers(a)

LEMMA ReadsKeep ==
    ASSUME WriteInv, NEW a \in Agents, Reads(a)
    PROVE  WriteInv'
<1>1. JobStep(a)
  <2> USE DEF JobStep, WriteInv, Shaped, Fields, Keeps, Answered, At, Fails,
              Goto
  <2>1. CASE EditStat(a)
    BY <2>1 DEF EditStat
  <2>2. ASSUME NEW v \in Versions, EditLoad(a, v) PROVE JobStep(a)
    BY <2>2 DEF EditLoad
  <2>3. CASE ReadStat(a)
    BY <2>3 DEF ReadStat
  <2>4. CASE ReadLoad(a)
    BY <2>4 DEF ReadLoad
  <2>5. CASE ExecAnswers(a)
    BY <2>5 DEF ExecAnswers
  <2> QED
    BY <2>1, <2>2, <2>3, <2>4, <2>5 DEF Reads
<1> QED
  BY <1>1, JobKeeps

LEMMA FreshIsUnused == ASSUME Unused # {} PROVE Fresh \in Unused
BY DEF Fresh

LEMMA OpenKeeps ==
    ASSUME WriteInv, NEW a \in Agents, OpenTmp(a)
    PROVE  WriteInv'
<1>1. CASE Fails(a) /\ UNCHANGED files
  <2>1. JobStep(a)
    BY <1>1 DEF OpenTmp, At, Fails, JobStep, WriteInv, Shaped, Fields, Answered
  <2> QED
    BY <2>1, JobKeeps
<1>2. ASSUME NEW i \in Inodes,
             i = tmp \/ (tmp = None /\ i \in Unused),
             tmp' = i,
             inode' = [inode EXCEPT ![i] = Empty],
             job' = [job EXCEPT ![a].at = "fill", ![a].fd = i],
             crossed' = IF Writing # {} THEN crossed \cup {i}
                        ELSE crossed \ {i},
             path' = path
      PROVE  WriteInv'
  <2> USE <1>2
  <2>1. /\ job'[a].at = "fill" /\ job'[a].fd = i
        /\ job'[a].data = job[a].data /\ job'[a].op = job[a].op
        /\ job'[a].ok = job[a].ok
        /\ \A b \in Agents \ {a} : job'[b] = job[b]
        /\ DOMAIN job' = Agents
        /\ \A b \in Agents : DOMAIN job'[b] = Fields
    BY DEF WriteInv, Shaped, Fields
  <2>2. i # path /\ i # None
    BY RequestsConstants DEF WriteInv, PathKept, Unused
  <2>3. Shaped'
    BY <2>1 DEF WriteInv, Shaped, Contents
  <2>4. PathKept'
    BY <2>2 DEF WriteInv, PathKept, Shaped
  <2>5. At(a, "open")
    BY DEF OpenTmp
  <2>6. ASSUME NEW b \in Agents, Writes(b)' PROVE Owns(b)'
    <3>1. CASE Writing = {}
      <4>1. b = a
        BY <2>1, <2>6, <3>1 DEF Writing, Writes
      <4>2. \A c \in Agents : Writes(c)' => c = a
        BY <2>1, <3>1 DEF Writing, Writes
      <4> QED
        BY <2>1, <4>1, <4>2 DEF Owns
    <3>2. CASE Writing # {}
      <4>1. i \in crossed' /\ tmp' \in crossed'
        BY <3>2
      <4>2. CASE b = a
        BY <2>1, <4>1, <4>2 DEF Owns
      <4>3. CASE b # a
        <5>1. job[b].fd \in Inodes
                /\ (job[b].fd \notin crossed => tmp = job[b].fd)
          BY <2>1, <2>6, <4>3 DEF WriteInv, Writes, Owns
        <5>2. job[b].fd \notin crossed' => tmp' = job[b].fd
          BY <2>2, <3>2, <5>1, RequestsConstants
        <5> QED
          BY <2>1, <4>1, <4>3, <5>1, <5>2 DEF Owns
      <4> QED
        BY <4>2, <4>3
    <3> QED
      BY <3>1, <3>2
  <2>7. ASSUME NEW b \in Agents PROVE Keeps(b)'
    <3>1. CASE b = a
      BY <2>1, <2>5, <3>1 DEF WriteInv, Shaped, Keeps, At
    <3>2. CASE b # a
      <4>1. CASE Writes(b)
        <5>1. Writing # {}
          BY <4>1 DEF Writing, Writes
        <5>2. job[b].fd \notin crossed' =>
                  job[b].fd # i /\ job[b].fd \notin crossed
          BY <5>1
        <5> QED
          BY <2>1, <3>2, <4>1, <5>2
          DEF WriteInv, Shaped, Owns, Keeps, Writes
      <4>2. CASE ~Writes(b)
        BY <2>1, <3>2, <4>2 DEF WriteInv, Keeps, Writes
      <4> QED
        BY <4>1, <4>2
    <3> QED
      BY <3>1, <3>2
  <2>8. ASSUME NEW b \in Agents PROVE Answered(b)'
    <3>1. CASE b = a
      BY <2>1, <2>5, <3>1 DEF WriteInv, Answered, At
    <3>2. CASE b # a
      <4>1. job[b].fd # tmp => job[b].fd # i
        BY DEF Unused
      <4> QED
        BY <2>1, <3>2, <4>1 DEF WriteInv, Answered
    <3> QED
      BY <3>1, <3>2
  <2> QED
    BY <2>3, <2>4, <2>6, <2>7, <2>8 DEF WriteInv
<1> QED
  <2> DEFINE i == IF tmp # None THEN tmp ELSE Fresh
  <2>1. CASE Fails(a) /\ UNCHANGED files
    BY <2>1, <1>1
  <2>2. CASE ~(Fails(a) /\ UNCHANGED files)
    <3>1. /\ tmp # None \/ Unused # {}
          /\ tmp' = i
          /\ inode' = [inode EXCEPT ![i] = Empty]
          /\ job' = [job EXCEPT ![a].at = "fill", ![a].fd = i]
          /\ crossed' = IF Writing # {} THEN crossed \cup {i}
                        ELSE crossed \ {i}
          /\ path' = path
      BY <2>2 DEF OpenTmp
    <3>2. (tmp # None /\ i = tmp) \/ (tmp = None /\ i \in Unused)
      BY <3>1, FreshIsUnused
    <3> HIDE DEF i
    <3>3. i \in Inodes
      BY <3>2 DEF WriteInv, Shaped, Unused
    <3> QED
      BY <1>2, <3>1, <3>2, <3>3
  <2> QED
    BY <2>1, <2>2

\* A step after which the requests of the agents differ only in whether the
\* file stayed the same.
Alike(j1, j2) ==
    /\ DOMAIN j2 = Agents
    /\ \A b \in Agents :
          /\ DOMAIN j2[b] = Fields
          /\ j2[b].op = j1[b].op /\ j2[b].at = j1[b].at
          /\ j2[b].data = j1[b].data /\ j2[b].fd = j1[b].fd
          /\ j2[b].put = j1[b].put /\ j2[b].ok = j1[b].ok

LEMMA ReplacedAlike ==
    ASSUME NEW j1, DOMAIN j1 = Agents, \A b \in Agents : DOMAIN j1[b] = Fields,
           NEW a
    PROVE  Alike(j1, Replaced(j1, a))
BY DEF Alike, Replaced, Fields

LEMMA LocalSaveKeeps ==
    ASSUME WriteInv, NEW v \in Versions, LocalSave(v)
    PROVE  WriteInv'
<1> DEFINE i == Fresh
<1>1. i \in Unused
  BY FreshIsUnused DEF LocalSave
<1>2. /\ path' = i /\ tmp' = tmp
      /\ inode' = [inode EXCEPT ![i] = v]
      /\ crossed' = crossed \ {i}
      /\ job' = Replaced(job, None)
  BY DEF LocalSave
<1> HIDE DEF i
<1>3. /\ i \in Inodes /\ i # path /\ i # tmp
      /\ \A a \in Agents : i # job[a].fd
  BY <1>1 DEF Unused
<1>4. Alike(job, job')
  BY <1>2, ReplacedAlike DEF WriteInv, Shaped
<1>5. Shaped'
  BY <1>2, <1>3, <1>4 DEF WriteInv, Shaped, Alike, Contents
<1>6. PathKept'
  BY <1>2, <1>3 DEF WriteInv, PathKept, Shaped
<1>7. ASSUME NEW a \in Agents
      PROVE  (Writes(a) => Owns(a))' /\ Keeps(a)' /\ Answered(a)'
  <2>1. (Writes(a) => Owns(a))'
    BY <1>2, <1>3, <1>4 DEF WriteInv, Writes, Owns, Alike
  <2>2. Keeps(a)'
    BY <1>2, <1>3, <1>4 DEF WriteInv, Shaped, Keeps, Alike
  <2>3. Answered(a)'
    BY <1>2, <1>3, <1>4 DEF WriteInv, Answered, Alike
  <2> QED
    BY <2>1, <2>2, <2>3
<1> QED
  BY <1>5, <1>6, <1>7 DEF WriteInv

LEMMA RenameKeeps ==
    ASSUME WriteInv, NEW a \in Agents, Rename(a)
    PROVE  WriteInv'
<1>1. CASE Fails(a) /\ UNCHANGED <<path, tmp>>
  <2>1. JobStep(a)
    BY <1>1
    DEF Rename, At, Fails, JobStep, WriteInv, Shaped, Fields, Answered, files
  <2> QED
    BY <2>1, JobKeeps
<1>2. CASE /\ tmp # None
           /\ path' = tmp /\ tmp' = None
           /\ job' = Replaced([job EXCEPT ![a].at = "answered",
                                          ![a].ok = TRUE,
                                          ![a].put = inode[tmp]], a)
  <2> DEFINE j == [job EXCEPT ![a].at = "answered", ![a].ok = TRUE,
                              ![a].put = inode[tmp]]
  <2>1. /\ DOMAIN j = Agents /\ \A b \in Agents : DOMAIN j[b] = Fields
        /\ j[a].at = "answered" /\ j[a].ok = TRUE /\ j[a].put = inode[tmp]
        /\ j[a].op = job[a].op /\ j[a].fd = job[a].fd
        /\ j[a].data = job[a].data
        /\ \A b \in Agents \ {a} : j[b] = job[b]
    BY DEF WriteInv, Shaped, Fields
  <2>2. Alike(j, job')
    BY <1>2, <2>1, ReplacedAlike
  <2> HIDE DEF j
  <2>3. inode' = inode /\ crossed' = crossed /\ path' = tmp /\ tmp' = None
    BY <1>2 DEF Rename
  <2>4. At(a, "rename") /\ Writes(a) /\ Owns(a) /\ Keeps(a)
    BY DEF Rename, At, WriteInv, Writes
  <2>5. tmp \in Inodes /\ None \notin Inodes
    BY <1>2, RequestsConstants DEF WriteInv, Shaped
  <2>6. Shaped'
    BY <2>2, <2>3, <2>5 DEF WriteInv, Shaped, Alike
  <2>7. PathKept'
    BY <1>2, <2>3, <2>4 DEF PathKept, Owns, Keeps, At
  <2>8. ASSUME NEW b \in Agents, b # a
        PROVE  (Writes(b) => Owns(b))' /\ Keeps(b)' /\ Answered(b)'
    <3>1. ASSUME Writes(b)' PROVE job[b].fd \in crossed
      <4>1. job'[b].at = job[b].at
        BY <2>1, <2>2, <2>8 DEF Alike
      <4>2. Writes(b)
        BY <3>1, <4>1 DEF Writes
      <4>3. tmp \in crossed
        BY <1>2, <2>4, <2>8, <4>2 DEF Owns
      <4>4. Owns(b)
        BY <4>2 DEF WriteInv
      <4> QED
        BY <4>3, <4>4 DEF Owns
    <3>2. (Writes(b) => Owns(b))'
      BY <2>1, <2>2, <2>3, <2>8, <3>1 DEF WriteInv, Writes, Owns, Alike
    <3>3. Keeps(b)'
      BY <2>1, <2>2, <2>3, <2>8 DEF WriteInv, Keeps, Alike
    <3>4. Answered(b)'
      BY <2>1, <2>2, <2>3, <2>5, <2>8 DEF WriteInv, Answered, Alike
    <3> QED
      BY <3>2, <3>3, <3>4
  <2>9. (Writes(a) => Owns(a))' /\ Keeps(a)' /\ Answered(a)'
    <3>1. ~Writes(a)' /\ Keeps(a)'
      BY <2>1, <2>2 DEF Writes, Keeps, Alike
    <3>2. job[a].fd \notin crossed => inode[tmp] = job[a].data
      BY <2>4 DEF Owns, Keeps, At
    <3>3. Answered(a)'
      BY <2>1, <2>2, <2>3, <2>4, <2>5, <3>2 DEF Answered, Owns, Alike
    <3> QED
      BY <3>1, <3>3
  <2> QED
    BY <2>6, <2>7, <2>8, <2>9 DEF WriteInv
<1> QED
  BY <1>1, <1>2 DEF Rename

LEMMA FilledAlike ==
    ASSUME NEW j1, DOMAIN j1 = Agents, \A b \in Agents : DOMAIN j1[b] = Fields,
           NEW a \in Agents
    PROVE  Alike(j1, Filled(a, j1))
<1>1. Alike(j1, j1)
  BY DEF Alike
<1> QED
  BY <1>1, ReplacedAlike DEF Filled

LEMMA FillKeeps ==
    ASSUME WriteInv, NEW a \in Agents, Fill(a)
    PROVE  WriteInv'
<1> DEFINE i == job[a].fd
<1>1. At(a, "fill") /\ Writes(a) /\ Owns(a) /\ Keeps(a) /\ Answered(a)
  BY DEF Fill, At, WriteInv, Writes
<1>2. /\ i \in Inodes /\ path' = path /\ tmp' = tmp
      /\ crossed' = IF job[a].data = Torn THEN crossed \cup {i} ELSE crossed
  BY <1>1 DEF Fill, Owns
<1>3. \* While i is not crossed it is the temporary file of a alone.
      i \notin crossed =>
          /\ i = tmp /\ i # path
          /\ \A b \in Agents : Writes(b) => b = a
  BY <1>1, <1>2, RequestsConstants DEF Owns, WriteInv, PathKept
<1>4. \E c \in Contents, j \in {[job EXCEPT ![a].at = "rename"],
                               [job EXCEPT ![a].at = "answered",
                                           ![a].fd = None,
                                           ![a].error = "failed"]} :
         /\ inode' = [inode EXCEPT ![i] = c]
         /\ job' = Filled(a, j)
         /\ j[a].at = "rename" /\ i \notin crossed => c = job[a].data
  <2>1. job[a].data \in Contents
    BY <1>1 DEF Keeps, At, Contents
  <2>2. i \notin crossed => inode[i] = Empty
    BY <1>1 DEF Keeps, At
  <2>3. [job EXCEPT ![a].at = "answered", ![a].fd = None,
                    ![a].error = "failed"][a].at # "rename"
    BY DEF WriteInv, Shaped, Fields
  <2> QED
    BY <2>1, <2>2, <2>3 DEF Fill, Contents
<1>5. PICK c \in Contents, j \in {[job EXCEPT ![a].at = "rename"],
                               [job EXCEPT ![a].at = "answered",
                                           ![a].fd = None,
                                           ![a].error = "failed"]} :
         /\ inode' = [inode EXCEPT ![i] = c]
         /\ job' = Filled(a, j)
         /\ j[a].at = "rename" /\ i \notin crossed => c = job[a].data
  BY <1>4
<1>6. /\ DOMAIN j = Agents /\ \A b \in Agents : DOMAIN j[b] = Fields
      /\ j[a].data = job[a].data /\ j[a].op = job[a].op
      /\ j[a].ok = job[a].ok
      /\ \/ j[a].at = "rename" /\ j[a].fd = i
         \/ j[a].at = "answered"
      /\ \A b \in Agents \ {a} : j[b] = job[b]
  BY DEF WriteInv, Shaped, Fields
<1>7. Alike(j, job')
  BY <1>5, <1>6, FilledAlike
<1> HIDE DEF i
<1>8. Shaped'
  BY <1>2, <1>5, <1>7 DEF WriteInv, Shaped, Alike
<1>9. PathKept'
  BY <1>2, <1>3, <1>5 DEF WriteInv, Shaped, PathKept
<1>10. ASSUME NEW b \in Agents, b # a
       PROVE  (Writes(b) => Owns(b))' /\ Keeps(b)' /\ Answered(b)'
  <2>1. Writes(b)' => Writes(b) /\ i \in crossed
    BY <1>3, <1>6, <1>7, <1>10 DEF Writes, Alike
  <2>2. (Writes(b) => Owns(b))'
    BY <1>1, <1>2, <1>3, <1>6, <1>7, <1>10, <2>1
    DEF WriteInv, Owns, Writes, Alike
  <2>3. Keeps(b)'
    BY <1>2, <1>5, <1>6, <1>7, <1>10, <2>1
    DEF WriteInv, Shaped, Keeps, Writes, Alike
  <2>4. Answered(b)'
    BY <1>2, <1>6, <1>7, <1>10 DEF WriteInv, Answered, Alike
  <2> QED
    BY <2>2, <2>3, <2>4
<1>11. (Writes(a) => Owns(a))' /\ Keeps(a)' /\ Answered(a)'
  <2>1. (Writes(a) => Owns(a))'
    <3> SUFFICES ASSUME Writes(a)' PROVE Owns(a)'
      OBVIOUS
    <3>1. job'[a].fd = i
      BY <1>6, <1>7 DEF Writes, Alike
    <3>2. \A b \in Agents : Writes(b)' => Writes(b)
      BY <1>1, <1>6, <1>7 DEF Writes, Alike
    <3> QED
      BY <1>1, <1>2, <3>1, <3>2 DEF Owns, i
  <2>2. Keeps(a)'
    <3>1. job[a].data \in Versions \cup {Torn}
      BY <1>1 DEF Keeps, At
    <3> QED
      BY <1>2, <1>5, <1>6, <1>7, <3>1 DEF WriteInv, Shaped, Keeps, Alike
  <2>3. Answered(a)'
    BY <1>1, <1>6, <1>7 DEF Answered, Alike, At
  <2> QED
    BY <2>1, <2>2, <2>3
<1> QED
  BY <1>8, <1>9, <1>10, <1>11 DEF WriteInv

\* A step of the command alone.
LEMMA CommandKeeps ==
    ASSUME WriteInv, UNCHANGED <<files, job>>
    PROVE  WriteInv'
BY DEF WriteInv, Shaped, PathKept, Writes, Owns, Keeps, Answered, files

LEMMA ServesKeeps ==
    ASSUME WriteInv, Serves
    PROVE  WriteInv'
<1>1. ASSUME NEW v \in Versions, LocalSave(v) PROVE WriteInv'
  BY <1>1, LocalSaveKeeps
<1>2. ASSUME NEW a \in Agents, Request(a) PROVE WriteInv'
  BY <1>2, RequestKeeps
<1>3. ASSUME NEW a \in Agents, Works(a) PROVE WriteInv'
  <2>1. CASE OpenTmp(a)
    BY <2>1, OpenKeeps
  <2>2. CASE Fill(a)
    BY <2>2, FillKeeps
  <2>3. CASE Rename(a)
    BY <2>3, RenameKeeps
  <2>4. CASE Reads(a)
    BY <2>4, ReadsKeep
  <2>5. CASE \/ Deadline(a) \/ WaitDelay(a)
             \/ \E held \in BOOLEAN : Kill(a, held)
    BY <2>5, CommandKeeps DEF Deadline, WaitDelay, Kill
  <2> QED
    BY <1>3, <2>1, <2>2, <2>3, <2>4, <2>5 DEF Works, Reads
<1>4. ASSUME NEW a \in Agents, Machine(a) PROVE WriteInv'
  BY <1>4, CommandKeeps DEF Machine, Emits, CommandEnds
<1> QED
  BY <1>1, <1>2, <1>3, <1>4 DEF Serves

LEMMA NextKeeps == WriteInv /\ [Next]_vars => WriteInv'
<1> SUFFICES ASSUME WriteInv, [Next]_vars PROVE WriteInv'
  OBVIOUS
<1>1. CASE Serves
  BY <1>1, ServesKeeps
<1>2. CASE UNCHANGED requestVars
  BY <1>2, CommandKeeps DEF requestVars
<1>3. CASE ServiceEnds
  BY <1>3, GoneKeeps, HostConstants DEF ServiceEnds
<1>4. CASE DesktopEnds
  BY <1>4, GoneKeeps DEF DesktopEnds
<1> QED
  BY <1>1, <1>2, <1>3, <1>4 DEF Next, vars

\* Whoever writes the file and however it is cut short, the file is a version
\* that somebody wrote, and a confirmed write has put its own there, unless
\* two agents wrote it at once: the temporary name belongs to one writer.
THEOREM PathWholeEver == Spec => []PathWhole
<1>1. WriteInv => PathWhole
  BY DEF WriteInv, PathKept, Answered, PathWhole
<1> QED
  BY WritesStart, NextKeeps, <1>1, PTL DEF Spec

-----------------------------------------------------------------------------
(* What a command is answered with. *)

\* A command that was killed is over its time, and nobody touches it between
\* its answer and the next request.
Judged(a) ==
    /\ job[a].op = "exec" => job[a].at \in {"run", "answered"}
    /\ job[a].at = "run" /\ cmd[a].proc = "killed" => cmd[a].due
    /\ job[a].op = "exec" /\ job[a].at = "answered" =>
          /\ job[a].ok => cmd[a].proc = "good"
          /\ cmd[a].proc = "killed" => job[a].error = "timeout"

CmdFields == {"proc", "held", "due", "late", "out", "kept", "cut"}

ExecInv ==
    /\ DOMAIN job = Agents /\ DOMAIN cmd = Agents
    /\ \A a \in Agents : /\ DOMAIN job[a] = Fields
                         /\ DOMAIN cmd[a] = CmdFields
                         /\ Judged(a)

LEMMA ExecStarts == Init => ExecInv
BY DEF Init, RequestsInit, NoJob, NoCmd, ExecInv, Judged, Fields, CmdFields

\* What a step leaves of the other agents.
Untouched(b) ==
    /\ DOMAIN job'[b] = Fields
    /\ job'[b].op = job[b].op /\ job'[b].at = job[b].at
    /\ job'[b].ok = job[b].ok /\ job'[b].error = job[b].error
    /\ cmd'[b] = cmd[b]

LEMMA ExecMoves ==
    ASSUME ExecInv, NEW a \in Agents,
           DOMAIN job' = Agents, DOMAIN cmd' = Agents,
           DOMAIN job'[a] = Fields, DOMAIN cmd'[a] = CmdFields,
           Judged(a)',
           \A b \in Agents \ {a} : Untouched(b)
    PROVE  ExecInv'
BY DEF ExecInv, Judged, Untouched

\* The steps of a file leave the commands alone.
LEMMA ExecFiles ==
    ASSUME ExecInv, NEW a \in Agents,
           OpenTmp(a) \/ Fill(a) \/ Rename(a)
    PROVE  ExecInv'
<1>1. job[a].at \in {"open", "fill", "rename"} /\ cmd' = cmd
  BY DEF OpenTmp, Fill, Rename, At
<1>2. job[a].op # "exec"
  BY <1>1 DEF ExecInv, Judged
<1>3. /\ DOMAIN job' = Agents /\ \A b \in Agents : DOMAIN job'[b] = Fields
      /\ job'[a].op = job[a].op
      /\ job'[a].at \in {"open", "fill", "rename", "answered"}
      /\ \A b \in Agents \ {a} : Untouched(b)
  <2> USE <1>1 DEF ExecInv, Fields, Untouched, Fails, Replaced
  <2>1. CASE OpenTmp(a)
    BY <2>1 DEF OpenTmp
  <2>2. CASE Fill(a)
    BY <2>2 DEF Fill, Filled
  <2>3. CASE Rename(a)
    BY <2>3 DEF Rename
  <2> QED
    BY <2>1, <2>2, <2>3
<1>4. Judged(a)'
  BY <1>2, <1>3 DEF Judged
<1> QED
  BY <1>1, <1>3, <1>4, ExecMoves DEF ExecInv

LEMMA ExecRequests ==
    ASSUME ExecInv, NEW a \in Agents,
           Request(a) \/ EditStat(a) \/ (\E v \in Versions : EditLoad(a, v))
             \/ ReadStat(a) \/ ReadLoad(a) \/ Gone(a)
    PROVE  ExecInv'
<1> USE DEF ExecInv, Judged, Untouched, Fields, CmdFields, NoJob, NoCmd, At,
            Fails, Goto
<1>1. ASSUME NEW op \in {"write", "edit", "read"}, NEW place, NEW data,
             Begin(a, op, place, data),
             place \in {"open", "editStat", "readStat"}
      PROVE  ExecInv'
  BY <1>1, ExecMoves DEF Begin
<1>2. CASE Exec(a)
  BY <1>2, ExecMoves DEF Exec
<1>3. ASSUME NEW op \in {"grep", "glob"}, NEW t \in Trees, Search(a, op, t)
      PROVE  ExecInv'
  BY <1>3, ExecMoves DEF Search
<1>4. CASE EditStat(a)
  BY <1>4, ExecMoves DEF EditStat
<1>5. ASSUME NEW v \in Versions, EditLoad(a, v) PROVE ExecInv'
  BY <1>5, ExecMoves DEF EditLoad
<1>6. CASE ReadStat(a)
  BY <1>6, ExecMoves DEF ReadStat
<1>7. CASE ReadLoad(a)
  BY <1>7, ExecMoves DEF ReadLoad
<1>8. CASE Gone(a)
  BY <1>8, ExecMoves DEF Gone
<1> QED
  BY <1>1, <1>2, <1>3, <1>4, <1>5, <1>6, <1>7, <1>8 DEF Request

\* The command's own steps, its timers and the answer.
LEMMA ExecCommand ==
    ASSUME ExecInv, NEW a \in Agents,
           Machine(a) \/ Deadline(a) \/ WaitDelay(a) \/ ExecAnswers(a)
             \/ (\E held \in BOOLEAN : Kill(a, held))
    PROVE  ExecInv'
<1> USE DEF ExecInv, Judged, Untouched, Fields, CmdFields, At
<1>1. CASE Emits(a)
  BY <1>1, ExecMoves DEF Emits
<1>2. ASSUME NEW how \in {"good", "bad"}, NEW held \in BOOLEAN,
             CommandEnds(a, how, held)
      PROVE  ExecInv'
  BY <1>2, ExecMoves DEF CommandEnds
<1>3. CASE Deadline(a)
  BY <1>3, ExecMoves DEF Deadline
<1>4. CASE WaitDelay(a)
  <2>1. /\ job' = job /\ \A b \in Agents \ {a} : cmd'[b] = cmd[b]
        /\ DOMAIN cmd' = Agents /\ DOMAIN cmd'[a] = CmdFields
        /\ cmd'[a].proc = cmd[a].proc /\ cmd'[a].due = cmd[a].due
        /\ job[a].at = "run"
    BY <1>4 DEF WaitDelay
  <2> QED
    BY <2>1, ExecMoves
<1>5. CASE ExecAnswers(a)
  <2> DEFINE o == Outcome(cmd[a])
  <2>1. /\ cmd' = cmd /\ job[a].at = "run"
        /\ DOMAIN job' = Agents /\ DOMAIN job'[a] = Fields
        /\ \A b \in Agents \ {a} : job'[b] = job[b]
        /\ job'[a].at = "answered" /\ job'[a].ok = (o = "ok")
        /\ job'[a].error = IF o \in {"timeout", "failed"} THEN o ELSE "none"
    BY <1>5 DEF ExecAnswers
  <2>2. /\ o = "ok" => cmd[a].proc = "good"
        /\ cmd[a].due => o = "timeout"
    BY DEF Outcome
  <2>3. cmd[a].proc = "killed" => cmd[a].due
    BY <2>1
  <2> HIDE DEF o
  <2>4. Judged(a)'
    BY <2>1, <2>2, <2>3
  <2> QED
    BY <2>1, <2>4, ExecMoves
<1>6. ASSUME NEW held \in BOOLEAN, Kill(a, held) PROVE ExecInv'
  <2>1. /\ job' = job /\ \A b \in Agents \ {a} : cmd'[b] = cmd[b]
        /\ DOMAIN cmd' = Agents /\ DOMAIN cmd'[a] = CmdFields
        /\ cmd'[a].due = cmd[a].due /\ cmd[a].due
        /\ job[a].at = "run"
    BY <1>6 DEF Kill
  <2> QED
    BY <2>1, ExecMoves
<1> QED
  BY <1>1, <1>2, <1>3, <1>4, <1>5, <1>6 DEF Machine

LEMMA ExecKeeps == ExecInv /\ [Next]_vars => ExecInv'
<1> SUFFICES ASSUME ExecInv, [Next]_vars PROVE ExecInv'
  OBVIOUS
<1>1. CASE UNCHANGED requestVars
  BY <1>1 DEF requestVars, ExecInv, Judged
<1>2. ASSUME NEW v \in Versions, LocalSave(v) PROVE ExecInv'
  BY <1>2 DEF LocalSave, Replaced, ExecInv, Judged, Fields
<1>3. ASSUME NEW a \in Agents, Request(a) \/ Works(a) \/ Machine(a) \/ Gone(a)
      PROVE  ExecInv'
  BY <1>3, ExecFiles, ExecRequests, ExecCommand DEF Works
<1> QED
  BY <1>1, <1>2, <1>3, HostConstants
  DEF Next, vars, Serves, ServiceEnds, DesktopEnds

\* A command is answered as done only if it ended well by itself, and one that
\* was killed as timed out, whenever the deadline fell.
THEOREM ExecHonestEver == Spec => []ExecHonest
<1>1. ExecInv => ExecHonest
  BY DEF ExecInv, Judged, ExecHonest
<1> QED
  BY ExecStarts, ExecKeeps, <1>1, PTL DEF Spec

-----------------------------------------------------------------------------
(* What a search finds, by recursion along the tree. *)

HitsStep(t, op, i, n) ==
    IF n >= HitLimit \/ GaveUp(t, op, i) THEN n
    ELSE Least(HitLimit, n + Seen(op, t[i]))

LEMMA SeenCounts ==
  ASSUME NEW t \in Seq(File), NEW op, NEW i \in 1 .. Len(t)
  PROVE  Seen(op, t[i]) \in Nat
<1>1. t[i] \in File
  OBVIOUS
<1> DEFINE e == t[i]
<1>2. e \in File
  BY <1>1
<1> HIDE DEF e
<1>3. e.matches \in Nat
  BY <1>2 DEF File
<1>4. Seen(op, e) \in Nat
  BY <1>3 DEF Seen
<1> QED
  BY <1>4 DEF e

LEMMA HitsRecursion ==
  ASSUME NEW t \in Seq(File), NEW op
  PROVE  \E f \in [0 .. Len(t) -> Nat] :
            /\ Hits(t, op) = f[Len(t)]
            /\ f[0] = 0
            /\ \A i \in 1 .. Len(t) :
                  f[i] = HitsStep(t, op, i, f[i - 1])
<1> DEFINE n == Len(t)
           Body(f) == [i \in 0 .. n |->
              IF i = 0 THEN 0
              ELSE IF f[i - 1] >= HitLimit \/ GaveUp(t, op, i) THEN f[i - 1]
              ELSE Least(HitLimit, f[i - 1] + Seen(op, t[i]))]
           F == CHOOSE f : f = Body(f)
           G == [i \in 1 .. n |->
                   [x \in Nat |-> HitsStep(t, op, i, x)]]
<1>1. /\ n \in Nat /\ HitLimit \in Nat
      /\ \A i \in 1 .. n : Seen(op, t[i]) \in Nat
  BY SeenCounts, RequestsConstants
<1>2. G \in [1 .. n -> [Nat -> Nat]]
  BY <1>1 DEF HitsStep, Least
<1>3. PICK f \in [0 .. n -> Nat] : Follows(f, 0, n, G)
  <2> HIDE DEF G, n, Body, F
  <2>1. n \in Nat /\ 0 \in Nat
    BY <1>1
  <2> QED
    BY <1>2, <2>1, Recursion, Zenon
<1>4. /\ f[0] = 0
      /\ \A i \in 1 .. n : f[i] = HitsStep(t, op, i, f[i - 1])
  <2>1. \A i \in 1 .. n, x \in Nat : G[i][x] = HitsStep(t, op, i, x)
    OBVIOUS
  <2>2. \A i \in 1 .. n : f[i - 1] \in Nat
    BY <1>1
  <2> HIDE DEF F, Body, G
  <2> QED
    BY <1>3, <2>1, <2>2 DEF Follows
<1>5. F = Body(F)
  <2>1. ASSUME NEW i \in 0 .. n PROVE f[i] = Body(f)[i]
    <3> HIDE DEF F, G
    <3>1. Body(f)[i] =
            IF i = 0 THEN 0 ELSE HitsStep(t, op, i, f[i - 1])
      BY DEF HitsStep
    <3> HIDE DEF Body
    <3>2. i # 0 => i \in 1 .. n
      BY <1>1
    <3> QED
      BY <1>4, <3>1, <3>2
  <2>2. f = [i \in 0 .. n |-> f[i]] /\ Body(f) = [i \in 0 .. n |-> Body(f)[i]]
    OBVIOUS
  <2>3. f = Body(f)
    <3> HIDE DEF F, G, Body
    <3> QED
      BY <2>1, <2>2
  <2> HIDE DEF Body
  <2> QED
    BY <2>3
<1>6. Hits(t, op) = F[n]
  BY DEF Hits
<1>7. /\ F[0] = 0
      /\ \A i \in 1 .. n : F[i] = HitsStep(t, op, i, F[i - 1])
  <2> HIDE DEF F
  <2>1. 0 \in 0 .. n /\ \A i \in 1 .. n : i \in 0 .. n /\ i # 0
    BY <1>1
  <2> QED
    BY <1>5, <2>1 DEF HitsStep
<1>8. F \in [0 .. n -> Nat]
  <2> HIDE DEF F
  <2> DEFINE T == {k \in Nat : k <= n => F[k] \in Nat}
  <2>1. 0 \in T
    BY <1>7
  <2>2. ASSUME NEW k \in T PROVE k + 1 \in T
    <3> SUFFICES ASSUME k + 1 <= n PROVE F[k + 1] \in Nat
      OBVIOUS
    <3>1. F[k] \in Nat /\ k + 1 \in 1 .. n
      BY <1>1
    <3>2. F[k + 1] = HitsStep(t, op, k + 1, F[k])
      BY <1>7, <3>1
    <3> QED
      BY <1>1, <3>1, <3>2 DEF HitsStep, Least
  <2>3. T = Nat
    <3> HIDE DEF T
    <3>1. T \in SUBSET Nat
      BY DEF T
    <3> QED
      BY <2>1, <2>2, <3>1, SetInduction
  <2>4. \A k \in 0 .. n : F[k] \in Nat
    BY <2>3
  <2>5. DOMAIN F = 0 .. n /\ F = [k \in DOMAIN F |-> F[k]]
    BY <1>5
  <2> QED
    BY <2>4, <2>5
<1> HIDE DEF F
<1> QED
  BY <1>6, <1>7, <1>8

LEMMA SumRecursion ==
  ASSUME NEW t \in Seq(Nat)
  PROVE  \E f : /\ Sum(t) = f[Len(t)]
                /\ f[0] = 0
                /\ \A i \in 1 .. Len(t) : f[i] = f[i - 1] + t[i]
<1> DEFINE n == Len(t)
           Body(f) == [i \in 0 .. n |-> IF i = 0 THEN 0 ELSE f[i - 1] + t[i]]
           F == CHOOSE f : f = Body(f)
           G == [i \in 1 .. n |-> [x \in Nat |-> x + t[i]]]
<1>1. n \in Nat /\ \A i \in 1 .. n : t[i] \in Nat
  OBVIOUS
<1>2. G \in [1 .. n -> [Nat -> Nat]]
  BY <1>1
<1>3. PICK f \in [0 .. n -> Nat] : Follows(f, 0, n, G)
  <2> HIDE DEF G, n, Body, F
  <2>1. n \in Nat /\ 0 \in Nat
    BY <1>1
  <2> QED
    BY <1>2, <2>1, Recursion, Zenon
<1>4. f[0] = 0 /\ \A i \in 1 .. n : f[i] = f[i - 1] + t[i]
  <2>1. \A i \in 1 .. n, x \in Nat : G[i][x] = x + t[i]
    OBVIOUS
  <2>2. \A i \in 1 .. n : f[i - 1] \in Nat
    BY <1>1
  <2> HIDE DEF F, Body, G
  <2> QED
    BY <1>3, <2>1, <2>2 DEF Follows
<1>5. F = Body(F)
  <2>1. ASSUME NEW i \in 0 .. n PROVE f[i] = Body(f)[i]
    <3> HIDE DEF F, G
    <3>1. Body(f)[i] = IF i = 0 THEN 0 ELSE f[i - 1] + t[i]
      OBVIOUS
    <3> HIDE DEF Body
    <3>2. i # 0 => i \in 1 .. n
      BY <1>1
    <3> QED
      BY <1>4, <3>1, <3>2
  <2>2. f = [i \in 0 .. n |-> f[i]] /\ Body(f) = [i \in 0 .. n |-> Body(f)[i]]
    OBVIOUS
  <2>3. f = Body(f)
    <3> HIDE DEF F, G, Body
    <3> QED
      BY <2>1, <2>2
  <2> HIDE DEF Body
  <2> QED
    BY <2>3
<1>6. Sum(t) = F[n]
  BY DEF Sum
<1>7. F[0] = 0 /\ \A i \in 1 .. n : F[i] = F[i - 1] + t[i]
  <2> HIDE DEF F
  <2>1. 0 \in 0 .. n /\ \A i \in 1 .. n : i \in 0 .. n /\ i # 0
    BY <1>1
  <2> QED
    BY <1>5, <2>1
<1> HIDE DEF F
<1> QED
  BY <1>6, <1>7

\* Fewer files have been come by on the way than at the end.
LEMMA ScannedGrows ==
  ASSUME NEW t, NEW n \in Nat, NEW i \in 1 .. n
  PROVE  Scanned(t, i) <= Scanned(t, n) /\ Scanned(t, n) \in Nat
                                        /\ Scanned(t, i) \in Nat
<1> DEFINE Met(k) == {j \in 1 .. k : t[j].kind # "aside"}
<1>1. IsFiniteSet(1 .. n) /\ Met(n) \subseteq 1 .. n /\ Met(i) \subseteq Met(n)
  BY FS_Interval
<1>2. IsFiniteSet(Met(n)) /\ IsFiniteSet(Met(i))
  <2> HIDE DEF Met
  <2> QED
    BY <1>1, FS_Subset
<1>3. /\ Cardinality(Met(i)) <= Cardinality(Met(n))
      /\ Cardinality(Met(i)) \in Nat /\ Cardinality(Met(n)) \in Nat
  <2> HIDE DEF Met
  <2> QED
    BY <1>1, <1>2, FS_Subset, FS_CardinalityType
<1> QED
  BY <1>3 DEF Scanned

\* A search never reports more than its limit, and what it reports below the
\* limit is all there is in the files it looks into.
LEMMA HitsFacts ==
  ASSUME NEW t \in Seq(File), NEW op \in {"grep", "glob"}
  PROVE  /\ Hits(t, op) \in 0 .. HitLimit
         /\ /\ op = "grep" => Scanned(t, Len(t)) <= ScanLimit
            /\ Hits(t, op) < HitLimit
            => Hits(t, op) = Sum(Searched(op, t))
<1> DEFINE n == Len(t)
           w == Searched(op, t)
           met == op = "grep" => Scanned(t, n) <= ScanLimit
<1>1. PICK f \in [0 .. n -> Nat] :
         /\ Hits(t, op) = f[n]
         /\ f[0] = 0
         /\ \A i \in 1 .. n : f[i] = HitsStep(t, op, i, f[i - 1])
  BY HitsRecursion
<1>2. /\ n \in Nat /\ HitLimit \in Nat /\ ScanLimit \in Nat
      /\ \A i \in 1 .. n : t[i] \in File
  BY RequestsConstants
<1>3. /\ w \in Seq(Nat) /\ Len(w) = n
      /\ \A i \in 1 .. n : w[i] = Seen(op, t[i]) /\ w[i] \in Nat
  <2>1. ASSUME NEW i \in 1 .. n
        PROVE  Seen(op, t[i]) = w[i] /\ Seen(op, t[i]) \in Nat
    <3>1. t[i].kind \in {"text", "large", "binary", "shut", "aside"}
      <4>1. t[i] \in File
        BY <1>2
      <4> QED
        BY <4>1 DEF File
    <3>2. w[i] = IF \/ t[i].kind = "text"
                    \/ op = "glob" /\ t[i].kind \in {"large", "binary", "shut"}
                 THEN t[i].matches ELSE 0
      BY <1>2, <2>1 DEF Searched
    <3>3. Seen(op, t[i]) \in Nat
      BY <2>1, SeenCounts
    <3> HIDE DEF w, n
    <3> QED
      BY <3>1, <3>2, <3>3 DEF Seen
  <2>2. w = [i \in 1 .. n |-> w[i]]
    <3>1. DOMAIN t = 1 .. n
      OBVIOUS
    <3> HIDE DEF n
    <3> QED
      BY <3>1 DEF Searched
  <2> HIDE DEF w, n
  <2>3. \A i \in 1 .. n : w[i] = Seen(op, t[i]) /\ w[i] \in Nat
    BY <2>1
  <2>4. w \in Seq(Nat) /\ Len(w) = n
    BY <1>2, <2>2, <2>3
  <2> QED
    BY <2>3, <2>4
<1>4. PICK g : /\ Sum(w) = g[n]
               /\ g[0] = 0
               /\ \A i \in 1 .. n : g[i] = g[i - 1] + w[i]
  <2> HIDE DEF w, n
  <2> QED
    BY <1>3, SumRecursion
<1>5. ASSUME met, NEW i \in 1 .. n PROVE ~GaveUp(t, op, i)
  BY <1>2, <1>5, ScannedGrows DEF GaveUp
<1> HIDE DEF n, w, met
<1> DEFINE Fine(k) == /\ f[k] \in 0 .. HitLimit
                      /\ met /\ f[k] < HitLimit => f[k] = g[k]
           T == {k \in Nat : k <= n => Fine(k)}
<1>6. 0 \in T
  BY <1>1, <1>2, <1>4
<1>7. ASSUME NEW k \in T PROVE k + 1 \in T
  <2> SUFFICES ASSUME k + 1 <= n PROVE Fine(k + 1)
    OBVIOUS
  <2>1. Fine(k) /\ k + 1 \in 1 .. n /\ w[k + 1] \in Nat
    BY <1>2, <1>3
  <2>2. f[k + 1] = HitsStep(t, op, k + 1, f[k])
    BY <1>1, <2>1
  <2>3. g[k + 1] = g[k] + w[k + 1]
    BY <1>4, <2>1
  <2>4. Seen(op, t[k + 1]) = w[k + 1] /\ (met => ~GaveUp(t, op, k + 1))
    BY <1>3, <1>5, <2>1
  <2> QED
    BY <1>2, <2>1, <2>2, <2>3, <2>4 DEF HitsStep, Least
<1>8. T = Nat
  <2> HIDE DEF T
  <2>1. T \in SUBSET Nat
    BY DEF T
  <2> QED
    BY <1>6, <1>7, <2>1, SetInduction
<1>9. Fine(n)
  BY <1>2, <1>8
<1> QED
  BY <1>1, <1>4, <1>9 DEF n, w, met

-----------------------------------------------------------------------------
(* The types, and what an answer that is not marked as cut holds. *)

JobType ==
    [op : {"none", "write", "edit", "read", "exec", "grep", "glob"},
     at : Steps, data : Contents \cup {None}, fd : Inodes \cup {None},
     stat : Nat, put : Contents \cup {None}, still : BOOLEAN,
     ok : BOOLEAN, error : {"none", "failed", "timeout"},
     cut : BOOLEAN, hits : 0 .. HitLimit, tree : Trees \cup {None}]

CmdType ==
    [proc : {"none", "running", "good", "bad", "killed"},
     held : BOOLEAN, due : BOOLEAN, late : BOOLEAN,
     out : 0 .. MaxOut, kept : 0 .. OutLimit, cut : BOOLEAN]

\* A file that was not replaced since its size was seen still has that size;
\* a command has kept all of its output until the limit cuts it.
Sized(a) ==
    job[a].at = "readLoad" =>
        /\ path # None
        /\ job[a].still => job[a].stat = SizeOf(inode[path])

Complete(a) ==
    /\ job[a].at \in {"editStat", "editLoad", "open", "fill", "rename"} =>
          job[a].op \in {"write", "edit"}
    /\ ~cmd[a].cut => cmd[a].kept = cmd[a].out
    /\ job[a].ok =>
          /\ job[a].at = "answered"
          /\ job[a].op = "read" /\ job[a].still /\ ~job[a].cut =>
                SizeOf(job[a].data) <= ReadLimit
          /\ job[a].op = "exec" => job[a].cut = cmd[a].cut
          /\ job[a].op = "grep" /\ ~job[a].cut
               /\ Scanned(job[a].tree, Len(job[a].tree)) <= ScanLimit =>
                job[a].hits = Sum(Searched("grep", job[a].tree))
          /\ job[a].op = "glob" /\ ~job[a].cut =>
                job[a].hits = Sum(Searched("glob", job[a].tree))

AnswerInv ==
    /\ inode \in [Inodes -> Contents]
    /\ path \in Inodes \cup {None} /\ tmp \in Inodes \cup {None}
    /\ job \in [Agents -> JobType] /\ cmd \in [Agents -> CmdType]
    /\ jobs \in 0 .. MaxJobs
    /\ crossed \in SUBSET Inodes
    /\ \A a \in Agents : Sized(a) /\ Complete(a)

LEMMA SizesAreNatural == \A c : SizeOf(c) \in Nat
BY RequestsConstants DEF SizeOf

LEMMA BlankTyped == NoJob \in JobType /\ NoCmd \in CmdType
BY RequestsConstants DEF NoJob, NoCmd, JobType, CmdType, Steps

LEMMA AnswersStart == Init => AnswerInv
<1> SUFFICES ASSUME Init PROVE AnswerInv
  OBVIOUS
<1>1. RequestsInit
  BY DEF Init
<1> DEFINE i == CHOOSE j \in Inodes : TRUE
<1>2. /\ i \in Inodes
      /\ path \in {i, None}
      /\ \E v \in Versions : inode =
           [j \in Inodes |-> IF j = i THEN v ELSE Empty]
  <2>1. i \in Inodes
    BY RequestsConstants
  <2> QED
    BY <1>1, <2>1 DEF RequestsInit
<1> HIDE DEF i
<1>3. /\ inode \in [Inodes -> Contents]
      /\ path \in Inodes \cup {None} /\ tmp \in Inodes \cup {None}
      /\ crossed \in SUBSET Inodes
  BY <1>1, <1>2 DEF RequestsInit, Contents
<1>4. NoJob \in JobType /\ NoCmd \in CmdType
  BY BlankTyped
<1>5. jobs \in 0 .. MaxJobs
  <2>1. PICK load \in Loads : jobs = MaxJobs - load.jobs
    BY DEF Init
  <2>2. load.jobs \in 0 .. MaxJobs
    BY HostConstants
  <2> QED
    BY <2>1, <2>2, RequestsConstants
<1>6. /\ job = [a \in Agents |-> NoJob] /\ cmd = [a \in Agents |-> NoCmd]
  BY <1>1 DEF RequestsInit
<1>7. \A a \in Agents : Sized(a) /\ Complete(a)
  BY <1>6 DEF NoJob, NoCmd, Sized, Complete
<1>8. job \in [Agents -> JobType] /\ cmd \in [Agents -> CmdType]
  BY <1>4, <1>6
<1> QED
  BY <1>3, <1>5, <1>7, <1>8 DEF AnswerInv

\* A step that leaves the files alone and moves one agent.
LEMMA AnswersMove ==
    ASSUME AnswerInv, NEW a \in Agents, UNCHANGED files,
           jobs' \in 0 .. MaxJobs,
           job' = [job EXCEPT ![a] = job'[a]], job'[a] \in JobType,
           cmd' = [cmd EXCEPT ![a] = cmd'[a]], cmd'[a] \in CmdType,
           Sized(a)', Complete(a)'
    PROVE  AnswerInv'
<1>1. /\ job' \in [Agents -> JobType] /\ cmd' \in [Agents -> CmdType]
      /\ \A b \in Agents \ {a} : job'[b] = job[b] /\ cmd'[b] = cmd[b]
  BY DEF AnswerInv
<1>2. ASSUME NEW b \in Agents PROVE Sized(b)' /\ Complete(b)'
  <2>1. CASE b = a
    BY <2>1
  <2>2. CASE b # a
    BY <1>1, <2>2 DEF AnswerInv, Sized, Complete, files
  <2> QED
    BY <2>1, <2>2
<1> QED
  BY <1>1, <1>2 DEF AnswerInv, files

LEMMA JobsGrow ==
    ASSUME AnswerInv, jobs < MaxJobs, jobs' = jobs + 1
    PROVE  jobs' \in 0 .. MaxJobs
BY RequestsConstants DEF AnswerInv

LEMMA AnswersBegin ==
    ASSUME AnswerInv, NEW a \in Agents, Request(a)
    PROVE  AnswerInv'
<1>1. ASSUME NEW op \in {"write", "edit", "read"},
             NEW place \in {"open", "editStat", "readStat"},
             NEW data \in Versions \cup {None},
             Begin(a, op, place, data),
             place \in {"open", "editStat"} => op \in {"write", "edit"}
      PROVE  AnswerInv'
  <2>1. /\ job'[a] = [NoJob EXCEPT !.op = op, !.at = place, !.data = data]
        /\ job' = [job EXCEPT ![a] = job'[a]]
        /\ cmd' = cmd /\ cmd' = [cmd EXCEPT ![a] = cmd'[a]]
        /\ cmd'[a] \in CmdType
        /\ UNCHANGED files /\ jobs' \in 0 .. MaxJobs
    BY <1>1, JobsGrow DEF Begin, AnswerInv
  <2>2. job'[a] \in JobType
    <3>1. place \in Steps /\ data \in Contents \cup {None}
      BY DEF Steps, Contents
    <3> QED
      BY <2>1, <3>1, BlankTyped DEF JobType
  <2>3. Sized(a)' /\ Complete(a)'
    BY <1>1, <2>1 DEF NoJob, Sized, Complete, AnswerInv
  <2> QED
    BY <2>1, <2>2, <2>3, AnswersMove
<1>2. CASE Exec(a)
  <2>1. /\ job'[a] = [NoJob EXCEPT !.op = "exec", !.at = "run"]
        /\ cmd'[a] = [NoCmd EXCEPT !.proc = "running"]
        /\ job' = [job EXCEPT ![a] = job'[a]]
        /\ cmd' = [cmd EXCEPT ![a] = cmd'[a]]
        /\ UNCHANGED files /\ jobs' \in 0 .. MaxJobs
    BY <1>2, JobsGrow DEF Exec, AnswerInv
  <2>2. job'[a] \in JobType /\ cmd'[a] \in CmdType
    <3>1. "run" \in Steps
      BY DEF Steps
    <3> QED
      BY <2>1, <3>1, BlankTyped DEF JobType, CmdType
  <2>3. Sized(a)' /\ Complete(a)'
    BY <2>1 DEF NoJob, NoCmd, Sized, Complete
  <2> QED
    BY <2>1, <2>2, <2>3, AnswersMove
<1>3. ASSUME NEW op \in {"grep", "glob"}, NEW t \in Trees, Search(a, op, t)
      PROVE  AnswerInv'
  <2> DEFINE n == Hits(t, op)
             met == op = "grep" => Scanned(t, Len(t)) <= ScanLimit
             all == Sum(Searched(op, t))
  <2>1. t \in Seq(File)
    BY RequestsConstants
  <2>2. /\ job'[a] = [NoJob EXCEPT !.op = op, !.at = "answered",
                                   !.ok = TRUE, !.tree = t, !.hits = n,
                                   !.cut = n >= HitLimit]
        /\ job' = [job EXCEPT ![a] = job'[a]]
        /\ cmd' = cmd /\ cmd' = [cmd EXCEPT ![a] = cmd'[a]]
        /\ cmd'[a] \in CmdType
        /\ UNCHANGED files /\ jobs' \in 0 .. MaxJobs
    BY <1>3, JobsGrow DEF Search, AnswerInv
  <2>3. n \in 0 .. HitLimit /\ (met /\ n < HitLimit => n = all)
    BY <2>1, HitsFacts
  <2> HIDE DEF n, met, all
  <2>5. (n >= HitLimit) \in BOOLEAN /\ (n < HitLimit <=> ~(n >= HitLimit))
    BY <2>3, RequestsConstants
  <2>6. job'[a] \in JobType
    <3>1. "answered" \in Steps /\ t \in Trees \cup {None}
      BY DEF Steps
    <3> QED
      BY <2>2, <2>3, <2>5, <3>1, BlankTyped DEF JobType
  <2>7. Sized(a)' /\ ~(job'[a].at \in {"editStat", "editLoad", "open", "fill",
                                      "rename"})
    BY <2>2 DEF NoJob, Sized
  <2>8. ~job'[a].cut /\ met => n = all
    BY <2>2, <2>3, <2>5 DEF NoJob
  <2>9. /\ job'[a].op = op /\ job'[a].tree = t /\ job'[a].hits = n
        /\ job'[a].at = "answered" /\ cmd'[a] = cmd[a]
    BY <2>2 DEF NoJob
  <2>10. Complete(a)'
    BY <2>7, <2>8, <2>9 DEF Complete, AnswerInv, met, all
  <2> QED
    BY <2>2, <2>6, <2>7, <2>10, AnswersMove
<1> QED
  BY <1>1, <1>2, <1>3 DEF Request

LEMMA AnswersGone ==
    ASSUME AnswerInv, NEW a \in Agents, Gone(a)
    PROVE  AnswerInv'
<1>1. /\ job'[a] = NoJob /\ cmd'[a] = NoCmd
      /\ job' = [job EXCEPT ![a] = job'[a]]
      /\ cmd' = [cmd EXCEPT ![a] = cmd'[a]]
      /\ UNCHANGED files /\ jobs' \in 0 .. MaxJobs
  BY DEF Gone, AnswerInv
<1>2. job'[a] \in JobType /\ cmd'[a] \in CmdType
  BY <1>1, BlankTyped
<1>3. Sized(a)' /\ Complete(a)'
  BY <1>1 DEF NoJob, NoCmd, Sized, Complete
<1> QED
  BY <1>1, <1>2, <1>3, AnswersMove

LEMMA AnswersRead ==
    ASSUME WriteInv, AnswerInv, NEW a \in Agents, Reads(a)
    PROVE  AnswerInv'
<1>1. job[a] \in JobType /\ Complete(a) /\ Keeps(a) /\ Sized(a)
  BY DEF AnswerInv, WriteInv
<1>2. "answered" \in Steps /\ "editLoad" \in Steps /\ "readLoad" \in Steps
        /\ "open" \in Steps
  BY DEF Steps
<1>3. ASSUME NEW j \in JobType, job' = [job EXCEPT ![a] = j],
             UNCHANGED <<files, cmd, jobs>>, Sized(a)', Complete(a)'
      PROVE  AnswerInv'
  BY <1>3, AnswersMove DEF AnswerInv
<1>4. CASE Fails(a) /\ UNCHANGED <<files, cmd, jobs>> /\ ~At(a, "run")
  <2> DEFINE j == [job[a] EXCEPT !.at = "answered", !.error = "failed",
                                 !.fd = None]
  <2>1. j \in JobType
    BY <1>1, <1>2 DEF JobType
  <2>2. job' = [job EXCEPT ![a] = j] /\ job'[a] = j
    BY <1>4 DEF Fails, AnswerInv, JobType
  <2>3. Sized(a)'
    <3>1. job'[a].at = "answered"
      BY <1>1, <2>2 DEF JobType
    <3> QED
      BY <3>1 DEF Sized
  <2>4. Complete(a)'
    BY <1>1, <1>4, <2>2 DEF Complete, JobType
  <2> QED
    BY <1>3, <1>4, <2>1, <2>2, <2>3, <2>4
<1>5. CASE EditStat(a)
  <2> DEFINE j == [job[a] EXCEPT !.at = "editLoad"]
  <2>1. CASE Fails(a)
    BY <1>4, <1>5, <2>1 DEF EditStat, At
  <2>2. CASE Goto(a, "editLoad")
    <3>1. j \in JobType
      BY <1>1, <1>2 DEF JobType
    <3>2. job' = [job EXCEPT ![a] = j] /\ job'[a] = j
            /\ UNCHANGED <<files, cmd, jobs>> /\ job[a].at = "editStat"
      BY <1>5, <2>2 DEF Goto, EditStat, At, AnswerInv, JobType
    <3>3. Sized(a)' /\ Complete(a)'
      BY <1>1, <3>2 DEF Sized, Complete, JobType
    <3> QED
      BY <1>3, <3>1, <3>2, <3>3
  <2> QED
    BY <1>5, <2>1, <2>2 DEF EditStat
<1>6. ASSUME NEW v \in Versions, EditLoad(a, v) PROVE AnswerInv'
  <2> DEFINE d == IF inode[path] = Torn THEN Torn ELSE v
             j == [job[a] EXCEPT !.at = "open", !.data = d]
  <2>1. CASE Fails(a)
    BY <1>4, <1>6, <2>1 DEF EditLoad, At
  <2>2. CASE job' = [job EXCEPT ![a].at = "open", ![a].data = d]
    <3>1. d \in Contents
      BY DEF Contents
    <3> HIDE DEF d
    <3>2. j \in JobType
      BY <1>1, <1>2, <3>1 DEF JobType
    <3>3. job' = [job EXCEPT ![a] = j] /\ job'[a] = j
            /\ UNCHANGED <<files, cmd, jobs>> /\ job[a].at = "editLoad"
      BY <1>6, <2>2 DEF EditLoad, At, AnswerInv, JobType
    <3>4. Sized(a)' /\ Complete(a)'
      BY <1>1, <3>3 DEF Sized, Complete, JobType
    <3> QED
      BY <1>3, <3>2, <3>3, <3>4
  <2> QED
    BY <1>6, <2>1, <2>2 DEF EditLoad
<1>7. CASE ReadStat(a)
  <2> DEFINE n == SizeOf(inode[path])
             j == [job[a] EXCEPT !.at = "readLoad", !.still = TRUE, !.stat = n]
  <2>1. CASE Fails(a)
    BY <1>4, <1>7, <2>1 DEF ReadStat, At
  <2>2. CASE /\ job' = [job EXCEPT ![a].at = "readLoad", ![a].still = TRUE,
                                   ![a].stat = n]
             /\ path # None
    <3>1. n \in Nat
      BY SizesAreNatural
    <3>2. UNCHANGED <<files, cmd, jobs>> /\ n' = n /\ path' = path
      BY <1>7 DEF ReadStat, files
    <3> HIDE DEF n
    <3>3. j \in JobType
      BY <1>1, <1>2, <3>1 DEF JobType
    <3>4. job' = [job EXCEPT ![a] = j] /\ job'[a] = j
            /\ job[a].at = "readStat"
      BY <1>7, <2>2 DEF ReadStat, At, AnswerInv, JobType
    <3>5. /\ j.stat = n /\ j.at = "readLoad"
          /\ j.op = job[a].op /\ j.ok = job[a].ok
      BY <1>1 DEF JobType
    <3> HIDE DEF j
    <3>6. Sized(a)'
      BY <2>2, <3>2, <3>4, <3>5 DEF Sized, n
    <3>7. Complete(a)'
      BY <1>1, <3>2, <3>4, <3>5 DEF Complete, Keeps
    <3> QED
      BY <1>3, <3>2, <3>3, <3>4, <3>6, <3>7
  <2> QED
    BY <1>7, <2>1, <2>2 DEF ReadStat
<1>8. CASE ReadLoad(a)
  <2> DEFINE d == inode[path]
             n == job[a].stat > Least(SizeOf(d), ReadLimit)
             j == [job[a] EXCEPT !.at = "answered", !.ok = TRUE, !.data = d,
                                 !.cut = n]
  <2>1. CASE Fails(a)
    BY <1>4, <1>8, <2>1 DEF ReadLoad, At
  <2>2. CASE job' = [job EXCEPT ![a].at = "answered", ![a].ok = TRUE,
                                ![a].data = d, ![a].cut = n]
    <3>1. job[a].at = "readLoad" /\ job[a].op = "read" /\ path # None
            /\ UNCHANGED <<files, cmd, jobs>>
      BY <1>1, <1>8 DEF ReadLoad, At, Keeps, Sized
    <3>2. d \in Contents /\ n \in BOOLEAN
      BY <3>1 DEF AnswerInv
    <3>3. job[a].still /\ ~n => SizeOf(d) <= ReadLimit
      BY <1>1, <3>1, SizesAreNatural, RequestsConstants DEF Sized, Least
    <3> HIDE DEF d, n
    <3>4. j \in JobType
      BY <1>1, <1>2, <3>2 DEF JobType
    <3>5. job' = [job EXCEPT ![a] = j] /\ job'[a] = j
      BY <2>2 DEF AnswerInv, JobType
    <3>6. /\ j.at = "answered" /\ j.op = "read" /\ j.still = job[a].still
          /\ j.cut = n /\ j.data = d
      BY <1>1, <3>1 DEF JobType
    <3> HIDE DEF j
    <3>7. Sized(a)' /\ Complete(a)'
      BY <1>1, <3>1, <3>3, <3>5, <3>6 DEF Sized, Complete
    <3> QED
      BY <1>3, <3>1, <3>4, <3>5, <3>7
  <2> QED
    BY <1>8, <2>1, <2>2 DEF ReadLoad
<1>9. CASE ExecAnswers(a)
  <2> DEFINE o == Outcome(cmd[a])
             e == IF o \in {"timeout", "failed"} THEN o ELSE "none"
             j == [job[a] EXCEPT !.at = "answered", !.ok = o = "ok",
                                 !.cut = cmd[a].cut, !.error = e]
  <2>1. e \in {"none", "failed", "timeout"} /\ (o = "ok") \in BOOLEAN
          /\ cmd[a].cut \in BOOLEAN
    BY DEF AnswerInv, CmdType
  <2>2. job' = [job EXCEPT ![a] = j] /\ job'[a] = j
          /\ job[a].at = "run" /\ job[a].op = "exec"
          /\ UNCHANGED <<files, cmd, jobs>>
    BY <1>1, <1>9 DEF ExecAnswers, At, AnswerInv, JobType, Keeps
  <2> HIDE DEF o, e
  <2>3. j \in JobType
    BY <1>1, <1>2, <2>1 DEF JobType
  <2>4. Sized(a)' /\ Complete(a)'
    BY <1>1, <2>1, <2>2 DEF Sized, Complete, JobType
  <2> QED
    BY <1>3, <2>2, <2>3, <2>4
<1> QED
  BY <1>5, <1>6, <1>7, <1>8, <1>9 DEF Reads

LEMMA AnswersCommand ==
    ASSUME AnswerInv, NEW a \in Agents,
           \/ Machine(a) \/ Deadline(a) \/ WaitDelay(a)
           \/ \E held \in BOOLEAN : Kill(a, held)
    PROVE  AnswerInv'
<1>1. job' = job /\ UNCHANGED <<files, jobs>> /\ job[a].at = "run"
  BY DEF Machine, Emits, CommandEnds, Deadline, WaitDelay, Kill, At
<1>2. ASSUME cmd' = [cmd EXCEPT ![a] = cmd'[a]], cmd'[a] \in CmdType,
             ~cmd'[a].cut => cmd'[a].kept = cmd'[a].out
      PROVE  AnswerInv'
  <2>1. job' = [job EXCEPT ![a] = job'[a]] /\ job'[a] \in JobType
          /\ jobs' \in 0 .. MaxJobs
    BY <1>1 DEF AnswerInv
  <2>2. Sized(a)' /\ Complete(a)'
    BY <1>1, <1>2 DEF AnswerInv, Sized, Complete
  <2> QED
    BY <1>1, <1>2, <2>1, <2>2, AnswersMove
<1>3. ~cmd[a].cut => cmd[a].kept = cmd[a].out
  BY DEF AnswerInv, Complete
<1>4. cmd \in [Agents -> CmdType]
  BY DEF AnswerInv
<1> USE DEF CmdType
<1>5. CASE Emits(a)
  <2> DEFINE k == Least(cmd[a].kept + 1, OutLimit)
             x == cmd[a].cut \/ cmd[a].kept >= OutLimit
  <2>1. /\ cmd' = [cmd EXCEPT ![a] = [cmd[a] EXCEPT !.out = cmd[a].out + 1,
                                                    !.kept = k, !.cut = x]]
        /\ cmd[a].out < MaxOut
    BY <1>4, <1>5 DEF Emits
  <2>2. /\ cmd[a].out \in 0 .. MaxOut /\ cmd[a].kept \in 0 .. OutLimit
        /\ cmd[a].cut \in BOOLEAN
    BY <1>4
  <2>3. k \in 0 .. OutLimit /\ cmd[a].out + 1 \in 0 .. MaxOut
    <3>1. cmd[a].out < MaxOut
      BY <2>1
    <3>2. cmd[a].out + 1 \in 0 .. MaxOut
      BY <2>2, <3>1, RequestsConstants
    <3>3. k \in 0 .. OutLimit
      BY <2>2, RequestsConstants DEF Least
    <3> QED BY <3>2, <3>3
  <2>4. ~x => k = cmd[a].out + 1
    BY <1>3, <2>2, RequestsConstants DEF Least
  <2>5. x \in BOOLEAN
    OBVIOUS
  <2> HIDE DEF k, x
  <2>6. /\ cmd'[a] = [cmd[a] EXCEPT !.out = cmd[a].out + 1,
                                    !.kept = k, !.cut = x]
        /\ cmd' = [cmd EXCEPT ![a] = cmd'[a]]
    BY <1>4, <2>1
  <2>7. cmd[a] \in CmdType
    BY <1>4
  <2>8. cmd'[a] \in CmdType
    BY <2>3, <2>5, <2>6, <2>7
  <2>9. /\ cmd'[a].cut = x /\ cmd'[a].kept = k
        /\ cmd'[a].out = cmd[a].out + 1
    BY <2>6, <2>7
  <2> QED
    BY <1>2, <2>4, <2>6, <2>8, <2>9
<1>6. ASSUME NEW how \in {"good", "bad"}, NEW held \in BOOLEAN,
             CommandEnds(a, how, held)
      PROVE  AnswerInv'
  BY <1>2, <1>3, <1>4, <1>6 DEF CommandEnds
<1>7. CASE Deadline(a)
  BY <1>2, <1>3, <1>4, <1>7 DEF Deadline
<1>8. CASE WaitDelay(a)
  BY <1>2, <1>3, <1>4, <1>8 DEF WaitDelay
<1>9. ASSUME NEW held \in BOOLEAN, Kill(a, held) PROVE AnswerInv'
  BY <1>2, <1>3, <1>4, <1>9 DEF Kill
<1> QED
  BY <1>5, <1>6, <1>7, <1>8, <1>9 DEF Machine

\* What a writer comes to has no answer to vouch for.
LEMMA WriterFine ==
    ASSUME NEW a \in Agents, AnswerInv, cmd' = cmd,
           job'[a].op \in {"write", "edit"},
           job'[a].at \notin {"readLoad"},
           job'[a].ok => job'[a].at = "answered"
    PROVE  Sized(a)' /\ Complete(a)'
BY DEF AnswerInv, Sized, Complete

LEMMA ReplacedTyped ==
    ASSUME NEW j1 \in [Agents -> JobType], NEW a
    PROVE  /\ Replaced(j1, a) \in [Agents -> JobType]
           /\ \A b \in Agents \ {a} :
                Replaced(j1, a)[b] = [j1[b] EXCEPT !.still = FALSE]
           /\ a \in Agents => Replaced(j1, a)[a] = j1[a]
<1>1. ASSUME NEW b \in Agents PROVE [j1[b] EXCEPT !.still = FALSE] \in JobType
  BY DEF JobType
<1> QED
  BY <1>1 DEF Replaced

\* The fields of others after a replacement.
LEMMA ReplacedFields ==
    ASSUME NEW r \in JobType, NEW s \in JobType,
           s = [r EXCEPT !.still = FALSE]
    PROVE  /\ s.op = r.op /\ s.at = r.at /\ s.ok = r.ok /\ s.cut = r.cut
           /\ s.data = r.data /\ s.stat = r.stat /\ s.hits = r.hits
           /\ s.tree = r.tree /\ ~s.still
BY DEF JobType

LEMMA AnswersSave ==
    ASSUME AnswerInv, NEW v \in Versions, LocalSave(v)
    PROVE  AnswerInv'
<1>1. Fresh \in Inodes
  BY FreshIsUnused DEF LocalSave, Unused
<1>2. /\ path' = Fresh /\ tmp' = tmp /\ cmd' = cmd
      /\ inode' = [inode EXCEPT ![Fresh] = v]
      /\ crossed' = crossed \ {Fresh}
      /\ jobs' \in 0 .. MaxJobs
      /\ job' = Replaced(job, None)
  BY JobsGrow DEF LocalSave
<1>3. /\ inode' \in [Inodes -> Contents] /\ path' \in Inodes \cup {None}
      /\ tmp' \in Inodes \cup {None} /\ crossed' \in SUBSET Inodes
  <2> HIDE DEF Fresh
  <2> QED
    BY <1>1, <1>2 DEF AnswerInv, Contents
<1>4. path' # None
  BY <1>1, <1>2, RequestsConstants
<1>5. ASSUME NEW b \in Agents
      PROVE  /\ job'[b] = [job[b] EXCEPT !.still = FALSE]
             /\ job'[b] \in JobType /\ job[b] \in JobType
  <2>1. b \in Agents \ {None} /\ job \in [Agents -> JobType]
    BY RequestsConstants DEF AnswerInv
  <2>2. job'[b] = [job[b] EXCEPT !.still = FALSE]
    BY <1>2, <2>1, ReplacedTyped
  <2>3. job'[b] \in JobType
    BY <1>2, <2>1, ReplacedTyped
  <2> QED
    BY <2>1, <2>2, <2>3
<1>6. job' \in [Agents -> JobType]
  BY <1>2, <1>5 DEF Replaced
<1>7. ASSUME NEW b \in Agents PROVE Sized(b)' /\ Complete(b)'
  <2>1. /\ job'[b].op = job[b].op /\ job'[b].at = job[b].at
        /\ job'[b].ok = job[b].ok /\ job'[b].cut = job[b].cut
        /\ job'[b].data = job[b].data /\ job'[b].stat = job[b].stat
        /\ job'[b].hits = job[b].hits /\ job'[b].tree = job[b].tree
        /\ ~job'[b].still
    BY <1>5, ReplacedFields
  <2> QED
    BY <1>2, <1>4, <2>1 DEF AnswerInv, Sized, Complete
<1> QED
  BY <1>2, <1>3, <1>6, <1>7 DEF AnswerInv

LEMMA AnswersOpen ==
    ASSUME WriteInv, AnswerInv, NEW a \in Agents, OpenTmp(a)
    PROVE  AnswerInv'
<1>1. job[a] \in JobType /\ Complete(a) /\ Sized(a) /\ job[a].at = "open"
        /\ UNCHANGED <<cmd, jobs>>
  BY DEF AnswerInv, OpenTmp, At
<1>2. "answered" \in Steps /\ "fill" \in Steps
  BY DEF Steps
<1>3. CASE Fails(a) /\ UNCHANGED files
  <2> DEFINE j == [job[a] EXCEPT !.at = "answered", !.error = "failed",
                                 !.fd = None]
  <2>1. j \in JobType /\ j.op = job[a].op /\ j.at = "answered"
    BY <1>1, <1>2 DEF JobType
  <2>2. job' = [job EXCEPT ![a] = j] /\ job'[a] = j
    BY <1>3 DEF Fails, AnswerInv, JobType
  <2> HIDE DEF j
  <2>3. job[a].op \in {"write", "edit"}
    BY <1>1 DEF Complete
  <2>4. Sized(a)' /\ Complete(a)'
    BY <1>1, <2>1, <2>2, <2>3, WriterFine
  <2> QED
    BY <1>1, <1>3, <2>1, <2>2, <2>4, AnswersMove DEF AnswerInv
<1>4. ASSUME NEW i \in Inodes,
             i = tmp \/ (tmp = None /\ i \in Unused),
             tmp' = i,
             inode' = [inode EXCEPT ![i] = Empty],
             job' = [job EXCEPT ![a].at = "fill", ![a].fd = i],
             crossed' \in SUBSET Inodes,
             path' = path
      PROVE  AnswerInv'
  <2> DEFINE j == [job[a] EXCEPT !.at = "fill", !.fd = i]
  <2>1. j \in JobType /\ j.op = job[a].op /\ j.at = "fill" /\ j.ok = job[a].ok
    BY <1>1, <1>2 DEF JobType
  <2>2. job' = [job EXCEPT ![a] = j] /\ job'[a] = j
    BY <1>4 DEF AnswerInv, JobType
  <2> HIDE DEF j
  <2>3. job[a].op \in {"write", "edit"} /\ ~job[a].ok
    BY <1>1 DEF Complete
  <2>4. Sized(a)' /\ Complete(a)'
    BY <1>1, <2>1, <2>2, <2>3, WriterFine
  <2>5. i # path
    BY <1>4, RequestsConstants DEF WriteInv, PathKept, Unused
  <2>6. path # None => inode'[path] = inode[path]
    BY <1>4, <2>5 DEF AnswerInv
  <2>7. /\ inode' \in [Inodes -> Contents] /\ path' \in Inodes \cup {None}
        /\ tmp' \in Inodes \cup {None} /\ job' \in [Agents -> JobType]
        /\ \A b \in Agents \ {a} : job'[b] = job[b]
    BY <1>4, <2>1, <2>2 DEF AnswerInv, Contents
  <2>8. ASSUME NEW b \in Agents PROVE Sized(b)' /\ Complete(b)'
    <3>1. CASE b = a
      BY <2>4, <3>1
    <3>2. CASE b # a
      BY <1>1, <1>4, <2>6, <2>7, <3>2 DEF AnswerInv, Sized, Complete
    <3> QED
      BY <3>1, <3>2
  <2> QED
    BY <1>1, <1>4, <2>7, <2>8 DEF AnswerInv
<1> QED
  <2> DEFINE i == IF tmp # None THEN tmp ELSE Fresh
  <2>1. CASE Fails(a) /\ UNCHANGED files
    BY <2>1, <1>3
  <2>2. CASE ~(Fails(a) /\ UNCHANGED files)
    <3>1. /\ tmp # None \/ Unused # {}
          /\ tmp' = i
          /\ inode' = [inode EXCEPT ![i] = Empty]
          /\ job' = [job EXCEPT ![a].at = "fill", ![a].fd = i]
          /\ crossed' = IF Writing # {} THEN crossed \cup {i}
                        ELSE crossed \ {i}
          /\ path' = path
      BY <2>2 DEF OpenTmp
    <3>2. (tmp # None /\ i = tmp) \/ (tmp = None /\ i \in Unused)
      BY <3>1, FreshIsUnused
    <3> HIDE DEF i
    <3>3. i \in Inodes
      BY <3>2 DEF AnswerInv, Unused
    <3>4. crossed' \in SUBSET Inodes
      BY <3>1, <3>3 DEF AnswerInv
    <3> QED
      BY <3>1, <3>2, <3>3, <3>4, <1>4
  <2> QED
    BY <2>1, <2>2

\* The file that a rename or a write has changed is another one to the rest.
LEMMA AnswersReplace ==
    ASSUME AnswerInv, NEW a \in Agents, NEW j1 \in [Agents -> JobType],
           \A b \in Agents \ {a} : j1[b] = job[b],
           job' = Replaced(j1, a), UNCHANGED <<cmd, jobs>>,
           j1[a].op \in {"write", "edit"}, j1[a].at # "readLoad",
           j1[a].ok => j1[a].at = "answered",
           inode' \in [Inodes -> Contents],
           path' \in Inodes, tmp' \in Inodes \cup {None},
           crossed' \in SUBSET Inodes
    PROVE  AnswerInv'
<1>1. /\ job' \in [Agents -> JobType] /\ job'[a] = j1[a]
      /\ \A b \in Agents \ {a} : job'[b] = [job[b] EXCEPT !.still = FALSE]
  BY ReplacedTyped
<1>2. Sized(a)' /\ Complete(a)'
  BY <1>1, WriterFine
<1>3. ASSUME NEW b \in Agents, b # a PROVE Sized(b)' /\ Complete(b)'
  <2>1. /\ job'[b].op = job[b].op /\ job'[b].at = job[b].at
        /\ job'[b].ok = job[b].ok /\ job'[b].cut = job[b].cut
        /\ job'[b].data = job[b].data /\ job'[b].stat = job[b].stat
        /\ job'[b].hits = job[b].hits /\ job'[b].tree = job[b].tree
        /\ ~job'[b].still
    <3>1. job[b] \in JobType /\ job'[b] \in JobType
      BY <1>1 DEF AnswerInv
    <3> QED
      BY <1>1, <1>3, <3>1, ReplacedFields
  <2>2. path' # None
    BY RequestsConstants
  <2> QED
    BY <2>1, <2>2 DEF AnswerInv, Sized, Complete
<1> QED
  BY <1>1, <1>2, <1>3 DEF AnswerInv

LEMMA AnswersRename ==
    ASSUME WriteInv, AnswerInv, NEW a \in Agents, Rename(a)
    PROVE  AnswerInv'
<1>1. job[a] \in JobType /\ Complete(a) /\ job[a].at = "rename"
        /\ UNCHANGED <<inode, crossed, cmd, jobs>>
        /\ job[a].op \in {"write", "edit"}
  BY DEF AnswerInv, Rename, At, Complete
<1>2. "answered" \in Steps
  BY DEF Steps
<1>3. CASE Fails(a) /\ UNCHANGED <<path, tmp>>
  <2> DEFINE j == [job[a] EXCEPT !.at = "answered", !.error = "failed",
                                 !.fd = None]
  <2>1. j \in JobType /\ j.op = job[a].op /\ j.at = "answered"
    BY <1>1, <1>2 DEF JobType
  <2>2. job' = [job EXCEPT ![a] = j] /\ job'[a] = j
    BY <1>3 DEF Fails, AnswerInv, JobType
  <2> HIDE DEF j
  <2>3. Sized(a)' /\ Complete(a)'
    BY <1>1, <2>1, <2>2, WriterFine
  <2> QED
    BY <1>1, <1>3, <2>1, <2>2, <2>3, AnswersMove DEF AnswerInv, files
<1>4. CASE /\ tmp # None /\ path' = tmp /\ tmp' = None
           /\ job' = Replaced([job EXCEPT ![a].at = "answered", ![a].ok = TRUE,
                                          ![a].put = inode[tmp]], a)
  <2> DEFINE p == inode[tmp]
             j == [job[a] EXCEPT !.at = "answered", !.ok = TRUE, !.put = p]
             j1 == [job EXCEPT ![a] = j]
  <2>1. tmp \in Inodes /\ p \in Contents
    BY <1>4 DEF AnswerInv
  <2> HIDE DEF p
  <2>2. j \in JobType /\ j.op = job[a].op /\ j.at = "answered"
    BY <1>1, <1>2, <2>1 DEF JobType
  <2>3. job' = Replaced(j1, a)
    BY <1>1, <1>4 DEF p, AnswerInv, JobType
  <2> HIDE DEF j
  <2>4. /\ j1 \in [Agents -> JobType] /\ j1[a] = j
        /\ \A b \in Agents \ {a} : j1[b] = job[b]
    BY <2>2 DEF AnswerInv
  <2> HIDE DEF j1
  <2>5. /\ inode' \in [Inodes -> Contents] /\ crossed' \in SUBSET Inodes
        /\ path' \in Inodes /\ tmp' \in Inodes \cup {None}
    BY <1>1, <1>4, <2>1 DEF AnswerInv
  <2> QED
    BY <1>1, <2>2, <2>3, <2>4, <2>5, AnswersReplace
<1> QED
  BY <1>3, <1>4 DEF Rename

LEMMA AnswersFill ==
    ASSUME WriteInv, AnswerInv, NEW a \in Agents, Fill(a)
    PROVE  AnswerInv'
<1> DEFINE i == job[a].fd
<1>1. job[a] \in JobType /\ Complete(a) /\ job[a].at = "fill"
        /\ UNCHANGED <<path, tmp, cmd, jobs>>
        /\ job[a].op \in {"write", "edit"} /\ ~job[a].ok
  BY DEF AnswerInv, Fill, At, Complete
<1>2. i \in Inodes /\ job[a].data \in Versions \cup {Torn}
  BY <1>1 DEF WriteInv, Writes, Owns, Keeps
<1>3. "answered" \in Steps /\ "rename" \in Steps
  BY DEF Steps
<1>4. crossed' \in SUBSET Inodes
  BY <1>2 DEF Fill, AnswerInv
<1>5. PICK c \in Contents, j \in {[job[a] EXCEPT !.at = "rename"],
                                 [job[a] EXCEPT !.at = "answered",
                                                !.fd = None,
                                                !.error = "failed"]} :
         /\ inode' = [inode EXCEPT ![i] = c]
         /\ job' = Filled(a, [job EXCEPT ![a] = j])
  <2>1. job[a].data \in Contents /\ Torn \in Contents
    BY <1>2 DEF Contents
  <2>2. /\ [job EXCEPT ![a].at = "rename"]
             = [job EXCEPT ![a] = [job[a] EXCEPT !.at = "rename"]]
        /\ [job EXCEPT ![a].at = "answered", ![a].fd = None,
                       ![a].error = "failed"]
             = [job EXCEPT ![a] = [job[a] EXCEPT !.at = "answered",
                                                 !.fd = None,
                                                 !.error = "failed"]]
    BY DEF AnswerInv, JobType
  <2> QED
    BY <2>1, <2>2 DEF Fill
<1> DEFINE j1 == [job EXCEPT ![a] = j]
<1>6. /\ j \in JobType /\ j.op = job[a].op /\ j.at \in {"rename", "answered"}
      /\ j.ok = job[a].ok
  BY <1>1, <1>3 DEF JobType
<1>7. /\ j1 \in [Agents -> JobType] /\ j1[a] = j
      /\ \A b \in Agents \ {a} : j1[b] = job[b]
  BY <1>6 DEF AnswerInv
<1>8. /\ inode' \in [Inodes -> Contents] /\ path' \in Inodes \cup {None}
      /\ tmp' \in Inodes \cup {None}
  BY <1>1, <1>2, <1>5 DEF AnswerInv
<1>9. CASE i = path
  <2>1. job' = Replaced(j1, a)
    BY <1>5, <1>9 DEF Filled
  <2>2. path' \in Inodes
    BY <1>1, <1>2, <1>9
  <2> HIDE DEF j1, i
  <2> QED
    BY <1>1, <1>4, <1>6, <1>7, <1>8, <2>1, <2>2, AnswersReplace
<1>10. CASE i # path
  <2>1. job' = j1
    BY <1>5, <1>10 DEF Filled
  <2> HIDE DEF j1
  <2>2. path # None => inode'[path] = inode[path]
    BY <1>5, <1>10 DEF AnswerInv
  <2>3. Sized(a)' /\ Complete(a)'
    BY <1>1, <1>6, <1>7, <2>1, WriterFine
  <2>4. ASSUME NEW b \in Agents PROVE Sized(b)' /\ Complete(b)'
    <3>1. CASE b = a
      BY <2>3, <3>1
    <3>2. CASE b # a
      BY <1>1, <1>7, <2>1, <2>2, <3>2 DEF AnswerInv, Sized, Complete
    <3> QED
      BY <3>1, <3>2
  <2> QED
    BY <1>1, <1>4, <1>7, <1>8, <2>1, <2>4 DEF AnswerInv
<1> QED
  BY <1>9, <1>10

LEMMA AnswersKeep == WriteInv /\ AnswerInv /\ [Next]_vars => AnswerInv'
<1> SUFFICES ASSUME WriteInv, AnswerInv, [Next]_vars PROVE AnswerInv'
  OBVIOUS
<1>1. CASE UNCHANGED requestVars
  BY <1>1 DEF requestVars, files, AnswerInv, Sized, Complete
<1>2. ASSUME NEW v \in Versions, LocalSave(v) PROVE AnswerInv'
  BY <1>2, AnswersSave
<1>3. ASSUME NEW a \in Agents, Request(a) \/ Machine(a) \/ Gone(a)
      PROVE  AnswerInv'
  BY <1>3, AnswersBegin, AnswersCommand, AnswersGone
<1>4. ASSUME NEW a \in Agents, Works(a) PROVE AnswerInv'
  <2>1. CASE OpenTmp(a)
    BY <2>1, AnswersOpen
  <2>2. CASE Fill(a)
    BY <2>2, AnswersFill
  <2>3. CASE Rename(a)
    BY <2>3, AnswersRename
  <2>4. CASE Reads(a)
    BY <2>4, AnswersRead
  <2>5. CASE \/ Deadline(a) \/ WaitDelay(a)
             \/ \E held \in BOOLEAN : Kill(a, held)
    BY <2>5, AnswersCommand
  <2> QED
    BY <1>4, <2>1, <2>2, <2>3, <2>4, <2>5 DEF Works, Reads
<1> QED
  BY <1>1, <1>2, <1>3, <1>4, HostConstants
  DEF Next, vars, Serves, ServiceEnds, DesktopEnds

\* Files, requests and commands have their types, and so have the parts of the
\* update, whatever agents execute and whenever they end.
THEOREM HostTypeCorrect == Spec => []HostTypeOK
<1>1. UpdateInv /\ [Next]_vars => UpdateInv'
  BY UpdateSteps, UpdateStutters
  DEF Next, vars, Serves, ServiceEnds, DesktopEnds
<1>2. UpdateInv /\ AnswerInv => HostTypeOK
  BY DEF UpdateInv, AnswerInv, HostTypeOK, TypeOK, JobType, CmdType
<1> QED
  BY UpdateStarts, WritesStart, AnswersStart, <1>1, NextKeeps, AnswersKeep,
     <1>2, PTL
  DEF Spec

\* An answer that is not marked as cut is complete, although the mark of a
\* read is set by a size that was seen before the file was opened, and that of
\* a search by its count alone: of a search, as far as the files go that it
\* looks into.
THEOREM UntruncatedEver == Spec => []Untruncated
<1>1. AnswerInv => Untruncated
  <2> SUFFICES ASSUME AnswerInv, NEW a \in Agents, job[a].ok, ~job[a].cut
               PROVE  CASE job[a].op = "read" ->
                             job[a].still => SizeOf(job[a].data) <= ReadLimit
                        [] job[a].op = "exec" -> cmd[a].kept = cmd[a].out
                        [] job[a].op = "grep" ->
                             Scanned(job[a].tree, Len(job[a].tree))
                                <= ScanLimit =>
                                 job[a].hits = Sum(Searched("grep", job[a].tree))
                        [] job[a].op = "glob" ->
                             job[a].hits = Sum(Searched("glob", job[a].tree))
                        [] OTHER -> TRUE
    BY DEF Untruncated
  <2>1. Complete(a)
    BY DEF AnswerInv
  <2> QED
    BY <2>1 DEF Complete
<1> QED
  BY WritesStart, AnswersStart, NextKeeps, AnswersKeep, <1>1, PTL DEF Spec
=============================================================================
