------------------------------ MODULE Requests ------------------------------
(***************************************************************************)
(* The requests an agent executes on its machine (internal/agent/exec.go,  *)
(* search.go and safe.go): writing, editing and reading one file, running  *)
(* a command with a time limit, searching a tree.                          *)
(*                                                                         *)
(* An agent executes its requests one after the other, but a machine may   *)
(* have several agents: the desktop program's and the service's.  They     *)
(* meet in the file system, where a step is a system call.  A file is an   *)
(* inode; path and tmp are the names of the file and of the temporary file *)
(* that writing it goes through, `path + ".oclink.tmp"` for every writer.  *)
(***************************************************************************)
EXTENDS Naturals, Sequences, FiniteSets

CONSTANTS
    Agents,
    Inodes,    \* bound: one for the path, one for its temporary file and one
               \* for each agent are enough
    Versions,  \* contents the file may have
    Size,      \* of each version
    ReadLimit, \* maxReadBytes, 4 MB
    EditLimit, \* maxEditBytes, 8 MB
    OutLimit,  \* maxOutputBytes, 200 KB
    Trees,     \* trees to search, their files in the order of the walk
    HitLimit,  \* maxMatches, 500, or what the request asks for
    ScanLimit, \* maxScanFiles, 20000
    MaxOut,    \* bound: pieces of output
    MaxJobs,   \* bound: requests
    None

\* Torn is what a write leaves that was cut short or ran into another one.
Torn  == "torn"
Empty == "empty"

\* What there is to find in a file of a tree, and what kind of file it is: text,
\* text of more than maxGrepFileBytes, binary, one that cannot be read, or one
\* in a directory that cannot be read or that is left out by its name.
File == [matches : Nat, kind : {"text", "large", "binary", "shut", "aside"}]

ASSUME RequestsConstants ==
    /\ Inodes # {} /\ Versions # {}
    /\ None \notin Agents \cup Inodes \cup Versions \cup {Torn, Empty}
    /\ Torn \notin Versions /\ Empty \notin Versions
    /\ Size \in [Versions -> Nat] /\ Trees \subseteq Seq(File)
    /\ ReadLimit \in Nat /\ EditLimit \in Nat /\ OutLimit \in Nat
    /\ HitLimit \in Nat \ {0} /\ ScanLimit \in Nat
    /\ MaxOut \in Nat /\ MaxJobs \in Nat

VARIABLES
    inode,     \* the content of each inode
    path, tmp, \* the inodes the names stand for
    job,       \* the request of each agent
    cmd,       \* the command of each agent
    jobs,
    \* history
    crossed    \* inodes opened while another agent was writing the file, and
               \* what an edit made of one

files == <<inode, path, tmp, crossed>>
requestVars == <<files, job, cmd, jobs>>

Contents == Versions \cup {Torn, Empty}

Steps == {"idle", "open", "fill", "rename", "editStat", "editLoad",
          "readStat", "readLoad", "run", "answered"}

\* stat is the size seen by Stat, data what is to be written or was read, put
\* what a rename brought to the path, still whether the file stayed the
\* same since the request began, ok, error and cut the answer.
NoJob == [op |-> "none", at |-> "idle", data |-> None, fd |-> None,
          stat |-> 0, put |-> None, still |-> TRUE, ok |-> FALSE,
          error |-> "none", cut |-> FALSE, hits |-> 0, tree |-> None]

\* A command: state of its process, whether a descendant that left its group
\* still holds its output, whether the time limit has passed, what was
\* written and what was kept of it.
NoCmd == [proc |-> "none", held |-> FALSE, due |-> FALSE, late |-> FALSE,
          out |-> 0, kept |-> 0, cut |-> FALSE]

TypeOK ==
    /\ inode \in [Inodes -> Contents]
    /\ path \in Inodes \cup {None} /\ tmp \in Inodes \cup {None}
    /\ job \in [Agents ->
         [op : {"none", "write", "edit", "read", "exec", "grep", "glob"},
          at : Steps, data : Contents \cup {None}, fd : Inodes \cup {None},
          stat : Nat, put : Contents \cup {None}, still : BOOLEAN,
          ok : BOOLEAN, error : {"none", "failed", "timeout"},
          cut : BOOLEAN, hits : 0 .. HitLimit, tree : Trees \cup {None}]]
    /\ cmd \in [Agents ->
         [proc : {"none", "running", "good", "bad", "killed"},
          held : BOOLEAN, due : BOOLEAN, late : BOOLEAN,
          out : 0 .. MaxOut, kept : 0 .. OutLimit, cut : BOOLEAN]]
    /\ jobs \in 0 .. MaxJobs
    /\ crossed \in SUBSET Inodes

RequestsInit ==
    /\ LET i == CHOOSE j \in Inodes : TRUE
       IN /\ path \in {i, None}
          /\ \E v \in Versions :
                inode = [j \in Inodes |-> IF j = i THEN v ELSE Empty]
    /\ tmp = None
    /\ job = [a \in Agents |-> NoJob]
    /\ cmd = [a \in Agents |-> NoCmd]
    /\ crossed = {}

-----------------------------------------------------------------------------

At(a, place)  == job[a].at = place
Goto(a, place) == job' = [job EXCEPT ![a].at = place]

Fails(a) == job' = [job EXCEPT ![a].at = "answered", ![a].error = "failed",
                               ![a].fd = None]

Idle(a) == job[a].at \in {"idle", "answered"}

\* handleRequestSafe and HandleRequest: the next request of the agent.
Begin(a, op, place, data) ==
    /\ Idle(a) /\ jobs < MaxJobs
    /\ jobs' = jobs + 1
    /\ job' = [job EXCEPT ![a] = [NoJob EXCEPT !.op = op, !.at = place,
                                               !.data = data]]
    /\ UNCHANGED <<files, cmd>>

Writing == {a \in Agents : job[a].at \in {"fill", "rename"}}

Unused == Inodes \ ({path, tmp} \cup {job[a].fd : a \in Agents})
Fresh  == CHOOSE i \in Unused : TRUE

SizeOf(c) == IF c \in Versions THEN Size[c] ELSE 0
Least(m, n) == IF m < n THEN m ELSE n

\* The file is another one now; the requests of others learn nothing of it.
Replaced(jobs1, a) ==
    [b \in Agents |-> IF b = a THEN jobs1[b]
                      ELSE [jobs1[b] EXCEPT !.still = FALSE]]

-----------------------------------------------------------------------------
(* Mutated forms: what a slip in the code would make of a definition below. *)

\* The file is written in place, without a temporary one.
OpensPathItself(a) ==
    /\ At(a, "open")
    /\ path # None
    /\ inode' = [inode EXCEPT ![path] = Empty]
    /\ job' = [job EXCEPT ![a].at = "fill", ![a].fd = path]
    /\ crossed' = IF Writing # {} THEN crossed \cup {path} ELSE crossed
    /\ UNCHANGED <<path, tmp, cmd, jobs>>

\* The answer is marked by what was read, not by the file's size.
ReadMarksNothing(a) ==
    LET content == inode[path]
    IN /\ At(a, "readLoad")
       /\ job' = [job EXCEPT ![a].at = "answered", ![a].ok = TRUE,
                             ![a].data = content,
                             ![a].cut = SizeOf(content) < job[a].stat]
       /\ UNCHANGED <<files, cmd, jobs>>

\* A piece of output is kept and the limit is looked at afterwards.
EmitsPastLimit(a) ==
    LET c == cmd[a]
    IN /\ At(a, "run") /\ (c.proc = "running" \/ c.held)
       /\ c.out < MaxOut
       /\ cmd' = [cmd EXCEPT ![a].out = c.out + 1,
                             ![a].kept = IF c.kept > OutLimit THEN c.kept
                                         ELSE c.kept + 1,
                             ![a].cut = c.kept + 1 > OutLimit]
       /\ UNCHANGED <<files, job, jobs>>

\* The exit status is looked at before the time limit.
OutcomeByStatus(c) ==
    CASE c.proc = "good" -> IF c.late THEN "failed" ELSE "ok"
      [] c.proc = "killed" -> "status"
      [] OTHER -> IF c.due THEN "timeout" ELSE "status"

-----------------------------------------------------------------------------
(* doWrite, and the end of doEdit. *)

\* WriteFile opens the temporary file, whoever left or holds one.
OpenTmp(a) ==
    /\ At(a, "open")
    /\ \/ /\ Fails(a)
          /\ UNCHANGED files
       \/ LET i == IF tmp # None THEN tmp ELSE Fresh
          IN /\ tmp # None \/ Unused # {}
             /\ tmp' = i
             /\ inode' = [inode EXCEPT ![i] = Empty]
             /\ job' = [job EXCEPT ![a].at = "fill", ![a].fd = i]
             /\ crossed' = IF Writing # {} THEN crossed \cup {i}
                           ELSE crossed \ {i}
             /\ UNCHANGED path
    /\ UNCHANGED <<cmd, jobs>>

\* Another writer may have moved the file into place meanwhile.
Filled(a, jobs1) == IF job[a].fd = path THEN Replaced(jobs1, a) ELSE jobs1

\* It writes from the start over what is there, and may run out of space.
Fill(a) ==
    LET i == job[a].fd
        overlay == IF inode[i] = Empty THEN {job[a].data}
                   ELSE {job[a].data, Torn}
    IN /\ At(a, "fill")
       /\ \/ /\ \E c \in overlay : inode' = [inode EXCEPT ![i] = c]
             /\ job' = Filled(a, [job EXCEPT ![a].at = "rename"])
          \/ /\ inode' = [inode EXCEPT ![i] = Torn]
             /\ job' = Filled(a, [job EXCEPT ![a].at = "answered",
                                             ![a].fd = None,
                                             ![a].error = "failed"])
       /\ crossed' = IF job[a].data = Torn THEN crossed \cup {i} ELSE crossed
       /\ UNCHANGED <<path, tmp, cmd, jobs>>

\* Rename moves whatever the temporary name stands for.
Rename(a) ==
    /\ At(a, "rename")
    /\ \/ /\ tmp # None
          /\ path' = tmp /\ tmp' = None
          /\ job' = Replaced([job EXCEPT ![a].at = "answered", ![a].ok = TRUE,
                                         ![a].put = inode[tmp]], a)
       \/ /\ Fails(a)
          /\ UNCHANGED <<path, tmp>>
    /\ UNCHANGED <<inode, crossed, cmd, jobs>>

-----------------------------------------------------------------------------
(* doEdit reads the file before it writes it, doRead reads it. *)

EditStat(a) ==
    /\ At(a, "editStat")
    /\ IF path = None \/ SizeOf(inode[path]) > EditLimit
          THEN Fails(a) ELSE Goto(a, "editLoad")
    /\ UNCHANGED <<files, cmd, jobs>>

\* The text is found, once or to be replaced everywhere, or it is not; it may
\* be found in what is left of a torn file.
EditLoad(a, result) ==
    /\ At(a, "editLoad")
    /\ \/ Fails(a)
       \/ /\ inode[path] # Empty
          /\ job' = [job EXCEPT ![a].at = "open",
                       ![a].data = IF inode[path] = Torn THEN Torn ELSE result]
    /\ UNCHANGED <<files, cmd, jobs>>

ReadStat(a) ==
    /\ At(a, "readStat")
    /\ IF path = None THEN Fails(a)
       ELSE job' = [job EXCEPT ![a].at = "readLoad", ![a].still = TRUE,
                               ![a].stat = SizeOf(inode[path])]
    /\ UNCHANGED <<files, cmd, jobs>>

\* The answer is called cut by the size that was seen before the file was
\* opened.
ReadLoad(a) ==
    LET content == inode[path]
        read == Least(SizeOf(content), ReadLimit)
    IN /\ At(a, "readLoad")
       /\ \/ Fails(a)
          \/ job' = [job EXCEPT ![a].at = "answered", ![a].ok = TRUE,
                                ![a].data = content,
                                ![a].cut = job[a].stat > read]
       /\ UNCHANGED <<files, cmd, jobs>>

-----------------------------------------------------------------------------
(* doExec. *)

Exec(a) ==
    /\ Idle(a) /\ jobs < MaxJobs
    /\ jobs' = jobs + 1
    /\ job' = [job EXCEPT ![a] = [NoJob EXCEPT !.op = "exec", !.at = "run"]]
    /\ cmd' = [cmd EXCEPT ![a] = [NoCmd EXCEPT !.proc = "running"]]
    /\ UNCHANGED files

\* limitWriter takes what has room and counts nothing of the rest.
Emits(a) ==
    LET c == cmd[a]
    IN /\ At(a, "run") /\ (c.proc = "running" \/ c.held)
       /\ c.out < MaxOut
       /\ cmd' = [cmd EXCEPT
                    ![a].out = c.out + 1,
                    ![a].kept = Least(c.kept + 1, OutLimit),
                    ![a].cut = c.cut \/ c.kept >= OutLimit]
       /\ UNCHANGED <<files, job, jobs>>

CommandEnds(a, how, held) ==
    /\ At(a, "run") /\ cmd[a].proc = "running"
    /\ cmd' = [cmd EXCEPT ![a].proc = how, ![a].held = held]
    /\ UNCHANGED <<files, job, jobs>>

\* The context's deadline, and the timer of Wait five seconds after it or
\* after the end of the process.
Deadline(a) ==
    /\ At(a, "run") /\ ~cmd[a].due
    /\ cmd' = [cmd EXCEPT ![a].due = TRUE]
    /\ UNCHANGED <<files, job, jobs>>

WaitDelay(a) ==
    /\ At(a, "run") /\ cmd[a].held /\ ~cmd[a].late
    /\ cmd' = [cmd EXCEPT ![a].late = TRUE]
    /\ UNCHANGED <<files, job, jobs>>

\* killTree reaches the group of the command, not who has left it.
Kill(a, held) ==
    /\ At(a, "run") /\ cmd[a].due /\ cmd[a].proc = "running"
    /\ cmd' = [cmd EXCEPT ![a].proc = "killed", ![a].held = held]
    /\ UNCHANGED <<files, job, jobs>>

Outcome(c) ==
    CASE c.due -> "timeout"
      [] ~c.due /\ c.proc = "good" -> IF c.late THEN "failed" ELSE "ok"
      [] OTHER -> "status"

\* Run returns once the process has ended and its output is closed or given
\* up; the deadline is looked at afterwards.
ExecAnswers(a) ==
    LET c == cmd[a]
        outcome == Outcome(c)
    IN /\ At(a, "run") /\ c.proc # "running" /\ (c.held => c.late)
       /\ job' = [job EXCEPT
                    ![a].at = "answered", ![a].ok = outcome = "ok",
                    ![a].cut = c.cut,
                    ![a].error = IF outcome \in {"timeout", "failed"}
                                    THEN outcome ELSE "none"]
       /\ UNCHANGED <<files, cmd, jobs>>

-----------------------------------------------------------------------------
(* doGrep looks for lines and doGlob for names. *)

\* grep leaves out what is no text, too large or not to be read, and says
\* nothing of it; neither enters every directory.
Seen(op, file) ==
    IF file.kind = "text" \/ (op = "glob" /\ file.kind # "aside")
    THEN file.matches ELSE 0

\* grep counts the files it comes by, also those it leaves out.
Scanned(t, i)   == Cardinality({j \in 1 .. i : t[j].kind # "aside"})
GaveUp(t, op, i) == op = "grep" /\ Scanned(t, i) > ScanLimit

Hits(t, op) ==
    LET found[i \in 0 .. Len(t)] ==
          IF i = 0 THEN 0
          ELSE IF found[i - 1] >= HitLimit \/ GaveUp(t, op, i) THEN found[i - 1]
          ELSE Least(HitLimit, found[i - 1] + Seen(op, t[i]))
    IN found[Len(t)]

\* The answer is called cut by its count alone.
Search(a, op, t) ==
    LET n == Hits(t, op)
    IN /\ Idle(a) /\ jobs < MaxJobs
       /\ op = "glob" => \A i \in DOMAIN t : t[i].matches <= 1
       /\ jobs' = jobs + 1
       /\ job' = [job EXCEPT ![a] =
                    [NoJob EXCEPT !.op = op, !.at = "answered", !.ok = TRUE,
                                  !.tree = t, !.hits = n,
                                  !.cut = n >= HitLimit]]
       /\ UNCHANGED <<files, cmd>>

-----------------------------------------------------------------------------

\* Another program saves the file, as a whole.
LocalSave(v) ==
    /\ jobs < MaxJobs
    /\ jobs' = jobs + 1
    /\ Unused # {}
    /\ LET i == Fresh
       IN /\ path' = i
          /\ inode' = [inode EXCEPT ![i] = v]
          /\ crossed' = crossed \ {i}
    /\ job' = Replaced(job, None)
    /\ UNCHANGED <<tmp, cmd>>

\* The agent's process ends, with what it was about; what it has written stays.
Gone(a) ==
    /\ job' = [job EXCEPT ![a] = NoJob]
    /\ cmd' = [cmd EXCEPT ![a] = NoCmd]
    /\ UNCHANGED <<files, jobs>>

Request(a) ==
    \/ \E v \in Versions : Begin(a, "write", "open", v)
    \/ Begin(a, "edit", "editStat", None)
    \/ Begin(a, "read", "readStat", None)
    \/ Exec(a)
    \/ \E op \in {"grep", "glob"}, t \in Trees : Search(a, op, t)

Works(a) ==
    \/ OpenTmp(a) \/ Fill(a) \/ Rename(a)
    \/ EditStat(a)
    \/ \E v \in Versions : EditLoad(a, v)
    \/ ReadStat(a) \/ ReadLoad(a)
    \/ Deadline(a) \/ WaitDelay(a) \/ ExecAnswers(a)
    \/ \E held \in BOOLEAN : Kill(a, held)

Machine(a) ==
    \/ Emits(a)
    \/ \E how \in {"good", "bad"}, held \in BOOLEAN : CommandEnds(a, how, held)
=============================================================================
