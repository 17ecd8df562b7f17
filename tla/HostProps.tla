----------------------------- MODULE HostProps ------------------------------
(***************************************************************************)
(* What a controlled machine promises, over the module Host.               *)
(***************************************************************************)
EXTENDS Host

HostTypeOK == TypeOK /\ UpdateTypeOK

\* However a writer is cut short, by its end or by a full disk, the file is
\* a version that somebody wrote, and a write that is confirmed has put its
\* own there: unless two agents were writing it at once.
PathWhole ==
    /\ path # None /\ path \notin crossed => inode[path] \in Versions
    /\ \A a \in Agents :
          job[a].ok /\ job[a].op \in {"write", "edit"}
                    /\ job[a].fd \notin crossed
              => job[a].put = job[a].data

Sum(t) ==
    LET sum[i \in 0 .. Len(t)] == IF i = 0 THEN 0 ELSE sum[i - 1] + t[i]
    IN sum[Len(t)]

\* What grep and glob are good for, of each file of a tree.  They do not say
\* what they leave out: grep the files of more than 1 MB, with binary content
\* or that it cannot read, both the directories that they cannot read or that
\* have one of eight names.
Searched(op, t) == [i \in DOMAIN t |->
    IF \/ t[i].kind = "text"
       \/ op = "glob" /\ t[i].kind \in {"large", "binary", "shut"}
    THEN t[i].matches ELSE 0]

\* An answer that is not marked as cut is complete: a file that was not
\* replaced while it was read, the output of a command, the names that match
\* in the directories that are entered, the matching lines of the readable
\* text files of up to 1 MB there; but grep gives up after ScanLimit files and
\* does not say that either.
Untruncated == \A a \in Agents :
    job[a].ok /\ ~job[a].cut =>
        CASE job[a].op = "read" -> job[a].still =>
                                      SizeOf(job[a].data) <= ReadLimit
          [] job[a].op = "exec" -> cmd[a].kept = cmd[a].out
          [] job[a].op = "grep" ->
                Scanned(job[a].tree, Len(job[a].tree)) <= ScanLimit =>
                    job[a].hits = Sum(Searched("grep", job[a].tree))
          [] job[a].op = "glob" ->
                job[a].hits = Sum(Searched("glob", job[a].tree))
          [] OTHER -> TRUE

\* A command that is answered as done ended well by itself, and one that was
\* killed is answered as timed out.
ExecHonest == \A a \in Agents :
    job[a].op = "exec" /\ job[a].at = "answered" =>
        /\ job[a].ok => cmd[a].proc = "good"
        /\ cmd[a].proc = "killed" => job[a].error = "timeout"

\* The program's file is a whole program at every moment but between the two
\* renames, unless a crash or a fault hit the staged file or the renames.
ExeWhole == exe \in Releases \/ proc = "mid" \/ hurt

\* A service ends up running the version that is published last.
UpdateArrives == <>[](hurt \/ (proc = "up" /\ running = release["man"]))
=============================================================================
