---------------------------- MODULE DesktopProps ----------------------------
(***************************************************************************)
(* What the desktop program promises its user, over the module Desktop.    *)
(***************************************************************************)
EXTENDS Desktop

Alive(r)   == pc[r] \notin {"none", "done"}
Quiet      == \A t \in Tasks : ~AtWork(t)
Syncing    == \E s \in Syncs : sync[s].on

\* Unless two calls met in startAgent, every agent that is alive is the one
\* the program holds, told to stop or not: there is none it could not stop,
\* and none beside another.
Held == ~raced => \A r \in Runs : Alive(r) => ag = r

\* With nothing at work, a paired machine has an agent at work under its
\* present identity; or, when the user has stopped it and no call has started
\* an agent since, it has none that is alive.  Excepted are a stop that was
\* given up, calls that overlapped, and an identity that was imported and
\* could not be saved or found no agent.
InService ==
    Quiet /\ ~overlapped /\ ~gaveUp
          /\ (\A t \in Tasks : task[t].op = "import" => task[t].was)
        => IF halted THEN \A r \in Runs : ~Alive(r)
           ELSE key # None =>
                    \E r \in Runs : Alive(r) /\ ~stopped[r] /\ ident[r] = key

\* A program that thinks the relay has its credentials is right, as long as
\* its identity stays, and no acknowledgement of a credential, or of a record
\* that the relay made again, is lost or misunderstood.
SyncedTrue ==
    synced /\ ~Syncing /\ ~rekeyed /\ ~unheard /\ key \in known
          /\ (\A r \in Runs : pc[r] # "again")
          /\ (\A t \in Tasks : task[t].op = "remove" => ~AtWork(t))
        => creds \ (lost \cup misread) \subseteq filed[key]

\* Of a machine that has had one identity only, the relay keeps no credential
\* that the program has forgotten, but for those whose acknowledgement or
\* record was lost, or that a synchronisation had copied when they were
\* revoked.
NoOrphans ==
    Quiet /\ born = {key} => filed[key] \subseteq creds \cup lost \cup misread

\* What the window shows of a ban is what the agent in service was told,
\* unless the program came with it from its file or from an earlier agent,
\* or an agent it has lost is still listening.
ShownTrue ==
    ~raced /\ ~inherited =>
        \A r \in Runs : ag = r /\ pc[r] = "serve" => shown = disabled[r]

\* An agent that was told to stop has no connection the relay could reach it
\* by and makes no other, unless it was dialling at the time.
Silenced ==
    \A r \in Runs :
        stopped[r] /\ r \notin cut => link[r] # "open" /\ pc[r] # "dial"

-----------------------------------------------------------------------------
(* Inductive strengthenings.  Calls one after the other: whoever is past   *)
(* the stop holds no agent, and the agent of an identity that is to be     *)
(* replaced is at work until then.                                         *)

\* An agent that has not begun has been told nothing; the one that is held
\* was told what the window shows.
Shows ==
    /\ \A r \in Runs : pc[r] = "none" => ~disabled[r]
    /\ ~raced /\ ~inherited => \A r \in Runs : ag = r => shown = disabled[r]

\* A call that has not begun is of no operation.
Blank == \A t \in Tasks : task[t].at = "idle" => task[t].op = "none"

\* Calls that do not overlap do not meet in startAgent, and the identity an
\* agent is started with is the present one.
Solo ==
    ~overlapped =>
        /\ ~raced
        /\ \A t, u \in Tasks : AtWork(t) /\ AtWork(u) => t = u
        /\ \A t \in Tasks :
              task[t].at = "launch" => key # None /\ task[t].key = key

Serving == \E r \in Runs : Alive(r) /\ ~stopped[r] /\ ident[r] = key

\* An agent is at work, or the user has stopped it.
InPlace ==
    /\ halted => ag = None
    /\ ~halted /\ key # None => Serving

\* How far call t has got, and what it will find there.
Unheld(t) ==
    \/ task[t].at \in {"clear", "launch"}
    \/ task[t].at = "start" /\ task[t].op # "start"
    \/ /\ task[t].at \in {"net", "commit"}
       /\ task[t].op \in {"invite", "remove"} \/ ~task[t].was

Staged(t) ==
    /\ Unheld(t) => ag = None
    /\ task[t].op \in {"invite", "remove"} => task[t].was \/ halted
    /\ task[t].at = "net" /\ task[t].op = "enroll" => InPlace
    /\ task[t].at = "wait" => ag \in {task[t].mine, None}
    /\ task[t].op = "start" =>
          /\ task[t].at \in {"start", "launch"} /\ ~halted
          /\ ag # None /\ key # None => Serving
    /\ task[t].op = "stop" => halted

Orderly ==
    /\ ~overlapped /\ ~gaveUp
    /\ \A t \in Tasks : task[t].op = "import" => task[t].was

ServiceInv ==
    Orderly => /\ \A t \in Tasks : AtWork(t) => Staged(t)
               /\ Quiet => InPlace

\* Identities in use exist, and the relay files nothing under one it does not
\* know.
KeysBorn == \A i \in {key, disk.key, agentJson} : i # None => i \in born

TasksBorn ==
    \A t \in Tasks :
        \/ task[t].at = "commit"
        \/ /\ task[t].at \in {"unreg", "stop", "wait", "net"}
           /\ task[t].op \in {"invite", "remove"}
        => task[t].key \in born

SyncsBorn == \A s \in Syncs : sync[s].on => sync[s].key \in born

FiledKnown ==
    /\ known \subseteq born
    /\ \A i \in Ids : i \notin known => filed[i] = {}

Named == KeysBorn /\ TasksBorn /\ SyncsBorn /\ FiledKnown

\* A credential that is on its way to the relay is in no list yet, and no
\* other call is about it.
Offered(t) == /\ task[t].op = "invite"
              /\ task[t].at \in {"unreg", "stop", "wait", "net", "commit"}

Fresh ==
    /\ creds \cup disk.creds \subseteq issued
    /\ \A t \in Tasks :
          task[t].op \in {"invite", "remove"} => task[t].cred \in issued
    /\ \A t \in Tasks : Offered(t) =>
          /\ task[t].cred \notin creds \cup disk.creds
          /\ \A u \in Tasks \ {t} : task[u].op \in {"invite", "remove"} =>
                                    task[u].cred # task[t].cred

\* Credentials that a call is about to add to the program's list, or to drop.
Coming == {task[t].cred : t \in {u \in Tasks : task[u].op = "invite"
                                               /\ task[u].at = "commit"}}
Going  == {task[t].cred : t \in {u \in Tasks : task[u].op = "remove"
                                               /\ task[u].at = "commit"}}

\* A credential that is being revoked while it is synchronised is on record
\* as lost, so its removal at the relay lasts.
Told ==
    /\ \A s \in Syncs : sync[s].todo \subseteq creds \cup lost
    /\ \A s \in Syncs : ~sync[s].on => sync[s].todo = {}
    /\ \A t \in Tasks : task[t].op = "remove" /\ AtWork(t) =>
          /\ \A s \in Syncs : task[t].cred \in sync[s].todo =>
                                   task[t].cred \in lost
          /\ task[t].at = "commit" =>
                \/ task[t].cred \notin filed[task[t].key]
                \/ task[t].cred \in lost \cup misread

Kept ==
    \A i \in Ids : born \subseteq {i} =>
        filed[i] \subseteq creds \cup lost \cup misread \cup Coming

\* While the program thinks the relay has its credentials, a synchronisation
\* has those that are missing.
Owed == UNION {sync[s].todo : s \in {x \in Syncs : sync[x].key = key}}

Covered ==
    synced /\ ~rekeyed /\ ~unheard /\ key \in known
           /\ (\A r \in Runs : pc[r] # "again")
        => creds \ (lost \cup misread) \subseteq filed[key] \cup Owed \cup Going

-----------------------------------------------------------------------------

Phase(r) == CASE pc[r] = "none" -> "off"
              [] pc[r] = "done" -> "ended"
              [] OTHER -> IF stopped[r] THEN "told" ELSE "works"

S == INSTANCE Supervisor WITH phase <- [r \in Runs |-> Phase(r)], held <- ag

\* An agent works until it is told to stop, whatever the relay and the
\* network do to it, and ends only then.
Supervised == S!Spec
=============================================================================
