------------------------------ MODULE Desktop -------------------------------
(***************************************************************************)
(* The desktop program of the controlled side (desktop/app.go) around the  *)
(* agent it runs (internal/agent): starting and stopping it, pairing,      *)
(* issuing and revoking credentials, synchronising them with the relay,    *)
(* and the configuration file over restarts.                               *)
(*                                                                         *)
(* A call from the window is a goroutine: task[t].at is where it stands.   *)
(* A step is what runs under one lock, or one dialogue with the relay.     *)
(* pc[r] is where the goroutine of an agent stands in Run; nothing waits   *)
(* for an agent to end but stopAgent, which gives up after three seconds.  *)
(* The relay is reduced to what these programs can tell of it: which       *)
(* devices and credentials it has, which device is banned and which has a  *)
(* controller connected; module Tunnel is the relay itself.                *)
(***************************************************************************)
EXTENDS Naturals, FiniteSets

CONSTANTS
    Runs,        \* agents the program can start
    Tasks,       \* calls from the window, of one operation each
    Boot,        \* the call made by startup
    Syncs,       \* goroutines that run syncClientsToHub
    Ids,         \* identities: a device key with its device ID
    Creds,       \* credentials of controllers
    AgentFiles,  \* what agent.json may hold: an identity or None
    Inputs,      \* what users and the environment do, by name
    MaxRestarts, \* bound: restarts of the program
    None

ASSUME DesktopConstants ==
    /\ Boot \in Tasks
    /\ AgentFiles \subseteq Ids \cup {None}
    /\ None \notin Runs \cup Ids \cup Creds
    /\ MaxRestarts \in Nat

VARIABLES
    \* App
    key,       \* cfg.Key with its hub and fingerprint
    creds,     \* cfg.Clients
    shown,     \* disabled, and cfg.Disabled, which always agree
    ag,        \* ag; running is ag # nil
    synced,    \* clientsSynced
    enrolling,
    \* files
    disk,      \* desktop.json
    agentJson, \* agent.json
    \* agents
    pc,        \* none, dial, shake, serve, rereg, again, pause, over, done
    ident,     \* cfg.Key of the agent
    stopped,   \* Stop was called
    link,      \* its connection: none, open, closed
    disabled,  \* the agent's own flag
    \* goroutines of the program
    task, sync,
    wants,     \* "connected" has started a sync that has not begun
    \* the relay
    known, filed, controller, banned,
    \* history
    born,      \* identities that exist
    issued,    \* credentials that exist
    unsaved,   \* the last write of desktop.json failed
    overlapped,\* a call began while another one was at work
    raced,     \* two calls were in startAgent at once, or the key changed there
    gaveUp,    \* stopAgent gave up waiting
    cut,       \* agents that were stopped while they dialled
    lost,      \* credentials whose acknowledgement or record was lost, or
               \* that were removed while they were synchronised
    misread,   \* credentials whose acknowledgement was taken for a failure
    inherited, \* the program shows a ban that its agent was not told of
    rekeyed,   \* the identity changed since credentials were synchronised
    halted,    \* the user stopped the machine and has not started it again,
               \* nor has a call started an agent since
    unheard,   \* the relay made a record again, and its acknowledgement was
               \* lost, since credentials were synchronised
    restarts

config == <<key, creds, shown>>
files  == <<disk, agentJson, unsaved>>
agents == <<pc, ident, stopped, link, disabled>>
relay  == <<known, filed, controller, banned>>
syncs  == <<synced, sync, wants>>
past   == <<born, issued, overlapped, raced, gaveUp, cut, lost, misread,
            inherited, rekeyed, halted, unheard, restarts>>
vars == <<config, ag, enrolling, files, agents, task, syncs, relay, past>>

Ops    == {"none", "boot", "setName", "import", "invite", "remove", "enroll",
           "revoke", "start", "stop"}
Places == {"idle", "unreg", "stop", "wait", "clear", "net", "commit",
           "start", "launch", "done"}
NoTask == [op |-> "none", at |-> "idle", key |-> None, cred |-> None,
           was |-> FALSE, mine |-> None]
NoSync == [on |-> FALSE, key |-> None, todo |-> {}]

TaskRecs ==
    {rec \in [op : Ops, at : Places, key : Ids \cup {None},
              cred : Creds \cup {None}, was : BOOLEAN,
              mine : Runs \cup {None}] :
        rec.op \in {"invite", "remove"} => rec.cred \in Creds}
SyncRecs == [on : BOOLEAN, key : Ids \cup {None}, todo : SUBSET Creds]

AppTyped ==
    /\ key \in Ids \cup {None}
    /\ creds \in SUBSET Creds
    /\ shown \in BOOLEAN
    /\ ag \in Runs \cup {None}
    /\ enrolling \in BOOLEAN

FilesTyped ==
    /\ disk \in [key : Ids \cup {None}, creds : SUBSET Creds,
                 shown : BOOLEAN]
    /\ agentJson \in Ids \cup {None}
    /\ unsaved \in BOOLEAN

AgentsTyped ==
    /\ pc \in [Runs -> {"none", "dial", "shake", "serve", "rereg", "again",
                        "pause", "over", "done"}]
    /\ ident \in [Runs -> Ids \cup {None}]
    /\ stopped \in [Runs -> BOOLEAN]
    /\ link \in [Runs -> {"none", "open", "closed"}]
    /\ disabled \in [Runs -> BOOLEAN]

TasksTyped == task \in [Tasks -> TaskRecs]

SyncsTyped ==
    /\ synced \in BOOLEAN
    /\ sync \in [Syncs -> SyncRecs]
    /\ wants \in BOOLEAN

RelayTyped ==
    /\ known \in SUBSET Ids
    /\ filed \in [Ids -> SUBSET Creds]
    /\ controller \in [Ids -> Creds \cup {None}]
    /\ banned \in SUBSET Ids

PastTyped ==
    /\ born \in SUBSET Ids
    /\ issued \in SUBSET Creds
    /\ overlapped \in BOOLEAN
    /\ raced \in BOOLEAN
    /\ gaveUp \in BOOLEAN
    /\ cut \in SUBSET Runs
    /\ lost \in SUBSET Creds
    /\ misread \in SUBSET Creds
    /\ inherited \in BOOLEAN
    /\ rekeyed \in BOOLEAN
    /\ halted \in BOOLEAN
    /\ unheard \in BOOLEAN
    /\ restarts \in 0 .. MaxRestarts

TypeOK ==
    /\ AppTyped /\ FilesTyped /\ AgentsTyped /\ TasksTyped /\ SyncsTyped
    /\ RelayTyped /\ PastTyped

\* startup: the saved identity goes online, else SelfRegister makes one.
BootTask(k) ==
    [NoTask EXCEPT !.op = IF k = None THEN "enroll" ELSE "boot",
                   !.at = IF k = None THEN "net" ELSE "start"]

\* A machine that was never paired, or whose agent.json is taken over.
Init ==
    /\ agentJson \in AgentFiles
    /\ key = agentJson
    /\ creds = {} /\ issued = {} /\ lost = {} /\ misread = {}
    /\ shown = FALSE
    /\ ag = None
    /\ enrolling = (key = None)
    /\ disk = [key |-> None, creds |-> {}, shown |-> FALSE]
    /\ unsaved = TRUE
    /\ pc = [r \in Runs |-> "none"]
    /\ ident = [r \in Runs |-> None]
    /\ stopped = [r \in Runs |-> FALSE]
    /\ link = [r \in Runs |-> "none"]
    /\ disabled = [r \in Runs |-> FALSE]
    /\ task = [t \in Tasks |-> IF t = Boot THEN BootTask(key) ELSE NoTask]
    /\ synced = FALSE
    /\ sync = [s \in Syncs |-> NoSync]
    /\ wants = FALSE
    /\ known = {agentJson} \ {None} /\ born = known
    /\ filed = [i \in Ids |-> {}]
    /\ controller = [i \in Ids |-> None]
    /\ banned = {} /\ cut = {}
    /\ overlapped = FALSE /\ raced = FALSE /\ gaveUp = FALSE
    /\ inherited = FALSE /\ rekeyed = FALSE
    /\ halted = FALSE /\ unheard = FALSE
    /\ restarts = 0

-----------------------------------------------------------------------------
(* Helpers.                                                                *)

\* saveConfig writes a temporary file and renames it.
Save(saved) ==
    /\ disk' = IF saved
                 THEN [key |-> key', creds |-> creds', shown |-> shown']
                 ELSE disk
    /\ unsaved' = ~saved
    /\ UNCHANGED agentJson

At(t, a) == task' = [task EXCEPT ![t].at = a]

AtWork(t) == task[t].at \notin {"idle", "done"}

Begins(t, rec) ==
    /\ task[t].at = "idle"
    /\ overlapped' = (overlapped \/ \E u \in Tasks \ {t} : AtWork(u))
    /\ task' = [task EXCEPT ![t] = rec]

\* The relay closes the agent connections of device i that are in its map.
Evicted(i) ==
    [x \in Runs |-> IF pc[x] = "serve" /\ ident[x] = i /\ link[x] = "open"
                      THEN "closed" ELSE link[x]]

\* The relay carries out client-add or client-del on a connection that came
\* as the agent of device i, and so took the agent's place.
Provisioned(i, k, add) ==
    /\ i \in known
    /\ filed' = [filed EXCEPT ![i] = IF add THEN @ \cup {k} ELSE @ \ {k}]
    /\ controller' = IF ~add /\ controller[i] = k
                       THEN [controller EXCEPT ![i] = None] ELSE controller
    /\ link' = Evicted(i)
    /\ UNCHANGED <<known, banned, pc, ident, stopped, disabled>>

\* Run goes on after connectOnce or a pause: it looks at stopped first.
GoesOn(r, a) == pc' = [pc EXCEPT ![r] = IF stopped[r] THEN "over" ELSE a]

-----------------------------------------------------------------------------
(* Plausible bugs.  Each stands for the definition its comment names.      *)

\* CommitCreds that takes whatever is not a removal for an invitation.
CommitCredsOfAny(t) ==
    LET k == task[t].cred IN
    /\ task[t].at = "commit"
    /\ synced' = FALSE
    /\ creds' = IF task[t].op # "remove" THEN creds \cup {k} ELSE creds \ {k}
    /\ UNCHANGED <<key, shown>>
    /\ \E saved \in BOOLEAN : Save(saved)
    /\ At(t, "start")
    /\ UNCHANGED <<ag, enrolling, agents, sync, wants, relay, past>>

\* StartAgent that does not look at running.
StartAgentAgain(t) ==
    /\ task[t].at = "start"
    /\ task' = [task EXCEPT ![t].at = IF key # None THEN "launch" ELSE "done",
                            ![t].key = key]
    /\ raced' = (raced \/ \E u \in Tasks : task[u].at = "launch")
    /\ UNCHANGED <<config, ag, enrolling, files, agents, syncs, relay, born,
                   issued, overlapped, gaveUp, cut, lost, misread, inherited,
                   rekeyed, restarts, halted, unheard>>

\* AfterStop that leaves a renamed machine stopped.
AfterStopOnly(t) ==
    CASE task[t].op \in {"invite", "remove"} -> "net"
      [] task[t].op = "revoke" -> "clear"
      [] task[t].op \in {"setName", "stop"} -> "done"
      [] OTHER -> "start"

\* Halt that leaves the connection to the run loop.
HaltKeepsConn(r) ==
    /\ stopped' = [stopped EXCEPT ![r] = TRUE]
    /\ cut' = IF pc[r] = "dial" /\ ~stopped[r] THEN cut \cup {r} ELSE cut
    /\ UNCHANGED link

\* ReRegistered that does not ask for a new synchronisation.
ReRegisteredOnly(r) ==
    /\ pc[r] = "again"
    /\ GoesOn(r, "dial")
    /\ UNCHANGED <<config, ag, enrolling, files, ident, stopped, link,
                   disabled, task, syncs, relay, past>>

\* ReRegister that ends the agent of a device the relay refuses.
ReRegisterGivesUp(r) ==
    /\ pc[r] = "rereg"
    /\ \/ pc' = [pc EXCEPT ![r] = "over"] /\ UNCHANGED known
       \/ /\ key # None /\ key \notin banned
          /\ known' = known \cup {key}
          /\ pc' = [pc EXCEPT ![r] = "again"]
    /\ UNCHANGED <<config, ag, enrolling, files, ident, stopped, link,
                   disabled, task, syncs, filed, controller, banned, past>>

\* ProvisionFails that goes on with a removal whatever the relay said.
ProvisionFailsGoesOn(t) ==
    /\ task[t].at = "net" /\ task[t].op \in {"invite", "remove"}
    /\ At(t, IF task[t].op = "remove" THEN "commit"
             ELSE IF task[t].was THEN "start" ELSE "done")
    /\ UNCHANGED <<config, ag, enrolling, files, agents, syncs, relay, past>>

\* Notice that never takes a ban back.
NoticeOfBanOnly(r) ==
    LET b == ident[r] \in banned IN
    /\ pc[r] = "serve" /\ link[r] = "open"
    /\ disabled[r] # b
    /\ disabled' = [disabled EXCEPT ![r] = b]
    /\ shown' = (shown \/ b)
    /\ inherited' = FALSE
    /\ UNCHANGED <<key, creds>>
    /\ \E saved \in BOOLEAN : Save(saved)
    /\ UNCHANGED <<ag, enrolling, pc, ident, stopped, link, task, syncs, relay,
                   born, issued, overlapped, raced, gaveUp, cut, lost, misread,
                   rekeyed, restarts, halted, unheard>>

-----------------------------------------------------------------------------
(* Calls from the window.                                                  *)

\* What SetName and ImportConfig end in: an agent that runs is replaced, if
\* the file could be written.
SaveAndRestart(t, op) ==
    /\ UNCHANGED <<creds, shown>>
    /\ \E saved \in BOOLEAN :
        /\ Save(saved)
        /\ Begins(t, [NoTask EXCEPT
               !.op = op, !.was = saved /\ ag # None,
               !.at = IF saved /\ ag # None THEN "stop" ELSE "done"])
    /\ UNCHANGED <<ag, enrolling, agents, syncs, relay, born, issued, raced,
                   gaveUp, cut, lost, misread, inherited, restarts, halted,
                   unheard>>

SetName(t) ==
    /\ "setName" \in Inputs
    /\ UNCHANGED <<key, rekeyed>>
    /\ SaveAndRestart(t, "setName")

\* An identity that exists somewhere is pasted.  The memory has it even when
\* the write fails; an agent that is not running is not started.
ImportConfig(t) ==
    /\ "import" \in Inputs
    /\ key' \in born
    /\ rekeyed' = (rekeyed \/ key' # key)
    /\ SaveAndRestart(t, "import")

\* CreateInvite, RemoveClient: the running agent is stopped first, so that
\* the connection which carries the change does not push it out.
ChangesCreds(t, op, k) ==
    /\ key # None
    /\ Begins(t, [op |-> op, at |-> IF ag # None THEN "stop" ELSE "net",
                  key |-> key, cred |-> k, was |-> ag # None, mine |-> None])
    /\ UNCHANGED <<config, ag, enrolling, files, agents, syncs, relay>>
    /\ UNCHANGED <<born, raced, gaveUp, cut, misread, inherited, rekeyed,
                   restarts, halted, unheard>>

CreateInvite(t, k) ==
    /\ "invite" \in Inputs
    /\ k \notin issued
    /\ issued' = issued \cup {k}
    /\ ChangesCreds(t, "invite", k)
    /\ UNCHANGED lost

RemoveClient(t, k) ==
    /\ "remove" \in Inputs
    /\ k \in creds
    /\ ChangesCreds(t, "remove", k)
    /\ lost' = lost \cup
               (IF \E s \in Syncs : k \in sync[s].todo THEN {k} ELSE {})
    /\ UNCHANGED issued

\* The window's switch.  Start is startAgent itself; Stop is stopAgent, and
\* has no more to do when no agent runs.
Start(t) ==
    /\ "start" \in Inputs
    /\ halted' = FALSE
    /\ Begins(t, [NoTask EXCEPT !.op = "start", !.at = "start"])
    /\ UNCHANGED <<config, ag, enrolling, files, agents, syncs, relay, born,
                   issued, raced, gaveUp, cut, lost, misread, inherited,
                   rekeyed, unheard, restarts>>

Stop(t) ==
    /\ "stop" \in Inputs
    /\ halted' = TRUE
    /\ Begins(t, [NoTask EXCEPT !.op = "stop", !.at = "stop"])
    /\ UNCHANGED <<config, ag, enrolling, files, agents, syncs, relay, born,
                   issued, raced, gaveUp, cut, lost, misread, inherited,
                   rekeyed, unheard, restarts>>

SelfRegister(t) ==
    /\ "enroll" \in Inputs
    /\ ~enrolling
    /\ enrolling' = TRUE
    /\ Begins(t, [NoTask EXCEPT !.op = "enroll", !.at = "net",
                                !.was = ag # None])
    /\ UNCHANGED <<config, ag, files, agents, syncs, relay, born, issued,
                   raced, gaveUp, cut, lost, misread, inherited, rekeyed,
                   restarts, halted, unheard>>

Revoke(t) ==
    /\ "revoke" \in Inputs
    /\ Begins(t, [NoTask EXCEPT !.op = "revoke", !.mine = ag,
                     !.at = IF ag = None THEN "stop" ELSE "unreg"])
    /\ UNCHANGED <<config, ag, enrolling, files, agents, syncs, relay, born,
                   issued, raced, gaveUp, cut, lost, misread, inherited,
                   rekeyed, restarts, halted, unheard>>

\* DisconnectNow, by way of the agent's connection.
DisconnectNow(r) ==
    /\ "controller" \in Inputs
    /\ ag = r
    /\ pc[r] = "serve" /\ link[r] = "open"
    /\ controller' = [controller EXCEPT ![ident[r]] = None]
    /\ UNCHANGED <<config, ag, enrolling, files, agents, task, syncs, known,
                   filed, banned, past>>

-----------------------------------------------------------------------------
(* What calls go through.                                                  *)

\* Unregister on the agent's connection, if it has one the relay still
\* reads: the relay deletes the device and closes the connection.
Unregister(t) ==
    LET r == task[t].mine  i == ident[r] IN
    /\ task[t].at = "unreg"
    /\ IF pc[r] = "serve" /\ link[r] = "open"
         THEN /\ known' = known \ {i}
              /\ filed' = [filed EXCEPT ![i] = {}]
              /\ controller' = [controller EXCEPT ![i] = None]
              /\ link' = Evicted(i)
         ELSE UNCHANGED <<known, filed, controller, link>>
    /\ At(t, "stop")
    /\ UNCHANGED <<config, ag, enrolling, files, pc, ident, stopped, disabled,
                   syncs, banned, past>>

AfterStop(t) ==
    CASE task[t].op \in {"invite", "remove"} -> "net"
      [] task[t].op = "revoke" -> "clear"
      [] task[t].op = "stop" -> "done"
      [] OTHER -> "start"

\* Agent.Stop closes the connection there is.
Halt(r) ==
    /\ stopped' = [stopped EXCEPT ![r] = TRUE]
    /\ link' = IF link[r] = "open" THEN [link EXCEPT ![r] = "closed"]
                                   ELSE link
    /\ cut' = IF pc[r] = "dial" /\ ~stopped[r] THEN cut \cup {r} ELSE cut

StopAgent(t) ==
    /\ task[t].at = "stop"
    /\ IF ag = None
         THEN At(t, AfterStop(t)) /\ UNCHANGED <<stopped, link, cut>>
         ELSE /\ Halt(ag)
              /\ task' = [task EXCEPT ![t].at = "wait", ![t].mine = ag]
    /\ UNCHANGED <<config, ag, enrolling, files, pc, ident, disabled, syncs,
                   relay, born, issued, overlapped, raced, gaveUp, lost,
                   misread, inherited, rekeyed, restarts, halted, unheard>>

\* The agent's goroutine has ended, or three seconds have passed.
StopWaited(t) ==
    /\ task[t].at = "wait"
    /\ gaveUp' = (gaveUp \/ pc[task[t].mine] # "done")
    /\ At(t, AfterStop(t))
    /\ UNCHANGED <<config, ag, enrolling, files, agents, syncs, relay, born,
                   issued, overlapped, raced, cut, lost, misread, inherited,
                   rekeyed, restarts, halted, unheard>>

\* Where a call goes on when its dialogue with the relay failed.
AfterFailure(t) == IF task[t].was THEN "start" ELSE "done"

\* ProvisionClient or RevokeClient.  The relay's acknowledgement follows the
\* notice that a connected controller is up, which is taken for it; or the
\* connection breaks after the relay has acted, or the relay could not write
\* its own file.
Provision(t) ==
    LET i == task[t].key  k == task[t].cred IN
    /\ task[t].at = "net" /\ task[t].op \in {"invite", "remove"}
    /\ Provisioned(i, k, task[t].op = "invite")
    /\ \/ /\ controller[i] = None
          /\ At(t, "commit")
          /\ UNCHANGED <<lost, misread>>
       \/ /\ controller[i] # None
          /\ At(t, AfterFailure(t))
          /\ misread' = misread \cup {k}
          /\ UNCHANGED lost
       \/ /\ At(t, AfterFailure(t))
          /\ lost' = lost \cup {k}
          /\ UNCHANGED misread
    /\ UNCHANGED <<config, ag, enrolling, files, syncs, born, issued,
                   overlapped, raced, gaveUp, cut, inherited, rekeyed,
                   restarts, halted, unheard>>

\* No connection, or a device that is not registered: which is as good as
\* done for a removal.
ProvisionFails(t) ==
    /\ task[t].at = "net" /\ task[t].op \in {"invite", "remove"}
    /\ \/ At(t, AfterFailure(t))
       \/ /\ task[t].op = "remove" /\ task[t].key \notin known
          /\ At(t, "commit")
    /\ UNCHANGED <<config, ag, enrolling, files, agents, syncs, relay, past>>

\* The new list of credentials is kept and saved; whether it was saved is
\* not asked.
CommitCreds(t) ==
    LET k == task[t].cred IN
    /\ task[t].at = "commit" /\ task[t].op \in {"invite", "remove"}
    /\ synced' = FALSE
    /\ creds' = IF task[t].op = "invite" THEN creds \cup {k} ELSE creds \ {k}
    /\ UNCHANGED <<key, shown>>
    /\ \E saved \in BOOLEAN : Save(saved)
    /\ At(t, "start")
    /\ UNCHANGED <<ag, enrolling, agents, sync, wants, relay, past>>

\* RegisterSelf of a new identity; the answer may be lost.
Enroll(t) ==
    /\ task[t].at = "net" /\ task[t].op = "enroll"
    /\ \E i \in Ids \ born :
        /\ born' = born \cup {i}
        /\ known' \in {known, known \cup {i}}
        /\ \/ /\ i \in known'
              /\ task' = [task EXCEPT ![t].at = "commit", ![t].key = i]
              /\ UNCHANGED enrolling
           \/ /\ At(t, "done")
              /\ enrolling' = FALSE
    /\ UNCHANGED <<config, ag, files, agents, syncs, filed, controller, banned,
                   issued, overlapped, raced, gaveUp, cut, lost, misread,
                   inherited, rekeyed, restarts, halted, unheard>>

\* SelfRegister and Revoke change the identity and leave clientsSynced as it
\* is: the credentials issued so far stay in the list, though the relay has
\* none of them for a new identity.
NewKey(t, from, k, to) ==
    /\ task[t].at = from
    /\ key' = k
    /\ UNCHANGED <<creds, shown>>
    /\ \E saved \in BOOLEAN : Save(saved)
    /\ rekeyed' = TRUE
    /\ At(t, to)
    /\ UNCHANGED <<ag, enrolling, agents, syncs, relay, born, issued,
                   overlapped, raced, gaveUp, cut, lost, misread, inherited,
                   restarts, halted, unheard>>

CommitEnroll(t) ==
    /\ task[t].op = "enroll"
    /\ NewKey(t, "commit", task[t].key,
              IF task[t].was THEN "stop" ELSE "start")

ClearKey(t) == NewKey(t, "clear", None, "done")

\* startAgent looks at running and copies the configuration ...
StartAgent(t) ==
    LET starts == ag = None /\ key # None IN
    /\ task[t].at = "start"
    /\ task' = [task EXCEPT ![t].at = IF starts THEN "launch" ELSE "done",
                            ![t].key = key]
    /\ enrolling' = (enrolling /\ ~(~starts /\ task[t].op = "enroll"))
    /\ raced' = (raced \/ \E u \in Tasks : task[u].at = "launch")
    /\ UNCHANGED <<config, ag, files, agents, syncs, relay, born, issued,
                   overlapped, gaveUp, cut, lost, misread, inherited, rekeyed,
                   restarts, halted, unheard>>

\* ... and under the lock again, without looking, makes its agent the one.
Launch(t) ==
    /\ task[t].at = "launch"
    /\ raced' = (raced \/ key # task[t].key)
    /\ \E r \in Runs :
        /\ pc[r] = "none"
        /\ pc' = [pc EXCEPT ![r] = "dial"]
        /\ ident' = [ident EXCEPT ![r] = task[t].key]
        /\ ag' = r
    /\ At(t, "done")
    /\ enrolling' = (enrolling /\ task[t].op # "enroll")
    /\ inherited' = (inherited \/ shown)
    /\ halted' = FALSE
    /\ UNCHANGED <<config, files, stopped, link, disabled, syncs, relay, born,
                   issued, overlapped, gaveUp, cut, lost, misread, rekeyed,
                   unheard, restarts>>

-----------------------------------------------------------------------------
(* The goroutine of an agent.                                              *)

\* The connection is made, or is not.  Stop is not looked at in between: it
\* found no connection to close if it came while this agent dialled.
Dialled(r) ==
    /\ pc[r] = "dial"
    /\ \/ /\ pc' = [pc EXCEPT ![r] = "shake"]
          /\ link' = [link EXCEPT ![r] = "open"]
       \/ GoesOn(r, "pause") /\ UNCHANGED link
    /\ UNCHANGED <<config, ag, enrolling, files, ident, stopped, disabled,
                   task, syncs, relay, past>>

\* "ready": the relay gives this connection the device's place, and the
\* program starts to synchronise its credentials.
Connected(r) ==
    /\ pc[r] = "shake" /\ link[r] = "open"
    /\ ident[r] \in known
    /\ pc' = [pc EXCEPT ![r] = "serve"]
    /\ link' = Evicted(ident[r])
    /\ wants' = TRUE
    /\ UNCHANGED <<config, ag, enrolling, files, ident, stopped, disabled,
                   task, synced, sync, relay, past>>

\* "the device does not exist".
Missing(r) ==
    /\ pc[r] = "shake" /\ link[r] = "open"
    /\ ident[r] \notin known
    /\ link' = [link EXCEPT ![r] = "none"]
    /\ GoesOn(r, "rereg")
    /\ UNCHANGED <<config, ag, enrolling, files, ident, stopped, disabled,
                   task, syncs, relay, past>>

\* The connection is found closed; the next attempt follows after the delay.
Disconnected(r) ==
    /\ pc[r] \in {"shake", "serve"} /\ link[r] = "closed"
    /\ link' = [link EXCEPT ![r] = "none"]
    /\ GoesOn(r, "pause")
    /\ UNCHANGED <<config, ag, enrolling, files, ident, stopped, disabled,
                   task, syncs, relay, past>>

\* The delay has passed, or Stop has ended it.
Paused(r) ==
    /\ pc[r] = "pause"
    /\ GoesOn(r, "dial")
    /\ UNCHANGED <<config, ag, enrolling, files, ident, stopped, link,
                   disabled, task, syncs, relay, past>>

\* reRegister registers the key the program has now, which need not be this
\* agent's.  It refuses within 20 seconds of the last time, the relay refuses
\* a banned device, and the answer may be lost: then the relay has a new
\* record and the program does not know.
ReRegister(r) ==
    /\ pc[r] = "rereg"
    /\ \/ /\ pc' = [pc EXCEPT ![r] = "pause"]
          /\ UNCHANGED <<known, unheard>>
       \/ /\ key # None /\ key \notin banned
          /\ known' = known \cup {key}
          /\ \/ /\ pc' = [pc EXCEPT ![r] = "again"]
                /\ UNCHANGED unheard
             \/ /\ pc' = [pc EXCEPT ![r] = "pause"]
                /\ unheard' = (unheard \/ key \notin known)
    /\ UNCHANGED <<config, ag, enrolling, files, ident, stopped, link,
                   disabled, task, syncs, filed, controller, banned, born,
                   issued, overlapped, raced, gaveUp, cut, lost, misread,
                   inherited, rekeyed, halted, restarts>>

\* ... the credentials have to be synchronised again.
ReRegistered(r) ==
    /\ pc[r] = "again"
    /\ synced' = FALSE
    /\ GoesOn(r, "dial")
    /\ UNCHANGED <<config, ag, enrolling, files, ident, stopped, link,
                   disabled, task, sync, wants, relay, past>>

\* The relay's notice tells the agent whether it is banned; the agent tells
\* the program when that is news, and the program keeps it in its file.
Notice(r) ==
    LET b == ident[r] \in banned IN
    /\ pc[r] = "serve" /\ link[r] = "open"
    /\ disabled[r] # b
    /\ disabled' = [disabled EXCEPT ![r] = b]
    /\ shown' = b
    /\ inherited' = FALSE
    /\ UNCHANGED <<key, creds>>
    /\ IF shown' # shown THEN \E saved \in BOOLEAN : Save(saved)
                         ELSE UNCHANGED files
    /\ UNCHANGED <<ag, enrolling, pc, ident, stopped, link, task, syncs, relay,
                   born, issued, overlapped, raced, gaveUp, cut, lost, misread,
                   rekeyed, restarts, halted, unheard>>

\* Run has returned.
Ends(r) ==
    /\ pc[r] = "over"
    /\ pc' = [pc EXCEPT ![r] = "done"]
    /\ ag' = IF ag = r THEN None ELSE ag
    /\ UNCHANGED <<config, enrolling, files, ident, stopped, link, disabled,
                   task, syncs, relay, past>>

-----------------------------------------------------------------------------
(* syncClientsToHub.                                                       *)

\* clientsSynced is set before anything is sent.
SyncBegin(s) ==
    /\ wants
    /\ ~sync[s].on
    /\ wants' = FALSE
    /\ IF synced \/ key = None
         THEN UNCHANGED <<synced, sync, lost, rekeyed, unheard>>
         ELSE /\ sync' = [sync EXCEPT ![s] = [on |-> TRUE, key |-> key,
                                              todo |-> creds]]
              /\ synced' = TRUE
              /\ rekeyed' = FALSE /\ unheard' = FALSE
              /\ lost' = lost \cup
                     {k \in creds : \E t \in Tasks :
                         /\ task[t].op = "remove" /\ task[t].cred = k
                         /\ AtWork(t)}
    /\ UNCHANGED <<config, ag, enrolling, files, agents, task, relay, born,
                   issued, overlapped, raced, gaveUp, cut, misread, inherited,
                   restarts, halted>>

\* One credential is added, on a connection of its own which pushes out the
\* agent's.  With a controller connected its notice is taken for a refusal;
\* any failure ends this attempt.
SyncOne(s, k) ==
    LET i == sync[s].key IN
    /\ sync[s].on
    /\ k \in sync[s].todo
    /\ \/ /\ Provisioned(i, k, TRUE)
          /\ controller[i] = None
          /\ sync' = [sync EXCEPT ![s].todo = @ \ {k}]
          /\ UNCHANGED synced
       \/ /\ Provisioned(i, k, TRUE)
          /\ sync' = [sync EXCEPT ![s] = NoSync]
          /\ synced' = FALSE
       \/ /\ sync' = [sync EXCEPT ![s] = NoSync]
          /\ synced' = FALSE
          /\ UNCHANGED <<agents, relay>>
    /\ UNCHANGED <<config, ag, enrolling, files, task, wants, past>>

SyncEnds(s) ==
    /\ sync[s].on
    /\ sync[s].todo = {}
    /\ sync' = [sync EXCEPT ![s] = NoSync]
    /\ UNCHANGED <<config, ag, enrolling, files, agents, task, synced, wants,
                   relay, past>>

-----------------------------------------------------------------------------
(* The relay and the network.                                              *)

Environment ==
    UNCHANGED <<config, ag, enrolling, files, pc, ident, stopped, disabled,
                task, syncs, past>>

\* An administrator deletes the record of a device that is away.
Forget(i) ==
    /\ "forget" \in Inputs
    /\ i \in known
    /\ \A r \in Runs : ~(pc[r] = "serve" /\ ident[r] = i /\ link[r] = "open")
    /\ known' = known \ {i}
    /\ filed' = [filed EXCEPT ![i] = {}]
    /\ controller' = [controller EXCEPT ![i] = None]
    /\ UNCHANGED <<banned, link>>
    /\ Environment

\* An administrator bans a device or lifts the ban.
Ban(i) ==
    /\ "ban" \in Inputs
    /\ i \in known
    /\ banned' = IF i \in banned THEN banned \ {i} ELSE banned \cup {i}
    /\ controller' = [controller EXCEPT ![i] = None]
    /\ UNCHANGED <<known, filed, link>>
    /\ Environment

\* A controller connects with a credential of the device, or goes.
Controller(i) ==
    /\ "controller" \in Inputs
    /\ \/ /\ controller[i] = None
          /\ i \in known \ banned
          /\ \E k \in filed[i] : controller' = [controller EXCEPT ![i] = k]
       \/ /\ controller[i] # None
          /\ controller' = [controller EXCEPT ![i] = None]
    /\ UNCHANGED <<known, filed, banned, link>>
    /\ Environment

Breaks(r) ==
    /\ "break" \in Inputs
    /\ link[r] = "open"
    /\ link' = [link EXCEPT ![r] = "closed"]
    /\ UNCHANGED relay
    /\ Environment

\* The program ends, or dies, and is started again: loadConfig reads the
\* file, or agent.json when there is no key in it.
Restart ==
    LET k == IF disk.key # None THEN disk.key ELSE agentJson IN
    /\ restarts < MaxRestarts
    /\ restarts' = restarts + 1
    /\ key' = k /\ creds' = disk.creds /\ shown' = disk.shown
    /\ ag' = None
    /\ enrolling' = (k = None)
    /\ pc' = [r \in Runs |-> "none"]
    /\ ident' = [r \in Runs |-> None]
    /\ stopped' = [r \in Runs |-> FALSE]
    /\ link' = [r \in Runs |-> "none"]
    /\ disabled' = [r \in Runs |-> FALSE]
    /\ task' = [t \in Tasks |-> IF t = Boot THEN BootTask(k) ELSE NoTask]
    /\ synced' = FALSE
    /\ sync' = [s \in Syncs |-> NoSync]
    /\ wants' = FALSE
    /\ lost' = lost \cup (creds \ disk.creds) \cup (disk.creds \ creds)
                    \cup ({task[t].cred : t \in
                           {u \in Tasks : task[u].at = "commit"}} \ {None})
    /\ cut' = {}
    /\ halted' = FALSE
    /\ UNCHANGED <<files, relay, born, issued, overlapped, raced, gaveUp,
                   misread, inherited, rekeyed, unheard>>

-----------------------------------------------------------------------------

Call(t) ==
    \/ SetName(t) \/ ImportConfig(t) \/ SelfRegister(t) \/ Revoke(t)
    \/ Start(t) \/ Stop(t)
    \/ \E k \in Creds : CreateInvite(t, k) \/ RemoveClient(t, k)

Proceed(t) ==
    \/ Unregister(t) \/ StopAgent(t) \/ StopWaited(t)
    \/ Provision(t) \/ ProvisionFails(t) \/ CommitCreds(t)
    \/ Enroll(t) \/ CommitEnroll(t) \/ ClearKey(t)
    \/ StartAgent(t) \/ Launch(t)

\* What the goroutine of an agent does by itself.
Agent(r) ==
    \/ Dialled(r) \/ Connected(r) \/ Missing(r) \/ Disconnected(r)
    \/ Paused(r) \/ ReRegister(r) \/ ReRegistered(r) \/ Ends(r)

Sync(s) ==
    \/ SyncBegin(s) \/ SyncEnds(s)
    \/ \E k \in Creds : SyncOne(s, k)

Outside ==
    \/ \E r \in Runs : DisconnectNow(r) \/ Notice(r) \/ Breaks(r)
    \/ \E i \in Ids : Forget(i) \/ Ban(i) \/ Controller(i)
    \/ Restart

Next ==
    \/ \E t \in Tasks : Call(t) \/ Proceed(t)
    \/ \E r \in Runs : Agent(r)
    \/ \E s \in Syncs : Sync(s)
    \/ Outside

Spec == Init /\ [][Next]_vars
=============================================================================
