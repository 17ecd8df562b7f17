------------------------------- MODULE Tunnel -------------------------------
(***************************************************************************)
(* The relay core of the hub (internal/hub: tunnel.go, control.go, the     *)
(* device handlers of web.go and the in-memory half of store.go).          *)
(*                                                                         *)
(* Every accepted connection is served by a goroutine of its own, pc[c].   *)
(* It checks the hello, sends a challenge, waits for the answer, takes the *)
(* slot of its device and kind in the registry, closes the connection it   *)
(* replaced, tells both ends that they have a peer, and serves frames      *)
(* until a read fails; then it gives the slot back.  The administrator's   *)
(* requests run next to them, task[x].  A step of the model is what the    *)
(* code does under one lock, with the local work up to the next lock,      *)
(* write or read: goroutines interleave between steps exactly where the    *)
(* code lets them.                                                         *)
(*                                                                         *)
(* A connection identifier stands for one connection at a time: it returns *)
(* to "idle" when its goroutine ends and is taken again for a later        *)
(* connection once no other goroutine still holds it.  The model therefore *)
(* bounds how many connections are alive together, not how many there are. *)
(* Rejected hellos change nothing and are the absence of a step.           *)
(***************************************************************************)
EXTENDS Naturals, FiniteSets

CONSTANTS
    Conns,       \* connections that can be alive together
    Devices,     \* device ids
    Creds,       \* controller credential ids (hello.ClientID)
    Admins,      \* administrator requests that can run together
    None,        \* "nil"
    MaxDevices,  \* cap on registered devices, 2000 in the code
    MaxClients,  \* cap on credentials per device, 50 in the code
    Inputs       \* what this instance's clients and administrators do

AllInputs == {"register", "agent", "client", "presence", "kick-client",
              "client-add", "client-del", "unregister", "kick", "forget",
              "disable", "client-disable"}

ASSUME TunnelConstants ==
    /\ None \notin Conns \cup Devices \cup Creds
    /\ Creds \cap {"ban", "cool", "gone"} = {}
    /\ Inputs \subseteq AllInputs
    /\ MaxDevices \in Nat
    /\ MaxClients \in Nat

VARIABLES
    known,       \* devices in the store
    creds,       \* creds[d]: credentials registered for device d
    off,         \* off[d]: those the administrator has disabled
    banned,      \* devices the administrator has disabled
    cooling,     \* devices in the cooldown that follows a kick
    slot,        \* slot[k][d]: the maps agents, clients and presences
    pc,          \* pc[c]: where the goroutine of c stands
    open,        \* open[c]: neither side has closed c
    who,         \* who[c]: what c said in its hello
    old,         \* old[c]: the endpoint c replaced and has still to close
    peerOnline,  \* peerOnline[c]: whether c saw a peer when it took its slot
    told,        \* told[c]: the last enabled/disabled notice written to c
    task,        \* task[x]: the administrator request x is handling
    met,         \* history: met[c], the peers c was told are up
    bars,        \* history: bars[d], what shut controllers out of d
    slipped,     \* history: connections a request's kick or notice missed
    spared       \* history: connections a decision without a kick left alone

store    == <<known, creds, off, banned>>
local    == <<old, peerOnline>>
notices  == <<told, met>>
history  == <<bars, slipped, spared>>
vars == <<known, creds, off, banned, cooling, slot, pc, open, who, old,
          peerOnline, told, task, met, bars, slipped, spared>>

Kinds == {"agent", "client", "presence"}

\* The other side of the pairing; a presence connection talks to the agent.
Opposite(k) == IF k = "agent" THEN "client" ELSE "agent"

Handshaking == {"challenged", "verified"}
Announcing  == {"evict", "upself", "uppeer"}
Serving     == {"serve", "revoke", "del"}
InMap       == Announcing \cup Serving \cup {"unreg"}
PCs         == {"idle", "registering", "notify"} \cup Handshaking \cup InMap

Nobody == [kind |-> "none", dev |-> None, id |-> None]
Quiet  == [op |-> "none", dev |-> None, id |-> None]

Steps == {"none", "cool", "kick", "erase", "thaw", "ban.kick",
          "ban.presence", "ban.notify", "unban.notify", "off.kick",
          "off.presence"}

\* What a hello says of its sender, and what a request works on.
Whos  == [kind : Kinds \cup {"none"}, dev : Devices \cup {None},
          id : Creds \cup {None}]
Tasks == [op : Steps, dev : Devices \cup {None}, id : Creds \cup {None}]

\* What can shut a controller out of a device: the ban, the cooldown, the
\* device's deletion, or the end of its own credential.
Bars == {"ban", "cool", "gone"} \cup Creds

TypeOK ==
    /\ known \in SUBSET Devices
    /\ creds \in [Devices -> SUBSET Creds]
    /\ off \in [Devices -> SUBSET Creds]
    /\ banned \in SUBSET Devices
    /\ cooling \in SUBSET Devices
    /\ slot \in [Kinds -> [Devices -> Conns \cup {None}]]
    /\ pc \in [Conns -> PCs]
    /\ open \in [Conns -> BOOLEAN]
    /\ who \in [Conns -> Whos]
    /\ old \in [Conns -> Conns \cup {None}]
    /\ peerOnline \in [Conns -> BOOLEAN]
    /\ told \in [Conns -> {"none", "enabled", "disabled"}]
    /\ task \in [Admins -> Tasks]
    /\ met \in [Conns -> SUBSET Conns]
    /\ bars \in [Devices -> SUBSET Bars]
    /\ slipped \in SUBSET Conns
    /\ spared \in SUBSET Conns

\* The store starts with what it reads from disk: any devices, credentials
\* and bans an earlier run may have left; the registry starts empty.
Init ==
    /\ known \in SUBSET Devices
    /\ creds \in [Devices -> SUBSET Creds]
    /\ off \in [Devices -> SUBSET Creds]
    /\ \A d \in Devices : /\ off[d] \subseteq creds[d]
                         /\ d \notin known => creds[d] = {}
    /\ banned \in SUBSET Devices
    /\ cooling = {}
    /\ slot = [k \in Kinds |-> [d \in Devices |-> None]]
    /\ pc = [c \in Conns |-> "idle"]
    /\ open = [c \in Conns |-> FALSE]
    /\ who = [c \in Conns |-> Nobody]
    /\ old = [c \in Conns |-> None]
    /\ peerOnline = [c \in Conns |-> FALSE]
    /\ told = [c \in Conns |-> "none"]
    /\ task = [x \in Admins |-> Quiet]
    /\ met = [c \in Conns |-> {}]
    /\ bars = [d \in Devices |-> {}]
    /\ slipped = {}
    /\ spared = {}

-----------------------------------------------------------------------------
(* Helpers.  Closing and writing tolerate None and a closed connection.    *)

Goto(c, label) == pc' = [pc EXCEPT ![c] = label]

Peer(c) == slot[Opposite(who[c].kind)][who[c].dev]

Closed(cs) == [c \in Conns |-> open[c] /\ c \notin cs]

\* The holder of slot k of device d, as a set; with credential `id` only.
Holder(k, d) == {c \in Conns : slot[k][d] = c}
HolderWith(k, d, id) == {c \in Holder(k, d) : who[c].id = id}

\* Connections of kind k for device d whose goroutine stands in `where`.
Arriving(k, d, where) ==
    {c \in Conns : pc[c] \in where /\ who[c].kind = k /\ who[c].dev = d}

\* The goroutine of c returns: the connection is closed and forgotten.
Finish(c) ==
    /\ Goto(c, "idle")
    /\ open' = [open EXCEPT ![c] = FALSE]
    /\ who' = [who EXCEPT ![c] = Nobody]
    /\ peerOnline' = [peerOnline EXCEPT ![c] = FALSE]
    /\ told' = [told EXCEPT ![c] = "none"]
    /\ met' = [p \in Conns |-> IF p = c THEN {} ELSE met[p] \ {c}]
    /\ slipped' = slipped \ {c}
    /\ spared' = spared \ {c}

\* Whoever shuts controllers out closes the one in the map and cannot see
\* those whose checks are behind them: `slipped` records these.
ShutOut(why, d, where) ==
    /\ bars' = [bars EXCEPT ![d] = @ \cup {why}]
    /\ slipped' = slipped \cup Arriving("client", d, where)
    /\ UNCHANGED spared

\* A decision that kicks nobody binds those that are still to be checked and
\* leaves alone those that have been, cs: `spared` records them.
Decided(why, d, cs) ==
    /\ bars' = [bars EXCEPT ![d] = @ \cup {why}]
    /\ spared' = spared \cup cs
    /\ UNCHANGED slipped

\* The connections of d that have been checked for a ban: an agent when it
\* proves itself, the others when they say hello.
BanChecked(d) ==
    {c \in Conns : /\ who[c].dev = d
                   /\ \/ pc[c] \in {"verified"} \cup InMap
                      \/ pc[c] = "challenged" /\ who[c].kind # "agent"}

\* The controllers of d whose credential has been checked.
CredChecked(d) == Arriving("client", d, {"verified"} \cup InMap)

\* Deleting a device drops its credentials with it.
Deleted(d) ==
    /\ known' = known \ {d}
    /\ creds' = [creds EXCEPT ![d] = {}]
    /\ off' = [off EXCEPT ![d] = {}]

\* No goroutine holds identifier c any more.
Unreferenced(c) == \A e \in Conns : old[e] # c

\* The step an administrator's request stands at.
Begin(x, op, d, id) ==
    task' = [task EXCEPT ![x] = [op |-> op, dev |-> d, id |-> id]]
Then(x, op) == task' = [task EXCEPT ![x].op = op]
Done(x) == task' = [task EXCEPT ![x] = Quiet]

Idle(x) == task[x] = Quiet

\* NotifyAgent: only an agent that is in the map is told.  An agent between
\* its handshake and the map is missed, and one that is told what another
\* request has changed since is misled: `slipped` records both.
Notify(d, what) ==
    /\ told' = [c \in Conns |-> IF c \in Holder("agent", d) THEN what
                                                            ELSE told[c]]
    /\ slipped' = slipped \cup
         (IF (what = "disabled") = (d \in banned)
            THEN Arriving("agent", d, {"verified"})
            ELSE Arriving("agent", d, {"verified"}) \cup Holder("agent", d))

-----------------------------------------------------------------------------
(* Plausible bugs.  Each stands for the action named in its comment in the  *)
(* mutation runs and is no part of the specification.                       *)

\* RegisterCommit, filing the device under the sender's credential.
RegisterFilesCred(c, saved) ==
    /\ pc[c] = "registering"
    /\ known' = IF saved THEN known \cup {who[c].id} ELSE known
    /\ Finish(c)
    /\ UNCHANGED <<creds, off, banned, cooling, slot, old, task, bars>>

\* Evict, without closing the connection it replaced.
EvictForgetsOld(c) ==
    /\ pc[c] = "evict"
    /\ old' = [old EXCEPT ![c] = None]
    /\ Goto(c, IF peerOnline[c] THEN "upself" ELSE "serve")
    /\ UNCHANGED <<store, cooling, slot, open, who, peerOnline, notices, task,
                   history>>

\* UpPeer, writing to nobody: only the newcomer is told.
UpPeerSkipped(c) ==
    /\ pc[c] = "uppeer"
    /\ Goto(c, "serve")
    /\ UNCHANGED <<store, cooling, slot, open, who, local, notices, task,
                   history>>

\* RevokeKick, reading the id after it was overwritten: it closes nobody.
RevokeKicksNobody(c) ==
    /\ pc[c] = "revoke"
    /\ LET d == who[c].dev  id == who[c].id IN
         IF id \notin creds[d]
           THEN /\ bars' = [bars EXCEPT ![d] = @ \cup {id}]
                /\ slipped' = slipped \cup
                     {p \in Arriving("client", d, {"verified"}) :
                          who[p].id = id}
                /\ UNCHANGED spared
           ELSE UNCHANGED history
    /\ who' = [who EXCEPT ![c].id = None]
    /\ Goto(c, "serve")
    /\ UNCHANGED <<store, cooling, slot, open, local, notices, task>>

\* GiveBack, deleting the entry whoever holds it.
GiveBackUnchecked(c) ==
    LET k == who[c].kind  d == who[c].dev IN
    /\ pc[c] = "unreg"
    /\ slot' = [slot EXCEPT ![k][d] = None]
    /\ Goto(c, "notify")
    /\ UNCHANGED <<store, cooling, open, who, local, notices, task, history>>

\* GiveBack, with its comparison the wrong way round.
GiveBackInverted(c) ==
    LET k == who[c].kind  d == who[c].dev IN
    /\ pc[c] = "unreg"
    /\ slot' = IF slot[k][d] # c THEN [slot EXCEPT ![k][d] = None] ELSE slot
    /\ Goto(c, "notify")
    /\ UNCHANGED <<store, cooling, open, who, local, notices, task, history>>

\* DisablePresence, closing the controller's slot a second time.
DisablePresenceWrongSlot(x) ==
    LET d == task[x].dev IN
    /\ task[x].op = "ban.presence"
    /\ open' = Closed(Holder("client", d))
    /\ slipped' = slipped \cup Arriving("presence", d, Handshaking)
    /\ Then(x, "ban.notify")
    /\ UNCHANGED <<store, cooling, slot, pc, who, local, notices, bars,
                   spared>>

\* DisableNotify, not reached: the agent is not told.
DisableNotifySkipped(x) ==
    /\ task[x].op = "ban.notify"
    /\ Done(x)
    /\ UNCHANGED <<store, cooling, slot, pc, open, who, local, notices,
                   history>>

-----------------------------------------------------------------------------
(* Self-registration and handshake.                                        *)

\* The cap and the ban are read first ...
RegisterCheck(c, d) ==
    /\ pc[c] = "idle"
    /\ Unreferenced(c)
    /\ Cardinality(known) < MaxDevices
    /\ d \notin banned
    /\ Goto(c, "registering")
    /\ open' = [open EXCEPT ![c] = TRUE]
    /\ who' = [who EXCEPT ![c] = [kind |-> "none", dev |-> d, id |-> None]]
    /\ UNCHANGED <<store, cooling, slot, local, notices, task, history>>

\* ... and the store is written under its own lock.  A device that is known
\* keeps its record; `saved` is the outcome of the write to disk, which a new
\* device needs.
RegisterCommit(c, saved) ==
    LET d == who[c].dev IN
    /\ pc[c] = "registering"
    /\ known' = IF saved THEN known \cup {d} ELSE known
    /\ bars' = IF saved THEN [bars EXCEPT ![d] = @ \ {"gone"}] ELSE bars
    /\ Finish(c)
    /\ UNCHANGED <<creds, off, banned, cooling, slot, old, task>>

\* A hello that passes the checks is answered with a challenge.
Hello(c, k, d, id) ==
    /\ pc[c] = "idle"
    /\ Unreferenced(c)
    /\ k # "agent" => d \notin banned /\ d \notin cooling
    /\ d \in known
    /\ (k = "agent") = (id = None)
    /\ Goto(c, "challenged")
    /\ open' = [open EXCEPT ![c] = TRUE]
    /\ who' = [who EXCEPT ![c] = [kind |-> k, dev |-> d, id |-> id]]
    /\ UNCHANGED <<store, cooling, slot, local, notices, task, history>>

\* The answer arrives and proves possession of the key; the credential is
\* looked up only now.  An agent learns whether its device is disabled.
Auth(c) ==
    LET d == who[c].dev IN
    /\ pc[c] = "challenged"
    /\ open[c]
    /\ d \in known
    /\ who[c].kind # "agent" => who[c].id \in creds[d] \ off[d]
    /\ Goto(c, "verified")
    /\ told' = IF who[c].kind = "agent"
                 THEN [told EXCEPT ![c] = IF d \in banned THEN "disabled"
                                                          ELSE "enabled"]
                 ELSE told
    /\ UNCHANGED <<store, cooling, slot, open, who, local, met, task,
                   history>>

\* No answer, a wrong one, the 15 s deadline, or a write that fails.
HandshakeFails(c) ==
    /\ pc[c] = "challenged"
    /\ Finish(c)
    /\ UNCHANGED <<store, cooling, slot, old, task, bars>>

-----------------------------------------------------------------------------
(* register: take the slot, close the old holder, announce the peer.       *)

Swap(c) ==
    LET k == who[c].kind  d == who[c].dev IN
    /\ pc[c] = "verified"
    /\ slot' = [slot EXCEPT ![k][d] = c]
    /\ old' = [old EXCEPT ![c] = slot[k][d]]
    /\ peerOnline' = [peerOnline EXCEPT
                        ![c] = k # "presence" /\ Peer(c) # None]
    /\ Goto(c, "evict")
    /\ UNCHANGED <<store, cooling, open, who, notices, task, history>>

Evict(c) ==
    /\ pc[c] = "evict"
    /\ open' = Closed({old[c]})
    /\ old' = [old EXCEPT ![c] = None]
    /\ Goto(c, IF peerOnline[c] THEN "upself" ELSE "serve")
    /\ UNCHANGED <<store, cooling, slot, who, peerOnline, notices, task,
                   history>>

UpSelf(c) ==
    /\ pc[c] = "upself"
    /\ met' = [met EXCEPT ![c] = @ \cup {p \in Conns : p = Peer(c)}]
    /\ Goto(c, "uppeer")
    /\ UNCHANGED <<store, cooling, slot, open, who, local, told, task,
                   history>>

\* The peer is looked up again: it need not be the one seen by Swap.
UpPeer(c) ==
    /\ pc[c] = "uppeer"
    /\ met' = [p \in Conns |-> IF p = Peer(c) THEN met[p] \cup {c}
                                              ELSE met[p]]
    /\ Goto(c, "serve")
    /\ UNCHANGED <<store, cooling, slot, open, who, local, told, task,
                   history>>

-----------------------------------------------------------------------------
(* Frames of a served agent that change state, and the end of a connection.*)

ServedAgent(c) == pc[c] = "serve" /\ open[c] /\ who[c].kind = "agent"

KickClient(c) ==
    /\ ServedAgent(c)
    /\ open' = Closed(Holder("client", who[c].dev))
    /\ UNCHANGED <<store, cooling, slot, pc, who, local, notices, task,
                   history>>

\* A known id keeps its record, the disabled mark included.
ClientAdd(c, id) ==
    LET d == who[c].dev IN
    /\ ServedAgent(c)
    /\ d \in known
    /\ id \in creds[d] \/ Cardinality(creds[d]) < MaxClients
    /\ creds' = [creds EXCEPT ![d] = @ \cup {id}]
    /\ bars' = IF id \in creds[d] THEN bars
                                  ELSE [bars EXCEPT ![d] = @ \ {id}]
    /\ UNCHANGED <<known, off, banned, cooling, slot, pc, open, who, local,
                   notices, task, slipped, spared>>

\* The id to kick next is kept in who[c].id, which an agent does not use.
\* When the write to disk fails the credential is gone from memory all the
\* same, the agent is sent an error and nobody is kicked.
ClientDel(c, id, saved) ==
    LET d == who[c].dev IN
    /\ ServedAgent(c)
    /\ id \in creds[d]
    /\ creds' = [creds EXCEPT ![d] = @ \ {id}]
    /\ off' = [off EXCEPT ![d] = @ \ {id}]
    /\ who' = IF saved THEN [who EXCEPT ![c].id = id] ELSE who
    /\ Goto(c, IF saved THEN "revoke" ELSE "serve")
    /\ IF saved THEN UNCHANGED history
                ELSE Decided(id, d, {p \in CredChecked(d) : who[p].id = id})
    /\ UNCHANGED <<known, banned, cooling, slot, open, local, notices, task>>

\* KickClientByID after a credential stopped being valid.
CutClient(d, id) ==
    /\ open' = Closed(HolderWith("client", d, id))
    /\ IF id \notin creds[d] \/ id \in off[d]
         THEN /\ bars' = [bars EXCEPT ![d] = @ \cup {id}]
              /\ slipped' = slipped \cup
                   {c \in Arriving("client", d, {"verified"}) :
                        who[c].id = id}
              /\ UNCHANGED spared
         ELSE UNCHANGED history

RevokeKick(c) ==
    /\ pc[c] = "revoke"
    /\ CutClient(who[c].dev, who[c].id)
    /\ who' = [who EXCEPT ![c].id = None]
    /\ Goto(c, "serve")
    /\ UNCHANGED <<store, cooling, slot, local, notices, task>>

\* ctrl "unregister": the agent deletes its own device, disconnects the
\* controller and returns.
Unregister(c) ==
    /\ ServedAgent(c)
    /\ Deleted(who[c].dev)
    /\ Goto(c, "del")
    /\ UNCHANGED <<banned, cooling, slot, open, who, local, notices, task,
                   history>>

UnregisterKick(c) ==
    LET d == who[c].dev IN
    /\ pc[c] = "del"
    /\ open' = Closed(Holder("client", d))
    /\ IF d \notin known
         THEN ShutOut("gone", d, {"verified"}) ELSE UNCHANGED history
    /\ Goto(c, "unreg")
    /\ UNCHANGED <<store, cooling, slot, who, local, notices, task>>

\* The loop ends when a read fails.  (A frame beyond the size limit ends it
\* too: the model lets the far end close first.  So it does for a peer that
\* the relay closes because forwarding to it failed.)
ReadFails(c) ==
    /\ pc[c] = "serve"
    /\ ~open[c]
    /\ Goto(c, "unreg")
    /\ UNCHANGED <<store, cooling, slot, open, who, local, notices, task,
                   history>>

\* The deferred unregister removes the map entry only if it is still its own.
GiveBack(c) ==
    LET k == who[c].kind  d == who[c].dev IN
    /\ pc[c] = "unreg"
    /\ slot' = IF slot[k][d] = c THEN [slot EXCEPT ![k][d] = None] ELSE slot
    /\ Goto(c, "notify")
    /\ UNCHANGED <<store, cooling, open, who, local, notices, task, history>>

\* The peer is told "down" (the notice itself is in Session); a presence
\* connection tells nobody.
NotifyDown(c) ==
    /\ pc[c] = "notify"
    /\ Finish(c)
    /\ UNCHANGED <<store, cooling, slot, old, task, bars>>

-----------------------------------------------------------------------------
(* Administrator requests: one step per lock taken by the handler.         *)

\* kick: the status is read first; a device without a controller gets no
\* cooldown, but is kicked all the same.
KickRead(x, d) ==
    /\ Idle(x)
    /\ Begin(x, IF slot["client"][d] # None THEN "cool" ELSE "kick", d, None)
    /\ UNCHANGED <<store, cooling, slot, pc, open, who, local, notices,
                   history>>

KickCool(x) ==
    /\ task[x].op = "cool"
    /\ cooling' = cooling \cup {task[x].dev}
    /\ Then(x, "kick")
    /\ UNCHANGED <<store, slot, pc, open, who, local, notices, history>>

KickClose(x) ==
    LET d == task[x].dev IN
    /\ task[x].op = "kick"
    /\ open' = Closed(Holder("client", d))
    /\ IF d \in cooling THEN ShutOut("cool", d, Handshaking)
                        ELSE UNCHANGED history
    /\ Done(x)
    /\ UNCHANGED <<store, cooling, slot, pc, who, local, notices>>

\* The cooldown ends: by itself, or because the administrator allows it.
EndCooldown(d) ==
    /\ cooling' = cooling \ {d}
    /\ bars' = [bars EXCEPT ![d] = @ \ {"cool"}]

Allow(x, d) ==
    /\ Idle(x)
    /\ d \in cooling
    /\ EndCooldown(d)
    /\ UNCHANGED <<store, slot, pc, open, who, local, notices, task, slipped,
                   spared>>

CooldownEnds(d) ==
    /\ d \in cooling
    /\ EndCooldown(d)
    /\ UNCHANGED <<store, slot, pc, open, who, local, notices, task, slipped,
                   spared>>

\* forget: refused while anyone is online; the check, the deletion and the
\* end of the cooldown are three steps.
ForgetCheck(x, d) ==
    /\ Idle(x)
    /\ \A k \in Kinds : slot[k][d] = None
    /\ d \in known
    /\ Begin(x, "erase", d, None)
    /\ UNCHANGED <<store, cooling, slot, pc, open, who, local, notices,
                   history>>

\* Whoever took a slot since the check stays: nobody is kicked.  When the
\* write to disk fails the device is gone from memory all the same, and the
\* cooldown stays.
ForgetErase(x, saved) ==
    LET d == task[x].dev IN
    /\ task[x].op = "erase"
    /\ Deleted(d)
    /\ IF d \in known THEN Decided("gone", d, CredChecked(d))
                      ELSE UNCHANGED history
    /\ IF saved /\ d \in known THEN Then(x, "thaw") ELSE Done(x)
    /\ UNCHANGED <<banned, cooling, slot, pc, open, who, local, notices>>

ForgetThaw(x) ==
    /\ task[x].op = "thaw"
    /\ EndCooldown(task[x].dev)
    /\ Done(x)
    /\ UNCHANGED <<store, slot, pc, open, who, local, notices, slipped,
                   spared>>

\* disable: the device is banned even when the write to disk fails, but then
\* the handler answers with an error and goes no further.
Disable(x, d, saved) ==
    /\ Idle(x)
    /\ d \in known
    /\ banned' = banned \cup {d}
    /\ IF saved THEN Begin(x, "ban.kick", d, None) /\ UNCHANGED history
                ELSE Decided("ban", d, BanChecked(d)) /\ UNCHANGED task
    /\ UNCHANGED <<known, creds, off, cooling, slot, pc, open, who, local,
                   notices>>

DisableKick(x) ==
    LET d == task[x].dev IN
    /\ task[x].op = "ban.kick"
    /\ open' = Closed(Holder("client", d))
    /\ IF d \in banned THEN ShutOut("ban", d, Handshaking)
                       ELSE UNCHANGED history
    /\ Then(x, "ban.presence")
    /\ UNCHANGED <<store, cooling, slot, pc, who, local, notices>>

DisablePresence(x) ==
    LET d == task[x].dev IN
    /\ task[x].op = "ban.presence"
    /\ open' = Closed(Holder("presence", d))
    /\ slipped' = slipped \cup Arriving("presence", d, Handshaking)
    /\ Then(x, "ban.notify")
    /\ UNCHANGED <<store, cooling, slot, pc, who, local, notices, bars,
                   spared>>

DisableNotify(x) ==
    /\ task[x].op = "ban.notify"
    /\ Notify(task[x].dev, "disabled")
    /\ Done(x)
    /\ UNCHANGED <<store, cooling, slot, pc, open, who, local, met,
                   bars, spared>>

\* enable: any id will do, banned or not, known or not.
Enable(x, d, saved) ==
    /\ Idle(x)
    /\ banned' = banned \ {d}
    /\ bars' = [bars EXCEPT ![d] = @ \ {"ban"}]
    /\ IF saved THEN Begin(x, "unban.notify", d, None) ELSE UNCHANGED task
    /\ UNCHANGED <<known, creds, off, cooling, slot, pc, open, who, local,
                   notices, slipped, spared>>

EnableNotify(x) ==
    /\ task[x].op = "unban.notify"
    /\ Notify(task[x].dev, "enabled")
    /\ Done(x)
    /\ UNCHANGED <<store, cooling, slot, pc, open, who, local, met,
                   bars, spared>>

\* clientSetDisabled.
CredOff(x, d, id, saved) ==
    /\ Idle(x)
    /\ id \in creds[d]
    /\ off' = [off EXCEPT ![d] = @ \cup {id}]
    /\ IF saved
         THEN Begin(x, "off.kick", d, id) /\ UNCHANGED history
         ELSE /\ Decided(id, d, {c \in CredChecked(d) : who[c].id = id})
              /\ UNCHANGED task
    /\ UNCHANGED <<known, creds, banned, cooling, slot, pc, open, who, local,
                   notices>>

CredOffKick(x) ==
    /\ task[x].op = "off.kick"
    /\ CutClient(task[x].dev, task[x].id)
    /\ Then(x, "off.presence")
    /\ UNCHANGED <<store, cooling, slot, pc, who, local, notices>>

CredOffPresence(x) ==
    LET d == task[x].dev IN
    /\ task[x].op = "off.presence"
    /\ open' = Closed(HolderWith("presence", d, task[x].id))
    /\ slipped' = slipped \cup {c \in Arriving("presence", d, {"verified"}) :
                                    who[c].id = task[x].id}
    /\ Done(x)
    /\ UNCHANGED <<store, cooling, slot, pc, who, local, notices, bars,
                   spared>>

CredOn(x, d, id) ==
    /\ Idle(x)
    /\ id \in off[d]
    /\ off' = [off EXCEPT ![d] = @ \ {id}]
    /\ bars' = [bars EXCEPT ![d] = @ \ {id}]
    /\ UNCHANGED <<known, creds, banned, cooling, slot, pc, open, who, local,
                   notices, task, slipped, spared>>

-----------------------------------------------------------------------------
(* The network: the far end closes its connection, or it breaks.           *)

RemoteCloses(c) ==
    /\ open[c]
    /\ open' = [open EXCEPT ![c] = FALSE]
    /\ UNCHANGED <<store, cooling, slot, pc, who, local, notices, task,
                   history>>

-----------------------------------------------------------------------------
(* Next and the fairness of the goroutines.                                *)

\* What the goroutine of c does by itself, without a new frame.
Goroutine(c) ==
    \/ \E saved \in BOOLEAN : RegisterCommit(c, saved)
    \/ HandshakeFails(c)
    \/ Swap(c) \/ Evict(c) \/ UpSelf(c) \/ UpPeer(c)
    \/ RevokeKick(c) \/ UnregisterKick(c)
    \/ ReadFails(c) \/ GiveBack(c) \/ NotifyDown(c)

\* What c does with a frame of the far end.
Frame(c) ==
    \/ "register" \in Inputs /\ \E d \in Devices : RegisterCheck(c, d)
    \/ \E k \in Kinds \cap Inputs, d \in Devices, id \in Creds \cup {None} :
           Hello(c, k, d, id)
    \/ Auth(c)
    \/ "kick-client" \in Inputs /\ KickClient(c)
    \/ "client-add" \in Inputs /\ \E id \in Creds : ClientAdd(c, id)
    \/ /\ "client-del" \in Inputs
       /\ \E id \in Creds, saved \in BOOLEAN : ClientDel(c, id, saved)
    \/ "unregister" \in Inputs /\ Unregister(c)

\* The rest of a request that has begun.
Handler(x) ==
    \/ KickCool(x) \/ KickClose(x)
    \/ \E saved \in BOOLEAN : ForgetErase(x, saved)
    \/ ForgetThaw(x)
    \/ DisableKick(x) \/ DisablePresence(x) \/ DisableNotify(x)
    \/ EnableNotify(x)
    \/ CredOffKick(x) \/ CredOffPresence(x)

Request(x) ==
    \E d \in Devices :
        \/ "kick" \in Inputs /\ (KickRead(x, d) \/ Allow(x, d))
        \/ "forget" \in Inputs /\ ForgetCheck(x, d)
        \/ /\ "disable" \in Inputs
           /\ \E saved \in BOOLEAN : Disable(x, d, saved) \/ Enable(x, d, saved)
        \/ /\ "client-disable" \in Inputs
           /\ \E id \in Creds :
                 \/ \E saved \in BOOLEAN : CredOff(x, d, id, saved)
                 \/ CredOn(x, d, id)

Next ==
    \/ \E c \in Conns : Goroutine(c) \/ Frame(c) \/ RemoteCloses(c)
    \/ \E x \in Admins : Handler(x) \/ Request(x)
    \/ \E d \in Devices : CooldownEnds(d)

Spec == Init /\ [][Next]_vars

\* The Go scheduler runs every goroutine that is not blocked; nothing makes a
\* far end speak or an administrator click.
Fairness ==
    /\ \A c \in Conns : WF_vars(Goroutine(c))
    /\ \A x \in Admins : WF_vars(Handler(x))

FairSpec == Spec /\ Fairness

=============================================================================
