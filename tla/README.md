# ocwire: the specification

TLA+ models of ocwire, their TLC runs and TLAPS proofs. ocwire lets a person
(the A side, a *controller*) work on another machine (the B side, an *agent*)
through a relay (the *hub*) that cannot read what it forwards.

## 1. The system

| Component | State it keeps | Operations | Talks to |
|---|---|---|---|
| Relay core (`internal/hub/tunnel.go`, `control.go`) | the maps `agents`, `clients`, `presences`, the cooldowns; one goroutine per connection with its locals | register, hello/challenge/auth, take and give back a slot, forward, kick, credentials from the agent, notices | store, administration, both programs |
| Device store (`hub/store.go`) | devices, credentials, bans; a JSON file | register, delete, ban, add/remove/disable a credential, verify a proof | relay core, administration |
| Administration (`hub/web.go`) | login sessions and their limit | status, kick, allow, forget, disable, enable, disable a credential, paging of the audit log | store, relay core, audit |
| Audit log (`hub/audit.go`) | an append-only file, pruned by age | log, tail before a time | administration, relay core |
| End-to-end session (`proto/crypto.go`, the frame loops of `agent.go` and `client.mjs`) | ephemeral keys, session key, sequence numbers | handshake, seal, open, request, answer | the two programs, through the relay |
| Agent run loop (`agent/agent.go`) | connection, stopped, disabled, backoff | run, stop, keepalive, re-register | hub, desktop |
| Request execution (`agent/exec.go`, `search.go`, `safe.go`) | files and processes of the machine | exec, read, write, edit, grep, glob, list, transfer | agent run loop |
| Self-update (`agent/update.go`, `hub/update.go`, `cmd/relsign`) | manifest, staged binary | check, verify, stage, apply | hub |
| Controller target (`plugin/client.mjs`, class Target) | stopped, state, connection, session, keepalive, request queue, standby | start, stop, loop, request, pump, stand by | manager, hub |
| Manager (`plugin/client.mjs`, class Manager) | the table of targets, events, `config.json`, `manager.json` | poll/sync, connect, disconnect, rename, remove, auto-connect, request, election among processes | targets, panel, tools, desktop |
| One-shot client (`internal/client`) | one connection, one request | dial, exchange, request | hub |
| Desktop (`desktop/*.go`) | agent, running flag, its configuration, issued credentials, controller profiles | start, stop, register, issue/revoke credentials, sync them to the hub, profiles | agent, manager, hub |
| Front ends, services, certificates, pages | none that outlives a call | | |

What makes it hard:

* **Concurrency in the hub.** Every connection is a goroutine, every
  administrator request another. Their shared state is touched under the
  store's lock, the registry's and each endpoint's write lock, one after the
  other and never together, so every decision ("is this device
  banned", "who is the peer", "whom do I replace") is old by the time it is
  acted on.
* **Asynchrony in the controller.** JavaScript runs one step at a time, but a
  `loop()` suspended at an `await` finds the target's fields changed by whoever
  ran meanwhile: a stop, a start, another loop.
* **Loss.** A connection may break at any frame, on one side before the other,
  and a vanished peer says nothing at all.
* **Order.** Peer notices, handshakes and data of several generations of
  connections reach the two ends interleaved.

What makes each component correct is stated in the properties of section 3;
`PROJECT.json` lists the hazards line by line, with the property that covers
each or the reason why none does.

## 2. The modules

| Module | What it is |
|---|---|
| `Tunnel` | the relay core, the in-memory store and the administrator's device requests |
| `TunnelProps`, `TunnelProofs` | its properties; the inductive strengthenings and the proofs |
| `Session` | extends `Tunnel`: an agent, a controller and the frames between them |
| `SessionProps`, `SessionProofs` | its properties; `Session` implements `Tunnel` and inherits what was proved of it |
| `Calls`, `CallsProofs` | the abstract specification of what requests promise; the proof that `Session` implements it, that the windows of a session stay open, and that a pair at rest agrees on one |
| `Target` | a controller's target under its manager |
| `TargetProps`, `TargetProofs` | its properties; their proofs |
| `Desktop` | the desktop program, the agents it runs and the files it keeps |
| `DesktopProps`, `DesktopProofs` | its properties; their proofs |
| `Supervisor` | the abstract specification of how the desktop treats its agents; `Desktop` implements it |
| `Records` | the relay's device file, ban file, registration limit and audit log |
| `RecordsProps`, `RecordsProofs` | its properties; their proofs |
| `Requests` | the requests agents execute on a machine |
| `Update` | the agent program that updates itself |
| `Host` | composes `Requests` and `Update`: a machine whose service is updated while it executes requests |
| `HostProps`, `HostProofs` | its properties; their proofs |
| `NatFacts` | lemmas on the naturals: a least element, induction over sets, functions defined by recursion along them |
| `MCTunnel`, `MCSession`, `MCTarget`, `MCDesktop`, `MCRecords`, `MCHost` | symmetry sets, inputs and bounds for TLC |

Every module has a section of mutated forms: operators that change one
definition as a plausible mistake would. `PROJECT.json` names one for each
property of each run, under which TLC finds the property violated.

### Tunnel

`pc[c]` is where connection c's goroutine stands in `(*Tunnel).Serve`:

    idle -> registering -> (end)
    idle -> challenged -> verified -> evict -> upself -> uppeer -> serve
    serve -> revoke -> serve,  serve -> del -> serve,  serve -> unreg -> notify -> idle

A step is what runs under one lock plus the local work up to the next lock,
read or write. `Swap` is the critical section of `register` (take the slot,
read the peer), `Evict` the close of the replaced connection after it, `UpSelf`
and `UpPeer` the two notices; `GiveBack` and `NotifyDown` are the two halves of
`unregister`. `RevokeKick` and `UnregisterKick` are the kicks that follow a
store write. The administrator's requests are `task[x]`, cut in the same way:
`disable` is `Disable` (store), `DisableKick`, `DisablePresence`,
`DisableNotify`. A store operation that writes the file has a parameter
`saved`: as in the code, memory has changed when the write fails.

`slot[k][d]` is the three maps in one. `old[c]` is the local `old` of
`register`. `told[c]` is the last notice written to c. `met`, `bars`, `slipped`
and `spared` are history: whom c was told is up, what has shut controllers out
of a device since its last opening, who was between its checks and the map
when a kick went by, and who was past its checks when a decision was made that
kicks nobody: `forget`, which looks at who is online before it deletes, and a
ban, revocation or disabling that could not be written to disk, which holds in
memory although the request fails.

A connection identifier is used again after its goroutine ended, once nobody
holds it, so runs bound the connections alive together and not how many
there are.

### Session

`Session` extends `Tunnel` with the frames in flight (`toHub`, `toFar`), the
two programs' links, their keys, and the request queue. Every step of the hub
is a step of `Tunnel` conjoined with the frames it writes. A key is a number
that is fresh each time; a session key is the pair (controller's, agent's), so
ciphers are ideal: a frame opens under the key it was sealed with and no other.
`Opens` is the receive window. `overlapped` is history: a program took
its slot while the goroutine of its previous connection was still at work.

The promise of a request is `Calls`: answered only if carried out, carried out
at most once, in order of issue, never after it was rejected unsent. `call` and
`ran` of `Session` are its variables; the refinement mapping is the identity,
and the run `session` checks `C!CallsSpec` as a property.

### Target

`pc[l]` is where a run of `loop()` is suspended (`dial`, `hello`: the
handshake with the hub, `read`, `up` and `greet`: the writes of its own key
after an "up" notice and in answer to the peer's, `sleep`), `ppc[p]` the same
for `presenceLoop()`. A connection closed under a loop that waits for a frame
gives it an error; under one that awaits a write the frames that had arrived
are `left` in the buffer, and the loop goes on with them.
Every call of `start()` begins one more `loop()`, as in the code: nothing waits
for the one before. What all loops share - `stopped`, `state`, `conn`,
`session`, `keepalive`, `presenceOn`, the queue - are fields of the target, and
`Cleanup` (the `finally` of `connectOnce`) clears them whoever filled them.
`Pump` is `pump()` with its recursion: the expired requests at the head are
rejected, then one is sent, or the rest waits for a timer, or a stopped target
rejects it. Several pending timers are one Boolean whose firing may leave it
set: the others' number makes no difference to what they do. Whether a deadline
has passed is `due`; time itself is not modelled. The manager's calls (`Sync`
on each poll, `Connect`, `Disconnect`, `Rename`, `Remove`, `SetAuto`) are each
one step, since they run without an `await`.

`overlapped` (a loop was started while another ran), `cut` (stop ran while a
loop was dialling) and `late` (the last stop ran while a loop was writing) are
history. `Honest` is claimed only where the first two are false, and the two
runs that TLC refutes show why. Under `late` it still says that a stopped
target holds no connection, and no longer that the panel says so: after the
await at `client.mjs:750` nobody looks at `stopped`, so `setState("online")`
shows a target the user disconnected as connected until it is started or
stopped again.

### Desktop

`task[t].at` is where a call from the window stands (`desktop/app.go` runs each
as a goroutine), `pc[r]` where an agent's `Run` stands, `sync[s]` a run of
`syncClientsToHub`:

    task:  unreg -> stop -> wait -> clear | net -> commit -> start -> launch
    pc:    dial -> shake -> serve -> pause,  shake -> rereg -> again -> dial,  ... -> over -> done

A step is one critical section of `App.mu`, one wait, or one dialogue with the
relay; `startAgent` is two, `StartAgent` (looks at `running`) and `Launch` (sets
it). `ag` is the agent the program holds; `running` always agrees with it.
The relay is reduced to what the program can tell of it (`known`, `filed`,
`controller`, `banned`). `disk` is `desktop.json`, `agentJson` the file of the
command-line agent it takes over. `raced`, `gaveUp`, `cut`, `lost`,
`misread`, `inherited`, `rekeyed` and `unheard` are history, one for each way
the code lets the program and its surroundings drift apart, and `halted` the
user's last word on the switch (`Start`, `Stop`):

* `raced`: two calls were between the two halves of `startAgent`.
* `gaveUp`: `stopAgent` waited three seconds (`app.go:256`) and `startAgent`
  then returned, since `running` was still true.
* `cut`: an agent stopped while it dialled serves until its connection ends.
* `misread`: the one-shot dialogue takes the relay's `peer` frame for the
  acknowledgement (`register.go:121`); with a controller connected every
  invitation, removal and synchronisation fails though the relay acted.
* `lost`: an acknowledgement or a write of `desktop.json` was lost (its error
  is ignored), or a credential was revoked while a synchronisation that had
  copied it was on its way.
* `inherited`: the window shows a ban its agent was never told of: a new agent
  starts unbanned and reports changes only (`agent.go:332`).
* `rekeyed`: a new identity does not ask for a new synchronisation.
* `unheard`: the relay registered a forgotten device again and its answer was
  lost: `reRegister` returns before it clears `clientsSynced` (`app.go:486`), the
  agent comes back to a device without credentials, and nothing files them
  although that is what the synchronisation is for (`app.go:491`, `app.go:584`).
* `halted`: `Stop` sets it; `Start` clears it, and so does whatever starts an
  agent. `CreateInvite` and `RemoveClient` do that when they succeed
  (`app.go:385`, `app.go:460`), even on a machine the user had stopped; renaming
  it or importing an identity does not.

### Records

`hand[h]` is the goroutine of a registration, a credential change or an
administrator's request; store and log have a lock each, so an operation on one
of them is a step, and what lies between (the cap, the ban check, the insert;
the stamp of a log line and its writing) is where goroutines meet. `mem` and
`file` are the devices in memory and on disk, `ban` and `banFile` the bans;
`saved` tells whether a write succeeded, and `Restart` loads what is on disk.
`recent` is the address's entry of `regLog`. `log` is the audit file, whose last
line may have been cut short; `reader` is an administrator who pages it by the
time of the last line shown. `told`, `toldBan`, `unwritten` and
`admits` are history: what the relay last confirmed of each item, the devices it
called gone that are still in the file, and when registrations were admitted.
`Scan` is the number of lines in the 2 MB that `TailBefore` looks at
(`audit.go:122`), with lines all of one size.

### Requests, Update and Host

A file is an inode; `path` and `tmp` are the names of a file and of the
temporary file through which every writer goes (`exec.go:236`). `job[a].at` is
where an agent's request stands between two system calls, `cmd[a]` the command
it runs: its process, a descendant that may hold its output, the two timers.
`crossed` is history: the inodes opened while another agent was writing the
file. The code does not keep two writers apart, and then a torn file may get
into place although the comment calls the replacement atomic; `PathWhole` says
that this is the only way.

`Update` has the three parts of a release, which an operator replaces one after
the other, and the program that fetches them one after the other (`loop`),
stages the file, ends, is started again and renames (`proc`: `apply`, `mid`,
`up`). `running` is the image of the process, which stays the old one until the
start after next: the service downloads and stages each version twice before
it runs it. What is staged is not looked at when it is applied, so a crash
while it is written or between the renames leaves a program that cannot
start: `hurt` records it, and `ExeWhole` says that nothing else does.
`Host` joins the two: the end of the service ends its requests where they are.

## 3. The runs

| Run | Question and properties | Bounds | Distinct states | Result |
|---|---|---|---|---|
| `tunnel_pairing` | do slots, evictions and introductions survive every interleaving, and does a closed connection leave? `NoGhost`, `Exclusive`, `Introduced`, `OwnEntryOnly`, `ClosedLeaves` | 3 connections, 1 device, no administrator | 0.3 million | holds |
| `tunnel_revoke` | does a kick, ban or revocation keep out whom it should, and does the agent know? `TypeOK`, `ControllerPermitted`, `PresencePermitted`, `NoticeCurrent` | 2 connections, 1 credential, 2 administrators, every input | 5.0 million | holds |
| `tunnel_disabled` | "disable ... refuses its connections" (`web.go:450`): `DisabledKeepsOut` | 2 connections | | **refuted** |
| `session` | do the ends agree on a session, do windows stay open, do requests keep `Calls`? `SessionTypeOK`, `AgreeInTurn`, `WindowsOpen`, `CallsHold` | the agent connects once, the controller twice, 2 requests | 4.2 million | holds |
| `session_replaced` | "a reconnection replaces the old connection" (`tunnel.go:415`): `AgreeAlways` | 3 connections, the controller connects twice | | **refuted** |
| `target` | are the flags, the queue and the panel honest at every await, does every request settle and every dead connection get found? `TypeOK`, `NeverDead`, `NobodyForgotten`, `Honest`, `RequestsSettle`, `SilenceFound` | 2 loops, 2 standby loops, 2 requests | 0.9 million | holds |
| `target_twice` | "at most one long connection per device" (`client.mjs:349`): `OneConnection` | 2 loops | | **refuted** |
| `target_stays_off` | "stays disconnected" (`client.mjs:483`): `StaysOff` | 2 loops | | **refuted** |
| `desktop_calls` | does the program hold the agents it started, and is it in service when nothing is going on? `TypeOK`, `Held`, `InService`, `Silenced`, `Supervised` | 3 agents, startup and 2 calls, 2 identities | 1.6 million | holds |
| `desktop_creds` | do program, relay and window agree on credentials and bans? `SyncedTrue`, `NoOrphans`, `ShownTrue` | 2 agents, startup and 1 call, 2 synchronisations, 1 credential, 1 restart | 7.9 million | holds |
| `records` | is what the relay confirmed on disk, do its limits hold, does paging show each line once? `TypeOK`, `Promised`, `Capped`, `Paced`, `PagedOnce`, `PagedAll` | 2 goroutines, 3 devices, 2 keys, 3 operations, 2 seconds, 1 restart, pages of 1 line, a scan of 2 | 2.6 million | holds |
| `host` | are files and program whole, answers honest, and does the last release arrive? `HostTypeOK`, `PathWhole`, `Untruncated`, `ExecHonest`, `ExeWhole`, `UpdateArrives` | 2 agents; 2 requests, or 1 request with a release, a crash and a fault, or 2 releases with a crash and 2 faults | 0.4 million | holds |

Each takes a few minutes at most; between them they fire every action.

Why the bounds suffice for what the runs ask:

* The hub treats devices independently: no step reads or writes two of them, so
  one device shows every conflict. Three connections are a holder, the one
  that replaces it and the one that replaces that, or a pair and a newcomer;
  the run with administrators needs two, one in the map and one on its
  way. `MaxDevices` and `MaxClients` of 1 make both caps reachable. The
  constraint `BansMeet` of `tunnel_revoke` lets two administrators be at work
  together only on each other's bans of a device whose connections are
  agents', which is what `NoticeCurrent` needs a second one for. `OneLapse`
  leaves out states with both a connection a kick missed and one a decision
  without a kick left alone: neither record is read where the other is written.
* In `session` the second dial of the controller is the first reconnection,
  which meets every kind of leftover of the first; two requests are one in
  flight and one waiting.
* In `target` two loops are the least that can disturb one another, and the
  model's own guard (a free element of `Loops`) keeps a third from starting.
  At most three of the two loops and two standby loops are at work
  (`ThreeAtWork`), and while one loop awaits a write the other has no
  connection and the profile is there (`WritesAlone`).
  The second request comes only where at most one loop and one standby loop are
  at work (the constraint `RequestsMeet`): the queue reads the session the
  target has, whichever loop made it.
  Every safety property is proved for any number (section 5).
* In `desktop_calls` a third agent is the one after two that met; the `Boot`
  call and two others give three calls that overlap. `desktop_creds` needs two
  synchronisations (one that copied a credential, one begun after), one
  credential, since no step reads two, and one restart, after which nothing of
  the first life is left but the files.
* In `records` one device is the cap, two goroutines pass it together and a
  third identity shows that no more do. Pages of one line and three lines
  give a page that ends inside a second, and a scan of two lines leaves the first
  of them behind; pages of more lines are the proof's. `Keep` of one second lets
  lines age.
* In `host` a third request adds no case (the run was made once with three, 4.4
  million states, and held). Four inodes are the file, the temporary one and
  one for each agent. A version that is read whole and one over the limits make
  each limit bite, and the trees have every kind of file; two releases are one
  that is overtaken while it is fetched.

`CHECK_DEADLOCK FALSE`: with all connections down and nobody typing, or when
the bounds are used up, the systems may rest.

The four refuted properties:

* **`DisabledKeepsOut`.** The ban is read when the hello arrives; up to 15 s
  later the connection takes its slot without looking again. A ban and its kick
  that fall between leave a controller connected to a disabled device.
  `ControllerPermitted` states what does hold.
* **`AgreeAlways`.** A replaced connection announces its end to the peer after
  its successor was announced: the agent drops the session it has just made
  with the new connection, and the controller, which keeps it, times out on
  every request. `AgreeInTurn` states what holds when the old goroutine is
  done first.
* **`OneConnection`.** `setClientName` stops and starts a target in one step:
  the loop that was dialling or reading finds `stopped` false again and goes
  on beside the new one. The hub lets each replace the other, so they take turns.
* **`StaysOff`.** A target disconnected while it dials has no connection to
  close, and the loop does not look at `stopped` after the dial.

Properties with exceptions name them, each a behaviour the code does have:

* `ControllerPermitted`, `PresencePermitted`, `NoticeCurrent`: `slipped` and
  `spared`. After a forget that overtook a controller's arrival, or a ban that
  could not be written, the connected controller stays; whoever is checked
  later is kept out.
* `InService`, `SyncedTrue`, `NoOrphans`, `ShownTrue`: the histories of
  `Desktop` in section 2. `NoOrphans` speaks of a machine that has had one
  identity: the credentials of a former one stay with the relay.
* `PagedAll`: the lines of the second in which a page ended are lost
  (`audit.go:112`), so are later lines with an earlier stamp, and what lies
  further back than 2 MB is never read (`audit.go:122`). The test's "no
  repetition and no omission" (`audit_test.go:33`) is true of its five lines, a
  minute apart. `PagedOnce`: a line written late with an early stamp may be
  shown twice.
* `Promised`: until another operation on the same item, since a removal that
  failed to be written answers "not found" when it is repeated; and `unwritten`:
  a device that removes itself is told it is gone whatever became of the write
  (`tunnel.go:208`), and is back after a restart unless the store was written
  in between.
* `Honest`: `overlapped`, `cut` and `late`.
* `PathWhole`: two agents that write at once. `Untruncated`: a file that was
  replaced while it was read; and what a search leaves out without a word:
  directories that cannot be read or have one of eight names, for grep also files
  of more than 1 MB, with binary content or that cannot be read
  (`search.go:126`, `search.go:143`), and all that follows its limit on files.
  `ExecHonest` says nothing of failures: a good command whose children keep its
  output is answered as an error, and one that ends at its deadline as timed
  out.
* `ExeWhole`, `UpdateArrives`: `hurt`.

## 4. Fairness

* `Tunnel`: weak fairness of `Goroutine(c)` (what a goroutine does without a new
  frame: the scheduler runs it; reads have deadlines, so a closed connection's
  read fails) and of `Handler(x)` (a request that began). Nothing makes a far
  end speak, a disk write succeed or an administrator click. A write is assumed
  to return: see section 6.
* `Target`: weak fairness of `Expires` (time passes), `PumpTimer`,
  `InflightTimer` (timeouts fire) and `KeepaliveFires` (the interval fires). None
  for the network, the loops or the manager: requests settle by their deadlines
  alone.
* `Host`: weak fairness of the program's own steps (started again by the
  service manager, apply, stage, end) and of `Publish` (an operator finishes
  what was begun); strong fairness of `FetchSig` and `FetchFile`: each may fail
  any number of times and succeeds if tried for ever. None for requests.

`Desktop` and `Records` claim safety only.

## 5. What is proved

All for any sets of connections, devices, credentials, administrators, loops,
requests, agents, files and versions, from the named assumptions
(`TunnelConstants`, `SessionConstants`, `TargetConstants`, `DesktopConstants`,
`RecordsConstants`, `RequestsConstants`, `UpdateConstants`, `HostConstants`:
`None` and the like differ from everything else, limits are naturals, and where
something is counted the set is finite).

| Theorem | Argument |
|---|---|
| `TunnelProofs!TypeCorrect`: `[]TypeOK` | inductive with `Placed`: where a goroutine stands fixes what its locals hold, without which `old` and the map updates have no type |
| `NoGhostEver`, `ExclusiveEver` | inductive `SeatInv == NoGhost /\ Seated /\ OldHeld`: an open registered connection is in the map or is somebody's `old`; the goroutine that holds an `old` is about to close it. `Exclusive` follows since a slot has one holder |
| `ControllerPermittedEver` | inductive `PermitInv == BarsTrue /\ ArrivingClean /\ ControllerPermitted`: recorded reasons are present ones, and a controller past its checks that no kick has missed has nothing against it *yet*; `ControllerPermitted` alone is not inductive, since `Swap` puts a verified connection into the map unchecked |
| `PresencePermittedEver` | `PresencePermitted` with `PresenceArriving`: a presence connection of a banned device that is still on its way was recorded by the second kick, or that kick is to come. `BarsTrue` shows that none passes its hello against a recorded ban |
| `NoticeCurrentEver` | inductive `NoticeInv`, under `BarsTrue` and `SeatInv`: at every moment an agent past its proof of a disabled device knows, was missed or misled by a notice, or a disabling request has its notice still to send; at rest none has |
| `IntroducedEver` | inductive `PairInv`: of two paired connections one *leads*: it has told both, or is at a step from which it will. Whoever swapped last saw the other |
| `OwnEntryEver`: `OwnEntryOnly` | each step, by the guards of `Swap` and `GiveBack` |
| `SessionProofs!SessionRelays`: `SessionSpec => Spec` | each step of the hub in `Session` is a step of `Tunnel`; a program's own step leaves the hub alone |
| `SessionExclusive` | the theorems above, through `SessionRelays` |
| `SessionTypeCorrect` | the type of `Tunnel` through `SessionRelays`, and what the programs' steps do to links, frames and keys |
| `CallsProofs!SessionKeepsCalls`: `SessionSpec => C!CallsSpec` | inductive `CallInv`: an agent announces each of its keys on one connection, a session key dies with the epoch it belongs to, and so the requests of the present epoch travel over one connection of the controller, in order, all later than every request in `ran`. Under it each step issues, sends, carries out, answers or rejects one request as `Calls` allows, or changes nothing it sees |
| `WindowsOpenEver` | on top of `CallInv` and the relay's `PairInv`, inductive `WinInv == EpochWin /\ ToldWin /\ InLine /\ BackOpen`. A handshake read a second time puts its reader's counters back to zero, which is harmless only before the other end has used the session. Towards the agent: its key is announced again only until the controller is told it is up, and requests start later (`Unserved`, `Heralded`, `MetIdle`). Towards the controller: handshakes of a key pair that are still unread lie before the requests made with it, on one connection (`InLine`). `WindowsOpen` alone is not inductive, since it says nothing of frames on their way |
| `AgreeInTurnEver` | inductive `AgreeInv == InTurn /\ Greeted /\ Learning`. Of the two goroutines that register, the last to tell its pair of each other tells its own program first and forwards nothing before it is done (`Greeted`). From then on, for either program, a notice is still to be read by the other, which makes a new key, or the other's present key is the last thing this one will read, or has read (`Learning`, `Learns`); each step keeps this, and with nothing left to read only the last case remains. `InTurn` keeps the late notice of an earlier connection out. The proof corrected the property: as first stated it forgot that the two programs must be served for the same device |
| `TargetProofs!TypeCorrect` | with `TypedPump`: what `pump` leaves of a queue is a queue |
| `NeverDeadEver` | inductive with `TypeOK`: a loop ends only where it finds `stopped` or sets it |
| `NobodyForgottenEver` | inductive `JobInv`: every waiting caller has exactly one request, in flight or queued, and a queue with nothing in flight has a timer. The lemma `PumpKeeps` shows that `pump` re-establishes it from any queue that meets its first half; the callers (`Landed`, `Queued`, `FailAllKeeps`) show they hand it such a queue |
| `HonestEver` | inductive `HonestInv`, `Alone /\ Owned /\ Hushed /\ Shown /\ Leftover` while nothing overlapped: one loop at most is past its pause; connection, session and keepalive are the ones it made; a stopped target has none that is live, and shows none unless it was stopped while its loop awaited a write (`late`), when that loop's next step still makes it look online on a connection that is closed (`Leftover`) |
| `DesktopProofs!TypeCorrect` | one lemma for each group of actions |
| `HeldEver`, `SilencedEver` | inductive `IInv == TypeOK /\ OneLaunch /\ Ordered /\ Held /\ Silenced`: while nothing raced, at most one call is between the halves of `startAgent` and no agent is held then, so `Launch` cannot drop one; an agent ends only after it was stopped |
| `InServiceEver` | inductive `ServiceInv`, on top of `IInv`: while calls do not overlap (`Solo`) each stage of a call fixes whether an agent is held and under which identity, and what the user's switch says (`Staged`); with none at work an agent serves, or the user has stopped it and none is held (`InPlace`), and then by `Held` none is alive |
| `ShownTrueEver` | inductive `Shows`: what the window shows is the agent's own flag, from its launch on, unless it was inherited |
| `NoOrphansEver`, `SyncedTrueEver` | inductive: every key that a call, a synchronisation or the relay's file mentions was generated (`KeysBorn`, `TasksBorn`, `SyncsBorn`, `FiledKnown`), and what a synchronisation copied and has yet to send accounts for the difference between the program and the relay (`Covered`, `Told`) |
| `DesktopProofs!Implements`: `Spec => Supervised` | under `IInv` each step is a `Start`, `Tell`, `End` or `Exit` of `Supervisor`, or changes nothing it sees |
| `RecordsProofs!PromisedEver` | inductive `Sound`: memory and file agree on whatever was confirmed, but for the devices of `unwritten`, which memory no longer has: the next whole-file write cannot lose the one and makes the other good |
| `CappedEver` | inductive `Room`: devices and registrations that have passed the look at the cap number at most the cap plus the goroutines less one; and the file has no more, so a restart keeps it |
| `RecordsTypeCorrect` | the conjunction `Whole` of the invariants of this and the next two rows |
| `PacedEver` | inductive `Paces`: the stamps the limit looks at are the last of all those admitted, which do not decrease, and each that was forgotten is a window old. That the loop of `allowRegister` leaves a suffix is `FreshIsSuffix` |
| `PagedOnceEver`, `PagedAllEver` | inductive `LogInv` (lines are numbered in the order of the file, none is stamped in the future) and `Fine(reader)`, a statement on each line left in the log: it was shown and the pages have not gone back past it, or is still to come, or a page ended that explains it, or it was too far back at the last page. `PageFacts` says what a page is: lines that can be read, the newest first, and none left out but older ones, or, when it is empty, ones too far back; `PageShown` adds a page to a reader. Neither property is inductive, since each speaks only of the outcome |
| `HostProofs!ExeWholeEver` | inductive `UpdateInv`: a staged file that is not whole, and a program file that is missing, are each accounted for by where the process stands or by `hurt` |
| `PathWholeEver` | inductive `WriteInv`: a writer that was alone from its open to its rename owns the temporary name, which stands for its file and no other writer's; hence what it fills is empty before and its own after, and what a rename brings into place is whole. `PathWhole` alone is not inductive, since `Rename` moves whatever `tmp` stands for |
| `ExecHonestEver` | inductive `ExecInv`: a killed command is past its deadline, and nothing touches a command between its answer and the next request |
| `HostTypeCorrect` | from the above |
| `UntruncatedEver` | inductive `AnswerInv`: a count that was not cut is the sum of what there is in the files the search looks into (`Complete`), and a file that stayed in place is as long as it was. `HitsFacts` shows, by induction along the tree, that the limited count is the sum when it is not cut |

Two kinds of recursion occur in these arguments, both along the naturals: sums
over a tree and what a loop keeps of a sequence (`Kept`). `NatFacts` proves that
a function with such a definition exists and obeys it, with induction stated
for sets of naturals; the proofs of `HitsFacts` and `KeptTraces` use it.

Only model-checked: the liveness properties (`ClosedLeaves`, `RequestsSettle`,
`SilenceFound`, `UpdateArrives`), which need fairness and with it `ENABLED`.
Every invariant, action property and refinement that a run checks is proved.

## 6. What is not modelled

* **Blocked writes.** `endpoint.send` writes under a mutex with no deadline; a
  far end that stops reading can hold up whoever writes to it. Kernel
  buffers decide when.
* **The race on `d.Clients`.** `VerifyClientProof` walks the slice after the
  store's lock was released; the model checks the credential in one step.
* **Ciphers and proofs** are ideal: a connection passes the challenge iff the
  store has its credential, enabled, when it answers; a release whose parts
  do not belong together is refused. An agent that does not
  know the controller's credential (`ClientEncKey`) is left out of `Session`.
* **Lengths of time.** Backoff, cooldown and timeouts are orders of events.
  (The agent's reconnect delay, `agent.go:206`, doubles from 16 to 32 seconds
  and never falls back.) `Records` has a clock, in seconds, that does not go
  back.
* **Standby connections.** `presenceOnce` is one suspended state in `Target`;
  its registration at the hub is the `presence` kind of `Tunnel`.
* **A target added, or added again under a removed name,** is a new target: the
  model follows one. `removeTarget` leaves the standby loop of the forgotten
  target running; no property is stated of it.
* **The election of the manager and the shared `config.json`.** Both are
  read-change-write on a file with no lock; nothing in the code resolves a
  conflict, so there is nothing to state but that the last writer wins.
* **Administrator login** and its limit, the lengths of the audit log's lines,
  several addresses in the registration limit, loss of what was written but not
  flushed by the operating system.
* **Of the requests**: the path check (`safePath`), listing, creating
  directories, the syntax of patterns, shells, line lengths and encodings.
* **Of the desktop**: the switch of a single credential (`SetClientDisabled`),
  controller profiles, the activity list, calls passed on to the manager,
  window, tray and autostart.
* **The one-shot client** (`internal/client`): to the hub another controller
  connection, which `Tunnel` has.
* The frame codec, certificates, pages, the plugin's tools and the editor
  extension, service installation and interactive set-up: input and output, or
  sequential code that runs once.

## 7. Plan

What a next extension would take up, in this order:

1. The one-shot client as a second controller in `Session`, with the
   replacement of connections it causes.
2. A smaller relay for `Desktop` under which its liveness can be checked: a
   machine that is not banned ends up connected once calls cease.
3. Login and its limit; the shared `config.json` if the code comes to guard it.
