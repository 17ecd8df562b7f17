------------------------------- MODULE Target -------------------------------
(***************************************************************************)
(* The life of a controller's target (class Target of plugin/client.mjs)   *)
(* under its manager: connecting and reconnecting, standing by, queueing   *)
(* requests, and being started and stopped meanwhile.                      *)
(*                                                                         *)
(* The program is one JavaScript thread: a step is what runs from one      *)
(* await, timer or incoming call to the next.  loop() and presenceLoop()   *)
(* are asynchronous functions; a call of start() or startPresence() makes  *)
(* one more of them, and nothing in the code waits for the previous one to *)
(* end.  pc[l] and ppc[p] say where each of them is suspended.  What the   *)
(* loops share are the fields of the target: conn, session, keepalive ...  *)
(*                                                                         *)
(* The frames of a connection and the two keys behind a session are in     *)
(* Session; here a session is the connection it was agreed on.             *)
(***************************************************************************)
EXTENDS Naturals, Sequences, Functions, FiniteSets

CONSTANTS
    Loops,     \* runs of loop() that can be suspended together
    Standbys,  \* runs of presenceLoop() that can be suspended together
    Jobs,      \* requests handed to the target
    None       \* "null"

ASSUME TargetConstants == None \notin Loops \cup Standbys \cup Jobs

VARIABLES
    \* fields of the target
    stopped, manualOff, state, conn, session, keepalive, presenceOn,
    queue,      \* requests that were not sent yet
    inflight,   \* the request that waits for its answer
    \* the manager
    auto,       \* the profile's autoConnect
    profile,    \* config.json has the profile
    listed,     \* the manager's table has the target
    \* the runtime
    pc,         \* pc[l]: where loop l is suspended
    sock,       \* sock[l]: the connection loop l is working on
    ppc,        \* ppc[p]: where standby loop p is suspended
    timer,      \* a timeout that will call pump() is pending, or several are
    due,        \* requests whose deadline has passed
    fate,       \* fate[j]: what the caller of request j knows
    \* history
    overlapped, \* a loop was started while another one was running
    cut,        \* stop() ran while a loop was dialling
    late        \* the last stop() ran while a loop was writing to its peer

shared  == <<stopped, manualOff, state, conn, session, keepalive>>
standby == <<presenceOn, ppc>>
jobs    == <<queue, inflight, timer, fate>>
manager == <<auto, profile, listed>>
past    == <<overlapped, cut, late>>
vars == <<stopped, manualOff, state, conn, session, keepalive, presenceOn,
          ppc, queue, inflight, timer, fate, auto, profile, listed, pc,
          sock, due, overlapped, cut, late>>

\* A loop that works on its connection's frames is at its read, or awaits the
\* write of its own handshake: after an "up" notice, or as the answer to the
\* peer's.
Writing == {"up", "greet"}
Reading == {"read"} \cup Writing

TypeOK ==
    /\ stopped \in BOOLEAN
    /\ manualOff \in BOOLEAN
    /\ state \in {"off", "connecting", "waiting", "online", "reconnecting",
                  "error"}
    /\ conn \in Loops \cup {None}
    /\ session \in Loops \cup {None}
    /\ keepalive \in BOOLEAN
    /\ presenceOn \in BOOLEAN
    /\ queue \in Seq(Jobs)
    /\ inflight \in Jobs \cup {None}
    /\ auto \in BOOLEAN
    /\ profile \in BOOLEAN
    /\ listed \in BOOLEAN
    /\ pc \in [Loops -> {"none", "dial", "hello", "sleep"} \cup Reading]
    /\ sock \in [Loops -> {"none", "open", "silent", "left", "closed"}]
    /\ ppc \in [Standbys -> {"none", "once", "sleep"}]
    /\ timer \in BOOLEAN
    /\ due \in SUBSET Jobs
    /\ fate \in [Jobs -> {"new", "pending", "settled"}]
    /\ overlapped \in BOOLEAN
    /\ cut \in BOOLEAN
    /\ late \in BOOLEAN

\* new Target(...) by syncTargets, which goes on to start it or its standby:
\* see Sync.
Init ==
    /\ stopped = TRUE
    /\ manualOff = FALSE
    /\ state = "off"
    /\ conn = None
    /\ session = None
    /\ keepalive = FALSE
    /\ presenceOn = FALSE
    /\ queue = <<>>
    /\ inflight = None
    /\ auto \in BOOLEAN
    /\ profile = TRUE
    /\ listed = TRUE
    /\ pc = [l \in Loops |-> "none"]
    /\ sock = [l \in Loops |-> "none"]
    /\ ppc = [p \in Standbys |-> "none"]
    /\ timer = FALSE
    /\ due = {}
    /\ fate = [j \in Jobs |-> "new"]
    /\ overlapped = FALSE
    /\ cut = FALSE
    /\ late = FALSE

-----------------------------------------------------------------------------
(* Requests.                                                               *)

Settled(f, js) == [j \in Jobs |-> IF j \in js THEN "settled" ELSE f[j]]

\* Queue q cut after its first n requests.
Gone(q, n) == {q[i] : i \in 1 .. n}
Rest(q, n) == SubSeq(q, n + 1, Len(q))

\* What pump does once it has rejected the first n requests of q: done, or
\* the next one is sent, or with no session the rest waits for a timer, unless
\* the target is stopped: then it is rejected too.
Advance(q, n, f, set, s, c, halted) ==
    LET rest == Rest(q, n) IN
    \/ /\ rest = <<>>
       /\ queue' = rest
       /\ inflight' = None
       /\ fate' = Settled(f, Gone(q, n))
       /\ timer' = set
    \/ /\ rest # <<>> /\ s # None /\ c # None
       /\ queue' = Tail(rest)
       /\ inflight' = Head(rest)
       /\ fate' = Settled(f, Gone(q, n))
       /\ timer' = set
    \/ /\ rest # <<>> /\ ~(s # None /\ c # None) /\ ~halted
       /\ queue' = rest
       /\ inflight' = None
       /\ fate' = Settled(f, Gone(q, n))
       /\ timer' = TRUE
    \/ /\ rest # <<>> /\ ~(s # None /\ c # None) /\ halted
       /\ queue' = <<>>
       /\ inflight' = None
       /\ fate' = Settled(f, Range(q))
       /\ timer' = set

\* pump, on queue q with request `busy` in flight, callers f, timer set or not,
\* session s, connection c and target halted or not: the requests at the head
\* whose deadline has passed are rejected.
Pump(q, busy, f, set, s, c, halted) ==
    \/ /\ busy # None
       /\ queue' = q
       /\ inflight' = busy
       /\ fate' = f
       /\ timer' = set
    \/ /\ busy = None
       /\ \E n \in 0 .. Len(q) :
            /\ Gone(q, n) \subseteq due
            /\ Rest(q, n) # <<>> => Head(Rest(q, n)) \notin due
            /\ Advance(q, n, f, set, s, c, halted)

\* failAll: whatever waits is rejected.
FailAll ==
    /\ queue' = <<>>
    /\ inflight' = None
    /\ fate' = Settled(fate, Range(queue) \cup {inflight})
    /\ UNCHANGED timer

-----------------------------------------------------------------------------
(* Starting and stopping, as the handlers below use them.                  *)

NewStandby == \E p \in Standbys : /\ ppc[p] = "none"
                                  /\ ppc' = [ppc EXCEPT ![p] = "once"]

StartPresence ==
    IF presenceOn THEN UNCHANGED standby
    ELSE NewStandby /\ presenceOn' = TRUE

\* The standby's connection is closed if it has one; its loop finds out when
\* it next writes, and one that is dialling goes on.
StopPresence == presenceOn' = FALSE

\* start() of a stopped target, apart from the standby.
Begin ==
    /\ \E l \in Loops : pc[l] = "none" /\ pc' = [pc EXCEPT ![l] = "dial"]
    /\ stopped' = FALSE
    /\ manualOff' = FALSE
    /\ state' = "connecting"
    /\ overlapped' = (overlapped \/ \E l \in Loops : pc[l] # "none")
    /\ late' = FALSE

\* Connection l is closed here.  A loop that waits for a frame gets an error;
\* one that awaits a write may find it done, and frames "left" in its buffer.
Shut(l) ==
    IF pc[l] \in Writing /\ sock[l] # "closed" THEN "left" ELSE "closed"

\* The target's connection is closed; the loop that reads it finds out when
\* it runs again.  One that is still dialling has no connection to close.
Hangup ==
    /\ conn' = None
    /\ session' = None
    /\ keepalive' = FALSE
    /\ sock' = [l \in Loops |-> IF l = conn THEN Shut(l) ELSE sock[l]]
    /\ cut' = (cut \/ \E l \in Loops : pc[l] = "dial")

\* stop(): a target that is already off only notes the wish.
Stop ==
    /\ manualOff' = TRUE
    /\ IF stopped /\ state = "off"
         THEN UNCHANGED <<stopped, state, conn, session, keepalive, sock,
                          standby, jobs, cut, late>>
         ELSE /\ stopped' = TRUE
              /\ state' = "off"
              /\ late' = (\E l \in Loops : pc[l] \in Writing \/ sock[l] = "left")
              /\ Hangup
              /\ FailAll
              /\ StartPresence

-----------------------------------------------------------------------------
(* Plausible bugs.  Each stands for the action named in its comment in the  *)
(* mutation runs and is no part of the specification.                       *)

\* PumpTimer, calling the pump of the first attempt only: the timer is not set
\* again while there is no session.
PumpTimerOnce ==
    /\ timer
    /\ \E others \in BOOLEAN :
         IF inflight = None /\ (session = None \/ conn = None)
           THEN timer' = others /\ UNCHANGED <<queue, inflight, fate>>
           ELSE Pump(queue, inflight, fate, others, session, conn, stopped)
    /\ UNCHANGED <<shared, standby, manager, pc, sock, due, past>>

\* InflightFails, dropping the request without telling its caller.
InflightFailsSilently ==
    /\ inflight # None
    /\ Pump(queue, None, fate, timer, session, conn, stopped)
    /\ UNCHANGED <<shared, standby, manager, pc, sock, due, past>>

\* StandbyFatal, leaving the flag set for a loop that has ended.
StandbyFatalKeepsFlag(p) ==
    /\ ppc[p] = "once"
    /\ ppc' = [ppc EXCEPT ![p] = "none"]
    /\ UNCHANGED <<shared, presenceOn, jobs, manager, pc, sock, due, past>>

\* Cleanup, without the session: it outlives its connection.
CleanupKeepsSession(l) ==
    IF pc[l] = "dial" THEN UNCHANGED <<conn, session, keepalive, sock>>
    ELSE /\ conn' = IF conn = l THEN None ELSE conn
         /\ keepalive' = FALSE
         /\ sock' = [sock EXCEPT ![l] = "none"]
         /\ UNCHANGED session

\* PeerNotice, showing the notice's own word, for which there is no label.
PeerNoticeRaw(l, up) ==
    /\ pc[l] = "read"
    /\ sock[l] = "open"
    /\ session' = None
    /\ state' = IF up THEN "up" ELSE "down"
    /\ pc' = [pc EXCEPT ![l] = IF up THEN "up" ELSE @]
    /\ UNCHANGED <<stopped, manualOff, conn, keepalive, standby, jobs, manager,
                   sock, due, past>>

\* Ready, leaving the keepalive to the first connection of the target.
ReadyWithoutKeepalive(l) ==
    /\ pc[l] = "hello"
    /\ sock[l] = "open"
    /\ pc' = [pc EXCEPT ![l] = "read"]
    /\ state' = "waiting"
    /\ keepalive' = (keepalive \/ state = "connecting")
    /\ UNCHANGED <<stopped, manualOff, conn, session, standby, jobs, manager,
                   sock, due, past>>

-----------------------------------------------------------------------------
(* loop() and connectOnce().                                               *)

\* The TLS connection is up and hello is written; nobody looks whether the
\* target was stopped meanwhile.
Dialled(l) ==
    /\ pc[l] = "dial"
    /\ pc' = [pc EXCEPT ![l] = "hello"]
    /\ sock' = [sock EXCEPT ![l] = "open"]
    /\ conn' = l
    /\ UNCHANGED <<stopped, manualOff, state, session, keepalive, standby,
                   jobs, manager, due, past>>

\* What connectOnce leaves behind when it throws: nothing, if it could not
\* dial; otherwise its `finally` has cleared the target's fields, whoever
\* filled them.
Cleanup(l) ==
    IF pc[l] = "dial" THEN UNCHANGED <<conn, session, keepalive, sock>>
    ELSE /\ conn' = IF conn = l THEN None ELSE conn
         /\ session' = None
         /\ keepalive' = FALSE
         /\ sock' = [sock EXCEPT ![l] = "none"]

\* A connection or a handshake fails, or an established connection ends: the
\* loop sleeps and tries again.  Refused for lack of permission ("slow") the
\* target shows an error, and retries as well.
Drops(l, slow) ==
    /\ \/ pc[l] = "dial" /\ ~slow
       \/ pc[l] = "hello" /\ (slow => sock[l] = "open")
       \/ pc[l] \in Reading /\ ~slow
    /\ Cleanup(l)
    /\ state' = CASE slow -> "error"
                  [] ~slow /\ pc[l] # "dial" /\ ~stopped /\ state # "error" ->
                       "reconnecting"
                  [] OTHER -> state
    /\ pc' = [pc EXCEPT ![l] = IF stopped THEN "none" ELSE "sleep"]
    /\ UNCHANGED <<stopped, manualOff, standby, jobs, manager, due, past>>

\* The loop waits for a frame and one may come: from the far end, or out of
\* the buffer of a connection that was closed here.
Receiving(l) == pc[l] = "read" /\ sock[l] \in {"open", "left"}

\* An error that no retry mends: the target stops itself and stands by.
Fatal(l) ==
    /\ \/ pc[l] = "dial"
       \/ pc[l] = "hello" /\ sock[l] = "open"
       \/ Receiving(l)
    /\ Cleanup(l)
    /\ state' = "error"
    /\ stopped' = TRUE
    /\ pc' = [pc EXCEPT ![l] = "none"]
    /\ FailAll
    /\ StartPresence
    /\ UNCHANGED <<manualOff, manager, due, past>>

Wakes(l) ==
    /\ pc[l] = "sleep"
    /\ IF stopped THEN pc' = [pc EXCEPT ![l] = "none"] /\ UNCHANGED state
       ELSE pc' = [pc EXCEPT ![l] = "dial"] /\ state' = "reconnecting"
    /\ UNCHANGED <<stopped, manualOff, conn, session, keepalive, standby, jobs,
                   manager, sock, due, past>>

Ready(l) ==
    /\ pc[l] = "hello"
    /\ sock[l] = "open"
    /\ pc' = [pc EXCEPT ![l] = "read"]
    /\ state' = "waiting"
    /\ keepalive' = TRUE
    /\ UNCHANGED <<stopped, manualOff, conn, session, standby, jobs, manager,
                   sock, due, past>>

-----------------------------------------------------------------------------
(* readLoop() and the keepalive.                                           *)

\* The loop writes and awaits the end of the write, which fails on a
\* connection that has been closed.
Writes(l, where) ==
    /\ pc' = [pc EXCEPT ![l] = where]
    /\ sock' = [sock EXCEPT ![l] = IF @ = "left" THEN "closed" ELSE @]

\* A peer notice: "up" starts a new key exchange, "down" ends the session.
PeerNotice(l, up) ==
    /\ Receiving(l)
    /\ session' = None
    /\ state' = IF up THEN state ELSE "waiting"
    /\ IF up THEN Writes(l, "up") ELSE UNCHANGED <<pc, sock>>
    /\ UNCHANGED <<stopped, manualOff, conn, keepalive, standby, jobs, manager,
                   due, past>>

UpSent(l) ==
    /\ pc[l] = "up"
    /\ sock[l] # "closed"
    /\ pc' = [pc EXCEPT ![l] = "read"]
    /\ UNCHANGED <<shared, standby, jobs, manager, sock, due, past>>

\* The session is there at once, on whatever keys the loop has; a handshake
\* that was not answered yet (sentHs; either is tried) is answered before the
\* target is shown as connected.
PeerHandshake(l, answered) ==
    /\ Receiving(l)
    /\ session' = l
    /\ IF answered
         THEN /\ state' = "online"
              /\ Pump(queue, inflight, fate, timer, l, conn, stopped)
              /\ UNCHANGED <<pc, sock>>
         ELSE Writes(l, "greet") /\ UNCHANGED <<state, jobs>>
    /\ UNCHANGED <<stopped, manualOff, conn, keepalive, standby, manager, due,
                   past>>

\* The answer is written; nobody looks what became of the target meanwhile.
Greeted(l) ==
    /\ pc[l] = "greet"
    /\ sock[l] # "closed"
    /\ pc' = [pc EXCEPT ![l] = "read"]
    /\ state' = "online"
    /\ Pump(queue, inflight, fate, timer, session, conn, stopped)
    /\ UNCHANGED <<stopped, manualOff, conn, session, keepalive, standby,
                   manager, sock, due, past>>

Response(l) ==
    /\ Receiving(l)
    /\ session = l
    /\ inflight # None
    /\ Pump(queue, None, Settled(fate, {inflight}), timer, session, conn,
            stopped)
    /\ UNCHANGED <<shared, standby, manager, pc, sock, due, past>>

\* The far end disappears without a word.  (Before the loop reads frames its
\* own timeout of 10 s finds out: that is Drops.  So is a write that fails;
\* one that succeeds takes the loop back to its read.)
GoesSilent(l) ==
    /\ pc[l] = "read"
    /\ sock[l] = "open"
    /\ sock' = [sock EXCEPT ![l] = "silent"]
    /\ UNCHANGED <<shared, standby, jobs, manager, pc, due, past>>

\* The interval closes the target's connection after 90 s of silence.
KeepaliveFires ==
    /\ keepalive
    /\ conn # None
    /\ sock[conn] = "silent"
    /\ sock' = [sock EXCEPT ![conn] = "closed"]
    /\ UNCHANGED <<shared, standby, jobs, manager, pc, due, past>>

-----------------------------------------------------------------------------
(* request() and its timers.                                              *)

Request(j) ==
    /\ listed
    /\ profile
    /\ ~stopped
    /\ fate[j] = "new"
    /\ Pump(Append(queue, j), inflight, [fate EXCEPT ![j] = "pending"], timer,
            session, conn, stopped)
    /\ UNCHANGED <<shared, standby, manager, pc, sock, due, past>>

Expires(j) ==
    /\ fate[j] = "pending"
    /\ j \notin due
    /\ due' = due \cup {j}
    /\ UNCHANGED <<shared, standby, jobs, manager, pc, sock, past>>

PumpTimer ==
    /\ timer
    /\ \E others \in BOOLEAN :
         Pump(queue, inflight, fate, others, session, conn, stopped)
    /\ UNCHANGED <<shared, standby, manager, pc, sock, due, past>>

\* The timer of the request in flight, or the failure of its write.
InflightFails ==
    /\ inflight # None
    /\ Pump(queue, None, Settled(fate, {inflight}), timer, session, conn,
            stopped)
    /\ UNCHANGED <<shared, standby, manager, pc, sock, due, past>>

InflightTimer == inflight \in due /\ InflightFails

-----------------------------------------------------------------------------
(* presenceLoop() and presenceOnce().                                      *)

\* presenceOnce: dialling, the handshake and a ping every half minute.  It
\* ends with an error, or at the next ping after the standby was stopped.
StandbyEnds(p) ==
    /\ ppc[p] = "once"
    /\ ppc' = [ppc EXCEPT ![p] = IF presenceOn THEN "sleep" ELSE "none"]
    /\ UNCHANGED <<shared, presenceOn, jobs, manager, pc, sock, due, past>>

StandbyFatal(p) ==
    /\ ppc[p] = "once"
    /\ ppc' = [ppc EXCEPT ![p] = "none"]
    /\ presenceOn' = FALSE
    /\ UNCHANGED <<shared, jobs, manager, pc, sock, due, past>>

StandbyWakes(p) ==
    /\ ppc[p] = "sleep"
    /\ ppc' = [ppc EXCEPT ![p] = IF presenceOn THEN "once" ELSE "none"]
    /\ UNCHANGED <<shared, presenceOn, jobs, manager, pc, sock, due, past>>

-----------------------------------------------------------------------------
(* The manager's calls.                                                    *)

\* syncTargets, on every poll: start or stand by what config.json has, forget
\* what it no longer has.
Sync ==
    /\ listed
    /\ IF profile
         THEN /\ stopped
              /\ IF auto /\ ~manualOff
                   THEN /\ Begin
                        /\ StopPresence
                        /\ UNCHANGED ppc
                   ELSE /\ StartPresence
                        /\ UNCHANGED <<stopped, manualOff, state, pc,
                                       overlapped, late>>
              /\ UNCHANGED listed
         ELSE /\ stopped
              /\ StopPresence
              /\ listed' = FALSE
              /\ UNCHANGED <<stopped, manualOff, state, pc, ppc, overlapped,
                             late>>
    /\ UNCHANGED <<conn, session, keepalive, jobs, auto, profile, sock, due,
                   cut>>

\* connect: syncTargets, which may begin to stand by, and then start().
Connect ==
    /\ listed
    /\ profile
    /\ stopped
    /\ Begin
    /\ StopPresence
    /\ IF presenceOn \/ (auto /\ ~manualOff) THEN UNCHANGED ppc ELSE NewStandby
    /\ UNCHANGED <<conn, session, keepalive, jobs, manager, sock, due, cut>>

Disconnect ==
    /\ listed
    /\ Stop
    /\ UNCHANGED <<manager, pc, due, overlapped>>

\* setAuto(on) starts the target even if the user had stopped it.
SetAuto(on) ==
    /\ listed
    /\ profile
    /\ auto' = on
    /\ IF on /\ stopped
         THEN Begin /\ StopPresence /\ UNCHANGED ppc
         ELSE UNCHANGED <<stopped, manualOff, state, pc, standby, overlapped,
                          late>>
    /\ UNCHANGED <<conn, session, keepalive, jobs, profile, listed, sock, due,
                   cut>>

\* setClientName: stop() and start() in one step, so that the hub sees the
\* new name.
Rename ==
    /\ listed
    /\ ~stopped
    /\ Hangup
    /\ FailAll
    /\ Begin
    /\ IF presenceOn THEN UNCHANGED ppc ELSE NewStandby
    /\ StopPresence
    /\ UNCHANGED <<manager, due>>

\* removeTarget deletes the profile and forgets the target once it is
\* stopped, which leaves it standing by.
Remove ==
    /\ listed
    /\ profile' = FALSE
    /\ listed' = FALSE
    /\ Stop
    /\ UNCHANGED <<auto, pc, due, overlapped>>

\* The desktop program deletes the profile in the shared config.json.
DropProfile ==
    /\ profile
    /\ profile' = FALSE
    /\ UNCHANGED <<shared, standby, jobs, auto, listed, pc, sock, due, past>>

-----------------------------------------------------------------------------
Control(l) ==
    \/ Dialled(l) \/ Fatal(l) \/ Wakes(l) \/ Ready(l)
    \/ \E slow \in BOOLEAN : Drops(l, slow)
    \/ \E up \in BOOLEAN : PeerNotice(l, up)
    \/ \E answered \in BOOLEAN : PeerHandshake(l, answered)
    \/ UpSent(l) \/ Greeted(l) \/ Response(l) \/ GoesSilent(l)

Standby(p) ==
    \/ StandbyEnds(p) \/ StandbyFatal(p) \/ StandbyWakes(p)

Calls ==
    \/ Sync \/ Connect \/ Disconnect \/ Rename \/ Remove \/ DropProfile
    \/ \E on \in BOOLEAN : SetAuto(on)

Next ==
    \/ \E l \in Loops : Control(l)
    \/ \E p \in Standbys : Standby(p)
    \/ \E j \in Jobs : Request(j) \/ Expires(j)
    \/ KeepaliveFires \/ PumpTimer \/ InflightFails
    \/ Calls

Spec == Init /\ [][Next]_vars

\* Timers fire and deadlines pass; nothing makes the network or the user act.
Fairness ==
    /\ \A j \in Jobs : WF_vars(Expires(j))
    /\ WF_vars(KeepaliveFires)
    /\ WF_vars(PumpTimer)
    /\ WF_vars(InflightTimer)

FairSpec == Spec /\ Fairness
=============================================================================
