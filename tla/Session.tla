------------------------------- MODULE Session ------------------------------
(***************************************************************************)
(* One agent (internal/agent/agent.go) and one controller (Target of       *)
(* plugin/client.mjs) talking through the relay core.                      *)
(*                                                                         *)
(* Every step of the hub is a step of Tunnel, with the frames it writes.   *)
(* The two programs dial the hub, are told that they have a peer, exchange *)
(* fresh public keys through it, and then requests and answers sealed with *)
(* the session key.  A key is a number, fresh each time; a session key is  *)
(* the pair of the controller's and the agent's.                           *)
(*                                                                         *)
(* A frame the far end has sent is in toHub[c] until the relay forwards    *)
(* it, one the relay has written is in toFar[c] until the program reads    *)
(* it; both are lost with the connection.  A program may give a connection *)
(* up while the hub still believes in it, and the other way round.         *)
(***************************************************************************)
EXTENDS Tunnel, Sequences, Functions

CONSTANTS
    MaxDials,    \* MaxDials[p]: how often program p connects
    MaxReqs      \* requests the controller is given, numbered in order

Programs == {"agent", "client"}
Reqs == 1 .. MaxReqs

ASSUME SessionConstants ==
    /\ MaxDials \in [Programs -> Nat]
    /\ MaxReqs \in Nat
    /\ Programs \subseteq Inputs

VARIABLES
    link,      \* link[p]: the connection program p reads and writes
    dials,     \* dials[p]: connections p has made
    toHub,     \* toHub[c]: frames on their way to the hub
    toFar,     \* toFar[c]: frames on their way from the hub
    ephem,     \* the agent's ephemeral key, 0 before the first
    kp,        \* the controller's key pair, 0 before the first
    aSession,  \* the agent's session
    cSession,  \* the controller's session
    sentHs,    \* the controller answered a handshake with this key
    queue,     \* requests the controller has not sent yet
    inflight,  \* the request it waits for, 0 when none
    call,      \* call[r]: what became of request r
    ran,       \* the requests the agent carried out, in order
    overlapped \* history: a program took its slot while the goroutine of its
               \* previous connection was still at work

wires    == <<link, dials, toHub, toFar>>
agentEnd == <<ephem, aSession>>
keyEnd   == <<kp, cSession, sentHs>>
callEnd  == <<queue, inflight, call>>
ends     == <<agentEnd, keyEnd, callEnd, ran>>
sessionVars == <<vars, wires, ends, overlapped>>

\* A session: its key and the sequence numbers of both directions.
Sessions == [key : Nat \X Nat, sendSeq : Nat, lastRecvSeq : Nat]

NoSession == [key |-> <<0, 0>>, sendSeq |-> 0, lastRecvSeq |-> 0]
NewSession(k, e) == [key |-> <<k, e>>, sendSeq |-> 0, lastRecvSeq |-> 0]

\* Frames: peer notices and handshakes with a public key; sealed requests and
\* answers.
Frames == [type : {"up", "down", "hs"}, key : Nat, seal : Nat \X Nat,
           seq : Nat, id : {0}]
          \cup
          [type : {"req", "resp"}, key : Nat, seal : Nat \X Nat,
           seq : Nat, id : Reqs]

Notice(peer) == [type |-> peer, key |-> 0, seal |-> <<0, 0>>, seq |-> 0,
                 id |-> 0]
Handshake(k) == [type |-> "hs", key |-> k, seal |-> <<0, 0>>, seq |-> 0,
                 id |-> 0]
Sealed(type, s, r) == [type |-> type, key |-> 0, seal |-> s.key,
                       seq |-> s.sendSeq + 1, id |-> r]

SessionTypeOK ==
    /\ link \in [Programs -> Conns \cup {None}]
    /\ dials \in [Programs -> Nat]
    /\ toHub \in [Conns -> Seq(Frames)]
    /\ toFar \in [Conns -> Seq(Frames)]
    /\ ephem \in Nat
    /\ kp \in Nat
    /\ aSession \in Sessions
    /\ cSession \in Sessions
    /\ sentHs \in BOOLEAN
    /\ queue \in Seq(Reqs)
    /\ inflight \in Reqs \cup {0}
    /\ call \in [Reqs -> {"new", "queued", "sent", "ok", "rejected", "late"}]
    /\ ran \in Seq(Reqs)
    /\ overlapped \in BOOLEAN

\* The device is registered, the controller has its credential, and nothing
\* is disabled.
SessionInit ==
    /\ Init
    /\ known = Devices
    /\ creds = [d \in Devices |-> Creds]
    /\ off = [d \in Devices |-> {}]
    /\ banned = {}
    /\ link = [p \in Programs |-> None]
    /\ dials = [p \in Programs |-> 0]
    /\ toHub = [c \in Conns |-> <<>>]
    /\ toFar = [c \in Conns |-> <<>>]
    /\ ephem = 0
    /\ kp = 0
    /\ aSession = NoSession
    /\ cSession = NoSession
    /\ sentHs = FALSE
    /\ queue = <<>>
    /\ inflight = 0
    /\ call = [r \in Reqs |-> "new"]
    /\ ran = <<>>
    /\ overlapped = FALSE

-----------------------------------------------------------------------------
(* The hub: Tunnel's steps, and the frames that go with them.              *)

Emptied(c, frames) == [frames EXCEPT ![c] = <<>>]

\* Write f to connection c, which may be None or closed: then it is lost.
Written(c, f) == [q \in Conns |-> IF q = c /\ open[q] THEN Append(toFar[q], f)
                                                      ELSE toFar[q]]

\* Steps that write nothing the programs act on.
HubQuiet(c) ==
    /\ Evict(c) \/ ReadFails(c) \/ GiveBack(c)
    /\ UNCHANGED <<wires, ends, overlapped>>

HubSwap(c) ==
    /\ Swap(c)
    /\ overlapped' = (overlapped \/ \E e \in Conns \ {c} :
                         /\ pc[e] \in InMap \cup {"notify"}
                         /\ who[e].kind = who[c].kind)
    /\ UNCHANGED <<wires, ends>>

HubUpSelf(c) ==
    /\ UpSelf(c)
    /\ toFar' = Written(c, Notice("up"))
    /\ UNCHANGED <<link, dials, toHub, ends, overlapped>>

HubUpPeer(c) ==
    /\ UpPeer(c)
    /\ toFar' = Written(Peer(c), Notice("up"))
    /\ UNCHANGED <<link, dials, toHub, ends, overlapped>>

HubNotifyDown(c) ==
    /\ NotifyDown(c)
    /\ toFar' = Written(Peer(c), Notice("down"))
    /\ toHub' = Emptied(c, toHub)
    /\ UNCHANGED <<link, dials, ends, overlapped>>

HubHandshakeFails(c) ==
    /\ HandshakeFails(c)
    /\ UNCHANGED <<wires, ends, overlapped>>

\* "msg": the peer is looked up for every frame.  A frame for nobody is
\* answered with an error, which the programs only log; one for a connection
\* that is closed is lost.
Forward(c) ==
    /\ pc[c] = "serve"
    /\ open[c]
    /\ toHub[c] # <<>>
    /\ toHub' = [toHub EXCEPT ![c] = Tail(@)]
    /\ toFar' = Written(Peer(c), Head(toHub[c]))
    /\ UNCHANGED <<vars, link, dials, ends, overlapped>>

-----------------------------------------------------------------------------
(* Both programs: dialling and losing a connection.                        *)

Dial(p, c, d, id) ==
    /\ link[p] = None
    /\ dials[p] < MaxDials[p]
    /\ \A q \in Programs : link[q] # c
    /\ Hello(c, p, d, id)
    /\ link' = [link EXCEPT ![p] = c]
    /\ dials' = [dials EXCEPT ![p] = @ + 1]
    /\ toHub' = Emptied(c, toHub)
    /\ toFar' = Emptied(c, toFar)
    /\ UNCHANGED <<ends, overlapped>>

Answer(c) ==
    /\ \E p \in Programs : link[p] = c
    /\ Auth(c)
    /\ UNCHANGED <<wires, ends, overlapped>>

\* A read or a write fails, or the keepalive gives up: the program leaves the
\* connection.  The agent keeps its key and session until the next notice;
\* the controller drops its session.
Leave(p) ==
    /\ link' = [link EXCEPT ![p] = None]
    /\ toFar' = Emptied(link[p], toFar)
    /\ IF p = "client" THEN cSession' = NoSession ELSE UNCHANGED cSession

LinkLost(p) ==
    /\ link[p] # None
    /\ Leave(p)
    /\ UNCHANGED <<vars, dials, toHub, agentEnd, kp, sentHs, callEnd,
                   ran, overlapped>>

\* The hub learns of it, or the network breaks.
HubLosesLink(c) ==
    /\ RemoteCloses(c)
    /\ UNCHANGED <<wires, ends, overlapped>>

-----------------------------------------------------------------------------
(* Reading and writing by the programs.                                    *)

Reads(p, type) ==
    /\ link[p] # None
    /\ toFar[link[p]] # <<>>
    /\ Head(toFar[link[p]]).type = type

Incoming(p, type) ==
    /\ Reads(p, type)
    /\ toFar' = [toFar EXCEPT ![link[p]] = Tail(@)]

First(p) == Head(toFar[link[p]])

Sends(p, frames) == toHub' = [toHub EXCEPT ![link[p]] = @ \o frames]

-----------------------------------------------------------------------------
(* Plausible bugs.  Each stands for the action named in its comment in the  *)
(* mutation runs and is no part of the specification.                       *)

\* AgentUp, keeping the key it has and saying nothing: the controller's new
\* key pair meets no handshake.
AgentUpOnce ==
    /\ Incoming("agent", "up")
    /\ IF ephem = 0 THEN /\ ephem' = 1
                         /\ Sends("agent", <<Handshake(1)>>)
                    ELSE UNCHANGED <<ephem, toHub>>
    /\ UNCHANGED <<vars, link, dials, aSession, keyEnd, callEnd, ran,
                   overlapped>>

\* ControllerHandshake, setting the session up after the pump: a request goes
\* out before the handshake that the agent is to derive its session from.
ControllerHandshakeLate ==
    /\ Incoming("client", "hs")
    /\ kp # 0
    /\ sentHs' = TRUE
    /\ LET s == NewSession(kp, First("client").key) IN
         IF inflight = 0 /\ queue # <<>>
           THEN /\ queue' = Tail(queue)
                /\ inflight' = Head(queue)
                /\ call' = [call EXCEPT ![Head(queue)] = "sent"]
                /\ cSession' = [s EXCEPT !.sendSeq = 1]
                /\ Sends("client", <<Sealed("req", s, Head(queue))>> \o
                         (IF sentHs THEN <<>> ELSE <<Handshake(kp)>>))
           ELSE /\ cSession' = s
                /\ UNCHANGED callEnd
                /\ Sends("client",
                         IF sentHs THEN <<>> ELSE <<Handshake(kp)>>)
    /\ UNCHANGED <<vars, link, dials, agentEnd, kp, ran, overlapped>>

\* Timeout, putting the request back into the queue to be sent again.
TimeoutRetries ==
    /\ inflight # 0
    /\ queue' = Append(queue, inflight)
    /\ call' = [call EXCEPT ![inflight] = "queued"]
    /\ inflight' = 0
    /\ UNCHANGED <<vars, link, dials, toFar, toHub, agentEnd, keyEnd, ran,
                   overlapped>>

\* Timeout, going on to the next number without looking at the queue.
TimeoutCountsOn ==
    /\ inflight # 0
    /\ call' = [call EXCEPT ![inflight] = "late"]
    /\ inflight' = inflight + 1
    /\ UNCHANGED <<vars, link, dials, toFar, toHub, agentEnd, keyEnd, queue,
                   ran, overlapped>>

-----------------------------------------------------------------------------
(* The agent's loop: one frame at a time, the request included.            *)

AgentUp ==
    /\ Incoming("agent", "up")
    /\ ephem' = ephem + 1
    /\ aSession' = NoSession
    /\ Sends("agent", <<Handshake(ephem + 1)>>)
    /\ UNCHANGED <<vars, link, dials, keyEnd, callEnd, ran, overlapped>>

AgentDown ==
    /\ Incoming("agent", "down")
    /\ aSession' = NoSession
    /\ UNCHANGED <<vars, link, dials, toHub, ephem, keyEnd, callEnd, ran,
                   overlapped>>

AgentHandshake ==
    /\ Incoming("agent", "hs")
    /\ ephem' = IF ephem = 0 THEN 1 ELSE ephem
    /\ aSession' = NewSession(First("agent").key, ephem')
    /\ UNCHANGED <<vars, link, dials, toHub, keyEnd, callEnd, ran, overlapped>>

\* Open accepts a frame sealed for this session with a sequence number above
\* the last one.
Opens(s, f) == s # NoSession /\ f.seal = s.key /\ f.seq > s.lastRecvSeq

AgentRequest ==
    LET f == First("agent") IN
    /\ Incoming("agent", "req")
    /\ IF Opens(aSession, f)
         THEN /\ ran' = Append(ran, f.id)
              /\ aSession' = [aSession EXCEPT !.lastRecvSeq = f.seq,
                                              !.sendSeq = @ + 1]
              /\ Sends("agent", <<Sealed("resp", aSession, f.id)>>)
         ELSE UNCHANGED <<ran, aSession, toHub>>
    /\ UNCHANGED <<vars, link, dials, ephem, keyEnd, callEnd, overlapped>>

-----------------------------------------------------------------------------
(* The controller's loop.                                                  *)

\* pump: of the queue `jobs`, the first n have expired since they were queued
\* and fail; the next one is sent if session s is up and nothing is in flight.
\* `calls` is what has become of the requests so far, `frames` what the handler
\* writes first.
Pump(jobs, busy, s, calls, frames) ==
    \E n \in {m \in 0 .. Len(jobs) :
                 m > 0 => busy = 0 /\ call[jobs[m]] = "queued"} :
        LET rest   == SubSeq(jobs, n + 1, Len(jobs))
            failed == [r \in Reqs |-> IF \E i \in 1 .. n : jobs[i] = r
                                        THEN "rejected" ELSE calls[r]]
        IN  IF busy = 0 /\ rest # <<>> /\ s # NoSession /\ link["client"] # None
              THEN /\ queue' = Tail(rest)
                   /\ inflight' = Head(rest)
                   /\ call' = [failed EXCEPT ![Head(rest)] = "sent"]
                   /\ cSession' = [s EXCEPT !.sendSeq = @ + 1]
                   /\ Sends("client",
                            Append(frames, Sealed("req", s, Head(rest))))
              ELSE /\ queue' = rest
                   /\ inflight' = busy
                   /\ call' = failed
                   /\ cSession' = s
                   /\ IF frames = <<>> THEN UNCHANGED toHub
                                       ELSE Sends("client", frames)

ControllerUp ==
    /\ Incoming("client", "up")
    /\ kp' = kp + 1
    /\ sentHs' = FALSE
    /\ cSession' = NoSession
    /\ Sends("client", <<Handshake(kp + 1)>>)
    /\ UNCHANGED <<vars, link, dials, agentEnd, callEnd, ran, overlapped>>

ControllerDown ==
    /\ Incoming("client", "down")
    /\ cSession' = NoSession
    /\ UNCHANGED <<vars, link, dials, toHub, agentEnd, kp, sentHs, callEnd,
                   ran, overlapped>>

ControllerHandshake ==
    /\ Incoming("client", "hs")
    /\ kp # 0
    /\ sentHs' = TRUE
    /\ Pump(queue, inflight, NewSession(kp, First("client").key), call,
            IF sentHs THEN <<>> ELSE <<Handshake(kp)>>)
    /\ UNCHANGED <<vars, link, dials, agentEnd, kp, ran, overlapped>>

\* A handshake before the first notice finds no key pair: deriving the key
\* throws and ends the connection.
ControllerHandshakeThrows ==
    /\ Reads("client", "hs")
    /\ kp = 0
    /\ Leave("client")
    /\ UNCHANGED <<vars, dials, toHub, agentEnd, kp, sentHs, callEnd, ran,
                   overlapped>>

\* An answer that cannot be opened is dropped; one that is not awaited any
\* more only moves the window.
ControllerAnswer ==
    LET f == First("client")
        s == [cSession EXCEPT !.lastRecvSeq = f.seq]
    IN
    /\ Incoming("client", "resp")
    /\ IF Opens(cSession, f) /\ f.id = inflight
         THEN Pump(queue, 0, s, [call EXCEPT ![f.id] = "ok"], <<>>)
         ELSE /\ cSession' = IF Opens(cSession, f) THEN s ELSE cSession
              /\ UNCHANGED <<callEnd, toHub>>
    /\ UNCHANGED <<vars, link, dials, agentEnd, kp, sentHs, ran, overlapped>>

\* The caller's side: a request is queued and the pump started; the pump's
\* timer runs again; the request in flight times out or its write fails.
Issue(r) ==
    /\ call[r] = "new"
    /\ \A q \in 1 .. r - 1 : call[q] # "new"
    /\ Pump(Append(queue, r), inflight, cSession,
            [call EXCEPT ![r] = "queued"], <<>>)
    /\ UNCHANGED <<vars, link, dials, toFar, agentEnd, kp, sentHs, ran,
                   overlapped>>

PumpTimer ==
    /\ inflight = 0
    /\ queue # <<>>
    /\ Pump(queue, 0, cSession, call, <<>>)
    /\ UNCHANGED <<vars, link, dials, toFar, agentEnd, kp, sentHs, ran,
                   overlapped>>

Timeout ==
    /\ inflight # 0
    /\ Pump(queue, 0, cSession, [call EXCEPT ![inflight] = "late"], <<>>)
    /\ UNCHANGED <<vars, link, dials, toFar, agentEnd, kp, sentHs, ran,
                   overlapped>>

-----------------------------------------------------------------------------
Hub(c) ==
    \/ HubQuiet(c) \/ HubSwap(c) \/ HubUpSelf(c) \/ HubUpPeer(c)
    \/ HubNotifyDown(c) \/ HubHandshakeFails(c) \/ Forward(c)

AgentLoop == AgentUp \/ AgentDown \/ AgentHandshake \/ AgentRequest

ControllerLoop ==
    \/ ControllerUp \/ ControllerDown \/ ControllerHandshake
    \/ ControllerHandshakeThrows \/ ControllerAnswer

SessionNext ==
    \/ \E c \in Conns : Hub(c) \/ Answer(c) \/ HubLosesLink(c)
    \/ \E p \in Programs : LinkLost(p)
    \/ \E p \in Programs, c \in Conns, d \in Devices, id \in Creds \cup {None} :
           Dial(p, c, d, id)
    \/ AgentLoop
    \/ ControllerLoop
    \/ \E r \in Reqs : Issue(r)
    \/ PumpTimer
    \/ Timeout

SessionSpec == SessionInit /\ [][SessionNext]_sessionVars
=============================================================================
