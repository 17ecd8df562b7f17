--------------------------- MODULE SessionProofs ---------------------------
(***************************************************************************)
(* The session system is an implementation of the relay core: every step   *)
(* of it is a step of Tunnel or changes nothing of the hub, so what was    *)
(* proved of the relay core holds with the two programs attached.          *)
(***************************************************************************)
EXTENDS SessionProps, TunnelProofs, SequenceTheorems

LEMMA ProgramKinds == Programs \subseteq Kinds \cap Inputs
BY SessionConstants DEF Programs, Kinds

\* A step of the hub takes a step of Tunnel.
LEMMA HubSteps ==
  ASSUME NEW c \in Conns, Hub(c) \/ Answer(c) \/ HubLosesLink(c)
  PROVE  [Next]_vars
<1>1. CASE HubQuiet(c)
  <2>1. Goroutine(c)
    BY <1>1 DEF HubQuiet, Goroutine
  <2> QED BY <2>1 DEF Next
<1>2. CASE HubSwap(c)
  <2>1. Goroutine(c)
    BY <1>2 DEF HubSwap, Goroutine
  <2> QED BY <2>1 DEF Next
<1>3. CASE HubUpSelf(c)
  <2>1. Goroutine(c)
    BY <1>3 DEF HubUpSelf, Goroutine
  <2> QED BY <2>1 DEF Next
<1>4. CASE HubUpPeer(c)
  <2>1. Goroutine(c)
    BY <1>4 DEF HubUpPeer, Goroutine
  <2> QED BY <2>1 DEF Next
<1>5. CASE HubNotifyDown(c)
  <2>1. Goroutine(c)
    BY <1>5 DEF HubNotifyDown, Goroutine
  <2> QED BY <2>1 DEF Next
<1>6. CASE HubHandshakeFails(c)
  <2>1. Goroutine(c)
    BY <1>6 DEF HubHandshakeFails, Goroutine
  <2> QED BY <2>1 DEF Next
<1>7. CASE Forward(c)
  BY <1>7 DEF Forward
<1>8. CASE Answer(c)
  <2>1. Frame(c)
    BY <1>8 DEF Answer, Frame
  <2> QED BY <2>1 DEF Next
<1>9. CASE HubLosesLink(c)
  <2>1. RemoteCloses(c)
    BY <1>9 DEF HubLosesLink
  <2> QED BY <2>1 DEF Next
<1> QED BY <1>1, <1>2, <1>3, <1>4, <1>5, <1>6, <1>7, <1>8, <1>9 DEF Hub

\* Dialling is a hello of the program's own kind.
LEMMA DialSteps ==
  ASSUME NEW p \in Programs, NEW c \in Conns, NEW d \in Devices,
         NEW id \in Creds \cup {None}, Dial(p, c, d, id)
  PROVE  [Next]_vars
<1>1. p \in Kinds \cap Inputs /\ Hello(c, p, d, id)
  BY ProgramKinds DEF Dial
<1>2. Frame(c)
  BY <1>1 DEF Frame
<1> QED BY <1>2 DEF Next

\* What the programs do by themselves leaves the hub alone.
LEMMA ProgramSteps ==
  ASSUME \/ \E p \in Programs : LinkLost(p)
         \/ AgentLoop \/ ControllerLoop
         \/ \E r \in Reqs : Issue(r)
         \/ PumpTimer \/ Timeout
  PROVE  UNCHANGED vars
BY DEF LinkLost, AgentLoop, AgentUp, AgentDown, AgentHandshake, AgentRequest,
       ControllerLoop, ControllerUp, ControllerDown, ControllerHandshake,
       ControllerHandshakeThrows, ControllerAnswer, Issue, PumpTimer, Timeout

\* The session system implements the relay core.
THEOREM SessionRelays == SessionSpec => Spec
<1>1. SessionInit => Init
  BY DEF SessionInit
<1>2. [SessionNext]_sessionVars => [Next]_vars
  <2>1. SUFFICES ASSUME [SessionNext]_sessionVars PROVE [Next]_vars
    OBVIOUS
  <2>2. ASSUME NEW c \in Conns, Hub(c) \/ Answer(c) \/ HubLosesLink(c)
        PROVE  [Next]_vars
    BY <2>2, HubSteps
  <2>3. ASSUME NEW p \in Programs, NEW c \in Conns, NEW d \in Devices,
               NEW id \in Creds \cup {None}, Dial(p, c, d, id)
        PROVE  [Next]_vars
    BY <2>3, DialSteps
  <2>4. ASSUME \/ \E p \in Programs : LinkLost(p)
               \/ AgentLoop \/ ControllerLoop
               \/ \E r \in Reqs : Issue(r)
               \/ PumpTimer \/ Timeout
        PROVE  [Next]_vars
    BY <2>4, ProgramSteps
  <2>5. CASE SessionNext
    BY <2>2, <2>3, <2>4, <2>5 DEF SessionNext
  <2>6. CASE UNCHANGED sessionVars
    BY <2>6 DEF sessionVars
  <2> QED BY <2>1, <2>5, <2>6
<1> QED BY <1>1, <1>2, PTL DEF SessionSpec, Spec

\* So the session system, too, closes a replaced connection and pairs only
\* live ones.
THEOREM SessionExclusive ==
    SessionSpec => [](NoGhost /\ Exclusive /\ Introduced)
BY SessionRelays, NoGhostEver, ExclusiveEver, IntroducedEver, PTL

-----------------------------------------------------------------------------
(* Type correctness.                                                       *)

Outcomes == {"new", "queued", "sent", "ok", "rejected", "late"}

LEMMA FrameRecords ==
  /\ Notice("up") \in Frames /\ Notice("down") \in Frames
  /\ \A k \in Nat : Handshake(k) \in Frames
  /\ \A s \in Sessions, r \in Reqs :
        Sealed("req", s, r) \in Frames /\ Sealed("resp", s, r) \in Frames
BY DEF Frames, Sessions, Notice, Handshake, Sealed

LEMMA SessionRecords ==
  /\ NoSession \in Sessions
  /\ \A k, e \in Nat : NewSession(k, e) \in Sessions
  /\ \A s \in Sessions, n \in Nat :
        /\ [s EXCEPT !.sendSeq = n] \in Sessions
        /\ [s EXCEPT !.lastRecvSeq = n] \in Sessions
        /\ [s EXCEPT !.sendSeq = @ + 1] \in Sessions
        /\ [s EXCEPT !.lastRecvSeq = n, !.sendSeq = @ + 1] \in Sessions
<1>1. NoSession \in Sessions
  BY DEF Sessions, NoSession
<1>2. \A k, e \in Nat : NewSession(k, e) \in Sessions
  BY DEF Sessions, NewSession
<1>3. ASSUME NEW s \in Sessions, NEW n \in Nat
      PROVE  /\ [s EXCEPT !.sendSeq = n] \in Sessions
             /\ [s EXCEPT !.lastRecvSeq = n] \in Sessions
             /\ [s EXCEPT !.sendSeq = @ + 1] \in Sessions
             /\ [s EXCEPT !.lastRecvSeq = n, !.sendSeq = @ + 1] \in Sessions
  <2>1. s.sendSeq \in Nat /\ s.sendSeq + 1 \in Nat
    BY DEF Sessions
  <2>2. \A q \in Sessions, m \in Nat :
           /\ [q EXCEPT !.sendSeq = m] \in Sessions
           /\ [q EXCEPT !.lastRecvSeq = m] \in Sessions
    BY DEF Sessions
  <2>3. [s EXCEPT !.lastRecvSeq = n, !.sendSeq = @ + 1]
           = [[s EXCEPT !.sendSeq = s.sendSeq + 1] EXCEPT !.lastRecvSeq = n]
    BY DEF Sessions
  <2> QED BY <2>1, <2>2, <2>3
<1> QED BY <1>1, <1>2, <1>3

\* Frames that are written, read and lost are frames.
LEMMA WrittenTyped ==
  ASSUME SessionTypeOK, NEW c, NEW f \in Frames
  PROVE  Written(c, f) \in [Conns -> Seq(Frames)]
<1>1. ASSUME NEW q \in Conns
      PROVE  toFar[q] \in Seq(Frames) /\ Append(toFar[q], f) \in Seq(Frames)
  BY DEF SessionTypeOK
<1> QED BY <1>1 DEF Written

LEMMA EmptiedTyped ==
  ASSUME NEW w \in [Conns -> Seq(Frames)], NEW c
  PROVE  Emptied(c, w) \in [Conns -> Seq(Frames)]
<1>1. <<>> \in Seq(Frames)
  OBVIOUS
<1> QED BY <1>1 DEF Emptied

LEMMA SendsTyped ==
  ASSUME SessionTypeOK, NEW p \in Programs, NEW fs \in Seq(Frames),
         Sends(p, fs)
  PROVE  toHub' \in [Conns -> Seq(Frames)]
<1>1. ASSUME NEW c \in Conns
      PROVE  toHub[c] \o fs \in Seq(Frames)
  BY DEF SessionTypeOK
<1> QED BY <1>1 DEF SessionTypeOK, Sends

LEMMA IncomingTyped ==
  ASSUME SessionTypeOK, NEW p \in Programs, NEW type, Reads(p, type)
  PROVE  /\ link[p] \in Conns
         /\ toFar[link[p]] \in Seq(Frames)
         /\ First(p) \in Frames
         /\ First(p).type = type
         /\ Incoming(p, type) => toFar' \in [Conns -> Seq(Frames)]
<1>1. link[p] \in Conns /\ toFar[link[p]] \in Seq(Frames)
  BY DEF SessionTypeOK, Reads
<1>2. First(p) \in Frames /\ Tail(toFar[link[p]]) \in Seq(Frames)
  BY <1>1 DEF Reads, First
<1> QED BY <1>1, <1>2 DEF SessionTypeOK, Incoming, Reads, First

\* What is left of a queue behind its first n.
LEMMA Rest ==
  ASSUME NEW jobs \in Seq(Reqs), NEW n \in 0 .. Len(jobs)
  PROVE  LET rest == SubSeq(jobs, n + 1, Len(jobs)) IN
         /\ rest \in Seq(Reqs)
         /\ Len(rest) = Len(jobs) - n
         /\ \A i \in 1 .. Len(rest) : rest[i] = jobs[n + i]
<1>1. /\ \A i \in n + 1 .. Len(jobs) : jobs[i] \in Reqs
      /\ Len(jobs) \in Nat
  OBVIOUS
<1>2. SubSeq(jobs, n + 1, Len(jobs))
        = [i \in 1 .. Len(jobs) - n |-> jobs[n + i]]
  BY <1>1
<1> QED BY <1>1, <1>2

LEMMA PumpTyped ==
  ASSUME SessionTypeOK, NEW jobs \in Seq(Reqs), NEW busy \in Reqs \cup {0},
         NEW s \in Sessions, NEW calls \in [Reqs -> Outcomes],
         NEW frames \in Seq(Frames), Pump(jobs, busy, s, calls, frames)
  PROVE  /\ queue' \in Seq(Reqs)
         /\ inflight' \in Reqs \cup {0}
         /\ call' \in [Reqs -> Outcomes]
         /\ cSession' \in Sessions
         /\ toHub' \in [Conns -> Seq(Frames)]
<1>1. PICK n \in 0 .. Len(jobs) :
        LET rest   == SubSeq(jobs, n + 1, Len(jobs))
            failed == [r \in Reqs |-> IF \E i \in 1 .. n : jobs[i] = r
                                        THEN "rejected" ELSE calls[r]]
        IN  IF busy = 0 /\ rest # <<>> /\ s # NoSession /\ link["client"] # None
              THEN /\ queue' = Tail(rest)
                   /\ inflight' = Head(rest)
                   /\ call' = [failed EXCEPT ![Head(rest)] = "sent"]
                   /\ cSession' = [s EXCEPT !.sendSeq = @ + 1]
                   /\ Sends("client",
                            Append(frames, Sealed("req", s, Head(rest))))
              ELSE /\ queue' = rest
                   /\ inflight' = busy
                   /\ call' = failed
                   /\ cSession' = s
                   /\ IF frames = <<>> THEN UNCHANGED toHub
                                       ELSE Sends("client", frames)
  BY DEF Pump
<1> DEFINE rest   == SubSeq(jobs, n + 1, Len(jobs))
           failed == [r \in Reqs |-> IF \E i \in 1 .. n : jobs[i] = r
                                       THEN "rejected" ELSE calls[r]]
<1>2. rest \in Seq(Reqs)
  BY Rest
<1>3. failed \in [Reqs -> Outcomes]
  BY DEF Outcomes
<1>4. s.sendSeq + 1 \in Nat /\ "client" \in Programs
  BY DEF Sessions, Programs
<1>5. CASE busy = 0 /\ rest # <<>> /\ s # NoSession /\ link["client"] # None
  <2>1. /\ queue' = Tail(rest)
        /\ inflight' = Head(rest)
        /\ call' = [failed EXCEPT ![Head(rest)] = "sent"]
        /\ cSession' = [s EXCEPT !.sendSeq = @ + 1]
        /\ Sends("client", Append(frames, Sealed("req", s, Head(rest))))
    BY <1>1, <1>5
  <2> HIDE DEF rest, failed
  <2>2. Head(rest) \in Reqs /\ Tail(rest) \in Seq(Reqs)
    BY <1>2, <1>5
  <2>3. Sealed("req", s, Head(rest)) \in Frames
    BY <2>2, FrameRecords DEF Reqs
  <2>4. Append(frames, Sealed("req", s, Head(rest))) \in Seq(Frames)
    BY <2>3
  <2>5. toHub' \in [Conns -> Seq(Frames)]
    BY <2>1, <2>4, <1>4, SendsTyped
  <2>6. call' \in [Reqs -> Outcomes]
    BY <2>1, <1>3 DEF Outcomes
  <2> QED BY <2>1, <2>2, <2>5, <2>6, <1>4, SessionRecords
<1>6. CASE ~(busy = 0 /\ rest # <<>> /\ s # NoSession /\ link["client"] # None)
  <2>1. /\ queue' = rest
        /\ inflight' = busy
        /\ call' = failed
        /\ cSession' = s
        /\ IF frames = <<>> THEN UNCHANGED toHub ELSE Sends("client", frames)
    BY <1>1, <1>6
  <2>2. toHub' \in [Conns -> Seq(Frames)]
    BY <2>1, <1>4, SendsTyped DEF SessionTypeOK
  <2> QED BY <2>1, <2>2, <1>2, <1>3
<1> QED BY <1>5, <1>6

LEMMA TypedHub ==
  ASSUME SessionTypeOK, NEW c \in Conns, Hub(c) \/ Answer(c) \/ HubLosesLink(c)
  PROVE  SessionTypeOK'
<1> USE DEF wires, ends, agentEnd, keyEnd, callEnd
<1>1. CASE HubQuiet(c) \/ HubHandshakeFails(c) \/ Answer(c) \/ HubLosesLink(c)
  BY <1>1 DEF HubQuiet, HubHandshakeFails, Answer, HubLosesLink, SessionTypeOK
<1>2. CASE HubSwap(c)
  BY <1>2 DEF HubSwap, SessionTypeOK
<1>3. CASE HubUpSelf(c) \/ HubUpPeer(c) \/ HubNotifyDown(c)
  <2>1. toFar' \in [Conns -> Seq(Frames)]
    BY <1>3, WrittenTyped, FrameRecords DEF HubUpSelf, HubUpPeer, HubNotifyDown
  <2>2. toHub' \in [Conns -> Seq(Frames)]
    BY <1>3, EmptiedTyped
    DEF HubUpSelf, HubUpPeer, HubNotifyDown, SessionTypeOK
  <2> QED BY <1>3, <2>1, <2>2
          DEF HubUpSelf, HubUpPeer, HubNotifyDown, SessionTypeOK
<1>4. CASE Forward(c)
  <2>1. /\ Head(toHub[c]) \in Frames
        /\ Tail(toHub[c]) \in Seq(Frames)
    BY <1>4 DEF Forward, SessionTypeOK
  <2>2. toFar' \in [Conns -> Seq(Frames)]
    BY <1>4, <2>1, WrittenTyped DEF Forward
  <2>3. toHub' \in [Conns -> Seq(Frames)]
    BY <1>4, <2>1 DEF Forward, SessionTypeOK
  <2> QED BY <1>4, <2>2, <2>3 DEF Forward, SessionTypeOK
<1> QED BY <1>1, <1>2, <1>3, <1>4 DEF Hub

LEMMA TypedLink ==
  ASSUME SessionTypeOK, NEW p \in Programs,
         \/ LinkLost(p)
         \/ \E c \in Conns, d \in Devices, id \in Creds \cup {None} :
                Dial(p, c, d, id)
  PROVE  SessionTypeOK'
<1> USE DEF ends, agentEnd, keyEnd, callEnd
<1>1. CASE LinkLost(p)
  <2>1. toFar' \in [Conns -> Seq(Frames)]
    BY <1>1, EmptiedTyped DEF LinkLost, Leave, SessionTypeOK
  <2>2. cSession' \in Sessions
    BY <1>1, SessionRecords DEF LinkLost, Leave, SessionTypeOK
  <2> QED BY <1>1, <2>1, <2>2 DEF LinkLost, Leave, SessionTypeOK
<1>2. ASSUME NEW c \in Conns, NEW d \in Devices, NEW id \in Creds \cup {None},
             Dial(p, c, d, id)
      PROVE  SessionTypeOK'
  <2>1. /\ toFar' \in [Conns -> Seq(Frames)]
        /\ toHub' \in [Conns -> Seq(Frames)]
    BY <1>2, EmptiedTyped DEF Dial, SessionTypeOK
  <2> QED BY <1>2, <2>1 DEF Dial, SessionTypeOK
<1> QED BY <1>1, <1>2

LEMMA TypedAgent ==
  ASSUME SessionTypeOK, AgentLoop
  PROVE  SessionTypeOK'
<1> USE DEF keyEnd, callEnd
<1>1. "agent" \in Programs
  BY DEF Programs
<1>2. CASE AgentUp
  <2>1. ephem + 1 \in Nat /\ toFar' \in [Conns -> Seq(Frames)]
    <3>1. ephem + 1 \in Nat
      BY DEF SessionTypeOK
    <3>2. toFar' \in [Conns -> Seq(Frames)]
      BY <1>1, <1>2, IncomingTyped DEF AgentUp, Incoming
    <3> QED BY <3>1, <3>2
  <2>2. <<Handshake(ephem + 1)>> \in Seq(Frames)
    BY <2>1, FrameRecords
  <2>3. toHub' \in [Conns -> Seq(Frames)]
    BY <1>1, <1>2, <2>2, SendsTyped DEF AgentUp
  <2> QED BY <1>2, <2>1, <2>3, SessionRecords DEF AgentUp, SessionTypeOK
<1>3. CASE AgentDown
  <2>1. toFar' \in [Conns -> Seq(Frames)]
    BY <1>1, <1>3, IncomingTyped DEF AgentDown, Incoming
  <2> QED BY <1>3, <2>1, SessionRecords DEF AgentDown, SessionTypeOK
<1>4. CASE AgentHandshake
  <2>1. First("agent") \in Frames /\ toFar' \in [Conns -> Seq(Frames)]
    BY <1>1, <1>4, IncomingTyped DEF AgentHandshake, Incoming
  <2>2. ephem' \in Nat /\ First("agent").key \in Nat
    BY <1>4, <2>1 DEF AgentHandshake, SessionTypeOK, Frames
  <2> QED BY <1>4, <2>1, <2>2, SessionRecords DEF AgentHandshake, SessionTypeOK
<1>5. CASE AgentRequest
  <2> DEFINE f == First("agent")
  <2>1. f \in Frames /\ f.type = "req" /\ toFar' \in [Conns -> Seq(Frames)]
    BY <1>1, <1>5, IncomingTyped DEF AgentRequest, Incoming
  <2>2. f.id \in Reqs /\ f.seq \in Nat
    BY <2>1 DEF Frames
  <2>3. aSession \in Sessions
    BY DEF SessionTypeOK
  <2>4. CASE Opens(aSession, f)
    <3>1. /\ ran' = Append(ran, f.id)
          /\ aSession' = [aSession EXCEPT !.lastRecvSeq = f.seq,
                                          !.sendSeq = @ + 1]
          /\ Sends("agent", <<Sealed("resp", aSession, f.id)>>)
      BY <1>5, <2>4 DEF AgentRequest
    <3>2. <<Sealed("resp", aSession, f.id)>> \in Seq(Frames)
      BY <2>2, <2>3, FrameRecords
    <3>3. toHub' \in [Conns -> Seq(Frames)]
      BY <1>1, <3>1, <3>2, SendsTyped
    <3>4. aSession' \in Sessions
      BY <2>2, <2>3, <3>1, SessionRecords
    <3>6. ran' \in Seq(Reqs)
      BY <2>2, <3>1 DEF SessionTypeOK
    <3> QED BY <1>5, <2>1, <3>3, <3>4, <3>6 DEF AgentRequest, SessionTypeOK
  <2>5. CASE ~Opens(aSession, f)
    BY <1>5, <2>1, <2>5 DEF AgentRequest, SessionTypeOK
  <2> QED BY <2>4, <2>5
<1> QED BY <1>2, <1>3, <1>4, <1>5 DEF AgentLoop

LEMMA TypedController ==
  ASSUME SessionTypeOK, ControllerLoop
  PROVE  SessionTypeOK'
<1> USE DEF agentEnd, callEnd
<1>1. "client" \in Programs
  BY DEF Programs
<1>2. CASE ControllerUp
  <2>1. kp + 1 \in Nat
    BY DEF SessionTypeOK
  <2>2. toFar' \in [Conns -> Seq(Frames)]
    BY <1>1, <1>2, IncomingTyped DEF ControllerUp, Incoming
  <2>3. <<Handshake(kp + 1)>> \in Seq(Frames)
    BY <2>1, FrameRecords
  <2>4. toHub' \in [Conns -> Seq(Frames)]
    BY <1>1, <1>2, <2>3, SendsTyped DEF ControllerUp
  <2> QED BY <1>2, <2>1, <2>2, <2>4, SessionRecords
          DEF ControllerUp, SessionTypeOK
<1>3. CASE ControllerDown
  <2>1. toFar' \in [Conns -> Seq(Frames)]
    BY <1>1, <1>3, IncomingTyped DEF ControllerDown, Incoming
  <2> QED BY <1>3, <2>1, SessionRecords DEF ControllerDown, SessionTypeOK
<1>4. CASE ControllerHandshake
  <2>1. First("client") \in Frames /\ toFar' \in [Conns -> Seq(Frames)]
    BY <1>1, <1>4, IncomingTyped DEF ControllerHandshake, Incoming
  <2>2. NewSession(kp, First("client").key) \in Sessions
    BY <2>1, SessionRecords DEF Frames, SessionTypeOK
  <2>3. (IF sentHs THEN <<>> ELSE <<Handshake(kp)>>) \in Seq(Frames)
    BY FrameRecords DEF SessionTypeOK
  <2>4. /\ queue \in Seq(Reqs) /\ inflight \in Reqs \cup {0}
        /\ call \in [Reqs -> Outcomes]
    BY DEF SessionTypeOK, Outcomes
  <2>5. /\ queue' \in Seq(Reqs)
        /\ inflight' \in Reqs \cup {0}
        /\ call' \in [Reqs -> Outcomes]
        /\ cSession' \in Sessions
        /\ toHub' \in [Conns -> Seq(Frames)]
    BY <1>4, <2>2, <2>3, <2>4, PumpTyped DEF ControllerHandshake
  <2> QED BY <1>4, <2>1, <2>5 DEF ControllerHandshake, SessionTypeOK, Outcomes
<1>5. CASE ControllerHandshakeThrows
  <2>1. toFar' \in [Conns -> Seq(Frames)]
    BY <1>5, EmptiedTyped DEF ControllerHandshakeThrows, Leave, SessionTypeOK
  <2>2. cSession' \in Sessions
    BY <1>5, SessionRecords DEF ControllerHandshakeThrows, Leave, SessionTypeOK
  <2> QED BY <1>5, <2>1, <2>2 DEF ControllerHandshakeThrows, Leave,
          SessionTypeOK
<1>6. CASE ControllerAnswer
  <2> DEFINE f == First("client")
             s == [cSession EXCEPT !.lastRecvSeq = f.seq]
  <2>1. f \in Frames /\ f.type = "resp" /\ toFar' \in [Conns -> Seq(Frames)]
    BY <1>1, <1>6, IncomingTyped DEF ControllerAnswer, Incoming
  <2>2. f.seq \in Nat /\ f.id \in Reqs
    BY <2>1 DEF Frames
  <2>3. s \in Sessions /\ cSession \in Sessions
    BY <2>2, SessionRecords DEF SessionTypeOK
  <2>4. CASE Opens(cSession, f) /\ f.id = inflight
    <3>1. Pump(queue, 0, s, [call EXCEPT ![f.id] = "ok"], <<>>)
      BY <1>6, <2>4 DEF ControllerAnswer
    <3>2. queue \in Seq(Reqs) /\ [call EXCEPT ![f.id] = "ok"] \in [Reqs -> Outcomes]
      BY DEF SessionTypeOK, Outcomes
    <3>3. <<>> \in Seq(Frames)
      OBVIOUS
    <3> HIDE DEF s, f
    <3>4. /\ queue' \in Seq(Reqs)
          /\ inflight' \in Reqs \cup {0}
          /\ call' \in [Reqs -> Outcomes]
          /\ cSession' \in Sessions
          /\ toHub' \in [Conns -> Seq(Frames)]
      BY <2>3, <3>1, <3>2, <3>3, PumpTyped
    <3> QED BY <1>6, <2>1, <3>4 DEF ControllerAnswer, SessionTypeOK, Outcomes
  <2>5. CASE ~(Opens(cSession, f) /\ f.id = inflight)
    BY <1>6, <2>1, <2>3, <2>5 DEF ControllerAnswer, SessionTypeOK
  <2> QED BY <2>4, <2>5
<1> QED BY <1>2, <1>3, <1>4, <1>5, <1>6 DEF ControllerLoop

LEMMA TypedCaller ==
  ASSUME SessionTypeOK, (\E r \in Reqs : Issue(r)) \/ PumpTimer \/ Timeout
  PROVE  SessionTypeOK'
<1> USE DEF agentEnd
<1>1. /\ queue \in Seq(Reqs) /\ inflight \in Reqs \cup {0}
      /\ call \in [Reqs -> Outcomes]
      /\ \A r \in Reqs, o \in Outcomes :
            [call EXCEPT ![r] = o] \in [Reqs -> Outcomes]
      /\ \A r \in Reqs : Append(queue, r) \in Seq(Reqs)
      /\ cSession \in Sessions
      /\ <<>> \in Seq(Frames)
      /\ {"queued", "late"} \subseteq Outcomes
  BY DEF SessionTypeOK, Outcomes
<1>2. ASSUME NEW r \in Reqs, Issue(r)
      PROVE  SessionTypeOK'
  <2>1. Pump(Append(queue, r), inflight, cSession,
             [call EXCEPT ![r] = "queued"], <<>>)
    BY <1>2 DEF Issue
  <2>2. /\ queue' \in Seq(Reqs)
        /\ inflight' \in Reqs \cup {0}
        /\ call' \in [Reqs -> Outcomes]
        /\ cSession' \in Sessions
        /\ toHub' \in [Conns -> Seq(Frames)]
    BY <1>1, <2>1, PumpTyped
  <2> QED BY <1>2, <2>2 DEF Issue, SessionTypeOK, Outcomes
<1>3. CASE PumpTimer
  <2>1. Pump(queue, 0, cSession, call, <<>>)
    BY <1>3 DEF PumpTimer
  <2>2. /\ queue' \in Seq(Reqs)
        /\ inflight' \in Reqs \cup {0}
        /\ call' \in [Reqs -> Outcomes]
        /\ cSession' \in Sessions
        /\ toHub' \in [Conns -> Seq(Frames)]
    BY <1>1, <2>1, PumpTyped
  <2> QED BY <1>3, <2>2 DEF PumpTimer, SessionTypeOK, Outcomes
<1>4. CASE Timeout
  <2>1. /\ Pump(queue, 0, cSession, [call EXCEPT ![inflight] = "late"], <<>>)
        /\ inflight \in Reqs
    BY <1>1, <1>4 DEF Timeout
  <2>2. /\ queue' \in Seq(Reqs)
        /\ inflight' \in Reqs \cup {0}
        /\ call' \in [Reqs -> Outcomes]
        /\ cSession' \in Sessions
        /\ toHub' \in [Conns -> Seq(Frames)]
    BY <1>1, <2>1, PumpTyped
  <2> QED BY <1>4, <2>2 DEF Timeout, SessionTypeOK, Outcomes
<1> QED BY <1>2, <1>3, <1>4

LEMMA SessionTypedInit == SessionInit => SessionTypeOK
<1>1. <<>> \in Seq(Frames) /\ <<>> \in Seq(Reqs)
  OBVIOUS
<1>2. ASSUME SessionInit
      PROVE  /\ toHub \in [Conns -> Seq(Frames)]
             /\ toFar \in [Conns -> Seq(Frames)]
  BY <1>1, <1>2 DEF SessionInit
<1>3. ASSUME SessionInit
      PROVE  /\ link \in [Programs -> Conns \cup {None}]
             /\ dials \in [Programs -> Nat]
             /\ call \in [Reqs -> Outcomes]
  BY <1>3 DEF SessionInit, Outcomes
<1>4. ASSUME SessionInit
      PROVE  /\ aSession \in Sessions /\ cSession \in Sessions
             /\ queue \in Seq(Reqs) /\ ran \in Seq(Reqs)
             /\ ephem \in Nat /\ kp \in Nat /\ inflight \in Reqs \cup {0}
             /\ sentHs \in BOOLEAN /\ overlapped \in BOOLEAN
  BY <1>1, <1>4, SessionRecords DEF SessionInit
<1> QED BY <1>2, <1>3, <1>4 DEF SessionTypeOK, Outcomes

LEMMA SessionTypedStep ==
  ASSUME SessionTypeOK, [SessionNext]_sessionVars
  PROVE  SessionTypeOK'
<1>1. CASE SessionNext
  BY <1>1, TypedHub, TypedLink, TypedAgent, TypedController, TypedCaller
  DEF SessionNext
<1>2. CASE UNCHANGED sessionVars
  BY <1>2
  DEF sessionVars, wires, ends, agentEnd, keyEnd, callEnd, SessionTypeOK
<1> QED BY <1>1, <1>2

\* The two programs, their wires and their frames keep their types.
THEOREM SessionTypeCorrect == SessionSpec => []SessionTypeOK
BY SessionTypedInit, SessionTypedStep, PTL DEF SessionSpec
=============================================================================
