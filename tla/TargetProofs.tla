---------------------------- MODULE TargetProofs ----------------------------
(***************************************************************************)
(* Proofs of the safety properties of Target.                              *)
(***************************************************************************)
EXTENDS TargetProps, TLAPS

Fates == [Jobs -> {"new", "pending", "settled"}]

\* What is left of a queue is a queue.
LEMMA RestIsQueue ==
  ASSUME NEW q \in Seq(Jobs), NEW n \in 0 .. Len(q)
  PROVE  /\ Rest(q, n) \in Seq(Jobs)
         /\ Len(Rest(q, n)) = Len(q) - n
         /\ \A i \in 1 .. Len(q) - n : Rest(q, n)[i] = q[i + n]
<1>1. n + 1 \in 1 .. Len(q) + 1 /\ Len(q) \in Nat
  OBVIOUS
<1>2. \A i \in n + 1 .. Len(q) : q[i] \in Jobs
  OBVIOUS
<1>3. Rest(q, n) = [i \in 1 .. Len(q) - n |-> q[i + n]]
  BY <1>1 DEF Rest
<1> QED BY <1>1, <1>2, <1>3

LEMMA TypedPump ==
  ASSUME NEW q \in Seq(Jobs), NEW busy \in Jobs \cup {None}, NEW f \in Fates,
         NEW set \in BOOLEAN, NEW s, NEW c, NEW halted,
         Pump(q, busy, f, set, s, c, halted)
  PROVE  /\ queue' \in Seq(Jobs)
         /\ inflight' \in Jobs \cup {None}
         /\ fate' \in Fates
         /\ timer' \in BOOLEAN
<1>1. CASE busy # None
  BY <1>1 DEF Pump
<1>2. CASE busy = None
  <2>1. PICK n \in 0 .. Len(q) : Advance(q, n, f, set, s, c, halted)
    BY <1>2 DEF Pump
  <2>2. Rest(q, n) \in Seq(Jobs)
    BY RestIsQueue
  <2>3. Rest(q, n) # <<>> => /\ Tail(Rest(q, n)) \in Seq(Jobs)
                             /\ Head(Rest(q, n)) \in Jobs
    BY <2>2
  <2>4. <<>> \in Seq(Jobs)
    OBVIOUS
  <2>5. \A js : Settled(f, js) \in Fates
    BY DEF Settled, Fates
  <2> QED BY <2>1, <2>2, <2>3, <2>4, <2>5 DEF Advance
<1> QED BY <1>1, <1>2

\* Every action that runs the pump gives it what the lemma asks for.
LEMMA TypedLoop ==
  ASSUME TypeOK, NEW l \in Loops, Control(l)
  PROVE  TypeOK'
<1> USE DEF TypeOK, shared, standby, jobs, manager, past
<1>1. CASE Dialled(l)
  BY <1>1 DEF Dialled
<1>2. ASSUME Cleanup(l)
      PROVE  /\ conn' \in Loops \cup {None}
             /\ session' \in Loops \cup {None}
             /\ keepalive' \in BOOLEAN
             /\ sock' \in [Loops -> {"none", "open", "silent", "left", "closed"}]
  BY <1>2 DEF Cleanup
<1>3. ASSUME FailAll
      PROVE  /\ queue' \in Seq(Jobs)
             /\ inflight' \in Jobs \cup {None}
             /\ fate' \in Fates
             /\ timer' \in BOOLEAN
  BY <1>3 DEF FailAll, Settled, Fates
<1>4. ASSUME StartPresence
      PROVE  /\ presenceOn' \in BOOLEAN
             /\ ppc' \in [Standbys -> {"none", "once", "sleep"}]
  BY <1>4 DEF StartPresence, NewStandby
<1>5. CASE Fatal(l)
  <2>1. Cleanup(l) /\ FailAll /\ StartPresence
    BY <1>5 DEF Fatal
  <2> QED BY <1>5, <2>1, <1>2, <1>3, <1>4 DEF Fatal, Fates
<1>6. CASE Wakes(l)
  BY <1>6 DEF Wakes
<1>7. CASE Ready(l)
  BY <1>7 DEF Ready, Reading
<1>8. ASSUME NEW slow \in BOOLEAN, Drops(l, slow) PROVE TypeOK'
  <2>1. Cleanup(l)
    BY <1>8 DEF Drops
  <2>2. state' \in {"off", "connecting", "waiting", "online", "reconnecting",
                    "error"}
    BY <1>8 DEF Drops
  <2>3. pc' \in [Loops -> {"none", "dial", "hello", "sleep"} \cup Reading]
    BY <1>8 DEF Drops
  <2>4. UNCHANGED <<stopped, manualOff, standby, jobs, manager, due, past>>
    BY <1>8 DEF Drops
  <2> QED BY <2>1, <2>2, <2>3, <2>4, <1>2
<1>9. ASSUME NEW up \in BOOLEAN, PeerNotice(l, up) PROVE TypeOK'
  <2>1. /\ pc' \in [Loops -> {"none", "dial", "hello", "sleep"} \cup Reading]
        /\ sock' \in [Loops -> {"none", "open", "silent", "left", "closed"}]
    BY <1>9 DEF PeerNotice, Writes, Reading, Writing
  <2> QED BY <1>9, <2>1 DEF PeerNotice
<1>10. ASSUME NEW answered \in BOOLEAN, PeerHandshake(l, answered)
       PROVE  TypeOK'
  <2>1. /\ queue' \in Seq(Jobs)
        /\ inflight' \in Jobs \cup {None}
        /\ fate' \in Fates
        /\ timer' \in BOOLEAN
    <3>1. CASE answered
      <4>1. fate \in Fates /\ Pump(queue, inflight, fate, timer, l, conn,
                                   stopped)
        BY <1>10, <3>1 DEF PeerHandshake, Fates
      <4> QED BY <4>1, TypedPump
    <3>2. CASE ~answered
      BY <1>10, <3>2 DEF PeerHandshake, Fates
    <3> QED BY <3>1, <3>2
  <2>2. /\ pc' \in [Loops -> {"none", "dial", "hello", "sleep"} \cup Reading]
        /\ sock' \in [Loops -> {"none", "open", "silent", "left", "closed"}]
        /\ state' \in {state, "online"}
    BY <1>10 DEF PeerHandshake, Writes, Reading, Writing
  <2> QED BY <1>10, <2>1, <2>2 DEF PeerHandshake, Fates
<1>11. CASE Response(l)
  <2>1. Settled(fate, {inflight}) \in Fates
    BY DEF Settled, Fates
  <2>2. Pump(queue, None, Settled(fate, {inflight}), timer, session, conn,
             stopped)
    BY <1>11 DEF Response
  <2>3. /\ queue' \in Seq(Jobs)
        /\ inflight' \in Jobs \cup {None}
        /\ fate' \in Fates
        /\ timer' \in BOOLEAN
    BY <2>1, <2>2, TypedPump
  <2> QED BY <1>11, <2>3 DEF Response, Fates
<1>12. CASE GoesSilent(l)
  BY <1>12 DEF GoesSilent
<1>13. CASE UpSent(l)
  BY <1>13 DEF UpSent, Reading
<1>14. CASE Greeted(l)
  <2>1. fate \in Fates /\ Pump(queue, inflight, fate, timer, session, conn,
                               stopped)
    BY <1>14 DEF Greeted, Fates
  <2>2. /\ queue' \in Seq(Jobs)
        /\ inflight' \in Jobs \cup {None}
        /\ fate' \in Fates
        /\ timer' \in BOOLEAN
    BY <2>1, TypedPump
  <2> QED BY <1>14, <2>2 DEF Greeted, Fates, Reading
<1> QED BY <1>1, <1>5, <1>6, <1>7, <1>8, <1>9, <1>10, <1>11, <1>12, <1>13,
           <1>14 DEF Control

LEMMA TypedRest ==
  ASSUME TypeOK,
         \/ \E p \in Standbys : Standby(p)
         \/ \E j \in Jobs : Request(j) \/ Expires(j)
         \/ KeepaliveFires \/ PumpTimer \/ InflightFails
         \/ Calls
         \/ UNCHANGED vars
  PROVE  TypeOK'
<1> USE DEF TypeOK, shared, standby, jobs, manager, past
<1>1. ASSUME NEW p \in Standbys, Standby(p) PROVE TypeOK'
  <2>1. CASE StandbyEnds(p)
    BY <2>1 DEF StandbyEnds
  <2>2. CASE StandbyFatal(p)
    <3>1. UNCHANGED <<stopped, manualOff, state, conn, session, keepalive,
                      queue, inflight, timer, fate, auto, profile, listed, pc,
                      sock, due, overlapped, cut, late>>
      BY <2>2 DEF StandbyFatal
    <3>2. /\ presenceOn' \in BOOLEAN
          /\ ppc' \in [Standbys -> {"none", "once", "sleep"}]
      BY <2>2 DEF StandbyFatal
    <3> QED BY <3>1, <3>2
  <2>3. CASE StandbyWakes(p)
    BY <2>3 DEF StandbyWakes
  <2> QED BY <1>1, <2>1, <2>2, <2>3 DEF Standby
<1>2. ASSUME NEW j \in Jobs, Request(j) PROVE TypeOK'
  <2>1. /\ [fate EXCEPT ![j] = "pending"] \in Fates
        /\ Append(queue, j) \in Seq(Jobs)
    BY DEF Fates
  <2>2. Pump(Append(queue, j), inflight, [fate EXCEPT ![j] = "pending"],
             timer, session, conn, stopped)
    BY <1>2 DEF Request
  <2>3. /\ queue' \in Seq(Jobs)
        /\ inflight' \in Jobs \cup {None}
        /\ fate' \in Fates
        /\ timer' \in BOOLEAN
    BY <2>1, <2>2, TypedPump
  <2> QED BY <1>2, <2>3 DEF Request, Fates
<1>3. ASSUME NEW j \in Jobs, Expires(j) PROVE TypeOK'
  BY <1>3 DEF Expires
<1>4. CASE KeepaliveFires
  BY <1>4 DEF KeepaliveFires
<1>5. CASE PumpTimer
  <2>1. PICK others \in BOOLEAN :
            Pump(queue, inflight, fate, others, session, conn, stopped)
    BY <1>5 DEF PumpTimer
  <2>2. /\ queue' \in Seq(Jobs)
        /\ inflight' \in Jobs \cup {None}
        /\ fate' \in Fates
        /\ timer' \in BOOLEAN
    BY <2>1, TypedPump DEF Fates
  <2> QED BY <1>5, <2>2 DEF PumpTimer, Fates
<1>6. CASE InflightFails
  <2>1. Settled(fate, {inflight}) \in Fates
    BY DEF Settled, Fates
  <2>2. Pump(queue, None, Settled(fate, {inflight}), timer, session, conn,
             stopped)
    BY <1>6 DEF InflightFails
  <2>3. /\ queue' \in Seq(Jobs)
        /\ inflight' \in Jobs \cup {None}
        /\ fate' \in Fates
        /\ timer' \in BOOLEAN
    BY <2>1, <2>2, TypedPump
  <2> QED BY <1>6, <2>3 DEF InflightFails, Fates
<1>7. CASE Calls
  <2>1. ASSUME FailAll
        PROVE  /\ queue' \in Seq(Jobs)
               /\ inflight' \in Jobs \cup {None}
               /\ fate' \in Fates
               /\ timer' \in BOOLEAN
    BY <2>1 DEF FailAll, Settled, Fates
  <2>2. ASSUME StartPresence
        PROVE  /\ presenceOn' \in BOOLEAN
               /\ ppc' \in [Standbys -> {"none", "once", "sleep"}]
    BY <2>2 DEF StartPresence, NewStandby
  <2>3. ASSUME NewStandby
        PROVE  ppc' \in [Standbys -> {"none", "once", "sleep"}]
    BY <2>3 DEF NewStandby
  <2>4. ASSUME Begin
        PROVE  /\ pc' \in [Loops -> {"none", "dial", "hello", "sleep"} \cup Reading]
               /\ stopped' \in BOOLEAN
               /\ manualOff' \in BOOLEAN
               /\ state' \in {"off", "connecting", "waiting", "online",
                              "reconnecting", "error"}
               /\ overlapped' \in BOOLEAN
               /\ late' \in BOOLEAN
    BY <2>4 DEF Begin
  <2>5. ASSUME Hangup
        PROVE  /\ conn' \in Loops \cup {None}
               /\ session' \in Loops \cup {None}
               /\ keepalive' \in BOOLEAN
               /\ sock' \in [Loops -> {"none", "open", "silent", "left", "closed"}]
               /\ cut' \in BOOLEAN
    BY <2>5 DEF Hangup, Shut
  <2>6. ASSUME Stop, UNCHANGED <<pc, due, overlapped>>,
               auto' \in BOOLEAN, profile' \in BOOLEAN, listed' \in BOOLEAN
        PROVE  TypeOK'
    <3>1. CASE stopped /\ state = "off"
      BY <2>6, <3>1 DEF Stop
    <3>2. CASE ~(stopped /\ state = "off")
      <4>1. /\ Hangup /\ FailAll /\ StartPresence
            /\ manualOff' = TRUE /\ stopped' = TRUE /\ state' = "off"
            /\ late' \in BOOLEAN
        BY <2>6, <3>2 DEF Stop
      <4> QED BY <2>6, <4>1, <2>1, <2>2, <2>5 DEF Fates
    <3> QED BY <3>1, <3>2
  <2>7. CASE Sync
    <3>1. CASE profile /\ auto /\ ~manualOff
      BY <2>7, <3>1, <2>4 DEF Sync, StopPresence
    <3>2. CASE profile /\ ~(auto /\ ~manualOff)
      <4>1. UNCHANGED <<stopped, manualOff, state, conn, session, keepalive,
                        queue, inflight, timer, fate, auto, profile, listed, pc,
                        sock, due, overlapped, cut, late>>
        BY <2>7, <3>2 DEF Sync
      <4>2. StartPresence
        BY <2>7, <3>2 DEF Sync
      <4> QED BY <4>1, <4>2, <2>2
    <3>3. CASE ~profile
      <4>1. UNCHANGED <<stopped, manualOff, state, conn, session, keepalive,
                        ppc, queue, inflight, timer, fate, auto, profile, pc,
                        sock, due, overlapped, cut, late>>
        BY <2>7, <3>3 DEF Sync
      <4>2. listed' \in BOOLEAN /\ presenceOn' \in BOOLEAN
        BY <2>7, <3>3 DEF Sync, StopPresence
      <4> QED BY <4>1, <4>2
    <3> QED BY <3>1, <3>2, <3>3
  <2>8. CASE Connect
    BY <2>8, <2>3, <2>4 DEF Connect, StopPresence
  <2>9. CASE Disconnect
    BY <2>9, <2>6 DEF Disconnect
  <2>10. CASE Rename
    BY <2>10, <2>1, <2>3, <2>4, <2>5 DEF Rename, StopPresence, Fates
  <2>11. CASE Remove
    BY <2>11, <2>6 DEF Remove
  <2>12. CASE DropProfile
    <3>1. UNCHANGED <<stopped, manualOff, state, conn, session, keepalive,
                      presenceOn, ppc, queue, inflight, timer, fate, auto,
                      listed, pc, sock, due, overlapped, cut, late>>
      BY <2>12 DEF DropProfile
    <3>2. profile' \in BOOLEAN
      BY <2>12 DEF DropProfile
    <3> QED BY <3>1, <3>2
  <2>13. ASSUME NEW on \in BOOLEAN, SetAuto(on) PROVE TypeOK'
    <3>1. CASE on /\ stopped
      BY <2>13, <3>1, <2>4 DEF SetAuto, StopPresence
    <3>2. CASE ~(on /\ stopped)
      BY <2>13, <3>2 DEF SetAuto
    <3> QED BY <3>1, <3>2
  <2> QED BY <1>7, <2>7, <2>8, <2>9, <2>10, <2>11, <2>12, <2>13 DEF Calls
<1>8. CASE UNCHANGED vars
  BY <1>8 DEF vars
<1> QED BY <1>1, <1>2, <1>3, <1>4, <1>5, <1>6, <1>7, <1>8

\* Every variable keeps its type, however many loops, standbys and requests
\* there are.
THEOREM TypeCorrect == Spec => []TypeOK
<1>1. ASSUME Init PROVE TypeOK
  <2>1. <<>> \in Seq(Jobs)
    OBVIOUS
  <2>2. /\ pc \in [Loops -> {"none", "dial", "hello", "sleep"} \cup Reading]
        /\ sock \in [Loops -> {"none", "open", "silent", "left", "closed"}]
        /\ ppc \in [Standbys -> {"none", "once", "sleep"}]
        /\ fate \in [Jobs -> {"new", "pending", "settled"}]
    BY <1>1 DEF Init
  <2> QED BY <1>1, <2>1, <2>2 DEF Init, TypeOK
<1>2. TypeOK /\ [Next]_vars => TypeOK'
  BY TypedLoop, TypedRest DEF Next
<1> QED BY <1>1, <1>2, PTL DEF Spec

-----------------------------------------------------------------------------
(* NeverDead is inductive: a loop ends only where it finds the target       *)
(* stopped or stops it, a standby loop where it finds the flag down or      *)
(* takes it down.                                                           *)

THEOREM NeverDeadEver == Spec => []NeverDead
<1> USE DEF TypeOK, NeverDead, shared, standby, jobs, manager, past
<1>1. Init => NeverDead
  BY DEF Init
<1>2. ASSUME TypeOK, NeverDead, [Next]_vars PROVE NeverDead'
  <2>1. ASSUME NEW l \in Loops, Control(l) PROVE NeverDead'
    <3>1. CASE Dialled(l)
      BY <2>1, <3>1, <1>2 DEF Dialled
    <3>2. CASE Fatal(l)
      BY <2>1, <3>2, <1>2 DEF Fatal, StartPresence, NewStandby
    <3>3. CASE Wakes(l)
      BY <2>1, <3>3, <1>2 DEF Wakes
    <3>4. CASE Ready(l)
      BY <2>1, <3>4, <1>2 DEF Ready
    <3>5. ASSUME NEW slow \in BOOLEAN, Drops(l, slow) PROVE NeverDead'
      BY <2>1, <3>5, <1>2 DEF Drops
    <3>6. CASE \/ \E up \in BOOLEAN : PeerNotice(l, up)
               \/ \E answered \in BOOLEAN : PeerHandshake(l, answered)
               \/ UpSent(l) \/ Greeted(l) \/ Response(l) \/ GoesSilent(l)
      <4>1. UNCHANGED <<stopped, presenceOn, ppc>>
        BY <3>6 DEF PeerNotice, PeerHandshake, UpSent, Greeted, Response,
                    GoesSilent
      <4>2. \A k \in Loops : pc[k] # "none" => pc'[k] # "none"
        BY <3>6, <1>2 DEF PeerNotice, PeerHandshake, Writes, UpSent, Greeted,
                          Response, GoesSilent
      <4> QED BY <4>1, <4>2, <1>2
    <3> QED BY <2>1, <3>1, <3>2, <3>3, <3>4, <3>5, <3>6 DEF Control
  <2>2. ASSUME NEW p \in Standbys, Standby(p) PROVE NeverDead'
    BY <2>2, <1>2 DEF Standby, StandbyEnds, StandbyFatal, StandbyWakes
  <2>3. CASE \/ \E j \in Jobs : Request(j) \/ Expires(j)
             \/ KeepaliveFires \/ PumpTimer \/ InflightFails
    <3>1. CASE \/ \E j \in Jobs : Request(j) \/ Expires(j)
               \/ PumpTimer \/ InflightFails
      <4>1. UNCHANGED <<stopped, presenceOn, pc, ppc>>
        BY <3>1 DEF Request, Expires, PumpTimer, InflightFails
      <4> QED BY <4>1, <1>2
    <3>2. CASE KeepaliveFires
      BY <3>2, <1>2 DEF KeepaliveFires
    <3> QED BY <2>3, <3>1, <3>2
  <2>4. CASE Calls
    <3>1. ASSUME Begin PROVE ~stopped' /\ \E l \in Loops : pc'[l] # "none"
      BY <3>1, <1>2 DEF Begin
    <3>2. CASE Stop /\ UNCHANGED pc
      BY <3>2, <1>2 DEF Stop, StartPresence, NewStandby
    <3>3. CASE Sync
      BY <3>1, <3>3, <1>2 DEF Sync, StopPresence, StartPresence, NewStandby
    <3>4. CASE Connect
      BY <3>1, <3>4, <1>2 DEF Connect, StopPresence
    <3>5. CASE Rename
      BY <3>1, <3>5, <1>2 DEF Rename, StopPresence
    <3>6. CASE Disconnect \/ Remove
      BY <3>2, <3>6 DEF Disconnect, Remove
    <3>7. CASE DropProfile
      BY <3>7, <1>2 DEF DropProfile
    <3>8. ASSUME NEW on \in BOOLEAN, SetAuto(on) PROVE NeverDead'
      BY <3>1, <3>8, <1>2 DEF SetAuto, StopPresence
    <3> QED BY <2>4, <3>3, <3>4, <3>5, <3>6, <3>7, <3>8 DEF Calls
  <2>5. CASE UNCHANGED vars
    BY <2>5, <1>2 DEF vars
  <2> QED BY <1>2, <2>1, <2>2, <2>3, <2>4, <2>5 DEF Next
<1> QED BY <1>1, <1>2, TypeCorrect, PTL DEF Spec

-----------------------------------------------------------------------------
(* NobodyForgotten needs to know in what shape the queue is: every caller  *)
(* that waits has exactly one request, queued or in flight.                *)

OneEach(q, busy, f) ==
    /\ \A i, k \in 1 .. Len(q) : q[i] = q[k] => i = k
    /\ \A i \in 1 .. Len(q) : q[i] # busy
    /\ \A j \in Jobs : f[j] = "pending" <=>
                          (j = busy \/ \E i \in 1 .. Len(q) : q[i] = j)

JobInv ==
    /\ OneEach(queue, inflight, fate)
    /\ queue # <<>> => inflight # None \/ timer

\* Whatever pump does with such a queue, it leaves such a queue, and something
\* that will look at it again.
LEMMA PumpKeeps ==
  ASSUME NEW q \in Seq(Jobs), NEW busy \in Jobs \cup {None}, NEW f \in Fates,
         NEW set \in BOOLEAN, NEW s, NEW c, NEW halted,
         OneEach(q, busy, f), Pump(q, busy, f, set, s, c, halted)
  PROVE  JobInv'
<1>1. CASE busy # None
  BY <1>1 DEF Pump, JobInv, OneEach
<1>2. CASE busy = None
  <2>1. PICK n \in 0 .. Len(q) : Advance(q, n, f, set, s, c, halted)
    BY <1>2 DEF Pump
  <2> DEFINE rest == Rest(q, n)
             g == Settled(f, Gone(q, n))
  <2>2. /\ rest \in Seq(Jobs)
        /\ Len(rest) = Len(q) - n
        /\ \A i \in 1 .. Len(q) - n : rest[i] = q[i + n]
    BY RestIsQueue
  <2>3. Len(q) \in Nat /\ Len(rest) \in Nat /\ n \in Nat
    BY <2>2
  <2>4. \A i, k \in 1 .. Len(rest) : rest[i] = rest[k] => i = k
    BY <2>2, <2>3 DEF OneEach
  <2>5. \A j \in Jobs :
            g[j] = "pending" <=> \E i \in 1 .. Len(rest) : rest[i] = j
    <3>1. SUFFICES ASSUME NEW j \in Jobs
                   PROVE  g[j] = "pending" <=>
                              \E i \in 1 .. Len(rest) : rest[i] = j
      OBVIOUS
    <3>2. g[j] = "pending" <=> f[j] = "pending" /\ j \notin Gone(q, n)
      BY DEF Settled
    <3>3. f[j] = "pending" <=> \E i \in 1 .. Len(q) : q[i] = j
      BY <1>2, TargetConstants DEF OneEach
    <3>4. ASSUME NEW i \in 1 .. Len(q), q[i] = j, j \notin Gone(q, n)
          PROVE  \E k \in 1 .. Len(rest) : rest[k] = j
      <4>1. i > n
        BY <3>4, <2>3 DEF Gone
      <4>2. i - n \in 1 .. Len(rest) /\ rest[i - n] = q[i]
        BY <4>1, <2>2, <2>3
      <4> QED BY <4>2, <3>4
    <3>5. ASSUME NEW k \in 1 .. Len(rest), rest[k] = j
          PROVE  (\E i \in 1 .. Len(q) : q[i] = j) /\ j \notin Gone(q, n)
      <4>1. k + n \in 1 .. Len(q) /\ q[k + n] = j
        BY <3>5, <2>2, <2>3
      <4>2. \A i \in 1 .. n : q[i] # q[k + n]
        BY <4>1, <2>3 DEF OneEach
      <4> QED BY <4>1, <4>2 DEF Gone
    <3> QED BY <3>2, <3>3, <3>4, <3>5
  <2>6. CASE rest = <<>> /\ queue' = rest /\ inflight' = None /\ fate' = g
    <3>1. Len(queue') = 0
      BY <2>6
    <3>2. \A j \in Jobs : fate'[j] # "pending"
      BY <2>5, <2>6
    <3> QED BY <2>6, <3>1, <3>2, TargetConstants DEF JobInv, OneEach
  <2>7. CASE /\ rest # <<>> /\ queue' = Tail(rest)
             /\ inflight' = Head(rest) /\ fate' = g
    <3>1. /\ Len(rest) > 0
          /\ Len(queue') = Len(rest) - 1
          /\ \A i \in 1 .. Len(rest) - 1 : queue'[i] = rest[i + 1]
          /\ inflight' = rest[1]
      BY <2>2, <2>7
    <3>2. rest[1] \in Jobs
      BY <3>1, <2>2
    <3>3. \A i, k \in 1 .. Len(queue') : queue'[i] = queue'[k] => i = k
      BY <3>1, <2>3, <2>4
    <3>4. \A i \in 1 .. Len(queue') : queue'[i] # inflight'
      BY <3>1, <2>3, <2>4
    <3>5. ASSUME NEW j \in Jobs
          PROVE  (\E i \in 1 .. Len(rest) : rest[i] = j) <=>
                     \/ j = inflight'
                     \/ \E i \in 1 .. Len(queue') : queue'[i] = j
      <4>1. ASSUME NEW i \in 1 .. Len(rest), rest[i] = j, i # 1
            PROVE  \E k \in 1 .. Len(queue') : queue'[k] = j
        <5>1. i - 1 \in 1 .. Len(queue') /\ queue'[i - 1] = rest[i]
          BY <4>1, <3>1, <2>3
        <5> QED BY <5>1, <4>1
      <4>2. ASSUME NEW k \in 1 .. Len(queue'), queue'[k] = j
            PROVE  \E i \in 1 .. Len(rest) : rest[i] = j
        <5>1. k + 1 \in 1 .. Len(rest) /\ queue'[k] = rest[k + 1]
          BY <3>1, <2>3
        <5> QED BY <5>1, <4>2
      <4>3. 1 \in 1 .. Len(rest)
        BY <3>1, <2>3
      <4> QED BY <4>1, <4>2, <4>3, <3>1
    <3>6. inflight' # None
      BY <3>1, <3>2, TargetConstants
    <3>7. \A j \in Jobs : fate'[j] = "pending" <=>
              (j = inflight' \/ \E i \in 1 .. Len(queue') : queue'[i] = j)
      BY <2>5, <2>7, <3>5
    <3> QED BY <3>3, <3>4, <3>6, <3>7 DEF JobInv, OneEach
  <2>8. CASE queue' = rest /\ inflight' = None /\ fate' = g /\ timer' = TRUE
    <3>1. \A i \in 1 .. Len(rest) : rest[i] # None
      BY <2>2, <2>3, TargetConstants
    <3> HIDE DEF rest, g
    <3>2. OneEach(queue', inflight', fate')
      BY <2>4, <2>5, <2>8, <3>1, TargetConstants DEF OneEach
    <3> QED BY <3>2, <2>8 DEF JobInv, OneEach
  <2>9. CASE queue' = <<>> /\ inflight' = None /\ fate' = Settled(f, Range(q))
    <3>1. \A j \in Jobs : fate'[j] # "pending"
      <4>1. SUFFICES ASSUME NEW j \in Jobs, fate'[j] = "pending" PROVE FALSE
        OBVIOUS
      <4>2. f[j] = "pending" /\ j \notin Range(q)
        BY <4>1, <2>9 DEF Settled
      <4>3. PICK i \in 1 .. Len(q) : q[i] = j
        BY <4>2, <1>2, TargetConstants DEF OneEach
      <4> QED BY <4>2, <4>3 DEF Range
    <3>2. Len(queue') = 0
      BY <2>9
    <3> QED BY <2>9, <3>1, <3>2, TargetConstants DEF JobInv, OneEach
  <2> QED BY <2>1, <2>6, <2>7, <2>8, <2>9 DEF Advance
<1> QED BY <1>1, <1>2

\* failAll leaves nobody waiting.
LEMMA FailAllKeeps ==
  ASSUME TypeOK, JobInv, FailAll
  PROVE  JobInv'
<1>1. \A j \in Jobs : fate'[j] # "pending"
  <2>1. SUFFICES ASSUME NEW j \in Jobs, fate'[j] = "pending" PROVE FALSE
    OBVIOUS
  <2>2. fate[j] = "pending" /\ j \notin Range(queue) \cup {inflight}
    BY <2>1 DEF FailAll, Settled
  <2>3. PICK i \in 1 .. Len(queue) : queue[i] = j
    BY <2>2 DEF JobInv, OneEach
  <2> QED BY <2>2, <2>3 DEF Range, TypeOK
<1>2. queue' = <<>> /\ inflight' = None /\ Len(queue') = 0
  BY DEF FailAll
<1> QED BY <1>1, <1>2, TargetConstants DEF JobInv, OneEach

\* A request that has left the wire leaves its place to the next.
LEMMA Landed ==
  ASSUME TypeOK, JobInv, inflight # None
  PROVE  OneEach(queue, None, Settled(fate, {inflight}))
<1>1. \A i \in 1 .. Len(queue) : queue[i] \in Jobs /\ queue[i] # None
  BY TargetConstants DEF TypeOK
<1>2. \A j \in Jobs : Settled(fate, {inflight})[j] = "pending" <=>
                         fate[j] = "pending" /\ j # inflight
  BY DEF Settled
<1> QED BY <1>1, <1>2, TargetConstants DEF JobInv, OneEach

\* A request is queued behind the others.
LEMMA Queued ==
  ASSUME TypeOK, JobInv, NEW j \in Jobs, fate[j] = "new"
  PROVE  OneEach(Append(queue, j), inflight, [fate EXCEPT ![j] = "pending"])
<1> DEFINE q == Append(queue, j)
           f == [fate EXCEPT ![j] = "pending"]
<1>1. /\ q \in Seq(Jobs) /\ Len(queue) \in Nat /\ Len(q) = Len(queue) + 1
      /\ \A i \in 1 .. Len(queue) : q[i] = queue[i]
      /\ q[Len(queue) + 1] = j
  BY DEF TypeOK
<1>2. \A i \in 1 .. Len(queue) : queue[i] # j
  BY DEF JobInv, OneEach
<1>3. inflight # j
  BY DEF JobInv, OneEach
<1>4. \A k \in Jobs : f[k] = "pending" <=> k = j \/ fate[k] = "pending"
  BY DEF TypeOK
<1> HIDE DEF q, f
<1>5. \A i, k \in 1 .. Len(q) : q[i] = q[k] => i = k
  BY <1>1, <1>2 DEF JobInv, OneEach
<1>6. \A i \in 1 .. Len(q) : q[i] # inflight
  BY <1>1, <1>3 DEF JobInv, OneEach
<1>7. ASSUME NEW k \in Jobs
      PROVE  (k = j \/ \E i \in 1 .. Len(queue) : queue[i] = k) <=>
                 \E i \in 1 .. Len(q) : q[i] = k
  <2>1. /\ Len(queue) + 1 \in 1 .. Len(q)
        /\ \A i \in 1 .. Len(queue) : i \in 1 .. Len(q)
        /\ \A i \in 1 .. Len(q) : i \in 1 .. Len(queue) \/ i = Len(queue) + 1
    BY <1>1
  <2> QED BY <1>1, <2>1
<1>8. \A k \in Jobs : f[k] = "pending" <=>
                         (k = inflight \/ \E i \in 1 .. Len(q) : q[i] = k)
  BY <1>4, <1>7 DEF JobInv, OneEach
<1>9. OneEach(q, inflight, f)
  BY <1>5, <1>6, <1>8 DEF OneEach
<1> QED BY <1>9 DEF q, f

THEOREM NobodyForgottenEver == Spec => []NobodyForgotten
<1>1. ASSUME Init PROVE JobInv
  <2>1. queue = <<>> /\ Len(queue) = 0 /\ inflight = None
    BY <1>1 DEF Init
  <2>2. \A j \in Jobs : fate[j] # "pending"
    BY <1>1 DEF Init
  <2> QED BY <2>1, <2>2, TargetConstants DEF JobInv, OneEach
<1>2. ASSUME TypeOK, JobInv, [Next]_vars PROVE JobInv'
  <2>1. ASSUME UNCHANGED jobs PROVE JobInv'
    BY <2>1, <1>2 DEF jobs, JobInv, OneEach
  <2>2. ASSUME FailAll PROVE JobInv'
    BY <2>2, <1>2, FailAllKeeps
  <2>3. /\ fate \in Fates /\ Settled(fate, {inflight}) \in Fates
        /\ None \in Jobs \cup {None}
        /\ queue \in Seq(Jobs) /\ inflight \in Jobs \cup {None}
        /\ timer \in BOOLEAN
    BY <1>2 DEF TypeOK, Fates, Settled
  <2>4. ASSUME NEW l \in Loops, Control(l) PROVE JobInv'
    <3>1. CASE \/ \E answered \in BOOLEAN : PeerHandshake(l, answered)
               \/ Greeted(l)
      <4>1. \/ UNCHANGED jobs
            \/ \E s : Pump(queue, inflight, fate, timer, s, conn, stopped)
        BY <3>1 DEF PeerHandshake, Greeted
      <4>2. OneEach(queue, inflight, fate)
        BY <1>2 DEF JobInv
      <4> QED BY <4>1, <4>2, <2>1, <2>3, PumpKeeps
    <3>2. CASE Response(l)
      <4>1. /\ inflight # None
            /\ Pump(queue, None, Settled(fate, {inflight}), timer, session,
                    conn, stopped)
        BY <3>2 DEF Response
      <4>2. OneEach(queue, None, Settled(fate, {inflight}))
        BY <4>1, <1>2, Landed
      <4> QED BY <4>1, <4>2, <2>3, PumpKeeps
    <3>3. CASE Fatal(l)
      BY <3>3, <2>2 DEF Fatal
    <3>4. CASE \/ Dialled(l) \/ Wakes(l) \/ Ready(l) \/ GoesSilent(l)
               \/ UpSent(l)
               \/ \E slow \in BOOLEAN : Drops(l, slow)
               \/ \E up \in BOOLEAN : PeerNotice(l, up)
      <4>1. UNCHANGED jobs
        BY <3>4 DEF Dialled, Wakes, Ready, GoesSilent, UpSent, Drops,
                    PeerNotice
      <4> QED BY <4>1, <2>1
    <3> QED BY <2>4, <3>1, <3>2, <3>3, <3>4 DEF Control
  <2>5. ASSUME NEW p \in Standbys, Standby(p) PROVE JobInv'
    BY <2>5, <2>1 DEF Standby, StandbyEnds, StandbyFatal, StandbyWakes
  <2>6. ASSUME NEW j \in Jobs, Request(j) PROVE JobInv'
    <3>1. /\ fate[j] = "new"
          /\ Pump(Append(queue, j), inflight, [fate EXCEPT ![j] = "pending"],
                  timer, session, conn, stopped)
      BY <2>6 DEF Request
    <3>2. OneEach(Append(queue, j), inflight, [fate EXCEPT ![j] = "pending"])
      BY <3>1, <1>2, Queued
    <3>3. /\ Append(queue, j) \in Seq(Jobs)
          /\ [fate EXCEPT ![j] = "pending"] \in Fates
      BY <2>3 DEF Fates
    <3> QED BY <3>1, <3>2, <3>3, <2>3, PumpKeeps
  <2>7. ASSUME NEW j \in Jobs, Expires(j) PROVE JobInv'
    BY <2>7, <2>1 DEF Expires
  <2>8. CASE KeepaliveFires
    BY <2>8, <2>1 DEF KeepaliveFires
  <2>9. CASE PumpTimer
    <3>1. PICK others \in BOOLEAN :
              Pump(queue, inflight, fate, others, session, conn, stopped)
      BY <2>9 DEF PumpTimer
    <3>2. OneEach(queue, inflight, fate)
      BY <1>2 DEF JobInv
    <3> QED BY <3>1, <3>2, <2>3, PumpKeeps
  <2>10. CASE InflightFails
    <3>1. /\ inflight # None
          /\ Pump(queue, None, Settled(fate, {inflight}), timer, session,
                  conn, stopped)
      BY <2>10 DEF InflightFails
    <3>2. OneEach(queue, None, Settled(fate, {inflight}))
      BY <3>1, <1>2, Landed
    <3> QED BY <3>1, <3>2, <2>3, PumpKeeps
  <2>11. CASE Calls
    <3>1. ASSUME Stop PROVE JobInv'
      BY <3>1, <2>1, <2>2 DEF Stop
    <3>2. CASE Sync \/ Connect \/ DropProfile \/ \E on \in BOOLEAN : SetAuto(on)
      BY <3>2, <2>1 DEF Sync, Connect, DropProfile, SetAuto
    <3>3. CASE Disconnect \/ Remove
      BY <3>3, <3>1 DEF Disconnect, Remove
    <3>4. CASE Rename
      BY <3>4, <2>2 DEF Rename
    <3> QED BY <2>11, <3>2, <3>3, <3>4 DEF Calls
  <2>12. CASE UNCHANGED vars
    BY <2>12, <2>1 DEF vars, jobs
  <2> QED BY <1>2, <2>4, <2>5, <2>6, <2>7, <2>8, <2>9, <2>10, <2>11, <2>12
          DEF Next
<1>3. TypeOK /\ JobInv => NobodyForgotten
  <2>1. SUFFICES ASSUME TypeOK, JobInv, NEW j \in Jobs
                 PROVE  fate[j] = "pending" <=>
                            \/ inflight = j
                            \/ /\ j \in Range(queue)
                               /\ inflight # None \/ timer
    BY DEF NobodyForgotten
  <2>2. j \in Range(queue) <=> \E i \in 1 .. Len(queue) : queue[i] = j
    BY <2>1 DEF Range, TypeOK
  <2>3. (\E i \in 1 .. Len(queue) : queue[i] = j) => queue # <<>>
    OBVIOUS
  <2> QED BY <2>1, <2>2, <2>3 DEF JobInv, OneEach
<1> QED BY <1>1, <1>2, <1>3, TypeCorrect, PTL DEF Spec

-----------------------------------------------------------------------------
(* Honest: while loops follow one another, only the loop at work has or     *)
(* opens a connection, and the target's fields are its own.                *)

LEMMA HonestInit == Init => Held
BY TargetConstants
DEF Init, Held, Alone, Owned, Hushed, Shown, Leftover, Reading, Writing

\* Once loops have overlapped, or one was cut off, that stays on record.
LEMMA StaysOnRecord ==
  ASSUME [Next]_vars, Calm'
  PROVE  Calm
<1> USE DEF Calm
<1>1. ASSUME UNCHANGED past PROVE Calm
  BY <1>1 DEF past
<1>2. ASSUME NEW l \in Loops, Control(l) PROVE Calm
  <2>1. UNCHANGED past
    BY <1>2 DEF Control, Dialled, Fatal, Wakes, Ready, Drops, PeerNotice,
                PeerHandshake, UpSent, Greeted, Response, GoesSilent
  <2> QED BY <1>1, <2>1
<1>3. ASSUME NEW p \in Standbys, Standby(p) PROVE Calm
  BY <1>1, <1>3 DEF Standby, StandbyEnds, StandbyFatal, StandbyWakes
<1>4. ASSUME NEW j \in Jobs, Request(j) \/ Expires(j) PROVE Calm
  BY <1>1, <1>4 DEF Request, Expires
<1>5. CASE KeepaliveFires \/ PumpTimer \/ InflightFails
  BY <1>1, <1>5 DEF KeepaliveFires, PumpTimer, InflightFails
<1>6. CASE Calls
  <2>1. ASSUME Begin, UNCHANGED cut PROVE Calm
    BY <2>1 DEF Begin
  <2>2. ASSUME Stop, UNCHANGED overlapped PROVE Calm
    BY <2>2 DEF Stop, Hangup
  <2>3. CASE Sync \/ Connect \/ \E on \in BOOLEAN : SetAuto(on)
    BY <2>1, <2>3 DEF Sync, Connect, SetAuto
  <2>4. CASE Disconnect \/ Remove
    BY <2>2, <2>4 DEF Disconnect, Remove
  <2>5. CASE Rename
    BY <2>5 DEF Rename, Begin, Hangup
  <2>6. CASE DropProfile
    BY <1>1, <2>6 DEF DropProfile
  <2> QED BY <1>6, <2>3, <2>4, <2>5, <2>6 DEF Calls
<1>7. CASE UNCHANGED vars
  BY <1>7 DEF vars
<1> QED BY <1>2, <1>3, <1>4, <1>5, <1>6, <1>7 DEF Next

LEMMA LoopHolds ==
  ASSUME TypeOK, Held, NEW l \in Loops, Control(l), Calm'
  PROVE  Held'
<1> USE DEF TypeOK, Held, shared, standby, jobs, manager, past, Calm
<1> USE TargetConstants
<1> USE DEF Reading, Writing
<1>1. CASE Dialled(l)
  BY <1>1 DEF Dialled, Alone, Owned, Hushed, Shown, Leftover
<1>2. CASE Fatal(l)
  <2>1. Alone' /\ Hushed' /\ Leftover'
    BY <1>2 DEF Fatal, Receiving, Cleanup, Alone, Owned, Hushed, Leftover
  <2>2. Owned' /\ Shown'
    BY <1>2 DEF Fatal, Receiving, Cleanup, Alone, Owned, Hushed, Shown
  <2> QED BY <2>1, <2>2
<1>3. CASE Wakes(l)
  BY <1>3 DEF Wakes, Alone, Owned, Hushed, Shown, Leftover
<1>4. CASE Ready(l)
  BY <1>4 DEF Ready, Alone, Owned, Hushed, Shown, Leftover
<1>5. ASSUME NEW slow \in BOOLEAN, Drops(l, slow) PROVE Held'
  <2>1. Alone' /\ Owned' /\ Hushed' /\ Leftover'
    BY <1>5 DEF Drops, Cleanup, Alone, Owned, Hushed, Shown, Leftover
  <2>2. Shown'
    BY <1>5 DEF Drops, Cleanup, Alone, Owned, Hushed, Shown
  <2> QED BY <2>1, <2>2
<1>6. ASSUME NEW up \in BOOLEAN, PeerNotice(l, up) PROVE Held'
  <2>1. Alone' /\ Owned' /\ Hushed' /\ Leftover'
    BY <1>6 DEF PeerNotice, Writes, Receiving, Alone, Owned, Hushed, Leftover
  <2>2. Shown'
    BY <1>6 DEF PeerNotice, Writes, Receiving, Alone, Owned, Hushed, Shown,
                Leftover
  <2> QED BY <2>1, <2>2
<1>7. ASSUME NEW answered \in BOOLEAN, PeerHandshake(l, answered) PROVE Held'
  <2>1. Alone' /\ Owned' /\ Hushed' /\ Leftover'
    BY <1>7 DEF PeerHandshake, Writes, Receiving, Alone, Owned, Hushed,
                Leftover
  <2>2. Shown'
    BY <1>7 DEF PeerHandshake, Writes, Receiving, Alone, Owned, Hushed, Shown,
                Leftover
  <2> QED BY <2>1, <2>2
<1>8. CASE UpSent(l)
  BY <1>8 DEF UpSent, Alone, Owned, Hushed, Shown, Leftover
<1>9. CASE Greeted(l)
  <2>1. Alone' /\ Owned' /\ Hushed' /\ Leftover'
    BY <1>9 DEF Greeted, Alone, Owned, Hushed, Leftover
  <2>2. Shown'
    BY <1>9 DEF Greeted, Alone, Owned, Hushed, Shown, Leftover
  <2> QED BY <2>1, <2>2
<1>10. CASE Response(l)
  BY <1>10 DEF Response, Alone, Owned, Hushed, Shown, Leftover
<1>11. CASE GoesSilent(l)
  BY <1>11 DEF GoesSilent, Receiving, Alone, Owned, Hushed, Shown, Leftover
<1> QED BY <1>1, <1>2, <1>3, <1>4, <1>5, <1>6, <1>7, <1>8, <1>9, <1>10, <1>11
        DEF Control

LEMMA BeginHolds ==
  ASSUME TypeOK, Held, Begin, Calm', UNCHANGED <<conn, session, sock>>
  PROVE  Held'
<1>1. \A l \in Loops : pc[l] = "none"
  BY DEF Begin, Calm
<1>2. conn = None /\ session = None /\ \A l \in Loops : sock[l] = "none"
  BY <1>1 DEF Held, Owned, Shown, Reading, Writing, TypeOK
<1>3. PICK l \in Loops : pc' = [pc EXCEPT ![l] = "dial"]
  BY DEF Begin
<1>4. /\ \A k \in Loops : pc'[k] = IF k = l THEN "dial" ELSE "none"
      /\ stopped' = FALSE /\ state' = "connecting"
  BY <1>1, <1>3 DEF Begin, TypeOK
<1> QED BY <1>2, <1>4, TargetConstants
        DEF Held, Alone, Owned, Hushed, Shown, Leftover, Reading,
            Writing, TypeOK

LEMMA CallHolds ==
  ASSUME TypeOK, Held, Calls, Calm'
  PROVE  Held'
<1> USE DEF TypeOK, shared, standby, jobs, manager, past, Calm
<1> USE TargetConstants
<1>1. ASSUME UNCHANGED <<stopped, state, conn, session, pc, sock, late>>
      PROVE  Held'
  BY <1>1 DEF Held, Alone, Owned, Hushed, Shown, Leftover
<1>2. CASE Sync
  <2>1. CASE Begin
    BY <1>2, <2>1, BeginHolds DEF Sync, Begin
  <2>2. CASE UNCHANGED <<stopped, manualOff, state, pc, overlapped, late>>
    BY <1>1, <1>2, <2>2 DEF Sync
  <2> QED BY <1>2, <2>1, <2>2 DEF Sync
<1>3. CASE Connect
  BY <1>3, BeginHolds DEF Connect, Begin
<1>4. ASSUME Stop, UNCHANGED <<pc, overlapped>> PROVE Held'
  <2>1. CASE stopped /\ state = "off"
    BY <1>1, <1>4, <2>1 DEF Stop
  <2>2. CASE ~(stopped /\ state = "off")
    <3>1. /\ stopped' = TRUE /\ state' = "off" /\ Hangup
          /\ UNCHANGED <<pc, overlapped>>
          /\ late' = (\E l \in Loops : pc[l] \in Writing \/ sock[l] = "left")
      BY <1>4, <2>2 DEF Stop
    <3>2. \A l \in Loops : pc[l] # "dial"
      BY <3>1 DEF Hangup
    <3> QED BY <3>1, <3>2 DEF Hangup, Shut, Held, Alone, Owned, Hushed, Shown, Leftover,
                                 Reading, Writing
  <2> QED BY <2>1, <2>2
<1>5. CASE Disconnect
  BY <1>4, <1>5 DEF Disconnect
<1>6. CASE Remove
  BY <1>4, <1>6 DEF Remove
<1>7. CASE Rename
  <2>1. \A l \in Loops : pc[l] = "none"
    BY <1>7 DEF Rename, Begin
  <2>2. conn = None /\ session = None /\ \A l \in Loops : sock[l] = "none"
    BY <2>1 DEF Held, Owned, Shown, Reading, Writing
  <2>3. UNCHANGED <<conn, session, sock>> /\ Begin
    BY <1>7, <2>2 DEF Rename, Hangup, Begin
  <2> QED BY <2>3, BeginHolds
<1>8. CASE DropProfile
  BY <1>1, <1>8 DEF DropProfile
<1>9. ASSUME NEW on \in BOOLEAN, SetAuto(on) PROVE Held'
  <2>1. CASE on /\ stopped
    BY <1>9, <2>1, BeginHolds DEF SetAuto, Begin
  <2>2. CASE ~(on /\ stopped)
    BY <1>1, <1>9, <2>2 DEF SetAuto
  <2> QED BY <2>1, <2>2
<1> QED BY <1>2, <1>3, <1>5, <1>6, <1>7, <1>8, <1>9 DEF Calls

LEMMA OthersHold ==
  ASSUME TypeOK, Held, Calm',
         \/ \E p \in Standbys : Standby(p)
         \/ \E j \in Jobs : Request(j) \/ Expires(j)
         \/ KeepaliveFires \/ PumpTimer \/ InflightFails
         \/ UNCHANGED vars
  PROVE  Held'
<1> USE DEF TypeOK, shared, past, Calm
<1>1. ASSUME UNCHANGED <<stopped, state, conn, session, pc, sock, late>>
      PROVE  Held'
  BY <1>1 DEF Held, Alone, Owned, Hushed, Shown, Leftover
<1>2. CASE \E p \in Standbys : Standby(p)
  BY <1>1, <1>2 DEF Standby, StandbyEnds, StandbyFatal, StandbyWakes
<1>3. CASE \/ \E j \in Jobs : Request(j) \/ Expires(j)
           \/ PumpTimer \/ InflightFails
  BY <1>1, <1>3 DEF Request, Expires, PumpTimer, InflightFails
<1>4. CASE KeepaliveFires
  BY <1>4 DEF KeepaliveFires, Held, Alone, Owned, Hushed, Shown, Leftover
<1>5. CASE UNCHANGED vars
  BY <1>1, <1>5 DEF vars
<1> QED BY <1>2, <1>3, <1>4, <1>5

\* As long as loops run one after the other and none is dialling when the
\* target is stopped, what the panel shows is what is there.
THEOREM HonestEver == Spec => []Honest
<1>1. Init => HonestInv
  BY HonestInit DEF HonestInv
<1>2. TypeOK /\ HonestInv /\ [Next]_vars => HonestInv'
  <2> SUFFICES ASSUME TypeOK, HonestInv, [Next]_vars, Calm' PROVE Held'
    BY DEF HonestInv
  <2>1. Calm
    BY StaysOnRecord
  <2> QED BY <2>1, LoopHolds, CallHolds, OthersHold DEF HonestInv, Next
<1>3. TypeOK /\ HonestInv => Honest
  BY TargetConstants
  DEF TypeOK, HonestInv, Calm, Held, Owned, Hushed, Shown, Live, Honest
<1> QED BY <1>1, <1>2, <1>3, TypeCorrect, PTL DEF Spec
=============================================================================
