---------------------------- MODULE CallsProofs ----------------------------
(***************************************************************************)
(* The session system keeps the promises of Calls: for any number of       *)
(* connections, reconnections and requests, requests are carried out at    *)
(* most once, in the order of issue and only if they were sent, and are    *)
(* answered only if they were carried out.  The two ends of a session keep *)
(* their windows open: neither waits for a sequence number that the other  *)
(* has passed.  And a pair that has come to rest has agreed on a session.  *)
(***************************************************************************)
EXTENDS SessionProofs

-----------------------------------------------------------------------------
(* Inductive strengthenings: what CallsHold rests on.  An epoch of the     *)
(* agent is the life of one of its keys.  The agent announces a key once,  *)
(* and a session agreed on it dies with the epoch; so every request that   *)
(* the agent could still open was sent in one session, over one connection *)
(* of the controller, and has not been overtaken.                          *)

\* The agent's key that frame f announces or was sealed for, and the frames of
\* one type and epoch.
Epoch(f) == IF f.type = "hs" THEN f.key ELSE f.seal[2]
Of(f, type, e) == f.type = type /\ Epoch(f) = e

\* Those in the sequence s, by the request they carry (0 for a handshake), and
\* whether they stand there in the order of issue.
Ids(s, type, e) ==
    {s[i].id : i \in {j \in DOMAIN s : Of(s[j], type, e)}}
Rising(s, type, e) ==
    \A i, j \in DOMAIN s :
        i < j /\ Of(s[i], type, e) /\ Of(s[j], type, e) => s[i].id < s[j].id

\* What program p may still read: frames the other side sent over connection c
\* that the hub has not forwarded, and those in its own connection.
Behind(p, c, type, e) ==
    IF who[c].kind = Opposite(p) THEN Ids(toHub[c], type, e) ELSE {}
Ahead(p, type, e) ==
    IF link[p] = None THEN {} ELSE Ids(toFar[link[p]], type, e)
Coming(p, type, e) ==
    Ahead(p, type, e) \cup UNION {Behind(p, c, type, e) : c \in Conns}

\* They come over one connection and in the order of issue.
Lined(p, type, e) ==
    /\ \A c \in Conns : who[c].kind = Opposite(p) => Rising(toHub[c], type, e)
    /\ link[p] # None => Rising(toFar[link[p]], type, e)
    /\ \A c \in Conns :
          \A m \in Ahead(p, type, e), n \in Behind(p, c, type, e) : m < n
    /\ \A c, d \in Conns :
          c # d => Behind(p, c, type, e) = {} \/ Behind(p, d, type, e) = {}

\* The requests that have left the controller.
Sent == {r \in Reqs : call[r] \in {"sent", "ok", "late"}}

\* A connection in use is the program's own at the hub, or forgotten there.
Linked ==
    /\ \A c \in Conns : who[c].kind \in Programs \cup {"none"}
    /\ \A p \in Programs :
          link[p] # None => who[link[p]].kind \in {p, "none"}
    /\ link["agent"] = link["client"] => link["agent"] = None

\* The controller's books: one request in flight, and the queue behind it in
\* the order of issue.
Books(jobs, busy, calls) ==
    /\ \A r \in Reqs : calls[r] = "sent" <=> busy = r
    /\ \A i \in DOMAIN jobs : calls[jobs[i]] = "queued"
    /\ \A i, j \in DOMAIN jobs : i < j => jobs[i] < jobs[j]
    /\ \A i \in DOMAIN jobs, r \in Reqs :
          calls[r] \in {"sent", "ok", "late"} => r < jobs[i]
    /\ \A r, q \in Reqs : calls[r] = "new" /\ calls[q] # "new" => q < r

Booked == Books(queue, inflight, call)

\* A request under way has left the controller, in this epoch or an earlier
\* one; an answer has left the agent.
Genuine(f) ==
    /\ f.type = "req" => f.id \in Sent /\ Epoch(f) <= ephem
    /\ f.type = "resp" => f.id \in Range(ran)

Traced ==
    /\ \A c \in Conns :
          \A f \in Range(toHub[c]) \cup Range(toFar[c]) : Genuine(f)
    /\ Range(ran) \subseteq Sent
    /\ \A r \in Reqs : call[r] = "ok" => r \in Range(ran)

\* The agent's session is of its present epoch; the controller has and will
\* read no key of a later one.
Epochs ==
    /\ aSession # NoSession => aSession.key[2] = ephem
    /\ cSession # NoSession => link["client"] # None /\ cSession.key[2] <= ephem
    /\ \A e \in Nat : e > ephem => Coming("client", "hs", e) = {}

\* The present key is announced once, and the requests sealed for it go out
\* over the connection on which the controller agreed on it.
Announced ==
    /\ Lined("client", "hs", ephem)
    /\ Coming("agent", "req", ephem) # {} => Coming("client", "hs", ephem) = {}
    /\ cSession # NoSession /\ cSession.key[2] = ephem =>
          /\ Coming("client", "hs", ephem) = {}
          /\ \A c \in Conns \ {link["client"]} :
                Behind("agent", c, "req", ephem) = {}

\* They come in order, and after all that the agent carried out before.
InOrder ==
    /\ Lined("agent", "req", ephem)
    /\ \A r \in Range(ran), n \in Coming("agent", "req", ephem) : r < n

CallInv == Linked /\ Booked /\ Traced /\ Epochs /\ Announced /\ InOrder

-----------------------------------------------------------------------------
(* The frames of one type and epoch in a sequence.                         *)

LEMMA IdsEmpty ==
  ASSUME NEW type, NEW e
  PROVE  Ids(<<>>, type, e) = {} /\ Rising(<<>>, type, e)
BY DEF Ids, Rising

LEMMA IdsNone ==
  ASSUME NEW s, NEW type, NEW e, Ids(s, type, e) = {}
  PROVE  Rising(s, type, e)
BY DEF Ids, Rising

\* Sequence t holds no more of them than s, and in an order no worse.
Thins(t, s, type, e) ==
    /\ Ids(t, type, e) \subseteq Ids(s, type, e)
    /\ Rising(s, type, e) => Rising(t, type, e)

LEMMA ThinsSame ==
  ASSUME NEW s, NEW type, NEW e
  PROVE  Thins(s, s, type, e)
BY DEF Thins

LEMMA AppendParts ==
  ASSUME NEW S, NEW s \in Seq(S), NEW f \in S
  PROVE  /\ Append(s, f) \in Seq(S)
         /\ DOMAIN Append(s, f) = DOMAIN s \cup {Len(s) + 1}
         /\ \A i \in DOMAIN s : /\ Append(s, f)[i] = s[i]
                                /\ i < Len(s) + 1
                                /\ i \in Nat
         /\ Append(s, f)[Len(s) + 1] = f
         /\ Len(s) \in Nat
OBVIOUS

\* Another one at the end, or a frame of another type or epoch.
LEMMA IdsAppend ==
  ASSUME NEW s \in Seq(Frames), NEW f \in Frames, NEW type, NEW e,
         Of(f, type, e)
  PROVE  /\ Ids(Append(s, f), type, e) = Ids(s, type, e) \cup {f.id}
         /\ /\ Rising(s, type, e)
            /\ \A n \in Ids(s, type, e) : n < f.id
            => Rising(Append(s, f), type, e)
<1> DEFINE t == Append(s, f)
<1>1. /\ DOMAIN t = DOMAIN s \cup {Len(s) + 1}
      /\ \A i \in DOMAIN s : t[i] = s[i] /\ i < Len(s) + 1 /\ i \in Nat
      /\ t[Len(s) + 1] = f
      /\ Len(s) \in Nat
  BY AppendParts
<1> HIDE DEF t
<1>2. Ids(t, type, e) = Ids(s, type, e) \cup {f.id}
  BY <1>1 DEF Ids
<1>3. ASSUME Rising(s, type, e), \A n \in Ids(s, type, e) : n < f.id
      PROVE  Rising(t, type, e)
  BY <1>1, <1>3 DEF Rising, Ids
<1> QED BY <1>2, <1>3 DEF t

LEMMA ThinsOther ==
  ASSUME NEW s \in Seq(Frames), NEW f \in Frames, NEW type, NEW e,
         ~Of(f, type, e)
  PROVE  Thins(Append(s, f), s, type, e)
<1> DEFINE t == Append(s, f)
<1>1. /\ DOMAIN t = DOMAIN s \cup {Len(s) + 1}
      /\ \A i \in DOMAIN s : t[i] = s[i] /\ i < Len(s) + 1 /\ i \in Nat
      /\ t[Len(s) + 1] = f
      /\ Len(s) \in Nat
  BY AppendParts
<1> HIDE DEF t
<1>2. Ids(t, type, e) \subseteq Ids(s, type, e)
  BY <1>1 DEF Ids
<1>3. Rising(s, type, e) => Rising(t, type, e)
  BY <1>1 DEF Rising
<1> QED BY <1>2, <1>3 DEF t, Thins

\* The first one leaves.
LEMMA ThinsTail ==
  ASSUME NEW s \in Seq(Frames), s # <<>>, NEW type, NEW e
  PROVE  /\ Thins(Tail(s), s, type, e)
         /\ Of(Head(s), type, e) =>
               /\ Head(s).id \in Ids(s, type, e)
               /\ Rising(s, type, e) =>
                     \A n \in Ids(Tail(s), type, e) : Head(s).id < n
<1> DEFINE t == Tail(s)
<1>1. /\ \A i \in DOMAIN t : /\ i + 1 \in DOMAIN s
                             /\ t[i] = s[i + 1]
                             /\ 1 < i + 1
                             /\ i \in Nat
      /\ 1 \in DOMAIN s
      /\ Head(s) = s[1]
  OBVIOUS
<1> HIDE DEF t
<1>2. Ids(t, type, e) \subseteq Ids(s, type, e)
  BY <1>1 DEF Ids
<1>3. Rising(s, type, e) => Rising(t, type, e)
  BY <1>1 DEF Rising
<1>4. ASSUME Of(Head(s), type, e)
      PROVE  /\ Head(s).id \in Ids(s, type, e)
             /\ Rising(s, type, e) =>
                   \A n \in Ids(t, type, e) : Head(s).id < n
  BY <1>1, <1>4 DEF Ids, Rising
<1> QED BY <1>2, <1>3, <1>4 DEF t, Thins

\* A handshake carries no request, so that a line of them holds one at most.
LEMMA HandshakeOnce ==
  ASSUME NEW s \in Seq(Frames), NEW e
  PROVE  Ids(s, "hs", e) \subseteq {0}
<1>1. \A i \in DOMAIN s : s[i] \in Frames
  OBVIOUS
<1> QED BY <1>1 DEF Ids, Of, Frames

-----------------------------------------------------------------------------
(* Lines: a step that writes none of the frames in question only shortens  *)
(* them, and forwarding moves one along.                                   *)

Shortens(p, type, e) ==
    /\ \A c \in Conns : who'[c].kind = Opposite(p) =>
          \/ /\ who[c].kind = Opposite(p)
             /\ Thins(toHub'[c], toHub[c], type, e)
          \/ Ids(toHub'[c], type, e) = {}
    /\ link'[p] # None =>
          \/ /\ link'[p] = link[p]
             /\ Thins(toFar'[link'[p]], toFar[link[p]], type, e)
          \/ Ids(toFar'[link'[p]], type, e) = {}

\* What a line keeps in either case.
Flows(p, type, e) ==
    Lined(p, type, e) =>
        /\ Lined(p, type, e)'
        /\ Coming(p, type, e)' \subseteq Coming(p, type, e)
        /\ \A c \in Conns : Behind(p, c, type, e)' \subseteq
                                Behind(p, c, type, e)

LEMMA ComingParts ==
  ASSUME NEW p, NEW type, NEW e
  PROVE  /\ Ahead(p, type, e) \subseteq Coming(p, type, e)
         /\ \A c \in Conns : Behind(p, c, type, e) \subseteq Coming(p, type, e)
         /\ \A n \in Coming(p, type, e) :
               \/ n \in Ahead(p, type, e)
               \/ \E c \in Conns : n \in Behind(p, c, type, e)
BY DEF Coming

LEMMA LinedNone ==
  ASSUME NEW p, NEW type, NEW e, Coming(p, type, e) = {}
  PROVE  Lined(p, type, e)
<1>1. /\ Ahead(p, type, e) = {}
      /\ \A c \in Conns : Behind(p, c, type, e) = {}
  BY ComingParts
<1>2. /\ \A c \in Conns :
            who[c].kind = Opposite(p) => Rising(toHub[c], type, e)
      /\ link[p] # None => Rising(toFar[link[p]], type, e)
  BY <1>1, IdsNone DEF Ahead, Behind
<1> QED BY <1>1, <1>2 DEF Lined

LEMMA ShortensFlows ==
  ASSUME NEW p \in Programs, NEW type, NEW e, Shortens(p, type, e)
  PROVE  /\ Flows(p, type, e)
         /\ Ahead(p, type, e)' \subseteq Ahead(p, type, e)
         /\ Coming(p, type, e)' \subseteq Coming(p, type, e)
<1>1. \A c \in Conns :
         Behind(p, c, type, e)' \subseteq Behind(p, c, type, e)
  BY DEF Shortens, Behind, Thins
<1>2. Ahead(p, type, e)' \subseteq Ahead(p, type, e)
  BY DEF Shortens, Ahead, Thins
<1>3. Coming(p, type, e)' \subseteq Coming(p, type, e)
  BY <1>1, <1>2 DEF Coming
<1>4. ASSUME Lined(p, type, e)
      PROVE  Lined(p, type, e)'
  <2>1. \A c \in Conns :
           (who[c].kind = Opposite(p) => Rising(toHub[c], type, e))'
    BY <1>4, IdsNone DEF Shortens, Lined, Thins
  <2>2. (link[p] # None => Rising(toFar[link[p]], type, e))'
    BY <1>4, IdsNone DEF Shortens, Lined, Thins
  <2>3. \A c \in Conns :
           \A m \in Ahead(p, type, e)', n \in Behind(p, c, type, e)' : m < n
    BY <1>1, <1>2, <1>4 DEF Lined
  <2>4. \A c, d \in Conns :
           c # d => \/ Behind(p, c, type, e)' = {}
                    \/ Behind(p, d, type, e)' = {}
    BY <1>1, <1>4 DEF Lined
  <2> QED BY <2>1, <2>2, <2>3, <2>4 DEF Lined
<1> QED BY <1>1, <1>2, <1>3, <1>4 DEF Flows

\* A frame f behind everything that is coming joins the line of program p, sent
\* over c, the only connection on which any may be waiting.
LEMMA JoinsLine ==
  ASSUME NEW p \in Programs, NEW type, NEW e, NEW c \in Conns,
         NEW s \in Seq(Frames), NEW f \in Frames, Of(f, type, e),
         Thins(s, toHub[c], type, e), toHub'[c] = Append(s, f),
         \A d \in Conns \ {c} : toHub'[d] = toHub[d],
         UNCHANGED who, UNCHANGED link,
         link[p] # None => Thins(toFar'[link[p]], toFar[link[p]], type, e),
         Lined(p, type, e),
         \A d \in Conns \ {c} : Behind(p, d, type, e) = {},
         \A n \in Coming(p, type, e) : n < f.id
  PROVE  /\ Lined(p, type, e)'
         /\ Coming(p, type, e)' \subseteq Coming(p, type, e) \cup {f.id}
         /\ \A d \in Conns \ {c} : Behind(p, d, type, e)' = {}
<1>1. /\ Ids(toHub'[c], type, e) \subseteq Ids(toHub[c], type, e) \cup {f.id}
      /\ /\ Rising(toHub[c], type, e)
         /\ \A n \in Ids(toHub[c], type, e) : n < f.id
         => Rising(toHub'[c], type, e)
  BY IdsAppend DEF Thins
<1>2. \A d \in Conns \ {c} : Behind(p, d, type, e)' = {}
  BY DEF Behind
<1>3. Behind(p, c, type, e)' \subseteq Behind(p, c, type, e) \cup {f.id}
  BY <1>1 DEF Behind
<1>4. Ahead(p, type, e)' \subseteq Ahead(p, type, e)
  BY DEF Ahead, Thins
<1>5. Coming(p, type, e)' \subseteq Coming(p, type, e) \cup {f.id}
  BY <1>2, <1>3, <1>4 DEF Coming
<1>6. Lined(p, type, e)'
  <2>1. \A d \in Conns :
           (who[d].kind = Opposite(p) => Rising(toHub[d], type, e))'
    <3>1. ASSUME who[c].kind = Opposite(p)
          PROVE  Rising(toHub'[c], type, e)
      <4>1. \A n \in Ids(toHub[c], type, e) : n < f.id
        BY <3>1, ComingParts DEF Behind
      <4> QED BY <1>1, <3>1, <4>1 DEF Lined
    <3> QED BY <3>1 DEF Lined
  <2>2. (link[p] # None => Rising(toFar[link[p]], type, e))'
    BY DEF Lined, Thins
  <2>3. \A d \in Conns :
           \A m \in Ahead(p, type, e)', n \in Behind(p, d, type, e)' : m < n
    BY <1>2, <1>3, <1>4, ComingParts DEF Lined
  <2>4. \A d, b \in Conns :
           d # b => \/ Behind(p, d, type, e)' = {}
                    \/ Behind(p, b, type, e)' = {}
    BY <1>2
  <2> QED BY <2>1, <2>2, <2>3, <2>4 DEF Lined
<1> QED BY <1>2, <1>5, <1>6

\* The relay writes what a program sent to the other side's program.
LEMMA PeerSide ==
  ASSUME Typed, NoGhost, Linked, NEW c \in Conns, NEW p \in Programs,
         pc[c] = "serve", link[p] # None, Peer(c) = link[p]
  PROVE  who[c].kind = Opposite(p)
<1>1. who[c].kind \in Programs /\ who[c].dev \in Devices
  BY DEF Typed, Placed, Linked, Kinds, Programs
<1>2. Opposite(who[c].kind) \in Kinds /\ slot[Opposite(who[c].kind)][who[c].dev] = link[p]
  BY DEF Opposite, Kinds, Peer
<1>3. who[link[p]].kind = Opposite(who[c].kind)
  BY <1>1, <1>2 DEF NoGhost
<1>4. Opposite(who[c].kind) = p
  BY <1>3 DEF Linked, Opposite
<1> QED BY <1>1, <1>4 DEF Opposite, Programs

LEMMA ForwardFlows ==
  ASSUME SessionTypeOK, Typed, NoGhost, Linked, NEW c \in Conns, Forward(c),
         NEW p \in Programs, NEW type, NEW e
  PROVE  Flows(p, type, e)
<1> DEFINE h == Head(toHub[c])
           moves == /\ link[p] # None /\ Peer(c) = link[p] /\ open[link[p]]
                    /\ Of(h, type, e)
<1>1. /\ pc[c] = "serve" /\ toHub[c] # <<>>
      /\ toHub[c] \in Seq(Frames) /\ h \in Frames
      /\ \A q \in Conns : toFar[q] \in Seq(Frames)
      /\ link[p] # None => link[p] \in Conns
  BY DEF Forward, SessionTypeOK
<1>2. /\ who' = who /\ link' = link
      /\ toHub'[c] = Tail(toHub[c])
      /\ \A d \in Conns \ {c} : toHub'[d] = toHub[d]
      /\ \A q \in Conns : toFar'[q] = IF q = Peer(c) /\ open[q]
                                        THEN Append(toFar[q], h) ELSE toFar[q]
  BY DEF Forward, Written, vars, SessionTypeOK
<1> HIDE DEF h
<1>3. /\ \A d \in Conns : Thins(toHub'[d], toHub[d], type, e)
      /\ Of(h, type, e) => /\ h.id \in Ids(toHub[c], type, e)
                           /\ Rising(toHub[c], type, e) =>
                                 \A n \in Ids(toHub'[c], type, e) : h.id < n
  BY <1>1, <1>2, ThinsTail, ThinsSame DEF h
<1>4. CASE ~moves
  <2>1. link[p] # None => Thins(toFar'[link[p]], toFar[link[p]], type, e)
    BY <1>1, <1>2, <1>4, ThinsOther, ThinsSame
  <2>2. Shortens(p, type, e)
    BY <1>2, <1>3, <2>1 DEF Shortens
  <2> QED BY <2>2, ShortensFlows
<1>5. CASE moves
  <2>1. who[c].kind = Opposite(p)
    BY <1>1, <1>5, PeerSide
  <2>2. SUFFICES ASSUME Lined(p, type, e) PROVE
             /\ Lined(p, type, e)'
             /\ Coming(p, type, e)' \subseteq Coming(p, type, e)
             /\ \A d \in Conns : Behind(p, d, type, e)' \subseteq
                                    Behind(p, d, type, e)
    BY DEF Flows
  <2>3. /\ h.id \in Behind(p, c, type, e)
        /\ \A d \in Conns \ {c} : Behind(p, d, type, e) = {}
        /\ \A m \in Ahead(p, type, e) : m < h.id
    BY <1>3, <1>5, <2>1, <2>2 DEF Behind, Lined
  <2>4. \A d \in Conns : Behind(p, d, type, e)' \subseteq Behind(p, d, type, e)
    BY <1>2, <1>3 DEF Behind, Thins
  <2>5. toFar'[link[p]] = Append(toFar[link[p]], h)
    BY <1>1, <1>2, <1>5
  <2>6. /\ Ahead(p, type, e) = Ids(toFar[link[p]], type, e)
        /\ Ids(toFar'[link[p]], type, e) = Ahead(p, type, e) \cup {h.id}
        /\ Rising(toFar'[link[p]], type, e)
    BY <1>1, <1>5, <2>2, <2>3, <2>5, IdsAppend DEF Ahead, Lined
  <2>7. Ahead(p, type, e)' = Ahead(p, type, e) \cup {h.id}
    BY <1>2, <1>5, <2>6 DEF Ahead
  <2>8. Coming(p, type, e)' \subseteq Coming(p, type, e)
    BY <2>3, <2>4, <2>7 DEF Coming
  <2>9. Lined(p, type, e)'
    <3>1. \A d \in Conns :
             (who[d].kind = Opposite(p) => Rising(toHub[d], type, e))'
      BY <1>2, <1>3, <2>2 DEF Lined, Thins
    <3>2. (link[p] # None => Rising(toFar[link[p]], type, e))'
      BY <1>2, <2>6
    <3>3. \A n \in Behind(p, c, type, e)' : h.id < n
      BY <1>2, <1>3, <1>5, <2>1, <2>2 DEF Behind, Lined
    <3>4. \A d \in Conns :
             \A m \in Ahead(p, type, e)', n \in Behind(p, d, type, e)' : m < n
      BY <2>2, <2>3, <2>4, <2>7, <3>3 DEF Lined
    <3>5. \A d, b \in Conns :
             d # b => \/ Behind(p, d, type, e)' = {}
                      \/ Behind(p, b, type, e)' = {}
      BY <2>3, <2>4
    <3> QED BY <3>1, <3>2, <3>4, <3>5 DEF Lined
  <2> QED BY <2>4, <2>8, <2>9
<1> QED BY <1>4, <1>5

-----------------------------------------------------------------------------
(* What the steps do to the wires.                                         *)

HubStep(c) == Hub(c) \/ Answer(c) \/ HubLosesLink(c)

\* A step of the hub other than forwarding writes notices and drops what is
\* left of a connection that is over.
LEMMA HubWires ==
  ASSUME SessionTypeOK, TypeOK, NEW c \in Conns, HubStep(c), ~Forward(c)
  PROVE  /\ \A q \in Conns :
               /\ who'[q] = who[q] \/ who'[q] = Nobody
               /\ toHub'[q] = toHub[q] \/ toHub'[q] = <<>>
               /\ \/ toFar'[q] = toFar[q]
                  \/ toFar'[q] = Append(toFar[q], Notice("up"))
                  \/ toFar'[q] = Append(toFar[q], Notice("down"))
         /\ link' = link
         /\ UNCHANGED ends
<1> USE DEF store, local, notices, history, wires
<1>1. \A q \in Conns : who'[q] = who[q] \/ who'[q] = Nobody
  <2>1. \/ who' = who
        \/ who' = [who EXCEPT ![c] = Nobody]
    BY DEF HubStep, Hub, Answer, HubLosesLink, HubQuiet, HubSwap, HubUpSelf,
           HubUpPeer, HubNotifyDown, HubHandshakeFails, Finish, Evict,
           ReadFails, GiveBack, Swap, UpSelf, UpPeer, NotifyDown,
           HandshakeFails, Auth, RemoteCloses
  <2> QED BY <2>1 DEF TypeOK
<1>2. /\ \/ toHub' = toHub
         \/ toHub' = Emptied(c, toHub)
      /\ \/ toFar' = toFar
         \/ \E q \in {c, Peer(c)} : \/ toFar' = Written(q, Notice("up"))
                                    \/ toFar' = Written(q, Notice("down"))
      /\ link' = link
      /\ UNCHANGED ends
  BY DEF HubStep, Hub, Answer, HubLosesLink, HubQuiet, HubSwap, HubUpSelf,
         HubUpPeer, HubNotifyDown, HubHandshakeFails
<1>3. \A q \in Conns : toHub'[q] = toHub[q] \/ toHub'[q] = <<>>
  BY <1>2 DEF Emptied, SessionTypeOK
<1>4. ASSUME NEW q \in Conns
      PROVE  \/ toFar'[q] = toFar[q]
             \/ toFar'[q] = Append(toFar[q], Notice("up"))
             \/ toFar'[q] = Append(toFar[q], Notice("down"))
  BY <1>2 DEF Written
<1> QED BY <1>1, <1>2, <1>3, <1>4

LEMMA HubShortens ==
  ASSUME SessionTypeOK, TypeOK, NEW c \in Conns, HubStep(c), ~Forward(c),
         NEW p \in Programs, NEW type \in {"hs", "req"}, NEW e
  PROVE  Shortens(p, type, e)
<1>1. ASSUME NEW q \in Conns
      PROVE  Thins(toFar'[q], toFar[q], type, e)
  <2>1. toFar[q] \in Seq(Frames)
    BY DEF SessionTypeOK
  <2>2. /\ ~Of(Notice("up"), type, e) /\ Notice("up") \in Frames
        /\ ~Of(Notice("down"), type, e) /\ Notice("down") \in Frames
    BY FrameRecords DEF Of, Notice
  <2> QED BY <2>1, <2>2, HubWires, ThinsOther, ThinsSame
<1>2. ASSUME NEW q \in Conns, who'[q].kind = Opposite(p)
      PROVE  \/ /\ who[q].kind = Opposite(p)
                /\ Thins(toHub'[q], toHub[q], type, e)
             \/ Ids(toHub'[q], type, e) = {}
  <2>1. who'[q] = who[q]
    BY <1>2, HubWires DEF Nobody, Opposite
  <2> QED BY <1>2, <2>1, HubWires, IdsEmpty, ThinsSame
<1>3. link[p] # None => link[p] \in Conns
  BY DEF SessionTypeOK
<1> QED BY <1>1, <1>2, <1>3, HubWires DEF Shortens

\* Connecting and leaving.
LEMMA LinkShortens ==
  ASSUME SessionTypeOK, TypeOK, NEW q \in Programs,
         \/ LinkLost(q)
         \/ \E c \in Conns, d \in Devices, id \in Creds \cup {None} :
                Dial(q, c, d, id),
         NEW p \in Programs, NEW type, NEW e
  PROVE  Shortens(p, type, e)
<1>1. CASE LinkLost(q)
  <2>1. /\ who' = who /\ toHub' = toHub
        /\ link' = [link EXCEPT ![q] = None]
        /\ toFar' = Emptied(link[q], toFar)
    BY <1>1 DEF LinkLost, Leave, vars
  <2>2. link'[p] # None => /\ link'[p] = link[p]
                           /\ link[p] \in Conns
                           /\ \/ toFar'[link[p]] = toFar[link[p]]
                              \/ toFar'[link[p]] = <<>>
    BY <2>1 DEF SessionTypeOK, Emptied
  <2> QED BY <2>1, <2>2, ThinsSame, IdsEmpty DEF Shortens
<1>2. ASSUME NEW c \in Conns, NEW d \in Devices, NEW id \in Creds \cup {None},
             Dial(q, c, d, id)
      PROVE  Shortens(p, type, e)
  <2>1. /\ \A x \in Conns \ {c} : who'[x] = who[x] /\ toHub'[x] = toHub[x]
        /\ toHub'[c] = <<>> /\ toFar'[c] = <<>>
        /\ \A x \in Conns \ {c} : toFar'[x] = toFar[x]
        /\ link' = [link EXCEPT ![q] = c]
    BY <1>2 DEF Dial, Hello, Emptied, SessionTypeOK, TypeOK
  <2>2. link'[p] = c \/ link'[p] = link[p]
    BY <2>1 DEF SessionTypeOK
  <2>3. link[p] # None => link[p] \in Conns
    BY DEF SessionTypeOK
  <2> QED BY <2>1, <2>2, <2>3, ThinsSame, IdsEmpty DEF Shortens
<1> QED BY <1>1, <1>2

\* Reading a frame.
LEMMA ReadThins ==
  ASSUME SessionTypeOK, NEW q \in Programs, NEW t, Incoming(q, t),
         NEW type, NEW e
  PROVE  \A d \in Conns : Thins(toFar'[d], toFar[d], type, e)
BY ThinsTail, ThinsSame DEF Incoming, Reads, SessionTypeOK

LEMMA ReadShortens ==
  ASSUME SessionTypeOK, UNCHANGED who, UNCHANGED link, UNCHANGED toHub,
         NEW p \in Programs, NEW type, NEW e,
         \A d \in Conns : Thins(toFar'[d], toFar[d], type, e)
  PROVE  Shortens(p, type, e)
BY ThinsSame DEF Shortens, SessionTypeOK

\* What program q writes joins the other side's line only.
LEMMA WriteShortens ==
  ASSUME SessionTypeOK, Linked, UNCHANGED who, UNCHANGED link,
         NEW p \in Programs, NEW type, NEW e,
         \A d \in Conns : Thins(toFar'[d], toFar[d], type, e),
         NEW q \in Programs, link[q] # None,
         \A d \in Conns \ {link[q]} : toHub'[d] = toHub[d],
         q = p \/ Thins(toHub'[link[q]], toHub[link[q]], type, e)
  PROVE  Shortens(p, type, e)
<1>1. link[p] # None => link[p] \in Conns
  BY DEF SessionTypeOK
<1>2. q = p => who[link[q]].kind # Opposite(p)
  BY DEF Linked, Opposite, Programs
<1>3. \A d \in Conns : who[d].kind = Opposite(p) =>
          Thins(toHub'[d], toHub[d], type, e)
  BY <1>2, ThinsSame
<1> QED BY <1>1, <1>3 DEF Shortens

\* One frame, or one behind another.
LEMMA SendsOne ==
  ASSUME SessionTypeOK, NEW q \in Programs, link[q] # None,
         NEW f \in Frames, Sends(q, <<f>>)
  PROVE  /\ link[q] \in Conns
         /\ toHub'[link[q]] = Append(toHub[link[q]], f)
         /\ \A d \in Conns \ {link[q]} : toHub'[d] = toHub[d]
<1>1. link[q] \in Conns /\ toHub[link[q]] \in Seq(Frames)
  BY DEF SessionTypeOK
<1>2. toHub[link[q]] \o <<f>> = Append(toHub[link[q]], f)
  BY <1>1
<1> QED BY <1>1, <1>2 DEF Sends, SessionTypeOK

LEMMA SendsTwo ==
  ASSUME SessionTypeOK, NEW q \in Programs, link[q] # None,
         NEW g \in Frames, NEW f \in Frames, Sends(q, Append(<<g>>, f))
  PROVE  /\ link[q] \in Conns
         /\ toHub'[link[q]] = Append(Append(toHub[link[q]], g), f)
         /\ \A d \in Conns \ {link[q]} : toHub'[d] = toHub[d]
<1>1. link[q] \in Conns /\ toHub[link[q]] \in Seq(Frames)
  BY DEF SessionTypeOK
<1>2. toHub[link[q]] \o Append(<<g>>, f) = Append(Append(toHub[link[q]], g), f)
  BY <1>1
<1> QED BY <1>1, <1>2 DEF Sends, SessionTypeOK

-----------------------------------------------------------------------------
(* The pump and the controller's books.                                    *)

\* The pump fails the first requests of its queue, and may send the next.
PumpSends(jobs, busy, s, frames, i) ==
    /\ busy = 0 /\ s # NoSession /\ link["client"] # None
    /\ call'[jobs[i]] = "sent"
    /\ cSession' = [s EXCEPT !.sendSeq = @ + 1]
    /\ Sends("client", Append(frames, Sealed("req", s, jobs[i])))

PumpMoves(jobs, calls) ==
    \A r \in Reqs : call'[r] # calls[r] =>
        /\ calls[r] = "queued"
        /\ \/ call'[r] = "sent"
           \/ /\ call'[r] = "rejected"
              /\ \E n \in DOMAIN jobs : \E i \in 1 .. n :
                    jobs[i] = r /\ call[jobs[n]] = "queued"

PumpWrites(jobs, busy, s, frames) ==
    \/ /\ cSession' = s
       /\ IF frames = <<>> THEN UNCHANGED toHub ELSE Sends("client", frames)
    \/ \E i \in DOMAIN jobs : PumpSends(jobs, busy, s, frames, i)

LEMMA PumpOutcome ==
  ASSUME SessionTypeOK, NEW jobs \in Seq(Reqs), NEW busy \in Reqs \cup {0},
         NEW s \in Sessions, NEW calls \in [Reqs -> Outcomes], NEW frames,
         Books(jobs, busy, calls), Pump(jobs, busy, s, calls, frames)
  PROVE  /\ Booked'
         /\ PumpMoves(jobs, calls)
         /\ PumpWrites(jobs, busy, s, frames)
<1>1. PICK n \in {m \in 0 .. Len(jobs) :
                    m > 0 => busy = 0 /\ call[jobs[m]] = "queued"} :
        LET rest   == SubSeq(jobs, n + 1, Len(jobs))
            failed == [r \in Reqs |-> IF \E i \in 1 .. n : jobs[i] = r
                                        THEN "rejected" ELSE calls[r]]
        IN  IF busy = 0 /\ rest # <<>> /\ s # NoSession /\ link["client"] # None
              THEN /\ queue' = Tail(rest)
                   /\ inflight' = Head(rest)
                   /\ call' = [failed EXCEPT ![Head(rest)] = "sent"]
                   /\ cSession' = [s EXCEPT !.sendSeq = @ + 1]
                   /\ Sends("client",
                            Append(frames, Sealed("req", s, Head(rest))))
              ELSE /\ queue' = rest
                   /\ inflight' = busy
                   /\ call' = failed
                   /\ cSession' = s
                   /\ IF frames = <<>> THEN UNCHANGED toHub
                                       ELSE Sends("client", frames)
  BY DEF Pump
<1> DEFINE rest   == SubSeq(jobs, n + 1, Len(jobs))
           failed == [r \in Reqs |-> IF \E i \in 1 .. n : jobs[i] = r
                                       THEN "rejected" ELSE calls[r]]
<1>2. /\ rest \in Seq(Reqs)
      /\ Len(rest) = Len(jobs) - n
      /\ \A i \in 1 .. Len(rest) : rest[i] = jobs[n + i]
  BY Rest
<1>3. /\ n \in 0 .. Len(jobs) /\ Len(jobs) \in Nat
      /\ n > 0 => n \in DOMAIN jobs /\ call[jobs[n]] = "queued"
      /\ \A i \in 1 .. n : i \in DOMAIN jobs
      /\ \A i \in DOMAIN jobs : jobs[i] \in Reqs /\ i \in Nat
      /\ \A i \in DOMAIN rest : /\ n + i \in DOMAIN jobs
                                /\ rest[i] = jobs[n + i]
                                /\ i \in Nat /\ n < n + i
      /\ \A i \in DOMAIN rest : rest[i] \in Reqs
  BY <1>2
<1>4. /\ failed \in [Reqs -> Outcomes]
      /\ \A r \in Reqs : failed[r] = IF \E i \in 1 .. n : jobs[i] = r
                                       THEN "rejected" ELSE calls[r]
  BY DEF Outcomes
<1>5. Reqs \subseteq Nat \ {0}
  BY DEF Reqs
<1>6. IF busy = 0 /\ rest # <<>> /\ s # NoSession /\ link["client"] # None
        THEN /\ queue' = Tail(rest)
             /\ inflight' = Head(rest)
             /\ call' = [failed EXCEPT ![Head(rest)] = "sent"]
             /\ cSession' = [s EXCEPT !.sendSeq = @ + 1]
             /\ Sends("client", Append(frames, Sealed("req", s, Head(rest))))
        ELSE /\ queue' = rest
             /\ inflight' = busy
             /\ call' = failed
             /\ cSession' = s
             /\ IF frames = <<>> THEN UNCHANGED toHub
                                 ELSE Sends("client", frames)
  BY <1>1
<1> HIDE DEF rest, failed
<1>7. \A i \in DOMAIN rest : failed[rest[i]] = "queued"
  <2> SUFFICES ASSUME NEW i \in DOMAIN rest PROVE failed[rest[i]] = "queued"
    OBVIOUS
  <2>1. calls[rest[i]] = "queued" /\ rest[i] \in Reqs
    BY <1>3 DEF Books
  <2>2. \A j \in 1 .. n : jobs[j] # rest[i]
    <3>1. ASSUME NEW j \in 1 .. n PROVE jobs[j] # rest[i]
      <4>1. j \in DOMAIN jobs /\ n + i \in DOMAIN jobs /\ j < n + i
        BY <1>3
      <4>2. jobs[j] < jobs[n + i]
        BY <4>1 DEF Books
      <4>3. jobs[j] \in Nat /\ rest[i] = jobs[n + i]
        BY <1>3, <1>5, <4>1
      <4> QED BY <4>2, <4>3
    <3> QED BY <3>1
  <2> QED BY <1>4, <2>1, <2>2
<1>8. Books(rest, busy, failed)
  <2>1. \A r \in Reqs : failed[r] = "sent" <=> busy = r
    <3>1. \A i \in DOMAIN jobs : calls[jobs[i]] = "queued"
      BY DEF Books
    <3> QED BY <1>3, <1>4, <3>1 DEF Books
  <2>2. \A i, j \in DOMAIN rest : i < j => rest[i] < rest[j]
    <3>1. ASSUME NEW i \in DOMAIN rest, NEW j \in DOMAIN rest, i < j
          PROVE  n + i < n + j
      BY <1>3, <3>1
    <3> QED BY <1>3, <3>1 DEF Books
  <2>3. \A i \in DOMAIN rest, r \in Reqs :
           failed[r] \in {"sent", "ok", "late"} => r < rest[i]
    BY <1>3, <1>4 DEF Books
  <2>4. \A r, q \in Reqs : failed[r] = "new" /\ failed[q] # "new" => q < r
    <3>1. \A r \in Reqs : failed[r] = "new" => calls[r] = "new"
      BY <1>4
    <3>2. \A q \in Reqs : failed[q] # "new" => calls[q] # "new"
      <4>1. \A i \in DOMAIN jobs : calls[jobs[i]] = "queued"
        BY DEF Books
      <4> QED BY <1>3, <1>4, <4>1
    <3> QED BY <3>1, <3>2 DEF Books
  <2> QED BY <1>7, <2>1, <2>2, <2>3, <2>4 DEF Books
<1>9. \A r \in Reqs : failed[r] # calls[r] =>
         /\ failed[r] = "rejected" /\ calls[r] = "queued"
         /\ \E m \in DOMAIN jobs : \E i \in 1 .. m :
               jobs[i] = r /\ call[jobs[m]] = "queued"
  <2> SUFFICES ASSUME NEW r \in Reqs, failed[r] # calls[r]
               PROVE  /\ failed[r] = "rejected" /\ calls[r] = "queued"
                      /\ \E m \in DOMAIN jobs : \E i \in 1 .. m :
                            jobs[i] = r /\ call[jobs[m]] = "queued"
    OBVIOUS
  <2>1. PICK i \in 1 .. n : jobs[i] = r
    BY <1>4
  <2>2. n \in DOMAIN jobs /\ call[jobs[n]] = "queued"
    BY <1>3, <2>1
  <2>3. calls[r] = "queued"
    BY <1>3, <2>1 DEF Books
  <2> QED BY <1>4, <2>1, <2>2, <2>3
<1>10. CASE busy = 0 /\ rest # <<>> /\ s # NoSession /\ link["client"] # None
  <2>1. /\ queue' = Tail(rest)
        /\ inflight' = Head(rest)
        /\ call' = [failed EXCEPT ![Head(rest)] = "sent"]
        /\ cSession' = [s EXCEPT !.sendSeq = @ + 1]
        /\ Sends("client", Append(frames, Sealed("req", s, Head(rest))))
    BY <1>6, <1>10
  <2> DEFINE h == Head(rest)  t == Tail(rest)
  <2>2. /\ 1 \in DOMAIN rest /\ h = rest[1] /\ h \in Reqs
        /\ \A i \in DOMAIN t : /\ i + 1 \in DOMAIN rest
                               /\ t[i] = rest[i + 1]
                               /\ 1 < i + 1 /\ i \in Nat
    BY <1>2, <1>10
  <2> HIDE DEF h, t
  <2>3. /\ queue' = t /\ inflight' = h
        /\ \A r \in Reqs : call'[r] = IF r = h THEN "sent" ELSE failed[r]
    BY <1>4, <2>1, <2>2 DEF h, t
  <2>4. \A i \in DOMAIN t : t[i] \in Reqs /\ h < t[i] /\ h # t[i]
    <3> SUFFICES ASSUME NEW i \in DOMAIN t
                 PROVE  t[i] \in Reqs /\ h < t[i] /\ h # t[i]
      OBVIOUS
    <3>1. rest[i + 1] \in Nat /\ rest[i + 1] \in Reqs
      BY <1>3, <1>5, <2>2
    <3>2. rest[1] < rest[i + 1]
      BY <1>8, <2>2 DEF Books
    <3> QED BY <2>2, <3>1, <3>2
  <2>5. Books(t, h, call')
    <3>1. \A r \in Reqs : call'[r] = "sent" <=> h = r
      BY <1>5, <1>8, <1>10, <2>3 DEF Books
    <3>2. \A i \in DOMAIN t : call'[t[i]] = "queued"
      BY <1>8, <2>2, <2>3, <2>4 DEF Books
    <3>3. \A i, j \in DOMAIN t : i < j => t[i] < t[j]
      <4>1. ASSUME NEW i \in DOMAIN t, NEW j \in DOMAIN t, i < j
            PROVE  t[i] < t[j]
        <5>1. i + 1 \in DOMAIN rest /\ j + 1 \in DOMAIN rest /\ i + 1 < j + 1
          BY <2>2, <4>1
        <5>2. rest[i + 1] < rest[j + 1]
          BY <1>8, <5>1 DEF Books
        <5> QED BY <2>2, <5>2
      <4> QED BY <4>1
    <3>4. \A i \in DOMAIN t, r \in Reqs :
             call'[r] \in {"sent", "ok", "late"} => r < t[i]
      <4> SUFFICES ASSUME NEW i \in DOMAIN t, NEW r \in Reqs, r # h,
                          failed[r] \in {"sent", "ok", "late"}
                   PROVE  r < t[i]
        BY <2>3, <2>4
      <4>1. r < rest[i + 1]
        BY <1>8, <2>2 DEF Books
      <4> QED BY <2>2, <4>1
    <3>5. \A r, q \in Reqs : call'[r] = "new" /\ call'[q] # "new" => q < r
      <4>1. failed[h] = "queued"
        BY <1>7, <2>2
      <4> QED BY <1>8, <2>2, <2>3, <4>1 DEF Books
    <3> QED BY <3>1, <3>2, <3>3, <3>4, <3>5 DEF Books
  <2>6. Booked'
    BY <2>3, <2>5 DEF Booked
  <2>7. /\ n + 1 \in DOMAIN jobs /\ jobs[n + 1] = h
    BY <1>3, <2>2
  <2>8. PumpSends(jobs, busy, s, frames, n + 1)
    BY <1>10, <2>1, <2>2, <2>3, <2>7 DEF PumpSends, h
  <2>10. PumpWrites(jobs, busy, s, frames)
    BY <2>7, <2>8 DEF PumpWrites
  <2>9. failed[h] = "queued" /\ calls[h] = "queued"
    <3>1. failed[h] = "queued"
      BY <1>7, <2>2
    <3>2. calls[jobs[n + 1]] = "queued"
      BY <2>7 DEF Books
    <3> QED BY <2>7, <3>1, <3>2
  <2>11. PumpMoves(jobs, calls)
    BY <1>9, <2>3, <2>9 DEF PumpMoves
  <2> QED BY <2>6, <2>10, <2>11
<1>11. CASE ~(busy = 0 /\ rest # <<>> /\ s # NoSession /\ link["client"] # None)
  <2>1. /\ queue' = rest
        /\ inflight' = busy
        /\ call' = failed
        /\ cSession' = s
        /\ IF frames = <<>> THEN UNCHANGED toHub ELSE Sends("client", frames)
    BY <1>6, <1>11
  <2>2. Booked'
    BY <1>8, <2>1 DEF Booked
  <2>3. PumpMoves(jobs, calls)
    BY <1>9, <2>1 DEF PumpMoves
  <2> QED BY <2>1, <2>2, <2>3 DEF PumpWrites
<1> QED BY <1>10, <1>11

\* What the controller has written and kept when the pump, run with session s
\* behind the frames fs, is done: a request that is newer than all that have
\* left before, or none.
Puts(s, fs) ==
    \/ /\ cSession' = s
       /\ IF fs = <<>> THEN UNCHANGED toHub ELSE Sends("client", fs)
    \/ \E r \in Reqs :
          /\ s # NoSession /\ link["client"] # None
          /\ call'[r] = "sent"
          /\ \A q \in Sent : q < r
          /\ cSession' = [s EXCEPT !.sendSeq = @ + 1]
          /\ Sends("client", Append(fs, Sealed("req", s, r)))

Pumped(s) == \E fs \in {<<>>, <<Handshake(kp)>>} : Puts(s, fs)

\* A request moves as Calls allows, and is answered if it was carried out.
Moved ==
    \A r \in Reqs : call'[r] # call[r] =>
        /\ <<call[r], call'[r]>> \in C!Moves
        /\ call'[r] = "ok" => r \in Range(ran)

LEMMA PumpDone ==
  ASSUME SessionTypeOK, NEW jobs \in Seq(Reqs), NEW busy \in Reqs \cup {0},
         NEW s \in Sessions, NEW calls \in [Reqs -> Outcomes],
         NEW frames \in {<<>>, <<Handshake(kp)>>},
         Books(jobs, busy, calls), Pump(jobs, busy, s, calls, frames),
         \A q \in Sent : calls[q] \in {"sent", "ok", "late"}
  PROVE  Booked' /\ PumpMoves(jobs, calls) /\ Puts(s, frames)
<1>1. Booked' /\ PumpMoves(jobs, calls) /\ PumpWrites(jobs, busy, s, frames)
  BY PumpOutcome
<1>2. CASE /\ cSession' = s
           /\ IF frames = <<>> THEN UNCHANGED toHub
                               ELSE Sends("client", frames)
  BY <1>1, <1>2 DEF Puts
<1>3. ASSUME NEW i \in DOMAIN jobs, PumpSends(jobs, busy, s, frames, i)
      PROVE  Puts(s, frames)
  <2>1. jobs[i] \in Reqs
    OBVIOUS
  <2>2. \A q \in Sent : q < jobs[i]
    BY DEF Books, Sent
  <2> QED BY <1>3, <2>1, <2>2 DEF PumpSends, Puts
<1> QED BY <1>1, <1>2, <1>3 DEF PumpWrites

LEMMA HandshakePumps ==
  ASSUME SessionTypeOK, Booked, ControllerHandshake
  PROVE  /\ Booked' /\ Moved
         /\ Puts(NewSession(kp, First("client").key),
                 IF sentHs THEN <<>> ELSE <<Handshake(kp)>>)
<1> DEFINE s == NewSession(kp, First("client").key)
           frames == IF sentHs THEN <<>> ELSE <<Handshake(kp)>>
<1>1. First("client") \in Frames
  BY IncomingTyped DEF ControllerHandshake, Incoming, Programs
<1>2. /\ s \in Sessions
      /\ queue \in Seq(Reqs) /\ inflight \in Reqs \cup {0}
      /\ call \in [Reqs -> Outcomes]
      /\ frames \in {<<>>, <<Handshake(kp)>>}
  BY <1>1, SessionRecords DEF SessionTypeOK, Outcomes, Frames
<1>3. /\ Books(queue, inflight, call)
      /\ Pump(queue, inflight, s, call, frames)
      /\ \A q \in Sent : call[q] \in {"sent", "ok", "late"}
  BY DEF Booked, ControllerHandshake, Sent
<1> HIDE DEF s, frames
<1>4. Booked' /\ PumpMoves(queue, call) /\ Puts(s, frames)
  BY <1>2, <1>3, PumpDone
<1>5. \A r \in Reqs : call'[r] # call[r] =>
         call[r] = "queued" /\ call'[r] \in {"sent", "rejected"}
  BY <1>4 DEF PumpMoves
<1> QED BY <1>4, <1>5 DEF Moved, C!Moves, s, frames

\* The session it pumps with is the one it had, or has moved its window to
\* the frame it opened.
Repumped ==
    LET f == First("client") IN
    \E s \in Sessions :
        /\ Puts(s, <<>>)
        /\ s.key = cSession.key /\ s.sendSeq = cSession.sendSeq
        /\ s # NoSession => cSession # NoSession
        /\ \/ s.lastRecvSeq = cSession.lastRecvSeq
           \/ Opens(cSession, f) /\ s.lastRecvSeq = f.seq

LEMMA AnswerPumps ==
  ASSUME SessionTypeOK, Booked, Traced, ControllerAnswer
  PROVE  Booked' /\ Moved /\ Repumped
<1> DEFINE f == First("client")
           s == [cSession EXCEPT !.lastRecvSeq = f.seq]
           calls == [call EXCEPT ![f.id] = "ok"]
<1>1. /\ f \in Frames /\ f.type = "resp"
      /\ link["client"] \in Conns
      /\ toFar[link["client"]] # <<>>
      /\ toFar[link["client"]] \in Seq(Frames)
  BY IncomingTyped DEF ControllerAnswer, Incoming, Reads, Programs
<1>2. f.id \in Reqs /\ f.seq \in Nat
  BY <1>1 DEF Frames
<1>3. f.id \in Range(ran)
  <2>1. f \in Range(toFar[link["client"]])
    BY <1>1 DEF First, Range
  <2> QED BY <1>1, <2>1 DEF Traced, Genuine
<1>4. CASE Opens(cSession, f) /\ f.id = inflight
  <2>1. /\ Pump(queue, 0, s, calls, <<>>)
        /\ cSession # NoSession
    BY <1>4 DEF ControllerAnswer, Opens
  <2>2. /\ queue \in Seq(Reqs) /\ 0 \in Reqs \cup {0}
        /\ call \in [Reqs -> Outcomes]
        /\ calls \in [Reqs -> Outcomes]
        /\ \A r \in Reqs : calls[r] = IF r = f.id THEN "ok" ELSE call[r]
        /\ s \in Sessions
    BY <1>2, SessionRecords DEF SessionTypeOK, Outcomes
  <2> HIDE DEF f, s, calls
  <2>3. call[f.id] = "sent"
    BY <1>2, <1>4 DEF Booked, Books
  <2>4. Books(queue, 0, calls)
    <3>1. \A r \in Reqs : calls[r] = "sent" <=> 0 = r
      BY <1>4, <2>2 DEF Booked, Books, Reqs
    <3>2. \A i \in DOMAIN queue : queue[i] \in Reqs
      BY <2>2
    <3> QED BY <2>2, <2>3, <3>1, <3>2 DEF Booked, Books
  <2>5. \A q \in Sent : calls[q] \in {"sent", "ok", "late"}
    BY <2>2 DEF Sent
  <2>6. Booked' /\ PumpMoves(queue, calls) /\ Puts(s, <<>>)
    BY <2>1, <2>2, <2>4, <2>5, PumpDone
  <2>7. \A r \in Reqs : call'[r] # calls[r] =>
           calls[r] = "queued" /\ call'[r] \in {"sent", "rejected"}
    BY <2>6 DEF PumpMoves
  <2>8. Moved
    BY <1>3, <2>2, <2>3, <2>7 DEF Moved, C!Moves
  <2>9. /\ s.key = cSession.key /\ s.sendSeq = cSession.sendSeq
        /\ s.lastRecvSeq = f.seq
    BY DEF s, Sessions, SessionTypeOK
  <2> QED BY <1>4, <2>1, <2>2, <2>6, <2>8, <2>9 DEF Repumped, f
<1>5. CASE ~(Opens(cSession, f) /\ f.id = inflight)
  <2>1. /\ \/ cSession' = cSession
           \/ cSession' = s /\ cSession # NoSession /\ Opens(cSession, f)
        /\ UNCHANGED <<callEnd, toHub>>
    BY <1>5 DEF ControllerAnswer, Opens
  <2>2. Booked' /\ Moved
    BY <2>1 DEF callEnd, Booked, Moved
  <2>3. s \in Sessions /\ cSession \in Sessions
    BY <1>2, SessionRecords DEF SessionTypeOK
  <2>4. /\ s.key = cSession.key /\ s.sendSeq = cSession.sendSeq
        /\ s.lastRecvSeq = f.seq
    BY <2>3 DEF Sessions
  <2>5. Puts(cSession', <<>>)
    BY <2>1 DEF Puts
  <2> HIDE DEF f, s
  <2> QED BY <2>1, <2>2, <2>3, <2>4, <2>5 DEF Repumped, f
<1> QED BY <1>4, <1>5

LEMMA CallerPumps ==
  ASSUME SessionTypeOK, Booked, (\E r \in Reqs : Issue(r)) \/ PumpTimer \/ Timeout
  PROVE  Booked' /\ Moved /\ Puts(cSession, <<>>)
<1>1. /\ queue \in Seq(Reqs) /\ inflight \in Reqs \cup {0}
      /\ call \in [Reqs -> Outcomes] /\ cSession \in Sessions
      /\ \A i \in DOMAIN queue : queue[i] \in Reqs
      /\ \A q \in Sent : q \in Reqs /\ call[q] \in {"sent", "ok", "late"}
      /\ Books(queue, inflight, call)
  BY DEF SessionTypeOK, Outcomes, Sent, Booked
<1>2. ASSUME NEW r \in Reqs, Issue(r)
      PROVE  Booked' /\ Moved /\ Puts(cSession, <<>>)
  <2> DEFINE jobs == Append(queue, r)
             calls == [call EXCEPT ![r] = "queued"]
  <2>1. /\ call[r] = "new" /\ \A q \in 1 .. r - 1 : call[q] # "new"
        /\ Pump(jobs, inflight, cSession, calls, <<>>)
    BY <1>2 DEF Issue
  <2>2. /\ jobs \in Seq(Reqs)
        /\ calls \in [Reqs -> Outcomes]
        /\ \A q \in Reqs : calls[q] = IF q = r THEN "queued" ELSE call[q]
        /\ DOMAIN jobs = DOMAIN queue \cup {Len(queue) + 1}
        /\ \A i \in DOMAIN queue : /\ jobs[i] = queue[i] /\ i \in Nat
                                   /\ i < Len(queue) + 1
        /\ jobs[Len(queue) + 1] = r /\ Len(queue) \in Nat
    BY <1>1 DEF Outcomes
  <2> HIDE DEF jobs, calls
  <2>3. /\ \A i \in DOMAIN queue : queue[i] < r /\ queue[i] # r
        /\ \A q \in Reqs : call[q] # "new" => q < r
    BY <1>1, <2>1 DEF Books
  <2>4. Books(jobs, inflight, calls)
    <3>1. \A q \in Reqs : calls[q] = "sent" <=> inflight = q
      BY <1>1, <2>1, <2>2 DEF Books
    <3>2. \A i \in DOMAIN jobs : calls[jobs[i]] = "queued"
      BY <1>1, <2>2 DEF Books
    <3>3. \A i, j \in DOMAIN jobs : i < j => jobs[i] < jobs[j]
      <4> SUFFICES ASSUME NEW i \in DOMAIN jobs, NEW j \in DOMAIN jobs, i < j
                   PROVE  jobs[i] < jobs[j]
        OBVIOUS
      <4>1. i \in DOMAIN queue
        BY <2>2
      <4>2. CASE j \in DOMAIN queue
        BY <1>1, <2>2, <4>1, <4>2 DEF Books
      <4>3. CASE j = Len(queue) + 1
        BY <2>2, <2>3, <4>1, <4>3
      <4> QED BY <2>2, <4>2, <4>3
    <3>4. \A i \in DOMAIN jobs, q \in Reqs :
             calls[q] \in {"sent", "ok", "late"} => q < jobs[i]
      BY <1>1, <2>1, <2>2, <2>3 DEF Books
    <3>5. \A p, q \in Reqs : calls[p] = "new" /\ calls[q] # "new" => q < p
      <4> SUFFICES ASSUME NEW p \in Reqs, NEW q \in Reqs,
                          calls[p] = "new", calls[q] # "new"
                   PROVE  q < p
        OBVIOUS
      <4>1. call[p] = "new" /\ p # r
        BY <2>2
      <4>2. CASE q = r
        BY <2>1, <4>1, <4>2 DEF Reqs
      <4>3. CASE q # r
        BY <1>1, <2>2, <4>1, <4>3 DEF Books
      <4> QED BY <4>2, <4>3
    <3> QED BY <3>1, <3>2, <3>3, <3>4, <3>5 DEF Books
  <2>5. \A q \in Sent : calls[q] \in {"sent", "ok", "late"}
    BY <1>1, <2>1, <2>2
  <2>6. Booked' /\ PumpMoves(jobs, calls) /\ Puts(cSession, <<>>)
    BY <1>1, <2>1, <2>2, <2>4, <2>5, PumpDone
  <2>7. \A q \in Reqs : call'[q] # calls[q] =>
           /\ calls[q] = "queued"
           /\ \/ call'[q] = "sent"
              \/ /\ call'[q] = "rejected"
                 /\ \E n \in DOMAIN jobs : \E i \in 1 .. n :
                       jobs[i] = q /\ call[jobs[n]] = "queued"
    BY <2>6 DEF PumpMoves
  <2>8. call'[r] # "rejected"
    <3> SUFFICES ASSUME call'[r] = "rejected" PROVE FALSE
      OBVIOUS
    <3>1. PICK n \in DOMAIN jobs : \E i \in 1 .. n :
             jobs[i] = r /\ call[jobs[n]] = "queued"
      BY <2>2, <2>7
    <3>2. PICK i \in 1 .. n : jobs[i] = r
      BY <3>1
    <3>3. n \in DOMAIN queue
      BY <2>1, <2>2, <3>1
    <3>4. i \in DOMAIN queue
      BY <1>1, <3>3
    <3> QED BY <2>2, <2>3, <3>2, <3>4
  <2>9. Moved
    <3> SUFFICES ASSUME NEW q \in Reqs, call'[q] # call[q]
                 PROVE  /\ <<call[q], call'[q]>> \in C!Moves
                        /\ call'[q] # "ok"
      BY DEF Moved
    <3>1. CASE q = r
      <4>1. call'[q] \in {"queued", "sent"}
        BY <2>2, <2>7, <2>8, <3>1
      <4> QED BY <2>1, <3>1, <4>1 DEF C!Moves
    <3>2. CASE q # r
      <4>1. call[q] = "queued" /\ call'[q] \in {"sent", "rejected"}
        BY <2>2, <2>7, <3>2
      <4> QED BY <4>1 DEF C!Moves
    <3> QED BY <3>1, <3>2
  <2> QED BY <2>6, <2>9
<1>3. CASE PumpTimer
  <2>1. Pump(queue, 0, cSession, call, <<>>) /\ inflight = 0
    BY <1>3 DEF PumpTimer
  <2>2. Booked' /\ PumpMoves(queue, call) /\ Puts(cSession, <<>>)
    BY <1>1, <2>1, PumpDone
  <2>3. \A r \in Reqs : call'[r] # call[r] =>
           call[r] = "queued" /\ call'[r] \in {"sent", "rejected"}
    BY <2>2 DEF PumpMoves
  <2> QED BY <2>2, <2>3 DEF Moved, C!Moves
<1>4. CASE Timeout
  <2> DEFINE calls == [call EXCEPT ![inflight] = "late"]
  <2>1. Pump(queue, 0, cSession, calls, <<>>) /\ inflight \in Reqs
    BY <1>1, <1>4 DEF Timeout
  <2>2. /\ calls \in [Reqs -> Outcomes]
        /\ \A r \in Reqs : calls[r] = IF r = inflight THEN "late" ELSE call[r]
        /\ call[inflight] = "sent"
    BY <1>1, <2>1 DEF Outcomes, Books
  <2> HIDE DEF calls
  <2>3. Books(queue, 0, calls)
    <3>1. \A r \in Reqs : calls[r] = "sent" <=> 0 = r
      BY <1>1, <2>2 DEF Books, Reqs
    <3> QED BY <1>1, <2>1, <2>2, <3>1 DEF Books
  <2>4. \A q \in Sent : calls[q] \in {"sent", "ok", "late"}
    BY <1>1, <2>2 DEF Sent
  <2>5. Booked' /\ PumpMoves(queue, calls) /\ Puts(cSession, <<>>)
    BY <1>1, <2>1, <2>2, <2>3, <2>4, PumpDone
  <2>6. \A r \in Reqs : call'[r] # calls[r] =>
           calls[r] = "queued" /\ call'[r] \in {"sent", "rejected"}
    BY <2>5 DEF PumpMoves
  <2>7. Moved
    BY <2>2, <2>6 DEF Moved, C!Moves
  <2> QED BY <2>5, <2>7
<1> QED BY <1>2, <1>3, <1>4

-----------------------------------------------------------------------------
(* Steps of which no frame of the two lines comes.                         *)

LEMMA Steady ==
  ASSUME SessionTypeOK, Epochs, Announced, InOrder, UNCHANGED ephem,
         \A e \in Nat : Flows("client", "hs", e) /\ Flows("agent", "req", e),
         aSession' # NoSession => aSession'.key[2] = ephem,
         cSession' # NoSession => /\ cSession # NoSession
                                  /\ cSession'.key = cSession.key
                                  /\ link'["client"] = link["client"]
  PROVE  /\ Epochs' /\ Announced'
         /\ UNCHANGED ran => InOrder'
<1> PICK e \in Nat : e = ephem
  BY DEF SessionTypeOK
<1>1. /\ Lined("client", "hs", e) /\ Lined("agent", "req", e)
      /\ Flows("client", "hs", e) /\ Flows("agent", "req", e)
  BY DEF Announced, InOrder
<1>2. /\ Lined("client", "hs", e)' /\ Lined("agent", "req", e)'
      /\ Coming("client", "hs", e)' \subseteq Coming("client", "hs", e)
      /\ Coming("agent", "req", e)' \subseteq Coming("agent", "req", e)
      /\ \A c \in Conns : Behind("agent", c, "req", e)' \subseteq
                              Behind("agent", c, "req", e)
  BY <1>1 DEF Flows
<1>3. Announced'
  BY <1>2 DEF Announced
<1>4. \A n \in Nat : n > ephem => Coming("client", "hs", n)' = {}
  BY LinedNone DEF Epochs, Flows
<1>5. Epochs'
  BY <1>4 DEF Epochs
<1>6. UNCHANGED ran => InOrder'
  BY <1>2 DEF InOrder
<1> QED BY <1>3, <1>5, <1>6

LEMMA RangeParts ==
  ASSUME NEW S, NEW s \in Seq(S)
  PROVE  /\ \A f \in S : Range(Append(s, f)) = Range(s) \cup {f}
         /\ s # <<>> => /\ Range(Tail(s)) \subseteq Range(s)
                        /\ Head(s) \in Range(s)
         /\ Range(<<>>) = {}
<1>1. ASSUME NEW f \in S
      PROVE  Range(Append(s, f)) = Range(s) \cup {f}
  BY AppendParts DEF Range
<1>2. ASSUME s # <<>>
      PROVE  Range(Tail(s)) \subseteq Range(s) /\ Head(s) \in Range(s)
  BY <1>2 DEF Range
<1>3. Range(<<>>) = {}
  BY DEF Range
<1> QED BY <1>1, <1>2, <1>3

LEMMA FrameRange ==
  ASSUME NEW s \in Seq(Frames)
  PROVE  /\ \A f \in Frames : Range(Append(s, f)) = Range(s) \cup {f}
         /\ s # <<>> => /\ Range(Tail(s)) \subseteq Range(s)
                        /\ Head(s) \in Range(s)
         /\ Range(<<>>) = {}
BY RangeParts

\* A frame on a wire was on one, or is a genuine one.
Renews ==
    \A c \in Conns :
        /\ \A f \in Range(toHub'[c]) :
              Genuine(f)' \/ \E d \in Conns : f \in Range(toHub[d])
        /\ \A f \in Range(toFar'[c]) :
              Genuine(f)' \/ \E d \in Conns :
                                f \in Range(toHub[d]) \cup Range(toFar[d])

\* Frames are traced when the new ones are genuine.
LEMMA TracedKeeps ==
  ASSUME SessionTypeOK, Traced, ephem' \in Nat, ephem <= ephem', Moved,
         Renews,
         ran' = ran \/ \E r \in Sent : ran' = Append(ran, r)
  PROVE  Traced'
<1>1. Sent \subseteq Sent'
  BY DEF Moved, C!Moves, Sent
<1>2. /\ Range(ran) \subseteq Range(ran')
      /\ Range(ran') \subseteq Range(ran) \cup Sent
  <2>1. ran \in Seq(Reqs) /\ Sent \subseteq Reqs
    BY DEF SessionTypeOK, Sent
  <2>2. ASSUME NEW r \in Sent, ran' = Append(ran, r)
        PROVE  Range(ran') = Range(ran) \cup {r}
    BY <2>1, <2>2, RangeParts
  <2> QED BY <2>2
<1>3. ASSUME NEW d \in Conns, NEW f \in Range(toHub[d]) \cup Range(toFar[d])
      PROVE  Genuine(f)'
  <2>1. f \in Frames
    BY DEF SessionTypeOK, Range
  <2>2. f.type = "req" => Epoch(f) \in Nat
    BY <2>1 DEF Epoch, Frames
  <2>3. Genuine(f)
    BY <1>3 DEF Traced
  <2>4. ephem \in Nat
    BY DEF SessionTypeOK
  <2> QED BY <1>1, <1>2, <2>2, <2>3, <2>4 DEF Genuine
<1>4. \A c \in Conns :
         \A f \in Range(toHub'[c]) \cup Range(toFar'[c]) : Genuine(f)'
  BY <1>3 DEF Renews
<1>5. Range(ran') \subseteq Sent'
  BY <1>1, <1>2 DEF Traced
<1>6. \A r \in Reqs : call'[r] = "ok" => r \in Range(ran')
  BY <1>2 DEF Traced, Moved
<1> QED BY <1>4, <1>5, <1>6 DEF Traced

LEMMA StayPut ==
  ASSUME UNCHANGED call
  PROVE  Moved
BY DEF Moved

CallBase == Typed /\ SeatInv /\ SessionTypeOK

LEMMA CallHub ==
  ASSUME CallBase, CallInv, NEW c \in Conns, HubStep(c)
  PROVE  CallInv'
<1> USE DEF CallBase, CallInv
<1>1. TypeOK /\ NoGhost
  BY DEF Typed, SeatInv
<1>2. /\ UNCHANGED ends /\ UNCHANGED link
      /\ \A q \in Conns : who'[q] = who[q] \/ who'[q] = Nobody
  <2>1. CASE Forward(c)
    BY <2>1 DEF Forward, vars
  <2> QED BY <1>1, <2>1, HubWires
<1>3. /\ UNCHANGED <<ephem, aSession, cSession, queue, inflight, call, ran>>
  BY <1>2 DEF ends, agentEnd, keyEnd, callEnd
<1>4. Linked'
  <2>1. \A q \in Programs : link[q] # None => link[q] \in Conns
    BY DEF SessionTypeOK
  <2> QED BY <1>2, <2>1 DEF Linked, Nobody
<1>5. Booked' /\ Moved
  BY <1>3 DEF Booked, Moved
<1>6. \A p \in Programs, type \in {"hs", "req"}, e \in Nat : Flows(p, type, e)
  BY <1>1, ForwardFlows, HubShortens, ShortensFlows
<1>7. Epochs' /\ Announced' /\ InOrder'
  <2>1. \A e \in Nat : Flows("client", "hs", e) /\ Flows("agent", "req", e)
    BY <1>6 DEF Programs
  <2> QED BY <1>2, <1>3, <2>1, Steady DEF Epochs
<1>8. Traced'
  <2>1. CASE Forward(c)
    <3>1. /\ toHub[c] \in Seq(Frames) /\ toHub[c] # <<>>
          /\ \A q \in Conns : toFar[q] \in Seq(Frames)
          /\ Head(toHub[c]) \in Frames
      BY <2>1 DEF Forward, SessionTypeOK
    <3>2. \A q \in Conns : Range(toHub'[q]) \subseteq Range(toHub[q])
      BY <2>1, <3>1, FrameRange DEF Forward, SessionTypeOK
    <3>3. \A q \in Conns : \/ toFar'[q] = toFar[q]
                           \/ toFar'[q] = Append(toFar[q], Head(toHub[c]))
      BY <2>1 DEF Forward, Written
    <3>4. \A q \in Conns : Range(toFar'[q]) \subseteq
                              Range(toFar[q]) \cup Range(toHub[c])
      <4>1. Head(toHub[c]) \in Range(toHub[c])
        BY <3>1, FrameRange
      <4>2. ASSUME NEW q \in Conns, toFar'[q] = Append(toFar[q], Head(toHub[c]))
            PROVE  Range(toFar'[q]) \subseteq Range(toFar[q]) \cup Range(toHub[c])
        <5>1. Range(toFar'[q]) = Range(toFar[q]) \cup {Head(toHub[c])}
          BY <3>1, <4>2, FrameRange
        <5> QED BY <4>1, <5>1
      <4>3. ASSUME NEW q \in Conns, toFar'[q] = toFar[q]
            PROVE  Range(toFar'[q]) \subseteq Range(toFar[q]) \cup Range(toHub[c])
        BY <4>3
      <4> QED BY <3>3, <4>2, <4>3
    <3>5. ephem' \in Nat /\ ephem <= ephem'
      BY <1>3 DEF SessionTypeOK
    <3>6. Renews
      BY <3>2, <3>4 DEF Renews
    <3> QED BY <1>3, <1>5, <3>5, <3>6, TracedKeeps
  <2>2. CASE ~Forward(c)
    <3>1. \A q \in Conns : toHub[q] \in Seq(Frames) /\ toFar[q] \in Seq(Frames)
      BY DEF SessionTypeOK
    <3>2. \A q \in Conns : Range(toHub'[q]) \subseteq Range(toHub[q])
      BY <1>1, <2>2, <3>1, HubWires, FrameRange
    <3>3. \A q \in Conns :
             Range(toFar'[q]) \subseteq
                 Range(toFar[q]) \cup {Notice("up"), Notice("down")}
      <4>1. ASSUME NEW q \in Conns
            PROVE  \/ toFar'[q] = toFar[q]
                   \/ toFar'[q] = Append(toFar[q], Notice("up"))
                   \/ toFar'[q] = Append(toFar[q], Notice("down"))
        BY <1>1, <2>2, HubWires
      <4>2. ASSUME NEW q \in Conns,
                   NEW f \in {Notice("up"), Notice("down")},
                   toFar'[q] = Append(toFar[q], f)
            PROVE  Range(toFar'[q]) = Range(toFar[q]) \cup {f}
        <5>1. f \in Frames
          BY FrameRecords
        <5> QED BY <3>1, <4>2, <5>1, FrameRange
      <4> QED BY <4>1, <4>2
    <3>4. Genuine(Notice("up"))' /\ Genuine(Notice("down"))'
      BY DEF Genuine, Notice
    <3>5. ephem' \in Nat /\ ephem <= ephem'
      BY <1>3 DEF SessionTypeOK
    <3>6. Renews
      BY <3>2, <3>3, <3>4 DEF Renews
    <3> QED BY <1>3, <1>5, <3>5, <3>6, TracedKeeps
  <2> QED BY <2>1, <2>2
<1> QED BY <1>4, <1>5, <1>7, <1>8

LEMMA CallLink ==
  ASSUME CallBase, CallInv, NEW q \in Programs,
         \/ LinkLost(q)
         \/ \E c \in Conns, d \in Devices, id \in Creds \cup {None} :
                Dial(q, c, d, id)
  PROVE  CallInv'
<1> USE DEF CallBase, CallInv
<1>1. TypeOK
  BY DEF Typed
<1>2. /\ UNCHANGED <<ephem, aSession, queue, inflight, call, ran>>
      /\ cSession' = cSession \/ cSession' = NoSession
      /\ LinkLost("client") => cSession' = NoSession
  BY DEF LinkLost, Leave, Dial, ends, agentEnd, keyEnd, callEnd
<1>3. Linked'
  <2>1. CASE LinkLost(q)
    BY <2>1 DEF LinkLost, Leave, Linked, vars, SessionTypeOK, Programs
  <2>2. ASSUME NEW c \in Conns, NEW d \in Devices, NEW id \in Creds \cup {None},
               Dial(q, c, d, id)
        PROVE  Linked'
    <3>1. /\ who' = [who EXCEPT ![c] = [kind |-> q, dev |-> d, id |-> id]]
          /\ link' = [link EXCEPT ![q] = c]
          /\ \A p \in Programs : link[p] # c
      BY <2>2 DEF Dial, Hello
    <3>2. /\ \A x \in Conns \ {c} : who'[x] = who[x]
          /\ who'[c].kind = q
          /\ link'[q] = c
          /\ \A p \in Programs \ {q} : link'[p] = link[p]
      BY <1>1, <3>1 DEF TypeOK, SessionTypeOK
    <3>3. \A p \in Programs : link[p] # None => link[p] \in Conns
      BY DEF SessionTypeOK
    <3>4. /\ \A x \in Conns : who'[x].kind \in Programs \cup {"none"}
          /\ \A p \in Programs :
                link'[p] # None => who'[link'[p]].kind \in {p, "none"}
      BY <3>1, <3>2, <3>3 DEF Linked
    <3>5. link'["agent"] = link'["client"] => link'["agent"] = None
      BY <3>1, <3>2 DEF Linked, Programs
    <3> QED BY <3>4, <3>5 DEF Linked
  <2> QED BY <2>1, <2>2
<1>4. Booked' /\ Moved
  BY <1>2 DEF Booked, Moved
<1>5. \A e \in Nat : Flows("client", "hs", e) /\ Flows("agent", "req", e)
  BY <1>1, LinkShortens, ShortensFlows DEF Programs
<1>6. cSession' # NoSession => link'["client"] = link["client"]
  <2>1. ASSUME cSession' # NoSession PROVE link'["client"] = link["client"]
    <3>1. cSession # NoSession /\ link["client"] # None
      BY <1>2, <2>1 DEF Epochs
    <3>2. q # "client"
      BY <1>2, <2>1, <3>1 DEF Dial
    <3> QED BY <3>2 DEF LinkLost, Leave, Dial, SessionTypeOK, Programs
  <2> QED BY <2>1
<1>7. Epochs' /\ Announced' /\ InOrder'
  BY <1>2, <1>5, <1>6, Steady DEF Epochs
<1>8. Traced'
  <2>1. \A c \in Conns : toHub[c] \in Seq(Frames) /\ toFar[c] \in Seq(Frames)
    BY DEF SessionTypeOK
  <2>2. \A c \in Conns : /\ toHub'[c] = toHub[c] \/ toHub'[c] = <<>>
                         /\ toFar'[c] = toFar[c] \/ toFar'[c] = <<>>
    BY DEF LinkLost, Leave, Dial, Emptied, SessionTypeOK
  <2>3. \A c \in Conns : /\ Range(toHub'[c]) \subseteq Range(toHub[c])
                         /\ Range(toFar'[c]) \subseteq Range(toFar[c])
    BY <2>1, <2>2, FrameRange
  <2>4. ephem' \in Nat /\ ephem <= ephem'
    BY <1>2 DEF SessionTypeOK
  <2>5. Renews
    BY <2>3 DEF Renews
  <2> QED BY <1>2, <1>4, <2>4, <2>5, TracedKeeps
<1> QED BY <1>3, <1>4, <1>7, <1>8

-----------------------------------------------------------------------------
(* The agent's steps.                                                      *)

LEMMA LinkedKeeps ==
  ASSUME Linked, UNCHANGED who, UNCHANGED link
  PROVE  Linked'
BY DEF Linked

\* What a program reads is off the wire, what it writes is on it.
LEMMA ReadRenews ==
  ASSUME SessionTypeOK, NEW q \in Programs, NEW t, Incoming(q, t)
  PROVE  \A d \in Conns : Range(toFar'[d]) \subseteq Range(toFar[d])
<1>1. link[q] \in Conns /\ toFar[link[q]] \in Seq(Frames)
  BY IncomingTyped DEF Incoming
<1>2. /\ toFar'[link[q]] = Tail(toFar[link[q]])
      /\ \A d \in Conns \ {link[q]} : toFar'[d] = toFar[d]
  BY <1>1 DEF Incoming, SessionTypeOK
<1>3. Range(toFar'[link[q]]) \subseteq Range(toFar[link[q]])
  BY <1>1, <1>2, FrameRange DEF Incoming, Reads
<1> QED BY <1>2, <1>3

LEMMA SendRenews ==
  ASSUME SessionTypeOK, NEW q \in Programs, link[q] # None,
         NEW f \in Frames, Sends(q, <<f>>), Genuine(f)',
         \A d \in Conns : Range(toFar'[d]) \subseteq Range(toFar[d])
  PROVE  Renews
<1>1. /\ link[q] \in Conns
      /\ toHub'[link[q]] = Append(toHub[link[q]], f)
      /\ \A d \in Conns \ {link[q]} : toHub'[d] = toHub[d]
      /\ toHub[link[q]] \in Seq(Frames)
  BY SendsOne DEF SessionTypeOK
<1>2. Range(toHub'[link[q]]) = Range(toHub[link[q]]) \cup {f}
  BY <1>1, FrameRange
<1> QED BY <1>1, <1>2 DEF Renews

\* No request is sealed for a key the agent has not had.
LEMMA NoneLater ==
  ASSUME SessionTypeOK, Traced, NEW e \in Nat, e > ephem
  PROVE  Coming("agent", "req", e) = {}
<1>1. ASSUME NEW c \in Conns
      PROVE  Ids(toHub[c], "req", e) = {} /\ Ids(toFar[c], "req", e) = {}
  <2>1. \A f \in Range(toHub[c]) \cup Range(toFar[c]) : ~Of(f, "req", e)
    BY DEF Traced, Genuine, Of, SessionTypeOK
  <2> QED BY <2>1 DEF Ids, Range
<1>2. Ahead("agent", "req", e) = {}
  BY <1>1 DEF Ahead, SessionTypeOK, Programs
<1>3. \A c \in Conns : Behind("agent", c, "req", e) = {}
  BY <1>1 DEF Behind
<1> QED BY <1>2, <1>3, ComingParts

\* The agent takes a key it has not had: nothing of the old epoch counts.
LEMMA NewEpoch ==
  ASSUME SessionTypeOK, Epochs, NEW e \in Nat, e > ephem, ephem' = e,
         Lined("client", "hs", e)', Lined("agent", "req", e)',
         Coming("agent", "req", e)' = {},
         \A n \in Nat : n > e => Coming("client", "hs", n)' = {},
         aSession' # NoSession => aSession'.key[2] = e,
         UNCHANGED cSession, UNCHANGED link
  PROVE  Epochs' /\ Announced' /\ InOrder'
<1>1. cSession # NoSession => cSession.key[2] \in Nat
  BY DEF SessionTypeOK, Sessions
<1>2. cSession # NoSession => cSession.key[2] <= e /\ cSession.key[2] # e
  BY <1>1 DEF Epochs, SessionTypeOK
<1>3. Epochs'
  BY <1>2 DEF Epochs
<1>4. Announced'
  BY <1>2 DEF Announced
<1>5. InOrder'
  BY DEF InOrder
<1> QED BY <1>3, <1>4, <1>5

LEMMA CallAgentUp ==
  ASSUME CallBase, CallInv, AgentUp
  PROVE  CallInv'
<1> USE DEF CallBase, CallInv
<1> DEFINE a == link["agent"]
<1>1. /\ UNCHANGED <<vars, link, cSession, queue, inflight, call, ran>>
      /\ ephem' = ephem + 1 /\ aSession' = NoSession
      /\ Incoming("agent", "up")
      /\ Sends("agent", <<Handshake(ephem + 1)>>)
      /\ ephem \in Nat
  BY DEF AgentUp, keyEnd, callEnd, SessionTypeOK
<1>2. "agent" \in Programs /\ "client" \in Programs
  BY DEF Programs
<1>3. a # None
  BY <1>1 DEF Incoming, Reads
<1>4. UNCHANGED who
  BY <1>1 DEF vars
<1> PICK e \in Nat : e = ephem + 1
  BY <1>1
<1> DEFINE f == Handshake(e)
<1>5. /\ f \in Frames /\ Of(f, "hs", e)
      /\ \A n \in Nat : n # e => ~Of(f, "hs", n)
      /\ f.id = 0 /\ Genuine(f)'
  BY FrameRecords DEF Of, Epoch, Handshake, Genuine
<1> HIDE DEF f
<1>6. Sends("agent", <<f>>)
  BY <1>1 DEF f
<1> HIDE DEF a
<1>7. /\ a \in Conns
      /\ toHub[a] \in Seq(Frames)
      /\ toHub'[a] = Append(toHub[a], f)
      /\ \A d \in Conns \ {a} : toHub'[d] = toHub[d]
  BY <1>2, <1>3, <1>5, <1>6, SendsOne DEF a, SessionTypeOK
<1>8. \A type, n : \A d \in Conns : Thins(toFar'[d], toFar[d], type, n)
  BY <1>1, <1>2, ReadThins
<1>9. /\ Coming("client", "hs", e) = {}
      /\ Coming("agent", "req", e) = {}
  BY <1>1, NoneLater DEF Epochs
<1>10. Coming("agent", "req", e)' = {} /\ Lined("agent", "req", e)'
  <2>1. Shortens("agent", "req", e)
    BY <1>1, <1>2, <1>3, <1>4, <1>7, <1>8, WriteShortens DEF a
  <2> QED BY <1>2, <1>9, <2>1, ShortensFlows, LinedNone DEF Flows
<1>11. Lined("client", "hs", e)'
  <2>1. \A d \in Conns : Behind("client", d, "hs", e) = {}
    BY <1>9, ComingParts
  <2>2. Lined("client", "hs", e)
    BY <1>9, LinedNone
  <2>3. Thins(toHub[a], toHub[a], "hs", e)
    BY ThinsSame
  <2>4. link["client"] # None => link["client"] \in Conns
    BY <1>2 DEF SessionTypeOK
  <2>5. link["client"] # None =>
            Thins(toFar'[link["client"]], toFar[link["client"]], "hs", e)
    BY <1>8, <2>4
  <2>6. \A n \in Coming("client", "hs", e) : n < f.id
    BY <1>9
  <2>7. UNCHANGED link
    BY <1>1
  <2> QED BY <1>2, <1>4, <1>5, <1>7, <2>1, <2>2, <2>3, <2>5, <2>6, <2>7,
             JoinsLine
<1>12. ASSUME NEW n \in Nat, n > e
       PROVE  Coming("client", "hs", n)' = {}
  <2>1. Thins(toHub'[a], toHub[a], "hs", n)
    BY <1>5, <1>7, <1>12, ThinsOther
  <2>2. Shortens("client", "hs", n)
    BY <1>1, <1>2, <1>3, <1>4, <1>7, <1>8, <2>1, WriteShortens DEF a
  <2>3. Coming("client", "hs", n) = {}
    BY <1>1, <1>12 DEF Epochs
  <2> QED BY <1>2, <2>2, <2>3, ShortensFlows
<1>13. Epochs' /\ Announced' /\ InOrder'
  BY <1>1, <1>10, <1>11, <1>12, NewEpoch
<1>14. Booked' /\ Moved
  BY <1>1 DEF Booked, Moved
<1>15. Traced'
  <2>1. \A d \in Conns : Range(toFar'[d]) \subseteq Range(toFar[d])
    BY <1>1, <1>2, ReadRenews
  <2>2. Renews
    BY <1>2, <1>3, <1>5, <1>6, <2>1, SendRenews DEF a
  <2> QED BY <1>1, <1>14, <2>2, TracedKeeps
<1> QED BY <1>1, <1>4, <1>13, <1>14, <1>15, LinkedKeeps

\* Reading a notice, a handshake or a frame that does not open.
LEMMA CallAgentReads ==
  ASSUME CallBase, CallInv,
         \/ AgentDown
         \/ AgentHandshake
         \/ AgentRequest /\ ~Opens(aSession, First("agent"))
  PROVE  CallInv'
<1> USE DEF CallBase, CallInv
<1>1. /\ UNCHANGED <<vars, link, toHub, cSession, queue, inflight, call, ran>>
      /\ \E t : Incoming("agent", t)
      /\ ephem \in Nat
  BY DEF AgentDown, AgentHandshake, AgentRequest, keyEnd, callEnd, SessionTypeOK
<1>2. "agent" \in Programs /\ "client" \in Programs
  BY DEF Programs
<1>3. UNCHANGED who
  BY <1>1 DEF vars
<1>4. \A type, n : \A d \in Conns : Thins(toFar'[d], toFar[d], type, n)
  BY <1>1, <1>2, ReadThins
<1>5. ASSUME NEW n \in Nat
      PROVE  /\ Flows("client", "hs", n) /\ Flows("agent", "req", n)
             /\ Coming("client", "hs", n)' \subseteq Coming("client", "hs", n)
             /\ Coming("agent", "req", n)' \subseteq Coming("agent", "req", n)
  BY <1>1, <1>2, <1>3, <1>4, ReadShortens, ShortensFlows
<1>6. /\ ephem' \in Nat /\ ephem <= ephem'
      /\ aSession' # NoSession => aSession'.key[2] = ephem'
  BY <1>1 DEF AgentDown, AgentHandshake, AgentRequest, NewSession, Epochs
<1>7. Epochs' /\ Announced' /\ InOrder'
  <2>1. CASE ephem' = ephem
    BY <1>1, <1>5, <1>6, <2>1, Steady
  <2>2. CASE ephem' > ephem
    <3> PICK e \in Nat : e = ephem'
      BY <1>6
    <3>1. Coming("client", "hs", e) = {} /\ Coming("agent", "req", e) = {}
      BY <2>2, NoneLater DEF Epochs
    <3>2. /\ Lined("client", "hs", e)' /\ Lined("agent", "req", e)'
          /\ Coming("agent", "req", e)' = {}
      BY <1>5, <3>1, LinedNone DEF Flows
    <3>3. \A n \in Nat : n > e => Coming("client", "hs", n)' = {}
      BY <1>1, <1>5, <2>2 DEF Epochs
    <3> QED BY <1>1, <1>6, <2>2, <3>2, <3>3, NewEpoch
  <2> QED BY <1>1, <1>6, <2>1, <2>2
<1>8. Booked' /\ Moved
  BY <1>1 DEF Booked, Moved
<1>9. Traced'
  <2>1. \A d \in Conns : Range(toFar'[d]) \subseteq Range(toFar[d])
    BY <1>1, <1>2, ReadRenews
  <2>2. Renews
    BY <1>1, <2>1 DEF Renews
  <2> QED BY <1>1, <1>6, <1>8, <2>2, TracedKeeps
<1> QED BY <1>1, <1>3, <1>7, <1>8, <1>9, LinkedKeeps

\* Carrying out a request: it is the first of those that are coming.
LEMMA CallAgentRuns ==
  ASSUME CallBase, CallInv, AgentRequest, Opens(aSession, First("agent"))
  PROVE  /\ CallInv'
         /\ \E r \in Sent : /\ ran' = Append(ran, r)
                            /\ \A q \in Range(ran) : q < r
         /\ UNCHANGED call
<1> USE DEF CallBase, CallInv
<1> DEFINE f == First("agent")
           a == link["agent"]
<1> PICK g : g = Sealed("resp", aSession, f.id)
  OBVIOUS
<1>1. /\ UNCHANGED <<vars, link, ephem, cSession, queue, inflight, call>>
      /\ Incoming("agent", "req")
      /\ ran' = Append(ran, f.id)
      /\ aSession' = [aSession EXCEPT !.lastRecvSeq = f.seq, !.sendSeq = @ + 1]
      /\ Sends("agent", <<g>>)
      /\ aSession # NoSession /\ f.seal = aSession.key
  BY DEF AgentRequest, Opens, keyEnd, callEnd
<1>2. "agent" \in Programs /\ "client" \in Programs
  BY DEF Programs
<1>3. /\ f \in Frames /\ f.type = "req"
      /\ a \in Conns /\ toFar[a] \in Seq(Frames) /\ toFar[a] # <<>>
  BY <1>1, <1>2, IncomingTyped DEF Incoming, Reads
<1>4. f.id \in Reqs /\ f \in Range(toFar[a])
  <2>1. f.id \in Reqs
    BY <1>3 DEF Frames
  <2>2. f \in Range(toFar[a])
    BY <1>3, FrameRange DEF First
  <2> QED BY <2>1, <2>2
<1>5. f.id \in Sent
  BY <1>3, <1>4 DEF Traced, Genuine
<1>6. UNCHANGED who /\ a # None /\ ephem \in Nat
  <2>1. a # None
    BY <1>1 DEF Incoming, Reads
  <2> QED BY <1>1, <2>1 DEF vars, SessionTypeOK
<1>7. g \in Frames /\ g.type = "resp" /\ g.id = f.id
  BY <1>4, FrameRecords DEF Sealed, SessionTypeOK
<1>8. aSession'.key = aSession.key
  BY <1>1 DEF SessionTypeOK, Sessions
<1> PICK e \in Nat : e = ephem
  BY <1>6
<1>9. Of(f, "req", e)
  BY <1>1, <1>3 DEF Of, Epoch, Epochs
<1>10. toFar[a] # <<>> /\ f = Head(toFar[a]) /\ toFar'[a] = Tail(toFar[a])
  BY <1>1, <1>3 DEF First, Incoming, SessionTypeOK
<1> HIDE DEF f, a
<1>11. /\ toHub'[a] = Append(toHub[a], g)
       /\ \A d \in Conns \ {a} : toHub'[d] = toHub[d]
       /\ toHub[a] \in Seq(Frames)
  BY <1>1, <1>2, <1>6, <1>7, SendsOne DEF a, SessionTypeOK
<1>12. \A type, n : \A d \in Conns : Thins(toFar'[d], toFar[d], type, n)
  BY <1>1, <1>2, ReadThins
<1>13. ASSUME NEW p \in Programs, NEW type \in {"hs", "req"}, NEW n \in Nat
       PROVE  Shortens(p, type, n)
  <2>1. ~Of(g, type, n)
    BY <1>7 DEF Of
  <2>2. Thins(toHub'[a], toHub[a], type, n)
    BY <1>7, <1>11, <2>1, ThinsOther
  <2>3. UNCHANGED link
    BY <1>1
  <2> QED BY <1>2, <1>6, <1>11, <1>12, <2>2, <2>3, WriteShortens DEF a
<1>14. \A n \in Nat : Flows("client", "hs", n) /\ Flows("agent", "req", n)
  BY <1>2, <1>13, ShortensFlows
<1>15. Epochs' /\ Announced'
  BY <1>1, <1>8, <1>14, Steady DEF Epochs
<1>16. /\ Lined("agent", "req", e) /\ Lined("agent", "req", e)'
       /\ Coming("agent", "req", e)' \subseteq Coming("agent", "req", e)
       /\ \A c \in Conns : Behind("agent", c, "req", e)' \subseteq
                               Behind("agent", c, "req", e)
  BY <1>14 DEF Flows, InOrder
<1>17. f.id \in Ahead("agent", "req", e)
  BY <1>3, <1>6, <1>9, <1>10, ThinsTail DEF Ahead, a
<1>18. \A n \in Coming("agent", "req", e)' : f.id < n
  <2>1. Rising(toFar[a], "req", e)
    BY <1>6, <1>16 DEF Lined, a
  <2>2. \A n \in Ids(toFar'[a], "req", e) : f.id < n
    BY <1>3, <1>9, <1>10, <2>1, ThinsTail
  <2>3. \A n \in Ahead("agent", "req", e)' : f.id < n
    BY <1>1, <1>6, <2>2 DEF Ahead, a
  <2>4. \A c \in Conns : \A n \in Behind("agent", c, "req", e)' : f.id < n
    BY <1>16, <1>17 DEF Lined
  <2> QED BY <2>3, <2>4 DEF Coming
<1>19. \A q \in Range(ran) : q < f.id
  <2>1. f.id \in Coming("agent", "req", e)
    BY <1>17, ComingParts
  <2> QED BY <2>1 DEF InOrder
<1>20. Range(ran') = Range(ran) \cup {f.id}
  <2>1. ran \in Seq(Reqs)
    BY DEF SessionTypeOK
  <2> QED BY <1>1, <1>4, <2>1, RangeParts
<1>21. InOrder'
  BY <1>1, <1>16, <1>18, <1>20 DEF InOrder
<1>22. Booked' /\ Moved
  BY <1>1 DEF Booked, Moved
<1>23. Traced'
  <2>1. \A d \in Conns : Range(toFar'[d]) \subseteq Range(toFar[d])
    BY <1>1, <1>2, ReadRenews
  <2>2. Genuine(g)'
    BY <1>7, <1>20 DEF Genuine
  <2>3. Renews
    BY <1>1, <1>2, <1>6, <1>7, <2>1, <2>2, SendRenews DEF a
  <2>4. ephem' \in Nat /\ ephem <= ephem'
    BY <1>1, <1>6
  <2> QED BY <1>1, <1>5, <1>22, <2>3, <2>4, TracedKeeps
<1>24. Linked'
  BY <1>1, <1>6, LinkedKeeps
<1> QED BY <1>1, <1>5, <1>15, <1>19, <1>21, <1>22, <1>23, <1>24

-----------------------------------------------------------------------------
(* The controller's steps.                                                 *)

LEMMA ComingSent ==
  ASSUME SessionTypeOK, Traced, NEW e
  PROVE  Coming("agent", "req", e) \subseteq Sent
<1>1. ASSUME NEW c \in Conns
      PROVE  /\ Ids(toHub[c], "req", e) \subseteq Sent
             /\ Ids(toFar[c], "req", e) \subseteq Sent
  BY DEF Traced, Genuine, Of, Ids, Range
<1>2. Ahead("agent", "req", e) \subseteq Sent
  BY <1>1 DEF Ahead, SessionTypeOK, Programs
<1>3. \A c \in Conns : Behind("agent", c, "req", e) \subseteq Sent
  BY <1>1 DEF Behind
<1> QED BY <1>2, <1>3 DEF Coming

\* The frames before the request are none, or a handshake.
LEMMA PumpedFrames ==
  ASSUME SessionTypeOK, link["client"] # None, NEW f \in Frames,
         NEW fs \in {<<>>, <<Handshake(kp)>>}, Sends("client", Append(fs, f))
  PROVE  LET l == link["client"] IN
         /\ l \in Conns
         /\ \A d \in Conns \ {l} : toHub'[d] = toHub[d]
         /\ \E s \in Seq(Frames) :
               /\ toHub'[l] = Append(s, f)
               /\ \A n : Thins(s, toHub[l], "req", n)
               /\ \A g \in Range(s) : g \in Range(toHub[l]) \/ g.type = "hs"
<1> DEFINE l == link["client"]
<1>1. "client" \in Programs /\ l \in Conns /\ toHub[l] \in Seq(Frames)
  BY DEF Programs, SessionTypeOK
<1>2. CASE fs = <<>>
  <2>1. Append(fs, f) = <<f>>
    BY <1>2
  <2>2. Sends("client", <<f>>)
    BY <2>1
  <2>3. /\ toHub'[l] = Append(toHub[l], f)
        /\ \A d \in Conns \ {l} : toHub'[d] = toHub[d]
    BY <1>1, <2>2, SendsOne
  <2> QED BY <1>1, <2>3, ThinsSame
<1>3. CASE fs = <<Handshake(kp)>>
  <2> PICK h : h = Handshake(kp)
    OBVIOUS
  <2>1. h \in Frames /\ h.type = "hs" /\ \A n : ~Of(h, "req", n)
    BY FrameRecords DEF SessionTypeOK, Handshake, Of
  <2>2. Sends("client", Append(<<h>>, f))
    BY <1>3
  <2>3. /\ toHub'[l] = Append(Append(toHub[l], h), f)
        /\ \A d \in Conns \ {l} : toHub'[d] = toHub[d]
    BY <1>1, <2>1, <2>2, SendsTwo
  <2>4. Append(toHub[l], h) \in Seq(Frames)
    BY <1>1, <2>1
  <2>5. \A n : Thins(Append(toHub[l], h), toHub[l], "req", n)
    BY <1>1, <2>1, ThinsOther
  <2>6. Range(Append(toHub[l], h)) = Range(toHub[l]) \cup {h}
    BY <1>1, <2>1, FrameRange
  <2> QED BY <1>1, <2>1, <2>3, <2>4, <2>5, <2>6
<1> QED BY <1>2, <1>3

LEMMA PumpedKeeps ==
  ASSUME CallBase, CallInv, Booked', Moved,
         UNCHANGED <<who, link, ephem, aSession, ran>>,
         NEW s \in Sessions, Pumped(s),
         \A type, n : \A d \in Conns : Thins(toFar'[d], toFar[d], type, n),
         \A d \in Conns : Range(toFar'[d]) \subseteq Range(toFar[d]),
         s # NoSession => link["client"] # None /\ s.key[2] <= ephem,
         NEW e \in Nat, e = ephem,
         s # NoSession /\ s.key[2] = e =>
            /\ Coming("client", "hs", e)' = {}
            /\ \A c \in Conns \ {link["client"]} :
                  Behind("agent", c, "req", e) = {}
  PROVE  CallInv'
<1> USE DEF CallBase, CallInv
<1> DEFINE l == link["client"]
           Result ==
             /\ \A n \in Nat : Shortens("client", "hs", n)
             /\ Renews
             /\ cSession'.key = s.key
             /\ cSession' # NoSession => s # NoSession
             /\ Lined("agent", "req", e)'
             /\ \A m \in Coming("agent", "req", e)' :
                   \/ m \in Coming("agent", "req", e)
                   \/ /\ Coming("client", "hs", e)' = {}
                      /\ \A q \in Sent : q < m
             /\ \A c \in Conns \ {l} : Behind("agent", c, "req", e) = {} =>
                                          Behind("agent", c, "req", e)' = {}
<1>1. "agent" \in Programs /\ "client" \in Programs
  BY DEF Programs
<1>2. ephem' \in Nat /\ ephem <= ephem' /\ UNCHANGED who /\ UNCHANGED link
  BY DEF SessionTypeOK
<1>3. Lined("client", "hs", e) /\ Lined("agent", "req", e)
  BY DEF Announced, InOrder
<1>4. ASSUME toHub' = toHub, cSession' = s
      PROVE  Result
  <2>1. \A n \in Nat : Shortens("client", "hs", n) /\ Shortens("agent", "req", n)
    BY <1>1, <1>2, <1>4, ReadShortens
  <2>2. Renews
    BY <1>4 DEF Renews
  <2>3. Flows("agent", "req", e)
    BY <1>1, <2>1, ShortensFlows
  <2> QED BY <1>3, <1>4, <2>1, <2>2, <2>3 DEF Flows
<1>5. ASSUME Sends("client", <<Handshake(kp)>>), l # None, cSession' = s
      PROVE  Result
  <2> PICK h : h = Handshake(kp)
    OBVIOUS
  <2>1. h \in Frames /\ h.type = "hs" /\ \A n : ~Of(h, "req", n)
    BY FrameRecords DEF SessionTypeOK, Handshake, Of
  <2>2. Sends("client", <<h>>)
    BY <1>5
  <2>3. /\ l \in Conns
        /\ toHub'[l] = Append(toHub[l], h)
        /\ \A d \in Conns \ {l} : toHub'[d] = toHub[d]
        /\ toHub[l] \in Seq(Frames)
    BY <1>1, <1>5, <2>1, <2>2, SendsOne DEF SessionTypeOK
  <2>4. \A n \in Nat : Thins(toHub'[l], toHub[l], "req", n)
    BY <2>1, <2>3, ThinsOther
  <2>5. \A n \in Nat : Shortens("client", "hs", n) /\ Shortens("agent", "req", n)
    BY <1>1, <1>2, <1>5, <2>3, <2>4, WriteShortens
  <2>6. Renews
    <3>1. Genuine(h)'
      BY <2>1 DEF Genuine
    <3> QED BY <1>1, <1>5, <2>1, <2>2, <3>1, SendRenews
  <2>7. Flows("agent", "req", e)
    BY <1>1, <2>5, ShortensFlows
  <2> QED BY <1>3, <1>5, <2>5, <2>6, <2>7 DEF Flows
<1>6. ASSUME NEW r \in Reqs, NEW fs \in {<<>>, <<Handshake(kp)>>},
             s # NoSession, l # None, call'[r] = "sent",
             \A q \in Sent : q < r,
             cSession' = [s EXCEPT !.sendSeq = @ + 1],
             Sends("client", Append(fs, Sealed("req", s, r)))
      PROVE  Result
  <2> DEFINE f == Sealed("req", s, r)
  <2>1. /\ f \in Frames /\ f.type = "req" /\ f.id = r
        /\ Epoch(f) = s.key[2]
    BY FrameRecords DEF Sealed, Epoch
  <2>2. cSession'.key = s.key
    BY <1>6 DEF Sessions
  <2> HIDE DEF f
  <2>3. /\ l \in Conns
        /\ \A d \in Conns \ {l} : toHub'[d] = toHub[d]
        /\ \E t \in Seq(Frames) :
              /\ toHub'[l] = Append(t, f)
              /\ \A n : Thins(t, toHub[l], "req", n)
              /\ \A g \in Range(t) : g \in Range(toHub[l]) \/ g.type = "hs"
    BY <1>6, <2>1, PumpedFrames DEF f
  <2>4. PICK t \in Seq(Frames) :
              /\ toHub'[l] = Append(t, f)
              /\ \A n : Thins(t, toHub[l], "req", n)
              /\ \A g \in Range(t) : g \in Range(toHub[l]) \/ g.type = "hs"
    BY <2>3
  <2>5. \A n \in Nat : Shortens("client", "hs", n)
    BY <1>1, <1>2, <1>6, <2>3, WriteShortens
  <2>6. Renews
    <3>1. Genuine(f)'
      BY <1>6, <2>1 DEF Genuine, Sent
    <3>2. \A g : g.type = "hs" => Genuine(g)'
      BY DEF Genuine
    <3>3. Range(toHub'[l]) = Range(t) \cup {f}
      BY <2>1, <2>4, FrameRange
    <3> QED BY <2>3, <2>4, <3>1, <3>2, <3>3 DEF Renews
  <2>7. CASE s.key[2] # e
    <3>1. ~Of(f, "req", e)
      BY <2>1, <2>7 DEF Of
    <3>2. Thins(toHub'[l], t, "req", e)
      BY <2>1, <2>4, <3>1, ThinsOther
    <3>3. Thins(toHub'[l], toHub[l], "req", e)
      BY <2>4, <3>2 DEF Thins
    <3>4. Shortens("agent", "req", e)
      BY <1>1, <1>2, <1>6, <2>3, <3>3, WriteShortens
    <3>5. Flows("agent", "req", e)
      BY <1>1, <3>4, ShortensFlows
    <3> QED BY <1>3, <1>6, <2>2, <2>5, <2>6, <3>5 DEF Flows
  <2>8. CASE s.key[2] = e
    <3>1. /\ Coming("client", "hs", e)' = {}
          /\ \A c \in Conns \ {l} : Behind("agent", c, "req", e) = {}
      BY <1>6, <2>8
    <3>2. Of(f, "req", e)
      BY <2>1, <2>8 DEF Of
    <3>3. \A n \in Coming("agent", "req", e) : n < f.id
      BY <1>6, <2>1, ComingSent
    <3>4. link["agent"] # None =>
              Thins(toFar'[link["agent"]], toFar[link["agent"]], "req", e)
      BY <1>1 DEF SessionTypeOK
    <3>5. Thins(t, toHub[l], "req", e)
      BY <2>4
    <3>6. /\ Lined("agent", "req", e)'
          /\ Coming("agent", "req", e)' \subseteq
                Coming("agent", "req", e) \cup {f.id}
          /\ \A d \in Conns \ {l} : Behind("agent", d, "req", e)' = {}
      BY <1>1, <1>2, <1>3, <2>1, <2>3, <2>4, <3>1, <3>2, <3>3, <3>4, <3>5,
         JoinsLine
    <3> QED BY <1>6, <2>1, <2>2, <2>5, <2>6, <3>1, <3>6
  <2> QED BY <2>7, <2>8
<1>7. Result
  <2>1. Sends("client", <<Handshake(kp)>>) /\ l = None => toHub' = toHub
    BY TunnelConstants DEF Sends, SessionTypeOK
  <2> QED BY <1>4, <1>5, <1>6, <2>1 DEF Pumped, Puts
<1> HIDE DEF Result
<1>8. Linked'
  BY <1>2, LinkedKeeps
<1>9. Traced'
  BY <1>2, <1>7, TracedKeeps DEF Result
<1>10. /\ Lined("client", "hs", e)'
       /\ \A n \in Nat : Coming("client", "hs", n)' \subseteq
                             Coming("client", "hs", n)
  BY <1>1, <1>3, <1>7, ShortensFlows DEF Result, Flows
<1>11. Epochs'
  BY <1>2, <1>7, <1>10 DEF Epochs, Result
<1>12. Announced'
  <2>1. Coming("agent", "req", e)' # {} => Coming("client", "hs", e)' = {}
    BY <1>7, <1>10 DEF Announced, Result
  <2>2. cSession' # NoSession /\ cSession'.key[2] = e =>
           /\ Coming("client", "hs", e)' = {}
           /\ \A c \in Conns \ {l} : Behind("agent", c, "req", e)' = {}
    BY <1>7 DEF Result
  <2> QED BY <1>2, <1>10, <2>1, <2>2 DEF Announced
<1>13. InOrder'
  <2>1. \A q \in Range(ran), m \in Coming("agent", "req", e)' : q < m
    BY <1>7 DEF InOrder, Traced, Result
  <2> QED BY <1>2, <1>7, <2>1 DEF InOrder, Result
<1> QED BY <1>8, <1>9, <1>11, <1>12, <1>13

\* A new key pair, or the end of the session.
LEMMA CallControllerUp ==
  ASSUME CallBase, CallInv, ControllerUp \/ ControllerDown
  PROVE  CallInv'
<1> USE DEF CallBase, CallInv
<1>1. /\ UNCHANGED <<vars, link, ephem, aSession, queue, inflight, call, ran>>
      /\ cSession' = NoSession
      /\ \E t : Incoming("client", t)
      /\ \/ toHub' = toHub
         \/ Sends("client", <<Handshake(kp + 1)>>)
  BY DEF ControllerUp, ControllerDown, agentEnd, callEnd
<1>2. "agent" \in Programs /\ "client" \in Programs
  BY DEF Programs
<1>3. /\ UNCHANGED who /\ UNCHANGED link
      /\ link["client"] # None
      /\ ephem' \in Nat /\ ephem <= ephem'
  BY <1>1 DEF vars, Incoming, Reads, SessionTypeOK
<1>4. \A type, n : \A d \in Conns : Thins(toFar'[d], toFar[d], type, n)
  BY <1>1, <1>2, ReadThins
<1>5. \A d \in Conns : Range(toFar'[d]) \subseteq Range(toFar[d])
  BY <1>1, <1>2, ReadRenews
<1>6. /\ \A n \in Nat : Shortens("client", "hs", n) /\ Shortens("agent", "req", n)
      /\ Renews
  <2>1. CASE toHub' = toHub
    <3>1. Renews
      BY <1>5, <2>1 DEF Renews
    <3> QED BY <1>2, <1>3, <1>4, <2>1, <3>1, ReadShortens
  <2>2. CASE Sends("client", <<Handshake(kp + 1)>>)
    <3> PICK h : h = Handshake(kp + 1)
      OBVIOUS
    <3>1. h \in Frames /\ h.type = "hs" /\ \A n : ~Of(h, "req", n)
      BY FrameRecords DEF SessionTypeOK, Handshake, Of
    <3>2. Sends("client", <<h>>)
      BY <2>2
    <3>3. LET l == link["client"] IN
          /\ l \in Conns
          /\ toHub'[l] = Append(toHub[l], h)
          /\ \A d \in Conns \ {l} : toHub'[d] = toHub[d]
          /\ toHub[l] \in Seq(Frames)
      BY <1>2, <1>3, <3>1, <3>2, SendsOne DEF SessionTypeOK
    <3>4. \A n \in Nat :
             Thins(toHub'[link["client"]], toHub[link["client"]], "req", n)
      BY <3>1, <3>3, ThinsOther
    <3>5. \A n \in Nat : Shortens("client", "hs", n) /\ Shortens("agent", "req", n)
      BY <1>2, <1>3, <1>4, <3>3, <3>4, WriteShortens
    <3>6. Genuine(h)'
      BY <3>1 DEF Genuine
    <3>7. Renews
      BY <1>2, <1>3, <1>5, <3>1, <3>2, <3>6, SendRenews
    <3> QED BY <3>5, <3>7
  <2> QED BY <1>1, <2>1, <2>2
<1>7. \A n \in Nat : Flows("client", "hs", n) /\ Flows("agent", "req", n)
  BY <1>2, <1>6, ShortensFlows
<1>8. Epochs' /\ Announced' /\ InOrder'
  BY <1>1, <1>7, Steady DEF Epochs
<1>9. Booked' /\ Moved
  BY <1>1 DEF Booked, Moved
<1>10. Traced'
  BY <1>1, <1>3, <1>6, <1>9, TracedKeeps
<1> QED BY <1>3, <1>8, <1>9, <1>10, LinkedKeeps

LEMMA CallThrows ==
  ASSUME CallBase, CallInv, ControllerHandshakeThrows
  PROVE  CallInv'
<1>1. "client" \in Programs /\ LinkLost("client")
  BY DEF ControllerHandshakeThrows, LinkLost, Reads, Programs
<1> QED BY <1>1, CallLink

\* The controller agrees on the agent's key of the epoch e.  If that is the
\* present one it was announced in this frame alone, so that no request of
\* this epoch is under way.
LEMMA CallControllerHandshake ==
  ASSUME CallBase, CallInv, ControllerHandshake
  PROVE  CallInv' /\ Moved /\ UNCHANGED ran
<1> USE DEF CallBase, CallInv
<1> DEFINE l == link["client"]
           f == First("client")
           s == NewSession(kp, f.key)
<1>1. /\ UNCHANGED <<vars, link, ephem, aSession, ran>>
      /\ Incoming("client", "hs") /\ kp # 0 /\ kp \in Nat
      /\ ephem \in Nat
  BY DEF ControllerHandshake, agentEnd, SessionTypeOK
<1>2. "agent" \in Programs /\ "client" \in Programs
  BY DEF Programs
<1>3. /\ f \in Frames /\ f.type = "hs" /\ f.id = 0 /\ f.key \in Nat
      /\ l \in Conns /\ l # None
      /\ toFar[l] \in Seq(Frames) /\ toFar[l] # <<>>
  <2>1. /\ f \in Frames /\ f.type = "hs"
        /\ l \in Conns /\ l # None
        /\ toFar[l] \in Seq(Frames) /\ toFar[l] # <<>>
    BY <1>1, <1>2, IncomingTyped DEF Incoming, Reads
  <2>2. f.id = 0 /\ f.key \in Nat
    BY <2>1 DEF Frames
  <2> QED BY <2>1, <2>2
<1>4. f = Head(toFar[l]) /\ toFar'[l] = Tail(toFar[l])
  BY <1>1, <1>3 DEF First, Incoming, SessionTypeOK
<1>5. /\ s \in Sessions /\ s.key[2] = f.key
  BY <1>1, <1>3, SessionRecords DEF NewSession
<1>6. Booked' /\ Moved /\ Pumped(s)
  BY HandshakePumps DEF Pumped
<1> HIDE DEF f, s, l
<1>7. UNCHANGED <<who, link, ephem, aSession, ran>>
  BY <1>1 DEF vars
<1>8. /\ \A type, n : \A d \in Conns : Thins(toFar'[d], toFar[d], type, n)
      /\ \A d \in Conns : Range(toFar'[d]) \subseteq Range(toFar[d])
  BY <1>1, <1>2, ReadThins, ReadRenews
<1> PICK e \in Nat : e = ephem
  BY <1>1
<1>9. ASSUME NEW n \in Nat, n = f.key
      PROVE  /\ Of(f, "hs", n)
             /\ 0 \in Ahead("client", "hs", n)
             /\ 0 \in Coming("client", "hs", n)
  <2>1. Of(f, "hs", n)
    BY <1>3, <1>9 DEF Of, Epoch
  <2>2. 0 \in Ids(toFar[l], "hs", n)
    BY <1>3, <1>4, <2>1, ThinsTail
  <2>3. 0 \in Ahead("client", "hs", n)
    BY <1>3, <2>2 DEF Ahead, l
  <2> QED BY <2>1, <2>3, ComingParts
<1>10. f.key <= ephem
  BY <1>1, <1>3, <1>9 DEF Epochs
<1>11. ASSUME f.key = e
       PROVE  /\ Coming("client", "hs", e)' = {}
              /\ \A c \in Conns : Behind("agent", c, "req", e) = {}
  <2>1. /\ Lined("client", "hs", e)
        /\ Coming("agent", "req", e) = {}
    BY <1>9, <1>11 DEF Announced
  <2>2. \A c \in Conns : Behind("agent", c, "req", e) = {}
    BY <2>1, ComingParts
  <2>3. Ids(toFar'[l], "hs", e) = {}
    <3>1. \A n \in Ids(toFar'[l], "hs", e) : 0 < n
      BY <1>3, <1>4, <1>9, <1>11, <2>1, ThinsTail DEF Lined, l
    <3>2. toFar'[l] \in Seq(Frames)
      BY <1>3, <1>4
    <3>3. Ids(toFar'[l], "hs", e) \subseteq {0}
      BY <3>2, HandshakeOnce
    <3> QED BY <3>1, <3>3
  <2>4. \A c \in Conns : Behind("client", c, "hs", e) = {}
    <3> SUFFICES ASSUME NEW c \in Conns
                 PROVE  Behind("client", c, "hs", e) = {}
      OBVIOUS
    <3>1. \A n \in Behind("client", c, "hs", e) : 0 < n
      BY <1>9, <1>11, <2>1 DEF Lined
    <3>2. Ids(toHub[c], "hs", e) \subseteq {0}
      BY HandshakeOnce DEF SessionTypeOK
    <3> QED BY <3>1, <3>2 DEF Behind
  <2>5. Ahead("client", "hs", e)' = {}
    BY <1>7, <2>3 DEF Ahead, l
  <2>6. \A c \in Conns : Behind("client", c, "hs", e)' = {}
    <3>1. \A c \in Conns \ {l} : toHub'[c] = toHub[c]
      BY <1>6 DEF Pumped, Puts, Sends, SessionTypeOK, l
    <3>2. who[l].kind # Opposite("client")
      BY <1>2, <1>3 DEF Linked, Opposite, l
    <3> QED BY <1>7, <2>4, <3>1, <3>2 DEF Behind
  <2>7. Coming("client", "hs", e)' = {}
    BY <2>5, <2>6 DEF Coming
  <2> QED BY <2>2, <2>7
<1>12. CallInv'
  <2>1. s # NoSession => link["client"] # None /\ s.key[2] <= ephem
    BY <1>3, <1>5, <1>10 DEF l
  <2>2. s # NoSession /\ s.key[2] = e =>
            /\ Coming("client", "hs", e)' = {}
            /\ \A c \in Conns \ {link["client"]} :
                  Behind("agent", c, "req", e) = {}
    BY <1>5, <1>11
  <2> QED BY <1>5, <1>6, <1>7, <1>8, <2>1, <2>2, PumpedKeeps
<1> QED BY <1>1, <1>6, <1>12

\* The session the controller has stays of its epoch, or there is none.
LEMMA CallPumps ==
  ASSUME CallBase, CallInv, Booked', Moved,
         UNCHANGED <<who, link, ephem, aSession, ran>>,
         NEW s \in Sessions, Pumped(s), s.key = cSession.key,
         s # NoSession => cSession # NoSession,
         \A type, n : \A d \in Conns : Thins(toFar'[d], toFar[d], type, n),
         \A d \in Conns : Range(toFar'[d]) \subseteq Range(toFar[d])
  PROVE  CallInv'
<1> USE DEF CallBase, CallInv
<1> PICK e \in Nat : e = ephem
  BY DEF SessionTypeOK
<1>1. "client" \in Programs
  BY DEF Programs
<1>2. s # NoSession => link["client"] # None /\ s.key[2] <= ephem
  BY DEF Epochs
<1>3. ASSUME s # NoSession, s.key[2] = e
      PROVE  /\ Coming("client", "hs", e)' = {}
             /\ \A c \in Conns \ {link["client"]} :
                   Behind("agent", c, "req", e) = {}
  <2>1. /\ Coming("client", "hs", e) = {}
        /\ \A c \in Conns \ {link["client"]} :
              Behind("agent", c, "req", e) = {}
    BY <1>3 DEF Announced
  <2>2. link["client"] # None
    BY <1>2, <1>3
  <2>3. \A c \in Conns \ {link["client"]} : toHub'[c] = toHub[c]
    BY DEF Pumped, Puts, Sends, SessionTypeOK
  <2>4. Shortens("client", "hs", e)
    BY <1>1, <2>2, <2>3, WriteShortens
  <2> QED BY <1>1, <2>1, <2>4, ShortensFlows
<1> QED BY <1>2, <1>3, PumpedKeeps

LEMMA CallControllerAnswer ==
  ASSUME CallBase, CallInv, ControllerAnswer
  PROVE  CallInv' /\ Moved /\ UNCHANGED ran
<1> USE DEF CallBase, CallInv
<1>1. /\ UNCHANGED <<vars, link, ephem, aSession, ran>>
      /\ Incoming("client", "resp")
      /\ "client" \in Programs
  BY DEF ControllerAnswer, agentEnd, Programs
<1>2. UNCHANGED <<who, link, ephem, aSession, ran>>
  BY <1>1 DEF vars
<1>3. /\ \A type, n : \A d \in Conns : Thins(toFar'[d], toFar[d], type, n)
      /\ \A d \in Conns : Range(toFar'[d]) \subseteq Range(toFar[d])
  BY <1>1, ReadThins, ReadRenews
<1>4. Booked' /\ Moved /\ Repumped
  BY AnswerPumps
<1>5. CallInv'
  <2>1. PICK s \in Sessions : /\ Pumped(s)
                              /\ s.key = cSession.key
                              /\ s # NoSession => cSession # NoSession
    BY <1>4 DEF Repumped, Pumped
  <2> QED BY <1>2, <1>3, <1>4, <2>1, CallPumps
<1> QED BY <1>1, <1>4, <1>5

LEMMA CallCaller ==
  ASSUME CallBase, CallInv, (\E r \in Reqs : Issue(r)) \/ PumpTimer \/ Timeout
  PROVE  CallInv' /\ Moved /\ UNCHANGED ran
<1> USE DEF CallBase, CallInv
<1>1. UNCHANGED <<vars, link, toFar, ephem, aSession, ran>>
  BY DEF Issue, PumpTimer, Timeout, agentEnd
<1>2. UNCHANGED <<who, link, ephem, aSession, ran>>
  BY <1>1 DEF vars
<1>3. /\ \A type, n : \A d \in Conns : Thins(toFar'[d], toFar[d], type, n)
      /\ \A d \in Conns : Range(toFar'[d]) \subseteq Range(toFar[d])
  BY <1>1, ThinsSame
<1>4. Booked' /\ Moved /\ Pumped(cSession)
  BY CallerPumps DEF Pumped
<1>5. cSession \in Sessions
  BY DEF SessionTypeOK
<1>6. CallInv'
  BY <1>2, <1>3, <1>4, <1>5, CallPumps
<1> QED BY <1>1, <1>4, <1>6

-----------------------------------------------------------------------------
(* The invariant, and the refinement.                                      *)

\* The agent carries out a request that has left the controller, and is newer
\* than those before.
Carried ==
    /\ UNCHANGED call
    /\ \E r \in Sent : /\ ran' = Append(ran, r)
                       /\ \A q \in Range(ran) : q < r

LEMMA CallStep ==
  ASSUME CallBase, CallInv, [SessionNext]_sessionVars
  PROVE  CallInv' /\ ((Moved /\ UNCHANGED ran) \/ Carried)
<1>1. ASSUME NEW c \in Conns, HubStep(c)
      PROVE  CallInv' /\ Moved /\ UNCHANGED ran
  <2>1. UNCHANGED <<call, ran>>
    BY <1>1 DEF HubStep, Hub, HubQuiet, HubSwap, HubUpSelf, HubUpPeer,
                HubNotifyDown, HubHandshakeFails, Forward, Answer,
                HubLosesLink, ends, callEnd
  <2> QED BY <1>1, <2>1, CallHub, StayPut
<1>2. ASSUME NEW p \in Programs,
             \/ LinkLost(p)
             \/ \E c \in Conns, d \in Devices, id \in Creds \cup {None} :
                    Dial(p, c, d, id)
      PROVE  CallInv' /\ Moved /\ UNCHANGED ran
  <2>1. UNCHANGED <<call, ran>>
    BY <1>2 DEF LinkLost, Dial, ends, callEnd
  <2> QED BY <1>2, <2>1, CallLink, StayPut
<1>3. CASE \/ AgentUp \/ AgentDown \/ AgentHandshake
           \/ AgentRequest /\ ~Opens(aSession, First("agent"))
  <2>1. UNCHANGED <<call, ran>>
    BY <1>3 DEF AgentUp, AgentDown, AgentHandshake, AgentRequest, callEnd
  <2> QED BY <1>3, <2>1, CallAgentUp, CallAgentReads, StayPut
<1>4. CASE AgentRequest /\ Opens(aSession, First("agent"))
  BY <1>4, CallAgentRuns DEF Carried
<1>5. CASE ControllerUp \/ ControllerDown \/ ControllerHandshakeThrows
  <2>1. UNCHANGED <<call, ran>>
    BY <1>5 DEF ControllerUp, ControllerDown, ControllerHandshakeThrows, callEnd
  <2> QED BY <1>5, <2>1, CallControllerUp, CallThrows, StayPut
<1>6. CASE ControllerHandshake \/ ControllerAnswer
  BY <1>6, CallControllerHandshake, CallControllerAnswer
<1>7. CASE (\E r \in Reqs : Issue(r)) \/ PumpTimer \/ Timeout
  BY <1>7, CallCaller
<1>8. CASE UNCHANGED sessionVars
  <2>1. UNCHANGED <<who, link, toHub, toFar, ephem, aSession, cSession, queue,
                    inflight, call, ran>>
    BY <1>8 DEF sessionVars, vars, wires, ends, agentEnd, keyEnd, callEnd
  <2>2. Linked' /\ Booked'
    BY <2>1 DEF CallInv, Linked, Booked
  <2>3. Traced'
    BY <2>1 DEF CallInv, Traced, Genuine, Sent
  <2>4. \A e \in Nat : Flows("client", "hs", e) /\ Flows("agent", "req", e)
    <3>1. \A type : \A e \in Nat, d \in Conns :
             Thins(toFar'[d], toFar[d], type, e)
      BY <2>1, ThinsSame
    <3>2. \A type : \A p \in Programs, e \in Nat : Shortens(p, type, e)
      BY <2>1, <3>1, ReadShortens DEF CallBase
    <3> QED BY <3>2, ShortensFlows DEF Programs
  <2>5. Epochs' /\ Announced' /\ InOrder'
    BY <2>1, <2>4, Steady DEF CallBase, CallInv, Epochs
  <2> QED BY <2>1, <2>2, <2>3, <2>5, StayPut DEF CallInv
<1>9. CASE SessionNext
  BY <1>1, <1>2, <1>3, <1>4, <1>5, <1>6, <1>7, <1>9
  DEF SessionNext, HubStep, AgentLoop, ControllerLoop
<1> QED BY <1>8, <1>9

LEMMA CallStart == SessionInit => CallInv
<1> SUFFICES ASSUME SessionInit PROVE CallInv
  OBVIOUS
<1>1. \A type, e : \A c \in Conns :
         Ids(toHub[c], type, e) = {} /\ Ids(toFar[c], type, e) = {}
  BY IdsEmpty DEF SessionInit
<1>2. \A type, e : \A p \in Programs : Coming(p, type, e) = {}
  BY <1>1 DEF SessionInit, Coming, Ahead, Behind
<1>3. \A type, e : \A p \in Programs : Lined(p, type, e)
  BY <1>2, LinedNone
<1>4. Linked
  BY DEF SessionInit, Init, Linked, Nobody, Programs
<1>5. Booked
  BY DEF SessionInit, Booked, Books, Reqs
<1>6. Traced
  BY FrameRange DEF SessionInit, Traced, Range
<1>7. Epochs /\ Announced /\ InOrder
  BY <1>2, <1>3, <1>6 DEF SessionInit, Epochs, Announced, InOrder, Programs, Range
<1> QED BY <1>4, <1>5, <1>6, <1>7 DEF CallInv

LEMMA CallInvEver == SessionSpec => [](CallBase /\ CallInv)
<1>1. SessionSpec => [](Typed /\ SeatInv)
  BY SessionRelays, Seats, PTL
<1>2. SessionSpec => []CallBase
  BY <1>1, SessionTypeCorrect, PTL DEF CallBase
<1>3. CallBase /\ CallInv /\ [SessionNext]_sessionVars => CallInv'
  BY CallStep
<1> QED BY <1>2, <1>3, CallStart, PTL DEF SessionSpec

\* The session system implements Calls.
THEOREM SessionKeepsCalls == SessionSpec => CallsHold
<1>1. SessionInit => C!CallsInit
  BY DEF SessionInit, C!CallsInit, Reqs, C!Reqs
<1>2. ASSUME CallBase, CallBase', CallInv, [SessionNext]_sessionVars
      PROVE  [C!CallsNext]_<<call, ran>>
  <2>1. CallInv'
    BY <1>2, CallStep
  <2>2. CASE Moved /\ UNCHANGED ran
    <3>1. call' \in [C!Reqs -> C!States]
      BY <1>2 DEF CallBase, SessionTypeOK, Outcomes, Reqs, C!Reqs, C!States
    <3>2. \A r \in C!Reqs : /\ call'[r] # call[r] =>
                                  <<call[r], call'[r]>> \in C!Moves
                            /\ call'[r] = "ok" => r \in Range(ran)
      BY <2>1, <2>2 DEF Moved, CallInv, Traced, Reqs, C!Reqs
    <3>3. \A r, q \in C!Reqs : call'[r] = "sent" /\ call'[q] = "sent" => r = q
      BY <2>1 DEF CallInv, Booked, Books, Reqs, C!Reqs
    <3>4. C!Settle
      BY <2>2, <3>1, <3>2, <3>3 DEF C!Settle, C!Range, Range
    <3> QED BY <3>4 DEF C!CallsNext
  <2>3. CASE Carried
    <3>1. PICK r \in Sent : /\ ran' = Append(ran, r)
                            /\ \A q \in Range(ran) : q < r
      BY <2>3 DEF Carried
    <3>2. r \in C!Reqs /\ r \in Nat /\ call[r] \in {"sent", "ok", "late"}
      BY DEF Sent, Reqs, C!Reqs
    <3>3. call[r] # "ok"
      BY <1>2, <3>1, <3>2 DEF CallInv, Traced, Sent
    <3>4. C!Run(r)
      BY <3>1, <3>2, <3>3, <2>3 DEF C!Run, Carried, C!Range, Range
    <3> QED BY <3>2, <3>4 DEF C!CallsNext
  <2> QED BY <1>2, <2>2, <2>3, CallStep
<1>3. CallBase /\ CallBase' /\ CallInv /\ [SessionNext]_sessionVars
        => [C!CallsNext]_<<call, ran>>
  BY <1>2
<1> QED BY <1>1, <1>3, CallInvEver, PTL
        DEF SessionSpec, CallsHold, C!CallsSpec

-----------------------------------------------------------------------------
(* Windows stay open.  A session is derived from a pair of keys, and either *)
(* end may derive it again while the other uses the one it has: a handshake *)
(* repeated sets both counters of its reader back to zero.  Nothing is lost *)
(* when the other end has not used the session either, and that is so       *)
(* because a handshake is read before the frames that were sent under it.   *)
(*                                                                          *)
(* Towards the agent (ForthOpen): a second handshake of the agent's key     *)
(* reaches the controller only while the agent is Unserved or the           *)
(* controller's session was never used, since the notice that the agent is  *)
(* up comes first (Heralded, MetIdle).                                      *)
(*                                                                          *)
(* Towards the controller (BackOpen): the handshakes of its key pair that   *)
(* are still to be read lie before the requests made with it, on one        *)
(* connection (InLine).                                                     *)

\* What program p may still read, besides notices: the frames in its own
\* connection, and those the other side sent over c.
Spoken == {"hs", "req", "resp"}
Held(p) ==
    IF link[p] = None THEN {}
                      ELSE {f \in Range(toFar[link[p]]) : f.type \in Spoken}
Left(p, c) == IF who[c].kind = Opposite(p) THEN Range(toHub[c]) ELSE {}
Way(p) == Held(p) \cup UNION {Left(p, c) : c \in Conns}

\* No frame speaks of a key that is not born yet, and a session is of keys
\* that are.
KeysBorn ==
    /\ \A f \in Way("agent") : /\ f.type = "hs" => f.key <= kp
                               /\ f.type = "req" => f.seal[1] <= kp
    /\ \A f \in Way("client") :
          f.type = "resp" => f.seal[1] <= kp /\ f.seal[2] <= ephem
    /\ aSession.key[1] <= kp
    /\ aSession # NoSession => ephem # 0
    /\ cSession # NoSession => cSession.key[1] = kp /\ kp # 0 /\ sentHs

\* Handshakes, requests and answers of the controller's present key pair.
Offers(f)  == f.type = "hs" /\ f.key = kp
Asks(f)    == f.type = "req" /\ f.seal[1] = kp
Answers(f) == f.type = "resp" /\ f.seal[1] = kp

\* The agent has carried out a request of it.
Used ==
    \/ aSession.key[1] = kp /\ aSession.lastRecvSeq > 0
    \/ \E f \in Way("client") : Answers(f)
    \/ cSession.lastRecvSeq > 0

Unasked == ~sentHs => ~Used /\ \A f \in Way("agent") : ~Asks(f)

\* The controller's session is of the agent's present key.
Now == cSession # NoSession /\ cSession.key[2] = ephem

\* The agent has answered nothing in this epoch.
Silent == /\ aSession.lastRecvSeq = 0
          /\ \A f \in Way("client") : ~Of(f, "resp", ephem)

Unanswered == (\E f \in Way("client") : Of(f, "hs", ephem)) => Silent

NotYet == {"registering"} \cup Handshaking \cup Announcing
Unserved ==
    Now /\ pc[link["client"]] \in NotYet =>
        Silent /\ \A f \in Held("agent") : ~Of(f, "req", ephem)

\* The controller on d has been told of the agent on a, will be, or has ceased
\* to be its peer.
ToldOf(a, d) ==
    \/ pc[a] \in {"upself", "uppeer", "notify", "idle"}
    \/ pc[a] = "evict" /\ peerOnline[a]
    \/ a \in met[d]
    \/ Peer(a) # d \/ ~open[d]

Heralded ==
    Now =>
       /\ (\E f \in Held("agent") : Of(f, "req", ephem)) =>
             ToldOf(link["agent"], link["client"])
       /\ \A c \in Conns :
             (\E f \in Left("client", c) : Of(f, "resp", ephem)) =>
                 ToldOf(c, link["client"])
MetIdle == \A c \in Conns : pc[c] \in {"idle"} \cup Handshaking => met[c] = {}

\* Requests and windows, one way.
ForthOpen ==
    Now =>
        /\ aSession.key = cSession.key =>
              aSession.lastRecvSeq <= cSession.sendSeq
        /\ \A f \in Way("agent") :
              f.type = "req" /\ f.seal = cSession.key =>
                  f.seq <= cSession.sendSeq

\* The frames before the first "up".
Before(s) == {s[i] : i \in {j \in DOMAIN s : \A k \in 1 .. j : s[k].type # "up"}}
NoUp(s) == \A i \in DOMAIN s : s[i].type # "up"

\* The controller made its key pair on the connection it has, or an answer has
\* come that it may open with the key pair of an earlier one.  (It never does.)
Heard ==
    /\ link["client"] # None
    /\ LET d == link["client"] IN
       \/ open[d] /\ met[d] # {} /\ NoUp(toFar[d])
       \/ Now /\ \/ cSession.lastRecvSeq > 0
                 \/ \E f \in Before(toFar[d]) : Of(f, "resp", ephem)

NoReturn(s) == \A i, j \in DOMAIN s : i < j => ~(Asks(s[i]) /\ Offers(s[j]))

InLine ==
    Heard =>
      LET d == link["client"]  a == link["agent"] IN
        /\ \A c \in Conns \ {d} :
              \A f \in Left("agent", c) : ~Asks(f) /\ ~Offers(f)
        /\ who[d].kind = "client" =>
              /\ NoReturn(toHub[d])
              /\ Used \/ (\E f \in Held("agent") : Asks(f))
                   => \A f \in Range(toHub[d]) : ~Offers(f)
        /\ a # None => NoReturn(toFar[a])
        /\ Used => \A f \in Held("agent") : ~Offers(f)

BackOpen ==
    Heard /\ cSession # NoSession /\ aSession.key = cSession.key =>
        /\ cSession.lastRecvSeq <= aSession.sendSeq
        /\ \A f \in Way("client") :
              f.type = "resp" /\ f.seal = cSession.key =>
                  f.seq <= aSession.sendSeq

EpochWin == KeysBorn /\ Unasked /\ ForthOpen /\ Unanswered
ToldWin  == Unserved /\ Heralded /\ MetIdle
WinInv   == EpochWin /\ ToldWin /\ InLine /\ BackOpen
WinBase  == CallBase /\ PairInv /\ CallInv

LEMMA WindowsOpenFrom ==
  ASSUME WinBase, WinInv
  PROVE  WindowsOpen
<1> USE DEF WinBase, CallBase, CallInv, WinInv, EpochWin
<1> SUFFICES ASSUME aSession # NoSession, aSession.key = cSession.key
             PROVE  /\ cSession.lastRecvSeq <= aSession.sendSeq
                    /\ aSession.lastRecvSeq <= cSession.sendSeq
  BY DEF WindowsOpen
<1>1. aSession \in Sessions /\ cSession \in Sessions
  BY DEF SessionTypeOK
<1>2. aSession.key[2] = ephem /\ ephem # 0
  BY DEF Epochs, KeysBorn
<1>3. cSession # NoSession
  BY <1>2 DEF NoSession
<1>4. Now
  BY <1>2, <1>3 DEF Now
<1>5. link["client"] # None
  BY <1>3 DEF Epochs
<1>6. cSession.lastRecvSeq <= aSession.sendSeq
  <2>1. CASE Heard
    BY <1>3, <2>1 DEF BackOpen
  <2>2. CASE ~Heard
    <3>1. ~(cSession.lastRecvSeq > 0)
      BY <1>4, <1>5, <2>2 DEF Heard
    <3>2. cSession.lastRecvSeq \in Nat /\ aSession.sendSeq \in Nat
      BY <1>1 DEF Sessions
    <3> QED BY <3>1, <3>2
  <2> QED BY <2>1, <2>2
<1> QED BY <1>4, <1>6 DEF ForthOpen

-----------------------------------------------------------------------------
(* What is on the way.                                                     *)

LEMMA WayParts ==
  ASSUME NEW p
  PROVE  /\ Held(p) \subseteq Way(p)
         /\ \A c \in Conns : Left(p, c) \subseteq Way(p)
         /\ \A f \in Way(p) : f \in Held(p) \/ \E c \in Conns : f \in Left(p, c)
BY DEF Way

LEMMA WayTyped ==
  ASSUME SessionTypeOK, NEW p \in Programs
  PROVE  Way(p) \subseteq Frames
<1>1. \A c \in Conns : /\ Range(toFar[c]) \subseteq Frames
                       /\ Range(toHub[c]) \subseteq Frames
  BY DEF SessionTypeOK, Range
<1>2. link[p] # None => link[p] \in Conns
  BY DEF SessionTypeOK
<1> QED BY <1>1, <1>2 DEF Way, Held, Left

LEMMA WayIds ==
  ASSUME NEW p, NEW type, NEW e
  PROVE  /\ \A f \in Held(p) : Of(f, type, e) => f.id \in Ahead(p, type, e)
         /\ \A c \in Conns : \A f \in Left(p, c) :
               Of(f, type, e) => f.id \in Behind(p, c, type, e)
         /\ \A f \in Way(p) : Of(f, type, e) => f.id \in Coming(p, type, e)
<1>1. ASSUME NEW f \in Held(p), Of(f, type, e)
      PROVE  f.id \in Ahead(p, type, e)
  BY <1>1 DEF Held, Ahead, Ids, Range
<1>2. ASSUME NEW c \in Conns, NEW f \in Left(p, c), Of(f, type, e)
      PROVE  f.id \in Behind(p, c, type, e)
  BY <1>2 DEF Left, Behind, Ids, Range
<1> QED BY <1>1, <1>2, ComingParts, WayParts

\* What the invariant of the calls says of them.
LEMMA WayCalls ==
  ASSUME SessionTypeOK, CallInv
  PROVE  /\ \A f \in Way("client"), g \in Way("agent") :
               ~(Of(f, "hs", ephem) /\ Of(g, "req", ephem))
         /\ \A f \in Way("client") : f.type = "hs" => f.key <= ephem
         /\ cSession # NoSession =>
               link["client"] # None /\ cSession.key[2] <= ephem
         /\ Now =>
               /\ \A f \in Way("client") : ~Of(f, "hs", ephem)
               /\ \A c \in Conns \ {link["client"]} :
                     \A f \in Left("agent", c) : ~Of(f, "req", ephem)
<1> USE DEF CallInv
<1> PICK e \in Nat : e = ephem
  BY DEF SessionTypeOK
<1>1. \A f \in Way("client"), g \in Way("agent") :
         ~(Of(f, "hs", e) /\ Of(g, "req", e))
  BY WayIds DEF Announced
<1>2. ASSUME NEW f \in Way("client"), f.type = "hs"
      PROVE  f.key <= ephem
  <2>1. f.key \in Nat
    BY WayTyped DEF Frames, Programs
  <2>2. Of(f, "hs", f.key)
    BY <1>2 DEF Of, Epoch
  <2> QED BY <2>1, <2>2, WayIds DEF Epochs
<1>3. ASSUME Now
      PROVE  /\ \A f \in Way("client") : ~Of(f, "hs", e)
             /\ \A c \in Conns \ {link["client"]} :
                   \A f \in Left("agent", c) : ~Of(f, "req", e)
  BY <1>3, WayIds DEF Announced, Now
<1> QED BY <1>1, <1>2, <1>3 DEF Epochs

\* A frame that the hub forwards moves on.
Moves(c, p) ==
    /\ link[p] # None /\ Peer(c) = link[p] /\ open[link[p]]
    /\ who[c].kind = Opposite(p)

LEMMA ForwardWay ==
  ASSUME SessionTypeOK, Typed, NoGhost, Linked, NEW c \in Conns, Forward(c)
  PROVE  LET h == Head(toHub[c]) IN
         /\ UNCHANGED <<vars, link, ends>>
         /\ pc[c] = "serve"
         /\ h \in Range(toHub[c])
         /\ toHub'[c] = Tail(toHub[c])
         /\ \A q \in Conns \ {c} : toHub'[q] = toHub[q]
         /\ toHub[c] \in Seq(Frames) /\ toHub[c] # <<>>
         /\ \A p \in Programs : \A q \in Conns :
               Left(p, q)' \subseteq Left(p, q)
         /\ \A p \in Programs :
               \/ Held(p)' = Held(p) /\ UNCHANGED toFar[link[p]]
               \/ /\ Moves(c, p)
                  /\ h \in Left(p, c)
                  /\ Held(p)' \subseteq Held(p) \cup {h}
                  /\ toFar'[link[p]] = Append(toFar[link[p]], h)
               \/ link[p] = None /\ Held(p)' = Held(p)
<1> DEFINE h == Head(toHub[c])
<1>1. /\ UNCHANGED <<vars, link, ends>>
      /\ pc[c] = "serve"
      /\ toHub[c] \in Seq(Frames) /\ toHub[c] # <<>>
      /\ toHub'[c] = Tail(toHub[c])
      /\ \A q \in Conns \ {c} : toHub'[q] = toHub[q]
      /\ \A q \in Conns : toFar'[q] = IF q = Peer(c) /\ open[q]
                                        THEN Append(toFar[q], h) ELSE toFar[q]
  BY DEF Forward, Written, SessionTypeOK
<1>2. /\ h \in Range(toHub[c]) /\ h \in Frames
      /\ \A q \in Conns : Range(toHub'[q]) \subseteq Range(toHub[q])
  BY <1>1, FrameRange
<1>3. who' = who
  BY <1>1 DEF vars
<1> HIDE DEF h
<1>4. \A p \in Programs : \A q \in Conns : Left(p, q)' \subseteq Left(p, q)
  BY <1>2, <1>3 DEF Left
<1>5. ASSUME NEW p \in Programs
      PROVE  \/ Held(p)' = Held(p) /\ UNCHANGED toFar[link[p]]
             \/ /\ Moves(c, p)
                /\ h \in Left(p, c)
                /\ Held(p)' \subseteq Held(p) \cup {h}
                /\ toFar'[link[p]] = Append(toFar[link[p]], h)
             \/ link[p] = None /\ Held(p)' = Held(p)
  <2>1. CASE link[p] = None
    BY <1>1, <2>1 DEF Held
  <2>2. link[p] # None => link[p] \in Conns /\ toFar[link[p]] \in Seq(Frames)
    BY DEF SessionTypeOK
  <2>3. CASE link[p] # None /\ ~(Peer(c) = link[p] /\ open[link[p]])
    <3>1. toFar'[link[p]] = toFar[link[p]]
      BY <1>1, <2>2, <2>3
    <3> QED BY <1>1, <3>1 DEF Held
  <2>4. CASE link[p] # None /\ Peer(c) = link[p] /\ open[link[p]]
    <3>1. who[c].kind = Opposite(p)
      BY <1>1, <2>4, PeerSide
    <3>2. toFar'[link[p]] = Append(toFar[link[p]], h)
      BY <1>1, <2>2, <2>4
    <3>3. Range(toFar'[link[p]]) = Range(toFar[link[p]]) \cup {h}
      BY <1>2, <2>2, <2>4, <3>2, FrameRange
    <3>4. Held(p)' \subseteq Held(p) \cup {h}
      BY <1>1, <2>4, <3>3 DEF Held
    <3>5. h \in Left(p, c)
      BY <1>2, <3>1 DEF Left
    <3> QED BY <2>4, <3>1, <3>2, <3>4, <3>5 DEF Moves
  <2> QED BY <2>1, <2>3, <2>4
<1> QED BY <1>1, <1>2, <1>4, <1>5 DEF h

\* The other steps of the hub write notices and drop frames.
LEMMA NoticeWay ==
  ASSUME SessionTypeOK, TypeOK, NEW c \in Conns, HubStep(c), ~Forward(c)
  PROVE  /\ UNCHANGED <<link, ends>>
         /\ \A p \in Programs : \A q \in Conns :
               Left(p, q)' \subseteq Left(p, q)
         /\ \A p \in Programs : Held(p)' \subseteq Held(p)
<1>1. /\ \A q \in Conns :
               /\ who'[q] = who[q] \/ who'[q] = Nobody
               /\ toHub'[q] = toHub[q] \/ toHub'[q] = <<>>
               /\ \/ toFar'[q] = toFar[q]
                  \/ toFar'[q] = Append(toFar[q], Notice("up"))
                  \/ toFar'[q] = Append(toFar[q], Notice("down"))
      /\ link' = link
      /\ UNCHANGED ends
  BY HubWires
<1>2. \A q \in Conns : toHub[q] \in Seq(Frames) /\ toFar[q] \in Seq(Frames)
  BY DEF SessionTypeOK
<1>3. \A q \in Conns : Range(toHub'[q]) \subseteq Range(toHub[q])
  BY <1>1, <1>2, FrameRange
<1>4. \A p \in Programs : \A q \in Conns : Left(p, q)' \subseteq Left(p, q)
  <2> SUFFICES ASSUME NEW p \in Programs, NEW q \in Conns
               PROVE  Left(p, q)' \subseteq Left(p, q)
    OBVIOUS
  <2>1. CASE who'[q] = who[q]
    BY <1>3, <2>1 DEF Left
  <2>2. CASE who'[q] = Nobody
    <3>1. who'[q].kind # Opposite(p)
      BY <2>2 DEF Nobody, Opposite
    <3> QED BY <3>1 DEF Left
  <2> QED BY <1>1, <2>1, <2>2
<1>5. ASSUME NEW q \in Conns, NEW f \in Range(toFar'[q]), f.type \in Spoken
      PROVE  f \in Range(toFar[q])
  <2>1. ASSUME NEW n \in {Notice("up"), Notice("down")},
               toFar'[q] = Append(toFar[q], n)
        PROVE  f \in Range(toFar[q])
    <3>1. n \in Frames /\ n.type \notin Spoken
      BY FrameRecords DEF Notice, Spoken
    <3>2. Range(toFar'[q]) = Range(toFar[q]) \cup {n}
      BY <1>2, <2>1, <3>1, FrameRange
    <3> QED BY <1>5, <3>1, <3>2
  <2> QED BY <1>1, <1>5, <2>1
<1>6. \A p \in Programs : Held(p)' \subseteq Held(p)
  <2> SUFFICES ASSUME NEW p \in Programs PROVE Held(p)' \subseteq Held(p)
    OBVIOUS
  <2>1. link[p] # None => link[p] \in Conns
    BY DEF SessionTypeOK
  <2> QED BY <1>1, <1>5, <2>1 DEF Held
<1> QED BY <1>1, <1>4, <1>6

\* Connecting and leaving lose frames.
LEMMA LinkWay ==
  ASSUME SessionTypeOK, TypeOK, NEW q \in Programs,
         \/ LinkLost(q)
         \/ \E c \in Conns, d \in Devices, id \in Creds \cup {None} :
                Dial(q, c, d, id)
  PROVE  /\ \A p \in Programs : \A x \in Conns :
               Left(p, x)' \subseteq Left(p, x)
         /\ \A p \in Programs : Held(p)' \subseteq Held(p)
<1>1. \A x \in Conns : toHub[x] \in Seq(Frames) /\ toFar[x] \in Seq(Frames)
  BY DEF SessionTypeOK
<1>2. \A p \in Programs : link[p] # None => link[p] \in Conns
  BY DEF SessionTypeOK
<1>3. CASE LinkLost(q)
  <2>1. /\ who' = who /\ toHub' = toHub
        /\ link' = [link EXCEPT ![q] = None]
        /\ toFar' = Emptied(link[q], toFar)
    BY <1>3 DEF LinkLost, Leave, vars
  <2>2. ASSUME NEW p \in Programs PROVE Held(p)' \subseteq Held(p)
    <3>1. CASE link'[p] = None
      BY <3>1 DEF Held
    <3>2. CASE link'[p] # None
      <4>1. link'[p] = link[p] /\ link[p] \in Conns
        BY <1>2, <2>1, <3>2 DEF SessionTypeOK
      <4>2. Range(toFar'[link[p]]) \subseteq Range(toFar[link[p]])
        BY <1>1, <2>1, <4>1, FrameRange DEF Emptied, SessionTypeOK
      <4> QED BY <3>2, <4>1, <4>2 DEF Held
    <3> QED BY <3>1, <3>2
  <2> QED BY <2>1, <2>2 DEF Left
<1>4. ASSUME NEW c \in Conns, NEW d \in Devices, NEW id \in Creds \cup {None},
             Dial(q, c, d, id)
      PROVE  /\ \A p \in Programs : \A x \in Conns :
                   Left(p, x)' \subseteq Left(p, x)
             /\ \A p \in Programs : Held(p)' \subseteq Held(p)
  <2>1. /\ \A x \in Conns \ {c} : who'[x] = who[x] /\ toHub'[x] = toHub[x]
        /\ toHub'[c] = <<>> /\ toFar'[c] = <<>>
        /\ \A x \in Conns \ {c} : toFar'[x] = toFar[x]
        /\ link' = [link EXCEPT ![q] = c]
        /\ \A p \in Programs : link[p] # c
    BY <1>4 DEF Dial, Hello, Emptied, SessionTypeOK, TypeOK
  <2>2. Range(<<>>) = {}
    BY <1>1, FrameRange
  <2>3. ASSUME NEW p \in Programs, NEW x \in Conns
        PROVE  Left(p, x)' \subseteq Left(p, x)
    BY <2>1, <2>2 DEF Left
  <2>4. ASSUME NEW p \in Programs PROVE Held(p)' \subseteq Held(p)
    <3>1. CASE link'[p] = c
      BY <2>1, <2>2, <3>1 DEF Held
    <3>2. CASE link'[p] # c
      <4>1. link'[p] = link[p]
        BY <2>1, <3>2 DEF SessionTypeOK
      <4>2. link[p] # None => toFar'[link[p]] = toFar[link[p]]
        BY <1>2, <2>1
      <4> QED BY <4>1, <4>2 DEF Held
    <3> QED BY <3>1, <3>2
  <2> QED BY <2>3, <2>4
<1> QED BY <1>3, <1>4

\* A program reads a frame, and may write to its own connection.
LEMMA ReadWay ==
  ASSUME SessionTypeOK, Linked, NEW q \in Programs, NEW t, Incoming(q, t),
         UNCHANGED who, UNCHANGED link,
         \A d \in Conns \ {link[q]} : toHub'[d] = toHub[d]
  PROVE  /\ link[q] \in Conns /\ toFar[link[q]] \in Seq(Frames)
         /\ toFar[link[q]] # <<>>
         /\ First(q) = Head(toFar[link[q]])
         /\ First(q) \in Frames /\ First(q).type = t
         /\ t \in Spoken => First(q) \in Held(q)
         /\ toFar'[link[q]] = Tail(toFar[link[q]])
         /\ \A d \in Conns \ {link[q]} : toFar'[d] = toFar[d]
         /\ \A p \in Programs : Held(p)' \subseteq Held(p)
         /\ \A c \in Conns : Left(q, c)' = Left(q, c)
         /\ Way(q)' \subseteq Way(q)
         /\ \A p \in Programs : link[p] # link[q] => Held(p)' = Held(p)
<1>1. /\ link[q] \in Conns /\ toFar[link[q]] \in Seq(Frames)
      /\ toFar[link[q]] # <<>>
      /\ First(q) \in Frames /\ First(q).type = t
      /\ First(q) = Head(toFar[link[q]])
      /\ link[q] # None
  BY IncomingTyped DEF Incoming, Reads, First
<1>2. /\ toFar'[link[q]] = Tail(toFar[link[q]])
      /\ \A d \in Conns \ {link[q]} : toFar'[d] = toFar[d]
  BY <1>1 DEF Incoming, SessionTypeOK
<1>3. /\ First(q) \in Range(toFar[link[q]])
      /\ \A d \in Conns : Range(toFar'[d]) \subseteq Range(toFar[d])
  BY <1>1, <1>2, FrameRange
<1>4. \A p \in Programs : link[p] # None => link[p] \in Conns
  BY DEF SessionTypeOK
<1>5. /\ \A p \in Programs : Held(p)' \subseteq Held(p)
      /\ \A p \in Programs : link[p] # link[q] => Held(p)' = Held(p)
  BY <1>2, <1>3, <1>4 DEF Held
<1>6. who[link[q]].kind # Opposite(q)
  BY <1>1 DEF Linked, Opposite, Programs
<1>7. \A c \in Conns : Left(q, c)' = Left(q, c)
  BY <1>6 DEF Left
<1>8. t \in Spoken => First(q) \in Held(q)
  BY <1>1, <1>3 DEF Held
<1>9. Way(q)' \subseteq Way(q)
  BY <1>5, <1>7 DEF Way
<1> QED BY <1>1, <1>2, <1>5, <1>7, <1>8, <1>9

\* What it writes is on the way to the other side.
LEMMA WriteWay ==
  ASSUME UNCHANGED who, NEW l \in Conns, NEW S,
         \A d \in Conns \ {l} : toHub'[d] = toHub[d],
         Range(toHub'[l]) \subseteq Range(toHub[l]) \cup S,
         NEW p, Held(p)' \subseteq Held(p)
  PROVE  /\ \A c \in Conns : Left(p, c)' \subseteq Left(p, c) \cup S
         /\ \A c \in Conns \ {l} : Left(p, c)' = Left(p, c)
         /\ Way(p)' \subseteq Way(p) \cup S
<1>1. /\ \A c \in Conns : Left(p, c)' \subseteq Left(p, c) \cup S
      /\ \A c \in Conns \ {l} : Left(p, c)' = Left(p, c)
  BY DEF Left
<1> QED BY <1>1 DEF Way

-----------------------------------------------------------------------------
(* Steps that write nothing and make no session.                           *)

Still ==
    /\ UNCHANGED <<ephem, kp, sentHs>>
    /\ Way("agent")' \subseteq Way("agent")
    /\ Way("client")' \subseteq Way("client")
    /\ aSession' = aSession \/ aSession' = NoSession
    /\ cSession' = cSession \/ cSession' = NoSession

LEMMA StillUsed ==
  ASSUME SessionTypeOK, Still
  PROVE  /\ Used' => Used
         /\ \A f : Asks(f)' = Asks(f) /\ Offers(f)' = Offers(f)
         /\ Now' => Now /\ cSession' = cSession
         /\ Silent => Silent'
<1>1. /\ Used' => Used
      /\ \A f : Asks(f)' = Asks(f) /\ Offers(f)' = Offers(f)
  BY DEF Still, Used, Asks, Offers, Answers, NoSession
<1>2. Now' => Now /\ cSession' = cSession
  BY DEF Still, Now, NoSession
<1>3. Silent => Silent'
  BY DEF Still, Silent, Of, Epoch, NoSession
<1> QED BY <1>1, <1>2, <1>3

LEMMA StillEpoch ==
  ASSUME SessionTypeOK, EpochWin, Still
  PROVE  EpochWin'
<1> USE DEF EpochWin
<1>1. kp \in Nat /\ aSession \in Sessions /\ cSession \in Sessions
  BY DEF SessionTypeOK
<1>2. KeysBorn'
  BY <1>1 DEF KeysBorn, Still, NoSession
<1>3. Unasked'
  BY StillUsed DEF Unasked, Still
<1>4. ForthOpen'
  <2> SUFFICES ASSUME Now' PROVE ForthOpen'
    BY DEF ForthOpen
  <2>1. Now /\ cSession' = cSession
    BY StillUsed
  <2>2. aSession'.key = cSession'.key =>
           aSession'.lastRecvSeq <= cSession'.sendSeq
    <3>1. CASE aSession' = aSession
      BY <2>1, <3>1 DEF ForthOpen
    <3>2. CASE aSession' = NoSession
      BY <1>1, <2>1, <3>2 DEF NoSession, Sessions
    <3> QED BY <3>1, <3>2 DEF Still
  <2> QED BY <2>1, <2>2 DEF ForthOpen, Still
<1>5. Unanswered'
  BY StillUsed DEF Unanswered, Still
<1> QED BY <1>2, <1>3, <1>4, <1>5

LEMMA StillBack ==
  ASSUME SessionTypeOK, EpochWin, BackOpen, Still, Heard' => Heard
  PROVE  BackOpen'
<1> SUFFICES ASSUME Heard, cSession' # NoSession, aSession'.key = cSession'.key
             PROVE  /\ cSession'.lastRecvSeq <= aSession'.sendSeq
                    /\ \A f \in Way("client")' :
                          f.type = "resp" /\ f.seal = cSession'.key =>
                              f.seq <= aSession'.sendSeq
  BY DEF BackOpen
<1>1. cSession' = cSession
  BY DEF Still
<1>2. cSession.key[1] # 0
  BY <1>1 DEF EpochWin, KeysBorn
<1>3. aSession' = aSession
  BY <1>1, <1>2 DEF Still, NoSession
<1> QED BY <1>1, <1>3 DEF Still, BackOpen

-----------------------------------------------------------------------------
(* The controller is told of the agents whose answers it gets.             *)

\* A step of the hub's on connection c.
OnHub(c) ==
    \/ Evict(c) \/ ReadFails(c) \/ GiveBack(c) \/ Swap(c) \/ UpSelf(c)
    \/ UpPeer(c) \/ NotifyDown(c) \/ HandshakeFails(c) \/ Auth(c)
    \/ RemoteCloses(c)

LEMMA HubOn ==
  ASSUME NEW c \in Conns, HubStep(c), ~Forward(c)
  PROVE  OnHub(c)
BY DEF HubStep, Hub, HubQuiet, HubSwap, HubUpSelf, HubUpPeer, HubNotifyDown,
       HubHandshakeFails, Answer, HubLosesLink, OnHub

LEMMA ToldStays ==
  ASSUME TypeOK, Placed, NEW c \in Conns, OnHub(c), NEW a \in Conns,
         NEW d \in Conns, pc[d] \notin NotYet, ToldOf(a, d)
  PROVE  ToldOf(a, d)'
<1> USE DEF TypeOK, NotYet, Announcing, Handshaking, Goto, ToldOf,
            store, local, notices, history
<1>1. CASE Evict(c)
  BY <1>1 DEF Evict, Closed, Peer
<1>2. CASE ReadFails(c) \/ Auth(c)
  BY <1>2 DEF ReadFails, Auth, Peer
<1>3. CASE RemoteCloses(c)
  BY <1>3 DEF RemoteCloses, Peer
<1>4. CASE GiveBack(c)
  <2>1. Peer(a) # d => Peer(a)' # d
    BY <1>4, TunnelConstants DEF GiveBack, Peer
  <2> QED BY <1>4, <2>1 DEF GiveBack
<1>5. CASE Swap(c)
  <2>1. c # d
    BY <1>5 DEF Swap
  <2>2. Peer(a) # d => Peer(a)' # d
    BY <1>5, <2>1 DEF Swap, Peer
  <2> QED BY <1>5, <2>2 DEF Swap
<1>6. CASE UpSelf(c)
  BY <1>6 DEF UpSelf, Peer
<1>7. CASE UpPeer(c)
  BY <1>7 DEF UpPeer, Peer
<1>8. CASE NotifyDown(c) \/ HandshakeFails(c)
  <2>1. a # c => Peer(a)' = Peer(a)
    BY <1>8 DEF NotifyDown, HandshakeFails, Finish, Peer
  <2> QED BY <1>8, <2>1 DEF NotifyDown, HandshakeFails, Finish
<1> QED BY <1>1, <1>2, <1>3, <1>4, <1>5, <1>6, <1>7, <1>8 DEF OnHub

\* A connection is served once.
LEMMA NotYetAgain ==
  ASSUME TypeOK, NEW c \in Conns, OnHub(c), NEW d \in Conns,
         pc'[d] \in NotYet
  PROVE  pc[d] \in NotYet
BY DEF TypeOK, NotYet, Announcing, Handshaking, Goto, OnHub, Evict, ReadFails,
       GiveBack, Swap, UpSelf, UpPeer, NotifyDown, Finish, HandshakeFails, Auth,
       RemoteCloses, local, notices, history, store

LEMMA MetIdleStep ==
  ASSUME TypeOK, Placed, NoGhost, MetIdle, NEW c \in Conns, OnHub(c)
  PROVE  MetIdle'
<1> USE DEF TypeOK, Handshaking, Goto, MetIdle, store, local, notices, history
<1>1. CASE \/ Evict(c) \/ ReadFails(c) \/ Auth(c) \/ RemoteCloses(c)
           \/ GiveBack(c) \/ Swap(c)
  BY <1>1 DEF Evict, ReadFails, Auth, RemoteCloses, GiveBack, Swap
<1>2. CASE UpSelf(c)
  BY <1>2 DEF UpSelf
<1>3. CASE UpPeer(c)
  <2>1. who[c].dev \in Devices
    BY <1>3 DEF UpPeer, Placed
  <2>2. ASSUME NEW p \in Conns, p = Peer(c) PROVE pc[p] \in InMap
    BY <2>1, <2>2, TunnelConstants DEF NoGhost, Peer, Opposite, Kinds
  <2> QED BY <1>3, <2>2 DEF UpPeer, InMap, Announcing, Serving
<1>4. CASE NotifyDown(c) \/ HandshakeFails(c)
  BY <1>4 DEF NotifyDown, HandshakeFails, Finish
<1> QED BY <1>1, <1>2, <1>3, <1>4 DEF OnHub

LEMMA ToldByPair ==
  ASSUME Typed, NoGhost, PairInv, NEW d \in Conns, NEW a \in Conns,
         pc[d] = "serve", who[d].kind = "client", Peer(d) = a
  PROVE  ToldOf(a, d)
<1>1. who[d].dev \in Devices
  BY DEF Typed, Placed
<1>2. slot["agent"][who[d].dev] = a
  BY DEF Peer, Opposite
<1>3. who[a].kind = "agent" /\ who[a].dev = who[d].dev
  BY <1>1, <1>2, TunnelConstants DEF NoGhost, Kinds
<1>4. CASE slot["client"][who[d].dev] = d
  <2>1. Leads(a, d) \/ Leads(d, a)
    BY <1>1, <1>2, <1>4 DEF PairInv
  <2> QED BY <2>1 DEF Leads, ToldOf
<1>5. CASE slot["client"][who[d].dev] # d
  BY <1>3, <1>5 DEF ToldOf, Peer, Opposite
<1> QED BY <1>4, <1>5

\* What a step off the hub, or one that loses frames, leaves of it.
LEMMA StillTold ==
  ASSUME SessionTypeOK, ToldWin, UNCHANGED vars,
         Held("agent")' \subseteq Held("agent"),
         \A c \in Conns : Left("client", c)' \subseteq Left("client", c),
         Silent => Silent', UNCHANGED ephem,
         Now' => Now /\ link'["client"] = link["client"],
         link'["agent"] = link["agent"] \/ Held("agent")' = {}
  PROVE  ToldWin'
<1> USE DEF ToldWin
<1>1. /\ \A a, d : ToldOf(a, d)' = ToldOf(a, d)
      /\ pc' = pc /\ met' = met
  BY DEF vars, ToldOf, Peer
<1>2. MetIdle'
  BY <1>1 DEF MetIdle
<1>3. Unserved'
  BY <1>1 DEF Unserved, Of, Epoch
<1>4. Heralded'
  BY <1>1 DEF Heralded, Of, Epoch
<1> QED BY <1>2, <1>3, <1>4

LEMMA ForwardTold ==
  ASSUME WinBase, EpochWin, ToldWin, NEW c \in Conns, Forward(c)
  PROVE  Still /\ ToldWin'
<1> USE DEF WinBase, CallBase, CallInv, ToldWin
<1> DEFINE h == Head(toHub[c])
           d == link["client"]
<1>1. Typed /\ NoGhost
  BY DEF SeatInv
<1>2. /\ UNCHANGED <<vars, link, ends>>
      /\ pc[c] = "serve"
      /\ \A p \in Programs : \A q \in Conns : Left(p, q)' \subseteq Left(p, q)
      /\ \A p \in Programs : \/ Held(p)' \subseteq Held(p)
                             \/ /\ Moves(c, p)
                                /\ h \in Left(p, c)
                                /\ Held(p)' \subseteq Held(p) \cup {h}
  BY <1>1, ForwardWay
<1> HIDE DEF h
<1>3. "agent" \in Programs /\ "client" \in Programs
  BY DEF Programs
<1>4. \A p \in Programs : Way(p)' \subseteq Way(p)
  BY <1>2 DEF Way
<1>5. Still
  BY <1>2, <1>3, <1>4 DEF Still, ends, agentEnd, keyEnd
<1>6. /\ \A a, e : ToldOf(a, e)' = ToldOf(a, e)
      /\ pc' = pc /\ met' = met
      /\ Silent => Silent'
      /\ Now' => Now
      /\ UNCHANGED <<ephem, link>>
  BY <1>2, <1>5, StillUsed DEF vars, ToldOf, Peer, Still
<1>7. \A f : Of(f, "req", ephem)' = Of(f, "req", ephem) /\ Of(f, "resp", ephem)' = Of(f, "resp", ephem)
  BY <1>6 DEF Of, Epoch
<1>8. ASSUME Now, NEW f \in Held("agent")', Of(f, "req", ephem),
             f \notin Held("agent")
      PROVE  c = d /\ Moves(c, "agent")
  BY <1>2, <1>3, <1>8, WayCalls
<1>9. Unserved'
  <2> SUFFICES ASSUME Now', pc'[d] \in NotYet
               PROVE  Silent' /\ \A f \in Held("agent")' : ~Of(f, "req", ephem)
    BY <1>6, <1>7 DEF Unserved
  <2>1. Now /\ pc[d] \in NotYet /\ c # d
    BY <1>2, <1>6 DEF NotYet, Handshaking, Announcing
  <2> QED BY <1>6, <1>8, <2>1 DEF Unserved
<1>10. Heralded'
  <2> SUFFICES ASSUME Now
               PROVE  /\ (\E f \in Held("agent")' : Of(f, "req", ephem)) =>
                            ToldOf(link["agent"], d)
                      /\ \A q \in Conns :
                            (\E f \in Left("client", q)' : Of(f, "resp", ephem))
                               => ToldOf(q, d)
    BY <1>6, <1>7 DEF Heralded
  <2>1. ASSUME NEW f \in Held("agent")', Of(f, "req", ephem)
        PROVE  ToldOf(link["agent"], d)
    <3>1. CASE f \in Held("agent")
      BY <2>1, <3>1 DEF Heralded
    <3>2. CASE f \notin Held("agent")
      <4>1. c = d /\ Moves(c, "agent")
        BY <1>8, <2>1, <3>2
      <4>2. link["agent"] \in Conns
        BY <1>3, <4>1 DEF Moves, SessionTypeOK
      <4> QED BY <1>1, <1>2, <4>1, <4>2, ToldByPair DEF Moves, Opposite
    <3> QED BY <3>1, <3>2
  <2>2. ASSUME NEW q \in Conns, NEW f \in Left("client", q)',
               Of(f, "resp", ephem)
        PROVE  ToldOf(q, d)
    BY <1>2, <1>3, <2>2 DEF Heralded
  <2> QED BY <2>1, <2>2
<1>11. MetIdle'
  BY <1>6 DEF MetIdle
<1> QED BY <1>5, <1>9, <1>10, <1>11

LEMMA NoticeTold ==
  ASSUME WinBase, EpochWin, ToldWin, NEW c \in Conns, HubStep(c), ~Forward(c)
  PROVE  Still /\ ToldWin'
<1> USE DEF WinBase, CallBase, CallInv, ToldWin
<1> DEFINE d == link["client"]
<1>1. Typed /\ NoGhost /\ TypeOK /\ Placed
  BY DEF SeatInv, Typed
<1>2. /\ UNCHANGED <<link, ends>>
      /\ \A p \in Programs : \A q \in Conns : Left(p, q)' \subseteq Left(p, q)
      /\ \A p \in Programs : Held(p)' \subseteq Held(p)
  BY <1>1, NoticeWay
<1>3. "agent" \in Programs /\ "client" \in Programs /\ OnHub(c)
  BY HubOn DEF Programs
<1>4. \A p \in Programs : Way(p)' \subseteq Way(p)
  BY <1>2 DEF Way
<1>5. Still
  BY <1>2, <1>3, <1>4 DEF Still, ends, agentEnd, keyEnd
<1>6. /\ Silent => Silent'
      /\ Now' => Now
      /\ UNCHANGED <<ephem, link>>
      /\ \A f : /\ Of(f, "req", ephem)' = Of(f, "req", ephem)
                /\ Of(f, "resp", ephem)' = Of(f, "resp", ephem)
  BY <1>2, <1>5, StillUsed DEF Still, Of, Epoch
<1>7. Now => d \in Conns
  BY <1>3, WayCalls DEF SessionTypeOK, Now
<1>8. Unserved'
  <2> SUFFICES ASSUME Now', pc'[d] \in NotYet
               PROVE  Silent' /\ \A f \in Held("agent")' : ~Of(f, "req", ephem)
    BY <1>6 DEF Unserved
  <2>1. Now /\ pc[d] \in NotYet
    BY <1>1, <1>3, <1>6, <1>7, NotYetAgain
  <2> QED BY <1>2, <1>3, <1>6, <2>1 DEF Unserved
<1>9. Heralded'
  <2> SUFFICES ASSUME Now
               PROVE  /\ (\E f \in Held("agent")' : Of(f, "req", ephem)) =>
                            ToldOf(link["agent"], d)'
                      /\ \A q \in Conns :
                            (\E f \in Left("client", q)' : Of(f, "resp", ephem))
                               => ToldOf(q, d)'
    BY <1>6 DEF Heralded
  <2>1. ASSUME NEW f \in Held("agent")', Of(f, "req", ephem)
        PROVE  ToldOf(link["agent"], d)'
    <3>1. f \in Held("agent")
      BY <1>2, <1>3, <2>1
    <3>2. ToldOf(link["agent"], d) /\ pc[d] \notin NotYet
      BY <2>1, <3>1 DEF Heralded, Unserved
    <3>3. link["agent"] \in Conns
      BY <1>3, <3>1 DEF Held, SessionTypeOK
    <3>4. PICK e \in Conns : e = d
      BY <1>7
    <3>5. \A a \in Conns : ToldOf(a, e) => ToldOf(a, e)'
      BY <1>1, <1>3, <3>2, <3>4, ToldStays
    <3>6. link'["client"] = e /\ link'["agent"] = link["agent"]
      BY <1>6, <3>4
    <3> QED BY <3>2, <3>3, <3>4, <3>5, <3>6
  <2>2. ASSUME NEW q \in Conns, NEW f \in Left("client", q)',
               Of(f, "resp", ephem)
        PROVE  ToldOf(q, d)'
    <3>1. f \in Left("client", q)
      BY <1>2, <1>3, <2>2
    <3>2. f \in Way("client")
      BY <3>1, WayParts
    <3>3. ToldOf(q, d) /\ pc[d] \notin NotYet
      BY <2>2, <3>1, <3>2 DEF Heralded, Unserved, Silent
    <3>4. PICK e \in Conns : e = d
      BY <1>7
    <3>5. ToldOf(q, e) => ToldOf(q, e)'
      BY <1>1, <1>3, <3>3, <3>4, ToldStays
    <3>6. link'["client"] = e
      BY <1>6, <3>4
    <3> QED BY <3>3, <3>4, <3>5, <3>6
  <2> QED BY <2>1, <2>2
<1>10. MetIdle'
  BY <1>1, <1>3, MetIdleStep
<1> QED BY <1>5, <1>8, <1>9, <1>10

LEMMA LinkLostTold ==
  ASSUME WinBase, EpochWin, ToldWin, NEW q \in Programs, LinkLost(q)
  PROVE  Still /\ ToldWin'
<1> USE DEF WinBase, CallBase, CallInv
<1>1. TypeOK
  BY DEF Typed
<1>2. /\ UNCHANGED <<vars, ephem, aSession, kp, sentHs>>
      /\ link' = [link EXCEPT ![q] = None]
      /\ q = "client" => cSession' = NoSession
      /\ q # "client" => cSession' = cSession
  BY DEF LinkLost, Leave, agentEnd
<1>3. /\ \A p \in Programs : \A x \in Conns : Left(p, x)' \subseteq Left(p, x)
      /\ \A p \in Programs : Held(p)' \subseteq Held(p)
  BY <1>1, LinkWay
<1>4. "agent" \in Programs /\ "client" \in Programs
  BY DEF Programs
<1>5. \A p \in Programs : Way(p)' \subseteq Way(p)
  BY <1>3 DEF Way
<1>6. Still
  BY <1>2, <1>4, <1>5 DEF Still
<1>7. /\ Now' => Now /\ link'["client"] = link["client"]
      /\ link'["agent"] = link["agent"] \/ Held("agent")' = {}
  <2>1. Now' => q # "client"
    BY <1>2 DEF Now
  <2>2. \A p \in Programs : link'[p] = IF p = q THEN None ELSE link[p]
    BY <1>2 DEF SessionTypeOK
  <2>3. link'["agent"] = link["agent"] \/ Held("agent")' = {}
    BY <1>4, <2>2 DEF Held
  <2> QED BY <1>4, <1>6, <2>1, <2>2, <2>3, StillUsed
<1> QED BY <1>2, <1>3, <1>4, <1>6, <1>7, StillUsed, StillTold

LEMMA DialTold ==
  ASSUME WinBase, EpochWin, ToldWin, NEW q \in Programs, NEW c \in Conns,
         NEW dev \in Devices, NEW id \in Creds \cup {None}, Dial(q, c, dev, id)
  PROVE  Still /\ ToldWin'
<1> USE DEF WinBase, CallBase, CallInv, ToldWin
<1>1. TypeOK
  BY DEF Typed
<1>2. /\ UNCHANGED <<ends, slot, met, peerOnline>>
      /\ pc[c] = "idle"
      /\ \A x \in Conns \ {c} : /\ pc'[x] = pc[x] /\ open'[x] = open[x]
                                /\ who'[x] = who[x]
      /\ pc'[c] = "challenged"
      /\ toHub'[c] = <<>> /\ toFar'[c] = <<>>
      /\ link[q] = None
      /\ link'[q] = c
      /\ \A p \in Programs \ {q} : link'[p] = link[p]
      /\ \A p \in Programs : link[p] # c
  BY <1>1 DEF Dial, Hello, Goto, local, notices, Emptied, SessionTypeOK, TypeOK
<1>3. /\ \A p \in Programs : \A x \in Conns : Left(p, x)' \subseteq Left(p, x)
      /\ \A p \in Programs : Held(p)' \subseteq Held(p)
  BY <1>1, LinkWay
<1>4. "agent" \in Programs /\ "client" \in Programs
  BY DEF Programs
<1>5. \A p \in Programs : Way(p)' \subseteq Way(p)
  BY <1>3 DEF Way
<1>6. Still
  BY <1>2, <1>4, <1>5 DEF Still, ends, agentEnd, keyEnd
<1>7. MetIdle'
  BY <1>2 DEF MetIdle, Handshaking
<1>8. Range(<<>>) = {}
  BY FrameRange DEF SessionTypeOK
<1>9. CASE ~Now'
  BY <1>6, <1>7, <1>9 DEF Unserved, Heralded
<1>10. CASE Now'
  <2> DEFINE d == link["client"]
  <2>1. Now /\ q = "agent" /\ d \in Conns /\ d # c /\ link'["client"] = d
    <3>1. Now /\ link["client"] # None
      BY <1>6, <1>10, StillUsed, WayCalls DEF Now
    <3> QED BY <1>2, <1>4, <3>1 DEF SessionTypeOK, Programs
  <2>2. Held("agent")' = {} /\ Left("client", c)' = {}
    BY <1>2, <1>8, <2>1 DEF Held, Left
  <2>3. PICK e \in Conns : e = d
    BY <2>1
  <2>4. \A a \in Conns \ {c} : ToldOf(a, e)' = ToldOf(a, e)
    BY <1>2, <2>1, <2>3 DEF ToldOf, Peer
  <2>5. Silent => Silent'
    BY <1>6, StillUsed
  <2>6. \A f : Of(f, "resp", ephem)' = Of(f, "resp", ephem)
    BY <1>6 DEF Of, Epoch, Still
  <2>7. Unserved'
    BY <1>2, <1>10, <2>1, <2>2, <2>5 DEF Unserved
  <2>8. Heralded'
    <3>1. ASSUME NEW x \in Conns, NEW f \in Left("client", x)',
                 Of(f, "resp", ephem)
          PROVE  ToldOf(x, e)'
      <4>1. x # c /\ f \in Left("client", x)
        BY <1>3, <1>4, <2>2, <3>1
      <4>2. Of(f, "resp", ephem)
        BY <3>1
      <4>3. ToldOf(x, d)
        BY <2>1, <4>1, <4>2 DEF Heralded
      <4> QED BY <2>3, <2>4, <4>1, <4>3
    <3>2. link'["client"] = e
      BY <2>1, <2>3
    <3> QED BY <2>2, <2>6, <3>1, <3>2 DEF Heralded
  <2> QED BY <1>6, <1>7, <2>7, <2>8
<1> QED BY <1>9, <1>10

-----------------------------------------------------------------------------
(* The agent's steps.                                                      *)

\* What they have in common: a frame is read, and the hub and the controller
\* keep still.
LEMMA AgentReads ==
  ASSUME SessionTypeOK, Linked, NEW t, Incoming("agent", t),
         UNCHANGED <<vars, link, keyEnd>>,
         toHub' = toHub \/ \E f \in Frames : Sends("agent", <<f>>)
  PROVE  LET a == link["agent"]  f == First("agent") IN
         /\ a \in Conns /\ a # link["client"]
         /\ f \in Frames /\ f.type = t
         /\ toFar[a] \in Seq(Frames) /\ toFar[a] # <<>>
         /\ f = Head(toFar[a]) /\ toFar'[a] = Tail(toFar[a])
         /\ \A d \in Conns \ {a} : toFar'[d] = toFar[d] /\ toHub'[d] = toHub[d]
         /\ t \in Spoken => f \in Held("agent") /\ f \in Way("agent")
         /\ Held("agent")' \subseteq Held("agent")
         /\ Way("agent")' \subseteq Way("agent")
         /\ Held("client")' = Held("client")
         /\ UNCHANGED toHub => /\ \A c \in Conns :
                                     Left("client", c)' = Left("client", c)
                               /\ Way("client")' = Way("client")
         /\ \A g \in Frames : Sends("agent", <<g>>) =>
               /\ \A c \in Conns : Left("client", c)' \subseteq
                                      Left("client", c) \cup {g}
               /\ \A c \in Conns \ {a} : Left("client", c)' = Left("client", c)
               /\ Way("client")' \subseteq Way("client") \cup {g}
<1> DEFINE a == link["agent"]  f == First("agent")
<1>1. "agent" \in Programs /\ "client" \in Programs /\ UNCHANGED who
  BY DEF Programs, vars
<1>2. a # None /\ a # link["client"] /\ a \in Conns
  BY <1>1 DEF Incoming, Reads, Linked, SessionTypeOK
<1>3. \A d \in Conns \ {a} : toHub'[d] = toHub[d]
  BY <1>1, <1>2, SendsOne
<1>4. /\ f \in Frames /\ f.type = t
      /\ toFar[a] \in Seq(Frames) /\ toFar[a] # <<>>
      /\ f = Head(toFar[a]) /\ toFar'[a] = Tail(toFar[a])
      /\ \A d \in Conns \ {a} : toFar'[d] = toFar[d]
      /\ t \in Spoken => f \in Held("agent")
      /\ Held("agent")' \subseteq Held("agent")
      /\ Way("agent")' \subseteq Way("agent")
      /\ Held("client")' = Held("client")
  BY <1>1, <1>2, <1>3, ReadWay
<1>5. ASSUME NEW g \in Frames, Sends("agent", <<g>>)
      PROVE  /\ \A c \in Conns : Left("client", c)' \subseteq
                                    Left("client", c) \cup {g}
             /\ \A c \in Conns \ {a} : Left("client", c)' = Left("client", c)
             /\ Way("client")' \subseteq Way("client") \cup {g}
  <2>1. toHub'[a] = Append(toHub[a], g) /\ toHub[a] \in Seq(Frames)
    BY <1>1, <1>2, <1>5, SendsOne DEF SessionTypeOK
  <2>2. Range(toHub'[a]) \subseteq Range(toHub[a]) \cup {g}
    BY <2>1, FrameRange
  <2>3. PICK b \in Conns : b = a
    BY <1>2
  <2> HIDE DEF a
  <2>4. PICK S : S = {g}
    OBVIOUS
  <2> QED BY <1>1, <1>3, <1>4, <2>2, <2>3, <2>4, WriteWay
<1>6. ASSUME UNCHANGED toHub
      PROVE  /\ \A c \in Conns : Left("client", c)' = Left("client", c)
             /\ Way("client")' = Way("client")
  BY <1>1, <1>4, <1>6 DEF Left, Way
<1> QED BY <1>2, <1>3, <1>4, <1>5, <1>6, WayParts

LEMMA AgentUpWin ==
  ASSUME WinBase, EpochWin, ToldWin, AgentUp
  PROVE  EpochWin' /\ ToldWin'
<1> USE DEF WinBase, CallBase, CallInv, EpochWin
<1> DEFINE h == Handshake(ephem + 1)
<1>1. /\ UNCHANGED <<vars, link, keyEnd>>
      /\ ephem' = ephem + 1 /\ aSession' = NoSession
      /\ Incoming("agent", "up") /\ Sends("agent", <<h>>)
      /\ ephem \in Nat /\ kp \in Nat
  BY DEF AgentUp, SessionTypeOK
<1>2. UNCHANGED <<kp, cSession, sentHs>>
  BY <1>1 DEF keyEnd
<1>3. h \in Frames /\ h.type = "hs"
  BY <1>1, FrameRecords DEF Handshake
<1> HIDE DEF h
<1>4. /\ Way("agent")' \subseteq Way("agent")
      /\ Way("client")' \subseteq Way("client") \cup {h}
      /\ Held("agent")' \subseteq Held("agent")
  BY <1>1, <1>3, AgentReads
<1>5. \A f \in Way("client") : f.type = "resp" => f.seal[2] \in Nat
  BY WayTyped DEF Frames, Programs
<1>6. ~Now'
  <2>1. cSession \in Sessions
    BY DEF SessionTypeOK
  <2>2. cSession.key[2] \in Nat
    BY <2>1 DEF Sessions
  <2>3. cSession # NoSession => cSession.key[2] <= ephem
    BY WayCalls
  <2> QED BY <1>1, <1>2, <2>2, <2>3 DEF Now
<1>7. KeysBorn'
  BY <1>1, <1>2, <1>3, <1>4, <1>5 DEF KeysBorn, NoSession
<1>8. Unasked'
  BY <1>1, <1>2, <1>3, <1>4 DEF Unasked, Used, Asks, Answers, NoSession
<1>9. Silent'
  <2>1. \A f \in Way("client") : ~(f.type = "resp" /\ f.seal[2] = ephem + 1)
    BY <1>1, <1>5 DEF KeysBorn
  <2> QED BY <1>1, <1>3, <1>4, <2>1 DEF Silent, Of, Epoch, NoSession
<1>10. ToldWin'
  <2>1. MetIdle'
    BY <1>1 DEF ToldWin, MetIdle, vars
  <2> QED BY <1>6, <2>1 DEF ToldWin, Unserved, Heralded
<1> QED BY <1>6, <1>7, <1>8, <1>9, <1>10 DEF ForthOpen, Unanswered

LEMMA AgentHandshakeWin ==
  ASSUME WinBase, EpochWin, ToldWin, AgentHandshake
  PROVE  EpochWin' /\ ToldWin'
<1> USE DEF WinBase, CallBase, CallInv, EpochWin
<1> DEFINE f == First("agent")
<1>1. /\ UNCHANGED <<vars, link, toHub, keyEnd>>
      /\ ephem' = IF ephem = 0 THEN 1 ELSE ephem
      /\ aSession' = NewSession(f.key, ephem')
      /\ Incoming("agent", "hs")
      /\ ephem \in Nat /\ kp \in Nat
  BY DEF AgentHandshake, SessionTypeOK
<1>2. UNCHANGED <<kp, cSession, sentHs>>
  BY <1>1 DEF keyEnd
<1>3. /\ Way("agent")' \subseteq Way("agent")
      /\ Way("client")' = Way("client")
      /\ Held("agent")' \subseteq Held("agent")
      /\ \A c \in Conns : Left("client", c)' = Left("client", c)
      /\ f \in Way("agent") /\ f.type = "hs"
  BY <1>1, AgentReads DEF Spoken
<1> HIDE DEF f
<1>4. f.key <= kp /\ aSession'.key = <<f.key, ephem'>>
  BY <1>1, <1>3 DEF KeysBorn, NewSession
<1>5. aSession'.lastRecvSeq = 0 /\ aSession'.sendSeq = 0
  BY <1>1 DEF NewSession
<1>6. \A g \in Way("client") : g.type = "resp" => g.seal[2] \in Nat
  BY WayTyped DEF Frames, Programs
<1>7. KeysBorn'
  <2>1. \A g \in Way("client") : g.type = "resp" => g.seal[2] <= ephem'
    BY <1>1, <1>6 DEF KeysBorn
  <2> QED BY <1>1, <1>2, <1>3, <1>4, <2>1 DEF KeysBorn
<1>8. Unasked'
  BY <1>1, <1>2, <1>3, <1>5 DEF Unasked, Used, Asks, Answers
<1>9. CASE ephem' = ephem
  <2>1. Silent => Silent'
    BY <1>3, <1>5, <1>9 DEF Silent, Of, Epoch
  <2>2. Now' = Now
    BY <1>2, <1>9 DEF Now
  <2>3. Unanswered'
    BY <1>3, <1>9, <2>1 DEF Unanswered, Of, Epoch
  <2>4. ForthOpen'
    <3>1. cSession \in Sessions
      BY DEF SessionTypeOK
    <3>2. cSession.sendSeq \in Nat
      BY <3>1 DEF Sessions
    <3> QED BY <1>2, <1>3, <1>5, <2>2, <3>2 DEF ForthOpen
  <2>5. ToldWin'
    <3>1. \A c \in Conns : Left("client", c)' \subseteq Left("client", c)
      BY <1>3
    <3> QED BY <1>1, <1>3, <1>9, <2>1, <2>2, <3>1, StillTold
  <2> QED BY <1>7, <1>8, <2>3, <2>4, <2>5
<1>10. CASE ephem = 0 /\ ephem' = 1
  <2>1. ~Now'
    <3>1. cSession \in Sessions
      BY DEF SessionTypeOK
    <3>2. cSession.key[2] \in Nat
      BY <3>1 DEF Sessions
    <3>3. cSession # NoSession => cSession.key[2] <= ephem
      BY WayCalls
    <3> QED BY <1>2, <1>10, <3>2, <3>3 DEF Now
  <2>2. Silent'
    <3>1. \A g \in Way("client") : ~(g.type = "resp" /\ g.seal[2] = 1)
      BY <1>6, <1>10 DEF KeysBorn
    <3> QED BY <1>3, <1>5, <1>10, <3>1 DEF Silent, Of, Epoch
  <2>3. MetIdle'
    BY <1>1 DEF ToldWin, MetIdle, vars
  <2> QED BY <1>7, <1>8, <2>1, <2>2, <2>3
          DEF ForthOpen, Unanswered, ToldWin, Unserved, Heralded
<1> QED BY <1>1, <1>9, <1>10

\* Reading the end of a peer, or a request that does not open.
LEMMA AgentRestWin ==
  ASSUME WinBase, EpochWin, ToldWin,
         AgentDown \/ (AgentRequest /\ ~Opens(aSession, First("agent")))
  PROVE  Still /\ ToldWin'
<1> USE DEF WinBase, CallBase, CallInv
<1>1. /\ UNCHANGED <<vars, link, toHub, keyEnd, ephem>>
      /\ aSession' = aSession \/ aSession' = NoSession
      /\ \E t : Incoming("agent", t)
  BY DEF AgentDown, AgentRequest
<1>2. UNCHANGED <<kp, cSession, sentHs>>
  BY <1>1 DEF keyEnd
<1>3. /\ Way("agent")' \subseteq Way("agent")
      /\ Way("client")' = Way("client")
      /\ Held("agent")' \subseteq Held("agent")
      /\ \A c \in Conns : Left("client", c)' = Left("client", c)
  BY <1>1, AgentReads
<1>4. Still
  BY <1>1, <1>2, <1>3 DEF Still
<1>5. ToldWin'
  <2>1. \A c \in Conns : Left("client", c)' \subseteq Left("client", c)
    BY <1>3
  <2> QED BY <1>1, <1>3, <1>4, <2>1, StillUsed, StillTold
<1> QED BY <1>4, <1>5

\* A request is carried out and answered.
LEMMA AgentRunsFacts ==
  ASSUME WinBase, EpochWin, AgentRequest, Opens(aSession, First("agent"))
  PROVE  LET f == First("agent")  g == Sealed("resp", aSession, f.id) IN
         /\ UNCHANGED <<vars, link, ephem, kp, cSession, sentHs>>
         /\ link["client"] # None => UNCHANGED toFar[link["client"]]
         /\ f \in Held("agent") /\ f \in Way("agent")
         /\ f.type = "req" /\ f.seq \in Nat
         /\ aSession # NoSession /\ f.seal = aSession.key
         /\ aSession.key[2] = ephem
         /\ g \in Frames /\ g.type = "resp" /\ g.seal = aSession.key
         /\ g.seq = aSession.sendSeq + 1
         /\ aSession.sendSeq \in Nat
         /\ aSession'.key = aSession.key
         /\ aSession'.lastRecvSeq = f.seq
         /\ aSession'.sendSeq = aSession.sendSeq + 1
         /\ aSession' # NoSession
         /\ Way("agent")' \subseteq Way("agent")
         /\ Way("client")' \subseteq Way("client") \cup {g}
         /\ Held("agent")' \subseteq Held("agent")
         /\ Held("client")' = Held("client")
         /\ \A c \in Conns : Left("client", c)' \subseteq
                                Left("client", c) \cup {g}
         /\ \A c \in Conns \ {link["agent"]} :
               Left("client", c)' = Left("client", c)
         /\ \A d \in Conns \ {link["agent"]} : toHub'[d] = toHub[d]
<1> USE DEF WinBase, CallBase, CallInv
<1> DEFINE f == First("agent")
           g == Sealed("resp", aSession, f.id)
<1>1. /\ UNCHANGED <<vars, link, ephem, keyEnd>>
      /\ Incoming("agent", "req")
      /\ aSession' = [aSession EXCEPT !.lastRecvSeq = f.seq, !.sendSeq = @ + 1]
      /\ Sends("agent", <<g>>)
  BY DEF AgentRequest
<1>2. aSession # NoSession /\ f.seal = aSession.key
  BY DEF Opens
<1>3. /\ f \in Frames /\ f.type = "req"
      /\ aSession \in Sessions
  BY <1>1, IncomingTyped DEF SessionTypeOK, Programs, Incoming
<1>4. f.id \in Reqs /\ f.seq \in Nat /\ aSession.sendSeq \in Nat
  BY <1>3 DEF Frames, Sessions
<1>5. g \in Frames
  BY <1>3, <1>4, FrameRecords
<1>6. /\ g.type = "resp" /\ g.seal = aSession.key
      /\ g.seq = aSession.sendSeq + 1
  BY DEF Sealed
<1>7. /\ aSession'.key = aSession.key
      /\ aSession'.lastRecvSeq = f.seq
      /\ aSession'.sendSeq = aSession.sendSeq + 1
  BY <1>1, <1>3 DEF Sessions
<1>8. aSession.key[2] = ephem /\ aSession' # NoSession
  BY <1>2, <1>4, <1>7 DEF Epochs, NoSession
<1> HIDE DEF f, g
<1>9. /\ f \in Held("agent") /\ f \in Way("agent")
      /\ Way("agent")' \subseteq Way("agent")
      /\ Way("client")' \subseteq Way("client") \cup {g}
      /\ Held("agent")' \subseteq Held("agent")
      /\ Held("client")' = Held("client")
      /\ \A c \in Conns : Left("client", c)' \subseteq
                             Left("client", c) \cup {g}
      /\ \A c \in Conns \ {link["agent"]} :
            Left("client", c)' = Left("client", c)
      /\ \A d \in Conns \ {link["agent"]} : toHub'[d] = toHub[d]
      /\ \A d \in Conns \ {link["agent"]} : toFar'[d] = toFar[d]
      /\ link["agent"] # link["client"]
  BY <1>1, <1>5, AgentReads DEF f, Spoken
<1>10. link["client"] # None => UNCHANGED toFar[link["client"]]
  BY <1>1, <1>9 DEF SessionTypeOK, Programs
<1> QED BY <1>1, <1>2, <1>3, <1>4, <1>5, <1>6, <1>7, <1>8, <1>9, <1>10
        DEF f, g, keyEnd

LEMMA AgentRunsWin ==
  ASSUME WinBase, EpochWin, ToldWin,
         AgentRequest, Opens(aSession, First("agent"))
  PROVE  EpochWin' /\ ToldWin'
<1> DEFINE f == First("agent")
           g == Sealed("resp", aSession, f.id)
<1>1. /\ UNCHANGED <<vars, link, ephem, kp, cSession, sentHs>>
      /\ f \in Held("agent") /\ f \in Way("agent")
      /\ f.type = "req" /\ f.seq \in Nat
      /\ aSession # NoSession /\ f.seal = aSession.key
      /\ aSession.key[2] = ephem
      /\ g \in Frames /\ g.type = "resp" /\ g.seal = aSession.key
      /\ aSession'.key = aSession.key
      /\ aSession'.lastRecvSeq = f.seq
      /\ aSession' # NoSession
      /\ Way("agent")' \subseteq Way("agent")
      /\ Way("client")' \subseteq Way("client") \cup {g}
      /\ Held("agent")' \subseteq Held("agent")
      /\ \A c \in Conns : Left("client", c)' \subseteq
                             Left("client", c) \cup {g}
      /\ \A c \in Conns \ {link["agent"]} :
            Left("client", c)' = Left("client", c)
  BY AgentRunsFacts
<1> HIDE DEF f, g
<1> USE DEF WinBase, CallBase, CallInv, EpochWin
<1>2. kp \in Nat /\ ephem \in Nat /\ cSession \in Sessions
  BY DEF SessionTypeOK
<1>3. Of(f, "req", ephem)
  BY <1>1 DEF Of, Epoch
<1>4. KeysBorn'
  <2>1. g.seal[1] <= kp /\ g.seal[2] <= ephem
    BY <1>1, <1>2 DEF KeysBorn
  <2> QED BY <1>1, <2>1 DEF KeysBorn
<1>5. Unasked'
  <2> SUFFICES ASSUME ~sentHs
               PROVE  ~Used' /\ \A q \in Way("agent") : ~Asks(q)
    BY <1>1 DEF Unasked, Asks
  <2>1. ~Used /\ \A q \in Way("agent") : ~Asks(q)
    BY DEF Unasked
  <2>2. aSession.key[1] # kp
    BY <1>1, <2>1 DEF Asks
  <2> QED BY <1>1, <2>1, <2>2 DEF Used, Answers
<1>6. Now' = Now
  BY <1>1 DEF Now
<1>7. ForthOpen'
  BY <1>1, <1>6 DEF ForthOpen
<1>8. Unanswered'
  <2>1. \A q \in Way("client") : ~Of(q, "hs", ephem)
    BY <1>1, <1>3, WayCalls
  <2>2. \A q \in Way("client")' : ~Of(q, "hs", ephem)
    BY <1>1, <2>1 DEF Of
  <2> QED BY <1>1, <2>2 DEF Unanswered, Of, Epoch
<1>9. ToldWin'
  <2>1. /\ \A a, d : ToldOf(a, d)' = ToldOf(a, d)
        /\ pc' = pc /\ met' = met
    BY <1>1 DEF vars, ToldOf, Peer
  <2>2. MetIdle'
    BY <2>1 DEF ToldWin, MetIdle
  <2>3. Unserved'
    BY <1>1, <1>3, <1>6, <2>1 DEF ToldWin, Unserved
  <2>4. Heralded'
    <3> SUFFICES ASSUME Now
                 PROVE  /\ (\E q \in Held("agent")' : Of(q, "req", ephem)) =>
                              ToldOf(link["agent"], link["client"])
                        /\ \A c \in Conns :
                              (\E q \in Left("client", c)' : Of(q, "resp", ephem))
                                 => ToldOf(c, link["client"])
      BY <1>1, <1>6, <2>1 DEF Heralded, Of, Epoch
    <3>1. ToldOf(link["agent"], link["client"])
      BY <1>1, <1>3 DEF ToldWin, Heralded
    <3>2. ASSUME NEW c \in Conns \ {link["agent"]},
                 NEW q \in Left("client", c)', Of(q, "resp", ephem)
          PROVE  ToldOf(c, link["client"])
      BY <1>1, <3>2 DEF ToldWin, Heralded
    <3> QED BY <3>1, <3>2
  <2> QED BY <2>2, <2>3, <2>4 DEF ToldWin
<1> QED BY <1>4, <1>5, <1>7, <1>8, <1>9

-----------------------------------------------------------------------------
(* The controller's steps.                                                 *)

\* What it writes, behind the frames of its handler: request r, or none.
LEMMA PutsOut ==
  ASSUME SessionTypeOK, NEW s \in Sessions,
         NEW fs \in {<<>>, <<Handshake(kp)>>}, Puts(s, fs),
         fs = <<>> \/ link["client"] # None
  PROVE  LET l == link["client"]
             t == IF fs = <<>> THEN toHub[l] ELSE Append(toHub[l], Handshake(kp))
         IN
         /\ \A d \in Conns \ {l} : toHub'[d] = toHub[d]
         /\ \/ cSession' = s /\ (l # None => toHub'[l] = t)
            \/ \E r \in Reqs :
                  /\ s # NoSession /\ l # None
                  /\ cSession' = [s EXCEPT !.sendSeq = @ + 1]
                  /\ toHub'[l] = Append(t, Sealed("req", s, r))
<1> DEFINE l == link["client"]
           t == IF fs = <<>> THEN toHub[l] ELSE Append(toHub[l], Handshake(kp))
<1>1. "client" \in Programs /\ Handshake(kp) \in Frames
  BY FrameRecords DEF Programs, SessionTypeOK
<1>2. PICK h \in Frames : h = Handshake(kp)
  BY <1>1
<1>3. CASE /\ cSession' = s
           /\ IF fs = <<>> THEN UNCHANGED toHub ELSE Sends("client", fs)
  <2>1. CASE fs = <<>>
    BY <1>3, <2>1
  <2>2. CASE fs = <<h>> /\ fs # <<>>
    <3>1. Sends("client", <<h>>) /\ l # None
      BY <1>3, <2>2
    <3>2. /\ toHub'[l] = Append(toHub[l], h)
          /\ \A d \in Conns \ {l} : toHub'[d] = toHub[d]
      BY <1>1, <3>1, SendsOne
    <3> QED BY <1>2, <1>3, <2>2, <3>2
  <2> QED BY <1>2, <2>1, <2>2
<1>4. ASSUME NEW r \in Reqs, s # NoSession, l # None,
             cSession' = [s EXCEPT !.sendSeq = @ + 1],
             Sends("client", Append(fs, Sealed("req", s, r)))
      PROVE  /\ \A d \in Conns \ {l} : toHub'[d] = toHub[d]
             /\ toHub'[l] = Append(t, Sealed("req", s, r))
  <2>1. PICK q \in Frames : q = Sealed("req", s, r)
    BY FrameRecords
  <2>2. CASE fs = <<>>
    <3>1. Sends("client", <<q>>)
      BY <1>4, <2>1, <2>2
    <3> QED BY <1>1, <1>4, <2>1, <2>2, <3>1, SendsOne
  <2>3. CASE fs = <<h>> /\ fs # <<>>
    <3>1. Sends("client", Append(<<h>>, q))
      BY <1>4, <2>1, <2>3
    <3>2. /\ toHub'[l] = Append(Append(toHub[l], h), q)
          /\ \A d \in Conns \ {l} : toHub'[d] = toHub[d]
      BY <1>1, <1>4, <3>1, SendsTwo
    <3> QED BY <1>2, <2>1, <2>3, <3>2
  <2> QED BY <1>2, <2>2, <2>3
<1> HIDE DEF t, l
<1>5. ASSUME NEW r \in Reqs, s # NoSession, link["client"] # None,
             cSession' = [s EXCEPT !.sendSeq = @ + 1],
             Sends("client", Append(fs, Sealed("req", s, r)))
      PROVE  /\ \A d \in Conns \ {l} : toHub'[d] = toHub[d]
             /\ toHub'[l] = Append(t, Sealed("req", s, r))
  BY <1>4, <1>5 DEF l
<1>6. \/ /\ cSession' = s
         /\ IF fs = <<>> THEN UNCHANGED toHub ELSE Sends("client", fs)
      \/ \E r \in Reqs :
            /\ s # NoSession /\ link["client"] # None
            /\ cSession' = [s EXCEPT !.sendSeq = @ + 1]
            /\ Sends("client", Append(fs, Sealed("req", s, r)))
  BY DEF Puts
<1>7. CASE \E r \in Reqs :
            /\ s # NoSession /\ link["client"] # None
            /\ cSession' = [s EXCEPT !.sendSeq = @ + 1]
            /\ Sends("client", Append(fs, Sealed("req", s, r)))
  BY <1>5, <1>7 DEF l, t
<1> QED BY <1>3, <1>6, <1>7 DEF l, t

LEMMA PutsWay ==
  ASSUME SessionTypeOK, Linked, NEW s \in Sessions,
         NEW fs \in {<<>>, <<Handshake(kp)>>}, Puts(s, fs),
         fs = <<>> \/ link["client"] # None,
         UNCHANGED who, UNCHANGED link,
         Held("agent")' \subseteq Held("agent"),
         Held("client")' \subseteq Held("client")
  PROVE  /\ \A f \in Way("agent")' :
               \/ f \in Way("agent")
               \/ fs # <<>> /\ f = Handshake(kp)
               \/ /\ f.type = "req" /\ f.seal = s.key /\ s # NoSession
                  /\ f.seq = cSession'.sendSeq
         /\ \A c \in Conns : Left("client", c)' = Left("client", c)
         /\ Way("client")' \subseteq Way("client")
         /\ cSession'.key = s.key /\ cSession'.lastRecvSeq = s.lastRecvSeq
         /\ cSession'.sendSeq \in Nat /\ s.sendSeq <= cSession'.sendSeq
         /\ cSession' = NoSession <=> s = NoSession
<1> DEFINE l == link["client"]
           t == IF fs = <<>> THEN toHub[l] ELSE Append(toHub[l], Handshake(kp))
<1>1. /\ \A d \in Conns \ {l} : toHub'[d] = toHub[d]
      /\ \/ cSession' = s /\ (l # None => toHub'[l] = t)
         \/ \E r \in Reqs :
               /\ s # NoSession /\ l # None
               /\ cSession' = [s EXCEPT !.sendSeq = @ + 1]
               /\ toHub'[l] = Append(t, Sealed("req", s, r))
  BY PutsOut
<1>2. /\ cSession'.key = s.key /\ cSession'.lastRecvSeq = s.lastRecvSeq
      /\ cSession'.sendSeq \in Nat /\ s.sendSeq <= cSession'.sendSeq
      /\ cSession' = NoSession <=> s = NoSession
  BY <1>1 DEF Sessions, NoSession
<1>3. l # None => l \in Conns /\ toHub[l] \in Seq(Frames)
  BY DEF SessionTypeOK, Programs
<1>4. Handshake(kp) \in Frames
  BY FrameRecords DEF SessionTypeOK
<1> DEFINE F == IF fs = <<>> THEN {} ELSE {Handshake(kp)}
<1>5. l # None => t \in Seq(Frames) /\ Range(t) = Range(toHub[l]) \cup F
  BY <1>3, <1>4, FrameRange
<1> HIDE DEF t
<1>6. ASSUME l # None, NEW f \in Range(toHub'[l])
      PROVE  \/ f \in Range(toHub[l])
             \/ fs # <<>> /\ f = Handshake(kp)
             \/ /\ f.type = "req" /\ f.seal = s.key /\ s # NoSession
                /\ f.seq = cSession'.sendSeq
  <2>1. CASE toHub'[l] = t
    BY <1>5, <1>6, <2>1
  <2>2. ASSUME NEW r \in Reqs, s # NoSession,
               cSession' = [s EXCEPT !.sendSeq = @ + 1],
               toHub'[l] = Append(t, Sealed("req", s, r))
        PROVE  \/ f \in Range(toHub[l])
               \/ fs # <<>> /\ f = Handshake(kp)
               \/ /\ f.type = "req" /\ f.seal = s.key /\ s # NoSession
                  /\ f.seq = cSession'.sendSeq
    <3>1. PICK q \in Frames : q = Sealed("req", s, r)
      BY FrameRecords
    <3>2. Range(toHub'[l]) = Range(t) \cup {q}
      BY <1>5, <1>6, <2>2, <3>1, FrameRange
    <3>3. q.type = "req" /\ q.seal = s.key /\ q.seq = cSession'.sendSeq
      BY <2>2, <3>1 DEF Sealed, Sessions
    <3> QED BY <1>5, <1>6, <2>2, <3>2, <3>3
  <2> QED BY <1>1, <1>6, <2>1, <2>2
<1> HIDE DEF F
<1>7. l # None => who[l].kind # "agent"
  BY DEF Linked, Programs
<1>8. \A c \in Conns : Left("client", c)' = Left("client", c)
  BY <1>1, <1>7, TunnelConstants DEF Left, Opposite
<1>9. Way("client")' \subseteq Way("client")
  BY <1>8 DEF Way
<1>10. ASSUME NEW f \in Way("agent")'
       PROVE  \/ f \in Way("agent")
              \/ fs # <<>> /\ f = Handshake(kp)
              \/ /\ f.type = "req" /\ f.seal = s.key /\ s # NoSession
                 /\ f.seq = cSession'.sendSeq
  <2>1. CASE f \in Held("agent")'
    BY <2>1, WayParts
  <2>2. ASSUME NEW c \in Conns, f \in Left("agent", c)'
        PROVE  \/ f \in Way("agent")
               \/ fs # <<>> /\ f = Handshake(kp)
               \/ /\ f.type = "req" /\ f.seal = s.key /\ s # NoSession
                  /\ f.seq = cSession'.sendSeq
    <3>1. f \in Range(toHub'[c]) /\ who[c].kind = Opposite("agent")
      BY <2>2 DEF Left
    <3>2. f \in Range(toHub[c]) => f \in Way("agent")
      BY <3>1, WayParts DEF Left
    <3>3. CASE c # l
      BY <1>1, <3>1, <3>2, <3>3
    <3>4. CASE c = l /\ l # None
      BY <1>6, <3>1, <3>2, <3>4
    <3>5. None \notin Conns
      BY TunnelConstants
    <3> QED BY <3>3, <3>4, <3>5
  <2> QED BY <1>10, <2>1, <2>2 DEF Way
<1> QED BY <1>2, <1>8, <1>9, <1>10

\* The hub and the agent keep still, and a frame is read or none.
LEMMA ControllerKeeps ==
  ASSUME SessionTypeOK, Linked, UNCHANGED <<vars, link, agentEnd>>,
         \/ toFar' = toFar
         \/ /\ \E t : Incoming("client", t)
            /\ \A d \in Conns \ {link["client"]} : toHub'[d] = toHub[d]
  PROVE  /\ Held("agent")' = Held("agent")
         /\ Held("client")' \subseteq Held("client")
         /\ link["agent"] # None =>
               toFar'[link["agent"]] = toFar[link["agent"]]
<1>1. CASE toFar' = toFar
  BY <1>1 DEF Held
<1>2. ASSUME NEW t, Incoming("client", t),
             \A d \in Conns \ {link["client"]} : toHub'[d] = toHub[d]
      PROVE  /\ Held("agent")' = Held("agent")
             /\ Held("client")' \subseteq Held("client")
             /\ link["agent"] # None =>
                   toFar'[link["agent"]] = toFar[link["agent"]]
  <2>1. /\ "agent" \in Programs /\ "client" \in Programs
        /\ UNCHANGED who /\ UNCHANGED link
    BY DEF Programs, vars
  <2>2. link["client"] # None /\ link["agent"] # link["client"]
    BY <1>2 DEF Incoming, Reads, Linked
  <2> QED BY <1>2, <2>1, <2>2, ReadWay DEF SessionTypeOK
<1> QED BY <1>1, <1>2

LEMMA ControllerUpFacts ==
  ASSUME SessionTypeOK, Linked, ControllerUp
  PROVE  LET h == Handshake(kp + 1)  d == link["client"] IN
         /\ UNCHANGED <<vars, link, agentEnd>>
         /\ kp' = kp + 1 /\ ~sentHs' /\ cSession' = NoSession
         /\ h \in Frames /\ h.type = "hs"
         /\ toHub'[d] = Append(toHub[d], h)
         /\ \A c \in Conns \ {d} : toHub'[c] = toHub[c]
         /\ Held("agent")' = Held("agent")
         /\ \A c \in Conns : Left("client", c)' = Left("client", c)
         /\ Way("client")' \subseteq Way("client")
         /\ Way("agent")' \subseteq Way("agent") \cup {h}
         /\ link["agent"] # None =>
               toFar'[link["agent"]] = toFar[link["agent"]]
<1> DEFINE h == Handshake(kp + 1)
           d == link["client"]
<1>1. /\ UNCHANGED <<vars, link, agentEnd>>
      /\ kp' = kp + 1 /\ ~sentHs' /\ cSession' = NoSession
      /\ Incoming("client", "up") /\ Sends("client", <<h>>)
      /\ kp \in Nat
  BY DEF ControllerUp, SessionTypeOK
<1>2. /\ "agent" \in Programs /\ "client" \in Programs
      /\ UNCHANGED who /\ UNCHANGED link
  BY <1>1 DEF Programs, vars
<1>3. h \in Frames /\ h.type = "hs"
  BY <1>1, FrameRecords DEF Handshake
<1> HIDE DEF h
<1>4. d # None
  BY <1>1 DEF Incoming, Reads
<1>5. /\ d \in Conns
      /\ toHub'[d] = Append(toHub[d], h)
      /\ \A c \in Conns \ {d} : toHub'[c] = toHub[c]
  BY <1>1, <1>2, <1>3, <1>4, SendsOne
<1>6. /\ Held("agent")' = Held("agent")
      /\ Held("client")' \subseteq Held("client")
      /\ link["agent"] # None =>
            toFar'[link["agent"]] = toFar[link["agent"]]
  BY <1>1, <1>5, ControllerKeeps
<1>7. Range(toHub'[d]) \subseteq Range(toHub[d]) \cup {h}
  <2>1. toHub[d] \in Seq(Frames)
    BY <1>5 DEF SessionTypeOK
  <2> QED BY <1>3, <1>5, <2>1, FrameRange
<1>8. /\ \A c \in Conns : Left("client", c)' = Left("client", c)
      /\ Way("client")' \subseteq Way("client")
  BY <1>1, <1>2, <1>5, ReadWay
<1>9. Way("agent")' \subseteq Way("agent") \cup {h}
  <2>1. PICK b \in Conns : b = d
    BY <1>5
  <2> HIDE DEF d
  <2> QED BY <1>2, <1>5, <1>6, <1>7, <2>1, WriteWay
<1> QED BY <1>1, <1>3, <1>5, <1>6, <1>8, <1>9 DEF h

LEMMA ControllerUpWin ==
  ASSUME WinBase, EpochWin, ToldWin, ControllerUp
  PROVE  EpochWin' /\ ToldWin'
<1> USE DEF WinBase, CallBase, CallInv, EpochWin
<1> DEFINE h == Handshake(kp + 1)
<1>1. /\ UNCHANGED <<vars, link, agentEnd>>
      /\ kp' = kp + 1 /\ ~sentHs' /\ cSession' = NoSession
      /\ h.type = "hs" /\ h.key = kp + 1
      /\ Held("agent")' = Held("agent")
      /\ \A c \in Conns : Left("client", c)' = Left("client", c)
      /\ Way("client")' \subseteq Way("client")
      /\ Way("agent")' \subseteq Way("agent") \cup {h}
  BY ControllerUpFacts DEF Handshake
<1> HIDE DEF h
<1>2. kp \in Nat /\ aSession \in Sessions /\ UNCHANGED <<ephem, aSession>>
  BY <1>1 DEF SessionTypeOK, agentEnd
<1>3. /\ \A f \in Way("agent") :
            f.key \in Nat /\ f.seal[1] \in Nat
      /\ \A f \in Way("client") :
            f.key \in Nat /\ f.seal[1] \in Nat
  BY WayTyped DEF Frames, Programs
<1>4. aSession.key[1] \in Nat
  BY <1>2 DEF Sessions
<1>5. KeysBorn'
  BY <1>1, <1>2, <1>3, <1>4 DEF KeysBorn
<1>6. /\ \A f \in Way("agent") : f.type = "req" => f.seal[1] # kp + 1
      /\ \A f \in Way("client") : f.type = "resp" => f.seal[1] # kp + 1
      /\ aSession.key[1] # kp + 1
  BY <1>2, <1>3, <1>4 DEF KeysBorn
<1>7. Unasked'
  BY <1>1, <1>2, <1>6 DEF Unasked, Used, Asks, Answers, NoSession
<1>8. ~Now'
  BY <1>1 DEF Now
<1>9. Silent => Silent'
  BY <1>1, <1>2 DEF Silent, Of, Epoch
<1>10. Unanswered'
  BY <1>1, <1>2, <1>9 DEF Unanswered, Of, Epoch
<1>11. ToldWin'
  <2>1. MetIdle'
    BY <1>1 DEF ToldWin, MetIdle, vars
  <2> QED BY <1>8, <2>1 DEF ToldWin, Unserved, Heralded
<1> QED BY <1>5, <1>7, <1>8, <1>10, <1>11 DEF ForthOpen

LEMMA ControllerDownWin ==
  ASSUME WinBase, EpochWin, ToldWin, ControllerDown
  PROVE  Still /\ ToldWin'
<1> USE DEF WinBase, CallBase, CallInv
<1>1. /\ UNCHANGED <<vars, link, toHub, agentEnd, kp, sentHs>>
      /\ cSession' = NoSession
      /\ Incoming("client", "down")
  BY DEF ControllerDown
<1>2. /\ "agent" \in Programs /\ "client" \in Programs
      /\ UNCHANGED who /\ UNCHANGED link
  BY <1>1 DEF Programs, vars
<1>3. /\ Held("agent")' = Held("agent")
      /\ Held("client")' \subseteq Held("client")
  BY <1>1, ControllerKeeps
<1>4. /\ \A p \in Programs : \A c \in Conns : Left(p, c)' = Left(p, c)
  BY <1>1, <1>2 DEF Left
<1>5. Still
  BY <1>1, <1>2, <1>3, <1>4 DEF Still, agentEnd, Way
<1>6. ~Now'
  BY <1>1 DEF Now
<1>7. ToldWin'
  BY <1>1, <1>6 DEF ToldWin, MetIdle, vars, Unserved, Heralded
<1> QED BY <1>5, <1>7

\* A handshake read: the session is new, and the answer to the handshake goes
\* out before the first request.
LEMMA ControllerHandshakeFacts ==
  ASSUME SessionTypeOK, Linked, Booked, ControllerHandshake
  PROVE  LET f == First("client")  l == link["client"]
             fs == IF sentHs THEN <<>> ELSE <<Handshake(kp)>>
             s == NewSession(kp, f.key) IN
         /\ UNCHANGED <<vars, link, agentEnd, kp>>
         /\ kp # 0 /\ sentHs'
         /\ l \in Conns /\ toFar[l] \in Seq(Frames) /\ toFar[l] # <<>>
         /\ f = Head(toFar[l]) /\ toFar'[l] = Tail(toFar[l])
         /\ f \in Held("client") /\ f \in Way("client")
         /\ f.type = "hs" /\ f.key \in Nat
         /\ s \in Sessions /\ s # NoSession
         /\ fs \in {<<>>, <<Handshake(kp)>>} /\ Puts(s, fs)
         /\ Held("agent")' = Held("agent")
         /\ link["agent"] # None =>
               toFar'[link["agent"]] = toFar[link["agent"]]
         /\ \A d \in Conns \ {l} : toHub'[d] = toHub[d]
         /\ \A q \in Way("agent")' :
               \/ q \in Way("agent")
               \/ ~sentHs /\ q = Handshake(kp)
               \/ /\ q.type = "req" /\ q.seal = <<kp, f.key>>
                  /\ q.seq = cSession'.sendSeq
         /\ \A c \in Conns : Left("client", c)' = Left("client", c)
         /\ Way("client")' \subseteq Way("client")
         /\ cSession'.key = <<kp, f.key>> /\ cSession'.lastRecvSeq = 0
         /\ cSession'.sendSeq \in Nat /\ cSession' # NoSession
<1> DEFINE f == First("client")
           l == link["client"]
           fs == IF sentHs THEN <<>> ELSE <<Handshake(kp)>>
           s == NewSession(kp, f.key)
<1>1. /\ UNCHANGED <<vars, link, agentEnd, kp>>
      /\ kp # 0 /\ sentHs' /\ kp \in Nat
      /\ Incoming("client", "hs")
  BY DEF ControllerHandshake, SessionTypeOK
<1>2. /\ "agent" \in Programs /\ "client" \in Programs
      /\ UNCHANGED who /\ UNCHANGED link
  BY <1>1 DEF Programs, vars
<1>3. l # None
  BY <1>1 DEF Incoming, Reads
<1>4. Puts(s, fs) /\ fs \in {<<>>, <<Handshake(kp)>>}
  BY HandshakePumps
<1>5. f \in Frames /\ f.type = "hs"
  BY <1>1, <1>2, IncomingTyped DEF Incoming
<1>6. f.key \in Nat
  BY <1>5 DEF Frames
<1>7. /\ s \in Sessions /\ s.key = <<kp, f.key>> /\ s.lastRecvSeq = 0
      /\ s # NoSession
  BY <1>1, <1>6, SessionRecords DEF NewSession, NoSession
<1>8. fs # <<>> => ~sentHs
  OBVIOUS
<1> HIDE DEF f, s, fs
<1>9. \A d \in Conns \ {l} : toHub'[d] = toHub[d]
  BY <1>3, <1>4, <1>7, PutsOut
<1>10. /\ l \in Conns /\ toFar[l] \in Seq(Frames) /\ toFar[l] # <<>>
       /\ f = Head(toFar[l]) /\ toFar'[l] = Tail(toFar[l])
       /\ f \in Held("client")
  BY <1>1, <1>2, <1>9, ReadWay DEF f, Spoken
<1>11. /\ Held("agent")' = Held("agent")
       /\ Held("client")' \subseteq Held("client")
       /\ link["agent"] # None =>
             toFar'[link["agent"]] = toFar[link["agent"]]
  BY <1>1, <1>9, ControllerKeeps
<1>12. /\ \A q \in Way("agent")' :
               \/ q \in Way("agent")
               \/ fs # <<>> /\ q = Handshake(kp)
               \/ /\ q.type = "req" /\ q.seal = s.key /\ s # NoSession
                  /\ q.seq = cSession'.sendSeq
       /\ \A c \in Conns : Left("client", c)' = Left("client", c)
       /\ Way("client")' \subseteq Way("client")
       /\ cSession'.key = s.key /\ cSession'.lastRecvSeq = s.lastRecvSeq
       /\ cSession'.sendSeq \in Nat
       /\ cSession' = NoSession <=> s = NoSession
  BY <1>2, <1>3, <1>4, <1>7, <1>11, PutsWay
<1>13. f \in Way("client")
  BY <1>10, WayParts
<1>14. \A q \in Way("agent")' :
               \/ q \in Way("agent")
               \/ ~sentHs /\ q = Handshake(kp)
               \/ /\ q.type = "req" /\ q.seal = <<kp, f.key>>
                  /\ q.seq = cSession'.sendSeq
  BY <1>7, <1>8, <1>12
<1> QED BY <1>1, <1>4, <1>5, <1>6, <1>7, <1>9, <1>10, <1>11, <1>12, <1>13, <1>14
        DEF f, s, fs

LEMMA ControllerHandshakeWin ==
  ASSUME WinBase, EpochWin, ToldWin, ControllerHandshake
  PROVE  EpochWin' /\ ToldWin'
<1> USE DEF WinBase, CallBase, CallInv, EpochWin
<1> DEFINE f == First("client")
<1>1. /\ UNCHANGED <<vars, link, agentEnd, kp>>
      /\ kp # 0 /\ sentHs'
      /\ f \in Way("client") /\ f.type = "hs" /\ f.key \in Nat
      /\ Held("agent")' = Held("agent")
      /\ \A q \in Way("agent")' :
            \/ q \in Way("agent")
            \/ ~sentHs /\ q = Handshake(kp)
            \/ /\ q.type = "req" /\ q.seal = <<kp, f.key>>
               /\ q.seq = cSession'.sendSeq
      /\ \A c \in Conns : Left("client", c)' = Left("client", c)
      /\ Way("client")' \subseteq Way("client")
      /\ cSession'.key = <<kp, f.key>> /\ cSession'.lastRecvSeq = 0
      /\ cSession'.sendSeq \in Nat /\ cSession' # NoSession
  BY ControllerHandshakeFacts
<1> HIDE DEF f
<1>2. /\ kp \in Nat /\ ephem \in Nat /\ aSession \in Sessions
      /\ UNCHANGED <<ephem, aSession>>
  BY <1>1 DEF SessionTypeOK, agentEnd
<1>3. KeysBorn'
  <2>1. ASSUME NEW q \in Way("agent")'
        PROVE  /\ q.type = "hs" => q.key <= kp
               /\ q.type = "req" => q.seal[1] <= kp
    <3>1. CASE q \in Way("agent")
      BY <3>1 DEF KeysBorn
    <3>2. CASE q = Handshake(kp)
      BY <1>2, <3>2 DEF Handshake
    <3>3. CASE q.type = "req" /\ q.seal = <<kp, f.key>>
      BY <1>2, <3>3
    <3> QED BY <1>1, <2>1, <3>1, <3>2, <3>3
  <2> QED BY <1>1, <1>2, <2>1 DEF KeysBorn
<1>4. Unasked'
  BY <1>1 DEF Unasked
<1>5. Silent => Silent'
  BY <1>1, <1>2 DEF Silent, Of, Epoch
<1>6. ASSUME Now'
      PROVE  /\ Silent
             /\ \A q \in Way("agent") : ~Of(q, "req", ephem)
  <2>1. Of(f, "hs", ephem)
    BY <1>1, <1>2, <1>6 DEF Now, Of, Epoch
  <2> QED BY <1>1, <2>1, WayCalls DEF Unanswered
<1>7. ForthOpen'
  <2> SUFFICES ASSUME Now' PROVE ForthOpen'
    BY DEF ForthOpen
  <2>1. aSession'.lastRecvSeq <= cSession'.sendSeq
    BY <1>1, <1>2, <1>6 DEF Silent
  <2>2. cSession'.key[2] = ephem
    BY <1>2 DEF Now
  <2>3. ASSUME NEW q \in Way("agent")', q.type = "req", q.seal = cSession'.key
        PROVE  q.seq <= cSession'.sendSeq
    <3>1. Of(q, "req", ephem)
      BY <2>2, <2>3 DEF Of, Epoch
    <3>2. q # Handshake(kp)
      BY <2>3 DEF Handshake
    <3> QED BY <1>1, <1>6, <2>3, <3>1, <3>2
  <2> QED BY <2>1, <2>3 DEF ForthOpen
<1>8. Unanswered'
  BY <1>1, <1>2, <1>5 DEF Unanswered, Of, Epoch
<1>9. ToldWin'
  <2>1. MetIdle'
    BY <1>1 DEF ToldWin, MetIdle, vars
  <2>2. ASSUME Now'
        PROVE  /\ Silent'
               /\ \A q \in Held("agent")' : ~Of(q, "req", ephem)'
               /\ \A c \in Conns : \A q \in Left("client", c)' :
                     ~Of(q, "resp", ephem)'
    <3>1. Silent' /\ \A q \in Held("agent") : ~Of(q, "req", ephem)
      BY <1>5, <1>6, <2>2, WayParts
    <3>2. \A c \in Conns : \A q \in Left("client", c)' : ~Of(q, "resp", ephem)
      BY <1>1, <1>6, <2>2, WayParts DEF Silent
    <3>3. \A q : /\ Of(q, "req", ephem)' = Of(q, "req", ephem)
                 /\ Of(q, "resp", ephem)' = Of(q, "resp", ephem)
      BY <1>2 DEF Of, Epoch
    <3> QED BY <1>1, <3>1, <3>2, <3>3
  <2>3. Unserved' /\ Heralded'
    BY <2>2 DEF Unserved, Heralded
  <2> QED BY <2>1, <2>3 DEF ToldWin
<1> QED BY <1>3, <1>4, <1>7, <1>8, <1>9

\* The other steps of its loop and of its caller send with the session it has.
Pumping == ControllerAnswer \/ (\E r \in Reqs : Issue(r)) \/ PumpTimer \/ Timeout

\* The answer read may have been opened.
Opened ==
    LET f == First("client")  l == link["client"] IN
    /\ l \in Conns /\ toFar[l] \in Seq(Frames) /\ toFar[l] # <<>>
    /\ f = Head(toFar[l]) /\ toFar'[l] = Tail(toFar[l])
    /\ f \in Held("client") /\ f \in Way("client") /\ f.type = "resp"
    /\ \/ cSession'.lastRecvSeq = cSession.lastRecvSeq
       \/ Opens(cSession, f) /\ cSession'.lastRecvSeq = f.seq

LEMMA PumpingFacts ==
  ASSUME SessionTypeOK, Linked, Booked, Traced, Pumping
  PROVE  LET l == link["client"] IN
         /\ UNCHANGED <<vars, link, agentEnd, kp, sentHs>>
         /\ Held("agent")' = Held("agent")
         /\ link["agent"] # None =>
               toFar'[link["agent"]] = toFar[link["agent"]]
         /\ \A d \in Conns \ {l} : toHub'[d] = toHub[d]
         /\ l # None =>
               \/ toHub'[l] = toHub[l]
               \/ \E q \in Frames : /\ toHub'[l] = Append(toHub[l], q)
                                    /\ q.type = "req"
                                    /\ q.seal = cSession.key
                                    /\ cSession # NoSession
         /\ \A q \in Way("agent")' :
               \/ q \in Way("agent")
               \/ /\ q.type = "req" /\ q.seal = cSession.key
                  /\ cSession # NoSession /\ q.seq = cSession'.sendSeq
         /\ \A c \in Conns : Left("client", c)' = Left("client", c)
         /\ Way("client")' \subseteq Way("client")
         /\ cSession'.key = cSession.key
         /\ cSession' # NoSession => cSession # NoSession
         /\ cSession'.sendSeq \in Nat /\ cSession.sendSeq <= cSession'.sendSeq
         /\ \/ Opened
            \/ toFar' = toFar /\ cSession'.lastRecvSeq = cSession.lastRecvSeq
<1> DEFINE l == link["client"]
           f == First("client")
<1>1. /\ UNCHANGED <<vars, link, agentEnd, kp, sentHs>>
      /\ toFar' = toFar \/ Incoming("client", "resp")
  BY DEF Pumping, ControllerAnswer, Issue, PumpTimer, Timeout
<1>2. /\ "agent" \in Programs /\ "client" \in Programs
      /\ UNCHANGED who /\ UNCHANGED link
  BY <1>1 DEF Programs, vars
<1>3. \E s \in Sessions :
         /\ Puts(s, <<>>)
         /\ s.key = cSession.key /\ s.sendSeq = cSession.sendSeq
         /\ s # NoSession => cSession # NoSession
         /\ \/ s.lastRecvSeq = cSession.lastRecvSeq
            \/ /\ ControllerAnswer
               /\ Opens(cSession, f) /\ s.lastRecvSeq = f.seq
  <2>1. CASE ControllerAnswer
    BY <2>1, AnswerPumps DEF Repumped
  <2>2. CASE (\E r \in Reqs : Issue(r)) \/ PumpTimer \/ Timeout
    <3>1. cSession \in Sessions
      BY DEF SessionTypeOK
    <3> QED BY <2>2, <3>1, CallerPumps
  <2> QED BY <2>1, <2>2 DEF Pumping
<1>4. PICK s \in Sessions :
         /\ Puts(s, <<>>)
         /\ s.key = cSession.key /\ s.sendSeq = cSession.sendSeq
         /\ s # NoSession => cSession # NoSession
         /\ \/ s.lastRecvSeq = cSession.lastRecvSeq
            \/ /\ ControllerAnswer
               /\ Opens(cSession, f) /\ s.lastRecvSeq = f.seq
  BY <1>3
<1>5. PICK fs \in {<<>>, <<Handshake(kp)>>} : fs = <<>>
  OBVIOUS
<1>6. /\ \A d \in Conns \ {l} : toHub'[d] = toHub[d]
      /\ \/ cSession' = s /\ (l # None => toHub'[l] = toHub[l])
         \/ \E r \in Reqs :
               /\ s # NoSession /\ l # None
               /\ cSession' = [s EXCEPT !.sendSeq = @ + 1]
               /\ toHub'[l] = Append(toHub[l], Sealed("req", s, r))
  BY <1>4, <1>5, PutsOut
<1>7. l # None =>
         \/ toHub'[l] = toHub[l]
         \/ \E q \in Frames : /\ toHub'[l] = Append(toHub[l], q)
                              /\ q.type = "req"
                              /\ q.seal = cSession.key
                              /\ cSession # NoSession
  <2>1. ASSUME NEW r \in Reqs, s # NoSession,
               toHub'[l] = Append(toHub[l], Sealed("req", s, r))
        PROVE  \E q \in Frames : /\ toHub'[l] = Append(toHub[l], q)
                                 /\ q.type = "req"
                                 /\ q.seal = cSession.key
                                 /\ cSession # NoSession
    <3>1. PICK q \in Frames : q = Sealed("req", s, r)
      BY FrameRecords
    <3>2. q.type = "req" /\ q.seal = cSession.key
      BY <1>4, <3>1 DEF Sealed
    <3> QED BY <1>4, <2>1, <3>1, <3>2
  <2> QED BY <1>6, <2>1
<1>8. /\ Held("agent")' = Held("agent")
      /\ Held("client")' \subseteq Held("client")
      /\ link["agent"] # None =>
            toFar'[link["agent"]] = toFar[link["agent"]]
  BY <1>1, <1>6, ControllerKeeps
<1>9. /\ \A q \in Way("agent")' :
               \/ q \in Way("agent")
               \/ /\ q.type = "req" /\ q.seal = s.key /\ s # NoSession
                  /\ q.seq = cSession'.sendSeq
      /\ \A c \in Conns : Left("client", c)' = Left("client", c)
      /\ Way("client")' \subseteq Way("client")
      /\ cSession'.key = s.key /\ cSession'.lastRecvSeq = s.lastRecvSeq
      /\ cSession'.sendSeq \in Nat /\ s.sendSeq <= cSession'.sendSeq
      /\ cSession' = NoSession <=> s = NoSession
  BY <1>2, <1>4, <1>5, <1>8, PutsWay
<1>10. ASSUME Incoming("client", "resp")
       PROVE  /\ l \in Conns /\ toFar[l] \in Seq(Frames) /\ toFar[l] # <<>>
              /\ f = Head(toFar[l]) /\ toFar'[l] = Tail(toFar[l])
              /\ f \in Held("client") /\ f.type = "resp"
  BY <1>2, <1>6, <1>10, ReadWay DEF Spoken
<1>11. \/ Opened
       \/ toFar' = toFar /\ cSession'.lastRecvSeq = cSession.lastRecvSeq
  <2>1. CASE Incoming("client", "resp")
    <3>1. f \in Way("client")
      BY <1>10, <2>1, WayParts
    <3>2. \/ cSession'.lastRecvSeq = cSession.lastRecvSeq
          \/ Opens(cSession, f) /\ cSession'.lastRecvSeq = f.seq
      BY <1>4, <1>9
    <3> QED BY <1>10, <2>1, <3>1, <3>2 DEF Opened
  <2>2. CASE ~Incoming("client", "resp")
    <3>1. ~ControllerAnswer
      BY <2>2 DEF ControllerAnswer
    <3> QED BY <1>1, <1>4, <1>9, <2>2, <3>1
  <2> QED BY <2>1, <2>2
<1> QED BY <1>1, <1>4, <1>6, <1>7, <1>8, <1>9, <1>11

LEMMA PumpingWin ==
  ASSUME WinBase, EpochWin, ToldWin, Pumping
  PROVE  /\ EpochWin' /\ ToldWin'
         /\ Used' => Used
         /\ Now' => Now
<1> USE DEF WinBase, CallBase, CallInv, EpochWin
<1>1. /\ UNCHANGED <<vars, link, agentEnd, kp, sentHs>>
      /\ Held("agent")' = Held("agent")
      /\ \A q \in Way("agent")' :
            \/ q \in Way("agent")
            \/ /\ q.type = "req" /\ q.seal = cSession.key
               /\ cSession # NoSession /\ q.seq = cSession'.sendSeq
      /\ \A c \in Conns : Left("client", c)' = Left("client", c)
      /\ Way("client")' \subseteq Way("client")
      /\ cSession'.key = cSession.key
      /\ cSession' # NoSession => cSession # NoSession
      /\ cSession'.sendSeq \in Nat /\ cSession.sendSeq <= cSession'.sendSeq
      /\ \/ Opened
         \/ toFar' = toFar /\ cSession'.lastRecvSeq = cSession.lastRecvSeq
  BY PumpingFacts
<1>2. /\ kp \in Nat /\ ephem \in Nat /\ aSession \in Sessions
      /\ cSession \in Sessions /\ UNCHANGED <<ephem, aSession>>
  BY <1>1 DEF SessionTypeOK, agentEnd
<1>3. /\ cSession.sendSeq \in Nat /\ aSession.lastRecvSeq \in Nat
      /\ \A q \in Way("agent") : q.seq \in Nat
  BY <1>2, WayTyped DEF Sessions, Frames, Programs
<1>4. KeysBorn'
  BY <1>1, <1>2 DEF KeysBorn
<1>5. Used' => Used
  <2>1. CASE cSession'.lastRecvSeq = cSession.lastRecvSeq
    BY <1>1, <1>2, <2>1 DEF Used, Answers
  <2>2. CASE Opens(cSession, First("client")) /\ First("client") \in Way("client")
             /\ First("client").type = "resp"
    <3>1. Answers(First("client"))
      BY <2>2 DEF Opens, Answers, KeysBorn
    <3> QED BY <2>2, <3>1 DEF Used
  <2> QED BY <1>1, <2>1, <2>2 DEF Opened
<1>6. Unasked'
  <2>1. \A q : Asks(q)' = Asks(q)
    BY <1>1 DEF Asks
  <2> QED BY <1>1, <1>5, <2>1 DEF Unasked, KeysBorn
<1>7. Now' => Now
  BY <1>1, <1>2 DEF Now
<1>8. ForthOpen'
  <2> SUFFICES ASSUME Now' PROVE ForthOpen'
    BY DEF ForthOpen
  <2>1. aSession'.key = cSession'.key =>
           aSession'.lastRecvSeq <= cSession'.sendSeq
    BY <1>1, <1>2, <1>3, <1>7 DEF ForthOpen
  <2>2. ASSUME NEW q \in Way("agent")', q.type = "req", q.seal = cSession'.key
        PROVE  q.seq <= cSession'.sendSeq
    <3>1. CASE q \in Way("agent")
      BY <1>1, <1>3, <1>7, <2>2, <3>1 DEF ForthOpen
    <3>2. CASE q.seq = cSession'.sendSeq
      BY <1>1, <3>2
    <3> QED BY <1>1, <3>1, <3>2
  <2> QED BY <2>1, <2>2 DEF ForthOpen
<1>9. Silent => Silent'
  BY <1>1, <1>2 DEF Silent, Of, Epoch
<1>10. Unanswered'
  BY <1>1, <1>2, <1>9 DEF Unanswered, Of, Epoch
<1>11. ToldWin'
  <2>1. \A c \in Conns : Left("client", c)' \subseteq Left("client", c)
    BY <1>1
  <2> QED BY <1>1, <1>2, <1>7, <1>9, <2>1, StillTold
<1> QED BY <1>4, <1>5, <1>6, <1>7, <1>8, <1>10, <1>11

-----------------------------------------------------------------------------
(* Lines of frames that grow at their end and shrink at their head.        *)

LEMMA BeforeTail ==
  ASSUME NEW s \in Seq(Frames), s # <<>>, Head(s).type # "up"
  PROVE  /\ NoUp(Tail(s)) => NoUp(s)
         /\ Before(Tail(s)) \subseteq Before(s)
         /\ Head(s) \in Before(s)
<1>1. /\ DOMAIN s = 1 .. Len(s) /\ Len(s) \in Nat /\ Len(s) >= 1
      /\ DOMAIN Tail(s) = 1 .. (Len(s) - 1)
      /\ \A i \in DOMAIN Tail(s) : Tail(s)[i] = s[i + 1]
      /\ s[1] = Head(s)
  OBVIOUS
<1>2. NoUp(Tail(s)) => NoUp(s)
  <2> SUFFICES ASSUME NoUp(Tail(s)), NEW i \in DOMAIN s
               PROVE  s[i].type # "up"
    BY DEF NoUp
  <2>1. CASE i = 1
    BY <1>1, <2>1
  <2>2. CASE i # 1
    <3>1. i - 1 \in DOMAIN Tail(s) /\ Tail(s)[i - 1] = s[i]
      BY <1>1, <2>2
    <3> QED BY <3>1 DEF NoUp
  <2> QED BY <2>1, <2>2
<1>3. Before(Tail(s)) \subseteq Before(s)
  <2> SUFFICES ASSUME NEW f \in Before(Tail(s)) PROVE f \in Before(s)
    OBVIOUS
  <2>1. PICK i \in DOMAIN Tail(s) : /\ f = Tail(s)[i]
                                    /\ \A k \in 1 .. i : Tail(s)[k].type # "up"
    BY DEF Before
  <2>2. i + 1 \in DOMAIN s /\ s[i + 1] = f
    BY <1>1, <2>1
  <2>3. ASSUME NEW k \in 1 .. (i + 1) PROVE s[k].type # "up"
    <3>1. CASE k = 1
      BY <1>1, <3>1
    <3>2. CASE k # 1
      <4>1. k - 1 \in 1 .. i /\ k - 1 \in DOMAIN Tail(s)
        BY <1>1, <2>1, <3>2
      <4> QED BY <1>1, <2>1, <4>1
    <3> QED BY <3>1, <3>2
  <2> QED BY <2>2, <2>3 DEF Before
<1>4. Head(s) \in Before(s)
  <2>1. 1 \in DOMAIN s /\ \A k \in 1 .. 1 : s[k].type # "up"
    BY <1>1
  <2> QED BY <1>1, <2>1 DEF Before
<1> QED BY <1>2, <1>3, <1>4

LEMMA BeforeAppend ==
  ASSUME NEW s \in Seq(Frames), NEW f \in Frames
  PROVE  /\ NoUp(Append(s, f)) => NoUp(s) /\ f.type # "up"
         /\ \A g \in Before(Append(s, f)) :
               g \in Before(s) \/ (NoUp(s) /\ g = f /\ f.type # "up")
<1> DEFINE t == Append(s, f)
<1>1. /\ Len(s) \in Nat /\ DOMAIN s = 1 .. Len(s)
      /\ DOMAIN t = 1 .. (Len(s) + 1)
      /\ \A i \in DOMAIN s : t[i] = s[i]
      /\ t[Len(s) + 1] = f
  OBVIOUS
<1> HIDE DEF t
<1>2. NoUp(t) => NoUp(s) /\ f.type # "up"
  BY <1>1 DEF NoUp
<1>3. ASSUME NEW g \in Before(t)
      PROVE  g \in Before(s) \/ (NoUp(s) /\ g = f /\ f.type # "up")
  <2>1. PICK i \in DOMAIN t : g = t[i] /\ \A k \in 1 .. i : t[k].type # "up"
    BY <1>3 DEF Before
  <2>2. CASE i \in DOMAIN s
    <3>1. g = s[i] /\ \A k \in 1 .. i : s[k].type # "up"
      BY <1>1, <2>1, <2>2
    <3> QED BY <2>2, <3>1 DEF Before
  <2>3. CASE i = Len(s) + 1
    <3>1. g = f /\ f.type # "up" /\ \A k \in DOMAIN s : s[k].type # "up"
      BY <1>1, <2>1, <2>3
    <3> QED BY <3>1 DEF NoUp
  <2> QED BY <1>1, <2>2, <2>3
<1> QED BY <1>2, <1>3 DEF t

LEMMA NoReturnTail ==
  ASSUME NEW s \in Seq(Frames), s # <<>>, NoReturn(s)
  PROVE  /\ NoReturn(Tail(s))
         /\ Asks(Head(s)) => \A f \in Range(Tail(s)) : ~Offers(f)
<1>1. /\ DOMAIN s = 1 .. Len(s) /\ Len(s) \in Nat /\ Len(s) >= 1
      /\ DOMAIN Tail(s) = 1 .. (Len(s) - 1)
      /\ \A i \in DOMAIN Tail(s) : Tail(s)[i] = s[i + 1]
      /\ s[1] = Head(s)
  OBVIOUS
<1>2. \A i \in DOMAIN Tail(s) : i \in Nat /\ i + 1 \in DOMAIN s
  BY <1>1
<1>3. NoReturn(Tail(s))
  <2> SUFFICES ASSUME NEW i \in DOMAIN Tail(s), NEW j \in DOMAIN Tail(s), i < j,
                      Asks(Tail(s)[i]), Offers(Tail(s)[j])
               PROVE  FALSE
    BY DEF NoReturn
  <2>1. i + 1 \in DOMAIN s /\ j + 1 \in DOMAIN s /\ i + 1 < j + 1
    BY <1>2
  <2>2. Asks(s[i + 1]) /\ Offers(s[j + 1])
    BY <1>1
  <2> QED BY <2>1, <2>2 DEF NoReturn
<1>4. ASSUME Asks(Head(s)), NEW f \in Range(Tail(s))
      PROVE  ~Offers(f)
  <2>1. PICK j \in DOMAIN Tail(s) : Tail(s)[j] = f
    BY <1>4 DEF Range
  <2>2. 1 \in DOMAIN s /\ j + 1 \in DOMAIN s /\ 1 < j + 1 /\ s[j + 1] = f
    BY <1>1, <1>2, <2>1
  <2> QED BY <1>1, <1>4, <2>2 DEF NoReturn
<1> QED BY <1>3, <1>4

LEMMA NoReturnAppend ==
  ASSUME NEW s \in Seq(Frames), NEW f \in Frames, NoReturn(s),
         Offers(f) => \A g \in Range(s) : ~Asks(g)
  PROVE  NoReturn(Append(s, f))
<1> DEFINE t == Append(s, f)
<1>1. /\ Len(s) \in Nat /\ DOMAIN s = 1 .. Len(s)
      /\ DOMAIN t = 1 .. (Len(s) + 1)
      /\ \A i \in DOMAIN s : t[i] = s[i] /\ s[i] \in Range(s)
      /\ t[Len(s) + 1] = f
  BY DEF Range
<1> HIDE DEF t
<1>2. SUFFICES ASSUME NEW i \in DOMAIN t, NEW j \in DOMAIN t, i < j,
                      Asks(t[i]), Offers(t[j])
               PROVE  FALSE
  BY DEF NoReturn, t
<1>3. i \in DOMAIN s /\ t[i] = s[i] /\ s[i] \in Range(s)
  BY <1>1, <1>2
<1>4. CASE j \in DOMAIN s
  BY <1>1, <1>2, <1>3, <1>4 DEF NoReturn
<1>5. CASE j = Len(s) + 1
  BY <1>1, <1>2, <1>3, <1>5
<1> QED BY <1>1, <1>4, <1>5

LEMMA NoReturnNone ==
  ASSUME NEW s \in Seq(Frames),
         \/ \A f \in Range(s) : ~Asks(f)
         \/ \A f \in Range(s) : ~Offers(f)
  PROVE  NoReturn(s)
BY DEF NoReturn, Range

-----------------------------------------------------------------------------
(* Only a key pair of the controller's makes it heard.                     *)

LEMMA HeardSame ==
  ASSUME NEW d \in Conns, link["client"] = d, link'["client"] = d,
         open'[d] = open[d], met'[d] = met[d], toFar'[d] = toFar[d],
         UNCHANGED cSession, Now' => Now
  PROVE  Heard' => Heard
<1> SUFFICES ASSUME Heard' PROVE Heard
  OBVIOUS
<1>1. CASE open'[d] /\ met'[d] # {} /\ NoUp(toFar'[d])
  BY <1>1, TunnelConstants DEF Heard
<1>2. CASE Now' /\ \/ cSession'.lastRecvSeq > 0
                   \/ \E f \in Before(toFar'[d]) : Of(f, "resp", ephem')
  <2>1. ephem' = ephem
    BY <1>2 DEF Now
  <2> QED BY <1>2, <2>1, TunnelConstants DEF Heard
<1> QED BY <1>1, <1>2 DEF Heard

LEMMA HeardForward ==
  ASSUME WinBase, EpochWin, ToldWin, NEW c \in Conns, Forward(c), Heard'
  PROVE  Heard
<1> USE DEF WinBase, CallBase, CallInv
<1> DEFINE h == Head(toHub[c])
<1>1. Typed /\ NoGhost /\ "client" \in Programs
  BY DEF SeatInv, Programs
<1>2. PICK d \in Conns : d = link["client"] /\ d # None
  <2>1. link'["client"] # None /\ link' = link
    BY <1>1, ForwardWay DEF Heard
  <2> QED BY <1>1, <2>1 DEF SessionTypeOK
<1>3. /\ UNCHANGED <<vars, link, ends>>
      /\ pc[c] = "serve"
      /\ h \in Frames /\ toFar[d] \in Seq(Frames)
      /\ \/ toFar'[d] = toFar[d]
         \/ /\ Moves(c, "client")
            /\ h \in Left("client", c)
            /\ toFar'[d] = Append(toFar[d], h)
  <2>1. h \in Frames /\ toFar[d] \in Seq(Frames)
    BY <1>1, ForwardWay DEF SessionTypeOK
  <2> HIDE DEF h
  <2>2. /\ UNCHANGED <<vars, link, ends>>
        /\ pc[c] = "serve"
        /\ \/ UNCHANGED toFar[link["client"]]
           \/ /\ Moves(c, "client")
              /\ h \in Left("client", c)
              /\ toFar'[link["client"]] = Append(toFar[link["client"]], h)
           \/ link["client"] = None
    BY <1>1, ForwardWay DEF h
  <2> QED BY <1>2, <2>1, <2>2
<1> HIDE DEF h
<1>4. /\ open'[d] = open[d] /\ met'[d] = met[d] /\ link'["client"] = d
      /\ UNCHANGED <<cSession, ephem>> /\ Now' = Now
  BY <1>2, <1>3 DEF vars, ends, agentEnd, keyEnd, notices, Now
<1>5. CASE toFar'[d] = toFar[d]
  BY <1>2, <1>4, <1>5, HeardSame
<1>6. CASE Moves(c, "client") /\ toFar'[d] = Append(toFar[d], h)
  <2>1. /\ NoUp(toFar'[d]) => NoUp(toFar[d])
        /\ \A g \in Before(toFar'[d]) :
              g \in Before(toFar[d]) \/ (NoUp(toFar[d]) /\ g = h)
    BY <1>3, <1>6, BeforeAppend
  <2>2. CASE open[d] /\ met[d] # {} /\ NoUp(toFar'[d])
    BY <1>2, <2>1, <2>2 DEF Heard
  <2>3. CASE Now /\ cSession.lastRecvSeq > 0
    BY <1>2, <2>3 DEF Heard
  <2>4. ASSUME Now, NEW g \in Before(toFar'[d]), Of(g, "resp", ephem)
        PROVE  Heard
    <3>1. CASE g \in Before(toFar[d])
      BY <1>2, <2>4, <3>1 DEF Heard
    <3>2. CASE g = h /\ NoUp(toFar[d]) /\ toFar'[d] # toFar[d]
      <4>1. ToldOf(c, d)
        BY <1>2, <1>3, <2>4, <3>2 DEF ToldWin, Heralded
      <4>2. c \in met[d] /\ open[d]
        BY <1>2, <1>3, <1>6, <4>1 DEF ToldOf, Moves
      <4> QED BY <1>2, <3>2, <4>2 DEF Heard
    <3> QED BY <2>1, <2>4, <3>1, <3>2
  <2>5. \/ open[d] /\ met[d] # {} /\ NoUp(toFar'[d])
        \/ Now /\ \/ cSession.lastRecvSeq > 0
                  \/ \E g \in Before(toFar'[d]) : Of(g, "resp", ephem)
    <3>1. \/ open'[d] /\ met'[d] # {} /\ NoUp(toFar'[d])
          \/ Now' /\ \/ cSession'.lastRecvSeq > 0
                     \/ \E g \in Before(toFar'[d]) : Of(g, "resp", ephem')
      BY <1>4 DEF Heard
    <3> QED BY <1>4, <3>1
  <2> QED BY <2>2, <2>3, <2>4, <2>5
<1> QED BY <1>3, <1>5, <1>6

\* Who is told of a peer reads of it.
LEMMA MetNotice ==
  ASSUME SessionTypeOK, TypeOK, NEW c \in Conns, HubStep(c), ~Forward(c),
         NEW d \in Conns
  PROVE  /\ open'[d] => open[d]
         /\ \/ met'[d] \subseteq met[d]
            \/ ~open[d]
            \/ toFar'[d] = Append(toFar[d], Notice("up"))
<1> USE DEF TypeOK, local, notices, history, store
<1>1. CASE HubUpSelf(c)
  BY <1>1 DEF HubUpSelf, UpSelf, Written, SessionTypeOK
<1>2. CASE HubUpPeer(c)
  BY <1>2 DEF HubUpPeer, UpPeer, Written, SessionTypeOK
<1>3. CASE HubNotifyDown(c) \/ HubHandshakeFails(c)
  BY <1>3 DEF HubNotifyDown, HubHandshakeFails, NotifyDown, HandshakeFails,
              Finish
<1>4. CASE \/ HubQuiet(c) \/ HubSwap(c) \/ Answer(c) \/ HubLosesLink(c)
  BY <1>4 DEF HubQuiet, HubSwap, Answer, HubLosesLink, Evict, ReadFails,
              GiveBack, Swap, Auth, RemoteCloses, Closed
<1> QED BY <1>1, <1>2, <1>3, <1>4 DEF HubStep, Hub

LEMMA HeardNotice ==
  ASSUME WinBase, EpochWin, NEW c \in Conns, HubStep(c), ~Forward(c), Heard'
  PROVE  Heard
<1> USE DEF WinBase, CallBase, CallInv
<1>1. TypeOK /\ "client" \in Programs
  BY DEF Typed, Programs
<1>2. UNCHANGED link /\ UNCHANGED ends
  BY <1>1, NoticeWay
<1>3. PICK d \in Conns : d = link["client"] /\ d # None
  <2>1. link["client"] # None
    BY <1>2 DEF Heard
  <2> QED BY <1>1, <2>1 DEF SessionTypeOK
<1>4. /\ open'[d] => open[d]
      /\ \/ met'[d] \subseteq met[d]
         \/ ~open[d]
         \/ toFar'[d] = Append(toFar[d], Notice("up"))
  BY <1>1, MetNotice
<1>5. /\ toFar[d] \in Seq(Frames)
      /\ \/ toFar'[d] = toFar[d]
         \/ \E n \in Frames : /\ toFar'[d] = Append(toFar[d], n)
                              /\ n.type \in {"up", "down"}
  <2>1. \/ toFar'[d] = toFar[d]
        \/ toFar'[d] = Append(toFar[d], Notice("up"))
        \/ toFar'[d] = Append(toFar[d], Notice("down"))
    BY <1>1, HubWires
  <2>2. \A t \in {"up", "down"} : Notice(t) \in Frames /\ Notice(t).type = t
    BY FrameRecords DEF Notice
  <2> QED BY <2>1, <2>2 DEF SessionTypeOK
<1>6. /\ NoUp(toFar'[d]) => NoUp(toFar[d])
      /\ \A g \in Before(toFar'[d]) :
            g \in Before(toFar[d]) \/ g.type \in {"up", "down"}
  BY <1>5, BeforeAppend
<1>7. toFar'[d] = Append(toFar[d], Notice("up")) => ~NoUp(toFar'[d])
  <2>1. PICK n \in Frames : n = Notice("up") /\ n.type = "up"
    BY FrameRecords DEF Notice
  <2> QED BY <1>5, <2>1, BeforeAppend
<1>8. Now' = Now /\ UNCHANGED <<cSession, ephem>>
  BY <1>2 DEF Now, ends, agentEnd, keyEnd
<1>9. \/ open'[d] /\ met'[d] # {} /\ NoUp(toFar'[d])
      \/ Now /\ \/ cSession.lastRecvSeq > 0
                \/ \E f \in Before(toFar'[d]) : Of(f, "resp", ephem)
  <2>1. \/ open'[d] /\ met'[d] # {} /\ NoUp(toFar'[d])
        \/ Now' /\ \/ cSession'.lastRecvSeq > 0
                   \/ \E f \in Before(toFar'[d]) : Of(f, "resp", ephem')
    BY <1>2, <1>3 DEF Heard
  <2> QED BY <1>8, <2>1
<1>10. CASE open'[d] /\ met'[d] # {} /\ NoUp(toFar'[d])
  <2>1. open[d] /\ met[d] # {} /\ NoUp(toFar[d])
    BY <1>4, <1>6, <1>7, <1>10
  <2> QED BY <1>3, <2>1 DEF Heard
<1>11. CASE Now /\ \/ cSession.lastRecvSeq > 0
                   \/ \E f \in Before(toFar'[d]) : Of(f, "resp", ephem)
  <2>1. \/ cSession.lastRecvSeq > 0
        \/ \E f \in Before(toFar[d]) : Of(f, "resp", ephem)
    BY <1>6, <1>11 DEF Of
  <2> QED BY <1>3, <1>11, <2>1 DEF Heard
<1> QED BY <1>9, <1>10, <1>11

LEMMA HeardLink ==
  ASSUME WinBase, EpochWin, ToldWin, Heard', NEW q \in Programs,
         \/ LinkLost(q)
         \/ \E c \in Conns, dev \in Devices, id \in Creds \cup {None} :
                Dial(q, c, dev, id)
  PROVE  q = "agent" /\ Heard
<1> USE DEF WinBase, CallBase, CallInv
<1>1. CASE LinkLost(q)
  <2>1. /\ UNCHANGED vars /\ link' = [link EXCEPT ![q] = None]
        /\ toFar' = Emptied(link[q], toFar) /\ link[q] # None
        /\ q = "client" => cSession' = NoSession
        /\ q # "client" => cSession' = cSession
        /\ UNCHANGED ephem
    BY <1>1 DEF LinkLost, Leave, agentEnd
  <2>2. q # "client" /\ q = "agent"
    BY <2>1 DEF Heard, SessionTypeOK, Programs
  <2>3. PICK d \in Conns : d = link["client"] /\ link'["client"] = d
    BY <2>1, <2>2 DEF SessionTypeOK, Programs, Heard
  <2>4. d # link[q]
    BY <2>1, <2>2, <2>3 DEF Linked
  <2>5. toFar'[d] = toFar[d] /\ open'[d] = open[d] /\ met'[d] = met[d]
    BY <2>1, <2>4 DEF Emptied, SessionTypeOK, vars, notices
  <2>6. cSession' = cSession /\ Now' = Now
    BY <2>1, <2>2 DEF Now
  <2> QED BY <2>2, <2>3, <2>5, <2>6, HeardSame
<1>2. ASSUME NEW c \in Conns, NEW dev \in Devices, NEW id \in Creds \cup {None},
             Dial(q, c, dev, id)
      PROVE  q = "agent" /\ Heard
  <2>1. /\ UNCHANGED <<ends, met>>
        /\ pc[c] = "idle" /\ link[q] = None
        /\ link' = [link EXCEPT ![q] = c]
        /\ toFar' = Emptied(c, toFar)
        /\ open' = [open EXCEPT ![c] = TRUE]
        /\ \A p \in Programs : link[p] # c
    BY <1>2 DEF Dial, Hello, notices
  <2>2. UNCHANGED <<cSession, ephem>> /\ Now' = Now
    BY <2>1 DEF ends, agentEnd, keyEnd, Now
  <2>3. q # "client"
    <3> SUFFICES ASSUME q = "client" PROVE FALSE
      OBVIOUS
    <3>1. met'[c] = {} /\ link'["client"] = c
      BY <2>1 DEF ToldWin, MetIdle, SessionTypeOK
    <3>2. ~Now'
      BY <2>1, <2>2 DEF Epochs, Now
    <3> QED BY <3>1, <3>2 DEF Heard
  <2>4. q = "agent" /\ link'["client"] = link["client"]
    BY <2>1, <2>3 DEF Programs, SessionTypeOK
  <2>5. PICK d \in Conns : d = link["client"]
    BY <2>4 DEF SessionTypeOK, Programs, Heard
  <2>6. d # c
    BY <2>1, <2>5 DEF Programs
  <2>7. toFar'[d] = toFar[d] /\ open'[d] = open[d] /\ met'[d] = met[d]
    <3>1. TypeOK
      BY DEF Typed
    <3> QED BY <2>1, <2>6, <3>1 DEF Emptied, SessionTypeOK, TypeOK
  <2> QED BY <2>2, <2>4, <2>5, <2>7, HeardSame
<1> QED BY <1>1, <1>2

LEMMA HeardAgent ==
  ASSUME WinBase, EpochWin, AgentLoop, Heard'
  PROVE  Heard
<1> USE DEF WinBase, CallBase, CallInv
<1>1. /\ UNCHANGED <<vars, link, keyEnd>>
      /\ \E t : Incoming("agent", t)
      /\ ephem \in Nat /\ ephem' \in {ephem, ephem + 1}
      /\ cSession \in Sessions
  BY DEF AgentLoop, AgentUp, AgentDown, AgentHandshake, AgentRequest,
         SessionTypeOK
<1>2. Now' => Now
  <2>1. cSession.key[2] \in Nat
    BY <1>1 DEF Sessions
  <2>2. cSession # NoSession => cSession.key[2] <= ephem
    BY WayCalls
  <2> QED BY <1>1, <2>1, <2>2 DEF Now, keyEnd
<1>3. link["agent"] # link["client"] /\ link["client"] # None
  BY <1>1 DEF Heard, Incoming, Reads, Linked
<1>4. PICK d \in Conns : d = link["client"] /\ link'["client"] = d
  BY <1>1, <1>3 DEF SessionTypeOK, Programs
<1>5. toFar'[d] = toFar[d]
  BY <1>1, <1>3, <1>4 DEF Incoming, SessionTypeOK
<1> QED BY <1>1, <1>2, <1>4, <1>5, HeardSame DEF vars, notices, keyEnd

\* The controller reads something else than the notice of a peer.
LEMMA HeardReads ==
  ASSUME SessionTypeOK, NEW d \in Conns, link["client"] = d,
         UNCHANGED <<vars, link, ephem>>,
         toFar[d] \in Seq(Frames), toFar[d] # <<>>, Head(toFar[d]).type # "up",
         toFar'[d] = Tail(toFar[d]),
         \/ ~Now'
         \/ Now' /\ cSession'.lastRecvSeq = 0 /\ Silent
         \/ /\ Now' => Now
            /\ \/ cSession'.lastRecvSeq = cSession.lastRecvSeq
               \/ Of(Head(toFar[d]), "resp", ephem),
         Heard'
  PROVE  Heard
<1>1. /\ NoUp(toFar'[d]) => NoUp(toFar[d])
      /\ Before(toFar'[d]) \subseteq Before(toFar[d])
      /\ Head(toFar[d]) \in Before(toFar[d])
  BY BeforeTail
<1>2. d # None
  BY TunnelConstants
<1>3. \/ open[d] /\ met[d] # {} /\ NoUp(toFar'[d])
      \/ Now' /\ \/ cSession'.lastRecvSeq > 0
                 \/ \E f \in Before(toFar'[d]) : Of(f, "resp", ephem)
  <2>1. \/ open'[d] /\ met'[d] # {} /\ NoUp(toFar'[d])
        \/ Now' /\ \/ cSession'.lastRecvSeq > 0
                   \/ \E f \in Before(toFar'[d]) : Of(f, "resp", ephem')
    BY DEF Heard
  <2> QED BY <2>1 DEF vars, notices
<1>4. CASE open[d] /\ met[d] # {} /\ NoUp(toFar'[d])
  BY <1>1, <1>2, <1>4 DEF Heard
<1>5. CASE /\ Now'
           /\ \/ cSession'.lastRecvSeq > 0
              \/ \E f \in Before(toFar'[d]) : Of(f, "resp", ephem)
  <2>1. CASE cSession'.lastRecvSeq = 0 /\ Silent
    <3>1. PICK f \in Before(toFar[d]) : Of(f, "resp", ephem)
      BY <1>1, <1>5, <2>1
    <3>2. f \in Range(toFar[d])
      BY <3>1 DEF Before, Range
    <3>3. f \in Way("client")
      BY <1>2, <3>1, <3>2, WayParts DEF Held, Of, Spoken
    <3> QED BY <2>1, <3>1, <3>3 DEF Silent
  <2>2. CASE /\ Now
             /\ \/ cSession'.lastRecvSeq = cSession.lastRecvSeq
                \/ Of(Head(toFar[d]), "resp", ephem)
    BY <1>1, <1>2, <1>5, <2>2 DEF Heard
  <2> QED BY <1>5, <2>1, <2>2
<1> QED BY <1>3, <1>4, <1>5

LEMMA HeardController ==
  ASSUME WinBase, EpochWin, ControllerDown \/ ControllerHandshake \/ Pumping,
         Heard'
  PROVE  Heard
<1> USE DEF WinBase, CallBase, CallInv
<1> DEFINE f == First("client")
<1>1. PICK d \in Conns : d = link["client"]
  <2>1. link' = link
    BY DEF ControllerDown, ControllerHandshake, Pumping, ControllerAnswer,
           Issue, PumpTimer, Timeout
  <2> QED BY <2>1 DEF Heard, SessionTypeOK, Programs
<1>2. CASE ControllerDown
  <2>1. /\ UNCHANGED <<vars, link, ephem>> /\ cSession' = NoSession
        /\ Incoming("client", "down")
        /\ UNCHANGED toHub
    BY <1>2 DEF ControllerDown, agentEnd
  <2>2. /\ toFar[d] \in Seq(Frames) /\ toFar[d] # <<>>
        /\ Head(toFar[d]).type # "up"
        /\ toFar'[d] = Tail(toFar[d])
    BY <1>1, <2>1, ReadWay DEF Programs, vars, First
  <2> QED BY <1>1, <2>1, <2>2, HeardReads DEF Now
<1>3. CASE ControllerHandshake
  <2>1. /\ UNCHANGED <<vars, link, ephem>>
        /\ toFar[d] \in Seq(Frames) /\ toFar[d] # <<>>
        /\ f = Head(toFar[d]) /\ f.type = "hs"
        /\ toFar'[d] = Tail(toFar[d])
        /\ f \in Way("client")
        /\ cSession'.key = <<kp, f.key>> /\ cSession'.lastRecvSeq = 0
    BY <1>1, <1>3, ControllerHandshakeFacts DEF agentEnd
  <2> HIDE DEF f
  <2>2. Now' => Silent
    <3>1. Now' => Of(f, "hs", ephem)
      BY <2>1 DEF Now, Of, Epoch
    <3> QED BY <2>1, <3>1 DEF EpochWin, Unanswered
  <2> QED BY <1>1, <2>1, <2>2, HeardReads
<1>4. CASE Pumping
  <2>1. /\ UNCHANGED <<vars, link, ephem>>
        /\ \/ Opened
           \/ toFar' = toFar /\ cSession'.lastRecvSeq = cSession.lastRecvSeq
    BY <1>4, PumpingFacts DEF agentEnd
  <2>2. Now' => Now
    BY <1>4, PumpingFacts DEF Now, agentEnd
  <2>3. CASE Opened
    <3>1. /\ toFar[d] \in Seq(Frames) /\ toFar[d] # <<>>
          /\ f = Head(toFar[d]) /\ f.type = "resp"
          /\ toFar'[d] = Tail(toFar[d])
          /\ \/ cSession'.lastRecvSeq = cSession.lastRecvSeq
             \/ Opens(cSession, f)
      BY <1>1, <2>3 DEF Opened
    <3> HIDE DEF f
    <3>2. Now /\ Opens(cSession, f) => Of(f, "resp", ephem)
      BY <3>1 DEF Now, Opens, Of, Epoch
    <3>3. \/ ~Now'
          \/ /\ Now' => Now
             /\ \/ cSession'.lastRecvSeq = cSession.lastRecvSeq
                \/ Of(Head(toFar[d]), "resp", ephem)
      BY <2>2, <3>1, <3>2
    <3> QED BY <1>1, <2>1, <3>1, <3>3, HeardReads
  <2>4. CASE toFar' = toFar /\ cSession'.lastRecvSeq = cSession.lastRecvSeq
    <3>1. d # None
      BY TunnelConstants
    <3>2. \/ open[d] /\ met[d] # {} /\ NoUp(toFar[d])
          \/ Now' /\ \/ cSession.lastRecvSeq > 0
                     \/ \E g \in Before(toFar[d]) : Of(g, "resp", ephem)
      <4>1. link'["client"] = d /\ open' = open /\ met' = met
            /\ ephem' = ephem
        BY <1>1, <2>1 DEF vars, notices
      <4> QED BY <2>4, <4>1 DEF Heard
    <3> QED BY <1>1, <2>2, <3>1, <3>2 DEF Heard
  <2> QED BY <2>1, <2>3, <2>4
<1> QED BY <1>2, <1>3, <1>4

-----------------------------------------------------------------------------
(* A key pair's handshakes are not overtaken by its requests.              *)

LEMMA LineFrom ==
  ASSUME UNCHANGED kp, NEW d \in Conns, link'["client"] = d,
         \A c \in Conns \ {d} :
            \A f \in Left("agent", c)' : ~Asks(f) /\ ~Offers(f),
         who'[d].kind = "client" =>
            /\ NoReturn(toHub'[d])
            /\ Used' \/ (\E f \in Held("agent")' : Asks(f))
                 => \A f \in Range(toHub'[d]) : ~Offers(f),
         link'["agent"] # None => NoReturn(toFar'[link'["agent"]]),
         Used' => \A f \in Held("agent")' : ~Offers(f)
  PROVE  InLine'
<1>1. \A f : Asks(f)' = Asks(f) /\ Offers(f)' = Offers(f)
  BY DEF Asks, Offers
<1>2. /\ NoReturn(toHub'[d]) => NoReturn(toHub[d])'
      /\ link'["agent"] # None /\ NoReturn(toFar'[link'["agent"]]) =>
            NoReturn(toFar[link["agent"]])'
  BY <1>1 DEF NoReturn
<1> QED BY <1>1, <1>2 DEF InLine

LEMMA LineKeeps ==
  ASSUME InLine, UNCHANGED kp, Heard' => Heard, Used' => Used,
         NEW d \in Conns, link["client"] = d, link'["client"] = d,
         \A c \in Conns \ {d} : Left("agent", c)' \subseteq Left("agent", c),
         who'[d].kind = "client" => who[d].kind = "client",
         NoReturn(toHub[d]) => NoReturn(toHub'[d]),
         \A f \in Range(toHub'[d]) : Offers(f) => f \in Range(toHub[d]),
         Held("agent")' \subseteq Held("agent"),
         link'["agent"] # None =>
            \/ NoReturn(toFar'[link'["agent"]])
            \/ /\ link["agent"] # None
               /\ NoReturn(toFar[link["agent"]]) =>
                     NoReturn(toFar'[link'["agent"]])
  PROVE  InLine'
<1> SUFFICES ASSUME Heard' PROVE InLine'
  BY DEF InLine
<1>1. \A c \in Conns \ {d} : \A f \in Left("agent", c)' : ~Asks(f) /\ ~Offers(f)
  BY DEF InLine
<1>2. who'[d].kind = "client" =>
        /\ NoReturn(toHub'[d])
        /\ Used' \/ (\E f \in Held("agent")' : Asks(f))
             => \A f \in Range(toHub'[d]) : ~Offers(f)
  BY DEF InLine
<1>3. /\ link'["agent"] # None => NoReturn(toFar'[link'["agent"]])
      /\ Used' => \A f \in Held("agent")' : ~Offers(f)
  BY DEF InLine
<1> QED BY <1>1, <1>2, <1>3, LineFrom

LEMMA LineForward ==
  ASSUME WinBase, EpochWin, ToldWin, InLine, NEW c \in Conns, Forward(c)
  PROVE  InLine'
<1> USE DEF WinBase, CallBase, CallInv
<1> SUFFICES ASSUME Heard' PROVE InLine'
  BY DEF InLine
<1> DEFINE h == Head(toHub[c])
<1>1. /\ Typed /\ NoGhost /\ Heard /\ Still
      /\ "client" \in Programs /\ "agent" \in Programs
  BY HeardForward, ForwardTold DEF SeatInv, Programs
<1>2. PICK d \in Conns : d = link["client"]
  BY <1>1 DEF Heard, SessionTypeOK
<1>3. /\ UNCHANGED <<vars, link, kp>>
      /\ h \in Range(toHub[c]) /\ h \in Frames
      /\ toHub'[c] = Tail(toHub[c])
      /\ \A q \in Conns \ {c} : toHub'[q] = toHub[q]
      /\ toHub[c] \in Seq(Frames) /\ toHub[c] # <<>>
      /\ \A q \in Conns : Left("agent", q)' \subseteq Left("agent", q)
      /\ \/ Held("agent")' = Held("agent") /\ UNCHANGED toFar[link["agent"]]
         \/ /\ Moves(c, "agent")
            /\ h \in Left("agent", c)
            /\ Held("agent")' \subseteq Held("agent") \cup {h}
            /\ toFar'[link["agent"]] = Append(toFar[link["agent"]], h)
         \/ link["agent"] = None /\ Held("agent")' = Held("agent")
  <2>1. h \in Frames
    BY <1>1, ForwardWay
  <2> HIDE DEF h
  <2> QED BY <1>1, <2>1, ForwardWay DEF Still, h
<1>4. UNCHANGED who /\ (Used' => Used)
  BY <1>1, <1>3, StillUsed DEF vars
<1>5. /\ NoReturn(toHub[d]) => NoReturn(toHub'[d])
      /\ Range(toHub'[d]) \subseteq Range(toHub[d])
  <2>1. CASE c = d
    BY <1>3, <2>1, NoReturnTail, FrameRange
  <2>2. CASE c # d
    BY <1>2, <1>3, <2>2
  <2> QED BY <2>1, <2>2
<1>6. CASE /\ Held("agent")' = Held("agent")
           /\ link["agent"] = None \/ UNCHANGED toFar[link["agent"]]
  <2>1. link'["agent"] # None =>
           /\ link["agent"] # None
           /\ NoReturn(toFar[link["agent"]]) => NoReturn(toFar'[link'["agent"]])
    BY <1>3, <1>6
  <2> QED BY <1>1, <1>2, <1>3, <1>4, <1>5, <1>6, <2>1, LineKeeps DEF vars
<1>7. CASE /\ Moves(c, "agent")
           /\ h \in Left("agent", c)
           /\ Held("agent")' \subseteq Held("agent") \cup {h}
           /\ toFar'[link["agent"]] = Append(toFar[link["agent"]], h)
  <2>1. PICK a \in Conns : a = link["agent"] /\ a # None
    BY <1>1, <1>7 DEF Moves, SessionTypeOK
  <2>2. /\ \A q \in Conns \ {d} :
              \A f \in Left("agent", q) : ~Asks(f) /\ ~Offers(f)
        /\ who[d].kind = "client" =>
              /\ NoReturn(toHub[d])
              /\ Used \/ (\E f \in Held("agent") : Asks(f))
                   => \A f \in Range(toHub[d]) : ~Offers(f)
        /\ NoReturn(toFar[a])
        /\ Used => \A f \in Held("agent") : ~Offers(f)
    BY <1>1, <1>2, <2>1 DEF InLine
  <2>3. Asks(h) \/ Offers(h) => c = d /\ who[d].kind = "client"
    BY <1>7, <2>2 DEF Moves, Opposite
  <2>4. Asks(h) => \A f \in Range(toHub'[d]) : ~Offers(f)
    BY <1>3, <2>2, <2>3, NoReturnTail
  <2>5. Offers(h) => ~Used /\ \A f \in Held("agent") : ~Asks(f)
    BY <1>3, <2>2, <2>3
  <2>6. \A f \in Range(toFar[a]) : Asks(f) => f \in Held("agent")
    BY <2>1 DEF Held, Asks, Spoken
  <2>7. NoReturn(toFar'[a])
    <3>1. toFar[a] \in Seq(Frames)
      BY DEF SessionTypeOK
    <3> QED BY <1>3, <1>7, <2>1, <2>2, <2>5, <2>6, <3>1, NoReturnAppend
  <2>8. who'[d].kind = "client" =>
           /\ NoReturn(toHub'[d])
           /\ Used' \/ (\E f \in Held("agent")' : Asks(f))
                => \A f \in Range(toHub'[d]) : ~Offers(f)
    <3> SUFFICES ASSUME who[d].kind = "client"
                 PROVE  /\ NoReturn(toHub'[d])
                        /\ Used' \/ (\E f \in Held("agent")' : Asks(f))
                             => \A f \in Range(toHub'[d]) : ~Offers(f)
      BY <1>4
    <3>1. Used \/ (\E f \in Held("agent") : Asks(f))
             => \A f \in Range(toHub'[d]) : ~Offers(f)
      BY <1>5, <2>2
    <3>2. (\E f \in Held("agent")' : Asks(f)) =>
             Asks(h) \/ \E f \in Held("agent") : Asks(f)
      BY <1>7
    <3> QED BY <1>4, <1>5, <2>2, <2>4, <3>1, <3>2
  <2>9. Used' => \A f \in Held("agent")' : ~Offers(f)
    <3> SUFFICES ASSUME Used', NEW f \in Held("agent")' PROVE ~Offers(f)
      OBVIOUS
    <3>1. Used /\ ~Offers(h)
      BY <1>4, <2>5
    <3> QED BY <1>7, <2>2, <3>1
  <2>10. \A q \in Conns \ {d} :
              \A f \in Left("agent", q)' : ~Asks(f) /\ ~Offers(f)
    BY <1>3, <2>2
  <2>11. link'["agent"] = a /\ link'["client"] = d
    BY <1>2, <1>3, <2>1
  <2> QED BY <1>3, <2>7, <2>8, <2>9, <2>10, <2>11, LineFrom
<1> QED BY <1>3, <1>6, <1>7

LEMMA LineNotice ==
  ASSUME WinBase, EpochWin, ToldWin, InLine, NEW c \in Conns,
         HubStep(c), ~Forward(c)
  PROVE  InLine'
<1> USE DEF WinBase, CallBase, CallInv
<1> SUFFICES ASSUME Heard' PROVE InLine'
  BY DEF InLine
<1>1. /\ TypeOK /\ Heard /\ Still
      /\ "client" \in Programs /\ "agent" \in Programs
  BY HeardNotice, NoticeTold DEF Typed, Programs
<1>2. PICK d \in Conns : d = link["client"]
  BY <1>1 DEF Heard, SessionTypeOK
<1>3. /\ UNCHANGED link
      /\ \A q \in Conns : Left("agent", q)' \subseteq Left("agent", q)
      /\ Held("agent")' \subseteq Held("agent")
  BY <1>1, NoticeWay
<1>4. \A q \in Conns :
         /\ who'[q] = who[q] \/ who'[q] = Nobody
         /\ toHub'[q] = toHub[q] \/ toHub'[q] = <<>>
         /\ \/ toFar'[q] = toFar[q]
            \/ toFar'[q] = Append(toFar[q], Notice("up"))
            \/ toFar'[q] = Append(toFar[q], Notice("down"))
  BY <1>1, HubWires
<1>5. UNCHANGED kp /\ (Used' => Used)
  BY <1>1, StillUsed DEF Still
<1>6. who'[d].kind = "client" => who[d].kind = "client"
  BY <1>4 DEF Nobody
<1>7. <<>> \in Seq(Frames) /\ Range(<<>>) = {} /\ NoReturn(<<>>)
  BY FrameRange DEF SessionTypeOK, NoReturn
<1>8. NoReturn(toHub[d]) => NoReturn(toHub'[d])
  BY <1>4, <1>7
<1>9. Range(toHub'[d]) \subseteq Range(toHub[d])
  BY <1>4, <1>7
<1>10. ASSUME NEW a \in Conns PROVE NoReturn(toFar[a]) => NoReturn(toFar'[a])
  <2>1. toFar[a] \in Seq(Frames)
    BY DEF SessionTypeOK
  <2>2. ASSUME NEW n \in {Notice("up"), Notice("down")}, NoReturn(toFar[a])
        PROVE  NoReturn(Append(toFar[a], n))
    <3>1. n \in Frames /\ ~Offers(n)
      BY FrameRecords DEF Notice, Offers
    <3> QED BY <2>1, <2>2, <3>1, NoReturnAppend
  <2> QED BY <1>4, <2>2
<1>11. link'["agent"] # None =>
          /\ link["agent"] # None
          /\ NoReturn(toFar[link["agent"]]) => NoReturn(toFar'[link'["agent"]])
  BY <1>1, <1>3, <1>10 DEF SessionTypeOK
<1>12. link'["client"] = d
  BY <1>2, <1>3
<1> QED BY <1>1, <1>2, <1>3, <1>5, <1>6, <1>8, <1>9, <1>11, <1>12, LineKeeps

LEMMA LineLink ==
  ASSUME WinBase, EpochWin, ToldWin, InLine, NEW q \in Programs,
         \/ LinkLost(q)
         \/ \E c \in Conns, dev \in Devices, id \in Creds \cup {None} :
                Dial(q, c, dev, id)
  PROVE  InLine'
<1> USE DEF WinBase, CallBase, CallInv
<1> SUFFICES ASSUME Heard' PROVE InLine'
  BY DEF InLine
<1>1. /\ TypeOK /\ Heard /\ q = "agent" /\ Still
      /\ "client" \in Programs /\ "agent" \in Programs
  BY HeardLink, LinkLostTold, DialTold DEF Typed, Programs
<1>2. PICK d \in Conns : d = link["client"] /\ d # None
  BY <1>1 DEF Heard, SessionTypeOK
<1>3. /\ \A x \in Conns : Left("agent", x)' \subseteq Left("agent", x)
      /\ Held("agent")' \subseteq Held("agent")
  BY <1>1, LinkWay
<1>4. UNCHANGED kp /\ (Used' => Used)
  BY <1>1, StillUsed DEF Still
<1>5. NoReturn(<<>>)
  BY DEF NoReturn
<1>6. /\ link'["client"] = d
      /\ toHub'[d] = toHub[d] /\ who'[d] = who[d]
      /\ link'["agent"] # None => toFar'[link'["agent"]] = <<>>
  <2>1. CASE LinkLost(q)
    BY <1>1, <1>2, <2>1 DEF LinkLost, Leave, vars, SessionTypeOK
  <2>2. ASSUME NEW c \in Conns, NEW dev \in Devices, NEW id \in Creds \cup {None},
               Dial(q, c, dev, id)
        PROVE  /\ link'["client"] = d
               /\ toHub'[d] = toHub[d] /\ who'[d] = who[d]
               /\ link'["agent"] # None => toFar'[link'["agent"]] = <<>>
    <3>1. c # d
      BY <1>1, <1>2, <2>2 DEF Dial
    <3> QED BY <1>1, <1>2, <2>2, <3>1
            DEF Dial, Hello, Emptied, SessionTypeOK, TypeOK
  <2> QED BY <2>1, <2>2
<1> QED BY <1>1, <1>2, <1>3, <1>4, <1>5, <1>6, LineKeeps

\* The agent's steps: it reads the line, and its requests are used.
LEMMA LineAgentReads ==
  ASSUME WinBase, EpochWin, InLine, AgentLoop, Heard'
  PROVE  LET a == link["agent"]  d == link["client"] IN
         /\ Heard /\ UNCHANGED <<link, kp>>
         /\ a \in Conns /\ a # None /\ d \in Conns
         /\ toFar[a] \in Seq(Frames) /\ toFar[a] # <<>>
         /\ First("agent") = Head(toFar[a])
         /\ toFar'[a] = Tail(toFar[a]) /\ NoReturn(toFar'[a])
         /\ toHub'[d] = toHub[d] /\ who' = who
         /\ Held("agent")' \subseteq Held("agent")
         /\ \A c \in Conns : Left("agent", c)' = Left("agent", c)
<1> USE DEF WinBase, CallBase, CallInv
<1> DEFINE a == link["agent"]
           d == link["client"]
<1>1. /\ UNCHANGED <<vars, link, keyEnd>>
      /\ \E t : Incoming("agent", t)
      /\ toHub' = toHub \/ \E f : Sends("agent", <<f>>)
  BY DEF AgentLoop, AgentUp, AgentDown, AgentHandshake, AgentRequest
<1>2. Heard /\ "agent" \in Programs /\ "client" \in Programs
  BY HeardAgent DEF Programs
<1>3. d \in Conns /\ d # None
  BY <1>2 DEF Heard, SessionTypeOK
<1>4. a \in Conns /\ a # None /\ a # d
  BY <1>1, <1>2 DEF Incoming, Reads, Linked, SessionTypeOK
<1>5. \A c \in Conns \ {a} : toHub'[c] = toHub[c]
  BY <1>1, <1>4 DEF Sends, SessionTypeOK
<1>6. /\ toFar[a] \in Seq(Frames) /\ toFar[a] # <<>>
      /\ First("agent") = Head(toFar[a])
      /\ toFar'[a] = Tail(toFar[a])
      /\ Held("agent")' \subseteq Held("agent")
      /\ \A c \in Conns : Left("agent", c)' = Left("agent", c)
  BY <1>1, <1>2, <1>5, ReadWay DEF vars
<1>7. NoReturn(toFar[a])
  BY <1>2, <1>4 DEF InLine
<1>8. NoReturn(toFar'[a])
  BY <1>6, <1>7, NoReturnTail
<1> QED BY <1>1, <1>2, <1>3, <1>4, <1>5, <1>6, <1>8 DEF vars, keyEnd

LEMMA LineAgent ==
  ASSUME WinBase, EpochWin, InLine, AgentLoop, Used' => Used
  PROVE  InLine'
<1> SUFFICES ASSUME Heard' PROVE InLine'
  BY DEF InLine
<1>1. PICK a \in Conns, d \in Conns : a = link["agent"] /\ d = link["client"]
  BY LineAgentReads
<1>2. /\ Heard /\ UNCHANGED <<link, kp>>
      /\ a # None /\ NoReturn(toFar'[a])
      /\ toHub'[d] = toHub[d] /\ who' = who
      /\ Held("agent")' \subseteq Held("agent")
      /\ \A c \in Conns : Left("agent", c)' = Left("agent", c)
  BY <1>1, LineAgentReads
<1> QED BY <1>1, <1>2, LineKeeps

LEMMA LineAgentRuns ==
  ASSUME WinBase, EpochWin, InLine, AgentRequest, Opens(aSession, First("agent"))
  PROVE  InLine'
<1> USE DEF WinBase, CallBase, CallInv
<1> DEFINE f == First("agent")
           g == Sealed("resp", aSession, f.id)
<1>1. /\ UNCHANGED <<cSession, kp>>
      /\ f \in Held("agent") /\ f.type = "req" /\ f.seal = aSession.key
      /\ g.type = "resp" /\ g.seal = aSession.key
      /\ aSession'.key = aSession.key
      /\ Way("client")' \subseteq Way("client") \cup {g}
  BY AgentRunsFacts
<1>2. AgentLoop
  BY DEF AgentLoop
<1> HIDE DEF f, g
<1>3. CASE aSession.key[1] # kp
  <2>1. Used' => Used
    BY <1>1, <1>3 DEF Used, Answers
  <2> QED BY <1>2, <2>1, LineAgent
<1>4. CASE aSession.key[1] = kp
  <2>1. Asks(f)
    BY <1>1, <1>4 DEF Asks
  <2> SUFFICES ASSUME Heard' PROVE InLine'
    BY DEF InLine
  <2>2. PICK a \in Conns, d \in Conns : a = link["agent"] /\ d = link["client"]
    BY <1>2, LineAgentReads
  <2>3. /\ Heard /\ UNCHANGED <<link, kp>>
        /\ a # None /\ NoReturn(toFar'[a])
        /\ toFar[a] \in Seq(Frames) /\ toFar[a] # <<>>
        /\ f = Head(toFar[a])
        /\ toFar'[a] = Tail(toFar[a])
        /\ toHub'[d] = toHub[d] /\ who' = who
        /\ Held("agent")' \subseteq Held("agent")
        /\ \A c \in Conns : Left("agent", c)' = Left("agent", c)
    BY <1>2, <2>2, LineAgentReads DEF f
  <2>4. /\ \A c \in Conns \ {d} :
              \A q \in Left("agent", c) : ~Asks(q) /\ ~Offers(q)
        /\ who[d].kind = "client" =>
              NoReturn(toHub[d]) /\ \A q \in Range(toHub[d]) : ~Offers(q)
        /\ NoReturn(toFar[a])
    BY <1>1, <2>1, <2>2, <2>3 DEF InLine
  <2>5. \A q \in Range(toFar'[a]) : ~Offers(q)
    BY <2>1, <2>3, <2>4, NoReturnTail
  <2>6. \A q \in Held("agent")' : ~Offers(q)
    BY <2>2, <2>3, <2>5 DEF Held
  <2>7. link'["client"] = d /\ link'["agent"] = a
    BY <2>2, <2>3
  <2> QED BY <2>3, <2>4, <2>6, <2>7, LineFrom
<1> QED BY <1>3, <1>4

LEMMA LineControllerUp ==
  ASSUME WinBase, EpochWin, ControllerUp
  PROVE  InLine'
<1> USE DEF WinBase, CallBase, CallInv
<1> PICK h \in Frames : h = Handshake(kp + 1)
  BY ControllerUpFacts
<1>1. PICK d \in Conns : d = link["client"]
  BY DEF ControllerUp, Incoming, Reads, SessionTypeOK, Programs
<1>2. /\ UNCHANGED <<vars, link, agentEnd>>
      /\ kp' = kp + 1 /\ kp \in Nat /\ cSession' = NoSession
      /\ h \in Frames /\ h.type = "hs"
      /\ toHub'[d] = Append(toHub[d], h)
      /\ \A c \in Conns \ {d} : toHub'[c] = toHub[c]
      /\ Held("agent")' = Held("agent")
      /\ Way("client")' \subseteq Way("client")
      /\ link["agent"] # None =>
            toFar'[link["agent"]] = toFar[link["agent"]]
  BY <1>1, ControllerUpFacts DEF SessionTypeOK
<1>3. /\ \A f \in Way("agent") : f.key \in Nat /\ f.seal[1] \in Nat
      /\ \A f \in Way("client") : f.seal[1] \in Nat
      /\ aSession.key[1] \in Nat
  <2>1. aSession \in Sessions
    BY DEF SessionTypeOK
  <2> QED BY <2>1, WayTyped DEF Frames, Programs, Sessions
<1>4. /\ \A f \in Way("agent") : ~Asks(f)' /\ ~Offers(f)'
      /\ \A f \in Way("client") : ~Answers(f)'
      /\ aSession.key[1] # kp'
  BY <1>2, <1>3 DEF EpochWin, KeysBorn, Asks, Offers, Answers
<1>5. ~Used'
  BY <1>2, <1>4 DEF Used, agentEnd, NoSession
<1>6. ~Asks(h)'
  BY <1>2 DEF Asks
<1>7. /\ \A f \in Held("agent") : f \in Way("agent")
      /\ \A c \in Conns : \A f \in Left("agent", c) : f \in Way("agent")
  BY WayParts
<1>8. \A c \in Conns \ {d} : \A f \in Left("agent", c)' : ~Asks(f)' /\ ~Offers(f)'
  BY <1>2, <1>4, <1>7 DEF Left, vars
<1>9. who[d].kind = "client" => \A f \in Range(toHub'[d]) : ~Asks(f)'
  <2>1. toHub[d] \in Seq(Frames)
    BY DEF SessionTypeOK
  <2>2. Range(toHub'[d]) = Range(toHub[d]) \cup {h}
    BY <1>2, <2>1, FrameRange
  <2> QED BY <1>4, <1>6, <1>7, <2>2 DEF Left, Opposite
<1>10. link["agent"] # None => \A f \in Range(toFar'[link["agent"]]) : ~Asks(f)'
  BY <1>2, <1>4, <1>7 DEF Held, Asks, Spoken
<1>11. /\ link'["client"] = d /\ who' = who /\ link' = link
       /\ \A f \in Held("agent")' : ~Asks(f)'
  BY <1>1, <1>2, <1>4, <1>7 DEF vars
<1>12. /\ who[d].kind = "client" => NoReturn(toHub[d])'
       /\ link["agent"] # None => NoReturn(toFar[link["agent"]])'
  BY <1>9, <1>10, <1>11 DEF NoReturn, Range
<1> QED BY <1>5, <1>8, <1>11, <1>12 DEF InLine

LEMMA LineControllerDown ==
  ASSUME WinBase, EpochWin, ToldWin, InLine, ControllerDown
  PROVE  InLine'
<1> USE DEF WinBase, CallBase, CallInv
<1>1. /\ UNCHANGED <<vars, link, toHub, kp, agentEnd>>
      /\ Incoming("client", "down")
  BY DEF ControllerDown
<1>2. PICK d \in Conns : d = link["client"] /\ link'["client"] = d
  BY <1>1 DEF Incoming, Reads, SessionTypeOK, Programs
<1>3. /\ Heard' => Heard
      /\ Used' => Used
  BY HeardController, ControllerDownWin, StillUsed
<1>4. /\ Held("agent")' = Held("agent")
      /\ link["agent"] # None =>
            toFar'[link["agent"]] = toFar[link["agent"]]
  BY <1>1, ControllerKeeps
<1>5. \A c \in Conns : Left("agent", c)' = Left("agent", c)
  BY <1>1 DEF Left, vars
<1>6. /\ toHub'[d] = toHub[d] /\ who'[d] = who[d]
      /\ link'["agent"] = link["agent"]
  BY <1>1 DEF vars
<1> QED BY <1>1, <1>2, <1>3, <1>4, <1>5, <1>6, LineKeeps

\* A new session answers its handshake first; nothing was asked with this key
\* pair before.
LEMMA LineControllerHandshake ==
  ASSUME WinBase, EpochWin, InLine, ControllerHandshake
  PROVE  InLine'
<1> USE DEF WinBase, CallBase, CallInv
<1> SUFFICES ASSUME Heard' PROVE InLine'
  BY DEF InLine
<1> PICK s \in Sessions : s = NewSession(kp, First("client").key)
  BY ControllerHandshakeFacts
<1> PICK fs \in {<<>>, <<Handshake(kp)>>} :
            fs = IF sentHs THEN <<>> ELSE <<Handshake(kp)>>
  OBVIOUS
<1> PICK h \in Frames : h = Handshake(kp)
  BY FrameRecords DEF SessionTypeOK
<1>1. PICK d \in Conns : d = link["client"] /\ d # None
  BY DEF ControllerHandshake, Incoming, Reads, SessionTypeOK, Programs
<1>2. /\ UNCHANGED <<vars, link, agentEnd, kp>>
      /\ Puts(s, fs)
      /\ Held("agent")' = Held("agent")
      /\ link["agent"] # None =>
            toFar'[link["agent"]] = toFar[link["agent"]]
      /\ \A c \in Conns \ {d} : toHub'[c] = toHub[c]
      /\ Way("client")' \subseteq Way("client")
      /\ cSession'.lastRecvSeq = 0
  BY <1>1, ControllerHandshakeFacts
<1>3. /\ UNCHANGED <<who, aSession>> /\ link'["client"] = d
      /\ link'["agent"] = link["agent"]
  BY <1>1, <1>2 DEF vars, agentEnd
<1>4. Heard
  BY HeardController
<1>5. Used' => Used
  BY <1>2, <1>3 DEF Used, Answers
<1>6. PICK t \in Seq(Frames) :
         /\ t = IF fs = <<>> THEN toHub[d] ELSE Append(toHub[d], h)
         /\ \/ toHub'[d] = t
            \/ \E q \in Frames : q.type = "req" /\ toHub'[d] = Append(t, q)
  <2> DEFINE t == IF fs = <<>> THEN toHub[d] ELSE Append(toHub[d], h)
  <2>1. \/ toHub'[d] = t
        \/ \E r \in Reqs : toHub'[d] = Append(t, Sealed("req", s, r))
    BY <1>1, <1>2, PutsOut
  <2>2. \A r \in Reqs : /\ Sealed("req", s, r) \in Frames
                        /\ Sealed("req", s, r).type = "req"
    BY FrameRecords DEF Sealed
  <2>3. t \in Seq(Frames)
    BY DEF SessionTypeOK
  <2> HIDE DEF t
  <2>4. \/ toHub'[d] = t
        \/ \E q \in Frames : q.type = "req" /\ toHub'[d] = Append(t, q)
    BY <2>1, <2>2
  <2> QED BY <2>3, <2>4 DEF t
<1>7. \A c \in Conns \ {d} : Left("agent", c)' = Left("agent", c)
  BY <1>2, <1>3 DEF Left
<1>8. ASSUME NEW q \in Frames, q.type = "req", NoReturn(t)
      PROVE  NoReturn(Append(t, q)) /\ Range(Append(t, q)) = Range(t) \cup {q}
  BY <1>8, NoReturnAppend, FrameRange DEF Offers
<1>9. CASE sentHs
  <2>1. t = toHub[d]
    BY <1>6, <1>9
  <2>2. NoReturn(toHub[d]) => NoReturn(toHub'[d])
    BY <1>6, <1>8, <2>1
  <2>3. \A f \in Range(toHub'[d]) : Offers(f) => f \in Range(toHub[d])
    <3>1. ASSUME NEW q \in Frames, q.type = "req",
                 toHub'[d] = Append(toHub[d], q)
          PROVE  Range(toHub'[d]) = Range(toHub[d]) \cup {q} /\ ~Offers(q)
      BY <2>1, <3>1, FrameRange DEF Offers
    <3> QED BY <1>6, <2>1, <3>1
  <2> QED BY <1>1, <1>2, <1>3, <1>4, <1>5, <1>7, <2>2, <2>3, LineKeeps
<1>10. CASE ~sentHs
  <2>1. ~Used /\ \A f \in Way("agent") : ~Asks(f)
    BY <1>10 DEF EpochWin, Unasked
  <2>2. \A f \in Held("agent") : ~Asks(f)
    BY <2>1, WayParts
  <2>3. who[d].kind = "client" => NoReturn(toHub'[d])
    <3> SUFFICES ASSUME who[d].kind = "client" PROVE NoReturn(toHub'[d])
      OBVIOUS
    <3>1. toHub[d] \in Seq(Frames)
      BY DEF SessionTypeOK
    <3>2. \A f \in Range(toHub[d]) : ~Asks(f)
      BY <2>1, WayParts DEF Left, Opposite
    <3>3. NoReturn(toHub[d]) /\ NoReturn(Append(toHub[d], h))
      BY <3>1, <3>2, NoReturnNone, NoReturnAppend
    <3> QED BY <1>6, <1>8, <3>3
  <2>4. \A c \in Conns \ {d} : \A f \in Left("agent", c)' : ~Asks(f) /\ ~Offers(f)
    BY <1>1, <1>4, <1>7 DEF InLine
  <2>5. link["agent"] # None => NoReturn(toFar[link["agent"]])
    BY <1>4 DEF InLine
  <2> QED BY <1>2, <1>3, <1>5, <2>1, <2>2, <2>3, <2>4, <2>5, LineFrom
<1> QED BY <1>9, <1>10

LEMMA LinePumping ==
  ASSUME WinBase, EpochWin, ToldWin, InLine, Pumping
  PROVE  InLine'
<1> USE DEF WinBase, CallBase, CallInv
<1> SUFFICES ASSUME Heard' PROVE InLine'
  BY DEF InLine
<1>1. Heard /\ (Used' => Used)
  BY HeardController, PumpingWin
<1>2. PICK d \in Conns : d = link["client"] /\ d # None
  BY <1>1 DEF Heard, SessionTypeOK, Programs
<1>3. /\ UNCHANGED <<vars, link, kp>>
      /\ Held("agent")' = Held("agent")
      /\ link["agent"] # None =>
            toFar'[link["agent"]] = toFar[link["agent"]]
      /\ \A c \in Conns \ {d} : toHub'[c] = toHub[c]
      /\ \/ toHub'[d] = toHub[d]
         \/ \E q \in Frames : q.type = "req" /\ toHub'[d] = Append(toHub[d], q)
  BY <1>2, PumpingFacts
<1>4. toHub[d] \in Seq(Frames)
  BY DEF SessionTypeOK
<1>5. NoReturn(toHub[d]) => NoReturn(toHub'[d])
  <2>1. ASSUME NEW q \in Frames, q.type = "req", NoReturn(toHub[d])
        PROVE  NoReturn(Append(toHub[d], q))
    BY <1>4, <2>1, NoReturnAppend DEF Offers
  <2> QED BY <1>3, <2>1
<1>6. \A f \in Range(toHub'[d]) : Offers(f) => f \in Range(toHub[d])
  <2>1. ASSUME NEW q \in Frames, q.type = "req",
               toHub'[d] = Append(toHub[d], q)
        PROVE  Range(toHub'[d]) = Range(toHub[d]) \cup {q} /\ ~Offers(q)
    BY <1>4, <2>1, FrameRange DEF Offers
  <2> QED BY <1>3, <2>1
<1>7. \A c \in Conns \ {d} : Left("agent", c)' = Left("agent", c)
  BY <1>3 DEF Left, vars
<1>8. /\ who'[d] = who[d] /\ link'["client"] = d
      /\ link'["agent"] = link["agent"]
  BY <1>2, <1>3 DEF vars
<1> QED BY <1>1, <1>2, <1>3, <1>5, <1>6, <1>7, <1>8, LineKeeps

-----------------------------------------------------------------------------
(* Answers and windows, the other way.                                     *)

LEMMA BackAgentUp ==
  ASSUME WinBase, EpochWin, AgentUp
  PROVE  BackOpen'
<1>1. aSession' = NoSession /\ UNCHANGED cSession
  BY DEF AgentUp, keyEnd
<1>2. cSession # NoSession => cSession.key[1] # 0
  BY DEF EpochWin, KeysBorn
<1> QED BY <1>1, <1>2 DEF BackOpen, NoSession

LEMMA BackAgentHandshake ==
  ASSUME WinBase, EpochWin, InLine, AgentHandshake
  PROVE  BackOpen'
<1> USE DEF WinBase, CallBase, CallInv
<1> DEFINE f == First("agent")
<1>1. /\ UNCHANGED <<vars, link, toHub, keyEnd>>
      /\ aSession' = NewSession(f.key, ephem')
      /\ Incoming("agent", "hs")
  BY DEF AgentHandshake
<1>2. UNCHANGED <<kp, cSession>>
  BY <1>1 DEF keyEnd
<1>3. /\ Way("client")' = Way("client")
      /\ f \in Held("agent") /\ f.type = "hs"
  BY <1>1, AgentReads DEF Spoken
<1> HIDE DEF f
<1>4. /\ aSession'.key = <<f.key, ephem'>> /\ aSession'.sendSeq = 0
  BY <1>1 DEF NewSession
<1> SUFFICES ASSUME Heard', cSession # NoSession, f.key = cSession.key[1]
             PROVE  /\ cSession.lastRecvSeq <= 0
                    /\ \A q \in Way("client") :
                          ~(q.type = "resp" /\ q.seal = cSession.key)
  BY <1>2, <1>3, <1>4 DEF BackOpen
<1>5. Heard /\ cSession.key[1] = kp
  BY HeardAgent DEF AgentLoop, EpochWin, KeysBorn
<1>6. Offers(f)
  BY <1>3, <1>5 DEF Offers
<1>7. ~Used
  BY <1>3, <1>5, <1>6 DEF InLine
<1>8. cSession.lastRecvSeq \in Nat
  BY DEF SessionTypeOK, Sessions
<1> QED BY <1>5, <1>7, <1>8 DEF Used, Answers

LEMMA BackAgentRuns ==
  ASSUME WinBase, EpochWin, BackOpen,
         AgentRequest, Opens(aSession, First("agent"))
  PROVE  BackOpen'
<1> USE DEF WinBase, CallBase, CallInv
<1> DEFINE g == Sealed("resp", aSession, First("agent").id)
<1>1. /\ UNCHANGED cSession
      /\ g.seq = aSession.sendSeq + 1
      /\ aSession.sendSeq \in Nat
      /\ aSession'.key = aSession.key
      /\ aSession'.sendSeq = aSession.sendSeq + 1
      /\ Way("client")' \subseteq Way("client") \cup {g}
  BY AgentRunsFacts
<1> HIDE DEF g
<1>2. Heard' => Heard
  BY HeardAgent DEF AgentLoop
<1>3. /\ \A q \in Way("client") : q.seq \in Nat
      /\ cSession.lastRecvSeq \in Nat
  BY WayTyped DEF Frames, Programs, SessionTypeOK, Sessions
<1> QED BY <1>1, <1>2, <1>3 DEF BackOpen

LEMMA BackControllerHandshake ==
  ASSUME WinBase, EpochWin, ControllerHandshake
  PROVE  BackOpen'
<1> USE DEF WinBase, CallBase, CallInv
<1> DEFINE f == First("client")
<1>1. /\ UNCHANGED <<agentEnd, kp>> /\ kp # 0
      /\ f \in Way("client") /\ f.type = "hs"
      /\ Way("client")' \subseteq Way("client")
      /\ cSession'.key = <<kp, f.key>> /\ cSession'.lastRecvSeq = 0
  BY ControllerHandshakeFacts
<1>2. UNCHANGED <<aSession, ephem>> /\ aSession.sendSeq \in Nat
  BY <1>1 DEF agentEnd, SessionTypeOK, Sessions
<1> HIDE DEF f
<1> SUFFICES ASSUME aSession.key = <<kp, f.key>>
             PROVE  \A q \in Way("client") :
                       ~(q.type = "resp" /\ q.seal = <<kp, f.key>>)
  BY <1>1, <1>2 DEF BackOpen
<1>3. aSession # NoSession
  BY <1>1 DEF NoSession
<1>4. f.key = ephem
  BY <1>3 DEF Epochs
<1>5. Of(f, "hs", ephem)
  BY <1>1, <1>4 DEF Of, Epoch
<1>6. Silent
  BY <1>1, <1>5 DEF EpochWin, Unanswered
<1> QED BY <1>4, <1>6 DEF Silent, Of, Epoch

LEMMA BackPumping ==
  ASSUME WinBase, EpochWin, BackOpen, Pumping
  PROVE  BackOpen'
<1> USE DEF WinBase, CallBase, CallInv
<1>1. /\ UNCHANGED agentEnd
      /\ Way("client")' \subseteq Way("client")
      /\ cSession'.key = cSession.key
      /\ cSession' # NoSession => cSession # NoSession
      /\ \/ Opened
         \/ toFar' = toFar /\ cSession'.lastRecvSeq = cSession.lastRecvSeq
  BY PumpingFacts
<1>2. UNCHANGED aSession
  BY <1>1 DEF agentEnd
<1>3. Heard' => Heard
  BY HeardController
<1> SUFFICES ASSUME Heard, cSession # NoSession, aSession.key = cSession.key
             PROVE  cSession'.lastRecvSeq <= aSession.sendSeq
  BY <1>1, <1>2, <1>3 DEF BackOpen
<1>4. /\ cSession.lastRecvSeq <= aSession.sendSeq
      /\ \A q \in Way("client") :
            q.type = "resp" /\ q.seal = cSession.key => q.seq <= aSession.sendSeq
  BY DEF BackOpen
<1> QED BY <1>1, <1>4 DEF Opened, Opens

-----------------------------------------------------------------------------
(* The invariant.                                                          *)

LEMMA UpUsed ==
  ASSUME WinBase, AgentUp
  PROVE  Used' => Used
<1> USE DEF WinBase, CallBase, CallInv
<1>1. PICK h \in Frames : h = Handshake(ephem + 1)
  BY FrameRecords DEF SessionTypeOK
<1>2. /\ UNCHANGED <<vars, link, keyEnd>>
      /\ Incoming("agent", "up") /\ Sends("agent", <<h>>)
      /\ aSession' = NoSession /\ h.type = "hs"
  BY <1>1 DEF AgentUp, Handshake
<1>3. Way("client")' \subseteq Way("client") \cup {h}
  BY <1>2, AgentReads
<1> QED BY <1>2, <1>3 DEF Used, Answers, NoSession, keyEnd

LEMMA HandshakeUsed ==
  ASSUME WinBase, AgentHandshake
  PROVE  Used' => Used
<1> USE DEF WinBase, CallBase, CallInv
<1>1. /\ UNCHANGED <<vars, link, toHub, keyEnd>>
      /\ Incoming("agent", "hs")
      /\ aSession'.lastRecvSeq = 0
  BY DEF AgentHandshake, NewSession
<1>2. Way("client")' = Way("client")
  BY <1>1, AgentReads
<1> QED BY <1>1, <1>2 DEF Used, Answers, keyEnd

LEMMA WinStutters ==
  ASSUME WinBase, WinInv, UNCHANGED sessionVars
  PROVE  WinInv'
<1>1. /\ UNCHANGED <<vars, link, toHub, toFar, ephem, kp, aSession, cSession, sentHs>>
      /\ UNCHANGED <<who, pc, open, met, slot, peerOnline>>
  BY DEF sessionVars, vars, wires, ends, agentEnd, keyEnd, local, notices
<1>2. /\ \A p : Held(p)' = Held(p)
      /\ \A p, c : Left(p, c)' = Left(p, c)
      /\ \A a, d : ToldOf(a, d)' = ToldOf(a, d)
  BY <1>1 DEF Held, Left, ToldOf, Peer
<1>3. \A p : Way(p)' = Way(p)
  BY <1>2 DEF Way
<1>4. Still
  BY <1>1, <1>3 DEF Still
<1>5. /\ SessionTypeOK /\ EpochWin /\ ToldWin /\ InLine /\ BackOpen
      /\ Used' = Used /\ Now' = Now /\ Silent' = Silent /\ Heard' = Heard
  BY <1>1, <1>3 DEF WinBase, CallBase, WinInv, Used, Answers, Now, Silent, Of,
                    Epoch, Heard
<1>6. EpochWin' /\ BackOpen'
  BY <1>4, <1>5, StillEpoch, StillBack
<1>7. ToldWin'
  BY <1>1, <1>2, <1>5 DEF ToldWin, Unserved, Heralded, MetIdle, Of, Epoch
<1>8. InLine'
  BY <1>1, <1>2, <1>5 DEF InLine, Asks, Offers, NoReturn
<1> QED BY <1>6, <1>7, <1>8 DEF WinInv

LEMMA WinStep ==
  ASSUME WinBase, WinInv, [SessionNext]_sessionVars
  PROVE  WinInv'
<1> USE DEF WinBase, WinInv
<1>1. ASSUME Still, ToldWin', InLine', Heard' => Heard
      PROVE  WinInv'
  <2>1. SessionTypeOK
    BY DEF CallBase
  <2> QED BY <1>1, <2>1, StillEpoch, StillBack
<1>2. ASSUME NEW c \in Conns, HubStep(c)
      PROVE  WinInv'
  BY <1>1, <1>2, ForwardTold, NoticeTold, LineForward, LineNotice,
     HeardForward, HeardNotice
<1>3. ASSUME NEW p \in Programs,
             \/ LinkLost(p)
             \/ \E c \in Conns, d \in Devices, id \in Creds \cup {None} :
                    Dial(p, c, d, id)
      PROVE  WinInv'
  <2>1. Still /\ ToldWin'
    BY <1>3, LinkLostTold, DialTold
  <2>2. InLine' /\ (Heard' => Heard)
    BY <1>3, LineLink, HeardLink
  <2> QED BY <1>1, <2>1, <2>2
<1>4. CASE AgentUp
  <2>1. Used' => Used
    BY <1>4, UpUsed
  <2> QED BY <1>4, <2>1, AgentUpWin, LineAgent, BackAgentUp DEF AgentLoop
<1>5. CASE AgentHandshake
  <2>1. Used' => Used
    BY <1>5, HandshakeUsed
  <2> QED BY <1>5, <2>1, AgentHandshakeWin, LineAgent, BackAgentHandshake
          DEF AgentLoop
<1>6. CASE AgentDown \/ (AgentRequest /\ ~Opens(aSession, First("agent")))
  <2>1. Still /\ ToldWin'
    BY <1>6, AgentRestWin
  <2>2. Used' => Used
    BY <2>1, StillUsed DEF CallBase
  <2> QED BY <1>1, <1>6, <2>1, <2>2, LineAgent, HeardAgent DEF AgentLoop
<1>7. CASE AgentRequest /\ Opens(aSession, First("agent"))
  BY <1>7, AgentRunsWin, LineAgentRuns, BackAgentRuns
<1>8. CASE ControllerUp
  <2>1. BackOpen'
    BY <1>8 DEF ControllerUp, BackOpen
  <2> QED BY <1>8, <2>1, ControllerUpWin, LineControllerUp
<1>9. CASE ControllerDown
  BY <1>1, <1>9, ControllerDownWin, LineControllerDown, HeardController
<1>10. CASE ControllerHandshakeThrows
  BY <1>3, <1>10 DEF ControllerHandshakeThrows, LinkLost, Reads, Programs
<1>11. CASE ControllerHandshake
  BY <1>11, ControllerHandshakeWin, LineControllerHandshake,
     BackControllerHandshake
<1>12. CASE Pumping
  BY <1>12, PumpingWin, LinePumping, BackPumping
<1>13. CASE UNCHANGED sessionVars
  BY <1>13, WinStutters
<1>14. CASE SessionNext
  BY <1>2, <1>3, <1>4, <1>5, <1>6, <1>7, <1>8, <1>9, <1>10, <1>11, <1>12, <1>14
  DEF SessionNext, HubStep, AgentLoop, ControllerLoop, Pumping
<1> QED BY <1>13, <1>14

LEMMA WinStart == SessionInit => WinInv
<1> SUFFICES ASSUME SessionInit PROVE WinInv
  OBVIOUS
<1>1. /\ \A p \in Programs : link[p] = None
      /\ \A c \in Conns : toHub[c] = <<>> /\ met[c] = {}
      /\ ephem = 0 /\ kp = 0 /\ ~sentHs
      /\ aSession = NoSession /\ cSession = NoSession
  BY DEF SessionInit, Init
<1>2. Range(<<>>) = {}
  BY DEF Range
<1>3. Way("agent") = {} /\ Way("client") = {}
  BY <1>1, <1>2 DEF Way, Held, Left, Programs
<1>4. KeysBorn
  BY <1>1, <1>3 DEF KeysBorn, NoSession
<1>5. ~Now /\ ~Used /\ link["client"] = None
  BY <1>1, <1>3 DEF Now, Used, NoSession, Programs
<1>6. EpochWin
  BY <1>1, <1>3, <1>4, <1>5 DEF EpochWin, Unasked, ForthOpen, Unanswered
<1>7. ToldWin
  BY <1>1, <1>5 DEF ToldWin, Unserved, Heralded, MetIdle
<1>8. ~Heard
  BY <1>5 DEF Heard
<1> QED BY <1>6, <1>7, <1>8 DEF WinInv, InLine, BackOpen

\* Neither end of a session expects a sequence number that the other has
\* passed: a session is derived once from its keys, or before it was used.
THEOREM WindowsOpenEver == SessionSpec => []WindowsOpen
<1>1. SessionSpec => [](Typed /\ SeatInv /\ PairInv)
  <2>1. Typed /\ SeatInv /\ PairInv /\ [Next]_vars => PairInv'
    BY PairStep
  <2>2. Spec => Init /\ [][Next]_vars
    BY DEF Spec
  <2> QED BY SessionRelays, Seats, PairInit, <2>1, <2>2, PTL
<1>2. SessionSpec => []WinBase
  BY <1>1, CallInvEver, PTL DEF WinBase
<1>3. WinBase /\ WinInv /\ [SessionNext]_sessionVars => WinInv'
  BY WinStep
<1>4. WinBase /\ WinInv => WindowsOpen
  BY WindowsOpenFrom
<1> QED BY <1>2, <1>3, <1>4, WinStart, PTL DEF SessionSpec

-----------------------------------------------------------------------------
(* The ends agree.  The goroutine that last told its pair of each other has *)
(* forwarded nothing before it did, and its first notice goes to its own    *)
(* program.  So a key that either program makes at the last notice it reads *)
(* reaches the other behind the last notice that one reads, and no later    *)
(* key or notice follows.                                                   *)

\* While nothing overlapped, a program has one connection at work at the hub,
\* and it has the slot.
AtWork(c) == who[c].kind \in Programs /\ pc[c] \in InMap \cup {"notify"}
InTurn ==
    ~overlapped =>
        \A c \in Conns : AtWork(c) =>
            /\ \A e \in Conns : AtWork(e) /\ who[e].kind = who[c].kind => e = c
            /\ pc[c] \in InMap => slot[who[c].kind][who[c].dev] = c

\* The programs' connections are each other's peers.
Paired ==
    /\ \A p \in Programs : link[p] # None /\ open[link[p]]
    /\ \E d \in Devices : \A p \in Programs : slot[p][d] = link[p]

\* The goroutine of c has still to tell its pair of each other.
ToMeet(c) ==
    \/ pc[c] \in {"upself", "uppeer"}
    \/ pc[c] = "evict" /\ peerOnline[c]

\* Frames that change a session; of those in s, all are the handshake k, or
\* the last one is.
Turning(f)   == f.type \in {"up", "down", "hs"}
IsKey(f, k)  == f.type = "hs" /\ f.key = k
OnlyOf(s, k) == \A i \in DOMAIN s : Turning(s[i]) => IsKey(s[i], k)
EndsOn(s, k) ==
    \E i \in DOMAIN s :
        /\ IsKey(s[i], k)
        /\ \A j \in DOMAIN s : j > i /\ Turning(s[j]) => IsKey(s[j], k)
HasUp(s) == \E i \in DOMAIN s : s[i].type = "up"

\* The key that p offers, and whether its session is of the present keys.
Offer(p) == IF p = "agent" THEN ephem ELSE kp
Holds(p) == (IF p = "agent" THEN aSession ELSE cSession).key = <<kp, ephem>>

\* The other side will make a key, or its present one is the last thing that p
\* will read, or has read.
Learns(p) ==
    LET q == Opposite(p)  k == Offer(q)
        near == toFar[link[p]]  far == toHub[link[q]] IN
    \/ HasUp(toFar[link[q]])
    \/ k # 0 /\ EndsOn(far, k)
    \/ k # 0 /\ OnlyOf(far, k) /\ EndsOn(near, k)
    \/ k # 0 /\ OnlyOf(far, k) /\ OnlyOf(near, k) /\ Holds(p)

\* A goroutine that has told its own program has told nobody else.
Greeted ==
    \A p \in Programs :
        link[p] # None /\ open[link[p]] /\ pc[link[p]] = "uppeer" =>
            \/ HasUp(toFar[link[p]])
            \/ Offer(p) # 0 /\ EndsOn(toHub[link[p]], Offer(p))

Learning ==
    ~overlapped /\ Paired /\ (\A p \in Programs : ~ToMeet(link[p])) =>
        \A p \in Programs : Learns(p)

AgreeInv  == InTurn /\ Greeted /\ Learning
AgreeBase == CallBase /\ CallInv

LEMMA TurnAppend ==
  ASSUME NEW s \in Seq(Frames), NEW f \in Frames, NEW k
  PROVE  /\ HasUp(s) => HasUp(Append(s, f))
         /\ f.type = "up" => HasUp(Append(s, f))
         /\ IsKey(f, k) => EndsOn(Append(s, f), k)
         /\ ~Turning(f) \/ IsKey(f, k) =>
               /\ EndsOn(s, k) => EndsOn(Append(s, f), k)
               /\ OnlyOf(s, k) => OnlyOf(Append(s, f), k)
<1> DEFINE t == Append(s, f)
<1>1. /\ t \in Seq(Frames)
      /\ DOMAIN t = DOMAIN s \cup {Len(s) + 1}
      /\ \A i \in DOMAIN s : t[i] = s[i] /\ i < Len(s) + 1 /\ i \in Nat
      /\ t[Len(s) + 1] = f
      /\ Len(s) \in Nat
  BY AppendParts
<1> HIDE DEF t
<1>2. /\ HasUp(s) => HasUp(t)
      /\ f.type = "up" => HasUp(t)
  BY <1>1 DEF HasUp
<1>3. ASSUME IsKey(f, k) PROVE EndsOn(t, k)
  <2>1. \A j \in DOMAIN t : ~(j > Len(s) + 1)
    BY <1>1
  <2> QED BY <1>1, <1>3, <2>1 DEF EndsOn
<1>4. ASSUME ~Turning(f) \/ IsKey(f, k)
      PROVE  /\ EndsOn(s, k) => EndsOn(t, k)
             /\ OnlyOf(s, k) => OnlyOf(t, k)
  <2>1. \A j \in DOMAIN t : j \in DOMAIN s \/ j = Len(s) + 1
    BY <1>1
  <2>2. OnlyOf(s, k) => OnlyOf(t, k)
    BY <1>1, <1>4, <2>1 DEF OnlyOf
  <2>3. ASSUME EndsOn(s, k) PROVE EndsOn(t, k)
    <3>1. PICK i \in DOMAIN s :
             /\ IsKey(s[i], k)
             /\ \A j \in DOMAIN s : j > i /\ Turning(s[j]) => IsKey(s[j], k)
      BY <2>3 DEF EndsOn
    <3>2. i \in DOMAIN t /\ IsKey(t[i], k)
      BY <1>1, <3>1
    <3>3. \A j \in DOMAIN t : j > i /\ Turning(t[j]) => IsKey(t[j], k)
      BY <1>1, <1>4, <2>1, <3>1
    <3> QED BY <3>2, <3>3 DEF EndsOn
  <2> QED BY <2>2, <2>3
<1> QED BY <1>2, <1>3, <1>4 DEF t

LEMMA TurnTail ==
  ASSUME NEW s \in Seq(Frames), s # <<>>, NEW k
  PROVE  /\ HasUp(s) => HasUp(Tail(s)) \/ Head(s).type = "up"
         /\ OnlyOf(s, k) => /\ OnlyOf(Tail(s), k)
                            /\ Turning(Head(s)) => IsKey(Head(s), k)
         /\ EndsOn(s, k) => \/ EndsOn(Tail(s), k)
                            \/ IsKey(Head(s), k) /\ OnlyOf(Tail(s), k)
<1> DEFINE t == Tail(s)
<1>1. /\ t \in Seq(Frames)
      /\ DOMAIN s = 1 .. Len(s) /\ Len(s) \in Nat /\ Len(s) >= 1
      /\ DOMAIN t = 1 .. (Len(s) - 1)
      /\ \A i \in DOMAIN t : t[i] = s[i + 1] /\ i + 1 \in DOMAIN s
      /\ s[1] = Head(s)
  OBVIOUS
<1>2. \A i \in DOMAIN s : i # 1 => i - 1 \in DOMAIN t /\ t[i - 1] = s[i]
  BY <1>1
<1> HIDE DEF t
<1>3. HasUp(s) => HasUp(t) \/ Head(s).type = "up"
  BY <1>1, <1>2 DEF HasUp
<1>4. OnlyOf(s, k) => OnlyOf(t, k) /\ (Turning(Head(s)) => IsKey(Head(s), k))
  BY <1>1 DEF OnlyOf
<1>5. ASSUME EndsOn(s, k)
      PROVE  EndsOn(t, k) \/ (IsKey(Head(s), k) /\ OnlyOf(t, k))
  <2>1. PICK i \in DOMAIN s :
           /\ IsKey(s[i], k)
           /\ \A j \in DOMAIN s : j > i /\ Turning(s[j]) => IsKey(s[j], k)
    BY <1>5 DEF EndsOn
  <2>2. CASE i = 1
    <3>1. \A j \in DOMAIN t : j + 1 > i
      BY <1>1, <2>2
    <3>2. OnlyOf(t, k)
      BY <1>1, <2>1, <3>1 DEF OnlyOf
    <3> QED BY <1>1, <2>1, <2>2, <3>2
  <2>3. CASE i # 1
    <3>1. \A j \in DOMAIN t : j > i - 1 => j + 1 > i
      BY <1>1
    <3>2. \A j \in DOMAIN t : j > i - 1 /\ Turning(t[j]) => IsKey(t[j], k)
      BY <1>1, <2>1, <3>1
    <3>3. i - 1 \in DOMAIN t /\ IsKey(t[i - 1], k)
      BY <1>2, <2>1, <2>3
    <3> QED BY <3>2, <3>3 DEF EndsOn
  <2> QED BY <2>2, <2>3
<1> QED BY <1>3, <1>4, <1>5 DEF t

LEMMA TurnNone ==
  ASSUME NEW k
  PROVE  ~HasUp(<<>>) /\ ~EndsOn(<<>>, k) /\ OnlyOf(<<>>, k)
BY DEF HasUp, EndsOn, OnlyOf

-----------------------------------------------------------------------------
(* What the programs' steps do to it.                                      *)

\* Program p reads a frame.
LEMMA ReadLearns ==
  ASSUME SessionTypeOK, NEW p \in Programs, NEW q \in Programs,
         q = Opposite(p), link[p] \in Conns, UNCHANGED link,
         toFar[link[p]] # <<>>, toFar'[link[p]] = Tail(toFar[link[p]]),
         toFar'[link[q]] = toFar[link[q]], toHub'[link[q]] = toHub[link[q]],
         Offer(q)' = Offer(q),
         IsKey(Head(toFar[link[p]]), Offer(q)) => Holds(p)',
         ~Turning(Head(toFar[link[p]])) /\ Holds(p) => Holds(p)',
         Learns(p)
  PROVE  Learns(p)'
<1> DEFINE s == toFar[link[p]]  k == Offer(q)  h == toHub[link[q]]
<1>1. s \in Seq(Frames) /\ toFar'[link[p]] = Tail(s)
  BY DEF SessionTypeOK
<1>2. /\ OnlyOf(s, k) => /\ OnlyOf(Tail(s), k)
                         /\ Turning(Head(s)) => IsKey(Head(s), k)
      /\ EndsOn(s, k) => \/ EndsOn(Tail(s), k)
                         \/ IsKey(Head(s), k) /\ OnlyOf(Tail(s), k)
  BY <1>1, TurnTail
<1>3. \/ HasUp(toFar[link[q]])
      \/ k # 0 /\ EndsOn(h, k)
      \/ k # 0 /\ OnlyOf(h, k) /\ EndsOn(s, k)
      \/ k # 0 /\ OnlyOf(h, k) /\ OnlyOf(s, k) /\ Holds(p)
  BY DEF Learns
<1>4. \/ HasUp(toFar[link[q]])
      \/ k # 0 /\ EndsOn(h, k)
      \/ k # 0 /\ OnlyOf(h, k) /\ EndsOn(Tail(s), k)
      \/ k # 0 /\ OnlyOf(h, k) /\ OnlyOf(Tail(s), k) /\ Holds(p)'
  BY <1>2, <1>3
<1> QED BY <1>1, <1>4 DEF Learns

\* The other side does; what it sends changes no key but to the one it offers.
LEMMA WriteLearns ==
  ASSUME NEW p \in Programs, NEW q \in Programs, q = Opposite(p),
         UNCHANGED link, toFar'[link[p]] = toFar[link[p]],
         HasUp(toFar[link[q]]) => HasUp(toFar'[link[q]]),
         Offer(q) # 0 =>
            /\ Offer(q)' = Offer(q)
            /\ Holds(p) => Holds(p)'
            /\ EndsOn(toHub[link[q]], Offer(q)) =>
                  EndsOn(toHub'[link[q]], Offer(q))
            /\ OnlyOf(toHub[link[q]], Offer(q)) =>
                  OnlyOf(toHub'[link[q]], Offer(q)),
         Learns(p)
  PROVE  Learns(p)'
BY DEF Learns

\* It makes a key.
LEMMA NewLearns ==
  ASSUME NEW p \in Programs, NEW q \in Programs, q = Opposite(p),
         UNCHANGED link, Offer(q)' # 0, EndsOn(toHub'[link[q]], Offer(q)')
  PROVE  Learns(p)'
BY DEF Learns

\* Steps of the programs leave the hub alone.
LEMMA AgreeKeeps ==
  ASSUME AgreeInv, UNCHANGED <<vars, link, overlapped>>,
         Greeted', Paired => \A p \in Programs : Learns(p) => Learns(p)'
  PROVE  AgreeInv'
<1>1. InTurn'
  BY DEF AgreeInv, InTurn, AtWork, vars
<1>2. (Paired' <=> Paired) /\ \A p \in Programs : ToMeet(link[p])' = ToMeet(link[p])
  BY DEF Paired, ToMeet, vars
<1>3. Learning'
  BY <1>2 DEF AgreeInv, Learning
<1> QED BY <1>1, <1>3 DEF AgreeInv

\* The connections in use.
LEMMA PairParts ==
  ASSUME AgreeBase, Paired
  PROVE  /\ \A p \in Programs : link[p] \in Conns
         /\ link["agent"] # link["client"]
         /\ \A c \in Conns : toFar[c] \in Seq(Frames) /\ toHub[c] \in Seq(Frames)
BY DEF AgreeBase, CallBase, CallInv, Linked, Paired, SessionTypeOK, Programs

\* What the agent's steps have in common.
LEMMA AgentTurns ==
  ASSUME AgreeBase, AgentLoop
  PROVE  LET a == link["agent"]  f == First("agent")  d == link["client"] IN
         /\ UNCHANGED <<vars, link, keyEnd, overlapped>>
         /\ a \in Conns /\ a # d /\ f \in Frames
         /\ toFar[a] \in Seq(Frames) /\ toFar[a] # <<>>
         /\ f = Head(toFar[a]) /\ toFar'[a] = Tail(toFar[a])
         /\ d \in Conns => toFar'[d] = toFar[d] /\ toHub'[d] = toHub[d]
         /\ \/ /\ f.type = "up" /\ ephem' = ephem + 1
               /\ toHub'[a] = Append(toHub[a], Handshake(ephem + 1))
               /\ Handshake(ephem + 1) \in Frames
            \/ f.type = "down" /\ UNCHANGED <<ephem, toHub>>
            \/ /\ f.type = "hs" /\ UNCHANGED toHub
               /\ ephem' = IF ephem = 0 THEN 1 ELSE ephem
               /\ aSession'.key = <<f.key, ephem'>>
            \/ /\ f.type = "req" /\ UNCHANGED ephem
               /\ aSession'.key = aSession.key
               /\ \/ toHub'[a] = toHub[a]
                  \/ \E g \in Frames : /\ g.type = "resp"
                                       /\ toHub'[a] = Append(toHub[a], g)
<1> USE DEF AgreeBase, CallBase, CallInv
<1> DEFINE a == link["agent"]  f == First("agent")  d == link["client"]
           h == Handshake(ephem + 1)
<1>1. /\ UNCHANGED <<vars, link, keyEnd, overlapped>>
      /\ \E u : Incoming("agent", u)
  BY DEF AgentLoop, AgentUp, AgentDown, AgentHandshake, AgentRequest
<1>2. h \in Frames /\ ephem \in Nat /\ "agent" \in Programs /\ a # None
  BY <1>1, FrameRecords DEF Handshake, SessionTypeOK, Programs, Incoming, Reads
<1>3. ASSUME AgentRequest, Opens(aSession, f)
      PROVE  Sealed("resp", aSession, f.id) \in Frames
  <2>1. f \in Frames /\ f.type = "req"
    BY <1>2, <1>3, IncomingTyped DEF AgentRequest, Incoming
  <2>2. f.id \in Reqs
    BY <2>1 DEF Frames
  <2> QED BY <2>2, FrameRecords DEF SessionTypeOK
<1>4. toHub' = toHub \/ \E g \in Frames : Sends("agent", <<g>>)
  BY <1>2, <1>3 DEF AgentLoop, AgentUp, AgentDown, AgentHandshake, AgentRequest
<1>5. /\ a \in Conns /\ a # d /\ f \in Frames
      /\ toFar[a] \in Seq(Frames) /\ toFar[a] # <<>>
      /\ f = Head(toFar[a]) /\ toFar'[a] = Tail(toFar[a])
      /\ d \in Conns => toFar'[d] = toFar[d] /\ toHub'[d] = toHub[d]
  BY <1>1, <1>4, AgentReads
<1>6. CASE AgentUp
  <2>1. toHub'[a] = Append(toHub[a], h)
    BY <1>2, <1>6, SendsOne DEF AgentUp
  <2> QED BY <1>1, <1>2, <1>5, <1>6, <2>1 DEF AgentUp, Incoming, Reads, First
<1>7. CASE AgentDown
  BY <1>1, <1>5, <1>7 DEF AgentDown, Incoming, Reads, First
<1>8. CASE AgentHandshake
  BY <1>1, <1>5, <1>8 DEF AgentHandshake, Incoming, Reads, First, NewSession
<1>9. CASE AgentRequest
  <2>1. f.type = "req" /\ UNCHANGED ephem
    BY <1>9 DEF AgentRequest, Incoming, Reads, First
  <2>2. aSession'.key = aSession.key
    BY <1>9 DEF AgentRequest, SessionTypeOK, Sessions
  <2>3. \/ toHub' = toHub
        \/ \E g \in Frames : g.type = "resp" /\ Sends("agent", <<g>>)
    BY <1>3, <1>9 DEF AgentRequest, Sealed
  <2>4. \/ toHub'[a] = toHub[a]
        \/ \E g \in Frames : /\ g.type = "resp"
                             /\ toHub'[a] = Append(toHub[a], g)
    BY <1>2, <2>3, SendsOne
  <2> QED BY <1>1, <1>5, <2>1, <2>2, <2>4
<1> QED BY <1>6, <1>7, <1>8, <1>9 DEF AgentLoop

LEMMA AgreeAgent ==
  ASSUME AgreeBase, AgreeInv, AgentLoop
  PROVE  AgreeInv'
<1> DEFINE a == link["agent"]  f == First("agent")  d == link["client"]
<1> USE DEF AgreeBase, CallBase, CallInv
<1>1. /\ UNCHANGED <<vars, link, kp, cSession, overlapped>>
      /\ a \in Conns /\ a # d /\ f \in Frames
      /\ toFar[a] \in Seq(Frames) /\ toFar[a] # <<>>
      /\ f = Head(toFar[a]) /\ toFar'[a] = Tail(toFar[a])
      /\ d \in Conns => toFar'[d] = toFar[d] /\ toHub'[d] = toHub[d]
  BY AgentTurns DEF keyEnd
<1>2. /\ toHub[a] \in Seq(Frames) /\ ephem \in Nat
      /\ d # None => d \in Conns
      /\ UNCHANGED <<pc, open>>
  BY <1>1 DEF SessionTypeOK, Programs, vars
<1>3. HasUp(toFar[a]) => HasUp(toFar'[a]) \/ f.type = "up"
  BY <1>1, TurnTail
<1>4. \/ f.type = "up"
      \/ /\ HasUp(toFar[a]) => HasUp(toFar'[a])
         /\ ephem # 0 =>
               /\ ephem' = ephem
               /\ EndsOn(toHub[a], ephem) => EndsOn(toHub'[a], ephem)
               /\ OnlyOf(toHub[a], ephem) => OnlyOf(toHub'[a], ephem)
  <2>1. CASE f.type # "up" /\ toHub'[a] = toHub[a]
    BY <1>3, <2>1, AgentTurns
  <2>2. ASSUME NEW g \in Frames, g.type = "resp",
               toHub'[a] = Append(toHub[a], g), f.type # "up"
        PROVE  /\ EndsOn(toHub[a], ephem) => EndsOn(toHub'[a], ephem)
               /\ OnlyOf(toHub[a], ephem) => OnlyOf(toHub'[a], ephem)
    BY <1>2, <2>2, TurnAppend DEF Turning
  <2> QED BY <1>3, <2>1, <2>2, AgentTurns
<1>5. ASSUME f.type = "up"
      PROVE  ephem' # 0 /\ EndsOn(toHub'[a], ephem')
  <2>1. /\ ephem' = ephem + 1
        /\ toHub'[a] = Append(toHub[a], Handshake(ephem + 1))
        /\ Handshake(ephem + 1) \in Frames
    BY <1>5, AgentTurns
  <2>2. IsKey(Handshake(ephem + 1), ephem + 1)
    BY DEF IsKey, Handshake
  <2> QED BY <1>2, <2>1, <2>2, TurnAppend
<1>6. Greeted'
  <2> SUFFICES ASSUME NEW p \in Programs, link[p] # None, open[link[p]],
                      pc[link[p]] = "uppeer"
               PROVE  \/ HasUp(toFar'[link[p]])
                      \/ Offer(p)' # 0 /\ EndsOn(toHub'[link[p]], Offer(p)')
    BY <1>1, <1>2 DEF Greeted
  <2>1. \/ HasUp(toFar[link[p]])
        \/ Offer(p) # 0 /\ EndsOn(toHub[link[p]], Offer(p))
    BY DEF AgreeInv, Greeted
  <2>2. CASE p = "agent"
    BY <1>4, <1>5, <2>1, <2>2 DEF Offer
  <2>3. CASE p = "client"
    BY <1>1, <1>2, <2>1, <2>3 DEF Offer
  <2> QED BY <2>2, <2>3 DEF Programs
<1>7. ASSUME Paired, Learns("agent") PROVE Learns("agent")'
  <2>1. d \in Conns
    BY <1>7, PairParts DEF Programs
  <2>2. Offer("client")' = Offer("client") /\ Opposite("agent") = "client"
    BY <1>1 DEF Offer, Opposite
  <2>3. IsKey(f, kp) => Holds("agent")'
    BY <1>1, AgentTurns DEF IsKey, Holds
  <2>4. ~Turning(f) /\ Holds("agent") => Holds("agent")'
    BY <1>1, AgentTurns DEF Turning, Holds
  <2> QED BY <1>1, <1>7, <2>1, <2>2, <2>3, <2>4, ReadLearns DEF Programs, Offer
<1>8. ASSUME Paired, Learns("client") PROVE Learns("client")'
  <2>1. d \in Conns /\ Opposite("client") = "agent"
    BY <1>8, PairParts DEF Programs, Opposite
  <2>2. CASE f.type = "up"
    BY <1>1, <1>5, <2>1, <2>2, NewLearns DEF Programs, Offer
  <2>3. CASE f.type # "up"
    <3>1. Offer("agent") = ephem /\ Offer("agent")' = ephem'
      BY DEF Offer
    <3>2. ephem # 0 /\ Holds("client") => Holds("client")'
      BY <1>1, <1>4, <2>3 DEF Holds
    <3> QED BY <1>1, <1>4, <1>8, <2>1, <2>3, <3>1, <3>2, WriteLearns
            DEF Programs
  <2> QED BY <2>2, <2>3
<1> QED BY <1>1, <1>6, <1>7, <1>8, AgreeKeeps DEF Programs

\* What the controller's steps have in common: it reads a frame or none, and
\* writes handshakes of its present key and requests.
Adds(s, t, k) ==
    /\ EndsOn(s, k) => EndsOn(t, k)
    /\ OnlyOf(s, k) => OnlyOf(t, k)

LEMMA AddsFrames ==
  ASSUME NEW s \in Seq(Frames), NEW k, NEW f \in Frames, NEW g \in Frames,
         IsKey(f, k), ~Turning(g)
  PROVE  /\ Adds(s, s, k) /\ Adds(s, Append(s, f), k)
         /\ Adds(s, Append(s, g), k) /\ Adds(s, Append(Append(s, f), g), k)
<1>1. Append(s, f) \in Seq(Frames)
  OBVIOUS
<1> QED BY <1>1, TurnAppend DEF Adds

Talks ==
    ControllerUp \/ ControllerDown \/ ControllerHandshake \/ Pumping

LEMMA ControllerTurns ==
  ASSUME AgreeBase, Talks, link["client"] # None
  PROVE  LET a == link["agent"]  f == First("client")  d == link["client"] IN
         /\ UNCHANGED <<vars, link, agentEnd, overlapped>>
         /\ d \in Conns /\ a # d
         /\ a \in Conns => toFar'[a] = toFar[a] /\ toHub'[a] = toHub[a]
         /\ \/ /\ toFar' = toFar /\ UNCHANGED kp
               /\ cSession'.key = cSession.key
               /\ Adds(toHub[d], toHub'[d], kp)
            \/ /\ f \in Frames
               /\ toFar[d] \in Seq(Frames) /\ toFar[d] # <<>>
               /\ f = Head(toFar[d]) /\ toFar'[d] = Tail(toFar[d])
               /\ \/ /\ f.type = "up" /\ kp' = kp + 1
                     /\ EndsOn(toHub'[d], kp + 1)
                  \/ /\ f.type = "down" /\ UNCHANGED kp
                     /\ toHub'[d] = toHub[d]
                  \/ /\ f.type = "hs" /\ UNCHANGED kp
                     /\ cSession'.key = <<kp, f.key>>
                     /\ Adds(toHub[d], toHub'[d], kp)
                  \/ /\ f.type = "resp" /\ UNCHANGED kp
                     /\ cSession'.key = cSession.key
                     /\ Adds(toHub[d], toHub'[d], kp)
<1> USE DEF AgreeBase, CallBase, CallInv
<1> DEFINE a == link["agent"]  f == First("client")  d == link["client"]
<1>1. /\ d \in Conns /\ a # d
      /\ toHub[d] \in Seq(Frames) /\ kp \in Nat
      /\ Programs = {"agent", "client"}
  BY TunnelConstants DEF SessionTypeOK, Programs, Linked
<1>2. /\ \A s \in Sessions, r \in Reqs : /\ Sealed("req", s, r) \in Frames
                                         /\ ~Turning(Sealed("req", s, r))
      /\ Handshake(kp) \in Frames /\ Handshake(kp + 1) \in Frames
      /\ IsKey(Handshake(kp), kp) /\ IsKey(Handshake(kp + 1), kp + 1)
  <2>1. \A s, r : ~Turning(Sealed("req", s, r))
    BY DEF Sealed, Turning
  <2>2. \A k : IsKey(Handshake(k), k)
    BY DEF Handshake, IsKey
  <2> QED BY <1>1, <2>1, <2>2, FrameRecords
<1>3. \A t : Incoming("client", t) =>
         /\ f \in Frames /\ f.type = t
         /\ toFar[d] \in Seq(Frames) /\ toFar[d] # <<>>
         /\ f = Head(toFar[d]) /\ toFar'[d] = Tail(toFar[d])
         /\ \A c \in Conns \ {d} : toFar'[c] = toFar[c]
  BY <1>1, IncomingTyped DEF Incoming, Reads, First, SessionTypeOK
<1>4. CASE ControllerUp
  <2>1. /\ UNCHANGED <<vars, link, agentEnd, overlapped>>
        /\ Incoming("client", "up") /\ kp' = kp + 1
        /\ Sends("client", <<Handshake(kp + 1)>>)
    BY <1>4 DEF ControllerUp
  <2>2. /\ toHub'[d] = Append(toHub[d], Handshake(kp + 1))
        /\ \A c \in Conns \ {d} : toHub'[c] = toHub[c]
    BY <1>1, <1>2, <2>1, SendsOne
  <2>3. EndsOn(toHub'[d], kp + 1)
    BY <1>1, <1>2, <2>2, TurnAppend
  <2> QED BY <1>1, <1>3, <2>1, <2>2, <2>3
<1>5. CASE ControllerDown
  <2>1. /\ UNCHANGED <<vars, link, agentEnd, overlapped, toHub, kp>>
        /\ Incoming("client", "down")
    BY <1>5 DEF ControllerDown
  <2> QED BY <1>1, <1>3, <2>1
<1>6. CASE ControllerHandshake
  <2>1. /\ UNCHANGED <<vars, link, agentEnd, overlapped, kp>>
        /\ Incoming("client", "hs")
    BY <1>6 DEF ControllerHandshake
  <2> DEFINE s == NewSession(kp, f.key)
             fs == IF sentHs THEN <<>> ELSE <<Handshake(kp)>>
  <2>2. /\ s \in Sessions /\ fs \in {<<>>, <<Handshake(kp)>>} /\ Puts(s, fs)
        /\ cSession'.key = <<kp, f.key>>
    BY <1>6, ControllerHandshakeFacts
  <2> HIDE DEF s, fs
  <2>3. \A c \in Conns \ {d} : toHub'[c] = toHub[c]
    BY <1>1, <2>2, PutsOut
  <2>4. \/ toHub'[d] = toHub[d]
        \/ toHub'[d] = Append(toHub[d], Handshake(kp))
        \/ \E r \in Reqs :
              \/ toHub'[d] = Append(toHub[d], Sealed("req", s, r))
              \/ toHub'[d] = Append(Append(toHub[d], Handshake(kp)),
                                    Sealed("req", s, r))
    BY <1>1, <2>2, PutsOut
  <2>5. Adds(toHub[d], toHub'[d], kp)
    BY <1>1, <1>2, <2>2, <2>4, AddsFrames, TurnAppend DEF Adds
  <2> QED BY <1>1, <1>3, <2>1, <2>2, <2>3, <2>5
<1>7. CASE Pumping
  <2>1. /\ UNCHANGED <<vars, link, agentEnd, kp>>
        /\ \A c \in Conns \ {d} : toHub'[c] = toHub[c]
        /\ \/ toHub'[d] = toHub[d]
           \/ \E q \in Frames : /\ toHub'[d] = Append(toHub[d], q)
                                /\ q.type = "req"
        /\ cSession'.key = cSession.key
    BY <1>1, <1>7, PumpingFacts
  <2>2. /\ overlapped' = overlapped
        /\ toFar' = toFar \/ Incoming("client", "resp")
    BY <1>7 DEF Pumping, ControllerAnswer, Issue, PumpTimer, Timeout
  <2>3. Adds(toHub[d], toHub'[d], kp)
    BY <1>1, <2>1, TurnAppend DEF Adds, Turning
  <2> QED BY <1>1, <1>3, <2>1, <2>2, <2>3
<1> QED BY <1>4, <1>5, <1>6, <1>7 DEF Talks

LEMMA AgreeController ==
  ASSUME AgreeBase, AgreeInv, Talks, link["client"] # None
  PROVE  AgreeInv'
<1> DEFINE a == link["agent"]  f == First("client")  d == link["client"]
<1> USE DEF AgreeBase, CallBase, CallInv
<1>1. /\ UNCHANGED <<vars, link, ephem, aSession, overlapped>>
      /\ d \in Conns /\ a # d
      /\ a \in Conns => toFar'[a] = toFar[a] /\ toHub'[a] = toHub[a]
  BY ControllerTurns DEF agentEnd
<1>2. /\ kp \in Nat
      /\ a # None => a \in Conns
      /\ UNCHANGED <<pc, open>>
  BY <1>1 DEF SessionTypeOK, Programs, vars
<1>3. \/ f.type = "up" /\ kp' # 0 /\ EndsOn(toHub'[d], kp')
      \/ /\ HasUp(toFar[d]) => HasUp(toFar'[d])
         /\ kp' = kp
         /\ Adds(toHub[d], toHub'[d], kp)
  BY <1>2, ControllerTurns, TurnTail DEF Adds
<1>4. Greeted'
  <2> SUFFICES ASSUME NEW p \in Programs, link[p] # None, open[link[p]],
                      pc[link[p]] = "uppeer"
               PROVE  \/ HasUp(toFar'[link[p]])
                      \/ Offer(p)' # 0 /\ EndsOn(toHub'[link[p]], Offer(p)')
    BY <1>1, <1>2 DEF Greeted
  <2>1. \/ HasUp(toFar[link[p]])
        \/ Offer(p) # 0 /\ EndsOn(toHub[link[p]], Offer(p))
    BY DEF AgreeInv, Greeted
  <2>2. CASE p = "client"
    BY <1>3, <2>1, <2>2 DEF Offer, Adds
  <2>3. CASE p = "agent"
    BY <1>1, <1>2, <2>1, <2>3 DEF Offer
  <2> QED BY <2>2, <2>3 DEF Programs
<1>5. ASSUME Paired, Learns("client") PROVE Learns("client")'
  <2>1. a \in Conns /\ Opposite("client") = "agent"
    BY <1>5, PairParts DEF Programs, Opposite
  <2>2. Offer("agent")' = Offer("agent") /\ Offer("agent") = ephem
    BY <1>1 DEF Offer
  <2>3. CASE /\ toFar' = toFar /\ UNCHANGED kp
             /\ cSession'.key = cSession.key
    <3>1. Holds("client") => Holds("client")'
      BY <1>1, <2>3 DEF Holds
    <3> QED BY <1>1, <1>5, <2>1, <2>2, <2>3, <3>1, WriteLearns DEF Programs
  <2>4. CASE /\ toFar[d] \in Seq(Frames) /\ toFar[d] # <<>>
             /\ f = Head(toFar[d]) /\ toFar'[d] = Tail(toFar[d])
             /\ \/ f.type \in {"up", "down"}
                \/ /\ f.type = "hs" /\ UNCHANGED kp
                   /\ cSession'.key = <<kp, f.key>>
                \/ /\ f.type = "resp" /\ UNCHANGED kp
                   /\ cSession'.key = cSession.key
    <3>1. IsKey(f, ephem) => Holds("client")'
      BY <1>1, <2>4 DEF IsKey, Holds
    <3>2. ~Turning(f) /\ Holds("client") => Holds("client")'
      BY <1>1, <2>4 DEF Turning, Holds
    <3> HIDE DEF f
    <3> QED BY <1>1, <1>5, <2>1, <2>2, <2>4, <3>1, <3>2, ReadLearns
            DEF Programs
  <2> QED BY <2>3, <2>4, ControllerTurns
<1>6. ASSUME Paired, Learns("agent") PROVE Learns("agent")'
  <2>1. a \in Conns /\ Opposite("agent") = "client"
    BY <1>6, PairParts DEF Programs, Opposite
  <2>2. Offer("client") = kp /\ Offer("client")' = kp'
    BY DEF Offer
  <2>3. CASE kp' # 0 /\ EndsOn(toHub'[d], kp')
    BY <1>1, <2>1, <2>2, <2>3, NewLearns DEF Programs
  <2>4. CASE /\ HasUp(toFar[d]) => HasUp(toFar'[d])
             /\ kp' = kp /\ Adds(toHub[d], toHub'[d], kp)
    <3>1. Holds("agent") => Holds("agent")'
      BY <1>1, <2>4 DEF Holds
    <3> QED BY <1>1, <1>6, <2>1, <2>2, <2>4, <3>1, WriteLearns
            DEF Programs, Adds
  <2> QED BY <1>3, <2>3, <2>4
<1> QED BY <1>1, <1>4, <1>5, <1>6, AgreeKeeps DEF Programs

\* Without a connection the controller says nothing.
LEMMA AgreeAlone ==
  ASSUME AgreeBase, AgreeInv, Talks, link["client"] = None
  PROVE  AgreeInv'
<1> USE DEF AgreeBase, CallBase, CallInv
<1>1. Pumping
  BY DEF Talks, ControllerUp, ControllerDown, ControllerHandshake, Incoming,
     Reads
<1>2. /\ UNCHANGED <<vars, link, agentEnd>>
      /\ link["agent"] # None => toFar'[link["agent"]] = toFar[link["agent"]]
      /\ \A d \in Conns \ {link["client"]} : toHub'[d] = toHub[d]
  BY <1>1, PumpingFacts
<1>3. UNCHANGED overlapped
  BY <1>1 DEF Pumping, ControllerAnswer, Issue, PumpTimer, Timeout
<1>4. ~Paired
  BY DEF Paired, Programs
<1>5. UNCHANGED <<pc, open, ephem>>
  BY <1>2 DEF vars, agentEnd
<1>6. link["agent"] # None =>
         link["agent"] \in Conns \ {link["client"]}
  BY DEF SessionTypeOK, Programs
<1>7. Greeted'
  BY <1>2, <1>5, <1>6 DEF AgreeInv, Greeted, Offer, Programs
<1> QED BY <1>2, <1>3, <1>4, <1>7, AgreeKeeps

-----------------------------------------------------------------------------
(* Connecting and leaving.                                                 *)

LEMMA AgreeLeave ==
  ASSUME AgreeBase, AgreeInv, NEW q \in Programs, link[q] # None, Leave(q),
         UNCHANGED <<vars, dials, toHub, agentEnd, kp, overlapped>>
  PROVE  AgreeInv'
<1> USE DEF AgreeBase, CallBase, CallInv
<1>1. /\ link'[q] = None
      /\ \A p \in Programs \ {q} : link'[p] = link[p]
      /\ UNCHANGED <<pc, open, who, slot, toHub, ephem, kp, overlapped>>
  BY DEF Leave, SessionTypeOK, vars, agentEnd
<1>2. \A p \in Programs \ {q} :
         link[p] # None => toFar'[link[p]] = toFar[link[p]]
  BY DEF Leave, Emptied, Linked, SessionTypeOK, Programs
<1>3. InTurn'
  BY <1>1 DEF AgreeInv, InTurn, AtWork
<1>4. Greeted'
  <2> SUFFICES ASSUME NEW p \in Programs, link'[p] # None, open[link'[p]],
                      pc[link'[p]] = "uppeer"
               PROVE  \/ HasUp(toFar'[link'[p]])
                      \/ Offer(p)' # 0 /\ EndsOn(toHub[link'[p]], Offer(p)')
    BY <1>1 DEF Greeted
  <2>1. p # q /\ link'[p] = link[p] /\ Offer(p)' = Offer(p)
    BY <1>1 DEF Offer
  <2> QED BY <1>2, <2>1 DEF AgreeInv, Greeted
<1>5. Learning'
  BY <1>1 DEF Learning, Paired
<1> QED BY <1>3, <1>4, <1>5 DEF AgreeInv

LEMMA AgreeDial ==
  ASSUME AgreeBase, AgreeInv, NEW q \in Programs, NEW c \in Conns,
         NEW d \in Devices, NEW id \in Creds \cup {None}, Dial(q, c, d, id)
  PROVE  AgreeInv'
<1> USE DEF AgreeBase, CallBase, CallInv
<1>1. /\ link'[q] = c /\ pc[c] = "idle"
      /\ \A p \in Programs \ {q} : link'[p] = link[p]
      /\ \A p \in Programs : link[p] # c
      /\ pc'[c] = "challenged" /\ \A e \in Conns \ {c} : pc'[e] = pc[e]
      /\ \A e \in Conns \ {c} : who'[e] = who[e] /\ open'[e] = open[e]
      /\ \A e \in Conns \ {c} : toHub'[e] = toHub[e] /\ toFar'[e] = toFar[e]
      /\ UNCHANGED <<slot, ephem, kp, overlapped>>
  BY DEF Dial, Hello, Goto, Emptied, ends, agentEnd, keyEnd, Typed, TypeOK,
     SessionTypeOK
<1>2. InTurn'
  <2>1. \A e \in Conns : AtWork(e)' => AtWork(e) /\ e # c
    BY <1>1 DEF AtWork, InMap, Announcing, Serving
  <2> QED BY <1>1, <2>1 DEF AgreeInv, InTurn, AtWork
<1>3. Greeted'
  <2> SUFFICES ASSUME NEW p \in Programs, link'[p] # None, open'[link'[p]],
                      pc'[link'[p]] = "uppeer"
               PROVE  \/ HasUp(toFar'[link'[p]])
                      \/ Offer(p)' # 0 /\ EndsOn(toHub'[link'[p]], Offer(p)')
    BY DEF Greeted
  <2>1. p # q /\ link'[p] = link[p] /\ Offer(p)' = Offer(p)
    BY <1>1 DEF Offer
  <2>2. link[p] \in Conns \ {c}
    BY <1>1, <2>1 DEF SessionTypeOK
  <2> QED BY <1>1, <2>1, <2>2 DEF AgreeInv, Greeted
<1>4. ~Paired'
  <2> SUFFICES ASSUME NEW e \in Devices, slot[q][e] = c PROVE FALSE
    BY <1>1 DEF Paired
  <2>1. q \in Kinds /\ c # None
    BY TunnelConstants DEF Kinds, Programs
  <2>2. pc[c] \in InMap
    BY <2>1 DEF SeatInv, NoGhost
  <2> QED BY <1>1, <2>2 DEF InMap, Announcing, Serving
<1> QED BY <1>2, <1>3, <1>4 DEF AgreeInv, Learning

-----------------------------------------------------------------------------
(* The hub's steps.                                                        *)

LEMMA TurnHub ==
  ASSUME AgreeBase, InTurn, NEW c \in Conns, HubStep(c)
  PROVE  InTurn'
<1> USE DEF AgreeBase, CallBase, CallInv
<1> SUFFICES ASSUME ~overlapped' PROVE InTurn'
  BY DEF InTurn
<1>1. CASE HubSwap(c)
  <2>1. /\ pc[c] = "verified" /\ UNCHANGED who
        /\ slot' = [slot EXCEPT ![who[c].kind][who[c].dev] = c]
        /\ pc' = [pc EXCEPT ![c] = "evict"]
        /\ ~overlapped
        /\ \A e \in Conns \ {c} : pc[e] \in InMap \cup {"notify"} =>
                                     who[e].kind # who[c].kind
    BY <1>1 DEF HubSwap, Swap, Goto
  <2>2. /\ who[c].kind \in Kinds /\ who[c].dev \in Devices
        /\ slot \in [Kinds -> [Devices -> Conns \cup {None}]]
        /\ pc \in [Conns -> PCs]
    BY <2>1 DEF Typed, TypeOK, Placed
  <2>3. pc'[c] = "evict" /\ \A e \in Conns \ {c} : pc'[e] = pc[e]
    BY <2>1, <2>2
  <2>4. slot'[who[c].kind][who[c].dev] = c
    BY <2>1, <2>2
  <2>5. \A e \in Conns \ {c} : who[e].kind # who[c].kind =>
           slot'[who[e].kind][who[e].dev] = slot[who[e].kind][who[e].dev]
    BY <2>1, <2>2
  <2> SUFFICES ASSUME NEW x \in Conns, AtWork(x)'
               PROVE  /\ \A e \in Conns :
                            AtWork(e)' /\ who'[e].kind = who'[x].kind => e = x
                      /\ pc'[x] \in InMap =>
                            slot'[who'[x].kind][who'[x].dev] = x
    BY DEF InTurn
  <2>6. \A e \in Conns \ {c} : AtWork(e)' => AtWork(e) /\ who[e].kind # who[c].kind
    BY <2>1, <2>3 DEF AtWork
  <2>7. CASE x = c
    BY <2>1, <2>4, <2>6, <2>7
  <2>8. CASE x # c
    <3>1. /\ AtWork(x) /\ who[x].kind # who[c].kind
          /\ pc'[x] \in InMap => slot[who[x].kind][who[x].dev] = x
          /\ \A e \in Conns : AtWork(e) /\ who[e].kind = who[x].kind => e = x
      BY <2>1, <2>3, <2>6, <2>8 DEF InTurn
    <3> QED BY <2>1, <2>5, <2>6, <2>8, <3>1
  <2> QED BY <2>7, <2>8
<1>2. CASE ~HubSwap(c)
  <2>1. ~overlapped
    BY <1>2 DEF HubStep, Hub, Answer, HubLosesLink, HubQuiet, HubUpSelf,
       HubUpPeer, HubNotifyDown, HubHandshakeFails, Forward
  <2>2. /\ \A e \in Conns : AtWork(e)' => AtWork(e) /\ who'[e] = who[e]
        /\ \A e \in Conns : pc'[e] \in InMap => pc[e] \in InMap
        /\ \A k \in Kinds, d \in Devices, e \in Conns :
              slot[k][d] = e /\ pc'[e] \in InMap => slot'[k][d] = e
    <3> USE DEF AtWork, Typed, TypeOK, InMap, Announcing, Serving, Goto, Finish,
                Programs, Handshaking
    <3>1. CASE Evict(c)
      BY <3>1 DEF Evict
    <3>2. CASE ReadFails(c)
      BY <3>2 DEF ReadFails
    <3>3. CASE GiveBack(c)
      BY <3>3 DEF GiveBack
    <3>4. CASE UpSelf(c)
      BY <3>4 DEF UpSelf
    <3>5. CASE UpPeer(c)
      BY <3>5 DEF UpPeer
    <3>6. CASE NotifyDown(c)
      BY <3>6 DEF NotifyDown
    <3>7. CASE HandshakeFails(c)
      BY <3>7 DEF HandshakeFails
    <3>8. CASE Auth(c)
      BY <3>8 DEF Auth
    <3>9. CASE RemoteCloses(c)
      BY <3>9 DEF RemoteCloses
    <3>10. CASE Forward(c)
      BY <3>10 DEF Forward, vars
    <3> QED BY <1>2, <3>1, <3>2, <3>3, <3>4, <3>5, <3>6, <3>7, <3>8, <3>9,
            <3>10 DEF HubStep, Hub, Answer, HubLosesLink, HubQuiet, HubUpSelf,
            HubUpPeer, HubNotifyDown, HubHandshakeFails
  <2>3. \A e \in Conns : AtWork(e) => /\ who[e].kind \in Kinds
                                      /\ who[e].dev \in Devices
    BY DEF AtWork, Typed, Placed, InMap, Announcing, Serving
  <2> QED BY <2>1, <2>2, <2>3 DEF InTurn
<1> QED BY <1>1, <1>2

\* A goroutine tells its own program before the other, and forwards nothing
\* before it has told both.
LEMMA GreetedHub ==
  ASSUME AgreeBase, Greeted, NEW c \in Conns, HubStep(c)
  PROVE  Greeted'
<1> USE DEF AgreeBase, CallBase, CallInv
<1>1. link' = link /\ UNCHANGED <<ephem, kp>>
  <2>1. link' = link /\ UNCHANGED ends
    BY HubWires DEF Forward, Typed
  <2> QED BY <2>1 DEF ends, agentEnd, keyEnd
<1> SUFFICES ASSUME NEW p \in Programs, link[p] # None, open'[link[p]],
                    pc'[link[p]] = "uppeer"
             PROVE  \/ HasUp(toFar'[link[p]])
                    \/ Offer(p)' # 0 /\ EndsOn(toHub'[link[p]], Offer(p)')
  BY <1>1 DEF Greeted
<1> DEFINE l == link[p]
<1>2. l \in Conns /\ toFar[l] \in Seq(Frames) /\ Offer(p)' = Offer(p)
  BY <1>1 DEF SessionTypeOK, Offer
<1>3. CASE UpSelf(c) /\ HubUpSelf(c) /\ c = l
  <2>1. open[l] /\ toFar'[l] = Append(toFar[l], Notice("up"))
    BY <1>2, <1>3 DEF UpSelf, HubUpSelf, Written
  <2> QED BY <1>2, <2>1, FrameRecords, TurnAppend DEF Notice
<1>4. CASE ~(HubUpSelf(c) /\ c = l)
  <2>1. open[l] /\ pc[l] = "uppeer"
    <3> USE DEF Typed, TypeOK, Goto, Finish, Closed
    <3>1. CASE HubUpSelf(c)
      BY <1>2, <1>4, <3>1 DEF HubUpSelf, UpSelf
    <3>2. CASE HubUpPeer(c) \/ HubSwap(c) \/ Evict(c)
      BY <1>2, <3>2 DEF HubUpPeer, UpPeer, HubSwap, Swap, Evict
    <3>3. CASE ReadFails(c) \/ GiveBack(c) \/ Auth(c) \/ RemoteCloses(c)
      BY <1>2, <3>3 DEF ReadFails, GiveBack, Auth, RemoteCloses
    <3>4. CASE NotifyDown(c) \/ HandshakeFails(c)
      BY <1>2, <3>4 DEF NotifyDown, HandshakeFails
    <3>5. CASE Forward(c)
      BY <3>5 DEF Forward, vars
    <3> QED BY <3>1, <3>2, <3>3, <3>4, <3>5 DEF HubStep, Hub, Answer,
            HubLosesLink, HubQuiet, HubNotifyDown, HubHandshakeFails
  <2>2. toHub'[l] = toHub[l]
    <3>1. CASE c = l
      BY <2>1, <3>1 DEF HubStep, Hub, Answer, HubLosesLink, HubQuiet, HubSwap,
         HubUpSelf, HubUpPeer, HubNotifyDown, HubHandshakeFails, Forward,
         NotifyDown, wires
    <3>2. CASE c # l
      BY <1>2, <3>2 DEF HubStep, Hub, Answer, HubLosesLink, HubQuiet, HubSwap,
         HubUpSelf, HubUpPeer, HubNotifyDown, HubHandshakeFails, Forward,
         Emptied, wires, SessionTypeOK
    <3> QED BY <3>1, <3>2
  <2>3. toFar'[l] = toFar[l] \/ \E f \in Frames : toFar'[l] = Append(toFar[l], f)
    <3>1. CASE Forward(c)
      <4>1. Head(toHub[c]) \in Frames
        BY <3>1 DEF Forward, SessionTypeOK
      <4> QED BY <1>2, <3>1, <4>1 DEF Forward, Written
    <3>2. CASE ~Forward(c)
      BY <1>2, <3>2, HubWires, FrameRecords DEF Typed
    <3> QED BY <3>1, <3>2
  <2>4. HasUp(toFar[l]) => HasUp(toFar'[l])
    BY <1>2, <2>3, TurnAppend
  <2> QED BY <1>2, <2>1, <2>2, <2>4 DEF Greeted
<1> QED BY <1>3, <1>4 DEF HubUpSelf

\* Of a pair that is in turn only its own goroutines are at work.
LEMMA AtWorkPaired ==
  ASSUME AgreeBase, InTurn, ~overlapped, Paired, NEW c \in Conns,
         pc[c] \in InMap \cup {"notify"}
  PROVE  \E p \in Programs : /\ c = link[p] /\ pc[c] \in InMap
                             /\ Peer(c) = link[Opposite(p)]
                             /\ Opposite(p) \in Programs
                             /\ Opposite(Opposite(p)) = p
<1> USE DEF AgreeBase, CallBase, CallInv
<1>1. PICK d \in Devices : \A p \in Programs : slot[p][d] = link[p]
  BY DEF Paired
<1>2. \A p \in Programs : /\ link[p] \in Conns /\ pc[link[p]] \in InMap
                          /\ who[link[p]].kind = p /\ who[link[p]].dev = d
  BY <1>1, PairParts DEF SeatInv, NoGhost, Kinds, Programs, Paired
<1>3. who[c].kind \in Programs
  BY DEF Linked, Typed, Placed, InMap, Announcing, Serving, Kinds
<1>4. PICK p \in Programs : p = who[c].kind
  BY <1>3
<1>5. c = link[p]
  BY <1>2, <1>3, <1>4 DEF InTurn, AtWork
<1>6. Opposite(p) \in Programs /\ Opposite(Opposite(p)) = p
  BY DEF Opposite, Programs
<1> QED BY <1>1, <1>2, <1>5, <1>6 DEF Peer

\* The relay passes a frame on.
LEMMA PassLearns ==
  ASSUME SessionTypeOK, NEW p \in Programs, NEW q \in Programs,
         q = Opposite(p), UNCHANGED <<link, ends>>,
         link[p] \in Conns, link[q] \in Conns, link[p] # link[q],
         toHub[link[q]] # <<>>, toHub'[link[q]] = Tail(toHub[link[q]]),
         toFar'[link[p]] = Append(toFar[link[p]], Head(toHub[link[q]])),
         toFar'[link[q]] = toFar[link[q]],
         Learns(p)
  PROVE  Learns(p)'
<1> DEFINE s == toHub[link[q]]  f == Head(s)  t == toFar[link[p]]  k == Offer(q)
<1>1. /\ s \in Seq(Frames) /\ f \in Frames /\ t \in Seq(Frames)
      /\ toHub'[link[q]] = Tail(s) /\ toFar'[link[p]] = Append(t, f)
  BY DEF SessionTypeOK
<1>2. Offer(q)' = k /\ Holds(p)' = Holds(p)
  BY DEF Offer, Holds, ends, agentEnd, keyEnd
<1>3. /\ OnlyOf(s, k) => OnlyOf(Tail(s), k) /\ (~Turning(f) \/ IsKey(f, k))
      /\ EndsOn(s, k) => \/ EndsOn(Tail(s), k)
                         \/ IsKey(f, k) /\ OnlyOf(Tail(s), k)
  BY <1>1, TurnTail
<1>4. /\ IsKey(f, k) => EndsOn(Append(t, f), k)
      /\ ~Turning(f) \/ IsKey(f, k) =>
            /\ EndsOn(t, k) => EndsOn(Append(t, f), k)
            /\ OnlyOf(t, k) => OnlyOf(Append(t, f), k)
  BY <1>1, TurnAppend
<1>5. \/ HasUp(toFar[link[q]])
      \/ k # 0 /\ EndsOn(s, k)
      \/ k # 0 /\ OnlyOf(s, k) /\ EndsOn(t, k)
      \/ k # 0 /\ OnlyOf(s, k) /\ OnlyOf(t, k) /\ Holds(p)
  BY DEF Learns
<1>6. \/ HasUp(toFar[link[q]])
      \/ k # 0 /\ EndsOn(Tail(s), k)
      \/ k # 0 /\ OnlyOf(Tail(s), k) /\ EndsOn(Append(t, f), k)
      \/ k # 0 /\ OnlyOf(Tail(s), k) /\ OnlyOf(Append(t, f), k) /\ Holds(p)
  BY <1>3, <1>4, <1>5
<1> QED BY <1>1, <1>2, <1>6 DEF Learns

LEMMA LearningSwap ==
  ASSUME AgreeBase, Learning, NEW c \in Conns, HubSwap(c)
  PROVE  Learning'
<1> USE DEF AgreeBase, CallBase, CallInv
<1> SUFFICES ASSUME ~overlapped', Paired',
                    \A p \in Programs : ~ToMeet(link[p])'
             PROVE  \A p \in Programs : Learns(p)'
  BY DEF Learning, HubSwap, wires
<1>1. /\ pc[c] = "verified" /\ UNCHANGED <<who, open, link, toHub, toFar, ends>>
      /\ slot' = [slot EXCEPT ![who[c].kind][who[c].dev] = c]
      /\ peerOnline' = [peerOnline EXCEPT
                          ![c] = who[c].kind # "presence" /\ Peer(c) # None]
      /\ pc' = [pc EXCEPT ![c] = "evict"]
      /\ ~overlapped
  BY DEF HubSwap, Swap, Goto, wires
<1>2. /\ who[c].kind \in Kinds /\ who[c].dev \in Devices
      /\ slot \in [Kinds -> [Devices -> Conns \cup {None}]]
      /\ peerOnline \in [Conns -> BOOLEAN] /\ pc \in [Conns -> PCs]
  BY <1>1 DEF Typed, TypeOK, Placed
<1>3. /\ \A e \in Conns \ {c} : pc'[e] = pc[e] /\ peerOnline'[e] = peerOnline[e]
      /\ pc'[c] = "evict"
      /\ peerOnline'[c] = (who[c].kind # "presence" /\ Peer(c) # None)
  BY <1>1, <1>2
<1>4. PICK d \in Devices : \A p \in Programs : slot'[p][d] = link[p]
  BY <1>1 DEF Paired
<1>5. \A p \in Programs : link[p] \in Conns /\ p \in Kinds
  BY <1>1 DEF Paired, SessionTypeOK, Programs, Kinds
<1>6. ASSUME NEW p \in Programs, c = link[p] PROVE FALSE
  <2>1. slot[p][d] # c
    BY <1>1, <1>5, TunnelConstants DEF SeatInv, NoGhost, InMap, Announcing, Serving
  <2>2. who[c].kind = p /\ who[c].dev = d
    BY <1>1, <1>2, <1>4, <1>5, <1>6, <2>1
  <2>3. PICK q \in Programs : q = Opposite(p) /\ q # p
    BY DEF Opposite, Programs
  <2>4. slot[q][d] = link[q]
    BY <1>1, <1>2, <1>4, <1>5, <2>2, <2>3
  <2>5. Peer(c) # None /\ who[c].kind # "presence"
    BY <1>5, <2>2, <2>3, <2>4, TunnelConstants DEF Peer, Programs
  <2>6. ToMeet(link[p])'
    BY <1>1, <1>3, <1>6, <2>5 DEF ToMeet
  <2> QED BY <2>6
<1>7. \A p \in Programs : slot[p][d] = link[p]
  BY <1>1, <1>2, <1>4, <1>5, <1>6
<1>8. Paired
  BY <1>1, <1>7 DEF Paired
<1>9. \A p \in Programs : ~ToMeet(link[p])
  BY <1>1, <1>3, <1>5, <1>6 DEF ToMeet
<1>10. \A p \in Programs : Learns(p)
  BY <1>1, <1>8, <1>9 DEF Learning
<1> QED BY <1>1, <1>10 DEF Learns, Offer, Holds, ends, agentEnd, keyEnd

LEMMA LearningHub ==
  ASSUME AgreeBase, AgreeInv, NEW c \in Conns, HubStep(c), ~HubSwap(c)
  PROVE  Learning'
<1> USE DEF AgreeBase, CallBase, CallInv, AgreeInv
<1>1. link' = link /\ UNCHANGED ends
  BY HubWires DEF Forward, Typed
<1> SUFFICES ASSUME ~overlapped', Paired',
                    \A p \in Programs : ~ToMeet(link[p])'
             PROVE  \A p \in Programs : Learns(p)'
  BY <1>1 DEF Learning
<1>2. ~overlapped
  BY DEF HubStep, Hub, Answer, HubLosesLink, HubQuiet, HubUpSelf,
     HubUpPeer, HubNotifyDown, HubHandshakeFails, Forward
<1>3. \A p \in Programs : link[p] \in Conns /\ link[p] # None /\ p \in Kinds
  BY <1>1 DEF Paired, SessionTypeOK, Programs, Kinds
<1>4. Paired
  <2>1. \A e \in Conns : open'[e] => open[e]
    BY DEF HubStep, Hub, Answer, HubLosesLink, HubQuiet, HubUpSelf,
       HubUpPeer, HubNotifyDown, HubHandshakeFails, Forward, vars, Evict,
       ReadFails, GiveBack, UpSelf, UpPeer, NotifyDown, HandshakeFails, Auth,
       RemoteCloses, Finish, Closed, Typed, TypeOK
  <2>2. \A k \in Kinds, d \in Devices :
           slot'[k][d] = slot[k][d] \/ slot'[k][d] = None
    <3>1. CASE UNCHANGED slot
      BY <3>1
    <3>2. CASE GiveBack(c)
      BY <3>2 DEF GiveBack, Typed, TypeOK
    <3>3. UNCHANGED slot \/ GiveBack(c)
      BY DEF HubStep, Hub, Answer, HubLosesLink, HubQuiet, HubUpSelf,
         HubUpPeer, HubNotifyDown, HubHandshakeFails, Forward, vars, Evict,
         ReadFails, UpSelf, UpPeer, NotifyDown, HandshakeFails, Auth,
         RemoteCloses
    <3> QED BY <3>1, <3>2, <3>3
  <2> QED BY <1>1, <1>3, <2>1, <2>2 DEF Paired
<1>5. \A p \in Programs : Offer(p)' = Offer(p) /\ Holds(p)' = Holds(p)
  BY <1>1 DEF Offer, Holds, ends, agentEnd, keyEnd
<1>6. ASSUME UNCHANGED <<toHub, toFar>>, \A p \in Programs : ~ToMeet(link[p])
      PROVE  \A p \in Programs : Learns(p)'
  <2>1. \A p \in Programs : Learns(p)
    BY <1>2, <1>4, <1>6 DEF Learning
  <2> QED BY <1>1, <1>6, <2>1 DEF Learns, Offer, Holds, ends, agentEnd, keyEnd
<1>7. CASE Evict(c) /\ UNCHANGED wires
  BY <1>1, <1>3, <1>6, <1>7 DEF Evict, ToMeet, Goto, Typed, TypeOK, wires,
     local
<1>8. CASE ReadFails(c) /\ UNCHANGED wires
  BY <1>1, <1>3, <1>6, <1>8 DEF ReadFails, ToMeet, Goto, Typed, TypeOK, wires,
     local
<1>9. CASE GiveBack(c) /\ UNCHANGED wires
  BY <1>1, <1>3, <1>6, <1>9 DEF GiveBack, ToMeet, Goto, Typed, TypeOK, wires,
     local
<1>10. CASE Auth(c) /\ UNCHANGED wires
  BY <1>1, <1>3, <1>6, <1>10 DEF Auth, ToMeet, Goto, Typed, TypeOK, wires,
     local
<1>11. CASE RemoteCloses(c) /\ UNCHANGED wires
  BY <1>1, <1>3, <1>6, <1>11 DEF RemoteCloses, ToMeet, local, wires
<1>12. CASE HandshakeFails(c) /\ UNCHANGED wires
  BY <1>1, <1>3, <1>6, <1>12 DEF HandshakeFails, ToMeet, Finish, Goto, Typed,
     TypeOK, wires
<1>13. CASE HubUpSelf(c)
  <2>1. pc[c] \in InMap /\ pc'[c] = "uppeer"
    BY <1>13 DEF HubUpSelf, UpSelf, Goto, Typed, TypeOK, InMap, Announcing
  <2>2. PICK p \in Programs : c = link[p]
    BY <1>2, <1>4, <2>1, AtWorkPaired
  <2> QED BY <1>1, <2>1, <2>2 DEF ToMeet
<1>14. CASE HubUpPeer(c)
  <2>1. /\ pc[c] = "uppeer" /\ UNCHANGED <<open, toHub>>
        /\ toFar' = Written(Peer(c), Notice("up"))
    BY <1>14 DEF HubUpPeer, UpPeer
  <2>2. PICK p \in Programs : /\ c = link[p] /\ Peer(c) = link[Opposite(p)]
                              /\ Opposite(p) \in Programs
                              /\ Opposite(Opposite(p)) = p
    BY <1>2, <1>4, <2>1, AtWorkPaired DEF InMap, Announcing
  <2> DEFINE q == Opposite(p)
  <2>3. /\ link[q] \in Conns /\ open[link[q]] /\ link[q] # link[p]
        /\ toFar[link[q]] \in Seq(Frames) /\ toFar[link[p]] \in Seq(Frames)
    BY <1>3, <1>4, <2>2, PairParts DEF Paired, Programs, Opposite
  <2>4. /\ toFar'[link[q]] = Append(toFar[link[q]], Notice("up"))
        /\ toFar'[link[p]] = toFar[link[p]]
    BY <1>3, <2>1, <2>2, <2>3 DEF Written
  <2>5. HasUp(toFar'[link[q]])
    BY <2>3, <2>4, FrameRecords, TurnAppend DEF Notice
  <2>6. Learns(p)'
    BY <1>1, <2>5 DEF Learns
  <2>7. \/ HasUp(toFar[link[p]])
        \/ Offer(p) # 0 /\ EndsOn(toHub[link[p]], Offer(p))
    BY <1>3, <1>4, <2>1, <2>2 DEF Greeted, Paired
  <2>8. Learns(q)'
    BY <1>1, <1>5, <2>1, <2>2, <2>4, <2>7 DEF Learns
  <2>9. \A r \in Programs : r = p \/ r = q
    BY DEF Programs, Opposite
  <2> QED BY <2>6, <2>8, <2>9
<1>15. CASE HubNotifyDown(c)
  <2>1. pc[c] = "notify"
    BY <1>15 DEF HubNotifyDown, NotifyDown
  <2> QED BY <1>2, <1>4, <2>1, AtWorkPaired DEF InMap, Announcing, Serving
<1>16. CASE Forward(c)
  <2>1. /\ pc[c] = "serve" /\ UNCHANGED vars /\ toHub[c] # <<>>
        /\ toHub' = [toHub EXCEPT ![c] = Tail(@)]
        /\ toFar' = Written(Peer(c), Head(toHub[c]))
    BY <1>16 DEF Forward
  <2>2. PICK q \in Programs : /\ c = link[q] /\ Peer(c) = link[Opposite(q)]
                              /\ Opposite(q) \in Programs
                              /\ Opposite(Opposite(q)) = q
    BY <1>2, <1>4, <2>1, AtWorkPaired DEF InMap, Serving
  <2> DEFINE p == Opposite(q)
  <2>3. /\ link[p] \in Conns /\ open[link[p]] /\ link[q] # link[p]
        /\ toFar[link[p]] \in Seq(Frames) /\ toHub[link[q]] \in Seq(Frames)
        /\ Head(toHub[c]) \in Frames
    BY <1>3, <1>4, <2>1, <2>2, PairParts DEF Paired, Programs, Opposite
  <2>4. /\ toFar'[link[p]] = Append(toFar[link[p]], Head(toHub[link[q]]))
        /\ toFar'[link[q]] = toFar[link[q]]
        /\ toHub'[link[q]] = Tail(toHub[link[q]])
        /\ toHub'[link[p]] = toHub[link[p]]
    BY <1>3, <2>1, <2>2, <2>3 DEF Written, SessionTypeOK
  <2>5. Learns(p) /\ Learns(q)
    <3>1. \A r \in Programs : ~ToMeet(link[r])
      BY <1>1, <2>1 DEF ToMeet, vars
    <3> QED BY <1>2, <1>4, <2>2, <3>1 DEF Learning
  <2>6. Learns(p)'
    BY <1>1, <1>3, <2>1, <2>2, <2>3, <2>4, <2>5, PassLearns
  <2>7. HasUp(toFar[link[p]]) => HasUp(toFar'[link[p]])
    BY <2>2, <2>3, <2>4, TurnAppend
  <2>8. Learns(q)'
    BY <1>1, <1>5, <2>2, <2>4, <2>5, <2>7, WriteLearns
  <2>9. \A r \in Programs : r = p \/ r = q
    BY DEF Programs, Opposite
  <2> QED BY <2>6, <2>8, <2>9
<1> QED BY <1>7, <1>8, <1>9, <1>10, <1>11, <1>12, <1>13, <1>14, <1>15, <1>16
        DEF HubStep, Hub, Answer, HubLosesLink, HubQuiet, HubHandshakeFails

LEMMA AgreeStutters ==
  ASSUME AgreeInv, UNCHANGED sessionVars
  PROVE  AgreeInv'
<1>1. /\ UNCHANGED <<vars, link, overlapped>>
      /\ UNCHANGED <<toHub, toFar, ephem, kp, aSession, cSession, pc, open>>
  BY DEF sessionVars, wires, ends, agentEnd, keyEnd, vars
<1>2. Greeted'
  BY <1>1 DEF AgreeInv, Greeted, Offer
<1>3. \A p \in Programs : Learns(p) => Learns(p)'
  BY <1>1 DEF Learns, Offer, Holds
<1> QED BY <1>1, <1>2, <1>3, AgreeKeeps

LEMMA AgreeStep ==
  ASSUME AgreeBase, AgreeInv, [SessionNext]_sessionVars
  PROVE  AgreeInv'
<1>1. ASSUME NEW c \in Conns, HubStep(c) PROVE AgreeInv'
  <2>1. InTurn' /\ Greeted'
    BY <1>1, TurnHub, GreetedHub DEF AgreeInv
  <2>2. Learning'
    BY <1>1, LearningSwap, LearningHub DEF AgreeInv
  <2> QED BY <2>1, <2>2 DEF AgreeInv
<1>2. ASSUME NEW p \in Programs, LinkLost(p) PROVE AgreeInv'
  BY <1>2, AgreeLeave DEF LinkLost
<1>3. ASSUME NEW p \in Programs, NEW c \in Conns, NEW d \in Devices,
             NEW id \in Creds \cup {None}, Dial(p, c, d, id)
      PROVE  AgreeInv'
  BY <1>3, AgreeDial
<1>4. CASE AgentLoop
  BY <1>4, AgreeAgent
<1>5. CASE Talks
  BY <1>5, AgreeController, AgreeAlone
<1>6. CASE ControllerHandshakeThrows
  BY <1>6, AgreeLeave DEF ControllerHandshakeThrows, Reads, Programs
<1>7. CASE UNCHANGED sessionVars
  BY <1>7, AgreeStutters
<1>8. CASE SessionNext
  BY <1>1, <1>2, <1>3, <1>4, <1>5, <1>6, <1>8
  DEF SessionNext, HubStep, ControllerLoop, Talks, Pumping
<1> QED BY <1>7, <1>8

LEMMA AgreeStart == SessionInit => AgreeInv
<1> SUFFICES ASSUME SessionInit PROVE AgreeInv
  OBVIOUS
<1>1. /\ \A p \in Programs : link[p] = None
      /\ \A c \in Conns : pc[c] = "idle"
  BY DEF SessionInit, Init
<1>2. InTurn
  BY <1>1 DEF InTurn, AtWork, InMap, Announcing, Serving
<1>3. Greeted /\ ~Paired
  BY <1>1 DEF Greeted, Paired, Programs
<1> QED BY <1>2, <1>3 DEF AgreeInv, Learning

LEMMA AgreeFrom ==
  ASSUME AgreeBase, AgreeInv
  PROVE  AgreeInTurn
<1> USE DEF AgreeBase, CallBase, CallInv, AgreeInv
<1> SUFFICES ASSUME Settled, ~overlapped PROVE InSession
  BY DEF AgreeInTurn
<1>1. \A p \in Programs :
         /\ link[p] \in Conns /\ link[p] # None
         /\ open[link[p]] /\ pc[link[p]] = "serve"
         /\ toHub[link[p]] = <<>> /\ toFar[link[p]] = <<>>
  BY DEF Settled, SessionTypeOK
<1>2. \A p \in Programs : who[link[p]].kind = p /\ who[link[p]].dev \in Devices
  BY <1>1 DEF Linked, Typed, Placed, Kinds
<1>3. \A p \in Programs : slot[p][who[link[p]].dev] = link[p]
  BY <1>1, <1>2 DEF InTurn, AtWork, InMap, Serving
<1>4. Paired
  <2>1. who[link["agent"]].dev = who[link["client"]].dev
    BY DEF Settled
  <2> QED BY <1>1, <1>2, <1>3, <2>1 DEF Paired, Programs
<1>5. \A p \in Programs : Learns(p)
  BY <1>1, <1>4 DEF Learning, ToMeet
<1>6. \A p \in Programs : Offer(Opposite(p)) # 0 /\ Holds(p)
  <2>1. \A p \in Programs : Opposite(p) \in Programs
    BY DEF Opposite, Programs
  <2> QED BY <1>1, <1>5, <2>1, TurnNone DEF Learns
<1>7. /\ aSession.key = <<kp, ephem>> /\ cSession.key = <<kp, ephem>>
      /\ kp # 0
  BY <1>6 DEF Holds, Offer, Opposite, Programs
<1> QED BY <1>7 DEF InSession, NoSession

\* Once both programs are served and all that was written has been read, they
\* hold the same session, as long as every connection was over, its last notice
\* written, before its program's next one took the slot: however registrations,
\* notices, handshakes and lost connections interleave, the pair can talk.
THEOREM AgreeInTurnEver == SessionSpec => []AgreeInTurn
<1>1. SessionSpec => []AgreeBase
  BY CallInvEver, PTL DEF AgreeBase
<1>2. AgreeBase /\ AgreeInv /\ [SessionNext]_sessionVars => AgreeInv'
  BY AgreeStep
<1>3. AgreeBase /\ AgreeInv => AgreeInTurn
  BY AgreeFrom
<1> QED BY <1>1, <1>2, <1>3, AgreeStart, PTL DEF SessionSpec
=============================================================================
