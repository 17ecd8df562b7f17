---------------------------- MODULE TunnelProofs ----------------------------
(***************************************************************************)
(* Theorems about the relay core, for any number of connections, devices,  *)
(* credentials and administrator requests.                                 *)
(***************************************************************************)
EXTENDS TunnelProps, TLAPS

-----------------------------------------------------------------------------
(* Inductive strengthenings: what Exclusive, ControllerPermitted and       *)
(* Introduced rest on.                                                     *)

\* An open connection that registered is in the map, unless the one that
\* replaced it is about to close it.
Seated ==
    \A c \in Conns :
        pc[c] \in InMap /\ open[c] =>
            slot[who[c].kind][who[c].dev] = c \/ Doomed(c)

OldHeld == \A c \in Conns : old[c] # None => pc[c] = "evict"

SeatInv == NoGhost /\ Seated /\ OldHeld

\* A recorded reason is a present one.
BarsTrue ==
    \A d \in Devices :
        /\ "ban" \in bars[d] => d \in banned
        /\ "cool" \in bars[d] => d \in cooling
        /\ "gone" \in bars[d] => d \notin known
        /\ \A id \in Creds : id \in bars[d] => id \notin creds[d] \ off[d]

\* A controller past its checks, and not seen by a kick since, has nothing
\* against it that these checks read.
ArrivingClean ==
    \A c \in Conns :
        who[c].kind = "client" /\ c \notin Excused =>
            /\ pc[c] = "challenged" =>
                 {"ban", "cool"} \cap bars[who[c].dev] = {}
            /\ pc[c] = "verified" =>
                 {"ban", "cool", "gone", who[c].id} \cap bars[who[c].dev] = {}

PermitInv == BarsTrue /\ ArrivingClean /\ ControllerPermitted

\* z has told both sides of the pairing with p, or still will.
Leads(z, p) ==
    /\ \/ p \in met[z]
       \/ pc[z] = "evict" /\ peerOnline[z]
       \/ pc[z] = "upself"
    /\ \/ z \in met[p]
       \/ pc[z] = "evict" /\ peerOnline[z]
       \/ pc[z] \in {"upself", "uppeer"}

PairInv ==
    \A d \in Devices, a, c \in Conns :
        slot["agent"][d] = a /\ slot["client"][d] = c =>
            Leads(a, c) \/ Leads(c, a)

-----------------------------------------------------------------------------
(* The records and sets the variables hold.                                *)

LEMMA BarsAdd ==
  /\ {"ban", "cool", "gone"} \subseteq Bars
  /\ Creds \subseteq Bars
  /\ \A S \in SUBSET Bars, b \in Bars : S \cup {b} \in SUBSET Bars
  BY DEF Bars

LEMMA WhoRecords ==
  /\ Nobody \in Whos
  /\ \A k \in Kinds \cup {"none"}, d \in Devices, id \in Creds \cup {None} :
        [kind |-> k, dev |-> d, id |-> id] \in Whos
  /\ \A w \in Whos, i \in Creds \cup {None} :
        /\ [w EXCEPT !.id = i] \in Whos
        /\ [w EXCEPT !.id = i].kind = w.kind
        /\ [w EXCEPT !.id = i].dev = w.dev
        /\ [w EXCEPT !.id = i].id = i
  BY DEF Whos, Nobody

LEMMA StepNames ==
  {"none", "cool", "kick", "erase", "thaw", "ban.kick", "ban.presence",
   "ban.notify", "unban.notify", "off.kick", "off.presence"} \subseteq Steps
  BY DEF Steps

\* A handler moves on to its next step, ends, or begins.
LEMMA ThenTyped ==
  ASSUME task \in [Admins -> Tasks], NEW x \in Admins, NEW o \in Steps,
         Then(x, o)
  PROVE  /\ task' \in [Admins -> Tasks]
         /\ task'[x].op = o /\ task'[x].dev = task[x].dev
         /\ task'[x].id = task[x].id
         /\ \A y \in Admins : y # x => task'[y] = task[y]
  BY DEF Tasks, Then

LEMMA DoneTyped ==
  ASSUME task \in [Admins -> Tasks], NEW x \in Admins, Done(x)
  PROVE  /\ task' \in [Admins -> Tasks]
         /\ task'[x].op = "none" /\ task'[x].dev = None
         /\ \A y \in Admins : y # x => task'[y] = task[y]
  BY DEF Tasks, Done, Quiet, Steps

LEMMA BeginTyped ==
  ASSUME task \in [Admins -> Tasks], NEW x \in Admins, NEW o \in Steps,
         NEW d \in Devices, NEW id \in Creds \cup {None}, Begin(x, o, d, id)
  PROVE  /\ task' \in [Admins -> Tasks]
         /\ task'[x].op = o /\ task'[x].dev = d /\ task'[x].id = id
         /\ \A y \in Admins : y # x => task'[y] = task[y]
  BY DEF Tasks, Begin

\* Cutting off a credential, and shutting controllers out of a device.
LEMMA CutTyped ==
  ASSUME TypeOK, NEW d \in Devices, NEW id \in Creds, CutClient(d, id)
  PROVE  /\ open' \in [Conns -> BOOLEAN]
         /\ bars' \in [Devices -> SUBSET Bars]
         /\ slipped' \in SUBSET Conns /\ spared' \in SUBSET Conns
  BY BarsAdd DEF CutClient, Closed, Arriving, history, TypeOK

LEMMA ShutTyped ==
  ASSUME TypeOK, NEW why \in Bars, NEW d \in Devices, NEW where,
         ShutOut(why, d, where) \/ UNCHANGED history
  PROVE  /\ bars' \in [Devices -> SUBSET Bars]
         /\ slipped' \in SUBSET Conns /\ spared' \in SUBSET Conns
<1>1. CASE ShutOut(why, d, where)
  BY <1>1, BarsAdd DEF ShutOut, Arriving, TypeOK
<1>2. CASE UNCHANGED history
  BY <1>2 DEF history, TypeOK
<1> QED BY <1>1, <1>2

\* A decision without a kick.
LEMMA DecidedTyped ==
  ASSUME TypeOK, NEW why \in Bars, NEW d \in Devices, NEW cs \in SUBSET Conns,
         Decided(why, d, cs) \/ UNCHANGED history
  PROVE  /\ bars' \in [Devices -> SUBSET Bars]
         /\ slipped' \in SUBSET Conns /\ spared' \in SUBSET Conns
<1>1. CASE Decided(why, d, cs)
  BY <1>1, BarsAdd DEF Decided, TypeOK
<1>2. CASE UNCHANGED history
  BY <1>2 DEF history, TypeOK
<1> QED BY <1>1, <1>2

LEMMA CheckedConns ==
  \A d : /\ BanChecked(d) \in SUBSET Conns
         /\ CredChecked(d) \in SUBSET Conns
         /\ \A id : {c \in CredChecked(d) : who[c].id = id} \in SUBSET Conns
  BY DEF BanChecked, CredChecked, Arriving

LEMMA NoticeTyped ==
  ASSUME TypeOK, NEW d, NEW what \in {"enabled", "disabled"}, Notify(d, what)
  PROVE  /\ told' \in [Conns -> {"none", "enabled", "disabled"}]
         /\ slipped' \in SUBSET Conns
<1>1. told' \in [Conns -> {"none", "enabled", "disabled"}]
  BY DEF Notify, TypeOK
<1>2. slipped' \in SUBSET Conns
  BY DEF Notify, Arriving, Holder, TypeOK
<1> QED BY <1>1, <1>2

-----------------------------------------------------------------------------
(* Type correctness.  TypeOK is not inductive by itself: the store is      *)
(* indexed with what a goroutine or a handler remembers, and Placed says   *)
(* that it remembers something by then.                                    *)

Typed == TypeOK /\ Placed

LEMMA TypedInit == Init => Typed
  BY TunnelConstants
  DEF Init, Typed, Placed, TypeOK, PCs, Nobody, Quiet, Kinds, Steps, Whos,
      Tasks

\* What a goroutine does by itself keeps every variable in its type.
LEMMA TypedGoroutine ==
  ASSUME Typed, NEW c \in Conns, Goroutine(c)
  PROVE  Typed'
<1> USE DEF Typed, Placed, TypeOK, PCs, Handshaking, InMap, Announcing,
            Serving, Kinds, store, local, notices, history, Goto
<1>1. ASSUME NEW saved \in BOOLEAN, RegisterCommit(c, saved) PROVE Typed'
  BY <1>1, WhoRecords DEF RegisterCommit, Finish
<1>2. CASE HandshakeFails(c)
  BY <1>2, WhoRecords DEF HandshakeFails, Finish
<1>3. CASE Swap(c)
  BY <1>3 DEF Swap
<1>4. CASE Evict(c)
  BY <1>4 DEF Evict, Closed
<1>5. CASE UpSelf(c)
  BY <1>5 DEF UpSelf
<1>6. CASE UpPeer(c)
  BY <1>6 DEF UpPeer
<1>7. CASE RevokeKick(c)
  <2>1. who[c].dev \in Devices /\ who[c].id \in Creds
    BY <1>7 DEF RevokeKick
  <2>2. /\ open' \in [Conns -> BOOLEAN]
        /\ bars' \in [Devices -> SUBSET Bars]
        /\ slipped' \in SUBSET Conns /\ spared' \in SUBSET Conns
    BY <1>7, <2>1, CutTyped DEF RevokeKick
  <2>3. who' \in [Conns -> Whos]
    BY <1>7, WhoRecords DEF RevokeKick
  <2>4. TypeOK'
    BY <1>7, <2>2, <2>3 DEF RevokeKick
  <2>5. Placed'
    BY <1>7, WhoRecords DEF RevokeKick
  <2> QED BY <2>4, <2>5
<1>8. CASE UnregisterKick(c)
  <2>1. who[c].dev \in Devices
    BY <1>8 DEF UnregisterKick
  <2>2. \/ ShutOut("gone", who[c].dev, {"verified"})
        \/ UNCHANGED history
    BY <1>8 DEF UnregisterKick
  <2>3. /\ bars' \in [Devices -> SUBSET Bars]
        /\ slipped' \in SUBSET Conns /\ spared' \in SUBSET Conns
    BY <2>1, <2>2, ShutTyped, BarsAdd
  <2> QED BY <1>8, <2>3 DEF UnregisterKick, Closed
<1>9. CASE ReadFails(c)
  BY <1>9 DEF ReadFails
<1>10. CASE GiveBack(c)
  BY <1>10 DEF GiveBack
<1>11. CASE NotifyDown(c)
  BY <1>11, WhoRecords DEF NotifyDown, Finish
<1> QED BY <1>1, <1>2, <1>3, <1>4, <1>5, <1>6, <1>7, <1>8, <1>9, <1>10,
           <1>11 DEF Goroutine

\* A frame of the far end.
LEMMA TypedFrame ==
  ASSUME Typed, NEW c \in Conns, Frame(c)
  PROVE  Typed'
<1> USE TunnelConstants
    DEF Typed, Placed, TypeOK, PCs, Handshaking, InMap, Announcing,
        Serving, Kinds, store, local, notices, history, Goto
<1>1. ASSUME NEW d \in Devices, RegisterCheck(c, d) PROVE Typed'
  BY <1>1, WhoRecords DEF RegisterCheck
<1>2. ASSUME NEW k \in Kinds, NEW d \in Devices, NEW id \in Creds \cup {None},
             Hello(c, k, d, id)
      PROVE  Typed'
  BY <1>2, WhoRecords DEF Hello
<1>3. CASE Auth(c)
  BY <1>3 DEF Auth
<1>4. CASE KickClient(c)
  BY <1>4 DEF KickClient, Closed
<1>5. ASSUME NEW id \in Creds, ClientAdd(c, id) PROVE Typed'
  BY <1>5 DEF ClientAdd, ServedAgent
<1>6. ASSUME NEW id \in Creds, NEW saved \in BOOLEAN, ClientDel(c, id, saved)
      PROVE  Typed'
  <2>1. CASE saved
    <3>1. who' \in [Conns -> Whos]
      BY <1>6, <2>1, WhoRecords DEF ClientDel
    <3>2. TypeOK'
      BY <1>6, <2>1, <3>1 DEF ClientDel, ServedAgent
    <3>3. Placed'
      BY <1>6, <2>1, WhoRecords DEF ClientDel, ServedAgent
    <3> QED BY <3>2, <3>3
  <2>2. CASE ~saved
    <3>1. /\ bars' \in [Devices -> SUBSET Bars]
          /\ slipped' \in SUBSET Conns /\ spared' \in SUBSET Conns
      <4>1. Decided(id, who[c].dev,
                    {p \in CredChecked(who[c].dev) : who[p].id = id})
        BY <1>6, <2>2 DEF ClientDel
      <4>2. who[c].dev \in Devices
        BY <1>6 DEF ClientDel, ServedAgent
      <4> QED BY <4>1, <4>2, DecidedTyped, CheckedConns, BarsAdd
    <3> QED BY <1>6, <2>2, <3>1 DEF ClientDel, ServedAgent
  <2> QED BY <2>1, <2>2
<1>7. CASE Unregister(c)
  BY <1>7 DEF Unregister, ServedAgent, Deleted
<1> QED BY <1>1, <1>2, <1>3, <1>4, <1>5, <1>6, <1>7 DEF Frame

\* A request in progress.
LEMMA TypedHandler ==
  ASSUME Typed, NEW x \in Admins, Handler(x)
  PROVE  Typed'
<1> USE StepNames, BarsAdd
    DEF Typed, Placed, TypeOK, store, local, notices, history
<1>1. CASE KickCool(x)
  <2>1. task[x].dev \in Devices /\ Then(x, "kick")
    BY <1>1 DEF KickCool
  <2>2. /\ task' \in [Admins -> Tasks]
        /\ task'[x].op = "kick" /\ task'[x].dev = task[x].dev
        /\ \A y \in Admins : y # x => task'[y] = task[y]
    BY <2>1, ThenTyped
  <2> QED BY <1>1, <2>1, <2>2 DEF KickCool
<1>2. CASE KickClose(x)
  <2>1. task[x].dev \in Devices
    BY <1>2 DEF KickClose
  <2>2. ShutOut("cool", task[x].dev, Handshaking) \/ UNCHANGED history
    BY <1>2 DEF KickClose
  <2>3. /\ bars' \in [Devices -> SUBSET Bars]
        /\ slipped' \in SUBSET Conns /\ spared' \in SUBSET Conns
    BY <2>1, <2>2, ShutTyped
  <2> QED BY <1>2, <2>3, DoneTyped DEF KickClose, Closed
<1>3. ASSUME NEW saved \in BOOLEAN, ForgetErase(x, saved) PROVE Typed'
  <2>1. task[x].dev \in Devices
    BY <1>3 DEF ForgetErase
  <2>2. /\ bars' \in [Devices -> SUBSET Bars]
        /\ slipped' \in SUBSET Conns /\ spared' \in SUBSET Conns
    BY <1>3, <2>1, DecidedTyped, CheckedConns DEF ForgetErase
  <2>3. Then(x, "thaw") \/ Done(x)
    BY <1>3 DEF ForgetErase
  <2>4. /\ task' \in [Admins -> Tasks]
        /\ task'[x].op \in {"thaw", "none"}
        /\ task'[x].op = "thaw" => task'[x].dev = task[x].dev
        /\ \A y \in Admins : y # x => task'[y] = task[y]
    BY <2>3, ThenTyped, DoneTyped
  <2>5. TypeOK'
    BY <1>3, <2>1, <2>2, <2>4 DEF ForgetErase, Deleted
  <2>6. Placed'
    BY <1>3, <2>1, <2>4 DEF ForgetErase
  <2> QED BY <2>5, <2>6
<1>4. CASE ForgetThaw(x)
  BY <1>4, DoneTyped DEF ForgetThaw, EndCooldown
<1>5. CASE DisableKick(x)
  <2>1. task[x].dev \in Devices
    BY <1>5 DEF DisableKick
  <2>2. ShutOut("ban", task[x].dev, Handshaking) \/ UNCHANGED history
    BY <1>5 DEF DisableKick
  <2>3. /\ bars' \in [Devices -> SUBSET Bars]
        /\ slipped' \in SUBSET Conns /\ spared' \in SUBSET Conns
    BY <2>1, <2>2, ShutTyped
  <2>4. /\ task' \in [Admins -> Tasks]
        /\ task'[x].op = "ban.presence" /\ task'[x].dev = task[x].dev
        /\ \A y \in Admins : y # x => task'[y] = task[y]
    BY <1>5, ThenTyped DEF DisableKick
  <2>5. TypeOK'
    BY <1>5, <2>1, <2>3, <2>4 DEF DisableKick, Closed
  <2>6. Placed'
    BY <1>5, <2>1, <2>4 DEF DisableKick
  <2> QED BY <2>5, <2>6
<1>6. CASE DisablePresence(x)
  BY <1>6, ThenTyped DEF DisablePresence, Closed, Arriving
<1>7. CASE DisableNotify(x)
  <2>1. /\ told' \in [Conns -> {"none", "enabled", "disabled"}]
        /\ slipped' \in SUBSET Conns
    BY <1>7, NoticeTyped DEF DisableNotify
  <2> QED BY <1>7, <2>1, DoneTyped DEF DisableNotify
<1>8. CASE EnableNotify(x)
  <2>1. /\ told' \in [Conns -> {"none", "enabled", "disabled"}]
        /\ slipped' \in SUBSET Conns
    BY <1>8, NoticeTyped DEF EnableNotify
  <2> QED BY <1>8, <2>1, DoneTyped DEF EnableNotify
<1>9. CASE CredOffKick(x)
  <2>1. task[x].dev \in Devices /\ task[x].id \in Creds
    BY <1>9 DEF CredOffKick
  <2>2. /\ open' \in [Conns -> BOOLEAN]
        /\ bars' \in [Devices -> SUBSET Bars]
        /\ slipped' \in SUBSET Conns /\ spared' \in SUBSET Conns
    BY <1>9, <2>1, CutTyped DEF CredOffKick
  <2> QED BY <1>9, <2>1, <2>2, ThenTyped DEF CredOffKick
<1>10. CASE CredOffPresence(x)
  BY <1>10, DoneTyped DEF CredOffPresence, Closed, Arriving
<1> QED BY <1>1, <1>2, <1>3, <1>4, <1>5, <1>6, <1>7, <1>8, <1>9, <1>10
        DEF Handler

\* A new request.
LEMMA TypedRequest ==
  ASSUME Typed, NEW x \in Admins, Request(x)
  PROVE  Typed'
<1> USE StepNames
    DEF Typed, Placed, TypeOK, store, local, notices, history
<1>1. ASSUME NEW d \in Devices, KickRead(x, d) PROVE Typed'
  <2>1. PICK op \in {"cool", "kick"} : Begin(x, op, d, None)
    BY <1>1 DEF KickRead
  <2>2. /\ task' \in [Admins -> Tasks]
        /\ task'[x].op = op /\ task'[x].dev = d
        /\ \A y \in Admins : y # x => task'[y] = task[y]
    BY <2>1, BeginTyped
  <2> QED BY <1>1, <2>2 DEF KickRead
<1>2. ASSUME NEW d \in Devices, Allow(x, d) PROVE Typed'
  BY <1>2 DEF Allow, EndCooldown
<1>3. ASSUME NEW d \in Devices, ForgetCheck(x, d) PROVE Typed'
  <2>1. PICK op \in {"erase"} : Begin(x, op, d, None)
    BY <1>3 DEF ForgetCheck
  <2>2. /\ task' \in [Admins -> Tasks]
        /\ task'[x].op = op /\ task'[x].dev = d
        /\ \A y \in Admins : y # x => task'[y] = task[y]
    BY <2>1, BeginTyped
  <2> QED BY <1>3, <2>2 DEF ForgetCheck
<1>4. ASSUME NEW d \in Devices, NEW saved \in BOOLEAN, Disable(x, d, saved)
      PROVE  Typed'
  <2>1. banned' \in SUBSET Devices
    BY <1>4 DEF Disable
  <2>2. CASE saved
    <3>1. Begin(x, "ban.kick", d, None)
      BY <1>4, <2>2 DEF Disable
    <3>2. /\ task' \in [Admins -> Tasks]
          /\ task'[x].op = "ban.kick" /\ task'[x].dev = d
          /\ \A y \in Admins : y # x => task'[y] = task[y]
      BY <3>1, BeginTyped
    <3>3. UNCHANGED history
      BY <1>4, <2>2 DEF Disable
    <3>4. UNCHANGED <<known, creds, off, cooling, slot, pc, open, who, local,
                      notices>>
      BY <1>4 DEF Disable
    <3> QED BY <2>1, <3>2, <3>3, <3>4
  <2>3. CASE ~saved
    <3>1. /\ bars' \in [Devices -> SUBSET Bars]
          /\ slipped' \in SUBSET Conns /\ spared' \in SUBSET Conns
      BY <1>4, <2>3, DecidedTyped, CheckedConns, BarsAdd DEF Disable
    <3> QED BY <1>4, <2>1, <2>3, <3>1 DEF Disable
  <2> QED BY <2>2, <2>3
<1>5. ASSUME NEW d \in Devices, NEW saved \in BOOLEAN, Enable(x, d, saved)
      PROVE  Typed'
  <2>1. banned' \in SUBSET Devices /\ bars' \in [Devices -> SUBSET Bars]
    BY <1>5 DEF Enable
  <2>2. CASE saved
    <3>1. Begin(x, "unban.notify", d, None)
      BY <1>5, <2>2 DEF Enable
    <3>2. /\ task' \in [Admins -> Tasks]
          /\ task'[x].op = "unban.notify" /\ task'[x].dev = d
          /\ \A y \in Admins : y # x => task'[y] = task[y]
      BY <3>1, BeginTyped
    <3> QED BY <1>5, <2>1, <3>2 DEF Enable
  <2>3. CASE ~saved
    BY <1>5, <2>1, <2>3 DEF Enable
  <2> QED BY <2>2, <2>3
<1>6. ASSUME NEW d \in Devices, NEW id \in Creds, NEW saved \in BOOLEAN,
             CredOff(x, d, id, saved)
      PROVE  Typed'
  <2>1. off' \in [Devices -> SUBSET Creds]
    BY <1>6 DEF CredOff
  <2>2. CASE saved
    <3>1. Begin(x, "off.kick", d, id)
      BY <1>6, <2>2 DEF CredOff
    <3>2. /\ task' \in [Admins -> Tasks]
          /\ task'[x].op = "off.kick" /\ task'[x].dev = d
          /\ task'[x].id = id
          /\ \A y \in Admins : y # x => task'[y] = task[y]
      BY <3>1, BeginTyped
    <3>3. UNCHANGED history
      BY <1>6, <2>2 DEF CredOff
    <3>4. UNCHANGED <<known, creds, banned, cooling, slot, pc, open, who,
                      local, notices>>
      BY <1>6 DEF CredOff
    <3> QED BY <1>6, <2>1, <3>2, <3>3, <3>4
  <2>3. CASE ~saved
    <3>1. /\ bars' \in [Devices -> SUBSET Bars]
          /\ slipped' \in SUBSET Conns /\ spared' \in SUBSET Conns
      BY <1>6, <2>3, DecidedTyped, CheckedConns, BarsAdd DEF CredOff
    <3> QED BY <1>6, <2>1, <2>3, <3>1 DEF CredOff
  <2> QED BY <2>2, <2>3
<1>7. ASSUME NEW d \in Devices, NEW id \in Creds, CredOn(x, d, id)
      PROVE  Typed'
  BY <1>7 DEF CredOn
<1> QED BY <1>1, <1>2, <1>3, <1>4, <1>5, <1>6, <1>7 DEF Request

LEMMA TypedStep ==
  ASSUME Typed, [Next]_vars
  PROVE  Typed'
<1>1. ASSUME NEW c \in Conns, RemoteCloses(c) PROVE Typed'
  BY <1>1 DEF RemoteCloses, Typed, Placed, TypeOK, store, local, notices,
              history
<1>2. ASSUME NEW d \in Devices, CooldownEnds(d) PROVE Typed'
  BY <1>2 DEF CooldownEnds, EndCooldown, Typed, Placed, TypeOK, store, local,
              notices
<1>3. CASE UNCHANGED vars
  BY <1>3 DEF vars, Typed, Placed, TypeOK
<1> QED BY <1>1, <1>2, <1>3, TypedGoroutine, TypedFrame, TypedHandler,
           TypedRequest DEF Next

\* Every variable keeps its type, in every behaviour of the hub.
THEOREM TypeCorrect == Spec => []TypeOK
<1>1. Typed /\ [Next]_vars => Typed'
  BY TypedStep
<1>2. Typed => TypeOK
  BY DEF Typed
<1> QED BY TypedInit, <1>1, <1>2, PTL DEF Spec

-----------------------------------------------------------------------------
(* One connection per seat.  Only Swap, Evict and GiveBack touch the       *)
(* registry or the duty to close a replaced connection; every other action *)
(* leaves the seats alone, as SeatFrame puts it.                           *)

SeatsAlone ==
    /\ slot' = slot
    /\ old' = old
    /\ \A c \in Conns :
         /\ pc'[c] \in InMap <=> pc[c] \in InMap
         /\ pc[c] = "evict" <=> pc'[c] = "evict"
         /\ pc[c] \in InMap => /\ who'[c].kind = who[c].kind
                               /\ who'[c].dev = who[c].dev
                               /\ open'[c] => open[c]

LEMMA SeatFrame ==
  ASSUME Typed, SeatInv, SeatsAlone
  PROVE  SeatInv'
<1> USE DEF SeatsAlone, SeatInv, Typed, TypeOK
<1>1. NoGhost'
  BY DEF NoGhost
<1>2. Seated'
  BY DEF Seated, Doomed
<1>3. OldHeld'
  BY DEF OldHeld
<1> QED BY <1>1, <1>2, <1>3

\* Requests of the administrator only ever close connections.
LEMMA HandlerCloses ==
  ASSUME Typed, NEW x \in Admins, Handler(x) \/ Request(x)
  PROVE  /\ UNCHANGED <<slot, pc, who, local, met>>
         /\ \A c \in Conns : open'[c] => open[c]
<1> USE DEF Typed, TypeOK, Closed, local, notices
<1>1. CASE Handler(x)
  BY <1>1 DEF Handler, KickCool, KickClose, ForgetErase, ForgetThaw,
     DisableKick, DisablePresence, DisableNotify, EnableNotify, CredOffKick,
     CredOffPresence, CutClient
<1>2. CASE Request(x)
  BY <1>2 DEF Request, KickRead, Allow, ForgetCheck, Disable, Enable, CredOff,
     CredOn
<1> QED BY <1>1, <1>2

LEMMA SeatGoroutine ==
  ASSUME Typed, SeatInv, NEW c \in Conns, Goroutine(c)
  PROVE  SeatInv'
<1> USE DEF Typed, TypeOK, Placed, InMap, Announcing, Serving, PCs,
            Handshaking, Kinds, store, local, notices, history, Goto
<1>1. ASSUME NEW saved \in BOOLEAN, RegisterCommit(c, saved)
      PROVE  SeatsAlone
  BY <1>1 DEF RegisterCommit, Finish, SeatsAlone
<1>2. CASE HandshakeFails(c)
  <2>1. SeatsAlone
    BY <1>2 DEF HandshakeFails, Finish, SeatsAlone
  <2> QED BY <2>1, SeatFrame
<1>3. CASE Swap(c)
  <2>1. /\ who[c].kind \in Kinds /\ who[c].dev \in Devices
        /\ pc[c] \notin InMap
        /\ old[c] = None
    BY <1>3 DEF Swap, SeatInv, OldHeld
  <2>2. NoGhost'
    BY <1>3, <2>1 DEF Swap, SeatInv, NoGhost
  <2>3. Seated'
    <3> SUFFICES ASSUME NEW e \in Conns, pc'[e] \in InMap, open'[e],
                        slot'[who'[e].kind][who'[e].dev] # e
                 PROVE  Doomed(e)'
      BY DEF Seated
    <3>1. e # c
      BY <1>3, <2>1 DEF Swap
    <3>2. slot[who[e].kind][who[e].dev] = e \/ Doomed(e)
      BY <1>3, <3>1 DEF Swap, SeatInv, Seated
    <3>3. CASE slot[who[e].kind][who[e].dev] = e
      <4>1. who[e].kind = who[c].kind /\ who[e].dev = who[c].dev
        BY <1>3, <2>1, <3>1, <3>3 DEF Swap
      <4>2. old'[c] = e
        BY <1>3, <3>3, <4>1 DEF Swap
      <4> QED BY <4>2 DEF Doomed
    <3>4. CASE Doomed(e)
      BY <1>3, <2>1, <3>4, TunnelConstants DEF Swap, Doomed
    <3> QED BY <3>2, <3>3, <3>4
  <2>4. OldHeld'
    BY <1>3 DEF Swap, SeatInv, OldHeld
  <2> QED BY <2>2, <2>3, <2>4 DEF SeatInv
<1>4. CASE Evict(c)
  <2>1. NoGhost'
    BY <1>4 DEF Evict, SeatInv, NoGhost
  <2>2. Seated'
    <3> SUFFICES ASSUME NEW e \in Conns, pc'[e] \in InMap, open'[e],
                        slot'[who'[e].kind][who'[e].dev] # e
                 PROVE  Doomed(e)'
      BY DEF Seated
    <3>1. open[e] /\ e # old[c]
      BY <1>4 DEF Evict, Closed
    <3>2. PICK f \in Conns : old[f] = e
      BY <1>4, <3>1 DEF Evict, SeatInv, Seated, Doomed
    <3>3. f # c /\ old'[f] = e
      BY <1>4, <3>1, <3>2 DEF Evict
    <3> QED BY <3>3 DEF Doomed
  <2>3. OldHeld'
    BY <1>4 DEF Evict, SeatInv, OldHeld
  <2> QED BY <2>1, <2>2, <2>3 DEF SeatInv
<1>5. CASE UpSelf(c)
  <2>1. SeatsAlone
    BY <1>5 DEF UpSelf, SeatsAlone
  <2> QED BY <2>1, SeatFrame
<1>6. CASE UpPeer(c)
  <2>1. SeatsAlone
    BY <1>6 DEF UpPeer, SeatsAlone
  <2> QED BY <2>1, SeatFrame
<1>7. CASE RevokeKick(c)
  <2>1. SeatsAlone
    BY <1>7, WhoRecords DEF RevokeKick, CutClient, Closed, SeatsAlone
  <2> QED BY <2>1, SeatFrame
<1>8. CASE UnregisterKick(c)
  <2>1. SeatsAlone
    BY <1>8 DEF UnregisterKick, Closed, SeatsAlone
  <2> QED BY <2>1, SeatFrame
<1>9. CASE ReadFails(c)
  <2>1. SeatsAlone
    BY <1>9 DEF ReadFails, SeatsAlone
  <2> QED BY <2>1, SeatFrame
<1>10. CASE GiveBack(c)
  <2>1. NoGhost'
    BY <1>10, TunnelConstants DEF GiveBack, SeatInv, NoGhost
  <2>2. Seated'
    BY <1>10 DEF GiveBack, SeatInv, Seated, Doomed
  <2>3. OldHeld'
    BY <1>10 DEF GiveBack, SeatInv, OldHeld
  <2> QED BY <2>1, <2>2, <2>3 DEF SeatInv
<1>11. CASE NotifyDown(c)
  <2>1. SeatsAlone
    BY <1>11 DEF NotifyDown, Finish, SeatsAlone
  <2> QED BY <2>1, SeatFrame
<1> QED BY <1>1, <1>2, <1>3, <1>4, <1>5, <1>6, <1>7, <1>8, <1>9, <1>10,
           <1>11, SeatFrame DEF Goroutine

LEMMA SeatFromFrame ==
  ASSUME Typed, SeatInv, NEW c \in Conns, Frame(c)
  PROVE  SeatsAlone
<1> USE TunnelConstants
    DEF Typed, TypeOK, Placed, InMap, Announcing, Serving, PCs,
        Handshaking, Kinds, store, local, notices, history, Goto, SeatsAlone
<1>1. ASSUME NEW d \in Devices, RegisterCheck(c, d) PROVE SeatsAlone
  BY <1>1 DEF RegisterCheck
<1>2. ASSUME NEW k \in Kinds, NEW d \in Devices, NEW id \in Creds \cup {None},
             Hello(c, k, d, id)
      PROVE  SeatsAlone
  BY <1>2 DEF Hello
<1>3. CASE Auth(c)
  BY <1>3 DEF Auth
<1>4. CASE KickClient(c)
  BY <1>4 DEF KickClient, Closed
<1>5. ASSUME NEW id \in Creds, ClientAdd(c, id) PROVE SeatsAlone
  BY <1>5 DEF ClientAdd
<1>6. ASSUME NEW id \in Creds, NEW saved \in BOOLEAN, ClientDel(c, id, saved)
      PROVE  SeatsAlone
  BY <1>6, WhoRecords DEF ClientDel, ServedAgent
<1>7. CASE Unregister(c)
  BY <1>7 DEF Unregister, ServedAgent
<1> QED BY <1>1, <1>2, <1>3, <1>4, <1>5, <1>6, <1>7 DEF Frame

LEMMA SeatStep ==
  ASSUME Typed, SeatInv, [Next]_vars
  PROVE  SeatInv'
<1>1. ASSUME NEW c \in Conns, Frame(c) PROVE SeatInv'
  BY <1>1, SeatFromFrame, SeatFrame
<1>2. ASSUME NEW c \in Conns, RemoteCloses(c) PROVE SeatInv'
  <2>1. SeatsAlone
    BY <1>2 DEF RemoteCloses, SeatsAlone, Typed, TypeOK, local
  <2> QED BY <2>1, SeatFrame
<1>3. ASSUME NEW x \in Admins, Handler(x) \/ Request(x) PROVE SeatInv'
  <2>1. SeatsAlone
    BY <1>3, HandlerCloses DEF SeatsAlone, local
  <2> QED BY <2>1, SeatFrame
<1>4. ASSUME NEW d \in Devices, CooldownEnds(d) PROVE SeatInv'
  <2>1. SeatsAlone
    BY <1>4 DEF CooldownEnds, SeatsAlone, local
  <2> QED BY <2>1, SeatFrame
<1>5. CASE UNCHANGED vars
  <2>1. SeatsAlone
    BY <1>5 DEF vars, SeatsAlone
  <2> QED BY <2>1, SeatFrame
<1> QED BY <1>1, <1>2, <1>3, <1>4, <1>5, SeatGoroutine DEF Next

LEMMA SeatInit == Init => SeatInv
  BY TunnelConstants
  DEF Init, SeatInv, NoGhost, Seated, OldHeld, InMap, Announcing, Serving

LEMMA Seats == Spec => [](Typed /\ SeatInv)
<1>1. Typed /\ SeatInv /\ [Next]_vars => (Typed /\ SeatInv)'
  BY TypedStep, SeatStep
<1> QED BY TypedInit, SeatInit, <1>1, PTL DEF Spec

\* The registry only shows living connections of the right device and role.
THEOREM NoGhostEver == Spec => []NoGhost
<1>1. SeatInv => NoGhost
  BY DEF SeatInv
<1> QED BY Seats, <1>1, PTL

\* Two open connections never share a seat, except while the goroutine that
\* brought the newer one is closing the older.
THEOREM ExclusiveEver == Spec => []Exclusive
<1>1. Typed /\ SeatInv => Exclusive
  BY DEF SeatInv, Seated, Exclusive
<1> QED BY Seats, <1>1, PTL

-----------------------------------------------------------------------------
(* Who may be connected.  BarsFrame covers the actions that only add to    *)
(* what stands against a device, PermitFrame those that bring nobody       *)
(* closer to the map; the others are taken one by one.                     *)

LEMMA BarsFrame ==
  ASSUME Typed, BarsTrue,
         \A d \in Devices : /\ bars'[d] \subseteq bars[d]
                            /\ d \in banned => d \in banned'
                            /\ d \in cooling => d \in cooling'
                            /\ d \in known' => d \in known
                            /\ creds'[d] \ off'[d] \subseteq creds[d] \ off[d]
  PROVE  BarsTrue'
  BY DEF BarsTrue, Typed, TypeOK

PermitsAlone ==
    /\ \A d \in Devices : bars'[d] \subseteq bars[d]
    /\ \A c \in Conns :
         pc'[c] \in Handshaking /\ c \notin Excused' =>
             /\ pc'[c] = pc[c]
             /\ who'[c] = who[c]
             /\ c \notin Excused
    /\ \A d \in Devices, c \in Conns :
         slot'["client"][d] = c /\ open'[c] /\ c \notin Excused' =>
             /\ slot["client"][d] = c
             /\ open[c]
             /\ c \notin Excused
             /\ who'[c].id = who[c].id

LEMMA PermitFrame ==
  ASSUME Typed, ArrivingClean, ControllerPermitted, PermitsAlone
  PROVE  ArrivingClean' /\ ControllerPermitted'
<1>1. ArrivingClean'
  <2> SUFFICES ASSUME NEW c \in Conns, who'[c].kind = "client",
                      c \notin Excused', pc'[c] \in Handshaking
               PROVE  /\ pc'[c] = "challenged" =>
                           {"ban", "cool"} \cap bars'[who'[c].dev] = {}
                      /\ pc'[c] = "verified" =>
                           {"ban", "cool", "gone", who'[c].id}
                               \cap bars'[who'[c].dev] = {}
    BY DEF ArrivingClean, Handshaking
  <2>1. pc'[c] = pc[c] /\ who'[c] = who[c] /\ c \notin Excused
    BY DEF PermitsAlone
  <2>2. who[c].dev \in Devices
    BY <2>1 DEF Typed, Placed, Handshaking
  <2>3. bars'[who[c].dev] \subseteq bars[who[c].dev]
    BY <2>2 DEF PermitsAlone
  <2> QED BY <2>1, <2>3 DEF ArrivingClean
<1>2. ControllerPermitted'
  BY DEF ControllerPermitted, PermitsAlone
<1> QED BY <1>1, <1>2

\* Shutting controllers out of device e for a reason that holds: whoever is in
\* the map is closed, whoever is past the checks that read it is recorded.
LEMMA ShutFrame ==
  ASSUME Typed, SeatInv, ArrivingClean, ControllerPermitted,
         NEW e \in Devices, NEW why \in {"ban", "cool", "gone"}, NEW where,
         ShutOut(why, e, where),
         "verified" \in where, why # "gone" => "challenged" \in where,
         open' = Closed(Holder("client", e)),
         UNCHANGED <<slot, who>>,
         \A c \in Conns : pc'[c] \in Handshaking => pc'[c] = pc[c]
  PROVE  ArrivingClean' /\ ControllerPermitted'
<1> USE DEF Typed, TypeOK
<1>0. Excused' = Excused \cup Arriving("client", e, where)
  BY DEF ShutOut, Excused
<1>1. ArrivingClean'
  <2> SUFFICES ASSUME NEW c \in Conns, who[c].kind = "client",
                      c \notin Excused', pc'[c] \in Handshaking
               PROVE  /\ pc'[c] = "challenged" =>
                           {"ban", "cool"} \cap bars'[who[c].dev] = {}
                      /\ pc'[c] = "verified" =>
                           {"ban", "cool", "gone", who[c].id}
                               \cap bars'[who[c].dev] = {}
    BY DEF ArrivingClean, Handshaking
  <2>1. pc'[c] = pc[c] /\ c \notin Excused /\ who[c].dev \in Devices
    BY <1>0 DEF Placed, Handshaking
  <2>2. CASE who[c].dev # e
    BY <2>1, <2>2 DEF ShutOut, ArrivingClean
  <2>3. CASE who[c].dev = e
    <3>1. pc[c] \notin where
      BY <1>0, <2>3 DEF Arriving
    <3>2. pc[c] = "challenged" /\ why = "gone"
      BY <2>1, <3>1 DEF Handshaking
    <3>3. bars'[e] = bars[e] \cup {"gone"}
      BY <3>2 DEF ShutOut
    <3> QED BY <2>1, <2>3, <3>2, <3>3 DEF ArrivingClean
  <2> QED BY <2>2, <2>3
<1>2. ControllerPermitted'
  <2> SUFFICES ASSUME NEW d \in Devices, NEW c \in Conns,
                      slot["client"][d] = c, open'[c], c \notin Excused'
               PROVE  bars'[d] \cap {"ban", "cool", "gone", who[c].id} = {}
    BY DEF ControllerPermitted
  <2>1. d # e /\ open[c] /\ c \notin Excused
    BY <1>0 DEF Closed, Holder
  <2> QED BY <2>1 DEF ShutOut, ControllerPermitted
<1> QED BY <1>1, <1>2

\* Cutting credential i of device e off.
LEMMA CutFrame ==
  ASSUME Typed, SeatInv, ArrivingClean, ControllerPermitted,
         NEW e \in Devices, NEW i \in Creds, CutClient(e, i),
         UNCHANGED slot,
         \A c \in Conns :
            /\ pc'[c] \in Handshaking => pc'[c] = pc[c]
            /\ who'[c].kind = who[c].kind /\ who'[c].dev = who[c].dev
            /\ who[c].kind = "client" => who'[c].id = who[c].id
  PROVE  ArrivingClean' /\ ControllerPermitted'
<1> USE DEF Typed, TypeOK
<1>0. \/ bars' = bars /\ Excused' = Excused
      \/ /\ bars' = [bars EXCEPT ![e] = @ \cup {i}]
         /\ \A c \in Conns :
               c \in Excused' <=>
                  \/ c \in Excused
                  \/ /\ pc[c] = "verified" /\ who[c].kind = "client"
                     /\ who[c].dev = e /\ who[c].id = i
  BY DEF CutClient, Arriving, history, Excused
<1>1. ArrivingClean'
  <2> SUFFICES ASSUME NEW c \in Conns, who[c].kind = "client",
                      c \notin Excused', pc'[c] \in Handshaking
               PROVE  /\ pc'[c] = "challenged" =>
                           {"ban", "cool"} \cap bars'[who[c].dev] = {}
                      /\ pc'[c] = "verified" =>
                           {"ban", "cool", "gone", who[c].id}
                               \cap bars'[who[c].dev] = {}
    BY DEF ArrivingClean, Handshaking
  <2>1. pc'[c] = pc[c] /\ c \notin Excused /\ who[c].dev \in Devices
    BY <1>0 DEF Placed, Handshaking
  <2>2. bars'[who[c].dev] \subseteq bars[who[c].dev] \cup {i}
    BY <1>0, <2>1
  <2>3. i \notin {"ban", "cool", "gone"}
    BY TunnelConstants
  <2>4. pc[c] = "verified" /\ who[c].id = i =>
          bars'[who[c].dev] \subseteq bars[who[c].dev]
    BY <1>0, <2>1
  <2> QED BY <2>1, <2>2, <2>3, <2>4 DEF ArrivingClean
<1>2. ControllerPermitted'
  <2> SUFFICES ASSUME NEW d \in Devices, NEW c \in Conns,
                      slot["client"][d] = c, open'[c], c \notin Excused'
               PROVE  bars'[d] \cap {"ban", "cool", "gone", who'[c].id} = {}
    BY DEF ControllerPermitted
  <2>1. who[c].kind = "client" /\ who'[c].id = who[c].id
    BY TunnelConstants DEF SeatInv, NoGhost, Kinds
  <2>2. open[c] /\ c \notin Excused /\ (d = e => who[c].id # i)
    BY <1>0 DEF CutClient, Closed, Holder, HolderWith
  <2>3. bars'[d] \subseteq bars[d] \cup {i} /\ (d # e => bars'[d] = bars[d])
    BY <1>0
  <2>4. i \notin {"ban", "cool", "gone"}
    BY TunnelConstants
  <2> QED BY <2>1, <2>2, <2>3, <2>4 DEF ControllerPermitted
<1> QED BY <1>1, <1>2

\* A decision about device e that kicks nobody: whoever it concerns and has
\* passed the check that reads it is recorded.
LEMMA DecidedFrame ==
  ASSUME Typed, SeatInv, ArrivingClean, ControllerPermitted,
         NEW e \in Devices, NEW why \in {"ban", "gone"} \cup Creds, NEW cs,
         Decided(why, e, cs),
         \A c \in Conns :
            /\ who[c].kind = "client" /\ who[c].dev = e
            /\ \/ pc[c] \in {"verified"} \cup InMap
               \/ pc[c] = "challenged" /\ why = "ban"
            /\ why \in Creds => who[c].id = why
            => c \in cs,
         UNCHANGED <<slot, open>>,
         \A c \in Conns :
            /\ pc'[c] \in Handshaking => pc'[c] = pc[c]
            /\ who'[c].kind = who[c].kind /\ who'[c].dev = who[c].dev
            /\ who[c].kind = "client" => who'[c].id = who[c].id
  PROVE  ArrivingClean' /\ ControllerPermitted'
<1> USE DEF Typed, TypeOK, Excused
<1>0. /\ bars' = [bars EXCEPT ![e] = @ \cup {why}]
      /\ Excused' = Excused \cup cs
  BY DEF Decided
<1>1. why \in Creds => why \notin {"ban", "cool", "gone"}
  BY TunnelConstants
<1>2. ArrivingClean'
  <2> SUFFICES ASSUME NEW c \in Conns, who[c].kind = "client",
                      c \notin Excused', pc'[c] \in Handshaking
               PROVE  /\ pc'[c] = "challenged" =>
                           {"ban", "cool"} \cap bars'[who[c].dev] = {}
                      /\ pc'[c] = "verified" =>
                           {"ban", "cool", "gone", who[c].id}
                               \cap bars'[who[c].dev] = {}
    BY DEF ArrivingClean, Handshaking
  <2>1. pc'[c] = pc[c] /\ c \notin Excused /\ who[c].dev \in Devices
    BY <1>0 DEF Placed, Handshaking
  <2>2. CASE who[c].dev # e
    BY <1>0, <2>1, <2>2 DEF ArrivingClean
  <2>3. CASE who[c].dev = e /\ pc[c] = "challenged"
    BY <1>0, <1>1, <2>1, <2>3 DEF ArrivingClean
  <2>4. CASE who[c].dev = e /\ pc[c] = "verified"
    <3>1. why \in Creds /\ who[c].id # why
      BY <1>0, <2>1, <2>4
    <3> QED BY <1>0, <1>1, <2>1, <2>4, <3>1 DEF ArrivingClean
  <2> QED BY <2>1, <2>2, <2>3, <2>4 DEF Handshaking
<1>3. ControllerPermitted'
  <2> SUFFICES ASSUME NEW d \in Devices, NEW c \in Conns,
                      slot["client"][d] = c, open[c], c \notin Excused'
               PROVE  bars'[d] \cap {"ban", "cool", "gone", who'[c].id} = {}
    BY DEF ControllerPermitted
  <2>1. /\ who[c].kind = "client" /\ who'[c].id = who[c].id
        /\ who[c].dev = d /\ pc[c] \in InMap
    BY TunnelConstants DEF SeatInv, NoGhost, Kinds
  <2>2. c \notin Excused /\ (d = e => why \in Creds /\ who[c].id # why)
    BY <1>0, <2>1
  <2>3. bars'[d] \subseteq bars[d] \cup {why} /\ (d # e => bars'[d] = bars[d])
    BY <1>0
  <2> QED BY <1>1, <2>1, <2>2, <2>3 DEF ControllerPermitted
<1> QED BY <1>2, <1>3

\* A decision that holds is recorded as one that holds.
LEMMA DecidedBars ==
  ASSUME Typed, BarsTrue, NEW e \in Devices,
         NEW why \in {"ban", "gone"} \cup Creds, NEW cs, Decided(why, e, cs),
         UNCHANGED cooling,
         \A d \in Devices : /\ d \in banned => d \in banned'
                            /\ d \in known' => d \in known
                            /\ creds'[d] \ off'[d] \subseteq creds[d] \ off[d],
         why = "ban" => e \in banned',
         why = "gone" => e \notin known',
         why \in Creds => why \notin creds'[e] \ off'[e]
  PROVE  BarsTrue'
<1>1. why \in Creds => why \notin {"ban", "cool", "gone"}
  BY TunnelConstants
<1>2. \A id \in Creds : id \notin {"ban", "cool", "gone"}
  BY TunnelConstants
<1>3. /\ bars'[e] = bars[e] \cup {why}
      /\ \A d \in Devices : d # e => bars'[d] = bars[d]
  BY DEF Decided, Typed, TypeOK
<1> QED BY <1>1, <1>2, <1>3 DEF BarsTrue

\* A credential is only recorded as cut off when it is.
LEMMA CutBars ==
  ASSUME Typed, BarsTrue, NEW e \in Devices, NEW i \in Creds, CutClient(e, i),
         UNCHANGED <<store, cooling>>
  PROVE  BarsTrue'
<1>1. CASE bars' = bars
  BY <1>1 DEF BarsTrue, store
<1>2. CASE /\ i \notin creds[e] \/ i \in off[e]
           /\ bars' = [bars EXCEPT ![e] = @ \cup {i}]
  BY <1>2, TunnelConstants DEF BarsTrue, store, Typed, TypeOK
<1> QED BY <1>1, <1>2 DEF CutClient, history, Excused

\* A goroutine by itself keeps the permissions.
LEMMA PermitGoroutine ==
  ASSUME Typed, SeatInv, PermitInv, NEW c \in Conns, Goroutine(c)
  PROVE  PermitInv'
<1> USE DEF PermitInv, Typed, TypeOK, Placed, store, local, notices, history, Excused,
            Goto
<1>1. ASSUME NEW saved \in BOOLEAN, RegisterCommit(c, saved)
      PROVE  PermitInv'
  <2>1. BarsTrue'
    BY <1>1 DEF RegisterCommit, BarsTrue
  <2>2. PermitsAlone
    BY <1>1 DEF RegisterCommit, Finish, PermitsAlone, Handshaking, SeatInv,
                NoGhost, InMap, Announcing, Serving
  <2> QED BY <2>1, <2>2, PermitFrame
<1>2. CASE HandshakeFails(c) \/ NotifyDown(c)
  <2>1. BarsTrue'
    BY <1>2, BarsFrame DEF HandshakeFails, NotifyDown
  <2>2. PermitsAlone
    BY <1>2 DEF HandshakeFails, NotifyDown, Finish, PermitsAlone, Handshaking,
                SeatInv, NoGhost, InMap, Announcing, Serving
  <2> QED BY <2>1, <2>2, PermitFrame
<1>3. CASE Swap(c)
  <2>1. BarsTrue'
    BY <1>3, BarsFrame DEF Swap
  <2>2. ArrivingClean'
    BY <1>3 DEF Swap, ArrivingClean
  <2>3. ControllerPermitted'
    <3> SUFFICES ASSUME NEW d \in Devices, NEW e \in Conns,
                        slot'["client"][d] = e, open[e], e \notin Excused
                 PROVE  bars[d] \cap {"ban", "cool", "gone", who[e].id} = {}
      BY <1>3 DEF Swap, ControllerPermitted
    <3>1. CASE slot["client"][d] = e
      BY <3>1 DEF ControllerPermitted
    <3>2. CASE slot["client"][d] # e
      <4>1. e = c /\ who[c].kind = "client" /\ who[c].dev = d
        BY <1>3, <3>2 DEF Swap, Kinds
      <4> QED BY <1>3, <4>1 DEF Swap, ArrivingClean
    <3> QED BY <3>1, <3>2
  <2> QED BY <2>1, <2>2, <2>3
<1>4. CASE Evict(c) \/ UpSelf(c) \/ UpPeer(c) \/ ReadFails(c)
  <2>1. BarsTrue'
    BY <1>4, BarsFrame DEF Evict, UpSelf, UpPeer, ReadFails
  <2>2. PermitsAlone
    BY <1>4 DEF Evict, UpSelf, UpPeer, ReadFails, PermitsAlone, Handshaking,
                Closed
  <2> QED BY <2>1, <2>2, PermitFrame
<1>5. CASE RevokeKick(c)
  <2>1. who[c].dev \in Devices /\ who[c].id \in Creds /\ who[c].kind = "agent"
    BY <1>5 DEF RevokeKick
  <2>2. BarsTrue'
    BY <1>5, <2>1, CutBars DEF RevokeKick
  <2>3. ArrivingClean' /\ ControllerPermitted'
    <3>1. CutClient(who[c].dev, who[c].id) /\ UNCHANGED slot
      BY <1>5 DEF RevokeKick
    <3>2. \A e \in Conns :
            /\ pc'[e] \in Handshaking => pc'[e] = pc[e]
            /\ who'[e].kind = who[e].kind /\ who'[e].dev = who[e].dev
            /\ who[e].kind = "client" => who'[e].id = who[e].id
      BY <1>5, <2>1, WhoRecords DEF RevokeKick, Handshaking
    <3> QED BY <2>1, <3>1, <3>2, CutFrame
  <2> QED BY <2>2, <2>3
<1>6. CASE UnregisterKick(c)
  <2>1. who[c].dev \in Devices
    BY <1>6 DEF UnregisterKick
  <2>2. CASE who[c].dev \notin known
    <3>1. ShutOut("gone", who[c].dev, {"verified"})
      BY <1>6, <2>2 DEF UnregisterKick
    <3>2. BarsTrue'
      BY <1>6, <2>1, <2>2, <3>1, TunnelConstants
      DEF UnregisterKick, ShutOut, BarsTrue
    <3>3. ArrivingClean' /\ ControllerPermitted'
      BY <1>6, <2>1, <3>1, ShutFrame DEF UnregisterKick, Handshaking
    <3> QED BY <3>2, <3>3
  <2>3. CASE who[c].dev \in known
    <3>1. BarsTrue'
      BY <1>6, <2>3, BarsFrame DEF UnregisterKick
    <3>2. PermitsAlone
      BY <1>6, <2>3 DEF UnregisterKick, PermitsAlone, Handshaking, Closed
    <3> QED BY <3>1, <3>2, PermitFrame
  <2> QED BY <2>2, <2>3
<1>7. CASE GiveBack(c)
  <2>1. BarsTrue'
    BY <1>7, BarsFrame DEF GiveBack
  <2>2. PermitsAlone
    BY <1>7, TunnelConstants DEF GiveBack, PermitsAlone, Handshaking, Kinds
  <2> QED BY <2>1, <2>2, PermitFrame
<1> QED BY <1>1, <1>2, <1>3, <1>4, <1>5, <1>6, <1>7 DEF Goroutine

\* A frame of the far end keeps the permissions.
LEMMA PermitFromFrame ==
  ASSUME Typed, SeatInv, PermitInv, NEW c \in Conns, Frame(c)
  PROVE  PermitInv'
<1> USE DEF PermitInv, Typed, TypeOK, Placed, store, local, notices, history, Excused,
            Goto
<1>1. ASSUME NEW d \in Devices, RegisterCheck(c, d) PROVE PermitInv'
  <2>1. BarsTrue'
    BY <1>1, BarsFrame DEF RegisterCheck
  <2>2. PermitsAlone
    <3>1. \A e \in Devices : slot["client"][e] # c
      BY <1>1, TunnelConstants DEF RegisterCheck, SeatInv, NoGhost, InMap,
                                   Announcing, Serving, Kinds
    <3> QED BY <1>1, <3>1 DEF RegisterCheck, PermitsAlone, Handshaking
  <2> QED BY <2>1, <2>2, PermitFrame
<1>2. ASSUME NEW k \in Kinds, NEW d \in Devices, NEW id \in Creds \cup {None},
             Hello(c, k, d, id)
      PROVE  PermitInv'
  <2>1. BarsTrue'
    BY <1>2, BarsFrame DEF Hello
  <2>2. ArrivingClean'
    BY <1>2 DEF Hello, ArrivingClean, BarsTrue
  <2>3. ControllerPermitted'
    <3>1. \A e \in Devices : slot["client"][e] # c
      BY <1>2, TunnelConstants DEF Hello, SeatInv, NoGhost, InMap, Announcing,
                                   Serving, Kinds
    <3> QED BY <1>2, <3>1 DEF Hello, ControllerPermitted
  <2> QED BY <2>1, <2>2, <2>3
<1>3. CASE Auth(c)
  <2>1. BarsTrue'
    BY <1>3, BarsFrame DEF Auth
  <2>2. ArrivingClean'
    BY <1>3 DEF Auth, ArrivingClean, BarsTrue
  <2>3. ControllerPermitted'
    BY <1>3 DEF Auth, ControllerPermitted
  <2> QED BY <2>1, <2>2, <2>3
<1>4. CASE KickClient(c)
  <2>1. BarsTrue'
    BY <1>4, BarsFrame DEF KickClient
  <2>2. PermitsAlone
    BY <1>4 DEF KickClient, PermitsAlone, Closed
  <2> QED BY <2>1, <2>2, PermitFrame
<1>5. ASSUME NEW id \in Creds, ClientAdd(c, id) PROVE PermitInv'
  <2>1. BarsTrue'
    BY <1>5, TunnelConstants DEF ClientAdd, ServedAgent, BarsTrue
  <2>2. PermitsAlone
    BY <1>5 DEF ClientAdd, ServedAgent, PermitsAlone
  <2> QED BY <2>1, <2>2, PermitFrame
<1>6. ASSUME NEW id \in Creds, NEW saved \in BOOLEAN, ClientDel(c, id, saved)
      PROVE  PermitInv'
  <2>1. who[c].dev \in Devices /\ who[c].kind = "agent"
    BY <1>6 DEF ClientDel, ServedAgent
  <2>2. \A e \in Conns : e # c => who'[e] = who[e] /\ pc'[e] = pc[e]
    BY <1>6 DEF ClientDel
  <2>3. pc'[c] \notin Handshaking
    BY <1>6 DEF ClientDel, Handshaking
  <2>4. \A d \in Devices : slot["client"][d] # c
    BY <1>6, TunnelConstants DEF ClientDel, ServedAgent, SeatInv, NoGhost,
                                 Kinds
  <2>5. \A d \in Devices : creds'[d] \ off'[d] \subseteq creds[d] \ off[d]
    BY <1>6 DEF ClientDel
  <2>6. CASE saved
    <3>1. BarsTrue'
      BY <1>6, <2>5, <2>6, BarsFrame DEF ClientDel
    <3>2. PermitsAlone
      BY <1>6, <2>2, <2>3, <2>4, <2>6 DEF ClientDel, PermitsAlone
    <3> QED BY <3>1, <3>2, PermitFrame
  <2>7. CASE ~saved
    <3>1. Decided(id, who[c].dev,
                  {p \in CredChecked(who[c].dev) : who[p].id = id})
      BY <1>6, <2>7 DEF ClientDel
    <3>2. BarsTrue'
      <4>1. id \notin creds'[who[c].dev] \ off'[who[c].dev] /\ id \in Creds
        BY <1>6, <2>1 DEF ClientDel
      <4>2. UNCHANGED <<known, banned, cooling>> /\ id \notin {"ban", "gone"}
        BY <1>6, TunnelConstants DEF ClientDel
      <4> QED BY <2>1, <2>5, <3>1, <4>1, <4>2, DecidedBars
    <3>3. \A p \in Conns :
            /\ who[p].kind = "client" /\ who[p].dev = who[c].dev
            /\ \/ pc[p] \in {"verified"} \cup InMap
               \/ pc[p] = "challenged" /\ id = "ban"
            /\ id \in Creds => who[p].id = id
            => p \in {q \in CredChecked(who[c].dev) : who[q].id = id}
      BY TunnelConstants DEF CredChecked, Arriving
    <3>4. UNCHANGED <<slot, open, who>>
      BY <1>6, <2>7 DEF ClientDel
    <3>5. id \in Creds /\ id # "ban" /\ id # "gone"
      BY TunnelConstants
    <3>6. \A p \in Conns : pc'[p] \in Handshaking => pc'[p] = pc[p]
      BY <2>2, <2>3
    <3>7. ArrivingClean' /\ ControllerPermitted'
      <4> DEFINE cs == {q \in CredChecked(who[c].dev) : who[q].id = id}
      <4>1. Typed /\ SeatInv /\ ArrivingClean /\ ControllerPermitted
        BY DEF PermitInv
      <4>2. Decided(id, who[c].dev, cs)
        BY <3>1
      <4>3. \A p \in Conns :
              /\ who[p].kind = "client" /\ who[p].dev = who[c].dev
              /\ \/ pc[p] \in {"verified"} \cup InMap
                 \/ pc[p] = "challenged" /\ id = "ban"
              /\ id \in Creds => who[p].id = id
              => p \in cs
        BY <3>3
      <4>4. \A p \in Conns :
              /\ pc'[p] \in Handshaking => pc'[p] = pc[p]
              /\ who'[p].kind = who[p].kind /\ who'[p].dev = who[p].dev
              /\ who[p].kind = "client" => who'[p].id = who[p].id
        BY <3>4, <3>6
      <4>5. id \in {"ban", "gone"} \cup Creds /\ UNCHANGED <<slot, open>>
        BY <3>4
      <4> HIDE DEF cs, PermitInv, Typed, TypeOK, Placed
      <4> QED BY <2>1, <4>1, <4>2, <4>3, <4>4, <4>5, DecidedFrame
    <3> QED BY <3>2, <3>7
  <2> QED BY <2>6, <2>7
<1>7. CASE Unregister(c)
  <2>1. BarsTrue'
    BY <1>7, BarsFrame DEF Unregister, ServedAgent, Deleted
  <2>2. PermitsAlone
    BY <1>7 DEF Unregister, PermitsAlone, Handshaking
  <2> QED BY <2>1, <2>2, PermitFrame
<1> QED BY <1>1, <1>2, <1>3, <1>4, <1>5, <1>6, <1>7 DEF Frame

\* A handler that shuts out for a reason that holds records a true reason.
LEMMA ShutBars ==
  ASSUME Typed, BarsTrue, NEW e \in Devices,
         NEW why \in {"ban", "cool", "gone"}, NEW where,
         ShutOut(why, e, where), UNCHANGED <<store, cooling>>,
         why = "ban" => e \in banned,
         why = "cool" => e \in cooling,
         why = "gone" => e \notin known
  PROVE  BarsTrue'
  BY TunnelConstants DEF ShutOut, BarsTrue, store, Typed, TypeOK

\* The end of a cooldown, and its record.
LEMMA CooldownPermit ==
  ASSUME Typed, PermitInv, NEW d \in Devices, EndCooldown(d),
         UNCHANGED <<store, slot, pc, open, who, Excused>>
  PROVE  PermitInv'
<1>1. BarsTrue'
  BY TunnelConstants DEF EndCooldown, PermitInv, BarsTrue, store, Typed, TypeOK
<1>2. PermitsAlone
  BY DEF EndCooldown, PermitsAlone, Typed, TypeOK
<1> QED BY <1>1, <1>2, PermitFrame DEF PermitInv

\* A request in progress keeps the permissions.
LEMMA PermitHandler ==
  ASSUME Typed, SeatInv, PermitInv, NEW x \in Admins, Handler(x)
  PROVE  PermitInv'
<1> USE DEF PermitInv, Typed, TypeOK, Placed, store, local, notices, history, Excused
<1>1. CASE KickCool(x)
  <2>1. BarsTrue'
    BY <1>1, BarsFrame DEF KickCool
  <2>2. PermitsAlone
    BY <1>1 DEF KickCool, PermitsAlone
  <2> QED BY <2>1, <2>2, PermitFrame
<1>2. CASE KickClose(x)
  <2>1. task[x].dev \in Devices
    BY <1>2 DEF KickClose
  <2>2. CASE task[x].dev \in cooling
    <3>1. ShutOut("cool", task[x].dev, Handshaking)
      BY <1>2, <2>2 DEF KickClose
    <3>2. BarsTrue'
      BY <1>2, <2>1, <2>2, <3>1, ShutBars DEF KickClose
    <3>3. ArrivingClean' /\ ControllerPermitted'
      BY <1>2, <2>1, <3>1, ShutFrame DEF KickClose, Handshaking
    <3> QED BY <3>2, <3>3
  <2>3. CASE task[x].dev \notin cooling
    <3>1. BarsTrue'
      BY <1>2, <2>3, BarsFrame DEF KickClose
    <3>2. PermitsAlone
      BY <1>2, <2>3 DEF KickClose, PermitsAlone, Closed
    <3> QED BY <3>1, <3>2, PermitFrame
  <2> QED BY <2>2, <2>3
<1>3. ASSUME NEW saved \in BOOLEAN, ForgetErase(x, saved) PROVE PermitInv'
  <2>1. task[x].dev \in Devices
    BY <1>3 DEF ForgetErase
  <2>2. /\ \A d \in Devices :
              /\ d \in banned => d \in banned'
              /\ d \in cooling => d \in cooling'
              /\ d \in known' => d \in known
              /\ creds'[d] \ off'[d] \subseteq creds[d] \ off[d]
        /\ task[x].dev \notin known'
    BY <1>3, <2>1 DEF ForgetErase, Deleted
  <2>3. UNCHANGED <<banned, cooling, slot, pc, open, who>>
    BY <1>3 DEF ForgetErase
  <2>4. CASE task[x].dev \in known
    <3>1. Decided("gone", task[x].dev, CredChecked(task[x].dev))
      BY <1>3, <2>4 DEF ForgetErase
    <3>2. "gone" \notin Creds
      BY TunnelConstants
    <3>3. BarsTrue'
      <4> HIDE DEF PermitInv, Typed, TypeOK, Placed
      <4> QED BY <2>1, <2>2, <2>3, <3>1, <3>2, DecidedBars DEF PermitInv
    <3>4. \A p \in Conns :
            /\ who[p].kind = "client" /\ who[p].dev = task[x].dev
            /\ pc[p] \in {"verified"} \cup InMap
            => p \in CredChecked(task[x].dev)
      BY DEF CredChecked, Arriving
    <3>5. ArrivingClean' /\ ControllerPermitted'
      BY <2>1, <2>3, <3>1, <3>2, <3>4, DecidedFrame
    <3> QED BY <3>3, <3>5
  <2>5. CASE task[x].dev \notin known
    <3>1. UNCHANGED history
      BY <1>3, <2>5 DEF ForgetErase
    <3>2. \A d \in Devices : bars'[d] \subseteq bars[d]
      BY <3>1
    <3>3. BarsTrue'
      <4> HIDE DEF PermitInv, Typed, TypeOK, Placed
      <4> QED BY <2>2, <3>2, BarsFrame DEF PermitInv
    <3>4. PermitsAlone
      BY <2>3, <3>1 DEF PermitsAlone
    <3> QED BY <3>3, <3>4, PermitFrame
  <2> QED BY <2>4, <2>5
<1>4. CASE ForgetThaw(x)
  BY <1>4, CooldownPermit DEF ForgetThaw
<1>5. CASE DisableKick(x)
  <2>1. task[x].dev \in Devices
    BY <1>5 DEF DisableKick
  <2>2. CASE task[x].dev \in banned
    <3>1. ShutOut("ban", task[x].dev, Handshaking)
      BY <1>5, <2>2 DEF DisableKick
    <3>2. BarsTrue'
      BY <1>5, <2>1, <2>2, <3>1, ShutBars DEF DisableKick
    <3>3. ArrivingClean' /\ ControllerPermitted'
      BY <1>5, <2>1, <3>1, ShutFrame DEF DisableKick, Handshaking
    <3> QED BY <3>2, <3>3
  <2>3. CASE task[x].dev \notin banned
    <3>1. BarsTrue'
      BY <1>5, <2>3, BarsFrame DEF DisableKick
    <3>2. PermitsAlone
      BY <1>5, <2>3 DEF DisableKick, PermitsAlone, Closed
    <3> QED BY <3>1, <3>2, PermitFrame
  <2> QED BY <2>2, <2>3
<1>6. CASE DisablePresence(x) \/ CredOffPresence(x)
  <2>1. BarsTrue'
    BY <1>6, BarsFrame DEF DisablePresence, CredOffPresence
  <2>2. PermitsAlone
    BY <1>6 DEF DisablePresence, CredOffPresence, PermitsAlone, Closed
  <2> QED BY <2>1, <2>2, PermitFrame
<1>7. CASE DisableNotify(x) \/ EnableNotify(x)
  <2>1. BarsTrue'
    BY <1>7, BarsFrame DEF DisableNotify, EnableNotify
  <2>2. PermitsAlone
    BY <1>7 DEF DisableNotify, EnableNotify, Notify, PermitsAlone
  <2> QED BY <2>1, <2>2, PermitFrame
<1>8. CASE CredOffKick(x)
  <2>1. task[x].dev \in Devices /\ task[x].id \in Creds
    BY <1>8 DEF CredOffKick
  <2>2. CutClient(task[x].dev, task[x].id)
    BY <1>8 DEF CredOffKick
  <2>3. BarsTrue'
    BY <1>8, <2>1, <2>2, CutBars DEF CredOffKick
  <2>4. ArrivingClean' /\ ControllerPermitted'
    <3>1. UNCHANGED <<slot, who, pc>>
      BY <1>8 DEF CredOffKick
    <3> QED BY <2>1, <2>2, <3>1, CutFrame
  <2> QED BY <2>3, <2>4
<1> QED BY <1>1, <1>2, <1>3, <1>4, <1>5, <1>6, <1>7, <1>8 DEF Handler

\* A new request keeps the permissions.
LEMMA PermitRequest ==
  ASSUME Typed, SeatInv, PermitInv, NEW x \in Admins, Request(x)
  PROVE  PermitInv'
<1> USE DEF PermitInv, Typed, TypeOK, Placed, store, local, notices, history, Excused
<1>1. ASSUME NEW d \in Devices, KickRead(x, d) \/ ForgetCheck(x, d)
      PROVE  PermitInv'
  <2>1. BarsTrue'
    BY <1>1, BarsFrame DEF KickRead, ForgetCheck
  <2>2. PermitsAlone
    BY <1>1 DEF KickRead, ForgetCheck, PermitsAlone
  <2> QED BY <2>1, <2>2, PermitFrame
<1>2. ASSUME NEW d \in Devices, Allow(x, d) PROVE PermitInv'
  BY <1>2, CooldownPermit DEF Allow
<1>3. ASSUME NEW d \in Devices, NEW saved \in BOOLEAN, Disable(x, d, saved)
      PROVE  PermitInv'
  <2>1. UNCHANGED <<known, creds, off, cooling, slot, pc, open, who>>
    BY <1>3 DEF Disable
  <2>2. banned' = banned \cup {d}
    BY <1>3 DEF Disable
  <2>3. CASE saved
    <3>1. UNCHANGED history
      BY <1>3, <2>3 DEF Disable
    <3>2. BarsTrue'
      BY <2>1, <2>2, <3>1, BarsFrame
    <3>3. PermitsAlone
      BY <2>1, <3>1 DEF PermitsAlone
    <3> QED BY <3>2, <3>3, PermitFrame
  <2>4. CASE ~saved
    <3>1. Decided("ban", d, BanChecked(d))
      BY <1>3, <2>4 DEF Disable
    <3>2. "ban" \notin Creds
      BY TunnelConstants
    <3>3. BarsTrue'
      BY <2>1, <2>2, <3>1, <3>2, DecidedBars
    <3>4. \A p \in Conns :
            /\ who[p].kind = "client" /\ who[p].dev = d
            /\ pc[p] \in {"verified"} \cup InMap \/ pc[p] = "challenged"
            => p \in BanChecked(d)
      BY DEF BanChecked
    <3>5. ArrivingClean' /\ ControllerPermitted'
      BY <2>1, <3>1, <3>2, <3>4, DecidedFrame
    <3> QED BY <3>3, <3>5
  <2> QED BY <2>3, <2>4
<1>4. ASSUME NEW d \in Devices, NEW saved \in BOOLEAN, Enable(x, d, saved)
      PROVE  PermitInv'
  <2>1. BarsTrue'
    BY <1>4, TunnelConstants DEF Enable, BarsTrue
  <2>2. PermitsAlone
    BY <1>4 DEF Enable, PermitsAlone
  <2> QED BY <2>1, <2>2, PermitFrame
<1>5. ASSUME NEW d \in Devices, NEW id \in Creds, NEW saved \in BOOLEAN,
             CredOff(x, d, id, saved)
      PROVE  PermitInv'
  <2>1. UNCHANGED <<known, creds, banned, cooling, slot, pc, open, who>>
    BY <1>5 DEF CredOff
  <2>2. /\ \A e \in Devices : creds'[e] \ off'[e] \subseteq creds[e] \ off[e]
        /\ id \notin creds'[d] \ off'[d]
    BY <1>5 DEF CredOff
  <2>3. CASE saved
    <3>1. UNCHANGED history
      BY <1>5, <2>3 DEF CredOff
    <3>2. BarsTrue'
      BY <2>1, <2>2, <3>1, BarsFrame
    <3>3. PermitsAlone
      BY <2>1, <3>1 DEF PermitsAlone
    <3> QED BY <3>2, <3>3, PermitFrame
  <2>4. CASE ~saved
    <3>1. Decided(id, d, {c \in CredChecked(d) : who[c].id = id})
      BY <1>5, <2>4 DEF CredOff
    <3>2. id # "ban" /\ id # "gone"
      BY TunnelConstants
    <3>3. BarsTrue'
      BY <2>1, <2>2, <3>1, <3>2, DecidedBars
    <3>4. \A p \in Conns :
            /\ who[p].kind = "client" /\ who[p].dev = d
            /\ \/ pc[p] \in {"verified"} \cup InMap
               \/ pc[p] = "challenged" /\ id = "ban"
            /\ id \in Creds => who[p].id = id
            => p \in {c \in CredChecked(d) : who[c].id = id}
      BY TunnelConstants DEF CredChecked, Arriving
    <3>5. UNCHANGED <<slot, open, who>> /\ UNCHANGED pc
      BY <2>1
    <3>6. ArrivingClean' /\ ControllerPermitted'
      <4> HIDE DEF PermitInv, Typed, TypeOK, Placed
      <4>1. /\ id \in {"ban", "gone"} \cup Creds
            /\ \A c \in Conns :
                  /\ pc'[c] \in Handshaking => pc'[c] = pc[c]
                  /\ who'[c].kind = who[c].kind /\ who'[c].dev = who[c].dev
                  /\ who[c].kind = "client" => who'[c].id = who[c].id
        BY <3>5
      <4> QED BY <3>1, <3>4, <3>5, <4>1, DecidedFrame DEF PermitInv
    <3> QED BY <3>3, <3>6
  <2> QED BY <2>3, <2>4
<1>6. ASSUME NEW d \in Devices, NEW id \in Creds, CredOn(x, d, id)
      PROVE  PermitInv'
  <2>1. BarsTrue'
    BY <1>6, TunnelConstants DEF CredOn, BarsTrue
  <2>2. PermitsAlone
    BY <1>6 DEF CredOn, PermitsAlone
  <2> QED BY <2>1, <2>2, PermitFrame
<1> QED BY <1>1, <1>2, <1>3, <1>4, <1>5, <1>6 DEF Request

LEMMA PermitStep ==
  ASSUME Typed, SeatInv, PermitInv, [Next]_vars
  PROVE  PermitInv'
<1> USE DEF Typed, TypeOK, store, local, notices, history, Excused
<1>1. ASSUME NEW c \in Conns, RemoteCloses(c) PROVE PermitInv'
  <2>1. BarsTrue'
    BY <1>1, BarsFrame DEF RemoteCloses, PermitInv
  <2>2. PermitsAlone
    BY <1>1 DEF RemoteCloses, PermitsAlone
  <2> QED BY <2>1, <2>2, PermitFrame DEF PermitInv
<1>2. ASSUME NEW d \in Devices, CooldownEnds(d) PROVE PermitInv'
  BY <1>2, CooldownPermit DEF CooldownEnds
<1>3. CASE UNCHANGED vars
  <2>1. BarsTrue'
    BY <1>3, BarsFrame DEF vars, PermitInv
  <2>2. PermitsAlone
    BY <1>3 DEF vars, PermitsAlone
  <2> QED BY <2>1, <2>2, PermitFrame DEF PermitInv
<1> QED BY <1>1, <1>2, <1>3, PermitGoroutine, PermitFromFrame, PermitHandler,
           PermitRequest DEF Next

LEMMA PermitInit == Init => PermitInv
  BY TunnelConstants
  DEF Init, PermitInv, BarsTrue, ArrivingClean, ControllerPermitted, Kinds

\* An open controller in the map has nothing against it, unless a kick ran
\* while it was between its checks and the map, or it was past its checks when
\* a decision was made that kicks nobody: the deletion by forget, or a ban,
\* revocation or disabling that could not be written to disk.
THEOREM ControllerPermittedEver == Spec => []ControllerPermitted
<1>1. Typed /\ SeatInv /\ PermitInv /\ [Next]_vars => PermitInv'
  BY PermitStep
<1>2. PermitInv => ControllerPermitted
  BY DEF PermitInv
<1>3. Spec => Init /\ [][Next]_vars
  BY DEF Spec
<1> QED BY Seats, PermitInit, <1>1, <1>2, <1>3, PTL

-----------------------------------------------------------------------------
(* Presences.  PresenceFrame covers the actions that add no ban, finish no *)
(* request between its two kicks and bring no presence nearer to the map.  *)

\* A request has still to close the presence connections of device d.
Awaited(d) == \E x \in Admins : task[x].op = "ban.presence" /\ task[x].dev = d

PresenceArriving ==
    \A c \in Conns :
        /\ pc[c] \in Handshaking
        /\ who[c].kind = "presence"
        /\ "ban" \in bars[who[c].dev]
        => c \in Excused \/ Awaited(who[c].dev)

PresenceInv == PresenceArriving /\ PresencePermitted

PresencesAlone ==
    /\ \A d \in Devices : "ban" \in bars'[d] => "ban" \in bars[d]
    /\ \A x \in Admins : task[x].op = "ban.presence" => task'[x] = task[x]
    /\ \A c \in Conns :
         /\ pc'[c] \in Handshaking
         /\ who'[c].kind = "presence"
         /\ c \notin Excused'
         => /\ pc[c] \in Handshaking
            /\ who'[c] = who[c]
            /\ c \notin Excused
    /\ \A d \in Devices, c \in Conns :
         slot'["presence"][d] = c /\ open'[c] /\ c \notin Excused' =>
             slot["presence"][d] = c /\ open[c] /\ c \notin Excused

LEMMA PresenceFrame ==
  ASSUME Typed, PresenceInv, PresencesAlone
  PROVE  PresenceInv'
<1>1. \A d \in Devices : Awaited(d) => Awaited(d)'
  BY DEF Awaited, PresencesAlone
<1>2. PresenceArriving'
  <2> SUFFICES ASSUME NEW c \in Conns, pc'[c] \in Handshaking,
                      who'[c].kind = "presence", c \notin Excused',
                      "ban" \in bars'[who'[c].dev]
               PROVE  \E x \in Admins : /\ task'[x].op = "ban.presence"
                                        /\ task'[x].dev = who'[c].dev
    BY DEF PresenceArriving, Awaited
  <2>1. pc[c] \in Handshaking /\ who'[c] = who[c] /\ c \notin Excused
    BY DEF PresencesAlone
  <2>2. who[c].dev \in Devices
    BY <2>1 DEF Typed, Placed, Handshaking
  <2>3. "ban" \in bars[who[c].dev]
    BY <2>1, <2>2 DEF PresencesAlone
  <2>4. Awaited(who[c].dev)
    BY <2>1, <2>3 DEF PresenceInv, PresenceArriving
  <2>5. \E x \in Admins : /\ task'[x].op = "ban.presence"
                          /\ task'[x].dev = who[c].dev
    BY <1>1, <2>2, <2>4 DEF Awaited
  <2> QED BY <2>1, <2>5
<1>3. PresencePermitted'
  <2> SUFFICES ASSUME NEW d \in Devices, NEW c \in Conns,
                      slot'["presence"][d] = c, open'[c], c \notin Excused',
                      "ban" \in bars'[d]
               PROVE  Awaited(d)'
    BY DEF PresencePermitted, Awaited
  <2> QED BY <1>1 DEF PresencesAlone, PresenceInv, PresencePermitted, Awaited
<1> QED BY <1>2, <1>3 DEF PresenceInv

\* A credential that is revoked says nothing of a ban.
LEMMA RevocationFacts ==
  ASSUME Typed, NEW c \in Conns, NEW id \in Creds, NEW saved \in BOOLEAN,
         ClientDel(c, id, saved)
  PROVE  /\ \A d \in Devices : "ban" \in bars'[d] => "ban" \in bars[d]
         /\ Excused \subseteq Excused'
<1>1. id # "ban"
  BY TunnelConstants
<1>2. \/ UNCHANGED history
      \/ \E cs : Decided(id, who[c].dev, cs)
  BY DEF ClientDel
<1> QED BY <1>1, <1>2 DEF Decided, history, Excused, Typed, TypeOK

\* A new request leaves connections and requests in progress alone, and a ban
\* that takes effect with it records whoever has been checked for one.
LEMMA RequestFacts ==
  ASSUME Typed, NEW x \in Admins, Request(x)
  PROVE  /\ UNCHANGED <<slot, pc, open, who, told>>
         /\ Excused \subseteq Excused'
         /\ \A y \in Admins : task[y].op # "none" => task'[y] = task[y]
         /\ \A d \in Devices :
               "ban" \in bars'[d] =>
                   "ban" \in bars[d] \/ BanChecked(d) \subseteq Excused'
<1> USE DEF Typed, TypeOK
<1>1. UNCHANGED <<slot, pc, open, who, told>>
  BY DEF Request, KickRead, Allow, ForgetCheck, Disable, Enable, CredOff,
         CredOn, notices
<1>2. \A y \in Admins : task[y].op # "none" => task'[y] = task[y]
  <2>1. Idle(x)
    BY DEF Request, KickRead, Allow, ForgetCheck, Disable, Enable, CredOff,
           CredOn
  <2>2. task[x].op = "none"
    BY <2>1 DEF Idle, Quiet
  <2>3. ASSUME NEW d \in Devices, KickRead(x, d) \/ Allow(x, d)
                                     \/ ForgetCheck(x, d)
        PROVE  \A y \in Admins \ {x} : task'[y] = task[y]
    BY <2>3 DEF KickRead, Allow, ForgetCheck, Begin
  <2>4. ASSUME NEW d \in Devices, NEW saved \in BOOLEAN,
               Disable(x, d, saved) \/ Enable(x, d, saved)
        PROVE  \A y \in Admins \ {x} : task'[y] = task[y]
    BY <2>4 DEF Disable, Enable, Begin
  <2>5. ASSUME NEW d \in Devices, NEW id \in Creds, NEW saved \in BOOLEAN,
               CredOff(x, d, id, saved) \/ CredOn(x, d, id)
        PROVE  \A y \in Admins \ {x} : task'[y] = task[y]
    BY <2>5 DEF CredOff, CredOn, Begin
  <2> HIDE DEF Typed, TypeOK
  <2> QED BY <2>2, <2>3, <2>4, <2>5 DEF Request
<1>3. \/ /\ \A d \in Devices : bars'[d] \subseteq bars[d]
         /\ UNCHANGED <<slipped, spared>>
      \/ \E d \in Devices : Decided("ban", d, BanChecked(d))
      \/ \E d \in Devices, id \in Creds : \E cs : Decided(id, d, cs)
  <2>1. ASSUME NEW d \in Devices, KickRead(x, d) \/ Allow(x, d)
                                     \/ ForgetCheck(x, d)
        PROVE  <1>3!1
    BY <2>1 DEF KickRead, Allow, ForgetCheck, EndCooldown, history
  <2>2. ASSUME NEW d \in Devices, NEW saved \in BOOLEAN, Disable(x, d, saved)
        PROVE  <1>3!1 \/ <1>3!2
    BY <2>2 DEF Disable, history
  <2>3. ASSUME NEW d \in Devices, NEW saved \in BOOLEAN, Enable(x, d, saved)
        PROVE  <1>3!1
    BY <2>3 DEF Enable
  <2>4. ASSUME NEW d \in Devices, NEW id \in Creds, NEW saved \in BOOLEAN,
               CredOff(x, d, id, saved)
        PROVE  <1>3!1 \/ <1>3!3
    BY <2>4 DEF CredOff, history
  <2>5. ASSUME NEW d \in Devices, NEW id \in Creds, CredOn(x, d, id)
        PROVE  <1>3!1
    BY <2>5 DEF CredOn
  <2> HIDE DEF Typed, TypeOK
  <2> QED BY <2>1, <2>2, <2>3, <2>4, <2>5 DEF Request
<1>4. \A id \in Creds : id # "ban"
  BY TunnelConstants
<1> QED BY <1>1, <1>2, <1>3, <1>4 DEF Decided, Excused

LEMMA PresenceGoroutine ==
  ASSUME Typed, SeatInv, PresenceInv, NEW c \in Conns, Goroutine(c)
  PROVE  PresenceInv'
<1> USE DEF Typed, TypeOK, Placed, store, local, notices, history, Excused, Goto
<1>1. ASSUME NEW saved \in BOOLEAN, RegisterCommit(c, saved)
      PROVE  PresenceInv'
  <2>1. \A d \in Devices : slot["presence"][d] # c
    BY <1>1, TunnelConstants DEF RegisterCommit, SeatInv, NoGhost, InMap,
                                 Announcing, Serving, Kinds
  <2>2. \A d \in Devices : bars'[d] \subseteq bars[d]
    BY <1>1 DEF RegisterCommit
  <2>3. PresencesAlone
    BY <1>1, <2>1, <2>2 DEF RegisterCommit, Finish, PresencesAlone, Handshaking
  <2> QED BY <2>3, PresenceFrame
<1>2. CASE HandshakeFails(c) \/ NotifyDown(c)
  <2>1. \A d \in Devices : slot["presence"][d] # c
    BY <1>2, TunnelConstants DEF HandshakeFails, NotifyDown, SeatInv, NoGhost,
                                 InMap, Announcing, Serving, Kinds
  <2>2. PresencesAlone
    BY <1>2, <2>1 DEF HandshakeFails, NotifyDown, Finish, PresencesAlone,
                      Handshaking
  <2> QED BY <2>2, PresenceFrame
<1>3. CASE Swap(c)
  <2>1. PresenceArriving'
    BY <1>3 DEF Swap, PresenceInv, PresenceArriving, Awaited, Handshaking
  <2>2. PresencePermitted'
    <3> SUFFICES ASSUME NEW d \in Devices, NEW e \in Conns,
                        slot'["presence"][d] = e, open[e], e \notin Excused,
                        "ban" \in bars[d]
                 PROVE  Awaited(d)
      BY <1>3 DEF Swap, PresencePermitted, Awaited
    <3>1. CASE slot["presence"][d] = e
      BY <3>1 DEF PresenceInv, PresencePermitted, Awaited
    <3>2. CASE slot["presence"][d] # e
      <4>1. e = c /\ who[c].kind = "presence" /\ who[c].dev = d
        BY <1>3, <3>2 DEF Swap, Kinds
      <4> QED BY <1>3, <4>1 DEF Swap, PresenceInv, PresenceArriving,
                                Handshaking
    <3> QED BY <3>1, <3>2
  <2> QED BY <2>1, <2>2 DEF PresenceInv
<1>4. CASE Evict(c) \/ UpSelf(c) \/ UpPeer(c) \/ ReadFails(c)
  <2>1. PresencesAlone
    BY <1>4 DEF Evict, UpSelf, UpPeer, ReadFails, PresencesAlone, Handshaking,
                Closed
  <2> QED BY <2>1, PresenceFrame
<1>5. CASE RevokeKick(c)
  <2>1. who[c].id \in Creds /\ who[c].kind = "agent"
    BY <1>5 DEF RevokeKick
  <2>2. \A d \in Devices : bars'[d] \subseteq bars[d] \cup {who[c].id}
    BY <1>5, <2>1 DEF RevokeKick, CutClient
  <2>3. Excused \subseteq Excused'
    BY <1>5 DEF RevokeKick, CutClient
  <2>4. \A e \in Conns : who'[e] # who[e] => e = c /\ pc'[e] = "serve"
    BY <1>5 DEF RevokeKick
  <2>5. PresencesAlone
    <3> USE DEF PresencesAlone
    <3>1. \A d \in Devices : "ban" \in bars'[d] => "ban" \in bars[d]
      BY <2>1, <2>2, TunnelConstants
    <3> QED BY <1>5, <2>3, <2>4, <3>1 DEF RevokeKick, CutClient, Closed,
                                          Handshaking
  <2> QED BY <2>5, PresenceFrame
<1>6. CASE UnregisterKick(c)
  <2>1. who[c].dev \in Devices
    BY <1>6 DEF UnregisterKick
  <2>2. \A d \in Devices : bars'[d] \subseteq bars[d] \cup {"gone"}
    BY <1>6, <2>1 DEF UnregisterKick, ShutOut
  <2>3. Excused \subseteq Excused'
    BY <1>6 DEF UnregisterKick, ShutOut
  <2>4. PresencesAlone
    BY <1>6, <2>2, <2>3 DEF UnregisterKick, PresencesAlone, Closed, Handshaking
  <2> QED BY <2>4, PresenceFrame
<1>7. CASE GiveBack(c)
  <2>1. PresencesAlone
    BY <1>7, TunnelConstants DEF GiveBack, PresencesAlone, Handshaking, Kinds
  <2> QED BY <2>1, PresenceFrame
<1> QED BY <1>1, <1>2, <1>3, <1>4, <1>5, <1>6, <1>7 DEF Goroutine

\* A presence passes the hello's look at the ban only where there is none.
LEMMA PresenceFromFrame ==
  ASSUME Typed, SeatInv, BarsTrue, PresenceInv, NEW c \in Conns, Frame(c)
  PROVE  PresenceInv'
<1> USE DEF Typed, TypeOK, Placed, store, local, notices, history, Excused, Goto
<1>1. ASSUME NEW d \in Devices, RegisterCheck(c, d) PROVE PresenceInv'
  <2>1. \A e \in Devices : slot["presence"][e] # c
    BY <1>1, TunnelConstants DEF RegisterCheck, SeatInv, NoGhost, InMap,
                                 Announcing, Serving, Kinds
  <2>2. PresencesAlone
    BY <1>1, <2>1 DEF RegisterCheck, PresencesAlone, Handshaking
  <2> QED BY <2>2, PresenceFrame
<1>2. ASSUME NEW k \in Kinds, NEW d \in Devices, NEW id \in Creds \cup {None},
             Hello(c, k, d, id)
      PROVE  PresenceInv'
  <2>1. \A e \in Devices : slot["presence"][e] # c
    BY <1>2, TunnelConstants DEF Hello, SeatInv, NoGhost, InMap, Announcing,
                                 Serving, Kinds
  <2>2. PresencePermitted'
    BY <1>2, <2>1 DEF Hello, PresenceInv, PresencePermitted
  <2>3. PresenceArriving'
    <3>1. k = "presence" => "ban" \notin bars[d]
      BY <1>2 DEF Hello, BarsTrue
    <3> QED BY <1>2, <3>1 DEF Hello, PresenceInv, PresenceArriving, Awaited
  <2> QED BY <2>2, <2>3 DEF PresenceInv
<1>3. CASE Auth(c) \/ KickClient(c) \/ Unregister(c)
  <2>1. PresencesAlone
    BY <1>3 DEF Auth, KickClient, Unregister, PresencesAlone, Handshaking,
                Closed
  <2> QED BY <2>1, PresenceFrame
<1>4. ASSUME NEW id \in Creds, ClientAdd(c, id) PROVE PresenceInv'
  <2>1. \A d \in Devices : bars'[d] \subseteq bars[d]
    BY <1>4 DEF ClientAdd, ServedAgent
  <2>2. PresencesAlone
    BY <1>4, <2>1 DEF ClientAdd, PresencesAlone
  <2> QED BY <2>2, PresenceFrame
<1>5. ASSUME NEW id \in Creds, NEW saved \in BOOLEAN, ClientDel(c, id, saved)
      PROVE  PresenceInv'
  <2>1. /\ \A e \in Conns : e # c => who'[e] = who[e] /\ pc'[e] = pc[e]
        /\ pc'[c] \notin Handshaking
    BY <1>5 DEF ClientDel, Handshaking
  <2>2. /\ \A d \in Devices : "ban" \in bars'[d] => "ban" \in bars[d]
        /\ Excused \subseteq Excused'
    BY <1>5, RevocationFacts
  <2>3. UNCHANGED <<slot, open, task>>
    BY <1>5 DEF ClientDel
  <2>4. PresencesAlone
    BY <2>1, <2>2, <2>3 DEF PresencesAlone
  <2> QED BY <2>4, PresenceFrame
<1> QED BY <1>1, <1>2, <1>3, <1>4, <1>5 DEF Frame

\* Of the handlers, the ban's first kick leaves its second one to come, and
\* the second closes the presence in the map and records those on their way.
LEMMA PresenceHandler ==
  ASSUME Typed, SeatInv, PresenceInv, NEW x \in Admins, Handler(x)
  PROVE  PresenceInv'
<1> USE DEF Typed, TypeOK, Placed, store, local, notices, history, Excused
<1> DEFINE AwaitedNext(d) ==
      \E y \in Admins : task'[y].op = "ban.presence" /\ task'[y].dev = d
<1>1. CASE KickCool(x) \/ ForgetThaw(x)
  <2>1. \A y \in Admins : task[y].op = "ban.presence" => task'[y] = task[y]
    BY <1>1 DEF KickCool, ForgetThaw, Then, Done
  <2>2. \A d \in Devices : bars'[d] \subseteq bars[d]
    BY <1>1 DEF KickCool, ForgetThaw, EndCooldown
  <2>3. PresencesAlone
    BY <1>1, <2>1, <2>2 DEF KickCool, ForgetThaw, PresencesAlone
  <2> QED BY <2>3, PresenceFrame
<1>2. CASE KickClose(x)
  <2>1. \A y \in Admins : task[y].op = "ban.presence" => task'[y] = task[y]
    BY <1>2 DEF KickClose, Done
  <2>2. /\ \A d \in Devices : bars'[d] \subseteq bars[d] \cup {"cool"}
        /\ Excused \subseteq Excused'
    BY <1>2 DEF KickClose, ShutOut
  <2>3. PresencesAlone
    BY <1>2, <2>1, <2>2 DEF KickClose, PresencesAlone, Closed
  <2> QED BY <2>3, PresenceFrame
<1>3. ASSUME NEW saved \in BOOLEAN, ForgetErase(x, saved) PROVE PresenceInv'
  <2>1. \A y \in Admins : task[y].op = "ban.presence" => task'[y] = task[y]
    BY <1>3 DEF ForgetErase, Then, Done
  <2>2. /\ \A d \in Devices : bars'[d] \subseteq bars[d] \cup {"gone"}
        /\ Excused \subseteq Excused'
    BY <1>3 DEF ForgetErase, Decided
  <2>3. PresencesAlone
    BY <1>3, <2>1, <2>2 DEF ForgetErase, PresencesAlone
  <2> QED BY <2>3, PresenceFrame
<1>4. CASE DisableKick(x)
  <2>1. /\ task[x].dev \in Devices /\ task[x].op = "ban.kick"
        /\ task'[x].op = "ban.presence" /\ task'[x].dev = task[x].dev
        /\ \A y \in Admins : y # x => task'[y] = task[y]
    BY <1>4, ThenTyped, StepNames DEF DisableKick
  <2>2. /\ \A d \in Devices : Awaited(d) => AwaitedNext(d)
        /\ AwaitedNext(task[x].dev)
    BY <2>1 DEF Awaited
  <2>3. /\ \A d \in Devices \ {task[x].dev} : bars'[d] = bars[d]
        /\ Excused \subseteq Excused'
    BY <1>4, <2>1 DEF DisableKick, ShutOut
  <2>4. PresenceArriving'
    <3> SUFFICES ASSUME NEW c \in Conns, pc[c] \in Handshaking,
                        who[c].kind = "presence", c \notin Excused',
                        "ban" \in bars'[who[c].dev]
                 PROVE  AwaitedNext(who[c].dev)
      BY <1>4 DEF DisableKick, PresenceArriving, Awaited
    <3>1. who[c].dev \in Devices
      BY DEF Handshaking
    <3> QED BY <2>2, <2>3, <3>1 DEF PresenceInv, PresenceArriving
  <2>5. PresencePermitted'
    <3> SUFFICES ASSUME NEW d \in Devices, NEW c \in Conns,
                        slot["presence"][d] = c, open'[c], c \notin Excused',
                        "ban" \in bars'[d]
                 PROVE  AwaitedNext(d)
      BY <1>4 DEF DisableKick, PresencePermitted, Awaited
    <3>1. open[c] /\ c \notin Excused
      BY <1>4, <2>3 DEF DisableKick, Closed
    <3>2. d # task[x].dev => Awaited(d)
      BY <2>3, <3>1 DEF PresenceInv, PresencePermitted, Awaited
    <3> QED BY <2>2, <3>2
  <2> QED BY <2>4, <2>5 DEF PresenceInv
<1>5. CASE DisablePresence(x)
  <2>1. /\ task[x].dev \in Devices
        /\ \A y \in Admins : y # x => task'[y] = task[y]
    BY <1>5, ThenTyped, StepNames DEF DisablePresence
  <2>2. \A d \in Devices \ {task[x].dev} : Awaited(d) => AwaitedNext(d)
    BY <2>1 DEF Awaited
  <2>3. PresenceArriving'
    <3> SUFFICES ASSUME NEW c \in Conns, pc[c] \in Handshaking,
                        who[c].kind = "presence", c \notin Excused',
                        "ban" \in bars[who[c].dev]
                 PROVE  AwaitedNext(who[c].dev)
      BY <1>5 DEF DisablePresence, PresenceArriving, Awaited
    <3>1. /\ who[c].dev \in Devices \ {task[x].dev}
          /\ c \notin Excused
      BY <1>5 DEF DisablePresence, Arriving, Handshaking
    <3> QED BY <2>2, <3>1 DEF PresenceInv, PresenceArriving
  <2>4. PresencePermitted'
    <3> SUFFICES ASSUME NEW d \in Devices, NEW c \in Conns,
                        slot["presence"][d] = c, open'[c], c \notin Excused',
                        "ban" \in bars[d]
                 PROVE  AwaitedNext(d)
      BY <1>5 DEF DisablePresence, PresencePermitted, Awaited
    <3>1. d # task[x].dev /\ open[c] /\ c \notin Excused
      BY <1>5 DEF DisablePresence, Closed, Holder
    <3>2. Awaited(d)
      BY <3>1 DEF PresenceInv, PresencePermitted, Awaited
    <3> QED BY <2>2, <3>1, <3>2
  <2> QED BY <2>3, <2>4 DEF PresenceInv
<1>6. CASE DisableNotify(x) \/ EnableNotify(x) \/ CredOffPresence(x)
  <2>1. \A y \in Admins : task[y].op = "ban.presence" => task'[y] = task[y]
    BY <1>6 DEF DisableNotify, EnableNotify, CredOffPresence, Done
  <2>2. Excused \subseteq Excused'
    BY <1>6 DEF DisableNotify, EnableNotify, CredOffPresence, Notify
  <2>3. PresencesAlone
    BY <1>6, <2>1, <2>2 DEF DisableNotify, EnableNotify, CredOffPresence,
                            PresencesAlone, Closed
  <2> QED BY <2>3, PresenceFrame
<1>7. CASE CredOffKick(x)
  <2>1. \A y \in Admins : task[y].op = "ban.presence" => task'[y] = task[y]
    BY <1>7 DEF CredOffKick, Then
  <2>2. /\ \A d \in Devices : bars'[d] \subseteq bars[d] \cup {task[x].id}
        /\ Excused \subseteq Excused' /\ task[x].id \in Creds
    BY <1>7 DEF CredOffKick, CutClient
  <2>3. \A d \in Devices : "ban" \in bars'[d] => "ban" \in bars[d]
    BY <2>2, TunnelConstants
  <2>4. PresencesAlone
    BY <1>7, <2>1, <2>2, <2>3 DEF CredOffKick, CutClient, PresencesAlone, Closed
  <2> QED BY <2>4, PresenceFrame
<1> QED BY <1>1, <1>2, <1>3, <1>4, <1>5, <1>6, <1>7 DEF Handler

LEMMA PresenceStep ==
  ASSUME Typed, SeatInv, BarsTrue, PresenceInv, [Next]_vars
  PROVE  PresenceInv'
<1> USE DEF Typed, TypeOK, store, local, notices, history, Excused
<1>1. ASSUME NEW c \in Conns, RemoteCloses(c) PROVE PresenceInv'
  <2>1. PresencesAlone
    BY <1>1 DEF RemoteCloses, PresencesAlone
  <2> QED BY <2>1, PresenceFrame
<1>2. ASSUME NEW d \in Devices, CooldownEnds(d) PROVE PresenceInv'
  <2>1. \A e \in Devices : bars'[e] \subseteq bars[e]
    BY <1>2 DEF CooldownEnds, EndCooldown
  <2>2. PresencesAlone
    BY <1>2, <2>1 DEF CooldownEnds, PresencesAlone
  <2> QED BY <2>2, PresenceFrame
<1>3. ASSUME NEW x \in Admins, Request(x) PROVE PresenceInv'
  <2>1. /\ UNCHANGED <<slot, pc, open, who>>
        /\ Excused \subseteq Excused'
        /\ \A y \in Admins : task[y].op = "ban.presence" => task'[y] = task[y]
        /\ \A d \in Devices :
              "ban" \in bars'[d] =>
                  "ban" \in bars[d] \/ BanChecked(d) \subseteq Excused'
    BY <1>3, RequestFacts
  <2>2. \A d \in Devices : Awaited(d) => Awaited(d)'
    BY <2>1 DEF Awaited
  <2>3. PresenceArriving'
    <3> SUFFICES ASSUME NEW c \in Conns, pc[c] \in Handshaking,
                        who[c].kind = "presence", c \notin Excused',
                        NEW d \in Devices, d = who[c].dev, "ban" \in bars'[d]
                 PROVE  Awaited(d)'
      BY <2>1 DEF PresenceArriving, Awaited, Placed, Handshaking
    <3>1. c \in BanChecked(d)
      BY DEF BanChecked, Handshaking
    <3>2. "ban" \in bars[d] /\ c \notin Excused
      BY <2>1, <3>1
    <3>3. Awaited(d)
      BY <3>2 DEF PresenceInv, PresenceArriving
    <3> QED BY <2>2, <3>3
  <2>4. PresencePermitted'
    <3> SUFFICES ASSUME NEW d \in Devices, NEW c \in Conns,
                        slot["presence"][d] = c, open[c], c \notin Excused',
                        "ban" \in bars'[d]
                 PROVE  Awaited(d)'
      BY <2>1 DEF PresencePermitted, Awaited
    <3>1. c \in BanChecked(d)
      BY TunnelConstants DEF SeatInv, NoGhost, Kinds, BanChecked
    <3>2. "ban" \in bars[d] /\ c \notin Excused
      BY <2>1, <3>1
    <3>3. Awaited(d)
      BY <3>2 DEF PresenceInv, PresencePermitted, Awaited
    <3> QED BY <2>2, <3>3
  <2> QED BY <2>3, <2>4 DEF PresenceInv
<1>4. CASE UNCHANGED vars
  <2>1. PresencesAlone
    BY <1>4 DEF vars, PresencesAlone
  <2> QED BY <2>1, PresenceFrame
<1> QED BY <1>1, <1>2, <1>3, <1>4, PresenceGoroutine, PresenceFromFrame,
           PresenceHandler DEF Next

LEMMA PresenceInit == Init => PresenceInv
  BY TunnelConstants
  DEF Init, PresenceInv, PresenceArriving, PresencePermitted, Kinds, Handshaking

\* A disabled device keeps no presence connection: one in the map was between
\* its hello and the map when the second kick ran, or past its hello when the
\* ban could not be written to disk, or that kick is to come.
THEOREM PresencePermittedEver == Spec => []PresencePermitted
<1>1. Typed /\ SeatInv /\ PermitInv /\ [Next]_vars => PermitInv'
  BY PermitStep
<1>2. Typed /\ SeatInv /\ PermitInv /\ PresenceInv /\ [Next]_vars
        => PresenceInv'
  BY PresenceStep DEF PermitInv
<1>3. PresenceInv => PresencePermitted
  BY DEF PresenceInv
<1>4. Spec => Init /\ [][Next]_vars
  BY DEF Spec
<1> QED BY Seats, PermitInit, PresenceInit, <1>1, <1>2, <1>3, <1>4, PTL

-----------------------------------------------------------------------------
(* Pairing.  Of an agent and a controller in the map the one that came     *)
(* second saw the other, and it announces both ways before it serves.      *)

PairsAlone ==
    /\ \A k \in {"agent", "client"}, d \in Devices :
          slot'[k][d] # None => slot'[k][d] = slot[k][d]
    /\ \A c \in Conns : pc[c] \in Announcing => /\ pc'[c] = pc[c]
                                               /\ peerOnline'[c] = peerOnline[c]
    /\ \A c, e \in Conns :
          pc[c] \in InMap /\ pc[e] \in InMap /\ e \in met[c] => e \in met'[c]

LEMMA PairFrame ==
  ASSUME Typed, SeatInv, PairInv, PairsAlone
  PROVE  PairInv'
<1> SUFFICES ASSUME NEW d \in Devices, NEW a \in Conns, NEW c \in Conns,
                    slot'["agent"][d] = a, slot'["client"][d] = c
             PROVE  Leads(a, c)' \/ Leads(c, a)'
  BY DEF PairInv
<1>1. slot["agent"][d] = a /\ slot["client"][d] = c
  BY TunnelConstants DEF PairsAlone
<1>2. pc[a] \in InMap /\ pc[c] \in InMap
  BY <1>1, TunnelConstants DEF SeatInv, NoGhost, Kinds
<1>3. Leads(a, c) \/ Leads(c, a)
  BY <1>1 DEF PairInv
<1> QED BY <1>2, <1>3 DEF PairsAlone, Leads, Announcing

LEMMA PairGoroutine ==
  ASSUME Typed, SeatInv, PairInv, NEW c \in Conns, Goroutine(c)
  PROVE  PairInv'
<1> USE DEF Typed, TypeOK, Placed, InMap, Announcing, Serving, store, local,
            notices, history, Excused, Goto
<1>1. ASSUME NEW saved \in BOOLEAN, RegisterCommit(c, saved) PROVE PairsAlone
  BY <1>1 DEF RegisterCommit, Finish, PairsAlone
<1>2. CASE HandshakeFails(c) \/ NotifyDown(c)
  <2>1. PairsAlone
    <3> HIDE DEF TypeOK, Placed
    <3> QED BY <1>2 DEF HandshakeFails, NotifyDown, Finish, PairsAlone, TypeOK
  <2> QED BY <2>1, PairFrame
<1>3. CASE Swap(c)
  <2> SUFFICES ASSUME NEW d \in Devices, NEW a \in Conns, NEW e \in Conns,
                      slot'["agent"][d] = a, slot'["client"][d] = e
               PROVE  Leads(a, e)' \/ Leads(e, a)'
    BY DEF PairInv
  <2>1. who[c].kind \in Kinds /\ who[c].dev \in Devices
    BY <1>3 DEF Swap
  <2>2. CASE slot["agent"][d] = a /\ slot["client"][d] = e
    <3>1. pc[a] \in InMap /\ pc[e] \in InMap
      BY <2>2, TunnelConstants DEF SeatInv, NoGhost, Kinds
    <3>2. a # c /\ e # c
      BY <1>3, <3>1 DEF Swap
    <3>3. Leads(a, e) \/ Leads(e, a)
      BY <2>2 DEF PairInv
    <3> QED BY <1>3, <3>2, <3>3 DEF Swap, Leads
  <2>3. CASE slot["agent"][d] # a \/ slot["client"][d] # e
    <3>1. /\ who[c].dev = d
          /\ \/ who[c].kind = "agent" /\ a = c /\ slot["client"][d] = e
             \/ who[c].kind = "client" /\ e = c /\ slot["agent"][d] = a
      BY <1>3, <2>1, <2>3 DEF Swap, Kinds
    <3>2. Peer(c) # None
      BY <3>1, TunnelConstants DEF Peer, Opposite
    <3>3. pc'[c] = "evict" /\ peerOnline'[c]
      BY <1>3, <3>1, <3>2 DEF Swap
    <3> QED BY <3>1, <3>3 DEF Leads
  <2> QED BY <2>2, <2>3
<1>4. CASE Evict(c)
  <2> SUFFICES ASSUME NEW a \in Conns, NEW e \in Conns, Leads(a, e)
               PROVE  Leads(a, e)'
    BY <1>4 DEF PairInv, Evict
  <2> QED BY <1>4 DEF Evict, Leads
<1>5. CASE UpSelf(c)
  <2> SUFFICES ASSUME NEW d \in Devices, NEW a \in Conns, NEW e \in Conns,
                      slot["agent"][d] = a, slot["client"][d] = e
               PROVE  Leads(a, e)' \/ Leads(e, a)'
    BY <1>5 DEF PairInv, UpSelf
  <2>1. /\ who[a].kind = "agent" /\ who[a].dev = d
        /\ who[e].kind = "client" /\ who[e].dev = d
    BY TunnelConstants DEF SeatInv, NoGhost, Kinds
  <2>2. Peer(a) = e /\ Peer(e) = a
    BY <2>1 DEF Peer, Opposite
  <2>3. Leads(a, e) => Leads(a, e)'
    BY <1>5, <2>2 DEF UpSelf, Leads
  <2>4. Leads(e, a) => Leads(e, a)'
    BY <1>5, <2>2 DEF UpSelf, Leads
  <2> QED BY <2>3, <2>4 DEF PairInv
<1>6. CASE UpPeer(c)
  <2> SUFFICES ASSUME NEW d \in Devices, NEW a \in Conns, NEW e \in Conns,
                      slot["agent"][d] = a, slot["client"][d] = e
               PROVE  Leads(a, e)' \/ Leads(e, a)'
    BY <1>6 DEF PairInv, UpPeer
  <2>1. /\ who[a].kind = "agent" /\ who[a].dev = d
        /\ who[e].kind = "client" /\ who[e].dev = d
    BY TunnelConstants DEF SeatInv, NoGhost, Kinds
  <2>2. Peer(a) = e /\ Peer(e) = a
    BY <2>1 DEF Peer, Opposite
  <2>3. Leads(a, e) => Leads(a, e)'
    BY <1>6, <2>2 DEF UpPeer, Leads
  <2>4. Leads(e, a) => Leads(e, a)'
    BY <1>6, <2>2 DEF UpPeer, Leads
  <2> QED BY <2>3, <2>4 DEF PairInv
<1>7. CASE RevokeKick(c) \/ UnregisterKick(c) \/ ReadFails(c)
  <2>1. PairsAlone
    BY <1>7 DEF RevokeKick, UnregisterKick, ReadFails, PairsAlone
  <2> QED BY <2>1, PairFrame
<1>8. CASE GiveBack(c)
  <2>1. PairsAlone
    BY <1>8 DEF GiveBack, PairsAlone, Kinds
  <2> QED BY <2>1, PairFrame
<1> QED BY <1>1, <1>2, <1>3, <1>4, <1>5, <1>6, <1>7, <1>8, PairFrame
        DEF Goroutine

LEMMA PairFromFrame ==
  ASSUME Typed, NEW c \in Conns, Frame(c)
  PROVE  PairsAlone
<1> USE DEF Typed, TypeOK, Placed, InMap, Announcing, Serving, store, local,
            notices, history, Excused, Goto, PairsAlone
<1>1. ASSUME NEW d \in Devices, RegisterCheck(c, d) PROVE PairsAlone
  BY <1>1 DEF RegisterCheck
<1>2. ASSUME NEW k \in Kinds, NEW d \in Devices, NEW id \in Creds \cup {None},
             Hello(c, k, d, id)
      PROVE  PairsAlone
  BY <1>2 DEF Hello
<1>3. CASE Auth(c) \/ KickClient(c) \/ Unregister(c)
  BY <1>3 DEF Auth, KickClient, Unregister, ServedAgent
<1>4. ASSUME NEW id \in Creds, ClientAdd(c, id) PROVE PairsAlone
  BY <1>4 DEF ClientAdd
<1>5. ASSUME NEW id \in Creds, NEW saved \in BOOLEAN, ClientDel(c, id, saved)
      PROVE  PairsAlone
  BY <1>5 DEF ClientDel, ServedAgent
<1> QED BY <1>1, <1>2, <1>3, <1>4, <1>5 DEF Frame

LEMMA PairStep ==
  ASSUME Typed, SeatInv, PairInv, [Next]_vars
  PROVE  PairInv'
<1>1. ASSUME NEW c \in Conns, Frame(c) PROVE PairInv'
  BY <1>1, PairFromFrame, PairFrame
<1>2. ASSUME NEW c \in Conns, RemoteCloses(c) PROVE PairInv'
  <2>1. PairsAlone
    BY <1>2 DEF RemoteCloses, PairsAlone, local, notices
  <2> QED BY <2>1, PairFrame
<1>3. ASSUME NEW x \in Admins, Handler(x) \/ Request(x) PROVE PairInv'
  <2>1. PairsAlone
    BY <1>3, HandlerCloses DEF PairsAlone, local
  <2> QED BY <2>1, PairFrame
<1>4. ASSUME NEW d \in Devices, CooldownEnds(d) PROVE PairInv'
  <2>1. PairsAlone
    BY <1>4 DEF CooldownEnds, PairsAlone, local, notices
  <2> QED BY <2>1, PairFrame
<1>5. CASE UNCHANGED vars
  <2>1. PairsAlone
    BY <1>5 DEF vars, PairsAlone
  <2> QED BY <2>1, PairFrame
<1> QED BY <1>1, <1>2, <1>3, <1>4, <1>5, PairGoroutine DEF Next

LEMMA PairInit == Init => PairInv
  BY TunnelConstants DEF Init, PairInv, Kinds

\* An agent and a controller that both serve have both been told of the other.
THEOREM IntroducedEver == Spec => []Introduced
<1>1. Typed /\ SeatInv /\ PairInv /\ [Next]_vars => PairInv'
  BY PairStep
<1>2. PairInv => Introduced
  BY DEF PairInv, Introduced, Leads
<1>3. Spec => Init /\ [][Next]_vars
  BY DEF Spec
<1> QED BY Seats, PairInit, <1>1, <1>2, <1>3, PTL

-----------------------------------------------------------------------------
(* A departing connection never takes its successor's entry with it.       *)

LEMMA OwnEntryStep ==
  ASSUME Typed, SeatInv, [Next]_vars,
         NEW k \in Kinds, NEW d \in Devices, slot'[k][d] # slot[k][d]
  PROVE  \/ \E c \in Conns : /\ slot'[k][d] = c
                             /\ pc[c] = "verified"
                             /\ pc'[c] = "evict"
         \/ slot'[k][d] = None /\ pc[slot[k][d]] = "unreg"
<1>1. ASSUME NEW c \in Conns, Frame(c) PROVE FALSE
  BY <1>1, SeatFromFrame DEF SeatsAlone
<1>2. ASSUME NEW x \in Admins, Handler(x) \/ Request(x) PROVE FALSE
  BY <1>2, HandlerCloses
<1>3. ASSUME NEW c \in Conns, RemoteCloses(c) PROVE FALSE
  BY <1>3 DEF RemoteCloses
<1>4. ASSUME NEW e \in Devices, CooldownEnds(e) PROVE FALSE
  BY <1>4 DEF CooldownEnds
<1>5. ~UNCHANGED vars
  BY DEF vars
<1>6. PICK c \in Conns : Goroutine(c)
  BY <1>1, <1>2, <1>3, <1>4, <1>5 DEF Next
<1>7. Swap(c) \/ GiveBack(c)
  BY <1>6 DEF Goroutine, RegisterCommit, HandshakeFails, Evict, UpSelf, UpPeer,
     RevokeKick, UnregisterKick, ReadFails, NotifyDown
<1>8. CASE Swap(c)
  BY <1>8 DEF Swap, Goto, Typed, TypeOK, Placed
<1>9. CASE GiveBack(c)
  BY <1>9 DEF GiveBack, Typed, TypeOK, Placed
<1> QED BY <1>7, <1>8, <1>9

\* Entries change hands only by a fresh proof or by the holder's own leaving.
THEOREM OwnEntryEver == Spec => OwnEntryOnly
<1>1. Typed /\ SeatInv /\ [Next]_vars =>
        [\A k \in Kinds, d \in Devices :
           slot'[k][d] # slot[k][d] =>
              \/ \E c \in Conns : /\ slot'[k][d] = c
                                  /\ pc[c] = "verified"
                                  /\ pc'[c] = "evict"
              \/ /\ slot'[k][d] = None
                 /\ pc[slot[k][d]] = "unreg"]_vars
  BY OwnEntryStep
<1>2. Spec => [][Next]_vars
  BY DEF Spec
<1> QED BY Seats, <1>1, <1>2, PTL DEF OwnEntryOnly

-----------------------------------------------------------------------------
(* The notice to the agent.                                                *)

\* A request that disables device d has still to tell its agent.
ToTell(d) == \E x \in Admins :
    task[x].op \in {"ban.presence", "ban.notify"} /\ task[x].dev = d

\* c is the agent in the map of device d, or is about to be.
AgentOf(d, c) ==
    /\ who[c].kind = "agent" /\ who[c].dev = d
    /\ pc[c] = "verified" \/ slot["agent"][d] = c

\* An agent past its proof of a disabled device knows, or a notice missed or
\* misled it, or one is still to come: NoticeCurrent before things are at rest.
NoticeInv ==
    \A d \in Devices, c \in Conns :
        AgentOf(d, c) /\ "ban" \in bars[d] =>
            told[c] = "disabled" \/ c \in Excused \/ ToTell(d)

NoticesAlone ==
    /\ \A d \in Devices : "ban" \in bars'[d] => "ban" \in bars[d]
    /\ \A x \in Admins : task[x].op \in {"ban.presence", "ban.notify"} =>
          task'[x] = task[x]
    /\ \A d \in Devices, c \in Conns :
          AgentOf(d, c)' /\ c \notin Excused' =>
              AgentOf(d, c) /\ c \notin Excused /\ told'[c] = told[c]

LEMMA NoticeFrame ==
  ASSUME NoticeInv, NoticesAlone
  PROVE  NoticeInv'
<1> SUFFICES ASSUME NEW d \in Devices, NEW c \in Conns, AgentOf(d, c)',
                    "ban" \in bars'[d], c \notin Excused', told'[c] # "disabled"
             PROVE  ToTell(d)'
  BY DEF NoticeInv
<1>1. /\ "ban" \in bars[d] /\ AgentOf(d, c) /\ c \notin Excused
      /\ told[c] # "disabled"
  BY DEF NoticesAlone
<1>2. ToTell(d)
  BY <1>1 DEF NoticeInv
<1> QED BY <1>2 DEF ToTell, NoticesAlone

LEMMA NoticeGoroutine ==
  ASSUME Typed, SeatInv, NoticeInv, NEW c \in Conns, Goroutine(c)
  PROVE  NoticeInv'
<1> USE DEF Typed, TypeOK, Placed, store, local, notices, history, Excused, Goto, AgentOf
<1>1. ASSUME NEW saved \in BOOLEAN, RegisterCommit(c, saved)
      PROVE  NoticeInv'
  <2>1. \A d \in Devices : bars'[d] \subseteq bars[d]
    BY <1>1 DEF RegisterCommit
  <2>2. who'[c].kind = "none" /\ \A e \in Conns : e # c =>
          /\ who'[e] = who[e] /\ pc'[e] = pc[e] /\ told'[e] = told[e]
          /\ (e \in Excused' <=> e \in Excused)
    BY <1>1 DEF RegisterCommit, Finish, Nobody
  <2>3. NoticesAlone
    BY <1>1, <2>1, <2>2 DEF RegisterCommit, NoticesAlone
  <2> QED BY <2>3, NoticeFrame
<1>2. CASE HandshakeFails(c) \/ NotifyDown(c)
  <2>1. who'[c].kind = "none" /\ \A e \in Conns : e # c =>
          /\ who'[e] = who[e] /\ pc'[e] = pc[e] /\ told'[e] = told[e]
          /\ (e \in Excused' <=> e \in Excused)
    BY <1>2 DEF HandshakeFails, NotifyDown, Finish, Nobody
  <2>2. NoticesAlone
    BY <1>2, <2>1 DEF HandshakeFails, NotifyDown, NoticesAlone
  <2> QED BY <2>2, NoticeFrame
<1>3. CASE Swap(c)
  <2>1. \A d \in Devices, e \in Conns : slot'["agent"][d] = e =>
           \/ slot["agent"][d] = e
           \/ e = c /\ pc[c] = "verified"
    BY <1>3 DEF Swap, Kinds
  <2>2. NoticesAlone
    BY <1>3, <2>1 DEF Swap, NoticesAlone
  <2> QED BY <2>2, NoticeFrame
<1>4. CASE Evict(c) \/ UpSelf(c) \/ UpPeer(c) \/ ReadFails(c)
  <2>1. NoticesAlone
    BY <1>4 DEF Evict, UpSelf, UpPeer, ReadFails, NoticesAlone
  <2> QED BY <2>1, NoticeFrame
<1>5. CASE RevokeKick(c)
  <2>1. who[c].id \in Creds
    BY <1>5 DEF RevokeKick
  <2>2. \A d \in Devices : bars'[d] \subseteq bars[d] \cup {who[c].id}
    BY <1>5, <2>1 DEF RevokeKick, CutClient
  <2>3. /\ Excused \subseteq Excused'
        /\ \A d \in Devices : "ban" \in bars'[d] => "ban" \in bars[d]
    BY <1>5, <2>1, <2>2, TunnelConstants DEF RevokeKick, CutClient
  <2>4. \A e \in Conns : who'[e].kind = who[e].kind /\ who'[e].dev = who[e].dev
    BY <1>5 DEF RevokeKick, Whos
  <2>5. NoticesAlone
    BY <1>5, <2>3, <2>4 DEF RevokeKick, NoticesAlone
  <2> QED BY <2>5, NoticeFrame
<1>6. CASE UnregisterKick(c)
  <2>1. /\ \A d \in Devices : bars'[d] \subseteq bars[d] \cup {"gone"}
        /\ Excused \subseteq Excused'
    BY <1>6 DEF UnregisterKick, ShutOut
  <2>2. NoticesAlone
    BY <1>6, <2>1 DEF UnregisterKick, NoticesAlone
  <2> QED BY <2>2, NoticeFrame
<1>7. CASE GiveBack(c)
  <2>1. \A d \in Devices, e \in Conns :
           slot'["agent"][d] = e => slot["agent"][d] = e
    BY <1>7, TunnelConstants DEF GiveBack, Kinds
  <2>2. NoticesAlone
    BY <1>7, <2>1 DEF GiveBack, NoticesAlone
  <2> QED BY <2>2, NoticeFrame
<1> QED BY <1>1, <1>2, <1>3, <1>4, <1>5, <1>6, <1>7 DEF Goroutine

\* An agent of a disabled device is told so with the answer to its proof.
LEMMA NoticeFromFrame ==
  ASSUME Typed, SeatInv, BarsTrue, NoticeInv, NEW c \in Conns, Frame(c)
  PROVE  NoticeInv'
<1> USE DEF Typed, TypeOK, Placed, store, local, notices, history, Excused, Goto, AgentOf
<1>1. ASSUME NEW d \in Devices, RegisterCheck(c, d) PROVE NoticeInv'
  <2>1. \A e \in Devices : slot["agent"][e] # c
    BY <1>1, TunnelConstants DEF RegisterCheck, SeatInv, NoGhost, InMap,
                                 Announcing, Serving, Kinds
  <2>2. NoticesAlone
    BY <1>1, <2>1 DEF RegisterCheck, NoticesAlone
  <2> QED BY <2>2, NoticeFrame
<1>2. ASSUME NEW k \in Kinds, NEW d \in Devices, NEW id \in Creds \cup {None},
             Hello(c, k, d, id)
      PROVE  NoticeInv'
  <2>1. \A e \in Devices : slot["agent"][e] # c
    BY <1>2, TunnelConstants DEF Hello, SeatInv, NoGhost, InMap, Announcing,
                                 Serving, Kinds
  <2>2. NoticesAlone
    BY <1>2, <2>1 DEF Hello, NoticesAlone
  <2> QED BY <2>2, NoticeFrame
<1>3. CASE Auth(c)
  <2> SUFFICES ASSUME NEW d \in Devices, NEW e \in Conns, AgentOf(d, e)',
                      "ban" \in bars[d], e \notin Excused, ~ToTell(d)
               PROVE  told'[e] = "disabled"
    BY <1>3 DEF Auth, NoticeInv, ToTell
  <2>1. CASE e = c
    <3>1. who[c].kind = "agent" /\ who[c].dev = d /\ d \in banned
      BY <1>3, <2>1 DEF Auth, BarsTrue
    <3> QED BY <1>3, <2>1, <3>1 DEF Auth
  <2>2. CASE e # c
    <3>1. AgentOf(d, e) /\ told'[e] = told[e]
      BY <1>3, <2>2 DEF Auth
    <3> QED BY <3>1 DEF NoticeInv
  <2> QED BY <2>1, <2>2
<1>4. CASE KickClient(c) \/ Unregister(c)
  <2>1. NoticesAlone
    BY <1>4 DEF KickClient, Unregister, ServedAgent, NoticesAlone
  <2> QED BY <2>1, NoticeFrame
<1>5. ASSUME NEW id \in Creds, ClientAdd(c, id) PROVE NoticeInv'
  <2>1. \A d \in Devices : bars'[d] \subseteq bars[d]
    BY <1>5 DEF ClientAdd, ServedAgent
  <2>2. NoticesAlone
    BY <1>5, <2>1 DEF ClientAdd, NoticesAlone
  <2> QED BY <2>2, NoticeFrame
<1>6. ASSUME NEW id \in Creds, NEW saved \in BOOLEAN, ClientDel(c, id, saved)
      PROVE  NoticeInv'
  <2>1. /\ \A e \in Conns : who'[e].kind = who[e].kind /\ who'[e].dev = who[e].dev
        /\ \A e \in Conns : pc'[e] = "verified" => pc[e] = "verified"
    BY <1>6 DEF ClientDel, Whos
  <2>2. /\ \A d \in Devices : "ban" \in bars'[d] => "ban" \in bars[d]
        /\ Excused \subseteq Excused'
    BY <1>6, RevocationFacts
  <2>3. UNCHANGED <<slot, told, task>>
    BY <1>6 DEF ClientDel
  <2>4. NoticesAlone
    BY <2>1, <2>2, <2>3 DEF NoticesAlone
  <2> QED BY <2>4, NoticeFrame
<1> QED BY <1>1, <1>2, <1>3, <1>4, <1>5, <1>6 DEF Frame

\* The ban's kicks leave its notice to come; the notice tells the agent in the
\* map, and records the one on its way and the one it misleads.
LEMMA NoticeHandler ==
  ASSUME Typed, SeatInv, BarsTrue, NoticeInv, NEW x \in Admins, Handler(x)
  PROVE  NoticeInv'
<1> USE DEF Typed, TypeOK, Placed, store, local, notices, history, Excused, AgentOf
<1>1. CASE KickCool(x) \/ ForgetThaw(x)
  <2>1. /\ \A y \in Admins : y # x => task'[y] = task[y]
        /\ task[x].op \in {"cool", "thaw"}
        /\ \A d \in Devices : bars'[d] \subseteq bars[d]
    BY <1>1 DEF KickCool, ForgetThaw, Then, Done, EndCooldown
  <2>2. NoticesAlone
    BY <1>1, <2>1 DEF KickCool, ForgetThaw, NoticesAlone
  <2> QED BY <2>2, NoticeFrame
<1>2. CASE KickClose(x)
  <2>1. /\ \A y \in Admins : y # x => task'[y] = task[y]
        /\ task[x].op = "kick"
        /\ \A d \in Devices : bars'[d] \subseteq bars[d] \cup {"cool"}
        /\ Excused \subseteq Excused'
    BY <1>2 DEF KickClose, ShutOut, Done
  <2>2. NoticesAlone
    BY <1>2, <2>1 DEF KickClose, NoticesAlone
  <2> QED BY <2>2, NoticeFrame
<1>3. ASSUME NEW saved \in BOOLEAN, ForgetErase(x, saved) PROVE NoticeInv'
  <2>1. /\ \A y \in Admins : y # x => task'[y] = task[y]
        /\ task[x].op = "erase"
        /\ \A d \in Devices : bars'[d] \subseteq bars[d] \cup {"gone"}
        /\ Excused \subseteq Excused'
    BY <1>3 DEF ForgetErase, Decided, Then, Done
  <2>2. NoticesAlone
    BY <1>3, <2>1 DEF ForgetErase, NoticesAlone
  <2> QED BY <2>2, NoticeFrame
<1>4. CASE DisableKick(x) \/ DisablePresence(x)
  <2>1. /\ task[x].dev \in Devices
        /\ task'[x].op \in {"ban.presence", "ban.notify"}
        /\ task'[x].dev = task[x].dev
        /\ \A y \in Admins : y # x => task'[y] = task[y]
    BY <1>4, ThenTyped, StepNames DEF DisableKick, DisablePresence
  <2>2. /\ ToTell(task[x].dev)'
        /\ \A d \in Devices : ToTell(d) => ToTell(d)'
    BY <2>1 DEF ToTell
  <2>3. /\ \A d \in Devices \ {task[x].dev} : bars'[d] = bars[d]
        /\ Excused \subseteq Excused'
    BY <1>4, <2>1 DEF DisableKick, DisablePresence, ShutOut
  <2>4. ASSUME NEW d \in Devices, NEW c \in Conns, AgentOf(d, c)',
               "ban" \in bars'[d], c \notin Excused'
        PROVE  told'[c] = "disabled" \/ ToTell(d)'
    <3>1. CASE d = task[x].dev
      BY <2>1, <2>2, <3>1
    <3>2. CASE d # task[x].dev
      <4>1. AgentOf(d, c) /\ "ban" \in bars[d] /\ c \notin Excused
              /\ told'[c] = told[c]
        BY <1>4, <2>3, <2>4, <3>2 DEF DisableKick, DisablePresence
      <4> QED BY <2>2, <4>1 DEF NoticeInv
    <3> QED BY <3>1, <3>2
  <2> QED BY <2>4 DEF NoticeInv
<1>5. CASE DisableNotify(x) \/ EnableNotify(x)
  <2> DEFINE e == task[x].dev
             what == IF task[x].op = "ban.notify" THEN "disabled" ELSE "enabled"
  <2>1. /\ e \in Devices
        /\ \A y \in Admins : y # x => task'[y] = task[y]
        /\ Notify(e, what)
        /\ UNCHANGED <<bars, pc, who, slot, spared>>
    BY <1>5, StepNames DEF DisableNotify, EnableNotify, Done
  <2>2. \A d \in Devices \ {e} : ToTell(d) => ToTell(d)'
    BY <2>1 DEF ToTell
  <2>3. Excused \subseteq Excused'
    BY <2>1 DEF Notify
  <2> SUFFICES ASSUME NEW d \in Devices, NEW c \in Conns, AgentOf(d, c),
                      "ban" \in bars[d], c \notin Excused'
               PROVE  told'[c] = "disabled" \/ ToTell(d)'
    BY <2>1 DEF NoticeInv
  <2>4. CASE d = e
    <3>1. e \in banned
      BY <2>4 DEF BarsTrue
    <3>2. c \in Holder("agent", e)
      <4>1. c \notin Arriving("agent", e, {"verified"})
        BY <2>1 DEF Notify
      <4> QED BY <2>4, <4>1 DEF Arriving, Holder
    <3>3. what = "disabled"
      BY <2>1, <3>1, <3>2 DEF Notify
    <3> QED BY <2>1, <3>2, <3>3 DEF Notify
  <2>5. CASE d # e
    <3>1. c \notin Holder("agent", e)
      <4>1. slot["agent"][e] = c => who[c].dev = e
        BY <2>1, TunnelConstants DEF SeatInv, NoGhost, Kinds
      <4> QED BY <2>5, <4>1 DEF Holder
    <3>2. told'[c] = told[c]
      BY <2>1, <3>1 DEF Notify
    <3> QED BY <2>2, <2>3, <2>5, <3>2 DEF NoticeInv
  <2> QED BY <2>4, <2>5
<1>6. CASE CredOffKick(x)
  <2>1. /\ \A y \in Admins : y # x => task'[y] = task[y]
        /\ task[x].op = "off.kick" /\ task[x].id \in Creds
        /\ Excused \subseteq Excused'
        /\ \A d \in Devices : bars'[d] \subseteq bars[d] \cup {task[x].id}
    BY <1>6 DEF CredOffKick, CutClient, Then
  <2>2. \A d \in Devices : "ban" \in bars'[d] => "ban" \in bars[d]
    BY <2>1, TunnelConstants
  <2>3. NoticesAlone
    BY <1>6, <2>1, <2>2 DEF CredOffKick, NoticesAlone
  <2> QED BY <2>3, NoticeFrame
<1>7. CASE CredOffPresence(x)
  <2>1. /\ \A y \in Admins : y # x => task'[y] = task[y]
        /\ task[x].op = "off.presence" /\ Excused \subseteq Excused'
    BY <1>7 DEF CredOffPresence, Done
  <2>2. NoticesAlone
    BY <1>7, <2>1 DEF CredOffPresence, NoticesAlone
  <2> QED BY <2>2, NoticeFrame
<1> QED BY <1>1, <1>2, <1>3, <1>4, <1>5, <1>6, <1>7 DEF Handler

LEMMA NoticeStep ==
  ASSUME Typed, SeatInv, BarsTrue, NoticeInv, [Next]_vars
  PROVE  NoticeInv'
<1> USE DEF Typed, TypeOK, store, local, notices, history, Excused, AgentOf
<1>1. ASSUME NEW c \in Conns, RemoteCloses(c) PROVE NoticeInv'
  <2>1. NoticesAlone
    BY <1>1 DEF RemoteCloses, NoticesAlone
  <2> QED BY <2>1, NoticeFrame
<1>2. ASSUME NEW d \in Devices, CooldownEnds(d) PROVE NoticeInv'
  <2>1. \A e \in Devices : bars'[e] \subseteq bars[e]
    BY <1>2 DEF CooldownEnds, EndCooldown
  <2>2. NoticesAlone
    BY <1>2, <2>1 DEF CooldownEnds, NoticesAlone
  <2> QED BY <2>2, NoticeFrame
<1>3. ASSUME NEW x \in Admins, Request(x) PROVE NoticeInv'
  <2>1. /\ UNCHANGED <<slot, pc, open, who, told>>
        /\ Excused \subseteq Excused'
        /\ \A y \in Admins : task[y].op # "none" => task'[y] = task[y]
        /\ \A d \in Devices :
              "ban" \in bars'[d] =>
                  "ban" \in bars[d] \/ BanChecked(d) \subseteq Excused'
    BY <1>3, RequestFacts
  <2>2. \A d \in Devices : ToTell(d) => ToTell(d)'
    BY <2>1 DEF ToTell
  <2> SUFFICES ASSUME NEW d \in Devices, NEW c \in Conns, AgentOf(d, c),
                      "ban" \in bars'[d], c \notin Excused'
               PROVE  told[c] = "disabled" \/ ToTell(d)'
    BY <2>1 DEF NoticeInv
  <2>3. c \in BanChecked(d)
    BY TunnelConstants DEF SeatInv, NoGhost, Kinds, BanChecked
  <2>4. "ban" \in bars[d] /\ c \notin Excused
    BY <2>1, <2>3
  <2> QED BY <2>2, <2>4 DEF NoticeInv
<1>4. CASE UNCHANGED vars
  <2>1. NoticesAlone
    BY <1>4 DEF vars, NoticesAlone
  <2> QED BY <2>1, NoticeFrame
<1> QED BY <1>1, <1>2, <1>3, <1>4, NoticeGoroutine, NoticeFromFrame,
           NoticeHandler DEF Next

\* When nothing is in progress an agent of a disabled device has been told so,
\* unless it was between its proof and the map when the notice went out, an
\* enabling request that had been overtaken spoke last, or the ban could not be
\* written to disk.
THEOREM NoticeCurrentEver == Spec => []NoticeCurrent
<1>1. Typed /\ SeatInv /\ PermitInv /\ [Next]_vars => PermitInv'
  BY PermitStep
<1>2. Typed /\ SeatInv /\ PermitInv /\ NoticeInv /\ [Next]_vars => NoticeInv'
  BY NoticeStep DEF PermitInv
<1>3. Init => NoticeInv
  BY DEF Init, NoticeInv, AgentOf, Nobody
<1>4. SeatInv /\ NoticeInv => NoticeCurrent
  <2> SUFFICES ASSUME SeatInv, NoticeInv, NEW d \in Devices, NEW a \in Conns,
                      slot["agent"][d] = a, "ban" \in bars[d], AtRest(d)
               PROVE  told[a] = "disabled" \/ a \in Excused
    BY DEF NoticeCurrent
  <2>1. AgentOf(d, a)
    BY TunnelConstants DEF SeatInv, NoGhost, Kinds, AgentOf
  <2>2. ~ToTell(d)
    BY DEF AtRest, ToTell
  <2> QED BY <2>1, <2>2 DEF NoticeInv
<1>5. Spec => Init /\ [][Next]_vars
  BY DEF Spec
<1> QED BY Seats, PermitInit, <1>1, <1>2, <1>3, <1>4, <1>5, PTL
=============================================================================
