--------------------------- MODULE RecordsProofs ----------------------------
(***************************************************************************)
(* Proofs about the relay's records: what it confirmed is on disk, the     *)
(* store passes its capacity by fewer devices than it has goroutines, no   *)
(* window of the registration limit holds more than the limit, and what    *)
(* the pages of the audit tab can show twice or leave out.                 *)
(***************************************************************************)
EXTENDS RecordsProps, NatFacts, FiniteSetTheorems, SequenceTheorems,
        TLAPS

\* Memory and file agree on what was confirmed, but for a removal that the
\* file lacks, and on every device that is in memory: no failed write leaves
\* one there that the file has not.
Agree == \A d \in Ids :
    /\ Known(d) => file[d].key = mem[d].key
    /\ told[d].key # Unknown =>
          /\ mem[d].key = told[d].key
          /\ d \notin unwritten => file[d].key = told[d].key
    /\ \A c \in Creds : told[d].creds[c] # Unknown =>
          /\ mem[d].creds[c] = told[d].creds[c]
          /\ d \notin unwritten => file[d].creds[c] = told[d].creds[c]
    /\ toldBan[d] # Unknown =>
          (d \in ban) = toldBan[d] /\ (d \in banFile) = toldBan[d]

Sound == StoreTyped /\ HandsTyped /\ Agree

USE DEF Statuses, Places, Checks, WithKey, WithCred

LEMMA InitSound == Init => Sound
<1> SUFFICES ASSUME Init PROVE Sound
  OBVIOUS
<1> USE RecordsConstants DEF Init
<1>1. StoreTyped
  BY DEF StoreTyped, Devices, NoDevice, Untold
<1>2. HandsTyped
  BY DEF HandsTyped, Idle
<1>3. Agree
  BY DEF Agree, Known, NoDevice, Untold
<1> QED
  BY <1>1, <1>2, <1>3 DEF Sound

\* Handlers change their place only among the places there are.
LEMMA GotoTyped ==
    ASSUME HandsTyped, NEW h \in Hands, NEW p \in Places, Goto(h, p),
           p \in Checks => hand[h].at \in Checks
    PROVE  HandsTyped'
  BY DEF HandsTyped, Goto

LEMMA EndsTyped ==
    ASSUME HandsTyped, NEW h \in Hands, Ends(h)
    PROVE  HandsTyped'
  BY DEF HandsTyped, Ends, Idle

LEMMA AnswerTyped ==
    ASSUME HandsTyped, NEW h \in Hands, NEW ok, Answer(h, ok)
    PROVE  HandsTyped'
<1>1. CASE ok
  BY <1>1, GotoTyped DEF Answer
<1>2. CASE ~ok
  BY <1>2, EndsTyped DEF Answer
<1> QED
  BY <1>1, <1>2

LEMMA StoreKept ==
    ASSUME Sound, UNCHANGED <<store, bans>>, HandsTyped'
    PROVE  Sound'
  BY DEF Sound, StoreTyped, Agree, Known, store, bans

\* Registration, up to its commitment, touches no record.
LEMMA AdmitSound ==
    ASSUME Sound, NEW h \in Hands, NEW d \in Ids, NEW k \in Keys,
           RegisterAdmit(h, d, k)
    PROVE  Sound'
<1>1. HandsTyped
  BY DEF Sound
<1>2. \/ hand' = hand
      \/ hand' = [hand EXCEPT ![h] =
                     [at |-> "cap", id |-> d, key |-> k, time |-> 0]]
  BY DEF RegisterAdmit
<1>3. HandsTyped'
  BY <1>1, <1>2 DEF HandsTyped, Places, Checks
<1>4. UNCHANGED <<store, bans>>
  BY DEF RegisterAdmit
<1> QED
  BY <1>3, <1>4, StoreKept

LEMMA ChecksSound ==
    ASSUME Sound, NEW h \in Hands, CapRead(h) \/ BanRead(h)
    PROVE  Sound'
<1>1. HandsTyped'
  BY GotoTyped, EndsTyped DEF Sound, CapRead, BanRead
<1>2. UNCHANGED <<store, bans>>
  BY DEF CapRead, BanRead
<1> QED
  BY <1>1, <1>2, StoreKept

LEMMA CommitSound ==
    ASSUME Sound, NEW h \in Hands, NEW saved \in BOOLEAN,
           RegisterCommit(h, saved)
    PROVE  Sound'
<1> DEFINE d == hand[h].id
           k == hand[h].key
<1>1. d \in Ids /\ k \in Keys
  BY DEF Sound, HandsTyped, RegisterCommit
<1>2. HandsTyped'
  BY AnswerTyped DEF Sound, RegisterCommit
<1>3. CASE Known(d)
  <2>1. /\ UNCHANGED <<mem, file, unwritten, bans>>
        /\ told' = IF mem[d].key = k
                      THEN WithKey(told, d, k) ELSE told
    BY <1>3 DEF RegisterCommit
  <2>2. StoreTyped'
    BY <1>1, <2>1 DEF Sound, StoreTyped, bans
  <2>3. Agree'
    BY <1>1, <1>3, <2>1 DEF Sound, StoreTyped, Agree, Known, bans
  <2> QED
    BY <1>2, <2>2, <2>3 DEF Sound
<1>4. CASE ~Known(d) /\ saved
  <2>1. /\ mem' = WithKey(mem, d, k) /\ file' = mem' /\ unwritten' = {}
        /\ told' = WithKey(told, d, k)
        /\ UNCHANGED bans
    BY <1>4 DEF RegisterCommit, Save
  <2>2. StoreTyped'
    BY <1>1, <2>1 DEF Sound, StoreTyped, Devices, bans
  <2>3. Agree'
    BY <1>1, <2>1 DEF Sound, StoreTyped, Devices, Agree, Known, bans
  <2> QED
    BY <1>2, <2>2, <2>3 DEF Sound
<1>5. CASE ~Known(d) /\ ~saved
  BY <1>2, <1>5, StoreKept DEF RegisterCommit
<1> QED
  BY <1>3, <1>4, <1>5

LEMMA CredSound ==
    ASSUME Sound, NEW h \in Hands, NEW d \in Ids, NEW c \in Creds,
           NEW s \in Statuses, NEW saved \in BOOLEAN,
           SetCred(h, d, c, s, saved)
    PROVE  Sound'
<1>1. HandsTyped'
  BY AnswerTyped DEF Sound, SetCred
<1>2. /\ mem' = WithCred(mem, d, c, s)
      /\ file' = IF saved THEN mem' ELSE file
      /\ unwritten' = IF saved THEN {} ELSE unwritten
      /\ told' = WithCred(told, d, c, IF saved THEN s ELSE Unknown)
      /\ UNCHANGED bans
  BY DEF SetCred, Save
<1>3. StoreTyped'
  BY <1>2 DEF Sound, StoreTyped, Devices, bans
<1>4. Agree'
  BY <1>2 DEF Sound, StoreTyped, Devices, Agree, Known, bans
<1> QED
  BY <1>1, <1>3, <1>4 DEF Sound

LEMMA ForgetSound ==
    ASSUME Sound, NEW h \in Hands, NEW d \in Ids, NEW saved \in BOOLEAN,
           Forget(h, d, saved)
    PROVE  Sound'
<1>1. HandsTyped'
  BY AnswerTyped DEF Sound, Forget
<1>2. /\ mem' = [mem EXCEPT ![d] = NoDevice]
      /\ file' = IF saved THEN mem' ELSE file
      /\ unwritten' = IF saved THEN {} ELSE unwritten
      /\ told' = [told EXCEPT ![d] = IF saved THEN NoDevice ELSE Untold]
      /\ UNCHANGED bans
  BY DEF Forget, Save, Without
<1>3. StoreTyped'
  BY <1>2 DEF Sound, StoreTyped, Devices, NoDevice, Untold, bans
<1>4. Agree'
  BY <1>2 DEF Sound, StoreTyped, Devices, Agree, Known, NoDevice, Untold, bans
<1> QED
  BY <1>1, <1>3, <1>4 DEF Sound

\* What the file still has of a device that is told to be gone, it is known
\* for; where it has nothing, the file says what was told.
LEMMA UnregisterSound ==
    ASSUME Sound, NEW h \in Hands, NEW d \in Ids, NEW saved \in BOOLEAN,
           Unregister(h, d, saved)
    PROVE  Sound'
<1>1. HandsTyped'
  BY AnswerTyped DEF Sound, Unregister
<1>2. /\ mem' = [mem EXCEPT ![d] = NoDevice]
      /\ told' = [told EXCEPT ![d] = NoDevice]
      /\ UNCHANGED bans
      /\ \/ file' = mem' /\ unwritten' = {}
         \/ /\ file' = file
            /\ unwritten' = unwritten \cup {e \in {d} : file[e] # NoDevice}
  <2>1. /\ Save(Without(d), saved /\ Known(d), {e \in {d} : file[e] # NoDevice})
        /\ told' = [told EXCEPT ![d] = NoDevice]
        /\ UNCHANGED bans
    BY DEF Unregister
  <2>2. CASE saved /\ Known(d)
    BY <2>1, <2>2 DEF Save, Without
  <2>3. CASE ~(saved /\ Known(d))
    BY <2>1, <2>3 DEF Save, Without
  <2> QED
    BY <2>1, <2>2, <2>3
<1>3. unwritten' \in SUBSET Ids /\ mem' \in Devices /\ file' \in Devices
  <2>1. mem' \in Devices
    BY <1>2 DEF Sound, StoreTyped, Devices, NoDevice
  <2>2. file' \in Devices
    BY <1>2, <2>1 DEF Sound, StoreTyped
  <2>3. unwritten' \in SUBSET Ids
    BY <1>2 DEF Sound, StoreTyped
  <2> QED
    BY <2>1, <2>2, <2>3
<1>4. StoreTyped'
  BY <1>2, <1>3 DEF Sound, StoreTyped, NoDevice, bans
<1>5. Agree'
  BY <1>2 DEF Sound, StoreTyped, Devices, Agree, Known, NoDevice, bans
<1> QED
  BY <1>1, <1>4, <1>5 DEF Sound

LEMMA BanSound ==
    ASSUME Sound, NEW h \in Hands, NEW d \in Ids, NEW b \in BOOLEAN,
           NEW saved \in BOOLEAN, SetBan(h, d, b, saved)
    PROVE  Sound'
<1>1. HandsTyped'
  BY AnswerTyped DEF Sound, SetBan
<1>2. StoreTyped'
  BY DEF Sound, StoreTyped, SetBan, store
<1>3. Agree'
  BY RecordsConstants DEF Sound, StoreTyped, Agree, Known, SetBan, store
<1> QED
  BY <1>1, <1>2, <1>3 DEF Sound

LEMMA TouchSound == ASSUME Sound, Touch PROVE Sound'
  BY DEF Sound, StoreTyped, HandsTyped, Agree, Known, Touch, Save, bans

LEMMA RestartSound ==
    ASSUME Sound, NEW saved \in BOOLEAN, Restart(saved)
    PROVE  Sound'
<1>1. HandsTyped'
  BY DEF HandsTyped, Idle, Restart
<1>2. StoreTyped' /\ Agree'
  BY DEF Sound, StoreTyped, Agree, Known, Restart, Untold
<1> QED
  BY <1>1, <1>2 DEF Sound

LEMMA LogSound ==
    ASSUME Sound, clock \in Nat, NEW h \in Hands, Logs(h)
    PROVE  Sound'
<1>1. CASE Note(h)
  BY <1>1, GotoTyped, StoreKept DEF Sound, Note
<1>2. CASE Stamp(h)
  <2>1. HandsTyped'
    BY <1>2 DEF Sound, HandsTyped, Stamp, Idle
  <2> QED
    BY <1>2, <2>1, StoreKept DEF Stamp
<1>3. ASSUME NEW how \in {"whole", "short", "none"}, NEW saved \in BOOLEAN,
             Write(h, how, saved)
      PROVE  Sound'
  BY <1>3, EndsTyped, StoreKept DEF Sound, Write
<1> QED
  BY <1>1, <1>2, <1>3 DEF Logs

\* The operations of the store but registration, by what they write.
LEMMA ManageKinds ==
    ASSUME NEW h \in Hands, Manages(h)
    PROVE  \E d \in Ids, saved \in BOOLEAN :
              \/ Forget(h, d, saved) \/ Unregister(h, d, saved)
              \/ \E banned \in BOOLEAN : SetBan(h, d, banned, saved)
              \/ \E c \in Creds : \E s \in Statuses \cup {mem[d].creds[c]} :
                    SetCred(h, d, c, s, saved)
<1>1. PICK d \in Ids, saved \in BOOLEAN :
        \/ Forget(h, d, saved) \/ Unregister(h, d, saved)
        \/ \E banned \in BOOLEAN : SetBan(h, d, banned, saved)
        \/ \E c \in Creds : \/ AddClient(h, d, c, saved)
                            \/ RemoveClient(h, d, c, saved)
                            \/ \E disabled \in BOOLEAN :
                                  SetClientDisabled(h, d, c, disabled, saved)
  BY DEF Manages
<1>2. ASSUME NEW c \in Creds, AddClient(h, d, c, saved)
      PROVE  \E s \in Statuses \cup {mem[d].creds[c]} :
                SetCred(h, d, c, s, saved)
  BY <1>2 DEF AddClient
<1>3. ASSUME NEW c \in Creds, RemoveClient(h, d, c, saved)
      PROVE  SetCred(h, d, c, "none", saved)
  BY <1>3 DEF RemoveClient
<1>4. ASSUME NEW c \in Creds, NEW disabled \in BOOLEAN,
             SetClientDisabled(h, d, c, disabled, saved)
      PROVE  \E s \in Statuses : SetCred(h, d, c, s, saved)
  BY <1>4 DEF SetClientDisabled, Switch
<1> QED
  BY <1>1, <1>2, <1>3, <1>4

LEMMA ManageSound ==
    ASSUME Sound, NEW h \in Hands, Manages(h)
    PROVE  Sound'
<1>1. \A d \in Ids, c \in Creds : mem[d].creds[c] \in Statuses
  BY DEF Sound, StoreTyped, Devices
<1>2. ASSUME NEW d \in Ids, NEW saved \in BOOLEAN, NEW c \in Creds,
             NEW s \in Statuses \cup {mem[d].creds[c]},
             SetCred(h, d, c, s, saved)
      PROVE  Sound'
  BY <1>1, <1>2, CredSound
<1> QED
  BY <1>2, ManageKinds, ForgetSound, UnregisterSound, BanSound

\* The tab only reads, and a second that passes changes no record.
LEMMA OthersSound ==
    ASSUME Sound, OpenTab \/ MoreLines \/ Tick
    PROVE  Sound'
<1>1. HandsTyped' /\ UNCHANGED <<store, bans>>
  BY DEF Sound, HandsTyped, OpenTab, MoreLines, Tick
<1> QED
  BY <1>1, StoreKept

LEMMA NextSound == Sound /\ clock \in Nat /\ [Next]_vars => Sound'
<1> SUFFICES ASSUME Sound, clock \in Nat, [Next]_vars PROVE Sound'
  OBVIOUS
<1>1. ASSUME NEW h \in Hands, Registers(h) PROVE Sound'
  BY <1>1, AdmitSound, ChecksSound, CommitSound DEF Registers
<1>2. ASSUME NEW h \in Hands, Manages(h) PROVE Sound'
  BY <1>2, ManageSound
<1>3. ASSUME NEW h \in Hands, Logs(h) PROVE Sound'
  BY <1>3, LogSound
<1>4. CASE Touch
  BY <1>4, TouchSound
<1>5. CASE OpenTab \/ MoreLines \/ Tick
  BY <1>5, OthersSound
<1>6. CASE \E saved \in BOOLEAN : Restart(saved)
  BY <1>6, RestartSound
<1>7. CASE UNCHANGED vars
  BY <1>7, StoreKept DEF Sound, HandsTyped, vars
<1> QED
  BY <1>1, <1>2, <1>3, <1>4, <1>5, <1>6, <1>7 DEF Next

LEMMA ClockCounts == Spec => [](clock \in Nat)
<1>1. Init => clock \in Nat
  BY DEF Init
<1>2. clock \in Nat /\ [Next]_vars => (clock \in Nat)'
  <2> SUFFICES ASSUME clock \in Nat, [Next]_vars PROVE clock' \in Nat
    OBVIOUS
  <2>1. ASSUME NEW h \in Hands, Registers(h) PROVE clock' \in Nat
    BY <2>1 DEF Registers, RegisterAdmit, CapRead, BanRead, RegisterCommit,
                Begins, count
  <2>2. ASSUME NEW h \in Hands, Manages(h) PROVE clock' \in Nat
    <3>1. Begins(h)
      BY <2>2, ManageKinds DEF Forget, Unregister, SetBan, SetCred
    <3> QED
      BY <3>1 DEF Begins
  <2>3. ASSUME NEW h \in Hands, Logs(h) PROVE clock' \in Nat
    BY <2>3 DEF Logs, Note, Stamp, Write, Begins, count
  <2>4. CASE Touch \/ OpenTab \/ MoreLines \/ Tick
    BY <2>4 DEF Touch, Save, OpenTab, MoreLines, Tick, count
  <2>5. CASE \E saved \in BOOLEAN : Restart(saved)
    BY <2>5 DEF Restart
  <2>6. CASE UNCHANGED vars
    BY <2>6 DEF vars, count
  <2> QED
    BY <2>1, <2>2, <2>3, <2>4, <2>5, <2>6 DEF Next
<1> QED
  BY <1>1, <1>2, PTL DEF Spec

\* The records keep their type and their agreement with the disk.
LEMMA SoundEver == Spec => []Sound
<1>1. Spec => [](clock \in Nat)
  BY ClockCounts
<1> QED
  BY <1>1, InitSound, NextSound, PTL DEF Spec

\* What the relay confirmed of a device, a credential or a ban is in its memory
\* and on disk, however operations interleave, writes fail and the relay
\* restarts; only a device that removed itself may still be in the file.
THEOREM PromisedEver == Spec => []Promised
<1>1. Sound => Promised
  BY DEF Sound, Agree, Promised, AsTold
<1> QED
  BY <1>1, SoundEver, PTL

-----------------------------------------------------------------------------
(* The capacity of the store. *)

Filed   == {d \in Ids : file[d].key # None}
Passing == {h \in Hands : hand[h].at \in {"ban", "commit"}}

\* Counting the registrations that have read the count and are not in yet;
\* the file has no more devices than memory once had.
Room ==
    /\ Cardinality(Listed) + Cardinality(Passing)
          <= MaxDevices + Cardinality(Hands) - 1
    /\ Cardinality(Filed) <= MaxDevices + Cardinality(Hands) - 1

LEMMA Finite ==
    /\ IsFiniteSet(Listed) /\ Cardinality(Listed) \in Nat
    /\ IsFiniteSet(Filed) /\ Cardinality(Filed) \in Nat
    /\ IsFiniteSet(Passing) /\ Cardinality(Passing) \in Nat
    /\ Cardinality(Passing) <= Cardinality(Hands)
    /\ Cardinality(Hands) \in Nat
<1>1. Listed \subseteq Ids /\ Filed \subseteq Ids /\ Passing \subseteq Hands
  BY DEF Listed, Filed, Passing
<1>2. IsFiniteSet(Ids) /\ IsFiniteSet(Hands)
  BY RecordsConstants
<1> QED
  BY <1>1, <1>2, FS_Subset, FS_CardinalityType

\* Fewer devices and fewer goroutines on their way leave the room there was.
LEMMA Shrinks ==
    ASSUME Room, Listed' \subseteq Listed, Passing' \subseteq Passing,
           \/ Filed' \subseteq Filed
           \/ Filed' \subseteq Listed
    PROVE  Room'
<1>1. Cardinality(Listed') <= Cardinality(Listed)
  BY Finite, FS_Subset
<1>2. Cardinality(Passing') <= Cardinality(Passing)
  BY Finite, FS_Subset
<1>3. \/ Cardinality(Filed') <= Cardinality(Filed)
      \/ Cardinality(Filed') <= Cardinality(Listed)
  BY Finite, FS_Subset
<1>4. /\ Cardinality(Listed') \in Nat /\ Cardinality(Passing') \in Nat
      /\ Cardinality(Filed') \in Nat
  <2>1. /\ Listed' \subseteq Ids /\ Filed' \subseteq Ids
        /\ Passing' \subseteq Hands
    BY DEF Listed, Filed, Passing
  <2> QED
    BY <2>1, RecordsConstants, FS_Subset, FS_CardinalityType
<1>5. MaxDevices \in Nat
  BY RecordsConstants
<1> QED
  BY <1>1, <1>2, <1>3, <1>4, <1>5, Finite DEF Room

LEMMA CapReadRoom ==
    ASSUME Room, HandsTyped, NEW h \in Hands, CapRead(h)
    PROVE  Room'
<1>1. CASE Cardinality(Listed) >= MaxDevices
  <2>1. /\ Ends(h) /\ UNCHANGED store
    BY <1>1 DEF CapRead
  <2>2. Passing' \subseteq Passing
    BY <2>1 DEF Passing, Ends, Idle, HandsTyped
  <2> QED
    BY <2>1, <2>2, Shrinks DEF Listed, Known, Filed, store
<1>2. CASE ~(Cardinality(Listed) >= MaxDevices)
  <2>1. UNCHANGED <<mem, file>>
    BY <1>2 DEF CapRead, store
  <2>2. Listed' = Listed /\ Filed' = Filed
    BY <2>1 DEF Listed, Known, Filed
  <2>3. Passing' \subseteq Hands
    BY DEF Passing
  <2>4. /\ Cardinality(Passing') <= Cardinality(Hands)
        /\ Cardinality(Passing') \in Nat
    BY <2>3, RecordsConstants, FS_Subset, FS_CardinalityType
  <2>5. MaxDevices \in Nat
    BY RecordsConstants
  <2> QED
    BY <1>2, <2>2, <2>4, <2>5, Finite DEF Room
<1> QED
  BY <1>1, <1>2

\* A registration that gets in was one of those on their way.
LEMMA CommitRoom ==
    ASSUME Room, Sound, NEW h \in Hands, NEW saved \in BOOLEAN,
           RegisterCommit(h, saved)
    PROVE  Room'
<1> DEFINE d == hand[h].id
<1>1. /\ d \in Ids /\ h \in Passing
      /\ mem \in Devices
  BY DEF Sound, StoreTyped, HandsTyped, RegisterCommit, Passing
<1>2. Passing' = Passing \ {h}
  <2>1. Goto(h, "stamp") \/ Ends(h)
    BY DEF RegisterCommit, Answer
  <2>2. CASE Goto(h, "stamp")
    BY <2>2 DEF Sound, HandsTyped, Goto, Passing
  <2>3. CASE Ends(h)
    BY <2>3 DEF Sound, HandsTyped, Ends, Idle, Passing
  <2> QED
    BY <2>1, <2>2, <2>3
<1>3. Cardinality(Passing') = Cardinality(Passing) - 1
  BY <1>1, <1>2, Finite, FS_RemoveElement
<1>4. CASE UNCHANGED <<mem, file>>
  BY <1>2, <1>4, Shrinks DEF Listed, Known, Filed
<1>5. CASE ~Known(d) /\ saved
  <2>1. mem' = WithKey(mem, d, hand[h].key) /\ file' = mem'
    BY <1>5 DEF RegisterCommit, Save
  <2>2. hand[h].key # None
    BY RecordsConstants DEF Sound, HandsTyped, RegisterCommit
  <2>3. d \notin Listed /\ Listed' = Listed \cup {d} /\ Filed' = Listed'
    BY <1>1, <1>5, <2>1, <2>2 DEF Devices, Listed, Known, Filed
  <2>4. Cardinality(Listed') = Cardinality(Listed) + 1
    BY <2>3, Finite, FS_AddElement
  <2>5. Cardinality(Passing') \in Nat
    BY <1>2, Finite, FS_Subset, FS_CardinalityType
  <2>6. MaxDevices \in Nat
    BY RecordsConstants
  <2> QED
    BY <1>3, <2>3, <2>4, <2>5, <2>6, Finite DEF Room
<1> QED
  BY <1>4, <1>5 DEF RegisterCommit, store

\* Every other operation removes devices or writes those there are.
LEMMA ManageRoom ==
    ASSUME Room, Sound, NEW h \in Hands, Manages(h)
    PROVE  Room'
<1>1. HandsTyped /\ mem \in Devices
  BY DEF Sound, StoreTyped
<1>2. ASSUME NEW ok, Answer(h, ok) PROVE Passing' \subseteq Passing
  BY <1>1, <1>2 DEF HandsTyped, Answer, Goto, Ends, Idle, Passing
<1>3. ASSUME NEW d \in Ids, NEW c \in Creds, NEW s, NEW saved \in BOOLEAN,
             SetCred(h, d, c, s, saved)
      PROVE  Room'
  <2>1. Listed' = Listed /\ (Filed' = Filed \/ Filed' = Listed)
    BY <1>1, <1>3 DEF SetCred, Save, Devices, Listed, Known, Filed
  <2>2. Passing' \subseteq Passing
    BY <1>2, <1>3 DEF SetCred
  <2> QED
    BY <2>1, <2>2, Shrinks
<1>4. ASSUME NEW d \in Ids, NEW saved \in BOOLEAN,
             Forget(h, d, saved) \/ Unregister(h, d, saved)
      PROVE  Room'
  <2>1. /\ mem' = [mem EXCEPT ![d] = NoDevice]
        /\ file' = file \/ file' = mem'
    BY <1>4 DEF Forget, Unregister, Save, Without
  <2>2. Listed' \subseteq Listed /\ (Filed' = Filed \/ Filed' = Listed')
    BY <1>1, <2>1 DEF Devices, NoDevice, Listed, Known, Filed
  <2>3. Passing' \subseteq Passing
    BY <1>2, <1>4 DEF Forget, Unregister
  <2> QED
    BY <2>2, <2>3, Shrinks
<1>5. ASSUME NEW d \in Ids, NEW b \in BOOLEAN, NEW saved \in BOOLEAN,
             SetBan(h, d, b, saved)
      PROVE  Room'
  <2>1. Listed' = Listed /\ Filed' = Filed
    BY <1>5 DEF SetBan, store, Listed, Known, Filed
  <2>2. Passing' \subseteq Passing
    BY <1>2, <1>5 DEF SetBan
  <2> QED
    BY <2>1, <2>2, Shrinks
<1>6. PICK d \in Ids, saved \in BOOLEAN :
        \/ Forget(h, d, saved) \/ Unregister(h, d, saved)
        \/ \E banned \in BOOLEAN : SetBan(h, d, banned, saved)
        \/ \E c \in Creds : \E s \in Statuses \cup {mem[d].creds[c]} :
              SetCred(h, d, c, s, saved)
  BY ManageKinds
<1> QED
  BY <1>3, <1>4, <1>5, <1>6

LEMMA NextRoom == Room /\ Sound /\ [Next]_vars => Room'
<1> SUFFICES ASSUME Room, Sound, [Next]_vars PROVE Room'
  OBVIOUS
<1> USE DEF Sound, HandsTyped
<1>1. ASSUME UNCHANGED <<mem, file>>, Passing' \subseteq Passing PROVE Room'
  BY <1>1, Shrinks DEF Listed, Known, Filed
<1>2. ASSUME NEW h \in Hands, Registers(h) PROVE Room'
  <2>1. ASSUME NEW d \in Ids, NEW k \in Keys, RegisterAdmit(h, d, k)
        PROVE  Room'
    BY <1>1, <2>1 DEF RegisterAdmit, Passing, store
  <2>2. CASE BanRead(h)
    BY <1>1, <2>2 DEF BanRead, Passing, Goto, Ends, Idle, store
  <2> QED
    BY <1>2, <2>1, <2>2, CapReadRoom, CommitRoom DEF Registers
<1>3. ASSUME NEW h \in Hands, Manages(h) PROVE Room'
  BY <1>3, ManageRoom
<1>4. ASSUME NEW h \in Hands, Logs(h) PROVE Room'
  <2>1. CASE Note(h)
    BY <1>1, <2>1 DEF Note, Passing, Goto, store
  <2>2. CASE Stamp(h)
    BY <1>1, <2>2 DEF Stamp, Passing, Idle, store
  <2>3. CASE \E how \in {"whole", "short", "none"}, saved \in BOOLEAN :
               Write(h, how, saved)
    BY <1>1, <2>3 DEF Write, Passing, Ends, Idle, store
  <2> QED
    BY <1>4, <2>1, <2>2, <2>3 DEF Logs
<1>5. CASE Touch
  BY <1>5, Shrinks DEF Touch, Save, Passing, Listed, Known, Filed
<1>6. CASE OpenTab \/ MoreLines \/ Tick \/ UNCHANGED vars
  BY <1>1, <1>6 DEF OpenTab, MoreLines, Tick, vars, Passing, store
<1>7. ASSUME NEW saved \in BOOLEAN, Restart(saved) PROVE Room'
  <2>1. Listed' = Filed /\ Filed' = Filed /\ Passing' = {}
    BY <1>7 DEF Restart, Listed, Known, Filed, Passing, Idle
  <2>2. Cardinality({}) = 0
    BY FS_EmptySet
  <2>3. MaxDevices \in Nat
    BY RecordsConstants
  <2> QED
    BY <2>1, <2>2, <2>3, Finite DEF Room
<1> QED
  BY <1>2, <1>3, <1>4, <1>5, <1>6, <1>7 DEF Next

\* Registrations that read the count together bring the store past its
\* capacity by fewer devices than there are goroutines, also over restarts.
THEOREM CappedEver == Spec => []Capped
<1>1. Init => Room
  <2> SUFFICES ASSUME Init PROVE Room
    OBVIOUS
  <2>1. Listed = {} /\ Filed = {} /\ Passing = {}
    BY DEF Init, Listed, Known, Filed, Passing, NoDevice, Idle
  <2>2. Cardinality({}) = 0
    BY FS_EmptySet
  <2>3. MaxDevices \in Nat /\ MaxDevices >= 1
    BY RecordsConstants
  <2> QED
    BY <2>1, <2>2, <2>3, Finite DEF Room
<1>2. Room => Capped
  <2>1. MaxDevices \in Nat
    BY RecordsConstants
  <2> QED
    BY <2>1, Finite DEF Room, Capped
<1> QED
  BY <1>1, <1>2, NextRoom, SoundEver, PTL DEF Spec

-----------------------------------------------------------------------------
(* What the loops over the log and over the stamps keep. *)

KeptStep(s, good, i, x) == IF i \in good THEN Append(x, s[i]) ELSE x

\* f is what is kept of the first elements of s, and of all of them.
Collects(f, s, good) ==
    /\ Kept(s, good) = f[Len(s)]
    /\ f[0] = <<>>
    /\ \A i \in 1 .. Len(s) : f[i] = KeptStep(s, good, i, f[i - 1])

LEMMA KeptRecursion ==
  ASSUME NEW V, NEW s \in Seq(V), NEW good
  PROVE  \E f \in [0 .. Len(s) -> Seq(V)] : Collects(f, s, good)
<1> DEFINE n == Len(s)
           Body(f) == [i \in 0 .. n |->
              IF i = 0 THEN <<>>
              ELSE IF i \in good THEN Append(f[i - 1], s[i]) ELSE f[i - 1]]
           F == CHOOSE f : f = Body(f)
           G == [i \in 1 .. n |-> [x \in Seq(V) |-> KeptStep(s, good, i, x)]]
<1>1. n \in Nat /\ (\A i \in 1 .. n : s[i] \in V) /\ <<>> \in Seq(V)
  OBVIOUS
<1>2. G \in [1 .. n -> [Seq(V) -> Seq(V)]]
  BY <1>1 DEF KeptStep
<1>3. PICK f \in [0 .. n -> Seq(V)] : Follows(f, <<>>, n, G)
  <2> HIDE DEF G, n, Body, F
  <2> QED
    BY <1>1, <1>2, Recursion, Zenon
<1>4. /\ f[0] = <<>>
      /\ \A i \in 1 .. n : f[i] = KeptStep(s, good, i, f[i - 1])
  <2>1. \A i \in 1 .. n, x \in Seq(V) : G[i][x] = KeptStep(s, good, i, x)
    OBVIOUS
  <2>2. \A i \in 1 .. n : f[i - 1] \in Seq(V)
    BY <1>1
  <2> HIDE DEF F, Body, G
  <2> QED
    BY <1>3, <2>1, <2>2 DEF Follows
<1>5. F = Body(F)
  <2>1. ASSUME NEW i \in 0 .. n PROVE f[i] = Body(f)[i]
    <3> HIDE DEF F, G
    <3>1. Body(f)[i] = IF i = 0 THEN <<>> ELSE KeptStep(s, good, i, f[i - 1])
      BY DEF KeptStep
    <3> HIDE DEF Body
    <3>2. i # 0 => i \in 1 .. n
      BY <1>1
    <3> QED
      BY <1>4, <3>1, <3>2
  <2>2. f = [i \in 0 .. n |-> f[i]] /\ Body(f) = [i \in 0 .. n |-> Body(f)[i]]
    OBVIOUS
  <2>3. f = Body(f)
    <3> HIDE DEF F, G, Body
    <3> QED
      BY <2>1, <2>2
  <2> HIDE DEF Body
  <2> QED
    BY <2>3
<1>6. Kept(s, good) = F[n]
  BY DEF Kept
<1>7. /\ F[0] = <<>>
      /\ \A i \in 1 .. n : F[i] = KeptStep(s, good, i, F[i - 1])
  <2> HIDE DEF F
  <2>1. 0 \in 0 .. n /\ \A i \in 1 .. n : i \in 0 .. n /\ i # 0
    BY <1>1
  <2> QED
    BY <1>5, <2>1 DEF KeptStep
<1>8. F \in [0 .. n -> Seq(V)]
  <2> HIDE DEF F
  <2> DEFINE T == {k \in Nat : k <= n => F[k] \in Seq(V)}
  <2>1. 0 \in T
    BY <1>1, <1>7
  <2>2. ASSUME NEW k \in T PROVE k + 1 \in T
    <3> SUFFICES ASSUME k + 1 <= n PROVE F[k + 1] \in Seq(V)
      OBVIOUS
    <3>1. F[k] \in Seq(V) /\ k + 1 \in 1 .. n /\ s[k + 1] \in V
      BY <1>1
    <3>2. F[k + 1] = KeptStep(s, good, k + 1, F[k])
      BY <1>7, <3>1
    <3> QED
      BY <3>1, <3>2 DEF KeptStep
  <2>3. T = Nat
    <3> HIDE DEF T
    <3>1. T \in SUBSET Nat
      BY DEF T
    <3> QED
      BY <2>1, <2>2, <3>1, SetInduction
  <2>4. \A k \in 0 .. n : F[k] \in Seq(V)
    BY <2>3
  <2>5. DOMAIN F = 0 .. n /\ F = [k \in DOMAIN F |-> F[k]]
    BY <1>5
  <2> QED
    BY <2>4, <2>5
<1> HIDE DEF F
<1>9. Collects(F, s, good)
  BY <1>6, <1>7 DEF Collects
<1> QED
  BY <1>8, <1>9

\* m tells where in s each element of x comes from: in order, from places in
\* `good` up to k and from all of them.
Traces(m, x, s, good, k) ==
    /\ m \in [1 .. Len(x) -> 1 .. k]
    /\ \A i \in 1 .. Len(x) : m[i] \in good /\ x[i] = s[m[i]]
    /\ \A i, j \in 1 .. Len(x) : i < j => m[i] < m[j]
    /\ \A g \in good : g \in 1 .. k => \E i \in 1 .. Len(x) : m[i] = g

LEMMA KeptTraces ==
  ASSUME NEW V, NEW s \in Seq(V), NEW good
  PROVE  /\ Kept(s, good) \in Seq(V)
         /\ \E m : Traces(m, Kept(s, good), s, good, Len(s))
<1> DEFINE n == Len(s)
<1>0. PICK f \in [0 .. n -> Seq(V)] : Collects(f, s, good)
  BY KeptRecursion
<1>1. n \in Nat /\ \A i \in 1 .. n : s[i] \in V
  OBVIOUS
<1>2. /\ Kept(s, good) = f[n]
      /\ f[0] = <<>>
      /\ \A i \in 1 .. n : f[i] = KeptStep(s, good, i, f[i - 1])
  BY <1>0 DEF Collects
<1> DEFINE Has(k) == \E m : Traces(m, f[k], s, good, k)
           T == {k \in Nat : k <= n => Has(k)}
<1> HIDE DEF n
<1>3. 0 \in T
  <2> DEFINE m == [i \in 1 .. 0 |-> 0]
  <2>1. Len(f[0]) = 0
    BY <1>2
  <2>2. Traces(m, f[0], s, good, 0)
    BY <2>1 DEF Traces
  <2> QED
    BY <2>2
<1>4. ASSUME NEW k \in T PROVE k + 1 \in T
  <2> HIDE DEF Has
  <2>0. k \in Nat /\ (k <= n => Has(k))
    BY <1>4
  <2> SUFFICES ASSUME k + 1 <= n PROVE Has(k + 1)
    BY <2>0
  <2> USE DEF Has
  <2>1. PICK m : Traces(m, f[k], s, good, k)
    BY <1>1, <2>0
  <2>2. /\ f[k] \in Seq(V) /\ k + 1 \in 1 .. n /\ s[k + 1] \in V
        /\ Len(f[k]) \in Nat
    BY <1>1, <1>2, <2>0
  <2>3. f[k + 1] = KeptStep(s, good, k + 1, f[k])
    BY <1>2, <2>0, <2>2
  <2>4. CASE k + 1 \notin good
    <3>1. f[k + 1] = f[k]
      BY <2>3, <2>4 DEF KeptStep
    <3> DEFINE c == Len(f[k])
    <3>2. /\ c \in Nat /\ m \in [1 .. c -> 1 .. k]
          /\ \A i \in 1 .. c : m[i] \in good /\ f[k][i] = s[m[i]]
          /\ \A i, j \in 1 .. c : i < j => m[i] < m[j]
          /\ \A g \in good : g \in 1 .. k => \E i \in 1 .. c : m[i] = g
      BY <2>1, <2>2 DEF Traces
    <3>3. 1 .. k \subseteq 1 .. k + 1
            /\ \A g \in 1 .. k + 1 : g = k + 1 \/ g \in 1 .. k
      BY <2>0
    <3>4. m \in [1 .. c -> 1 .. k + 1]
      BY <3>2, <3>3
    <3>5. \A g \in good : g \in 1 .. k + 1 => \E i \in 1 .. c : m[i] = g
      BY <2>4, <3>2, <3>3
    <3>6. Traces(m, f[k + 1], s, good, k + 1)
      BY <3>1, <3>2, <3>4, <3>5 DEF Traces
    <3> QED
      BY <3>6
  <2>5. CASE k + 1 \in good
    <3> DEFINE c == Len(f[k])
               l == c + 1
               h == [i \in 1 .. l |-> IF i = l THEN k + 1 ELSE m[i]]
    <3>1. /\ Len(f[k + 1]) = l /\ f[k + 1][l] = s[k + 1]
          /\ \A i \in 1 .. c : f[k + 1][i] = f[k][i]
      BY <2>2, <2>3, <2>5 DEF KeptStep
    <3>a. /\ c \in Nat /\ m \in [1 .. c -> 1 .. k]
          /\ \A i \in 1 .. c : m[i] \in good /\ f[k][i] = s[m[i]]
          /\ \A i, j \in 1 .. c : i < j => m[i] < m[j]
          /\ \A g \in good : g \in 1 .. k => \E i \in 1 .. c : m[i] = g
      BY <2>1, <2>2 DEF Traces
    <3> HIDE DEF c
    <3>2. /\ l \in Nat /\ l \in 1 .. l /\ h[l] = k + 1
          /\ \A i \in 1 .. l : i # l => i \in 1 .. c /\ h[i] = m[i]
          /\ \A i \in 1 .. c : i \in 1 .. l /\ i < l /\ h[i] = m[i]
      BY <3>a
    <3>3. h \in [1 .. l -> 1 .. k + 1]
      BY <2>0, <3>a
    <3> HIDE DEF h, l
    <3>4. \A i \in 1 .. l : h[i] \in good /\ f[k + 1][i] = s[h[i]]
      BY <2>5, <3>1, <3>2, <3>a
    <3>5. \A i, j \in 1 .. l : i < j => h[i] < h[j]
      <4>1. ASSUME NEW i \in 1 .. l, NEW j \in 1 .. l, i < j
            PROVE  h[i] < h[j]
        <5>1. i # l /\ i \in 1 .. c /\ m[i] \in 1 .. k
          <6>1. i # l
            BY <3>2, <4>1
          <6>2. i \in 1 .. c
            BY <3>2, <4>1, <6>1
          <6> QED
            BY <3>a, <6>1, <6>2
        <5> QED
          BY <2>0, <3>2, <3>a, <4>1, <5>1
      <4> QED
        BY <4>1
    <3>6. \A g \in good : g \in 1 .. k + 1 => \E i \in 1 .. l : h[i] = g
      <4>1. ASSUME NEW g \in good, g \in 1 .. k + 1
            PROVE  \E i \in 1 .. l : h[i] = g
        <5>1. CASE g = k + 1
          BY <3>2, <5>1
        <5>2. CASE g # k + 1
          <6>1. g \in 1 .. k
            BY <2>0, <4>1, <5>2
          <6> QED
            BY <3>2, <3>a, <6>1
        <5> QED
          BY <5>1, <5>2
      <4> QED
        BY <4>1
    <3>7. Traces(h, f[k + 1], s, good, k + 1)
      BY <3>1, <3>3, <3>4, <3>5, <3>6 DEF Traces
    <3> QED
      BY <3>7
  <2> QED
    BY <2>4, <2>5
<1>5. T = Nat
  <2> HIDE DEF T
  <2>1. T \in SUBSET Nat
    BY DEF T
  <2> QED
    BY <1>3, <1>4, <2>1, SetInduction
<1>6. Has(n)
  <2>1. n \in T
    <3> HIDE DEF T
    <3> QED
      BY <1>1, <1>5
  <2>2. n <= n
    BY <1>1
  <2> HIDE DEF Has
  <2> QED
    BY <2>1, <2>2
<1> QED
  BY <1>1, <1>2, <1>6 DEF n

\* What is kept from some place on is the rest of the sequence.
LEMMA KeptSuffix ==
  ASSUME NEW V, NEW s \in Seq(V), NEW j \in 1 .. Len(s) + 1
  PROVE  Kept(s, j .. Len(s)) = SubSeq(s, j, Len(s))
<1> DEFINE n == Len(s)
           good == j .. n
<1>0. PICK f \in [0 .. n -> Seq(V)] : Collects(f, s, good)
  BY KeptRecursion
<1>1. n \in Nat /\ \A i \in 1 .. n : s[i] \in V
  OBVIOUS
<1>2. /\ Kept(s, good) = f[n]
      /\ f[0] = <<>>
      /\ \A i \in 1 .. n : f[i] = KeptStep(s, good, i, f[i - 1])
  BY <1>0 DEF Collects
<1> DEFINE Is(k) == f[k] = SubSeq(s, j, k)
           T == {k \in Nat : k <= n => Is(k)}
<1>3. 0 \in T
  BY <1>2
<1>4. ASSUME NEW k \in T PROVE k + 1 \in T
  <2> HIDE DEF Is
  <2>0. k \in Nat /\ (k <= n => Is(k))
    BY <1>4
  <2> SUFFICES ASSUME k + 1 <= n PROVE Is(k + 1)
    BY <2>0
  <2> USE DEF Is
  <2>1. f[k] = SubSeq(s, j, k) /\ k \in Nat /\ k + 1 \in 1 .. n
    <3> HIDE DEF good, Is, T
    <3>1. k <= n /\ k + 1 \in 1 .. n
      BY <1>1, <2>0
    <3>2. Is(k)
      BY <2>0, <3>1
    <3> QED
      BY <2>0, <3>1, <3>2 DEF Is
  <2>2. f[k + 1] = KeptStep(s, good, k + 1, f[k])
    <3> HIDE DEF good, Is, T, n
    <3>1. (k + 1) - 1 = k
      BY <2>1
    <3> QED
      BY <1>2, <2>1, <3>1
  <2>3. CASE k + 1 < j
    <3>1. f[k + 1] = f[k]
      BY <2>1, <2>2, <2>3 DEF KeptStep
    <3> QED
      BY <2>1, <2>3, <3>1
  <2>4. CASE j <= k + 1
    <3>1. f[k + 1] = Append(f[k], s[k + 1])
      BY <1>1, <2>1, <2>2, <2>4 DEF KeptStep
    <3>2. SubSeq(s, j, k + 1) = SubSeq(s, j, k) \o <<s[k + 1]>>
      <4>1. j \in 1 .. n /\ k + 1 \in j .. n /\ (k + 1) - 1 = k
        BY <1>1, <2>1, <2>4
      <4> QED
        BY <4>1, SubSeqRecursiveSecond
    <3>3. Append(f[k], s[k + 1]) = f[k] \o <<s[k + 1]>>
      <4>1. f[k] \in Seq(V) /\ s[k + 1] \in V
        BY <1>1, <2>1
      <4> QED
        BY <4>1, AppendIsConcat
    <3> QED
      BY <2>1, <3>1, <3>2, <3>3
  <2> QED
    BY <2>1, <2>3, <2>4
<1>5. T = Nat
  <2> HIDE DEF T
  <2>1. T \in SUBSET Nat
    BY DEF T
  <2> QED
    BY <1>3, <1>4, <2>1, SetInduction
<1>6. Is(n)
  BY <1>1, <1>5
<1> QED
  BY <1>2, <1>6

-----------------------------------------------------------------------------
(* The limit of registrations. *)

\* What a step may do to the limits, the log and the pages.
LEMMA Kinds ==
    ASSUME [Next]_vars
    PROVE  \/ UNCHANGED <<gate, audit, reader, clock>>
           \/ \E h \in Hands, d \in Ids, k \in Keys : RegisterAdmit(h, d, k)
           \/ \E h \in Hands, how \in {"whole", "short", "none"},
                 saved \in BOOLEAN : Write(h, how, saved)
           \/ OpenTab \/ MoreLines \/ Tick
           \/ \E saved \in BOOLEAN : Restart(saved)
<1>1. ASSUME NEW h \in Hands, Registers(h)
      PROVE  \/ UNCHANGED <<gate, audit, reader, clock>>
             \/ \E d \in Ids, k \in Keys : RegisterAdmit(h, d, k)
  BY <1>1 DEF Registers, CapRead, BanRead, RegisterCommit, count
<1>2. ASSUME NEW h \in Hands, Manages(h)
      PROVE  UNCHANGED <<gate, audit, reader, clock>>
  BY <1>2, ManageKinds DEF Forget, Unregister, SetBan, SetCred, Begins
<1>3. ASSUME NEW h \in Hands, Note(h) \/ Stamp(h)
      PROVE  UNCHANGED <<gate, audit, reader, clock>>
  BY <1>3 DEF Note, Stamp, Begins, count
<1>4. CASE Touch \/ UNCHANGED vars
  BY <1>4 DEF Touch, vars, count
<1> QED
  BY <1>1, <1>2, <1>3, <1>4 DEF Next, Logs

\* The stamps the limit looks at are the latest of those admitted, and the
\* others are a window old.
Paces ==
    /\ clock \in Nat
    /\ admits \in Seq(Nat) /\ recent \in Seq(Nat)
    /\ Len(recent) <= Len(admits)
    /\ \A i \in 1 .. Len(recent) :
          recent[i] = admits[i + (Len(admits) - Len(recent))]
    /\ \A i \in 1 .. Len(admits) : admits[i] <= clock
    /\ \A i, j \in 1 .. Len(admits) : i < j => admits[i] <= admits[j]
    /\ \A i \in 1 .. Len(admits) - Len(recent) : admits[i] + Window <= clock
    /\ Paced

LEMMA FreshIsSuffix ==
    ASSUME Paces
    PROVE  \E o \in 0 .. Len(recent) :
              /\ Fresh(recent) = SubSeq(recent, o + 1, Len(recent))
              /\ \A i \in 1 .. o : recent[i] + Window <= clock
<1> DEFINE n == Len(recent)
           good == {i \in DOMAIN recent : recent[i] + Window > clock}
<1>1. /\ n \in Nat /\ clock \in Nat /\ Window \in Nat
      /\ \A i \in 1 .. n : recent[i] \in Nat
      /\ DOMAIN recent = 1 .. n
  BY RecordsConstants DEF Paces
<1>2. ASSUME NEW i \in 1 .. n, NEW j \in 1 .. n, i < j
      PROVE  recent[i] <= recent[j]
  <2> DEFINE o == Len(admits) - Len(recent)
  <2>1. o \in Nat /\ i + o \in 1 .. Len(admits) /\ j + o \in 1 .. Len(admits)
          /\ i + o < j + o
    BY <1>1, <1>2 DEF Paces
  <2> QED
    BY <2>1 DEF Paces
<1>3. \E o \in 0 .. n : good = o + 1 .. n
  <2>1. CASE good = {}
    BY <1>1, <2>1
  <2>2. CASE good # {}
    <3>1. good \in SUBSET Nat
      BY <1>1
    <3> HIDE DEF good
    <3>2. PICK l \in good : \A k \in good : l <= k
      BY <2>2, <3>1, LeastNatural
    <3>3. l \in 1 .. n /\ recent[l] + Window > clock
      BY <1>1, <3>2 DEF good
    <3>4. \A k \in l .. n : k \in good
      BY <1>1, <1>2, <3>3 DEF good
    <3>5. good = l .. n
      BY <1>1, <3>1, <3>2, <3>3, <3>4 DEF good
    <3>6. l - 1 \in 0 .. n /\ (l - 1) + 1 = l
      BY <1>1, <3>3
    <3> QED
      BY <3>5, <3>6
  <2> QED
    BY <2>1, <2>2
<1>4. PICK o \in 0 .. n : good = o + 1 .. n
  BY <1>3
<1>5. Fresh(recent) = SubSeq(recent, o + 1, n)
  <2>1. recent \in Seq(Nat) /\ o + 1 \in 1 .. Len(recent) + 1
    BY <1>1 DEF Paces
  <2>2. Fresh(recent) = Kept(recent, good)
    BY DEF Fresh
  <2> HIDE DEF good
  <2> QED
    BY <1>4, <2>1, <2>2, KeptSuffix
<1>6. \A i \in 1 .. o : recent[i] + Window <= clock
  <2>1. ASSUME NEW i \in 1 .. o PROVE recent[i] + Window <= clock
    <3>1. i \in 1 .. n /\ i \notin good
      BY <1>1, <1>4
    <3> QED
      BY <1>1, <3>1
  <2> QED
    BY <2>1
<1> QED
  BY <1>5, <1>6

\* Dropping the stamps that are a window old keeps all of this.
LEMMA FreshKeeps ==
    ASSUME Paces
    PROVE  /\ Fresh(recent) \in Seq(Nat)
           /\ Len(Fresh(recent)) <= Len(admits)
           /\ \A i \in 1 .. Len(Fresh(recent)) : Fresh(recent)[i]
                 = admits[i + (Len(admits) - Len(Fresh(recent)))]
           /\ \A i \in 1 .. Len(admits) - Len(Fresh(recent)) :
                 admits[i] + Window <= clock
<1> DEFINE n == Len(recent)
           a == Len(admits)
<1>1. PICK o \in 0 .. n :
         /\ Fresh(recent) = SubSeq(recent, o + 1, n)
         /\ \A i \in 1 .. o : recent[i] + Window <= clock
  BY FreshIsSuffix
<1>2. n \in Nat /\ a \in Nat /\ n <= a /\ \A i \in 1 .. n : recent[i] \in Nat
  BY DEF Paces
<1>3. /\ Fresh(recent) \in Seq(Nat) /\ Len(Fresh(recent)) = n - o
      /\ \A i \in 1 .. n - o : Fresh(recent)[i] = recent[i + o]
  <2>1. recent \in Seq(Nat) /\ o + 1 \in 1 .. n + 1
    BY <1>2 DEF Paces
  <2>2. /\ SubSeq(recent, o + 1, n) \in Seq(Nat)
        /\ Len(SubSeq(recent, o + 1, n)) = n - o
    BY <1>2, <2>1
  <2>3. ASSUME NEW i \in 1 .. n - o
        PROVE  SubSeq(recent, o + 1, n)[i] = recent[i + o]
    <3>1. (o + 1) + i - 1 = i + o
      BY <1>2
    <3> QED
      BY <1>2, <2>1, <3>1
  <2> QED
    BY <1>1, <2>2, <2>3
<1>4. ASSUME NEW i \in 1 .. n - o
      PROVE  Fresh(recent)[i] = admits[i + (a - (n - o))]
  <2>1. i + o \in 1 .. n /\ (i + o) + (a - n) = i + (a - (n - o))
    BY <1>2
  <2>2. recent[i + o] = admits[(i + o) + (a - n)]
    BY <2>1 DEF Paces
  <2> QED
    BY <1>3, <2>1, <2>2
<1>5. ASSUME NEW i \in 1 .. a - (n - o) PROVE admits[i] + Window <= clock
  <2>1. CASE i <= a - n
    <3>1. i \in 1 .. a - n
      BY <1>2, <2>1
    <3> QED
      BY <3>1 DEF Paces
  <2>2. CASE i > a - n
    <3> DEFINE j == i - (a - n)
    <3>1. j \in 1 .. o /\ j \in 1 .. n /\ j + (a - n) = i
      BY <1>2, <2>2
    <3>2. recent[j] = admits[j + (a - n)]
      BY <3>1 DEF Paces
    <3> QED
      BY <1>1, <3>1, <3>2
  <2> QED
    BY <1>2, <2>1, <2>2
<1>6. n - o <= a
  BY <1>2
<1> HIDE DEF n, a
<1> QED
  BY <1>3, <1>4, <1>5, <1>6 DEF a

LEMMA AdmitPaces ==
    ASSUME Paces, NEW h \in Hands, NEW d \in Ids, NEW k \in Keys,
           RegisterAdmit(h, d, k)
    PROVE  Paces'
<1> DEFINE s == Fresh(recent)
           l == Len(s)
           a == Len(admits)
<1>1. /\ s \in Seq(Nat) /\ l \in Nat /\ a \in Nat /\ l <= a
      /\ \A i \in 1 .. l : s[i] = admits[i + (a - l)]
      /\ \A i \in 1 .. a - l : admits[i] + Window <= clock
      /\ clock' = clock /\ clock \in Nat /\ MaxRate \in Nat \ {0}
      /\ admits \in Seq(Nat) /\ Len(admits) = a /\ Len(s) = l
  BY FreshKeeps, RecordsConstants DEF Paces, RegisterAdmit, Begins
<1> HIDE DEF s, l, a
<1>2. CASE l >= MaxRate
  <2>1. recent' = s /\ admits' = admits
    BY <1>2 DEF RegisterAdmit, s, l
  <2> QED
    BY <1>1, <2>1 DEF Paces, Paced
<1>3. CASE ~(l >= MaxRate)
  <2>1. recent' = Append(s, clock) /\ admits' = Append(admits, clock)
    BY <1>3 DEF RegisterAdmit, Admitted, s, l
  <2>2. /\ Len(recent') = l + 1 /\ recent'[l + 1] = clock
        /\ \A i \in 1 .. l : recent'[i] = s[i]
        /\ Len(admits') = a + 1 /\ admits'[a + 1] = clock
        /\ \A i \in 1 .. a : admits'[i] = admits[i]
        /\ admits' \in Seq(Nat) /\ recent' \in Seq(Nat)
    BY <1>1, <2>1
  <2>3. \A i \in 1 .. l + 1 : recent'[i] = admits'[i + ((a + 1) - (l + 1))]
    <3>1. ASSUME NEW i \in 1 .. l + 1
          PROVE  recent'[i] = admits'[i + ((a + 1) - (l + 1))]
      <4>1. i + ((a + 1) - (l + 1)) = i + (a - l)
        BY <1>1
      <4>2. CASE i = l + 1
        BY <1>1, <2>2, <4>1, <4>2
      <4>3. CASE i # l + 1
        <5>1. i \in 1 .. l /\ i + (a - l) \in 1 .. a
          BY <1>1, <4>3
        <5> QED
          BY <1>1, <2>2, <4>1, <5>1
      <4> QED
        BY <4>2, <4>3
    <3> QED
      BY <3>1
  <2>4. \A i \in 1 .. a : admits[i] <= clock
    BY <1>1 DEF Paces
  <2>5. \A i, j \in 1 .. a + 1 : i < j => admits'[i] <= admits'[j]
    <3>1. ASSUME NEW i \in 1 .. a + 1, NEW j \in 1 .. a + 1, i < j
          PROVE  admits'[i] <= admits'[j]
      <4>1. i \in 1 .. a
        BY <1>1, <3>1
      <4>2. CASE j = a + 1
        BY <2>2, <2>4, <4>1, <4>2
      <4>3. CASE j # a + 1
        <5>1. j \in 1 .. a
          BY <1>1, <4>3
        <5> QED
          BY <1>1, <2>2, <3>1, <4>1, <5>1 DEF Paces
      <4> QED
        BY <4>2, <4>3
    <3> QED
      BY <3>1
  <2>6. Paced'
    <3> SUFFICES ASSUME NEW i \in 1 .. a + 1, i + MaxRate \in 1 .. a + 1
                 PROVE  admits'[i + MaxRate] >= admits'[i] + Window
      BY <2>2 DEF Paced
    <3>1. i \in 1 .. a /\ admits'[i] = admits[i]
      BY <1>1, <2>2
    <3>2. CASE i + MaxRate = a + 1
      <4>1. i \in 1 .. a - l
        BY <1>1, <1>3, <3>2
      <4> QED
        BY <1>1, <2>2, <3>1, <3>2, <4>1, RecordsConstants
    <3>3. CASE i + MaxRate # a + 1
      <4>1. i + MaxRate \in 1 .. a
        BY <1>1, <3>3
      <4>2. admits[i + MaxRate] >= admits[i] + Window
        <5>1. Paced /\ DOMAIN admits = 1 .. a
          BY <1>1 DEF Paces
        <5> QED
          BY <3>1, <4>1, <5>1 DEF Paced
      <4> QED
        BY <2>2, <3>1, <4>1, <4>2
    <3> QED
      BY <3>2, <3>3
  <2>7. \A i \in 1 .. (a + 1) - (l + 1) : admits'[i] + Window <= clock
    <3>1. (a + 1) - (l + 1) = a - l /\ \A i \in 1 .. a - l : i \in 1 .. a
      BY <1>1
    <3> QED
      BY <1>1, <2>2, <3>1
  <2>8. \A i \in 1 .. a + 1 : admits'[i] <= clock
    <3>1. ASSUME NEW i \in 1 .. a + 1 PROVE admits'[i] <= clock
      <4>1. i = a + 1 \/ i \in 1 .. a
        BY <1>1
      <4> QED
        BY <1>1, <2>2, <2>4, <4>1
    <3> QED
      BY <3>1
  <2> QED
    BY <1>1, <2>2, <2>3, <2>5, <2>6, <2>7, <2>8 DEF Paces
<1> QED
  BY <1>2, <1>3

LEMMA PacesKeep == Paces /\ [Next]_vars => Paces'
<1> SUFFICES ASSUME Paces, [Next]_vars PROVE Paces'
  OBVIOUS
<1>1. ASSUME UNCHANGED gate, clock' \in {clock, clock + 1} PROVE Paces'
  <2>1. clock' \in Nat /\ clock <= clock' /\ clock \in Nat /\ Window \in Nat
          /\ \A i \in 1 .. Len(admits) : admits[i] \in Nat
    BY <1>1, RecordsConstants DEF Paces
  <2>2. UNCHANGED <<recent, admits>>
    BY <1>1 DEF gate
  <2>3. \A i \in 1 .. Len(admits) : admits[i] <= clock'
    BY <2>1 DEF Paces
  <2>4. \A i \in 1 .. Len(admits) - Len(recent) : admits[i] + Window <= clock'
    <3>1. ASSUME NEW i \in 1 .. Len(admits) - Len(recent)
          PROVE  admits[i] + Window <= clock'
      <4>1. admits[i] + Window <= clock /\ i \in 1 .. Len(admits)
        BY DEF Paces
      <4> QED
        BY <2>1, <4>1
    <3> QED
      BY <3>1
  <2> QED
    BY <2>1, <2>2, <2>3, <2>4 DEF Paces, Paced
<1>2. ASSUME NEW saved \in BOOLEAN, Restart(saved) PROVE Paces'
  BY <1>2 DEF Restart, Paces, Paced
<1>3. ASSUME NEW h \in Hands, NEW how, NEW saved, Write(h, how, saved)
      PROVE  Paces'
  BY <1>1, <1>3 DEF Write, count
<1>4. CASE OpenTab \/ MoreLines \/ Tick
  BY <1>1, <1>4 DEF OpenTab, MoreLines, Tick, count
<1> QED
  BY <1>1, <1>2, <1>3, <1>4, AdmitPaces, Kinds

\* No window, wherever it begins, has more registrations than the limit:
\* allowRegister forgets a stamp only when it is a window old.
THEOREM PacedEver == Spec => []Paced
<1>1. Init => Paces
  BY DEF Init, Paces, Paced
<1>2. Paces => Paced
  BY DEF Paces
<1> QED
  BY <1>1, <1>2, PacesKeep, PTL DEF Spec

-----------------------------------------------------------------------------
(* The lines of the log. *)

LineType == [n : Nat, time : Nat, whole : BOOLEAN, open : BOOLEAN]

\* The lines of s are those appended, in their order, stamped at `now` or
\* before it.
Filled(s, top, now) ==
    /\ s \in Seq(LineType)
    /\ \A i \in 1 .. Len(s) :
          s[i].n <= top /\ s[i].time <= now /\ (s[i].whole => ~s[i].open)
    /\ \A i, j \in 1 .. Len(s) : i < j => s[i].n < s[j].n

Counters ==
    /\ clock \in Nat /\ clock <= MaxClock
    /\ lines \in Nat /\ pruned \in Nat /\ ops \in Nat /\ restarts \in Nat

LogInv ==
    /\ Counters
    /\ Filled(log, lines, clock)
    /\ \A h \in Hands : hand[h].time <= clock

\* pruneLocked only takes lines away.
LEMMA PruneFilled ==
    ASSUME LogInv, NEW saved \in BOOLEAN
    PROVE  /\ Filled(Prune(saved), lines, clock)
           /\ \A i \in 1 .. Len(Prune(saved)) :
                 \E j \in 1 .. Len(log) : Prune(saved)[i] = log[j]
<1> DEFINE good == {i \in DOMAIN log : ~Dropped(log[i])}
           r == Kept(log, good)
<1>1. log \in Seq(LineType) /\ Filled(log, lines, clock)
  BY DEF LogInv, Filled
<1>2. CASE ~saved
  <2>1. Prune(saved) = log
    BY <1>2 DEF Prune
  <2> QED
    BY <1>1, <2>1
<1>3. CASE saved
  <2>1. Prune(saved) = r
    BY <1>3 DEF Prune
  <2> HIDE DEF good
  <2>2. r \in Seq(LineType) /\ \E m : Traces(m, r, log, good, Len(log))
    BY <1>1, KeptTraces
  <2>3. PICK m : Traces(m, r, log, good, Len(log))
    BY <2>2
  <2> HIDE DEF r
  <2>4. /\ Len(r) \in Nat
        /\ \A i \in 1 .. Len(r) :
              m[i] \in 1 .. Len(log) /\ r[i] = log[m[i]]
        /\ \A i, j \in 1 .. Len(r) : i < j => m[i] < m[j]
    BY <2>2, <2>3 DEF Traces
  <2>5. Filled(r, lines, clock)
    BY <1>1, <2>2, <2>4 DEF Filled
  <2> QED
    BY <2>1, <2>4, <2>5
<1> QED
  BY <1>2, <1>3

\* An appended line is the last, and the only one that is new.
LEMMA AppendedFilled ==
    ASSUME NEW s, NEW t \in Nat, NEW how \in {"whole", "short", "none"},
           LogInv, Filled(s, lines, clock), t <= clock
    PROVE  /\ Filled(Appended(s, t, how), lines + 1, clock)
           /\ \A i \in 1 .. Len(Appended(s, t, how)) :
                 \/ \E j \in 1 .. Len(s) : Appended(s, t, how)[i] = s[j]
                 \/ Appended(s, t, how)[i].n = lines + 1
<1> DEFINE line == [n |-> lines + 1, time |-> t,
                    whole |-> how = "whole", open |-> how = "short"]
           torn == [line EXCEPT !.whole = FALSE]
           c == Len(s)
           r == Appended(s, t, how)
<1>1. /\ lines \in Nat /\ clock \in Nat /\ c \in Nat /\ s \in Seq(LineType)
      /\ \A i \in 1 .. c : s[i] \in LineType
  BY DEF LogInv, Counters, Filled
<1>2. \A e \in {line, torn} : /\ e \in LineType /\ e.n = lines + 1
                              /\ e.time <= clock /\ (e.whole => ~e.open)
  <2>1. line \in LineType
    <3>1. lines + 1 \in Nat
      BY <1>1
    <3>2. \A b1, b2 \in BOOLEAN : [n |-> lines + 1, time |-> t,
             whole |-> b1, open |-> b2] \in LineType
      BY <3>1 DEF LineType
    <3> QED
      BY <3>2
  <2>2. /\ line.n = lines + 1 /\ line.time = t
        /\ line.whole = (how = "whole") /\ line.open = (how = "short")
    OBVIOUS
  <2>3. line.whole => ~line.open
    BY <2>2
  <2> HIDE DEF line
  <2>4. torn \in LineType /\ torn.n = line.n /\ torn.time = line.time
          /\ torn.whole = FALSE
    BY <2>1 DEF LineType
  <2> HIDE DEF torn
  <2> QED
    BY <2>1, <2>2, <2>3, <2>4
<1> HIDE DEF line, torn
<1>3. CASE how = "none"
  <2>1. r = s
    BY <1>3 DEF Appended
  <2> QED
    BY <1>1, <2>1 DEF Filled, LineType
<1>4. ASSUME NEW l \in Nat, l <= c, NEW e \in {line, torn},
             r = SubSeq(s, 1, l) \o <<e>>
      PROVE  /\ Filled(r, lines + 1, clock)
             /\ \A i \in 1 .. Len(r) :
                   (\E j \in 1 .. c : r[i] = s[j]) \/ r[i].n = lines + 1
  <2>1. /\ r \in Seq(LineType) /\ Len(r) = l + 1 /\ r[l + 1] = e
        /\ \A i \in 1 .. l : i \in 1 .. c /\ r[i] = s[i]
    <3>1. /\ SubSeq(s, 1, l) \in Seq(LineType) /\ Len(SubSeq(s, 1, l)) = l
          /\ \A i \in 1 .. l : i \in 1 .. c /\ SubSeq(s, 1, l)[i] = s[i]
      BY <1>1, <1>4
    <3>2. SubSeq(s, 1, l) \o <<e>> = Append(SubSeq(s, 1, l), e)
            /\ e \in LineType
      <4>1. e \in LineType
        BY <1>2
      <4> QED
        BY <3>1, <4>1, AppendIsConcat
    <3> HIDE DEF r, c
    <3> QED
      BY <1>4, <3>1, <3>2
  <2> HIDE DEF r, c
  <2>2. \A i \in 1 .. l + 1 : i = l + 1 \/ i \in 1 .. l
    BY <1>4
  <2>3. ASSUME NEW i \in 1 .. l + 1
        PROVE  /\ r[i].n <= lines + 1 /\ r[i].time <= clock
               /\ (r[i].whole => ~r[i].open)
               /\ (\E j \in 1 .. c : r[i] = s[j]) \/ r[i].n = lines + 1
    <3>1. CASE i = l + 1
      BY <1>1, <1>2, <2>1, <3>1
    <3>2. CASE i \in 1 .. l
      <4>1. i \in 1 .. c /\ r[i] = s[i] /\ s[i].n \in Nat
        BY <1>1, <2>1, <3>2 DEF LineType
      <4>2. s[i].n <= lines /\ s[i].time <= clock /\ (s[i].whole => ~s[i].open)
        BY <4>1 DEF Filled, c
      <4> QED
        BY <1>1, <4>1, <4>2
    <3> QED
      BY <2>2, <3>1, <3>2
  <2>4. ASSUME NEW i \in 1 .. l + 1, NEW j \in 1 .. l + 1, i < j
        PROVE  r[i].n < r[j].n
    <3>1. i \in 1 .. l /\ i \in 1 .. c /\ r[i] = s[i] /\ s[i].n \in Nat
      BY <1>1, <1>4, <2>1, <2>4 DEF LineType
    <3>2. CASE j = l + 1
      <4>1. s[i].n <= lines
        BY <3>1 DEF Filled, c
      <4> QED
        BY <1>1, <1>2, <2>1, <3>1, <3>2, <4>1
    <3>3. CASE j \in 1 .. l
      BY <2>1, <2>4, <3>1, <3>3 DEF Filled, c
    <3> QED
      BY <2>2, <3>2, <3>3
  <2> QED
    BY <2>1, <2>3, <2>4 DEF Filled
<1>5. CASE how # "none" /\ s # <<>> /\ Last(s).open
  <2>1. r = Front(s) \o <<torn>>
    BY <1>5 DEF Appended, line, torn
  <2>2. c # 0
    BY <1>1, <1>5
  <2>3. r = SubSeq(s, 1, c - 1) \o <<torn>> /\ c - 1 \in Nat /\ c - 1 <= c
    BY <1>1, <2>1, <2>2 DEF Front
  <2> HIDE DEF r, c
  <2> QED
    BY <1>4, <2>3 DEF r, c
<1>6. CASE how # "none" /\ ~(s # <<>> /\ Last(s).open)
  <2>1. r = Append(s, line)
    BY <1>6 DEF Appended, line
  <2>2. r = SubSeq(s, 1, c) \o <<line>>
    <3>1. s = SubSeq(s, 1, c)
      BY <1>1
    <3>2. line \in LineType
      BY <1>2
    <3>3. Append(s, line) = s \o <<line>>
      BY <1>1, <3>2, AppendIsConcat
    <3> HIDE DEF r, c
    <3> QED
      BY <2>1, <3>1, <3>3
  <2>3. c \in Nat /\ c <= c /\ line \in {line, torn}
    BY <1>1
  <2> HIDE DEF r, c
  <2> QED
    BY <1>4, <2>2, <2>3 DEF r, c
<1> QED
  BY <1>3, <1>5, <1>6

LEMMA CountersKeep == Counters /\ [Next]_vars => Counters' /\ clock <= clock'
<1> SUFFICES ASSUME Counters, [Next]_vars
             PROVE  Counters' /\ clock <= clock'
  OBVIOUS
<1> USE RecordsConstants DEF Counters
<1>1. ASSUME NEW h \in Hands, Registers(h) PROVE Counters' /\ clock <= clock'
  <2>1. UNCHANGED <<clock, restarts, audit>> /\ ops' \in {ops, ops + 1}
    <3>1. ASSUME NEW d \in Ids, NEW k \in Keys, RegisterAdmit(h, d, k)
          PROVE  UNCHANGED <<clock, restarts, audit>> /\ ops' \in {ops, ops + 1}
      BY <3>1 DEF RegisterAdmit, Begins
    <3>2. ASSUME NEW saved \in BOOLEAN, RegisterCommit(h, saved)
          PROVE  UNCHANGED <<clock, restarts, audit>> /\ ops' \in {ops, ops + 1}
      BY <3>2 DEF RegisterCommit, count
    <3> QED
      BY <1>1, <3>1, <3>2 DEF Registers, CapRead, BanRead, count
  <2> QED
    BY <2>1 DEF audit
<1>2. ASSUME NEW h \in Hands, Manages(h) PROVE Counters' /\ clock <= clock'
  <2>1. Begins(h) /\ UNCHANGED audit
    BY <1>2, ManageKinds DEF Forget, Unregister, SetBan, SetCred
  <2> QED
    BY <2>1 DEF Begins, audit
<1>3. ASSUME NEW h \in Hands, Logs(h) PROVE Counters' /\ clock <= clock'
  BY <1>3 DEF Logs, Note, Stamp, Write, Begins, count, audit
<1>4. CASE Touch \/ OpenTab \/ MoreLines \/ Tick
  BY <1>4 DEF Touch, Save, OpenTab, MoreLines, Tick, count, audit
<1>5. CASE \E saved \in BOOLEAN : Restart(saved)
  BY <1>5 DEF Restart
<1>6. CASE UNCHANGED vars
  BY <1>6 DEF vars, count, audit
<1> QED
  BY <1>1, <1>2, <1>3, <1>4, <1>5, <1>6 DEF Next

\* Nothing but Stamp gives a goroutine a time.
LEMMA HandTimes ==
    ASSUME HandsTyped, [Next]_vars
    PROVE  \A h \in Hands : hand'[h].time \in {hand[h].time, 0, clock}
<1> USE DEF HandsTyped
<1>1. ASSUME NEW h \in Hands, NEW p, Goto(h, p) \/ Ends(h)
      PROVE  \A g \in Hands : hand'[g].time \in {hand[g].time, 0, clock}
  BY <1>1 DEF Goto, Ends, Idle
<1>2. ASSUME NEW h \in Hands, NEW ok, Answer(h, ok)
      PROVE  \A g \in Hands : hand'[g].time \in {hand[g].time, 0, clock}
  BY <1>1, <1>2 DEF Answer
<1>3. ASSUME NEW h \in Hands, Registers(h)
      PROVE  \A g \in Hands : hand'[g].time \in {hand[g].time, 0, clock}
  <2>1. ASSUME NEW d \in Ids, NEW k \in Keys, RegisterAdmit(h, d, k)
        PROVE  \A g \in Hands : hand'[g].time \in {hand[g].time, 0, clock}
    BY <2>1 DEF RegisterAdmit
  <2>2. CASE CapRead(h) \/ BanRead(h)
    BY <1>1, <2>2 DEF CapRead, BanRead
  <2>3. ASSUME NEW saved \in BOOLEAN, RegisterCommit(h, saved)
        PROVE  \A g \in Hands : hand'[g].time \in {hand[g].time, 0, clock}
    BY <1>2, <2>3 DEF RegisterCommit
  <2> QED
    BY <1>3, <2>1, <2>2, <2>3 DEF Registers
<1>4. ASSUME NEW h \in Hands, Manages(h)
      PROVE  \A g \in Hands : hand'[g].time \in {hand[g].time, 0, clock}
  BY <1>2, <1>4, ManageKinds DEF Forget, Unregister, SetBan, SetCred
<1>5. ASSUME NEW h \in Hands, Logs(h)
      PROVE  \A g \in Hands : hand'[g].time \in {hand[g].time, 0, clock}
  <2>1. CASE Note(h)
    BY <1>1, <2>1 DEF Note
  <2>2. CASE Stamp(h)
    BY <2>2 DEF Stamp, Idle
  <2>3. ASSUME NEW how, NEW saved, Write(h, how, saved)
        PROVE  \A g \in Hands : hand'[g].time \in {hand[g].time, 0, clock}
    BY <1>1, <2>3 DEF Write
  <2> QED
    BY <1>5, <2>1, <2>2, <2>3 DEF Logs
<1>6. CASE Touch \/ OpenTab \/ MoreLines \/ Tick \/ UNCHANGED vars
  BY <1>6 DEF Touch, Save, OpenTab, MoreLines, Tick, vars
<1>7. ASSUME NEW saved \in BOOLEAN, Restart(saved)
      PROVE  \A g \in Hands : hand'[g].time \in {hand[g].time, 0, clock}
  BY <1>7 DEF Restart, Idle
<1> QED
  BY <1>3, <1>4, <1>5, <1>6, <1>7 DEF Next

\* The log after a step: as it was, thinned, or with a line more.
LEMMA LogSteps ==
    ASSUME LogInv, Sound, [Next]_vars
    PROVE  /\ Filled(log', lines', clock)
           /\ lines <= lines'
           /\ \A i \in 1 .. Len(log') :
                 (\E j \in 1 .. Len(log) : log'[i] = log[j]) \/ log'[i].n > lines
<1>1. lines \in Nat /\ Filled(log, lines, clock)
  BY DEF LogInv, Counters
<1>2. CASE UNCHANGED audit
  BY <1>1, <1>2 DEF audit
<1>3. ASSUME NEW h \in Hands, NEW how \in {"whole", "short", "none"},
             NEW saved \in BOOLEAN, Write(h, how, saved)
      PROVE  /\ Filled(log', lines + 1, clock) /\ lines' = lines + 1
             /\ \A i \in 1 .. Len(log') :
                   (\E j \in 1 .. Len(log) : log'[i] = log[j])
                   \/ log'[i].n = lines + 1
  <2>1. PICK s \in {Prune(saved), log} :
           log' = Appended(s, hand[h].time, how)
    BY <1>3 DEF Write
  <2>2. /\ Filled(s, lines, clock)
        /\ \A i \in 1 .. Len(s) : \E j \in 1 .. Len(log) : s[i] = log[j]
    BY <1>1, <2>1, PruneFilled
  <2>3. hand[h].time \in Nat /\ hand[h].time <= clock
    BY DEF LogInv, Sound, HandsTyped
  <2>4. lines' = lines + 1
    BY <1>3 DEF Write
  <2> HIDE DEF LogInv
  <2>5. /\ Filled(log', lines + 1, clock)
        /\ \A i \in 1 .. Len(log') :
              (\E j \in 1 .. Len(s) : log'[i] = s[j]) \/ log'[i].n = lines + 1
    BY <2>1, <2>2, <2>3, AppendedFilled
  <2> QED
    BY <2>2, <2>4, <2>5
<1>4. ASSUME NEW saved \in BOOLEAN, Restart(saved)
      PROVE  /\ Filled(log', lines, clock) /\ lines' = lines
             /\ \A i \in 1 .. Len(log') :
                   \E j \in 1 .. Len(log) : log'[i] = log[j]
  BY <1>1, <1>4, PruneFilled DEF Restart
<1>5. \/ UNCHANGED audit
      \/ \E h \in Hands, how \in {"whole", "short", "none"},
            saved \in BOOLEAN : Write(h, how, saved)
      \/ \E saved \in BOOLEAN : Restart(saved)
  BY Kinds DEF RegisterAdmit, OpenTab, MoreLines, Tick
<1>6. CASE \E h \in Hands, how \in {"whole", "short", "none"},
              saved \in BOOLEAN : Write(h, how, saved)
  <2>1. /\ Filled(log', lines + 1, clock) /\ lines' = lines + 1
        /\ \A i \in 1 .. Len(log') :
              (\E j \in 1 .. Len(log) : log'[i] = log[j])
              \/ log'[i].n = lines + 1
    BY <1>3, <1>6
  <2> QED
    BY <1>1, <2>1
<1>7. CASE \E saved \in BOOLEAN : Restart(saved)
  <2>1. /\ Filled(log', lines, clock) /\ lines' = lines
        /\ \A i \in 1 .. Len(log') :
              \E j \in 1 .. Len(log) : log'[i] = log[j]
    BY <1>4, <1>7
  <2> QED
    BY <1>1, <2>1
<1> QED
  BY <1>2, <1>5, <1>6, <1>7

LEMMA FilledLater ==
    ASSUME NEW s, NEW top, NEW now \in Nat, NEW later \in Nat, now <= later,
           Filled(s, top, now)
    PROVE  Filled(s, top, later)
<1>1. \A i \in 1 .. Len(s) : s[i] \in LineType
  BY DEF Filled
<1> QED
  BY <1>1 DEF Filled, LineType

LEMMA LogKeeps == LogInv /\ Sound /\ [Next]_vars => LogInv'
<1> SUFFICES ASSUME LogInv, Sound, [Next]_vars PROVE LogInv'
  OBVIOUS
<1>1. Counters' /\ clock <= clock' /\ clock \in Nat /\ clock' \in Nat
  BY CountersKeep DEF LogInv, Counters
<1>2. Filled(log', lines', clock')
  BY <1>1, LogSteps, FilledLater
<1>3. ASSUME NEW h \in Hands PROVE hand'[h].time <= clock'
  <2>1. hand'[h].time \in {hand[h].time, 0, clock}
    BY HandTimes DEF Sound
  <2>2. hand[h].time \in Nat /\ hand[h].time <= clock
    BY DEF LogInv, Sound, HandsTyped
  <2> QED
    BY <1>1, <2>1, <2>2
<1> QED
  BY <1>1, <1>2, <1>3 DEF LogInv, Filled, Counters

-----------------------------------------------------------------------------
(* The pages of the audit tab. *)

\* p is a page of what can be read before `before`: lines of the log, the
\* newest first, and every line it leaves out is older than its last; an empty
\* page leaves out only what is not looked at.
Paged(p, before) ==
    /\ p \in Seq(LineType)
    /\ \A k \in 1 .. Len(p) : \E i \in 1 .. Len(log) :
          p[k] = log[i] /\ log[i].whole /\ log[i].time < before
    /\ \A k, l \in 1 .. Len(p) : k < l => p[l].n < p[k].n
    /\ \A i \in 1 .. Len(log) : log[i].whole /\ log[i].time < before =>
          \/ Len(p) = 0 /\ ~Scanned(i)
          \/ Len(p) # 0 /\ \E k \in 1 .. Len(p) : p[k] = log[i]
          \/ Len(p) # 0 /\ log[i].n < p[Len(p)].n

LEMMA Joined ==
    ASSUME NEW s \in Seq(Nat), NEW w \in Seq(Nat)
    PROVE  /\ Len(s \o w) = Len(s) + Len(w)
           /\ \A k \in 1 .. Len(s) : (s \o w)[k] = s[k]
           /\ \A k \in 1 .. Len(w) : (s \o w)[Len(s) + k] = w[k]
<1> DEFINE c == Len(s)
           z == Len(w)
           u == s \o w
<1>1. /\ Len(s \o w) = Len(s) + Len(w)
      /\ \A k \in 1 .. Len(s) + Len(w) :
            (s \o w)[k] = IF k <= Len(s) THEN s[k] ELSE w[k - Len(s)]
  BY ConcatProperties, Zenon
<1>2. c \in Nat /\ z \in Nat
  OBVIOUS
<1>3. /\ Len(u) = c + z
      /\ \A k \in 1 .. c + z : u[k] = IF k <= c THEN s[k] ELSE w[k - c]
  BY <1>1
<1> HIDE DEF u, c, z
<1>4. \A k \in 1 .. z : c + k \in 1 .. c + z /\ ~(c + k <= c) /\ (c + k) - c = k
  BY <1>2
<1>5. \A k \in 1 .. c : k \in 1 .. c + z /\ k <= c
  BY <1>2
<1>6. Len(u) = c + z /\ (\A k \in 1 .. c : u[k] = s[k])
      /\ \A k \in 1 .. z : u[c + k] = w[k]
  BY <1>3, <1>4, <1>5
<1> QED
  BY <1>6 DEF u, c, z

\* What LogInv says of the lines, for the provers; n tells a line.
LEMMA LogLines ==
    ASSUME LogInv
    PROVE  /\ log \in Seq(LineType) /\ Len(log) \in Nat /\ lines \in Nat
           /\ \A i \in 1 .. Len(log) :
                 /\ log[i] \in LineType /\ log[i].n \in Nat
                 /\ log[i].time \in Nat /\ log[i].n <= lines
           /\ \A i, j \in 1 .. Len(log) : i < j => log[i].n < log[j].n
           /\ \A i, j \in 1 .. Len(log) : log[i].n = log[j].n => i = j
<1>1. /\ log \in Seq(LineType) /\ lines \in Nat
      /\ \A i, j \in 1 .. Len(log) : i < j => log[i].n < log[j].n
      /\ \A i \in 1 .. Len(log) : log[i].n <= lines
  BY DEF LogInv, Filled, Counters
<1>2. Len(log) \in Nat /\ \A i \in 1 .. Len(log) : log[i] \in LineType
  BY <1>1
<1>3. \A e \in LineType : e.n \in Nat /\ e.time \in Nat
  BY DEF LineType
<1>4. \A i \in 1 .. Len(log) : log[i].n \in Nat /\ log[i].time \in Nat
  BY <1>2, <1>3
<1>5. ASSUME NEW i \in 1 .. Len(log), NEW j \in 1 .. Len(log),
             log[i].n = log[j].n
      PROVE  i = j
  <2>1. ~(i < j) /\ ~(j < i)
    BY <1>1, <1>4, <1>5
  <2> QED
    BY <1>2, <2>1
<1> QED
  BY <1>1, <1>2, <1>4, <1>5

LEMMA PageFacts ==
    ASSUME LogInv, NEW before
    PROVE  Paged(Page(before), before)
<1> DEFINE good == Legible(before)
           K == Kept(log, good)
           c == Len(K)
           a == IF c > PageSize THEN c - PageSize + 1 ELSE 1
           p == Page(before)
<1>1. /\ log \in Seq(LineType)
      /\ \A i \in 1 .. Len(log) : log[i] \in LineType /\ log[i].n \in Nat
      /\ \A i, j \in 1 .. Len(log) : i < j => log[i].n < log[j].n
      /\ Len(log) \in Nat
  BY LogLines
<1>2. K \in Seq(LineType) /\ \E m : Traces(m, K, log, good, Len(log))
  <2> HIDE DEF good
  <2> QED
    BY <1>1, KeptTraces
<1>3. PICK m : Traces(m, K, log, good, Len(log))
  BY <1>2
<1>4. \A i \in 1 .. Len(log) :
         i \in good <=> (Scanned(i) /\ log[i].whole /\ log[i].time < before)
  BY <1>1 DEF Legible
<1>5. p = Reverse(SubSeq(K, a, c))
  BY DEF Page, Latest
<1> HIDE DEF K, good
<1>6. c \in Nat /\ a \in 1 .. c + 1 /\ a \in Nat /\ (c # 0 => a <= c)
  BY <1>2, RecordsConstants
<1>7. /\ Len(p) = c - a + 1
      /\ p = [k \in 1 .. c - a + 1 |-> K[c + 1 - k]]
  <2> DEFINE L == SubSeq(K, a, c)
  <2> HIDE DEF a
  <2>1. L \in Seq(LineType) /\ Len(L) = c - a + 1
    BY <1>2, <1>6
  <2>2. \A i \in 1 .. c - a + 1 : L[i] = K[a + i - 1]
    BY <1>2, <1>6
  <2> HIDE DEF c, L, p
  <2>3. p = [k \in 1 .. c - a + 1 |-> L[((c - a + 1) - k) + 1]]
    BY <1>5, <2>1 DEF Reverse, L, p
  <2>4. ASSUME NEW k \in 1 .. c - a + 1
        PROVE  L[((c - a + 1) - k) + 1] = K[c + 1 - k]
    <3>1. ((c - a + 1) - k) + 1 \in 1 .. c - a + 1
      BY <1>6
    <3>2. a + (((c - a + 1) - k) + 1) - 1 = c + 1 - k
      BY <1>6
    <3> QED
      BY <2>2, <3>1, <3>2
  <2>5. p = [k \in 1 .. c - a + 1 |-> K[c + 1 - k]]
    BY <2>3, <2>4
  <2>6. c - a + 1 \in Nat
    BY <1>6
  <2> QED
    BY <2>5, <2>6
<1>8. /\ \A k \in 1 .. c : m[k] \in 1 .. Len(log) /\ m[k] \in good
                           /\ K[k] = log[m[k]]
      /\ \A k, l \in 1 .. c : k < l => m[k] < m[l]
      /\ \A g \in good : g \in 1 .. Len(log) => \E k \in 1 .. c : m[k] = g
  BY <1>3 DEF Traces
<1> DEFINE z == c - a + 1
<1>9. /\ z \in Nat /\ \A k \in 1 .. z : c + 1 - k \in 1 .. c /\ p[k] = K[c + 1 - k]
      /\ Len(p) = z
  <2> HIDE DEF p, a, c
  <2> QED
    BY <1>6, <1>7
<1> HIDE DEF p, c, a, z
<1>10. p \in Seq(LineType)
  <2>1. \A k \in 1 .. z : p[k] \in LineType
    BY <1>1, <1>8, <1>9
  <2>2. p = [k \in 1 .. z |-> K[c + 1 - k]]
    BY <1>7 DEF z
  <2>3. p = [k \in 1 .. z |-> p[k]]
    BY <2>2
  <2> QED
    BY <1>9, <2>1, <2>3
<1>11. \A k \in 1 .. z : \E i \in 1 .. Len(log) :
          p[k] = log[i] /\ log[i].whole /\ log[i].time < before
  <2>1. ASSUME NEW k \in 1 .. z
        PROVE  \E i \in 1 .. Len(log) :
                  p[k] = log[i] /\ log[i].whole /\ log[i].time < before
    <3>1. c + 1 - k \in 1 .. c /\ p[k] = K[c + 1 - k]
      BY <1>9
    <3>2. /\ m[c + 1 - k] \in 1 .. Len(log) /\ m[c + 1 - k] \in good
          /\ p[k] = log[m[c + 1 - k]]
      BY <1>8, <3>1
    <3> QED
      BY <1>4, <3>2
  <2> QED
    BY <2>1
<1>12. ASSUME NEW k \in 1 .. z, NEW l \in 1 .. z, k < l PROVE p[l].n < p[k].n
  <2>1. c + 1 - l < c + 1 - k /\ c + 1 - l \in 1 .. c /\ c + 1 - k \in 1 .. c
    BY <1>6, <1>9, <1>12
  <2>2. /\ p[l] = log[m[c + 1 - l]] /\ p[k] = log[m[c + 1 - k]]
        /\ m[c + 1 - l] < m[c + 1 - k]
        /\ m[c + 1 - l] \in 1 .. Len(log) /\ m[c + 1 - k] \in 1 .. Len(log)
    BY <1>8, <1>9, <2>1
  <2> QED
    BY <1>1, <2>2
<1>13. ASSUME NEW i \in 1 .. Len(log), log[i].whole, log[i].time < before,
              Scanned(i)
       PROVE  /\ z # 0
              /\ (\E k \in 1 .. z : p[k] = log[i]) \/ log[i].n < p[z].n
  <2>1. PICK j \in 1 .. c : m[j] = i
    BY <1>4, <1>8, <1>13
  <2>2. z # 0 /\ a <= c /\ z \in 1 .. z /\ c + 1 - z = a /\ a \in 1 .. c
    BY <1>6, <1>9, <2>1 DEF z
  <2>3. CASE j >= a
    <3>1. c + 1 - j \in 1 .. z /\ c + 1 - (c + 1 - j) = j
      BY <1>6, <2>1, <2>3 DEF z
    <3>2. p[c + 1 - j] = log[i]
      BY <1>8, <1>9, <2>1, <3>1
    <3> QED
      BY <2>2, <3>1, <3>2
  <2>4. CASE j < a
    BY <1>1, <1>8, <1>9, <2>1, <2>2, <2>4
  <2> QED
    BY <1>6, <2>1, <2>3, <2>4
<1>14. ASSUME NEW i \in 1 .. Len(log), ~Scanned(i), z # 0
       PROVE  log[i].n < p[z].n
  <2>1. z \in 1 .. z
    BY <1>9, <1>14
  <2>2. PICK j \in 1 .. Len(log) : p[z] = log[j] /\ Scanned(j)
    <3>1. c + 1 - z \in 1 .. c /\ p[z] = K[c + 1 - z]
      BY <1>9, <2>1
    <3> QED
      BY <1>4, <1>8, <3>1
  <2>3. i < j
    BY <1>1, <1>14, <2>2, RecordsConstants DEF Scanned
  <2> QED
    BY <1>1, <2>2, <2>3
<1>15. ASSUME NEW i \in 1 .. Len(log), log[i].whole, log[i].time < before
       PROVE  \/ z = 0 /\ ~Scanned(i)
              \/ z # 0 /\ \E k \in 1 .. z : p[k] = log[i]
              \/ z # 0 /\ log[i].n < p[z].n
  <2> HIDE DEF Scanned
  <2> QED
    BY <1>13, <1>14, <1>15
<1> QED
  BY <1>9, <1>10, <1>11, <1>12, <1>15 DEF Paged, p

ReaderType == [on : BOOLEAN, shown : Seq(Nat), ends : SUBSET (Nat \X Nat),
               before : Nat, first : SUBSET Nat, beyond : SUBSET Nat,
               more : BOOLEAN]

\* Of a line e and a reader r: r has shown it, has shown it twice, has seen a
\* page end at an earlier line with a later stamp, or at a later line whose
\* stamp is no later.
Met(r, e)  == \E k \in 1 .. Len(r.shown) : r.shown[k] = e.n
Again(r, e) == \E k, l \in 1 .. Len(r.shown) :
                 k # l /\ r.shown[k] = e.n /\ r.shown[l] = e.n
Swapped(r, e) == \E x \in r.ends : x[1] < e.n /\ x[2] > e.time
Covered(r, e) == \E x \in r.ends : x[1] > e.n /\ x[2] <= e.time

\* A line that was shown is not shown again unless the pages went back past
\* it; one that was there and was not shown is still to come, or a page ended
\* at a later line with no later stamp, or it is too far back.
LineFine(r, e) ==
    /\ Met(r, e) => r.before <= e.time \/ Swapped(r, e)
    /\ Again(r, e) => Swapped(r, e)
    /\ e.n \in r.first =>
          /\ e.whole
          /\ \/ Met(r, e) \/ Covered(r, e) \/ e.n \in r.beyond
             \/ r.more /\ e.time < r.before

Fine(r) ==
    /\ r \in ReaderType
    /\ \A k \in 1 .. Len(r.shown) : r.shown[k] <= lines
    /\ \A n \in r.first : n <= lines
    /\ r.more => r.beyond = {}
    /\ \A i \in 1 .. Len(log) : LineFine(r, log[i])

\* A page that is added to what the reader shows keeps every line so.
LEMMA PageShown ==
    ASSUME LogInv, NEW r, Fine(r), r.more,
           NEW p, Paged(p, r.before), Len(p) # 0,
           NEW q \in ReaderType, q.more, q.first = r.first,
           q.beyond = r.beyond,
           q.shown = r.shown \o [k \in 1 .. Len(p) |-> p[k].n],
           q.ends = r.ends \cup {<<p[Len(p)].n, p[Len(p)].time>>},
           q.before = p[Len(p)].time
    PROVE  Fine(q)
<1> DEFINE z == Len(p)
           c == Len(r.shown)
           w == [k \in 1 .. z |-> p[k].n]
           end == p[z]
<1>1. /\ r.shown \in Seq(Nat) /\ r.ends \subseteq Nat \X Nat
      /\ r.before \in Nat /\ r.first \subseteq Nat /\ c \in Nat
      /\ \A k \in 1 .. c : r.shown[k] \in Nat
  BY DEF Fine, ReaderType
<1>2. /\ log \in Seq(LineType)
      /\ \A i \in 1 .. Len(log) : /\ log[i].n \in Nat /\ log[i].time \in Nat
                                  /\ log[i].n <= lines
      /\ \A i, j \in 1 .. Len(log) : i < j => log[i].n < log[j].n
      /\ lines \in Nat
  BY LogLines
<1>3. \A i, j \in 1 .. Len(log) : log[i].n = log[j].n => i = j
  BY LogLines
<1>4. /\ p \in Seq(LineType) /\ z \in Nat /\ z \in 1 .. z
      /\ \A k \in 1 .. z : \E i \in 1 .. Len(log) :
            p[k] = log[i] /\ log[i].whole /\ log[i].time < r.before
      /\ \A k, l \in 1 .. z : k < l => p[l].n < p[k].n
      /\ \A k \in 1 .. z : p[k].n \in Nat /\ p[k].time \in Nat
  <2>1. /\ p \in Seq(LineType)
        /\ \A k \in 1 .. z : \E i \in 1 .. Len(log) :
              p[k] = log[i] /\ log[i].whole /\ log[i].time < r.before
        /\ \A k, l \in 1 .. z : k < l => p[l].n < p[k].n
    BY DEF Paged
  <2>2. z \in Nat /\ z \in 1 .. z
    BY <2>1
  <2>3. \A k \in 1 .. z : p[k].n \in Nat /\ p[k].time \in Nat
    BY <1>2, <2>1
  <2> QED
    BY <2>1, <2>2, <2>3
<1>5. /\ Len(q.shown) = c + z
      /\ \A k \in 1 .. c : q.shown[k] = r.shown[k]
      /\ \A k \in 1 .. z : q.shown[c + k] = p[k].n
  <2>1. w \in Seq(Nat) /\ Len(w) = z
    BY <1>4
  <2> HIDE DEF w
  <2>2. /\ Len(r.shown \o w) = c + z
        /\ \A k \in 1 .. c : (r.shown \o w)[k] = r.shown[k]
        /\ \A k \in 1 .. z : (r.shown \o w)[c + k] = w[k]
    <3> DEFINE s == r.shown
    <3>1. s \in Seq(Nat) /\ Len(s) = c
      BY <1>1
    <3> HIDE DEF s
    <3>2. /\ Len(s \o w) = Len(s) + Len(w)
          /\ \A k \in 1 .. Len(s) : (s \o w)[k] = s[k]
          /\ \A k \in 1 .. Len(w) : (s \o w)[Len(s) + k] = w[k]
      BY <2>1, <3>1, Joined
    <3> HIDE DEF z, c
    <3> QED
      BY <2>1, <3>1, <3>2 DEF s
  <2> USE DEF w
  <2> QED
    BY <2>2
<1>6. \A k \in 1 .. c + z : \/ k \in 1 .. c
                            \/ \E l \in 1 .. z : k = c + l
  <2>1. ASSUME NEW k \in 1 .. c + z, k \notin 1 .. c
        PROVE  k - c \in 1 .. z /\ k = c + (k - c)
    BY <1>1, <1>4, <2>1
  <2> QED
    BY <2>1
<1> HIDE DEF z, c, w
<1>7. \A k \in 1 .. c + z : q.shown[k] <= lines
  <2>1. ASSUME NEW k \in 1 .. c + z PROVE q.shown[k] <= lines
    <3>1. CASE k \in 1 .. c
      BY <1>5, <3>1 DEF Fine, c
    <3>2. ASSUME NEW l \in 1 .. z, k = c + l PROVE q.shown[k] <= lines
      <4>1. PICK j \in 1 .. Len(log) : p[l] = log[j]
        BY <1>4
      <4> QED
        BY <1>2, <1>5, <3>2, <4>1
    <3> QED
      BY <1>6, <2>1, <3>1, <3>2
  <2> QED
    BY <2>1
<1>8. ASSUME NEW i \in 1 .. Len(log) PROVE LineFine(q, log[i])
  <2> DEFINE e == log[i]
             In == \E k \in 1 .. z : p[k] = e
  <2>0. e.n \in Nat /\ e.time \in Nat /\ end.n \in Nat /\ end.time \in Nat
    BY <1>2, <1>4
  <2>a. \A l \in 1 .. z : p[l].n = e.n => p[l] = e
    BY <1>3, <1>4
  <2>1. Met(q, e) => Met(r, e) \/ In
    <3>1. ASSUME NEW k \in 1 .. c + z, q.shown[k] = e.n
          PROVE  Met(r, e) \/ In
      <4>1. CASE k \in 1 .. c
        BY <1>5, <3>1, <4>1 DEF Met, c
      <4>2. ASSUME NEW l \in 1 .. z, k = c + l PROVE In
        BY <1>5, <2>a, <3>1, <4>2
      <4> QED
        BY <1>6, <3>1, <4>1, <4>2
    <3> QED
      BY <1>5, <3>1 DEF Met
  <2>2. Met(r, e) \/ In => Met(q, e)
    <3>1. \A k \in 1 .. c : k \in 1 .. c + z
      BY <1>1, <1>4
    <3>2. \A k \in 1 .. z : c + k \in 1 .. c + z
      BY <1>1, <1>4
    <3>3. ASSUME NEW k \in 1 .. c, r.shown[k] = e.n PROVE Met(q, e)
      BY <1>5, <3>1, <3>3 DEF Met
    <3>4. ASSUME NEW k \in 1 .. z, p[k] = e PROVE Met(q, e)
      <4>1. c + k \in 1 .. Len(q.shown)
        BY <1>5, <3>2
      <4>2. q.shown[c + k] = e.n
        BY <1>5, <3>4
      <4> QED
        BY <4>1, <4>2 DEF Met
    <3>5. Met(r, e) => \E k \in 1 .. c : r.shown[k] = e.n
      BY DEF Met, c
    <3> QED
      BY <3>3, <3>4, <3>5
  <2>3. Again(q, e) => Again(r, e) \/ (Met(r, e) /\ In)
    <3>1. ASSUME NEW k \in 1 .. c + z, NEW l \in 1 .. c + z, k # l,
                 q.shown[k] = e.n, q.shown[l] = e.n
          PROVE  Again(r, e) \/ (Met(r, e) /\ In)
      <4>1. CASE k \in 1 .. c /\ l \in 1 .. c
        BY <1>5, <3>1, <4>1 DEF Again, c
      <4>2. ASSUME NEW g \in 1 .. z, q.shown[c + g] = e.n PROVE In
        BY <1>5, <2>a, <4>2
      <4>3. ASSUME NEW g \in 1 .. c, q.shown[g] = e.n PROVE Met(r, e)
        BY <1>5, <4>3 DEF Met, c
      <4>4. ASSUME NEW g \in 1 .. z, NEW f \in 1 .. z, k = c + g, l = c + f
            PROVE  FALSE
        <5>1. p[g].n = p[f].n /\ g # f
          BY <1>5, <3>1, <4>4
        <5> QED
          BY <1>4, <5>1
      <4> QED
        BY <1>6, <3>1, <4>1, <4>2, <4>3, <4>4
    <3> QED
      BY <1>5, <3>1 DEF Again
  <2>4. In => e.time < r.before /\ e.whole
    BY <1>3, <1>4
  <2>5. In => end.n <= e.n
    <3>1. ASSUME NEW k \in 1 .. z, p[k] = e PROVE end.n <= e.n
      <4>1. CASE k = z
        BY <2>0, <3>1, <4>1
      <4>2. CASE k # z
        <5>1. k < z
          BY <1>4, <3>1, <4>2
        <5>2. end.n < p[k].n
          BY <1>4, <5>1
        <5> QED
          BY <2>0, <3>1, <5>2
      <4> QED
        BY <4>1, <4>2
    <3> QED
      BY <3>1
  <2>6. In /\ end.n = e.n => end.time = e.time
    <3>1. PICK j \in 1 .. Len(log) : end = log[j]
      BY <1>4
    <3> QED
      BY <1>3, <3>1
  <2>7. end.time < r.before
    BY <1>2, <1>4
  <2>8. /\ Swapped(r, e) => Swapped(q, e)
        /\ Covered(r, e) => Covered(q, e)
        /\ end.n < e.n /\ end.time > e.time => Swapped(q, e)
        /\ end.n > e.n /\ end.time <= e.time => Covered(q, e)
    <3> DEFINE x == <<end.n, end.time>>
    <3>1. q.ends = r.ends \cup {x} /\ x[1] = end.n /\ x[2] = end.time
      BY DEF z
    <3> HIDE DEF x, end, e
    <3> QED
      BY <3>1 DEF Swapped, Covered
  <2>9. q.before = end.time
    BY DEF z
  <2>10. LineFine(r, e)
    BY DEF Fine
  <2>11. Met(q, e) => q.before <= e.time \/ Swapped(q, e)
    <3>1. CASE In
      BY <2>0, <2>5, <2>6, <2>8, <2>9, <3>1
    <3>2. CASE Met(r, e)
      BY <1>1, <2>0, <2>7, <2>8, <2>9, <2>10, <3>2 DEF LineFine
    <3> QED
      BY <2>1, <3>1, <3>2
  <2>12. Again(q, e) => Swapped(q, e)
    <3>1. Met(r, e) /\ In => Swapped(r, e)
      BY <1>1, <2>0, <2>4, <2>10 DEF LineFine
    <3> QED
      BY <2>3, <2>8, <2>10, <3>1 DEF LineFine
  <2>13. ASSUME e.n \in q.first
         PROVE  /\ e.whole
                /\ \/ Met(q, e) \/ Covered(q, e) \/ e.n \in q.beyond
                   \/ e.time < q.before
    <3>1. /\ e.whole
          /\ Met(r, e) \/ Covered(r, e) \/ e.n \in r.beyond \/ e.time < r.before
      BY <2>10, <2>13 DEF LineFine
    <3>2. CASE e.time < r.before
      <4>1. In \/ e.n < end.n
        BY <3>1, <3>2 DEF Paged, z
      <4> QED
        BY <2>0, <2>2, <2>8, <2>9, <3>1, <4>1
    <3> QED
      BY <2>2, <2>8, <3>1, <3>2
  <2> HIDE DEF e
  <2> QED
    BY <2>11, <2>12, <2>13 DEF LineFine, e
<1>9. (\A n \in q.first : n <= lines) /\ q.beyond = {}
  BY DEF Fine
<1> QED
  BY <1>5, <1>7, <1>8, <1>9 DEF Fine

\* Writing, pruning, opening the tab and paging keep the reader's lines so.
LEMMA ReadsKeep == Fine(reader) /\ LogInv /\ Sound /\ [Next]_vars => Fine(reader)'
<1> SUFFICES ASSUME Fine(reader), LogInv, Sound, [Next]_vars
             PROVE  Fine(reader)'
  OBVIOUS
<1>1. ASSUME UNCHANGED reader PROVE Fine(reader)'
  <2>1. /\ lines \in Nat /\ lines' \in Nat /\ lines <= lines'
        /\ \A i \in 1 .. Len(log') : log'[i].n \in Nat
        /\ \A i \in 1 .. Len(log') :
              (\E j \in 1 .. Len(log) : log'[i] = log[j]) \/ log'[i].n > lines
    <3>1. /\ Filled(log', lines', clock) /\ lines <= lines'
          /\ \A i \in 1 .. Len(log') :
                (\E j \in 1 .. Len(log) : log'[i] = log[j])
                \/ log'[i].n > lines
      BY LogSteps
    <3>2. log' \in Seq(LineType) /\ \A e \in LineType : e.n \in Nat
      BY <3>1 DEF Filled, LineType
    <3>3. \A i \in 1 .. Len(log') : log'[i] \in LineType
      BY <3>2
    <3>4. lines \in Nat /\ lines' \in Nat
      BY LogKeeps DEF LogInv, Counters
    <3> QED
      BY <3>1, <3>2, <3>3, <3>4
  <2>2. /\ reader \in ReaderType
        /\ \A k \in 1 .. Len(reader.shown) :
              reader.shown[k] \in Nat /\ reader.shown[k] <= lines
        /\ \A n \in reader.first : n \in Nat /\ n <= lines
        /\ reader.more => reader.beyond = {}
        /\ \A i \in 1 .. Len(log) : LineFine(reader, log[i])
    BY DEF Fine, ReaderType
  <2>3. ASSUME NEW i \in 1 .. Len(log'), log'[i].n > lines
        PROVE  LineFine(reader, log'[i])
    <3>1. ~Met(reader, log'[i])
      BY <2>1, <2>2, <2>3 DEF Met
    <3>2. ~Again(reader, log'[i])
      BY <2>1, <2>2, <2>3 DEF Again
    <3>3. log'[i].n \notin reader.first
      BY <2>1, <2>2, <2>3
    <3> QED
      BY <3>1, <3>2, <3>3 DEF LineFine
  <2>4. \A i \in 1 .. Len(log') : LineFine(reader, log'[i])
    BY <2>1, <2>2, <2>3
  <2>5. /\ \A k \in 1 .. Len(reader.shown) : reader.shown[k] <= lines'
        /\ \A n \in reader.first : n <= lines'
    BY <2>1, <2>2
  <2> QED
    BY <1>1, <2>2, <2>4, <2>5 DEF Fine
<1>2. ASSUME UNCHANGED audit, Fine(reader') PROVE Fine(reader)'
  BY <1>2 DEF audit, Fine
<1>3. CASE OpenTab
  <2> DEFINE p == Page(MaxClock + 1)
             legible == {log[i].n : i \in {j \in DOMAIN log : log[j].whole}}
             r == [on |-> TRUE, shown |-> <<>>, ends |-> {},
                   before |-> MaxClock + 1, first |-> legible, beyond |-> {},
                   more |-> TRUE]
  <2>1. Paged(p, MaxClock + 1)
    BY PageFacts
  <2>2. /\ p # <<>>
        /\ reader' = [on |-> TRUE, more |-> TRUE, first |-> legible,
                      beyond |-> {},
                      shown |-> [i \in DOMAIN p |-> p[i].n],
                      ends |-> {<<p[Len(p)].n, p[Len(p)].time>>},
                      before |-> p[Len(p)].time]
        /\ UNCHANGED audit
    BY <1>3 DEF OpenTab, Last
  <2>3. /\ \A n \in legible : n \in Nat /\ n <= lines
        /\ \A i \in 1 .. Len(log) : log[i].n \in legible => log[i].whole
    BY LogLines
  <2>4. \A i \in 1 .. Len(log) : log[i].time < MaxClock + 1
    <3>1. ASSUME NEW i \in 1 .. Len(log) PROVE log[i].time < MaxClock + 1
      <4>1. log[i].time <= clock /\ clock <= MaxClock /\ clock \in Nat
        BY DEF LogInv, Filled, Counters
      <4> QED
        BY <4>1, LogLines, RecordsConstants
    <3> QED
      BY <3>1
  <2> HIDE DEF legible
  <2>5. Fine(r)
    <3>1. r \in ReaderType
      BY <2>3, RecordsConstants DEF ReaderType
    <3>2. ASSUME NEW i \in 1 .. Len(log) PROVE LineFine(r, log[i])
      <4>1. ~Met(r, log[i]) /\ ~Again(r, log[i])
        BY DEF Met, Again
      <4> QED
        BY <2>3, <2>4, <4>1 DEF LineFine
    <3>3. r.first = legible /\ Len(r.shown) = 0 /\ r.beyond = {}
      OBVIOUS
    <3>4. \A k \in 1 .. Len(r.shown) : r.shown[k] <= lines
      BY <3>3
    <3>5. \A n \in r.first : n <= lines
      BY <2>3, <3>3
    <3> HIDE DEF r
    <3> QED
      BY <3>1, <3>2, <3>3, <3>4, <3>5 DEF Fine
  <2>6. /\ p \in Seq(LineType) /\ Len(p) # 0 /\ DOMAIN p = 1 .. Len(p)
        /\ Len(p) \in 1 .. Len(p)
        /\ \A k \in 1 .. Len(p) : p[k].n \in Nat /\ p[k].time \in Nat
    <3> HIDE DEF p
    <3>1. p \in Seq(LineType)
      BY <2>1 DEF Paged
    <3>2. \A e \in LineType : e.n \in Nat /\ e.time \in Nat
      BY DEF LineType
    <3> QED
      BY <2>2, <3>1, <3>2
  <2> DEFINE w == [k \in 1 .. Len(p) |-> p[k].n]
  <2>7. w \in Seq(Nat) /\ <<>> \o w = w
    <3>1. w \in Seq(Nat)
      BY <2>6
    <3> HIDE DEF w
    <3> QED
      BY <3>1, ConcatEmptySeq
  <2>8. reader' \in ReaderType
    <3> DEFINE end == <<p[Len(p)].n, p[Len(p)].time>>
               t == p[Len(p)].time
    <3>1. end \in Nat \X Nat /\ t \in Nat /\ legible \in SUBSET Nat
      BY <2>3, <2>6
    <3>2. reader' = [on |-> TRUE, more |-> TRUE, first |-> legible,
                     beyond |-> {}, shown |-> w, ends |-> {end}, before |-> t]
      BY <2>2, <2>6
    <3> HIDE DEF end, t, w, p
    <3> QED
      BY <2>7, <3>1, <3>2 DEF ReaderType
  <2>9. /\ r.more /\ r.before = MaxClock + 1
        /\ reader'.more /\ reader'.first = r.first
        /\ reader'.beyond = r.beyond
        /\ reader'.shown = r.shown \o [k \in 1 .. Len(p) |-> p[k].n]
        /\ reader'.ends = r.ends \cup {<<p[Len(p)].n, p[Len(p)].time>>}
        /\ reader'.before = p[Len(p)].time
    BY <2>2, <2>6, <2>7
  <2> HIDE DEF p, r
  <2>10. Fine(reader')
    BY <2>1, <2>5, <2>6, <2>8, <2>9, PageShown
  <2> QED
    BY <1>2, <2>2, <2>10
<1>4. CASE MoreLines
  <2> DEFINE p == Page(reader.before)
             r == reader
             q == reader'
  <2>1. Paged(p, r.before)
    BY PageFacts
  <2> HIDE DEF p
  <2>2. reader.more /\ Shows(p) /\ UNCHANGED audit
    BY <1>4 DEF MoreLines, p
  <2>3. p \in Seq(LineType)
    BY <2>1 DEF Paged
  <2>4. r \in ReaderType
    BY DEF Fine
  <2>5. CASE p = <<>>
    <3> DEFINE far == {log[i].n : i \in {j \in DOMAIN log : ~Scanned(j)}}
    <3>0. far \in SUBSET Nat
      BY LogLines
    <3>1. q = [r EXCEPT !.more = FALSE, !.beyond = far]
      BY <2>2, <2>5 DEF Shows
    <3>a. \A i \in 1 .. Len(log) : ~Scanned(i) => log[i].n \in far
      BY LogLines
    <3> HIDE DEF far
    <3>2. /\ q \in ReaderType /\ q.shown = r.shown /\ q.ends = r.ends
          /\ q.before = r.before /\ q.first = r.first /\ q.beyond = far
          /\ ~q.more
      BY <2>4, <3>0, <3>1 DEF ReaderType
    <3>3. ASSUME NEW i \in 1 .. Len(log) PROVE LineFine(q, log[i])
      <4>1. ~(log[i].whole /\ log[i].time < r.before) \/ log[i].n \in far
        BY <2>1, <2>5, <3>a DEF Paged
      <4>2. LineFine(r, log[i]) /\ r.beyond = {}
        BY <2>2 DEF Fine, r
      <4> QED
        BY <3>2, <4>1, <4>2 DEF LineFine, Met, Again, Swapped, Covered
    <3>4. Fine(q)
      BY <3>2, <3>3 DEF Fine
    <3> QED
      BY <1>2, <2>2, <3>4
  <2>6. CASE p # <<>>
    <3>1. q = [r EXCEPT
                 !.shown = @ \o [i \in DOMAIN p |-> p[i].n],
                 !.ends = @ \cup {<<p[Len(p)].n, p[Len(p)].time>>},
                 !.before = p[Len(p)].time]
      BY <2>2, <2>6 DEF Shows, Last
    <3>2. /\ Len(p) # 0 /\ DOMAIN p = 1 .. Len(p) /\ Len(p) \in 1 .. Len(p)
          /\ \A k \in 1 .. Len(p) : p[k].n \in Nat /\ p[k].time \in Nat
      <4>1. \A e \in LineType : e.n \in Nat /\ e.time \in Nat
        BY DEF LineType
      <4> QED
        BY <2>3, <2>6, <4>1
    <3> DEFINE w == [k \in 1 .. Len(p) |-> p[k].n]
               end == <<p[Len(p)].n, p[Len(p)].time>>
               s == r.shown \o w
               t == p[Len(p)].time
    <3>3. w \in Seq(Nat) /\ end \in Nat \X Nat /\ t \in Nat
      BY <3>2
    <3>4. q = [r EXCEPT !.shown = s, !.ends = @ \cup {end}, !.before = t]
      BY <3>1, <3>2
    <3> HIDE DEF w, end, t
    <3>5. s \in Seq(Nat)
      BY <2>4, <3>3, ConcatProperties DEF ReaderType
    <3> HIDE DEF s, q, r
    <3>6. /\ q \in ReaderType /\ q.more = r.more /\ q.first = r.first
          /\ q.beyond = r.beyond
          /\ q.shown = s /\ q.ends = r.ends \cup {end} /\ q.before = t
      BY <2>4, <3>3, <3>4, <3>5 DEF ReaderType
    <3>7. Fine(r) /\ r.more
      BY <2>2 DEF r
    <3>8. Fine(q)
      BY <2>1, <3>2, <3>6, <3>7, PageShown DEF s, w, end, t
    <3> QED
      BY <1>2, <2>2, <3>8 DEF q
  <2> QED
    BY <2>5, <2>6
<1>5. ASSUME NEW saved \in BOOLEAN, Restart(saved) PROVE Fine(reader)'
  <2>1. reader' = Closed
    BY <1>5 DEF Restart
  <2>2. Closed \in ReaderType
    BY DEF Closed, ReaderType
  <2>3. \A i \in 1 .. Len(log') : LineFine(Closed, log'[i])
    BY DEF LineFine, Met, Again, Closed
  <2> QED
    BY <2>1, <2>2, <2>3 DEF Fine, Closed
<1> QED
  BY <1>1, <1>3, <1>4, <1>5, Kinds DEF RegisterAdmit, Write, Tick

-----------------------------------------------------------------------------
(* All of it together. *)

Whole == Sound /\ Paces /\ LogInv /\ Fine(reader)

LEMMA WholeEver == Spec => []Whole
<1>1. Init => Whole
  <2> SUFFICES ASSUME Init PROVE Whole
    OBVIOUS
  <2>1. Sound
    BY InitSound
  <2>2. Paces
    BY DEF Init, Paces, Paced
  <2>3. LogInv
    BY RecordsConstants DEF Init, LogInv, Counters, Filled, Idle
  <2>4. Fine(reader)
    BY DEF Init, Fine, Closed, ReaderType
  <2> QED
    BY <2>1, <2>2, <2>3, <2>4 DEF Whole
<1>2. Whole /\ [Next]_vars => Whole'
  <2> SUFFICES ASSUME Whole, [Next]_vars PROVE Whole'
    OBVIOUS
  <2>1. Sound /\ Paces /\ LogInv /\ Fine(reader) /\ clock \in Nat
    BY DEF Whole, Paces
  <2>2. Sound' /\ Paces' /\ LogInv'
    BY <2>1, NextSound, PacesKeep, LogKeeps
  <2>3. Fine(reader)'
    BY <2>1, ReadsKeep
  <2> QED
    BY <2>2, <2>3 DEF Whole
<1> QED
  BY <1>1, <1>2, PTL DEF Spec

\* The store, the limits, the log and the pages keep their types.
THEOREM RecordsTypeCorrect == Spec => []TypeOK
<1>1. Whole => TypeOK
  BY DEF Whole, TypeOK, Sound, Paces, LogInv, Counters, Filled, LineType,
         Fine, ReaderType
<1> QED
  BY <1>1, WholeEver, PTL

\* Paging back through the log shows a line twice only if it was written after
\* a line with a later stamp at which a page ended, whatever is appended, cut
\* short or pruned while the administrator reads.
THEOREM PagedOnceEver == Spec => []PagedOnce
<1>1. Whole => PagedOnce
  <2> SUFFICES ASSUME Whole, NEW i \in DOMAIN log, Twice(log[i].n)
               PROVE  Swapped(reader, log[i])
    BY DEF PagedOnce, Swapped
  <2>1. i \in 1 .. Len(log) /\ LineFine(reader, log[i])
    BY DEF Whole, LogInv, Filled, Fine
  <2>2. Again(reader, log[i])
    <3>1. reader.shown \in Seq(Nat)
      BY DEF Whole, Fine, ReaderType
    <3>2. DOMAIN reader.shown = 1 .. Len(reader.shown)
      BY <3>1
    <3> QED
      BY <3>2 DEF Twice, Again
  <2> QED
    BY <2>1, <2>2 DEF LineFine
<1> QED
  BY <1>1, WholeEver, PTL

\* At the end of the pages, a line that could be read when the tab was opened
\* and is still there was shown, unless a page ended at a later line with no
\* later stamp, since TailBefore asks for what is older than a second, or the
\* line was further back than it looks.
THEOREM PagedAllEver == Spec => []PagedAll
<1>1. Whole => PagedAll
  <2> SUFFICES ASSUME Whole, ~reader.more, NEW i \in DOMAIN log,
                      log[i].n \in reader.first
               PROVE  \/ log[i].n \in Range(reader.shown)
                      \/ Covered(reader, log[i])
                      \/ log[i].n \in reader.beyond
    BY DEF PagedAll, Covered
  <2>1. LineFine(reader, log[i])
    BY DEF Whole, LogInv, Filled, Fine
  <2>2. Met(reader, log[i]) => log[i].n \in Range(reader.shown)
    BY DEF Whole, Fine, ReaderType, Met, Range
  <2> QED
    BY <2>1, <2>2 DEF LineFine
<1> QED
  BY <1>1, WholeEver, PTL
=============================================================================
