------------------------------ MODULE Records -------------------------------
(***************************************************************************)
(* What the relay keeps on disk (internal/hub/store.go and audit.go) and   *)
(* the admission of registrations in front of it (tunnel.go): the device   *)
(* store with its credentials, the ban list, the audit log and the pages   *)
(* in which an administrator reads it.                                     *)
(*                                                                         *)
(* hand[h] is the goroutine of a connection or of a request; the store and *)
(* the log have a lock each and hold it while they write, so an operation  *)
(* on one of them is a step and what lies between two operations is where  *)
(* goroutines meet.  A write replaces its file by a renamed temporary one  *)
(* and fails as a whole when the disk is full; a line appended to the log  *)
(* may be cut short by it.                                                 *)
(***************************************************************************)
EXTENDS Naturals, FiniteSets, Sequences, SequencesExt

CONSTANTS
    Hands,       \* goroutines that serve connections and requests
    Ids,         \* device IDs
    Keys,        \* their proof keys
    Creds,       \* credential IDs of controllers
    MaxDevices,  \* the store's capacity: 2000 in handleRegister
    MaxClients,  \* credentials of a device: 50 in AddClient
    MaxRate,     \* registrations of an address in a window: 10
    Window,      \* the window of allowRegister: an hour
    PageSize,    \* n of auditList
    Scan,        \* lines in the 2 MB that TailBefore looks at; all are of a size
    Keep,        \* age at which the log drops a line: three days
    MaxClock,    \* bound: seconds that pass
    MaxOps,      \* bound: operations begun
    MaxRestarts, \* bound: restarts of the relay
    None, Unknown

ASSUME RecordsConstants ==
    /\ IsFiniteSet(Hands) /\ IsFiniteSet(Ids)
    /\ None \notin Keys /\ None \notin Ids
    /\ Unknown \notin Keys \cup {None}
    /\ MaxDevices \in Nat \ {0} /\ MaxClients \in Nat \ {0}
    /\ MaxRate \in Nat \ {0} /\ Window \in Nat \ {0}
    /\ PageSize \in Nat \ {0} /\ Scan \in Nat \ {0} /\ Keep \in Nat
    /\ MaxClock \in Nat /\ MaxOps \in Nat /\ MaxRestarts \in Nat

VARIABLES
    clock,
    mem, file,    \* devices, and devices.json
    ban, banFile, \* banned, and banned.json
    recent,       \* regLog of the one address that is modelled
    hand,
    log,          \* the audit file, a line each
    pruned,       \* lastPrune
    reader,       \* the audit tab of an administrator's page
    \* history
    told, toldBan,\* what the relay last confirmed of an item, or Unknown
    unwritten,   \* devices told to be gone that the file still has
    admits,       \* when registrations were admitted, since the start
    lines,        \* lines that were appended
    ops, restarts

store == <<mem, file, told, unwritten>>
bans  == <<ban, banFile, toldBan>>
gate  == <<recent, admits>>
audit == <<log, pruned, lines>>
count == <<clock, ops, restarts>>
vars  == <<store, bans, gate, hand, audit, reader, count>>

Statuses == {"none", "on", "off"}
Places   == {"idle", "cap", "ban", "commit", "stamp", "write"}

NoDevice == [key |-> None, creds |-> [c \in Creds |-> "none"]]
Untold   == [key |-> Unknown, creds |-> [c \in Creds |-> Unknown]]
Idle     == [at |-> "idle", id |-> None, key |-> None, time |-> 0]

Devices == [Ids -> [key : Keys \cup {None}, creds : [Creds -> Statuses]]]

StoreTyped ==
    /\ mem \in Devices /\ file \in Devices
    /\ told \in [Ids -> [key : Keys \cup {None, Unknown},
                         creds : [Creds -> Statuses \cup {Unknown}]]]
    /\ unwritten \in SUBSET Ids
    /\ ban \in SUBSET Ids /\ banFile \in SUBSET Ids
    /\ toldBan \in [Ids -> BOOLEAN \cup {Unknown}]

Checks == {"cap", "ban", "commit"}

HandsTyped ==
    /\ hand \in [Hands -> [at : Places, id : Ids \cup {None},
                           key : Keys \cup {None}, time : Nat]]
    /\ \A h \in Hands : hand[h].at \in Checks =>
          hand[h].id \in Ids /\ hand[h].key \in Keys

TypeOK ==
    /\ StoreTyped /\ HandsTyped
    /\ recent \in Seq(Nat) /\ admits \in Seq(Nat)
    /\ log \in Seq([n : Nat, time : Nat, whole : BOOLEAN, open : BOOLEAN])
    /\ reader \in [on : BOOLEAN, shown : Seq(Nat), ends : SUBSET (Nat \X Nat),
                   before : Nat, first : SUBSET Nat, beyond : SUBSET Nat,
                   more : BOOLEAN]
    /\ clock \in Nat /\ pruned \in Nat /\ lines \in Nat
    /\ ops \in Nat /\ restarts \in Nat

Closed == [on |-> FALSE, shown |-> <<>>, ends |-> {}, before |-> 0,
           first |-> {}, beyond |-> {}, more |-> FALSE]

\* OpenStore with no files yet, and the limits as they stand at the start.
Init ==
    /\ mem = [d \in Ids |-> NoDevice] /\ file = mem
    /\ told = [d \in Ids |-> Untold] /\ unwritten = {}
    /\ ban = {} /\ banFile = {} /\ toldBan = [d \in Ids |-> Unknown]
    /\ recent = <<>> /\ admits = <<>>
    /\ hand = [h \in Hands |-> Idle]
    /\ log = <<>> /\ pruned = 0 /\ lines = 0
    /\ reader = Closed
    /\ clock = 0 /\ ops = 0 /\ restarts = 0

-----------------------------------------------------------------------------

Known(d) == mem[d].key # None
Listed   == {d \in Ids : Known(d)}
Held(d)  == {c \in Creds : mem[d].creds[c] # "none"}

WithKey(m, d, k) == [m EXCEPT ![d] = [key |-> k, creds |-> m[d].creds]]
WithCred(m, d, c, s) ==
    [m EXCEPT ![d] = [key |-> m[d].key, creds |-> [m[d].creds EXCEPT ![c] = s]]]

\* The store's memory becomes m, and its file too unless the write fails; then
\* it still has the devices of `left`, though the caller says they are gone.
Save(m, saved, left) ==
    /\ mem' = m
    /\ file' = IF saved THEN m ELSE file
    /\ unwritten' = IF saved THEN {} ELSE unwritten \cup left

Goto(h, place) == hand' = [hand EXCEPT ![h].at = place]
Ends(h)        == hand' = [hand EXCEPT ![h] = Idle]

\* An operation that succeeded is logged; one that failed is answered.
Answer(h, ok) == IF ok THEN Goto(h, "stamp") ELSE Ends(h)

\* The elements of s at the places in `good`, in their order.
Kept(s, good) ==
    LET kept[i \in 0 .. Len(s)] ==
          IF i = 0 THEN <<>>
          ELSE IF i \in good THEN Append(kept[i - 1], s[i]) ELSE kept[i - 1]
    IN kept[Len(s)]

Fresh(stamps) ==
    Kept(stamps, {i \in DOMAIN stamps : stamps[i] + Window > clock})

Latest(s) == SubSeq(s, IF Len(s) > PageSize THEN Len(s) - PageSize + 1 ELSE 1,
                    Len(s))

\* The lines of before `before` that can be read, among the last ones: those
\* further back are not looked at.
Scanned(i)      == i + Scan > Len(log)
Legible(before) ==
    {i \in DOMAIN log : Scanned(i) /\ log[i].whole /\ log[i].time < before}

Begins(h) ==
    /\ hand[h].at = "idle" /\ ops < MaxOps
    /\ ops' = ops + 1
    /\ UNCHANGED <<clock, restarts>>

-----------------------------------------------------------------------------
(* Mutated forms: what a slip in the code would make of a definition below. *)

\* The new device stays in memory when it could not be saved.
RegisterKeepsUnsaved(h, saved) ==
    LET d == hand[h].id
        k == hand[h].key
    IN /\ hand[h].at = "commit"
       /\ IF Known(d)
             THEN /\ UNCHANGED store
                  /\ Answer(h, mem[d].key = k)
             ELSE /\ Save(WithKey(mem, d, k), saved, {})
                  /\ told' = IF saved THEN WithKey(told, d, k) ELSE told
                  /\ Answer(h, saved)
       /\ UNCHANGED <<bans, gate, audit, reader, count>>

\* The store is full one device too late.
CapReadLate(h) ==
    /\ hand[h].at = "cap"
    /\ IF Cardinality(Listed) > MaxDevices THEN Ends(h) ELSE Goto(h, "ban")
    /\ UNCHANGED <<store, bans, gate, audit, reader, count>>

\* The stamps of the window are dropped when one is added.
AdmittedForgets(stamps) == <<clock>>

\* The credential is filed in a state that no reader of the store knows.
SwitchToDisabled(disabled) == IF disabled THEN "disabled" ELSE "on"

\* A page includes the second it was asked to stop before.
PageIncluding(before) ==
    Reverse(Latest(Kept(log, Legible(before + 1))))

\* A page takes the oldest lines instead of the latest.
PageFromStart(before) ==
    LET older == Kept(log, Legible(before))
        n == IF Len(older) < PageSize THEN Len(older) ELSE PageSize
    IN Reverse(SubSeq(older, 1, n))

-----------------------------------------------------------------------------
(* Registration: each check takes its own lock. *)

Admitted(stamps) == Append(Fresh(stamps), clock)

\* allowRegister, called by handleRegister before anything is checked: a
\* request that fails later has used its place.
RegisterAdmit(h, d, k) ==
    /\ Begins(h)
    /\ IF Len(Fresh(recent)) >= MaxRate
          THEN /\ recent' = Fresh(recent)
               /\ UNCHANGED <<admits, hand>>
          ELSE /\ recent' = Admitted(recent)
               /\ admits' = Append(admits, clock)
               /\ hand' = [hand EXCEPT ![h] =
                             [at |-> "cap", id |-> d, key |-> k, time |-> 0]]
    /\ UNCHANGED <<store, bans, audit, reader>>

CapRead(h) ==
    /\ hand[h].at = "cap"
    /\ IF Cardinality(Listed) >= MaxDevices THEN Ends(h) ELSE Goto(h, "ban")
    /\ UNCHANGED <<store, bans, gate, audit, reader, count>>

BanRead(h) ==
    /\ hand[h].at = "ban"
    /\ IF hand[h].id \in ban THEN Ends(h) ELSE Goto(h, "commit")
    /\ UNCHANGED <<store, bans, gate, audit, reader, count>>

\* RegisterSelf: a known device needs its key and is not saved again, unless
\* its name changed (Touch); a new one that cannot be saved is taken back.
RegisterCommit(h, saved) ==
    LET d == hand[h].id
        k == hand[h].key
    IN /\ hand[h].at = "commit"
       /\ IF Known(d)
             THEN /\ told' = IF mem[d].key = k
                                THEN WithKey(told, d, k) ELSE told
                  /\ Answer(h, mem[d].key = k)
                  /\ UNCHANGED <<mem, file, unwritten>>
             ELSE /\ IF saved THEN /\ Save(WithKey(mem, d, k), TRUE, {})
                                   /\ told' = WithKey(told, d, k)
                              ELSE UNCHANGED store
                  /\ Answer(h, saved)
       /\ UNCHANGED <<bans, gate, audit, reader, count>>

-----------------------------------------------------------------------------
(* The other operations of the store. *)

\* What an operation on a credential leaves behind: memory has changed even
\* if the file has not, and the caller is told of success only if it has.
SetCred(h, d, c, status, saved) ==
    /\ Begins(h)
    /\ Save(WithCred(mem, d, c, status), saved, {})
    /\ told' = WithCred(told, d, c, IF saved THEN status ELSE Unknown)
    /\ Answer(h, saved)
    /\ UNCHANGED <<bans, gate, audit, reader>>

\* AddClient: one that is there gets another key and stays as it is.
AddClient(h, d, c, saved) ==
    /\ Known(d)
    /\ \/ /\ c \in Held(d)
          /\ SetCred(h, d, c, mem[d].creds[c], saved)
       \/ /\ c \notin Held(d) /\ Cardinality(Held(d)) < MaxClients
          /\ SetCred(h, d, c, "on", saved)

RemoveClient(h, d, c, saved) ==
    /\ c \in Held(d)
    /\ SetCred(h, d, c, "none", saved)

Switch(disabled) == IF disabled THEN "off" ELSE "on"

SetClientDisabled(h, d, c, disabled, saved) ==
    /\ c \in Held(d)
    /\ SetCred(h, d, c, Switch(disabled), saved)

Without(d) == [mem EXCEPT ![d] = NoDevice]

\* Delete, called by forget, which answers a failed write with an error.
Forget(h, d, saved) ==
    /\ Begins(h)
    /\ Known(d)
    /\ Save(Without(d), saved, {})
    /\ told' = [told EXCEPT ![d] = IF saved THEN NoDevice ELSE Untold]
    /\ Answer(h, saved)
    /\ UNCHANGED <<bans, gate, audit, reader>>

\* Delete, called for an agent that removes its own device: whatever comes of
\* it, also that the device is gone by now, the agent is told that it is gone.
Unregister(h, d, saved) ==
    /\ Begins(h)
    /\ Save(Without(d), saved /\ Known(d), {e \in {d} : file[e] # NoDevice})
    /\ told' = [told EXCEPT ![d] = NoDevice]
    /\ Answer(h, TRUE)
    /\ UNCHANGED <<bans, gate, audit, reader>>

\* MarkSeen, MarkClientSeen, Rename and the rename in RegisterSelf: times and
\* names are not modelled, but all of memory is written.
Touch ==
    /\ \E d \in Ids : Known(d)
    /\ Save(mem, TRUE, {})
    /\ UNCHANGED <<told, bans, gate, hand, audit, reader, count>>

\* Ban and Unban, of disable and enable.
SetBan(h, d, banned, saved) ==
    /\ Begins(h)
    /\ ban' = IF banned THEN ban \cup {d} ELSE ban \ {d}
    /\ banFile' = IF saved THEN ban' ELSE banFile
    /\ toldBan' = [toldBan EXCEPT ![d] = IF saved THEN banned ELSE Unknown]
    /\ Answer(h, saved)
    /\ UNCHANGED <<store, gate, audit, reader>>

\* Connections, kicks and the like leave a line and nothing else here.
Note(h) ==
    /\ Begins(h)
    /\ Goto(h, "stamp")
    /\ UNCHANGED <<store, bans, gate, audit, reader>>

-----------------------------------------------------------------------------
(* The audit log. *)

Dropped(e) == ~e.whole \/ e.time + Keep < clock

\* pruneLocked: the file is replaced only if a line goes and the rest can be
\* written; either way the next attempt is an hour away.
Prune(saved) ==
    IF saved THEN Kept(log, {i \in DOMAIN log : ~Dropped(log[i])}) ELSE log

\* Log takes the time first and the lock afterwards.
Stamp(h) ==
    /\ hand[h].at = "stamp"
    /\ hand' = [hand EXCEPT ![h] = [Idle EXCEPT !.at = "write", !.time = clock]]
    /\ UNCHANGED <<store, bans, gate, audit, reader, count>>

\* A line appended to s: whole, cut short or not at all.  It joins a line
\* that was cut short before it, and neither can be read again.
Appended(s, t, how) ==
    LET line == [n |-> lines + 1, time |-> t,
                 whole |-> how = "whole", open |-> how = "short"]
    IN IF how = "none" THEN s
       ELSE IF s # <<>> /\ Last(s).open
               THEN Front(s) \o <<[line EXCEPT !.whole = FALSE]>>
               ELSE Append(s, line)

\* Log, under its lock; an hour is a second here.
Write(h, how, saved) ==
    /\ hand[h].at = "write"
    /\ LET due == clock > pruned + 1
       IN /\ log' = Appended(IF due THEN Prune(saved) ELSE log,
                             hand[h].time, how)
          /\ pruned' = IF due THEN clock ELSE pruned
    /\ lines' = lines + 1
    /\ Ends(h)
    /\ UNCHANGED <<store, bans, gate, reader, count>>

\* TailBefore: the latest lines of before `before`, the newest first.
Page(before) ==
    Reverse(Latest(Kept(log, Legible(before))))

\* The page's script asks for what is older than the last line it shows.
Shows(page) ==
    IF page = <<>>
    THEN reader' = [reader EXCEPT
                      !.more = FALSE,
                      !.beyond = {log[i].n : i \in {j \in DOMAIN log :
                                                      ~Scanned(j)}}]
    ELSE reader' = [reader EXCEPT
                      !.shown = @ \o [i \in DOMAIN page |-> page[i].n],
                      !.ends = @ \cup {<<Last(page).n, Last(page).time>>},
                      !.before = Last(page).time]

\* auditList without `before`, when the tab is opened.
OpenTab ==
    /\ ~reader.on
    /\ LET page == Page(MaxClock + 1)
           legible == {log[i].n : i \in {j \in DOMAIN log : log[j].whole}}
       IN /\ page # <<>>
          /\ reader' = [on |-> TRUE, more |-> TRUE, first |-> legible,
                        beyond |-> {},
                        shown |-> [i \in DOMAIN page |-> page[i].n],
                        ends |-> {<<Last(page).n, Last(page).time>>},
                        before |-> Last(page).time]
    /\ UNCHANGED <<store, bans, gate, hand, audit, count>>

\* moreAudit: auditList with `before`.
MoreLines ==
    /\ reader.on /\ reader.more
    /\ Shows(Page(reader.before))
    /\ UNCHANGED <<store, bans, gate, hand, audit, count>>

-----------------------------------------------------------------------------

\* The relay ends and OpenStore and NewAuditor read what it left; the limits
\* and the goroutines are gone, and so is the administrator's session.  A
\* device whose removal was not written is back, whatever was said of it.
Restart(saved) ==
    /\ restarts < MaxRestarts
    /\ restarts' = restarts + 1
    /\ mem' = file /\ ban' = banFile
    /\ told' = [d \in Ids |-> IF d \in unwritten THEN Untold ELSE told[d]]
    /\ unwritten' = {}
    /\ recent' = <<>> /\ admits' = <<>>
    /\ hand' = [h \in Hands |-> Idle]
    /\ log' = Prune(saved) /\ pruned' = clock
    /\ reader' = Closed
    /\ UNCHANGED <<file, banFile, toldBan, lines, clock, ops>>

Tick ==
    /\ clock < MaxClock
    /\ clock' = clock + 1
    /\ UNCHANGED <<store, bans, gate, hand, audit, reader, ops, restarts>>

Registers(h) ==
    \/ \E d \in Ids, k \in Keys : RegisterAdmit(h, d, k)
    \/ CapRead(h)
    \/ BanRead(h)
    \/ \E saved \in BOOLEAN : RegisterCommit(h, saved)

Manages(h) == \E d \in Ids, saved \in BOOLEAN :
    \/ Forget(h, d, saved) \/ Unregister(h, d, saved)
    \/ \E banned \in BOOLEAN : SetBan(h, d, banned, saved)
    \/ \E c \in Creds : \/ AddClient(h, d, c, saved)
                        \/ RemoveClient(h, d, c, saved)
                        \/ \E disabled \in BOOLEAN :
                              SetClientDisabled(h, d, c, disabled, saved)

Logs(h) ==
    \/ Note(h)
    \/ Stamp(h)
    \/ \E how \in {"whole", "short", "none"}, saved \in BOOLEAN :
          Write(h, how, saved)

Next ==
    \/ \E h \in Hands : Registers(h) \/ Manages(h) \/ Logs(h)
    \/ Touch
    \/ OpenTab \/ MoreLines
    \/ \E saved \in BOOLEAN : Restart(saved)
    \/ Tick

Spec == Init /\ [][Next]_vars
=============================================================================
