--------------------------- MODULE DesktopProofs ----------------------------
(***************************************************************************)
(* Proofs about the desktop program, for any number of agents, calls,      *)
(* identities, credentials and synchronisations: types; that no agent is   *)
(* lost and one told to stop has no connection; that a paired machine is   *)
(* in service; what the window shows; that the program and the relay       *)
(* agree about credentials; and that the program implements Supervisor.    *)
(***************************************************************************)
EXTENDS DesktopProps, TLAPS

USE DesktopConstants

-----------------------------------------------------------------------------
(* What leaves a group of variables alone leaves its type alone.           *)

LEMMA ConfigFrame ==
  ASSUME AppTyped, UNCHANGED <<config, ag, enrolling>> PROVE AppTyped'
BY DEF AppTyped, config

LEMMA FilesFrame == ASSUME FilesTyped, UNCHANGED files PROVE FilesTyped'
BY DEF FilesTyped, files

LEMMA AgentsFrame == ASSUME AgentsTyped, UNCHANGED agents PROVE AgentsTyped'
BY DEF AgentsTyped, agents

LEMMA TasksFrame == ASSUME TasksTyped, UNCHANGED task PROVE TasksTyped'
BY DEF TasksTyped

LEMMA SyncsFrame == ASSUME SyncsTyped, UNCHANGED syncs PROVE SyncsTyped'
BY DEF SyncsTyped, syncs

LEMMA RelayFrame == ASSUME RelayTyped, UNCHANGED relay PROVE RelayTyped'
BY DEF RelayTyped, relay

LEMMA PastFrame == ASSUME PastTyped, UNCHANGED past PROVE PastTyped'
BY DEF PastTyped, past

-----------------------------------------------------------------------------
(* Types of the helpers.                                                   *)

LEMMA AtTyped ==
  ASSUME TasksTyped, NEW t \in Tasks, NEW a \in Places, At(t, a)
  PROVE  TasksTyped'
BY DEF TasksTyped, TaskRecs, At

LEMMA NoTaskTyped == NoTask \in TaskRecs
BY DEF NoTask, TaskRecs, Ops, Places

LEMMA BootTaskTyped == ASSUME NEW k PROVE BootTask(k) \in TaskRecs
BY DEF BootTask, NoTask, TaskRecs, Ops, Places

LEMMA NoSyncTyped == NoSync \in SyncRecs
BY DEF NoSync, SyncRecs

LEMMA BeginsTyped ==
  ASSUME TasksTyped, PastTyped, NEW t \in Tasks, NEW rec \in TaskRecs,
         Begins(t, rec)
  PROVE  TasksTyped' /\ overlapped' \in BOOLEAN
BY DEF TasksTyped, PastTyped, Begins

LEMMA SaveTyped ==
  ASSUME FilesTyped, NEW saved \in BOOLEAN, Save(saved),
         key' \in Ids \cup {None}, creds' \in SUBSET Creds, shown' \in BOOLEAN
  PROVE  FilesTyped'
BY DEF FilesTyped, Save

LEMMA EvictedTyped ==
  ASSUME AgentsTyped, NEW i
  PROVE  Evicted(i) \in [Runs -> {"none", "open", "closed"}]
BY DEF AgentsTyped, Evicted

LEMMA ProvisionedTyped ==
  ASSUME AgentsTyped, RelayTyped, NEW i, NEW k, NEW add \in BOOLEAN,
         Provisioned(i, k, add), add => k \in Creds
  PROVE  AgentsTyped' /\ RelayTyped'
BY EvictedTyped DEF AgentsTyped, RelayTyped, Provisioned

LEMMA GoesOnTyped ==
  ASSUME AgentsTyped, NEW r \in Runs, GoesOn(r, "pause") \/ GoesOn(r, "dial")
                                          \/ GoesOn(r, "rereg")
  PROVE  pc' \in [Runs -> {"none", "dial", "shake", "serve", "rereg",
                           "again", "pause", "over", "done"}]
BY DEF AgentsTyped, GoesOn

-----------------------------------------------------------------------------
(* Types, action by action.                                                *)

LEMMA InitTyped == ASSUME Init PROVE TypeOK
<1>1. AppTyped /\ FilesTyped
  <2>1. key \in Ids \cup {None} /\ agentJson \in Ids \cup {None}
    BY DEF Init
  <2>2. enrolling \in BOOLEAN
    BY DEF Init
  <2>3. disk \in [key : Ids \cup {None}, creds : SUBSET Creds,
                 shown : BOOLEAN]
    BY DEF Init
  <2> QED BY <2>1, <2>2, <2>3 DEF Init, AppTyped, FilesTyped
<1>2. AgentsTyped
  BY DEF Init, AgentsTyped
<1>3. TasksTyped
  BY NoTaskTyped, BootTaskTyped DEF Init, TasksTyped
<1>4. SyncsTyped
  BY NoSyncTyped DEF Init, SyncsTyped
<1>5. RelayTyped
  BY DEF Init, RelayTyped
<1>6. PastTyped
  <2>1. born \in SUBSET Ids
    BY <1>5 DEF Init, RelayTyped
  <2>2. restarts \in 0 .. MaxRestarts
    BY DEF Init
  <2> QED BY <2>1, <2>2 DEF Init, PastTyped
<1> QED BY <1>1, <1>2, <1>3, <1>4, <1>5, <1>6 DEF TypeOK

LEMMA RestartingCallTyped ==
  ASSUME TypeOK, NEW t \in Tasks, NEW op \in {"setName", "import"},
         SaveAndRestart(t, op),
         key' \in Ids \cup {None}, rekeyed' \in BOOLEAN
  PROVE  TypeOK'
<1>1. AppTyped'
  BY DEF TypeOK, AppTyped, SaveAndRestart
<1>2. PICK saved \in BOOLEAN :
        /\ Save(saved)
        /\ Begins(t, [NoTask EXCEPT
               !.op = op, !.was = saved /\ ag # None,
               !.at = IF saved /\ ag # None THEN "stop" ELSE "done"])
  BY DEF SaveAndRestart
<1>3. FilesTyped'
  BY <1>1, <1>2, SaveTyped DEF TypeOK, AppTyped
<1>4. [NoTask EXCEPT !.op = op, !.was = saved /\ ag # None,
               !.at = IF saved /\ ag # None THEN "stop" ELSE "done"]
        \in TaskRecs
  <2>1. (saved /\ ag # None) \in BOOLEAN
    OBVIOUS
  <2> QED BY <2>1 DEF NoTask, TaskRecs, Ops, Places
<1>5. TasksTyped' /\ overlapped' \in BOOLEAN
  BY <1>2, <1>4, BeginsTyped DEF TypeOK
<1>6. AgentsTyped' /\ SyncsTyped' /\ RelayTyped'
  BY AgentsFrame, SyncsFrame, RelayFrame DEF TypeOK, SaveAndRestart
<1>7. PastTyped'
  BY <1>5 DEF TypeOK, PastTyped, SaveAndRestart
<1> QED BY <1>1, <1>3, <1>5, <1>6, <1>7 DEF TypeOK

LEMMA PlainCallTyped ==
  ASSUME TypeOK, NEW t \in Tasks, NEW rec \in TaskRecs, Begins(t, rec),
         UNCHANGED <<config, ag, files, agents, syncs, relay>>,
         enrolling' \in BOOLEAN,
         issued' \in SUBSET Creds, lost' \in SUBSET Creds,
         halted' \in BOOLEAN,
         UNCHANGED <<born, raced, gaveUp, cut, misread, inherited, rekeyed,
                     restarts, unheard>>
  PROVE  TypeOK'
<1>1. AppTyped'
  BY DEF TypeOK, AppTyped, config
<1>2. TasksTyped' /\ overlapped' \in BOOLEAN
  BY BeginsTyped DEF TypeOK
<1>3. FilesTyped' /\ AgentsTyped' /\ SyncsTyped' /\ RelayTyped'
  BY FilesFrame, AgentsFrame, SyncsFrame, RelayFrame DEF TypeOK
<1>4. PastTyped'
  BY <1>2 DEF TypeOK, PastTyped
<1> QED BY <1>1, <1>2, <1>3, <1>4 DEF TypeOK

LEMMA CallTyped ==
  ASSUME TypeOK, NEW t \in Tasks, Call(t)
  PROVE  TypeOK'
<1>1. CASE SetName(t)
  <2>1. key' \in Ids \cup {None} /\ rekeyed' \in BOOLEAN
    BY <1>1 DEF SetName, TypeOK, AppTyped, PastTyped
  <2> QED BY <1>1, <2>1, RestartingCallTyped DEF SetName
<1>2. CASE ImportConfig(t)
  <2>1. key' \in Ids \cup {None} /\ rekeyed' \in BOOLEAN
    BY <1>2 DEF ImportConfig, TypeOK, AppTyped, PastTyped
  <2> QED BY <1>2, <2>1, RestartingCallTyped DEF ImportConfig
<1>3. CASE SelfRegister(t)
  <2>1. [NoTask EXCEPT !.op = "enroll", !.at = "net", !.was = ag # None]
          \in TaskRecs
    BY DEF NoTask, TaskRecs, Ops, Places
  <2>2. /\ issued' \in SUBSET Creds /\ lost' \in SUBSET Creds
        /\ halted' \in BOOLEAN
    BY <1>3 DEF SelfRegister, TypeOK, PastTyped
  <2> QED BY <1>3, <2>1, <2>2, PlainCallTyped DEF SelfRegister
<1>4. CASE Revoke(t)
  <2>1. [NoTask EXCEPT !.op = "revoke", !.mine = ag,
                       !.at = IF ag = None THEN "stop" ELSE "unreg"]
          \in TaskRecs
    BY DEF TypeOK, AppTyped, NoTask, TaskRecs, Ops, Places
  <2>2. /\ issued' \in SUBSET Creds /\ lost' \in SUBSET Creds
        /\ enrolling' \in BOOLEAN /\ halted' \in BOOLEAN
    BY <1>4 DEF Revoke, TypeOK, AppTyped, PastTyped
  <2> QED BY <1>4, <2>1, <2>2, PlainCallTyped DEF Revoke
<1>5. ASSUME NEW k \in Creds, CreateInvite(t, k) \/ RemoveClient(t, k)
      PROVE  TypeOK'
  <2>1. PICK op \in {"invite", "remove"} : ChangesCreds(t, op, k)
    BY <1>5 DEF CreateInvite, RemoveClient
  <2>2. [op |-> op, at |-> IF ag # None THEN "stop" ELSE "net",
         key |-> key, cred |-> k, was |-> ag # None, mine |-> None]
          \in TaskRecs
    BY DEF TypeOK, AppTyped, TaskRecs, Ops, Places
  <2>3. /\ issued' \in SUBSET Creds /\ lost' \in SUBSET Creds
        /\ enrolling' \in BOOLEAN /\ halted' \in BOOLEAN
    BY <1>5, <2>1 DEF CreateInvite, RemoveClient, ChangesCreds, TypeOK,
                      AppTyped, PastTyped
  <2>4. UNCHANGED <<born, raced, gaveUp, cut, misread, inherited, rekeyed,
                    restarts, unheard>>
    BY <2>1 DEF ChangesCreds
  <2> QED BY <2>1, <2>2, <2>3, <2>4, PlainCallTyped DEF ChangesCreds
<1>6. ASSUME NEW on \in BOOLEAN, IF on THEN Start(t) ELSE Stop(t)
      PROVE  TypeOK'
  <2> DEFINE word == IF on THEN "start" ELSE "stop"
  <2>1. [NoTask EXCEPT !.op = word, !.at = word] \in TaskRecs
    BY DEF NoTask, TaskRecs, Ops, Places
  <2>2. Begins(t, [NoTask EXCEPT !.op = word, !.at = word])
    BY <1>6 DEF Start, Stop
  <2>3. /\ issued' \in SUBSET Creds /\ lost' \in SUBSET Creds
        /\ enrolling' \in BOOLEAN /\ halted' \in BOOLEAN
    BY <1>6 DEF Start, Stop, TypeOK, AppTyped, PastTyped
  <2>4. /\ UNCHANGED <<config, ag, files, agents, syncs, relay>>
        /\ UNCHANGED <<born, raced, gaveUp, cut, misread, inherited, rekeyed,
                       restarts, unheard>>
    BY <1>6 DEF Start, Stop
  <2> QED BY <2>1, <2>2, <2>3, <2>4, PlainCallTyped
<1> QED BY <1>1, <1>2, <1>3, <1>4, <1>5, <1>6 DEF Call

LEMMA ProceedTyped ==
  ASSUME TypeOK, NEW t \in Tasks, Proceed(t)
  PROVE  TypeOK'
<1>0. /\ AppTyped /\ FilesTyped /\ AgentsTyped /\ TasksTyped /\ SyncsTyped
      /\ RelayTyped /\ PastTyped
      /\ task[t] \in TaskRecs
  BY DEF TypeOK, TasksTyped
<1>1. CASE Unregister(t)
  <2>1. AgentsTyped' /\ RelayTyped'
    BY <1>0, <1>1, EvictedTyped DEF Unregister, AgentsTyped, RelayTyped
  <2> QED BY <1>0, <1>1, <2>1, AtTyped, ConfigFrame, FilesFrame, SyncsFrame,
             PastFrame DEF Unregister, TypeOK, Places
<1>2. CASE StopAgent(t)
  <2>1. CASE ag = None
    <3>1. AgentsTyped' /\ PastTyped'
      BY <1>0, <1>2, <2>1 DEF StopAgent, AgentsTyped, PastTyped
    <3>2. AfterStop(t) \in Places
      BY DEF AfterStop, Places
    <3> QED BY <1>0, <1>2, <2>1, <3>1, <3>2, AtTyped, ConfigFrame, FilesFrame,
               SyncsFrame, RelayFrame DEF StopAgent, TypeOK
  <2>2. CASE ag # None
    <3>1. ag \in Runs
      BY <1>0, <2>2 DEF AppTyped
    <3>2. AgentsTyped' /\ PastTyped'
      BY <1>0, <1>2, <2>2, <3>1 DEF StopAgent, Halt, AgentsTyped, PastTyped
    <3>3. TasksTyped'
      BY <1>0, <1>2, <2>2, <3>1 DEF StopAgent, TasksTyped, TaskRecs, Places
    <3> QED BY <1>0, <1>2, <3>2, <3>3, ConfigFrame, FilesFrame, SyncsFrame,
               RelayFrame DEF StopAgent, TypeOK
  <2> QED BY <2>1, <2>2
<1>3. CASE StopWaited(t)
  <2>1. PastTyped'
    BY <1>0, <1>3 DEF StopWaited, PastTyped
  <2>2. AfterStop(t) \in Places
    BY DEF AfterStop, Places
  <2> QED BY <1>0, <1>3, <2>1, <2>2, AtTyped, ConfigFrame, FilesFrame,
             AgentsFrame, SyncsFrame, RelayFrame DEF StopWaited, TypeOK
<1>4. CASE Provision(t)
  <2>1. task[t].cred \in Creds
    BY <1>0, <1>4 DEF TaskRecs, Provision
  <2>2. AgentsTyped' /\ RelayTyped'
    BY <1>0, <1>4, <2>1, ProvisionedTyped DEF Provision
  <2>3. AfterFailure(t) \in Places /\ "commit" \in Places
    BY DEF AfterFailure, Places
  <2>4. TasksTyped'
    BY <1>0, <1>4, <2>3, AtTyped DEF Provision
  <2>5. PastTyped'
    BY <1>0, <1>4, <2>1 DEF Provision, PastTyped
  <2> QED BY <1>0, <1>4, <2>2, <2>4, <2>5, ConfigFrame, FilesFrame, SyncsFrame
          DEF Provision, TypeOK
<1>5. CASE ProvisionFails(t)
  <2>1. AfterFailure(t) \in Places /\ "commit" \in Places
    BY DEF AfterFailure, Places
  <2>2. TasksTyped'
    BY <1>0, <1>5, <2>1, AtTyped DEF ProvisionFails
  <2> QED BY <1>0, <1>5, <2>2, ConfigFrame, FilesFrame, AgentsFrame,
             SyncsFrame, RelayFrame, PastFrame DEF ProvisionFails, TypeOK
<1>6. CASE CommitCreds(t)
  <2>1. task[t].cred \in Creds
    BY <1>0, <1>6 DEF TaskRecs, CommitCreds
  <2>2. AppTyped' /\ SyncsTyped'
    BY <1>0, <1>6, <2>1 DEF CommitCreds, AppTyped, SyncsTyped
  <2>3. PICK saved \in BOOLEAN : Save(saved)
    BY <1>6 DEF CommitCreds
  <2>4. FilesTyped'
    BY <1>0, <2>2, <2>3, SaveTyped DEF AppTyped
  <2>5. TasksTyped'
    BY <1>0, <1>6, AtTyped DEF CommitCreds, Places
  <2> QED BY <1>0, <1>6, <2>2, <2>4, <2>5, AgentsFrame, RelayFrame, PastFrame
          DEF CommitCreds, TypeOK
<1>7. CASE Enroll(t)
  <2>1. PICK i \in Ids \ born :
          /\ born' = born \cup {i}
          /\ known' \in {known, known \cup {i}}
          /\ \/ /\ task' = [task EXCEPT ![t].at = "commit", ![t].key = i]
                /\ UNCHANGED enrolling
             \/ /\ At(t, "done")
                /\ enrolling' = FALSE
    BY <1>7 DEF Enroll
  <2>2. TasksTyped'
    BY <1>0, <2>1 DEF TasksTyped, TaskRecs, At, Places
  <2>3. AppTyped'
    BY <1>0, <1>7, <2>1 DEF Enroll, AppTyped, config
  <2>4. RelayTyped'
    BY <1>0, <1>7, <2>1 DEF Enroll, RelayTyped
  <2>5. PastTyped'
    BY <1>0, <1>7, <2>1 DEF Enroll, PastTyped
  <2> QED BY <1>0, <1>7, <2>2, <2>3, <2>4, <2>5, FilesFrame, AgentsFrame,
             SyncsFrame DEF Enroll, TypeOK
<1>8. ASSUME NEW from, NEW k \in Ids \cup {None}, NEW to \in Places,
             NewKey(t, from, k, to)
      PROVE  TypeOK'
  <2>1. AppTyped' /\ PastTyped'
    BY <1>0, <1>8 DEF NewKey, AppTyped, PastTyped
  <2>2. PICK saved \in BOOLEAN : Save(saved)
    BY <1>8 DEF NewKey
  <2>3. FilesTyped'
    BY <1>0, <2>1, <2>2, SaveTyped DEF AppTyped
  <2>4. TasksTyped'
    BY <1>0, <1>8, AtTyped DEF NewKey
  <2> QED BY <1>0, <1>8, <2>1, <2>3, <2>4, AgentsFrame, SyncsFrame, RelayFrame
          DEF NewKey, TypeOK
<1>9. CASE CommitEnroll(t) \/ ClearKey(t)
  <2>1. task[t].key \in Ids \cup {None}
    BY <1>0 DEF TaskRecs
  <2> QED BY <1>8, <1>9, <2>1 DEF CommitEnroll, ClearKey, Places
<1>10. CASE StartAgent(t)
  <2>1. TasksTyped'
    BY <1>0, <1>10 DEF StartAgent, TasksTyped, TaskRecs, Places, AppTyped
  <2>2. AppTyped' /\ PastTyped'
    BY <1>0, <1>10 DEF StartAgent, AppTyped, config, PastTyped
  <2> QED BY <1>0, <1>10, <2>1, <2>2, FilesFrame, AgentsFrame, SyncsFrame,
             RelayFrame DEF StartAgent, TypeOK
<1>11. CASE Launch(t)
  <2>1. task[t].key \in Ids \cup {None}
    BY <1>0 DEF TaskRecs
  <2>2. AppTyped' /\ AgentsTyped'
    BY <1>0, <1>11, <2>1 DEF Launch, AppTyped, config, AgentsTyped
  <2>4. /\ inherited' \in BOOLEAN /\ raced' \in BOOLEAN
        /\ halted' \in BOOLEAN
    <3>1. halted' = FALSE
      BY <1>11 DEF Launch
    <3>2. inherited' \in BOOLEAN /\ raced' \in BOOLEAN
      BY <1>0, <1>11 DEF Launch, PastTyped, AppTyped
    <3> QED BY <3>1, <3>2
  <2>5. PastTyped'
    BY <1>0, <1>11, <2>4 DEF Launch, PastTyped
  <2>3. TasksTyped'
    BY <1>0, <1>11, AtTyped DEF Launch, Places
  <2> QED BY <1>0, <1>11, <2>2, <2>3, <2>5, FilesFrame, SyncsFrame,
             RelayFrame DEF Launch, TypeOK
<1> QED BY <1>1, <1>2, <1>3, <1>4, <1>5, <1>6, <1>7, <1>9, <1>10, <1>11
        DEF Proceed

LEMMA AgentTyped ==
  ASSUME TypeOK, NEW r \in Runs, Agent(r)
  PROVE  TypeOK'
<1>0. /\ AppTyped /\ FilesTyped /\ AgentsTyped /\ TasksTyped /\ SyncsTyped
      /\ RelayTyped /\ PastTyped
  BY DEF TypeOK
<1>1. FilesTyped' /\ TasksTyped'
  BY <1>0, FilesFrame, TasksFrame
     DEF Agent, Dialled, Connected, Missing, Disconnected, Paused, ReRegister,
         ReRegistered, Ends
<1>6. PastTyped'
  BY <1>0 DEF Agent, Dialled, Connected, Missing, Disconnected, Paused,
              ReRegister, ReRegistered, Ends, PastTyped, past
<1>2. AppTyped'
  BY <1>0 DEF Agent, Dialled, Connected, Missing, Disconnected, Paused,
              ReRegister, ReRegistered, Ends, AppTyped, config
<1>3. SyncsTyped'
  BY <1>0, SyncsFrame DEF Agent, Dialled, Connected, Missing, Disconnected,
              Paused, ReRegister, ReRegistered, Ends, SyncsTyped, syncs
<1>4. RelayTyped'
  BY <1>0 DEF Agent, Dialled, Connected, Missing, Disconnected, Paused,
              ReRegister, ReRegistered, Ends, RelayTyped, relay, AppTyped
<1>5. AgentsTyped'
  BY <1>0, EvictedTyped
     DEF Agent, Dialled, Connected, Missing, Disconnected, Paused, ReRegister,
         ReRegistered, Ends, AgentsTyped, GoesOn
<1> QED BY <1>1, <1>2, <1>3, <1>4, <1>5, <1>6 DEF TypeOK

LEMMA SyncTyped ==
  ASSUME TypeOK, NEW s \in Syncs, Sync(s)
  PROVE  TypeOK'
<1>0. /\ AppTyped /\ FilesTyped /\ AgentsTyped /\ TasksTyped /\ SyncsTyped
      /\ RelayTyped /\ PastTyped
  BY DEF TypeOK
<1>1. CASE SyncBegin(s)
  <2>1. SyncsTyped'
    <3>1. [on |-> TRUE, key |-> key, todo |-> creds] \in SyncRecs
      BY <1>0 DEF AppTyped, SyncRecs
    <3>2. CASE synced \/ key = None
      BY <1>0, <1>1, <3>2 DEF SyncBegin, SyncsTyped
    <3>3. CASE ~(synced \/ key = None)
      BY <1>0, <1>1, <3>1, <3>3 DEF SyncBegin, SyncsTyped
    <3> QED BY <3>2, <3>3
  <2>2. PastTyped'
    BY <1>0, <1>1 DEF SyncBegin, PastTyped, AppTyped
  <2> QED BY <1>0, <1>1, <2>1, <2>2, ConfigFrame, FilesFrame, AgentsFrame,
             TasksFrame, RelayFrame DEF SyncBegin, TypeOK
<1>2. CASE SyncEnds(s)
  <2>1. SyncsTyped'
    BY <1>0, <1>2, NoSyncTyped DEF SyncEnds, SyncsTyped
  <2> QED BY <1>0, <1>2, <2>1, ConfigFrame, FilesFrame, AgentsFrame,
             TasksFrame, RelayFrame, PastFrame DEF SyncEnds, TypeOK
<1>3. ASSUME NEW k \in Creds, SyncOne(s, k) PROVE TypeOK'
  <2>1. SyncsTyped'
    <3>1. sync[s] \in SyncRecs
      BY <1>0 DEF SyncsTyped
    <3>2. [sync[s] EXCEPT !.todo = @ \ {k}] \in SyncRecs
      BY <3>1 DEF SyncRecs
    <3>3. /\ \/ /\ sync' = [sync EXCEPT ![s] =
                                [sync[s] EXCEPT !.todo = @ \ {k}]]
                /\ UNCHANGED synced
             \/ /\ sync' = [sync EXCEPT ![s] = NoSync]
                /\ synced' = FALSE
          /\ UNCHANGED wants
      BY <1>3 DEF SyncOne
    <3> QED BY <1>0, <3>2, <3>3, NoSyncTyped DEF SyncsTyped
  <2>2. AgentsTyped' /\ RelayTyped'
    BY <1>0, <1>3, ProvisionedTyped, AgentsFrame, RelayFrame DEF SyncOne
  <2> QED BY <1>0, <1>3, <2>1, <2>2, ConfigFrame, FilesFrame, TasksFrame,
             PastFrame DEF SyncOne, TypeOK
<1> QED BY <1>1, <1>2, <1>3 DEF Sync

LEMMA OutsideTyped ==
  ASSUME TypeOK, Outside
  PROVE  TypeOK'
<1>0. /\ AppTyped /\ FilesTyped /\ AgentsTyped /\ TasksTyped /\ SyncsTyped
      /\ RelayTyped /\ PastTyped
  BY DEF TypeOK
<1>1. ASSUME NEW r \in Runs, DisconnectNow(r) PROVE TypeOK'
  <2>1. RelayTyped'
    BY <1>0, <1>1 DEF DisconnectNow, RelayTyped
  <2> QED BY <1>0, <1>1, <2>1, ConfigFrame, FilesFrame, AgentsFrame,
             TasksFrame, SyncsFrame, PastFrame DEF DisconnectNow, TypeOK
<1>2. ASSUME NEW r \in Runs, Notice(r) PROVE TypeOK'
  <2>1. AppTyped' /\ AgentsTyped' /\ PastTyped'
    <3>1. PICK b \in BOOLEAN :
          disabled' = [disabled EXCEPT ![r] = b] /\ shown' = b
      <4>1. (ident[r] \in banned) \in BOOLEAN
        OBVIOUS
      <4> QED BY <1>2, <4>1 DEF Notice
    <3> QED BY <1>0, <1>2, <3>1 DEF Notice, AppTyped, AgentsTyped, PastTyped
  <2>2. CASE shown' = shown
    <3>1. FilesTyped'
      BY <1>0, <1>2, <2>2, FilesFrame DEF Notice
    <3> QED BY <1>0, <1>2, <2>1, <3>1, TasksFrame, SyncsFrame, RelayFrame
            DEF Notice, TypeOK
  <2>3. CASE shown' # shown
    <3>1. PICK saved \in BOOLEAN : Save(saved)
      BY <1>2, <2>3 DEF Notice
    <3>2. FilesTyped'
      BY <1>0, <2>1, <3>1, SaveTyped DEF AppTyped
    <3> QED BY <1>0, <1>2, <2>1, <3>2, TasksFrame, SyncsFrame, RelayFrame
            DEF Notice, TypeOK
  <2> QED BY <2>2, <2>3
<1>3. ASSUME NEW r \in Runs, Breaks(r) PROVE TypeOK'
  <2>1. AgentsTyped'
    BY <1>0, <1>3 DEF Breaks, Environment, AgentsTyped
  <2> QED BY <1>0, <1>3, <2>1, ConfigFrame, FilesFrame, TasksFrame,
             SyncsFrame, RelayFrame, PastFrame DEF Breaks, Environment, TypeOK
<1>4. ASSUME NEW i \in Ids, Forget(i) \/ Ban(i) \/ Controller(i)
      PROVE  TypeOK'
  <2>1. RelayTyped' /\ AgentsTyped'
    BY <1>0, <1>4 DEF Forget, Ban, Controller, Environment, RelayTyped,
                      AgentsTyped
  <2>2. Environment
    BY <1>4 DEF Forget, Ban, Controller
  <2> QED BY <1>0, <2>1, <2>2, ConfigFrame, FilesFrame, TasksFrame,
             SyncsFrame, PastFrame DEF Environment, TypeOK
<1>5. CASE Restart
  <2>1. AppTyped'
    BY <1>0, <1>5 DEF Restart, AppTyped, FilesTyped
  <2>2. AgentsTyped'
    BY <1>5 DEF Restart, AgentsTyped
  <2>3. TasksTyped'
    BY <1>5, NoTaskTyped, BootTaskTyped DEF Restart, TasksTyped
  <2>4. SyncsTyped'
    BY <1>5, NoSyncTyped DEF Restart, SyncsTyped
  <2>5. PastTyped'
    <3>1. {task[t].cred : t \in {u \in Tasks : task[u].at = "commit"}}
            \ {None} \subseteq Creds
      BY <1>0 DEF TasksTyped, TaskRecs
    <3>2. lost' \in SUBSET Creds
      BY <1>0, <1>5, <3>1 DEF Restart, PastTyped, AppTyped, FilesTyped
    <3>3. halted' = FALSE
      BY <1>5 DEF Restart
    <3>4. restarts' \in 0 .. MaxRestarts
      BY <1>0, <1>5, DesktopConstants DEF Restart, PastTyped
    <3>5. UNCHANGED <<born, issued, overlapped, raced, gaveUp, misread,
                      inherited, rekeyed, unheard>> /\ cut' = {}
      BY <1>5 DEF Restart
    <3> QED BY <1>0, <3>2, <3>3, <3>4, <3>5 DEF PastTyped
  <2> QED BY <1>0, <1>5, <2>1, <2>2, <2>3, <2>4, <2>5, FilesFrame, RelayFrame
          DEF Restart, TypeOK
<1> QED BY <1>1, <1>2, <1>3, <1>4, <1>5 DEF Outside

LEMMA NextTyped == ASSUME TypeOK, [Next]_vars PROVE TypeOK'
<1>1. CASE UNCHANGED vars
  BY <1>1, ConfigFrame, FilesFrame, AgentsFrame, TasksFrame, SyncsFrame,
     RelayFrame, PastFrame DEF TypeOK, vars
<1>2. CASE Next
  BY <1>2, CallTyped, ProceedTyped, AgentTyped, SyncTyped, OutsideTyped
  DEF Next
<1> QED BY <1>1, <1>2

\* Every variable of the desktop program keeps its type.
THEOREM TypeCorrect == Spec => []TypeOK
BY InitTyped, NextTyped, PTL DEF Spec

-----------------------------------------------------------------------------
(* Agents and the program that holds them.                                 *)

\* startAgent checks and sets in two steps; one call at a time is between
\* them, and no agent is held then, unless calls raced.
OneLaunch ==
    ~raced => \A t, u \in Tasks :
        task[t].at = "launch" /\ task[u].at = "launch" => t = u /\ ag = None

\* The agent that is held has begun and has not ended, one that has not begun
\* was not stopped, and one that is ending was.
Ordered ==
    /\ ag # None => pc[ag] \notin {"none", "done"}
    /\ \A r \in Runs : /\ pc[r] = "none" => ~stopped[r]
                       /\ pc[r] \in {"over", "done"} => stopped[r]

IInv == TypeOK /\ OneLaunch /\ Ordered /\ Held /\ Silenced

LEMMA InitInv == ASSUME Init PROVE IInv
<1>1. TypeOK
  BY InitTyped
<1>2. OneLaunch
  BY DEF Init, OneLaunch, BootTask, NoTask
<1>3. Ordered /\ Held /\ Silenced
  BY DEF Init, Ordered, Held, Silenced, Alive
<1> QED BY <1>1, <1>2, <1>3 DEF IInv

\* A step that starts and stops nothing and opens no connection.
LEMMA CalmStep ==
  ASSUME IInv, UNCHANGED <<pc, stopped, ag, cut, raced>>,
         \A r \in Runs : link'[r] = "open" => link[r] = "open",
         \A t \in Tasks : task'[t].at = "launch" => task[t].at = "launch"
  PROVE  OneLaunch' /\ Ordered' /\ Held' /\ Silenced'
BY DEF IInv, OneLaunch, Ordered, Held, Silenced, Alive

LEMMA AtElsewhere ==
  ASSUME TasksTyped, NEW t \in Tasks, NEW a, a # "launch", At(t, a)
  PROVE  \A u \in Tasks : task'[u].at = "launch" => task[u].at = "launch"
BY DEF TasksTyped, TaskRecs, At

LEMMA EvictedCloses ==
  ASSUME AgentsTyped, NEW i, link' = Evicted(i)
  PROVE  \A r \in Runs : link'[r] = "open" => link[r] = "open"
BY DEF AgentsTyped, Evicted

LEMMA CallKeeps ==
  ASSUME IInv, NEW t \in Tasks, Call(t)
  PROVE  OneLaunch' /\ Ordered' /\ Held' /\ Silenced'
<1>1. UNCHANGED <<pc, stopped, ag, cut, raced, link>>
  BY DEF Call, SetName, ImportConfig, SaveAndRestart, SelfRegister, Revoke,
         Start, Stop, CreateInvite, RemoveClient, ChangesCreds, config, agents
<1>2. \A u \in Tasks : task'[u].at = "launch" => task[u].at = "launch"
  <2> USE DEF TasksTyped, TaskRecs, Begins, NoTask
  <2>0. TasksTyped
    BY DEF IInv, TypeOK
  <2>1. CASE SetName(t) \/ ImportConfig(t)
    BY <2>0, <2>1 DEF SetName, ImportConfig, SaveAndRestart
  <2>2. CASE SelfRegister(t)
    BY <2>0, <2>2 DEF SelfRegister
  <2>3. CASE Revoke(t)
    BY <2>0, <2>3 DEF Revoke
  <2>4. ASSUME NEW k \in Creds, CreateInvite(t, k) \/ RemoveClient(t, k)
        PROVE  \A u \in Tasks : task'[u].at = "launch" => task[u].at = "launch"
    BY <2>0, <2>4 DEF CreateInvite, RemoveClient, ChangesCreds
  <2>5. CASE Start(t) \/ Stop(t)
    BY <2>0, <2>5 DEF Start, Stop
  <2> QED BY <2>1, <2>2, <2>3, <2>4, <2>5 DEF Call
<1> QED BY <1>1, <1>2, CalmStep

LEMMA ProceedKeeps ==
  ASSUME IInv, NEW t \in Tasks, Proceed(t)
  PROVE  OneLaunch' /\ Ordered' /\ Held' /\ Silenced'
<1>0. AppTyped /\ AgentsTyped /\ TasksTyped /\ PastTyped
  BY DEF IInv, TypeOK
<1>1. CASE \/ Unregister(t) \/ Provision(t) \/ ProvisionFails(t)
           \/ CommitCreds(t) \/ CommitEnroll(t) \/ ClearKey(t)
           \/ StopWaited(t)
  <2>1. UNCHANGED <<pc, stopped, ag, cut, raced>>
    BY <1>1 DEF Unregister, Provision, Provisioned, ProvisionFails,
                CommitCreds, CommitEnroll, ClearKey, NewKey, StopWaited,
                agents, past
  <2>2. \A r \in Runs : link'[r] = "open" => link[r] = "open"
    BY <1>0, <1>1, EvictedCloses
       DEF Unregister, Provision, Provisioned, ProvisionFails, CommitCreds,
           CommitEnroll, ClearKey, NewKey, StopWaited, agents
  <2>3. \E a : a # "launch" /\ At(t, a)
    BY <1>1 DEF Unregister, Provision, ProvisionFails, CommitCreds,
                CommitEnroll, ClearKey, NewKey, StopWaited, AfterStop,
                AfterFailure
  <2> QED BY <1>0, <2>1, <2>2, <2>3, CalmStep, AtElsewhere
<1>2. CASE Enroll(t)
  <2>1. \A u \in Tasks : task'[u].at = "launch" => task[u].at = "launch"
    BY <1>0, <1>2 DEF Enroll, At, TasksTyped, TaskRecs
  <2> QED BY <1>2, <2>1, CalmStep DEF Enroll, config, agents
<1>3. CASE StopAgent(t)
  <2>1. \A u \in Tasks : task'[u].at = "launch" => task[u].at = "launch"
    BY <1>0, <1>3 DEF StopAgent, At, AfterStop, TasksTyped, TaskRecs
  <2>2. UNCHANGED <<pc, ag, raced>>
    BY <1>3 DEF StopAgent
  <2>3. CASE ag = None
    BY <1>3, <2>1, <2>2, <2>3, CalmStep DEF StopAgent
  <2>4. CASE ag # None
    <3>1. ag \in Runs /\ Halt(ag)
      BY <1>0, <1>3, <2>4 DEF StopAgent, AppTyped
    <3>2. OneLaunch'
      BY <2>1, <2>2 DEF IInv, OneLaunch
    <3>3. Ordered' /\ Held' /\ Silenced'
      BY <1>0, <2>2, <3>1 DEF IInv, Ordered, Held, Silenced, Alive, Halt,
                              AgentsTyped
    <3> QED BY <3>2, <3>3
  <2> QED BY <2>3, <2>4
<1>4. CASE StartAgent(t)
  <2>1. UNCHANGED <<ag, agents, cut>>
    BY <1>4 DEF StartAgent, past
  <2>2. Ordered' /\ Silenced'
    BY <2>1 DEF IInv, Ordered, Silenced, agents
  <2>3. Held'
    BY <1>4, <2>1 DEF IInv, Held, Alive, agents, StartAgent
  <2>4. OneLaunch'
    BY <1>0, <1>4 DEF StartAgent, IInv, OneLaunch, TasksTyped, TaskRecs
  <2> QED BY <2>2, <2>3, <2>4
<1>5. CASE Launch(t)
  <2>1. PICK r \in Runs :
          /\ pc[r] = "none"
          /\ pc' = [pc EXCEPT ![r] = "dial"]
          /\ ag' = r
    BY <1>5 DEF Launch
  <2>2. UNCHANGED <<stopped, link, cut>> /\ (~raced' => ~raced)
    BY <1>0, <1>5 DEF Launch, PastTyped
  <2>3. ~raced => ag = None /\ \A u \in Tasks : task[u].at = "launch" => u = t
    BY <1>5 DEF IInv, OneLaunch, Launch
  <2>4. OneLaunch'
    BY <1>0, <1>5, <2>2, <2>3 DEF Launch, At, OneLaunch, TasksTyped, TaskRecs
  <2>5. Ordered' /\ Silenced'
    BY <1>0, <2>1, <2>2 DEF IInv, Ordered, Silenced, AgentsTyped
  <2>6. Held'
    BY <1>0, <2>1, <2>2, <2>3 DEF IInv, Held, Alive, AgentsTyped
  <2> QED BY <2>4, <2>5, <2>6
<1> QED BY <1>1, <1>2, <1>3, <1>4, <1>5 DEF Proceed

LEMMA AgentKeeps ==
  ASSUME IInv, NEW r \in Runs, Agent(r)
  PROVE  OneLaunch' /\ Ordered' /\ Held' /\ Silenced'
<1>0. AppTyped /\ AgentsTyped /\ TasksTyped
  BY DEF IInv, TypeOK
<1>1. CASE Ends(r)
  BY <1>0, <1>1 DEF Ends, IInv, OneLaunch, Ordered, Held, Silenced, Alive,
                    AgentsTyped, AppTyped, past
<1>2. CASE ~Ends(r)
  <2>1. UNCHANGED <<stopped, ag, task, cut, raced>>
    BY <1>2 DEF Agent, Dialled, Connected, Missing, Disconnected, Paused,
                ReRegister, ReRegistered, past
  <2>2. OneLaunch'
    BY <2>1 DEF IInv, OneLaunch
  <2>3. PICK a \in {"shake", "serve", "rereg", "again", "pause", "over",
                    "dial"} :
          /\ pc' = [pc EXCEPT ![r] = a]
          /\ pc[r] \notin {"none", "over", "done"}
          /\ a = "over" => stopped[r]
          /\ a = "dial" => ~stopped[r]
    BY <1>2 DEF Agent, Dialled, Connected, Missing, Disconnected, Paused,
                ReRegister, ReRegistered, GoesOn
  <2>4. Ordered' /\ Held'
    BY <1>0, <2>1, <2>3 DEF IInv, Ordered, Held, Alive, AgentsTyped
  <2>5. \A x \in Runs : link'[x] = "open" =>
                           link[x] = "open" \/ (x = r /\ pc[r] = "dial")
    BY <1>0, <1>2, EvictedCloses
       DEF Agent, Dialled, Connected, Missing, Disconnected, Paused,
           ReRegister, ReRegistered, AgentsTyped
  <2>6. Silenced'
    BY <1>0, <2>1, <2>3, <2>5 DEF IInv, Silenced, AgentsTyped
  <2> QED BY <2>2, <2>4, <2>6
<1> QED BY <1>1, <1>2

LEMMA SyncKeeps ==
  ASSUME IInv, NEW s \in Syncs, Sync(s)
  PROVE  OneLaunch' /\ Ordered' /\ Held' /\ Silenced'
<1>1. UNCHANGED <<pc, stopped, ag, cut, raced, task>>
  BY DEF Sync, SyncBegin, SyncEnds, SyncOne, Provisioned, agents, past
<1>2. \A r \in Runs : link'[r] = "open" => link[r] = "open"
  BY EvictedCloses DEF IInv, TypeOK, Sync, SyncBegin, SyncEnds, SyncOne,
                       Provisioned, agents
<1> QED BY <1>1, <1>2, CalmStep

LEMMA OutsideKeeps ==
  ASSUME IInv, Outside
  PROVE  OneLaunch' /\ Ordered' /\ Held' /\ Silenced'
<1>1. CASE Restart
  <2>1. OneLaunch'
    BY <1>1 DEF Restart, OneLaunch, BootTask, NoTask
  <2> QED BY <1>1, <2>1 DEF Restart, Ordered, Held, Silenced, Alive
<1>2. CASE ~Restart
  <2>1. UNCHANGED <<pc, stopped, ag, cut, raced, task>>
    BY <1>2 DEF Outside, DisconnectNow, Notice, Breaks, Forget, Ban,
                Controller, Environment, agents, past
  <2>2. \A r \in Runs : link'[r] = "open" => link[r] = "open"
    BY <1>2 DEF IInv, TypeOK, AgentsTyped, Outside, DisconnectNow, Notice,
                Breaks, Forget, Ban, Controller, agents
  <2> QED BY <2>1, <2>2, CalmStep
<1> QED BY <1>1, <1>2

LEMMA NextKeeps == ASSUME IInv, [Next]_vars PROVE IInv'
<1>1. CASE UNCHANGED vars
  BY <1>1, NextTyped, CalmStep DEF IInv, TypeOK, vars, agents, past
<1>2. CASE Next
  BY <1>2, NextTyped, CallKeeps, ProceedKeeps, AgentKeeps, SyncKeeps,
     OutsideKeeps DEF Next, IInv
<1> QED BY <1>1, <1>2

LEMMA InvariantEver == Spec => []IInv
BY InitInv, NextKeeps, PTL DEF Spec

\* An agent that is alive, told to stop or not, is the one the program holds,
\* unless two calls met in startAgent.
THEOREM HeldEver == Spec => []Held
BY InvariantEver, PTL DEF IInv

\* An agent that was stopped has no open connection and opens none, unless it
\* was dialling when it was stopped.
THEOREM SilencedEver == Spec => []Silenced
BY InvariantEver, PTL DEF IInv

-----------------------------------------------------------------------------
(* Bans: the window shows what the agent in service was told, since no     *)
(* other agent is there to be told something else.                         *)

LEMMA ShowsStill ==
  ASSUME Shows, UNCHANGED <<shown, disabled>>,
         ag' \in {ag, None},
         ~raced' => ~raced, ~inherited' => ~inherited,
         \A r \in Runs : pc'[r] = "none" => pc[r] = "none"
  PROVE  Shows'
BY DEF Shows

LEMMA ShowsKeeps == ASSUME IInv, Shows, [Next]_vars PROVE Shows'
<1>0. AppTyped /\ AgentsTyped /\ PastTyped /\ Held
  BY DEF IInv, TypeOK
<1>1. ASSUME NEW t \in Tasks, Call(t) PROVE Shows'
  <2>1. UNCHANGED <<shown, disabled, ag, raced, inherited, pc>>
    BY <1>1 DEF Call, SetName, ImportConfig, SaveAndRestart, SelfRegister,
                Revoke, Start, Stop, CreateInvite, RemoveClient, ChangesCreds, config, agents
  <2> QED BY <2>1, ShowsStill
<1>2. ASSUME NEW t \in Tasks, Proceed(t), ~Launch(t) PROVE Shows'
  <2>1. UNCHANGED <<shown, disabled, ag, inherited, pc>>
    BY <1>2 DEF Proceed, Unregister, StopAgent, StopWaited, Provision,
       Provisioned, ProvisionFails, CommitCreds, Enroll, CommitEnroll,
       ClearKey, NewKey, StartAgent, config, agents, past
  <2>2. StartAgent(t) => (~raced' => ~raced)
    BY DEF StartAgent
  <2>3. ~StartAgent(t) => UNCHANGED raced
    BY <1>2 DEF Proceed, Unregister, StopAgent, StopWaited, Provision,
       ProvisionFails, CommitCreds, Enroll, CommitEnroll, ClearKey, NewKey,
       past
  <2> QED BY <2>1, <2>2, <2>3, ShowsStill
<1>3. ASSUME NEW t \in Tasks, Launch(t) PROVE Shows'
  <2>1. PICK r \in Runs : /\ pc[r] = "none" /\ ag' = r
                          /\ pc' = [pc EXCEPT ![r] = "dial"]
    BY <1>3 DEF Launch
  <2>2. /\ UNCHANGED <<shown, disabled>>
        /\ inherited' = (inherited \/ shown)
    BY <1>3 DEF Launch, config
  <2> QED BY <1>0, <2>1, <2>2 DEF Shows, AgentsTyped, AppTyped
<1>4. ASSUME NEW r \in Runs, Agent(r) PROVE Shows'
  <2>1. /\ UNCHANGED <<shown, disabled, raced, inherited>>
        /\ ag' \in {ag, None}
    BY <1>4 DEF Agent, Dialled, Connected, Missing, Disconnected, Paused,
                ReRegister, ReRegistered, Ends, config, past
  <2>2. \A x \in Runs : pc'[x] = "none" => pc[x] = "none"
    BY <1>0, <1>4 DEF Agent, Dialled, Connected, Missing, Disconnected,
       Paused, ReRegister, ReRegistered, Ends, GoesOn, AgentsTyped
  <2> QED BY <2>1, <2>2, ShowsStill
<1>5. ASSUME NEW s \in Syncs, Sync(s) PROVE Shows'
  <2>1. UNCHANGED <<shown, disabled, ag, raced, inherited, pc>>
    BY <1>5 DEF Sync, SyncBegin, SyncEnds, SyncOne, Provisioned, config,
                agents, past
  <2> QED BY <2>1, ShowsStill
<1>6. ASSUME NEW r \in Runs, Notice(r) PROVE Shows'
  <2>1. /\ UNCHANGED <<pc, ag, raced>>
        /\ disabled' = [disabled EXCEPT ![r] = shown']
        /\ pc[r] = "serve"
    BY <1>6 DEF Notice
  <2>2. ~raced => ag = r
    BY <1>0, <2>1 DEF Held, Alive
  <2> QED BY <1>0, <2>1, <2>2 DEF Shows, AgentsTyped
<1>7. CASE Restart
  BY <1>7 DEF Restart, Shows
<1>8. ASSUME Outside, ~Restart, \A r \in Runs : ~Notice(r) PROVE Shows'
  <2>1. UNCHANGED <<shown, disabled, ag, raced, inherited, pc>>
    BY <1>8 DEF Outside, DisconnectNow, Breaks, Forget, Ban, Controller,
                Environment, config, agents, past
  <2> QED BY <2>1, ShowsStill
<1>9. CASE UNCHANGED vars
  BY <1>9, ShowsStill DEF vars, config, agents, past
<1> QED BY <1>1, <1>2, <1>3, <1>4, <1>5, <1>6, <1>7, <1>8, <1>9
        DEF Next, Outside

\* What the window shows of a ban is what the agent in service was told.
THEOREM ShownTrueEver == Spec => []ShownTrue
<1>1. Init => Shows
  BY DEF Init, Shows
<1>2. Shows => ShownTrue
  BY DEF Shows, ShownTrue
<1> QED BY <1>1, <1>2, InvariantEver, ShowsKeeps, PTL DEF Spec

-----------------------------------------------------------------------------
(* Calls that do not overlap.                                              *)

\* What At and Begins leave of the other calls.
LEMMA AtRecord ==
  ASSUME TasksTyped, NEW t \in Tasks, NEW a, At(t, a)
  PROVE  /\ task'[t].at = a /\ task'[t].op = task[t].op
         /\ task'[t].key = task[t].key /\ task'[t].cred = task[t].cred
         /\ task'[t].was = task[t].was /\ task'[t].mine = task[t].mine
         /\ \A u \in Tasks \ {t} : task'[u] = task[u]
BY DEF TasksTyped, TaskRecs, At

LEMMA BeginsRecord ==
  ASSUME TasksTyped, NEW t \in Tasks, NEW rec, Begins(t, rec)
  PROVE  /\ task'[t] = rec /\ \A u \in Tasks \ {t} : task'[u] = task[u]
         /\ task[t].at = "idle"
         /\ ~overlapped' => ~overlapped /\ \A u \in Tasks : ~AtWork(u)
BY DEF TasksTyped, Begins, AtWork

\* The calls of the window: each begins with a record of its own.
OwnRecord(t, rec) ==
    /\ Begins(t, rec)
    /\ rec.at \in {"stop", "unreg", "net", "start", "done"}
    /\ rec.op = "invite" => CreateInvite(t, rec.cred) /\ rec.key = key
    /\ rec.op = "remove" => RemoveClient(t, rec.cred) /\ rec.key = key

LEMMA CallBegins ==
  ASSUME NEW t \in Tasks, Call(t)
  PROVE  /\ \E rec : OwnRecord(t, rec)
         /\ UNCHANGED <<ag, agents, raced, gaveUp, relay, syncs>>
<1> USE DEF OwnRecord
<1>1. UNCHANGED <<ag, agents, raced, gaveUp, relay, syncs>>
  BY DEF Call, SetName, ImportConfig, SaveAndRestart, SelfRegister, Revoke,
         Start, Stop, CreateInvite, RemoveClient, ChangesCreds
<1>2. CASE SetName(t) \/ ImportConfig(t)
  <2>1. PICK saved \in BOOLEAN, op \in {"setName", "import"} :
          Begins(t, [NoTask EXCEPT
               !.op = op, !.was = saved /\ ag # None,
               !.at = IF saved /\ ag # None THEN "stop" ELSE "done"])
    BY <1>2 DEF SetName, ImportConfig, SaveAndRestart
  <2> DEFINE rec == [NoTask EXCEPT
               !.op = op, !.was = saved /\ ag # None,
               !.at = IF saved /\ ag # None THEN "stop" ELSE "done"]
  <2>2. rec.at \in {"stop", "done"} /\ rec.op = op
    BY DEF NoTask
  <2>3. Begins(t, rec)
    BY <2>1
  <2> HIDE DEF rec
  <2> QED BY <1>1, <2>2, <2>3
<1>3. CASE SelfRegister(t)
  <2> DEFINE rec == [NoTask EXCEPT !.op = "enroll", !.at = "net",
                                   !.was = ag # None]
  <2>1. rec.at = "net" /\ rec.op = "enroll"
    BY DEF NoTask
  <2>2. Begins(t, rec)
    BY <1>3 DEF SelfRegister
  <2> HIDE DEF rec
  <2> QED BY <1>1, <2>1, <2>2
<1>4. CASE Revoke(t)
  <2> DEFINE rec == [NoTask EXCEPT !.op = "revoke", !.mine = ag,
                         !.at = IF ag = None THEN "stop" ELSE "unreg"]
  <2>1. rec.at \in {"stop", "unreg"} /\ rec.op = "revoke"
    BY DEF NoTask
  <2>2. Begins(t, rec)
    BY <1>4 DEF Revoke
  <2> HIDE DEF rec
  <2> QED BY <1>1, <2>1, <2>2
<1>5. ASSUME NEW k \in Creds, NEW op \in {"invite", "remove"},
             \/ op = "invite" /\ CreateInvite(t, k)
             \/ op = "remove" /\ RemoveClient(t, k)
      PROVE  \E rec : OwnRecord(t, rec)
  <2> DEFINE rec == [op |-> op, at |-> IF ag # None THEN "stop" ELSE "net",
                     key |-> key, cred |-> k, was |-> ag # None,
                     mine |-> None]
  <2>1. /\ rec.at \in {"stop", "net"} /\ rec.op = op
        /\ rec.cred = k /\ rec.key = key
    OBVIOUS
  <2>2. Begins(t, rec)
    BY <1>5 DEF CreateInvite, RemoveClient, ChangesCreds
  <2> HIDE DEF rec
  <2> QED BY <1>5, <2>1, <2>2
<1>6. ASSUME NEW word \in {"start", "stop"},
             Begins(t, [NoTask EXCEPT !.op = word, !.at = word])
      PROVE  \E rec : OwnRecord(t, rec)
  <2> DEFINE rec == [NoTask EXCEPT !.op = word, !.at = word]
  <2>1. rec.at = word /\ rec.op = word
    BY DEF NoTask
  <2>2. Begins(t, rec)
    BY <1>6
  <2> HIDE DEF rec
  <2> QED BY <2>1, <2>2
<1>7. CASE Start(t) \/ Stop(t)
  BY <1>1, <1>6, <1>7 DEF Start, Stop
<1> HIDE DEF OwnRecord
<1> QED BY <1>1, <1>2, <1>3, <1>4, <1>5, <1>7 DEF Call

\* The steps of a call: it is at work, and only startAgent comes to launch.
LEMMA ProceedTasks ==
  ASSUME TasksTyped, NEW t \in Tasks, Proceed(t)
  PROVE  /\ AtWork(t) /\ UNCHANGED overlapped
         /\ \A u \in Tasks \ {t} : task'[u] = task[u]
         /\ task'[t].op = task[t].op /\ task'[t].was = task[t].was
         /\ task'[t].cred = task[t].cred
         /\ task'[t].at # "idle"
         /\ task'[t].at = "launch" => StartAgent(t)
<1>1. AtWork(t) /\ UNCHANGED overlapped
  BY DEF AtWork, Proceed, Unregister, StopAgent, StopWaited, Provision,
         ProvisionFails, CommitCreds, Enroll, CommitEnroll, ClearKey, NewKey,
         StartAgent, Launch, past
<1>2. CASE \/ Unregister(t) \/ Provision(t) \/ ProvisionFails(t)
           \/ CommitCreds(t) \/ CommitEnroll(t) \/ ClearKey(t)
           \/ StopWaited(t) \/ Launch(t)
  <2>1. PICK a : a \notin {"idle", "launch"} /\ At(t, a)
    BY <1>2 DEF Unregister, Provision, ProvisionFails, CommitCreds,
                CommitEnroll, ClearKey, NewKey, StopWaited, AfterStop,
                AfterFailure, Launch
  <2> QED BY <1>1, <2>1, AtRecord
<1>3. CASE Enroll(t)
  BY <1>1, <1>3 DEF Enroll, At, TasksTyped, TaskRecs
<1>4. CASE StopAgent(t)
  BY <1>1, <1>4 DEF StopAgent, At, AfterStop, TasksTyped, TaskRecs
<1>5. CASE StartAgent(t)
  BY <1>1, <1>5 DEF StartAgent, TasksTyped, TaskRecs
<1> QED BY <1>1, <1>2, <1>3, <1>4, <1>5 DEF Proceed

\* Everything else but a restart leaves the calls alone.
LEMMA Elsewhere ==
  ASSUME \/ \E r \in Runs : Agent(r)
         \/ \E s \in Syncs : Sync(s)
         \/ Outside /\ ~Restart
         \/ UNCHANGED vars
  PROVE  UNCHANGED <<task, key, overlapped, raced, gaveUp, halted, stopped,
                   ident>>
<1>1. ASSUME NEW r \in Runs, Agent(r)
      PROVE  UNCHANGED <<task, key, overlapped, raced, gaveUp, halted, stopped,
                   ident>>
  BY <1>1 DEF Agent, Dialled, Connected, Missing, Disconnected, Paused,
              ReRegister, ReRegistered, Ends, config, past
<1>2. ASSUME NEW s \in Syncs, Sync(s)
      PROVE  UNCHANGED <<task, key, overlapped, raced, gaveUp, halted, stopped,
                   ident>>
  BY <1>2 DEF Sync, SyncBegin, SyncEnds, SyncOne, Provisioned, config, agents,
              past
<1>3. ASSUME Outside, ~Restart
      PROVE  UNCHANGED <<task, key, overlapped, raced, gaveUp, halted, stopped,
                   ident>>
  BY <1>3 DEF Outside, DisconnectNow, Notice, Breaks, Forget, Ban, Controller,
              Environment, config, agents, past
<1>4. CASE UNCHANGED vars
  BY <1>4 DEF vars, config, agents, past
<1> QED BY <1>1, <1>2, <1>3, <1>4

LEMMA BlankKeeps == ASSUME IInv, Blank, [Next]_vars PROVE Blank'
<1>0. TasksTyped
  BY DEF IInv, TypeOK
<1>1. ASSUME NEW t \in Tasks, Call(t) PROVE Blank'
  <2>1. PICK rec : Begins(t, rec) /\ rec.at \notin {"idle", "launch"}
    BY <1>1, CallBegins DEF OwnRecord
  <2> QED BY <1>0, <2>1, BeginsRecord DEF Blank
<1>2. ASSUME NEW t \in Tasks, Proceed(t) PROVE Blank'
  BY <1>0, <1>2, ProceedTasks DEF Blank
<1>3. CASE Restart
  <2>1. \A t \in Tasks : task'[t].at = "idle" => task'[t].op = "none"
    BY <1>3 DEF Restart, BootTask, NoTask
  <2> QED BY <2>1 DEF Blank
<1>4. CASE \/ \E r \in Runs : Agent(r)
           \/ \E s \in Syncs : Sync(s)
           \/ Outside /\ ~Restart
           \/ UNCHANGED vars
  BY <1>4, Elsewhere DEF Blank
<1> QED BY <1>1, <1>2, <1>3, <1>4 DEF Next

LEMMA SoloKeeps == ASSUME IInv, Solo, [Next]_vars PROVE Solo'
<1>0. TasksTyped /\ PastTyped
  BY DEF IInv, TypeOK
<1>1. ASSUME NEW t \in Tasks, Call(t) PROVE Solo'
  <2>1. PICK rec : Begins(t, rec) /\ rec.at \notin {"idle", "launch"}
    BY <1>1, CallBegins DEF OwnRecord
  <2>2. UNCHANGED raced
    BY <1>1, CallBegins
  <2> QED BY <1>0, <2>1, <2>2, BeginsRecord DEF Solo, AtWork
<1>2. ASSUME NEW t \in Tasks, Proceed(t) PROVE Solo'
  <2> SUFFICES ASSUME ~overlapped'
               PROVE  /\ ~raced'
                      /\ \A x, u \in Tasks : AtWork(x)' /\ AtWork(u)' => x = u
                      /\ \A u \in Tasks :
                            task'[u].at = "launch" =>
                                key' # None /\ task'[u].key = key'
    BY DEF Solo
  <2>1. /\ ~overlapped /\ ~raced
        /\ \A u \in Tasks : AtWork(u) => u = t
        /\ task[t].at = "launch" => key # None /\ task[t].key = key
    BY <1>0, <1>2, ProceedTasks DEF Solo
  <2>2. \A u \in Tasks \ {t} : ~AtWork(u)' /\ task'[u].at # "launch"
    BY <1>0, <1>2, <2>1, ProceedTasks DEF AtWork
  <2>3. CASE StartAgent(t)
    <3>1. ~raced'
      BY <2>1, <2>3 DEF StartAgent, AtWork
    <3>2. task'[t].at = "launch" => key' # None /\ task'[t].key = key'
      BY <1>0, <2>3 DEF StartAgent, config, TasksTyped, TaskRecs
    <3> QED BY <2>2, <3>1, <3>2
  <2>4. CASE Launch(t)
    <3>1. ~raced'
      BY <2>1, <2>4 DEF Launch
    <3> QED BY <1>0, <1>2, <2>2, <2>4, <3>1, ProceedTasks, AtRecord
            DEF Launch
  <2>5. CASE ~StartAgent(t) /\ ~Launch(t)
    <3>1. UNCHANGED raced
      BY <1>2, <2>5 DEF Proceed, Unregister, StopAgent, StopWaited, Provision,
         ProvisionFails, CommitCreds, Enroll, CommitEnroll, ClearKey, NewKey,
         past
    <3> QED BY <1>0, <1>2, <2>1, <2>2, <2>5, <3>1, ProceedTasks
  <2> QED BY <2>3, <2>4, <2>5
<1>3. CASE Restart
  <2>1. UNCHANGED <<raced, overlapped>>
    BY <1>3 DEF Restart
  <2>2. \A t \in Tasks : /\ t # Boot => task'[t].at = "idle"
                         /\ task'[t].at # "launch"
    BY <1>3 DEF Restart, BootTask, NoTask
  <2> QED BY <2>1, <2>2 DEF Solo, AtWork
<1>4. CASE \/ \E r \in Runs : Agent(r)
           \/ \E s \in Syncs : Sync(s)
           \/ Outside /\ ~Restart
           \/ UNCHANGED vars
  BY <1>4, Elsewhere DEF Solo, AtWork
<1> QED BY <1>1, <1>2, <1>3, <1>4 DEF Next

-----------------------------------------------------------------------------
(* An agent at work: every call that stops one, or replaces the identity,   *)
(* comes by startAgent, and finds no agent held there.                     *)

LEMMA ServiceStill ==
  ASSUME ServiceInv, Serving => Serving', ag' \in {ag, None},
         UNCHANGED <<task, key, overlapped, gaveUp, halted>>
  PROVE  ServiceInv'
<1>1. Orderly' => Orderly
  BY DEF Orderly
<1>a. InPlace => InPlace'
  BY DEF InPlace
<1>2. \A t \in Tasks : Staged(t) => Staged(t)'
  BY <1>a DEF Staged, Unheld
<1>3. /\ \A t \in Tasks : AtWork(t)' <=> AtWork(t)
      /\ Quiet' => Quiet
  BY DEF AtWork, Quiet
<1> QED BY <1>1, <1>2, <1>3, <1>a DEF ServiceInv

\* An agent that was not told to stop goes on.
LEMMA AgentGoesOn ==
  ASSUME IInv, NEW r \in Runs, Agent(r)
  PROVE  ag' \in {ag, None} /\ (Serving => Serving')
<1>0. AgentsTyped /\ Ordered
  BY DEF IInv, TypeOK
<1>1. UNCHANGED <<key, stopped, ident>>
  BY Elsewhere
<1>2. CASE Ends(r)
  BY <1>0, <1>1, <1>2 DEF Ends, Serving, Alive, Ordered, AgentsTyped
<1>3. CASE ~Ends(r)
  <2>1. UNCHANGED ag
    BY <1>3 DEF Agent, Dialled, Connected, Missing, Disconnected, Paused,
                ReRegister, ReRegistered
  <2>2. PICK a \in {"shake", "serve", "rereg", "again", "pause", "over",
                    "dial"} : pc' = [pc EXCEPT ![r] = a]
    BY <1>3 DEF Agent, Dialled, Connected, Missing, Disconnected, Paused,
                ReRegister, ReRegistered, GoesOn
  <2>3. \A x \in Runs : Alive(x) => Alive(x)'
    BY <1>0, <2>2 DEF Alive, AgentsTyped
  <2> QED BY <1>1, <2>1, <2>3 DEF Serving
<1> QED BY <1>2, <1>3

LEMMA ServiceElsewhere ==
  ASSUME IInv, ServiceInv,
         \/ \E r \in Runs : Agent(r)
         \/ \E s \in Syncs : Sync(s)
         \/ Outside /\ ~Restart
         \/ UNCHANGED vars
  PROVE  ServiceInv'
<1>1. UNCHANGED <<task, key, overlapped, gaveUp, halted, stopped, ident>>
  BY Elsewhere
<1>2. CASE \E r \in Runs : Agent(r)
  BY <1>1, <1>2, AgentGoesOn, ServiceStill
<1>3. CASE \/ \E s \in Syncs : Sync(s)
           \/ Outside /\ ~Restart
           \/ UNCHANGED vars
  <2>1. UNCHANGED <<ag, pc>>
    <3>1. ASSUME NEW s \in Syncs, Sync(s) PROVE UNCHANGED <<ag, pc>>
      BY <3>1 DEF Sync, SyncBegin, SyncEnds, SyncOne, Provisioned, agents
    <3>2. CASE Outside /\ ~Restart
      BY <3>2 DEF Outside, DisconnectNow, Notice, Breaks, Forget, Ban,
                  Controller, Environment, agents
    <3>3. CASE UNCHANGED vars
      BY <3>3 DEF vars, agents
    <3> QED BY <1>3, <3>1, <3>2, <3>3
  <2>2. Serving => Serving'
    BY <1>1, <2>1 DEF Serving, Alive
  <2> QED BY <1>1, <2>1, <2>2, ServiceStill
<1> QED BY <1>2, <1>3

\* A call begins with nothing else at work.
LEMMA ServiceCall ==
  ASSUME IInv, Blank, Solo, ServiceInv, NEW t \in Tasks, Call(t), Orderly'
  PROVE  /\ \A u \in Tasks : AtWork(u)' => Staged(u)'
         /\ Quiet' => InPlace'
<1>0. TasksTyped /\ AppTyped /\ Held
  BY DEF IInv, TypeOK
<1>1. PICK rec : Begins(t, rec) /\ rec.at \notin {"idle", "launch"}
  BY CallBegins DEF OwnRecord
<1>2. /\ task'[t] = rec /\ \A u \in Tasks \ {t} : task'[u] = task[u]
      /\ task[t].at = "idle"
      /\ ~overlapped /\ \A u \in Tasks : ~AtWork(u)
  BY <1>0, <1>1, BeginsRecord DEF Orderly
<1>3. UNCHANGED <<ag, pc, stopped, ident, gaveUp, raced>>
  BY CallBegins DEF agents
<1>4. \A u \in Tasks \ {t} : ~AtWork(u)'
  BY <1>2 DEF AtWork
<1>5. Orderly /\ Quiet /\ ~raced
  BY <1>2, <1>3 DEF Orderly, Quiet, Blank, Solo
<1>6. InPlace /\ (Serving => ag # None)
  BY <1>0, <1>5 DEF ServiceInv, Serving, Held, AppTyped
<1>7. ASSUME UNCHANGED key PROVE Serving' <=> Serving
  BY <1>3, <1>7 DEF Serving, Alive
<1>a. ASSUME UNCHANGED <<key, halted>> PROVE InPlace'
  BY <1>3, <1>6, <1>7, <1>a DEF InPlace
<1>8. SUFFICES /\ AtWork(t)' => Staged(t)'
               /\ Quiet' => InPlace'
  BY <1>4
<1>9. CASE SetName(t) \/ ImportConfig(t)
  <2>1. PICK saved \in BOOLEAN, op \in {"setName", "import"} :
          /\ Begins(t, [NoTask EXCEPT
               !.op = op, !.was = saved /\ ag # None,
               !.at = IF saved /\ ag # None THEN "stop" ELSE "done"])
          /\ op = "setName" => UNCHANGED key
          /\ UNCHANGED halted
    BY <1>9 DEF SetName, ImportConfig, SaveAndRestart
  <2>2. /\ task'[t].op = op /\ task'[t].was = (saved /\ ag # None)
        /\ task'[t].at = IF saved /\ ag # None THEN "stop" ELSE "done"
    BY <1>0, <2>1 DEF Begins, NoTask, TasksTyped
  <2>3. task'[t].at = "done" => UNCHANGED <<key, halted>>
    BY <2>1, <2>2 DEF Orderly
  <2>4. Quiet' => task'[t].at = "done"
    BY <2>2 DEF Quiet, AtWork
  <2>5. AtWork(t)' => Staged(t)'
    BY <2>2 DEF AtWork, Staged, Unheld
  <2> QED BY <1>a, <2>3, <2>4, <2>5
<1>10. CASE SelfRegister(t)
  <2>1. /\ Begins(t, [NoTask EXCEPT !.op = "enroll", !.at = "net",
                                    !.was = ag # None])
        /\ UNCHANGED <<key, halted>>
    BY <1>10 DEF SelfRegister, config
  <2>2. /\ task'[t].op = "enroll" /\ task'[t].at = "net"
        /\ task'[t].was = (ag # None)
    BY <1>0, <2>1 DEF Begins, NoTask, TasksTyped
  <2>3. Staged(t)'
    BY <1>3, <1>a, <2>1, <2>2 DEF Staged, Unheld
  <2> QED BY <2>2, <2>3 DEF Quiet, AtWork
<1>11. CASE Revoke(t)
  <2>1. Begins(t, [NoTask EXCEPT !.op = "revoke", !.mine = ag,
                       !.at = IF ag = None THEN "stop" ELSE "unreg"])
    BY <1>11 DEF Revoke
  <2>2. task'[t].op = "revoke" /\ task'[t].at \in {"stop", "unreg"}
    BY <1>0, <2>1 DEF Begins, NoTask, TasksTyped
  <2>3. Staged(t)'
    BY <2>2 DEF Staged, Unheld
  <2> QED BY <2>2, <2>3 DEF Quiet, AtWork
<1>12. ASSUME NEW k \in Creds, NEW op \in {"invite", "remove"},
              ChangesCreds(t, op, k)
       PROVE  /\ AtWork(t)' => Staged(t)'
              /\ Quiet' => InPlace'
  <2>1. key # None /\ UNCHANGED halted
    BY <1>12 DEF ChangesCreds
  <2>2. ag # None \/ halted
    BY <1>6, <2>1 DEF InPlace
  <2>3. /\ task'[t].op = op /\ task'[t].was = (ag # None)
        /\ task'[t].at = IF ag # None THEN "stop" ELSE "net"
    BY <1>0, <1>12 DEF ChangesCreds, Begins, TasksTyped
  <2>4. Staged(t)'
    BY <1>3, <2>1, <2>2, <2>3 DEF Staged, Unheld
  <2> QED BY <2>3, <2>4 DEF Quiet, AtWork
<1>13. CASE Start(t)
  <2>1. /\ Begins(t, [NoTask EXCEPT !.op = "start", !.at = "start"])
        /\ halted' = FALSE /\ UNCHANGED key
    BY <1>13 DEF Start, config
  <2>2. task'[t].op = "start" /\ task'[t].at = "start"
    BY <1>0, <2>1 DEF Begins, NoTask, TasksTyped
  <2>3. key' # None /\ ag' # None => Serving'
    BY <1>3, <1>6, <1>7, <2>1 DEF InPlace
  <2>4. Staged(t)'
    BY <2>1, <2>2, <2>3 DEF Staged, Unheld
  <2> QED BY <2>2, <2>4 DEF Quiet, AtWork
<1>14. CASE Stop(t)
  <2>1. /\ Begins(t, [NoTask EXCEPT !.op = "stop", !.at = "stop"])
        /\ halted' = TRUE
    BY <1>14 DEF Stop
  <2>2. task'[t].op = "stop" /\ task'[t].at = "stop"
    BY <1>0, <2>1 DEF Begins, NoTask, TasksTyped
  <2>3. Staged(t)'
    BY <2>1, <2>2 DEF Staged, Unheld
  <2> QED BY <2>2, <2>3 DEF Quiet, AtWork
<1> QED BY <1>9, <1>10, <1>11, <1>12, <1>13, <1>14
        DEF Call, CreateInvite, RemoveClient

\* A call goes on: what it needs was so when it got here, and nobody else is
\* at work to undo it.
LEMMA ServiceProceed ==
  ASSUME IInv, Solo, ServiceInv, NEW t \in Tasks, Proceed(t), Orderly'
  PROVE  /\ \A u \in Tasks : AtWork(u)' => Staged(u)'
         /\ Quiet' => InPlace'
<1>0. TasksTyped /\ AppTyped /\ AgentsTyped /\ Ordered /\ PastTyped
  BY DEF IInv, TypeOK
<1>1. ~gaveUp
  BY <1>0 DEF Orderly, Proceed, Unregister, StopAgent, StopWaited, Provision,
     ProvisionFails, CommitCreds, Enroll, CommitEnroll, ClearKey, NewKey,
     StartAgent, Launch, past, PastTyped
<1>2. AtWork(t) /\ Orderly
  BY <1>0, <1>1, ProceedTasks DEF Orderly
<1>3. /\ \A u \in Tasks \ {t} : ~AtWork(u)'
      /\ task[t].at = "launch" => key # None /\ task[t].key = key
  BY <1>0, <1>2, ProceedTasks DEF Orderly, Solo, AtWork
<1>4. Staged(t)
  BY <1>2 DEF ServiceInv
<1>5. SUFFICES /\ AtWork(t)' => Staged(t)'
               /\ Quiet' => InPlace'
  BY <1>3
<1>6. task'[t].op = task[t].op /\ task'[t].was = task[t].was
  BY <1>0, ProceedTasks
<1> USE DEF Staged, Unheld
<1>7. ASSUME ~Quiet', Staged(t)'
      PROVE  /\ AtWork(t)' => Staged(t)'
             /\ Quiet' => InPlace'
  BY <1>7
<1>8. ASSUME task'[t].at # "done" PROVE ~Quiet'
  BY <1>0, <1>8, ProceedTasks DEF Quiet, AtWork
<1>a. UNCHANGED halted \/ task[t].at = "launch"
  BY DEF Proceed, Unregister, StopAgent, StopWaited, Provision,
     ProvisionFails, CommitCreds, Enroll, CommitEnroll, ClearKey, NewKey,
     StartAgent, Launch, past
<1>b. ASSUME halted', ag' = None, task'[t].at = "done"
      PROVE  /\ AtWork(t)' => Staged(t)'
             /\ Quiet' => InPlace'
  BY <1>b DEF InPlace, AtWork
<1>9. CASE Unregister(t)
  <2>1. task[t].at = "unreg" /\ task'[t].at = "stop"
    BY <1>0, <1>9, AtRecord DEF Unregister
  <2> QED BY <1>4, <1>6, <1>7, <1>8, <1>a, <2>1
<1>10. CASE StopAgent(t)
  <2>1. UNCHANGED <<ag, halted>> /\ task[t].at = "stop"
    BY <1>10, <1>a DEF StopAgent
  <2>2. CASE ag = None
    <3>1. task'[t].at = AfterStop(t)
      BY <1>0, <1>10, <2>2, AtRecord DEF StopAgent
    <3>2. CASE task[t].op = "stop"
      BY <1>4, <1>b, <2>1, <2>2, <3>1, <3>2 DEF AfterStop
    <3>3. CASE task[t].op # "stop"
      BY <1>4, <1>6, <1>7, <1>8, <2>1, <2>2, <3>1, <3>3 DEF AfterStop
    <3> QED BY <3>2, <3>3
  <2>3. CASE ag # None
    <3>1. task'[t].at = "wait" /\ task'[t].mine = ag
      BY <1>0, <1>10, <2>3 DEF StopAgent, TasksTyped, TaskRecs
    <3> QED BY <1>2, <1>4, <1>6, <1>7, <1>8, <2>1, <3>1
  <2> QED BY <2>2, <2>3
<1>11. CASE StopWaited(t)
  <2>1. /\ UNCHANGED <<ag, halted>> /\ task[t].at = "wait"
        /\ task'[t].at = AfterStop(t)
    BY <1>0, <1>11, <1>a, AtRecord DEF StopWaited
  <2>2. pc[task[t].mine] = "done" /\ ag \in {task[t].mine, None}
    BY <1>2, <1>4, <1>11 DEF StopWaited, Orderly
  <2>3. ag = None
    BY <1>0, <2>2 DEF Ordered
  <2>4. CASE task[t].op = "stop"
    BY <1>4, <1>b, <2>1, <2>3, <2>4 DEF AfterStop
  <2>5. CASE task[t].op # "stop"
    BY <1>4, <1>6, <1>7, <1>8, <2>1, <2>3, <2>5 DEF AfterStop
  <2> QED BY <2>4, <2>5
<1>12. CASE Provision(t) \/ ProvisionFails(t)
  <2>1. /\ task[t].at = "net" /\ task[t].op \in {"invite", "remove"}
        /\ UNCHANGED <<ag, halted>>
        /\ \/ At(t, "commit") \/ At(t, AfterFailure(t))
    BY <1>12, <1>a DEF Provision, ProvisionFails
  <2>2. ag = None /\ (task[t].was \/ halted)
    BY <1>4, <2>1
  <2>3. \/ task'[t].at \in {"commit", "start"}
        \/ task'[t].at = "done" /\ ~task[t].was
    BY <1>0, <2>1, <2>2, AtRecord DEF AfterFailure
  <2>4. CASE task'[t].at = "done"
    BY <1>b, <2>1, <2>2, <2>3, <2>4
  <2>5. CASE task'[t].at # "done"
    BY <1>6, <1>7, <1>8, <2>1, <2>2, <2>3, <2>5
  <2> QED BY <2>4, <2>5
<1>13. CASE CommitCreds(t)
  <2>1. /\ task[t].at = "commit" /\ task[t].op \in {"invite", "remove"}
        /\ UNCHANGED <<ag, halted>> /\ task'[t].at = "start"
    BY <1>0, <1>13, <1>a, AtRecord DEF CommitCreds
  <2> QED BY <1>4, <1>6, <1>7, <1>8, <2>1
<1>14. CASE Enroll(t)
  <2>1. /\ task[t].at = "net" /\ task[t].op = "enroll"
        /\ UNCHANGED <<ag, key, pc, stopped, ident, halted>>
        /\ task'[t].at \in {"commit", "done"}
    BY <1>0, <1>14, <1>a, AtRecord DEF Enroll, config, agents, TasksTyped, TaskRecs
  <2>2. InPlace'
    BY <1>4, <2>1 DEF InPlace, Serving, Alive
  <2>3. Staged(t)'
    BY <1>4, <1>6, <2>1
  <2> QED BY <2>1, <2>2, <2>3
<1>15. CASE CommitEnroll(t)
  <2>1. /\ task[t].at = "commit" /\ task[t].op = "enroll" /\ UNCHANGED ag
        /\ task'[t].at = IF task[t].was THEN "stop" ELSE "start"
        /\ UNCHANGED halted
    BY <1>0, <1>15, <1>a, AtRecord DEF CommitEnroll, NewKey
  <2> QED BY <1>4, <1>6, <1>7, <1>8, <2>1
<1>16. CASE ClearKey(t)
  <2>1. /\ key' = None /\ UNCHANGED ag
        /\ task[t].at = "clear" /\ task'[t].at = "done"
    BY <1>0, <1>16, AtRecord DEF ClearKey, NewKey
  <2> QED BY <1>4, <2>1 DEF AtWork, InPlace
<1>17. CASE StartAgent(t)
  <2>1. /\ task[t].at = "start"
        /\ UNCHANGED <<ag, key, halted, pc, stopped, ident>>
        /\ task'[t].at = IF ag = None /\ key # None THEN "launch" ELSE "done"
    BY <1>0, <1>17, <1>a DEF StartAgent, config, agents, TasksTyped
  <2>2. CASE ag = None /\ key # None
    BY <1>4, <1>6, <1>7, <1>8, <2>1, <2>2
  <2>3. CASE ag # None /\ key # None
    <3>1. Serving' /\ ~halted
      BY <1>4, <2>1, <2>3 DEF Serving, Alive
    <3> QED BY <2>1, <2>3, <3>1 DEF AtWork, InPlace
  <2>4. CASE key = None
    <3>1. halted => ag = None
      BY <1>4, <2>1
    <3> QED BY <2>1, <2>4, <3>1 DEF AtWork, InPlace
  <2> QED BY <2>2, <2>3, <2>4
<1>18. CASE Launch(t)
  <2>1. task[t].at = "launch" /\ halted' = FALSE /\ UNCHANGED <<key, stopped>>
    BY <1>18 DEF Launch, config
  <2>2. PICK r \in Runs : /\ pc[r] = "none"
                          /\ pc' = [pc EXCEPT ![r] = "dial"]
                          /\ ident' = [ident EXCEPT ![r] = task[t].key]
    BY <1>18 DEF Launch
  <2>3. Serving'
    BY <1>0, <1>3, <2>1, <2>2 DEF Serving, Alive, Ordered, AgentsTyped
  <2>4. task'[t].at = "done"
    BY <1>0, <1>18, AtRecord DEF Launch
  <2> QED BY <2>1, <2>3, <2>4 DEF AtWork, InPlace
<1> QED BY <1>9, <1>10, <1>11, <1>12, <1>13, <1>14, <1>15, <1>16, <1>17, <1>18
        DEF Proceed

LEMMA ServiceRestart ==
  ASSUME Restart PROVE ServiceInv'
<1>1. /\ \A t \in Tasks : t # Boot => task'[t].at = "idle"
      /\ task'[Boot].at = IF key' = None THEN "net" ELSE "start"
      /\ task'[Boot].op = IF key' = None THEN "enroll" ELSE "boot"
      /\ task'[Boot].was = FALSE
      /\ ag' = None /\ halted' = FALSE
  BY DEF Restart, BootTask, NoTask
<1>2. Staged(Boot)'
  BY <1>1 DEF Staged, Unheld, InPlace
<1> QED BY <1>1, <1>2 DEF ServiceInv, AtWork, Quiet

LEMMA ServiceKeeps ==
  ASSUME IInv, Blank, Solo, ServiceInv, [Next]_vars PROVE ServiceInv'
BY ServiceElsewhere, ServiceCall, ServiceProceed, ServiceRestart
DEF Next, ServiceInv

\* With nothing at work a paired machine has an agent at work under its
\* present identity, or none that is alive when the user has stopped it and
\* no call has started an agent since; unless calls overlapped, a stop was
\* given up, or an imported identity could not be saved or found no agent.
THEOREM InServiceEver == Spec => []InService
<1>1. ASSUME Init PROVE Blank /\ Solo /\ ServiceInv
  <2>1. /\ \A t \in Tasks : t # Boot => /\ task[t].at = "idle"
                                        /\ task[t].op = "none"
        /\ task[Boot].at = IF key = None THEN "net" ELSE "start"
        /\ task[Boot].op = IF key = None THEN "enroll" ELSE "boot"
        /\ task[Boot].was = FALSE
        /\ ag = None /\ ~raced /\ ~halted
    BY <1>1 DEF Init, BootTask, NoTask
  <2>2. Staged(Boot)
    BY <2>1 DEF Staged, Unheld, InPlace
  <2>3. Blank /\ Solo
    BY <2>1 DEF Blank, Solo, AtWork
  <2> QED BY <2>1, <2>2, <2>3 DEF ServiceInv, AtWork, Quiet
<1>2. IInv /\ Solo /\ ServiceInv => InService
  <2> SUFFICES ASSUME IInv, Solo, ServiceInv, Orderly, Quiet
               PROVE  IF halted THEN \A r \in Runs : ~Alive(r)
                                ELSE key # None => Serving
    BY DEF InService, Orderly, Serving
  <2>1. InPlace
    BY DEF ServiceInv
  <2>2. CASE halted
    <3>1. ag = None /\ ~raced
      BY <2>1, <2>2 DEF InPlace, Solo, Orderly
    <3> QED BY <2>2, <3>1, DesktopConstants DEF IInv, Held
  <2>3. CASE ~halted
    BY <2>1, <2>3 DEF InPlace
  <2> QED BY <2>2, <2>3
<1> QED BY <1>1, <1>2, InvariantEver, BlankKeeps, SoloKeeps, ServiceKeeps, PTL
        DEF Spec

-----------------------------------------------------------------------------
(* Credentials.                                                            *)

\* What the relay's provisioning does to the files of a device.
LEMMA ProvisionedFiles ==
  ASSUME RelayTyped, NEW i, NEW k, NEW add \in BOOLEAN, Provisioned(i, k, add)
  PROVE  /\ i \in known /\ UNCHANGED known
         /\ filed'[i] = IF add THEN filed[i] \cup {k} ELSE filed[i] \ {k}
         /\ \A j \in Ids \ {i} : filed'[j] = filed[j]
BY DEF Provisioned, RelayTyped

\* What saving does to the identity on disk, and who changes the one in use.
LEMMA SavedKey ==
  ASSUME NEW saved \in BOOLEAN, Save(saved)
  PROVE  disk'.key \in {disk.key, key'} /\ agentJson' = agentJson
BY DEF Save

LEMMA NewKeys ==
  ASSUME TypeOK, Named, [Next]_vars
  PROVE  /\ key' \in born \cup {None}
         /\ disk'.key \in {disk.key, key'} /\ agentJson' = agentJson
         /\ born \subseteq born'
<1> USE DEF files, config, past
<1>0. key \in born \cup {None} /\ disk.key \in born \cup {None}
      /\ agentJson \in born \cup {None}
  BY DEF Named, KeysBorn
<1>1. ASSUME NEW t \in Tasks, Call(t)
      PROVE  /\ key' \in born \cup {None} /\ born' = born
             /\ disk'.key \in {disk.key, key'} /\ agentJson' = agentJson
  <2>1. CASE SetName(t) \/ ImportConfig(t)
    BY <1>0, <2>1, SavedKey DEF SetName, ImportConfig, SaveAndRestart
  <2>2. CASE SelfRegister(t) \/ Revoke(t) \/ Start(t) \/ Stop(t)
    BY <1>0, <2>2 DEF SelfRegister, Revoke, Start, Stop
  <2>3. ASSUME NEW k \in Creds, CreateInvite(t, k) \/ RemoveClient(t, k)
        PROVE  UNCHANGED <<key, born, disk, agentJson>>
    BY <2>3 DEF CreateInvite, RemoveClient, ChangesCreds
  <2> QED BY <1>0, <1>1, <2>1, <2>2, <2>3 DEF Call
<1>2. ASSUME NEW t \in Tasks, Proceed(t)
      PROVE  /\ key' \in born \cup {None} /\ born \subseteq born'
             /\ disk'.key \in {disk.key, key'} /\ agentJson' = agentJson
  <2>1. CASE CommitCreds(t)
    BY <1>0, <2>1, SavedKey DEF CommitCreds
  <2>2. CASE CommitEnroll(t) \/ ClearKey(t)
    <3>1. key' \in born \cup {None}
      BY <2>2 DEF CommitEnroll, ClearKey, NewKey, Named, TasksBorn
    <3> QED BY <2>2, <3>1, SavedKey DEF CommitEnroll, ClearKey, NewKey
  <2>3. CASE \/ Unregister(t) \/ StopAgent(t) \/ StopWaited(t)
             \/ Provision(t) \/ ProvisionFails(t) \/ Enroll(t)
             \/ StartAgent(t) \/ Launch(t)
    <3>1. UNCHANGED <<key, disk, agentJson>>
      BY <2>3 DEF Unregister, StopAgent, StopWaited, Provision,
                  ProvisionFails, Enroll, StartAgent, Launch
    <3>2. born \subseteq born'
      BY <2>3 DEF Unregister, StopAgent, StopWaited, Provision,
                  ProvisionFails, Enroll, StartAgent, Launch
    <3> QED BY <1>0, <3>1, <3>2
  <2> QED BY <1>2, <2>1, <2>2, <2>3 DEF Proceed
<1>3. ASSUME NEW r \in Runs, Agent(r) PROVE UNCHANGED <<key, disk, agentJson, born>>
  BY <1>3 DEF Agent, Dialled, Connected, Missing, Disconnected, Paused,
              ReRegister, ReRegistered, Ends
<1>4. ASSUME NEW s \in Syncs, Sync(s) PROVE UNCHANGED <<key, disk, agentJson, born>>
  BY <1>4 DEF Sync, SyncBegin, SyncEnds, SyncOne
<1>5. ASSUME NEW r \in Runs, Notice(r)
      PROVE  /\ UNCHANGED <<key, born>>
             /\ disk'.key \in {disk.key, key'} /\ agentJson' = agentJson
  BY <1>5, SavedKey DEF Notice
<1>6. CASE Restart
  BY <1>0, <1>6 DEF Restart
<1>7. ASSUME Outside, ~Restart, \A r \in Runs : ~Notice(r)
      PROVE  UNCHANGED <<key, disk, agentJson, born>>
  BY <1>7 DEF Outside, DisconnectNow, Breaks, Forget, Ban, Controller,
              Environment
<1>8. CASE UNCHANGED vars
  BY <1>0, <1>8 DEF vars
<1> QED BY <1>0, <1>1, <1>2, <1>3, <1>4, <1>5, <1>6, <1>7, <1>8
        DEF Next, Outside

LEMMA KeysBornKeeps ==
  ASSUME TypeOK, Named, [Next]_vars PROVE KeysBorn'
BY NewKeys DEF Named, KeysBorn

LEMMA TasksBornKeeps ==
  ASSUME TypeOK, Named, [Next]_vars PROVE TasksBorn'
<1>0. TasksTyped /\ KeysBorn /\ TasksBorn /\ born \subseteq born'
  BY NewKeys DEF TypeOK, Named
<1>1. ASSUME NEW t \in Tasks, Call(t) PROVE TasksBorn'
  <2>1. PICK rec : OwnRecord(t, rec)
    BY <1>1, CallBegins
  <2>2. /\ task'[t] = rec
        /\ \A u \in Tasks \ {t} : task'[u] = task[u]
    BY <1>0, <2>1, BeginsRecord DEF OwnRecord
  <2>3. rec.op \in {"invite", "remove"} => rec.key = key /\ key # None
    BY <2>1 DEF OwnRecord, CreateInvite, RemoveClient, ChangesCreds
  <2>4. rec.at # "commit"
    BY <2>1 DEF OwnRecord
  <2> QED BY <1>0, <2>2, <2>3, <2>4 DEF TasksBorn, KeysBorn
<1>2. ASSUME NEW t \in Tasks, Proceed(t) PROVE TasksBorn'
  <2>1. /\ \A u \in Tasks \ {t} : task'[u] = task[u]
        /\ task'[t].op = task[t].op
    BY <1>0, <1>2, ProceedTasks
  <2>2. ASSUME \/ task'[t].at = "commit"
               \/ /\ task'[t].at \in {"unreg", "stop", "wait", "net"}
                  /\ task'[t].op \in {"invite", "remove"}
        PROVE  task'[t].key \in born'
    <3>1. CASE Unregister(t) \/ StopWaited(t)
      <4>1. /\ task[t].at \in {"unreg", "wait"}
            /\ \E a \in {"stop", AfterStop(t)} : At(t, a)
            /\ AfterStop(t) # "commit"
        BY <3>1 DEF Unregister, StopWaited, AfterStop
      <4>2. task'[t].key = task[t].key
        BY <1>0, <4>1, AtRecord
      <4>3. task'[t].at # "commit"
        BY <1>0, <4>1, AtRecord
      <4> QED BY <1>0, <2>1, <2>2, <4>1, <4>2, <4>3 DEF TasksBorn
    <3>2. CASE StopAgent(t)
      BY <1>0, <2>1, <2>2, <3>2
      DEF StopAgent, AfterStop, At, TasksBorn, TasksTyped, TaskRecs
    <3>3. CASE Provision(t) \/ ProvisionFails(t) \/ CommitCreds(t)
      <4>1. /\ task[t].at = "commit" \/ (/\ task[t].at = "net"
                                         /\ task[t].op \in {"invite", "remove"})
            /\ \E a \in {"commit", AfterFailure(t), "start"} : At(t, a)
        BY <3>3 DEF Provision, ProvisionFails, CommitCreds
      <4>2. task'[t].key = task[t].key
        BY <1>0, <4>1, AtRecord
      <4> QED BY <1>0, <4>1, <4>2 DEF TasksBorn
    <3>4. CASE Enroll(t)
      BY <1>0, <2>1, <2>2, <3>4
      DEF Enroll, At, TasksBorn, TasksTyped, TaskRecs
    <3>5. CASE CommitEnroll(t) \/ ClearKey(t) \/ Launch(t)
      BY <1>0, <2>1, <2>2, <3>5, AtRecord
      DEF CommitEnroll, ClearKey, NewKey, Launch, TasksBorn
    <3>6. CASE StartAgent(t)
      BY <1>0, <2>1, <2>2, <3>6 DEF StartAgent, TasksTyped, TaskRecs
    <3> QED BY <1>2, <3>1, <3>2, <3>3, <3>4, <3>5, <3>6 DEF Proceed
  <2> QED BY <1>0, <2>1, <2>2 DEF TasksBorn
<1>3. CASE Restart
  <2>1. \A t \in Tasks : /\ task'[t].at \in {"idle", "net", "start"}
                         /\ task'[t].op \in {"none", "enroll", "boot"}
    BY <1>3 DEF Restart, BootTask, NoTask
  <2> QED BY <2>1 DEF TasksBorn
<1>4. CASE \/ \E r \in Runs : Agent(r)
           \/ \E s \in Syncs : Sync(s)
           \/ Outside /\ ~Restart
           \/ UNCHANGED vars
  BY <1>0, <1>4, Elsewhere DEF TasksBorn
<1> QED BY <1>1, <1>2, <1>3, <1>4 DEF Next

\* Who changes what the relay has of devices and their credentials: a device
\* is deleted or registered, or a credential is provisioned.
LEMMA FiledChanges ==
  ASSUME [Next]_vars
  PROVE  \/ UNCHANGED <<known, filed>>
         \/ \E i : /\ known' = known \ {i}
                   /\ filed' = [filed EXCEPT ![i] = {}]
         \/ UNCHANGED filed /\ \E t \in Tasks : Enroll(t)
         \/ /\ UNCHANGED filed /\ \E r \in Runs : ReRegister(r)
            /\ known' = known \cup {key} /\ key # None
         \/ UNCHANGED known /\ \E t \in Tasks : Provision(t)
         \/ UNCHANGED known /\ \E s \in Syncs, k \in Creds : SyncOne(s, k)
<1>1. ASSUME NEW t \in Tasks, Call(t) PROVE UNCHANGED <<known, filed>>
  BY <1>1, CallBegins DEF relay
<1>2. ASSUME NEW t \in Tasks, Proceed(t),
             ~Unregister(t), ~Provision(t), ~Enroll(t)
      PROVE  UNCHANGED <<known, filed>>
  BY <1>2 DEF Proceed, StopAgent, StopWaited, ProvisionFails, CommitCreds,
              CommitEnroll, ClearKey, NewKey, StartAgent, Launch, relay
<1>3. ASSUME NEW t \in Tasks, Unregister(t)
      PROVE  \/ UNCHANGED <<known, filed>>
             \/ \E i : /\ known' = known \ {i}
                       /\ filed' = [filed EXCEPT ![i] = {}]
  BY <1>3 DEF Unregister
<1>4. ASSUME NEW t \in Tasks, Provision(t) PROVE UNCHANGED known
  BY <1>4 DEF Provision, Provisioned
<1>5. ASSUME NEW t \in Tasks, Enroll(t) PROVE UNCHANGED filed
  BY <1>5 DEF Enroll
<1>6. ASSUME NEW r \in Runs, Agent(r)
      PROVE  /\ UNCHANGED filed
             /\ \/ UNCHANGED known
                \/ known' = known \cup {key} /\ key # None /\ ReRegister(r)
  BY <1>6 DEF Agent, Dialled, Connected, Missing, Disconnected, Paused,
              ReRegister, ReRegistered, Ends, relay
<1>7. ASSUME NEW s \in Syncs, Sync(s)
      PROVE  \/ UNCHANGED <<known, filed>>
             \/ UNCHANGED known /\ \E k \in Creds : SyncOne(s, k)
  BY <1>7 DEF Sync, SyncBegin, SyncEnds, SyncOne, Provisioned, relay
<1>8. ASSUME Outside
      PROVE  \/ UNCHANGED <<known, filed>>
             \/ \E i : /\ known' = known \ {i}
                       /\ filed' = [filed EXCEPT ![i] = {}]
  BY <1>8 DEF Outside, DisconnectNow, Notice, Breaks, Forget, Ban, Controller,
              Restart, relay
<1>9. CASE UNCHANGED vars
  BY <1>9 DEF vars, relay
<1> QED BY <1>1, <1>2, <1>3, <1>4, <1>5, <1>6, <1>7, <1>8, <1>9
        DEF Next, Proceed

\* Who changes the program's credentials and their synchronisation.
LEMMA CredsChanges ==
  ASSUME [Next]_vars
  PROVE  \/ UNCHANGED <<creds, synced, sync>>
         \/ UNCHANGED sync /\ \E t \in Tasks : CommitCreds(t)
         \/ UNCHANGED <<creds, sync>> /\ ~synced'
         \/ UNCHANGED creds /\ \E s \in Syncs : Sync(s)
         \/ Restart
<1> USE DEF config, syncs
<1>1. ASSUME NEW t \in Tasks, Call(t) PROVE UNCHANGED <<creds, synced, sync>>
  <2>1. UNCHANGED syncs
    BY <1>1, CallBegins
  <2>2. UNCHANGED creds
    BY <1>1 DEF Call, SetName, ImportConfig, SaveAndRestart, SelfRegister,
                Revoke, Start, Stop, CreateInvite, RemoveClient, ChangesCreds
  <2> QED BY <2>1, <2>2
<1>2. ASSUME NEW t \in Tasks, Proceed(t), ~CommitCreds(t)
      PROVE  UNCHANGED <<creds, synced, sync>>
  BY <1>2 DEF Proceed, Unregister, StopAgent, StopWaited, Provision,
              ProvisionFails, Enroll, CommitEnroll, ClearKey, NewKey,
              StartAgent, Launch
<1>3. ASSUME NEW t \in Tasks, CommitCreds(t) PROVE UNCHANGED sync
  BY <1>3 DEF CommitCreds
<1>4. ASSUME NEW r \in Runs, Agent(r)
      PROVE  UNCHANGED <<creds, sync>> /\ (UNCHANGED synced \/ ~synced')
  BY <1>4 DEF Agent, Dialled, Connected, Missing, Disconnected, Paused,
              ReRegister, ReRegistered, Ends
<1>5. ASSUME NEW s \in Syncs, Sync(s) PROVE UNCHANGED creds
  BY <1>5 DEF Sync, SyncBegin, SyncEnds, SyncOne
<1>6. ASSUME Outside, ~Restart PROVE UNCHANGED <<creds, synced, sync>>
  BY <1>6 DEF Outside, DisconnectNow, Notice, Breaks, Forget, Ban, Controller,
              Environment
<1>7. CASE UNCHANGED vars
  BY <1>7 DEF vars
<1> QED BY <1>1, <1>2, <1>3, <1>4, <1>5, <1>6, <1>7 DEF Next

LEMMA SyncsBornKeeps ==
  ASSUME TypeOK, Named, [Next]_vars PROVE SyncsBorn'
<1>0. SyncsTyped /\ KeysBorn /\ SyncsBorn /\ born \subseteq born'
  BY NewKeys DEF TypeOK, Named
<1>1. ASSUME NEW s \in Syncs, Sync(s) PROVE SyncsBorn'
  <2>1. CASE SyncBegin(s)
    BY <1>0, <2>1 DEF SyncBegin, SyncsBorn, SyncsTyped, KeysBorn
  <2>2. CASE SyncEnds(s)
    BY <1>0, <2>2 DEF SyncEnds, SyncsBorn, SyncsTyped, NoSync
  <2>3. ASSUME NEW k \in Creds, SyncOne(s, k) PROVE SyncsBorn'
    <3>1. \/ sync' = [sync EXCEPT ![s].todo = @ \ {k}]
          \/ sync' = [sync EXCEPT ![s] = NoSync]
      BY <2>3 DEF SyncOne
    <3> QED BY <1>0, <3>1 DEF SyncsBorn, SyncsTyped, SyncRecs, NoSync
  <2> QED BY <1>1, <2>1, <2>2, <2>3 DEF Sync
<1>2. CASE Restart
  BY <1>2 DEF Restart, SyncsBorn, NoSync
<1>3. CASE UNCHANGED sync
  BY <1>0, <1>3 DEF SyncsBorn
<1> QED BY <1>1, <1>2, <1>3, CredsChanges

LEMMA FiledKnownKeeps ==
  ASSUME TypeOK, Named, [Next]_vars PROVE FiledKnown'
<1>0. RelayTyped /\ KeysBorn /\ FiledKnown /\ born \subseteq born'
  BY NewKeys DEF TypeOK, Named
<1>1. CASE UNCHANGED <<known, filed>>
  BY <1>0, <1>1 DEF FiledKnown
<1>2. ASSUME NEW i, known' = known \ {i}, filed' = [filed EXCEPT ![i] = {}]
      PROVE  FiledKnown'
  BY <1>0, <1>2 DEF FiledKnown, RelayTyped
<1>3. ASSUME NEW t \in Tasks, Enroll(t), UNCHANGED filed PROVE FiledKnown'
  BY <1>0, <1>3 DEF Enroll, FiledKnown
<1>4. CASE UNCHANGED filed /\ known' = known \cup {key} /\ key # None
  BY <1>0, <1>4 DEF FiledKnown, KeysBorn
<1>5. ASSUME NEW i, NEW k, NEW add \in BOOLEAN, Provisioned(i, k, add)
      PROVE  FiledKnown'
  BY <1>0, <1>5, ProvisionedFiles DEF FiledKnown
<1>6. ASSUME NEW t \in Tasks, Provision(t) PROVE FiledKnown'
  BY <1>5, <1>6 DEF Provision
<1>7. ASSUME NEW s \in Syncs, NEW k \in Creds, SyncOne(s, k)
      PROVE  FiledKnown'
  <2>1. Provisioned(sync[s].key, k, TRUE) \/ UNCHANGED <<known, filed>>
    BY <1>7 DEF SyncOne, relay
  <2> QED BY <1>1, <1>5, <2>1
<1> QED BY <1>1, <1>2, <1>3, <1>4, <1>6, <1>7, FiledChanges

LEMMA NamedKeeps == ASSUME TypeOK, Named, [Next]_vars PROVE Named'
BY KeysBornKeeps, TasksBornKeeps, SyncsBornKeeps, FiledKnownKeeps DEF Named

\* The history of credentials only grows.
LEMMA HistoryGrows ==
  ASSUME [Next]_vars
  PROVE  lost \subseteq lost' /\ misread \subseteq misread'
<1>1. ASSUME NEW t \in Tasks, Call(t)
      PROVE  lost \subseteq lost' /\ misread \subseteq misread'
  BY <1>1 DEF Call, SetName, ImportConfig, SaveAndRestart, SelfRegister,
              Revoke, Start, Stop, CreateInvite, RemoveClient, ChangesCreds
<1>2. ASSUME NEW t \in Tasks, Proceed(t)
      PROVE  lost \subseteq lost' /\ misread \subseteq misread'
  BY <1>2 DEF Proceed, Unregister, StopAgent, StopWaited, Provision,
              ProvisionFails, CommitCreds, Enroll, CommitEnroll, ClearKey,
              NewKey, StartAgent, Launch, past
<1>3. ASSUME NEW r \in Runs, Agent(r) PROVE UNCHANGED <<lost, misread>>
  BY <1>3 DEF Agent, Dialled, Connected, Missing, Disconnected, Paused,
              ReRegister, ReRegistered, Ends, past
<1>4. ASSUME NEW s \in Syncs, Sync(s)
      PROVE  lost \subseteq lost' /\ misread \subseteq misread'
  BY <1>4 DEF Sync, SyncBegin, SyncEnds, SyncOne, past
<1>5. ASSUME Outside
      PROVE  lost \subseteq lost' /\ misread \subseteq misread'
  BY <1>5 DEF Outside, DisconnectNow, Notice, Breaks, Forget, Ban, Controller,
              Environment, Restart, past
<1>6. CASE UNCHANGED vars
  BY <1>6 DEF vars, past
<1> QED BY <1>1, <1>2, <1>3, <1>4, <1>5, <1>6 DEF Next

\* What is listed, in memory and on disk, and what has been issued.
LEMMA ListedChanges ==
  ASSUME TypeOK, [Next]_vars
  PROVE  \/ /\ creds' \cup disk'.creds \subseteq creds \cup disk.creds
            /\ \/ UNCHANGED issued
               \/ \E t \in Tasks, k \in Creds : CreateInvite(t, k)
         \/ /\ UNCHANGED issued
            /\ \E t \in Tasks :
                  /\ CommitCreds(t)
                  /\ creds' \cup disk'.creds \subseteq
                       creds \cup disk.creds \cup
                       {k \in {task[t].cred} : task[t].op = "invite"}
<1> USE DEF config, files, past
<1>0. FilesTyped
  BY DEF TypeOK
<1>1. ASSUME NEW saved \in BOOLEAN, Save(saved)
      PROVE  disk'.creds \subseteq disk.creds \cup creds'
  BY <1>1 DEF Save
<1>2. ASSUME NEW t \in Tasks, Call(t)
      PROVE  /\ creds' \cup disk'.creds \subseteq creds \cup disk.creds
             /\ \/ UNCHANGED issued
                \/ \E k \in Creds : CreateInvite(t, k)
  <2>1. CASE SetName(t) \/ ImportConfig(t)
    BY <1>1, <2>1 DEF SetName, ImportConfig, SaveAndRestart
  <2>2. CASE SelfRegister(t) \/ Revoke(t) \/ Start(t) \/ Stop(t)
    BY <2>2 DEF SelfRegister, Revoke, Start, Stop
  <2>3. ASSUME NEW k \in Creds, CreateInvite(t, k) \/ RemoveClient(t, k)
        PROVE  /\ UNCHANGED <<creds, disk>>
               /\ UNCHANGED issued \/ CreateInvite(t, k)
    BY <2>3 DEF CreateInvite, RemoveClient, ChangesCreds
  <2> QED BY <1>2, <2>1, <2>2, <2>3 DEF Call
<1>3. ASSUME NEW t \in Tasks, CommitEnroll(t) \/ ClearKey(t)
      PROVE  /\ creds' \cup disk'.creds \subseteq creds \cup disk.creds
             /\ UNCHANGED issued
  BY <1>1, <1>3 DEF CommitEnroll, ClearKey, NewKey
<1>4. ASSUME NEW t \in Tasks, CommitCreds(t)
      PROVE  /\ UNCHANGED issued
             /\ creds' \cup disk'.creds \subseteq
                  creds \cup disk.creds \cup
                  {k \in {task[t].cred} : task[t].op = "invite"}
  BY <1>1, <1>4 DEF CommitCreds
<1>5. ASSUME NEW t \in Tasks, Proceed(t),
             ~CommitEnroll(t), ~ClearKey(t), ~CommitCreds(t)
      PROVE  UNCHANGED <<creds, disk, issued>>
  BY <1>5 DEF Proceed, Unregister, StopAgent, StopWaited, Provision,
              ProvisionFails, Enroll, StartAgent, Launch
<1>6. ASSUME NEW r \in Runs, Agent(r) PROVE UNCHANGED <<creds, disk, issued>>
  BY <1>6 DEF Agent, Dialled, Connected, Missing, Disconnected, Paused,
              ReRegister, ReRegistered, Ends
<1>7. ASSUME NEW s \in Syncs, Sync(s) PROVE UNCHANGED <<creds, disk, issued>>
  BY <1>7 DEF Sync, SyncBegin, SyncEnds, SyncOne
<1>8. ASSUME NEW r \in Runs, Notice(r)
      PROVE  /\ creds' \cup disk'.creds \subseteq creds \cup disk.creds
             /\ UNCHANGED issued
  BY <1>1, <1>8 DEF Notice
<1>9. CASE Restart
  BY <1>9 DEF Restart
<1>10. ASSUME Outside, ~Restart, \A r \in Runs : ~Notice(r)
       PROVE  UNCHANGED <<creds, disk, issued>>
  BY <1>10 DEF Outside, DisconnectNow, Breaks, Forget, Ban, Controller,
               Environment
<1>11. CASE UNCHANGED vars
  BY <1>11 DEF vars
<1> QED BY <1>2, <1>3, <1>4, <1>5, <1>6, <1>7, <1>8, <1>9, <1>10, <1>11
        DEF Next, Outside

\* A call's offer begins with a credential that was not issued.
LEMMA FreshCall ==
  ASSUME TypeOK, Fresh, NEW t \in Tasks, Call(t) PROVE Fresh'
<1>0. TasksTyped
  BY DEF TypeOK
<1>1. PICK rec : OwnRecord(t, rec)
  BY CallBegins
<1>2. /\ task'[t] = rec
      /\ \A u \in Tasks \ {t} : task'[u] = task[u]
  BY <1>0, <1>1, BeginsRecord DEF OwnRecord
<1>3. ~CommitCreds(t) /\ \A u \in Tasks : ~CommitCreds(u)
  <2>1. ASSUME NEW u \in Tasks, CommitCreds(u) PROVE FALSE
    <3>1. At(u, "start") /\ task[u].at = "commit"
      BY <2>1 DEF CommitCreds
    <3>2. task[t].at = "idle"
      BY <1>0, <1>1, BeginsRecord DEF OwnRecord
    <3>3. u # t /\ UNCHANGED task[u]
      BY <1>2, <3>1, <3>2
    <3> QED BY <1>0, <3>1, <3>3, AtRecord
  <2> QED BY <2>1
<1>4. creds' \cup disk'.creds \subseteq creds \cup disk.creds
  BY <1>3, ListedChanges DEF Next
<1>5. CASE rec.op = "invite"
  <2>1. rec.cred \notin issued /\ issued' = issued \cup {rec.cred}
    BY <1>1, <1>5 DEF OwnRecord, CreateInvite
  <2> QED BY <1>2, <1>4, <1>5, <2>1 DEF Fresh, Offered
<1>6. CASE rec.op # "invite"
  <2>1. UNCHANGED issued
    <3>1. ASSUME NEW k \in Creds, CreateInvite(t, k) PROVE FALSE
      <4> DEFINE own == [op |-> "invite",
                         at |-> IF ag # None THEN "stop" ELSE "net",
                         key |-> key, cred |-> k, was |-> ag # None,
                         mine |-> None]
      <4>1. Begins(t, own) /\ own.op = "invite"
        BY <3>1 DEF CreateInvite, ChangesCreds
      <4> HIDE DEF own
      <4>2. task'[t] = own
        BY <1>0, <4>1, BeginsRecord
      <4> QED BY <1>2, <1>6, <4>1, <4>2
    <3>2. CASE SetName(t) \/ ImportConfig(t)
      BY <3>2 DEF SetName, ImportConfig, SaveAndRestart
    <3>3. CASE SelfRegister(t) \/ Revoke(t) \/ Start(t) \/ Stop(t)
      BY <3>3 DEF SelfRegister, Revoke, Start, Stop
    <3>4. ASSUME NEW k \in Creds, RemoveClient(t, k) PROVE UNCHANGED issued
      BY <3>4 DEF RemoveClient
    <3> QED BY <3>1, <3>2, <3>3, <3>4 DEF Call
  <2>2. rec.op = "remove" => rec.cred \in creds
    BY <1>1 DEF OwnRecord, RemoveClient
  <2> QED BY <1>2, <1>4, <1>6, <2>1, <2>2 DEF Fresh, Offered
<1> QED BY <1>5, <1>6

LEMMA FreshProceed ==
  ASSUME TypeOK, Fresh, NEW t \in Tasks, Proceed(t) PROVE Fresh'
<1>0. TasksTyped
  BY DEF TypeOK
<1>1. /\ \A u \in Tasks \ {t} : task'[u] = task[u]
      /\ task'[t].op = task[t].op /\ task'[t].cred = task[t].cred
  BY <1>0, ProceedTasks
<1>2. ASSUME task[t].op = "invite" PROVE Offered(t)' => Offered(t)
  <2>1. CASE CommitCreds(t) \/ StartAgent(t) \/ Launch(t) \/ ClearKey(t)
    <3>1. task'[t].at \in {"start", "launch", "done"}
      <4>1. CASE CommitCreds(t) \/ Launch(t) \/ ClearKey(t)
        <5>1. \E a \in {"start", "done"} : At(t, a)
          BY <4>1 DEF CommitCreds, Launch, ClearKey, NewKey
        <5> QED BY <1>0, <5>1, AtRecord
      <4>2. CASE StartAgent(t)
        BY <1>0, <4>2 DEF StartAgent, TasksTyped
      <4> QED BY <2>1, <4>1, <4>2
    <3> QED BY <3>1 DEF Offered
  <2>2. CASE \/ Unregister(t) \/ StopAgent(t) \/ StopWaited(t)
             \/ Provision(t) \/ ProvisionFails(t)
    <3>1. task[t].at \in {"unreg", "stop", "wait", "net"}
      BY <2>2 DEF Unregister, StopAgent, StopWaited, Provision, ProvisionFails
    <3> QED BY <1>2, <3>1 DEF Offered
  <2>3. CASE Enroll(t) \/ CommitEnroll(t)
    BY <1>2, <2>3 DEF Enroll, CommitEnroll
  <2> QED BY <2>1, <2>2, <2>3 DEF Proceed
<1>3. CASE CommitCreds(t)
  <2>1. ~Offered(t)' /\ (task[t].op = "invite" => Offered(t))
    BY <1>0, <1>3, AtRecord DEF CommitCreds, Offered
  <2>2. /\ UNCHANGED issued
        /\ creds' \cup disk'.creds \subseteq
                  creds \cup disk.creds \cup
                  {k \in {task[t].cred} : task[t].op = "invite"}
    <3>1. PICK saved \in BOOLEAN : Save(saved)
      BY <1>3 DEF CommitCreds
    <3> QED BY <1>3, <3>1 DEF CommitCreds, Save, past
  <2>3. \A u \in Tasks : Offered(u)' => Offered(u) /\ u # t
    BY <1>1, <2>1 DEF Offered
  <2> QED BY <1>1, <2>1, <2>2, <2>3 DEF Fresh, Offered
<1>4. CASE ~CommitCreds(t)
  <2>1. UNCHANGED issued /\ creds' \cup disk'.creds \subseteq creds \cup disk.creds
    <3>1. CASE CommitEnroll(t) \/ ClearKey(t)
      BY <3>1 DEF CommitEnroll, ClearKey, NewKey, Save
    <3>2. CASE ~CommitEnroll(t) /\ ~ClearKey(t)
      BY <1>4, <3>2 DEF Proceed, Unregister, StopAgent, StopWaited, Provision,
         ProvisionFails, Enroll, StartAgent, Launch, config, files, past
    <3> QED BY <3>1, <3>2
  <2>2. \A u \in Tasks : Offered(u)' => Offered(u)
    BY <1>1, <1>2 DEF Offered
  <2> QED BY <1>1, <2>1, <2>2 DEF Fresh
<1> QED BY <1>3, <1>4

LEMMA FreshKeeps ==
  ASSUME TypeOK, Fresh, [Next]_vars PROVE Fresh'
<1>1. CASE Restart
  <2>1. \A t \in Tasks : task'[t].op \in {"none", "enroll", "boot"}
    BY <1>1 DEF Restart, BootTask, NoTask
  <2>2. creds' \cup disk'.creds \subseteq creds \cup disk.creds
        /\ UNCHANGED issued
    BY <1>1 DEF Restart, files
  <2> QED BY <2>1, <2>2 DEF Fresh, Offered
<1>2. CASE \/ \E r \in Runs : Agent(r)
           \/ \E s \in Syncs : Sync(s)
           \/ Outside /\ ~Restart
           \/ UNCHANGED vars
  <2>1. UNCHANGED task
    BY <1>2, Elsewhere
  <2>2. ASSUME NEW t \in Tasks, CommitCreds(t) PROVE FALSE
    <3>1. TasksTyped /\ At(t, "start") /\ task[t].at = "commit"
      BY <2>2 DEF CommitCreds, TypeOK
    <3> QED BY <2>1, <3>1, AtRecord
  <2>3. ASSUME NEW t \in Tasks, NEW k \in Creds, CreateInvite(t, k) PROVE FALSE
    <3>1. PICK rec : OwnRecord(t, rec)
      BY <2>3, CallBegins DEF Call
    <3>2. TasksTyped
      BY DEF TypeOK
    <3>3. task'[t] = rec /\ task[t].at = "idle" /\ rec.at # "idle"
      BY <3>1, <3>2, BeginsRecord DEF OwnRecord
    <3> QED BY <2>1, <3>3
  <2>4. UNCHANGED issued /\ creds' \cup disk'.creds \subseteq creds \cup disk.creds
    BY <2>2, <2>3, ListedChanges
  <2> QED BY <2>1, <2>4 DEF Fresh, Offered
<1> QED BY <1>1, <1>2, FreshCall, FreshProceed DEF Next

Removing(t) == task[t].op = "remove" /\ AtWork(t)

\* How the removals that are at work came to be so, and to the point where
\* the program's list is changed.
LEMMA Removals ==
  ASSUME TypeOK, [Next]_vars, NEW t \in Tasks, Removing(t)'
  PROVE  \/ /\ RemoveClient(t, task'[t].cred)
            /\ task'[t].at # "commit"
         \/ /\ Removing(t) /\ task'[t].cred = task[t].cred
            /\ task'[t].at = "commit" =>
                 /\ task'[t].key = task[t].key
                 /\ \/ task[t].at = "commit"
                    \/ Provision(t)
                    \/ ProvisionFails(t) /\ task[t].key \notin known
<1>0. TasksTyped
  BY DEF TypeOK
<1>1. CASE task'[t] = task[t]
  BY <1>1 DEF Removing, AtWork
<1>2. CASE Call(t)
  <2>1. PICK rec : OwnRecord(t, rec)
    BY <1>2, CallBegins
  <2>2. task'[t] = rec
    BY <1>0, <2>1, BeginsRecord DEF OwnRecord
  <2> QED BY <2>1, <2>2 DEF OwnRecord, Removing
<1>3. CASE Proceed(t)
  <2>1. Removing(t) /\ task'[t].cred = task[t].cred /\ task[t].op = "remove"
    BY <1>0, <1>3, ProceedTasks DEF Removing
  <2>2. ASSUME task'[t].at = "commit"
        PROVE  /\ task'[t].key = task[t].key
               /\ \/ Provision(t)
                  \/ ProvisionFails(t) /\ task[t].key \notin known
    <3>1. CASE Provision(t) \/ ProvisionFails(t)
      <4>1. At(t, "commit") \/ At(t, AfterFailure(t))
        BY <3>1 DEF Provision, ProvisionFails
      <4>2. task'[t].key = task[t].key /\ ~At(t, AfterFailure(t))
        BY <1>0, <2>2, <4>1, AtRecord DEF AfterFailure
      <4> QED BY <3>1, <4>2 DEF ProvisionFails
    <3>2. CASE \/ Unregister(t) \/ StopWaited(t) \/ CommitCreds(t)
               \/ ClearKey(t) \/ Launch(t) \/ CommitEnroll(t)
      <4>1. \E a \in Places \ {"commit"} : At(t, a)
        BY <3>2 DEF Unregister, StopWaited, AfterStop, CommitCreds, ClearKey,
                    CommitEnroll, NewKey, Launch, Places
      <4> QED BY <1>0, <2>2, <4>1, AtRecord
    <3>3. CASE StopAgent(t)
      BY <1>0, <2>2, <3>3 DEF StopAgent, AfterStop, At, TasksTyped, TaskRecs
    <3>4. CASE StartAgent(t)
      BY <1>0, <2>2, <3>4 DEF StartAgent, TasksTyped
    <3>5. CASE Enroll(t)
      BY <2>1, <3>5 DEF Enroll
    <3> QED BY <1>3, <3>1, <3>2, <3>3, <3>4, <3>5 DEF Proceed
  <2> QED BY <2>1, <2>2
<1>4. ASSUME NEW u \in Tasks \ {t}, Call(u) \/ Proceed(u)
      PROVE  task'[t] = task[t]
  <2>1. CASE Call(u)
    <3>1. PICK rec : OwnRecord(u, rec)
      BY <2>1, CallBegins
    <3> QED BY <1>0, <3>1, BeginsRecord DEF OwnRecord
  <2> QED BY <1>0, <1>4, <2>1, ProceedTasks
<1>5. CASE Restart
  <2>1. task'[t].op # "remove"
    BY <1>5 DEF Restart, BootTask, NoTask
  <2> QED BY <2>1 DEF Removing
<1> QED BY <1>1, <1>2, <1>3, <1>4, <1>5, Elsewhere DEF Next

\* The three parts of Told.
ToldSyncs ==
    \A s \in Syncs : /\ sync[s].todo \subseteq creds \cup lost
                     /\ ~sync[s].on => sync[s].todo = {}

ToldLost ==
    \A t \in Tasks, s \in Syncs :
        Removing(t) /\ task[t].cred \in sync[s].todo => task[t].cred \in lost

ToldGone ==
    \A t \in Tasks : Removing(t) /\ task[t].at = "commit" =>
        \/ task[t].cred \notin filed[task[t].key]
        \/ task[t].cred \in lost \cup misread

LEMMA ToldParts == Told <=> ToldSyncs /\ ToldLost /\ ToldGone
BY DEF Told, ToldSyncs, ToldLost, ToldGone, Removing

LEMMA ToldSyncsKeeps ==
  ASSUME TypeOK, Told, [Next]_vars PROVE ToldSyncs'
<1>0. SyncsTyped /\ ToldSyncs /\ ToldLost /\ lost \subseteq lost'
  BY ToldParts, HistoryGrows DEF TypeOK
<1>1. CASE UNCHANGED <<creds, sync>>
  BY <1>0, <1>1 DEF ToldSyncs
<1>2. ASSUME NEW t \in Tasks, CommitCreds(t), UNCHANGED sync PROVE ToldSyncs'
  <2>1. task[t].op = "invite" => creds \subseteq creds'
    BY <1>2 DEF CommitCreds
  <2>2. task[t].op # "invite" =>
          Removing(t) /\ creds \subseteq creds' \cup {task[t].cred}
    BY <1>2 DEF CommitCreds, Removing, AtWork
  <2> QED BY <1>0, <1>2, <2>1, <2>2 DEF ToldSyncs, ToldLost
<1>3. ASSUME NEW s \in Syncs, Sync(s), UNCHANGED creds PROVE ToldSyncs'
  <2>1. CASE SyncBegin(s)
    BY <1>0, <1>3, <2>1 DEF SyncBegin, ToldSyncs, SyncsTyped
  <2>2. CASE SyncEnds(s)
    BY <1>0, <1>3, <2>2 DEF SyncEnds, ToldSyncs, SyncsTyped, NoSync
  <2>3. ASSUME NEW k \in Creds, SyncOne(s, k) PROVE ToldSyncs'
    <3>1. /\ sync[s].on
          /\ \/ sync' = [sync EXCEPT ![s].todo = @ \ {k}]
             \/ sync' = [sync EXCEPT ![s] = NoSync]
      BY <2>3 DEF SyncOne
    <3> QED BY <1>0, <1>3, <3>1 DEF ToldSyncs, SyncsTyped, SyncRecs, NoSync
  <2> QED BY <1>3, <2>1, <2>2, <2>3 DEF Sync
<1>4. CASE Restart
  BY <1>4 DEF Restart, ToldSyncs, NoSync
<1> QED BY <1>1, <1>2, <1>3, <1>4, CredsChanges

LEMMA ToldLostKeeps ==
  ASSUME TypeOK, Told, [Next]_vars PROVE ToldLost'
<1>0. SyncsTyped /\ ToldLost /\ lost \subseteq lost'
  BY ToldParts, HistoryGrows DEF TypeOK
<1> SUFFICES ASSUME NEW t \in Tasks, NEW x \in Syncs, Removing(t)',
                    task'[t].cred \in sync'[x].todo
             PROVE  task'[t].cred \in lost'
  BY DEF ToldLost
<1>1. CASE UNCHANGED sync
  BY <1>0, <1>1, Removals DEF ToldLost, RemoveClient
<1>2. ASSUME NEW s \in Syncs, Sync(s) PROVE task'[t].cred \in lost'
  <2>1. task' = task /\ Removing(t)
    BY <1>2, Elsewhere DEF Removing, AtWork
  <2>2. CASE SyncBegin(s)
    BY <1>0, <2>1, <2>2 DEF SyncBegin, ToldLost, SyncsTyped, Removing
  <2>3. CASE SyncEnds(s)
    BY <1>0, <2>1, <2>3 DEF SyncEnds, ToldLost, SyncsTyped, NoSync
  <2>4. ASSUME NEW k \in Creds, SyncOne(s, k) PROVE task'[t].cred \in lost'
    <3>1. \/ sync' = [sync EXCEPT ![s].todo = @ \ {k}]
          \/ sync' = [sync EXCEPT ![s] = NoSync]
      BY <2>4 DEF SyncOne
    <3> QED BY <1>0, <2>1, <3>1 DEF ToldLost, SyncsTyped, SyncRecs, NoSync
  <2> QED BY <1>2, <2>2, <2>3, <2>4 DEF Sync
<1>3. CASE Restart
  BY <1>3 DEF Restart, NoSync
<1> QED BY <1>1, <1>2, <1>3, CredsChanges

LEMMA ToldGoneKeeps ==
  ASSUME TypeOK, Named, Fresh, Told, [Next]_vars PROVE ToldGone'
<1>0. /\ RelayTyped /\ TasksTyped /\ PastTyped /\ ToldGone /\ ToldLost
      /\ TasksBorn /\ FiledKnown
      /\ lost \subseteq lost' /\ misread \subseteq misread'
  BY ToldParts, HistoryGrows DEF TypeOK, Named
<1> SUFFICES ASSUME NEW t \in Tasks, Removing(t)', task'[t].at = "commit"
             PROVE  \/ task'[t].cred \notin filed'[task'[t].key]
                    \/ task'[t].cred \in lost' \cup misread'
  BY DEF ToldGone
<1>1. /\ Removing(t) /\ task'[t].cred = task[t].cred
      /\ task'[t].key = task[t].key
      /\ \/ task[t].at = "commit"
         \/ Provision(t)
         \/ ProvisionFails(t) /\ task[t].key \notin known
  BY Removals
<1> DEFINE i == task[t].key  k == task[t].cred
<1>2. i \in Ids
  <2>1. task[t].at = "commit" \/ (/\ task[t].at = "net"
                                  /\ task[t].op \in {"invite", "remove"})
    BY <1>1 DEF Provision, ProvisionFails
  <2> QED BY <1>0, <2>1 DEF TasksBorn, PastTyped
<1> SUFFICES k \notin filed'[i] \/ k \in lost' \cup misread'
  BY <1>1
<1> HIDE DEF i, k
<1>3. CASE Provision(t)
  <2>1. filed' = [filed EXCEPT ![i] = @ \ {k}]
    BY <1>1, <1>3 DEF Provision, Provisioned, Removing, i, k
  <2> QED BY <1>0, <1>2, <2>1 DEF RelayTyped
<1>4. CASE ProvisionFails(t) /\ i \notin known
  <2>1. filed'[i] = {}
    BY <1>0, <1>2, <1>4 DEF ProvisionFails, relay, FiledKnown
  <2> QED BY <2>1
<1>5. CASE task[t].at = "commit"
  <2>1. k \notin filed[i] \/ k \in lost \cup misread
    BY <1>0, <1>1, <1>5 DEF ToldGone, i, k
  <2>2. ASSUME NEW j, filed' = [filed EXCEPT ![j] = {}]
        PROVE  filed'[i] \subseteq filed[i]
    BY <1>0, <1>2, <2>2 DEF RelayTyped
  <2>3. ASSUME NEW u \in Tasks, Provision(u)
        PROVE  filed'[i] \subseteq filed[i] \/ k \notin filed'[i] \ filed[i]
    <3>1. /\ filed' = [filed EXCEPT ![task[u].key] =
                          IF task[u].op = "invite" THEN @ \cup {task[u].cred}
                                                   ELSE @ \ {task[u].cred}]
          /\ task[u].at = "net"
      BY <2>3 DEF Provision, Provisioned
    <3>2. CASE task[u].op = "invite"
      <4>1. task[u].cred # k
        BY <1>1, <1>5, <3>1, <3>2 DEF Fresh, Offered, Removing, k
      <4> QED BY <1>0, <1>2, <3>1, <3>2, <4>1 DEF RelayTyped
    <3>3. CASE task[u].op # "invite"
      BY <1>0, <1>2, <3>1, <3>3 DEF RelayTyped
    <3> QED BY <3>2, <3>3
  <2>4. ASSUME NEW s \in Syncs, NEW c \in Creds, SyncOne(s, c)
        PROVE  k \in lost \/ k \notin filed'[i] \ filed[i]
    <3>1. CASE Provisioned(sync[s].key, c, TRUE)
      <4>1. c \in sync[s].todo
        BY <2>4 DEF SyncOne
      <4>2. c = k => k \in lost
        BY <1>0, <1>1, <4>1 DEF ToldLost, k
      <4>3. filed' = [filed EXCEPT ![sync[s].key] = @ \cup {c}]
        BY <3>1 DEF Provisioned
      <4> QED BY <1>0, <1>2, <4>2, <4>3 DEF RelayTyped
    <3>2. CASE UNCHANGED filed
      BY <3>2
    <3> QED BY <2>4, <3>1, <3>2 DEF SyncOne, relay
  <2> QED BY <1>0, <2>1, <2>2, <2>3, <2>4, FiledChanges
<1> QED BY <1>1, <1>3, <1>4, <1>5 DEF i

LEMMA ToldKeeps ==
  ASSUME TypeOK, Named, Fresh, Told, [Next]_vars PROVE Told'
<1>1. ToldSyncs' /\ ToldLost' /\ ToldGone'
  BY ToldSyncsKeeps, ToldLostKeeps, ToldGoneKeeps
<1> QED BY <1>1, ToldParts, PTL

\* What the program vouches for is still vouched for after a step, but for a
\* credential whose removal is committed.
LEMMA VouchedStays ==
  ASSUME TypeOK, [Next]_vars
  PROVE  \/ creds \cup lost \cup misread \cup Coming
               \subseteq creds' \cup lost' \cup misread' \cup Coming'
         \/ \E t \in Tasks :
               /\ CommitCreds(t) /\ Removing(t) /\ task[t].at = "commit"
               /\ creds \cup lost \cup misread \cup Coming
                     \subseteq creds' \cup lost' \cup misread' \cup Coming'
                                 \cup {task[t].cred}
<1>0. TasksTyped /\ lost \subseteq lost' /\ misread \subseteq misread'
  BY HistoryGrows DEF TypeOK
<1>1. ASSUME NEW t \in Tasks, CommitCreds(t)
      PROVE  /\ Coming \subseteq Coming' \cup {task[t].cred}
             /\ task[t].op = "invite" => /\ creds \cup {task[t].cred} = creds'
             /\ task[t].op # "invite" => /\ Removing(t) /\ task[t].at = "commit"
                                         /\ creds \subseteq creds' \cup {task[t].cred}
  <2>1. \A u \in Tasks \ {t} : task'[u] = task[u]
    BY <1>0, <1>1, AtRecord DEF CommitCreds
  <2> QED BY <1>1, <2>1 DEF CommitCreds, Coming, Removing, AtWork
<1>2. ASSUME UNCHANGED task PROVE Coming' = Coming
  BY <1>2 DEF Coming
<1>3. ASSUME NEW t \in Tasks, Call(t) PROVE Coming \subseteq Coming'
  <2>1. PICK rec : OwnRecord(t, rec)
    BY <1>3, CallBegins
  <2>2. task[t].at = "idle" /\ \A u \in Tasks \ {t} : task'[u] = task[u]
    BY <1>0, <2>1, BeginsRecord DEF OwnRecord
  <2> QED BY <2>2 DEF Coming
<1>4. ASSUME NEW t \in Tasks, Proceed(t), ~CommitCreds(t)
      PROVE  Coming \subseteq Coming'
  <2>1. task[t].op = "invite" => task[t].at # "commit"
    BY <1>4 DEF Proceed, Unregister, StopAgent, StopWaited, Provision,
       ProvisionFails, Enroll, CommitEnroll, ClearKey, NewKey, StartAgent,
       Launch
  <2>2. \A u \in Tasks \ {t} : task'[u] = task[u]
    BY <1>0, <1>4, ProceedTasks
  <2> QED BY <2>1, <2>2 DEF Coming
<1>5. CASE Restart
  <2>1. Coming \subseteq lost'
    <3>1. ASSUME NEW t \in Tasks, task[t].op = "invite", task[t].at = "commit"
          PROVE  task[t].cred \in lost'
      <4>1. task[t].cred # None
        BY <1>0, <3>1 DEF TasksTyped, TaskRecs
      <4> QED BY <1>5, <3>1, <4>1 DEF Restart
    <3> QED BY <3>1 DEF Coming
  <2>2. creds \subseteq creds' \cup lost'
    BY <1>5 DEF Restart
  <2> QED BY <1>0, <2>1, <2>2
<1>6. CASE \E t \in Tasks : CommitCreds(t)
  BY <1>0, <1>1, <1>6
<1>7. CASE ~Restart /\ \A t \in Tasks : ~CommitCreds(t)
  <2>1. UNCHANGED creds
    BY <1>7, CredsChanges
  <2>2. Coming \subseteq Coming'
    BY <1>2, <1>3, <1>4, <1>7, Elsewhere DEF Next
  <2> QED BY <1>0, <2>1, <2>2
<1> QED BY <1>5, <1>6, <1>7

LEMMA KeptKeeps ==
  ASSUME TypeOK, Named, Told, Kept, [Next]_vars PROVE Kept'
<1>0. /\ RelayTyped /\ TasksTyped /\ SyncsTyped /\ PastTyped
      /\ ToldSyncs /\ ToldGone /\ TasksBorn /\ SyncsBorn /\ born \subseteq born'
      /\ lost \subseteq lost' /\ misread \subseteq misread'
  BY ToldParts, HistoryGrows, NewKeys DEF TypeOK, Named
<1> SUFFICES ASSUME NEW i \in Ids, born' \subseteq {i}
             PROVE  filed'[i] \subseteq creds' \cup lost' \cup misread' \cup Coming'
  BY DEF Kept
<1> DEFINE V == creds \cup lost \cup misread \cup Coming
           W == creds' \cup lost' \cup misread' \cup Coming'
<1>1. born \subseteq {i} /\ filed[i] \subseteq V
  BY <1>0 DEF Kept
<1>2. filed[i] \subseteq W
  <2>1. ASSUME NEW t \in Tasks, CommitCreds(t), Removing(t),
               task[t].at = "commit"
        PROVE  task[t].cred \notin filed[i] \/ task[t].cred \in W
    <3>1. task[t].key = i
      BY <1>0, <1>1, <2>1 DEF TasksBorn
    <3> QED BY <1>0, <2>1, <3>1 DEF ToldGone
  <2> QED BY <1>1, <2>1, VouchedStays
<1>3. CASE UNCHANGED filed
  BY <1>2, <1>3
<1>4. ASSUME NEW j, filed' = [filed EXCEPT ![j] = {}]
      PROVE  filed'[i] \subseteq filed[i]
  BY <1>0, <1>4 DEF RelayTyped
<1>5. ASSUME NEW t \in Tasks, Provision(t) PROVE filed'[i] \subseteq W
  <2> DEFINE k == task[t].cred
  <2>1. /\ filed' = [filed EXCEPT ![task[t].key] =
                        IF task[t].op = "invite" THEN @ \cup {k} ELSE @ \ {k}]
        /\ UNCHANGED creds
    BY <1>5 DEF Provision, Provisioned, config
  <2>2. filed'[i] \subseteq filed[i] \cup (IF task[t].op = "invite" THEN {k} ELSE {})
    BY <1>0, <2>1 DEF RelayTyped
  <2>3. task[t].op = "invite" => k \in W
    <3>1. CASE At(t, "commit")
      <4>1. task'[t].at = "commit" /\ task'[t].op = task[t].op /\ task'[t].cred = k
        BY <1>0, <3>1, AtRecord
      <4> QED BY <4>1 DEF Coming
    <3>2. CASE ~At(t, "commit")
      BY <1>5, <3>2 DEF Provision
    <3> QED BY <3>1, <3>2
  <2> HIDE DEF k
  <2> QED BY <1>2, <2>2, <2>3
<1>6. ASSUME NEW s \in Syncs, NEW k \in Creds, SyncOne(s, k)
      PROVE  filed'[i] \subseteq W
  <2>1. k \in creds' \cup lost'
    BY <1>0, <1>6 DEF SyncOne, ToldSyncs, config, past
  <2>2. filed'[i] \subseteq filed[i] \cup {k}
    <3>1. CASE Provisioned(sync[s].key, k, TRUE)
      <4>1. filed' = [filed EXCEPT ![sync[s].key] = @ \cup {k}]
        BY <3>1 DEF Provisioned
      <4> QED BY <1>0, <4>1 DEF RelayTyped
    <3>2. CASE UNCHANGED filed
      BY <3>2
    <3> QED BY <1>6, <3>1, <3>2 DEF SyncOne, relay
  <2> QED BY <1>2, <2>1, <2>2
<1> QED BY <1>2, <1>3, <1>4, <1>5, <1>6, FiledChanges

\* Of a machine that has had one identity the relay keeps no credential that
\* the program has forgotten, whatever call, synchronisation or restart came
\* between the two, but for those on record as lost or misread.
THEOREM NoOrphansEver == Spec => []NoOrphans
<1>1. ASSUME Init PROVE Named /\ Fresh /\ Told /\ Kept
  <2>1. /\ \A i \in Ids : filed[i] = {}
        /\ \A t \in Tasks : /\ task[t].at \in {"idle", "net", "start"}
                            /\ task[t].op \in {"none", "enroll", "boot"}
        /\ \A s \in Syncs : ~sync[s].on /\ sync[s].todo = {}
    BY <1>1 DEF Init, BootTask, NoTask, NoSync
  <2>2. Named
    BY <1>1, <2>1 DEF Init, Named, KeysBorn, TasksBorn, SyncsBorn, FiledKnown
  <2>3. Fresh
    BY <1>1, <2>1 DEF Init, Fresh, Offered
  <2> QED BY <2>1, <2>2, <2>3 DEF Told, Kept
<1>2. TypeOK /\ Kept => NoOrphans
  <2> SUFFICES ASSUME TypeOK, Kept, Quiet, born = {key}
               PROVE  filed[key] \subseteq creds \cup lost \cup misread
    BY DEF NoOrphans
  <2>1. key \in Ids
    BY DEF TypeOK, PastTyped
  <2>2. Coming = {}
    BY DEF Quiet, AtWork, Coming
  <2> QED BY <2>1, <2>2 DEF Kept
<1> QED BY <1>1, <1>2, TypeCorrect, NamedKeeps, FreshKeeps, ToldKeeps,
           KeptKeeps, PTL DEF Spec

\* A synchronised program stays so until its identity changes, a credential
\* is committed, or the device is registered again.
Synchronised ==
    synced /\ ~rekeyed /\ ~unheard /\ key \in known
           /\ \A r \in Runs : pc[r] # "again"

LEMMA SynchronisedSince ==
  ASSUME TypeOK, Named, [Next]_vars, Synchronised'
  PROVE  \/ ~synced /\ \E s \in Syncs : SyncBegin(s)
         \/ Synchronised /\ UNCHANGED <<key, creds>>
<1> USE DEF config, syncs, past
<1>0. /\ AgentsTyped /\ KeysBorn
      /\ synced' /\ ~rekeyed' /\ ~unheard' /\ key' \in known'
      /\ \A r \in Runs : pc'[r] # "again"
  BY DEF TypeOK, Named, Synchronised
<1>b. /\ rekeyed \in BOOLEAN /\ rekeyed' = FALSE
      /\ unheard \in BOOLEAN /\ unheard' = FALSE
      /\ synced \in BOOLEAN /\ synced' = TRUE
  <2>1. TypeOK'
    BY NextTyped
  <2> QED BY <2>1 DEF TypeOK, Synchronised, PastTyped, SyncsTyped
<1>1. UNCHANGED creds
  <2>1. ASSUME NEW t \in Tasks, CommitCreds(t) PROVE FALSE
    BY <1>0, <2>1 DEF CommitCreds
  <2>2. CASE Restart
    BY <1>0, <2>2 DEF Restart
  <2> QED BY <2>1, <2>2, CredsChanges
<1>2. /\ UNCHANGED key
      /\ \/ synced /\ ~rekeyed /\ ~unheard
         \/ ~synced /\ \E s \in Syncs : SyncBegin(s)
  <2>1. ASSUME NEW t \in Tasks, Call(t)
        PROVE  UNCHANGED <<key, synced>> /\ ~rekeyed /\ ~unheard
    <3>1. CASE SetName(t) \/ ImportConfig(t)
      BY <1>b, <3>1 DEF SetName, ImportConfig, SaveAndRestart
    <3>2. CASE SelfRegister(t) \/ Revoke(t) \/ Start(t) \/ Stop(t)
      BY <1>b, <3>2 DEF SelfRegister, Revoke, Start, Stop
    <3>3. ASSUME NEW k \in Creds, CreateInvite(t, k) \/ RemoveClient(t, k)
          PROVE  UNCHANGED <<key, synced, rekeyed, unheard>>
      BY <3>3 DEF CreateInvite, RemoveClient, ChangesCreds
    <3> QED BY <1>b, <2>1, <3>1, <3>2, <3>3 DEF Call
  <2>2. ASSUME NEW t \in Tasks, Proceed(t)
        PROVE  UNCHANGED <<key, synced>> /\ ~rekeyed /\ ~unheard
    BY <1>b, <2>2 DEF Proceed, Unregister, StopAgent, StopWaited, Provision,
       ProvisionFails, CommitCreds, Enroll, CommitEnroll, ClearKey, NewKey,
       StartAgent, Launch
  <2>3. ASSUME NEW r \in Runs, Agent(r)
        PROVE  UNCHANGED <<key, synced>> /\ ~rekeyed /\ ~unheard
    BY <1>b, <2>3 DEF Agent, Dialled, Connected, Missing, Disconnected,
       Paused, ReRegister, ReRegistered, Ends
  <2>4. ASSUME NEW s \in Syncs, Sync(s)
        PROVE  /\ UNCHANGED key
               /\ \/ synced /\ ~rekeyed /\ ~unheard
                  \/ ~synced /\ SyncBegin(s)
    BY <1>b, <2>4 DEF Sync, SyncBegin, SyncEnds, SyncOne
  <2>5. ASSUME Outside
        PROVE  UNCHANGED <<key, synced>> /\ ~rekeyed /\ ~unheard
    BY <1>b, <2>5 DEF Outside, DisconnectNow, Notice, Breaks, Forget, Ban,
                      Controller, Environment, Restart
  <2>6. CASE UNCHANGED vars
    BY <1>b, <2>6 DEF vars
  <2> QED BY <1>b, <2>1, <2>2, <2>3, <2>4, <2>5, <2>6 DEF Next
<1>3. key \in known \/ \E s \in Syncs : SyncBegin(s)
  <2>1. ASSUME NEW t \in Tasks, Enroll(t) PROVE key \in known
    BY <1>0, <1>2, <2>1 DEF Enroll, KeysBorn
  <2>2. ASSUME NEW r \in Runs, ReRegister(r) PROVE key \in known
    BY <1>0, <1>2, <1>b, <2>2 DEF ReRegister, AgentsTyped
  <2> QED BY <1>0, <1>2, <2>1, <2>2, FiledChanges
<1>4. ASSUME NEW r \in Runs, pc[r] = "again" PROVE FALSE
  <2>1. ASSUME NEW t \in Tasks, Call(t) PROVE UNCHANGED pc
    BY <2>1, CallBegins DEF agents
  <2>2. ASSUME NEW t \in Tasks, Proceed(t), ~Launch(t) PROVE UNCHANGED pc
    BY <2>2 DEF Proceed, Unregister, StopAgent, StopWaited, Provision,
       Provisioned, ProvisionFails, CommitCreds, Enroll, CommitEnroll,
       ClearKey, NewKey, StartAgent, agents
  <2>3. ASSUME NEW t \in Tasks, Launch(t) PROVE pc'[r] = "again"
    BY <1>0, <1>4, <2>3 DEF Launch, AgentsTyped
  <2>4. ASSUME NEW x \in Runs, Agent(x) PROVE pc'[r] = "again"
    <3>1. ~ReRegistered(x)
      BY <1>0 DEF ReRegistered
    <3>2. pc[x] # "again" /\ \E a : pc' = [pc EXCEPT ![x] = a]
      BY <2>4, <3>1 DEF Agent, Dialled, Connected, Missing, Disconnected,
                        Paused, ReRegister, Ends, GoesOn
    <3> QED BY <1>0, <1>4, <3>2 DEF AgentsTyped
  <2>5. ASSUME NEW s \in Syncs, Sync(s) PROVE UNCHANGED pc
    BY <2>5 DEF Sync, SyncBegin, SyncEnds, SyncOne, Provisioned, agents
  <2>6. ASSUME Outside, ~Restart PROVE UNCHANGED pc
    BY <2>6 DEF Outside, DisconnectNow, Notice, Breaks, Forget, Ban,
                Controller, Environment, agents
  <2>7. ~Restart
    BY <1>0 DEF Restart
  <2>8. CASE UNCHANGED vars
    BY <1>0, <1>4, <2>8 DEF vars, agents
  <2> QED BY <1>0, <1>4, <2>1, <2>2, <2>3, <2>4, <2>5, <2>6, <2>7, <2>8 DEF Next
<1>5. CASE synced /\ ~rekeyed /\ ~unheard /\ \E s \in Syncs : SyncBegin(s)
  <2>1. UNCHANGED known
    BY <1>5 DEF SyncBegin, relay
  <2> QED BY <1>0, <1>1, <1>2, <1>4, <1>5, <2>1 DEF Synchronised
<1> QED BY <1>1, <1>2, <1>3, <1>4, <1>5 DEF Synchronised

LEMMA CoveredKeeps ==
  ASSUME TypeOK, Named, Told, Covered, [Next]_vars PROVE Covered'
<1>0. /\ RelayTyped /\ TasksTyped /\ SyncsTyped /\ AppTyped /\ ToldSyncs
      /\ lost \subseteq lost' /\ misread \subseteq misread'
  BY ToldParts, HistoryGrows DEF TypeOK
<1> SUFFICES ASSUME Synchronised'
             PROVE  creds' \subseteq filed'[key'] \cup Owed' \cup Going'
                                       \cup lost' \cup misread'
  BY DEF Covered, Synchronised
<1> DEFINE W == filed'[key'] \cup Owed' \cup Going' \cup lost' \cup misread'
<1>1. ASSUME NEW s \in Syncs, SyncBegin(s), ~synced
      PROVE  creds' \subseteq W
  <2>1. key # None
    BY <1>0, <1>1 DEF SyncBegin, Synchronised, syncs
  <2>2. /\ sync'[s].key = key /\ sync'[s].todo = creds
        /\ UNCHANGED <<key, creds>>
    BY <1>0, <1>1, <2>1 DEF SyncBegin, SyncsTyped, config
  <2>3. creds' \subseteq Owed'
    BY <2>2 DEF Owed
  <2> QED BY <2>3
<1>2. ASSUME Synchronised, UNCHANGED <<key, creds>>
      PROVE  creds' \subseteq W
  <2>1. /\ creds \subseteq filed[key] \cup Owed \cup Going \cup lost \cup misread
        /\ key \in Ids /\ synced'
    BY <1>0, <1>2 DEF Covered, Synchronised, RelayTyped
  <2>2. filed[key] \subseteq W
    <3>1. CASE UNCHANGED filed
      BY <1>2, <3>1
    <3>2. ASSUME NEW j, known' = known \ {j}, filed' = [filed EXCEPT ![j] = {}]
          PROVE  filed[key] \subseteq W
      BY <1>0, <1>2, <2>1, <3>2 DEF RelayTyped, Synchronised
    <3>3. ASSUME NEW t \in Tasks, Provision(t) PROVE filed[key] \subseteq W
      <4> DEFINE k == task[t].cred
      <4>1. filed' = [filed EXCEPT ![task[t].key] =
                        IF task[t].op = "invite" THEN @ \cup {k} ELSE @ \ {k}]
        BY <3>3 DEF Provision, Provisioned
      <4>2. CASE task[t].op = "invite"
        BY <1>0, <1>2, <2>1, <4>1, <4>2 DEF RelayTyped
      <4>3. CASE task[t].op = "remove"
        <5>1. filed[key] \subseteq filed'[key'] \cup {k}
          BY <1>0, <1>2, <2>1, <4>1, <4>3 DEF RelayTyped
        <5>2. k \in Going' \cup lost' \cup misread'
          <6>1. CASE At(t, "commit")
            <7>1. task'[t].at = "commit" /\ task'[t].op = "remove" /\ task'[t].cred = k
              BY <1>0, <4>3, <6>1, AtRecord
            <7> QED BY <7>1 DEF Going
          <6>2. CASE ~At(t, "commit")
            BY <3>3, <6>2 DEF Provision
          <6> QED BY <6>1, <6>2
        <5> QED BY <5>1, <5>2
      <4> QED BY <3>3, <4>2, <4>3 DEF Provision
    <3>4. ASSUME NEW s \in Syncs, NEW k \in Creds, SyncOne(s, k)
          PROVE  filed[key] \subseteq W
      <4>1. CASE Provisioned(sync[s].key, k, TRUE)
        <5>1. filed' = [filed EXCEPT ![sync[s].key] = @ \cup {k}]
          BY <4>1 DEF Provisioned
        <5> QED BY <1>0, <1>2, <2>1, <5>1 DEF RelayTyped
      <4>2. CASE UNCHANGED filed
        BY <1>2, <4>2
      <4> QED BY <3>4, <4>1, <4>2 DEF SyncOne, relay
    <3> QED BY <3>1, <3>2, <3>3, <3>4, FiledChanges
  <2>3. Owed \subseteq W
    <3>1. CASE UNCHANGED sync
      BY <1>2, <3>1 DEF Owed
    <3>2. ASSUME NEW s \in Syncs, Sync(s) PROVE Owed \subseteq W
      <4>1. CASE SyncBegin(s)
        <5>1. UNCHANGED sync
          BY <1>2, <4>1 DEF SyncBegin, Synchronised
        <5> QED BY <3>1, <5>1
      <4>2. CASE SyncEnds(s)
        <5>1. \A x \in Syncs : x # s => sync'[x] = sync[x]
          BY <1>0, <4>2 DEF SyncEnds, SyncsTyped
        <5>2. sync[s].todo = {}
          BY <4>2 DEF SyncEnds
        <5>3. Owed \subseteq Owed'
          BY <1>2, <5>1, <5>2 DEF Owed
        <5> QED BY <5>3
      <4>3. ASSUME NEW k \in Creds, SyncOne(s, k) PROVE Owed \subseteq W
        <5>1. /\ Provisioned(sync[s].key, k, TRUE)
              /\ sync' = [sync EXCEPT ![s].todo = @ \ {k}]
          BY <2>1, <4>3 DEF SyncOne
        <5>2. /\ \A x \in Syncs : sync'[x].key = sync[x].key
              /\ \A x \in Syncs : x # s => sync'[x].todo = sync[x].todo
              /\ sync'[s].todo = sync[s].todo \ {k}
          BY <1>0, <5>1 DEF SyncsTyped, SyncRecs
        <5>3. sync[s].key = key => k \in filed'[key']
          <6>1. filed' = [filed EXCEPT ![sync[s].key] = @ \cup {k}]
            BY <5>1 DEF Provisioned
          <6> QED BY <1>0, <1>2, <2>1, <6>1 DEF RelayTyped
        <5>4. Owed \subseteq Owed' \cup (IF sync[s].key = key THEN {k} ELSE {})
          BY <1>2, <5>2 DEF Owed
        <5> QED BY <5>3, <5>4
      <4> QED BY <3>2, <4>1, <4>2, <4>3 DEF Sync
    <3>3. ~Restart
      BY <2>1 DEF Restart
    <3> QED BY <3>1, <3>2, <3>3, <2>1, CredsChanges
  <2>4. Going \subseteq Going'
    <3>1. ASSUME NEW t \in Tasks, task[t].op = "remove", task[t].at = "commit"
          PROVE  /\ task'[t].op = "remove" /\ task'[t].at = "commit"
                 /\ task'[t].cred = task[t].cred
      <4>1. ASSUME NEW u \in Tasks, Call(u) PROVE task'[t] = task[t]
        <5>1. PICK rec : OwnRecord(u, rec)
          BY <4>1, CallBegins
        <5>2. task[u].at = "idle" /\ \A v \in Tasks \ {u} : task'[v] = task[v]
          BY <1>0, <5>1, BeginsRecord DEF OwnRecord
        <5> QED BY <3>1, <5>2
      <4>2. ASSUME NEW u \in Tasks \ {t}, Proceed(u) PROVE task'[t] = task[t]
        BY <1>0, <4>2, ProceedTasks
      <4>3. ~Proceed(t)
        BY <2>1, <3>1 DEF Proceed, Unregister, StopAgent, StopWaited,
           Provision, ProvisionFails, CommitCreds, Enroll, CommitEnroll,
           ClearKey, NewKey, StartAgent, Launch
      <4>4. ~Restart
        BY <2>1 DEF Restart
      <4> QED BY <3>1, <4>1, <4>2, <4>3, <4>4, Elsewhere DEF Next
    <3> QED BY <3>1 DEF Going
  <2> QED BY <1>0, <1>2, <2>1, <2>2, <2>3, <2>4
<1> QED BY <1>1, <1>2, SynchronisedSince

\* A program that thinks the relay has its credentials is right, as long as
\* its identity stays, and no acknowledgement of a credential, or of a record
\* that the relay made again, is lost or misunderstood.
THEOREM SyncedTrueEver == Spec => []SyncedTrue
<1>1. ASSUME Init PROVE Named /\ Fresh /\ Told /\ Covered
  <2>1. /\ \A i \in Ids : filed[i] = {}
        /\ \A t \in Tasks : /\ task[t].at \in {"idle", "net", "start"}
                            /\ task[t].op \in {"none", "enroll", "boot"}
        /\ \A s \in Syncs : ~sync[s].on /\ sync[s].todo = {}
    BY <1>1 DEF Init, BootTask, NoTask, NoSync
  <2>2. Named
    BY <1>1, <2>1 DEF Init, Named, KeysBorn, TasksBorn, SyncsBorn, FiledKnown
  <2>3. Fresh
    BY <1>1, <2>1 DEF Init, Fresh, Offered
  <2> QED BY <1>1, <2>1, <2>2, <2>3 DEF Init, Told, Covered
<1>2. Told /\ Covered => SyncedTrue
  <2> SUFFICES ASSUME Told, Covered, Synchronised, ~Syncing,
                      \A t \in Tasks : task[t].op = "remove" => ~AtWork(t)
               PROVE  creds \ (lost \cup misread) \subseteq filed[key]
    BY DEF SyncedTrue, Synchronised
  <2>1. Owed = {}
    BY ToldParts DEF Syncing, Owed, ToldSyncs
  <2>2. Going = {}
    BY DEF AtWork, Going
  <2> QED BY <2>1, <2>2 DEF Covered, Synchronised
<1> QED BY <1>1, <1>2, TypeCorrect, NamedKeeps, FreshKeeps, ToldKeeps,
           CoveredKeeps, PTL DEF Spec

-----------------------------------------------------------------------------
(* Refinement.                                                             *)

\* The program implements Supervisor: its agents work until they are told to
\* stop and end only then.
THEOREM Implements == Spec => Supervised
<1> DEFINE phase == [r \in Runs |-> Phase(r)]
<1>1. Init => S!Init
  BY DEF Init, S!Init, Phase
<1>2. ASSUME IInv, [Next]_vars
      PROVE  [S!Next]_<<phase, ag>>
  <2>0. AppTyped /\ AgentsTyped
    BY <1>2 DEF IInv, TypeOK
  <2>1. ASSUME UNCHANGED <<pc, stopped, ag>>
        PROVE  UNCHANGED <<phase, ag>>
    BY <2>1 DEF Phase
  <2>2. CASE UNCHANGED vars
    BY <2>1, <2>2 DEF vars, agents
  <2>3. ASSUME NEW t \in Tasks, Call(t) PROVE UNCHANGED <<phase, ag>>
    BY <2>1, <2>3 DEF Call, SetName, ImportConfig, SaveAndRestart,
       SelfRegister, Revoke, Start, Stop, CreateInvite, RemoveClient,
       ChangesCreds, agents
  <2>4. ASSUME NEW t \in Tasks, Proceed(t), ~StopAgent(t), ~Launch(t)
        PROVE  UNCHANGED <<phase, ag>>
    BY <2>1, <2>4 DEF Proceed, Unregister, StopWaited, Provision,
       Provisioned, ProvisionFails, CommitCreds, Enroll, CommitEnroll,
       ClearKey, NewKey, StartAgent, agents
  <2>5. ASSUME NEW t \in Tasks, StopAgent(t)
        PROVE  UNCHANGED <<phase, ag>> \/ \E r \in Runs : S!Tell(r)
    <3>1. ASSUME ag = None \/ stopped[ag] PROVE UNCHANGED <<phase, ag>>
      <4>1. \A r \in Runs : stopped'[r] <=> stopped[r]
        BY <2>0, <2>5, <3>1 DEF StopAgent, Halt, AgentsTyped
      <4>2. UNCHANGED <<pc, ag>>
        BY <2>5 DEF StopAgent
      <4>3. phase' = phase
        BY <4>1, <4>2 DEF Phase
      <4> QED BY <4>2, <4>3
    <3>2. ASSUME ag # None, ~stopped[ag] PROVE \E r \in Runs : S!Tell(r)
      <4>1. /\ ag \in Runs
            /\ stopped' = [stopped EXCEPT ![ag] = TRUE]
            /\ UNCHANGED <<pc, ag>>
            /\ pc[ag] \notin {"none", "done"}
        BY <1>2, <2>0, <2>5, <3>2 DEF StopAgent, Halt, AppTyped, IInv,
           Ordered
      <4>2. phase[ag] = "works" /\ phase' = [phase EXCEPT ![ag] = "told"]
        BY <2>0, <3>2, <4>1 DEF Phase, AgentsTyped
      <4> QED BY <4>1, <4>2 DEF S!Tell
    <3> QED BY <3>1, <3>2
  <2>6. ASSUME NEW t \in Tasks, Launch(t)
        PROVE  \E r \in Runs : S!Start(r)
    <3>1. PICK r \in Runs : /\ pc[r] = "none"
                            /\ pc' = [pc EXCEPT ![r] = "dial"]
                            /\ ag' = r
      BY <2>6 DEF Launch
    <3>2. stopped' = stopped /\ ~stopped[r]
      BY <1>2, <2>6, <3>1 DEF Launch, IInv, Ordered
    <3>3. phase[r] = "off" /\ phase' = [phase EXCEPT ![r] = "works"]
      BY <2>0, <3>1, <3>2 DEF Phase, AgentsTyped
    <3> QED BY <3>1, <3>3 DEF S!Start
  <2>7. ASSUME NEW r \in Runs, Ends(r) PROVE S!End(r)
    <3>1. /\ pc[r] = "over" /\ stopped[r] /\ stopped' = stopped
          /\ pc' = [pc EXCEPT ![r] = "done"]
      BY <1>2, <2>7 DEF Ends, IInv, Ordered
    <3>2. phase[r] = "told" /\ phase' = [phase EXCEPT ![r] = "ended"]
      BY <2>0, <3>1 DEF Phase, AgentsTyped
    <3> QED BY <2>7, <3>2 DEF Ends, S!End
  <2>8. ASSUME NEW r \in Runs, Agent(r), ~Ends(r)
        PROVE  UNCHANGED <<phase, ag>>
    <3>1. UNCHANGED <<stopped, ag>>
      BY <2>8 DEF Agent, Dialled, Connected, Missing, Disconnected, Paused,
                  ReRegister, ReRegistered
    <3>2. PICK a \in {"shake", "serve", "rereg", "again", "pause", "over",
                      "dial"} :
            /\ pc' = [pc EXCEPT ![r] = a]
            /\ pc[r] \notin {"none", "done"}
      BY <2>8 DEF Agent, Dialled, Connected, Missing, Disconnected, Paused,
                  ReRegister, ReRegistered, GoesOn
    <3> QED BY <2>0, <3>1, <3>2 DEF Phase, AgentsTyped
  <2>9. ASSUME NEW s \in Syncs, Sync(s) PROVE UNCHANGED <<phase, ag>>
    BY <2>1, <2>9 DEF Sync, SyncBegin, SyncEnds, SyncOne, Provisioned, agents
  <2>10. ASSUME Outside, ~Restart PROVE UNCHANGED <<phase, ag>>
    BY <2>1, <2>10 DEF Outside, DisconnectNow, Notice, Breaks, Forget, Ban,
                       Controller, Environment, agents
  <2>11. CASE Restart
    BY <2>11 DEF Restart, Phase, S!Next, S!Exit
  <2> QED
    BY <1>2, <2>2, <2>3, <2>4, <2>5, <2>6, <2>7, <2>8, <2>9, <2>10, <2>11
       DEF Next, S!Next
<1> QED BY <1>1, <1>2, InvariantEver, PTL DEF Spec, Supervised, S!Spec
=============================================================================
