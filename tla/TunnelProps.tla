---------------------------- MODULE TunnelProps ----------------------------
(***************************************************************************)
(* What the relay core promises, over the module Tunnel.                   *)
(***************************************************************************)
EXTENDS Tunnel

\* Where a goroutine stands fixes what its locals hold: a connection past its
\* first frame names a device, one past its hello has a kind, an agent that is
\* revoking holds a credential, and a request in progress has its arguments.
Placed ==
    /\ \A c \in Conns :
         /\ pc[c] # "idle" => who[c].dev \in Devices
         /\ pc[c] \notin {"idle", "registering"} => who[c].kind \in Kinds
         /\ pc[c] \in {"revoke", "del"} => who[c].kind = "agent"
         /\ pc[c] = "revoke" => who[c].id \in Creds
    /\ \A x \in Admins :
         /\ task[x].op # "none" => task[x].dev \in Devices
         /\ task[x].op \in {"off.kick", "off.presence"} => task[x].id \in Creds

\* The goroutine that replaced c in the map is about to close it.
Doomed(c) == \E e \in Conns : old[e] = c

\* One controller at a time: of two open connections of the same kind on one
\* device, at least one is about to be closed by the goroutine that replaced
\* it.  (register: "only the newest connection is kept".)
Exclusive ==
    \A c, e \in Conns :
        /\ c # e
        /\ pc[c] \in InMap /\ open[c]
        /\ pc[e] \in InMap /\ open[e]
        /\ who[c].dev = who[e].dev /\ who[c].kind = who[e].kind
        => Doomed(c) \/ Doomed(e)

\* The registry never shows a connection whose goroutine has ended, or one of
\* another device or role: a slot cannot stay occupied by nobody.
NoGhost ==
    \A k \in Kinds, d \in Devices :
        slot[k][d] # None =>
            /\ pc[slot[k][d]] \in InMap
            /\ who[slot[k][d]].kind = k
            /\ who[slot[k][d]].dev = d

\* What a kick, a notice or a decision without a kick has passed over.
Excused == slipped \cup spared

\* A controller in the map that is open has nothing against it: its device
\* is not disabled, in cooldown or deleted and its credential not revoked or
\* disabled.  Two kinds are let off.  One was past its checks and not yet in
\* the map when the kick ran (`slipped`).  The other was past its checks, in
\* the map or not, when a decision was made that kicks nobody (`spared`): the
\* deletion by forget, whose look at who is online may be overtaken, and a
\* ban, revocation or disabling that could not be written to disk, which
\* holds in memory although the request fails.  Nobody who is checked after
\* any of these gets in.
ControllerPermitted ==
    \A d \in Devices, c \in Conns :
        slot["client"][d] = c /\ open[c] =>
            \/ c \in Excused
            \/ bars[d] \cap {"ban", "cool", "gone", who[c].id} = {}

\* The same for the presence connection of a disabled device, and until the
\* second kick of the ban.
PresencePermitted ==
    \A d \in Devices, c \in Conns :
        /\ slot["presence"][d] = c
        /\ open[c]
        /\ "ban" \in bars[d]
        => \/ c \in Excused
           \/ \E x \in Admins : task[x].op = "ban.presence" /\ task[x].dev = d

\* Nothing is in progress on device d.
AtRest(d) ==
    /\ \A c \in Conns : who[c].dev = d => pc[c] = "serve"
    /\ \A x \in Admins : task[x].dev # d

\* A paired agent and controller that have reached their frame loops have each
\* been told that the other is there: register announces the peer in both
\* directions whatever the two goroutines interleave with.
Introduced ==
    \A d \in Devices, a, c \in Conns :
        /\ slot["agent"][d] = a
        /\ slot["client"][d] = c
        /\ pc[a] = "serve"
        /\ pc[c] = "serve"
        => c \in met[a] /\ a \in met[c]

\* When nothing is in progress, an agent of a disabled device was told so,
\* unless it was between its handshake and the map when the notice was sent,
\* an enabling request that had been overtaken spoke last, or the ban could
\* not be written to disk, which sends no notice.
NoticeCurrent ==
    \A d \in Devices, a \in Conns :
        /\ slot["agent"][d] = a
        /\ open[a]
        /\ "ban" \in bars[d]
        /\ AtRest(d)
        => told[a] = "disabled" \/ a \in Excused

\* A map entry is only ever taken by a connection that has just proved itself,
\* or given up by its holder: the late end of a replaced connection does not
\* take its successor with it.
OwnEntryOnly ==
    [][\A k \in Kinds, d \in Devices :
          slot'[k][d] # slot[k][d] =>
              \/ \E c \in Conns : /\ slot'[k][d] = c
                                  /\ pc[c] = "verified"
                                  /\ pc'[c] = "evict"
              \/ /\ slot'[k][d] = None
                 /\ pc[slot[k][d]] = "unreg"]_vars

\* A closed connection leaves the map, whatever the others do: kicked, evicted
\* and broken connections free the device.
ClosedLeaves ==
    \A c \in Conns, k \in Kinds, d \in Devices :
        (slot[k][d] = c /\ ~open[c]) ~> (slot[k][d] # c)

-----------------------------------------------------------------------------
(* What a comment of the code says and the code does not keep: TLC refutes  *)
(* it.                                                                      *)

\* web.go: a disabled device refuses connections; the handler has returned,
\* and not with an error.
DisabledKeepsOut ==
    \A d \in Devices, c \in Conns :
        /\ slot["client"][d] = c
        /\ "ban" \in bars[d]
        /\ c \notin spared
        /\ AtRest(d)
        => ~open[c]
=============================================================================
