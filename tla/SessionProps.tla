---------------------------- MODULE SessionProps ----------------------------
(***************************************************************************)
(* What the end-to-end session over the relay promises.                    *)
(***************************************************************************)
EXTENDS Session

\* Both programs are served, for the same device, everybody has read what was
\* sent to it, and no goroutine of the hub has anything left to say.
Settled ==
    /\ \A p \in Programs :
         /\ link[p] # None
         /\ open[link[p]]
         /\ pc[link[p]] = "serve"
         /\ toHub[link[p]] = <<>>
         /\ toFar[link[p]] = <<>>
    /\ who[link["agent"]].dev = who[link["client"]].dev
    /\ \A c \in Conns : pc[c] \in {"idle", "serve"}
    /\ \A c \in Conns : pc[c] = "serve" => \E p \in Programs : link[p] = c

\* The two ends hold a session and it is the same one.
InSession == aSession # NoSession /\ aSession.key = cSession.key

\* Whatever the interleaving of registrations, notices and handshakes, a pair
\* that has come to rest can talk, as long as every connection was over, its
\* last notice written, before its program's next one took the slot.
AgreeInTurn == Settled /\ ~overlapped => InSession

\* tunnel.go, register: a reconnection replaces the connection it follows.
AgreeAlways == Settled => InSession

\* While both ends hold the same session, neither expects a sequence number the
\* other has already passed: a session derived twice from the same keys starts
\* again at zero, and everything sent would be refused as a replay.
WindowsOpen ==
    aSession # NoSession /\ aSession.key = cSession.key =>
        /\ cSession.lastRecvSeq <= aSession.sendSeq
        /\ aSession.lastRecvSeq <= cSession.sendSeq

\* Requests keep the promises of Calls over reconnections, lost frames,
\* timeouts and re-keying: answered only if carried out, carried out at most
\* once and in order, never after a rejection.
C == INSTANCE Calls
CallsHold == C!CallsSpec
=============================================================================
