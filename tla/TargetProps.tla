---------------------------- MODULE TargetProps -----------------------------
(***************************************************************************)
(* What a controller's target promises its user, over the module Target.   *)
(***************************************************************************)
EXTENDS Target

\* A target that is not stopped has a loop at work, and one that stands by has
\* a standby loop: otherwise start() and startPresence(), which look only at
\* the flags, would refuse to begin a new one for ever.  A target never stands
\* by while it controls.
NeverDead ==
    /\ ~stopped => \E l \in Loops : pc[l] # "none"
    /\ presenceOn => stopped /\ \E p \in Standbys : ppc[p] # "none"

\* No request is forgotten: a caller that waits has its request in flight, or
\* in the queue with something left to call pump().
NobodyForgotten ==
    \A j \in Jobs :
        fate[j] = "pending" <=>
            \/ inflight = j
            \/ j \in Range(queue) /\ (inflight # None \/ timer)

\* So every caller is answered or told of a failure, whatever the network
\* does and whenever the target is stopped, renamed or removed.
RequestsSettle == \A j \in Jobs : (fate[j] = "pending") ~> (fate[j] = "settled")

Live(l) == sock[l] \in {"open", "silent"}

\* As long as loops run one after the other and stop() finds no loop
\* dialling, what the panel shows is what is there: a target that was stopped
\* holds no connection, one said to be connected has one, and a session
\* belongs to the connection in use.  The last two are not kept when the last
\* stop() came while a loop awaited the write of its handshake (`late`): that
\* loop goes on, and shows the stopped target as connected until it is started
\* or stopped again.
Honest ==
    ~overlapped /\ ~cut =>
        /\ stopped => \A l \in Loops : ~Live(l)
        /\ ~late =>
             /\ state \in {"waiting", "online"} =>
                    conn # None /\ pc[conn] \in Reading
             /\ session # None =>
                    session = conn /\ (state = "online" \/ pc[conn] = "greet")

\* A connection whose far end has vanished is closed in the end, unless
\* another loop has come between it and the keepalive they share.
SilenceFound ==
    \A l \in Loops :
        (pc[l] = "read" /\ sock[l] = "silent" /\ ~overlapped) ~>
            (sock[l] # "silent" \/ overlapped)

-----------------------------------------------------------------------------
(* What Honest rests on: with one loop at a time, the fields that the loops *)
(* share are that loop's.  A loop has a connection while it shakes hands   *)
(* and reads; the target has the same one until it is closed, and no       *)
(* stopped target's loop is about to open another.                         *)

Calm == ~overlapped /\ ~cut

Alone == \A l, k \in Loops : pc[l] # "none" /\ pc[k] # "none" => l = k

Owned ==
    /\ \A l \in Loops : sock[l] # "none" <=> pc[l] \in {"hello"} \cup Reading
    /\ \A l \in Loops : sock[l] \in {"open", "silent"} => conn = l
    /\ conn # None => sock[conn] # "none"
    /\ session # None => pc[session] \in Reading

Hushed == stopped => conn = None /\ \A l \in Loops : pc[l] # "dial"

Shown ==
    ~late =>
        /\ state \in {"waiting", "online"} => conn # None /\ pc[conn] \in Reading
        /\ session # None =>
               session = conn /\ (state = "online" \/ pc[conn] = "greet")

\* Frames are left in a buffer only if the last stop came while a loop wrote.
Leftover == \A l \in Loops : sock[l] = "left" => late

Held == Alone /\ Owned /\ Hushed /\ Shown /\ Leftover

HonestInv == Calm => Held

-----------------------------------------------------------------------------
(* What comments of the code say and the code does not keep; each is the   *)
(* subject of a run that TLC refutes.                                      *)

\* client.mjs, above Manager: at most one long connection per device.
OneConnection == \A l, k \in Loops : Live(l) /\ Live(k) => l = k

\* client.mjs, manualOff: a target disconnected by hand stays disconnected
\* until it is connected again.
StaysOff ==
    manualOff /\ stopped =>
        \A l \in Loops : ~(pc[l] = "read" /\ sock[l] = "open")
=============================================================================
