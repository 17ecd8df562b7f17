------------------------------ MODULE MCTunnel ------------------------------
(***************************************************************************)
(* Small instances of Tunnel for TLC.  Connections are interchangeable,    *)
(* and so are administrators: both are used as symmetry sets by the runs   *)
(* that check safety only.                                                 *)
(***************************************************************************)
EXTENDS TunnelProps, TLC

\* Bound: two administrators are at work at once only where their bans meet,
\* on a device without credentials whose connections are agents', and all
\* that was decided was written to disk.
BansMeet ==
    \A x, y \in Admins :
        x # y /\ task[x].op # "none" /\ task[y].op # "none" =>
            /\ \A z \in {x, y} :
                  task[z].op \in {"ban.kick", "ban.presence", "ban.notify",
                                 "unban.notify"}
            /\ spared = {}
            /\ creds[task[x].dev] = {}
            /\ \A c \in Conns : who[c].kind \in {"none", "agent"}

\* Bound: not both a connection that a kick missed and one that a decision
\* without a kick left alone.
OneLapse == slipped = {} \/ spared = {}

Interchangeable == Permutations(Conns) \cup Permutations(Admins)
=============================================================================
