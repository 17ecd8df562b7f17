---------------------------- MODULE RecordsProps ----------------------------
(***************************************************************************)
(* What the relay's records are worth, over the module Records.            *)
(***************************************************************************)
EXTENDS Records

\* m says of device d what was last said of it.
AsTold(m, d) ==
    /\ told[d].key # Unknown => m[d].key = told[d].key
    /\ \A c \in Creds :
          told[d].creds[c] # Unknown => m[d].creds[c] = told[d].creds[c]

\* What the relay confirmed is what it goes by and what is on disk, and so what
\* it will know after a restart, until another operation on the same item: a
\* registration, also one it answers without saving, a credential, a deletion,
\* a ban.  The exception is a device that removed itself while the file could
\* not be written: unregister says it is gone, and the file still has it until
\* another operation on the store is written; if none is, it is back after a
\* restart.
Promised == \A d \in Ids :
    /\ AsTold(mem, d)
    /\ d \notin unwritten => AsTold(file, d)
    /\ toldBan[d] # Unknown =>
          (d \in ban) = toldBan[d] /\ (d \in banFile) = toldBan[d]

\* The store passes its capacity only by registrations that had read it
\* together, before any of them was in.
Capped ==
    Cardinality(Listed) <= MaxDevices + Cardinality(Hands) - 1

\* No window of allowRegister, wherever it begins, holds more registrations
\* than the limit.
Paced == \A i \in DOMAIN admits :
    i + MaxRate \in DOMAIN admits =>
        admits[i + MaxRate] >= admits[i] + Window

Twice(n) == \E i, j \in DOMAIN reader.shown :
    i # j /\ reader.shown[i] = n /\ reader.shown[j] = n

\* Paging shows a line twice only if it was written after a line with a later
\* stamp, at which a page had ended.
PagedOnce == \A i \in DOMAIN log :
    Twice(log[i].n) =>
        \E e \in reader.ends : e[1] < log[i].n /\ e[2] > log[i].time

\* Paging to the end misses a line that was there only if a page ended at a
\* line written after it, in the same second or stamped before it, or if the
\* line lay further back than the last 2 MB when the last page was asked for.
PagedAll ==
    reader.on /\ ~reader.more =>
        \A i \in DOMAIN log :
            log[i].n \in reader.first =>
                \/ log[i].n \in Range(reader.shown)
                \/ \E e \in reader.ends : e[1] > log[i].n /\ e[2] <= log[i].time
                \/ log[i].n \in reader.beyond
=============================================================================
