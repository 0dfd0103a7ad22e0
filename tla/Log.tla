-------------------------------- MODULE Log --------------------------------
(***************************************************************************)
(* The log that govisor keeps of a service, or of its manager (log.go): a  *)
(* ring of the latest records and an id that grows with every record.  It  *)
(* is read by requests of REST clients (server/server.go): a request       *)
(* carries the Etag of the client's copy, may wait in Watch until the id   *)
(* is another one, and is answered with the records only if it is.  Module *)
(* LogView has the client.                                                 *)
(*                                                                         *)
(* A record is written at a time of its own, the presumption of Clear      *)
(* (log.go:82-83); the time stands for its text.  Write, Clear and         *)
(* GetRecords are atomic, they hold the lock.  Write allocates the ring    *)
(* without it, but the one logger that writes to a Log calls it one at a   *)
(* time.                                                                   *)
(***************************************************************************)
EXTENDS Integers, Sequences, FiniteSetsExt

CONSTANTS
    Reader,      \* the connections requests come from, one at a time each
    MaxRecords,  \* the size of the ring
    MaxBatch,    \* bound: lines in one Write
    MaxTime      \* bound: the clock stops here

ASSUME LogAssumption ==
    MaxRecords \in Nat \ {0} /\ MaxBatch \in Nat \ {0} /\ MaxTime \in Nat

VARIABLES
    now,         \* time.Now().UnixNano()
    id,          \* log.id
    numRecords,  \* log.numRecords: where the next record goes
    records,     \* log.records
    written,     \* ghost: every record since the log was cleared
    pc,          \* where the request of a reader is
    expired,     \* the `expired` variable of its Watch
    old,         \* the Etag it came with
    sent         \* its response

logVars == <<now, id, numRecords, records, written>>
callVars == <<expired, old, sent>>
vars == <<logVars, pc, callVars>>

NoTag == -1
Tag == NoTag .. MaxTime
LogRecord == [Id : Int, Time : 0 .. MaxTime]
Blank == [Id |-> 0, Time |-> 0]
NoAnswer == [tag |-> NoTag, modified |-> FALSE, recs |-> <<>>]
Calling == {"called", "asleep", "woken"}   \* in Log.Watch

TypeOK ==
    /\ now \in 0 .. MaxTime
    /\ id \in 0 .. now   \* no more than one record a tick
    /\ numRecords \in Nat
    /\ records \in [0 .. MaxRecords - 1 -> LogRecord]
    /\ written \in Seq(LogRecord)
    /\ pc \in [Reader -> {"away", "back", "sent"} \cup Calling]
    /\ expired \in [Reader -> BOOLEAN]
    /\ old \in [Reader -> Tag]
    /\ sent \in [Reader -> [tag : Tag, modified : BOOLEAN, recs : Seq(LogRecord)]]

\* NewLog; there are no requests.
Init ==
    /\ now = 0 /\ id = 0 /\ numRecords = 0
    /\ records = [i \in 0 .. MaxRecords - 1 |-> Blank]
    /\ written = <<>>
    /\ pc = [r \in Reader |-> "away"]
    /\ expired = [r \in Reader |-> FALSE]
    /\ old = [r \in Reader |-> NoTag]
    /\ sent = [r \in Reader |-> NoAnswer]

-----------------------------------------------------------------------------
\* Log.Write with n lines.
Line(j) == [Id |-> id + j, Time |-> now + j]

PutInRing(n) ==
    records' = [i \in DOMAIN records |->
                  LET here == {j \in 1 .. n : (numRecords + j - 1) % MaxRecords = i}
                  IN IF here = {} THEN records[i] ELSE Line(Max(here))]

Broadcast(rs) ==
    pc' = [r \in Reader |->
             IF r \in rs /\ pc[r] = "asleep" THEN "woken" ELSE pc[r]]

CountedInRing(n) == (numRecords + n) % MaxRecords  \* mutant: a position, not a count
Counted(n) == numRecords + n

WakeNobody == UNCHANGED pc  \* mutant: no broadcast
WakeReaders == Broadcast(Reader)

Write(n) ==
    /\ now + n <= MaxTime
    /\ now' = now + n
    /\ PutInRing(n)
    /\ id' = id + n
    /\ numRecords' = Counted(n)
    /\ written' = written \o [j \in 1 .. n |-> Line(j)]
    /\ WakeReaders
    /\ UNCHANGED callVars

\* Log.Clear: a new id, but no broadcast.
Clear ==
    /\ now < MaxTime
    /\ now' = now + 1
    /\ id' = now'
    /\ numRecords' = 0
    /\ written' = <<>>
    /\ UNCHANGED <<records, pc, callVars>>

\* Log.GetRecords: the records that are in the ring, the oldest first.
Kept ==
    LET cnt == IF numRecords > MaxRecords THEN MaxRecords ELSE numRecords
    IN [j \in 1 .. cnt |-> records[(numRecords - cnt + j - 1) % MaxRecords]]

-----------------------------------------------------------------------------
(* Handler.getLog.                                                         *)

\* A request with an Etag, or none, and a time to wait, or none: Log.Watch up to
\* the lock.  Without a time it is only a look.
Request(r, tag, wait) ==
    /\ pc[r] = "away"
    /\ pc' = [pc EXCEPT ![r] = "called"]
    /\ old' = [old EXCEPT ![r] = tag]
    /\ expired' = [expired EXCEPT ![r] = ~wait]
    /\ UNCHANGED <<logVars, sent>>

\* Log.Watch with the lock, for the first time or after a broadcast.
Look(r) ==
    /\ pc[r] \in {"called", "woken"}
    /\ pc' = [pc EXCEPT ![r] =
                IF id # old[r] \/ expired[r] THEN "back" ELSE "asleep"]
    /\ UNCHANGED <<logVars, callVars>>

\* The timer of the call.
Expire(r) ==
    /\ pc[r] \in Calling /\ ~expired[r]
    /\ expired' = [expired EXCEPT ![r] = TRUE]
    /\ Broadcast({r})
    /\ UNCHANGED <<logVars, old, sent>>

\* After Watch: the records and their id, read at once, or "not modified".
getLog(r) ==
    /\ pc[r] = "back"
    /\ pc' = [pc EXCEPT ![r] = "sent"]
    /\ sent' = [sent EXCEPT ![r] =
                  [tag |-> id, modified |-> id # old[r],
                   recs |-> IF id # old[r] THEN Kept ELSE <<>>]]
    /\ UNCHANGED <<logVars, expired, old>>

\* The client has the response, or does not want it any more.
Hangup(r) ==
    /\ pc' = [pc EXCEPT ![r] = "away"]
    /\ expired' = [expired EXCEPT ![r] = FALSE]
    /\ old' = [old EXCEPT ![r] = NoTag]
    /\ sent' = [sent EXCEPT ![r] = NoAnswer]
    /\ UNCHANGED logVars

Serving(r) == Look(r) \/ Expire(r) \/ getLog(r)
Logging == Clear \/ \E n \in 1 .. MaxBatch : Write(n)

-----------------------------------------------------------------------------
(* Properties.                                                             *)

\* The ring holds the latest records, in the order they were written, however
\* often it has wrapped and whatever it held before it was cleared.
KeepsTheLatest ==
    LET n == Len(written) IN
    Kept = SubSeq(written, IF n > MaxRecords THEN n - MaxRecords + 1 ELSE 1, n)

\* No record is slept through.  A Clear alone does not wake a reader, the first
\* record after it does.
NoRecordSleptThrough ==
    \A r \in Reader :
        pc[r] = "asleep" /\ written # <<>> => id = old[r] /\ ~expired[r]
=============================================================================
