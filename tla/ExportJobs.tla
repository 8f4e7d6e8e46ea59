------------------------------- MODULE ExportJobs -------------------------------
(***************************************************************************)
(* Exports that run in the background: the request that queues one         *)
(* (app/api/routes/exports.py, app/services/export_job_service.py) behind  *)
(* a rate limit and an idempotency key (app/core), and the export workers  *)
(* (app/workers/export_worker.py).  All of it is kept in redis.            *)
(*                                                                         *)
(* Each step is one command to redis, but for TrackJob.  A request that    *)
(* gets an error stops where it is, as it does when its process dies; what *)
(* it has written stays.  (In development the rate limiter then falls back *)
(* to a counter in memory, which is left out.)  Workers only ever read new *)
(* entries of their group: what a worker had read and not acknowledged     *)
(* when it stopped stays pending.                                          *)
(*                                                                         *)
(* Requests are numbered as they arrive, a job like the request that made  *)
(* it.                                                                     *)
(***************************************************************************)
EXTENDS Naturals, Sequences, FiniteSets

CONSTANTS Workers,
          Keys,         \* idempotency keys of one owner, design and format
          NoKey,        \* a request without one
          MaxRequests,  \* bound on the requests of one user
          Limit,        \* requests a user may make within the window
          BatchSize,    \* settings.export_batch_size
          MaxFaults,    \* bound on errors of redis and deaths of processes
          MaxExpiries   \* bound on the keys and job records that expire

ASSUME ExportAssumption ==
    /\ MaxRequests \in Nat /\ Limit \in Nat \ {0} /\ BatchSize \in Nat \ {0}
    /\ MaxFaults \in Nat /\ MaxExpiries \in Nat
    /\ NoKey \notin Keys

Requests == 1..MaxRequests

VARIABLES
    count,     \* the user's counter, 0 if there is none
    ttl,       \* it has a time to live
    request,   \* the next command of each request, or how it ended
    key,       \* its idempotency key
    taken,     \* keys in redis
    record,    \* status of the job records
    owned,     \* records that name workspace and user
    tracked,   \* jobs in the user's list in the job center
    stream,    \* jobs in the export stream
    lastRead,  \* the group's last-delivered-id
    batch,     \* entries each worker has yet to finish
    at,        \* where it is in the first of them
    existing,  \* the owner it found in the record
    lapsed,    \* keys that expired, per key
    expired,   \* jobs whose record expired
    faults

limiter == <<count, ttl>>
idem    == <<key, taken, lapsed>>
jobs    == <<record, owned, tracked, expired>>
queue   == <<stream, lastRead>>
worker  == <<batch, at, existing>>
vars    == <<limiter, request, idem, jobs, queue, worker, faults>>

UnderWay == {"expire", "key", "load", "record", "track", "add"}
Ended    == {"limited", "conflict", "failed", "answered"}
Status   == {"none", "queued", "running", "completed", "failed"}
Location == {"idle", "load", "run", "render", "fail", "ack"}

Init ==
    /\ count = 0 /\ ttl = FALSE
    /\ request = [r \in Requests |-> "new"]
    /\ key = [r \in Requests |-> NoKey] /\ taken = {} /\ lapsed = [k \in Keys |-> 0]
    /\ record = [j \in Requests |-> "none"] /\ owned = {} /\ tracked = {} /\ expired = {}
    /\ stream = <<>> /\ lastRead = 0
    /\ batch = [w \in Workers |-> {}]
    /\ at = [w \in Workers |-> "idle"]
    /\ existing = [w \in Workers |-> FALSE]
    /\ faults = 0

Fault == faults < MaxFaults /\ faults' = faults + 1

Goes(r, step) == request' = [request EXCEPT ![r] = step]

-----------------------------------------------------------------------------
(* enforce_rate_limit: INCR; who finds 1 gives the counter a time to live. *)

(* Deliberately wrong: only the last request within the limit does.        *)
OpensAtLimit(n) == n = Limit

Opens(n) == n = 1

Count(r, k) ==
    /\ request[r] = "new" /\ \A q \in 1..r - 1 : request[q] # "new"
    /\ count' = count + 1
    /\ key' = [key EXCEPT ![r] = k]
    /\ Goes(r, IF Opens(count') THEN "expire" ELSE IF count' > Limit THEN "limited" ELSE "key")
    /\ UNCHANGED <<ttl, taken, lapsed, jobs, queue, worker, faults>>

Expire(r) ==
    /\ request[r] = "expire"
    /\ ttl' = (count > 0)
    /\ Goes(r, "key")
    /\ UNCHANGED <<count, idem, jobs, queue, worker, faults>>

WindowEnds ==
    /\ ttl
    /\ count' = 0 /\ ttl' = FALSE
    /\ UNCHANGED <<request, idem, jobs, queue, worker, faults>>

-----------------------------------------------------------------------------
(* enforce_idempotency: SET NX, before any of the work is done.            *)

(* Deliberately wrong: the key is set and nobody looks.                    *)
FreeAlways(k) == k \in Keys

Free(k) == k \notin taken

TakeKey(r) ==
    /\ request[r] = "key"
    /\ IF key[r] = NoKey \/ Free(key[r])
       THEN taken' = taken \cup ({key[r]} \ {NoKey}) /\ Goes(r, "load")
       ELSE Goes(r, "conflict") /\ UNCHANGED taken
    /\ UNCHANGED <<limiter, key, lapsed, jobs, queue, worker, faults>>

(* An error of redis lets the request pass; the key may have been set.     *)
KeyUnchecked(r) ==
    /\ request[r] = "key" /\ key[r] # NoKey
    /\ Fault
    /\ taken' \in {taken, taken \cup {key[r]}}
    /\ Goes(r, "load")
    /\ UNCHANGED <<limiter, key, lapsed, jobs, queue, worker>>

Expiries == Cardinality(expired) + Cardinality(UNION {{k} \X (1..lapsed[k]) : k \in Keys})

KeyExpires(k) ==
    /\ k \in taken /\ Expiries < MaxExpiries
    /\ taken' = taken \ {k}
    /\ lapsed' = [lapsed EXCEPT ![k] = @ + 1]
    /\ UNCHANGED <<limiter, request, key, jobs, queue, worker, faults>>

-----------------------------------------------------------------------------
(* create_design_export_job: a design without an output is an error.       *)
LoadDesign(r) ==
    /\ request[r] = "load"
    /\ Goes(r, "record") \/ Goes(r, "failed")
    /\ UNCHANGED <<limiter, idem, jobs, queue, worker, faults>>

(* enqueue_export_job: the record, the job center, the stream.             *)
SetQueued(r) ==
    /\ request[r] = "record"
    /\ record' = [record EXCEPT ![r] = "queued"]
    /\ owned' = owned \cup {r}
    /\ Goes(r, "track")
    /\ UNCHANGED <<limiter, idem, tracked, expired, queue, worker, faults>>

(* LPUSH, LTRIM, EXPIRE: an error after the first is one before the next   *)
(* command.                                                                *)
TrackJob(r) ==
    /\ request[r] = "track"
    /\ tracked' = tracked \cup {r}
    /\ Goes(r, "add")
    /\ UNCHANGED <<limiter, idem, record, owned, expired, queue, worker, faults>>

Enqueue(r) ==
    /\ request[r] = "add"
    /\ stream' = Append(stream, r)
    /\ \/ Goes(r, "answered") /\ UNCHANGED faults
       \/ Goes(r, "failed") /\ Fault
    /\ UNCHANGED <<limiter, idem, jobs, lastRead, worker>>

(* An error of redis, or the end of the process, before the next command.  *)
RequestFails(r) ==
    /\ request[r] \in UnderWay
    /\ Fault
    /\ Goes(r, "failed")
    /\ UNCHANGED <<limiter, idem, jobs, queue, worker>>

(* A record expires an hour after it was last set.                         *)
RecordExpires(j) ==
    /\ record[j] # "none" /\ Expiries < MaxExpiries
    /\ record' = [record EXCEPT ![j] = "none"]
    /\ owned' = owned \ {j}
    /\ expired' = expired \cup {j}
    /\ UNCHANGED <<limiter, request, idem, tracked, queue, worker, faults>>

-----------------------------------------------------------------------------
FirstOf(S) == CHOOSE e \in S : \A f \in S : e <= f

Job(w) == stream[FirstOf(batch[w])]

Moves(w, step) == at' = [at EXCEPT ![w] = step]

(* process_once reads what nobody has read, and nothing else.              *)
ReadNew(w) ==
    /\ at[w] = "idle" /\ lastRead < Len(stream)
    /\ \E last \in lastRead + 1..Len(stream) :
         /\ last <= lastRead + BatchSize
         /\ lastRead' = last
         /\ batch' = [batch EXCEPT ![w] = lastRead + 1..last]
    /\ Moves(w, "load")
    /\ UNCHANGED <<limiter, request, idem, jobs, stream, existing, faults>>

(* process_export_job looks for the owner in the record first.             *)
LoadJob(w) ==
    /\ at[w] = "load"
    /\ existing' = [existing EXCEPT ![w] = Job(w) \in owned]
    /\ Moves(w, "run")
    /\ UNCHANGED <<limiter, request, idem, jobs, queue, batch, faults>>

(* Deliberately wrong: the owner is not carried over.                      *)
OwnersForgotten(w) == owned \ {Job(w)}

(* Every write replaces the record, its owner by what was found.           *)
Owners(w) == IF existing[w] THEN owned \cup {Job(w)} ELSE owned \ {Job(w)}

Write(w, status) ==
    /\ record' = [record EXCEPT ![Job(w)] = status]
    /\ owned' = Owners(w)

SetRunning(w) ==
    /\ at[w] = "run"
    /\ Write(w, "running")
    /\ Moves(w, "render")
    /\ UNCHANGED <<limiter, request, idem, tracked, expired, queue, batch, existing, faults>>

(* Rendering ends in a document or in an error.                            *)
Render(w) ==
    /\ at[w] = "render"
    /\ \/ Write(w, "completed") /\ Moves(w, "ack")
       \/ Moves(w, "fail") /\ UNCHANGED <<record, owned>>
    /\ UNCHANGED <<limiter, request, idem, tracked, expired, queue, batch, existing, faults>>

SetFailed(w) ==
    /\ at[w] = "fail"
    /\ Write(w, "failed")
    /\ Moves(w, "ack")
    /\ UNCHANGED <<limiter, request, idem, tracked, expired, queue, batch, existing, faults>>

(* A command fails: while the job runs the record is set to failed, and    *)
(* otherwise the entry is acknowledged with the record as it is.           *)
CommandFails(w) ==
    /\ \/ at[w] \in {"run", "render"} /\ Moves(w, "fail")
       \/ at[w] \in {"load", "fail"} /\ Moves(w, "ack")
    /\ Fault
    /\ UNCHANGED <<limiter, request, idem, jobs, queue, batch, existing>>

(* XACK, and the next entry of the batch.                                  *)
Ack(w) ==
    /\ at[w] = "ack"
    /\ batch' = [batch EXCEPT ![w] = @ \ {FirstOf(@)}]
    /\ Moves(w, IF Cardinality(batch[w]) = 1 THEN "idle" ELSE "load")
    /\ UNCHANGED <<limiter, request, idem, jobs, queue, existing, faults>>

(* A worker that dies, or whose XACK fails, never comes back to its batch. *)
Abandon(w) ==
    /\ at[w] # "idle"
    /\ Fault
    /\ batch' = [batch EXCEPT ![w] = {}]
    /\ Moves(w, "idle")
    /\ UNCHANGED <<limiter, request, idem, jobs, queue, existing>>

-----------------------------------------------------------------------------
RequestStep ==
    \/ \E r \in Requests :
         \/ \E k \in Keys \cup {NoKey} : Count(r, k)
         \/ Expire(r) \/ TakeKey(r) \/ KeyUnchecked(r) \/ LoadDesign(r)
         \/ SetQueued(r) \/ TrackJob(r) \/ Enqueue(r) \/ RequestFails(r)
         \/ RecordExpires(r)
    \/ \E k \in Keys : KeyExpires(k)
    \/ WindowEnds

WorkerStep ==
    \E w \in Workers :
        \/ ReadNew(w) \/ LoadJob(w) \/ SetRunning(w) \/ Render(w) \/ SetFailed(w)
        \/ CommandFails(w) \/ Ack(w) \/ Abandon(w)

Next == RequestStep \/ WorkerStep

Spec == Init /\ [][Next]_vars

-----------------------------------------------------------------------------
TypeOK ==
    /\ count \in Nat /\ ttl \in BOOLEAN
    /\ request \in [Requests -> {"new"} \cup UnderWay \cup Ended]
    /\ key \in [Requests -> Keys \cup {NoKey}]
    /\ taken \subseteq Keys /\ lapsed \in [Keys -> Nat]
    /\ record \in [Requests -> Status]
    /\ owned \subseteq Requests /\ expired \subseteq Requests
    /\ tracked \subseteq Requests
    /\ stream \in Seq(Requests) /\ lastRead \in 0..Len(stream)
    /\ batch \in [Workers -> SUBSET (1..lastRead)]
    /\ at \in [Workers -> Location]
    /\ existing \in [Workers -> BOOLEAN]
    /\ faults \in 0..MaxFaults

(* A counter that never expires would lock its user out for good: only a   *)
(* fault between INCR and EXPIRE leaves one behind.                        *)
LimitExpires == count > 0 /\ ~ttl => faults > 0 \/ \E r \in Requests : request[r] = "expire"

(* Requests with the same key, one after the other or at once, make one    *)
(* job, unless the key expired or redis could not tell.                    *)
Admitted(k) == {r \in Requests : key[r] = k /\ request[r] \in {"load", "record", "track", "add", "answered"}}

OneJobPerKey == \A k \in Keys : Cardinality(Admitted(k)) <= 1 + lapsed[k] + faults

(* get_design_export_job_status and download_design_export_job: whoever    *)
(* asked for a job can fetch it.                                           *)
Downloadable(j) == record[j] = "completed" /\ j \in owned

Waiting(j) ==
    \/ request[j] \in {"track", "add"}
    \/ \E e \in lastRead + 1..Len(stream) : stream[e] = j
    \/ \E w \in Workers : \E e \in batch[w] : stream[e] = j

Settled(j) == record[j] \in {"none", "failed"} \/ Downloadable(j)

(* Every job that nobody is working on any more was settled, or lost to a  *)
(* fault; a fault loses at most what one worker had read.  A record that   *)
(* expired while its job was waiting comes back without its owner.         *)
StuckNeedsFaults ==
    Cardinality({j \in Requests : ~Settled(j) /\ ~Waiting(j)})
        <= BatchSize * faults + Cardinality(expired)

=============================================================================
