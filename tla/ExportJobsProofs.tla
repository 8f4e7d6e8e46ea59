--------------------------- MODULE ExportJobsProofs ---------------------------
(***************************************************************************)
(* Proofs about ExportJobs, for any workers and keys, any number of        *)
(* requests, any limit and batch size, and any number of faults and        *)
(* expiries.                                                               *)
(***************************************************************************)
EXTENDS ExportJobs, FiniteSetTheorems, WellFoundedInduction, TLAPS

USE ExportAssumption

(* What keeps admitting a second request under one key: the key itself, as *)
(* long as it has not expired.                                             *)
Holders(k) == IF k \in taken THEN 1 ELSE 0

KeysCounted ==
    \A k \in Keys : Cardinality(Admitted(k)) <= Holders(k) + lapsed[k] + faults

BusyHasEntry == \A w \in Workers : at[w] # "idle" => batch[w] # {}

ExportInv ==
    /\ TypeOK
    /\ BusyHasEntry
    /\ LimitExpires
    /\ KeysCounted

-----------------------------------------------------------------------------
LEMMA QueueTyped ==
    ASSUME TypeOK
    PROVE  /\ stream \in Seq(Requests) /\ Len(stream) \in Nat
           /\ lastRead \in Nat /\ lastRead <= Len(stream)
           /\ \A w \in Workers : batch[w] \in SUBSET (1..lastRead)
           /\ \A e \in 1..lastRead : stream[e] \in Requests
<1>1. stream \in Seq(Requests) /\ Len(stream) \in Nat
  BY DEF TypeOK
<1>2. lastRead \in Nat /\ lastRead <= Len(stream)
  BY <1>1 DEF TypeOK
<1>3. \A e \in 1..lastRead : stream[e] \in Requests
  BY <1>1, <1>2
<1> QED
  BY <1>1, <1>2, <1>3 DEF TypeOK

LEMMA JobTyped ==
    ASSUME TypeOK, BusyHasEntry, NEW w \in Workers, at[w] # "idle"
    PROVE  FirstOf(batch[w]) \in batch[w] /\ Job(w) \in Requests
<1>1. batch[w] \in SUBSET Nat /\ batch[w] # {} /\ batch[w] \subseteq 1..lastRead
  BY QueueTyped DEF BusyHasEntry
<1>2. \E e \in batch[w] : \A f \in batch[w] : e <= f
  <2>1. PICK e \in batch[w] : \A f \in batch[w] : <<f, e>> \notin OpToRel(<, Nat)
    BY <1>1, NatLessThanWellFounded, WFMin
  <2>2. \A f \in batch[w] : ~(f < e)
    BY <1>1, <2>1 DEF OpToRel
  <2>3. ASSUME NEW f \in batch[w] PROVE e <= f
    <3>1. e \in Nat /\ f \in Nat /\ ~(f < e)
      BY <1>1, <2>1, <2>2
    <3> QED
      BY <3>1
  <2> QED
    BY <2>1, <2>3
<1>3. FirstOf(batch[w]) \in batch[w]
  BY <1>2 DEF FirstOf
<1> QED
  BY <1>1, <1>3, QueueTyped DEF Job

LEMMA TypeInit == Init => TypeOK /\ BusyHasEntry
<1> SUFFICES ASSUME Init PROVE TypeOK /\ BusyHasEntry
  OBVIOUS
<1>4. lapsed \in [Keys -> Nat]
  BY DEF Init
<1>5. count \in Nat /\ faults \in 0..MaxFaults
  BY DEF Init
<1>6. ttl \in BOOLEAN
  BY DEF Init
<1>1. /\ taken \subseteq Keys /\ owned \subseteq Requests /\ expired \subseteq Requests
      /\ tracked \subseteq Requests /\ stream \in Seq(Requests) /\ lastRead \in 0..Len(stream)
  BY DEF Init
<1>2. /\ request \in [Requests -> {"new"} \cup UnderWay \cup Ended]
      /\ key \in [Requests -> Keys \cup {NoKey}] /\ record \in [Requests -> Status]
  BY DEF Init, Status
<1>3. /\ batch \in [Workers -> SUBSET (1..lastRead)] /\ at \in [Workers -> Location]
      /\ existing \in [Workers -> BOOLEAN]
  BY DEF Init, Location
<1> QED
  BY <1>1, <1>2, <1>3, <1>4, <1>5, <1>6 DEF TypeOK, BusyHasEntry, Init

-----------------------------------------------------------------------------
LEMMA GoesTyped ==
    ASSUME TypeOK, NEW r \in Requests, NEW step \in UnderWay \cup Ended, Goes(r, step)
    PROVE  /\ request' \in [Requests -> {"new"} \cup UnderWay \cup Ended]
           /\ request'[r] = step
           /\ \A q \in Requests : q # r => request'[q] = request[q]
BY DEF TypeOK, Goes

LEMMA RequestTyped ==
    ASSUME TypeOK, NEW r \in Requests, NEW k \in Keys \cup {NoKey},
           \/ Count(r, k) \/ Expire(r) \/ TakeKey(r) \/ KeyUnchecked(r) \/ LoadDesign(r)
           \/ SetQueued(r) \/ TrackJob(r) \/ Enqueue(r) \/ RequestFails(r)
    PROVE  TypeOK'
<1>1. \E step \in UnderWay \cup Ended : Goes(r, step)
  BY DEF Count, Expire, TakeKey, KeyUnchecked, LoadDesign, SetQueued, TrackJob, Enqueue,
         RequestFails, UnderWay, Ended
<1>2. request' \in [Requests -> {"new"} \cup UnderWay \cup Ended]
  BY <1>1, GoesTyped
<1>3. UNCHANGED <<lapsed, expired, lastRead, worker>>
  BY DEF Count, Expire, TakeKey, KeyUnchecked, LoadDesign, SetQueued, TrackJob, Enqueue,
         RequestFails, idem, jobs, queue
<1>9. ttl' \in BOOLEAN
  <2>1. ttl' = ttl \/ ttl' = (count > 0)
    BY DEF Count, Expire, TakeKey, KeyUnchecked, LoadDesign, SetQueued, TrackJob, Enqueue,
           RequestFails, limiter
  <2>2. ttl \in BOOLEAN /\ (count > 0) \in BOOLEAN
    BY DEF TypeOK
  <2> QED
    BY <2>1, <2>2, Zenon
<1>4. count' \in Nat
  BY DEF Count, Expire, TakeKey, KeyUnchecked, LoadDesign, SetQueued, TrackJob, Enqueue,
         RequestFails, limiter, TypeOK
<1>5. faults' \in 0..MaxFaults
  BY DEF Count, Expire, TakeKey, KeyUnchecked, LoadDesign, SetQueued, TrackJob, Enqueue,
         RequestFails, Fault, TypeOK
<1>6. key' \in [Requests -> Keys \cup {NoKey}] /\ taken' \subseteq Keys
  <2>1. key' = key \/ key' = [key EXCEPT ![r] = k]
    BY DEF Count, Expire, TakeKey, KeyUnchecked, LoadDesign, SetQueued, TrackJob, Enqueue,
           RequestFails, idem
  <2>2. taken' = taken \/ taken' = taken \cup ({key[r]} \ {NoKey})
    BY DEF Count, Expire, TakeKey, KeyUnchecked, LoadDesign, SetQueued, TrackJob, Enqueue,
           RequestFails, idem
  <2> QED
    BY <2>1, <2>2 DEF TypeOK
<1>7. /\ record' \in [Requests -> Status] /\ owned' \subseteq Requests
      /\ tracked' \subseteq Requests
  <2>1. record' = record \/ record' = [record EXCEPT ![r] = "queued"]
    BY DEF Count, Expire, TakeKey, KeyUnchecked, LoadDesign, SetQueued, TrackJob, Enqueue,
           RequestFails, jobs
  <2>2. owned' \subseteq owned \cup {r} /\ tracked' \subseteq tracked \cup {r}
    BY DEF Count, Expire, TakeKey, KeyUnchecked, LoadDesign, SetQueued, TrackJob, Enqueue,
           RequestFails, jobs
  <2> QED
    BY <2>1, <2>2 DEF TypeOK, Status
<1>8. stream' \in Seq(Requests) /\ lastRead' \in 0..Len(stream')
  <2>1. stream' = stream \/ stream' = Append(stream, r)
    BY DEF Count, Expire, TakeKey, KeyUnchecked, LoadDesign, SetQueued, TrackJob, Enqueue,
           RequestFails, queue
  <2>2. stream' \in Seq(Requests) /\ Len(stream') \in Nat /\ Len(stream) <= Len(stream')
    BY <2>1, QueueTyped
  <2> QED
    BY <1>3, <2>2, QueueTyped
<1> QED
  BY <1>2, <1>3, <1>4, <1>5, <1>6, <1>7, <1>8, <1>9 DEF TypeOK, worker

LEMMA ExpiryTyped ==
    ASSUME TypeOK,
           \/ \E r \in Requests : RecordExpires(r)
           \/ \E k \in Keys : KeyExpires(k)
           \/ WindowEnds
    PROVE  TypeOK'
<1>1. ASSUME NEW r \in Requests, RecordExpires(r) PROVE TypeOK'
  BY <1>1 DEF RecordExpires, TypeOK, limiter, idem, queue, worker, Status
<1>2. ASSUME NEW k \in Keys, KeyExpires(k) PROVE TypeOK'
  <2>1. taken' \subseteq Keys /\ lapsed' \in [Keys -> Nat]
    BY <1>2 DEF KeyExpires, TypeOK
  <2> QED
    BY <1>2, <2>1 DEF KeyExpires, TypeOK, limiter, jobs, queue, worker
<1>3. CASE WindowEnds
  BY <1>3 DEF WindowEnds, TypeOK, idem, jobs, queue, worker
<1> QED
  BY <1>1, <1>2, <1>3

LEMMA WorkerTyped ==
    ASSUME TypeOK, BusyHasEntry, WorkerStep
    PROVE  TypeOK' /\ BusyHasEntry'
<1>1. PICK w \in Workers :
         \/ ReadNew(w) \/ LoadJob(w) \/ SetRunning(w) \/ Render(w) \/ SetFailed(w)
         \/ CommandFails(w) \/ Ack(w) \/ Abandon(w)
  BY DEF WorkerStep
<1>2. UNCHANGED <<limiter, request, idem, tracked, expired, stream>>
  BY <1>1 DEF ReadNew, LoadJob, SetRunning, Render, SetFailed, CommandFails, Ack, Abandon,
              jobs, queue
<1>3. faults' \in 0..MaxFaults
  BY <1>1 DEF ReadNew, LoadJob, SetRunning, Render, SetFailed, CommandFails, Ack, Abandon,
              Fault, TypeOK
<1>4. at' \in [Workers -> Location] /\ \A v \in Workers : v # w => at'[v] = at[v]
  <2>1. \E step \in Location : Moves(w, step)
    BY <1>1 DEF ReadNew, LoadJob, SetRunning, Render, SetFailed, CommandFails, Ack, Abandon,
                Location
  <2> QED
    BY <2>1 DEF Moves, TypeOK
<1>5. existing' \in [Workers -> BOOLEAN]
  <2>1. CASE LoadJob(w)
    BY <2>1 DEF LoadJob, TypeOK
  <2>2. CASE ~LoadJob(w)
    BY <1>1, <2>2 DEF ReadNew, SetRunning, Render, SetFailed, CommandFails, Ack, Abandon, TypeOK
  <2> QED
    BY <2>1, <2>2
<1>6. record' \in [Requests -> Status] /\ owned' \subseteq Requests
  <2>1. CASE UNCHANGED <<record, owned>>
    BY <2>1 DEF TypeOK
  <2>2. CASE at[w] # "idle" /\ \E status \in Status : Write(w, status)
    BY <2>2, JobTyped DEF Write, Owners, TypeOK
  <2> QED
    BY <1>1, <2>1, <2>2
       DEF ReadNew, LoadJob, SetRunning, Render, SetFailed, CommandFails, Ack, Abandon, jobs,
           Status
<1>7. /\ lastRead' \in 0..Len(stream') /\ batch' \in [Workers -> SUBSET (1..lastRead')]
      /\ at'[w] # "idle" => batch'[w] # {}
      /\ \A v \in Workers : v # w => batch'[v] = batch[v]
  <2>0. Len(stream) \in Nat /\ lastRead \in Nat /\ lastRead <= Len(stream)
        /\ batch \in [Workers -> SUBSET (1..lastRead)]
    BY QueueTyped DEF TypeOK
  <2>1. CASE ReadNew(w)
    <3>1. PICK last \in lastRead + 1..Len(stream) :
             lastRead' = last /\ batch' = [batch EXCEPT ![w] = lastRead + 1..last]
      BY <2>1 DEF ReadNew
    <3>2. lastRead + 1 \in lastRead + 1..last /\ 1..lastRead \subseteq 1..last
          /\ lastRead + 1..last \subseteq 1..last
      BY <2>0
    <3>3. batch'[w] = lastRead + 1..last /\ \A v \in Workers : v # w => batch'[v] = batch[v]
      BY <2>0, <3>1
    <3>4. batch' \in [Workers -> SUBSET (1..last)]
      BY <2>0, <3>1, <3>2
    <3>5. last \in 0..Len(stream)
      BY <2>0
    <3> QED
      BY <1>2, <3>1, <3>2, <3>3, <3>4, <3>5
  <2>2. CASE Ack(w)
    <3> DEFINE e == FirstOf(batch[w])
    <3>1. e \in batch[w]
      BY <2>2, JobTyped DEF Ack
    <3>2. batch' = [batch EXCEPT ![w] = batch[w] \ {e}] /\ lastRead' = lastRead
      BY <2>0, <2>2 DEF Ack, queue
    <3>3. at'[w] = IF Cardinality(batch[w]) = 1 THEN "idle" ELSE "load"
      BY <2>2 DEF Ack, Moves, TypeOK
    <3> HIDE DEF e
    <3>4. ASSUME Cardinality(batch[w]) # 1 PROVE batch[w] \ {e} # {}
      <4>1. SUFFICES ASSUME batch[w] \ {e} = {} PROVE FALSE
        OBVIOUS
      <4>2. batch[w] = {e}
        BY <3>1, <4>1
      <4>3. Cardinality({e}) = 1
        BY FS_Singleton
      <4> QED
        BY <3>4, <4>2, <4>3
    <3> QED
      BY <1>2, <2>0, <3>2, <3>3, <3>4
  <2>3. CASE Abandon(w)
    BY <1>2, <2>0, <2>3 DEF Abandon, Moves, queue, TypeOK
  <2>4. CASE at[w] # "idle" /\ UNCHANGED <<queue, batch>>
    BY <1>2, <2>0, <2>4 DEF queue, BusyHasEntry
  <2> QED
    BY <1>1, <2>1, <2>2, <2>3, <2>4 DEF LoadJob, SetRunning, Render, SetFailed, CommandFails
<1>8. BusyHasEntry'
  BY <1>4, <1>7 DEF BusyHasEntry
<1>9. TypeOK'
  BY <1>2, <1>3, <1>4, <1>5, <1>6, <1>7 DEF TypeOK, limiter, idem
<1> QED
  BY <1>8, <1>9

-----------------------------------------------------------------------------
(* Only a fault keeps the request that found 1 from setting the time to    *)
(* live.                                                                   *)
LEMMA LimitStep ==
    ASSUME TypeOK, LimitExpires, [Next]_vars
    PROVE  LimitExpires'
<1> SUFFICES ASSUME count' > 0, ~ttl', ~(faults' > 0)
             PROVE  \E r \in Requests : request'[r] = "expire"
  BY DEF LimitExpires
<1>0. count \in Nat /\ faults \in Nat /\ faults' = faults
  <2>1. faults' = faults \/ faults' = faults + 1
    BY DEF Next, RequestStep, WorkerStep, Count, Expire, TakeKey, KeyUnchecked, LoadDesign,
           SetQueued, TrackJob, Enqueue, RequestFails, RecordExpires, KeyExpires, WindowEnds,
           ReadNew, LoadJob, SetRunning, Render, SetFailed, CommandFails, Ack, Abandon, Fault,
           vars
  <2>2. count \in Nat /\ faults \in Nat
    BY DEF TypeOK
  <2> QED
    BY <2>1, <2>2
<1>1. ASSUME NEW r \in Requests, NEW k \in Keys \cup {NoKey}, Count(r, k)
      PROVE  \E q \in Requests : request'[q] = "expire"
  <2>1. CASE count = 0
    <3>1. Opens(count')
      BY <1>1, <2>1 DEF Count, Opens
    <3> QED
      BY <1>1, <3>1 DEF Count, Goes, TypeOK
  <2>2. CASE count # 0
    <3>1. PICK q \in Requests : request[q] = "expire"
      BY <1>0, <1>1, <2>2 DEF LimitExpires, Count
    <3>2. request'[q] = "expire"
      BY <1>1, <3>1 DEF Count, Goes, TypeOK
    <3> QED
      BY <3>2
  <2> QED
    BY <2>1, <2>2
<1>2. ASSUME NEW r \in Requests, Expire(r) PROVE FALSE
  BY <1>0, <1>2 DEF Expire
<1>3. CASE WindowEnds
  BY <1>3 DEF WindowEnds
<1>4. ASSUME UNCHANGED limiter,
             \A q \in Requests : request[q] = "expire" => request'[q] = "expire"
      PROVE  \E q \in Requests : request'[q] = "expire"
  BY <1>0, <1>4 DEF limiter, LimitExpires
<1>5. ASSUME NEW r \in Requests,
             \/ TakeKey(r) \/ KeyUnchecked(r) \/ LoadDesign(r) \/ SetQueued(r)
             \/ TrackJob(r) \/ Enqueue(r)
      PROVE  \E q \in Requests : request'[q] = "expire"
  <2>1. UNCHANGED limiter /\ request[r] # "expire" /\ \E step : Goes(r, step)
    BY <1>5 DEF TakeKey, KeyUnchecked, LoadDesign, SetQueued, TrackJob, Enqueue
  <2>2. \A q \in Requests : request[q] = "expire" => request'[q] = "expire"
    BY <2>1 DEF Goes, TypeOK
  <2> QED
    BY <1>4, <2>1, <2>2
<1>6. ASSUME NEW r \in Requests, RequestFails(r) PROVE FALSE
  BY <1>0, <1>6 DEF RequestFails, Fault
<1>7. CASE UNCHANGED <<limiter, request>>
  BY <1>4, <1>7
<1>8. CASE \/ \E r \in Requests : RecordExpires(r)
           \/ \E k \in Keys : KeyExpires(k)
           \/ WorkerStep
           \/ UNCHANGED vars
  BY <1>7, <1>8
     DEF RecordExpires, KeyExpires, WorkerStep, ReadNew, LoadJob, SetRunning, Render,
         SetFailed, CommandFails, Ack, Abandon, vars
<1> QED
  BY <1>1, <1>2, <1>3, <1>5, <1>6, <1>8 DEF Next, RequestStep

-----------------------------------------------------------------------------
LEMMA Cardinalities ==
    ASSUME NEW S \in SUBSET Requests, NEW T \in SUBSET Requests, NEW r,
           T \subseteq S \cup {r}
    PROVE  /\ Cardinality(S) \in Nat /\ Cardinality(T) \in Nat
           /\ Cardinality(T) <= Cardinality(S) + 1
           /\ T \subseteq S => Cardinality(T) <= Cardinality(S)
<1>1. IsFiniteSet(Requests)
  BY FS_Interval DEF Requests
<1>2. IsFiniteSet(S) /\ IsFiniteSet(T)
  BY <1>1, FS_Subset
<1>3. Cardinality(S) \in Nat /\ Cardinality(T) \in Nat
  BY <1>2, FS_CardinalityType
<1>4. IsFiniteSet(S \cup {r}) /\ Cardinality(S \cup {r}) <= Cardinality(S) + 1
  BY <1>2, <1>3, FS_AddElement
<1>5. Cardinality(T) <= Cardinality(S \cup {r}) /\ Cardinality(S \cup {r}) \in Nat
  BY <1>4, FS_Subset, FS_CardinalityType
<1>6. T \subseteq S => Cardinality(T) <= Cardinality(S)
  BY <1>2, FS_Subset
<1> QED
  BY <1>3, <1>4, <1>5, <1>6

(* One request more is admitted at the price of a key, a fault or an       *)
(* expiry.                                                                 *)
LEMMA OneMore ==
    ASSUME TypeOK, TypeOK', KeysCounted, NEW k \in Keys, NEW r,
           Admitted(k)' \subseteq Admitted(k) \cup {r},
           \/ Admitted(k)' \subseteq Admitted(k)
              /\ Holders(k)' + lapsed'[k] + faults' >= Holders(k) + lapsed[k] + faults
           \/ Holders(k)' + lapsed'[k] + faults' > Holders(k) + lapsed[k] + faults
    PROVE  Cardinality(Admitted(k))' <= Holders(k)' + lapsed'[k] + faults'
<1>1. Admitted(k) \subseteq Requests /\ Admitted(k)' \subseteq Requests
  BY DEF Admitted
<1>2. PICK S \in SUBSET Requests, T \in SUBSET Requests : S = Admitted(k) /\ T = Admitted(k)'
  BY <1>1
<1>3. /\ Cardinality(S) \in Nat /\ Cardinality(T) \in Nat
      /\ Cardinality(T) <= Cardinality(S) + 1
      /\ T \subseteq S => Cardinality(T) <= Cardinality(S)
  BY <1>2, Cardinalities
<1>4. /\ Holders(k) \in Nat /\ lapsed[k] \in Nat /\ faults \in Nat
      /\ Holders(k)' \in Nat /\ lapsed'[k] \in Nat /\ faults' \in Nat
  BY DEF Holders, TypeOK
<1>5. Cardinality(S) <= Holders(k) + lapsed[k] + faults
  BY <1>2 DEF KeysCounted
<1>6. Cardinality(T) <= Holders(k)' + lapsed'[k] + faults'
  BY <1>2, <1>3, <1>4, <1>5
<1> QED
  BY <1>2, <1>6

LEMMA KeysStep ==
    ASSUME TypeOK, TypeOK', KeysCounted, [Next]_vars
    PROVE  KeysCounted'
<1> SUFFICES ASSUME NEW k \in Keys
             PROVE  Cardinality(Admitted(k))' <= Holders(k)' + lapsed'[k] + faults'
  BY DEF KeysCounted
<1>0. /\ lapsed[k] \in Nat /\ faults \in Nat /\ Holders(k) \in Nat
      /\ lapsed'[k] \in Nat /\ faults' \in Nat /\ Holders(k)' \in Nat
  BY DEF TypeOK, Holders
<1>1. ASSUME NEW r \in Requests, NEW step, Goes(r, step), UNCHANGED key
      PROVE  /\ Admitted(k)' \subseteq Admitted(k) \cup {r}
             /\ key[r] # k \/ step \notin {"load", "record", "track", "add", "answered"}
                   \/ request[r] \in {"load", "record", "track", "add", "answered"}
                => Admitted(k)' \subseteq Admitted(k)
  BY <1>1 DEF Admitted, Goes, TypeOK
<1>2. ASSUME NEW r \in Requests, NEW key0 \in Keys \cup {NoKey}, Count(r, key0)
      PROVE  Admitted(k)' \subseteq Admitted(k) /\ UNCHANGED <<taken, lapsed, faults>>
  <2>1. /\ request'[r] \in {"expire", "limited", "key"}
        /\ \A q \in Requests : q # r => request'[q] = request[q] /\ key'[q] = key[q]
        /\ UNCHANGED <<taken, lapsed, faults>>
    BY <1>2 DEF Count, Goes, TypeOK
  <2> QED
    BY <2>1 DEF Admitted
<1>3. ASSUME NEW r \in Requests, TakeKey(r)
      PROVE  Cardinality(Admitted(k))' <= Holders(k)' + lapsed'[k] + faults'
  <2>1. UNCHANGED <<key, lapsed, faults>>
    BY <1>3 DEF TakeKey
  <2>2. CASE key[r] = k /\ k \notin taken
    <3>1. Goes(r, "load") /\ k \in taken'
      BY <1>3, <2>2 DEF TakeKey, Free
    <3>2. Holders(k) = 0 /\ Holders(k)' = 1
      BY <2>2, <3>1 DEF Holders
    <3>3. Holders(k)' + lapsed'[k] + faults' > Holders(k) + lapsed[k] + faults
      BY <1>0, <2>1, <3>2
    <3> QED
      BY <1>1, <2>1, <3>1, <3>3, OneMore
  <2>3. CASE ~(key[r] = k /\ k \notin taken)
    <3>1. \E step : Goes(r, step) /\ (key[r] # k \/ step = "conflict")
      BY <1>3, <2>3 DEF TakeKey, Free
    <3>2. Admitted(k)' \subseteq Admitted(k)
      BY <1>1, <2>1, <3>1
    <3>3. Holders(k)' >= Holders(k)
      BY <1>3 DEF TakeKey, Holders
    <3>4. Holders(k)' + lapsed'[k] + faults' >= Holders(k) + lapsed[k] + faults
      BY <1>0, <2>1, <3>3
    <3> QED
      BY <3>2, <3>4, OneMore
  <2> QED
    BY <2>2, <2>3
<1>4. ASSUME NEW r \in Requests, KeyUnchecked(r)
      PROVE  Cardinality(Admitted(k))' <= Holders(k)' + lapsed'[k] + faults'
  <2>1. /\ Goes(r, "load") /\ UNCHANGED <<key, lapsed>> /\ faults' = faults + 1
        /\ k \in taken => k \in taken'
    BY <1>4 DEF KeyUnchecked, Fault
  <2>2. Holders(k)' + lapsed'[k] + faults' > Holders(k) + lapsed[k] + faults
    BY <1>0, <2>1 DEF Holders
  <2> QED
    BY <1>1, <2>1, <2>2, OneMore
<1>5. ASSUME NEW r \in Requests,
             \/ Expire(r) \/ LoadDesign(r) \/ SetQueued(r) \/ TrackJob(r) \/ Enqueue(r)
             \/ RequestFails(r)
      PROVE  Admitted(k)' \subseteq Admitted(k) /\ UNCHANGED idem /\ faults' \in {faults, faults + 1}
  <2>1. UNCHANGED idem /\ faults' \in {faults, faults + 1}
    BY <1>5 DEF Expire, LoadDesign, SetQueued, TrackJob, Enqueue, RequestFails, Fault
  <2>2. \E step : /\ Goes(r, step)
                  /\ \/ step \notin {"load", "record", "track", "add", "answered"}
                     \/ request[r] \in {"load", "record", "track", "add", "answered"}
    BY <1>5 DEF Expire, LoadDesign, SetQueued, TrackJob, Enqueue, RequestFails
  <2> QED
    BY <1>1, <2>1, <2>2 DEF idem
<1>6. ASSUME Admitted(k)' \subseteq Admitted(k), UNCHANGED <<taken, lapsed>>,
             faults' \in {faults, faults + 1}
      PROVE  Cardinality(Admitted(k))' <= Holders(k)' + lapsed'[k] + faults'
  <2>1. Holders(k)' + lapsed'[k] + faults' >= Holders(k) + lapsed[k] + faults
    BY <1>0, <1>6 DEF Holders
  <2> QED
    BY <1>6, <2>1, OneMore
<1>7. ASSUME NEW j \in Keys, KeyExpires(j)
      PROVE  Cardinality(Admitted(k))' <= Holders(k)' + lapsed'[k] + faults'
  <2>1. Admitted(k)' \subseteq Admitted(k) /\ UNCHANGED faults
    BY <1>7 DEF KeyExpires, Admitted
  <2>2. CASE j = k
    <3>1. lapsed'[k] = lapsed[k] + 1 /\ Holders(k) = 1 /\ Holders(k)' = 0
      BY <1>7, <2>2 DEF KeyExpires, Holders, TypeOK
    <3> QED
      BY <1>0, <2>1, <3>1, OneMore
  <2>3. CASE j # k
    <3>1. lapsed'[k] = lapsed[k] /\ Holders(k)' = Holders(k)
      BY <1>7, <2>3 DEF KeyExpires, Holders, TypeOK
    <3>2. Holders(k)' + lapsed'[k] + faults' >= Holders(k) + lapsed[k] + faults
      BY <1>0, <2>1, <3>1
    <3> QED
      BY <2>1, <3>2, OneMore
  <2> QED
    BY <2>2, <2>3
<1>8. CASE \/ \E r \in Requests : RecordExpires(r)
           \/ WindowEnds
           \/ WorkerStep
           \/ UNCHANGED vars
  <2>1. UNCHANGED <<request, key, taken, lapsed>> /\ faults' \in {faults, faults + 1}
    BY <1>8 DEF RecordExpires, WindowEnds, WorkerStep, ReadNew, LoadJob, SetRunning, Render,
                SetFailed, CommandFails, Ack, Abandon, Fault, vars, idem
  <2> QED
    BY <1>6, <2>1 DEF Admitted
<1>9. CASE \E r \in Requests : \E key0 \in Keys \cup {NoKey} : Count(r, key0)
  BY <1>2, <1>6, <1>9
<1>10. CASE \E r \in Requests :
              \/ Expire(r) \/ LoadDesign(r) \/ SetQueued(r) \/ TrackJob(r) \/ Enqueue(r)
              \/ RequestFails(r)
  BY <1>5, <1>6, <1>10 DEF idem
<1> QED
  BY <1>3, <1>4, <1>7, <1>8, <1>9, <1>10 DEF Next, RequestStep

-----------------------------------------------------------------------------
LEMMA ExportInvInit == Init => ExportInv
<1> SUFFICES ASSUME Init PROVE ExportInv
  OBVIOUS
<1>1. LimitExpires
  BY DEF Init, LimitExpires
<1>2. ASSUME NEW k \in Keys
      PROVE  Cardinality(Admitted(k)) <= Holders(k) + lapsed[k] + faults
  <2>1. Admitted(k) = {} /\ Holders(k) = 0 /\ lapsed[k] = 0 /\ faults = 0
    BY DEF Init, Admitted, Holders
  <2> QED
    BY <2>1, FS_EmptySet
<1> QED
  BY <1>1, <1>2, TypeInit DEF ExportInv, KeysCounted

LEMMA ExportInvStep == ExportInv /\ [Next]_vars => ExportInv'
<1> SUFFICES ASSUME ExportInv, [Next]_vars PROVE ExportInv'
  OBVIOUS
<1>1. TypeOK' /\ BusyHasEntry'
  <2>1. CASE RequestStep
    <3>1. BusyHasEntry'
      BY <2>1 DEF RequestStep, Count, Expire, TakeKey, KeyUnchecked, LoadDesign, SetQueued,
                  TrackJob, Enqueue, RequestFails, RecordExpires, KeyExpires, WindowEnds,
                  worker, ExportInv, BusyHasEntry
    <3>2. TypeOK'
      BY <2>1, RequestTyped, ExpiryTyped DEF RequestStep, ExportInv
    <3> QED
      BY <3>1, <3>2
  <2>2. CASE WorkerStep
    BY <2>2, WorkerTyped DEF ExportInv
  <2>3. CASE UNCHANGED vars
    BY <2>3 DEF vars, limiter, idem, jobs, queue, worker, ExportInv, TypeOK, BusyHasEntry
  <2> QED
    BY <2>1, <2>2, <2>3 DEF Next
<1>2. LimitExpires' /\ KeysCounted'
  BY <1>1, LimitStep, KeysStep DEF ExportInv
<1> QED
  BY <1>1, <1>2 DEF ExportInv

THEOREM ExportInvariant == Spec => []ExportInv
BY ExportInvInit, ExportInvStep, PTL DEF Spec

(* Every variable keeps its type, and a worker's current entry is one that *)
(* was read.                                                               *)
THEOREM TypeCorrect == Spec => []TypeOK
<1>1. ExportInv => TypeOK
  BY DEF ExportInv
<1> QED
  BY <1>1, ExportInvariant, PTL

(* No order of requests, windows and expiries leaves a counter without a   *)
(* time to live, which would refuse its user for good: only a fault        *)
(* between the two commands does.                                          *)
THEOREM LimitsEnd == Spec => []LimitExpires
<1>1. ExportInv => LimitExpires
  BY DEF ExportInv
<1> QED
  BY <1>1, ExportInvariant, PTL

(* Requests with one key are admitted once, and once more for each time    *)
(* the key expired or redis failed.                                        *)
THEOREM KeysAdmitOnce == Spec => []OneJobPerKey
<1>1. ExportInv => OneJobPerKey
  <2> SUFFICES ASSUME ExportInv, NEW k \in Keys
               PROVE  Cardinality(Admitted(k)) <= 1 + lapsed[k] + faults
    BY DEF OneJobPerKey
  <2>1. lapsed[k] \in Nat /\ faults \in Nat /\ Holders(k) \in Nat /\ Holders(k) <= 1
    BY DEF ExportInv, TypeOK, Holders
  <2>2. Cardinality(Admitted(k)) <= Holders(k) + lapsed[k] + faults
    BY DEF ExportInv, KeysCounted
  <2>3. Admitted(k) \in SUBSET Requests
    BY DEF Admitted
  <2>4. Cardinality(Admitted(k)) \in Nat
    BY <2>3, Cardinalities
  <2> QED
    BY <2>1, <2>2, <2>4
<1> QED
  BY <1>1, ExportInvariant, PTL

-----------------------------------------------------------------------------
(* Stuck jobs.  A job is hoped for as long as a request, the stream or a   *)
(* worker that has not given up on it may still bring it on; a worker may  *)
(* give up on one, when it acknowledges the entry, before it is stuck.     *)
Hoped(j) ==
    \/ request[j] \in {"track", "add"}
    \/ \E e \in lastRead + 1..Len(stream) : stream[e] = j
    \/ \E w \in Workers : \E e \in batch[w] :
          stream[e] = j /\ ~(at[w] = "ack" /\ e = FirstOf(batch[w]))

Doomed == {j \in Requests \ expired : ~Settled(j) /\ ~Hoped(j)}

(* Who writes a record knows its owner, unless it expired.                 *)
OwnersKnown ==
    /\ \A j \in Requests : request[j] \in {"track", "add"} => j \in owned \cup expired
    /\ \A e \in 1..Len(stream) : stream[e] \in owned \cup expired
    /\ \A w \in Workers : at[w] \in {"run", "render", "fail"} => existing[w] \/ Job(w) \in expired

BatchesSmall ==
    \A w \in Workers : /\ Cardinality(batch[w]) <= BatchSize
                       /\ at[w] = "idle" => batch[w] = {}

StuckInv ==
    /\ ExportInv
    /\ OwnersKnown
    /\ BatchesSmall
    /\ Cardinality(Doomed) <= BatchSize * faults

LEMMA OwnersStep ==
    ASSUME ExportInv, OwnersKnown, [Next]_vars
    PROVE  OwnersKnown'
<1>0. TypeOK /\ BusyHasEntry /\ stream \in Seq(Requests) /\ Len(stream) \in Nat
  BY DEF ExportInv, TypeOK
<1>1. ASSUME UNCHANGED <<request, owned, expired, queue, worker>>
      PROVE  OwnersKnown'
  BY <1>1 DEF OwnersKnown, Job, queue, worker
<1>2. ASSUME NEW r \in Requests, NEW step, Goes(r, step), step \notin {"track", "add"},
             UNCHANGED <<owned, expired, queue, worker>>
      PROVE  OwnersKnown'
  <2>1. \A j \in Requests : request'[j] \in {"track", "add"} => request[j] \in {"track", "add"}
    BY <1>0, <1>2 DEF Goes, TypeOK
  <2>. QED  BY <1>2, <2>1 DEF OwnersKnown, Job, queue, worker
<1>3. ASSUME NEW r \in Requests, NEW k \in Keys \cup {NoKey},
             Count(r, k) \/ Expire(r) \/ TakeKey(r) \/ KeyUnchecked(r) \/ LoadDesign(r)
             \/ RequestFails(r)
      PROVE  OwnersKnown'
  <2>1. /\ UNCHANGED <<owned, expired, queue, worker>>
        /\ \E step : Goes(r, step) /\ step \notin {"track", "add"}
    BY <1>3 DEF Count, Expire, TakeKey, KeyUnchecked, LoadDesign, RequestFails, jobs
  <2>. QED  BY <1>2, <2>1
<1>4. ASSUME NEW r \in Requests, SetQueued(r)
      PROVE  OwnersKnown'
  <2>1. /\ owned' = owned \cup {r} /\ UNCHANGED <<expired, queue, worker>>
        /\ \A j \in Requests : j # r => request'[j] = request[j]
    BY <1>0, <1>4 DEF SetQueued, Goes, TypeOK
  <2>. QED  BY <2>1 DEF OwnersKnown, Job, queue, worker
<1>5. ASSUME NEW r \in Requests, TrackJob(r)
      PROVE  OwnersKnown'
  <2>1. /\ UNCHANGED <<owned, expired, queue, worker>> /\ request[r] = "track"
        /\ \A j \in Requests : j # r => request'[j] = request[j]
    BY <1>0, <1>5 DEF TrackJob, Goes, TypeOK
  <2>. QED  BY <2>1 DEF OwnersKnown, Job, queue, worker
<1>6. ASSUME NEW r \in Requests, Enqueue(r)
      PROVE  OwnersKnown'
  <2>1. /\ UNCHANGED <<owned, expired, lastRead, worker>> /\ request[r] = "add"
        /\ stream' = Append(stream, r)
        /\ \A j \in Requests : request'[j] \in {"track", "add"} => request[j] \in {"track", "add"}
    BY <1>0, <1>6 DEF Enqueue, Goes, TypeOK, jobs
  <2>2. /\ Len(stream') = Len(stream) + 1 /\ stream'[Len(stream) + 1] = r
        /\ \A e \in 1..Len(stream) : stream'[e] = stream[e]
    BY <1>0, <2>1
  <2>3. \A e \in 1..Len(stream') : stream'[e] \in owned' \cup expired'
    BY <1>0, <2>1, <2>2 DEF OwnersKnown
  <2>4. ASSUME NEW w \in Workers, at[w] # "idle"
        PROVE  Job(w)' = Job(w)
    <3>1. FirstOf(batch[w]) \in 1..Len(stream)
      BY <1>0, <2>4, JobTyped, QueueTyped
    <3>. QED  BY <2>1, <2>2, <3>1 DEF Job, worker
  <2>. QED  BY <2>1, <2>3, <2>4 DEF OwnersKnown, worker
<1>7. ASSUME NEW j \in Requests, RecordExpires(j)
      PROVE  OwnersKnown'
  BY <1>7 DEF RecordExpires, OwnersKnown, Job, queue, worker
<1>8. ASSUME NEW w \in Workers, at[w] \in {"run", "render", "fail"}, NEW status, Write(w, status),
             UNCHANGED <<request, expired, queue, batch, existing>>, NEW step, Moves(w, step)
      PROVE  OwnersKnown'
  <2>1. \A j \in owned : j \in owned' \cup expired'
    BY <1>8 DEF Write, Owners, OwnersKnown
  <2>2. \A v \in Workers : Job(v)' = Job(v)
    BY <1>8 DEF Job, queue
  <2>3. \A v \in Workers : at'[v] \in {"run", "render", "fail"} => at[v] \in {"run", "render", "fail"}
    BY <1>0, <1>8 DEF Moves, TypeOK
  <2>. QED  BY <1>8, <2>1, <2>2, <2>3 DEF OwnersKnown, queue
<1>9. ASSUME NEW w \in Workers, UNCHANGED <<request, owned, expired, stream>>,
             NEW step, Moves(w, step), step \notin {"run", "render", "fail"} \/ at[w] \in {"run", "render", "fail"},
             UNCHANGED existing, \A v \in Workers : v # w => batch'[v] = batch[v],
             step \in {"run", "render", "fail"} => batch'[w] = batch[w]
      PROVE  OwnersKnown'
  <2>1. ASSUME NEW v \in Workers, at'[v] \in {"run", "render", "fail"}
        PROVE  at[v] \in {"run", "render", "fail"} /\ Job(v)' = Job(v)
    BY <1>0, <1>9, <2>1 DEF Moves, TypeOK, Job
  <2>. QED  BY <1>9, <2>1 DEF OwnersKnown
<1>10. ASSUME NEW w \in Workers, LoadJob(w)
       PROVE  OwnersKnown'
  <2>1. /\ UNCHANGED <<request, owned, expired, queue, batch>>
        /\ existing' = [existing EXCEPT ![w] = Job(w) \in owned]
        /\ at' = [at EXCEPT ![w] = "run"]
    BY <1>10 DEF LoadJob, Moves, jobs
  <2>2. FirstOf(batch[w]) \in 1..Len(stream)
    BY <1>0, <1>10, JobTyped, QueueTyped DEF LoadJob
  <2>3. Job(w) \in owned \cup expired
    BY <2>2 DEF OwnersKnown, Job
  <2>4. \A v \in Workers : Job(v)' = Job(v)
    BY <2>1 DEF Job, queue
  <2>5. \A v \in Workers : v # w => existing'[v] = existing[v] /\ at'[v] = at[v]
    BY <1>0, <2>1 DEF TypeOK
  <2>6. existing'[w] = (Job(w) \in owned)
    BY <1>0, <2>1 DEF TypeOK
  <2>. QED  BY <2>1, <2>3, <2>4, <2>5, <2>6 DEF OwnersKnown, queue
<1>11. ASSUME NEW w \in Workers,
              \/ ReadNew(w) \/ LoadJob(w) \/ SetRunning(w) \/ Render(w) \/ SetFailed(w)
              \/ CommandFails(w) \/ Ack(w) \/ Abandon(w)
       PROVE  OwnersKnown'
  <2>1. CASE SetRunning(w) \/ SetFailed(w)
    BY <1>8, <2>1 DEF SetRunning, SetFailed
  <2>2. CASE Render(w)
    <3>1. CASE Write(w, "completed") /\ Moves(w, "ack")
      BY <1>8, <2>2, <3>1 DEF Render
    <3>2. CASE Moves(w, "fail") /\ UNCHANGED <<record, owned>>
      BY <1>9, <2>2, <3>2 DEF Render, queue
    <3>. QED  BY <2>2, <3>1, <3>2 DEF Render
  <2>3. CASE ReadNew(w) \/ Ack(w) \/ Abandon(w)
    <3>1. /\ UNCHANGED <<request, owned, expired, stream, existing>>
          /\ \A v \in Workers : v # w => batch'[v] = batch[v]
          /\ \E step \in {"idle", "load"} : Moves(w, step)
      BY <1>0, <2>3 DEF ReadNew, Ack, Abandon, jobs, queue, TypeOK
    <3>. QED  BY <1>9, <3>1
  <2>4. CASE CommandFails(w)
    <3>1. /\ UNCHANGED <<request, owned, expired, stream, existing, batch>>
          /\ \E step : /\ Moves(w, step)
                       /\ step = "ack" \/ at[w] \in {"run", "render", "fail"}
      BY <2>4 DEF CommandFails, jobs, queue
    <3>. QED  BY <1>9, <3>1
  <2>. QED  BY <1>10, <1>11, <2>1, <2>2, <2>3, <2>4
<1>12. CASE \/ \E k \in Keys : KeyExpires(k)
            \/ WindowEnds
            \/ UNCHANGED vars
  BY <1>1, <1>12 DEF KeyExpires, WindowEnds, vars, jobs
<1>. QED
  BY <1>3, <1>4, <1>5, <1>6, <1>7, <1>11, <1>12 DEF Next, RequestStep, WorkerStep

(* No worker holds more entries than it may read at once.                  *)
LEMMA BatchesStep ==
    ASSUME ExportInv, BatchesSmall, [Next]_vars
    PROVE  BatchesSmall'
<1>0. TypeOK /\ BusyHasEntry /\ Len(stream) \in Nat /\ lastRead \in Nat
  BY QueueTyped DEF ExportInv
<1>1. ASSUME NEW w \in Workers
      PROVE  IsFiniteSet(batch[w]) /\ Cardinality(batch[w]) \in Nat
  <2>1. batch[w] \in SUBSET (1..lastRead)
    BY <1>0, QueueTyped
  <2>2. IsFiniteSet(1..lastRead)
    BY <1>0, FS_Interval
  <2>. QED  BY <2>1, <2>2, FS_Subset, FS_CardinalityType
<1>2. ASSUME NEW w \in Workers, NEW b, batch' = [batch EXCEPT ![w] = b],
             NEW step, Moves(w, step),
             Cardinality(b) <= BatchSize, step = "idle" => b = {}
      PROVE  BatchesSmall'
  BY <1>0, <1>2 DEF BatchesSmall, TypeOK, Moves
<1>3. ASSUME NEW w \in Workers, ReadNew(w)
      PROVE  BatchesSmall'
  <2>1. PICK last \in lastRead + 1..Len(stream) :
          last <= lastRead + BatchSize /\ batch' = [batch EXCEPT ![w] = lastRead + 1..last]
    BY <1>3 DEF ReadNew
  <2>2. Cardinality(lastRead + 1..last) <= BatchSize
    <3>1. last \in Nat /\ lastRead + 1 <= last
      BY <1>0, <2>1
    <3>2. Cardinality(lastRead + 1..last) = last - (lastRead + 1) + 1
      BY <1>0, <3>1, FS_Interval
    <3>. QED  BY <1>0, <2>1, <3>1, <3>2
  <2>. QED  BY <1>2, <1>3, <2>1, <2>2 DEF ReadNew
<1>4. ASSUME NEW w \in Workers, Ack(w)
      PROVE  BatchesSmall'
  <2>. DEFINE b == batch[w] \ {FirstOf(batch[w])}
              step == IF Cardinality(batch[w]) = 1 THEN "idle" ELSE "load"
  <2>1. /\ batch' = [batch EXCEPT ![w] = b] /\ Moves(w, step)
        /\ FirstOf(batch[w]) \in batch[w]
    BY <1>0, <1>4, JobTyped DEF Ack, TypeOK
  <2>2. IsFiniteSet(b) /\ Cardinality(b) = Cardinality(batch[w]) - 1
    BY <1>1, <2>1, FS_RemoveElement
  <2>3. Cardinality(b) <= BatchSize
    <3>1. Cardinality(batch[w]) <= BatchSize
      BY DEF BatchesSmall
    <3>. QED  BY <1>1, <2>2, <3>1
  <2>4. step = "idle" => b = {}
    BY <2>2, FS_EmptySet
  <2>. HIDE DEF b, step
  <2>. QED  BY <1>2, <2>1, <2>3, <2>4
<1>5. ASSUME NEW w \in Workers, Abandon(w)
      PROVE  BatchesSmall'
  <2>1. Cardinality({}) <= BatchSize
    BY FS_EmptySet
  <2>. QED  BY <1>2, <1>5, <2>1 DEF Abandon
<1>6. ASSUME NEW w \in Workers,
             LoadJob(w) \/ SetRunning(w) \/ Render(w) \/ SetFailed(w) \/ CommandFails(w)
      PROVE  BatchesSmall'
  <2>1. UNCHANGED batch /\ \E step : Moves(w, step) /\ step # "idle"
    BY <1>6 DEF LoadJob, SetRunning, Render, SetFailed, CommandFails
  <2>. QED  BY <1>0, <2>1 DEF BatchesSmall, Moves, TypeOK
<1>7. CASE RequestStep \/ UNCHANGED vars
  <2>1. UNCHANGED <<batch, at>>
    BY <1>7 DEF RequestStep, Count, Expire, TakeKey, KeyUnchecked, LoadDesign, SetQueued,
                TrackJob, Enqueue, RequestFails, RecordExpires, KeyExpires, WindowEnds, vars,
                worker
  <2>. QED  BY <2>1 DEF BatchesSmall
<1>. QED  BY <1>3, <1>4, <1>5, <1>6, <1>7 DEF Next, WorkerStep

(* What a step may add to the doomed jobs, and at what price.              *)
LEMMA DoomedFinite ==
    /\ IsFiniteSet(Doomed) /\ Cardinality(Doomed) \in Nat
    /\ IsFiniteSet(Doomed') /\ Cardinality(Doomed') \in Nat
<1>1. IsFiniteSet(Requests)
  BY FS_Interval DEF Requests
<1>2. Doomed \in SUBSET Requests /\ Doomed' \in SUBSET Requests
  BY DEF Doomed
<1>. QED  BY <1>1, <1>2, FS_Subset, FS_CardinalityType

LEMMA OneFits ==
    ASSUME NEW j
    PROVE  IsFiniteSet({j}) /\ Cardinality({j}) <= BatchSize
<1>1. IsFiniteSet({j}) /\ Cardinality({j}) = 1
  BY FS_Singleton
<1>. HIDE DEF Cardinality, IsFiniteSet
<1>. QED  BY <1>1, ExportAssumption

LEMMA NoMoreDoomed ==
    ASSUME Cardinality(Doomed) <= BatchSize * faults, faults \in Nat,
           Doomed' \subseteq Doomed, faults' = faults \/ faults' = faults + 1
    PROVE  Cardinality(Doomed') <= BatchSize * faults'
<1>1. Cardinality(Doomed') <= Cardinality(Doomed)
  BY DoomedFinite, FS_Subset
<1>2. BatchSize * faults' >= BatchSize * faults /\ BatchSize * faults \in Nat /\ BatchSize * faults' \in Nat
  <2>1. BatchSize * (faults + 1) = BatchSize * faults + BatchSize
    OBVIOUS
  <2>. QED  BY <2>1
<1>. QED  BY <1>1, <1>2, DoomedFinite

LEMMA AtMostABatchDoomed ==
    ASSUME Cardinality(Doomed) <= BatchSize * faults, faults \in Nat, faults' = faults + 1,
           NEW B, IsFiniteSet(B), Cardinality(B) <= BatchSize, NEW f,
           Doomed' \subseteq Doomed \cup {f[e] : e \in B}
    PROVE  Cardinality(Doomed') <= BatchSize * faults'
<1>. DEFINE g == [e \in B |-> f[e]]
            T == {f[e] : e \in B}
<1>1. g \in Surjection(B, T)
  BY DEF Surjection
<1>2. IsFiniteSet(T) /\ Cardinality(T) <= Cardinality(B)
  BY <1>1, FS_Surjection DEF ExistsSurjection
<1>. HIDE DEF T
<1>3. Cardinality(T) \in Nat /\ Cardinality(B) \in Nat /\ IsFiniteSet(Doomed \cap T)
      /\ Cardinality(Doomed \cap T) \in Nat
  BY <1>2, DoomedFinite, FS_CardinalityType, FS_Intersection
<1>4. /\ IsFiniteSet(Doomed \cup T)
      /\ Cardinality(Doomed \cup T) <= Cardinality(Doomed) + Cardinality(T)
  <2>1. /\ IsFiniteSet(Doomed \cup T)
        /\ Cardinality(Doomed \cup T) =
             Cardinality(Doomed) + Cardinality(T) - Cardinality(Doomed \cap T)
    BY <1>2, DoomedFinite, FS_Union
  <2>. QED  BY <1>3, <2>1, DoomedFinite
<1>5. Cardinality(Doomed') <= Cardinality(Doomed \cup T) /\ Cardinality(Doomed \cup T) \in Nat
  BY <1>4, FS_Subset, FS_CardinalityType DEF T
<1>6. BatchSize * (faults + 1) = BatchSize * faults + BatchSize /\ BatchSize * faults \in Nat
  OBVIOUS
<1>. QED  BY <1>2, <1>3, <1>4, <1>5, <1>6, DoomedFinite

(* A job that is settled or hoped for stays so unless a step is about it.  *)
LEMMA StillNotDoomed ==
    ASSUME NEW j, j \in Doomed', record'[j] = record[j], j \in owned <=> j \in owned',
           expired \subseteq expired', Hoped(j) => Hoped(j)'
    PROVE  j \in Doomed
BY DEF Doomed, Settled, Downloadable

LEMMA RequestDooms ==
    ASSUME StuckInv, NEW r \in Requests, NEW k \in Keys \cup {NoKey},
           \/ Count(r, k) \/ Expire(r) \/ TakeKey(r) \/ KeyUnchecked(r) \/ LoadDesign(r)
           \/ SetQueued(r) \/ TrackJob(r) \/ Enqueue(r) \/ RequestFails(r)
    PROVE  Cardinality(Doomed') <= BatchSize * faults'
<1>0. /\ TypeOK /\ faults \in Nat /\ Cardinality(Doomed) <= BatchSize * faults
      /\ faults' = faults \/ faults' = faults + 1
  BY DEF StuckInv, ExportInv, TypeOK, Count, Expire, TakeKey, KeyUnchecked, LoadDesign, SetQueued,
         TrackJob, Enqueue, RequestFails, Fault
<1>1. /\ UNCHANGED <<lastRead, batch, at, expired>>
      /\ \A q \in Requests : q # r => request'[q] = request[q] /\ record'[q] = record[q]
                                      /\ (q \in owned <=> q \in owned')
      /\ stream' = stream \/ stream' = Append(stream, r)
  BY <1>0 DEF Count, Expire, TakeKey, KeyUnchecked, LoadDesign, SetQueued, TrackJob, Enqueue,
              RequestFails, Goes, TypeOK, jobs, queue, worker
<1>2. /\ stream \in Seq(Requests) /\ Len(stream) \in Nat /\ Len(stream') \in Nat
      /\ lastRead \in Nat /\ lastRead <= Len(stream) /\ Len(stream) <= Len(stream')
      /\ \A e \in 1..Len(stream) : stream'[e] = stream[e]
  BY <1>0, <1>1, QueueTyped
<1>3. ASSUME NEW j, request[j] \in {"track", "add"} => request'[j] \in {"track", "add"}, Hoped(j)
      PROVE  Hoped(j)'
  <2>1. \A w \in Workers : \A e \in batch[w] : stream'[e] = stream[e]
    BY <1>0, <1>2, QueueTyped
  <2>2. \A e \in lastRead + 1..Len(stream) :
          stream'[e] = stream[e] /\ e \in lastRead' + 1..Len(stream')
    BY <1>1, <1>2
  <2>. QED  BY <1>1, <1>3, <2>1, <2>2 DEF Hoped
<1>4. Doomed' \subseteq Doomed \cup {r}
  <2>. SUFFICES ASSUME NEW j \in Doomed', j # r PROVE j \in Doomed
    OBVIOUS
  <2>1. j \in Requests
    BY DEF Doomed
  <2>. QED  BY <1>1, <1>3, <2>1, StillNotDoomed
<1>5. CASE RequestFails(r)
  <2>1. faults' = faults + 1
    BY <1>5 DEF RequestFails, Fault
  <2>. DEFINE B == {r}
              f == [e \in B |-> e]
  <2>2. IsFiniteSet(B) /\ Cardinality(B) <= BatchSize
    BY OneFits
  <2>3. {f[e] : e \in B} = {r}
    OBVIOUS
  <2>. HIDE DEF B, f
  <2>. QED  BY <1>0, <1>4, <2>1, <2>2, <2>3, AtMostABatchDoomed
<1>6. ASSUME r \notin Doomed' PROVE Cardinality(Doomed') <= BatchSize * faults'
  BY <1>0, <1>4, <1>6, NoMoreDoomed
<1>7. CASE SetQueued(r) \/ TrackJob(r)
  <2>1. request'[r] \in {"track", "add"}
    BY <1>0, <1>7 DEF SetQueued, TrackJob, Goes, TypeOK
  <2>. QED  BY <1>6, <2>1 DEF Doomed, Hoped
<1>8. CASE Enqueue(r)
  <2>1. stream' = Append(stream, r) /\ Len(stream') = Len(stream) + 1 /\ stream'[Len(stream')] = r
    BY <1>2, <1>8 DEF Enqueue
  <2>2. Len(stream') \in lastRead' + 1..Len(stream')
    BY <1>1, <1>2, <2>1
  <2>. QED  BY <1>6, <2>1, <2>2 DEF Doomed, Hoped
<1>9. CASE Count(r, k) \/ Expire(r) \/ TakeKey(r) \/ KeyUnchecked(r) \/ LoadDesign(r)
  <2>1. /\ request[r] \notin {"track", "add"} /\ UNCHANGED <<record, owned>>
    BY <1>9 DEF Count, Expire, TakeKey, KeyUnchecked, LoadDesign, jobs
  <2>2. r \in Doomed' => r \in Doomed
    BY <1>1, <1>3, <2>1, StillNotDoomed
  <2>3. Doomed' \subseteq Doomed
    BY <1>4, <2>2
  <2>. QED  BY <1>0, <2>3, NoMoreDoomed
<1>. QED  BY <1>5, <1>7, <1>8, <1>9

LEMMA ExpiryDooms ==
    ASSUME StuckInv,
           \/ \E r \in Requests : RecordExpires(r)
           \/ \E k \in Keys : KeyExpires(k)
           \/ WindowEnds
           \/ UNCHANGED vars
    PROVE  Cardinality(Doomed') <= BatchSize * faults'
<1>1. /\ UNCHANGED <<request, stream, lastRead, batch, at, faults>>
      /\ expired \subseteq expired'
      /\ \A j \in Requests \ expired' : record'[j] = record[j] /\ (j \in owned <=> j \in owned')
  BY DEF RecordExpires, KeyExpires, WindowEnds, vars, jobs, queue, worker, StuckInv, ExportInv, TypeOK
<1>2. Doomed' \subseteq Doomed
  <2>. SUFFICES ASSUME NEW j \in Doomed' PROVE j \in Doomed
    OBVIOUS
  <2>1. j \in Requests \ expired'
    BY DEF Doomed
  <2>2. Hoped(j) => Hoped(j)'
    BY <1>1 DEF Hoped
  <2>. QED  BY <1>1, <2>1, <2>2, StillNotDoomed
<1>. QED  BY <1>1, <1>2, NoMoreDoomed DEF StuckInv, ExportInv, TypeOK

LEMMA WorkerDooms ==
    ASSUME StuckInv, NEW w \in Workers,
           \/ ReadNew(w) \/ LoadJob(w) \/ SetRunning(w) \/ Render(w) \/ SetFailed(w)
           \/ CommandFails(w) \/ Ack(w) \/ Abandon(w)
    PROVE  Cardinality(Doomed') <= BatchSize * faults'
<1>0. /\ TypeOK /\ BusyHasEntry /\ faults \in Nat /\ Cardinality(Doomed) <= BatchSize * faults
      /\ faults' = faults \/ faults' = faults + 1
  BY DEF StuckInv, ExportInv, TypeOK, ReadNew, LoadJob, SetRunning, Render, SetFailed, CommandFails,
         Ack, Abandon, Fault
<1>1. /\ UNCHANGED <<request, stream, expired>>
      /\ \A v \in Workers : v # w => at'[v] = at[v] /\ batch'[v] = batch[v]
  BY <1>0 DEF ReadNew, LoadJob, SetRunning, Render, SetFailed, CommandFails, Ack, Abandon, Moves,
              TypeOK, jobs, queue
<1>2. ASSUME NEW j, UNCHANGED lastRead, Hoped(j)
      PROVE  \/ Hoped(j)'
             \/ \E e \in batch[w] : stream[e] = j /\ ~(at[w] = "ack" /\ e = FirstOf(batch[w]))
  BY <1>1, <1>2 DEF Hoped
<1>3. ASSUME Doomed' \subseteq Doomed
      PROVE  Cardinality(Doomed') <= BatchSize * faults'
  BY <1>0, <1>3, NoMoreDoomed
<1>4. CASE ReadNew(w)
  <2>1. PICK last \in lastRead + 1..Len(stream) :
          lastRead' = last /\ batch'[w] = lastRead + 1..last
    BY <1>0, <1>4 DEF ReadNew, TypeOK
  <2>2. at'[w] = "load" /\ batch[w] = {} /\ UNCHANGED <<record, owned>>
    BY <1>0, <1>4 DEF ReadNew, Moves, TypeOK, StuckInv, BatchesSmall, jobs
  <2>3. Len(stream) \in Nat /\ lastRead \in Nat
    BY <1>0, QueueTyped
  <2>4. ASSUME NEW j, Hoped(j) PROVE Hoped(j)'
    <3>1. CASE \E e \in lastRead + 1..Len(stream) : stream[e] = j
      <4>1. PICK e \in lastRead + 1..Len(stream) : stream[e] = j
        BY <3>1
      <4>2. e \in batch'[w] \/ e \in lastRead' + 1..Len(stream')
        BY <1>1, <2>1, <2>3
      <4>. QED  BY <1>1, <2>2, <4>1, <4>2 DEF Hoped
    <3>2. CASE \E v \in Workers : \E e \in batch[v] :
                 stream[e] = j /\ ~(at[v] = "ack" /\ e = FirstOf(batch[v]))
      BY <1>1, <2>2, <3>2 DEF Hoped
    <3>. QED  BY <1>1, <2>4, <3>1, <3>2 DEF Hoped
  <2>5. Doomed' \subseteq Doomed
    BY <1>1, <2>2, <2>4, StillNotDoomed
  <2>. QED  BY <1>3, <2>5
<1>5. ASSUME at[w] # "ack", at'[w] # "ack", UNCHANGED <<lastRead, batch>>,
             \A j \in Requests : j # Job(w) => record'[j] = record[j] /\ (j \in owned <=> j \in owned'),
             at[w] # "idle" \/ UNCHANGED <<record, owned>>
      PROVE  Cardinality(Doomed') <= BatchSize * faults'
  <2>1. ASSUME NEW j, Hoped(j) PROVE Hoped(j)'
    BY <1>1, <1>5, <2>1 DEF Hoped
  <2>2. ASSUME at[w] # "idle", NEW j, j = Job(w) PROVE Hoped(j)'
    <3>1. FirstOf(batch[w]) \in batch[w]
      BY <1>0, <2>2, JobTyped
    <3>. QED  BY <1>1, <1>5, <2>2, <3>1 DEF Hoped, Job
  <2>3. ASSUME NEW j \in Doomed' PROVE j \in Doomed
    <3>1. j \in Requests /\ ~Hoped(j)'
      BY DEF Doomed
    <3>2. j # Job(w) \/ at[w] = "idle"
      BY <2>2, <3>1
    <3>3. record'[j] = record[j] /\ (j \in owned <=> j \in owned')
      BY <1>5, <3>1, <3>2
    <3>. QED  BY <1>1, <2>1, <3>3, StillNotDoomed
  <2>. QED  BY <1>3, <2>3
<1>6. CASE LoadJob(w) \/ SetRunning(w)
  <2>1. /\ at[w] \in {"load", "run"} /\ at'[w] \in {"run", "render"} /\ UNCHANGED <<lastRead, batch>>
        /\ \A j \in Requests : j # Job(w) => record'[j] = record[j] /\ (j \in owned <=> j \in owned')
    BY <1>0, <1>6 DEF LoadJob, SetRunning, Write, Owners, Moves, TypeOK, jobs, queue
  <2>. QED  BY <1>5, <2>1
<1>7. ASSUME Moves(w, "ack"), at[w] \in {"render", "fail"}, NEW status \in {"completed", "failed"},
             Write(w, status), UNCHANGED <<lastRead, batch>>
      PROVE  Cardinality(Doomed') <= BatchSize * faults'
  <2>0. Job(w) \in Requests /\ (existing[w] \/ Job(w) \in expired)
    BY <1>0, <1>7, JobTyped DEF StuckInv, OwnersKnown
  <2>. DEFINE job == Job(w)
  <2>1. /\ job \in Requests /\ record' = [record EXCEPT ![job] = status]
        /\ owned' = IF existing[w] THEN owned \cup {job} ELSE owned \ {job}
        /\ existing[w] \/ job \in expired
    BY <1>7, <2>0 DEF Write, Owners
  <2>2. existing[w] => job \in owned'
    BY <2>1
  <2>. HIDE DEF job
  <2>3. job \in expired' \/ (record'[job] = status /\ job \in owned')
    BY <1>0, <1>1, <2>1, <2>2 DEF TypeOK
  <2>4. job \notin Doomed'
    BY <1>7, <2>3 DEF Doomed, Settled, Downloadable
  <2>5. ASSUME NEW j \in Doomed' PROVE j \in Doomed
    <3>1. j # job /\ j \in Requests
      BY <2>4 DEF Doomed
    <3>2. record'[j] = record[j] /\ (j \in owned <=> j \in owned')
      BY <1>0, <2>1, <3>1 DEF TypeOK
    <3>3. Hoped(j) => Hoped(j)'
      <4>1. at[w] # "ack"
        BY <1>7
      <4>2. \A e \in batch[w] : stream[e] = j => e # FirstOf(batch[w])
        BY <3>1 DEF job, Job
      <4>. QED  BY <1>1, <1>7, <4>1, <4>2 DEF Hoped
    <3>. QED  BY <1>1, <3>1, <3>2, <3>3, StillNotDoomed
  <2>. QED  BY <1>3, <2>5
<1>8. CASE Render(w)
  <2>1. at[w] = "render" /\ UNCHANGED <<lastRead, batch>>
    BY <1>8 DEF Render, queue
  <2>2. CASE Write(w, "completed") /\ Moves(w, "ack")
    BY <1>7, <2>1, <2>2
  <2>3. CASE Moves(w, "fail") /\ UNCHANGED <<record, owned>>
    <3>1. at'[w] = "fail"
      BY <1>0, <2>3 DEF Moves, TypeOK
    <3>. QED  BY <1>5, <2>1, <2>3, <3>1
  <2>. QED  BY <1>8, <2>2, <2>3 DEF Render
<1>9. CASE SetFailed(w)
  BY <1>7, <1>9 DEF SetFailed, queue
<1>10. CASE CommandFails(w)
  <2>1. /\ at[w] \notin {"idle", "ack"} /\ faults' = faults + 1
        /\ UNCHANGED <<lastRead, batch, record, owned>>
    BY <1>10 DEF CommandFails, Fault, jobs, queue
  <2>. DEFINE job == Job(w)
              B == {job}
              f == [e \in B |-> e]
  <2>2. ASSUME NEW j \in Doomed', j # job PROVE j \in Doomed
    <3>1. \A e \in batch[w] : stream[e] = j => e # FirstOf(batch[w])
      BY <2>2 DEF Job
    <3>2. Hoped(j) => Hoped(j)'
      BY <1>1, <2>1, <3>1 DEF Hoped
    <3>. QED  BY <1>1, <2>1, <3>2, StillNotDoomed
  <2>3. IsFiniteSet(B) /\ Cardinality(B) <= BatchSize
    BY OneFits
  <2>4. {f[e] : e \in B} = {job}
    OBVIOUS
  <2>. HIDE DEF B, f, job
  <2>5. Doomed' \subseteq Doomed \cup {f[e] : e \in B}
    BY <2>2, <2>4
  <2>. QED  BY <1>0, <2>1, <2>3, <2>5, AtMostABatchDoomed
<1>11. CASE Ack(w)
  <2>1. /\ at[w] = "ack" /\ at'[w] # "ack" /\ UNCHANGED <<lastRead, record, owned>>
        /\ batch'[w] = batch[w] \ {FirstOf(batch[w])}
    BY <1>0, <1>11 DEF Ack, Moves, TypeOK, jobs, queue
  <2>2. ASSUME NEW j, Hoped(j) PROVE Hoped(j)'
    BY <1>1, <2>1, <2>2 DEF Hoped
  <2>3. Doomed' \subseteq Doomed
    BY <1>1, <2>1, <2>2, StillNotDoomed
  <2>. QED  BY <1>3, <2>3
<1>12. CASE Abandon(w)
  <2>1. /\ faults' = faults + 1 /\ UNCHANGED <<lastRead, record, owned>>
    BY <1>12 DEF Abandon, Fault, jobs, queue
  <2>2. Doomed' \subseteq Doomed \cup {stream[e] : e \in batch[w]}
    <3>. SUFFICES ASSUME NEW j \in Doomed', j \notin {stream[e] : e \in batch[w]}
                  PROVE  j \in Doomed
      OBVIOUS
    <3>1. Hoped(j) => Hoped(j)'
      BY <1>2, <2>1
    <3>. QED  BY <1>1, <2>1, <3>1, StillNotDoomed
  <2>3. IsFiniteSet(batch[w]) /\ Cardinality(batch[w]) <= BatchSize
    <3>1. batch[w] \in SUBSET (1..lastRead) /\ lastRead \in Nat
      BY <1>0, QueueTyped
    <3>2. lastRead \in Nat
      BY <3>1
    <3>3. IsFiniteSet(1..lastRead)
      BY <3>2, FS_Interval
    <3>4. IsFiniteSet(batch[w])
      BY <3>1, <3>3, FS_Subset
    <3>. QED  BY <3>4 DEF StuckInv, BatchesSmall
  <2>. QED  BY <1>0, <2>1, <2>2, <2>3, AtMostABatchDoomed
<1>. QED  BY <1>4, <1>6, <1>8, <1>9, <1>10, <1>11, <1>12

LEMMA StuckInvInit == Init => StuckInv
<1>. SUFFICES ASSUME Init PROVE StuckInv
  OBVIOUS
<1>1. /\ request = [r \in Requests |-> "new"] /\ record = [j \in Requests |-> "none"]
      /\ stream = <<>> /\ batch = [w \in Workers |-> {}] /\ at = [w \in Workers |-> "idle"]
      /\ faults = 0
  BY DEF Init
<1>2. OwnersKnown
  BY <1>1 DEF OwnersKnown
<1>3. BatchesSmall
  BY <1>1, FS_EmptySet DEF BatchesSmall
<1>4. Doomed = {}
  BY <1>1 DEF Doomed, Settled
<1>5. Cardinality(Doomed) <= BatchSize * faults
  BY <1>1, <1>4, FS_EmptySet
<1>. QED  BY <1>2, <1>3, <1>5, ExportInvInit DEF StuckInv

LEMMA StuckInvStep == StuckInv /\ [Next]_vars => StuckInv'
<1>. SUFFICES ASSUME StuckInv, [Next]_vars PROVE StuckInv'
  OBVIOUS
<1>1. ExportInv' /\ OwnersKnown' /\ BatchesSmall'
  BY ExportInvStep, OwnersStep, BatchesStep DEF StuckInv
<1>2. Cardinality(Doomed') <= BatchSize * faults'
  <2>1. CASE RequestStep
    BY <2>1, RequestDooms, ExpiryDooms DEF RequestStep
  <2>2. CASE WorkerStep
    BY <2>2, WorkerDooms DEF WorkerStep
  <2>3. CASE UNCHANGED vars
    BY <2>3, ExpiryDooms
  <2>. QED  BY <2>1, <2>2, <2>3 DEF Next
<1>. QED  BY <1>1, <1>2 DEF StuckInv

(* The jobs that nobody works on any more and that were not settled are    *)
(* at most a batch for each fault, besides those whose record expired.     *)
THEOREM StuckJobsArePaid == Spec => []StuckNeedsFaults
<1>1. StuckInv => StuckNeedsFaults
  <2>. SUFFICES ASSUME StuckInv PROVE StuckNeedsFaults
    OBVIOUS
  <2>. DEFINE Stuck == {j \in Requests : ~Settled(j) /\ ~Waiting(j)}
  <2>1. Stuck \subseteq Doomed \cup expired
    BY DEF Doomed, Hoped, Waiting
  <2>2. expired \in SUBSET Requests /\ faults \in Nat
    BY DEF StuckInv, ExportInv, TypeOK
  <2>3. IsFiniteSet(Requests)
    BY FS_Interval DEF Requests
  <2>4. IsFiniteSet(expired) /\ Cardinality(expired) \in Nat
    BY <2>2, <2>3, FS_Subset, FS_CardinalityType
  <2>5. IsFiniteSet(Doomed \cap expired) /\ Cardinality(Doomed \cap expired) \in Nat
    BY <2>4, FS_Intersection, FS_CardinalityType, DoomedFinite
  <2>6. /\ IsFiniteSet(Doomed \cup expired)
        /\ Cardinality(Doomed \cup expired) =
             Cardinality(Doomed) + Cardinality(expired) - Cardinality(Doomed \cap expired)
    BY <2>4, FS_Union, DoomedFinite
  <2>7. /\ Cardinality(Stuck) <= Cardinality(Doomed \cup expired)
        /\ Cardinality(Stuck) \in Nat /\ Cardinality(Doomed \cup expired) \in Nat
    BY <2>1, <2>6, FS_Subset, FS_CardinalityType
  <2>8. Cardinality(Doomed) <= BatchSize * faults /\ BatchSize * faults \in Nat
    BY <2>2 DEF StuckInv
  <2>. HIDE DEF Stuck
  <2>9. Cardinality(Stuck) <= BatchSize * faults + Cardinality(expired)
    BY <2>4, <2>5, <2>6, <2>7, <2>8, DoomedFinite
  <2>. QED  BY <2>9 DEF StuckNeedsFaults, Stuck
<1>. QED  BY <1>1, StuckInvInit, StuckInvStep, PTL DEF Spec

=============================================================================
