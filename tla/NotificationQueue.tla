-------------------------- MODULE NotificationQueue --------------------------
(***************************************************************************)
(* Push notifications (app/notifications/service.py and                    *)
(* app/workers/notification_worker.py): a stream with a consumer group,    *)
(* and a sorted set in which failed notifications wait for their next      *)
(* attempt.                                                                *)
(*                                                                         *)
(* A worker asks whether the recipient came online, sends to every active  *)
(* device, records one row per result in a transaction of its own, and     *)
(* only then either acknowledges the entry or adds its successor to the    *)
(* sorted set and acknowledges it.  Any exception leaves process_once: the *)
(* rest of the batch is forgotten, and taken over once it has been idle    *)
(* for notification_pending_idle_ms.                                       *)
(*                                                                         *)
(* Presence, devices and the answers of the providers are free choices at  *)
(* the moment they are asked for.  Time appears as choices too: when an    *)
(* entry falls due, and whether a worker whose clock is behind finds one   *)
(* early.  faults counts errors and crashes, overruns the entries taken    *)
(* over from a live worker, skews the entries found early; MaxTroubles     *)
(* bounds their sum.  The stream stays below its MAXLEN, and every entry   *)
(* is well-formed: enqueue_notification writes no other.  Its account, its *)
(* message and its devices are not deleted on the way.                     *)
(***************************************************************************)
EXTENDS Naturals, Sequences, FiniteSets

CONSTANTS Items,        \* notifications: a message and a recipient
          Workers,      \* worker processes
          MaxAttempts,  \* settings.notification_max_attempts
          MaxDevices,   \* bound on the active devices of a recipient
          BatchSize,    \* settings.notification_batch_size
          MaxTroubles   \* bound on faults, overruns and skews together

ASSUME NotificationAssumption ==
    /\ MaxAttempts \in Nat \ {0} /\ MaxDevices \in Nat \ {0}
    /\ BatchSize \in Nat \ {0} /\ MaxTroubles \in Nat

(* An entry, in the stream or in the sorted set: a notification and how    *)
(* often it was attempted.                                                 *)
Entry == [item : Items, attempts : 0..(MaxAttempts - 1)]

(* What the devices of a recipient answered.                               *)
Results == UNION {[1..n -> BOOLEAN] : n \in 1..MaxDevices}

VARIABLES
    stream,     \* entries of the notify stream
    lastRead,   \* the group's last-delivered-id
    pending,    \* its pending entries list
    idle,       \* pending entries whose idle time has passed
    delayed,    \* members of the sorted set that hold an entry
    batch,      \* entries a worker has yet to finish
    at,         \* where it is in the first of them
    results,    \* what the devices answered it
    recorded,   \* how many of these answers it has recorded
    attempts,   \* rows of notification_attempts: item, attempt_no, success
    excused,    \* items seen online or without an active device
    rounds,     \* how often an item was sent to the devices
    pushed,     \* how often that reached one
    faults, overruns, skews

queue  == <<stream, lastRead, pending, idle, delayed>>
worker == <<batch, at, results, recorded>>
log    == <<attempts, excused, rounds, pushed>>
counts == <<faults, overruns, skews>>
vars   == <<queue, worker, log, counts>>

Location == {"idle", "check", "send", "record", "retry", "ack"}

TypeOK ==
    /\ stream \in Seq(Entry)
    /\ lastRead \in 0..Len(stream)
    /\ pending \subseteq 1..lastRead
    /\ idle \subseteq pending
    /\ delayed \in [Entry -> Nat]
    /\ batch \in [Workers -> SUBSET (1..lastRead)]
    /\ at \in [Workers -> Location]
    /\ results \in [Workers -> Results \cup {<<>>}]
    /\ recorded \in [Workers -> 0..MaxDevices]
    /\ attempts \subseteq Items \X (1..MaxAttempts) \X BOOLEAN
    /\ excused \subseteq Items
    /\ rounds \in [Items -> Nat] /\ pushed \in [Items -> Nat]
    /\ faults \in Nat /\ overruns \in Nat /\ skews \in Nat
    /\ faults + overruns + skews <= MaxTroubles

Init ==
    /\ stream = <<>> /\ lastRead = 0 /\ pending = {} /\ idle = {}
    /\ delayed = [d \in Entry |-> 0]
    /\ batch = [w \in Workers |-> {}]
    /\ at = [w \in Workers |-> "idle"]
    /\ results = [w \in Workers |-> <<>>]
    /\ recorded = [w \in Workers |-> 0]
    /\ attempts = {} /\ excused = {}
    /\ rounds = [i \in Items |-> 0] /\ pushed = [i \in Items |-> 0]
    /\ faults = 0 /\ overruns = 0 /\ skews = 0

Held(e) == \E w \in Workers : e \in batch[w]

Trouble == faults + overruns + skews < MaxTroubles

Fault == Trouble /\ faults' = faults + 1 /\ UNCHANGED <<overruns, skews>>

Busy(w, location, e) == at[w] = location /\ e \in batch[w] /\ \A f \in batch[w] : e <= f

Goto(w, location) == at' = [at EXCEPT ![w] = location] /\ UNCHANGED batch

FirstOf(S) == {e \in S : Cardinality({f \in S : f < e}) < BatchSize}

(* A worker goes on with the entries S.                                    *)
Continue(w, S) ==
    /\ batch' = [batch EXCEPT ![w] = S]
    /\ at' = [at EXCEPT ![w] = IF S = {} THEN "idle" ELSE "check"]
    /\ results' = [results EXCEPT ![w] = <<>>]
    /\ recorded' = [recorded EXCEPT ![w] = 0]

(* enqueue_notification with a due time ahead.  The member holds the due   *)
(* time as well, so that it replaces an equal one only if both fall due in *)
(* the same millisecond.                                                   *)
Delay(d) ==
    \/ delayed' = [delayed EXCEPT ![d] = @ + 1]
    \/ delayed[d] > 0 /\ UNCHANGED delayed

-----------------------------------------------------------------------------
Enqueued == {stream[e].item : e \in DOMAIN stream}

(* enqueue_notification without a due time, called once by a delivery      *)
(* worker (DeliveryWorker!Hand).                                           *)
Enqueue(i) ==
    /\ i \notin Enqueued
    /\ stream' = Append(stream, [item |-> i, attempts |-> 0])
    /\ UNCHANGED <<lastRead, pending, idle, delayed, worker, log, counts>>

(* promote_due_notifications, at the start of process_once: a Lua script   *)
(* that moves what is due in one step.  A batch is a run of these steps.   *)
Promote(w, d) ==
    /\ at[w] = "idle" /\ delayed[d] > 0
    /\ delayed' = [delayed EXCEPT ![d] = @ - 1]
    /\ stream' = Append(stream, d)
    /\ UNCHANGED <<lastRead, pending, idle, worker, log, counts>>

(* Deliberately wrong: pending entries are never taken over.               *)
ReclaimNothing(w) ==
    /\ at[w] = "idle" /\ idle # {}
    /\ FALSE
    /\ UNCHANGED vars

(* process_once: idle entries first, at most a batch of them ...           *)
Reclaim(w) ==
    /\ at[w] = "idle" /\ idle # {}
    /\ Continue(w, FirstOf(idle))
    /\ idle' = idle \ FirstOf(idle)
    /\ UNCHANGED <<stream, lastRead, pending, delayed, log, counts>>

(* ... and new ones only if there are none.                                *)
ReadNew(w) ==
    /\ at[w] = "idle" /\ idle = {} /\ lastRead < Len(stream)
    /\ LET new == FirstOf((lastRead + 1)..Len(stream))
       IN  /\ Continue(w, new)
           /\ pending' = pending \cup new
           /\ lastRead' = lastRead + Cardinality(new)
    /\ UNCHANGED <<stream, idle, delayed, log, counts>>

-----------------------------------------------------------------------------
(* _process_entry.  An entry that this worker's clock says is early goes   *)
(* back to the sorted set as it is.                                        *)
Park(w, e) ==
    /\ Busy(w, "check", e)
    /\ Trouble /\ skews' = skews + 1
    /\ Delay(stream[e])
    /\ Goto(w, "ack")
    /\ UNCHANGED <<stream, lastRead, pending, idle, results, recorded, log, faults, overruns>>

(* The recipient came online while the entry was queued ...                *)
FindOnline(w, e) ==
    /\ Busy(w, "check", e)
    /\ excused' = excused \cup {stream[e].item}
    /\ Goto(w, "ack")
    /\ UNCHANGED <<queue, results, recorded, attempts, rounds, pushed, counts>>

(* ... or did not ...                                                      *)
FindOffline(w, e) ==
    /\ Busy(w, "check", e)
    /\ Goto(w, "send")
    /\ UNCHANGED <<queue, results, recorded, log, counts>>

(* ... and has no active device ...                                        *)
FindNoDevice(w, e) ==
    /\ Busy(w, "send", e)
    /\ excused' = excused \cup {stream[e].item}
    /\ Goto(w, "ack")
    /\ UNCHANGED <<queue, results, recorded, attempts, rounds, pushed, counts>>

Reached(r) == \E n \in DOMAIN r : r[n]

(* ... or some, each of which is sent the notification.                    *)
Send(w, e) ==
    /\ Busy(w, "send", e)
    /\ \E r \in Results :
          /\ results' = [results EXCEPT ![w] = r]
          /\ pushed' = [pushed EXCEPT ![stream[e].item] = IF Reached(r) THEN @ + 1 ELSE @]
    /\ rounds' = [rounds EXCEPT ![stream[e].item] = @ + 1]
    /\ Goto(w, "record")
    /\ UNCHANGED <<queue, recorded, attempts, excused, counts>>

LastAttempt(e) == stream[e].attempts + 1 >= MaxAttempts

Row(w, e) == <<stream[e].item, stream[e].attempts + 1, results[w][recorded[w] + 1]>>

(* The worker goes on to the next of the answers, or with none left.       *)
NextAnswer(w, location) ==
    IF recorded[w] + 1 < Len(results[w])
    THEN recorded' = [recorded EXCEPT ![w] = @ + 1] /\ UNCHANGED <<batch, at, results>>
    ELSE /\ Goto(w, location)
         /\ results' = [results EXCEPT ![w] = <<>>]
         /\ recorded' = [recorded EXCEPT ![w] = 0]

(* Deliberately wrong: the entry is acknowledged before its retry.         *)
RecordThenAck(w, e) ==
    /\ Busy(w, "record", e)
    /\ attempts' = attempts \cup {Row(w, e)}
    /\ NextAnswer(w, IF Reached(results[w]) \/ LastAttempt(e) THEN "ack" ELSE "retry")
    /\ pending' = IF at'[w] = "retry" THEN pending \ {e} ELSE pending
    /\ idle' = idle \cap pending'
    /\ UNCHANGED <<stream, lastRead, delayed, excused, rounds, pushed, counts>>

(* Deliberately wrong: every device has to be reached.                     *)
RecordAll(w, e) ==
    /\ Busy(w, "record", e)
    /\ attempts' = attempts \cup {Row(w, e)}
    /\ NextAnswer(w, IF (\A n \in DOMAIN results[w] : results[w][n]) \/ LastAttempt(e)
                     THEN "ack" ELSE "retry")
    /\ UNCHANGED <<queue, excused, rounds, pushed, counts>>

(* record_attempt, for one result.  After the last one the entry is done   *)
(* if any device was reached or the attempts are used up.                  *)
Record(w, e) ==
    /\ Busy(w, "record", e)
    /\ attempts' = attempts \cup {Row(w, e)}
    /\ NextAnswer(w, IF Reached(results[w]) \/ LastAttempt(e) THEN "ack" ELSE "retry")
    /\ UNCHANGED <<queue, excused, rounds, pushed, counts>>

(* Deliberately wrong: the attempt is not counted.                         *)
RetrySame(w, e) ==
    /\ Busy(w, "retry", e)
    /\ Delay(stream[e])
    /\ Goto(w, "ack")
    /\ UNCHANGED <<stream, lastRead, pending, idle, results, recorded, log, counts>>

(* _retry: the successor, due after the back-off.                          *)
Retry(w, e) ==
    /\ Busy(w, "retry", e)
    /\ Delay([stream[e] EXCEPT !.attempts = @ + 1])
    /\ Goto(w, "ack")
    /\ UNCHANGED <<stream, lastRead, pending, idle, results, recorded, log, counts>>

(* xack.                                                                   *)
Ack(w, e) ==
    /\ Busy(w, "ack", e)
    /\ pending' = pending \ {e}
    /\ idle' = idle \ {e}
    /\ Continue(w, batch[w] \ {e})
    /\ UNCHANGED <<stream, lastRead, delayed, log, counts>>

-----------------------------------------------------------------------------
(* The process dies, or a call raises and the exception leaves             *)
(* process_once.                                                           *)
Abandon(w) ==
    /\ at[w] # "idle"
    /\ Fault
    /\ Continue(w, {})
    /\ UNCHANGED <<queue, log>>

(* It dies after a device was sent the notification and before the answers *)
(* are in.                                                                 *)
DieSending(w, e) ==
    /\ Busy(w, "send", e)
    /\ Fault
    /\ Continue(w, {})
    /\ rounds' = [rounds EXCEPT ![stream[e].item] = @ + 1]
    /\ pushed' \in {pushed, [pushed EXCEPT ![stream[e].item] = @ + 1]}
    /\ UNCHANGED <<queue, attempts, excused>>

(* The idle time of an entry nobody works on, and of one whose worker is   *)
(* slow: a batch of a hundred waits for up to 5 s per device and entry.    *)
OrphanIdles(e) ==
    /\ e \in pending \ idle /\ ~Held(e)
    /\ idle' = idle \cup {e}
    /\ UNCHANGED <<stream, lastRead, pending, delayed, worker, log, counts>>

HolderOverruns(e) ==
    /\ e \in pending \ idle /\ Held(e)
    /\ Trouble /\ overruns' = overruns + 1
    /\ idle' = idle \cup {e}
    /\ UNCHANGED <<stream, lastRead, pending, delayed, worker, log, faults, skews>>

-----------------------------------------------------------------------------
WorkerStep(w, e) ==
    \/ Park(w, e) \/ FindOnline(w, e) \/ FindOffline(w, e) \/ FindNoDevice(w, e)
    \/ Send(w, e) \/ Record(w, e) \/ Retry(w, e) \/ Ack(w, e)

Next ==
    \/ \E i \in Items : Enqueue(i)
    \/ \E w \in Workers : Reclaim(w) \/ ReadNew(w) \/ Abandon(w)
    \/ \E w \in Workers, d \in Entry : Promote(w, d)
    \/ \E w \in Workers, e \in DOMAIN stream : WorkerStep(w, e) \/ DieSending(w, e)
    \/ \E e \in DOMAIN stream : OrphanIdles(e) \/ HolderOverruns(e)

Spec == Init /\ [][Next]_vars

(* run_notification_worker loops for ever, whatever raises, and the clock  *)
(* advances: idle times pass and delayed entries fall due.                 *)
Fairness ==
    /\ \A w \in Workers : /\ WF_vars(Reclaim(w) \/ ReadNew(w))
                          /\ WF_vars(\E e \in DOMAIN stream : WorkerStep(w, e))
    /\ WF_vars(\E e \in DOMAIN stream : OrphanIdles(e))
    /\ \A d \in Entry : WF_vars(\E w \in Workers : Promote(w, d))

FairSpec == Spec /\ Fairness

-----------------------------------------------------------------------------
Unacked == {e \in DOMAIN stream : e > lastRead \/ e \in pending}

InFlight(i) ==
    \/ \E e \in Unacked : stream[e].item = i
    \/ \E d \in Entry : d.item = i /\ delayed[d] > 0

Failed(i, k) == \A n \in 1..k : <<i, n, FALSE>> \in attempts

(* A notification is in flight until a worker found its recipient online   *)
(* or without a device, recorded that a device was reached, or recorded a  *)
(* failure under every attempt number: no crash, error or hand-over        *)
(* between two workers drops it before.                                    *)
NothingDropped ==
    \A i \in Enqueued :
        \/ InFlight(i)
        \/ i \in excused
        \/ \E n \in 1..MaxAttempts : <<i, n, TRUE>> \in attempts
        \/ Failed(i, MaxAttempts)

(* The number an entry carries is what was recorded of it: attempts 1 to n *)
(* failed before an entry with attempts = n exists anywhere.               *)
RetriesAreRecorded ==
    /\ \A e \in DOMAIN stream : Failed(stream[e].item, stream[e].attempts)
    /\ \A d \in Entry : delayed[d] > 0 => Failed(d.item, d.attempts)

AllRounds == UNION {{i} \X (1..rounds[i]) : i \in Items}
RepeatedPushes == UNION {{i} \X (2..pushed[i]) : i \in Items}

(* notification_max_attempts bounds the rounds of a notification, although *)
(* the count travels in the entries: a fault, or a worker that overruns,   *)
(* starts one further chain of attempts at most.                           *)
RoundsNeedFaults ==
    Cardinality(AllRounds) <= MaxAttempts * (Cardinality(Enqueued) + faults + overruns)

(* A recipient is pushed a notification again only if a fault or an        *)
(* overrun split its chain of attempts, and then once for each.            *)
PushedAgainNeedsFaults == Cardinality(RepeatedPushes) <= faults + overruns

(* Every notification leaves the queue in the end.                         *)
EventuallySettled == \A i \in Items : i \in Enqueued ~> ~InFlight(i)

=============================================================================
