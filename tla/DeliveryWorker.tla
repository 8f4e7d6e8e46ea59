---------------------------- MODULE DeliveryWorker ----------------------------
(***************************************************************************)
(* The delivery workers (app/workers/delivery_worker.py): a Redis consumer *)
(* group over the stream the outbox relays write.                          *)
(*                                                                         *)
(* An entry of type 'message.created' is handed to its recipients one at a *)
(* time, each guarded by a dedupe key in Redis; an entry of type           *)
(* 'message.delivered' or 'message.read' is fanned out to the members of   *)
(* its conversation, with no such guard; anything else is acknowledged and *)
(* dropped.  An entry a worker does not acknowledge stays in the group's   *)
(* pending list and is taken over once it has been idle for               *)
(* delivery_pending_idle_ms, whether its worker died or is merely slow.    *)
(*                                                                         *)
(* Whether a recipient has a live socket decides only if it is handed the  *)
(* message on its realtime stream or as a notification; both are one       *)
(* hand-over here.  faults counts errors, crashes and expired keys,        *)
(* overruns the entries taken over from a live worker; MaxFaults and       *)
(* MaxOverruns bound them.  The stream stays below its MAXLEN, and all its *)
(* entries are about one conversation.                                     *)
(***************************************************************************)
EXTENDS Naturals, Sequences, FiniteSets

CONSTANTS Subjects,    \* what entries report: a message created, or one update of it
          Users,
          Workers,     \* worker processes
          Stream,      \* the entries the relays will have added, in order
          BatchSize,   \* settings.delivery_batch_size
          MaxFaults,   \* bound on errors, crashes and expired keys
          MaxOverruns  \* bound on entries taken over from a live worker

Kind == {"created", "updated", "other"}

ASSUME DeliveryAssumption ==
    /\ Stream \in Seq([kind : Kind, subject : Subjects, to : Seq(Users)])
    /\ \A d, e \in DOMAIN Stream :   \* entries with one subject copy one outbox event
          Stream[d].subject = Stream[e].subject => Stream[d] = Stream[e]
    /\ IsFiniteSet(Users)
    /\ BatchSize \in Nat \ {0}
    /\ MaxFaults \in Nat /\ MaxOverruns \in Nat

Entries == DOMAIN Stream
Recipients(e) == {Stream[e].to[i] : i \in DOMAIN Stream[e].to}

(* Who is to get what.                                                     *)
Pairs == UNION {{Stream[e].subject} \X Recipients(e) : e \in Entries}

VARIABLES
    length,     \* entries added so far
    lastRead,   \* the group's last-delivered-id
    pending,    \* its pending entries list
    idle,       \* pending entries whose idle time has passed
    batch,      \* entries a worker has yet to finish
    at, pos,    \* where it is in the first of them, and with which recipient
    handed,     \* how often a user was handed a subject
    done,       \* the dedupe keys that are set
    marked,     \* message_recipients.delivered_at is set
    deleted,    \* is the conversation gone?
    faults, overruns

redis  == <<handed, done>>
counts == <<faults, overruns>>
vars   == <<length, lastRead, pending, idle, batch, at, pos, handed, done, marked,
           deleted, faults, overruns>>

Location == {"idle", "check", "hand", "setkey", "mark", "members", "fanout", "ack"}

TypeOK ==
    /\ length \in 0..Len(Stream)
    /\ lastRead \in 0..length
    /\ pending \subseteq 1..lastRead
    /\ idle \subseteq pending
    /\ batch \in [Workers -> SUBSET (1..lastRead)]
    /\ at \in [Workers -> Location]
    /\ pos \in [Workers -> Nat \ {0}]
    /\ handed \in [Pairs -> Nat]
    /\ done \subseteq Pairs
    /\ marked \subseteq Pairs
    /\ deleted \in BOOLEAN
    /\ faults \in 0..MaxFaults /\ overruns \in 0..MaxOverruns

Init ==
    /\ length = 0 /\ lastRead = 0
    /\ pending = {} /\ idle = {}
    /\ batch = [w \in Workers |-> {}]
    /\ at = [w \in Workers |-> "idle"]
    /\ pos = [w \in Workers |-> 1]
    /\ handed = [p \in Pairs |-> 0]
    /\ done = {} /\ marked = {} /\ deleted = FALSE
    /\ faults = 0 /\ overruns = 0

Held(e) == \E w \in Workers : e \in batch[w]

Fault == faults < MaxFaults /\ faults' = faults + 1 /\ UNCHANGED overruns

-----------------------------------------------------------------------------
(* Where _process_event starts with an entry.  A message without           *)
(* recipients, such as one in a conversation of one, is done at once.      *)
Entrance(e) ==
    CASE Stream[e].kind = "updated" -> "members"
      [] Stream[e].kind = "created" /\ Stream[e].to # <<>> -> "check"
      [] OTHER -> "ack"

FirstOf(S) == {e \in S : Cardinality({f \in S : f < e}) < BatchSize}
Lowest(S) == CHOOSE e \in S : \A f \in S : e <= f

(* A worker goes on with the entries S.                                    *)
Continue(w, S) ==
    /\ batch' = [batch EXCEPT ![w] = S]
    /\ at' = [at EXCEPT ![w] = IF S = {} THEN "idle" ELSE Entrance(Lowest(S))]
    /\ pos' = [pos EXCEPT ![w] = 1]

Goto(w, location) == at' = [at EXCEPT ![w] = location] /\ UNCHANGED <<batch, pos>>

Busy(w, location, e) == at[w] = location /\ e \in batch[w] /\ \A f \in batch[w] : e <= f

(* The subject and the recipient a worker is busy with.                    *)
Pair(w, e) == <<Stream[e].subject, Stream[e].to[pos[w]]>>

NextRecipient(w, e, location) ==
    /\ UNCHANGED batch
    /\ IF pos[w] < Len(Stream[e].to)
       THEN at' = [at EXCEPT ![w] = location] /\ pos' = [pos EXCEPT ![w] = @ + 1]
       ELSE at' = [at EXCEPT ![w] = "ack"] /\ UNCHANGED pos

HandOver(p) == [handed EXCEPT ![p] = @ + 1]

-----------------------------------------------------------------------------
(* An outbox relay adds the next entry (OutboxRelay!Publish).              *)
Relayed ==
    /\ length < Len(Stream)
    /\ length' = length + 1
    /\ UNCHANGED <<lastRead, pending, idle, batch, at, pos, redis, marked, deleted, counts>>

(* Deliberately wrong: pending entries are never taken over.               *)
ReclaimNothing(w) ==
    /\ at[w] = "idle" /\ idle # {}
    /\ FALSE
    /\ UNCHANGED vars

(* process_once: idle entries first, at most a batch of them ...           *)
Reclaim(w) ==
    /\ at[w] = "idle" /\ idle # {}
    /\ Continue(w, FirstOf(idle))
    /\ idle' = idle \ FirstOf(idle)
    /\ UNCHANGED <<length, lastRead, pending, redis, marked, deleted, counts>>

(* ... and new ones only if there are none.                                *)
ReadNew(w) ==
    /\ at[w] = "idle" /\ idle = {} /\ lastRead < length
    /\ LET new == FirstOf((lastRead + 1)..length)
       IN  /\ Continue(w, new)
           /\ pending' = pending \cup new
           /\ lastRead' = lastRead + Cardinality(new)
    /\ UNCHANGED <<length, idle, redis, marked, deleted, counts>>

(* Deliberately wrong: the dedupe key is not looked up.                    *)
CheckNothing(w, e) ==
    /\ Busy(w, "check", e)
    /\ Goto(w, "hand")
    /\ UNCHANGED <<length, lastRead, pending, idle, redis, marked, deleted, counts>>

(* A recipient whose key is set is skipped.                                *)
Check(w, e) ==
    /\ Busy(w, "check", e)
    /\ IF Pair(w, e) \in done
       THEN NextRecipient(w, e, "check")
       ELSE Goto(w, "hand")
    /\ UNCHANGED <<length, lastRead, pending, idle, redis, marked, deleted, counts>>

Hand(w, e) ==
    /\ Busy(w, "hand", e)
    /\ handed' = HandOver(Pair(w, e))
    /\ Goto(w, "setkey")
    /\ UNCHANGED <<length, lastRead, pending, idle, done, marked, deleted, counts>>

(* Deliberately wrong: the recipient is not marked delivered.              *)
SetKeyOnly(w, e) ==
    /\ Busy(w, "setkey", e)
    /\ done' = done \cup {Pair(w, e)}
    /\ NextRecipient(w, e, "check")
    /\ UNCHANGED <<length, lastRead, pending, idle, handed, marked, deleted, counts>>

(* setex dedupe_key.                                                       *)
SetKey(w, e) ==
    /\ Busy(w, "setkey", e)
    /\ done' = done \cup {Pair(w, e)}
    /\ Goto(w, "mark")
    /\ UNCHANGED <<length, lastRead, pending, idle, handed, marked, deleted, counts>>

(* acknowledge_delivered in a session of its own; nothing happens if the   *)
(* message is gone.                                                        *)
Mark(w, e) ==
    /\ Busy(w, "mark", e)
    /\ marked' = IF deleted THEN marked ELSE marked \cup {Pair(w, e)}
    /\ NextRecipient(w, e, "check")
    /\ UNCHANGED <<length, lastRead, pending, idle, redis, deleted, counts>>

(* Its exceptions are swallowed.                                           *)
MarkRaises(w, e) ==
    /\ Busy(w, "mark", e)
    /\ Fault
    /\ NextRecipient(w, e, "check")
    /\ UNCHANGED <<length, lastRead, pending, idle, redis, marked, deleted>>

(* list_active_member_ids, less the user the event is about; a deleted     *)
(* conversation has none.                                                  *)
Members(w, e) ==
    /\ Busy(w, "members", e)
    /\ IF deleted \/ Stream[e].to = <<>>
       THEN Goto(w, "ack")
       ELSE Goto(w, "fanout")
    /\ UNCHANGED <<length, lastRead, pending, idle, redis, marked, deleted, counts>>

Fanout(w, e) ==
    /\ Busy(w, "fanout", e)
    /\ handed' = HandOver(Pair(w, e))
    /\ NextRecipient(w, e, "fanout")
    /\ UNCHANGED <<length, lastRead, pending, idle, done, marked, deleted, counts>>

(* Deliberately wrong: the failure of one recipient is passed over.        *)
DispatchRaisesIgnored(w, e) ==
    /\ Fault
    /\ Busy(w, "hand", e)
    /\ NextRecipient(w, e, "check")
    /\ UNCHANGED <<length, lastRead, pending, idle, redis, marked, deleted>>

(* Redis fails in the hand-over or in setex, before or after it applied    *)
(* the command: the entry is left unacknowledged and the loop goes on.     *)
DispatchRaises(w, e) ==
    /\ Fault
    /\ \/ /\ Busy(w, "hand", e) \/ Busy(w, "fanout", e)
          /\ handed' \in {handed, HandOver(Pair(w, e))}
          /\ UNCHANGED done
       \/ /\ Busy(w, "setkey", e)
          /\ done' \in {done, done \cup {Pair(w, e)}}
          /\ UNCHANGED handed
    /\ Continue(w, batch[w] \ {e})
    /\ UNCHANGED <<length, lastRead, pending, idle, marked, deleted>>

(* xack.                                                                   *)
Ack(w, e) ==
    /\ Busy(w, "ack", e)
    /\ pending' = pending \ {e}
    /\ idle' = idle \ {e}
    /\ Continue(w, batch[w] \ {e})
    /\ UNCHANGED <<length, lastRead, redis, marked, deleted, counts>>

-----------------------------------------------------------------------------
(* The process dies, or a call outside the try statements raises and the   *)
(* exception leaves process_once: the rest of the batch is forgotten.      *)
Abandon(w) ==
    /\ at[w] # "idle"
    /\ Fault
    /\ Continue(w, {})
    /\ UNCHANGED <<length, lastRead, pending, idle, redis, marked, deleted>>

(* The idle time of an entry nobody works on, and of one whose worker is   *)
(* slow.                                                                   *)
OrphanIdles(e) ==
    /\ e \in pending \ idle /\ ~Held(e)
    /\ idle' = idle \cup {e}
    /\ UNCHANGED <<length, lastRead, pending, batch, at, pos, redis, marked, deleted, counts>>

HolderOverruns(e) ==
    /\ e \in pending \ idle /\ Held(e)
    /\ overruns < MaxOverruns
    /\ overruns' = overruns + 1
    /\ idle' = idle \cup {e}
    /\ UNCHANGED <<length, lastRead, pending, batch, at, pos, redis, marked, deleted, faults>>

(* delivery_recipient_dedupe_ttl_seconds pass.                             *)
KeyExpires(p) ==
    /\ p \in done
    /\ Fault
    /\ done' = done \ {p}
    /\ UNCHANGED <<length, lastRead, pending, idle, batch, at, pos, handed, marked, deleted>>

DeleteConversation ==
    /\ ~deleted
    /\ deleted' = TRUE
    /\ UNCHANGED <<length, lastRead, pending, idle, batch, at, pos, redis, marked, counts>>

-----------------------------------------------------------------------------
WorkerStep(w, e) ==
    \/ Check(w, e) \/ Hand(w, e) \/ SetKey(w, e) \/ Mark(w, e)
    \/ Members(w, e) \/ Fanout(w, e) \/ Ack(w, e)

Next ==
    \/ Relayed
    \/ \E w \in Workers : Reclaim(w) \/ ReadNew(w) \/ Abandon(w)
    \/ \E w \in Workers, e \in Entries :
          WorkerStep(w, e) \/ MarkRaises(w, e) \/ DispatchRaises(w, e)
    \/ \E e \in Entries : OrphanIdles(e) \/ HolderOverruns(e)
    \/ \E p \in Pairs : KeyExpires(p)
    \/ DeleteConversation

Spec == Init /\ [][Next]_vars

(* The runners loop for ever and the clock advances; faults are finitely   *)
(* many and never required.                                                *)
Fairness ==
    /\ \A w \in Workers : /\ WF_vars(Reclaim(w) \/ ReadNew(w))
                          /\ WF_vars(\E e \in Entries : WorkerStep(w, e))
    /\ \A e \in Entries : WF_vars(OrphanIdles(e))

FairSpec == Spec /\ Fairness

-----------------------------------------------------------------------------
Acked == (1..lastRead) \ pending
Carrying(p) == {e \in 1..length : Stream[e].subject = p[1] /\ p[2] \in Recipients(e)}

(* An acknowledged message was handed to every recipient, however often    *)
(* its entry changed hands, and an acknowledged update to every member     *)
(* unless the conversation was deleted.                                    *)
AckedIsHanded ==
    \A e \in Acked : \A u \in Recipients(e) :
        \/ handed[<<Stream[e].subject, u>>] > 0
        \/ Stream[e].kind = "updated" /\ deleted
        \/ Stream[e].kind = "other"

Created == {e \in 1..length : Stream[e].kind = "created"}
Repeats == Cardinality(Created) - Cardinality({Stream[e].subject : e \in Created})
MessagePairs == {p \in Pairs : \E e \in Carrying(p) : Stream[e].kind = "created"}
Duplicates == UNION {{p} \X (2..handed[p]) : p \in MessagePairs}

(* A fault makes at most one recipient get a message again, however many   *)
(* the message has and how often its entry is retried: once, or, when a    *)
(* key expires, from every worker that has the message.  Only two workers  *)
(* with the message at once, after an overrun or because the relays wrote  *)
(* it twice, can repeat it to all of them.                                 *)
DuplicatesNeedFaults ==
    Cardinality(Duplicates)
        <= faults * (1 + overruns + Repeats) + Cardinality(Users) * (overruns + Repeats)

Marking(p) == \E w \in Workers, e \in Entries : Busy(w, "mark", e) /\ Pair(w, e) = p

(* A recipient whose key is set is marked delivered, or is just being      *)
(* marked; each fault loses at most one mark.                              *)
LostMarksNeedFaults ==
    ~deleted => Cardinality({p \in done \ marked : ~Marking(p)}) <= faults

(* Every entry is acknowledged in the end.                                 *)
EventuallyAcked == \A e \in Entries : e <= length ~> e \in Acked

(* The workers implement the promise of ReliableRelay towards each         *)
(* recipient of a message, liveness included.                              *)
Promise == INSTANCE ReliableRelay WITH
    Events   <- Pairs,
    accepted <- MessagePairs,
    relayed  <- {p \in MessagePairs : handed[p] > 0}

ImplementsPromise == Promise!Spec

=============================================================================
