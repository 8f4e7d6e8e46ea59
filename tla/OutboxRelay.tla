----------------------------- MODULE OutboxRelay -----------------------------
(***************************************************************************)
(* The transactional outbox and the relay processes that drain it          *)
(* (app/workers/outbox_relay.py over app/messaging/repositories.py).       *)
(*                                                                         *)
(* A request inserts rows in outbox_events; each relay process claims a    *)
(* batch in one transaction, XADDs the events one at a time and marks each *)
(* row in a transaction of its own.  Any number of relays run, and nothing *)
(* ties a row in 'processing' to the relay that claimed it: a relay that   *)
(* outlives the processing timeout goes on working on rows that another    *)
(* one has claimed meanwhile.                                              *)
(*                                                                         *)
(* Time is abstracted to one Boolean per row: whether the instant the      *)
(* claim query compares with (next_attempt_at, or processing_started_at    *)
(* plus the timeout) has passed.  faults counts the errors, crashes and    *)
(* overruns of a behaviour; MaxFaults bounds it.                           *)
(***************************************************************************)
EXTENDS Naturals, Sequences, FiniteSets

CONSTANTS Events,      \* primary keys of outbox_events
          Relays,      \* relay processes
          BatchSize,   \* settings.outbox_relay_batch_size
          MaxFaults    \* bound on errors, crashes and overruns

ASSUME OutboxAssumption ==
    /\ Events \subseteq Nat
    /\ BatchSize \in Nat \ {0}
    /\ MaxFaults \in Nat

VARIABLES
    status,    \* outbox_events.status ("absent": not committed yet)
    elapsed,   \* has the row's next_attempt_at, or its claim timeout, passed?
    batch,     \* events of process_once's loop that a relay has not finished
    at,        \* where a relay is in that loop
    stream,    \* entries of the delivery stream, oldest first
    faults

vars == <<status, elapsed, batch, at, stream, faults>>

Status   == {"absent", "pending", "processing", "failed", "published"}
Location == {"idle", "publish", "mark", "fail"}

TypeOK ==
    /\ status \in [Events -> Status]
    /\ elapsed \in [Events -> BOOLEAN]
    /\ batch \in [Relays -> SUBSET Events]
    /\ at \in [Relays -> Location]
    /\ stream \in Seq(Events)
    /\ faults \in 0..MaxFaults

Init ==
    /\ status = [e \in Events |-> "absent"]
    /\ elapsed = [e \in Events |-> FALSE]
    /\ batch = [r \in Relays |-> {}]
    /\ at = [r \in Relays |-> "idle"]
    /\ stream = <<>>
    /\ faults = 0

Streamed == {stream[i] : i \in DOMAIN stream}
Copies(e) == Cardinality({i \in DOMAIN stream : stream[i] = e})
Held(e) == \E r \in Relays : e \in batch[r]

Fault == faults < MaxFaults /\ faults' = faults + 1

-----------------------------------------------------------------------------
(* A request's transaction commits its outbox row.  Keys are drawn from    *)
(* the table's sequence before the commit, so rows may appear out of order.*)
Insert(e) ==
    /\ status[e] = "absent"
    /\ status' = [status EXCEPT ![e] = "pending"]
    /\ elapsed' = [elapsed EXCEPT ![e] = TRUE]
    /\ UNCHANGED <<batch, at, stream, faults>>

(* Deliberately wrong: claims are recovered without waiting for their      *)
(* timeout.                                                                *)
ClaimableAtOnce ==
    {e \in Events : \/ status[e] \in {"pending", "failed"} /\ elapsed[e]
                    \/ status[e] = "processing"}

(* Deliberately wrong: stale claims are not recovered.                     *)
ClaimableUnclaimed ==
    {e \in Events : status[e] \in {"pending", "failed"} /\ elapsed[e]}

(* Deliberately wrong: failed rows are not tried again.                    *)
ClaimableNotFailed ==
    {e \in Events : status[e] \in {"pending", "processing"} /\ elapsed[e]}

(* The claim query's WHERE clause, and its ORDER BY id LIMIT BatchSize.    *)
(* FOR UPDATE SKIP LOCKED makes concurrent claims disjoint, which is what  *)
(* one atomic step per claim gives.                                        *)
Claimable ==
    {e \in Events : \/ status[e] \in {"pending", "failed"} /\ elapsed[e]
                    \/ status[e] = "processing" /\ elapsed[e]}

FirstOf(S) == {e \in S : Cardinality({f \in S : f < e}) < BatchSize}

Claim(r) ==
    /\ at[r] = "idle"
    /\ Claimable # {}
    /\ LET claimed == FirstOf(Claimable)
       IN  /\ status' = [e \in Events |-> IF e \in claimed THEN "processing"
                                                           ELSE status[e]]
           /\ elapsed' = [e \in Events |-> e \notin claimed /\ elapsed[e]]
           /\ batch' = [batch EXCEPT ![r] = claimed]
    /\ at' = [at EXCEPT ![r] = "publish"]
    /\ UNCHANGED <<stream, faults>>

(* The loop visits the batch in the order of the query, by id.             *)
Current(r, e) == e \in batch[r] /\ \A f \in batch[r] : e <= f

Advance(r, e) ==
    /\ batch' = [batch EXCEPT ![r] = @ \ {e}]
    /\ at' = [at EXCEPT ![r] = IF batch[r] = {e} THEN "idle" ELSE "publish"]

Publish(r, e) ==
    /\ at[r] = "publish" /\ Current(r, e)
    /\ stream' = Append(stream, e)
    /\ at' = [at EXCEPT ![r] = "mark"]
    /\ UNCHANGED <<status, elapsed, batch, faults>>

(* Deliberately wrong: an exception of xadd is swallowed.                  *)
PublishRaisesSwallowed(r, e) ==
    /\ at[r] = "publish" /\ Current(r, e)
    /\ Fault
    /\ at' = [at EXCEPT ![r] = "mark"]
    /\ UNCHANGED <<status, elapsed, batch, stream>>

(* xadd raises; Redis may have applied the command before the reply was    *)
(* lost.                                                                   *)
PublishRaises(r, e) ==
    /\ at[r] = "publish" /\ Current(r, e)
    /\ Fault
    /\ stream' \in {stream, Append(stream, e)}
    /\ at' = [at EXCEPT ![r] = "fail"]
    /\ UNCHANGED <<status, elapsed, batch>>

(* mark_outbox_event_published and its commit: a row that is no longer     *)
(* 'processing' is left alone, and the loop goes on either way.            *)
MarkPublished(r, e) ==
    /\ at[r] = "mark" /\ Current(r, e)
    /\ status' = IF status[e] = "processing"
                 THEN [status EXCEPT ![e] = "published"] ELSE status
    /\ Advance(r, e)
    /\ UNCHANGED <<elapsed, stream, faults>>

(* The database refuses that transaction: the except branch handles it.    *)
MarkRaises(r, e) ==
    /\ at[r] = "mark" /\ Current(r, e)
    /\ Fault
    /\ at' = [at EXCEPT ![r] = "fail"]
    /\ UNCHANGED <<status, elapsed, batch, stream>>

(* Deliberately wrong: a row is marked failed whatever its status is.      *)
MarkFailedUnguarded(r, e) ==
    /\ at[r] = "fail" /\ Current(r, e)
    /\ status' = [status EXCEPT ![e] = "failed"]
    /\ elapsed' = [elapsed EXCEPT ![e] = FALSE]
    /\ Advance(r, e)
    /\ UNCHANGED <<stream, faults>>

(* mark_outbox_event_failed and its commit, with the next attempt in the   *)
(* future.  The guard is the row's status, not who claimed it.             *)
MarkFailed(r, e) ==
    /\ at[r] = "fail" /\ Current(r, e)
    /\ IF status[e] = "processing"
       THEN /\ status' = [status EXCEPT ![e] = "failed"]
            /\ elapsed' = [elapsed EXCEPT ![e] = FALSE]
       ELSE UNCHANGED <<status, elapsed>>
    /\ Advance(r, e)
    /\ UNCHANGED <<stream, faults>>

(* The process dies, or mark_outbox_event_failed itself raises and the     *)
(* exception leaves process_once: the rest of the batch is forgotten and   *)
(* its rows stay 'processing'.  The runner starts over.                    *)
Abandon(r) ==
    /\ at[r] # "idle"
    /\ Fault
    /\ batch' = [batch EXCEPT ![r] = {}]
    /\ at' = [at EXCEPT ![r] = "idle"]
    /\ UNCHANGED <<status, elapsed, stream>>

BackoffPasses(e) ==
    /\ status[e] = "failed" /\ ~elapsed[e]
    /\ elapsed' = [elapsed EXCEPT ![e] = TRUE]
    /\ UNCHANGED <<status, batch, at, stream, faults>>

(* The processing timeout of a row nobody works on any more.               *)
OrphanTimesOut(e) ==
    /\ status[e] = "processing" /\ ~elapsed[e] /\ ~Held(e)
    /\ elapsed' = [elapsed EXCEPT ![e] = TRUE]
    /\ UNCHANGED <<status, batch, at, stream, faults>>

(* The processing timeout of a row whose relay is merely slow.             *)
HolderOverruns(e) ==
    /\ status[e] = "processing" /\ ~elapsed[e] /\ Held(e)
    /\ Fault
    /\ elapsed' = [elapsed EXCEPT ![e] = TRUE]
    /\ UNCHANGED <<status, batch, at, stream>>

-----------------------------------------------------------------------------
RelayStep(r, e) ==
    \/ Publish(r, e)
    \/ MarkPublished(r, e)
    \/ MarkFailed(r, e)

Next ==
    \/ \E e \in Events : \/ Insert(e)
                         \/ BackoffPasses(e)
                         \/ OrphanTimesOut(e)
                         \/ HolderOverruns(e)
    \/ \E r \in Relays : Claim(r) \/ Abandon(r)
    \/ \E r \in Relays, e \in Events : \/ RelayStep(r, e)
                                       \/ PublishRaises(r, e)
                                       \/ MarkRaises(r, e)

Spec == Init /\ [][Next]_vars

(* The runner loops for ever, so a relay that can take its next step takes *)
(* it, and the clock advances.  Faults are not fair, and finitely many.    *)
Fairness ==
    /\ \A r \in Relays : WF_vars(Claim(r)) /\ WF_vars(\E e \in Events : RelayStep(r, e))
    /\ \A e \in Events : WF_vars(BackoffPasses(e)) /\ WF_vars(OrphanTimesOut(e))

FairSpec == Spec /\ Fairness

-----------------------------------------------------------------------------
(* A row says 'published' only if the stream has the event: whatever marks *)
(* arrive late, an event is never given up before it was relayed.          *)
PublishedIsStreamed ==
    \A e \in Events : status[e] = "published" => e \in Streamed

(* Nothing reaches the stream whose transaction did not commit, and a row  *)
(* a relay is working on has been claimed by somebody.                     *)
OnlyCommittedIsStreamed ==
    \A e \in Events : e \in Streamed => status[e] \notin {"absent", "pending"}

(* A duplicate entry needs a fault, and each fault costs at most one: the  *)
(* retry of a failed mark, the recovery of a crashed claim and the claim   *)
(* taken over from a slow relay cannot multiply copies between them.       *)
DuplicatesNeedFaults == \A e \in Events : Copies(e) <= 1 + faults

(* 'published' is final: no late mark of a relay that lost its claim, and  *)
(* no recovery, brings a relayed row back.                                 *)
PublishedIsFinal ==
    [][\A e \in Events : status[e] = "published" => status'[e] = "published"]_vars

(* Every committed event ends up published although relays crash, overrun, *)
(* and lose their claims.                                                  *)
EventuallyPublished ==
    \A e \in Events : status[e] # "absent" ~> status[e] = "published"

(* The relays implement the promise of ReliableRelay, its liveness too.    *)
Promise == INSTANCE ReliableRelay WITH
    accepted <- {e \in Events : status[e] # "absent"},
    relayed  <- Streamed

ImplementsPromise == Promise!Spec

=============================================================================
