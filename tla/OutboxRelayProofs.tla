-------------------------- MODULE OutboxRelayProofs --------------------------
(***************************************************************************)
(* Proofs about OutboxRelay, for any set of events and relays, any batch   *)
(* size and any number of faults.                                          *)
(***************************************************************************)
EXTENDS OutboxRelay, TLAPS, FiniteSetTheorems

USE OutboxAssumption

(* The event a relay is about to mark as published is in the stream.       *)
MarkedIsStreamed ==
    \A r \in Relays, e \in Events :
        at[r] = "mark" /\ Current(r, e) => e \in Streamed

(* A relay only holds events that somebody claimed.                        *)
HeldIsClaimed ==
    \A r \in Relays : \A e \in batch[r] : status[e] \notin {"absent", "pending"}

RelayInv ==
    /\ TypeOK
    /\ MarkedIsStreamed
    /\ HeldIsClaimed
    /\ OnlyCommittedIsStreamed
    /\ PublishedIsStreamed

-----------------------------------------------------------------------------
(* Appending an entry adds exactly its event to the streamed ones.         *)
LEMMA StreamedAppend ==
    ASSUME stream \in Seq(Events), NEW e \in Events, stream' = Append(stream, e)
    PROVE  Streamed' = Streamed \cup {e} /\ stream' \in Seq(Events)
<1>1. Len(stream') = Len(stream) + 1 /\ stream' \in Seq(Events)
  OBVIOUS
<1>2. \A i \in 1..Len(stream) : stream'[i] = stream[i]
  OBVIOUS
<1>3. stream'[Len(stream) + 1] = e
  OBVIOUS
<1>4. DOMAIN stream = 1..Len(stream) /\ DOMAIN stream' = 1..(Len(stream) + 1)
  BY <1>1
<1>5. Streamed' \subseteq Streamed \cup {e}
  BY <1>1, <1>2, <1>3, <1>4 DEF Streamed
<1>6. Streamed \cup {e} \subseteq Streamed'
  BY <1>1, <1>2, <1>3, <1>4 DEF Streamed
<1> QED
  BY <1>1, <1>5, <1>6

LEMMA StreamedTyped ==
    ASSUME stream \in Seq(Events)
    PROVE  Streamed \subseteq Events
BY DEF Streamed

(* The loop has one current event at a time.                               *)
LEMMA CurrentUnique ==
    ASSUME batch \in [Relays -> SUBSET Events], NEW r \in Relays,
           NEW e \in Events, NEW f \in Events, Current(r, e), Current(r, f)
    PROVE  e = f
BY DEF Current

LEMMA ClaimedAreEvents == FirstOf(Claimable) \subseteq Events
BY DEF FirstOf, Claimable

LEMMA TypeInit == Init => TypeOK
BY DEF Init, TypeOK, Status, Location

LEMMA TypeStep == TypeOK /\ [Next]_vars => TypeOK'
<1> SUFFICES ASSUME TypeOK, [Next]_vars PROVE TypeOK'
  OBVIOUS
<1> USE DEF TypeOK, Status, Location, Fault, Advance
<1>1. ASSUME NEW e \in Events, Insert(e) PROVE TypeOK'
  BY <1>1 DEF Insert
<1>2. ASSUME NEW r \in Relays, Claim(r) PROVE TypeOK'
  BY <1>2, ClaimedAreEvents DEF Claim
<1>3. ASSUME NEW r \in Relays, NEW e \in Events, Publish(r, e) PROVE TypeOK'
  BY <1>3, StreamedAppend DEF Publish
<1>4. ASSUME NEW r \in Relays, NEW e \in Events, PublishRaises(r, e) PROVE TypeOK'
  <2>1. stream' = stream \/ stream' = Append(stream, e)
    BY <1>4 DEF PublishRaises
  <2>2. stream' \in Seq(Events)
    BY <2>1, StreamedAppend
  <2> QED
    BY <1>4, <2>2 DEF PublishRaises
<1>5. ASSUME NEW r \in Relays, NEW e \in Events, MarkPublished(r, e) PROVE TypeOK'
  BY <1>5 DEF MarkPublished
<1>6. ASSUME NEW r \in Relays, NEW e \in Events, MarkRaises(r, e) PROVE TypeOK'
  BY <1>6 DEF MarkRaises
<1>7. ASSUME NEW r \in Relays, NEW e \in Events, MarkFailed(r, e) PROVE TypeOK'
  BY <1>7 DEF MarkFailed
<1>8. ASSUME NEW r \in Relays, Abandon(r) PROVE TypeOK'
  BY <1>8 DEF Abandon
<1>9. ASSUME NEW e \in Events, BackoffPasses(e) PROVE TypeOK'
  BY <1>9 DEF BackoffPasses
<1>10. ASSUME NEW e \in Events, OrphanTimesOut(e) PROVE TypeOK'
  BY <1>10 DEF OrphanTimesOut
<1>11. ASSUME NEW e \in Events, HolderOverruns(e) PROVE TypeOK'
  BY <1>11 DEF HolderOverruns
<1>12. CASE UNCHANGED vars
  BY <1>12 DEF vars
<1> QED
  BY <1>1, <1>2, <1>3, <1>4, <1>5, <1>6, <1>7, <1>8, <1>9, <1>10, <1>11, <1>12
     DEF Next, RelayStep

(* Every variable keeps its type.                                          *)
THEOREM TypeCorrect == Spec => []TypeOK
BY TypeInit, TypeStep, PTL DEF Spec

-----------------------------------------------------------------------------
(* How the steps move an event: no step takes an entry out of the stream,  *)
(* 'published' is entered only from a mark, and a row never goes back to   *)
(* before its claim.                                                       *)
LEMMA RelayInvInit == Init => RelayInv
<1> SUFFICES ASSUME Init PROVE RelayInv
  OBVIOUS
<1>1. Streamed = {}
  BY DEF Init, Streamed
<1> QED
  BY <1>1, TypeInit
     DEF Init, RelayInv, MarkedIsStreamed, HeldIsClaimed,
         OnlyCommittedIsStreamed, PublishedIsStreamed

(* The steps that only touch a row's clock, or the faults.                 *)
LEMMA QuietStep ==
    ASSUME RelayInv, TypeOK', UNCHANGED <<status, batch, at, stream>>
    PROVE  RelayInv'
BY DEF RelayInv, MarkedIsStreamed, HeldIsClaimed, OnlyCommittedIsStreamed,
       PublishedIsStreamed, Streamed, Current

LEMMA InsertStep ==
    ASSUME RelayInv, TypeOK', NEW e \in Events, Insert(e)
    PROVE  RelayInv'
<1> USE DEF RelayInv, TypeOK, Insert
<1>1. e \notin Streamed /\ \A r \in Relays : e \notin batch[r]
  BY DEF HeldIsClaimed, OnlyCommittedIsStreamed
<1>2. Streamed' = Streamed
  BY DEF Streamed
<1>3. \A f \in Events : f # e => status'[f] = status[f]
  OBVIOUS
<1>4. status'[e] = "pending"
  OBVIOUS
<1>5. MarkedIsStreamed'
  BY <1>2 DEF MarkedIsStreamed, Current
<1>6. HeldIsClaimed'
  BY <1>1, <1>3 DEF HeldIsClaimed
<1>7. OnlyCommittedIsStreamed' /\ PublishedIsStreamed'
  BY <1>1, <1>2, <1>3, <1>4 DEF OnlyCommittedIsStreamed, PublishedIsStreamed
<1> QED
  BY <1>5, <1>6, <1>7

LEMMA ClaimStep ==
    ASSUME RelayInv, TypeOK', NEW r \in Relays, Claim(r)
    PROVE  RelayInv'
<1> USE DEF RelayInv, TypeOK
<1> DEFINE claimed == FirstOf(Claimable)
<1>1. claimed \subseteq Events
  BY ClaimedAreEvents
<1>2. Streamed' = Streamed
  BY DEF Streamed, Claim
<1>3. \A f \in Events : status'[f] = IF f \in claimed THEN "processing"
                                                      ELSE status[f]
  BY DEF Claim
<1>4. batch'[r] = claimed /\ at'[r] = "publish"
  BY DEF Claim
<1>5. \A q \in Relays : q # r => batch'[q] = batch[q] /\ at'[q] = at[q]
  BY DEF Claim
<1> HIDE DEF claimed
<1>6. MarkedIsStreamed'
  BY <1>2, <1>4, <1>5 DEF MarkedIsStreamed, Current
<1>7. HeldIsClaimed'
  BY <1>1, <1>3, <1>4, <1>5 DEF HeldIsClaimed
<1>8. OnlyCommittedIsStreamed' /\ PublishedIsStreamed'
  BY <1>2, <1>3 DEF OnlyCommittedIsStreamed, PublishedIsStreamed
<1> QED
  BY <1>6, <1>7, <1>8

(* Publish, and an xadd that raised: the entry is the current event's.     *)
LEMMA PublishStep ==
    ASSUME RelayInv, TypeOK', NEW r \in Relays, NEW e \in Events,
           at[r] = "publish", Current(r, e),
           stream' = stream \/ stream' = Append(stream, e),
           \/ at' = [at EXCEPT ![r] = "mark"] /\ stream' = Append(stream, e)
           \/ at' = [at EXCEPT ![r] = "fail"],
           UNCHANGED <<status, batch>>
    PROVE  RelayInv'
<1> USE DEF RelayInv, TypeOK
<1>1. Streamed \subseteq Streamed' /\ Streamed' \subseteq Streamed \cup {e}
  BY StreamedAppend DEF Streamed
<1>2. at'[r] = "mark" => e \in Streamed'
  BY StreamedAppend
<1>3. \A q \in Relays : q # r => at'[q] = at[q]
  OBVIOUS
<1>4. status[e] \notin {"absent", "pending"}
  BY DEF HeldIsClaimed, Current
<1>5. MarkedIsStreamed'
  <2> SUFFICES ASSUME NEW q \in Relays, NEW f \in Events,
                      at'[q] = "mark", Current(q, f)'
               PROVE  f \in Streamed'
    BY DEF MarkedIsStreamed
  <2>1. Current(q, f)
    BY DEF Current
  <2>2. CASE q = r
    BY <1>2, <2>1, <2>2, CurrentUnique
  <2>3. CASE q # r
    BY <1>1, <1>3, <2>1, <2>3 DEF MarkedIsStreamed
  <2> QED
    BY <2>2, <2>3
<1>6. HeldIsClaimed'
  BY DEF HeldIsClaimed
<1>7. OnlyCommittedIsStreamed' /\ PublishedIsStreamed'
  BY <1>1, <1>4 DEF OnlyCommittedIsStreamed, PublishedIsStreamed
<1> QED
  BY <1>5, <1>6, <1>7

(* The loop moves on after the current event's row took status s.          *)
LEMMA AdvanceStep ==
    ASSUME RelayInv, TypeOK', NEW r \in Relays, NEW e \in Events,
           Current(r, e), Advance(r, e), UNCHANGED stream,
           NEW s \in {"published", "failed"}, s = "published" => e \in Streamed,
           status' = status \/ status' = [status EXCEPT ![e] = s]
    PROVE  RelayInv'
<1> USE DEF RelayInv, TypeOK
<1>1. Streamed' = Streamed
  BY DEF Streamed
<1>2. at'[r] # "mark" /\ batch'[r] \subseteq batch[r]
  BY DEF Advance
<1>3. \A q \in Relays : q # r => at'[q] = at[q] /\ batch'[q] = batch[q]
  BY DEF Advance
<1>4. \A f \in Events : status'[f] = status[f] \/ (f = e /\ status'[f] = s)
  <2>1. CASE status' = status
    BY <2>1
  <2>2. CASE status' = [status EXCEPT ![e] = s]
    BY <2>2
  <2> QED
    BY <2>1, <2>2
<1>5. MarkedIsStreamed'
  BY <1>1, <1>2, <1>3 DEF MarkedIsStreamed, Current
<1>6. HeldIsClaimed'
  BY <1>2, <1>3, <1>4 DEF HeldIsClaimed
<1>7. OnlyCommittedIsStreamed' /\ PublishedIsStreamed'
  BY <1>1, <1>4 DEF OnlyCommittedIsStreamed, PublishedIsStreamed
<1> QED
  BY <1>5, <1>6, <1>7

LEMMA MarkRaisesStep ==
    ASSUME RelayInv, TypeOK', NEW r \in Relays, NEW e \in Events, MarkRaises(r, e)
    PROVE  RelayInv'
<1> USE DEF RelayInv, TypeOK, MarkRaises
<1>1. Streamed' = Streamed
  BY DEF Streamed
<1>2. \A q \in Relays : at'[q] = "mark" => at[q] = "mark"
  OBVIOUS
<1> QED
  BY <1>1, <1>2 DEF MarkedIsStreamed, HeldIsClaimed, OnlyCommittedIsStreamed,
                    PublishedIsStreamed, Current

LEMMA AbandonStep ==
    ASSUME RelayInv, TypeOK', NEW r \in Relays, Abandon(r)
    PROVE  RelayInv'
<1> USE DEF RelayInv, TypeOK, Abandon
<1>1. Streamed' = Streamed
  BY DEF Streamed
<1>2. batch'[r] = {} /\ at'[r] = "idle"
  OBVIOUS
<1>3. \A q \in Relays : q # r => at'[q] = at[q] /\ batch'[q] = batch[q]
  OBVIOUS
<1> QED
  BY <1>1, <1>2, <1>3 DEF MarkedIsStreamed, HeldIsClaimed,
                          OnlyCommittedIsStreamed, PublishedIsStreamed, Current

LEMMA RelayInvStep == RelayInv /\ [Next]_vars => RelayInv'
<1> SUFFICES ASSUME RelayInv, [Next]_vars PROVE RelayInv'
  OBVIOUS
<1>0. TypeOK'
  BY TypeStep DEF RelayInv
<1>1. ASSUME NEW e \in Events, Insert(e) PROVE RelayInv'
  BY <1>0, <1>1, InsertStep
<1>2. ASSUME NEW r \in Relays, Claim(r) PROVE RelayInv'
  BY <1>0, <1>2, ClaimStep
<1>3. ASSUME NEW r \in Relays, NEW e \in Events, Publish(r, e) PROVE RelayInv'
  BY <1>0, <1>3, PublishStep DEF Publish
<1>4. ASSUME NEW r \in Relays, NEW e \in Events, PublishRaises(r, e) PROVE RelayInv'
  BY <1>0, <1>4, PublishStep DEF PublishRaises
<1>5. ASSUME NEW r \in Relays, NEW e \in Events, MarkPublished(r, e) PROVE RelayInv'
  <2>1. e \in Streamed
    BY <1>5 DEF MarkPublished, RelayInv, MarkedIsStreamed
  <2> QED
    BY <1>0, <1>5, <2>1, AdvanceStep DEF MarkPublished
<1>6. ASSUME NEW r \in Relays, NEW e \in Events, MarkRaises(r, e) PROVE RelayInv'
  BY <1>0, <1>6, MarkRaisesStep
<1>7. ASSUME NEW r \in Relays, NEW e \in Events, MarkFailed(r, e) PROVE RelayInv'
  BY <1>0, <1>7, AdvanceStep DEF MarkFailed
<1>8. ASSUME NEW r \in Relays, Abandon(r) PROVE RelayInv'
  BY <1>0, <1>8, AbandonStep
<1>9. ASSUME NEW e \in Events,
             BackoffPasses(e) \/ OrphanTimesOut(e) \/ HolderOverruns(e)
      PROVE  RelayInv'
  BY <1>0, <1>9, QuietStep DEF BackoffPasses, OrphanTimesOut, HolderOverruns
<1>10. CASE UNCHANGED vars
  BY <1>0, <1>10, QuietStep DEF vars
<1> QED
  BY <1>1, <1>2, <1>3, <1>4, <1>5, <1>6, <1>7, <1>8, <1>9, <1>10
     DEF Next, RelayStep

THEOREM RelayInvariant == Spec => []RelayInv
BY RelayInvInit, RelayInvStep, PTL DEF Spec

(* No event is given up before it was relayed.                             *)
THEOREM NeverGivenUp == Spec => []PublishedIsStreamed
<1>1. RelayInv => PublishedIsStreamed
  BY DEF RelayInv
<1> QED
  BY <1>1, RelayInvariant, PTL

(* Nothing uncommitted or unclaimed reaches the stream.                    *)
THEOREM NothingInvented == Spec => []OnlyCommittedIsStreamed
<1>1. RelayInv => OnlyCommittedIsStreamed
  BY DEF RelayInv
<1> QED
  BY <1>1, RelayInvariant, PTL

(* A published row stays published, whichever relay still works on it.     *)
THEOREM PublishedForGood == Spec => PublishedIsFinal
<1> DEFINE Final == \A e \in Events : status[e] = "published" => status'[e] = "published"
<1>1. TypeOK /\ [Next]_vars => [Final]_vars
  <2> SUFFICES ASSUME TypeOK, Next, NEW f \in Events, status[f] = "published"
               PROVE  status'[f] = "published"
    OBVIOUS
  <2> USE DEF TypeOK
  <2>1. ASSUME NEW e \in Events, Insert(e) PROVE status'[f] = "published"
    BY <2>1 DEF Insert
  <2>2. ASSUME NEW r \in Relays, Claim(r) PROVE status'[f] = "published"
    BY <2>2 DEF Claim, FirstOf, Claimable
  <2>3. ASSUME NEW r \in Relays, NEW e \in Events,
               MarkPublished(r, e) \/ MarkFailed(r, e)
        PROVE  status'[f] = "published"
    BY <2>3 DEF MarkPublished, MarkFailed
  <2>4. CASE UNCHANGED status
    BY <2>4
  <2> QED
    BY <2>1, <2>2, <2>3, <2>4
       DEF Next, RelayStep, Publish, PublishRaises, MarkRaises, Abandon,
           BackoffPasses, OrphanTimesOut, HolderOverruns
<1> QED
  BY <1>1, TypeCorrect, PTL DEF PublishedIsFinal, Spec

-----------------------------------------------------------------------------
(* Step simulation: an insert is an Accept, the first copy of an event is  *)
(* a Relay, and every other step is a stutter of ReliableRelay.            *)
LEMMA PromiseStep ==
    RelayInv /\ [Next]_vars => [Promise!Next]_(Promise!vars)
<1> SUFFICES ASSUME RelayInv, [Next]_vars
             PROVE  [Promise!Next]_(Promise!vars)
  OBVIOUS
<1> DEFINE Accepted == {e \in Events : status[e] # "absent"}
<1> USE DEF RelayInv, TypeOK
<1>1. ASSUME NEW e \in Events, Insert(e) PROVE Promise!Accept({e})
  <2>1. e \notin Accepted /\ Accepted' = Accepted \cup {e}
    BY <1>1 DEF Insert
  <2>2. Streamed' = Streamed
    BY <1>1 DEF Insert, Streamed
  <2> QED
    BY <2>1, <2>2 DEF Promise!Accept
<1>2. ASSUME NEW r \in Relays, NEW e \in Events, Current(r, e),
             stream' = stream \/ stream' = Append(stream, e), UNCHANGED status
      PROVE  Promise!Relay(e) \/ UNCHANGED Promise!vars
  <2>1. e \in Accepted /\ Accepted' = Accepted
    BY <1>2 DEF HeldIsClaimed, Current
  <2>2. Streamed' = Streamed \/ Streamed' = Streamed \cup {e}
    BY <1>2, StreamedAppend DEF Streamed
  <2>3. CASE e \in Streamed
    BY <2>1, <2>2, <2>3 DEF Promise!vars
  <2>4. CASE e \notin Streamed
    BY <2>1, <2>2, <2>4 DEF Promise!Relay, Promise!vars
  <2> QED
    BY <2>3, <2>4
<1>3. ASSUME \A e \in Events : status[e] = "absent" <=> status'[e] = "absent",
             UNCHANGED stream
      PROVE  UNCHANGED Promise!vars
  BY <1>3 DEF Promise!vars, Streamed
<1>4. ASSUME NEW r \in Relays, Claim(r) PROVE UNCHANGED Promise!vars
  BY <1>3, <1>4 DEF Claim, FirstOf, Claimable
<1>5. ASSUME NEW r \in Relays, NEW e \in Events,
             MarkPublished(r, e) \/ MarkFailed(r, e)
      PROVE  UNCHANGED Promise!vars
  <2>1. \A f \in Events : status[f] = "absent" <=> status'[f] = "absent"
    BY <1>5 DEF MarkPublished, MarkFailed
  <2> QED
    BY <1>3, <1>5, <2>1 DEF MarkPublished, MarkFailed
<1>6. CASE UNCHANGED <<status, stream>>
  BY <1>3, <1>6
<1>7. ASSUME NEW r \in Relays, NEW e \in Events,
             Publish(r, e) \/ PublishRaises(r, e)
      PROVE  Promise!Relay(e) \/ UNCHANGED Promise!vars
  BY <1>2, <1>7 DEF Publish, PublishRaises
<1> HIDE DEF RelayInv, TypeOK
<1> QED
  BY <1>1, <1>4, <1>5, <1>6, <1>7
     DEF Next, RelayStep, vars, MarkRaises, Abandon, BackoffPasses,
         OrphanTimesOut, HolderOverruns, Promise!Next

LEMMA PromiseInit == Init => Promise!Init
<1> SUFFICES ASSUME Init PROVE Promise!Init
  OBVIOUS
<1>1. Streamed = {}
  BY DEF Init, Streamed
<1> QED
  BY <1>1 DEF Init, Promise!Init

(* The relays implement the safety part of the outbox's promise.           *)
THEOREM RelaysImplementPromise == Spec => Promise!Safety
BY PromiseInit, PromiseStep, RelayInvariant, PTL DEF Spec, Promise!Safety

-----------------------------------------------------------------------------
(* Copies and faults.  A copy still to come is owed by a relay that holds  *)
(* the event and is not past its XADD, or by the row, if it can be claimed *)
(* without a fault.  Every step but a fault pays what it makes others owe. *)
Owing(e) == {r \in Relays : e \in batch[r] /\ ~(at[r] = "mark" /\ Current(r, e))}

Claimed(e) == status[e] = "processing" /\ ~elapsed[e] /\ Held(e)

Owed(e) == IF status[e] = "published" \/ Claimed(e) THEN 0 ELSE 1

Debt(e) ==
    /\ IsFiniteSet(Owing(e))
    /\ Copies(e) + Cardinality(Owing(e)) + Owed(e) <= 1 + faults

IdleHoldsNothing == \A r \in Relays : at[r] = "idle" => batch[r] = {}

DebtInv == TypeOK /\ IdleHoldsNothing /\ \A e \in Events : Debt(e)

LEMMA CopiesTyped ==
    ASSUME stream \in Seq(Events), NEW f
    PROVE  IsFiniteSet({i \in DOMAIN stream : stream[i] = f}) /\ Copies(f) \in Nat
<1>1. DOMAIN stream = 1..Len(stream) /\ Len(stream) \in Nat
  OBVIOUS
<1>2. IsFiniteSet(1..Len(stream))
  BY <1>1, FS_Interval
<1>3. IsFiniteSet({i \in DOMAIN stream : stream[i] = f})
  BY <1>1, <1>2, FS_Subset
<1>. QED  BY <1>3, FS_CardinalityType DEF Copies

LEMMA CopiesAppend ==
    ASSUME stream \in Seq(Events), NEW e \in Events, NEW f, stream' = Append(stream, e)
    PROVE  Copies(f)' = IF f = e THEN Copies(f) + 1 ELSE Copies(f)
<1>. DEFINE n == Len(stream)
            Old == {i \in DOMAIN stream : stream[i] = f}
            New == {i \in DOMAIN stream' : stream'[i] = f}
<1>1. /\ n \in Nat /\ DOMAIN stream = 1..n /\ DOMAIN stream' = 1..(n + 1)
      /\ \A i \in 1..n : stream'[i] = stream[i]
      /\ stream'[n + 1] = e
  OBVIOUS
<1>2. n + 1 \notin Old
  BY <1>1
<1>5. IsFiniteSet(Old)
  BY CopiesTyped
<1>3. New = IF f = e THEN Old \cup {n + 1} ELSE Old
  <2>1. CASE f = e
    BY <1>1, <2>1
  <2>2. CASE f # e
    BY <1>1, <2>2
  <2>. QED  BY <2>1, <2>2
<1>4. Cardinality(Old \cup {n + 1}) = Cardinality(Old) + 1
  BY <1>2, <1>5, FS_AddElement
<1>. QED  BY <1>3, <1>4 DEF Copies

LEMMA DebtTyped ==
    ASSUME TypeOK, NEW f \in Events, Debt(f)
    PROVE  /\ Copies(f) \in Nat /\ Cardinality(Owing(f)) \in Nat
           /\ Owed(f) \in {0, 1} /\ faults \in Nat
<1>1. Copies(f) \in Nat
  BY CopiesTyped DEF TypeOK
<1>2. Cardinality(Owing(f)) \in Nat
  BY FS_CardinalityType DEF Debt
<1>3. Owed(f) \in {0, 1}
  BY DEF Owed
<1>4. faults \in Nat
  BY DEF TypeOK
<1>. QED  BY <1>1, <1>2, <1>3, <1>4

(* A step of relay r leaves the other relays' debts as they are.           *)
Owes(r, f) == IF r \in Owing(f) THEN 1 ELSE 0

LEMMA OwingChanges ==
    ASSUME NEW f \in Events, Debt(f), NEW r \in Relays,
           Owing(f)' \ {r} = Owing(f) \ {r}
    PROVE  /\ IsFiniteSet(Owing(f)')
           /\ Cardinality(Owing(f)') \in Nat
           /\ Cardinality(Owing(f)') + Owes(r, f) = Cardinality(Owing(f)) + Owes(r, f)'
<1>. DEFINE A == Owing(f)
            B == Owing(f)'
<1>1. IsFiniteSet(A) /\ Cardinality(A) \in Nat
  BY FS_CardinalityType DEF Debt
<1>2. CASE r \in A /\ r \in B
  <2>1. B = A
    BY <1>2
  <2>. QED  BY <2>1, <1>1, <1>2 DEF Owes
<1>3. CASE r \notin A /\ r \notin B
  <2>1. B = A
    BY <1>3
  <2>. QED  BY <2>1, <1>1, <1>3 DEF Owes
<1>4. CASE r \in A /\ r \notin B
  <2>1. B = A \ {r}
    BY <1>4
  <2>2. IsFiniteSet(A \ {r}) /\ Cardinality(A \ {r}) = Cardinality(A) - 1
    BY <1>1, <1>4, FS_RemoveElement
  <2>3. Cardinality(A \ {r}) \in Nat
    BY <2>2, FS_CardinalityType
  <2>. QED  BY <2>1, <2>2, <2>3, <1>1, <1>4 DEF Owes
<1>5. CASE r \notin A /\ r \in B
  <2>1. B = A \cup {r}
    BY <1>5
  <2>2. IsFiniteSet(A \cup {r}) /\ Cardinality(A \cup {r}) = Cardinality(A) + 1
    BY <1>1, <1>5, FS_AddElement
  <2>. QED  BY <2>1, <2>2, <1>1, <1>5 DEF Owes
<1>. QED  BY <1>2, <1>3, <1>4, <1>5

LEMMA OthersUntouched ==
    ASSUME TypeOK, TypeOK', NEW r \in Relays, NEW f \in Events,
           \A q \in Relays \ {r} : batch'[q] = batch[q] /\ at'[q] = at[q]
    PROVE  Owing(f)' \ {r} = Owing(f) \ {r}
BY DEF Owing, Current

(* What a step of relay r has to show: its copy, its debt and the row's    *)
(* debt grow by no more than the faults.                                   *)
LEMMA DebtPaid ==
    ASSUME TypeOK, TypeOK', NEW f \in Events, Debt(f), NEW r \in Relays,
           \A q \in Relays \ {r} : batch'[q] = batch[q] /\ at'[q] = at[q],
           NEW copy \in {0, 1}, Copies(f)' = Copies(f) + copy,
           NEW paid \in {0, 1}, faults' = faults + paid,
           copy + Owes(r, f)' + Owed(f)' <= Owes(r, f) + Owed(f) + paid
    PROVE  Debt(f)'
<1>1. /\ IsFiniteSet(Owing(f)') /\ Cardinality(Owing(f)') \in Nat
      /\ Cardinality(Owing(f)') + Owes(r, f) = Cardinality(Owing(f)) + Owes(r, f)'
  BY OthersUntouched, OwingChanges
<1>2. /\ Copies(f) \in Nat /\ Cardinality(Owing(f)) \in Nat
      /\ Owed(f) \in {0, 1} /\ faults \in Nat
  BY DebtTyped
<1>3. Owed(f)' \in {0, 1} /\ Owes(r, f) \in {0, 1} /\ Owes(r, f)' \in {0, 1}
  BY DEF Owed, Owes
<1>4. Copies(f) + Cardinality(Owing(f)) + Owed(f) <= 1 + faults
  BY DEF Debt
<1>5. Copies(f)' + Cardinality(Owing(f)') + Owed(f)' <= 1 + faults'
  <2>. DEFINE c == Copies(f)  o == Cardinality(Owing(f))  w == Owed(f)
              oo == Cardinality(Owing(f)')  ww == Owed(f)'
              x == Owes(r, f)  xx == Owes(r, f)'
  <2>. HIDE DEF c, o, w, oo, ww, x, xx
  <2>1. c \in Nat /\ o \in Nat /\ w \in Nat /\ oo \in Nat /\ ww \in Nat
        /\ x \in Nat /\ xx \in Nat /\ faults \in Nat
    BY <1>1, <1>2, <1>3 DEF c, o, w, oo, ww, x, xx
  <2>2. oo + x = o + xx /\ c + o + w <= 1 + faults /\ copy + xx + ww <= x + w + paid
    BY <1>1, <1>4 DEF c, o, w, oo, ww, x, xx
  <2>3. (c + copy) + oo + ww <= 1 + (faults + paid)
    BY <2>1, <2>2
  <2>. QED  BY <2>3 DEF c, oo, ww
<1>. QED  BY <1>1, <1>5 DEF Debt

LEMMA DebtInit == Init => DebtInv
<1>. SUFFICES ASSUME Init PROVE DebtInv
  OBVIOUS
<1>1. ASSUME NEW e \in Events
      PROVE  Debt(e)
  <2>1. {i \in DOMAIN stream : stream[i] = e} = {} /\ Owing(e) = {}
    BY DEF Init, Owing
  <2>2. Copies(e) = 0 /\ Cardinality(Owing(e)) = 0 /\ IsFiniteSet(Owing(e))
    BY <2>1, FS_EmptySet DEF Copies
  <2>3. Owed(e) = 1 /\ faults = 0
    BY DEF Init, Owed, Claimed
  <2>. QED  BY <2>2, <2>3 DEF Debt
<1>. QED  BY <1>1, TypeInit DEF DebtInv, IdleHoldsNothing, Init

LEMMA DebtStays ==
    ASSUME TypeOK, NEW f \in Events, Debt(f), UNCHANGED <<batch, at, stream>>,
           NEW paid \in {0, 1}, faults' = faults + paid, Owed(f)' <= Owed(f) + paid
    PROVE  Debt(f)'
<1>1. Owing(f)' = Owing(f) /\ Copies(f)' = Copies(f)
  BY DEF Owing, Current, Copies
<1>2. /\ Copies(f) \in Nat /\ Cardinality(Owing(f)) \in Nat
      /\ Owed(f) \in {0, 1} /\ faults \in Nat
  BY DebtTyped
<1>3. Owed(f)' \in {0, 1}
  BY DEF Owed
<1>4. IsFiniteSet(Owing(f)) /\ Copies(f) + Cardinality(Owing(f)) + Owed(f) <= 1 + faults
  BY DEF Debt
<1>5. IsFiniteSet(Owing(f)')
  BY <1>1, <1>4
<1>6. Copies(f) + Cardinality(Owing(f)) + Owed(f)' <= 1 + (faults + paid)
  BY <1>2, <1>3, <1>4
<1>. QED  BY <1>1, <1>5, <1>6 DEF Debt

(* A claim takes the row's debt over.                                      *)
LEMMA ClaimDebt ==
    ASSUME DebtInv, TypeOK', NEW r \in Relays, Claim(r), NEW f \in Events
    PROVE  Debt(f)'
<1>. DEFINE claimed == FirstOf(Claimable)
<1>1. TypeOK /\ Debt(f) /\ batch[r] = {}
  BY DEF DebtInv, IdleHoldsNothing, Claim
<1>2. /\ batch' = [batch EXCEPT ![r] = claimed] /\ at' = [at EXCEPT ![r] = "publish"]
      /\ status' = [e \in Events |-> IF e \in claimed THEN "processing" ELSE status[e]]
      /\ elapsed' = [e \in Events |-> e \notin claimed /\ elapsed[e]]
      /\ stream' = stream /\ faults' = faults
  BY DEF Claim
<1>3. /\ batch'[r] = claimed /\ at'[r] = "publish"
      /\ \A q \in Relays \ {r} : batch'[q] = batch[q] /\ at'[q] = at[q]
  BY <1>1, <1>2, ClaimedAreEvents DEF TypeOK
<1>4. Copies(f)' = Copies(f) + 0 /\ faults' = faults + 0
  <2>1. Copies(f)' = Copies(f)
    BY <1>2 DEF Copies
  <2>. QED  BY <2>1, <1>1, <1>2, DebtTyped
<1>5. Owes(r, f) = 0
  BY <1>1 DEF Owes, Owing
<1>6. CASE f \in claimed
  <2>1. status[f] # "published" /\ elapsed[f]
    BY <1>6 DEF FirstOf, Claimable
  <2>2. Owed(f) = 1
    BY <2>1 DEF Owed, Claimed
  <2>3. Owed(f)' = 0
    BY <1>2, <1>3, <1>6 DEF Owed, Claimed, Held
  <2>4. Owes(r, f)' \in {0, 1}
    BY DEF Owes
  <2>5. 0 + Owes(r, f)' + Owed(f)' <= Owes(r, f) + Owed(f) + 0
    BY <2>2, <2>3, <2>4, <1>5
  <2>. QED  BY <1>1, <1>3, <1>4, <2>5, DebtPaid
<1>7. CASE f \notin claimed
  <2>1. Owes(r, f)' = 0
    BY <1>3, <1>7 DEF Owes, Owing
  <2>2. status'[f] = status[f] /\ (elapsed'[f] <=> elapsed[f])
    BY <1>1, <1>2, <1>7 DEF TypeOK
  <2>3. Held(f)' <=> Held(f)
    BY <1>1, <1>3, <1>7 DEF Held
  <2>4. Owed(f)' = Owed(f)
    BY <2>2, <2>3 DEF Owed, Claimed
  <2>5. Owed(f) \in {0, 1}
    BY DEF Owed
  <2>6. 0 + Owes(r, f)' + Owed(f)' <= Owes(r, f) + Owed(f) + 0
    BY <1>5, <2>1, <2>4, <2>5
  <2>. QED  BY <1>1, <1>3, <1>4, <2>6, DebtPaid
<1>. QED  BY <1>6, <1>7

(* An XADD, whatever its reply was, pays the relay's debt with a copy, or  *)
(* raises and costs a fault; so does a mark that raises.                   *)
LEMMA LoopDebt ==
    ASSUME DebtInv, TypeOK', NEW r \in Relays, NEW e \in Events,
           Publish(r, e) \/ PublishRaises(r, e) \/ MarkRaises(r, e), NEW f \in Events
    PROVE  Debt(f)'
<1>1. TypeOK /\ Debt(f)
  BY DEF DebtInv
<1>2. /\ Current(r, e) /\ UNCHANGED <<status, elapsed, batch>>
      /\ \A q \in Relays \ {r} : batch'[q] = batch[q] /\ at'[q] = at[q]
  BY <1>1 DEF Publish, PublishRaises, MarkRaises, TypeOK
<1>3. Owed(f)' = Owed(f) /\ Owed(f) \in {0, 1}
  BY <1>2 DEF Owed, Claimed, Held
<1>4. Current(r, f)' <=> Current(r, f)
  BY <1>2 DEF Current
<1>5. f # e => ~Current(r, f)
  BY <1>1, <1>2, CurrentUnique DEF TypeOK
<1>6. f # e => Owes(r, f)' = Owes(r, f)
  BY <1>2, <1>4, <1>5 DEF Owes, Owing
<1>7. Owes(r, f) \in {0, 1} /\ Owes(r, f)' \in {0, 1} /\ faults \in Nat /\ Copies(f) \in Nat
  BY <1>1, DebtTyped DEF Owes
<1>8. stream' = stream => Copies(f)' = Copies(f)
  BY DEF Copies
<1>9. stream' = Append(stream, e) =>
        Copies(f)' = IF f = e THEN Copies(f) + 1 ELSE Copies(f)
  BY <1>1, CopiesAppend DEF TypeOK
<1>10. CASE Publish(r, e)
  <2>1. at[r] = "publish" /\ at'[r] = "mark" /\ stream' = Append(stream, e) /\ faults' = faults + 0
    BY <1>1, <1>7, <1>10 DEF Publish, TypeOK
  <2>2. CASE f = e
    <3>1. Owes(r, f) = 1 /\ Owes(r, f)' = 0
      BY <1>2, <1>4, <2>1, <2>2 DEF Owes, Owing, Current
    <3>2. Copies(f)' = Copies(f) + 1
      BY <1>9, <2>1, <2>2
    <3>3. 1 + Owes(r, f)' + Owed(f)' <= Owes(r, f) + Owed(f) + 0
      BY <3>1, <1>3
    <3>. QED  BY <1>1, <1>2, <2>1, <3>2, <3>3, DebtPaid
  <2>3. CASE f # e
    <3>1. Copies(f)' = Copies(f) + 0
      BY <1>7, <1>9, <2>1, <2>3
    <3>2. 0 + Owes(r, f)' + Owed(f)' <= Owes(r, f) + Owed(f) + 0
      BY <1>3, <1>6, <1>7, <2>3
    <3>. QED  BY <1>1, <1>2, <2>1, <3>1, <3>2, DebtPaid
  <2>. QED  BY <2>2, <2>3
<1>11. CASE PublishRaises(r, e)
  <2>1. /\ at[r] = "publish" /\ stream' \in {stream, Append(stream, e)}
        /\ faults' = faults + 1
    BY <1>11 DEF PublishRaises, Fault
  <2>2. f = e => Owes(r, f) = 1
    BY <1>2, <2>1 DEF Owes, Owing, Current
  <2>3. PICK copy \in {0, 1} : Copies(f)' = Copies(f) + copy /\ (f # e => copy = 0)
    <3>1. CASE Copies(f)' = Copies(f)
      <4>1. Copies(f)' = Copies(f) + 0
        BY <3>1, <1>7
      <4>. QED  BY <4>1
    <3>2. CASE f = e /\ Copies(f)' = Copies(f) + 1
      BY <3>2
    <3>. QED  BY <1>8, <1>9, <2>1, <3>1, <3>2
  <2>4. copy + Owes(r, f)' + Owed(f)' <= Owes(r, f) + Owed(f) + 1
    BY <1>3, <1>6, <1>7, <2>2, <2>3
  <2>. QED  BY <1>1, <1>2, <2>1, <2>3, <2>4, DebtPaid
<1>12. CASE MarkRaises(r, e)
  <2>1. stream' = stream /\ faults' = faults + 1
    BY <1>12 DEF MarkRaises, Fault
  <2>2. Copies(f)' = Copies(f) + 0
    BY <1>7, <1>8, <2>1
  <2>3. 0 + Owes(r, f)' + Owed(f)' <= Owes(r, f) + Owed(f) + 1
    BY <1>3, <1>7
  <2>. QED  BY <1>1, <1>2, <2>1, <2>2, <2>3, DebtPaid
<1>. QED  BY <1>10, <1>11, <1>12

(* Marking a row published ends its debt; marking it failed hands the      *)
(* relay's debt back to the row.                                           *)
LEMMA MarkDebt ==
    ASSUME DebtInv, TypeOK', NEW r \in Relays, NEW e \in Events,
           MarkPublished(r, e) \/ MarkFailed(r, e), NEW f \in Events
    PROVE  Debt(f)'
<1>1. TypeOK /\ Debt(f)
  BY DEF DebtInv
<1>2. /\ Current(r, e) /\ UNCHANGED <<stream, faults>>
      /\ batch'[r] = batch[r] \ {e}
      /\ \A q \in Relays \ {r} : batch'[q] = batch[q] /\ at'[q] = at[q]
  BY <1>1 DEF MarkPublished, MarkFailed, Advance, TypeOK
<1>3. Copies(f)' = Copies(f) + 0 /\ faults' = faults + 0
  <2>1. Copies(f)' = Copies(f)
    BY <1>2 DEF Copies
  <2>. QED  BY <2>1, <1>1, <1>2, DebtTyped
<1>4. /\ Owes(r, f) \in {0, 1} /\ Owes(r, f)' \in {0, 1}
      /\ Owed(f) \in {0, 1} /\ Owed(f)' \in {0, 1}
  BY DEF Owes, Owed
<1>5. CASE f # e
  <2>1. ~Current(r, f)
    BY <1>1, <1>2, <1>5, CurrentUnique DEF TypeOK
  <2>2. Owes(r, f)' <= Owes(r, f)
    <3>1. CASE f \in batch[r]
      <4>1. Owes(r, f) = 1
        BY <2>1, <3>1 DEF Owes, Owing
      <4>. QED  BY <4>1, <1>4
    <3>2. CASE f \notin batch[r]
      <4>1. Owes(r, f)' = 0
        BY <1>2, <3>2 DEF Owes, Owing
      <4>. QED  BY <4>1, <1>4
    <3>. QED  BY <3>1, <3>2
  <2>3. status'[f] = status[f] /\ elapsed'[f] = elapsed[f]
    BY <1>1, <1>5 DEF MarkPublished, MarkFailed, TypeOK
  <2>4. Held(f)' <=> Held(f)
    BY <1>1, <1>2, <1>5 DEF Held
  <2>5. Owed(f)' = Owed(f)
    BY <2>3, <2>4 DEF Owed, Claimed
  <2>6. 0 + Owes(r, f)' + Owed(f)' <= Owes(r, f) + Owed(f) + 0
    BY <1>4, <2>2, <2>5
  <2>. QED  BY <1>1, <1>2, <1>3, <2>6, DebtPaid
<1>6. CASE f = e /\ MarkPublished(r, e)
  <2>1. Owes(r, f)' = 0
    BY <1>2, <1>6 DEF Owes, Owing
  <2>2. Owed(f)' <= Owed(f)
    <3>1. CASE status[f] = "processing"
      <4>1. status'[f] = "published"
        BY <1>1, <1>6, <3>1 DEF MarkPublished, TypeOK
      <4>2. Owed(f)' = 0
        BY <4>1 DEF Owed
      <4>. QED  BY <4>2, <1>4
    <3>2. CASE status[f] # "processing"
      <4>1. status'[f] = status[f]
        BY <1>6, <3>2 DEF MarkPublished
      <4>2. Owed(f)' = Owed(f)
        BY <4>1, <3>2 DEF Owed, Claimed
      <4>. QED  BY <4>2, <1>4
    <3>. QED  BY <3>1, <3>2
  <2>3. 0 + Owes(r, f)' + Owed(f)' <= Owes(r, f) + Owed(f) + 0
    BY <1>4, <2>1, <2>2
  <2>. QED  BY <1>1, <1>2, <1>3, <2>3, DebtPaid
<1>7. CASE f = e /\ MarkFailed(r, e)
  <2>1. Owes(r, f)' = 0
    BY <1>2, <1>7 DEF Owes, Owing
  <2>2. Owes(r, f) = 1
    BY <1>2, <1>7 DEF Owes, Owing, Current, MarkFailed
  <2>3. 0 + Owes(r, f)' + Owed(f)' <= Owes(r, f) + Owed(f) + 0
    BY <1>4, <2>1, <2>2
  <2>. QED  BY <1>1, <1>2, <1>3, <2>3, DebtPaid
<1>. QED  BY <1>5, <1>6, <1>7

LEMMA AbandonDebt ==
    ASSUME DebtInv, TypeOK', NEW r \in Relays, Abandon(r), NEW f \in Events
    PROVE  Debt(f)'
<1>1. TypeOK /\ Debt(f)
  BY DEF DebtInv
<1>2. /\ batch'[r] = {} /\ stream' = stream /\ faults' = faults + 1
      /\ \A q \in Relays \ {r} : batch'[q] = batch[q] /\ at'[q] = at[q]
  BY <1>1 DEF Abandon, Fault, TypeOK
<1>3. Copies(f)' = Copies(f) + 0
  <2>1. Copies(f)' = Copies(f)
    BY <1>2 DEF Copies
  <2>. QED  BY <2>1, <1>1, DebtTyped
<1>4. /\ Owes(r, f) \in {0, 1} /\ Owes(r, f)' = 0
      /\ Owed(f) \in {0, 1} /\ Owed(f)' \in {0, 1}
  BY <1>2 DEF Owes, Owing, Owed
<1>5. 0 + Owes(r, f)' + Owed(f)' <= Owes(r, f) + Owed(f) + 1
  BY <1>4
<1>. QED  BY <1>1, <1>2, <1>3, <1>5, DebtPaid

LEMMA RowDebt ==
    ASSUME DebtInv, NEW e \in Events,
           \/ Insert(e) \/ BackoffPasses(e) \/ OrphanTimesOut(e) \/ HolderOverruns(e),
           NEW f \in Events
    PROVE  Debt(f)'
<1>1. TypeOK /\ Debt(f)
  BY DEF DebtInv
<1>2. UNCHANGED <<batch, at, stream>>
  BY DEF Insert, BackoffPasses, OrphanTimesOut, HolderOverruns
<1>3. Owed(f) \in {0, 1} /\ Owed(f)' \in {0, 1} /\ faults \in Nat
  BY <1>1, DebtTyped DEF Owed
<1>4. CASE HolderOverruns(e)
  <2>1. faults' = faults + 1 /\ Owed(f)' <= Owed(f) + 1
    BY <1>3, <1>4 DEF HolderOverruns, Fault
  <2>. QED  BY <1>1, <1>2, <2>1, DebtStays
<1>5. CASE Insert(e) \/ BackoffPasses(e) \/ OrphanTimesOut(e)
  <2>1. faults' = faults + 0
    BY <1>3, <1>5 DEF Insert, BackoffPasses, OrphanTimesOut
  <2>2. CASE f = e
    <3>1. Owed(f) = 1
      BY <1>5, <2>2 DEF Insert, BackoffPasses, OrphanTimesOut, Owed, Claimed
    <3>2. Owed(f)' <= Owed(f) + 0
      BY <1>3, <3>1
    <3>. QED  BY <1>1, <1>2, <2>1, <3>2, DebtStays
  <2>3. CASE f # e
    <3>1. status'[f] = status[f] /\ elapsed'[f] = elapsed[f] /\ batch' = batch
      BY <1>1, <1>5, <2>3 DEF Insert, BackoffPasses, OrphanTimesOut, TypeOK
    <3>2. Owed(f)' = Owed(f)
      BY <3>1 DEF Owed, Claimed, Held
    <3>3. Owed(f)' <= Owed(f) + 0
      BY <1>3, <3>2
    <3>. QED  BY <1>1, <1>2, <2>1, <3>3, DebtStays
  <2>. QED  BY <2>2, <2>3
<1>. QED  BY <1>4, <1>5

LEMMA IdleStep ==
    ASSUME DebtInv, Next
    PROVE  IdleHoldsNothing'
<1>. USE DEF DebtInv, TypeOK, IdleHoldsNothing
<1>1. ASSUME NEW e \in Events,
             Insert(e) \/ BackoffPasses(e) \/ OrphanTimesOut(e) \/ HolderOverruns(e)
      PROVE  IdleHoldsNothing'
  BY <1>1 DEF Insert, BackoffPasses, OrphanTimesOut, HolderOverruns
<1>2. ASSUME NEW r \in Relays, Claim(r) \/ Abandon(r)
      PROVE  IdleHoldsNothing'
  BY <1>2 DEF Claim, Abandon
<1>3. ASSUME NEW r \in Relays, NEW e \in Events,
             Publish(r, e) \/ PublishRaises(r, e) \/ MarkRaises(r, e)
      PROVE  IdleHoldsNothing'
  BY <1>3 DEF Publish, PublishRaises, MarkRaises
<1>4. ASSUME NEW r \in Relays, NEW e \in Events, MarkPublished(r, e) \/ MarkFailed(r, e)
      PROVE  IdleHoldsNothing'
  BY <1>4 DEF MarkPublished, MarkFailed, Advance
<1>. QED  BY <1>1, <1>2, <1>3, <1>4 DEF Next, RelayStep

LEMMA DebtStep == DebtInv /\ [Next]_vars => DebtInv'
<1>. SUFFICES ASSUME DebtInv, [Next]_vars PROVE DebtInv'
  OBVIOUS
<1>1. TypeOK /\ TypeOK'
  BY TypeStep DEF DebtInv
<1>2. CASE Next
  <2>1. ASSUME NEW f \in Events
        PROVE  Debt(f)'
    <3>1. ASSUME NEW e \in Events,
                 Insert(e) \/ BackoffPasses(e) \/ OrphanTimesOut(e) \/ HolderOverruns(e)
          PROVE  Debt(f)'
      BY <3>1, RowDebt
    <3>2. ASSUME NEW r \in Relays, Claim(r) \/ Abandon(r)
          PROVE  Debt(f)'
      BY <1>1, <3>2, ClaimDebt, AbandonDebt
    <3>3. ASSUME NEW r \in Relays, NEW e \in Events,
                 RelayStep(r, e) \/ PublishRaises(r, e) \/ MarkRaises(r, e)
          PROVE  Debt(f)'
      BY <1>1, <3>3, LoopDebt, MarkDebt DEF RelayStep
    <3>. QED  BY <1>2, <3>1, <3>2, <3>3 DEF Next
  <2>. QED  BY <1>1, <1>2, <2>1, IdleStep DEF DebtInv
<1>3. CASE UNCHANGED vars
  <2>1. ASSUME NEW f \in Events
        PROVE  Debt(f)'
    <3>1. UNCHANGED <<batch, at, stream>> /\ Owed(f)' = Owed(f) /\ faults' = faults
      BY <1>3 DEF vars, Owed, Claimed, Held
    <3>2. Owed(f)' <= Owed(f) + 0 /\ faults' = faults + 0
      BY <1>1, <2>1, <3>1, DebtTyped DEF DebtInv
    <3>. QED  BY <1>1, <3>1, <3>2, DebtStays DEF DebtInv
  <2>2. IdleHoldsNothing'
    BY <1>3 DEF vars, DebtInv, IdleHoldsNothing
  <2>. QED  BY <1>1, <2>1, <2>2 DEF DebtInv
<1>. QED  BY <1>2, <1>3

(* However relays fail, retry and take claims over from each other, each   *)
(* fault costs at most one more copy of an event.                          *)
THEOREM DuplicatesArePaid == Spec => []DuplicatesNeedFaults
<1>1. DebtInv => DuplicatesNeedFaults
  <2>. SUFFICES ASSUME DebtInv, NEW e \in Events PROVE Copies(e) <= 1 + faults
    BY DEF DuplicatesNeedFaults
  <2>1. /\ Copies(e) \in Nat /\ Cardinality(Owing(e)) \in Nat
        /\ Owed(e) \in {0, 1} /\ faults \in Nat
    BY DebtTyped DEF DebtInv
  <2>2. Copies(e) + Cardinality(Owing(e)) + Owed(e) <= 1 + faults
    BY DEF DebtInv, Debt
  <2>. QED  BY <2>1, <2>2
<1>. QED  BY <1>1, DebtInit, DebtStep, PTL DEF Spec

=============================================================================
