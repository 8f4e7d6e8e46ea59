------------------------ MODULE NotificationQueueProofs ------------------------
(***************************************************************************)
(* Proofs about NotificationQueue, for any notifications and workers, any  *)
(* batch size, any number of devices and attempts and any number of        *)
(* faults, overruns and clock skews.                                       *)
(***************************************************************************)
EXTENDS NotificationQueue, FiniteSetTheorems, SequenceTheorems, WellFoundedInduction, TLAPS

USE NotificationAssumption

Current(w, e) == e \in batch[w] /\ \A f \in batch[w] : e <= f

Settled(i) ==
    \/ i \in excused
    \/ \E n \in 1..MaxAttempts : <<i, n, TRUE>> \in attempts
    \/ Failed(i, MaxAttempts)

(* The entry is no longer needed: its notification is settled, or waits in *)
(* the sorted set or in a later entry.  A later one: two entries that are  *)
(* acknowledged at the same time cannot stand in for each other.           *)
Covered(e) ==
    \/ Settled(stream[e].item)
    \/ \E d \in Entry : d.item = stream[e].item /\ delayed[d] > 0
    \/ \E f \in Unacked : f > e /\ stream[f].item = stream[e].item

Working(w, e) ==
    /\ at[w] # "record" => recorded[w] = 0
    /\ at[w] = "record" =>
          /\ results[w] \in Results /\ recorded[w] < Len(results[w])
          /\ \A k \in 1..recorded[w] :
                <<stream[e].item, stream[e].attempts + 1, results[w][k]>> \in attempts
    /\ at[w] = "retry" =>
          /\ ~LastAttempt(e)
          /\ <<stream[e].item, stream[e].attempts + 1, FALSE>> \in attempts
    /\ at[w] = "ack" => Covered(e)

WorkingInv == \A w \in Workers : \A e \in DOMAIN stream : Current(w, e) => Working(w, e)

AckedCovered == \A e \in (1..lastRead) \ pending : Covered(e)

QueueInv ==
    /\ TypeOK
    /\ RetriesAreRecorded
    /\ WorkingInv
    /\ AckedCovered

-----------------------------------------------------------------------------
LEMMA ResultsTyped ==
    ASSUME NEW r \in Results
    PROVE  /\ Len(r) \in 1..MaxDevices /\ DOMAIN r = 1..Len(r)
           /\ \A k \in 1..Len(r) : r[k] \in BOOLEAN
<1>1. PICK n \in 1..MaxDevices : r \in [1..n -> BOOLEAN]
  BY DEF Results
<1>2. r \in Seq(BOOLEAN)
  BY <1>1, SeqDef
<1>3. DOMAIN r = 1..n /\ DOMAIN r = 1..Len(r) /\ Len(r) \in Nat /\ n \in Nat
  BY <1>1, <1>2, LenProperties
<1>4. Len(r) = n
  BY <1>3
<1> QED
  BY <1>1, <1>3, <1>4

LEMMA StreamTyped ==
    ASSUME TypeOK
    PROVE  /\ stream \in Seq(Entry) /\ Len(stream) \in Nat /\ DOMAIN stream = 1..Len(stream)
           /\ lastRead \in Nat /\ lastRead <= Len(stream) /\ pending \subseteq 1..lastRead
           /\ \A w \in Workers : batch[w] \subseteq 1..lastRead
           /\ \A e \in DOMAIN stream : stream[e] \in Entry
           /\ \A d \in Entry : d.item \in Items /\ d.attempts \in 0..(MaxAttempts - 1)
<1>1. stream \in Seq(Entry)
  BY DEF TypeOK
<1> HIDE DEF Entry
<1>2. Len(stream) \in Nat /\ DOMAIN stream = 1..Len(stream)
      /\ \A e \in DOMAIN stream : stream[e] \in Entry
  BY <1>1
<1>3. /\ lastRead \in Nat /\ lastRead <= Len(stream) /\ pending \subseteq 1..lastRead
      /\ \A w \in Workers : batch[w] \subseteq 1..lastRead
  BY <1>2 DEF TypeOK
<1>4. \A d \in Entry : d.item \in Items /\ d.attempts \in 0..(MaxAttempts - 1)
  BY DEF Entry
<1> QED
  BY <1>1, <1>2, <1>3, <1>4

LEMMA ItemTyped ==
    ASSUME TypeOK, NEW e \in DOMAIN stream
    PROVE  stream[e].item \in Items /\ stream[e].attempts \in 0..(MaxAttempts - 1)
BY StreamTyped

(* The entries a worker reads are consecutive.                             *)
LEMMA NextInterval ==
    ASSUME NEW a \in Nat, NEW b \in Nat, a < b
    PROVE  LET new == FirstOf((a + 1)..b)
           IN  /\ Cardinality(new) \in Nat /\ a + Cardinality(new) <= b
               /\ new = (a + 1)..(a + Cardinality(new))
<1> DEFINE S == (a + 1)..b
           new == FirstOf(S)
           last == IF b <= a + BatchSize THEN b ELSE a + BatchSize
<1>1. ASSUME NEW e \in S PROVE Cardinality({f \in S : f < e}) = e - (a + 1)
  <2>1. {f \in S : f < e} = (a + 1)..(e - 1)
    OBVIOUS
  <2>2. Cardinality((a + 1)..(e - 1)) = e - (a + 1)
    BY FS_Interval
  <2> QED
    BY <2>1, <2>2
<1>2. new = {e \in S : e - (a + 1) < BatchSize}
  BY <1>1 DEF FirstOf
<1>3. last \in Nat /\ a < last /\ last <= b
  OBVIOUS
<1>4. \A e \in Nat : e \in S /\ e - (a + 1) < BatchSize <=> a + 1 <= e /\ e <= last
  OBVIOUS
<1> HIDE DEF new
<1>5. new = (a + 1)..last
  BY <1>2, <1>3, <1>4
<1> HIDE DEF last
<1>6. a + 1 \in Int /\ last \in Int /\ a + 1 <= last
  BY <1>3
<1>7. Cardinality((a + 1)..last) = last - (a + 1) + 1
  BY <1>6, FS_Interval
<1>8. Cardinality(new) \in Nat /\ a + Cardinality(new) = last
  BY <1>3, <1>5, <1>7
<1> QED
  BY <1>3, <1>5, <1>8 DEF new

LEMMA DelayTyped ==
    ASSUME TypeOK, NEW d \in Entry, Delay(d)
    PROVE  /\ delayed' \in [Entry -> Nat] /\ delayed'[d] > 0
           /\ \A x \in Entry : x # d => delayed'[x] = delayed[x]
<1> HIDE DEF Entry
<1>1. delayed \in [Entry -> Nat]
  BY DEF TypeOK
<1> QED
  BY <1>1 DEF Delay

LEMMA AppendTyped ==
    ASSUME TypeOK, NEW d \in Entry, stream' = Append(stream, d)
    PROVE  /\ stream' \in Seq(Entry) /\ Len(stream') = Len(stream) + 1
           /\ DOMAIN stream' = 1..Len(stream')
           /\ \A e \in DOMAIN stream : e \in DOMAIN stream' /\ stream'[e] = stream[e]
           /\ stream'[Len(stream) + 1] = d
<1>1. stream \in Seq(Entry) /\ Len(stream) \in Nat /\ DOMAIN stream = 1..Len(stream)
  BY StreamTyped
<1> HIDE DEF Entry
<1> QED
  BY <1>1

LEMMA ContinueTyped ==
    ASSUME TypeOK, NEW w \in Workers, NEW S \in SUBSET (1..lastRead'), Continue(w, S),
           lastRead' \in Nat, lastRead <= lastRead'
    PROVE  /\ batch' \in [Workers -> SUBSET (1..lastRead')]
           /\ at' \in [Workers -> Location]
           /\ results' \in [Workers -> Results \cup {<<>>}]
           /\ recorded' \in [Workers -> 0..MaxDevices]
<1>1. 1..lastRead \subseteq 1..lastRead'
  BY StreamTyped
<1>2. batch' \in [Workers -> SUBSET (1..lastRead')]
  BY <1>1 DEF Continue, TypeOK
<1>3. (IF S = {} THEN "idle" ELSE "check") \in Location
  BY DEF Location
<1>4. at' \in [Workers -> Location]
  BY <1>3 DEF Continue, TypeOK
<1>5. results' \in [Workers -> Results \cup {<<>>}]
  BY DEF Continue, TypeOK
<1>6. recorded' \in [Workers -> 0..MaxDevices]
  BY DEF Continue, TypeOK
<1> QED
  BY <1>2, <1>4, <1>5, <1>6

LEMMA EntryOfItem ==
    ASSUME NEW i \in Items PROVE [item |-> i, attempts |-> 0] \in Entry
BY DEF Entry

LEMMA TypeInit == Init => TypeOK
<1> SUFFICES ASSUME Init PROVE TypeOK
  OBVIOUS
<1>1. /\ stream \in Seq(Entry) /\ lastRead \in 0..Len(stream) /\ pending \subseteq 1..lastRead
      /\ idle \subseteq pending /\ delayed \in [Entry -> Nat]
  BY DEF Init
<1>2. /\ batch \in [Workers -> SUBSET (1..lastRead)] /\ at \in [Workers -> Location]
      /\ results \in [Workers -> Results \cup {<<>>}] /\ recorded \in [Workers -> 0..MaxDevices]
  BY DEF Init, Location
<1>3. /\ attempts \subseteq Items \X (1..MaxAttempts) \X BOOLEAN /\ excused \subseteq Items
      /\ rounds \in [Items -> Nat] /\ pushed \in [Items -> Nat]
      /\ faults \in Nat /\ overruns \in Nat /\ skews \in Nat
      /\ faults + overruns + skews <= MaxTroubles
  BY DEF Init
<1> QED
  BY <1>1, <1>2, <1>3 DEF TypeOK

-----------------------------------------------------------------------------
(* What the parts of a step do to the types.                               *)
LEMMA CountsTyped ==
    ASSUME TypeOK, [Next]_vars
    PROVE  /\ faults' \in Nat /\ overruns' \in Nat /\ skews' \in Nat
           /\ faults' + overruns' + skews' <= MaxTroubles
<1>1. /\ faults \in Nat /\ overruns \in Nat /\ skews \in Nat
      /\ faults + overruns + skews <= MaxTroubles
  BY DEF TypeOK
<1>2. ASSUME NEW w \in Workers, NEW e, Abandon(w) \/ DieSending(w, e)
      PROVE  Trouble /\ faults' = faults + 1 /\ UNCHANGED <<overruns, skews>>
  BY <1>2 DEF Abandon, DieSending, Fault
<1>3. ASSUME NEW e, HolderOverruns(e)
      PROVE  Trouble /\ overruns' = overruns + 1 /\ UNCHANGED <<faults, skews>>
  BY <1>3 DEF HolderOverruns
<1>4. ASSUME NEW w \in Workers, NEW e, Park(w, e)
      PROVE  Trouble /\ skews' = skews + 1 /\ UNCHANGED <<faults, overruns>>
  BY <1>4 DEF Park
<1>5. CASE UNCHANGED counts
  BY <1>1, <1>5 DEF counts
<1>6. ASSUME NEW w \in Workers, NEW e, WorkerStep(w, e), ~Park(w, e)
      PROVE  UNCHANGED counts
  BY <1>6 DEF WorkerStep, FindOnline, FindOffline, FindNoDevice, Send, Record, Retry, Ack
<1>7. CASE \/ \E i \in Items : Enqueue(i)
           \/ \E w \in Workers : Reclaim(w) \/ ReadNew(w)
           \/ \E w \in Workers, d \in Entry : Promote(w, d)
           \/ \E e \in DOMAIN stream : OrphanIdles(e)
           \/ UNCHANGED vars
  BY <1>5, <1>7 DEF Enqueue, Reclaim, ReadNew, Promote, OrphanIdles, vars
<1>8. CASE \E w \in Workers, e \in DOMAIN stream : WorkerStep(w, e)
  BY <1>1, <1>4, <1>5, <1>6, <1>8 DEF Trouble
<1>9. CASE \/ \E w \in Workers, e \in DOMAIN stream : Abandon(w) \/ DieSending(w, e)
           \/ \E e \in DOMAIN stream : HolderOverruns(e)
  BY <1>1, <1>2, <1>3, <1>9 DEF Trouble
<1>10. CASE \E w \in Workers : Abandon(w)
  BY <1>1, <1>2, <1>10 DEF Trouble
<1> QED
  BY <1>7, <1>8, <1>9, <1>10 DEF Next

LEMMA QueueTyped ==
    ASSUME TypeOK, [Next]_vars,
           \A w \in Workers, e \in DOMAIN stream : Current(w, e) => Working(w, e)
    PROVE  /\ stream' \in Seq(Entry) /\ Len(stream) <= Len(stream')
           /\ delayed' \in [Entry -> Nat]
<1> HIDE DEF Entry
<1>0. stream \in Seq(Entry) /\ Len(stream) \in Nat /\ delayed \in [Entry -> Nat]
  BY StreamTyped DEF TypeOK
<1>1. ASSUME NEW i \in Items, Enqueue(i)
      PROVE  (\E d \in Entry : stream' = Append(stream, d)) /\ UNCHANGED delayed
  BY <1>1, EntryOfItem DEF Enqueue
<1>2. ASSUME NEW w \in Workers, NEW d \in Entry, Promote(w, d)
      PROVE  stream' = Append(stream, d) /\ delayed' \in [Entry -> Nat]
  <2>1. delayed[d] \in Nat /\ delayed[d] - 1 \in Nat
    BY <1>0, <1>2 DEF Promote
  <2> QED
    BY <1>0, <1>2, <2>1 DEF Promote
<1>3. ASSUME NEW w \in Workers, NEW e \in DOMAIN stream, Park(w, e)
      PROVE  UNCHANGED stream /\ delayed' \in [Entry -> Nat]
  BY <1>3, StreamTyped, DelayTyped DEF Park
<1>4. ASSUME NEW w \in Workers, NEW e \in DOMAIN stream, Retry(w, e)
      PROVE  UNCHANGED stream /\ delayed' \in [Entry -> Nat]
  <2>1. ~LastAttempt(e)
    BY <1>4 DEF Retry, Busy, Current, Working
  <2>2. [stream[e] EXCEPT !.attempts = @ + 1] \in Entry
    BY <2>1, StreamTyped DEF LastAttempt, Entry
  <2> QED
    BY <1>4, <2>2, DelayTyped DEF Retry
<1>5. CASE UNCHANGED <<stream, delayed>>
  BY <1>0, <1>5
<1>6. ASSUME NEW d \in Entry, stream' = Append(stream, d)
      PROVE  stream' \in Seq(Entry) /\ Len(stream) <= Len(stream')
  BY <1>0, <1>6
<1>7. CASE (\E i \in Items : Enqueue(i)) \/ \E w \in Workers, d \in Entry : Promote(w, d)
  BY <1>0, <1>1, <1>2, <1>6, <1>7
<1>8. CASE \E w \in Workers, e \in DOMAIN stream : Park(w, e) \/ Retry(w, e)
  BY <1>0, <1>3, <1>4, <1>8
<1> QED
  BY <1>5, <1>7, <1>8
     DEF Next, vars, queue, Reclaim, ReadNew, Abandon, WorkerStep, DieSending, OrphanIdles,
         HolderOverruns, FindOnline, FindOffline, FindNoDevice, Send, Record, Ack

(* A batch goes on: with idle entries, the next ones, the rest, or none.   *)
LEMMA BatchTyped ==
    ASSUME TypeOK, NEW w \in Workers, NEW e,
           Reclaim(w) \/ ReadNew(w) \/ Abandon(w) \/ DieSending(w, e) \/ Ack(w, e)
    PROVE  /\ lastRead' \in 0..Len(stream) /\ lastRead <= lastRead'
           /\ pending' \subseteq 1..lastRead' /\ idle' \subseteq pending'
           /\ \E S \in SUBSET (1..lastRead') : Continue(w, S)
<1>0. /\ lastRead \in Nat /\ Len(stream) \in Nat /\ lastRead <= Len(stream)
      /\ pending \subseteq 1..lastRead /\ idle \subseteq pending /\ batch[w] \subseteq 1..lastRead
  BY StreamTyped DEF TypeOK
<1>1. CASE Reclaim(w)
  <2>1. FirstOf(idle) \subseteq 1..lastRead
    BY <1>0 DEF FirstOf
  <2>2. /\ UNCHANGED <<lastRead, pending>> /\ idle' = idle \ FirstOf(idle)
        /\ Continue(w, FirstOf(idle))
    BY <1>1 DEF Reclaim
  <2>3. lastRead' = lastRead /\ pending' = pending /\ idle' \subseteq idle
    BY <2>2
  <2>4. Continue(w, FirstOf(idle)) /\ FirstOf(idle) \in SUBSET (1..lastRead')
    BY <2>1, <2>2
  <2> HIDE DEF Continue, FirstOf
  <2> QED
    BY <1>0, <2>3, <2>4
<1>2. CASE ReadNew(w)
  <2> DEFINE new == FirstOf((lastRead + 1)..Len(stream))
  <2>1. /\ Cardinality(new) \in Nat /\ lastRead + Cardinality(new) <= Len(stream)
        /\ new = (lastRead + 1)..(lastRead + Cardinality(new))
    BY <1>0, <1>2, NextInterval DEF ReadNew
  <2>2. /\ lastRead' = lastRead + Cardinality(new) /\ pending' = pending \cup new
        /\ Continue(w, new) /\ UNCHANGED idle
    BY <1>2 DEF ReadNew
  <2> HIDE DEF new
  <2>3. lastRead' \in 0..Len(stream) /\ lastRead <= lastRead'
    BY <1>0, <2>1, <2>2
  <2>4. new \subseteq 1..lastRead' /\ 1..lastRead \subseteq 1..lastRead'
    BY <1>0, <2>1, <2>2
  <2> QED
    BY <1>0, <2>2, <2>3, <2>4
<1>3. CASE Abandon(w) \/ DieSending(w, e) \/ Ack(w, e)
  <2>1. /\ UNCHANGED lastRead /\ pending' \subseteq pending /\ idle' \subseteq pending'
        /\ Continue(w, {}) \/ Continue(w, batch[w] \ {e})
    BY <1>0, <1>3 DEF Abandon, DieSending, Ack, queue
  <2>2. {} \subseteq 1..lastRead' /\ batch[w] \ {e} \subseteq 1..lastRead'
    BY <1>0, <2>1
  <2> QED
    BY <1>0, <2>1, <2>2
<1> QED
  BY <1>1, <1>2, <1>3

LEMMA AnswerTyped ==
    ASSUME TypeOK, NEW w \in Workers, NEW e \in DOMAIN stream, Record(w, e), Working(w, e)
    PROVE  /\ Row(w, e) \in Items \X (1..MaxAttempts) \X BOOLEAN
           /\ batch' = batch
           /\ at' \in [Workers -> Location]
           /\ results' \in [Workers -> Results \cup {<<>>}]
           /\ recorded' \in [Workers -> 0..MaxDevices]
<1>1. PICK r \in Results, n \in Nat : r = results[w] /\ n = recorded[w] /\ n < Len(r)
  BY DEF Record, Busy, Working, TypeOK
<1>2. Len(r) \in 1..MaxDevices /\ r[n + 1] \in BOOLEAN
  BY <1>1, ResultsTyped
<1>3. stream[e].item \in Items /\ stream[e].attempts + 1 \in 1..MaxAttempts
  BY StreamTyped
<1>4. Row(w, e) \in Items \X (1..MaxAttempts) \X BOOLEAN
  BY <1>1, <1>2, <1>3 DEF Row
<1>5. CASE n + 1 < Len(r)
  <2>1. recorded' = [recorded EXCEPT ![w] = n + 1] /\ UNCHANGED <<batch, at, results>>
    BY <1>1, <1>5 DEF Record, NextAnswer
  <2>2. n + 1 \in 0..MaxDevices
    BY <1>2, <1>5
  <2> QED
    BY <1>4, <2>1, <2>2 DEF TypeOK
<1>6. CASE ~(n + 1 < Len(r))
  <2>1. /\ \E location \in {"ack", "retry"} : Goto(w, location)
        /\ results' = [results EXCEPT ![w] = <<>>] /\ recorded' = [recorded EXCEPT ![w] = 0]
    BY <1>1, <1>6 DEF Record, NextAnswer
  <2>2. at' \in [Workers -> Location] /\ batch' = batch
    BY <2>1 DEF Goto, TypeOK, Location
  <2>3. results' \in [Workers -> Results \cup {<<>>}]
    BY <2>1 DEF TypeOK
  <2>4. recorded' \in [Workers -> 0..MaxDevices]
    BY <2>1 DEF TypeOK
  <2> QED
    BY <1>4, <2>2, <2>3, <2>4
<1> QED
  BY <1>5, <1>6

LEMMA TypeStep == TypeOK /\ WorkingInv /\ [Next]_vars => TypeOK'
<1> SUFFICES ASSUME TypeOK, WorkingInv, [Next]_vars PROVE TypeOK'
  OBVIOUS
<1>0. /\ lastRead \in Nat /\ lastRead' = lastRead => lastRead' \in 0..Len(stream')
      /\ stream' \in Seq(Entry) /\ delayed' \in [Entry -> Nat]
      /\ 0..Len(stream) \subseteq 0..Len(stream')
  <2>1. Len(stream) \in Nat /\ lastRead \in Nat /\ lastRead <= Len(stream)
    BY StreamTyped
  <2>2. /\ stream' \in Seq(Entry) /\ delayed' \in [Entry -> Nat]
        /\ Len(stream) <= Len(stream')
    BY QueueTyped DEF WorkingInv
  <2>3. Len(stream') \in Nat
    BY <2>2
  <2> QED
    BY <2>1, <2>2, <2>3
<1> DEFINE Counts == /\ faults' \in Nat /\ overruns' \in Nat /\ skews' \in Nat
                     /\ faults' + overruns' + skews' <= MaxTroubles
<1>1. Counts
  BY CountsTyped
<1> HIDE DEF Counts
<1>2. CASE UNCHANGED <<lastRead, pending, idle, worker, log>>
  BY <1>0, <1>1, <1>2 DEF TypeOK, Counts, worker, log
<1>3. ASSUME NEW w \in Workers, NEW e,
             \/ Reclaim(w) \/ ReadNew(w) \/ Abandon(w) \/ Ack(w, e)
             \/ DieSending(w, e) /\ e \in DOMAIN stream
      PROVE  TypeOK'
  <2>1. /\ lastRead' \in 0..Len(stream) /\ lastRead <= lastRead'
        /\ pending' \subseteq 1..lastRead' /\ idle' \subseteq pending'
        /\ \E S \in SUBSET (1..lastRead') : Continue(w, S)
    BY <1>3, BatchTyped
  <2>2. /\ batch' \in [Workers -> SUBSET (1..lastRead')] /\ at' \in [Workers -> Location]
        /\ results' \in [Workers -> Results \cup {<<>>}]
        /\ recorded' \in [Workers -> 0..MaxDevices]
    BY <2>1, StreamTyped, ContinueTyped
  <2>3. /\ UNCHANGED <<attempts, excused>>
        /\ rounds' \in [Items -> Nat] /\ pushed' \in [Items -> Nat]
    <3>1. CASE DieSending(w, e)
      <4>1. PICK i \in Items : i = stream[e].item
        <5>1. e \in DOMAIN stream
          BY <3>1, StreamTyped DEF DieSending, Busy
        <5> QED
          BY <5>1, ItemTyped
      <4>2. /\ UNCHANGED <<attempts, excused>> /\ rounds' = [rounds EXCEPT ![i] = @ + 1]
            /\ pushed' \in {pushed, [pushed EXCEPT ![i] = @ + 1]}
        BY <3>1, <4>1 DEF DieSending
      <4>3. rounds \in [Items -> Nat] /\ pushed \in [Items -> Nat]
        BY DEF TypeOK
      <4> QED
        BY <4>2, <4>3
    <3>2. CASE ~DieSending(w, e)
      BY <1>3, <3>2 DEF Reclaim, ReadNew, Abandon, Ack, log, TypeOK
    <3> QED
      BY <3>1, <3>2
  <2> QED
    BY <1>0, <1>1, <2>1, <2>2, <2>3 DEF TypeOK, Counts
<1>4. ASSUME NEW w \in Workers, NEW e \in DOMAIN stream,
             \/ Park(w, e) \/ FindOnline(w, e) \/ FindOffline(w, e) \/ FindNoDevice(w, e)
             \/ Retry(w, e)
      PROVE  TypeOK'
  <2>1. \E location \in Location : Goto(w, location)
    BY <1>4 DEF Park, FindOnline, FindOffline, FindNoDevice, Retry, Location
  <2>2. /\ UNCHANGED <<lastRead, pending, idle, results, recorded, attempts, rounds, pushed>>
        /\ excused' \in {excused, excused \cup {stream[e].item}}
    BY <1>4 DEF Park, FindOnline, FindOffline, FindNoDevice, Retry, queue, log
  <2>5. stream[e].item \in Items
    BY ItemTyped
  <2>3. excused' \subseteq Items
    BY <2>2, <2>5 DEF TypeOK
  <2>4. batch' = batch /\ at' \in [Workers -> Location]
    BY <2>1 DEF Goto, TypeOK
  <2> QED
    BY <1>0, <1>1, <2>2, <2>3, <2>4 DEF TypeOK, Counts
<1>5. ASSUME NEW w \in Workers, NEW e \in DOMAIN stream, Send(w, e) PROVE TypeOK'
  <2>1. /\ UNCHANGED <<lastRead, pending, idle, recorded, attempts, excused>>
        /\ Goto(w, "record")
    BY <1>5 DEF Send, queue
  <2>2. batch' = batch /\ at' \in [Workers -> Location]
    BY <2>1 DEF Goto, TypeOK, Location
  <2>3. results' \in [Workers -> Results \cup {<<>>}]
    BY <1>5 DEF Send, TypeOK
  <2>6. PICK i \in Items : i = stream[e].item
    BY ItemTyped
  <2>7. /\ rounds' = [rounds EXCEPT ![i] = @ + 1]
        /\ pushed' \in {pushed, [pushed EXCEPT ![i] = @ + 1]}
    BY <1>5, <2>6 DEF Send, TypeOK
  <2>8. rounds \in [Items -> Nat] /\ pushed \in [Items -> Nat]
    BY DEF TypeOK
  <2>9. rounds' \in [Items -> Nat] /\ pushed' \in [Items -> Nat]
    BY <2>7, <2>8
  <2> QED
    BY <1>0, <1>1, <2>1, <2>2, <2>3, <2>9 DEF TypeOK, Counts
<1>6. ASSUME NEW w \in Workers, NEW e \in DOMAIN stream, Record(w, e) PROVE TypeOK'
  <2>1. Working(w, e)
    BY <1>6 DEF WorkingInv, Record, Busy, Current
  <2>2. /\ UNCHANGED <<lastRead, pending, idle, excused, rounds, pushed>>
        /\ attempts' = attempts \cup {Row(w, e)}
    BY <1>6 DEF Record, queue
  <2> QED
    BY <1>0, <1>1, <1>6, <2>1, <2>2, AnswerTyped DEF TypeOK, Counts
<1>7. ASSUME NEW e \in DOMAIN stream, OrphanIdles(e) \/ HolderOverruns(e) PROVE TypeOK'
  <2>1. UNCHANGED <<lastRead, pending, worker, log>> /\ idle' = idle \cup {e} /\ e \in pending
    BY <1>7 DEF OrphanIdles, HolderOverruns
  <2> QED
    BY <1>0, <1>1, <2>1 DEF TypeOK, Counts, worker, log
<1> QED
  BY <1>2, <1>3, <1>4, <1>5, <1>6, <1>7
     DEF Next, WorkerStep, Enqueue, Promote, vars, queue

-----------------------------------------------------------------------------
(* Attempts, like those who were excused, are never forgotten.             *)
Grows ==
    /\ attempts \subseteq attempts' /\ excused \subseteq excused'
    /\ \A e \in DOMAIN stream : e \in DOMAIN stream' /\ stream'[e] = stream[e]

LEMMA FailedStays ==
    ASSUME Grows, NEW i, NEW k, Failed(i, k) PROVE Failed(i, k)'
BY DEF Grows, Failed

LEMMA SettledStays ==
    ASSUME Grows, NEW i, Settled(i) PROVE Settled(i)'
BY FailedStays DEF Settled, Grows

(* Covered stays covered, unless the last of the covering entries is       *)
(* acknowledged, which is covered itself.                                  *)
LEMMA CoveredStays ==
    ASSUME TypeOK, TypeOK', Grows, NEW e \in DOMAIN stream, Covered(e),
           Unacked \subseteq Unacked',
           \A d \in Entry : delayed[d] > 0 =>
              \/ delayed'[d] > 0
              \/ \E f \in Unacked' : f > Len(stream) /\ stream'[f].item = d.item
    PROVE  Covered(e)'
<1>1. stream'[e] = stream[e] /\ e \in 1..Len(stream) /\ Len(stream) \in Nat
  BY StreamTyped DEF Grows
<1>2. CASE Settled(stream[e].item)
  BY <1>1, <1>2, SettledStays DEF Covered
<1>3. ASSUME NEW d \in Entry, d.item = stream[e].item, delayed[d] > 0
      PROVE  Covered(e)'
  <2>1. CASE delayed'[d] > 0
    BY <1>1, <1>3, <2>1 DEF Covered
  <2>2. ASSUME NEW f \in Unacked', f > Len(stream), stream'[f].item = d.item
        PROVE  Covered(e)'
    <3>1. f \in Nat
      <4>1. stream' \in Seq(Entry) /\ f \in DOMAIN stream'
        BY <2>2 DEF TypeOK, Unacked
      <4> HIDE DEF Entry
      <4> QED
        BY <4>1
    <3>2. f > e
      BY <1>1, <2>2, <3>1
    <3> QED
      BY <1>1, <1>3, <2>2, <3>2 DEF Covered
  <2> QED
    BY <1>3, <2>1, <2>2
<1>4. ASSUME NEW f \in Unacked, f > e, stream[f].item = stream[e].item
      PROVE  Covered(e)'
  <2>1. f \in Unacked' /\ stream'[f] = stream[f]
    BY <1>4 DEF Unacked, Grows
  <2> QED
    BY <1>1, <1>4, <2>1 DEF Covered
<1> QED
  BY <1>2, <1>3, <1>4 DEF Covered

LEMMA CoveredStaysAck ==
    ASSUME TypeOK, Grows, NEW c \in DOMAIN stream, Covered(c), NEW e \in DOMAIN stream, Covered(e),
           Unacked \ {c} \subseteq Unacked', UNCHANGED delayed
    PROVE  Covered(e)'
<1>0. stream'[e] = stream[e]
  BY DEF Grows
<1>1. CASE Settled(stream[e].item)
  BY <1>0, <1>1, SettledStays DEF Covered
<1>2. CASE \E d \in Entry : d.item = stream[e].item /\ delayed[d] > 0
  BY <1>0, <1>2 DEF Covered
<1>3. ASSUME NEW f \in Unacked, f # c, f > e, stream[f].item = stream[e].item
      PROVE  Covered(e)'
  <2>1. f \in Unacked' /\ stream'[f] = stream[f]
    BY <1>3 DEF Unacked, Grows
  <2> QED
    BY <1>0, <1>3, <2>1 DEF Covered
<1>4. CASE c > e /\ stream[c].item = stream[e].item
  <2>1. CASE Settled(stream[c].item)
    BY <1>1, <1>4, <2>1
  <2>2. CASE \E d \in Entry : d.item = stream[c].item /\ delayed[d] > 0
    BY <1>2, <1>4, <2>2
  <2>3. ASSUME NEW f \in Unacked, f > c, stream[f].item = stream[c].item
        PROVE  Covered(e)'
    <3>1. f \in Nat /\ c \in Nat /\ e \in Nat
      BY StreamTyped DEF Unacked
    <3>2. f > e /\ f # c
      BY <1>4, <2>3, <3>1
    <3> QED
      BY <1>3, <1>4, <2>3, <3>2
  <2> QED
    BY <2>1, <2>2, <2>3 DEF Covered
<1> QED
  BY <1>1, <1>2, <1>3, <1>4 DEF Covered

(* The invariant from its parts: what acknowledging, working and queueing  *)
(* have to show of a step.                                                 *)
LEMMA InvFrom ==
    ASSUME QueueInv, TypeOK', Grows, RetriesAreRecorded',
           \A e \in DOMAIN stream : Covered(e) => Covered(e)',
           \A e \in (1..lastRead') \ pending' : e \in (1..lastRead) \ pending \/ Covered(e)',
           \A v \in Workers :
              \/ UNCHANGED <<batch[v], at[v], results[v], recorded[v]>>
              \/ \A e \in DOMAIN stream' : Current(v, e)' => Working(v, e)'
    PROVE  QueueInv'
<1>0. (1..lastRead) \subseteq DOMAIN stream
  BY StreamTyped DEF QueueInv
<1>1. AckedCovered'
  BY <1>0 DEF AckedCovered, QueueInv
<1>2. ASSUME NEW v \in Workers, NEW e \in DOMAIN stream', Current(v, e)',
             UNCHANGED <<batch[v], at[v], results[v], recorded[v]>>
      PROVE  Working(v, e)'
  <2>1. Current(v, e)
    BY <1>2 DEF Current
  <2>2. e \in DOMAIN stream
    BY <1>0, <2>1, StreamTyped DEF Current, QueueInv
  <2>3. Working(v, e) /\ stream'[e] = stream[e]
    BY <2>1, <2>2 DEF QueueInv, WorkingInv, Grows
  <2> QED
    BY <1>2, <2>2, <2>3 DEF Working, LastAttempt, Grows
<1>3. WorkingInv'
  BY <1>2 DEF WorkingInv
<1> QED
  BY <1>1, <1>3 DEF QueueInv

(* Entries that are as they were, or hold what was recorded, keep the      *)
(* numbers right.                                                          *)
LEMMA RecordedFrom ==
    ASSUME TypeOK, RetriesAreRecorded, Grows,
           \A e \in DOMAIN stream' \ DOMAIN stream :
              Failed(stream[e].item, stream[e].attempts)',
           \A d \in Entry : delayed'[d] > 0 => delayed[d] > 0 \/ Failed(d.item, d.attempts)
    PROVE  RetriesAreRecorded'
<1>1. ASSUME NEW e \in DOMAIN stream' PROVE Failed(stream[e].item, stream[e].attempts)'
  <2>1. CASE e \in DOMAIN stream
    <3>1. PICK i, k : i = stream[e].item /\ k = stream[e].attempts
      OBVIOUS
    <3>2. Failed(i, k) /\ stream'[e].item = i /\ stream'[e].attempts = k
      BY <2>1, <3>1 DEF RetriesAreRecorded, Grows
    <3> QED
      BY <3>2, FailedStays
  <2> QED
    BY <1>1, <2>1
<1>2. ASSUME NEW d \in Entry, delayed'[d] > 0 PROVE Failed(d.item, d.attempts)'
  <2>1. Failed(d.item, d.attempts)
    BY <1>2 DEF RetriesAreRecorded
  <2> QED
    BY <2>1, FailedStays
<1> QED
  BY <1>1, <1>2 DEF RetriesAreRecorded

-----------------------------------------------------------------------------
LEMMA EnqueueStep ==
    ASSUME QueueInv, TypeOK', NEW i \in Items, Enqueue(i)
    PROVE  QueueInv'
<1> DEFINE d == [item |-> i, attempts |-> 0]
<1>1. d \in Entry /\ d.attempts = 0
  BY EntryOfItem
<1> HIDE DEF d
<1>2. stream' = Append(stream, d) /\ UNCHANGED <<lastRead, pending, delayed, worker, log>>
  BY DEF Enqueue, d
<1>3. /\ Len(stream') = Len(stream) + 1 /\ DOMAIN stream' = 1..Len(stream')
      /\ \A e \in DOMAIN stream : e \in DOMAIN stream' /\ stream'[e] = stream[e]
      /\ stream'[Len(stream) + 1] = d /\ DOMAIN stream = 1..Len(stream) /\ Len(stream) \in Nat
  BY <1>1, <1>2, AppendTyped, StreamTyped DEF QueueInv
<1>4. Grows /\ Unacked \subseteq Unacked'
  BY <1>2, <1>3 DEF Grows, Unacked, log
<1>5. RetriesAreRecorded'
  <2>1. ASSUME NEW e \in DOMAIN stream' \ DOMAIN stream
        PROVE  Failed(stream[e].item, stream[e].attempts)'
    <3>1. e = Len(stream) + 1
      BY <1>3
    <3>2. stream'[e].attempts = 0
      BY <1>1, <1>3, <3>1
    <3> QED
      BY <3>2 DEF Failed
  <2> QED
    BY <1>2, <1>4, <2>1, RecordedFrom DEF QueueInv
<1>6. \A e \in DOMAIN stream : Covered(e) => Covered(e)'
  BY <1>2, <1>4, CoveredStays DEF QueueInv
<1> QED
  BY <1>2, <1>4, <1>5, <1>6, InvFrom DEF worker

LEMMA PromoteStep ==
    ASSUME QueueInv, TypeOK', NEW w \in Workers, NEW d \in Entry, Promote(w, d)
    PROVE  QueueInv'
<1>1. /\ stream' = Append(stream, d) /\ delayed' = [delayed EXCEPT ![d] = @ - 1]
      /\ delayed[d] > 0
      /\ UNCHANGED <<lastRead, pending, worker, log>>
  BY DEF Promote
<1>2. /\ Len(stream') = Len(stream) + 1 /\ DOMAIN stream' = 1..Len(stream')
      /\ \A e \in DOMAIN stream : e \in DOMAIN stream' /\ stream'[e] = stream[e]
      /\ stream'[Len(stream) + 1] = d /\ DOMAIN stream = 1..Len(stream) /\ Len(stream) \in Nat
      /\ lastRead \in Nat /\ lastRead <= Len(stream)
  BY <1>1, AppendTyped, StreamTyped DEF QueueInv
<1>3. Grows /\ Unacked \subseteq Unacked' /\ Len(stream) + 1 \in Unacked'
  BY <1>1, <1>2 DEF Grows, Unacked, log
<1>4. \A x \in Entry : x # d => delayed'[x] = delayed[x]
  BY <1>1 DEF QueueInv, TypeOK
<1>5. RetriesAreRecorded'
  <2>1. ASSUME NEW e \in DOMAIN stream' \ DOMAIN stream
        PROVE  Failed(stream[e].item, stream[e].attempts)'
    <3>1. stream'[e] = d
      BY <1>2
    <3>2. Failed(d.item, d.attempts)
      BY <1>1 DEF QueueInv, RetriesAreRecorded
    <3> QED
      BY <1>3, <3>1, <3>2, FailedStays
  <2>2. \A x \in Entry : delayed'[x] > 0 => delayed[x] > 0
    BY <1>1, <1>4
  <2> QED
    BY <1>3, <2>1, <2>2, RecordedFrom DEF QueueInv
<1>6. ASSUME NEW x \in Entry, delayed[x] > 0
      PROVE  \/ delayed'[x] > 0
             \/ \E f \in Unacked' : f > Len(stream) /\ stream'[f].item = x.item
  BY <1>2, <1>3, <1>4, <1>6
<1>7. \A e \in DOMAIN stream : Covered(e) => Covered(e)'
  BY <1>3, <1>6, CoveredStays DEF QueueInv
<1> QED
  BY <1>1, <1>3, <1>5, <1>7, InvFrom DEF worker

(* A worker that begins or forgets a batch is at the start of an entry.    *)
LEMMA FreshStart ==
    ASSUME TypeOK, NEW w \in Workers, NEW S, Continue(w, S)
    PROVE  /\ \A e : Working(w, e)'
           /\ \A v \in Workers : v # w =>
                 UNCHANGED <<batch[v], at[v], results[v], recorded[v]>>
<1>1. at'[w] \in {"idle", "check"}
  BY DEF TypeOK, Continue
<1>2. recorded'[w] = 0
  BY DEF TypeOK, Continue
<1>3. \A e : Working(w, e)'
  BY <1>1, <1>2 DEF Working
<1> QED
  BY <1>3 DEF TypeOK, Continue

LEMMA BatchStep ==
    ASSUME QueueInv, TypeOK', NEW w \in Workers, NEW e,
           \/ Reclaim(w) \/ ReadNew(w) \/ Abandon(w) \/ DieSending(w, e)
    PROVE  QueueInv'
<1>1. UNCHANGED <<stream, delayed, attempts, excused>> /\ \E S : Continue(w, S)
  BY DEF Reclaim, ReadNew, Abandon, DieSending, queue, log
<1>2. Grows
  BY <1>1 DEF Grows
<1>3. RetriesAreRecorded'
  BY <1>1, <1>2, RecordedFrom DEF QueueInv
<1>4. Unacked' = Unacked /\ (1..lastRead') \ pending' \subseteq (1..lastRead) \ pending
  <2>1. CASE ReadNew(w)
    <3> DEFINE new == FirstOf((lastRead + 1)..Len(stream))
    <3>0. lastRead \in Nat /\ Len(stream) \in Nat /\ lastRead < Len(stream)
          /\ DOMAIN stream = 1..Len(stream)
      BY <2>1, StreamTyped DEF ReadNew, QueueInv
    <3>1. Cardinality(new) \in Nat /\ new = (lastRead + 1)..(lastRead + Cardinality(new))
      BY <3>0, NextInterval
    <3>2. lastRead' = lastRead + Cardinality(new) /\ pending' = pending \cup new
      BY <2>1 DEF ReadNew
    <3> HIDE DEF new
    <3>3. pending \subseteq 1..lastRead
      BY StreamTyped DEF QueueInv
    <3>4. \A f \in Nat : f > lastRead' \/ f \in pending' <=> f > lastRead \/ f \in pending
      BY <3>0, <3>1, <3>2, <3>3
    <3>5. Unacked' = Unacked
      BY <1>1, <3>0, <3>4 DEF Unacked
    <3> QED
      BY <3>0, <3>1, <3>2, <3>5
  <2>2. CASE Reclaim(w) \/ Abandon(w) \/ DieSending(w, e)
    <3>1. UNCHANGED <<lastRead, pending>>
      BY <2>2 DEF Reclaim, Abandon, DieSending, queue
    <3> QED
      BY <1>1, <3>1 DEF Unacked
  <2> QED
    BY <2>1, <2>2
<1>5. \A f \in DOMAIN stream : Covered(f) => Covered(f)'
  BY <1>1, <1>2, <1>4, CoveredStays DEF QueueInv
<1> QED
  BY <1>1, <1>2, <1>3, <1>4, <1>5, FreshStart, InvFrom DEF QueueInv

LEMMA AckStep ==
    ASSUME QueueInv, TypeOK', NEW w \in Workers, NEW e \in DOMAIN stream, Ack(w, e)
    PROVE  QueueInv'
<1>1. /\ UNCHANGED <<stream, lastRead, delayed, attempts, excused>>
      /\ \E S : Continue(w, S)
      /\ pending' = pending \ {e}
  BY DEF Ack, log
<1>2. Grows /\ Unacked \ {e} \subseteq Unacked'
  BY <1>1 DEF Grows, Unacked
<1>3. Covered(e)
  BY DEF Ack, Busy, Current, QueueInv, WorkingInv, Working
<1>4. RetriesAreRecorded'
  BY <1>1, <1>2, RecordedFrom DEF QueueInv
<1>5. \A f \in DOMAIN stream : Covered(f) => Covered(f)'
  BY <1>1, <1>2, <1>3, CoveredStaysAck DEF QueueInv
<1>6. \A f \in (1..lastRead') \ pending' : f \in (1..lastRead) \ pending \/ Covered(f)'
  BY <1>1, <1>3, <1>5
<1> QED
  BY <1>1, <1>2, <1>4, <1>5, <1>6, FreshStart, InvFrom DEF QueueInv

(* A worker that moves within its entry.                                   *)
LEMMA WithinEntry ==
    ASSUME QueueInv, TypeOK', NEW w \in Workers, NEW e \in DOMAIN stream, Current(w, e),
           UNCHANGED <<stream, lastRead, pending, batch>>,
           attempts \subseteq attempts', excused \subseteq excused',
           \A d \in Entry : delayed'[d] > 0 => delayed[d] > 0 \/ Failed(d.item, d.attempts)',
           \A d \in Entry : delayed[d] > 0 => delayed'[d] > 0,
           \A v \in Workers : v # w => UNCHANGED <<at[v], results[v], recorded[v]>>,
           Working(w, e)'
    PROVE  QueueInv'
<1>1. Grows /\ Unacked' = Unacked
  BY DEF Grows, Unacked
<1>2. RetriesAreRecorded'
  <2>1. ASSUME NEW d \in Entry, delayed'[d] > 0 PROVE Failed(d.item, d.attempts)'
    <3>1. CASE delayed[d] > 0
      <4>1. Failed(d.item, d.attempts)
        BY <3>1 DEF QueueInv, RetriesAreRecorded
      <4> QED
        BY <1>1, <4>1, FailedStays
    <3> QED
      BY <2>1, <3>1
  <2>2. ASSUME NEW f \in DOMAIN stream PROVE Failed(stream[f].item, stream[f].attempts)'
    <3>1. Failed(stream[f].item, stream[f].attempts)
      BY DEF QueueInv, RetriesAreRecorded
    <3> QED
      BY <1>1, <3>1 DEF Failed, Grows
  <2> QED
    BY <2>1, <2>2 DEF RetriesAreRecorded
<1>3. \A f \in DOMAIN stream : Covered(f) => Covered(f)'
  BY <1>1, CoveredStays DEF QueueInv
<1>4. ASSUME NEW f \in DOMAIN stream', Current(w, f)' PROVE Working(w, f)'
  <2>1. e \in Nat /\ f \in Nat /\ e <= f /\ f <= e
    BY <1>4, StreamTyped DEF Current, QueueInv
  <2>2. f = e
    BY <2>1
  <2> QED
    BY <2>2
<1> QED
  BY <1>1, <1>2, <1>3, <1>4, InvFrom

LEMMA CheckStep ==
    ASSUME QueueInv, TypeOK', NEW w \in Workers, NEW e \in DOMAIN stream,
           Park(w, e) \/ FindOnline(w, e) \/ FindNoDevice(w, e) \/ FindOffline(w, e) \/ Send(w, e)
    PROVE  QueueInv'
<1>1. /\ Current(w, e) /\ UNCHANGED <<stream, lastRead, pending, batch>>
      /\ attempts \subseteq attempts' /\ excused \subseteq excused'
      /\ \A v \in Workers : v # w => UNCHANGED <<at[v], results[v], recorded[v]>>
  BY DEF Park, FindOnline, FindNoDevice, FindOffline, Send, Goto, Busy, Current, queue, log,
         QueueInv, TypeOK
<1>0. recorded[w] = 0 /\ recorded'[w] = 0
  <2>1. at[w] \in {"check", "send"} /\ UNCHANGED recorded
    BY DEF Park, FindOnline, FindNoDevice, FindOffline, Send, Busy
  <2> QED
    BY <1>1, <2>1 DEF QueueInv, WorkingInv, Working
<1>2. CASE Park(w, e)
  <2>1. PICK d \in Entry : d = stream[e]
    BY StreamTyped DEF QueueInv
  <2>2. delayed'[d] > 0 /\ \A x \in Entry : x # d => delayed'[x] = delayed[x]
    BY <1>2, <2>1, DelayTyped DEF Park, QueueInv
  <2>3. Failed(d.item, d.attempts)'
    BY <1>1, <2>1 DEF QueueInv, RetriesAreRecorded, Failed
  <2>4. Covered(e)' /\ at'[w] = "ack"
    BY <1>1, <1>2, <2>1, <2>2 DEF Covered, Park, Goto, QueueInv, TypeOK
  <2>5. Working(w, e)'
    BY <1>0, <2>4 DEF Working
  <2> QED
    BY <1>1, <2>2, <2>3, <2>5, WithinEntry
<1>3. CASE FindOnline(w, e) \/ FindNoDevice(w, e)
  <2>1. /\ at'[w] = "ack" /\ stream[e].item \in excused' /\ UNCHANGED delayed
    BY <1>3 DEF FindOnline, FindNoDevice, Goto, QueueInv, TypeOK, queue
  <2>2. Working(w, e)'
    BY <1>0, <1>1, <2>1 DEF Working, Covered, Settled
  <2> QED
    BY <1>1, <2>1, <2>2, WithinEntry
<1>4. CASE FindOffline(w, e)
  <2>1. at'[w] = "send" /\ UNCHANGED delayed
    BY <1>4 DEF FindOffline, Goto, QueueInv, TypeOK, queue
  <2>2. Working(w, e)'
    BY <1>0, <2>1 DEF Working
  <2> QED
    BY <1>1, <2>1, <2>2, WithinEntry
<1>5. CASE Send(w, e)
  <2>1. at'[w] = "record" /\ UNCHANGED <<delayed, recorded>> /\ results'[w] \in Results
    BY <1>5 DEF Send, Goto, QueueInv, TypeOK, queue
  <2>2. PICK r \in Results : r = results'[w]
    BY <2>1
  <2>3. recorded'[w] < Len(results'[w]) /\ 1..recorded'[w] = {}
    BY <1>0, <2>2, ResultsTyped
  <2>4. Working(w, e)'
    BY <2>1, <2>3 DEF Working
  <2> QED
    BY <1>1, <2>1, <2>4, WithinEntry
<1> QED
  BY <1>2, <1>3, <1>4, <1>5

(* After the last answer the notification is settled by a device that was  *)
(* reached or by the last attempt, or is to be tried again.                *)
LEMMA RecordStep ==
    ASSUME QueueInv, TypeOK', NEW w \in Workers, NEW e \in DOMAIN stream, Record(w, e)
    PROVE  QueueInv'
<1>0. at[w] = "record" /\ Current(w, e) /\ Working(w, e)
  BY DEF Record, Busy, Current, QueueInv, WorkingInv
<1>1. PICK r \in Results, n \in Nat : r = results[w] /\ n = recorded[w]
  BY <1>0 DEF Working, QueueInv, TypeOK
<1>2. PICK i \in Items, a \in 0..(MaxAttempts - 1) : i = stream[e].item /\ a = stream[e].attempts
  BY ItemTyped DEF QueueInv
<1>3. /\ Len(r) \in Nat /\ DOMAIN r = 1..Len(r) /\ n < Len(r)
      /\ \A k \in 1..Len(r) : r[k] \in BOOLEAN
  BY <1>0, <1>1, ResultsTyped DEF Working
<1>4. /\ UNCHANGED <<stream, lastRead, pending, delayed, excused>>
      /\ attempts' = attempts \cup {<<i, a + 1, r[n + 1]>>}
  BY <1>1, <1>2 DEF Record, Row, queue
<1>5. \A k \in 1..(n + 1) : <<i, a + 1, r[k]>> \in attempts'
  <2>1. \A k \in 1..n : <<i, a + 1, r[k]>> \in attempts
    BY <1>0, <1>1, <1>2 DEF Working
  <2>2. \A k \in 1..(n + 1) : k \in 1..n \/ k = n + 1
    OBVIOUS
  <2> QED
    BY <1>4, <2>1, <2>2
<1>6. /\ UNCHANGED batch
      /\ \A v \in Workers : v # w => UNCHANGED <<at[v], results[v], recorded[v]>>
  BY DEF Record, NextAnswer, Goto, QueueInv, TypeOK
<1>7. Working(w, e)'
  <2>1. CASE n + 1 < Len(r)
    <3>1. recorded'[w] = n + 1 /\ UNCHANGED <<at, results>>
      BY <1>1, <2>1 DEF Record, NextAnswer, QueueInv, TypeOK
    <3> QED
      BY <1>0, <1>1, <1>2, <1>4, <1>5, <2>1, <3>1 DEF Working
  <2>2. CASE ~(n + 1 < Len(r))
    <3>1. n + 1 = Len(r)
      BY <1>1, <1>3, <2>2
    <3>2. /\ at'[w] = IF Reached(r) \/ LastAttempt(e) THEN "ack" ELSE "retry"
          /\ recorded'[w] = 0
      BY <1>1, <2>2 DEF Record, NextAnswer, Goto, QueueInv, TypeOK
    <3>3. \A k \in 1..Len(r) : <<i, a + 1, r[k]>> \in attempts'
      BY <1>5, <3>1
    <3>4. CASE Reached(r)
      <4>1. PICK k \in 1..Len(r) : r[k]
        BY <1>3, <3>4 DEF Reached
      <4>2. r[k] = TRUE
        BY <1>3, <4>1
      <4>3. <<i, a + 1, TRUE>> \in attempts' /\ a + 1 \in 1..MaxAttempts
        <5>1. <<i, a + 1, r[k]>> \in attempts'
          BY <3>3, <4>1
        <5>2. a + 1 \in 1..MaxAttempts
          BY <1>2
        <5> QED
          BY <4>2, <5>1, <5>2
      <4>4. Covered(e)'
        BY <1>2, <1>4, <4>3 DEF Covered, Settled
      <4> QED
        BY <3>2, <3>4, <4>4 DEF Working
    <3>5. CASE ~Reached(r)
      <4>1. r[n + 1] = FALSE
        BY <1>3, <3>1, <3>5 DEF Reached
      <4>2. <<i, a + 1, FALSE>> \in attempts'
        BY <1>4, <4>1
      <4>3. CASE LastAttempt(e)
        <5>1. a + 1 = MaxAttempts
          BY <1>2, <4>3 DEF LastAttempt
        <5>2. Failed(i, a)
          BY <1>2 DEF QueueInv, RetriesAreRecorded
        <5>3. \A k \in 1..MaxAttempts : k \in 1..a \/ k = a + 1
          BY <1>2, <5>1
        <5>4. Failed(i, MaxAttempts)'
          BY <1>4, <4>2, <5>2, <5>3 DEF Failed
        <5>5. Covered(e)'
          BY <1>2, <1>4, <5>4 DEF Covered, Settled
        <5> QED
          BY <3>2, <4>3, <5>5 DEF Working
      <4>4. CASE ~LastAttempt(e)
        <5>1. at'[w] = "retry" /\ (~LastAttempt(e))'
          BY <1>4, <3>2, <3>5, <4>4 DEF LastAttempt
        <5> QED
          BY <1>2, <1>4, <3>2, <4>2, <5>1 DEF Working
      <4> QED
        BY <4>3, <4>4
    <3> QED
      BY <3>4, <3>5
  <2> QED
    BY <2>1, <2>2
<1>8. attempts \subseteq attempts'
  BY <1>4
<1> QED
  BY <1>0, <1>4, <1>6, <1>7, <1>8, WithinEntry

LEMMA RetryStep ==
    ASSUME QueueInv, TypeOK', NEW w \in Workers, NEW e \in DOMAIN stream, Retry(w, e)
    PROVE  QueueInv'
<1>0. at[w] = "retry" /\ Current(w, e) /\ Working(w, e)
  BY DEF Retry, Busy, Current, QueueInv, WorkingInv
<1>1. PICK d \in Entry : d = [stream[e] EXCEPT !.attempts = @ + 1]
  <2>1. ~LastAttempt(e)
    BY <1>0 DEF Working
  <2>2. stream[e] \in Entry
    BY StreamTyped DEF QueueInv
  <2>3. [stream[e] EXCEPT !.attempts = @ + 1] \in Entry
    BY <2>1, <2>2 DEF LastAttempt, Entry
  <2> QED
    BY <2>3
<1>2. d.item = stream[e].item /\ d.attempts = stream[e].attempts + 1
  BY <1>1, StreamTyped DEF Entry, QueueInv
<1>3. delayed'[d] > 0 /\ \A x \in Entry : x # d => delayed'[x] = delayed[x]
  BY <1>1, DelayTyped DEF Retry, QueueInv
<1>4. /\ UNCHANGED <<stream, lastRead, pending, batch, results, recorded, attempts, excused>>
      /\ at'[w] = "ack" /\ \A v \in Workers : v # w => at'[v] = at[v]
  BY DEF Retry, Goto, QueueInv, TypeOK, log
<1>5. Failed(d.item, d.attempts)'
  <2>1. PICK i \in Items, a \in 0..(MaxAttempts - 1) :
           i = stream[e].item /\ a = stream[e].attempts
    BY ItemTyped DEF QueueInv
  <2>2. Failed(i, a) /\ <<i, a + 1, FALSE>> \in attempts
    BY <1>0, <2>1 DEF QueueInv, RetriesAreRecorded, Working
  <2>3. \A k \in 1..(a + 1) : k \in 1..a \/ k = a + 1
    BY <2>1
  <2>4. Failed(i, a + 1)
    BY <2>2, <2>3 DEF Failed
  <2> QED
    BY <1>2, <1>4, <2>1, <2>4 DEF Failed
<1>6. Covered(e)'
  BY <1>2, <1>3, <1>4 DEF Covered
<1>7. Working(w, e)'
  BY <1>0, <1>4, <1>6 DEF Working
<1> QED
  BY <1>0, <1>3, <1>4, <1>5, <1>7, WithinEntry

LEMMA QueueInvInit == Init => QueueInv
<1> SUFFICES ASSUME Init PROVE QueueInv
  OBVIOUS
<1>1. DOMAIN stream = {} /\ \A d \in Entry : ~(delayed[d] > 0)
  BY DEF Init
<1>2. (1..lastRead) \ pending = {}
  BY DEF Init
<1> QED
  BY <1>1, <1>2, TypeInit DEF QueueInv, RetriesAreRecorded, WorkingInv, AckedCovered

LEMMA QueueInvStep == QueueInv /\ [Next]_vars => QueueInv'
<1> SUFFICES ASSUME QueueInv, [Next]_vars PROVE QueueInv'
  OBVIOUS
<1>0. TypeOK'
  BY TypeStep DEF QueueInv
<1>1. CASE UNCHANGED <<stream, lastRead, pending, delayed, worker, log>>
  <2>1. Grows /\ Unacked' = Unacked
    BY <1>1 DEF Grows, Unacked, log
  <2>2. RetriesAreRecorded'
    BY <1>1, <2>1, RecordedFrom DEF QueueInv
  <2>3. \A e \in DOMAIN stream : Covered(e) => Covered(e)'
    BY <1>0, <1>1, <2>1, CoveredStays DEF QueueInv
  <2> QED
    BY <1>0, <1>1, <2>1, <2>2, <2>3, InvFrom DEF worker
<1>2. ASSUME NEW w \in Workers, NEW e \in DOMAIN stream, WorkerStep(w, e)
      PROVE  QueueInv'
  BY <1>0, <1>2, CheckStep, RecordStep, RetryStep, AckStep DEF WorkerStep
<1>3. CASE (\E e \in DOMAIN stream : OrphanIdles(e) \/ HolderOverruns(e)) \/ UNCHANGED vars
  BY <1>1, <1>3 DEF OrphanIdles, HolderOverruns, vars, queue
<1>4. CASE (\E i \in Items : Enqueue(i)) \/ \E w \in Workers, d \in Entry : Promote(w, d)
  BY <1>0, <1>4, EnqueueStep, PromoteStep
<1>5. ASSUME NEW w \in Workers, Reclaim(w) \/ ReadNew(w) \/ Abandon(w) PROVE QueueInv'
  BY <1>0, <1>5, BatchStep
<1>6. ASSUME NEW w \in Workers, NEW e \in DOMAIN stream, DieSending(w, e) PROVE QueueInv'
  BY <1>0, <1>6, BatchStep
<1> HIDE DEF QueueInv
<1> QED
  BY <1>2, <1>3, <1>4, <1>5, <1>6 DEF Next

-----------------------------------------------------------------------------
THEOREM QueueInvariant == Spec => []QueueInv
BY QueueInvInit, QueueInvStep, PTL DEF Spec

(* Every variable keeps its type; in particular no entry carries more      *)
(* attempts than allowed and no worker records more answers than it has.   *)
THEOREM TypeCorrect == Spec => []TypeOK
<1>1. QueueInv => TypeOK
  BY DEF QueueInv
<1> QED
  BY <1>1, QueueInvariant, PTL

(* No notification leaves the queue before it was excused, recorded as     *)
(* delivered or recorded as failed under every attempt number, whichever   *)
(* errors, crashes, overruns and clock skews the workers met.              *)
THEOREM NotificationsAreKept == Spec => []NothingDropped
<1>1. QueueInv => NothingDropped
  <2> SUFFICES ASSUME QueueInv, NEW e \in DOMAIN stream
               PROVE  InFlight(stream[e].item) \/ Settled(stream[e].item)
    BY DEF NothingDropped, Enqueued, Settled
  <2>1. CASE e \in Unacked
    BY <2>1 DEF InFlight
  <2>2. CASE e \notin Unacked
    <3>1. e \in (1..lastRead) \ pending
      BY <2>2, StreamTyped DEF Unacked, QueueInv
    <3>2. Covered(e)
      BY <3>1 DEF QueueInv, AckedCovered
    <3> QED
      BY <3>2 DEF Covered, InFlight
  <2> QED
    BY <2>1, <2>2
<1> QED
  BY <1>1, QueueInvariant, PTL

-----------------------------------------------------------------------------
(* Where the attempts that are left of a notification may be: with an      *)
(* entry that a worker may still take, with a worker that holds it, or     *)
(* with a member of the sorted set.                                        *)
FreePlace(e) == <<"free", e, 0>>
HeldPlace(e, w) == <<"held", e, w>>
DelayedPlace(d, n) == <<"delayed", d, n>>

Places ==
    {FreePlace(e) : e \in Nat}
    \cup {HeldPlace(e, w) : e \in Nat, w \in Workers}
    \cup {DelayedPlace(d, n) : d \in Entry, n \in Nat}

Left(e) == MaxAttempts - stream[e].attempts

Free(e) == e > lastRead \/ e \in idle \/ (e \in pending /\ ~Held(e))

(* A worker that holds an entry has all its attempts left until it sent it *)
(* and all but one until it retried it.                                    *)
Unsent(w, e) == e \in batch[w] /\ ((\E f \in batch[w] : f < e) \/ at[w] \in {"check", "send"})

Unretried(w, e) ==
    /\ e \in batch[w] /\ ~Unsent(w, e)
    /\ at[w] = "retry" \/ (at[w] = "record" /\ ~Reached(results[w]) /\ ~LastAttempt(e))

FreeChances(e) == IF e \in DOMAIN stream /\ Free(e) THEN Left(e) ELSE 0

HeldChances(w, e) == IF Unsent(w, e) THEN Left(e) ELSE IF Unretried(w, e) THEN Left(e) - 1 ELSE 0

DelayedChances(d, n) == IF n \in 1..delayed[d] THEN MaxAttempts - d.attempts ELSE 0

Chances ==
    [p \in Places |-> CASE p[1] = "free" -> FreeChances(p[2])
                        [] p[1] = "held" -> HeldChances(p[3], p[2])
                        [] p[1] = "delayed" -> DelayedChances(p[2], p[3])]

ItemAt(p) == IF p[1] = "delayed" THEN p[2].item ELSE stream[p[2]].item

(* The attempts left in the places, and the places with any.               *)
Total(c) == {x \in Places \X (1..MaxAttempts) : x[2] <= c[x[1]]}
Live(c) == {p \in Places : c[p] > 0}

(* The notifications of which no device was reached and attempts are left. *)
Unreached == {i \in Items : pushed[i] = 0 /\ \E p \in Live(Chances) : ItemAt(p) = i}

IdleHoldsNothing == \A w \in Workers : at[w] = "idle" => batch[w] = {}

OnlyEnqueued ==
    /\ \A d \in Entry : delayed[d] > 0 => d.item \in Enqueued
    /\ \A i \in Items : pushed[i] > 0 => i \in Enqueued

RoundsPaid ==
    /\ IsFiniteSet(Total(Chances)) /\ IsFiniteSet(AllRounds) /\ IsFiniteSet(Enqueued)
    /\ Cardinality(AllRounds) + Cardinality(Total(Chances))
         <= MaxAttempts * (Cardinality(Enqueued) + faults + overruns)

PushesPaid ==
    /\ IsFiniteSet(Live(Chances)) /\ IsFiniteSet(RepeatedPushes) /\ IsFiniteSet(Unreached)
    /\ Cardinality(RepeatedPushes) + Cardinality(Live(Chances))
         <= Cardinality(Unreached) + faults + overruns
-----------------------------------------------------------------------------
LEMMA ImageBound ==
    ASSUME NEW S, IsFiniteSet(S), NEW F
    PROVE  IsFiniteSet({F[x] : x \in S}) /\ Cardinality({F[x] : x \in S}) <= Cardinality(S)
<1> DEFINE h == [x \in S |-> F[x]]
           T == {F[x] : x \in S}
<1>1. h \in Surjection(S, T)
  BY DEF Surjection
<1> HIDE DEF h, T
<1>2. IsFiniteSet(T) /\ Cardinality(T) <= Cardinality(S)
  BY <1>1, FS_Surjection
<1> QED
  BY <1>2 DEF T

LEMMA UnionBound ==
    ASSUME NEW S, IsFiniteSet(S), NEW T, IsFiniteSet(T), NEW U, U \subseteq S \cup T
    PROVE  /\ IsFiniteSet(U) /\ Cardinality(U) \in Nat
           /\ Cardinality(U) <= Cardinality(S) + Cardinality(T)
<1>1. /\ IsFiniteSet(S \cup T)
      /\ Cardinality(S \cup T) = Cardinality(S) + Cardinality(T) - Cardinality(S \cap T)
  BY FS_Union
<1>2. IsFiniteSet(S \cap T)
  BY FS_Intersection
<1>3. Cardinality(S) \in Nat /\ Cardinality(T) \in Nat /\ Cardinality(S \cap T) \in Nat
  BY <1>2, FS_CardinalityType
<1>4. IsFiniteSet(U) /\ Cardinality(U) <= Cardinality(S \cup T)
  BY <1>1, FS_Subset
<1>5. Cardinality(U) \in Nat
  BY <1>4, FS_CardinalityType
<1> QED
  BY <1>1, <1>3, <1>4, <1>5

(* The attempts g grants come, place by place, from attempts f grants.     *)
Follows(f, g, m) ==
    /\ m \in [Places -> Places]
    /\ \A p \in Places : g[p] <= f[m[p]]
    /\ \A p, q \in Live(g) : m[p] = m[q] => p = q

LEMMA TotalFollows ==
    ASSUME NEW f \in [Places -> Nat], NEW g \in [Places -> Nat], NEW m, Follows(f, g, m),
           IsFiniteSet(Total(f))
    PROVE  IsFiniteSet(Total(g)) /\ Cardinality(Total(g)) <= Cardinality(Total(f))
<1> DEFINE h == [x \in Total(g) |-> <<m[x[1]], x[2]>>]
<1> HIDE DEF Places
<1>1. ASSUME NEW x \in Total(g)
      PROVE  /\ x[1] \in Live(g) /\ x[2] \in 1..MaxAttempts /\ x = <<x[1], x[2]>>
             /\ <<m[x[1]], x[2]>> \in Total(f)
  <2>1. x[1] \in Places /\ x[2] \in 1..MaxAttempts /\ x = <<x[1], x[2]>> /\ x[2] <= g[x[1]]
    BY DEF Total
  <2>2. m[x[1]] \in Places /\ g[x[1]] <= f[m[x[1]]] /\ g[x[1]] \in Nat /\ f[m[x[1]]] \in Nat
    BY <2>1 DEF Follows
  <2>3. x[2] <= f[m[x[1]]] /\ g[x[1]] > 0
    BY <2>1, <2>2
  <2> QED
    BY <2>1, <2>2, <2>3 DEF Total, Live
<1>2. h \in [Total(g) -> Total(f)]
  BY <1>1
<1>3. ASSUME NEW x \in Total(g), NEW y \in Total(g), h[x] = h[y] PROVE x = y
  <2>1. m[x[1]] = m[y[1]] /\ x[2] = y[2]
    BY <1>3
  <2>2. x[1] = y[1]
    BY <1>1, <2>1 DEF Follows
  <2> QED
    BY <1>1, <2>1, <2>2
<1>4. h \in Injection(Total(g), Total(f))
  BY <1>2, <1>3 DEF Injection, IsInjective
<1> HIDE DEF h
<1> QED
  BY <1>4, FS_Injection

LEMMA TotalGains ==
    ASSUME NEW g \in [Places -> 0..MaxAttempts], NEW p \in Places, NEW f,
           f = [g EXCEPT ![p] = 0], IsFiniteSet(Total(f))
    PROVE  IsFiniteSet(Total(g)) /\ Cardinality(Total(g)) <= Cardinality(Total(f)) + MaxAttempts
<1> HIDE DEF Places
<1> DEFINE T == {p} \X (1..MaxAttempts)
<1>1. Total(g) \subseteq Total(f) \cup T
  BY DEF Total
<1>2. IsFiniteSet({p}) /\ Cardinality({p}) = 1
  BY FS_Singleton
<1>3. IsFiniteSet(1..MaxAttempts) /\ Cardinality(1..MaxAttempts) = MaxAttempts
  BY FS_Interval
<1>4. IsFiniteSet(T) /\ Cardinality(T) = Cardinality({p}) * Cardinality(1..MaxAttempts)
  BY <1>2, <1>3, FS_Product
<1>5. Cardinality(T) = MaxAttempts
  BY <1>2, <1>3, <1>4
<1> HIDE DEF T
<1> QED
  BY <1>1, <1>4, <1>5, UnionBound

LEMMA TotalLoses ==
    ASSUME NEW f \in [Places -> 0..MaxAttempts], NEW g \in [Places -> 0..MaxAttempts],
           NEW p \in Places, g[p] < f[p], \A q \in Places : g[q] <= f[q],
           IsFiniteSet(Total(f))
    PROVE  IsFiniteSet(Total(g)) /\ Cardinality(Total(g)) <= Cardinality(Total(f)) - 1
<1> HIDE DEF Places
<1> DEFINE x == <<p, f[p]>>
<1>1. x \in Total(f)
  BY DEF Total
<1>2. x \notin Total(g)
  BY DEF Total
<1>3. Total(g) \subseteq Total(f)
  BY DEF Total
<1>4. Total(g) \in SUBSET (Total(f) \ {x})
  BY <1>2, <1>3
<1>5. IsFiniteSet(Total(f) \ {x}) /\ Cardinality(Total(f) \ {x}) = Cardinality(Total(f)) - 1
  BY <1>1, FS_RemoveElement
<1> HIDE DEF x
<1> QED
  BY <1>4, <1>5, FS_Subset

(* Of the notifications in I, those that have attempts left.               *)
Reaching(I, f, a) == {i \in I : \E p \in Live(f) : a[p] = i}

(* Moving attempts, or losing some, cannot add places to what the          *)
(* notifications with attempts left account for.                           *)
LEMMA LiveFollows ==
    ASSUME NEW f \in [Places -> Nat], NEW g \in [Places -> Nat], NEW m, Follows(f, g, m),
           NEW a, NEW b, \A p \in Live(g) : b[p] = a[m[p]],
           NEW I, IsFiniteSet(Live(f))
    PROVE  /\ IsFiniteSet(Live(g)) /\ IsFiniteSet(Reaching(I, f, a))
           /\ IsFiniteSet(Reaching(I, g, b))
           /\ Cardinality(Live(g)) + Cardinality(Reaching(I, f, a))
                <= Cardinality(Live(f)) + Cardinality(Reaching(I, g, b))
<1> HIDE DEF Places
<1> DEFINE h == [p \in Live(g) |-> m[p]]
           T == {m[p] : p \in Live(g)}
           L == Live(f) \ T
           lost == {a[p] : p \in L}
<1>1. T \subseteq Live(f)
  BY DEF Live, Follows
<1>2. h \in Injection(Live(g), Live(f))
  BY <1>1 DEF Injection, IsInjective, Follows
<1>3. h \in Bijection(Live(g), T)
  BY <1>2 DEF Injection, Surjection, Bijection
<1>4. Reaching(I, f, a) \subseteq Reaching(I, g, b) \cup lost
  BY DEF Reaching
<1>5. IsFiniteSet(Live(g))
  BY <1>2, FS_Injection
<1>6. IsFiniteSet(T) /\ Cardinality(T) = Cardinality(Live(g))
  BY <1>3, <1>5, FS_Bijection DEF ExistsBijection
<1>7. IsFiniteSet(L) /\ Cardinality(L) = Cardinality(Live(f)) - Cardinality(T)
  <2>1. Live(f) \cap T = T
    BY <1>1
  <2> QED
    BY <2>1, FS_Difference
<1>8. IsFiniteSet(lost) /\ Cardinality(lost) <= Cardinality(L)
  BY <1>7, ImageBound
<1>9. IsFiniteSet(Reaching(I, f, a)) /\ IsFiniteSet(Reaching(I, g, b))
  <2>1. Reaching(I, f, a) \in SUBSET {a[p] : p \in Live(f)}
    BY DEF Reaching
  <2>2. Reaching(I, g, b) \in SUBSET {b[p] : p \in Live(g)}
    BY DEF Reaching
  <2>3. IsFiniteSet({a[p] : p \in Live(f)}) /\ IsFiniteSet({b[p] : p \in Live(g)})
    BY <1>5, ImageBound
  <2> QED
    BY <2>1, <2>2, <2>3, FS_Subset
<1> HIDE DEF h, T, L, lost
<1>10. Cardinality(Reaching(I, f, a)) <= Cardinality(Reaching(I, g, b)) + Cardinality(lost)
  BY <1>4, <1>8, <1>9, UnionBound
<1>11. /\ Cardinality(lost) \in Nat /\ Cardinality(L) \in Nat /\ Cardinality(T) \in Nat
       /\ Cardinality(Live(f)) \in Nat /\ Cardinality(Live(g)) \in Nat
       /\ Cardinality(Reaching(I, f, a)) \in Nat /\ Cardinality(Reaching(I, g, b)) \in Nat
  BY <1>5, <1>6, <1>7, <1>8, <1>9, FS_CardinalityType
<1> QED
  BY <1>5, <1>6, <1>7, <1>8, <1>9, <1>10, <1>11

-----------------------------------------------------------------------------
(* The places and what is in them.                                         *)
LEMMA ThreePlaces ==
    /\ \A e \in Nat : FreePlace(e) \in Places
    /\ \A e \in Nat, w \in Workers : HeldPlace(e, w) \in Places
    /\ \A d \in Entry, n \in Nat : DelayedPlace(d, n) \in Places
    /\ \A p \in Places :
          \/ \E e \in Nat : p = FreePlace(e)
          \/ \E e \in Nat, w \in Workers : p = HeldPlace(e, w)
          \/ \E d \in Entry, n \in Nat : p = DelayedPlace(d, n)
BY DEF Places

LEMMA PlacesDiffer ==
    /\ \A e, f : FreePlace(e) = FreePlace(f) => e = f
    /\ \A e, f, v, w : HeldPlace(e, v) = HeldPlace(f, w) => e = f /\ v = w
    /\ \A d, x, n, k : DelayedPlace(d, n) = DelayedPlace(x, k) => d = x /\ n = k
    /\ \A e, f, w : FreePlace(e) # HeldPlace(f, w)
    /\ \A e, d, n : FreePlace(e) # DelayedPlace(d, n)
    /\ \A f, w, d, n : HeldPlace(f, w) # DelayedPlace(d, n)
BY DEF FreePlace, HeldPlace, DelayedPlace

Carried == [p \in Places |-> ItemAt(p)]

AsPlaced ==
    /\ \A e \in Nat : /\ Chances[FreePlace(e)] = FreeChances(e)
                      /\ Carried[FreePlace(e)] = stream[e].item
    /\ \A e \in Nat, w \in Workers : /\ Chances[HeldPlace(e, w)] = HeldChances(w, e)
                                     /\ Carried[HeldPlace(e, w)] = stream[e].item
    /\ \A d \in Entry, n \in Nat : /\ Chances[DelayedPlace(d, n)] = DelayedChances(d, n)
                                   /\ Carried[DelayedPlace(d, n)] = d.item

LEMMA ChancesAt == AsPlaced
<1> HIDE DEF Places, Entry
<1>1. ASSUME NEW e \in Nat
      PROVE  Chances[FreePlace(e)] = FreeChances(e) /\ Carried[FreePlace(e)] = stream[e].item
  <2>1. FreePlace(e) \in Places
    BY ThreePlaces
  <2> QED
    BY <2>1 DEF Chances, Carried, ItemAt, FreePlace
<1>2. ASSUME NEW e \in Nat, NEW w \in Workers
      PROVE  /\ Chances[HeldPlace(e, w)] = HeldChances(w, e)
             /\ Carried[HeldPlace(e, w)] = stream[e].item
  <2>1. HeldPlace(e, w) \in Places
    BY ThreePlaces
  <2> QED
    BY <2>1 DEF Chances, Carried, ItemAt, HeldPlace
<1>3. ASSUME NEW d \in Entry, NEW n \in Nat
      PROVE  /\ Chances[DelayedPlace(d, n)] = DelayedChances(d, n)
             /\ Carried[DelayedPlace(d, n)] = d.item
  <2>1. DelayedPlace(d, n) \in Places
    BY ThreePlaces
  <2> QED
    BY <2>1 DEF Chances, Carried, ItemAt, DelayedPlace
<1> QED
  BY <1>1, <1>2, <1>3 DEF AsPlaced

LEMMA ChancesAtNext == AsPlaced'
BY ChancesAt, PTL

LEMMA LeftTyped ==
    ASSUME TypeOK
    PROVE  /\ \A e \in DOMAIN stream : Left(e) \in 1..MaxAttempts
           /\ \A d \in Entry : MaxAttempts - d.attempts \in 1..MaxAttempts
<1>1. ASSUME NEW a \in 0..(MaxAttempts - 1) PROVE MaxAttempts - a \in 1..MaxAttempts
  OBVIOUS
<1> QED
  BY <1>1, StreamTyped DEF Left

LEMMA ChancesTyped == TypeOK => Chances \in [Places -> 0..MaxAttempts]
<1> SUFFICES ASSUME TypeOK, NEW p \in Places PROVE Chances[p] \in 0..MaxAttempts
  BY DEF Chances
<1>1. ASSUME NEW e \in Nat PROVE FreeChances(e) \in 0..MaxAttempts
  BY LeftTyped DEF FreeChances
<1>2. ASSUME NEW e \in Nat, NEW w \in Workers PROVE HeldChances(w, e) \in 0..MaxAttempts
  <2>1. e \in batch[w] => e \in DOMAIN stream
    BY StreamTyped
  <2>2. e \in batch[w] => Left(e) \in 1..MaxAttempts
    BY <2>1, LeftTyped
  <2>3. e \notin batch[w] => HeldChances(w, e) = 0
    BY DEF HeldChances, Unsent, Unretried
  <2>4. HeldChances(w, e) \in {Left(e), Left(e) - 1, 0}
    BY DEF HeldChances
  <2> QED
    BY <2>2, <2>3, <2>4
<1>3. ASSUME NEW d \in Entry, NEW n \in Nat PROVE DelayedChances(d, n) \in 0..MaxAttempts
  BY LeftTyped DEF DelayedChances
<1> QED
  BY <1>1, <1>2, <1>3, ThreePlaces, ChancesAt DEF AsPlaced

LEMMA ChancesTypedNext == (TypeOK => Chances \in [Places -> 0..MaxAttempts])'
BY ChancesTyped, PTL

-----------------------------------------------------------------------------
(* A step leaves the attempts g: those there were, some of them moved.     *)
MovesTo(g) ==
    \E m : /\ Follows(Chances, g, m)
           /\ \A p \in Live(g) : Carried'[p] = Carried[m[p]]

(* Those in the places N come, by k, from places that lose theirs.         *)
Moved(g, N, k) ==
    /\ g \in [Places -> 0..MaxAttempts] /\ N \in SUBSET Places /\ k \in [N -> Places]
    /\ \A p, q \in N : k[p] = k[q] => p = q
    /\ \A p \in N : /\ g[p] <= Chances[k[p]] /\ Carried'[p] = Carried[k[p]]
                    /\ k[p] \in N \/ g[k[p]] = 0
    /\ \A p \in Places \ N : g[p] = 0 \/ (g[p] <= Chances[p] /\ Carried'[p] = Carried[p])

LEMMA MovesFrom ==
    ASSUME TypeOK, NEW g, NEW N, NEW k, Moved(g, N, k)
    PROVE  MovesTo(g)
<1> USE DEF Moved
<1> HIDE DEF Places, Chances, Carried
<1>0. Chances \in [Places -> 0..MaxAttempts]
  BY ChancesTyped
<1> DEFINE m == [p \in Places |-> IF p \in N THEN k[p] ELSE p]
<1>1. m \in [Places -> Places]
  OBVIOUS
<1>2. ASSUME NEW p \in Places PROVE g[p] <= Chances[m[p]]
  <2>1. CASE p \in N
    BY <2>1
  <2>2. CASE p \notin N
    <3>1. m[p] = p /\ Chances[p] \in 0..MaxAttempts
      BY <1>0, <2>2
    <3> QED
      BY <2>2, <3>1
  <2> QED
    BY <2>1, <2>2
<1>3. ASSUME NEW p \in Live(g), NEW q \in Live(g), m[p] = m[q] PROVE p = q
  <2>1. p \in Places /\ q \in Places /\ g[p] # 0 /\ g[q] # 0
    BY DEF Live
  <2> QED
    BY <1>3, <2>1
<1>4. ASSUME NEW p \in Live(g) PROVE Carried'[p] = Carried[m[p]]
  <2>1. p \in Places /\ g[p] # 0
    BY DEF Live
  <2> QED
    BY <2>1
<1> HIDE DEF m
<1> QED
  BY <1>1, <1>2, <1>3, <1>4 DEF MovesTo, Follows

(* Nothing moves, but attempts may be dropped.                             *)
LEMMA NothingMoves ==
    ASSUME TypeOK, TypeOK', UNCHANGED stream,
           \A e \in Nat : FreeChances(e)' = 0 \/ FreeChances(e)' = FreeChances(e),
           \A e \in Nat, w \in Workers :
              HeldChances(w, e)' = 0 \/ HeldChances(w, e)' = HeldChances(w, e),
           \A d \in Entry, n \in Nat : DelayedChances(d, n)' = DelayedChances(d, n)
    PROVE  MovesTo(Chances')
<1> DEFINE k == [p \in {} |-> p]
<1>1. Chances' \in [Places -> 0..MaxAttempts] /\ Chances \in [Places -> 0..MaxAttempts]
  BY ChancesTyped, ChancesTypedNext
<1>2. ASSUME NEW p \in Places PROVE Chances'[p] <= Chances[p]
  <2>0. Chances[p] \in 0..MaxAttempts
    BY <1>1
  <2>1. CASE \E e \in Nat : p = FreePlace(e)
    BY <2>0, <2>1, ChancesAt, ChancesAtNext DEF AsPlaced
  <2>2. CASE \E e \in Nat, w \in Workers : p = HeldPlace(e, w)
    BY <2>0, <2>2, ChancesAt, ChancesAtNext DEF AsPlaced
  <2>3. CASE \E d \in Entry, n \in Nat : p = DelayedPlace(d, n)
    BY <2>0, <2>3, ChancesAt, ChancesAtNext DEF AsPlaced
  <2> QED
    BY <2>1, <2>2, <2>3, ThreePlaces
<1>3. Carried' = Carried
  BY DEF Carried, ItemAt
<1>4. k \in [{} -> Places]
  OBVIOUS
<1> HIDE DEF Places, Chances, Carried, k
<1>m. Moved(Chances', {}, k)
  BY <1>1, <1>2, <1>3, <1>4 DEF Moved
<1> QED
  BY <1>m, MovesFrom

(* A worker that stays with its entry changes what it holds of that.       *)
LEMMA OthersKeep ==
    ASSUME TypeOK, NEW w \in Workers, NEW e \in DOMAIN stream, Current(w, e),
           UNCHANGED <<stream, lastRead, pending, idle, batch>>,
           \A v \in Workers : v # w => UNCHANGED <<at[v], results[v]>>
    PROVE  /\ \A f \in Nat : FreeChances(f)' = FreeChances(f)
           /\ \A f \in Nat, v \in Workers :
                 v # w \/ f # e => HeldChances(v, f)' = HeldChances(v, f)
<1>1. ASSUME NEW f \in Nat PROVE FreeChances(f)' = FreeChances(f)
  BY DEF FreeChances, Free, Held, Left
<1>2. ASSUME NEW f \in Nat, NEW v \in Workers, v # w
      PROVE  HeldChances(v, f)' = HeldChances(v, f)
  BY <1>2 DEF HeldChances, Unsent, Unretried, Left, LastAttempt
<1>3. ASSUME NEW f \in Nat, f # e PROVE HeldChances(w, f)' = HeldChances(w, f)
  <2>1. CASE f \in batch[w]
    <3>1. e \in batch[w] /\ e < f
      BY <1>3, <2>1, StreamTyped DEF Current
    <3>2. Unsent(w, f) /\ Unsent(w, f)'
      BY <2>1, <3>1 DEF Unsent
    <3> QED
      BY <3>2 DEF HeldChances, Left
  <2>2. CASE f \notin batch[w]
    BY <2>2 DEF HeldChances, Unsent, Unretried
  <2> QED
    BY <2>1, <2>2
<1> QED
  BY <1>1, <1>2, <1>3

(* What a worker holds of the entry it is busy with.                       *)
HoldsByStep ==
    \A w \in Workers, e \in DOMAIN stream : Current(w, e) =>
        /\ at[w] \in {"check", "send"} => HeldChances(w, e) = Left(e)
        /\ at[w] = "record" =>
              HeldChances(w, e) =
                 IF Reached(results[w]) \/ LastAttempt(e) THEN 0 ELSE Left(e) - 1
        /\ at[w] = "retry" => HeldChances(w, e) = Left(e) - 1
        /\ at[w] = "ack" => HeldChances(w, e) = 0

LEMMA CurrentHolds == TypeOK => HoldsByStep
<1> SUFFICES ASSUME TypeOK, NEW w \in Workers, NEW e \in DOMAIN stream, Current(w, e)
             PROVE  /\ at[w] \in {"check", "send"} => HeldChances(w, e) = Left(e)
                    /\ at[w] = "record" =>
                          HeldChances(w, e) =
                             IF Reached(results[w]) \/ LastAttempt(e) THEN 0 ELSE Left(e) - 1
                    /\ at[w] = "retry" => HeldChances(w, e) = Left(e) - 1
                    /\ at[w] = "ack" => HeldChances(w, e) = 0
  BY DEF HoldsByStep
<1>1. e \in batch[w] /\ ~\E f \in batch[w] : f < e
  BY StreamTyped DEF Current
<1> QED
  BY <1>1 DEF HeldChances, Unsent, Unretried

LEMMA CurrentHoldsNext == (TypeOK => HoldsByStep)'
BY CurrentHolds, PTL

(* Steps that leave an entry what it had, or take some of it.              *)
LEMMA StepsOn ==
    ASSUME QueueInv, TypeOK', NEW w \in Workers, NEW e \in DOMAIN stream, Current(w, e),
           UNCHANGED <<stream, lastRead, pending, idle, batch, delayed>>,
           \A v \in Workers : v # w => UNCHANGED <<at[v], results[v]>>,
           HeldChances(w, e)' <= HeldChances(w, e)
    PROVE  /\ MovesTo(Chances')
           /\ Carried' = Carried
           /\ \A p \in Places : p # HeldPlace(e, w) => Chances'[p] = Chances[p]
<1>0. TypeOK
  BY DEF QueueInv
<1>1. /\ \A f \in Nat : FreeChances(f)' = FreeChances(f)
      /\ \A f \in Nat, v \in Workers : v # w \/ f # e => HeldChances(v, f)' = HeldChances(v, f)
  BY <1>0, OthersKeep
<1>2. \A d \in Entry, n \in Nat : DelayedChances(d, n)' = DelayedChances(d, n)
  BY DEF DelayedChances
<1>3. Carried' = Carried
  BY DEF Carried, ItemAt
<1>4. ASSUME NEW p \in Places, p # HeldPlace(e, w) PROVE Chances'[p] = Chances[p]
  <2>1. CASE \E f \in Nat : p = FreePlace(f)
    BY <1>1, <2>1, ChancesAt, ChancesAtNext DEF AsPlaced
  <2>2. CASE \E f \in Nat, v \in Workers : p = HeldPlace(f, v)
    BY <1>1, <1>4, <2>2, ChancesAt, ChancesAtNext DEF AsPlaced
  <2>3. CASE \E d \in Entry, n \in Nat : p = DelayedPlace(d, n)
    BY <1>2, <2>3, ChancesAt, ChancesAtNext DEF AsPlaced
  <2> QED
    BY <2>1, <2>2, <2>3, ThreePlaces
<1>5. MovesTo(Chances')
  <2> DEFINE k == [p \in {} |-> p]
  <2>1. Chances' \in [Places -> 0..MaxAttempts] /\ Chances \in [Places -> 0..MaxAttempts]
    BY <1>0, ChancesTyped, ChancesTypedNext
  <2>2. e \in Nat
    BY <1>0, StreamTyped
  <2>3. ASSUME NEW p \in Places PROVE Chances'[p] <= Chances[p]
    BY <1>4, <2>1, <2>2, ChancesAt, ChancesAtNext DEF AsPlaced
  <2>4. k \in [{} -> Places]
    OBVIOUS
  <2> HIDE DEF Places, Chances, Carried, k
  <2>m. Moved(Chances', {}, k)
    BY <1>0, <1>3, <2>1, <2>3, <2>4 DEF Moved
  <2> QED
    BY <1>0, <2>m, MovesFrom
<1> QED
  BY <1>3, <1>4, <1>5

LEMMA QuietStepsOn ==
    ASSUME QueueInv, TypeOK', NEW w \in Workers, NEW e \in DOMAIN stream,
           FindOnline(w, e) \/ FindOffline(w, e) \/ FindNoDevice(w, e) \/ Record(w, e)
    PROVE  MovesTo(Chances') /\ Carried' = Carried
<1>0. TypeOK
  BY DEF QueueInv
<1>1. /\ Current(w, e) /\ UNCHANGED <<stream, lastRead, pending, idle, batch, delayed>>
      /\ \A v \in Workers : v # w => UNCHANGED <<at[v], results[v]>>
  BY <1>0 DEF FindOnline, FindOffline, FindNoDevice, Record, NextAnswer, Goto, Busy, Current, queue,
              TypeOK
<1>2. e \in DOMAIN stream' /\ Current(w, e)' /\ Left(e)' = Left(e) /\ Left(e) \in 1..MaxAttempts
  BY <1>0, <1>1, LeftTyped DEF Current, Left
<1>3. HeldChances(w, e)' <= HeldChances(w, e)
  <2>1. CASE FindOnline(w, e) \/ FindOffline(w, e) \/ FindNoDevice(w, e)
    <3>1. at[w] \in {"check", "send"} /\ at'[w] \in {"send", "ack"}
      BY <1>0, <2>1 DEF FindOnline, FindOffline, FindNoDevice, Busy, Goto, TypeOK
    <3> QED
      BY <1>0, <1>1, <1>2, <3>1, CurrentHolds, CurrentHoldsNext DEF HoldsByStep
  <2>2. CASE Record(w, e)
    <3>1. at[w] = "record"
      BY <2>2 DEF Record, Busy
    <3>2. \/ UNCHANGED <<at, results>>
          \/ at'[w] = IF Reached(results[w]) \/ LastAttempt(e) THEN "ack" ELSE "retry"
      BY <1>0, <2>2 DEF Record, NextAnswer, Goto, TypeOK
    <3>3. LastAttempt(e)' = LastAttempt(e)
      BY <1>1 DEF LastAttempt
    <3>4. CASE UNCHANGED <<at, results>>
      <4>1. HeldChances(w, e)' = HeldChances(w, e)
        BY <1>0, <1>1, <1>2, <3>1, <3>3, <3>4, CurrentHolds, CurrentHoldsNext DEF HoldsByStep
      <4>2. HeldChances(w, e) \in Nat
        BY <1>0, <1>1, <1>2, <3>1, CurrentHolds DEF HoldsByStep
      <4> QED
        BY <4>1, <4>2
    <3>5. CASE at'[w] = IF Reached(results[w]) \/ LastAttempt(e) THEN "ack" ELSE "retry"
      BY <1>0, <1>1, <1>2, <3>1, <3>5, CurrentHolds, CurrentHoldsNext DEF HoldsByStep
    <3> QED
      BY <3>2, <3>4, <3>5
  <2> QED
    BY <2>1, <2>2
<1> QED
  BY <1>1, <1>3, StepsOn

(* Sending costs an attempt, and all of them if a device is reached.       *)
LEMMA SendCosts ==
    ASSUME QueueInv, TypeOK', NEW w \in Workers, NEW e \in DOMAIN stream, Send(w, e)
    PROVE  /\ MovesTo(Chances') /\ Carried' = Carried
           /\ \A p \in Places : p # HeldPlace(e, w) => Chances'[p] = Chances[p]
           /\ Chances'[HeldPlace(e, w)] < Chances[HeldPlace(e, w)]
           /\ Reached(results'[w]) => Chances'[HeldPlace(e, w)] = 0
<1>0. TypeOK
  BY DEF QueueInv
<1>1. /\ Current(w, e) /\ UNCHANGED <<stream, lastRead, pending, idle, batch, delayed>>
      /\ \A v \in Workers : v # w => UNCHANGED <<at[v], results[v]>>
      /\ at[w] = "send" /\ at'[w] = "record"
  BY <1>0 DEF Send, Goto, Busy, Current, queue, TypeOK
<1>2. /\ e \in DOMAIN stream' /\ Current(w, e)' /\ Left(e)' = Left(e) /\ Left(e) \in 1..MaxAttempts
      /\ e \in Nat
  BY <1>0, <1>1, LeftTyped, StreamTyped DEF Current, Left
<1>3. HeldChances(w, e) = Left(e)
  BY <1>0, <1>1, CurrentHolds DEF HoldsByStep
<1>4. HeldChances(w, e)' = IF Reached(results'[w]) \/ LastAttempt(e)' THEN 0 ELSE Left(e) - 1
  BY <1>1, <1>2, CurrentHoldsNext DEF HoldsByStep
<1>5. HeldChances(w, e)' < HeldChances(w, e)
  BY <1>2, <1>3, <1>4
<1>6. HeldChances(w, e)' <= HeldChances(w, e)
  BY <1>2, <1>3, <1>4
<1> QED
  BY <1>1, <1>2, <1>4, <1>5, <1>6, StepsOn, ChancesAt, ChancesAtNext DEF AsPlaced

(* The attempts of an entry go with its successor.                         *)
LEMMA DelayMoves ==
    ASSUME QueueInv, TypeOK', NEW w \in Workers, NEW e \in DOMAIN stream,
           Park(w, e) \/ Retry(w, e)
    PROVE  MovesTo(Chances')
<1>0. TypeOK
  BY DEF QueueInv
<1>1. /\ Current(w, e) /\ UNCHANGED <<stream, lastRead, pending, idle, batch>>
      /\ \A v \in Workers : v # w => UNCHANGED <<at[v], results[v]>>
      /\ at'[w] = "ack"
  BY <1>0 DEF Park, Retry, Goto, Busy, Current, queue, TypeOK
<1>2. /\ e \in DOMAIN stream' /\ Current(w, e)' /\ Left(e)' = Left(e) /\ Left(e) \in 1..MaxAttempts
      /\ e \in Nat
  BY <1>0, <1>1, LeftTyped, StreamTyped DEF Current, Left
<1>3. HeldChances(w, e)' = 0
  BY <1>1, <1>2, CurrentHoldsNext DEF HoldsByStep
<1>4. PICK d \in Entry : /\ Delay(d) /\ d.item = stream[e].item
                         /\ HeldChances(w, e) = MaxAttempts - d.attempts
  <2>1. CASE Park(w, e)
    <3>1. stream[e] \in Entry /\ HeldChances(w, e) = Left(e)
      BY <1>0, <1>1, <2>1, StreamTyped, CurrentHolds DEF Park, Busy, HoldsByStep
    <3> QED
      BY <2>1, <3>1 DEF Park, Left
  <2>2. CASE Retry(w, e)
    <3>1. at[w] = "retry" /\ Working(w, e)
      BY <2>2 DEF Retry, Busy, Current, QueueInv, WorkingInv
    <3>2. ~LastAttempt(e) /\ stream[e] \in Entry
      BY <1>0, <3>1, StreamTyped DEF Working
    <3>3. PICK d \in Entry : d = [stream[e] EXCEPT !.attempts = @ + 1]
      <4>1. [stream[e] EXCEPT !.attempts = @ + 1] \in Entry
        BY <3>2 DEF LastAttempt, Entry
      <4> QED
        BY <4>1
    <3>4. d.item = stream[e].item /\ d.attempts = stream[e].attempts + 1
      BY <3>2, <3>3 DEF Entry
    <3>5. HeldChances(w, e) = Left(e) - 1 /\ stream[e].attempts \in Nat
      BY <1>0, <1>1, <3>1, StreamTyped, CurrentHolds DEF HoldsByStep
    <3>6. Delay(d)
      BY <2>2, <3>3 DEF Retry, Delay
    <3>7. HeldChances(w, e) = MaxAttempts - d.attempts
      BY <3>4, <3>5 DEF Left
    <3> QED
      BY <3>4, <3>6, <3>7
  <2> QED
    BY <2>1, <2>2
<1>5. /\ \A f \in Nat : FreeChances(f)' = FreeChances(f)
      /\ \A f \in Nat, v \in Workers : v # w \/ f # e => HeldChances(v, f)' = HeldChances(v, f)
  BY <1>0, <1>1, OthersKeep
<1>6. delayed \in [Entry -> Nat] /\ delayed' \in [Entry -> Nat]
  BY <1>0 DEF TypeOK
<1> DEFINE n == delayed'[d]
           N == {DelayedPlace(d, n)}
           k == [p \in N |-> HeldPlace(e, w)]
<1>7. /\ \A x \in Entry : x # d => delayed'[x] = delayed[x]
      /\ n = delayed[d] \/ n = delayed[d] + 1
  BY <1>4, <1>6 DEF Delay
<1>8. /\ Chances' \in [Places -> 0..MaxAttempts] /\ Chances \in [Places -> 0..MaxAttempts]
      /\ HeldPlace(e, w) \in Places /\ n \in Nat /\ N \in SUBSET Places
  BY <1>0, <1>2, <1>6, ChancesTyped, ChancesTypedNext, ThreePlaces
<1>9. \A x \in Entry, j \in Nat :
         DelayedPlace(x, j) \notin N => DelayedChances(x, j)' <= DelayedChances(x, j)
  <2>1. SUFFICES ASSUME NEW x \in Entry, NEW j \in Nat, x # d \/ j # n
                 PROVE  DelayedChances(x, j)' <= DelayedChances(x, j)
    BY <1>8, PlacesDiffer
  <2>2. j \in 1..delayed'[x] => j \in 1..delayed[x]
    BY <1>6, <1>7, <2>1
  <2> QED
    BY <1>0, <2>2, LeftTyped DEF DelayedChances
<1>10. ASSUME NEW p \in Places \ N
       PROVE  Chances'[p] = 0 \/ (Chances'[p] <= Chances[p] /\ Carried'[p] = Carried[p])
  <2>0. Chances[p] \in 0..MaxAttempts
    BY <1>8
  <2>1. CASE \E f \in Nat : p = FreePlace(f)
    BY <1>1, <1>5, <2>0, <2>1, ChancesAt, ChancesAtNext DEF AsPlaced
  <2>2. CASE \E f \in Nat, v \in Workers : p = HeldPlace(f, v)
    BY <1>1, <1>3, <1>5, <2>0, <2>2, ChancesAt, ChancesAtNext DEF AsPlaced
  <2>3. CASE \E x \in Entry, j \in Nat : p = DelayedPlace(x, j)
    BY <1>9, <2>3, ChancesAt, ChancesAtNext DEF AsPlaced
  <2> QED
    BY <2>1, <2>2, <2>3, ThreePlaces
<1>11. /\ Chances'[DelayedPlace(d, n)] <= Chances[HeldPlace(e, w)]
       /\ Carried'[DelayedPlace(d, n)] = Carried[HeldPlace(e, w)]
       /\ Chances'[HeldPlace(e, w)] = 0
  BY <1>2, <1>3, <1>4, <1>6, <1>8, LeftTyped, ChancesAt, ChancesAtNext
     DEF AsPlaced, DelayedChances
<1>12. /\ k \in [N -> Places] /\ \A p, q \in N : k[p] = k[q] => p = q
       /\ \A p \in N : /\ Chances'[p] <= Chances[k[p]] /\ Carried'[p] = Carried[k[p]]
                       /\ Chances'[k[p]] = 0
  BY <1>8, <1>11
<1> HIDE DEF N, k, Places, Chances, Carried
<1>m. Moved(Chances', N, k)
  BY <1>0, <1>8, <1>10, <1>12 DEF Moved
<1> QED
  BY <1>0, <1>m, MovesFrom

(* The entries a worker takes leave their place with their attempts.       *)
LEMMA TakeMoves ==
    ASSUME QueueInv, IdleHoldsNothing, TypeOK', NEW w \in Workers, Reclaim(w) \/ ReadNew(w)
    PROVE  MovesTo(Chances')
<1>0. TypeOK /\ batch[w] = {} /\ lastRead \in Nat /\ Len(stream) \in Nat
      /\ lastRead <= Len(stream) /\ DOMAIN stream = 1..Len(stream)
  BY StreamTyped DEF QueueInv, IdleHoldsNothing, Reclaim, ReadNew
<1>1. PICK S \in SUBSET (1..Len(stream)) :
         /\ Continue(w, S) /\ UNCHANGED <<stream, delayed>>
         /\ \A e \in S : Free(e) /\ e <= lastRead' /\ e \notin idle'
         /\ \A e \in Nat \ S : e > lastRead' \/ e \in idle' => Free(e)
         /\ \A e \in Nat \ S : e \in pending' => e \in pending
  <2>1. CASE Reclaim(w)
    <3>1. /\ Continue(w, FirstOf(idle)) /\ UNCHANGED <<stream, delayed, lastRead, pending>>
          /\ idle' = idle \ FirstOf(idle)
      BY <2>1 DEF Reclaim
    <3> DEFINE S == FirstOf(idle)
    <3>2. S \subseteq idle /\ Continue(w, S) /\ idle' = idle \ S
      BY <3>1 DEF FirstOf
    <3> HIDE DEF S
    <3>3. idle \subseteq 1..lastRead
      BY <1>0, StreamTyped DEF TypeOK
    <3>4. S \in SUBSET (1..Len(stream)) /\ \A e \in S : e <= lastRead
      BY <1>0, <3>2, <3>3
    <3> QED
      BY <3>1, <3>2, <3>4 DEF Free
  <2>2. CASE ReadNew(w)
    <3> DEFINE S == FirstOf((lastRead + 1)..Len(stream))
    <3>1. /\ lastRead' = lastRead + Cardinality(S) /\ pending' = pending \cup S
          /\ Continue(w, S) /\ UNCHANGED <<stream, delayed, idle>>
          /\ lastRead < Len(stream) /\ idle = {}
      BY <2>2 DEF ReadNew
    <3>2. /\ Cardinality(S) \in Nat /\ lastRead + Cardinality(S) <= Len(stream)
          /\ S = (lastRead + 1)..(lastRead + Cardinality(S))
      BY <1>0, <3>1, NextInterval
    <3> HIDE DEF S
    <3>3. S \in SUBSET (1..Len(stream)) /\ \A e \in S : e > lastRead /\ e <= lastRead'
      BY <1>0, <3>1, <3>2
    <3>4. \A e \in Nat : e > lastRead' => e > lastRead
      BY <1>0, <3>1, <3>2
    <3> QED
      BY <3>1, <3>3, <3>4 DEF Free
  <2> QED
    BY <2>1, <2>2
<1>2. /\ batch'[w] = S /\ at'[w] \in {"idle", "check"} /\ (S # {} => at'[w] = "check")
      /\ \A v \in Workers : v # w => UNCHANGED <<batch[v], at[v], results[v]>>
  BY <1>0, <1>1 DEF Continue, TypeOK
<1>3. ASSUME NEW e \in S PROVE FreeChances(e)' = 0 /\ FreeChances(e) = Left(e)
  <2>1. Held(e)'
    BY <1>2 DEF Held
  <2>2. e \in Nat /\ e \in DOMAIN stream /\ lastRead' \in Nat
    BY <1>0, <1>1 DEF TypeOK
  <2>3. ~(e > lastRead') /\ e \notin idle' /\ Free(e)
    BY <1>1, <2>2
  <2>4. ~Free(e)'
    BY <2>1, <2>3 DEF Free
  <2> QED
    BY <2>2, <2>3, <2>4 DEF FreeChances
<1>4. ASSUME NEW e \in Nat \ S, Free(e)' PROVE Free(e)
  <2>1. Held(e) => Held(e)'
    BY <1>0, <1>2 DEF Held
  <2> QED
    BY <1>1, <1>4, <2>1 DEF Free
<1>5. \A e \in Nat : HeldChances(w, e)' = IF e \in S THEN Left(e) ELSE 0
  BY <1>1, <1>2 DEF HeldChances, Unsent, Unretried, Left
<1>6. \A e \in Nat, v \in Workers : v # w => HeldChances(v, e)' = HeldChances(v, e)
  BY <1>1, <1>2 DEF HeldChances, Unsent, Unretried, Left, LastAttempt
<1> DEFINE N == {HeldPlace(e, w) : e \in S}
           k == [p \in N |-> FreePlace(p[2])]
<1>7. \A e \in S : e \in Nat /\ e \in DOMAIN stream /\ HeldPlace(e, w) \in N
                   /\ k[HeldPlace(e, w)] = FreePlace(e)
  BY <1>0, <1>1 DEF HeldPlace
<1>8. N \in SUBSET Places /\ \A p \in N : \E e \in S : p = HeldPlace(e, w)
  BY <1>7, ThreePlaces
<1> HIDE DEF N, k
<1>9. \A p \in N : k[p] \in Places
  BY <1>7, <1>8, ThreePlaces
<1>10. k \in [N -> Places]
  BY <1>9 DEF k
<1>11. \A p, q \in N : k[p] = k[q] => p = q
  <2>. SUFFICES ASSUME NEW p \in N, NEW q \in N, k[p] = k[q] PROVE p = q
    OBVIOUS
  <2>1. PICK e \in S, f \in S : p = HeldPlace(e, w) /\ q = HeldPlace(f, w)
    BY <1>8
  <2>2. FreePlace(e) = FreePlace(f)
    BY <1>7, <2>1
  <2>3. e = f
    BY <2>2, PlacesDiffer
  <2> QED
    BY <2>1, <2>3
<1>12. Chances' \in [Places -> 0..MaxAttempts] /\ Chances \in [Places -> 0..MaxAttempts]
  BY <1>0, ChancesTyped, ChancesTypedNext
<1>13. ASSUME NEW p \in N
       PROVE  Chances'[p] <= Chances[k[p]] /\ Carried'[p] = Carried[k[p]] /\ Chances'[k[p]] = 0
  <2>1. PICK e \in S : p = HeldPlace(e, w)
    BY <1>8
  <2>2. k[p] = FreePlace(e) /\ e \in Nat /\ Left(e) \in Nat
    BY <1>0, <1>7, <2>1, LeftTyped
  <2> QED
    BY <1>1, <1>3, <1>5, <2>1, <2>2, ChancesAt, ChancesAtNext DEF AsPlaced
<1>14. ASSUME NEW p \in Places \ N
       PROVE  Chances'[p] = 0 \/ (Chances'[p] <= Chances[p] /\ Carried'[p] = Carried[p])
  <2>0. Chances[p] \in 0..MaxAttempts
    BY <1>12
  <2>1. ASSUME NEW e \in Nat, p = FreePlace(e)
        PROVE  Chances'[p] = 0 \/ (Chances'[p] <= Chances[p] /\ Carried'[p] = Carried[p])
    <3>1. CASE e \in S
      BY <1>3, <2>1, <3>1, ChancesAt, ChancesAtNext DEF AsPlaced
    <3>2. CASE e \notin S
      <4>1. FreeChances(e)' = 0 \/ FreeChances(e)' = FreeChances(e)
        BY <1>1, <1>4, <3>2 DEF FreeChances, Left
      <4> QED
        BY <1>1, <2>0, <2>1, <4>1, ChancesAt, ChancesAtNext DEF AsPlaced
    <3> QED
      BY <3>1, <3>2
  <2>2. ASSUME NEW e \in Nat, NEW v \in Workers, p = HeldPlace(e, v)
        PROVE  Chances'[p] = 0 \/ (Chances'[p] <= Chances[p] /\ Carried'[p] = Carried[p])
    <3>1. v = w => e \notin S
      BY <1>7, <2>2
    <3> QED
      BY <1>1, <1>5, <1>6, <2>0, <2>2, <3>1, ChancesAt, ChancesAtNext DEF AsPlaced
  <2>3. CASE \E d \in Entry, n \in Nat : p = DelayedPlace(d, n)
    <3>1. \A d \in Entry, n \in Nat : DelayedChances(d, n)' = DelayedChances(d, n)
      BY <1>1 DEF DelayedChances
    <3> QED
      BY <2>0, <2>3, <3>1, ChancesAt, ChancesAtNext DEF AsPlaced
  <2> QED
    BY <2>1, <2>2, <2>3, ThreePlaces
<1>15. TypeOK /\ N \in SUBSET Places /\ Chances' \in [Places -> 0..MaxAttempts]
  BY <1>0, <1>8, <1>12
<1>16. \A p \in N : /\ Chances'[p] <= Chances[k[p]] /\ Carried'[p] = Carried[k[p]]
                    /\ k[p] \in N \/ Chances'[k[p]] = 0
  BY <1>13
<1>17. \A p \in Places \ N :
          Chances'[p] = 0 \/ (Chances'[p] <= Chances[p] /\ Carried'[p] = Carried[p])
  BY <1>14
<1> HIDE DEF Places, Chances, Carried
<1>m. Moved(Chances', N, k)
  BY <1>10, <1>11, <1>15, <1>16, <1>17 DEF Moved
<1> QED
  BY <1>15, <1>m, MovesFrom

(* The entries a worker forgets become free with what it held of them.     *)
LEMMA ForgetMoves ==
    ASSUME TypeOK, TypeOK', NEW w \in Workers, Continue(w, {}),
           UNCHANGED <<stream, lastRead, pending, idle, delayed>>,
           NEW g \in [Places -> 0..MaxAttempts], \A p \in Places : g[p] <= Chances'[p],
           \A e \in batch[w] : g[FreePlace(e)] <= HeldChances(w, e)
    PROVE  MovesTo(g)
<1>0. /\ DOMAIN stream = 1..Len(stream) /\ Len(stream) \in Nat /\ lastRead <= Len(stream)
      /\ batch[w] \subseteq 1..lastRead /\ lastRead \in Nat
  BY StreamTyped
<1>1. /\ batch'[w] = {} /\ at'[w] = "idle"
      /\ \A v \in Workers : v # w => UNCHANGED <<batch[v], at[v], results[v]>>
  BY DEF Continue, TypeOK
<1>2. \A e \in Nat : HeldChances(w, e)' = 0
  BY <1>1 DEF HeldChances, Unsent, Unretried
<1>3. \A e \in Nat, v \in Workers : v # w => HeldChances(v, e)' = HeldChances(v, e)
  BY <1>1 DEF HeldChances, Unsent, Unretried, Left, LastAttempt
<1> DEFINE S == {e \in batch[w] : ~Free(e)}
           N == {FreePlace(e) : e \in S}
           k == [p \in N |-> HeldPlace(p[2], w)]
<1>4. ASSUME NEW e \in Nat, e \notin S PROVE FreeChances(e)' = 0 \/ FreeChances(e)' = FreeChances(e)
  <2>1. Free(e)' => Free(e)
    BY <1>1, <1>4 DEF Free, Held
  <2> QED
    BY <2>1 DEF FreeChances, Left
<1>5. \A e \in S : /\ e \in batch[w] /\ e \in Nat /\ FreePlace(e) \in N
                   /\ k[FreePlace(e)] = HeldPlace(e, w)
  <2>1. \A e \in S : FreePlace(e) \in N /\ e \in batch[w] /\ e \in Nat
    BY <1>0
  <2>2. \A e : FreePlace(e)[2] = e
    BY DEF FreePlace
  <2> HIDE DEF N, S
  <2> QED
    BY <2>1, <2>2
<1>6. N \in SUBSET Places
  BY <1>5, ThreePlaces
<1>7. \A p \in N : \E e \in S : p = FreePlace(e)
  OBVIOUS
<1> HIDE DEF N, k, S
<1>8. \A p \in N : k[p] \in Places
  BY <1>5, <1>7, ThreePlaces
<1>9. k \in [N -> Places]
  BY <1>8 DEF k
<1>10. \A p, q \in N : k[p] = k[q] => p = q
  BY <1>5, <1>7, PlacesDiffer
<1>11. Chances' \in [Places -> 0..MaxAttempts] /\ Chances \in [Places -> 0..MaxAttempts]
  BY ChancesTyped, ChancesTypedNext
<1>12. ASSUME NEW e \in Nat, NEW v \in Workers, HeldChances(v, e)' = 0
       PROVE  g[HeldPlace(e, v)] = 0
  <2>1. Chances'[HeldPlace(e, v)] = 0 /\ HeldPlace(e, v) \in Places
    BY <1>12, ChancesAtNext, ThreePlaces DEF AsPlaced
  <2>2. g[HeldPlace(e, v)] <= 0 /\ g[HeldPlace(e, v)] \in Nat
    BY <2>1
  <2> QED
    BY <2>2
<1>13. ASSUME NEW p \in N
       PROVE  /\ g[p] <= Chances[k[p]] /\ Carried'[p] = Carried[k[p]]
              /\ k[p] \in N \/ g[k[p]] = 0
  <2>1. PICK e \in S : p = FreePlace(e)
    BY <1>7
  <2>2. k[p] = HeldPlace(e, w) /\ e \in Nat /\ e \in batch[w]
    BY <1>5, <2>1
  <2> QED
    BY <1>2, <1>12, <2>1, <2>2, ChancesAt, ChancesAtNext DEF AsPlaced
<1>14. ASSUME NEW p \in Places \ N
       PROVE  g[p] = 0 \/ (g[p] <= Chances[p] /\ Carried'[p] = Carried[p])
  <2>0. /\ g[p] \in 0..MaxAttempts /\ Chances'[p] \in 0..MaxAttempts /\ Chances[p] \in 0..MaxAttempts
        /\ g[p] <= Chances'[p]
    BY <1>11
  <2>1. Chances'[p] = 0 \/ (Chances'[p] = Chances[p] /\ Carried'[p] = Carried[p])
    <3>1. ASSUME NEW e \in Nat, p = FreePlace(e)
          PROVE  Chances'[p] = 0 \/ (Chances'[p] = Chances[p] /\ Carried'[p] = Carried[p])
      <4>1. e \notin S
        BY <1>5, <3>1
      <4> QED
        BY <1>4, <3>1, <4>1, ChancesAt, ChancesAtNext DEF AsPlaced
    <3>2. CASE \E e \in Nat, v \in Workers : p = HeldPlace(e, v)
      BY <1>2, <1>3, <3>2, ChancesAt, ChancesAtNext DEF AsPlaced
    <3>3. CASE \E d \in Entry, n \in Nat : p = DelayedPlace(d, n)
      <4>1. \A d \in Entry, n \in Nat : DelayedChances(d, n)' = DelayedChances(d, n)
        BY DEF DelayedChances
      <4> QED
        BY <3>3, <4>1, ChancesAt, ChancesAtNext DEF AsPlaced
    <3> QED
      BY <3>1, <3>2, <3>3, ThreePlaces
  <2> QED
    BY <2>0, <2>1
<1>15. \A p \in N : /\ g[p] <= Chances[k[p]] /\ Carried'[p] = Carried[k[p]]
                    /\ k[p] \in N \/ g[k[p]] = 0
  BY <1>13
<1>16. \A p \in Places \ N : g[p] = 0 \/ (g[p] <= Chances[p] /\ Carried'[p] = Carried[p])
  BY <1>14
<1> HIDE DEF Places, Chances, Carried
<1>m. Moved(g, N, k)
  BY <1>6, <1>9, <1>10, <1>15, <1>16 DEF Moved
<1> QED
  BY <1>m, MovesFrom

(* Acknowledging an entry can only drop attempts.                          *)
LEMMA AckMoves ==
    ASSUME QueueInv, TypeOK', NEW w \in Workers, NEW e \in DOMAIN stream, Ack(w, e)
    PROVE  MovesTo(Chances')
<1>0. /\ TypeOK /\ DOMAIN stream = 1..Len(stream) /\ Len(stream) \in Nat /\ lastRead <= Len(stream)
      /\ batch[w] \subseteq 1..lastRead /\ lastRead \in Nat
  BY StreamTyped DEF QueueInv
<1>1. /\ UNCHANGED <<stream, lastRead, delayed>>
      /\ Continue(w, batch[w] \ {e}) /\ pending' = pending \ {e} /\ idle' = idle \ {e}
      /\ e \in batch[w] /\ \A f \in batch[w] : e <= f
  BY DEF Ack, Busy
<1>2. /\ batch'[w] = batch[w] \ {e}
      /\ batch'[w] # {} => at'[w] = "check"
      /\ \A v \in Workers : v # w => UNCHANGED <<batch[v], at[v], results[v]>>
  BY <1>0, <1>1 DEF Continue, TypeOK
<1>3. ASSUME NEW f \in Nat PROVE FreeChances(f)' = 0 \/ FreeChances(f)' = FreeChances(f)
  <2>1. CASE f = e
    <3>1. ~Free(f)'
      BY <1>0, <1>1, <2>1 DEF Free
    <3> QED
      BY <3>1 DEF FreeChances
  <2>2. CASE f # e
    <3>1. Held(f)' = Held(f)
      BY <1>2, <2>2 DEF Held
    <3>2. Free(f)' => Free(f)
      BY <1>1, <2>2, <3>1 DEF Free
    <3> QED
      BY <1>1, <3>2 DEF FreeChances, Left
  <2> QED
    BY <2>1, <2>2
<1>4. ASSUME NEW f \in Nat PROVE HeldChances(w, f)' = 0 \/ HeldChances(w, f)' = HeldChances(w, f)
  <2>1. CASE f \in batch[w] \ {e}
    <3>1. e < f
      BY <1>0, <1>1, <2>1
    <3>2. Unsent(w, f) /\ Unsent(w, f)'
      BY <1>1, <1>2, <2>1, <3>1 DEF Unsent
    <3> QED
      BY <1>1, <3>2 DEF HeldChances, Left
  <2>2. CASE f \notin batch[w] \ {e}
    BY <1>2, <2>2 DEF HeldChances, Unsent, Unretried
  <2> QED
    BY <2>1, <2>2
<1>5. \A f \in Nat, v \in Workers : v # w => HeldChances(v, f)' = HeldChances(v, f)
  BY <1>1, <1>2 DEF HeldChances, Unsent, Unretried, Left, LastAttempt
<1>6. \A d \in Entry, n \in Nat : DelayedChances(d, n)' = DelayedChances(d, n)
  BY <1>1 DEF DelayedChances
<1> QED
  BY <1>0, <1>1, <1>3, <1>4, <1>5, <1>6, NothingMoves

(* A new entry leaves the others what they had.                            *)
LEMMA AppendKeeps ==
    ASSUME TypeOK, TypeOK', NEW d \in Entry, stream' = Append(stream, d),
           UNCHANGED <<lastRead, pending, idle, batch, at, results>>,
           NEW e, e = Len(stream) + 1
    PROVE  /\ e \in Nat /\ FreeChances(e)' = MaxAttempts - d.attempts
           /\ stream'[e] = d
           /\ \A f \in Nat \ {e} :
                 FreeChances(f)' = 0 \/ (FreeChances(f)' = FreeChances(f) /\ stream'[f] = stream[f])
           /\ \A f \in Nat, v \in Workers :
                 HeldChances(v, f)' = 0
                    \/ (HeldChances(v, f)' = HeldChances(v, f) /\ stream'[f] = stream[f])
<1>1. /\ DOMAIN stream' = 1..e /\ DOMAIN stream = 1..Len(stream) /\ Len(stream) \in Nat
      /\ \A f \in DOMAIN stream : stream'[f] = stream[f]
      /\ stream'[e] = d /\ lastRead \in Nat /\ lastRead <= Len(stream) /\ e \in Nat
  BY AppendTyped, StreamTyped
<1>2. FreeChances(e)' = MaxAttempts - d.attempts
  <2>1. e > lastRead /\ e \in DOMAIN stream'
    BY <1>1
  <2>2. Free(e)'
    BY <2>1 DEF Free
  <2> QED
    BY <1>1, <2>1, <2>2 DEF FreeChances, Left
<1>3. ASSUME NEW f \in Nat \ {e}
      PROVE  FreeChances(f)' = 0 \/ (FreeChances(f)' = FreeChances(f) /\ stream'[f] = stream[f])
  <2>1. f \in DOMAIN stream' <=> f \in DOMAIN stream
    BY <1>1
  <2>2. Free(f)' = Free(f)
    BY DEF Free, Held
  <2> QED
    BY <1>1, <2>1, <2>2 DEF FreeChances, Left
<1>4. ASSUME NEW f \in Nat, NEW v \in Workers
      PROVE  HeldChances(v, f)' = 0
                \/ (HeldChances(v, f)' = HeldChances(v, f) /\ stream'[f] = stream[f])
  <2>1. CASE f \in batch[v]
    <3>1. f \in DOMAIN stream
      BY <1>1, <2>1, StreamTyped
    <3>2. stream'[f] = stream[f]
      BY <1>1, <3>1
    <3> QED
      BY <3>2 DEF HeldChances, Unsent, Unretried, Left, LastAttempt
  <2>2. CASE f \notin batch[v]
    BY <2>2 DEF HeldChances, Unsent, Unretried
  <2> QED
    BY <2>1, <2>2
<1> QED
  BY <1>1, <1>2, <1>3, <1>4

LEMMA Cleared ==
    ASSUME NEW c \in [Places -> 0..MaxAttempts], NEW p
    PROVE  /\ [c EXCEPT ![p] = 0] \in [Places -> 0..MaxAttempts]
           /\ \A q \in Places : [c EXCEPT ![p] = 0][q] = IF q = p THEN 0 ELSE c[q]
<1>1. 0 \in 0..MaxAttempts
  OBVIOUS
<1>2. \A q \in Places : [c EXCEPT ![p] = 0][q] = IF q = p THEN 0 ELSE c[q]
  OBVIOUS
<1>3. [c EXCEPT ![p] = 0] \in [Places -> 0..MaxAttempts]
  BY <1>1
<1> QED
  BY <1>2, <1>3

LEMMA EnqueueMoves ==
    ASSUME TypeOK, TypeOK', NEW i \in Items, Enqueue(i), NEW e, e = Len(stream) + 1
    PROVE  MovesTo([Chances' EXCEPT ![FreePlace(e)] = 0])
<1> DEFINE g == [Chances' EXCEPT ![FreePlace(e)] = 0]
           k == [p \in {} |-> p]
<1>1. PICK d \in Entry : stream' = Append(stream, d)
  BY EntryOfItem DEF Enqueue
<1>2. UNCHANGED <<lastRead, pending, idle, batch, at, results, delayed>>
  BY DEF Enqueue, worker
<1>3. /\ e \in Nat
      /\ \A f \in Nat \ {e} :
            FreeChances(f)' = 0 \/ (FreeChances(f)' = FreeChances(f) /\ stream'[f] = stream[f])
      /\ \A f \in Nat, v \in Workers :
            HeldChances(v, f)' = 0
               \/ (HeldChances(v, f)' = HeldChances(v, f) /\ stream'[f] = stream[f])
  BY <1>1, <1>2, AppendKeeps
<1>4. Chances' \in [Places -> 0..MaxAttempts] /\ Chances \in [Places -> 0..MaxAttempts]
  BY ChancesTyped, ChancesTypedNext
<1>5. /\ g \in [Places -> 0..MaxAttempts]
      /\ \A p \in Places : g[p] = IF p = FreePlace(e) THEN 0 ELSE Chances'[p]
  BY <1>4, Cleared
<1> HIDE DEF g
<1>6. ASSUME NEW p \in Places
      PROVE  g[p] = 0 \/ (g[p] <= Chances[p] /\ Carried'[p] = Carried[p])
  <2>0. Chances[p] \in 0..MaxAttempts /\ g[p] \in {0, Chances'[p]}
    BY <1>4, <1>5
  <2>1. CASE p = FreePlace(e)
    BY <1>5, <2>1
  <2>2. CASE p # FreePlace(e) /\ \E f \in Nat : p = FreePlace(f)
    BY <1>3, <2>0, <2>2, ChancesAt, ChancesAtNext DEF AsPlaced
  <2>3. CASE \E f \in Nat, v \in Workers : p = HeldPlace(f, v)
    BY <1>3, <2>0, <2>3, ChancesAt, ChancesAtNext DEF AsPlaced
  <2>4. CASE \E x \in Entry, n \in Nat : p = DelayedPlace(x, n)
    <3>1. \A x \in Entry, n \in Nat : DelayedChances(x, n)' = DelayedChances(x, n)
      BY <1>2 DEF DelayedChances
    <3> QED
      BY <2>0, <2>4, <3>1, ChancesAt, ChancesAtNext DEF AsPlaced
  <2> QED
    BY <2>1, <2>2, <2>3, <2>4, ThreePlaces
<1>7. k \in [{} -> Places]
  OBVIOUS
<1> HIDE DEF Places, Chances, Carried, k
<1>m. Moved(g, {}, k)
  BY <1>5, <1>6, <1>7 DEF Moved
<1>8. MovesTo(g)
  BY <1>m, MovesFrom
<1> QED
  BY <1>8 DEF g

LEMMA PromoteMoves ==
    ASSUME TypeOK, TypeOK', NEW w \in Workers, NEW d \in Entry, Promote(w, d)
    PROVE  MovesTo(Chances')
<1>a. PICK e \in Nat : e = Len(stream) + 1
  BY StreamTyped
<1>b. PICK n \in Nat : n = delayed[d]
  BY DEF TypeOK
<1> DEFINE N == {FreePlace(e)}
           k == [p \in N |-> DelayedPlace(d, n)]
<1>1. /\ stream' = Append(stream, d) /\ delayed' = [delayed EXCEPT ![d] = @ - 1] /\ delayed[d] > 0
      /\ UNCHANGED <<lastRead, pending, idle, batch, at, results>>
  BY DEF Promote, worker
<1>2. delayed \in [Entry -> Nat] /\ n \in Nat /\ delayed' \in [Entry -> Nat]
  BY DEF TypeOK
<1>3. /\ e \in Nat /\ FreeChances(e)' = MaxAttempts - d.attempts /\ stream'[e] = d
      /\ \A f \in Nat \ {e} :
            FreeChances(f)' = 0 \/ (FreeChances(f)' = FreeChances(f) /\ stream'[f] = stream[f])
      /\ \A f \in Nat, v \in Workers :
            HeldChances(v, f)' = 0
               \/ (HeldChances(v, f)' = HeldChances(v, f) /\ stream'[f] = stream[f])
  BY <1>1, <1>a, AppendKeeps
<1>4. Chances' \in [Places -> 0..MaxAttempts] /\ Chances \in [Places -> 0..MaxAttempts]
  BY ChancesTyped, ChancesTypedNext
<1>5. ASSUME NEW x \in Entry, NEW j \in Nat
      PROVE  /\ DelayedChances(x, j)' = 0 \/ DelayedChances(x, j)' = DelayedChances(x, j)
             /\ x = d /\ j = n => /\ DelayedChances(x, j)' = 0
                                  /\ DelayedChances(x, j) = MaxAttempts - d.attempts
  <2>1. delayed'[x] = IF x = d THEN n - 1 ELSE delayed[x]
    BY <1>1, <1>2, <1>b
  <2>2. delayed[x] \in Nat
    BY <1>2
  <2>3. j \in 1..delayed'[x] => j \in 1..delayed[x]
    BY <1>1, <1>2, <1>b, <2>1, <2>2
  <2>4. n \in 1..n /\ n \notin 1..(n - 1)
    BY <1>1, <1>2, <1>b
  <2> QED
    BY <1>b, <2>1, <2>3, <2>4 DEF DelayedChances
<1>6. FreePlace(e) \in Places /\ DelayedPlace(d, n) \in Places
  BY <1>2, <1>3, ThreePlaces
<1>7. N \in SUBSET Places /\ k \in [N -> Places] /\ \A p, q \in N : k[p] = k[q] => p = q
  BY <1>6
<1>8. /\ Chances'[FreePlace(e)] <= Chances[DelayedPlace(d, n)]
      /\ Carried'[FreePlace(e)] = Carried[DelayedPlace(d, n)]
      /\ Chances'[DelayedPlace(d, n)] = 0
  <2>1. MaxAttempts - d.attempts \in Nat
    BY LeftTyped
  <2> QED
    BY <1>2, <1>3, <1>5, <2>1, ChancesAt, ChancesAtNext DEF AsPlaced
<1>9. \A p \in N : /\ Chances'[p] <= Chances[k[p]] /\ Carried'[p] = Carried[k[p]]
                   /\ k[p] \in N \/ Chances'[k[p]] = 0
  BY <1>8
<1>10. ASSUME NEW p \in Places, p # FreePlace(e)
       PROVE  Chances'[p] = 0 \/ (Chances'[p] <= Chances[p] /\ Carried'[p] = Carried[p])
  <2>0. Chances[p] \in 0..MaxAttempts
    BY <1>4
  <2>2. CASE \E f \in Nat : p = FreePlace(f)
    BY <1>3, <1>10, <2>0, <2>2, ChancesAt, ChancesAtNext DEF AsPlaced
  <2>3. CASE \E f \in Nat, v \in Workers : p = HeldPlace(f, v)
    BY <1>3, <2>0, <2>3, ChancesAt, ChancesAtNext DEF AsPlaced
  <2>4. CASE \E x \in Entry, j \in Nat : p = DelayedPlace(x, j)
    BY <1>5, <2>0, <2>4, ChancesAt, ChancesAtNext DEF AsPlaced
  <2> QED
    BY <2>2, <2>3, <2>4, ThreePlaces
<1>11. \A p \in Places \ N :
          Chances'[p] = 0 \/ (Chances'[p] <= Chances[p] /\ Carried'[p] = Carried[p])
  BY <1>10
<1> HIDE DEF N, k, Places, Chances, Carried
<1>m. Moved(Chances', N, k)
  BY <1>4, <1>7, <1>9, <1>11 DEF Moved
<1> QED
  BY <1>m, MovesFrom

(* An entry that has become idle is free, whoever held it.                 *)
LEMMA OrphanMoves ==
    ASSUME TypeOK, TypeOK', NEW e \in DOMAIN stream, OrphanIdles(e)
    PROVE  MovesTo(Chances')
<1>1. /\ e \in pending /\ ~Held(e) /\ idle' = idle \cup {e}
      /\ UNCHANGED <<stream, lastRead, pending, delayed, batch, at, results>>
  BY DEF OrphanIdles, worker
<1>2. \A f \in Nat : FreeChances(f)' = FreeChances(f)
  BY <1>1 DEF FreeChances, Free, Held, Left
<1>3. \A f \in Nat, v \in Workers : HeldChances(v, f)' = HeldChances(v, f)
  BY <1>1 DEF HeldChances, Unsent, Unretried, Left, LastAttempt
<1>4. \A d \in Entry, n \in Nat : DelayedChances(d, n)' = DelayedChances(d, n)
  BY <1>1 DEF DelayedChances
<1> QED
  BY <1>1, <1>2, <1>3, <1>4, NothingMoves

LEMMA OverrunMoves ==
    ASSUME TypeOK, TypeOK', NEW e \in DOMAIN stream, HolderOverruns(e)
    PROVE  MovesTo([Chances' EXCEPT ![FreePlace(e)] = 0])
<1> DEFINE g == [Chances' EXCEPT ![FreePlace(e)] = 0]
           k == [p \in {} |-> p]
<1>1. /\ idle' = idle \cup {e}
      /\ UNCHANGED <<stream, lastRead, pending, delayed, batch, at, results>>
  BY DEF HolderOverruns, worker
<1>2. \A f \in Nat : f # e => FreeChances(f)' = FreeChances(f)
  BY <1>1 DEF FreeChances, Free, Held, Left
<1>3. \A f \in Nat, v \in Workers : HeldChances(v, f)' = HeldChances(v, f)
  BY <1>1 DEF HeldChances, Unsent, Unretried, Left, LastAttempt
<1>4. \A d \in Entry, n \in Nat : DelayedChances(d, n)' = DelayedChances(d, n)
  BY <1>1 DEF DelayedChances
<1>5. Chances' \in [Places -> 0..MaxAttempts] /\ Chances \in [Places -> 0..MaxAttempts]
  BY ChancesTyped, ChancesTypedNext
<1>6. /\ g \in [Places -> 0..MaxAttempts]
      /\ \A p \in Places : g[p] = IF p = FreePlace(e) THEN 0 ELSE Chances'[p]
  BY <1>5, Cleared
<1> HIDE DEF g
<1>7. ASSUME NEW p \in Places
      PROVE  g[p] = 0 \/ (g[p] <= Chances[p] /\ Carried'[p] = Carried[p])
  <2>0. Chances[p] \in 0..MaxAttempts /\ g[p] \in {0, Chances'[p]}
    BY <1>5, <1>6
  <2>1. CASE p = FreePlace(e)
    BY <1>6, <2>1
  <2>2. CASE p # FreePlace(e) /\ \E f \in Nat : p = FreePlace(f)
    BY <1>1, <1>2, <2>0, <2>2, ChancesAt, ChancesAtNext DEF AsPlaced
  <2>3. CASE \E f \in Nat, v \in Workers : p = HeldPlace(f, v)
    BY <1>1, <1>3, <2>0, <2>3, ChancesAt, ChancesAtNext DEF AsPlaced
  <2>4. CASE \E x \in Entry, n \in Nat : p = DelayedPlace(x, n)
    BY <1>4, <2>0, <2>4, ChancesAt, ChancesAtNext DEF AsPlaced
  <2> QED
    BY <2>1, <2>2, <2>3, <2>4, ThreePlaces
<1>8. k \in [{} -> Places]
  OBVIOUS
<1> HIDE DEF Places, Chances, Carried, k
<1>m. Moved(g, {}, k)
  BY <1>6, <1>7, <1>8 DEF Moved
<1>9. MovesTo(g)
  BY <1>m, MovesFrom
<1> QED
  BY <1>9 DEF g

(* A worker that gives up frees what it holds; only its first entry may    *)
(* have fewer attempts left than its number says.                          *)
LEMMA AbandonMoves ==
    ASSUME QueueInv, TypeOK', NEW w \in Workers, Abandon(w)
    PROVE  \E e \in Nat : MovesTo([Chances' EXCEPT ![FreePlace(e)] = 0])
<1>0. TypeOK /\ batch[w] \subseteq 1..lastRead /\ 1..lastRead \subseteq DOMAIN stream
  BY StreamTyped DEF QueueInv
<1>1. /\ Continue(w, {})
      /\ UNCHANGED <<stream, lastRead, pending, idle, delayed>>
  BY DEF Abandon, queue
<1>2. PICK e \in Nat : \A f \in batch[w] : f # e => \E c \in batch[w] : c < f
  <2>1. CASE batch[w] = {}
    BY <2>1
  <2>2. CASE batch[w] # {}
    <3>0. batch[w] \in SUBSET Nat /\ batch[w] # {}
      BY <1>0, <2>2
    <3>1. PICK e \in batch[w] : \A f \in batch[w] : <<f, e>> \notin OpToRel(<, Nat)
      BY <3>0, NatLessThanWellFounded, WFMin
    <3>2. \A f \in batch[w] : ~(f < e)
      BY <3>0, <3>1 DEF OpToRel
    <3>3. e \in Nat /\ \A f \in batch[w] : f \in Nat /\ (f # e => e < f)
      BY <1>0, <3>2
    <3> QED
      BY <3>1, <3>3
  <2> QED
    BY <2>1, <2>2
<1> DEFINE g == [Chances' EXCEPT ![FreePlace(e)] = 0]
<1>5. Chances' \in [Places -> 0..MaxAttempts] /\ Chances \in [Places -> 0..MaxAttempts]
  BY <1>0, ChancesTyped, ChancesTypedNext
<1>6. /\ g \in [Places -> 0..MaxAttempts]
      /\ \A p \in Places : g[p] = IF p = FreePlace(e) THEN 0 ELSE Chances'[p]
  BY <1>5, Cleared
<1> HIDE DEF g
<1>7. \A p \in Places : g[p] <= Chances'[p]
  <2>1. ASSUME NEW p \in Places PROVE g[p] <= Chances'[p]
    <3>1. Chances'[p] \in 0..MaxAttempts /\ g[p] \in {0, Chances'[p]}
      BY <1>5, <1>6
    <3> QED
      BY <3>1
  <2> QED
    BY <2>1
<1>8. ASSUME NEW f \in batch[w] PROVE g[FreePlace(f)] <= HeldChances(w, f)
  <2>0. f \in Nat /\ FreePlace(f) \in Places /\ f \in DOMAIN stream
    BY <1>0, ThreePlaces
  <2>1. Left(f) \in 1..MaxAttempts /\ HeldPlace(f, w) \in Places
    BY <1>0, <2>0, LeftTyped, ThreePlaces
  <2>2. CASE f = e
    <3>1. HeldChances(w, f) \in 0..MaxAttempts
      BY <1>5, <2>0, <2>1, ChancesAt DEF AsPlaced
    <3> QED
      BY <1>6, <2>0, <2>2, <3>1
  <2>3. CASE f # e
    <3>1. HeldChances(w, f) = Left(f)
      BY <1>2, <2>3 DEF HeldChances, Unsent
    <3>2. g[FreePlace(f)] = FreeChances(f)'
      BY <1>6, <2>0, <2>3, PlacesDiffer, ChancesAtNext DEF AsPlaced
    <3>3. FreeChances(f)' \in {0, Left(f)}
      BY <1>1 DEF FreeChances, Left
    <3> QED
      BY <2>1, <3>1, <3>2, <3>3
  <2> QED
    BY <2>2, <2>3
<1>9. MovesTo(g)
  BY <1>0, <1>1, <1>6, <1>7, <1>8, ForgetMoves
<1> QED
  BY <1>9 DEF g

LEMMA DyingMoves ==
    ASSUME QueueInv, TypeOK', NEW w \in Workers, NEW e \in DOMAIN stream, DieSending(w, e)
    PROVE  MovesTo(Chances')
<1>0. TypeOK /\ batch[w] \subseteq 1..lastRead /\ 1..lastRead \subseteq DOMAIN stream
  BY StreamTyped DEF QueueInv
<1>1. /\ Continue(w, {}) /\ at[w] = "send"
      /\ UNCHANGED <<stream, lastRead, pending, idle, delayed>>
  BY DEF DieSending, Busy, queue
<1>2. Chances' \in [Places -> 0..MaxAttempts]
  BY ChancesTypedNext
<1>3. \A p \in Places : Chances'[p] <= Chances'[p]
  BY <1>2
<1>4. ASSUME NEW f \in batch[w] PROVE Chances'[FreePlace(f)] <= HeldChances(w, f)
  <2>0. f \in Nat /\ f \in DOMAIN stream
    BY <1>0
  <2>1. Left(f) \in 1..MaxAttempts
    BY <1>0, <2>0, LeftTyped
  <2>2. HeldChances(w, f) = Left(f)
    BY <1>1 DEF HeldChances, Unsent
  <2>3. Chances'[FreePlace(f)] = FreeChances(f)'
    BY <2>0, ChancesAtNext DEF AsPlaced
  <2>4. FreeChances(f)' \in {0, Left(f)}
    BY <1>1 DEF FreeChances, Left
  <2> QED
    BY <2>1, <2>2, <2>3, <2>4
<1> HIDE DEF Chances, Places
<1> QED
  BY <1>0, <1>1, <1>2, <1>3, <1>4, ForgetMoves

-----------------------------------------------------------------------------
(* What a step does to the account of the rounds: attempts move, or a new  *)
(* chain of them is granted, or one is used.                               *)
LEMMA Affordable ==
    ASSUME NEW k \in {0, 1}, NEW c \in Nat, NEW f \in Nat, NEW o \in Nat, NEW r \in Nat, NEW t \in Nat,
           NEW x \in Nat, NEW y \in Nat, NEW z \in Nat, NEW s \in Nat, NEW u \in Nat,
           r + t <= MaxAttempts * (c + f + o),
           x + y + z >= c + f + o + k,
           s + u <= r + t + k * MaxAttempts
    PROVE  s + u <= MaxAttempts * (x + y + z)
<1> DEFINE a == c + f + o + k
           b == x + y + z
<1>1. a \in Nat /\ b \in Nat /\ a <= b /\ MaxAttempts \in Nat
  OBVIOUS
<1>2. MaxAttempts * a <= MaxAttempts * b
  BY <1>1
<1>3. MaxAttempts * a = MaxAttempts * (c + f + o) + k * MaxAttempts
  OBVIOUS
<1>4. MaxAttempts * a \in Nat /\ MaxAttempts * b \in Nat /\ MaxAttempts * (c + f + o) \in Nat
      /\ k * MaxAttempts \in Nat
  BY <1>1
<1> QED
  BY <1>2, <1>3, <1>4

LEMMA RoundsFrom ==
    ASSUME TypeOK, TypeOK', RoundsPaid,
           IsFiniteSet(AllRounds'), IsFiniteSet(Enqueued'), IsFiniteSet(Total(Chances')),
           NEW k \in {0, 1},
           Cardinality(Enqueued') + faults' + overruns' >= Cardinality(Enqueued) + faults + overruns + k,
           Cardinality(AllRounds') + Cardinality(Total(Chances'))
              <= Cardinality(AllRounds) + Cardinality(Total(Chances)) + k * MaxAttempts
    PROVE  RoundsPaid'
<1>1. Total(Chances)' = Total(Chances')
  BY DEF Total
<1>2. /\ Cardinality(Enqueued) \in Nat /\ Cardinality(AllRounds) \in Nat
      /\ Cardinality(Total(Chances)) \in Nat
      /\ Cardinality(Enqueued') \in Nat /\ Cardinality(AllRounds') \in Nat
      /\ Cardinality(Total(Chances')) \in Nat
  BY FS_CardinalityType DEF RoundsPaid
<1>3. faults \in Nat /\ overruns \in Nat /\ faults' \in Nat /\ overruns' \in Nat
  BY DEF TypeOK
<1>4. Cardinality(AllRounds) + Cardinality(Total(Chances))
         <= MaxAttempts * (Cardinality(Enqueued) + faults + overruns)
  BY DEF RoundsPaid
<1>5. Cardinality(AllRounds') + Cardinality(Total(Chances'))
         <= MaxAttempts * (Cardinality(Enqueued') + faults' + overruns')
  BY <1>2, <1>3, <1>4, Affordable
<1> QED
  BY <1>1, <1>5 DEF RoundsPaid

LEMMA MovedTotal ==
    ASSUME TypeOK, IsFiniteSet(Total(Chances)), NEW g \in [Places -> 0..MaxAttempts], MovesTo(g)
    PROVE  /\ IsFiniteSet(Total(g)) /\ Cardinality(Total(g)) <= Cardinality(Total(Chances))
           /\ Cardinality(Total(g)) \in Nat /\ Cardinality(Total(Chances)) \in Nat
<1>1. Chances \in [Places -> Nat] /\ g \in [Places -> Nat]
  <2>1. Chances \in [Places -> 0..MaxAttempts] /\ 0..MaxAttempts \subseteq Nat
    BY ChancesTyped
  <2> QED
    BY <2>1
<1>2. PICK m : Follows(Chances, g, m)
  BY DEF MovesTo
<1>3. IsFiniteSet(Total(g)) /\ Cardinality(Total(g)) <= Cardinality(Total(Chances))
  BY <1>1, <1>2, TotalFollows
<1> QED
  BY <1>3, FS_CardinalityType

LEMMA RoundsMove ==
    ASSUME TypeOK, TypeOK', RoundsPaid, MovesTo(Chances'), UNCHANGED <<rounds, faults, overruns>>,
           Enqueued' = Enqueued
    PROVE  RoundsPaid'
<1>1. AllRounds' = AllRounds
  BY DEF AllRounds
<1>2. /\ IsFiniteSet(Total(Chances')) /\ Cardinality(Total(Chances')) <= Cardinality(Total(Chances))
      /\ Cardinality(Total(Chances')) \in Nat /\ Cardinality(Total(Chances)) \in Nat
  BY MovedTotal, ChancesTypedNext DEF RoundsPaid
<1>3. /\ IsFiniteSet(AllRounds) /\ IsFiniteSet(Enqueued) /\ Cardinality(Enqueued) \in Nat
      /\ Cardinality(AllRounds) \in Nat
  BY FS_CardinalityType DEF RoundsPaid
<1>4. Cardinality(AllRounds') + Cardinality(Total(Chances'))
         <= Cardinality(AllRounds) + Cardinality(Total(Chances)) + 0 * MaxAttempts
  BY <1>1, <1>2, <1>3
<1>5. Cardinality(Enqueued') + faults' + overruns' >= Cardinality(Enqueued) + faults + overruns + 0
  <2>1. faults \in Nat /\ overruns \in Nat
    BY DEF TypeOK
  <2>2. Cardinality(Enqueued) + faults + overruns >= Cardinality(Enqueued) + faults + overruns + 0
    BY <1>3, <2>1
  <2> QED
    BY <2>2
<1>6. IsFiniteSet(AllRounds') /\ IsFiniteSet(Enqueued')
  BY <1>1, <1>3
<1> QED
  BY <1>2, <1>4, <1>5, <1>6, RoundsFrom

(* A fault, an overrun or a new notification grants a chain of attempts.   *)
LEMMA RoundsGranted ==
    ASSUME TypeOK, TypeOK', RoundsPaid, NEW p \in Places, MovesTo([Chances' EXCEPT ![p] = 0]),
           UNCHANGED rounds, IsFiniteSet(Enqueued'),
           Cardinality(Enqueued') + faults' + overruns' >= Cardinality(Enqueued) + faults + overruns + 1
    PROVE  RoundsPaid'
<1> DEFINE g == [Chances' EXCEPT ![p] = 0]
<1>0. Chances' \in [Places -> 0..MaxAttempts]
  BY ChancesTypedNext
<1>1. AllRounds' = AllRounds
  BY DEF AllRounds
<1>2. g \in [Places -> 0..MaxAttempts] /\ MovesTo(g)
  BY <1>0, Cleared
<1>3. /\ IsFiniteSet(Total(g)) /\ Cardinality(Total(g)) <= Cardinality(Total(Chances))
      /\ Cardinality(Total(g)) \in Nat /\ Cardinality(Total(Chances)) \in Nat
  <2> HIDE DEF g
  <2> QED
    BY <1>2, MovedTotal DEF RoundsPaid
<1>4. /\ IsFiniteSet(Total(Chances'))
      /\ Cardinality(Total(Chances')) <= Cardinality(Total(g)) + MaxAttempts
  BY <1>0, <1>3, TotalGains
<1>5. /\ IsFiniteSet(AllRounds) /\ Cardinality(AllRounds) \in Nat /\ Cardinality(Total(Chances')) \in Nat
  BY <1>4, FS_CardinalityType DEF RoundsPaid
<1> HIDE DEF g
<1>6. Cardinality(AllRounds') + Cardinality(Total(Chances'))
         <= Cardinality(AllRounds) + Cardinality(Total(Chances)) + 1 * MaxAttempts
  BY <1>1, <1>3, <1>4, <1>5
<1>7. IsFiniteSet(AllRounds')
  BY <1>1, <1>5
<1> QED
  BY <1>4, <1>6, <1>7, RoundsFrom

(* One round more.                                                         *)
LEMMA OneRound ==
    ASSUME TypeOK, NEW i \in Items, rounds' = [rounds EXCEPT ![i] = @ + 1], IsFiniteSet(AllRounds)
    PROVE  /\ IsFiniteSet(AllRounds') /\ Cardinality(AllRounds') \in Nat
           /\ Cardinality(AllRounds) \in Nat
           /\ Cardinality(AllRounds') <= Cardinality(AllRounds) + 1
<1> DEFINE x == <<i, rounds[i] + 1>>
<1>0. rounds \in [Items -> Nat]
  BY DEF TypeOK
<1>1. AllRounds' \subseteq AllRounds \cup {x}
  <2>1. ASSUME NEW j \in Items, NEW n \in 1..rounds'[j] PROVE <<j, n>> \in AllRounds \cup {x}
    <3>1. CASE j = i /\ n = rounds[i] + 1
      BY <3>1
    <3>2. CASE ~(j = i /\ n = rounds[i] + 1)
      <4>1. n \in 1..rounds[j]
        BY <1>0, <2>1, <3>2
      <4> QED
        BY <4>1 DEF AllRounds
    <3> QED
      BY <3>1, <3>2
  <2> QED
    BY <2>1 DEF AllRounds
<1>2. IsFiniteSet({x}) /\ Cardinality({x}) = 1
  BY FS_Singleton
<1> HIDE DEF x
<1>3. /\ IsFiniteSet(AllRounds') /\ Cardinality(AllRounds') \in Nat
      /\ Cardinality(AllRounds') <= Cardinality(AllRounds) + Cardinality({x})
  BY <1>1, <1>2, UnionBound
<1> QED
  BY <1>2, <1>3, FS_CardinalityType

LEMMA RoundsSent ==
    ASSUME QueueInv, TypeOK', RoundsPaid, NEW w \in Workers, NEW e \in DOMAIN stream, Send(w, e)
    PROVE  RoundsPaid'
<1>0. TypeOK
  BY DEF QueueInv
<1>1. /\ e \in Nat /\ stream[e].item \in Items /\ UNCHANGED <<stream, faults, overruns>>
      /\ rounds' = [rounds EXCEPT ![stream[e].item] = @ + 1]
  BY <1>0, StreamTyped, ItemTyped DEF Send, queue, counts
<1>2. PICK i \in Items : i = stream[e].item
  BY <1>1
<1>3. /\ IsFiniteSet(AllRounds') /\ Cardinality(AllRounds') \in Nat
      /\ Cardinality(AllRounds) \in Nat
      /\ Cardinality(AllRounds') <= Cardinality(AllRounds) + 1
  BY <1>0, <1>1, <1>2, OneRound DEF RoundsPaid
<1> DEFINE p == HeldPlace(e, w)
<1>4. /\ Chances' \in [Places -> 0..MaxAttempts] /\ Chances \in [Places -> 0..MaxAttempts]
      /\ p \in Places
  BY <1>0, <1>1, ChancesTyped, ChancesTypedNext, ThreePlaces
<1>5. /\ Chances'[p] < Chances[p]
      /\ \A q \in Places : q # p => Chances'[q] = Chances[q]
  BY SendCosts
<1>6. \A q \in Places : Chances'[q] <= Chances[q]
  <2>1. ASSUME NEW q \in Places PROVE Chances'[q] <= Chances[q]
    <3>1. Chances'[q] \in 0..MaxAttempts /\ Chances[q] \in 0..MaxAttempts
      BY <1>4
    <3> QED
      BY <1>5, <3>1
  <2> QED
    BY <2>1
<1> HIDE DEF p
<1>7. IsFiniteSet(Total(Chances')) /\ Cardinality(Total(Chances')) <= Cardinality(Total(Chances)) - 1
  BY <1>4, <1>5, <1>6, TotalLoses DEF RoundsPaid
<1>8. /\ IsFiniteSet(Enqueued) /\ Cardinality(Enqueued) \in Nat
      /\ Cardinality(Total(Chances)) \in Nat /\ Cardinality(Total(Chances')) \in Nat
  BY <1>7, FS_CardinalityType DEF RoundsPaid
<1>9. Enqueued' = Enqueued
  BY <1>1 DEF Enqueued
<1>10. Cardinality(AllRounds') + Cardinality(Total(Chances'))
         <= Cardinality(AllRounds) + Cardinality(Total(Chances)) + 0 * MaxAttempts
  BY <1>3, <1>7, <1>8
<1>11. Cardinality(Enqueued') + faults' + overruns' >= Cardinality(Enqueued) + faults + overruns + 0
  <2>1. faults \in Nat /\ overruns \in Nat
    BY <1>0 DEF TypeOK
  <2>2. Cardinality(Enqueued) + faults + overruns >= Cardinality(Enqueued) + faults + overruns + 0
    BY <1>8, <2>1
  <2> QED
    BY <1>1, <1>9, <2>2
<1>12. IsFiniteSet(Enqueued')
  BY <1>8, <1>9
<1> QED
  BY <1>0, <1>3, <1>7, <1>10, <1>11, <1>12, RoundsFrom

LEMMA RoundsLost ==
    ASSUME QueueInv, TypeOK', RoundsPaid, NEW w \in Workers, NEW e \in DOMAIN stream, DieSending(w, e)
    PROVE  RoundsPaid'
<1>0. TypeOK
  BY DEF QueueInv
<1>1. /\ stream[e].item \in Items /\ UNCHANGED <<stream, overruns>> /\ faults' = faults + 1
      /\ rounds' = [rounds EXCEPT ![stream[e].item] = @ + 1]
  BY <1>0, ItemTyped DEF DieSending, queue, Fault
<1>2. PICK i \in Items : i = stream[e].item
  BY <1>1
<1>3. /\ IsFiniteSet(AllRounds') /\ Cardinality(AllRounds') \in Nat
      /\ Cardinality(AllRounds) \in Nat
      /\ Cardinality(AllRounds') <= Cardinality(AllRounds) + 1
  BY <1>0, <1>1, <1>2, OneRound DEF RoundsPaid
<1>4. /\ IsFiniteSet(Total(Chances')) /\ Cardinality(Total(Chances')) <= Cardinality(Total(Chances))
      /\ Cardinality(Total(Chances')) \in Nat /\ Cardinality(Total(Chances)) \in Nat
  BY <1>0, DyingMoves, MovedTotal, ChancesTypedNext DEF RoundsPaid
<1>5. IsFiniteSet(Enqueued) /\ Cardinality(Enqueued) \in Nat
  BY FS_CardinalityType DEF RoundsPaid
<1>6. Enqueued' = Enqueued
  BY <1>1 DEF Enqueued
<1>7. Cardinality(AllRounds') + Cardinality(Total(Chances'))
         <= Cardinality(AllRounds) + Cardinality(Total(Chances)) + 1 * MaxAttempts
  BY <1>3, <1>4
<1>8. Cardinality(Enqueued') + faults' + overruns' >= Cardinality(Enqueued) + faults + overruns + 1
  <2>1. faults \in Nat /\ overruns \in Nat
    BY <1>0 DEF TypeOK
  <2>2. Cardinality(Enqueued) + (faults + 1) + overruns >= Cardinality(Enqueued) + faults + overruns + 1
    BY <1>5, <2>1
  <2> QED
    BY <1>1, <1>6, <2>2
<1>9. IsFiniteSet(Enqueued')
  BY <1>5, <1>6
<1> QED
  BY <1>0, <1>3, <1>4, <1>7, <1>8, <1>9, RoundsFrom

-----------------------------------------------------------------------------
(* What a step does to the account of the pushes.                          *)
Unpushed == {i \in Items : pushed[i] = 0}

LEMMA UnreachedReaching == Unreached = Reaching(Unpushed, Chances, Carried)
<1>1. \A p \in Live(Chances) : Carried[p] = ItemAt(p)
  BY DEF Live, Carried
<1> QED
  BY <1>1 DEF Unreached, Reaching, Unpushed

LEMMA UnreachedReachingNext == Unreached' = Reaching(Unpushed', Chances', Carried')
<1>1. (Unreached = Reaching(Unpushed, Chances, Carried))'
  BY UnreachedReaching, PTL
<1>2. Reaching(Unpushed, Chances, Carried)' = Reaching(Unpushed', Chances', Carried')
  BY DEF Reaching, Live
<1> QED
  BY <1>1, <1>2

LEMMA LiveNext == Live(Chances)' = Live(Chances')
BY DEF Live

LEMMA MovedLive ==
    ASSUME TypeOK, PushesPaid, NEW g \in [Places -> 0..MaxAttempts], MovesTo(g), NEW I
    PROVE  /\ IsFiniteSet(Live(g)) /\ IsFiniteSet(Reaching(I, Chances, Carried))
           /\ IsFiniteSet(Reaching(I, g, Carried'))
           /\ Cardinality(Live(g)) + Cardinality(Reaching(I, Chances, Carried))
                <= Cardinality(Live(Chances)) + Cardinality(Reaching(I, g, Carried'))
<1>1. Chances \in [Places -> Nat] /\ g \in [Places -> Nat]
  <2>1. Chances \in [Places -> 0..MaxAttempts] /\ 0..MaxAttempts \subseteq Nat
    BY ChancesTyped
  <2> QED
    BY <2>1
<1>2. PICK m : Follows(Chances, g, m) /\ \A p \in Live(g) : Carried'[p] = Carried[m[p]]
  BY DEF MovesTo
<1>3. IsFiniteSet(Live(Chances))
  BY DEF PushesPaid
<1> QED
  BY <1>1, <1>2, <1>3, LiveFollows

(* k is how many faults or overruns a step adds.                           *)
Troubles(k) ==
    \/ k = 0 /\ UNCHANGED <<faults, overruns>>
    \/ k = 1 /\ faults' = faults + 1 /\ UNCHANGED overruns
    \/ k = 1 /\ overruns' = overruns + 1 /\ UNCHANGED faults

LEMMA TroublesAdd ==
    ASSUME TypeOK, TypeOK', NEW k \in {0, 1}, Troubles(k)
    PROVE  /\ faults + overruns \in Nat /\ faults' + overruns' \in Nat
           /\ faults' + overruns' = faults + overruns + k
<1>1. faults \in Nat /\ overruns \in Nat /\ faults' \in Nat /\ overruns' \in Nat
  BY DEF TypeOK
<1>3. CASE k = 0 /\ UNCHANGED <<faults, overruns>>
  BY <1>1, <1>3
<1>4. CASE k = 1 /\ faults' = faults + 1 /\ UNCHANGED overruns
  BY <1>1, <1>4
<1>5. CASE k = 1 /\ overruns' = overruns + 1 /\ UNCHANGED faults
  BY <1>1, <1>5
<1> QED
  BY <1>3, <1>4, <1>5 DEF Troubles

LEMMA PushesFrom ==
    ASSUME TypeOK, TypeOK', PushesPaid,
           IsFiniteSet(Live(Chances')), IsFiniteSet(RepeatedPushes'), IsFiniteSet(Unreached'),
           NEW k \in {0, 1}, Troubles(k),
           Cardinality(RepeatedPushes') + Cardinality(Live(Chances')) + Cardinality(Unreached)
              <= Cardinality(RepeatedPushes) + Cardinality(Live(Chances)) + Cardinality(Unreached') + k
    PROVE  PushesPaid'
<1>1. /\ Cardinality(RepeatedPushes) \in Nat /\ Cardinality(Live(Chances)) \in Nat
      /\ Cardinality(Unreached) \in Nat
      /\ Cardinality(RepeatedPushes') \in Nat /\ Cardinality(Live(Chances')) \in Nat
      /\ Cardinality(Unreached') \in Nat
  BY FS_CardinalityType DEF PushesPaid
<1>2. faults \in Nat /\ overruns \in Nat /\ faults' \in Nat /\ overruns' \in Nat
  BY DEF TypeOK
<1>3. Cardinality(RepeatedPushes) + Cardinality(Live(Chances))
         <= Cardinality(Unreached) + faults + overruns
  BY DEF PushesPaid
<1> DEFINE F == faults + overruns
           G == faults' + overruns'
<1>4. Cardinality(RepeatedPushes') + Cardinality(Live(Chances'))
         <= Cardinality(Unreached') + faults' + overruns'
  <2>1. F \in Nat /\ G \in Nat /\ G = F + k
    BY TroublesAdd
  <2>2. Cardinality(RepeatedPushes) + Cardinality(Live(Chances)) <= Cardinality(Unreached) + F
    BY <1>1, <1>2, <1>3
  <2>3. Cardinality(Unreached') + G = Cardinality(Unreached') + faults' + overruns'
    BY <1>1, <1>2
  <2> HIDE DEF F, G
  <2>4. Cardinality(RepeatedPushes') + Cardinality(Live(Chances')) <= Cardinality(Unreached') + G
    BY <1>1, <2>1, <2>2
  <2> QED
    BY <2>3, <2>4
<1> QED
  BY <1>4, LiveNext DEF PushesPaid

LEMMA PushesMove ==
    ASSUME TypeOK, TypeOK', PushesPaid, MovesTo(Chances'), UNCHANGED <<pushed, faults, overruns>>
    PROVE  PushesPaid'
<1>1. RepeatedPushes' = RepeatedPushes /\ Unpushed' = Unpushed
  BY DEF RepeatedPushes, Unpushed
<1>2. /\ IsFiniteSet(Live(Chances')) /\ IsFiniteSet(Unreached')
      /\ Cardinality(Live(Chances')) + Cardinality(Unreached)
           <= Cardinality(Live(Chances)) + Cardinality(Unreached')
  BY <1>1, MovedLive, ChancesTypedNext, UnreachedReaching, UnreachedReachingNext
<1>3. IsFiniteSet(RepeatedPushes)
  BY DEF PushesPaid
<1>4. /\ Cardinality(RepeatedPushes) \in Nat /\ Cardinality(Live(Chances)) \in Nat
      /\ Cardinality(Unreached) \in Nat /\ Cardinality(Live(Chances')) \in Nat
      /\ Cardinality(Unreached') \in Nat
  BY <1>2, FS_CardinalityType DEF PushesPaid
<1>5. Cardinality(RepeatedPushes') + Cardinality(Live(Chances')) + Cardinality(Unreached)
         <= Cardinality(RepeatedPushes) + Cardinality(Live(Chances)) + Cardinality(Unreached') + 0
  BY <1>1, <1>2, <1>4
<1>6. Troubles(0)
  BY DEF Troubles
<1>7. IsFiniteSet(RepeatedPushes')
  BY <1>1, <1>3
<1> QED
  BY <1>2, <1>5, <1>6, <1>7, PushesFrom

(* A place more ...                                                        *)
LEMMA LiveGains ==
    ASSUME NEW c \in [Places -> 0..MaxAttempts], NEW p \in Places, NEW g,
           g = [c EXCEPT ![p] = 0], IsFiniteSet(Live(g))
    PROVE  IsFiniteSet(Live(c)) /\ Cardinality(Live(c)) <= Cardinality(Live(g)) + 1
<1>1. Live(c) \subseteq Live(g) \cup {p}
  BY DEF Live
<1>2. IsFiniteSet({p}) /\ Cardinality({p}) = 1
  BY FS_Singleton
<1>3. IsFiniteSet(Live(c)) /\ Cardinality(Live(c)) <= Cardinality(Live(g)) + Cardinality({p})
  BY <1>1, <1>2, UnionBound
<1> QED
  BY <1>2, <1>3

(* ... is paid by a fault or an overrun ...                                *)
LEMMA PushesGranted ==
    ASSUME TypeOK, TypeOK', PushesPaid, NEW p \in Places, MovesTo([Chances' EXCEPT ![p] = 0]),
           UNCHANGED pushed, Troubles(1)
    PROVE  PushesPaid'
<1> DEFINE g == [Chances' EXCEPT ![p] = 0]
<1>0. Chances' \in [Places -> 0..MaxAttempts]
  BY ChancesTypedNext
<1>1. RepeatedPushes' = RepeatedPushes /\ Unpushed' = Unpushed
  BY DEF RepeatedPushes, Unpushed
<1>2. /\ g \in [Places -> 0..MaxAttempts] /\ MovesTo(g)
      /\ \A q \in Places : g[q] = IF q = p THEN 0 ELSE Chances'[q]
  BY <1>0, Cleared
<1>3. /\ IsFiniteSet(Live(g)) /\ IsFiniteSet(Reaching(Unpushed, g, Carried'))
      /\ Cardinality(Live(g)) + Cardinality(Unreached)
           <= Cardinality(Live(Chances)) + Cardinality(Reaching(Unpushed, g, Carried'))
  <2> HIDE DEF g
  <2> QED
    BY <1>2, MovedLive, UnreachedReaching
<1>4. IsFiniteSet(Live(Chances')) /\ Cardinality(Live(Chances')) <= Cardinality(Live(g)) + 1
  BY <1>0, <1>3, LiveGains
<1> HIDE DEF g
<1>5. Live(g) \subseteq Live(Chances')
  BY <1>0, <1>2 DEF Live
<1>6. Reaching(Unpushed, g, Carried') \in SUBSET Unreached'
  BY <1>1, <1>5, UnreachedReachingNext DEF Reaching
<1>7. IsFiniteSet(Unreached')
  <2>1. Unreached' \in SUBSET {Carried'[q] : q \in Live(Chances')}
    BY UnreachedReachingNext DEF Reaching
  <2>2. IsFiniteSet({Carried'[q] : q \in Live(Chances')})
    BY <1>4, ImageBound
  <2> QED
    BY <2>1, <2>2, FS_Subset
<1>8. Cardinality(Reaching(Unpushed, g, Carried')) <= Cardinality(Unreached')
  BY <1>6, <1>7, FS_Subset
<1>9. /\ Cardinality(RepeatedPushes) \in Nat /\ Cardinality(Live(Chances)) \in Nat
      /\ Cardinality(Unreached) \in Nat /\ Cardinality(Live(Chances')) \in Nat
      /\ Cardinality(Unreached') \in Nat /\ Cardinality(Live(g)) \in Nat
      /\ Cardinality(Reaching(Unpushed, g, Carried')) \in Nat
  BY <1>3, <1>4, <1>7, FS_CardinalityType DEF PushesPaid
<1>10. Cardinality(RepeatedPushes) + Cardinality(Live(Chances')) + Cardinality(Unreached)
         <= Cardinality(RepeatedPushes) + Cardinality(Live(Chances)) + Cardinality(Unreached') + 1
  BY <1>3, <1>4, <1>8, <1>9
<1>12. IsFiniteSet(RepeatedPushes')
  BY <1>1 DEF PushesPaid
<1> QED
  BY <1>1, <1>4, <1>7, <1>10, <1>12, PushesFrom

(* What has attempts left is a notification that was enqueued.             *)
LEMMA LiveEnqueued ==
    ASSUME TypeOK, OnlyEnqueued, NEW p \in Live(Chances)
    PROVE  Carried[p] \in Enqueued
<1>0. p \in Places /\ Chances[p] # 0
  <2>1. Chances[p] > 0 /\ p \in Places
    BY DEF Live
  <2> QED
    BY <2>1
<1>1. ASSUME NEW e \in Nat, p = FreePlace(e) PROVE Carried[p] \in Enqueued
  <2>1. e \in DOMAIN stream
    BY <1>0, <1>1, ChancesAt DEF AsPlaced, FreeChances
  <2> QED
    BY <1>1, <2>1, ChancesAt DEF AsPlaced, Enqueued
<1>2. ASSUME NEW e \in Nat, NEW w \in Workers, p = HeldPlace(e, w) PROVE Carried[p] \in Enqueued
  <2>1. e \in batch[w]
    BY <1>0, <1>2, ChancesAt DEF AsPlaced, HeldChances, Unsent, Unretried
  <2>2. e \in DOMAIN stream
    BY <2>1, StreamTyped
  <2> QED
    BY <1>2, <2>2, ChancesAt DEF AsPlaced, Enqueued
<1>3. ASSUME NEW d \in Entry, NEW n \in Nat, p = DelayedPlace(d, n) PROVE Carried[p] \in Enqueued
  <2>1. n \in 1..delayed[d] /\ delayed[d] \in Nat
    BY <1>0, <1>3, ChancesAt DEF AsPlaced, DelayedChances, TypeOK
  <2>2. delayed[d] > 0
    BY <2>1
  <2> QED
    BY <1>3, <2>2, ChancesAt DEF AsPlaced, OnlyEnqueued
<1> QED
  BY <1>0, <1>1, <1>2, <1>3, ThreePlaces

(* The place of a new notification comes with a notification that can be   *)
(* reached.                                                                *)
LEMMA EnqueuePushes ==
    ASSUME TypeOK, TypeOK', OnlyEnqueued, PushesPaid, NEW i \in Items, Enqueue(i)
    PROVE  PushesPaid'
<1>a. PICK e \in Nat : e = Len(stream) + 1
  BY StreamTyped
<1>b. PICK d \in Entry : stream' = Append(stream, d) /\ d.item = i /\ d.attempts = 0
  <2>1. [item |-> i, attempts |-> 0] \in Entry
    BY EntryOfItem
  <2> QED
    BY <2>1 DEF Enqueue
<1>c. /\ i \notin Enqueued
      /\ UNCHANGED <<lastRead, pending, idle, batch, at, results, pushed, faults, overruns>>
  BY DEF Enqueue, worker, log, counts
<1> DEFINE p == FreePlace(e)
           g == [Chances' EXCEPT ![p] = 0]
<1>0. Chances' \in [Places -> 0..MaxAttempts] /\ p \in Places
  BY ChancesTypedNext, ThreePlaces
<1>1. RepeatedPushes' = RepeatedPushes /\ Unpushed' = Unpushed
  BY <1>c DEF RepeatedPushes, Unpushed
<1>2. /\ g \in [Places -> 0..MaxAttempts] /\ MovesTo(g)
      /\ \A q \in Places : g[q] = IF q = p THEN 0 ELSE Chances'[q]
  BY <1>0, <1>a, Cleared, EnqueueMoves
<1>3. /\ IsFiniteSet(Live(g)) /\ IsFiniteSet(Reaching(Unpushed, g, Carried'))
      /\ Cardinality(Live(g)) + Cardinality(Unreached)
           <= Cardinality(Live(Chances)) + Cardinality(Reaching(Unpushed, g, Carried'))
  <2> HIDE DEF g
  <2> QED
    BY <1>2, MovedLive, UnreachedReaching
<1>4. IsFiniteSet(Live(Chances')) /\ Cardinality(Live(Chances')) <= Cardinality(Live(g)) + 1
  <2> HIDE DEF p
  <2> QED
    BY <1>0, <1>3, LiveGains
<1> HIDE DEF g
<1>5. Live(g) \subseteq Live(Chances')
  BY <1>0, <1>2 DEF Live
<1>6. i \in Unreached'
  <2>1. /\ Chances'[p] = MaxAttempts - d.attempts
        /\ Carried'[p] = i
    BY <1>a, <1>b, <1>c, AppendKeeps, ChancesAtNext DEF AsPlaced
  <2>2. p \in Live(Chances')
    BY <1>0, <1>b, <2>1 DEF Live
  <2>3. i \in Unpushed
    <3>1. ~(pushed[i] > 0) /\ pushed[i] \in Nat
      BY <1>c DEF OnlyEnqueued, TypeOK
    <3> QED
      BY <3>1 DEF Unpushed
  <2> QED
    BY <1>1, <2>1, <2>2, <2>3, UnreachedReachingNext DEF Reaching
<1>7. i \notin Reaching(Unpushed, g, Carried')
  <2>1. SUFFICES ASSUME NEW q \in Live(g), Carried'[q] = i PROVE FALSE
    BY DEF Reaching
  <2>2. PICK m : Follows(Chances, g, m) /\ \A x \in Live(g) : Carried'[x] = Carried[m[x]]
    BY <1>2 DEF MovesTo
  <2>3. q \in Places /\ g[q] > 0 /\ g[q] <= Chances[m[q]] /\ m[q] \in Places
    BY <2>2 DEF Live, Follows
  <2>4. g[q] \in Nat /\ Chances[m[q]] \in Nat
    BY <1>2, <2>3, ChancesTyped
  <2>5. m[q] \in Live(Chances)
    BY <2>3, <2>4 DEF Live
  <2>6. Carried[m[q]] = i
    BY <2>1, <2>2
  <2> QED
    BY <1>c, <2>5, <2>6, LiveEnqueued
<1>8. Reaching(Unpushed, g, Carried') \in SUBSET (Unreached' \ {i})
  BY <1>1, <1>5, <1>7, UnreachedReachingNext DEF Reaching
<1>9. IsFiniteSet(Unreached')
  <2>1. Unreached' \in SUBSET {Carried'[q] : q \in Live(Chances')}
    BY UnreachedReachingNext DEF Reaching
  <2>2. IsFiniteSet({Carried'[q] : q \in Live(Chances')})
    BY <1>4, ImageBound
  <2> QED
    BY <2>1, <2>2, FS_Subset
<1>10. /\ IsFiniteSet(Unreached' \ {i})
       /\ Cardinality(Unreached' \ {i}) = Cardinality(Unreached') - 1
  BY <1>6, <1>9, FS_RemoveElement
<1>11. Cardinality(Reaching(Unpushed, g, Carried')) <= Cardinality(Unreached') - 1
  BY <1>8, <1>10, FS_Subset
<1>12. /\ Cardinality(RepeatedPushes) \in Nat /\ Cardinality(Live(Chances)) \in Nat
       /\ Cardinality(Unreached) \in Nat /\ Cardinality(Live(Chances')) \in Nat
       /\ Cardinality(Unreached') \in Nat /\ Cardinality(Live(g)) \in Nat
       /\ Cardinality(Reaching(Unpushed, g, Carried')) \in Nat
  BY <1>3, <1>4, <1>9, FS_CardinalityType DEF PushesPaid
<1>13. Cardinality(RepeatedPushes') + Cardinality(Live(Chances')) + Cardinality(Unreached)
         <= Cardinality(RepeatedPushes) + Cardinality(Live(Chances)) + Cardinality(Unreached') + 0
  BY <1>1, <1>3, <1>4, <1>11, <1>12
<1>14. IsFiniteSet(RepeatedPushes')
  BY <1>1 DEF PushesPaid
<1>15. Troubles(0)
  BY <1>c DEF Troubles
<1> QED
  BY <1>4, <1>9, <1>13, <1>14, <1>15, PushesFrom

(* A push that is not the first counts as repeated.                        *)
LEMMA OnePush ==
    ASSUME TypeOK, NEW i \in Items, pushed' = [pushed EXCEPT ![i] = @ + 1],
           IsFiniteSet(RepeatedPushes)
    PROVE  /\ IsFiniteSet(RepeatedPushes')
           /\ pushed[i] = 0 => Cardinality(RepeatedPushes') <= Cardinality(RepeatedPushes)
           /\ Cardinality(RepeatedPushes') <= Cardinality(RepeatedPushes) + 1
<1> DEFINE x == <<i, pushed[i] + 1>>
<1>0. pushed \in [Items -> Nat]
  BY DEF TypeOK
<1>1. ASSUME NEW j \in Items, NEW n \in 2..pushed'[j], j # i \/ n # pushed[i] + 1
      PROVE  <<j, n>> \in RepeatedPushes
  <2>1. n \in 2..pushed[j]
    BY <1>0, <1>1
  <2> QED
    BY <2>1 DEF RepeatedPushes
<1>2. RepeatedPushes' \subseteq RepeatedPushes \cup {x}
  <2>1. ASSUME NEW j \in Items, NEW n \in 2..pushed'[j] PROVE <<j, n>> \in RepeatedPushes \cup {x}
    BY <1>1
  <2> QED
    BY <2>1 DEF RepeatedPushes
<1>3. pushed[i] = 0 => RepeatedPushes' \in SUBSET RepeatedPushes
  <2>1. ASSUME pushed[i] = 0, NEW j \in Items, NEW n \in 2..pushed'[j]
        PROVE  <<j, n>> \in RepeatedPushes
    <3>1. n \in Nat /\ n >= 2
      BY <1>0
    <3> QED
      BY <1>1, <2>1, <3>1
  <2> QED
    BY <2>1 DEF RepeatedPushes
<1>4. IsFiniteSet({x}) /\ Cardinality({x}) = 1
  BY FS_Singleton
<1> HIDE DEF x
<1>5. /\ IsFiniteSet(RepeatedPushes')
      /\ Cardinality(RepeatedPushes') <= Cardinality(RepeatedPushes) + Cardinality({x})
  BY <1>2, <1>4, UnionBound
<1>6. pushed[i] = 0 => Cardinality(RepeatedPushes') <= Cardinality(RepeatedPushes)
  BY <1>3, FS_Subset
<1> QED
  BY <1>4, <1>5, <1>6

(* A push uses the attempts of the entry up: it was the first, or there    *)
(* was one place more than notifications to reach.                         *)
LEMMA PushesSent ==
    ASSUME QueueInv, TypeOK', PushesPaid, NEW w \in Workers, NEW e \in DOMAIN stream, Send(w, e)
    PROVE  PushesPaid'
<1>0. TypeOK
  BY DEF QueueInv
<1>1. /\ e \in Nat /\ stream[e].item \in Items /\ UNCHANGED <<faults, overruns>> /\ e \in batch[w]
  BY <1>0, StreamTyped, ItemTyped DEF Send, counts, Busy
<1>2. PICK i \in Items : i = stream[e].item
  BY <1>1
<1>3. PICK p \in Places : p = HeldPlace(e, w)
  BY <1>1, ThreePlaces
<1>4. /\ Chances' \in [Places -> 0..MaxAttempts] /\ Chances \in [Places -> 0..MaxAttempts]
      /\ MovesTo(Chances') /\ Carried' = Carried
      /\ \A q \in Places : q # p => Chances'[q] = Chances[q]
      /\ Chances'[p] < Chances[p] /\ (Reached(results'[w]) => Chances'[p] = 0)
      /\ Carried[p] = i
  BY <1>0, <1>1, <1>2, <1>3, ChancesTyped, ChancesTypedNext, SendCosts, ChancesAt DEF AsPlaced
<1>5. CASE ~Reached(results'[w])
  <2>1. UNCHANGED pushed
    <3>1. PICK r \in Results :
             /\ results' = [results EXCEPT ![w] = r]
             /\ pushed' = [pushed EXCEPT ![stream[e].item] = IF Reached(r) THEN @ + 1 ELSE @]
      BY DEF Send
    <3>2. results'[w] = r
      BY <1>0, <3>1 DEF TypeOK
    <3>3. pushed' = [pushed EXCEPT ![stream[e].item] = @]
      BY <1>5, <3>1, <3>2
    <3> QED
      BY <1>0, <3>3 DEF TypeOK
  <2> QED
    BY <1>0, <1>1, <1>4, <2>1, PushesMove
<1>6. CASE Reached(results'[w])
  <2>1. pushed' = [pushed EXCEPT ![i] = @ + 1]
    <3>1. PICK r \in Results :
             /\ results' = [results EXCEPT ![w] = r]
             /\ pushed' = [pushed EXCEPT ![stream[e].item] = IF Reached(r) THEN @ + 1 ELSE @]
      BY DEF Send
    <3>2. results'[w] = r
      BY <1>0, <3>1 DEF TypeOK
    <3> QED
      BY <1>2, <1>6, <3>1, <3>2
  <2>2. /\ IsFiniteSet(RepeatedPushes')
        /\ pushed[i] = 0 => Cardinality(RepeatedPushes') <= Cardinality(RepeatedPushes)
        /\ Cardinality(RepeatedPushes') <= Cardinality(RepeatedPushes) + 1
    BY <1>0, <2>1, OnePush DEF PushesPaid
  <2>3. /\ p \in Live(Chances) /\ p \notin Live(Chances')
        /\ \A q \in Live(Chances) : q # p => q \in Live(Chances')
    <3>1. Chances[p] > 0
      BY <1>4
    <3> QED
      BY <1>4, <1>6, <3>1 DEF Live
  <2>4. Live(Chances') \in SUBSET (Live(Chances) \ {p})
    <3>1. ASSUME NEW q \in Live(Chances') PROVE q \in Live(Chances) \ {p}
      BY <1>4, <2>3 DEF Live
    <3> QED
      BY <3>1
  <2>5. /\ IsFiniteSet(Live(Chances) \ {p})
        /\ Cardinality(Live(Chances) \ {p}) = Cardinality(Live(Chances)) - 1
    BY <2>3, FS_RemoveElement DEF PushesPaid
  <2>6. IsFiniteSet(Live(Chances')) /\ Cardinality(Live(Chances')) <= Cardinality(Live(Chances)) - 1
    BY <2>4, <2>5, FS_Subset
  <2>7. IsFiniteSet(Unreached')
    <3>1. Unreached' \in SUBSET {Carried'[q] : q \in Live(Chances')}
      BY UnreachedReachingNext DEF Reaching
    <3>2. IsFiniteSet({Carried'[q] : q \in Live(Chances')})
      BY <2>6, ImageBound
    <3> QED
      BY <3>1, <3>2, FS_Subset
  <2>8. ASSUME NEW x \in Unreached, x # i PROVE x \in Unreached'
    <3>1. x \in Unpushed /\ \E q \in Live(Chances) : Carried[q] = x
      BY UnreachedReaching DEF Reaching
    <3>2. PICK q \in Live(Chances) : Carried[q] = x
      BY <3>1
    <3>3. q \in Live(Chances') /\ Carried'[q] = x
      BY <1>4, <2>3, <2>8, <3>2
    <3>4. x \in Unpushed'
      BY <1>0, <2>1, <2>8, <3>1 DEF Unpushed, TypeOK
    <3> QED
      BY <3>3, <3>4, UnreachedReachingNext DEF Reaching
  <2>9. /\ Cardinality(Unreached) <= Cardinality(Unreached') + 1
        /\ pushed[i] # 0 => Cardinality(Unreached) <= Cardinality(Unreached')
    <3>1. Unreached \subseteq Unreached' \cup {i}
      BY <2>8
    <3>2. IsFiniteSet({i}) /\ Cardinality({i}) = 1
      BY FS_Singleton
    <3>3. Cardinality(Unreached) <= Cardinality(Unreached') + Cardinality({i})
      BY <2>7, <3>1, <3>2, UnionBound
    <3>4. pushed[i] # 0 => Unreached \in SUBSET Unreached'
      BY <2>8, UnreachedReaching DEF Reaching, Unpushed
    <3>5. pushed[i] # 0 => Cardinality(Unreached) <= Cardinality(Unreached')
      BY <2>7, <3>4, FS_Subset
    <3> QED
      BY <3>2, <3>3, <3>5
  <2>10. /\ Cardinality(RepeatedPushes) \in Nat /\ Cardinality(Live(Chances)) \in Nat
         /\ Cardinality(Unreached) \in Nat /\ Cardinality(Live(Chances')) \in Nat
         /\ Cardinality(Unreached') \in Nat /\ Cardinality(RepeatedPushes') \in Nat
    BY <2>2, <2>6, <2>7, FS_CardinalityType DEF PushesPaid
  <2>11. Cardinality(RepeatedPushes') + Cardinality(Unreached)
            <= Cardinality(RepeatedPushes) + Cardinality(Unreached') + 1
    <3>1. CASE pushed[i] = 0
      BY <2>2, <2>9, <2>10, <3>1
    <3>2. CASE pushed[i] # 0
      BY <2>2, <2>9, <2>10, <3>2
    <3> QED
      BY <3>1, <3>2
  <2>12. Cardinality(RepeatedPushes') + Cardinality(Live(Chances')) + Cardinality(Unreached)
         <= Cardinality(RepeatedPushes) + Cardinality(Live(Chances)) + Cardinality(Unreached') + 0
    BY <2>6, <2>10, <2>11
  <2>13. Troubles(0)
    BY <1>1 DEF Troubles
  <2> QED
    BY <1>0, <2>2, <2>6, <2>7, <2>12, <2>13, PushesFrom
<1> QED
  BY <1>5, <1>6

(* A worker that dies sending keeps the attempts; the fault pays for the   *)
(* push nobody recorded.                                                   *)
LEMMA PushesLost ==
    ASSUME QueueInv, TypeOK', PushesPaid, NEW w \in Workers, NEW e \in DOMAIN stream, DieSending(w, e)
    PROVE  PushesPaid'
<1>0. TypeOK
  BY DEF QueueInv
<1>1. /\ stream[e].item \in Items /\ Troubles(1)
      /\ pushed' = pushed \/ pushed' = [pushed EXCEPT ![stream[e].item] = @ + 1]
  BY <1>0, ItemTyped DEF DieSending, Fault, Troubles
<1>2. PICK i \in Items : i = stream[e].item
  BY <1>1
<1>3. Chances' \in [Places -> 0..MaxAttempts] /\ MovesTo(Chances')
  BY DyingMoves, ChancesTypedNext
<1>4. /\ IsFiniteSet(Live(Chances')) /\ IsFiniteSet(Reaching(Unpushed, Chances', Carried'))
      /\ Cardinality(Live(Chances')) + Cardinality(Unreached)
           <= Cardinality(Live(Chances)) + Cardinality(Reaching(Unpushed, Chances', Carried'))
  BY <1>0, <1>3, MovedLive, UnreachedReaching
<1>5. IsFiniteSet(Unreached')
  <2>1. Unreached' \in SUBSET {Carried'[q] : q \in Live(Chances')}
    BY UnreachedReachingNext DEF Reaching
  <2>2. IsFiniteSet({Carried'[q] : q \in Live(Chances')})
    BY <1>4, ImageBound
  <2> QED
    BY <2>1, <2>2, FS_Subset
<1>6. /\ IsFiniteSet(RepeatedPushes')
      /\ Cardinality(RepeatedPushes') + Cardinality(Reaching(Unpushed, Chances', Carried'))
           <= Cardinality(RepeatedPushes) + Cardinality(Unreached') + 1
  <2>1. CASE pushed' = pushed
    <3>1. RepeatedPushes' = RepeatedPushes /\ Unpushed' = Unpushed
      BY <2>1 DEF RepeatedPushes, Unpushed
    <3>2. Reaching(Unpushed, Chances', Carried') = Unreached'
      BY <3>1, UnreachedReachingNext
    <3>3. Cardinality(RepeatedPushes) \in Nat /\ Cardinality(Unreached') \in Nat
      BY <1>5, FS_CardinalityType DEF PushesPaid
    <3>4. IsFiniteSet(RepeatedPushes')
      BY <3>1 DEF PushesPaid
    <3> QED
      BY <3>1, <3>2, <3>3, <3>4
  <2>2. CASE pushed' = [pushed EXCEPT ![i] = @ + 1]
    <3>1. /\ IsFiniteSet(RepeatedPushes')
          /\ pushed[i] = 0 => Cardinality(RepeatedPushes') <= Cardinality(RepeatedPushes)
          /\ Cardinality(RepeatedPushes') <= Cardinality(RepeatedPushes) + 1
      BY <1>0, <2>2, OnePush DEF PushesPaid
    <3> DEFINE R == Reaching(Unpushed, Chances', Carried')
    <3>2. R \subseteq Unreached' \cup {i}
      <4>1. \A x \in Unpushed : x # i => x \in Unpushed'
        BY <1>0, <2>2 DEF Unpushed, TypeOK
      <4> QED
        BY <4>1, UnreachedReachingNext DEF Reaching
    <3>3. pushed[i] # 0 => R \in SUBSET Unreached'
      <4>1. pushed[i] # 0 => \A x \in Unpushed : x \in Unpushed'
        BY <1>0, <2>2 DEF Unpushed, TypeOK
      <4> QED
        BY <4>1, UnreachedReachingNext DEF Reaching
    <3> HIDE DEF R
    <3>4. IsFiniteSet({i}) /\ Cardinality({i}) = 1
      BY FS_Singleton
    <3>5. Cardinality(R) <= Cardinality(Unreached') + Cardinality({i})
      BY <1>5, <3>2, <3>4, UnionBound
    <3>6. pushed[i] # 0 => Cardinality(R) <= Cardinality(Unreached')
      BY <1>5, <3>3, FS_Subset
    <3>7. /\ Cardinality(RepeatedPushes) \in Nat /\ Cardinality(RepeatedPushes') \in Nat
          /\ Cardinality(Unreached') \in Nat /\ Cardinality(R) \in Nat
      BY <1>4, <1>5, <3>1, FS_CardinalityType DEF PushesPaid, R
    <3>8. CASE pushed[i] = 0
      BY <3>1, <3>4, <3>5, <3>7, <3>8 DEF R
    <3>9. CASE pushed[i] # 0
      BY <3>1, <3>6, <3>7, <3>9 DEF R
    <3> QED
      BY <3>8, <3>9
  <2> QED
    BY <1>1, <1>2, <2>1, <2>2
<1>7. /\ Cardinality(RepeatedPushes) \in Nat /\ Cardinality(Live(Chances)) \in Nat
      /\ Cardinality(Unreached) \in Nat /\ Cardinality(Live(Chances')) \in Nat
      /\ Cardinality(Unreached') \in Nat /\ Cardinality(RepeatedPushes') \in Nat
      /\ Cardinality(Reaching(Unpushed, Chances', Carried')) \in Nat
  BY <1>4, <1>5, <1>6, FS_CardinalityType DEF PushesPaid
<1>8. Cardinality(RepeatedPushes') + Cardinality(Live(Chances')) + Cardinality(Unreached)
         <= Cardinality(RepeatedPushes) + Cardinality(Live(Chances)) + Cardinality(Unreached') + 1
  BY <1>4, <1>6, <1>7
<1> QED
  BY <1>0, <1>1, <1>4, <1>5, <1>6, <1>8, PushesFrom

-----------------------------------------------------------------------------
PaidInv == QueueInv /\ IdleHoldsNothing /\ OnlyEnqueued /\ RoundsPaid /\ PushesPaid

LEMMA IdleHoldsStep ==
    ASSUME TypeOK, IdleHoldsNothing, [Next]_vars
    PROVE  IdleHoldsNothing'
<1>0. batch \in [Workers -> SUBSET (1..lastRead)] /\ at \in [Workers -> Location]
  BY DEF TypeOK
<1>1. CASE UNCHANGED <<batch, at>>
  BY <1>1 DEF IdleHoldsNothing
<1>2. ASSUME NEW w \in Workers, NEW S, Continue(w, S) PROVE IdleHoldsNothing'
  BY <1>0, <1>2 DEF Continue, IdleHoldsNothing
<1>3. ASSUME NEW w \in Workers, NEW l \in {"send", "record", "retry", "ack"}, Goto(w, l)
      PROVE  IdleHoldsNothing'
  BY <1>0, <1>3 DEF Goto, IdleHoldsNothing
<1>4. ASSUME NEW w \in Workers, NEW e \in DOMAIN stream, WorkerStep(w, e) PROVE IdleHoldsNothing'
  <2>1. CASE Park(w, e) \/ FindOnline(w, e) \/ FindOffline(w, e) \/ FindNoDevice(w, e)
               \/ Send(w, e) \/ Retry(w, e)
    <3>1. Goto(w, "ack") \/ Goto(w, "send") \/ Goto(w, "record")
      BY <2>1 DEF Park, FindOnline, FindOffline, FindNoDevice, Send, Retry
    <3> QED
      BY <1>3, <3>1
  <2>2. CASE Record(w, e)
    BY <1>1, <1>3, <2>2 DEF Record, NextAnswer
  <2>3. CASE Ack(w, e)
    BY <1>2, <2>3 DEF Ack
  <2> QED
    BY <1>4, <2>1, <2>2, <2>3 DEF WorkerStep
<1>5. CASE \E w \in Workers : Reclaim(w) \/ ReadNew(w) \/ Abandon(w)
  BY <1>2, <1>5 DEF Reclaim, ReadNew, Abandon
<1>6. CASE \E w \in Workers, e \in DOMAIN stream : DieSending(w, e)
  BY <1>2, <1>6 DEF DieSending
<1> QED
  BY <1>1, <1>4, <1>5, <1>6
     DEF Next, Enqueue, Promote, OrphanIdles, HolderOverruns, worker, vars

(* Only an enqueue adds a notification, and only what was enqueued is      *)
(* delayed or pushed.                                                      *)
LEMMA EnqueuedStep ==
    ASSUME QueueInv, OnlyEnqueued, [Next]_vars, TypeOK'
    PROVE  /\ OnlyEnqueued'
           /\ \A i \in Items : Enqueue(i) => Enqueued' = Enqueued \cup {i}
           /\ ~(\E i \in Items : Enqueue(i)) => Enqueued' = Enqueued
<1>0. /\ TypeOK /\ delayed \in [Entry -> Nat] /\ pushed \in [Items -> Nat]
      /\ \A e \in DOMAIN stream : stream[e].item \in Items /\ stream[e].item \in Enqueued
  BY ItemTyped DEF QueueInv, TypeOK, Enqueued
<1>1. ASSUME NEW d \in Entry, stream' = Append(stream, d) PROVE Enqueued' = Enqueued \cup {d.item}
  <2>1. PICK e \in Nat : e = Len(stream) + 1
    BY StreamTyped, <1>0
  <2>2. /\ DOMAIN stream = 1..Len(stream) /\ Len(stream) \in Nat /\ DOMAIN stream' = 1..e
        /\ \A f \in DOMAIN stream : stream'[f] = stream[f]
        /\ stream'[e] = d
    BY <1>0, <1>1, <2>1, AppendTyped, StreamTyped
  <2>3. e \in DOMAIN stream' /\ \A f \in DOMAIN stream' : f \in DOMAIN stream \/ f = e
    BY <2>1, <2>2
  <2>4. \A f \in DOMAIN stream : f \in DOMAIN stream'
    BY <2>1, <2>2
  <2> QED
    BY <2>2, <2>3, <2>4 DEF Enqueued
<1>2. ASSUME UNCHANGED stream PROVE Enqueued' = Enqueued
  BY <1>2 DEF Enqueued
<1>3. ASSUME NEW i \in Items, Enqueue(i)
      PROVE  Enqueued' = Enqueued \cup {i} /\ UNCHANGED <<delayed, pushed>>
  <2>1. PICK d \in Entry : stream' = Append(stream, d) /\ d.item = i
    <3>1. [item |-> i, attempts |-> 0] \in Entry
      BY EntryOfItem
    <3> QED
      BY <1>3, <3>1 DEF Enqueue
  <2> QED
    BY <1>1, <1>3, <2>1 DEF Enqueue, log
<1>4. ASSUME NEW w \in Workers, NEW d \in Entry, Promote(w, d)
      PROVE  Enqueued' = Enqueued /\ OnlyEnqueued'
  <2>1. d.item \in Enqueued
    BY <1>4 DEF Promote, OnlyEnqueued
  <2>2. Enqueued' = Enqueued
    BY <1>1, <1>4, <2>1 DEF Promote
  <2>3. \A x \in Entry : delayed'[x] > 0 => delayed[x] > 0
    <3>1. ASSUME NEW x \in Entry, delayed'[x] > 0 PROVE delayed[x] > 0
      BY <1>0, <1>4, <3>1 DEF Promote
    <3> QED
      BY <3>1
  <2>4. UNCHANGED pushed
    BY <1>4 DEF Promote, log
  <2> QED
    BY <2>2, <2>3, <2>4 DEF OnlyEnqueued
<1>5. ASSUME Enqueued \subseteq Enqueued', UNCHANGED <<delayed, pushed>> PROVE OnlyEnqueued'
  BY <1>5 DEF OnlyEnqueued
<1>6. ASSUME Enqueued' = Enqueued, NEW d \in Entry, Delay(d), d.item \in Enqueued, UNCHANGED pushed
      PROVE  OnlyEnqueued'
  <2>1. \A x \in Entry : x # d => delayed'[x] = delayed[x]
    BY <1>0, <1>6, DelayTyped
  <2> QED
    BY <1>6, <2>1 DEF OnlyEnqueued
<1>7. ASSUME Enqueued' = Enqueued, UNCHANGED delayed, NEW e \in DOMAIN stream,
             \A i \in Items : i # stream[e].item => pushed'[i] = pushed[i]
      PROVE  OnlyEnqueued'
  BY <1>0, <1>7 DEF OnlyEnqueued
<1>8. ASSUME NEW w \in Workers, NEW e \in DOMAIN stream, WorkerStep(w, e) \/ DieSending(w, e)
      PROVE  Enqueued' = Enqueued /\ OnlyEnqueued'
  <2>0. Enqueued' = Enqueued
    BY <1>2, <1>8 DEF WorkerStep, DieSending, Park, FindOnline, FindOffline, FindNoDevice, Send, Record,
                      Retry, Ack, queue
  <2>1. CASE FindOnline(w, e) \/ FindOffline(w, e) \/ FindNoDevice(w, e) \/ Record(w, e) \/ Ack(w, e)
    BY <1>5, <2>0, <2>1 DEF FindOnline, FindOffline, FindNoDevice, Record, Ack, queue, log
  <2>2. CASE Park(w, e) \/ Retry(w, e)
    <3>1. PICK d \in Entry : Delay(d) /\ d.item = stream[e].item
      <4>1. CASE Park(w, e)
        BY <1>0, <4>1, StreamTyped DEF Park
      <4>2. CASE Retry(w, e)
        <5>1. at[w] = "retry" /\ Working(w, e)
          BY <4>2 DEF Retry, Busy, Current, QueueInv, WorkingInv
        <5>2. ~LastAttempt(e) /\ stream[e] \in Entry
          BY <1>0, <5>1, StreamTyped DEF Working
        <5>3. PICK d \in Entry : d = [stream[e] EXCEPT !.attempts = @ + 1]
          <6>1. [stream[e] EXCEPT !.attempts = @ + 1] \in Entry
            BY <5>2 DEF LastAttempt, Entry
          <6> QED
            BY <6>1
        <5>4. d.item = stream[e].item
          BY <5>2, <5>3 DEF Entry
        <5> QED
          BY <4>2, <5>3, <5>4 DEF Retry
      <4> QED
        BY <2>2, <4>1, <4>2
    <3>2. UNCHANGED pushed
      BY <2>2 DEF Park, Retry, log
    <3> QED
      BY <1>0, <1>6, <2>0, <3>1, <3>2
  <2>3. CASE Send(w, e) \/ DieSending(w, e)
    <3>1. UNCHANGED delayed
      BY <2>3 DEF Send, DieSending, queue
    <3>2. \A i \in Items : i # stream[e].item => pushed'[i] = pushed[i]
      <4>1. CASE Send(w, e)
        BY <1>0, <4>1 DEF Send
      <4>2. CASE DieSending(w, e)
        BY <1>0, <4>2 DEF DieSending
      <4> QED
        BY <2>3, <4>1, <4>2
    <3> QED
      BY <1>7, <2>0, <3>1, <3>2
  <2> QED
    BY <1>8, <2>0, <2>1, <2>2, <2>3 DEF WorkerStep
<1>9. CASE \E w \in Workers : Reclaim(w) \/ ReadNew(w) \/ Abandon(w)
  <2>1. UNCHANGED <<stream, delayed, pushed>>
    BY <1>9 DEF Reclaim, ReadNew, Abandon, queue, log
  <2> QED
    BY <1>2, <1>3, <1>5, <2>1
<1>10. CASE (\E e \in DOMAIN stream : OrphanIdles(e) \/ HolderOverruns(e)) \/ UNCHANGED vars
  <2>1. UNCHANGED <<stream, delayed, pushed>>
    BY <1>10 DEF OrphanIdles, HolderOverruns, queue, log, vars
  <2> QED
    BY <1>2, <1>3, <1>5, <2>1
<1>11. \A i \in Items : Enqueue(i) => Enqueued' = Enqueued \cup {i} /\ OnlyEnqueued'
  BY <1>3, <1>5
<1> QED
  BY <1>4, <1>8, <1>9, <1>10, <1>11, <1>3 DEF Next

LEMMA PaidInit == Init => PaidInv
<1> SUFFICES ASSUME Init PROVE PaidInv
  OBVIOUS
<1>1. QueueInv /\ TypeOK
  BY QueueInvInit DEF QueueInv
<1>2. IdleHoldsNothing /\ OnlyEnqueued
  BY DEF Init, IdleHoldsNothing, OnlyEnqueued
<1>3. Enqueued = {} /\ AllRounds = {} /\ RepeatedPushes = {}
  BY DEF Init, Enqueued, AllRounds, RepeatedPushes
<1>4. ASSUME NEW p \in Places PROVE Chances[p] = 0
  <2>1. \A e \in Nat : FreeChances(e) = 0
    BY DEF Init, FreeChances
  <2>2. \A e \in Nat, w \in Workers : HeldChances(w, e) = 0
    BY DEF Init, HeldChances, Unsent, Unretried
  <2>3. \A d \in Entry, n \in Nat : DelayedChances(d, n) = 0
    BY DEF Init, DelayedChances
  <2> QED
    BY <2>1, <2>2, <2>3, ThreePlaces, ChancesAt DEF AsPlaced
<1>5. Total(Chances) = {} /\ Live(Chances) = {}
  BY <1>4 DEF Total, Live
<1>6. Unreached = {}
  BY <1>5 DEF Unreached
<1>7. IsFiniteSet({}) /\ Cardinality({}) = 0
  BY FS_EmptySet
<1>8. faults = 0 /\ overruns = 0
  BY DEF Init
<1>9. RoundsPaid
  BY <1>3, <1>5, <1>7, <1>8 DEF RoundsPaid
<1>10. PushesPaid
  BY <1>3, <1>5, <1>6, <1>7, <1>8 DEF PushesPaid
<1> QED
  BY <1>1, <1>2, <1>9, <1>10 DEF PaidInv

LEMMA PaidStep == PaidInv /\ [Next]_vars => PaidInv'
<1> SUFFICES ASSUME PaidInv, [Next]_vars PROVE PaidInv'
  OBVIOUS
<1>0. /\ QueueInv /\ TypeOK /\ IdleHoldsNothing /\ OnlyEnqueued /\ RoundsPaid /\ PushesPaid
  BY DEF PaidInv, QueueInv
<1>1. QueueInv' /\ TypeOK' /\ IdleHoldsNothing' /\ OnlyEnqueued'
  BY <1>0, QueueInvStep, IdleHoldsStep, EnqueuedStep DEF QueueInv
<1>2. ASSUME MovesTo(Chances'), UNCHANGED <<rounds, pushed, faults, overruns>>, Enqueued' = Enqueued
      PROVE  RoundsPaid' /\ PushesPaid'
  BY <1>0, <1>1, <1>2, RoundsMove, PushesMove
<1>3. ASSUME NEW p \in Places, MovesTo([Chances' EXCEPT ![p] = 0]), UNCHANGED <<rounds, pushed>>,
             Troubles(1), Enqueued' = Enqueued
      PROVE  RoundsPaid' /\ PushesPaid'
  <2>1. IsFiniteSet(Enqueued) /\ Cardinality(Enqueued) \in Nat
    BY <1>0, FS_CardinalityType DEF RoundsPaid
  <2>2. faults \in Nat /\ overruns \in Nat
    BY <1>0 DEF TypeOK
  <2>3. Cardinality(Enqueued') + faults' + overruns' >= Cardinality(Enqueued) + faults + overruns + 1
    <3>1. CASE faults' = faults + 1 /\ UNCHANGED overruns
      BY <1>3, <2>1, <2>2, <3>1
    <3>2. CASE overruns' = overruns + 1 /\ UNCHANGED faults
      BY <1>3, <2>1, <2>2, <3>2
    <3> QED
      BY <1>3, <3>1, <3>2 DEF Troubles
  <2>4. IsFiniteSet(Enqueued')
    BY <1>3, <2>1
  <2> QED
    BY <1>0, <1>1, <1>3, <2>3, <2>4, RoundsGranted, PushesGranted
<1>4. ASSUME NEW i \in Items, Enqueue(i) PROVE RoundsPaid' /\ PushesPaid'
  <2>1. PICK e \in Nat : e = Len(stream) + 1
    BY <1>0, StreamTyped
  <2>2. MovesTo([Chances' EXCEPT ![FreePlace(e)] = 0]) /\ FreePlace(e) \in Places
    BY <1>0, <1>1, <1>4, <2>1, EnqueueMoves, ThreePlaces
  <2>3. Enqueued' = Enqueued \cup {i} /\ i \notin Enqueued
    BY <1>0, <1>1, <1>4, EnqueuedStep DEF Enqueue
  <2>4. /\ IsFiniteSet(Enqueued') /\ Cardinality(Enqueued') = Cardinality(Enqueued) + 1
        /\ Cardinality(Enqueued) \in Nat
    BY <1>0, <2>3, FS_AddElement, FS_CardinalityType DEF RoundsPaid
  <2>5. UNCHANGED <<rounds, faults, overruns>>
    BY <1>4 DEF Enqueue, log, counts
  <2>6. Cardinality(Enqueued') + faults' + overruns' >= Cardinality(Enqueued) + faults + overruns + 1
    <3>1. faults \in Nat /\ overruns \in Nat
      BY <1>0 DEF TypeOK
    <3> QED
      BY <2>4, <2>5, <3>1
  <2> QED
    BY <1>0, <1>1, <1>4, <2>2, <2>4, <2>5, <2>6, RoundsGranted, EnqueuePushes
<1>5. ASSUME NEW i \in Items PROVE Enqueue(i) => RoundsPaid' /\ PushesPaid'
  BY <1>4
<1>6. ASSUME ~(\E i \in Items : Enqueue(i)) PROVE RoundsPaid' /\ PushesPaid'
  <2>0. Enqueued' = Enqueued
    BY <1>0, <1>1, <1>6, EnqueuedStep
  <2>1. ASSUME NEW w \in Workers, Reclaim(w) \/ ReadNew(w) PROVE RoundsPaid' /\ PushesPaid'
    <3>1. UNCHANGED <<rounds, pushed, faults, overruns>>
      BY <2>1 DEF Reclaim, ReadNew, log, counts
    <3> QED
      BY <1>0, <1>1, <1>2, <2>0, <2>1, <3>1, TakeMoves
  <2>2. ASSUME NEW w \in Workers, Abandon(w) PROVE RoundsPaid' /\ PushesPaid'
    <3>1. PICK e \in Nat : MovesTo([Chances' EXCEPT ![FreePlace(e)] = 0])
      BY <1>0, <1>1, <2>2, AbandonMoves
    <3>2. UNCHANGED <<rounds, pushed>> /\ Troubles(1) /\ FreePlace(e) \in Places
      BY <2>2, ThreePlaces DEF Abandon, log, Fault, Troubles
    <3> QED
      BY <1>3, <2>0, <3>1, <3>2
  <2>3. ASSUME NEW w \in Workers, NEW d \in Entry, Promote(w, d) PROVE RoundsPaid' /\ PushesPaid'
    <3>1. UNCHANGED <<rounds, pushed, faults, overruns>>
      BY <2>3 DEF Promote, log, counts
    <3> QED
      BY <1>0, <1>1, <1>2, <2>0, <2>3, <3>1, PromoteMoves
  <2>4. ASSUME NEW w \in Workers, NEW e \in DOMAIN stream, WorkerStep(w, e)
        PROVE  RoundsPaid' /\ PushesPaid'
    <3>1. CASE FindOnline(w, e) \/ FindOffline(w, e) \/ FindNoDevice(w, e) \/ Record(w, e)
      <4>1. UNCHANGED <<rounds, pushed, faults, overruns>>
        BY <3>1 DEF FindOnline, FindOffline, FindNoDevice, Record, log, counts
      <4> QED
        BY <1>0, <1>1, <1>2, <2>0, <3>1, <4>1, QuietStepsOn
    <3>2. CASE Park(w, e) \/ Retry(w, e)
      <4>1. UNCHANGED <<rounds, pushed, faults, overruns>>
        BY <3>2 DEF Park, Retry, log, counts
      <4> QED
        BY <1>0, <1>1, <1>2, <2>0, <3>2, <4>1, DelayMoves
    <3>3. CASE Ack(w, e)
      <4>1. UNCHANGED <<rounds, pushed, faults, overruns>>
        BY <3>3 DEF Ack, log, counts
      <4> QED
        BY <1>0, <1>1, <1>2, <2>0, <3>3, <4>1, AckMoves
    <3>4. CASE Send(w, e)
      BY <1>0, <1>1, <3>4, RoundsSent, PushesSent
    <3> QED
      BY <2>4, <3>1, <3>2, <3>3, <3>4 DEF WorkerStep
  <2>5. ASSUME NEW w \in Workers, NEW e \in DOMAIN stream, DieSending(w, e)
        PROVE  RoundsPaid' /\ PushesPaid'
    BY <1>0, <1>1, <2>5, RoundsLost, PushesLost
  <2>6. ASSUME NEW e \in DOMAIN stream, OrphanIdles(e) PROVE RoundsPaid' /\ PushesPaid'
    <3>1. UNCHANGED <<rounds, pushed, faults, overruns>>
      BY <2>6 DEF OrphanIdles, log, counts
    <3> QED
      BY <1>0, <1>1, <1>2, <2>0, <2>6, <3>1, OrphanMoves
  <2>7. ASSUME NEW e \in DOMAIN stream, HolderOverruns(e) PROVE RoundsPaid' /\ PushesPaid'
    <3>1. UNCHANGED <<rounds, pushed>> /\ Troubles(1)
      BY <2>7 DEF HolderOverruns, log, Troubles
    <3>2. MovesTo([Chances' EXCEPT ![FreePlace(e)] = 0])
      BY <1>0, <1>1, <2>7, OverrunMoves
    <3>3. e \in Nat /\ FreePlace(e) \in Places
      BY <1>0, StreamTyped, ThreePlaces
    <3> QED
      BY <1>3, <2>0, <3>1, <3>2, <3>3
  <2>8. CASE UNCHANGED vars
    <3>1. /\ \A e \in Nat : FreeChances(e)' = FreeChances(e)
          /\ \A e \in Nat, w \in Workers : HeldChances(w, e)' = HeldChances(w, e)
      BY <2>8 DEF FreeChances, Free, Held, Left, HeldChances, Unsent, Unretried, LastAttempt, vars,
                  queue, worker
    <3>2. \A d \in Entry, n \in Nat : DelayedChances(d, n)' = DelayedChances(d, n)
      BY <2>8 DEF DelayedChances, vars, queue
    <3>3. UNCHANGED <<stream, rounds, pushed, faults, overruns>>
      BY <2>8 DEF vars, queue, log, counts
    <3>4. MovesTo(Chances')
      BY <1>0, <1>1, <3>1, <3>2, <3>3, NothingMoves
    <3> QED
      BY <1>2, <2>0, <3>3, <3>4
  <2> QED
    BY <1>6, <2>1, <2>2, <2>3, <2>4, <2>5, <2>6, <2>7, <2>8 DEF Next
<1> QED
  BY <1>1, <1>5, <1>6 DEF PaidInv

THEOREM PaidInvariant == Spec => []PaidInv
<1>1. PaidInv /\ [Next]_vars => PaidInv'
  BY PaidStep
<1> QED
  BY <1>1, PaidInit, PTL DEF Spec

(* notification_max_attempts bounds the rounds of a notification, although *)
(* the count travels in the entries: a fault, or a worker that overruns,   *)
(* starts one further chain of attempts at most.                           *)
THEOREM RoundsArePaid == Spec => []RoundsNeedFaults
<1>1. PaidInv => RoundsNeedFaults
  <2> SUFFICES ASSUME PaidInv PROVE RoundsNeedFaults
    OBVIOUS
  <2>1. TypeOK /\ RoundsPaid
    BY DEF PaidInv, QueueInv
  <2>2. /\ Cardinality(AllRounds) \in Nat /\ Cardinality(Total(Chances)) \in Nat
        /\ Cardinality(Enqueued) \in Nat /\ faults \in Nat /\ overruns \in Nat
    BY <2>1, FS_CardinalityType DEF RoundsPaid, TypeOK
  <2>3. Cardinality(AllRounds) + Cardinality(Total(Chances))
          <= MaxAttempts * (Cardinality(Enqueued) + faults + overruns)
    BY <2>1 DEF RoundsPaid
  <2>4. MaxAttempts * (Cardinality(Enqueued) + faults + overruns) \in Nat
    BY <2>2
  <2> QED
    BY <2>2, <2>3, <2>4 DEF RoundsNeedFaults
<1> QED
  BY <1>1, PaidInvariant, PTL

(* A recipient is pushed a notification again only if a fault or an        *)
(* overrun split its chain of attempts, and then once for each.            *)
THEOREM RepeatedPushesArePaid == Spec => []PushedAgainNeedsFaults
<1>1. PaidInv => PushedAgainNeedsFaults
  <2> SUFFICES ASSUME PaidInv PROVE PushedAgainNeedsFaults
    OBVIOUS
  <2>1. TypeOK /\ PushesPaid
    BY DEF PaidInv, QueueInv
  <2>2. Unreached \in SUBSET {Carried[p] : p \in Live(Chances)}
    BY UnreachedReaching DEF Reaching
  <2>3. /\ IsFiniteSet({Carried[p] : p \in Live(Chances)})
        /\ Cardinality({Carried[p] : p \in Live(Chances)}) <= Cardinality(Live(Chances))
    BY <2>1, ImageBound DEF PushesPaid
  <2>4. Cardinality(Unreached) <= Cardinality({Carried[p] : p \in Live(Chances)})
    BY <2>2, <2>3, FS_Subset
  <2>5. /\ Cardinality(RepeatedPushes) \in Nat /\ Cardinality(Live(Chances)) \in Nat
        /\ Cardinality(Unreached) \in Nat /\ faults \in Nat /\ overruns \in Nat
        /\ Cardinality({Carried[p] : p \in Live(Chances)}) \in Nat
    BY <2>1, <2>3, FS_CardinalityType DEF PushesPaid, TypeOK
  <2>6. Cardinality(RepeatedPushes) + Cardinality(Live(Chances))
          <= Cardinality(Unreached) + faults + overruns
    BY <2>1 DEF PushesPaid
  <2> QED
    BY <2>3, <2>4, <2>5, <2>6 DEF PushedAgainNeedsFaults
<1> QED
  BY <1>1, PaidInvariant, PTL
=============================================================================
