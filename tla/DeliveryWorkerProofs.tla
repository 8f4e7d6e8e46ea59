------------------------ MODULE DeliveryWorkerProofs ------------------------
(***************************************************************************)
(* Proofs about DeliveryWorker, for any stream, any users and workers, any *)
(* batch size and any number of faults and overruns.                       *)
(***************************************************************************)
EXTENDS DeliveryWorker, FiniteSetTheorems, TLAPS

USE DeliveryAssumption

(* What a worker that is busy with an entry has already done for it: all   *)
(* recipients before pos were served, the one at pos once the hand-over is *)
(* behind it.                                                              *)
Served(e, n) ==
    \A i \in 1..n : i <= Len(Stream[e].to) =>
        handed[<<Stream[e].subject, Stream[e].to[i]>>] > 0

Settled(e) ==
    \/ Served(e, Len(Stream[e].to))
    \/ Stream[e].kind = "updated" /\ deleted
    \/ Stream[e].kind = "other"

Progress(w, e) ==
    /\ at[w] \in {"check", "hand", "setkey", "mark"} => Stream[e].kind = "created"
    /\ at[w] \in {"members", "fanout"} => Stream[e].kind = "updated"
    /\ at[w] = "members" => pos[w] = 1
    /\ at[w] \in {"check", "hand", "setkey", "mark", "fanout"} =>
          pos[w] <= Len(Stream[e].to) /\ Served(e, pos[w] - 1)
    /\ at[w] \in {"setkey", "mark"} => Served(e, pos[w])
    /\ at[w] = "ack" => Settled(e)

First(w, e) == e \in batch[w] /\ \A f \in batch[w] : e <= f

ProgressInv == \A w \in Workers : \A e \in Entries : First(w, e) => Progress(w, e)

KeysAreHanded == \A p \in done : handed[p] > 0

NothingUncarried == \A p \in Pairs : handed[p] > 0 => Carrying(p) # {}

DeliveryInv ==
    /\ TypeOK
    /\ ProgressInv
    /\ KeysAreHanded
    /\ AckedIsHanded
    /\ NothingUncarried

-----------------------------------------------------------------------------
LEMMA EntriesTyped ==
    /\ Len(Stream) \in Nat /\ Entries = 1..Len(Stream)
    /\ \A e \in Entries : /\ Stream[e].kind \in Kind /\ Stream[e].subject \in Subjects
                          /\ Stream[e].to \in Seq(Users) /\ Len(Stream[e].to) \in Nat
<1> DEFINE Entry == [kind : Kind, subject : Subjects, to : Seq(Users)]
<1>1. Stream \in Seq(Entry)
  OBVIOUS
<1> HIDE DEF Entry
<1>2. Len(Stream) \in Nat /\ Entries = 1..Len(Stream)
  BY <1>1 DEF Entries
<1>3. ASSUME NEW e \in Entries
      PROVE  Stream[e] \in Entry
  BY <1>1, <1>2, <1>3
<1>4. ASSUME NEW e \in Entries
      PROVE  /\ Stream[e].kind \in Kind /\ Stream[e].subject \in Subjects
             /\ Stream[e].to \in Seq(Users) /\ Len(Stream[e].to) \in Nat
  <2>1. Stream[e].to \in Seq(Users) /\ Stream[e].kind \in Kind
        /\ Stream[e].subject \in Subjects
    BY <1>3, <1>4 DEF Entry
  <2> QED
    BY <2>1
<1> QED
  BY <1>2, <1>4

LEMMA PairTyped ==
    ASSUME NEW e \in Entries, NEW i \in 1..Len(Stream[e].to)
    PROVE  <<Stream[e].subject, Stream[e].to[i]>> \in Pairs
<1>1. Stream[e].to[i] \in Recipients(e)
  BY EntriesTyped DEF Recipients
<1> QED
  BY <1>1 DEF Pairs

LEMMA FirstUnique ==
    ASSUME NEW S \in SUBSET Nat, NEW e \in S, \A f \in S : e <= f
    PROVE  Lowest(S) = e
<1>1. Lowest(S) \in S /\ \A f \in S : Lowest(S) <= f
  BY DEF Lowest
<1>2. Lowest(S) \in Nat /\ e \in Nat /\ Lowest(S) <= e /\ e <= Lowest(S)
  BY <1>1
<1> QED
  BY <1>2

(* The entries a worker reads are consecutive.                             *)
LEMMA FirstOfInterval ==
    ASSUME NEW a \in Nat, NEW b \in Nat, a < b
    PROVE  LET new == FirstOf((a + 1)..b)
           IN  /\ Cardinality(new) \in Nat /\ a + Cardinality(new) <= b
               /\ new = (a + 1)..(a + Cardinality(new))
<1> DEFINE S == (a + 1)..b
           new == FirstOf(S)
           last == IF b <= a + BatchSize THEN b ELSE a + BatchSize
<1>1. \A e \in S : Cardinality({f \in S : f < e}) = e - (a + 1)
  <2> TAKE e \in S
  <2>1. {f \in S : f < e} = (a + 1)..(e - 1)
    OBVIOUS
  <2>2. Cardinality((a + 1)..(e - 1)) = e - (a + 1)
    BY FS_Interval
  <2> QED
    BY <2>1, <2>2
<1>2. new = {e \in S : e - (a + 1) < BatchSize}
  BY <1>1 DEF FirstOf
<1> HIDE DEF new
<1>3. last \in Nat /\ a <= last /\ last <= b
  OBVIOUS
<1>4. \A e \in Nat : e \in S /\ e - (a + 1) < BatchSize <=> a + 1 <= e /\ e <= last
  OBVIOUS
<1>5. new = (a + 1)..last
  BY <1>2, <1>3, <1>4
<1> HIDE DEF last
<1>6. Cardinality((a + 1)..last) = last - a
  <2>1. a + 1 \in Int /\ last \in Int
    BY <1>3
  <2>2. Cardinality((a + 1)..last) =
           IF a + 1 <= last THEN last - (a + 1) + 1 ELSE 0
    BY <2>1, FS_Interval
  <2>3. CASE a + 1 <= last
    BY <1>3, <2>2, <2>3
  <2>4. CASE a = last
    BY <1>3, <2>2, <2>4
  <2> QED
    BY <1>3, <2>3, <2>4
<1>7. Cardinality(new) \in Nat /\ a + Cardinality(new) = last
  BY <1>3, <1>5, <1>6
<1> QED
  BY <1>3, <1>5, <1>7 DEF new

-----------------------------------------------------------------------------
LEMMA EntranceLocation ==
    ASSUME NEW e PROVE Entrance(e) \in {"members", "check", "ack"}
BY DEF Entrance

(* Going on with entries that are read keeps the worker's variables typed. *)
LEMMA ContinueTyped ==
    ASSUME TypeOK, NEW w \in Workers, NEW S \in SUBSET (1..lastRead'), Continue(w, S),
           lastRead' \in Nat, lastRead <= lastRead'
    PROVE  /\ batch' \in [Workers -> SUBSET (1..lastRead')]
           /\ at' \in [Workers -> Location]
           /\ pos' \in [Workers -> Nat \ {0}]
<1>1. 1..lastRead \subseteq 1..lastRead' /\ lastRead \in Nat
  BY EntriesTyped DEF TypeOK
<1>2. batch' = [batch EXCEPT ![w] = S] /\ pos' = [pos EXCEPT ![w] = 1]
  BY DEF Continue
<1>3. (IF S = {} THEN "idle" ELSE Entrance(Lowest(S))) \in Location
  BY EntranceLocation DEF Location
<1>4. at' \in [Workers -> Location]
  BY <1>3 DEF Continue, TypeOK
<1>5. batch' \in [Workers -> SUBSET (1..lastRead')]
  BY <1>1, <1>2 DEF TypeOK
<1> QED
  BY <1>2, <1>4, <1>5 DEF TypeOK

LEMMA HandOverTyped ==
    ASSUME TypeOK, NEW p \in Pairs
    PROVE  /\ HandOver(p) \in [Pairs -> Nat]
           /\ \A q \in Pairs : HandOver(p)[q] = IF q = p THEN handed[p] + 1 ELSE handed[q]
BY DEF TypeOK, HandOver

LEMMA TypeInit == Init => TypeOK
<1> SUFFICES ASSUME Init PROVE TypeOK
  OBVIOUS
<1>1. /\ length \in 0..Len(Stream) /\ lastRead \in 0..length
      /\ faults \in 0..MaxFaults /\ overruns \in 0..MaxOverruns
  BY EntriesTyped DEF Init
<1>2. /\ pending \subseteq 1..lastRead /\ idle \subseteq pending
      /\ done \subseteq Pairs /\ marked \subseteq Pairs /\ deleted \in BOOLEAN
  BY DEF Init
<1>3. /\ batch \in [Workers -> SUBSET (1..lastRead)]
      /\ at \in [Workers -> Location] /\ pos \in [Workers -> Nat \ {0}]
      /\ handed \in [Pairs -> Nat]
  BY DEF Init, Location
<1> QED
  BY <1>1, <1>2, <1>3 DEF TypeOK

(* A recipient a worker is busy with is one of its entry's.                *)
LEMMA BusyPair ==
    ASSUME TypeOK, ProgressInv, NEW w \in Workers, NEW e \in Entries, First(w, e),
           at[w] \in {"check", "hand", "setkey", "mark", "fanout"}
    PROVE  pos[w] \in 1..Len(Stream[e].to) /\ Pair(w, e) \in Pairs
<1>1. pos[w] <= Len(Stream[e].to)
  BY DEF ProgressInv, Progress
<1>2. pos[w] \in 1..Len(Stream[e].to)
  BY <1>1, EntriesTyped DEF TypeOK
<1> QED
  BY <1>2, PairTyped DEF Pair

LEMMA TypeStep == TypeOK /\ ProgressInv /\ [Next]_vars => TypeOK'
<1> SUFFICES ASSUME TypeOK, ProgressInv, [Next]_vars PROVE TypeOK'
  OBVIOUS
<1>0. /\ lastRead \in Nat /\ length \in Nat /\ lastRead <= length
      /\ length <= Len(Stream) /\ Len(Stream) \in Nat
      /\ \A w \in Workers : batch[w] \subseteq 1..lastRead
  BY EntriesTyped DEF TypeOK
<1>1. CASE Relayed
  BY <1>0, <1>1 DEF Relayed, TypeOK, redis, counts
<1>2. ASSUME NEW w \in Workers, Reclaim(w) PROVE TypeOK'
  <2>1. FirstOf(idle) \subseteq 1..lastRead
    BY DEF TypeOK, FirstOf
  <2>2. /\ batch' \in [Workers -> SUBSET (1..lastRead')]
        /\ at' \in [Workers -> Location] /\ pos' \in [Workers -> Nat \ {0}]
    BY <1>0, <1>2, <2>1, ContinueTyped DEF Reclaim
  <2> QED
    BY <1>2, <2>2 DEF Reclaim, TypeOK, redis, counts
<1>3. ASSUME NEW w \in Workers, ReadNew(w) PROVE TypeOK'
  <2> DEFINE new == FirstOf((lastRead + 1)..length)
  <2>1. /\ Cardinality(new) \in Nat /\ lastRead + Cardinality(new) <= length
        /\ new = (lastRead + 1)..(lastRead + Cardinality(new))
    BY <1>0, <1>3, FirstOfInterval DEF ReadNew
  <2>2. /\ lastRead' = lastRead + Cardinality(new) /\ pending' = pending \cup new
        /\ Continue(w, new) /\ idle = {} /\ length' = length
        /\ UNCHANGED <<idle, handed, done, marked, deleted, faults, overruns>>
    BY <1>3 DEF ReadNew, redis, counts
  <2> HIDE DEF new
  <2>3. lastRead' \in 0..length' /\ lastRead <= lastRead' /\ new \subseteq 1..lastRead'
    BY <1>0, <2>1, <2>2
  <2>4. /\ batch' \in [Workers -> SUBSET (1..lastRead')]
        /\ at' \in [Workers -> Location] /\ pos' \in [Workers -> Nat \ {0}]
    BY <1>0, <2>2, <2>3, ContinueTyped
  <2>5. pending' \subseteq 1..lastRead' /\ idle' \subseteq pending'
    BY <1>0, <2>2, <2>3 DEF TypeOK
  <2> QED
    BY <2>2, <2>3, <2>4, <2>5 DEF TypeOK
<1>4. ASSUME NEW w \in Workers, NEW e \in Entries,
             WorkerStep(w, e) \/ MarkRaises(w, e) \/ DispatchRaises(w, e)
      PROVE  TypeOK'
  <2>1. /\ e \in batch[w] /\ at[w] # "idle"
        /\ UNCHANGED <<length, lastRead, deleted, overruns>>
        /\ at[w] \in {"hand", "setkey", "mark", "fanout"} \/ UNCHANGED <<handed, done, marked>>
    BY <1>4 DEF WorkerStep, Check, Hand, SetKey, Mark, Members, Fanout, Ack, MarkRaises,
                DispatchRaises, Busy, redis, counts, Fault
  <2>2. faults' \in 0..MaxFaults
    BY <1>4 DEF WorkerStep, Check, Hand, SetKey, Mark, Members, Fanout, Ack, MarkRaises,
                DispatchRaises, counts, Fault, TypeOK
  <2>3. pending' \subseteq 1..lastRead' /\ idle' \subseteq pending'
    BY <1>4 DEF WorkerStep, Check, Hand, SetKey, Mark, Members, Fanout, Ack, MarkRaises,
                DispatchRaises, TypeOK
  <2>4. \/ \E location \in Location : Goto(w, location)
        \/ \E location \in Location : NextRecipient(w, e, location)
        \/ Continue(w, batch[w] \ {e})
    BY <1>4 DEF WorkerStep, Check, Hand, SetKey, Mark, Members, Fanout, Ack, MarkRaises,
                DispatchRaises, Location
  <2>5. /\ batch' \in [Workers -> SUBSET (1..lastRead')]
        /\ at' \in [Workers -> Location] /\ pos' \in [Workers -> Nat \ {0}]
    <3>1. CASE \E location \in Location : Goto(w, location)
      BY <2>1, <3>1 DEF Goto, TypeOK
    <3>2. CASE \E location \in Location : NextRecipient(w, e, location)
      <4>1. PICK location \in Location : NextRecipient(w, e, location)
        BY <3>2
      <4>2. batch' = batch
        BY <4>1 DEF NextRecipient
      <4>3. CASE pos[w] < Len(Stream[e].to)
        <5>1. at' = [at EXCEPT ![w] = location] /\ pos' = [pos EXCEPT ![w] = @ + 1]
          BY <4>1, <4>3 DEF NextRecipient
        <5> QED
          BY <2>1, <4>2, <5>1 DEF TypeOK
      <4>4. CASE ~(pos[w] < Len(Stream[e].to))
        <5>1. at' = [at EXCEPT ![w] = "ack"] /\ pos' = pos
          BY <4>1, <4>4 DEF NextRecipient
        <5> QED
          BY <2>1, <4>2, <5>1 DEF TypeOK, Location
      <4> QED
        BY <4>3, <4>4
    <3>3. CASE Continue(w, batch[w] \ {e})
      BY <1>0, <2>1, <3>3, ContinueTyped
    <3> QED
      BY <2>4, <3>1, <3>2, <3>3
  <2>6. /\ handed' \in [Pairs -> Nat] /\ done' \subseteq Pairs /\ marked' \subseteq Pairs
    <3>1. CASE UNCHANGED <<handed, done, marked>>
      BY <3>1 DEF TypeOK
    <3>2. CASE at[w] \in {"hand", "setkey", "mark", "fanout"} /\ Busy(w, at[w], e)
      <4>1. Pair(w, e) \in Pairs
        BY <3>2, BusyPair DEF Busy, First
      <4>2. /\ handed' \in {handed, HandOver(Pair(w, e))}
            /\ done' \in {done, done \cup {Pair(w, e)}}
            /\ marked' \in {marked, marked \cup {Pair(w, e)}}
        BY <1>4, <3>2 DEF WorkerStep, Check, Hand, SetKey, Mark, Members, Fanout, Ack,
                          MarkRaises, DispatchRaises, Busy, redis
      <4> QED
        BY <4>1, <4>2, HandOverTyped DEF TypeOK
    <3>3. UNCHANGED <<handed, done, marked>> \/ Busy(w, at[w], e)
      BY <1>4 DEF WorkerStep, Check, Hand, SetKey, Mark, Members, Fanout, Ack,
                  MarkRaises, DispatchRaises, Busy, redis
    <3> QED
      BY <2>1, <3>1, <3>2, <3>3
  <2> QED
    BY <2>1, <2>2, <2>3, <2>5, <2>6 DEF TypeOK
<1>5. ASSUME NEW w \in Workers, Abandon(w) PROVE TypeOK'
  <2>1. /\ batch' \in [Workers -> SUBSET (1..lastRead')]
        /\ at' \in [Workers -> Location] /\ pos' \in [Workers -> Nat \ {0}]
    BY <1>0, <1>5, ContinueTyped DEF Abandon
  <2> QED
    BY <1>5, <2>1 DEF Abandon, TypeOK, redis, Fault
<1>6. ASSUME NEW e \in Entries, OrphanIdles(e) \/ HolderOverruns(e) PROVE TypeOK'
  <2>1. idle' \subseteq pending' /\ pending' \subseteq 1..lastRead'
    BY <1>6 DEF OrphanIdles, HolderOverruns, TypeOK
  <2>2. faults' \in 0..MaxFaults /\ overruns' \in 0..MaxOverruns
    BY <1>6 DEF OrphanIdles, HolderOverruns, TypeOK, counts
  <2> QED
    BY <1>6, <2>1, <2>2 DEF OrphanIdles, HolderOverruns, TypeOK, redis
<1>7. ASSUME NEW p \in Pairs, KeyExpires(p) PROVE TypeOK'
  BY <1>7 DEF KeyExpires, TypeOK, Fault
<1>8. CASE DeleteConversation
  BY <1>8 DEF DeleteConversation, TypeOK, redis, counts
<1>9. CASE UNCHANGED vars
  BY <1>9 DEF vars, TypeOK
<1> QED
  BY <1>1, <1>2, <1>3, <1>4, <1>5, <1>6, <1>7, <1>8, <1>9 DEF Next

-----------------------------------------------------------------------------
(* Nothing is taken back: hand-overs and the deletion stay.                *)
Grows == (\A p \in Pairs : handed'[p] >= handed[p]) /\ (deleted => deleted')

LEMMA ServedStable ==
    ASSUME TypeOK, TypeOK', Grows, NEW e \in Entries, NEW n, Served(e, n)
    PROVE  Served(e, n)'
<1> SUFFICES ASSUME NEW i \in 1..n, i <= Len(Stream[e].to)
             PROVE  handed'[<<Stream[e].subject, Stream[e].to[i]>>] > 0
  BY DEF Served
<1> DEFINE p == <<Stream[e].subject, Stream[e].to[i]>>
<1>1. p \in Pairs
  BY EntriesTyped, PairTyped
<1>2. handed[p] > 0 /\ handed[p] \in Nat /\ handed'[p] \in Nat /\ handed'[p] >= handed[p]
  BY <1>1 DEF Served, Grows, TypeOK
<1> QED
  BY <1>2

LEMMA SettledStable ==
    ASSUME TypeOK, TypeOK', Grows, NEW e \in Entries, Settled(e)
    PROVE  Settled(e)'
BY ServedStable DEF Settled, Grows

(* A worker that did not move has still done what it had done.             *)
LEMMA ProgressStable ==
    ASSUME TypeOK, TypeOK', Grows, NEW w \in Workers, NEW e \in Entries,
           at'[w] = at[w], pos'[w] = pos[w], Progress(w, e)
    PROVE  Progress(w, e)'
BY ServedStable, SettledStable DEF Progress

(* Acknowledged means settled.                                             *)
LEMMA AckedSettled ==
    ASSUME TypeOK
    PROVE  AckedIsHanded <=> \A e \in Acked : Settled(e)
<1>1. Acked \subseteq Entries
  BY EntriesTyped DEF Acked, TypeOK
<1>2. ASSUME NEW e \in Entries
      PROVE  Served(e, Len(Stream[e].to))
                <=> \A u \in Recipients(e) : handed[<<Stream[e].subject, u>>] > 0
  BY EntriesTyped DEF Served, Recipients
<1>3. ASSUME NEW e \in Entries
      PROVE  Settled(e) <=> \A u \in Recipients(e) :
                               \/ handed[<<Stream[e].subject, u>>] > 0
                               \/ Stream[e].kind = "updated" /\ deleted
                               \/ Stream[e].kind = "other"
  BY <1>2 DEF Settled
<1> QED
  BY <1>1, <1>3 DEF AckedIsHanded

(* What a step must show to keep the invariant.                            *)
LEMMA InvFrom ==
    ASSUME DeliveryInv, TypeOK', Grows, length <= length',
           \A w \in Workers : \A e \in Entries : First(w, e)' =>
              \/ First(w, e) /\ at'[w] = at[w] /\ pos'[w] = pos[w]
              \/ Progress(w, e)',
           \A p \in done' : handed'[p] > 0,
           \A e \in Acked' : e \in Acked \/ (e \in Entries /\ Settled(e)'),
           \A p \in Pairs : handed'[p] > 0 => handed[p] > 0 \/ Carrying(p) # {}
    PROVE  DeliveryInv'
<1> USE DEF DeliveryInv
<1>1. ProgressInv'
  BY ProgressStable DEF ProgressInv
<1>2. KeysAreHanded'
  BY DEF KeysAreHanded
<1>3. AckedIsHanded'
  <2>1. Acked \subseteq Entries
    BY EntriesTyped DEF Acked, TypeOK
  <2>2. \A e \in Acked' : Settled(e)'
    BY <2>1, AckedSettled, SettledStable
  <2>3. (AckedIsHanded <=> \A e \in Acked : Settled(e))'
    BY AckedSettled, PTL
  <2> QED
    BY <2>2, <2>3
<1>4. NothingUncarried'
  <2>1. length \in Nat /\ length' \in Nat
    BY EntriesTyped DEF TypeOK
  <2>2. 1..length \subseteq 1..length'
    BY <2>1
  <2>3. \A p \in Pairs : Carrying(p) \subseteq Carrying(p)'
    BY <2>2 DEF Carrying
  <2> QED
    BY <2>3 DEF NothingUncarried
<1> QED
  BY <1>1, <1>2, <1>3, <1>4

LEMMA ContinueProgress ==
    ASSUME TypeOK, NEW w \in Workers, NEW S \in SUBSET Entries, Continue(w, S),
           NEW e \in Entries, First(w, e)'
    PROVE  Progress(w, e)'
<1>1. batch'[w] = S /\ pos'[w] = 1
      /\ at'[w] = IF S = {} THEN "idle" ELSE Entrance(Lowest(S))
  BY DEF Continue, TypeOK
<1>2. e \in S /\ \A f \in S : e <= f
  BY <1>1 DEF First
<1>3. Lowest(S) = e
  BY <1>2, FirstUnique, EntriesTyped
<1>4. at'[w] = Entrance(e) /\ Served(e, 0)'
  BY <1>1, <1>2, <1>3 DEF Served
<1>5. CASE Stream[e].kind = "updated"
  BY <1>1, <1>4, <1>5 DEF Entrance, Progress
<1>6. CASE Stream[e].kind = "created" /\ Stream[e].to # <<>>
  <2>1. 1 <= Len(Stream[e].to)
    BY <1>6, EntriesTyped
  <2> QED
    BY <1>1, <1>4, <1>6, <2>1 DEF Entrance, Progress
<1>7. CASE Stream[e].kind = "created" /\ Stream[e].to = <<>>
  <2>1. Len(Stream[e].to) = 0
    BY <1>7
  <2> QED
    BY <1>4, <1>7, <2>1 DEF Entrance, Progress, Settled
<1>8. CASE Stream[e].kind = "other"
  BY <1>4, <1>8 DEF Entrance, Progress, Settled
<1> QED
  BY <1>5, <1>6, <1>7, <1>8, EntriesTyped DEF Kind

(* A worker goes on with other entries.                                    *)
LEMMA ContinueStep ==
    ASSUME DeliveryInv, TypeOK', Grows, length <= length',
           NEW w \in Workers, NEW S \in SUBSET Entries, Continue(w, S),
           \A p \in done' : handed'[p] > 0,
           \A p \in Pairs : handed'[p] > 0 => handed[p] > 0 \/ Carrying(p) # {},
           \A e \in Acked' : e \in Acked \/ (e \in Entries /\ Settled(e))
    PROVE  DeliveryInv'
<1>1. ASSUME NEW v \in Workers, NEW e \in Entries, First(v, e)'
      PROVE  \/ First(v, e) /\ at'[v] = at[v] /\ pos'[v] = pos[v]
             \/ Progress(v, e)'
  <2>1. CASE v = w
    BY <1>1, <2>1, ContinueProgress DEF DeliveryInv
  <2>2. CASE v # w
    BY <1>1, <2>2 DEF Continue, First, DeliveryInv, TypeOK
  <2> QED
    BY <2>1, <2>2
<1>2. \A e \in Acked' : e \in Acked \/ (e \in Entries /\ Settled(e)')
  BY SettledStable DEF DeliveryInv
<1> QED
  BY <1>1, <1>2, InvFrom

(* A worker moves on within its entry e, and may serve the recipient it is *)
(* busy with.                                                              *)
LEMMA StayStep ==
    ASSUME DeliveryInv, TypeOK', Grows,
           NEW w \in Workers, NEW e \in Entries, First(w, e),
           UNCHANGED <<batch, length, lastRead, pending>>,
           \A v \in Workers : v # w => at'[v] = at[v] /\ pos'[v] = pos[v],
           Progress(w, e)',
           \A p \in done' : handed'[p] > 0,
           \A p \in Pairs : handed'[p] > 0 => handed[p] > 0 \/ Carrying(p) # {}
    PROVE  DeliveryInv'
<1>1. ASSUME NEW v \in Workers, NEW f \in Entries, First(v, f)'
      PROVE  \/ First(v, f) /\ at'[v] = at[v] /\ pos'[v] = pos[v]
             \/ Progress(v, f)'
  <2>1. First(v, f)
    BY <1>1 DEF First
  <2>2. CASE v = w
    <3>1. e <= f /\ f <= e
      BY <2>1, <2>2 DEF First
    <3>2. e = f
      BY <3>1, EntriesTyped
    <3> QED
      BY <2>2, <3>2
  <2> QED
    BY <2>1, <2>2
<1>2. Acked' = Acked
  BY DEF Acked
<1>3. length <= length'
  BY DEF DeliveryInv, TypeOK
<1> QED
  BY <1>1, <1>2, <1>3, InvFrom

(* A step that moves no worker and serves nobody.                          *)
LEMMA QuietStep ==
    ASSUME DeliveryInv, TypeOK', UNCHANGED <<batch, at, pos, handed, lastRead, pending>>,
           deleted => deleted', done' \subseteq done, length <= length'
    PROVE  DeliveryInv'
<1>1. Grows
  BY DEF Grows, DeliveryInv, TypeOK
<1>2. Acked' = Acked
  BY DEF Acked
<1> QED
  BY <1>1, <1>2, InvFrom DEF First, DeliveryInv, KeysAreHanded

LEMMA ServedNext ==
    ASSUME TypeOK, TypeOK', NEW e \in Entries, NEW n \in Nat \ {0}, Served(e, n - 1),
           handed'[<<Stream[e].subject, Stream[e].to[n]>>] > 0, Grows
    PROVE  Served(e, n)'
<1>1. Served(e, n - 1)'
  BY ServedStable
<1>2. \A i \in 1..n : i \in 1..(n - 1) \/ i = n
  OBVIOUS
<1> QED
  BY <1>1, <1>2 DEF Served

(* The next recipient, or the acknowledgement after the last one.          *)
LEMMA NextRecipientProgress ==
    ASSUME DeliveryInv, TypeOK', NEW w \in Workers, NEW e \in Entries,
           NEW n \in 1..Len(Stream[e].to), pos[w] = n, Served(e, n)',
           NEW location \in {"check", "fanout"}, NextRecipient(w, e, location),
           location = "check" => Stream[e].kind = "created",
           location = "fanout" => Stream[e].kind = "updated"
    PROVE  Progress(w, e)'
<1> USE DEF DeliveryInv
<1>1. CASE n < Len(Stream[e].to)
  <2>1. at'[w] = location /\ pos'[w] = n + 1
    BY <1>1 DEF NextRecipient, TypeOK
  <2>2. pos'[w] <= Len(Stream[e].to) /\ pos'[w] - 1 = n
    BY <1>1, <2>1, EntriesTyped
  <2>3. Served(e, pos[w] - 1)'
    BY <2>2
  <2> QED
    BY <2>1, <2>2, <2>3 DEF Progress
<1>2. CASE ~(n < Len(Stream[e].to))
  <2>1. at'[w] = "ack" /\ n = Len(Stream[e].to)
    BY <1>2, EntriesTyped DEF NextRecipient, TypeOK
  <2> QED
    BY <2>1 DEF Progress, Settled
<1> QED
  BY <1>1, <1>2

(* The entries workers hold are in the stream.                             *)
LEMMA FirstCarried ==
    ASSUME TypeOK, NEW w \in Workers, NEW e \in Entries, First(w, e),
           NEW i \in 1..Len(Stream[e].to)
    PROVE  e \in Carrying(<<Stream[e].subject, Stream[e].to[i]>>)
<1>1. e \in 1..length
  BY DEF TypeOK, First
<1>2. Stream[e].to[i] \in Recipients(e)
  BY EntriesTyped DEF Recipients
<1> QED
  BY <1>1, <1>2 DEF Carrying

(* A hand-over to the recipient a worker is busy with.                     *)
LEMMA HandOverGrows ==
    ASSUME DeliveryInv, TypeOK', NEW w \in Workers, NEW e \in Entries, First(w, e),
           at[w] \in {"hand", "fanout"}, handed' = HandOver(Pair(w, e)), UNCHANGED deleted
    PROVE  /\ Grows
           /\ \A n \in Nat : n = pos[w] => Served(e, n)'
           /\ \A p \in Pairs : handed'[p] > 0 => handed[p] > 0 \/ Carrying(p) # {}
<1> USE DEF DeliveryInv
<1>1. pos[w] \in 1..Len(Stream[e].to) /\ Pair(w, e) \in Pairs
  BY BusyPair
<1>2. \A q \in Pairs : handed[q] \in Nat /\
         handed'[q] = IF q = Pair(w, e) THEN handed[Pair(w, e)] + 1 ELSE handed[q]
  BY <1>1, HandOverTyped DEF TypeOK
<1>3. Grows
  BY <1>1, <1>2 DEF Grows
<1>4. Served(e, pos[w] - 1)
  BY DEF ProgressInv, Progress
<1>5. handed'[Pair(w, e)] > 0
  BY <1>1, <1>2
<1>6. ASSUME NEW n \in Nat, n = pos[w] PROVE Served(e, n)'
  <2>1. n \in Nat \ {0} /\ Served(e, n - 1)
    BY <1>1, <1>4, <1>6, EntriesTyped
  <2>2. handed'[<<Stream[e].subject, Stream[e].to[n]>>] > 0
    BY <1>5, <1>6 DEF Pair
  <2> QED
    BY <1>3, <2>1, <2>2, ServedNext
<1>7. Carrying(Pair(w, e)) # {}
  BY <1>1, FirstCarried DEF Pair
<1> QED
  BY <1>2, <1>3, <1>6, <1>7

-----------------------------------------------------------------------------
(* What the invariant says of a worker that is busy.                       *)
LEMMA BusyProgress ==
    ASSUME DeliveryInv, NEW w \in Workers, NEW e \in Entries, NEW location,
           Busy(w, location, e)
    PROVE  First(w, e) /\ Progress(w, e) /\ at[w] = location
BY DEF DeliveryInv, ProgressInv, Busy, First

(* A step in which nobody is served.                                       *)
LEMMA NobodyServed ==
    ASSUME DeliveryInv, UNCHANGED <<handed, deleted>>
    PROVE  Grows /\ \A p \in Pairs : handed'[p] > 0 => handed[p] > 0
BY DEF Grows, DeliveryInv, TypeOK

LEMMA CheckStep ==
    ASSUME DeliveryInv, TypeOK', NEW w \in Workers, NEW e \in Entries, Check(w, e)
    PROVE  DeliveryInv'
<1>1. First(w, e) /\ Progress(w, e) /\ at[w] = "check"
  BY BusyProgress DEF Check
<1>2. PICK n \in Nat : n = pos[w]
  BY DEF DeliveryInv, TypeOK
<1>3. n \in 1..Len(Stream[e].to) /\ Pair(w, e) \in Pairs
  BY <1>1, <1>2, BusyPair DEF DeliveryInv
<1>4. Served(e, n - 1) /\ Stream[e].kind = "created"
  BY <1>1, <1>2 DEF Progress
<1>5. Grows /\ \A p \in Pairs : handed'[p] > 0 => handed[p] > 0
  BY NobodyServed DEF Check, redis
<1>6. Progress(w, e)'
  <2>1. CASE Pair(w, e) \in done
    <3>1. handed'[<<Stream[e].subject, Stream[e].to[n]>>] > 0
      BY <1>2, <2>1 DEF Check, redis, DeliveryInv, KeysAreHanded, Pair
    <3>2. Served(e, n)'
      BY <1>3, <1>4, <1>5, <3>1, ServedNext, EntriesTyped DEF DeliveryInv
    <3> QED
      BY <1>2, <1>3, <1>4, <2>1, <3>2, NextRecipientProgress DEF Check
  <2>2. CASE Pair(w, e) \notin done
    <3>1. at'[w] = "hand" /\ pos'[w] = pos[w]
      BY <2>2 DEF Check, Goto, DeliveryInv, TypeOK
    <3>2. Served(e, n - 1)'
      BY <1>4, <1>5, ServedStable DEF DeliveryInv
    <3>3. Served(e, pos[w] - 1)'
      BY <1>2, <3>1, <3>2
    <3> QED
      BY <1>2, <1>3, <1>4, <3>1, <3>3, EntriesTyped DEF Progress
  <2> QED
    BY <2>1, <2>2
<1>7. /\ UNCHANGED <<batch, length, lastRead, pending, done, handed>>
      /\ \A v \in Workers : v # w => at'[v] = at[v] /\ pos'[v] = pos[v]
  BY DEF Check, redis, Goto, NextRecipient, DeliveryInv, TypeOK
<1> QED
  BY <1>1, <1>5, <1>6, <1>7, StayStep DEF DeliveryInv, KeysAreHanded

LEMMA HandStep ==
    ASSUME DeliveryInv, TypeOK', NEW w \in Workers, NEW e \in Entries, Hand(w, e)
    PROVE  DeliveryInv'
<1>1. First(w, e) /\ Progress(w, e) /\ at[w] = "hand"
  BY BusyProgress DEF Hand
<1>2. PICK n \in Nat : n = pos[w]
  BY DEF DeliveryInv, TypeOK
<1>3. n <= Len(Stream[e].to) /\ Served(e, n - 1) /\ Stream[e].kind = "created"
  BY <1>1, <1>2 DEF Progress
<1>4. /\ Grows /\ Served(e, n)'
      /\ \A p \in Pairs : handed'[p] > 0 => handed[p] > 0 \/ Carrying(p) # {}
  BY <1>1, <1>2, HandOverGrows DEF Hand
<1>5. at'[w] = "setkey" /\ pos'[w] = n
  BY <1>2 DEF Hand, Goto, DeliveryInv, TypeOK
<1>6. Progress(w, e)'
  <2>1. Served(e, n - 1)'
    BY <1>3, <1>4, ServedStable DEF DeliveryInv
  <2>2. Served(e, pos[w])' /\ Served(e, pos[w] - 1)'
    BY <1>4, <1>5, <2>1
  <2> QED
    BY <1>3, <1>5, <2>2 DEF Progress
<1>7. \A p \in done' : handed'[p] > 0
  <2>1. done' = done /\ done \subseteq Pairs
    BY DEF Hand, DeliveryInv, TypeOK
  <2>2. \A p \in Pairs : handed[p] \in Nat /\ handed'[p] \in Nat /\ handed'[p] >= handed[p]
    BY <1>4 DEF Grows, DeliveryInv, TypeOK
  <2> QED
    BY <2>1, <2>2 DEF DeliveryInv, KeysAreHanded
<1>8. /\ UNCHANGED <<batch, length, lastRead, pending>>
      /\ \A v \in Workers : v # w => at'[v] = at[v] /\ pos'[v] = pos[v]
  BY DEF Hand, Goto, DeliveryInv, TypeOK
<1> QED
  BY <1>1, <1>4, <1>6, <1>7, <1>8, StayStep

LEMMA SetKeyStep ==
    ASSUME DeliveryInv, TypeOK', NEW w \in Workers, NEW e \in Entries, SetKey(w, e)
    PROVE  DeliveryInv'
<1>1. First(w, e) /\ Progress(w, e) /\ at[w] = "setkey"
  BY BusyProgress DEF SetKey
<1>2. PICK n \in Nat : n = pos[w]
  BY DEF DeliveryInv, TypeOK
<1>3. /\ n \in 1..Len(Stream[e].to) /\ Served(e, n) /\ Served(e, n - 1)
      /\ Stream[e].kind = "created"
  BY <1>1, <1>2, BusyPair DEF Progress, DeliveryInv
<1>4. Grows /\ \A p \in Pairs : handed'[p] > 0 => handed[p] > 0
  BY NobodyServed DEF SetKey
<1>5. at'[w] = "mark" /\ pos'[w] = n
  BY <1>2 DEF SetKey, Goto, DeliveryInv, TypeOK
<1>6. Progress(w, e)'
  <2>1. Served(e, n)' /\ Served(e, n - 1)'
    BY <1>3, <1>4, ServedStable DEF DeliveryInv
  <2>2. Served(e, pos[w])' /\ Served(e, pos[w] - 1)'
    BY <1>5, <2>1
  <2> QED
    BY <1>3, <1>5, <2>2, EntriesTyped DEF Progress
<1>7. \A p \in done' : handed'[p] > 0
  <2>1. handed[Pair(w, e)] > 0
    BY <1>2, <1>3, EntriesTyped DEF Served, Pair
  <2> QED
    BY <2>1 DEF SetKey, DeliveryInv, KeysAreHanded
<1>8. /\ UNCHANGED <<batch, length, lastRead, pending>>
      /\ \A v \in Workers : v # w => at'[v] = at[v] /\ pos'[v] = pos[v]
  BY DEF SetKey, Goto, DeliveryInv, TypeOK
<1> QED
  BY <1>1, <1>4, <1>6, <1>7, <1>8, StayStep

(* Mark and MarkRaises: the recipient was served before.                   *)
LEMMA MarkStep ==
    ASSUME DeliveryInv, TypeOK', NEW w \in Workers, NEW e \in Entries,
           Mark(w, e) \/ MarkRaises(w, e)
    PROVE  DeliveryInv'
<1>1. First(w, e) /\ Progress(w, e) /\ at[w] = "mark"
  BY BusyProgress DEF Mark, MarkRaises
<1>2. PICK n \in Nat : n = pos[w]
  BY DEF DeliveryInv, TypeOK
<1>3. n \in 1..Len(Stream[e].to) /\ Served(e, n) /\ Stream[e].kind = "created"
  BY <1>1, <1>2, BusyPair DEF Progress, DeliveryInv
<1>4. /\ NextRecipient(w, e, "check")
      /\ UNCHANGED <<length, lastRead, pending, handed, done, deleted>>
  BY DEF Mark, MarkRaises, redis
<1>5. Grows /\ \A p \in Pairs : handed'[p] > 0 => handed[p] > 0
  BY <1>4, NobodyServed
<1>6. Progress(w, e)'
  <2>1. Served(e, n)'
    BY <1>3, <1>5, ServedStable DEF DeliveryInv
  <2> QED
    BY <1>2, <1>3, <1>4, <2>1, NextRecipientProgress
<1>7. UNCHANGED batch /\ \A v \in Workers : v # w => at'[v] = at[v] /\ pos'[v] = pos[v]
  BY <1>4 DEF NextRecipient, DeliveryInv, TypeOK
<1>8. \A p \in done' : handed'[p] > 0
  BY <1>4 DEF DeliveryInv, KeysAreHanded
<1> QED
  BY <1>1, <1>4, <1>5, <1>6, <1>7, <1>8, StayStep

LEMMA MembersStep ==
    ASSUME DeliveryInv, TypeOK', NEW w \in Workers, NEW e \in Entries, Members(w, e)
    PROVE  DeliveryInv'
<1>1. First(w, e) /\ Progress(w, e) /\ at[w] = "members"
  BY BusyProgress DEF Members
<1>2. Stream[e].kind = "updated" /\ pos[w] = 1
  BY <1>1 DEF Progress
<1>3. UNCHANGED <<batch, pos, length, lastRead, pending, handed, done, deleted>>
  BY DEF Members, Goto, redis
<1>4. Grows /\ \A p \in Pairs : handed'[p] > 0 => handed[p] > 0
  BY <1>3, NobodyServed
<1>5. Progress(w, e)'
  <2>1. CASE deleted \/ Stream[e].to = <<>>
    <3>1. at'[w] = "ack"
      BY <2>1 DEF Members, Goto, DeliveryInv, TypeOK
    <3>2. Settled(e)'
      <4>1. CASE deleted
        BY <1>2, <1>3, <4>1 DEF Settled
      <4>2. CASE Stream[e].to = <<>>
        <5>1. Len(Stream[e].to) = 0
          BY <4>2
        <5> QED
          BY <5>1 DEF Settled, Served
      <4> QED
        BY <2>1, <4>1, <4>2
    <3> QED
      BY <3>1, <3>2 DEF Progress
  <2>2. CASE ~(deleted \/ Stream[e].to = <<>>)
    <3>1. at'[w] = "fanout" /\ pos'[w] = 1
      BY <1>2, <1>3, <2>2 DEF Members, Goto, DeliveryInv, TypeOK
    <3>2. 1 <= Len(Stream[e].to)
      BY <2>2, EntriesTyped
    <3>3. Served(e, 0)'
      BY DEF Served
    <3>4. Served(e, pos[w] - 1)'
      BY <3>1, <3>3
    <3> QED
      BY <1>2, <3>1, <3>2, <3>4 DEF Progress
  <2> QED
    BY <2>1, <2>2
<1>6. \A v \in Workers : v # w => at'[v] = at[v] /\ pos'[v] = pos[v]
  BY <1>3 DEF Members, Goto, DeliveryInv, TypeOK
<1>7. \A p \in done' : handed'[p] > 0
  BY <1>3 DEF DeliveryInv, KeysAreHanded
<1> QED
  BY <1>1, <1>3, <1>4, <1>5, <1>6, <1>7, StayStep

(* Keys stay those of served recipients when hand-overs only grow.         *)
LEMMA KeysStay ==
    ASSUME DeliveryInv, TypeOK', Grows, NEW p \in done PROVE handed'[p] > 0
<1>1. /\ p \in Pairs /\ handed[p] \in Nat /\ handed'[p] \in Nat
      /\ handed'[p] >= handed[p] /\ handed[p] > 0
  BY DEF DeliveryInv, TypeOK, KeysAreHanded, Grows
<1> QED
  BY <1>1

LEMMA FanoutStep ==
    ASSUME DeliveryInv, TypeOK', NEW w \in Workers, NEW e \in Entries, Fanout(w, e)
    PROVE  DeliveryInv'
<1>1. First(w, e) /\ Progress(w, e) /\ at[w] = "fanout"
  BY BusyProgress DEF Fanout
<1>2. PICK n \in Nat : n = pos[w]
  BY DEF DeliveryInv, TypeOK
<1>3. n \in 1..Len(Stream[e].to) /\ Stream[e].kind = "updated"
  BY <1>1, <1>2, BusyPair DEF Progress, DeliveryInv
<1>4. /\ Grows /\ Served(e, n)'
      /\ \A p \in Pairs : handed'[p] > 0 => handed[p] > 0 \/ Carrying(p) # {}
  BY <1>1, <1>2, HandOverGrows DEF Fanout
<1>5. Progress(w, e)'
  BY <1>2, <1>3, <1>4, NextRecipientProgress DEF Fanout
<1>6. /\ UNCHANGED <<batch, length, lastRead, pending, done>>
      /\ \A v \in Workers : v # w => at'[v] = at[v] /\ pos'[v] = pos[v]
  BY DEF Fanout, NextRecipient, DeliveryInv, TypeOK
<1>7. \A p \in done' : handed'[p] > 0
  BY <1>4, <1>6, KeysStay
<1> QED
  BY <1>1, <1>4, <1>5, <1>6, <1>7, StayStep

(* An entry that is given up is left pending, with what was served.        *)
LEMMA DispatchRaisesStep ==
    ASSUME DeliveryInv, TypeOK', NEW w \in Workers, NEW e \in Entries, DispatchRaises(w, e)
    PROVE  DeliveryInv'
<1>1. First(w, e) /\ Progress(w, e) /\ at[w] \in {"hand", "fanout", "setkey"}
  BY BusyProgress DEF DispatchRaises
<1>2. PICK S \in SUBSET Entries : Continue(w, S)
  <2>1. batch[w] \ {e} \in SUBSET Entries
    BY EntriesTyped DEF DeliveryInv, TypeOK
  <2> QED
    BY <2>1 DEF DispatchRaises
<1>3. UNCHANGED deleted /\ length <= length' /\ Acked' = Acked
  BY DEF DispatchRaises, Acked, DeliveryInv, TypeOK
<1>4. CASE at[w] = "setkey"
  <2>1. PICK n \in Nat : n = pos[w]
    BY DEF DeliveryInv, TypeOK
  <2>2. n \in 1..Len(Stream[e].to) /\ Served(e, n)
    BY <1>1, <1>4, <2>1, BusyPair DEF Progress, DeliveryInv
  <2>3. handed[Pair(w, e)] > 0
    BY <2>1, <2>2, EntriesTyped DEF Served, Pair
  <2>4. UNCHANGED handed /\ done' \subseteq done \cup {Pair(w, e)}
    BY <1>4 DEF DispatchRaises, Busy
  <2>5. Grows /\ \A p \in Pairs : handed'[p] > 0 => handed[p] > 0
    BY <1>3, <2>4, NobodyServed
  <2>6. \A p \in done' : handed'[p] > 0
    BY <2>3, <2>4 DEF DeliveryInv, KeysAreHanded
  <2> QED
    BY <1>2, <1>3, <2>5, <2>6, ContinueStep
<1>5. CASE at[w] # "setkey"
  <2>1. UNCHANGED done /\ (handed' = handed \/ handed' = HandOver(Pair(w, e)))
    BY <1>5 DEF DispatchRaises, Busy
  <2>2. Grows /\ \A p \in Pairs : handed'[p] > 0 => handed[p] > 0 \/ Carrying(p) # {}
    BY <1>1, <1>3, <1>5, <2>1, NobodyServed, HandOverGrows
  <2>3. \A p \in done' : handed'[p] > 0
    BY <2>1, <2>2, KeysStay
  <2> QED
    BY <1>2, <1>3, <2>2, <2>3, ContinueStep
<1> QED
  BY <1>4, <1>5

LEMMA AckStep ==
    ASSUME DeliveryInv, TypeOK', NEW w \in Workers, NEW e \in Entries, Ack(w, e)
    PROVE  DeliveryInv'
<1>1. Settled(e)
  BY BusyProgress DEF Ack, Progress
<1>2. PICK S \in SUBSET Entries : Continue(w, S)
  <2>1. batch[w] \ {e} \in SUBSET Entries
    BY EntriesTyped DEF DeliveryInv, TypeOK
  <2> QED
    BY <2>1 DEF Ack
<1>3. /\ UNCHANGED <<handed, done, deleted>> /\ length <= length'
      /\ Acked' \subseteq Acked \cup {e}
  BY DEF Ack, redis, Acked, DeliveryInv, TypeOK
<1>4. Grows /\ \A p \in Pairs : handed'[p] > 0 => handed[p] > 0
  BY <1>3, NobodyServed
<1>5. \A p \in done' : handed'[p] > 0
  BY <1>3 DEF DeliveryInv, KeysAreHanded
<1> QED
  BY <1>1, <1>2, <1>3, <1>4, <1>5, ContinueStep

LEMMA ReclaimStep ==
    ASSUME DeliveryInv, TypeOK', NEW w \in Workers, Reclaim(w)
    PROVE  DeliveryInv'
<1>1. PICK S \in SUBSET Entries : Continue(w, S)
  <2>1. FirstOf(idle) \subseteq idle
    BY DEF FirstOf
  <2>2. idle \subseteq Entries
    BY EntriesTyped DEF DeliveryInv, TypeOK
  <2>3. FirstOf(idle) \in SUBSET Entries
    BY <2>1, <2>2
  <2> QED
    BY <2>3 DEF Reclaim
<1>2. UNCHANGED <<handed, done, deleted>> /\ length <= length' /\ Acked' = Acked
  BY DEF Reclaim, redis, Acked, DeliveryInv, TypeOK
<1>3. Grows /\ \A p \in Pairs : handed'[p] > 0 => handed[p] > 0
  BY <1>2, NobodyServed
<1>4. \A p \in done' : handed'[p] > 0
  BY <1>2 DEF DeliveryInv, KeysAreHanded
<1> QED
  BY <1>1, <1>2, <1>3, <1>4, ContinueStep

(* What is read is pending: nothing becomes acknowledged.                  *)
LEMMA ReadNewStep ==
    ASSUME DeliveryInv, TypeOK', NEW w \in Workers, ReadNew(w)
    PROVE  DeliveryInv'
<1> DEFINE new == FirstOf((lastRead + 1)..length)
<1>0. lastRead \in Nat /\ length \in Nat /\ lastRead < length /\ length <= Len(Stream)
  BY EntriesTyped DEF ReadNew, DeliveryInv, TypeOK
<1>1. /\ Cardinality(new) \in Nat /\ lastRead + Cardinality(new) <= length
      /\ new = (lastRead + 1)..(lastRead + Cardinality(new))
  BY <1>0, FirstOfInterval
<1>2. /\ lastRead' = lastRead + Cardinality(new) /\ pending' = pending \cup new
      /\ Continue(w, new) /\ UNCHANGED <<handed, done, deleted, length>>
  BY DEF ReadNew, redis
<1> HIDE DEF new
<1>3. PICK S \in SUBSET Entries : Continue(w, S)
  <2>1. new \in SUBSET Entries
    BY <1>0, <1>1, EntriesTyped
  <2> QED
    BY <1>2, <2>1
<1>4. Acked' \subseteq Acked
  BY <1>0, <1>1, <1>2 DEF Acked
<1>5. Grows /\ \A p \in Pairs : handed'[p] > 0 => handed[p] > 0
  BY <1>2, NobodyServed
<1>6. length <= length' /\ \A p \in done' : handed'[p] > 0
  BY <1>0, <1>2 DEF DeliveryInv, KeysAreHanded
<1> QED
  BY <1>3, <1>4, <1>5, <1>6, ContinueStep

LEMMA AbandonStep ==
    ASSUME DeliveryInv, TypeOK', NEW w \in Workers, Abandon(w)
    PROVE  DeliveryInv'
<1>1. /\ UNCHANGED <<handed, done, deleted>> /\ length <= length' /\ Acked' = Acked
      /\ Continue(w, {})
  BY DEF Abandon, redis, Acked, DeliveryInv, TypeOK
<1>2. Grows /\ \A p \in Pairs : handed'[p] > 0 => handed[p] > 0
  BY <1>1, NobodyServed
<1>3. \A p \in done' : handed'[p] > 0
  BY <1>1 DEF DeliveryInv, KeysAreHanded
<1> QED
  BY <1>1, <1>2, <1>3, ContinueStep

LEMMA DeliveryInvInit == Init => DeliveryInv
<1> SUFFICES ASSUME Init PROVE DeliveryInv
  OBVIOUS
<1>1. Acked = {} /\ \A w \in Workers, e \in Entries : ~First(w, e)
  BY DEF Init, Acked, First
<1> QED
  BY <1>1, TypeInit
     DEF Init, DeliveryInv, ProgressInv, KeysAreHanded, AckedIsHanded, NothingUncarried

LEMMA DeliveryInvStep == DeliveryInv /\ [Next]_vars => DeliveryInv'
<1> SUFFICES ASSUME DeliveryInv, [Next]_vars PROVE DeliveryInv'
  OBVIOUS
<1>0. TypeOK'
  BY TypeStep DEF DeliveryInv
<1>1. CASE Relayed
  <2>1. length <= length'
    BY <1>1 DEF Relayed, DeliveryInv, TypeOK
  <2> QED
    BY <1>0, <1>1, <2>1, QuietStep DEF Relayed, redis
<1>2. ASSUME NEW w \in Workers, Reclaim(w) \/ ReadNew(w) \/ Abandon(w) PROVE DeliveryInv'
  BY <1>0, <1>2, ReclaimStep, ReadNewStep, AbandonStep
<1>3. ASSUME NEW w \in Workers, NEW e \in Entries, WorkerStep(w, e) PROVE DeliveryInv'
  BY <1>0, <1>3, CheckStep, HandStep, SetKeyStep, MarkStep, MembersStep, FanoutStep, AckStep
     DEF WorkerStep
<1>4. ASSUME NEW w \in Workers, NEW e \in Entries, MarkRaises(w, e) \/ DispatchRaises(w, e)
      PROVE  DeliveryInv'
  BY <1>0, <1>4, MarkStep, DispatchRaisesStep
<1>5. CASE \/ \E e \in Entries : OrphanIdles(e) \/ HolderOverruns(e)
           \/ \E p \in Pairs : KeyExpires(p)
           \/ DeleteConversation
           \/ UNCHANGED vars
  <2>1. /\ UNCHANGED <<batch, at, pos, handed, lastRead, pending>> /\ UNCHANGED length
        /\ (deleted => deleted') /\ done' \subseteq done
    BY <1>5 DEF OrphanIdles, HolderOverruns, KeyExpires, DeleteConversation, vars, redis
  <2>2. length <= length'
    BY <2>1 DEF DeliveryInv, TypeOK
  <2> QED
    BY <1>0, <2>1, <2>2, QuietStep
<1> QED
  BY <1>1, <1>2, <1>3, <1>4, <1>5 DEF Next

THEOREM DeliveryInvariant == Spec => []DeliveryInv
BY DeliveryInvInit, DeliveryInvStep, PTL DEF Spec

(* Every variable keeps its type; in particular a worker never runs past   *)
(* the recipients of its entry.                                            *)
THEOREM TypeCorrect == Spec => []TypeOK
<1>1. DeliveryInv => TypeOK
  BY DEF DeliveryInv
<1> QED
  BY <1>1, DeliveryInvariant, PTL

(* No entry is acknowledged before all its recipients were served,         *)
(* whichever workers, errors, crashes and take-overs it went through.      *)
THEOREM NothingSkipped == Spec => []AckedIsHanded
<1>1. DeliveryInv => AckedIsHanded
  BY DEF DeliveryInv
<1> QED
  BY <1>1, DeliveryInvariant, PTL

-----------------------------------------------------------------------------
(* The kind of an entry is the kind of its subject.                        *)
LEMMA SameSubject ==
    ASSUME NEW d \in Entries, NEW e \in Entries, Stream[d].subject = Stream[e].subject
    PROVE  Stream[d].kind = Stream[e].kind
BY DEF Entries

(* Step simulation: an entry appended is an Accept of its recipients, the  *)
(* first hand-over of a message to one of them a Relay, and every other    *)
(* step a stutter of ReliableRelay.                                        *)
LEMMA PromiseAccept ==
    ASSUME DeliveryInv, TypeOK', Relayed
    PROVE  (\E S \in SUBSET Pairs : Promise!Accept(S)) \/ UNCHANGED Promise!vars
<1> DEFINE got == {p \in MessagePairs : handed[p] > 0}
<1>1. UNCHANGED handed /\ length' = length + 1 /\ length \in Nat
  BY DEF Relayed, redis, DeliveryInv, TypeOK
<1>2. \A p \in Pairs : Carrying(p) \subseteq Carrying(p)'
  BY <1>1 DEF Carrying
<1>3. MessagePairs \subseteq MessagePairs' /\ MessagePairs' \subseteq Pairs
  BY <1>2 DEF MessagePairs
<1>4. ASSUME NEW p \in MessagePairs', handed[p] > 0 PROVE p \in MessagePairs
  <2>1. p \in Pairs /\ Carrying(p) # {}
    BY <1>3, <1>4 DEF DeliveryInv, NothingUncarried
  <2>2. PICK d \in Carrying(p) : TRUE
    BY <2>1
  <2>3. PICK e \in Carrying(p)' : Stream[e].kind = "created"
    BY DEF MessagePairs
  <2>4. d \in Entries /\ e \in Entries
    BY EntriesTyped DEF Carrying, DeliveryInv, TypeOK
  <2>5. Stream[d].subject = p[1] /\ Stream[e].subject = p[1]
    BY <2>2, <2>3 DEF Carrying
  <2>6. Stream[d].kind = "created"
    BY <2>3, <2>4, <2>5, SameSubject
  <2> QED
    BY <2>1, <2>2, <2>6 DEF MessagePairs
<1>5. got' = got
  BY <1>1, <1>3, <1>4
<1> DEFINE S == MessagePairs' \ MessagePairs
<1>6. CASE S = {}
  BY <1>3, <1>5, <1>6 DEF Promise!vars
<1>7. CASE S # {}
  <2>1. S \in SUBSET Pairs /\ MessagePairs' = MessagePairs \cup S
        /\ S \cap MessagePairs = {}
    BY <1>3
  <2>2. Promise!Accept(S)
    BY <1>5, <1>7, <2>1 DEF Promise!Accept
  <2> QED
    BY <2>1, <2>2
<1> QED
  BY <1>6, <1>7

LEMMA PromiseStutter ==
    ASSUME UNCHANGED <<length, handed>>
    PROVE  UNCHANGED Promise!vars
<1>1. MessagePairs' = MessagePairs
  BY DEF MessagePairs, Carrying
<1> QED
  BY <1>1 DEF Promise!vars

LEMMA PromiseRelay ==
    ASSUME DeliveryInv, NEW w \in Workers, NEW e \in Entries, First(w, e),
           at[w] \in {"hand", "fanout"}, handed' = HandOver(Pair(w, e)), UNCHANGED length
    PROVE  (\E p \in Pairs : Promise!Relay(p)) \/ UNCHANGED Promise!vars
<1> DEFINE got == {q \in MessagePairs : handed[q] > 0}
<1> USE DEF DeliveryInv
<1>1. PICK p \in Pairs : p = Pair(w, e)
  BY BusyPair
<1>2. \A q \in Pairs : handed[q] \in Nat /\
         handed'[q] = IF q = p THEN handed[p] + 1 ELSE handed[q]
  BY <1>1, HandOverTyped DEF TypeOK
<1>3. MessagePairs' = MessagePairs /\ MessagePairs \subseteq Pairs
  BY DEF MessagePairs, Carrying
<1>4. \A q \in Pairs : handed'[q] > 0 <=> handed[q] > 0 \/ q = p
  BY <1>1, <1>2
<1>5. CASE p \in MessagePairs /\ handed[p] = 0
  <2>1. p \in MessagePairs \ got /\ got' = got \cup {p}
    BY <1>3, <1>4, <1>5
  <2>2. Promise!Relay(p)
    BY <1>3, <2>1 DEF Promise!Relay
  <2> QED
    BY <1>1, <2>2
<1>6. CASE p \notin MessagePairs \/ handed[p] # 0
  <2>1. got' = got
    BY <1>1, <1>2, <1>3, <1>4, <1>6
  <2> QED
    BY <1>3, <2>1 DEF Promise!vars
<1> QED
  BY <1>5, <1>6

LEMMA PromiseStep == DeliveryInv /\ [Next]_vars => [Promise!Next]_(Promise!vars)
<1> SUFFICES ASSUME DeliveryInv, [Next]_vars PROVE [Promise!Next]_(Promise!vars)
  OBVIOUS
<1>0. TypeOK'
  BY TypeStep DEF DeliveryInv
<1>1. CASE Relayed
  BY <1>0, <1>1, PromiseAccept DEF Promise!Next
<1>2. ASSUME NEW w \in Workers, NEW e \in Entries, Hand(w, e) \/ Fanout(w, e)
      PROVE  [Promise!Next]_(Promise!vars)
  <2>1. /\ First(w, e) /\ at[w] \in {"hand", "fanout"}
        /\ handed' = HandOver(Pair(w, e)) /\ UNCHANGED length
    BY <1>2, BusyProgress DEF Hand, Fanout
  <2> QED
    BY <2>1, PromiseRelay DEF Promise!Next
<1>3. ASSUME NEW w \in Workers, NEW e \in Entries, DispatchRaises(w, e)
      PROVE  [Promise!Next]_(Promise!vars)
  <2>1. CASE UNCHANGED handed
    BY <1>3, <2>1, PromiseStutter DEF DispatchRaises
  <2>2. CASE ~UNCHANGED handed
    <3>1. /\ First(w, e) /\ at[w] \in {"hand", "fanout"}
          /\ handed' = HandOver(Pair(w, e)) /\ UNCHANGED length
      BY <1>3, <2>2, BusyProgress DEF DispatchRaises
    <3> QED
      BY <3>1, PromiseRelay DEF Promise!Next
  <2> QED
    BY <2>1, <2>2
<1>4. CASE UNCHANGED <<length, handed>>
  BY <1>4, PromiseStutter
<1> QED
  BY <1>1, <1>2, <1>3, <1>4
     DEF Next, WorkerStep, Reclaim, ReadNew, Check, SetKey, Mark, MarkRaises, Members, Ack,
         Abandon, OrphanIdles, HolderOverruns, KeyExpires, DeleteConversation, vars, redis

LEMMA PromiseInit == Init => Promise!Init
<1> SUFFICES ASSUME Init PROVE Promise!Init
  OBVIOUS
<1>1. MessagePairs = {}
  BY DEF Init, MessagePairs, Carrying
<1> QED
  BY <1>1 DEF Promise!Init

(* The workers implement the safety part of the relaying promise: a        *)
(* message reaches only recipients that an entry in the stream names, and  *)
(* a second copy of the entry accepts nobody twice.                        *)
THEOREM WorkersImplementPromise == Spec => Promise!Safety
BY PromiseInit, PromiseStep, DeliveryInvariant, PTL DEF Spec, Promise!Safety

-----------------------------------------------------------------------------
(* Marks and faults.  A worker that has set a key is the one about to mark *)
(* the recipient, and forgets to only by a fault.                          *)
MarkedBy(w, p) == \E e \in Entries : Busy(w, "mark", e) /\ Pair(w, e) = p

Lost == {p \in done \ marked : ~Marking(p)}

LostInv == ~deleted => IsFiniteSet(Lost) /\ Cardinality(Lost) <= faults

LEMMA LostNoMore ==
    ASSUME TypeOK, LostInv, deleted => deleted', NEW paid \in {0, 1}, faults' = faults + paid,
           Lost' \subseteq Lost
    PROVE  LostInv'
<1>1. faults \in Nat
  BY DEF TypeOK
<1>2. ASSUME ~deleted PROVE IsFiniteSet(Lost') /\ Cardinality(Lost') <= faults'
  <2>1. IsFiniteSet(Lost) /\ Cardinality(Lost) <= faults
    BY <1>2 DEF LostInv
  <2>2. IsFiniteSet(Lost') /\ Cardinality(Lost') <= Cardinality(Lost)
    BY <2>1, FS_Subset
  <2>3. Cardinality(Lost') \in Nat /\ Cardinality(Lost) \in Nat
    BY <2>1, <2>2, FS_CardinalityType
  <2>. QED  BY <1>1, <2>1, <2>2, <2>3
<1>. QED  BY <1>2 DEF LostInv

LEMMA LostOneMore ==
    ASSUME TypeOK, LostInv, deleted' = deleted, faults' = faults + 1,
           NEW p, Lost' \subseteq Lost \cup {p}
    PROVE  LostInv'
<1>1. faults \in Nat
  BY DEF TypeOK
<1>2. ASSUME ~deleted PROVE IsFiniteSet(Lost') /\ Cardinality(Lost') <= faults'
  <2>1. IsFiniteSet(Lost) /\ Cardinality(Lost) <= faults
    BY <1>2 DEF LostInv
  <2>2. /\ IsFiniteSet(Lost \cup {p})
        /\ Cardinality(Lost \cup {p}) =
              IF p \in Lost THEN Cardinality(Lost) ELSE Cardinality(Lost) + 1
    BY <2>1, FS_AddElement
  <2>3. IsFiniteSet(Lost') /\ Cardinality(Lost') <= Cardinality(Lost \cup {p})
    BY <2>2, FS_Subset
  <2>4. /\ Cardinality(Lost') \in Nat /\ Cardinality(Lost) \in Nat
        /\ Cardinality(Lost \cup {p}) \in Nat
    BY <2>1, <2>2, <2>3, FS_CardinalityType
  <2>. QED  BY <1>1, <2>1, <2>2, <2>3, <2>4
<1>. QED  BY <1>2 DEF LostInv

(* A step of worker w leaves the others to their marks.                    *)
LEMMA OthersMark ==
    ASSUME NEW w \in Workers, NEW p, Marking(p), ~MarkedBy(w, p),
           \A v \in Workers \ {w} : batch'[v] = batch[v] /\ at'[v] = at[v] /\ pos'[v] = pos[v]
    PROVE  Marking(p)'
<1>1. PICK v \in Workers, e \in Entries : Busy(v, "mark", e) /\ Pair(v, e) = p
  BY DEF Marking
<1>2. v # w
  BY <1>1 DEF MarkedBy
<1>3. Busy(v, "mark", e)' /\ Pair(v, e)' = p
  BY <1>1, <1>2 DEF Busy, Pair
<1>. QED  BY <1>3 DEF Marking

LEMMA MarksOne ==
    ASSUME TypeOK, NEW w \in Workers, NEW e \in Entries, Busy(w, "mark", e), NEW p, MarkedBy(w, p)
    PROVE  p = Pair(w, e)
<1>1. PICK f \in Entries : Busy(w, "mark", f) /\ Pair(w, f) = p
  BY DEF MarkedBy
<1>2. e \in Nat /\ f \in Nat
  BY EntriesTyped
<1>3. e = f
  BY <1>1, <1>2 DEF Busy
<1>. QED  BY <1>1, <1>3

(* Steps of a worker that is not about to mark, and set no key.            *)
LEMMA MarksStay ==
    ASSUME TypeOK, LostInv, NEW w \in Workers, at[w] # "mark", UNCHANGED <<marked, deleted>>,
           done' \subseteq done, NEW paid \in {0, 1}, faults' = faults + paid,
           \A v \in Workers \ {w} : batch'[v] = batch[v] /\ at'[v] = at[v] /\ pos'[v] = pos[v]
    PROVE  LostInv'
<1>1. \A p : ~MarkedBy(w, p)
  BY DEF MarkedBy, Busy
<1>2. \A p : Marking(p) => Marking(p)'
  BY <1>1, OthersMark
<1>3. Lost' \subseteq Lost
  BY <1>2 DEF Lost
<1>. QED  BY <1>3, LostNoMore

LEMMA OthersAlone ==
    ASSUME TypeOK, NEW w \in Workers,
           \/ \E S : Continue(w, S)
           \/ \E location : Goto(w, location)
           \/ \E e, location : NextRecipient(w, e, location)
    PROVE  \A v \in Workers \ {w} : batch'[v] = batch[v] /\ at'[v] = at[v] /\ pos'[v] = pos[v]
BY DEF TypeOK, Continue, Goto, NextRecipient

LEMMA LostSetKey ==
    ASSUME TypeOK, LostInv, NEW w \in Workers, NEW e \in Entries, SetKey(w, e)
    PROVE  LostInv'
<1>1. /\ at[w] = "setkey" /\ at' = [at EXCEPT ![w] = "mark"] /\ UNCHANGED <<batch, pos, marked, deleted>>
      /\ faults' = faults /\ done' = done \cup {Pair(w, e)}
      /\ e \in batch[w] /\ \A f \in batch[w] : e <= f
  BY DEF SetKey, Busy, Goto, counts
<1>2. \A p : Marking(p) => Marking(p)'
  <2>1. \A p : ~MarkedBy(w, p)
    BY <1>1 DEF MarkedBy, Busy
  <2>2. \A v \in Workers \ {w} : batch'[v] = batch[v] /\ at'[v] = at[v] /\ pos'[v] = pos[v]
    BY <1>1 DEF TypeOK
  <2>. QED  BY <2>1, <2>2, OthersMark
<1>3. ASSUME NEW p, p = Pair(w, e) PROVE Marking(p)'
  <2>1. Busy(w, "mark", e)' /\ Pair(w, e)' = Pair(w, e)
    BY <1>1 DEF Busy, Pair, TypeOK
  <2>. QED  BY <1>3, <2>1 DEF Marking
<1>4. Lost' \subseteq Lost
  BY <1>1, <1>2, <1>3 DEF Lost
<1>5. faults' = faults + 0
  BY <1>1 DEF TypeOK
<1>. QED  BY <1>1, <1>4, <1>5, LostNoMore

LEMMA LostMark ==
    ASSUME TypeOK, LostInv, NEW w \in Workers, NEW e \in Entries, Mark(w, e) \/ MarkRaises(w, e)
    PROVE  LostInv'
<1>1. /\ Busy(w, "mark", e) /\ NextRecipient(w, e, "check") /\ UNCHANGED <<done, deleted>>
  BY DEF Mark, MarkRaises, redis
<1>2. \A p : p # Pair(w, e) /\ Marking(p) => Marking(p)'
  BY <1>1, MarksOne, OthersAlone, OthersMark
<1>3. CASE Mark(w, e)
  <2>1. faults' = faults + 0
    BY <1>3 DEF Mark, counts, TypeOK
  <2>2. CASE deleted
    BY <1>1, <2>2 DEF LostInv
  <2>3. CASE ~deleted
    <3>1. marked' = marked \cup {Pair(w, e)}
      BY <1>3, <2>3 DEF Mark
    <3>2. Lost' \subseteq Lost
      BY <1>1, <1>2, <3>1 DEF Lost
    <3>. QED  BY <1>1, <2>1, <3>2, LostNoMore
  <2>. QED  BY <2>2, <2>3
<1>4. CASE MarkRaises(w, e)
  <2>1. faults' = faults + 1 /\ marked' = marked
    BY <1>4 DEF MarkRaises, Fault
  <2>2. Lost' \subseteq Lost \cup {Pair(w, e)}
    BY <1>1, <1>2, <2>1 DEF Lost
  <2>. QED  BY <1>1, <2>1, <2>2, LostOneMore
<1>. QED  BY <1>3, <1>4

(* A worker that dies before its mark loses it.                            *)
LEMMA LostAbandon ==
    ASSUME TypeOK, LostInv, NEW w \in Workers, Abandon(w)
    PROVE  LostInv'
<1>1. /\ UNCHANGED <<done, marked, deleted>> /\ faults' = faults + 1
      /\ \A v \in Workers \ {w} : batch'[v] = batch[v] /\ at'[v] = at[v] /\ pos'[v] = pos[v]
  BY OthersAlone DEF Abandon, Fault, redis
<1>2. CASE \E e \in Entries : Busy(w, "mark", e)
  <2>1. PICK e \in Entries : Busy(w, "mark", e)
    BY <1>2
  <2>2. \A p : p # Pair(w, e) /\ Marking(p) => Marking(p)'
    BY <1>1, <2>1, MarksOne, OthersMark
  <2>3. Lost' \subseteq Lost \cup {Pair(w, e)}
    BY <1>1, <2>2 DEF Lost
  <2>. QED  BY <1>1, <2>3, LostOneMore
<1>3. CASE ~\E e \in Entries : Busy(w, "mark", e)
  <2>1. \A p : Marking(p) => Marking(p)'
    BY <1>1, <1>3, OthersMark DEF MarkedBy
  <2>2. Lost' \subseteq Lost
    BY <1>1, <2>1 DEF Lost
  <2>. QED  BY <1>1, <2>2, LostNoMore
<1>. QED  BY <1>2, <1>3

(* Redis fails: before or after it set a key.                              *)
LEMMA LostDispatchRaises ==
    ASSUME TypeOK, LostInv, NEW w \in Workers, NEW e \in Entries, DispatchRaises(w, e)
    PROVE  LostInv'
<1>1. /\ faults' = faults + 1 /\ UNCHANGED <<marked, deleted>> /\ at[w] # "mark"
      /\ done' \subseteq done \cup {Pair(w, e)} /\ \E S : Continue(w, S)
  BY DEF DispatchRaises, Fault, Busy
<1>2. \A p : Marking(p) => Marking(p)'
  BY <1>1, OthersAlone, OthersMark DEF MarkedBy, Busy
<1>3. Lost' \subseteq Lost \cup {Pair(w, e)}
  BY <1>1, <1>2 DEF Lost
<1>. QED  BY <1>1, <1>3, LostOneMore

LEMMA LostStep == TypeOK /\ LostInv /\ [Next]_vars => LostInv'
<1>. SUFFICES ASSUME TypeOK, LostInv, [Next]_vars PROVE LostInv'
  OBVIOUS
<1>0. faults \in Nat
  BY DEF TypeOK
<1>1. ASSUME UNCHANGED <<batch, at, pos, marked>>, done' \subseteq done, deleted => deleted',
             NEW paid \in {0, 1}, faults' = faults + paid
      PROVE  LostInv'
  <2>1. \A p : Marking(p)' <=> Marking(p)
    BY <1>1 DEF Marking, Busy, Pair
  <2>2. Lost' \subseteq Lost
    BY <1>1, <2>1 DEF Lost
  <2>. QED  BY <1>1, <2>2, LostNoMore
<1>2. CASE \/ Relayed \/ DeleteConversation \/ UNCHANGED vars
           \/ \E e \in Entries : OrphanIdles(e) \/ HolderOverruns(e)
  <2>1. /\ UNCHANGED <<batch, at, pos, marked>> /\ done' \subseteq done
        /\ (deleted => deleted') /\ faults' = faults
    BY <1>2 DEF Relayed, DeleteConversation, vars, OrphanIdles, HolderOverruns, redis, counts
  <2>2. faults' = faults + 0
    BY <1>0, <2>1
  <2>. QED  BY <1>1, <2>1, <2>2
<1>3. ASSUME NEW p \in Pairs, KeyExpires(p) PROVE LostInv'
  <2>1. /\ UNCHANGED <<batch, at, pos, marked>> /\ done' \subseteq done
        /\ (deleted => deleted') /\ faults' = faults + 1
    BY <1>3 DEF KeyExpires, Fault
  <2>. QED  BY <1>1, <2>1
<1>4. ASSUME NEW w \in Workers, Reclaim(w) \/ ReadNew(w) PROVE LostInv'
  <2>1. /\ at[w] # "mark" /\ UNCHANGED <<marked, deleted>> /\ done' \subseteq done
        /\ faults' = faults + 0 /\ \E S : Continue(w, S)
    BY <1>0, <1>4 DEF Reclaim, ReadNew, redis, counts
  <2>. QED  BY <2>1, OthersAlone, MarksStay
<1>5. ASSUME NEW w \in Workers, NEW e \in Entries,
             Check(w, e) \/ Hand(w, e) \/ Members(w, e) \/ Fanout(w, e) \/ Ack(w, e)
      PROVE  LostInv'
  <2>1. /\ at[w] # "mark" /\ UNCHANGED <<marked, deleted>> /\ done' \subseteq done
        /\ faults' = faults + 0
    BY <1>0, <1>5 DEF Check, Hand, Members, Fanout, Ack, Busy, redis, counts
  <2>2. \/ \E S : Continue(w, S)
        \/ \E location : Goto(w, location)
        \/ \E f, location : NextRecipient(w, f, location)
    BY <1>5 DEF Check, Hand, Members, Fanout, Ack
  <2>. QED  BY <2>1, <2>2, OthersAlone, MarksStay
<1>6. CASE Next
  BY <1>2, <1>3, <1>4, <1>5, <1>6, LostSetKey, LostMark, LostAbandon, LostDispatchRaises
     DEF Next, WorkerStep
<1>. QED  BY <1>2, <1>6

(* However workers fail and take entries over, each fault loses at most    *)
(* one mark of a message whose key is set.                                 *)
THEOREM LostMarksArePaid == Spec => []LostMarksNeedFaults
<1>1. Init => LostInv
  <2>. SUFFICES ASSUME Init PROVE LostInv
    OBVIOUS
  <2>1. Lost = {} /\ faults = 0
    BY DEF Init, Lost
  <2>. QED  BY <2>1, FS_EmptySet DEF LostInv
<1>2. LostInv => LostMarksNeedFaults
  BY DEF LostInv, Lost, LostMarksNeedFaults
<1>. QED  BY <1>1, <1>2, LostStep, TypeCorrect, PTL DEF Spec

-----------------------------------------------------------------------------
(* Where an attempt to hand a message over may be: with an entry that a    *)
(* worker may still take, or with a worker that holds it.                  *)
FreePlace(e) == <<"free", e, 0>>
HeldPlace(e, w) == <<"held", e, w>>

Places == {FreePlace(e) : e \in Entries} \cup {HeldPlace(e, w) : e \in Entries, w \in Workers}

Free(e) == e > lastRead \/ e \in idle \/ (e \in pending /\ ~Held(e))

Attempts ==
    {c \in Places : /\ c[2] \in Created
                    /\ IF c[1] = "free" THEN Free(c[2]) ELSE c[2] \in batch[c[3]]}

Of(s, C) == {c \in C : Stream[c[2]].subject = s}
Copies(s) == {e \in Created : Stream[e].subject = s}

(* The attempt c is just before location with the recipient p.             *)
Facing(c, location, p) ==
    /\ c[1] = "held" /\ at[c[3]] = location
    /\ First(c[3], c[2]) /\ Pair(c[3], c[2]) = p

(* Will the attempt hand p its message, if nothing else happens?           *)
Owes(c, p) == IF p \in done THEN Facing(c, "hand", p) ELSE ~Facing(c, "setkey", p)

Live == {x \in Pairs \X Attempts : Stream[x[2][2]].subject = x[1][1] /\ Owes(x[2], x[1])}
Fresh == {p \in MessagePairs : handed[p] = 0}

Allowance == faults * (1 + overruns + Repeats) + Cardinality(Users) * (overruns + Repeats)

IdleHoldsNothing == \A w \in Workers : at[w] = "idle" => batch[w] = {}

(* Only a second copy or a take-over from a live worker adds an attempt.   *)
AttemptsBounded ==
    \A s \in Subjects :
       /\ IsFiniteSet(Of(s, Attempts))
       /\ Cardinality(Of(s, Attempts)) <= Cardinality(Copies(s)) + overruns

DuplicatesPaid ==
    /\ IsFiniteSet(Duplicates) /\ IsFiniteSet(Live) /\ IsFiniteSet(Fresh)
    /\ Cardinality(Duplicates) + Cardinality(Live) <= Cardinality(Fresh) + Allowance

-----------------------------------------------------------------------------
LEMMA ImageBound ==
    ASSUME NEW S, IsFiniteSet(S), NEW F
    PROVE  IsFiniteSet({F[x] : x \in S}) /\ Cardinality({F[x] : x \in S}) <= Cardinality(S)
<1> DEFINE h == [x \in S |-> F[x]]
           T == {F[x] : x \in S}
<1>1. h \in Surjection(S, T)
  BY DEF Surjection
<1> HIDE DEF h, T
<1>2. IsFiniteSet(T) /\ Cardinality(T) <= Cardinality(S)
  BY <1>1, FS_Surjection
<1> QED
  BY <1>2 DEF T

LEMMA UnionBound ==
    ASSUME NEW S, IsFiniteSet(S), NEW T, IsFiniteSet(T), NEW U, U \subseteq S \cup T
    PROVE  /\ IsFiniteSet(U) /\ Cardinality(U) \in Nat
           /\ Cardinality(U) <= Cardinality(S) + Cardinality(T)
<1>1. /\ IsFiniteSet(S \cup T)
      /\ Cardinality(S \cup T) = Cardinality(S) + Cardinality(T) - Cardinality(S \cap T)
  BY FS_Union
<1>2. IsFiniteSet(S \cap T)
  BY FS_Intersection
<1>3. Cardinality(S) \in Nat /\ Cardinality(T) \in Nat /\ Cardinality(S \cap T) \in Nat
  BY <1>2, FS_CardinalityType
<1>4. IsFiniteSet(U) /\ Cardinality(U) <= Cardinality(S \cup T)
  BY <1>1, FS_Subset
<1>5. Cardinality(U) \in Nat
  BY <1>4, FS_CardinalityType
<1> QED
  BY <1>1, <1>3, <1>4, <1>5

(* All of U but what is in G comes, one by one, from S.                    *)
LEMMA RelocationBound ==
    ASSUME NEW S, IsFiniteSet(S), NEW G, IsFiniteSet(G), NEW U, NEW h,
           \A x \in U : x \in G \/ h[x] \in S,
           \A x, y \in U : h[x] = h[y] => x = y
    PROVE  /\ IsFiniteSet(U) /\ Cardinality(U) \in Nat
           /\ Cardinality(U) <= Cardinality(S) + Cardinality(G)
<1> DEFINE V == U \ G
           k == [x \in V |-> h[x]]
<1>1. k \in [V -> S]
  OBVIOUS
<1>2. k \in Injection(V, S)
  BY <1>1 DEF Injection, IsInjective
<1> HIDE DEF k
<1>3. IsFiniteSet(V) /\ Cardinality(V) <= Cardinality(S)
  BY <1>2, FS_Injection
<1>4. U \subseteq V \cup G
  OBVIOUS
<1> HIDE DEF V
<1>5. /\ IsFiniteSet(U) /\ Cardinality(U) \in Nat
      /\ Cardinality(U) <= Cardinality(V) + Cardinality(G)
  BY <1>3, <1>4, UnionBound
<1>6. Cardinality(V) \in Nat /\ Cardinality(S) \in Nat /\ Cardinality(G) \in Nat
  BY <1>3, FS_CardinalityType
<1> QED
  BY <1>3, <1>5, <1>6

LEMMA SingletonBound ==
    ASSUME NEW x PROVE IsFiniteSet({x}) /\ Cardinality({x}) = 1
BY FS_Singleton

LEMMA CreatedTyped ==
    ASSUME TypeOK
    PROVE  /\ Created \subseteq Entries /\ IsFiniteSet(Created)
           /\ \A e \in Created : Stream[e].subject \in Subjects /\ Stream[e].kind = "created"
<1>1. length \in Nat /\ length <= Len(Stream) /\ Entries = 1..Len(Stream) /\ Len(Stream) \in Nat
  BY EntriesTyped DEF TypeOK
<1>2. Created \subseteq 1..length /\ Created \subseteq Entries
  BY <1>1 DEF Created
<1>3. IsFiniteSet(1..length)
  BY <1>1, FS_Interval
<1>4. IsFiniteSet(Created)
  BY <1>2, <1>3, FS_Subset
<1>5. \A e \in Created : Stream[e].subject \in Subjects /\ Stream[e].kind = "created"
  BY <1>2, EntriesTyped DEF Created
<1> QED
  BY <1>2, <1>4, <1>5

LEMMA RepeatsTyped ==
    ASSUME TypeOK
    PROVE  /\ Repeats \in Nat
           /\ \A s : IsFiniteSet(Copies(s)) /\ Cardinality(Copies(s)) <= 1 + Repeats
<1> DEFINE Names == {Stream[e].subject : e \in Created}
<1>1. IsFiniteSet(Created) /\ Cardinality(Created) \in Nat
  BY CreatedTyped, FS_CardinalityType
<1>2. IsFiniteSet(Names) /\ Cardinality(Names) <= Cardinality(Created)
  <2> DEFINE F == [e \in Created |-> Stream[e].subject]
  <2>1. /\ IsFiniteSet({F[e] : e \in Created})
        /\ Cardinality({F[e] : e \in Created}) <= Cardinality(Created)
    BY <1>1, ImageBound
  <2>2. Names = {F[e] : e \in Created}
    OBVIOUS
  <2> HIDE DEF F, Names
  <2> QED
    BY <2>1, <2>2
<1>3. Cardinality(Names) \in Nat
  BY <1>2, FS_CardinalityType
<1>4. Repeats = Cardinality(Created) - Cardinality(Names)
  BY DEF Repeats
<1>5. ASSUME NEW s
      PROVE  IsFiniteSet(Copies(s)) /\ Cardinality(Copies(s)) <= 1 + Repeats
  <2> DEFINE Rest == Created \ Copies(s)
             F == [e \in Rest |-> Stream[e].subject]
             Others == {F[e] : e \in Rest}
  <2>1. Copies(s) \in SUBSET Created /\ Rest \in SUBSET Created
    BY DEF Copies
  <2>2. IsFiniteSet(Copies(s)) /\ IsFiniteSet(Rest)
    BY <1>1, <2>1, FS_Subset
  <2>3. Cardinality(Copies(s)) \in Nat /\ Cardinality(Rest) \in Nat
    BY <2>2, FS_CardinalityType
  <2>4. Copies(s) \cap Rest = {} /\ Copies(s) \cup Rest = Created
    BY <2>1
  <2>5. Cardinality(Created) = Cardinality(Copies(s)) + Cardinality(Rest)
    <3> HIDE DEF Rest
    <3>1. Cardinality(Copies(s) \cup Rest)
            = Cardinality(Copies(s)) + Cardinality(Rest) - Cardinality(Copies(s) \cap Rest)
      BY <2>2, FS_Union
    <3>2. Cardinality(Copies(s) \cap Rest) = 0
      BY <2>4, FS_EmptySet
    <3>3. Cardinality(Copies(s) \cup Rest) = Cardinality(Created)
      BY <2>4
    <3>4. Cardinality(Created) = Cardinality(Copies(s)) + Cardinality(Rest) - 0
      BY <3>1, <3>2, <3>3
    <3> QED
      BY <2>3, <3>4
  <2>6. IsFiniteSet(Others) /\ Cardinality(Others) <= Cardinality(Rest)
    <3> HIDE DEF Rest, F
    <3> QED
      BY <2>2, ImageBound
  <2>7. Names \subseteq Others \cup {s}
    BY DEF Copies
  <2>8. Cardinality(Names) <= Cardinality(Others) + Cardinality({s}) /\ Cardinality({s}) = 1
    <3> HIDE DEF Names, Others
    <3> QED
      BY <2>6, <2>7, UnionBound, SingletonBound
  <2>9. Cardinality(Others) \in Nat
    BY <2>6, FS_CardinalityType
  <2> HIDE DEF Names, Others, Rest
  <2> QED
    BY <1>3, <1>4, <2>2, <2>3, <2>5, <2>6, <2>8, <2>9
<1> HIDE DEF Names
<1> QED
  BY <1>1, <1>2, <1>3, <1>4, <1>5

LEMMA PlacesDiffer ==
    ASSUME NEW e \in Entries, NEW f \in Entries, NEW v \in Workers, NEW w \in Workers
    PROVE  /\ FreePlace(e) # HeldPlace(f, w)
           /\ FreePlace(e) = FreePlace(f) => e = f
           /\ HeldPlace(e, v) = HeldPlace(f, w) => e = f /\ v = w
           /\ FreePlace(e) \in Places /\ HeldPlace(e, v) \in Places
           /\ FreePlace(e)[1] = "free" /\ FreePlace(e)[2] = e
           /\ HeldPlace(e, v)[1] = "held" /\ HeldPlace(e, v)[2] = e /\ HeldPlace(e, v)[3] = v
BY DEF FreePlace, HeldPlace, Places

(* The two kinds of attempts.                                              *)
AsPlaced ==
    /\ \A e \in Entries : FreePlace(e) \in Attempts <=> e \in Created /\ Free(e)
    /\ \A e \in Entries, w \in Workers :
          HeldPlace(e, w) \in Attempts <=> e \in Created /\ e \in batch[w]
    /\ \A c \in Attempts :
          /\ c \in Places /\ c[2] \in Created
          /\ \/ \E e \in Entries : c = FreePlace(e)
             \/ \E e \in Entries, w \in Workers : c = HeldPlace(e, w)

LEMMA AttemptsAt == AsPlaced
<1>1. \A e \in Entries : FreePlace(e) \in Attempts <=> e \in Created /\ Free(e)
  BY DEF Attempts, Places, FreePlace
<1>2. \A e \in Entries, w \in Workers :
         HeldPlace(e, w) \in Attempts <=> e \in Created /\ e \in batch[w]
  BY DEF Attempts, Places, HeldPlace
<1>3. \A c \in Attempts :
          /\ c \in Places /\ c[2] \in Created
          /\ \/ \E e \in Entries : c = FreePlace(e)
             \/ \E e \in Entries, w \in Workers : c = HeldPlace(e, w)
  BY DEF Attempts, Places
<1> QED
  BY <1>1, <1>2, <1>3 DEF AsPlaced

LEMMA AttemptsAtNext == AsPlaced'
BY AttemptsAt, PTL

(* Whom the two kinds of attempts face.                                    *)
LEMMA FacingAt ==
    ASSUME NEW location, NEW p
    PROVE  /\ \A e \in Entries : ~Facing(FreePlace(e), location, p)
           /\ \A e \in Entries, w \in Workers :
                 Facing(HeldPlace(e, w), location, p)
                    <=> at[w] = location /\ First(w, e) /\ Pair(w, e) = p
<1>1. ASSUME NEW e \in Entries PROVE ~Facing(FreePlace(e), location, p)
  BY DEF Facing, FreePlace
<1>2. ASSUME NEW e \in Entries, NEW w \in Workers
      PROVE  Facing(HeldPlace(e, w), location, p)
                <=> at[w] = location /\ First(w, e) /\ Pair(w, e) = p
  BY DEF Facing, HeldPlace
<1> QED
  BY <1>1, <1>2

LEMMA FacingAtNext ==
    ASSUME NEW location, NEW p
    PROVE  /\ \A e \in Entries : ~Facing(FreePlace(e), location, p)'
           /\ \A e \in Entries, w \in Workers :
                 Facing(HeldPlace(e, w), location, p)'
                    <=> at'[w] = location /\ First(w, e)' /\ Pair(w, e)' = p
<1>1. ASSUME NEW e \in Entries PROVE ~Facing(FreePlace(e), location, p)'
  BY DEF Facing, FreePlace
<1>2. ASSUME NEW e \in Entries, NEW w \in Workers
      PROVE  Facing(HeldPlace(e, w), location, p)'
                <=> at'[w] = location /\ First(w, e)' /\ Pair(w, e)' = p
  BY DEF Facing, HeldPlace
<1> QED
  BY <1>1, <1>2

(* The attempts after a step come, one by one, from attempts at the same   *)
(* entry before it.                                                        *)
Relocates(m) ==
    /\ \A c \in Attempts' : m[c] \in Attempts /\ m[c][2] = c[2]
    /\ \A c, d \in Attempts' : m[c] = m[d] => c = d

(* Only the attempts in G may hand over what they did not owe before.      *)
Grants(m, G) ==
    \A p \in Pairs, c \in Attempts' : Owes(c, p)' => <<p, c>> \in G \/ Owes(m[c], p)

LEMMA AttemptsMove ==
    ASSUME TypeOK, AttemptsBounded, NEW m, Relocates(m), UNCHANGED <<length, overruns>>
    PROVE  AttemptsBounded'
<1> SUFFICES ASSUME NEW s \in Subjects
             PROVE  /\ IsFiniteSet(Of(s, Attempts'))
                    /\ Cardinality(Of(s, Attempts')) <= Cardinality(Copies(s)) + overruns
  BY DEF AttemptsBounded, Copies, Created, Of
<1>1. /\ IsFiniteSet(Of(s, Attempts))
      /\ Cardinality(Of(s, Attempts)) <= Cardinality(Copies(s)) + overruns
  BY DEF AttemptsBounded
<1>2. /\ \A c \in Of(s, Attempts') : m[c] \in Of(s, Attempts)
      /\ \A c, d \in Of(s, Attempts') : m[c] = m[d] => c = d
  BY DEF Relocates, Of
<1>3. IsFiniteSet({}) /\ Cardinality({}) = 0
  BY FS_EmptySet
<1>4. /\ IsFiniteSet(Of(s, Attempts')) /\ Cardinality(Of(s, Attempts')) \in Nat
      /\ Cardinality(Of(s, Attempts')) <= Cardinality(Of(s, Attempts)) + Cardinality({})
  BY <1>1, <1>2, <1>3, RelocationBound
<1>5. Cardinality(Of(s, Attempts)) \in Nat /\ Cardinality(Copies(s)) \in Nat /\ overruns \in Nat
  BY <1>1, RepeatsTyped, FS_CardinalityType DEF TypeOK
<1> QED
  BY <1>1, <1>3, <1>4, <1>5

LEMMA LiveMoves ==
    ASSUME IsFiniteSet(Live), NEW m, NEW G, IsFiniteSet(G), Relocates(m), Grants(m, G)
    PROVE  /\ IsFiniteSet(Live') /\ Cardinality(Live') \in Nat
           /\ Cardinality(Live') <= Cardinality(Live) + Cardinality(G)
<1> DEFINE h == [x \in Live' |-> <<x[1], m[x[2]]>>]
<1>1. ASSUME NEW x \in Live'
      PROVE  /\ x[1] \in Pairs /\ x[2] \in Attempts' /\ x = <<x[1], x[2]>>
             /\ x \in G \/ <<x[1], m[x[2]]>> \in Live
  <2>1. /\ x[1] \in Pairs /\ x[2] \in Attempts' /\ x = <<x[1], x[2]>>
        /\ Stream[x[2][2]].subject = x[1][1] /\ Owes(x[2], x[1])'
    BY DEF Live
  <2>2. PICK p \in Pairs, c \in Attempts' : p = x[1] /\ c = x[2]
    BY <2>1
  <2>3. m[c] \in Attempts /\ m[c][2] = c[2]
    BY DEF Relocates
  <2>4. <<p, c>> \in G \/ Owes(m[c], p)
    BY <2>1, <2>2 DEF Grants
  <2>5. Owes(m[c], p) => <<p, m[c]>> \in Live
    BY <2>1, <2>2, <2>3 DEF Live
  <2> QED
    BY <2>1, <2>2, <2>4, <2>5
<1>2. \A x \in Live' : x \in G \/ h[x] \in Live
  BY <1>1
<1>3. ASSUME NEW x \in Live', NEW y \in Live', h[x] = h[y] PROVE x = y
  <2>1. x[1] = y[1] /\ m[x[2]] = m[y[2]]
    BY <1>3
  <2>2. x[2] = y[2]
    BY <1>1, <2>1 DEF Relocates
  <2> QED
    BY <1>1, <2>1, <2>2
<1> HIDE DEF h
<1> QED
  BY <1>2, <1>3, RelocationBound

-----------------------------------------------------------------------------
(* What a fault, a take-over and a copy pay for.                           *)
LEMMA Affordable ==
    ASSUME NEW f \in Nat, NEW o \in Nat, NEW r \in Nat, NEW n \in Nat
    PROVE  /\ f * (1 + o + r) + n * (o + r) \in Nat
           /\ (f + 1) * (1 + o + r) + n * (o + r)
                = (f * (1 + o + r) + n * (o + r)) + (1 + o + r)
           /\ f * (1 + o + (r + 1)) + n * (o + (r + 1))
                = (f * (1 + o + r) + n * (o + r)) + f + n
           /\ f * (1 + (o + 1) + r) + n * ((o + 1) + r)
                = (f * (1 + o + r) + n * (o + r)) + f + n
<1> DEFINE k == 1 + o + r
           l == o + r
<1>1. k \in Nat /\ l \in Nat
  OBVIOUS
<1>2. f * k \in Nat /\ n * l \in Nat
  BY <1>1
<1>3. f * k + n * l \in Nat
  BY <1>2
<1>4. (f + 1) * k = f * k + k
  BY <1>1
<1>5. f * (k + 1) = f * k + f /\ n * (l + 1) = n * l + n
  BY <1>1
<1>6. 1 + o + (r + 1) = k + 1 /\ 1 + (o + 1) + r = k + 1 /\ o + (r + 1) = l + 1 /\ (o + 1) + r = l + 1
  OBVIOUS
<1>7. (f + 1) * k + n * l = (f * k + n * l) + k
  BY <1>1, <1>2, <1>4
<1>8. f * (k + 1) + n * (l + 1) = (f * k + n * l) + f + n
  BY <1>1, <1>2, <1>5
<1> QED
  BY <1>3, <1>6, <1>7, <1>8

LEMMA AllowanceTyped ==
    ASSUME TypeOK PROVE Allowance \in Nat
<1>1. faults \in Nat /\ overruns \in Nat
  BY DEF TypeOK
<1>2. PICK f \in Nat, o \in Nat, r \in Nat, n \in Nat :
         f = faults /\ o = overruns /\ r = Repeats /\ n = Cardinality(Users)
  BY <1>1, RepeatsTyped, FS_CardinalityType
<1> QED
  BY <1>2, Affordable DEF Allowance

LEMMA AllowanceGrows ==
    ASSUME TypeOK, TypeOK'
    PROVE  /\ Allowance \in Nat /\ Allowance' \in Nat /\ Cardinality(Users) \in Nat
           /\ UNCHANGED <<length, faults, overruns>> => Allowance' = Allowance
           /\ UNCHANGED <<length, overruns>> /\ faults' = faults + 1
                 => Allowance' = Allowance + (1 + overruns + Repeats)
           /\ UNCHANGED <<length, faults>> /\ overruns' = overruns + 1
                 => Allowance' >= Allowance + Cardinality(Users)
           /\ UNCHANGED <<faults, overruns>> /\ Repeats' = Repeats + 1
                 => Allowance' >= Allowance + Cardinality(Users)
           /\ UNCHANGED <<faults, overruns, Repeats>> => Allowance' = Allowance
<1>1. PICK n \in Nat : n = Cardinality(Users)
  BY FS_CardinalityType
<1>2. PICK f \in Nat, o \in Nat, r \in Nat : f = faults /\ o = overruns /\ r = Repeats
  <2>1. faults \in Nat /\ overruns \in Nat
    BY DEF TypeOK
  <2> QED
    BY <2>1, RepeatsTyped
<1>3. PICK g \in Nat, q \in Nat, t \in Nat : g = faults' /\ q = overruns' /\ t = Repeats'
  <2>1. (TypeOK => Repeats \in Nat)'
    BY RepeatsTyped, PTL
  <2>2. faults' \in Nat /\ overruns' \in Nat
    BY DEF TypeOK
  <2>3. Repeats' \in Nat
    BY <2>1
  <2> QED
    BY <2>2, <2>3
<1>4. PICK a \in Nat : a = f * (1 + o + r) + n * (o + r)
  BY Affordable
<1>5. a = Allowance
  BY <1>1, <1>2, <1>4 DEF Allowance
<1>6. Allowance' = g * (1 + q + t) + n * (q + t)
  BY <1>1, <1>3 DEF Allowance
<1>7. Allowance' \in Nat
  BY <1>6, Affordable
<1>8. UNCHANGED length => t = r
  BY <1>2, <1>3 DEF Repeats, Created
<1>9. ASSUME g = f, q = o, t = r PROVE Allowance' = a
  BY <1>4, <1>6, <1>9
<1>10. ASSUME g = f + 1, q = o, t = r PROVE Allowance' = a + (1 + o + r)
  BY <1>4, <1>6, <1>10, Affordable
<1>11. ASSUME g = f, q = o + 1, t = r PROVE Allowance' = a + f + n
  BY <1>4, <1>6, <1>11, Affordable
<1>12. ASSUME g = f, q = o, t = r + 1 PROVE Allowance' = a + f + n
  BY <1>4, <1>6, <1>12, Affordable
<1>13. Allowance' = a + f + n => Allowance' >= a + n
  BY <1>7
<1>14. /\ a \in Nat /\ Allowance' \in Nat /\ n \in Nat
       /\ UNCHANGED <<length, faults, overruns>> => Allowance' = a
       /\ UNCHANGED <<length, overruns>> /\ faults' = faults + 1 => Allowance' = a + (1 + o + r)
  BY <1>2, <1>3, <1>7, <1>8, <1>9, <1>10
<1>15. /\ UNCHANGED <<length, faults>> /\ overruns' = overruns + 1 => Allowance' >= a + n
       /\ UNCHANGED <<faults, overruns>> /\ Repeats' = Repeats + 1 => Allowance' >= a + n
       /\ UNCHANGED <<faults, overruns, Repeats>> => Allowance' = a
  BY <1>2, <1>3, <1>8, <1>9, <1>11, <1>12, <1>13
<1> HIDE DEF Allowance
<1> QED
  BY <1>1, <1>2, <1>5, <1>14, <1>15

LEMMA PaidFrom ==
    ASSUME DuplicatesPaid, TypeOK, TypeOK', NEW paid \in Nat, Allowance' >= Allowance + paid,
           IsFiniteSet(Duplicates'), IsFiniteSet(Live'), IsFiniteSet(Fresh'),
           Cardinality(Duplicates') + Cardinality(Live') + Cardinality(Fresh)
              <= Cardinality(Duplicates) + Cardinality(Live) + Cardinality(Fresh') + paid
    PROVE  DuplicatesPaid'
<1>1. PICK a \in Nat, b \in Nat : a = Allowance /\ b = Allowance'
  BY AllowanceGrows
<1>2. /\ Cardinality(Duplicates) \in Nat /\ Cardinality(Live) \in Nat /\ Cardinality(Fresh) \in Nat
      /\ Cardinality(Duplicates') \in Nat /\ Cardinality(Live') \in Nat
      /\ Cardinality(Fresh') \in Nat
  BY FS_CardinalityType DEF DuplicatesPaid
<1>3. PICK d \in Nat, v \in Nat, f \in Nat :
         d = Cardinality(Duplicates) /\ v = Cardinality(Live) /\ f = Cardinality(Fresh)
  BY <1>2
<1>4. PICK x \in Nat, y \in Nat, z \in Nat :
         x = Cardinality(Duplicates') /\ y = Cardinality(Live') /\ z = Cardinality(Fresh')
  BY <1>2
<1>5. d + v <= f + a
  BY <1>1, <1>3 DEF DuplicatesPaid
<1>6. x + y + f <= d + v + z + paid /\ b >= a + paid
  BY <1>1, <1>3, <1>4
<1>7. x + y <= z + b
  BY <1>5, <1>6
<1> QED
  BY <1>1, <1>4, <1>7 DEF DuplicatesPaid

(* The messages in the stream, as long as no entry is added.               *)
LEMMA PairsStay ==
    ASSUME UNCHANGED length
    PROVE  MessagePairs' = MessagePairs
BY DEF MessagePairs, Carrying

LEMMA CountsStay ==
    ASSUME UNCHANGED length, \A q \in MessagePairs : handed'[q] = handed[q]
    PROVE  Duplicates' = Duplicates /\ Fresh' = Fresh
BY PairsStay DEF Duplicates, Fresh

(* A hand-over is the first of its pair, or one duplicate more.            *)
LEMMA HandOverCounts ==
    ASSUME TypeOK, DuplicatesPaid, UNCHANGED length, NEW p \in Pairs, handed' = HandOver(p)
    PROVE  /\ IsFiniteSet(Duplicates') /\ IsFiniteSet(Fresh')
           /\ Cardinality(Duplicates') + Cardinality(Fresh)
                <= Cardinality(Duplicates) + Cardinality(Fresh') + 1
<1>1. MessagePairs' = MessagePairs /\ MessagePairs \subseteq Pairs
  BY PairsStay DEF MessagePairs
<1>2. \A q \in Pairs : handed[q] \in Nat /\ handed'[q] = IF q = p THEN handed[p] + 1 ELSE handed[q]
  BY HandOverTyped DEF TypeOK
<1>3. IsFiniteSet(Duplicates) /\ IsFiniteSet(Fresh)
  BY DEF DuplicatesPaid
<1>4. Cardinality(Duplicates) \in Nat /\ Cardinality(Fresh) \in Nat
  BY <1>3, FS_CardinalityType
<1>5. CASE handed[p] = 0
  <2>1. Duplicates' = Duplicates
    <3>1. \A q \in MessagePairs : 2..handed'[q] = 2..handed[q]
      BY <1>1, <1>2, <1>5
    <3> QED
      BY <1>1, <3>1 DEF Duplicates
  <2>2. Fresh \subseteq Fresh' \cup {p} /\ Fresh' \in SUBSET Fresh
    BY <1>1, <1>2 DEF Fresh
  <2>3. IsFiniteSet(Fresh')
    BY <1>3, <2>2, FS_Subset
  <2>4. Cardinality(Fresh) <= Cardinality(Fresh') + Cardinality({p}) /\ Cardinality({p}) = 1
    BY <2>2, <2>3, UnionBound, SingletonBound
  <2>5. Cardinality(Fresh') \in Nat
    BY <2>3, FS_CardinalityType
  <2>6. Cardinality(Fresh) <= Cardinality(Fresh') + 1
    BY <2>4, <2>5
  <2>7. Cardinality(Duplicates) + Cardinality(Fresh) <= Cardinality(Duplicates) + Cardinality(Fresh') + 1
    BY <1>4, <2>5, <2>6
  <2> QED
    BY <1>3, <2>1, <2>3, <2>7
<1>6. CASE handed[p] # 0
  <2>1. Fresh' = Fresh
    BY <1>1, <1>2, <1>6 DEF Fresh
  <2>2. Duplicates' \subseteq Duplicates \cup {<<p, handed[p] + 1>>}
    <3>1. ASSUME NEW q \in MessagePairs, NEW n \in 2..handed'[q]
          PROVE  <<q, n>> \in Duplicates \cup {<<p, handed[p] + 1>>}
      <4>1. n \in 2..handed[q] \/ (q = p /\ n = handed[p] + 1)
        BY <1>1, <1>2
      <4> QED
        BY <4>1 DEF Duplicates
    <3> QED
      BY <1>1, <3>1 DEF Duplicates
  <2>3. /\ IsFiniteSet(Duplicates')
        /\ Cardinality(Duplicates') \in Nat
        /\ Cardinality(Duplicates') <= Cardinality(Duplicates) + 1
    <3>1. PICK x : x = <<p, handed[p] + 1>>
      OBVIOUS
    <3>2. Duplicates' \subseteq Duplicates \cup {x}
      BY <2>2, <3>1
    <3>3. IsFiniteSet({x}) /\ Cardinality({x}) = 1
      BY SingletonBound
    <3> HIDE DEF Duplicates
    <3>4. /\ IsFiniteSet(Duplicates') /\ Cardinality(Duplicates') \in Nat
          /\ Cardinality(Duplicates') <= Cardinality(Duplicates) + Cardinality({x})
      BY <1>3, <3>2, <3>3, UnionBound
    <3> QED
      BY <3>3, <3>4
  <2>4. Cardinality(Duplicates') + Cardinality(Fresh) <= Cardinality(Duplicates) + Cardinality(Fresh) + 1
    BY <1>4, <2>3
  <2> QED
    BY <1>3, <2>1, <2>3, <2>4
<1> QED
  BY <1>5, <1>6

(* Steps that move attempts without adding to what they owe.               *)
LEMMA PaidMove ==
    ASSUME TypeOK, TypeOK', DuplicatesPaid, UNCHANGED <<length, faults, overruns>>,
           \A q \in MessagePairs : handed'[q] = handed[q],
           NEW m, Relocates(m), Grants(m, {})
    PROVE  DuplicatesPaid'
<1>1. Duplicates' = Duplicates /\ Fresh' = Fresh
  BY CountsStay
<1>2. IsFiniteSet({}) /\ Cardinality({}) = 0
  BY FS_EmptySet
<1>3. /\ IsFiniteSet(Live') /\ Cardinality(Live') \in Nat
      /\ Cardinality(Live') <= Cardinality(Live) + 0
  BY <1>2, LiveMoves DEF DuplicatesPaid
<1>4. /\ Cardinality(Duplicates) \in Nat /\ Cardinality(Live) \in Nat /\ Cardinality(Fresh) \in Nat
      /\ IsFiniteSet(Duplicates) /\ IsFiniteSet(Fresh)
  BY FS_CardinalityType DEF DuplicatesPaid
<1>5. Allowance \in Nat /\ Allowance' = Allowance
  BY AllowanceGrows
<1>6. Allowance' >= Allowance + 0
  BY <1>5
<1>7. Cardinality(Duplicates) + Cardinality(Live') + Cardinality(Fresh)
         <= Cardinality(Duplicates) + Cardinality(Live) + Cardinality(Fresh) + 0
  BY <1>3, <1>4
<1>8. Cardinality(Duplicates') + Cardinality(Live') + Cardinality(Fresh)
         <= Cardinality(Duplicates) + Cardinality(Live) + Cardinality(Fresh') + 0
  BY <1>1, <1>7
<1>9. IsFiniteSet(Duplicates') /\ IsFiniteSet(Fresh')
  BY <1>1, <1>4
<1> HIDE DEF Duplicates, Live, Fresh, Allowance
<1> QED
  BY <1>3, <1>6, <1>8, <1>9, PaidFrom

(* Steps that a fault, or a take-over, lets owe more.                      *)
LEMMA PaidGrant ==
    ASSUME TypeOK, TypeOK', DuplicatesPaid, UNCHANGED length,
           \A q \in MessagePairs : handed'[q] = handed[q],
           NEW m, Relocates(m), NEW G, IsFiniteSet(G), Grants(m, G),
           Allowance' >= Allowance + Cardinality(G)
    PROVE  DuplicatesPaid'
<1>1. Duplicates' = Duplicates /\ Fresh' = Fresh
  BY CountsStay
<1>2. PICK paid \in Nat : paid = Cardinality(G)
  BY FS_CardinalityType
<1>3. /\ IsFiniteSet(Live') /\ Cardinality(Live') \in Nat
      /\ Cardinality(Live') <= Cardinality(Live) + paid
  BY <1>2, LiveMoves DEF DuplicatesPaid
<1>4. /\ Cardinality(Duplicates) \in Nat /\ Cardinality(Live) \in Nat /\ Cardinality(Fresh) \in Nat
      /\ IsFiniteSet(Duplicates) /\ IsFiniteSet(Fresh)
  BY FS_CardinalityType DEF DuplicatesPaid
<1>5. Cardinality(Duplicates) + Cardinality(Live') + Cardinality(Fresh)
         <= Cardinality(Duplicates) + Cardinality(Live) + Cardinality(Fresh) + paid
  BY <1>3, <1>4
<1>6. Cardinality(Duplicates') + Cardinality(Live') + Cardinality(Fresh)
         <= Cardinality(Duplicates) + Cardinality(Live) + Cardinality(Fresh') + paid
  BY <1>1, <1>5
<1>7. IsFiniteSet(Duplicates') /\ IsFiniteSet(Fresh')
  BY <1>1, <1>4
<1>8. Allowance' >= Allowance + paid
  BY <1>2
<1> HIDE DEF Duplicates, Live, Fresh, Allowance
<1> QED
  BY <1>3, <1>6, <1>7, <1>8, PaidFrom

-----------------------------------------------------------------------------
(* Attempts that stay where they are.                                      *)
Stays == [c \in Places |-> c]

LEMMA StaysRelocates ==
    ASSUME Attempts' \subseteq Attempts
    PROVE  Relocates(Stays)
<1>1. \A c \in Attempts' : c \in Places
  BY DEF Attempts
<1>2. \A c \in Attempts' : Stays[c] = c
  BY <1>1 DEF Stays
<1> QED
  BY <1>2 DEF Relocates

LEMMA StaysGrants ==
    ASSUME NEW G, \A p \in Pairs, c \in Places : Owes(c, p)' => <<p, c>> \in G \/ Owes(c, p)
    PROVE  Grants(Stays, G)
<1>1. \A c \in Attempts' : c \in Places
  BY DEF Attempts
<1>2. \A c \in Attempts' : Stays[c] = c
  BY <1>1 DEF Stays
<1> QED
  BY <1>1, <1>2 DEF Grants

LEMMA AttemptsStay ==
    ASSUME UNCHANGED <<length, lastRead, pending, idle, batch>>
    PROVE  Attempts' = Attempts
BY DEF Attempts, Created, Free, Held

(* A worker step leaves the debts of the others' attempts, and settles its *)
(* own: it hands over only to recipients whose key is not set, and sets    *)
(* the key before it goes on.                                              *)
LEMMA OwesLess ==
    ASSUME TypeOK, NEW w \in Workers, done \subseteq done',
           \A v \in Workers \ {w} : batch'[v] = batch[v] /\ at'[v] = at[v] /\ pos'[v] = pos[v],
           \A f \in Entries : at'[w] = "hand" /\ First(w, f)' => Pair(w, f)' \notin done',
           \A f \in Entries : at[w] = "setkey" /\ First(w, f) => Pair(w, f) \in done'
    PROVE  \A p \in Pairs, c \in Places : Owes(c, p)' => Owes(c, p)
<1> SUFFICES ASSUME NEW p \in Pairs, NEW c \in Places, Owes(c, p)' PROVE Owes(c, p)
  OBVIOUS
<1>1. ASSUME NEW e \in Entries, c = FreePlace(e) PROVE Owes(c, p)
  <2>1. \A location : ~Facing(c, location, p) /\ ~Facing(c, location, p)'
    BY <1>1, FacingAt, FacingAtNext
  <2> QED
    BY <2>1 DEF Owes
<1>2. ASSUME NEW e \in Entries, NEW v \in Workers, c = HeldPlace(e, v) PROVE Owes(c, p)
  <2>1. \A location :
           /\ Facing(c, location, p) <=> at[v] = location /\ First(v, e) /\ Pair(v, e) = p
           /\ Facing(c, location, p)' <=> at'[v] = location /\ First(v, e)' /\ Pair(v, e)' = p
    BY <1>2, FacingAt, FacingAtNext
  <2>2. CASE v # w
    <3>1. (First(v, e)' <=> First(v, e)) /\ Pair(v, e)' = Pair(v, e) /\ at'[v] = at[v]
      BY <2>2 DEF First, Pair
    <3>2. \A location : Facing(c, location, p)' <=> Facing(c, location, p)
      BY <2>1, <3>1
    <3>3. ~(Facing(c, "hand", p) /\ Facing(c, "setkey", p))
      BY <2>1
    <3> QED
      BY <3>2, <3>3 DEF Owes
  <2>3. CASE v = w
    <3>1. p \notin done'
      BY <2>1, <2>3 DEF Owes
    <3>2. ~Facing(c, "setkey", p)
      BY <2>1, <2>3, <3>1
    <3> QED
      BY <3>1, <3>2 DEF Owes
  <2> QED
    BY <2>2, <2>3
<1> QED
  BY <1>1, <1>2 DEF Places

LEMMA QuietMove ==
    ASSUME Attempts' \subseteq Attempts,
           \A p \in Pairs, c \in Places : Owes(c, p)' => Owes(c, p)
    PROVE  Relocates(Stays) /\ Grants(Stays, {})
BY StaysRelocates, StaysGrants

LEMMA EntryUnique ==
    ASSUME TypeOK, NEW w \in Workers, NEW e \in Entries, NEW f \in Entries, First(w, e), First(w, f)
    PROVE  e = f
<1>1. e \in Nat /\ f \in Nat /\ e <= f /\ f <= e
  BY EntriesTyped DEF First
<1> QED
  BY <1>1

(* The steps of a worker within an entry, but for the hand-over.           *)
LEMMA WithinMoves ==
    ASSUME TypeOK, NEW w \in Workers, NEW e \in Entries,
           \/ Check(w, e) \/ Hand(w, e) \/ SetKey(w, e) \/ Mark(w, e) \/ MarkRaises(w, e)
           \/ Members(w, e) \/ Fanout(w, e)
    PROVE  Relocates(Stays) /\ Grants(Stays, {})
<1>1. /\ UNCHANGED <<length, lastRead, pending, idle, batch>> /\ done \subseteq done'
      /\ First(w, e)
  BY DEF Check, Hand, SetKey, Mark, MarkRaises, Members, Fanout, Busy, First, Goto, NextRecipient,
         redis
<1>2. (\E location : Goto(w, location)) \/ (\E f, location : NextRecipient(w, f, location))
  BY DEF Check, Hand, SetKey, Mark, MarkRaises, Members, Fanout
<1>3. \A v \in Workers \ {w} : batch'[v] = batch[v] /\ at'[v] = at[v] /\ pos'[v] = pos[v]
  BY <1>2, OthersAlone
<1>4. at \in [Workers -> Location]
  BY DEF TypeOK
<1>5. at[w] = "setkey" => Pair(w, e) \in done'
  BY DEF Check, Hand, SetKey, Mark, MarkRaises, Members, Fanout, Busy
<1>6. at'[w] = "hand" => Pair(w, e)' \notin done'
  <2>1. CASE Check(w, e) /\ Pair(w, e) \notin done
    BY <2>1 DEF Check, Goto, Pair, redis
  <2>2. CASE ~(Check(w, e) /\ Pair(w, e) \notin done)
    <3>1. \/ \E location \in {"setkey", "mark", "ack", "fanout"} : Goto(w, location)
          \/ NextRecipient(w, e, "check") \/ NextRecipient(w, e, "fanout")
      BY <2>2 DEF Check, Hand, SetKey, Mark, MarkRaises, Members, Fanout
    <3>2. at'[w] # "hand"
      BY <1>4, <3>1 DEF Goto, NextRecipient
    <3> QED
      BY <3>2
  <2> QED
    BY <2>1, <2>2
<1>7. \A f \in Entries : First(w, f) => f = e
  BY <1>1, EntryUnique
<1>8. \A f \in Entries : First(w, f)' <=> First(w, f)
  BY <1>1 DEF First
<1>9. \A p \in Pairs, c \in Places : Owes(c, p)' => Owes(c, p)
  BY <1>1, <1>3, <1>5, <1>6, <1>7, <1>8, OwesLess
<1> QED
  BY <1>1, <1>9, AttemptsStay, QuietMove

LEMMA AckMoves ==
    ASSUME TypeOK, NEW w \in Workers, NEW e \in Entries, Ack(w, e)
    PROVE  Relocates(Stays) /\ Grants(Stays, {})
<1>0. batch \in [Workers -> SUBSET (1..lastRead)] /\ at \in [Workers -> Location]
  BY DEF TypeOK
<1>1. /\ pending' = pending \ {e} /\ idle' = idle \ {e} /\ UNCHANGED <<length, lastRead, done>>
      /\ Continue(w, batch[w] \ {e}) /\ at[w] = "ack" /\ e \in batch[w]
  BY DEF Ack, Busy, redis
<1>2. \A v \in Workers \ {w} : batch'[v] = batch[v] /\ at'[v] = at[v] /\ pos'[v] = pos[v]
  BY <1>1, OthersAlone
<1>3. batch'[w] = batch[w] \ {e} /\ at'[w] # "hand"
  BY <1>0, <1>1 DEF Continue, Entrance
<1>4. ASSUME NEW c \in Attempts' PROVE c \in Attempts
  <2>1. Created' = Created
    BY <1>1 DEF Created
  <2>2. ASSUME NEW f \in Entries, c = FreePlace(f) PROVE c \in Attempts
    <3>1. f \in Created /\ Free(f)'
      BY <2>1, <2>2, AttemptsAtNext DEF AsPlaced
    <3>2. Free(f)
      <4>1. CASE f > lastRead' \/ f \in idle'
        BY <1>1, <4>1 DEF Free
      <4>2. CASE f \in pending' /\ ~Held(f)'
        <5>1. f # e /\ f \in pending
          BY <1>1, <4>2
        <5>2. ~Held(f)
          BY <1>2, <1>3, <4>2, <5>1 DEF Held
        <5> QED
          BY <5>1, <5>2 DEF Free
      <4> QED
        BY <3>1, <4>1, <4>2 DEF Free
    <3> QED
      BY <2>2, <3>1, <3>2, AttemptsAt DEF AsPlaced
  <2>3. ASSUME NEW f \in Entries, NEW v \in Workers, c = HeldPlace(f, v) PROVE c \in Attempts
    <3>1. f \in Created /\ f \in batch'[v]
      BY <2>1, <2>3, AttemptsAtNext DEF AsPlaced
    <3>2. f \in batch[v]
      BY <1>2, <1>3, <3>1
    <3> QED
      BY <2>3, <3>1, <3>2, AttemptsAt DEF AsPlaced
  <2> QED
    BY <2>2, <2>3, AttemptsAtNext DEF AsPlaced
<1>5. \A p \in Pairs, c \in Places : Owes(c, p)' => Owes(c, p)
  BY <1>1, <1>2, <1>3, OwesLess
<1> QED
  BY <1>4, <1>5, QuietMove

-----------------------------------------------------------------------------
(* The recipients of an update are none of a message's.                    *)
LEMMA UpdatesAreNoMessages ==
    ASSUME TypeOK, NEW w \in Workers, NEW e \in Entries, Stream[e].kind = "updated"
    PROVE  Pair(w, e) \notin MessagePairs
<1> SUFFICES ASSUME Pair(w, e) \in MessagePairs PROVE FALSE
  OBVIOUS
<1>1. PICK d \in Carrying(Pair(w, e)) : Stream[d].kind = "created"
  BY DEF MessagePairs
<1>2. d \in Entries /\ Stream[d].subject = Stream[e].subject
  BY EntriesTyped DEF Carrying, Pair, TypeOK
<1> QED
  BY <1>1, <1>2, SameSubject

LEMMA HandLives ==
    ASSUME TypeOK, ProgressInv, NEW w \in Workers, NEW e \in Entries, Hand(w, e)
    PROVE  /\ Pair(w, e) \in Pairs
           /\ Live' \subseteq Live
           /\ <<Pair(w, e), HeldPlace(e, w)>> \in Live
           /\ <<Pair(w, e), HeldPlace(e, w)>> \notin Live'
<1>1. /\ First(w, e) /\ at[w] = "hand" /\ e \in batch[w]
      /\ UNCHANGED <<length, lastRead, pending, idle, batch, pos, done>>
      /\ at'[w] = "setkey"
  BY DEF Hand, Busy, First, Goto, TypeOK
<1>2. Pair(w, e) \in Pairs /\ Stream[e].kind = "created"
  BY <1>1, BusyPair DEF ProgressInv, Progress
<1>3. Attempts' = Attempts
  BY <1>1, AttemptsStay
<1>4. Relocates(Stays) /\ Grants(Stays, {})
  BY WithinMoves
<1>5. Live' \subseteq Live
  <2>1. ASSUME NEW x \in Live' PROVE x \in Live
    <3>1. /\ x[1] \in Pairs /\ x[2] \in Attempts' /\ x = <<x[1], x[2]>>
          /\ Stream[x[2][2]].subject = x[1][1] /\ Owes(x[2], x[1])'
      BY DEF Live
    <3>2. x[2] \in Places
      BY <3>1, <1>3 DEF Attempts
    <3>3. Stays[x[2]] = x[2]
      BY <3>2 DEF Stays
    <3>4. Owes(x[2], x[1])
      BY <1>4, <3>1, <3>3 DEF Grants
    <3> QED
      BY <1>3, <3>1, <3>4 DEF Live
  <2> QED
    BY <2>1
<1>6. e \in Created
  <2>1. e \in 1..length
    BY <1>1, EntriesTyped DEF TypeOK
  <2> QED
    BY <1>2, <2>1 DEF Created
<1>7. HeldPlace(e, w) \in Attempts /\ HeldPlace(e, w)[2] = e
  BY <1>1, <1>6, AttemptsAt, PlacesDiffer DEF AsPlaced
<1>8. Facing(HeldPlace(e, w), "hand", Pair(w, e)) /\ ~Facing(HeldPlace(e, w), "setkey", Pair(w, e))
  BY <1>1, FacingAt
<1>9. /\ ~Facing(HeldPlace(e, w), "hand", Pair(w, e))'
      /\ Facing(HeldPlace(e, w), "setkey", Pair(w, e))'
  <2>1. First(w, e)' /\ Pair(w, e)' = Pair(w, e)
    BY <1>1 DEF First, Pair
  <2>2. PICK p \in Pairs : p = Pair(w, e)
    BY <1>2
  <2>3. ~Facing(HeldPlace(e, w), "hand", p)' /\ Facing(HeldPlace(e, w), "setkey", p)'
    BY <1>1, <2>1, <2>2, FacingAtNext
  <2> QED
    BY <2>1, <2>2, <2>3
<1>10. <<Pair(w, e), HeldPlace(e, w)>> \in Live
  <2>1. Pair(w, e)[1] = Stream[e].subject
    BY DEF Pair
  <2> QED
    BY <1>2, <1>7, <1>8, <2>1 DEF Live, Owes
<1>11. <<Pair(w, e), HeldPlace(e, w)>> \notin Live'
  <2>1. PICK p \in Pairs : p = Pair(w, e)
    BY <1>2
  <2>2. Pair(w, e)' = Pair(w, e)
    BY <1>1 DEF Pair
  <2>3. ~Owes(HeldPlace(e, w), p)'
    BY <1>9, <2>1, <2>2 DEF Owes
  <2>4. <<p, HeldPlace(e, w)>> \notin Live'
    BY <2>3 DEF Live
  <2> QED
    BY <2>1, <2>4
<1> QED
  BY <1>2, <1>5, <1>10, <1>11

(* A hand-over is a debt paid, or the first one of its pair.               *)
LEMMA HandPaid ==
    ASSUME TypeOK, TypeOK', ProgressInv, DuplicatesPaid, NEW w \in Workers, NEW e \in Entries,
           Hand(w, e)
    PROVE  DuplicatesPaid'
<1>p. PICK p \in Pairs : p = Pair(w, e)
  BY HandLives
<1>1. PICK x : p = Pair(w, e) /\ x = <<Pair(w, e), HeldPlace(e, w)>>
  BY <1>p
<1>2. /\ UNCHANGED <<length, faults, overruns>> /\ handed' = HandOver(p)
      /\ Live' \in SUBSET (Live \ {x}) /\ x \in Live
  BY <1>1, HandLives DEF Hand, counts
<1>3. IsFiniteSet(Live) /\ IsFiniteSet(Duplicates) /\ IsFiniteSet(Fresh)
  BY DEF DuplicatesPaid
<1>4. IsFiniteSet(Live \ {x}) /\ Cardinality(Live \ {x}) = Cardinality(Live) - 1
  BY <1>2, <1>3, FS_RemoveElement
<1>5. IsFiniteSet(Live') /\ Cardinality(Live') <= Cardinality(Live \ {x})
  BY <1>2, <1>4, FS_Subset
<1>6. /\ IsFiniteSet(Duplicates') /\ IsFiniteSet(Fresh')
      /\ Cardinality(Duplicates') + Cardinality(Fresh)
           <= Cardinality(Duplicates) + Cardinality(Fresh') + 1
  BY <1>2, HandOverCounts
<1>7. PICK d \in Nat, l \in Nat, f \in Nat :
         d = Cardinality(Duplicates) /\ l = Cardinality(Live) /\ f = Cardinality(Fresh)
  BY <1>3, FS_CardinalityType
<1>8. PICK x1 \in Nat, y1 \in Nat, z1 \in Nat :
         x1 = Cardinality(Duplicates') /\ y1 = Cardinality(Live') /\ z1 = Cardinality(Fresh')
  BY <1>5, <1>6, FS_CardinalityType
<1>9. y1 <= l - 1 /\ x1 + f <= d + z1 + 1
  BY <1>4, <1>5, <1>6, <1>7, <1>8
<1>10. x1 + y1 + f <= d + l + z1 + 0
  BY <1>9
<1>11. Cardinality(Duplicates') + Cardinality(Live') + Cardinality(Fresh)
          <= Cardinality(Duplicates) + Cardinality(Live) + Cardinality(Fresh') + 0
  BY <1>7, <1>8, <1>10
<1>12. Allowance \in Nat /\ Allowance' = Allowance
  BY <1>2, AllowanceGrows
<1>13. Allowance' >= Allowance + 0
  BY <1>12
<1> HIDE DEF Duplicates, Live, Fresh, Allowance
<1> QED
  BY <1>5, <1>6, <1>11, <1>13, PaidFrom

(* A hand-over of which the worker did not learn: the fault pays for it.   *)
LEMMA HandOverPaid ==
    ASSUME TypeOK, TypeOK', DuplicatesPaid, UNCHANGED <<length, overruns>>,
           faults' = faults + 1, NEW p \in Pairs, handed' = HandOver(p),
           NEW m, Relocates(m), Grants(m, {})
    PROVE  DuplicatesPaid'
<1>1. IsFiniteSet({}) /\ Cardinality({}) = 0
  BY FS_EmptySet
<1>2. IsFiniteSet(Live) /\ IsFiniteSet(Duplicates) /\ IsFiniteSet(Fresh)
  BY DEF DuplicatesPaid
<1>3. IsFiniteSet(Live') /\ Cardinality(Live') <= Cardinality(Live) + 0
  BY <1>1, <1>2, LiveMoves
<1>4. /\ IsFiniteSet(Duplicates') /\ IsFiniteSet(Fresh')
      /\ Cardinality(Duplicates') + Cardinality(Fresh)
           <= Cardinality(Duplicates) + Cardinality(Fresh') + 1
  BY HandOverCounts
<1>5. PICK d \in Nat, l \in Nat, f \in Nat :
         d = Cardinality(Duplicates) /\ l = Cardinality(Live) /\ f = Cardinality(Fresh)
  BY <1>2, FS_CardinalityType
<1>6. PICK x1 \in Nat, y1 \in Nat, z1 \in Nat :
         x1 = Cardinality(Duplicates') /\ y1 = Cardinality(Live') /\ z1 = Cardinality(Fresh')
  BY <1>3, <1>4, FS_CardinalityType
<1>7. y1 <= l + 0 /\ x1 + f <= d + z1 + 1
  BY <1>3, <1>4, <1>5, <1>6
<1>8. x1 + y1 + f <= d + l + z1 + 1
  BY <1>7
<1>9. Cardinality(Duplicates') + Cardinality(Live') + Cardinality(Fresh)
         <= Cardinality(Duplicates) + Cardinality(Live) + Cardinality(Fresh') + 1
  BY <1>5, <1>6, <1>8
<1>10. Allowance' >= Allowance + 1
  <2>1. PICK a \in Nat, r \in Nat, o \in Nat : a = Allowance /\ r = Repeats /\ o = overruns
    <3>1. overruns \in Nat
      BY DEF TypeOK
    <3> QED
      BY <3>1, AllowanceGrows, RepeatsTyped
  <2>2. Allowance' = a + (1 + o + r)
    BY <2>1, AllowanceGrows
  <2>3. Allowance' >= a + 1
    BY <2>2
  <2> QED
    BY <2>1, <2>3
<1> HIDE DEF Duplicates, Live, Fresh, Allowance
<1> QED
  BY <1>3, <1>4, <1>9, <1>10, PaidFrom

(* A worker that leaves entries behind gives them back, and owes again     *)
(* whom it served but set no key for.                                      *)
LEMMA ForgetMoves ==
    ASSUME TypeOK, NEW w \in Workers, NEW S \in SUBSET batch[w], Continue(w, S),
           UNCHANGED <<length, lastRead, pending, idle>>, done \subseteq done',
           \A f \in S : ~First(w, f)
    PROVE  \E m, x : /\ Relocates(m) /\ Grants(m, {x})
                     /\ (\A f \in Entries : at[w] = "setkey" /\ First(w, f) => Pair(w, f) \in done')
                           => Grants(m, {})
<1> DEFINE move == [c \in Places |-> IF c \in Attempts THEN c ELSE HeldPlace(c[2], w)]
<1>1. PICK m : m = move
  OBVIOUS
<1>2. PICK x : \A f \in Entries : First(w, f) => x = <<Pair(w, f), FreePlace(f)>>
  <2>1. CASE \E f \in Entries : First(w, f)
    <3>1. PICK f \in Entries : First(w, f)
      BY <2>1
    <3>2. PICK y : y = <<Pair(w, f), FreePlace(f)>>
      OBVIOUS
    <3>3. \A g \in Entries : First(w, g) => y = <<Pair(w, g), FreePlace(g)>>
      BY <3>1, <3>2, EntryUnique
    <3> QED
      BY <3>3
  <2>2. CASE ~\E f \in Entries : First(w, f)
    BY <2>2
  <2> QED
    BY <2>1, <2>2
<1>3. batch \in [Workers -> SUBSET (1..lastRead)] /\ at \in [Workers -> Location]
  BY DEF TypeOK
<1>4. \A v \in Workers \ {w} : batch'[v] = batch[v] /\ at'[v] = at[v] /\ pos'[v] = pos[v]
  BY OthersAlone
<1>5. batch'[w] = S /\ at'[w] # "hand" /\ at'[w] # "setkey"
  BY <1>3 DEF Continue, Entrance
<1>6. Created' = Created
  BY DEF Created
<1>7. ASSUME NEW f \in Entries, FreePlace(f) \in Attempts'
      PROVE  /\ f \in Created
             /\ \/ FreePlace(f) \in Attempts /\ m[FreePlace(f)] = FreePlace(f)
                \/ /\ f \in batch[w] /\ f \notin S
                   /\ HeldPlace(f, w) \in Attempts /\ m[FreePlace(f)] = HeldPlace(f, w)
  <2>1. f \in Created /\ Free(f)'
    BY <1>6, <1>7, AttemptsAtNext DEF AsPlaced
  <2>2. FreePlace(f) \in Places /\ FreePlace(f)[2] = f
    BY PlacesDiffer
  <2>3. CASE Free(f)
    <3>1. FreePlace(f) \in Attempts
      BY <2>1, <2>3, AttemptsAt DEF AsPlaced
    <3>2. m[FreePlace(f)] = FreePlace(f)
      BY <1>1, <2>2, <3>1
    <3> QED
      BY <2>1, <3>1, <3>2
  <2>4. CASE ~Free(f)
    <3>1. f \in pending /\ ~Held(f)' /\ Held(f)
      BY <2>1, <2>4 DEF Free
    <3>2. f \in batch[w] /\ f \notin S
      BY <1>4, <1>5, <3>1 DEF Held
    <3>3. FreePlace(f) \notin Attempts /\ HeldPlace(f, w) \in Attempts
      BY <2>1, <2>4, <3>2, AttemptsAt DEF AsPlaced
    <3>4. m[FreePlace(f)] = HeldPlace(f, w)
      BY <1>1, <2>2, <3>3
    <3> QED
      BY <2>1, <3>2, <3>3, <3>4
  <2> QED
    BY <2>3, <2>4
<1>8. ASSUME NEW f \in Entries, NEW v \in Workers, HeldPlace(f, v) \in Attempts'
      PROVE  /\ HeldPlace(f, v) \in Attempts /\ m[HeldPlace(f, v)] = HeldPlace(f, v)
             /\ v = w => f \in S
  <2>1. f \in Created /\ f \in batch'[v]
    BY <1>6, <1>8, AttemptsAtNext DEF AsPlaced
  <2>2. f \in batch[v] /\ (v = w => f \in S)
    BY <1>4, <1>5, <2>1
  <2>3. HeldPlace(f, v) \in Attempts /\ HeldPlace(f, v) \in Places
    BY <2>1, <2>2, AttemptsAt, PlacesDiffer DEF AsPlaced
  <2>4. m[HeldPlace(f, v)] = HeldPlace(f, v)
    BY <1>1, <2>3
  <2> QED
    BY <2>2, <2>3, <2>4
<1> HIDE DEF move
<1>9. Relocates(m)
  <2>1. ASSUME NEW c \in Attempts' PROVE m[c] \in Attempts /\ m[c][2] = c[2]
    BY <1>7, <1>8, AttemptsAtNext, PlacesDiffer DEF AsPlaced
  <2>2. ASSUME NEW c \in Attempts', NEW d \in Attempts', m[c] = m[d] PROVE c = d
    <3>1. ASSUME NEW f \in Entries, NEW g \in Entries, c = FreePlace(f), d = FreePlace(g) PROVE c = d
      BY <1>7, <2>2, <3>1, PlacesDiffer
    <3>2. ASSUME NEW f \in Entries, NEW g \in Entries, NEW v \in Workers,
                 FreePlace(f) \in Attempts', HeldPlace(g, v) \in Attempts'
          PROVE  m[FreePlace(f)] # m[HeldPlace(g, v)]
      <4>1. m[HeldPlace(g, v)] = HeldPlace(g, v) /\ (v = w => g \in S)
        BY <1>8, <3>2
      <4>2. CASE m[FreePlace(f)] = FreePlace(f)
        BY <4>1, <4>2, PlacesDiffer
      <4>3. CASE f \in batch[w] /\ f \notin S /\ m[FreePlace(f)] = HeldPlace(f, w)
        BY <4>1, <4>3, PlacesDiffer
      <4> QED
        BY <1>7, <3>2, <4>2, <4>3
    <3>3. ASSUME NEW f \in Entries, NEW g \in Entries, NEW u \in Workers, NEW v \in Workers,
                 c = HeldPlace(f, u), d = HeldPlace(g, v)
          PROVE  c = d
      BY <1>8, <2>2, <3>3
    <3> QED
      BY <2>2, <3>1, <3>2, <3>3, AttemptsAtNext DEF AsPlaced
  <2> QED
    BY <2>1, <2>2 DEF Relocates
<1>10. ASSUME NEW p \in Pairs, NEW c \in Attempts', Owes(c, p)'
       PROVE  \/ Owes(m[c], p)
              \/ \E f \in Entries : /\ at[w] = "setkey" /\ First(w, f) /\ p = Pair(w, f)
                                    /\ c = FreePlace(f) /\ p \notin done'
  <2>1. ASSUME NEW f \in Entries, c = FreePlace(f)
        PROVE  \/ Owes(m[c], p)
               \/ /\ at[w] = "setkey" /\ First(w, f) /\ p = Pair(w, f) /\ p \notin done'
    <3>1. p \notin done' /\ p \notin done
      BY <1>10, <2>1, FacingAtNext DEF Owes
    <3>2. CASE m[c] = c
      BY <2>1, <3>1, <3>2, FacingAt DEF Owes
    <3>3. CASE m[c] = HeldPlace(f, w)
      BY <3>1, <3>3, FacingAt DEF Owes
    <3> QED
      BY <1>7, <2>1, <3>2, <3>3
  <2>2. ASSUME NEW f \in Entries, NEW v \in Workers, c = HeldPlace(f, v) PROVE Owes(m[c], p)
    <3>1. m[c] = c /\ (v = w => f \in S)
      BY <1>8, <2>2
    <3>2. \A location :
             /\ Facing(c, location, p) <=> at[v] = location /\ First(v, f) /\ Pair(v, f) = p
             /\ Facing(c, location, p)' <=> at'[v] = location /\ First(v, f)' /\ Pair(v, f)' = p
      BY <2>2, FacingAt, FacingAtNext
    <3>3. CASE v # w
      <4>1. (First(v, f)' <=> First(v, f)) /\ Pair(v, f)' = Pair(v, f) /\ at'[v] = at[v]
        BY <1>4, <3>3 DEF First, Pair
      <4>2. \A location : Facing(c, location, p)' <=> Facing(c, location, p)
        BY <3>2, <4>1
      <4>3. ~(Facing(c, "hand", p) /\ Facing(c, "setkey", p))
        BY <3>2
      <4> QED
        BY <1>10, <3>1, <4>2, <4>3 DEF Owes
    <3>4. CASE v = w
      <4>1. p \notin done'
        BY <1>5, <1>10, <3>2, <3>4 DEF Owes
      <4>2. ~Facing(c, "setkey", p)
        BY <3>1, <3>2, <3>4
      <4> QED
        BY <3>1, <4>1, <4>2 DEF Owes
    <3> QED
      BY <3>3, <3>4
  <2> QED
    BY <2>1, <2>2, AttemptsAtNext DEF AsPlaced
<1>11. Grants(m, {x})
  <2>1. ASSUME NEW p \in Pairs, NEW c \in Attempts', Owes(c, p)'
        PROVE  <<p, c>> \in {x} \/ Owes(m[c], p)
    BY <1>2, <1>10, <2>1
  <2> QED
    BY <2>1 DEF Grants
<1>12. ASSUME \A f \in Entries : at[w] = "setkey" /\ First(w, f) => Pair(w, f) \in done'
       PROVE  Grants(m, {})
  BY <1>10, <1>12 DEF Grants
<1> QED
  BY <1>9, <1>11, <1>12

(* A worker that takes entries takes over the attempts at them.            *)
LEMMA TakeMoves ==
    ASSUME TypeOK, NEW w \in Workers, batch[w] = {}, at[w] = "idle", NEW S \in SUBSET Entries,
           Continue(w, S), UNCHANGED <<length, done>>,
           \A f \in S : Free(f), \A f \in Entries : Free(f)' => Free(f) /\ f \notin S
    PROVE  \E m : Relocates(m) /\ Grants(m, {})
<1> DEFINE move == [c \in Places |-> IF c \in Attempts THEN c ELSE FreePlace(c[2])]
<1>1. PICK m : m = move
  OBVIOUS
<1>2. batch \in [Workers -> SUBSET (1..lastRead)] /\ at \in [Workers -> Location]
  BY DEF TypeOK
<1>3. \A v \in Workers \ {w} : batch'[v] = batch[v] /\ at'[v] = at[v] /\ pos'[v] = pos[v]
  BY OthersAlone
<1>4. batch'[w] = S /\ at'[w] # "hand" /\ at'[w] # "setkey"
  BY <1>2 DEF Continue, Entrance
<1>5. Created' = Created
  BY DEF Created
<1>6. ASSUME NEW f \in Entries, FreePlace(f) \in Attempts'
      PROVE  FreePlace(f) \in Attempts /\ m[FreePlace(f)] = FreePlace(f) /\ f \notin S
  <2>1. f \in Created /\ Free(f) /\ f \notin S
    BY <1>5, <1>6, AttemptsAtNext DEF AsPlaced
  <2>2. FreePlace(f) \in Attempts /\ FreePlace(f) \in Places
    BY <2>1, AttemptsAt, PlacesDiffer DEF AsPlaced
  <2> QED
    BY <1>1, <2>1, <2>2
<1>7. ASSUME NEW f \in Entries, NEW v \in Workers, HeldPlace(f, v) \in Attempts'
      PROVE  \/ /\ v # w /\ HeldPlace(f, v) \in Attempts
                /\ m[HeldPlace(f, v)] = HeldPlace(f, v)
             \/ /\ v = w /\ f \in S /\ FreePlace(f) \in Attempts
                /\ m[HeldPlace(f, v)] = FreePlace(f)
  <2>1. f \in Created /\ f \in batch'[v]
    BY <1>5, <1>7, AttemptsAtNext DEF AsPlaced
  <2>2. HeldPlace(f, v) \in Places /\ HeldPlace(f, v)[2] = f
    BY PlacesDiffer
  <2>3. CASE v # w
    <3>1. HeldPlace(f, v) \in Attempts
      BY <1>3, <2>1, <2>3, AttemptsAt DEF AsPlaced
    <3>2. m[HeldPlace(f, v)] = HeldPlace(f, v)
      BY <1>1, <2>2, <3>1
    <3> QED
      BY <2>3, <3>1, <3>2
  <2>4. CASE v = w
    <3>1. f \in S /\ FreePlace(f) \in Attempts
      BY <1>4, <2>1, <2>4, AttemptsAt DEF AsPlaced
    <3>2. HeldPlace(f, v) \notin Attempts
      BY <2>4, AttemptsAt DEF AsPlaced
    <3>3. m[HeldPlace(f, v)] = FreePlace(f)
      BY <1>1, <2>2, <3>2
    <3> QED
      BY <2>4, <3>1, <3>3
  <2> QED
    BY <2>3, <2>4
<1> HIDE DEF move
<1>8. Relocates(m)
  <2>1. ASSUME NEW c \in Attempts' PROVE m[c] \in Attempts /\ m[c][2] = c[2]
    BY <1>6, <1>7, AttemptsAtNext, PlacesDiffer DEF AsPlaced
  <2>2. ASSUME NEW c \in Attempts', NEW d \in Attempts', m[c] = m[d] PROVE c = d
    <3>1. ASSUME NEW f \in Entries, NEW g \in Entries, c = FreePlace(f), d = FreePlace(g) PROVE c = d
      BY <1>6, <2>2, <3>1
    <3>2. ASSUME NEW f \in Entries, NEW g \in Entries, NEW v \in Workers,
                 FreePlace(f) \in Attempts', HeldPlace(g, v) \in Attempts'
          PROVE  m[FreePlace(f)] # m[HeldPlace(g, v)]
      <4>1. m[FreePlace(f)] = FreePlace(f) /\ f \notin S
        BY <1>6, <3>2
      <4>2. CASE m[HeldPlace(g, v)] = HeldPlace(g, v)
        BY <4>1, <4>2, PlacesDiffer
      <4>3. CASE g \in S /\ m[HeldPlace(g, v)] = FreePlace(g)
        BY <4>1, <4>3, PlacesDiffer
      <4> QED
        BY <1>7, <3>2, <4>2, <4>3
    <3>3. ASSUME NEW f \in Entries, NEW g \in Entries, NEW u \in Workers, NEW v \in Workers,
                 c = HeldPlace(f, u), d = HeldPlace(g, v)
          PROVE  c = d
      BY <1>7, <2>2, <3>3, PlacesDiffer
    <3> QED
      BY <2>2, <3>1, <3>2, <3>3, AttemptsAtNext DEF AsPlaced
  <2> QED
    BY <2>1, <2>2 DEF Relocates
<1>9. ASSUME NEW p \in Pairs, NEW c \in Attempts', Owes(c, p)' PROVE Owes(m[c], p)
  <2>1. ASSUME NEW f \in Entries, c = FreePlace(f) PROVE Owes(m[c], p)
    <3>1. \A location : ~Facing(c, location, p) /\ ~Facing(c, location, p)'
      BY <2>1, FacingAt, FacingAtNext
    <3>2. m[c] = c
      BY <1>6, <2>1
    <3> QED
      BY <1>9, <3>1, <3>2 DEF Owes
  <2>2. ASSUME NEW f \in Entries, NEW v \in Workers, c = HeldPlace(f, v) PROVE Owes(m[c], p)
    <3>1. \A location :
             /\ Facing(c, location, p) <=> at[v] = location /\ First(v, f) /\ Pair(v, f) = p
             /\ Facing(c, location, p)' <=> at'[v] = location /\ First(v, f)' /\ Pair(v, f)' = p
      BY <2>2, FacingAt, FacingAtNext
    <3>2. CASE v # w /\ m[c] = c
      <4>1. (First(v, f)' <=> First(v, f)) /\ Pair(v, f)' = Pair(v, f) /\ at'[v] = at[v]
        BY <1>3, <3>2 DEF First, Pair
      <4>2. \A location : Facing(c, location, p)' <=> Facing(c, location, p)
        BY <3>1, <4>1
      <4> QED
        BY <1>9, <3>2, <4>2 DEF Owes
    <3>3. CASE v = w /\ m[c] = FreePlace(f)
      <4>1. p \notin done
        BY <1>4, <1>9, <3>1, <3>3 DEF Owes
      <4>2. ~Facing(FreePlace(f), "setkey", p)
        BY FacingAt
      <4>3. Owes(FreePlace(f), p)
        BY <4>1, <4>2 DEF Owes
      <4> QED
        BY <3>3, <4>3
    <3> QED
      BY <1>7, <2>2, <3>2, <3>3
  <2> QED
    BY <2>1, <2>2, AttemptsAtNext DEF AsPlaced
<1>10. Grants(m, {})
  BY <1>9 DEF Grants
<1> QED
  BY <1>8, <1>10

LEMMA TakesMove ==
    ASSUME TypeOK, IdleHoldsNothing, NEW w \in Workers, Reclaim(w) \/ ReadNew(w)
    PROVE  \E m : Relocates(m) /\ Grants(m, {})
<1>0. /\ batch[w] = {} /\ at[w] = "idle"
      /\ lastRead \in Nat /\ length \in Nat /\ lastRead <= length /\ length <= Len(Stream)
      /\ Entries = 1..Len(Stream) /\ Len(Stream) \in Nat
      /\ pending \subseteq 1..lastRead /\ idle \subseteq pending
      /\ batch \in [Workers -> SUBSET (1..lastRead)]
  BY EntriesTyped DEF IdleHoldsNothing, Reclaim, ReadNew, TypeOK
<1>1. CASE Reclaim(w)
  <2>1. PICK S : S = FirstOf(idle)
    OBVIOUS
  <2>2. S \subseteq idle
    BY <2>1 DEF FirstOf
  <2>3. /\ Continue(w, S) /\ idle' = idle \ S /\ UNCHANGED <<length, lastRead, pending, done>>
    BY <1>1, <2>1 DEF Reclaim, redis
  <2>4. S \in SUBSET Entries
    BY <1>0, <2>2
  <2>5. \A f \in S : Free(f)
    BY <2>2 DEF Free
  <2>6. \A v \in Workers : batch[v] \subseteq batch'[v]
    BY <1>0, <2>3 DEF Continue
  <2>7. batch'[w] = S
    BY <1>0, <2>3 DEF Continue
  <2>8. ASSUME NEW f \in Entries, Free(f)' PROVE Free(f) /\ f \notin S
    <3>1. Held(f) => Held(f)'
      BY <2>6 DEF Held
    <3>2. f \in S => Held(f)' /\ ~(f > lastRead) /\ f \notin idle'
      BY <1>0, <2>2, <2>3, <2>7 DEF Held
    <3> QED
      BY <1>0, <2>2, <2>3, <2>8, <3>1, <3>2 DEF Free
  <2> QED
    BY <1>0, <2>3, <2>4, <2>5, <2>8, TakeMoves
<1>2. CASE ReadNew(w)
  <2>1. PICK S : S = FirstOf((lastRead + 1)..length)
    OBVIOUS
  <2>2. /\ Cardinality(S) \in Nat /\ lastRead + Cardinality(S) <= length
        /\ S = (lastRead + 1)..(lastRead + Cardinality(S))
    BY <1>0, <1>2, <2>1, FirstOfInterval DEF ReadNew
  <2>3. /\ Continue(w, S) /\ UNCHANGED <<length, idle, done>> /\ idle = {}
        /\ pending' = pending \cup S /\ lastRead' = lastRead + Cardinality(S)
    BY <1>2, <2>1 DEF ReadNew, redis
  <2>4. S \in SUBSET Entries /\ \A f \in S : f > lastRead /\ ~(f > lastRead')
    BY <1>0, <2>2, <2>3
  <2>5. \A f \in S : Free(f)
    BY <2>4 DEF Free
  <2>6. (\A v \in Workers : batch[v] \subseteq batch'[v]) /\ batch'[w] = S
    BY <1>0, <2>3 DEF Continue
  <2>7. ASSUME NEW f \in Entries, Free(f)' PROVE Free(f) /\ f \notin S
    <3>1. Held(f) => Held(f)'
      BY <2>6 DEF Held
    <3>2. f \in S => Held(f)' /\ ~(f > lastRead') /\ f \notin idle'
      BY <2>3, <2>4, <2>6 DEF Held
    <3>3. f > lastRead' => f > lastRead
      BY <1>0, <2>2, <2>3
    <3>4. f \notin S
      BY <2>7, <3>2 DEF Free
    <3>5. Free(f)
      BY <2>3, <2>7, <3>1, <3>3, <3>4 DEF Free
    <3> QED
      BY <3>4, <3>5
  <2> QED
    BY <1>0, <2>3, <2>4, <2>5, <2>7, TakeMoves
<1> QED
  BY <1>1, <1>2

-----------------------------------------------------------------------------
(* Steps that add attempts or debts.                                       *)
LEMMA PaidAdds ==
    ASSUME TypeOK, TypeOK', DuplicatesPaid, Duplicates' = Duplicates, IsFiniteSet(Fresh'),
           NEW G, IsFiniteSet(G), Live' \subseteq Live \cup G, NEW paid \in Nat,
           Cardinality(Fresh) + Cardinality(G) <= Cardinality(Fresh') + paid,
           Allowance' >= Allowance + paid
    PROVE  DuplicatesPaid'
<1>1. IsFiniteSet(Live) /\ IsFiniteSet(Duplicates) /\ IsFiniteSet(Fresh)
  BY DEF DuplicatesPaid
<1>2. IsFiniteSet(Live') /\ Cardinality(Live') <= Cardinality(Live) + Cardinality(G)
  BY <1>1, UnionBound
<1>3. PICK d \in Nat, l \in Nat, f \in Nat, g \in Nat :
         /\ d = Cardinality(Duplicates) /\ l = Cardinality(Live) /\ f = Cardinality(Fresh)
         /\ g = Cardinality(G)
  BY <1>1, FS_CardinalityType
<1>4. PICK y1 \in Nat, z1 \in Nat : y1 = Cardinality(Live') /\ z1 = Cardinality(Fresh')
  BY <1>2, FS_CardinalityType
<1>5. y1 <= l + g /\ f + g <= z1 + paid
  BY <1>2, <1>3, <1>4
<1>6. d + y1 + f <= d + l + z1 + paid
  BY <1>5
<1>7. Cardinality(Duplicates') + Cardinality(Live') + Cardinality(Fresh)
         <= Cardinality(Duplicates) + Cardinality(Live) + Cardinality(Fresh') + paid
  BY <1>3, <1>4, <1>6
<1>8. IsFiniteSet(Duplicates')
  BY <1>1
<1> HIDE DEF Duplicates, Live, Fresh, Allowance
<1> QED
  BY <1>2, <1>7, <1>8, PaidFrom

(* What a further attempt at an entry may owe.                             *)
PairsOf(e) == {Stream[e].subject} \X Recipients(e)
Debts(e) == {<<p, FreePlace(e)>> : p \in PairsOf(e)}

LEMMA DebtsBound ==
    ASSUME NEW e \in Entries
    PROVE  /\ PairsOf(e) \subseteq Pairs
           /\ \A p \in Pairs : p[1] = Stream[e].subject => p \in PairsOf(e)
           /\ IsFiniteSet(PairsOf(e)) /\ Cardinality(PairsOf(e)) <= Cardinality(Users)
           /\ IsFiniteSet(Debts(e)) /\ Cardinality(Debts(e)) <= Cardinality(PairsOf(e))
<1>1. PairsOf(e) \subseteq Pairs
  BY DEF PairsOf, Pairs
<1>2. ASSUME NEW p \in Pairs, p[1] = Stream[e].subject PROVE p \in PairsOf(e)
  <2>1. PICK d \in Entries : p \in {Stream[d].subject} \X Recipients(d)
    BY DEF Pairs
  <2>2. Stream[d].subject = Stream[e].subject
    BY <1>2, <2>1
  <2>3. Stream[d] = Stream[e]
    BY <2>2 DEF Entries
  <2> QED
    BY <2>1, <2>3 DEF PairsOf, Recipients
<1>3. Recipients(e) \subseteq Users
  <2>1. Stream[e].to \in Seq(Users)
    BY EntriesTyped
  <2> QED
    BY <2>1 DEF Recipients
<1>4. IsFiniteSet(PairsOf(e)) /\ Cardinality(PairsOf(e)) <= Cardinality(Users)
  <2> DEFINE F == [u \in Users |-> <<Stream[e].subject, u>>]
  <2>1. /\ IsFiniteSet({F[u] : u \in Users}) /\ Cardinality({F[u] : u \in Users}) <= Cardinality(Users)
    BY ImageBound
  <2>2. PairsOf(e) \in SUBSET {F[u] : u \in Users}
    BY <1>3 DEF PairsOf
  <2> HIDE DEF F
  <2>3. /\ IsFiniteSet(PairsOf(e))
        /\ Cardinality(PairsOf(e)) <= Cardinality({F[u] : u \in Users})
    BY <2>1, <2>2, FS_Subset
  <2>4. /\ Cardinality(PairsOf(e)) \in Nat /\ Cardinality({F[u] : u \in Users}) \in Nat
        /\ Cardinality(Users) \in Nat
    BY <2>1, <2>3, FS_CardinalityType
  <2> QED
    BY <2>1, <2>3, <2>4
<1>5. IsFiniteSet(Debts(e)) /\ Cardinality(Debts(e)) <= Cardinality(PairsOf(e))
  <2> DEFINE F == [p \in PairsOf(e) |-> <<p, FreePlace(e)>>]
  <2>1. /\ IsFiniteSet({F[p] : p \in PairsOf(e)})
        /\ Cardinality({F[p] : p \in PairsOf(e)}) <= Cardinality(PairsOf(e))
    BY <1>4, ImageBound
  <2>2. Debts(e) = {F[p] : p \in PairsOf(e)}
    BY DEF Debts
  <2> HIDE DEF F
  <2> QED
    BY <2>1, <2>2
<1> QED
  BY <1>1, <1>2, <1>4, <1>5

LEMMA NewAttempt ==
    ASSUME NEW e \in Entries, Attempts' \subseteq Attempts \cup {FreePlace(e)},
           UNCHANGED <<batch, at, pos, done>>
    PROVE  Live' \subseteq Live \cup Debts(e)
<1>1. \A c, p : Owes(c, p)' <=> Owes(c, p)
  BY DEF Owes, Facing, First, Pair
<1>2. ASSUME NEW x \in Live' PROVE x \in Live \cup Debts(e)
  <2>1. /\ x[1] \in Pairs /\ x[2] \in Attempts' /\ x = <<x[1], x[2]>>
        /\ Stream[x[2][2]].subject = x[1][1] /\ Owes(x[2], x[1])
    BY <1>1 DEF Live
  <2>2. CASE x[2] \in Attempts
    BY <2>1, <2>2 DEF Live
  <2>3. CASE x[2] = FreePlace(e)
    <3>1. x[1] \in PairsOf(e)
      BY <2>1, <2>3, DebtsBound, PlacesDiffer DEF FreePlace
    <3> QED
      BY <2>1, <2>3, <3>1 DEF Debts
  <2> QED
    BY <2>1, <2>2, <2>3
<1> QED
  BY <1>2

(* An entry taken over from a live worker.                                 *)
LEMMA OverrunPaid ==
    ASSUME TypeOK, TypeOK', AttemptsBounded, DuplicatesPaid, NEW e \in Entries, HolderOverruns(e)
    PROVE  AttemptsBounded' /\ DuplicatesPaid'
<1>1. /\ UNCHANGED <<length, lastRead, pending, batch, at, pos, handed, done, faults>>
      /\ overruns' = overruns + 1 /\ idle' = idle \cup {e}
  BY DEF HolderOverruns, redis
<1>2. Created' = Created /\ \A f \in Entries : Free(f)' => Free(f) \/ f = e
  BY <1>1 DEF Created, Free, Held
<1>3. Attempts' \subseteq Attempts \cup {FreePlace(e)}
  <2>1. ASSUME NEW f \in Entries, FreePlace(f) \in Attempts'
        PROVE  FreePlace(f) \in Attempts \cup {FreePlace(e)}
    BY <1>2, <2>1, AttemptsAt, AttemptsAtNext DEF AsPlaced
  <2>2. ASSUME NEW f \in Entries, NEW v \in Workers, HeldPlace(f, v) \in Attempts'
        PROVE  HeldPlace(f, v) \in Attempts
    BY <1>1, <1>2, <2>2, AttemptsAt, AttemptsAtNext DEF AsPlaced
  <2> QED
    BY <2>1, <2>2, AttemptsAtNext DEF AsPlaced
<1>4. Live' \subseteq Live \cup Debts(e)
  BY <1>1, <1>3, NewAttempt
<1>5. AttemptsBounded'
  <2> SUFFICES ASSUME NEW s \in Subjects
               PROVE  /\ IsFiniteSet(Of(s, Attempts'))
                      /\ Cardinality(Of(s, Attempts')) <= Cardinality(Copies(s)) + overruns'
    BY <1>2 DEF AttemptsBounded, Copies, Of
  <2>1. /\ IsFiniteSet(Of(s, Attempts))
        /\ Cardinality(Of(s, Attempts)) <= Cardinality(Copies(s)) + overruns
    BY DEF AttemptsBounded
  <2>2. Of(s, Attempts') \subseteq Of(s, Attempts) \cup {FreePlace(e)}
    BY <1>3 DEF Of
  <2>3. IsFiniteSet({FreePlace(e)}) /\ Cardinality({FreePlace(e)}) = 1
    BY SingletonBound
  <2>4. /\ IsFiniteSet(Of(s, Attempts')) /\ Cardinality(Of(s, Attempts')) \in Nat
        /\ Cardinality(Of(s, Attempts')) <= Cardinality(Of(s, Attempts)) + Cardinality({FreePlace(e)})
    BY <2>1, <2>2, <2>3, UnionBound
  <2>5. overruns \in Nat
    BY DEF TypeOK
  <2>6. Cardinality(Of(s, Attempts)) \in Nat /\ Cardinality(Copies(s)) \in Nat
    BY <2>1, RepeatsTyped, FS_CardinalityType
  <2> QED
    BY <1>1, <2>1, <2>3, <2>4, <2>5, <2>6
<1>6. Duplicates' = Duplicates /\ Fresh' = Fresh
  BY <1>1, CountsStay
<1>7. IsFiniteSet(Fresh) /\ IsFiniteSet(Debts(e)) /\ Cardinality(Debts(e)) <= Cardinality(PairsOf(e))
      /\ IsFiniteSet(PairsOf(e)) /\ Cardinality(PairsOf(e)) <= Cardinality(Users)
  BY DebtsBound DEF DuplicatesPaid
<1>8. PICK n \in Nat, f \in Nat, g \in Nat, h \in Nat :
         /\ n = Cardinality(Users) /\ f = Cardinality(Fresh) /\ g = Cardinality(Debts(e))
         /\ h = Cardinality(PairsOf(e))
  BY <1>7, FS_CardinalityType
<1>9. f + g <= f + n
  BY <1>7, <1>8
<1>10. Cardinality(Fresh) + Cardinality(Debts(e)) <= Cardinality(Fresh') + n
  BY <1>6, <1>8, <1>9
<1>11. Allowance' >= Allowance + n
  BY <1>1, <1>8, AllowanceGrows
<1>12. IsFiniteSet(Fresh')
  BY <1>6, <1>7
<1> HIDE DEF Duplicates, Live, Fresh, Allowance, Debts
<1>13. DuplicatesPaid'
  BY <1>4, <1>6, <1>7, <1>10, <1>11, <1>12, PaidAdds
<1> QED
  BY <1>5, <1>13

(* A key that expires may be missed by every attempt at its message.       *)
LEMMA ExpiryPaid ==
    ASSUME TypeOK, TypeOK', AttemptsBounded, DuplicatesPaid, NEW p \in Pairs, KeyExpires(p)
    PROVE  AttemptsBounded' /\ DuplicatesPaid'
<1>1. /\ UNCHANGED <<length, lastRead, pending, idle, batch, at, pos, handed, overruns>>
      /\ faults' = faults + 1 /\ done' = done \ {p}
  BY DEF KeyExpires, Fault
<1>2. Attempts' = Attempts
  BY <1>1, AttemptsStay
<1>3. AttemptsBounded'
  BY <1>1, <1>2 DEF AttemptsBounded, Copies, Created, Of
<1> DEFINE missing == Of(p[1], Attempts)
           F == [c \in missing |-> <<p, c>>]
           G == {F[c] : c \in missing}
<1>4. \A c, q : q # p => (Owes(c, q)' <=> Owes(c, q))
  BY <1>1 DEF Owes, Facing, First, Pair
<1>5. Live' \subseteq Live \cup G
  <2>1. ASSUME NEW x \in Live' PROVE x \in Live \cup G
    <3>1. /\ x[1] \in Pairs /\ x[2] \in Attempts /\ x = <<x[1], x[2]>>
          /\ Stream[x[2][2]].subject = x[1][1] /\ Owes(x[2], x[1])'
      BY <1>2 DEF Live
    <3>2. CASE x[1] # p
      BY <1>4, <3>1, <3>2 DEF Live
    <3>3. CASE x[1] = p
      BY <3>1, <3>3 DEF Of
    <3> QED
      BY <3>2, <3>3
  <2> QED
    BY <2>1
<1>6. p[1] \in Subjects
  <2>1. PICK e \in Entries : p[1] = Stream[e].subject
    BY DEF Pairs
  <2> QED
    BY <2>1, EntriesTyped
<1>7. IsFiniteSet(missing) /\ Cardinality(missing) <= Cardinality(Copies(p[1])) + overruns
  BY <1>6 DEF AttemptsBounded
<1>8. IsFiniteSet(G) /\ Cardinality(G) <= Cardinality(missing)
  <2> HIDE DEF F, missing
  <2> QED
    BY <1>7, ImageBound
<1> HIDE DEF missing, G, F
<1>9. IsFiniteSet(Copies(p[1])) /\ Cardinality(Copies(p[1])) <= 1 + Repeats
  BY RepeatsTyped
<1>10. overruns \in Nat
  BY DEF TypeOK
<1>11. PICK o \in Nat, r \in Nat, k \in Nat, t \in Nat, g \in Nat, f \in Nat, a \in Nat :
          /\ o = overruns /\ r = Repeats /\ k = Cardinality(Copies(p[1]))
          /\ t = Cardinality(missing) /\ g = Cardinality(G) /\ f = Cardinality(Fresh)
          /\ a = Allowance
  <2>1. Repeats \in Nat /\ Allowance \in Nat
    BY RepeatsTyped, AllowanceGrows
  <2>2. /\ Cardinality(Copies(p[1])) \in Nat /\ Cardinality(missing) \in Nat
        /\ Cardinality(G) \in Nat /\ Cardinality(Fresh) \in Nat
    BY <1>7, <1>8, <1>9, FS_CardinalityType DEF DuplicatesPaid
  <2> QED
    BY <1>10, <2>1, <2>2
<1>12. t <= k + o /\ g <= t /\ k <= 1 + r
  BY <1>7, <1>8, <1>9, <1>11
<1>13. g <= 1 + o + r
  BY <1>12
<1>14. PICK paid \in Nat : paid = 1 + o + r
  OBVIOUS
<1>15. f + g <= f + paid
  BY <1>13, <1>14
<1>16. Duplicates' = Duplicates /\ Fresh' = Fresh
  BY <1>1, CountsStay
<1>17. Cardinality(Fresh) + Cardinality(G) <= Cardinality(Fresh') + paid
  BY <1>11, <1>15, <1>16
<1>18. Allowance' = Allowance + (1 + overruns + Repeats)
  BY <1>1, AllowanceGrows
<1>19. Allowance' >= Allowance + paid
  <2>1. Allowance' = a + paid
    BY <1>11, <1>14, <1>18
  <2>2. Allowance' >= a + paid
    BY <2>1
  <2> QED
    BY <1>11, <2>2
<1>20. IsFiniteSet(Fresh')
  BY <1>16 DEF DuplicatesPaid
<1> HIDE DEF Duplicates, Live, Fresh, Allowance
<1>21. DuplicatesPaid'
  BY <1>5, <1>8, <1>16, <1>17, <1>19, <1>20, PaidAdds
<1> QED
  BY <1>3, <1>21

(* An entry nobody works on may be taken as before, only later.            *)
LEMMA OrphanMoves ==
    ASSUME NEW e \in Entries, OrphanIdles(e)
    PROVE  Relocates(Stays) /\ Grants(Stays, {})
<1>1. /\ UNCHANGED <<length, lastRead, pending, batch, at, pos, done>>
      /\ idle' = idle \cup {e} /\ e \in pending /\ ~Held(e)
  BY DEF OrphanIdles, redis
<1>2. \A f : Free(f)' <=> Free(f)
  BY <1>1 DEF Free, Held
<1>3. Attempts' = Attempts
  BY <1>1, <1>2 DEF Attempts, Created
<1>4. \A c, p : Owes(c, p)' <=> Owes(c, p)
  BY <1>1 DEF Owes, Facing, First, Pair
<1> QED
  BY <1>3, <1>4, QuietMove

LEMMA NothingMoves ==
    ASSUME UNCHANGED <<length, lastRead, pending, idle, batch, at, pos, done>>
    PROVE  Relocates(Stays) /\ Grants(Stays, {})
<1>1. Attempts' = Attempts
  BY AttemptsStay
<1>2. \A c, p : Owes(c, p)' <=> Owes(c, p)
  BY DEF Owes, Facing, First, Pair
<1> QED
  BY <1>1, <1>2, QuietMove

(* A fault pays for what the worker it hits leaves behind.                 *)
LEMMA ForgetPaid ==
    ASSUME TypeOK, TypeOK', AttemptsBounded, DuplicatesPaid, NEW w \in Workers,
           NEW S \in SUBSET batch[w], Continue(w, S), \A f \in S : ~First(w, f),
           UNCHANGED <<length, lastRead, pending, idle, overruns>>, done \subseteq done',
           faults' = faults + 1, \A q \in MessagePairs : handed'[q] = handed[q]
    PROVE  AttemptsBounded' /\ DuplicatesPaid'
<1>1. PICK m, x : Relocates(m) /\ Grants(m, {x})
  BY ForgetMoves
<1>2. AttemptsBounded'
  BY <1>1, AttemptsMove
<1>3. IsFiniteSet({x}) /\ Cardinality({x}) = 1
  BY SingletonBound
<1>4. Allowance' >= Allowance + 1
  <2>1. PICK a \in Nat, r \in Nat, o \in Nat : a = Allowance /\ r = Repeats /\ o = overruns
    <3>1. overruns \in Nat
      BY DEF TypeOK
    <3> QED
      BY <3>1, AllowanceGrows, RepeatsTyped
  <2>2. Allowance' = a + (1 + o + r)
    BY <2>1, AllowanceGrows
  <2>3. Allowance' >= a + 1
    BY <2>2
  <2> QED
    BY <2>1, <2>3
<1>5. Allowance' >= Allowance + Cardinality({x})
  BY <1>3, <1>4
<1> QED
  BY <1>1, <1>2, <1>3, <1>5, PaidGrant

LEMMA AbandonPaid ==
    ASSUME TypeOK, TypeOK', AttemptsBounded, DuplicatesPaid, NEW w \in Workers, Abandon(w)
    PROVE  AttemptsBounded' /\ DuplicatesPaid'
<1>1. /\ Continue(w, {}) /\ faults' = faults + 1
      /\ UNCHANGED <<length, lastRead, pending, idle, overruns, handed, done>>
  BY DEF Abandon, Fault, redis
<1> QED
  BY <1>1, ForgetPaid

LEMMA DispatchPaid ==
    ASSUME TypeOK, TypeOK', ProgressInv, AttemptsBounded, DuplicatesPaid, NEW w \in Workers,
           NEW e \in Entries, DispatchRaises(w, e)
    PROVE  AttemptsBounded' /\ DuplicatesPaid'
<1>1. /\ Continue(w, batch[w] \ {e}) /\ faults' = faults + 1 /\ done \subseteq done'
      /\ UNCHANGED <<length, lastRead, pending, idle, overruns>>
      /\ First(w, e) /\ at[w] \in {"hand", "fanout", "setkey"}
      /\ handed' \in {handed, HandOver(Pair(w, e))}
      /\ at[w] = "setkey" => UNCHANGED handed
  BY DEF DispatchRaises, Fault, Busy, First
<1>2. \A f \in batch[w] \ {e} : ~First(w, f)
  <2>1. batch[w] \subseteq Entries
    BY EntriesTyped DEF TypeOK
  <2> QED
    BY <1>1, <2>1, EntryUnique
<1>3. Pair(w, e) \in Pairs
  BY <1>1, BusyPair
<1>4. CASE \A q \in MessagePairs : handed'[q] = handed[q]
  BY <1>1, <1>2, <1>4, ForgetPaid
<1>5. CASE ~ \A q \in MessagePairs : handed'[q] = handed[q]
  <2>1. handed' = HandOver(Pair(w, e)) /\ at[w] # "setkey"
    BY <1>1, <1>5
  <2>2. PICK p \in Pairs : p = Pair(w, e) /\ handed' = HandOver(p)
    BY <1>3, <2>1
  <2>3. PICK m : Relocates(m) /\ Grants(m, {})
    BY <1>1, <1>2, <2>1, ForgetMoves
  <2>4. DuplicatesPaid'
    BY <1>1, <2>2, <2>3, HandOverPaid
  <2> QED
    BY <1>1, <2>3, <2>4, AttemptsMove
<1> QED
  BY <1>4, <1>5

-----------------------------------------------------------------------------
(* An entry is added to the stream.                                        *)
LEMMA AddedEntry ==
    ASSUME TypeOK, TypeOK', Relayed
    PROVE  \E e \in Entries :
              /\ e = length + 1 /\ e \notin Created
              /\ Created' = IF Stream[e].kind = "created" THEN Created \cup {e} ELSE Created
              /\ Attempts' \subseteq Attempts \cup {FreePlace(e)}
              /\ Stream[e].kind # "created" => Attempts' = Attempts
<1>1. PICK e \in Nat : e = length + 1
  BY DEF TypeOK
<1>2. /\ length \in Nat /\ length' = e /\ length < Len(Stream) /\ Len(Stream) \in Nat
      /\ UNCHANGED <<lastRead, pending, idle, batch>>
  BY <1>1, EntriesTyped DEF Relayed, TypeOK
<1>3. e \in Entries /\ 1..length' = (1..length) \cup {e} /\ e \notin 1..length
  BY <1>1, <1>2, EntriesTyped
<1>4. Created' = {f \in (1..length) \cup {e} : Stream[f].kind = "created"}
  BY <1>3 DEF Created
<1>5. Created' = IF Stream[e].kind = "created" THEN Created \cup {e} ELSE Created
  BY <1>4 DEF Created
<1>6. e \notin Created
  BY <1>3 DEF Created
<1>7. \A f : Free(f)' <=> Free(f)
  BY <1>2 DEF Free, Held
<1>8. ASSUME Created' = Created PROVE Attempts' = Attempts
  BY <1>2, <1>7, <1>8 DEF Attempts
<1>9. Attempts' \subseteq Attempts \cup {FreePlace(e)}
  <2>1. ASSUME NEW f \in Entries, FreePlace(f) \in Attempts'
        PROVE  FreePlace(f) \in Attempts \cup {FreePlace(e)}
    BY <1>5, <1>7, <2>1, AttemptsAt, AttemptsAtNext DEF AsPlaced
  <2>2. ASSUME NEW f \in Entries, NEW v \in Workers, HeldPlace(f, v) \in Attempts'
        PROVE  HeldPlace(f, v) \in Attempts
    <3>1. f \in Created' /\ f \in batch[v]
      BY <1>2, <2>2, AttemptsAtNext DEF AsPlaced
    <3>2. f # e
      <4>1. batch[v] \subseteq 1..lastRead /\ lastRead \in Nat /\ lastRead <= length
        BY EntriesTyped DEF TypeOK
      <4> QED
        BY <1>1, <1>2, <3>1, <4>1
    <3>3. f \in Created
      BY <1>5, <3>1, <3>2
    <3> QED
      BY <3>1, <3>3, AttemptsAt DEF AsPlaced
  <2> QED
    BY <2>1, <2>2, AttemptsAtNext DEF AsPlaced
<1> QED
  BY <1>1, <1>3, <1>5, <1>6, <1>8, <1>9

LEMMA AddedAttempts ==
    ASSUME TypeOK, TypeOK', AttemptsBounded, Relayed
    PROVE  AttemptsBounded'
<1>1. PICK e \in Entries :
          /\ e = length + 1 /\ e \notin Created
          /\ Created' = IF Stream[e].kind = "created" THEN Created \cup {e} ELSE Created
          /\ Attempts' \subseteq Attempts \cup {FreePlace(e)}
          /\ Stream[e].kind # "created" => Attempts' = Attempts
  BY AddedEntry
<1>2. UNCHANGED overruns /\ overruns \in Nat
  BY DEF Relayed, counts, TypeOK
<1> SUFFICES ASSUME NEW s \in Subjects
             PROVE  /\ IsFiniteSet(Of(s, Attempts'))
                    /\ Cardinality(Of(s, Attempts')) <= Cardinality(Copies(s)') + overruns
  BY <1>2 DEF AttemptsBounded, Of
<1>3. /\ IsFiniteSet(Of(s, Attempts))
      /\ Cardinality(Of(s, Attempts)) <= Cardinality(Copies(s)) + overruns
  BY DEF AttemptsBounded
<1>4. CASE Stream[e].kind = "created" /\ Stream[e].subject = s
  <2>1. Copies(s)' = Copies(s) \cup {e} /\ e \notin Copies(s)
    BY <1>1, <1>4 DEF Copies
  <2>2. IsFiniteSet(Copies(s))
    BY RepeatsTyped
  <2>3. Cardinality(Copies(s)') = Cardinality(Copies(s)) + 1
    BY <2>1, <2>2, FS_AddElement
  <2>4. Of(s, Attempts') \subseteq Of(s, Attempts) \cup {FreePlace(e)}
    BY <1>1 DEF Of
  <2>5. IsFiniteSet({FreePlace(e)}) /\ Cardinality({FreePlace(e)}) = 1
    BY SingletonBound
  <2>6. /\ IsFiniteSet(Of(s, Attempts')) /\ Cardinality(Of(s, Attempts')) \in Nat
        /\ Cardinality(Of(s, Attempts')) <= Cardinality(Of(s, Attempts)) + Cardinality({FreePlace(e)})
    BY <1>3, <2>4, <2>5, UnionBound
  <2>7. Cardinality(Of(s, Attempts)) \in Nat /\ Cardinality(Copies(s)) \in Nat
    BY <1>3, <2>2, FS_CardinalityType
  <2> QED
    BY <1>2, <1>3, <2>3, <2>5, <2>6, <2>7
<1>5. CASE ~(Stream[e].kind = "created" /\ Stream[e].subject = s)
  <2>1. Copies(s)' = Copies(s)
    BY <1>1, <1>5 DEF Copies
  <2>2. Of(s, Attempts') \in SUBSET Of(s, Attempts)
    <3>1. FreePlace(e)[2] = e
      BY DEF FreePlace
    <3> QED
      BY <1>1, <1>5, <3>1 DEF Of
  <2>3. IsFiniteSet(Of(s, Attempts')) /\ Cardinality(Of(s, Attempts')) <= Cardinality(Of(s, Attempts))
    BY <1>3, <2>2, FS_Subset
  <2>4. /\ Cardinality(Of(s, Attempts)) \in Nat /\ Cardinality(Of(s, Attempts')) \in Nat
        /\ Cardinality(Copies(s)) \in Nat
    BY <1>3, <2>3, RepeatsTyped, FS_CardinalityType
  <2> QED
    BY <1>2, <1>3, <2>1, <2>3, <2>4
<1> QED
  BY <1>4, <1>5

(* A second copy of a message is a repetition, a first one is not.         *)
LEMMA AddedRepeats ==
    ASSUME TypeOK, NEW e \in Entries, e \notin Created, Created' = Created \cup {e}
    PROVE  IF \E d \in Created : Stream[d].subject = Stream[e].subject
           THEN Repeats' = Repeats + 1 ELSE Repeats' = Repeats
<1> DEFINE F == [f \in Entries |-> Stream[f].subject]
           Names == {F[f] : f \in Created}
<1>1. Created \subseteq Entries /\ IsFiniteSet(Created)
  BY CreatedTyped
<1>2. {Stream[f].subject : f \in Created} = Names
  BY <1>1
<1>3. {Stream[f].subject : f \in Created'} = Names \cup {Stream[e].subject}
  BY <1>1, <1>2
<1>4. IsFiniteSet(Names)
  <2> HIDE DEF F
  <2> QED
    BY <1>1, ImageBound
<1>5. Cardinality(Created') = Cardinality(Created) + 1
  BY <1>1, FS_AddElement
<1>6. Cardinality(Created) \in Nat /\ Cardinality(Names) \in Nat
  BY <1>1, <1>4, FS_CardinalityType
<1>7. (\E d \in Created : Stream[d].subject = Stream[e].subject) <=> Stream[e].subject \in Names
  BY <1>1
<1> HIDE DEF Names, F
<1>8. Repeats = Cardinality(Created) - Cardinality(Names)
  BY <1>2 DEF Repeats
<1>9. Repeats' = Cardinality(Created') - Cardinality(Names \cup {Stream[e].subject})
  BY <1>3 DEF Repeats
<1>10. Cardinality(Names \cup {Stream[e].subject})
          = IF Stream[e].subject \in Names THEN Cardinality(Names) ELSE Cardinality(Names) + 1
  BY <1>4, FS_AddElement
<1>11. CASE Stream[e].subject \in Names
  <2>1. Repeats' = (Cardinality(Created) + 1) - Cardinality(Names)
    BY <1>5, <1>9, <1>10, <1>11
  <2>2. Repeats' = Repeats + 1
    BY <1>6, <1>8, <2>1
  <2> QED
    BY <1>7, <1>11, <2>2
<1>12. CASE Stream[e].subject \notin Names
  <2>1. Repeats' = (Cardinality(Created) + 1) - (Cardinality(Names) + 1)
    BY <1>5, <1>9, <1>10, <1>12
  <2>2. Repeats' = Repeats
    BY <1>6, <1>8, <2>1
  <2> QED
    BY <1>7, <1>12, <2>2
<1> QED
  BY <1>11, <1>12

(* What an entry adds to be handed over, if it brings a message: all of it *)
(* the first time, and nothing but repetitions after that.                 *)
LEMMA RelayedPaid ==
    ASSUME DeliveryInv, TypeOK', DuplicatesPaid, Relayed
    PROVE  DuplicatesPaid'
<1>0. TypeOK
  BY DEF DeliveryInv
<1>1. PICK e \in Entries :
          /\ e = length + 1 /\ e \notin Created
          /\ Created' = IF Stream[e].kind = "created" THEN Created \cup {e} ELSE Created
          /\ Attempts' \subseteq Attempts \cup {FreePlace(e)}
          /\ Stream[e].kind # "created" => Attempts' = Attempts
  BY <1>0, AddedEntry
<1>2. /\ UNCHANGED <<batch, at, pos, handed, done, faults, overruns>>
      /\ length \in Nat /\ length' = length + 1
  BY <1>0 DEF Relayed, redis, counts, TypeOK
<1>3. Live' \subseteq Live \cup Debts(e)
  BY <1>1, <1>2, NewAttempt
<1>4. IsFiniteSet(Fresh) /\ IsFiniteSet(Live)
  BY DEF DuplicatesPaid
<1>5. MessagePairs' = {q \in Pairs : \E d \in Created' : /\ Stream[d].subject = q[1]
                                                         /\ q[2] \in Recipients(d)}
  BY DEF MessagePairs, Carrying, Created
<1>6. MessagePairs = {q \in Pairs : \E d \in Created : /\ Stream[d].subject = q[1]
                                                       /\ q[2] \in Recipients(d)}
  BY DEF MessagePairs, Carrying, Created
<1>7. Allowance \in Nat
  BY <1>0, AllowanceGrows
<1>8. CASE Stream[e].kind # "created"
  <2>1. MessagePairs' = MessagePairs /\ Repeats' = Repeats
    BY <1>1, <1>5, <1>6, <1>8 DEF Repeats
  <2>2. Duplicates' = Duplicates /\ Fresh' = Fresh
    BY <1>2, <2>1 DEF Duplicates, Fresh
  <2>3. Live' \subseteq Live \cup {}
    BY <1>1, <1>2, <1>8 DEF Live, Owes, Facing, First, Pair
  <2>4. IsFiniteSet({}) /\ Cardinality({}) = 0
    BY FS_EmptySet
  <2>5. Allowance' = Allowance
    BY <1>0, <1>2, <2>1, AllowanceGrows
  <2>6. Cardinality(Fresh) \in Nat
    BY <1>4, FS_CardinalityType
  <2>7. Cardinality(Fresh) + Cardinality({}) <= Cardinality(Fresh') + 0
    BY <2>2, <2>4, <2>6
  <2>8. Allowance' >= Allowance + 0
    BY <1>7, <2>5
  <2>9. IsFiniteSet(Fresh')
    BY <1>4, <2>2
  <2> HIDE DEF Duplicates, Live, Fresh, Allowance
  <2> QED
    BY <1>0, <2>2, <2>3, <2>4, <2>7, <2>8, <2>9, PaidAdds
<1>9. ASSUME Stream[e].kind = "created", NEW d \in Created, Stream[d].subject = Stream[e].subject
      PROVE  DuplicatesPaid'
  <2>1. Recipients(d) = Recipients(e)
    <3>1. Stream[d] = Stream[e]
      BY <1>0, <1>9, CreatedTyped DEF Entries
    <3> QED
      BY <3>1 DEF Recipients
  <2>2. MessagePairs' = MessagePairs
    BY <1>1, <1>5, <1>6, <1>9, <2>1
  <2>3. Duplicates' = Duplicates /\ Fresh' = Fresh
    BY <1>2, <2>2 DEF Duplicates, Fresh
  <2>4. Repeats' = Repeats + 1
    BY <1>0, <1>1, <1>9, AddedRepeats
  <2>5. /\ IsFiniteSet(PairsOf(e)) /\ Cardinality(PairsOf(e)) <= Cardinality(Users)
        /\ IsFiniteSet(Debts(e)) /\ Cardinality(Debts(e)) <= Cardinality(PairsOf(e))
    BY DebtsBound
  <2>6. PICK n \in Nat, f \in Nat, g \in Nat, h \in Nat :
           /\ n = Cardinality(Users) /\ f = Cardinality(Fresh) /\ g = Cardinality(Debts(e))
           /\ h = Cardinality(PairsOf(e))
    BY <1>4, <2>5, FS_CardinalityType
  <2>7. f + g <= f + n
    BY <2>5, <2>6
  <2>8. Cardinality(Fresh) + Cardinality(Debts(e)) <= Cardinality(Fresh') + n
    BY <2>3, <2>6, <2>7
  <2>9. Allowance' >= Allowance + n
    BY <1>0, <1>2, <2>4, <2>6, AllowanceGrows
  <2>10. IsFiniteSet(Fresh')
    BY <1>4, <2>3
  <2> HIDE DEF Duplicates, Live, Fresh, Allowance, Debts
  <2> QED
    BY <1>0, <1>3, <2>3, <2>5, <2>8, <2>9, <2>10, PaidAdds
<1>10. CASE Stream[e].kind = "created" /\ ~\E d \in Created : Stream[d].subject = Stream[e].subject
  <2>1. \A p \in PairsOf(e) : p \in Pairs /\ p[1] = Stream[e].subject /\ p[2] \in Recipients(e)
    BY DebtsBound DEF PairsOf
  <2>2. ASSUME NEW p \in PairsOf(e) PROVE handed[p] = 0 /\ p \notin MessagePairs
    <3>1. p \in Pairs /\ p[1] = Stream[e].subject
      BY <2>1
    <3>2. p \notin MessagePairs
      BY <1>6, <1>10, <3>1
    <3>3. Carrying(p) = {}
      <4> SUFFICES ASSUME NEW d \in Carrying(p) PROVE FALSE
        OBVIOUS
      <4>1. d \in 1..length /\ d \in Entries /\ Stream[d].subject = Stream[e].subject
        BY <1>0, <3>1, EntriesTyped DEF Carrying, TypeOK
      <4>2. Stream[d].kind = "created"
        BY <1>10, <4>1, SameSubject
      <4> QED
        BY <1>10, <4>1, <4>2 DEF Created
    <3>4. ~(handed[p] > 0) /\ handed[p] \in Nat
      BY <3>1, <3>3 DEF DeliveryInv, NothingUncarried, TypeOK
    <3> QED
      BY <3>2, <3>4
  <2>3. MessagePairs' = MessagePairs \cup PairsOf(e)
    <3>1. ASSUME NEW q \in Pairs, q[1] = Stream[e].subject PROVE q \in PairsOf(e)
      BY <3>1, DebtsBound
    <3> QED
      BY <1>1, <1>5, <1>6, <1>10, <2>1, <3>1
  <2>4. Fresh' = Fresh \cup PairsOf(e) /\ Fresh \cap PairsOf(e) = {}
    BY <1>2, <2>2, <2>3 DEF Fresh
  <2>5. Duplicates' = Duplicates
    <3>1. \A p \in PairsOf(e) : 2..handed[p] = {}
      BY <2>2
    <3> QED
      BY <1>2, <2>3, <3>1 DEF Duplicates
  <2>6. /\ IsFiniteSet(PairsOf(e)) /\ IsFiniteSet(Debts(e))
        /\ Cardinality(Debts(e)) <= Cardinality(PairsOf(e))
    BY DebtsBound
  <2>7. PICK f \in Nat, g \in Nat, h \in Nat :
           /\ f = Cardinality(Fresh) /\ g = Cardinality(Debts(e)) /\ h = Cardinality(PairsOf(e))
    BY <1>4, <2>6, FS_CardinalityType
  <2>8. IsFiniteSet(Fresh') /\ Cardinality(Fresh') = f + h - Cardinality(Fresh \cap PairsOf(e))
    BY <1>4, <2>4, <2>6, <2>7, FS_Union
  <2>9. Cardinality(Fresh \cap PairsOf(e)) = 0
    BY <2>4, FS_EmptySet
  <2>10. f + g <= (f + h - 0) + 0
    BY <2>6, <2>7
  <2>11. Cardinality(Fresh) + Cardinality(Debts(e)) <= Cardinality(Fresh') + 0
    BY <2>7, <2>8, <2>9, <2>10
  <2>12. Repeats' = Repeats
    BY <1>0, <1>1, <1>10, AddedRepeats
  <2>13. Allowance' = Allowance
    BY <1>0, <1>2, <2>12, AllowanceGrows
  <2>14. Allowance' >= Allowance + 0
    BY <1>7, <2>13
  <2> HIDE DEF Duplicates, Live, Fresh, Allowance, Debts
  <2> QED
    BY <1>0, <1>3, <2>5, <2>6, <2>8, <2>11, <2>14, PaidAdds
<1> QED
  BY <1>8, <1>9, <1>10

-----------------------------------------------------------------------------
PaidInv == DeliveryInv /\ IdleHoldsNothing /\ AttemptsBounded /\ DuplicatesPaid

LEMMA IdleHoldsStep ==
    ASSUME TypeOK, IdleHoldsNothing, [Next]_vars
    PROVE  IdleHoldsNothing'
<1>0. batch \in [Workers -> SUBSET (1..lastRead)] /\ at \in [Workers -> Location]
  BY DEF TypeOK
<1>1. CASE UNCHANGED <<batch, at>>
  BY <1>1 DEF IdleHoldsNothing
<1>2. ASSUME NEW w \in Workers, NEW S, Continue(w, S) PROVE IdleHoldsNothing'
  <2>1. Entrance(Lowest(S)) # "idle"
    BY EntranceLocation
  <2> QED
    BY <1>0, <1>2, <2>1 DEF Continue, IdleHoldsNothing
<1>3. ASSUME NEW w \in Workers, NEW l \in {"hand", "setkey", "mark", "fanout", "ack"}, Goto(w, l)
      PROVE  IdleHoldsNothing'
  BY <1>0, <1>3 DEF Goto, IdleHoldsNothing
<1>4. ASSUME NEW w \in Workers, NEW e, NEW l \in {"check", "fanout"}, NextRecipient(w, e, l)
      PROVE  IdleHoldsNothing'
  BY <1>0, <1>4 DEF NextRecipient, IdleHoldsNothing
<1>5. ASSUME NEW w \in Workers, NEW e \in Entries,
             WorkerStep(w, e) \/ MarkRaises(w, e) \/ DispatchRaises(w, e)
      PROVE  IdleHoldsNothing'
  <2>1. CASE Check(w, e) \/ Mark(w, e) \/ MarkRaises(w, e) \/ Fanout(w, e)
    BY <1>3, <1>4, <2>1 DEF Check, Mark, MarkRaises, Fanout
  <2>2. CASE Hand(w, e) \/ SetKey(w, e) \/ Members(w, e)
    BY <1>3, <2>2 DEF Hand, SetKey, Members
  <2>3. CASE Ack(w, e) \/ DispatchRaises(w, e)
    BY <1>2, <2>3 DEF Ack, DispatchRaises
  <2> QED
    BY <1>5, <2>1, <2>2, <2>3 DEF WorkerStep
<1>6. CASE \E w \in Workers : Reclaim(w) \/ ReadNew(w) \/ Abandon(w)
  BY <1>2, <1>6 DEF Reclaim, ReadNew, Abandon
<1> QED
  BY <1>1, <1>5, <1>6
     DEF Next, Relayed, OrphanIdles, HolderOverruns, KeyExpires, DeleteConversation, vars

LEMMA PaidInit == Init => PaidInv
<1> SUFFICES ASSUME Init PROVE PaidInv
  OBVIOUS
<1>1. DeliveryInv /\ TypeOK
  BY DeliveryInvInit DEF DeliveryInv
<1>2. IdleHoldsNothing
  BY DEF Init, IdleHoldsNothing
<1>3. Created = {} /\ MessagePairs = {}
  BY DEF Init, Created, MessagePairs, Carrying
<1>4. Attempts = {}
  BY <1>3 DEF Attempts
<1>5. Duplicates = {} /\ Fresh = {} /\ Live = {}
  BY <1>3, <1>4 DEF Duplicates, Fresh, Live
<1>6. IsFiniteSet({}) /\ Cardinality({}) = 0
  BY FS_EmptySet
<1>7. AttemptsBounded
  <2> SUFFICES ASSUME NEW s \in Subjects
               PROVE  /\ IsFiniteSet(Of(s, Attempts))
                      /\ Cardinality(Of(s, Attempts)) <= Cardinality(Copies(s)) + overruns
    BY DEF AttemptsBounded
  <2>1. Of(s, Attempts) = {} /\ Copies(s) = {} /\ overruns = 0
    BY <1>3, <1>4 DEF Of, Copies, Init
  <2> QED
    BY <1>6, <2>1
<1>8. Allowance \in Nat
  BY <1>1, AllowanceTyped
<1>9. DuplicatesPaid
  BY <1>5, <1>6, <1>8 DEF DuplicatesPaid
<1> QED
  BY <1>1, <1>2, <1>7, <1>9 DEF PaidInv

LEMMA PaidStep == PaidInv /\ [Next]_vars => PaidInv'
<1> SUFFICES ASSUME PaidInv, [Next]_vars PROVE PaidInv'
  OBVIOUS
<1>0. /\ DeliveryInv /\ TypeOK /\ ProgressInv
      /\ IdleHoldsNothing /\ AttemptsBounded /\ DuplicatesPaid
  BY DEF PaidInv, DeliveryInv
<1>1. DeliveryInv' /\ TypeOK' /\ IdleHoldsNothing'
  BY <1>0, DeliveryInvStep, IdleHoldsStep DEF DeliveryInv
<1>2. ASSUME NEW m, Relocates(m), Grants(m, {}), UNCHANGED <<length, faults, overruns>>,
             \A q \in MessagePairs : handed'[q] = handed[q]
      PROVE  AttemptsBounded' /\ DuplicatesPaid'
  BY <1>0, <1>1, <1>2, AttemptsMove, PaidMove
<1>3. ASSUME Relayed PROVE AttemptsBounded' /\ DuplicatesPaid'
  <2>1. AttemptsBounded'
    BY <1>0, <1>1, <1>3, AddedAttempts
  <2>2. DuplicatesPaid'
    BY <1>0, <1>1, <1>3, RelayedPaid
  <2> QED
    BY <2>1, <2>2
<1>4. ASSUME NEW w \in Workers, Reclaim(w) \/ ReadNew(w) PROVE AttemptsBounded' /\ DuplicatesPaid'
  <2>1. PICK m : Relocates(m) /\ Grants(m, {})
    BY <1>0, <1>4, TakesMove
  <2>2. UNCHANGED <<length, faults, overruns, handed>>
    BY <1>4 DEF Reclaim, ReadNew, redis, counts
  <2> QED
    BY <1>2, <2>1, <2>2
<1>5. ASSUME NEW w \in Workers, Abandon(w) PROVE AttemptsBounded' /\ DuplicatesPaid'
  BY <1>0, <1>1, <1>5, AbandonPaid
<1>6. ASSUME NEW w \in Workers, NEW e \in Entries,
             Check(w, e) \/ SetKey(w, e) \/ Mark(w, e) \/ Members(w, e)
      PROVE  AttemptsBounded' /\ DuplicatesPaid'
  <2>1. Relocates(Stays) /\ Grants(Stays, {})
    BY <1>0, <1>6, WithinMoves
  <2>2. UNCHANGED <<length, faults, overruns, handed>>
    BY <1>6 DEF Check, SetKey, Mark, Members, redis, counts
  <2> QED
    BY <1>2, <2>1, <2>2
<1>7. ASSUME NEW w \in Workers, NEW e \in Entries, MarkRaises(w, e)
      PROVE  AttemptsBounded' /\ DuplicatesPaid'
  <2>1. PICK m, G : m = Stays /\ G = {}
    OBVIOUS
  <2>2. Relocates(m) /\ Grants(m, G)
    BY <1>0, <1>7, <2>1, WithinMoves
  <2>3. UNCHANGED <<length, overruns, handed>> /\ faults' = faults + 1
    BY <1>7 DEF MarkRaises, Fault, redis
  <2>4. IsFiniteSet(G) /\ Cardinality(G) = 0
    BY <2>1, FS_EmptySet
  <2>5. Allowance' >= Allowance + 0
    <3>1. PICK a \in Nat, r \in Nat, o \in Nat : a = Allowance /\ r = Repeats /\ o = overruns
      <4>1. overruns \in Nat
        BY <1>0 DEF TypeOK
      <4> QED
        BY <1>0, <1>1, <4>1, AllowanceGrows, RepeatsTyped
    <3>2. Allowance' = a + (1 + o + r)
      BY <1>0, <1>1, <2>3, <3>1, AllowanceGrows
    <3>3. Allowance' >= a + 0
      BY <3>2
    <3> QED
      BY <3>1, <3>3
  <2>6. Allowance' >= Allowance + Cardinality(G)
    BY <2>4, <2>5
  <2> QED
    BY <1>0, <1>1, <2>2, <2>3, <2>4, <2>6, AttemptsMove, PaidGrant
<1>8. ASSUME NEW w \in Workers, NEW e \in Entries, Hand(w, e)
      PROVE  AttemptsBounded' /\ DuplicatesPaid'
  <2>1. Relocates(Stays) /\ UNCHANGED <<length, overruns>>
    BY <1>0, <1>8, WithinMoves DEF Hand, counts
  <2> QED
    BY <1>0, <1>1, <1>8, <2>1, AttemptsMove, HandPaid
<1>9. ASSUME NEW w \in Workers, NEW e \in Entries, Fanout(w, e)
      PROVE  AttemptsBounded' /\ DuplicatesPaid'
  <2>1. Relocates(Stays) /\ Grants(Stays, {})
    BY <1>0, <1>9, WithinMoves
  <2>2. UNCHANGED <<length, faults, overruns>> /\ handed' = HandOver(Pair(w, e))
    BY <1>9 DEF Fanout, counts
  <2>3. First(w, e) /\ at[w] = "fanout" /\ Stream[e].kind = "updated"
    BY <1>0, <1>9, BusyProgress DEF Fanout, Progress
  <2>4. PICK p \in Pairs : p = Pair(w, e)
    BY <1>0, <2>3, BusyPair
  <2>5. p \notin MessagePairs
    BY <1>0, <2>3, <2>4, UpdatesAreNoMessages
  <2>6. \A q \in Pairs : q # p => handed'[q] = handed[q]
    BY <1>0, <2>2, <2>4, HandOverTyped
  <2>7. \A q \in MessagePairs : handed'[q] = handed[q]
    BY <2>5, <2>6 DEF MessagePairs
  <2> QED
    BY <1>2, <2>1, <2>2, <2>7
<1>10. ASSUME NEW w \in Workers, NEW e \in Entries, Ack(w, e)
       PROVE  AttemptsBounded' /\ DuplicatesPaid'
  <2>1. Relocates(Stays) /\ Grants(Stays, {})
    BY <1>0, <1>10, AckMoves
  <2>2. UNCHANGED <<length, faults, overruns, handed>>
    BY <1>10 DEF Ack, redis, counts
  <2> QED
    BY <1>2, <2>1, <2>2
<1>11. ASSUME NEW w \in Workers, NEW e \in Entries, DispatchRaises(w, e)
       PROVE  AttemptsBounded' /\ DuplicatesPaid'
  BY <1>0, <1>1, <1>11, DispatchPaid
<1>12. ASSUME NEW e \in Entries, OrphanIdles(e) PROVE AttemptsBounded' /\ DuplicatesPaid'
  <2>1. UNCHANGED <<length, faults, overruns, handed>>
    BY <1>12 DEF OrphanIdles, redis, counts
  <2> QED
    BY <1>2, <1>12, <2>1, OrphanMoves
<1>13. ASSUME NEW e \in Entries, HolderOverruns(e) PROVE AttemptsBounded' /\ DuplicatesPaid'
  BY <1>0, <1>1, <1>13, OverrunPaid
<1>14. ASSUME NEW p \in Pairs, KeyExpires(p) PROVE AttemptsBounded' /\ DuplicatesPaid'
  BY <1>0, <1>1, <1>14, ExpiryPaid
<1>15. ASSUME DeleteConversation \/ UNCHANGED vars PROVE AttemptsBounded' /\ DuplicatesPaid'
  <2>1. /\ UNCHANGED <<length, faults, overruns, handed>>
        /\ UNCHANGED <<lastRead, pending, idle, batch, at, pos, done>>
    BY <1>15 DEF DeleteConversation, redis, counts, vars
  <2>2. Relocates(Stays) /\ Grants(Stays, {})
    BY <2>1, NothingMoves
  <2> QED
    BY <1>2, <2>1, <2>2
<1>16. ASSUME NEW w \in Workers, NEW e \in Entries,
              WorkerStep(w, e) \/ MarkRaises(w, e) \/ DispatchRaises(w, e)
       PROVE  AttemptsBounded' /\ DuplicatesPaid'
  BY <1>6, <1>7, <1>8, <1>9, <1>10, <1>11, <1>16 DEF WorkerStep
<1>17. AttemptsBounded' /\ DuplicatesPaid'
  BY <1>3, <1>4, <1>5, <1>12, <1>13, <1>14, <1>15, <1>16 DEF Next
<1> QED
  BY <1>1, <1>17 DEF PaidInv

THEOREM PaidInvariant == Spec => []PaidInv
BY PaidInit, PaidStep, PTL DEF Spec

(* A message that waits for its first hand-over has an attempt left.       *)
LEMMA FreshIsOwed ==
    ASSUME DeliveryInv, NEW p \in Fresh
    PROVE  \E c \in Attempts : <<p, c>> \in Live
<1>0. TypeOK /\ ProgressInv /\ KeysAreHanded /\ AckedIsHanded
  BY DEF DeliveryInv
<1>1. p \in Pairs /\ handed[p] = 0 /\ p \notin done
  BY <1>0 DEF Fresh, MessagePairs, KeysAreHanded
<1>2. PICK e \in Carrying(p) : Stream[e].kind = "created"
  BY DEF Fresh, MessagePairs
<1>3. /\ e \in 1..length /\ e \in Entries /\ e \in Created
      /\ Stream[e].subject = p[1] /\ p[2] \in Recipients(e)
  BY <1>0, <1>2, EntriesTyped DEF Carrying, TypeOK, Created
<1>4. p = <<Stream[e].subject, p[2]>>
  BY <1>1, <1>3 DEF Pairs
<1>5. e \notin Acked
  <2>1. ASSUME e \in Acked PROVE FALSE
    <3>1. handed[<<Stream[e].subject, p[2]>>] > 0
      BY <1>0, <1>2, <1>3, <2>1 DEF AckedIsHanded
    <3>2. handed[p] > 0
      BY <1>4, <3>1
    <3> QED
      BY <1>1, <3>2
  <2> QED
    BY <2>1
<1>6. e > lastRead \/ e \in pending
  <2>1. lastRead \in Nat /\ e \in Nat
    BY <1>0, <1>3 DEF TypeOK
  <2> QED
    BY <1>3, <1>5, <2>1 DEF Acked
<1>7. CASE Free(e)
  <2>1. FreePlace(e) \in Attempts /\ FreePlace(e)[2] = e
    BY <1>3, <1>7, AttemptsAt DEF AsPlaced, FreePlace
  <2>2. ~Facing(FreePlace(e), "setkey", p)
    BY <1>3, FacingAt
  <2> QED
    BY <1>1, <1>3, <2>1, <2>2 DEF Live, Owes
<1>8. CASE ~Free(e)
  <2>1. PICK w \in Workers : e \in batch[w]
    BY <1>6, <1>8 DEF Free, Held
  <2>2. HeldPlace(e, w) \in Attempts /\ HeldPlace(e, w)[2] = e
    BY <1>3, <2>1, AttemptsAt, PlacesDiffer DEF AsPlaced
  <2>3. ASSUME Facing(HeldPlace(e, w), "setkey", p) PROVE FALSE
    <3>1. at[w] = "setkey" /\ First(w, e) /\ Pair(w, e) = p
      BY <1>3, <2>3, FacingAt
    <3>2. Served(e, pos[w])
      BY <1>0, <1>3, <3>1 DEF ProgressInv, Progress
    <3>3. pos[w] \in 1..pos[w] /\ pos[w] <= Len(Stream[e].to)
      BY <1>0, <1>3, <3>1, BusyPair, EntriesTyped DEF TypeOK
    <3>4. handed[p] > 0
      BY <3>1, <3>2, <3>3 DEF Served, Pair
    <3> QED
      BY <1>1, <3>4
  <2> QED
    BY <1>1, <1>3, <2>2, <2>3 DEF Live, Owes
<1> QED
  BY <1>7, <1>8

(* However often a message is retried, taken over or written twice, a      *)
(* fault repeats it to one recipient, and only workers that have it at the *)
(* same time repeat it to all of them.                                     *)
THEOREM DuplicatesArePaid == Spec => []DuplicatesNeedFaults
<1>1. PaidInv => DuplicatesNeedFaults
  <2> SUFFICES ASSUME PaidInv PROVE DuplicatesNeedFaults
    OBVIOUS
  <2>0. DeliveryInv /\ TypeOK /\ DuplicatesPaid
    BY DEF PaidInv, DeliveryInv
  <2> DEFINE F == [x \in Live |-> x[1]]
             Owed == {F[x] : x \in Live}
  <2>1. Fresh \in SUBSET Owed
    <3>1. ASSUME NEW p \in Fresh PROVE p \in Owed
      <4>1. PICK c \in Attempts : <<p, c>> \in Live
        BY <2>0, FreshIsOwed
      <4>2. F[<<p, c>>] = p
        BY <4>1
      <4> QED
        BY <4>1, <4>2
    <3> QED
      BY <3>1
  <2>2. IsFiniteSet(Owed) /\ Cardinality(Owed) <= Cardinality(Live)
    <3> HIDE DEF F
    <3> QED
      BY <2>0, ImageBound DEF DuplicatesPaid
  <2> HIDE DEF Owed, F
  <2>3. Cardinality(Fresh) <= Cardinality(Owed)
    BY <2>1, <2>2, FS_Subset
  <2>4. /\ Cardinality(Fresh) \in Nat /\ Cardinality(Owed) \in Nat /\ Cardinality(Live) \in Nat
        /\ Cardinality(Duplicates) \in Nat
    BY <2>0, <2>2, FS_CardinalityType DEF DuplicatesPaid
  <2>5. Allowance \in Nat
    BY <2>0, AllowanceTyped
  <2>6. Cardinality(Duplicates) + Cardinality(Live) <= Cardinality(Fresh) + Allowance
    BY <2>0 DEF DuplicatesPaid
  <2>7. Cardinality(Duplicates) <= Allowance
    <3> HIDE DEF Duplicates, Live, Fresh, Allowance
    <3> QED
      BY <2>2, <2>3, <2>4, <2>5, <2>6
  <2> QED
    BY <2>7 DEF Allowance, DuplicatesNeedFaults
<1> QED
  BY <1>1, PaidInvariant, PTL

=============================================================================
