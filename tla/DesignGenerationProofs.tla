------------------------ MODULE DesignGenerationProofs ------------------------
(***************************************************************************)
(* Proofs about DesignGeneration, for any workers, any number of requests, *)
(* edits and faults and any batch size.                                    *)
(***************************************************************************)
EXTENDS DesignGeneration, FiniteSetTheorems, TLAPS

USE GenerationAssumption

(* An edit has seen an output, which stays as long as the design does.     *)
EditsHaveOutput ==
    \A x \in Edits : edit[x] = "read" => status # "absent" /\ (Exists => output # 0)

Current(w, e) == e \in batch[w] /\ \A f \in batch[w] : e <= f

(* The worker is past the point where its entry could still change what a  *)
(* design that is generating says: it acknowledges next, or saves a design *)
(* that it read as completed, whose status it will not write.              *)
Past(w) == at[w] \in {"ack", "lastAck"} \/ (at[w] = "commit" /\ read[w].status = "completed")

Open(e) ==
    /\ e \in DOMAIN stream
    /\ e > lastRead \/ e \in pending
    /\ \A w \in Workers : Current(w, e) => ~Past(w)

Vouches(q) ==
    \/ request[q] \in {"committed", "lost"}
    \/ request[q] = "queued" /\ \E e \in DOMAIN stream :
          stream[e] = q /\ (Open(e) \/ e \in swallowed)

Vouched == status = "generating" => \E q \in Requests : Vouches(q)

GenerationInv ==
    /\ TypeOK
    /\ EditsHaveOutput
    /\ CompletedHasOutput
    /\ Vouched

-----------------------------------------------------------------------------
(* What a worker reads is the next interval of the stream.                 *)
LEMMA NextInterval ==
    ASSUME NEW a \in Nat, NEW b \in Nat, a < b
    PROVE  LET new == {e \in (a + 1)..b : e <= a + BatchSize}
           IN  /\ Cardinality(new) \in Nat /\ a + Cardinality(new) <= b
               /\ new = (a + 1)..(a + Cardinality(new))
<1> DEFINE new == {e \in (a + 1)..b : e <= a + BatchSize}
           last == IF b <= a + BatchSize THEN b ELSE a + BatchSize
<1>1. last \in Nat /\ a < last /\ last <= b
  OBVIOUS
<1>2. new = (a + 1)..last
  OBVIOUS
<1> HIDE DEF new, last
<1>3. a + 1 \in Int /\ last \in Int /\ a + 1 <= last
  BY <1>1
<1>4. Cardinality((a + 1)..last) = last - (a + 1) + 1
  BY <1>3, FS_Interval
<1>5. Cardinality(new) \in Nat /\ a + Cardinality(new) = last
  BY <1>1, <1>2, <1>4
<1> QED
  BY <1>1, <1>2, <1>5 DEF new

LEMMA ContinueTyped ==
    ASSUME TypeOK, produced' = produced, NEW w \in Workers,
           NEW S \in SUBSET (1..lastRead'), Continue(w, S),
           lastRead' \in Nat, lastRead <= lastRead'
    PROVE  /\ batch' \in [Workers -> SUBSET (1..lastRead')]
           /\ at' \in [Workers -> Location]
           /\ read' \in [Workers -> [status : Status, output : 0..produced']]
<1>1. lastRead \in Nat /\ produced \in Nat /\ produced' = produced
  BY DEF TypeOK
<1>2. 1..lastRead \subseteq 1..lastRead'
  BY <1>1
<1>3. batch' \in [Workers -> SUBSET (1..lastRead')]
  BY <1>2 DEF Continue, TypeOK
<1>4. (IF S = {} THEN "idle" ELSE "start") \in Location
  BY DEF Location
<1>5. at' \in [Workers -> Location]
  BY <1>4 DEF Continue, TypeOK
<1>6. Nothing \in [status : Status, output : 0..produced']
  BY <1>1 DEF Nothing, Status
<1>7. read' \in [Workers -> [status : Status, output : 0..produced']]
  BY <1>1, <1>6 DEF Continue, TypeOK
<1> QED
  BY <1>3, <1>5, <1>7

LEMMA TypeInit == Init => TypeOK
<1> SUFFICES ASSUME Init PROVE TypeOK
  OBVIOUS
<1>1. Nothing \in [status : Status, output : 0..produced]
  BY DEF Init, Nothing, Status
<1>2. /\ status \in Status /\ produced \in Nat /\ output \in 0..produced
      /\ edited \subseteq 1..produced /\ archive \in Seq(1..produced)
      /\ stream \in Seq(Requests) /\ lastRead \in 0..Len(stream)
      /\ pending \subseteq 1..lastRead /\ swallowed \subseteq 1..lastRead
      /\ faults \in 0..MaxFaults
  BY DEF Init, Status
<1>3. /\ request \in [Requests -> {"unused", "read", "committed", "queued", "lost", "refused"}]
      /\ sawStatus \in [Requests -> Status]
      /\ edit \in [Edits -> {"unused", "read", "over"}]
  BY DEF Init, Status
<1>4. /\ batch \in [Workers -> SUBSET (1..lastRead)] /\ at \in [Workers -> Location]
      /\ read \in [Workers -> [status : Status, output : 0..produced]]
  BY <1>1 DEF Init, Location
<1> QED
  BY <1>2, <1>3, <1>4 DEF TypeOK

(* A version more: what was typed stays so.                                *)
LEMMA OneMore ==
    ASSUME TypeOK, produced' = produced + 1
    PROVE  /\ produced' \in Nat /\ produced + 1 \in 0..produced'
           /\ 1..produced \subseteq 1..produced' /\ 0..produced \subseteq 0..produced'
           /\ archive \in Seq(1..produced')
           /\ read \in [Workers -> [status : Status, output : 0..produced']]
<1>1. produced \in Nat
  BY DEF TypeOK
<1>2. /\ produced' \in Nat /\ produced + 1 \in 0..produced'
      /\ 1..produced \subseteq 1..produced' /\ 0..produced \subseteq 0..produced'
  BY <1>1
<1>3. archive \in Seq(1..produced')
  BY <1>2 DEF TypeOK
<1>4. [status : Status, output : 0..produced] \subseteq [status : Status, output : 0..produced']
  BY <1>2
<1> QED
  BY <1>2, <1>3, <1>4 DEF TypeOK

LEMMA RequestStepTyped ==
    ASSUME TypeOK, NEW q \in Requests,
           RegenerateRead(q) \/ RegenerateCommit(q) \/ Enqueue(q) \/ EnqueueFails(q)
    PROVE  TypeOK'
<1>1. status' \in Status /\ faults' \in 0..MaxFaults
  BY DEF RegenerateRead, RegenerateCommit, Enqueue, EnqueueFails, Fault, TypeOK, Status, row
<1>5. sawStatus' \in [Requests -> Status]
  BY DEF RegenerateRead, RegenerateCommit, Enqueue, EnqueueFails, TypeOK
<1>6. request' \in [Requests -> {"unused", "read", "committed", "queued", "lost", "refused"}]
  <2>1. \E phase \in {"read", "committed", "queued", "lost", "refused"} : Phase(q, phase)
    BY DEF RegenerateRead, RegenerateCommit, Enqueue, EnqueueFails
  <2> QED
    BY <2>1 DEF Phase, TypeOK
<1>2. /\ stream' \in Seq(Requests) /\ Len(stream) <= Len(stream')
      /\ Len(stream) \in Nat /\ Len(stream') \in Nat
  <2>1. stream' = stream \/ stream' = Append(stream, q)
    BY DEF RegenerateRead, RegenerateCommit, Enqueue, EnqueueFails, queue
  <2>2. stream \in Seq(Requests)
    BY DEF TypeOK
  <2>3. /\ Append(stream, q) \in Seq(Requests) /\ Len(stream) \in Nat
        /\ Len(Append(stream, q)) = Len(stream) + 1
    BY <2>2
  <2> QED
    BY <2>1, <2>2, <2>3
<1>3. UNCHANGED <<output, archive, produced, edited, edit, lastRead, pending, worker, swallowed>>
  BY DEF RegenerateRead, RegenerateCommit, Enqueue, EnqueueFails, row, queue
<1>4. lastRead' \in 0..Len(stream')
  BY <1>2, <1>3 DEF TypeOK
<1> QED
  BY <1>1, <1>2, <1>3, <1>4, <1>5, <1>6 DEF TypeOK, worker

LEMMA EditCommitTyped ==
    ASSUME TypeOK, EditsHaveOutput, NEW x \in Edits, EditCommit(x)
    PROVE  TypeOK'
<1>1. /\ UNCHANGED <<status, archive, request, sawStatus, queue, worker, swallowed, faults>>
      /\ edit' \in [Edits -> {"unused", "read", "over"}]
  BY DEF EditCommit, TypeOK
<1>2. CASE Exists
  <2>1. output' = produced + 1 /\ produced' = produced + 1 /\ edited' = edited \cup {output}
    BY <1>2 DEF EditCommit
  <2>2. output \in 1..produced
    BY <1>2 DEF EditCommit, EditsHaveOutput, TypeOK
  <2>3. edited' \subseteq 1..produced'
    BY <2>1, <2>2, OneMore DEF TypeOK
  <2> QED
    BY <1>1, <2>1, <2>3, OneMore DEF TypeOK, queue, worker
<1>3. CASE ~Exists
  BY <1>1, <1>3 DEF EditCommit, TypeOK, queue, worker
<1> QED
  BY <1>2, <1>3

LEMMA SaveCommitTyped ==
    ASSUME TypeOK, NEW w \in Workers, NEW e, SaveCommit(w, e)
    PROVE  TypeOK'
<1>1. /\ UNCHANGED <<edited, request, sawStatus, edit, queue, read, swallowed, faults, batch>>
      /\ at' \in [Workers -> Location]
  BY DEF SaveCommit, Goto, TypeOK, Location
<1> DEFINE old == read[w].output
<1>2. CASE Exists /\ (old = 0 => output = 0)
  <2>1. /\ archive' = IF old = 0 THEN archive ELSE Append(archive, old)
        /\ output' = produced + 1 /\ produced' = produced + 1
        /\ status' \in Status
    BY <1>2 DEF SaveCommit, TypeOK, Status
  <2>2. old \in 0..produced
    BY DEF TypeOK
  <2> HIDE DEF old
  <2>3. archive' \in Seq(1..produced')
    <3>1. CASE old = 0
      BY <2>1, <3>1, OneMore
    <3>2. CASE old # 0
      <4>1. old \in 1..produced'
        <5>1. produced \in Nat /\ old \in 1..produced
          BY <2>2, <3>2 DEF TypeOK
        <5> QED
          BY <2>1, <5>1
      <4> QED
        BY <2>1, <3>2, <4>1, OneMore
    <3> QED
      BY <3>1, <3>2
  <2> QED
    BY <1>1, <2>1, <2>3, OneMore DEF TypeOK, queue
<1>3. CASE ~(Exists /\ (old = 0 => output = 0))
  BY <1>1, <1>3 DEF SaveCommit, TypeOK, queue
<1> QED
  BY <1>2, <1>3

LEMMA ReadNewTyped ==
    ASSUME TypeOK, NEW w \in Workers, ReadNew(w)
    PROVE  TypeOK'
<1> DEFINE new == {e \in (lastRead + 1)..Len(stream) : e <= lastRead + BatchSize}
<1>0. lastRead \in Nat /\ Len(stream) \in Nat /\ lastRead < Len(stream)
  BY DEF ReadNew, TypeOK
<1>1. /\ Cardinality(new) \in Nat /\ lastRead + Cardinality(new) <= Len(stream)
      /\ new = (lastRead + 1)..(lastRead + Cardinality(new))
  BY <1>0, NextInterval
<1>2. /\ lastRead' = lastRead + Cardinality(new) /\ pending' = pending \cup new
      /\ Continue(w, new)
      /\ UNCHANGED <<row, request, sawStatus, edit, stream, swallowed, faults>>
  BY DEF ReadNew
<1> HIDE DEF new
<1>3. lastRead' \in 0..Len(stream) /\ lastRead <= lastRead' /\ new \subseteq 1..lastRead'
  BY <1>0, <1>1, <1>2
<1>4. /\ batch' \in [Workers -> SUBSET (1..lastRead')]
      /\ at' \in [Workers -> Location]
      /\ read' \in [Workers -> [status : Status, output : 0..produced']]
  BY <1>0, <1>2, <1>3, ContinueTyped DEF row
<1>5. pending' \subseteq 1..lastRead' /\ swallowed' \subseteq 1..lastRead'
  BY <1>0, <1>2, <1>3 DEF TypeOK
<1> QED
  BY <1>2, <1>3, <1>4, <1>5 DEF TypeOK, row

LEMMA BatchStepTyped ==
    ASSUME TypeOK, NEW w \in Workers, NEW e, Crash(w) \/ Ack(w, e) \/ LastAck(w, e)
    PROVE  TypeOK'
<1>1. PICK S \in SUBSET (1..lastRead) : Continue(w, S)
  BY DEF Crash, Ack, LastAck, TypeOK
<1>2. /\ UNCHANGED <<row, request, sawStatus, edit, stream, lastRead, swallowed>>
      /\ pending' \subseteq pending /\ faults' \in 0..MaxFaults
  BY DEF Crash, Ack, LastAck, queue, Fault, TypeOK
<1>3. /\ batch' \in [Workers -> SUBSET (1..lastRead')]
      /\ at' \in [Workers -> Location]
      /\ read' \in [Workers -> [status : Status, output : 0..produced']]
  <2>1. lastRead' = lastRead /\ lastRead \in Nat /\ produced' = produced
    BY <1>2 DEF row, TypeOK
  <2> QED
    BY <1>1, <2>1, ContinueTyped
<1> QED
  BY <1>2, <1>3 DEF TypeOK, row

LEMMA WorkerStepTyped ==
    ASSUME TypeOK, NEW w \in Workers, NEW e,
           WorkerStep(w, e) \/ Raises(w, e) \/ Swallow(w, e)
    PROVE  TypeOK'
<1>1. CASE Start(w, e) \/ Generate(w, e) \/ FailRead(w, e)
  <2>1. PICK location \in Location : Goto(w, location)
    BY <1>1 DEF Start, Generate, FailRead, Location
  <2>2. UNCHANGED <<row, request, sawStatus, edit, queue, read, swallowed, faults>>
    BY <1>1 DEF Start, Generate, FailRead
  <2> QED
    BY <2>1, <2>2 DEF Goto, TypeOK, row, queue
<1>2. CASE SaveRead(w, e)
  <2>1. PICK location \in Location : Goto(w, location)
    BY <1>2 DEF SaveRead, Location
  <2>2. [status |-> status, output |-> output] \in [status : Status, output : 0..produced]
    BY DEF TypeOK
  <2>3. read' \in [Workers -> [status : Status, output : 0..produced]]
    BY <1>2, <2>2 DEF SaveRead, TypeOK
  <2> QED
    BY <1>2, <2>1, <2>3 DEF SaveRead, Goto, TypeOK, row, queue
<1>3. CASE FailCommit(w, e)
  BY <1>3 DEF FailCommit, Goto, TypeOK, queue, Status, Location
<1>4. CASE Raises(w, e) \/ Swallow(w, e)
  <2>1. PICK location \in Location : Goto(w, location)
    BY <1>4 DEF Raises, Swallow, Location
  <2>2. /\ UNCHANGED <<row, request, sawStatus, edit, stream, lastRead, read>>
        /\ pending' \subseteq pending /\ faults' \in 0..MaxFaults
    BY <1>4 DEF Raises, Swallow, queue, Fault, TypeOK
  <2>3. swallowed' \subseteq 1..lastRead
    <3>1. batch[w] \subseteq 1..lastRead /\ swallowed \subseteq 1..lastRead
      BY DEF TypeOK
    <3>2. e \in batch[w] /\ swallowed' \in {swallowed, swallowed \cup {e}}
      BY <1>4 DEF Raises, Swallow, Busy
    <3> QED
      BY <3>1, <3>2
  <2> QED
    BY <2>1, <2>2, <2>3 DEF Goto, TypeOK, row
<1> QED
  BY <1>1, <1>2, <1>3, <1>4, SaveCommitTyped, BatchStepTyped DEF WorkerStep

LEMMA TypeStep == TypeOK /\ EditsHaveOutput /\ [Next]_vars => TypeOK'
<1> SUFFICES ASSUME TypeOK, EditsHaveOutput, [Next]_vars PROVE TypeOK'
  OBVIOUS
<1>1. CASE Create
  BY <1>1 DEF Create, Phase, TypeOK, Status, queue, worker
<1>2. CASE Delete
  <2>1. output' \in 0..produced' /\ archive' \in Seq(1..produced') /\ status' \in Status
    BY <1>2 DEF Delete, TypeOK, Status
  <2> QED
    BY <1>2, <2>1 DEF Delete, TypeOK, queue, worker
<1>3. ASSUME NEW x \in Edits, EditRead(x) PROVE TypeOK'
  BY <1>3 DEF EditRead, TypeOK, row, queue, worker
<1>4. CASE UNCHANGED vars
  BY <1>4 DEF vars, row, queue, worker, TypeOK
<1> QED
  BY <1>1, <1>2, <1>3, <1>4, RequestStepTyped, EditCommitTyped, ReadNewTyped, BatchStepTyped,
     WorkerStepTyped
     DEF Next

-----------------------------------------------------------------------------
(* What a step may do to the design: it never comes back, never loses its  *)
(* output while it exists, and is completed together with an output.       *)
LEMMA RowStep ==
    ASSUME TypeOK, [Next]_vars
    PROVE  /\ status # "absent" => /\ status' # "absent"
                                   /\ Exists' => Exists /\ (output' = output \/ output' # 0)
           /\ status' = "completed" =>
                 output' # 0 \/ (status = "completed" /\ output' = output)
           /\ \A x \in Edits : edit'[x] = "read" =>
                 edit[x] = "read" \/ (Exists /\ Exists' /\ output' # 0)
<1>1. CASE Create
  BY <1>1 DEF Create, Exists
<1>2. CASE Delete
  BY <1>2 DEF Delete, Exists
<1>3. ASSUME NEW q \in Requests, RegenerateCommit(q)
      PROVE  /\ status # "absent" /\ UNCHANGED <<output, edit>>
             /\ status' \in {status, "generating"} /\ (Exists' => Exists)
             \/ UNCHANGED <<status, output, edit>>
  BY <1>3 DEF RegenerateCommit, Exists
<1>4. ASSUME NEW x \in Edits, EditRead(x)
      PROVE  /\ UNCHANGED <<status, output>> /\ Exists /\ output # 0
             /\ edit' = [edit EXCEPT ![x] = "read"]
  BY <1>4 DEF EditRead, row
<1>5. ASSUME NEW x \in Edits, EditCommit(x)
      PROVE  /\ UNCHANGED status /\ edit' = [edit EXCEPT ![x] = "over"]
             /\ output' = output \/ output' # 0
             /\ status = "completed" => output' # 0
  BY <1>5 DEF EditCommit, Exists, TypeOK
<1>6. ASSUME NEW w \in Workers, NEW e, SaveCommit(w, e)
      PROVE  /\ UNCHANGED edit
             /\ \/ UNCHANGED <<status, output>>
                \/ Exists /\ Exists' /\ output' # 0
  <2>1. produced \in Nat
    BY DEF TypeOK
  <2> QED
    BY <1>6, <2>1 DEF SaveCommit, Exists
<1>7. ASSUME NEW w \in Workers, NEW e, FailCommit(w, e)
      PROVE  /\ UNCHANGED <<edit, output>>
             /\ \/ UNCHANGED status
                \/ Exists /\ status' = "failed"
  BY <1>7 DEF FailCommit, Exists
<1>8. ASSUME NEW q \in Requests, RegenerateRead(q) \/ Enqueue(q) \/ EnqueueFails(q)
      PROVE  UNCHANGED <<status, output, edit>>
  BY <1>8 DEF RegenerateRead, Enqueue, EnqueueFails, row
<1>9. ASSUME NEW w \in Workers, NEW e,
             \/ ReadNew(w) \/ Crash(w) \/ Start(w, e) \/ Generate(w, e) \/ SaveRead(w, e)
             \/ FailRead(w, e) \/ Ack(w, e) \/ LastAck(w, e) \/ Raises(w, e) \/ Swallow(w, e)
      PROVE  UNCHANGED <<status, output, edit>>
  BY <1>9 DEF ReadNew, Crash, Start, Generate, SaveRead, FailRead, Ack, LastAck, Raises,
              Swallow, row
<1>10. ASSUME NEW x \in Edits, NEW y \in Edits, NEW phase \in {"read", "over"},
              edit' = [edit EXCEPT ![x] = phase], edit'[y] = "read"
       PROVE  phase = "read" \/ edit[y] = "read"
  BY <1>10 DEF TypeOK
<1>11. CASE UNCHANGED <<status, output, edit>>
  BY <1>11 DEF Exists
<1>12. CASE \E q \in Requests : RegenerateCommit(q)
  BY <1>12, <1>3, <1>11
<1>13. CASE \E x \in Edits : EditRead(x)
  BY <1>13, <1>4, <1>10 DEF Exists
<1>14. CASE \E x \in Edits : EditCommit(x)
  BY <1>14, <1>5, <1>10 DEF Exists
<1>15. CASE \E w \in Workers, e \in Requests : SaveCommit(w, e) \/ FailCommit(w, e)
  BY <1>15, <1>6, <1>7 DEF Exists
<1> QED
  BY <1>1, <1>2, <1>8, <1>9, <1>11, <1>12, <1>13, <1>14, <1>15
     DEF Next, WorkerStep, vars, row

LEMMA OutputStep ==
    TypeOK /\ EditsHaveOutput /\ CompletedHasOutput /\ [Next]_vars =>
        EditsHaveOutput' /\ CompletedHasOutput'
<1> SUFFICES ASSUME TypeOK, EditsHaveOutput, CompletedHasOutput, [Next]_vars
             PROVE  EditsHaveOutput' /\ CompletedHasOutput'
  OBVIOUS
<1>1. CompletedHasOutput'
  BY RowStep DEF CompletedHasOutput
<1>2. ASSUME NEW x \in Edits, edit'[x] = "read"
      PROVE  status' # "absent" /\ (Exists' => output' # 0)
  BY <1>2, RowStep DEF EditsHaveOutput, Exists
<1> QED
  BY <1>1, <1>2 DEF EditsHaveOutput

-----------------------------------------------------------------------------
(* One worker is busy with one entry at a time.                            *)
LEMMA CurrentUnique ==
    ASSUME TypeOK, NEW w \in Workers, NEW e, NEW f, Current(w, e), Current(w, f)
    PROVE  e = f
<1>1. lastRead \in Nat /\ batch[w] \subseteq 1..lastRead
  BY DEF TypeOK
<1>2. e \in Nat /\ f \in Nat /\ e <= f /\ f <= e
  BY <1>1 DEF Current
<1> QED
  BY <1>2

(* What vouched still does if its entry stays open.                        *)
LEMMA VouchedStays ==
    ASSUME Vouched, status' = "generating" => status = "generating",
           \A q \in Requests : request[q] \in {"committed", "lost", "queued"} =>
                                  request'[q] = request[q],
           UNCHANGED stream, swallowed \subseteq swallowed',
           status = "generating" =>
              \A e \in DOMAIN stream : Open(e) => Open(e)' \/ e \in swallowed'
    PROVE  Vouched'
<1> SUFFICES ASSUME status' = "generating" PROVE \E q \in Requests : Vouches(q)'
  BY DEF Vouched
<1>1. PICK q \in Requests : Vouches(q)
  BY DEF Vouched
<1>2. CASE request[q] \in {"committed", "lost"}
  BY <1>1, <1>2 DEF Vouches
<1>3. CASE request[q] = "queued"
  <2>1. PICK e \in DOMAIN stream : stream[e] = q /\ (Open(e) \/ e \in swallowed)
    BY <1>1, <1>3 DEF Vouches
  <2> QED
    BY <1>1, <1>3, <2>1 DEF Vouches
<1> QED
  BY <1>1, <1>2, <1>3 DEF Vouches

(* An entry stays open when only a worker that goes somewhere harmless, or *)
(* that is busy with another entry, moves on.                              *)
LEMMA OpenStays ==
    ASSUME NEW w \in Workers, NEW e, Open(e), UNCHANGED stream,
           e > lastRead \/ e \in pending => e > lastRead' \/ e \in pending',
           \A v \in Workers \ {w} :
              UNCHANGED <<batch[v], at[v], read[v]>>,
           Current(w, e)' => ~Past(w)'
    PROVE  Open(e)'
<1>1. ASSUME NEW v \in Workers, Current(v, e)' PROVE ~Past(v)'
  <2>1. CASE v = w
    BY <1>1, <2>1
  <2>2. CASE v # w
    <3>1. batch'[v] = batch[v] /\ at'[v] = at[v] /\ read'[v] = read[v]
      BY <2>2
    <3> QED
      BY <1>1, <3>1 DEF Open, Current, Past
  <2> QED
    BY <2>1, <2>2
<1> QED
  BY <1>1 DEF Open

LEMMA Others ==
    ASSUME TypeOK, NEW w \in Workers,
           \/ \E S : Continue(w, S)
           \/ (\E location : Goto(w, location)) /\ UNCHANGED read
           \/ (\E location : Goto(w, location)) /\ \E r : read' = [read EXCEPT ![w] = r]
    PROVE  \A v \in Workers \ {w} : UNCHANGED <<batch[v], at[v], read[v]>>
BY DEF TypeOK, Continue, Goto

(* A worker that starts its next entry, or rests, is not past it.          *)
LEMMA FreshStart ==
    ASSUME TypeOK, NEW w \in Workers, NEW S, Continue(w, S)
    PROVE  ~Past(w)'
<1>1. at'[w] \in {"idle", "start"}
  BY DEF TypeOK, Continue
<1> QED
  BY <1>1 DEF Past

LEMMA RequestVouched ==
    ASSUME TypeOK, TypeOK', Vouched, NEW q \in Requests,
           RegenerateRead(q) \/ RegenerateCommit(q) \/ Enqueue(q) \/ EnqueueFails(q)
    PROVE  Vouched'
<1> SUFFICES ASSUME status' = "generating" PROVE \E p \in Requests : Vouches(p)'
  BY DEF Vouched
<1>1. UNCHANGED <<lastRead, pending, worker, swallowed>>
  BY DEF RegenerateRead, RegenerateCommit, Enqueue, EnqueueFails, queue
<1>2. CASE request'[q] \in {"committed", "lost"}
  BY <1>2 DEF Vouches
<1>3. CASE Enqueue(q)
  <2>1. /\ stream \in Seq(Requests) /\ Len(stream) \in Nat /\ lastRead \in Nat
        /\ lastRead <= Len(stream) /\ stream' = Append(stream, q)
    BY <1>3 DEF Enqueue, TypeOK
  <2> PICK e \in Nat : e = Len(stream) + 1
    BY <2>1
  <2>2. e \in DOMAIN stream' /\ stream'[e] = q
    BY <2>1
  <2>3. \A w \in Workers : e \notin batch'[w]
    <3>1. \A w \in Workers : batch'[w] \subseteq 1..lastRead
      BY <1>1 DEF worker, TypeOK
    <3> QED
      BY <2>1, <3>1
  <2>4. e > lastRead'
    BY <1>1, <2>1
  <2>5. Open(e)'
    BY <2>2, <2>3, <2>4 DEF Open, Current
  <2>6. request'[q] = "queued"
    BY <1>3 DEF Enqueue, Phase, TypeOK
  <2> QED
    BY <2>2, <2>5, <2>6 DEF Vouches
<1>4. CASE request'[q] \notin {"committed", "lost"} /\ ~Enqueue(q)
  <2>1. UNCHANGED <<status, stream>> /\ request[q] \in {"unused", "read"}
    BY <1>4 DEF RegenerateRead, RegenerateCommit, EnqueueFails, Phase, row, queue, TypeOK
  <2>2. \A p \in Requests : p # q => request'[p] = request[p]
    BY <1>4 DEF RegenerateRead, RegenerateCommit, EnqueueFails, Phase, TypeOK
  <2>3. \A e \in DOMAIN stream : Open(e) => Open(e)'
    BY <1>1, <2>1 DEF Open, Current, Past, worker
  <2> QED
    BY <1>1, <2>1, <2>2, <2>3, VouchedStays DEF Vouched
<1> QED
  BY <1>2, <1>3, <1>4

LEMMA WorkerVouched ==
    ASSUME TypeOK, Vouched, NEW w \in Workers, NEW e,
           WorkerStep(w, e) \/ Raises(w, e) \/ Swallow(w, e)
    PROVE  Vouched'
<1>1. Current(w, e) /\ at[w] \in Location
  BY DEF WorkerStep, Start, Generate, SaveRead, SaveCommit, FailRead, FailCommit, Ack, LastAck,
         Raises, Swallow, Busy,
         Current, TypeOK
<1>2. UNCHANGED <<request, stream>> /\ swallowed \subseteq swallowed'
  BY DEF WorkerStep, Start, Generate, SaveRead, SaveCommit, FailRead, FailCommit, Ack, LastAck,
         Raises, Swallow, queue
<1>3. status' = "generating" => status = "generating"
  BY DEF WorkerStep, Start, Generate, SaveRead, SaveCommit, FailRead, FailCommit, Ack, LastAck,
         Raises, Swallow, row
<1>4. ASSUME status' = "generating", NEW f \in DOMAIN stream, Open(f)
      PROVE  Open(f)' \/ f \in swallowed'
  <2>1. \A v \in Workers \ {w} : UNCHANGED <<batch[v], at[v], read[v]>>
    BY Others DEF WorkerStep, Start, Generate, SaveRead, SaveCommit, FailRead, FailCommit, Ack, LastAck,
         Raises, Swallow
  <2>2. CASE Ack(w, e) \/ LastAck(w, e)
    <3>1. f # e
      BY <1>1, <1>4, <2>2 DEF Ack, LastAck, Busy, Open, Past
    <3>2. f > lastRead \/ f \in pending => f > lastRead' \/ f \in pending'
      BY <2>2, <3>1 DEF Ack, LastAck
    <3>3. ~Past(w)'
      BY <2>2, FreshStart DEF Ack, LastAck
    <3> QED
      BY <1>2, <1>4, <2>1, <3>2, <3>3, OpenStays
  <2>3. CASE Raises(w, e)
    <3>1. UNCHANGED lastRead /\ at'[w] = "fail"
      BY <2>3 DEF Raises, Goto, TypeOK
    <3>2. f \in pending => f \in pending'
      <4>1. at[w] = "ack" => f # e
        BY <1>1, <1>4 DEF Open, Past
      <4> QED
        BY <2>3, <4>1 DEF Raises
    <3>3. ~Past(w)'
      BY <3>1 DEF Past
    <3> QED
      BY <1>2, <1>4, <2>1, <3>1, <3>2, <3>3, OpenStays
  <2>4. CASE Swallow(w, e)
    <3>1. UNCHANGED <<lastRead, pending>> /\ batch' = batch /\ e \in swallowed'
      BY <2>4 DEF Swallow, Goto, queue
    <3>2. CASE f # e
      <4>1. ~Current(w, f)'
        BY <1>1, <3>1, <3>2, CurrentUnique DEF Current
      <4> QED
        BY <1>2, <1>4, <2>1, <3>1, <4>1, OpenStays
    <3> QED
      BY <3>1, <3>2
  <2>5. CASE Start(w, e) \/ Generate(w, e) \/ SaveRead(w, e) \/ SaveCommit(w, e)
             \/ FailRead(w, e) \/ FailCommit(w, e)
    <3>1. UNCHANGED <<lastRead, pending>> /\ batch' = batch
      BY <2>5 DEF Start, Generate, SaveRead, SaveCommit, FailRead, FailCommit, Goto, queue
    <3>2. ~Past(w)' \/ Past(w)
      <4>1. CASE Start(w, e)
        BY <1>3, <1>4, <4>1 DEF Start, Goto, Exists, TypeOK, Past
      <4>2. CASE Generate(w, e)
        <5>1. at'[w] \in {"save", "fail"}
          BY <4>2 DEF Generate, Goto, TypeOK
        <5> QED
          BY <5>1 DEF Past
      <4>3. CASE SaveRead(w, e)
        BY <1>3, <1>4, <4>3 DEF SaveRead, Goto, Exists, TypeOK, Past
      <4>4. CASE SaveCommit(w, e)
        BY <1>3, <1>4, <4>4 DEF SaveCommit, Busy, Goto, Exists, TypeOK, Past
      <4>5. CASE FailRead(w, e)
        BY <1>3, <1>4, <4>5 DEF FailRead, Goto, Exists, TypeOK, Past
      <4>6. CASE FailCommit(w, e)
        BY <1>3, <1>4, <4>6 DEF FailCommit, Exists
      <4> QED
        BY <2>5, <4>1, <4>2, <4>3, <4>4, <4>5, <4>6
    <3>3. Current(w, f)' => ~Past(w)'
      BY <1>4, <3>1, <3>2 DEF Open, Current
    <3> QED
      BY <1>2, <1>4, <2>1, <3>1, <3>3, OpenStays
  <2> QED
    BY <2>2, <2>3, <2>4, <2>5 DEF WorkerStep
<1>5. CASE status' = "generating"
  BY <1>2, <1>3, <1>4, <1>5, VouchedStays
<1> QED
  BY <1>5 DEF Vouched

(* Reading and forgetting entries: all stay unread or pending, and whoever *)
(* has them is at their start.                                             *)
LEMMA BatchVouched ==
    ASSUME TypeOK, Vouched, NEW w \in Workers, ReadNew(w) \/ Crash(w)
    PROVE  Vouched'
<1>1. UNCHANGED <<status, request, stream, swallowed>>
  BY DEF ReadNew, Crash, row, queue
<1>2. (\E S : Continue(w, S)) /\ ~Past(w)'
  BY FreshStart DEF ReadNew, Crash
<1>3. ASSUME NEW e \in DOMAIN stream, e > lastRead \/ e \in pending
      PROVE  e > lastRead' \/ e \in pending'
  <2>1. CASE ReadNew(w)
    <3> DEFINE new == {f \in (lastRead + 1)..Len(stream) : f <= lastRead + BatchSize}
    <3>1. lastRead \in Nat /\ Len(stream) \in Nat /\ lastRead < Len(stream)
          /\ e \in 1..Len(stream)
      BY <2>1 DEF ReadNew, TypeOK
    <3>2. Cardinality(new) \in Nat /\ new = (lastRead + 1)..(lastRead + Cardinality(new))
      BY <3>1, NextInterval
    <3>3. lastRead' = lastRead + Cardinality(new) /\ pending' = pending \cup new
      BY <2>1 DEF ReadNew
    <3> HIDE DEF new
    <3> QED
      BY <1>3, <3>1, <3>2, <3>3
  <2>2. CASE Crash(w)
    BY <1>3, <2>2 DEF Crash, queue
  <2> QED
    BY <2>1, <2>2
<1>4. \A v \in Workers \ {w} : UNCHANGED <<batch[v], at[v], read[v]>>
  BY <1>2, Others
<1>5. \A e \in DOMAIN stream : Open(e) => Open(e)'
  BY <1>1, <1>2, <1>3, <1>4, OpenStays
<1> QED
  BY <1>1, <1>5, VouchedStays

LEMMA VouchedStep == TypeOK /\ TypeOK' /\ Vouched /\ [Next]_vars => Vouched'
<1> SUFFICES ASSUME TypeOK, TypeOK', Vouched, [Next]_vars PROVE Vouched'
  OBVIOUS
<1>1. CASE Create
  <2>1. 1 \in Requests /\ request'[1] = "committed"
    BY <1>1 DEF Create, Phase, Requests, TypeOK
  <2> QED
    BY <2>1 DEF Vouched, Vouches
<1>2. CASE Delete
  BY <1>2 DEF Delete, Vouched
<1>3. CASE (\E x \in Edits : EditRead(x) \/ EditCommit(x)) \/ UNCHANGED vars
  <2>1. UNCHANGED <<status, request, queue, worker, swallowed>>
    BY <1>3 DEF EditRead, EditCommit, vars, row
  <2>2. \A e \in DOMAIN stream : Open(e) => Open(e)'
    BY <2>1 DEF Open, Current, Past, queue, worker
  <2> QED
    BY <2>1, <2>2, VouchedStays DEF queue
<1> QED
  BY <1>1, <1>2, <1>3, RequestVouched, WorkerVouched, BatchVouched DEF Next

-----------------------------------------------------------------------------
THEOREM GenerationInvariant == Spec => []GenerationInv
<1>1. Init => GenerationInv
  <2>1. Init => EditsHaveOutput /\ CompletedHasOutput /\ Vouched
    BY DEF Init, EditsHaveOutput, CompletedHasOutput, Vouched
  <2> QED
    BY <2>1, TypeInit DEF GenerationInv
<1>2. GenerationInv /\ [Next]_vars => GenerationInv'
  BY TypeStep, OutputStep, VouchedStep DEF GenerationInv
<1> QED
  BY <1>1, <1>2, PTL DEF Spec

(* Every variable keeps its type: in particular a version that an edit     *)
(* replaces was written before.                                            *)
THEOREM TypeCorrect == Spec => []TypeOK
<1>1. GenerationInv => TypeOK
  BY DEF GenerationInv
<1> QED
  BY <1>1, GenerationInvariant, PTL

(* A design that says 'completed' has an output, whichever workers, edits  *)
(* and deletions raced with each other.                                    *)
THEOREM CompletedDesignHasOutput == Spec => []CompletedHasOutput
<1>1. GenerationInv => CompletedHasOutput
  BY DEF GenerationInv
<1> QED
  BY <1>1, GenerationInvariant, PTL

(* A design that says 'generating' has a request under way, or one that    *)
(* was given up: its enqueue was lost, its worker died or left the batch,  *)
(* or its failure could not be written.  No race between workers, requests *)
(* and edits leaves a design generating for nothing.                       *)
THEOREM GeneratingHasWork == Spec => []GeneratingIsUnderWay
<1>1. ASSUME TypeOK, Vouched PROVE GeneratingIsUnderWay
  <2> SUFFICES ASSUME NEW q \in Requests, Vouches(q) PROVE UnderWay(q) \/ GivenUp(q)
    BY <1>1 DEF Vouched, GeneratingIsUnderWay
  <2>1. CASE request[q] \in {"committed", "lost"}
    BY <2>1 DEF UnderWay, GivenUp
  <2>2. ASSUME NEW e \in DOMAIN stream, stream[e] = q, Open(e) \/ e \in swallowed
        PROVE  UnderWay(q) \/ GivenUp(q)
    <3>1. lastRead \in Nat /\ Len(stream) \in Nat /\ e \in 1..Len(stream)
      BY <1>1 DEF TypeOK
    <3>2. e \in Unread \cup Held \/ e \in (pending \ Held) \cup swallowed
      BY <2>2, <3>1 DEF Open, Unread
    <3> QED
      BY <2>2, <3>2 DEF UnderWay, GivenUp, EntryIn
  <2> QED
    BY <2>1, <2>2 DEF Vouches
<1>2. GenerationInv => GeneratingIsUnderWay
  BY <1>1 DEF GenerationInv
<1> QED
  BY <1>2, GenerationInvariant, PTL

=============================================================================
