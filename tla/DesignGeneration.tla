--------------------------- MODULE DesignGeneration ---------------------------
(***************************************************************************)
(* The life of one design: the requests that create, regenerate, edit and  *)
(* delete it (app/services/design_service.py) and the generation workers   *)
(* that run the language model for it (app/workers/generation_worker.py).  *)
(*                                                                         *)
(* A request commits the status 'generating' and only then adds an entry   *)
(* to the generation stream itself; nothing is written to the outbox.      *)
(* Worker transactions read the design and its output, build everything in *)
(* memory and commit later, without row locks: another transaction may     *)
(* commit in between.  The ORM writes only attributes that differ from     *)
(* what it read.                                                           *)
(*                                                                         *)
(* Outputs are numbered in the order they are written.  process_once also  *)
(* claims the entries that have been pending for a minute, but XAUTOCLAIM  *)
(* answers with a list where the code expects a tuple, so what it claimed  *)
(* is dropped: a worker runs new entries only, and what it had not         *)
(* finished when it died stays pending for ever.                           *)
(***************************************************************************)
EXTENDS Naturals, Sequences, FiniteSets

CONSTANTS Workers,      \* worker processes
          MaxRequests,  \* bound on generations requested, the first included
          MaxEdits,     \* bound on edits of the diagram
          BatchSize,    \* settings.generation_batch_size
          MaxFaults     \* bound on lost enqueues, crashes and calls that raise

ASSUME GenerationAssumption ==
    /\ MaxRequests \in Nat \ {0} /\ BatchSize \in Nat \ {0}
    /\ MaxEdits \in Nat /\ MaxFaults \in Nat

Requests == 1..MaxRequests
Edits    == 1..MaxEdits

VARIABLES
    status,     \* designs.status ("absent", "deleted": no row)
    output,     \* the version in design_outputs, 0 if no row
    archive,    \* rows of design_output_versions
    produced,   \* versions written so far
    request,    \* where each request is ...
    sawStatus,  \* ... and the status it read
    edit,       \* where each edit is
    edited,     \* versions that an edit replaced
    stream,     \* entries of the generation stream, by the request that added them
    lastRead,   \* the group's last-delivered-id
    pending,    \* its pending entries list
    batch,      \* entries a worker has yet to finish
    at,         \* where it is in the first of them
    read,       \* the status and the output it read
    swallowed,  \* entries given up with no failure written
    faults

row    == <<status, output, archive, produced, edited>>
queue  == <<stream, lastRead, pending>>
worker == <<batch, at, read>>
vars   == <<row, request, sawStatus, edit, queue, worker, swallowed, faults>>

Status   == {"absent", "generating", "completed", "failed", "deleted"}
Location == {"idle", "start", "generate", "save", "commit", "ack",
             "fail", "failCommit", "lastAck"}

TypeOK ==
    /\ status \in Status
    /\ produced \in Nat /\ output \in 0..produced /\ edited \subseteq 1..produced
    /\ archive \in Seq(1..produced)
    /\ request \in [Requests -> {"unused", "read", "committed", "queued", "lost", "refused"}]
    /\ sawStatus \in [Requests -> Status]
    /\ edit \in [Edits -> {"unused", "read", "over"}]
    /\ stream \in Seq(Requests)
    /\ lastRead \in 0..Len(stream)
    /\ pending \subseteq 1..lastRead
    /\ batch \in [Workers -> SUBSET (1..lastRead)]
    /\ at \in [Workers -> Location]
    /\ read \in [Workers -> [status : Status, output : 0..produced]]
    /\ swallowed \subseteq 1..lastRead
    /\ faults \in 0..MaxFaults

Nothing == [status |-> "absent", output |-> 0]

Init ==
    /\ status = "absent" /\ output = 0 /\ archive = <<>> /\ produced = 0 /\ edited = {}
    /\ request = [q \in Requests |-> "unused"]
    /\ sawStatus = [q \in Requests |-> "absent"]
    /\ edit = [x \in Edits |-> "unused"]
    /\ stream = <<>> /\ lastRead = 0 /\ pending = {}
    /\ batch = [w \in Workers |-> {}]
    /\ at = [w \in Workers |-> "idle"]
    /\ read = [w \in Workers |-> Nothing]
    /\ swallowed = {} /\ faults = 0

Exists == status \notin {"absent", "deleted"}

Fault == faults < MaxFaults /\ faults' = faults + 1

Phase(q, phase) == request' = [request EXCEPT ![q] = phase]

-----------------------------------------------------------------------------
(* create_design_for_user: the first request inserts the design.           *)
Create ==
    /\ status = "absent"
    /\ status' = "generating"
    /\ Phase(1, "committed")
    /\ UNCHANGED <<output, archive, produced, edited, sawStatus, edit, queue, worker, swallowed, faults>>

(* regenerate_design_for_user loads the design ...                         *)
RegenerateRead(q) ==
    /\ Exists /\ q # 1 /\ request[q] = "unused"
    /\ sawStatus' = [sawStatus EXCEPT ![q] = status]
    /\ Phase(q, "read")
    /\ UNCHANGED <<row, edit, queue, worker, swallowed, faults>>

(* ... and commits its status, which is only written if it read another.   *)
RegenerateCommit(q) ==
    /\ request[q] = "read"
    /\ IF Exists
       THEN /\ status' = IF sawStatus[q] = "generating" THEN status ELSE "generating"
            /\ Phase(q, "committed")
       ELSE Phase(q, "refused") /\ UNCHANGED status
    /\ UNCHANGED <<output, archive, produced, edited, sawStatus, edit, queue, worker, swallowed, faults>>

(* _enqueue_generation, after the commit.                                  *)
Enqueue(q) ==
    /\ request[q] = "committed"
    /\ stream' = Append(stream, q)
    /\ Phase(q, "queued")
    /\ UNCHANGED <<row, sawStatus, edit, lastRead, pending, worker, swallowed, faults>>

(* xadd raises, or the process dies before it.                             *)
EnqueueFails(q) ==
    /\ request[q] = "committed"
    /\ Fault
    /\ Phase(q, "lost")
    /\ UNCHANGED <<row, sawStatus, edit, queue, worker, swallowed>>

(* update_design_architecture_for_user needs an output, and overwrites     *)
(* whatever the row holds when it commits.                                 *)
EditRead(x) ==
    /\ Exists /\ output # 0
    /\ edit[x] = "unused"
    /\ edit' = [edit EXCEPT ![x] = "read"]
    /\ UNCHANGED <<row, request, sawStatus, queue, worker, swallowed, faults>>

EditCommit(x) ==
    /\ edit[x] = "read"
    /\ edit' = [edit EXCEPT ![x] = "over"]
    /\ IF Exists
       THEN /\ output' = produced + 1
            /\ produced' = produced + 1
            /\ edited' = edited \cup {output}
       ELSE UNCHANGED <<output, produced, edited>>
    /\ UNCHANGED <<status, archive, request, sawStatus, queue, worker, swallowed, faults>>

(* delete_design_for_user, with everything that belongs to the design.     *)
Delete ==
    /\ Exists
    /\ status' = "deleted"
    /\ output' = 0
    /\ archive' = <<>>
    /\ UNCHANGED <<produced, edited, request, sawStatus, edit, queue, worker, swallowed, faults>>

-----------------------------------------------------------------------------
Busy(w, location, e) == at[w] = location /\ e \in batch[w] /\ \A f \in batch[w] : e <= f

Goto(w, location) == at' = [at EXCEPT ![w] = location] /\ UNCHANGED batch

Continue(w, S) ==
    /\ batch' = [batch EXCEPT ![w] = S]
    /\ at' = [at EXCEPT ![w] = IF S = {} THEN "idle" ELSE "start"]
    /\ read' = [read EXCEPT ![w] = Nothing]

(* process_once reads the next entries that nobody was given yet.          *)
ReadNew(w) ==
    /\ at[w] = "idle" /\ lastRead < Len(stream)
    /\ LET new == {e \in (lastRead + 1)..Len(stream) : e <= lastRead + BatchSize}
       IN  /\ Continue(w, new)
           /\ pending' = pending \cup new
           /\ lastRead' = lastRead + Cardinality(new)
    /\ UNCHANGED <<row, request, sawStatus, edit, stream, swallowed, faults>>

(* Deliberately wrong: a design that has an output is not generated again. *)
StartOnce(w, e) ==
    /\ Busy(w, "start", e)
    /\ Goto(w, IF Exists /\ output = 0 THEN "generate" ELSE "ack")
    /\ UNCHANGED <<row, request, sawStatus, edit, queue, read, swallowed, faults>>

(* An entry of a design that is gone or completed is acknowledged at once. *)
Start(w, e) ==
    /\ Busy(w, "start", e)
    /\ Goto(w, IF Exists /\ status # "completed" THEN "generate" ELSE "ack")
    /\ UNCHANGED <<row, request, sawStatus, edit, queue, read, swallowed, faults>>

(* create_structured_response: the content of the model's answer, an       *)
(* LLMClientError for an error status or an answer without content, or an  *)
(* exception of the HTTP client, such as a timeout.                        *)
Response == {"content", "error", "exception"}

(* parse_structured_output: content that is no design is an error too.     *)
Parsed(response) == IF response = "content" THEN {"design", "error"} ELSE {response}

(* generate_structured_design: after an error, as without an API key, the  *)
(* design is made from the input alone; an exception is not caught.        *)
Generated(result) == result \in {"design", "error"}

Generate(w, e) ==
    /\ Busy(w, "generate", e)
    /\ \E response \in Response : \E result \in Parsed(response) :
          Goto(w, IF Generated(result) THEN "save" ELSE "fail")
    /\ UNCHANGED <<row, request, sawStatus, edit, queue, read, swallowed, faults>>

(* Deliberately wrong: the status is committed before the output.          *)
SaveReadCompletes(w, e) ==
    /\ Busy(w, "save", e)
    /\ read' = [read EXCEPT ![w] = [status |-> status, output |-> output]]
    /\ status' = IF Exists THEN "completed" ELSE status
    /\ Goto(w, IF Exists THEN "commit" ELSE "ack")
    /\ UNCHANGED <<output, archive, produced, edited, request, sawStatus, edit, queue, swallowed, faults>>

(* The second session loads the design and its output ...                  *)
SaveRead(w, e) ==
    /\ Busy(w, "save", e)
    /\ read' = [read EXCEPT ![w] = [status |-> status, output |-> output]]
    /\ Goto(w, IF Exists THEN "commit" ELSE "ack")
    /\ UNCHANGED <<row, request, sawStatus, edit, queue, swallowed, faults>>

(* ... and commits the new one.  It archives the output it has read.  The  *)
(* commit fails if the design is gone or another worker inserted the first *)
(* output meanwhile.                                                       *)
SaveCommit(w, e) ==
    /\ Busy(w, "commit", e)
    /\ LET old == read[w].output
       IN  IF Exists /\ (old = 0 => output = 0)
           THEN /\ archive' = IF old = 0 THEN archive ELSE Append(archive, old)
                /\ output' = produced + 1
                /\ produced' = produced + 1
                /\ status' = IF read[w].status = "completed" THEN status ELSE "completed"
                /\ Goto(w, "ack")
           ELSE Goto(w, "fail") /\ UNCHANGED <<archive, output, produced, status>>
    /\ UNCHANGED <<edited, request, sawStatus, edit, queue, read, swallowed, faults>>

Ack(w, e) ==
    /\ Busy(w, "ack", e)
    /\ pending' = pending \ {e}
    /\ Continue(w, batch[w] \ {e})
    /\ UNCHANGED <<row, request, sawStatus, edit, stream, lastRead, swallowed, faults>>

(* A query, the commit or xack raises in the try: the except branch is     *)
(* next.  An xack that raises may have been applied.                       *)
Raises(w, e) ==
    /\ \E location \in {"start", "save", "commit", "ack"} : Busy(w, location, e)
    /\ Fault
    /\ pending' \in {pending, IF at[w] = "ack" THEN pending \ {e} ELSE pending}
    /\ Goto(w, "fail")
    /\ UNCHANGED <<row, request, sawStatus, edit, stream, lastRead, read, swallowed>>

(* Deliberately wrong: a failed generation is acknowledged and forgotten.  *)
FailReadForgets(w, e) ==
    /\ Busy(w, "fail", e)
    /\ Goto(w, "lastAck")
    /\ UNCHANGED <<row, request, sawStatus, edit, queue, read, swallowed, faults>>

(* The except branch: a design still generating becomes failed.            *)
FailRead(w, e) ==
    /\ Busy(w, "fail", e)
    /\ Goto(w, IF status = "generating" THEN "failCommit" ELSE "lastAck")
    /\ UNCHANGED <<row, request, sawStatus, edit, queue, read, swallowed, faults>>

FailCommit(w, e) ==
    /\ Busy(w, "failCommit", e)
    /\ status' = IF Exists THEN "failed" ELSE status
    /\ Goto(w, "lastAck")
    /\ UNCHANGED <<output, archive, produced, edited, request, sawStatus, edit, queue, read,
                   swallowed, faults>>

(* Its own query or commit raises, which it passes over: the status stays  *)
(* and the entry is acknowledged all the same.                             *)
Swallow(w, e) ==
    /\ Busy(w, "fail", e) \/ Busy(w, "failCommit", e)
    /\ Fault
    /\ swallowed' = swallowed \cup {e}
    /\ Goto(w, "lastAck")
    /\ UNCHANGED <<row, request, sawStatus, edit, queue, read>>

(* The finally of the except branch.                                       *)
LastAck(w, e) ==
    /\ Busy(w, "lastAck", e)
    /\ pending' = pending \ {e}
    /\ Continue(w, batch[w] \ {e})
    /\ UNCHANGED <<row, request, sawStatus, edit, stream, lastRead, swallowed, faults>>

(* The process dies, or the last xack raises, out of process_once: the     *)
(* rest of the batch is forgotten.                                         *)
Crash(w) ==
    /\ at[w] # "idle"
    /\ Fault
    /\ Continue(w, {})
    /\ UNCHANGED <<row, request, sawStatus, edit, queue, swallowed>>

-----------------------------------------------------------------------------
WorkerStep(w, e) ==
    \/ Start(w, e) \/ Generate(w, e) \/ SaveRead(w, e) \/ SaveCommit(w, e)
    \/ Ack(w, e) \/ FailRead(w, e) \/ FailCommit(w, e) \/ LastAck(w, e)

Next ==
    \/ Create \/ Delete
    \/ \E q \in Requests : \/ RegenerateRead(q) \/ RegenerateCommit(q)
                           \/ Enqueue(q) \/ EnqueueFails(q)
    \/ \E x \in Edits : EditRead(x) \/ EditCommit(x)
    \/ \E w \in Workers : ReadNew(w) \/ Crash(w)
    \/ \E w \in Workers, e \in Requests : WorkerStep(w, e) \/ Raises(w, e) \/ Swallow(w, e)

Spec == Init /\ [][Next]_vars

(* Requests and workers run on; faults are finitely many.                  *)
Fairness ==
    /\ \A q \in Requests : WF_vars(Enqueue(q))
    /\ \A w \in Workers : /\ WF_vars(ReadNew(w))
                          /\ WF_vars(\E e \in Requests : WorkerStep(w, e))

FairSpec == Spec /\ Fairness

-----------------------------------------------------------------------------
(* A completed design has an output, whichever workers, edits and          *)
(* deletions raced with each other.                                        *)
CompletedHasOutput == status = "completed" => output # 0

Unread == (lastRead + 1)..Len(stream)
Held   == UNION {batch[w] : w \in Workers}

EntryIn(q, S) == \E e \in S : stream[e] = q

(* The request is about to queue its entry, or the entry is unread, or in  *)
(* the hands of a worker.                                                  *)
UnderWay(q) == request[q] = "committed" \/ EntryIn(q, Unread \cup Held)

(* What no worker will come to: the enqueue was lost, the worker that had  *)
(* the entry died or left its batch, or the failure could not be written.  *)
GivenUp(q) == request[q] = "lost" \/ EntryIn(q, (pending \ Held) \cup swallowed)

(* A design says 'generating' only if a request is under way, or was given *)
(* up in one of these ways: no race between workers, requests and edits    *)
(* leaves it generating for nothing.                                       *)
GeneratingIsUnderWay ==
    status = "generating" => \E q \in Requests : UnderWay(q) \/ GivenUp(q)

(* What docs/ARCHITECTURE.md:52 says of the design record and the worker's *)
(* message: the record never exists without the message.                   *)
RecordHasMessage ==
    status = "generating" =>
        \E q \in Requests : request[q] = "committed" \/ EntryIn(q, Unread \cup pending)

(* list_output_versions.                                                   *)
Listed == {archive[i] : i \in DOMAIN archive}

(* What the docstring of DesignOutputVersion says (models/design.py:72): a *)
(* snapshot before each regeneration.  Every version but the current one   *)
(* is archived, unless an edit replaced it.                                *)
EveryVersionArchived ==
    Exists => \A v \in (1..produced) \ edited : v = output \/ v \in Listed

(* A request whose commit left the design generating brings that to an     *)
(* end, unless this very request was given up: what happens to another     *)
(* one is no excuse.                                                       *)
EventuallySettled ==
    \A q \in Requests :
        status = "generating" /\ request[q] = "committed"
            ~> status # "generating" \/ GivenUp(q)

=============================================================================
