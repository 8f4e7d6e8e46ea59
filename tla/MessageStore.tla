----------------------------- MODULE MessageStore -----------------------------
(***************************************************************************)
(* The messaging service (app/messaging/service.py) over its tables.       *)
(*                                                                         *)
(* Every WebSocket command and every delivery worker runs one of the       *)
(* service's functions in a database session of its own.  PostgreSQL runs  *)
(* them READ COMMITTED: a statement sees what committed before it, row     *)
(* locks and unique keys make transactions wait for each other, and a      *)
(* commit makes all of a transaction's writes visible at once.  A request  *)
(* is therefore a process that stops between its statements; its writes    *)
(* are applied by its commit step, and the locks it holds meanwhile follow *)
(* from where it is.                                                       *)
(*                                                                         *)
(* A message is identified by its conversation and server_seq.             *)
(***************************************************************************)
EXTENDS Naturals, Sequences, FiniteSets

CONSTANTS Users, Conversations, ClientMsgIds,
          MembersOf,   \* conversation -> its members (left_at is never set)
          Requests,    \* sessions that can run at the same time
          Commands,    \* the messages clients send, any number of times each
          Ackers,      \* users whose devices acknowledge
          Readers,     \* users whose devices page through the history
          PageLimit    \* largest limit they pass to a sync

ASSUME StoreAssumption ==
    /\ MembersOf \in [Conversations -> SUBSET Users]
    /\ Commands \subseteq [user : Users, conv : Conversations, cid : ClientMsgIds]
    /\ Ackers \subseteq Users /\ Readers \subseteq Users
    /\ PageLimit \in Nat \ {0}

VARIABLES
    exists,       \* rows of conversations
    lastSeq,      \* conversations.last_message_id
    messages,     \* rows of messages
    recipients,   \* rows of message_recipients ...
    delivered,    \* ... those with delivered_at
    read,         \* ... and those with read_at
    cursor,       \* seq of conversation_members.last_read_message_id, 0 if NULL
    outbox,       \* rows of outbox_events in commit order
    answers,      \* what send_message returned
    pc, arg,      \* where each request is, and its command
    synced, seen  \* a reader's last_server_seq and the seqs it was sent

tables  == <<exists, lastSeq, messages, recipients, delivered, read, cursor, outbox>>
history == <<synced, seen>>
vars    == <<tables, answers, pc, arg, history>>

Message   == [conv : Conversations, seq : Nat, sender : Users, cid : ClientMsgIds]
Recipient == [conv : Conversations, seq : Nat, user : Users]

Event == [type : {"created"}, conv : Conversations, seq : Nat, to : SUBSET Users]
    \cup [type : {"delivered", "read"}, conv : Conversations, seq : Nat, user : Users]

SendArg == [user : Users, conv : Conversations, cid : ClientMsgIds, seq : Nat]
AckArg  == [user : Users, conv : Conversations, seq : Nat]

SendStep == {"lookup", "allocate", "insert", "commit", "relookup"}
AckStep  == {"deliver", "deliverCommit", "readTarget", "readCommit"}

NoArg == <<>>

TypeOK ==
    /\ exists \subseteq Conversations
    /\ lastSeq \in [Conversations -> Nat]
    /\ messages \subseteq Message
    /\ recipients \subseteq Recipient
    /\ delivered \subseteq Recipient /\ read \subseteq Recipient
    /\ cursor \in [Conversations -> [Users -> Nat]]
    /\ outbox \in Seq(Event)
    /\ answers \subseteq Message
    /\ pc \in [Requests -> SendStep \cup AckStep \cup {"idle"}]
    /\ arg \in [Requests -> SendArg \cup AckArg \cup {NoArg}]
    /\ \A r \in Requests : /\ pc[r] \in SendStep => arg[r] \in SendArg
                           /\ pc[r] \in AckStep => arg[r] \in AckArg
    /\ synced \in [Conversations -> [Users -> Nat]]
    /\ seen \in [Conversations -> [Users -> SUBSET Nat]]

Init ==
    /\ exists = Conversations
    /\ lastSeq = [c \in Conversations |-> 0]
    /\ messages = {} /\ recipients = {} /\ delivered = {} /\ read = {}
    /\ cursor = [c \in Conversations |-> [u \in Users |-> 0]]
    /\ outbox = <<>>
    /\ answers = {}
    /\ pc = [r \in Requests |-> "idle"]
    /\ arg = [r \in Requests |-> NoArg]
    /\ synced = [c \in Conversations |-> [u \in Users |-> 0]]
    /\ seen = [c \in Conversations |-> [u \in Users |-> {}]]

-----------------------------------------------------------------------------
Goto(r, step, a) ==
    /\ pc' = [pc EXCEPT ![r] = step]
    /\ arg' = [arg EXCEPT ![r] = a]

Return(r) == Goto(r, "idle", NoArg)

Start(r, step, a) == pc[r] = "idle" /\ Goto(r, step, a)

(* Row locks, held from the statement that took them to the commit.        *)
ConversationLocked(c) ==
    \E r \in Requests : pc[r] \in {"insert", "commit"} /\ arg[r].conv = c
MemberLocked(c, u) ==
    \E r \in Requests : /\ pc[r] \in {"readTarget", "readCommit"}
                        /\ arg[r].conv = c /\ arg[r].user = u
RecipientLocked(row) ==
    \E r \in Requests : pc[r] = "deliverCommit" /\ arg[r] = row

SentAs(u, k) == {m \in messages : m.sender = u /\ m.cid = k}
MessagesOf(c) == {m \in messages : m.conv = c}

-----------------------------------------------------------------------------
(* send_message.  A sender that is not an active member gets an error and  *)
(* nothing changes.                                                        *)
SendBegin(r, cmd) ==
    /\ cmd.conv \in exists /\ cmd.user \in MembersOf[cmd.conv]
    /\ Start(r, "lookup", [user |-> cmd.user, conv |-> cmd.conv, cid |-> cmd.cid, seq |-> 0])
    /\ UNCHANGED <<tables, answers, history>>

(* The client id was used before: return that message, whatever            *)
(* conversation it is in.                                                  *)
AnswerDuplicate(r) ==
    /\ answers' = answers \cup SentAs(arg[r].user, arg[r].cid)
    /\ Return(r)

SendLookup(r) ==
    /\ pc[r] = "lookup"
    /\ IF SentAs(arg[r].user, arg[r].cid) # {}
       THEN AnswerDuplicate(r)
       ELSE Goto(r, "allocate", arg[r]) /\ UNCHANGED answers
    /\ UNCHANGED <<tables, history>>

(* Deliberately wrong: the counter is committed before the message is.     *)
SendAllocateAlone(r) ==
    /\ pc[r] = "allocate"
    /\ ~ConversationLocked(arg[r].conv)
    /\ IF arg[r].conv \in exists
       THEN /\ Goto(r, "insert", [arg[r] EXCEPT !.seq = lastSeq[arg[r].conv] + 1])
            /\ lastSeq' = [lastSeq EXCEPT ![arg[r].conv] = @ + 1]
       ELSE Return(r) /\ UNCHANGED lastSeq
    /\ UNCHANGED <<exists, messages, recipients, delivered, read, cursor, outbox>>
    /\ UNCHANGED <<answers, history>>

(* allocate_server_seq: SELECT ... FOR UPDATE on the conversation, whose   *)
(* counter this transaction increments.  If it was deleted meanwhile the   *)
(* request fails.                                                          *)
SendAllocate(r) ==
    /\ pc[r] = "allocate"
    /\ ~ConversationLocked(arg[r].conv)
    /\ IF arg[r].conv \in exists
       THEN Goto(r, "insert", [arg[r] EXCEPT !.seq = lastSeq[arg[r].conv] + 1])
       ELSE Return(r)
    /\ UNCHANGED <<tables, answers, history>>

(* Deliberately wrong: the unique key on (sender, client_msg_id) is        *)
(* missing.                                                                *)
ConflictBySeq(m, n) == m.conv = n.conv /\ m.seq = n.seq

(* Two messages that a unique key of the table keeps apart.                *)
Conflict(m, n) ==
    \/ m.sender = n.sender /\ m.cid = n.cid
    \/ m.conv = n.conv /\ m.seq = n.seq

NewMessage(r) ==
    [conv |-> arg[r].conv, seq |-> arg[r].seq, sender |-> arg[r].user, cid |-> arg[r].cid]

(* Deliberately wrong: the request is answered before its commit.          *)
SendInsertAnswered(r) ==
    /\ pc[r] = "insert"
    /\ \A q \in Requests : pc[q] = "commit" => ~Conflict(NewMessage(r), NewMessage(q))
    /\ IF \E m \in messages : Conflict(NewMessage(r), m)
       THEN Goto(r, "relookup", arg[r]) /\ UNCHANGED answers
       ELSE Goto(r, "commit", arg[r]) /\ answers' = answers \cup {NewMessage(r)}
    /\ UNCHANGED <<tables, history>>

(* Deliberately wrong: the insert is repeated in the same transaction.     *)
SendInsertAgain(r) ==
    /\ pc[r] = "insert"
    /\ \A q \in Requests : pc[q] = "commit" => ~Conflict(NewMessage(r), NewMessage(q))
    /\ ~\E m \in messages : Conflict(NewMessage(r), m)
    /\ Goto(r, "commit", arg[r])
    /\ UNCHANGED <<tables, answers, history>>

(* The INSERT waits for a transaction that inserted the same key, and      *)
(* fails if a committed row has it; the failure rolls back.                *)
SendInsert(r) ==
    /\ pc[r] = "insert"
    /\ \A q \in Requests : pc[q] = "commit" => ~Conflict(NewMessage(r), NewMessage(q))
    /\ IF \E m \in messages : Conflict(NewMessage(r), m)
       THEN Goto(r, "relookup", arg[r])
       ELSE Goto(r, "commit", arg[r])
    /\ UNCHANGED <<tables, answers, history>>

(* After the IntegrityError: the other request's message is the answer, or *)
(* there is none any more and the error goes to the caller.                *)
SendRelookup(r) ==
    /\ pc[r] = "relookup"
    /\ AnswerDuplicate(r)
    /\ UNCHANGED <<tables, history>>

(* Deliberately wrong: the event is addressed to the sender as well.       *)
SendCommitToAll(r) ==
    /\ pc[r] = "commit"
    /\ LET m == NewMessage(r)
       IN  /\ lastSeq' = [lastSeq EXCEPT ![m.conv] = m.seq]
           /\ messages' = messages \cup {m}
           /\ recipients' = recipients \cup
                  {[conv |-> m.conv, seq |-> m.seq, user |-> u] :
                       u \in MembersOf[m.conv] \ {m.sender}}
           /\ outbox' = Append(outbox, [type |-> "created", conv |-> m.conv,
                                        seq |-> m.seq, to |-> MembersOf[m.conv]])
           /\ answers' = answers \cup {m}
    /\ Return(r)
    /\ UNCHANGED <<exists, delivered, read, cursor, history>>

(* One commit for the counter, the message, its recipient rows and the     *)
(* outbox row.                                                             *)
SendCommit(r) ==
    /\ pc[r] = "commit"
    /\ LET m  == NewMessage(r)
           to == MembersOf[m.conv] \ {m.sender}
       IN  /\ lastSeq' = [lastSeq EXCEPT ![m.conv] = m.seq]
           /\ messages' = messages \cup {m}
           /\ recipients' = recipients \cup
                  {[conv |-> m.conv, seq |-> m.seq, user |-> u] : u \in to}
           /\ outbox' = Append(outbox, [type |-> "created", conv |-> m.conv,
                                        seq |-> m.seq, to |-> to])
           /\ answers' = answers \cup {m}
    /\ Return(r)
    /\ UNCHANGED <<exists, delivered, read, cursor, history>>

-----------------------------------------------------------------------------
(* acknowledge_delivered.  It reads the row's state first; a user without  *)
(* a row gets an error, and a row already delivered changes nothing.       *)
DeliverBegin(r, row) ==
    /\ row \in recipients \ delivered /\ row.user \in Ackers
    /\ Start(r, "deliver", row)
    /\ UNCHANGED <<tables, answers, history>>

(* Deliberately wrong: the update does not test delivered_at again.        *)
DeliverMarkUnguarded(r) ==
    /\ pc[r] = "deliver"
    /\ ~RecipientLocked(arg[r])
    /\ IF arg[r] \in recipients
       THEN Goto(r, "deliverCommit", arg[r])
       ELSE Return(r)
    /\ UNCHANGED <<tables, answers, history>>

(* UPDATE ... WHERE delivered_at IS NULL waits for a concurrent update of  *)
(* the row; the event is written only if a row was updated.                *)
DeliverMark(r) ==
    /\ pc[r] = "deliver"
    /\ ~RecipientLocked(arg[r])
    /\ IF arg[r] \in recipients \ delivered
       THEN Goto(r, "deliverCommit", arg[r])
       ELSE Return(r)
    /\ UNCHANGED <<tables, answers, history>>

DeliverCommit(r) ==
    /\ pc[r] = "deliverCommit"
    /\ delivered' = delivered \cup {arg[r]}
    /\ outbox' = Append(outbox, [type |-> "delivered", conv |-> arg[r].conv,
                                 seq |-> arg[r].seq, user |-> arg[r].user])
    /\ Return(r)
    /\ UNCHANGED <<exists, lastSeq, messages, recipients, read, cursor, answers, history>>

-----------------------------------------------------------------------------
(* acknowledge_read.  The member's row is locked first.                    *)
ReadBegin(r, u, c, upto) ==
    /\ c \in exists /\ u \in MembersOf[c]
    /\ ~MemberLocked(c, u)
    /\ Start(r, "readTarget", [user |-> u, conv |-> c, seq |-> upto])
    /\ UNCHANGED <<tables, answers, history>>

(* Deliberately wrong: the cursor is not compared with the target.         *)
ReadTargetUnordered(r) ==
    /\ pc[r] = "readTarget"
    /\ LET upto == {m.seq : m \in {n \in MessagesOf(arg[r].conv) : n.seq <= arg[r].seq}}
       IN  IF upto # {}
           THEN \E s \in upto : /\ \A t \in upto : t <= s
                                /\ Goto(r, "readCommit", [arg[r] EXCEPT !.seq = s])
           ELSE Return(r)
    /\ UNCHANGED <<tables, answers, history>>

(* Deliberately wrong: a missing target is not noticed.                    *)
ReadTargetMissing(r) ==
    /\ pc[r] = "readTarget"
    /\ LET upto == {m.seq : m \in {n \in MessagesOf(arg[r].conv) : n.seq <= arg[r].seq}}
       IN  IF upto = {}
           THEN Goto(r, "readCommit", NoArg)
           ELSE \E s \in upto : /\ \A t \in upto : t <= s
                                /\ Goto(r, "readCommit", [arg[r] EXCEPT !.seq = s])
    /\ UNCHANGED <<tables, answers, history>>

(* The target is the last message at or before the requested seq; if there *)
(* is none, or the cursor is already there, the transaction rolls back.    *)
ReadTarget(r) ==
    /\ pc[r] = "readTarget"
    /\ LET upto == {m.seq : m \in {n \in MessagesOf(arg[r].conv) : n.seq <= arg[r].seq}}
       IN  IF \E s \in upto : s > cursor[arg[r].conv][arg[r].user]
           THEN \E s \in upto : /\ \A t \in upto : t <= s
                                /\ Goto(r, "readCommit", [arg[r] EXCEPT !.seq = s])
           ELSE Return(r)
    /\ UNCHANGED <<tables, answers, history>>

(* Deliberately wrong: the last message is left out.                       *)
RowsBefore(c, u, s) ==
    {row \in recipients : row.conv = c /\ row.user = u /\ row.seq < s}

RowsUpto(c, u, s) ==
    {row \in recipients : row.conv = c /\ row.user = u /\ row.seq <= s}

ReadCommit(r) ==
    /\ pc[r] = "readCommit"
    /\ LET c == arg[r].conv
           u == arg[r].user
           s == arg[r].seq
       IN  /\ \A row \in RowsUpto(c, u, s) : ~RecipientLocked(row)
           /\ cursor' = [cursor EXCEPT ![c][u] = s]
           /\ read' = read \cup RowsUpto(c, u, s)
           /\ outbox' = Append(outbox, [type |-> "read", conv |-> c, seq |-> s, user |-> u])
    /\ Return(r)
    /\ UNCHANGED <<exists, lastSeq, messages, recipients, delivered, answers, history>>

-----------------------------------------------------------------------------
(* Deliberately wrong: the page is taken from the wrong end.               *)
PageFromEnd(c, after, n) ==
    {s \in {m.seq : m \in MessagesOf(c)} :
        s > after /\ Cardinality({m \in MessagesOf(c) : m.seq > s}) < n}

(* build_sync_response: a page of at most n messages after an anchor.      *)
Page(c, after, n) ==
    {s \in {m.seq : m \in MessagesOf(c)} :
        s > after /\ Cardinality({m \in MessagesOf(c) : after < m.seq /\ m.seq < s}) < n}

(* last_server_seq of the response, and what a reader makes of it.         *)
Adopt(u, c, page, ifEmpty) ==
    \E last \in page \cup {ifEmpty} :
        /\ page # {} => last \in page /\ \A s \in page : s <= last
        /\ synced' = [synced EXCEPT ![c][u] = IF last > @ THEN last ELSE @]
        /\ seen' = [seen EXCEPT ![c][u] = @ \cup page]

SyncAfterSeq(u, c, n) ==
    /\ c \in exists /\ u \in MembersOf[c]
    /\ Adopt(u, c, Page(c, synced[c][u], n), synced[c][u])
    /\ UNCHANGED <<tables, answers, pc, arg>>

(* Anchored at a message id, of which the response knows no seq: an empty  *)
(* page reports 0.                                                         *)
SyncAfterMessage(u, c, n) ==
    /\ c \in exists /\ u \in MembersOf[c]
    /\ \E m \in MessagesOf(c) :
          /\ m.seq = synced[c][u]
          /\ Adopt(u, c, Page(c, m.seq, n), 0)
    /\ UNCHANGED <<tables, answers, pc, arg>>

-----------------------------------------------------------------------------
(* delete_design_for_user deletes the design's conversation; the foreign   *)
(* keys cascade to everything but the outbox, and the DELETE waits for     *)
(* every row lock below it.                                                *)
DeleteConversation(c) ==
    /\ c \in exists
    /\ ~ConversationLocked(c)
    /\ \A u \in Users : ~MemberLocked(c, u)
    /\ \A row \in recipients : row.conv = c => ~RecipientLocked(row)
    /\ exists' = exists \ {c}
    /\ messages' = {m \in messages : m.conv # c}
    /\ recipients' = {row \in recipients : row.conv # c}
    /\ delivered' = {row \in delivered : row.conv # c}
    /\ read' = {row \in read : row.conv # c}
    /\ lastSeq' = [lastSeq EXCEPT ![c] = 0]
    /\ cursor' = [cursor EXCEPT ![c] = [u \in Users |-> 0]]
    /\ synced' = [synced EXCEPT ![c] = [u \in Users |-> 0]]
    /\ seen' = [seen EXCEPT ![c] = [u \in Users |-> {}]]
    /\ UNCHANGED <<outbox, answers, pc, arg>>

(* A process dies, a connection drops or PostgreSQL picks the transaction  *)
(* as a deadlock victim: everything uncommitted is gone.                   *)
Abort(r) ==
    /\ pc[r] # "idle"
    /\ Return(r)
    /\ UNCHANGED <<tables, answers, history>>

-----------------------------------------------------------------------------
SendNext(r) ==
    \/ SendLookup(r) \/ SendAllocate(r) \/ SendInsert(r)
    \/ SendRelookup(r) \/ SendCommit(r)

AckNext(r) ==
    \/ DeliverMark(r) \/ DeliverCommit(r)
    \/ ReadTarget(r) \/ ReadCommit(r)

Next ==
    \/ \E r \in Requests : SendNext(r) \/ AckNext(r) \/ Abort(r)
    \/ \E r \in Requests, cmd \in Commands : SendBegin(r, cmd)
    \/ \E r \in Requests : \E row \in recipients : DeliverBegin(r, row)
    \/ \E r \in Requests, u \in Ackers, c \in Conversations :
          \E s \in 0..lastSeq[c] : ReadBegin(r, u, c, s)
    \/ \E u \in Readers, c \in Conversations, n \in 1..PageLimit :
          SyncAfterSeq(u, c, n) \/ SyncAfterMessage(u, c, n)
    \/ \E c \in Conversations : DeleteConversation(c)

Spec == Init /\ [][Next]_vars

(* A request runs on unless it waits, and waiters are served in turn.      *)
Fairness == \A r \in Requests : SF_vars(SendNext(r) \/ AckNext(r))

FairSpec == Spec /\ Fairness

-----------------------------------------------------------------------------
(* The seqs of a conversation's messages are 1, 2, ... up to its counter:  *)
(* no abort, conflict or race leaves a gap or takes a number twice.        *)
GapFree ==
    \A c \in exists : {m.seq : m \in MessagesOf(c)} = 1..lastSeq[c]

(* Whatever send_message returned is a committed message of that sender    *)
(* and client id, as long as its conversation exists.                      *)
AcceptedIsDurable == \A a \in answers : a.conv \in exists => a \in messages

(* All answers to one client id name the same message, also when two       *)
(* requests with that id ran at the same time in two conversations.        *)
RetriesAgree ==
    \A a, b \in answers :
        /\ a.sender = b.sender /\ a.cid = b.cid
        /\ a.conv \in exists /\ b.conv \in exists
        => a = b

EventsOf(type, c, s) ==
    {i \in DOMAIN outbox : outbox[i].type = type /\ outbox[i].conv = c /\ outbox[i].seq = s}

(* Every committed message has one 'message.created' event, addressed to   *)
(* exactly the users that have a recipient row.                            *)
CreatedOnce ==
    \A m \in messages : \E i \in DOMAIN outbox :
        /\ EventsOf("created", m.conv, m.seq) = {i}
        /\ outbox[i].to = {u \in Users :
               [conv |-> m.conv, seq |-> m.seq, user |-> u] \in recipients}

(* A row has one 'message.delivered' event if it is delivered and none     *)
(* otherwise: racing acknowledgements announce a delivery once.            *)
DeliveredOnce ==
    \A row \in recipients :
        Cardinality({i \in EventsOf("delivered", row.conv, row.seq) :
                        outbox[i].user = row.user})
            = IF row \in delivered THEN 1 ELSE 0

(* The rows marked read are those at or before the member's cursor: no     *)
(* message with a lower seq can turn up after the cursor passed it.        *)
ReadUptoCursor ==
    read = {row \in recipients : row.seq <= cursor[row.conv][row.user]}

(* The read events of a member in a conversation go strictly forward, so   *)
(* concurrent and stale acknowledgements never move the cursor back.       *)
ReadEventsAscend ==
    \A i, j \in DOMAIN outbox :
        /\ i < j
        /\ outbox[i].type = "read" /\ outbox[j].type = "read"
        /\ outbox[i].conv = outbox[j].conv /\ outbox[i].user = outbox[j].user
        => outbox[i].seq < outbox[j].seq

(* A reader that pages through a conversation has been sent every message  *)
(* up to the point it has reached.                                         *)
SyncHasNoHoles ==
    \A c \in exists : \A u \in MembersOf[c] : seen[c][u] = 1..synced[c][u]

(* No request waits for ever: the lock, the unique key and the row it may  *)
(* wait for are always given up by their holder.                           *)
EveryRequestReturns == \A r \in Requests : pc[r] # "idle" ~> pc[r] = "idle"

=============================================================================
