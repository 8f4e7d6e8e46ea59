------------------------- MODULE MessageStoreProofs -------------------------
(***************************************************************************)
(* Proofs about MessageStore, for any users, conversations, memberships    *)
(* and number of concurrent requests.                                      *)
(***************************************************************************)
EXTENDS MessageStore, TLAPS, FiniteSetTheorems

USE StoreAssumption

-----------------------------------------------------------------------------
(* Type correctness.                                                       *)

(* What moving one request does to the others: nothing.                    *)
LEMMA GotoEffect ==
    ASSUME TypeOK, NEW r \in Requests, NEW step, NEW a, Goto(r, step, a)
    PROVE  /\ pc'[r] = step /\ arg'[r] = a
           /\ \A q \in Requests : q # r => pc'[q] = pc[q] /\ arg'[q] = arg[q]
BY DEF TypeOK, Goto

LEMMA GotoTyped ==
    ASSUME TypeOK, NEW r \in Requests, NEW step, NEW a, Goto(r, step, a),
           step \in SendStep \cup AckStep \cup {"idle"},
           step = "idle" => a = NoArg,
           step \in SendStep => a \in SendArg,
           step \in AckStep => a \in AckArg
    PROVE  /\ pc' \in [Requests -> SendStep \cup AckStep \cup {"idle"}]
           /\ arg' \in [Requests -> SendArg \cup AckArg \cup {NoArg}]
           /\ \A q \in Requests : /\ pc'[q] \in SendStep => arg'[q] \in SendArg
                                  /\ pc'[q] \in AckStep => arg'[q] \in AckArg
<1>1. a \in SendArg \cup AckArg \cup {NoArg}
  OBVIOUS
<1>2. /\ pc' \in [Requests -> SendStep \cup AckStep \cup {"idle"}]
      /\ arg' \in [Requests -> SendArg \cup AckArg \cup {NoArg}]
  BY <1>1 DEF TypeOK, Goto
<1>3. ASSUME NEW q \in Requests
      PROVE  /\ pc'[q] \in SendStep => arg'[q] \in SendArg
             /\ pc'[q] \in AckStep => arg'[q] \in AckArg
  <2>1. CASE q = r
    BY <2>1, GotoEffect
  <2>2. CASE q # r
    BY <2>2, GotoEffect DEF TypeOK
  <2> QED
    BY <2>1, <2>2
<1> QED
  BY <1>2, <1>3

LEMMA TypeInit == Init => TypeOK
BY DEF Init, TypeOK, SendStep, AckStep

(* Steps of a request that only move it.                                   *)
LEMMA TypeMove ==
    ASSUME TypeOK, NEW r \in Requests, NEW step, NEW a, Goto(r, step, a),
           step \in SendStep \cup AckStep \cup {"idle"},
           step = "idle" => a = NoArg,
           step \in SendStep => a \in SendArg,
           step \in AckStep => a \in AckArg,
           answers' \subseteq Message,
           UNCHANGED <<tables, history>>
    PROVE  TypeOK'
<1>1. /\ pc' \in [Requests -> SendStep \cup AckStep \cup {"idle"}]
      /\ arg' \in [Requests -> SendArg \cup AckArg \cup {NoArg}]
      /\ \A q \in Requests : /\ pc'[q] \in SendStep => arg'[q] \in SendArg
                             /\ pc'[q] \in AckStep => arg'[q] \in AckArg
  BY GotoTyped
<1> QED
  BY <1>1 DEF TypeOK, tables, history

LEMMA ReturnTyped ==
    ASSUME TypeOK, NEW r \in Requests, Return(r)
    PROVE  /\ pc' \in [Requests -> SendStep \cup AckStep \cup {"idle"}]
           /\ arg' \in [Requests -> SendArg \cup AckArg \cup {NoArg}]
           /\ \A q \in Requests : /\ pc'[q] \in SendStep => arg'[q] \in SendArg
                                  /\ pc'[q] \in AckStep => arg'[q] \in AckArg
BY GotoTyped DEF Return, SendStep, AckStep

LEMMA SentAsTyped ==
    ASSUME TypeOK, NEW u, NEW k PROVE SentAs(u, k) \subseteq Message
BY DEF TypeOK, SentAs

LEMMA TypeSend ==
    ASSUME TypeOK, NEW r \in Requests, SendNext(r) PROVE TypeOK'
<1>1. pc[r] \in SendStep => arg[r] \in SendArg
  BY DEF TypeOK
<1>2. CASE SendLookup(r)
  BY <1>1, <1>2, TypeMove, SentAsTyped
     DEF SendLookup, AnswerDuplicate, Return, SendStep, AckStep, TypeOK
<1>3. CASE SendAllocate(r)
  <2>1. arg[r] \in SendArg
    BY <1>1, <1>3 DEF SendAllocate, SendStep
  <2>2. [arg[r] EXCEPT !.seq = lastSeq[arg[r].conv] + 1] \in SendArg
    <3>1. lastSeq[arg[r].conv] + 1 \in Nat
      BY <2>1 DEF TypeOK, SendArg
    <3> QED
      BY <2>1, <3>1 DEF SendArg
  <2>3. answers' \subseteq Message /\ UNCHANGED <<tables, history>>
    BY <1>3 DEF SendAllocate, TypeOK
  <2>4. CASE arg[r].conv \in exists
    BY <1>3, <2>2, <2>3, <2>4, TypeMove DEF SendAllocate, SendStep, AckStep
  <2>5. CASE arg[r].conv \notin exists
    BY <1>3, <2>3, <2>5, TypeMove DEF SendAllocate, Return, SendStep, AckStep
  <2> QED
    BY <2>4, <2>5
<1>4. CASE SendInsert(r)
  BY <1>1, <1>4, TypeMove DEF SendInsert, SendStep, AckStep, TypeOK
<1>5. CASE SendRelookup(r)
  BY <1>5, TypeMove, SentAsTyped
     DEF SendRelookup, AnswerDuplicate, Return, SendStep, AckStep, TypeOK
<1>6. CASE SendCommit(r)
  <2> DEFINE m == NewMessage(r)
             to == MembersOf[m.conv] \ {m.sender}
             rows == {[conv |-> m.conv, seq |-> m.seq, user |-> u] : u \in to}
             e == [type |-> "created", conv |-> m.conv, seq |-> m.seq, to |-> to]
  <2>1. m \in Message
    BY <1>1, <1>6 DEF SendCommit, SendStep, SendArg, Message, NewMessage
  <2>2. to \subseteq Users
    BY <2>1 DEF Message
  <2>3. rows \subseteq Recipient
    BY <2>1, <2>2 DEF Recipient, Message
  <2>4. e \in Event
    BY <2>1, <2>2 DEF Event, Message
  <2>5. outbox' = Append(outbox, e) /\ recipients' = recipients \cup rows
        /\ messages' = messages \cup {m} /\ answers' = answers \cup {m}
        /\ lastSeq' = [lastSeq EXCEPT ![m.conv] = m.seq]
    BY <1>6 DEF SendCommit
  <2>6. Return(r) /\ UNCHANGED <<exists, delivered, read, cursor, history>>
    BY <1>6 DEF SendCommit
  <2>7. lastSeq' \in [Conversations -> Nat]
    BY <2>1, <2>5 DEF TypeOK, Message
  <2>8. outbox' \in Seq(Event)
    BY <2>4, <2>5 DEF TypeOK
  <2> HIDE DEF m, to, rows, e
  <2> QED
    BY <2>1, <2>3, <2>5, <2>6, <2>7, <2>8, ReturnTyped DEF TypeOK, history
<1> QED
  BY <1>2, <1>3, <1>4, <1>5, <1>6 DEF SendNext

LEMMA TypeAck ==
    ASSUME TypeOK, NEW r \in Requests, AckNext(r) PROVE TypeOK'
<1>1. pc[r] \in AckStep => arg[r] \in AckArg
  BY DEF TypeOK
<1>2. CASE DeliverMark(r)
  BY <1>1, <1>2, TypeMove DEF DeliverMark, Return, SendStep, AckStep, TypeOK
<1>3. CASE ReadTarget(r)
  <2>1. arg[r] \in AckArg
    BY <1>1, <1>3 DEF ReadTarget, AckStep
  <2>2. \A m \in messages : [arg[r] EXCEPT !.seq = m.seq] \in AckArg
    BY <2>1 DEF TypeOK, AckArg, Message
  <2>3. answers' \subseteq Message /\ UNCHANGED <<tables, history>>
    BY <1>3 DEF ReadTarget, TypeOK
  <2>4. Return(r) \/ \E m \in messages :
            Goto(r, "readCommit", [arg[r] EXCEPT !.seq = m.seq])
    BY <1>3 DEF ReadTarget, MessagesOf
  <2>5. CASE Return(r)
    BY <2>3, <2>5, TypeMove DEF Return, SendStep, AckStep
  <2>6. CASE \E m \in messages : Goto(r, "readCommit", [arg[r] EXCEPT !.seq = m.seq])
    BY <2>2, <2>3, <2>6, TypeMove DEF SendStep, AckStep
  <2> QED
    BY <2>4, <2>5, <2>6
<1>4. CASE DeliverCommit(r)
  <2>1. arg[r] \in AckArg
    BY <1>1, <1>4 DEF DeliverCommit, AckStep
  <2> DEFINE e == [type |-> "delivered", conv |-> arg[r].conv, seq |-> arg[r].seq,
                   user |-> arg[r].user]
  <2>2. e \in Event
    BY <2>1 DEF Event, AckArg
  <2>3. outbox' \in Seq(Event) /\ delivered' \subseteq Recipient
    BY <1>4, <2>1, <2>2 DEF DeliverCommit, TypeOK, AckArg, Recipient
  <2> QED
    BY <1>4, <2>3, ReturnTyped DEF DeliverCommit, TypeOK, history
<1>5. CASE ReadCommit(r)
  <2>1. arg[r] \in AckArg
    BY <1>1, <1>5 DEF ReadCommit, AckStep
  <2> DEFINE e == [type |-> "read", conv |-> arg[r].conv, seq |-> arg[r].seq,
                   user |-> arg[r].user]
  <2>2. e \in Event
    BY <2>1 DEF Event, AckArg
  <2>3. RowsUpto(arg[r].conv, arg[r].user, arg[r].seq) \subseteq recipients
    BY DEF RowsUpto
  <2>4. cursor' \in [Conversations -> [Users -> Nat]]
    BY <1>5, <2>1 DEF ReadCommit, TypeOK, AckArg
  <2>5. outbox' \in Seq(Event) /\ read' \subseteq Recipient
    BY <1>5, <2>2, <2>3 DEF ReadCommit, TypeOK
  <2> QED
    BY <1>5, <2>4, <2>5, ReturnTyped DEF ReadCommit, TypeOK, history
<1> QED
  BY <1>2, <1>3, <1>4, <1>5 DEF AckNext

LEMMA TypeSync ==
    ASSUME TypeOK, NEW u \in Readers, NEW c \in Conversations, NEW n \in 1..PageLimit,
           SyncAfterSeq(u, c, n) \/ SyncAfterMessage(u, c, n)
    PROVE  TypeOK'
<1>1. \A after \in Nat : Page(c, after, n) \subseteq Nat
  BY DEF Page, MessagesOf, TypeOK, Message
<1>2. synced[c][u] \in Nat
  BY DEF TypeOK
<1>3. PICK page \in SUBSET Nat, ifEmpty \in Nat : Adopt(u, c, page, ifEmpty)
  <2>1. CASE SyncAfterSeq(u, c, n)
    BY <1>1, <1>2, <2>1 DEF SyncAfterSeq
  <2>2. CASE SyncAfterMessage(u, c, n)
    <3>1. PICK m \in MessagesOf(c) : Adopt(u, c, Page(c, m.seq, n), 0)
      BY <2>2 DEF SyncAfterMessage
    <3>2. m.seq \in Nat
      BY DEF MessagesOf, TypeOK, Message
    <3> QED
      BY <1>1, <3>1, <3>2
  <2> QED
    BY <2>1, <2>2
<1>4. PICK last \in page \cup {ifEmpty} :
          /\ synced' = [synced EXCEPT ![c][u] = IF last > @ THEN last ELSE @]
          /\ seen' = [seen EXCEPT ![c][u] = @ \cup page]
  BY <1>3 DEF Adopt
<1>5. seen' \in [Conversations -> [Users -> SUBSET Nat]]
  BY <1>3, <1>4 DEF TypeOK
<1>6. synced' \in [Conversations -> [Users -> Nat]]
  BY <1>3, <1>4 DEF TypeOK
<1>7. UNCHANGED <<tables, answers, pc, arg>>
  BY DEF SyncAfterSeq, SyncAfterMessage
<1> QED
  BY <1>5, <1>6, <1>7 DEF TypeOK, tables

LEMMA TypeBegin ==
    ASSUME TypeOK, NEW r \in Requests,
           \/ \E cmd \in Commands : SendBegin(r, cmd)
           \/ \E row \in recipients : DeliverBegin(r, row)
           \/ \E u \in Ackers, c \in Conversations :
                 \E s \in 0..lastSeq[c] : ReadBegin(r, u, c, s)
    PROVE  TypeOK'
<1>1. ASSUME NEW cmd \in Commands, SendBegin(r, cmd) PROVE TypeOK'
  <2>1. [user |-> cmd.user, conv |-> cmd.conv, cid |-> cmd.cid, seq |-> 0] \in SendArg
    BY DEF SendArg
  <2> QED
    BY <1>1, <2>1, TypeMove DEF SendBegin, Start, SendStep, AckStep, TypeOK
<1>2. ASSUME NEW row \in recipients, DeliverBegin(r, row) PROVE TypeOK'
  <2>1. row \in AckArg
    BY DEF AckArg, Recipient, TypeOK
  <2> QED
    BY <1>2, <2>1, TypeMove DEF DeliverBegin, Start, SendStep, AckStep, TypeOK
<1>3. ASSUME NEW u \in Ackers, NEW c \in Conversations, NEW s \in 0..lastSeq[c],
             ReadBegin(r, u, c, s)
      PROVE  TypeOK'
  <2>1. s \in Nat
    BY DEF TypeOK
  <2>2. [user |-> u, conv |-> c, seq |-> s] \in AckArg
    BY <2>1 DEF AckArg
  <2> QED
    BY <1>3, <2>2, TypeMove DEF ReadBegin, Start, SendStep, AckStep, TypeOK
<1> QED
  BY <1>1, <1>2, <1>3

LEMMA TypeDelete ==
    ASSUME TypeOK, NEW c \in Conversations, DeleteConversation(c) PROVE TypeOK'
BY DEF TypeOK, DeleteConversation

LEMMA TypeAbort ==
    ASSUME TypeOK, NEW r \in Requests, Abort(r) PROVE TypeOK'
BY TypeMove DEF Abort, Return, SendStep, AckStep, TypeOK

LEMMA TypeStep == TypeOK /\ [Next]_vars => TypeOK'
<1> SUFFICES ASSUME TypeOK, [Next]_vars PROVE TypeOK'
  OBVIOUS
<1>1. CASE UNCHANGED vars
  BY <1>1 DEF vars, tables, history, TypeOK
<1>2. CASE Next
  BY <1>2, TypeSend, TypeAck, TypeBegin, TypeSync, TypeDelete, TypeAbort DEF Next
<1> QED
  BY <1>1, <1>2

(* Every variable keeps its type.                                          *)
THEOREM TypeCorrect == Spec => []TypeOK
BY TypeInit, TypeStep, PTL DEF Spec

-----------------------------------------------------------------------------
(* The inductive invariant behind GapFree, AcceptedIsDurable and           *)
(* RetriesAgree: what the conversation lock and the unique keys guarantee  *)
(* to a transaction that is still running.                                 *)

Allocating(r) == pc[r] \in {"insert", "commit"}

OneAllocator ==
    \A r, q \in Requests :
        Allocating(r) /\ Allocating(q) /\ arg[r].conv = arg[q].conv => r = q

AllocatedNext ==
    \A r \in Requests : Allocating(r) =>
        arg[r].conv \in exists /\ arg[r].seq = lastSeq[arg[r].conv] + 1

CommitIsFresh ==
    \A r \in Requests : pc[r] = "commit" =>
        /\ \A m \in messages : ~Conflict(NewMessage(r), m)
        /\ \A q \in Requests :
              q # r /\ pc[q] = "commit" => ~Conflict(NewMessage(r), NewMessage(q))

KeysUnique == \A m, n \in messages : Conflict(m, n) => m = n

MessagesExist == \A m \in messages : m.conv \in exists

SendInv ==
    /\ OneAllocator
    /\ AllocatedNext
    /\ CommitIsFresh
    /\ KeysUnique
    /\ MessagesExist
    /\ GapFree
    /\ AcceptedIsDurable

LEMMA SendInvInit == Init => SendInv
<1> SUFFICES ASSUME Init PROVE SendInv
  OBVIOUS
<1>1. GapFree
  BY DEF Init, GapFree, MessagesOf
<1> QED
  BY <1>1 DEF Init, SendInv, OneAllocator, AllocatedNext, CommitIsFresh, Allocating,
              KeysUnique, MessagesExist, AcceptedIsDurable

(* A request that moves, without holding the conversation's lock after it. *)
LEMMA SendInvMove ==
    ASSUME TypeOK, SendInv, NEW r \in Requests, NEW step, NEW a, Goto(r, step, a),
           step \notin {"insert", "commit"},
           answers' \subseteq answers \cup messages,
           UNCHANGED <<exists, lastSeq, messages>>
    PROVE  SendInv'
<1> USE DEF SendInv
<1>1. \A q \in Requests : Allocating(q)' =>
          q # r /\ Allocating(q) /\ pc'[q] = pc[q] /\ arg'[q] = arg[q]
  BY GotoEffect DEF Allocating
<1>2. OneAllocator'
  BY <1>1 DEF OneAllocator
<1>3. AllocatedNext'
  BY <1>1 DEF AllocatedNext
<1>4. \A q \in Requests : pc'[q] = "commit" =>
          pc[q] = "commit" /\ NewMessage(q)' = NewMessage(q)
  BY <1>1 DEF Allocating, NewMessage
<1>5. CommitIsFresh'
  BY <1>4 DEF CommitIsFresh
<1>6. KeysUnique' /\ MessagesExist' /\ GapFree'
  BY DEF KeysUnique, MessagesExist, GapFree, MessagesOf
<1>7. AcceptedIsDurable'
  BY DEF AcceptedIsDurable
<1> QED
  BY <1>2, <1>3, <1>5, <1>6, <1>7

LEMMA SendInvAllocate ==
    ASSUME TypeOK, SendInv, NEW r \in Requests, SendAllocate(r)
    PROVE  SendInv'
<1> USE DEF SendInv
<1>1. CASE arg[r].conv \notin exists
  BY <1>1, SendInvMove DEF SendAllocate, Return, tables
<1>2. CASE arg[r].conv \in exists
  <2> DEFINE c == arg[r].conv
             a == [arg[r] EXCEPT !.seq = lastSeq[c] + 1]
  <2>1. Goto(r, "insert", a) /\ ~ConversationLocked(c)
    BY <1>2 DEF SendAllocate
  <2>2. arg[r] \in SendArg
    BY DEF SendAllocate, TypeOK, SendStep
  <2>3. a.conv = c /\ a.seq = lastSeq[c] + 1
    BY <2>2 DEF SendArg
  <2>4. pc'[r] = "insert" /\ arg'[r] = a
    BY <2>1, GotoEffect
  <2>5. \A q \in Requests : q # r => pc'[q] = pc[q] /\ arg'[q] = arg[q]
    BY <2>1, GotoEffect
  <2>6. UNCHANGED <<exists, lastSeq, messages, answers>>
    BY DEF SendAllocate, tables
  <2>7. \A q \in Requests : Allocating(q) => arg[q].conv # c
    BY <2>1 DEF ConversationLocked, Allocating
  <2> HIDE DEF a
  <2>8. OneAllocator'
    BY <2>3, <2>4, <2>5, <2>7 DEF OneAllocator, Allocating
  <2>9. AllocatedNext'
    BY <1>2, <2>3, <2>4, <2>5, <2>6 DEF AllocatedNext, Allocating
  <2>10. \A q \in Requests : pc'[q] = "commit" =>
            q # r /\ pc[q] = "commit" /\ NewMessage(q)' = NewMessage(q)
    BY <2>4, <2>5 DEF NewMessage
  <2>11. CommitIsFresh'
    BY <2>6, <2>10 DEF CommitIsFresh
  <2>12. KeysUnique' /\ MessagesExist' /\ GapFree' /\ AcceptedIsDurable'
    BY <2>6 DEF KeysUnique, MessagesExist, GapFree, MessagesOf, AcceptedIsDurable
  <2> QED
    BY <2>8, <2>9, <2>11, <2>12
<1> QED
  BY <1>1, <1>2

LEMMA ConflictSymmetric ==
    ASSUME NEW m, NEW n PROVE Conflict(m, n) <=> Conflict(n, m)
BY DEF Conflict

LEMMA SendInvInsert ==
    ASSUME TypeOK, SendInv, NEW r \in Requests, SendInsert(r)
    PROVE  SendInv'
<1> USE DEF SendInv
<1>1. CASE \E m \in messages : Conflict(NewMessage(r), m)
  BY <1>1, SendInvMove DEF SendInsert, tables
<1>2. CASE ~\E m \in messages : Conflict(NewMessage(r), m)
  <2>1. Goto(r, "commit", arg[r]) /\ pc[r] = "insert"
    BY <1>2 DEF SendInsert
  <2>2. pc'[r] = "commit" /\ arg'[r] = arg[r]
    BY <2>1, GotoEffect
  <2>3. \A q \in Requests : q # r => pc'[q] = pc[q] /\ arg'[q] = arg[q]
    BY <2>1, GotoEffect
  <2>4. UNCHANGED <<exists, lastSeq, messages, answers>>
    BY DEF SendInsert, tables
  <2>5. \A q \in Requests : Allocating(q)' => Allocating(q) /\ arg'[q] = arg[q]
    BY <2>1, <2>2, <2>3 DEF Allocating
  <2>6. OneAllocator' /\ AllocatedNext'
    BY <2>4, <2>5 DEF OneAllocator, AllocatedNext
  <2>7. \A q \in Requests : NewMessage(q)' = NewMessage(q)
    BY <2>2, <2>3 DEF NewMessage
  <2>8. \A q \in Requests : pc[q] = "commit" => ~Conflict(NewMessage(r), NewMessage(q))
    BY DEF SendInsert
  <2>9. \A q \in Requests : pc[q] = "commit" => ~Conflict(NewMessage(q), NewMessage(r))
    BY <2>8, ConflictSymmetric
  <2>10. CommitIsFresh'
    <3> SUFFICES ASSUME NEW q \in Requests, pc'[q] = "commit"
                 PROVE  /\ \A m \in messages : ~Conflict(NewMessage(q), m)
                        /\ \A p \in Requests : p # q /\ pc'[p] = "commit" =>
                              ~Conflict(NewMessage(q), NewMessage(p))
      BY <2>4, <2>7 DEF CommitIsFresh
    <3>1. CASE q = r
      BY <1>2, <2>3, <2>8, <3>1
    <3>2. CASE q # r
      BY <2>3, <2>9, <3>2 DEF CommitIsFresh
    <3> QED
      BY <3>1, <3>2
  <2>11. KeysUnique' /\ MessagesExist' /\ GapFree' /\ AcceptedIsDurable'
    BY <2>4 DEF KeysUnique, MessagesExist, GapFree, MessagesOf, AcceptedIsDurable
  <2> QED
    BY <2>6, <2>10, <2>11
<1> QED
  BY <1>1, <1>2

LEMMA SendInvCommit ==
    ASSUME TypeOK, SendInv, NEW r \in Requests, SendCommit(r)
    PROVE  SendInv'
<1> USE DEF SendInv
<1> DEFINE m == NewMessage(r)
<1>1. arg[r] \in SendArg /\ pc[r] = "commit"
  BY DEF SendCommit, TypeOK, SendStep
<1>2. m \in Message /\ m.conv = arg[r].conv /\ m.seq = arg[r].seq
  BY <1>1 DEF NewMessage, Message, SendArg
<1>3. m.conv \in exists /\ m.seq = lastSeq[m.conv] + 1
  BY <1>1, <1>2 DEF AllocatedNext, Allocating
<1>4. /\ messages' = messages \cup {m}
      /\ answers' = answers \cup {m}
      /\ lastSeq' = [lastSeq EXCEPT ![m.conv] = m.seq]
      /\ exists' = exists
  BY DEF SendCommit
<1>5. \A q \in Requests : Allocating(q)' =>
          q # r /\ Allocating(q) /\ pc'[q] = pc[q] /\ arg'[q] = arg[q]
  BY GotoEffect DEF SendCommit, Return, Allocating
<1>6. \A q \in Requests : q # r /\ Allocating(q) => arg[q].conv # m.conv
  BY <1>1, <1>2 DEF OneAllocator, Allocating
<1>7. \A q \in Requests : pc'[q] = "commit" =>
          q # r /\ pc[q] = "commit" /\ NewMessage(q)' = NewMessage(q)
  BY <1>5 DEF Allocating, NewMessage
<1>8. \A n \in messages : ~Conflict(m, n) /\ ~Conflict(n, m)
  BY <1>1, ConflictSymmetric DEF CommitIsFresh
<1>9. \A q \in Requests : q # r /\ pc[q] = "commit" => ~Conflict(NewMessage(q), m)
  BY <1>1 DEF CommitIsFresh
<1> HIDE DEF m
<1>10. OneAllocator'
  BY <1>5 DEF OneAllocator
<1>11. AllocatedNext'
  <2> SUFFICES ASSUME NEW q \in Requests, Allocating(q)'
               PROVE  (arg[q].conv \in exists /\ arg[q].seq = lastSeq[arg[q].conv] + 1)'
    BY DEF AllocatedNext
  <2>1. arg'[q] = arg[q] /\ arg[q].conv # m.conv /\ arg[q].conv \in exists
        /\ arg[q].seq = lastSeq[arg[q].conv] + 1
    BY <1>5, <1>6 DEF AllocatedNext
  <2>2. lastSeq'[arg[q].conv] = lastSeq[arg[q].conv]
    BY <1>4, <2>1 DEF TypeOK
  <2> QED
    BY <1>4, <2>1, <2>2
<1>12. CommitIsFresh'
  BY <1>4, <1>7, <1>9 DEF CommitIsFresh
<1>13. KeysUnique'
  BY <1>4, <1>8 DEF KeysUnique
<1>14. MessagesExist'
  BY <1>3, <1>4 DEF MessagesExist
<1>15. GapFree'
  <2> SUFFICES ASSUME NEW c \in exists
               PROVE  {n.seq : n \in MessagesOf(c)}' = 1..lastSeq'[c]
    BY <1>4 DEF GapFree
  <2>1. {n.seq : n \in MessagesOf(c)} = 1..lastSeq[c] /\ c \in Conversations
    BY DEF GapFree, TypeOK
  <2>2. CASE c = m.conv
    <3>1. MessagesOf(c)' = MessagesOf(c) \cup {m}
      BY <1>4, <2>2 DEF MessagesOf
    <3>2. {n.seq : n \in MessagesOf(c)}' = {n.seq : n \in MessagesOf(c)} \cup {m.seq}
      BY <3>1
    <3>3. lastSeq'[c] = lastSeq[c] + 1 /\ lastSeq[c] \in Nat /\ m.seq = lastSeq[c] + 1
      BY <1>3, <1>4, <2>1, <2>2 DEF TypeOK
    <3>4. 1..lastSeq'[c] = (1..lastSeq[c]) \cup {lastSeq[c] + 1}
      BY <3>3
    <3> QED
      BY <2>1, <3>2, <3>3, <3>4
  <2>3. CASE c # m.conv
    <3>1. MessagesOf(c)' = MessagesOf(c)
      BY <1>4, <2>3 DEF MessagesOf
    <3>2. lastSeq'[c] = lastSeq[c]
      BY <1>4, <2>1, <2>3 DEF TypeOK
    <3> QED
      BY <2>1, <3>1, <3>2
  <2> QED
    BY <2>2, <2>3
<1>16. AcceptedIsDurable'
  BY <1>4 DEF AcceptedIsDurable
<1> QED
  BY <1>10, <1>11, <1>12, <1>13, <1>14, <1>15, <1>16

LEMMA SendInvDelete ==
    ASSUME TypeOK, SendInv, NEW c \in Conversations, DeleteConversation(c)
    PROVE  SendInv'
<1> USE DEF SendInv
<1>1. /\ exists' = exists \ {c}
      /\ messages' = {m \in messages : m.conv # c}
      /\ \A d \in Conversations : d # c => lastSeq'[d] = lastSeq[d]
      /\ UNCHANGED <<answers, pc, arg>>
  BY DEF DeleteConversation, TypeOK
<1>2. \A q \in Requests : Allocating(q) => arg[q].conv # c
  BY DEF DeleteConversation, ConversationLocked, Allocating
<1>3. \A q \in Requests : Allocating(q)' <=> Allocating(q)
  BY <1>1 DEF Allocating
<1>4. \A q \in Requests : NewMessage(q)' = NewMessage(q)
  BY <1>1 DEF NewMessage
<1>5. OneAllocator'
  BY <1>1, <1>3 DEF OneAllocator
<1>6. AllocatedNext'
  <2> SUFFICES ASSUME NEW q \in Requests, Allocating(q)
               PROVE  arg[q].conv \in exists' /\ arg[q].seq = lastSeq'[arg[q].conv] + 1
    BY <1>1, <1>3 DEF AllocatedNext
  <2>1. arg[q].conv \in exists /\ arg[q].conv \in Conversations /\ arg[q].conv # c
    BY <1>2 DEF AllocatedNext, TypeOK
  <2> QED
    BY <1>1, <2>1 DEF AllocatedNext
<1>7. CommitIsFresh'
  BY <1>1, <1>4 DEF CommitIsFresh
<1>8. KeysUnique' /\ MessagesExist' /\ AcceptedIsDurable'
  BY <1>1 DEF KeysUnique, MessagesExist, AcceptedIsDurable
<1>9. GapFree'
  <2> SUFFICES ASSUME NEW d \in exists, d # c
               PROVE  {n.seq : n \in MessagesOf(d)}' = 1..lastSeq'[d]
    BY <1>1 DEF GapFree
  <2>1. MessagesOf(d)' = MessagesOf(d)
    BY <1>1 DEF MessagesOf
  <2>2. lastSeq'[d] = lastSeq[d]
    BY <1>1 DEF TypeOK
  <2> QED
    BY <2>1, <2>2 DEF GapFree
<1> QED
  BY <1>5, <1>6, <1>7, <1>8, <1>9

LEMMA SendInvStep == TypeOK /\ SendInv /\ [Next]_vars => SendInv'
<1> SUFFICES ASSUME TypeOK, SendInv, [Next]_vars PROVE SendInv'
  OBVIOUS
<1>1. ASSUME UNCHANGED <<exists, lastSeq, messages, answers, pc, arg>> PROVE SendInv'
  <2>1. /\ \A q \in Requests : Allocating(q)' <=> Allocating(q)
        /\ \A q \in Requests : NewMessage(q)' = NewMessage(q)
    BY <1>1 DEF Allocating, NewMessage
  <2>2. OneAllocator' /\ AllocatedNext' /\ CommitIsFresh'
    BY <1>1, <2>1 DEF SendInv, OneAllocator, AllocatedNext, CommitIsFresh
  <2>3. KeysUnique' /\ MessagesExist' /\ GapFree' /\ AcceptedIsDurable'
    BY <1>1 DEF SendInv, KeysUnique, MessagesExist, GapFree, MessagesOf, AcceptedIsDurable
  <2> QED
    BY <2>2, <2>3 DEF SendInv
<1>2. ASSUME NEW r \in Requests, SendNext(r) PROVE SendInv'
  <2>1. CASE SendLookup(r)
    BY <2>1, SendInvMove DEF SendLookup, AnswerDuplicate, SentAs, Return, tables
  <2>2. CASE SendRelookup(r)
    BY <2>2, SendInvMove DEF SendRelookup, AnswerDuplicate, SentAs, Return, tables
  <2> QED
    BY <1>2, <2>1, <2>2, SendInvAllocate, SendInvInsert, SendInvCommit DEF SendNext
<1>3. ASSUME NEW r \in Requests, AckNext(r) PROVE SendInv'
  <2>1. CASE DeliverMark(r)
    BY <2>1, SendInvMove DEF DeliverMark, Return, tables
  <2>2. CASE DeliverCommit(r)
    BY <2>2, SendInvMove DEF DeliverCommit, Return
  <2>3. CASE ReadTarget(r)
    <3>1. Return(r) \/ \E s : Goto(r, "readCommit", [arg[r] EXCEPT !.seq = s])
      BY <2>3 DEF ReadTarget
    <3>2. UNCHANGED <<exists, lastSeq, messages, answers>>
      BY <2>3 DEF ReadTarget, tables
    <3>3. CASE Return(r)
      BY <3>2, <3>3, SendInvMove DEF Return
    <3>4. ASSUME NEW s, Goto(r, "readCommit", [arg[r] EXCEPT !.seq = s]) PROVE SendInv'
      BY <3>2, <3>4, SendInvMove
    <3> QED
      BY <3>1, <3>3, <3>4
  <2>4. CASE ReadCommit(r)
    BY <2>4, SendInvMove DEF ReadCommit, Return
  <2> QED
    BY <1>3, <2>1, <2>2, <2>3, <2>4 DEF AckNext
<1>4. ASSUME NEW r \in Requests, Abort(r) PROVE SendInv'
  BY <1>4, SendInvMove DEF Abort, Return, tables
<1>5. ASSUME NEW r \in Requests, NEW cmd \in Commands, SendBegin(r, cmd) PROVE SendInv'
  BY <1>5, SendInvMove DEF SendBegin, Start, tables
<1>6. ASSUME NEW r \in Requests, NEW row \in recipients, DeliverBegin(r, row)
      PROVE  SendInv'
  BY <1>6, SendInvMove DEF DeliverBegin, Start, tables
<1>7. ASSUME NEW r \in Requests, NEW u \in Ackers, NEW c \in Conversations,
             NEW s \in 0..lastSeq[c], ReadBegin(r, u, c, s)
      PROVE  SendInv'
  BY <1>7, SendInvMove DEF ReadBegin, Start, tables
<1>8. ASSUME NEW u \in Readers, NEW c \in Conversations, NEW n \in 1..PageLimit,
             SyncAfterSeq(u, c, n) \/ SyncAfterMessage(u, c, n)
      PROVE  SendInv'
  BY <1>1, <1>8 DEF SyncAfterSeq, SyncAfterMessage, tables
<1>9. CASE UNCHANGED vars
  BY <1>1, <1>9 DEF vars, tables
<1> QED
  BY <1>2, <1>3, <1>4, <1>5, <1>6, <1>7, <1>8, <1>9, SendInvDelete DEF Next

LEMMA SendInvariant == Spec => []SendInv
<1>1. Init => SendInv
  BY SendInvInit
<1>2. TypeOK /\ SendInv /\ [Next]_vars => SendInv'
  BY SendInvStep
<1> QED
  BY <1>1, <1>2, TypeCorrect, PTL DEF Spec

(* allocate_server_seq under the conversation lock numbers the messages    *)
(* of a conversation without gaps, however many requests run and abort.    *)
THEOREM NumberedWithoutGaps == Spec => []GapFree
BY SendInvariant, PTL DEF SendInv

(* What send_message returned stays stored while its conversation exists.  *)
THEOREM AcceptedStaysStored == Spec => []AcceptedIsDurable
BY SendInvariant, PTL DEF SendInv

(* The unique key on (sender, client_msg_id) makes every retry of a send   *)
(* return the same message.                                                *)
THEOREM RetriesGetOneMessage == Spec => []RetriesAgree
<1>1. SendInv => RetriesAgree
  BY DEF SendInv, AcceptedIsDurable, KeysUnique, Conflict, RetriesAgree
<1> QED
  BY <1>1, SendInvariant, PTL

-----------------------------------------------------------------------------
(* Paging.  The seqs of a conversation have no gaps, so a page is an       *)
(* interval that starts right after its anchor.                            *)
ReaderHasAll(c, u) ==
    synced[c][u] <= lastSeq[c] /\ seen[c][u] = 1..synced[c][u]

SyncInv ==
    /\ IsFiniteSet(messages)
    /\ \A c \in exists : \A u \in MembersOf[c] : ReaderHasAll(c, u)

LEMMA PageIsInterval ==
    ASSUME TypeOK, IsFiniteSet(messages), NEW c \in exists, GapFree,
           NEW after \in Nat, NEW n \in Nat, NEW s \in Page(c, after, n),
           NEW t \in Nat, after < t, t <= s
    PROVE  t \in Page(c, after, n)
<1>. DEFINE Between(x) == {m \in MessagesOf(c) : after < m.seq /\ m.seq < x}
<1>1. {m.seq : m \in MessagesOf(c)} = 1..lastSeq[c]
  BY DEF GapFree
<1>2. lastSeq[c] \in Nat /\ MessagesOf(c) \subseteq messages /\ messages \subseteq Message
  BY DEF TypeOK, MessagesOf
<1>3. s \in 1..lastSeq[c] /\ Cardinality(Between(s)) < n
  BY <1>1 DEF Page
<1>4. t \in 1..lastSeq[c]
  BY <1>2, <1>3
<1>5. IsFiniteSet(Between(s))
  BY <1>2, FS_Subset
<1>6. Between(t) \subseteq Between(s)
  BY <1>2, <1>3 DEF Message
<1>7. IsFiniteSet(Between(t)) /\ Cardinality(Between(t)) <= Cardinality(Between(s))
  BY <1>5, <1>6, FS_Subset
<1>8. Cardinality(Between(t)) \in Nat /\ Cardinality(Between(s)) \in Nat
  BY <1>5, <1>7, FS_CardinalityType
<1>9. Cardinality(Between(t)) < n
  BY <1>3, <1>7, <1>8
<1>. QED  BY <1>1, <1>4, <1>9 DEF Page

LEMMA PageOfSeqs ==
    ASSUME TypeOK, NEW c \in exists, GapFree, NEW after \in Nat, NEW n
    PROVE  \A s \in Page(c, after, n) : s \in 1..lastSeq[c] /\ after < s
BY DEF Page, GapFree

LEMMA SyncStep ==
    ASSUME TypeOK, SyncInv, GapFree, NEW u \in Readers, NEW c \in Conversations,
           NEW n \in 1..PageLimit, SyncAfterSeq(u, c, n) \/ SyncAfterMessage(u, c, n)
    PROVE  SyncInv'
<1>. DEFINE a == synced[c][u]
            page == Page(c, a, n)
<1>1. /\ c \in exists /\ u \in MembersOf[c] /\ u \in Users /\ a \in Nat /\ n \in Nat
      /\ lastSeq[c] \in Nat
  BY DEF SyncAfterSeq, SyncAfterMessage, TypeOK
<1>2. UNCHANGED <<exists, lastSeq, messages>>
  BY DEF SyncAfterSeq, SyncAfterMessage, tables
<1>3. PICK ifEmpty \in {a, 0} : Adopt(u, c, page, ifEmpty)
  BY DEF SyncAfterSeq, SyncAfterMessage
<1>4. PICK last \in page \cup {ifEmpty} :
          /\ page # {} => last \in page /\ \A s \in page : s <= last
          /\ synced' = [synced EXCEPT ![c][u] = IF last > @ THEN last ELSE @]
          /\ seen' = [seen EXCEPT ![c][u] = @ \cup page]
  BY <1>3 DEF Adopt
<1>5. \A s \in page : s \in 1..lastSeq[c] /\ a < s
  BY <1>1, PageOfSeqs
<1>6. a <= lastSeq[c] /\ seen[c][u] = 1..a
  BY <1>1 DEF SyncInv, ReaderHasAll
<1>7. seen'[c][u] = (1..a) \cup page /\ synced'[c][u] = IF last > a THEN last ELSE a
  BY <1>1, <1>4, <1>6 DEF TypeOK
<1>8. CASE page = {}
  <2>1. synced'[c][u] = a /\ seen'[c][u] = 1..a
    BY <1>1, <1>4, <1>7, <1>8
  <2>2. ReaderHasAll(c, u)'
    BY <1>2, <1>6, <2>1 DEF ReaderHasAll
  <2>. QED  BY <1>1, <1>2, <1>4, <2>2 DEF SyncInv, ReaderHasAll, TypeOK
<1>9. CASE page # {}
  <2>1. last \in page /\ last \in 1..lastSeq[c] /\ a < last /\ \A s \in page : s <= last
    BY <1>4, <1>5, <1>9
  <2>2. \A t \in Nat : a < t /\ t <= last => t \in page
    BY <1>1, <2>1, PageIsInterval DEF SyncInv
  <2>3. (1..a) \cup page = 1..last
    BY <1>1, <1>5, <2>1, <2>2
  <2>4. ReaderHasAll(c, u)'
    BY <1>1, <1>2, <1>7, <2>1, <2>3 DEF ReaderHasAll
  <2>. QED  BY <1>1, <1>2, <1>4, <2>4 DEF SyncInv, ReaderHasAll, TypeOK
<1>. QED  BY <1>8, <1>9

LEMMA SyncInvStep == TypeOK /\ SendInv /\ SyncInv /\ [Next]_vars => SyncInv'
<1>. SUFFICES ASSUME TypeOK, SendInv, SyncInv, [Next]_vars PROVE SyncInv'
  OBVIOUS
<1>1. ASSUME UNCHANGED <<exists, lastSeq, messages, synced, seen>> PROVE SyncInv'
  BY <1>1 DEF SyncInv, ReaderHasAll
<1>2. ASSUME NEW r \in Requests, SendCommit(r) PROVE SyncInv'
  <2>1. arg[r].conv \in exists /\ arg[r].conv \in Conversations
        /\ arg[r].seq = lastSeq[arg[r].conv] + 1
    BY <1>2 DEF SendInv, AllocatedNext, Allocating, SendCommit, TypeOK
  <2>2. /\ UNCHANGED <<exists, synced, seen>>
        /\ lastSeq' = [lastSeq EXCEPT ![arg[r].conv] = lastSeq[arg[r].conv] + 1]
        /\ messages' = messages \cup {NewMessage(r)}
    BY <1>2, <2>1 DEF SendCommit, NewMessage, history
  <2>3. \A c \in Conversations : lastSeq'[c] >= lastSeq[c] /\ lastSeq[c] \in Nat /\ lastSeq'[c] \in Nat
    BY <2>2 DEF TypeOK
  <2>4. IsFiniteSet(messages')
    BY <2>2, FS_AddElement DEF SyncInv
  <2>5. \A c \in Conversations, u \in Users : synced[c][u] \in Nat
    BY DEF TypeOK
  <2>6. ASSUME NEW c \in exists', NEW u \in MembersOf[c] PROVE ReaderHasAll(c, u)'
    <3>1. c \in exists /\ c \in Conversations /\ u \in Users /\ ReaderHasAll(c, u)
      BY <2>2, <2>6 DEF SyncInv, TypeOK
    <3>. QED  BY <2>2, <2>3, <2>5, <3>1 DEF ReaderHasAll
  <2>. QED  BY <2>4, <2>6 DEF SyncInv
<1>3. ASSUME NEW c \in Conversations, DeleteConversation(c) PROVE SyncInv'
  <2>1. /\ exists' = exists \ {c} /\ messages' \subseteq messages
        /\ \A d \in Conversations : d # c =>
              lastSeq'[d] = lastSeq[d] /\ synced'[d] = synced[d] /\ seen'[d] = seen[d]
    BY <1>3 DEF DeleteConversation, TypeOK
  <2>2. IsFiniteSet(messages')
    BY <2>1, FS_Subset DEF SyncInv
  <2>. QED  BY <2>1, <2>2 DEF SyncInv, ReaderHasAll, TypeOK
<1>4. ASSUME NEW u \in Readers, NEW c \in Conversations, NEW n \in 1..PageLimit,
             SyncAfterSeq(u, c, n) \/ SyncAfterMessage(u, c, n)
      PROVE  SyncInv'
  BY <1>4, SyncStep DEF SendInv
<1>5. ASSUME NEW r \in Requests, SendNext(r) \/ AckNext(r) \/ Abort(r) PROVE SyncInv'
  BY <1>1, <1>2, <1>5 DEF SendNext, SendLookup, SendAllocate, SendInsert, SendRelookup,
     AckNext, DeliverMark, DeliverCommit, ReadTarget, ReadCommit, Abort, tables, history
<1>6. ASSUME NEW r \in Requests,
             \/ \E cmd \in Commands : SendBegin(r, cmd)
             \/ \E row \in recipients : DeliverBegin(r, row)
             \/ \E u \in Ackers, c \in Conversations :
                   \E s \in 0..lastSeq[c] : ReadBegin(r, u, c, s)
      PROVE  SyncInv'
  BY <1>1, <1>6 DEF SendBegin, DeliverBegin, ReadBegin, tables, history
<1>7. CASE UNCHANGED vars
  BY <1>1, <1>7 DEF vars, tables, history
<1>8. CASE Next
  BY <1>8, <1>3, <1>4, <1>5, <1>6 DEF Next
<1>. QED  BY <1>7, <1>8

(* build_sync_response pages without holes: a reader was sent every        *)
(* message up to the point it has reached.                                 *)
THEOREM ReadersMissNothing == Spec => []SyncHasNoHoles
<1>1. Init => SyncInv
  <2>. SUFFICES ASSUME Init PROVE SyncInv
    OBVIOUS
  <2>1. IsFiniteSet(messages)
    BY FS_EmptySet DEF Init
  <2>. QED  BY <2>1 DEF Init, SyncInv, ReaderHasAll
<1>2. SyncInv => SyncHasNoHoles
  BY DEF SyncInv, SyncHasNoHoles, ReaderHasAll
<1>. QED  BY <1>1, <1>2, SyncInvStep, TypeCorrect, SendInvariant, PTL DEF Spec

-----------------------------------------------------------------------------
(* Read acknowledgements.  The lock on the member's row makes the target   *)
(* still be ahead of the cursor when it is committed, and a message sent   *)
(* meanwhile gets a seq beyond every cursor.                               *)
Reading(r) == pc[r] \in {"readTarget", "readCommit"}

OneReader ==
    \A r, q \in Requests :
        /\ Reading(r) /\ Reading(q)
        /\ arg[r].conv = arg[q].conv /\ arg[r].user = arg[q].user
        => r = q

ReadingExists == \A r \in Requests : Reading(r) => arg[r].conv \in exists

TargetAhead ==
    \A r \in Requests : pc[r] = "readCommit" =>
        /\ cursor[arg[r].conv][arg[r].user] < arg[r].seq
        /\ arg[r].seq <= lastSeq[arg[r].conv]

ReadLocks == OneReader /\ ReadingExists /\ TargetAhead

CursorBounded == \A c \in exists, u \in Users : cursor[c][u] <= lastSeq[c]

RowsBounded == \A row \in recipients : row.conv \in exists /\ row.seq <= lastSeq[row.conv]

ReadEventsBounded ==
    \A i \in DOMAIN outbox :
        outbox[i].type = "read" /\ outbox[i].conv \in exists
        => outbox[i].seq <= cursor[outbox[i].conv][outbox[i].user]

ReadTables ==
    /\ CursorBounded /\ RowsBounded /\ ReadUptoCursor
    /\ ReadEventsBounded /\ ReadEventsAscend

LEMMA OutboxAppend ==
    ASSUME TypeOK, NEW event, outbox' = Append(outbox, event)
    PROVE  \E n \in Nat :
              /\ DOMAIN outbox = 1..n /\ DOMAIN outbox' = 1..(n + 1)
              /\ \A i \in 1..n : outbox'[i] = outbox[i]
              /\ outbox'[n + 1] = event
<1>1. outbox \in Seq(Event)
  BY DEF TypeOK
<1>. DEFINE n == Len(outbox)
<1>2. /\ n \in Nat /\ DOMAIN outbox = 1..n /\ DOMAIN outbox' = 1..(n + 1)
      /\ \A i \in 1..n : outbox'[i] = outbox[i]
      /\ outbox'[n + 1] = event
  BY <1>1
<1>. QED  BY <1>2

(* A request that leaves its member's row alone, or lets go of it.         *)
LEMMA LocksLeave ==
    ASSUME TypeOK, ReadLocks, NEW r \in Requests, NEW step, NEW a, Goto(r, step, a),
           step \notin {"readTarget", "readCommit"}, UNCHANGED <<exists, lastSeq>>,
           \A q \in Requests \ {r} : Reading(q) =>
              cursor'[arg[q].conv][arg[q].user] = cursor[arg[q].conv][arg[q].user]
    PROVE  ReadLocks'
<1>1. /\ ~Reading(r)'
      /\ \A q \in Requests : q # r => pc'[q] = pc[q] /\ arg'[q] = arg[q]
  BY GotoEffect DEF Reading
<1>2. \A q \in Requests : Reading(q)' => q # r /\ Reading(q) /\ arg'[q] = arg[q]
  BY <1>1 DEF Reading
<1>3. OneReader'
  BY <1>2 DEF ReadLocks, OneReader
<1>4. ReadingExists'
  BY <1>2 DEF ReadLocks, ReadingExists
<1>5. TargetAhead'
  BY <1>1, <1>2 DEF ReadLocks, TargetAhead, Reading
<1>. QED  BY <1>3, <1>4, <1>5 DEF ReadLocks

LEMMA TablesStay ==
    ASSUME TypeOK, ReadTables, UNCHANGED <<exists, lastSeq, recipients, read, cursor>>,
           \/ outbox' = outbox
           \/ \E event : outbox' = Append(outbox, event) /\ event.type # "read"
    PROVE  ReadTables'
<1>1. CursorBounded' /\ RowsBounded' /\ ReadUptoCursor'
  BY DEF ReadTables, CursorBounded, RowsBounded, ReadUptoCursor
<1>2. CASE outbox' = outbox
  BY <1>1, <1>2 DEF ReadTables, ReadEventsBounded, ReadEventsAscend
<1>3. ASSUME NEW event, outbox' = Append(outbox, event), event.type # "read"
      PROVE  ReadEventsBounded' /\ ReadEventsAscend'
  <2>1. PICK n \in Nat : /\ DOMAIN outbox = 1..n /\ DOMAIN outbox' = 1..(n + 1)
                         /\ \A i \in 1..n : outbox'[i] = outbox[i]
                         /\ outbox'[n + 1] = event
    BY <1>3, OutboxAppend
  <2>2. \A i \in DOMAIN outbox' : outbox'[i].type = "read" =>
           i \in DOMAIN outbox /\ outbox'[i] = outbox[i]
    BY <1>3, <2>1
  <2>3. ReadEventsBounded'
    BY <2>2 DEF ReadTables, ReadEventsBounded
  <2>4. ReadEventsAscend'
    BY <2>2 DEF ReadTables, ReadEventsAscend
  <2>. QED  BY <2>3, <2>4
<1>. QED  BY <1>1, <1>2, <1>3 DEF ReadTables

LEMMA ReadBeginStep ==
    ASSUME TypeOK, ReadLocks, ReadTables, NEW r \in Requests, NEW u \in Ackers,
           NEW c \in Conversations, NEW s \in 0..lastSeq[c], ReadBegin(r, u, c, s)
    PROVE  ReadLocks' /\ ReadTables'
<1>1. /\ pc'[r] = "readTarget" /\ arg'[r] = [user |-> u, conv |-> c, seq |-> s]
      /\ \A q \in Requests : q # r => pc'[q] = pc[q] /\ arg'[q] = arg[q]
      /\ UNCHANGED <<tables, history>>
      /\ c \in exists /\ ~MemberLocked(c, u)
  BY GotoEffect DEF ReadBegin, Start
<1>2. \A q \in Requests : Reading(q)' /\ q # r => Reading(q)
  BY <1>1 DEF Reading
<1>3. \A q \in Requests : Reading(q) => ~(arg[q].conv = c /\ arg[q].user = u)
  BY <1>1 DEF Reading, MemberLocked
<1>4. OneReader'
  BY <1>1, <1>2, <1>3 DEF ReadLocks, OneReader
<1>5. ReadingExists' /\ TargetAhead'
  BY <1>1, <1>2 DEF ReadLocks, ReadingExists, TargetAhead, tables
<1>6. ReadTables'
  BY <1>1, TablesStay DEF tables
<1>. QED  BY <1>4, <1>5, <1>6 DEF ReadLocks

LEMMA ReadTargetStep ==
    ASSUME TypeOK, ReadLocks, ReadTables, GapFree, NEW r \in Requests, ReadTarget(r)
    PROVE  ReadLocks' /\ ReadTables'
<1>1. UNCHANGED <<tables, history>> /\ ReadTables'
  BY TablesStay DEF ReadTarget, tables
<1>. DEFINE upto == {m.seq : m \in {n \in MessagesOf(arg[r].conv) : n.seq <= arg[r].seq}}
<1>2. CASE Return(r)
  BY <1>1, <1>2, LocksLeave DEF Return, tables
<1>3. CASE ~Return(r)
  <2>1. PICK s \in upto : /\ \A t \in upto : t <= s
                          /\ Goto(r, "readCommit", [arg[r] EXCEPT !.seq = s])
    BY <1>3 DEF ReadTarget
  <2>2. PICK t \in upto : t > cursor[arg[r].conv][arg[r].user]
    BY <1>3 DEF ReadTarget
  <2>3. arg[r] \in AckArg /\ arg[r].conv \in exists /\ Reading(r)
    BY DEF ReadTarget, TypeOK, AckStep, ReadLocks, ReadingExists, Reading
  <2>4. upto \subseteq 1..lastSeq[arg[r].conv]
    BY <2>3 DEF GapFree
  <2>5. cursor[arg[r].conv][arg[r].user] \in Nat /\ lastSeq[arg[r].conv] \in Nat
    BY <2>3 DEF TypeOK, AckArg
  <2>6. cursor[arg[r].conv][arg[r].user] < s /\ s <= lastSeq[arg[r].conv]
    BY <2>1, <2>2, <2>4, <2>5
  <2>7. /\ pc'[r] = "readCommit" /\ arg'[r] = [arg[r] EXCEPT !.seq = s]
        /\ \A q \in Requests : q # r => pc'[q] = pc[q] /\ arg'[q] = arg[q]
    BY <2>1, GotoEffect
  <2>8. arg'[r].conv = arg[r].conv /\ arg'[r].user = arg[r].user /\ arg'[r].seq = s
    BY <2>3, <2>7 DEF AckArg
  <2>9. \A q \in Requests : Reading(q)' =>
           Reading(q) /\ arg'[q].conv = arg[q].conv /\ arg'[q].user = arg[q].user
    BY <2>3, <2>7, <2>8 DEF Reading
  <2>10. OneReader' /\ ReadingExists'
    BY <1>1, <2>9 DEF ReadLocks, OneReader, ReadingExists, tables
  <2>11. TargetAhead'
    BY <1>1, <2>6, <2>7, <2>8 DEF ReadLocks, TargetAhead, tables
  <2>. QED  BY <1>1, <2>10, <2>11 DEF ReadLocks
<1>. QED  BY <1>2, <1>3

LEMMA ReadCommitStep ==
    ASSUME TypeOK, ReadLocks, ReadTables, NEW r \in Requests, ReadCommit(r)
    PROVE  ReadLocks' /\ ReadTables'
<1>. DEFINE c == arg[r].conv
            u == arg[r].user
            s == arg[r].seq
            event == [type |-> "read", conv |-> c, seq |-> s, user |-> u]
<1>1. /\ pc[r] = "readCommit" /\ Reading(r) /\ c \in exists /\ c \in Conversations
      /\ u \in Users /\ s \in Nat
  BY DEF ReadCommit, TypeOK, AckStep, AckArg, Reading, ReadLocks, ReadingExists
<1>2. cursor[c][u] < s /\ s <= lastSeq[c] /\ cursor[c][u] \in Nat
  BY <1>1 DEF ReadLocks, TargetAhead, TypeOK
<1>3. /\ cursor' = [cursor EXCEPT ![c][u] = s]
      /\ read' = read \cup RowsUpto(c, u, s)
      /\ outbox' = Append(outbox, event)
      /\ Return(r)
      /\ UNCHANGED <<exists, lastSeq, recipients>>
  BY DEF ReadCommit
<1>4. /\ cursor'[c][u] = s
      /\ \A d \in Conversations, v \in Users :
            ~(d = c /\ v = u) => cursor'[d][v] = cursor[d][v]
  BY <1>1, <1>3 DEF TypeOK
<1>5. ReadLocks'
  <2>1. \A q \in Requests \ {r} : Reading(q) =>
           /\ arg[q].conv \in Conversations /\ arg[q].user \in Users
           /\ ~(arg[q].conv = c /\ arg[q].user = u)
    BY <1>1 DEF ReadLocks, OneReader, Reading, TypeOK, AckStep, AckArg
  <2>. QED  BY <1>3, <1>4, <2>1, LocksLeave DEF Return
<1>6. CursorBounded' /\ RowsBounded'
  BY <1>2, <1>3, <1>4 DEF ReadTables, CursorBounded, RowsBounded, TypeOK
<1>7. ReadUptoCursor'
  <2>1. read = {row \in recipients : row.seq <= cursor[row.conv][row.user]}
    BY DEF ReadTables, ReadUptoCursor
  <2>2. ASSUME NEW row \in recipients
        PROVE  row \in read' <=> row.seq <= cursor'[row.conv][row.user]
    <3>1. row.conv \in Conversations /\ row.user \in Users /\ row.seq \in Nat
      BY DEF TypeOK, Recipient
    <3>2. CASE row.conv = c /\ row.user = u
      <4>1. row \in RowsUpto(c, u, s) <=> row.seq <= s
        BY <3>2 DEF RowsUpto
      <4>2. row \in read <=> row.seq <= cursor[c][u]
        BY <2>1, <3>2
      <4>3. cursor'[row.conv][row.user] = s
        BY <1>4, <3>2
      <4>4. row.seq <= cursor[c][u] => row.seq <= s
        BY <1>1, <1>2, <3>1
      <4>. QED  BY <1>3, <4>1, <4>2, <4>3, <4>4
    <3>3. CASE ~(row.conv = c /\ row.user = u)
      BY <1>3, <1>4, <2>1, <3>1, <3>3 DEF RowsUpto
    <3>. QED  BY <3>2, <3>3
  <2>3. read' \subseteq recipients
    BY <1>3, <2>1 DEF RowsUpto
  <2>. QED  BY <1>3, <2>2, <2>3 DEF ReadUptoCursor
<1>8. PICK n \in Nat : /\ DOMAIN outbox = 1..n /\ DOMAIN outbox' = 1..(n + 1)
                       /\ \A i \in 1..n : outbox'[i] = outbox[i]
                       /\ outbox'[n + 1] = event
  BY <1>3, OutboxAppend
<1>9. \A i \in 1..n : outbox[i].type = "read" =>
         /\ outbox[i].conv \in Conversations /\ outbox[i].user \in Users
         /\ outbox[i].seq \in Nat
  <2>1. \A i \in 1..n : outbox[i] \in Event
    BY <1>8 DEF TypeOK
  <2>. QED  BY <2>1 DEF Event
<1>10. \A i \in 1..n : outbox[i].type = "read" /\ outbox[i].conv = c /\ outbox[i].user = u
          => outbox[i].seq < s
  BY <1>1, <1>2, <1>8, <1>9 DEF ReadTables, ReadEventsBounded
<1>11. ReadEventsBounded'
  <2>. SUFFICES ASSUME NEW i \in DOMAIN outbox', outbox'[i].type = "read", outbox'[i].conv \in exists
                PROVE  outbox'[i].seq <= cursor'[outbox'[i].conv][outbox'[i].user]
    BY <1>3 DEF ReadEventsBounded
  <2>1. CASE i = n + 1
    <3>1. outbox'[i].conv = c /\ outbox'[i].user = u /\ outbox'[i].seq = s
      BY <1>8, <2>1
    <3>. QED  BY <1>1, <1>4, <3>1
  <2>2. CASE i \in 1..n
    <3>1. outbox'[i] = outbox[i] /\ outbox[i].seq <= cursor[outbox[i].conv][outbox[i].user]
      BY <1>8, <2>2 DEF ReadTables, ReadEventsBounded
    <3>2. CASE outbox[i].conv = c /\ outbox[i].user = u
      BY <1>1, <1>4, <1>9, <1>10, <2>2, <3>1, <3>2
    <3>3. CASE ~(outbox[i].conv = c /\ outbox[i].user = u)
      BY <1>4, <1>9, <2>2, <3>1, <3>3
    <3>. QED  BY <3>2, <3>3
  <2>. QED  BY <1>8, <2>1, <2>2
<1>12. ReadEventsAscend'
  <2>. SUFFICES ASSUME NEW i \in DOMAIN outbox', NEW j \in DOMAIN outbox', i < j,
                       outbox'[i].type = "read", outbox'[j].type = "read",
                       outbox'[i].conv = outbox'[j].conv, outbox'[i].user = outbox'[j].user
                PROVE  outbox'[i].seq < outbox'[j].seq
    BY DEF ReadEventsAscend
  <2>1. i \in 1..n /\ outbox'[i] = outbox[i]
    BY <1>8
  <2>2. CASE j \in 1..n
    BY <1>8, <2>1, <2>2 DEF ReadTables, ReadEventsAscend
  <2>3. CASE j = n + 1
    BY <1>8, <1>10, <2>1, <2>3
  <2>. QED  BY <1>8, <2>2, <2>3
<1>. QED  BY <1>5, <1>6, <1>7, <1>11, <1>12 DEF ReadTables

(* A message's commit: its seq is beyond every cursor.                     *)
LEMMA ReadsKeptBySend ==
    ASSUME TypeOK, SendInv, ReadLocks, ReadTables, NEW r \in Requests, SendCommit(r)
    PROVE  ReadLocks' /\ ReadTables'
<1>. DEFINE c == arg[r].conv
            to == MembersOf[c] \ {arg[r].user}
            rows == {[conv |-> c, seq |-> arg[r].seq, user |-> u] : u \in to}
<1>1. /\ c \in exists /\ c \in Conversations /\ lastSeq[c] \in Nat
      /\ arg[r].seq = lastSeq[c] + 1
  BY DEF SendInv, AllocatedNext, Allocating, SendCommit, TypeOK
<1>2. /\ lastSeq' = [lastSeq EXCEPT ![c] = lastSeq[c] + 1]
      /\ recipients' = recipients \cup rows
      /\ outbox' = Append(outbox, [type |-> "created", conv |-> c, seq |-> arg[r].seq, to |-> to])
      /\ Return(r)
      /\ UNCHANGED <<exists, read, cursor>>
  BY <1>1 DEF SendCommit, NewMessage
<1>3. \A d \in Conversations :
         lastSeq[d] \in Nat /\ lastSeq'[d] \in Nat /\ lastSeq[d] <= lastSeq'[d]
  BY <1>1, <1>2 DEF TypeOK
<1>4. ReadLocks'
  <2>1. /\ ~Reading(r)'
        /\ \A q \in Requests : q # r => pc'[q] = pc[q] /\ arg'[q] = arg[q]
    BY <1>2, GotoEffect DEF Return, Reading
  <2>2. \A q \in Requests : Reading(q)' => q # r /\ Reading(q) /\ arg'[q] = arg[q]
    BY <2>1 DEF Reading
  <2>3. \A q \in Requests : pc[q] = "readCommit" =>
           arg[q].conv \in Conversations /\ arg[q].seq \in Nat
    BY DEF TypeOK, AckStep, AckArg
  <2>4. OneReader' /\ ReadingExists'
    BY <1>2, <2>2 DEF ReadLocks, OneReader, ReadingExists
  <2>5. TargetAhead'
    BY <1>2, <1>3, <2>1, <2>2, <2>3 DEF ReadLocks, TargetAhead, Reading
  <2>. QED  BY <2>4, <2>5 DEF ReadLocks
<1>5. CursorBounded'
  <2>1. \A d \in Conversations, u \in Users : cursor[d][u] \in Nat
    BY DEF TypeOK
  <2>. QED  BY <1>2, <1>3, <2>1 DEF ReadTables, CursorBounded, TypeOK
<1>6. RowsBounded'
  <2>1. \A row \in recipients : row.conv \in Conversations /\ row.seq \in Nat
    BY DEF TypeOK, Recipient
  <2>2. \A row \in rows : row.conv = c /\ row.seq = lastSeq[c] + 1
    BY <1>1
  <2>3. lastSeq'[c] = lastSeq[c] + 1
    BY <1>1, <1>2 DEF TypeOK
  <2>. QED  BY <1>1, <1>2, <1>3, <2>1, <2>2, <2>3 DEF ReadTables, RowsBounded
<1>7. ReadUptoCursor'
  <2>1. \A u \in to : u \in Users /\ cursor[c][u] \in Nat /\ cursor[c][u] <= lastSeq[c]
    BY <1>1 DEF ReadTables, CursorBounded, TypeOK
  <2>2. \A row \in rows : ~(row.seq <= cursor[row.conv][row.user])
    BY <1>1, <2>1
  <2>. QED  BY <1>2, <2>2 DEF ReadTables, ReadUptoCursor
<1>8. PICK n \in Nat : /\ DOMAIN outbox = 1..n /\ DOMAIN outbox' = 1..(n + 1)
                       /\ \A i \in 1..n : outbox'[i] = outbox[i]
                       /\ outbox'[n + 1].type = "created"
  <2>1. PICK n \in Nat : /\ DOMAIN outbox = 1..n /\ DOMAIN outbox' = 1..(n + 1)
                         /\ \A i \in 1..n : outbox'[i] = outbox[i]
                         /\ outbox'[n + 1] =
                               [type |-> "created", conv |-> c, seq |-> arg[r].seq, to |-> to]
    BY <1>2, OutboxAppend
  <2>. QED  BY <2>1
<1>9. \A i \in DOMAIN outbox' : outbox'[i].type = "read" =>
         i \in DOMAIN outbox /\ outbox'[i] = outbox[i]
  BY <1>8
<1>10. ReadEventsBounded'
  BY <1>2, <1>9 DEF ReadTables, ReadEventsBounded
<1>11. ReadEventsAscend'
  BY <1>9 DEF ReadTables, ReadEventsAscend
<1>. QED  BY <1>4, <1>5, <1>6, <1>7, <1>10, <1>11 DEF ReadTables

(* Deleting a conversation waits for the members' rows.                    *)
LEMMA ReadsKeptByDelete ==
    ASSUME TypeOK, ReadLocks, ReadTables, NEW c \in Conversations, DeleteConversation(c)
    PROVE  ReadLocks' /\ ReadTables'
<1>1. /\ exists' = exists \ {c}
      /\ recipients' = {row \in recipients : row.conv # c}
      /\ read' = {row \in read : row.conv # c}
      /\ \A d \in Conversations : d # c => lastSeq'[d] = lastSeq[d] /\ cursor'[d] = cursor[d]
      /\ UNCHANGED <<outbox, pc, arg>>
  BY DEF DeleteConversation, TypeOK
<1>2. \A q \in Requests : Reading(q) => arg[q].conv # c /\ arg[q].conv \in Conversations
  BY DEF DeleteConversation, MemberLocked, Reading, TypeOK, AckStep, AckArg
<1>3. OneReader' /\ ReadingExists'
  BY <1>1, <1>2 DEF ReadLocks, OneReader, ReadingExists, Reading
<1>4. TargetAhead'
  BY <1>1, <1>2 DEF ReadLocks, TargetAhead, Reading
<1>5. CursorBounded'
  BY <1>1 DEF ReadTables, CursorBounded, TypeOK
<1>6. \A row \in recipients : row.conv \in Conversations
  BY DEF TypeOK, Recipient
<1>7. RowsBounded' /\ ReadUptoCursor'
  BY <1>1, <1>6 DEF ReadTables, RowsBounded, ReadUptoCursor
<1>8. ReadEventsBounded'
  BY <1>1 DEF ReadTables, ReadEventsBounded, TypeOK
<1>9. ReadEventsAscend'
  BY <1>1 DEF ReadTables, ReadEventsAscend
<1>. QED  BY <1>3, <1>4, <1>5, <1>7, <1>8, <1>9 DEF ReadLocks, ReadTables

ReadInv == ReadLocks /\ ReadTables

LEMMA ReadInvStep == TypeOK /\ SendInv /\ ReadInv /\ [Next]_vars => ReadInv'
<1>. SUFFICES ASSUME TypeOK, SendInv, ReadInv, [Next]_vars PROVE ReadInv'
  OBVIOUS
<1>1. ReadLocks /\ ReadTables /\ GapFree
  BY DEF ReadInv, SendInv
<1>2. ASSUME NEW r \in Requests, NEW step, NEW a, Goto(r, step, a),
             step \notin {"readTarget", "readCommit"}, UNCHANGED tables
      PROVE  ReadInv'
  BY <1>1, <1>2, LocksLeave, TablesStay DEF ReadInv, tables
<1>3. ASSUME NEW r \in Requests, SendNext(r) PROVE ReadInv'
  <2>1. CASE SendCommit(r)
    BY <1>1, <2>1, ReadsKeptBySend DEF ReadInv
  <2>. QED  BY <1>2, <1>3, <2>1 DEF SendNext, SendLookup, SendAllocate, SendInsert,
            SendRelookup, AnswerDuplicate, Return
<1>4. ASSUME NEW r \in Requests, AckNext(r) PROVE ReadInv'
  <2>1. CASE DeliverMark(r)
    BY <1>2, <2>1 DEF DeliverMark, Return
  <2>2. CASE DeliverCommit(r)
    <3>1. /\ Return(r) /\ UNCHANGED <<exists, lastSeq, recipients, read, cursor>>
          /\ \E event : outbox' = Append(outbox, event) /\ event.type # "read"
      BY <2>2 DEF DeliverCommit
    <3>. QED  BY <1>1, <3>1, LocksLeave, TablesStay DEF ReadInv, Return
  <2>. QED  BY <1>1, <1>4, <2>1, <2>2, ReadTargetStep, ReadCommitStep DEF AckNext, ReadInv
<1>5. ASSUME NEW r \in Requests, Abort(r) PROVE ReadInv'
  BY <1>2, <1>5 DEF Abort, Return
<1>6. ASSUME NEW r \in Requests,
             \/ \E cmd \in Commands : SendBegin(r, cmd)
             \/ \E row \in recipients : DeliverBegin(r, row)
             \/ \E u \in Ackers, c \in Conversations :
                   \E s \in 0..lastSeq[c] : ReadBegin(r, u, c, s)
      PROVE  ReadInv'
  <2>1. ASSUME NEW cmd \in Commands, SendBegin(r, cmd) PROVE ReadInv'
    BY <1>2, <2>1 DEF SendBegin, Start
  <2>2. ASSUME NEW row \in recipients, DeliverBegin(r, row) PROVE ReadInv'
    BY <1>2, <2>2 DEF DeliverBegin, Start
  <2>. QED  BY <1>1, <1>6, <2>1, <2>2, ReadBeginStep DEF ReadInv
<1>7. ASSUME UNCHANGED <<tables, pc, arg>> PROVE ReadInv'
  <2>1. ReadLocks'
    BY <1>1, <1>7 DEF ReadLocks, OneReader, ReadingExists, TargetAhead, Reading, tables
  <2>. QED  BY <1>1, <1>7, <2>1, TablesStay DEF ReadInv, tables
<1>8. ASSUME NEW u \in Readers, NEW c \in Conversations, NEW n \in 1..PageLimit,
             SyncAfterSeq(u, c, n) \/ SyncAfterMessage(u, c, n)
      PROVE  ReadInv'
  BY <1>7, <1>8 DEF SyncAfterSeq, SyncAfterMessage
<1>9. ASSUME NEW c \in Conversations, DeleteConversation(c) PROVE ReadInv'
  BY <1>1, <1>9, ReadsKeptByDelete DEF ReadInv
<1>10. CASE UNCHANGED vars
  BY <1>7, <1>10 DEF vars
<1>11. CASE Next
  BY <1>11, <1>3, <1>4, <1>5, <1>6, <1>8, <1>9 DEF Next
<1>. QED  BY <1>10, <1>11

LEMMA ReadInvariant == Spec => []ReadInv
<1>1. Init => ReadInv
  BY DEF Init, ReadInv, ReadLocks, ReadTables, OneReader, ReadingExists, TargetAhead, Reading,
     CursorBounded, RowsBounded, ReadUptoCursor, ReadEventsBounded, ReadEventsAscend
<1>. QED  BY <1>1, ReadInvStep, TypeCorrect, SendInvariant, PTL DEF Spec

(* acknowledge_read marks what its cursor has passed, and no message can   *)
(* turn up behind the cursor.                                              *)
THEOREM ReadMeansPassed == Spec => []ReadUptoCursor
BY ReadInvariant, PTL DEF ReadInv, ReadTables

(* However acknowledgements race, a member's read events go forward.       *)
THEOREM ReadsGoForward == Spec => []ReadEventsAscend
BY ReadInvariant, PTL DEF ReadInv, ReadTables

-----------------------------------------------------------------------------
(* Events.  A recipient's row is locked from the test of delivered_at to   *)
(* the commit, and a new message's seq has no events yet.                  *)
DeliveredAt(row) ==
    {i \in EventsOf("delivered", row.conv, row.seq) : outbox[i].user = row.user}

DeliverLocks ==
    /\ \A r \in Requests : pc[r] = "deliverCommit" => arg[r] \in recipients \ delivered
    /\ \A r, q \in Requests :
          pc[r] = "deliverCommit" /\ pc[q] = "deliverCommit" /\ arg[r] = arg[q] => r = q

EventsBounded ==
    \A i \in DOMAIN outbox :
        outbox[i].conv \in exists => outbox[i].seq <= lastSeq[outbox[i].conv]

DeliveredExact ==
    \A row \in recipients :
        IF row \in delivered THEN \E i : DeliveredAt(row) = {i} ELSE DeliveredAt(row) = {}

EventTables ==
    /\ delivered \subseteq recipients
    /\ EventsBounded /\ DeliveredExact /\ CreatedOnce

(* Appending an event changes the events of its own kind and message.      *)
LEMMA EventsAppend ==
    ASSUME TypeOK, NEW event, outbox' = Append(outbox, event),
           NEW type, NEW c, NEW s
    PROVE  \E n \in Nat :
              /\ DOMAIN outbox = 1..n /\ DOMAIN outbox' = 1..(n + 1)
              /\ \A i \in 1..n : outbox'[i] = outbox[i]
              /\ outbox'[n + 1] = event
              /\ EventsOf(type, c, s) \subseteq 1..n
              /\ EventsOf(type, c, s)' =
                    IF event.type = type /\ event.conv = c /\ event.seq = s
                    THEN EventsOf(type, c, s) \cup {n + 1} ELSE EventsOf(type, c, s)
<1>1. PICK n \in Nat : /\ DOMAIN outbox = 1..n /\ DOMAIN outbox' = 1..(n + 1)
                       /\ \A i \in 1..n : outbox'[i] = outbox[i]
                       /\ outbox'[n + 1] = event
  BY OutboxAppend
<1>2. EventsOf(type, c, s) \subseteq 1..n
  BY <1>1 DEF EventsOf
<1>3. CASE event.type = type /\ event.conv = c /\ event.seq = s
  <2>1. EventsOf(type, c, s)' = EventsOf(type, c, s) \cup {n + 1}
    BY <1>1, <1>3 DEF EventsOf
  <2>. QED  BY <1>1, <1>2, <1>3, <2>1
<1>4. CASE ~(event.type = type /\ event.conv = c /\ event.seq = s)
  <2>1. EventsOf(type, c, s)' = EventsOf(type, c, s)
    BY <1>1, <1>4 DEF EventsOf
  <2>. QED  BY <1>1, <1>2, <1>4, <2>1
<1>. QED  BY <1>3, <1>4

(* A row's deliveries and a message's creation, when nothing is announced  *)
(* about them.                                                             *)
LEMMA DeliveredAtStays ==
    ASSUME TypeOK, NEW row,
           \/ outbox' = outbox
           \/ \E event : /\ outbox' = Append(outbox, event)
                         /\ ~(/\ event.type = "delivered" /\ event.conv = row.conv
                              /\ event.seq = row.seq /\ event.user = row.user)
    PROVE  DeliveredAt(row)' = DeliveredAt(row)
<1>1. CASE outbox' = outbox
  BY <1>1 DEF DeliveredAt, EventsOf
<1>2. ASSUME NEW event, outbox' = Append(outbox, event),
             ~(/\ event.type = "delivered" /\ event.conv = row.conv
               /\ event.seq = row.seq /\ event.user = row.user)
      PROVE  DeliveredAt(row)' = DeliveredAt(row)
  <2>0. outbox' = Append(outbox, event)
    BY <1>2
  <2>1. PICK c, s : c = row.conv /\ s = row.seq
    OBVIOUS
  <2>2. PICK n \in Nat :
           /\ DOMAIN outbox = 1..n /\ DOMAIN outbox' = 1..(n + 1)
           /\ \A i \in 1..n : outbox'[i] = outbox[i]
           /\ outbox'[n + 1] = event
           /\ EventsOf("delivered", c, s) \subseteq 1..n
           /\ EventsOf("delivered", c, s)' =
                 IF event.type = "delivered" /\ event.conv = c /\ event.seq = s
                 THEN EventsOf("delivered", c, s) \cup {n + 1}
                 ELSE EventsOf("delivered", c, s)
    BY <2>0, EventsAppend
  <2>3. CASE event.type = "delivered" /\ event.conv = c /\ event.seq = s
    <3>1. outbox'[n + 1].user # row.user
      BY <1>2, <2>1, <2>2, <2>3
    <3>2. \A i \in EventsOf("delivered", c, s) : outbox'[i] = outbox[i]
      BY <2>2
    <3>3. EventsOf("delivered", c, s)' = EventsOf("delivered", c, s) \cup {n + 1}
      BY <2>2, <2>3
    <3>. QED  BY <2>1, <3>1, <3>2, <3>3 DEF DeliveredAt
  <2>4. CASE ~(event.type = "delivered" /\ event.conv = c /\ event.seq = s)
    <3>1. \A i \in EventsOf("delivered", c, s) : outbox'[i] = outbox[i]
      BY <2>2
    <3>. QED  BY <2>1, <2>2, <2>4, <3>1 DEF DeliveredAt
  <2>. QED  BY <2>3, <2>4
<1>. QED  BY <1>1, <1>2

LEMMA CreatedStays ==
    ASSUME TypeOK, EventTables, NEW m \in messages,
           \/ outbox' = outbox
           \/ \E event : /\ outbox' = Append(outbox, event)
                         /\ ~(event.type = "created" /\ event.conv = m.conv /\ event.seq = m.seq),
           \A u \in Users : [conv |-> m.conv, seq |-> m.seq, user |-> u] \in recipients'
                           <=> [conv |-> m.conv, seq |-> m.seq, user |-> u] \in recipients
    PROVE  \E i \in DOMAIN outbox' :
              /\ EventsOf("created", m.conv, m.seq)' = {i}
              /\ outbox'[i].to = {u \in Users :
                     [conv |-> m.conv, seq |-> m.seq, user |-> u] \in recipients'}
<1>1. PICK i \in DOMAIN outbox :
         /\ EventsOf("created", m.conv, m.seq) = {i}
         /\ outbox[i].to = {u \in Users :
                [conv |-> m.conv, seq |-> m.seq, user |-> u] \in recipients}
  BY DEF EventTables, CreatedOnce
<1>2. outbox[i].to = {u \in Users : [conv |-> m.conv, seq |-> m.seq, user |-> u] \in recipients'}
  BY <1>1
<1>3. CASE outbox' = outbox
  <2>1. EventsOf("created", m.conv, m.seq)' = EventsOf("created", m.conv, m.seq)
    BY <1>3 DEF EventsOf
  <2>. QED  BY <1>1, <1>2, <1>3, <2>1
<1>4. ASSUME NEW event, outbox' = Append(outbox, event),
             ~(event.type = "created" /\ event.conv = m.conv /\ event.seq = m.seq)
      PROVE  /\ EventsOf("created", m.conv, m.seq)' = {i}
             /\ i \in DOMAIN outbox' /\ outbox'[i] = outbox[i]
  <2>1. PICK n \in Nat :
           /\ DOMAIN outbox = 1..n /\ DOMAIN outbox' = 1..(n + 1)
           /\ \A j \in 1..n : outbox'[j] = outbox[j]
           /\ EventsOf("created", m.conv, m.seq)' =
                 IF event.type = "created" /\ event.conv = m.conv /\ event.seq = m.seq
                 THEN EventsOf("created", m.conv, m.seq) \cup {n + 1}
                 ELSE EventsOf("created", m.conv, m.seq)
    BY <1>4, EventsAppend
  <2>. QED  BY <1>1, <1>4, <2>1
<1>. QED  BY <1>2, <1>3, <1>4

LEMMA BoundedStays ==
    ASSUME TypeOK, EventsBounded, exists' \subseteq exists,
           \A c \in exists' : lastSeq'[c] \in Nat /\ lastSeq[c] <= lastSeq'[c],
           \/ outbox' = outbox
           \/ \E event : /\ outbox' = Append(outbox, event)
                         /\ event.conv \in exists' => event.seq <= lastSeq'[event.conv]
    PROVE  EventsBounded'
<1>1. \A i \in DOMAIN outbox : outbox[i].seq \in Nat
  <2>1. \A i \in DOMAIN outbox : outbox[i] \in Event
    BY DEF TypeOK
  <2>. QED  BY <2>1 DEF Event
<1>2. \A c \in exists : lastSeq[c] \in Nat
  BY DEF TypeOK
<1>3. \A i \in DOMAIN outbox : outbox[i].conv \in exists'
         => outbox[i].seq <= lastSeq'[outbox[i].conv]
  BY <1>1, <1>2 DEF EventsBounded
<1>4. CASE outbox' = outbox
  BY <1>3, <1>4 DEF EventsBounded
<1>5. ASSUME NEW event, outbox' = Append(outbox, event),
             event.conv \in exists' => event.seq <= lastSeq'[event.conv]
      PROVE  EventsBounded'
  <2>1. PICK n \in Nat : /\ DOMAIN outbox = 1..n /\ DOMAIN outbox' = 1..(n + 1)
                         /\ \A i \in 1..n : outbox'[i] = outbox[i]
                         /\ outbox'[n + 1] = event
    BY <1>5, OutboxAppend
  <2>. QED  BY <1>3, <1>5, <2>1 DEF EventsBounded
<1>. QED  BY <1>4, <1>5

(* The frame of steps that announce nothing and change no row.             *)
LEMMA TablesUntouched ==
    ASSUME TypeOK, EventTables, UNCHANGED tables
    PROVE  EventTables'
<1>1. UNCHANGED <<exists, lastSeq, messages, recipients, delivered, outbox>>
  BY DEF tables
<1>2. \A row \in recipients : DeliveredAt(row)' = DeliveredAt(row)
  BY <1>1 DEF DeliveredAt, EventsOf
<1>3. DeliveredExact'
  BY <1>1, <1>2 DEF EventTables, DeliveredExact
<1>4. EventsBounded' /\ CreatedOnce'
  BY <1>1 DEF EventTables, EventsBounded, CreatedOnce, EventsOf
<1>. QED  BY <1>1, <1>3, <1>4 DEF EventTables

LEMMA EventsSend ==
    ASSUME TypeOK, SendInv, ReadInv, DeliverLocks, EventTables,
           NEW r \in Requests, SendCommit(r),
           NEW c, NEW s, NEW sender, c = arg[r].conv, s = arg[r].seq, sender = arg[r].user
    PROVE  DeliverLocks' /\ EventTables'
<1>. DEFINE to == MembersOf[c] \ {sender}
            rows == {[conv |-> c, seq |-> s, user |-> u] : u \in to}
            event == [type |-> "created", conv |-> c, seq |-> s, to |-> to]
<1>1. /\ c \in exists /\ c \in Conversations /\ lastSeq[c] \in Nat
      /\ s = lastSeq[c] + 1 /\ to \subseteq Users
  BY DEF SendInv, AllocatedNext, Allocating, SendCommit, TypeOK
<1>2. /\ lastSeq' = [lastSeq EXCEPT ![c] = s]
      /\ messages' = messages \cup {NewMessage(r)}
      /\ recipients' = recipients \cup rows
      /\ outbox' = Append(outbox, event)
      /\ Return(r)
      /\ UNCHANGED <<exists, delivered>>
  BY DEF SendCommit, NewMessage
<1>3. DeliverLocks'
  BY <1>2, GotoEffect DEF DeliverLocks, Return
<1>4. EventsBounded'
  <2>1. \A d \in exists' : lastSeq'[d] \in Nat /\ lastSeq[d] <= lastSeq'[d]
    BY <1>1, <1>2 DEF TypeOK
  <2>2. lastSeq'[c] = s /\ event.conv = c /\ event.seq = s
    BY <1>1, <1>2 DEF TypeOK
  <2>3. event.conv \in exists' => event.seq <= lastSeq'[event.conv]
    BY <1>1, <2>2
  <2>. QED  BY <1>2, <2>1, <2>3, BoundedStays DEF EventTables
<1>5. \A i \in DOMAIN outbox : ~(outbox[i].conv = c /\ outbox[i].seq = s)
  BY <1>1 DEF EventTables, EventsBounded
<1>6. \A row \in recipients : ~(row.conv = c /\ row.seq = s)
  BY <1>1 DEF ReadInv, ReadTables, RowsBounded
<1>7. \A row \in recipients' : DeliveredAt(row)' = DeliveredAt(row)
  BY <1>2, DeliveredAtStays
<1>8. DeliveredExact'
  <2>1. ASSUME NEW row \in rows PROVE row \notin delivered /\ DeliveredAt(row) = {}
    <3>1. row.conv = c /\ row.seq = s
      OBVIOUS
    <3>. QED  BY <1>5, <1>6, <3>1 DEF EventTables, DeliveredAt, EventsOf
  <2>. QED  BY <1>2, <1>7, <2>1 DEF EventTables, DeliveredExact
<1>9. CreatedOnce'
  <2>. SUFFICES ASSUME NEW m \in messages'
                PROVE  \E i \in DOMAIN outbox' :
                          /\ EventsOf("created", m.conv, m.seq)' = {i}
                          /\ outbox'[i].to = {u \in Users :
                                 [conv |-> m.conv, seq |-> m.seq, user |-> u] \in recipients'}
    BY DEF CreatedOnce
  <2>1. CASE m \in messages
    <3>1. ~(m.conv = c /\ m.seq = s)
      <4>1. m.conv \in exists /\ m \in MessagesOf(m.conv)
        BY <2>1 DEF SendInv, MessagesExist, MessagesOf
      <4>2. m.seq \in 1..lastSeq[m.conv]
        BY <4>1 DEF SendInv, GapFree
      <4>. QED  BY <1>1, <4>2
    <3>2. \A u \in Users : [conv |-> m.conv, seq |-> m.seq, user |-> u] \notin rows
      BY <3>1
    <3>3. \A u \in Users : [conv |-> m.conv, seq |-> m.seq, user |-> u] \in recipients'
                          <=> [conv |-> m.conv, seq |-> m.seq, user |-> u] \in recipients
      BY <1>2, <3>2
    <3>4. ~(event.type = "created" /\ event.conv = m.conv /\ event.seq = m.seq)
      BY <3>1
    <3>. QED  BY <1>2, <2>1, <3>3, <3>4, CreatedStays
  <2>2. CASE m = NewMessage(r)
    <3>1. m.conv = c /\ m.seq = s
      BY <2>2 DEF NewMessage
    <3>2. PICK n \in Nat :
             /\ DOMAIN outbox = 1..n /\ DOMAIN outbox' = 1..(n + 1)
             /\ outbox'[n + 1] = event
             /\ EventsOf("created", c, s)' =
                   IF event.type = "created" /\ event.conv = c /\ event.seq = s
                   THEN EventsOf("created", c, s) \cup {n + 1} ELSE EventsOf("created", c, s)
      BY <1>2, EventsAppend
    <3>3. EventsOf("created", c, s) = {}
      BY <1>5 DEF EventsOf
    <3>4. EventsOf("created", c, s)' = {n + 1} /\ outbox'[n + 1].to = to
      BY <3>2, <3>3
    <3>5. to = {u \in Users : [conv |-> c, seq |-> s, user |-> u] \in recipients'}
      <4>1. \A u \in Users : [conv |-> c, seq |-> s, user |-> u] \notin recipients
        BY <1>6
      <4>2. \A u \in Users : [conv |-> c, seq |-> s, user |-> u] \in rows <=> u \in to
        OBVIOUS
      <4>. QED  BY <1>1, <1>2, <4>1, <4>2
    <3>. QED  BY <3>1, <3>2, <3>4, <3>5
  <2>. QED  BY <1>2, <2>1, <2>2
<1>10. delivered' \subseteq recipients'
  BY <1>2 DEF EventTables
<1>. QED  BY <1>3, <1>4, <1>8, <1>9, <1>10 DEF EventTables

LEMMA EventsDeliver ==
    ASSUME TypeOK, ReadInv, DeliverLocks, EventTables, NEW r \in Requests, DeliverCommit(r),
           NEW row, row = arg[r]
    PROVE  DeliverLocks' /\ EventTables'
<1>. DEFINE event == [type |-> "delivered", conv |-> row.conv, seq |-> row.seq, user |-> row.user]
<1>1. row \in recipients \ delivered /\ row \in Recipient /\ pc[r] = "deliverCommit"
  BY DEF DeliverCommit, DeliverLocks, TypeOK
<1>2. /\ delivered' = delivered \cup {row}
      /\ outbox' = Append(outbox, event)
      /\ Return(r)
      /\ UNCHANGED <<exists, lastSeq, messages, recipients>>
  BY DEF DeliverCommit
<1>3. DeliverLocks'
  <2>1. /\ pc'[r] = "idle"
        /\ \A q \in Requests : q # r => pc'[q] = pc[q] /\ arg'[q] = arg[q]
    BY <1>2, GotoEffect DEF Return
  <2>2. \A q \in Requests : pc'[q] = "deliverCommit" =>
           q # r /\ pc[q] = "deliverCommit" /\ arg'[q] = arg[q] /\ arg[q] # row
    BY <1>1, <2>1 DEF DeliverLocks
  <2>. QED  BY <1>2, <2>2 DEF DeliverLocks
<1>4. EventsBounded'
  <2>1. row.conv \in exists /\ row.seq <= lastSeq[row.conv]
    BY <1>1 DEF ReadInv, ReadTables, RowsBounded
  <2>2. \A d \in exists' : lastSeq'[d] \in Nat /\ lastSeq[d] <= lastSeq'[d]
    BY <1>2 DEF TypeOK
  <2>. QED  BY <1>2, <2>1, <2>2, BoundedStays DEF EventTables
<1>5. DeliveredExact'
  <2>1. ASSUME NEW other \in recipients, other # row
        PROVE  DeliveredAt(other)' = DeliveredAt(other)
    <3>1. ~(other.conv = row.conv /\ other.seq = row.seq /\ other.user = row.user)
      <4>1. \A x \in Recipient : x = [conv |-> x.conv, seq |-> x.seq, user |-> x.user]
        BY DEF Recipient
      <4>2. other \in Recipient
        BY DEF TypeOK
      <4>. QED  BY <1>1, <2>1, <4>1, <4>2
    <3>. QED  BY <1>2, <3>1, DeliveredAtStays
  <2>2. \E i : DeliveredAt(row)' = {i}
    <3>1. DeliveredAt(row) = {}
      BY <1>1 DEF EventTables, DeliveredExact
    <3>2. PICK n \in Nat :
             /\ \A i \in 1..n : outbox'[i] = outbox[i]
             /\ outbox'[n + 1] = event
             /\ EventsOf("delivered", row.conv, row.seq) \subseteq 1..n
             /\ EventsOf("delivered", row.conv, row.seq)' =
                   IF /\ event.type = "delivered" /\ event.conv = row.conv
                      /\ event.seq = row.seq
                   THEN EventsOf("delivered", row.conv, row.seq) \cup {n + 1}
                   ELSE EventsOf("delivered", row.conv, row.seq)
      BY <1>2, EventsAppend
    <3>3. {i \in EventsOf("delivered", row.conv, row.seq)' : outbox'[i].user = row.user} = {n + 1}
      BY <3>1, <3>2 DEF DeliveredAt
    <3>. QED  BY <3>3 DEF DeliveredAt
  <2>. QED  BY <1>1, <1>2, <2>1, <2>2 DEF EventTables, DeliveredExact
<1>6. CreatedOnce'
  <2>1. \E e : /\ outbox' = Append(outbox, e)
               /\ \A m \in messages :
                     ~(e.type = "created" /\ e.conv = m.conv /\ e.seq = m.seq)
    BY <1>2
  <2>2. \A m \in messages : \E i \in DOMAIN outbox' :
           /\ EventsOf("created", m.conv, m.seq)' = {i}
           /\ outbox'[i].to = {u \in Users :
                  [conv |-> m.conv, seq |-> m.seq, user |-> u] \in recipients'}
    BY <1>2, <2>1, CreatedStays
  <2>. QED  BY <1>2, <2>2 DEF CreatedOnce
<1>7. delivered' \subseteq recipients'
  BY <1>1, <1>2 DEF EventTables
<1>. QED  BY <1>3, <1>4, <1>5, <1>6, <1>7 DEF EventTables

LEMMA EventsRead ==
    ASSUME TypeOK, ReadInv, DeliverLocks, EventTables, NEW r \in Requests, ReadCommit(r)
    PROVE  DeliverLocks' /\ EventTables'
<1>1. /\ outbox' = Append(outbox, [type |-> "read", conv |-> arg[r].conv, seq |-> arg[r].seq,
                                   user |-> arg[r].user])
      /\ Return(r)
      /\ UNCHANGED <<exists, lastSeq, messages, recipients, delivered>>
  BY DEF ReadCommit
<1>2. arg[r].seq <= lastSeq[arg[r].conv]
  BY DEF ReadInv, ReadLocks, TargetAhead, ReadCommit
<1>3. PICK event : /\ outbox' = Append(outbox, event) /\ event.type = "read"
                   /\ event.seq <= lastSeq[event.conv]
  BY <1>1, <1>2
<1>4. DeliverLocks'
  BY <1>1, GotoEffect DEF DeliverLocks, Return
<1>5. EventsBounded'
  <2>1. \A d \in exists' : lastSeq'[d] \in Nat /\ lastSeq[d] <= lastSeq'[d]
    BY <1>1 DEF TypeOK
  <2>. QED  BY <1>1, <1>3, <2>1, BoundedStays DEF EventTables
<1>6. \A row \in recipients : DeliveredAt(row)' = DeliveredAt(row)
  BY <1>3, DeliveredAtStays
<1>7. DeliveredExact'
  BY <1>1, <1>6 DEF EventTables, DeliveredExact
<1>8. CreatedOnce'
  <2>1. \A m \in messages : \E i \in DOMAIN outbox' :
           /\ EventsOf("created", m.conv, m.seq)' = {i}
           /\ outbox'[i].to = {u \in Users :
                  [conv |-> m.conv, seq |-> m.seq, user |-> u] \in recipients'}
    BY <1>1, <1>3, CreatedStays
  <2>. QED  BY <1>1, <2>1 DEF CreatedOnce
<1>. QED  BY <1>1, <1>4, <1>5, <1>7, <1>8 DEF EventTables

LEMMA EventsDelete ==
    ASSUME TypeOK, DeliverLocks, EventTables, NEW c \in Conversations, DeleteConversation(c)
    PROVE  DeliverLocks' /\ EventTables'
<1>1. /\ exists' = exists \ {c}
      /\ messages' = {m \in messages : m.conv # c}
      /\ recipients' = {row \in recipients : row.conv # c}
      /\ delivered' = {row \in delivered : row.conv # c}
      /\ \A d \in Conversations : d # c => lastSeq'[d] = lastSeq[d]
      /\ UNCHANGED <<outbox, pc, arg>>
      /\ \A row \in recipients : row.conv = c => ~RecipientLocked(row)
  BY DEF DeleteConversation, TypeOK
<1>2. DeliverLocks'
  BY <1>1 DEF DeliverLocks, RecipientLocked
<1>3. EventsBounded'
  <2>1. \A d \in exists' : lastSeq'[d] \in Nat /\ lastSeq[d] <= lastSeq'[d]
    BY <1>1 DEF TypeOK
  <2>2. exists' \subseteq exists /\ outbox' = outbox /\ EventsBounded
    BY <1>1 DEF EventTables
  <2>. QED  BY <2>1, <2>2, BoundedStays
<1>4. \A row \in recipients : DeliveredAt(row)' = DeliveredAt(row)
  BY <1>1, DeliveredAtStays
<1>5. DeliveredExact'
  BY <1>1, <1>4 DEF EventTables, DeliveredExact
<1>6. CreatedOnce'
  <2>1. ASSUME NEW m \in messages, m.conv # c
        PROVE  \E i \in DOMAIN outbox' :
                  /\ EventsOf("created", m.conv, m.seq)' = {i}
                  /\ outbox'[i].to = {u \in Users :
                         [conv |-> m.conv, seq |-> m.seq, user |-> u] \in recipients'}
    <3>1. \A u \in Users : [conv |-> m.conv, seq |-> m.seq, user |-> u] \in recipients'
                          <=> [conv |-> m.conv, seq |-> m.seq, user |-> u] \in recipients
      BY <1>1, <2>1
    <3>. QED  BY <1>1, <3>1, CreatedStays
  <2>. QED  BY <1>1, <2>1 DEF CreatedOnce
<1>7. delivered' \subseteq recipients'
  BY <1>1 DEF EventTables
<1>. QED  BY <1>2, <1>3, <1>5, <1>6, <1>7 DEF EventTables

EventInv == DeliverLocks /\ EventTables

LEMMA EventInvStep == TypeOK /\ SendInv /\ ReadInv /\ EventInv /\ [Next]_vars => EventInv'
<1>. SUFFICES ASSUME TypeOK, SendInv, ReadInv, EventInv, [Next]_vars PROVE EventInv'
  OBVIOUS
<1>1. DeliverLocks /\ EventTables
  BY DEF EventInv
<1>2. ASSUME NEW r \in Requests, NEW step, NEW a, Goto(r, step, a),
             step # "deliverCommit", UNCHANGED tables
      PROVE  EventInv'
  <2>1. /\ pc'[r] # "deliverCommit"
        /\ \A q \in Requests : q # r => pc'[q] = pc[q] /\ arg'[q] = arg[q]
    BY <1>2, GotoEffect
  <2>2. DeliverLocks'
    BY <1>1, <1>2, <2>1 DEF DeliverLocks, tables
  <2>. QED  BY <1>1, <1>2, <2>2, TablesUntouched DEF EventInv
<1>3. ASSUME NEW r \in Requests, SendNext(r) PROVE EventInv'
  <2>1. CASE SendCommit(r)
    BY <1>1, <2>1, EventsSend DEF EventInv
  <2>. QED  BY <1>2, <1>3, <2>1 DEF SendNext, SendLookup, SendAllocate, SendInsert,
            SendRelookup, AnswerDuplicate, Return
<1>4. ASSUME NEW r \in Requests, AckNext(r) PROVE EventInv'
  <2>1. CASE DeliverMark(r)
    <3>1. CASE Return(r)
      BY <1>2, <2>1, <3>1 DEF DeliverMark, Return
    <3>2. CASE ~Return(r)
      <4>1. /\ arg[r] \in recipients \ delivered /\ ~RecipientLocked(arg[r])
            /\ Goto(r, "deliverCommit", arg[r]) /\ UNCHANGED tables
        BY <2>1, <3>2 DEF DeliverMark
      <4>2. /\ pc'[r] = "deliverCommit" /\ arg'[r] = arg[r]
            /\ \A q \in Requests : q # r => pc'[q] = pc[q] /\ arg'[q] = arg[q]
        BY <4>1, GotoEffect
      <4>3. \A q \in Requests : pc[q] = "deliverCommit" => arg[q] # arg[r]
        BY <4>1 DEF RecipientLocked
      <4>4. DeliverLocks'
        BY <1>1, <4>1, <4>2, <4>3 DEF DeliverLocks, tables
      <4>. QED  BY <1>1, <4>1, <4>4, TablesUntouched DEF EventInv
    <3>. QED  BY <3>1, <3>2
  <2>2. CASE ReadTarget(r)
    <3>1. Return(r) \/ \E s : Goto(r, "readCommit", [arg[r] EXCEPT !.seq = s])
      BY <2>2 DEF ReadTarget
    <3>2. UNCHANGED tables
      BY <2>2 DEF ReadTarget
    <3>. QED  BY <1>2, <3>1, <3>2 DEF Return
  <2>3. CASE DeliverCommit(r)
    BY <1>1, <2>3, EventsDeliver DEF EventInv
  <2>4. CASE ReadCommit(r)
    BY <1>1, <2>4, EventsRead DEF EventInv
  <2>. QED  BY <1>4, <2>1, <2>2, <2>3, <2>4 DEF AckNext
<1>5. ASSUME NEW r \in Requests, Abort(r) PROVE EventInv'
  BY <1>2, <1>5 DEF Abort, Return
<1>6. ASSUME NEW r \in Requests,
             \/ \E cmd \in Commands : SendBegin(r, cmd)
             \/ \E row \in recipients : DeliverBegin(r, row)
             \/ \E u \in Ackers, c \in Conversations :
                   \E s \in 0..lastSeq[c] : ReadBegin(r, u, c, s)
      PROVE  EventInv'
  BY <1>2, <1>6 DEF SendBegin, DeliverBegin, ReadBegin, Start
<1>7. ASSUME UNCHANGED <<tables, pc, arg>> PROVE EventInv'
  <2>1. DeliverLocks'
    BY <1>1, <1>7 DEF DeliverLocks, tables
  <2>. QED  BY <1>1, <1>7, <2>1, TablesUntouched DEF EventInv
<1>8. ASSUME NEW u \in Readers, NEW c \in Conversations, NEW n \in 1..PageLimit,
             SyncAfterSeq(u, c, n) \/ SyncAfterMessage(u, c, n)
      PROVE  EventInv'
  BY <1>7, <1>8 DEF SyncAfterSeq, SyncAfterMessage
<1>9. ASSUME NEW c \in Conversations, DeleteConversation(c) PROVE EventInv'
  BY <1>1, <1>9, EventsDelete DEF EventInv
<1>10. CASE UNCHANGED vars
  BY <1>7, <1>10 DEF vars
<1>11. CASE Next
  BY <1>11, <1>3, <1>4, <1>5, <1>6, <1>8, <1>9 DEF Next
<1>. QED  BY <1>10, <1>11

LEMMA EventInvariant == Spec => []EventInv
<1>1. Init => EventInv
  <2>. SUFFICES ASSUME Init PROVE EventInv
    OBVIOUS
  <2>1. DeliverLocks /\ delivered \subseteq recipients /\ EventsBounded
    BY DEF Init, DeliverLocks, EventsBounded
  <2>2. DeliveredExact /\ CreatedOnce
    BY DEF Init, DeliveredExact, CreatedOnce
  <2>. QED  BY <2>1, <2>2 DEF EventInv, EventTables
<1>. QED  BY <1>1, EventInvStep, TypeCorrect, SendInvariant, ReadInvariant, PTL DEF Spec

(* A committed message is announced once, to exactly its recipients.       *)
THEOREM MessagesAnnouncedOnce == Spec => []CreatedOnce
BY EventInvariant, PTL DEF EventInv, EventTables

(* Racing acknowledgements announce a delivery exactly once.               *)
THEOREM DeliveriesAnnouncedOnce == Spec => []DeliveredOnce
<1>1. EventInv => DeliveredOnce
  <2>. SUFFICES ASSUME EventInv, NEW row \in recipients
                PROVE  Cardinality(DeliveredAt(row)) = IF row \in delivered THEN 1 ELSE 0
    BY DEF DeliveredOnce, DeliveredAt
  <2>1. CASE row \in delivered
    <3>1. PICK i : DeliveredAt(row) = {i}
      BY <2>1 DEF EventInv, EventTables, DeliveredExact
    <3>. QED  BY <2>1, <3>1, FS_Singleton
  <2>2. CASE row \notin delivered
    <3>1. DeliveredAt(row) = {}
      BY <2>2 DEF EventInv, EventTables, DeliveredExact
    <3>. QED  BY <2>2, <3>1, FS_EmptySet
  <2>. QED  BY <2>1, <2>2
<1>. QED  BY <1>1, EventInvariant, PTL

=============================================================================
