------------------------ MODULE RealtimeSessionProofs ------------------------
(***************************************************************************)
(* Proofs about RealtimeSession, for any number of connections, messages   *)
(* and faults, and any limits.                                             *)
(***************************************************************************)
EXTENDS RealtimeSession, FiniteSetTheorems, SequenceTheorems, TLAPS

USE RealtimeAssumption

SessionTypeOK ==
    /\ conn \in [Sockets -> {"unused", "open", "counting", "emptied", "closed"}]
    /\ current \in Sockets \cup {0}
    /\ overlaps \in Nat /\ faults \in Nat

(* As long as nothing went wrong, the client's connection has all of its   *)
(* keys, and no connection that is being closed is about to delete them:   *)
(* whoever counts from now on counts this one.                             *)
Registered ==
    Linked /\ faults + overlaps = 0 =>
        /\ current \in userSockets /\ current \in socketKeys /\ status = "online"
        /\ \A s \in Sockets : conn[s] # "emptied"

SessionInv == SessionTypeOK /\ Registered

-----------------------------------------------------------------------------
LEMMA SessionInvInit == Init => SessionInv
BY DEF Init, SessionInv, SessionTypeOK, Registered, Linked

LEMMA GotoTyped ==
    ASSUME SessionTypeOK, NEW s \in Sockets,
           NEW state \in {"unused", "open", "counting", "emptied", "closed"}, Goto(s, state)
    PROVE  /\ conn' \in [Sockets -> {"unused", "open", "counting", "emptied", "closed"}]
           /\ conn'[s] = state /\ \A r \in Sockets : r # s => conn'[r] = conn[r]
BY DEF SessionTypeOK, Goto

LEMMA FaultTyped ==
    ASSUME SessionTypeOK, Fault
    PROVE  overlaps' \in Nat /\ faults' \in Nat /\ faults' + overlaps' # 0
BY DEF SessionTypeOK, Fault

(* After a fault there is nothing left to show.                            *)
LEMMA AfterFault ==
    ASSUME SessionTypeOK', faults' + overlaps' # 0
    PROVE  SessionInv'
BY DEF SessionInv, Registered

(* What the client, the forwarder and the receive loop do changes no key   *)
(* but those that a heartbeat refreshes.                                   *)
LEMMA QuietStep ==
    ASSUME SessionInv, UNCHANGED <<conn, userSockets, socketKeys, overlaps, faults>>,
           current' \in {current, 0}, status' \in {status, "online"}
    PROVE  SessionInv'
BY DEF SessionInv, SessionTypeOK, Registered, Linked

LEMMA ConnectStep ==
    ASSUME SessionInv, NEW s \in Sockets, Connect(s)
    PROVE  SessionInv'
<1>1. /\ current' = s /\ Goto(s, "open")
      /\ conn' \in [Sockets -> {"unused", "open", "counting", "emptied", "closed"}]
      /\ conn'[s] = "open" /\ \A r \in Sockets : r # s => conn'[r] = conn[r]
  BY GotoTyped DEF Connect, SessionInv
<1>2. CASE RegisterSession(s) /\ UNCHANGED faults
           /\ overlaps' = IF \E r \in Sockets : conn[r] = "emptied" THEN overlaps + 1 ELSE overlaps
  <2>1. SessionTypeOK' /\ overlaps \in Nat /\ faults \in Nat
    BY <1>1, <1>2 DEF SessionInv, SessionTypeOK
  <2>2. CASE \E r \in Sockets : conn[r] = "emptied"
    <3>1. faults' + overlaps' # 0
      BY <1>2, <2>1, <2>2
    <3> QED
      BY <2>1, <3>1, AfterFault
  <2>3. CASE ~\E r \in Sockets : conn[r] = "emptied"
    <3>1. s \in userSockets' /\ s \in socketKeys' /\ status' = "online"
      BY <1>2 DEF RegisterSession
    <3>2. \A r \in Sockets : conn'[r] # "emptied"
      BY <1>1, <2>3
    <3> QED
      BY <1>1, <2>1, <3>1, <3>2 DEF SessionInv, Registered
  <2> QED
    BY <2>2, <2>3
<1>3. CASE Fault
  BY <1>1, <1>3, FaultTyped, AfterFault DEF SessionInv, SessionTypeOK
<1> QED
  BY <1>2, <1>3 DEF Connect

(* Closing another connection leaves the client's keys alone, and whoever  *)
(* counts finds them.                                                      *)
LEMMA CloseStep ==
    ASSUME SessionInv, NEW s \in Sockets, Close(s) \/ Count(s)
    PROVE  SessionInv'
<1>1. CASE Fault
  <2>1. \E state \in {"counting", "closed", "emptied"} : Goto(s, state)
    BY DEF Close, Count
  <2>2. current' = current
    BY DEF Close, Count, client
  <2> QED
    BY <1>1, <2>1, <2>2, GotoTyped, FaultTyped, AfterFault DEF SessionInv, SessionTypeOK
<1>2. CASE Close(s) /\ Goto(s, "counting") /\ RemoveSocket(s) /\ UNCHANGED ghost
  <2>1. /\ UNCHANGED <<current, overlaps, faults, status>>
        /\ userSockets' = userSockets \ {s} /\ socketKeys' = socketKeys \ {s}
        /\ conn' \in [Sockets -> {"unused", "open", "counting", "emptied", "closed"}]
        /\ conn'[s] = "counting" /\ \A r \in Sockets : r # s => conn'[r] = conn[r]
    BY <1>2, GotoTyped DEF Close, RemoveSocket, SessionInv, client, ghost
  <2> QED
    BY <2>1 DEF SessionInv, SessionTypeOK, Registered, Linked
<1>3. CASE Count(s)
  <2>1. /\ UNCHANGED <<current, overlaps, faults, presence>>
        /\ Goto(s, IF NoneRemains THEN "emptied" ELSE "closed")
    BY <1>3 DEF Count, client, ghost
  <2>2. /\ conn' \in [Sockets -> {"unused", "open", "counting", "emptied", "closed"}]
        /\ conn'[s] = (IF NoneRemains THEN "emptied" ELSE "closed")
        /\ \A r \in Sockets : r # s => conn'[r] = conn[r]
    BY <2>1, GotoTyped DEF SessionInv
  <2>3. Linked' => Linked
    BY <2>1, <2>2 DEF Linked, SessionInv, SessionTypeOK
  <2>4. Linked /\ faults + overlaps = 0 => ~NoneRemains
    BY DEF SessionInv, Registered, NoneRemains
  <2> QED
    BY <2>1, <2>2, <2>3, <2>4 DEF SessionInv, SessionTypeOK, Registered, presence
<1> QED
  BY <1>1, <1>2, <1>3 DEF Close

LEMMA DeleteSetStep ==
    ASSUME SessionInv, NEW s \in Sockets, DeleteSet(s)
    PROVE  SessionInv'
<1>1. /\ UNCHANGED <<current, overlaps, faults>> /\ conn[s] = "emptied"
      /\ conn' \in [Sockets -> {"unused", "open", "counting", "emptied", "closed"}]
      /\ conn'[s] = "closed" /\ \A r \in Sockets : r # s => conn'[r] = conn[r]
  BY GotoTyped DEF DeleteSet, SessionInv, client, ghost
<1>2. Linked' => Linked
  BY <1>1 DEF Linked, SessionInv, SessionTypeOK
<1>3. ~(Linked /\ faults + overlaps = 0)
  BY <1>1 DEF SessionInv, Registered
<1> QED
  BY <1>1, <1>2, <1>3 DEF SessionInv, SessionTypeOK, Registered

(* While the client beats, neither its socket nor the keys it refreshes    *)
(* expire.                                                                 *)
LEMMA ExpireStep ==
    ASSUME SessionInv, Expire
    PROVE  SessionInv'
<1>1. UNCHANGED <<conn, current, overlaps, faults>>
  BY DEF Expire, sockets, client, ghost
<1>2. SessionTypeOK'
  BY <1>1 DEF SessionInv, SessionTypeOK
<1>3. ASSUME Linked', faults' + overlaps' = 0
      PROVE  /\ current' \in userSockets' /\ current' \in socketKeys' /\ status' = "online"
             /\ \A s \in Sockets : conn'[s] # "emptied"
  <2>1. /\ Linked /\ current \in userSockets /\ current \in socketKeys /\ status = "online"
        /\ \A s \in Sockets : conn[s] # "emptied"
    BY <1>1, <1>3 DEF SessionInv, Registered, Linked
  <2>2. current \in Beating /\ Refreshed(Beating)
    BY <2>1 DEF Beating, Linked, Refreshed, SessionInv, SessionTypeOK
  <2>3. SocketExpires(Beating)
    BY <2>2 DEF Expire, SetExpires, StatusExpires
  <2> QED
    BY <1>1, <2>1, <2>2, <2>3 DEF SocketExpires
<1> QED
  BY <1>2, <1>3 DEF SessionInv, Registered

LEMMA FaultStep ==
    ASSUME SessionInv, Fault, UNCHANGED current,
           UNCHANGED conn \/ \E s \in Sockets : Goto(s, "closed")
    PROVE  SessionInv'
BY GotoTyped, FaultTyped, AfterFault DEF SessionInv, SessionTypeOK

LEMMA SessionInvStep == SessionInv /\ [Next]_vars => SessionInv'
<1> SUFFICES ASSUME SessionInv, [Next]_vars PROVE SessionInv'
  OBVIOUS
<1>1. ASSUME NEW s \in Sockets, Connect(s) \/ Close(s) \/ Count(s) \/ DeleteSet(s)
      PROVE  SessionInv'
  BY <1>1, ConnectStep, CloseStep, DeleteSetStep
<1>2. ASSUME NEW s \in Sockets, Crash(s) PROVE SessionInv'
  BY <1>2, FaultStep DEF Crash, client
<1>3. CASE ForwarderDies \/ ExpireLate
  BY <1>3, FaultStep DEF ForwarderDies, ExpireLate, sockets, client
<1>4. CASE Expire
  BY <1>4, ExpireStep
<1>5. CASE \/ PeerSends
           \/ \E m \in Message : LookUp(m) \/ HandOver(m)
           \/ \E s \in Sockets : HandleLate(s)
           \/ HandleHello \/ HandleHeartbeat \/ HandleSend \/ HandleSync \/ HandleResume
           \/ Reject \/ Read \/ ReadTimesOut \/ Forward \/ ForwardOther
           \/ UNCHANGED vars
  <2>1. /\ UNCHANGED <<conn, userSockets, socketKeys, current>>
        /\ status' \in {status, "online"}
    BY <1>5 DEF PeerSends, LookUp, HandOver, HandleLate, HandleHello, HandleHeartbeat,
                HandleSend, HandleSync, HandleResume, Reject, Read, ReadTimesOut, Forward,
                ForwardOther, Heartbeat, presence, sockets, client, vars
  <2>2. UNCHANGED <<overlaps, faults>>
    BY <1>5 DEF PeerSends, LookUp, HandOver, HandleLate, HandleHello, HandleHeartbeat,
                HandleSend, HandleSync, HandleResume, Reject, Read, ReadTimesOut, Forward,
                ForwardOther, Skip, ghost, vars
  <2> QED
    BY <2>1, <2>2, QuietStep
<1>6. CASE Client
  <2>1. UNCHANGED <<conn, userSockets, socketKeys, status>> /\ current' \in {current, 0}
    BY <1>6 DEF Client, Welcomed, Resumed, MessageNew, OtherMessage, MessageAccepted, SyncResponse,
                SendMessage, Disconnect, Show, presence, sockets, client
  <2>2. UNCHANGED <<overlaps, faults>>
    BY <1>6 DEF Client, Welcomed, Resumed, MessageNew, OtherMessage, MessageAccepted, SyncResponse,
                SendMessage, Disconnect, Skip, ghost
  <2> QED
    BY <2>1, <2>2, QuietStep
<1> QED
  BY <1>1, <1>2, <1>3, <1>4, <1>5, <1>6 DEF Next, Handle, Forwarder

-----------------------------------------------------------------------------
THEOREM SessionInvariant == Spec => []SessionInv
BY SessionInvInit, SessionInvStep, PTL DEF Spec

(* A user with an open connection is online, however many connections came *)
(* and went, unless a command failed or the connection was registered      *)
(* while another one was about to delete the set.                          *)
THEOREM ConnectedIsOnline == Spec => []OnlineWhileConnected
<1>1. SessionInv => OnlineWhileConnected
  <2> SUFFICES ASSUME SessionInv, Linked, ~IsOnline PROVE faults + overlaps > 0
    BY DEF OnlineWhileConnected
  <2>1. faults + overlaps # 0
    BY DEF SessionInv, Registered, IsOnline, Active
  <2> QED
    BY <2>1 DEF SessionInv, SessionTypeOK
<1> QED
  BY <1>1, SessionInvariant, PTL

-----------------------------------------------------------------------------
(* The messages, requests and events that are under way.                   *)
Members(s) == {s[n] : n \in DOMAIN s}

KnownEvent ==
    {<<"welcome">>, <<"requires_sync">>}
    \cup ({"new", "accepted"} \X DOMAIN log) \cup ({"other"} \X Message)
    \cup ({"sync"} \X (0..MaxMessages) \X (0..MaxMessages))

ConversationInv ==
    /\ log \in Seq({"mine", "theirs"}) /\ Len(log) <= MaxMessages
    /\ route \in [Message -> {"none", "queued", "stream", "notify", "handed"}]
    /\ \A m \in Message : route[m] # "none" => m \in DOMAIN log
    /\ stream \in Seq(DOMAIN log)
    /\ \A n \in DOMAIN stream : route[stream[n]] = "handed"
    /\ \A n, k \in DOMAIN stream : stream[n] = stream[k] => n = k
    /\ cursor \in 0..MaxMessages

WireInv ==
    /\ hello \in BOOLEAN
    /\ lastId \in 0..Len(stream) \cup {Dollar}
    /\ waitsAt \in 0..Len(stream) \cup {NotReading, Dead}
    /\ requests \in Seq(Request) /\ events \in Seq(KnownEvent)
    /\ current = 0 => requests = <<>> /\ events = <<>> /\ ~hello

(* The client greets first, and before the welcome it can only be told of  *)
(* new messages, of this conversation or another.                          *)
Early == {"new", "other"}

GreetingInv ==
    /\ \A n \in DOMAIN requests : requests[n] = <<"hello">> => n = 1 /\ ~hello
    /\ Linked /\ ~hello => requests # <<>> /\ Head(requests) = <<"hello">>
    /\ \A n \in DOMAIN events : ~hello => events[n][1] \in Early
    /\ \A n, k \in DOMAIN events : events[n] = <<"welcome">> /\ k < n => events[k][1] \in Early

(* What the client does not show, and nothing that loses a message has     *)
(* happened to, is on its way to it, or it will ask for it when it is      *)
(* welcomed.                                                               *)
Wanted == Missing(DOMAIN log) \ skipped

HolesInv ==
    /\ current = 0 => \A m \in Wanted : m > cursor
    /\ Linked => \A m \in Wanted : OnItsWay(m) \/ (WelcomeAwaited /\ m > cursor)

ClientInv == ConversationInv /\ WireInv /\ GreetingInv /\ HolesInv

-----------------------------------------------------------------------------
(* Sequences as sets, and what the operations on sequences do to them.     *)
LEMMA AppendMembers ==
    ASSUME NEW S, NEW s \in Seq(S), NEW x \in S
    PROVE  /\ Append(s, x) \in Seq(S) /\ Len(Append(s, x)) = Len(s) + 1
           /\ Append(s, x) # <<>>
           /\ Append(s, x)[Len(s) + 1] = x /\ \A n \in 1..Len(s) : Append(s, x)[n] = s[n]
           /\ Members(Append(s, x)) = Members(s) \cup {x}
<1>1. /\ Append(s, x) \in Seq(S) /\ Len(Append(s, x)) = Len(s) + 1 /\ Len(s) \in Nat
      /\ DOMAIN Append(s, x) = 1..(Len(s) + 1) /\ DOMAIN s = 1..Len(s)
      /\ Append(s, x)[Len(s) + 1] = x /\ \A n \in 1..Len(s) : Append(s, x)[n] = s[n]
  OBVIOUS
<1>2. Append(s, x) # <<>>
  BY <1>1
<1>3. Members(Append(s, x)) \subseteq Members(s) \cup {x}
  <2>1. ASSUME NEW n \in 1..(Len(s) + 1) PROVE Append(s, x)[n] \in Members(s) \cup {x}
    <3>1. CASE n = Len(s) + 1
      BY <1>1, <3>1
    <3>2. CASE n # Len(s) + 1
      <4>1. n \in 1..Len(s)
        BY <1>1, <3>2
      <4> QED
        BY <1>1, <4>1 DEF Members
    <3> QED
      BY <3>1, <3>2
  <2> QED
    BY <1>1, <2>1 DEF Members
<1>4. Members(s) \cup {x} \subseteq Members(Append(s, x))
  <2>1. \A n \in 1..Len(s) : n \in 1..(Len(s) + 1) /\ Append(s, x)[n] = s[n]
    BY <1>1
  <2>2. Len(s) + 1 \in 1..(Len(s) + 1)
    BY <1>1
  <2> QED
    BY <1>1, <2>1, <2>2 DEF Members
<1> QED
  BY <1>1, <1>2, <1>3, <1>4

LEMMA TailMembers ==
    ASSUME NEW S, NEW s \in Seq(S), s # <<>>
    PROVE  /\ Head(s) \in S /\ Tail(s) \in Seq(S) /\ Len(Tail(s)) = Len(s) - 1 /\ Head(s) = s[1]
           /\ 1 \in DOMAIN s
           /\ \A n \in DOMAIN Tail(s) : n \in Nat /\ n + 1 \in DOMAIN s /\ Tail(s)[n] = s[n + 1]
           /\ Members(s) = {Head(s)} \cup Members(Tail(s))
<1>1. /\ Head(s) \in S /\ Tail(s) \in Seq(S) /\ Len(Tail(s)) = Len(s) - 1
      /\ \A n \in 1..Len(Tail(s)) : Tail(s)[n] = s[n + 1]
  BY HeadTailProperties
<1>2. Len(s) \in Nat /\ Len(s) # 0 /\ DOMAIN s = 1..Len(s) /\ DOMAIN Tail(s) = 1..Len(Tail(s))
  BY <1>1, EmptySeq, LenProperties
<1>3. Head(s) = s[1] /\ 1 \in DOMAIN s
  BY <1>2
<1>4. \A n \in DOMAIN Tail(s) : n \in Nat /\ n + 1 \in DOMAIN s /\ Tail(s)[n] = s[n + 1]
  BY <1>1, <1>2
<1>5. \A n \in DOMAIN s : n = 1 \/ (n - 1 \in DOMAIN Tail(s) /\ s[n] = Tail(s)[n - 1])
  <2>1. ASSUME NEW n \in DOMAIN s, n # 1 PROVE n - 1 \in DOMAIN Tail(s) /\ s[n] = Tail(s)[n - 1]
    <3>1. n - 1 \in 1..Len(Tail(s)) /\ (n - 1) + 1 = n
      BY <1>1, <1>2, <2>1
    <3> QED
      BY <1>1, <1>2, <3>1
  <2> QED
    BY <2>1
<1>6. Members(s) \subseteq {Head(s)} \cup Members(Tail(s))
  <2>1. ASSUME NEW n \in DOMAIN s PROVE s[n] \in {Head(s)} \cup Members(Tail(s))
    <3>1. CASE n = 1
      BY <1>3, <3>1
    <3>2. CASE n # 1
      <4>1. PICK k \in DOMAIN Tail(s) : s[n] = Tail(s)[k]
        BY <1>5, <3>2
      <4> QED
        BY <4>1 DEF Members
    <3> QED
      BY <3>1, <3>2
  <2> QED
    BY <2>1 DEF Members
<1>7. {Head(s)} \cup Members(Tail(s)) \subseteq Members(s)
  BY <1>3, <1>4 DEF Members
<1> QED
  BY <1>1, <1>3, <1>4, <1>6, <1>7

LEMMA ConcatMembers ==
    ASSUME NEW S, NEW s \in Seq(S), NEW t \in Seq(S)
    PROVE  /\ s \o t \in Seq(S)
           /\ \A n \in DOMAIN (s \o t) :
                 \/ n \in DOMAIN s /\ (s \o t)[n] = s[n]
                 \/ \A k \in DOMAIN s : k < n /\ (s \o t)[n] \in Members(t)
           /\ Members(s \o t) = Members(s) \cup Members(t)
<1>1. /\ s \o t \in Seq(S) /\ Len(s \o t) = Len(s) + Len(t)
      /\ \A n \in 1..(Len(s) + Len(t)) :
            (s \o t)[n] = IF n <= Len(s) THEN s[n] ELSE t[n - Len(s)]
  BY ConcatProperties
<1>2. /\ Len(s) \in Nat /\ Len(t) \in Nat /\ DOMAIN s = 1..Len(s) /\ DOMAIN t = 1..Len(t)
      /\ DOMAIN (s \o t) = 1..(Len(s) + Len(t))
  BY <1>1, LenProperties
<1>3. ASSUME NEW n \in DOMAIN (s \o t)
      PROVE  \/ n \in DOMAIN s /\ (s \o t)[n] = s[n]
             \/ n > Len(s) /\ (s \o t)[n] \in Members(t)
  <2>1. CASE n <= Len(s)
    BY <1>1, <1>2, <2>1
  <2>2. CASE ~(n <= Len(s))
    <3>1. n - Len(s) \in DOMAIN t /\ n > Len(s) /\ (s \o t)[n] = t[n - Len(s)]
      BY <1>1, <1>2, <2>2
    <3> QED
      BY <3>1 DEF Members
  <2> QED
    BY <2>1, <2>2
<1>4. \A n \in DOMAIN s : n \in DOMAIN (s \o t) /\ (s \o t)[n] = s[n]
  BY <1>1, <1>2
<1>5. \A n \in DOMAIN t : Len(s) + n \in DOMAIN (s \o t) /\ (s \o t)[Len(s) + n] = t[n]
  <2>1. ASSUME NEW n \in DOMAIN t
        PROVE  Len(s) + n \in DOMAIN (s \o t) /\ (s \o t)[Len(s) + n] = t[n]
    <3>1. Len(s) + n \in 1..(Len(s) + Len(t)) /\ ~(Len(s) + n <= Len(s)) /\ (Len(s) + n) - Len(s) = n
      BY <1>2
    <3> QED
      BY <1>1, <1>2, <3>1
  <2> QED
    BY <2>1
<1>6. Members(s \o t) \subseteq Members(s) \cup Members(t)
  BY <1>3 DEF Members
<1>7. Members(s) \cup Members(t) \subseteq Members(s \o t)
  BY <1>4, <1>5 DEF Members
<1>8. \A n \in DOMAIN (s \o t) :
         \/ n \in DOMAIN s /\ (s \o t)[n] = s[n]
         \/ \A k \in DOMAIN s : k < n /\ (s \o t)[n] \in Members(t)
  <2>1. ASSUME NEW n \in DOMAIN (s \o t), n > Len(s), NEW k \in DOMAIN s PROVE k < n
    BY <1>2, <2>1
  <2> QED
    BY <1>3, <2>1
<1> QED
  BY <1>1, <1>6, <1>7, <1>8

LEMMA OneMember == ASSUME NEW x PROVE Members(<<x>>) = {x} /\ Members(<<>>) = {}
BY DEF Members

-----------------------------------------------------------------------------
(* The forms of a request and of an event.                                 *)
LEMMA RequestForms ==
    ASSUME NEW r \in Request
    PROVE  \/ r = <<"hello">> /\ r[1] = "hello"
           \/ r = <<"send">> /\ r[1] = "send"
           \/ r[1] \in {"sync", "resume"} /\ r[2] \in 0..MaxMessages /\ r # <<"hello">>
<1>1. CASE r \in {"sync", "resume"} \X (0..MaxMessages)
  <2>1. r[1] \in {"sync", "resume"} /\ r[2] \in 0..MaxMessages
    BY <1>1
  <2>2. <<"hello">>[1] = "hello"
    OBVIOUS
  <2> QED
    BY <2>1, <2>2
<1> QED
  BY <1>1 DEF Request

LEMMA EventForms ==
    ASSUME NEW e \in KnownEvent
    PROVE  \/ e = <<"welcome">> /\ e[1] = "welcome"
           \/ e = <<"requires_sync">> /\ e[1] = "requires_sync"
           \/ e[1] \in {"new", "accepted"} /\ e[2] \in DOMAIN log /\ e = <<e[1], e[2]>>
           \/ e[1] = "other" /\ e[2] \in Message
           \/ e[1] = "sync" /\ e[2] \in 0..MaxMessages /\ e[3] \in 0..MaxMessages
<1>1. CASE e \in {"new", "accepted"} \X DOMAIN log
  BY <1>1
<1>2. CASE e \in {"other"} \X Message
  BY <1>2
<1>3. CASE e \in {"sync"} \X (0..MaxMessages) \X (0..MaxMessages)
  BY <1>3
<1> QED
  BY <1>1, <1>2, <1>3 DEF KnownEvent

(* What an event brings.                                                   *)
LEMMA EventCarries ==
    ASSUME NEW e \in KnownEvent, NEW m, Carries(e, m)
    PROVE  \/ e[1] = "new" /\ e[2] = m
           \/ e[1] = "requires_sync"
           \/ e[1] = "sync" /\ e[2] < m /\ m <= e[3]
<1>1. CASE e = <<"new", m>>
  BY <1>1
<1>2. CASE e = <<"requires_sync">>
  BY <1>2
<1> QED
  BY <1>1, <1>2 DEF Carries

LEMMA LogTyped ==
    ASSUME ConversationInv
    PROVE  /\ Len(log) \in Nat /\ DOMAIN log = 1..Len(log) /\ DOMAIN log \subseteq Message
           /\ cursor \in Nat /\ cursor <= MaxMessages
<1>1. Len(log) \in Nat /\ DOMAIN log = 1..Len(log) /\ Len(log) <= MaxMessages
  BY LenProperties DEF ConversationInv
<1>2. cursor \in Nat /\ cursor <= MaxMessages
  BY DEF ConversationInv
<1> QED
  BY <1>1, <1>2 DEF Message

(* Every message is handed over once.                                      *)
LEMMA StreamWithinLog ==
    ASSUME ConversationInv
    PROVE  Len(stream) <= Len(log)
<1>1. Len(stream) \in Nat /\ DOMAIN stream = 1..Len(stream) /\ stream \in [1..Len(stream) -> DOMAIN log]
  BY LenProperties DEF ConversationInv
<1>2. Len(log) \in Nat /\ DOMAIN log = 1..Len(log)
  BY LogTyped
<1>3. stream \in Injection(1..Len(stream), 1..Len(log))
  BY <1>1, <1>2 DEF ConversationInv, Injection, IsInjective
<1>4. /\ IsFiniteSet(1..Len(log))
      /\ Cardinality(1..Len(log)) = IF 1 > Len(log) THEN 0 ELSE Len(log) - 1 + 1
  BY <1>2, FS_Interval
<1>5. /\ IsFiniteSet(1..Len(stream))
      /\ Cardinality(1..Len(stream)) = IF 1 > Len(stream) THEN 0 ELSE Len(stream) - 1 + 1
  BY <1>1, FS_Interval
<1>6. Cardinality(1..Len(stream)) <= Cardinality(1..Len(log))
  BY <1>3, <1>4, FS_Injection
<1> QED
  BY <1>1, <1>2, <1>4, <1>5, <1>6

LEMMA StreamTyped ==
    ASSUME ConversationInv
    PROVE  /\ Len(stream) \in Nat /\ DOMAIN stream = 1..Len(stream)
           /\ \A n \in DOMAIN stream : stream[n] \in DOMAIN log
           /\ Len(stream) <= MaxMessages
<1>1. /\ Len(stream) \in Nat /\ DOMAIN stream = 1..Len(stream)
      /\ stream \in [1..Len(stream) -> DOMAIN log]
  BY LenProperties DEF ConversationInv
<1>2. Len(stream) <= Len(log) /\ Len(log) \in Nat /\ Len(log) <= MaxMessages
  BY StreamWithinLog, LogTyped DEF ConversationInv
<1> QED
  BY <1>1, <1>2

(* What is on its way, by the sets of what is under way.                   *)
LEMMA WaysOn ==
    ASSUME NEW m
    PROVE  OnItsWay(m) <=>
             /\ Linked
             /\ \/ route[m] \in {"queued", "stream"}
                \/ Ahead(m)
                \/ \E r \in Members(requests) : AsksFor(r, m)
                \/ \E e \in Members(events) : Carries(e, m)
BY DEF OnItsWay, Members

LEMMA WaysOnNext ==
    ASSUME NEW m
    PROVE  OnItsWay(m)' <=>
             /\ Linked'
             /\ \/ route'[m] \in {"queued", "stream"}
                \/ Ahead(m)'
                \/ \E r \in Members(requests') : AsksFor(r, m)
                \/ \E e \in Members(events') : Carries(e, m)
BY DEF OnItsWay, Members, AsksFor, Carries


-----------------------------------------------------------------------------
(* The conversation: the log grows, and every message is handed over once. *)
LEMMA LogAppended ==
    ASSUME ConversationInv, Len(log) < MaxMessages,
           NEW x \in {"mine", "theirs"}, log' = Append(log, x)
    PROVE  /\ log' \in Seq({"mine", "theirs"}) /\ Len(log') = Len(log) + 1
           /\ Len(log') <= MaxMessages
           /\ DOMAIN log' = 1..(Len(log) + 1) /\ DOMAIN log \subseteq DOMAIN log'
           /\ log'[Len(log) + 1] = x /\ \A n \in DOMAIN log : log'[n] = log[n]
           /\ Len(log) + 1 \in Message /\ Len(log) + 1 \notin DOMAIN log
<1>1. log \in Seq({"mine", "theirs"})
  BY DEF ConversationInv
<1>2. /\ log' \in Seq({"mine", "theirs"}) /\ Len(log') = Len(log) + 1
      /\ log'[Len(log) + 1] = x /\ \A n \in 1..Len(log) : log'[n] = log[n]
  BY <1>1, AppendMembers
<1>3. DOMAIN log' = 1..Len(log')
  BY <1>2, LenProperties
<1> QED
  BY <1>2, <1>3, LogTyped DEF Message

LEMMA ConversationKept ==
    ASSUME ConversationInv, UNCHANGED <<log, route, stream>>, cursor' \in 0..MaxMessages
    PROVE  ConversationInv'
BY DEF ConversationInv

(* The log grows, and the new message is queued or stays where it was.     *)
LEMMA ConversationGrows ==
    ASSUME ConversationInv, Len(log) < MaxMessages, UNCHANGED <<stream, cursor>>,
           NEW x \in {"mine", "theirs"}, log' = Append(log, x),
           \/ UNCHANGED route
           \/ x = "theirs" /\ route' = [route EXCEPT ![Len(log) + 1] = "queued"]
    PROVE  ConversationInv'
<1>1. /\ log' \in Seq({"mine", "theirs"}) /\ Len(log') <= MaxMessages
      /\ DOMAIN log \subseteq DOMAIN log' /\ Len(log) + 1 \in DOMAIN log'
      /\ Len(log) + 1 \notin DOMAIN log /\ cursor' \in 0..MaxMessages
  BY LogAppended, LogTyped DEF ConversationInv
<1>2. /\ route' \in [Message -> {"none", "queued", "stream", "notify", "handed"}]
      /\ \A m \in Message : m # Len(log) + 1 => route'[m] = route[m]
      /\ \A m \in Message : route'[m] # "none" => m = Len(log) + 1 \/ route[m] # "none"
  BY DEF ConversationInv
<1>3. \A m \in Message : route'[m] # "none" => m \in DOMAIN log'
  BY <1>1, <1>2 DEF ConversationInv
<1>4. stream \in Seq(DOMAIN log')
  BY <1>1, SeqMonotonic DEF ConversationInv
<1>5. \A n \in DOMAIN stream : stream[n] \in Message /\ stream[n] # Len(log) + 1
  BY <1>1, StreamTyped, LogTyped
<1> QED
  BY <1>1, <1>2, <1>3, <1>4, <1>5 DEF ConversationInv

LEMMA PeerSendsConversation ==
    ASSUME ConversationInv, PeerSends PROVE ConversationInv'
BY ConversationGrows DEF PeerSends, client

LEMMA LookUpConversation ==
    ASSUME ConversationInv, NEW m \in Message, LookUp(m) PROVE ConversationInv'
<1>1. /\ UNCHANGED <<log, stream, cursor>> /\ route[m] = "queued"
      /\ route' \in [Message -> {"none", "queued", "stream", "notify", "handed"}]
      /\ \A k \in Message : k # m => route'[k] = route[k]
  BY DEF LookUp, client, ConversationInv
<1>2. \A k \in Message : route'[k] # "none" => route[k] # "none"
  BY <1>1
<1>3. \A n \in DOMAIN stream : stream[n] \in Message /\ stream[n] # m
  BY <1>1, StreamTyped, LogTyped DEF ConversationInv
<1> QED
  BY <1>1, <1>2, <1>3 DEF ConversationInv

LEMMA HandOverConversation ==
    ASSUME ConversationInv, NEW m \in Message, HandOver(m)
    PROVE  /\ ConversationInv'
           /\ Len(stream) <= Len(stream')
           /\ \A n \in DOMAIN stream : n \in DOMAIN stream' /\ stream'[n] = stream[n]
           /\ Len(stream) + 1 \in DOMAIN stream' /\ stream'[Len(stream) + 1] = m
<1>1. /\ UNCHANGED <<log, cursor>> /\ route[m] = "stream" /\ stream' = Append(stream, m)
      /\ route' \in [Message -> {"none", "queued", "stream", "notify", "handed"}]
      /\ route'[m] = "handed" /\ \A k \in Message : k # m => route'[k] = route[k]
  BY DEF HandOver, client, ConversationInv
<1>2. m \in DOMAIN log /\ stream \in Seq(DOMAIN log)
  BY <1>1 DEF ConversationInv
<1>3. \A k \in Message : route'[k] # "none" => k \in DOMAIN log'
  BY <1>1, <1>2 DEF ConversationInv
<1>4. \A n \in DOMAIN stream : stream[n] \in Message /\ stream[n] # m
  BY <1>1, StreamTyped, LogTyped DEF ConversationInv
<1>5. /\ stream' \in Seq(DOMAIN log) /\ Len(stream') = Len(stream) + 1
      /\ stream'[Len(stream) + 1] = m /\ \A n \in 1..Len(stream) : stream'[n] = stream[n]
  BY <1>1, <1>2, AppendMembers
<1>6. DOMAIN stream' = 1..(Len(stream) + 1) /\ DOMAIN stream = 1..Len(stream) /\ Len(stream) \in Nat
  BY <1>5, StreamTyped, LenProperties
<1>7. ASSUME NEW n \in DOMAIN stream'
      PROVE  \/ n = Len(stream) + 1 /\ stream'[n] = m
             \/ n \in DOMAIN stream /\ stream'[n] = stream[n] /\ stream'[n] # m
  BY <1>4, <1>5, <1>6
<1>8. \A n \in DOMAIN stream' : route'[stream'[n]] = "handed"
  BY <1>1, <1>4, <1>7 DEF ConversationInv
<1>9. \A n, k \in DOMAIN stream' : stream'[n] = stream'[k] => n = k
  BY <1>7 DEF ConversationInv
<1>10. ConversationInv'
  BY <1>1, <1>3, <1>5, <1>8, <1>9 DEF ConversationInv
<1> QED
  BY <1>5, <1>6, <1>10

(* The client's cursor stays within the bound on the messages.             *)
LEMMA ShowConversation ==
    ASSUME ConversationInv, UNCHANGED server, NEW S, NEW seq \in 0..MaxMessages, Show(S, seq)
    PROVE  ConversationInv'
<1>1. cursor' \in 0..MaxMessages
  BY LogTyped DEF Show, Greater
<1> QED
  BY <1>1, ConversationKept DEF server

(* What the client receives next.                                          *)
LEMMA Received ==
    ASSUME WireInv, ConversationInv, events # <<>>
    PROVE  /\ Head(events) \in KnownEvent /\ Tail(events) \in Seq(KnownEvent)
           /\ current # 0
           /\ Got("new") \/ Got("accepted") => Arg(1) \in DOMAIN log
           /\ Got("new") => Head(events) = <<"new", Arg(1)>>
           /\ Got("other") => Arg(1) \in Message
           /\ Got("sync") => Arg(1) \in 0..MaxMessages /\ Arg(2) \in 0..MaxMessages
<1>1. Head(events) \in KnownEvent /\ Tail(events) \in Seq(KnownEvent) /\ current # 0
  BY TailMembers DEF WireInv
<1>2. /\ Head(events)[1] \in {"new", "accepted"} =>
            Head(events)[2] \in DOMAIN log /\ Head(events) = <<Head(events)[1], Head(events)[2]>>
      /\ Head(events)[1] = "other" => Head(events)[2] \in Message
      /\ Head(events)[1] = "sync" =>
            Head(events)[2] \in 0..MaxMessages /\ Head(events)[3] \in 0..MaxMessages
  BY <1>1, EventForms
<1>3. Arg(1) = Head(events)[2] /\ Arg(2) = Head(events)[3]
  BY DEF Arg
<1> QED
  BY <1>1, <1>2, <1>3 DEF Got

LEMMA ConversationStep ==
    ASSUME ConversationInv, WireInv, [Next]_vars
    PROVE  ConversationInv' /\ Len(log) <= Len(log') /\ Len(stream) <= Len(stream')
<1>t. Len(log) \in Nat /\ Len(stream) \in Nat /\ cursor \in 0..MaxMessages
  BY LogTyped, StreamTyped DEF ConversationInv
<1>1. CASE UNCHANGED <<server, cursor>>
  BY <1>1, <1>t, ConversationKept DEF server
<1>2. CASE PeerSends
  BY <1>2, <1>t, PeerSendsConversation, LogAppended DEF PeerSends
<1>3. ASSUME NEW m \in Message, LookUp(m) \/ HandOver(m)
      PROVE  ConversationInv' /\ Len(log) <= Len(log') /\ Len(stream) <= Len(stream')
  <2>1. ConversationInv'
    BY <1>3, LookUpConversation, HandOverConversation
  <2>2. log' = log
    BY <1>3 DEF LookUp, HandOver
  <2>3. Len(stream) <= Len(stream')
    BY <1>3, <1>t, HandOverConversation DEF LookUp
  <2> QED
    BY <1>t, <2>1, <2>2, <2>3
<1>4. CASE HandleSend \/ \E s \in Sockets : HandleLate(s)
  <2>1. /\ Len(log) < MaxMessages /\ log' = Append(log, "mine")
        /\ UNCHANGED <<route, stream, cursor>>
    BY <1>4 DEF HandleSend, HandleLate, client
  <2> QED
    BY <1>t, <2>1, ConversationGrows, LogAppended
<1>5. CASE MessageNew \/ OtherMessage \/ MessageAccepted \/ SyncResponse
  <2>1. UNCHANGED server
    BY <1>5 DEF MessageNew, OtherMessage, MessageAccepted, SyncResponse
  <2>2. DOMAIN log \subseteq 0..MaxMessages /\ Message \subseteq 0..MaxMessages
    BY LogTyped DEF Message
  <2>3. \E S : \E seq \in 0..MaxMessages : Show(S, seq)
    BY <1>5, <2>2, Received DEF MessageNew, OtherMessage, MessageAccepted, SyncResponse, Got
  <2> QED
    BY <1>t, <2>1, <2>3, ShowConversation DEF server
<1>6. CASE \/ \E s \in Sockets : \/ Connect(s) \/ Close(s) \/ Count(s)
                                 \/ DeleteSet(s) \/ Crash(s)
           \/ HandleHello \/ HandleHeartbeat \/ HandleSync \/ HandleResume \/ Reject
           \/ Forwarder \/ Welcomed \/ Resumed \/ SendMessage \/ Disconnect
           \/ Expire \/ ExpireLate \/ UNCHANGED vars
  <2>1. UNCHANGED <<server, cursor>>
    BY <1>6 DEF Connect, Close, Count, DeleteSet, Crash, HandleHello, HandleHeartbeat,
                HandleSync, HandleResume, Reject, Forwarder, Read, ReadTimesOut, Forward,
                ForwardOther, ForwarderDies, Welcomed, Resumed, SendMessage, Disconnect, Expire,
                ExpireLate, client, vars
  <2> QED
    BY <2>1, <1>1
<1> QED
  BY <1>2, <1>3, <1>4, <1>5, <1>6 DEF Next, Handle, Client

-----------------------------------------------------------------------------
(* The wire: what is known stays known as the log grows.                   *)
LEMMA WireGrown ==
    ASSUME ConversationInv, WireInv, ConversationInv',
           Len(log) <= Len(log'), Len(stream) <= Len(stream')
    PROVE  /\ KnownEvent \subseteq KnownEvent' /\ events \in Seq(KnownEvent')
           /\ lastId \in 0..Len(stream') \cup {Dollar}
           /\ waitsAt \in 0..Len(stream') \cup {NotReading, Dead}
<1>1. Len(log) \in Nat /\ Len(log') \in Nat /\ Len(stream) \in Nat /\ Len(stream') \in Nat
  BY LogTyped, StreamTyped, LenProperties DEF ConversationInv
<1>2. DOMAIN log = 1..Len(log) /\ DOMAIN log' = 1..Len(log')
  BY LogTyped, LenProperties DEF ConversationInv
<1>3. DOMAIN log \subseteq DOMAIN log'
  BY <1>1, <1>2
<1>4. KnownEvent \subseteq KnownEvent'
  BY <1>3 DEF KnownEvent
<1>5. events \in Seq(KnownEvent')
  BY <1>4, SeqMonotonic DEF WireInv
<1> QED
  BY <1>1, <1>4, <1>5 DEF WireInv, NotReading, Dead, Dollar

(* Events sent after those that are under way.                             *)
LEMMA GreetingEvents ==
    ASSUME WireInv, GreetingInv, NEW es \in Seq(KnownEvent'),
           events \in Seq(KnownEvent'), events' = events \o es, hello' = hello,
           \A e \in Members(es) : e # <<"welcome">> /\ (~hello => e[1] \in Early)
    PROVE  /\ events' \in Seq(KnownEvent')
           /\ Members(events') = Members(events) \cup Members(es)
           /\ WelcomeAwaited => WelcomeAwaited'
           /\ \A n \in DOMAIN events' : ~hello' => events'[n][1] \in Early
           /\ \A n, k \in DOMAIN events' :
                events'[n] = <<"welcome">> /\ k < n => events'[k][1] \in Early
<1>1. /\ events' \in Seq(KnownEvent')
      /\ Members(events') = Members(events) \cup Members(es)
      /\ \A n \in DOMAIN events' :
            \/ n \in DOMAIN events /\ events'[n] = events[n]
            \/ \A k \in DOMAIN events : k < n /\ events'[n] \in Members(es)
  BY ConcatMembers
<1>2. ASSUME NEW n \in DOMAIN events'
      PROVE  \/ n \in DOMAIN events /\ events'[n] = events[n]
             \/ /\ \A k \in DOMAIN events : k < n
                /\ events'[n] # <<"welcome">> /\ (~hello => events'[n][1] \in Early)
  <2>2. CASE events = <<>>
    <3>1. events' = es
      BY <2>2
    <3> QED
      BY <2>2, <3>1 DEF Members
  <2>3. CASE events # <<>>
    <3>1. DOMAIN events # {}
      BY <2>3, TailMembers
    <3> QED
      BY <1>1, <3>1
  <2> QED
    BY <2>2, <2>3
<1>3. DOMAIN events \subseteq Int /\ DOMAIN events' \subseteq Int
  BY <1>1, LenProperties DEF WireInv
<1>4. \A n \in DOMAIN events' : ~hello' => events'[n][1] \in Early
  BY <1>2 DEF GreetingInv
<1>5. ASSUME NEW n \in DOMAIN events', NEW k \in DOMAIN events',
             events'[n] = <<"welcome">>, k < n
      PROVE  events'[k][1] \in Early
  <2>1. n \in DOMAIN events /\ events[n] = <<"welcome">>
    BY <1>2, <1>5
  <2>2. ~(n < k)
    BY <1>3, <1>5
  <2>3. k \in DOMAIN events /\ events'[k] = events[k]
    BY <1>2, <2>1, <2>2
  <2> QED
    BY <1>5, <2>1, <2>3 DEF GreetingInv
<1>6. \A n \in DOMAIN events : n \in DOMAIN events' /\ events'[n] = events[n]
  BY ConcatProperties, LenProperties DEF WireInv
<1> QED
  BY <1>1, <1>4, <1>5, <1>6 DEF WelcomeAwaited

(* An answer to any request but the greeting.                              *)
LEMMA Answered ==
    ASSUME WireInv, GreetingInv, events \in Seq(KnownEvent'),
           lastId \in 0..Len(stream') \cup {Dollar},
           waitsAt \in 0..Len(stream') \cup {NotReading, Dead},
           Linked, requests # <<>>, hello, UNCHANGED <<hello, reader, current>>,
           NEW es \in Seq(KnownEvent'), Answer(es), \A e \in Members(es) : e # <<"welcome">>
    PROVE  /\ WireInv' /\ GreetingInv' /\ (WelcomeAwaited => WelcomeAwaited')
           /\ Members(requests) = {Head(requests)} \cup Members(requests')
           /\ Members(events') = Members(events) \cup Members(es)
<1>1. /\ events' \in Seq(KnownEvent')
      /\ Members(events') = Members(events) \cup Members(es)
      /\ WelcomeAwaited => WelcomeAwaited'
      /\ \A n \in DOMAIN events' : ~hello' => events'[n][1] \in Early
      /\ \A n, k \in DOMAIN events' :
            events'[n] = <<"welcome">> /\ k < n => events'[k][1] \in Early
  BY GreetingEvents DEF Answer, Reply
<1>2. /\ requests' \in Seq(Request)
      /\ \A n \in DOMAIN requests' : n + 1 \in DOMAIN requests /\ requests'[n] = requests[n + 1]
      /\ Members(requests) = {Head(requests)} \cup Members(requests')
  BY TailMembers DEF Answer, WireInv
<1>3. \A n \in DOMAIN requests' : requests'[n] # <<"hello">>
  BY <1>2 DEF GreetingInv
<1>4. hello' /\ hello' \in BOOLEAN /\ current' # 0
  BY DEF Linked, WireInv
<1>5. WireInv'
  BY <1>1, <1>2, <1>4 DEF WireInv, reader
<1>6. GreetingInv'
  BY <1>1, <1>3, <1>4 DEF GreetingInv
<1> QED
  BY <1>1, <1>2, <1>5, <1>6

LEMMA HelloWire ==
    ASSUME WireInv, GreetingInv, HandleHello, ConversationInv, UNCHANGED <<log, stream>>
    PROVE  /\ WireInv' /\ GreetingInv' /\ WelcomeAwaited'
           /\ Members(requests) = {<<"hello">>} \cup Members(requests')
           /\ Members(events') = Members(events) \cup {<<"welcome">>}
<1>1. /\ Linked /\ requests # <<>> /\ Head(requests)[1] = "hello" /\ hello'
      /\ requests' = Tail(requests) /\ events' = events \o << <<"welcome">> >>
      /\ UNCHANGED <<lastId, waitsAt, current>>
  BY DEF HandleHello, Asked, Answer, Reply, reader, client
<1>2. /\ Head(requests) \in Request /\ requests' \in Seq(Request)
      /\ Head(requests) = requests[1] /\ 1 \in DOMAIN requests
      /\ \A n \in DOMAIN requests' : n \in Nat /\ n + 1 \in DOMAIN requests
                                     /\ requests'[n] = requests[n + 1]
      /\ Members(requests) = {Head(requests)} \cup Members(requests')
      /\ DOMAIN requests' \subseteq Nat \ {0}
  BY <1>1, TailMembers, LenProperties DEF WireInv
<1>3. Head(requests) = <<"hello">>
  BY <1>1, <1>2, RequestForms
<1>4. ~hello
  BY <1>2, <1>3 DEF GreetingInv
<1>5. << <<"welcome">> >> \in Seq(KnownEvent) /\ Members(<< <<"welcome">> >>) = {<<"welcome">>}
  BY OneMember DEF KnownEvent
<1>6. /\ events' \in Seq(KnownEvent) /\ Len(events') = Len(events) + 1
      /\ Members(events') = Members(events) \cup {<<"welcome">>}
      /\ events'[Len(events) + 1] = <<"welcome">>
      /\ \A n \in 1..Len(events) : events'[n] = events[n]
      /\ DOMAIN events' = 1..(Len(events) + 1) /\ DOMAIN events = 1..Len(events)
      /\ Len(events) \in Nat
  <2>1. events' = Append(events, <<"welcome">>) /\ <<"welcome">> \in KnownEvent
    BY <1>1 DEF WireInv, KnownEvent
  <2> QED
    BY <2>1, AppendMembers, LenProperties DEF WireInv
<1>7. KnownEvent' = KnownEvent
  BY DEF KnownEvent
<1>8. WireInv'
  BY <1>1, <1>2, <1>6, <1>7 DEF WireInv, Linked
<1>9. \A n \in DOMAIN requests' : requests'[n] # <<"hello">>
  BY <1>2 DEF GreetingInv
<1>10. \A n, k \in DOMAIN events' :
          events'[n] = <<"welcome">> /\ k < n => events'[k][1] \in Early
  <2>1. ASSUME NEW n \in DOMAIN events', NEW k \in DOMAIN events', k < n
        PROVE  events'[k][1] \in Early
    <3>1. k \in DOMAIN events /\ events'[k] = events[k]
      BY <1>6, <2>1
    <3> QED
      BY <1>4, <3>1 DEF GreetingInv
  <2> QED
    BY <2>1
<1>11. GreetingInv'
  BY <1>1, <1>9, <1>10 DEF GreetingInv
<1>12. WelcomeAwaited'
  <2>1. Len(events) + 1 \in DOMAIN events'
    BY <1>6
  <2> QED
    BY <1>6, <2>1 DEF WelcomeAwaited
<1> QED
  BY <1>2, <1>3, <1>6, <1>8, <1>11, <1>12

-----------------------------------------------------------------------------
(* A step that keeps what is on its way there.                             *)
LEMMA HolesKept ==
    ASSUME HolesInv, UNCHANGED cursor, current' = 0 => current = 0,
           \A m \in Wanted' : m \in Wanted,
           Linked' => Linked /\ (WelcomeAwaited => WelcomeAwaited')
                             /\ \A m \in Wanted' : OnItsWay(m) => OnItsWay(m)'
    PROVE  HolesInv'
BY DEF HolesInv

LEMMA WantedSubset ==
    ASSUME UNCHANGED <<log, shown>>, NEW S, skipped' = skipped \cup S
    PROVE  \A m \in Wanted' : m \in Wanted /\ m \notin S
BY DEF Wanted, Missing, Theirs

LEMMA WantedOthers ==
    ASSUME ConversationInv, Len(log) < MaxMessages, log' = Append(log, "mine"),
           UNCHANGED <<shown, skipped>>
    PROVE  \A m \in Wanted' : m \in Wanted
<1>1. /\ log'[Len(log) + 1] = "mine" /\ \A n \in DOMAIN log : log'[n] = log[n]
      /\ DOMAIN log' = 1..(Len(log) + 1) /\ DOMAIN log = 1..Len(log) /\ Len(log) \in Nat
  BY LogAppended, LogTyped
<1>2. \A m \in DOMAIN log' : m \in DOMAIN log \/ m = Len(log) + 1
  BY <1>1
<1> QED
  BY <1>1, <1>2 DEF Wanted, Missing, Theirs

(* Answering a request loses no way but the request itself.                *)
LEMMA AnswerWays ==
    ASSUME NEW m, OnItsWay(m), Linked', UNCHANGED <<route, stream, reader>>,
           NEW h, NEW E, ~AsksFor(h, m),
           Members(requests) = {h} \cup Members(requests'),
           Members(events') = Members(events) \cup E
    PROVE  OnItsWay(m)'
<1>1. Ahead(m) => Ahead(m)'
  BY DEF Ahead, reader, NotReading
<1> QED
  BY <1>1, WaysOn, WaysOnNext

LEMMA Page ==
    ASSUME ConversationInv, NEW after \in 0..MaxMessages, NEW limit \in Nat
    PROVE  /\ WindowEnd(after, limit) \in 0..MaxMessages /\ after <= WindowEnd(after, limit)
           /\ after < WindowEnd(after, limit) => WindowEnd(after, limit) <= Len(log)
<1>1. Len(log) \in Nat /\ Len(log) <= MaxMessages
  BY LogTyped DEF ConversationInv
<1> QED
  BY <1>1 DEF WindowEnd, Greater, Lesser

LEMMA ReplayEvents ==
    ASSUME ConversationInv, NEW after \in 0..MaxMessages, NEW end \in 0..MaxMessages, after <= end,
           after < end => end <= Len(log)
    PROVE  /\ Replay(after, end) \in Seq(KnownEvent)
           /\ \A e \in Members(Replay(after, end)) : e[1] = "new"
           /\ \A m \in (after + 1)..end : <<"new", m>> \in Members(Replay(after, end))
<1>1. \A i \in 1..(end - after) : after + i \in DOMAIN log
  BY LogTyped
<1>2. \A i \in 1..(end - after) : <<"new", after + i>> \in KnownEvent
  BY <1>1 DEF KnownEvent
<1>3. end - after \in Nat
  BY LogTyped
<1>4. Replay(after, end) \in Seq(KnownEvent) /\ DOMAIN Replay(after, end) = 1..(end - after)
  BY <1>2, <1>3 DEF Replay
<1>5. \A e \in Members(Replay(after, end)) : e[1] = "new"
  BY <1>4 DEF Members, Replay
<1>6. ASSUME NEW m \in (after + 1)..end PROVE <<"new", m>> \in Members(Replay(after, end))
  <2>1. m - after \in 1..(end - after) /\ after + (m - after) = m
    BY LogTyped
  <2>2. Replay(after, end)[m - after] = <<"new", m>>
    BY <2>1 DEF Replay
  <2> QED
    BY <1>4, <2>1, <2>2 DEF Members
<1> QED
  BY <1>4, <1>5, <1>6

(* The request that is answered.                                           *)
LEMMA AskedFor ==
    ASSUME ConversationInv, WireInv, GreetingInv, Linked, requests # <<>>
    PROVE  /\ Head(requests) \in Request
           /\ Head(requests)[1] # "hello" => hello
           /\ Head(requests)[1] \in {"sync", "resume"} => Head(requests)[2] \in 0..MaxMessages
<1>1. Head(requests) \in Request
  BY TailMembers DEF WireInv
<1>2. Head(requests) = <<"hello">> => Head(requests)[1] = "hello"
  OBVIOUS
<1>3. Head(requests)[1] \in {"sync", "resume"} => Head(requests)[2] \in 0..MaxMessages
  BY <1>1, RequestForms
<1> QED
  BY <1>1, <1>2, <1>3 DEF GreetingInv

(* What follows when a request is answered with es, and the messages it    *)
(* asked for are among those or are skipped.                               *)
LEMMA AnsweredHoles ==
    ASSUME ClientInv, ConversationInv', Len(log) <= Len(log'), UNCHANGED stream,
           Linked, requests # <<>>, hello,
           UNCHANGED <<route, hello, reader, current, cursor>>,
           NEW es \in Seq(KnownEvent'), Answer(es), \A e \in Members(es) : e # <<"welcome">>,
           \A m \in Wanted' : m \in Wanted,
           \A m \in Wanted' : AsksFor(Head(requests), m) => \E e \in Members(es) : Carries(e, m)
    PROVE  WireInv' /\ GreetingInv' /\ HolesInv'
<1>1. /\ KnownEvent \subseteq KnownEvent' /\ events \in Seq(KnownEvent')
      /\ lastId \in 0..Len(stream') \cup {Dollar}
      /\ waitsAt \in 0..Len(stream') \cup {NotReading, Dead}
  BY WireGrown, StreamTyped DEF ClientInv
<1>2. /\ WireInv' /\ GreetingInv' /\ (WelcomeAwaited => WelcomeAwaited')
      /\ Members(requests) = {Head(requests)} \cup Members(requests')
      /\ Members(events') = Members(events) \cup Members(es)
  BY <1>1, Answered DEF ClientInv
<1>3. ASSUME Linked', NEW m \in Wanted', OnItsWay(m) PROVE OnItsWay(m)'
  <2>1. CASE AsksFor(Head(requests), m)
    <3>1. \E e \in Members(events') : Carries(e, m)
      BY <1>2, <2>1
    <3> QED
      BY <1>3, <3>1, WaysOnNext
  <2>2. CASE ~AsksFor(Head(requests), m)
    BY <1>2, <1>3, <2>2, AnswerWays
  <2> QED
    BY <2>1, <2>2
<1>4. HolesInv'
  BY <1>2, <1>3, HolesKept DEF ClientInv
<1> QED
  BY <1>2, <1>4

LEMMA HandleHelloClient ==
    ASSUME ClientInv, HandleHello PROVE WireInv' /\ GreetingInv' /\ HolesInv'
<1>1. /\ UNCHANGED <<log, route, stream, reader, current, cursor, shown, skipped, conn>>
      /\ Linked
  BY DEF HandleHello, Asked, server, sockets, client, ghost
<1>2. /\ WireInv' /\ GreetingInv' /\ WelcomeAwaited'
      /\ Members(requests) = {<<"hello">>} \cup Members(requests')
      /\ Members(events') = Members(events) \cup {<<"welcome">>}
  BY <1>1, HelloWire DEF ClientInv
<1>3. \A m : ~AsksFor(<<"hello">>, m)
  BY DEF AsksFor
<1>4. \A m \in Wanted' : m \in Wanted
  BY <1>1 DEF Wanted, Missing, Theirs
<1>5. \A m \in Wanted' : Linked' /\ OnItsWay(m) => OnItsWay(m)'
  BY <1>1, <1>2, <1>3, AnswerWays
<1> QED
  BY <1>1, <1>2, <1>4, <1>5, HolesKept DEF ClientInv

LEMMA HandleSendClient ==
    ASSUME ClientInv, HandleSend, ConversationInv'
    PROVE  WireInv' /\ GreetingInv' /\ HolesInv'
<1>1. /\ UNCHANGED <<route, stream, reader, current, cursor, shown, skipped, hello>>
      /\ Linked /\ requests # <<>> /\ Head(requests)[1] = "send"
      /\ Len(log) < MaxMessages /\ log' = Append(log, "mine")
      /\ Answer(<< <<"accepted", Len(log) + 1>> >>)
  BY DEF HandleSend, Asked, client, ghost
<1>2. /\ Len(log) <= Len(log') /\ Len(log) + 1 \in DOMAIN log' /\ hello
  BY <1>1, LogAppended, LogTyped, AskedFor DEF ClientInv
<1>3. <<"accepted", Len(log) + 1>> \in KnownEvent'
  BY <1>2 DEF KnownEvent
<1>4. << <<"accepted", Len(log) + 1>> >> \in Seq(KnownEvent')
  BY <1>3
<1>5. \A e \in Members(<< <<"accepted", Len(log) + 1>> >>) : e # <<"welcome">>
  BY OneMember
<1>6. \A m : ~AsksFor(Head(requests), m)
  BY <1>1 DEF AsksFor
<1>7. \A m \in Wanted' : m \in Wanted
  BY <1>1, WantedOthers DEF ClientInv
<1> QED
  BY <1>1, <1>2, <1>4, <1>5, <1>6, <1>7, AnsweredHoles

LEMMA HandleSyncClient ==
    ASSUME ClientInv, HandleSync, ConversationInv'
    PROVE  WireInv' /\ GreetingInv' /\ HolesInv'
<1> DEFINE after == Head(requests)[2]
           end == WindowEnd(after, SyncLimit)
           es == << <<"sync", after, end>> >>
<1>1. /\ UNCHANGED <<log, route, stream, reader, current, cursor, shown, hello>>
      /\ Linked /\ requests # <<>> /\ Head(requests)[1] = "sync"
      /\ Answer(es) /\ skipped' = skipped \cup Missing((end + 1)..Len(log))
  BY DEF HandleSync, Asked, client, server, Skip
<1>2. hello /\ after \in 0..MaxMessages /\ end \in 0..MaxMessages
  BY <1>1, AskedFor, Page DEF ClientInv
<1>3. <<"sync", after, end>> \in KnownEvent'
  BY <1>1, <1>2 DEF KnownEvent
<1>4. es \in Seq(KnownEvent') /\ Members(es) = {<<"sync", after, end>>}
  BY <1>3, OneMember
<1>5. \A m \in Wanted' : m \in Wanted /\ m \notin Missing((end + 1)..Len(log))
  BY <1>1, WantedSubset
<1>6. ASSUME NEW m \in Wanted', AsksFor(Head(requests), m)
      PROVE  Carries(<<"sync", after, end>>, m)
  <2>1. m \in DOMAIN log /\ m \in Missing(DOMAIN log)
    BY <1>5 DEF Wanted, Missing, Theirs
  <2>2. m \notin (end + 1)..Len(log)
    BY <1>5, <2>1 DEF Missing, Theirs
  <2>3. after < m /\ m <= end
    BY <1>2, <1>6, <2>1, <2>2, LogTyped DEF AsksFor, ClientInv
  <2> QED
    BY <2>3 DEF Carries
<1>7. \A e \in Members(es) : e # <<"welcome">>
  BY <1>4
<1>8. \A m \in Wanted' : AsksFor(Head(requests), m) => \E e \in Members(es) : Carries(e, m)
  BY <1>4, <1>6
<1>9. Len(log) <= Len(log')
  BY <1>1, LogTyped DEF ClientInv
<1> HIDE DEF after, end, es
<1> QED
  BY <1>1, <1>2, <1>4, <1>5, <1>7, <1>8, <1>9, AnsweredHoles

LEMMA HandleResumeClient ==
    ASSUME ClientInv, HandleResume, ConversationInv'
    PROVE  WireInv' /\ GreetingInv' /\ HolesInv'
<1> DEFINE after == Head(requests)[2]
           end == WindowEnd(after, ReplayLimit)
           more == IF end < Len(log) THEN << <<"requires_sync">> >> ELSE <<>>
           es == Replay(after, end) \o more
<1>1. /\ UNCHANGED <<log, route, stream, reader, current, cursor, shown, hello, skipped>>
      /\ Linked /\ requests # <<>> /\ Head(requests)[1] = "resume"
      /\ Answer(es)
  BY DEF HandleResume, Asked, client, server, ghost
<1>2. /\ hello /\ after \in 0..MaxMessages /\ end \in 0..MaxMessages /\ after <= end
      /\ after < end => end <= Len(log)
  BY <1>1, AskedFor, Page DEF ClientInv
<1>3. KnownEvent' = KnownEvent
  BY <1>1 DEF KnownEvent
<1>4. /\ more \in Seq(KnownEvent) /\ \A e \in Members(more) : e = <<"requires_sync">>
      /\ end < Len(log) => <<"requires_sync">> \in Members(more)
  <2>1. <<"requires_sync">> \in KnownEvent
    BY DEF KnownEvent
  <2>2. CASE end < Len(log)
    <3>1. more = << <<"requires_sync">> >>
      BY <2>2
    <3>2. more \in Seq(KnownEvent) /\ Members(more) = {<<"requires_sync">>}
      BY <2>1, <3>1, OneMember
    <3> QED
      BY <3>2
  <2>3. CASE ~(end < Len(log))
    <3>1. more = <<>>
      BY <2>3
    <3>2. more \in Seq(KnownEvent) /\ Members(more) = {}
      BY <3>1, OneMember
    <3> QED
      BY <2>3, <3>2
  <2> QED
    BY <2>2, <2>3
<1>5. /\ Replay(after, end) \in Seq(KnownEvent)
      /\ \A e \in Members(Replay(after, end)) : e[1] = "new"
      /\ \A m \in (after + 1)..end : <<"new", m>> \in Members(Replay(after, end))
  BY <1>2, ReplayEvents DEF ClientInv
<1>6. es \in Seq(KnownEvent') /\ Members(es) = Members(Replay(after, end)) \cup Members(more)
  BY <1>3, <1>4, <1>5, ConcatMembers
<1>7. \A e \in Members(es) : e # <<"welcome">>
  <2>1. <<"welcome">>[1] # "new" /\ <<"requires_sync">> # <<"welcome">>
    OBVIOUS
  <2> QED
    BY <1>4, <1>5, <1>6, <2>1
<1>8. \A m \in Wanted' : m \in Wanted
  BY <1>1 DEF Wanted, Missing, Theirs
<1>9. ASSUME NEW m \in Wanted', AsksFor(Head(requests), m)
      PROVE  \E e \in Members(es) : Carries(e, m)
  <2>1. m \in DOMAIN log /\ after < m
    BY <1>8, <1>9 DEF Wanted, Missing, Theirs, AsksFor
  <2>2. CASE m <= end
    <3>1. m \in (after + 1)..end
      BY <1>2, <2>1, <2>2, LogTyped DEF ClientInv
    <3> QED
      BY <1>5, <1>6, <3>1 DEF Carries
  <2>3. CASE ~(m <= end)
    <3>1. end < Len(log)
      BY <1>2, <2>1, <2>3, LogTyped DEF ClientInv
    <3> QED
      BY <1>4, <1>6, <3>1 DEF Carries
  <2> QED
    BY <2>2, <2>3
<1>10. Len(log) <= Len(log')
  BY <1>1, LogTyped DEF ClientInv
<1> HIDE DEF after, end, es, more
<1> QED
  BY <1>1, <1>2, <1>6, <1>7, <1>8, <1>9, <1>10, AnsweredHoles

LEMMA RejectClient ==
    ASSUME ClientInv, Reject, ConversationInv'
    PROVE  WireInv' /\ GreetingInv' /\ HolesInv'
<1>1. /\ UNCHANGED <<log, route, stream, reader, current, cursor, shown, hello>>
      /\ Linked /\ requests # <<>> /\ hello /\ Answer(<<>>)
      /\ IF Head(requests)[1] # "send" THEN Skip(Message) ELSE UNCHANGED ghost
  BY DEF Reject, client, server
<1>2. /\ <<>> \in Seq(KnownEvent') /\ \A e \in Members(<<>>) : e # <<"welcome">>
      /\ Len(log) <= Len(log')
  <2>1. <<>> \in Seq(KnownEvent')
    OBVIOUS
  <2>2. Members(<<>>) = {}
    BY OneMember
  <2> QED
    BY <1>1, <2>1, <2>2, LogTyped DEF ClientInv
<1>3. CASE Head(requests)[1] # "send"
  <2>1. skipped' = skipped \cup Missing(Message)
    BY <1>1, <1>3 DEF Skip
  <2>2. \A m \in Wanted' : m \in Wanted /\ m \notin Missing(Message)
    BY <1>1, <2>1, WantedSubset
  <2>3. Wanted' = {}
    BY <2>2, LogTyped DEF Wanted, Missing, Theirs, ClientInv
  <2>4. UNCHANGED <<route, stream>> /\ \A m \in Wanted' :
            m \in Wanted /\ (AsksFor(Head(requests), m) => \E e \in Members(<<>>) : Carries(e, m))
    BY <1>1, <2>3
  <2> QED
    BY <1>1, <1>2, <2>4, AnsweredHoles
<1>4. CASE Head(requests)[1] = "send"
  <2>1. \A m \in Wanted' : m \in Wanted
    BY <1>1, <1>4 DEF ghost, Wanted, Missing, Theirs
  <2>2. \A m : ~AsksFor(Head(requests), m)
    BY <1>4 DEF AsksFor
  <2> QED
    BY <1>1, <1>2, <2>1, <2>2, AnsweredHoles
<1> QED
  BY <1>3, <1>4

-----------------------------------------------------------------------------
(* Steps that leave the wire as it is.                                     *)
LEMMA WireKept ==
    ASSUME ClientInv, ConversationInv', Len(log) <= Len(log'), Len(stream) <= Len(stream'),
           UNCHANGED <<wire, hello, current>>,
           lastId' \in 0..Len(stream') \cup {Dollar},
           waitsAt' \in 0..Len(stream') \cup {NotReading, Dead},
           Linked' => Linked
    PROVE  WireInv' /\ GreetingInv' /\ WelcomeAwaited' = WelcomeAwaited
<1>1. events \in Seq(KnownEvent')
  BY WireGrown DEF ClientInv
<1>2. requests' = requests /\ events' = events /\ hello' = hello /\ current' = current
  BY DEF wire
<1>3. WireInv'
  BY <1>1, <1>2 DEF ClientInv, WireInv
<1>4. GreetingInv'
  BY <1>2 DEF ClientInv, GreetingInv
<1>5. WelcomeAwaited' = WelcomeAwaited
  BY <1>2 DEF WelcomeAwaited
<1> QED
  BY <1>3, <1>4, <1>5

LEMMA WaysKept ==
    ASSUME NEW m, Linked', UNCHANGED wire, OnItsWay(m),
           route[m] \in {"queued", "stream"} =>
               route'[m] \in {"queued", "stream"} \/ Ahead(m)',
           Ahead(m) => Ahead(m)'
    PROVE  OnItsWay(m)'
BY WaysOn, WaysOnNext DEF wire

LEMMA PeerSendsClient ==
    ASSUME ClientInv, PeerSends, ConversationInv'
    PROVE  WireInv' /\ GreetingInv' /\ HolesInv'
<1>1. /\ UNCHANGED <<stream, conn, reader, wire, hello, current, cursor, shown>>
      /\ UNCHANGED <<lastId, waitsAt>>
      /\ Len(log) < MaxMessages /\ log' = Append(log, "theirs")
      /\ route' = [route EXCEPT ![Len(log) + 1] = "queued"]
      /\ skipped' = skipped \cup (IF current = 0 THEN {Len(log) + 1} \cap 1..cursor ELSE {})
  BY DEF PeerSends, sockets, reader, client
<1>2. /\ Len(log) <= Len(log') /\ Len(stream) <= Len(stream')
      /\ lastId' \in 0..Len(stream') \cup {Dollar}
      /\ waitsAt' \in 0..Len(stream') \cup {NotReading, Dead}
  BY <1>1, LogAppended, LogTyped, StreamTyped DEF ClientInv, WireInv
<1>3. WireInv' /\ GreetingInv' /\ WelcomeAwaited' = WelcomeAwaited /\ Linked' = Linked
  BY <1>1, <1>2, WireKept DEF Linked
<1>4. ASSUME NEW m \in Wanted' PROVE m \in Wanted \/ m = Len(log) + 1
  <2>1. m \in DOMAIN log \/ m = Len(log) + 1
    BY LogAppended, LogTyped, <1>1 DEF Wanted, Missing, Theirs, ClientInv
  <2>2. m \in DOMAIN log => log'[m] = log[m]
    BY LogAppended, <1>1 DEF ClientInv
  <2> QED
    BY <1>1, <2>1, <2>2 DEF Wanted, Missing, Theirs
<1>5. /\ route'[Len(log) + 1] = "queued"
      /\ \A m \in Message : m # Len(log) + 1 => route'[m] = route[m]
  BY <1>1, LogAppended, LogTyped DEF ClientInv, ConversationInv
<1>6. ASSUME Linked', NEW m \in Wanted', m = Len(log) + 1 PROVE OnItsWay(m)'
  BY <1>5, <1>6, WaysOnNext
<1>7. ASSUME Linked', NEW m \in Wanted, OnItsWay(m) PROVE OnItsWay(m)'
  <2>1. m \in Message /\ m # Len(log) + 1
    BY <1>1, LogAppended, LogTyped DEF Wanted, Missing, Theirs, ClientInv
  <2>2. Ahead(m) => Ahead(m)'
    BY <1>1 DEF Ahead, NotReading
  <2> QED
    BY <1>1, <1>5, <1>7, <2>1, <2>2, WaysKept
<1>8. HolesInv'
  <2>1. ASSUME current' = 0, NEW m \in Wanted' PROVE m > cursor'
    <3>1. CASE m = Len(log) + 1
      <4>1. m \notin {Len(log) + 1} \cap 1..cursor
        BY <1>1, <2>1 DEF Wanted
      <4>2. m \in Nat \ {0} /\ m \notin 1..cursor /\ cursor \in Nat
        BY <3>1, <4>1, LogTyped DEF ClientInv
      <4> QED
        BY <1>1, <4>2
    <3>2. CASE m # Len(log) + 1
      BY <1>1, <1>4, <2>1, <3>2 DEF ClientInv, HolesInv
    <3> QED
      BY <3>1, <3>2
  <2>2. ASSUME Linked', NEW m \in Wanted'
        PROVE  OnItsWay(m)' \/ (WelcomeAwaited' /\ m > cursor')
    <3>1. CASE m = Len(log) + 1
      BY <1>6, <2>2, <3>1
    <3>2. CASE m # Len(log) + 1
      <4>1. OnItsWay(m) \/ (WelcomeAwaited /\ m > cursor)
        BY <1>3, <1>4, <2>2, <3>2 DEF ClientInv, HolesInv
      <4> QED
        BY <1>1, <1>3, <1>4, <1>7, <2>2, <3>2, <4>1
    <3> QED
      BY <3>1, <3>2
  <2> QED
    BY <2>1, <2>2 DEF HolesInv
<1> QED
  BY <1>3, <1>8

LEMMA LookUpClient ==
    ASSUME ClientInv, NEW k \in Message, LookUp(k), ConversationInv'
    PROVE  WireInv' /\ GreetingInv' /\ HolesInv'
<1>1. /\ UNCHANGED <<log, stream, conn, reader, wire, hello, current, cursor, shown>>
      /\ UNCHANGED <<lastId, waitsAt>>
      /\ route[k] = "queued"
      /\ route' = [route EXCEPT ![k] = IF Active THEN "stream" ELSE "notify"]
      /\ IF Linked /\ ~Active THEN Skip({k}) ELSE UNCHANGED ghost
  BY DEF LookUp, sockets, reader, client
<1>2. /\ Len(log) <= Len(log') /\ Len(stream) <= Len(stream')
      /\ lastId' \in 0..Len(stream') \cup {Dollar}
      /\ waitsAt' \in 0..Len(stream') \cup {NotReading, Dead}
  BY <1>1, LogTyped, StreamTyped DEF ClientInv, WireInv
<1>3. WireInv' /\ GreetingInv' /\ WelcomeAwaited' = WelcomeAwaited /\ Linked' = Linked
  BY <1>1, <1>2, WireKept DEF Linked
<1>4. /\ \A m \in Message : m # k => route'[m] = route[m]
      /\ Active => route'[k] = "stream"
  BY <1>1 DEF ClientInv, ConversationInv
<1>5. /\ \A m \in Wanted' : m \in Wanted
      /\ Linked /\ ~Active => k \notin Wanted'
  <2>1. CASE Linked /\ ~Active
    <3>1. skipped' = skipped \cup Missing({k})
      BY <1>1, <2>1 DEF Skip
    <3>2. \A m \in Wanted' : m \in Wanted /\ m \notin Missing({k})
      BY <1>1, <3>1, WantedSubset
    <3>3. k \notin Wanted'
      BY <3>2 DEF Wanted, Missing, Theirs
    <3> QED
      BY <3>2, <3>3
  <2>2. CASE ~(Linked /\ ~Active)
    BY <1>1, <2>2 DEF ghost, Wanted, Missing, Theirs
  <2> QED
    BY <2>1, <2>2
<1>6. ASSUME Linked', NEW m \in Wanted', OnItsWay(m) PROVE OnItsWay(m)'
  <2>1. m \in Message
    BY <1>5, LogTyped DEF Wanted, Missing, Theirs, ClientInv
  <2>2. Ahead(m) => Ahead(m)'
    BY <1>1 DEF Ahead, NotReading
  <2>3. route[m] \in {"queued", "stream"} => route'[m] \in {"queued", "stream"}
    BY <1>3, <1>4, <1>5, <1>6, <2>1
  <2> QED
    BY <1>1, <1>6, <2>2, <2>3, WaysKept
<1>7. HolesInv'
  BY <1>1, <1>3, <1>5, <1>6, HolesKept DEF ClientInv
<1> QED
  BY <1>3, <1>7

LEMMA HandOverClient ==
    ASSUME ClientInv, NEW k \in Message, HandOver(k), ConversationInv'
    PROVE  WireInv' /\ GreetingInv' /\ HolesInv'
<1>1. /\ UNCHANGED <<log, conn, reader, wire, hello, current, cursor, shown>>
      /\ UNCHANGED <<lastId, waitsAt>>
      /\ route[k] = "stream" /\ route' = [route EXCEPT ![k] = "handed"]
      /\ IF Linked /\ Inattentive THEN Skip({k}) ELSE UNCHANGED ghost
  BY DEF HandOver, sockets, reader, client
<1>2. /\ Len(stream) <= Len(stream')
      /\ \A n \in DOMAIN stream : n \in DOMAIN stream' /\ stream'[n] = stream[n]
      /\ Len(stream) + 1 \in DOMAIN stream' /\ stream'[Len(stream) + 1] = k
  BY HandOverConversation DEF ClientInv
<1>3. /\ Len(log) <= Len(log') /\ lastId' \in 0..Len(stream') \cup {Dollar}
      /\ waitsAt' \in 0..Len(stream') \cup {NotReading, Dead}
      /\ Len(stream) \in Nat /\ Len(stream') \in Nat
  <2>1. Len(stream) \in Nat /\ Len(stream') \in Nat /\ Len(log') = Len(log) /\ Len(log) \in Nat
    BY <1>1, LogTyped, StreamTyped, LenProperties DEF ClientInv, ConversationInv
  <2>2. 0..Len(stream) \subseteq 0..Len(stream')
    BY <1>2, <2>1
  <2> QED
    BY <1>1, <2>1, <2>2 DEF ClientInv, WireInv
<1>4. WireInv' /\ GreetingInv' /\ WelcomeAwaited' = WelcomeAwaited /\ Linked' = Linked
  BY <1>1, <1>2, <1>3, WireKept DEF Linked
<1>5. /\ \A m \in Wanted' : m \in Wanted
      /\ Linked /\ Inattentive => k \notin Wanted'
  <2>1. CASE Linked /\ Inattentive
    <3>1. skipped' = skipped \cup Missing({k})
      BY <1>1, <2>1 DEF Skip
    <3>2. \A m \in Wanted' : m \in Wanted /\ m \notin Missing({k})
      BY <1>1, <3>1, WantedSubset
    <3>3. k \notin Wanted'
      BY <3>2 DEF Wanted, Missing, Theirs
    <3> QED
      BY <3>2, <3>3
  <2>2. CASE ~(Linked /\ Inattentive)
    BY <1>1, <2>2 DEF ghost, Wanted, Missing, Theirs
  <2> QED
    BY <2>1, <2>2
<1>6. ASSUME Linked', NEW m \in Wanted', OnItsWay(m) PROVE OnItsWay(m)'
  <2>1. m \in Message
    BY <1>5, LogTyped DEF Wanted, Missing, Theirs, ClientInv
  <2>2. Ahead(m) => Ahead(m)'
    BY <1>1, <1>2 DEF Ahead, NotReading
  <2>3. CASE m # k
    <3>1. route'[m] = route[m]
      BY <1>1, <2>1, <2>3 DEF ClientInv, ConversationInv
    <3> QED
      BY <1>1, <1>6, <2>2, <3>1, WaysKept
  <2>4. CASE m = k
    <3>1. ~Inattentive
      BY <1>4, <1>5, <1>6, <2>4
    <3>2. lastId # Dollar => lastId \in Nat /\ lastId <= Len(stream)
      BY <1>3 DEF ClientInv, WireInv
    <3>3. Len(stream) + 1 > IF waitsAt = NotReading /\ lastId # Dollar THEN lastId ELSE waitsAt
      <4>1. CASE waitsAt = NotReading
        <5>1. lastId # Dollar
          BY <3>1, <4>1 DEF Inattentive
        <5> QED
          BY <1>3, <3>2, <4>1, <5>1
      <4>2. CASE waitsAt # NotReading
        <5>1. waitsAt \in 0..Len(stream)
          BY <3>1, <4>2 DEF Inattentive, ClientInv, WireInv
        <5> QED
          BY <1>3, <4>2, <5>1
      <4> QED
        BY <4>1, <4>2
    <3>4. Ahead(k)'
      BY <1>1, <1>2, <2>4, <3>3 DEF Ahead, NotReading
    <3> QED
      BY <1>1, <1>6, <2>4, <3>4, WaysKept
  <2> QED
    BY <2>3, <2>4
<1>7. HolesInv'
  BY <1>1, <1>4, <1>5, <1>6, HolesKept DEF ClientInv
<1> QED
  BY <1>4, <1>7

LEMMA HandleLateClient ==
    ASSUME ClientInv, NEW s \in Sockets, HandleLate(s), ConversationInv'
    PROVE  WireInv' /\ GreetingInv' /\ HolesInv'
<1>1. /\ UNCHANGED <<route, stream, conn, wire, hello, current, cursor, shown, skipped>>
      /\ UNCHANGED <<lastId, waitsAt>>
      /\ Len(log) < MaxMessages /\ log' = Append(log, "mine")
  BY DEF HandleLate, reader, client, ghost
<1>2. /\ Len(log) <= Len(log') /\ Len(stream) <= Len(stream')
      /\ lastId' \in 0..Len(stream') \cup {Dollar}
      /\ waitsAt' \in 0..Len(stream') \cup {NotReading, Dead}
  BY <1>1, LogAppended, LogTyped, StreamTyped DEF ClientInv, WireInv
<1>3. WireInv' /\ GreetingInv' /\ WelcomeAwaited' = WelcomeAwaited /\ Linked' = Linked
  BY <1>1, <1>2, WireKept DEF Linked
<1>4. \A m \in Wanted' : m \in Wanted
  BY <1>1, WantedOthers DEF ClientInv
<1>5. ASSUME Linked', NEW m \in Wanted', OnItsWay(m) PROVE OnItsWay(m)'
  <2>1. Ahead(m) => Ahead(m)'
    BY <1>1 DEF Ahead, NotReading
  <2> QED
    BY <1>1, <1>5, <2>1, WaysKept
<1>6. HolesInv'
  BY <1>1, <1>3, <1>4, <1>5, HolesKept DEF ClientInv
<1> QED
  BY <1>3, <1>6

(* Steps that touch neither the conversation nor the wire: what is to be   *)
(* shown above that is that the forwarder passes nothing over.             *)
LEMMA ReaderStep ==
    ASSUME ClientInv, UNCHANGED <<server, wire, hello, client>>, ConversationInv',
           lastId' \in 0..Len(stream) \cup {Dollar},
           waitsAt' \in 0..Len(stream) \cup {NotReading, Dead},
           Linked' => Linked,
           \A m \in Wanted' : m \in Wanted,
           \A m \in Wanted' : Linked' /\ Ahead(m) => Ahead(m)'
    PROVE  WireInv' /\ GreetingInv' /\ HolesInv'
<1>1. UNCHANGED <<log, route, stream, current, cursor, shown>>
  BY DEF server, client
<1>2. WireInv' /\ GreetingInv' /\ WelcomeAwaited' = WelcomeAwaited
  BY <1>1, WireKept, LogTyped, StreamTyped DEF ClientInv
<1>3. ASSUME Linked', NEW m \in Wanted', OnItsWay(m) PROVE OnItsWay(m)'
  BY <1>1, <1>3, WaysKept
<1>4. HolesInv'
  BY <1>1, <1>2, <1>3, HolesKept DEF ClientInv
<1> QED
  BY <1>2, <1>4

LEMMA QuietClient ==
    ASSUME ClientInv, ConversationInv', Linked' => Linked, UNCHANGED skipped,
           UNCHANGED <<server, wire, hello, reader, client>>
    PROVE  WireInv' /\ GreetingInv' /\ HolesInv'
<1>1. UNCHANGED <<log, stream, shown, lastId, waitsAt>>
  BY DEF server, reader, client
<1>2. /\ lastId' \in 0..Len(stream) \cup {Dollar}
      /\ waitsAt' \in 0..Len(stream) \cup {NotReading, Dead}
  BY <1>1 DEF ClientInv, WireInv
<1>3. \A m \in Wanted' : m \in Wanted
  BY <1>1 DEF Wanted, Missing, Theirs
<1>4. \A m \in Wanted' : Linked' /\ Ahead(m) => Ahead(m)'
  BY <1>1 DEF Ahead, NotReading
<1> QED
  BY <1>1, <1>2, <1>3, <1>4, ReaderStep

LEMMA ReadClient ==
    ASSUME ClientInv, Read \/ ReadTimesOut, ConversationInv'
    PROVE  WireInv' /\ GreetingInv' /\ HolesInv'
<1>1. /\ UNCHANGED <<server, wire, hello, lastId, client, conn, ghost>>
      /\ UNCHANGED <<log, stream, shown, skipped, current>>
  BY DEF Read, ReadTimesOut, server, sockets, client, ghost
<1>2. Linked' => Linked
  BY <1>1 DEF Linked
<1>3. \A m \in Wanted' : m \in Wanted
  BY <1>1 DEF Wanted, Missing, Theirs
<1>4. /\ Len(stream) \in Nat /\ DOMAIN stream = 1..Len(stream) /\ Len(stream) <= MaxMessages
      /\ lastId \in 0..Len(stream) \cup {Dollar} /\ lastId' = lastId
      /\ Len(stream) < NotReading /\ NotReading \in Nat
  <2>1. /\ Len(stream) \in Nat /\ DOMAIN stream = 1..Len(stream) /\ Len(stream) <= MaxMessages
        /\ lastId \in 0..Len(stream) \cup {Dollar} /\ lastId' = lastId
    BY <1>1, StreamTyped DEF ClientInv, WireInv
  <2> QED
    BY <2>1 DEF NotReading
<1>5. Len(stream) # NotReading
  <2>1. Len(stream) \in Nat /\ Len(stream) <= MaxMessages
    BY StreamTyped DEF ClientInv
  <2> QED
    BY <2>1 DEF NotReading
<1>6. CASE Read
  <2>1. waitsAt = NotReading /\ waitsAt' = IF lastId = Dollar THEN Len(stream) ELSE lastId
    BY <1>6 DEF Read
  <2>2. waitsAt' \in 0..Len(stream) \cup {NotReading, Dead}
    <3>1. Len(stream) \in 0..Len(stream)
      BY <1>4
    <3> QED
      BY <1>4, <2>1, <3>1
  <2>3. ASSUME NEW m, Ahead(m) PROVE Ahead(m)'
    <3>1. lastId # Dollar
      <4>1. ASSUME lastId = Dollar PROVE FALSE
        <5>1. PICK n \in DOMAIN stream : n > NotReading
          BY <2>1, <2>3, <4>1 DEF Ahead
        <5> QED
          BY <1>4, <5>1
      <4> QED
        BY <4>1
    <3>2. waitsAt' = lastId
      BY <2>1, <3>1
    <3> QED
      BY <1>1, <1>4, <2>1, <2>3, <3>1, <3>2 DEF Ahead
  <2> QED
    BY <1>1, <1>2, <1>3, <1>4, <2>2, <2>3, ReaderStep
<1>7. CASE ReadTimesOut
  <2>1. waitsAt = Len(stream) /\ waitsAt' = NotReading
    BY <1>7 DEF ReadTimesOut
  <2>2. ASSUME NEW m, Ahead(m) PROVE FALSE
    <3>1. waitsAt # NotReading
      BY <1>5, <2>1
    <3>2. PICK n \in DOMAIN stream : n > waitsAt
      BY <2>2, <3>1 DEF Ahead
    <3> QED
      BY <1>4, <2>1, <3>2
  <2> QED
    BY <1>1, <1>2, <1>3, <1>4, <2>1, <2>2, ReaderStep
<1> QED
  BY <1>6, <1>7

LEMMA ForwarderDiesClient ==
    ASSUME ClientInv, ForwarderDies, ConversationInv'
    PROVE  WireInv' /\ GreetingInv' /\ HolesInv'
<1> DEFINE gone == Missing({m \in Message : route[m] = "handed"})
<1>1. /\ UNCHANGED <<server, wire, hello, client, conn>>
      /\ UNCHANGED <<log, shown, current>>
      /\ waitsAt' = Dead /\ lastId' = Dollar /\ skipped' = skipped \cup gone
  BY DEF ForwarderDies, server, sockets, client
<1>2. Linked' => Linked
  BY <1>1 DEF Linked
<1>3. \A m \in Wanted' : m \in Wanted /\ m \notin gone
  BY <1>1, WantedSubset
<1>4. ASSUME NEW m \in Wanted', Ahead(m) PROVE FALSE
  <2>1. m \in Message /\ route[m] = "handed"
    BY <1>4, StreamTyped, LogTyped DEF Ahead, ClientInv, ConversationInv
  <2> QED
    BY <1>3, <2>1 DEF Wanted, Missing, Theirs
<1> QED
  BY <1>1, <1>2, <1>3, <1>4, ReaderStep

LEMMA ForwardClient ==
    ASSUME ClientInv, Forward, ConversationInv'
    PROVE  WireInv' /\ GreetingInv' /\ HolesInv'
<1> DEFINE e == <<"new", stream[waitsAt + 1]>>
<1>1. /\ UNCHANGED <<log, route, stream, conn, hello, requests, current, cursor, shown, skipped>>
      /\ Linked /\ waitsAt < Len(stream) /\ events' = events \o <<e>>
      /\ waitsAt' = waitsAt + 1 /\ lastId' = waitsAt + 1
  BY DEF Forward, Reply, server, sockets, client, ghost
<1>2. /\ Len(stream) \in Nat /\ DOMAIN stream = 1..Len(stream) /\ Len(stream) <= MaxMessages
      /\ \A n \in DOMAIN stream : stream[n] \in DOMAIN log
  BY StreamTyped DEF ClientInv
<1>3. /\ waitsAt \in Nat /\ waitsAt + 1 \in DOMAIN stream
      /\ waitsAt # NotReading /\ waitsAt + 1 # NotReading
  BY <1>1, <1>2 DEF ClientInv, WireInv, NotReading, Dead
<1>4. KnownEvent' = KnownEvent
  BY <1>1 DEF KnownEvent
<1>5. e \in KnownEvent /\ e # <<"welcome">> /\ e[1] = "new"
  BY <1>2, <1>3 DEF KnownEvent
<1>6. <<e>> \in Seq(KnownEvent') /\ Members(<<e>>) = {e}
  BY <1>4, <1>5, OneMember
<1>7. events \in Seq(KnownEvent') /\ \A x \in Members(<<e>>) : x # <<"welcome">> /\ x[1] \in Early
  BY <1>4, <1>5, <1>6 DEF ClientInv, WireInv, Early
<1> HIDE DEF e
<1>8. /\ events' \in Seq(KnownEvent')
      /\ Members(events') = Members(events) \cup {e}
      /\ WelcomeAwaited => WelcomeAwaited'
      /\ \A n \in DOMAIN events' : ~hello' => events'[n][1] \in Early
      /\ \A n, k \in DOMAIN events' :
            events'[n] = <<"welcome">> /\ k < n => events'[k][1] \in Early
  BY <1>1, <1>6, <1>7, GreetingEvents DEF ClientInv
<1>9. current' # 0 /\ lastId' \in 0..Len(stream') /\ waitsAt' \in 0..Len(stream')
  BY <1>1, <1>2, <1>3 DEF Linked
<1>10. WireInv'
  BY <1>1, <1>4, <1>8, <1>9 DEF ClientInv, WireInv
<1>11. GreetingInv'
  BY <1>1, <1>8 DEF ClientInv, GreetingInv, Linked
<1>12. \A m \in Wanted' : m \in Wanted
  BY <1>1 DEF Wanted, Missing, Theirs
<1>13. ASSUME NEW m, Linked', OnItsWay(m) PROVE OnItsWay(m)'
  <2>1. ASSUME Ahead(m) PROVE Ahead(m)' \/ Carries(e, m)
    <3>1. PICK n \in DOMAIN stream : stream[n] = m /\ n > waitsAt
      BY <1>3, <2>1 DEF Ahead
    <3>2. CASE n = waitsAt + 1
      BY <3>1, <3>2 DEF Carries, e
    <3>3. CASE n # waitsAt + 1
      <4>1. n > waitsAt'
        BY <1>1, <1>2, <1>3, <3>1, <3>3
      <4> QED
        BY <1>1, <1>3, <3>1, <4>1 DEF Ahead, NotReading
    <3> QED
      BY <3>2, <3>3
  <2> QED
    BY <1>1, <1>8, <1>13, <2>1, WaysOn, WaysOnNext
<1>14. HolesInv'
  BY <1>1, <1>8, <1>12, <1>13, HolesKept DEF ClientInv
<1> QED
  BY <1>10, <1>11, <1>14

(* What comes from other conversations leaves the stream's place to the    *)
(* forwarder, and its events carry nothing of this one.                    *)
LEMMA ForwardOtherClient ==
    ASSUME ClientInv, ForwardOther, ConversationInv'
    PROVE  WireInv' /\ GreetingInv' /\ HolesInv'
<1>1. /\ UNCHANGED <<log, route, stream, conn, hello, requests, current, cursor, shown, skipped>>
      /\ Linked /\ waitsAt <= Len(stream) /\ waitsAt' = waitsAt /\ lastId' = waitsAt
      /\ \/ \E seq \in OtherSeqs : events' = events \o << <<"other", seq>> >>
         \/ UNCHANGED events
  BY DEF ForwardOther, Reply, server, sockets, client, ghost
<1>2. /\ Len(stream) \in Nat /\ DOMAIN stream = 1..Len(stream) /\ Len(stream) <= MaxMessages
  BY StreamTyped DEF ClientInv
<1>3. waitsAt \in 0..Len(stream) /\ waitsAt # NotReading
  BY <1>1, <1>2 DEF ClientInv, WireInv, NotReading, Dead
<1>4. KnownEvent' = KnownEvent /\ events \in Seq(KnownEvent')
  BY <1>1 DEF KnownEvent, ClientInv, WireInv
<1>5. /\ events' \in Seq(KnownEvent')
      /\ Members(events) \subseteq Members(events')
      /\ WelcomeAwaited => WelcomeAwaited'
      /\ \A n \in DOMAIN events' : ~hello' => events'[n][1] \in Early
      /\ \A n, k \in DOMAIN events' :
            events'[n] = <<"welcome">> /\ k < n => events'[k][1] \in Early
  <2>1. CASE UNCHANGED events
    BY <1>1, <1>4, <2>1 DEF ClientInv, GreetingInv, WelcomeAwaited
  <2>2. CASE \E seq \in OtherSeqs : events' = events \o << <<"other", seq>> >>
    <3>1. PICK seq \in OtherSeqs : events' = events \o << <<"other", seq>> >>
      BY <2>2
    <3> DEFINE e == <<"other", seq>>
    <3>2. e \in KnownEvent /\ e # <<"welcome">> /\ e[1] \in Early
      BY DEF KnownEvent, Message, Early
    <3>3. <<e>> \in Seq(KnownEvent') /\ Members(<<e>>) = {e}
      BY <1>4, <3>2, OneMember
    <3> HIDE DEF e
    <3>4. \A x \in Members(<<e>>) : x # <<"welcome">> /\ x[1] \in Early
      BY <3>2, <3>3
    <3>5. events' = events \o <<e>>
      BY <3>1 DEF e
    <3> QED
      BY <1>1, <1>4, <3>3, <3>4, <3>5, GreetingEvents DEF ClientInv
  <2> QED
    BY <1>1, <2>1, <2>2
<1>6. current' # 0 /\ lastId' \in 0..Len(stream') /\ waitsAt' \in 0..Len(stream')
  BY <1>1, <1>3 DEF Linked
<1>7. WireInv'
  BY <1>1, <1>5, <1>6 DEF ClientInv, WireInv
<1>8. GreetingInv'
  BY <1>1, <1>5 DEF ClientInv, GreetingInv, Linked
<1>9. \A m \in Wanted' : m \in Wanted
  BY <1>1 DEF Wanted, Missing, Theirs
<1>10. ASSUME NEW m, Linked', OnItsWay(m) PROVE OnItsWay(m)'
  <2>1. Ahead(m) => Ahead(m)'
    BY <1>1, <1>3 DEF Ahead, NotReading
  <2> QED
    BY <1>1, <1>5, <1>10, <2>1, WaysOn, WaysOnNext
<1>11. HolesInv'
  BY <1>1, <1>5, <1>9, <1>10, HolesKept DEF ClientInv
<1> QED
  BY <1>7, <1>8, <1>11

-----------------------------------------------------------------------------
(* A connection begins with everything still to be asked for ...           *)
LEMMA ConnectClient ==
    ASSUME ClientInv, NEW s \in Sockets, Connect(s), ConversationInv'
    PROVE  WireInv' /\ GreetingInv' /\ HolesInv'
<1>1. /\ UNCHANGED <<log, stream, hello, lastId, waitsAt, events, cursor, shown, skipped>>
      /\ current = 0 /\ current' = s /\ requests' = << <<"hello">> >>
  BY DEF Connect, server, reader
<1>2. requests' \in Seq(Request) /\ requests' # <<>> /\ Head(requests') = <<"hello">>
  BY <1>1 DEF Request
<1>3. \A n \in DOMAIN requests' : n = 1
  BY <1>1
<1>4. ~hello /\ events = <<>> /\ s # 0
  BY <1>1 DEF ClientInv, WireInv
<1>5. KnownEvent' = KnownEvent
  BY <1>1 DEF KnownEvent
<1>6. WireInv'
  BY <1>1, <1>2, <1>4, <1>5 DEF ClientInv, WireInv
<1>7. GreetingInv'
  BY <1>1, <1>2, <1>3, <1>4 DEF GreetingInv
<1>8. WelcomeAwaited' /\ \A m \in Wanted' : m \in Wanted
  BY <1>1, <1>4 DEF WelcomeAwaited, Wanted, Missing, Theirs
<1>9. HolesInv'
  BY <1>1, <1>4, <1>8 DEF ClientInv, HolesInv
<1> QED
  BY <1>6, <1>7, <1>9

(* ... and ends with what the cursor has passed skipped.                   *)
LEMMA DisconnectClient ==
    ASSUME ClientInv, Disconnect, ConversationInv'
    PROVE  WireInv' /\ GreetingInv' /\ HolesInv'
<1>1. /\ UNCHANGED <<log, stream, cursor, shown>>
      /\ current' = 0 /\ requests' = <<>> /\ events' = <<>> /\ hello' = FALSE
      /\ lastId' = Dollar /\ waitsAt' = NotReading
      /\ skipped' = skipped \cup Missing(1..cursor)
  BY DEF Disconnect, Skip, server
<1>2. Len(stream) \in Nat
  BY StreamTyped DEF ClientInv
<1>3. requests' \in Seq(Request) /\ events' \in Seq(KnownEvent')
  BY <1>1
<1>4. lastId' \in 0..Len(stream') \cup {Dollar}
  BY <1>1
<1>5. WireInv'
  BY <1>1, <1>3, <1>4 DEF WireInv
<1>6. ~Linked'
  BY <1>1 DEF Linked
<1>7. DOMAIN requests' = {} /\ DOMAIN events' = {}
  BY <1>1
<1>8. GreetingInv'
  BY <1>1, <1>6, <1>7 DEF GreetingInv
<1>9. ASSUME NEW m \in Wanted' PROVE m > cursor
  <2>1. m \in Wanted /\ m \notin Missing(1..cursor)
    BY <1>1, WantedSubset
  <2>2. m \in DOMAIN log /\ m \notin 1..cursor
    BY <2>1 DEF Wanted, Missing, Theirs
  <2> QED
    BY <2>2, LogTyped DEF ClientInv
<1>10. HolesInv'
  BY <1>1, <1>6, <1>9 DEF HolesInv
<1> QED
  BY <1>5, <1>8, <1>10

(* When the gateway ends a connection there is nothing left to show for    *)
(* it, and for the client's, if it is another one, nothing changes.        *)
LEMMA StopClient ==
    ASSUME SessionTypeOK, ClientInv, ConversationInv', NEW s \in Sockets, Stop(s),
           NEW state \in {"counting", "closed"}, Goto(s, state),
           UNCHANGED <<server, hello, events, client, skipped>>
    PROVE  WireInv' /\ GreetingInv' /\ HolesInv'
<1>1. /\ conn'[s] = state /\ \A r \in Sockets : r # s => conn'[r] = conn[r]
      /\ conn' \in [Sockets -> {"unused", "open", "counting", "emptied", "closed"}]
  BY GotoTyped
<1>2. UNCHANGED <<log, route, stream, current, cursor, shown>>
  BY DEF server, client
<1>3. Linked' => Linked /\ s # current
  BY <1>1, <1>2 DEF Linked, SessionTypeOK
<1>4. CASE s # current
  <2>1. UNCHANGED <<wire, reader>>
    BY <1>4 DEF Stop, wire, reader
  <2> QED
    BY <1>3, <2>1, QuietClient
<1>5. CASE s = current
  <2>1. requests' = <<>> /\ waitsAt' = Dead /\ lastId' = Dollar
    BY <1>5 DEF Stop
  <2>2. KnownEvent' = KnownEvent /\ requests' \in Seq(Request) /\ DOMAIN requests' = {}
    BY <1>2, <2>1 DEF KnownEvent
  <2>3. WireInv'
    BY <1>2, <2>1, <2>2 DEF ClientInv, WireInv
  <2>4. ~Linked'
    BY <1>3, <1>5
  <2>5. GreetingInv'
    BY <2>2, <2>4 DEF ClientInv, GreetingInv
  <2>6. \A m \in Wanted' : m \in Wanted
    BY <1>2 DEF Wanted, Missing, Theirs
  <2>7. HolesInv'
    BY <1>2, <2>4, <2>6 DEF ClientInv, HolesInv
  <2> QED
    BY <2>3, <2>5, <2>7
<1> QED
  BY <1>4, <1>5

LEMMA CloseClient ==
    ASSUME SessionTypeOK, ClientInv, ConversationInv', NEW s \in Sockets, Close(s) \/ Crash(s)
    PROVE  WireInv' /\ GreetingInv' /\ HolesInv'
<1>1. /\ Stop(s) /\ UNCHANGED <<server, hello, events, client, skipped>>
      /\ \E state \in {"counting", "closed"} : Goto(s, state)
  BY DEF Close, Crash, ghost
<1> QED
  BY <1>1, StopClient

LEMMA UnregisterClient ==
    ASSUME SessionTypeOK, ClientInv, ConversationInv', NEW s \in Sockets, Count(s) \/ DeleteSet(s)
    PROVE  WireInv' /\ GreetingInv' /\ HolesInv'
<1>1. /\ UNCHANGED <<server, wire, hello, reader, client, ghost>>
      /\ UNCHANGED <<current, skipped>>
      /\ \E state \in {"emptied", "closed"} : Goto(s, state)
  BY DEF Count, DeleteSet, client, ghost
<1>2. conn'[s] # "open" /\ \A r \in Sockets : r # s => conn'[r] = conn[r]
  BY <1>1, GotoTyped
<1>3. Linked' => Linked
  BY <1>1, <1>2 DEF Linked, SessionTypeOK
<1> QED
  BY <1>1, <1>3, QuietClient

-----------------------------------------------------------------------------
(* The client sends a request, and never greets twice.                     *)
LEMMA Requested ==
    ASSUME WireInv, GreetingInv, UNCHANGED <<log, hello, current, conn>>,
           \/ UNCHANGED requests
           \/ \E r \in Request : r # <<"hello">> /\ current # 0 /\ requests' = Append(requests, r)
    PROVE  /\ requests' \in Seq(Request)
           /\ Members(requests) \subseteq Members(requests')
           /\ \A n \in DOMAIN requests' : requests'[n] = <<"hello">> => n = 1 /\ ~hello'
           /\ Linked' /\ ~hello' => requests' # <<>> /\ Head(requests') = <<"hello">>
<1>1. Linked' = Linked
  BY DEF Linked
<1>2. CASE UNCHANGED requests
  BY <1>1, <1>2 DEF WireInv, GreetingInv
<1>3. CASE \E r \in Request : r # <<"hello">> /\ requests' = Append(requests, r)
  <2>1. PICK r \in Request : r # <<"hello">> /\ requests' = Append(requests, r)
    BY <1>3
  <2>2. /\ requests' \in Seq(Request) /\ Len(requests') = Len(requests) + 1
        /\ requests' # <<>> /\ requests'[Len(requests) + 1] = r
        /\ \A n \in 1..Len(requests) : requests'[n] = requests[n]
        /\ Members(requests') = Members(requests) \cup {r}
    BY <2>1, AppendMembers DEF WireInv
  <2>3. /\ DOMAIN requests' = 1..(Len(requests) + 1) /\ Len(requests) \in Nat
        /\ DOMAIN requests = 1..Len(requests)
    BY <2>2, LenProperties DEF WireInv
  <2>4. ASSUME NEW n \in DOMAIN requests', requests'[n] = <<"hello">> PROVE n \in DOMAIN requests
    <3>1. n # Len(requests) + 1
      BY <2>1, <2>2, <2>4
    <3> QED
      BY <2>3, <3>1
  <2>5. ASSUME Linked, ~hello PROVE Head(requests') = <<"hello">>
    <3>1. requests # <<>> /\ Head(requests) = <<"hello">>
      BY <2>5 DEF GreetingInv
    <3>2. 1 \in DOMAIN requests /\ Head(requests) = requests[1]
      BY <3>1, TailMembers DEF WireInv
    <3>3. Head(requests') = requests'[1]
      BY <2>2, TailMembers
    <3> QED
      BY <2>2, <2>3, <3>1, <3>2, <3>3
  <2> QED
    BY <1>1, <2>2, <2>3, <2>4, <2>5 DEF GreetingInv
<1> QED
  BY <1>2, <1>3

(* The client takes an event.                                              *)
LEMMA Taken ==
    ASSUME ClientInv, ConversationInv', UNCHANGED <<server, hello, reader, current, conn>>,
           events # <<>>, Take,
           \/ UNCHANGED requests
           \/ \E r \in Request : r # <<"hello">> /\ current # 0 /\ requests' = Append(requests, r)
    PROVE  /\ WireInv' /\ GreetingInv' /\ Linked' = Linked /\ current' # 0
           /\ Members(events) = {Head(events)} \cup Members(events')
           /\ Members(requests) \subseteq Members(requests')
           /\ Head(events) # <<"welcome">> /\ WelcomeAwaited => WelcomeAwaited'
           /\ Head(events)[1] \notin Early \cup {"welcome"} => ~WelcomeAwaited
<1>1. UNCHANGED <<log, stream, lastId, waitsAt>>
  BY DEF server, reader
<1>2. /\ events' \in Seq(KnownEvent) /\ Head(events) = events[1] /\ 1 \in DOMAIN events
      /\ Members(events) = {Head(events)} \cup Members(events')
      /\ \A n \in DOMAIN events' : n \in Nat /\ n + 1 \in DOMAIN events /\ events'[n] = events[n + 1]
      /\ DOMAIN events \subseteq Nat \ {0} /\ DOMAIN events' \subseteq Nat \ {0}
  BY TailMembers, LenProperties DEF ClientInv, WireInv, Take
<1>3. KnownEvent' = KnownEvent /\ current # 0 /\ Linked' = Linked
  BY <1>1, Received DEF KnownEvent, ClientInv, Linked
<1>4. /\ requests' \in Seq(Request)
      /\ Members(requests) \subseteq Members(requests')
      /\ \A n \in DOMAIN requests' : requests'[n] = <<"hello">> => n = 1 /\ ~hello'
      /\ Linked' /\ ~hello' => requests' # <<>> /\ Head(requests') = <<"hello">>
  BY <1>1, Requested DEF ClientInv
<1>5. WireInv'
  BY <1>1, <1>2, <1>3, <1>4 DEF ClientInv, WireInv
<1>6. \A n \in DOMAIN events' : ~hello' => events'[n][1] \in Early
  BY <1>2 DEF ClientInv, GreetingInv
<1>7. ASSUME NEW n \in DOMAIN events', NEW k \in DOMAIN events',
             events'[n] = <<"welcome">>, k < n
      PROVE  events'[k][1] \in Early
  <2>1. k + 1 < n + 1
    BY <1>2, <1>7
  <2> QED
    BY <1>2, <1>7, <2>1 DEF ClientInv, GreetingInv
<1>8. GreetingInv'
  BY <1>4, <1>6, <1>7 DEF GreetingInv
<1>9. ASSUME Head(events) # <<"welcome">>, WelcomeAwaited PROVE WelcomeAwaited'
  <2>1. CASE ~hello
    BY <2>1 DEF WelcomeAwaited
  <2>2. CASE hello
    <3>1. <<"welcome">> \in Members(events)
      BY <1>9, <2>2 DEF WelcomeAwaited, Members
    <3>2. <<"welcome">> \in Members(events')
      BY <1>2, <1>9, <3>1
    <3> QED
      BY <3>2 DEF Members, WelcomeAwaited
  <2> QED
    BY <2>1, <2>2
<1>10. ASSUME Head(events)[1] \notin Early \cup {"welcome"}, WelcomeAwaited PROVE FALSE
  <2>1. events[1][1] \notin Early /\ events[1][1] # "welcome"
    BY <1>2, <1>10
  <2>2. hello
    BY <1>2, <2>1 DEF ClientInv, GreetingInv, WireInv
  <2>3. PICK n \in DOMAIN events : events[n] = <<"welcome">>
    BY <1>10, <2>2 DEF WelcomeAwaited
  <2>4. <<"welcome">>[1] = "welcome"
    OBVIOUS
  <2>5. n # 1
    BY <2>1, <2>3, <2>4
  <2>6. 1 < n
    BY <1>2, <2>3, <2>5
  <2> QED
    BY <1>2, <2>1, <2>3, <2>6 DEF ClientInv, GreetingInv
<1> QED
  BY <1>2, <1>3, <1>4, <1>5, <1>8, <1>9, <1>10

LEMMA TakenWays ==
    ASSUME NEW m, OnItsWay(m), Linked', UNCHANGED <<server, reader>>,
           Members(events) = {Head(events)} \cup Members(events'),
           Members(requests) \subseteq Members(requests'), ~Carries(Head(events), m)
    PROVE  OnItsWay(m)'
<1>1. Ahead(m) => Ahead(m)'
  BY DEF Ahead, reader, server, NotReading
<1> QED
  BY <1>1, WaysOn, WaysOnNext DEF server

LEMMA AskOutcome ==
    ASSUME NEW r \in Request, r # <<"hello">>, Ask(r), requests \in Seq(Request)
    PROVE  /\ \/ UNCHANGED requests
              \/ \E q \in Request : q # <<"hello">> /\ current # 0 /\ requests' = Append(requests, q)
           /\ Linked => r \in Members(requests')
BY AppendMembers DEF Ask, Linked

LEMMA SyncRequest ==
    ASSUME ConversationInv, NEW type \in {"sync", "resume"}
    PROVE  /\ <<type, cursor>> \in Request /\ <<type, cursor>> # <<"hello">>
           /\ \A m \in Wanted : m > cursor => AsksFor(<<type, cursor>>, m)
<1>1. <<type, cursor>> \in Request
  BY LogTyped DEF Request
<1>2. <<type, cursor>>[1] = type /\ <<type, cursor>>[2] = cursor /\ <<"hello">>[1] = "hello"
  OBVIOUS
<1>3. \A m \in Wanted : m \in Nat /\ cursor \in Nat
  BY LogTyped DEF Wanted, Missing, Theirs
<1> QED
  BY <1>1, <1>2, <1>3 DEF AsksFor

LEMMA WelcomedClient ==
    ASSUME ClientInv, Welcomed, ConversationInv'
    PROVE  WireInv' /\ GreetingInv' /\ HolesInv'
<1>1. /\ UNCHANGED <<server, hello, reader, current, conn, log, cursor, shown, skipped>>
      /\ events # <<>> /\ Head(events)[1] = "welcome" /\ Take
  BY DEF Welcomed, Got, server, sockets, client, ghost
<1>2. PICK type \in {"sync", "resume"} : Ask(<<type, cursor>>)
  BY DEF Welcomed
<1>3. /\ <<type, cursor>> \in Request /\ <<type, cursor>> # <<"hello">>
      /\ \A m \in Wanted : m > cursor => AsksFor(<<type, cursor>>, m)
  BY SyncRequest DEF ClientInv
<1>4. /\ \/ UNCHANGED requests
         \/ \E q \in Request : q # <<"hello">> /\ current # 0 /\ requests' = Append(requests, q)
      /\ Linked => <<type, cursor>> \in Members(requests')
  BY <1>2, <1>3, AskOutcome DEF ClientInv, WireInv
<1>5. /\ WireInv' /\ GreetingInv' /\ Linked' = Linked /\ current' # 0
      /\ Members(events) = {Head(events)} \cup Members(events')
      /\ Members(requests) \subseteq Members(requests')
  BY <1>1, <1>4, Taken
<1>6. \A m \in Wanted' : m \in Wanted
  BY <1>1 DEF Wanted, Missing, Theirs
<1>7. \A m : ~Carries(Head(events), m)
  <2>1. /\ \A m : <<"new", m>>[1] = "new"
        /\ <<"requires_sync">>[1] = "requires_sync"
    OBVIOUS
  <2> QED
    BY <1>1, <2>1 DEF Carries
<1>8. ASSUME Linked', NEW m \in Wanted' PROVE OnItsWay(m)'
  <2>1. CASE OnItsWay(m)
    BY <1>1, <1>5, <1>7, <1>8, <2>1, TakenWays
  <2>2. CASE ~OnItsWay(m)
    <3>1. AsksFor(<<type, cursor>>, m)
      BY <1>3, <1>5, <1>6, <1>8, <2>2 DEF ClientInv, HolesInv
    <3> QED
      BY <1>4, <1>5, <1>8, <3>1, WaysOnNext
  <2> QED
    BY <2>1, <2>2
<1>9. HolesInv'
  BY <1>5, <1>8 DEF HolesInv
<1> QED
  BY <1>5, <1>9

LEMMA ResumedClient ==
    ASSUME ClientInv, Resumed, ConversationInv'
    PROVE  WireInv' /\ GreetingInv' /\ HolesInv'
<1>1. /\ UNCHANGED <<server, hello, reader, current, conn, log, cursor, shown>>
      /\ events # <<>> /\ Take /\ Ask(<<"sync", cursor>>)
      /\ skipped' = skipped \cup Missing(1..cursor)
  BY DEF Resumed, Got, server, sockets, client, Skip
<1>2. /\ <<"sync", cursor>> \in Request /\ <<"sync", cursor>> # <<"hello">>
      /\ \A m \in Wanted : m > cursor => AsksFor(<<"sync", cursor>>, m)
  BY SyncRequest DEF ClientInv
<1>3. /\ \/ UNCHANGED requests
         \/ \E q \in Request : q # <<"hello">> /\ current # 0 /\ requests' = Append(requests, q)
      /\ Linked => <<"sync", cursor>> \in Members(requests')
  BY <1>1, <1>2, AskOutcome DEF ClientInv, WireInv
<1>4. WireInv' /\ GreetingInv' /\ Linked' = Linked /\ current' # 0
  BY <1>1, <1>3, Taken
<1>5. ASSUME NEW m \in Wanted' PROVE m \in Wanted /\ m > cursor
  <2>1. m \in Wanted /\ m \notin Missing(1..cursor)
    BY <1>1, WantedSubset
  <2>2. m \in DOMAIN log /\ m \notin 1..cursor
    BY <2>1 DEF Wanted, Missing, Theirs
  <2> QED
    BY <2>1, <2>2, LogTyped DEF ClientInv
<1>6. ASSUME Linked', NEW m \in Wanted' PROVE OnItsWay(m)'
  BY <1>2, <1>3, <1>4, <1>5, <1>6, WaysOnNext
<1>7. HolesInv'
  BY <1>4, <1>6 DEF HolesInv
<1> QED
  BY <1>4, <1>7

LEMMA MessageNewClient ==
    ASSUME ClientInv, MessageNew, ConversationInv'
    PROVE  WireInv' /\ GreetingInv' /\ HolesInv'
<1> DEFINE a == Arg(1)
<1>1. /\ UNCHANGED <<server, hello, reader, current, conn, log, requests>>
      /\ events # <<>> /\ Take /\ Got("new")
      /\ shown' = shown \cup Theirs({a}) /\ cursor' = Greater(cursor, a)
      /\ skipped' = (skipped \cup IF WelcomeAwaited THEN Missing(1..a) ELSE {}) \ {a}
  BY DEF MessageNew, Got, server, sockets, Show
<1>2. a \in DOMAIN log /\ Head(events) = <<"new", a>>
  BY <1>1, Received DEF ClientInv
<1>3. /\ WireInv' /\ GreetingInv' /\ Linked' = Linked /\ current' # 0
      /\ Members(events) = {Head(events)} \cup Members(events')
      /\ Members(requests) \subseteq Members(requests')
      /\ Head(events) # <<"welcome">> /\ WelcomeAwaited => WelcomeAwaited'
  BY <1>1, Taken
<1>4. Head(events) # <<"welcome">>
  BY <1>2
<1> HIDE DEF a
<1>5. ASSUME NEW m \in Wanted'
      PROVE  m \in Wanted /\ m # a /\ (WelcomeAwaited => m \notin 1..a)
  <2>1. m # a
    BY <1>1 DEF Wanted, Missing, Theirs
  <2> QED
    BY <1>1, <2>1 DEF Wanted, Missing, Theirs
<1>6. ASSUME NEW m, m # a PROVE ~Carries(Head(events), m)
  <2>1. <<"new", a>> # <<"new", m>> /\ <<"new", a>>[1] = "new" /\ <<"new", a>> # <<"requires_sync">>
    BY <1>6
  <2> QED
    BY <1>2, <2>1 DEF Carries
<1>7. ASSUME Linked', NEW m \in Wanted'
      PROVE  OnItsWay(m)' \/ (WelcomeAwaited' /\ m > cursor')
  <2>1. OnItsWay(m) \/ (WelcomeAwaited /\ m > cursor)
    BY <1>3, <1>5, <1>7 DEF ClientInv, HolesInv
  <2>2. CASE OnItsWay(m)
    BY <1>1, <1>3, <1>5, <1>6, <1>7, <2>2, TakenWays
  <2>3. CASE WelcomeAwaited /\ m > cursor
    <3>1. m \in DOMAIN log /\ m \notin 1..a
      BY <1>5, <2>3 DEF Wanted, Missing, Theirs
    <3>2. m > cursor'
      BY <1>1, <1>2, <2>3, <3>1, LogTyped DEF Greater, ClientInv
    <3> QED
      BY <1>3, <1>4, <2>3, <3>2
  <2> QED
    BY <2>1, <2>2, <2>3
<1>8. HolesInv'
  BY <1>3, <1>7 DEF HolesInv
<1> QED
  BY <1>3, <1>8

(* A message of another conversation shows nothing, and moves the cursor.  *)
LEMMA OtherMessageClient ==
    ASSUME ClientInv, OtherMessage, ConversationInv'
    PROVE  WireInv' /\ GreetingInv' /\ HolesInv'
<1> DEFINE a == Arg(1)
<1>1. /\ UNCHANGED <<server, hello, reader, current, conn, log, requests>>
      /\ events # <<>> /\ Take /\ Got("other") /\ Head(events)[1] = "other"
      /\ shown \subseteq shown' /\ cursor' = Greater(cursor, a)
      /\ IF WelcomeAwaited THEN Skip(1..a) ELSE UNCHANGED ghost
  BY DEF OtherMessage, Got, server, sockets, Show
<1>2. a \in Message
  BY <1>1, Received DEF ClientInv
<1>3. Head(events) # <<"welcome">> /\ \A m : ~Carries(Head(events), m)
  <2>1. /\ \A x : <<"new", x>>[1] = "new"
        /\ <<"requires_sync">>[1] = "requires_sync" /\ <<"welcome">>[1] = "welcome"
    OBVIOUS
  <2> QED
    BY <1>1, <2>1 DEF Carries
<1>4. /\ WireInv' /\ GreetingInv' /\ Linked' = Linked /\ current' # 0
      /\ Members(events) = {Head(events)} \cup Members(events')
      /\ Members(requests) \subseteq Members(requests')
      /\ WelcomeAwaited => WelcomeAwaited'
  BY <1>1, <1>3, Taken
<1> HIDE DEF a
<1>5. ASSUME NEW m \in Wanted' PROVE m \in Wanted /\ (WelcomeAwaited => m \notin 1..a)
  <2>1. CASE WelcomeAwaited
    <3>1. skipped' = skipped \cup Missing(1..a)
      BY <1>1, <2>1 DEF Skip
    <3> QED
      BY <1>1, <3>1 DEF Wanted, Missing, Theirs
  <2>2. CASE ~WelcomeAwaited
    BY <1>1, <2>2 DEF ghost, Wanted, Missing, Theirs
  <2> QED
    BY <2>1, <2>2
<1>6. ASSUME Linked', NEW m \in Wanted'
      PROVE  OnItsWay(m)' \/ (WelcomeAwaited' /\ m > cursor')
  <2>1. OnItsWay(m) \/ (WelcomeAwaited /\ m > cursor)
    BY <1>4, <1>5, <1>6 DEF ClientInv, HolesInv
  <2>2. CASE OnItsWay(m)
    BY <1>1, <1>3, <1>4, <1>6, <2>2, TakenWays
  <2>3. CASE WelcomeAwaited /\ m > cursor
    <3>1. m \in DOMAIN log /\ m \notin 1..a
      BY <1>5, <2>3 DEF Wanted, Missing, Theirs
    <3>2. m > cursor'
      BY <1>1, <1>2, <2>3, <3>1, LogTyped DEF Greater, ClientInv, Message
    <3> QED
      BY <1>4, <2>3, <3>2
  <2> QED
    BY <2>1, <2>2, <2>3
<1>7. HolesInv'
  BY <1>4, <1>6 DEF HolesInv
<1> QED
  BY <1>4, <1>7

LEMMA AnswerReceived ==
    ASSUME ClientInv, MessageAccepted \/ SyncResponse, ConversationInv'
    PROVE  WireInv' /\ GreetingInv' /\ HolesInv'
<1>1. /\ UNCHANGED <<server, hello, reader, current, conn, log, requests>>
      /\ events # <<>> /\ Take /\ Head(events)[1] \in {"accepted", "sync"}
  BY DEF MessageAccepted, SyncResponse, Got, server, sockets, Show
<1>2. /\ WireInv' /\ GreetingInv' /\ Linked' = Linked /\ current' # 0
      /\ Members(events) = {Head(events)} \cup Members(events')
      /\ Members(requests) \subseteq Members(requests')
      /\ ~WelcomeAwaited
  BY <1>1, Taken DEF Early
<1>3. ASSUME NEW m \in Wanted' PROVE m \in Wanted /\ ~Carries(Head(events), m)
  <2>1. /\ \A x : <<"new", x>>[1] = "new"
        /\ <<"requires_sync">>[1] = "requires_sync"
    OBVIOUS
  <2>2. CASE MessageAccepted
    <3>1. Head(events)[1] = "accepted" /\ shown \subseteq shown' /\ skipped' = skipped
      BY <2>2 DEF MessageAccepted, Got, Show, ghost
    <3> QED
      BY <1>1, <2>1, <3>1 DEF Wanted, Missing, Theirs, Carries
  <2>3. CASE SyncResponse
    <3>1. /\ Head(events)[1] = "sync" /\ shown' = shown \cup Theirs((Arg(1) + 1)..Arg(2))
          /\ skipped' = skipped \ ((Arg(1) + 1)..Arg(2))
      BY <2>3 DEF SyncResponse, Got, Show
    <3>2. m \in DOMAIN log /\ m \notin (Arg(1) + 1)..Arg(2)
      BY <1>1, <3>1 DEF Wanted, Missing, Theirs
    <3>3. m \in Wanted
      BY <1>1, <3>1, <3>2 DEF Wanted, Missing, Theirs
    <3>4. Arg(1) \in 0..MaxMessages /\ Arg(2) \in 0..MaxMessages
      BY <1>1, <3>1, Received DEF ClientInv, Got
    <3>5. ~(Arg(1) < m /\ m <= Arg(2))
      BY <3>2, <3>4, LogTyped DEF ClientInv
    <3>6. Arg(1) = Head(events)[2] /\ Arg(2) = Head(events)[3]
      BY DEF Arg
    <3> QED
      BY <2>1, <3>1, <3>3, <3>5, <3>6 DEF Carries
  <2> QED
    BY <2>2, <2>3
<1>4. ASSUME Linked', NEW m \in Wanted' PROVE OnItsWay(m)'
  <2>1. OnItsWay(m)
    BY <1>2, <1>3, <1>4 DEF ClientInv, HolesInv
  <2> QED
    BY <1>1, <1>2, <1>3, <1>4, <2>1, TakenWays
<1>5. HolesInv'
  BY <1>2, <1>4 DEF HolesInv
<1> QED
  BY <1>2, <1>5

LEMMA SendMessageClient ==
    ASSUME ClientInv, SendMessage, ConversationInv'
    PROVE  WireInv' /\ GreetingInv' /\ HolesInv'
<1>1. /\ UNCHANGED <<server, hello, reader, current, conn, log, stream, lastId, waitsAt, events>>
      /\ UNCHANGED <<cursor, shown, skipped>>
      /\ Ask(<<"send">>)
  BY DEF SendMessage, server, sockets, reader, client, ghost
<1>2. <<"send">> \in Request /\ <<"send">> # <<"hello">>
  BY DEF Request
<1>3. \/ UNCHANGED requests
      \/ \E q \in Request : q # <<"hello">> /\ current # 0 /\ requests' = Append(requests, q)
  BY <1>1, <1>2, AskOutcome DEF ClientInv, WireInv
<1>4. /\ requests' \in Seq(Request)
      /\ Members(requests) \subseteq Members(requests')
      /\ \A n \in DOMAIN requests' : requests'[n] = <<"hello">> => n = 1 /\ ~hello'
      /\ Linked' /\ ~hello' => requests' # <<>> /\ Head(requests') = <<"hello">>
  BY <1>1, <1>3, Requested DEF ClientInv
<1>5. WireInv'
  <2>1. KnownEvent' = KnownEvent /\ (current = 0 => requests' = requests)
    BY <1>1, <1>3 DEF KnownEvent
  <2> QED
    BY <1>1, <1>4, <2>1 DEF ClientInv, WireInv
<1>6. GreetingInv'
  BY <1>1, <1>4 DEF ClientInv, GreetingInv
<1>7. /\ \A m \in Wanted' : m \in Wanted
      /\ WelcomeAwaited' = WelcomeAwaited /\ Linked' = Linked
  BY <1>1 DEF Wanted, Missing, Theirs, WelcomeAwaited, Linked
<1>8. ASSUME Linked', NEW m \in Wanted', OnItsWay(m) PROVE OnItsWay(m)'
  <2>1. Ahead(m) => Ahead(m)'
    BY <1>1 DEF Ahead, NotReading
  <2> QED
    BY <1>1, <1>4, <1>8, <2>1, WaysOn, WaysOnNext DEF server
<1>9. HolesInv'
  BY <1>1, <1>7, <1>8, HolesKept DEF ClientInv
<1> QED
  BY <1>5, <1>6, <1>9

-----------------------------------------------------------------------------
LEMMA ClientInvInit == Init => ClientInv
<1> SUFFICES ASSUME Init PROVE ClientInv
  OBVIOUS
<1>1. /\ log = <<>> /\ stream = <<>> /\ requests = <<>> /\ events = <<>>
      /\ current = 0 /\ hello = FALSE /\ lastId = Dollar /\ waitsAt = NotReading
      /\ cursor = 0 /\ route = [m \in Message |-> "none"]
  BY DEF Init
<1>2. DOMAIN log = {} /\ DOMAIN stream = {} /\ DOMAIN requests = {} /\ DOMAIN events = {}
      /\ Len(log) = 0 /\ Len(stream) = 0
  BY <1>1
<1>3. /\ log \in Seq({"mine", "theirs"}) /\ stream \in Seq(DOMAIN log)
      /\ requests \in Seq(Request) /\ events \in Seq(KnownEvent)
  BY <1>1
<1>4. ConversationInv
  BY <1>1, <1>2, <1>3 DEF ConversationInv
<1>5. WireInv
  <2>1. hello \in BOOLEAN /\ ~hello
    BY <1>1
  <2>2. lastId \in 0..Len(stream) \cup {Dollar}
    BY <1>1
  <2> QED
    BY <1>1, <1>3, <2>1, <2>2 DEF WireInv
<1>6. ~Linked /\ Wanted = {}
  BY <1>1, <1>2 DEF Linked, Wanted, Missing, Theirs
<1>7. GreetingInv /\ HolesInv
  BY <1>2, <1>6 DEF GreetingInv, HolesInv
<1> QED
  BY <1>4, <1>5, <1>7 DEF ClientInv

LEMMA ClientInvStep == SessionInv /\ ClientInv /\ [Next]_vars => ClientInv'
<1> SUFFICES ASSUME SessionInv, ClientInv, [Next]_vars PROVE ClientInv'
  OBVIOUS
<1>1. ConversationInv'
  BY ConversationStep DEF ClientInv
<1>2. SUFFICES WireInv' /\ GreetingInv' /\ HolesInv'
  BY <1>1 DEF ClientInv
<1>3. ASSUME NEW m \in Message, LookUp(m) \/ HandOver(m)
      PROVE  WireInv' /\ GreetingInv' /\ HolesInv'
  BY <1>1, <1>3, LookUpClient, HandOverClient
<1>4. ASSUME NEW s \in Sockets,
             Connect(s) \/ HandleLate(s) \/ Close(s) \/ Count(s) \/ DeleteSet(s) \/ Crash(s)
      PROVE  WireInv' /\ GreetingInv' /\ HolesInv'
  BY <1>1, <1>4, ConnectClient, HandleLateClient, CloseClient, UnregisterClient DEF SessionInv
<1>5. CASE HandleHeartbeat \/ Expire \/ ExpireLate \/ UNCHANGED vars
  <2>1. /\ UNCHANGED <<server, wire, hello, reader, client, skipped>>
        /\ UNCHANGED <<conn, current>>
    BY <1>5 DEF HandleHeartbeat, Expire, ExpireLate, sockets, client, ghost, vars
  <2> QED
    BY <1>1, <2>1, QuietClient DEF Linked
<1>6. CASE Handle
  BY <1>1, <1>5, <1>6, HandleHelloClient, HandleSendClient, HandleSyncClient,
     HandleResumeClient, RejectClient DEF Handle
<1>7. CASE Forwarder
  BY <1>1, <1>7, ReadClient, ForwardClient, ForwardOtherClient, ForwarderDiesClient DEF Forwarder
<1>8. CASE Client
  BY <1>1, <1>8, WelcomedClient, ResumedClient, MessageNewClient, OtherMessageClient,
     AnswerReceived,
     SendMessageClient, DisconnectClient DEF Client
<1>9. CASE PeerSends
  BY <1>1, <1>9, PeerSendsClient
<1> QED
  BY <1>3, <1>4, <1>5, <1>6, <1>7, <1>8, <1>9 DEF Next

THEOREM ClientInvariant == Spec => []ClientInv
<1>1. SessionInv /\ ClientInv /\ [Next]_vars => (SessionInv /\ ClientInv)'
  BY SessionInvStep, ClientInvStep
<1>2. Init => SessionInv /\ ClientInv
  BY SessionInvInit, ClientInvInit
<1> QED
  BY <1>1, <1>2, PTL DEF Spec

(* The client never asks again for what its cursor has passed: a message   *)
(* below the cursor that it does not show is on its way, or it met one of  *)
(* the ways of being lost that the model names, the messages of other      *)
(* conversations that move the cursor among them; there are no others, for *)
(* any number of messages of this conversation and of others, of           *)
(* connections and of faults.                                              *)
THEOREM HolesAreExplained == Spec => []HolesExplained
<1>1. ClientInv => HolesExplained
  <2> SUFFICES ASSUME ClientInv, current = 0 \/ Linked,
                      NEW m \in Missing(1..cursor) \ skipped
               PROVE  OnItsWay(m)
    BY DEF HolesExplained
  <2>1. m \in Wanted /\ ~(m > cursor)
    BY LogTyped DEF Wanted, Missing, Theirs, ClientInv
  <2> QED
    BY <2>1 DEF ClientInv, HolesInv
<1> QED
  BY <1>1, ClientInvariant, PTL
-----------------------------------------------------------------------------
(* Type correctness.  What a connection leaves behind when the client goes *)
(* is bounded by what the client may send ahead.                           *)
RestTypeOK ==
    /\ PresenceTypeOK
    /\ late \in [Sockets -> 0..MaxRequests]
    /\ shown \subseteq DOMAIN log /\ skipped \subseteq DOMAIN log
    /\ faults \in 0..MaxFaults
    /\ Cardinality(Untaken) <= MaxRequests

TypesInv == SessionInv /\ ClientInv /\ RestTypeOK

LEMMA PresenceStep ==
    ASSUME SessionTypeOK, PresenceTypeOK, [Next]_vars
    PROVE  PresenceTypeOK'
<1>1. CASE UNCHANGED presence
  BY <1>1 DEF PresenceTypeOK, presence
<1>2. ASSUME NEW s \in Sockets, RegisterSession(s) \/ RemoveSocket(s) PROVE PresenceTypeOK'
  BY <1>2 DEF RegisterSession, RemoveSocket, PresenceTypeOK
<1>3. CASE Heartbeat(current)
  BY <1>3 DEF Heartbeat, PresenceTypeOK
<1>4. CASE GoOffline
  BY <1>4 DEF GoOffline, PresenceTypeOK
<1>5. ASSUME NEW S, SocketExpires(S) \/ SetExpires(S) \/ StatusExpires(S) PROVE PresenceTypeOK'
  BY <1>5 DEF SocketExpires, SetExpires, StatusExpires, PresenceTypeOK
<1>6. CASE PeerSends \/ (\E m \in Message : LookUp(m) \/ HandOver(m)) \/ Forwarder \/ Client
  <2>1. UNCHANGED presence
    BY <1>6 DEF PeerSends, LookUp, HandOver, Forwarder, Read, ReadTimesOut, Forward,
                ForwardOther, ForwarderDies, Client, Welcomed, Resumed, MessageNew,
                OtherMessage, MessageAccepted, SyncResponse, SendMessage, Disconnect
  <2> QED
    BY <1>1, <2>1
<1>7. CASE Handle
  BY <1>1, <1>3, <1>7 DEF Handle, HandleHello, HandleHeartbeat, HandleSend, HandleSync,
                          HandleResume, Reject
<1>8. ASSUME NEW s \in Sockets,
             Connect(s) \/ HandleLate(s) \/ Close(s) \/ Count(s) \/ DeleteSet(s) \/ Crash(s)
      PROVE  PresenceTypeOK'
  BY <1>1, <1>2, <1>4, <1>8 DEF Connect, HandleLate, Close, Count, DeleteSet, Crash
<1>9. CASE Expire \/ ExpireLate
  BY <1>5, <1>9 DEF Expire, ExpireLate
<1> QED
  BY <1>1, <1>6, <1>7, <1>8, <1>9 DEF Next, vars

LEMMA FaultsStep ==
    ASSUME faults \in 0..MaxFaults, [Next]_vars
    PROVE  faults' \in 0..MaxFaults
<1>1. CASE UNCHANGED faults \/ Fault
  BY <1>1 DEF Fault
<1>2. CASE PeerSends \/ (\E m \in Message : LookUp(m) \/ HandOver(m)) \/ Forwarder
  BY <1>1, <1>2 DEF PeerSends, LookUp, HandOver, Forwarder, Read, ReadTimesOut, Forward,
                    ForwardOther, ForwarderDies, Skip, ghost
<1>3. CASE Handle
  BY <1>1, <1>3 DEF Handle, HandleHello, HandleHeartbeat, HandleSend, HandleSync,
                    HandleResume, Reject, Skip, ghost
<1>4. CASE Client
  BY <1>1, <1>4 DEF Client, Welcomed, Resumed, MessageNew, OtherMessage, MessageAccepted,
                    SyncResponse, SendMessage, Disconnect, Skip, ghost
<1>5. ASSUME NEW s \in Sockets,
             Connect(s) \/ HandleLate(s) \/ Close(s) \/ Count(s) \/ DeleteSet(s) \/ Crash(s)
      PROVE  UNCHANGED faults \/ Fault
  BY <1>5 DEF Connect, HandleLate, Close, Count, DeleteSet, Crash, ghost
<1>6. CASE Expire \/ ExpireLate \/ UNCHANGED vars
  BY <1>1, <1>6 DEF Expire, ExpireLate, ghost, vars
<1> QED
  BY <1>1, <1>2, <1>3, <1>4, <1>5, <1>6 DEF Next

(* The client shows, and the gateway loses, only what was written.         *)
LEMMA HistoryStep ==
    ASSUME ConversationInv, shown \subseteq DOMAIN log, skipped \subseteq DOMAIN log, [Next]_vars
    PROVE  shown' \subseteq DOMAIN log' /\ skipped' \subseteq DOMAIN log'
<1>1. \A S : Missing(S) \subseteq DOMAIN log /\ Theirs(S) \subseteq DOMAIN log
  BY DEF Missing, Theirs
<1>2. DOMAIN log \subseteq DOMAIN log'
  <2>1. CASE PeerSends \/ HandleSend \/ \E s \in Sockets : HandleLate(s)
    BY <2>1, LogAppended DEF PeerSends, HandleSend, HandleLate
  <2>2. CASE ~(PeerSends \/ HandleSend \/ \E s \in Sockets : HandleLate(s))
    <3>1. log' = log
      BY <2>2 DEF Next, LookUp, HandOver, Connect, Close, Count, DeleteSet, Crash, Handle,
                  HandleHello, HandleHeartbeat, HandleSync, HandleResume, Reject, Forwarder,
                  Read, ReadTimesOut, Forward, ForwardOther, ForwarderDies, Client, Welcomed,
                  Resumed, MessageNew, OtherMessage, MessageAccepted, SyncResponse, SendMessage,
                  Disconnect, Expire, ExpireLate, server, vars
    <3> QED
      BY <3>1
  <2> QED
    BY <2>1, <2>2
<1>3. SUFFICES /\ shown' \subseteq shown \cup DOMAIN log'
               /\ skipped' \subseteq skipped \cup DOMAIN log'
  BY <1>2
<1>4. ASSUME NEW S, Skip(S) PROVE skipped' \subseteq skipped \cup DOMAIN log'
  BY <1>1, <1>2, <1>4 DEF Skip
<1>5. CASE PeerSends
  <2>1. shown' = shown /\ skipped' \subseteq skipped \cup {Len(log) + 1}
    BY <1>5 DEF PeerSends, client
  <2>2. Len(log) + 1 \in DOMAIN log'
    BY <1>5, LogAppended, LogTyped DEF PeerSends
  <2> QED
    BY <2>1, <2>2
<1>6. CASE (\E m \in Message : LookUp(m) \/ HandOver(m)) \/ Forwarder
  <2>1. shown' = shown
    BY <1>6 DEF LookUp, HandOver, Forwarder, Read, ReadTimesOut, Forward, ForwardOther,
                ForwarderDies, client
  <2>2. skipped' \subseteq skipped \cup DOMAIN log'
    BY <1>1, <1>2, <1>4, <1>6 DEF LookUp, HandOver, Forwarder, Read, ReadTimesOut, Forward,
                                  ForwardOther, ForwarderDies, ghost
  <2> QED
    BY <2>1, <2>2
<1>7. CASE Handle
  <2>1. shown' = shown
    BY <1>7 DEF Handle, HandleHello, HandleHeartbeat, HandleSend, HandleSync, HandleResume,
                Reject, client
  <2>2. skipped' \subseteq skipped \cup DOMAIN log'
    BY <1>4, <1>7 DEF Handle, HandleHello, HandleHeartbeat, HandleSend, HandleSync, HandleResume,
                      Reject, ghost
  <2> QED
    BY <2>1, <2>2
<1>8. CASE MessageNew \/ OtherMessage \/ MessageAccepted \/ SyncResponse
  <2>1. shown' \subseteq shown \cup DOMAIN log'
    BY <1>1, <1>2, <1>8 DEF MessageNew, OtherMessage, MessageAccepted, SyncResponse, Show
  <2>2. skipped' \subseteq skipped \cup DOMAIN log'
    BY <1>1, <1>2, <1>4, <1>8
    DEF MessageNew, OtherMessage, MessageAccepted, SyncResponse, ghost
  <2> QED
    BY <2>1, <2>2
<1>9. CASE Welcomed \/ Resumed \/ SendMessage \/ Disconnect
  <2>1. shown' = shown
    BY <1>9 DEF Welcomed, Resumed, SendMessage, Disconnect, client
  <2>2. skipped' \subseteq skipped \cup DOMAIN log'
    BY <1>4, <1>9 DEF Welcomed, Resumed, SendMessage, Disconnect, ghost
  <2> QED
    BY <2>1, <2>2
<1>10. CASE \/ \E s \in Sockets : Connect(s) \/ HandleLate(s) \/ Close(s) \/ Count(s)
                              \/ DeleteSet(s) \/ Crash(s)
           \/ Expire \/ ExpireLate \/ UNCHANGED vars
  BY <1>10 DEF Connect, HandleLate, Close, Count, DeleteSet, Crash, Expire, ExpireLate, Fault,
              client, ghost, vars
<1> QED
  BY <1>5, <1>6, <1>7, <1>8, <1>9, <1>10 DEF Next, Client

-----------------------------------------------------------------------------
LEMMA PlacesOf ==
    ASSUME NEW S, NEW s \in Seq(S), NEW T \in SUBSET DOMAIN s
    PROVE  IsFiniteSet(T) /\ Cardinality(T) \in Nat /\ Cardinality(T) <= Len(s)
<1>1. Len(s) \in Nat /\ DOMAIN s = 1..Len(s)
  BY LenProperties
<1>2. /\ IsFiniteSet(1..Len(s))
      /\ Cardinality(1..Len(s)) = IF 1 > Len(s) THEN 0 ELSE Len(s) - 1 + 1
  BY <1>1, FS_Interval
<1>3. Cardinality(1..Len(s)) = Len(s)
  BY <1>1, <1>2
<1>4. IsFiniteSet(T) /\ Cardinality(T) <= Cardinality(1..Len(s))
  BY <1>1, <1>2, FS_Subset
<1> QED
  BY <1>3, <1>4, FS_CardinalityType

LEMMA UntakenFinite ==
    ASSUME NEW S, requests \in Seq(S)
    PROVE  /\ IsFiniteSet(Untaken) /\ Cardinality(Untaken) \in Nat
           /\ Cardinality(Untaken) <= Len(requests)
<1>1. Untaken \in SUBSET DOMAIN requests
  BY DEF Untaken
<1> QED
  BY <1>1, PlacesOf

LEMMA UntakenNext ==
    ASSUME NEW S, requests' \in Seq(S)
    PROVE  Cardinality(Untaken') \in Nat /\ Cardinality(Untaken') <= Len(requests')
<1>1. Untaken' \in SUBSET DOMAIN requests'
  BY DEF Untaken
<1> QED
  BY <1>1, PlacesOf

LEMMA UntakenEmpty ==
    ASSUME requests' \in {<<>>, << <<"hello">> >>}
    PROVE  Cardinality(Untaken') = 0
<1>1. Untaken' = {}
  <2>1. DOMAIN requests' \subseteq {1} /\ \A n \in DOMAIN requests' : requests'[n] = <<"hello">>
    OBVIOUS
  <2>2. <<"hello">> # <<"send">>
    OBVIOUS
  <2> QED
    BY <2>1, <2>2 DEF Untaken
<1> QED
  BY <1>1, FS_EmptySet

(* The first request is taken: the others move up.                         *)
LEMMA UntakenTail ==
    ASSUME WireInv, requests # <<>>, requests' = Tail(requests)
    PROVE  Cardinality(Untaken') <= Cardinality(Untaken)
<1>1. /\ requests' \in Seq(Request)
      /\ \A n \in DOMAIN requests' : n \in Nat /\ n + 1 \in DOMAIN requests
                                     /\ requests'[n] = requests[n + 1]
  BY TailMembers DEF WireInv
<1>2. IsFiniteSet(Untaken)
  BY UntakenFinite DEF WireInv
<1> DEFINE up == [n \in Untaken' |-> n + 1]
<1>3. up \in Injection(Untaken', Untaken)
  <2>1. up \in [Untaken' -> Untaken]
    BY <1>1 DEF Untaken
  <2>2. \A a, b \in Untaken' : up[a] = up[b] => a = b
    BY <1>1 DEF Untaken
  <2> QED
    BY <2>1, <2>2 DEF Injection, IsInjective
<1> QED
  BY <1>2, <1>3, FS_Injection

LEMMA UntakenAppend ==
    ASSUME WireInv, NEW r, r # <<"send">>, requests' = Append(requests, r)
    PROVE  Untaken' = Untaken
<1>1. Len(requests) \in Nat /\ DOMAIN requests = 1..Len(requests)
  BY LenProperties DEF WireInv
<1>2. /\ DOMAIN requests' = 1..(Len(requests) + 1) /\ requests'[Len(requests) + 1] = r
      /\ \A n \in 1..Len(requests) : requests'[n] = requests[n]
  BY <1>1 DEF WireInv
<1>3. \A n : n \in DOMAIN requests' <=> n \in DOMAIN requests \/ n = Len(requests) + 1
  BY <1>1, <1>2
<1>4. Len(requests) + 1 \notin Untaken'
  BY <1>2 DEF Untaken
<1>5. \A n \in DOMAIN requests : n \in Untaken' <=> n \in Untaken
  BY <1>1, <1>2, <1>3 DEF Untaken
<1> QED
  BY <1>3, <1>4, <1>5 DEF Untaken

(* What was sent ahead stays within the bound, and so does what a          *)
(* connection leaves behind.                                               *)
LEMMA UntakenStep ==
    ASSUME ClientInv, Cardinality(Untaken) <= MaxRequests, [Next]_vars
    PROVE  Cardinality(Untaken') <= MaxRequests
<1>1. WireInv /\ requests \in Seq(Request) /\ Cardinality(Untaken) \in Nat /\ MaxRequests \in Nat
  BY UntakenFinite DEF ClientInv, WireInv
<1>2. CASE UNCHANGED requests
  BY <1>2 DEF Untaken
<1>3. CASE requests' \in {<<>>, << <<"hello">> >>}
  BY <1>1, <1>3, UntakenEmpty
<1>4. CASE requests # <<>> /\ requests' = Tail(requests)
  <2>1. Cardinality(Untaken') <= Cardinality(Untaken)
    BY <1>1, <1>4, UntakenTail
  <2>2. requests' \in Seq(Request)
    BY <1>1, <1>4, TailMembers
  <2>3. Cardinality(Untaken') \in Nat
    BY <2>2, UntakenFinite, UntakenNext
  <2> QED
    BY <1>1, <2>1, <2>3
<1>5. ASSUME NEW r, r # <<"send">>, Ask(r) PROVE Cardinality(Untaken') <= MaxRequests
  BY <1>1, <1>2, <1>5, UntakenAppend DEF Ask
<1>6. CASE SendMessage
  <2>1. requests' = Append(requests, <<"send">>) /\ Len(requests) + Len(events) < MaxRequests
    BY <1>6 DEF SendMessage, Ask
  <2>2. <<"send">> \in Request /\ Len(requests) \in Nat /\ Len(events) \in Nat
    BY LenProperties DEF Request, ClientInv, WireInv
  <2>3. requests' \in Seq(Request) /\ Len(requests') = Len(requests) + 1
    BY <1>1, <2>1, <2>2, AppendMembers
  <2>4. Cardinality(Untaken') \in Nat /\ Cardinality(Untaken') <= Len(requests')
    BY <2>3, UntakenNext
  <2> QED
    BY <1>1, <2>1, <2>2, <2>3, <2>4
<1>7. CASE Handle
  BY <1>2, <1>4, <1>7 DEF Handle, HandleHello, HandleHeartbeat, HandleSend, HandleSync,
                          HandleResume, Reject, Asked, Answer, wire
<1>8. CASE Welcomed \/ Resumed
  <2>1. <<"sync", cursor>> # <<"send">> /\ <<"resume", cursor>> # <<"send">>
    OBVIOUS
  <2> QED
    BY <1>5, <1>8, <2>1 DEF Welcomed, Resumed
<1>9. CASE MessageNew \/ OtherMessage \/ MessageAccepted \/ SyncResponse \/ Disconnect
  BY <1>2, <1>3, <1>9 DEF MessageNew, OtherMessage, MessageAccepted, SyncResponse, Disconnect
<1>10. ASSUME NEW s \in Sockets,
              Connect(s) \/ HandleLate(s) \/ Close(s) \/ Count(s) \/ DeleteSet(s) \/ Crash(s)
       PROVE  UNCHANGED requests \/ requests' \in {<<>>, << <<"hello">> >>}
  BY <1>10 DEF Connect, HandleLate, Close, Count, DeleteSet, Crash, Stop, wire
<1>11. CASE \/ PeerSends \/ Forwarder \/ Expire \/ ExpireLate \/ UNCHANGED vars
            \/ \E m \in Message : LookUp(m) \/ HandOver(m)
  BY <1>2, <1>11 DEF PeerSends, LookUp, HandOver, Forwarder, Read, ReadTimesOut, Forward,
                     ForwardOther, ForwarderDies, Expire, ExpireLate, wire, vars
<1> QED
  BY <1>2, <1>3, <1>6, <1>7, <1>8, <1>9, <1>10, <1>11 DEF Next, Client

LEMMA LateStep ==
    ASSUME ClientInv, SessionTypeOK, Cardinality(Untaken) <= MaxRequests,
           late \in [Sockets -> 0..MaxRequests], [Next]_vars
    PROVE  late' \in [Sockets -> 0..MaxRequests]
<1>1. Cardinality(Untaken) \in 0..MaxRequests /\ 0 \in 0..MaxRequests
  BY UntakenFinite DEF ClientInv, WireInv
<1>2. ASSUME NEW s, NEW n \in 0..MaxRequests, late' = [late EXCEPT ![s] = n]
      PROVE  late' \in [Sockets -> 0..MaxRequests]
  BY <1>2
<1>3. CASE UNCHANGED late
  BY <1>3
<1>4. ASSUME NEW s \in Sockets, HandleLate(s) PROVE late' \in [Sockets -> 0..MaxRequests]
  BY <1>4 DEF HandleLate
<1>5. ASSUME NEW s \in Sockets, Close(s) \/ Crash(s) PROVE late' \in [Sockets -> 0..MaxRequests]
  BY <1>1, <1>2, <1>5 DEF Close, Crash, Stop
<1>6. CASE Disconnect
  BY <1>1, <1>2, <1>6 DEF Disconnect
<1>7. CASE \/ PeerSends \/ Handle \/ Forwarder \/ Expire \/ ExpireLate \/ UNCHANGED vars
           \/ \E m \in Message : LookUp(m) \/ HandOver(m)
           \/ \E s \in Sockets : Connect(s) \/ Count(s) \/ DeleteSet(s)
  BY <1>3, <1>7 DEF PeerSends, LookUp, HandOver, Handle, HandleHello, HandleHeartbeat,
                    HandleSend, HandleSync, HandleResume, Reject, Forwarder, Read, ReadTimesOut,
                    Forward, ForwardOther, ForwarderDies, Expire, ExpireLate, Connect, Count,
                    DeleteSet, sockets, vars
<1>8. CASE \/ Welcomed \/ Resumed \/ MessageNew \/ OtherMessage \/ MessageAccepted
           \/ SyncResponse \/ SendMessage
  BY <1>3, <1>8 DEF Welcomed, Resumed, MessageNew, OtherMessage, MessageAccepted, SyncResponse,
                    SendMessage, sockets
<1> QED
  BY <1>4, <1>5, <1>6, <1>7, <1>8 DEF Next, Client

LEMMA TypesInit == Init => TypesInv
<1> SUFFICES ASSUME Init PROVE TypesInv
  OBVIOUS
<1>1. SessionInv /\ ClientInv
  BY SessionInvInit, ClientInvInit
<1>2. Untaken = {}
  <2>1. DOMAIN requests = {}
    BY DEF Init
  <2> QED
    BY <2>1 DEF Untaken
<1>3. RestTypeOK
  BY <1>2, FS_EmptySet DEF RestTypeOK, Init, PresenceInit, PresenceTypeOK
<1> QED
  BY <1>1, <1>3 DEF TypesInv

LEMMA TypesStep == TypesInv /\ [Next]_vars => TypesInv'
<1> SUFFICES ASSUME TypesInv, [Next]_vars PROVE TypesInv'
  OBVIOUS
<1>1. SessionInv' /\ ClientInv'
  BY SessionInvStep, ClientInvStep DEF TypesInv
<1>2. RestTypeOK'
  BY PresenceStep, FaultsStep, HistoryStep, UntakenStep, LateStep
     DEF TypesInv, SessionInv, ClientInv, RestTypeOK
<1> QED
  BY <1>1, <1>2 DEF TypesInv

(* What the gateway, the keys of presence, the stream and the client hold, *)
(* and what is on the wire between them, is of the types that the module   *)
(* declares, and stays within the bounds.                                  *)
THEOREM TypeCorrect == Spec => []TypeOK
<1>1. TypesInv => TypeOK
  <2> SUFFICES ASSUME TypesInv PROVE TypeOK
    OBVIOUS
  <2>1. ConversationInv /\ WireInv /\ SessionTypeOK /\ RestTypeOK
    BY DEF TypesInv, SessionInv, ClientInv
  <2>2. Len(log) \in Nat /\ Len(log) <= MaxMessages /\ DOMAIN log \subseteq Message
    BY <2>1, LogTyped DEF ConversationInv
  <2>3. KnownEvent \subseteq Event
    BY <2>2 DEF KnownEvent, Event
  <2>4. requests \in Seq(Request) /\ events \in Seq(Event)
    BY <2>1, <2>3, SeqMonotonic DEF WireInv
  <2>5. Len(stream) <= Len(log)
    BY <2>1, StreamWithinLog
  <2> QED
    BY <2>1, <2>4, <2>5 DEF TypeOK, ConversationInv, WireInv, SessionTypeOK, RestTypeOK
<1> QED
  BY <1>1, TypesInit, TypesStep, PTL DEF Spec
=============================================================================
