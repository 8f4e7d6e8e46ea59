--------------------------- MODULE RealtimeSession ---------------------------
(***************************************************************************)
(* One user's realtime sessions: the WebSocket gateway                     *)
(* (app/realtime/ws_gateway.py), the presence keys it keeps (module        *)
(* Presence), and the web client (frontend/lib/ws-client.ts and            *)
(* features/realtime/use-realtime-messaging.ts) on one conversation with   *)
(* one other member.                                                       *)
(*                                                                         *)
(* Every connection has a task that answers the client's requests one by   *)
(* one and a forwarder that copies the user's realtime stream to it,       *)
(* starting at "$": the end of the stream as Redis sees it when it gets    *)
(* the XREAD.  Nothing else brings a message to the client but the sync it *)
(* asks for when it is welcomed, after the highest server_seq it has seen: *)
(* in any conversation, for the stream carries the messages of all that    *)
(* the user is in, each numbered for itself, and the client does not look  *)
(* at the conversation of a message.                                       *)
(*                                                                         *)
(* The log of the conversation is gap-free, MessageStore's GapFree; a      *)
(* delivery worker looks the user up and then hands a message to the       *)
(* stream or to the notification queue, DeliveryWorker's Hand.  What the   *)
(* client ignores (pong, ack, typing) is not sent, and acknowledgements    *)
(* and typing, which change nothing here, are not requested; errors are    *)
(* not sent either: after one the client lets its user send nothing until  *)
(* it reconnects, and this one may send whenever it is connected.  Of a    *)
(* connection that the client has left only what it still changes is kept: *)
(* its presence and the messages it sent.  skipped collects the messages   *)
(* for which a way of losing them has happened; it is not part of the      *)
(* code.                                                                   *)
(***************************************************************************)
EXTENDS Presence, Sequences

CONSTANTS MaxMessages,  \* bound on the messages of the conversation
          SyncLimit,    \* messages the client asks for at once
          ReplayLimit,  \* messages a session.resume replays
          MaxRequests,  \* bound on the requests and events under way as the user sends
          OtherSeqs,    \* server_seqs that messages of other conversations have
          MaxOthers,    \* bound on the events under way as one of them comes
          MaxFaults     \* bound on faults

ASSUME RealtimeAssumption ==
    /\ MaxMessages \in Nat /\ MaxOthers \in Nat /\ MaxFaults \in Nat
    /\ SyncLimit \in Nat \ {0} /\ ReplayLimit \in Nat \ {0} /\ MaxRequests \in Nat \ {0}
    /\ Sockets \subseteq Nat \ {0} /\ OtherSeqs \subseteq 1..MaxMessages

VARIABLES
    log,        \* who wrote the message with server_seq 1, 2, ...
    route,      \* where a message of the other member is on its way
    stream,     \* what the user's realtime stream holds of it
    conn,       \* what the gateway does with a socket
    late,       \* messages sent on it that the client has not waited for
    current,    \* the client's socket, or 0, and on this connection:
    hello,      \*   session_hello_received
    lastId,     \*   last_stream_id of the forwarder
    waitsAt,    \*   where its XREAD waits
    requests,   \*   what the client has sent
    events,     \*   what it has yet to receive
    cursor,     \* lastServerSeq
    shown,      \* the messages of the other member it shows
    skipped,    \* messages that met a way of being lost
    overlaps,   \* registrations during the end of an unregister_session
    faults

server  == <<log, route, stream>>
sockets == <<conn, late>>
reader  == <<lastId, waitsAt>>
wire    == <<requests, events>>
client  == <<current, cursor, shown>>
ghost   == <<skipped, overlaps, faults>>
vars    == <<presence, server, sockets, hello, reader, wire, client, ghost>>

Message == 1..MaxMessages

Dollar == MaxMessages + 3
NotReading == MaxMessages + 1
Dead == MaxMessages + 2

Request == {<<"hello">>, <<"send">>} \cup ({"sync", "resume"} \X (0..MaxMessages))

(* sync: the messages after the first up to the second number; other: the  *)
(* message with this server_seq of another conversation.                   *)
Event == {<<"welcome">>, <<"requires_sync">>}
         \cup ({"new", "accepted", "other"} \X Message)
         \cup ({"sync"} \X (0..MaxMessages) \X (0..MaxMessages))

TypeOK ==
    /\ PresenceTypeOK
    /\ log \in Seq({"mine", "theirs"}) /\ Len(log) <= MaxMessages
    /\ route \in [Message -> {"none", "queued", "stream", "notify", "handed"}]
    /\ stream \in Seq(DOMAIN log) /\ Len(stream) <= Len(log)
    /\ conn \in [Sockets -> {"unused", "open", "counting", "emptied", "closed"}]
    /\ late \in [Sockets -> 0..MaxRequests]
    /\ current \in Sockets \cup {0} /\ hello \in BOOLEAN
    /\ lastId \in 0..Len(stream) \cup {Dollar}
    /\ waitsAt \in 0..Len(stream) \cup {NotReading, Dead}
    /\ requests \in Seq(Request) /\ events \in Seq(Event)
    /\ cursor \in 0..MaxMessages
    /\ shown \subseteq DOMAIN log /\ skipped \subseteq DOMAIN log
    /\ overlaps \in Nat /\ faults \in 0..MaxFaults

Init ==
    /\ PresenceInit
    /\ log = <<>> /\ route = [m \in Message |-> "none"] /\ stream = <<>>
    /\ conn = [s \in Sockets |-> "unused"] /\ late = [s \in Sockets |-> 0]
    /\ current = 0 /\ hello = FALSE /\ lastId = Dollar /\ waitsAt = NotReading
    /\ requests = <<>> /\ events = <<>>
    /\ cursor = 0 /\ shown = {}
    /\ skipped = {} /\ overlaps = 0 /\ faults = 0

Greater(a, b) == IF a > b THEN a ELSE b
Lesser(a, b) == IF a < b THEN a ELSE b

Theirs(S) == {m \in S \cap DOMAIN log : log[m] = "theirs"}

(* Messages of the other member the client does not show, among S.         *)
Missing(S) == Theirs(S) \ shown

Skip(S) == skipped' = skipped \cup Missing(S) /\ UNCHANGED <<overlaps, faults>>

Fault == faults < MaxFaults /\ faults' = faults + 1 /\ UNCHANGED overlaps

Goto(s, state) == conn' = [conn EXCEPT ![s] = state]

(* The client is connected to a gateway that is there.                     *)
Linked == current # 0 /\ conn[current] = "open"

(* send_json.                                                              *)
Reply(es) == events' = events \o es

-----------------------------------------------------------------------------
(* The rest of the system: the other member writes, perhaps below what     *)
(* another conversation has made of the cursor of an absent client ...     *)
PeerSends ==
    /\ Len(log) < MaxMessages
    /\ log' = Append(log, "theirs")
    /\ route' = [route EXCEPT ![Len(log) + 1] = "queued"]
    /\ skipped' = skipped \cup (IF current = 0 THEN {Len(log) + 1} \cap 1..cursor ELSE {})
    /\ UNCHANGED <<presence, stream, sockets, hello, reader, wire, client, overlaps, faults>>

(* ... and a delivery worker asks whether the user is active, and hands    *)
(* the message over by what it was told.                                   *)
LookUp(m) ==
    /\ route[m] = "queued"
    /\ route' = [route EXCEPT ![m] = IF Active THEN "stream" ELSE "notify"]
    /\ IF Linked /\ ~Active THEN Skip({m}) ELSE UNCHANGED ghost
    /\ UNCHANGED <<presence, log, stream, sockets, hello, reader, wire, client>>

(* The forwarder has ended, or is between two XREADs from "$".             *)
Inattentive == waitsAt = Dead \/ (waitsAt = NotReading /\ lastId = Dollar)

HandOver(m) ==
    /\ route[m] = "stream"
    /\ route' = [route EXCEPT ![m] = "handed"]
    /\ stream' = Append(stream, m)
    /\ IF Linked /\ Inattentive THEN Skip({m}) ELSE UNCHANGED ghost
    /\ UNCHANGED <<presence, log, sockets, hello, reader, wire, client>>

-----------------------------------------------------------------------------
(* A connection: accepted and registered, also when Redis refuses to, and  *)
(* greeted by the client.                                                  *)
Connect(s) ==
    /\ current = 0 /\ conn[s] = "unused" /\ \A r \in Sockets : r < s => conn[r] # "unused"
    /\ Goto(s, "open")
    /\ current' = s /\ requests' = << <<"hello">> >>
    /\ \/ /\ RegisterSession(s)
          /\ overlaps' = IF \E r \in Sockets : conn[r] = "emptied" THEN overlaps + 1 ELSE overlaps
          /\ UNCHANGED faults
       \/ Fault /\ UNCHANGED presence
    /\ UNCHANGED <<server, late, hello, reader, events, cursor, shown, skipped>>

(* The forwarder: XREAD ...                                                *)
Read ==
    /\ Linked /\ waitsAt = NotReading
    /\ waitsAt' = IF lastId = Dollar THEN Len(stream) ELSE lastId
    /\ UNCHANGED <<presence, server, sockets, hello, lastId, wire, client, ghost>>

(* ... which returns without an entry after two seconds (from an id it     *)
(* then waits at the same place again) ...                                 *)
ReadTimesOut ==
    /\ Linked /\ waitsAt = Len(stream) /\ lastId = Dollar
    /\ waitsAt' = NotReading
    /\ UNCHANGED <<presence, server, sockets, hello, lastId, wire, client, ghost>>

(* ... or with some, which are sent on one by one.                         *)
Forward ==
    /\ Linked /\ waitsAt < Len(stream)
    /\ Reply(<< <<"new", stream[waitsAt + 1]>> >>)
    /\ waitsAt' = waitsAt + 1 /\ lastId' = waitsAt + 1
    /\ UNCHANGED <<presence, server, sockets, hello, requests, client, ghost>>

(* Between these come entries of other conversations, and others: a        *)
(* message past the cursor is sent on; what cannot move it is not kept.    *)
ForwardOther ==
    /\ Linked /\ waitsAt <= Len(stream)
    /\ \/ /\ Len(events) < MaxOthers
          /\ \E seq \in OtherSeqs : seq > cursor /\ Reply(<< <<"other", seq>> >>)
       \/ UNCHANGED events
    /\ lastId' = waitsAt
    /\ UNCHANGED <<presence, server, sockets, hello, waitsAt, requests, client, ghost>>

(* An error ends the forwarder, and only the forwarder.                    *)
ForwarderDies ==
    /\ Linked /\ waitsAt # Dead
    /\ Fault
    /\ waitsAt' = Dead /\ lastId' = Dollar
    /\ skipped' = skipped \cup Missing({m \in Message : route[m] = "handed"})
    /\ UNCHANGED <<presence, server, sockets, hello, wire, client>>

-----------------------------------------------------------------------------
(* The receive loop takes the first request and answers with es.           *)
Asked(type) == Linked /\ requests # <<>> /\ Head(requests)[1] = type

Answer(es) == requests' = Tail(requests) /\ Reply(es)

HandleHello ==
    /\ Asked("hello")
    /\ hello' = TRUE
    /\ Answer(<< <<"welcome">> >>)
    /\ UNCHANGED <<presence, server, sockets, reader, client, ghost>>

HandleHeartbeat ==
    /\ Linked /\ hello
    /\ Heartbeat(current)
    /\ UNCHANGED <<server, sockets, hello, reader, wire, client, ghost>>

(* message.send: MessageStore's send_message commits before it is answered *)
(* (AcceptedIsDurable) ...                                                 *)
HandleSend ==
    /\ Asked("send") /\ Len(log) < MaxMessages
    /\ log' = Append(log, "mine")
    /\ Answer(<< <<"accepted", Len(log) + 1>> >>)
    /\ UNCHANGED <<presence, route, stream, sockets, hello, reader, client, ghost>>

(* ... also if the answer finds nobody.                                    *)
HandleLate(s) ==
    /\ conn[s] = "open" /\ late[s] > 0 /\ Len(log) < MaxMessages
    /\ log' = Append(log, "mine")
    /\ late' = [late EXCEPT ![s] = @ - 1]
    /\ UNCHANGED <<presence, route, stream, conn, hello, reader, wire, client, ghost>>

(* build_sync_response, for what follows a server_seq.                     *)
WindowEnd(after, limit) == Greater(after, Lesser(Len(log), after + limit))

(* Deliberately wrong: the page begins one message late.                   *)
HandleSyncLate ==
    /\ Asked("sync")
    /\ LET after == Head(requests)[2]
           end == WindowEnd(after, SyncLimit)
       IN  /\ Answer(<< <<"sync", Lesser(after + 1, end), end>> >>)
           /\ Skip((end + 1)..Len(log))
    /\ UNCHANGED <<presence, server, sockets, hello, reader, client>>

(* sync.request.  The client does not look at has_more.                    *)
HandleSync ==
    /\ Asked("sync")
    /\ LET after == Head(requests)[2]
           end == WindowEnd(after, SyncLimit)
       IN  Answer(<< <<"sync", after, end>> >>) /\ Skip((end + 1)..Len(log))
    /\ UNCHANGED <<presence, server, sockets, hello, reader, client>>

Replay(after, end) == [i \in 1..(end - after) |-> <<"new", after + i>>]

(* session.resume: the messages themselves, and whether to ask for more.   *)
HandleResume ==
    /\ Asked("resume")
    /\ LET after == Head(requests)[2]
           end == WindowEnd(after, ReplayLimit)
       IN  Answer(Replay(after, end)
                  \o IF end < Len(log) THEN << <<"requires_sync">> >> ELSE <<>>)
    /\ UNCHANGED <<presence, server, sockets, hello, reader, client, ghost>>

(* A request that is refused: too many in ten seconds, too long,           *)
(* malformed, or with an error of the store that is caught.                *)
Reject ==
    /\ Linked /\ requests # <<>> /\ hello
    /\ Answer(<<>>)
    /\ IF Head(requests)[1] # "send" THEN Skip(Message) ELSE UNCHANGED ghost
    /\ UNCHANGED <<presence, server, sockets, hello, reader, client>>

(* The connection ends for the gateway, which noticed that the client has  *)
(* gone, met an error it does not catch, or shuts down.  It cancels the    *)
(* forwarder and unregisters the socket ...                                *)
Stop(s) ==
    /\ late' = [late EXCEPT ![s] = 0]
    /\ IF s = current THEN requests' = <<>> /\ waitsAt' = Dead /\ lastId' = Dollar
                      ELSE UNCHANGED <<requests, reader>>

Close(s) ==
    /\ conn[s] = "open"
    /\ \/ Goto(s, "counting") /\ RemoveSocket(s) /\ UNCHANGED ghost
       \/ Goto(s, "closed") /\ UNCHANGED presence /\ Fault /\ UNCHANGED skipped
    /\ Stop(s)
    /\ UNCHANGED <<server, hello, events, client>>

(* Deliberately wrong: the set is deleted whatever the count.              *)
CountNothing(s) ==
    /\ conn[s] = "counting"
    /\ Goto(s, "emptied")
    /\ UNCHANGED <<presence, server, late, hello, reader, wire, client, ghost>>

(* ... counts what remains ...                                             *)
Count(s) ==
    /\ conn[s] = "counting"
    /\ Goto(s, IF NoneRemains THEN "emptied" ELSE "closed")
    /\ UNCHANGED <<presence, server, late, hello, reader, wire, client, ghost>>

(* ... and deletes the set.                                                *)
DeleteSet(s) ==
    /\ conn[s] = "emptied"
    /\ GoOffline
    /\ Goto(s, "closed")
    /\ UNCHANGED <<server, late, hello, reader, wire, client, ghost>>

(* Redis refuses, or the process of the gateway dies.                      *)
Crash(s) ==
    /\ conn[s] \in {"open", "counting", "emptied"}
    /\ Fault
    /\ Goto(s, "closed") /\ Stop(s)
    /\ UNCHANGED <<presence, server, hello, events, client, skipped>>

(* Keys expire.  The heartbeats of a connected client come in time, 25 s   *)
(* for 75 s, unless something holds them up.                               *)
Beating == {s \in Sockets : s = current /\ conn[s] = "open"}

(* Deliberately wrong: the set is given no time to live.                   *)
ExpireNoSet ==
    /\ SocketExpires(Beating) \/ StatusExpires(Beating)
    /\ UNCHANGED <<server, sockets, hello, reader, wire, client, ghost>>

Expire ==
    /\ SocketExpires(Beating) \/ SetExpires(Beating) \/ StatusExpires(Beating)
    /\ UNCHANGED <<server, sockets, hello, reader, wire, client, ghost>>

ExpireLate ==
    /\ Beating \cap socketKeys # {} /\ Fault
    /\ SocketExpires({})
    /\ UNCHANGED <<server, sockets, hello, reader, wire, client, skipped>>

-----------------------------------------------------------------------------
(* The client takes the next event.                                        *)
Got(type) == events # <<>> /\ Head(events)[1] = type

Arg(n) == Head(events)[n + 1]

Take == events' = Tail(events)

Ask(r) == requests' = IF Linked THEN Append(requests, r) ELSE requests

(* The welcome: the client catches up from its cursor; another client may  *)
(* ask for a resumption instead.                                           *)
Welcomed ==
    /\ Got("welcome")
    /\ Take
    /\ Ask(<<"sync", cursor>>) \/ Ask(<<"resume", cursor>>)
    /\ UNCHANGED <<presence, server, sockets, hello, reader, client, ghost>>

(* session.resumed with requires_sync; without, the client ignores it.     *)
(* What the replay left out it asks for from its cursor, which a newer     *)
(* message may have moved past that.                                       *)
Resumed ==
    /\ Got("requires_sync")
    /\ Take /\ Ask(<<"sync", cursor>>)
    /\ Skip(1..cursor)
    /\ UNCHANGED <<presence, server, sockets, hello, reader, client>>

Show(S, seq) ==
    /\ shown' = shown \cup Theirs(S)
    /\ cursor' = Greater(cursor, seq)
    /\ UNCHANGED current

WelcomeAwaited == ~hello \/ \E n \in DOMAIN events : events[n] = <<"welcome">>

(* A message: one that comes before the welcome moves the cursor from      *)
(* which the client will ask.                                              *)
MessageNew ==
    /\ Got("new")
    /\ Take /\ Show({Arg(1)}, Arg(1))
    /\ skipped' = (skipped \cup IF WelcomeAwaited THEN Missing(1..Arg(1)) ELSE {}) \ {Arg(1)}
    /\ UNCHANGED <<overlaps, faults>>
    /\ UNCHANGED <<presence, server, sockets, hello, reader, requests>>

(* A message of another conversation, which the client takes for one of    *)
(* this conversation.                                                      *)
OtherMessage ==
    /\ Got("other")
    /\ Take /\ Show({}, Arg(1))
    /\ IF WelcomeAwaited THEN Skip(1..Arg(1)) ELSE UNCHANGED ghost
    /\ UNCHANGED <<presence, server, sockets, hello, reader, requests>>

(* Its own message, which it shows already.                                *)
MessageAccepted ==
    /\ Got("accepted")
    /\ Take /\ Show({}, Arg(1))
    /\ UNCHANGED <<presence, server, sockets, hello, reader, requests, ghost>>

SyncResponse ==
    /\ Got("sync")
    /\ Take /\ Show((Arg(1) + 1)..Arg(2), Arg(2))
    /\ skipped' = skipped \ ((Arg(1) + 1)..Arg(2))
    /\ UNCHANGED <<presence, server, sockets, hello, reader, requests, overlaps, faults>>

(* sendMessage.                                                            *)
SendMessage ==
    /\ Linked /\ Len(requests) + Len(events) < MaxRequests
    /\ Ask(<<"send">>)
    /\ UNCHANGED <<presence, server, sockets, hello, reader, events, client, ghost>>

(* What it has sent that the gateway has not taken up.                     *)
Untaken == {n \in DOMAIN requests : requests[n] = <<"send">>}

(* The socket closes for the client.  What was on its way to it is lost,   *)
(* and what its cursor has passed it will not ask for.                     *)
Disconnect ==
    /\ current # 0
    /\ current' = 0
    /\ late' = [late EXCEPT ![current] = Cardinality(Untaken)]
    /\ hello' = FALSE /\ lastId' = Dollar /\ waitsAt' = NotReading
    /\ requests' = <<>> /\ events' = <<>>
    /\ Skip(1..cursor)
    /\ UNCHANGED <<presence, server, conn, cursor, shown>>

-----------------------------------------------------------------------------
Handle ==
    \/ HandleHello \/ HandleHeartbeat \/ HandleSend
    \/ HandleSync \/ HandleResume \/ Reject

Forwarder == Read \/ ReadTimesOut \/ Forward \/ ForwardOther \/ ForwarderDies

Client ==
    \/ Welcomed \/ Resumed \/ MessageNew \/ OtherMessage \/ MessageAccepted
    \/ SyncResponse \/ SendMessage \/ Disconnect

Next ==
    \/ PeerSends
    \/ \E m \in Message : LookUp(m) \/ HandOver(m)
    \/ \E s \in Sockets : \/ Connect(s) \/ HandleLate(s)
                          \/ Close(s) \/ Count(s) \/ DeleteSet(s) \/ Crash(s)
    \/ Handle \/ Forwarder \/ Client
    \/ Expire \/ ExpireLate

Spec == Init /\ [][Next]_vars

(* Redis expires keys, and a gateway ends what it has begun to close.      *)
Fairness ==
    /\ WF_presence(Expire)
    /\ WF_conn(\E s \in Sockets : Count(s) \/ DeleteSet(s))

FairSpec == Spec /\ Fairness

-----------------------------------------------------------------------------
(* What brings the client a message, or makes it ask for it.               *)
Carries(e, m) ==
    \/ e \in {<<"new", m>>, <<"requires_sync">>}
    \/ e[1] = "sync" /\ e[2] < m /\ m <= e[3]

AsksFor(r, m) == r[1] \in {"sync", "resume"} /\ r[2] < m

Ahead(m) ==
    \E n \in DOMAIN stream :
        /\ stream[n] = m
        /\ n > IF waitsAt = NotReading /\ lastId # Dollar THEN lastId ELSE waitsAt

OnItsWay(m) ==
    /\ Linked
    /\ \/ route[m] \in {"queued", "stream"}
       \/ Ahead(m)
       \/ \E n \in DOMAIN requests : AsksFor(requests[n], m)
       \/ \E n \in DOMAIN events : Carries(events[n], m)

(* The client never asks again for what its cursor has passed.  A message  *)
(* below the cursor that it does not show is on its way, or one of these   *)
(* happened to it: the connection ended after the cursor had passed it;    *)
(* the forwarder was between two reads from "$", or dead, when it reached  *)
(* the stream; a sync returned a full page, or was refused; the user was   *)
(* taken for inactive; a later message, or one of another conversation,    *)
(* came before the welcome, or before the rest of a replay that was cut    *)
(* short; another conversation had moved the cursor past it before it was  *)
(* written, with the client away.                                          *)
HolesExplained ==
    (current = 0 \/ Linked) => \A m \in Missing(1..cursor) \ skipped : OnItsWay(m)

(* A user with an open connection is online, unless a presence command or  *)
(* a heartbeat failed, or the connection was registered while another one  *)
(* was about to delete the set.                                            *)
OnlineWhileConnected == Linked /\ ~IsOnline => faults + overlaps > 0

(* However its connections ended, a user who is gone becomes inactive.     *)
EventuallyInactive ==
    <>[](current = 0 /\ \A s \in Sockets : conn[s] \in {"unused", "closed"}) => <>[]~Active

=============================================================================
