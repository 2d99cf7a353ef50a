---------------------------------- MODULE Hub ----------------------------------
(***************************************************************************)
(* Notifications: their table, and how they are pushed over WebSockets:     *)
(*   internal/service/notification_service.go                               *)
(*   internal/repository/postgres/notification.go                           *)
(*   internal/pkg/websocket/hub.go, internal/pkg/websocket/client.go        *)
(*   internal/handler/websocket_handler.go                                  *)
(*                                                                          *)
(* The goroutines of one process: Hub.Run; two pumps per connection; and    *)
(* the senders, which are requests or the goroutine of a large broadcast.   *)
(* A section under h.mu.Lock is a step, which waits until nobody holds the  *)
(* lock for reading: that is what a sender does at "range".                 *)
(***************************************************************************)
EXTENDS Naturals

CONSTANTS
    Users,
    Clients,        \* connections
    UserOf,         \* whose connection it is
    Senders,
    Notes,          \* what is sent: one notification per addressee
    Cap             \* sendBufferSize

ASSUME HubAssumption == UserOf \in [Clients -> Users] /\ Cap \in Nat \ {0}

VARIABLES
    stored,     \* the notifications table: the notes it has
    clients,    \* Hub.clients: a set of connections for each user in its domain
    hub,        \* where Hub.Run is
    send,       \* how many messages wait in Client.send, a channel
    closed,     \* ... and whether it is closed
    conn,       \* the connection under it is open
    reader,     \* where ReadPump is, with the handler that registers before it
    writer,     \* where WritePump is
    pushed,     \* history: the notes that were put in Client.send
    repeated,   \* history: the connections that were pushed a note again
    sender,     \* where each sender is
    broken      \* "no", or what a panic left: the lock held, or no process

links == <<conn, reader, writer>>
histories == <<pushed, repeated>>
hubVars == <<stored, clients, hub, send, closed, links, histories, sender, broken>>

(***************************************************************************)
(* States                                                                   *)
(***************************************************************************)
NoClient == "nil"
Select == [pc |-> "select"]
NotSending == [pc |-> "idle"]
(* dropped: the map the sender looked up is no longer the one of the user.  *)
Sending == [pc: {"lookup", "len", "rlock", "range", "lock"}, note: Notes, to: SUBSET Users,
            user: Users, must: SUBSET Clients, seen: SUBSET Clients, full: Clients \cup {NoClient},
            dropped: BOOLEAN, alone: BOOLEAN]
Choosing == [pc: {"next"}, note: Notes, to: SUBSET Users, alone: BOOLEAN]

In(u) == IF u \in DOMAIN clients THEN clients[u] ELSE {}
SetIn(u, cs) == [v \in DOMAIN clients \cup {u} |-> IF v = u THEN cs ELSE clients[v]]
Without(u) == [v \in DOMAIN clients \ {u} |-> clients[v]]
Reading == {s \in Senders : sender[s].pc = "range"}
Running == broken # "crashed"
Unlocked == broken = "no"
SenderBecomes(s, r) == sender' = [sender EXCEPT ![s] = r]

HubInit ==
    /\ stored = {}
    /\ clients = <<>>
    /\ hub = Select
    /\ send = [c \in Clients |-> 0]
    /\ closed = [c \in Clients |-> FALSE]
    /\ conn = [c \in Clients |-> FALSE]
    /\ reader = [c \in Clients |-> "none"]
    /\ writer = [c \in Clients |-> "none"]
    /\ pushed = [c \in Clients |-> {}]
    /\ repeated = {}
    /\ sender = [s \in Senders |-> NotSending]
    /\ broken = "no"

(***************************************************************************)
(* The table                                                                *)
(***************************************************************************)
(* CreateBatch commits, and then the notifications are pushed one by one.   *)
(* A batch that fails leaves nothing and pushes nothing.  alone: in the     *)
(* goroutine of processBroadcastInBatches, where nothing recovers a panic.  *)
SendNotificationToUsers(s, n, us, alone) ==
    /\ Running /\ sender[s] = NotSending
    /\ n \notin stored
    /\ stored' = stored \cup {n}
    /\ SenderBecomes(s, [pc |-> "next", note |-> n, to |-> us, alone |-> alone])
    /\ UNCHANGED <<clients, hub, send, closed, links, histories, broken>>

(***************************************************************************)
(* Hub.Run                                                                  *)
(***************************************************************************)
(* Both channels are unbuffered: whoever registers or unregisters waits for *)
(* Run at its select, and goes on as soon as Run has the client.            *)
TakeRegister(c) ==
    /\ Running /\ hub = Select /\ reader[c] = "register"
    /\ hub' = [pc |-> "register", client |-> c]
    /\ reader' = [reader EXCEPT ![c] = "reads"]
    /\ writer' = [writer EXCEPT ![c] = "writes"]
    /\ UNCHANGED <<stored, clients, send, closed, conn, histories, sender, broken>>

TakeUnregister(c) ==
    /\ Running /\ hub = Select /\ reader[c] = "unregister"
    /\ hub' = [pc |-> "unregister", client |-> c]
    /\ reader' = [reader EXCEPT ![c] = "off"]
    /\ conn' = [conn EXCEPT ![c] = FALSE]
    /\ UNCHANGED <<stored, clients, send, closed, writer, histories, sender, broken>>

RegisterClient ==
    /\ hub.pc = "register" /\ Unlocked /\ Reading = {}
    /\ clients' = SetIn(UserOf[hub.client], In(UserOf[hub.client]) \cup {hub.client})
    /\ hub' = Select
    /\ UNCHANGED <<stored, send, closed, links, histories, sender, broken>>

(* The map of a user whose last connection goes is dropped; a sender may    *)
(* still have it.                                                           *)
UnregisterClient ==
    /\ hub.pc = "unregister" /\ Unlocked /\ Reading = {}
    /\ LET c == hub.client
           u == UserOf[c]
       IN IF c \in In(u)
          THEN /\ clients' = IF In(u) = {c} THEN Without(u) ELSE SetIn(u, In(u) \ {c})
               /\ closed' = [closed EXCEPT ![c] = TRUE]
               /\ sender' = [s \in Senders |->
                    IF sender[s].pc \in {"len", "rlock", "lock"} /\ sender[s].user = u
                       /\ In(u) = {c}
                    THEN [sender[s] EXCEPT !.dropped = TRUE] ELSE sender[s]]
          ELSE UNCHANGED <<clients, closed, sender>>
    /\ hub' = Select
    /\ UNCHANGED <<stored, send, links, histories, broken>>

(***************************************************************************)
(* Hub.SendToUser                                                           *)
(***************************************************************************)
NextUser(s, u) ==
    /\ Running /\ sender[s].pc = "next" /\ u \in sender[s].to
    /\ SenderBecomes(s, [pc |-> "lookup", note |-> sender[s].note, to |-> sender[s].to \ {u},
                         user |-> u, must |-> {}, seen |-> {}, full |-> NoClient,
                         dropped |-> FALSE, alone |-> sender[s].alone])
    /\ UNCHANGED <<stored, clients, hub, send, closed, links, histories, broken>>

AllSent(s) ==
    /\ Running /\ sender[s].pc = "next" /\ sender[s].to = {}
    /\ SenderBecomes(s, NotSending)
    /\ UNCHANGED <<stored, clients, hub, send, closed, links, histories, broken>>

Return(s) == SenderBecomes(s, [pc |-> "next", note |-> sender[s].note, to |-> sender[s].to,
                        alone |-> sender[s].alone])

Lookup(s) ==
    /\ sender[s].pc = "lookup" /\ Unlocked
    /\ IF sender[s].user \in DOMAIN clients THEN SenderBecomes(s, [sender[s] EXCEPT !.pc = "len"])
       ELSE Return(s)
    /\ UNCHANGED <<stored, clients, hub, send, closed, links, histories, broken>>

Content(s) == IF sender[s].dropped THEN {} ELSE In(sender[s].user)

(* len(clients) is read without the lock. *)
CheckLen(s) ==
    /\ Running /\ sender[s].pc = "len"
    /\ IF Content(s) = {} THEN Return(s)
       ELSE SenderBecomes(s, [sender[s] EXCEPT !.pc = "rlock"])
    /\ UNCHANGED <<stored, clients, hub, send, closed, links, histories, broken>>

(* The first time the range begins; later it goes on.  It visits what it    *)
(* began with and is still there; what was added it may visit or not.       *)
MutantRLock(s) == \* the range starts again
    /\ sender[s].pc = "rlock" /\ Unlocked
    /\ SenderBecomes(s, [sender[s] EXCEPT !.pc = "range", !.seen = {}, !.must = Content(s)])
    /\ UNCHANGED <<stored, clients, hub, send, closed, links, histories, broken>>
RLock(s) ==
    /\ sender[s].pc = "rlock" /\ Unlocked
    /\ SenderBecomes(s, [sender[s] EXCEPT !.pc = "range",
                  !.must = IF sender[s].seen = {} THEN Content(s) ELSE @])
    /\ UNCHANGED <<stored, clients, hub, send, closed, links, histories, broken>>

Room(c) == ~closed[c] /\ send[c] < Cap
Put(c) == send' = [send EXCEPT ![c] = @ + 1]

Offer(s, c) ==
    /\ Running /\ sender[s].pc = "range" /\ c \in Content(s) \ sender[s].seen
    /\ IF Room(c)
       THEN /\ Put(c)
            /\ pushed' = [pushed EXCEPT ![c] = @ \cup {sender[s].note}]
            /\ repeated' = IF sender[s].note \in pushed[c] THEN repeated \cup {c} ELSE repeated
            /\ SenderBecomes(s, [sender[s] EXCEPT !.seen = @ \cup {c}])
       ELSE /\ SenderBecomes(s, [sender[s] EXCEPT !.pc = "lock", !.seen = @ \cup {c}, !.full = c])
            /\ UNCHANGED <<send, histories>>
    /\ UNCHANGED <<stored, clients, hub, closed, links, broken>>

EndRange(s) ==
    /\ Running /\ sender[s].pc = "range"
    /\ sender[s].must \cap Content(s) \subseteq sender[s].seen
    /\ Return(s)
    /\ UNCHANGED <<stored, clients, hub, send, closed, links, histories, broken>>

(* A channel that was full is closed.  Closing it again panics: a request   *)
(* recovers, but the lock stays held; a goroutine takes the process along.  *)
MutantCloseFull(s) == \* without delete(h.clients[userID], client)
    /\ sender[s].pc = "lock" /\ Unlocked /\ Reading = {}
    /\ closed' = [closed EXCEPT ![sender[s].full] = TRUE]
    /\ SenderBecomes(s, [sender[s] EXCEPT !.pc = "rlock", !.full = NoClient])
    /\ UNCHANGED <<stored, clients, hub, send, links, histories, broken>>
CloseFull(s) ==
    /\ sender[s].pc = "lock" /\ Unlocked /\ Reading = {}
    /\ LET c == sender[s].full
           u == sender[s].user
       IN IF closed[c]
          THEN /\ broken' = IF sender[s].alone THEN "crashed" ELSE "stuck"
               /\ SenderBecomes(s, NotSending)
               /\ UNCHANGED <<clients, closed>>
          ELSE /\ closed' = [closed EXCEPT ![c] = TRUE]
               /\ clients' = IF u \in DOMAIN clients THEN SetIn(u, In(u) \ {c}) ELSE clients
               /\ SenderBecomes(s, [sender[s] EXCEPT !.pc = "rlock", !.full = NoClient])
               /\ UNCHANGED broken
    /\ UNCHANGED <<stored, hub, send, links, histories>>

(***************************************************************************)
(* Connections                                                              *)
(***************************************************************************)
HandleConnection(c) ==
    /\ Running /\ reader[c] = "none"
    /\ conn' = [conn EXCEPT ![c] = TRUE]
    /\ reader' = [reader EXCEPT ![c] = "register"]
    /\ UNCHANGED <<stored, clients, hub, send, closed, writer, histories, sender, broken>>

(* The browser goes away, or is silent for pongWait. *)
Disconnect(c) ==
    /\ Running /\ conn[c]
    /\ conn' = [conn EXCEPT ![c] = FALSE]
    /\ UNCHANGED <<stored, clients, hub, send, closed, reader, writer, histories, sender, broken>>

ReadError(c) ==
    /\ Running /\ reader[c] = "reads" /\ ~conn[c]
    /\ reader' = [reader EXCEPT ![c] = "unregister"]
    /\ UNCHANGED <<stored, clients, hub, send, closed, conn, writer, histories, sender, broken>>

(* handleMessage of a PING: a send on a closed channel ends the process.    *)
HandlePing(c) ==
    /\ Running /\ reader[c] = "reads" /\ conn[c]
    /\ IF Room(c) THEN Put(c) ELSE UNCHANGED send
    /\ broken' = IF closed[c] THEN "crashed" ELSE broken
    /\ UNCHANGED <<stored, clients, hub, closed, links, histories, sender>>

(* WritePump writes all that waits. *)
WriteMessages(c) ==
    /\ Running /\ writer[c] = "writes" /\ send[c] > 0 /\ conn[c]
    /\ send' = [send EXCEPT ![c] = 0]
    /\ UNCHANGED <<stored, clients, hub, closed, conn, reader, writer, histories, sender, broken>>

(* It ends when a write or a ping fails, and when the channel is closed.    *)
MutantEndWriter(c) == \* without conn.Close
    /\ Running /\ writer[c] = "writes"
    /\ ~conn[c] \/ (send[c] = 0 /\ closed[c])
    /\ writer' = [writer EXCEPT ![c] = "off"]
    /\ UNCHANGED <<stored, clients, hub, send, closed, conn, reader, histories, sender, broken>>
EndWriter(c) ==
    /\ Running /\ writer[c] = "writes"
    /\ ~conn[c] \/ (send[c] = 0 /\ closed[c])
    /\ writer' = [writer EXCEPT ![c] = "off"]
    /\ conn' = [conn EXCEPT ![c] = FALSE]
    /\ UNCHANGED <<stored, clients, hub, send, closed, reader, histories, sender, broken>>

(***************************************************************************)
(* Specification                                                            *)
(***************************************************************************)
RunHub ==
    \/ \E c \in Clients : TakeRegister(c) \/ TakeUnregister(c)
    \/ RegisterClient \/ UnregisterClient

SendToUser(s) ==
    \/ \E u \in Users : NextUser(s, u)
    \/ AllSent(s) \/ Lookup(s) \/ CheckLen(s) \/ RLock(s) \/ EndRange(s) \/ CloseFull(s)
    \/ \E c \in Clients : Offer(s, c)

Pumps(c) == ReadError(c) \/ WriteMessages(c) \/ EndWriter(c)

HubNext ==
    \/ \E s \in Senders, n \in Notes, us \in (SUBSET Users) \ {{}}, alone \in BOOLEAN :
         SendNotificationToUsers(s, n, us, alone)
    \/ RunHub
    \/ \E s \in Senders : SendToUser(s)
    \/ \E c \in Clients : HandleConnection(c) \/ Disconnect(c) \/ HandlePing(c) \/ Pumps(c)

(* Goroutines go on.  The lock lets a writer in, however many readers come, *)
(* and a select takes each of two channels some day: strong fairness.       *)
Fairness ==
    /\ WF_hubVars(RunHub)
    /\ SF_hubVars(RegisterClient) /\ SF_hubVars(UnregisterClient)
    /\ \A c \in Clients : SF_hubVars(TakeUnregister(c))
    /\ \A s \in Senders : WF_hubVars(SendToUser(s)) /\ SF_hubVars(CloseFull(s))
    /\ \A c \in Clients :
         WF_hubVars(ReadError(c)) /\ WF_hubVars(WriteMessages(c)) /\ WF_hubVars(EndWriter(c))

HubSafety == HubInit /\ [][HubNext]_hubVars
HubSpec == HubSafety /\ Fairness

(***************************************************************************)
(* Properties                                                               *)
(***************************************************************************)
HubTypeOK ==
    /\ stored \subseteq Notes
    /\ DOMAIN clients \subseteq Users /\ clients \in [DOMAIN clients -> SUBSET Clients]
    /\ hub \in {Select} \cup [pc: {"register", "unregister"}, client: Clients]
    /\ send \in [Clients -> 0..Cap]
    /\ closed \in [Clients -> BOOLEAN] /\ conn \in [Clients -> BOOLEAN]
    /\ reader \in [Clients -> {"none", "register", "reads", "unregister", "off"}]
    /\ writer \in [Clients -> {"none", "writes", "off"}]
    /\ pushed \in [Clients -> SUBSET Notes] /\ repeated \subseteq Clients
    /\ sender \in [Senders -> {NotSending} \cup Choosing \cup Sending]
    /\ broken \in {"no", "stuck", "crashed"}

(* Nobody sends on a closed channel of the map, nor closes one: whoever     *)
(* closes a client's channel takes it out of the map under the same lock.   *)
MapHoldsOpen == \A u \in Users : \A c \in In(u) : ~closed[c]

(* The browser gets a notification once and after it was stored, whatever   *)
(* happens to the map while SendToUser lets go of the lock.                 *)
PushedOnce == repeated = {} /\ \A c \in Clients : pushed[c] \subseteq stored

(* Whichever end comes first - the connection is lost, a pump returns, the  *)
(* channel of a slow client is closed - the connection leaves the map and   *)
(* both its pumps end, unless a panic came first.                           *)
Ending(c) == writer[c] = "off" \/ reader[c] \in {"unregister", "off"}
             \/ (reader[c] # "none" /\ ~conn[c]) \/ closed[c]
Forgotten(c) == c \notin In(UserOf[c]) /\ reader[c] = "off" /\ writer[c] = "off"
GoneIsForgotten == \A c \in Clients : Ending(c) ~> (broken # "no" \/ Forgotten(c))
================================================================================
