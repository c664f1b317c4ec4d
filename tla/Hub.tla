-------------------------------- MODULE Hub --------------------------------
(***************************************************************************)
(* pkg/hub/hub.go with the edge agent of pkg/monitor/agent.go as its peer: *)
(* WebSocket connections, the clients map, the two pumps of a connection,  *)
(* and DispatchAction, which sends a command and waits for its response.   *)
(*                                                                         *)
(* One action is one stretch of code that no other goroutine can split:    *)
(* a critical section of h.mu or h.pendingMu, a channel operation, or one  *)
(* read or write of a socket.  A Call is one invocation of DispatchAction, *)
(* a Conn one WebSocket connection; both are used once, so their numbers   *)
(* bound the invocations and reconnections a run explores.                 *)
(***************************************************************************)
EXTENDS Naturals, Sequences, FiniteSets

CONSTANTS
  Nodes,             \* node ids, one edge agent each
  Conns,             \* WebSocket connections
  Calls,             \* invocations of DispatchAction
  ActionIDs,         \* ActionRequest.ID
  TargetNode,        \* ActionRequest.TargetNode of each action id
  PairedNodes,       \* agents configured with a pairing token, which expires
  SecretConfigured,  \* h.secretToken # ""
  SendCap,           \* capacity of EdgeClient.SendChan
  InboxCap,          \* bound: agent-to-hub messages in flight per connection
  MaxInFlight,       \* concurrent DispatchAction calls (1 under Executor.mu)
  None

(* A command carries the call it was sent by and a response the call it    *)
(* answers; both are history fields, which the code does not have and no   *)
(* guard below reads.                                                      *)
Commands  == [call : Calls, act : ActionIDs]
Responses == [type : {"action_response"}, call : Calls, act : ActionIDs]
Signal(t) == [type |-> t]
Signals   == {Signal(t) : t \in {"enroll", "heartbeat", "telemetry"}}
Error(t)  == [type |-> t]
Errors    == {Error(t) : t \in {"not connected", "timeout", "panic"}}
Delivery == [to : Calls, resp : Responses]

ASSUME HubAssumption ==
  /\ TargetNode \in [ActionIDs -> Nodes]
  /\ PairedNodes \subseteq Nodes
  /\ SecretConfigured \in BOOLEAN
  /\ SendCap \in Nat \ {0}
  /\ InboxCap \in Nat \ {0} /\ MaxInFlight \in Nat \ {0}
  /\ None \notin Nodes \cup Conns \cup Calls \cup ActionIDs \cup Responses \cup Errors

VARIABLES
  link,       \* the TCP stream under a connection
  owner,      \* the node whose agent dialled it
  inbox,      \* agent-to-hub messages on the wire
  outbox,     \* hub-to-agent commands on the wire
  agentConn,  \* MonitorAgent.conn of a node's connectAndStream, while it runs
  jobs,       \* handleAction goroutines of the agents
  executed,   \* history: the responses of commands an agent carried out
  valid,      \* nodes whose configured token ValidateToken accepts
  reader,     \* readPump of a connection
  handing,    \* the response readPump is about to send to a call's channel
  nodeID,     \* EdgeClient.NodeID
  sendChan,   \* EdgeClient.SendChan
  writer,     \* writePump of a connection
  clients,    \* h.clients
  device,     \* devices.status of the node
  pending,    \* h.pendingReqs
  call,       \* program counter of a DispatchAction call
  req,        \* its ActionRequest.ID
  target,     \* its local variable client
  respChan,   \* its response channel
  result      \* what it returns

connVars  == <<link, owner, inbox, outbox>>
agentVars == <<agentConn, jobs, executed, valid>>
pumpVars  == <<reader, handing, nodeID, writer>>
hubVars   == <<clients, device>>
callVars  == <<pending, call, req, target, respChan, result>>
vars == <<connVars, agentVars, pumpVars, hubVars, callVars, sendChan>>

InFlight(k) == call[k] \in {"found", "pending", "waiting", "returning"}

TypeOK ==
  /\ link \in [Conns -> {"unused", "up", "broken"}]
  /\ owner \in [Conns -> Nodes \cup {None}]
  /\ inbox \in [Conns -> Seq(Signals \cup Responses)]
  /\ outbox \in [Conns -> Seq(Commands)]
  /\ agentConn \in [Nodes -> Conns \cup {None}]
  /\ jobs \subseteq [conn : Conns, cmd : Commands]
  /\ executed \subseteq Responses
  /\ valid \subseteq Nodes
  /\ reader \in [Conns -> {"idle", "reading", "enrolling", "handing", "done"}]
  /\ handing \in [Conns -> Delivery \cup {None}]
  /\ nodeID \in [Conns -> Nodes \cup {None}]
  /\ sendChan \in [Conns -> Seq(Commands)]
  /\ writer \in [Conns -> {"idle", "running", "stopped"}]
  /\ clients \in [Nodes -> Conns \cup {None}]
  /\ device \in [Nodes -> {"unknown", "online", "offline"}]
  /\ pending \in [ActionIDs -> Calls \cup {None}]
  /\ call \in [Calls -> {"idle", "found", "pending", "waiting", "returning", "done"}]
  /\ req \in [Calls -> ActionIDs \cup {None}]
  /\ target \in [Calls -> Conns \cup {None}]
  /\ respChan \in [Calls -> Seq(Responses)]
  /\ result \in [Calls -> Responses \cup Errors \cup {None}]
  /\ \A c \in Conns : /\ Len(sendChan[c]) <= SendCap
                      /\ reader[c] # "idle" => owner[c] \in Nodes
                      /\ reader[c] = "handing" => handing[c] \in Delivery
  /\ \A k \in Calls : /\ Len(respChan[k]) <= 1
                      /\ call[k] # "idle" => req[k] \in ActionIDs
                      /\ call[k] \in {"found", "pending"} => target[k] \in Conns

Init ==
  /\ link = [c \in Conns |-> "unused"]
  /\ owner = [c \in Conns |-> None]
  /\ inbox = [c \in Conns |-> <<>>]
  /\ outbox = [c \in Conns |-> <<>>]
  /\ agentConn = [n \in Nodes |-> None]
  /\ jobs = {} /\ executed = {}
  /\ valid = Nodes
  /\ reader = [c \in Conns |-> "idle"]
  /\ handing = [c \in Conns |-> None]
  /\ nodeID = [c \in Conns |-> None]
  /\ sendChan = [c \in Conns |-> <<>>]
  /\ writer = [c \in Conns |-> "idle"]
  /\ clients = [n \in Nodes |-> None]
  /\ device = [n \in Nodes |-> "unknown"]
  /\ pending = [a \in ActionIDs |-> None]
  /\ call = [k \in Calls |-> "idle"]
  /\ req = [k \in Calls |-> None]
  /\ target = [k \in Calls |-> None]
  /\ respChan = [k \in Calls |-> <<>>]
  /\ result = [k \in Calls |-> None]

-----------------------------------------------------------------------------
(* The edge agent and the network.                                         *)

(* connectAndStream dials and writes its enroll message; the hub's         *)
(* HandleWebSocket starts the two pumps.                                   *)
Dial(n, c) ==
  /\ agentConn[n] = None /\ link[c] = "unused"
  /\ link' = [link EXCEPT ![c] = "up"]
  /\ owner' = [owner EXCEPT ![c] = n]
  /\ inbox' = [inbox EXCEPT ![c] = <<Signal("enroll")>>]
  /\ agentConn' = [agentConn EXCEPT ![n] = c]
  /\ reader' = [reader EXCEPT ![c] = "reading"]
  /\ writer' = [writer EXCEPT ![c] = "running"]
  /\ UNCHANGED <<outbox, jobs, executed, valid, handing, nodeID, sendChan,
                 hubVars, callVars>>

(* sendTelemetryBatch writes a heartbeat, then metrics and containers,     *)
(* whose handlers touch the device row in the same way.                    *)
SendTelemetry(n, signal) ==
  /\ agentConn[n] # None
  /\ LET c == agentConn[n] IN
       /\ link[c] = "up" /\ Len(inbox[c]) < InboxCap
       /\ inbox' = [inbox EXCEPT ![c] = Append(@, Signal(signal))]
  /\ UNCHANGED <<link, owner, outbox, agentVars, pumpVars, sendChan, hubVars,
                 callVars>>

(* A stream breaks; an unread suffix in either direction is lost.          *)
BreakLink(c) ==
  /\ link[c] = "up"
  /\ link' = [link EXCEPT ![c] = "broken"]
  /\ \E i \in 0 .. Len(inbox[c]) :
       inbox' = [inbox EXCEPT ![c] = SubSeq(@, 1, i)]
  /\ \E i \in 0 .. Len(outbox[c]) :
       outbox' = [outbox EXCEPT ![c] = SubSeq(@, 1, i)]
  /\ UNCHANGED <<owner, agentVars, pumpVars, sendChan, hubVars, callVars>>

(* The agent's ReadJSON fails and connectAndStream returns; handleAction   *)
(* goroutines live on with the old connection in their hands.              *)
AgentReadError(n) ==
  /\ agentConn[n] # None
  /\ link[agentConn[n]] = "broken" /\ outbox[agentConn[n]] = <<>>
  /\ agentConn' = [agentConn EXCEPT ![n] = None]
  /\ UNCHANGED <<connVars, jobs, executed, valid, pumpVars, sendChan, hubVars,
                 callVars>>

(* The agent process dies: its socket and its goroutines go with it.       *)
AgentCrash(n) ==
  /\ agentConn[n] # None
  /\ LET c == agentConn[n] IN
       /\ link' = [link EXCEPT ![c] = "broken"]
       /\ outbox' = [outbox EXCEPT ![c] = <<>>]
  /\ jobs' = {j \in jobs : owner[j.conn] # n}
  /\ agentConn' = [agentConn EXCEPT ![n] = None]
  /\ UNCHANGED <<owner, inbox, executed, valid, pumpVars, sendChan, hubVars,
                 callVars>>

(* The agent reads a command and starts handleAction in a goroutine.       *)
AgentRead(n) ==
  /\ agentConn[n] # None
  /\ LET c == agentConn[n] IN
       /\ outbox[c] # <<>>
       /\ jobs' = jobs \cup {[conn |-> c, cmd |-> Head(outbox[c])]}
       /\ outbox' = [outbox EXCEPT ![c] = Tail(@)]
  /\ UNCHANGED <<link, owner, inbox, agentConn, executed, valid, pumpVars,
                 sendChan, hubVars, callVars>>

(* handleAction runs the command and answers on the connection the command *)
(* came from, if that still takes writes.                                  *)
FinishJob(j) ==
  LET resp == [type |-> "action_response", call |-> j.cmd.call,
               act |-> j.cmd.act] IN
  /\ jobs' = jobs \ {j}
  /\ executed' = executed \cup {resp}
  /\ IF link[j.conn] = "up"
     THEN /\ Len(inbox[j.conn]) < InboxCap
          /\ inbox' = [inbox EXCEPT ![j.conn] = Append(@, resp)]
     ELSE UNCHANGED inbox
  /\ UNCHANGED <<link, owner, outbox, agentConn, valid, pumpVars, sendChan,
                 hubVars, callVars>>

(* The 24 hours of a pairing token are over.                               *)
ExpireToken(n) ==
  /\ n \in valid \cap PairedNodes
  /\ valid' = valid \ {n}
  /\ UNCHANGED <<connVars, agentConn, jobs, executed, pumpVars, sendChan,
                 hubVars, callVars>>

-----------------------------------------------------------------------------
(* The two pumps of a connection.                                          *)

Authorized(n) == n \in valid \/ ~SecretConfigured

(* Mutant of Register: only the first message registers the connection.    *)
RegisterOnce(c) ==
  /\ reader[c] = "reading" /\ inbox[c] # <<>>
  /\ Head(inbox[c]).type \in {"enroll", "heartbeat"}
  /\ Authorized(owner[c])
  /\ inbox' = [inbox EXCEPT ![c] = Tail(@)]
  /\ nodeID' = [nodeID EXCEPT ![c] = owner[c]]
  /\ IF nodeID[c] = None
     THEN /\ clients' = [clients EXCEPT ![owner[c]] = c]
          /\ reader' = [reader EXCEPT ![c] = "enrolling"]
     ELSE UNCHANGED <<clients, reader>>
  /\ UNCHANGED <<link, owner, outbox, agentVars, handing, writer, sendChan,
                 device, callVars>>

(* readPump on "enroll" and "heartbeat": registerClient, under h.mu.       *)
Register(c) ==
  /\ reader[c] = "reading" /\ inbox[c] # <<>>
  /\ Head(inbox[c]).type \in {"enroll", "heartbeat"}
  /\ Authorized(owner[c])
  /\ inbox' = [inbox EXCEPT ![c] = Tail(@)]
  /\ nodeID' = [nodeID EXCEPT ![c] = owner[c]]
  /\ clients' = [clients EXCEPT ![owner[c]] = c]
  /\ reader' = [reader EXCEPT ![c] = "enrolling"]
  /\ UNCHANGED <<link, owner, outbox, agentVars, handing, writer, sendChan,
                 device, callVars>>

(* ... and then EnrollDevice, with h.mu released.                          *)
EnrollDevice(c) ==
  /\ reader[c] = "enrolling"
  /\ device' = [device EXCEPT ![nodeID[c]] = "online"]
  /\ reader' = [reader EXCEPT ![c] = "reading"]
  /\ UNCHANGED <<connVars, agentVars, handing, nodeID, writer, sendChan,
                 clients, callVars>>

(* Mutant of Unregister: the entry of the node stays in clients.           *)
UnregisterKeepsEntry(c) ==
  /\ reader' = [reader EXCEPT ![c] = "done"]
  /\ link' = [link EXCEPT ![c] = "broken"]
  /\ inbox' = [inbox EXCEPT ![c] = <<>>]
  /\ device' = IF nodeID[c] = None THEN device
               ELSE [device EXCEPT ![nodeID[c]] = "offline"]
  /\ UNCHANGED clients

(* The deferred unregisterClient, all of it under h.mu, and Conn.Close: it *)
(* drops whatever entry clients has for the node and marks it offline.     *)
Unregister(c) ==
  /\ reader' = [reader EXCEPT ![c] = "done"]
  /\ link' = [link EXCEPT ![c] = "broken"]
  /\ inbox' = [inbox EXCEPT ![c] = <<>>]
  /\ IF nodeID[c] = None
     THEN UNCHANGED hubVars
     ELSE /\ clients' = [clients EXCEPT ![nodeID[c]] = None]
          /\ device' = [device EXCEPT ![nodeID[c]] = "offline"]

(* readPump on "enroll" and "heartbeat" with a token that is not accepted. *)
Reject(c) ==
  /\ reader[c] = "reading" /\ inbox[c] # <<>>
  /\ Head(inbox[c]).type \in {"enroll", "heartbeat"}
  /\ ~Authorized(owner[c])
  /\ Unregister(c)
  /\ UNCHANGED <<owner, outbox, agentVars, handing, nodeID, writer, sendChan,
                 callVars>>

(* readPump's ReadJSON fails.                                              *)
HubReadError(c) ==
  /\ reader[c] = "reading" /\ link[c] = "broken" /\ inbox[c] = <<>>
  /\ Unregister(c)
  /\ UNCHANGED <<owner, outbox, agentVars, handing, nodeID, writer, sendChan,
                 callVars>>

(* readPump on "metrics" and "containers": UpdateDeviceStatus, which only  *)
(* changes a row that exists.                                              *)
ReadTelemetry(c) ==
  /\ reader[c] = "reading" /\ inbox[c] # <<>>
  /\ Head(inbox[c]).type = "telemetry"
  /\ inbox' = [inbox EXCEPT ![c] = Tail(@)]
  /\ device' = [device EXCEPT ![owner[c]] =
                  IF @ = "unknown" THEN @ ELSE "online"]
  /\ UNCHANGED <<link, owner, outbox, agentVars, pumpVars, sendChan, clients,
                 callVars>>

(* Mutant of ReadResponse: the response goes to whichever call is pending. *)
ReadResponseAnyCall(c) ==
  /\ reader[c] = "reading" /\ inbox[c] # <<>>
  /\ Head(inbox[c]).type = "action_response"
  /\ \E a \in ActionIDs :
       /\ pending[a] # None
       /\ handing' = [handing EXCEPT ![c] =
                        [to |-> pending[a], resp |-> Head(inbox[c])]]
  /\ reader' = [reader EXCEPT ![c] = "handing"]
  /\ inbox' = [inbox EXCEPT ![c] = Tail(@)]
  /\ UNCHANGED <<link, owner, outbox, agentVars, nodeID, writer, sendChan,
                 hubVars, callVars>>

(* readPump on "action_response": the lookup under h.pendingMu ...         *)
ReadResponse(c) ==
  /\ reader[c] = "reading" /\ inbox[c] # <<>>
  /\ Head(inbox[c]).type = "action_response"
  /\ LET resp == Head(inbox[c]) IN
       IF pending[resp.act] = None
       THEN UNCHANGED <<reader, handing>>
       ELSE /\ handing' = [handing EXCEPT ![c] =
                             [to |-> pending[resp.act], resp |-> resp]]
            /\ reader' = [reader EXCEPT ![c] = "handing"]
  /\ inbox' = [inbox EXCEPT ![c] = Tail(@)]
  /\ UNCHANGED <<link, owner, outbox, agentVars, nodeID, writer, sendChan,
                 hubVars, callVars>>

(* Mutants of HasRoom: the response channel never blocks its sender, and   *)
(* it is made without a buffer.                                            *)
HasRoomAlways(k) == call[k] # "idle"
HasRoomUnbuffered(k) == call[k] = "waiting" /\ respChan[k] = <<>>

(* The response channel of a call has capacity 1.                          *)
HasRoom(k) == respChan[k] = <<>>

(* ... and then the send on the channel found, which blocks while the      *)
(* channel is full.                                                        *)
HandOver(c) ==
  /\ reader[c] = "handing"
  /\ LET k == handing[c].to IN
       /\ HasRoom(k)
       /\ respChan' = [respChan EXCEPT ![k] = Append(@, handing[c].resp)]
  /\ reader' = [reader EXCEPT ![c] = "reading"]
  /\ handing' = [handing EXCEPT ![c] = None]
  /\ UNCHANGED <<connVars, agentVars, nodeID, writer, sendChan, hubVars,
                 pending, call, req, target, result>>

(* writePump takes a message and writes it.  On a broken stream the write  *)
(* may still succeed into the socket buffer, and the message is lost, or   *)
(* fail, and writePump returns.                                            *)
WriteMessage(c) ==
  /\ writer[c] = "running" /\ sendChan[c] # <<>>
  /\ sendChan' = [sendChan EXCEPT ![c] = Tail(@)]
  /\ \/ /\ link[c] = "up"
        /\ outbox' = [outbox EXCEPT ![c] = Append(@, Head(sendChan[c]))]
        /\ UNCHANGED writer
     \/ /\ link[c] = "broken"
        /\ writer' \in {writer, [writer EXCEPT ![c] = "stopped"]}
        /\ UNCHANGED outbox
  /\ UNCHANGED <<link, owner, inbox, agentVars, reader, handing, nodeID,
                 hubVars, callVars>>

(* writePump sees SendChan closed, or its ping fails.                      *)
StopWriter(c) ==
  /\ writer[c] = "running"
  /\ \/ reader[c] = "done" /\ sendChan[c] = <<>>
     \/ link[c] = "broken"
  /\ writer' = [writer EXCEPT ![c] = "stopped"]
  /\ UNCHANGED <<connVars, agentVars, reader, handing, nodeID, sendChan,
                 hubVars, callVars>>

-----------------------------------------------------------------------------
(* DispatchAction.                                                         *)

(* Look the client up under h.mu.                                          *)
Lookup(k, a) ==
  /\ call[k] = "idle"
  /\ Cardinality({j \in Calls : InFlight(j)}) < MaxInFlight
  /\ req' = [req EXCEPT ![k] = a]
  /\ LET c == clients[TargetNode[a]] IN
       IF c = None
       THEN /\ call' = [call EXCEPT ![k] = "done"]
            /\ result' = [result EXCEPT ![k] = Error("not connected")]
            /\ UNCHANGED target
       ELSE /\ call' = [call EXCEPT ![k] = "found"]
            /\ target' = [target EXCEPT ![k] = c]
            /\ UNCHANGED result
  /\ UNCHANGED <<connVars, agentVars, pumpVars, sendChan, hubVars, pending,
                 respChan>>

(* Record the response channel under h.pendingMu.                          *)
AddPending(k) ==
  /\ call[k] = "found"
  /\ pending' = [pending EXCEPT ![req[k]] = k]
  /\ call' = [call EXCEPT ![k] = "pending"]
  /\ UNCHANGED <<connVars, agentVars, pumpVars, sendChan, hubVars, req, target,
                 respChan, result>>

(* unregisterClient closes SendChan.                                       *)
Closed(c) == reader[c] = "done"

(* Send on SendChan: blocks while it is full, panics once it is closed.    *)
Send(k) ==
  /\ call[k] = "pending"
  /\ LET c == target[k] IN
       \/ /\ Closed(c)
          /\ call' = [call EXCEPT ![k] = "returning"]
          /\ result' = [result EXCEPT ![k] = Error("panic")]
          /\ UNCHANGED sendChan
       \/ /\ ~Closed(c) /\ Len(sendChan[c]) < SendCap
          /\ call' = [call EXCEPT ![k] = "waiting"]
          /\ sendChan' = [sendChan EXCEPT ![c] =
                            Append(@, [call |-> k, act |-> req[k]])]
          /\ UNCHANGED result
  /\ UNCHANGED <<connVars, agentVars, pumpVars, hubVars, pending, req, target,
                 respChan>>

(* The select takes the response ...                                       *)
Receive(k) ==
  /\ call[k] = "waiting" /\ respChan[k] # <<>>
  /\ result' = [result EXCEPT ![k] = Head(respChan[k])]
  /\ respChan' = [respChan EXCEPT ![k] = Tail(@)]
  /\ call' = [call EXCEPT ![k] = "returning"]
  /\ UNCHANGED <<connVars, agentVars, pumpVars, sendChan, hubVars, pending,
                 req, target>>

(* Mutant of Timeout: the deadline is only looked at after a receive.      *)
TimeoutAfterReceive(k) ==
  /\ call[k] = "waiting" /\ respChan[k] # <<>>
  /\ result' = [result EXCEPT ![k] = Error("timeout")]
  /\ call' = [call EXCEPT ![k] = "returning"]
  /\ UNCHANGED <<connVars, agentVars, pumpVars, sendChan, hubVars, pending,
                 req, target, respChan>>

(* ... or the timer, also when a response is there as well.                *)
Timeout(k) ==
  /\ call[k] = "waiting"
  /\ result' = [result EXCEPT ![k] = Error("timeout")]
  /\ call' = [call EXCEPT ![k] = "returning"]
  /\ UNCHANGED <<connVars, agentVars, pumpVars, sendChan, hubVars, pending,
                 req, target, respChan>>

(* Mutant of Return: an answered call leaves its pending entry behind.     *)
ReturnKeepsPending(k) ==
  /\ call[k] = "returning"
  /\ pending' = IF result[k] \in Responses THEN pending
                ELSE [pending EXCEPT ![req[k]] = None]
  /\ call' = [call EXCEPT ![k] = "done"]
  /\ target' = [target EXCEPT ![k] = None]
  /\ UNCHANGED <<connVars, agentVars, pumpVars, sendChan, hubVars, req,
                 respChan, result>>

(* The deferred delete of the pending entry; the locals are gone.          *)
Return(k) ==
  /\ call[k] = "returning"
  /\ pending' = [pending EXCEPT ![req[k]] = None]
  /\ call' = [call EXCEPT ![k] = "done"]
  /\ target' = [target EXCEPT ![k] = None]
  /\ UNCHANGED <<connVars, agentVars, pumpVars, sendChan, hubVars, req,
                 respChan, result>>

-----------------------------------------------------------------------------
AgentReadLoop(n) ==
  (\E c \in Conns : Dial(n, c)) \/ AgentReadError(n) \/ AgentRead(n)

AgentStep(n) ==
  \/ AgentReadLoop(n)
  \/ \E s \in {"heartbeat", "telemetry"} : SendTelemetry(n, s)
  \/ AgentCrash(n) \/ ExpireToken(n)

ReadPump(c) ==
  \/ Register(c) \/ EnrollDevice(c) \/ Reject(c) \/ HubReadError(c)
  \/ ReadTelemetry(c) \/ ReadResponse(c) \/ HandOver(c)

WritePump(c) == WriteMessage(c) \/ StopWriter(c)

DispatchAction(k) ==
  \/ AddPending(k) \/ Send(k) \/ Receive(k) \/ Timeout(k) \/ Return(k)

Next ==
  \/ \E n \in Nodes : AgentStep(n)
  \/ \E j \in jobs : FinishJob(j)
  \/ \E c \in Conns : ReadPump(c) \/ WritePump(c) \/ BreakLink(c)
  \/ \E k \in Calls : DispatchAction(k) \/ \E a \in ActionIDs : Lookup(k, a)

Spec == Init /\ [][Next]_vars

(* The Go scheduler runs every goroutine that can run, a broken stream is  *)
(* noticed (TCP keep-alive), the 15 s timer fires, and an agent whose loop *)
(* runs keeps sending its telemetry and keeps redialling.  Nobody is       *)
(* obliged to break a stream, to crash, to expire a token or to dispatch.  *)
Fairness ==
  /\ \A c \in Conns : WF_vars(ReadPump(c)) /\ WF_vars(WritePump(c))
  /\ \A k \in Calls : WF_vars(DispatchAction(k))
  /\ \A n \in Nodes : /\ SF_vars(SendTelemetry(n, "heartbeat"))
                      /\ WF_vars(AgentReadLoop(n))

FairSpec == Spec /\ Fairness
-----------------------------------------------------------------------------
(* Properties.                                                             *)

(* No two calls so far were made with one action id.                       *)
UniqueIDs == \A j, k \in Calls : j # k /\ req[j] = req[k] => req[j] = None

(* The clients map never holds a connection whose SendChan unregisterClient *)
(* has closed, and holds it under the node that enrolled on it, although   *)
(* old and new connections of a node register and unregister in any order. *)
RegisteredOpen ==
  \A n \in Nodes : clients[n] # None =>
    nodeID[clients[n]] = n /\ ~Closed(clients[n])

(* pendingReqs leaks no entry: each one belongs to a DispatchAction call   *)
(* that is still running and was made for that action id, whichever way    *)
(* calls end (answer, timer, panic).                                       *)
PendingInFlight ==
  \A a \in ActionIDs : pending[a] # None =>
    /\ req[pending[a]] = a
    /\ call[pending[a]] \in {"pending", "waiting", "returning"}

(* A response that DispatchAction returns reports a command that an agent  *)
(* did carry out and answered, for the action id of the call, across       *)
(* reconnections, timeouts and late answers.                               *)
AnswerIsReal ==
  \A k \in Calls : result[k] \in Responses =>
    /\ result[k] \in executed
    /\ result[k].act = req[k]

(* What callers of DispatchAction may rely on (hub.go:252-279): an agent   *)
(* carries out a command at most once per call, and not at all for a call  *)
(* that came back with "not connected" or panicked, through reconnections, *)
(* crashes of the agent, full queues and late answers; only the timer      *)
(* leaves open whether it did.  The steps of RemoteAction are all a caller *)
(* sees of the steps below.                                                *)
Remote == INSTANCE RemoteAction
            WITH Calls <- Calls, ActionIDs <- ActionIDs, None <- None,
                 req <- req, executed <- executed, result <- result
RemoteSpec == Remote!Spec

(* readPump never blocks on a call's channel, and with it the node's       *)
(* heartbeats, as long as action ids are not reused: the one buffer slot   *)
(* takes the one answer even when the call has already timed out.          *)
ReaderNotStuck ==
  UniqueIDs => \A c \in Conns : reader[c] = "handing" => HasRoom(handing[c].to)

(* No call waits to send on a queue that nobody will empty or close: the   *)
(* connection's writePump runs, or its stream is broken and its readPump,  *)
(* which was started, has closed SendChan or finds that out                *)
(* (hub.go:252-279 against the ends of the two pumps).                     *)
SendersServed ==
  \A k \in Calls : call[k] = "pending" =>
    /\ reader[target[k]] # "idle"
    /\ writer[target[k]] = "running" \/ link[target[k]] = "broken"

(* Every DispatchAction call returns, also when the connection it sends on *)
(* breaks, its queue is full, or the answer is lost (hub.go:252-279).      *)
CallsReturn ==
  [](UniqueIDs) => \A k \in Calls : call[k] # "idle" ~> call[k] = "done"

(* A node whose agent stays connected and authorised ends up registered    *)
(* with its current connection and online for good: the heartbeats repair  *)
(* what the late unregistration of an older connection did.                *)
Streaming(n) ==
  agentConn[n] # None /\ link[agentConn[n]] = "up" /\ Authorized(n)
Reconverges ==
  [](UniqueIDs) => \A n \in Nodes :
    <>[]Streaming(n) => <>[](clients[n] = agentConn[n] /\ device[n] = "online")

(* Both pumps of a connection whose stream broke end: no goroutine leaks.  *)
PumpsEnd ==
  [](UniqueIDs) => \A c \in Conns :
    link[c] = "broken" ~> Closed(c) /\ writer[c] = "stopped"

(* "ConnectedNodes returns a list of actively connected node IDs": a node  *)
(* whose agent streams over a connection that readPump has enrolled is in  *)
(* the clients map.                                                        *)
ConnectedListed ==
  \A n \in Nodes :
    /\ Streaming(n)
    /\ nodeID[agentConn[n]] = n
    => clients[n] # None

(* "DispatchAction sends a remediation command to a connected edge node    *)
(* and waits for response": the response returned answers that command.    *)
AnswersOwnCommand ==
  \A k \in Calls : result[k] \in Responses => result[k].call = k
============================================================================
