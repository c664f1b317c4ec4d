----------------------------- MODULE HubProofs -----------------------------
(* Proofs of the safety properties of Hub.                                 *)
EXTENDS Hub, TLAPS

LEMMA ErrorsTyped == \A t \in {"not connected", "timeout", "panic"} : Error(t) \in Errors
  BY DEF Errors

LEMMA UpdateTyped ==
  ASSUME NEW S, NEW T, NEW f \in [S -> T], NEW x \in S, NEW v \in T
  PROVE  [f EXCEPT ![x] = v] \in [S -> T]
  OBVIOUS

LEMMA HeadTailTyped ==
  ASSUME NEW S, NEW s \in Seq(S), s # <<>>
  PROVE  /\ Head(s) \in S
         /\ Tail(s) \in Seq(S)
         /\ Len(Tail(s)) = Len(s) - 1
  OBVIOUS

LEMMA AppendTyped ==
  ASSUME NEW S, NEW s \in Seq(S), NEW x \in S
  PROVE  Append(s, x) \in Seq(S) /\ Len(Append(s, x)) = Len(s) + 1
  OBVIOUS

(* Among the messages of an agent, only responses have their type.         *)
LEMMA ResponseByType ==
  ASSUME NEW m \in Signals \cup Responses, m.type = "action_response"
  PROVE  m \in Responses
  BY DEF Signals, Signal

(* What a broken stream leaves of the messages on it.                      *)
LEMMA PrefixTyped ==
  ASSUME NEW S, NEW s \in Seq(S), NEW i \in 0 .. Len(s)
  PROVE  SubSeq(s, 1, i) \in Seq(S)
  OBVIOUS

(* Messages keep their type on the wire, in the channels and in the hands  *)
(* of readPump, the channels their capacity, and a goroutine its locals.   *)
THEOREM TypeCorrect == Spec => []TypeOK
<1>1. Init => TypeOK
  BY HubAssumption DEF Init, TypeOK
<1>2. TypeOK /\ [Next]_vars => TypeOK'
  <2> SUFFICES ASSUME TypeOK, [Next]_vars PROVE TypeOK'
    OBVIOUS
  <2> USE HubAssumption DEF TypeOK, connVars, agentVars, pumpVars, hubVars, callVars
  <2>1. ASSUME NEW n \in Nodes, NEW c \in Conns, Dial(n, c) PROVE TypeOK'
    BY <2>1 DEF Dial, Signals
  <2>2. ASSUME NEW n \in Nodes, NEW s \in {"heartbeat", "telemetry"},
               SendTelemetry(n, s)
        PROVE  TypeOK'
    BY <2>2 DEF SendTelemetry, Signals
  <2>3. ASSUME NEW n \in Nodes, AgentReadError(n) PROVE TypeOK'
    BY <2>3 DEF AgentReadError
  <2>4. ASSUME NEW n \in Nodes, AgentCrash(n) PROVE TypeOK'
    BY <2>4 DEF AgentCrash
  <2>5. ASSUME NEW n \in Nodes, AgentRead(n) PROVE TypeOK'
    BY <2>5 DEF AgentRead
  <2>6. ASSUME NEW n \in Nodes, ExpireToken(n) PROVE TypeOK'
    BY <2>6 DEF ExpireToken
  <2>7. ASSUME NEW j \in jobs, FinishJob(j) PROVE TypeOK'
    <3> DEFINE resp == [type |-> "action_response", call |-> j.cmd.call,
                        act |-> j.cmd.act]
    <3>1. resp \in Responses /\ j.conn \in Conns
      BY DEF Responses, Commands
    <3>2. inbox' \in [Conns -> Seq(Signals \cup Responses)]
      <4>1. inbox' = inbox \/ inbox' = [inbox EXCEPT ![j.conn] = Append(@, resp)]
        BY <2>7 DEF FinishJob
      <4> HIDE DEF resp
      <4>2. Append(inbox[j.conn], resp) \in Seq(Signals \cup Responses)
        BY <3>1
      <4>3. QED
        BY <3>1, <4>1, <4>2
    <3>3. executed' \subseteq Responses
      BY <2>7, <3>1 DEF FinishJob
    <3>4. QED
      BY <2>7, <3>2, <3>3 DEF FinishJob
  <2>8. ASSUME NEW c \in Conns, BreakLink(c) PROVE TypeOK'
    <3>1. link' \in [Conns -> {"unused", "up", "broken"}]
      BY <2>8 DEF BreakLink
    <3>2. inbox' \in [Conns -> Seq(Signals \cup Responses)]
      BY <2>8, PrefixTyped DEF BreakLink
    <3>3. outbox' \in [Conns -> Seq(Commands)]
      BY <2>8, PrefixTyped DEF BreakLink
    <3>4. QED
      BY <2>8, <3>1, <3>2, <3>3 DEF BreakLink
  <2>9. ASSUME NEW c \in Conns, Register(c) PROVE TypeOK'
    BY <2>9 DEF Register
  <2>10. ASSUME NEW c \in Conns, EnrollDevice(c) PROVE TypeOK'
    BY <2>10 DEF EnrollDevice
  <2>11. ASSUME NEW c \in Conns, Reject(c) \/ HubReadError(c) PROVE TypeOK'
    <3>1. Unregister(c) /\ reader[c] = "reading"
      BY <2>11 DEF Reject, HubReadError
    <3>2. UNCHANGED <<owner, outbox, agentVars, handing, nodeID, writer,
                      sendChan, callVars>>
      BY <2>11 DEF Reject, HubReadError
    <3>3. /\ clients' \in [Nodes -> Conns \cup {None}]
          /\ device' \in [Nodes -> {"unknown", "online", "offline"}]
      BY <3>1 DEF Unregister
    <3>4. /\ reader' \in [Conns -> {"idle", "reading", "enrolling", "handing", "done"}]
          /\ link' \in [Conns -> {"unused", "up", "broken"}]
          /\ inbox' \in [Conns -> Seq(Signals \cup Responses)]
      BY <3>1 DEF Unregister
    <3>5. \A d \in Conns : /\ reader'[d] # "idle" => owner[d] \in Nodes
                           /\ reader'[d] = "handing" => handing[d] \in Delivery
      BY <3>1 DEF Unregister
    <3>6. QED
      BY <3>2, <3>3, <3>4, <3>5
  <2>12. ASSUME NEW c \in Conns, ReadTelemetry(c) PROVE TypeOK'
    BY <2>12 DEF ReadTelemetry
  <2>13. ASSUME NEW c \in Conns, ReadResponse(c) PROVE TypeOK'
    <3>1. /\ Head(inbox[c]) \in Responses
          /\ Tail(inbox[c]) \in Seq(Signals \cup Responses)
      BY <2>13, HeadTailTyped, ResponseByType DEF ReadResponse
    <3>2. inbox' \in [Conns -> Seq(Signals \cup Responses)]
      BY <2>13, <3>1 DEF ReadResponse
    <3>3. Head(inbox[c]).act \in ActionIDs
      BY <3>1 DEF Responses
    <3>4. CASE pending[Head(inbox[c]).act] = None
      BY <2>13, <3>2, <3>4 DEF ReadResponse
    <3>5. CASE pending[Head(inbox[c]).act] # None
      <4>1. [to |-> pending[Head(inbox[c]).act], resp |-> Head(inbox[c])] \in Delivery
        BY <3>1, <3>3, <3>5 DEF Delivery
      <4>2. handing' \in [Conns -> Delivery \cup {None}]
        BY <2>13, <3>5, <4>1 DEF ReadResponse
      <4>3. reader' = [reader EXCEPT ![c] = "handing"] /\ handing'[c] \in Delivery
        BY <2>13, <3>5, <4>1 DEF ReadResponse
      <4>4. \A d \in Conns : d # c => handing'[d] = handing[d]
        BY <2>13, <3>5 DEF ReadResponse
      <4>5. \A d \in Conns : reader'[d] = "handing" => handing'[d] \in Delivery
        BY <4>3, <4>4
      <4>6. reader[c] = "reading"
        BY <2>13 DEF ReadResponse
      <4>7. UNCHANGED <<link, owner, outbox, agentVars, nodeID, writer, sendChan,
                        hubVars, callVars>>
        BY <2>13 DEF ReadResponse
      <4>8. QED
        BY <3>2, <4>2, <4>3, <4>5, <4>6, <4>7
    <3>6. QED
      BY <3>4, <3>5
  <2>14. ASSUME NEW c \in Conns, HandOver(c) PROVE TypeOK'
    BY <2>14 DEF HandOver, HasRoom, Delivery
  <2>15. ASSUME NEW c \in Conns, WritePump(c) PROVE TypeOK'
    <3>1. CASE StopWriter(c)
      BY <3>1 DEF StopWriter
    <3>2. CASE WriteMessage(c)
      <4>1. /\ Head(sendChan[c]) \in Commands
            /\ Tail(sendChan[c]) \in Seq(Commands)
            /\ Len(Tail(sendChan[c])) <= SendCap
        BY <3>2 DEF WriteMessage
      <4>2. outbox' \in [Conns -> Seq(Commands)]
        <5>1. \/ outbox' = outbox
              \/ outbox' = [outbox EXCEPT ![c] = Append(@, Head(sendChan[c]))]
          BY <3>2 DEF WriteMessage
        <5>2. Append(outbox[c], Head(sendChan[c])) \in Seq(Commands)
          BY <4>1
        <5>3. QED
          BY <5>1, <5>2
      <4>3. writer' \in [Conns -> {"idle", "running", "stopped"}]
        <5>1. writer' = writer \/ writer' = [writer EXCEPT ![c] = "stopped"]
          BY <3>2 DEF WriteMessage
        <5>2. QED
          BY <5>1
      <4>4. /\ sendChan' \in [Conns -> Seq(Commands)]
            /\ \A d \in Conns : Len(sendChan'[d]) <= SendCap
        BY <3>2, <4>1 DEF WriteMessage
      <4>5. QED
        BY <3>2, <4>2, <4>3, <4>4 DEF WriteMessage
    <3>3. QED
      BY <2>15, <3>1, <3>2 DEF WritePump
  <2>16. ASSUME NEW k \in Calls, NEW a \in ActionIDs, Lookup(k, a) PROVE TypeOK'
    <3>1. result' \in [Calls -> Responses \cup Errors \cup {None}]
      <4>1. \/ result' = result
            \/ result' = [result EXCEPT ![k] = Error("not connected")]
        BY <2>16 DEF Lookup
      <4>2. QED
        BY <4>1, ErrorsTyped
    <3>2. /\ req' = [req EXCEPT ![k] = a]
          /\ UNCHANGED <<connVars, agentVars, pumpVars, sendChan, hubVars,
                         pending, respChan>>
      BY <2>16 DEF Lookup
    <3>3. CASE call' = [call EXCEPT ![k] = "done"] /\ UNCHANGED target
      BY <3>1, <3>2, <3>3
    <3>4. CASE /\ call' = [call EXCEPT ![k] = "found"]
               /\ target' = [target EXCEPT ![k] = clients[TargetNode[a]]]
               /\ clients[TargetNode[a]] \in Conns
      BY <3>1, <3>2, <3>4
    <3>5. clients[TargetNode[a]] \in Conns \cup {None}
      OBVIOUS
    <3>6. QED
      BY <2>16, <3>3, <3>4, <3>5 DEF Lookup
  <2>17. ASSUME NEW k \in Calls, AddPending(k) PROVE TypeOK'
    BY <2>17 DEF AddPending
  <2>18. ASSUME NEW k \in Calls, Send(k) PROVE TypeOK'
    <3> DEFINE c == target[k]
    <3> DEFINE cmd == [call |-> k, act |-> req[k]]
    <3>1. c \in Conns /\ cmd \in Commands
      BY <2>18 DEF Send, Commands
    <3>2. UNCHANGED <<connVars, agentVars, pumpVars, hubVars, pending, req, target, respChan>>
      BY <2>18 DEF Send
    <3>3. req[k] \in ActionIDs
      BY <2>18 DEF Send
    <3>4. CASE /\ call' = [call EXCEPT ![k] = "returning"]
               /\ result' = [result EXCEPT ![k] = Error("panic")]
               /\ UNCHANGED sendChan
      BY <3>2, <3>3, <3>4, ErrorsTyped
    <3>5. CASE /\ Len(sendChan[c]) < SendCap
               /\ call' = [call EXCEPT ![k] = "waiting"]
               /\ sendChan' = [sendChan EXCEPT ![c] = Append(@, cmd)]
               /\ UNCHANGED result
      <4> HIDE DEF c, cmd
      <4>1. Append(sendChan[c], cmd) \in Seq(Commands) /\ Len(Append(sendChan[c], cmd)) <= SendCap
        BY <3>1, <3>5, AppendTyped
      <4>2. /\ sendChan' \in [Conns -> Seq(Commands)]
            /\ \A d \in Conns : Len(sendChan'[d]) <= SendCap
        BY <3>1, <3>5, <4>1
      <4>3. QED
        BY <3>2, <3>3, <3>5, <4>2
    <3>6. QED
      BY <2>18, <3>4, <3>5 DEF Send
  <2>19. ASSUME NEW k \in Calls, Receive(k) PROVE TypeOK'
    BY <2>19 DEF Receive
  <2>20. ASSUME NEW k \in Calls, Timeout(k) \/ Return(k) PROVE TypeOK'
    <3>1. CASE Timeout(k)
      BY <3>1, ErrorsTyped DEF Timeout
    <3>2. CASE Return(k)
      BY <3>2 DEF Return
    <3>3. QED
      BY <2>20, <3>1, <3>2
  <2>21. CASE UNCHANGED vars
    BY <2>21 DEF vars
  <2> HIDE DEF TypeOK
  <2>22. QED
    BY <2>1, <2>2, <2>3, <2>4, <2>5, <2>6, <2>7, <2>8, <2>9, <2>10, <2>11, <2>12,
       <2>13, <2>14, <2>15, <2>16, <2>17, <2>18, <2>19, <2>20, <2>21
    DEF Next, AgentStep, AgentReadLoop, ReadPump, DispatchAction
<1>3. QED
  BY <1>1, <1>2, PTL DEF Spec

-----------------------------------------------------------------------------
(* A connection never carries another node's id than that of the agent     *)
(* that dialled it, so registering it a second time, on a heartbeat,       *)
(* cannot leave it behind under a first id.                                *)
EnrolledAsOwner ==
  \A c \in Conns : /\ nodeID[c] # None => nodeID[c] = owner[c]
                   /\ link[c] = "unused" => nodeID[c] = None /\ reader[c] = "idle"

LEMMA EnrolledAsOwnerInit == Init => EnrolledAsOwner
  BY DEF Init, EnrolledAsOwner

LEMMA EnrolledAsOwnerStep ==
  TypeOK /\ EnrolledAsOwner /\ [Next]_vars => EnrolledAsOwner'
<1> SUFFICES ASSUME TypeOK, EnrolledAsOwner, [Next]_vars PROVE EnrolledAsOwner'
  OBVIOUS
<1> USE DEF EnrolledAsOwner, connVars, agentVars, pumpVars, hubVars, callVars
<1>0. /\ link \in [Conns -> {"unused", "up", "broken"}]
      /\ owner \in [Conns -> Nodes \cup {None}]
      /\ nodeID \in [Conns -> Nodes \cup {None}]
      /\ reader \in [Conns -> {"idle", "reading", "enrolling", "handing", "done"}]
      /\ agentConn \in [Nodes -> Conns \cup {None}]
  BY DEF TypeOK
<1>1. ASSUME NEW n \in Nodes, NEW c \in Conns, Dial(n, c) PROVE EnrolledAsOwner'
  BY <1>0, <1>1 DEF Dial
<1>2. ASSUME NEW n \in Nodes, AgentCrash(n) PROVE EnrolledAsOwner'
  BY <1>0, <1>2 DEF AgentCrash
<1>3. CASE UNCHANGED <<link, owner, nodeID, reader>>
  BY <1>3
<1>4. ASSUME NEW c \in Conns, BreakLink(c) PROVE EnrolledAsOwner'
  BY <1>0, <1>4 DEF BreakLink
<1>5. ASSUME NEW c \in Conns, Register(c) PROVE EnrolledAsOwner'
  BY <1>0, <1>5 DEF Register
<1>6. ASSUME NEW c \in Conns, Reject(c) \/ HubReadError(c) PROVE EnrolledAsOwner'
  BY <1>0, <1>6 DEF Reject, HubReadError, Unregister
<1>7. ASSUME NEW c \in Conns, EnrollDevice(c) \/ ReadResponse(c) \/ HandOver(c)
      PROVE  EnrolledAsOwner'
  BY <1>0, <1>7 DEF EnrollDevice, ReadResponse, HandOver
<1>8. ASSUME NEW n \in Nodes,
             \/ AgentReadError(n) \/ AgentRead(n) \/ ExpireToken(n)
             \/ \E t \in {"heartbeat", "telemetry"} : SendTelemetry(n, t)
      PROVE  UNCHANGED <<link, owner, nodeID, reader>>
  BY <1>8 DEF AgentReadError, AgentRead, ExpireToken, SendTelemetry
<1>9. ASSUME NEW j \in jobs, FinishJob(j)
      PROVE  UNCHANGED <<link, owner, nodeID, reader>>
  BY <1>9 DEF FinishJob
<1>10. ASSUME NEW c \in Conns, ReadTelemetry(c) \/ WritePump(c)
       PROVE  UNCHANGED <<link, owner, nodeID, reader>>
  BY <1>10 DEF ReadTelemetry, WritePump, WriteMessage, StopWriter
<1>11. ASSUME NEW k \in Calls,
              DispatchAction(k) \/ \E a \in ActionIDs : Lookup(k, a)
       PROVE  UNCHANGED <<link, owner, nodeID, reader>>
  BY <1>11 DEF DispatchAction, AddPending, Send, Receive, Timeout, Return, Lookup
<1>12. CASE UNCHANGED vars
  BY <1>3, <1>12 DEF vars
<1> HIDE DEF EnrolledAsOwner
<1>13. QED
  BY <1>1, <1>2, <1>3, <1>4, <1>5, <1>6, <1>7, <1>8, <1>9, <1>10, <1>11, <1>12
  DEF Next, AgentStep, AgentReadLoop, ReadPump

(* DispatchAction never finds a connection in clients whose SendChan is    *)
(* closed, and finds it under the node that enrolled on it: registrations  *)
(* and unregistrations of a node's old and new connection in any order     *)
(* leave no dead entry.                                                    *)
THEOREM NoDeadEntry == Spec => []RegisteredOpen
<1>1. Init => RegisteredOpen
  BY DEF Init, RegisteredOpen
<1>2. TypeOK /\ EnrolledAsOwner /\ RegisteredOpen /\ [Next]_vars => RegisteredOpen'
  <2> SUFFICES ASSUME TypeOK, EnrolledAsOwner, RegisteredOpen, [Next]_vars
               PROVE  RegisteredOpen'
    OBVIOUS
  <2> USE DEF RegisteredOpen, Closed, connVars, agentVars, pumpVars, hubVars, callVars
  <2>0. /\ owner \in [Conns -> Nodes \cup {None}]
        /\ nodeID \in [Conns -> Nodes \cup {None}]
        /\ reader \in [Conns -> {"idle", "reading", "enrolling", "handing", "done"}]
        /\ clients \in [Nodes -> Conns \cup {None}]
        /\ None \notin Nodes \cup Conns
        /\ \A c \in Conns : reader[c] # "idle" => owner[c] \in Nodes
    BY HubAssumption DEF TypeOK
  <2>1. ASSUME NEW n \in Nodes, NEW c \in Conns, Dial(n, c) PROVE RegisteredOpen'
    BY <2>0, <2>1 DEF Dial
  <2>2. ASSUME NEW c \in Conns, Register(c) PROVE RegisteredOpen'
    <3>1. nodeID[c] \in {None, owner[c]} /\ owner[c] \in Nodes
      BY <2>0, <2>2 DEF Register, EnrolledAsOwner
    <3>2. QED
      BY <2>0, <2>2, <3>1 DEF Register
  <2>3. ASSUME NEW c \in Conns, Reject(c) \/ HubReadError(c) PROVE RegisteredOpen'
    <3>1. Unregister(c) /\ UNCHANGED nodeID
      BY <2>3 DEF Reject, HubReadError
    <3>2. \A n \in Nodes : clients'[n] # c
      BY <2>0, <3>1 DEF Unregister
    <3>3. \A n \in Nodes : clients'[n] # None => clients'[n] = clients[n]
      BY <2>0, <3>1 DEF Unregister
    <3>4. QED
      BY <2>0, <3>1, <3>2, <3>3 DEF Unregister
  <2>4. ASSUME NEW c \in Conns, EnrollDevice(c) \/ ReadResponse(c) \/ HandOver(c)
        PROVE  RegisteredOpen'
    BY <2>0, <2>4 DEF EnrollDevice, ReadResponse, HandOver
  <2>5. CASE UNCHANGED <<clients, nodeID, reader>>
    BY <2>5
  <2>6. ASSUME NEW n \in Nodes,
               \/ AgentReadError(n) \/ AgentRead(n) \/ ExpireToken(n) \/ AgentCrash(n)
               \/ \E t \in {"heartbeat", "telemetry"} : SendTelemetry(n, t)
        PROVE  UNCHANGED <<clients, nodeID, reader>>
    BY <2>6 DEF AgentReadError, AgentRead, ExpireToken, AgentCrash, SendTelemetry
  <2>7. ASSUME NEW j \in jobs, FinishJob(j)
        PROVE  UNCHANGED <<clients, nodeID, reader>>
    BY <2>7 DEF FinishJob
  <2>8. ASSUME NEW c \in Conns, ReadTelemetry(c) \/ WritePump(c) \/ BreakLink(c)
        PROVE  UNCHANGED <<clients, nodeID, reader>>
    BY <2>8 DEF ReadTelemetry, WritePump, WriteMessage, StopWriter, BreakLink
  <2>9. ASSUME NEW k \in Calls,
               DispatchAction(k) \/ \E a \in ActionIDs : Lookup(k, a)
        PROVE  UNCHANGED <<clients, nodeID, reader>>
    BY <2>9 DEF DispatchAction, AddPending, Send, Receive, Timeout, Return, Lookup
  <2>10. CASE UNCHANGED vars
    BY <2>5, <2>10 DEF vars
  <2> HIDE DEF RegisteredOpen
  <2>11. QED
    BY <2>1, <2>2, <2>3, <2>4, <2>5, <2>6, <2>7, <2>8, <2>9, <2>10
    DEF Next, AgentStep, AgentReadLoop, ReadPump
<1>3. QED
  BY <1>1, <1>2, TypeCorrect, EnrolledAsOwnerInit, EnrolledAsOwnerStep, PTL DEF Spec

(* The steps that are not DispatchAction's leave pendingReqs and what a    *)
(* call keeps on its stack alone.                                          *)
LEMMA OthersKeepCalls ==
  ASSUME [Next]_vars,
         ~ \E k \in Calls : DispatchAction(k) \/ \E a \in ActionIDs : Lookup(k, a)
  PROVE  UNCHANGED <<pending, call, req, target, result>>
<1> USE DEF connVars, agentVars, pumpVars, hubVars, callVars
<1>1. ASSUME NEW n \in Nodes, AgentStep(n)
      PROVE  UNCHANGED <<pending, call, req, target, result>>
  BY <1>1 DEF AgentStep, AgentReadLoop, Dial, AgentReadError, AgentRead,
              SendTelemetry, AgentCrash, ExpireToken
<1>2. ASSUME NEW j \in jobs, FinishJob(j)
      PROVE  UNCHANGED <<pending, call, req, target, result>>
  BY <1>2 DEF FinishJob
<1>3. ASSUME NEW c \in Conns, ReadPump(c)
      PROVE  UNCHANGED <<pending, call, req, target, result>>
  BY <1>3 DEF ReadPump, Register, EnrollDevice, Reject, HubReadError,
              ReadTelemetry, ReadResponse, HandOver
<1>4. ASSUME NEW c \in Conns, WritePump(c) \/ BreakLink(c)
      PROVE  UNCHANGED <<pending, call, req, target, result>>
  BY <1>4 DEF WritePump, WriteMessage, StopWriter, BreakLink
<1>5. CASE UNCHANGED vars
  BY <1>5 DEF vars
<1>6. QED
  BY <1>1, <1>2, <1>3, <1>4, <1>5 DEF Next

(* However a DispatchAction call ends, by its answer, its timer or a send  *)
(* on a closed channel, no pendingReqs entry points to it afterwards.      *)
THEOREM NoPendingLeak == Spec => []PendingInFlight
<1>1. Init => PendingInFlight
  BY DEF Init, PendingInFlight
<1>2. TypeOK /\ PendingInFlight /\ [Next]_vars => PendingInFlight'
  <2> SUFFICES ASSUME TypeOK, PendingInFlight, [Next]_vars
               PROVE  PendingInFlight'
    OBVIOUS
  <2> USE DEF PendingInFlight
  <2>0. /\ pending \in [ActionIDs -> Calls \cup {None}]
        /\ call \in [Calls -> {"idle", "found", "pending", "waiting", "returning", "done"}]
        /\ req \in [Calls -> ActionIDs \cup {None}]
        /\ None \notin Calls
        /\ \A k \in Calls : call[k] # "idle" => req[k] \in ActionIDs
    BY HubAssumption DEF TypeOK
  <2>1. ASSUME NEW k \in Calls, NEW a \in ActionIDs, Lookup(k, a)
        PROVE  PendingInFlight'
    <3>1. \A b \in ActionIDs : pending[b] # k
      BY <2>0, <2>1 DEF Lookup
    <3>2. \A j \in Calls : j # k => req'[j] = req[j] /\ call'[j] = call[j]
      BY <2>0, <2>1 DEF Lookup
    <3>3. pending' = pending
      BY <2>1 DEF Lookup
    <3>4. QED
      BY <2>0, <3>1, <3>2, <3>3
  <2>2. ASSUME NEW k \in Calls, AddPending(k) PROVE PendingInFlight'
    BY <2>0, <2>2 DEF AddPending
  <2>3. ASSUME NEW k \in Calls, Send(k) \/ Receive(k) \/ Timeout(k)
        PROVE  PendingInFlight'
    <3>1. UNCHANGED <<pending, req>>
      BY <2>3 DEF Send, Receive, Timeout
    <3>2. /\ call'[k] \in {"waiting", "returning"}
          /\ \A j \in Calls : j # k => call'[j] = call[j]
      BY <2>0, <2>3 DEF Send, Receive, Timeout
    <3>3. QED
      BY <2>0, <3>1, <3>2
  <2>4. ASSUME NEW k \in Calls, Return(k) PROVE PendingInFlight'
    BY <2>0, <2>4 DEF Return
  <2>5. CASE ~ \E k \in Calls : DispatchAction(k) \/ \E a \in ActionIDs : Lookup(k, a)
    BY <2>5, OthersKeepCalls
  <2> HIDE DEF PendingInFlight
  <2>6. QED
    BY <2>1, <2>2, <2>3, <2>4, <2>5 DEF DispatchAction
<1>3. QED
  BY <1>1, <1>2, TypeCorrect, PTL DEF Spec

-----------------------------------------------------------------------------
(* The responses that may reach a call: of commands carried out, for the   *)
(* action id of the call.                                                  *)
AnswersTo(k) == {r \in executed : r.act = req[k]}

(* AnswerIsReal, for every place a response passes through.                *)
AnswersReal ==
  /\ inbox \in [Conns -> Seq(Signals \cup executed)]
  /\ \A c \in Conns : reader[c] = "handing" =>
       /\ handing[c].resp \in AnswersTo(handing[c].to)
       /\ call[handing[c].to] # "idle"
  /\ \A k \in Calls :
       /\ respChan[k] \in Seq(AnswersTo(k))
       /\ call[k] = "idle" => respChan[k] = <<>>
       /\ result[k] \in Responses => result[k] \in AnswersTo(k) /\ call[k] # "idle"

LEMMA ErrorIsNoResponse == \A t : Error(t) \notin Responses
<1>1. SUFFICES ASSUME NEW t, Error(t) \in Responses PROVE FALSE
  OBVIOUS
<1>2. DOMAIN Error(t) = {"type"}
  BY DEF Error
<1>3. "act" \in DOMAIN Error(t)
  BY <1>1 DEF Responses
<1>4. QED
  BY <1>2, <1>3

LEMMA SeqGrows ==
  ASSUME NEW S, NEW T, S \subseteq T, NEW s \in Seq(S)
  PROVE  s \in Seq(T)
  OBVIOUS

LEMMA AnswersRealStep ==
  TypeOK /\ PendingInFlight /\ AnswersReal /\ [Next]_vars => AnswersReal'
<1> SUFFICES ASSUME TypeOK, PendingInFlight, AnswersReal, [Next]_vars
             PROVE  AnswersReal'
  OBVIOUS
<1> USE DEF connVars, agentVars, pumpVars, hubVars, callVars
<1>0. /\ inbox \in [Conns -> Seq(Signals \cup Responses)]
      /\ executed \subseteq Responses
      /\ jobs \subseteq [conn : Conns, cmd : Commands]
      /\ reader \in [Conns -> {"idle", "reading", "enrolling", "handing", "done"}]
      /\ handing \in [Conns -> Delivery \cup {None}]
      /\ call \in [Calls -> {"idle", "found", "pending", "waiting", "returning", "done"}]
      /\ req \in [Calls -> ActionIDs \cup {None}]
      /\ respChan \in [Calls -> Seq(Responses)]
      /\ result \in [Calls -> Responses \cup Errors \cup {None}]
      /\ agentConn \in [Nodes -> Conns \cup {None}]
      /\ pending \in [ActionIDs -> Calls \cup {None}]
      /\ None \notin Responses
      /\ \A c \in Conns : reader[c] = "handing" => handing[c] \in Delivery
  BY HubAssumption DEF TypeOK
<1> DEFINE frame == <<executed, reader, handing, call, req, respChan, result>>
(* Steps that only take messages off the wire, or put telemetry on it.     *)
<1>1. ASSUME UNCHANGED frame, inbox' \in [Conns -> Seq(Signals \cup executed)]
      PROVE  AnswersReal'
  BY <1>1 DEF AnswersReal, AnswersTo
<1>2. ASSUME NEW n \in Nodes, NEW c \in Conns, Dial(n, c) PROVE AnswersReal'
  <2>1. <<Signal("enroll")>> \in Seq(Signals \cup executed)
    BY DEF Signals
  <2>2. inbox' \in [Conns -> Seq(Signals \cup executed)]
    BY <1>0, <1>2, <2>1 DEF Dial, AnswersReal
  <2>3. \A d \in Conns : reader'[d] = "handing" => reader[d] = "handing"
    BY <1>0, <1>2 DEF Dial
  <2>4. UNCHANGED <<executed, handing, call, req, respChan, result>>
    BY <1>2 DEF Dial
  <2>5. QED
    BY <2>2, <2>3, <2>4 DEF AnswersReal, AnswersTo
<1>3. ASSUME NEW n \in Nodes, NEW t \in {"heartbeat", "telemetry"},
             SendTelemetry(n, t)
      PROVE  AnswersReal'
  <2>1. agentConn[n] \in Conns /\ Signal(t) \in Signals \cup executed
    BY <1>0, <1>3 DEF SendTelemetry, Signals
  <2>2. Append(inbox[agentConn[n]], Signal(t)) \in Seq(Signals \cup executed)
    BY <2>1, AppendTyped DEF AnswersReal
  <2>3. inbox' = [inbox EXCEPT ![agentConn[n]] = Append(@, Signal(t))]
    BY <1>3 DEF SendTelemetry
  <2>4. inbox' \in [Conns -> Seq(Signals \cup executed)]
    BY <2>1, <2>2, <2>3 DEF AnswersReal
  <2>5. QED
    BY <1>1, <1>3, <2>4 DEF SendTelemetry
<1>4. ASSUME NEW c \in Conns, BreakLink(c) PROVE AnswersReal'
  <2>1. PICK i \in 0 .. Len(inbox[c]) :
          inbox' = [inbox EXCEPT ![c] = SubSeq(@, 1, i)]
    BY <1>4 DEF BreakLink
  <2>2. SubSeq(inbox[c], 1, i) \in Seq(Signals \cup executed)
    BY PrefixTyped DEF AnswersReal
  <2>3. inbox' \in [Conns -> Seq(Signals \cup executed)]
    BY <2>1, <2>2 DEF AnswersReal
  <2>4. QED
    BY <1>1, <1>4, <2>3 DEF BreakLink
<1>5. ASSUME NEW n \in Nodes,
             AgentReadError(n) \/ AgentCrash(n) \/ AgentRead(n) \/ ExpireToken(n)
      PROVE  AnswersReal'
  BY <1>1, <1>5 DEF AgentReadError, AgentCrash, AgentRead, ExpireToken, AnswersReal
<1>6. ASSUME NEW j \in jobs, FinishJob(j) PROVE AnswersReal'
  <2> DEFINE resp == [type |-> "action_response", call |-> j.cmd.call,
                      act |-> j.cmd.act]
  <2>1. resp \in executed' /\ executed \subseteq executed'
    BY <1>6 DEF FinishJob
  <2>2. inbox' = inbox \/ inbox' = [inbox EXCEPT ![j.conn] = Append(@, resp)]
    BY <1>6 DEF FinishJob
  <2>3. j.conn \in Conns
    BY <1>0
  <2> HIDE DEF resp
  <2>4. inbox \in [Conns -> Seq(Signals \cup executed')]
    BY <2>1, SeqGrows DEF AnswersReal
  <2>5. Append(inbox[j.conn], resp) \in Seq(Signals \cup executed')
    BY <2>1, <2>3, <2>4, AppendTyped
  <2>6. inbox' \in [Conns -> Seq(Signals \cup executed')]
    BY <2>2, <2>3, <2>4, <2>5
  <2>7. UNCHANGED <<reader, handing, call, req, respChan, result>>
    BY <1>6 DEF FinishJob
  <2>8. \A k \in Calls : AnswersTo(k) \subseteq AnswersTo(k)'
    BY <2>1, <2>7 DEF AnswersTo
  <2>9. \A c \in Conns : reader[c] = "handing" => handing[c].to \in Calls
    BY <1>0 DEF Delivery
  <2>10. \A k \in Calls : respChan[k] \in Seq(AnswersTo(k)')
    BY <2>8, SeqGrows DEF AnswersReal
  <2>11. QED
    BY <2>6, <2>7, <2>8, <2>9, <2>10 DEF AnswersReal
<1>7. ASSUME NEW c \in Conns, Register(c) \/ EnrollDevice(c) \/ ReadTelemetry(c)
      PROVE  AnswersReal'
  <2>1. inbox[c] # <<>> => Tail(inbox[c]) \in Seq(Signals \cup executed)
    BY HeadTailTyped DEF AnswersReal
  <2>2. inbox' \in [Conns -> Seq(Signals \cup executed)]
    BY <1>7, <2>1 DEF Register, EnrollDevice, ReadTelemetry, AnswersReal
  <2>3. \A d \in Conns : reader'[d] = "handing" => reader[d] = "handing"
    BY <1>0, <1>7 DEF Register, EnrollDevice, ReadTelemetry
  <2>4. UNCHANGED <<executed, handing, call, req, respChan, result>>
    BY <1>7 DEF Register, EnrollDevice, ReadTelemetry
  <2>5. QED
    BY <2>2, <2>3, <2>4 DEF AnswersReal, AnswersTo
<1>8. ASSUME NEW c \in Conns, Reject(c) \/ HubReadError(c) PROVE AnswersReal'
  <2>1. Unregister(c)
    BY <1>8 DEF Reject, HubReadError
  <2>2. inbox' \in [Conns -> Seq(Signals \cup executed)]
    BY <2>1 DEF Unregister, AnswersReal
  <2>3. \A d \in Conns : reader'[d] = "handing" => reader[d] = "handing"
    BY <1>0, <2>1 DEF Unregister
  <2>4. UNCHANGED <<executed, handing, call, req, respChan, result>>
    BY <1>8 DEF Reject, HubReadError
  <2>5. QED
    BY <2>2, <2>3, <2>4 DEF AnswersReal, AnswersTo
<1>9. ASSUME NEW c \in Conns, ReadResponse(c) PROVE AnswersReal'
  <2> DEFINE resp == Head(inbox[c])
  <2>1. /\ inbox[c] # <<>> /\ resp.type = "action_response"
        /\ inbox' = [inbox EXCEPT ![c] = Tail(@)]
        /\ UNCHANGED <<executed, call, req, respChan, result>>
    BY <1>9 DEF ReadResponse
  <2>2. inbox[c] \in Seq(Signals \cup executed)
    BY DEF AnswersReal
  <2>3. resp \in Signals \cup executed /\ Tail(inbox[c]) \in Seq(Signals \cup executed)
    BY <2>1, <2>2, HeadTailTyped
  <2>4. resp \in executed /\ resp \in Responses
    BY <1>0, <2>1, <2>3, ResponseByType DEF Signals, Signal
  <2>5. inbox' \in [Conns -> Seq(Signals \cup executed)]
    BY <2>1, <2>3 DEF AnswersReal
  <2>6. CASE UNCHANGED <<reader, handing>>
    BY <1>1, <2>1, <2>5, <2>6
  <2>7. CASE /\ pending[resp.act] # None
             /\ handing' = [handing EXCEPT ![c] = [to |-> pending[resp.act], resp |-> resp]]
             /\ reader' = [reader EXCEPT ![c] = "handing"]
    <3>1. resp.act \in ActionIDs
      BY <2>4 DEF Responses
    <3> HIDE DEF resp
    <3>2. req[pending[resp.act]] = resp.act /\ call[pending[resp.act]] # "idle"
      BY <2>7, <3>1 DEF PendingInFlight
    <3>3. /\ handing'[c].resp = resp /\ handing'[c].to = pending[resp.act]
          /\ \A d \in Conns : d # c => /\ handing'[d] = handing[d]
                                       /\ reader'[d] = reader[d]
      BY <1>0, <2>7
    <3>4. resp \in AnswersTo(pending[resp.act])
      BY <2>4, <3>2 DEF AnswersTo
    <3>5. \A d \in Conns : reader'[d] = "handing" =>
            /\ handing'[d].resp \in AnswersTo(handing'[d].to)
            /\ call[handing'[d].to] # "idle"
      BY <3>2, <3>3, <3>4 DEF AnswersReal
    <3>6. QED
      BY <2>1, <2>5, <3>5 DEF AnswersReal, AnswersTo
  <2>8. QED
    BY <1>9, <2>6, <2>7 DEF ReadResponse
<1>10. ASSUME NEW c \in Conns, HandOver(c) PROVE AnswersReal'
  <2> DEFINE k == handing[c].to
  <2> DEFINE r == handing[c].resp
  <2>1. k \in Calls /\ r \in AnswersTo(k) /\ call[k] # "idle"
    BY <1>0, <1>10 DEF HandOver, Delivery, AnswersReal
  <2>2. /\ respChan' = [respChan EXCEPT ![k] = Append(@, r)]
        /\ UNCHANGED <<inbox, executed, call, req, result>>
        /\ reader' = [reader EXCEPT ![c] = "reading"]
        /\ handing' = [handing EXCEPT ![c] = None]
    BY <1>10 DEF HandOver
  <2>3. \A d \in Conns : reader'[d] = "handing" => reader[d] = "handing" /\ handing'[d] = handing[d]
    BY <1>0, <2>2
  <2> HIDE DEF k, r
  <2>4. Append(respChan[k], r) \in Seq(AnswersTo(k))
    BY <2>1, AppendTyped DEF AnswersReal
  <2>5. \A j \in Calls : respChan'[j] = IF j = k THEN Append(respChan[k], r) ELSE respChan[j]
    BY <1>0, <2>1, <2>2
  <2>6. \A j \in Calls : /\ respChan'[j] \in Seq(AnswersTo(j))
                         /\ call[j] = "idle" => respChan'[j] = <<>>
    BY <2>1, <2>4, <2>5 DEF AnswersReal
  <2>7. \A d \in Conns : reader'[d] = "handing" =>
          /\ handing'[d].resp \in AnswersTo(handing'[d].to)
          /\ call[handing'[d].to] # "idle"
    BY <2>3 DEF AnswersReal
  <2>8. \A j \in Calls :
          result[j] \in Responses => result[j] \in AnswersTo(j) /\ call[j] # "idle"
    BY DEF AnswersReal
  <2>9. inbox' \in [Conns -> Seq(Signals \cup executed)]
    BY <2>2 DEF AnswersReal
  <2>10. UNCHANGED <<executed, call, req, result>>
    BY <2>2
  <2>11. QED
    BY <2>6, <2>7, <2>8, <2>9, <2>10 DEF AnswersReal, AnswersTo
<1>11. ASSUME NEW c \in Conns, WritePump(c) PROVE AnswersReal'
  BY <1>1, <1>11 DEF WritePump, WriteMessage, StopWriter, AnswersReal
<1>12. ASSUME NEW k \in Calls, NEW a \in ActionIDs, Lookup(k, a) PROVE AnswersReal'
  <2>1. /\ call[k] = "idle" /\ respChan[k] = <<>> /\ result[k] \notin Responses
        /\ req' = [req EXCEPT ![k] = a]
        /\ UNCHANGED <<inbox, executed, reader, handing, respChan>>
    BY <1>12 DEF Lookup, AnswersReal
  <2>2. /\ result'[k] \notin Responses
        /\ \A j \in Calls : j # k => result'[j] = result[j]
    <3>1. result' = result \/ result' = [result EXCEPT ![k] = Error("not connected")]
      BY <1>12 DEF Lookup
    <3>2. Error("not connected") \notin Responses
      BY ErrorIsNoResponse
    <3>3. DOMAIN result = Calls
      BY <1>0
    <3>4. QED
      BY <2>1, <3>1, <3>2, <3>3
  <2>3. /\ call'[k] # "idle"
        /\ \A j \in Calls : j # k => call'[j] = call[j]
    BY <1>0, <1>12 DEF Lookup
  <2>4. \A j \in Calls : j # k => AnswersTo(j)' = AnswersTo(j)
    BY <1>0, <2>1 DEF AnswersTo
  <2>5. \A c \in Conns : reader[c] = "handing" => handing[c].to \in Calls /\ handing[c].to # k
    BY <1>0, <2>1 DEF Delivery, AnswersReal
  <2>6. respChan[k] \in Seq(AnswersTo(k)')
    BY <2>1
  <2>7. QED
    BY <2>1, <2>2, <2>3, <2>4, <2>5, <2>6 DEF AnswersReal
<1>13. ASSUME NEW k \in Calls,
              AddPending(k) \/ Send(k) \/ Timeout(k) \/ Return(k)
       PROVE  AnswersReal'
  <2>1. UNCHANGED <<inbox, executed, reader, handing, req, respChan>>
    BY <1>13 DEF AddPending, Send, Timeout, Return
  <2>2. \A j \in Calls : (call'[j] = "idle") = (call[j] = "idle")
    BY <1>0, <1>13 DEF AddPending, Send, Timeout, Return
  <2>3. \A j \in Calls : result'[j] \in Responses => result'[j] = result[j]
    BY <1>0, <1>13, ErrorIsNoResponse DEF AddPending, Send, Timeout, Return
  <2>4. \A c \in Conns : reader[c] = "handing" => handing[c].to \in Calls
    BY <1>0 DEF Delivery
  <2>5. QED
    BY <2>1, <2>2, <2>3, <2>4 DEF AnswersReal, AnswersTo
<1>14. ASSUME NEW k \in Calls, Receive(k) PROVE AnswersReal'
  <2>1. /\ respChan[k] # <<>> /\ call[k] = "waiting"
        /\ result' = [result EXCEPT ![k] = Head(respChan[k])]
        /\ respChan' = [respChan EXCEPT ![k] = Tail(@)]
        /\ call' = [call EXCEPT ![k] = "returning"]
        /\ UNCHANGED <<inbox, executed, reader, handing, req>>
    BY <1>14 DEF Receive
  <2>2. /\ Head(respChan[k]) \in AnswersTo(k)
        /\ Tail(respChan[k]) \in Seq(AnswersTo(k))
    BY <2>1, HeadTailTyped DEF AnswersReal
  <2>3. \A j \in Calls : (call'[j] = "idle") = (call[j] = "idle")
    BY <1>0, <2>1
  <2>4. \A j \in Calls : /\ respChan'[j] = IF j = k THEN Tail(respChan[k]) ELSE respChan[j]
                         /\ result'[j] = IF j = k THEN Head(respChan[k]) ELSE result[j]
    BY <1>0, <2>1
  <2>5. \A j \in Calls : AnswersTo(j)' = AnswersTo(j)
    BY <2>1 DEF AnswersTo
  <2>6. \A c \in Conns : reader[c] = "handing" => handing[c].to \in Calls
    BY <1>0 DEF Delivery
  <2>7. \A j \in Calls :
          /\ respChan'[j] \in Seq(AnswersTo(j))
          /\ call'[j] = "idle" => respChan'[j] = <<>>
          /\ result'[j] \in Responses => result'[j] \in AnswersTo(j) /\ call'[j] # "idle"
    BY <2>1, <2>2, <2>3, <2>4 DEF AnswersReal
  <2>8. QED
    BY <2>1, <2>3, <2>5, <2>6, <2>7 DEF AnswersReal
<1>15. CASE UNCHANGED vars
  BY <1>1, <1>15 DEF vars, AnswersReal
<1>16. QED
  BY <1>2, <1>3, <1>4, <1>5, <1>6, <1>7, <1>8, <1>9, <1>10, <1>11, <1>12, <1>13,
     <1>14, <1>15
  DEF Next, AgentStep, AgentReadLoop, ReadPump, DispatchAction

LEMMA AnswersRealAlways == Spec => []AnswersReal
<1>1. Init => AnswersReal
  <2>1. \A S : <<>> \in Seq(S)
    OBVIOUS
  <2>2. None \notin Responses
    BY HubAssumption
  <2>3. QED
    BY <2>1, <2>2 DEF Init, AnswersReal
<1>2. QED
  BY <1>1, TypeCorrect, NoPendingLeak, AnswersRealStep, PTL DEF Spec

(* No response is made up or crossed over on its way: what a DispatchAction *)
(* call returns is what an agent answered after it carried out a command   *)
(* with the action id of the call, whatever broke or timed out meanwhile.  *)
THEOREM NoInventedAnswer == Spec => []AnswerIsReal
<1>1. AnswersReal => AnswerIsReal
  BY DEF AnswersReal, AnswersTo, AnswerIsReal
<1>2. QED
  BY <1>1, AnswersRealAlways, PTL

-----------------------------------------------------------------------------
(* A call has returned nothing before it is about to return, and has not   *)
(* asked for anything before it looks its client up.                       *)
NoResultYet ==
  \A k \in Calls :
    /\ call[k] \in {"idle", "found", "pending", "waiting"} => result[k] = None
    /\ call[k] = "idle" => req[k] = None

LEMMA NoResultYetStep == TypeOK /\ NoResultYet /\ [Next]_vars => NoResultYet'
<1> SUFFICES ASSUME TypeOK, NoResultYet, [Next]_vars PROVE NoResultYet'
  OBVIOUS
<1> USE DEF NoResultYet
<1>0. /\ call \in [Calls -> {"idle", "found", "pending", "waiting", "returning", "done"}]
      /\ req \in [Calls -> ActionIDs \cup {None}]
      /\ result \in [Calls -> Responses \cup Errors \cup {None}]
  BY DEF TypeOK
<1>1. ASSUME NEW k \in Calls, NEW a \in ActionIDs, Lookup(k, a) PROVE NoResultYet'
  <2>1. /\ call[k] = "idle"
        /\ \A j \in Calls : j # k => /\ call'[j] = call[j] /\ req'[j] = req[j]
                                     /\ result'[j] = result[j]
    BY <1>0, <1>1 DEF Lookup
  <2>2. \/ call'[k] = "done"
        \/ call'[k] = "found" /\ result'[k] = result[k]
    BY <1>0, <1>1 DEF Lookup
  <2>3. QED
    BY <2>1, <2>2
<1>2. ASSUME NEW k \in Calls, DispatchAction(k) PROVE NoResultYet'
  <2>1. /\ call[k] # "idle" /\ req' = req
        /\ \A j \in Calls : j # k => call'[j] = call[j] /\ result'[j] = result[j]
    BY <1>0, <1>2 DEF DispatchAction, AddPending, Send, Receive, Timeout, Return, callVars
  <2>2. \/ call'[k] \in {"returning", "done"}
        \/ /\ call[k] \in {"found", "pending"} /\ call'[k] \in {"pending", "waiting"}
           /\ result'[k] = result[k]
    BY <1>0, <1>2 DEF DispatchAction, AddPending, Send, Receive, Timeout, Return
  <2>3. QED
    BY <2>1, <2>2
<1>3. CASE ~ \E k \in Calls : DispatchAction(k) \/ \E a \in ActionIDs : Lookup(k, a)
  BY <1>3, OthersKeepCalls
<1>4. QED
  BY <1>1, <1>2, <1>3

LEMMA NoResultYetAlways == Spec => []NoResultYet
<1>1. Init => NoResultYet
  BY DEF Init, NoResultYet
<1>2. QED
  BY <1>1, TypeCorrect, NoResultYetStep, PTL DEF Spec

(* Neither an answer nor the timer is a refusal.                           *)
LEMMA RefusalsApart ==
  /\ Remote!Refusals \cap Responses = {}
  /\ Remote!Failure("timeout") \notin Remote!Refusals
  /\ None \notin Remote!Refusals
<1>1. \A t : Remote!Failure(t) = Error(t)
  BY DEF Remote!Failure, Error
<1>2. Remote!Refusals \subseteq Errors
  BY <1>1 DEF Remote!Refusals, Errors
<1>3. QED
  <2>1. Remote!Refusals \cap Responses = {}
    BY <1>1, ErrorIsNoResponse DEF Remote!Refusals
  <2>2. Remote!Failure("timeout") \notin Remote!Refusals
    BY DEF Remote!Failure, Remote!Refusals
  <2>3. None \notin Remote!Refusals
    BY <1>2, HubAssumption
  <2>4. QED
    BY <2>1, <2>2, <2>3

(* The commands that calls have sent.                                      *)
Sent == {m \in Commands : /\ call[m.call] \in {"waiting", "returning", "done"}
                          /\ req[m.call] = m.act
                          /\ result[m.call] \notin Remote!Refusals}

(* Nothing else is on its way to an agent, run by it, or reported back.    *)
OnlySent ==
  /\ sendChan \in [Conns -> Seq(Sent)] /\ outbox \in [Conns -> Seq(Sent)]
  /\ \A j \in jobs : j.cmd \in Sent
  /\ \A r \in executed : [call |-> r.call, act |-> r.act] \in Sent

LEMMA SentGrows == TypeOK /\ [Next]_vars => Sent \subseteq Sent'
<1> SUFFICES ASSUME TypeOK, [Next]_vars PROVE Sent \subseteq Sent'
  OBVIOUS
<1> USE DEF connVars, agentVars, pumpVars, hubVars, callVars
<1>0. /\ call \in [Calls -> {"idle", "found", "pending", "waiting", "returning", "done"}]
      /\ req \in [Calls -> ActionIDs \cup {None}]
      /\ result \in [Calls -> Responses \cup Errors \cup {None}]
      /\ respChan \in [Calls -> Seq(Responses)]
  BY DEF TypeOK
<1>1. ASSUME NEW k \in Calls, NEW a \in ActionIDs, Lookup(k, a)
      PROVE  Sent \subseteq Sent'
  <2>1. \A j \in Calls : j # k => call'[j] = call[j] /\ req'[j] = req[j] /\ result'[j] = result[j]
    BY <1>0, <1>1 DEF Lookup
  <2>2. call[k] = "idle"
    BY <1>1 DEF Lookup
  <2>3. QED
    BY <2>1, <2>2 DEF Sent, Commands
<1>2. ASSUME NEW k \in Calls, DispatchAction(k) PROVE Sent \subseteq Sent'
  <2>1. /\ \A j \in Calls : j # k => call'[j] = call[j] /\ result'[j] = result[j]
        /\ req' = req
        /\ call[k] \in {"waiting", "returning", "done"}
             => call'[k] \in {"waiting", "returning", "done"}
    BY <1>0, <1>2 DEF DispatchAction, AddPending, Send, Receive, Timeout, Return
  <2>2. call[k] \in {"waiting", "returning", "done"} /\ result[k] \notin Remote!Refusals
          => result'[k] \notin Remote!Refusals
    <3>1. CASE Receive(k)
      <4>1. result'[k] = Head(respChan[k]) /\ Head(respChan[k]) \in Responses
        BY <1>0, <3>1, HeadTailTyped DEF Receive
      <4>2. QED
        BY <4>1, RefusalsApart
    <3>2. CASE Timeout(k)
      BY <1>0, <3>2, RefusalsApart DEF Timeout, Error, Remote!Failure
    <3>3. CASE AddPending(k) \/ Send(k) \/ Return(k)
      BY <3>3 DEF AddPending, Send, Return
    <3>4. QED
      BY <1>2, <3>1, <3>2, <3>3 DEF DispatchAction
  <2>3. QED
    BY <2>1, <2>2 DEF Sent, Commands
<1>3. CASE ~ \E k \in Calls : DispatchAction(k) \/ \E a \in ActionIDs : Lookup(k, a)
  BY <1>3, OthersKeepCalls DEF Sent
<1>4. QED
  BY <1>1, <1>2, <1>3

(* The steps that touch the commands under way or carried out.             *)
CommandStep ==
  \/ \E n \in Nodes : AgentRead(n) \/ AgentCrash(n)
  \/ \E j \in jobs : FinishJob(j)
  \/ \E c \in Conns : BreakLink(c) \/ WriteMessage(c)
  \/ \E k \in Calls : Send(k)

LEMMA OthersKeepCommands ==
  [Next]_vars => CommandStep \/ UNCHANGED <<sendChan, outbox, jobs, executed>>
<1> SUFFICES ASSUME [Next]_vars, ~CommandStep
             PROVE  UNCHANGED <<sendChan, outbox, jobs, executed>>
  OBVIOUS
<1> USE DEF connVars, agentVars, pumpVars, hubVars, callVars
<1>1. ASSUME NEW n \in Nodes,
             \/ \E c \in Conns : Dial(n, c)
             \/ AgentReadError(n) \/ ExpireToken(n)
             \/ \E t \in {"heartbeat", "telemetry"} : SendTelemetry(n, t)
      PROVE  UNCHANGED <<sendChan, outbox, jobs, executed>>
  BY <1>1 DEF Dial, AgentReadError, ExpireToken, SendTelemetry
<1>2. ASSUME NEW c \in Conns, ReadPump(c) \/ StopWriter(c)
      PROVE  UNCHANGED <<sendChan, outbox, jobs, executed>>
  BY <1>2 DEF ReadPump, Register, EnrollDevice, Reject, HubReadError, ReadTelemetry,
              ReadResponse, HandOver, StopWriter
<1>3. ASSUME NEW k \in Calls,
             \/ AddPending(k) \/ Receive(k) \/ Timeout(k) \/ Return(k)
             \/ \E a \in ActionIDs : Lookup(k, a)
      PROVE  UNCHANGED <<sendChan, outbox, jobs, executed>>
  BY <1>3 DEF AddPending, Receive, Timeout, Return, Lookup
<1>4. CASE UNCHANGED vars
  BY <1>4 DEF vars
<1>5. QED
  BY <1>1, <1>2, <1>3, <1>4
  DEF Next, CommandStep, AgentStep, AgentReadLoop, WritePump, DispatchAction

LEMMA OnlySentStep == TypeOK /\ NoResultYet /\ OnlySent /\ [Next]_vars => OnlySent'
<1> SUFFICES ASSUME TypeOK, NoResultYet, OnlySent, [Next]_vars PROVE OnlySent'
  OBVIOUS
<1> USE DEF connVars, agentVars, pumpVars, hubVars, callVars
<1>1. Sent \subseteq Sent'
  BY SentGrows
<1>2. /\ sendChan \in [Conns -> Seq(Sent')] /\ outbox \in [Conns -> Seq(Sent')]
      /\ \A j \in jobs : j.cmd \in Sent'
      /\ \A r \in executed : [call |-> r.call, act |-> r.act] \in Sent'
  BY <1>1, SeqGrows DEF OnlySent
<1>3. /\ agentConn \in [Nodes -> Conns \cup {None}]
      /\ jobs \subseteq [conn : Conns, cmd : Commands]
      /\ call \in [Calls -> {"idle", "found", "pending", "waiting", "returning", "done"}]
      /\ req \in [Calls -> ActionIDs \cup {None}]
      /\ \A k \in Calls : /\ call[k] # "idle" => req[k] \in ActionIDs
                          /\ call[k] \in {"found", "pending"} => target[k] \in Conns
  BY DEF TypeOK
<1> HIDE DEF Sent
<1>4. ASSUME NEW n \in Nodes, AgentRead(n) PROVE OnlySent'
  <2> DEFINE c == agentConn[n]
  <2>1. /\ c \in Conns /\ outbox[c] # <<>>
        /\ jobs' = jobs \cup {[conn |-> c, cmd |-> Head(outbox[c])]}
        /\ outbox' = [outbox EXCEPT ![c] = Tail(@)]
        /\ UNCHANGED <<sendChan, executed>>
    BY <1>3, <1>4 DEF AgentRead
  <2> HIDE DEF c
  <2>2. Head(outbox[c]) \in Sent' /\ Tail(outbox[c]) \in Seq(Sent')
    BY <1>2, <2>1, HeadTailTyped
  <2>3. QED
    BY <1>2, <2>1, <2>2 DEF OnlySent
<1>5. ASSUME NEW j \in jobs, FinishJob(j) PROVE OnlySent'
  <2>1. executed' = executed \cup {[type |-> "action_response", call |-> j.cmd.call,
                                    act |-> j.cmd.act]}
    BY <1>5 DEF FinishJob
  <2>2. j.cmd = [call |-> j.cmd.call, act |-> j.cmd.act]
    BY <1>3 DEF Commands
  <2>3. jobs' \subseteq jobs /\ UNCHANGED <<sendChan, outbox>>
    BY <1>5 DEF FinishJob
  <2>4. QED
    BY <1>2, <2>1, <2>2, <2>3 DEF OnlySent
<1>6. ASSUME NEW c \in Conns, BreakLink(c) PROVE OnlySent'
  <2>1. PICK i \in 0 .. Len(outbox[c]) : outbox' = [outbox EXCEPT ![c] = SubSeq(@, 1, i)]
    BY <1>6 DEF BreakLink
  <2>2. SubSeq(outbox[c], 1, i) \in Seq(Sent')
    BY <1>2, PrefixTyped
  <2>3. UNCHANGED <<sendChan, jobs, executed>>
    BY <1>6 DEF BreakLink
  <2>4. QED
    BY <1>2, <2>1, <2>2, <2>3 DEF OnlySent
<1>7. ASSUME NEW c \in Conns, WriteMessage(c) PROVE OnlySent'
  <2>1. /\ sendChan[c] # <<>>
        /\ sendChan' = [sendChan EXCEPT ![c] = Tail(@)]
        /\ UNCHANGED <<jobs, executed>>
        /\ \/ outbox' = [outbox EXCEPT ![c] = Append(@, Head(sendChan[c]))]
           \/ outbox' = outbox
    BY <1>7 DEF WriteMessage
  <2>2. Head(sendChan[c]) \in Sent' /\ Tail(sendChan[c]) \in Seq(Sent')
    BY <1>2, <2>1, HeadTailTyped
  <2>3. Append(outbox[c], Head(sendChan[c])) \in Seq(Sent')
    BY <1>2, <2>2, AppendTyped
  <2>4. QED
    BY <1>2, <2>1, <2>2, <2>3 DEF OnlySent
<1>8. ASSUME NEW k \in Calls, Send(k) PROVE OnlySent'
  <2>1. UNCHANGED <<outbox, jobs, executed>>
    BY <1>8 DEF Send
  <2>2. CASE sendChan' = sendChan
    BY <1>2, <2>1, <2>2 DEF OnlySent
  <2>3. CASE /\ call' = [call EXCEPT ![k] = "waiting"]
             /\ sendChan' = [sendChan EXCEPT ![target[k]] =
                               Append(@, [call |-> k, act |-> req[k]])]
    <3>1. call[k] = "pending" /\ req' = req
      BY <1>8 DEF Send
    <3>2. /\ target[k] \in Conns /\ req[k] \in ActionIDs
          /\ call'[k] = "waiting"
      BY <1>3, <2>3, <3>1
    <3>3. [call |-> k, act |-> req[k]] \in Sent'
      <4>1. result'[k] = None
        BY <1>8, <2>3, <3>1, <3>2 DEF Send, NoResultYet
      <4>2. QED
        BY <3>1, <3>2, <4>1, RefusalsApart DEF Sent, Commands
    <3> DEFINE cmd == [call |-> k, act |-> req[k]]
    <3> HIDE DEF cmd
    <3>4. Append(sendChan[target[k]], cmd) \in Seq(Sent')
      BY <1>2, <3>2, <3>3, AppendTyped DEF cmd
    <3>5. sendChan' = [sendChan EXCEPT ![target[k]] = Append(@, cmd)]
      BY <2>3 DEF cmd
    <3>6. QED
      BY <1>2, <2>1, <3>2, <3>4, <3>5 DEF OnlySent
  <2>4. QED
    BY <1>8, <2>2, <2>3 DEF Send
<1>9. ASSUME NEW n \in Nodes, AgentCrash(n) PROVE OnlySent'
  <2>1. <<>> \in Seq(Sent')
    OBVIOUS
  <2>2. /\ outbox' = [outbox EXCEPT ![agentConn[n]] = <<>>]
        /\ jobs' \subseteq jobs
        /\ UNCHANGED <<sendChan, executed>>
    BY <1>9 DEF AgentCrash
  <2>3. QED
    BY <1>2, <2>1, <2>2 DEF OnlySent
<1>10. CASE UNCHANGED <<sendChan, outbox, jobs, executed>>
  BY <1>2, <1>10 DEF OnlySent
<1>11. QED
  BY <1>4, <1>5, <1>6, <1>7, <1>8, <1>9, <1>10, OthersKeepCommands DEF CommandStep

-----------------------------------------------------------------------------
(* A message of call k is in queue q, and in it only once.                 *)
IsOf(m, k) == m \notin Signals /\ m.call = k
Carries(q, k) == \E i \in 1 .. Len(q) : IsOf(q[i], k)
Once(q, k) == \A i, j \in 1 .. Len(q) : IsOf(q[i], k) /\ IsOf(q[j], k) => i = j

(* Where the command of call k or its response can be.                     *)
Queued(kind, f, k) == {<<kind, x>> : x \in {y \in DOMAIN f : Carries(f[y], k)}}
Running(k) == {<<"job", j>> : j \in {i \in jobs : i.cmd.call = k}}
Handed(k) == {<<"handing", c>> :
                c \in {d \in Conns : reader[d] = "handing" /\ handing[d].resp.call = k}}

Places(k) ==
  Queued("sendChan", sendChan, k) \cup Queued("outbox", outbox, k) \cup Running(k) \cup
  Queued("inbox", inbox, k) \cup Handed(k) \cup Queued("respChan", respChan, k)

(* A call sends one command, and whatever is left of it, the command or    *)
(* its response, is at one place.                                          *)
OneToken ==
  \A k \in Calls :
    /\ \A p, q \in Places(k) : p = q
    /\ \A c \in Conns : Once(sendChan[c], k) /\ Once(outbox[c], k) /\ Once(inbox[c], k)

LEMMA CarriedTail ==
  ASSUME NEW S, NEW q \in Seq(S), q # <<>>, NEW k
  PROVE  /\ Carries(Tail(q), k) => Carries(q, k)
         /\ IsOf(Head(q), k) => Carries(q, k)
         /\ Once(q, k) => Once(Tail(q), k)
         /\ Once(q, k) /\ IsOf(Head(q), k) => ~Carries(Tail(q), k)
<1>1. /\ Len(Tail(q)) = Len(q) - 1 /\ Len(q) \in Nat \ {0}
      /\ Head(q) = q[1]
      /\ \A i \in 1 .. Len(Tail(q)) : Tail(q)[i] = q[i + 1]
  OBVIOUS
<1>2. QED
  BY <1>1 DEF Carries, Once

LEMMA CarriedAppend ==
  ASSUME NEW S, NEW q \in Seq(S), NEW m \in S, NEW k
  PROVE  /\ Carries(Append(q, m), k) => Carries(q, k) \/ IsOf(m, k)
         /\ Once(q, k) /\ ~(Carries(q, k) /\ IsOf(m, k)) => Once(Append(q, m), k)
<1>1. /\ Len(Append(q, m)) = Len(q) + 1 /\ Len(q) \in Nat
      /\ \A i \in 1 .. Len(q) : Append(q, m)[i] = q[i]
      /\ Append(q, m)[Len(q) + 1] = m
  OBVIOUS
<1>2. QED
  BY <1>1 DEF Carries, Once

LEMMA CarriedPrefix ==
  ASSUME NEW S, NEW q \in Seq(S), NEW n \in 0 .. Len(q), NEW k
  PROVE  /\ Carries(SubSeq(q, 1, n), k) => Carries(q, k)
         /\ Once(q, k) => Once(SubSeq(q, 1, n), k)
<1>1. /\ Len(SubSeq(q, 1, n)) = n /\ Len(q) \in Nat
      /\ \A i \in 1 .. n : SubSeq(q, 1, n)[i] = q[i]
  OBVIOUS
<1>2. QED
  BY <1>1 DEF Carries, Once

LEMMA CarriedNone ==
  ASSUME NEW k
  PROVE  ~Carries(<<>>, k) /\ Once(<<>>, k)
  BY DEF Carries, Once

LEMMA SignalOfNone ==
  ASSUME NEW t \in {"enroll", "heartbeat", "telemetry"}, NEW k
  PROVE  ~IsOf(Signal(t), k) /\ ~Carries(<<Signal(t)>>, k) /\ Once(<<Signal(t)>>, k)
  BY DEF IsOf, Signals, Carries, Once

LEMMA CommandsAreNoSignals ==
  ASSUME NEW m \in Commands \cup Responses
  PROVE  m \notin Signals
<1>1. "act" \in DOMAIN m
  BY DEF Commands, Responses
<1>2. \A s \in Signals : "act" \notin DOMAIN s
  BY DEF Signals, Signal
<1>3. QED
  BY <1>1, <1>2

LEMMA QueuedAt ==
  ASSUME NEW kind, NEW D, NEW T, NEW f \in [D -> T], NEW x \in D, NEW k, Carries(f[x], k)
  PROVE  <<kind, x>> \in Queued(kind, f, k)
  BY DEF Queued

(* Tells the six kinds of places apart.                                    *)
LEMMA KindOf ==
  ASSUME NEW k
  PROVE  /\ \A kind, f : \A p \in Queued(kind, f, k) : p[1] = kind
         /\ \A p \in Running(k) : p[1] = "job"
         /\ \A p \in Handed(k) : p[1] = "handing"
  BY DEF Queued, Running, Handed

LEMMA TokenMoves ==
  ASSUME NEW S, \A p, q \in S : p = q, NEW a \in S, NEW b, NEW T,
         T \subseteq (S \ {a}) \cup {b}
  PROVE  \A p, q \in T : p = q
  OBVIOUS

(* A step that leaves the variables of a place alone leaves the place.     *)
LEMMA PlacesStay ==
  ASSUME NEW k
  PROVE  /\ UNCHANGED jobs => Running(k)' = Running(k)
         /\ UNCHANGED <<reader, handing>> => Handed(k)' = Handed(k)
  BY DEF Running, Handed

LEMMA OneTokenInit == Init => OneToken
  BY CarriedNone DEF Init, OneToken, Places, Queued, Running, Handed

(* The steps of the agents that take a command on or answer it.           *)
LEMMA OneTokenAgent ==
  ASSUME TypeOK, OneToken,
         \/ \E n \in Nodes : AgentRead(n) \/ AgentCrash(n)
         \/ \E j \in jobs : FinishJob(j)
  PROVE  OneToken'
<1> USE DEF connVars, agentVars, pumpVars, hubVars, callVars
<1>0. /\ inbox \in [Conns -> Seq(Signals \cup Responses)]
      /\ outbox \in [Conns -> Seq(Commands)]
      /\ agentConn \in [Nodes -> Conns \cup {None}]
      /\ jobs \subseteq [conn : Conns, cmd : Commands]
  BY DEF TypeOK
<1>1. ASSUME NEW n \in Nodes, AgentRead(n) PROVE OneToken'
  <2> DEFINE c == agentConn[n]
  <2> DEFINE m == Head(outbox[c])
  <2> DEFINE b == <<"job", [conn |-> c, cmd |-> m]>>
  <2>1. /\ c \in Conns /\ outbox[c] # <<>>
        /\ jobs' = jobs \cup {[conn |-> c, cmd |-> m]}
        /\ outbox' = [outbox EXCEPT ![c] = Tail(outbox[c])]
        /\ UNCHANGED <<sendChan, inbox, reader, handing, respChan>>
    BY <1>0, <1>1 DEF AgentRead
  <2>2. SUFFICES ASSUME NEW k \in Calls
                 PROVE  /\ \A p, q \in Places(k)' : p = q
                        /\ \A d \in Conns : Once(outbox'[d], k)
    BY <2>1 DEF OneToken
  <2>3. m \in Commands /\ (IsOf(m, k) <=> m.call = k)
    BY <1>0, <2>1, HeadTailTyped, CommandsAreNoSignals DEF IsOf
  <2>4. Once(outbox[c], k) /\ outbox[c] \in Seq(Commands)
    BY <1>0, <2>1 DEF OneToken
  <2>5. \A d \in Conns : Once(outbox'[d], k)
    BY <1>0, <2>1, <2>4, CarriedTail DEF OneToken
  <2>6. Running(k)' \subseteq IF m.call = k THEN Running(k) \cup {b} ELSE Running(k)
    BY <2>1 DEF Running
  <2> HIDE DEF m, c, b
  <2>7. CASE IsOf(m, k)
    <3>1. ~Carries(Tail(outbox[c]), k) /\ Carries(outbox[c], k)
      BY <2>1, <2>4, <2>7, CarriedTail DEF m
    <3>2. Queued("outbox", outbox', k) = Queued("outbox", outbox, k) \ {<<"outbox", c>>}
      BY <1>0, <2>1, <3>1 DEF Queued
    <3>3. <<"outbox", c>> \in Places(k)
      BY <1>0, <2>1, <3>1, QueuedAt DEF Places
    <3>4. Running(k)' \subseteq Running(k) \cup {b}
      BY <2>3, <2>6, <2>7
    <3>5. Handed(k)' = Handed(k)
      BY <2>1, PlacesStay
    <3> DEFINE a == <<"outbox", c>>
    <3>6. Places(k)' \subseteq (Places(k) \ {a}) \cup {b}
      <4>1. /\ a \notin Running(k) /\ a \notin Handed(k)
            /\ \A f : /\ a \notin Queued("sendChan", f, k)
                     /\ a \notin Queued("inbox", f, k)
                     /\ a \notin Queued("respChan", f, k)
        BY KindOf
      <4>2. UNCHANGED <<Queued("sendChan", sendChan, k), Queued("inbox", inbox, k),
                        Queued("respChan", respChan, k)>>
        BY <2>1
      <4> HIDE DEF a
      <4>3. QED
        BY <3>2, <3>4, <3>5, <4>1, <4>2 DEF Places, a
    <3>7. QED
      BY <2>5, <3>3, <3>6, TokenMoves DEF OneToken
  <2>8. CASE ~IsOf(m, k)
    <3>1. Queued("outbox", outbox', k) \subseteq Queued("outbox", outbox, k)
      BY <1>0, <2>1, <2>4, CarriedTail DEF Queued
    <3>2. Places(k)' \subseteq Places(k)
      BY <2>1, <2>3, <2>6, <2>8, <3>1, PlacesStay DEF Places
    <3>3. QED
      BY <2>5, <3>2 DEF OneToken
  <2>9. QED
    BY <2>7, <2>8
<1>2. ASSUME NEW n \in Nodes, AgentCrash(n) PROVE OneToken'
  <2>1. /\ outbox' = [outbox EXCEPT ![agentConn[n]] = <<>>]
        /\ jobs' \subseteq jobs
        /\ UNCHANGED <<sendChan, inbox, reader, handing, respChan>>
        /\ agentConn[n] \in Conns
    BY <1>0, <1>2 DEF AgentCrash
  <2>2. SUFFICES ASSUME NEW k \in Calls
                 PROVE  /\ \A p, q \in Places(k)' : p = q
                        /\ \A d \in Conns : Once(outbox'[d], k)
    BY <2>1 DEF OneToken
  <2>3. \A d \in Conns : Once(outbox'[d], k)
    BY <1>0, <2>1, CarriedNone DEF OneToken
  <2>4. Queued("outbox", outbox', k) \subseteq Queued("outbox", outbox, k)
    BY <1>0, <2>1, CarriedNone DEF Queued
  <2>5. Running(k)' \subseteq Running(k)
    BY <2>1 DEF Running
  <2>6. Places(k)' \subseteq Places(k)
    BY <2>1, <2>4, <2>5, PlacesStay DEF Places
  <2>7. QED
    BY <2>3, <2>6 DEF OneToken
<1>3. ASSUME NEW j \in jobs, FinishJob(j) PROVE OneToken'
  <2> DEFINE c == j.conn
  <2> DEFINE resp == [type |-> "action_response", call |-> j.cmd.call,
                      act |-> j.cmd.act]
  <2>1. /\ c \in Conns /\ j.cmd.call \in Calls
        /\ resp \in Responses /\ resp \in Signals \cup Responses
        /\ jobs' = jobs \ {j}
        /\ inbox' = inbox \/ inbox' = [inbox EXCEPT ![c] = Append(inbox[c], resp)]
        /\ UNCHANGED <<sendChan, outbox, reader, handing, respChan>>
    BY <1>0, <1>3 DEF FinishJob, Commands, Responses
  <2>2. SUFFICES ASSUME NEW k \in Calls
                 PROVE  /\ \A p, q \in Places(k)' : p = q
                        /\ \A d \in Conns : Once(inbox'[d], k)
    BY <2>1 DEF OneToken
  <2>3. IsOf(resp, k) <=> j.cmd.call = k
    BY <2>1, CommandsAreNoSignals DEF IsOf
  <2>4. Running(k)' = Running(k) \ {<<"job", j>>}
    BY <2>1 DEF Running
  <2>5. j.cmd.call = k => <<"job", j>> \in Places(k)
    BY DEF Places, Running
  <2> HIDE DEF c, resp
  <2>6. Carries(inbox[c], k) => j.cmd.call # k
    <3>1. Carries(inbox[c], k) => <<"inbox", c>> \in Places(k)
      BY <1>0, <2>1, QueuedAt DEF Places
    <3>2. <<"inbox", c>> # <<"job", j>>
      OBVIOUS
    <3>3. QED
      BY <2>5, <3>1, <3>2 DEF OneToken
  <2>7. \A d \in Conns : Once(inbox'[d], k)
    <3>1. Once(Append(inbox[c], resp), k)
      BY <1>0, <2>1, <2>3, <2>6, CarriedAppend DEF OneToken
    <3>2. QED
      BY <1>0, <2>1, <3>1 DEF OneToken
  <2>8. CASE Queued("inbox", inbox', k) \subseteq Queued("inbox", inbox, k)
    <3>1. Places(k)' \subseteq Places(k)
      BY <2>1, <2>4, <2>8, PlacesStay DEF Places
    <3>2. QED
      BY <2>7, <3>1 DEF OneToken
  <2>9. CASE /\ inbox' = [inbox EXCEPT ![c] = Append(inbox[c], resp)]
             /\ j.cmd.call # k
    <3>1. Carries(Append(inbox[c], resp), k) => Carries(inbox[c], k)
      BY <1>0, <2>1, <2>3, <2>9, CarriedAppend
    <3>2. Queued("inbox", inbox', k) \subseteq Queued("inbox", inbox, k)
      BY <1>0, <2>1, <2>9, <3>1 DEF Queued
    <3>3. QED
      BY <2>8, <3>2
  <2>10. CASE /\ inbox' = [inbox EXCEPT ![c] = Append(inbox[c], resp)]
              /\ j.cmd.call = k
    <3>1. Queued("inbox", inbox', k) \subseteq Queued("inbox", inbox, k) \cup {<<"inbox", c>>}
      BY <1>0, <2>1, <2>10 DEF Queued
    <3>2. Places(k)' \subseteq (Places(k) \ {<<"job", j>>}) \cup {<<"inbox", c>>}
      BY <2>1, <2>4, <3>1, KindOf, PlacesStay DEF Places
    <3>3. QED
      BY <2>5, <2>7, <2>10, <3>2, TokenMoves DEF OneToken
  <2>11. QED
    BY <2>1, <2>8, <2>9, <2>10
<1>4. QED
  BY <1>1, <1>2, <1>3

(* Messages that are lost on a stream, read off it, or signals.            *)
LEMMA OneTokenOnLoss ==
  ASSUME TypeOK, OneToken, UNCHANGED <<sendChan, jobs, respChan>>,
         DOMAIN inbox' = Conns, DOMAIN outbox' = Conns,
         \A k \in Calls, c \in Conns :
           /\ Carries(inbox'[c], k) => Carries(inbox[c], k)
           /\ Carries(outbox'[c], k) => Carries(outbox[c], k)
           /\ Once(inbox'[c], k) /\ Once(outbox'[c], k),
         UNCHANGED handing,
         \A c \in Conns : reader'[c] = "handing" => reader[c] = "handing"
  PROVE  OneToken'
<1>1. DOMAIN inbox = Conns /\ DOMAIN outbox = Conns
  BY DEF TypeOK
<1>2. SUFFICES ASSUME NEW k \in Calls PROVE Places(k)' \subseteq Places(k)
  BY DEF OneToken
<1>3. /\ Queued("inbox", inbox', k) \subseteq Queued("inbox", inbox, k)
      /\ Queued("outbox", outbox', k) \subseteq Queued("outbox", outbox, k)
  BY <1>1 DEF Queued
<1>4. Handed(k)' \subseteq Handed(k)
  BY DEF Handed
<1>5. QED
  BY <1>3, <1>4, PlacesStay DEF Places

LEMMA OneTokenWire ==
  ASSUME TypeOK, OneToken,
         \/ \E n \in Nodes : \/ \E c \in Conns : Dial(n, c)
                             \/ \E t \in {"heartbeat", "telemetry"} : SendTelemetry(n, t)
         \/ \E c \in Conns : \/ BreakLink(c) \/ Register(c) \/ EnrollDevice(c)
                             \/ Reject(c) \/ HubReadError(c) \/ ReadTelemetry(c)
  PROVE  OneToken'
<1> USE DEF connVars, agentVars, pumpVars, hubVars, callVars
<1>0. /\ inbox \in [Conns -> Seq(Signals \cup Responses)]
      /\ outbox \in [Conns -> Seq(Commands)]
      /\ agentConn \in [Nodes -> Conns \cup {None}]
      /\ reader \in [Conns -> {"idle", "reading", "enrolling", "handing", "done"}]
      /\ \A k \in Calls, c \in Conns : Once(inbox[c], k) /\ Once(outbox[c], k)
  BY DEF TypeOK, OneToken
<1>1. ASSUME NEW n \in Nodes, NEW c \in Conns, Dial(n, c) PROVE OneToken'
  <2>1. /\ inbox' = [inbox EXCEPT ![c] = <<Signal("enroll")>>]
        /\ reader' = [reader EXCEPT ![c] = "reading"]
        /\ UNCHANGED <<outbox, sendChan, jobs, respChan, handing>>
    BY <1>1 DEF Dial
  <2>2. \A k : ~Carries(<<Signal("enroll")>>, k) /\ Once(<<Signal("enroll")>>, k)
    BY SignalOfNone
  <2>3. \A d \in Conns : reader'[d] = "handing" => reader[d] = "handing"
    BY <1>0, <2>1
  <2>4. \A k \in Calls, d \in Conns : /\ Carries(inbox'[d], k) => Carries(inbox[d], k)
                                      /\ Once(inbox'[d], k)
    BY <1>0, <2>1, <2>2
  <2>5. QED
    BY <1>0, <2>1, <2>3, <2>4, OneTokenOnLoss
<1>2. ASSUME NEW n \in Nodes, NEW t \in {"heartbeat", "telemetry"}, SendTelemetry(n, t)
      PROVE  OneToken'
  <2> DEFINE c == agentConn[n]
  <2>1. /\ c \in Conns
        /\ inbox' = [inbox EXCEPT ![c] = Append(inbox[c], Signal(t))]
        /\ UNCHANGED <<outbox, sendChan, jobs, respChan, reader, handing>>
    BY <1>0, <1>2 DEF SendTelemetry
  <2> HIDE DEF c
  <2>2. Signal(t) \in Signals \cup Responses /\ \A k : ~IsOf(Signal(t), k)
    BY SignalOfNone DEF Signals
  <2>3. \A k \in Calls : /\ Carries(Append(inbox[c], Signal(t)), k) => Carries(inbox[c], k)
                         /\ Once(Append(inbox[c], Signal(t)), k)
    BY <1>0, <2>1, <2>2, CarriedAppend
  <2>4. \A k \in Calls, d \in Conns : /\ Carries(inbox'[d], k) => Carries(inbox[d], k)
                                      /\ Once(inbox'[d], k)
    BY <1>0, <2>1, <2>3
  <2>5. QED
    BY <1>0, <2>1, <2>4, OneTokenOnLoss
<1>3. ASSUME NEW c \in Conns, BreakLink(c) PROVE OneToken'
  <2>1. PICK i \in 0 .. Len(inbox[c]) : inbox' = [inbox EXCEPT ![c] = SubSeq(inbox[c], 1, i)]
    BY <1>3 DEF BreakLink
  <2>2. PICK i2 \in 0 .. Len(outbox[c]) :
          outbox' = [outbox EXCEPT ![c] = SubSeq(outbox[c], 1, i2)]
    BY <1>3 DEF BreakLink
  <2>3. UNCHANGED <<sendChan, jobs, respChan, reader, handing>>
    BY <1>3 DEF BreakLink
  <2>4. \A k \in Calls, d \in Conns : /\ Carries(inbox'[d], k) => Carries(inbox[d], k)
                                      /\ Once(inbox'[d], k)
    <3>1. \A k \in Calls : /\ Carries(SubSeq(inbox[c], 1, i), k) => Carries(inbox[c], k)
                           /\ Once(SubSeq(inbox[c], 1, i), k)
      BY <1>0, CarriedPrefix
    <3>2. QED
      BY <1>0, <2>1, <3>1
  <2>5. \A k \in Calls, d \in Conns : /\ Carries(outbox'[d], k) => Carries(outbox[d], k)
                                      /\ Once(outbox'[d], k)
    <3>1. \A k \in Calls : /\ Carries(SubSeq(outbox[c], 1, i2), k) => Carries(outbox[c], k)
                           /\ Once(SubSeq(outbox[c], 1, i2), k)
      BY <1>0, CarriedPrefix
    <3>2. QED
      BY <1>0, <2>2, <3>1
  <2>6. QED
    BY <1>0, <2>1, <2>2, <2>3, <2>4, <2>5, OneTokenOnLoss
<1>4. ASSUME NEW c \in Conns,
             \/ Register(c) \/ EnrollDevice(c)
             \/ Reject(c) \/ HubReadError(c) \/ ReadTelemetry(c)
      PROVE  OneToken'
  <2>1. /\ \/ inbox' = inbox
           \/ inbox[c] # <<>> /\ inbox' = [inbox EXCEPT ![c] = Tail(inbox[c])]
           \/ inbox' = [inbox EXCEPT ![c] = <<>>]
        /\ UNCHANGED <<outbox, sendChan, jobs, respChan, handing>>
    BY <1>4 DEF Register, EnrollDevice, Reject, HubReadError, ReadTelemetry, Unregister
  <2>2. \A d \in Conns : reader'[d] = "handing" => reader[d] = "handing"
    BY <1>0, <1>4 DEF Register, EnrollDevice, Reject, HubReadError, ReadTelemetry, Unregister
  <2>3. \A k \in Calls :
          /\ inbox[c] # <<>> => /\ Carries(Tail(inbox[c]), k) => Carries(inbox[c], k)
                                /\ Once(Tail(inbox[c]), k)
          /\ ~Carries(<<>>, k) /\ Once(<<>>, k)
    BY <1>0, CarriedTail, CarriedNone
  <2>4. \A k \in Calls, d \in Conns : /\ Carries(inbox'[d], k) => Carries(inbox[d], k)
                                      /\ Once(inbox'[d], k)
    BY <1>0, <2>1, <2>3
  <2>5. DOMAIN inbox' = Conns
    BY <1>0, <2>1
  <2>6. QED
    BY <1>0, <2>1, <2>2, <2>4, <2>5, OneTokenOnLoss
<1>5. QED
  BY <1>1, <1>2, <1>3, <1>4

(* The steps of the hub that take a message from one place to the next.    *)
LEMMA OneTokenHub ==
  ASSUME TypeOK, OneToken,
         \E c \in Conns : ReadResponse(c) \/ HandOver(c) \/ WriteMessage(c)
  PROVE  OneToken'
<1> USE DEF connVars, agentVars, pumpVars, hubVars, callVars
<1>0. /\ inbox \in [Conns -> Seq(Signals \cup Responses)]
      /\ outbox \in [Conns -> Seq(Commands)]
      /\ sendChan \in [Conns -> Seq(Commands)]
      /\ respChan \in [Calls -> Seq(Responses)]
      /\ reader \in [Conns -> {"idle", "reading", "enrolling", "handing", "done"}]
      /\ handing \in [Conns -> Delivery \cup {None}]
      /\ \A c \in Conns : reader[c] = "handing" => handing[c] \in Delivery
      /\ \A k \in Calls, c \in Conns :
           Once(inbox[c], k) /\ Once(outbox[c], k) /\ Once(sendChan[c], k)
  BY DEF TypeOK, OneToken
<1>1. ASSUME NEW c \in Conns, ReadResponse(c) PROVE OneToken'
  <2> DEFINE resp == Head(inbox[c])
  <2> DEFINE b == <<"handing", c>>
  <2> DEFINE a == <<"inbox", c>>
  <2>1. /\ inbox[c] # <<>> /\ resp \in Responses
        /\ inbox' = [inbox EXCEPT ![c] = Tail(inbox[c])]
        /\ UNCHANGED <<outbox, sendChan, jobs, respChan>>
    BY <1>0, <1>1, HeadTailTyped, ResponseByType DEF ReadResponse
  <2>2. /\ reader[c] = "reading"
        /\ \A d \in Conns : d # c => reader'[d] = reader[d] /\ handing'[d] = handing[d]
        /\ reader'[c] = "handing" => handing'[c].resp = resp
    BY <1>0, <1>1 DEF ReadResponse
  <2> HIDE DEF resp, a, b
  <2>3. SUFFICES ASSUME NEW k \in Calls
                 PROVE  /\ \A p, q \in Places(k)' : p = q
                        /\ \A d \in Conns : Once(inbox'[d], k)
    BY <2>1 DEF OneToken
  <2>4. /\ Carries(Tail(inbox[c]), k) => Carries(inbox[c], k)
        /\ Once(Tail(inbox[c]), k)
        /\ resp.call = k => Carries(inbox[c], k) /\ ~Carries(Tail(inbox[c]), k)
    BY <1>0, <2>1, CarriedTail, CommandsAreNoSignals DEF IsOf, resp
  <2>5. \A d \in Conns : Once(inbox'[d], k)
    BY <1>0, <2>1, <2>4
  <2>6. Handed(k)' \subseteq IF resp.call = k THEN Handed(k) \cup {b} ELSE Handed(k)
    BY <2>2 DEF Handed, b
  <2>7. CASE resp.call = k
    <3>1. Queued("inbox", inbox', k) = Queued("inbox", inbox, k) \ {a}
      BY <1>0, <2>1, <2>4, <2>7 DEF Queued, a
    <3>2. a \in Places(k)
      BY <1>0, <2>4, <2>7, QueuedAt DEF Places, a
    <3>3. /\ a \notin Running(k) /\ a \notin Handed(k)
          /\ \A f : /\ a \notin Queued("sendChan", f, k)
                    /\ a \notin Queued("outbox", f, k)
                    /\ a \notin Queued("respChan", f, k)
      BY KindOf DEF a
    <3>4. Handed(k)' \subseteq Handed(k) \cup {b}
      BY <2>6, <2>7
    <3>5. Places(k)' \subseteq (Places(k) \ {a}) \cup {b}
      <4>1. UNCHANGED <<Queued("sendChan", sendChan, k), Queued("outbox", outbox, k),
                        Running(k), Queued("respChan", respChan, k)>>
        BY <2>1, PlacesStay
      <4>2. QED
        BY <3>1, <3>3, <3>4, <4>1 DEF Places
    <3>6. QED
      BY <2>5, <3>2, <3>5, TokenMoves DEF OneToken
  <2>8. CASE resp.call # k
    <3>1. Queued("inbox", inbox', k) \subseteq Queued("inbox", inbox, k)
      BY <1>0, <2>1, <2>4 DEF Queued
    <3>2. Handed(k)' \subseteq Handed(k)
      BY <2>6, <2>8
    <3>3. Places(k)' \subseteq Places(k)
      BY <2>1, <3>1, <3>2, PlacesStay DEF Places
    <3>4. QED
      BY <2>5, <3>3 DEF OneToken
  <2>9. QED
    BY <2>7, <2>8
<1>2. ASSUME NEW c \in Conns, HandOver(c) PROVE OneToken'
  <2> DEFINE t == handing[c].to
  <2> DEFINE resp == handing[c].resp
  <2> DEFINE b == <<"respChan", t>>
  <2> DEFINE a == <<"handing", c>>
  <2>1. /\ t \in Calls /\ resp \in Responses
        /\ reader[c] = "handing" /\ reader' = [reader EXCEPT ![c] = "reading"]
        /\ respChan' = [respChan EXCEPT ![t] = Append(respChan[t], resp)]
        /\ \A d \in Conns : d # c => handing'[d] = handing[d]
        /\ UNCHANGED <<outbox, sendChan, jobs, inbox>>
    BY <1>0, <1>2 DEF HandOver, Delivery
  <2>2. SUFFICES ASSUME NEW k \in Calls PROVE \A p, q \in Places(k)' : p = q
    BY <2>1 DEF OneToken
  <2>3. Handed(k)' = Handed(k) \ {a}
    BY <1>0, <2>1 DEF Handed
  <2>4. resp.call = k => a \in Places(k)
    BY <2>1 DEF Handed, Places
  <2> HIDE DEF t, resp, a, b
  <2>5. Carries(Append(respChan[t], resp), k) => Carries(respChan[t], k) \/ resp.call = k
    BY <1>0, <2>1, CarriedAppend DEF IsOf
  <2>6. Queued("respChan", respChan', k)
          \subseteq IF resp.call = k THEN Queued("respChan", respChan, k) \cup {b}
                    ELSE Queued("respChan", respChan, k)
    BY <1>0, <2>1, <2>5 DEF Queued, b
  <2>7. CASE resp.call = k
    <3>1. /\ a \notin Running(k)
          /\ \A f : /\ a \notin Queued("sendChan", f, k)
                    /\ a \notin Queued("outbox", f, k)
                    /\ a \notin Queued("inbox", f, k)
                    /\ a \notin Queued("respChan", f, k)
      BY KindOf DEF a
    <3>2. Queued("respChan", respChan', k) \subseteq Queued("respChan", respChan, k) \cup {b}
      BY <2>6, <2>7
    <3>3. Places(k)' \subseteq (Places(k) \ {a}) \cup {b}
      <4>1. UNCHANGED <<Queued("sendChan", sendChan, k), Queued("outbox", outbox, k),
                        Running(k), Queued("inbox", inbox, k)>>
        BY <2>1, PlacesStay
      <4>2. QED
        BY <2>3, <3>1, <3>2, <4>1 DEF Places
    <3>4. QED
      BY <2>4, <2>7, <3>3, TokenMoves DEF OneToken
  <2>8. CASE resp.call # k
    <3>1. Queued("respChan", respChan', k) \subseteq Queued("respChan", respChan, k)
      BY <2>6, <2>8
    <3>2. Places(k)' \subseteq Places(k)
      BY <2>1, <2>3, <3>1, PlacesStay DEF Places
    <3>3. QED
      BY <3>2 DEF OneToken
  <2>9. QED
    BY <2>7, <2>8
<1>3. ASSUME NEW c \in Conns, WriteMessage(c) PROVE OneToken'
  <2> DEFINE m == Head(sendChan[c])
  <2> DEFINE b == <<"outbox", c>>
  <2> DEFINE a == <<"sendChan", c>>
  <2>1. /\ sendChan[c] # <<>>
        /\ sendChan' = [sendChan EXCEPT ![c] = Tail(sendChan[c])]
        /\ \/ outbox' = outbox
           \/ outbox' = [outbox EXCEPT ![c] = Append(outbox[c], m)]
        /\ UNCHANGED <<inbox, jobs, respChan, reader, handing>>
    BY <1>3 DEF WriteMessage
  <2>2. m \in Commands /\ \A k : IsOf(m, k) <=> m.call = k
    BY <1>0, <2>1, HeadTailTyped, CommandsAreNoSignals DEF IsOf
  <2> HIDE DEF m, a, b
  <2>3. SUFFICES ASSUME NEW k \in Calls
                 PROVE  /\ \A p, q \in Places(k)' : p = q
                        /\ \A d \in Conns : Once(sendChan'[d], k) /\ Once(outbox'[d], k)
    BY <2>1 DEF OneToken
  <2>4. /\ Carries(Tail(sendChan[c]), k) => Carries(sendChan[c], k)
        /\ Once(Tail(sendChan[c]), k)
        /\ m.call = k => Carries(sendChan[c], k) /\ ~Carries(Tail(sendChan[c]), k)
    BY <1>0, <2>1, <2>2, CarriedTail DEF m
  <2>5. m.call = k => a \in Places(k)
    BY <1>0, <2>4, QueuedAt DEF Places, a
  <2>6. m.call = k => ~Carries(outbox[c], k)
    <3>1. Carries(outbox[c], k) => b \in Places(k)
      BY <1>0, QueuedAt DEF Places, b
    <3>2. a # b
      BY DEF a, b
    <3>3. QED
      BY <2>5, <3>1, <3>2 DEF OneToken
  <2>7. /\ Carries(Append(outbox[c], m), k) => Carries(outbox[c], k) \/ m.call = k
        /\ Once(Append(outbox[c], m), k)
    BY <1>0, <2>2, <2>6, CarriedAppend
  <2>8. \A d \in Conns : Once(sendChan'[d], k) /\ Once(outbox'[d], k)
    BY <1>0, <2>1, <2>4, <2>7
  <2>9. Queued("outbox", outbox', k)
          \subseteq IF m.call = k THEN Queued("outbox", outbox, k) \cup {b}
                    ELSE Queued("outbox", outbox, k)
    <3>1. CASE outbox' = outbox
      BY <3>1
    <3>2. CASE outbox' = [outbox EXCEPT ![c] = Append(outbox[c], m)]
      BY <1>0, <2>7, <3>2 DEF Queued, b
    <3>3. QED
      BY <2>1, <3>1, <3>2
  <2>10. CASE m.call = k
    <3>1. Queued("sendChan", sendChan', k) = Queued("sendChan", sendChan, k) \ {a}
      BY <1>0, <2>1, <2>4, <2>10 DEF Queued, a
    <3>2. /\ a \notin Running(k) /\ a \notin Handed(k)
          /\ \A f : /\ a \notin Queued("outbox", f, k)
                    /\ a \notin Queued("inbox", f, k)
                    /\ a \notin Queued("respChan", f, k)
      BY KindOf DEF a
    <3>3. Queued("outbox", outbox', k) \subseteq Queued("outbox", outbox, k) \cup {b}
      BY <2>9, <2>10
    <3>4. Places(k)' \subseteq (Places(k) \ {a}) \cup {b}
      <4>1. UNCHANGED <<Running(k), Queued("inbox", inbox, k), Handed(k),
                        Queued("respChan", respChan, k)>>
        BY <2>1, PlacesStay
      <4>2. QED
        BY <3>1, <3>2, <3>3, <4>1 DEF Places
    <3>5. QED
      BY <2>5, <2>8, <2>10, <3>4, TokenMoves DEF OneToken
  <2>11. CASE m.call # k
    <3>1. Queued("sendChan", sendChan', k) \subseteq Queued("sendChan", sendChan, k)
      BY <1>0, <2>1, <2>4 DEF Queued
    <3>2. Queued("outbox", outbox', k) \subseteq Queued("outbox", outbox, k)
      BY <2>9, <2>11
    <3>3. Places(k)' \subseteq Places(k)
      BY <2>1, <3>1, <3>2, PlacesStay DEF Places
    <3>4. QED
      BY <2>8, <3>3 DEF OneToken
  <2>12. QED
    BY <2>10, <2>11
<1>4. QED
  BY <1>1, <1>2, <1>3

(* No message of a call exists before the call sends one.                  *)
LEMMA NothingBeforeSend ==
  ASSUME TypeOK, OnlySent, AnswersReal, NEW k \in Calls, call[k] = "pending"
  PROVE  Places(k) = {}
<1>1. \A m \in Sent : m.call # k
  BY DEF Sent
<1>2. \A r \in executed : r.call # k
  BY <1>1 DEF OnlySent
<1>3. \A c \in Conns : ~Carries(sendChan[c], k) /\ ~Carries(outbox[c], k)
  BY <1>1 DEF OnlySent, Carries, IsOf
<1>4. \A c \in Conns : ~Carries(inbox[c], k)
  BY <1>2 DEF AnswersReal, Carries, IsOf
<1>5. \A j \in Calls : ~Carries(respChan[j], k)
  <2>1. \A j \in Calls : respChan[j] \in Seq(AnswersTo(j))
    BY DEF AnswersReal
  <2>2. \A j \in Calls : \A r \in AnswersTo(j) : r.call # k
    BY <1>2 DEF AnswersTo
  <2>3. QED
    BY <2>1, <2>2 DEF Carries, IsOf
<1>6. Handed(k) = {}
  BY <1>2 DEF Handed, AnswersReal, AnswersTo
<1>7. Running(k) = {}
  BY <1>1 DEF Running, OnlySent
<1>8. QED
  <2>1. /\ DOMAIN sendChan = Conns /\ DOMAIN outbox = Conns
        /\ DOMAIN inbox = Conns /\ DOMAIN respChan = Calls
    BY DEF TypeOK
  <2>2. QED
    BY <1>3, <1>4, <1>5, <1>6, <1>7, <2>1 DEF Places, Queued

LEMMA OneTokenCall ==
  ASSUME TypeOK, OnlySent, AnswersReal, OneToken,
         \E k \in Calls : Send(k) \/ Receive(k)
  PROVE  OneToken'
<1> USE DEF connVars, agentVars, pumpVars, hubVars, callVars
<1>0. /\ sendChan \in [Conns -> Seq(Commands)]
      /\ respChan \in [Calls -> Seq(Responses)]
      /\ \A k \in Calls, c \in Conns : Once(sendChan[c], k)
      /\ \A k \in Calls : /\ call[k] # "idle" => req[k] \in ActionIDs
                          /\ call[k] \in {"found", "pending"} => target[k] \in Conns
  BY DEF TypeOK, OneToken
<1>1. ASSUME NEW j \in Calls, Send(j) PROVE OneToken'
  <2> DEFINE c == target[j]
  <2> DEFINE m == [call |-> j, act |-> req[j]]
  <2> DEFINE b == <<"sendChan", c>>
  <2>1. /\ call[j] = "pending" /\ c \in Conns /\ m \in Commands /\ m.call = j
        /\ sendChan' = sendChan \/ sendChan' = [sendChan EXCEPT ![c] = Append(sendChan[c], m)]
        /\ UNCHANGED <<outbox, inbox, jobs, respChan, reader, handing>>
    BY <1>0, <1>1 DEF Send, Commands
  <2> HIDE DEF c, m, b
  <2>2. SUFFICES ASSUME NEW k \in Calls
                 PROVE  /\ \A p, q \in Places(k)' : p = q
                        /\ \A d \in Conns : Once(sendChan'[d], k)
    BY <2>1 DEF OneToken
  <2>3. IsOf(m, k) <=> j = k
    BY <2>1, CommandsAreNoSignals DEF IsOf
  <2>4. j = k => Places(k) = {}
    BY <2>1, NothingBeforeSend
  <2>5. j = k => ~Carries(sendChan[c], k)
    BY <1>0, <2>1, <2>4, QueuedAt DEF Places
  <2>6. /\ Carries(Append(sendChan[c], m), k) => Carries(sendChan[c], k) \/ j = k
        /\ Once(Append(sendChan[c], m), k)
    BY <1>0, <2>1, <2>3, <2>5, CarriedAppend
  <2>7. \A d \in Conns : Once(sendChan'[d], k)
    BY <1>0, <2>1, <2>6
  <2>8. Queued("sendChan", sendChan', k)
          \subseteq IF j = k THEN {b} \cup Queued("sendChan", sendChan, k)
                    ELSE Queued("sendChan", sendChan, k)
    <3>1. CASE sendChan' = sendChan
      BY <3>1
    <3>2. CASE sendChan' = [sendChan EXCEPT ![c] = Append(sendChan[c], m)]
      BY <1>0, <2>6, <3>2 DEF Queued, b
    <3>3. QED
      BY <2>1, <3>1, <3>2
  <2>9. UNCHANGED <<Queued("outbox", outbox, k), Queued("inbox", inbox, k), Running(k),
                    Handed(k), Queued("respChan", respChan, k)>>
    BY <2>1, PlacesStay
  <2>10. CASE j = k
    <3>1. Places(k)' \subseteq {b}
      BY <2>4, <2>8, <2>9, <2>10 DEF Places
    <3>2. QED
      BY <2>7, <3>1
  <2>11. CASE j # k
    <3>1. Places(k)' \subseteq Places(k)
      BY <2>8, <2>9, <2>11 DEF Places
    <3>2. QED
      BY <2>7, <3>1 DEF OneToken
  <2>12. QED
    BY <2>10, <2>11
<1>2. ASSUME NEW j \in Calls, Receive(j) PROVE OneToken'
  <2>1. /\ respChan[j] # <<>>
        /\ respChan' = [respChan EXCEPT ![j] = Tail(respChan[j])]
        /\ UNCHANGED <<sendChan, outbox, inbox, jobs, reader, handing>>
    BY <1>2 DEF Receive
  <2>2. SUFFICES ASSUME NEW k \in Calls PROVE Places(k)' \subseteq Places(k)
    BY <2>1 DEF OneToken
  <2>3. Carries(Tail(respChan[j]), k) => Carries(respChan[j], k)
    BY <1>0, <2>1, CarriedTail
  <2>4. Queued("respChan", respChan', k) \subseteq Queued("respChan", respChan, k)
    BY <1>0, <2>1, <2>3 DEF Queued
  <2>5. UNCHANGED <<Queued("outbox", outbox, k), Queued("inbox", inbox, k), Running(k),
                    Handed(k), Queued("sendChan", sendChan, k)>>
    BY <2>1, PlacesStay
  <2>6. QED
    BY <2>4, <2>5 DEF Places
<1>3. QED
  BY <1>1, <1>2

LEMMA OneTokenStep ==
  TypeOK /\ OnlySent /\ AnswersReal /\ OneToken /\ [Next]_vars => OneToken'
<1> SUFFICES ASSUME TypeOK, OnlySent, AnswersReal, OneToken, [Next]_vars
             PROVE  OneToken'
  OBVIOUS
<1> DEFINE frame == <<sendChan, outbox, inbox, jobs, respChan, reader, handing>>
<1>1. CASE UNCHANGED frame
  <2>1. \A k : UNCHANGED <<Queued("outbox", outbox, k), Queued("inbox", inbox, k), Running(k),
                    Handed(k), Queued("sendChan", sendChan, k),
                    Queued("respChan", respChan, k)>>
    BY <1>1, PlacesStay
  <2>2. \A k : Places(k)' = Places(k)
    BY <2>1 DEF Places
  <2>3. QED
    BY <1>1, <2>2 DEF OneToken
<1> USE DEF connVars, agentVars, pumpVars, hubVars, callVars
<1>2. ASSUME NEW n \in Nodes, AgentReadError(n) \/ ExpireToken(n) PROVE UNCHANGED frame
  BY <1>2 DEF AgentReadError, ExpireToken
<1>3. ASSUME NEW c \in Conns, StopWriter(c) PROVE UNCHANGED frame
  BY <1>3 DEF StopWriter
<1>4. ASSUME NEW k \in Calls,
             \/ AddPending(k) \/ Timeout(k) \/ Return(k)
             \/ \E a \in ActionIDs : Lookup(k, a)
      PROVE  UNCHANGED frame
  BY <1>4 DEF AddPending, Timeout, Return, Lookup
<1>5. CASE UNCHANGED vars
  BY <1>1, <1>5 DEF vars
<1> HIDE DEF frame
<1>6. QED
  BY <1>1, <1>2, <1>3, <1>4, <1>5, OneTokenAgent, OneTokenWire, OneTokenHub, OneTokenCall
  DEF Next, AgentStep, AgentReadLoop, ReadPump, WritePump, DispatchAction

(* With unique ids a response is handed to the call that sent its command, *)
(* and a response of that call that is already in its channel would be a   *)
(* second one.                                                             *)
LEMMA RoomForTheOne ==
  TypeOK /\ OnlySent /\ AnswersReal /\ OneToken => ReaderNotStuck
<1> SUFFICES ASSUME TypeOK, OnlySent, AnswersReal, OneToken, UniqueIDs,
                    NEW c \in Conns, reader[c] = "handing", respChan[handing[c].to] # <<>>
             PROVE  FALSE
  BY DEF ReaderNotStuck, HasRoom
<1> DEFINE k == handing[c].to
<1> DEFINE r == handing[c].resp
<1> DEFINE s == respChan[k][1]
<1>1. k \in Calls /\ r \in executed /\ r.act = req[k] /\ call[k] # "idle"
  BY DEF TypeOK, Delivery, AnswersReal, AnswersTo
<1>2. respChan[k] \in Seq(AnswersTo(k)) /\ s \in executed /\ s.act = req[k]
      /\ 1 \in 1 .. Len(respChan[k])
  <2>1. respChan[k] \in Seq(AnswersTo(k))
    BY <1>1 DEF AnswersReal
  <2>2. s \in AnswersTo(k) /\ 1 \in 1 .. Len(respChan[k])
    BY <2>1
  <2>3. QED
    BY <2>1, <2>2 DEF AnswersTo
<1>3. \A t \in executed : t.act = req[k] => t.call = k
  <2>1. \A t \in executed : t.call \in Calls /\ req[t.call] = t.act
    BY DEF OnlySent, Sent, Commands
  <2>2. req[k] # None
    BY <1>1, HubAssumption DEF TypeOK
  <2>3. QED
    BY <1>1, <2>1, <2>2 DEF UniqueIDs
<1>4. <<"handing", c>> \in Places(k)
  BY <1>1, <1>3 DEF Places, Handed
<1>5. <<"respChan", k>> \in Places(k)
  <2>1. IsOf(s, k)
    BY <1>1, <1>2, <1>3, CommandsAreNoSignals DEF IsOf, TypeOK
  <2>2. Carries(respChan[k], k)
    BY <1>2, <2>1 DEF Carries
  <2>3. QED
    BY <1>1, <2>2, QueuedAt DEF Places, TypeOK
<1>6. <<"handing", c>> # <<"respChan", k>>
  OBVIOUS
<1>7. QED
  BY <1>1, <1>4, <1>5, <1>6 DEF OneToken

LEMMA TokensAlways == Spec => [](OnlySent /\ OneToken)
<1>1. Init => OnlySent
  <2>1. \A S : <<>> \in Seq(S)
    OBVIOUS
  <2>2. QED
    BY <2>1 DEF Init, OnlySent
<1>2. QED
  BY <1>1, TypeCorrect, AnswersRealAlways, NoResultYetAlways, OnlySentStep, OneTokenInit,
     OneTokenStep, PTL DEF Spec

(* As long as action ids are not reused, readPump always finds room for a  *)
(* response: however late the answer comes and however the call ended, no  *)
(* second response for it exists that could have filled the channel.       *)
THEOREM ReaderNeverStuck == Spec => []ReaderNotStuck
  BY TypeCorrect, AnswersRealAlways, TokensAlways, RoomForTheOne, PTL

-----------------------------------------------------------------------------
(* The command of call k waits to be carried out.                          *)
Undone(k) ==
  \/ \E c \in Conns : Carries(sendChan[c], k) \/ Carries(outbox[c], k)
  \/ \E j \in jobs : j.cmd.call = k

(* Only Send puts a command under way; the others take it further or lose  *)
(* it.                                                                     *)
LEMMA OnlySendMakesUndone ==
  ASSUME TypeOK, [Next]_vars, NEW k \in Calls, ~Undone(k), ~Send(k)
  PROVE  ~Undone(k)'
<1> USE DEF connVars, agentVars, pumpVars, hubVars, callVars
<1>0. /\ sendChan \in [Conns -> Seq(Commands)] /\ outbox \in [Conns -> Seq(Commands)]
      /\ agentConn \in [Nodes -> Conns \cup {None}]
      /\ \A c \in Conns : ~Carries(sendChan[c], k) /\ ~Carries(outbox[c], k)
      /\ \A j \in jobs : j.cmd.call # k
  BY DEF TypeOK, Undone
<1>1. ASSUME NEW n \in Nodes, AgentRead(n) PROVE ~Undone(k)'
  <2> DEFINE c == agentConn[n]
  <2>1. /\ c \in Conns /\ outbox[c] # <<>>
        /\ jobs' = jobs \cup {[conn |-> c, cmd |-> Head(outbox[c])]}
        /\ outbox' = [outbox EXCEPT ![c] = Tail(outbox[c])]
        /\ UNCHANGED sendChan
    BY <1>0, <1>1 DEF AgentRead
  <2> HIDE DEF c
  <2>2. Head(outbox[c]).call # k /\ ~Carries(Tail(outbox[c]), k)
    BY <1>0, <2>1, HeadTailTyped, CarriedTail, CommandsAreNoSignals DEF IsOf
  <2>3. QED
    BY <1>0, <2>1, <2>2 DEF Undone
<1>2. ASSUME NEW n \in Nodes, AgentCrash(n) PROVE ~Undone(k)'
  <2>1. /\ outbox' = [outbox EXCEPT ![agentConn[n]] = <<>>]
        /\ jobs' \subseteq jobs /\ UNCHANGED sendChan
    BY <1>2 DEF AgentCrash
  <2>2. QED
    BY <1>0, <2>1, CarriedNone DEF Undone
<1>3. ASSUME NEW j \in jobs, FinishJob(j) PROVE ~Undone(k)'
  BY <1>0, <1>3 DEF FinishJob, Undone
<1>4. ASSUME NEW c \in Conns, BreakLink(c) PROVE ~Undone(k)'
  <2>1. PICK i \in 0 .. Len(outbox[c]) : outbox' = [outbox EXCEPT ![c] = SubSeq(outbox[c], 1, i)]
    BY <1>4 DEF BreakLink
  <2>2. ~Carries(SubSeq(outbox[c], 1, i), k)
    BY <1>0, CarriedPrefix
  <2>3. UNCHANGED <<sendChan, jobs>>
    BY <1>4 DEF BreakLink
  <2>4. QED
    BY <1>0, <2>1, <2>2, <2>3 DEF Undone
<1>5. ASSUME NEW c \in Conns, WriteMessage(c) PROVE ~Undone(k)'
  <2> DEFINE m == Head(sendChan[c])
  <2>1. /\ sendChan[c] # <<>>
        /\ sendChan' = [sendChan EXCEPT ![c] = Tail(sendChan[c])]
        /\ outbox' = outbox \/ outbox' = [outbox EXCEPT ![c] = Append(outbox[c], m)]
        /\ UNCHANGED jobs
    BY <1>5 DEF WriteMessage
  <2>2. m \in Commands /\ ~IsOf(m, k) /\ ~Carries(Tail(sendChan[c]), k)
    BY <1>0, <2>1, HeadTailTyped, CarriedTail
  <2> HIDE DEF m
  <2>3. ~Carries(Append(outbox[c], m), k)
    BY <1>0, <2>2, CarriedAppend
  <2>4. QED
    BY <1>0, <2>1, <2>2, <2>3 DEF Undone
<1>6. ASSUME NEW i \in Calls, Send(i) PROVE ~Undone(k)'
  <2> DEFINE c == target[i]
  <2> DEFINE m == [call |-> i, act |-> req[i]]
  <2>1. /\ c \in Conns /\ m \in Commands /\ m.call # k
        /\ sendChan' = sendChan \/ sendChan' = [sendChan EXCEPT ![c] = Append(sendChan[c], m)]
        /\ UNCHANGED <<outbox, jobs>>
    BY <1>6 DEF Send, Commands, TypeOK
  <2> HIDE DEF c, m
  <2>2. ~Carries(Append(sendChan[c], m), k)
    BY <1>0, <2>1, CarriedAppend DEF IsOf
  <2>3. QED
    BY <1>0, <2>1, <2>2 DEF Undone
<1>7. CASE UNCHANGED <<sendChan, outbox, jobs, executed>>
  BY <1>0, <1>7 DEF Undone
<1>8. QED
  BY <1>1, <1>2, <1>3, <1>4, <1>5, <1>6, <1>7, OthersKeepCommands DEF CommandStep

(* A command that was carried out is not under way a second time.          *)
DoneOnce == \A r \in executed : ~Undone(r.call)

LEMMA DoneOnceStep ==
  TypeOK /\ OnlySent /\ OneToken /\ DoneOnce /\ [Next]_vars => DoneOnce'
<1> SUFFICES ASSUME TypeOK, OnlySent, OneToken, DoneOnce, [Next]_vars,
                    NEW r \in executed'
             PROVE  ~Undone(r.call)'
  BY DEF DoneOnce
<1> USE DEF connVars, agentVars, pumpVars, hubVars, callVars
<1>1. CASE r \in executed
  <2>1. r.call \in Calls /\ call[r.call] # "pending"
    BY <1>1 DEF OnlySent, Sent, Commands
  <2>2. ~Send(r.call)
    BY <2>1 DEF Send
  <2>3. QED
    BY <1>1, <2>1, <2>2, OnlySendMakesUndone DEF DoneOnce
<1>2. CASE r \notin executed
  <2>1. PICK j \in jobs : FinishJob(j)
    <3>1. \/ UNCHANGED executed
          \/ \E j \in jobs : FinishJob(j)
      BY OthersKeepCommands
         DEF CommandStep, AgentRead, AgentCrash, BreakLink, WriteMessage, Send
    <3>2. QED
      BY <1>2, <3>1
  <2> DEFINE k == r.call
  <2>2. k = j.cmd.call /\ k \in Calls
    BY <1>2, <2>1 DEF FinishJob, TypeOK, Commands
  <2>3. <<"job", j>> \in Places(k)
    BY <2>2 DEF Places, Running
  <2>4. /\ DOMAIN sendChan = Conns /\ DOMAIN outbox = Conns
        /\ jobs' = jobs \ {j} /\ UNCHANGED <<sendChan, outbox>>
    BY <2>1 DEF FinishJob, TypeOK
  <2> HIDE DEF k
  <2>5. \A c \in Conns : ~Carries(sendChan[c], k) /\ ~Carries(outbox[c], k)
    <3>1. \A c \in Conns : /\ Carries(sendChan[c], k) => <<"sendChan", c>> \in Places(k)
                           /\ Carries(outbox[c], k) => <<"outbox", c>> \in Places(k)
      BY <2>4 DEF Places, Queued
    <3>2. \A c \in Conns : <<"sendChan", c>> # <<"job", j>> /\ <<"outbox", c>> # <<"job", j>>
      OBVIOUS
    <3>3. QED
      BY <2>2, <2>3, <3>1, <3>2 DEF OneToken
  <2>6. \A i \in jobs : i.cmd.call = k => i = j
    <3>1. \A i \in jobs : i.cmd.call = k => <<"job", i>> \in Places(k)
      BY DEF Places, Running
    <3>2. \A i \in jobs : <<"job", i>> = <<"job", j>> => i = j
      OBVIOUS
    <3>3. QED
      BY <2>2, <2>3, <3>1, <3>2 DEF OneToken
  <2>7. QED
    BY <2>4, <2>5, <2>6 DEF Undone, k
<1>3. QED
  BY <1>1, <1>2

-----------------------------------------------------------------------------
(* Each step of the hub, the agents and the network is one of RemoteAction *)
(* or leaves what the caller sees alone.                                   *)
LEMMA StepsOfRemote ==
  TypeOK /\ NoResultYet /\ AnswersReal /\ OnlySent /\ DoneOnce /\ [Next]_vars
    => [Remote!Next]_Remote!remoteVars
<1> SUFFICES ASSUME TypeOK, NoResultYet, AnswersReal, OnlySent, DoneOnce, [Next]_vars
             PROVE  Remote!Next \/ UNCHANGED <<req, executed, result>>
  BY DEF Remote!remoteVars
<1> USE DEF connVars, agentVars, pumpVars, hubVars, callVars
<1>0. /\ call \in [Calls -> {"idle", "found", "pending", "waiting", "returning", "done"}]
      /\ \A k \in Calls : call[k] # "idle" => req[k] \in ActionIDs
      /\ None \notin ActionIDs
  BY HubAssumption DEF TypeOK
<1>1. \A t : Remote!Failure(t) = Error(t)
  BY DEF Remote!Failure, Error
<1>2. ASSUME NEW k \in Calls, call[k] \in {"pending", "waiting"}
      PROVE  Remote!Open(k)
  BY <1>0, <1>2 DEF Remote!Open, NoResultYet
<1>3. ASSUME NEW k \in Calls, NEW a \in ActionIDs, Lookup(k, a) PROVE Remote!Next
  <2>1. /\ req[k] = None
        /\ req' = [req EXCEPT ![k] = a]
        /\ result' \in {result, [result EXCEPT ![k] = Error("not connected")]}
        /\ UNCHANGED executed
    BY <1>3 DEF Lookup, NoResultYet
  <2>2. Remote!Ask(k, a)
    BY <1>1, <2>1 DEF Remote!Ask
  <2>3. QED
    BY <2>2 DEF Remote!Next
<1>4. ASSUME NEW k \in Calls, Send(k)
      PROVE  Remote!Next \/ UNCHANGED <<req, executed, result>>
  <2>1. CASE result' = [result EXCEPT ![k] = Error("panic")]
    <3>1. call[k] = "pending" /\ UNCHANGED <<req, executed>>
      BY <1>4 DEF Send
    <3>2. ~Remote!CarriedOut(k)
      BY <3>1 DEF Remote!CarriedOut, OnlySent, Sent
    <3>3. Remote!Refuse(k)
      BY <1>1, <1>2, <2>1, <3>1, <3>2 DEF Remote!Refuse
    <3>4. QED
      BY <3>3 DEF Remote!Next
  <2>2. CASE UNCHANGED result
    BY <1>4, <2>2 DEF Send
  <2>3. QED
    BY <1>4, <2>1, <2>2 DEF Send
<1>5. ASSUME NEW k \in Calls, Receive(k) PROVE Remote!Next
  <2> DEFINE r == Head(respChan[k])
  <2>1. /\ call[k] = "waiting" /\ respChan[k] # <<>>
        /\ result' = [result EXCEPT ![k] = r]
        /\ UNCHANGED <<req, executed>>
    BY <1>5 DEF Receive
  <2>2. r \in AnswersTo(k)
    BY <2>1, HeadTailTyped DEF AnswersReal
  <2> HIDE DEF r
  <2>3. Remote!Answer(k)
    BY <1>2, <2>1, <2>2 DEF Remote!Answer, AnswersTo
  <2>4. QED
    BY <2>3 DEF Remote!Next
<1>6. ASSUME NEW k \in Calls, Timeout(k) PROVE Remote!Next
  <2>1. Remote!GiveUp(k)
    BY <1>1, <1>2, <1>6 DEF Timeout, Remote!GiveUp
  <2>2. QED
    BY <2>1 DEF Remote!Next
<1>7. ASSUME NEW j \in jobs, FinishJob(j) PROVE Remote!Next
  <2> DEFINE k == j.cmd.call
  <2>1. /\ k \in Calls /\ j.cmd.act = req[k] /\ call[k] # "idle"
        /\ result[k] \notin Remote!Refusals
    BY DEF OnlySent, Sent, Commands
  <2>2. ~Remote!CarriedOut(k)
    BY DEF DoneOnce, Undone, Remote!CarriedOut
  <2>3. /\ executed' = executed \cup {Remote!Report(k)}
        /\ UNCHANGED <<req, result>>
    BY <1>7, <2>1 DEF FinishJob, Remote!Report
  <2>4. Remote!CarryOut(k)
    BY <1>0, <2>1, <2>2, <2>3 DEF Remote!CarryOut
  <2>5. QED
    BY <2>1, <2>4 DEF Remote!Next
<1>8. ASSUME NEW k \in Calls, AddPending(k) \/ Return(k)
      PROVE  UNCHANGED <<req, executed, result>>
  BY <1>8 DEF AddPending, Return
<1>9. CASE ~ \E k \in Calls : DispatchAction(k) \/ \E a \in ActionIDs : Lookup(k, a)
  <2>1. UNCHANGED <<req, result>>
    BY <1>9, OthersKeepCalls
  <2>2. UNCHANGED executed \/ \E j \in jobs : FinishJob(j)
    BY <1>9, OthersKeepCommands
       DEF CommandStep, AgentRead, AgentCrash, BreakLink, WriteMessage, DispatchAction
  <2>3. QED
    BY <1>7, <2>1, <2>2
<1>10. QED
  BY <1>3, <1>4, <1>5, <1>6, <1>8, <1>9 DEF DispatchAction

(* Whatever breaks, reconnects, crashes or comes late, a command is        *)
(* carried out at most once for its call, never for a call that was        *)
(* refused, and an answer is a report of a command that was carried out:   *)
(* the hub and its agents implement RemoteAction (hub.go:252-279).         *)
THEOREM ImplementsRemoteAction == Spec => RemoteSpec
<1>1. Init => Remote!Init
  BY DEF Init, Remote!Init
<1>2. Init => DoneOnce
  BY DEF Init, DoneOnce
<1>3. Spec => []DoneOnce
  BY <1>2, TypeCorrect, TokensAlways, DoneOnceStep, PTL DEF Spec
<1>4. QED
  BY <1>1, <1>3, TypeCorrect, NoResultYetAlways, AnswersRealAlways, TokensAlways, StepsOfRemote,
     PTL DEF Spec, RemoteSpec, Remote!Spec

-----------------------------------------------------------------------------
(* The two pumps of a connection start together, and neither ends before   *)
(* the stream is broken; calls only ever find connections whose pumps have *)
(* been started.                                                           *)
PumpsOutliveStream ==
  \A c \in Conns : /\ (reader[c] = "idle") <=> (writer[c] = "idle")
                   /\ reader[c] = "done" \/ writer[c] = "stopped" => link[c] = "broken"
FoundStarted ==
  /\ \A n \in Nodes : clients[n] # None => reader[clients[n]] # "idle"
  /\ \A k \in Calls : call[k] \in {"found", "pending"} => reader[target[k]] # "idle"

(* A step of one connection's pumps or stream, seen from the others.       *)
LEMMA PumpsStep == TypeOK /\ PumpsOutliveStream /\ [Next]_vars => PumpsOutliveStream'
<1> SUFFICES ASSUME TypeOK, PumpsOutliveStream, [Next]_vars PROVE PumpsOutliveStream'
  OBVIOUS
<1> USE DEF PumpsOutliveStream, connVars, agentVars, pumpVars, hubVars, callVars
<1>0. /\ link \in [Conns -> {"unused", "up", "broken"}]
      /\ reader \in [Conns -> {"idle", "reading", "enrolling", "handing", "done"}]
      /\ writer \in [Conns -> {"idle", "running", "stopped"}]
      /\ agentConn \in [Nodes -> Conns \cup {None}]
  BY DEF TypeOK
<1>1. ASSUME NEW n \in Nodes, NEW c \in Conns, Dial(n, c) PROVE PumpsOutliveStream'
  BY <1>0, <1>1 DEF Dial
<1>2. ASSUME NEW n \in Nodes, AgentCrash(n) PROVE PumpsOutliveStream'
  BY <1>0, <1>2 DEF AgentCrash
<1>3. CASE UNCHANGED <<link, reader, writer>>
  BY <1>3
<1>4. ASSUME NEW c \in Conns, BreakLink(c) PROVE PumpsOutliveStream'
  BY <1>0, <1>4 DEF BreakLink
<1>5. ASSUME NEW c \in Conns, Register(c) \/ EnrollDevice(c) \/ ReadResponse(c) \/ HandOver(c)
      PROVE  PumpsOutliveStream'
  <2>1. /\ UNCHANGED <<link, writer>> /\ reader[c] \notin {"idle", "done"}
        /\ reader' = reader \/ \E p \in {"reading", "enrolling", "handing"} :
                                reader' = [reader EXCEPT ![c] = p]
    BY <1>5 DEF Register, EnrollDevice, ReadResponse, HandOver
  <2>2. QED
    BY <1>0, <2>1
<1>6. ASSUME NEW c \in Conns, Reject(c) \/ HubReadError(c) PROVE PumpsOutliveStream'
  BY <1>0, <1>6 DEF Reject, HubReadError, Unregister
<1>7. ASSUME NEW c \in Conns, WriteMessage(c) PROVE PumpsOutliveStream'
  BY <1>0, <1>7 DEF WriteMessage
<1>8. ASSUME NEW c \in Conns, StopWriter(c) PROVE PumpsOutliveStream'
  BY <1>0, <1>8 DEF StopWriter
<1>9. ASSUME NEW n \in Nodes,
             \/ AgentReadError(n) \/ AgentRead(n) \/ ExpireToken(n)
             \/ \E t \in {"heartbeat", "telemetry"} : SendTelemetry(n, t)
      PROVE  UNCHANGED <<link, reader, writer>>
  BY <1>9 DEF AgentReadError, AgentRead, ExpireToken, SendTelemetry
<1>10. ASSUME NEW j \in jobs, FinishJob(j)
       PROVE  UNCHANGED <<link, reader, writer>>
  BY <1>10 DEF FinishJob
<1>11. ASSUME NEW c \in Conns, ReadTelemetry(c)
       PROVE  UNCHANGED <<link, reader, writer>>
  BY <1>11 DEF ReadTelemetry
<1>12. ASSUME NEW k \in Calls,
              DispatchAction(k) \/ \E a \in ActionIDs : Lookup(k, a)
       PROVE  UNCHANGED <<link, reader, writer>>
  BY <1>12 DEF DispatchAction, AddPending, Send, Receive, Timeout, Return, Lookup
<1>13. CASE UNCHANGED vars
  BY <1>3, <1>13 DEF vars
<1> HIDE DEF PumpsOutliveStream
<1>14. QED
  BY <1>1, <1>2, <1>3, <1>4, <1>5, <1>6, <1>7, <1>8, <1>9, <1>10, <1>11, <1>12, <1>13
  DEF Next, AgentStep, AgentReadLoop, ReadPump, WritePump

(* A started pump stays started.                                           *)
LEMMA StartedForGood ==
  TypeOK /\ PumpsOutliveStream /\ [Next]_vars
    => \A c \in Conns : reader[c] # "idle" => reader'[c] # "idle"
<1> SUFFICES ASSUME TypeOK, PumpsOutliveStream, [Next]_vars, NEW d \in Conns, reader[d] # "idle"
             PROVE  reader'[d] # "idle"
  OBVIOUS
<1> USE DEF connVars, agentVars, pumpVars, hubVars, callVars
<1>0. reader \in [Conns -> {"idle", "reading", "enrolling", "handing", "done"}]
  BY DEF TypeOK
<1>1. ASSUME NEW c \in Conns, NEW p \in {"reading", "enrolling", "handing", "done"},
             reader' = [reader EXCEPT ![c] = p]
      PROVE  reader'[d] # "idle"
  BY <1>0, <1>1
<1>2. ASSUME NEW n \in Nodes, AgentStep(n)
      PROVE  reader' = reader \/ \E c \in Conns : reader' = [reader EXCEPT ![c] = "reading"]
  BY <1>2 DEF AgentStep, AgentReadLoop, Dial, AgentReadError, AgentRead, AgentCrash, ExpireToken,
              SendTelemetry
<1>3. ASSUME NEW c \in Conns, ReadPump(c)
      PROVE  reader' = reader \/ \E p \in {"reading", "enrolling", "handing", "done"} :
                                  reader' = [reader EXCEPT ![c] = p]
  BY <1>3 DEF ReadPump, Register, EnrollDevice, Reject, HubReadError, ReadTelemetry, ReadResponse,
              HandOver, Unregister
<1>4. ASSUME NEW c \in Conns, WritePump(c) \/ BreakLink(c) PROVE reader' = reader
  BY <1>4 DEF WritePump, WriteMessage, StopWriter, BreakLink
<1>5. ASSUME NEW j \in jobs, FinishJob(j) PROVE reader' = reader
  BY <1>5 DEF FinishJob
<1>6. ASSUME NEW k \in Calls, DispatchAction(k) \/ \E a \in ActionIDs : Lookup(k, a)
      PROVE  reader' = reader
  BY <1>6 DEF DispatchAction, AddPending, Send, Receive, Timeout, Return, Lookup
<1>7. CASE reader' = reader
  BY <1>7
<1>8. CASE UNCHANGED vars
  BY <1>7, <1>8 DEF vars
<1>9. QED
  BY <1>1, <1>2, <1>3, <1>4, <1>5, <1>6, <1>7, <1>8 DEF Next

(* A step takes the entries of clients and what calls found from what was  *)
(* there, or from connections whose readPump has been started.             *)
ClientsFrom ==
  \A n \in Nodes : \/ clients'[n] \in {clients[n], None}
                   \/ clients'[n] \in Conns /\ reader[clients'[n]] # "idle"
CallsFrom ==
  \A k \in Calls : call'[k] \in {"found", "pending"} =>
    \/ call[k] \in {"found", "pending"} /\ target'[k] = target[k]
    \/ target'[k] \in Conns /\ reader[target'[k]] # "idle"

(* clients holds what readPump put there, a call what it found there.      *)
LEMMA FoundStep ==
  TypeOK /\ PumpsOutliveStream /\ FoundStarted /\ [Next]_vars => FoundStarted'
<1> SUFFICES ASSUME TypeOK, PumpsOutliveStream, FoundStarted, [Next]_vars PROVE FoundStarted'
  OBVIOUS
<1> USE DEF connVars, agentVars, pumpVars, hubVars, callVars
<1>0. /\ reader \in [Conns -> {"idle", "reading", "enrolling", "handing", "done"}]
      /\ clients \in [Nodes -> Conns \cup {None}] /\ nodeID \in [Conns -> Nodes \cup {None}]
      /\ call \in [Calls -> {"idle", "found", "pending", "waiting", "returning", "done"}]
      /\ target \in [Calls -> Conns \cup {None}]
      /\ \A k \in Calls : call[k] \in {"found", "pending"} => target[k] \in Conns
      /\ \A c \in Conns : reader[c] # "idle" => owner[c] \in Nodes
      /\ TargetNode \in [ActionIDs -> Nodes]
  BY HubAssumption DEF TypeOK
<1>1. \A c \in Conns : reader[c] # "idle" => reader'[c] # "idle"
  BY StartedForGood
<1>2. ClientsFrom /\ CallsFrom => FoundStarted'
  BY <1>0, <1>1 DEF ClientsFrom, CallsFrom, FoundStarted
<1>c. UNCHANGED clients => ClientsFrom
  BY DEF ClientsFrom
<1>k. UNCHANGED <<call, target>> => CallsFrom
  BY DEF CallsFrom
<1>3. ASSUME NEW k \in Calls, NEW a \in ActionIDs, Lookup(k, a) PROVE FoundStarted'
  <2>1. /\ clients' = clients
        /\ \A j \in Calls \ {k} : call'[j] = call[j] /\ target'[j] = target[j]
        /\ \/ call'[k] = "done"
           \/ clients[TargetNode[a]] # None /\ target'[k] = clients[TargetNode[a]]
    BY <1>0, <1>3 DEF Lookup
  <2>2. clients[TargetNode[a]] # None
          => clients[TargetNode[a]] \in Conns /\ reader[clients[TargetNode[a]]] # "idle"
    BY <1>0 DEF FoundStarted
  <2>3. CallsFrom
    BY <2>1, <2>2 DEF CallsFrom
  <2>4. QED
    BY <1>2, <1>c, <2>1, <2>3
<1>4. ASSUME NEW k \in Calls, DispatchAction(k) PROVE FoundStarted'
  <2>1. /\ clients' = clients
        /\ \A j \in Calls \ {k} : call'[j] = call[j] /\ target'[j] = target[j]
        /\ \/ call'[k] \in {"waiting", "returning", "done"}
           \/ call[k] = "found" /\ target'[k] = target[k]
    BY <1>0, <1>4 DEF DispatchAction, AddPending, Send, Receive, Timeout, Return
  <2>2. CallsFrom
    BY <2>1 DEF CallsFrom
  <2>3. QED
    BY <1>2, <1>c, <2>1, <2>2
<1>5. ASSUME NEW c \in Conns, ReadPump(c) PROVE FoundStarted'
  <2>1. UNCHANGED <<call, target>>
    BY <1>5 DEF ReadPump, Register, EnrollDevice, Reject, HubReadError, ReadTelemetry,
                ReadResponse, HandOver
  <2>2. CASE Register(c)
    <3>1. reader[c] # "idle" /\ clients' = [clients EXCEPT ![owner[c]] = c]
      BY <2>2 DEF Register
    <3>2. ClientsFrom
      BY <1>0, <3>1 DEF ClientsFrom
    <3>3. QED
      BY <1>2, <1>k, <2>1, <3>2
  <2>3. CASE Reject(c) \/ HubReadError(c)
    <3>1. clients' \in {clients, [clients EXCEPT ![nodeID[c]] = None]}
      BY <2>3 DEF Reject, HubReadError, Unregister
    <3>2. ClientsFrom
      BY <1>0, <3>1 DEF ClientsFrom
    <3>3. QED
      BY <1>2, <1>k, <2>1, <3>2
  <2>4. CASE EnrollDevice(c) \/ ReadTelemetry(c) \/ ReadResponse(c) \/ HandOver(c)
    <3>1. UNCHANGED clients
      BY <2>4 DEF EnrollDevice, ReadTelemetry, ReadResponse, HandOver
    <3>2. QED
      BY <1>2, <1>c, <1>k, <2>1, <3>1
  <2>5. QED
    BY <1>5, <2>2, <2>3, <2>4 DEF ReadPump
<1>6. CASE UNCHANGED <<clients, call, target>>
  BY <1>2, <1>c, <1>k, <1>6
<1>7. ASSUME NEW n \in Nodes, AgentStep(n) PROVE UNCHANGED <<clients, call, target>>
  BY <1>7 DEF AgentStep, AgentReadLoop, Dial, AgentReadError, AgentRead, AgentCrash, ExpireToken,
              SendTelemetry
<1>8. ASSUME NEW c \in Conns, WritePump(c) \/ BreakLink(c) PROVE UNCHANGED <<clients, call, target>>
  BY <1>8 DEF WritePump, WriteMessage, StopWriter, BreakLink
<1>9. ASSUME NEW j \in jobs, FinishJob(j) PROVE UNCHANGED <<clients, call, target>>
  BY <1>9 DEF FinishJob
<1>10. CASE UNCHANGED vars
  BY <1>6, <1>10 DEF vars
<1>11. QED
  BY <1>3, <1>4, <1>5, <1>6, <1>7, <1>8, <1>9, <1>10 DEF Next

(* No DispatchAction waits to send on a queue that nobody will empty or    *)
(* close (hub.go:252-279 against the ends of the two pumps).               *)
THEOREM NoSenderStranded == Spec => []SendersServed
<1>1. Init => PumpsOutliveStream /\ FoundStarted
  BY DEF Init, PumpsOutliveStream, FoundStarted
<1>2. Spec => [](PumpsOutliveStream /\ FoundStarted)
  BY <1>1, TypeCorrect, PumpsStep, FoundStep, PTL DEF Spec
<1>3. TypeOK /\ PumpsOutliveStream /\ FoundStarted => SendersServed
  <2>1. ASSUME TypeOK, PumpsOutliveStream, FoundStarted, NEW k \in Calls, call[k] = "pending"
        PROVE  /\ reader[target[k]] # "idle"
               /\ writer[target[k]] = "running" \/ link[target[k]] = "broken"
    <3>1. target[k] \in Conns /\ reader[target[k]] # "idle"
      BY <2>1 DEF TypeOK, FoundStarted
    <3>2. writer[target[k]] \in {"idle", "running", "stopped"}
      BY <2>1, <3>1 DEF TypeOK
    <3>3. QED
      BY <2>1, <3>1, <3>2 DEF PumpsOutliveStream
  <2>2. QED
    BY <2>1 DEF SendersServed
<1>4. QED
  BY <1>2, <1>3, TypeCorrect, PTL
=============================================================================
