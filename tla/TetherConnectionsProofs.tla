---------------------- MODULE TetherConnectionsProofs ----------------------
(***************************************************************************)
(* The registry's safety properties for every number of nodes, keys,       *)
(* addresses and concurrent stream handlers.                               *)
(***************************************************************************)
EXTENDS TetherConnections, TLAPS

(* A handler with a registration works for a node, with a key. *)
BusyHandlers ==
  \A h \in Handlers : stream[h].phase # "idle"
                        => stream[h].node \in Nodes /\ stream[h].publicKey \in Keys

(* The streams' part of the inductive invariant. *)
StreamInv == TypeOK /\ BusyHandlers /\ OpenStreamIsTheConnection

(* AvailabilitySettled is not inductive: it says nothing of the write that *)
(* is executing.  The last write of a chain carries what the map says.     *)
Settling(n) ==
  (nodeRow[n].live /\ queued[n] = 0 /\ ~unsynced[n] /\ ~Registering(n))
    => /\ inFlight[n] = "none" => nodeRow[n].available = isConnected(n)
       /\ inFlight[n] # "none" => ((inFlight[n] = "true") = isConnected(n))

WriteInv == \A n \in Nodes : Settling(n)

(* What the records written by the actions are. *)
LEMMA RowUpdates ==
  ASSUME NEW r \in RowType, NEW b \in BOOLEAN
  PROVE  /\ [r EXCEPT !.available = b] \in RowType
         /\ [r EXCEPT !.live = b] \in RowType
         /\ [r EXCEPT !.available = b, !.live = b] \in RowType
BY DEF RowType

LEMMA RowValues ==
  /\ \A k \in Keys, a \in Addrs :
       [publicKey |-> k, addr |-> a, available |-> TRUE, live |-> TRUE] \in RowType
  /\ NewRow \in RowType
  /\ \A a \in Addrs : LegacyRow(a) \in RowType
BY DEF RowType, NewRow, LegacyRow

LEMMA StreamValues ==
  /\ Idle \in StreamType
  /\ \A n \in Nodes, k \in Keys :
       [phase |-> "retiring", node |-> n, publicKey |-> k] \in StreamType
  /\ \A r \in StreamType : /\ [r EXCEPT !.phase = "claiming"] \in StreamType
                           /\ [r EXCEPT !.phase = "registered"] \in StreamType
                           /\ [r EXCEPT !.phase = "open"] \in StreamType
                           /\ [r EXCEPT !.phase = "closed"] \in StreamType
BY DEF StreamType, Idle

LEMMA TxValues ==
  /\ NoTx \in TxType
  /\ \A n \in Nodes, a \in Addrs :
       [addr |-> a, rows |-> OldNodes(n, a), overtaken |-> FALSE] \in TxType
  /\ \A r \in TxType : /\ [r EXCEPT !.overtaken = TRUE] \in TxType
                       /\ \A a : [r EXCEPT !.rows = {m \in @ : OnAddress(m, a)}] \in TxType
BY DEF TxType, NoTx, OldNodes

LEMMA SyncType ==
  ASSUME queued \in [Nodes -> Nat], NEW n, syncAvailability(n)
  PROVE  queued' \in [Nodes -> Nat]
<1>1. CASE n \in Nodes
  BY <1>1 DEF syncAvailability
<1>2. CASE n \notin Nodes
  <2>1. queued' = [m \in Nodes |-> IF m = n THEN queued[n] + 1 ELSE queued[m]]
    BY DEF syncAvailability
  <2> QED
    BY <1>2, <2>1
<1> QED
  BY <1>1, <1>2

LEMMA TypeInit == Init => TypeOK
BY RowValues, StreamValues, TxValues DEF Init, TypeOK

LEMMA TypeStep == TypeOK /\ [Next]_vars => TypeOK'
<1> SUFFICES ASSUME TypeOK, [Next]_vars PROVE TypeOK'
  OBVIOUS
<1> USE DEF TypeOK
<1>1. ASSUME NEW h \in Handlers, NEW n \in Nodes, NEW k \in Keys, NEW a \in Addrs,
             handleSSEStream(h, n, k, a)
      PROVE  TypeOK'
  <2>1. stream' \in [Handlers -> StreamType]
    BY <1>1, StreamValues DEF handleSSEStream
  <2>2. tx' \in [Handlers -> TxType]
    BY <1>1, TxValues DEF handleSSEStream
  <2> QED
    BY <1>1, <2>1, <2>2 DEF handleSSEStream
<1>2. ASSUME NEW h \in Handlers, addConnection(h)
      PROVE  TypeOK'
  <2>1. stream' \in [Handlers -> StreamType]
    BY <1>2, StreamValues DEF addConnection
  <2>2. connections' \in [Nodes -> Handlers \cup {NoConn}]
    BY <1>2 DEF addConnection
  <2>3. queued' \in [Nodes -> Nat]
    BY <1>2, SyncType DEF addConnection
  <2> QED
    BY <1>2, <2>1, <2>2, <2>3 DEF addConnection
<1>3. ASSUME NEW h \in Handlers, cancel(h)
      PROVE  TypeOK'
  <2>1. stream' \in [Handlers -> StreamType]
    BY <1>3, StreamValues DEF cancel
  <2> QED
    BY <1>3, <2>1 DEF cancel, syncAvailability
<1>4. ASSUME NEW h \in Handlers, WireDies(h)
      PROVE  TypeOK'
  BY <1>4 DEF WireDies
<1>5. ASSUME NEW n \in Nodes, removeConnection(n)
      PROVE  TypeOK'
  <2>1. stream' \in [Handlers -> StreamType]
    <3>1. stream' = [stream EXCEPT ![connections[n]] = [@ EXCEPT !.phase = "closed"]]
      BY <1>5 DEF removeConnection
    <3> QED
      BY <3>1, StreamValues
  <2> QED
    BY <1>5, <2>1 DEF removeConnection, syncAvailability
<1>6. ASSUME NEW n \in Nodes, removeNode(n)
      PROVE  TypeOK'
  <2>1. nodeRow' = [nodeRow EXCEPT ![n] = [@ EXCEPT !.live = FALSE]]
    BY <1>6 DEF removeNode
  <2>2. nodeRow' \in [Nodes -> RowType]
    BY <2>1, RowUpdates
  <2> QED
    BY <1>6, <2>2 DEF removeNode
<1>7. ASSUME NEW n \in Nodes, BeginWrite(n)
      PROVE  TypeOK'
  BY <1>7 DEF BeginWrite
<1>8. ASSUME NEW n \in Nodes, CommitWrite(n)
      PROVE  TypeOK'
  <2> DEFINE written == (inFlight[n] = "true")
  <2>1. nodeRow' = [nodeRow EXCEPT ![n] = [@ EXCEPT !.available = written]]
    BY <1>8 DEF CommitWrite
  <2>2. written \in BOOLEAN
    OBVIOUS
  <2>3. nodeRow' \in [Nodes -> RowType]
    <3> HIDE DEF written
    <3> QED
      BY <2>1, <2>2, RowUpdates
  <2> QED
    BY <1>8, <2>3 DEF CommitWrite
<1>9. ASSUME NEW n \in Nodes, FailWrite(n)
      PROVE  TypeOK'
  BY <1>9 DEF FailWrite
<1>10. CASE probeFails
  <2>1. unsynced' \in [Nodes -> BOOLEAN]
    BY <1>10 DEF probeFails, dropAllConnections
  <2>2. stream' \in [Handlers -> StreamType]
    BY <1>10, StreamValues DEF probeFails, dropAllConnections
  <2> QED
    BY <1>10, <2>1, <2>2 DEF probeFails, dropAllConnections
<1>11. CASE probeSucceeds
  BY <1>11 DEF probeSucceeds
<1>12. CASE restart
  BY <1>12, StreamValues, TxValues DEF restart
<1>13. ASSUME NEW h \in Handlers, retireOldNode(h)
       PROVE  TypeOK'
  <2>1. stream' \in [Handlers -> StreamType]
    BY <1>13, StreamValues DEF retireOldNode
  <2>2. tx' = [tx EXCEPT ![h] = [tx[h] EXCEPT !.rows = {m \in @ : OnAddress(m, tx[h].addr)}]]
    BY <1>13 DEF retireOldNode
  <2>3. tx' \in [Handlers -> TxType]
    BY <2>2, TxValues
  <2> QED
    BY <1>13, <2>1, <2>3 DEF retireOldNode
<1>14. ASSUME NEW h \in Handlers, NEW answered \in BOOLEAN, claimNode(h, answered)
       PROVE  TypeOK'
  <2> DEFINE claimed == [publicKey |-> stream[h].publicKey, addr |-> tx[h].addr,
                         available |-> TRUE, live |-> TRUE]
  <2>1. claimed \in RowType
    BY DEF RowType, StreamType, TxType
  <2>2. nodeRow' \in [Nodes -> RowType]
    <3>1. nodeRow' = [m \in Nodes |->
            IF m = stream[h].node THEN claimed
            ELSE IF m \in tx[h].rows THEN [nodeRow[m] EXCEPT !.available = FALSE, !.live = FALSE]
            ELSE nodeRow[m]]
      BY <1>14 DEF claimNode, CommitClaim
    <3> HIDE DEF claimed
    <3> QED
      BY <2>1, <3>1, RowUpdates
  <2>3. stream' \in [Handlers -> StreamType]
    <3>1. PICK r \in StreamType : stream' = [stream EXCEPT ![h] = r]
      <4>1. CASE answered
        <5>1. stream' = [stream EXCEPT ![h] = [stream[h] EXCEPT !.phase = "registered"]]
          BY <1>14, <4>1 DEF claimNode, CommitClaim
        <5>2. [stream[h] EXCEPT !.phase = "registered"] \in StreamType
          BY StreamValues
        <5> QED
          BY <5>1, <5>2
      <4>2. CASE ~answered
        BY <1>14, <4>2, StreamValues DEF claimNode, CommitClaim
      <4> QED
        BY <4>1, <4>2
    <3> QED
      BY <3>1
  <2>4. tx' \in [Handlers -> TxType]
    <3>1. \A g \in Handlers : [tx[g] EXCEPT !.overtaken = TRUE] \in TxType
      BY TxValues
    <3>2. PICK old : tx' = [g \in Handlers |->
            IF g = h THEN NoTx ELSE IF g \in old THEN [tx[g] EXCEPT !.overtaken = TRUE] ELSE tx[g]]
      <4> DEFINE old == {g \in Handlers : tx[g].addr = tx[h].addr
                                          /\ ~OnAddress(stream[h].node, tx[h].addr)}
      <4>1. tx' = [g \in Handlers |->
              IF g = h THEN NoTx ELSE IF g \in old THEN [tx[g] EXCEPT !.overtaken = TRUE] ELSE tx[g]]
        BY <1>14 DEF claimNode, CommitClaim
      <4> QED
        BY <4>1
    <3> QED
      BY <3>1, <3>2, TxValues
  <2>5. unsynced' \in [Nodes -> BOOLEAN]
    <3>1. CASE stream[h].node \in Nodes
      BY <1>14, <3>1 DEF claimNode, CommitClaim
    <3>2. CASE stream[h].node \notin Nodes
      <4>1. unsynced' = unsynced
        BY <1>14, <3>2 DEF claimNode, CommitClaim
      <4> QED
        BY <4>1
    <3> QED
      BY <3>1, <3>2
  <2> QED
    BY <1>14, <2>2, <2>3, <2>4, <2>5 DEF claimNode, CommitClaim
<1>15. ASSUME NEW h \in Handlers, claimRefused(h) \/ registrationFails(h)
       PROVE  TypeOK'
  BY <1>15, StreamValues, TxValues DEF claimRefused, registrationFails, EndsTransaction
<1>16. CASE UNCHANGED vars
  BY <1>16 DEF vars
<1> QED
  BY <1>1, <1>2, <1>3, <1>4, <1>5, <1>6, <1>7, <1>8, <1>9, <1>10, <1>11, <1>12, <1>13, <1>14,
     <1>15, <1>16
     DEF Next, RunningNext, writeRegistration

(* Every variable of the registry and of the rows keeps its type. *)
THEOREM TypeCorrect == Spec => []TypeOK
<1>1. Init => TypeOK
  BY TypeInit
<1>2. TypeOK /\ [Next]_vars => TypeOK'
  BY TypeStep
<1> QED
  BY <1>1, <1>2, PTL DEF Spec

(***************************************************************************)
(* Streams and the connections map                                         *)
(***************************************************************************)

(* A step that leaves the streams and the map alone keeps StreamInv. *)
LEMMA StreamFrame ==
  ASSUME StreamInv, UNCHANGED <<connections, stream>>
  PROVE  (BusyHandlers /\ OpenStreamIsTheConnection)'
BY DEF StreamInv, BusyHandlers, OpenStreamIsTheConnection

LEMMA StreamStep == StreamInv /\ [Next]_vars => StreamInv'
<1> SUFFICES ASSUME StreamInv, [Next]_vars
             PROVE  (BusyHandlers /\ OpenStreamIsTheConnection)'
  BY TypeStep DEF StreamInv
<1> USE ConstantsAssumption DEF StreamInv, BusyHandlers, OpenStreamIsTheConnection
<1> stream \in [Handlers -> StreamType] /\ connections \in [Nodes -> Handlers \cup {NoConn}]
  BY DEF TypeOK
<1>1. ASSUME NEW h \in Handlers, NEW n \in Nodes, NEW k \in Keys, NEW a \in Addrs,
             handleSSEStream(h, n, k, a)
      PROVE  (BusyHandlers /\ OpenStreamIsTheConnection)'
  BY <1>1 DEF handleSSEStream, StreamType
<1>2. ASSUME NEW h \in Handlers, addConnection(h)
      PROVE  (BusyHandlers /\ OpenStreamIsTheConnection)'
  <2>1. stream[h].node \in Nodes
    BY <1>2 DEF addConnection
  <2>2. \A g \in Handlers : stream'[g].node = stream[g].node
                             /\ stream'[g].publicKey = stream[g].publicKey
    BY <1>2 DEF addConnection, StreamType
  <2>3. \A g \in Handlers : stream'[g].phase = IF g = h THEN "open"
                              ELSE IF connections[stream[h].node] = g THEN "closed"
                              ELSE stream[g].phase
    BY <1>2 DEF addConnection, StreamType
  <2>4. connections' = [connections EXCEPT ![stream[h].node] = h]
    BY <1>2 DEF addConnection
  <2>5. stream[h].phase = "registered"
    BY <1>2 DEF addConnection
  <2>6. BusyHandlers'
    BY <2>1, <2>2, <2>3, <2>5
  <2>7. OpenStreamIsTheConnection'
    BY <2>1, <2>2, <2>3, <2>4, <2>5
  <2> QED
    BY <2>6, <2>7
<1>3. ASSUME NEW h \in Handlers, cancel(h)
      PROVE  (BusyHandlers /\ OpenStreamIsTheConnection)'
  <2>1. stream[h].node \in Nodes
    BY <1>3 DEF cancel
  <2>2. stream' = [stream EXCEPT ![h] = Idle]
    BY <1>3 DEF cancel
  <2>3. \A n \in Nodes : connections'[n] = IF connections[n] = h THEN NoConn ELSE connections[n]
    BY <1>3 DEF cancel
  <2> QED
    BY <2>1, <2>2, <2>3 DEF Idle
<1>4. ASSUME NEW h \in Handlers, WireDies(h)
      PROVE  (BusyHandlers /\ OpenStreamIsTheConnection)'
  BY <1>4, StreamFrame DEF WireDies
<1>5. ASSUME NEW n \in Nodes, removeConnection(n)
      PROVE  (BusyHandlers /\ OpenStreamIsTheConnection)'
  <2>1. connections[n] \in Handlers /\ connections' = [connections EXCEPT ![n] = NoConn]
    BY <1>5 DEF removeConnection
  <2>2. \A g \in Handlers : stream'[g].node = stream[g].node
                             /\ stream'[g].publicKey = stream[g].publicKey
    BY <1>5, <2>1 DEF removeConnection, StreamType
  <2>3. \A g \in Handlers : stream'[g].phase = IF g = connections[n] THEN "closed"
                                                ELSE stream[g].phase
    BY <1>5, <2>1 DEF removeConnection, StreamType
  <2> QED
    BY <2>1, <2>2, <2>3
<1>6. ASSUME NEW n \in Nodes,
             removeNode(n) \/ BeginWrite(n) \/ CommitWrite(n) \/ FailWrite(n)
      PROVE  (BusyHandlers /\ OpenStreamIsTheConnection)'
  BY <1>6, StreamFrame DEF removeNode, BeginWrite, CommitWrite, FailWrite
<1>7. CASE probeFails
  <2>1. \A g \in Handlers : /\ stream'[g].node = stream[g].node
                            /\ stream'[g].publicKey = stream[g].publicKey
                            /\ stream'[g].phase = IF stream[g].phase = "open" THEN "closed"
                                                  ELSE stream[g].phase
    BY <1>7 DEF probeFails, dropAllConnections, StreamType
  <2>2. \A n \in Nodes : connections'[n] = NoConn
    BY <1>7 DEF probeFails, dropAllConnections
  <2> QED
    BY <2>1, <2>2
<1>8. CASE probeSucceeds
  BY <1>8, StreamFrame DEF probeSucceeds
<1>9. CASE restart
  BY <1>9 DEF restart, Idle
<1>10. ASSUME NEW h \in Handlers, writeRegistration(h)
       PROVE  (BusyHandlers /\ OpenStreamIsTheConnection)'
  <2>1. stream[h].phase \in {"retiring", "claiming"} /\ connections' = connections
    BY <1>10 DEF writeRegistration, retireOldNode, claimNode, CommitClaim, claimRefused,
                 registrationFails, EndsTransaction
  <2>0. PICK r : /\ stream' = [stream EXCEPT ![h] = r]
                 /\ \/ r = Idle
                    \/ r = [stream[h] EXCEPT !.phase = "claiming"]
                    \/ r = [stream[h] EXCEPT !.phase = "registered"]
    <3>1. CASE retireOldNode(h)
      BY <3>1 DEF retireOldNode
    <3>2. CASE \E answered \in BOOLEAN : claimNode(h, answered)
      BY <3>2 DEF claimNode, CommitClaim
    <3>3. CASE claimRefused(h) \/ registrationFails(h)
      BY <3>3 DEF claimRefused, registrationFails, EndsTransaction
    <3> QED
      BY <1>10, <3>1, <3>2, <3>3 DEF writeRegistration
  <2>2. \A g \in Handlers \ {h} : stream'[g] = stream[g]
    BY <2>0
  <2>3. \/ stream'[h] = Idle
        \/ stream'[h] = [stream[h] EXCEPT !.phase = "claiming"]
        \/ stream'[h] = [stream[h] EXCEPT !.phase = "registered"]
    BY <2>0
  <2>4. /\ stream'[h].phase # "open"
        /\ stream'[h].phase # "idle" => /\ stream'[h].node = stream[h].node
                                       /\ stream'[h].publicKey = stream[h].publicKey
    BY <2>3 DEF Idle, StreamType
  <2> QED
    BY <2>1, <2>2, <2>4
<1>11. CASE UNCHANGED vars
  BY <1>11, StreamFrame DEF vars
<1> QED
  BY <1>1, <1>2, <1>3, <1>4, <1>5, <1>6, <1>7, <1>8, <1>9, <1>10, <1>11 DEF Next, RunningNext

LEMMA StreamInvariance == Spec => []StreamInv
<1>1. Init => StreamInv
  BY TypeInit, ConstantsAssumption
     DEF StreamInv, Init, BusyHandlers, OpenStreamIsTheConnection, Idle
<1>2. StreamInv /\ [Next]_vars => StreamInv'
  BY StreamStep
<1> QED
  BY <1>1, <1>2, PTL DEF Spec

(* Every stream the tether holds open is the node's entry in the map, and  *)
(* the other way round, under any interleaving of start callbacks,         *)
(* cancellations, expiries, probe failures and restarts.                   *)
THEOREM OpenStreams == Spec => []OpenStreamIsTheConnection
<1>1. StreamInv => OpenStreamIsTheConnection
  BY DEF StreamInv
<1> QED
  BY <1>1, StreamInvariance, PTL

(***************************************************************************)
(* Identity: the pinned key, and the rows on an address                    *)
(***************************************************************************)

InTransaction(h) == stream[h].phase \in {"retiring", "claiming"}

(* OnlyOvertakenIsRejected is not inductive: it says nothing of a          *)
(* registration that waits for the rows it is to retire.                   *)
AddressInv ==
  \A h \in Handlers : InTransaction(h) /\ IndexRejects(h) => tx[h].overtaken

(* What a committed registration does to each row, field by field. *)
LEMMA RegistrationEffect ==
  ASSUME StreamInv, NEW h \in Handlers, NEW answered \in BOOLEAN, claimNode(h, answered)
  PROVE  LET n == stream[h].node IN
         /\ n \in Nodes
         /\ nodeRow'[n].publicKey = stream[h].publicKey /\ nodeRow'[n].addr = tx[h].addr
         /\ nodeRow[n].publicKey \in {NoKey, stream[h].publicKey}
         /\ \A m \in Nodes \ {n} : /\ nodeRow'[m].publicKey = nodeRow[m].publicKey
                                   /\ nodeRow'[m].addr = nodeRow[m].addr
                                   /\ nodeRow'[m].live => nodeRow'[m] = nodeRow[m]
<1>1. nodeRow \in [Nodes -> RowType] /\ stream[h].node \in Nodes
  BY DEF StreamInv, TypeOK, BusyHandlers, claimNode
<1> QED
  BY <1>1 DEF claimNode, CommitClaim, MayClaim, RowType

Registers == \E h \in Handlers, answered \in BOOLEAN : claimNode(h, answered)

(* Every other step leaves key and address alone and makes no row live. *)
KeepsIdentity ==
  \A m \in Nodes : /\ nodeRow'[m].publicKey = nodeRow[m].publicKey
                   /\ nodeRow'[m].addr = nodeRow[m].addr
                   /\ nodeRow'[m].live => nodeRow[m].live

LEMMA OtherRowEffects ==
  ASSUME TypeOK, [Next]_vars, ~Registers
  PROVE  KeepsIdentity
<1> USE DEF KeepsIdentity
<1> nodeRow \in [Nodes -> RowType]
  BY DEF TypeOK
<1>1. ASSUME NEW n \in Nodes, removeNode(n) \/ CommitWrite(n)
      PROVE  KeepsIdentity
  BY <1>1 DEF removeNode, CommitWrite, RowType
<1>2. ASSUME NEW n \in Nodes, removeConnection(n) \/ BeginWrite(n) \/ FailWrite(n)
      PROVE  KeepsIdentity
  BY <1>2 DEF removeConnection, BeginWrite, FailWrite
<1>3. ASSUME NEW h \in Handlers, addConnection(h) \/ cancel(h) \/ WireDies(h)
      PROVE  KeepsIdentity
  BY <1>3 DEF addConnection, cancel, WireDies
<1>5. ASSUME NEW h \in Handlers, NEW n \in Nodes, NEW k \in Keys, NEW a \in Addrs,
             handleSSEStream(h, n, k, a)
      PROVE  KeepsIdentity
  BY <1>5 DEF handleSSEStream
<1>6. ASSUME NEW h \in Handlers, writeRegistration(h)
      PROVE  KeepsIdentity
  BY <1>6 DEF writeRegistration, retireOldNode, claimRefused, registrationFails, EndsTransaction,
              Registers
<1>4. CASE probeFails \/ probeSucceeds \/ restart \/ UNCHANGED vars
  BY <1>4 DEF probeFails, probeSucceeds, restart, vars
<1> QED
  BY <1>1, <1>2, <1>3, <1>4, <1>5, <1>6 DEF Next, RunningNext

(* No step but a registration makes a handler registered, and the key of a *)
(* handler that is registered or open was there before.                    *)
LEMMA OtherStreamEffects ==
  ASSUME StreamInv, [Next]_vars, ~Registers
  PROVE  \A g \in Handlers :
           stream'[g].phase \in {"registered", "open"}
             => /\ stream[g].phase \in {"registered", "open"}
                /\ stream'[g].node = stream[g].node
                /\ stream'[g].publicKey = stream[g].publicKey
<1> DEFINE Goal == \A g \in Handlers :
             stream'[g].phase \in {"registered", "open"}
               => /\ stream[g].phase \in {"registered", "open"}
                  /\ stream'[g].node = stream[g].node
                  /\ stream'[g].publicKey = stream[g].publicKey
<1> SUFFICES Goal
  OBVIOUS
<1> stream \in [Handlers -> StreamType] /\ connections \in [Nodes -> Handlers \cup {NoConn}]
  BY DEF StreamInv, TypeOK
<1>1. ASSUME NEW h \in Handlers, addConnection(h)
      PROVE  Goal
  BY <1>1 DEF addConnection, StreamType
<1>2. ASSUME NEW h \in Handlers, cancel(h)
      PROVE  Goal
  BY <1>2 DEF cancel, Idle, StreamType
<1>3. ASSUME NEW n \in Nodes, removeConnection(n)
      PROVE  Goal
  BY <1>3 DEF removeConnection, StreamType
<1>4. CASE probeFails
  BY <1>4 DEF probeFails, dropAllConnections, StreamType
<1>5. CASE restart
  BY <1>5 DEF restart, Idle
<1>6. ASSUME UNCHANGED stream
      PROVE  Goal
  BY <1>6
<1>7. ASSUME NEW h \in Handlers, WireDies(h)
      PROVE  Goal
  BY <1>6, <1>7 DEF WireDies
<1>8. ASSUME NEW n \in Nodes, removeNode(n) \/ BeginWrite(n) \/ CommitWrite(n) \/ FailWrite(n)
      PROVE  Goal
  BY <1>6, <1>8 DEF removeNode, BeginWrite, CommitWrite, FailWrite
<1>9. CASE probeSucceeds \/ UNCHANGED vars
  BY <1>6, <1>9 DEF probeSucceeds, vars
<1>10. ASSUME NEW h \in Handlers, NEW n \in Nodes, NEW k \in Keys, NEW a \in Addrs,
              handleSSEStream(h, n, k, a)
       PROVE  Goal
  BY <1>10 DEF handleSSEStream
<1>11. ASSUME NEW h \in Handlers, writeRegistration(h)
       PROVE  Goal
  <2>1. retireOldNode(h) \/ claimRefused(h) \/ registrationFails(h)
    BY <1>11 DEF writeRegistration, Registers
  <2> QED
    BY <2>1 DEF retireOldNode, claimRefused, registrationFails, EndsTransaction, Idle, StreamType
<1> HIDE DEF Goal
<1> QED
  BY <1>1, <1>2, <1>3, <1>4, <1>5, <1>7, <1>8, <1>9, <1>10, <1>11 DEF Next, RunningNext

LEMMA IdentityStep == StreamInv /\ ConnectedKeyIsPinned /\ [Next]_vars => ConnectedKeyIsPinned'
<1> SUFFICES ASSUME StreamInv, ConnectedKeyIsPinned, [Next]_vars PROVE ConnectedKeyIsPinned'
  OBVIOUS
<1> USE ConstantsAssumption DEF ConnectedKeyIsPinned
<1>1. ASSUME NEW h \in Handlers, NEW answered \in BOOLEAN, claimNode(h, answered)
      PROVE  ConnectedKeyIsPinned'
  <2>1. stream \in [Handlers -> StreamType] /\ stream[h].phase = "claiming"
    BY <1>1 DEF claimNode, StreamInv, TypeOK
  <2>2. \A g \in Handlers \ {h} : stream'[g] = stream[g]
    BY <1>1, <2>1 DEF claimNode, CommitClaim
  <2>3. stream'[h] = Idle \/ stream'[h] = [stream[h] EXCEPT !.phase = "registered"]
    BY <1>1, <2>1 DEF claimNode, CommitClaim
  <2>4. stream'[h].phase # "idle" => /\ stream'[h].node = stream[h].node
                                     /\ stream'[h].publicKey = stream[h].publicKey
    BY <2>1, <2>3 DEF Idle, StreamType
  <2>5. stream'[h].phase \in {"idle", "registered"}
    BY <2>1, <2>3 DEF Idle, StreamType
  <2> QED
    BY <1>1, <2>2, <2>4, <2>5, RegistrationEffect DEF StreamInv, BusyHandlers
<1>2. CASE ~Registers
  <2>1. KeepsIdentity
    BY <1>2, OtherRowEffects DEF StreamInv
  <2> QED
    BY <1>2, <2>1, OtherStreamEffects DEF StreamInv, BusyHandlers, KeepsIdentity
<1> QED
  BY <1>1, <1>2 DEF Registers

(* The key verifiedReport takes from the connection is the pinned one. *)
THEOREM ConnectedKey == Spec => []ConnectedKeyIsPinned
<1>1. Init => ConnectedKeyIsPinned
  BY DEF Init, Idle, ConnectedKeyIsPinned
<1>2. StreamInv /\ ConnectedKeyIsPinned /\ [Next]_vars => ConnectedKeyIsPinned'
  BY IdentityStep
<1> QED
  BY <1>1, <1>2, StreamInvariance, PTL DEF Spec

(* A registration under way keeps its node, its address and what it knows  *)
(* of the rows there, but for the steps of registrations.                  *)
LEMMA TransactionFrame ==
  ASSUME StreamInv, [Next]_vars,
         ~\E h \in Handlers, n \in Nodes, k \in Keys, a \in Addrs : handleSSEStream(h, n, k, a),
         ~\E h \in Handlers : writeRegistration(h)
  PROVE  \A g \in Handlers : InTransaction(g)' =>
           InTransaction(g) /\ stream'[g].node = stream[g].node /\ tx'[g] = tx[g]
<1> DEFINE Goal == \A g \in Handlers : InTransaction(g)' =>
             InTransaction(g) /\ stream'[g].node = stream[g].node /\ tx'[g] = tx[g]
<1> USE DEF InTransaction
<1> SUFFICES Goal
  OBVIOUS
<1> stream \in [Handlers -> StreamType] /\ connections \in [Nodes -> Handlers \cup {NoConn}]
  BY DEF StreamInv, TypeOK
<1>1. ASSUME NEW h \in Handlers, addConnection(h)
      PROVE  Goal
  BY <1>1 DEF addConnection, StreamType
<1>2. ASSUME NEW h \in Handlers, cancel(h)
      PROVE  Goal
  BY <1>2 DEF cancel, Idle, StreamType
<1>3. ASSUME NEW n \in Nodes, removeConnection(n)
      PROVE  Goal
  BY <1>3 DEF removeConnection, StreamType
<1>4. CASE probeFails
  BY <1>4 DEF probeFails, dropAllConnections, StreamType
<1>5. CASE restart
  BY <1>5 DEF restart, Idle
<1>6. ASSUME UNCHANGED <<stream, tx>>
      PROVE  Goal
  BY <1>6
<1>7. ASSUME NEW h \in Handlers, WireDies(h)
      PROVE  Goal
  BY <1>6, <1>7 DEF WireDies
<1>8. ASSUME NEW n \in Nodes, removeNode(n) \/ BeginWrite(n) \/ CommitWrite(n) \/ FailWrite(n)
      PROVE  Goal
  BY <1>6, <1>8 DEF removeNode, BeginWrite, CommitWrite, FailWrite
<1>9. CASE probeSucceeds \/ UNCHANGED vars
  BY <1>6, <1>9 DEF probeSucceeds, vars
<1> HIDE DEF Goal
<1> QED
  BY <1>1, <1>2, <1>3, <1>4, <1>5, <1>7, <1>8, <1>9 DEF Next, RunningNext

LEMMA AddressStep == StreamInv /\ AddressInv /\ [Next]_vars => AddressInv'
<1> SUFFICES ASSUME StreamInv, AddressInv, [Next]_vars, NEW g \in Handlers,
                    InTransaction(g)', IndexRejects(g)'
             PROVE  tx'[g].overtaken
  BY DEF AddressInv
<1> /\ stream \in [Handlers -> StreamType] /\ tx \in [Handlers -> TxType]
    /\ nodeRow \in [Nodes -> RowType]
  BY DEF StreamInv, TypeOK
<1> PICK m \in Nodes \ {stream'[g].node} :
       /\ nodeRow'[m].live /\ nodeRow'[m].addr = tx'[g].addr
       /\ m \notin tx'[g].rows
  BY DEF IndexRejects, OnAddress
<1>1. ASSUME NEW h \in Handlers, NEW n \in Nodes, NEW k \in Keys, NEW a \in Addrs,
             handleSSEStream(h, n, k, a)
      PROVE  tx'[g].overtaken
  <2>1. nodeRow' = nodeRow
    BY <1>1 DEF handleSSEStream
  <2>2. CASE g = h
    <3>1. stream'[g].node = n /\ tx'[g].addr = a /\ tx'[g].rows = OldNodes(n, a)
      BY <1>1, <2>2 DEF handleSSEStream
    <3> QED
      BY <2>1, <3>1 DEF OldNodes, OnAddress
  <2>3. CASE g # h
    <3>1. stream'[g] = stream[g] /\ tx'[g] = tx[g]
      BY <1>1, <2>3 DEF handleSSEStream
    <3> QED
      BY <2>1, <3>1 DEF AddressInv, InTransaction, IndexRejects, OnAddress
  <2> QED
    BY <2>2, <2>3
<1>2. ASSUME NEW h \in Handlers, retireOldNode(h)
      PROVE  tx'[g].overtaken
  <2>1. nodeRow' = nodeRow
    BY <1>2 DEF retireOldNode
  <2>2. CASE g = h
    <3>1. /\ stream'[g].node = stream[g].node /\ tx'[g].addr = tx[g].addr
          /\ tx'[g].overtaken = tx[g].overtaken
          /\ tx'[g].rows = {r \in tx[g].rows : OnAddress(r, tx[g].addr)}
      BY <1>2, <2>2 DEF retireOldNode, StreamType, TxType
    <3>2. InTransaction(g)
      BY <1>2, <2>2 DEF retireOldNode, InTransaction
    <3> QED
      BY <2>1, <3>1, <3>2 DEF AddressInv, IndexRejects, OnAddress
  <2>3. CASE g # h
    <3>1. stream'[g] = stream[g] /\ tx'[g] = tx[g]
      BY <1>2, <2>3 DEF retireOldNode
    <3> QED
      BY <2>1, <3>1 DEF AddressInv, InTransaction, IndexRejects, OnAddress
  <2> QED
    BY <2>2, <2>3
<1>3. ASSUME NEW h \in Handlers, NEW answered \in BOOLEAN, claimNode(h, answered)
      PROVE  tx'[g].overtaken
  <2> DEFINE n == stream[h].node
  <2>1. g # h
    <3>1. stream'[h] = Idle \/ stream'[h] = [stream[h] EXCEPT !.phase = "registered"]
      BY <1>3 DEF claimNode, CommitClaim
    <3> QED
      BY <3>1 DEF InTransaction, Idle, StreamType
  <2>2. stream'[g] = stream[g]
    BY <1>3, <2>1 DEF claimNode, CommitClaim
  <2>3. tx'[g] = IF tx[g].addr = tx[h].addr /\ ~OnAddress(n, tx[h].addr)
                 THEN [tx[g] EXCEPT !.overtaken = TRUE] ELSE tx[g]
    BY <1>3, <2>1 DEF claimNode, CommitClaim
  <2>4. /\ tx'[g].addr = tx[g].addr /\ tx'[g].rows = tx[g].rows
        /\ tx[g].overtaken => tx'[g].overtaken
    BY <2>3 DEF TxType
  <2>5. OnAddress(m, tx[g].addr) => tx'[g].overtaken
    BY <2>2, <2>4 DEF AddressInv, InTransaction, IndexRejects
  <2>6. CASE m = n
    <3>1. tx[g].addr = tx[h].addr
      BY <1>3, <2>4, <2>6, RegistrationEffect DEF OnAddress
    <3>2. ~OnAddress(n, tx[h].addr) => tx'[g].overtaken
      BY <2>3, <3>1 DEF TxType
    <3> QED
      BY <2>5, <2>6, <3>1, <3>2
  <2>7. CASE m # n
    BY <1>3, <2>4, <2>5, <2>7, RegistrationEffect DEF OnAddress
  <2> QED
    BY <2>6, <2>7
<1>4. ASSUME NEW h \in Handlers, claimRefused(h) \/ registrationFails(h)
      PROVE  tx'[g].overtaken
  <2>1. nodeRow' = nodeRow /\ stream' = [stream EXCEPT ![h] = Idle] /\ tx' = [tx EXCEPT ![h] = NoTx]
    BY <1>4 DEF claimRefused, registrationFails, EndsTransaction
  <2>2. g # h
    BY <2>1 DEF InTransaction, Idle
  <2>3. stream'[g] = stream[g] /\ tx'[g] = tx[g]
    BY <2>1, <2>2
  <2> QED
    BY <2>1, <2>3 DEF AddressInv, InTransaction, IndexRejects, OnAddress
<1>5. CASE /\ ~\E h \in Handlers, n \in Nodes, k \in Keys, a \in Addrs : handleSSEStream(h, n, k, a)
           /\ ~\E h \in Handlers : writeRegistration(h)
  <2>1. InTransaction(g) /\ stream'[g].node = stream[g].node /\ tx'[g] = tx[g]
    BY <1>5, TransactionFrame
  <2>2. KeepsIdentity
    BY <1>5, OtherRowEffects DEF StreamInv, Registers, writeRegistration
  <2>3. OnAddress(m, tx[g].addr)
    BY <2>1, <2>2 DEF KeepsIdentity, OnAddress
  <2> QED
    BY <2>1, <2>3 DEF AddressInv, IndexRejects
<1> QED
  BY <1>1, <1>2, <1>3, <1>4, <1>5 DEF writeRegistration

(* status-writer.ts 13-14, for any number of registrations that race for   *)
(* one address: having retired the rows it found there, one meets the      *)
(* unique index only when another came to the address meanwhile.           *)
THEOREM RejectedOnlyWhenOvertaken == Spec => []OnlyOvertakenIsRejected
<1>1. Init => AddressInv
  BY DEF Init, Idle, AddressInv, InTransaction
<1>2. StreamInv /\ AddressInv /\ [Next]_vars => AddressInv'
  BY AddressStep
<1>3. AddressInv => OnlyOvertakenIsRejected
  BY DEF AddressInv, InTransaction, OnlyOvertakenIsRejected
<1> QED
  BY <1>1, <1>2, <1>3, StreamInvariance, PTL DEF Spec

(* A node id claimed with one key is never claimed with another. *)
THEOREM PinIsForever == Spec => PinNeverChanges
<1> DEFINE Keeps == \A n \in Nodes : nodeRow[n].publicKey # NoKey
                                     => nodeRow'[n].publicKey = nodeRow[n].publicKey
<1>1. StreamInv /\ [Next]_vars => [Keeps]_vars
  <2> SUFFICES ASSUME StreamInv, Next PROVE Keeps
    OBVIOUS
  <2>1. ASSUME NEW h \in Handlers, NEW answered \in BOOLEAN, claimNode(h, answered)
        PROVE  Keeps
    BY <2>1, RegistrationEffect
  <2>2. CASE ~Registers
    BY <2>2, OtherRowEffects DEF StreamInv, KeepsIdentity
  <2> QED
    BY <2>1, <2>2 DEF Registers
<1> QED
  BY <1>1, StreamInvariance, PTL DEF Spec, PinNeverChanges

(***************************************************************************)
(* The chain of availability writes                                        *)
(***************************************************************************)

(* A step that touches neither the row, the map entry nor the writes of a  *)
(* node, and completes no registration of it, keeps it settling.           *)
LEMMA SettlingFrame ==
  ASSUME NEW m \in Nodes, Settling(m),
         nodeRow'[m] = nodeRow[m], queued'[m] = queued[m], inFlight'[m] = inFlight[m],
         unsynced'[m] = unsynced[m], connections'[m] = connections[m],
         Registering(m) => Registering(m)'
  PROVE  Settling(m)'
BY DEF Settling, isConnected

(* Only addConnection takes a handler out of the registered phase. *)
LEMMA RegisteringStays ==
  ASSUME StreamInv, NEW m \in Nodes,
         \A g \in Handlers : stream[g].phase = "registered" => stream'[g] = stream[g]
  PROVE  Registering(m) => Registering(m)'
BY DEF Registering

LEMMA WriteStep == StreamInv /\ WriteInv /\ [Next]_vars => WriteInv'
<1> SUFFICES ASSUME StreamInv, WriteInv, [Next]_vars, NEW m \in Nodes
             PROVE  Settling(m)'
  BY DEF WriteInv
<1> /\ stream \in [Handlers -> StreamType] /\ connections \in [Nodes -> Handlers \cup {NoConn}]
    /\ nodeRow \in [Nodes -> RowType] /\ queued \in [Nodes -> Nat]
    /\ unsynced \in [Nodes -> BOOLEAN] /\ inFlight \in [Nodes -> {"none", "true", "false"}]
    /\ Settling(m)
  BY DEF StreamInv, TypeOK, WriteInv
<1> USE ConstantsAssumption
<1>1. ASSUME NEW h \in Handlers, NEW answered \in BOOLEAN, claimNode(h, answered)
      PROVE  Settling(m)'
  <2> DEFINE n == stream[h].node
  <2>0. n \in Nodes /\ stream[h].phase = "claiming"
    BY <1>1 DEF claimNode, StreamInv, BusyHandlers
  <2>1. CASE m = n
    <3>1. CASE answered
      <4>1. stream'[h] = [stream[h] EXCEPT !.phase = "registered"]
        BY <1>1, <3>1 DEF claimNode, CommitClaim
      <4>2. Registering(m)'
        BY <2>1, <4>1 DEF Registering, StreamType
      <4> QED
        BY <4>2 DEF Settling
    <3>2. CASE ~answered
      <4>1. unsynced'[m]
        BY <1>1, <2>0, <2>1, <3>2 DEF claimNode, CommitClaim
      <4> QED
        BY <4>1 DEF Settling
    <3> QED
      BY <3>1, <3>2
  <2>2. CASE m # n
    <3>1. Registering(m) => Registering(m)'
      BY <1>1, <2>0, RegisteringStays DEF claimNode, CommitClaim
    <3>2. nodeRow'[m] = nodeRow[m] \/ ~nodeRow'[m].live
      BY <1>1, <2>2, RegistrationEffect
    <3>3. CASE ~nodeRow'[m].live
      BY <3>3 DEF Settling
    <3>4. unsynced'[m] = unsynced[m]
      BY <1>1, <2>2 DEF claimNode, CommitClaim
    <3>5. CASE nodeRow'[m] = nodeRow[m]
      BY <1>1, <3>1, <3>4, <3>5, SettlingFrame DEF claimNode, CommitClaim
    <3> QED
      BY <3>2, <3>3, <3>5
  <2> QED
    BY <2>1, <2>2
<1>2. ASSUME NEW h \in Handlers, addConnection(h)
      PROVE  Settling(m)'
  <2>1. stream[h].node \in Nodes
    BY <1>2 DEF addConnection, StreamInv, BusyHandlers
  <2>2. queued' = [queued EXCEPT ![stream[h].node] = @ + 1]
    BY <1>2 DEF addConnection, syncAvailability
  <2>3. CASE m = stream[h].node
    <3>1. queued'[m] # 0
      BY <2>2, <2>3
    <3> QED
      BY <3>1 DEF Settling
  <2>4. CASE m # stream[h].node
    <3>1. \A g \in Handlers : stream[g].phase = "registered" /\ g # h => stream'[g] = stream[g]
      BY <1>2, <2>1 DEF addConnection, StreamInv, OpenStreamIsTheConnection
    <3>2. Registering(m) => Registering(m)'
      BY <2>4, <3>1 DEF Registering
    <3> QED
      BY <1>2, <2>1, <2>2, <2>4, <3>2, SettlingFrame DEF addConnection
  <2> QED
    BY <2>3, <2>4
<1>3. ASSUME NEW h \in Handlers, cancel(h)
      PROVE  Settling(m)'
  <2>1. stream[h].node \in Nodes
    BY <1>3 DEF cancel, StreamInv, BusyHandlers
  <2>2. Registering(m) => Registering(m)'
    BY <1>3, RegisteringStays DEF cancel
  <2>3. CASE connections[m] = h
    <3>1. stream[h].node = m
      BY <2>3 DEF StreamInv, OpenStreamIsTheConnection
    <3>2. queued'[m] = queued[m] + 1
      BY <1>3, <2>3, <3>1 DEF cancel, syncAvailability
    <3>3. queued'[m] # 0
      BY <3>2
    <3> QED
      BY <3>3 DEF Settling
  <2>4. CASE connections[m] # h
    <3>1. connections'[m] = connections[m] /\ queued'[m] = queued[m]
      BY <1>3, <2>1, <2>4 DEF cancel, syncAvailability
    <3> QED
      BY <1>3, <2>2, <3>1, SettlingFrame DEF cancel
  <2> QED
    BY <2>3, <2>4
<1>4. ASSUME NEW h \in Handlers, WireDies(h)
      PROVE  Settling(m)'
  BY <1>4, SettlingFrame, RegisteringStays DEF WireDies
<1>5. ASSUME NEW n \in Nodes, removeConnection(n)
      PROVE  Settling(m)'
  <2>1. queued' = [queued EXCEPT ![n] = @ + 1]
    BY <1>5 DEF removeConnection, syncAvailability
  <2>2. CASE m = n
    <3>1. queued'[m] # 0
      BY <2>1, <2>2
    <3> QED
      BY <3>1 DEF Settling
  <2>3. CASE m # n
    <3>1. stream[connections[n]].phase = "open"
      BY <1>5 DEF removeConnection, StreamInv, OpenStreamIsTheConnection
    <3>2. Registering(m) => Registering(m)'
      BY <1>5, <3>1, RegisteringStays DEF removeConnection
    <3> QED
      BY <1>5, <2>1, <2>3, <3>2, SettlingFrame DEF removeConnection
  <2> QED
    BY <2>2, <2>3
<1>6. ASSUME NEW n \in Nodes, removeNode(n)
      PROVE  Settling(m)'
  <2>1. Registering(m) => Registering(m)'
    BY <1>6, RegisteringStays DEF removeNode
  <2>2. CASE m = n
    <3>1. ~nodeRow'[m].live
      BY <1>6, <2>2 DEF removeNode, RowType
    <3> QED
      BY <3>1 DEF Settling
  <2>3. CASE m # n
    BY <1>6, <2>1, <2>3, SettlingFrame DEF removeNode
  <2> QED
    BY <2>2, <2>3
<1>7. ASSUME NEW n \in Nodes, BeginWrite(n)
      PROVE  Settling(m)'
  <2>1. Registering(m) => Registering(m)'
    BY <1>7, RegisteringStays DEF BeginWrite
  <2>2. CASE m = n
    <3>1. inFlight'[m] = IF isConnected(m) THEN "true" ELSE "false"
      BY <1>7, <2>2 DEF BeginWrite
    <3>2. isConnected(m)' = isConnected(m)
      BY <1>7 DEF BeginWrite, isConnected
    <3> QED
      BY <3>1, <3>2 DEF Settling, isConnected
  <2>3. CASE m # n
    BY <1>7, <2>1, <2>3, SettlingFrame DEF BeginWrite
  <2> QED
    BY <2>2, <2>3
<1>8. ASSUME NEW n \in Nodes, CommitWrite(n)
      PROVE  Settling(m)'
  <2>1. Registering(m) => Registering(m)'
    BY <1>8, RegisteringStays DEF CommitWrite
  <2>2. CASE m = n
    <3>1. /\ nodeRow'[m].available = (inFlight[m] = "true") /\ nodeRow'[m].live = nodeRow[m].live
          /\ inFlight[m] # "none" /\ inFlight'[m] = "none"
          /\ queued'[m] = queued[m] /\ unsynced'[m] = unsynced[m] /\ connections'[m] = connections[m]
      BY <1>8, <2>2 DEF CommitWrite, RowType
    <3> QED
      BY <2>1, <3>1 DEF Settling, isConnected
  <2>3. CASE m # n
    BY <1>8, <2>1, <2>3, SettlingFrame DEF CommitWrite
  <2> QED
    BY <2>2, <2>3
<1>9. ASSUME NEW n \in Nodes, FailWrite(n)
      PROVE  Settling(m)'
  <2>1. Registering(m) => Registering(m)'
    BY <1>9, RegisteringStays DEF FailWrite
  <2>2. CASE m = n
    BY <1>9, <2>2 DEF FailWrite, Settling
  <2>3. CASE m # n
    BY <1>9, <2>1, <2>3, SettlingFrame DEF FailWrite
  <2> QED
    BY <2>2, <2>3
<1>10. CASE probeFails
  <2>1. Registering(m) => Registering(m)'
    BY <1>10, RegisteringStays DEF probeFails, dropAllConnections
  <2>2. CASE connections[m] = NoConn
    BY <1>10, <2>1, <2>2, SettlingFrame DEF probeFails, dropAllConnections, isConnected
  <2>3. CASE connections[m] # NoConn
    BY <1>10, <2>3 DEF probeFails, dropAllConnections, isConnected, Settling
  <2> QED
    BY <2>2, <2>3
<1>11. CASE probeSucceeds \/ UNCHANGED vars
  BY <1>11, SettlingFrame, RegisteringStays DEF probeSucceeds, vars
<1>12. CASE restart
  BY <1>12 DEF restart, Settling
<1>13. ASSUME NEW h \in Handlers, NEW n \in Nodes, NEW k \in Keys, NEW a \in Addrs,
              handleSSEStream(h, n, k, a)
       PROVE  Settling(m)'
  <2>1. Registering(m) => Registering(m)'
    BY <1>13, RegisteringStays DEF handleSSEStream
  <2> QED
    BY <1>13, <2>1, SettlingFrame DEF handleSSEStream
<1>14. ASSUME NEW h \in Handlers, retireOldNode(h) \/ claimRefused(h) \/ registrationFails(h)
       PROVE  Settling(m)'
  <2>1. Registering(m) => Registering(m)'
    BY <1>14, RegisteringStays
       DEF retireOldNode, claimRefused, registrationFails, EndsTransaction
  <2> QED
    BY <1>14, <2>1, SettlingFrame
       DEF retireOldNode, claimRefused, registrationFails, EndsTransaction
<1> QED
  BY <1>1, <1>2, <1>3, <1>4, <1>5, <1>6, <1>7, <1>8, <1>9, <1>10, <1>11, <1>12, <1>13, <1>14
     DEF Next, RunningNext, writeRegistration

(* connections.ts 58-59, for any number of overlapping streams and slow or *)
(* failing writes: the row of a settled live node agrees with the map.     *)
THEOREM Availability == Spec => []AvailabilitySettled
<1>1. Init => WriteInv
  <2> SUFFICES ASSUME Init, NEW n \in Nodes PROVE Settling(n)
    BY DEF WriteInv
  <2>1. nodeRow[n].available = FALSE
    BY DEF Init, NewRow, LegacyRow
  <2>2. isConnected(n) = FALSE
    BY DEF Init, isConnected
  <2>3. inFlight[n] = "none"
    BY DEF Init
  <2> QED
    BY <2>1, <2>2, <2>3 DEF Settling
<1>2. StreamInv /\ WriteInv /\ [Next]_vars => WriteInv'
  BY WriteStep
<1>3. WriteInv => AvailabilitySettled
  BY DEF WriteInv, Settling, AvailabilitySettled
<1> QED
  BY <1>1, <1>2, <1>3, StreamInvariance, PTL DEF Spec
=============================================================================
