------------------------- MODULE TetherConnections -------------------------
(***************************************************************************)
(* The tether's connection registry: which daemon holds the SSE stream of  *)
(* which node, and what the ai_node rows of the database say about it.     *)
(*                                                                         *)
(* A handler is one run of handleSSEStream: it registers the node in a     *)
(* transaction, starts a stream, and ends when the stream is cancelled.    *)
(* A connection id is only ever compared for equality, so the handler that *)
(* owns the connection stands for it.  Handlers that have ended are used   *)
(* again, so a daemon may reconnect without bound.                         *)
(*                                                                         *)
(* The transaction of writeRegistration runs at Postgres' default level,   *)
(* READ COMMITTED: an UPDATE finds its rows in a snapshot, waits for the   *)
(* transactions that hold them, and looks at them again.  Its rows stay    *)
(* locked until the transaction ends, and its effect is seen by others     *)
(* when it commits.  The claim and the commit that follows it at once are  *)
(* one step.                                                               *)
(*                                                                         *)
(* JavaScript runs a callback up to its next await without interruption;   *)
(* every action is one such stretch, or one statement of the database.     *)
(***************************************************************************)
EXTENDS Naturals

CONSTANTS
  Nodes,        \* node ids
  Keys,         \* Ed25519 public keys of daemons
  Addrs,        \* host:port pairs
  Handlers,     \* concurrent runs of handleSSEStream
  NoKey,        \* public_key IS NULL
  NoAddr,       \* the row does not exist yet
  NoNode,       \* the handler is idle
  NoConn,       \* the connections map has no entry
  MaxBacklog    \* a daemon registers only while fewer writes are queued

ASSUME ConstantsAssumption ==
  /\ NoKey \notin Keys
  /\ NoAddr \notin Addrs
  /\ NoNode \notin Nodes
  /\ NoConn \notin Handlers
  /\ MaxBacklog \in Nat

VARIABLES
  nodeRow,      \* database: the ai_node rows
  connections,  \* tether: the Map of node id to ActiveConnection
  stream,       \* tether: phase, node and key of each handler
  tx,           \* database: the registration transaction of each handler
  wire,         \* network: the daemon holds its end of the stream; up without one
  queued,       \* tether: availability writes chained but not started
  inFlight,     \* tether: the availability write being executed
  unsynced,     \* history: a change of the map has no write left to carry it
  reachable     \* tether: the database probe's last answer

vars == <<nodeRow, connections, stream, tx, wire, queued, inFlight, unsynced, reachable>>

RowType    == [publicKey : Keys \cup {NoKey}, addr : Addrs \cup {NoAddr},
               available : BOOLEAN, live : BOOLEAN]
StreamType == [phase : {"idle", "retiring", "claiming", "registered", "open", "closed"},
               node : Nodes \cup {NoNode}, publicKey : Keys \cup {NoKey}]
TxType     == [addr : Addrs \cup {NoAddr}, rows : SUBSET Nodes, overtaken : BOOLEAN]
Idle       == [phase |-> "idle", node |-> NoNode, publicKey |-> NoKey]

(* rows: the rows the retiring UPDATE found, then the ones it holds.       *)
(* overtaken: history, a row came to the address since they were found.    *)
NoTx == [addr |-> NoAddr, rows |-> {}, overtaken |-> FALSE]

TypeOK ==
  /\ nodeRow \in [Nodes -> RowType]
  /\ connections \in [Nodes -> Handlers \cup {NoConn}]
  /\ stream \in [Handlers -> StreamType]
  /\ tx \in [Handlers -> TxType]
  /\ wire \in [Handlers -> {"up", "gone"}]
  /\ queued \in [Nodes -> Nat]
  /\ inFlight \in [Nodes -> {"none", "true", "false"}]
  /\ unsynced \in [Nodes -> BOOLEAN]
  /\ reachable \in BOOLEAN

(* Rows may exist from an earlier release, before keys were pinned; no two *)
(* live ones share an address, by ai_node_host_port_idx.                   *)
NewRow    == [publicKey |-> NoKey, addr |-> NoAddr, available |-> FALSE, live |-> FALSE]
LegacyRow(a) == [publicKey |-> NoKey, addr |-> a, available |-> FALSE, live |-> TRUE]

Init ==
  /\ nodeRow \in [Nodes -> {NewRow} \cup {LegacyRow(a) : a \in Addrs}]
  /\ \A m, n \in Nodes : m # n /\ nodeRow[m].live /\ nodeRow[n].live
                           => nodeRow[m].addr # nodeRow[n].addr
  /\ connections = [n \in Nodes |-> NoConn]
  /\ stream = [h \in Handlers |-> Idle]
  /\ tx = [h \in Handlers |-> NoTx]
  /\ wire = [h \in Handlers |-> "up"]
  /\ queued = [n \in Nodes |-> 0]
  /\ inFlight = [n \in Nodes |-> "none"]
  /\ unsynced = [n \in Nodes |-> FALSE]
  /\ reachable = TRUE

isConnected(n) == connections[n] # NoConn
Registering(n) == \E h \in Handlers : stream[h].phase = "registered" /\ stream[h].node = n

(***************************************************************************)
(* Registration and the stream                                             *)
(***************************************************************************)

OnAddress(n, a) == nodeRow[n].live /\ nodeRow[n].addr = a

(* Mutant of OldNodes: nobody is retired. *)
OldNodes_None(n, a) == {}

(* The rows the retiring UPDATE asks for. *)
OldNodes(n, a) == {m \in Nodes \ {n} : OnAddress(m, a)}

(* A row that a transaction has retired and not yet committed or rolled    *)
(* back: every other write of it waits.                                    *)
Locked(n) == \E h \in Handlers : stream[h].phase = "claiming" /\ n \in tx[h].rows

(* A signed registration arrives; the retiring UPDATE takes its snapshot.  *)
handleSSEStream(h, n, k, a) ==
  /\ stream[h].phase = "idle"
  /\ queued[n] < MaxBacklog
  /\ stream' = [stream EXCEPT ![h] = [phase |-> "retiring", node |-> n, publicKey |-> k]]
  /\ tx' = [tx EXCEPT ![h] = [addr |-> a, rows |-> OldNodes(n, a), overtaken |-> FALSE]]
  /\ UNCHANGED <<nodeRow, connections, wire, queued, inFlight, unsynced, reachable>>

(* It holds the rows that are still live on the address, and no others. *)
retireOldNode(h) ==
  /\ stream[h].phase = "retiring"
  /\ \A m \in tx[h].rows : ~Locked(m)
  /\ tx' = [tx EXCEPT ![h].rows = {m \in @ : OnAddress(m, tx[h].addr)}]
  /\ stream' = [stream EXCEPT ![h].phase = "claiming"]
  /\ UNCHANGED <<nodeRow, connections, wire, queued, inFlight, unsynced, reachable>>

(* The upsert's setWhere. *)
MayClaim(n, k) == nodeRow[n].publicKey \in {NoKey, k}

(* ai_node_host_port_idx holds a live row on the address that this         *)
(* transaction has not retired: the upsert would be rejected.              *)
IndexRejects(h) ==
  \E m \in Nodes \ {stream[h].node} : OnAddress(m, tx[h].addr) /\ m \notin tx[h].rows

(* What the commit of the retirement and the upsert writes.  Its answer    *)
(* may be lost with the connection: the daemon is then refused although    *)
(* its row says it is available.                                           *)
CommitClaim(h, answered) ==
  LET n == stream[h].node
      a == tx[h].addr IN
  /\ nodeRow' = [m \in Nodes |->
       IF m = n
       THEN [publicKey |-> stream[h].publicKey, addr |-> a, available |-> TRUE, live |-> TRUE]
       ELSE IF m \in tx[h].rows
            THEN [nodeRow[m] EXCEPT !.available = FALSE, !.live = FALSE]
            ELSE nodeRow[m]]
  /\ tx' = [g \in Handlers |->
       IF g = h THEN NoTx
       ELSE IF tx[g].addr = a /\ ~OnAddress(n, a) THEN [tx[g] EXCEPT !.overtaken = TRUE]
       ELSE tx[g]]
  /\ stream' = [stream EXCEPT ![h] = IF answered THEN [@ EXCEPT !.phase = "registered"] ELSE Idle]
  /\ unsynced' = [unsynced EXCEPT ![n] = @ \/ ~answered]
  /\ UNCHANGED <<connections, wire, queued, inFlight, reachable>>

(* Mutant of claimNode: the pin is checked by nobody. *)
claimNode_AnyKey(h, answered) ==
  /\ stream[h].phase = "claiming"
  /\ ~Locked(stream[h].node)
  /\ ~IndexRejects(h)
  /\ CommitClaim(h, answered)

(* The upsert, which waits while another transaction holds the row. *)
claimNode(h, answered) ==
  /\ stream[h].phase = "claiming"
  /\ ~Locked(stream[h].node)
  /\ MayClaim(stream[h].node, stream[h].publicKey)
  /\ ~IndexRejects(h)
  /\ CommitClaim(h, answered)

EndsTransaction(h) ==
  /\ tx' = [tx EXCEPT ![h] = NoTx]
  /\ stream' = [stream EXCEPT ![h] = Idle]
  /\ UNCHANGED <<nodeRow, connections, wire, queued, inFlight, unsynced, reachable>>

(* identity_mismatch: no row was written, so the retirement is rolled back. *)
claimRefused(h) ==
  /\ stream[h].phase = "claiming"
  /\ ~Locked(stream[h].node)
  /\ ~MayClaim(stream[h].node, stream[h].publicKey)
  /\ EndsTransaction(h)

(* registration_failed: a statement threw, as the database was out of      *)
(* reach, two transactions waited for each other, or the index rejected    *)
(* the upsert.                                                             *)
registrationFails(h) ==
  /\ stream[h].phase \in {"retiring", "claiming"}
  /\ EndsTransaction(h)

writeRegistration(h) ==
  \/ retireOldNode(h)
  \/ \E answered \in BOOLEAN : claimNode(h, answered)
  \/ claimRefused(h) \/ registrationFails(h)

syncAvailability(n) == queued' = [queued EXCEPT ![n] = @ + 1]

(* Mutants of addConnection: the row was just written available, so no     *)
(* write is chained; and the superseded stream is left open.               *)
addWithoutSync(h) ==
  LET n == stream[h].node IN
  /\ stream[h].phase = "registered"
  /\ stream' = [g \in Handlers |->
       IF g = h THEN [stream[g] EXCEPT !.phase = "open"]
       ELSE IF connections[n] = g THEN [stream[g] EXCEPT !.phase = "closed"]
       ELSE stream[g]]
  /\ connections' = [connections EXCEPT ![n] = h]
  /\ UNCHANGED <<nodeRow, tx, wire, queued, inFlight, unsynced, reachable>>

addWithoutSuperseding(h) ==
  LET n == stream[h].node IN
  /\ stream[h].phase = "registered"
  /\ stream' = [stream EXCEPT ![h].phase = "open"]
  /\ connections' = [connections EXCEPT ![n] = h]
  /\ syncAvailability(n)
  /\ UNCHANGED <<nodeRow, tx, wire, inFlight, unsynced, reachable>>

(* The stream's start callback.  The connection it supersedes is closed    *)
(* with its "superseded" event possibly still unread.                      *)
addConnection(h) ==
  LET n == stream[h].node IN
  /\ stream[h].phase = "registered"
  /\ stream' = [g \in Handlers |->
       IF g = h THEN [stream[g] EXCEPT !.phase = "open"]
       ELSE IF connections[n] = g THEN [stream[g] EXCEPT !.phase = "closed"]
       ELSE stream[g]]
  /\ connections' = [connections EXCEPT ![n] = h]
  /\ syncAvailability(n)
  /\ UNCHANGED <<nodeRow, tx, wire, inFlight, unsynced, reachable>>

(* Mutant of cancel: the daemon's departure is not written. *)
cancelWithoutSync(h) ==
  LET n == stream[h].node IN
  /\ stream[h].phase \in {"open", "closed"}
  /\ stream' = [stream EXCEPT ![h] = Idle]
  /\ connections' = [connections EXCEPT ![n] = IF @ = h THEN NoConn ELSE @]
  /\ wire' = [wire EXCEPT ![h] = "up"]
  /\ UNCHANGED <<nodeRow, tx, queued, inFlight, unsynced, reachable>>

(* The stream's cancel callback: the daemon hung up.  It passes its own    *)
(* connection id, so a superseded stream removes nothing.  A closed stream *)
(* whose last events the daemon has read ends the same way.                *)
cancel(h) ==
  LET n == stream[h].node IN
  /\ stream[h].phase \in {"open", "closed"}
  /\ stream' = [stream EXCEPT ![h] = Idle]
  /\ IF connections[n] = h
     THEN /\ connections' = [connections EXCEPT ![n] = NoConn]
          /\ syncAvailability(n)
     ELSE UNCHANGED <<connections, queued>>
  /\ wire' = [wire EXCEPT ![h] = "up"]
  /\ UNCHANGED <<nodeRow, tx, inFlight, unsynced, reachable>>

(* removeConnection without a connection id: the liveness timeout, or a    *)
(* keepalive, state or config event that could not be written.  All three  *)
(* need a daemon that is gone (TetherKeepalive: a healthy one never        *)
(* expires).                                                               *)
removeConnection(n) ==
  LET h == connections[n] IN
  /\ h # NoConn
  /\ wire[h] = "gone"
  /\ connections' = [connections EXCEPT ![n] = NoConn]
  /\ stream' = [stream EXCEPT ![h].phase = "closed"]
  /\ syncAvailability(n)
  /\ UNCHANGED <<nodeRow, tx, wire, inFlight, unsynced, reachable>>

(* The daemon or its network dies without closing the stream.  Before the  *)
(* registration and after the stream's end nobody looks at the wire.       *)
WireDies(h) ==
  /\ stream[h].phase \in {"registered", "open"}
  /\ wire[h] = "up"
  /\ wire' = [wire EXCEPT ![h] = "gone"]
  /\ UNCHANGED <<nodeRow, connections, stream, tx, queued, inFlight, unsynced, reachable>>

(***************************************************************************)
(* The chain of availability writes of one node                            *)
(***************************************************************************)

(* writeAvailability reads the map only when its turn has come. *)
BeginWrite(n) ==
  /\ inFlight[n] = "none"
  /\ queued[n] > 0
  /\ queued' = [queued EXCEPT ![n] = @ - 1]
  /\ inFlight' = [inFlight EXCEPT ![n] = IF isConnected(n) THEN "true" ELSE "false"]
  /\ unsynced' = [unsynced EXCEPT ![n] = FALSE]
  /\ UNCHANGED <<nodeRow, connections, stream, tx, wire, reachable>>

(* The update waits while a registration holds the row. *)
CommitWrite(n) ==
  /\ inFlight[n] # "none"
  /\ ~Locked(n)
  /\ nodeRow' = [nodeRow EXCEPT ![n].available = (inFlight[n] = "true")]
  /\ inFlight' = [inFlight EXCEPT ![n] = "none"]
  /\ UNCHANGED <<connections, stream, tx, wire, queued, unsynced, reachable>>

(* A failed update is logged and not repeated. *)
FailWrite(n) ==
  /\ inFlight[n] # "none"
  /\ inFlight' = [inFlight EXCEPT ![n] = "none"]
  /\ unsynced' = [unsynced EXCEPT ![n] = TRUE]
  /\ UNCHANGED <<nodeRow, connections, stream, tx, wire, queued, reachable>>

(***************************************************************************)
(* The database probe, the process and the dashboard                       *)
(***************************************************************************)

(* dropAllConnections writes no availability. *)
dropAllConnections ==
  /\ connections' = [n \in Nodes |-> NoConn]
  /\ stream' = [h \in Handlers |->
       IF stream[h].phase = "open" THEN [stream[h] EXCEPT !.phase = "closed"] ELSE stream[h]]
  /\ unsynced' = [n \in Nodes |-> unsynced[n] \/ isConnected(n)]

probeFails ==
  /\ reachable
  /\ reachable' = FALSE
  /\ dropAllConnections
  /\ UNCHANGED <<nodeRow, tx, wire, queued, inFlight>>

probeSucceeds ==
  /\ ~reachable
  /\ reachable' = TRUE
  /\ UNCHANGED <<nodeRow, connections, stream, tx, wire, queued, inFlight, unsynced>>

(* A shutdown or a crash, and the next start.  Nothing in memory survives  *)
(* and no availability is written on the way down or up.                   *)
restart ==
  /\ connections' = [n \in Nodes |-> NoConn]
  /\ stream' = [h \in Handlers |-> Idle]
  /\ tx' = [h \in Handlers |-> NoTx]
  /\ queued' = [n \in Nodes |-> 0]
  /\ inFlight' = [n \in Nodes |-> "none"]
  /\ unsynced' = [n \in Nodes |-> TRUE]
  /\ reachable' = TRUE
  /\ wire' = [h \in Handlers |-> "up"]
  /\ UNCHANGED nodeRow

(* The dashboard removes a node an operator no longer wants to see. *)
removeNode(n) ==
  /\ ~Locked(n)
  /\ nodeRow[n].live
  /\ ~nodeRow[n].available
  /\ nodeRow' = [nodeRow EXCEPT ![n].live = FALSE]
  /\ UNCHANGED <<connections, stream, tx, wire, queued, inFlight, unsynced, reachable>>

(* Everything that happens while one tether process runs. *)
RunningNext ==
  \/ \E h \in Handlers, n \in Nodes, k \in Keys, a \in Addrs : handleSSEStream(h, n, k, a)
  \/ \E h \in Handlers : writeRegistration(h) \/ addConnection(h) \/ cancel(h) \/ WireDies(h)
  \/ \E n \in Nodes : \/ removeConnection(n) \/ removeNode(n)
                      \/ BeginWrite(n) \/ CommitWrite(n) \/ FailWrite(n)
  \/ probeFails \/ probeSucceeds

Next == RunningNext \/ restart

Spec == Init /\ [][Next]_vars

(* A transaction comes to its end, the database breaking a deadlock.       *)
(* A handler that was given the response runs its start callback; a closed *)
(* stream drains or breaks; the promise chain runs and every statement     *)
(* ends; the keepalive interval finds a daemon that is gone.               *)
Fairness ==
  /\ \A h \in Handlers : /\ WF_vars(writeRegistration(h))
                         /\ WF_vars(addConnection(h))
                         /\ WF_vars(stream[h].phase = "closed" /\ cancel(h))
  /\ \A n \in Nodes : /\ WF_vars(removeConnection(n))
                      /\ WF_vars(BeginWrite(n))
                      /\ WF_vars(CommitWrite(n) \/ FailWrite(n))

FairSpec == Spec /\ Fairness

(***************************************************************************)
(* Properties                                                              *)
(***************************************************************************)

(* connections.ts 58-59: writes of one node run in order and read the map  *)
(* when they run.  Once a live node has no write left and no registration  *)
(* under way, the row agrees with the map, however streams were opened,    *)
(* superseded, cancelled and expired while earlier writes were slow.       *)
AvailabilitySettled ==
  \A n \in Nodes :
    nodeRow[n].live /\ queued[n] = 0 /\ inFlight[n] = "none"
      /\ ~unsynced[n] /\ ~Registering(n)
    => nodeRow[n].available = isConnected(n)

(* addConnection closes what it supersedes and removeConnection what it    *)
(* removes: a stream the tether holds open is the one in the map, so no    *)
(* daemon waits on a stream that no push will ever reach.                  *)
OpenStreamIsTheConnection ==
  \A h \in Handlers, n \in Nodes :
    (stream[h].phase = "open" /\ stream[h].node = n) <=> connections[n] = h

(* verifiedReport trusts the connection's key without asking the database: *)
(* it is the key pinned in the node's row, and so is a registered one.     *)
ConnectedKeyIsPinned ==
  \A h \in Handlers : stream[h].phase \in {"registered", "open"}
                        => stream[h].publicKey = nodeRow[stream[h].node].publicKey

(* status-writer.ts 13-14: "The old node on the host is retired first      *)
(* because the live host:port index would reject the insert".  A claim     *)
(* meets the index only when another registration brought a row to the     *)
(* address after this one had looked there, however it waited for rows     *)
(* that others held, and however those then committed or rolled back.      *)
OnlyOvertakenIsRejected ==
  \A h \in Handlers : stream[h].phase = "claiming" /\ IndexRejects(h) => tx[h].overtaken

(* status-writer.ts 11-15: two daemons racing to claim one id cannot both  *)
(* pass, and a claimed id is never claimed by another key.                 *)
PinNeverChanges ==
  [][\A n \in Nodes : nodeRow[n].publicKey # NoKey
                       => nodeRow'[n].publicKey = nodeRow[n].publicKey]_vars

(* A node that is no longer connected leaves the gateway's routing, unless *)
(* it comes back, or the write was lost with the database or the process.  *)
DisconnectedLeavesRouting ==
  \A n \in Nodes :
    ~isConnected(n) ~> \/ ~(nodeRow[n].available /\ nodeRow[n].live)
                       \/ isConnected(n) \/ Registering(n) \/ unsynced[n]
=============================================================================
