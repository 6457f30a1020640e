---------------------------- MODULE RecordBatch ----------------------------
(***************************************************************************)
(* How the gateway writes its inference calls to Postgres (callLogger.ts): *)
(* records are queued, inserted in batches, one by one when Postgres       *)
(* refuses a batch for one of its rows, and flushed when the gateway shuts *)
(* down.  usageRecorder.ts treats usage events the same way, with one      *)
(* record at a time.                                                       *)
(*                                                                         *)
(* The order of records within a batch decides nothing: queue and batches  *)
(* are sets.                                                               *)
(***************************************************************************)
EXTENDS Naturals, FiniteSets

CONSTANTS
  Records,
  Broken,     \* records Postgres refuses, class 22 or 23
  BatchSize,  \* CALL_BATCH_SIZE
  Inserts     \* batches that may be written at a time

ASSUME BatchAssumption ==
  Broken \subseteq Records /\ BatchSize \in Nat \ {0}

VARIABLES
  unlogged,   \* records not yet made
  callQueue,
  callTimer,  \* the flush timer is set
  insertion,  \* of each insert: its stage and the records left to write
  rows,       \* how often each record is in the table
  reported,   \* records whose insert was logged as failed
  struck,     \* history: records of a statement that failed for another reason than a row
  gateway,    \* serving, flushing, flushed or exited
  awaited,    \* the inserts the shutdown's flush waits for
  due         \* history: records made before that flush

recordVars == <<unlogged, callQueue, callTimer, insertion, rows, reported, struck,
                gateway, awaited, due>>

Idle == [stage |-> "idle", left |-> {}]

RecordInit ==
  /\ unlogged = Records
  /\ callQueue = {}
  /\ callTimer = FALSE
  /\ insertion = [i \in Inserts |-> Idle]
  /\ rows = [r \in Records |-> 0]
  /\ reported = {}
  /\ struck = {}
  /\ gateway = "serving"
  /\ awaited = {}
  /\ due = {}

Alive == gateway \in {"serving", "flushing"}

(* flushCallLog up to its wait, with queue as the queue: the whole of it   *)
(* becomes one insert.                                                     *)
flushQueue(i, queue) ==
  /\ callTimer' = FALSE
  /\ insertion[i] = Idle
  /\ insertion' = [insertion EXCEPT ![i] = [stage |-> "batch", left |-> queue]]
  /\ callQueue' = {}

(* The calls of one answer, one per choice. *)
enqueueCalls(calls) ==
  /\ Alive
  /\ calls # {} /\ calls \subseteq unlogged
  /\ unlogged' = unlogged \ calls
  /\ LET queue == callQueue \cup calls IN
       IF Cardinality(queue) >= BatchSize
       THEN \E i \in Inserts : flushQueue(i, queue)
       ELSE callQueue' = queue /\ callTimer' = TRUE /\ UNCHANGED insertion
  /\ UNCHANGED <<rows, reported, struck, gateway, awaited, due>>

flushTimerFires ==
  /\ Alive
  /\ callTimer
  /\ \E i \in Inserts : flushQueue(i, callQueue)
  /\ UNCHANGED <<unlogged, rows, reported, struck, gateway, awaited, due>>

Add(batch) == rows' = [r \in Records |-> IF r \in batch THEN rows[r] + 1 ELSE rows[r]]

(* recordInferenceCalls is one transaction: all rows or none. *)
batchInserted(i) ==
  /\ Alive
  /\ insertion[i].stage = "batch" /\ insertion[i].left \cap Broken = {}
  /\ Add(insertion[i].left)
  /\ insertion' = [insertion EXCEPT ![i] = Idle]
  /\ UNCHANGED <<unlogged, callQueue, callTimer, reported, struck, gateway, awaited, due>>

(* A row is refused: the batch is written again one by one. *)
batchRejected(i) ==
  /\ Alive
  /\ insertion[i].stage = "batch" /\ insertion[i].left \cap Broken # {}
  /\ insertion' = [insertion EXCEPT ![i].stage = "single"]
  /\ UNCHANGED <<unlogged, callQueue, callTimer, rows, reported, struck, gateway, awaited, due>>

(* Another error, such as a lost connection, before or after the commit:   *)
(* the batch is logged and given up.                                       *)
batchFails(i) ==
  /\ Alive
  /\ insertion[i].stage = "batch"
  /\ UNCHANGED rows \/ (insertion[i].left \cap Broken = {} /\ Add(insertion[i].left))
  /\ struck' = struck \cup insertion[i].left
  /\ reported' = reported \cup insertion[i].left
  /\ insertion' = [insertion EXCEPT ![i] = Idle]
  /\ UNCHANGED <<unlogged, callQueue, callTimer, gateway, awaited, due>>

(* insertion[i] when r has been written. *)
Without(i, r) ==
  IF insertion[i].left = {r} THEN Idle
  ELSE [stage |-> "single", left |-> insertion[i].left \ {r}]

rowInserted(i) ==
  /\ Alive
  /\ insertion[i].stage = "single"
  /\ \E r \in insertion[i].left \ Broken :
       Add({r}) /\ insertion' = [insertion EXCEPT ![i] = Without(i, r)]
  /\ UNCHANGED <<unlogged, callQueue, callTimer, reported, struck, gateway, awaited, due>>

rowFailsEndingBatch(i) ==
  /\ Alive
  /\ insertion[i].stage = "single"
  /\ \E r \in insertion[i].left :
       /\ insertion' = [insertion EXCEPT ![i] = Idle]
       /\ reported' = reported \cup {r}
       /\ struck' = IF r \in Broken THEN struck ELSE struck \cup {r}
  /\ UNCHANGED <<unlogged, callQueue, callTimer, rows, gateway, awaited, due>>

(* A row is refused, or its statement fails: logged, and on with the next. *)
rowFails(i) ==
  /\ Alive
  /\ insertion[i].stage = "single"
  /\ \E r \in insertion[i].left :
       /\ insertion' = [insertion EXCEPT ![i] = Without(i, r)]
       /\ reported' = reported \cup {r}
       /\ struck' = IF r \in Broken THEN struck ELSE struck \cup {r}
       /\ UNCHANGED rows \/ (r \notin Broken /\ Add({r}))
  /\ UNCHANGED <<unlogged, callQueue, callTimer, gateway, awaited, due>>

Pending == {i \in Inserts : insertion[i] # Idle}

shutdownAwaitingOwn ==
  /\ gateway = "serving"
  /\ gateway' = "flushing"
  /\ due' = Records \ unlogged
  /\ IF callQueue = {}
     THEN callTimer' = FALSE /\ awaited' = {} /\ UNCHANGED <<callQueue, insertion>>
     ELSE \E i \in Inserts : flushQueue(i, callQueue) /\ awaited' = {i}
  /\ UNCHANGED <<unlogged, rows, reported, struck>>

(* gracefulShutdown's flush, which waits for all inserts under way then.   *)
(* Answers that were cut off may still be logged beside it.                *)
shutdownFlush ==
  /\ gateway = "serving"
  /\ gateway' = "flushing"
  /\ due' = Records \ unlogged
  /\ IF callQueue = {}
     THEN callTimer' = FALSE /\ awaited' = Pending /\ UNCHANGED <<callQueue, insertion>>
     ELSE \E i \in Inserts : flushQueue(i, callQueue) /\ awaited' = Pending \cup {i}
  /\ UNCHANGED <<unlogged, rows, reported, struck>>

(* An awaited insert ends.  Its slot may be used again, not awaited. *)
awaitedEnds(i) ==
  /\ gateway = "flushing"
  /\ i \in awaited /\ insertion[i] = Idle
  /\ awaited' = awaited \ {i}
  /\ UNCHANGED <<unlogged, callQueue, callTimer, insertion, rows, reported, struck, gateway, due>>

(* The flush returns in time, or the process exits without it. *)
processExits ==
  /\ gateway = "flushing"
  /\ gateway' = IF awaited = {} THEN "flushed" ELSE "exited"
  /\ UNCHANGED <<unlogged, callQueue, callTimer, insertion, rows, reported, struck, awaited, due>>

InsertStep(i) ==
  batchInserted(i) \/ batchRejected(i) \/ batchFails(i) \/ rowInserted(i) \/ rowFails(i)

RecordNext ==
  \/ \E calls \in SUBSET Records : enqueueCalls(calls)
  \/ flushTimerFires
  \/ \E i \in Inserts : InsertStep(i) \/ awaitedEnds(i)
  \/ shutdownFlush \/ processExits

RecordSpec == RecordInit /\ [][RecordNext]_recordVars

(***************************************************************************)
(* Properties                                                              *)
(***************************************************************************)

(* Records that are neither queued nor in an insert. *)
Settled == (Records \ unlogged) \ (callQueue \cup UNION {insertion[i].left : i \in Inserts})

(* callLogger.ts 98-114 and db-errors.ts 3-6: one bad row costs no other   *)
(* record.  A settled record is in the table or reported, and only a bad   *)
(* row or a failed statement keeps one out; and a batch is written a       *)
(* second time only when the first wrote nothing, so that no lost answer   *)
(* leads to a call in the table twice.                                     *)
OnlyBadRowsAreLost ==
  \A r \in Settled :
    /\ rows[r] = 1 \/ (rows[r] = 0 /\ r \in reported)
    /\ r \in reported => r \in Broken \cup struck

(* callLogger.ts 83-96, gatewayServer.ts 193-195: when the shutdown's      *)
(* flush returns, every call logged before it is settled, those in batches *)
(* that were already being written too.                                    *)
FlushedIsSettled == gateway = "flushed" => due \subseteq Settled
=============================================================================
