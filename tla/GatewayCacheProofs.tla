------------------------- MODULE GatewayCacheProofs -------------------------
(***************************************************************************)
(* What is proved of the gateway's model look-ups and of its call log, for *)
(* any number of look-ups, changes, records and inserts.                   *)
(***************************************************************************)
EXTENDS RouteCache, RecordBatch, TLAPS

(***************************************************************************)
(* The generation guard of modelSourcesCache.  The cached entry alone is   *)
(* not inductive: a look-up that is about to store its answer must be      *)
(* known to hold the current version too, unless an invalidation has       *)
(* overtaken it, and for that no look-up may have noted a generation yet   *)
(* to come.                                                                *)
(***************************************************************************)

NotedIsPast == \A l \in Lookups : lookup[l].noted <= generation

RouteInv == RouteTypeOK /\ NotedIsPast /\ AnswerOlderIsDiscarded /\ QuietSourcesAreCurrent

USE RouteAssumption DEF Tables, Versions, NoEntry, Clear, NoLookup

LEMMA RouteInitInv == RouteInit => RouteInv
  BY DEF RouteInit, RouteInv, RouteTypeOK, NotedIsPast, AnswerOlderIsDiscarded, QuietSourcesAreCurrent

(***************************************************************************)
(* The steps of a look-up.                                                 *)
(***************************************************************************)

LEMMA LookupSteps ==
  ASSUME RouteInv, NEW l \in Lookups,
         route(l) \/ deploymentCached(l) \/ queryDeployment(l) \/ storeDeployment(l)
  PROVE  RouteInv'
<1> USE DEF RouteInv, RouteTypeOK, NotedIsPast, AnswerOlderIsDiscarded, QuietSourcesAreCurrent
<1>1. CASE route(l)
  BY <1>1 DEF route, Enter
<1>2. CASE deploymentCached(l)
  BY <1>2 DEF deploymentCached, Enter
<1>3. CASE queryDeployment(l)
  BY <1>3 DEF queryDeployment
<1>4. CASE storeDeployment(l)
  BY <1>4 DEF storeDeployment, Enter, Send
<1> QED
  BY <1>1, <1>2, <1>3, <1>4

LEMMA FindStep == ASSUME RouteInv, NEW l \in Lookups, findSources(l) PROVE RouteInv'
<1> USE DEF RouteInv, RouteTypeOK, NotedIsPast, AnswerOlderIsDiscarded, QuietSourcesAreCurrent
<1>1. CASE lookup' = [lookup EXCEPT ![l] = NoLookup]
  BY <1>1 DEF findSources
<1>2. CASE lookup' = [lookup EXCEPT ![l].stage = "querying", ![l].noted = generation]
  BY <1>2 DEF findSources
<1> QED
  BY <1>1, <1>2 DEF findSources

(* The query reads the version there is: its answer is current. *)
LEMMA QueryStep == ASSUME RouteInv, NEW l \in Lookups, querySources(l) PROVE RouteInv'
  BY DEF querySources, RouteInv, RouteTypeOK, NotedIsPast, AnswerOlderIsDiscarded, QuietSourcesAreCurrent

(* Only an answer that no invalidation overtook is stored. *)
LEMMA StoreStep == ASSUME RouteInv, NEW l \in Lookups, storeSources(l) PROVE RouteInv'
  BY DEF storeSources, RouteInv, RouteTypeOK, NotedIsPast, AnswerOlderIsDiscarded, QuietSourcesAreCurrent

(***************************************************************************)
(* The cache and the database around the look-ups.                         *)
(***************************************************************************)

(* An invalidation makes every generation noted before it a past one. *)
LEMMA InvalidationStep ==
  ASSUME RouteInv, (\E t \in Tables : onChange(t)) \/ resubscribe
  PROVE  RouteInv'
<1> USE DEF RouteInv, RouteTypeOK, NotedIsPast, AnswerOlderIsDiscarded, QuietSourcesAreCurrent,
            invalidateModelSources, invalidateDeployments, Send
<1>1. CASE resubscribe
  BY <1>1 DEF resubscribe
<1>2. CASE onChange("sources")
  <2>1. /\ notified' = notified \ {"sources"} /\ generation' = generation + 1 /\ sources' = NoEntry
        /\ UNCHANGED <<version, listening, shared, lookup, commands>>
    BY <1>2 DEF onChange
  <2> QED
    BY <2>1
<1>3. CASE onChange("deployment")
  <2>1. /\ notified' = notified \ {"deployment"} /\ commands' = Append(commands, Clear)
        /\ UNCHANGED <<version, listening, shared, sources, generation, lookup>>
    BY <1>3 DEF onChange
  <2>2. commands' \in Seq(Versions \cup {Clear})
    BY <2>1
  <2> QED
    BY <2>1, <2>2
<1> QED
  BY <1>1, <1>2, <1>3

LEMMA DatabaseStep ==
  ASSUME RouteInv, (\E t \in Tables : changeTable(t)) \/ connectionLost
  PROVE  RouteInv'
<1> USE DEF RouteInv, RouteTypeOK, NotedIsPast, AnswerOlderIsDiscarded, QuietSourcesAreCurrent
<1>1. CASE changeTable("sources")
  BY <1>1 DEF changeTable
<1>2. CASE changeTable("deployment")
  BY <1>2 DEF changeTable
<1>3. CASE connectionLost
  BY <1>3 DEF connectionLost
<1> QED
  BY <1>1, <1>2, <1>3

LEMMA CacheStep ==
  ASSUME RouteInv, sharedCommand \/ sharedExpires \/ sourcesExpire
  PROVE  RouteInv'
<1> USE DEF RouteInv, RouteTypeOK, NotedIsPast, AnswerOlderIsDiscarded, QuietSourcesAreCurrent
<1>1. CASE sharedCommand
  BY <1>1 DEF sharedCommand
<1>2. CASE sharedExpires
  BY <1>2 DEF sharedExpires
<1>3. CASE sourcesExpire
  BY <1>3 DEF sourcesExpire
<1> QED
  BY <1>1, <1>2, <1>3

LEMMA RouteInvStep == RouteInv /\ [RouteNext]_routeVars => RouteInv'
<1>1. ASSUME RouteInv, UNCHANGED routeVars PROVE RouteInv'
  BY <1>1 DEF routeVars, RouteInv, RouteTypeOK, NotedIsPast, AnswerOlderIsDiscarded, QuietSourcesAreCurrent
<1> QED
  BY <1>1, LookupSteps, FindStep, QueryStep, StoreStep, InvalidationStep, DatabaseStep, CacheStep
  DEF RouteNext

(* model-data.ts 55-58: for any number of look-ups in flight, changes and  *)
(* lost connections, once the last notification is handled requests are    *)
(* routed by the installations as they are.                                *)
THEOREM SourcesAreCurrent == RouteSpec => []QuietSourcesAreCurrent
<1>1. RouteInv => QuietSourcesAreCurrent
  BY DEF RouteInv
<1> QED
  BY RouteInitInv, RouteInvStep, <1>1, PTL DEF RouteSpec

(***************************************************************************)
(* The call log.  That a settled record is in the table once rests on what *)
(* holds before it is settled: it is at one place, and nothing has been    *)
(* written or reported of it.                                              *)
(***************************************************************************)

RecordTypeOK ==
  /\ unlogged \subseteq Records /\ callQueue \subseteq Records
  /\ insertion \in [Inserts -> [stage : {"idle", "batch", "single"}, left : SUBSET Records]]
  /\ rows \in [Records -> Nat]
  /\ reported \subseteq Records /\ struck \subseteq Records
  /\ gateway \in {"serving", "flushing", "flushed", "exited"}
  /\ awaited \subseteq Inserts /\ due \subseteq Records

Left(i) == insertion[i].left

(* A record is at one place at a time. *)
OnePlace ==
  /\ unlogged \cap callQueue = {}
  /\ \A i \in Inserts : Left(i) \cap (unlogged \cup callQueue) = {}
  /\ \A i, j \in Inserts : i # j => Left(i) \cap Left(j) = {}

Open(r) == r \in unlogged \/ r \in callQueue \/ \E i \in Inserts : r \in Left(i)

(* A record that is still to be written has not been: one that was, or may *)
(* have been, is never tried again.                                        *)
WrittenOnce ==
  \A r \in Records :
    IF Open(r) THEN rows[r] = 0 /\ r \notin reported
    ELSE /\ rows[r] = 1 \/ (rows[r] = 0 /\ r \in reported)
         /\ r \in reported => r \in Broken \cup struck

(* What the shutdown's flush has to wait for is in inserts it waits for. *)
DueIsAwaited ==
  /\ gateway \in {"flushing", "flushed"} =>
       /\ due \cap (unlogged \cup callQueue) = {}
       /\ \A i \in Inserts : Left(i) \cap due # {} => i \in awaited
  /\ gateway = "flushed" => awaited = {}

RecordInv == RecordTypeOK /\ OnePlace /\ WrittenOnce /\ DueIsAwaited

LEMMA RecordInitial == RecordInit => RecordInv
<1> SUFFICES ASSUME RecordInit PROVE RecordInv
  OBVIOUS
<1> USE DEF RecordInit, Idle, Left
<1>1. RecordTypeOK
  BY DEF RecordTypeOK
<1>2. OnePlace
  BY DEF OnePlace
<1>3. WrittenOnce
  BY DEF WrittenOnce, Open
<1>4. DueIsAwaited
  BY DEF DueIsAwaited
<1> QED
  BY <1>1, <1>2, <1>3, <1>4 DEF RecordInv

(* A flush moves records that were in no insert into one that was idle. *)
LEMMA FlushMoves ==
  ASSUME RecordInv, NEW i \in Inserts, NEW queue \in SUBSET Records, flushQueue(i, queue)
  PROVE  /\ insertion' \in [Inserts -> [stage : {"idle", "batch", "single"}, left : SUBSET Records]]
         /\ Left(i) = {} /\ Left(i)' = queue
         /\ \A j \in Inserts : j # i => Left(j)' = Left(j)
         /\ callQueue' = {}
BY DEF flushQueue, RecordInv, RecordTypeOK, Left, Idle

LEMMA EnqueueStep ==
  ASSUME RecordInv, NEW calls \in SUBSET Records, enqueueCalls(calls)
  PROVE  RecordInv'
<1> DEFINE queue == callQueue \cup calls
<1>1. queue \in SUBSET Records
  BY DEF RecordInv, RecordTypeOK
<1>2. /\ calls \subseteq unlogged /\ unlogged' = unlogged \ calls /\ calls # {}
      /\ UNCHANGED <<rows, reported, struck, gateway, awaited, due>>
  BY DEF enqueueCalls
<1>3. CASE \E i \in Inserts : flushQueue(i, queue)
  <2>1. PICK i \in Inserts : flushQueue(i, queue)
    BY <1>3
  <2>2. /\ insertion' \in [Inserts -> [stage : {"idle", "batch", "single"}, left : SUBSET Records]]
        /\ Left(i) = {} /\ Left(i)' = queue
        /\ \A j \in Inserts : j # i => Left(j)' = Left(j)
        /\ callQueue' = {}
    BY <1>1, <2>1, FlushMoves
  <2>3. RecordTypeOK'
    BY <1>2, <2>2 DEF RecordInv, RecordTypeOK
  <2>4. OnePlace'
    BY <1>2, <2>2 DEF RecordInv, RecordTypeOK, OnePlace
  <2>5. \A r \in Records : Open(r)' <=> Open(r)
    BY <1>2, <2>2 DEF Open
  <2>6. WrittenOnce'
    BY <1>2, <2>5 DEF RecordInv, WrittenOnce
  <2>7. DueIsAwaited'
    BY <1>2, <2>2 DEF RecordInv, DueIsAwaited
  <2> QED
    BY <2>3, <2>4, <2>6, <2>7 DEF RecordInv
<1>4. CASE callQueue' = queue /\ UNCHANGED insertion
  <2>1. RecordTypeOK'
    BY <1>1, <1>2, <1>4 DEF RecordInv, RecordTypeOK
  <2>2. OnePlace'
    BY <1>2, <1>4 DEF RecordInv, RecordTypeOK, OnePlace, Left
  <2>3. \A r \in Records : Open(r)' <=> Open(r)
    BY <1>2, <1>4 DEF Open, Left
  <2>4. WrittenOnce'
    BY <1>2, <2>3 DEF RecordInv, WrittenOnce
  <2>5. DueIsAwaited'
    BY <1>2, <1>4 DEF RecordInv, DueIsAwaited, Left
  <2> QED
    BY <2>1, <2>2, <2>4, <2>5 DEF RecordInv
<1> QED
  BY <1>3, <1>4 DEF enqueueCalls

LEMMA TimerStep == ASSUME RecordInv, flushTimerFires PROVE RecordInv'
<1>1. PICK i \in Inserts : flushQueue(i, callQueue)
  BY DEF flushTimerFires
<1>2. /\ insertion' \in [Inserts -> [stage : {"idle", "batch", "single"}, left : SUBSET Records]]
      /\ Left(i) = {} /\ Left(i)' = callQueue
      /\ \A j \in Inserts : j # i => Left(j)' = Left(j)
      /\ callQueue' = {}
  BY <1>1, FlushMoves DEF RecordInv, RecordTypeOK
<1>3. UNCHANGED <<unlogged, rows, reported, struck, gateway, awaited, due>>
  BY DEF flushTimerFires
<1>4. RecordTypeOK'
  BY <1>2, <1>3 DEF RecordInv, RecordTypeOK
<1>5. OnePlace'
  BY <1>2, <1>3 DEF RecordInv, OnePlace
<1>6. \A r \in Records : Open(r)' <=> Open(r)
  BY <1>2, <1>3 DEF Open
<1>7. WrittenOnce'
  BY <1>3, <1>6 DEF RecordInv, WrittenOnce
<1>8. DueIsAwaited'
  BY <1>2, <1>3 DEF RecordInv, DueIsAwaited
<1> QED
  BY <1>4, <1>5, <1>7, <1>8 DEF RecordInv

(* What an insert does with the records gone it is done with: each is      *)
(* written once, or reported and not written or written once.              *)
LEMMA DoneStep ==
  ASSUME RecordInv, NEW i \in Inserts, NEW gone \in SUBSET Left(i),
         insertion' \in [Inserts -> [stage : {"idle", "batch", "single"}, left : SUBSET Records]],
         \A j \in Inserts : Left(j)' = IF j = i THEN Left(i) \ gone ELSE Left(j),
         \/ Add(gone) /\ UNCHANGED <<reported, struck>>
         \/ gone = {} /\ UNCHANGED <<rows, reported, struck>>
         \/ /\ UNCHANGED rows \/ Add(gone)
            /\ reported' = reported \cup gone
            /\ struck \subseteq struck' /\ struck' \subseteq Records
            /\ gone \subseteq Broken \cup struck',
         UNCHANGED <<unlogged, callQueue, gateway, awaited, due>>
  PROVE  RecordInv'
<1>1. gone \subseteq Records
  BY DEF RecordInv, RecordTypeOK, Left
<1>2. RecordTypeOK'
  BY <1>1 DEF RecordInv, RecordTypeOK, Add
<1>3. OnePlace'
  BY DEF RecordInv, OnePlace
<1>4. \A r \in Records : Open(r)' <=> Open(r) /\ r \notin gone
  BY DEF RecordInv, OnePlace, Open
<1>5. \A r \in gone : Open(r)
  BY DEF Open
<1>6. WrittenOnce'
  BY <1>1, <1>4, <1>5 DEF RecordInv, RecordTypeOK, WrittenOnce, Add
<1>7. DueIsAwaited'
  BY DEF RecordInv, DueIsAwaited
<1> QED
  BY <1>2, <1>3, <1>6, <1>7 DEF RecordInv

LEMMA InsertSteps == ASSUME RecordInv, NEW i \in Inserts, InsertStep(i) PROVE RecordInv'
<1> DEFINE States == [stage : {"idle", "batch", "single"}, left : SUBSET Records]
<1>0. insertion \in [Inserts -> States] /\ insertion[i] \in States /\ Left(i) \subseteq Records
      /\ struck \subseteq Records
  BY DEF RecordInv, RecordTypeOK, Left
<1>1. ASSUME NEW r \in Left(i), insertion' = [insertion EXCEPT ![i] = Without(i, r)]
      PROVE  /\ insertion' \in [Inserts -> States]
             /\ \A j \in Inserts : Left(j)' = IF j = i THEN Left(i) \ {r} ELSE Left(j)
  BY <1>0, <1>1 DEF Without, Left, Idle
<1>2. ASSUME insertion' = [insertion EXCEPT ![i] = Idle]
      PROVE  /\ insertion' \in [Inserts -> States]
             /\ \A j \in Inserts : Left(j)' = IF j = i THEN Left(i) \ Left(i) ELSE Left(j)
  BY <1>0, <1>2 DEF Left, Idle
<1> HIDE DEF States
<1>3. CASE batchInserted(i)
  BY <1>2, <1>3, DoneStep DEF batchInserted, Left, States
<1>4. CASE batchRejected(i)
  <2>1. /\ insertion' \in [Inserts -> States]
        /\ \A j \in Inserts : Left(j)' = IF j = i THEN Left(i) \ {} ELSE Left(j)
    BY <1>0, <1>4 DEF batchRejected, Left, States
  <2> QED
    BY <1>4, <2>1, DoneStep DEF batchRejected, States
<1>5. CASE batchFails(i)
  <2>1. struck' = struck \cup Left(i) /\ Left(i) \subseteq Broken \cup struck'
    BY <1>5 DEF batchFails, Left
  <2> QED
    BY <1>0, <1>2, <1>5, <2>1, DoneStep DEF batchFails, Left, States
<1>6. CASE rowInserted(i)
  <2>1. PICK r \in Left(i) \ Broken : Add({r}) /\ insertion' = [insertion EXCEPT ![i] = Without(i, r)]
    BY <1>6 DEF rowInserted, Left
  <2> QED
    BY <1>1, <1>6, <2>1, DoneStep DEF rowInserted, States
<1>7. CASE rowFails(i)
  <2>1. PICK r \in Left(i) :
          /\ insertion' = [insertion EXCEPT ![i] = Without(i, r)]
          /\ reported' = reported \cup {r}
          /\ struck' = IF r \in Broken THEN struck ELSE struck \cup {r}
          /\ UNCHANGED rows \/ (r \notin Broken /\ Add({r}))
    BY <1>7 DEF rowFails, Left
  <2>2. struck \subseteq struck' /\ struck' \subseteq Records /\ {r} \subseteq Broken \cup struck'
    BY <1>0, <2>1
  <2>3. UNCHANGED <<unlogged, callQueue, gateway, awaited, due>>
    BY <1>7 DEF rowFails
  <2> QED
    BY <1>1, <2>1, <2>2, <2>3, DoneStep DEF States
<1> QED
  BY <1>3, <1>4, <1>5, <1>6, <1>7 DEF InsertStep

LEMMA ShutdownStep == ASSUME RecordInv, shutdownFlush PROVE RecordInv'
<1>1. /\ gateway' = "flushing" /\ due' = Records \ unlogged
      /\ UNCHANGED <<unlogged, rows, reported, struck>>
  BY DEF shutdownFlush
<1>2. CASE callQueue = {} /\ awaited' = Pending /\ UNCHANGED <<callQueue, insertion>>
  <2>1. RecordTypeOK'
    BY <1>1, <1>2 DEF RecordInv, RecordTypeOK, Pending
  <2>2. OnePlace' /\ WrittenOnce'
    BY <1>1, <1>2 DEF RecordInv, OnePlace, WrittenOnce, Open, Left
  <2>3. DueIsAwaited'
    BY <1>1, <1>2 DEF DueIsAwaited, Pending, Left, Idle
  <2> QED
    BY <2>1, <2>2, <2>3 DEF RecordInv
<1>3. ASSUME NEW i \in Inserts, flushQueue(i, callQueue), awaited' = Pending \cup {i}
      PROVE  RecordInv'
  <2>1. /\ insertion' \in [Inserts -> [stage : {"idle", "batch", "single"}, left : SUBSET Records]]
        /\ Left(i) = {} /\ Left(i)' = callQueue
        /\ \A j \in Inserts : j # i => Left(j)' = Left(j)
        /\ callQueue' = {}
    BY <1>3, FlushMoves DEF RecordInv, RecordTypeOK
  <2>2. RecordTypeOK'
    BY <1>1, <1>3, <2>1 DEF RecordInv, RecordTypeOK, Pending
  <2>3. OnePlace'
    BY <1>1, <2>1 DEF RecordInv, OnePlace
  <2>4. \A r \in Records : Open(r)' <=> Open(r)
    BY <1>1, <2>1 DEF Open
  <2>5. WrittenOnce'
    BY <1>1, <2>4 DEF RecordInv, WrittenOnce
  <2>6. \A j \in Inserts : j # i /\ Left(j)' # {} => j \in Pending
    BY <2>1 DEF Pending, Left, Idle
  <2>7. DueIsAwaited'
    BY <1>1, <1>3, <2>1, <2>6 DEF DueIsAwaited
  <2> QED
    BY <2>2, <2>3, <2>5, <2>7 DEF RecordInv
<1> QED
  BY <1>2, <1>3 DEF shutdownFlush

LEMMA EndStep ==
  ASSUME RecordInv, (\E i \in Inserts : awaitedEnds(i)) \/ processExits
  PROVE  RecordInv'
<1> USE DEF RecordInv, RecordTypeOK, OnePlace, WrittenOnce, Open, Left, Idle
<1>1. ASSUME NEW i \in Inserts, awaitedEnds(i) PROVE RecordInv'
  BY <1>1 DEF awaitedEnds, DueIsAwaited
<1>2. CASE processExits
  BY <1>2 DEF processExits, DueIsAwaited
<1> QED
  BY <1>1, <1>2

LEMMA RecordStep == RecordInv /\ [RecordNext]_recordVars => RecordInv'
<1>1. ASSUME RecordInv, UNCHANGED recordVars PROVE RecordInv'
  BY <1>1
  DEF recordVars, RecordInv, RecordTypeOK, OnePlace, WrittenOnce, DueIsAwaited, Open, Left
<1> QED
  BY <1>1, EnqueueStep, TimerStep, InsertSteps, ShutdownStep, EndStep DEF RecordNext

LEMMA SettledIsNotOpen ==
  ASSUME NEW r \in Records
  PROVE  r \in Settled <=> ~Open(r)
BY DEF Settled, Open, Left

(* callLogger.ts 98-114: for any batch size and any number of inserts,     *)
(* refused rows and lost answers, a record that is neither queued nor in   *)
(* an insert is in the table once or reported, and only a bad row or a     *)
(* failed statement is.                                                    *)
THEOREM NoRowCostsAnother == RecordSpec => []OnlyBadRowsAreLost
<1>1. RecordInv => OnlyBadRowsAreLost
  <2> SUFFICES ASSUME RecordInv, NEW r \in Settled
               PROVE  /\ rows[r] = 1 \/ (rows[r] = 0 /\ r \in reported)
                      /\ r \in reported => r \in Broken \cup struck
    BY DEF OnlyBadRowsAreLost
  <2>1. r \in Records
    BY DEF Settled
  <2> QED
    BY <2>1, SettledIsNotOpen DEF RecordInv, WrittenOnce
<1> QED
  BY RecordInitial, RecordStep, <1>1, PTL DEF RecordSpec

(* gatewayServer.ts 193-195: for any number of inserts under way, when the *)
(* shutdown's flush returns no call made before it is left to write.       *)
THEOREM FlushSettlesAll == RecordSpec => []FlushedIsSettled
<1>1. RecordInv => FlushedIsSettled
  <2> SUFFICES ASSUME RecordInv, gateway = "flushed", NEW r \in due PROVE r \in Settled
    BY DEF FlushedIsSettled
  <2>1. r \in Records /\ ~Open(r)
    BY DEF RecordInv, RecordTypeOK, DueIsAwaited, Open
  <2> QED
    BY <2>1, SettledIsNotOpen
<1> QED
  BY RecordInitial, RecordStep, <1>1, PTL DEF RecordSpec
=============================================================================
