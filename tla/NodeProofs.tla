----------------------------- MODULE NodeProofs -----------------------------
(***************************************************************************)
(* What is proved of what a node does with what the tether sends it, for   *)
(* files of any size, any number of settings, refreshes, members and       *)
(* caches, and any number of failures.                                     *)
(***************************************************************************)
EXTENDS BlobDownload, ConfigBroadcast, GroupLifecycle, CacheEviction, FiniteSetTheorems,
        SequenceTheorems, WellFoundedInduction, TLAPS

(***************************************************************************)
(* The download.  A finished file is right because what is appended always *)
(* continues what is there, and because wrong chunks come from a damaged   *)
(* copy only, which is being copied, being checked, or left unchecked.     *)
(***************************************************************************)

Files == [len : Nat, right : BOOLEAN]

DownloadTypeOK ==
  /\ peer \in {"none", "absent", "growing", "whole", "damaged"}
  /\ partial \in Files /\ blob \in Files
  /\ download \in {"idle", "peer", "copying", "checking", "hub", "streaming", "done"}
  /\ next \in Nat
  /\ leftover \in BOOLEAN

(* The next chunk is the one that is missing, and none is left over. *)
Continues ==
  /\ partial.len =< Chunks
  /\ download \in {"copying", "streaming"} => next = partial.len + 1

(* Where wrong chunks can come from. *)
WrongIsDamaged ==
  /\ download \in {"copying", "checking"} => peer \in {"whole", "damaged"}
  /\ \/ partial.right
     \/ leftover
     \/ download \in {"copying", "checking"} /\ peer = "damaged"

(* A finished file ends the download for good. *)
FinishedIsDone == blob # NoFile => download = "done"

DownloadInv ==
  DownloadTypeOK /\ Continues /\ WrongIsDamaged /\ FinishedIsDone /\ BlobIsWhole

LEMMA EmptyFile == NoFile \in Files /\ NoFile.len = 0 /\ NoFile.right = TRUE
BY DEF NoFile, Files

LEMMA DownloadInitial == DownloadInit => DownloadInv
<1> SUFFICES ASSUME DownloadInit PROVE DownloadInv
  OBVIOUS
<1>1. DownloadTypeOK
  BY EmptyFile DEF DownloadInit, DownloadTypeOK
<1>2. Continues /\ WrongIsDamaged
  BY EmptyFile, DownloadAssumption DEF DownloadInit, Continues, WrongIsDamaged
<1>3. FinishedIsDone /\ BlobIsWhole
  BY DEF DownloadInit, FinishedIsDone, BlobIsWhole
<1> QED
  BY <1>1, <1>2, <1>3 DEF DownloadInv

(* A rename of a file that is whole. *)
LEMMA FinishStep ==
  ASSUME DownloadInv, Finish, UNCHANGED <<peer, next, leftover>>,
         partial.len = Chunks,
         partial.right \/ leftover \/ (~Hashed /\ peer = "damaged")
  PROVE  DownloadInv'
<1>1. blob' = partial /\ partial' = NoFile /\ download' = "done"
  BY DEF Finish
<1>2. DownloadTypeOK' /\ Continues' /\ WrongIsDamaged' /\ FinishedIsDone'
  BY <1>1, DownloadAssumption
  DEF DownloadInv, DownloadTypeOK, Files, NoFile, Continues, WrongIsDamaged, FinishedIsDone
<1>3. BlobIsWhole'
  BY <1>1 DEF BlobIsWhole
<1> QED
  BY <1>2, <1>3 DEF DownloadInv

(* What has arrived is thrown away. *)
LEMMA AbandonStep ==
  ASSUME DownloadInv, download # "done", partial' = NoFile, leftover' = FALSE,
         \/ download' = "hub" /\ UNCHANGED next
         \/ /\ download' \in {"copying", "streaming"} /\ next' = 1
            /\ download' = "copying" => peer \in {"whole", "damaged"},
         UNCHANGED <<peer, blob>>
  PROVE  DownloadInv'
<1>1. blob' = NoFile
  BY DEF DownloadInv, FinishedIsDone
<1>2. DownloadTypeOK'
  <2>1. next' \in Nat
    BY DEF DownloadInv, DownloadTypeOK
  <2>2. download' \in {"hub", "copying", "streaming"}
    OBVIOUS
  <2>3. partial' \in Files
    BY EmptyFile
  <2> QED
    BY <2>1, <2>2, <2>3 DEF DownloadInv, DownloadTypeOK
<1>3. Continues'
  <2>1. partial'.len = 0
    BY EmptyFile
  <2> QED
    BY <2>1, DownloadAssumption DEF Continues
<1>4. WrongIsDamaged'
  <2>1. partial'.right
    BY EmptyFile
  <2> QED
    BY <2>1 DEF WrongIsDamaged
<1>5. FinishedIsDone' /\ BlobIsWhole'
  BY <1>1 DEF FinishedIsDone, BlobIsWhole
<1> QED
  BY <1>2, <1>3, <1>4, <1>5 DEF DownloadInv

(* A request that begins while no file is finished. *)
LEMMA RequestStep ==
  ASSUME DownloadInv, NEW to \in {"copying", "streaming"}, Resume(to) \/ Restart(to),
         download \in {"peer", "hub"}, to = "copying" => peer \in {"whole", "damaged"},
         UNCHANGED <<peer, blob>>
  PROVE  DownloadInv'
<1>1. blob = NoFile /\ blob' = NoFile
  BY DEF DownloadInv, FinishedIsDone
<1> USE DEF DownloadInv, DownloadTypeOK, Files, NoFile, Continues, WrongIsDamaged, FinishedIsDone,
            BlobIsWhole
<1>2. CASE Resume(to)
  <2>1. partial' = partial /\ download' = to /\ next' = partial.len + 1 /\ leftover' = leftover
    BY <1>2 DEF Resume
  <2>2. partial.right \/ leftover
    OBVIOUS
  <2> QED
    BY <1>1, <2>1, <2>2
<1>3. CASE Restart(to)
  BY <1>3, AbandonStep DEF Restart
<1> QED
  BY <1>2, <1>3

LEMMA DownloadStep == DownloadInv /\ [DownloadNext]_downloadVars => DownloadInv'
<1> SUFFICES ASSUME DownloadInv, [DownloadNext]_downloadVars PROVE DownloadInv'
  OBVIOUS
<1> USE DEF DownloadTypeOK, Continues, WrongIsDamaged, FinishedIsDone, BlobIsWhole
<1>1. CASE peerGrows
  BY <1>1 DEF peerGrows, DownloadInv
<1>2. CASE downloadFileToCache
  BY <1>2 DEF downloadFileToCache, DownloadInv
<1>3. CASE copyFromPeer
  BY <1>3, RequestStep DEF copyFromPeer
<1>4. CASE peerDeclines
  BY <1>4 DEF peerDeclines, DownloadInv
<1>5. CASE chunkArrives
  <2>1. /\ partial' \in Files /\ partial'.len = partial.len + 1
        /\ partial'.right <=> partial.right /\ (download = "streaming" \/ peer = "whole")
    BY <1>5 DEF chunkArrives, Written, DownloadInv, Files
  <2> QED
    BY <1>5, <2>1, DownloadAssumption DEF chunkArrives, DownloadInv, Files
<1>6. CASE copied
  BY <1>6 DEF copied, DownloadInv
<1>7. CASE checked
  <2>1. CASE Finish /\ partial.len = Chunks /\ (Hashed => partial.right) /\ UNCHANGED leftover
    BY <1>7, <2>1, FinishStep DEF checked, DownloadInv
  <2>2. CASE /\ partial' = NoFile /\ download' = "hub" /\ leftover' = FALSE
             /\ UNCHANGED blob
    BY <1>7, <2>2, AbandonStep DEF checked
  <2> QED
    BY <1>7, <2>1, <2>2 DEF checked
<1>8. CASE copyCutShort
  BY <1>8 DEF copyCutShort, DownloadInv, Files
<1>9. CASE requestHub
  <2>1. CASE partial.len = Chunks
    BY <1>9, <2>1, FinishStep DEF requestHub, DownloadInv
  <2>2. CASE partial.len # Chunks
    BY <1>9, <2>2, RequestStep DEF requestHub
  <2> QED
    BY <2>1, <2>2
<1>10. CASE downloaded
  <2>1. partial.len = Chunks
    BY <1>10, DownloadAssumption DEF downloaded, DownloadInv, Files
  <2> QED
    BY <1>10, <2>1, FinishStep DEF downloaded, DownloadInv
<1>11. CASE stalled
  BY <1>11 DEF stalled, DownloadInv
<1>12. CASE interrupted
  BY <1>12 DEF interrupted, DownloadInv, Files
<1>13. CASE UNCHANGED downloadVars
  BY <1>13 DEF downloadVars, DownloadInv
<1> QED
  BY <1>1, <1>2, <1>3, <1>4, <1>5, <1>6, <1>7, <1>8, <1>9, <1>10, <1>11, <1>12, <1>13
  DEF DownloadNext

(* vllm-download.ts 180-206 and 246-268, peer-share.ts 132-144: for files  *)
(* of any size, with a hash or without, and however often a download is    *)
(* cut short, a finished file has every chunk once and at its place, but   *)
(* for chunks of a damaged copy that was not checked.                      *)
THEOREM FinishedIsWhole == DownloadSpec => []BlobIsWhole
<1>1. DownloadInv => BlobIsWhole
  BY DEF DownloadInv
<1> QED
  BY DownloadInitial, DownloadStep, <1>1, PTL DEF DownloadSpec

(***************************************************************************)
(* The settings pushed to a daemon.                                        *)
(***************************************************************************)

BroadcastTypeOK ==
  /\ settings \in Settings /\ current \in Settings /\ values \in Settings
  /\ query \in [Refreshes -> Settings \cup {NoRefresh, Asked}]
  /\ channel \in {"closed", "starting", "open"}
  /\ events \in Seq(Settings)

BroadcastInv == BroadcastTypeOK /\ StreamEndsWithLatest

LEMMA BroadcastInitial == BroadcastInit => BroadcastInv
BY BroadcastAssumption
DEF BroadcastInit, BroadcastInv, BroadcastTypeOK, StreamEndsWithLatest, Settings

(* What is pushed to a stream is its last event. *)
LEMMA PushIsLast ==
  ASSUME NEW v \in Settings, events \in Seq(Settings), pushConfig(v)
  PROVE  /\ events' \in Seq(Settings)
         /\ channel # "closed" => events' # <<>> /\ events'[Len(events')] = v
BY DEF pushConfig

(* Taking the first event leaves the last one, or was the last one. *)
LEMMA TailEndsAlike ==
  ASSUME NEW s \in Seq(Settings), s # <<>>
  PROVE  /\ Head(s) \in Settings /\ Tail(s) \in Seq(Settings)
         /\ s[Len(s)] = IF Tail(s) = <<>> THEN Head(s) ELSE Tail(s)[Len(Tail(s))]
<1>1. /\ Head(s) = s[1] /\ s[1] \in Settings /\ Tail(s) \in Seq(Settings)
      /\ Len(s) \in Nat \ {0} /\ Len(Tail(s)) = Len(s) - 1
  OBVIOUS
<1>2. CASE Tail(s) = <<>>
  <2>1. Len(s) = 1
    BY <1>1, <1>2, EmptySeq
  <2> QED
    BY <1>1, <1>2, <2>1
<1>3. CASE Tail(s) # <<>>
  <2>1. Len(s) > 1
    BY <1>1, <1>3, EmptySeq
  <2> QED
    BY <1>1, <1>3, <2>1
<1> QED
  BY <1>1, <1>2, <1>3

LEMMA BroadcastStep == BroadcastInv /\ [BroadcastNext]_broadcastVars => BroadcastInv'
<1> SUFFICES ASSUME BroadcastInv, [BroadcastNext]_broadcastVars PROVE BroadcastInv'
  OBVIOUS
<1> USE BroadcastAssumption DEF BroadcastInv, BroadcastTypeOK, StreamEndsWithLatest
<1>1. CASE setSettings
  BY <1>1 DEF setSettings, Settings
<1>2. CASE settingsSubscribed \/ settingsLost \/ settingsNotified
  BY <1>2 DEF settingsSubscribed, settingsLost, settingsNotified
<1>3. ASSUME NEW r \in Refreshes, beginRefresh(r) \/ readSettings(r) \/ refreshFails(r)
      PROVE  BroadcastInv'
  BY <1>3 DEF beginRefresh, readSettings, refreshFails
<1>4. ASSUME NEW r \in Refreshes, endRefresh(r) PROVE BroadcastInv'
  <2>1. /\ events' \in Seq(Settings)
        /\ channel # "closed" => events' # <<>> /\ events'[Len(events')] = query[r]
    BY <1>4, PushIsLast DEF endRefresh
  <2>2. query' \in [Refreshes -> Settings \cup {NoRefresh, Asked}] /\ current' \in Settings
    BY <1>4 DEF endRefresh
  <2> QED
    BY <1>4, <2>1, <2>2, Zenon DEF endRefresh
<1>5. CASE connectStream \/ closeStream
  <2>1. events' \in Seq(Settings) /\ channel' \in {"closed", "starting"}
    BY <1>5, EmptySeq DEF connectStream, closeStream
  <2>2. UNCHANGED <<settings, query, current, values>>
    BY <1>5 DEF connectStream, closeStream
  <2> QED
    BY <2>1, <2>2
<1>6. CASE sendCurrent
  <2>1. events' \in Seq(Settings) /\ events' # <<>> /\ events'[Len(events')] = current
    BY <1>6, PushIsLast DEF sendCurrent
  <2> QED
    BY <1>6, <2>1 DEF sendCurrent
<1>7. CASE receiveConfigEvent
  BY <1>7, TailEndsAlike DEF receiveConfigEvent
<1>8. CASE UNCHANGED broadcastVars
  BY <1>8 DEF broadcastVars
<1> HIDE DEF BroadcastInv
<1> QED
  BY <1>1, <1>2, <1>3, <1>4, <1>5, <1>6, <1>7, <1>8 DEF BroadcastNext, RefreshStep

(* config-broadcast.ts 49 and 57: for any number of overlapping refreshes  *)
(* and of streams that start beside them, an open stream ends with the     *)
(* values read last.                                                       *)
THEOREM NoDaemonPassedOver == BroadcastSpec => []StreamEndsWithLatest
<1>1. BroadcastInv => StreamEndsWithLatest
  BY DEF BroadcastInv
<1> QED
  BY BroadcastInitial, BroadcastStep, <1>1, PTL DEF BroadcastSpec

(***************************************************************************)
(* The group.  That every member was admitted in an engine's attempt is    *)
(* known before the engine runs: in what the tether has stored, in the     *)
(* state a synchronisation was given, and in a launch that is under way.   *)
(***************************************************************************)

Lives == {"none", "starting", "ready", "failed"}
Stages == {"none", "preparing", "admitted", "running", "failed"}
Reports == [life : Lives, stage : Stages, attempt : Nat]
DesiredStates == [attempt : Nat, admitted : BOOLEAN, failed : BOOLEAN, ran : BOOLEAN]
Syncs == [at : {"idle", "candidate", "preparing", "launching"}, target : DesiredStates]
Engines == [state : {"none", "loading", "up"}, attempt : Nat]
Outcomes == [at : {"none", "report", "stop"}, verdict : {"ready", "failed"},
             attempt : Nat, attached : BOOLEAN]

(* Every member was stored as admitted in attempt a. *)
AllVouched(a) == \A n \in Members : <<n, a>> \in vouched

StoreInv ==
  /\ generation \in Nat
  /\ stored \in [Members -> Reports] /\ local \in [Members -> Reports]
  /\ \A n \in Members :
       stored[n].stage \in {"admitted", "running"} => <<n, stored[n].attempt>> \in vouched

(* A synchronisation that will launch may do so. *)
MayLaunch(e) ==
  /\ e.at \in {"candidate", "preparing"} /\ e.target.admitted => AllVouched(e.target.attempt)
  /\ e.at = "launching" => AllVouched(e.target.attempt)

GroupSyncInv ==
  /\ sync \in [Members -> Syncs]
  /\ \A m \in Members : MayLaunch(sync[m])

MayRun(e) == e.state # "none" => AllVouched(e.attempt)

EngineInv ==
  /\ engine \in [Members -> Engines]
  /\ \A m \in Members : MayRun(engine[m])

WatchInv == watch \in [Members -> Nat] /\ outcome \in [Members -> Outcomes]

GroupInv == StoreInv /\ GroupSyncInv /\ EngineInv /\ WatchInv

LEMMA EmptyRecords ==
  /\ NoReport \in Reports /\ NoReport.stage = "none"
  /\ NoDesired \in DesiredStates /\ NoDesired.admitted = FALSE
  /\ IdleSync \in Syncs /\ IdleSync.at = "idle"
  /\ NoEngine \in Engines /\ NoEngine.state = "none"
  /\ NoOutcome \in Outcomes
<1>1. NoDesired \in DesiredStates /\ NoDesired.admitted = FALSE
  BY DEF NoDesired, DesiredStates
<1>2. IdleSync \in Syncs /\ IdleSync.at = "idle"
  BY <1>1 DEF IdleSync, Syncs
<1>3. NoReport \in Reports /\ NoReport.stage = "none"
  BY DEF NoReport, Reports, Lives, Stages
<1>4. NoEngine \in Engines /\ NoEngine.state = "none"
  BY DEF NoEngine, Engines
<1>5. NoOutcome \in Outcomes
  BY DEF NoOutcome, Outcomes
<1> QED
  BY <1>1, <1>2, <1>3, <1>4, <1>5

LEMMA GroupInitial == GroupInit => GroupInv
<1> SUFFICES ASSUME GroupInit PROVE GroupInv
  OBVIOUS
<1>1. StoreInv
  BY EmptyRecords DEF GroupInit, StoreInv
<1>2. GroupSyncInv
  BY EmptyRecords DEF GroupInit, GroupSyncInv, MayLaunch
<1>3. EngineInv
  BY EmptyRecords DEF GroupInit, EngineInv, MayRun
<1>4. WatchInv
  BY EmptyRecords DEF GroupInit, WatchInv
<1> QED
  BY <1>1, <1>2, <1>3, <1>4 DEF GroupInv

(* What a member was once vouched for stays. *)
Grows == vouched \subseteq vouched'

LEMMA StoresStep ==
  ASSUME StoreInv, NEW m \in Members, NEW report \in Reports, NEW restart \in BOOLEAN,
         Stores(m, report, restart), local' \in [Members -> Reports]
  PROVE  StoreInv' /\ Grows
<1>1. /\ generation' \in Nat /\ stored' \in [Members -> Reports] /\ Grows
      /\ stored'[m] = report /\ \A n \in Members : n # m => stored'[n] = stored[n]
  BY DEF Stores, StoreInv, Grows
<1>2. report.stage \in {"admitted", "running"} => <<m, report.attempt>> \in vouched'
  BY DEF Stores
<1> QED
  BY <1>1, <1>2 DEF StoreInv, Grows

LEMMA NoStoreStep ==
  ASSUME StoreInv, UNCHANGED tetherVars, local' \in [Members -> Reports]
  PROVE  StoreInv' /\ Grows
BY DEF StoreInv, Grows, tetherVars

LEMMA ReportedStep ==
  ASSUME StoreInv, NEW m \in Members, NEW entry \in Reports, Reported(m, entry)
  PROVE  StoreInv' /\ Grows
<1>1. local' \in [Members -> Reports]
  BY DEF Reported, StoreInv
<1>2. restartsAfter(entry) \in BOOLEAN
  BY DEF restartsAfter
<1> QED
  BY <1>1, <1>2, StoresStep DEF Reported

LEMMA UpdateStep ==
  ASSUME StoreInv, NEW m \in Members, NEW entry \in Reports, updateInstallationState(m, entry)
  PROVE  StoreInv' /\ Grows
<1>1. CASE UNCHANGED tetherVars /\ local' = [local EXCEPT ![m] = entry]
  BY <1>1, NoStoreStep DEF StoreInv
<1>2. CASE Reported(m, entry)
  BY <1>2, ReportedStep
<1>3. CASE ReportFails(m, entry)
  <2>1. CASE Stores(m, entry, FALSE)
    BY <1>3, <2>1, StoresStep DEF ReportFails, StoreInv
  <2>2. CASE UNCHANGED tetherVars
    BY <1>3, <2>2, <1>1 DEF ReportFails
  <2> QED
    BY <1>3, <2>1, <2>2 DEF ReportFails
<1> QED
  BY <1>1, <1>2, <1>3 DEF updateInstallationState

LEMMA NoReportStep == ASSUME StoreInv, NoReportSent PROVE StoreInv' /\ Grows
BY NoStoreStep DEF NoReportSent, StoreInv

LEMMA EntryType ==
  ASSUME NEW attempt \in Nat
  PROVE  /\ Entry("failed", "failed", attempt) \in Reports
         /\ Entry("ready", "running", attempt) \in Reports
         /\ Entry("starting", "preparing", attempt) \in Reports
         /\ Entry("starting", "admitted", attempt) \in Reports
BY DEF Entry, Reports, Lives, Stages

(* What a member is pushed says that all are admitted only when they are. *)
LEMMA DesiredVouched ==
  ASSUME StoreInv, NEW m \in Members
  PROVE  /\ toDesiredState(m) \in DesiredStates
         /\ toDesiredState(m).admitted => AllVouched(toDesiredState(m).attempt)
<1>1. toDesiredState(m) \in DesiredStates
  BY DEF toDesiredState, DesiredStates, StoreInv
<1>2. ASSUME toDesiredState(m).admitted, NEW n \in Members PROVE <<n, generation>> \in vouched
  <2>1. stageOf(n) \in {"admitted", "running"}
    BY <1>2 DEF toDesiredState
  <2> QED
    BY <2>1 DEF stageOf, StoreInv
<1> QED
  BY <1>1, <1>2 DEF toDesiredState, AllVouched

LEMMA VouchedStays == ASSUME Grows, NEW a, AllVouched(a) PROVE AllVouched(a)'
BY DEF AllVouched, Grows

LEMMA SyncStays == ASSUME GroupSyncInv, Grows, UNCHANGED sync PROVE GroupSyncInv'
BY VouchedStays DEF GroupSyncInv, MayLaunch

LEMMA SyncIs ==
  ASSUME GroupSyncInv, Grows, NEW m \in Members, NEW e \in Syncs, MayLaunch(e),
         sync' = [sync EXCEPT ![m] = e]
  PROVE  GroupSyncInv'
<1>1. sync' \in [Members -> Syncs] /\ \A n \in Members : MayLaunch(sync'[n])
  BY DEF GroupSyncInv
<1> QED
  BY <1>1, VouchedStays DEF GroupSyncInv, MayLaunch

LEMMA EngineStays == ASSUME EngineInv, Grows, UNCHANGED engine PROVE EngineInv'
BY VouchedStays DEF EngineInv, MayRun

LEMMA EngineIs ==
  ASSUME EngineInv, Grows, NEW m \in Members, NEW e \in Engines, MayRun(e),
         engine' = [engine EXCEPT ![m] = e]
  PROVE  EngineInv'
<1>1. engine' \in [Members -> Engines] /\ \A n \in Members : MayRun(engine'[n])
  BY DEF EngineInv
<1> QED
  BY <1>1, VouchedStays DEF EngineInv, MayRun

(* A synchronisation that ends, and an engine that is gone. *)
LEMMA SyncEnds ==
  ASSUME GroupSyncInv, Grows, NEW m \in Members, sync' = [sync EXCEPT ![m] = IdleSync]
  PROVE  GroupSyncInv'
BY SyncIs, EmptyRecords DEF MayLaunch

LEMMA EngineGone ==
  ASSUME EngineInv, Grows, NEW m \in Members, engine' = [engine EXCEPT ![m] = NoEngine]
  PROVE  EngineInv'
BY EngineIs, EmptyRecords DEF MayRun

LEMMA WatchStays == ASSUME WatchInv, UNCHANGED <<watch, outcome>> PROVE WatchInv'
BY DEF WatchInv

LEMMA OutcomeChanges ==
  ASSUME WatchInv, watch' \in [Members -> Nat], NEW m \in Members,
         \/ UNCHANGED outcome
         \/ outcome' = [outcome EXCEPT ![m].attached = FALSE]
         \/ outcome' = [outcome EXCEPT ![m].at = "stop"]
         \/ outcome' = [outcome EXCEPT ![m] = NoOutcome]
         \/ Came(m, "ready") \/ Came(m, "failed")
  PROVE  WatchInv'
<1>1. outcome[m] \in Outcomes /\ watch[m] \in Nat
  BY DEF WatchInv
<1>2. [outcome[m] EXCEPT !.attached = FALSE] \in Outcomes
  BY <1>1 DEF Outcomes
<1>3. [outcome[m] EXCEPT !.at = "stop"] \in Outcomes
  BY <1>1 DEF Outcomes
<1>4. \A v \in {"ready", "failed"} :
        [at |-> "report", verdict |-> v, attempt |-> watch[m], attached |-> TRUE] \in Outcomes
  BY <1>1 DEF Outcomes
<1>5. CASE UNCHANGED outcome
  BY <1>5 DEF WatchInv
<1>6. CASE outcome' = [outcome EXCEPT ![m].attached = FALSE]
  BY <1>2, <1>6 DEF WatchInv
<1>7. CASE outcome' = [outcome EXCEPT ![m].at = "stop"]
  BY <1>3, <1>7 DEF WatchInv
<1>8. CASE outcome' = [outcome EXCEPT ![m] = NoOutcome]
  BY <1>8, EmptyRecords DEF WatchInv
<1>9. CASE Came(m, "ready") \/ Came(m, "failed")
  BY <1>4, <1>9 DEF Came, WatchInv
<1> QED
  BY <1>5, <1>6, <1>7, <1>8, <1>9

LEMMA StopWatching == ASSUME WatchInv, NEW m \in Members, stopWatching(m) PROVE WatchInv'
BY OutcomeChanges DEF stopWatching, WatchInv

(* The entry a daemon reports over its own. *)
LEMMA LocalEntry ==
  ASSUME StoreInv, NEW m \in Members
  PROVE  [local[m] EXCEPT !.life = "starting"] \in Reports
<1>1. local[m] \in Reports
  BY DEF StoreInv
<1> QED
  BY <1>1 DEF Reports, Lives

(***************************************************************************)
(* One lemma per action, or per group of alike actions.                    *)
(***************************************************************************)

LEMMA KeepStep == ASSUME GroupInv, NEW m \in Members, syncKeeps(m) PROVE GroupInv'
<1> USE DEF GroupInv
<1>1. generation \in Nat
  BY DEF StoreInv
<1>2. StoreInv' /\ Grows
  BY <1>1, UpdateStep, EntryType, LocalEntry DEF syncKeeps
<1>3. GroupSyncInv' /\ EngineInv' /\ WatchInv'
  BY <1>2, SyncStays, EngineStays, WatchStays DEF syncKeeps
<1> QED
  BY <1>2, <1>3

LEMMA FailSteps ==
  ASSUME GroupInv, NEW m \in Members, reconcileFails(m) \/ syncUncouples(m)
  PROVE  GroupInv'
<1> USE DEF GroupInv
<1>1. generation \in Nat
  BY DEF StoreInv
<1>2. Reported(m, Entry("failed", "failed", generation)) /\ engine' = [engine EXCEPT ![m] = NoEngine]
      /\ UNCHANGED sync
  BY DEF reconcileFails, syncUncouples
<1>3. StoreInv' /\ Grows
  BY <1>1, <1>2, ReportedStep, EntryType
<1>4. GroupSyncInv' /\ EngineInv'
  BY <1>2, <1>3, SyncStays, EngineGone
<1>5. WatchInv'
  BY WatchStays, StopWatching DEF reconcileFails, syncUncouples
<1> QED
  BY <1>3, <1>4, <1>5

LEMMA StopStep == ASSUME GroupInv, NEW m \in Members, syncStops(m) PROVE GroupInv'
<1> USE DEF GroupInv
<1>1. StoreInv' /\ Grows
  BY NoReportStep DEF syncStops
<1>2. GroupSyncInv'
  <2> DEFINE e == [at |-> "candidate", target |-> toDesiredState(m)]
  <2>1. e \in Syncs /\ MayLaunch(e)
    BY DesiredVouched DEF Syncs, MayLaunch
  <2>2. sync' = [sync EXCEPT ![m] = e]
    BY DEF syncStops, Begins
  <2> QED
    BY <1>1, <2>1, <2>2, SyncIs
<1>3. EngineInv' /\ WatchInv'
  BY <1>1, EngineGone, StopWatching DEF syncStops
<1> QED
  BY <1>1, <1>2, <1>3

LEMMA StartStep == ASSUME GroupInv, NEW m \in Members, startNewInstallations(m) PROVE GroupInv'
<1> USE DEF GroupInv
<1> DEFINE d == IF sync[m].at = "idle" THEN toDesiredState(m) ELSE sync[m].target
           failure == Entry("failed", "failed", d.attempt)
           begun == Entry("starting", "preparing", d.attempt)
           e == [at |-> "preparing", target |-> d]
<1>1. d \in DesiredStates /\ (d.admitted => AllVouched(d.attempt))
  <2>1. CASE sync[m].at = "idle"
    BY <2>1, DesiredVouched
  <2>2. CASE sync[m].at # "idle"
    <3>1. sync[m].at = "candidate" /\ sync[m] \in Syncs /\ MayLaunch(sync[m])
      BY <2>2 DEF startNewInstallations, SyncBegins, GroupSyncInv
    <3> QED
      BY <2>2, <3>1 DEF MayLaunch, Syncs
  <2> QED
    BY <2>1, <2>2
<1>2. failure \in Reports /\ begun \in Reports
  BY <1>1, EntryType DEF DesiredStates
<1>3. e \in Syncs /\ MayLaunch(e)
  BY <1>1 DEF Syncs, MayLaunch
<1>4. /\ NoReportSent \/ updateInstallationState(m, failure) \/ updateInstallationState(m, begun)
      /\ Ends(m) \/ sync' = [sync EXCEPT ![m] = e]
      /\ UNCHANGED engine \/ engine' = [engine EXCEPT ![m] = NoEngine]
      /\ UNCHANGED <<watch, outcome>>
  BY DEF startNewInstallations
<1> HIDE DEF d, failure, begun, e
<1>5. StoreInv' /\ Grows
  BY <1>2, <1>4, NoReportStep, UpdateStep
<1>6. GroupSyncInv'
  BY <1>3, <1>4, <1>5, SyncEnds, SyncIs DEF Ends
<1>7. EngineInv' /\ WatchInv'
  BY <1>4, <1>5, EngineStays, EngineGone, WatchStays
<1> QED
  BY <1>5, <1>6, <1>7

LEMMA WaitStep == ASSUME GroupInv, NEW m \in Members, waitForMemory(m) PROVE GroupInv'
<1> USE DEF GroupInv
<1>1. sync[m].target.attempt \in Nat
  BY DEF GroupSyncInv, Syncs, DesiredStates
<1>2. StoreInv' /\ Grows
  BY <1>1, EntryType, UpdateStep DEF waitForMemory
<1>3. GroupSyncInv' /\ EngineInv' /\ WatchInv'
  BY <1>2, SyncEnds, EngineStays, WatchStays DEF waitForMemory, Ends
<1> QED
  BY <1>2, <1>3

(* The start is decided by what the synchronisation was given. *)
LEMMA AdmitStep == ASSUME GroupInv, NEW m \in Members, admit(m) PROVE GroupInv'
<1> USE DEF GroupInv
<1> DEFINE d == sync[m].target
           e == [at |-> "launching", target |-> [NoDesired EXCEPT !.attempt = d.attempt]]
<1>1. d \in DesiredStates /\ d.attempt \in Nat /\ (d.admitted => AllVouched(d.attempt))
  <2>1. sync[m].at = "preparing" /\ sync[m] \in Syncs /\ MayLaunch(sync[m])
    BY DEF admit, GroupSyncInv
  <2> QED
    BY <2>1 DEF MayLaunch, Syncs, DesiredStates
<1>2. StoreInv' /\ Grows /\ UNCHANGED <<engine, watch, outcome>>
  BY <1>1, EntryType, LocalEntry, UpdateStep DEF admit
<1>3. CASE ~startsNow(d)
  <2>1. GroupSyncInv'
    BY <1>2, <1>3, SyncEnds DEF admit, Ends
  <2> QED
    BY <1>2, <2>1, EngineStays, WatchStays
<1>4. CASE startsNow(d)
  <2>1. [NoDesired EXCEPT !.attempt = d.attempt] \in DesiredStates
    BY <1>1 DEF NoDesired, DesiredStates
  <2>2. [NoDesired EXCEPT !.attempt = d.attempt].attempt = d.attempt
    BY DEF NoDesired
  <2>3. e \in Syncs /\ MayLaunch(e)
    BY <1>1, <1>4, <2>1, <2>2 DEF Syncs, MayLaunch, startsNow
  <2>4. sync' = [sync EXCEPT ![m] = e]
    BY <1>4 DEF admit
  <2>5. GroupSyncInv'
    BY <1>2, <2>3, <2>4, SyncIs
  <2> QED
    BY <1>2, <2>5, EngineStays, WatchStays
<1> QED
  BY <1>3, <1>4

LEMMA LaunchStep == ASSUME GroupInv, NEW m \in Members, launch(m) PROVE GroupInv'
<1> USE DEF GroupInv
<1>1. StoreInv' /\ Grows
  BY NoReportStep DEF launch
<1>2. GroupSyncInv'
  BY <1>1, SyncEnds DEF launch, Ends
<1>3. sync[m].target.attempt \in Nat /\ AllVouched(sync[m].target.attempt)
  BY DEF launch, GroupSyncInv, MayLaunch, Syncs, DesiredStates
<1>4. EngineInv'
  <2> DEFINE e == [state |-> "loading", attempt |-> sync[m].target.attempt]
  <2>1. e \in Engines /\ MayRun(e)
    BY <1>3 DEF Engines, MayRun
  <2>2. engine' = [engine EXCEPT ![m] = e]
    BY DEF launch
  <2> QED
    BY <1>1, <2>1, <2>2, EngineIs
<1>5. WatchInv'
  <2>1. watch' \in [Members -> Nat]
    BY <1>3 DEF launch, WatchInv
  <2> QED
    BY <2>1, OutcomeChanges DEF launch
<1> QED
  BY <1>1, <1>2, <1>4, <1>5

LEMMA StartFailsStep == ASSUME GroupInv, NEW m \in Members, startFails(m) PROVE GroupInv'
<1> USE DEF GroupInv
<1>1. sync[m].target.attempt \in Nat
  BY DEF GroupSyncInv, Syncs, DesiredStates
<1>2. StoreInv' /\ Grows
  BY <1>1, EntryType, ReportedStep DEF startFails
<1>3. GroupSyncInv' /\ EngineInv' /\ WatchInv'
  BY <1>2, SyncEnds, EngineStays, WatchStays DEF startFails, Ends
<1> QED
  BY <1>2, <1>3

LEMMA PollSteps ==
  ASSUME GroupInv, NEW m \in Members, pollHealthy(m) \/ pollFails(m)
  PROVE  GroupInv'
<1> USE DEF GroupInv
<1>1. StoreInv' /\ Grows
  BY NoReportStep DEF pollHealthy, pollFails
<1>2. GroupSyncInv' /\ EngineInv'
  BY <1>1, SyncStays, EngineStays DEF pollHealthy, pollFails
<1>3. WatchInv'
  BY OutcomeChanges DEF pollHealthy, pollFails, WatchInv
<1> QED
  BY <1>1, <1>2, <1>3

LEMMA OutcomeSteps == ASSUME GroupInv, NEW m \in Members, OutcomeStep(m) PROVE GroupInv'
<1> USE DEF GroupInv
<1>1. CASE outcomeReports(m)
  <2>1. outcome[m].attempt \in Nat
    BY DEF WatchInv, Outcomes
  <2>2. StoreInv' /\ Grows
    BY <1>1, <2>1, EntryType, UpdateStep DEF outcomeReports
  <2>3. GroupSyncInv' /\ EngineInv'
    BY <1>1, <2>2, SyncStays, EngineStays DEF outcomeReports
  <2>4. WatchInv'
    BY <1>1, OutcomeChanges DEF outcomeReports, WatchInv
  <2> QED
    BY <2>2, <2>3, <2>4
<1>2. CASE outcomeEnds(m)
  <2>1. StoreInv' /\ Grows
    BY <1>2, NoReportStep DEF outcomeEnds
  <2>2. GroupSyncInv' /\ EngineInv'
    BY <1>2, <2>1, SyncStays, EngineStays, EngineGone DEF outcomeEnds
  <2>3. watch' \in [Members -> Nat]
    BY <1>2 DEF outcomeEnds, WatchInv
  <2>4. WatchInv'
    BY <1>2, <2>3, OutcomeChanges DEF outcomeEnds
  <2> QED
    BY <2>1, <2>2, <2>4
<1> QED
  BY <1>1, <1>2 DEF OutcomeStep

LEMMA EngineSteps ==
  ASSUME GroupInv, NEW m \in Members, engineUp(m) \/ engineAlone(m) \/ engineDies(m)
  PROVE  GroupInv'
<1> USE DEF GroupInv
<1>1. /\ UNCHANGED <<tetherVars, local, sync, watch, outcome>>
      /\ \/ engine' = [engine EXCEPT ![m] = NoEngine]
         \/ engine[m].state = "loading" /\ engine' = [engine EXCEPT ![m] = [engine[m] EXCEPT !.state = "up"]]
  BY DEF engineUp, engineAlone, engineDies, EngineBecomes
<1>2. StoreInv' /\ Grows
  BY <1>1, NoStoreStep DEF StoreInv
<1>3. GroupSyncInv' /\ WatchInv'
  BY <1>1, <1>2, SyncStays, WatchStays
<1>4. EngineInv'
  <2> DEFINE e == [engine[m] EXCEPT !.state = "up"]
  <2>1. engine[m] \in Engines /\ MayRun(engine[m])
    BY DEF EngineInv
  <2>2. e \in Engines /\ e.attempt = engine[m].attempt
    BY <2>1 DEF Engines
  <2>3. engine[m].state = "loading" => MayRun(e)
    BY <2>1, <2>2 DEF MayRun
  <2> QED
    BY <1>1, <1>2, <2>2, <2>3, EngineIs, EngineGone
<1> QED
  BY <1>2, <1>3, <1>4

LEMMA DaemonRestartStep == ASSUME GroupInv, NEW m \in Members, daemonRestart(m) PROVE GroupInv'
<1> USE DEF GroupInv
<1>1. StoreInv' /\ Grows
  BY NoStoreStep, EmptyRecords DEF daemonRestart, StoreInv, tetherVars
<1>2. GroupSyncInv' /\ EngineInv'
  BY <1>1, SyncEnds, EngineStays DEF daemonRestart
<1>3. WatchInv'
  BY OutcomeChanges DEF daemonRestart, WatchInv
<1> QED
  BY <1>1, <1>2, <1>3

LEMMA GroupStep == GroupInv /\ [GroupNext]_groupVars => GroupInv'
<1>1. ASSUME GroupInv, UNCHANGED groupVars PROVE GroupInv'
  BY <1>1, NoStoreStep, SyncStays, EngineStays, WatchStays
  DEF groupVars, nodeVars, GroupInv, StoreInv
<1> QED
  BY <1>1, KeepStep, FailSteps, StopStep, StartStep, WaitStep, AdmitStep, LaunchStep,
     StartFailsStep, PollSteps, OutcomeSteps, EngineSteps, DaemonRestartStep
  DEF GroupNext, SyncStep

(* desired-state.ts 34 and vllm.ts 46-48: for any number of members,       *)
(* attempts and failures, no engine runs for an attempt in which not every *)
(* member was stored as admitted.                                          *)
THEOREM GroupLaunchesTogether == GroupSpec => []LaunchedTogether
<1>1. GroupInv => LaunchedTogether
  BY DEF GroupInv, EngineInv, MayRun, AllVouched, LaunchedTogether, Active
<1> QED
  BY GroupInitial, GroupStep, <1>1, PTL DEF GroupSpec

(***************************************************************************)
(* The cache.  The planner's loop is a recursive function of the entries   *)
(* it has looked at: that it has a value, and what that value is, is shown *)
(* by induction over their number.  The induction is stated of a set, not  *)
(* of a predicate, so that it is an ordinary fact to the provers.          *)
(***************************************************************************)

(* A set that has 0, and with each number the next, has all of them. *)
LEMMA SetInduction ==
  ASSUME NEW S, 0 \in S, \A n \in Nat : n \in S => n + 1 \in S
  PROVE  Nat \subseteq S
<1> DEFINE T == Nat \ S
           R == OpToRel(<, Nat)
<1>1. SUFFICES ASSUME T # {} PROVE FALSE
  OBVIOUS
<1>2. IsWellFoundedOn(R, Nat)
  BY NatLessThanWellFounded, Zenon
<1>3. \A y, x \in Nat : y < x => <<y, x>> \in R
  BY DEF OpToRel
<1> HIDE DEF R
<1>4. PICK x \in T : \A y \in T : ~(<<y, x>> \in R)
  BY <1>1, <1>2, WFMin, T \subseteq Nat
<1>5. x # 0 /\ x \in Nat
  OBVIOUS
<1>6. x - 1 \in Nat /\ x - 1 < x /\ (x - 1) + 1 = x
  BY <1>5
<1>7. x - 1 \notin T
  BY <1>3, <1>4, <1>5, <1>6
<1> QED
  BY <1>6, <1>7

(* The bytes of one model's files, and of several. *)
BytesOf(sizes, m) == {m} \X (1 .. sizes[m])
BytesOfAll(sizes, models) == UNION {BytesOf(sizes, m) : m \in models}

LEMMA BytesOfOne ==
  ASSUME NEW sizes \in [Models -> Nat], NEW m \in Models
  PROVE  IsFiniteSet(BytesOf(sizes, m)) /\ Cardinality(BytesOf(sizes, m)) = sizes[m]
<1>1. /\ IsFiniteSet({m}) /\ Cardinality({m}) = 1
      /\ IsFiniteSet(1 .. sizes[m]) /\ Cardinality(1 .. sizes[m]) = sizes[m]
  <2>1. sizes[m] \in Nat /\ 1 \in Int /\ sizes[m] \in Int
    OBVIOUS
  <2>2. Cardinality(1 .. sizes[m]) = IF 1 > sizes[m] THEN 0 ELSE sizes[m] - 1 + 1
    BY <2>1, FS_Interval
  <2>3. IsFiniteSet(1 .. sizes[m]) /\ IsFiniteSet({m}) /\ Cardinality({m}) = 1
    BY <2>1, FS_Interval, FS_Singleton
  <2> QED
    BY <2>1, <2>2, <2>3
<1>2. /\ IsFiniteSet(BytesOf(sizes, m))
      /\ Cardinality(BytesOf(sizes, m)) = Cardinality({m}) * Cardinality(1 .. sizes[m])
  BY <1>1, FS_Product DEF BytesOf
<1> QED
  BY <1>1, <1>2

LEMMA BytesFinite ==
  ASSUME NEW sizes \in [Models -> Nat], NEW models \in SUBSET Models
  PROVE  /\ IsFiniteSet(BytesOfAll(sizes, models))
         /\ Bytes(sizes, models) = Cardinality(BytesOfAll(sizes, models))
         /\ Bytes(sizes, models) \in Nat
<1> DEFINE T == {BytesOf(sizes, m) : m \in models}
           f == [m \in models |-> BytesOf(sizes, m)]
<1>1. IsFiniteSet(models)
  BY EvictionAssumption, FS_Subset
<1>2. f \in Surjection(models, T)
  BY DEF Surjection
<1>3. IsFiniteSet(T)
  BY <1>1, <1>2, FS_Surjection
<1>4. \A u \in T : IsFiniteSet(u)
  BY BytesOfOne
<1>5. IsFiniteSet(BytesOfAll(sizes, models))
  BY <1>3, <1>4, FS_UNION DEF BytesOfAll
<1>6. Bytes(sizes, models) = Cardinality(BytesOfAll(sizes, models))
  BY DEF Bytes, BytesOfAll, BytesOf
<1> QED
  BY <1>5, <1>6, FS_CardinalityType

(* One model more takes its bytes more. *)
LEMMA BytesOfOneMore ==
  ASSUME NEW sizes \in [Models -> Nat], NEW models \in SUBSET Models,
         NEW m \in Models \ models
  PROVE  Bytes(sizes, models \cup {m}) = Bytes(sizes, models) + sizes[m]
<1>1. BytesOfAll(sizes, models \cup {m}) = BytesOfAll(sizes, models) \cup BytesOf(sizes, m)
  BY DEF BytesOfAll
<1>2. BytesOfAll(sizes, models) \cap BytesOf(sizes, m) = {}
  BY DEF BytesOfAll, BytesOf
<1>3. /\ IsFiniteSet(BytesOfAll(sizes, models)) /\ Cardinality(BytesOfAll(sizes, models)) \in Nat
      /\ Bytes(sizes, models) = Cardinality(BytesOfAll(sizes, models))
      /\ Bytes(sizes, models \cup {m}) = Cardinality(BytesOfAll(sizes, models \cup {m}))
      /\ IsFiniteSet(BytesOf(sizes, m)) /\ Cardinality(BytesOf(sizes, m)) = sizes[m]
  BY BytesFinite, BytesOfOne
<1>4. Cardinality(BytesOfAll(sizes, models) \cup BytesOf(sizes, m))
        = Cardinality(BytesOfAll(sizes, models)) + Cardinality(BytesOf(sizes, m)) - Cardinality({})
  BY <1>2, <1>3, FS_Union
<1>5. Cardinality({}) = 0 /\ sizes[m] \in Nat
  BY FS_EmptySet
<1>6. Bytes(sizes, models \cup {m}) = Cardinality(BytesOfAll(sizes, models) \cup BytesOf(sizes, m))
  BY <1>1, <1>3, Zenon
<1> QED
  BY <1>3, <1>4, <1>5, <1>6

Places == {"idle", "measuring", "listing", "resolving", "evicting", "writing", "done", "failed"}
Jobs == [at : Places, free : Int, required : Int, entries : Seq(Models),
         sizes : [Models -> Nat], needed : SUBSET Models, evict : Seq(Models), planned : Nat]
Plans == [evict : Seq(Models), freed : Nat]

NoRepeats(row) == \A i, k \in DOMAIN row : row[i] = row[k] => i = k

(* The candidates among the first i entries. *)
Before(row, stale, i) == {e \in stale : \E k \in 1 .. i : row[k] = e}

(* What the loop has planned after i entries: all candidates among them, or *)
(* the oldest that suffice and would not without the last of them.          *)
PlanInv(j, stale, i, p) ==
  /\ p \in Plans
  /\ ToSet(p.evict) \subseteq Before(j.entries, stale, i)
  /\ p.freed = Bytes(j.sizes, ToSet(p.evict))
  /\ Suffices(j, p.freed) \/ ToSet(p.evict) = Before(j.entries, stale, i)
  /\ \A a, b \in 1 .. i :
       /\ a < b
       /\ j.entries[a] \in stale
       /\ j.entries[b] \in ToSet(p.evict)
       => j.entries[a] \in ToSet(p.evict)
  /\ p.evict # <<>> => ~Suffices(j, Bytes(j.sizes, ToSet(p.evict) \ {Last(p.evict)}))

LEMMA AppendToRow ==
  ASSUME NEW row \in Seq(Models), NEW e \in Models
  PROVE  /\ Append(row, e) \in Seq(Models) /\ Append(row, e) # <<>>
         /\ ToSet(Append(row, e)) = ToSet(row) \cup {e}
         /\ Last(Append(row, e)) = e
<1>1. /\ Append(row, e) \in Seq(Models) /\ Len(Append(row, e)) = Len(row) + 1
      /\ \A i \in 1 .. Len(row) : Append(row, e)[i] = row[i]
      /\ Append(row, e)[Len(row) + 1] = e
  BY AppendProperties
<1>2. DOMAIN row = 1 .. Len(row) /\ DOMAIN Append(row, e) = 1 .. (Len(row) + 1) /\ Len(row) \in Nat
  BY <1>1, LenProperties
<1>3. ToSet(Append(row, e)) = ToSet(row) \cup {e}
  BY <1>1, <1>2 DEF ToSet
<1>4. Append(row, e) # <<>>
  BY AppendProperties
<1>5. Last(Append(row, e)) = e
  BY <1>1, <1>2 DEF Last
<1> QED
  BY <1>1, <1>3, <1>4, <1>5

LEMMA RowElements ==
  ASSUME NEW row \in Seq(Models)
  PROVE  /\ ToSet(row) \in SUBSET Models
         /\ \A e : e \in ToSet(row) <=> \E i \in 1 .. Len(row) : row[i] = e
         /\ Len(row) \in Nat /\ DOMAIN row = 1 .. Len(row)
BY LenProperties DEF ToSet

LEMMA EmptyRow == ToSet(<<>>) = {} /\ <<>> \in Seq(Models) /\ Len(<<>>) = 0
BY DEF ToSet

LEMMA PlanStarts ==
  ASSUME NEW j \in Jobs, NEW stale
  PROVE  PlanInv(j, stale, 0, NoPlan)
<1>1. NoPlan.evict = <<>> /\ NoPlan.freed = 0 /\ NoPlan \in Plans
  BY EmptyRow DEF NoPlan, Plans
<1>2. BytesOfAll(j.sizes, {}) = {}
  BY DEF BytesOfAll
<1>3. Bytes(j.sizes, {}) = 0
  BY <1>2, BytesFinite, FS_EmptySet DEF Jobs
<1>4. Before(j.entries, stale, 0) = {}
  BY DEF Before
<1> QED
  BY <1>1, <1>3, <1>4, EmptyRow DEF PlanInv

LEMMA BeforeGrows ==
  ASSUME NEW row, NEW stale, NEW i \in Nat \ {0}
  PROVE  Before(row, stale, i)
           = Before(row, stale, i - 1) \cup (IF row[i] \in stale THEN {row[i]} ELSE {})
<1>1. \A k : k \in 1 .. i <=> k \in 1 .. i - 1 \/ k = i
  OBVIOUS
<1> QED
  BY <1>1 DEF Before

(* One turn of the loop. *)
LEMMA PlanGoesOn ==
  ASSUME NEW j \in Jobs, NEW stale \in SUBSET Models, NoRepeats(j.entries),
         NEW i \in 1 .. Len(j.entries), NEW p, PlanInv(j, stale, i - 1, p),
         NEW e, e = j.entries[i], NEW q, q = PlanEntry(j, stale, e, p)
  PROVE  PlanInv(j, stale, i, q)
<1>0. /\ j.entries \in Seq(Models) /\ j.sizes \in [Models -> Nat]
      /\ p.evict \in Seq(Models) /\ p.freed \in Nat
  BY DEF Jobs, PlanInv, Plans
<1>1. /\ Len(j.entries) \in Nat /\ DOMAIN j.entries = 1 .. Len(j.entries)
      /\ i \in Nat \ {0} /\ e \in Models /\ j.sizes[e] \in Nat
      /\ ToSet(p.evict) \in SUBSET Models
  BY <1>0, RowElements
<1>2. \A k \in 1 .. i - 1 : j.entries[k] # e
  BY <1>1 DEF NoRepeats
<1>3. e \notin ToSet(p.evict)
  BY <1>2 DEF PlanInv, Before
<1>4. Before(j.entries, stale, i)
        = Before(j.entries, stale, i - 1) \cup (IF e \in stale THEN {e} ELSE {})
  BY <1>1, BeforeGrows
<1>5. CASE e \notin stale \/ Suffices(j, p.freed)
  <2>1. q = p
    BY <1>5 DEF PlanEntry
  <2>2. ASSUME NEW a \in 1 .. i, NEW b \in 1 .. i, a < b, j.entries[a] \in stale,
               j.entries[b] \in ToSet(p.evict)
        PROVE  j.entries[a] \in ToSet(p.evict)
    <3>1. b # i
      BY <1>3, <2>2
    <3>2. a \in 1 .. i - 1 /\ b \in 1 .. i - 1
      BY <1>1, <2>2, <3>1
    <3> QED
      BY <2>2, <3>2 DEF PlanInv
  <2>3. /\ ToSet(p.evict) \subseteq Before(j.entries, stale, i)
        /\ Suffices(j, p.freed) \/ ToSet(p.evict) = Before(j.entries, stale, i)
    BY <1>4, <1>5 DEF PlanInv
  <2> QED
    BY <2>1, <2>2, <2>3 DEF PlanInv
<1>6. CASE e \in stale /\ ~Suffices(j, p.freed)
  <2>1. /\ q = [evict |-> Append(p.evict, e), freed |-> p.freed + j.sizes[e]]
        /\ q.evict = Append(p.evict, e) /\ q.freed = p.freed + j.sizes[e]
    BY <1>6 DEF PlanEntry
  <2>2. /\ q.evict \in Seq(Models) /\ q.evict # <<>> /\ Last(q.evict) = e
        /\ ToSet(q.evict) = ToSet(p.evict) \cup {e}
    BY <1>0, <1>1, <2>1, AppendToRow
  <2>3. q \in Plans
    BY <1>0, <1>1, <2>1, <2>2 DEF Plans
  <2>4. ToSet(p.evict) = Before(j.entries, stale, i - 1) /\ p.freed = Bytes(j.sizes, ToSet(p.evict))
    BY <1>6 DEF PlanInv
  <2>5. Bytes(j.sizes, ToSet(p.evict) \cup {e}) = Bytes(j.sizes, ToSet(p.evict)) + j.sizes[e]
    BY <1>0, <1>1, <1>3, BytesOfOneMore
  <2>6. ToSet(q.evict) = Before(j.entries, stale, i)
    BY <1>4, <1>6, <2>2, <2>4
  <2>7. q.freed = Bytes(j.sizes, ToSet(q.evict))
    BY <2>1, <2>2, <2>4, <2>5
  <2>8. ~Suffices(j, Bytes(j.sizes, ToSet(q.evict) \ {Last(q.evict)}))
    <3>1. ToSet(q.evict) \ {Last(q.evict)} = ToSet(p.evict)
      BY <1>3, <2>2
    <3> QED
      BY <1>6, <2>4, <3>1
  <2>9. \A a \in 1 .. i : j.entries[a] \in stale => j.entries[a] \in ToSet(q.evict)
    BY <2>6 DEF Before
  <2> QED
    BY <2>3, <2>6, <2>7, <2>8, <2>9 DEF PlanInv
<1> QED
  BY <1>5, <1>6

(* The loop has a value: it is defined from one entry to the next. *)
LEMMA LoopExists ==
  ASSUME NEW j, NEW stale, NEW row, Len(row) \in Nat
  PROVE  \E g : g = [i \in 0 .. Len(row) |->
                       IF i = 0 THEN NoPlan ELSE PlanEntry(j, stale, row[i], g[i - 1])]
<1> DEFINE Goes(n, g) == g = [i \in 0 .. n |->
                       IF i = 0 THEN NoPlan ELSE PlanEntry(j, stale, row[i], g[i - 1])]
           S == {n \in Nat : \E g : Goes(n, g)}
<1>1. 0 \in S
  <2> DEFINE g == [i \in 0 .. 0 |-> NoPlan]
  <2>1. Goes(0, g)
    OBVIOUS
  <2> QED
    BY <2>1
<1>2. ASSUME NEW n \in Nat, n \in S PROVE n + 1 \in S
  <2>1. PICK g : Goes(n, g)
    BY <1>2
  <2> DEFINE h == [i \in 0 .. n + 1 |-> IF i = n + 1 THEN PlanEntry(j, stale, row[i], g[n]) ELSE g[i]]
  <2>2. ASSUME NEW i \in 0 .. n + 1
        PROVE  h[i] = IF i = 0 THEN NoPlan ELSE PlanEntry(j, stale, row[i], h[i - 1])
    <3>1. CASE i = n + 1
      BY <3>1
    <3>2. CASE i \in 0 .. n
      <4>1. h[i] = g[i] /\ (i # 0 => h[i - 1] = g[i - 1])
        BY <3>2
      <4>2. g[i] = IF i = 0 THEN NoPlan ELSE PlanEntry(j, stale, row[i], g[i - 1])
        BY <2>1, <3>2
      <4> QED
        BY <4>1, <4>2
    <3> QED
      BY <3>1, <3>2
  <2>3. Goes(n + 1, h)
    BY <2>2
  <2> HIDE DEF Goes, h
  <2> QED
    BY <2>3
<1> HIDE DEF S
<1>3. Nat \subseteq S
  BY <1>1, <1>2, SetInduction
<1> QED
  BY <1>3 DEF S

(* What the loop returns. *)
LEMMA LoopPlans ==
  ASSUME NEW j \in Jobs, NEW stale \in SUBSET Models, NoRepeats(j.entries)
  PROVE  PlanInv(j, stale, Len(j.entries), planEviction(j, stale))
<1> DEFINE L == Len(j.entries)
           Goes(g) == g = [i \in 0 .. Len(j.entries) |->
                       IF i = 0 THEN NoPlan ELSE PlanEntry(j, stale, j.entries[i], g[i - 1])]
           plans == CHOOSE g : Goes(g)
           S == {n \in Nat : n =< L => PlanInv(j, stale, n, plans[n])}
<1>1. planEviction(j, stale) = plans[L]
  BY Zenon DEF planEviction, PlanRow
<1>2. L \in Nat
  BY RowElements DEF Jobs
<1>3. \E g : Goes(g)
  BY <1>2, LoopExists
<1>4. Goes(plans)
  <2> HIDE DEF Goes
  <2> QED
    BY <1>3, Zenon
<1>5. plans[0] = NoPlan /\ \A i \in 1 .. L : plans[i] = PlanEntry(j, stale, j.entries[i], plans[i - 1])
  <2> HIDE DEF plans
  <2> QED
    BY <1>2, <1>4
<1> HIDE DEF plans, L
<1>6. 0 \in S
  BY <1>5, PlanStarts
<1>7. ASSUME NEW n \in Nat, n \in S PROVE n + 1 \in S
  <2> SUFFICES ASSUME n + 1 =< L PROVE PlanInv(j, stale, n + 1, plans[n + 1])
    OBVIOUS
  <2>1. PlanInv(j, stale, n, plans[n])
    BY <1>2, <1>7
  <2>2. n + 1 \in 1 .. Len(j.entries) /\ (n + 1) - 1 = n
    BY <1>2 DEF L
  <2>3. plans[n + 1] = PlanEntry(j, stale, j.entries[n + 1], plans[n])
    BY <1>5, <2>2 DEF L
  <2> QED
    BY <2>1, <2>2, <2>3, PlanGoesOn
<1> HIDE DEF S
<1>8. Nat \subseteq S
  BY <1>6, <1>7, SetInduction
<1> QED
  BY <1>1, <1>2, <1>8 DEF S, L

EvictionTypeOK ==
  /\ cached \in [Models -> Nat]
  /\ order \in Seq(Models) /\ NoRepeats(order)
  /\ desired \in SUBSET Models /\ unknown \in SUBSET Models
  /\ job \in [Models -> Jobs]

(* What is known of a download while models are kept. *)
JobInv(m, j, kept) ==
  /\ j.at \in {"listing", "resolving"} => ~Suffices(j, 0)
  /\ j.at = "resolving" => NoRepeats(j.entries) /\ kept \subseteq j.needed
  /\ j.at = "evicting" =>
       /\ ToSet(j.evict) \cap kept = {}
       /\ Len(j.evict) =< j.planned
       /\ Len(j.evict) = j.planned => LeastPlan(m, j)

(* What is steady is desired and known. *)
SteadyIsWanted == steady \subseteq desired \ unknown

EvictionInv ==
  /\ EvictionTypeOK
  /\ SteadyIsWanted
  /\ \A m \in Models : JobInv(m, job[m], steady)

LEMMA NoJobType == NoJob \in Jobs /\ \A at \in Places : [NoJob EXCEPT !.at = at] \in Jobs
<1>1. [m \in Models |-> 0] \in [Models -> Nat]
  OBVIOUS
<1> DEFINE none == [m \in Models |-> 0]
<1>2. NoJob = [at |-> "idle", free |-> 0, required |-> 0, entries |-> <<>>, sizes |-> none,
               needed |-> {}, evict |-> <<>>, planned |-> 0]
  BY DEF NoJob
<1> HIDE DEF none
<1>3. NoJob \in Jobs
  BY <1>1, <1>2, EmptyRow DEF Jobs, Places, none
<1> QED
  BY <1>3 DEF Jobs

LEMMA Restful ==
  ASSUME NEW m, NEW j, NEW kept, j.at \notin {"listing", "resolving", "evicting"}
  PROVE  JobInv(m, j, kept)
BY DEF JobInv

LEMMA NoJobInv == ASSUME NEW m, NEW kept PROVE JobInv(m, NoJob, kept)
BY Restful DEF NoJob

LEMMA NoJobRests ==
  ASSUME NEW m, NEW kept, NEW at \in Places \ {"listing", "resolving", "evicting"}
  PROVE  JobInv(m, [NoJob EXCEPT !.at = at], kept)
<1>1. [NoJob EXCEPT !.at = at].at = at
  BY DEF NoJob
<1> QED
  BY <1>1, Restful

LEMMA FewerKept ==
  ASSUME NEW m, NEW j, NEW kept, NEW less \in SUBSET kept, JobInv(m, j, kept)
  PROVE  JobInv(m, j, less)
BY DEF JobInv

LEMMA FreeIsInt == EvictionTypeOK => Free \in Int
<1> SUFFICES ASSUME EvictionTypeOK PROVE Free \in Int
  OBVIOUS
<1>1. Bytes(cached, Models) \in Nat
  BY BytesFinite DEF EvictionTypeOK
<1> QED
  BY <1>1, EvictionAssumption DEF Free

(* A row without one of its entries. *)
LEMMA RemoveFromRow ==
  ASSUME NEW row \in Seq(Models), NoRepeats(row), NEW e
  PROVE  RemoveFirst(row, e) \in Seq(Models) /\ NoRepeats(RemoveFirst(row, e))
<1>1. PICK L \in Nat : L = Len(row) /\ DOMAIN row = 1 .. L /\ \A i \in 1 .. L : row[i] \in Models
  BY LenProperties
<1> DEFINE I == {i \in 1 .. L : row[i] = e}
<1>2. CASE I = {}
  BY <1>1, <1>2 DEF RemoveFirst
<1>3. CASE I # {}
  <2>1. PICK k \in 1 .. L : I = {k}
    BY <1>1, <1>3 DEF NoRepeats
  <2>2. Min(I) = k /\ k \in Nat /\ L \in Nat /\ 1 =< k /\ k =< L
    BY <1>1, <2>1 DEF Min
  <2> DEFINE a == SubSeq(row, 1, k - 1)
             b == SubSeq(row, k + 1, L)
             c == a \o b
  <2>3. RemoveFirst(row, e) = c
    BY <1>1, <1>3, <2>2 DEF RemoveFirst, RemoveAt, SelectInSeq
  <2>4. /\ a \in Seq(Models) /\ Len(a) = k - 1
        /\ \A i \in 1 .. k - 1 : a[i] = row[i]
    BY <1>1, <2>2, SubSeqProperties
  <2>5. /\ b \in Seq(Models) /\ Len(b) = L - k
        /\ \A i \in 1 .. L - k : b[i] = row[k + i]
    <3>1. \A i \in k + 1 .. L : row[i] \in Models
      BY <1>1, <2>2
    <3>2. /\ b \in Seq(Models)
          /\ Len(b) = IF k + 1 <= L THEN L - (k + 1) + 1 ELSE 0
          /\ \A i \in 1 .. L - (k + 1) + 1 : b[i] = row[(k + 1) + i - 1]
      BY <2>2, <3>1, SubSeqProperties
    <3> HIDE DEF b
    <3>3. Len(b) = L - k
      BY <2>2, <3>2
    <3>4. ASSUME NEW i \in 1 .. L - k PROVE b[i] = row[k + i]
      <4>1. i \in 1 .. L - (k + 1) + 1 /\ (k + 1) + i - 1 = k + i
        BY <2>2
      <4> QED
        BY <3>2, <4>1
    <3> QED
      BY <3>2, <3>3, <3>4
  <2> HIDE DEF a, b
  <2>6. /\ c \in Seq(Models) /\ Len(c) = Len(a) + Len(b)
        /\ \A i \in 1 .. Len(a) + Len(b) : c[i] = IF i =< Len(a) THEN a[i] ELSE b[i - Len(a)]
    BY <2>4, <2>5, ConcatProperties
  <2> HIDE DEF c
  <2>7. Len(a) + Len(b) = L - 1
    BY <2>2, <2>4, <2>5
  <2>8. DOMAIN c = 1 .. L - 1
    BY <2>6, <2>7, LenProperties
  <2>9. ASSUME NEW i \in 1 .. L - 1
        PROVE  c[i] = IF i < k THEN row[i] ELSE row[i + 1]
    <3>1. c[i] = IF i =< k - 1 THEN a[i] ELSE b[i - (k - 1)]
      BY <2>4, <2>6, <2>7
    <3>2. CASE i < k
      BY <2>2, <2>4, <3>1, <3>2
    <3>3. CASE ~(i < k)
      <4>1. i - (k - 1) \in 1 .. L - k /\ k + (i - (k - 1)) = i + 1 /\ ~(i =< k - 1)
        BY <2>2, <3>3
      <4>2. b[i - (k - 1)] = row[k + (i - (k - 1))]
        BY <2>5, <4>1
      <4> QED
        BY <3>1, <3>3, <4>1, <4>2
    <3> QED
      BY <3>2, <3>3
  <2>10. NoRepeats(c)
    BY <1>1, <2>2, <2>8, <2>9 DEF NoRepeats
  <2> QED
    BY <2>3, <2>6, <2>10
<1> QED
  BY <1>2, <1>3

(* The loop's plan for a download that lacks room. *)
LEMMA PlanSuits ==
  ASSUME NEW m \in Models, NEW j \in Jobs, NoRepeats(j.entries), ~Suffices(j, 0),
         NEW needed \in SUBSET Models, NEW stale, stale = candidates(j, m, needed),
         NEW p, p = planEviction(j, stale), Suffices(j, p.freed),
         NEW k, k = [j EXCEPT !.at = "evicting", !.needed = needed, !.evict = p.evict,
                              !.planned = Len(p.evict)]
  PROVE  k \in Jobs /\ LeastPlan(m, k) /\ ToSet(p.evict) \cap needed = {}
<1>0. j.entries \in Seq(Models) /\ j.sizes \in [Models -> Nat]
  BY DEF Jobs
<1>1. stale \in SUBSET Models /\ stale = {e \in ToSet(j.entries) : e # m /\ e \notin needed}
  BY <1>0, RowElements DEF candidates
<1>2. PlanInv(j, stale, Len(j.entries), p)
  BY <1>1, LoopPlans
<1>3. p.evict \in Seq(Models) /\ p.freed \in Nat /\ Len(p.evict) \in Nat
  BY <1>2, RowElements DEF PlanInv, Plans
<1>4. /\ k \in Jobs /\ k.entries = j.entries /\ k.sizes = j.sizes /\ k.needed = needed
      /\ k.evict = p.evict /\ k.free = j.free /\ k.required = j.required
  BY <1>3 DEF Jobs, Places
<1>5. \A n : Suffices(k, n) <=> Suffices(j, n)
  BY <1>4 DEF Suffices
<1> DEFINE evictable == {e \in Models : Contains(j.entries, e) /\ e # m /\ e \notin needed}
           age(e) == CHOOSE i \in DOMAIN j.entries : j.entries[i] = e
           chosen == ToSet(p.evict)
<1>6. evictable = stale
  BY <1>0, <1>1, RowElements DEF Contains
<1>7. chosen \subseteq stale
  BY <1>2 DEF PlanInv, Before
<1>8. \A e \in evictable : age(e) \in 1 .. Len(j.entries) /\ j.entries[age(e)] = e
  BY <1>0, RowElements DEF Contains
<1>9. ASSUME NEW e \in chosen, NEW f \in evictable, age(f) < age(e)
      PROVE  f \in chosen
  <2>1. e \in evictable
    BY <1>6, <1>7
  <2> HIDE DEF age, chosen, evictable
  <2> QED
    BY <1>2, <1>6, <1>8, <1>9, <2>1 DEF PlanInv, chosen
<1>10. p.freed = Bytes(j.sizes, chosen)
  BY <1>2 DEF PlanInv
<1>11. p.evict # <<>>
  <2>1. SUFFICES ASSUME p.evict = <<>> PROVE FALSE
    OBVIOUS
  <2>2. BytesOfAll(j.sizes, {}) = {}
    BY DEF BytesOfAll
  <2>3. Bytes(j.sizes, {}) = 0
    BY <1>0, <2>2, BytesFinite, FS_EmptySet
  <2> QED
    BY <1>10, <2>1, <2>3, EmptyRow
<1>12. ~Suffices(j, Bytes(j.sizes, chosen \ {Last(p.evict)}))
  BY <1>2, <1>11 DEF PlanInv
<1>13. LeastPlan(m, k)
  <2> HIDE DEF age, chosen
  <2>1. evictable = {e \in Models : Contains(k.entries, e) /\ e # m /\ e \notin k.needed}
    BY <1>4
  <2>2. \A e : age(e) = CHOOSE i \in DOMAIN k.entries : k.entries[i] = e
    BY <1>4 DEF age
  <2>3. Suffices(k, Bytes(k.sizes, chosen)) /\ ~Suffices(k, Bytes(k.sizes, chosen \ {Last(k.evict)}))
    BY <1>4, <1>5, <1>10, <1>12
  <2>4. chosen = ToSet(k.evict)
    BY <1>4 DEF chosen
  <2> HIDE DEF evictable
  <2> QED
    BY <1>6, <1>7, <1>9, <2>1, <2>2, <2>3, <2>4 DEF LeastPlan
<1>14. chosen \cap needed = {}
  BY <1>1, <1>7
<1> QED
  BY <1>4, <1>13, <1>14

LEMMA EvictionInitial == EvictionInit => EvictionInv
<1> SUFFICES ASSUME EvictionInit PROVE EvictionInv
  OBVIOUS
<1>1. PICK kept \in SUBSET Models :
        /\ cached = [m \in Models |-> IF m \in kept THEN Size[m] ELSE 0]
        /\ order \in SetToSeqs(kept)
  BY DEF EvictionInit
<1>2. cached \in [Models -> Nat]
  BY <1>1, EvictionAssumption
<1>3. order \in Seq(Models) /\ NoRepeats(order)
  <2>1. Cardinality(kept) \in Nat
    BY <1>1, EvictionAssumption, FS_Subset, FS_CardinalityType
  <2>2. /\ order \in [1 .. Cardinality(kept) -> kept]
        /\ \A i, k \in 1 .. Cardinality(kept) : i # k => order[i] # order[k]
    BY <1>1 DEF SetToSeqs
  <2>3. order \in [1 .. Cardinality(kept) -> Models]
    BY <1>1, <2>2
  <2>4. order \in Seq(Models)
    BY <2>1, <2>3, SeqDef
  <2> QED
    BY <2>2, <2>4 DEF NoRepeats
<1>4. EvictionTypeOK
  BY <1>2, <1>3, NoJobType DEF EvictionInit, EvictionTypeOK
<1>5. \A m \in Models : JobInv(m, job[m], steady)
  BY NoJobInv DEF EvictionInit
<1> QED
  BY <1>4, <1>5 DEF EvictionInv, EvictionInit, SteadyIsWanted

(* A step that changes one download, and no bytes but its own. *)
LEMMA JobChanges ==
  ASSUME EvictionInv, NEW m \in Models, NEW k \in Jobs, JobInv(m, k, steady),
         job' = [job EXCEPT ![m] = k], cached' \in [Models -> Nat],
         order' \in Seq(Models), NoRepeats(order'),
         UNCHANGED <<desired, unknown, steady>>
  PROVE  EvictionInv'
<1>1. EvictionTypeOK'
  BY DEF EvictionInv, EvictionTypeOK
<1>2. SteadyIsWanted'
  BY DEF EvictionInv, SteadyIsWanted
<1>3. ASSUME NEW n \in Models PROVE JobInv(n, job'[n], steady')
  <2>1. CASE n = m
    BY <2>1 DEF EvictionInv, EvictionTypeOK
  <2>2. CASE n # m
    BY <2>2 DEF EvictionInv, EvictionTypeOK
  <2> QED
    BY <2>1, <2>2
<1> QED
  BY <1>1, <1>2, <1>3 DEF EvictionInv

(* A step that changes one download and nothing on the disk. *)
LEMMA JobOnly ==
  ASSUME EvictionInv, NEW m \in Models, NEW k \in Jobs, JobInv(m, k, steady),
         job' = [job EXCEPT ![m] = k], UNCHANGED <<cached, order, desired, unknown, steady>>
  PROVE  EvictionInv'
<1>1. cached' \in [Models -> Nat] /\ order' \in Seq(Models) /\ NoRepeats(order')
  BY DEF EvictionInv, EvictionTypeOK
<1> QED
  BY <1>1, JobChanges

LEMMA DesiredStep == ASSUME EvictionInv, setDesired PROVE EvictionInv'
<1>1. EvictionTypeOK'
  BY NoJobType DEF EvictionInv, EvictionTypeOK, setDesired
<1>2. SteadyIsWanted' /\ steady' \in SUBSET steady
  BY DEF EvictionInv, SteadyIsWanted, setDesired
<1>3. ASSUME NEW m \in Models PROVE JobInv(m, job'[m], steady')
  <2>1. job'[m] = job[m] \/ job'[m] = NoJob
    BY DEF setDesired
  <2>2. JobInv(m, job[m], steady') /\ JobInv(m, NoJob, steady')
    BY <1>2, FewerKept, NoJobInv DEF EvictionInv
  <2> QED
    BY <2>1, <2>2
<1> QED
  BY <1>1, <1>2, <1>3 DEF EvictionInv

LEMMA CatalogStep == ASSUME EvictionInv, leavesCatalog PROVE EvictionInv'
<1>1. EvictionTypeOK'
  BY DEF EvictionInv, EvictionTypeOK, leavesCatalog
<1>2. SteadyIsWanted' /\ steady' \in SUBSET steady
  BY DEF EvictionInv, SteadyIsWanted, leavesCatalog
<1>3. ASSUME NEW m \in Models PROVE JobInv(m, job'[m], steady')
  BY <1>2, FewerKept DEF EvictionInv, leavesCatalog
<1> QED
  BY <1>1, <1>2, <1>3 DEF EvictionInv

LEMMA DownloadModelStep ==
  ASSUME EvictionInv, NEW m \in Models, downloadModel(m) PROVE EvictionInv'
<1> DEFINE k == [job[m] EXCEPT !.at = "measuring", !.required = Size[m] - cached[m]]
<1>1. job[m] \in Jobs /\ Size[m] - cached[m] \in Int
  BY EvictionAssumption DEF EvictionInv, EvictionTypeOK
<1>2. k \in Jobs /\ k.at = "measuring" /\ job' = [job EXCEPT ![m] = k]
  <2>1. k \in Jobs /\ k.at = "measuring"
    BY <1>1 DEF Jobs, Places
  <2>2. job' = [job EXCEPT ![m] = k]
    BY DEF downloadModel
  <2> QED
    BY <2>1, <2>2
<1>3. JobInv(m, k, steady)
  BY <1>2, Restful
<1>4. order' \in Seq(Models) /\ NoRepeats(order')
  <2>1. CASE Contains(order, m)
    BY <2>1 DEF downloadModel, EvictionInv, EvictionTypeOK
  <2>2. CASE ~Contains(order, m)
    <3>1. order' = Append(order, m) /\ order \in Seq(Models) /\ NoRepeats(order)
      BY <2>2 DEF downloadModel, EvictionInv, EvictionTypeOK
    <3>2. PICK L \in Nat : L = Len(order) /\ DOMAIN order = 1 .. L
      BY <3>1, LenProperties
    <3>3. /\ Append(order, m) \in Seq(Models) /\ Len(Append(order, m)) = L + 1
          /\ \A i \in 1 .. L : Append(order, m)[i] = order[i]
          /\ Append(order, m)[L + 1] = m
      BY <3>1, <3>2, AppendProperties
    <3>4. DOMAIN Append(order, m) = 1 .. L + 1
      BY <3>3, LenProperties
    <3>5. \A i \in 1 .. L : order[i] # m
      BY <2>2, <3>2 DEF Contains
    <3>6. \A i \in 1 .. L + 1 : i \in 1 .. L \/ i = L + 1
      BY <3>2
    <3>7. NoRepeats(Append(order, m))
      BY <3>1, <3>2, <3>3, <3>4, <3>5, <3>6 DEF NoRepeats
    <3> QED
      BY <3>1, <3>3, <3>7
  <2> QED
    BY <2>1, <2>2
<1>5. cached' \in [Models -> Nat] /\ UNCHANGED <<desired, unknown, steady>>
  BY DEF downloadModel, EvictionInv, EvictionTypeOK
<1> HIDE DEF k
<1> QED
  BY <1>2, <1>3, <1>4, <1>5, JobChanges

LEMMA MeasureStep == ASSUME EvictionInv, NEW m \in Models, measure(m) PROVE EvictionInv'
<1>1. job[m] \in Jobs /\ Free \in Int /\ Margin \in Nat
  BY FreeIsInt, EvictionAssumption DEF EvictionInv, EvictionTypeOK
<1> USE DEF Places
<1>2. CASE needsCacheSpace(job[m].required, Free)
  <2> DEFINE k == [job[m] EXCEPT !.at = "listing", !.free = Free]
  <2>1. job' = [job EXCEPT ![m] = k]
    BY <1>2 DEF measure
  <2>2. k \in Jobs /\ k.at = "listing" /\ k.free = Free /\ k.required = job[m].required
    BY <1>1 DEF Jobs
  <2>3. k.required \in Int
    BY <2>2 DEF Jobs
  <2> HIDE DEF k
  <2>4. ~Suffices(k, 0)
    BY <1>1, <1>2, <2>2, <2>3 DEF Suffices, needsCacheSpace
  <2>5. JobInv(m, k, steady)
    BY <2>2, <2>4 DEF JobInv
  <2> QED
    BY <2>1, <2>2, <2>5, JobOnly DEF measure
<1>3. CASE ~needsCacheSpace(job[m].required, Free)
  BY <1>3, NoJobType, NoJobRests, JobOnly DEF measure
<1> QED
  BY <1>2, <1>3

LEMMA ListStep == ASSUME EvictionInv, NEW m \in Models, listCacheEntries(m) PROVE EvictionInv'
<1> DEFINE k == [job[m] EXCEPT !.at = "resolving", !.entries = order, !.sizes = cached, !.needed = desired]
<1>1. job[m] \in Jobs /\ job[m].at = "listing" /\ JobInv(m, job[m], steady)
  BY DEF EvictionInv, EvictionTypeOK, listCacheEntries
<1>2. job' = [job EXCEPT ![m] = k]
  BY DEF listCacheEntries
<1>3. /\ k \in Jobs /\ k.at = "resolving" /\ k.entries = order /\ k.needed = desired
      /\ k.free = job[m].free /\ k.required = job[m].required
  BY <1>1 DEF Jobs, Places, EvictionInv, EvictionTypeOK
<1> HIDE DEF k
<1>4. ~Suffices(k, 0)
  BY <1>1, <1>3 DEF JobInv, Suffices
<1>5. JobInv(m, k, steady)
  BY <1>3, <1>4 DEF JobInv, EvictionInv, EvictionTypeOK, SteadyIsWanted
<1> QED
  BY <1>2, <1>3, <1>5, JobOnly DEF listCacheEntries

LEMMA PlanStep == ASSUME EvictionInv, NEW m \in Models, plan(m) PROVE EvictionInv'
<1> DEFINE j == job[m]
           needed == j.needed \ unknown
           stale == candidates(j, m, needed)
           p == planEviction(j, stale)
           k == [j EXCEPT !.at = "evicting", !.needed = needed, !.evict = p.evict,
                          !.planned = Len(p.evict)]
<1>1. /\ j \in Jobs /\ j.at = "resolving" /\ JobInv(m, j, steady) /\ j.needed \in SUBSET Models
      /\ steady \cap unknown = {}
  BY DEF EvictionInv, EvictionTypeOK, plan, Jobs, SteadyIsWanted
<1>2. ~Suffices(j, 0) /\ NoRepeats(j.entries) /\ steady \subseteq needed
  BY <1>1 DEF JobInv
<1>3. CASE Suffices(j, p.freed)
  <2>1. job' = [job EXCEPT ![m] = k]
    BY <1>3 DEF plan
  <2>2. k \in Jobs /\ LeastPlan(m, k) /\ ToSet(p.evict) \cap needed = {}
    <3>1. needed \in SUBSET Models
      BY <1>1
    <3>2. /\ stale = candidates(j, m, needed) /\ p = planEviction(j, stale)
          /\ k = [j EXCEPT !.at = "evicting", !.needed = needed, !.evict = p.evict,
                           !.planned = Len(p.evict)]
      OBVIOUS
    <3> HIDE DEF j, needed, stale, p, k
    <3> QED
      <4>1. \A st, pl, jb :
              /\ st = candidates(j, m, needed) /\ pl = planEviction(j, st) /\ Suffices(j, pl.freed)
              /\ jb = [j EXCEPT !.at = "evicting", !.needed = needed, !.evict = pl.evict,
                                !.planned = Len(pl.evict)]
              => jb \in Jobs /\ LeastPlan(m, jb) /\ ToSet(pl.evict) \cap needed = {}
        BY <1>1, <1>2, <3>1, PlanSuits
      <4> QED
        BY <1>3, <3>2, <4>1
  <2>3. k.at = "evicting" /\ k.evict = p.evict /\ k.planned = Len(p.evict)
    BY <1>1 DEF Jobs
  <2>4. Len(k.evict) \in Nat
    BY <2>2, RowElements DEF Jobs
  <2> HIDE DEF k, needed, p
  <2>5. JobInv(m, k, steady)
    BY <1>2, <2>2, <2>3, <2>4 DEF JobInv
  <2> QED
    BY <2>1, <2>2, <2>5, JobOnly DEF plan
<1>4. CASE ~Suffices(j, p.freed)
  <2>1. job' = [job EXCEPT ![m] = [NoJob EXCEPT !.at = "failed"]]
    BY <1>4 DEF plan
  <2> QED
    BY <2>1, NoJobType, NoJobRests, JobOnly DEF plan, Places
<1> QED
  BY <1>3, <1>4

LEMMA RestSteps ==
  ASSUME EvictionInv, NEW m \in Models,
         planFails(m) \/ evicted(m) \/ downloadComplete(m) \/ downloadFails(m)
  PROVE  EvictionInv'
<1>1. PICK at \in {"failed", "writing", "done"} : job' = [job EXCEPT ![m] = [NoJob EXCEPT !.at = at]]
  BY DEF planFails, evicted, downloadComplete, downloadFails
<1>2. UNCHANGED <<cached, order, desired, unknown, steady>>
  BY DEF planFails, evicted, downloadComplete, downloadFails
<1>3. at \in Places \ {"listing", "resolving", "evicting"}
  BY <1>1 DEF Places
<1>4. [NoJob EXCEPT !.at = at] \in Jobs /\ JobInv(m, [NoJob EXCEPT !.at = at], steady)
  BY <1>3, NoJobType, NoJobRests
<1> QED
  BY <1>1, <1>2, <1>4, JobOnly

LEMMA EvictStep == ASSUME EvictionInv, NEW m \in Models, evict(m) PROVE EvictionInv'
<1> DEFINE e == Head(job[m].evict)
           k == [job[m] EXCEPT !.evict = Tail(@)]
           left == [job EXCEPT ![m] = k]
           gone == [NoJob EXCEPT !.at = "failed"]
<1>1. /\ job \in [Models -> Jobs] /\ job[m] \in Jobs /\ job[m].at = "evicting"
      /\ job[m].evict \in Seq(Models) /\ job[m].evict # <<>> /\ JobInv(m, job[m], steady)
      /\ job[m].planned \in Nat
  BY DEF EvictionInv, EvictionTypeOK, evict, Jobs
<1>2. /\ e \in Models /\ Tail(job[m].evict) \in Seq(Models)
      /\ Len(Tail(job[m].evict)) = Len(job[m].evict) - 1
      /\ ToSet(Tail(job[m].evict)) \subseteq ToSet(job[m].evict)
      /\ Len(job[m].evict) \in Nat
  <2>1. PICK L \in Nat : L = Len(job[m].evict)
    BY <1>1, LenProperties
  <2>2. /\ e \in Models /\ Tail(job[m].evict) \in Seq(Models)
        /\ Len(Tail(job[m].evict)) = L - 1
        /\ \A i \in 1 .. L - 1 : Tail(job[m].evict)[i] = job[m].evict[i + 1]
    BY <1>1, <2>1, HeadTailProperties
  <2>3. \A i \in 1 .. L - 1 : i + 1 \in 1 .. L
    BY <2>1
  <2>4. ToSet(Tail(job[m].evict)) \subseteq ToSet(job[m].evict)
    <3>1. SUFFICES ASSUME NEW f \in ToSet(Tail(job[m].evict)) PROVE f \in ToSet(job[m].evict)
      OBVIOUS
    <3>2. PICK i \in 1 .. L - 1 : Tail(job[m].evict)[i] = f
      BY <2>2, <3>1, RowElements
    <3> QED
      BY <1>1, <2>1, <2>2, <2>3, <3>2, RowElements
  <2> QED
    BY <2>1, <2>2, <2>4
<1>3. /\ k \in Jobs /\ k.at = "evicting" /\ k.evict = Tail(job[m].evict)
      /\ k.planned = job[m].planned
  BY <1>1, <1>2 DEF Jobs
<1> HIDE DEF k
<1>4. JobInv(m, k, steady)
  BY <1>1, <1>2, <1>3 DEF JobInv
<1>5. cached' \in [Models -> Nat] /\ order' \in Seq(Models) /\ NoRepeats(order')
  <2>1. cached' = [cached EXCEPT ![e] = 0] /\ order' = RemoveFirst(order, e)
    BY DEF evict
  <2>2. cached \in [Models -> Nat] /\ order \in Seq(Models) /\ NoRepeats(order)
    BY DEF EvictionInv, EvictionTypeOK
  <2> HIDE DEF e
  <2> QED
    BY <2>1, <2>2, RemoveFromRow
<1>6. gone \in Jobs /\ \A n : JobInv(n, gone, steady)
  BY NoJobType, NoJobRests DEF Places
<1>7. job' = left \/ job' = [left EXCEPT ![e] = gone]
  BY <1>1 DEF evict, k
<1>8. UNCHANGED <<desired, unknown, steady>>
  BY DEF evict
<1> HIDE DEF e, gone
<1>9. EvictionTypeOK'
  BY <1>1, <1>2, <1>3, <1>5, <1>6, <1>7, <1>8 DEF EvictionInv, EvictionTypeOK
<1>10. ASSUME NEW n \in Models PROVE JobInv(n, job'[n], steady')
  <2>1. job'[n] \in {gone, k, job[n]} /\ (job'[n] = k => n = m \/ k = gone \/ k = job[n])
    BY <1>1, <1>7
  <2>2. JobInv(n, job[n], steady)
    BY DEF EvictionInv
  <2> QED
    BY <1>4, <1>6, <1>8, <2>1, <2>2
<1>11. SteadyIsWanted'
  BY <1>8 DEF EvictionInv, SteadyIsWanted
<1> QED
  BY <1>9, <1>10, <1>11 DEF EvictionInv

LEMMA WriteStep == ASSUME EvictionInv, NEW m \in Models, write(m) PROVE EvictionInv'
<1>1. EvictionTypeOK'
  BY DEF EvictionInv, EvictionTypeOK, write
<1> QED
  BY <1>1 DEF EvictionInv, SteadyIsWanted, write

LEMMA EvictionStep == EvictionInv /\ [EvictionNext]_evictionVars => EvictionInv'
<1> SUFFICES ASSUME EvictionInv, [EvictionNext]_evictionVars PROVE EvictionInv'
  OBVIOUS
<1>1. CASE UNCHANGED evictionVars
  BY <1>1 DEF evictionVars, EvictionInv, EvictionTypeOK, SteadyIsWanted
<1>2. CASE setDesired \/ leavesCatalog
  BY <1>2, DesiredStep, CatalogStep
<1>3. ASSUME NEW m \in Models, JobStep(m) PROVE EvictionInv'
  BY <1>3, DownloadModelStep, MeasureStep, ListStep, PlanStep, RestSteps, EvictStep, WriteStep
  DEF JobStep
<1> QED
  BY <1>1, <1>2, <1>3 DEF EvictionNext

(* cache-eviction.ts 117-148: for any number of models of any sizes on any *)
(* disk, what planEviction returns when it suffices is the shortest row of *)
(* stale caches, oldest first, that makes the room.                        *)
THEOREM EvictsTheLeast == EvictionSpec => []PlanIsLeast
<1>1. EvictionInv => PlanIsLeast
  BY DEF EvictionInv, JobInv, PlanIsLeast
<1> QED
  BY <1>1, EvictionInitial, EvictionStep, PTL DEF EvictionSpec

(* cache-eviction.ts 123-130 and 171-187: no download's eviction, however   *)
(* late it is carried out, takes a byte from the cache of a model that has  *)
(* been desired and known all the time.                                     *)
THEOREM SteadyCachesStay == EvictionSpec => SteadyCacheStays
<1> DEFINE Keeps == \A m \in steady' : cached'[m] >= cached[m]
<1>1. EvictionInv /\ [EvictionNext]_evictionVars => [Keeps]_evictionVars
  <2> SUFFICES ASSUME EvictionInv, EvictionNext, NEW n \in steady' PROVE cached'[n] >= cached[n]
    BY DEF Keeps
  <2>0. cached \in [Models -> Nat] /\ steady \subseteq Models
    BY DEF EvictionInv, EvictionTypeOK, SteadyIsWanted
  <2>1. CASE setDesired \/ leavesCatalog
    BY <2>0, <2>1 DEF setDesired, leavesCatalog
  <2>2. ASSUME NEW m \in Models, JobStep(m) PROVE cached'[n] >= cached[n]
    <3>1. CASE evict(m)
      <4>1. /\ job[m].at = "evicting" /\ job[m].evict # <<>> /\ job[m].evict \in Seq(Models)
            /\ steady' = steady /\ cached' = [cached EXCEPT ![Head(job[m].evict)] = 0]
        BY <3>1 DEF evict, EvictionInv, EvictionTypeOK, Jobs
      <4>2. Head(job[m].evict) \in ToSet(job[m].evict)
        BY <4>1 DEF ToSet
      <4>3. ToSet(job[m].evict) \cap steady = {}
        BY <4>1 DEF EvictionInv, JobInv
      <4> QED
        BY <2>0, <4>1, <4>2, <4>3
    <3>2. CASE write(m)
      BY <2>0, <3>2 DEF write
    <3>3. CASE ~evict(m) /\ ~write(m)
      <4>1. cached' = cached /\ steady' = steady
        BY <2>2, <3>3 DEF JobStep, downloadModel, measure, listCacheEntries, plan, planFails,
          evicted, downloadComplete, downloadFails
      <4> QED
        BY <2>0, <4>1
    <3> QED
      BY <3>1, <3>2, <3>3
  <2> QED
    BY <2>1, <2>2 DEF EvictionNext
<1> QED
  BY <1>1, EvictionInitial, EvictionStep, PTL DEF EvictionSpec, SteadyCacheStays
=============================================================================
