-------------------------- MODULE TetherFlowProofs --------------------------
(***************************************************************************)
(* What is proved of the stream between the tether and a daemon, of the    *)
(* daemon's synchronisation, of its identity and its attempts, and of the  *)
(* configuration a process follows, for any number of versions, nodes,     *)
(* identities and writes and any timing.                                   *)
(***************************************************************************)
EXTENDS DesiredStateFlow, TetherKeepalive, TetherClient, ConfigFeed, TLAPS

(***************************************************************************)
(* The daemon: dropping triggers loses no state.                           *)
(***************************************************************************)

(* The gate's state follows the runs it has let through, and what the      *)
(* running one will leave unapplied has a run queued.                      *)
SyncInv ==
  /\ DaemonTypeOK
  /\ gate = "idle" <=> run = "none"
  /\ NewerStateIsQueued
  /\ IdleIsCurrent

LEMMA SyncInit == DaemonInit => SyncInv
BY DEF DaemonInit, SyncInv, DaemonTypeOK, NewerStateIsQueued, IdleIsCurrent

LEMMA SyncStep == SyncInv /\ [DaemonNext]_daemonVars => SyncInv'
<1> SUFFICES ASSUME SyncInv, [DaemonNext]_daemonVars PROVE SyncInv'
  OBVIOUS
<1> USE VersionsAssumption DEF SyncInv, DaemonTypeOK, NewerStateIsQueued, IdleIsCurrent
<1>1. ASSUME NEW v \in Versions, setDesiredInstallations(v) PROVE SyncInv'
  BY <1>1 DEF setDesiredInstallations, trigger
<1>2. CASE intervalTrigger
  BY <1>2 DEF intervalTrigger, trigger
<1>3. CASE readDesired
  BY <1>3 DEF readDesired
<1>4. CASE runSucceeds
  BY <1>4 DEF runSucceeds, done
<1>5. CASE runFails
  BY <1>5 DEF runFails, done
<1>6. CASE UNCHANGED daemonVars
  BY <1>6 DEF daemonVars
<1> QED
  BY <1>1, <1>2, <1>3, <1>4, <1>5, <1>6 DEF DaemonNext, DaemonStep

(* sync-coordinator.ts 69-72: whatever triggers are dropped, an idle       *)
(* daemon whose last run succeeded has applied the newest state pushed.    *)
THEOREM NoStateLost == DaemonSpec => []IdleIsCurrent
<1>1. DaemonInit => SyncInv
  BY SyncInit
<1>2. SyncInv /\ [DaemonNext]_daemonVars => SyncInv'
  BY SyncStep
<1>3. SyncInv => IdleIsCurrent
  BY DEF SyncInv
<1> QED
  BY <1>1, <1>2, <1>3, PTL DEF DaemonSpec

(* sync-coordinator.ts 117-131: for any states, one that arrives after the *)
(* running run has read the copy has a run of its own queued.              *)
THEOREM NewerGetsARun == DaemonSpec => []NewerStateIsQueued
<1>1. SyncInv => NewerStateIsQueued
  BY DEF SyncInv
<1> QED
  BY SyncInit, SyncStep, <1>1, PTL DEF DaemonSpec

(***************************************************************************)
(* The tether: no change is lost between the subscription, the bus and a   *)
(* stream that is starting.                                                *)
(***************************************************************************)

(* Build b will push the installations as they are now, or newer ones. *)
Fresh(b) ==
  \/ stage[b] \in {"waiting", "building"}
  \/ stage[b] = "read" /\ version[b] = db

(* What still brings the current version to the connection. *)
OnItsWay ==
  \/ ~listening
  \/ inTransit > 0
  \/ pending
  \/ \E b \in Builds : Fresh(b)

(* The tether's own variables; the daemon's copy plays no part. *)
TetherTypeOK ==
  /\ db \in Versions
  /\ listening \in BOOLEAN
  /\ inTransit \in Nat
  /\ connected \in BOOLEAN
  /\ pending \in BOOLEAN
  /\ stage \in [Builds -> {"idle", "waiting", "building", "read"}]
  /\ version \in [Builds -> Versions \cup {NoState}]
  /\ pushed \in Versions \cup {NoState}
  /\ buildFailed \in BOOLEAN

(* No version from the future, and the current one pushed or on its way. *)
FlowInv ==
  /\ TetherTypeOK
  /\ pushed =< db
  /\ \A b \in Builds : version[b] =< db
  /\ connected /\ ~buildFailed => pushed = db \/ OnItsWay

LEMMA FlowInitial == FlowInit => FlowInv
<1> SUFFICES ASSUME FlowInit PROVE FlowInv
  OBVIOUS
<1> USE VersionsAreNumbers DEF FlowInit
<1>1. TetherTypeOK
  BY DEF TetherTypeOK
<1>2. pushed =< db /\ \A b \in Builds : version[b] =< db
  OBVIOUS
<1> QED
  BY <1>1, <1>2 DEF FlowInv

LEMMA FlowStep == FlowInv /\ [FlowNext]_flowVars => FlowInv'
<1> SUFFICES ASSUME FlowInv, [FlowNext]_flowVars PROVE FlowInv'
  OBVIOUS
<1> USE VersionsAreNumbers DEF FlowInv, TetherTypeOK, OnItsWay, Fresh
<1>0. /\ db \in Nat /\ pushed \in Nat
      /\ \A b \in Builds : version[b] \in Nat
  <2>1. Versions \cup {NoState} \subseteq Nat
    OBVIOUS
  <2>2. \A b \in Builds : version[b] \in Versions \cup {NoState}
    OBVIOUS
  <2>3. db \in Nat /\ pushed \in Nat
    OBVIOUS
  <2> QED
    BY ONLY <2>1, <2>2, <2>3
<1>1. CASE Change
  <2>1. TetherTypeOK'
    BY <1>0, <1>1 DEF Change
  <2>2. pushed' =< db' /\ \A b \in Builds : version'[b] =< db'
    BY <1>0, <1>1 DEF Change
  <2>3. ~listening' \/ inTransit' > 0
    BY <1>1 DEF Change
  <2> QED
    BY <2>1, <2>2, <2>3
<1>2. CASE Notified
  BY <1>2 DEF Notified, queue
<1>3. CASE ListenLost
  BY <1>3 DEF ListenLost
<1>4. CASE resubscribed
  BY <1>4 DEF resubscribed, queue
<1>5. ASSUME NEW b \in Builds, flush(b) PROVE FlowInv'
  <2>1. TetherTypeOK'
    BY <1>5 DEF flush
  <2>2. stage'[b] = "waiting"
    BY <1>5 DEF flush
  <2> QED
    BY <1>5, <2>1, <2>2 DEF flush
<1>6. ASSUME NEW b \in Builds, flushNode(b) PROVE FlowInv'
  BY <1>6 DEF flushNode
<1>7. ASSUME NEW b \in Builds, start(b) PROVE FlowInv'
  <2>1. TetherTypeOK'
    BY <1>7 DEF start
  <2>2. stage'[b] = "building"
    BY <1>7 DEF start
  <2> QED
    BY <1>0, <1>7, <2>1, <2>2 DEF start
<1>8. CASE removeConnection
  <2>1. TetherTypeOK'
    BY <1>8 DEF removeConnection
  <2> QED
    BY <1>0, <1>8, <2>1 DEF removeConnection
<1>9. ASSUME NEW b \in Builds, buildDesiredState(b) PROVE FlowInv'
  <2>1. TetherTypeOK'
    BY <1>9 DEF buildDesiredState
  <2>2. pushed' =< db' /\ \A c \in Builds : version'[c] =< db'
    BY <1>0, <1>9 DEF buildDesiredState
  <2>3. stage'[b] = "read" /\ version'[b] = db'
    BY <1>9 DEF buildDesiredState
  <2> QED
    BY <2>1, <2>2, <2>3
<1>10. ASSUME NEW b \in Builds, pushDesiredState(b) PROVE FlowInv'
  <2>1. TetherTypeOK'
    <3>1. buildFailed' \in BOOLEAN
      BY <1>10, Zenon DEF pushDesiredState
    <3> QED
      BY <1>10, <3>1 DEF pushDesiredState
  <2>2. pushed' =< db' /\ \A c \in Builds : version'[c] =< db'
    BY <1>0, <1>10 DEF pushDesiredState
  <2>3. ASSUME connected', ~buildFailed', pushed' # db' PROVE OnItsWay'
    <3>1. connected /\ version[b] # db /\ ~buildFailed
      <4>1. connected
        BY <1>10, <2>3 DEF pushDesiredState
      <4>2. version[b] # db
        BY <1>0, <1>10, <2>3, <4>1 DEF pushDesiredState
      <4> QED
        BY <1>10, <2>3, <4>1, <4>2, Zenon DEF pushDesiredState
    <3>2. pushed # db
      BY <1>0, <1>10, <2>3, <3>1 DEF pushDesiredState
    <3>3. \A c \in Builds : Fresh(c) => Fresh(c)'
      BY <1>10, <3>1 DEF pushDesiredState
    <3> QED
      BY <1>10, <3>1, <3>2, <3>3 DEF pushDesiredState
  <2> QED
    BY <2>1, <2>2, <2>3
<1>11. ASSUME NEW b \in Builds, buildFails(b) PROVE FlowInv'
  BY <1>11 DEF buildFails
<1>12. CASE UNCHANGED tetherVars
  BY <1>12 DEF tetherVars
<1> HIDE DEF FlowInv
<1> QED
  BY <1>1, <1>2, <1>3, <1>4, <1>5, <1>6, <1>7, <1>8, <1>9, <1>10, <1>11, <1>12
  DEF FlowNext, TetherStep, Environment, flowVars

(* notify-bus.ts 54-61 and index.ts 170-179: once the tether is quiet, a   *)
(* connected daemon has been sent the installations as they are, unless a  *)
(* build failed.                                                           *)
THEOREM NothingMissed == FlowSpec => []QuietMeansPushed
<1>1. FlowInit => FlowInv
  BY FlowInitial
<1>2. FlowInv /\ [FlowNext]_flowVars => FlowInv'
  BY FlowStep
<1>3. FlowInv => QuietMeansPushed
  BY DEF FlowInv, TetherTypeOK, OnItsWay, Fresh, QuietMeansPushed, Quiet
<1> QED
  BY <1>1, <1>2, <1>3, PTL DEF FlowSpec

(***************************************************************************)
(* For every set of nodes, every interval and every timeout of at least    *)
(* three intervals: the keepalive loop never expires a healthy daemon.     *)
(***************************************************************************)

(* A healthy daemon has been silent for at most one interval longer than   *)
(* the loop has been since its last tick.  Two states escape the bound:    *)
(* the loop is so late that the next tick restarts the timers, or it has   *)
(* just ticked and the heartbeats that arrived during a short stall are    *)
(* still to be handled.                                                    *)
SilenceBounded ==
  \A n \in connections \cap alive :
    \/ silence[n] <= sinceTick + KeepaliveInterval
    \/ sinceTick > STALLED_TICK_FACTOR * KeepaliveInterval
    \/ sinceTick = 0

KeepaliveInv == KeepaliveTypeOK /\ SilenceBounded

LEMMA KeepaliveTypeInit == KeepaliveInit => KeepaliveTypeOK
BY TimingAssumption DEF KeepaliveInit, KeepaliveTypeOK, MaxSilence, MaxSinceTick, STALLED_TICK_FACTOR

LEMMA ElapseType ==
  ASSUME KeepaliveTypeOK, NEW d \in Nat, Elapse(d)
  PROVE  /\ KeepaliveTypeOK'
         /\ \A n \in Nodes : silence'[n] <= silence[n] + d
         /\ sinceTick' > STALLED_TICK_FACTOR * KeepaliveInterval \/ sinceTick' = sinceTick + d
BY TimingAssumption
   DEF KeepaliveTypeOK, Elapse, Capped, MaxSilence, MaxSinceTick, STALLED_TICK_FACTOR

LEMMA KeepaliveTypeStep == KeepaliveTypeOK /\ [KeepaliveNext]_keepaliveVars => KeepaliveTypeOK'
<1> SUFFICES ASSUME KeepaliveTypeOK, [KeepaliveNext]_keepaliveVars PROVE KeepaliveTypeOK'
  OBVIOUS
<1> USE TimingAssumption DEF MaxSilence, MaxSinceTick, STALLED_TICK_FACTOR
<1>1. CASE \E n \in Nodes : addConnection(n) \/ markSeen(n) \/ DaemonDies(n) \/ cancel(n)
  BY <1>1 DEF KeepaliveTypeOK, addConnection, markSeen, DaemonDies, cancel
<1>2. CASE Pass
  BY <1>2, ElapseType DEF Pass
<1>3. CASE \E d \in 1 .. MaxSilence : Stall(d)
  BY <1>3, ElapseType DEF Stall
<1>4. CASE runKeepaliveLoop
  BY <1>4 DEF KeepaliveTypeOK, runKeepaliveLoop
<1>5. CASE UNCHANGED keepaliveVars
  BY <1>5 DEF KeepaliveTypeOK, keepaliveVars
<1> QED
  BY <1>1, <1>2, <1>3, <1>4, <1>5 DEF KeepaliveNext

(* The bound follows from the guards of Pass and Stall: time passes only   *)
(* when every heartbeat has been handled within an interval.               *)
LEMMA SilenceStep == KeepaliveInv /\ [KeepaliveNext]_keepaliveVars => SilenceBounded'
<1> SUFFICES ASSUME KeepaliveInv, [KeepaliveNext]_keepaliveVars PROVE SilenceBounded'
  OBVIOUS
<1> USE TimingAssumption DEF STALLED_TICK_FACTOR
<1>1. ASSUME NEW d \in Nat \ {0}, Elapse(d),
             \A n \in connections \cap alive : silence[n] <= KeepaliveInterval
      PROVE  SilenceBounded'
  <2> SUFFICES ASSUME NEW n \in connections' \cap alive'
               PROVE  \/ silence'[n] <= sinceTick' + KeepaliveInterval
                      \/ sinceTick' > STALLED_TICK_FACTOR * KeepaliveInterval
    BY DEF SilenceBounded
  <2>1. n \in connections \cap alive /\ n \in Nodes
    BY <1>1 DEF Elapse, KeepaliveInv, KeepaliveTypeOK
  <2>2. silence'[n] <= silence[n] + d /\ silence[n] \in Nat /\ silence'[n] \in Nat
    BY <1>1, <2>1, ElapseType DEF KeepaliveInv, KeepaliveTypeOK
  <2>3. sinceTick' > STALLED_TICK_FACTOR * KeepaliveInterval \/ sinceTick' = sinceTick + d
    BY <1>1, ElapseType DEF KeepaliveInv
  <2>4. sinceTick \in Nat
    BY DEF KeepaliveInv, KeepaliveTypeOK
  <2> QED
    BY <1>1, <2>1, <2>2, <2>3, <2>4
<1>2. CASE \E n \in Nodes : addConnection(n) \/ markSeen(n) \/ DaemonDies(n) \/ cancel(n)
  BY <1>2 DEF KeepaliveInv, KeepaliveTypeOK, SilenceBounded, addConnection, markSeen, DaemonDies, cancel
<1>3. CASE Pass
  BY <1>1, <1>3 DEF Pass, KeepaliveInv, KeepaliveTypeOK
<1>4. CASE \E d \in 1 .. MaxSilence : Stall(d)
  BY <1>1, <1>4 DEF Stall, OnTime
<1>5. CASE runKeepaliveLoop
  BY <1>5 DEF SilenceBounded, runKeepaliveLoop
<1>6. CASE UNCHANGED keepaliveVars
  BY <1>6 DEF KeepaliveInv, SilenceBounded, keepaliveVars
<1> QED
  BY <1>2, <1>3, <1>4, <1>5, <1>6 DEF KeepaliveNext

(* Every variable of the keepalive loop keeps its type. *)
THEOREM TypeCorrect == KeepaliveSpec => []KeepaliveTypeOK
<1>1. KeepaliveInit => KeepaliveTypeOK
  BY KeepaliveTypeInit
<1>2. KeepaliveTypeOK /\ [KeepaliveNext]_keepaliveVars => KeepaliveTypeOK'
  BY KeepaliveTypeStep
<1> QED
  BY <1>1, <1>2, PTL DEF KeepaliveSpec

LEMMA KeepaliveInvariance == KeepaliveSpec => []KeepaliveInv
<1>1. KeepaliveInit => KeepaliveInv
  BY KeepaliveTypeInit DEF KeepaliveInit, KeepaliveInv, SilenceBounded
<1>2. KeepaliveInv /\ [KeepaliveNext]_keepaliveVars => KeepaliveInv'
  BY KeepaliveTypeStep, SilenceStep DEF KeepaliveInv
<1> QED
  BY <1>1, <1>2, PTL DEF KeepaliveSpec

(* connections.ts 173-178: a stall of the tether, of any length, does not  *)
(* take healthy nodes down.                                                *)
THEOREM HealthySurvivesStalls == KeepaliveSpec => HealthyNeverExpires
<1>1. KeepaliveInv /\ [KeepaliveNext]_keepaliveVars => [runKeepaliveLoop => connections \cap alive \subseteq connections']_keepaliveVars
  <2> SUFFICES ASSUME KeepaliveInv, runKeepaliveLoop,
                      NEW n \in connections \cap alive
               PROVE  n \in connections'
    OBVIOUS
  <2>1. n \in Nodes /\ silence[n] \in Nat /\ sinceTick \in Nat
    BY DEF KeepaliveInv, KeepaliveTypeOK
  <2>2. sinceTick > KeepaliveInterval * STALLED_TICK_FACTOR \/ silence[n] <= LivenessTimeout
    BY <2>1, TimingAssumption DEF KeepaliveInv, SilenceBounded, STALLED_TICK_FACTOR, runKeepaliveLoop
  <2> QED
    BY <2>1, <2>2, TimingAssumption DEF runKeepaliveLoop
<1> QED
  BY <1>1, KeepaliveInvariance, PTL DEF KeepaliveSpec, HealthyNeverExpires

(***************************************************************************)
(* The configuration feed.  A feed at rest is current because, while it is *)
(* behind, something that will read the table again is pending.  The       *)
(* delicate case is a read that was overtaken by a write: the write's      *)
(* notification is still to come, or has left a timer or a rerun.          *)
(***************************************************************************)

FeedTypeOK ==
  /\ table \in Nat
  /\ told \in Nat
  /\ heard \in BOOLEAN
  /\ feed \in {"starting", "following", "stopped", "absent"}
  /\ refreshTimer \in BOOLEAN
  /\ refreshing \in BOOLEAN
  /\ refreshAgain \in BOOLEAN
  /\ inForce \in Nat

(* At most one read is under way, and a rerun that was asked for has a     *)
(* refresh to follow.                                                      *)
OneRead ==
  /\ refreshing => \E v \in Nat \cup {Unread} : reads = {v}
  /\ ~refreshing => reads = {}
  /\ refreshAgain => refreshing \/ feed = "stopped"

(* What is read is no older than what is in force: were two reads under    *)
(* way, the older could end last.                                          *)
ReadsAdvance ==
  /\ inForce =< table
  /\ \A v \in reads \ {Unread} : inForce =< v /\ v =< table

(* What still brings the table's values into force. *)
Coming ==
  \/ told > 0 \/ refreshTimer \/ refreshAgain
  \/ Unread \in reads \/ table \in reads

FeedInv ==
  /\ FeedTypeOK
  /\ OneRead
  /\ ReadsAdvance
  /\ feed = "following" /\ heard => inForce = table \/ table \in Unresolvable \/ Coming

LEMMA FeedInitial == FeedInit => FeedInv
<1> SUFFICES ASSUME FeedInit PROVE FeedInv
  OBVIOUS
<1>1. FeedTypeOK
  <2>1. table \in Nat /\ inForce \in Nat
    BY DEF FeedInit
  <2> QED
    BY <2>1 DEF FeedInit, FeedTypeOK
<1>2. OneRead
  BY DEF FeedInit, OneRead
<1>3. ReadsAdvance
  BY DEF FeedInit, ReadsAdvance
<1> QED
  BY <1>1, <1>2, <1>3 DEF FeedInit, FeedInv

(* refresh leaves a read that has not been answered, or asks for a rerun. *)
LEMMA RefreshReads ==
  ASSUME FeedInv, refresh, UNCHANGED <<feed, table, inForce>>
  PROVE  /\ refreshing' \in BOOLEAN /\ refreshAgain' \in BOOLEAN
         /\ OneRead' /\ ReadsAdvance'
         /\ refreshAgain' \/ Unread \in reads'
BY DEF FeedInv, FeedTypeOK, OneRead, ReadsAdvance, refresh, Unread

(* The one read ends.  What it leaves to do is a timer. *)
LEMMA SettledReads ==
  ASSUME FeedInv, NEW v \in reads \ {Unread}, reads' = reads \ {v},
         NEW t \in BOOLEAN, settled(t), UNCHANGED feed
  PROVE  /\ refreshing' \in BOOLEAN /\ refreshAgain' \in BOOLEAN /\ refreshTimer' \in BOOLEAN
         /\ OneRead'
         /\ reads = {v} /\ reads' = {} /\ v \in Nat
         /\ t => refreshTimer'
         /\ refreshAgain => refreshTimer' \/ feed = "stopped"
<1>1. refreshing /\ reads = {v} /\ v \in Nat
  BY DEF FeedInv, FeedTypeOK, OneRead
<1> QED
  BY <1>1 DEF FeedInv, FeedTypeOK, OneRead, settled

LEMMA FeedStepInv == FeedInv /\ [FeedNext]_feedVars => FeedInv'
<1> SUFFICES ASSUME FeedInv, [FeedNext]_feedVars PROVE FeedInv'
  OBVIOUS
<1>1. CASE setOverride
  BY <1>1 DEF setOverride, FeedInv, FeedTypeOK, OneRead, ReadsAdvance, Coming, Unread
<1>2. CASE subscribed \/ subscribeFails \/ listenLost \/ stop
  <2> USE DEF FeedInv, FeedTypeOK, OneRead, ReadsAdvance, Coming
  <2>1. CASE subscribed
    BY <2>1 DEF subscribed
  <2>2. CASE subscribeFails
    BY <2>2 DEF subscribeFails
  <2>3. CASE listenLost
    BY <2>3 DEF listenLost
  <2>4. CASE stop
    BY <2>4 DEF stop
  <2> HIDE DEF FeedInv
  <2> QED
    BY <1>2, <2>1, <2>2, <2>3, <2>4
<1>3. CASE onNotification
  BY <1>3 DEF onNotification, FeedInv, FeedTypeOK, OneRead, ReadsAdvance, Coming
<1>4. CASE runRefresh
  BY <1>4, RefreshReads DEF runRefresh, FeedInv, FeedTypeOK, Coming
<1>5. CASE reconcile
  BY <1>5, RefreshReads DEF reconcile, FeedInv, FeedTypeOK, Coming
<1>6. CASE readDynamicConfig
  BY <1>6 DEF readDynamicConfig, FeedInv, FeedTypeOK, OneRead, ReadsAdvance, Coming, Unread
<1>7. CASE readFails
  <2>1. PICK v \in reads \ {Unread} : reads' = reads \ {v}
    BY <1>7 DEF readFails
  <2> QED
    BY <1>7, <2>1, SettledReads DEF readFails, FeedInv, FeedTypeOK, ReadsAdvance, Coming
<1>8. CASE readSucceeds
  <2>1. PICK v \in reads \ {Unread} : reads' = reads \ {v} /\ apply(v)
    BY <1>8 DEF readSucceeds
  <2>2. /\ refreshing' \in BOOLEAN /\ refreshAgain' \in BOOLEAN /\ refreshTimer' \in BOOLEAN
        /\ OneRead'
        /\ reads = {v} /\ reads' = {} /\ v \in Nat
        /\ refreshTimer => refreshTimer'
        /\ refreshAgain => refreshTimer' \/ feed = "stopped"
    BY <1>8, <2>1, SettledReads DEF readSucceeds, FeedInv, FeedTypeOK
  <2>3. inForce =< v /\ v =< table /\ ReadsAdvance'
    BY <1>8, <2>1, <2>2 DEF readSucceeds, apply, FeedInv, FeedTypeOK, ReadsAdvance
  <2>4. v = table => inForce' = table \/ table \in Unresolvable
    BY <2>1 DEF apply
  <2>5. v # table => inForce # table
    BY <2>2, <2>3 DEF FeedInv, FeedTypeOK
  <2> QED
    BY <1>8, <2>1, <2>2, <2>3, <2>4, <2>5 DEF readSucceeds, apply, FeedInv, FeedTypeOK, Coming
<1>9. CASE UNCHANGED feedVars
  BY <1>9 DEF feedVars, FeedInv, FeedTypeOK, OneRead, ReadsAdvance, Coming
<1> QED
  BY <1>1, <1>2, <1>3, <1>4, <1>5, <1>6, <1>7, <1>8, <1>9 DEF FeedNext, FeedStep

(* db-config-feed.ts 64-98: for any number of writes, notifications, lost  *)
(* connections and failed reads, a feed at rest has the table's values in  *)
(* force, unless they are rejected.                                        *)
THEOREM FeedIsCurrent == FeedSpec => []QuietFeedIsCurrent
<1>1. FeedInv => QuietFeedIsCurrent
  BY DEF FeedInv, FeedTypeOK, OneRead, Coming, QuietFeedIsCurrent
<1> QED
  BY FeedInitial, FeedStepInv, <1>1, PTL DEF FeedSpec

(* db-config-feed.ts 64-98: for any writes, failures and overlapping       *)
(* refreshes, the values in force never go back to older ones.             *)
THEOREM ConfigOnlyAdvances == FeedSpec => ConfigNeverGoesBack
<1>1. FeedInv /\ [FeedNext]_feedVars => [inForce' >= inForce]_feedVars
  <2> SUFFICES ASSUME FeedInv, FeedNext PROVE inForce' >= inForce
    OBVIOUS
  <2>1. inForce \in Nat
    BY DEF FeedInv, FeedTypeOK
  <2>2. CASE readSucceeds
    <3>1. PICK v \in reads \ {Unread} : apply(v)
      BY <2>2 DEF readSucceeds
    <3>2. inForce =< v /\ v \in Nat
      BY <3>1 DEF FeedInv, FeedTypeOK, OneRead, ReadsAdvance
    <3> QED
      BY <2>1, <3>1, <3>2 DEF apply
  <2>3. CASE UNCHANGED inForce
    BY <2>1, <2>3
  <2> QED
    BY <2>2, <2>3 DEF FeedNext, FeedStep, onNotification, runRefresh, reconcile, readDynamicConfig,
       readFails, setOverride, subscribed, subscribeFails, listenLost, stop
<1> QED
  BY FeedInitial, FeedStepInv, <1>1, PTL DEF FeedSpec, ConfigNeverGoesBack

(***************************************************************************)
(* The daemon's end of the stream: the identity it serves under, and the   *)
(* timers of its waits.                                                    *)
(***************************************************************************)

Identity == [id : 0 .. MaxMint, key : 0 .. MaxMint]

ClientTypeOK ==
  /\ disk \in Identity /\ self \in Identity /\ fresh \in Identity
  /\ writing \in {"nothing", "key", "id"}
  /\ minted \in 1 .. MaxMint
  /\ pin \in [1 .. MaxMint -> 0 .. MaxMint]
  /\ client \in {"down", "off", "creating", "handshake", "refusal", "rotating",
                 "pausing", "streaming"}
  /\ mismatch \in BOOLEAN /\ announced \in BOOLEAN /\ silenceTimer \in BOOLEAN
  /\ link \in {"live", "dead"}
  /\ beats \in Nat
  /\ trouble \in Nat

Loaded == client \in {"handshake", "refusal", "rotating", "pausing", "streaming"}

(* The tether will go on refusing the identity this process has. *)
Barred == pin[self.id] \notin {None, self.key}

(* Files are written while an identity is made, the key before the id, and *)
(* what is being written is complete.                                      *)
WriteInv ==
  /\ writing # "nothing" <=> client \in {"creating", "rotating"}
  /\ writing # "nothing" => fresh.id # None /\ fresh.key # None
  /\ writing = "id" => disk.key = fresh.key

(* A process whose identity is no longer the one on disk has been refused  *)
(* for it, and no refusal of a pinned key is ever taken back.              *)
IdentityInv ==
  /\ Loaded => self.id # None /\ self.key # None
  /\ client = "rotating" \/ (client = "refusal" /\ mismatch) => Barred
  /\ Loaded /\ disk # self => Barred
  /\ StreamIsOnDisk

ClientInv == ClientTypeOK /\ WriteInv /\ IdentityInv /\ WaitsAreTimed

LEMMA ClientInitial == ClientInit => ClientInv
<1> SUFFICES ASSUME ClientInit PROVE ClientInv
  OBVIOUS
<1> USE ClientAssumption DEF ClientInit, None
<1>1. ClientTypeOK
  <2>1. disk \in Identity /\ self \in Identity /\ fresh \in Identity
    BY DEF Identity
  <2>2. pin \in [1 .. MaxMint -> 0 .. MaxMint]
    <3>1. PICK k \in {0, 1} : pin = [i \in 1 .. MaxMint |-> IF i = 1 THEN k ELSE 0]
      OBVIOUS
    <3> QED
      BY <3>1
  <2>3. writing = "nothing" /\ client = "down" /\ link = "live"
    OBVIOUS
  <2>4. mismatch \in BOOLEAN /\ announced \in BOOLEAN /\ silenceTimer \in BOOLEAN
    BY Zenon
  <2>5. minted \in 1 .. MaxMint /\ beats \in Nat /\ trouble \in Nat
    OBVIOUS
  <2> HIDE DEF ClientInit
  <2> QED
    BY <2>1, <2>2, <2>3, <2>4, <2>5 DEF ClientTypeOK
<1>2. WriteInv
  BY DEF WriteInv
<1>3. IdentityInv
  BY DEF IdentityInv, Loaded, StreamIsOnDisk
<1>4. WaitsAreTimed
  BY DEF WaitsAreTimed
<1> QED
  BY <1>1, <1>2, <1>3, <1>4 DEF ClientInv

LEMMA ClientTypeStep ==
  ClientTypeOK /\ IdentityInv /\ [ClientNext]_clientVars => ClientTypeOK'
<1> SUFFICES ASSUME ClientTypeOK, IdentityInv, [ClientNext]_clientVars PROVE ClientTypeOK'
  OBVIOUS
<1>0. /\ Trouble => trouble' \in Nat
      /\ \A i \in 0 .. MaxMint : writeIdentity(i) => minted' \in 1 .. MaxMint /\ fresh' \in Identity
      /\ disk.id \in 0 .. MaxMint
      /\ minted < MaxMint => minted + 1 \in 0 .. MaxMint
  BY ClientAssumption DEF ClientTypeOK, Identity, Trouble, writeIdentity
<1> USE DEF ClientTypeOK, identityVars, attemptVars
<1>1. CASE boot
  <2>1. CASE disk.id # None /\ disk.key # None
    BY <1>1, <2>1 DEF boot, attempt
  <2>2. CASE ~(disk.id # None /\ disk.key # None)
    <3>1. fresh' \in Identity /\ minted' \in 1 .. MaxMint
      BY <1>0, <1>1, <2>2 DEF boot, writeIdentity
    <3> QED
      BY <3>1, <1>1, <2>2 DEF boot, writeIdentity
  <2> QED
    BY <2>1, <2>2
<1>2. CASE writeKey
  <2>1. disk' \in Identity
    BY <1>2 DEF writeKey, Identity
  <2> QED
    BY <2>1, <1>2 DEF writeKey
<1>3. CASE created \/ rotated
  <2>1. disk' \in Identity
    BY <1>3 DEF created, rotated, Identity
  <2> QED
    BY <2>1, <1>3 DEF created, rotated, attempt
<1>5. CASE streamOpens
  <2>1. pin' \in [1 .. MaxMint -> 0 .. MaxMint]
    BY <1>5 DEF streamOpens, IdentityInv, Loaded, Identity
  <2>2. beats' \in Nat
    BY <1>5 DEF streamOpens
  <2> QED
    BY <2>1, <2>2, <1>5 DEF streamOpens
<1>6. CASE refused
  BY <1>0, <1>6 DEF refused
<1>7. CASE refusalRead
  <2>1. CASE mismatch
    <3>1. fresh' \in Identity /\ minted' \in 1 .. MaxMint
      BY <1>0, <1>7, <2>1 DEF refusalRead, writeIdentity
    <3> QED
      BY <3>1, <1>7, <2>1 DEF refusalRead, writeIdentity
  <2>2. CASE ~mismatch
    <3>1. attemptOver /\ UNCHANGED <<identityVars, pin, trouble>>
      BY <1>7, <2>2 DEF refusalRead
    <3> QED
      BY <3>1 DEF attemptOver
  <2> QED
    BY <2>1, <2>2
<1>8. CASE silenceFires
  BY <1>8 DEF silenceFires, attemptOver
<1>9. CASE pauseEnds
  BY <1>9 DEF pauseEnds, attempt
<1>10. CASE answerLost
  <2>1. pin' \in [1 .. MaxMint -> 0 .. MaxMint]
    BY <1>10 DEF answerLost, IdentityInv, Loaded, Identity
  <2> QED
    BY <2>1, <1>0, <1>10 DEF answerLost
<1>11. CASE refusalUnread
  BY <1>0, <1>11 DEF refusalUnread, attemptOver
<1>12. CASE rotationFails
  BY <1>0, <1>12 DEF rotationFails, attemptOver
<1>13. CASE connectionEnds
  BY <1>0, <1>13 DEF connectionEnds, attemptOver
<1>14. CASE linkDies
  BY <1>0, <1>14 DEF linkDies
<1>15. CASE crash
  <2>1. disk' \in Identity
    BY <1>15, ClientAssumption DEF crash, Identity, None
  <2> QED
    BY <2>1, <1>0, <1>15 DEF crash, ProcessEnds
<1>16. CASE shutdown
  BY <1>16 DEF shutdown, ProcessEnds
<1>17. CASE UNCHANGED clientVars
  BY <1>17 DEF clientVars
<1> QED
  BY <1>1, <1>2, <1>3, <1>5, <1>6, <1>7, <1>8, <1>9, <1>10, <1>11, <1>12, <1>13,
     <1>14, <1>15, <1>16, <1>17 DEF ClientNext, ClientStep

LEMMA WriteStep == ClientInv /\ [ClientNext]_clientVars => WriteInv'
<1> SUFFICES ASSUME ClientInv, [ClientNext]_clientVars PROVE WriteInv'
  OBVIOUS
<1> USE ClientAssumption
    DEF ClientInv, ClientTypeOK, Identity, WriteInv, None, identityVars, attemptVars
<1>1. CASE boot
  BY <1>1 DEF boot, attempt, writeIdentity
<1>2. CASE writeKey
  BY <1>2 DEF writeKey
<1>3. CASE created \/ rotated
  BY <1>3 DEF created, rotated, attempt
<1>4. CASE streamOpens \/ refused \/ answerLost \/ linkDies \/ pauseEnds
  BY <1>4 DEF streamOpens, refused, answerLost, linkDies, pauseEnds, attempt
<1>5. CASE refusalRead
  BY <1>5 DEF refusalRead, writeIdentity, attemptOver
<1>6. CASE refusalUnread \/ rotationFails \/ connectionEnds
  BY <1>6 DEF refusalUnread, rotationFails, connectionEnds, attemptOver
<1>7. CASE crash \/ shutdown
  BY <1>7 DEF crash, shutdown, ProcessEnds
<1>8. CASE silenceFires
  BY <1>8 DEF silenceFires, attemptOver, WaitsAreTimed
<1>9. CASE UNCHANGED clientVars
  BY <1>9 DEF clientVars
<1> QED
  BY <1>1, <1>2, <1>3, <1>4, <1>5, <1>6, <1>7, <1>8, <1>9 DEF ClientNext, ClientStep

LEMMA WaitStep == ClientInv /\ [ClientNext]_clientVars => WaitsAreTimed'
<1> SUFFICES ASSUME ClientInv, [ClientNext]_clientVars PROVE WaitsAreTimed'
  OBVIOUS
<1> USE DEF ClientInv, WriteInv, ClientTypeOK, WaitsAreTimed, identityVars, attemptVars
<1>1. CASE boot
  BY <1>1 DEF boot, attempt, writeIdentity
<1>2. CASE writeKey \/ rotated
  BY <1>2 DEF writeKey, rotated
<1>3. CASE created
  BY <1>3 DEF created, attempt
<1>4. CASE streamOpens
  BY <1>4 DEF streamOpens
<1>5. CASE refused
  BY <1>5 DEF refused
<1>6. CASE answerLost \/ linkDies
  BY <1>6 DEF answerLost, linkDies
<1>7. CASE refusalRead
  BY <1>7 DEF refusalRead, writeIdentity, attemptOver
<1>8. CASE refusalUnread \/ rotationFails \/ connectionEnds \/ silenceFires
  BY <1>8 DEF refusalUnread, rotationFails, connectionEnds, silenceFires, attemptOver
<1>9. CASE pauseEnds
  BY <1>9 DEF pauseEnds, attempt
<1>10. CASE crash \/ shutdown
  BY <1>10 DEF crash, shutdown, ProcessEnds
<1>11. CASE UNCHANGED clientVars
  BY <1>11 DEF clientVars
<1> QED
  BY <1>1, <1>2, <1>3, <1>4, <1>5, <1>6, <1>7, <1>8, <1>9, <1>10, <1>11
  DEF ClientNext, ClientStep

LEMMA IdentityStep == ClientInv /\ [ClientNext]_clientVars => IdentityInv'
<1> SUFFICES ASSUME ClientInv, [ClientNext]_clientVars PROVE IdentityInv'
  OBVIOUS
<1> USE ClientAssumption
    DEF ClientInv, ClientTypeOK, Identity, IdentityInv, Loaded, Barred, StreamIsOnDisk, None,
        identityVars, attemptVars
<1>1. CASE boot
  BY <1>1 DEF boot, attempt, writeIdentity
<1>2. CASE writeKey
  BY <1>2 DEF writeKey, WriteInv
<1>3. CASE created
  <2>1. disk' = fresh
    BY <1>3 DEF created, WriteInv
  <2> QED
    BY <2>1, <1>3 DEF created, attempt, WriteInv
<1>4. CASE rotated
  BY <1>4 DEF rotated
<1>5. CASE streamOpens
  BY <1>5 DEF streamOpens
<1>6. CASE refused
  BY <1>6 DEF refused
<1>7. CASE answerLost
  BY <1>7 DEF answerLost
<1>8. CASE linkDies
  BY <1>8 DEF linkDies
<1>9. CASE refusalRead
  BY <1>9 DEF refusalRead, writeIdentity, attemptOver
<1>10. CASE refusalUnread \/ rotationFails \/ connectionEnds
  BY <1>10 DEF refusalUnread, rotationFails, connectionEnds, attemptOver
<1>11. CASE silenceFires
  BY <1>11 DEF silenceFires, attemptOver, WaitsAreTimed
<1>12. CASE pauseEnds
  BY <1>12 DEF pauseEnds, attempt
<1>13. CASE crash \/ shutdown
  BY <1>13 DEF crash, shutdown, ProcessEnds
<1>14. CASE UNCHANGED clientVars
  BY <1>14 DEF clientVars
<1> QED
  BY <1>1, <1>2, <1>3, <1>4, <1>5, <1>6, <1>7, <1>8, <1>9, <1>10, <1>11, <1>12, <1>13, <1>14
  DEF ClientNext, ClientStep

LEMMA ClientInvariance == ClientSpec => []ClientInv
<1>1. ClientInv /\ [ClientNext]_clientVars => ClientInv'
  BY ClientTypeStep, WriteStep, WaitStep, IdentityStep DEF ClientInv
<1> QED
  BY ClientInitial, <1>1, PTL DEF ClientSpec

(* tether-client.ts 110-139 and node-identity-store.ts 23-42: for any      *)
(* number of identities and faults, a daemon serves only under the         *)
(* identity its disk holds, and that is the one the tether has pinned.     *)
THEOREM ServesAsOnDisk == ClientSpec => []StreamIsOnDisk
<1>1. ClientInv => StreamIsOnDisk
  BY DEF ClientInv, IdentityInv
<1> QED
  BY ClientInvariance, <1>1, PTL

(* tether-client.ts 101-122, 144-168 and 221-224: for any faults, every    *)
(* handshake and every watched stream has its one timer, and a heartbeat   *)
(* runs exactly beside an open stream with an announced interval.          *)
THEOREM NoWaitUntimed == ClientSpec => []WaitsAreTimed
<1>1. ClientInv => WaitsAreTimed
  BY DEF ClientInv
<1> QED
  BY ClientInvariance, <1>1, PTL
=============================================================================
