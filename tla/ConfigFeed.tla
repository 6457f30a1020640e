----------------------------- MODULE ConfigFeed -----------------------------
(***************************************************************************)
(* How a process follows the dynamic_config table (db-config-feed.ts): one *)
(* refresh at a time, asked for by notifications, by a subscription made   *)
(* anew, by the retry of a failed read and by the reconcile interval.      *)
(*                                                                         *)
(* The table is a version number that grows with every write; 0 is what    *)
(* the process booted with.  Delays are left out: a timer that is set may  *)
(* fire at any time, and a retry differs from a refresh by its delay only. *)
(***************************************************************************)
EXTENDS Integers

CONSTANTS
  MaxConfig,    \* bound on the writes to the table
  Unresolvable  \* versions that apply rejects: a value does not resolve

ASSUME ConfigFeedAssumption ==
  MaxConfig \in Nat \ {0} /\ Unresolvable \subseteq 1 .. MaxConfig

VARIABLES
  table,         \* version of the rows
  told,          \* notifications sent and not yet received
  heard,         \* the LISTEN connection is up
  feed,          \* starting, following, stopped, or absent: it did not start
  refreshTimer,  \* timer
  refreshing,
  refreshAgain,
  reads,         \* queries under way: what each has read
  inForce        \* version of the values in use

feedVars == <<table, told, heard, feed, refreshTimer, refreshing, refreshAgain, reads, inForce>>

Unread == -1   \* a query that Postgres has not answered

FeedInit ==
  /\ table \in 0 .. 1
  /\ told = 0
  /\ heard = FALSE
  /\ feed = "starting"
  /\ refreshTimer = FALSE
  /\ refreshing = FALSE
  /\ refreshAgain = FALSE
  /\ reads = {}
  /\ inForce = 0

(* The dashboard sets or clears a value; the trigger notifies. *)
setOverride ==
  /\ table < MaxConfig
  /\ table' = table + 1
  /\ told' = IF heard THEN told + 1 ELSE told
  /\ UNCHANGED <<heard, feed, refreshTimer, refreshing, refreshAgain, reads, inForce>>

subscribedForgetting ==
  /\ ~heard /\ feed \in {"starting", "following"}
  /\ heard' = TRUE
  /\ feed' = "following"
  /\ refreshTimer' = (refreshTimer \/ feed = "starting")
  /\ UNCHANGED <<table, told, refreshing, refreshAgain, reads, inForce>>

(* onSubscribed: at the start, and whenever a lost connection is back. *)
subscribed ==
  /\ ~heard /\ feed \in {"starting", "following"}
  /\ heard' = TRUE
  /\ feed' = "following"
  /\ refreshTimer' = TRUE
  /\ UNCHANGED <<table, told, refreshing, refreshAgain, reads, inForce>>

(* The first subscription fails: the process keeps what it booted with. *)
subscribeFails ==
  /\ feed = "starting"
  /\ feed' = "absent"
  /\ UNCHANGED <<table, told, heard, refreshTimer, refreshing, refreshAgain, reads, inForce>>

(* What was sent and not received is lost with the connection. *)
listenLost ==
  /\ heard
  /\ heard' = FALSE
  /\ told' = 0
  /\ UNCHANGED <<table, feed, refreshTimer, refreshing, refreshAgain, reads, inForce>>

(* queueRefreshSupersedingRetry, by a notification. *)
onNotification ==
  /\ told > 0
  /\ told' = told - 1
  /\ refreshTimer' = TRUE
  /\ UNCHANGED <<table, heard, feed, refreshing, refreshAgain, reads, inForce>>

(* refresh up to its read: beside another it only asks for one more. *)
refresh ==
  IF refreshing
  THEN refreshAgain' = TRUE /\ UNCHANGED <<refreshing, reads>>
  ELSE /\ refreshing' = TRUE
       /\ reads' = reads \cup {Unread}
       /\ UNCHANGED refreshAgain

(* The timer fires. *)
runRefresh ==
  /\ refreshTimer
  /\ refreshTimer' = FALSE
  /\ refresh
  /\ UNCHANGED <<table, told, heard, feed, inForce>>

(* The interval fires. *)
reconcile ==
  /\ feed = "following"
  /\ refresh
  /\ UNCHANGED <<table, told, heard, feed, refreshTimer, inForce>>

readDynamicConfig ==
  /\ Unread \in reads
  /\ reads' = (reads \ {Unread}) \cup {table}
  /\ UNCHANGED <<table, told, heard, feed, refreshTimer, refreshing, refreshAgain, inForce>>

(* The finally block, after a body that leaves the timer as given. *)
settled(timer) ==
  /\ refreshing' = FALSE
  /\ IF refreshAgain /\ feed # "stopped"
     THEN refreshAgain' = FALSE /\ refreshTimer' = TRUE
     ELSE refreshTimer' = timer /\ UNCHANGED refreshAgain

(* The read throws; a query only reads, so whether Postgres had answered   *)
(* makes no difference.  queueRetry leaves a timer that is set, and sets   *)
(* one otherwise.                                                          *)
readFails ==
  /\ \E v \in reads \ {Unread} : reads' = reads \ {v}
  /\ settled(TRUE)
  /\ UNCHANGED <<table, told, heard, feed, inForce>>

(* dynamic-config.ts apply: all the values or, when one is refused, none. *)
apply(v) == inForce' = IF v \in Unresolvable THEN inForce ELSE v

readSucceeds ==
  /\ \E v \in reads \ {Unread} : reads' = reads \ {v} /\ apply(v)
  /\ settled(refreshTimer)
  /\ UNCHANGED <<table, told, heard, feed>>

stop ==
  /\ feed = "following"
  /\ feed' = "stopped"
  /\ refreshTimer' = FALSE
  /\ UNCHANGED <<table, told, heard, refreshing, refreshAgain, reads, inForce>>

FeedStep ==
  \/ onNotification \/ runRefresh \/ reconcile
  \/ readDynamicConfig \/ readFails \/ readSucceeds

FeedNext ==
  \/ FeedStep
  \/ setOverride \/ subscribed \/ subscribeFails \/ listenLost \/ stop

FeedSpec == FeedInit /\ [][FeedNext]_feedVars

(***************************************************************************)
(* Properties                                                              *)
(***************************************************************************)

(* db-config-feed.ts 64-98: a notification that finds a refresh under way, *)
(* a read that fails, a subscription that was lost: none leaves the feed   *)
(* at rest with values older than the table, unless the table's are        *)
(* rejected.                                                               *)
QuietFeedIsCurrent ==
  feed = "following" /\ heard /\ told = 0 /\ ~refreshTimer /\ ~refreshing
    => inForce = table \/ table \in Unresolvable

(* db-config-feed.ts 64-98: refreshes that overlap, fail and are asked for *)
(* again never bring back values older than those in force.                *)
ConfigNeverGoesBack == [][inForce' >= inForce]_feedVars
=============================================================================
