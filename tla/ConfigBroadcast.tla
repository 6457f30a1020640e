-------------------------- MODULE ConfigBroadcast --------------------------
(***************************************************************************)
(* How the settings of the dynamic_config table reach a daemon             *)
(* (config-broadcast.ts, connections.ts and the daemon's config-feed.ts):  *)
(* the tether reads them after a notification and pushes them to every     *)
(* connection, and a stream that starts is sent what was read last.        *)
(*                                                                         *)
(* Unlike ConfigFeed, refreshes are not serialised and a failed read is    *)
(* not repeated.  The table is a version number; 0 is the empty table, and *)
(* what the tether sends before its first read.                            *)
(***************************************************************************)
EXTENDS Integers, Sequences

CONSTANTS
  MaxSettings,  \* bound on the writes to the table
  MaxEvents,    \* bound on the config events on their way in a stream
  Refreshes     \* refreshes that may overlap

ASSUME BroadcastAssumption == MaxSettings \in Nat \ {0} /\ MaxEvents \in Nat \ {0}

VARIABLES
  settings,       \* version of the rows
  settingsTold,   \* notifications sent and not yet received
  settingsHeard,  \* the LISTEN connection is up
  pushTimer,      \* timer
  query,          \* what each refresh has read
  current,        \* latest, the values read last
  channel,        \* the daemon's stream: closed, starting or open
  events,         \* config events written to it and not yet handled
  values          \* version the daemon was told last

broadcastVars == <<settings, settingsTold, settingsHeard, pushTimer, query, current,
                   channel, events, values>>

NoRefresh == -2   \* the refresh is over
Asked     == -1   \* its query is not answered

Settings == 0 .. MaxSettings

BroadcastInit ==
  /\ settings \in 0 .. 1
  /\ settingsTold = 0
  /\ settingsHeard = FALSE
  /\ pushTimer = FALSE
  /\ query = [r \in Refreshes |-> NoRefresh]
  /\ current = 0
  /\ channel = "closed"
  /\ events = <<>>
  /\ values \in 0 .. settings

setSettings ==
  /\ settings < MaxSettings
  /\ settings' = settings + 1
  /\ settingsTold' = IF settingsHeard THEN settingsTold + 1 ELSE settingsTold
  /\ UNCHANGED <<settingsHeard, pushTimer, query, current, channel, events, values>>

(* queueRefresh by onSubscribed: at start, and after a lost connection. *)
settingsSubscribed ==
  /\ ~settingsHeard
  /\ settingsHeard' = TRUE
  /\ pushTimer' = TRUE
  /\ UNCHANGED <<settings, settingsTold, query, current, channel, events, values>>

settingsLost ==
  /\ settingsHeard
  /\ settingsHeard' = FALSE
  /\ settingsTold' = 0
  /\ UNCHANGED <<settings, pushTimer, query, current, channel, events, values>>

(* queueRefresh by a notification: the delay begins anew. *)
settingsNotified ==
  /\ settingsTold > 0
  /\ settingsTold' = settingsTold - 1
  /\ pushTimer' = TRUE
  /\ UNCHANGED <<settings, settingsHeard, query, current, channel, events, values>>

(* The timer fires, whether or not an earlier refresh has ended. *)
beginRefresh(r) ==
  /\ pushTimer
  /\ query[r] = NoRefresh
  /\ pushTimer' = FALSE
  /\ query' = [query EXCEPT ![r] = Asked]
  /\ UNCHANGED <<settings, settingsTold, settingsHeard, current, channel, events, values>>

readSettings(r) ==
  /\ query[r] = Asked
  /\ query' = [query EXCEPT ![r] = settings]
  /\ UNCHANGED <<settings, settingsTold, settingsHeard, pushTimer, current, channel, events, values>>

(* pushConfig, to the connection that is in the map from the moment its    *)
(* stream starts.                                                          *)
pushConfig(v) ==
  IF channel = "closed"
  THEN UNCHANGED events
  ELSE Len(events) < MaxEvents /\ events' = Append(events, v)

(* The rows arrive: they become the latest and are pushed to all. *)
endRefresh(r) ==
  /\ query[r] \in Settings
  /\ query' = [query EXCEPT ![r] = NoRefresh]
  /\ current' = query[r]
  /\ pushConfig(query[r])
  /\ UNCHANGED <<settings, settingsTold, settingsHeard, pushTimer, channel, values>>

(* The read fails: logged, and that is all. *)
refreshFails(r) ==
  /\ query[r] \in Settings
  /\ query' = [query EXCEPT ![r] = NoRefresh]
  /\ UNCHANGED <<settings, settingsTold, settingsHeard, pushTimer, current, channel, events, values>>

(* A stream of the daemon enters the map; its predecessor is superseded.   *)
connectStream ==
  /\ channel' = "starting"
  /\ events' = <<>>
  /\ UNCHANGED <<settings, settingsTold, settingsHeard, pushTimer, query, current, values>>

sendCurrentSkipped ==
  /\ channel = "starting"
  /\ channel' = "open"
  /\ UNCHANGED <<settings, settingsTold, settingsHeard, pushTimer, query, current, events, values>>

(* sendCurrent, when the stream's start has built the desired state.  The  *)
(* start of a superseded stream sends the same values to its successor.    *)
sendCurrent ==
  /\ channel = "starting"
  /\ channel' = "open"
  /\ pushConfig(current)
  /\ UNCHANGED <<settings, settingsTold, settingsHeard, pushTimer, query, current, values>>

closeStream ==
  /\ channel # "closed"
  /\ channel' = "closed"
  /\ events' = <<>>
  /\ UNCHANGED <<settings, settingsTold, settingsHeard, pushTimer, query, current, values>>

(* The daemon's overrides become those of the event. *)
receiveConfigEvent ==
  /\ events # <<>>
  /\ values' = Head(events)
  /\ events' = Tail(events)
  /\ UNCHANGED <<settings, settingsTold, settingsHeard, pushTimer, query, current, channel>>

RefreshStep(r) == beginRefresh(r) \/ readSettings(r) \/ endRefresh(r) \/ refreshFails(r)

BroadcastNext ==
  \/ setSettings \/ settingsSubscribed \/ settingsLost \/ settingsNotified
  \/ \E r \in Refreshes : RefreshStep(r)
  \/ connectStream \/ sendCurrent \/ closeStream \/ receiveConfigEvent

BroadcastSpec == BroadcastInit /\ [][BroadcastNext]_broadcastVars

(***************************************************************************)
(* Properties                                                              *)
(***************************************************************************)

(* config-broadcast.ts 49 and 57, index.ts 170-184: between the push to    *)
(* all and the first event of a stream that is just starting, no daemon is *)
(* passed over: an open stream always ends with the values read last.      *)
StreamEndsWithLatest ==
  channel = "open" => current = IF events = <<>> THEN values ELSE events[Len(events)]
=============================================================================
