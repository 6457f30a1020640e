---------------------------- MODULE TetherClient ----------------------------
(***************************************************************************)
(* The daemon's side of its connection to the tether (tether-client.ts)    *)
(* with the identity it registers under (node-identity-store.ts): the      *)
(* handshake, refusals, the stream, silence and reconnecting; creating and *)
(* rotating the identity on disk; crashes and the service manager's        *)
(* restarts.                                                               *)
(*                                                                         *)
(* Ids and keys are numbers minted one after the other.  Delays are left   *)
(* out: a timer fires when nothing but it can end the wait.  A dead link   *)
(* delivers nothing more in either direction and reports no error.         *)
(***************************************************************************)
EXTENDS Naturals

CONSTANTS
  MaxMint,   \* bound on the ids and keys made
  MaxTrouble \* bound on the faults of network, tether, disk and process

ASSUME ClientAssumption == MaxMint \in Nat \ {0} /\ MaxTrouble \in Nat

VARIABLES
  disk,          \* node_id and node_key, None when missing or unreadable
  self,          \* the identity this process has loaded
  fresh,         \* the identity being written
  writing,       \* the file writeIdentity is writing
  minted,        \* the newest id or key
  pin,           \* the key each id is registered with at the tether
  client,        \* where the process is
  mismatch,      \* the refusal is an identity mismatch
  link,          \* of the attempt under way
  announced,     \* the tether announced its keepalive interval
  silenceTimer,  \* is set
  beats,         \* heartbeat intervals running
  trouble        \* faults so far

clientVars == <<disk, self, fresh, writing, minted, pin, client, mismatch, link,
                announced, silenceTimer, beats, trouble>>
identityVars == <<disk, self, fresh, writing, minted>>
attemptVars  == <<mismatch, link, announced, silenceTimer, beats>>

None == 0

(* A new host, a host that has run before, and one whose key is gone. *)
ClientInit ==
  /\ disk \in {[id |-> None, key |-> None], [id |-> 1, key |-> 1], [id |-> 1, key |-> None]}
  /\ self = [id |-> None, key |-> None]
  /\ fresh = self
  /\ writing = "nothing"
  /\ minted = 1
  /\ pin \in {[i \in 1 .. MaxMint |-> IF i = 1 THEN k ELSE None] : k \in {None, 1}}
  /\ client = "down"
  /\ mismatch = FALSE /\ announced = FALSE /\ silenceTimer = FALSE
  /\ link = "live"
  /\ beats = 0
  /\ trouble = 0

Trouble == trouble < MaxTrouble /\ trouble' = trouble + 1

(* The top of the loop: an attempt begins, its wait bounded by the         *)
(* handshake timeout.                                                      *)
attempt ==
  /\ client' = "handshake"
  /\ silenceTimer' = TRUE
  /\ link' = "live"
  /\ UNCHANGED <<mismatch, announced, beats>>

writeIdentity(id) ==
  /\ minted < MaxMint
  /\ minted' = minted + 1
  /\ fresh' = [id |-> id, key |-> minted + 1]
  /\ writing' = "key"

(* loadOrCreateIdentity at start: an id without a key keeps the id. *)
boot ==
  /\ client = "down"
  /\ IF disk.id # None /\ disk.key # None
     THEN self' = disk /\ attempt /\ UNCHANGED <<disk, fresh, writing, minted>>
     ELSE /\ writeIdentity(IF disk.id # None THEN disk.id ELSE minted + 1)
          /\ client' = "creating"
          /\ UNCHANGED <<disk, self, attemptVars>>
  /\ UNCHANGED <<pin, trouble>>

writeKey ==
  /\ writing = "key"
  /\ disk' = [disk EXCEPT !.key = fresh.key]
  /\ writing' = "id"
  /\ UNCHANGED <<self, fresh, minted, pin, client, attemptVars, trouble>>

(* The second write ends the creation, and the attempts begin. *)
created ==
  /\ client = "creating" /\ writing = "id"
  /\ disk' = [disk EXCEPT !.id = fresh.id]
  /\ writing' = "nothing"
  /\ self' = fresh
  /\ attempt
  /\ UNCHANGED <<fresh, minted, pin, trouble>>

rotatedInPlace ==
  /\ client = "rotating" /\ writing = "id"
  /\ disk' = [disk EXCEPT !.id = fresh.id]
  /\ writing' = "nothing"
  /\ client' = "pausing"
  /\ UNCHANGED <<self, fresh, minted, pin, attemptVars, trouble>>

(* rotateNodeIdentity ends, connectSSE returns, and main exits with an     *)
(* error so that the service manager starts it again.                      *)
rotated ==
  /\ client = "rotating" /\ writing = "id"
  /\ disk' = [disk EXCEPT !.id = fresh.id]
  /\ writing' = "nothing"
  /\ client' = "down"
  /\ UNCHANGED <<self, fresh, minted, pin, attemptVars, trouble>>

(* The tether writes the registration and opens the stream.  Heartbeats    *)
(* and the silence timer need its keepalive interval.                      *)
streamOpens ==
  /\ client = "handshake" /\ link = "live"
  /\ pin[self.id] \in {None, self.key}
  /\ pin' = [pin EXCEPT ![self.id] = self.key]
  /\ client' = "streaming"
  /\ announced' \in BOOLEAN
  /\ silenceTimer' = announced'
  /\ beats' = IF announced' THEN beats + 1 ELSE beats
  /\ UNCHANGED <<identityVars, mismatch, link, trouble>>

(* The tether writes the registration, and its answer never arrives. *)
answerLost ==
  /\ client = "handshake" /\ link = "live" /\ Trouble
  /\ pin[self.id] \in {None, self.key}
  /\ pin' = [pin EXCEPT ![self.id] = self.key]
  /\ link' = "dead"
  /\ UNCHANGED <<identityVars, client, mismatch, announced, silenceTimer, beats>>

(* The status of a refusal arrives: the timer is cleared, its body is read *)
(* without one.  Other refusals than a mismatch are troubles that pass.    *)
refused ==
  /\ client = "handshake" /\ link = "live"
  /\ \/ /\ pin[self.id] \notin {None, self.key}
        /\ mismatch' = TRUE /\ UNCHANGED trouble
     \/ mismatch' = FALSE /\ Trouble
  /\ client' = "refusal"
  /\ silenceTimer' = FALSE
  /\ UNCHANGED <<identityVars, pin, link, announced, beats>>

(* The finally block, and the pause. *)
attemptOver ==
  /\ client' = "pausing"
  /\ silenceTimer' = FALSE
  /\ beats' = 0
  /\ UNCHANGED <<mismatch, link, announced>>

refusalRead ==
  /\ client = "refusal" /\ link = "live"
  /\ IF mismatch
     THEN /\ writeIdentity(minted + 1)
          /\ client' = "rotating"
          /\ UNCHANGED <<disk, self, attemptVars>>
     ELSE attemptOver /\ UNCHANGED identityVars
  /\ UNCHANGED <<pin, trouble>>

(* A body that fails leaves the status, which alone means no mismatch. *)
refusalUnread ==
  /\ client = "refusal" /\ Trouble
  /\ attemptOver
  /\ UNCHANGED <<identityVars, pin>>

(* A write of the rotation throws. *)
rotationFails ==
  /\ client = "rotating" /\ Trouble
  /\ writing' = "nothing"
  /\ attemptOver
  /\ UNCHANGED <<disk, self, fresh, minted, pin>>

(* The fetch or the stream ends, with an error or closed by the tether. *)
connectionEnds ==
  /\ client \in {"handshake", "streaming"} /\ Trouble
  /\ attemptOver
  /\ UNCHANGED <<identityVars, pin>>

linkDies ==
  /\ client \in {"handshake", "refusal", "streaming"} /\ link = "live" /\ Trouble
  /\ link' = "dead"
  /\ UNCHANGED <<identityVars, pin, client, mismatch, announced, silenceTimer, beats>>

(* No answer, or three keepalives missed: the attempt is aborted. *)
silenceFires ==
  /\ silenceTimer /\ link = "dead"
  /\ attemptOver
  /\ UNCHANGED <<identityVars, pin, trouble>>

pauseEnds ==
  /\ client = "pausing"
  /\ attempt
  /\ UNCHANGED <<identityVars, pin, trouble>>

ProcessEnds(to) ==
  /\ client \notin {"down", "off"}
  /\ client' = to
  /\ writing' = "nothing"
  /\ silenceTimer' = FALSE /\ beats' = 0
  /\ UNCHANGED <<self, fresh, minted, pin, mismatch, link, announced>>

(* A file that is being written may be left empty. *)
crash ==
  /\ Trouble
  /\ disk' \in {disk} \cup (IF writing = "key" THEN {[disk EXCEPT !.key = None]} ELSE {})
                      \cup (IF writing = "id" THEN {[disk EXCEPT !.id = None]} ELSE {})
  /\ ProcessEnds("down")

(* The service is stopped. *)
shutdown ==
  /\ ProcessEnds("off")
  /\ UNCHANGED <<disk, trouble>>

ClientStep ==
  \/ boot \/ writeKey \/ created \/ rotated
  \/ streamOpens \/ refused \/ refusalRead
  \/ silenceFires \/ pauseEnds

ClientNext ==
  \/ ClientStep
  \/ answerLost \/ refusalUnread \/ rotationFails \/ connectionEnds \/ linkDies
  \/ crash \/ shutdown

ClientSpec == ClientInit /\ [][ClientNext]_clientVars

(* The process goes on, timers fire, and a live tether answers. *)
ClientFairness == WF_clientVars(ClientStep)

ClientFairSpec == ClientSpec /\ ClientFairness

(***************************************************************************)
(* Properties                                                              *)
(***************************************************************************)

(* The body of a refusal never ends on a dead link, and no timer is set.   *)
Hung == client = "refusal" /\ link = "dead"

(* An open stream; without an announced interval its death goes unnoticed. *)
Served == client = "streaming" /\ (link = "live" \/ ~announced)

(* The host has started the daemon. *)
Begun == client # "down" \/ trouble > 0

(* tether-client.ts 96-231 and node-identity-store.ts 23-42: whatever      *)
(* fails, a daemon comes back to an open stream: its waits are timed, a    *)
(* refused identity is replaced, and a crash between the two files of an   *)
(* identity leaves one that is replaced in turn.                           *)
ComesBack == Begun ~> (Served \/ Hung \/ client = "off")

(* tether-client.ts 110-139 and node-identity-store.ts 23-42: a daemon     *)
(* never serves under an identity that its disk does not hold, so the next *)
(* start is the same node again: a rotation that fails between its two     *)
(* files, a crash there and a lost answer included.                        *)
StreamIsOnDisk == client = "streaming" => self = disk /\ pin[self.id] = self.key

(* tether-client.ts 101-122, 144-168 and 221-224: whatever ends a try,     *)
(* no handshake waits without its timer, no stream with an announced       *)
(* interval goes unwatched, no timer outlives its wait, and a stream never *)
(* runs two heartbeats nor leaves one behind.                              *)
WaitsAreTimed ==
  /\ silenceTimer <=> client = "handshake" \/ (client = "streaming" /\ announced)
  /\ beats = IF client = "streaming" /\ announced THEN 1 ELSE 0
=============================================================================
