---------------------------- MODULE BlobDownload ----------------------------
(***************************************************************************)
(* One file of a model on its way into the cache (vllm-download.ts), for a *)
(* member of a group from its leader first (peer-share.ts): ranges, bytes  *)
(* appended to what an earlier attempt left, stalls, hash checks, crashes. *)
(*                                                                         *)
(* A file is its number of chunks and whether each is the right one at its *)
(* place.                                                                  *)
(*                                                                         *)
(* Two things are assumed.  A body ends after its last chunk or with an    *)
(* error: one that ended early as if whole would be taken for the file, as *)
(* no size is compared after a stream of the hub (vllm-download.ts 194).   *)
(* And one download writes the file: installations of one model that start *)
(* together (vllm.ts 734) would append to the same .incomplete.            *)
(***************************************************************************)
EXTENDS Naturals

CONSTANTS
  Chunks,   \* expectedSize
  Hashed    \* the listing gives the file's SHA-256

ASSUME DownloadAssumption == Chunks \in Nat \ {0} /\ Hashed \in BOOLEAN

VARIABLES
  peer,       \* the leader's copy: none (no leader), absent, growing, whole or damaged
  partial,    \* the .incomplete file
  blob,       \* the finished file
  download,   \* where downloadFileToCache is
  had,        \* chunks in partial when the request began
  next,       \* the chunk that arrives next
  stalls,     \* attemptsWithoutBytes
  leftover    \* history: partial begins with chunks of a damaged copy that was not checked

downloadVars == <<peer, partial, blob, download, had, next, stalls, leftover>>

STALLED_ATTEMPTS == 5

NoFile == [len |-> 0, right |-> TRUE]   \* no file, or an empty one

DownloadInit ==
  /\ peer \in {"none", "absent", "growing", "whole", "damaged"}
  /\ partial = NoFile
  /\ blob = NoFile
  /\ download = "idle"
  /\ had = 0
  /\ next = 1
  /\ stalls = 0
  /\ leftover = FALSE

(* The leader's own download goes on, well or badly. *)
peerGrows ==
  /\ peer \in {"absent", "growing"}
  /\ peer' \in IF peer = "absent" THEN {"growing"} ELSE {"absent", "whole", "damaged"}
  /\ UNCHANGED <<partial, blob, download, had, next, stalls, leftover>>

(* A finished file is taken as it is. *)
downloadFileToCache ==
  /\ download = "idle"
  /\ download' = IF blob # NoFile THEN "done" ELSE IF peer = "none" THEN "hub" ELSE "peer"
  /\ stalls' = 0
  /\ UNCHANGED <<peer, partial, blob, had, next, leftover>>

(* streamResumed: a range answered with one is appended; any other body is *)
(* written over what is there.                                             *)
Resume(to) ==
  /\ download' = to
  /\ had' = partial.len
  /\ next' = partial.len + 1
  /\ UNCHANGED <<partial, leftover>>

Restart(to) ==
  /\ download' = to
  /\ had' = partial.len
  /\ next' = 1
  /\ partial' = NoFile
  /\ leftover' = FALSE

RestartAppending(to) ==
  /\ download' = to
  /\ had' = partial.len
  /\ next' = 1
  /\ UNCHANGED <<partial, leftover>>

(* copyFromPeer asks the leader, which serves finished files only. *)
copyFromPeer ==
  /\ download = "peer" /\ peer \in {"whole", "damaged"}
  /\ partial.len < Chunks
  /\ IF partial.len > 0 THEN Resume("copying") ELSE Restart("copying")
  /\ UNCHANGED <<peer, blob, stalls>>

(* Not shared, absent, not growing, unreachable, or nothing left to ask. *)
peerDeclines ==
  /\ download = "peer"
  /\ download' = "hub"
  /\ UNCHANGED <<peer, partial, blob, had, next, stalls, leftover>>

Written(right) ==
  [len |-> partial.len + 1, right |-> partial.right /\ right /\ next = partial.len + 1]

chunkArrives ==
  /\ download \in {"copying", "streaming"}
  /\ next <= Chunks
  /\ partial' = Written(download = "streaming" \/ peer = "whole")
  /\ next' = next + 1
  /\ UNCHANGED <<peer, blob, download, had, stalls, leftover>>

copied ==
  /\ download = "copying" /\ next > Chunks
  /\ download' = "checking"
  /\ UNCHANGED <<peer, partial, blob, had, next, stalls, leftover>>

(* rename, and the file is there. *)
Finish ==
  /\ blob' = partial
  /\ partial' = NoFile
  /\ download' = "done"

(* matchesHash: a copy that does not match is removed. *)
checked ==
  /\ download = "checking"
  /\ IF partial.len = Chunks /\ (Hashed => partial.right)
     THEN Finish /\ UNCHANGED leftover
     ELSE partial' = NoFile /\ download' = "hub" /\ leftover' = FALSE /\ UNCHANGED blob
  /\ UNCHANGED <<peer, had, next, stalls>>

(* The copy stalls or fails: what has arrived stays for the download. *)
copyCutShort ==
  /\ download = "copying"
  /\ download' = "hub"
  /\ leftover' = (leftover \/ ~partial.right)
  /\ UNCHANGED <<peer, partial, blob, had, next, stalls>>

requestHubAppending ==
  /\ download = "hub"
  /\ IF partial.len = Chunks
     THEN Finish /\ UNCHANGED <<had, next, leftover>>
     ELSE /\ Resume("streaming") \/ RestartAppending("streaming")
          /\ UNCHANGED blob
  /\ UNCHANGED <<peer, stalls>>

(* The loop of downloadFileToCache: a file that is whole already is taken; *)
(* otherwise the rest is asked for, and the server may send all of it.     *)
requestHub ==
  /\ download = "hub"
  /\ IF partial.len = Chunks
     THEN Finish /\ UNCHANGED <<had, next, leftover>>
     ELSE /\ Restart("streaming") \/ (partial.len > 0 /\ Resume("streaming"))
          /\ UNCHANGED blob
  /\ UNCHANGED <<peer, stalls>>

downloaded ==
  /\ download = "streaming" /\ next > Chunks
  /\ Finish
  /\ UNCHANGED <<peer, had, next, stalls, leftover>>

(* The watchdog aborts: asked again, at most five times without new bytes. *)
stalled ==
  /\ download = "streaming"
  /\ LET fruitless == IF partial.len > had THEN 0 ELSE stalls + 1 IN
       IF fruitless >= STALLED_ATTEMPTS
       THEN download' = "idle" /\ UNCHANGED stalls
       ELSE download' = "hub" /\ stalls' = fruitless
  /\ UNCHANGED <<peer, partial, blob, had, next, leftover>>

(* An error ends the download, or the daemon ends; a later one goes on     *)
(* from what is on disk.                                                   *)
interrupted ==
  /\ download \notin {"idle", "done"}
  /\ download' = "idle"
  /\ leftover' = (leftover \/ ~partial.right)
  /\ UNCHANGED <<peer, partial, blob, had, next, stalls>>

DownloadNext ==
  \/ peerGrows \/ downloadFileToCache
  \/ copyFromPeer \/ peerDeclines \/ chunkArrives \/ copied \/ checked \/ copyCutShort
  \/ requestHub \/ downloaded \/ stalled \/ interrupted

DownloadSpec == DownloadInit /\ [][DownloadNext]_downloadVars

(***************************************************************************)
(* Properties                                                              *)
(***************************************************************************)

(* vllm-download.ts 180-206, 246-268 and peer-share.ts 132-144: however    *)
(* often a download was cut short, resumed or begun anew, from whichever   *)
(* source, a finished file has every chunk once and at its place.  Chunks  *)
(* of a damaged copy stay when the copy is not checked: when it is cut     *)
(* short, or when its hash is not known.                                   *)
BlobIsWhole ==
  blob # NoFile =>
    /\ blob.len = Chunks
    /\ blob.right \/ leftover \/ (~Hashed /\ peer = "damaged")
=============================================================================
