--------------------------- MODULE StoredResponse ---------------------------
(***************************************************************************)
(* A response of the gateway's /v1/responses from its creation to its last *)
(* reader: responses/generate.ts and stream.ts produce it, and             *)
(* endpoints/handle-responses.ts reads, cancels and deletes it, all        *)
(* through response-store.ts, which writes the cache and then the row of   *)
(* Postgres (responses/persistence.ts).                                    *)
(*                                                                         *)
(* One response; only its status is kept.  Every caller of the store is a  *)
(* process that is somewhere in getResponse or saveResponse.               *)
(***************************************************************************)
EXTENDS Naturals

CONSTANTS
  Clients,     \* calls on the response under way at the same time
  Run,         \* the generation
  Progress,    \* the write queue of a deep research run
  MaxQueued,   \* bound on progress writes queued
  MaxFailures    \* bound on failed writes and crashes

ASSUME ResponseAssumption ==
  /\ Run \notin Clients /\ Progress \notin Clients /\ Run # Progress
  /\ MaxQueued \in Nat \ {0} /\ MaxFailures \in Nat

Modes == {"blocking", "stream", "background", "research"}
Settled == {"completed", "failed", "cancelled"}
Users == Clients \cup {Run, Progress}

VARIABLES
  mode,     \* how the response is generated
  store,    \* the request's store flag
  cached,   \* the status in the cache, or "none"
  row,      \* the status in Postgres, or "none"
  proc,     \* each user: its operation, where it is in it, and the status it holds
  queued,   \* progress writes waiting in the queue
  failures

responseVars == <<mode, store, cached, row, proc, queued, failures>>

Rest == [op |-> "none", at |-> "end", status |-> "none"]

(* A request's generation begins by saving the response as in progress. *)
ResponseInit ==
  /\ mode \in Modes /\ store \in BOOLEAN
  /\ cached = "none" /\ row = "none"
  /\ proc = [p \in Users |->
               IF p = Run THEN [op |-> "create", at |-> "set", status |-> "in_progress"] ELSE Rest]
  /\ queued = 0 /\ failures = 0

Created == proc[Run].op # "create"
InBackground == mode \in {"background", "research"}
Goes(p, at) == proc' = [proc EXCEPT ![p].at = at]
Becomes(p, op, at, status) == proc' = [proc EXCEPT ![p] = [op |-> op, at |-> at, status |-> status]]
Failure == failures < MaxFailures /\ failures' = failures + 1

(***************************************************************************)
(* getResponse                                                             *)
(***************************************************************************)

cacheHit(p) ==
  /\ proc[p].at = "lookup" /\ cached # "none"
  /\ Becomes(p, proc[p].op, "found", cached)
  /\ UNCHANGED <<mode, store, cached, row, queued, failures>>

(* No entry, or the cache fails: loadResponse. *)
loadResponse(p) ==
  /\ proc[p].at = "lookup"
  /\ \/ cached = "none" /\ UNCHANGED failures
     \/ cached # "none" /\ Failure
  /\ Becomes(p, proc[p].op, IF row = "none" THEN "found" ELSE "recache", row)
  /\ UNCHANGED <<mode, store, cached, row, queued>>

(* The read of Postgres fails, the cache having no entry or failing too,   *)
(* and getResponse throws.  A run's check for a cancellation throws out of *)
(* the generation, which is saved as failed; a client is answered with an  *)
(* error, and a progress write is logged.                                  *)
loadFails(p) ==
  /\ proc[p].at = "lookup"
  /\ Failure
  /\ IF p = Run THEN Becomes(p, "save", "set", "failed") ELSE Goes(p, "end")
  /\ UNCHANGED <<mode, store, cached, row, queued>>

recache(p) ==
  /\ proc[p].at = "recache"
  /\ Goes(p, "found")
  /\ \/ cached' = proc[p].status /\ UNCHANGED failures
     \/ Failure /\ UNCHANGED cached   \* "Failed to re-cache response"
  /\ UNCHANGED <<mode, store, row, queued>>

(***************************************************************************)
(* saveResponse                                                            *)
(***************************************************************************)

cacheResponse(p) ==
  /\ proc[p].at = "set"
  /\ cached' = proc[p].status
  /\ Goes(p, IF store THEN "persist" ELSE "end")
  /\ UNCHANGED <<mode, store, row, queued, failures>>

(* The cache fails and saveResponse throws.  A generation that was saving  *)
(* its answer is caught and saves a failure (generate.ts 233, handle-      *)
(* responses.ts 247); a stream and a failed failure are only logged.  A    *)
(* response that could not be created is never generated.                  *)
cacheSetFails(p) ==
  /\ proc[p].at = "set"
  /\ Failure
  /\ IF p = Run /\ proc[p].op = "save" /\ proc[p].status = "completed" /\ mode # "stream"
     THEN Becomes(p, "save", "set", "failed")
     ELSE IF p = Run THEN Becomes(p, "over", "end", "none") ELSE Goes(p, "end")
  /\ UNCHANGED <<mode, store, cached, row, queued>>

(* Mutant: the update is not conditioned on in_progress. *)
settlePersistedResponse_Always(status) == row' = status

settlePersistedResponse(status) == row' = IF row = "in_progress" THEN status ELSE row

(* createPersistedResponse for the creating write, nothing for a later one *)
(* in progress, settlePersistedResponse for the rest.                      *)
persist(p) ==
  /\ proc[p].at = "persist"
  /\ CASE proc[p].op = "create" -> row' = "in_progress"
       [] proc[p].op # "create" /\ proc[p].status = "in_progress" -> UNCHANGED row
       [] OTHER -> settlePersistedResponse(proc[p].status)
  /\ Goes(p, "end")
  /\ UNCHANGED <<mode, store, cached, queued, failures>>

(* "Failed to persist response": logged, the caller goes on. *)
persistFails(p) ==
  /\ proc[p].at = "persist"
  /\ Failure
  /\ Goes(p, "end")
  /\ UNCHANGED <<mode, store, cached, row, queued>>

(***************************************************************************)
(* The generation                                                          *)
(***************************************************************************)

startGeneration ==
  /\ proc[Run].op = "create" /\ proc[Run].at = "end"
  /\ Becomes(Run, "generate", "end", "none")
  /\ UNCHANGED <<mode, store, cached, row, queued, failures>>

(* onStepFinish of a research run queues a progress write. *)
onStepFinish ==
  /\ mode = "research" /\ proc[Run].op = "generate"
  /\ queued < MaxQueued
  /\ queued' = queued + 1
  /\ UNCHANGED <<mode, store, cached, row, proc, failures>>

(* A background run asks between steps whether it was cancelled; told so,  *)
(* generateText returns.                                                   *)
stopCheck ==
  /\ InBackground /\ proc[Run].op = "generate"
  /\ Becomes(Run, "step", "lookup", "none")
  /\ UNCHANGED <<mode, store, cached, row, queued, failures>>

stopAnswer ==
  /\ proc[Run].op = "step" /\ proc[Run].at = "found"
  /\ IF proc[Run].status = "cancelled"
     THEN Becomes(Run, "final", "lookup", "none") ELSE Becomes(Run, "generate", "end", "none")
  /\ UNCHANGED <<mode, store, cached, row, queued, failures>>

(* generateText or the stream is through. *)
generationEnds ==
  /\ proc[Run].op = "generate"
  /\ IF InBackground THEN Becomes(Run, "final", "lookup", "none")
                     ELSE Becomes(Run, "save", "set", "completed")
  /\ UNCHANGED <<mode, store, cached, row, queued, failures>>

(* The check of line 206, then collector.flush. *)
finalAnswer ==
  /\ proc[Run].op = "final" /\ proc[Run].at = "found"
  /\ IF proc[Run].status = "cancelled" THEN Becomes(Run, "over", "end", "none")
                                       ELSE Becomes(Run, "flush", "end", "none")
  /\ UNCHANGED <<mode, store, cached, row, queued, failures>>

flush ==
  /\ proc[Run].op = "flush"
  /\ queued = 0 /\ proc[Progress] = Rest
  /\ Becomes(Run, "save", "set", "completed")
  /\ UNCHANGED <<mode, store, cached, row, queued, failures>>

(* Mutant: a background run has no catch. *)
generationFails_Uncaught ==
  /\ proc[Run].op = "generate"
  /\ IF InBackground THEN Becomes(Run, "over", "end", "none")
                     ELSE Becomes(Run, "save", "set", "failed")
  /\ UNCHANGED <<mode, store, cached, row, queued, failures>>

(* saveFailedResponse: without a look at the status, or at the queue. *)
generationFails ==
  /\ proc[Run].op = "generate"
  /\ Becomes(Run, "save", "set", "failed")
  /\ UNCHANGED <<mode, store, cached, row, queued, failures>>

(* stream.ts 230: the client of a stream is gone.  A stream that was idle  *)
(* for too long is not aborted but fails: util.ts 327.                     *)
streamAborted ==
  /\ mode = "stream" /\ proc[Run].op = "generate"
  /\ Becomes(Run, "aborted", "end", "none")
  /\ UNCHANGED <<mode, store, cached, row, queued, failures>>

saved ==
  /\ proc[Run].op = "save" /\ proc[Run].at = "end"
  /\ Becomes(Run, "over", "end", "none")
  /\ UNCHANGED <<mode, store, cached, row, queued, failures>>

(* The queue runs one write at a time: generate.ts 150-158. *)
publish ==
  /\ queued > 0 /\ proc[Progress] = Rest
  /\ queued' = queued - 1
  /\ Becomes(Progress, "publish", "lookup", "none")
  /\ UNCHANGED <<mode, store, cached, row, failures>>

publishFound ==
  /\ proc[Progress].at = "found"
  /\ Goes(Progress, IF proc[Progress].status \in {"none", "cancelled"} THEN "end" ELSE "set")
  /\ UNCHANGED <<mode, store, cached, row, queued, failures>>

(***************************************************************************)
(* Clients                                                                 *)
(***************************************************************************)

request(c, op) ==
  /\ Created
  /\ proc[c] = Rest
  /\ Becomes(c, op, IF op = "delete" THEN "set" ELSE "lookup", "none")
  /\ UNCHANGED <<mode, store, cached, row, queued, failures>>

cancel(c) ==
  /\ proc[c].op = "cancel" /\ proc[c].at = "found"
  /\ IF proc[c].status = "in_progress" THEN Becomes(c, "cancel", "set", "cancelled") ELSE Goes(c, "end")
  /\ UNCHANGED <<mode, store, cached, row, queued, failures>>

(* deleteResponse: a failure of either part is answered with an error. *)
deleteCached(c) ==
  /\ proc[c].op = "delete" /\ proc[c].at = "set"
  /\ \/ cached' = "none" /\ Goes(c, "erase") /\ UNCHANGED failures
     \/ Failure /\ Goes(c, "end") /\ UNCHANGED cached
  /\ UNCHANGED <<mode, store, row, queued>>

deletePersistedResponse(c) ==
  /\ proc[c].at = "erase"
  /\ Goes(c, "end")
  /\ \/ row' = "none" /\ UNCHANGED failures
     \/ Failure /\ UNCHANGED row
  /\ UNCHANGED <<mode, store, cached, queued>>

(* The call is answered, or the progress write is over. *)
answer(p) ==
  /\ p # Run /\ proc[p].op # "none"
  /\ proc[p].at = "end" \/ (proc[p].op = "get" /\ proc[p].at = "found")
  /\ proc' = [proc EXCEPT ![p] = Rest]
  /\ UNCHANGED <<mode, store, cached, row, queued, failures>>

(***************************************************************************)
(* Time and failure                                                        *)
(***************************************************************************)

(* responseTtlSeconds passes. *)
expires ==
  /\ cached # "none"
  /\ cached' = "none"
  /\ UNCHANGED <<mode, store, row, proc, queued, failures>>

(* The gateway stops; the cache of the process goes with it, a shared one  *)
(* stays.  Nothing resumes the generation or looks for its row.            *)
crash ==
  /\ Failure
  /\ proc' = [p \in Users |-> IF p = Run THEN [Rest EXCEPT !.op = "over"] ELSE Rest]
  /\ queued' = 0
  /\ cached' \in {cached, "none"}
  /\ UNCHANGED <<mode, store, row>>

StoreStep(p) ==
  \/ cacheHit(p) \/ loadResponse(p) \/ loadFails(p) \/ recache(p)
  \/ proc[p].op # "delete" /\ (cacheResponse(p) \/ cacheSetFails(p))
  \/ persist(p) \/ persistFails(p)
RunStep == startGeneration \/ stopAnswer \/ finalAnswer \/ flush \/ saved
ClientStep(c) == cancel(c) \/ deleteCached(c) \/ deletePersistedResponse(c)

ResponseNext ==
  \/ \E p \in Users : StoreStep(p) \/ answer(p)
  \/ RunStep \/ stopCheck \/ onStepFinish \/ generationEnds \/ generationFails \/ streamAborted
  \/ publish \/ publishFound
  \/ \E c \in Clients : ClientStep(c) \/ \E op \in {"get", "cancel", "delete"} : request(c, op)
  \/ expires \/ crash

ResponseSpec == ResponseInit /\ [][ResponseNext]_responseVars

(***************************************************************************)
(* Properties                                                              *)
(***************************************************************************)

(* persistence.ts 147-151: "a late completion cannot overwrite a           *)
(* cancellation", nor a cancellation an answer, nor anything bring back a  *)
(* row that was deleted, whoever saves late.                               *)
RowIsFinal ==
  [][Created /\ row # "in_progress" => row' \in {row, "none"}]_responseVars

(* generate.ts 36: "Settles the row a failed run would otherwise leave     *)
(* sitting at in_progress."  Every response is settled or deleted in the   *)
(* end, cancelled and failed runs too, unless a write failed, the gateway  *)
(* stopped or a stream was aborted.                                        *)
ResponseSettles ==
  (row = "in_progress") ~> (row # "in_progress" \/ failures > 0 \/ proc[Run].op = "aborted")

(* A cancellation is in the cache and on its way to the row. *)
Cancels(call) == call.op = "cancel" /\ call.at = "persist" /\ call.status = "cancelled"
Cancelling == \E c \in Clients : Cancels(proc[c])

(* generate.ts 36 and 200-240, handle-responses.ts 240-250: a run that is  *)
(* over has settled its row, or has left it to a cancellation that will,   *)
(* unless a write failed or the gateway stopped; this is what              *)
(* ResponseSettles rests on.                                               *)
NoRowAbandoned ==
  proc[Run].op = "over" /\ row = "in_progress" /\ failures = 0 => Cancelling
=============================================================================
