--------------------------- MODULE CacheEviction ---------------------------
(***************************************************************************)
(* The model cache of a daemon and the room in it (cache-eviction.ts, and  *)
(* downloadModel of vllm-download.ts): a sync downloads the models of all  *)
(* its new installations at once, and each download measures the disk,     *)
(* plans which caches to remove, removes them one by one and then writes.  *)
(*                                                                         *)
(* Bytes are units of a disk that holds nothing but the cache.  A          *)
(* directory's age is its place in order: mtime moves when it is made.     *)
(* Every installation the daemon knows is a current one, so a cache with   *)
(* an installation is never a candidate and the date of a deletion decides *)
(* nothing.  One installation of each model.                               *)
(***************************************************************************)
EXTENDS Integers, Sequences, SequencesExt, FiniteSets

CONSTANTS
  Models,
  Size,     \* of each model's files
  Disk,     \* size of the disk
  Margin,   \* SAFETY_MARGIN_BYTES
  MaxShifts \* bound on the changes of desired state and catalog

ASSUME EvictionAssumption ==
  /\ IsFiniteSet(Models)
  /\ Size \in [Models -> Nat \ {0}]
  /\ Disk \in Nat /\ Margin \in Nat /\ MaxShifts \in Nat

VARIABLES
  cached,      \* bytes in each model's directory
  order,       \* the directories, oldest first
  desired,     \* models of getDesiredInstallations
  unknown,     \* models that no catalog knows
  shifts,      \* changes so far
  job,         \* the download of each model
  steady       \* history: models desired and known all the time

evictionVars == <<cached, order, desired, unknown, shifts, job, steady>>

NoJob == [at |-> "idle", free |-> 0, required |-> 0, entries |-> <<>>,
          sizes |-> [m \in Models |-> 0], needed |-> {}, evict |-> <<>>, planned |-> 0]

(* What files of these sizes take together: the number of their bytes. *)
Bytes(sizes, models) == Cardinality(UNION {{m} \X (1 .. sizes[m]) : m \in models})

Free == Disk - Bytes(cached, Models)

Working(m) == job[m].at \notin {"idle", "done", "failed"}

EvictionInit ==
  /\ \E kept \in SUBSET Models :
       /\ cached = [m \in Models |-> IF m \in kept THEN Size[m] ELSE 0]
       /\ order \in SetToSeqs(kept)
  /\ Free >= 0
  /\ desired \in SUBSET Models
  /\ unknown = {}
  /\ shifts = 0
  /\ job = [m \in Models |-> NoJob]
  /\ steady = desired

(* A desired state arrives; one that drops an installation lets it be      *)
(* tried again later.                                                      *)
setDesired ==
  /\ shifts < MaxShifts /\ shifts' = shifts + 1
  /\ desired' \in SUBSET Models \ {desired}
  /\ steady' = steady \cap desired'
  /\ job' = [m \in Models |-> IF m \in desired' \/ Working(m) THEN job[m] ELSE NoJob]
  /\ UNCHANGED <<cached, order, unknown>>

(* A model leaves the catalog. *)
leavesCatalog ==
  /\ shifts < MaxShifts /\ shifts' = shifts + 1
  /\ \E m \in Models \ unknown : unknown' = unknown \cup {m} /\ steady' = steady \ {m}
  /\ UNCHANGED <<cached, order, desired, job>>

(* downloadModel up to getDirSize: the directory is there from now on. *)
downloadModel(m) ==
  /\ job[m].at = "idle" /\ m \in desired /\ m \notin unknown
  /\ order' = IF Contains(order, m) THEN order ELSE Append(order, m)
  /\ job' = [job EXCEPT ![m].at = "measuring", ![m].required = Size[m] - cached[m]]
  /\ UNCHANGED <<cached, desired, unknown, shifts, steady>>

needsCacheSpace(required, free) == required > 0 /\ free < required + Margin

(* getDiskFree. *)
measure(m) ==
  /\ job[m].at = "measuring"
  /\ job' = [job EXCEPT ![m] = IF needsCacheSpace(job[m].required, Free)
                                THEN [@ EXCEPT !.at = "listing", !.free = Free]
                                ELSE [NoJob EXCEPT !.at = "writing"]]
  /\ UNCHANGED <<cached, order, desired, unknown, shifts, steady>>

(* listCacheEntries, and the installations of this moment. *)
listCacheEntries(m) ==
  /\ job[m].at = "listing"
  /\ job' = [job EXCEPT ![m] = [@ EXCEPT !.at = "resolving", !.entries = order, !.sizes = cached,
                                         !.needed = desired]]
  /\ UNCHANGED <<cached, order, desired, unknown, shifts, steady>>

candidatesUnprotected(j, reserved, needed) == ToSet(j.entries) \ {reserved}

candidates(j, reserved, needed) == {e \in ToSet(j.entries) : e # reserved /\ e \notin needed}

Suffices(j, freed) == j.free + freed >= j.required + Margin

NoPlan == [evict |-> <<>>, freed |-> 0]

(* One turn of planEviction's loop: e is left, or removed for its bytes. *)
PlanEntry(j, stale, e, p) ==
  IF e \notin stale \/ Suffices(j, p.freed) THEN p
  ELSE [evict |-> Append(p.evict, e), freed |-> p.freed + j.sizes[e]]

(* The loop over the candidates in a row of entries. *)
PlanRow(j, stale, row) ==
  LET plans[i \in 0 .. Len(row)] ==
        IF i = 0 THEN NoPlan ELSE PlanEntry(j, stale, row[i], plans[i - 1])
  IN plans[Len(row)]

planNewestFirst(j, stale) == PlanRow(j, stale, Reverse(j.entries))

planEviction(j, stale) == PlanRow(j, stale, j.entries)

(* The installations are resolved: one that no catalog knows is left out.  *)
(* Then the plan, which does not suffice or is carried out.                *)
plan(m) ==
  /\ job[m].at = "resolving"
  /\ LET j == job[m]
         p == planEviction(j, candidates(j, m, j.needed \ unknown)) IN
       job' = [job EXCEPT ![m] =
                 IF Suffices(j, p.freed)
                 THEN [j EXCEPT !.at = "evicting", !.needed = j.needed \ unknown,
                               !.evict = p.evict, !.planned = Len(p.evict)]
                 ELSE [NoJob EXCEPT !.at = "failed"]]
  /\ UNCHANGED <<cached, order, desired, unknown, shifts, steady>>

(* The catalog or the disk cannot be read. *)
planFails(m) ==
  /\ job[m].at \in {"measuring", "resolving", "evicting"}
  /\ job' = [job EXCEPT ![m] = [NoJob EXCEPT !.at = "failed"]]
  /\ UNCHANGED <<cached, order, desired, unknown, shifts, steady>>

(* rm of one entry; a download into that directory fails. *)
evict(m) ==
  /\ job[m].at = "evicting" /\ job[m].evict # <<>>
  /\ LET e == Head(job[m].evict)
         left == [job EXCEPT ![m].evict = Tail(@)] IN
       /\ cached' = [cached EXCEPT ![e] = 0]
       /\ order' = RemoveFirst(order, e)
       /\ job' = IF Working(e) THEN [left EXCEPT ![e] = [NoJob EXCEPT !.at = "failed"]] ELSE left
  /\ UNCHANGED <<desired, unknown, shifts, steady>>

evicted(m) ==
  /\ job[m].at = "evicting" /\ job[m].evict = <<>>
  /\ job' = [job EXCEPT ![m] = [NoJob EXCEPT !.at = "writing"]]
  /\ UNCHANGED <<cached, order, desired, unknown, shifts, steady>>

write(m) ==
  /\ job[m].at = "writing" /\ cached[m] < Size[m] /\ Free > 0
  /\ cached' = [cached EXCEPT ![m] = @ + 1]
  /\ UNCHANGED <<order, desired, unknown, shifts, job, steady>>

downloadComplete(m) ==
  /\ job[m].at = "writing" /\ cached[m] = Size[m]
  /\ job' = [job EXCEPT ![m] = [NoJob EXCEPT !.at = "done"]]
  /\ UNCHANGED <<cached, order, desired, unknown, shifts, steady>>

DiskFull(m) == job[m].at = "writing" /\ cached[m] < Size[m] /\ Free = 0

(* An error ends the download, a full disk among them; what it wrote stays. *)
downloadFails(m) ==
  /\ job[m].at = "writing"
  /\ job' = [job EXCEPT ![m] = [NoJob EXCEPT !.at = "failed"]]
  /\ UNCHANGED <<cached, order, desired, unknown, shifts, steady>>

JobStep(m) ==
  \/ downloadModel(m) \/ measure(m) \/ listCacheEntries(m) \/ plan(m) \/ planFails(m)
  \/ evict(m) \/ evicted(m) \/ write(m) \/ downloadComplete(m) \/ downloadFails(m)

EvictionNext == setDesired \/ leavesCatalog \/ \E m \in Models : JobStep(m)

EvictionSpec == EvictionInit /\ [][EvictionNext]_evictionVars

(***************************************************************************)
(* Properties                                                              *)
(***************************************************************************)

LeastPlan(m, j) ==
  LET evictable == {e \in Models : Contains(j.entries, e) /\ e # m /\ e \notin j.needed}
      age(e) == CHOOSE i \in DOMAIN j.entries : j.entries[i] = e
      chosen == ToSet(j.evict) IN
  /\ chosen \subseteq evictable
  /\ \A e \in chosen, f \in evictable : age(f) < age(e) => f \in chosen
  /\ Suffices(j, Bytes(j.sizes, chosen))
  /\ ~Suffices(j, Bytes(j.sizes, chosen \ {Last(j.evict)}))

(* cache-eviction.ts 117-148: what a download has planned to remove is the *)
(* shortest row of stale caches, oldest first, that makes the room: it     *)
(* suffices, it would not without its last, and no stale cache older than  *)
(* one in it is left out.                                                  *)
PlanIsLeast ==
  \A m \in Models :
    job[m].at = "evicting" /\ Len(job[m].evict) = job[m].planned => LeastPlan(m, job[m])

(* cache-eviction.ts 123-130 and 171-187: whatever downloads overlap and   *)
(* whichever desired states come and go, the cache of a model that stays   *)
(* desired and known never loses a byte.                                   *)
SteadyCacheStays == [][\A m \in steady' : cached'[m] >= cached[m]]_evictionVars

(* cache-eviction.ts 152: "The margin keeps a download from filling the    *)
(* disk as it writes."                                                     *)
DownloadFindsRoom == \A m \in Models : ~DiskFull(m)
=============================================================================
