---------------------------- MODULE RequestFlow ----------------------------
(***************************************************************************)
(* A gateway request from routing to release: getModelInfo in              *)
(* llm-forward/model-data.ts, host selection and admission in              *)
(* llm-forward/load-balancer.ts, the counters of cache.ts, and withMetrics *)
(* in metrics.ts, which releases when the answer, the stream, the          *)
(* background run or the realtime turn has ended.                          *)
(*                                                                         *)
(* How a strategy ranks hosts, and the connections least-connections       *)
(* counts for it, are left out: any candidate may be picked.               *)
(* A counter's lifetime may end whenever it has one.                       *)
(***************************************************************************)
EXTENDS Integers, FiniteSets

CONSTANTS
  Requests,     \* requests under way at the same time
  Hosts,        \* nodes with a ready installation of the deployment
  Placements,   \* where its models may be: sets of hosts by role, no early one without a canary
  MaxNumSeqs,   \* what an engine runs at once
  MaxFaults,    \* bound on counters expiring and DECRs failing
  NoHost

ASSUME FlowAssumption ==
  /\ MaxNumSeqs \in Nat \ {0} /\ MaxFaults \in Nat /\ NoHost \notin Hosts
  /\ IsFiniteSet(Requests)

Roles == {"final", "early"}
Installations == Hosts \X Roles

ASSUME PlacementAssumption == Placements \subseteq [Roles -> SUBSET Hosts]

VARIABLES
  placed,    \* the placement the requests are routed by
  backend,   \* the cache there is: redis, or in the gateway's memory
  req,       \* each request: phase, host, role, hosts found full, what it holds
  count,     \* the cache's counters, 0 when there is no key
  lifetime,  \* absent, running, or none: a key DECR made
  missed,    \* history: holders a counter lost by expiry, less those let go of uncounted
  faults     \* how many counters expired and DECRs failed

requestVars == <<placed, backend, req, count, lifetime, missed, faults>>

Idle == [phase |-> "idle", host |-> NoHost, role |-> "final", full |-> {}, holds |-> {}]

RequestTypeOK ==
  /\ placed \in Placements
  /\ backend \in {"redis", "memory"}
  /\ req \in [Requests -> [phase : {"idle", "selecting", "admitting", "resolving", "serving"},
                           host : Hosts \cup {NoHost}, role : Roles,
                           full : SUBSET Hosts, holds : SUBSET Installations]]
  /\ count \in [Installations -> Int]
  /\ lifetime \in [Installations -> {"absent", "running", "none"}]
  /\ missed \in [Installations -> Int]
  /\ faults \in 0 .. MaxFaults

RequestInit ==
  /\ placed \in Placements
  /\ backend \in {"redis", "memory"}
  /\ req = [r \in Requests |-> Idle]
  /\ count = [k \in Installations |-> 0]
  /\ lifetime = [k \in Installations |-> "absent"]
  /\ missed = [k \in Installations |-> 0]
  /\ faults = 0

(* load-balancer.ts 270-272: the batch and a quarter of it, at least one. *)
admissionLimit(n) == n + (IF n < 4 THEN 1 ELSE (n + 3) \div 4)

AdmissionLimit == admissionLimit(MaxNumSeqs)

(* On a key that is gone Redis' DECR makes one that has no lifetime, and   *)
(* the cache in memory does nothing.                                       *)
decrCounts(k) == backend = "redis" \/ lifetime[k] # "absent"

(* The release functions of a request, each of which lets go once, whoever *)
(* calls them first: every counter it holds gets one decr, which may fail. *)
Release(r) ==
  \E failed \in SUBSET req[r].holds :
    LET uncounted == failed \cup {k \in req[r].holds : ~decrCounts(k)}
        done == req[r].holds \ uncounted IN
    /\ faults + Cardinality(failed) <= MaxFaults
    /\ faults' = faults + Cardinality(failed)
    /\ count' = [k \in Installations |-> IF k \in done THEN count[k] - 1 ELSE count[k]]
    /\ lifetime' = [k \in Installations |->
                      IF k \in done /\ lifetime[k] = "absent" THEN "none" ELSE lifetime[k]]
    /\ missed' = [k \in Installations |-> IF k \in uncounted THEN missed[k] - 1 ELSE missed[k]]

getModelInfo(r) ==
  /\ req[r].phase = "idle"
  /\ req' = [req EXCEPT ![r] = [Idle EXCEPT !.phase = "selecting"]]
  /\ UNCHANGED <<count, lifetime, missed, faults>>

HostsLeft(r, role) == placed[role] \ req[r].full
Other(role) == IF role = "final" THEN "early" ELSE "final"

(* load-balancer.ts 210-221: the side the roll picks, or the other one     *)
(* when that has no host left.                                             *)
chooseFinalModel(r, role) ==
  \/ role = "final" /\ placed["early"] = {}
  \/ placed["early"] # {} /\ HostsLeft(r, role) # {}
  \/ placed["early"] # {} /\ HostsLeft(r, Other(role)) = {}

(* selectHost: any host left of the chosen side. *)
selectHost(r) ==
  /\ req[r].phase = "selecting"
  /\ \E role \in Roles, h \in Hosts :
       /\ chooseFinalModel(r, role)
       /\ h \in HostsLeft(r, role)
       /\ req' = [req EXCEPT ![r].phase = "admitting", ![r].host = h, ![r].role = role]
  /\ UNCHANGED <<count, lifetime, missed, faults>>

(* No candidate: "busy" when a host was full, "unavailable" otherwise. *)
refuse(r) ==
  /\ req[r].phase = "selecting"
  /\ \E role \in Roles : chooseFinalModel(r, role) /\ HostsLeft(r, role) = {}
  /\ req' = [req EXCEPT ![r] = Idle]
  /\ UNCHANGED <<count, lifetime, missed, faults>>

(* model-data.ts 310: by host, the final side's installation first. *)
Location(r) == <<req[r].host, IF req[r].host \in placed["final"] THEN "final" ELSE "early">>

(* Mutant: the limit is compared after the count. *)
Full_OffByOne(k) == count[k] > AdmissionLimit

(* TRY_INCR_SCRIPT 23-30. *)
Full(k) == count[k] >= AdmissionLimit

admitted(r) ==
  /\ req[r].phase = "admitting"
  /\ ~Full(Location(r))
  /\ count' = [count EXCEPT ![Location(r)] = @ + 1]
  /\ lifetime' = [lifetime EXCEPT ![Location(r)] = "running"]
  /\ req' = [req EXCEPT ![r].phase = "resolving", ![r].full = {},
                        ![r].holds = @ \cup {Location(r)}]
  /\ UNCHANGED <<missed, faults>>

(* No limit is known, or the cache failed: admitted without being counted. *)
admittedUncounted(r) ==
  /\ req[r].phase = "admitting"
  /\ req' = [req EXCEPT ![r].phase = "resolving", ![r].full = {}]
  /\ UNCHANGED <<count, lifetime, missed, faults>>

(* model-data.ts 321-322. *)
notAdmitted(r) ==
  /\ req[r].phase = "admitting"
  /\ Full(Location(r))
  /\ Release(r)
  /\ req' = [req EXCEPT ![r].phase = "selecting", ![r].holds = {},
                        ![r].full = @ \cup {req[r].host}]

(* Mutant: a failed catalog look-up forgets what was acquired. *)
catalogFails_NoRelease(r) ==
  /\ req[r].phase = "resolving"
  /\ req' = [req EXCEPT ![r] = Idle]
  /\ UNCHANGED <<count, lifetime, missed, faults>>

catalogFails(r) ==
  /\ req[r].phase = "resolving"
  /\ Release(r)
  /\ req' = [req EXCEPT ![r] = Idle]

catalogAnswers(r) ==
  /\ req[r].phase = "resolving"
  /\ req' = [req EXCEPT ![r].phase = "serving"]
  /\ UNCHANGED <<count, lifetime, missed, faults>>

(* withMetrics' cleanup, a background run's finally, a realtime turn's end. *)
finish(r) ==
  /\ req[r].phase = "serving"
  /\ Release(r)
  /\ req' = [req EXCEPT ![r] = Idle]

(* CONN_SAFETY_TTL passes without a new holder. *)
counterExpires(k) ==
  /\ lifetime[k] = "running"
  /\ faults < MaxFaults /\ faults' = faults + 1
  /\ lifetime' = [lifetime EXCEPT ![k] = "absent"]
  /\ count' = [count EXCEPT ![k] = 0]
  /\ missed' = [missed EXCEPT ![k] = @ + count[k]]
  /\ UNCHANGED req

LookupStep(r) ==
  \/ selectHost(r) \/ refuse(r)
  \/ admitted(r) \/ admittedUncounted(r) \/ notAdmitted(r)
  \/ catalogFails(r) \/ catalogAnswers(r)

RequestNext ==
  /\ UNCHANGED <<placed, backend>>
  /\ \/ \E r \in Requests : getModelInfo(r) \/ LookupStep(r) \/ finish(r)
     \/ \E k \in Installations : counterExpires(k)

RequestSpec == RequestInit /\ [][RequestNext]_requestVars

(***************************************************************************)
(* Properties                                                              *)
(***************************************************************************)

Holders(k) == {r \in Requests : k \in req[r].holds}

(* load-balancer.ts 68-86, 275-294 and every path of getModelInfo: each    *)
(* holder is counted once and let go once, whatever fails on the way; a    *)
(* counter is off by exactly what an expiry dropped and a decr that failed *)
(* or found no counter left.                                               *)
HoldersAreCounted ==
  \A k \in Installations : count[k] = Cardinality(Holders(k)) - missed[k]

(* docs/features/gateway.md 25: "Each vLLM installation takes as many      *)
(* requests as it runs at once, plus a short queue", as long as no counter *)
(* expired under a request it counted.                                     *)
AdmissionBounded ==
  \A i \in Installations : missed[i] <= 0 => Cardinality(Holders(i)) <= AdmissionLimit
=============================================================================
