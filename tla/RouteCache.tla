----------------------------- MODULE RouteCache -----------------------------
(***************************************************************************)
(* The gateway's two routing caches, llm-forward/model-data.ts and         *)
(* llm-forward/cache-invalidation.ts.  A request reads the deployment from *)
(* the shared cache (Redis or in process) and then where the model is      *)
(* installed from a map of the process; both are filled by queries and     *)
(* emptied by Postgres notifications.  A query in flight while its cache   *)
(* is emptied may bring an old answer: the map is guarded by a generation, *)
(* the shared cache only by its entries' lifetime.                         *)
(*                                                                         *)
(* Rows are versions: a change makes the next one.  One deployment stands  *)
(* for all, as every notification empties everything.                      *)
(***************************************************************************)
EXTENDS Naturals, Sequences

CONSTANTS
  Lookups,      \* requests being routed at the same time
  MaxChanges,   \* bound on the versions of each table
  MaxCommands   \* bound on the commands on their way to the shared cache

ASSUME RouteAssumption == MaxChanges \in Nat \ {0} /\ MaxCommands \in Nat \ {0}

Tables == {"deployment", "sources"}
Versions == 0 .. MaxChanges
NoEntry == MaxChanges + 1
Clear == MaxChanges + 2   \* a delPrefix among the commands; other commands are the version they set

VARIABLES
  version,     \* the tables' committed versions
  listening,   \* the subscriptions are up
  notified,    \* tables with a notification on its way to the gateway
  commands,    \* set and delPrefix commands sent to the shared cache, in order
  shared,      \* the shared cache's entry for the deployment
  sources,     \* modelSourcesCache's entry
  generation,  \* sourcesGeneration
  lookup       \* each request: its stage, the version it read, and the generation it noted

routeVars == <<version, listening, notified, commands, shared, sources, generation, lookup>>

NoLookup == [stage |-> "idle", read |-> 0, noted |-> 0]

RouteTypeOK ==
  /\ version \in [Tables -> Versions]
  /\ listening \in BOOLEAN
  /\ notified \subseteq Tables
  /\ commands \in Seq(Versions \cup {Clear})
  /\ shared \in Versions \cup {NoEntry}
  /\ sources \in Versions \cup {NoEntry}
  /\ generation \in Nat
  /\ lookup \in [Lookups -> [stage : {"idle", "deployment", "row", "sources", "querying", "answered"},
                             read : Versions, noted : Nat]]

RouteInit ==
  /\ version = [t \in Tables |-> 0]
  /\ listening = TRUE
  /\ notified = {}
  /\ commands = <<>>
  /\ shared = NoEntry
  /\ sources = NoEntry
  /\ generation = 0
  /\ lookup = [l \in Lookups |-> NoLookup]

Enter(l, stage) == lookup' = [lookup EXCEPT ![l].stage = stage]
Send(command) == Len(commands) < MaxCommands /\ commands' = Append(commands, command)

(* publicModelSpecifierToModelSource begins with the cache. *)
route(l) ==
  /\ lookup[l].stage = "idle"
  /\ Enter(l, "deployment")
  /\ UNCHANGED <<version, listening, notified, commands, shared, sources, generation>>

(* An entry answers. *)
deploymentCached(l) ==
  /\ lookup[l].stage = "deployment"
  /\ shared # NoEntry
  /\ Enter(l, "sources")
  /\ UNCHANGED <<version, listening, notified, commands, shared, sources, generation>>

(* No entry, or the cache fails: Postgres runs the query. *)
queryDeployment(l) ==
  /\ lookup[l].stage = "deployment"
  /\ lookup' = [lookup EXCEPT ![l].stage = "row", ![l].read = version["deployment"]]
  /\ UNCHANGED <<version, listening, notified, commands, shared, sources, generation>>

(* The row reaches the process: a set is sent that nobody waits for. *)
storeDeployment(l) ==
  /\ lookup[l].stage = "row"
  /\ Enter(l, "sources")
  /\ Send(lookup[l].read)
  /\ UNCHANGED <<version, listening, notified, shared, sources, generation>>

(* getModelSources 149-156. *)
findSources(l) ==
  /\ lookup[l].stage = "sources"
  /\ \/ /\ sources # NoEntry
        /\ lookup' = [lookup EXCEPT ![l] = NoLookup]
     \/ /\ sources = NoEntry
        /\ lookup' = [lookup EXCEPT ![l].stage = "querying", ![l].noted = generation]
  /\ UNCHANGED <<version, listening, notified, commands, shared, sources, generation>>

(* Postgres runs the query. *)
querySources(l) ==
  /\ lookup[l].stage = "querying"
  /\ lookup' = [lookup EXCEPT ![l].stage = "answered", ![l].read = version["sources"]]
  /\ UNCHANGED <<version, listening, notified, commands, shared, sources, generation>>

(* Mutant: the answer is stored whatever happened since the query. *)
storeSources_Unguarded(l) ==
  /\ lookup[l].stage = "answered"
  /\ sources' = lookup[l].read
  /\ lookup' = [lookup EXCEPT ![l] = NoLookup]
  /\ UNCHANGED <<version, listening, notified, commands, shared, generation>>

(* getModelSources 184-195: the answer reaches the process. *)
storeSources(l) ==
  /\ lookup[l].stage = "answered"
  /\ sources' = IF lookup[l].noted = generation THEN lookup[l].read ELSE sources
  /\ lookup' = [lookup EXCEPT ![l] = NoLookup]
  /\ UNCHANGED <<version, listening, notified, commands, shared, generation>>

invalidateModelSources == generation' = generation + 1 /\ sources' = NoEntry
invalidateDeployments == Send(Clear)

(* A notification arrives: cache-invalidation.ts 24-25. *)
onChange(t) ==
  /\ t \in notified
  /\ notified' = notified \ {t}
  /\ \/ t = "sources" /\ invalidateModelSources /\ UNCHANGED commands
     \/ t = "deployment" /\ invalidateDeployments /\ UNCHANGED <<sources, generation>>
  /\ UNCHANGED <<version, listening, shared, lookup>>

(* postgres.js is connected again and calls onSubscribed of each channel. *)
resubscribe ==
  /\ ~listening
  /\ listening' = TRUE
  /\ invalidateModelSources
  /\ invalidateDeployments
  /\ UNCHANGED <<version, notified, shared, lookup>>

(* The next command reaches the shared cache, or fails and is logged. *)
sharedCommand ==
  /\ commands # <<>>
  /\ commands' = Tail(commands)
  /\ shared' \in {IF Head(commands) = Clear THEN NoEntry ELSE Head(commands), shared}
  /\ UNCHANGED <<version, listening, notified, sources, generation, lookup>>

sharedExpires ==
  /\ shared # NoEntry
  /\ shared' = NoEntry
  /\ UNCHANGED <<version, listening, notified, commands, sources, generation, lookup>>

sourcesExpire ==
  /\ sources # NoEntry
  /\ sources' = NoEntry
  /\ UNCHANGED <<version, listening, notified, commands, shared, generation, lookup>>

(* Dashboard and tether commit a change; its trigger notifies whoever      *)
(* listens at that moment.                                                 *)
changeTable(t) ==
  /\ version[t] < MaxChanges
  /\ version' = [version EXCEPT ![t] = @ + 1]
  /\ notified' = IF listening THEN notified \cup {t} ELSE notified
  /\ UNCHANGED <<listening, commands, shared, sources, generation, lookup>>

(* The connection that listens is lost, and the notifications on it. *)
connectionLost ==
  /\ listening
  /\ generation < MaxChanges + 1   \* bounds reconnections
  /\ listening' = FALSE
  /\ notified' = {}
  /\ UNCHANGED <<version, commands, shared, sources, generation, lookup>>

RouteNext ==
  \/ \E l \in Lookups : \/ route(l) \/ deploymentCached(l) \/ queryDeployment(l) \/ storeDeployment(l)
                        \/ findSources(l) \/ querySources(l) \/ storeSources(l)
  \/ \E t \in Tables : onChange(t) \/ changeTable(t)
  \/ resubscribe \/ connectionLost
  \/ sharedCommand \/ sharedExpires \/ sourcesExpire

RouteSpec == RouteInit /\ [][RouteNext]_routeVars

(***************************************************************************)
(* Properties                                                              *)
(***************************************************************************)

(* model-data.ts 55-58: "a query that was already in flight cannot write   *)
(* its now-stale result into the cache it raced."  Once the last           *)
(* notification is handled, or the subscription is back, requests are      *)
(* routed by the installations as they are, not by an older answer.        *)
QuietSourcesAreCurrent ==
  listening /\ "sources" \notin notified =>
    sources \in {NoEntry, version["sources"]}

(* What a query in flight may store is no older than the notification that *)
(* would clear it.                                                         *)
AnswerOlderIsDiscarded ==
  \A l \in Lookups :
    lookup[l].stage = "answered" /\ lookup[l].noted = generation
      /\ listening /\ "sources" \notin notified
      => lookup[l].read = version["sources"]
=============================================================================
