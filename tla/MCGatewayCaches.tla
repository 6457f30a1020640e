-------------------------- MODULE MCGatewayCaches --------------------------
(***************************************************************************)
(* What a gateway shares between its requests, for TLC: the two caches     *)
(* they are let in and routed by, and the queue their records leave by.    *)
(* The parts share no state, so each behaviour is one of one part while    *)
(* the others rest.                                                        *)
(***************************************************************************)
EXTENDS KeyAuth, RouteCache, RecordBatch

VARIABLE part   \* the part that moves

cachesVars == <<part, keyAuthVars, routeVars, recordVars>>

CachesInit ==
  /\ part \in {"auth", "routing", "records"}
  /\ AuthInit /\ RouteInit /\ RecordInit
  \* at rest one initial state is enough
  /\ part # "auth" => LET k == CHOOSE k \in Keys : TRUE IN
                        /\ keyRow = [c \in Keys |-> "good"]
                        /\ check = [r \in Checks |-> [key |-> k, phase |-> "refused"]]

CachesNext ==
  \/ part = "auth" /\ AuthNext /\ UNCHANGED <<part, routeVars, recordVars>>
  \/ part = "routing" /\ RouteNext /\ UNCHANGED <<part, keyAuthVars, recordVars>>
  \/ part = "records" /\ RecordNext /\ UNCHANGED <<part, keyAuthVars, routeVars>>

(* AuthFairness while the key check moves. *)
CachesFairness ==
  /\ \A r \in Checks : SF_keyAuthVars(part = "auth" /\ (keyCached(r) \/ joinVerification(r)))
  /\ \A k \in Keys : /\ WF_keyAuthVars(part = "auth" /\ verificationBusy(k))
                     /\ WF_keyAuthVars(part = "auth" /\ (readKey(k) \/ queryFails(k)))
                     /\ WF_keyAuthVars(part = "auth" /\ verdictReached(k))
                     /\ WF_keyAuthVars(part = "auth" /\ setApiKeyCache(k))
                     /\ WF_keyAuthVars(part = "auth" /\ keyExpires(k))

CachesSpec == CachesInit /\ [][CachesNext]_cachesVars /\ CachesFairness
=============================================================================
