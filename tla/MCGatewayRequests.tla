------------------------- MODULE MCGatewayRequests -------------------------
(***************************************************************************)
(* What a gateway request holds while it runs and leaves behind when it is *)
(* over, for TLC: admission, stored responses and realtime sessions.  They *)
(* share no state, so each behaviour is one of one part while the others   *)
(* rest.                                                                   *)
(***************************************************************************)
EXTENDS RequestFlow, StoredResponse, RealtimeSession

CONSTANTS h1, h2   \* hosts

VARIABLE part      \* the part that moves

partsVars == <<part, requestVars, responseVars, sessionVars>>

(* A canary on two hosts, and a model on one host without a canary. *)
HostPlacements == {[final |-> {h1}, early |-> {h2}], [final |-> {h1}, early |-> {}]}

PartsInit ==
  /\ part \in {"admission", "response", "session"}
  /\ RequestInit /\ ResponseInit /\ SessionInit
  \* at rest one initial state is enough
  /\ part # "admission" => placed["early"] = {} /\ backend = "redis"
  /\ part # "response" => mode = "blocking" /\ store

PartsNext ==
  \/ part = "admission" /\ RequestNext /\ UNCHANGED <<part, responseVars, sessionVars>>
  \/ part = "response" /\ ResponseNext /\ UNCHANGED <<part, requestVars, sessionVars>>
  \/ part = "session" /\ SessionNext /\ UNCHANGED <<part, requestVars, responseVars>>

(* Calls to the cache and to Postgres end, and a model does not answer     *)
(* step after step for ever.  SessionFairness while a session moves.       *)
PartsFairness ==
  /\ \A p \in Users : /\ WF_responseVars(part = "response" /\ StoreStep(p))
                      /\ WF_responseVars(part = "response" /\ answer(p))
  /\ WF_responseVars(part = "response" /\ RunStep)
  /\ WF_responseVars(part = "response" /\ (publish \/ publishFound))
  /\ SF_responseVars(part = "response" /\ (generationEnds \/ generationFails \/ streamAborted))
  /\ WF_sessionVars(part = "session" /\ Handler)
  /\ \A t \in Turns : /\ WF_sessionVars(part = "session" /\ Resolution(t))
                      /\ WF_sessionVars(part = "session" /\ silence(t))
                      /\ WF_sessionVars(part = "session" /\ watchdog(t))

PartsSpec == PartsInit /\ [][PartsNext]_partsVars /\ PartsFairness
=============================================================================
