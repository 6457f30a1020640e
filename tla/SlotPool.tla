------------------------------ MODULE SlotPool ------------------------------
(***************************************************************************)
(* What a bounded pool of slots promises its callers: never more holders   *)
(* than slots, a caller queues only while every slot is held, a slot that  *)
(* comes free goes to a queued caller before it goes back to the pool, and *)
(* a queued caller may be refused but is never forgotten.                  *)
(* Semaphore (xinity-ai-gateway/src/semaphore.ts) implements it.           *)
(***************************************************************************)
EXTENDS Naturals, FiniteSets

CONSTANTS Callers, Limit

VARIABLES holders, queued

poolVars == <<holders, queued>>

PoolInit == holders = {} /\ queued = {}

Take(c) ==
  /\ c \notin holders \cup queued
  /\ Cardinality(holders) < Limit
  /\ holders' = holders \cup {c}
  /\ UNCHANGED queued

Queue(c) ==
  /\ c \notin holders \cup queued
  /\ Cardinality(holders) = Limit
  /\ queued' = queued \cup {c}
  /\ UNCHANGED holders

Refuse(c) ==
  /\ c \in queued
  /\ queued' = queued \ {c}
  /\ UNCHANGED holders

GiveBack(c) ==
  /\ c \in holders
  /\ queued = {}
  /\ holders' = holders \ {c}
  /\ UNCHANGED queued

HandOver(c, d) ==
  /\ c \in holders
  /\ d \in queued
  /\ holders' = (holders \ {c}) \cup {d}
  /\ queued' = queued \ {d}

PoolNext ==
  \E c \in Callers :
    Take(c) \/ Queue(c) \/ Refuse(c) \/ GiveBack(c) \/ \E d \in Callers : HandOver(c, d)

PoolSpec == PoolInit /\ [][PoolNext]_poolVars
=============================================================================
