----------------------------- MODULE Semaphore -----------------------------
(***************************************************************************)
(* The gateway's counting semaphore, xinity-ai-gateway/src/semaphore.ts.   *)
(* A waiter is a closure in a queue: it takes the slot it is offered or,   *)
(* when its timer has fired, lets it pass.  The closure of a waiter that   *)
(* timed out stays in the queue until a release reaches it.                *)
(***************************************************************************)
EXTENDS Naturals, Sequences, FiniteSets

CONSTANTS
  Callers,      \* who may hold a slot, one at a time each
  Limit,        \* createSemaphore's argument
  MaxWaiting    \* bound on the queue of closures

ASSUME LimitAssumption == Limit \in Nat \ {0} /\ MaxWaiting \in Nat

TimedOut == "timed out"   \* a closure whose pending flag is false

ASSUME CallersAssumption == IsFiniteSet(Callers) /\ TimedOut \notin Callers

VARIABLES
  active,    \* the counter
  waiting,   \* the queue of closures, each named by its caller
  call       \* what each caller's last acquire came to

semVars == <<active, waiting, call>>

SemTypeOK ==
  /\ active \in Nat
  /\ waiting \in Seq(Callers \cup {TimedOut})
  /\ call \in [Callers -> {"none", "waiting", "holding"}]

SemInit ==
  /\ active = 0
  /\ waiting = <<>>
  /\ call = [c \in Callers |-> "none"]

acquire(c) ==
  /\ call[c] = "none"
  /\ \/ /\ active < Limit
        /\ active' = active + 1
        /\ call' = [call EXCEPT ![c] = "holding"]
        /\ UNCHANGED waiting
     \/ /\ active >= Limit
        /\ Len(waiting) < MaxWaiting
        /\ waiting' = Append(waiting, c)
        /\ call' = [call EXCEPT ![c] = "waiting"]
        /\ UNCHANGED active

(* The timer: acquire answers false and the closure will let slots pass. *)
timeout(c) ==
  /\ call[c] = "waiting"
  /\ call' = [call EXCEPT ![c] = "none"]
  /\ waiting' = [i \in DOMAIN waiting |-> IF waiting[i] = c THEN TimedOut ELSE waiting[i]]
  /\ UNCHANGED active

(* The place of the first closure that takes the slot. *)
FirstPending(i) ==
  /\ i \in DOMAIN waiting
  /\ waiting[i] # TimedOut
  /\ \A j \in 1 .. i - 1 : waiting[j] = TimedOut

NonePending == \A i \in DOMAIN waiting : waiting[i] = TimedOut

(* Mutant: the queue is only asked for its first closure. *)
release_AsksOne(c) ==
  /\ call[c] = "holding"
  /\ \/ /\ waiting # <<>> /\ waiting[1] # TimedOut
        /\ waiting' = Tail(waiting)
        /\ call' = [call EXCEPT ![c] = "none", ![waiting[1]] = "holding"]
        /\ UNCHANGED active
     \/ /\ waiting # <<>> => waiting[1] = TimedOut
        /\ waiting' = SubSeq(waiting, 2, Len(waiting))
        /\ active' = active - 1
        /\ call' = [call EXCEPT ![c] = "none"]

(* Closures that timed out are dropped on the way to one that takes the    *)
(* slot; the counter falls only when there is none.                        *)
release(c) ==
  /\ call[c] = "holding"
  /\ \/ \E i \in DOMAIN waiting :
          /\ FirstPending(i)
          /\ waiting' = SubSeq(waiting, i + 1, Len(waiting))
          /\ call' = [call EXCEPT ![c] = "none", ![waiting[i]] = "holding"]
          /\ UNCHANGED active
     \/ /\ NonePending
        /\ waiting' = <<>>
        /\ active' = active - 1
        /\ call' = [call EXCEPT ![c] = "none"]

SemNext == \E c \in Callers : acquire(c) \/ timeout(c) \/ release(c)

SemSpec == SemInit /\ [][SemNext]_semVars

(***************************************************************************)
(* Properties                                                              *)
(***************************************************************************)

Holding == {c \in Callers : call[c] = "holding"}
Waiting == {c \in Callers : call[c] = "waiting"}

Pool == INSTANCE SlotPool WITH holders <- Holding, queued <- Waiting

(* semaphore.ts 1-4: the counter, the queue and the timers together keep   *)
(* what SlotPool promises: no slot is lost or given twice, and nobody      *)
(* queues beside a free slot, whatever timed-out closures are in the way.  *)
KeepsPoolPromise == Pool!PoolSpec

(* The counter counts the holders and the queue has one live closure for   *)
(* each waiter.                                                            *)
SlotsAccounted ==
  /\ active = Cardinality(Holding)
  /\ active <= Limit
  /\ Waiting # {} => active = Limit
  /\ \A c \in Waiting : \E i \in DOMAIN waiting : waiting[i] = c
  /\ \A i, j \in DOMAIN waiting :
       waiting[i] # TimedOut => call[waiting[i]] = "waiting" /\ (waiting[i] = waiting[j] => i = j)
=============================================================================
