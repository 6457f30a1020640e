--------------------------- MODULE KeyAuthProofs ---------------------------
(***************************************************************************)
(* Proofs about Semaphore and KeyAuth, for any callers and any limit: the  *)
(* counter and the queue of closures account for every slot, the semaphore *)
(* implements SlotPool, and the key check never leaks a slot, leaves no    *)
(* request without a verification, and forgets a revoked key for good.     *)
(*                                                                         *)
(* SemInv is SlotsAccounted with its types; it is inductive for each of    *)
(* the semaphore's three operations, wherever they are called from.        *)
(***************************************************************************)
EXTENDS KeyAuth, FiniteSetTheorems, TLAPS

SemInv == SemTypeOK /\ SlotsAccounted

(* The holders are a finite set, so they can be counted. *)
LEMMA HoldersFinite == ASSUME SemTypeOK PROVE IsFiniteSet(Holding) /\ Cardinality(Holding) \in Nat
  BY CallersAssumption, FS_Subset, FS_CardinalityType DEF Holding

LEMMA SemInitInv == SemInit => SemInv
<1> SUFFICES ASSUME SemInit PROVE SemInv
  OBVIOUS
<1>1. SemTypeOK
  BY DEF SemInit, SemTypeOK
<1>2. Holding = {} /\ Waiting = {}
  BY DEF SemInit, Holding, Waiting
<1>3. active = Cardinality(Holding)
  BY <1>2, FS_EmptySet DEF SemInit
<1> QED
  BY <1>1, <1>2, <1>3, LimitAssumption DEF SemInv, SlotsAccounted, SemInit

(***************************************************************************)
(* What each operation does to the abstract pool: its holders and the      *)
(* callers that queue for a slot.                                          *)
(***************************************************************************)

LEMMA AcquireTakes ==
  ASSUME NEW c \in Callers, SemInv, acquire(c), active < Limit
  PROVE  Holding' = Holding \cup {c} /\ Waiting' = Waiting /\ c \notin Holding \cup Waiting
  BY LimitAssumption DEF SemInv, SemTypeOK, acquire, Holding, Waiting

LEMMA AcquireQueues ==
  ASSUME NEW c \in Callers, SemInv, acquire(c), active >= Limit
  PROVE  Holding' = Holding /\ Waiting' = Waiting \cup {c} /\ c \notin Holding \cup Waiting
  BY LimitAssumption DEF SemInv, SemTypeOK, acquire, Holding, Waiting

LEMMA TimeoutRefuses ==
  ASSUME NEW c \in Callers, SemInv, timeout(c)
  PROVE  Holding' = Holding /\ Waiting' = Waiting \ {c} /\ c \in Waiting
  BY DEF SemInv, SemTypeOK, timeout, Holding, Waiting

(* The closure that takes a released slot is that of a caller who waits. *)
LEMMA PendingWaits ==
  ASSUME SemInv, NEW i \in DOMAIN waiting, FirstPending(i)
  PROVE  waiting[i] \in Callers /\ call[waiting[i]] = "waiting"
  BY DEF SemInv, SemTypeOK, SlotsAccounted, FirstPending

LEMMA ReleaseHandsOver ==
  ASSUME NEW c \in Callers, SemInv, NEW i \in DOMAIN waiting, FirstPending(i), call[c] = "holding",
         call' = [call EXCEPT ![c] = "none", ![waiting[i]] = "holding"]
  PROVE  /\ Holding' = (Holding \ {c}) \cup {waiting[i]}
         /\ Waiting' = Waiting \ {waiting[i]}
         /\ c \in Holding /\ waiting[i] \in Waiting /\ c # waiting[i]
<1>1. waiting[i] \in Callers /\ call[waiting[i]] = "waiting"
  BY PendingWaits
<1> QED
  BY <1>1 DEF SemInv, SemTypeOK, Holding, Waiting

LEMMA ReleaseFrees ==
  ASSUME NEW c \in Callers, SemInv, NonePending, call[c] = "holding", call' = [call EXCEPT ![c] = "none"]
  PROVE  Holding' = Holding \ {c} /\ Waiting' = {} /\ Waiting = {} /\ c \in Holding
<1>1. Waiting = {}
  BY CallersAssumption DEF SemInv, SlotsAccounted, NonePending, Waiting
<1> QED
  BY <1>1 DEF SemInv, SemTypeOK, Holding, Waiting

(***************************************************************************)
(* Each operation preserves the invariant.                                 *)
(***************************************************************************)

LEMMA AcquireInv == ASSUME NEW c \in Callers, SemInv, acquire(c) PROVE SemInv'
<1>t. SemTypeOK'
  BY DEF SemInv, SemTypeOK, acquire
<1>1. CASE active < Limit
  <2>1. Holding' = Holding \cup {c} /\ Waiting' = Waiting /\ c \notin Holding
    BY <1>1, AcquireTakes
  <2>2. Cardinality(Holding') = Cardinality(Holding) + 1
    BY <2>1, HoldersFinite, FS_AddElement DEF SemInv
  <2>3. active' = active + 1 /\ waiting' = waiting /\ call' = [call EXCEPT ![c] = "holding"] /\ call[c] = "none"
    BY <1>1, LimitAssumption DEF acquire, SemInv, SemTypeOK
  <2>4. active' = Cardinality(Holding') /\ active' <= Limit /\ (Waiting' # {} => active' = Limit)
    BY <1>1, <2>1, <2>2, <2>3, LimitAssumption DEF SemInv, SemTypeOK, SlotsAccounted
  <2>5. \A w \in Waiting' : \E i \in DOMAIN waiting' : waiting'[i] = w
    BY <2>1, <2>3 DEF SemInv, SlotsAccounted
  <2>6. \A i, j \in DOMAIN waiting' :
          waiting'[i] # TimedOut => call'[waiting'[i]] = "waiting" /\ (waiting'[i] = waiting'[j] => i = j)
    BY <2>3 DEF SemInv, SemTypeOK, SlotsAccounted
  <2> QED
    BY <1>t, <2>4, <2>5, <2>6 DEF SemInv, SlotsAccounted
<1>2. CASE active >= Limit
  <2>1. Holding' = Holding /\ Waiting' = Waiting \cup {c} /\ c \notin Waiting
    BY <1>2, AcquireQueues
  <2>2. active' = active /\ waiting' = Append(waiting, c) /\ call' = [call EXCEPT ![c] = "waiting"] /\ call[c] = "none"
    BY <1>2, LimitAssumption DEF acquire, SemInv, SemTypeOK
  <2>3. active' = Cardinality(Holding') /\ active' <= Limit /\ (Waiting' # {} => active' = Limit)
    BY <1>2, <2>1, <2>2, LimitAssumption DEF SemInv, SemTypeOK, SlotsAccounted
  <2>4. /\ DOMAIN waiting' = 1 .. Len(waiting) + 1 /\ DOMAIN waiting = 1 .. Len(waiting) /\ Len(waiting) \in Nat
        /\ \A i \in DOMAIN waiting : waiting'[i] = waiting[i]
        /\ waiting'[Len(waiting) + 1] = c
    BY <2>2 DEF SemInv, SemTypeOK
  <2>5. \A w \in Waiting' : \E i \in DOMAIN waiting' : waiting'[i] = w
    BY <2>1, <2>4 DEF SemInv, SlotsAccounted
  <2>6. \A i \in DOMAIN waiting : waiting[i] # c
    BY <2>2, CallersAssumption DEF SemInv, SlotsAccounted
  <2>7. ASSUME NEW i \in DOMAIN waiting', NEW j \in DOMAIN waiting', waiting'[i] # TimedOut
        PROVE  call'[waiting'[i]] = "waiting" /\ (waiting'[i] = waiting'[j] => i = j)
    <3>1. call'[c] = "waiting" /\ \A d \in Callers : call[d] = "waiting" => call'[d] = "waiting"
      BY <2>2 DEF SemInv, SemTypeOK
    <3>2. CASE i \in DOMAIN waiting
      <4>1. waiting[i] \in Callers /\ call[waiting[i]] = "waiting"
        BY <2>4, <2>7, <3>2 DEF SemInv, SemTypeOK, SlotsAccounted
      <4>2. waiting'[i] = waiting'[j] => i = j
        BY <2>4, <2>6, <2>7, <3>2 DEF SemInv, SlotsAccounted
      <4> QED
        BY <2>4, <3>1, <3>2, <4>1, <4>2
    <3>3. CASE i = Len(waiting) + 1
      BY <2>4, <2>6, <3>1, <3>3
    <3> QED
      BY <2>4, <2>7, <3>2, <3>3
  <2> QED
    BY <1>t, <2>3, <2>5, <2>7 DEF SemInv, SlotsAccounted
<1> QED
  BY <1>1, <1>2, LimitAssumption DEF SemInv, SemTypeOK

LEMMA TimeoutInv == ASSUME NEW c \in Callers, SemInv, timeout(c) PROVE SemInv'
<1>1. Holding' = Holding /\ Waiting' = Waiting \ {c}
  BY TimeoutRefuses
<1>2. /\ active' = active /\ call' = [call EXCEPT ![c] = "none"]
      /\ waiting' = [i \in DOMAIN waiting |-> IF waiting[i] = c THEN TimedOut ELSE waiting[i]]
  BY DEF timeout
<1>3. /\ DOMAIN waiting' = DOMAIN waiting
      /\ \A i \in DOMAIN waiting : waiting'[i] = IF waiting[i] = c THEN TimedOut ELSE waiting[i]
  BY <1>2
<1>4. waiting' \in Seq(Callers \cup {TimedOut})
  BY <1>2, <1>3 DEF SemInv, SemTypeOK
<1>5. SemTypeOK'
  BY <1>2, <1>4 DEF SemInv, SemTypeOK
<1>6. \A w \in Waiting' : \E i \in DOMAIN waiting' : waiting'[i] = w
  BY <1>1, <1>3 DEF SemInv, SlotsAccounted
<1>7. \A i, j \in DOMAIN waiting' :
        waiting'[i] # TimedOut => call'[waiting'[i]] = "waiting" /\ (waiting'[i] = waiting'[j] => i = j)
  BY <1>2, <1>3 DEF SemInv, SemTypeOK, SlotsAccounted
<1> QED
  BY <1>1, <1>2, <1>5, <1>6, <1>7 DEF SemInv, SlotsAccounted

LEMMA ReleaseInv == ASSUME NEW c \in Callers, SemInv, release(c) PROVE SemInv'
<1>1. ASSUME NEW i \in DOMAIN waiting, FirstPending(i),
             waiting' = SubSeq(waiting, i + 1, Len(waiting)),
             call' = [call EXCEPT ![c] = "none", ![waiting[i]] = "holding"],
             active' = active
      PROVE  SemInv'
  <2>0. call[c] = "holding"
    BY DEF release
  <2>1. waiting[i] \in Callers /\ call[waiting[i]] = "waiting"
    BY <1>1, PendingWaits
  <2>2. /\ Holding' = (Holding \ {c}) \cup {waiting[i]} /\ Waiting' = Waiting \ {waiting[i]}
        /\ c \in Holding /\ waiting[i] \in Waiting /\ c # waiting[i] /\ waiting[i] \notin Holding
    BY <1>1, <2>0, <2>1, ReleaseHandsOver DEF Holding
  <2>3. IsFiniteSet(Holding \ {c}) /\ Cardinality(Holding \ {c}) = Cardinality(Holding) - 1
    BY <2>2, HoldersFinite, FS_RemoveElement DEF SemInv
  <2>4. Cardinality(Holding') = Cardinality(Holding) - 1 + 1
    BY <2>2, <2>3, FS_AddElement
  <2>5. active' = Cardinality(Holding') /\ active' <= Limit /\ (Waiting' # {} => active' = Limit)
    BY <1>1, <2>2, <2>4, HoldersFinite DEF SemInv, SlotsAccounted
  <2>6. /\ i \in 1 .. Len(waiting) /\ Len(waiting) \in Nat /\ DOMAIN waiting = 1 .. Len(waiting)
        /\ DOMAIN waiting' = 1 .. Len(waiting) - i
        /\ \A k \in DOMAIN waiting' : waiting'[k] = waiting[k + i]
    BY <1>1 DEF SemInv, SemTypeOK
  <2>7. SemTypeOK'
    <3>1. waiting' \in Seq(Callers \cup {TimedOut})
      BY <1>1, <2>6 DEF SemInv, SemTypeOK
    <3>2. call' \in [Callers -> {"none", "waiting", "holding"}]
      BY <1>1, <2>1 DEF SemInv, SemTypeOK
    <3> QED
      BY <1>1, <3>1, <3>2 DEF SemInv, SemTypeOK
  <2>8. ASSUME NEW w \in Waiting' PROVE \E k \in DOMAIN waiting' : waiting'[k] = w
    <3>1. w \in Waiting /\ w # waiting[i] /\ w # TimedOut
      BY <2>2, <2>8, CallersAssumption DEF Waiting
    <3>2. PICK j \in DOMAIN waiting : waiting[j] = w
      BY <3>1 DEF SemInv, SlotsAccounted
    <3>3. j > i /\ j \in Nat
      BY <1>1, <2>6, <3>1, <3>2 DEF FirstPending
    <3>4. j - i \in DOMAIN waiting' /\ waiting'[j - i] = waiting[j - i + i] /\ j - i + i = j
      BY <2>6, <3>2, <3>3
    <3> QED
      BY <3>2, <3>4
  <2>9. ASSUME NEW k \in DOMAIN waiting', NEW j \in DOMAIN waiting', waiting'[k] # TimedOut
        PROVE  call'[waiting'[k]] = "waiting" /\ (waiting'[k] = waiting'[j] => k = j)
    <3>1. /\ k + i \in DOMAIN waiting /\ j + i \in DOMAIN waiting /\ k + i # i
          /\ waiting'[k] = waiting[k + i] /\ waiting'[j] = waiting[j + i]
      BY <2>6, <2>9
    <3>2. call[waiting[k + i]] = "waiting" /\ (waiting[k + i] = waiting[j + i] => k + i = j + i)
      BY <2>9, <3>1 DEF SemInv, SlotsAccounted
    <3>3. waiting[k + i] \in Callers
      BY <2>9, <3>1 DEF SemInv, SemTypeOK
    <3>4. waiting[k + i] # waiting[i]
      BY <2>9, <3>1, <1>1 DEF SemInv, SlotsAccounted, FirstPending
    <3>5. call'[waiting[k + i]] = "waiting"
      BY <1>1, <2>0, <2>1, <3>2, <3>3, <3>4 DEF SemInv, SemTypeOK
    <3> QED
      BY <2>6, <2>9, <3>1, <3>2, <3>5
  <2> QED
    BY <2>5, <2>7, <2>8, <2>9 DEF SemInv, SlotsAccounted
<1>2. ASSUME NonePending, waiting' = <<>>, active' = active - 1, call' = [call EXCEPT ![c] = "none"]
      PROVE  SemInv'
  <2>1. Holding' = Holding \ {c} /\ Waiting' = {} /\ c \in Holding
    BY <1>2, ReleaseFrees DEF release
  <2>2. Cardinality(Holding') = Cardinality(Holding) - 1 /\ Cardinality(Holding') \in Nat
    BY <2>1, HoldersFinite, FS_RemoveElement, FS_CardinalityType DEF SemInv
  <2>3. active' = Cardinality(Holding') /\ active' <= Limit /\ active' \in Nat
    BY <1>2, <2>2, HoldersFinite, LimitAssumption DEF SemInv, SlotsAccounted
  <2> QED
    BY <1>2, <2>1, <2>3 DEF SemInv, SemTypeOK, SlotsAccounted
<1> QED
  BY <1>1, <1>2 DEF release

(***************************************************************************)
(* Each operation is a step of the abstract pool.                          *)
(***************************************************************************)

(* The pool counts as the semaphore does: its FiniteSets is another copy. *)
LEMMA SameCount == Pool!Cardinality(Holding) = Cardinality(Holding)
  BY DEF Pool!Cardinality, Cardinality

LEMMA AcquireStep == ASSUME NEW c \in Callers, SemInv, acquire(c) PROVE Pool!PoolNext
<1>1. Cardinality(Holding) = active /\ active \in Nat /\ active <= Limit
  BY DEF SemInv, SemTypeOK, SlotsAccounted
<1>2. CASE active < Limit
  BY <1>1, <1>2, AcquireTakes, SameCount DEF Pool!PoolNext, Pool!Take
<1>3. CASE active >= Limit
  BY <1>1, <1>3, AcquireQueues, SameCount, LimitAssumption DEF Pool!PoolNext, Pool!Queue
<1> QED
  BY <1>1, <1>2, <1>3, LimitAssumption

LEMMA TimeoutStep == ASSUME NEW c \in Callers, SemInv, timeout(c) PROVE Pool!PoolNext
  BY TimeoutRefuses DEF Pool!PoolNext, Pool!Refuse

LEMMA ReleaseStep == ASSUME NEW c \in Callers, SemInv, release(c) PROVE Pool!PoolNext
<1>1. ASSUME NEW i \in DOMAIN waiting, FirstPending(i),
             call' = [call EXCEPT ![c] = "none", ![waiting[i]] = "holding"]
      PROVE  Pool!PoolNext
  BY <1>1, ReleaseHandsOver, PendingWaits DEF release, Pool!PoolNext, Pool!HandOver
<1>2. ASSUME NonePending, call' = [call EXCEPT ![c] = "none"] PROVE Pool!PoolNext
  BY <1>2, ReleaseFrees DEF release, Pool!PoolNext, Pool!GiveBack
<1> QED
  BY <1>1, <1>2 DEF release

LEMMA PoolStarts == SemInit => Pool!PoolInit
  BY DEF SemInit, Pool!PoolInit, Holding, Waiting

LEMMA PoolRests == ASSUME UNCHANGED semVars PROVE UNCHANGED Pool!poolVars
  BY DEF semVars, Pool!poolVars, Holding, Waiting

LEMMA SemRests == ASSUME SemInv, UNCHANGED semVars PROVE SemInv'
<1>1. Holding' = Holding /\ Waiting' = Waiting
  BY DEF semVars, Holding, Waiting
<1> QED
  BY <1>1 DEF semVars, SemInv, SemTypeOK, SlotsAccounted

(***************************************************************************)
(* The semaphore by itself, whoever calls it.                              *)
(***************************************************************************)

(* semaphore.ts: the counter counts the holders, never passes the limit,   *)
(* and every waiter has one live closure in the queue, for any number of   *)
(* callers and timeouts.                                                   *)
THEOREM SemaphoreAccounts == SemSpec => []SlotsAccounted
<1>1. SemInv /\ [SemNext]_semVars => SemInv'
  BY AcquireInv, TimeoutInv, ReleaseInv, SemRests DEF SemNext
<1>2. SemInv => SlotsAccounted
  BY DEF SemInv
<1> QED
  BY SemInitInv, <1>1, <1>2, PTL DEF SemSpec

(* semaphore.ts: the semaphore implements the abstract pool of slots. *)
THEOREM SemaphoreIsAPool == SemSpec => KeepsPoolPromise
<1>1. SemInv /\ [SemNext]_semVars => SemInv'
  BY AcquireInv, TimeoutInv, ReleaseInv, SemRests DEF SemNext
<1>2. SemInv /\ [SemNext]_semVars => [Pool!PoolNext]_(Pool!poolVars)
  BY AcquireStep, TimeoutStep, ReleaseStep, PoolRests DEF SemNext
<1> QED
  BY SemInitInv, PoolStarts, <1>1, <1>2, PTL DEF SemSpec, KeepsPoolPromise, Pool!PoolSpec

(***************************************************************************)
(* The key check, whose every step is one of the semaphore's or leaves the *)
(* semaphore alone.                                                        *)
(***************************************************************************)

AuthInv == SemInv /\ AuthTypeOK /\ SlotsVerify

LEMMA AuthInitInv == AuthInit => AuthInv
  BY SemInitInv DEF AuthInit, AuthInv, AuthTypeOK, SemInv, SlotsVerify, SemInit, Answers, Verdicts, Keys

LEMMA AuthUsesSemaphore ==
  ASSUME AuthTypeOK, [AuthNext]_keyAuthVars
  PROVE  [SemNext]_semVars
<1> USE DEF Keys
<1>1. CASE UNCHANGED keyAuthVars
  BY <1>1 DEF keyAuthVars
<1>2. ASSUME NEW r \in Checks, NEW k \in Keys, checkAuth(r, k) PROVE UNCHANGED semVars
  BY <1>2 DEF checkAuth
<1>3. ASSUME NEW r \in Checks, keyCached(r) PROVE UNCHANGED semVars
  BY <1>3 DEF keyCached
<1>4. ASSUME NEW r \in Checks, joinVerification(r) PROVE SemNext \/ UNCHANGED semVars
  <2>1. check[r].key \in Callers
    BY DEF AuthTypeOK
  <2> QED
    BY <1>4, <2>1 DEF joinVerification, SemNext
<1>5. ASSUME NEW k \in Keys,
             \/ verificationBusy(k) \/ readKey(k) \/ queryFails(k) \/ verdictReached(k)
             \/ setApiKeyCache(k) \/ keyExpires(k) \/ changeKey(k)
      PROVE  SemNext \/ UNCHANGED semVars
  BY <1>5 DEF verificationBusy, readKey, queryFails, verdictReached, setApiKeyCache, keyExpires,
              changeKey, SemNext
<1> QED
  BY <1>1, <1>2, <1>3, <1>4, <1>5 DEF AuthNext

LEMMA SettleType ==
  ASSUME AuthTypeOK, NEW k \in Keys, NEW a \in Answers, Settle(k, a)
  PROVE  check' \in [Checks -> [key : Keys, phase : Answers \cup {"lookup", "joined"}]]
  BY DEF AuthTypeOK, Settle

LEMMA AuthTypeStep ==
  ASSUME AuthTypeOK, SemTypeOK', [AuthNext]_keyAuthVars
  PROVE  AuthTypeOK'
<1> USE DEF AuthTypeOK
<1>1. CASE UNCHANGED keyAuthVars
  BY <1>1 DEF keyAuthVars, authVars
<1>2. ASSUME NEW r \in Checks, NEW k \in Keys, checkAuth(r, k) PROVE AuthTypeOK'
  BY <1>2 DEF checkAuth
<1>3. ASSUME NEW r \in Checks, keyCached(r) PROVE AuthTypeOK'
  BY <1>3 DEF keyCached, Verdict, Answers
<1>4. ASSUME NEW r \in Checks, joinVerification(r) PROVE AuthTypeOK'
  <2>1. check[r].key \in Keys
    OBVIOUS
  <2>2. check' \in [Checks -> [key : Keys, phase : Answers \cup {"lookup", "joined"}]]
    <3>1. check' = [check EXCEPT ![r].phase = "joined"]
      BY <1>4 DEF joinVerification
    <3> QED
      BY <3>1
  <2>3. verify' \in [Keys -> Verdicts \cup {"none", "running"}]
    BY <1>4, <2>1 DEF joinVerification
  <2> QED
    BY <1>4, <2>2, <2>3 DEF joinVerification
<1>5. ASSUME NEW k \in Keys, verificationBusy(k) PROVE AuthTypeOK'
  BY <1>5, SettleType DEF verificationBusy, Answers
<1>6. ASSUME NEW k \in Keys, readKey(k) PROVE AuthTypeOK'
  BY <1>6 DEF readKey
<1>7. ASSUME NEW k \in Keys, queryFails(k) PROVE AuthTypeOK'
  BY <1>7, SettleType DEF queryFails, Answers
<1>8. ASSUME NEW k \in Keys, verdictReached(k) PROVE AuthTypeOK'
  BY <1>8, SettleType DEF verdictReached, Verdict, Answers
<1>9. ASSUME NEW k \in Keys, setApiKeyCache(k) PROVE AuthTypeOK'
  BY <1>9 DEF setApiKeyCache
<1>10. ASSUME NEW k \in Keys, keyExpires(k) \/ changeKey(k) PROVE AuthTypeOK'
  BY <1>10 DEF keyExpires, changeKey, Verdicts
<1> QED
  BY <1>1, <1>2, <1>3, <1>4, <1>5, <1>6, <1>7, <1>8, <1>9, <1>10 DEF AuthNext

(* A release leaves the slot with another key, which was waiting for it. *)
LEMMA ReleaseCalls ==
  ASSUME NEW k \in Keys, SemInv, release(k)
  PROVE  /\ call[k] = "holding" /\ call'[k] = "none"
         /\ \A c \in Keys \ {k} : call'[c] = call[c] \/ (call[c] = "waiting" /\ call'[c] = "holding")
<1> USE DEF Keys
<1>1. ASSUME NEW i \in DOMAIN waiting, FirstPending(i),
             call' = [call EXCEPT ![k] = "none", ![waiting[i]] = "holding"]
      PROVE  /\ call'[k] = "none"
             /\ \A c \in Keys \ {k} : call'[c] = call[c] \/ (call[c] = "waiting" /\ call'[c] = "holding")
  <2>1. waiting[i] \in Callers /\ call[waiting[i]] = "waiting"
    BY <1>1, PendingWaits
  <2> QED
    BY <1>1, <2>1 DEF release, SemInv, SemTypeOK
<1>2. CASE call' = [call EXCEPT ![k] = "none"]
  BY <1>2 DEF release, SemInv, SemTypeOK
<1> QED
  BY <1>1, <1>2 DEF release

LEMMA SlotsVerifyStep ==
  ASSUME AuthInv, [AuthNext]_keyAuthVars
  PROVE  SlotsVerify'
<1> USE DEF Keys, AuthInv, SlotsVerify, AuthTypeOK, SemTypeOK
<1>1. CASE UNCHANGED keyAuthVars
  BY <1>1 DEF keyAuthVars, authVars, semVars
<1>2. ASSUME NEW r \in Checks, NEW k \in Keys, checkAuth(r, k) PROVE SlotsVerify'
  BY <1>2 DEF checkAuth, semVars
<1>3. ASSUME NEW r \in Checks, keyCached(r) PROVE SlotsVerify'
  BY <1>3 DEF keyCached, semVars
<1>4. ASSUME NEW r \in Checks, joinVerification(r) PROVE SlotsVerify'
  BY <1>4 DEF joinVerification, acquire, semVars, Verdicts
<1>5. ASSUME NEW k \in Keys, verificationBusy(k) PROVE SlotsVerify'
  BY <1>5 DEF verificationBusy, timeout, Verdicts
<1>6. ASSUME NEW k \in Keys, readKey(k) PROVE SlotsVerify'
  BY <1>6 DEF readKey, semVars, Verdicts
<1>7. ASSUME NEW k \in Keys, queryFails(k) PROVE SlotsVerify'
  BY <1>7, ReleaseCalls DEF queryFails, Verdicts
<1>8. ASSUME NEW k \in Keys, verdictReached(k) PROVE SlotsVerify'
  BY <1>8, ReleaseCalls DEF verdictReached, Verdicts
<1>9. ASSUME NEW k \in Keys, setApiKeyCache(k) \/ keyExpires(k) \/ changeKey(k) PROVE SlotsVerify'
  BY <1>9 DEF setApiKeyCache, keyExpires, changeKey, semVars
<1> QED
  BY <1>1, <1>2, <1>3, <1>4, <1>5, <1>6, <1>7, <1>8, <1>9 DEF AuthNext

LEMMA AuthInvStep == AuthInv /\ [AuthNext]_keyAuthVars => AuthInv'
<1> SUFFICES ASSUME AuthInv, [AuthNext]_keyAuthVars PROVE AuthInv'
  OBVIOUS
<1>1. [SemNext]_semVars
  BY AuthUsesSemaphore DEF AuthInv
<1>2. SemInv'
  BY <1>1, AcquireInv, TimeoutInv, ReleaseInv, SemRests DEF SemNext, AuthInv
<1> QED
  BY <1>2, AuthTypeStep, SlotsVerifyStep DEF AuthInv, SemInv

(* auth.ts 72-82: for any keys, requests and limit, exactly the            *)
(* verifications past acquire hold a slot, so failures leak none.          *)
THEOREM NoSlotLeaks == AuthSpec => []SlotsVerify
<1>1. AuthInv => SlotsVerify
  BY DEF AuthInv
<1> QED
  BY AuthInitInv, AuthInvStep, <1>1, PTL DEF AuthSpec

(* The counter and the queue stay exact as the key check uses them. *)
THEOREM SlotsStayAccounted == AuthSpec => []SlotsAccounted
<1>1. AuthInv => SlotsAccounted
  BY DEF AuthInv, SemInv
<1> QED
  BY AuthInitInv, AuthInvStep, <1>1, PTL DEF AuthSpec

(* The key check as a whole implements the abstract pool of slots. *)
THEOREM AuthKeepsPool == AuthSpec => KeepsPoolPromise
<1>1. AuthInit => Pool!PoolInit
  BY PoolStarts DEF AuthInit
<1>2. AuthInv /\ [AuthNext]_keyAuthVars => [Pool!PoolNext]_(Pool!poolVars)
  <2> SUFFICES ASSUME AuthInv, [AuthNext]_keyAuthVars PROVE [Pool!PoolNext]_(Pool!poolVars)
    OBVIOUS
  <2>1. [SemNext]_semVars
    BY AuthUsesSemaphore DEF AuthInv
  <2> QED
    BY <2>1, AcquireStep, TimeoutStep, ReleaseStep, PoolRests DEF SemNext, AuthInv
<1> QED
  BY AuthInitInv, AuthInvStep, <1>1, <1>2, PTL DEF AuthSpec, KeepsPoolPromise, Pool!PoolSpec

(* What settles k's verification leaves nobody waiting for it, and changes *)
(* no request that waits for another.                                      *)
LEMMA SettleAnswers ==
  ASSUME AuthTypeOK, NEW k \in Keys, NEW a \in Answers, Settle(k, a), NEW r \in Checks
  PROVE  /\ check'[r].phase = "joined" => check'[r] = check[r] /\ check[r].key # k
         /\ check'[r] # check[r] => check'[r] = [key |-> k, phase |-> a]
<1>1. check'[r] = IF check[r] = [key |-> k, phase |-> "joined"]
                  THEN [key |-> k, phase |-> a] ELSE check[r]
  BY DEF Settle
<1>2. check[r] \in [key : Keys, phase : Answers \cup {"lookup", "joined"}]
  BY DEF AuthTypeOK
<1>3. check[r] = [key |-> check[r].key, phase |-> check[r].phase]
  BY <1>2
<1> QED
  BY <1>1, <1>3 DEF Answers

LEMMA OrphanStep ==
  ASSUME AuthInv, NoRequestOrphaned, [AuthNext]_keyAuthVars
  PROVE  NoRequestOrphaned'
<1> USE DEF AuthInv, AuthTypeOK, NoRequestOrphaned
<1>1. CASE UNCHANGED keyAuthVars
  BY <1>1 DEF keyAuthVars, authVars
<1>2. ASSUME NEW r \in Checks, NEW k \in Keys, checkAuth(r, k) PROVE NoRequestOrphaned'
  BY <1>2 DEF checkAuth
<1>3. ASSUME NEW r \in Checks, keyCached(r) PROVE NoRequestOrphaned'
  BY <1>3 DEF keyCached, Verdict
<1>4. ASSUME NEW r \in Checks, joinVerification(r) PROVE NoRequestOrphaned'
  <2>1. check[r].key \in Keys /\ check' = [check EXCEPT ![r].phase = "joined"]
    BY <1>4 DEF joinVerification
  <2>2. verify'[check[r].key] # "none" /\ \A k \in Keys : verify[k] # "none" => verify'[k] # "none"
    BY <1>4, <2>1 DEF joinVerification
  <2>3. ASSUME NEW q \in Checks, check'[q].phase = "joined" PROVE verify'[check'[q].key] # "none"
    <3>1. check'[q].key = check[q].key /\ check[q].key \in Keys
      BY <2>1
    <3> QED
      BY <2>1, <2>2, <2>3, <3>1
  <2> QED
    BY <2>3
<1>5. ASSUME NEW k \in Keys, NEW a \in Answers, Settle(k, a), verify' = [verify EXCEPT ![k] = "none"]
      PROVE  NoRequestOrphaned'
  <2> SUFFICES ASSUME NEW r \in Checks, check'[r].phase = "joined"
               PROVE  verify'[check'[r].key] # "none"
    OBVIOUS
  <2>1. check'[r] = check[r] /\ check[r].key # k
    BY <1>5, SettleAnswers
  <2>2. check[r].key \in Keys /\ verify[check[r].key] # "none"
    BY <2>1
  <2> QED
    BY <1>5, <2>1, <2>2
<1>6. ASSUME NEW k \in Keys, verificationBusy(k) PROVE NoRequestOrphaned'
  BY <1>5, <1>6 DEF verificationBusy, Answers
<1>7. ASSUME NEW k \in Keys, readKey(k) PROVE NoRequestOrphaned'
  BY <1>7 DEF readKey, Verdicts
<1>8. ASSUME NEW k \in Keys, queryFails(k) PROVE NoRequestOrphaned'
  BY <1>5, <1>8 DEF queryFails, Answers
<1>9. ASSUME NEW k \in Keys, verdictReached(k) PROVE NoRequestOrphaned'
  <2>1. Verdict(verify[k]) \in Answers
    BY DEF Verdict, Answers
  <2> QED
    BY <1>5, <1>9, <2>1 DEF verdictReached
<1>10. ASSUME NEW k \in Keys, setApiKeyCache(k) \/ keyExpires(k) \/ changeKey(k)
       PROVE  NoRequestOrphaned'
  BY <1>10 DEF setApiKeyCache, keyExpires, changeKey
<1> QED
  BY <1>1, <1>2, <1>3, <1>4, <1>6, <1>7, <1>8, <1>9, <1>10 DEF AuthNext

(* auth.ts 54-70: for any keys, requests and limit, and whichever way a    *)
(* verification ends, no request is left waiting for one that is over.     *)
THEOREM NobodyIsOrphaned == AuthSpec => []NoRequestOrphaned
<1>1. AuthInit => NoRequestOrphaned
  BY DEF AuthInit, NoRequestOrphaned
<1>2. AuthInv /\ NoRequestOrphaned /\ [AuthNext]_keyAuthVars => NoRequestOrphaned'
  BY OrphanStep
<1> QED
  BY AuthInitInv, AuthInvStep, <1>1, <1>2, PTL DEF AuthSpec

(* What a step may accept, and which good verdicts it may leave, for a key *)
(* that was revoked and forgotten and stays revoked.                       *)
LEMMA ForgottenStep ==
  ASSUME AuthInv, [AuthNext]_keyAuthVars, NEW k \in Keys, Forgotten(k), keyRow'[k] = "bad"
  PROVE  /\ Forgotten(k)'
         /\ \A r \in Checks : check'[r] = [key |-> k, phase |-> "accepted"] => check'[r] = check[r]
<1> DEFINE Refused == \A r \in Checks :
             check'[r] = [key |-> k, phase |-> "accepted"] => check'[r] = check[r]
<1> SUFFICES Forgotten(k)' /\ Refused
  OBVIOUS
<1> USE DEF AuthInv, AuthTypeOK, Forgotten
<1>1. CASE UNCHANGED keyAuthVars
  BY <1>1 DEF keyAuthVars, authVars
<1>2. ASSUME NEW r \in Checks, NEW c \in Keys, checkAuth(r, c) PROVE Forgotten(k)' /\ Refused
  BY <1>2 DEF checkAuth
<1>3. ASSUME NEW r \in Checks, keyCached(r) PROVE Forgotten(k)' /\ Refused
  <2>1. Refused
    BY <1>3 DEF keyCached, Verdict
  <2> QED
    BY <1>3, <2>1 DEF keyCached
<1>4. ASSUME NEW r \in Checks, joinVerification(r) PROVE Forgotten(k)' /\ Refused
  <2>1. Refused
    BY <1>4 DEF joinVerification
  <2>2. check[r].key \in Keys /\ verify'[k] # "good"
    BY <1>4 DEF joinVerification
  <2> QED
    BY <1>4, <2>1, <2>2 DEF joinVerification
<1>5. ASSUME NEW c \in Keys, NEW a \in Answers, Settle(c, a), c = k => a # "accepted"
      PROVE  Refused
  <2> SUFFICES ASSUME NEW r \in Checks, check'[r] = [key |-> k, phase |-> "accepted"],
                      check'[r] # check[r]
               PROVE  FALSE
    OBVIOUS
  <2>1. check'[r] = [key |-> c, phase |-> a]
    BY <1>5, SettleAnswers
  <2>2. c = check'[r].key /\ a = check'[r].phase
    BY <2>1
  <2> QED
    BY <1>5, <2>2
<1>6. ASSUME NEW c \in Keys, verificationBusy(c) PROVE Forgotten(k)' /\ Refused
  <2>1. Refused
    BY <1>5, <1>6 DEF verificationBusy, Answers
  <2> QED
    BY <1>6, <2>1 DEF verificationBusy
<1>7. ASSUME NEW c \in Keys, readKey(c) PROVE Forgotten(k)' /\ Refused
  BY <1>7 DEF readKey
<1>8. ASSUME NEW c \in Keys, queryFails(c) PROVE Forgotten(k)' /\ Refused
  <2>1. Refused
    BY <1>5, <1>8 DEF queryFails, Answers
  <2> QED
    BY <1>8, <2>1 DEF queryFails
<1>9. ASSUME NEW c \in Keys, verdictReached(c) PROVE Forgotten(k)' /\ Refused
  <2>1. Refused
    <3>1. Verdict(verify[c]) \in Answers /\ (c = k => Verdict(verify[c]) # "accepted")
      BY DEF Verdict, Answers
    <3> QED
      BY <1>5, <1>9, <3>1 DEF verdictReached
  <2>2. \A i \in DOMAIN writes'[k] : writes'[k][i] # "good"
    <3>1. CASE c # k
      BY <1>9, <3>1 DEF verdictReached
    <3>2. CASE c = k
      <4>1. writes[k] \in Seq(Verdicts) /\ verify[k] \in Verdicts /\ verify[k] # "good"
        BY <1>9, <3>2 DEF verdictReached
      <4>2. writes'[k] = Append(writes[k], verify[k])
        BY <1>9, <3>2 DEF verdictReached
      <4> QED
        BY <4>1, <4>2
    <3> QED
      BY <3>1, <3>2
  <2> QED
    BY <1>9, <2>1, <2>2 DEF verdictReached
<1>10. ASSUME NEW c \in Keys, setApiKeyCache(c) PROVE Forgotten(k)' /\ Refused
  <2>1. writes[k] \in Seq(Verdicts)
    OBVIOUS
  <2>2. CASE c # k
    BY <1>10, <2>2 DEF setApiKeyCache
  <2>3. CASE c = k
    <3>1. writes'[k] = Tail(writes[k]) /\ writes[k] # <<>>
      BY <1>10, <2>3 DEF setApiKeyCache
    <3>2. \A i \in DOMAIN writes'[k] : writes'[k][i] # "good"
      BY <2>1, <3>1
    <3>3. Head(writes[k]) # "good"
      BY <2>1, <3>1
    <3>4. cachedKey'[k] # "good"
      BY <1>10, <2>3, <3>3 DEF setApiKeyCache
    <3> QED
      BY <1>10, <3>2, <3>4 DEF setApiKeyCache
  <2> QED
    BY <2>2, <2>3
<1>11. ASSUME NEW c \in Keys, keyExpires(c) \/ changeKey(c) PROVE Forgotten(k)' /\ Refused
  BY <1>11 DEF keyExpires, changeKey
<1> QED
  BY <1>1, <1>2, <1>3, <1>4, <1>6, <1>7, <1>8, <1>9, <1>10, <1>11 DEF AuthNext

(* auth.ts 54-82, 105, 128-132: for any keys and requests, a revoked key   *)
(* whose old verdicts have died out is never accepted again while it stays *)
(* revoked.                                                                *)
THEOREM RevokedStaysRefused == AuthSpec => RevocationLasts
<1>1. AuthInv /\ [AuthNext]_keyAuthVars =>
        [\A k \in Keys : Forgotten(k) /\ keyRow'[k] = "bad" =>
           /\ Forgotten(k)'
           /\ \A r \in Checks :
                check'[r] = [key |-> k, phase |-> "accepted"] => check'[r] = check[r]]_keyAuthVars
  BY ForgottenStep
<1> QED
  BY AuthInitInv, AuthInvStep, <1>1, PTL DEF AuthSpec, RevocationLasts
=============================================================================
