------------------------------ MODULE KeyAuth ------------------------------
(***************************************************************************)
(* The gateway's API key check, xinity-ai-gateway/src/llm-forward/auth.ts: *)
(* a cache of verdicts with a lifetime, one verification in flight for a   *)
(* key that every request of the burst shares, and a semaphore that keeps  *)
(* verifications from taking all database connections.                     *)
(*                                                                         *)
(* The semaphore's callers are the keys: a verification belongs to a key.  *)
(* What a key's row says (present, enabled, not deleted, hash matches) is  *)
(* "good" or "bad".                                                        *)
(***************************************************************************)
EXTENDS Semaphore

CONSTANTS
  Checks,       \* requests under way at the same time
  MaxWrites     \* bound on the cache writes of a key under way

Keys == Callers
Verdicts == {"good", "bad"}
Answers == {"accepted", "refused", "busy", "error"}

VARIABLES
  keyRow,    \* what the database says of each key
  cachedKey, \* the cache's entry of each key, or "none"
  writes,    \* cache.set calls on their way, in the order they were sent
  verify,    \* the verification in inflightAuth: none, running, or the verdict it read
  check      \* each request's key and where it is

authVars == <<keyRow, cachedKey, writes, verify, check>>
keyAuthVars == <<authVars, semVars>>

AuthTypeOK ==
  /\ SemTypeOK
  /\ keyRow \in [Keys -> Verdicts]
  /\ cachedKey \in [Keys -> Verdicts \cup {"none"}]
  /\ writes \in [Keys -> Seq(Verdicts)]
  /\ verify \in [Keys -> Verdicts \cup {"none", "running"}]
  /\ check \in [Checks -> [key : Keys, phase : Answers \cup {"lookup", "joined"}]]

AuthInit ==
  /\ SemInit
  /\ keyRow \in [Keys -> Verdicts]
  /\ cachedKey = [k \in Keys |-> "none"]
  /\ writes = [k \in Keys |-> <<>>]
  /\ verify = [k \in Keys |-> "none"]
  /\ check \in [Checks -> [key : Keys, phase : {"refused"}]]

Verdict(v) == IF v = "good" THEN "accepted" ELSE "refused"

(* The promise of k's verification settles for every request that shares it. *)
Settle(k, answer) ==
  check' = [r \in Checks |->
            IF check[r] = [key |-> k, phase |-> "joined"]
            THEN [key |-> k, phase |-> answer] ELSE check[r]]

(* checkAuth up to the cache look-up; an answered request makes room for   *)
(* the next.                                                               *)
checkAuth(r, k) ==
  /\ check[r].phase \in Answers
  /\ check' = [check EXCEPT ![r] = [key |-> k, phase |-> "lookup"]]
  /\ UNCHANGED <<keyRow, cachedKey, writes, verify, semVars>>

keyCached(r) ==
  LET k == check[r].key IN
  /\ check[r].phase = "lookup"
  /\ cachedKey[k] # "none"
  /\ check' = [check EXCEPT ![r].phase = Verdict(cachedKey[k])]
  /\ UNCHANGED <<keyRow, cachedKey, writes, verify, semVars>>

(* No entry, or the cache failed: share the verification under way or      *)
(* start one.                                                              *)
joinVerification(r) ==
  LET k == check[r].key IN
  /\ check[r].phase = "lookup"
  /\ check' = [check EXCEPT ![r].phase = "joined"]
  /\ \/ /\ verify[k] # "none"
        /\ UNCHANGED <<verify, semVars>>
     \/ /\ verify[k] = "none"
        /\ verify' = [verify EXCEPT ![k] = "running"]
        /\ acquire(k)
  /\ UNCHANGED <<keyRow, cachedKey, writes>>

(* Mutant: the timer forgets to answer false. *)
verificationBusy_Unanswered(k) ==
  /\ call[k] = "waiting"
  /\ waiting' = [i \in DOMAIN waiting |-> IF waiting[i] = k THEN TimedOut ELSE waiting[i]]
  /\ UNCHANGED <<active, call, authVars>>

(* verifyWithinLimit 73-76: no slot in time. *)
verificationBusy(k) ==
  /\ timeout(k)
  /\ verify' = [verify EXCEPT ![k] = "none"]
  /\ Settle(k, "busy")
  /\ UNCHANGED <<keyRow, cachedKey, writes>>

(* verifyKeyAgainstDb 86-100: the row is read; checking the hash awaits. *)
readKey(k) ==
  /\ verify[k] = "running" /\ call[k] = "holding"
  /\ verify' = [verify EXCEPT ![k] = keyRow[k]]
  /\ UNCHANGED <<keyRow, cachedKey, writes, check, semVars>>

(* Mutant: the slot is only released after a verdict. *)
queryFails_KeepsSlot(k) ==
  /\ verify[k] = "running" /\ call[k] = "holding"
  /\ verify' = [verify EXCEPT ![k] = "none"]
  /\ Settle(k, "error")
  /\ UNCHANGED <<keyRow, cachedKey, writes, semVars>>

(* The query throws: finally releases the slot and clears inflightAuth. *)
queryFails(k) ==
  /\ verify[k] = "running"
  /\ release(k)
  /\ verify' = [verify EXCEPT ![k] = "none"]
  /\ Settle(k, "error")
  /\ UNCHANGED <<keyRow, cachedKey, writes>>

(* The verdict is sent to the cache and nobody waits for it. *)
verdictReached(k) ==
  /\ verify[k] \in Verdicts
  /\ Len(writes[k]) < MaxWrites
  /\ writes' = [writes EXCEPT ![k] = Append(@, verify[k])]
  /\ release(k)
  /\ verify' = [verify EXCEPT ![k] = "none"]
  /\ Settle(k, Verdict(verify[k]))
  /\ UNCHANGED <<keyRow, cachedKey>>

setApiKeyCache(k) ==
  /\ writes[k] # <<>>
  /\ writes' = [writes EXCEPT ![k] = Tail(@)]
  /\ cachedKey' \in {[cachedKey EXCEPT ![k] = Head(writes[k])], cachedKey}   \* or the cache failed
  /\ UNCHANGED <<keyRow, verify, check, semVars>>

(* Mutant: only rejections are given a lifetime. *)
keyExpires_FailuresOnly(k) ==
  /\ cachedKey[k] = "bad"
  /\ cachedKey' = [cachedKey EXCEPT ![k] = "none"]
  /\ UNCHANGED <<keyRow, writes, verify, check, semVars>>

(* The lifetime of the entry ends. *)
keyExpires(k) ==
  /\ cachedKey[k] # "none"
  /\ cachedKey' = [cachedKey EXCEPT ![k] = "none"]
  /\ UNCHANGED <<keyRow, writes, verify, check, semVars>>

(* The dashboard creates, enables, disables or deletes the key: external   *)
(* to the gateway.                                                         *)
changeKey(k) ==
  /\ keyRow' = [keyRow EXCEPT ![k] = IF @ = "good" THEN "bad" ELSE "good"]
  /\ UNCHANGED <<cachedKey, writes, verify, check, semVars>>

AuthNext ==
  \/ \E r \in Checks : \/ \E k \in Keys : checkAuth(r, k)
                         \/ keyCached(r) \/ joinVerification(r)
  \/ \E k \in Keys : \/ verificationBusy(k) \/ readKey(k) \/ queryFails(k)
                     \/ verdictReached(k) \/ setApiKeyCache(k) \/ keyExpires(k) \/ changeKey(k)

AuthSpec == AuthInit /\ [][AuthNext]_keyAuthVars

(* Look-ups and queries end, timers fire, entries expire.  Strong for the  *)
(* look-up only because the bound on the queue may shut it now and then.   *)
AuthFairness ==
  /\ \A r \in Checks : SF_keyAuthVars(keyCached(r) \/ joinVerification(r))
  /\ \A k \in Keys : /\ WF_keyAuthVars(verificationBusy(k))
                     /\ WF_keyAuthVars(readKey(k) \/ queryFails(k))
                     /\ WF_keyAuthVars(verdictReached(k))
                     /\ WF_keyAuthVars(setApiKeyCache(k))
                     /\ WF_keyAuthVars(keyExpires(k))

(***************************************************************************)
(* Properties                                                              *)
(***************************************************************************)

(* auth.ts 72-82: a slot is held exactly by the verifications past         *)
(* acquire, through timeouts, failed queries and verdicts: none leaks, so  *)
(* a burst of failures cannot leave the gateway answering 503 for ever.    *)
SlotsVerify ==
  \A k \in Keys : /\ verify[k] = "none" <=> call[k] = "none"
                  /\ verify[k] \in Verdicts => call[k] = "holding"

(* auth.ts 54-82: every request of a burst is answered, the ones that share *)
(* a verification and the ones whose verification never gets a slot too.    *)
RequestAnswered ==
  \A r \in Checks : (check[r].phase \in {"lookup", "joined"}) ~> (check[r].phase \in Answers)

(* auth.ts 105, 128-132: the gateway is told nothing of a revoked key, yet *)
(* verdicts read before the revocation, cached or on their way to the      *)
(* cache, die out, and from then on no request with the key is accepted.   *)
RevokedKeyIsRefused ==
  \A k \in Keys :
    <>[](keyRow[k] = "bad") =>
      <>[][\A r \in Checks :
             check'[r] = [key |-> k, phase |-> "accepted"] => check'[r] = check[r]]_keyAuthVars

(* auth.ts 54-70: whatever ends a verification answers every request that  *)
(* shares it, so that none waits for a promise nobody settles; this is     *)
(* what RequestAnswered rests on.                                          *)
NoRequestOrphaned ==
  \A r \in Checks : check[r].phase = "joined" => verify[check[r].key] # "none"

(* No verdict from before the revocation of k is left. *)
Forgotten(k) ==
  /\ keyRow[k] = "bad" /\ cachedKey[k] # "good" /\ verify[k] # "good"
  /\ \A i \in DOMAIN writes[k] : writes[k][i] # "good"

(* auth.ts 54-82, 105, 128-132: a revoked key whose old verdicts have died *)
(* out stays without any and is not accepted again before its row changes, *)
(* whatever verifications, cache writes and expiries are still to come;    *)
(* this is what RevokedKeyIsRefused rests on.                              *)
RevocationLasts ==
  [][\A k \in Keys : Forgotten(k) /\ keyRow'[k] = "bad" =>
       /\ Forgotten(k)'
       /\ \A r \in Checks :
            check'[r] = [key |-> k, phase |-> "accepted"] => check'[r] = check[r]]_keyAuthVars
=============================================================================
