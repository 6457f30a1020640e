------------------------- MODULE StatusWriterProofs -------------------------
(***************************************************************************)
(* For any installations and any number of reports, while the process is   *)
(* not shut down: the newest state is kept until it is stored and is on    *)
(* its way there, no older one lands after it, the members hear of what is *)
(* stored, and the writer implements StateRegister.                        *)
(***************************************************************************)
EXTENDS StatusWriter, TLAPS

(* Only the timer's flush is ever under way, and no timer is set beside it. *)
OneFlush ==
  /\ phase["overlap"] = "idle" /\ phase["stop"] = "idle"
  /\ flushing <=> phase["timer"] # "idle"
  /\ stateTimer => ~flushing
  /\ \A f \in Flushes : phase[f] = "idle" => batch[f] = NoStates

(* A queued state is the newest accepted; a batch that nothing was queued  *)
(* behind holds the newest, and what is stored is not newer than a batch.  *)
InOrder(i) ==
  LET b == batch["timer"][i] IN
  /\ pendingStates[i] \in {0, accepted[i]}
  /\ b =< accepted[i]
  /\ b # 0 /\ pendingStates[i] = 0 => b = accepted[i]
  /\ stored[i] =< accepted[i]
  /\ b # 0 => stored[i] =< b
  /\ phase["timer"] = "written" /\ b # 0 /\ exists[i] => stored[i] = b
  /\ accepted[i] > lost[i] /\ exists[i] => accepted[i] \in {pendingStates[i], stored[i], b}

(* What the listeners were told is what is stored, or what the running     *)
(* flush compares its batch with.                                          *)
Told(i) ==
  exists[i] =>
    /\ phase["timer"] = "writing" => seen["timer"][i] = stored[i]
    /\ phase["timer"] = "written" /\ batch["timer"][i] = 0 => seen["timer"][i] = stored[i]
    /\ ~untold[i] => told[i] = IF phase["timer"] = "written" THEN seen["timer"][i] ELSE stored[i]

ServingInv ==
  /\ WriterTypeOK
  /\ OneFlush
  /\ \A i \in Installations : InOrder(i) /\ Told(i)

(* The empty buffer is a buffer. *)
LEMMA NoStatesType ==
  /\ NoStates \in [Installations -> Reports]
  /\ \A i \in Installations : NoStates[i] = 0
BY MaxReportsAssumption DEF NoStates, Reports

(* Both hold of the empty buffer. *)
LEMMA ServingInit == WriterInit => ServingInv
<1> SUFFICES ASSUME WriterInit PROVE ServingInv
  OBVIOUS
<1> USE MaxReportsAssumption, NoStatesType DEF WriterInit, Flushes, TimerFlushes
<1>1. WriterTypeOK
  BY DEF WriterTypeOK
<1>2. OneFlush
  BY DEF OneFlush
<1>3. ASSUME NEW i \in Installations PROVE InOrder(i)
  <2>1. /\ accepted[i] = 0 /\ pendingStates[i] = 0 /\ stored[i] = 0 /\ lost[i] = 0
        /\ batch["timer"][i] = 0
    OBVIOUS
  <2> QED
    BY <2>1 DEF InOrder
<1>4. \A i \in Installations : Told(i)
  BY DEF Told
<1> QED
  BY <1>1, <1>2, <1>3, <1>4 DEF ServingInv

(* scheduleFlush leaves the timer set or unset. *)
LEMMA ScheduleType == scheduleFlush => stateTimer' \in BOOLEAN
BY Zenon DEF scheduleFlush

(* Every step keeps the types.  A report is queued only below the bound. *)
LEMMA TypeStep == WriterTypeOK /\ [ServingNext]_writerVars => WriterTypeOK'
<1> SUFFICES ASSUME WriterTypeOK, [ServingNext]_writerVars PROVE WriterTypeOK'
  OBVIOUS
<1> USE MaxReportsAssumption, NoStatesType DEF WriterTypeOK, Flushes, TimerFlushes
<1>1. ASSUME NEW i \in Installations, queueInstallationStates(i) PROVE WriterTypeOK'
  <2>1. stateTimer' \in BOOLEAN
    BY <1>1, ScheduleType DEF queueInstallationStates
  <2> QED
    BY <1>1, <2>1 DEF queueInstallationStates, historyVars, Reports
<1>2. ASSUME NEW i \in Installations, Vanish(i) PROVE WriterTypeOK'
  BY <1>2 DEF Vanish, Reports, bufferVars, flushVars, historyVars
<1>3. CASE timerFires
  <2>1. flushing' \in BOOLEAN
    BY <1>3, Zenon DEF timerFires
  <2>2. PICK f \in TimerFlushes : flushPending(f)
    BY <1>3 DEF timerFires
  <2>3. /\ phase' \in [Flushes -> {"idle", "reading", "writing", "written", "refused", "failed"}]
        /\ batch' \in [Flushes -> [Installations -> Reports]]
        /\ pendingStates' \in [Installations -> Reports] /\ seen' = seen
    BY <2>2 DEF flushPending
  <2> QED
    BY <1>3, <2>1, <2>3 DEF timerFires, historyVars
<1>4. ASSUME NEW f \in TimerFlushes, readStored(f) PROVE WriterTypeOK'
  BY <1>4 DEF readStored, bufferVars, historyVars
<1>5. ASSUME NEW f \in TimerFlushes, insert(f) PROVE WriterTypeOK'
  BY <1>5 DEF insert, Inserted, bufferVars, historyVars
<1>6. ASSUME NEW f \in TimerFlushes, insertUnanswered(f) PROVE WriterTypeOK'
  <2>1. untold' \in [Installations -> BOOLEAN]
    BY <1>6, Zenon DEF insertUnanswered
  <2> QED
    BY <1>6, <2>1 DEF insertUnanswered, Inserted, bufferVars
<1>7. ASSUME NEW f \in TimerFlushes, insertRefused(f) \/ queryFails(f) PROVE WriterTypeOK'
  BY <1>7 DEF insertRefused, queryFails, bufferVars, historyVars
<1>8. ASSUME NEW f \in TimerFlushes, settle(f)
      PROVE  /\ phase' \in [Flushes -> {"idle", "reading", "writing", "written", "refused", "failed"}]
             /\ batch' \in [Flushes -> [Installations -> Reports]]
             /\ seen' \in [Flushes -> [Installations -> Reports]]
             /\ flushing' \in BOOLEAN /\ stateTimer' \in BOOLEAN
  BY <1>8, ScheduleType DEF settle
<1>9. ASSUME NEW f \in TimerFlushes, tellListeners(f) PROVE WriterTypeOK'
  BY <1>9, <1>8 DEF tellListeners
<1>10. ASSUME NEW f \in TimerFlushes, retryLater(f) PROVE WriterTypeOK'
  BY <1>10, <1>8 DEF retryLater, requeue, historyVars
<1>11. ASSUME NEW f \in TimerFlushes, retryWithoutVanished(f) PROVE WriterTypeOK'
  BY <1>11, <1>8 DEF retryWithoutVanished, Reports, withoutVanishedInstallations, requeue, historyVars
<1>12. CASE crash
  <2>1. untold' \in [Installations -> BOOLEAN]
    BY <1>12, Zenon DEF crash
  <2> QED
    BY <1>12, <2>1 DEF crash
<1>13. CASE UNCHANGED writerVars
  BY <1>13 DEF writerVars, bufferVars, flushVars, historyVars
<1> QED
  BY <1>1, <1>2, <1>3, <1>4, <1>5, <1>6, <1>7, <1>9, <1>10, <1>11, <1>12, <1>13 DEF ServingNext, Flush

(* A flush that starts is the timer's: the timer is unset while one runs. *)
LEMMA TimerStarts ==
  ASSUME WriterTypeOK, OneFlush, timerFires
  PROVE  /\ flushPending("timer") /\ phase["timer"] = "idle"
         /\ phase'["timer"] = "reading" <=> pendingStates # NoStates
         /\ phase'["timer"] \in {"idle", "reading"}
BY DEF timerFires, OneFlush, flushPending, WriterTypeOK, Flushes, TimerFlushes

(* A flush that takes a step is the timer's. *)
LEMMA TimerSteps ==
  ASSUME OneFlush, NEW f \in TimerFlushes, Flush(f)
  PROVE  f = "timer"
BY DEF OneFlush, TimerFlushes, Flush, readStored, insert, insertUnanswered, insertRefused,
       queryFails, tellListeners, retryLater, retryWithoutVanished

(* One flush at a time, kept by every step. *)
LEMMA OneFlushStep == WriterTypeOK /\ OneFlush /\ [ServingNext]_writerVars => OneFlush'
<1> SUFFICES ASSUME WriterTypeOK, OneFlush, [ServingNext]_writerVars PROVE OneFlush'
  OBVIOUS
<1> USE DEF WriterTypeOK, OneFlush, Flushes, TimerFlushes
<1>1. ASSUME NEW i \in Installations, queueInstallationStates(i) PROVE OneFlush'
  BY <1>1 DEF queueInstallationStates, scheduleFlush
<1>2. ASSUME NEW i \in Installations, Vanish(i) PROVE OneFlush'
  BY <1>2 DEF Vanish, bufferVars, flushVars
<1>3. CASE timerFires
  BY <1>3, TimerStarts, NoStatesType DEF timerFires, flushPending
<1>4. ASSUME readStored("timer") \/ insert("timer") \/ insertUnanswered("timer")
               \/ insertRefused("timer") \/ queryFails("timer")
      PROVE  OneFlush'
  BY <1>4 DEF readStored, insert, insertUnanswered, insertRefused, queryFails, bufferVars
<1>5. ASSUME settle("timer") PROVE OneFlush'
  BY <1>5 DEF settle, scheduleFlush
<1>6. ASSUME tellListeners("timer") \/ retryLater("timer") \/ retryWithoutVanished("timer")
      PROVE  OneFlush'
  BY <1>5, <1>6 DEF tellListeners, retryLater, retryWithoutVanished
<1>7. CASE crash
  BY <1>7 DEF crash
<1>8. CASE UNCHANGED writerVars
  BY <1>8 DEF writerVars, bufferVars, flushVars
<1> QED
  BY <1>1, <1>2, <1>3, <1>4, <1>6, <1>7, <1>8, TimerSteps DEF ServingNext, Flush

(* The values one installation has, as numbers. *)
LEMMA Numbers ==
  ASSUME WriterTypeOK, NEW i \in Installations
  PROVE  /\ accepted[i] \in Nat /\ pendingStates[i] \in Nat /\ stored[i] \in Nat
         /\ told[i] \in Nat /\ lost[i] \in Nat
         /\ batch["timer"][i] \in Nat /\ seen["timer"][i] \in Nat
         /\ exists[i] \in BOOLEAN /\ untold[i] \in BOOLEAN
BY MaxReportsAssumption DEF WriterTypeOK, Reports, Flushes, TimerFlushes

(* Order and hearing, kept by every step of any actor. *)
LEMMA OrderStep ==
  ASSUME ServingInv, [ServingNext]_writerVars, NEW j \in Installations
  PROVE  InOrder(j)' /\ Told(j)'
<1> USE DEF ServingInv
<1>0. InOrder(j) /\ Told(j) /\ WriterTypeOK /\ OneFlush
  OBVIOUS
<1>n. /\ accepted[j] \in Nat /\ pendingStates[j] \in Nat /\ stored[j] \in Nat
      /\ told[j] \in Nat /\ lost[j] \in Nat
      /\ batch["timer"][j] \in Nat /\ seen["timer"][j] \in Nat
      /\ exists[j] \in BOOLEAN /\ untold[j] \in BOOLEAN
  BY Numbers
<1>1. ASSUME NEW i \in Installations, queueInstallationStates(i)
      PROVE  InOrder(j)' /\ Told(j)'
  BY <1>0, <1>1, <1>n DEF queueInstallationStates, historyVars, InOrder, Told, WriterTypeOK
<1>2. ASSUME NEW i \in Installations, Vanish(i)
      PROVE  InOrder(j)' /\ Told(j)'
  BY <1>0, <1>2, <1>n DEF Vanish, bufferVars, flushVars, historyVars, InOrder, Told, WriterTypeOK
<1>3. CASE timerFires
  <2>1. /\ batch["timer"][j] = 0
        /\ batch'["timer"][j] = pendingStates[j] /\ pendingStates'[j] = 0
        /\ phase["timer"] = "idle" /\ phase'["timer"] \in {"idle", "reading"}
    BY <1>0, <1>3, TimerStarts, NoStatesType DEF flushPending, WriterTypeOK, OneFlush, Flushes, TimerFlushes
  <2>2. UNCHANGED <<accepted, stored, exists, told, lost, untold>>
    BY <1>3 DEF timerFires, historyVars
  <2> QED
    BY <1>0, <1>n, <2>1, <2>2 DEF InOrder, Told
<1>4. CASE readStored("timer")
  BY <1>0, <1>4, <1>n DEF readStored, bufferVars, historyVars, InOrder, Told, WriterTypeOK, Flushes, TimerFlushes
<1>5. ASSUME insert("timer") \/ insertUnanswered("timer")
      PROVE  InOrder(j)' /\ Told(j)'
  <2>1. /\ phase["timer"] = "writing" /\ phase'["timer"] \in {"written", "failed"}
        /\ stored'[j] = IF batch["timer"][j] # 0 THEN batch["timer"][j] ELSE stored[j]
        /\ UNCHANGED <<accepted, pendingStates, batch, seen, exists, told, lost>>
    BY <1>0, <1>5 DEF insert, insertUnanswered, Inserted, bufferVars, historyVars, WriterTypeOK, Flushes, TimerFlushes
  <2>2. phase'["timer"] = "failed" => (untold'[j] <=> untold[j] \/ batch["timer"][j] # 0)
    BY <1>0, <1>5 DEF insert, insertUnanswered, WriterTypeOK, Flushes, TimerFlushes
  <2>3. phase'["timer"] = "written" => untold'[j] = untold[j]
    BY <1>0, <1>5 DEF insert, insertUnanswered, historyVars, WriterTypeOK, Flushes, TimerFlushes
  <2> QED
    BY <1>0, <1>n, <2>1, <2>2, <2>3 DEF InOrder, Told
<1>6. ASSUME insertRefused("timer") \/ queryFails("timer")
      PROVE  InOrder(j)' /\ Told(j)'
  <2>1. /\ phase["timer"] \in {"reading", "writing"} /\ phase'["timer"] \in {"refused", "failed"}
        /\ UNCHANGED <<accepted, pendingStates, batch, seen, stored, exists, told, lost, untold>>
    BY <1>0, <1>6 DEF insertRefused, queryFails, bufferVars, historyVars, WriterTypeOK, Flushes, TimerFlushes
  <2> QED
    BY <1>0, <1>n, <2>1 DEF InOrder, Told
<1>7. ASSUME settle("timer")
      PROVE  phase'["timer"] = "idle" /\ batch'["timer"][j] = 0
  BY <1>0, <1>7, NoStatesType DEF settle, WriterTypeOK, Flushes, TimerFlushes
<1>8. CASE tellListeners("timer")
  <2>1. /\ phase["timer"] = "written"
        /\ phase'["timer"] = "idle" /\ batch'["timer"][j] = 0
        /\ UNCHANGED <<accepted, pendingStates, stored, exists, lost, untold>>
    BY <1>7, <1>8 DEF tellListeners
  <2>2. told'[j] = IF batch["timer"][j] # 0 /\ batch["timer"][j] # seen["timer"][j]
                   THEN batch["timer"][j] ELSE told[j]
    BY <1>8 DEF tellListeners, stageChanges
  <2> QED
    BY <1>0, <1>n, <2>1, <2>2 DEF InOrder, Told
<1>9. ASSUME retryLater("timer") \/ retryWithoutVanished("timer")
      PROVE  InOrder(j)' /\ Told(j)'
  <2>1. /\ phase["timer"] \in {"failed", "refused"}
        /\ phase'["timer"] = "idle" /\ batch'["timer"][j] = 0
        /\ UNCHANGED <<accepted, stored, exists, told, lost, untold>>
    BY <1>7, <1>9 DEF retryLater, retryWithoutVanished, historyVars
  <2>2. \/ pendingStates'[j] = pendingStates[j] /\ (pendingStates[j] # 0 \/ ~exists[j])
        \/ pendingStates'[j] = batch["timer"][j] /\ pendingStates[j] = 0
    BY <1>9, <1>n DEF retryLater, retryWithoutVanished, withoutVanishedInstallations, requeue
  <2> QED
    BY <1>0, <1>n, <2>1, <2>2 DEF InOrder, Told
<1>10. CASE crash
  <2>1. /\ phase'["timer"] = "idle" /\ batch'["timer"][j] = 0 /\ pendingStates'[j] = 0
        /\ lost'[j] = accepted[j]
        /\ UNCHANGED <<accepted, stored, exists, told>>
    BY <1>10, NoStatesType DEF crash, Flushes, TimerFlushes
  <2>2. untold[j] \/ batch["timer"][j] # 0 => untold'[j]
    BY <1>10, Zenon DEF crash, Flushes, TimerFlushes
  <2> QED
    BY <1>0, <1>n, <2>1, <2>2 DEF InOrder, Told
<1>11. CASE UNCHANGED writerVars
  BY <1>0, <1>11 DEF writerVars, bufferVars, flushVars, historyVars, InOrder, Told
<1> QED
  BY <1>1, <1>2, <1>3, <1>4, <1>5, <1>6, <1>8, <1>9, <1>10, <1>11, TimerSteps DEF ServingNext, Flush

(* The three parts together are inductive. *)
LEMMA ServingInvariance == ServingSpec => []ServingInv
<1>1. ServingInv /\ [ServingNext]_writerVars => ServingInv'
  <2> SUFFICES ASSUME ServingInv, [ServingNext]_writerVars PROVE ServingInv'
    OBVIOUS
  <2>1. WriterTypeOK' /\ OneFlush'
    BY TypeStep, OneFlushStep DEF ServingInv
  <2>2. \A j \in Installations : InOrder(j)' /\ Told(j)'
    BY OrderStep
  <2> QED
    BY <2>1, <2>2 DEF ServingInv
<1> QED
  BY <1>1, ServingInit, PTL DEF ServingSpec

(* status-writer.ts 137-183: through failed, refused and unanswered        *)
(* flushes and the states queued meanwhile, the newest state is never      *)
(* dropped before it is stored.                                            *)
THEOREM NewestKept == ServingSpec => []NewestIsKept
<1>1. ServingInv => NewestIsKept
  BY Numbers DEF ServingInv, InOrder, NewestIsKept, TimerFlushes
<1> QED
  BY <1>1, ServingInvariance, PTL

(* What is queued is on its way to a flush. *)
Scheduled == pendingStates # NoStates => stateTimer \/ flushing

LEMMA ScheduledStep == Scheduled /\ [ServingNext]_writerVars => Scheduled'
<1> SUFFICES ASSUME Scheduled, [ServingNext]_writerVars PROVE Scheduled'
  OBVIOUS
<1>1. ASSUME scheduleFlush PROVE Scheduled'
  BY <1>1 DEF scheduleFlush, Scheduled, NoStates
<1>2. ASSUME pendingStates' = NoStates PROVE Scheduled'
  BY <1>2 DEF Scheduled, NoStates
<1>3. ASSUME UNCHANGED <<pendingStates, stateTimer, flushing>> PROVE Scheduled'
  BY <1>3 DEF Scheduled, NoStates
<1>4. ASSUME NEW f \in TimerFlushes, Flush(f) PROVE Scheduled'
  BY <1>1, <1>3, <1>4
     DEF Flush, readStored, insert, insertUnanswered, insertRefused, queryFails, tellListeners,
         retryLater, retryWithoutVanished, settle, bufferVars
<1> QED
  BY <1>1, <1>2, <1>3, <1>4
     DEF ServingNext, timerFires, flushPending, queueInstallationStates, Vanish, crash,
         writerVars, bufferVars, flushVars

(* status-writer.ts 144-158: through failed, refused and unanswered        *)
(* flushes, a state that is accepted and not stored has the timer set or a *)
(* flush running.                                                          *)
THEOREM UnstoredIsFlushed == ServingSpec => []UnstoredHasAFlush
<1>1. WriterInit => Scheduled
  BY DEF WriterInit, Scheduled
<1>2. ServingInv /\ Scheduled => UnstoredHasAFlush
  <2> SUFFICES ASSUME ServingInv, Scheduled, NEW i \in Installations,
                      accepted[i] > lost[i], exists[i], stored[i] # accepted[i]
               PROVE  stateTimer \/ flushing
    BY DEF UnstoredHasAFlush
  <2>1. accepted[i] \in {pendingStates[i], batch["timer"][i]} /\ accepted[i] \in Nat /\ lost[i] \in Nat
    BY Numbers DEF ServingInv, InOrder
  <2>2. accepted[i] # 0
    BY <2>1
  <2>3. CASE pendingStates[i] # 0
    BY <2>3, NoStatesType DEF Scheduled
  <2>4. CASE batch["timer"][i] # 0
    BY <2>4, NoStatesType DEF ServingInv, OneFlush, Flushes, TimerFlushes
  <2> QED
    BY <2>1, <2>2, <2>3, <2>4
<1>3. ServingInv => WriterTypeOK /\ OneFlush
  BY DEF ServingInv
<1> QED
  BY <1>1, <1>2, <1>3, ScheduledStep, ServingInvariance, PTL DEF ServingSpec

(* status-writer.ts 170-173: outside a flush, the group's members were     *)
(* told of what is stored, unless the write was never answered.            *)
THEOREM MembersHear == ServingSpec => []StoredStagesAreTold
<1>1. ServingInv => StoredStagesAreTold
  BY DEF ServingInv, OneFlush, Told, StoredStagesAreTold
<1> QED
  BY <1>1, ServingInvariance, PTL

(* status-writer.ts 144: while the process serves, an older batch never    *)
(* lands after a newer one.                                                *)
THEOREM ForwardOnly == ServingSpec => OlderNeverAfterNewer
<1>1. ASSUME ServingInv, [ServingNext]_writerVars
      PROVE  [\A i \in Installations : exists'[i] => stored'[i] >= stored[i]]_writerVars
  <2> SUFFICES ASSUME ServingNext, NEW i \in Installations, exists'[i]
               PROVE  stored'[i] >= stored[i]
    BY <1>1
  <2>1. /\ stored[i] \in Nat /\ batch["timer"][i] \in Nat
        /\ batch["timer"][i] # 0 => stored[i] =< batch["timer"][i]
    BY <1>1, Numbers DEF ServingInv, InOrder
  <2>2. ASSUME NEW j \in Installations, Vanish(j) PROVE stored'[i] >= stored[i]
    BY <1>1, <2>1, <2>2 DEF Vanish, ServingInv, WriterTypeOK
  <2>3. ASSUME insert("timer") \/ insertUnanswered("timer") PROVE stored'[i] >= stored[i]
    BY <2>1, <2>3 DEF insert, insertUnanswered, Inserted
  <2>4. ASSUME NEW f \in TimerFlushes, Flush(f) PROVE stored'[i] >= stored[i]
    <3>1. f = "timer"
      BY <1>1, <2>4, TimerSteps DEF ServingInv
    <3> QED
      BY <2>1, <2>3, <2>4, <3>1
         DEF Flush, readStored, insertRefused, queryFails, tellListeners, retryLater, retryWithoutVanished
  <2> QED
    BY <2>1, <2>2, <2>4 DEF ServingNext, timerFires, queueInstallationStates, crash
<1> QED
  BY <1>1, ServingInvariance, PTL DEF ServingSpec, OlderNeverAfterNewer

(***************************************************************************)
(* The abstract register.  It needs one thing more: what a process that    *)
(* died had accepted is neither queued nor in a batch, so that only the    *)
(* process that accepted a state writes it.                                *)
(***************************************************************************)

AfterLoss(i) ==
  /\ lost[i] =< accepted[i]
  /\ pendingStates[i] # 0 => accepted[i] > lost[i]
  /\ batch["timer"][i] # 0 => batch["timer"][i] > lost[i]

RegisterInv == ServingInv /\ \A i \in Installations : AfterLoss(i)

LEMMA LossStep ==
  ASSUME RegisterInv, [ServingNext]_writerVars, NEW j \in Installations
  PROVE  AfterLoss(j)'
<1>0. AfterLoss(j) /\ InOrder(j) /\ WriterTypeOK /\ OneFlush
  BY DEF RegisterInv, ServingInv
<1>n. /\ accepted[j] \in Nat /\ pendingStates[j] \in Nat /\ lost[j] \in Nat /\ batch["timer"][j] \in Nat
  BY <1>0, Numbers
<1>1. ASSUME NEW i \in Installations, queueInstallationStates(i) PROVE AfterLoss(j)'
  BY <1>0, <1>1, <1>n DEF queueInstallationStates, historyVars, AfterLoss, WriterTypeOK
<1>2. ASSUME NEW i \in Installations, Vanish(i) PROVE AfterLoss(j)'
  BY <1>0, <1>2 DEF Vanish, bufferVars, flushVars, historyVars, AfterLoss
<1>3. CASE timerFires
  <2>1. batch'["timer"][j] = pendingStates[j] /\ pendingStates'[j] = 0
    BY <1>0, <1>3, TimerStarts, NoStatesType DEF flushPending, WriterTypeOK, Flushes, TimerFlushes
  <2>2. UNCHANGED <<accepted, lost>>
    BY <1>3 DEF timerFires, historyVars
  <2> QED
    BY <1>0, <1>n, <2>1, <2>2 DEF AfterLoss, InOrder
<1>4. ASSUME readStored("timer") \/ insert("timer") \/ insertUnanswered("timer")
               \/ insertRefused("timer") \/ queryFails("timer")
      PROVE  AfterLoss(j)'
  BY <1>0, <1>4 DEF readStored, insert, insertUnanswered, insertRefused, queryFails, bufferVars, historyVars, AfterLoss
<1>5. ASSUME settle("timer") PROVE batch'["timer"][j] = 0
  BY <1>0, <1>5, NoStatesType DEF settle, WriterTypeOK, Flushes, TimerFlushes
<1>6. CASE tellListeners("timer")
  BY <1>0, <1>5, <1>6 DEF tellListeners, AfterLoss
<1>7. ASSUME retryLater("timer") \/ retryWithoutVanished("timer") PROVE AfterLoss(j)'
  <2>1. batch'["timer"][j] = 0 /\ UNCHANGED <<accepted, lost>>
    BY <1>5, <1>7 DEF retryLater, retryWithoutVanished, historyVars
  <2>2. pendingStates'[j] \in {0, pendingStates[j], batch["timer"][j]}
    BY <1>7 DEF retryLater, retryWithoutVanished, withoutVanishedInstallations, requeue
  <2> QED
    BY <1>0, <1>n, <2>1, <2>2 DEF AfterLoss, InOrder
<1>8. CASE crash
  <2>1. batch'["timer"][j] = 0 /\ pendingStates'[j] = 0 /\ lost'[j] = accepted[j] /\ UNCHANGED accepted
    BY <1>8, NoStatesType DEF crash, Flushes, TimerFlushes
  <2> QED
    BY <1>n, <2>1 DEF AfterLoss
<1>9. CASE UNCHANGED writerVars
  BY <1>0, <1>9 DEF writerVars, bufferVars, flushVars, historyVars, AfterLoss
<1> QED
  BY <1>0, <1>1, <1>2, <1>3, <1>4, <1>6, <1>7, <1>8, <1>9, TimerSteps DEF ServingNext, Flush

LEMMA RegisterInvariance == ServingSpec => []RegisterInv
<1>1. WriterInit => RegisterInv
  <2> SUFFICES ASSUME WriterInit PROVE RegisterInv
    OBVIOUS
  <2>1. ASSUME NEW i \in Installations
        PROVE  lost[i] = 0 /\ accepted[i] = 0 /\ pendingStates[i] = 0 /\ batch["timer"][i] = 0
    BY NoStatesType DEF WriterInit, Flushes, TimerFlushes
  <2> QED
    BY <2>1, ServingInit DEF RegisterInv, AfterLoss
<1>2. RegisterInv /\ ServingInv' /\ [ServingNext]_writerVars => RegisterInv'
  BY LossStep DEF RegisterInv
<1> QED
  BY <1>1, <1>2, ServingInvariance, PTL DEF ServingSpec

(* A batch that is written moves registers forward, or repeats what is     *)
(* stored already.                                                         *)
LEMMA InsertStores ==
  ASSUME RegisterInv, insert("timer") \/ insertUnanswered("timer")
  PROVE  Registers!Store
<1>1. /\ stored' = Inserted("timer") /\ Insertable("timer") /\ UNCHANGED <<accepted, exists, lost>>
  BY DEF insert, insertUnanswered, bufferVars, historyVars
<1>2. stored' \in [Installations -> 0 .. MaxReports]
  BY <1>1 DEF RegisterInv, ServingInv, WriterTypeOK, Inserted, Reports, Flushes, TimerFlushes
<1>3. ASSUME NEW i \in Installations PROVE stored'[i] = stored[i] \/ Registers!Newer(i, stored'[i])
  <2>1. AfterLoss(i) /\ InOrder(i) /\ batch["timer"][i] \in Nat /\ stored[i] \in Nat
    BY Numbers DEF RegisterInv, ServingInv
  <2>2. stored'[i] = IF batch["timer"][i] # 0 THEN batch["timer"][i] ELSE stored[i]
    BY <1>1 DEF Inserted
  <2>3. batch["timer"][i] # 0 => exists[i]
    BY <1>1 DEF Insertable
  <2> QED
    BY <2>1, <2>2, <2>3 DEF AfterLoss, InOrder, Registers!Newer
<1> QED
  BY <1>1, <1>2, <1>3 DEF Registers!Store

LEMMA RegisterStep ==
  ASSUME RegisterInv, [ServingNext]_writerVars
  PROVE  [Registers!RegisterNext]_(Registers!registerVars)
<1> USE DEF Registers!registerVars
<1>0. OneFlush
  BY DEF RegisterInv, ServingInv
<1>1. ASSUME NEW i \in Installations, queueInstallationStates(i) PROVE Registers!Accept(i)
  BY <1>1 DEF queueInstallationStates, historyVars, Registers!Accept
<1>2. ASSUME NEW i \in Installations, Vanish(i) PROVE Registers!Remove(i)
  BY <1>2 DEF Vanish, bufferVars, historyVars, Registers!Remove
<1>3. CASE timerFires \/ UNCHANGED writerVars
  BY <1>3 DEF timerFires, historyVars, writerVars, bufferVars
<1>4. CASE crash
  BY <1>4 DEF crash, Registers!Lose, Registers!RegisterNext
<1>5. ASSUME NEW f \in TimerFlushes, Flush(f) PROVE Registers!Store \/ UNCHANGED Registers!registerVars
  <2>1. f = "timer"
    BY <1>0, <1>5, TimerSteps
  <2> QED
    BY <1>5, <2>1, InsertStores
       DEF Flush, readStored, insertRefused, queryFails, tellListeners, retryLater, retryWithoutVanished,
           bufferVars, historyVars
<1> QED
  BY <1>1, <1>2, <1>3, <1>4, <1>5 DEF ServingNext, Registers!RegisterNext

(* status-writer.ts 137-183: for any installations and reports, a serving  *)
(* tether implements the abstract register of each installation, through   *)
(* failed, refused and unanswered flushes and crashes.                     *)
THEOREM WriterIsARegister == ServingSpec => KeepsRegisterPromise
<1>1. WriterInit => Registers!RegisterInit
  BY DEF WriterInit, NoStates, Registers!RegisterInit, Registers!Zero
<1>2. RegisterInv /\ [ServingNext]_writerVars => [Registers!RegisterNext]_(Registers!registerVars)
  BY RegisterStep
<1> QED
  BY <1>1, <1>2, RegisterInvariance, PTL DEF ServingSpec, KeepsRegisterPromise, Registers!RegisterSpec
=============================================================================
