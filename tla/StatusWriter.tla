---------------------------- MODULE StatusWriter ----------------------------
(***************************************************************************)
(* The tether's buffer of installation states: reports are queued, the     *)
(* newest of each installation only, and written in batches; a failed      *)
(* batch goes back behind whatever was queued meanwhile.                   *)
(*                                                                         *)
(* A state is its place in the order in which the tether queued the        *)
(* reports of its installation, and each changes the member's stage, which *)
(* is what the group's other members are told of.  0 is no state.          *)
(***************************************************************************)
EXTENDS Integers

CONSTANTS
  Installations,
  MaxReports      \* bound on the reports of one installation

ASSUME MaxReportsAssumption == MaxReports \in Nat \ {0}

(* Calls of flushPending that may be under way: the one the timer started, *)
(* one that it started while that still ran, and the one flushAndStop      *)
(* makes itself.                                                           *)
TimerFlushes == {"timer", "overlap"}
Flushes == TimerFlushes \cup {"stop"}

Reports == 0 .. MaxReports

NoStates == [i \in Installations |-> 0]

VARIABLES
  accepted,     \* history: newest state queued
  pendingStates,
  stateTimer,   \* the timer is set
  flushing,     \* the promise of the timer's flush is there
  phase,        \* of each flush
  batch,        \* what each flush took
  seen,         \* the stored stages each flush compares with
  stored,       \* model_installation_state
  exists,       \* the installation's row is there
  mode,         \* of the process
  told,         \* history: newest stage the listeners were given
  lost,         \* history: newest state queued before the process last died
  untold        \* history: a write whose caller never learnt of it

bufferVars == <<accepted, pendingStates, stateTimer>>
flushVars == <<flushing, phase, batch, seen>>
historyVars == <<told, lost, untold>>
writerVars == <<bufferVars, flushVars, stored, exists, mode, historyVars>>

WriterTypeOK ==
  /\ accepted \in [Installations -> Reports]
  /\ pendingStates \in [Installations -> Reports]
  /\ stateTimer \in BOOLEAN
  /\ flushing \in BOOLEAN
  /\ phase \in [Flushes -> {"idle", "reading", "writing", "written", "refused", "failed"}]
  /\ batch \in [Flushes -> [Installations -> Reports]]
  /\ seen \in [Flushes -> [Installations -> Reports]]
  /\ stored \in [Installations -> Reports]
  /\ exists \in [Installations -> BOOLEAN]
  /\ mode \in {"serving", "stopping", "flushed"}
  /\ told \in [Installations -> Reports]
  /\ lost \in [Installations -> Reports]
  /\ untold \in [Installations -> BOOLEAN]

WriterInit ==
  /\ accepted = NoStates
  /\ pendingStates = NoStates
  /\ stateTimer = FALSE
  /\ flushing = FALSE
  /\ phase = [f \in Flushes |-> "idle"]
  /\ batch = [f \in Flushes |-> NoStates]
  /\ seen = [f \in Flushes |-> NoStates]
  /\ stored = NoStates
  /\ exists = [i \in Installations |-> TRUE]
  /\ mode = "serving"
  /\ told = NoStates
  /\ lost = NoStates
  /\ untold = [i \in Installations |-> FALSE]

(* Mutant of scheduleFlush: a running flush does not keep the timer unset. *)
scheduleAnyway == stateTimer' = (stateTimer \/ pendingStates' # NoStates)

(* Nothing is scheduled while a flush runs: it does so itself when it ends. *)
scheduleFlush == stateTimer' = (stateTimer \/ (~flushing' /\ pendingStates' # NoStates))

(* A report that passed partitionOwnedStates.  Its installation was there  *)
(* when that looked, and may be gone by now.                               *)
queueInstallationStates(i) ==
  /\ accepted[i] < MaxReports
  /\ accepted' = [accepted EXCEPT ![i] = @ + 1]
  /\ pendingStates' = [pendingStates EXCEPT ![i] = accepted[i] + 1]
  /\ UNCHANGED flushing
  /\ scheduleFlush
  /\ UNCHANGED <<phase, batch, seen, stored, exists, mode, historyVars>>

(* flushPending up to its first await: the batch is taken. *)
flushPending(f) ==
  /\ phase[f] = "idle"
  /\ phase' = [phase EXCEPT ![f] = IF pendingStates = NoStates THEN "idle" ELSE "reading"]
  /\ batch' = [batch EXCEPT ![f] = pendingStates]
  /\ pendingStates' = NoStates
  /\ UNCHANGED seen

timerFires ==
  /\ stateTimer
  /\ stateTimer' = FALSE
  /\ flushing' = (pendingStates # NoStates)
  /\ flushPending(IF phase["timer"] = "idle" THEN "timer" ELSE "overlap")
  /\ UNCHANGED <<accepted, stored, exists, mode, historyVars>>

(* writeStates: the stored stages are read before they are overwritten. *)
readStored(f) ==
  /\ phase[f] = "reading"
  /\ phase' = [phase EXCEPT ![f] = "writing"]
  /\ seen' = [seen EXCEPT ![f] = stored]
  /\ UNCHANGED <<bufferVars, flushing, batch, stored, exists, mode, historyVars>>

(* Every installation of the batch has its row, or the insert fails. *)
Insertable(f) == \A i \in Installations : batch[f][i] # 0 => exists[i]

Inserted(f) == [i \in Installations |-> IF batch[f][i] # 0 THEN batch[f][i] ELSE stored[i]]

(* Mutant of writeStates: the stages are read after the insert. *)
insertThenRead(f) ==
  /\ phase[f] = "writing"
  /\ Insertable(f)
  /\ stored' = Inserted(f)
  /\ seen' = [seen EXCEPT ![f] = stored']
  /\ phase' = [phase EXCEPT ![f] = "written"]
  /\ UNCHANGED <<bufferVars, flushing, batch, exists, mode, historyVars>>

insert(f) ==
  /\ phase[f] = "writing"
  /\ Insertable(f)
  /\ stored' = Inserted(f)
  /\ phase' = [phase EXCEPT ![f] = "written"]
  /\ UNCHANGED <<bufferVars, flushing, batch, seen, exists, mode, historyVars>>

(* The insert is committed and its answer lost. *)
insertUnanswered(f) ==
  /\ phase[f] = "writing"
  /\ Insertable(f)
  /\ stored' = Inserted(f)
  /\ phase' = [phase EXCEPT ![f] = "failed"]
  /\ untold' = [i \in Installations |-> untold[i] \/ batch[f][i] # 0]
  /\ UNCHANGED <<bufferVars, flushing, batch, seen, exists, mode, told, lost>>

(* The foreign key of a vanished installation. *)
insertRefused(f) ==
  /\ phase[f] = "writing"
  /\ ~Insertable(f)
  /\ phase' = [phase EXCEPT ![f] = "refused"]
  /\ UNCHANGED <<bufferVars, flushing, batch, seen, stored, exists, mode, historyVars>>

(* Either query fails without effect. *)
queryFails(f) ==
  /\ phase[f] \in {"reading", "writing"}
  /\ phase' = [phase EXCEPT ![f] = "failed"]
  /\ UNCHANGED <<bufferVars, flushing, batch, seen, stored, exists, mode, historyVars>>

stageChanges(f) == {i \in Installations : batch[f][i] # 0 /\ batch[f][i] # seen[f][i]}

(* A flush ends: its promise settles, and the timer's schedules the next. *)
settle(f) ==
  /\ phase' = [phase EXCEPT ![f] = "idle"]
  /\ batch' = [batch EXCEPT ![f] = NoStates]
  /\ seen' = [seen EXCEPT ![f] = NoStates]
  /\ IF f \in TimerFlushes THEN flushing' = FALSE /\ scheduleFlush
                           ELSE UNCHANGED <<flushing, stateTimer>>

(* The listeners hear of the stages that changed. *)
tellListeners(f) ==
  /\ phase[f] = "written"
  /\ told' = [i \in Installations |-> IF i \in stageChanges(f) THEN batch[f][i] ELSE told[i]]
  /\ UNCHANGED pendingStates
  /\ settle(f)
  /\ UNCHANGED <<accepted, stored, exists, mode, lost, untold>>

(* Mutant of flushPending: the batch overwrites what came in meanwhile. *)
requeueOverNewer(states) ==
  pendingStates' = [i \in Installations |-> IF states[i] # 0 THEN states[i] ELSE pendingStates[i]]

(* States of a failed batch are queued again unless a newer one is there. *)
requeue(states) ==
  pendingStates' = [i \in Installations |-> IF pendingStates[i] # 0 THEN pendingStates[i] ELSE states[i]]

(* Mutant of withoutVanishedInstallations: nothing is dropped. *)
keepAll(f) == batch[f]

withoutVanishedInstallations(f) ==
  [i \in Installations |-> IF exists[i] THEN batch[f][i] ELSE 0]

(* Another error, or the look-up of the installations fails as well. *)
retryLater(f) ==
  /\ phase[f] \in {"failed", "refused"}
  /\ requeue(batch[f])
  /\ settle(f)
  /\ UNCHANGED <<accepted, stored, exists, mode, historyVars>>

retryWithoutVanished(f) ==
  /\ phase[f] = "refused"
  /\ requeue(withoutVanishedInstallations(f))
  /\ settle(f)
  /\ UNCHANGED <<accepted, stored, exists, mode, historyVars>>

(* A hard-deleted installation takes its state with it. *)
Vanish(i) ==
  /\ exists[i]
  /\ exists' = [exists EXCEPT ![i] = FALSE]
  /\ stored' = [stored EXCEPT ![i] = 0]
  /\ UNCHANGED <<bufferVars, flushVars, mode, historyVars>>

(* The process dies with its memory. *)
crash ==
  /\ pendingStates' = NoStates
  /\ stateTimer' = FALSE
  /\ flushing' = FALSE
  /\ phase' = [f \in Flushes |-> "idle"]
  /\ batch' = [f \in Flushes |-> NoStates]
  /\ seen' = [f \in Flushes |-> NoStates]
  /\ mode' = "serving"
  /\ lost' = accepted
  /\ untold' = [i \in Installations |-> untold[i] \/ \E f \in Flushes : batch[f][i] # 0]
  /\ UNCHANGED <<accepted, stored, exists, told>>

(* shutdown has drained its requests, or waited for them long enough.      *)
(* flushAndStop awaits the timer's flush and then flushes itself, which    *)
(* the flushing promise does not show.                                     *)
flushAndStop ==
  /\ mode = "serving"
  /\ mode' = "stopping"
  /\ UNCHANGED <<bufferVars, flushVars, stored, exists, historyVars>>

finalFlush ==
  /\ mode = "stopping"
  /\ ~flushing
  /\ mode' = "flushed"
  /\ stateTimer' = FALSE
  /\ flushPending("stop")
  /\ UNCHANGED flushing
  /\ UNCHANGED <<accepted, stored, exists, historyVars>>

Flush(f) ==
  \/ readStored(f) \/ insert(f) \/ insertUnanswered(f) \/ insertRefused(f) \/ queryFails(f)
  \/ tellListeners(f) \/ retryLater(f) \/ retryWithoutVanished(f)

ServingNext ==
  \/ timerFires
  \/ \E i \in Installations : queueInstallationStates(i) \/ Vanish(i)
  \/ \E f \in TimerFlushes : Flush(f)
  \/ crash

WriterNext == ServingNext \/ flushAndStop \/ finalFlush \/ Flush("stop")

(* A process that is not shut down. *)
ServingSpec == WriterInit /\ [][ServingNext]_writerVars

WriterSpec == WriterInit /\ [][WriterNext]_writerVars

(* The timer fires; queries end, and do not fail for ever. *)
WriterFairness ==
  /\ WF_writerVars(timerFires)
  /\ \A f \in TimerFlushes : WF_writerVars(Flush(f))
  /\ SF_writerVars(\E f \in TimerFlushes : readStored(f))
  /\ SF_writerVars(\E f \in TimerFlushes : insert(f) \/ insertUnanswered(f) \/ insertRefused(f))
  /\ SF_writerVars(\E f \in TimerFlushes : retryWithoutVanished(f))

WriterFairSpec == ServingSpec /\ WriterFairness

(***************************************************************************)
(* Properties                                                              *)
(***************************************************************************)

(* status-writer.ts 137-183: until it is stored, the newest state queued   *)
(* since the process started is in the buffer or in the running batch,     *)
(* through failed flushes, vanished neighbours and states queued meanwhile.*)
NewestIsKept ==
  \A i \in Installations :
    accepted[i] > lost[i] /\ exists[i] =>
      accepted[i] \in {pendingStates[i], stored[i]} \cup {batch[f][i] : f \in TimerFlushes}

(* status-writer.ts 144-158: a state that is accepted and not yet stored   *)
(* never waits for the next report to be written: the timer is set, or a   *)
(* flush runs that takes it along or sets the timer when it ends.          *)
UnstoredHasAFlush ==
  \A i \in Installations :
    accepted[i] > lost[i] /\ exists[i] /\ stored[i] # accepted[i] => stateTimer \/ flushing

(* status-writer.ts 170-173: members hear of every stored stage, unless    *)
(* the write was never answered.                                           *)
StoredStagesAreTold ==
  \A i \in Installations :
    ~flushing /\ exists[i] /\ ~untold[i] => told[i] = stored[i]

(* status-writer.ts 144: "One flush at a time, so an older batch can never *)
(* land after a newer one."                                                *)
OlderNeverAfterNewer ==
  [][\A i \in Installations : exists'[i] => stored'[i] >= stored[i]]_writerVars

Registers == INSTANCE StateRegister

(* status-writer.ts 137-183: buffer, batches, retries and crashes together *)
(* keep what StateRegister promises: the table moves forward only, to      *)
(* states that were accepted by the process that writes them.              *)
KeepsRegisterPromise == Registers!RegisterSpec

(* status-writer.ts 219-241: an accepted state is written in the end,      *)
(* whatever neighbour in its batch has vanished.                           *)
AcceptedIsStored ==
  \A i \in Installations : \A v \in 1 .. MaxReports :
    (accepted[i] = v) ~> (stored[i] >= v \/ ~exists[i] \/ lost[i] >= v)
=============================================================================
