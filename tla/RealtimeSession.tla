-------------------------- MODULE RealtimeSession --------------------------
(***************************************************************************)
(* One realtime transcription session of the gateway,                      *)
(* llm-forward/realtime/session.ts on the socket of                        *)
(* endpoints/handle-realtime.ts.  The client's events are handled one at a *)
(* time; a turn of audio resolves its model, holds a lease on a host,      *)
(* streams to an engine and is watched by a timer, while the client        *)
(* commits, clears or leaves and the engine answers, fails or goes silent. *)
(*                                                                         *)
(* Audio is counted in units: an append carries one, and a model's cap on  *)
(* a turn is one or more.  Rates, resampling, usage records and what the   *)
(* client is told of refused events are left out.                          *)
(***************************************************************************)
EXTENDS Integers, Sequences

CONSTANTS
  Turns,       \* the turns a session may start
  NoTurn,
  Caps,        \* maxTurnSamples of the models there are
  MaxInbox     \* bound on client events waiting

ASSUME SessionAssumption == NoTurn \notin Turns /\ Caps \subseteq Nat \ {0} /\ MaxInbox \in Nat \ {0}

ClientEvents == {"update", "append", "commit", "clear"}

VARIABLES
  inbox,      \* events on the promise chain
  updating,   \* a session.update awaits its model
  cap,        \* config.maxTurnSamples, 0 without a config
  current,    \* the turn that takes audio
  turn,       \* every turn
  closed      \* the client is gone

sessionVars == <<inbox, updating, cap, current, turn, closed>>

(* engine: none before the turn starts, resolving, open; stranded when the *)
(* look-up threw.  told: the item's events sent to the client.  info: a    *)
(* ModelInfo was resolved; lease: that, less its releases.  watch: the     *)
(* timer is off, armed, or due: armed some time ago, it fires unless the   *)
(* engine is heard first.                                                  *)
NotStarted == [engine |-> "none", audio |-> 0, queued |-> 0, info |-> FALSE, lease |-> 0, told |-> <<>>,
               committed |-> FALSE, discarded |-> FALSE, ended |-> FALSE, watch |-> "off"]

SessionInit ==
  /\ inbox = <<>>
  /\ updating = FALSE /\ closed = FALSE
  /\ cap = 0
  /\ current = NoTurn
  /\ turn = [t \in Turns |-> NotStarted]

(***************************************************************************)
(* What happens to a turn                                                  *)
(***************************************************************************)

Tell(tr, event) == IF closed \/ tr.discarded THEN tr ELSE [tr EXCEPT !.told = Append(@, event)]

(* A timer that is set keeps its time. *)
arm(tr) ==
  IF tr.watch = "off" /\ tr.engine = "open" /\ ~tr.ended THEN [tr EXCEPT !.watch = "armed"] ELSE tr

disarm(tr) == [tr EXCEPT !.watch = "off"]

endTurn(tr) == [disarm(tr) EXCEPT !.ended = TRUE, !.lease = IF tr.info THEN @ - 1 ELSE @]

(* Mutant: a turn may fail after its end. *)
failTurn_Again(tr) == Tell(endTurn(tr), "error")

failTurn(tr) == IF tr.ended THEN tr ELSE Tell(endTurn(tr), "error")

(* sendFinal asks the engine for the transcript and starts the watchdog. *)
sendFinal(tr) == arm(tr)

markCommitted(tr) == [tr EXCEPT !.committed = TRUE]

commitTurn(tr) ==
  IF tr.ended THEN markCommitted(tr) ELSE sendFinal(Tell(markCommitted(tr), "committed"))

(* Mutant: whoever committed the turn, it is announced. *)
finishTurn_Announces(tr) == Tell(Tell(endTurn(markCommitted(tr)), "committed"), "completed")

(* The engine may end a turn nobody committed. *)
finishTurn(tr) ==
  LET done == endTurn(markCommitted(tr)) IN
  IF tr.committed THEN Tell(done, "completed") ELSE Tell(Tell(done, "committed"), "completed")

forwardAudio(tr) ==
  IF tr.ended THEN [tr EXCEPT !.audio = @ + 1]
  ELSE IF tr.engine = "open" THEN arm([tr EXCEPT !.audio = @ + 1])
  ELSE [tr EXCEPT !.audio = @ + 1, !.queued = @ + 1]

discard(tr) ==
  LET gone == [tr EXCEPT !.discarded = TRUE] IN
  IF tr.committed THEN gone ELSE sendFinal(markCommitted(gone))

Set(t, tr) == turn' = [turn EXCEPT ![t] = tr]
Left(t) == current' = IF current = t THEN NoTurn ELSE current

(***************************************************************************)
(* Client events                                                           *)
(***************************************************************************)

receive(event) ==
  /\ ~closed
  /\ Len(inbox) < MaxInbox
  /\ inbox' = Append(inbox, event)
  /\ UNCHANGED <<updating, cap, current, turn, closed>>

Handles(event) ==
  /\ ~updating
  /\ inbox # <<>> /\ Head(inbox) = event
  /\ inbox' = Tail(inbox)

(* Refused, the session's own model again, or a model to look up. *)
handleSessionUpdate ==
  /\ Handles("update")
  /\ updating' \in BOOLEAN
  /\ UNCHANGED <<cap, current, turn, closed>>

(* The model is realtime, or it was refused, or the look-up threw. *)
sessionUpdated ==
  /\ updating
  /\ updating' = FALSE
  /\ cap' \in Caps \cup {cap}
  /\ UNCHANGED <<inbox, current, turn, closed>>

Started == {t \in Turns : turn[t].engine # "none"}

(* The turn after taking one unit, committed at the cap. *)
Taken(tr) ==
  LET fed == forwardAudio(tr) IN IF fed.audio >= cap THEN commitTurn(fed) ELSE fed

(* A turn that is over the cap, as the model was changed under it, is      *)
(* committed first, with an append that may be empty or, as subarray takes *)
(* a negative end from the back, carry part of the audio; a turn is        *)
(* started when there is none.                                             *)
handleAppend ==
  /\ Handles("append")
  /\ IF cap = 0 THEN UNCHANGED <<turn, current>> ELSE
     LET over == current # NoTurn /\ turn[current].audio >= cap
         goesOn == current # NoTurn /\ ~over IN
     \E t \in Turns :
       LET fed == Taken([turn[t] EXCEPT !.engine = IF goesOn THEN @ ELSE "resolving"]) IN
       /\ IF goesOn THEN t = current ELSE t \notin Started
       /\ turn' = [u \in Turns |-> IF u = t THEN fed
                                   ELSE IF over /\ u = current THEN Taken(turn[u]) ELSE turn[u]]
       /\ current' = IF fed.committed THEN NoTurn ELSE t
  /\ UNCHANGED <<updating, cap, closed>>

handleCommit ==
  /\ Handles("commit")
  /\ IF current = NoTurn THEN UNCHANGED <<turn, current>>
     ELSE Set(current, commitTurn(turn[current])) /\ current' = NoTurn
  /\ UNCHANGED <<updating, cap, closed>>

handleClear ==
  /\ Handles("clear")
  /\ IF current = NoTurn THEN UNCHANGED <<turn, current>>
     ELSE Set(current, discard(turn[current])) /\ current' = NoTurn
  /\ UNCHANGED <<updating, cap, closed>>

(* The socket closes: every turn not ended is discarded.  What the chain   *)
(* still holds is handled.                                                 *)
close ==
  /\ ~closed
  /\ closed' = TRUE
  /\ turn' = [t \in Turns |-> IF t \in Started /\ ~turn[t].ended THEN discard(turn[t]) ELSE turn[t]]
  /\ current' = IF current # NoTurn /\ turn[current].ended THEN current ELSE NoTurn
  /\ UNCHANGED <<inbox, updating, cap>>

(***************************************************************************)
(* connectTurn                                                             *)
(***************************************************************************)

Resolves(t) == turn[t].engine = "resolving" /\ ~turn[t].ended /\ UNCHANGED <<inbox, updating, cap, closed>>

modelRefused(t) ==
  /\ Resolves(t)
  /\ Set(t, failTurn(turn[t]))
  /\ UNCHANGED current

(* Nobody catches it: session.ts 336. *)
modelThrows(t) ==
  /\ Resolves(t)
  /\ Set(t, [turn[t] EXCEPT !.engine = "stranded"])
  /\ UNCHANGED current

(* A turn without audio that was discarded meanwhile needs no engine.  The *)
(* engine gets what was queued, and the final commit if that has come.     *)
modelFound(t) ==
  LET held == [turn[t] EXCEPT !.info = TRUE, !.lease = @ + 1] IN
  /\ Resolves(t)
  /\ IF turn[t].discarded /\ turn[t].queued = 0 THEN Set(t, endTurn(held))
     ELSE Set(t, arm([held EXCEPT !.engine = "open", !.queued = 0]))
  /\ UNCHANGED current

(***************************************************************************)
(* Engine events                                                           *)
(***************************************************************************)

EngineEvent(t) == turn[t].engine = "open" /\ ~turn[t].ended /\ UNCHANGED <<inbox, updating, cap, closed>>

(* Mutant: an event ends the watch of a committed turn. *)
engineTalks_Unwatched(t) ==
  /\ EngineEvent(t)
  /\ Set(t, disarm(turn[t]))
  /\ UNCHANGED current

(* session.created, a delta, an event that is not understood: the timer is *)
(* cleared, and for a committed turn it is set anew.                       *)
engineTalks(t) ==
  /\ EngineEvent(t)
  /\ LET quiet == disarm(turn[t]) IN Set(t, IF turn[t].committed THEN arm(quiet) ELSE quiet)
  /\ UNCHANGED current

engineDone(t) ==
  /\ EngineEvent(t)
  /\ Set(t, finishTurn(turn[t]))
  /\ Left(t)

engineFails(t) ==
  /\ EngineEvent(t)
  /\ Set(t, failTurn(turn[t]))
  /\ UNCHANGED current

(* The engine's socket closes, also because endTurn closed it. *)
engineCloses(t) ==
  /\ turn[t].engine = "open"
  /\ Set(t, failTurn(turn[t]))
  /\ UNCHANGED <<inbox, updating, cap, current, closed>>

(* Time passes without a word from the engine, and in the end it was too   *)
(* long.                                                                   *)
silence(t) ==
  /\ turn[t].watch = "armed"
  /\ Set(t, [turn[t] EXCEPT !.watch = "due"])
  /\ UNCHANGED <<inbox, updating, cap, current, closed>>

watchdog(t) ==
  /\ turn[t].watch = "due"
  /\ Set(t, failTurn(turn[t]))
  /\ UNCHANGED <<inbox, updating, cap, current, closed>>

Resolution(t) == modelRefused(t) \/ modelThrows(t) \/ modelFound(t)
Handler == handleSessionUpdate \/ sessionUpdated \/ handleAppend \/ handleCommit \/ handleClear

SessionNext ==
  \/ \E event \in ClientEvents : receive(event)
  \/ Handler \/ close
  \/ \E t \in Turns : \/ Resolution(t) \/ silence(t) \/ watchdog(t)
                      \/ engineTalks(t) \/ engineDone(t) \/ engineFails(t) \/ engineCloses(t)

SessionSpec == SessionInit /\ [][SessionNext]_sessionVars

(* Events are handled, look-ups end, time passes, and a timer fires that   *)
(* stays due.  Of the engine nothing is assumed: one that is heard again   *)
(* and again puts the watchdog off for ever.                               *)
SessionFairness ==
  /\ WF_sessionVars(Handler)
  /\ \A t \in Turns : /\ WF_sessionVars(Resolution(t))
                      /\ WF_sessionVars(silence(t))
                      /\ WF_sessionVars(watchdog(t))

(***************************************************************************)
(* Properties                                                              *)
(***************************************************************************)

(* session.ts 162-181, 295-320: a turn holds its host's lease from the     *)
(* look-up to its end and gives it back once, whether the engine answers,  *)
(* fails, closes or goes silent and whatever the client does meanwhile.    *)
LeaseUntilEnd ==
  \A t \in Turns : turn[t].lease = IF turn[t].engine = "open" /\ ~turn[t].ended THEN 1 ELSE 0

(* session.ts 156-160, 281-293: an engine that owes a transcript is        *)
(* watched: no order of commit, clear, departure, connection and engine    *)
(* events leaves a committed turn waiting for ever.                        *)
CommittedIsWatched ==
  \A t \in Turns : turn[t].committed /\ turn[t].engine = "open" /\ ~turn[t].ended => turn[t].watch # "off"

(* session.ts 214-260: the client is told of an item in order and once:    *)
(* committed, then its transcript or an error, though the engine may end a *)
(* turn before, while or after the client commits it.                      *)
ItemToldInOrder ==
  \A t \in Turns : turn[t].told \in
    {<<>>, <<"committed">>, <<"committed", "completed">>, <<"error">>, <<"committed", "error">>}

KeepsTalking(t) == []<><<engineTalks(t)>>_sessionVars

(* session.ts 156-160, 281-293: a turn that is committed, cleared or left  *)
(* comes to its end, unless its look-up threw or its engine never stops    *)
(* sending events that do not end the turn.                                *)
CommittedTurnEnds ==
  \A t \in Turns :
    KeepsTalking(t) \/ (turn[t].committed ~> (turn[t].ended \/ turn[t].engine = "stranded"))

(* session.ts 90: "Its output goes nowhere: the buffer was cleared or the  *)
(* client left.  It still runs to completion so its usage is known."  Once *)
(* the client has left, every turn runs to its end, unless its engine      *)
(* talks for ever.                                                         *)
LeftTurnEnds ==
  \A t \in Turns :
    KeepsTalking(t)
      \/ ((closed /\ t \in Started) ~> (turn[t].ended \/ turn[t].engine = "stranded"))
=============================================================================
