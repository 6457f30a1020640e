--------------------------- MODULE RequestProofs ---------------------------
(***************************************************************************)
(* Proofs about what gateway requests hold and leave behind: the lease,    *)
(* the watchdog and the tale of a realtime turn (RealtimeSession), for any *)
(* number of turns, the admissions of requests (RequestFlow), for any      *)
(* requests and hosts, and the row of a response (StoredResponse), for any *)
(* number of calls.                                                        *)
(*                                                                         *)
(* A session's steps change turns by a few functions of one turn, so its   *)
(* invariant is a predicate of one turn, shown of each function and lifted *)
(* to the steps.  The lease needs that an unfinished turn knows its model  *)
(* exactly while it has an engine; the watchdog needs that only such a     *)
(* turn is watched.  The bound on admissions is not inductive either: a    *)
(* counter that expired lets in as many again as it had lost, and a DECR   *)
(* that fails makes up for them, so the invariant bounds the holders by    *)
(* the limit and what the counter misses.                                  *)
(***************************************************************************)
EXTENDS RealtimeSession, RequestFlow, StoredResponse, FiniteSetTheorems, SequenceTheorems, TLAPS

TurnShape == [engine : {"none", "resolving", "open", "stranded"},
              audio : Nat, queued : Nat, info : BOOLEAN, lease : Int,
              told : Seq({"committed", "completed", "error"}),
              committed : BOOLEAN, discarded : BOOLEAN, ended : BOOLEAN, watch : {"off", "armed", "due"}]

Leased(tr) ==
  /\ tr.lease = IF tr.engine = "open" /\ ~tr.ended THEN 1 ELSE 0
  /\ ~tr.ended => (tr.info <=> tr.engine = "open")

Watched(tr) ==
  /\ tr.watch # "off" => tr.engine = "open" /\ ~tr.ended
  /\ tr.committed /\ tr.engine = "open" /\ ~tr.ended => tr.watch # "off"

TurnInv(tr) == tr \in TurnShape /\ Leased(tr) /\ Watched(tr)

(***************************************************************************)
(* The functions of a turn.                                                *)
(***************************************************************************)

(* Telling the client changes nothing else. *)
LEMMA Tells ==
  ASSUME NEW tr \in TurnShape, NEW e \in {"committed", "completed", "error"}
  PROVE  /\ Tell(tr, e) \in TurnShape
         /\ Leased(Tell(tr, e)) <=> Leased(tr)
         /\ Watched(Tell(tr, e)) <=> Watched(tr)
         /\ Tell(tr, e).committed = tr.committed /\ Tell(tr, e).ended = tr.ended
<1> DEFINE said == [tr EXCEPT !.told = Append(@, e)]
<1>1. said \in TurnShape
  <2>1. Append(tr.told, e) \in Seq({"committed", "completed", "error"})
    BY DEF TurnShape
  <2> QED
    BY <2>1 DEF TurnShape
<1>2. /\ said.lease = tr.lease /\ said.engine = tr.engine /\ said.ended = tr.ended /\ said.info = tr.info
      /\ said.watch = tr.watch /\ said.committed = tr.committed
  BY DEF TurnShape
<1>3. Tell(tr, e) \in {tr, said}
  BY DEF Tell
<1> QED
  BY <1>1, <1>2, <1>3 DEF Leased, Watched

(* The end gives the lease back, whatever the turn was. *)
LEMMA EndShape ==
  ASSUME NEW tr \in TurnShape
  PROVE  /\ endTurn(tr) \in TurnShape /\ endTurn(tr).ended /\ endTurn(tr).watch = "off"
         /\ endTurn(tr).lease = IF tr.info THEN tr.lease - 1 ELSE tr.lease
<1>1. (IF tr.info THEN tr.lease - 1 ELSE tr.lease) \in Int
  BY DEF TurnShape
<1>2. endTurn(tr) \in TurnShape
  BY <1>1 DEF endTurn, disarm, TurnShape
<1>3. endTurn(tr).ended /\ endTurn(tr).watch = "off"
  BY DEF endTurn, disarm, TurnShape
<1>4. endTurn(tr).lease = IF tr.info THEN tr.lease - 1 ELSE tr.lease
  BY DEF endTurn, disarm, TurnShape
<1> QED
  BY <1>2, <1>3, <1>4

LEMMA Ends ==
  ASSUME NEW tr \in TurnShape, Leased(tr), ~tr.ended
  PROVE  endTurn(tr) \in TurnShape /\ Leased(endTurn(tr)) /\ Watched(endTurn(tr)) /\ endTurn(tr).ended
<1>1. endTurn(tr).lease = 0
  BY EndShape DEF Leased, TurnShape
<1> QED
  BY <1>1, EndShape DEF Leased, Watched

LEMMA FailTurn == ASSUME NEW tr, TurnInv(tr) PROVE TurnInv(failTurn(tr))
<1>1. CASE tr.ended
  BY <1>1 DEF failTurn
<1>2. CASE ~tr.ended
  BY <1>2, Ends, Tells DEF failTurn, TurnInv
<1> QED
  BY <1>1, <1>2

(* Arming never forgets a watch, and watches what has an engine. *)
LEMMA Arms ==
  ASSUME NEW tr \in TurnShape, Leased(tr), tr.watch # "off" => tr.engine = "open" /\ ~tr.ended
  PROVE  TurnInv(arm(tr)) /\ arm(tr).committed = tr.committed
  BY DEF arm, TurnInv, TurnShape, Leased, Watched

LEMMA Disarms ==
  ASSUME NEW tr \in TurnShape
  PROVE  /\ disarm(tr) \in TurnShape /\ disarm(tr).watch = "off"
         /\ Leased(tr) => Leased(disarm(tr))
         /\ disarm(tr).engine = tr.engine /\ disarm(tr).told = tr.told /\ disarm(tr).committed = tr.committed
         /\ disarm(tr).discarded = tr.discarded /\ disarm(tr).ended = tr.ended
  BY DEF disarm, TurnShape, Leased

LEMMA Marks ==
  ASSUME NEW tr \in TurnShape, Leased(tr)
  PROVE  /\ markCommitted(tr) \in TurnShape /\ Leased(markCommitted(tr)) /\ markCommitted(tr).committed
         /\ markCommitted(tr).watch = tr.watch /\ markCommitted(tr).engine = tr.engine
         /\ markCommitted(tr).ended = tr.ended /\ markCommitted(tr).info = tr.info
  BY DEF markCommitted, TurnShape, Leased

LEMMA CommitTurn == ASSUME NEW tr, TurnInv(tr) PROVE TurnInv(commitTurn(tr))
<1> DEFINE told == Tell(markCommitted(tr), "committed")
<1>1. CASE tr.ended
  BY <1>1, Marks DEF commitTurn, TurnInv, Watched
<1>2. CASE ~tr.ended
  <2>1. told \in TurnShape /\ Leased(told)
    BY Marks, Tells DEF TurnInv
  <2>2. told.watch # "off" => told.engine = "open" /\ ~told.ended
    BY Marks DEF TurnInv, TurnShape, Watched, Tell
  <2>3. TurnInv(arm(told))
    BY <2>1, <2>2, Arms
  <2> QED
    BY <1>2, <2>3 DEF commitTurn, sendFinal
<1> QED
  BY <1>1, <1>2

LEMMA FinishTurn == ASSUME NEW tr, TurnInv(tr), ~tr.ended PROVE TurnInv(finishTurn(tr))
<1> DEFINE done == endTurn(markCommitted(tr))
<1>1. done \in TurnShape /\ Leased(done) /\ Watched(done)
  BY Marks, Ends DEF TurnInv
<1>2. TurnInv(Tell(done, "completed"))
  BY <1>1, Tells DEF TurnInv
<1>3. TurnInv(Tell(Tell(done, "committed"), "completed"))
  BY <1>1, Tells DEF TurnInv
<1> QED
  BY <1>2, <1>3 DEF finishTurn

LEMMA Discards == ASSUME NEW tr, TurnInv(tr) PROVE TurnInv(discard(tr))
<1> DEFINE gone == [tr EXCEPT !.discarded = TRUE]
<1>1. TurnInv(gone) /\ gone.committed = tr.committed
  BY DEF TurnInv, TurnShape, Leased, Watched
<1>2. TurnInv(arm(markCommitted(gone)))
  BY <1>1, Marks, Arms DEF TurnInv, Watched
<1> QED
  BY <1>1, <1>2 DEF discard, sendFinal

LEMMA Forwards == ASSUME NEW tr, TurnInv(tr) PROVE TurnInv(forwardAudio(tr))
<1> DEFINE fed == [tr EXCEPT !.audio = @ + 1]
           kept == [tr EXCEPT !.audio = @ + 1, !.queued = @ + 1]
<1>1. TurnInv(fed)
  BY DEF TurnInv, TurnShape, Leased, Watched
<1>2. TurnInv(kept)
  <2>1. kept \in TurnShape
    <3>1. tr.audio + 1 \in Nat /\ tr.queued + 1 \in Nat
      BY DEF TurnInv, TurnShape
    <3>2. kept = [tr EXCEPT !.audio = tr.audio + 1, !.queued = tr.queued + 1]
      BY DEF TurnInv, TurnShape
    <3> QED
      BY <3>1, <3>2 DEF TurnInv, TurnShape
  <2>2. /\ kept.lease = tr.lease /\ kept.engine = tr.engine /\ kept.ended = tr.ended /\ kept.info = tr.info
        /\ kept.watch = tr.watch /\ kept.committed = tr.committed
    BY DEF TurnInv, TurnShape
  <2> QED
    BY <2>1, <2>2 DEF TurnInv, Leased, Watched
<1>3. TurnInv(arm(fed))
  BY <1>1, Arms DEF TurnInv, Watched
<1> QED
  BY <1>1, <1>2, <1>3 DEF forwardAudio

LEMMA Takes == ASSUME NEW tr, TurnInv(tr) PROVE TurnInv(Taken(tr))
  BY Forwards, CommitTurn DEF Taken

(***************************************************************************)
(* The steps of a session.                                                 *)
(***************************************************************************)

SessionInv ==
  /\ turn \in [Turns -> TurnShape]
  /\ \A t \in Turns : TurnInv(turn[t])
  /\ current \in Turns \cup {NoTurn}

(* A step that gives turns the invariant, one by one, keeps it. *)
LEMMA Lifts ==
  ASSUME SessionInv, current' \in Turns \cup {NoTurn}, DOMAIN turn' = Turns,
         turn' = [t \in Turns |-> turn'[t]], \A t \in Turns : TurnInv(turn'[t])
  PROVE  SessionInv'
  BY DEF SessionInv, TurnInv, Leased, Watched, TurnShape

LEMMA SetLifts ==
  ASSUME SessionInv, NEW t \in Turns, NEW tr, TurnInv(tr), Set(t, tr), current' \in Turns \cup {NoTurn}
  PROVE  SessionInv'
<1>1. turn' = [turn EXCEPT ![t] = tr]
  BY DEF Set
<1>2. \A u \in Turns : TurnInv(turn'[u])
  BY <1>1 DEF SessionInv
<1> QED
  BY <1>1, <1>2, Lifts DEF SessionInv

LEMMA SessionInitInv == SessionInit => SessionInv
<1>1. NotStarted \in TurnShape
  BY DEF NotStarted, TurnShape
<1>2. TurnInv(NotStarted)
  BY <1>1 DEF NotStarted, TurnInv, Leased, Watched
<1> QED
  BY <1>1, <1>2 DEF SessionInit, SessionInv

LEMMA AppendStep == ASSUME SessionInv, handleAppend PROVE SessionInv'
<1> DEFINE over == current # NoTurn /\ turn[current].audio >= cap
           goesOn == current # NoTurn /\ ~over
           fed(t) == Taken([turn[t] EXCEPT !.engine = IF goesOn THEN @ ELSE "resolving"])
<1>1. CASE cap = 0
  BY <1>1 DEF handleAppend, SessionInv
<1>2. CASE cap # 0
  <2>1. PICK t \in Turns :
          /\ IF goesOn THEN t = current ELSE t \notin Started
          /\ turn' = [u \in Turns |-> IF u = t THEN fed(t)
                                      ELSE IF over /\ u = current THEN Taken(turn[u]) ELSE turn[u]]
          /\ current' = IF fed(t).committed THEN NoTurn ELSE t
    BY <1>2 DEF handleAppend
  <2>2. TurnInv([turn[t] EXCEPT !.engine = IF goesOn THEN @ ELSE "resolving"])
    <3>0. TurnInv(turn[t]) /\ turn[t] \in TurnShape
      BY DEF SessionInv, TurnInv
    <3>1. CASE goesOn
      <4>1. [turn[t] EXCEPT !.engine = IF goesOn THEN @ ELSE "resolving"] = turn[t]
        BY <3>0, <3>1 DEF TurnShape
      <4> QED
        BY <3>0, <4>1
    <3>2. CASE ~goesOn
      <4>1. turn[t].engine = "none"
        BY <2>1, <3>2 DEF Started
      <4>2. [turn[t] EXCEPT !.engine = IF goesOn THEN @ ELSE "resolving"] = [turn[t] EXCEPT !.engine = "resolving"]
        BY <3>2
      <4>3. TurnInv([turn[t] EXCEPT !.engine = "resolving"])
        BY <3>0, <4>1 DEF TurnInv, TurnShape, Leased, Watched
      <4> QED
        BY <4>2, <4>3
    <3> QED
      BY <3>1, <3>2
  <2>3. TurnInv(fed(t))
    BY <2>2, Takes
  <2>4. \A u \in Turns : TurnInv(turn[u]) /\ TurnInv(Taken(turn[u]))
    BY Takes DEF SessionInv
  <2> HIDE DEF fed, over
  <2>5. \A u \in Turns : TurnInv(turn'[u])
    BY <2>1, <2>3, <2>4
  <2> QED
    BY <2>1, <2>5, Lifts
<1> QED
  BY <1>1, <1>2

LEMMA HandlerStep == ASSUME SessionInv, Handler PROVE SessionInv'
<1>1. CASE handleSessionUpdate \/ sessionUpdated
  BY <1>1 DEF handleSessionUpdate, sessionUpdated, SessionInv
<1>2. CASE handleCommit
  <2>1. CASE current = NoTurn
    BY <1>2, <2>1 DEF handleCommit, SessionInv
  <2>2. CASE current # NoTurn
    BY <1>2, <2>2, CommitTurn, SetLifts DEF handleCommit, SessionInv
  <2> QED
    BY <2>1, <2>2
<1>3. CASE handleClear
  <2>1. CASE current = NoTurn
    BY <1>3, <2>1 DEF handleClear, SessionInv
  <2>2. CASE current # NoTurn
    BY <1>3, <2>2, Discards, SetLifts DEF handleClear, SessionInv
  <2> QED
    BY <2>1, <2>2
<1> QED
  BY <1>1, <1>2, <1>3, AppendStep DEF Handler

LEMMA CloseStep == ASSUME SessionInv, close PROVE SessionInv'
<1>1. turn' = [t \in Turns |-> IF t \in Started /\ ~turn[t].ended THEN discard(turn[t]) ELSE turn[t]]
  BY DEF close
<1>2. \A t \in Turns : TurnInv(turn[t]) /\ TurnInv(discard(turn[t]))
  BY Discards DEF SessionInv
<1>3. \A t \in Turns : TurnInv(turn'[t])
  BY <1>1, <1>2
<1>4. current' \in Turns \cup {NoTurn}
  BY DEF close, SessionInv
<1> QED
  BY <1>1, <1>3, <1>4, Lifts

LEMMA FoundStep == ASSUME SessionInv, NEW t \in Turns, modelFound(t) PROVE SessionInv'
<1> DEFINE held == [turn[t] EXCEPT !.info = TRUE, !.lease = @ + 1]
           open == [held EXCEPT !.engine = "open", !.queued = 0]
<1>0. /\ turn[t] \in TurnShape /\ turn[t].engine = "resolving" /\ ~turn[t].ended /\ TurnInv(turn[t])
      /\ current' = current /\ current \in Turns \cup {NoTurn}
  BY DEF SessionInv, modelFound, Resolves
<1>1. turn[t].lease = 0 /\ turn[t].watch = "off"
  BY <1>0 DEF TurnInv, Leased, Watched, TurnShape
<1>2. held \in TurnShape /\ held.lease = 1 /\ held.info /\ held.engine = "resolving" /\ ~held.ended /\ held.watch = "off"
  <2>1. turn[t].lease + 1 = 1 /\ turn[t].lease + 1 \in Int
    BY <1>1
  <2>2. held \in TurnShape
    BY <1>0, <2>1 DEF TurnShape
  <2>3. /\ held.lease = turn[t].lease + 1 /\ held.info = TRUE /\ held.engine = turn[t].engine
        /\ held.ended = turn[t].ended /\ held.watch = turn[t].watch
    BY <1>0 DEF TurnShape
  <2> QED
    BY <1>0, <1>1, <2>1, <2>2, <2>3
<1> HIDE DEF held
<1>3. TurnInv(endTurn(held))
  <2>1. endTurn(held).lease = 0
    BY <1>2, EndShape
  <2> QED
    BY <1>2, <2>1, EndShape DEF TurnInv, Leased, Watched
<1>4. open \in TurnShape /\ Leased(open) /\ open.watch = "off"
  BY <1>2 DEF TurnShape, Leased
<1>5. TurnInv(arm(open))
  BY <1>4, Arms
<1>6. Set(t, endTurn(held)) \/ Set(t, arm(open))
  BY DEF modelFound, held
<1> QED
  BY <1>0, <1>3, <1>5, <1>6, SetLifts

LEMMA TurnStep ==
  ASSUME SessionInv, NEW t \in Turns,
         \/ modelRefused(t) \/ modelThrows(t) \/ silence(t) \/ watchdog(t)
         \/ engineTalks(t) \/ engineDone(t) \/ engineFails(t) \/ engineCloses(t)
  PROVE  SessionInv'
<1>0. TurnInv(turn[t]) /\ turn[t] \in TurnShape /\ current \in Turns \cup {NoTurn}
  BY DEF SessionInv
<1>1. CASE modelRefused(t) \/ watchdog(t) \/ engineFails(t) \/ engineCloses(t)
  BY <1>0, <1>1, FailTurn, SetLifts DEF modelRefused, watchdog, engineFails, engineCloses
<1>2. CASE modelThrows(t)
  <2>1. TurnInv([turn[t] EXCEPT !.engine = "stranded"])
    BY <1>0, <1>2 DEF modelThrows, Resolves, TurnInv, TurnShape, Leased, Watched
  <2> QED
    BY <1>0, <1>2, <2>1, SetLifts DEF modelThrows
<1>3. CASE engineTalks(t)
  <2> DEFINE quiet == disarm(turn[t])
  <2>1. quiet \in TurnShape /\ Leased(quiet) /\ quiet.watch = "off" /\ quiet.committed = turn[t].committed
    BY <1>0, Disarms DEF TurnInv
  <2>2. Set(t, IF turn[t].committed THEN arm(quiet) ELSE quiet) /\ current' = current
    BY <1>3 DEF engineTalks
  <2> HIDE DEF quiet
  <2>3. TurnInv(arm(quiet)) /\ (~turn[t].committed => TurnInv(quiet))
    BY <2>1, Arms DEF TurnInv, Watched
  <2> QED
    BY <1>0, <2>2, <2>3, SetLifts
<1>4. CASE engineDone(t)
  BY <1>0, <1>4, FinishTurn, SetLifts DEF engineDone, EngineEvent, Left
<1>5. CASE silence(t)
  <2>1. TurnInv([turn[t] EXCEPT !.watch = "due"])
    BY <1>0, <1>5 DEF silence, TurnInv, TurnShape, Leased, Watched
  <2> QED
    BY <1>0, <1>5, <2>1, SetLifts DEF silence
<1> QED
  BY <1>1, <1>2, <1>3, <1>4, <1>5

LEMMA SessionInvStep == SessionInv /\ [SessionNext]_sessionVars => SessionInv'
<1>1. ASSUME SessionInv, UNCHANGED sessionVars PROVE SessionInv'
  BY <1>1 DEF sessionVars, SessionInv
<1>2. ASSUME SessionInv, NEW event \in ClientEvents, receive(event) PROVE SessionInv'
  BY <1>2 DEF receive, SessionInv
<1> QED
  BY <1>1, <1>2, HandlerStep, CloseStep, FoundStep, TurnStep DEF SessionNext, Resolution

(* session.ts 162-181: for any number of turns, a turn holds its host's    *)
(* lease exactly while an engine works on it.                              *)
THEOREM LeasesEnd == SessionSpec => []LeaseUntilEnd
<1>1. SessionInv => LeaseUntilEnd
  BY DEF SessionInv, TurnInv, Leased, LeaseUntilEnd
<1> QED
  BY SessionInitInv, SessionInvStep, <1>1, PTL DEF SessionSpec

(* session.ts 281-293: a committed turn with an engine is always watched. *)
THEOREM CommittedWatched == SessionSpec => []CommittedIsWatched
<1>1. SessionInv => CommittedIsWatched
  BY DEF SessionInv, TurnInv, Watched, CommittedIsWatched
<1> QED
  BY SessionInitInv, SessionInvStep, <1>1, PTL DEF SessionSpec

(***************************************************************************)
(* What the client is told of a turn.  That an item is told in order is    *)
(* not inductive: a turn committed twice would be announced twice, and one *)
(* that is committed but was not announced would be completed without it.  *)
(* So the turn that takes audio is not committed, unless it has ended, and *)
(* a committed turn was announced, unless nobody listens.                  *)
(***************************************************************************)

Tales == {<<>>, <<"committed">>, <<"committed", "completed">>, <<"error">>, <<"committed", "error">>}

Tale(tr) ==
  /\ tr.ended => tr.told \in Tales
  /\ ~tr.ended /\ ~tr.committed => tr.told = <<>>
  /\ ~tr.ended /\ tr.committed =>
       \/ tr.told = <<"committed">>
       \/ tr.told = <<>> /\ (tr.discarded \/ closed)
  /\ tr.engine = "none" => ~tr.ended /\ ~tr.committed

CurrentTakesAudio ==
  current # NoTurn => /\ turn[current].engine # "none"
                      /\ turn[current].ended \/ ~turn[current].committed

ToldInv == SessionInv /\ (\A t \in Turns : Tale(turn[t])) /\ CurrentTakesAudio

LEMMA AppendPair == ASSUME NEW S, NEW a \in S, NEW b \in S PROVE Append(<<a>>, b) = <<a, b>>
<1> DEFINE s == <<a>>
           both == <<a, b>>
<1>1. s \in Seq(S) /\ Len(s) = 1 /\ s[1] = a
  OBVIOUS
<1>2. both \in Seq(S) /\ Len(both) = 2 /\ both[1] = a /\ both[2] = b
  OBVIOUS
<1> HIDE DEF s, both
<1>3. Append(s, b) \in Seq(S) /\ Len(Append(s, b)) = 2 /\ Append(s, b)[1] = a /\ Append(s, b)[2] = b
  <2>0. s \in Seq(S) /\ b \in S
    BY <1>1
  <2>1. /\ Append(s, b) \in Seq(S) /\ Len(Append(s, b)) = Len(s) + 1
        /\ \A i \in 1 .. Len(s) : Append(s, b)[i] = s[i]
        /\ Append(s, b)[Len(s) + 1] = b
    BY <2>0, AppendProperties
  <2>2. Len(s) + 1 = 2 /\ 1 \in 1 .. Len(s)
    BY <1>1
  <2> QED
    BY <1>1, <2>1, <2>2, Zenon
<1>4. \A i \in 1 .. 2 : Append(s, b)[i] = both[i]
  BY <1>2, <1>3
<1>5. Append(s, b) = both
  BY <1>2, <1>3, <1>4, SeqEqual
<1> QED
  BY <1>5 DEF s, both

LEMMA Sayings ==
  /\ Append(<<>>, "committed") = <<"committed">>
  /\ Append(<<>>, "error") = <<"error">>
  /\ Append(<<"committed">>, "completed") = <<"committed", "completed">>
  /\ Append(<<"committed">>, "error") = <<"committed", "error">>
<1> DEFINE Sayable == {"committed", "completed", "error"}
<1>1. Append(<<>>, "committed") = <<"committed">>
  OBVIOUS
<1>2. Append(<<>>, "error") = <<"error">>
  OBVIOUS
<1>3. "committed" \in Sayable /\ "completed" \in Sayable /\ "error" \in Sayable
  OBVIOUS
<1>4. Append(<<"committed">>, "completed") = <<"committed", "completed">>
  BY <1>3, AppendPair
<1>5. Append(<<"committed">>, "error") = <<"committed", "error">>
  BY <1>3, AppendPair
<1> QED
  BY <1>1, <1>2, <1>4, <1>5

(* The parts of a turn that its tale is about. *)
Plot(tr) == <<tr.engine, tr.told, tr.committed, tr.discarded, tr.ended>>

LEMMA TellPlot ==
  ASSUME NEW tr \in TurnShape, NEW e \in {"committed", "completed", "error"}
  PROVE  /\ Tell(tr, e) \in TurnShape
         /\ Plot(Tell(tr, e)) = <<tr.engine, IF closed \/ tr.discarded THEN tr.told ELSE Append(tr.told, e),
                                  tr.committed, tr.discarded, tr.ended>>
<1>1. CASE closed \/ tr.discarded
  BY <1>1 DEF Tell, Plot
<1>2. CASE ~(closed \/ tr.discarded)
  <2>1. Append(tr.told, e) \in Seq({"committed", "completed", "error"})
    BY DEF TurnShape
  <2>2. Plot([tr EXCEPT !.told = Append(@, e)]) = <<tr.engine, Append(tr.told, e), tr.committed, tr.discarded, tr.ended>>
    BY DEF TurnShape, Plot
  <2> QED
    BY <1>2, <2>2, Tells DEF Tell
<1> QED
  BY <1>1, <1>2

LEMMA ArmPlot ==
  ASSUME NEW tr \in TurnShape PROVE arm(tr) \in TurnShape /\ Plot(arm(tr)) = Plot(tr)
  BY DEF arm, TurnShape, Plot

LEMMA EndPlot ==
  ASSUME NEW tr \in TurnShape
  PROVE  Plot(endTurn(tr)) = <<tr.engine, tr.told, tr.committed, tr.discarded, TRUE>>
  BY DEF endTurn, disarm, TurnShape, Plot

LEMMA MarkPlot ==
  ASSUME NEW tr \in TurnShape
  PROVE  /\ markCommitted(tr) \in TurnShape
         /\ Plot(markCommitted(tr)) = <<tr.engine, tr.told, TRUE, tr.discarded, tr.ended>>
  BY DEF markCommitted, TurnShape, Plot

LEMMA FailTale ==
  ASSUME NEW tr \in TurnShape, Tale(tr), tr.engine # "none"
  PROVE  Tale(failTurn(tr)) /\ failTurn(tr).engine = tr.engine
         /\ (failTurn(tr).ended \/ failTurn(tr).committed = tr.committed)
<1>1. CASE tr.ended
  BY <1>1 DEF failTurn
<1>2. CASE ~tr.ended
  <2>1. Plot(failTurn(tr)) = <<tr.engine, IF closed \/ tr.discarded THEN tr.told ELSE Append(tr.told, "error"),
                               tr.committed, tr.discarded, TRUE>>
    <3> DEFINE done == endTurn(tr)
    <3>1. done \in TurnShape /\ Plot(done) = <<tr.engine, tr.told, tr.committed, tr.discarded, TRUE>>
      BY EndShape, EndPlot
    <3>2. failTurn(tr) = Tell(done, "error")
      BY <1>2 DEF failTurn
    <3> HIDE DEF done
    <3>3. Plot(Tell(done, "error")) = <<done.engine, IF closed \/ done.discarded THEN done.told ELSE Append(done.told, "error"),
                                        done.committed, done.discarded, done.ended>>
      BY <3>1, TellPlot
    <3> QED
      BY <3>1, <3>2, <3>3 DEF Plot
  <2>2. tr.told \in {<<>>, <<"committed">>}
    BY <1>2 DEF Tale
  <2>3. failTurn(tr).told \in Tales /\ failTurn(tr).ended = TRUE /\ failTurn(tr).engine = tr.engine
    BY <2>1, <2>2, Sayings DEF Plot, Tales
  <2> QED
    BY <2>3 DEF Tale
<1> QED
  BY <1>1, <1>2

(* A turn is committed at most once before its end. *)
LEMMA CommitTale ==
  ASSUME NEW tr \in TurnShape, Tale(tr), tr.engine # "none", tr.ended \/ ~tr.committed
  PROVE  Tale(commitTurn(tr)) /\ commitTurn(tr).engine = tr.engine /\ commitTurn(tr).committed = TRUE
<1>1. CASE tr.ended
  <2>1. commitTurn(tr) = markCommitted(tr)
    BY <1>1 DEF commitTurn
  <2>2. Plot(commitTurn(tr)) = <<tr.engine, tr.told, TRUE, tr.discarded, tr.ended>>
    BY <2>1, MarkPlot
  <2> QED
    BY <1>1, <2>2 DEF Plot, Tale
<1>2. CASE ~tr.ended
  <2>1. Plot(commitTurn(tr)) = <<tr.engine, IF closed \/ tr.discarded THEN tr.told ELSE Append(tr.told, "committed"),
                                 TRUE, tr.discarded, tr.ended>>
    <3> DEFINE mark == markCommitted(tr)
               said == Tell(mark, "committed")
    <3>1. mark \in TurnShape /\ Plot(mark) = <<tr.engine, tr.told, TRUE, tr.discarded, tr.ended>>
      BY MarkPlot
    <3>2. commitTurn(tr) = arm(said)
      BY <1>2 DEF commitTurn, sendFinal
    <3> HIDE DEF mark
    <3>3. said \in TurnShape /\ Plot(said) = <<mark.engine, IF closed \/ mark.discarded THEN mark.told
                                                          ELSE Append(mark.told, "committed"),
                                             mark.committed, mark.discarded, mark.ended>>
      BY <3>1, TellPlot
    <3> HIDE DEF said
    <3>4. Plot(arm(said)) = Plot(said)
      BY <3>3, ArmPlot
    <3> QED
      BY <3>1, <3>2, <3>3, <3>4 DEF Plot
  <2>2. tr.told = <<>>
    BY <1>2 DEF Tale
  <2>3. /\ commitTurn(tr).told = <<"committed">> \/ (commitTurn(tr).told = <<>> /\ (commitTurn(tr).discarded \/ closed))
        /\ commitTurn(tr).committed = TRUE /\ commitTurn(tr).ended = tr.ended /\ commitTurn(tr).engine = tr.engine
    BY <2>1, <2>2, Sayings DEF Plot
  <2> QED
    BY <1>2, <2>3 DEF Tale
<1> QED
  BY <1>1, <1>2

LEMMA FinishTale ==
  ASSUME NEW tr \in TurnShape, Tale(tr), tr.engine # "none", ~tr.ended
  PROVE  Tale(finishTurn(tr)) /\ finishTurn(tr).engine = tr.engine
<1> DEFINE done == endTurn(markCommitted(tr))
           heard == ~closed /\ ~tr.discarded
<1>1. done \in TurnShape /\ Plot(done) = <<tr.engine, tr.told, TRUE, tr.discarded, TRUE>>
  <2> DEFINE mark == markCommitted(tr)
  <2>1. mark \in TurnShape /\ Plot(mark) = <<tr.engine, tr.told, TRUE, tr.discarded, tr.ended>>
    BY MarkPlot
  <2> HIDE DEF mark
  <2>2. endTurn(mark) \in TurnShape /\ Plot(endTurn(mark)) = <<mark.engine, mark.told, mark.committed, mark.discarded, TRUE>>
    BY <2>1, EndShape, EndPlot
  <2>3. Plot(endTurn(mark)) = <<tr.engine, tr.told, TRUE, tr.discarded, TRUE>>
    BY <2>1, <2>2 DEF Plot
  <2> QED
    BY <2>2, <2>3 DEF mark
<1> HIDE DEF done
<1>2. CASE tr.committed
  <2>1. Plot(finishTurn(tr)) = <<tr.engine, IF heard THEN Append(tr.told, "completed") ELSE tr.told,
                                 TRUE, tr.discarded, TRUE>>
    BY <1>1, <1>2, TellPlot DEF finishTurn, Plot, done
  <2>2. tr.told = <<"committed">> \/ (tr.told = <<>> /\ ~heard)
    BY <1>2 DEF Tale
  <2>3. finishTurn(tr).told \in Tales /\ finishTurn(tr).ended = TRUE /\ finishTurn(tr).engine = tr.engine
    BY <2>1, <2>2, Sayings DEF Plot, Tales
  <2> QED
    BY <2>3 DEF Tale
<1>3. CASE ~tr.committed
  <2>1. /\ Tell(done, "committed") \in TurnShape
        /\ Plot(Tell(done, "committed")) = <<tr.engine, IF heard THEN Append(tr.told, "committed") ELSE tr.told,
                                             TRUE, tr.discarded, TRUE>>
    BY <1>1, TellPlot DEF Plot
  <2>2. tr.told = <<>>
    BY <1>3 DEF Tale
  <2>3. Plot(Tell(done, "committed")) = <<tr.engine, IF heard THEN <<"committed">> ELSE <<>>,
                                          TRUE, tr.discarded, TRUE>>
    BY <2>1, <2>2, Sayings
  <2>4. Plot(Tell(Tell(done, "committed"), "completed")) =
          <<tr.engine, IF heard THEN <<"committed", "completed">> ELSE <<>>, TRUE, tr.discarded, TRUE>>
    <3> DEFINE said == Tell(done, "committed")
    <3>1. said \in TurnShape /\ Plot(said) = <<tr.engine, IF heard THEN <<"committed">> ELSE <<>>,
                                             TRUE, tr.discarded, TRUE>>
      BY <2>1, <2>3
    <3> HIDE DEF said
    <3>2. Plot(Tell(said, "completed")) =
            <<said.engine, IF closed \/ said.discarded THEN said.told ELSE Append(said.told, "completed"),
              said.committed, said.discarded, said.ended>>
      BY <3>1, TellPlot
    <3>3. Plot(Tell(said, "completed")) =
            <<tr.engine, IF heard THEN <<"committed", "completed">> ELSE <<>>, TRUE, tr.discarded, TRUE>>
      BY <3>1, <3>2, Sayings DEF Plot
    <3> QED
      BY <3>3 DEF said
  <2>5. finishTurn(tr) = Tell(Tell(done, "committed"), "completed")
    BY <1>3 DEF finishTurn, done
  <2>6. finishTurn(tr).told \in Tales /\ finishTurn(tr).ended = TRUE /\ finishTurn(tr).engine = tr.engine
    BY <2>4, <2>5 DEF Plot, Tales
  <2> QED
    BY <2>6 DEF Tale
<1> QED
  BY <1>2, <1>3

LEMMA DiscardTale ==
  ASSUME NEW tr \in TurnShape, Tale(tr), tr.engine # "none"
  PROVE  Tale(discard(tr)) /\ discard(tr).engine = tr.engine /\ discard(tr).ended = tr.ended
<1> DEFINE gone == [tr EXCEPT !.discarded = TRUE]
<1>1. gone \in TurnShape /\ Plot(gone) = <<tr.engine, tr.told, tr.committed, TRUE, tr.ended>>
  BY DEF TurnShape, Plot
<1>2. Plot(arm(markCommitted(gone))) = <<tr.engine, tr.told, TRUE, TRUE, tr.ended>>
  <2>1. markCommitted(gone) \in TurnShape /\ Plot(markCommitted(gone)) = <<gone.engine, gone.told, TRUE, gone.discarded, gone.ended>>
    BY <1>1, MarkPlot
  <2>2. Plot(arm(markCommitted(gone))) = Plot(markCommitted(gone))
    BY <2>1, ArmPlot
  <2>3. gone.engine = tr.engine /\ gone.told = tr.told /\ gone.discarded = TRUE /\ gone.ended = tr.ended
    BY <1>1 DEF Plot
  <2> QED
    BY <2>1, <2>2, <2>3
<1>3. Plot(discard(tr)) = <<tr.engine, tr.told, TRUE, TRUE, tr.ended>>
  <2>1. tr.committed => tr.committed = TRUE
    BY DEF TurnShape
  <2> QED
    BY <1>1, <1>2, <2>1 DEF discard, sendFinal
<1> QED
  BY <1>3 DEF Plot, Tale

LEMMA ForwardPlot ==
  ASSUME NEW tr \in TurnShape PROVE forwardAudio(tr) \in TurnShape /\ Plot(forwardAudio(tr)) = Plot(tr)
<1> DEFINE fed == [tr EXCEPT !.audio = @ + 1]
           kept == [tr EXCEPT !.audio = @ + 1, !.queued = @ + 1]
<1>1. fed \in TurnShape /\ Plot(fed) = Plot(tr)
  BY DEF TurnShape, Plot
<1>2. kept \in TurnShape /\ Plot(kept) = Plot(tr)
  <2>1. tr.audio + 1 \in Nat /\ tr.queued + 1 \in Nat
    BY DEF TurnShape
  <2>2. kept = [tr EXCEPT !.audio = tr.audio + 1, !.queued = tr.queued + 1]
    BY DEF TurnShape
  <2> QED
    BY <2>1, <2>2 DEF TurnShape, Plot
<1>3. arm(fed) \in TurnShape /\ Plot(arm(fed)) = Plot(tr)
  BY <1>1, ArmPlot
<1> QED
  BY <1>1, <1>2, <1>3 DEF forwardAudio

LEMMA TakeTale ==
  ASSUME NEW tr \in TurnShape, Tale(tr), tr.engine # "none", tr.ended \/ ~tr.committed
  PROVE  /\ Tale(Taken(tr)) /\ Taken(tr).engine = tr.engine
<1>1. forwardAudio(tr) \in TurnShape /\ Tale(forwardAudio(tr)) /\ forwardAudio(tr).engine = tr.engine
      /\ (forwardAudio(tr).ended \/ ~forwardAudio(tr).committed)
  BY ForwardPlot DEF Plot, Tale
<1> QED
  BY <1>1, CommitTale DEF Taken

(* A step that changes one turn, and takes audio no longer or as before. *)
LEMMA ToldSet ==
  ASSUME ToldInv, SessionInv', NEW t \in Turns, NEW tr, Tale(tr), Set(t, tr), UNCHANGED closed,
         current' \in {current, NoTurn},
         current' = t => tr.engine # "none" /\ (tr.ended \/ ~tr.committed)
  PROVE  ToldInv'
<1>1. \A u \in Turns : turn'[u] = IF u = t THEN tr ELSE turn[u]
  BY DEF Set, ToldInv, SessionInv
<1>2. ASSUME NEW u \in Turns PROVE Tale(turn[u])'
  BY <1>1 DEF ToldInv, Tale
<1>3. CurrentTakesAudio'
  BY <1>1 DEF ToldInv, SessionInv, CurrentTakesAudio
<1> QED
  BY <1>2, <1>3 DEF ToldInv

(* A turn whose tale is the same, with an engine or on its way to one. *)
LEMMA SameTale ==
  ASSUME NEW tr, NEW next, Tale(tr), next.engine # "none",
         next.told = tr.told, next.committed = tr.committed, next.discarded = tr.discarded, next.ended = tr.ended
  PROVE  Tale(next)
  BY DEF Tale

LEMMA ToldTurnStep ==
  ASSUME ToldInv, SessionInv', NEW t \in Turns,
         \/ modelRefused(t) \/ modelThrows(t) \/ silence(t) \/ watchdog(t)
         \/ engineTalks(t) \/ engineDone(t) \/ engineFails(t) \/ engineCloses(t)
  PROVE  ToldInv'
<1>0. /\ turn[t] \in TurnShape /\ Tale(turn[t]) /\ Watched(turn[t])
      /\ current = t => turn[t].engine # "none" /\ (turn[t].ended \/ ~turn[t].committed)
      /\ NoTurn # t
  BY SessionAssumption DEF ToldInv, SessionInv, TurnInv, CurrentTakesAudio
<1>1. CASE modelRefused(t) \/ watchdog(t) \/ engineFails(t) \/ engineCloses(t)
  <2>1. turn[t].engine # "none" /\ Set(t, failTurn(turn[t])) /\ UNCHANGED <<current, closed>>
    BY <1>0, <1>1 DEF modelRefused, watchdog, engineFails, engineCloses, Resolves, EngineEvent, Watched
  <2>2. /\ Tale(failTurn(turn[t])) /\ failTurn(turn[t]).engine = turn[t].engine
        /\ failTurn(turn[t]).ended \/ failTurn(turn[t]).committed = turn[t].committed
    BY <1>0, <2>1, FailTale
  <2>3. failTurn(turn[t]).ended \/ failTurn(turn[t]) = turn[t]
    BY <1>0, EndShape, Tells DEF failTurn
  <2> QED
    BY <1>0, <2>1, <2>2, <2>3, ToldSet
<1>2. CASE modelThrows(t)
  <2> DEFINE next == [turn[t] EXCEPT !.engine = "stranded"]
  <2>1. /\ next.engine = "stranded" /\ next.told = turn[t].told /\ next.committed = turn[t].committed
        /\ next.discarded = turn[t].discarded /\ next.ended = turn[t].ended
    BY <1>0 DEF TurnShape
  <2>2. Set(t, next) /\ UNCHANGED <<current, closed>>
    BY <1>2 DEF modelThrows, Resolves
  <2> HIDE DEF next
  <2>3. Tale(next)
    BY <1>0, <2>1, SameTale
  <2> QED
    BY <1>0, <2>1, <2>2, <2>3, ToldSet
<1>3. CASE engineTalks(t)
  <2> DEFINE quiet == disarm(turn[t])
             next == IF turn[t].committed THEN arm(quiet) ELSE quiet
  <2>1. quiet \in TurnShape /\ Plot(quiet) = Plot(turn[t])
    BY <1>0, Disarms DEF Plot
  <2>2. turn[t].engine # "none" /\ Set(t, next) /\ UNCHANGED <<current, closed>>
    BY <1>3 DEF engineTalks, EngineEvent
  <2> HIDE DEF quiet
  <2>3. Plot(next) = Plot(turn[t])
    BY <2>1, ArmPlot
  <2> HIDE DEF next
  <2>4. /\ next.engine = turn[t].engine /\ next.told = turn[t].told /\ next.committed = turn[t].committed
        /\ next.discarded = turn[t].discarded /\ next.ended = turn[t].ended
    BY <2>3 DEF Plot
  <2>5. Tale(next)
    BY <1>0, <2>2, <2>4, SameTale
  <2> QED
    BY <1>0, <2>2, <2>4, <2>5, ToldSet
<1>4. CASE engineDone(t)
  <2>1. /\ turn[t].engine # "none" /\ ~turn[t].ended /\ Set(t, finishTurn(turn[t])) /\ UNCHANGED closed
        /\ current' \in {current, NoTurn} /\ current' # t
    BY <1>0, <1>4 DEF engineDone, EngineEvent, Left
  <2>2. Tale(finishTurn(turn[t]))
    BY <1>0, <2>1, FinishTale
  <2> QED
    BY <2>1, <2>2, ToldSet
<1>5. CASE silence(t)
  <2> DEFINE next == [turn[t] EXCEPT !.watch = "due"]
  <2>1. /\ next.engine = turn[t].engine /\ next.told = turn[t].told /\ next.committed = turn[t].committed
        /\ next.discarded = turn[t].discarded /\ next.ended = turn[t].ended
    BY <1>0 DEF TurnShape
  <2>2. turn[t].engine # "none" /\ Set(t, next) /\ UNCHANGED <<current, closed>>
    BY <1>0, <1>5 DEF silence, Watched
  <2> HIDE DEF next
  <2>3. Tale(next)
    BY <1>0, <2>1, <2>2, SameTale
  <2> QED
    BY <1>0, <2>1, <2>2, <2>3, ToldSet
<1> QED
  BY <1>1, <1>2, <1>3, <1>4, <1>5

LEMMA ToldFoundStep == ASSUME ToldInv, SessionInv', NEW t \in Turns, modelFound(t) PROVE ToldInv'
<1> DEFINE held == [turn[t] EXCEPT !.info = TRUE, !.lease = @ + 1]
           open == [held EXCEPT !.engine = "open", !.queued = 0]
<1>0. /\ turn[t] \in TurnShape /\ Tale(turn[t]) /\ turn[t].engine # "none"
      /\ current = t => turn[t].ended \/ ~turn[t].committed
      /\ ~turn[t].ended /\ UNCHANGED <<current, closed>>
  BY SessionAssumption DEF ToldInv, SessionInv, CurrentTakesAudio, modelFound, Resolves
<1>1. held \in TurnShape /\ Plot(held) = Plot(turn[t])
  <2>1. turn[t].lease + 1 \in Int
    BY <1>0 DEF TurnShape
  <2> QED
    BY <1>0, <2>1 DEF TurnShape, Plot
<1>2. Set(t, endTurn(held)) \/ Set(t, arm(open))
  BY DEF modelFound
<1> HIDE DEF held
<1>3. open \in TurnShape /\ Plot(open) = <<"open", held.told, held.committed, held.discarded, held.ended>>
  BY <1>1 DEF TurnShape, Plot
<1> HIDE DEF open
<1>4. CASE Set(t, endTurn(held))
  <2>1. Plot(endTurn(held)) = <<held.engine, held.told, held.committed, held.discarded, TRUE>>
    BY <1>1, EndPlot
  <2>2. /\ endTurn(held).engine = turn[t].engine /\ endTurn(held).told = turn[t].told
        /\ endTurn(held).ended = TRUE
    BY <1>1, <2>1 DEF Plot
  <2>3. turn[t].told \in Tales
    BY <1>0 DEF Tale, Tales
  <2>4. Tale(endTurn(held))
    BY <1>0, <2>2, <2>3 DEF Tale
  <2> QED
    BY <1>0, <1>4, <2>2, <2>4, ToldSet
<1>5. CASE Set(t, arm(open))
  <2>1. Plot(arm(open)) = Plot(open)
    BY <1>3, ArmPlot
  <2>2. /\ arm(open).engine = "open" /\ arm(open).told = turn[t].told /\ arm(open).committed = turn[t].committed
        /\ arm(open).discarded = turn[t].discarded /\ arm(open).ended = turn[t].ended
    BY <1>1, <1>3, <2>1 DEF Plot
  <2>3. Tale(arm(open))
    BY <1>0, <2>2, SameTale
  <2> QED
    BY <1>0, <1>5, <2>2, <2>3, ToldSet
<1> QED
  BY <1>2, <1>4, <1>5

LEMMA ToldAppendStep == ASSUME ToldInv, SessionInv', handleAppend PROVE ToldInv'
<1> DEFINE over == current # NoTurn /\ turn[current].audio >= cap
           goesOn == current # NoTurn /\ ~over
           start(t) == [turn[t] EXCEPT !.engine = IF goesOn THEN @ ELSE "resolving"]
           fed(t) == Taken(start(t))
<1>0. /\ \A t \in Turns : turn[t] \in TurnShape /\ Tale(turn[t])
      /\ current # NoTurn => current \in Turns /\ turn[current].engine # "none"
                             /\ (turn[current].ended \/ ~turn[current].committed)
      /\ UNCHANGED closed
  BY DEF ToldInv, SessionInv, CurrentTakesAudio, handleAppend
<1>1. CASE cap = 0
  BY <1>0, <1>1 DEF handleAppend, ToldInv, Tale, CurrentTakesAudio
<1>2. CASE cap # 0
  <2>1. PICK t \in Turns :
          /\ IF goesOn THEN t = current ELSE t \notin Started
          /\ turn' = [u \in Turns |-> IF u = t THEN fed(t)
                                      ELSE IF over /\ u = current THEN Taken(turn[u]) ELSE turn[u]]
          /\ current' = IF fed(t).committed THEN NoTurn ELSE t
    BY <1>2 DEF handleAppend
  <2>2. start(t) \in TurnShape /\ Tale(start(t)) /\ start(t).engine # "none" /\ (start(t).ended \/ ~start(t).committed)
    <3>1. CASE goesOn
      <4>1. start(t) = turn[t]
        BY <1>0, <3>1 DEF TurnShape
      <4> QED
        BY <1>0, <2>1, <3>1, <4>1
    <3>2. CASE ~goesOn
      <4>1. turn[t].engine = "none"
        BY <2>1, <3>2 DEF Started
      <4>2. /\ start(t) \in TurnShape /\ start(t).engine = "resolving" /\ start(t).told = turn[t].told
            /\ start(t).committed = turn[t].committed /\ start(t).discarded = turn[t].discarded
            /\ start(t).ended = turn[t].ended
        BY <1>0, <3>2 DEF TurnShape
      <4>3. ~turn[t].committed /\ Tale(turn[t])
        BY <1>0, <4>1 DEF Tale
      <4> QED
        BY <4>2, <4>3, SameTale
    <3> QED
      BY <3>1, <3>2
  <2>3. Tale(fed(t)) /\ fed(t).engine # "none"
    BY <2>2, TakeTale
  <2>4. over => Tale(Taken(turn[current]))
    BY <1>0, TakeTale
  <2> HIDE DEF fed, over
  <2>5. \A u \in Turns : Tale(turn'[u])
    BY <1>0, <2>1, <2>3, <2>4
  <2>6. \A u \in Turns : Tale(turn[u])'
    BY <1>0, <2>5 DEF Tale
  <2>7. CurrentTakesAudio'
    BY <2>1, <2>3 DEF CurrentTakesAudio
  <2> QED
    BY <2>6, <2>7 DEF ToldInv
<1> QED
  BY <1>1, <1>2

LEMMA ToldHandlerStep == ASSUME ToldInv, SessionInv', Handler PROVE ToldInv'
<1>0. current # NoTurn => /\ current \in Turns /\ turn[current] \in TurnShape /\ Tale(turn[current])
                          /\ turn[current].engine # "none"
                          /\ turn[current].ended \/ ~turn[current].committed
  BY DEF ToldInv, SessionInv, CurrentTakesAudio
<1>1. CASE UNCHANGED <<turn, current, closed>>
  BY <1>1 DEF ToldInv, Tale, CurrentTakesAudio
<1>2. CASE handleCommit /\ current # NoTurn
  <2>1. Tale(commitTurn(turn[current]))
    BY <1>0, <1>2, CommitTale
  <2> QED
    BY <1>0, <1>2, <2>1, ToldSet DEF handleCommit
<1>3. CASE handleClear /\ current # NoTurn
  <2>1. Tale(discard(turn[current]))
    BY <1>0, <1>3, DiscardTale
  <2> QED
    BY <1>0, <1>3, <2>1, ToldSet DEF handleClear
<1>4. \/ handleAppend
      \/ handleCommit /\ current # NoTurn
      \/ handleClear /\ current # NoTurn
      \/ UNCHANGED <<turn, current, closed>>
  <2>1. CASE handleSessionUpdate \/ sessionUpdated
    BY <2>1 DEF handleSessionUpdate, sessionUpdated
  <2>2. CASE handleCommit
    BY <2>2 DEF handleCommit
  <2>3. CASE handleClear
    BY <2>3 DEF handleClear
  <2> QED
    BY <2>1, <2>2, <2>3 DEF Handler
<1> QED
  BY <1>1, <1>2, <1>3, <1>4, ToldAppendStep

LEMMA ToldCloseStep == ASSUME ToldInv, SessionInv', close PROVE ToldInv'
<1>0. \A t \in Turns : turn[t] \in TurnShape /\ Tale(turn[t])
  BY DEF ToldInv, SessionInv
<1>1. \A t \in Turns : turn'[t] = IF t \in Started /\ ~turn[t].ended THEN discard(turn[t]) ELSE turn[t]
  BY DEF close
<1>2. \A t \in Started : Tale(discard(turn[t]))
  BY <1>0, DiscardTale DEF Started
<1>3. \A t \in Turns : Tale(turn'[t])
  BY <1>0, <1>1, <1>2
<1>4. \A t \in Turns : Tale(turn[t])'
  BY <1>3 DEF Tale, close
<1>5. CurrentTakesAudio'
  BY <1>1 DEF close, ToldInv, SessionInv, CurrentTakesAudio
<1> QED
  BY <1>4, <1>5 DEF ToldInv

LEMMA ToldInvStep == ToldInv /\ [SessionNext]_sessionVars => ToldInv'
<1> SUFFICES ASSUME ToldInv, [SessionNext]_sessionVars PROVE ToldInv'
  OBVIOUS
<1>0. SessionInv'
  BY SessionInvStep DEF ToldInv
<1>1. CASE UNCHANGED <<turn, current, closed>>
  BY <1>0, <1>1 DEF ToldInv, Tale, CurrentTakesAudio
<1>2. \/ UNCHANGED <<turn, current, closed>> \/ Handler \/ close
      \/ \E t \in Turns : \/ Resolution(t) \/ silence(t) \/ watchdog(t)
                          \/ engineTalks(t) \/ engineDone(t) \/ engineFails(t) \/ engineCloses(t)
  BY DEF SessionNext, sessionVars, receive
<1> QED
  BY <1>0, <1>1, <1>2, ToldHandlerStep, ToldCloseStep, ToldFoundStep, ToldTurnStep DEF Resolution

LEMMA ToldInitInv == SessionInit => ToldInv
<1>1. Tale(NotStarted)
  BY DEF NotStarted, Tale
<1> QED
  BY <1>1, SessionInitInv DEF SessionInit, ToldInv, CurrentTakesAudio

(* session.ts 214-260: for any number of turns, the client hears of a turn *)
(* in order and once, whoever of client, engine and timer ends it.         *)
THEOREM ToldInOrder == SessionSpec => []ItemToldInOrder
<1>1. ToldInv => ItemToldInOrder
  BY DEF ToldInv, SessionInv, TurnShape, Tale, Tales, ItemToldInOrder
<1> QED
  BY ToldInitInv, ToldInvStep, <1>1, PTL DEF SessionSpec

(***************************************************************************)
(* Admissions.                                                             *)
(***************************************************************************)

Before == {"idle", "selecting", "admitting"}

NothingHeldBefore == \A r \in Requests : req[r].phase \in Before => req[r].holds = {}
HostChosen == \A r \in Requests : req[r].phase = "admitting" => req[r].host \in Hosts
HoldersBounded ==
  \A k \in Installations : \/ Cardinality(Holders(k)) <= AdmissionLimit
                           \/ Cardinality(Holders(k)) <= AdmissionLimit + missed[k]

(* What the argument needs of RequestTypeOK. *)
RequestShape == [phase : {"idle", "selecting", "admitting", "resolving", "serving"},
                 host : Hosts \cup {NoHost}, role : Roles,
                 full : SUBSET Hosts, holds : SUBSET Installations]

FlowShape ==
  /\ placed \in [Roles -> SUBSET Hosts]
  /\ req \in [Requests -> RequestShape]
  /\ count \in [Installations -> Int]
  /\ missed \in [Installations -> Int]

FlowInv == FlowShape /\ NothingHeldBefore /\ HostChosen /\ HoldersAreCounted /\ HoldersBounded

LEMMA LimitIsNat == AdmissionLimit \in Nat
  BY FlowAssumption DEF AdmissionLimit, admissionLimit

LEMMA HoldersCount ==
  ASSUME NEW k PROVE IsFiniteSet(Holders(k)) /\ Cardinality(Holders(k)) \in Nat
<1>1. Holders(k) \subseteq Requests
  BY DEF Holders
<1> QED
  BY <1>1, FlowAssumption, FS_Subset, FS_CardinalityType

LEMMA FlowInitInv == RequestInit => FlowInv
<1> SUFFICES ASSUME RequestInit PROVE FlowInv
  OBVIOUS
<1>1. FlowShape
  BY PlacementAssumption DEF RequestInit, FlowShape, RequestShape, Idle, Roles
<1>2. NothingHeldBefore /\ HostChosen
  BY DEF RequestInit, NothingHeldBefore, HostChosen, Idle
<1>3. \A k \in Installations : Holders(k) = {}
  BY DEF RequestInit, Holders, Idle
<1>4. HoldersAreCounted
  BY <1>3, FS_EmptySet DEF RequestInit, HoldersAreCounted
<1>5. HoldersBounded
  BY <1>3, FS_EmptySet, LimitIsNat DEF HoldersBounded
<1> QED
  BY <1>1, <1>2, <1>4, <1>5 DEF FlowInv

(* A step that leaves what is held and the counters alone. *)
LEMMA CountsRest ==
  ASSUME FlowInv, UNCHANGED <<count, missed>>, \A r \in Requests : req'[r].holds = req[r].holds
  PROVE  HoldersAreCounted' /\ HoldersBounded'
<1>1. \A k : Holders(k)' = Holders(k)
  BY DEF Holders
<1> QED
  BY <1>1 DEF FlowInv, HoldersAreCounted, HoldersBounded

(* Every counter a request holds is let go of: the counter falls, or the   *)
(* decr that failed or found none is accounted for.                        *)
LEMMA ReleaseCounts ==
  ASSUME FlowInv, NEW r \in Requests, Release(r), NEW rec, rec.holds = {}, req' = [req EXCEPT ![r] = rec]
  PROVE  HoldersAreCounted' /\ HoldersBounded' /\ count' \in [Installations -> Int]
         /\ missed' \in [Installations -> Int]
<1>0. /\ req[r].holds \subseteq Installations /\ count \in [Installations -> Int] /\ missed \in [Installations -> Int]
  BY DEF FlowInv, FlowShape, RequestShape
<1>1. PICK lost \in SUBSET req[r].holds :
        /\ count' = [k \in Installations |-> IF k \in req[r].holds \ lost THEN count[k] - 1 ELSE count[k]]
        /\ missed' = [k \in Installations |-> IF k \in lost THEN missed[k] - 1 ELSE missed[k]]
  <2>1. PICK failed \in SUBSET req[r].holds :
          LET uncounted == failed \cup {k \in req[r].holds : ~decrCounts(k)}
          IN  /\ count' = [k \in Installations |->
                             IF k \in req[r].holds \ uncounted THEN count[k] - 1 ELSE count[k]]
              /\ missed' = [k \in Installations |->
                              IF k \in uncounted THEN missed[k] - 1 ELSE missed[k]]
    BY DEF Release
  <2> QED
    BY <2>1
<1>2. \A k : Holders(k)' = Holders(k) \ {r}
  BY DEF Holders, FlowInv, FlowShape
<1>3. ASSUME NEW k \in Installations
      PROVE  /\ count'[k] = Cardinality(Holders(k)') - missed'[k]
             /\ \/ Cardinality(Holders(k)') <= AdmissionLimit
                \/ Cardinality(Holders(k)') <= AdmissionLimit + missed'[k]
  <2>1. /\ count[k] = Cardinality(Holders(k)) - missed[k] /\ count[k] \in Int /\ missed[k] \in Int
        /\ \/ Cardinality(Holders(k)) <= AdmissionLimit
           \/ Cardinality(Holders(k)) <= AdmissionLimit + missed[k]
    BY <1>0 DEF FlowInv, HoldersAreCounted, HoldersBounded
  <2>2. CASE k \in req[r].holds
    <3>1. r \in Holders(k)
      BY <2>2 DEF Holders
    <3>2. Cardinality(Holders(k)') = Cardinality(Holders(k)) - 1
      BY <1>2, <3>1, HoldersCount, FS_RemoveElement
    <3>3. \/ count'[k] = count[k] - 1 /\ missed'[k] = missed[k]
          \/ count'[k] = count[k] /\ missed'[k] = missed[k] - 1
      BY <1>1, <2>2
    <3> QED
      BY <2>1, <3>2, <3>3, HoldersCount, LimitIsNat
  <2>3. CASE k \notin req[r].holds
    <3>1. Holders(k)' = Holders(k)
      BY <1>2, <2>3 DEF Holders
    <3>2. count'[k] = count[k] /\ missed'[k] = missed[k]
      BY <1>1, <2>3
    <3> QED
      BY <2>1, <3>1, <3>2
  <2> QED
    BY <2>2, <2>3
<1>4. count' \in [Installations -> Int] /\ missed' \in [Installations -> Int]
  BY <1>0, <1>1
<1> QED
  BY <1>3, <1>4 DEF HoldersAreCounted, HoldersBounded

(***************************************************************************)
(* The steps of a request.                                                 *)
(***************************************************************************)

(* A request takes its next record. *)
LEMMA Takeover ==
  ASSUME FlowInv, UNCHANGED placed, NEW r \in Requests, NEW rec \in RequestShape,
         req' = [req EXCEPT ![r] = rec],
         rec.phase \in Before => rec.holds = {},
         rec.phase = "admitting" => rec.host \in Hosts,
         count' \in [Installations -> Int], missed' \in [Installations -> Int]
  PROVE  FlowShape' /\ NothingHeldBefore' /\ HostChosen'
<1>1. req' \in [Requests -> RequestShape] /\ \A q \in Requests : req'[q] = IF q = r THEN rec ELSE req[q]
  BY DEF FlowInv, FlowShape
<1>2. FlowShape'
  BY <1>1 DEF FlowInv, FlowShape
<1>3. NothingHeldBefore' /\ HostChosen'
  BY <1>1 DEF FlowInv, NothingHeldBefore, HostChosen
<1> QED
  BY <1>2, <1>3

(* ... and holds what it held. *)
LEMMA QuietTakeover ==
  ASSUME FlowInv, UNCHANGED <<placed, count, missed>>, NEW r \in Requests, NEW rec \in RequestShape,
         req' = [req EXCEPT ![r] = rec], rec.holds = req[r].holds,
         rec.phase \in Before => rec.holds = {},
         rec.phase = "admitting" => rec.host \in Hosts
  PROVE  FlowInv'
<1>1. FlowShape' /\ NothingHeldBefore' /\ HostChosen'
  <2>1. count' \in [Installations -> Int] /\ missed' \in [Installations -> Int]
    BY DEF FlowInv, FlowShape
  <2> QED
    BY <2>1, Takeover
<1>2. \A q \in Requests : req'[q].holds = req[q].holds
  BY DEF FlowInv, FlowShape
<1> QED
  BY <1>1, <1>2, CountsRest DEF FlowInv

LEMMA QuietSteps ==
  ASSUME FlowInv, UNCHANGED placed, NEW r \in Requests,
         getModelInfo(r) \/ selectHost(r) \/ refuse(r) \/ admittedUncounted(r) \/ catalogAnswers(r)
  PROVE  FlowInv'
<1>0. req[r] \in RequestShape /\ (req[r].phase \in Before => req[r].holds = {})
  BY DEF FlowInv, FlowShape, NothingHeldBefore
<1>i. Idle \in RequestShape /\ Idle.holds = {} /\ Idle.phase = "idle"
  BY DEF Idle, RequestShape, Roles
<1>1. CASE getModelInfo(r)
  <2> DEFINE rec == [Idle EXCEPT !.phase = "selecting"]
  <2>1. rec \in RequestShape /\ rec.holds = {} /\ rec.phase = "selecting"
    BY DEF Idle, RequestShape, Roles
  <2>2. req' = [req EXCEPT ![r] = rec] /\ req[r].holds = {}
    BY <1>0, <1>1 DEF getModelInfo, Before
  <2> QED
    BY <1>1, <2>1, <2>2, QuietTakeover DEF getModelInfo
<1>2. CASE refuse(r)
  <2>1. req' = [req EXCEPT ![r] = Idle] /\ req[r].holds = {}
    BY <1>0, <1>2 DEF refuse, Before
  <2> QED
    BY <1>i, <1>2, <2>1, QuietTakeover DEF refuse
<1>3. CASE selectHost(r)
  <2>1. PICK role \in Roles, h \in Hosts :
          req' = [req EXCEPT ![r].phase = "admitting", ![r].host = h, ![r].role = role]
    BY <1>3 DEF selectHost
  <2> DEFINE rec == [req[r] EXCEPT !.phase = "admitting", !.host = h, !.role = role]
  <2>2. req' = [req EXCEPT ![r] = rec]
    BY <2>1 DEF FlowInv, FlowShape
  <2>3. rec \in RequestShape /\ rec.holds = req[r].holds /\ rec.host = h
    BY <1>0 DEF RequestShape
  <2>4. req[r].holds = {}
    BY <1>0, <1>3 DEF selectHost, Before
  <2> QED
    BY <1>3, <2>2, <2>3, <2>4, QuietTakeover DEF selectHost
<1>4. CASE admittedUncounted(r)
  <2> DEFINE rec == [req[r] EXCEPT !.phase = "resolving", !.full = {}]
  <2>1. req' = [req EXCEPT ![r] = rec]
    BY <1>4 DEF admittedUncounted, FlowInv, FlowShape
  <2>2. rec \in RequestShape /\ rec.holds = req[r].holds /\ rec.phase = "resolving"
    BY <1>0 DEF RequestShape
  <2> QED
    BY <1>4, <2>1, <2>2, QuietTakeover DEF admittedUncounted, Before
<1>5. CASE catalogAnswers(r)
  <2> DEFINE rec == [req[r] EXCEPT !.phase = "serving"]
  <2>1. req' = [req EXCEPT ![r] = rec]
    BY <1>5 DEF catalogAnswers, FlowInv, FlowShape
  <2>2. rec \in RequestShape /\ rec.holds = req[r].holds /\ rec.phase = "serving"
    BY <1>0 DEF RequestShape
  <2> QED
    BY <1>5, <2>1, <2>2, QuietTakeover DEF catalogAnswers, Before
<1> QED
  BY <1>1, <1>2, <1>3, <1>4, <1>5

(* An admission counts one more holder, below the limit. *)
LEMMA AdmittedStep ==
  ASSUME FlowInv, UNCHANGED placed, NEW r \in Requests, admitted(r)
  PROVE  FlowInv'
<1>0. Location(r) \in Installations /\ req[r].holds = {} /\ req[r] \in RequestShape
  BY DEF admitted, Location, Installations, Roles, FlowInv, FlowShape, HostChosen, NothingHeldBefore, Before
<1>1. PICK at \in Installations : at = Location(r)
  BY <1>0
<1> DEFINE rec == [req[r] EXCEPT !.phase = "resolving", !.full = {}, !.holds = {at}]
<1>2. /\ count[at] < AdmissionLimit
      /\ count' = [count EXCEPT ![at] = @ + 1] /\ missed' = missed
  BY <1>1, LimitIsNat DEF admitted, Full, FlowInv, FlowShape
<1>r. req' = [req EXCEPT ![r] = rec]
  <2>1. req[r].holds \cup {at} = {at}
    BY <1>0
  <2>2. req' = [req EXCEPT ![r].phase = "resolving", ![r].full = {}, ![r].holds = req[r].holds \cup {at}]
    BY <1>1 DEF admitted, FlowInv, FlowShape
  <2> QED
    BY <2>1, <2>2 DEF FlowInv, FlowShape
<1>s. rec \in RequestShape /\ rec.holds = {at} /\ rec.phase = "resolving"
  BY <1>0 DEF RequestShape
<1> HIDE DEF rec
<1>3. FlowShape' /\ NothingHeldBefore' /\ HostChosen'
  <2>1. count' \in [Installations -> Int] /\ missed' \in [Installations -> Int]
    BY <1>2 DEF FlowInv, FlowShape
  <2> QED
    BY <1>r, <1>s, <2>1, Takeover DEF Before
<1>h. \A k : Holders(k)' = IF k = at THEN Holders(k) \cup {r} ELSE Holders(k)
  BY <1>0, <1>r, <1>s DEF Holders, FlowInv, FlowShape
<1>4. Holders(at)' = Holders(at) \cup {r} /\ r \notin Holders(at)
  BY <1>0, <1>h DEF Holders
<1>5. Cardinality(Holders(at)') = Cardinality(Holders(at)) + 1
  BY <1>4, HoldersCount, FS_AddElement
<1>6. ASSUME NEW k \in Installations
      PROVE  /\ count'[k] = Cardinality(Holders(k)') - missed'[k]
             /\ \/ Cardinality(Holders(k)') <= AdmissionLimit
                \/ Cardinality(Holders(k)') <= AdmissionLimit + missed'[k]
  <2>1. /\ count[k] = Cardinality(Holders(k)) - missed[k] /\ count[k] \in Int /\ missed[k] \in Int
        /\ \/ Cardinality(Holders(k)) <= AdmissionLimit
           \/ Cardinality(Holders(k)) <= AdmissionLimit + missed[k]
    BY DEF FlowInv, FlowShape, HoldersAreCounted, HoldersBounded
  <2>2. CASE k = at
    <3>1. count'[k] = count[k] + 1
      BY <1>2, <2>2 DEF FlowInv, FlowShape
    <3> QED
      BY <1>2, <1>5, <2>1, <2>2, <3>1, HoldersCount, LimitIsNat
  <2>3. CASE k # at
    <3>1. Holders(k)' = Holders(k) /\ count'[k] = count[k]
      BY <1>2, <1>h, <2>3 DEF FlowInv, FlowShape
    <3> QED
      BY <1>2, <2>1, <3>1
  <2> QED
    BY <2>2, <2>3
<1> QED
  BY <1>3, <1>6 DEF FlowInv, HoldersAreCounted, HoldersBounded

LEMMA ReleasingSteps ==
  ASSUME FlowInv, UNCHANGED placed, NEW r \in Requests, notAdmitted(r) \/ catalogFails(r) \/ finish(r)
  PROVE  FlowInv'
<1>1. CASE notAdmitted(r)
  <2> DEFINE rec == [req[r] EXCEPT !.phase = "selecting", !.holds = {}, !.full = @ \cup {req[r].host}]
  <2>1. req[r].host \in Hosts /\ Release(r)
    BY <1>1 DEF notAdmitted, FlowInv, HostChosen
  <2>2. req' = [req EXCEPT ![r] = rec]
    BY <1>1 DEF notAdmitted, FlowInv, FlowShape
  <2>3. /\ rec.holds = {} /\ rec.phase = "selecting"
        /\ rec \in RequestShape
    BY <2>1 DEF FlowInv, FlowShape, RequestShape
  <2> HIDE DEF rec
  <2>4. HoldersAreCounted' /\ HoldersBounded' /\ count' \in [Installations -> Int] /\ missed' \in [Installations -> Int]
    BY <2>1, <2>2, <2>3, ReleaseCounts
  <2> QED
    BY <2>2, <2>3, <2>4 DEF FlowInv, FlowShape, NothingHeldBefore, HostChosen
<1>2. CASE catalogFails(r) \/ finish(r)
  <2>1. req' = [req EXCEPT ![r] = Idle] /\ Release(r) /\ Idle.holds = {} /\ Idle.phase = "idle"
    BY <1>2 DEF catalogFails, finish, Idle
  <2>2. Idle \in RequestShape
    BY DEF Idle, Roles, RequestShape
  <2>3. HoldersAreCounted' /\ HoldersBounded' /\ count' \in [Installations -> Int] /\ missed' \in [Installations -> Int]
    BY <2>1, ReleaseCounts
  <2> QED
    BY <2>1, <2>2, <2>3 DEF FlowInv, FlowShape, NothingHeldBefore, HostChosen
<1> QED
  BY <1>1, <1>2

(* An expired counter misses exactly the holders it had counted. *)
LEMMA ExpiryStep ==
  ASSUME FlowInv, UNCHANGED placed, NEW k \in Installations, counterExpires(k)
  PROVE  FlowInv'
<1>1. \A i : Holders(i)' = Holders(i)
  BY DEF counterExpires, Holders
<1>2. FlowShape' /\ NothingHeldBefore' /\ HostChosen'
  BY DEF counterExpires, FlowInv, FlowShape, NothingHeldBefore, HostChosen
<1>3. ASSUME NEW i \in Installations
      PROVE  /\ count'[i] = Cardinality(Holders(i)') - missed'[i]
             /\ \/ Cardinality(Holders(i)') <= AdmissionLimit
                \/ Cardinality(Holders(i)') <= AdmissionLimit + missed'[i]
  <2>1. /\ count[i] = Cardinality(Holders(i)) - missed[i] /\ count[i] \in Int /\ missed[i] \in Int
        /\ \/ Cardinality(Holders(i)) <= AdmissionLimit
           \/ Cardinality(Holders(i)) <= AdmissionLimit + missed[i]
    BY DEF FlowInv, FlowShape, HoldersAreCounted, HoldersBounded
  <2>2. \/ i # k /\ count'[i] = count[i] /\ missed'[i] = missed[i]
        \/ i = k /\ count'[i] = 0 /\ missed'[i] = missed[i] + count[i]
    BY DEF counterExpires, FlowInv, FlowShape
  <2> QED
    BY <1>1, <2>1, <2>2, HoldersCount, LimitIsNat
<1> QED
  BY <1>2, <1>3 DEF FlowInv, HoldersAreCounted, HoldersBounded

LEMMA FlowInvStep == FlowInv /\ [RequestNext]_requestVars => FlowInv'
<1>1. ASSUME FlowInv, UNCHANGED requestVars PROVE FlowInv'
  BY <1>1 DEF requestVars, FlowInv, FlowShape, NothingHeldBefore, HostChosen, HoldersAreCounted,
              HoldersBounded, Holders
<1> QED
  BY <1>1, QuietSteps, AdmittedStep, ReleasingSteps, ExpiryStep DEF RequestNext, LookupStep

(* load-balancer.ts 275-294: for any requests, hosts and faults, every     *)
(* admission is counted once and let go once.                              *)
THEOREM HoldersCounted == RequestSpec => []HoldersAreCounted
<1>1. FlowInv => HoldersAreCounted
  BY DEF FlowInv
<1> QED
  BY FlowInitInv, FlowInvStep, <1>1, PTL DEF RequestSpec

(* load-balancer.ts 266-272: an installation's requests stay within its    *)
(* admission limit, as long as no counter expired under one it counted.    *)
THEOREM AdmissionsBounded == RequestSpec => []AdmissionBounded
<1>1. FlowInv => AdmissionBounded
  BY HoldersCount, LimitIsNat DEF FlowInv, FlowShape, HoldersBounded, AdmissionBounded
<1> QED
  BY FlowInitInv, FlowInvStep, <1>1, PTL DEF RequestSpec

(***************************************************************************)
(* The row of a stored response.  Only the creating write makes a row, and *)
(* only the generation creates, so once it is past its creation nothing    *)
(* brings a settled or deleted row back to life.                           *)
(***************************************************************************)

ProcShape == [op : {"none", "create", "generate", "step", "final", "flush", "save", "over", "aborted", "publish",
                    "get", "cancel", "delete"},
              at : {"end", "set", "persist", "lookup", "recache", "found", "erase"},
              status : {"none", "in_progress"} \cup Settled]

ResponseShape ==
  /\ proc \in [Users -> ProcShape]
  /\ cached \in {"none", "in_progress"} \cup Settled
  /\ row \in {"none", "in_progress"} \cup Settled

OnlyRunCreates == \A p \in Users : proc[p].op = "create" => p = Run

ResponseInv == ResponseShape /\ OnlyRunCreates

(* A user goes on with its operation, or takes up another. *)
LEMMA GoesOn ==
  ASSUME ResponseInv, cached' \in {"none", "in_progress"} \cup Settled, row' \in {"none", "in_progress"} \cup Settled,
         NEW p \in Users, NEW rec \in ProcShape, rec.op = "create" => p = Run, proc' = [proc EXCEPT ![p] = rec]
  PROVE  ResponseInv'
<1>1. proc' \in [Users -> ProcShape] /\ \A q \in Users : proc'[q] = IF q = p THEN rec ELSE proc[q]
  BY DEF ResponseInv, ResponseShape
<1>2. ResponseShape'
  BY <1>1 DEF ResponseShape
<1>3. OnlyRunCreates'
  BY <1>1 DEF ResponseInv, OnlyRunCreates
<1> QED
  BY <1>2, <1>3 DEF ResponseInv

LEMMA GoesTo ==
  ASSUME ResponseInv, cached' \in {"none", "in_progress"} \cup Settled, row' \in {"none", "in_progress"} \cup Settled,
         NEW p \in Users, NEW at \in {"end", "set", "persist", "lookup", "recache", "found", "erase"}, Goes(p, at)
  PROVE  ResponseInv'
<1> DEFINE rec == [proc[p] EXCEPT !.at = at]
<1>1. proc[p] \in ProcShape /\ (proc[p].op = "create" => p = Run)
  BY DEF ResponseInv, ResponseShape, OnlyRunCreates
<1>2. rec \in ProcShape /\ rec.op = proc[p].op
  BY <1>1 DEF ProcShape
<1>3. proc' = [proc EXCEPT ![p] = rec]
  BY DEF Goes, ResponseInv, ResponseShape
<1> HIDE DEF rec
<1> QED
  BY <1>1, <1>2, <1>3, GoesOn

LEMMA BecomesOther ==
  ASSUME ResponseInv, UNCHANGED <<cached, row>>,
         NEW p \in Users, NEW op, NEW at \in {"end", "set", "lookup", "recache", "found"},
         NEW status \in {"none", "in_progress"} \cup Settled,
         \/ op = proc[p].op
         \/ op \in {"none", "generate", "step", "final", "flush", "save", "over", "aborted", "publish",
                    "get", "cancel", "delete"},
         Becomes(p, op, at, status)
  PROVE  ResponseInv'
<1> DEFINE rec == [op |-> op, at |-> at, status |-> status]
<1>1. proc[p] \in ProcShape /\ (proc[p].op = "create" => p = Run)
  BY DEF ResponseInv, ResponseShape, OnlyRunCreates
<1>2. rec \in ProcShape /\ rec.op = op
  BY <1>1 DEF ProcShape
<1>3. proc' = [proc EXCEPT ![p] = rec] /\ (op = "create" => p = Run)
  BY <1>1 DEF Becomes
<1>4. cached' \in {"none", "in_progress"} \cup Settled /\ row' \in {"none", "in_progress"} \cup Settled
  BY DEF ResponseInv, ResponseShape
<1> HIDE DEF rec
<1> QED
  BY <1>2, <1>3, <1>4, GoesOn

(* What a write does to the row of a created response. *)
LEMMA StoreStepInv == ASSUME ResponseInv, NEW p \in Users, StoreStep(p) PROVE ResponseInv'
<1>0. /\ proc[p] \in ProcShape
      /\ cached \in {"none", "in_progress"} \cup Settled /\ row \in {"none", "in_progress"} \cup Settled
      /\ proc[p].status \in {"none", "in_progress"} \cup Settled
  BY DEF ResponseInv, ResponseShape, ProcShape
<1>1. CASE cacheHit(p)
  BY <1>0, <1>1, BecomesOther DEF cacheHit
<1>2. CASE loadResponse(p)
  BY <1>0, <1>2, BecomesOther DEF loadResponse
<1>3. CASE recache(p)
  BY <1>0, <1>3, GoesTo DEF recache
<1>4. CASE cacheResponse(p)
  BY <1>0, <1>4, GoesTo DEF cacheResponse
<1>5. CASE cacheSetFails(p) \/ loadFails(p)
  <2>1. "failed" \in Settled /\ UNCHANGED <<cached, row>>
    BY <1>5 DEF Settled, cacheSetFails, loadFails
  <2>2. Becomes(p, "save", "set", "failed") \/ Becomes(p, "over", "end", "none") \/ Goes(p, "end")
    BY <1>5 DEF cacheSetFails, loadFails
  <2>3. CASE Becomes(p, "save", "set", "failed")
    BY <2>1, <2>3, BecomesOther
  <2>4. CASE Becomes(p, "over", "end", "none")
    BY <2>1, <2>4, BecomesOther
  <2>5. CASE Goes(p, "end")
    BY <1>0, <2>1, <2>5, GoesTo
  <2> QED
    BY <2>2, <2>3, <2>4, <2>5
<1>6. CASE persist(p)
  <2>1. row' \in {"none", "in_progress"} \cup Settled
    BY <1>0, <1>6 DEF persist, settlePersistedResponse
  <2> QED
    BY <1>0, <1>6, <2>1, GoesTo DEF persist
<1>7. CASE persistFails(p)
  BY <1>0, <1>7, GoesTo DEF persistFails
<1> QED
  BY <1>1, <1>2, <1>3, <1>4, <1>5, <1>6, <1>7 DEF StoreStep

LEMMA RunStepInv ==
  ASSUME ResponseInv,
         RunStep \/ stopCheck \/ onStepFinish \/ generationEnds \/ generationFails \/ streamAborted
  PROVE  ResponseInv'
<1>0. Run \in Users /\ "completed" \in Settled /\ "failed" \in Settled
  BY DEF Users, Settled
<1>1. CASE onStepFinish
  BY <1>1 DEF onStepFinish, ResponseInv, ResponseShape, OnlyRunCreates
<1>2. CASE ~onStepFinish
  <2>1. /\ UNCHANGED <<cached, row>>
        /\ \/ \E op \in {"generate", "over", "flush", "aborted"} : Becomes(Run, op, "end", "none")
           \/ \E op \in {"step", "final"} : Becomes(Run, op, "lookup", "none")
           \/ \E status \in {"completed", "failed"} : Becomes(Run, "save", "set", status)
    BY <1>2 DEF RunStep, startGeneration, stopAnswer, finalAnswer, flush, saved, stopCheck, generationEnds,
                generationFails, streamAborted
  <2>2. CASE \E op \in {"generate", "over", "flush", "aborted"} : Becomes(Run, op, "end", "none")
    BY <1>0, <2>1, <2>2, BecomesOther
  <2>3. CASE \E op \in {"step", "final"} : Becomes(Run, op, "lookup", "none")
    BY <1>0, <2>1, <2>3, BecomesOther
  <2>4. CASE \E status \in {"completed", "failed"} : Becomes(Run, "save", "set", status)
    BY <1>0, <2>1, <2>4, BecomesOther
  <2> QED
    BY <2>1, <2>2, <2>3, <2>4
<1> QED
  BY <1>1, <1>2

LEMMA OtherStepInv ==
  ASSUME ResponseInv,
         \/ \E p \in Users : answer(p)
         \/ publish \/ publishFound
         \/ \E c \in Clients : ClientStep(c) \/ \E op \in {"get", "cancel", "delete"} : request(c, op)
  PROVE  ResponseInv'
<1>0. /\ Progress \in Users /\ Clients \subseteq Users /\ "cancelled" \in Settled
      /\ cached \in {"none", "in_progress"} \cup Settled /\ row \in {"none", "in_progress"} \cup Settled
  BY DEF Users, Settled, ResponseInv, ResponseShape
<1>1. ASSUME NEW p \in Users, answer(p) PROVE ResponseInv'
  <2>1. Rest \in ProcShape /\ Rest.op = "none"
    BY DEF Rest, ProcShape
  <2> QED
    BY <1>0, <1>1, <2>1, GoesOn DEF answer
<1>2. CASE publish
  BY <1>0, <1>2, BecomesOther DEF publish
<1>3. CASE publishFound
  BY <1>0, <1>3, GoesTo DEF publishFound
<1>4. ASSUME NEW c \in Clients, cancel(c) PROVE ResponseInv'
  <2>1. UNCHANGED <<cached, row>> /\ (Becomes(c, "cancel", "set", "cancelled") \/ Goes(c, "end"))
    BY <1>4 DEF cancel
  <2>2. CASE Becomes(c, "cancel", "set", "cancelled")
    BY <1>0, <2>1, <2>2, BecomesOther
  <2>3. CASE Goes(c, "end")
    BY <1>0, <2>1, <2>3, GoesTo
  <2> QED
    BY <2>1, <2>2, <2>3
<1>5. ASSUME NEW c \in Clients, deleteCached(c) PROVE ResponseInv'
  <2>1. cached' \in {cached, "none"} /\ row' = row /\ (Goes(c, "erase") \/ Goes(c, "end"))
    BY <1>5 DEF deleteCached
  <2> QED
    BY <1>0, <2>1, GoesTo
<1>6. ASSUME NEW c \in Clients, deletePersistedResponse(c) PROVE ResponseInv'
  <2>1. row' \in {row, "none"} /\ cached' = cached /\ Goes(c, "end")
    BY <1>6 DEF deletePersistedResponse
  <2> QED
    BY <1>0, <2>1, GoesTo
<1>7. ASSUME NEW c \in Clients, NEW op \in {"get", "cancel", "delete"}, request(c, op) PROVE ResponseInv'
  <2>1. UNCHANGED <<cached, row>> /\ \E at \in {"set", "lookup"} : Becomes(c, op, at, "none")
    BY <1>7 DEF request
  <2> QED
    BY <1>0, <2>1, BecomesOther
<1> QED
  BY <1>1, <1>2, <1>3, <1>4, <1>5, <1>6, <1>7 DEF ClientStep

LEMMA TimeStepInv == ASSUME ResponseInv, expires \/ crash PROVE ResponseInv'
<1>1. CASE expires
  BY <1>1 DEF expires, ResponseInv, ResponseShape, OnlyRunCreates
<1>2. CASE crash
  <2> DEFINE stopped == [Rest EXCEPT !.op = "over"]
  <2>1. Rest \in ProcShape /\ stopped \in ProcShape /\ Rest.op = "none" /\ stopped.op = "over"
    BY DEF Rest, ProcShape
  <2>2. /\ proc' = [p \in Users |-> IF p = Run THEN stopped ELSE Rest]
        /\ cached' \in {cached, "none"} /\ row' = row
    BY <1>2 DEF crash
  <2> HIDE DEF stopped
  <2>3. proc' \in [Users -> ProcShape] /\ \A p \in Users : proc'[p].op # "create"
    BY <2>1, <2>2
  <2> QED
    BY <2>2, <2>3 DEF ResponseInv, ResponseShape, OnlyRunCreates
<1> QED
  BY <1>1, <1>2

LEMMA ResponseInvStep == ResponseInv /\ [ResponseNext]_responseVars => ResponseInv'
<1>1. ASSUME ResponseInv, UNCHANGED responseVars PROVE ResponseInv'
  BY <1>1 DEF responseVars, ResponseInv, ResponseShape, OnlyRunCreates
<1> QED
  BY <1>1, StoreStepInv, RunStepInv, OtherStepInv, TimeStepInv DEF ResponseNext

LEMMA ResponseInitInv == ResponseInit => ResponseInv
<1> SUFFICES ASSUME ResponseInit PROVE ResponseInv
  OBVIOUS
<1> DEFINE first == [op |-> "create", at |-> "set", status |-> "in_progress"]
<1>1. Rest \in ProcShape /\ first \in ProcShape /\ Rest.op = "none"
  BY DEF Rest, ProcShape
<1>2. proc = [p \in Users |-> IF p = Run THEN first ELSE Rest] /\ cached = "none" /\ row = "none"
  BY DEF ResponseInit
<1> HIDE DEF first
<1> QED
  BY <1>1, <1>2 DEF ResponseInv, ResponseShape, OnlyRunCreates

(* The steps that write the row. *)
LEMMA RowStep ==
  ASSUME ResponseInv, ResponseNext, Created, row # "in_progress"
  PROVE  row' \in {row, "none"}
<1>1. ASSUME NEW p \in Users, persist(p) PROVE row' = row
  <2>1. proc[p].op # "create"
    BY DEF ResponseInv, OnlyRunCreates, Created
  <2> QED
    BY <1>1, <2>1 DEF persist, settlePersistedResponse
<1>2. ASSUME NEW p \in Users, StoreStep(p), ~persist(p) PROVE row' = row
  BY <1>2 DEF StoreStep, cacheHit, loadResponse, loadFails, recache, cacheResponse, cacheSetFails, persistFails
<1>3. ASSUME RunStep \/ stopCheck \/ onStepFinish \/ generationEnds \/ generationFails \/ streamAborted
      PROVE  row' = row
  BY <1>3 DEF RunStep, startGeneration, stopAnswer, finalAnswer, flush, saved, stopCheck, onStepFinish,
              generationEnds, generationFails, streamAborted
<1>4. ASSUME NEW c \in Clients, ClientStep(c) PROVE row' \in {row, "none"}
  BY <1>4 DEF ClientStep, cancel, deleteCached, deletePersistedResponse
<1>5. ASSUME \/ \E p \in Users : answer(p)
             \/ publish \/ publishFound \/ expires \/ crash
             \/ \E c \in Clients : \E op \in {"get", "cancel", "delete"} : request(c, op)
      PROVE  row' = row
  BY <1>5 DEF answer, publish, publishFound, expires, crash, request
<1> QED
  BY <1>1, <1>2, <1>3, <1>4, <1>5 DEF ResponseNext

(* persistence.ts 147-151: for any number of calls under way, crashes and  *)
(* failed writes, a row that is settled or deleted stays so: nothing saved *)
(* late overwrites it or brings it back.                                   *)
THEOREM RowStaysFinal == ResponseSpec => RowIsFinal
<1>1. ResponseInv /\ [ResponseNext]_responseVars
        => [Created /\ row # "in_progress" => row' \in {row, "none"}]_responseVars
  BY RowStep
<1> QED
  BY ResponseInitInv, ResponseInvStep, <1>1, PTL DEF ResponseSpec, RowIsFinal

(***************************************************************************)
(* The run and its row.  While the row is in progress and nothing failed,  *)
(* the run has still to write it or a cancellation is about to; what makes *)
(* a run give up, a cancelled status, is seen by nobody before that        *)
(* cancellation is on its way to the row.                                  *)
(***************************************************************************)

Unsettled == row = "in_progress" /\ failures = 0

WillWrite(op, at) ==
  \/ op \in {"create", "generate", "step", "final", "flush", "aborted"}
  \/ op = "save" /\ at # "end"

(* Until the response is created nobody else is about. *)
Creating ==
  ~Created => /\ \A p \in Users \ {Run} : proc[p] = Rest
              /\ queued = 0 /\ cached \in {"none", "in_progress"}
              /\ proc[Run].status = "in_progress" /\ proc[Run].at \in {"set", "persist", "end"}

StoredIfAsked == row # "none" \/ (\E p \in Users : proc[p].at = "persist") => store

CallsFit ==
  /\ proc[Run].op = "save" => /\ proc[Run].status \in {"completed", "failed"}
                              /\ proc[Run].at \in {"set", "persist", "end"}
  /\ \A p \in Users : proc[p].op = "cancel" => p \in Clients

RunWritesOrIsCancelled == Unsettled => WillWrite(proc[Run].op, proc[Run].at) \/ Cancelling

CancelledIsOnItsWay ==
  Unsettled =>
    /\ cached = "cancelled" => Cancelling
    /\ \A p \in Users : proc[p].status = "cancelled" =>
         Cancelling \/ (proc[p].op = "cancel" /\ proc[p].at = "set")

SettleInv ==
  /\ failures \in Nat
  /\ Creating /\ StoredIfAsked /\ CallsFit
  /\ RunWritesOrIsCancelled /\ CancelledIsOnItsWay

(* What a step of one user of a created response must keep to. *)
LEMMA OneMoves ==
  ASSUME ResponseInv, SettleInv, Created, failures' \in Nat, UNCHANGED store,
         NEW p \in Users, NEW op, NEW at, NEW status, Becomes(p, op, at, status),
         op # "create",
         op = "cancel" => p \in Clients,
         at = "persist" => store,
         row' # "none" => row # "none",
         p = Run /\ op = "save" => status \in {"completed", "failed"} /\ at \in {"set", "persist", "end"},
         Unsettled' =>
           /\ Unsettled
           /\ p = Run => WillWrite(op, at) \/ Cancelling
           /\ Cancels(proc[p]) => op = "cancel" /\ at = "persist" /\ status = "cancelled"
           /\ status = "cancelled" => Cancelling \/ (op = "cancel" /\ at \in {"set", "persist"})
           /\ cached' = "cancelled" =>
                Cancelling \/ (op = "cancel" /\ at = "persist" /\ status = "cancelled")
  PROVE  SettleInv'
<1> DEFINE rec == [op |-> op, at |-> at, status |-> status]
<1>0. /\ Run \in Users /\ Clients \subseteq Users /\ Run \notin Clients
      /\ \A q \in Users : proc'[q] = IF q = p THEN rec ELSE proc[q]
      /\ rec.op = op /\ rec.at = at /\ rec.status = status
  BY ResponseAssumption DEF Users, ResponseInv, ResponseShape, Becomes
<1> HIDE DEF rec
<1>1. Created'
  BY <1>0 DEF Created
<1>2. StoredIfAsked'
  BY <1>0 DEF SettleInv, StoredIfAsked
<1>3. CallsFit'
  BY <1>0 DEF SettleInv, CallsFit
<1>4. Unsettled' /\ Cancelling => Cancelling'
  BY <1>0 DEF Cancelling, Cancels
<1>5. Unsettled' /\ op = "cancel" /\ at = "persist" /\ status = "cancelled" => Cancelling'
  BY <1>0 DEF Cancelling, Cancels
<1>6. RunWritesOrIsCancelled'
  <2> SUFFICES ASSUME Unsettled' PROVE WillWrite(proc'[Run].op, proc'[Run].at) \/ Cancelling'
    BY DEF RunWritesOrIsCancelled
  <2>1. CASE p = Run
    BY <1>0, <1>4, <2>1 DEF WillWrite
  <2>2. CASE p # Run
    BY <1>0, <1>4, <2>2 DEF WillWrite, SettleInv, RunWritesOrIsCancelled
  <2> QED
    BY <2>1, <2>2
<1>7. CancelledIsOnItsWay'
  <2> SUFFICES ASSUME Unsettled'
               PROVE  /\ cached' = "cancelled" => Cancelling'
                      /\ \A q \in Users : proc'[q].status = "cancelled" =>
                           Cancelling' \/ (proc'[q].op = "cancel" /\ proc'[q].at = "set")
    BY DEF CancelledIsOnItsWay
  <2>1. cached' = "cancelled" => Cancelling'
    BY <1>4, <1>5
  <2>2. ASSUME NEW q \in Users, proc'[q].status = "cancelled"
        PROVE  Cancelling' \/ (proc'[q].op = "cancel" /\ proc'[q].at = "set")
    <3>1. CASE q = p
      BY <1>0, <1>4, <1>5, <2>2, <3>1 DEF Cancels
    <3>2. CASE q # p
      BY <1>0, <1>4, <2>2, <3>2 DEF SettleInv, CancelledIsOnItsWay
    <3> QED
      BY <3>1, <3>2
  <2> QED
    BY <2>1, <2>2
<1> QED
  BY <1>1, <1>2, <1>3, <1>6, <1>7 DEF SettleInv, Creating

LEMMA SettleInitInv == ResponseInit => SettleInv
<1> SUFFICES ASSUME ResponseInit PROVE SettleInv
  OBVIOUS
<1> DEFINE first == [op |-> "create", at |-> "set", status |-> "in_progress"]
<1>1. /\ first.op = "create" /\ first.at = "set" /\ first.status = "in_progress"
      /\ Rest.op = "none" /\ Rest.at = "end" /\ Rest.status = "none"
  BY DEF Rest
<1>2. /\ Run \in Users
      /\ \A p \in Users : proc[p] = IF p = Run THEN first ELSE Rest
      /\ cached = "none" /\ row = "none" /\ queued = 0 /\ failures = 0
  BY DEF ResponseInit, Users
<1> HIDE DEF first
<1>3. Creating
  BY <1>1, <1>2 DEF Creating
<1>4. StoredIfAsked /\ CallsFit
  BY <1>1, <1>2 DEF StoredIfAsked, CallsFit
<1> QED
  BY <1>2, <1>3, <1>4 DEF SettleInv, RunWritesOrIsCancelled, CancelledIsOnItsWay, Unsettled

LEMMA GoesBecomes ==
  ASSUME ResponseInv, NEW p \in Users, NEW at, Goes(p, at)
  PROVE  Becomes(p, proc[p].op, at, proc[p].status)
<1>1. proc \in [Users -> ProcShape] /\ proc[p] \in ProcShape
  BY DEF ResponseInv, ResponseShape
<1>2. [proc[p] EXCEPT !.at = at] = [op |-> proc[p].op, at |-> at, status |-> proc[p].status]
  BY <1>1 DEF ProcShape
<1>3. proc' = [proc EXCEPT ![p] = [proc[p] EXCEPT !.at = at]]
  BY <1>1 DEF Goes
<1> QED
  BY <1>2, <1>3 DEF Becomes

(* A created response's row is not made again, and failures only add up. *)
LEMMA StaysUnsettled ==
  ASSUME ResponseInv, SettleInv, Created, ResponseNext
  PROVE  /\ failures' \in Nat /\ UNCHANGED store
         /\ row' # "none" => row # "none"
         /\ Unsettled' => Unsettled /\ ~Failure
<1>1. UNCHANGED store /\ (UNCHANGED failures \/ Failure)
  BY DEF ResponseNext, StoreStep, RunStep, ClientStep, cacheHit, loadResponse, loadFails, recache, cacheResponse,
         cacheSetFails, persist, persistFails, answer, startGeneration, stopAnswer, finalAnswer, flush,
         saved, stopCheck, onStepFinish, generationEnds, generationFails, streamAborted, publish,
         publishFound, cancel, deleteCached, deletePersistedResponse, request, expires, crash
<1>2. failures \in Nat
  BY DEF SettleInv
<1>3. Failure => failures' \in Nat \ {0}
  BY <1>2 DEF Failure
<1>4. row # "in_progress" => row' \in {row, "none"}
  BY RowStep
<1> QED
  BY <1>1, <1>2, <1>3, <1>4 DEF Unsettled

LEMMA StoreStepSettles ==
  ASSUME ResponseInv, SettleInv, Created, ResponseNext, NEW p \in Users, StoreStep(p)
  PROVE  SettleInv'
<1>0. /\ failures' \in Nat /\ UNCHANGED store
      /\ row' # "none" => row # "none"
      /\ Unsettled' => Unsettled /\ ~Failure
  BY StaysUnsettled
<1>a. /\ proc[p].op # "create"
      /\ proc[p].op = "cancel" => p \in Clients
      /\ row # "none" => store
      /\ p = Run /\ proc[p].op = "save" =>
           proc[p].status \in {"completed", "failed"} /\ proc[p].at \in {"set", "persist", "end"}
      /\ proc[p].at = "persist" => store
  BY DEF ResponseInv, OnlyRunCreates, Created, SettleInv, CallsFit, StoredIfAsked
<1>b. Unsettled => /\ p = Run => WillWrite(proc[p].op, proc[p].at) \/ Cancelling
                   /\ proc[p].status = "cancelled" =>
                        Cancelling \/ (proc[p].op = "cancel" /\ proc[p].at = "set")
                   /\ cached = "cancelled" => Cancelling
                   /\ row = "in_progress"
  BY DEF SettleInv, RunWritesOrIsCancelled, CancelledIsOnItsWay, Unsettled
<1> USE DEF WillWrite, Cancels
<1>1. CASE cacheHit(p)
  BY <1>0, <1>a, <1>b, <1>1, OneMoves DEF cacheHit
<1>2. CASE loadResponse(p)
  <2>1. PICK at \in {"found", "recache"} : Becomes(p, proc[p].op, at, row)
    BY <1>2 DEF loadResponse
  <2>2. proc[p].at = "lookup" /\ UNCHANGED cached
    BY <1>2 DEF loadResponse
  <2> QED
    BY <1>0, <1>a, <1>b, <2>1, <2>2, OneMoves
<1>3. CASE recache(p)
  <2>1. Becomes(p, proc[p].op, "found", proc[p].status)
    BY <1>3, GoesBecomes DEF recache
  <2>2. proc[p].at = "recache" /\ cached' \in {cached, proc[p].status}
    BY <1>3 DEF recache
  <2> QED
    BY <1>0, <1>a, <1>b, <2>1, <2>2, OneMoves
<1>4. CASE cacheResponse(p)
  <2>1. PICK at : at = (IF store THEN "persist" ELSE "end") /\ Becomes(p, proc[p].op, at, proc[p].status)
    BY <1>4, GoesBecomes DEF cacheResponse
  <2>2. proc[p].at = "set" /\ cached' = proc[p].status
    BY <1>4 DEF cacheResponse
  <2> QED
    BY <1>0, <1>a, <1>b, <2>1, <2>2, OneMoves
<1>5. CASE cacheSetFails(p) \/ loadFails(p)
  <2>1. Failure
    BY <1>5 DEF cacheSetFails, loadFails
  <2>2. \/ Becomes(p, "save", "set", "failed")
        \/ Becomes(p, "over", "end", "none")
        \/ Goes(p, "end")
    BY <1>5 DEF cacheSetFails, loadFails
  <2>3. CASE Becomes(p, "save", "set", "failed")
    BY <1>0, <2>1, <2>3, OneMoves
  <2>4. CASE Becomes(p, "over", "end", "none")
    BY <1>0, <2>1, <2>4, OneMoves
  <2>5. CASE Goes(p, "end")
    <3>1. Becomes(p, proc[p].op, "end", proc[p].status)
      BY <2>5, GoesBecomes
    <3> QED
      BY <1>0, <1>a, <2>1, <3>1, OneMoves
  <2> QED
    BY <2>2, <2>3, <2>4, <2>5
<1>6. CASE persist(p)
  <2>1. Becomes(p, proc[p].op, "end", proc[p].status)
    BY <1>6, GoesBecomes DEF persist
  <2>2. proc[p].at = "persist" /\ UNCHANGED cached
    BY <1>6 DEF persist
  <2>3. Unsettled' => proc[p].status = "in_progress"
    BY <1>0, <1>a, <1>b, <1>6 DEF persist, settlePersistedResponse, Unsettled
  <2> QED
    BY <1>0, <1>a, <1>b, <2>1, <2>2, <2>3, OneMoves
<1>7. CASE persistFails(p)
  <2>1. Becomes(p, proc[p].op, "end", proc[p].status) /\ Failure
    BY <1>7, GoesBecomes DEF persistFails
  <2> QED
    BY <1>0, <1>a, <2>1, OneMoves
<1> QED
  BY <1>1, <1>2, <1>3, <1>4, <1>5, <1>6, <1>7 DEF StoreStep

LEMMA RunStepSettles ==
  ASSUME ResponseInv, SettleInv, Created, ResponseNext,
         RunStep \/ stopCheck \/ onStepFinish \/ generationEnds \/ generationFails \/ streamAborted
  PROVE  SettleInv'
<1>0. /\ failures' \in Nat /\ UNCHANGED store
      /\ row' # "none" => row # "none"
      /\ Unsettled' => Unsettled
  BY StaysUnsettled
<1>a. /\ Run \in Users /\ UNCHANGED <<cached, row>>
      /\ Run \notin Clients
  BY ResponseAssumption
     DEF Users, RunStep, startGeneration, stopAnswer, finalAnswer, flush, saved, stopCheck,
         onStepFinish, generationEnds, generationFails, streamAborted
<1>b. /\ proc[Run].op = "cancel" => Run \in Clients
      /\ Unsettled => /\ WillWrite(proc[Run].op, proc[Run].at) \/ Cancelling
                      /\ proc[Run].status = "cancelled" =>
                           Cancelling \/ (proc[Run].op = "cancel" /\ proc[Run].at = "set")
                      /\ cached = "cancelled" => Cancelling
  BY <1>a DEF SettleInv, RunWritesOrIsCancelled, CancelledIsOnItsWay, CallsFit
<1> USE DEF WillWrite, Cancels
<1>1. ASSUME NEW op \in {"generate", "step", "final", "flush", "aborted"}, NEW at \in {"end", "lookup"},
             Becomes(Run, op, at, "none")
      PROVE  SettleInv'
  BY <1>0, <1>a, <1>b, <1>1, OneMoves
<1>2. ASSUME NEW status \in {"completed", "failed"}, Becomes(Run, "save", "set", status)
      PROVE  SettleInv'
  BY <1>0, <1>a, <1>b, <1>2, OneMoves
<1>3. ASSUME Becomes(Run, "over", "end", "none"), Unsettled => Cancelling
      PROVE  SettleInv'
  BY <1>0, <1>a, <1>b, <1>3, OneMoves
<1>4. CASE finalAnswer \/ saved
  <2>1. CASE finalAnswer
    <3>1. proc[Run].status = "cancelled" => (Unsettled => Cancelling)
      BY <1>b, <2>1 DEF finalAnswer
    <3> QED
      BY <1>1, <1>3, <2>1, <3>1 DEF finalAnswer
  <2>2. CASE saved
    <3>1. Unsettled => Cancelling
      BY <1>b, <2>2 DEF saved
    <3> QED
      BY <1>3, <2>2, <3>1 DEF saved
  <2> QED
    BY <1>4, <2>1, <2>2
<1>5. CASE onStepFinish
  BY <1>5 DEF onStepFinish, SettleInv, Creating, Created, StoredIfAsked, CallsFit,
              RunWritesOrIsCancelled, CancelledIsOnItsWay, Unsettled, Cancelling
<1>6. CASE startGeneration \/ stopAnswer \/ stopCheck \/ streamAborted
  BY <1>1, <1>6 DEF startGeneration, stopAnswer, stopCheck, streamAborted
<1>7. CASE flush \/ generationEnds \/ generationFails
  BY <1>1, <1>2, <1>7 DEF flush, generationEnds, generationFails
<1> QED
  BY <1>4, <1>5, <1>6, <1>7 DEF RunStep

LEMMA OtherStepSettles ==
  ASSUME ResponseInv, SettleInv, Created, ResponseNext,
         \/ \E p \in Users : answer(p)
         \/ publish \/ publishFound
         \/ \E c \in Clients : ClientStep(c) \/ \E op \in {"get", "cancel", "delete"} : request(c, op)
  PROVE  SettleInv'
<1>0. /\ failures' \in Nat /\ UNCHANGED store
      /\ row' # "none" => row # "none"
      /\ Unsettled' => Unsettled
  BY StaysUnsettled
<1>a. Progress \in Users /\ Progress # Run /\ Clients \subseteq Users /\ Run \notin Clients
  BY ResponseAssumption DEF Users
<1>b. /\ Unsettled /\ cached = "cancelled" => Cancelling
      /\ \A p \in Users : /\ proc[p].op = "cancel" => p \in Clients
                          /\ p # Run => proc[p].op # "create"
                          /\ Unsettled /\ proc[p].status = "cancelled" =>
                               Cancelling \/ (proc[p].op = "cancel" /\ proc[p].at = "set")
  BY DEF SettleInv, CancelledIsOnItsWay, CallsFit, ResponseInv, OnlyRunCreates
<1> USE DEF Cancels
(* A user that is not the run, and not about to write a cancellation. *)
<1>1. ASSUME NEW p \in Users, p # Run, cached' \in {cached, "none"}, proc[p].at # "persist",
             NEW op, op # "create", op = "cancel" => p \in Clients,
             NEW at, at # "persist", NEW status,
             Unsettled /\ status = "cancelled" => Cancelling \/ (op = "cancel" /\ at = "set"),
             Becomes(p, op, at, status)
      PROVE  SettleInv'
  BY <1>0, <1>b, <1>1, OneMoves
<1>2. ASSUME NEW p \in Users, answer(p) PROVE SettleInv'
  <2>1. Becomes(p, "none", "end", "none") /\ p # Run /\ proc[p].at # "persist" /\ UNCHANGED cached
    BY <1>2 DEF answer, Becomes, Rest
  <2> QED
    BY <1>1, <2>1
<1>3. CASE publish
  <2>1. Becomes(Progress, "publish", "lookup", "none") /\ proc[Progress].at # "persist" /\ UNCHANGED cached
    BY <1>3 DEF publish, Rest
  <2> QED
    BY <1>1, <1>a, <2>1
<1>4. CASE publishFound
  <2>1. PICK at \in {"end", "set"} :
          /\ Becomes(Progress, proc[Progress].op, at, proc[Progress].status)
          /\ proc[Progress].at = "found" /\ UNCHANGED cached
    BY <1>4, <1>a, GoesBecomes DEF publishFound
  <2> QED
    BY <1>1, <1>a, <1>b, <2>1
<1>5. ASSUME NEW c \in Clients, cancel(c) PROVE SettleInv'
  <2>1. /\ UNCHANGED cached /\ proc[c].op = "cancel" /\ proc[c].at = "found"
        /\ Becomes(c, "cancel", "set", "cancelled") \/ Goes(c, "end")
    BY <1>5 DEF cancel
  <2>2. CASE Becomes(c, "cancel", "set", "cancelled")
    BY <1>1, <1>a, <2>1, <2>2
  <2>3. CASE Goes(c, "end")
    <3>1. Becomes(c, proc[c].op, "end", proc[c].status)
      BY <1>a, <2>3, GoesBecomes
    <3> QED
      BY <1>1, <1>a, <1>b, <2>1, <3>1
  <2> QED
    BY <2>1, <2>2, <2>3
<1>6. ASSUME NEW c \in Clients, deleteCached(c) \/ deletePersistedResponse(c) PROVE SettleInv'
  <2>1. /\ cached' \in {cached, "none"} /\ proc[c].at \in {"set", "erase"}
        /\ proc[c].at = "set" => proc[c].op = "delete"
        /\ \E at \in {"erase", "end"} : Goes(c, at)
    BY <1>6 DEF deleteCached, deletePersistedResponse
  <2>2. PICK at \in {"erase", "end"} : Becomes(c, proc[c].op, at, proc[c].status)
    BY <1>a, <2>1, GoesBecomes
  <2> QED
    BY <1>1, <1>a, <1>b, <2>1, <2>2
<1>7. ASSUME NEW c \in Clients, NEW op \in {"get", "cancel", "delete"}, request(c, op) PROVE SettleInv'
  <2>1. PICK at \in {"set", "lookup"} :
          Becomes(c, op, at, "none") /\ proc[c].at # "persist" /\ UNCHANGED cached
    BY <1>7 DEF request, Rest
  <2> QED
    BY <1>1, <1>a, <2>1
<1> QED
  BY <1>2, <1>3, <1>4, <1>5, <1>6, <1>7 DEF ClientStep

(* Before the response is created only its creator moves. *)
LEMMA CreatorMoves ==
  ASSUME ResponseInv, SettleInv, ~Created, failures' \in Nat, UNCHANGED <<store, queued>>,
         cached' \in {"none", "in_progress"}, row' # "none" => store,
         NEW op \in {"create", "generate", "over"}, NEW at \in {"set", "persist", "end"},
         NEW status \in {"none", "in_progress"}, Becomes(Run, op, at, status),
         op = "create" => status = "in_progress",
         at = "persist" => store,
         Unsettled' => op # "over"
  PROVE  SettleInv'
<1> DEFINE rec == [op |-> op, at |-> at, status |-> status]
<1>1. rec.op = op /\ rec.at = at /\ rec.status = status
  OBVIOUS
<1>2. Run \in Users /\ \A p \in Users : proc'[p] = IF p = Run THEN rec ELSE Rest
  BY DEF Users, SettleInv, Creating, ResponseInv, ResponseShape, Becomes
<1>3. Rest.op = "none" /\ Rest.at = "end" /\ Rest.status = "none"
  BY DEF Rest
<1> HIDE DEF rec
<1>4. Creating'
  BY <1>1, <1>2 DEF SettleInv, Creating, Created
<1>5. StoredIfAsked' /\ CallsFit'
  BY <1>1, <1>2, <1>3 DEF StoredIfAsked, CallsFit
<1>6. RunWritesOrIsCancelled'
  BY <1>1, <1>2 DEF RunWritesOrIsCancelled, WillWrite
<1>7. CancelledIsOnItsWay'
  BY <1>1, <1>2, <1>3 DEF CancelledIsOnItsWay
<1> QED
  BY <1>4, <1>5, <1>6, <1>7 DEF SettleInv

LEMMA CreatorStepSettles ==
  ASSUME ResponseInv, SettleInv, ~Created,
         \/ \E p \in Users : StoreStep(p) \/ answer(p)
         \/ RunStep \/ stopCheck \/ onStepFinish \/ generationEnds \/ generationFails \/ streamAborted
         \/ publish \/ publishFound
         \/ \E c \in Clients : ClientStep(c) \/ \E op \in {"get", "cancel", "delete"} : request(c, op)
  PROVE  SettleInv'
<1>0. /\ Run \in Users /\ Progress \in Users /\ Progress # Run
      /\ Clients \subseteq Users /\ Run \notin Clients
  BY ResponseAssumption DEF Users
<1>a. /\ proc[Run].op = "create" /\ proc[Run].status = "in_progress"
      /\ proc[Run].at \in {"set", "persist", "end"} /\ queued = 0
      /\ cached \in {"none", "in_progress"} /\ failures \in Nat
      /\ \A p \in Users \ {Run} : proc[p].op = "none" /\ proc[p].at = "end"
  BY DEF SettleInv, Creating, Created, Rest
<1>b. (row # "none" => store) /\ (proc[Run].at = "persist" => store)
  BY <1>0 DEF SettleInv, StoredIfAsked
<1>c. Failure => failures' \in Nat /\ ~Unsettled'
  BY <1>a DEF Failure, Unsettled
<1>1. ASSUME NEW p \in Users, StoreStep(p) PROVE SettleInv'
  <2>1. p = Run
    BY <1>1, <1>a DEF StoreStep, cacheHit, loadResponse, loadFails, recache, cacheResponse, cacheSetFails, persist,
                      persistFails
  <2>2. CASE cacheResponse(Run)
    <3>1. PICK at \in {"persist", "end"} : (at = "persist" => store) /\ Goes(Run, at)
      BY <2>2 DEF cacheResponse
    <3>2. Becomes(Run, "create", at, "in_progress")
      BY <1>0, <1>a, <3>1, GoesBecomes
    <3> QED
      BY <1>a, <1>b, <2>2, <3>1, <3>2, CreatorMoves DEF cacheResponse
  <2>3. CASE cacheSetFails(Run)
    <3>1. Becomes(Run, "over", "end", "none") /\ Failure /\ UNCHANGED <<store, queued, cached, row>>
      BY <1>a, <2>3 DEF cacheSetFails
    <3> QED
      BY <1>a, <1>b, <1>c, <3>1, CreatorMoves
  <2>4. CASE persist(Run)
    <3>1. Becomes(Run, "create", "end", "in_progress")
      BY <1>0, <1>a, <2>4, GoesBecomes DEF persist
    <3>2. store /\ UNCHANGED <<store, queued, cached, failures>>
      BY <1>b, <2>4 DEF persist
    <3> QED
      BY <1>a, <3>1, <3>2, CreatorMoves
  <2>5. CASE persistFails(Run)
    <3>1. Becomes(Run, "create", "end", "in_progress")
      BY <1>0, <1>a, <2>5, GoesBecomes DEF persistFails
    <3> QED
      BY <1>a, <1>b, <1>c, <2>5, <3>1, CreatorMoves DEF persistFails
  <2> QED
    BY <1>1, <1>a, <2>1, <2>2, <2>3, <2>4, <2>5 DEF StoreStep, cacheHit, loadResponse, loadFails, recache
<1>2. CASE startGeneration
  BY <1>a, <1>b, <1>2, CreatorMoves DEF startGeneration
<1>3. ASSUME NEW p \in Users, answer(p) PROVE FALSE
  BY <1>3, <1>a DEF answer
<1>4. ~(stopAnswer \/ finalAnswer \/ flush \/ saved \/ stopCheck \/ onStepFinish \/ generationEnds
        \/ generationFails \/ streamAborted)
  BY <1>a DEF stopAnswer, finalAnswer, flush, saved, stopCheck, onStepFinish, generationEnds,
              generationFails, streamAborted
<1>5. ~(publish \/ publishFound)
  BY <1>0, <1>a DEF publish, publishFound
<1>6. ASSUME NEW c \in Clients, ClientStep(c) PROVE FALSE
  BY <1>6, <1>0, <1>a DEF ClientStep, cancel, deleteCached, deletePersistedResponse
<1>7. ASSUME NEW c \in Clients, NEW op \in {"get", "cancel", "delete"}, request(c, op) PROVE FALSE
  BY <1>7 DEF request
<1> QED
  BY <1>1, <1>2, <1>3, <1>4, <1>5, <1>6, <1>7 DEF RunStep

LEMMA TimeStepSettles == ASSUME SettleInv, expires \/ crash PROVE SettleInv'
<1>1. CASE expires
  BY <1>1 DEF expires, SettleInv, Creating, Created, StoredIfAsked, CallsFit, RunWritesOrIsCancelled,
              CancelledIsOnItsWay, Unsettled, Cancelling
<1>2. CASE crash
  <2> DEFINE stopped == [Rest EXCEPT !.op = "over"]
  <2>1. stopped.op = "over" /\ stopped.at = "end" /\ Rest.op = "none" /\ Rest.at = "end"
    BY DEF Rest
  <2>2. /\ Run \in Users /\ \A p \in Users : proc'[p] = IF p = Run THEN stopped ELSE Rest
        /\ row' = row /\ store' = store
    BY <1>2 DEF crash, Users
  <2>3. failures' \in Nat /\ ~Unsettled'
    BY <1>2 DEF crash, Failure, Unsettled, SettleInv
  <2> HIDE DEF stopped
  <2>4. Creating' /\ CallsFit' /\ StoredIfAsked'
    BY <2>1, <2>2 DEF Creating, Created, CallsFit, StoredIfAsked, SettleInv
  <2> QED
    BY <2>3, <2>4 DEF SettleInv, RunWritesOrIsCancelled, CancelledIsOnItsWay
<1> QED
  BY <1>1, <1>2

LEMMA SettleInvStep == ResponseInv /\ SettleInv /\ [ResponseNext]_responseVars => SettleInv'
<1> SUFFICES ASSUME ResponseInv, SettleInv, [ResponseNext]_responseVars PROVE SettleInv'
  OBVIOUS
<1>1. CASE UNCHANGED responseVars
  BY <1>1 DEF responseVars, SettleInv, Creating, Created, StoredIfAsked, CallsFit,
              RunWritesOrIsCancelled, CancelledIsOnItsWay, Unsettled, Cancelling
<1>2. CASE ResponseNext /\ Created
  BY <1>2, StoreStepSettles, RunStepSettles, OtherStepSettles, TimeStepSettles DEF ResponseNext
<1>3. CASE ResponseNext /\ ~Created
  BY <1>3, CreatorStepSettles, TimeStepSettles DEF ResponseNext
<1> QED
  BY <1>1, <1>2, <1>3

(* generate.ts 36: for any number of calls under way and any order of      *)
(* reads, cancellations and saves, a run that is over leaves no row in     *)
(* progress, unless a cancellation is about to settle it or something      *)
(* failed.                                                                 *)
THEOREM RowIsNotAbandoned == ResponseSpec => []NoRowAbandoned
<1>1. SettleInv => NoRowAbandoned
  BY DEF SettleInv, RunWritesOrIsCancelled, Unsettled, WillWrite, NoRowAbandoned
<1> QED
  BY ResponseInitInv, ResponseInvStep, SettleInitInv, SettleInvStep, <1>1, PTL DEF ResponseSpec
=============================================================================
