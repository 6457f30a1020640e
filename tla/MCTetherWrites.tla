--------------------------- MODULE MCTetherWrites ---------------------------
(***************************************************************************)
(* What the tether writes to Postgres, for TLC: which nodes are available, *)
(* and what their installations report.  The two share no state, so each   *)
(* behaviour is one of one part while the other rests.                     *)
(***************************************************************************)
EXTENDS TetherConnections, StatusWriter

VARIABLE part   \* the part that moves

tetherWritesVars == <<part, vars, writerVars>>

TetherWritesInit ==
  /\ part \in {"availability", "reports"}
  /\ Init /\ WriterInit
  \* at rest one initial state is enough
  /\ part # "availability" => nodeRow = [n \in Nodes |-> NewRow]

TetherWritesNext ==
  \/ part = "availability" /\ Next /\ UNCHANGED <<part, writerVars>>
  \/ part = "reports" /\ ServingNext /\ UNCHANGED <<part, vars>>

(* Fairness and WriterFairness, each of the part that moves. *)
TetherWritesFairness ==
  /\ \A h \in Handlers :
       /\ WF_vars(part = "availability" /\ writeRegistration(h))
       /\ WF_vars(part = "availability" /\ addConnection(h))
       /\ WF_vars(part = "availability" /\ stream[h].phase = "closed" /\ cancel(h))
  /\ \A n \in Nodes :
       /\ WF_vars(part = "availability" /\ removeConnection(n))
       /\ WF_vars(part = "availability" /\ BeginWrite(n))
       /\ WF_vars(part = "availability" /\ (CommitWrite(n) \/ FailWrite(n)))
  /\ WF_writerVars(part = "reports" /\ timerFires)
  /\ \A f \in TimerFlushes : WF_writerVars(part = "reports" /\ Flush(f))
  /\ SF_writerVars(part = "reports" /\ \E f \in TimerFlushes : readStored(f))
  /\ SF_writerVars(part = "reports" /\ \E f \in TimerFlushes :
                     insert(f) \/ insertUnanswered(f) \/ insertRefused(f))
  /\ SF_writerVars(part = "reports" /\ \E f \in TimerFlushes : retryWithoutVanished(f))

TetherWritesSpec ==
  TetherWritesInit /\ [][TetherWritesNext]_tetherWritesVars /\ TetherWritesFairness
=============================================================================
