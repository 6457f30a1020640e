---------------------------- MODULE StateRegister ----------------------------
(***************************************************************************)
(* What the tether promises of the states that daemons report: each        *)
(* installation has a register that lags behind what was accepted, moves   *)
(* only forward and only to states that were accepted, and is gone with    *)
(* its installation.  A process that dies may lose what is not stored yet, *)
(* and nothing of that turns up later.                                     *)
(* StatusWriter (xinity-tether/src/status-writer.ts) implements it while   *)
(* the process serves.                                                     *)
(***************************************************************************)
EXTENDS Integers

CONSTANTS Installations, MaxReports

VARIABLES
  accepted,   \* the newest state accepted
  stored,     \* the register, 0 without a state
  exists,     \* the installation is there
  lost        \* the newest state accepted by a process that has died

registerVars == <<accepted, stored, exists, lost>>

Zero == [i \in Installations |-> 0]

RegisterInit ==
  /\ accepted = Zero /\ stored = Zero /\ lost = Zero
  /\ exists = [i \in Installations |-> TRUE]

Accept(i) ==
  /\ accepted[i] < MaxReports
  /\ accepted' = [accepted EXCEPT ![i] = @ + 1]
  /\ UNCHANGED <<stored, exists, lost>>

(* A state that the register may move to. *)
Newer(i, v) == exists[i] /\ v > stored[i] /\ v > lost[i] /\ v =< accepted[i]

(* Any number of registers move forward together. *)
Store ==
  /\ stored' \in [Installations -> 0 .. MaxReports]
  /\ \A i \in Installations : stored'[i] = stored[i] \/ Newer(i, stored'[i])
  /\ UNCHANGED <<accepted, exists, lost>>

Remove(i) ==
  /\ exists[i]
  /\ exists' = [exists EXCEPT ![i] = FALSE]
  /\ stored' = [stored EXCEPT ![i] = 0]
  /\ UNCHANGED <<accepted, lost>>

Lose ==
  /\ lost' = accepted
  /\ UNCHANGED <<accepted, stored, exists>>

RegisterNext == Store \/ Lose \/ \E i \in Installations : Accept(i) \/ Remove(i)

RegisterSpec == RegisterInit /\ [][RegisterNext]_registerVars
=============================================================================
