---------------------------- MODULE ServiceCalls ----------------------------
(***************************************************************************)
(* What the models of the request-response services share: calls that run  *)
(* concurrently and change places at each await, and the faults they meet. *)
(***************************************************************************)
EXTENDS Naturals, Sequences, FiniteSets, SequencesExt

CONSTANTS
  Calls,          \* calls in flight; each may be any operation of the service
  MaxCallFaults,  \* bound: rejected store calls and crashes in a behaviour
  MaxJobFaults    \* bound: the same where there are Bull jobs, which are repeated

ASSUME CallsAssumption ==
  IsFiniteSet(Calls) /\ MaxCallFaults \in Nat /\ MaxJobFaults \in Nat

VARIABLE callFaults   \* history: the faults so far

\* Bull's default: a job found stalled once more than this has failed.
MaxStalledCount == 1

CallFault == callFaults < MaxCallFaults /\ callFaults' = callFaults + 1
JobFault == callFaults < MaxJobFaults /\ callFaults' = callFaults + 1

=============================================================================
