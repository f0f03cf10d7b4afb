----------------------------- MODULE JobLifecycle -----------------------------
(***************************************************************************)
(* What a client may rely on for one discovery job: its row is pending,    *)
(* then running, then completed or failed for good, and the two counts are *)
(* written once, with the final status.  This is the contract the worker   *)
(* of DiscoveryJob is shown to implement.                                  *)
(***************************************************************************)
EXTENDS Naturals

CONSTANT MaxObservations   \* bound on the results of one scan

VARIABLES status, observations_count, devices_found

lifeVars == <<status, observations_count, devices_found>>

LifeInit ==
    /\ status = "none"
    /\ observations_count = 0
    /\ devices_found = 0

\* A change of status that leaves the counts alone.
Move(from, to) ==
    /\ status = from
    /\ status' = to
    /\ UNCHANGED <<observations_count, devices_found>>

Accept   == Move("none", "pending")
Begin    == Move("pending", "running")
GiveUp   == Move("running", "failed")

Complete ==
    /\ status = "running"
    /\ status' = "completed"
    /\ observations_count' \in 0 .. MaxObservations
    /\ devices_found' \in 0 .. observations_count'

LifeNext == Accept \/ Begin \/ GiveUp \/ Complete

LifeSpec == LifeInit /\ [][LifeNext]_lifeVars

\* An accepted job gets its final status.
Settles == status = "pending" ~> status \in {"completed", "failed"}
===============================================================================
