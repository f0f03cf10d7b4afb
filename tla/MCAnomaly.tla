------------------------------- MODULE MCAnomaly -------------------------------
(* A small instance of Anomaly for TLC. *)
EXTENDS Anomaly

CONSTANTS da, db, latency, jitter, r1, r2, u1, u2

Metrics(l, j) == [t \in Types |-> IF t = latency THEN l ELSE j]

\* One device with a metric both detectors find, one without metrics.
Peak   == [level |-> "critical", odd |-> TRUE]
Strain == [level |-> "warning", odd |-> TRUE]
MCBeginnings ==
    {[d \in Devices |-> Metrics(IF d = da THEN Peak ELSE NoSample, NoSample)]}

MCRecorded == {Strain}

MCSymmetry == Permutations({r1, r2}) \cup Permutations({u1, u2})
===============================================================================
