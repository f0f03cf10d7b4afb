------------------------------ MODULE MCTelemetry ------------------------------
(* A small instance of Telemetry for TLC. *)
EXTENDS Telemetry, TLC

CONSTANTS p1, s1, r1, r2, r3, h1, a1, a2, i1, i2

\* Two requests of one agent, and one of another.
MCAgentOf == [r \in Reports |-> IF r = r3 THEN a2 ELSE a1]

\* What the agent program sends of one address, also when its ping raised, and
\* results that lack a part or have another status or time.
Raised(ip)  == [ip |-> ip, status |-> "offline", metrics |-> <<>>]
Silent(ip)  == [ip |-> ip, status |-> "none", metrics |-> <<Undated("down")>>]
Strange(ip) == [ip |-> ip, status |-> "unknown",
                metrics |-> <<[says |-> "up", dated |-> TRUE]>>]

\* An address that is listed twice is reported twice.
MCPayloads == {<<Silent(h1)>>, <<Strange(h1)>>, <<Raised(h1), Raised(h1)>>}

\* The two requests of the one agent may be exchanged.
MCSymmetry == Permutations({r1, r2})
===============================================================================
