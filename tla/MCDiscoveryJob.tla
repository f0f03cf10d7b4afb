---------------------------- MODULE MCDiscoveryJob ----------------------------
(* Small instances of DiscoveryJob for TLC. *)
EXTENDS DiscoveryJob

CONSTANTS j1, j2, nmap, arp, h1, h2, a1

Request(m, a, s) == [mode |-> m, agent_id |-> a, target |-> {h1}, scan_type |-> s]

\* One target: as a host it is h1, as a range it leaves out h2, which the ARP
\* table also knows.  Two jobs can meet over a device of the agent (host or
\* range), over a service with an agent_id and over one without.
ThreeRequests == {Request("async", a1, "host"), Request("sync", a1, "network"),
                  Request("sync", NoAgent, "host")}
===============================================================================
