----------------------------- MODULE TopologyGraph -----------------------------
(***************************************************************************)
(* What a reader of the topology may rely on: a graph over devices that    *)
(* only grows.  A device once drawn stays; a link between two devices      *)
(* (of one device with itself, when two devices have one address) has both *)
(* its ends drawn, is never more certain than the evidence for it allows,  *)
(* and never becomes less certain.  The service of Topology implements it. *)
(***************************************************************************)
EXTENDS Naturals

CONSTANTS
    Devices,
    Links,      \* records with the ends of a link, a set of devices, and its type
    Evidence    \* Evidence[l]: the confidence l can be given, 0 if none

VARIABLES
    drawn,      \* devices that have a node
    certainty   \* the confidence of each link there is

graphVars == <<drawn, certainty>>

GraphInit ==
    /\ drawn = {}
    /\ certainty = <<>>

\* One build or discovery is published.
Learn ==
    /\ drawn \subseteq drawn'
    /\ drawn' \subseteq Devices
    /\ DOMAIN certainty \subseteq DOMAIN certainty'
    /\ DOMAIN certainty' \subseteq Links
    /\ \A l \in DOMAIN certainty' :
         /\ l.ends \subseteq drawn'
         /\ certainty'[l] \in 1 .. Evidence[l]
         /\ l \in DOMAIN certainty => certainty'[l] >= certainty[l]

GraphSpec == GraphInit /\ [][Learn]_graphVars
===============================================================================
