---------------------------- MODULE MCDinasAgent ----------------------------
(* Small instances of DinasAgent for TLC. *)
EXTENDS DinasAgent

CONSTANTS a1, a2, i1, i2, i3, i4

Once      == [a \in Agents |-> 1]
Restarted == [a \in Agents |-> IF a = a1 THEN 2 ELSE 1]

MCCallers == UNION {{a} \X Threads \X (1 .. MaxStarts[a]) : a \in Agents}
MCNameOf  == [c \in MCCallers |-> c[1]]
=============================================================================
