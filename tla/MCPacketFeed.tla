----------------------------- MODULE MCPacketFeed -----------------------------
(* Values of the constants of PacketFeed for the model checker.            *)
EXTENDS PacketFeed

CONSTANTS list, map, r1, r2, r3

MCLimit == [f \in Feeds |-> IF f = list THEN 2 ELSE 0]

(* r1 and r2 have the same priority, r3 is more urgent. *)
MCRequestOf == [p \in Packets |-> IF p = 2 THEN r2 ELSE IF p = 3 THEN r3 ELSE r1]
MCPriorityOf == [r \in Requests |-> IF r = r3 THEN 0 ELSE 1]

===============================================================================
