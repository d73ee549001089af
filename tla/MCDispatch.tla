------------------------------ MODULE MCDispatch ------------------------------
(* Values of the constants of Dispatch for the model checker.              *)
EXTENDS Dispatch

CONSTANTS s1, s2, s3, r1, r2, r3, x1

(* r1 and r2 belong to one session, r3 has none; the IP hash sends r1 and  *)
(* r3 to different servers.                                                *)
MCSessionOf == [r \in Requests |-> IF r = r3 THEN NoSession ELSE x1]
MCHomeOf    == [r \in Requests |-> IF r = r1 \/ s2 \notin Servers THEN s1 ELSE s2]

AllConfigs   == [sticky : BOOLEAN, ipHash : BOOLEAN]
HashConfigs  == [sticky : {TRUE}, ipHash : BOOLEAN]
StickyConfig == {[sticky |-> TRUE, ipHash |-> FALSE]}

===============================================================================
