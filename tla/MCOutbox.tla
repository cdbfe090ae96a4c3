------------------------------ MODULE MCOutbox ------------------------------
(* Instances of Outbox for TLC: the values that a cfg cannot write down.   *)
EXTENDS Outbox

MCNothing == {}
MCLastEvent == {NumEvents}
=============================================================================
