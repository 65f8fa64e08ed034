------------------------------ MODULE MCOutbox --------------------------------
(* Outbox on small instances.                                               *)
EXTENDS Outbox

Both == BOOLEAN
WithHistId == {TRUE}
===============================================================================
