------------------------- MODULE MCProviderRequests -------------------------
(* One coordinated run asks for the driver standings and the participants, in  *)
(* three requests, while runs elsewhere reserve and report; a short and a long *)
(* window.                                                                     *)
EXTENDS ProviderRequests

MCPlan == [r \in Runs |-> <<"driver-standings", "season-participants">>]
MCWindows == {[duration |-> 1, limit |-> 1], [duration |-> 3, limit |-> 2]}
=============================================================================
