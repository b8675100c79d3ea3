-------------------------------- MODULE MCSetup --------------------------------
(* A small instance of Setup: two ports, one upstream of each kind, and the     *)
(* configurations a user or a project may already have.                         *)
EXTENDS Setup

CONSTANTS Subscription, Api, Wire, Foreign, Unsafe

MCHomeUrls == [subscription |-> {Subscription}, api |-> {Api}]

Trusting == [Empty EXCEPT !.trusted = TRUE]
Legacy == [Empty EXCEPT !.defect = "legacy"]
Switched == [Empty EXCEPT !.port = DefaultPort, !.ingress = FALSE]
Doubting == [Empty EXCEPT !.trusted = FALSE, !.port = DefaultPort]

MCUserFiles == {None, Broken, Trusting}
MCProjectFiles == {None, Legacy, Switched, Doubting}
================================================================================
