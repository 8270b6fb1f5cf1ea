---------------------------- MODULE MCPortConfig ----------------------------
(* Instances: three ports, so that two can wait while one is addressed.    *)
EXTENDS PortConfig
AnyPhase == ConfigPhase
WhileWaiting == {"WaitingAddressed"}
LastPort == {MaxPorts}
NoPort == {}
=============================================================================
