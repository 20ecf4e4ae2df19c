---------------------------- MODULE MCIceChecks ----------------------------
(* The instances of IceChecks that TLC checks: see MCIceChecks.cfg,        *)
(* and IceConnect.cfg for one that begins with all candidates on one path. *)
EXTENDS IceChecks

MCScenarios ==
    {[paths |-> {1}, late |-> {Offerer}, offers |-> 1],
     [paths |-> {1}, late |-> {}, offers |-> 2],
     [paths |-> {1, 2}, late |-> {}, offers |-> 0]}

MCOnePath == {[paths |-> {1}, late |-> {}, offers |-> 0]}
=============================================================================
