------------------------------- MODULE MCRobot -------------------------------
(* A user who makes two blips, and a robot with three answers. *)
EXTENDS Robot

MCUserBlips == <<"u1", "u2">>
MCRobotBlips == <<"r1", "r2", "r3">>
=============================================================================
