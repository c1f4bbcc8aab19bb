-------------------------- MODULE MCPidFileLocking ---------------------------
(* PidFileLocking for TLC.                                                 *)
EXTENDS PidFileLocking
=============================================================================
