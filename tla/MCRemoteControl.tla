---------------------------- MODULE MCRemoteControl ----------------------------
(* A terminal instance and a daemon, so that one finds what the other left   *)
(* and both may be at the socket; two clients, so that one is served while   *)
(* the other waits or was given up, and one place to wait in, so that it is  *)
(* full.                                                                    *)
EXTENDS RemoteControl
================================================================================
