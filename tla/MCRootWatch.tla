------------------------------ MODULE MCRootWatch ------------------------------
(* Two roots, to go from one to the other and back, which may list alike;    *)
(* a name that comes, goes, is filled and emptied; a setting beside the      *)
(* root; App and Daemon.                                                     *)
EXTENDS RootWatch
================================================================================
