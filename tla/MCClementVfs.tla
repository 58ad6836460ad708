---------------------------- MODULE MCClementVfs ----------------------------
(* A small disk: a table for two files and three data blocks. *)
EXTENDS ClementVfs
============================================================================
