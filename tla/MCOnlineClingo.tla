---------------------------- MODULE MCOnlineClingo ----------------------------
(* OnlineClingo with the messages of MCSession. *)
EXTENDS OnlineClingo, MCSession
===============================================================================
