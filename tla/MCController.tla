----------------------------- MODULE MCController -----------------------------
(* Controller with the messages of MCSession. *)
EXTENDS Controller, MCSession
===============================================================================
