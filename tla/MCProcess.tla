----------------------------- MODULE MCProcess -----------------------------
(* Process for model checking.                                             *)
EXTENDS Process
=============================================================================
