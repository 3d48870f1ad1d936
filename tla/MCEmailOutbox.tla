----------------------------- MODULE MCEmailOutbox -----------------------------
(* The instance of EmailOutbox that EmailOutbox.cfg gives its constants. *)
EXTENDS EmailOutbox
=============================================================================
