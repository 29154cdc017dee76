------------------------------- MODULE MCCanary -------------------------------
(***************************************************************************)
(* A small canary: transactions of two messages, a channel for one.        *)
(***************************************************************************)
EXTENDS Canary

=============================================================================
