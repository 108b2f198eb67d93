----------------------------- MODULE MCProvider -----------------------------
(***************************************************************************)
(* Two models, a timeout of two slices, two addresses, and replies that    *)
(* fit the buffer or do not.                                               *)
(***************************************************************************)
EXTENDS OllamaProvider
=============================================================================
