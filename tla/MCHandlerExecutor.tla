-------------------------- MODULE MCHandlerExecutor --------------------------
(***************************************************************************)
(* HandlerExecutor for TLC: the configurations give its constants values.  *)
(***************************************************************************)
EXTENDS HandlerExecutor
==============================================================================
