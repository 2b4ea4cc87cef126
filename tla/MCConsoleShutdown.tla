------------------------- MODULE MCConsoleShutdown ---------------------------
(* One signal, in the proactor's thread or another. *)
EXTENDS ConsoleShutdown
=============================================================================
