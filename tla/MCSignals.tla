----------------------------- MODULE MCSignals -----------------------------
(* One fatal signal a program may handle and that comes before SIGKILL     *)
(* (SIGILL), one that is not fatal and comes after it (SIGUSR1), and the   *)
(* kernel signals.                                                         *)
EXTENDS Signals

(* Nothing, and all a program may handle together with two kernel signals. *)
MCMasks == {{}, {SIGILL, SIGKILL, 10, SIGCONT}}
=============================================================================
