------------------------------ MODULE MCMonitor ------------------------------
(***************************************************************************)
(* A data directory with two chain ids, and a web client whose history     *)
(* holds two records and is trimmed by one.                                *)
(***************************************************************************)
EXTENDS Monitor

Cmd(mode, source, chain, force) ==
  [mode |-> mode, source |-> source, chain |-> chain, force |-> force, valid |-> TRUE]

\* A first node, joining with and without the network's genesis, with and
\* without --force, under either chain id, and flags that are refused.
MCCommands ==
  {Cmd("first", FALSE, "main", FALSE), Cmd("join", FALSE, "main", FALSE),
   Cmd("join", TRUE, "main", FALSE), Cmd("join", TRUE, "main", TRUE),
   Cmd("join", TRUE, "other", TRUE), Cmd("first", FALSE, "other", TRUE),
   [Cmd("join", TRUE, "main", FALSE) EXCEPT !.valid = FALSE]}
=============================================================================
