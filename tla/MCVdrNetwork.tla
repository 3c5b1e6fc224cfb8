---------------------------- MODULE MCVdrNetwork ----------------------------
(***************************************************************************)
(* A small instance of VdrNetwork.                                         *)
(***************************************************************************)
EXTENDS VdrNetwork

\* A server that is off, two ports that both servers may be given, UDP, and a
\* port that only a configuration written by hand can have.
SomeSettings ==
  { [enabled |-> FALSE, tcp |-> TRUE, port |-> 10111],
    [enabled |-> TRUE, tcp |-> TRUE, port |-> 10111],
    [enabled |-> TRUE, tcp |-> TRUE, port |-> 1024],
    [enabled |-> TRUE, tcp |-> FALSE, port |-> 10111],
    [enabled |-> TRUE, tcp |-> TRUE, port |-> 1023] }

=============================================================================
