--------------------------- MODULE MC_RatchetPair ---------------------------
(***************************************************************************)
(* Networks for the model checker: an uninterrupted stream, a stream that  *)
(* breaks, and the stream beside the message archive.                      *)
(***************************************************************************)
EXTENDS RatchetPair

Stream  == [order |-> "fifo",  lossy |-> FALSE, replays |-> 0, pre_keys |-> FALSE]
Broken  == [order |-> "chain", lossy |-> TRUE,  replays |-> 0, pre_keys |-> FALSE]
Archive == [order |-> "any",   lossy |-> FALSE, replays |-> 1, pre_keys |-> FALSE]

AllNetworks == {Stream, Broken, Archive}

\* Archive pages without repetitions.
LateNetwork == {[Archive EXCEPT !.replays = 0]}
=============================================================================
