----------------------------- MODULE AtomicStore -----------------------------
(***************************************************************************)
(* What the OMEMO manager relies on its store for: a save keeps the whole  *)
(* state or, if the program ends before, none of it, and the next start    *)
(* finds what was kept.  The identity never changes, known devices are not *)
(* forgotten, and the counter of a sending chain does not go back.         *)
(* OmemoStore implements this as long as nothing fails.                    *)
(***************************************************************************)
EXTENDS Naturals

CONSTANTS Peer, None

VARIABLES memory,  \* the state of the running manager, or None
          saved    \* the state kept on disk, or None

vars == <<memory, saved>>

Init == memory = None /\ saved = None

\* The first start makes an identity without sessions or devices.
Create ==
  /\ saved = None /\ memory = None
  /\ saved' # None
  /\ saved'.sessions = [p \in Peer |-> None] /\ saved'.devices = {}
  /\ UNCHANGED memory

Start == memory = None /\ saved # None /\ memory' = saved /\ UNCHANGED saved

Advances(s, t) ==
  /\ t.account = s.account
  /\ s.devices \subseteq t.devices
  /\ \A p \in Peer : s.sessions[p] # None =>
       /\ t.sessions[p] # None
       /\ t.sessions[p].chain = s.sessions[p].chain => t.sessions[p].index >= s.sessions[p].index

Change == memory # None /\ memory' # None /\ Advances(memory, memory') /\ UNCHANGED saved

Save == memory # None /\ saved' = memory /\ UNCHANGED memory

\* A change that is saved at once.
ChangeAndSave ==
  memory # None /\ memory' # None /\ Advances(memory, memory') /\ saved' = memory'

\* The program ends, or the account is logged out.
Stop == memory # None /\ memory' = None /\ UNCHANGED saved

Next == Create \/ Start \/ Change \/ Save \/ ChangeAndSave \/ Stop

Spec == Init /\ [][Next]_vars
=============================================================================
