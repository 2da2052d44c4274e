-------------------------- MODULE MC_PersonalItems --------------------------
(***************************************************************************)
(* Contacts, events and tasks: their synchronisation, and what becomes of  *)
(* their contents, side by side in one run.  A behaviour is one of either: *)
(* without anything at the server the synchronisation stays as it was at   *)
(* first, and the variables of the contents are None.                      *)
(***************************************************************************)
EXTENDS DavSync, Sequences, SequencesExt

CONSTANT Part

VARIABLES part, way, item, object, first, made, times

\* Every text of at most three of these characters; the midnights of three
\* days, an hour, and seconds and minutes beside it.
Text == INSTANCE ItemText
  WITH Texts <- BoundedSeq({"\\", "n", ",", ";", "nl", " "}, 3),
       Moments <- {0, 3599, 3600, 7260, 86400, 172800}

-----------------------------------------------------------------------------

textVars == <<way, item, object, first, made, times>>

itemVars == <<part, vars, textVars>>

NoText ==
  /\ way = None /\ item = None /\ object = None
  /\ first = None /\ made = None /\ times = None

\* One address book with overlapping tasks and a fault, and one calendar with
\* events and tasks of which one after the other runs.
WithinBounds ==
  account = "calendar" => faults' = 0 /\ \A t \in Slot \ {1} : tasks'[t] = None

ItemsInit ==
  /\ part \in Part
  /\ Init
  /\ account = "contacts" => protocol = "dav"
  /\ IF part = "text" THEN Text!Init ELSE NoText
  /\ part = "text" => account = "contacts" /\ server = Nothing

ItemsNext ==
  /\ UNCHANGED part
  /\ \/ part = "sync" /\ Next /\ WithinBounds /\ UNCHANGED textVars
     \/ part = "text" /\ Text!Next /\ UNCHANGED vars

ItemsSpec == ItemsInit /\ [][ItemsNext]_itemVars

\* DavSync's: the five minutes pass, and every task runs.
ItemsFairness ==
  /\ WF_itemVars(part = "sync" /\ SyncPersonalData /\ WithinBounds /\ UNCHANGED <<part, textVars>>)
  /\ \A t \in Slot :
       WF_itemVars(part = "sync" /\ Step(t) /\ WithinBounds /\ UNCHANGED <<part, textVars>>)

FairItemsSpec == ItemsSpec /\ ItemsFairness

-----------------------------------------------------------------------------

\* ItemText: what is saved comes back as it was.
SavedAsWritten == part = "text" => Text!SavedAsWritten

\* ItemText: saving and listing again changes nothing.
Settles == [][part = "text" => Text!Unmoved]_itemVars
=============================================================================
