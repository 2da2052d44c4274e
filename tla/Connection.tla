----------------------------- MODULE Connection -----------------------------
(***************************************************************************)
(* What follows a login: the device lists of the clients of an account,    *)
(* and the messages of one of them.  Both are started by the same handler  *)
(* (client.rs), and from then on neither reads or writes the other's       *)
(* state: they run side by side, in any interleaving.                      *)
(***************************************************************************)
EXTENDS DeviceLists, Integers

CONSTANTS Scenarios, Roster, PageSize \* of ChatHistory

VARIABLES archive, stanzas, query, connection, events, account, conversations, selected,
          rows, decrypted, scenario, unseen, dropped, edited, strayed

Messages == INSTANCE ChatHistory WITH down <- stanzas, left <- scenario

\* What the scenarios say is consistent.
ASSUME MessagesFit == Messages!ScenariosFit

messageVars == <<archive, stanzas, query, connection, events, account, conversations, selected,
                 rows, decrypted, scenario, unseen, dropped, edited, strayed>>

connectionVars == <<vars, messageVars>>

ConnectionInit == Init /\ Messages!Init

ConnectionNext ==
  \/ Next /\ UNCHANGED messageVars
  \/ Messages!Next /\ UNCHANGED vars

ConnectionSpec == ConnectionInit /\ [][ConnectionNext]_connectionVars

ConnectionFairness == Fairness /\ Messages!Fairness

-----------------------------------------------------------------------------

\* ChatHistory: a message is shown once, however often and wherever it comes from.
ShownOnce == Messages!ShownOnce

\* ChatHistory: the screen shows what the table has, as long as the jid is the same.
ScreenIsTable == Messages!ScreenIsTable

\* ChatHistory: what was not on the screen since it came is counted as unread.
NoneOverlooked == Messages!NoneOverlooked

\* ChatHistory: what comes in does not change whom the user writes to.
SelectionKept == Messages!SelectionKept

\* ChatHistory: on a connection that stays, everything archived is shown in the end.
EventuallyShown == Messages!EventuallyShown

\* ChatHistory: after a login the screen shows what was stored (app.rs, line 1083).
HistoryLoaded == Messages!HistoryLoaded
=============================================================================
