---------------------------- MODULE MC_Connection ----------------------------
(***************************************************************************)
(* Connection on small instances.  As the device lists and the messages do *)
(* not touch each other's state, a behaviour has one of them, and the      *)
(* other stays as it is: without logins left for the first, or with the    *)
(* empty scenario for the second.                                          *)
(***************************************************************************)
EXTENDS Connection

-----------------------------------------------------------------------------
\* Device lists: what the server is like, what it holds at first, and what happens.

ThreeServers ==
  {[strict |-> FALSE, refuses |-> FALSE, generic |-> TRUE,  live |-> TRUE],
   [strict |-> TRUE,  refuses |-> FALSE, generic |-> FALSE, live |-> FALSE],
   [strict |-> TRUE,  refuses |-> TRUE,  generic |-> FALSE, live |-> FALSE]}

Fresh(D) == [options |-> TRUE, items |-> {Current(D)}]
Stale(D) == [options |-> FALSE, items |-> {Current({}), [id |-> "other", devices |-> D]}]

FirstNodes ==
  {[a \in Account |-> IF a = Own THEN n ELSE Fresh({"p"})] :
     n \in {None, Fresh({"o"}), Stale({"o"})}}

Budget(logins, selects, breaks) == [logins |-> logins, selects |-> selects, breaks |-> breaks]

NoLogin == {Budget(0, 0, 0)}

\* Two logins and a failure, or one login while two conversations are opened.
FirstBudgets == {Budget(2, 0, 1), Budget(1, 2, 0)} \cup NoLogin

\* One login while the account's own conversation is opened.
OneLogin == {Budget(1, 1, 0)}

-----------------------------------------------------------------------------
\* Messages: the roster, what others send, and what happens meanwhile.

OneContact == <<"bob">>

Stanza(id, contact, direction, replaces, encrypted) ==
  [id |-> id, contact |-> contact, direction |-> direction, replaces |-> replaces,
   body |-> IF replaces = None THEN 1 ELSE 2, encrypted |-> encrypted, own |-> FALSE]

Hello  == Stanza("hello", "bob", "incoming", None, FALSE)
Fixed  == Stanza("fixed", "bob", "incoming", "hello", FALSE)
Note   == Stanza("note", "carol", "incoming", None, FALSE)
Secret == Stanza("secret", "carol", "incoming", None, TRUE)
Amend  == Stanza("amend", "carol", "incoming", "secret", TRUE)
Copy   == Stanza("copy", "bob", "outgoing", None, TRUE)

Scenario(naming, traffic, own, logins, losses, quits, receipts) ==
  [naming |-> naming, traffic |-> traffic, own |-> own, logins |-> logins, losses |-> losses,
   quits |-> quits, receipts |-> receipts]

NoMessages == {Scenario("given", {}, <<>>, 0, 0, 0, 0)}

\* A correction, a delivery and an edit over a reconnect; encrypted messages, of
\* another client as well, and a restart; an edit from another conversation, and a
\* reconnect; two conversations that overtake another.
AllScenarios == NoMessages \cup
  {Scenario("given", {Hello, Fixed}, <<>>, 2, 1, 0, 0),
   Scenario("assigned", {Hello, Fixed}, <<>>, 2, 1, 0, 0),
   Scenario("given", {Hello}, <<"o1", "o2">>, 2, 1, 0, 1),
   Scenario("given", {Secret, Amend}, <<>>, 2, 0, 1, 0),
   Scenario("given", {Hello, Copy}, <<>>, 2, 0, 1, 0),
   Scenario("assigned", {Hello, Secret}, <<>>, 2, 0, 1, 0),
   Scenario("given", {Note}, <<"o1">>, 2, 1, 0, 0),
   Scenario("given", {Hello, Secret}, <<"o1">>, 1, 0, 0, 0)}

\* Two logins with an address without a resource.
Reconnect == {Scenario("assigned", {Hello}, <<>>, 2, 1, 0, 0)}

-----------------------------------------------------------------------------

MCInit ==
  /\ ConnectionInit
  /\ left \in NoLogin \/ scenario \in NoMessages
  \* Without logins, what the server is like makes no difference.
  /\ left \in NoLogin =>
       /\ scenario \notin NoMessages
       /\ server = [strict |-> FALSE, refuses |-> FALSE, generic |-> TRUE, live |-> TRUE]
       /\ node[Own] = None

MCSpec == MCInit /\ [][ConnectionNext]_connectionVars

FairMCSpec == MCSpec /\ ConnectionFairness
=============================================================================
