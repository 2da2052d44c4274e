----------------------------- MODULE ChatHistory -----------------------------
(***************************************************************************)
(* The messages of an account: how they come to the worker (client.rs),    *)
(* live, as carbon copies of another client, and page by page from the     *)
(* server's archive; and what the interface (app.rs) makes of them in its  *)
(* conversations and in the table of messages.                             *)
(*                                                                         *)
(* A body is a number: 1 the original, 2 the corrected one, 0 the          *)
(* placeholder of a message that could not be decrypted.  An encrypted     *)
(* message can be decrypted once, as its key is gone then.  Time is the    *)
(* number of messages the server has archived.                             *)
(***************************************************************************)
EXTENDS Integers, Sequences, SequencesExt, FiniteSets, FiniteSetsExt

CONSTANTS None,     \* no account, no conversation, no message
          Roster,   \* the contacts of the roster, in its order
          PageSize, \* messages of a page of the archive: 50
          Scenarios \* what may happen

\* A scenario has the messages that others send, or other clients of the account
\* (traffic), the ids of those sent from here, in order (own), whether the login
\* names its resource or the server assigns one (naming: given or assigned), and
\* how often the rest happens (logins, losses, quits, receipts).

\* What is said in the scenarios: an id is that of one message, its direction and
\* its contact are always the same, nobody else sends one with an id from here, and
\* a message is corrected by who sent it.
Traffic   == UNION {c.traffic : c \in Scenarios}
OwnIds    == UNION {ToSet(c.own) : c \in Scenarios}
Id        == {s.id : s \in Traffic} \cup OwnIds
People    == ToSet(Roster) \cup {s.contact : s \in Traffic}
Direction == {"incoming", "outgoing"}

Scenario ==
  {c \in [naming : {"given", "assigned"}, traffic : SUBSET Traffic, own : Seq(OwnIds),
          logins : Nat, losses : Nat, quits : Nat, receipts : Nat] : IsInjective(c.own)}

NoneIsApart == None \notin Int \cup People \cup Id

ScenariosFit ==
  /\ NoneIsApart
  /\ Roster \in Seq(People) /\ PageSize \in Nat
  /\ Scenarios \subseteq Scenario
  /\ \A s \in Traffic :
       /\ s.direction \in Direction /\ s.body \in Int /\ s.id \notin OwnIds
       /\ s.replaces # None => \E t \in Traffic : t.id = s.replaces /\ t.contact = s.contact
  /\ \A s, t \in Traffic : s.id = t.id => s.direction = t.direction /\ s.contact = t.contact

VARIABLES
  archive,       \* the server's archive, oldest first
  down,          \* stanzas on their way to the worker
  query,         \* the archive query under way: the position before which
                 \* a page ends, 0 for the newest
  connection,    \* our_jid of the worker: the number of the login, or None
  events,        \* from worker to interface
  account,       \* jid of the interface's account
  conversations, selected,
  rows,          \* the table messages, in the order of insertion
  decrypted,     \* the encrypted messages whose key is gone
  left,          \* what is left of the scenario
  unseen, dropped, edited, strayed \* for the properties

uiVars == <<account, conversations, selected>>
outside == <<unseen, dropped, edited, strayed>>
vars == <<archive, down, query, connection, events, uiVars, rows, decrypted, left, outside>>

Online == connection # None

Init ==
  /\ archive = <<>> /\ down = <<>> /\ query = None /\ connection = None /\ events = <<>>
  /\ account = None /\ conversations = <<>> /\ selected = None
  /\ rows = <<>> /\ decrypted = {}
  /\ left \in Scenarios
  /\ unseen = {} /\ dropped = {} /\ edited = {} /\ strayed = {}

Spend(what) == left[what] > 0 /\ left' = [left EXCEPT ![what] = @ - 1]

-----------------------------------------------------------------------------
\* The server

Live(s)     == [kind |-> "live", stanza |-> s]
Carbon(s)   == [kind |-> "carbon", stanza |-> s]
Archived(i) == [kind |-> "archived", stanza |-> archive[i], time |-> i]

\* A message of somebody else: it is archived, and sent on to a client online.
Arrive(s) ==
  /\ left' = [left EXCEPT !.traffic = @ \ {s}]
  /\ s.replaces # None => \E i \in DOMAIN archive : archive[i].id = s.replaces
  /\ archive' = Append(archive, s)
  /\ down' = IF ~Online THEN down
             ELSE Append(down, IF s.direction = "incoming" THEN Live(s) ELSE Carbon(s))
  /\ UNCHANGED <<query, connection, events, uiVars, rows, decrypted, outside>>

\* The contact has received a message sent from here.
Receipt(i) ==
  /\ Online /\ archive[i].own /\ archive[i].replaces = None
  /\ Spend("receipts")
  /\ down' = Append(down, [kind |-> "receipt", id |-> archive[i].id])
  /\ UNCHANGED <<archive, query, connection, events, uiVars, rows, decrypted, outside>>

\* A page: the messages before a position, oldest first, and the end of it.
ServePage ==
  LET before == IF query = 0 THEN Len(archive) + 1 ELSE query
      first  == Max({1, before - PageSize})
      page   == [k \in 1 .. before - first |-> Archived(first + k - 1)]
  IN  /\ Online /\ query # None
      /\ down' = down \o page \o << [kind |-> "fin", complete |-> first = 1, first |-> first] >>
      /\ query' = None
      /\ UNCHANGED <<archive, connection, events, uiVars, rows, decrypted, left, outside>>

-----------------------------------------------------------------------------
\* The worker

\* XmppEventRaw::Online: the roster and the newest page are asked for.
Login ==
  /\ ~Online /\ Spend("logins")
  /\ connection' = IF left.naming = "given" THEN 0 ELSE left.logins
  /\ events' = Append(events, [type |-> "Connected", jid |-> connection'])
  /\ down' = << [kind |-> "roster"] >>
  /\ query' = 0
  /\ UNCHANGED <<archive, uiVars, rows, decrypted, outside>>

\* The stream fails, or the user logs out.
StreamLost ==
  /\ Online /\ Spend("losses")
  /\ connection' = None /\ down' = <<>> /\ query' = None
  /\ events' = Append(events, [type |-> "Disconnected"])
  /\ UNCHANGED <<archive, uiVars, rows, decrypted, outside>>

MessageReceived(s, body, time) ==
  [type |-> "MessageReceived", contact |-> s.contact,
   message |-> [id |-> s.id, body |-> body, direction |-> s.direction, time |-> time,
                status |-> IF s.direction = "outgoing" THEN "sent" ELSE "received"]]

MessageCorrected(s) ==
  [type |-> "MessageCorrected", contact |-> s.contact, target |-> s.replaces, body |-> s.body]

\* The decrypted message is one of now, also when it comes from the archive.
OmemoMessageReceived(s) ==
  IF s.replaces # None THEN MessageCorrected(s)
  ELSE [type |-> "MessageReceived", contact |-> s.contact,
        message |-> [id |-> s.id, body |-> s.body, direction |-> s.direction,
                     time |-> Len(archive), status |-> "pending"]]

\* process_message: what was encrypted and cannot be decrypted has no body.  A
\* message from the account's other clients may be of a device without session.
ProcessMessage(s, time) ==
  IF ~s.encrypted
  THEN events' = Append(events, MessageReceived(s, s.body, time)) /\ UNCHANGED decrypted
  ELSE \/ /\ s.id \notin decrypted
          /\ decrypted' = decrypted \cup {s.id}
          /\ events' = Append(events, OmemoMessageReceived(s))
       \/ /\ s.id \in decrypted \/ s.direction = "outgoing"
          /\ events' = IF s.direction = "outgoing"
                       THEN Append(events, MessageReceived(s, 0, time))
                       ELSE events
          /\ UNCHANGED decrypted

\* Mutant: only the newest page is fetched.
NewestPageOnly(fin) == UNCHANGED query

\* The end of a page: the page before it is asked for.
NextPage(fin) == query' = IF fin.complete THEN query ELSE fin.first

\* Only a correction that comes live is one to the worker, if it is not encrypted.
HandleStanza ==
  LET d == Head(down)
  IN  /\ down # <<>>
      /\ down' = Tail(down)
      /\ CASE d.kind = "receipt" ->
                /\ events' = Append(events, [type |-> "MessageDelivered", id |-> d.id])
                /\ UNCHANGED <<query, decrypted>>
           [] d.kind = "roster" ->
                /\ events' = events \o [i \in DOMAIN Roster |-> [type |-> "RosterItem", contact |-> Roster[i]]]
                /\ UNCHANGED <<query, decrypted>>
           [] d.kind = "fin" ->
                /\ NextPage(d)
                /\ UNCHANGED <<events, decrypted>>
           [] d.kind = "live" /\ d.stanza.replaces # None /\ ~d.stanza.encrypted ->
                /\ events' = Append(events, MessageCorrected(d.stanza))
                /\ UNCHANGED <<query, decrypted>>
           [] OTHER ->
                /\ ProcessMessage(d.stanza, IF d.kind = "archived" THEN d.time ELSE Len(archive))
                /\ UNCHANGED query
      /\ UNCHANGED <<archive, connection, uiVars, rows, left, outside>>

-----------------------------------------------------------------------------
\* The interface

\* The indexes that have a key, in the order of their keys; equal ones as they are.
Order(key) ==
  LET rank == [i \in DOMAIN key |->
                 Cardinality({j \in DOMAIN key : key[j] < key[i] \/ (key[j] = key[i] /\ j <= i)})]
  IN  [k \in 1 .. Cardinality(DOMAIN key) |-> CHOOSE i \in DOMAIN key : rank[i] = k]

Ascending(indexes) == Order([i \in indexes |-> i])

Ids(messages) == {m.id : m \in messages}

At(list, order) == [k \in DOMAIN order |-> list[order[k]]]

LastTime(c) == IF c.messages = <<>> THEN -1 ELSE Last(c.messages).time

Position(list, contact) ==
  IF \E i \in DOMAIN list : list[i].contact = contact
  THEN Min({i \in DOMAIN list : list[i].contact = contact}) ELSE None

Selected(list) == IF selected # None /\ selected <= Len(list) THEN list[selected].contact ELSE None

NewestFirst(list) == At(list, Order([i \in DOMAIN list |-> -LastTime(list[i])]))

\* Mutant: the selection stays an index.
SortOnly(list) ==
  /\ conversations' = NewestFirst(list)
  /\ UNCHANGED selected

\* The newest conversation first; the selection follows its contact.
SortConversations(list) ==
  LET sorted == NewestFirst(list)
  IN  /\ conversations' = sorted
      /\ selected' = IF Selected(list) = None THEN selected ELSE Position(sorted, Selected(list))

NewConversation(contact) == [contact |-> contact, messages |-> <<>>, unread |-> 0]

WithContact(list, contact) ==
  IF Position(list, contact) = None THEN Append(list, NewConversation(contact)) ELSE list

AddMessage(list, contact, m) ==
  LET all == WithContact(list, contact)
      p   == Position(all, contact)
      c   == all[p]
  IN  [all EXCEPT ![p] =
         [c EXCEPT !.messages = Append(@, m),
                   !.unread = IF m.direction = "incoming" THEN @ + 1 ELSE @]]

MessageExists(id) == \E c \in ToSet(conversations) : \E m \in ToSet(c.messages) : m.id = id

\* save_message: a row of the same id stays as it is.
SaveMessage(m, contact) ==
  rows' = IF \E r \in ToSet(rows) : r.message.id = m.id THEN rows
          ELSE Append(rows, [account |-> account, contact |-> contact, message |-> m])

\* A field of the rows of an id, or the messages of a conversation of one.
InRows(id, field, value) ==
  [i \in DOMAIN rows |->
     IF rows[i].message.id = id THEN [rows[i] EXCEPT !.message[field] = value] ELSE rows[i]]

InMessages(c, id, Change(_)) ==
  [c EXCEPT !.messages = [i \in DOMAIN @ |-> IF @[i].id = id THEN Change(@[i]) ELSE @[i]]]

\* Mutant: the message is added whether it is known or not.
AddAnyMessage(contact, m) ==
  /\ SaveMessage(m, contact)
  /\ SortConversations(AddMessage(conversations, contact, m))
  /\ unseen' = unseen \cup (IF m.direction = "incoming" /\ Selected(conversations) # contact THEN {m.id} ELSE {})
  /\ UNCHANGED account

OnMessageReceived(contact, m) ==
  IF MessageExists(m.id) THEN UNCHANGED <<uiVars, rows, unseen>>
  ELSE /\ SaveMessage(m, contact)
       /\ SortConversations(AddMessage(conversations, contact, m))
       /\ unseen' = unseen \cup (IF m.direction = "incoming" /\ Selected(conversations) # contact THEN {m.id} ELSE {})
       /\ UNCHANGED account

\* A correction in the conversation of its sender, as one of now.
Corrected(contact, target, body) ==
  [i \in DOMAIN conversations |->
     IF conversations[i].contact # contact THEN conversations[i]
     ELSE InMessages(conversations[i], target, LAMBDA m : [m EXCEPT !.body = body, !.time = Len(archive)])]

\* Mutant: a correction is only shown.
OnMessageCorrectedShown(contact, target, body) ==
  /\ conversations' = Corrected(contact, target, body)
  /\ UNCHANGED <<account, selected, rows, unseen>>

OnMessageCorrected(contact, target, body) ==
  /\ conversations' = Corrected(contact, target, body)
  /\ rows' = InRows(target, "body", body)
  /\ UNCHANGED <<account, selected, unseen>>

Delivered(m) == [m EXCEPT !.status = "delivered"]

OnMessageDelivered(id) ==
  /\ conversations' = [i \in DOMAIN conversations |-> InMessages(conversations[i], id, Delivered)]
  /\ rows' = InRows(id, "status", "delivered")
  /\ UNCHANGED <<account, selected, unseen>>

OnRosterItem(contact) ==
  IF Position(conversations, contact) # None THEN UNCHANGED <<uiVars, rows, unseen>>
  ELSE SortConversations(WithContact(conversations, contact)) /\ UNCHANGED <<account, rows, unseen>>

\* The rows of this jid, in the order of time, as conversations in the order of
\* their first message.
Loaded(jid) ==
  LET own      == {i \in DOMAIN rows : rows[i].account = jid}
      ordered  == At(rows, Order([i \in own |-> rows[i].message.time]))
      of(c)    == Ascending({i \in DOMAIN ordered : ordered[i].contact = c})
      messages(c) == [k \in DOMAIN of(c) |-> ordered[of(c)[k]].message]
      firsts   == Ascending({i \in DOMAIN ordered :
                               \A j \in 1 .. i - 1 : ordered[j].contact # ordered[i].contact})
      conversation(c) ==
        [contact |-> c, messages |-> messages(c),
         unread |-> Cardinality({k \in DOMAIN messages(c) : messages(c)[k].direction = "incoming"})]
  IN  [k \in DOMAIN firsts |-> conversation(ordered[firsts[k]].contact)]

\* Mutant: the messages that are loaded count as read.
ConnectedRead(jid) ==
  /\ account' = IF account = None THEN jid ELSE account
  /\ SortConversations([i \in DOMAIN Loaded(jid) |-> [Loaded(jid)[i] EXCEPT !.unread = 0]])
  /\ UNCHANGED <<rows, unseen>>

\* All conversations are loaded again; every incoming message counts as unread.
OnConnected(jid) ==
  /\ account' = IF account = None THEN jid ELSE account
  /\ SortConversations(Loaded(jid))
  /\ UNCHANGED <<rows, unseen>>

OnDisconnected ==
  /\ selected' = None
  /\ UNCHANGED <<account, conversations, rows, unseen>>

HandleEvent ==
  LET e == Head(events)
  IN  /\ events # <<>>
      /\ events' = Tail(events)
      /\ CASE e.type = "Connected"        -> OnConnected(e.jid)
           [] e.type = "Disconnected"     -> OnDisconnected
           [] e.type = "RosterItem"       -> OnRosterItem(e.contact)
           [] e.type = "MessageReceived"  -> OnMessageReceived(e.contact, e.message)
           [] e.type = "MessageCorrected" -> OnMessageCorrected(e.contact, e.target, e.body)
           [] e.type = "MessageDelivered" -> OnMessageDelivered(e.id)
      /\ IF e.type = "Connected" THEN edited' = {} /\ strayed' = {}
                                 ELSE UNCHANGED <<edited, strayed>>
      /\ UNCHANGED <<archive, down, query, connection, decrypted, left, dropped>>

ConversationSelected(i) ==
  /\ i # selected
  /\ selected' = i
  /\ conversations' = [conversations EXCEPT ![i].unread = 0]
  /\ unseen' = unseen \ {m.id : m \in ToSet(conversations[i].messages)}
  /\ UNCHANGED <<archive, down, query, connection, events, account, rows, decrypted, left,
                 dropped, edited, strayed>>

\* The command to the worker: without a connection it is forgotten.
Sent(id, contact, replaces, body) ==
  archive' = IF ~Online THEN archive
             ELSE Append(archive, [id |-> id, contact |-> contact, direction |-> "outgoing",
                                   replaces |-> replaces, body |-> body, encrypted |-> FALSE, own |-> TRUE])

SendMessageClicked ==
  LET contact == Selected(conversations)
      m == [id |-> Head(left.own), body |-> 1, direction |-> "outgoing",
            time |-> Len(archive), status |-> "pending"]
  IN  /\ left.own # <<>> /\ contact # None
      /\ left' = [left EXCEPT !.own = Tail(@)]
      /\ SaveMessage(m, contact)
      /\ SortConversations(AddMessage(conversations, contact, m))
      /\ Sent(m.id, contact, None, 1)
      /\ UNCHANGED <<down, query, connection, events, account, decrypted, outside>>

\* What a user can name: a message that is there; one that is still to come stands for
\* an id that nobody has.
Named ==
  {s.id : s \in left.traffic \cup ToSet(archive)} \cup {r.message.id : r \in ToSet(rows)}

\* "/edit" of an id, whoever has it: a message of the conversation that is selected is
\* shown anew, as one from here; a row of any gets the body; and a correction is sent.
EditMessage(id) ==
  LET contact == Selected(conversations)
      again(old) == [old EXCEPT !.body = 2, !.direction = "outgoing", !.time = Len(archive),
                                !.status = "sent"]
      shown == id \in Ids(ToSet(conversations[selected].messages))
  IN  /\ left.own # <<>> /\ contact # None
      /\ left' = [left EXCEPT !.own = Tail(@)]
      /\ conversations' =
           [conversations EXCEPT ![selected] = InMessages(conversations[selected], id, again)]
      /\ rows' = InRows(id, "body", 2)
      /\ edited' = IF shown THEN edited \cup {id} ELSE edited
      /\ strayed' = IF shown THEN strayed ELSE strayed \cup {id}
      /\ Sent(Head(left.own), contact, id, 2)
      /\ UNCHANGED <<down, query, connection, events, account, selected, decrypted,
                     unseen, dropped>>

\* The program ends and is started again: what the interface has not handled is gone.
Quit ==
  /\ Spend("quits")
  /\ connection' = None /\ down' = <<>> /\ query' = None /\ events' = <<>>
  /\ account' = None /\ conversations' = <<>> /\ selected' = None
  /\ dropped' = dropped \cup
       {e.message.id : e \in {f \in ToSet(events) : f.type = "MessageReceived" /\ f.message.id \in decrypted}}
  /\ UNCHANGED <<archive, rows, decrypted, unseen, edited, strayed>>

Next ==
  \/ \E s \in left.traffic : Arrive(s)
  \/ \E i \in DOMAIN archive : Receipt(i)
  \/ ServePage \/ Login \/ StreamLost \/ HandleStanza
  \/ HandleEvent \/ Quit
  \/ \E i \in DOMAIN conversations : ConversationSelected(i)
  \/ SendMessageClicked
  \/ \E id \in Named : EditMessage(id)

Spec == Init /\ [][Next]_vars

\* The server answers, the worker reads its stream, the interface its channel.  An
\* event is taken off the channel by HandleEvent only, or by the end of the program.
EventTaken == events # <<>> /\ events' = Tail(events)

Fairness == WF_vars(ServePage) /\ WF_vars(HandleStanza) /\ WF_events(EventTaken)

FairSpec == Spec /\ Fairness

-----------------------------------------------------------------------------
\* Properties

Shown == UNION {ToSet(c.messages) : c \in ToSet(conversations)}

\* A message is shown once, however often it comes: live, as a carbon copy, in
\* overlapping pages, again after a reconnect; and a contact has one conversation.
ShownOnce ==
  /\ \A c \in ToSet(conversations) : IsInjective([i \in DOMAIN c.messages |-> c.messages[i].id])
  /\ \A i, j \in DOMAIN conversations : i # j =>
       /\ conversations[i].contact # conversations[j].contact
       /\ Ids(ToSet(conversations[i].messages)) \cap Ids(ToSet(conversations[j].messages)) = {}

\* A message that is edited in its conversation is one from here on the screen, and
\* not in the table; one that is edited from another conversation has its new body in
\* the table only.  (The sets are emptied by the login that loads the table again.)
Text(m) ==
  [id |-> m.id,
   body |-> IF m.id \in strayed THEN None ELSE m.body,
   direction |-> IF m.id \in edited THEN None ELSE m.direction,
   status |-> IF m.id \in edited THEN None ELSE m.status]

\* While the account's jid stays the same, the screen shows what the table has,
\* corrections and deliveries included, once the login has been handled; except
\* what an "/edit" since that login has changed on one side only.
ScreenIsTable ==
  left.naming = "given" /\ account # None =>
    {Text(m) : m \in Shown} = {Text(r.message) : r \in ToSet(rows)}

\* A message that was not on the screen since it came is counted as unread, also
\* after a restart, and when it is loaded or fetched again.
NoneOverlooked ==
  \A c \in ToSet(conversations) :
    c.unread >= Cardinality(unseen \cap Ids(ToSet(c.messages)))

\* The user goes on writing to whom he has selected, whatever comes in and moves
\* the conversations; only a login or a disconnection may change that.
SelectionKept ==
  [][\/ selected = None
     \/ selected > Len(conversations)
     \/ \E i \in DOMAIN conversations : ConversationSelected(i)
     \/ Quit
     \/ HandleEvent /\ Head(events).type \in {"Connected", "Disconnected"}
     \/ Selected(conversations) = Selected(conversations)']_vars

\* On a connection that stays, every message of the archive is shown in the end.
\* Encrypted ones are excepted whose key was used up before the program was quit; and
\* all of them if the server assigns the resource: what the login before has decrypted
\* is stored under its address, and cannot be decrypted again for this one.
EventuallyShown ==
  <>[](Online =>
         \A s \in ToSet(archive) :
           s.replaces = None /\ (s.encrypted => left.naming = "given" /\ s.id \notin dropped)
             => s.id \in Ids(Shown))

\* "Load message history from database" (app.rs, line 1083): after a login the
\* screen shows what was stored before.
HistoryLoaded ==
  account # None /\ Online /\ events = <<>> =>
    Ids({r.message : r \in ToSet(rows)}) \subseteq Ids(Shown)
=============================================================================
