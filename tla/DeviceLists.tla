----------------------------- MODULE DeviceLists -----------------------------
(***************************************************************************)
(* How the clients of an account announce their OMEMO devices, and learn   *)
(* of those of others (client.rs).  A login publishes the device's bundle, *)
(* fetches the account's device list and publishes it with the device      *)
(* added; the answers to these requests, errors included, lead to further  *)
(* requests.  An answer is matched by the id of the request, which is made *)
(* from the account and the purpose: a second request with the same id     *)
(* takes the place of the first in pending_iqs.                            *)
(*                                                                         *)
(* The server keeps a list node for each account: with the options Dziber  *)
(* asks for, or as another program left it, when it may hold several       *)
(* items.  An encrypted session is only whether there is one.              *)
(***************************************************************************)
EXTENDS Naturals, Sequences, FiniteSets, Functions

CONSTANTS Client,      \* the devices of the account that run this program
          Other,       \* other devices, of the account or of the contact
          Own, Contact,\* the two accounts
          None,        \* no node; no device list
          Servers,     \* what the server may be like
          Nodes,       \* the list nodes it may have at first
          Budgets      \* how many logins, conversations and breaks there are

Id == Client \cup Other
Account == {Own, Contact}

\* A server: does it check publish-options, refuse to change a node's
\* configuration, keep the node with all bundles, and send live updates?
Server == [strict : BOOLEAN, refuses : BOOLEAN, generic : BOOLEAN, live : BOOLEAN]

Item == [id : {"current", "other"}, devices : SUBSET Id]
Node == [options : BOOLEAN, items : SUBSET Item]

AllDevices(items) == UNION {i.devices : i \in items}

ASSUME DeviceListBounds ==
  /\ Budgets \subseteq [logins : Nat, selects : Nat, breaks : Nat]
  /\ Servers \subseteq Server
  /\ Nodes \subseteq [Account -> Node \cup {None}]
  /\ Own # Contact

ASSUME DevicesFinite == IsFiniteSet(Id)

\* None is not a set of devices, and not a node.
ASSUME NoneAssumption == /\ \A devices \in SUBSET Id : devices # None
                         /\ None \notin Node

VARIABLES
  server,    \* what the server is like: it stays so
  node,      \* the device list node of each account
  initial,   \* the devices the own account listed at first
  bundles,   \* the bundles published, in the node of the account or the device
  online,    \* the clients that are connected
  lists,     \* device_lists of each client's manager
  sessions,  \* the devices each client has a session with
  pending,   \* pending_iqs of each client
  up, down,  \* requests to the server, and what it sends
  unfetched, \* devices a client knows, but has not asked for a bundle of:
             \* from a live update only, or the stream broke before
  disturbed, \* what happened that the publication of a list does not allow for
  left       \* what is left of the budget

serverVars == <<node, bundles>>
vars == <<server, initial, serverVars, online, lists, sessions, pending, up, down, unfetched, disturbed, left>>

Init ==
  /\ server \in Servers
  /\ node \in Nodes
  /\ initial = IF node[Own] = None THEN {} ELSE AllDevices(node[Own].items)
  /\ bundles = {"device"} \X Other
  /\ online = {}
  /\ lists = [c \in Client |-> [a \in Account |-> None]]
  /\ sessions = [c \in Client |-> {}]
  /\ pending = [c \in Client |-> <<>>]
  /\ up = [c \in Client |-> <<>>] /\ down = [c \in Client |-> <<>>]
  /\ unfetched = [c \in Client |-> {}]
  /\ disturbed = {}
  /\ left \in Budgets

-----------------------------------------------------------------------------
\* Requests: the stanza, its id and the entry of pending_iqs.

FetchList(a, own) ==
  [id |-> <<"devicelist", a>>, entry |-> [type |-> "DeviceList", jid |-> a, own |-> own],
   op |-> [name |-> "list", jid |-> a]]

PublishList(devices, version) ==
  [id    |-> << IF version = "merged" THEN "pub-devices" ELSE "pub-devices-v0", Own >>,
   entry |-> [type |-> "DeviceListPublish", retry |-> version = "retry"],
   op    |-> [name |-> "publish", devices |-> devices]]

Purge(devices) ==
  [id |-> <<"purge-devices", Own>>, entry |-> [type |-> "PurgeV0DeviceList", devices |-> devices],
   op |-> [name |-> "purge"]]

ConfigureNode(devices) ==
  [id |-> <<"configure", Own>>, entry |-> [type |-> "ConfigureNode", devices |-> devices],
   op |-> [name |-> "configure"]]

FetchBundles(a) ==
  [id |-> <<"bundle", a>>, entry |-> [type |-> "Bundle", jid |-> a],
   op |-> [name |-> "bundles", jid |-> a]]

FetchBundle(a, d) ==
  [id |-> <<"bundle", a, d>>, entry |-> [type |-> "BundleDevice", device |-> d],
   op |-> [name |-> "bundle", device |-> d]]

\* The bundle is published in a node of the account and in one of the device;
\* the two stanzas are taken together.
PublishBundle ==
  [id |-> <<"pub-bundle", Own>>, entry |-> [type |-> "BundlePublish"], op |-> [name |-> "publish-bundle"]]

\* The table with the entries of requests, of which no two have the same id; an
\* entry takes the place of an older one.
Added(table, requests) ==
  LET ids == {requests[i].id : i \in DOMAIN requests}
  IN  [id \in DOMAIN table \cup ids |->
         IF id \in ids THEN requests[CHOOSE i \in DOMAIN requests : requests[i].id = id].entry
         ELSE table[id]]

\* What a client does: requests are entered into the table and sent in order.
Request(c, table, requests) ==
  /\ pending' = [pending EXCEPT ![c] = Added(table, requests)]
  /\ up' = [up EXCEPT ![c] = @ \o [i \in DOMAIN requests |-> [id |-> requests[i].id, op |-> requests[i].op]]]

Known(c, a) == IF lists[c][a] = None THEN {} ELSE lists[c][a]
AllKnown(c) == UNION {Known(c, a) : a \in Account}

Quiet(c) == up[c] = <<>> /\ down[c] = <<>>

\* A client is between the fetch of its account's list and the answer to the
\* last publication that follows from it.
PublishTypes == {"DeviceListPublish", "PurgeV0DeviceList", "ConfigureNode"}
Publishing(c) ==
  \/ \E id \in DOMAIN pending[c] :
       LET e == pending[c][id]
       IN  e.type \in PublishTypes \/ (e.type = "DeviceList" /\ e.own)
  \/ \E i \in DOMAIN up[c] : up[c][i].op.name = "publish"

-----------------------------------------------------------------------------
\* What the user and the network do

\* XmppEventRaw::Online.
Online(c) ==
  /\ c \notin online /\ left.logins > 0
  /\ left' = [left EXCEPT !.logins = @ - 1]
  /\ online' = online \cup {c}
  /\ Request(c, pending[c], << PublishBundle, FetchList(Own, TRUE) >>)
  /\ disturbed' = disturbed \cup
       (IF \E d \in online : Publishing(d) THEN {"overlap"} ELSE {})
  /\ UNCHANGED <<server, initial, serverVars, lists, sessions, down, unfetched>>

\* ConversationSelected: FetchDeviceList, of the account itself as well.
SelectConversation(c, a) ==
  /\ c \in online /\ left.selects > 0
  /\ left' = [left EXCEPT !.selects = @ - 1]
  /\ Request(c, pending[c], << FetchList(a, FALSE) >>)
  /\ disturbed' = disturbed \cup
       (IF a = Own /\ Publishing(c) THEN {"refetched"} ELSE {})
  /\ UNCHANGED <<server, initial, serverVars, online, lists, sessions, down, unfetched>>

Breaks(c) ==
  /\ c \in online /\ left.breaks > 0
  /\ left' = [left EXCEPT !.breaks = @ - 1]
  /\ online' = online \ {c}
  /\ up' = [up EXCEPT ![c] = <<>>] /\ down' = [down EXCEPT ![c] = <<>>]
  /\ unfetched' = [unfetched EXCEPT ![c] = AllKnown(c) \ sessions[c]]
  /\ disturbed' = disturbed \cup (IF Publishing(c) THEN {"broken"} ELSE {})
  /\ UNCHANGED <<server, initial, serverVars, lists, sessions>>

\* The stream fails: what was not delivered is gone, pending_iqs stays.
StreamLost(c) == Breaks(c) /\ UNCHANGED pending

\* XmppCommand::Disconnect clears the table.
Logout(c) == Breaks(c) /\ pending' = [pending EXCEPT ![c] = <<>>]

-----------------------------------------------------------------------------
\* The server

Result(id, payload) == [kind |-> "result", id |-> id, payload |-> payload]
Failure(id, condition) == [kind |-> "error", id |-> id, condition |-> condition]

Current(devices) == [id |-> "current", devices |-> devices]

\* A publication makes the node, or replaces the item: with max_items = 1 it is
\* the only one, otherwise items of other ids stay.
Published(n, devices) ==
  IF n = None \/ n.options
  THEN [options |-> n = None \/ n.options, items |-> {Current(devices)}]
  ELSE [n EXCEPT !.items = {i \in @ : i.id # "current"} \cup {Current(devices)}]

Live(devices) == [kind |-> "live", devices |-> devices]

\* The answer to a request, and the new node of the account.
Answer(id, op) ==
  CASE op.name = "list" ->
         <<IF node[op.jid] = None THEN Failure(id, "item-not-found") ELSE Result(id, node[op.jid].items), node[Own]>>
    [] op.name = "publish" ->
         IF server.strict /\ node[Own] # None /\ ~node[Own].options
         THEN <<Failure(id, "precondition-not-met"), node[Own]>>
         ELSE <<Result(id, {}), Published(node[Own], op.devices)>>
    [] op.name = "purge" ->
         IF node[Own] = None THEN <<Failure(id, "item-not-found"), None>>
         ELSE <<Result(id, {}), [node[Own] EXCEPT !.items = {}]>>
    [] op.name = "configure" ->
         IF server.refuses \/ node[Own] = None THEN <<Failure(id, "forbidden"), node[Own]>>
         ELSE <<Result(id, {}), [node[Own] EXCEPT !.options = TRUE,
                                   !.items = IF Cardinality(@) > 1 THEN {i \in @ : i.id = "current"} ELSE @]>>
    [] op.name = "bundles" ->
         LET all == {d \in Client : op.jid = Own /\ <<"account", d>> \in bundles}
         IN  <<IF all # {} THEN Result(id, all) ELSE Failure(id, "item-not-found"), node[Own]>>
    [] op.name = "bundle" ->
         <<IF <<"device", op.device>> \in bundles THEN Result(id, {}) ELSE Failure(id, "item-not-found"), node[Own]>>
    [] op.name = "publish-bundle" -> <<Result(id, {}), node[Own]>>

BundleNodes(c) == {<<"device", c>>} \cup (IF server.generic THEN {<<"account", c>>} ELSE {})

\* It answers the oldest request and tells the clients of a new list.
Serve(c) ==
  LET request == Head(up[c])
      answer  == Answer(request.id, request.op)
      told    == {d \in online : server.live /\ request.op.name = "publish" /\ answer[1].kind = "result"}
      event(d) == IF d \in told THEN << Live(request.op.devices) >> ELSE <<>>
      reply(d) == IF d = c THEN << answer[1] >> ELSE <<>>
  IN  /\ up[c] # <<>>
      /\ up' = [up EXCEPT ![c] = Tail(@)]
      /\ node' = [node EXCEPT ![Own] = answer[2]]
      /\ bundles' = IF request.op.name = "publish-bundle" THEN bundles \cup BundleNodes(c) ELSE bundles
      /\ down' = [d \in Client |-> down[d] \o event(d) \o reply(d)]
      /\ UNCHANGED <<server, initial, online, lists, sessions, pending, unfetched, disturbed, left>>

-----------------------------------------------------------------------------
\* handle_stanza: the answers.  "rest" is the table without the entry.

UpdateDeviceList(c, a, devices) ==
  lists' = [lists EXCEPT ![c][a] = Known(c, a) \cup devices]

Fetched(c, devices) == unfetched' = [unfetched EXCEPT ![c] = @ \ devices]

\* Mutant: only the fetched list is published.
OwnListUnmerged(c, rest, items) ==
  LET all == {c}
  IN  /\ Request(c, rest, << PublishList(all, "merged"), PublishList(all, "v0"), FetchBundles(Own) >>)
      /\ UpdateDeviceList(c, Own, all)
      /\ Fetched(c, all)
      /\ UNCHANGED sessions

\* The own list: the device is added, the list is published, the node emptied
\* first if it has more than one item.
OwnList(c, rest, items) ==
  LET all == AllDevices(items) \cup {c}
      publish == IF Cardinality(items) > 1 THEN Purge(all) ELSE PublishList(all, "v0")
  IN  /\ Request(c, rest, << PublishList(all, "merged"), publish, FetchBundles(Own) >>)
      /\ UpdateDeviceList(c, Own, all)
      /\ Fetched(c, all)
      /\ UNCHANGED sessions

OtherList(c, rest, a, items) ==
  LET all == AllDevices(items)
  IN  IF all = {}
      THEN /\ Request(c, rest, <<>>)
           /\ UNCHANGED <<lists, sessions, unfetched>>
      ELSE /\ Request(c, rest, << FetchBundles(a) >>)
           /\ UpdateDeviceList(c, a, all)
           /\ Fetched(c, all)
           /\ UNCHANGED sessions

\* DeviceList, and no item found: of the own account, the first list.
NoList(c, rest, own) ==
  /\ Request(c, rest, IF own THEN << PublishList({c}, "merged"), PublishList({c}, "v0") >> ELSE <<>>)
  /\ UNCHANGED <<lists, sessions, unfetched>>

\* Mutant: the published list is fetched as at a login.
VerifyAsOwn(c, rest) ==
  /\ Request(c, rest, << FetchList(Own, TRUE) >>)
  /\ UNCHANGED <<lists, sessions, unfetched>>

\* DeviceListPublish: the list is fetched again.
ListPublished(c, rest) ==
  /\ Request(c, rest, << FetchList(Own, FALSE) >>)
  /\ UNCHANGED <<lists, sessions, unfetched>>

\* The node is given its configuration, once.
PublishRefused(c, rest, retry, condition) ==
  /\ Request(c, rest,
       IF retry \/ condition # "precondition-not-met" THEN <<>>
       ELSE << ConfigureNode(IF lists[c][Own] = None THEN {c} ELSE lists[c][Own]) >>)
  /\ UNCHANGED <<lists, sessions, unfetched>>

\* PurgeV0DeviceList and ConfigureNode, successful or not: the list is published.
PublishAnyway(c, rest, devices, version) ==
  /\ Request(c, rest, << PublishList(devices, version) >>)
  /\ UNCHANGED <<lists, sessions, unfetched>>

Purged(c, rest, devices) == PublishAnyway(c, rest, devices, "v0")

Configured(c, rest, devices) == PublishAnyway(c, rest, devices, "retry")

\* Requests for the bundles of single devices, in any order.
FetchEach(c, rest, a, devices) ==
  \E order \in {s \in [1 .. Cardinality(devices) -> devices] : \A d \in devices : \E i \in DOMAIN s : s[i] = d} :
    Request(c, rest, [i \in DOMAIN order |-> FetchBundle(a, order[i])])

\* Mutant: the other devices are not asked for when some bundle was found.
BundlesFoundOnly(c, rest, a, found) ==
  /\ sessions' = [sessions EXCEPT ![c] = @ \cup found]
  /\ FetchEach(c, rest, a, IF found = {} THEN Known(c, a) \ {c} ELSE {})
  /\ UNCHANGED <<lists, unfetched>>

\* Bundle: sessions with those found, requests for the others.
BundlesFound(c, rest, a, found) ==
  /\ sessions' = [sessions EXCEPT ![c] = @ \cup found]
  /\ FetchEach(c, rest, a, (Known(c, a) \ {c}) \ found)
  /\ UNCHANGED <<lists, unfetched>>

\* An error is as good as none found.
NoBundles(c, rest, a) == BundlesFound(c, rest, a, {})

\* BundleDevice: a session with that device.
BundleFound(c, rest, devices) ==
  /\ sessions' = [sessions EXCEPT ![c] = @ \cup devices]
  /\ Request(c, rest, <<>>)
  /\ UNCHANGED <<lists, unfetched>>

\* Mutant: a live update is not looked at.
LiveUpdateIgnored(c, devices) == UNCHANGED <<lists, sessions, pending, up, unfetched>>

\* A message with a live update changes the list and nothing else.
LiveUpdate(c, devices) ==
  /\ UpdateDeviceList(c, Own, devices)
  /\ unfetched' = [unfetched EXCEPT ![c] = @ \cup (devices \ Known(c, Own))]
  /\ UNCHANGED <<sessions, pending, up>>

Ignored == UNCHANGED <<lists, sessions, pending, up, unfetched>>

HandleResult(c, rest, e, payload) ==
  CASE e.type = "DeviceList" ->
         IF e.own THEN OwnList(c, rest, payload) ELSE OtherList(c, rest, e.jid, payload)
    [] e.type = "DeviceListPublish" -> ListPublished(c, rest)
    [] e.type = "PurgeV0DeviceList" -> Purged(c, rest, e.devices)
    [] e.type = "ConfigureNode"     -> Configured(c, rest, e.devices)
    [] e.type = "Bundle"            -> BundlesFound(c, rest, e.jid, payload)
    [] e.type = "BundleDevice"      -> BundleFound(c, rest, {e.device})
    [] e.type = "BundlePublish"     -> BundleFound(c, rest, {})

HandleError(c, rest, e, condition) ==
  CASE e.type = "DeviceList" ->
         NoList(c, rest, e.own /\ condition = "item-not-found")
    [] e.type = "DeviceListPublish" -> PublishRefused(c, rest, e.retry, condition)
    [] e.type = "PurgeV0DeviceList" -> PublishAnyway(c, rest, e.devices, "v0")
    [] e.type = "ConfigureNode"     -> PublishAnyway(c, rest, e.devices, "retry")
    [] e.type = "Bundle"            -> NoBundles(c, rest, e.jid)
    [] e.type \in {"BundleDevice", "BundlePublish"} -> BundleFound(c, rest, {})

HandleStanza(c) ==
  LET s     == Head(down[c])
      table == pending[c]
      rest  == Restrict(table, DOMAIN table \ {s.id})
  IN  /\ down[c] # <<>>
      /\ down' = [down EXCEPT ![c] = Tail(@)]
      /\ CASE s.kind = "live"           -> LiveUpdate(c, s.devices)
           [] s.kind # "live" /\ s.id \notin DOMAIN table -> Ignored
           [] s.kind = "result" /\ s.id \in DOMAIN table -> HandleResult(c, rest, table[s.id], s.payload)
           [] s.kind = "error" /\ s.id \in DOMAIN table  -> HandleError(c, rest, table[s.id], s.condition)
      /\ UNCHANGED <<server, initial, serverVars, online, disturbed, left>>

Next ==
  \E c \in Client :
    \/ Online(c) \/ StreamLost(c) \/ Logout(c)
    \/ \E a \in Account : SelectConversation(c, a)
    \/ Serve(c) \/ HandleStanza(c)

Spec == Init /\ [][Next]_vars

\* The server answers; the worker reads its stream before its commands.  Only
\* Serve and HandleStanza, or a stream that ends, take the head off a queue.
Taken(queue, c) == queue[c] # <<>> /\ queue' = [queue EXCEPT ![c] = Tail(@)]

Fairness == \A c \in Client : WF_up(Taken(up, c)) /\ WF_down(Taken(down, c))

FairSpec == Spec /\ Fairness

-----------------------------------------------------------------------------
\* Properties

Settled == \A c \in Client : Quiet(c)

Devices(n) == IF n = None THEN {} ELSE AllDevices(n.items)

\* When all requests are answered, the account's list names every client that
\* is connected, and still every device it named before.  Two logins at once,
\* a stream that breaks between the purge and the publication, and a server
\* that lets nobody configure the node are excepted, and so is the account's
\* own conversation opened during a login (OwnListAnswered).
Complete == Settled => online \cup initial \subseteq Devices(node[Own])

ListComplete ==
  disturbed = {} /\ ~(server.strict /\ server.refuses) => Complete

\* Whatever overlaps or breaks: where live updates are sent, a connected client
\* knows every device the list names, those that came after its login included.
KnowsListed ==
  server.live /\ Settled =>
    \A c \in online : Devices(node[Own]) \subseteq Known(c, Own)

\* A client has a session with each device it has fetched the list of, if that
\* device has published a bundle anywhere: a bundle missing in the account's
\* node is asked for in the device's.
SessionsFollowFetch ==
  Settled =>
    \A c \in online : \A d \in AllKnown(c) \ {c} :
      d \notin unfetched[c] /\ <<"device", d>> \in bundles => d \in sessions[c]

\* The requests that answers lead to come to an end: a refused publication is
\* tried again once, and the list that is fetched to verify it leads to no other.
RequestsEnd == <>[]Settled

\* "For own JID: always exhaust all versions and merge" (client.rs, line 2221),
\* then "publish merged list and fetch bundles": the answer to the fetch of a
\* login leads to the publication, whatever else the user does meanwhile.
OwnListAnswered ==
  disturbed \subseteq {"refetched"} /\ ~(server.strict /\ server.refuses) => Complete
=============================================================================
