-------------------------- MODULE DeviceLists_proofs --------------------------
(***************************************************************************)
(* The device lists and sessions of any number of clients of an account,   *)
(* on servers of any kind, with any number of logins, breaks and opened    *)
(* conversations: types, that every client that is connected learns of     *)
(* every device of the account's list, that it has a session with each     *)
(* device it has asked for, and that the list is complete again after each *)
(* login.  All three say where a thing that is not there yet is on its     *)
(* way: in an answer on the stream, or in a request that has its entry in  *)
(* the table.                                                              *)
(***************************************************************************)
EXTENDS DeviceLists, SequenceTheorems, FiniteSetTheorems, TLAPS

-----------------------------------------------------------------------------
\* Requests by what they ask for

ListRequests      == {FetchList(a, FALSE) : a \in Account} \cup {FetchList(Own, TRUE)}
PublishRequests   == {PublishList(D, v) : D \in SUBSET Id, v \in {"merged", "v0", "retry"}}
PurgeRequests     == {Purge(D) : D \in SUBSET Id}
ConfigureRequests == {ConfigureNode(D) : D \in SUBSET Id}
BundlesRequests   == {FetchBundles(a) : a \in Account}
BundleRequests    == {FetchBundle(a, d) : a \in Account, d \in Id}

Requests == ListRequests \cup PublishRequests \cup PurgeRequests \cup ConfigureRequests
            \cup BundlesRequests \cup BundleRequests \cup {PublishBundle}

\* What the request with an id asks for.
Asked(id) ==
  IF id[1] = "devicelist" THEN "list"
  ELSE IF id[1] \in {"pub-devices", "pub-devices-v0"} THEN "publish"
  ELSE IF id[1] = "purge-devices" THEN "purge"
  ELSE IF id[1] = "configure" THEN "configure"
  ELSE IF id[1] = "pub-bundle" THEN "publish-bundle"
  ELSE IF Len(id) = 2 THEN "bundles" ELSE "bundle"

Sent(r) == [id |-> r.id, op |-> r.op]

Stanza ==
  {Live(D) : D \in SUBSET Id}
  \cup {Failure(r.id, condition) : r \in Requests,
          condition \in {"item-not-found", "precondition-not-met", "forbidden"}}
  \cup {Result(r.id, {}) : r \in Requests}
  \cup {Result(r.id, items) : r \in ListRequests, items \in SUBSET Item}
  \cup {Result(r.id, D) : r \in BundlesRequests, D \in SUBSET Id}

\* The fields of each request.
LEMMA ListIs ==
  ASSUME NEW r \in ListRequests
  PROVE  \E a \in Account, own \in BOOLEAN :
           /\ own => a = Own
           /\ r = FetchList(a, own)
           /\ r.id = <<"devicelist", a>> /\ Asked(r.id) = "list"
           /\ r.entry.type = "DeviceList" /\ r.entry.jid = a /\ r.entry.own = own
           /\ r.op.name = "list" /\ r.op.jid = a
<1>1. PICK a \in Account, own \in BOOLEAN : r = FetchList(a, own) /\ (own => a = Own)
  BY DEF ListRequests, Account
<1>2. /\ r.id = <<"devicelist", a>> /\ r.entry.type = "DeviceList" /\ r.entry.jid = a /\ r.entry.own = own
      /\ r.op.name = "list" /\ r.op.jid = a
  BY <1>1 DEF FetchList
<1>3. QED
  BY <1>1, <1>2 DEF Asked

\* A publication of a list.
LEMMA PublishIs ==
  ASSUME NEW r \in PublishRequests
  PROVE  \E D \in SUBSET Id, v \in {"merged", "v0", "retry"} :
           /\ r = PublishList(D, v)
           /\ r.id = << IF v = "merged" THEN "pub-devices" ELSE "pub-devices-v0", Own >>
           /\ Asked(r.id) = "publish"
           /\ r.entry.type = "DeviceListPublish" /\ r.entry.retry = (v = "retry")
           /\ r.op.name = "publish" /\ r.op.devices = D
BY DEF PublishRequests, PublishList, Asked

\* A purge of the list's items.
LEMMA PurgeIs ==
  ASSUME NEW r \in PurgeRequests
  PROVE  \E D \in SUBSET Id :
           /\ r = Purge(D)
           /\ r.id = <<"purge-devices", Own>> /\ Asked(r.id) = "purge"
           /\ r.entry.type = "PurgeV0DeviceList" /\ r.entry.devices = D
           /\ r.op.name = "purge"
BY DEF PurgeRequests, Purge, Asked

\* A configuration of the list's node.
LEMMA ConfigureIs ==
  ASSUME NEW r \in ConfigureRequests
  PROVE  \E D \in SUBSET Id :
           /\ r = ConfigureNode(D)
           /\ r.id = <<"configure", Own>> /\ Asked(r.id) = "configure"
           /\ r.entry.type = "ConfigureNode" /\ r.entry.devices = D
           /\ r.op.name = "configure"
BY DEF ConfigureRequests, ConfigureNode, Asked

\* A request for all bundles of an account.
LEMMA BundlesIs ==
  ASSUME NEW r \in BundlesRequests
  PROVE  \E a \in Account :
           /\ r = FetchBundles(a)
           /\ r.id = <<"bundle", a>> /\ Asked(r.id) = "bundles"
           /\ r.entry.type = "Bundle" /\ r.entry.jid = a
           /\ r.op.name = "bundles" /\ r.op.jid = a
BY DEF BundlesRequests, FetchBundles, Asked

\* A request for the bundle of one device.
LEMMA BundleIs ==
  ASSUME NEW r \in BundleRequests
  PROVE  \E a \in Account, d \in Id :
           /\ r = FetchBundle(a, d)
           /\ r.id = <<"bundle", a, d>> /\ Asked(r.id) = "bundle"
           /\ r.entry.type = "BundleDevice" /\ r.entry.device = d
           /\ r.op.name = "bundle" /\ r.op.device = d
BY DEF BundleRequests, FetchBundle, Asked

\* The publication of the own bundle.
LEMMA PublishBundleIs ==
  /\ PublishBundle.id = <<"pub-bundle", Own>> /\ Asked(PublishBundle.id) = "publish-bundle"
  /\ PublishBundle.entry.type = "BundlePublish" /\ PublishBundle.op.name = "publish-bundle"
BY DEF PublishBundle, Asked

\* What is asked for tells the request.
LEMMA RequestOf ==
  ASSUME NEW r \in Requests
  PROVE  /\ Asked(r.id) = r.op.name
         /\ r.op.name \in {"list", "publish", "purge", "configure", "bundles", "bundle", "publish-bundle"}
         /\ r.op.name = "list"           <=> r \in ListRequests
         /\ r.op.name = "publish"        <=> r \in PublishRequests
         /\ r.op.name = "purge"          <=> r \in PurgeRequests
         /\ r.op.name = "configure"      <=> r \in ConfigureRequests
         /\ r.op.name = "bundles"        <=> r \in BundlesRequests
         /\ r.op.name = "bundle"         <=> r \in BundleRequests
         /\ r.op.name = "publish-bundle" <=> r = PublishBundle
<1>1. /\ \A x \in ListRequests      : Asked(x.id) = "list" /\ x.op.name = "list"
      /\ \A x \in PublishRequests   : Asked(x.id) = "publish" /\ x.op.name = "publish"
      /\ \A x \in PurgeRequests     : Asked(x.id) = "purge" /\ x.op.name = "purge"
      /\ \A x \in ConfigureRequests : Asked(x.id) = "configure" /\ x.op.name = "configure"
  BY ListIs, PublishIs, PurgeIs, ConfigureIs
<1>2. /\ \A x \in BundlesRequests   : Asked(x.id) = "bundles" /\ x.op.name = "bundles"
      /\ \A x \in BundleRequests    : Asked(x.id) = "bundle" /\ x.op.name = "bundle"
      /\ Asked(PublishBundle.id) = "publish-bundle" /\ PublishBundle.op.name = "publish-bundle"
  BY BundlesIs, BundleIs, PublishBundleIs
<1>3. QED
  BY <1>1, <1>2 DEF Requests

\* Tuples are equal in each component.
LEMMA PairsEqual == ASSUME NEW x, NEW a, NEW b, <<x, a>> = <<x, b>> PROVE a = b
OBVIOUS

\* The same of three components.
LEMMA TriplesEqual == ASSUME NEW x, NEW a, NEW b, NEW d, NEW f, <<x, a, d>> = <<x, b, f>> PROVE d = f
OBVIOUS

\* Requests of one id ask for the same.
LEMMA SameId ==
  ASSUME NEW r \in Requests, NEW s \in Requests, r.id = s.id
  PROVE  /\ r.op.name = s.op.name
         /\ r.op.name \in {"list", "bundles"} => r.op.jid = s.op.jid /\ r.entry.jid = s.entry.jid
         /\ r.op.name = "bundle" => r.entry.device = s.entry.device
<1>1. r.op.name = s.op.name
  BY RequestOf
<1>2. CASE r.op.name = "list"
  <2>1. r \in ListRequests /\ s \in ListRequests
    BY <1>1, <1>2, RequestOf
  <2>2. PICK a \in Account, b \in Account :
          /\ r.id = <<"devicelist", a>> /\ r.entry.jid = a /\ r.op.jid = a
          /\ s.id = <<"devicelist", b>> /\ s.entry.jid = b /\ s.op.jid = b
    BY <2>1, ListIs
  <2>3. a = b
    <3>1. <<"devicelist", a>> = <<"devicelist", b>>
      BY <2>2
    <3>2. QED
      BY <3>1, PairsEqual
  <2>4. QED
    BY <1>1, <1>2, <2>2, <2>3
<1>3. CASE r.op.name = "bundles"
  <2>1. r \in BundlesRequests /\ s \in BundlesRequests
    BY <1>1, <1>3, RequestOf
  <2>2. PICK a \in Account, b \in Account :
          /\ r.id = <<"bundle", a>> /\ r.entry.jid = a /\ r.op.jid = a
          /\ s.id = <<"bundle", b>> /\ s.entry.jid = b /\ s.op.jid = b
    BY <2>1, BundlesIs
  <2>3. a = b
    <3>1. <<"bundle", a>> = <<"bundle", b>>
      BY <2>2
    <3>2. QED
      BY <3>1, PairsEqual
  <2>4. QED
    BY <1>1, <1>3, <2>2, <2>3
<1>4. CASE r.op.name = "bundle"
  <2>1. r \in BundleRequests /\ s \in BundleRequests
    BY <1>1, <1>4, RequestOf
  <2>2. PICK a \in Account, d \in Id, b \in Account, f \in Id :
          /\ r.id = <<"bundle", a, d>> /\ r.entry.device = d
          /\ s.id = <<"bundle", b, f>> /\ s.entry.device = f
    BY <2>1, BundleIs
  <2>3. d = f
    <3>1. <<"bundle", a, d>> = <<"bundle", b, f>>
      BY <2>2
    <3>2. QED
      BY <3>1, TriplesEqual
  <2>4. QED
    BY <1>1, <1>4, <2>2, <2>3
<1>5. QED
  BY <1>1, <1>2, <1>3, <1>4

\* A live update, or an answer to some request.
LEMMA StanzaIs ==
  ASSUME NEW s \in Stanza
  PROVE  \/ \E D \in SUBSET Id : s = Live(D)
         \/ s.kind = "error" /\ \E r \in Requests : s.id = r.id
         \/ /\ s.kind = "result"
            /\ \E r \in Requests :
                 /\ s.id = r.id
                 /\ \/ s.payload = {}
                    \/ r \in ListRequests /\ s.payload \in SUBSET Item
                    \/ r \in BundlesRequests /\ s.payload \in SUBSET Id
<1>1. CASE s \in {Live(D) : D \in SUBSET Id}
  BY <1>1
<1>2. CASE s \in {Failure(r.id, condition) : r \in Requests,
                    condition \in {"item-not-found", "precondition-not-met", "forbidden"}}
  BY <1>2 DEF Failure
<1>3. CASE s \in {Result(r.id, {}) : r \in Requests}
  BY <1>3 DEF Result
<1>4. CASE s \in {Result(r.id, items) : r \in ListRequests, items \in SUBSET Item}
  BY <1>4 DEF Result, Requests
<1>5. CASE s \in {Result(r.id, D) : r \in BundlesRequests, D \in SUBSET Id}
  BY <1>5 DEF Result, Requests
<1>6. QED
  BY <1>1, <1>2, <1>3, <1>4, <1>5 DEF Stanza

\* What an answer brings is of the kind that was asked for.
LEMMA AnswerIs ==
  ASSUME NEW s \in Stanza, NEW r \in Requests, s.kind # "live", s.id = r.id
  PROVE  /\ s.kind \in {"result", "error"}
         /\ s.kind = "result" /\ r.op.name = "list" => s.payload \in SUBSET Item
         /\ s.kind = "result" /\ r.op.name = "bundles" => s.payload \in SUBSET Id
<1>1. CASE \E D \in SUBSET Id : s = Live(D)
  BY <1>1 DEF Live
<1>2. CASE s.kind = "error"
  BY <1>2
<1>3. CASE /\ s.kind = "result"
           /\ \E q \in Requests :
                /\ s.id = q.id
                /\ \/ s.payload = {}
                   \/ q \in ListRequests /\ s.payload \in SUBSET Item
                   \/ q \in BundlesRequests /\ s.payload \in SUBSET Id
  <2>1. PICK q \in Requests :
          /\ s.id = q.id
          /\ \/ s.payload = {}
             \/ q \in ListRequests /\ s.payload \in SUBSET Item
             \/ q \in BundlesRequests /\ s.payload \in SUBSET Id
    BY <1>3
  <2>2. q.op.name = r.op.name
    BY <2>1, SameId
  <2>3. /\ q \in ListRequests => q.op.name = "list"
        /\ q \in BundlesRequests => q.op.name = "bundles"
    BY RequestOf
  <2>4. QED
    BY <1>3, <2>1, <2>2, <2>3
<1>4. QED
  BY <1>1, <1>2, <1>3, StanzaIs

-----------------------------------------------------------------------------
\* Types

\* Every entry is of a request with its id.
Entered(table) == \A id \in DOMAIN table : \E r \in Requests : r.id = id /\ r.entry = table[id]

ServerOK ==
  /\ server \in Server
  /\ node \in [Account -> Node \cup {None}]
  /\ initial \subseteq Id /\ bundles \subseteq {"account", "device"} \X Id

ManagersOK ==
  /\ lists \in [Client -> [Account -> (SUBSET Id) \cup {None}]]
  /\ sessions \in [Client -> SUBSET Id] /\ unfetched \in [Client -> SUBSET Id]

TablesOK == DOMAIN pending = Client /\ \A c \in Client : Entered(pending[c])

RequestsOK == up \in [Client -> Seq({Sent(r) : r \in Requests})]

AnswersOK == down \in [Client -> Seq(Stanza)]

OnlineOK ==
  /\ online \subseteq Client
  /\ \A c \in Client \ online : Quiet(c)

BudgetOK ==
  /\ disturbed \subseteq {"overlap", "refetched", "broken"}
  /\ left \in [logins : Nat, selects : Nat, breaks : Nat]

TypeOK == ServerOK /\ ManagersOK /\ TablesOK /\ RequestsOK /\ AnswersOK /\ OnlineOK /\ BudgetOK

\* An item of a node names devices.
LEMMA DevicesType ==
  ASSUME NEW n \in Node \cup {None} PROVE Devices(n) \subseteq Id
<1>1. CASE n = None
  BY <1>1 DEF Devices
<1>2. CASE n # None
  BY <1>2 DEF Devices, AllDevices, Node, Item
<1>3. QED
  BY <1>1, <1>2

\* At first.
LEMMA InitType == Init => TypeOK
<1> SUFFICES ASSUME Init PROVE TypeOK
  OBVIOUS
<1>1. ServerOK
  <2>1. server \in Server /\ node \in [Account -> Node \cup {None}]
    BY DeviceListBounds DEF Init
  <2>2. initial = Devices(node[Own])
    BY DEF Init, Devices
  <2>3. initial \subseteq Id
    BY <2>1, <2>2, DevicesType DEF Account
  <2>4. bundles \subseteq {"account", "device"} \X Id
    BY DEF Init, Id
  <2>5. QED
    BY <2>1, <2>3, <2>4 DEF ServerOK
<1>2. ManagersOK
  BY DEF Init, ManagersOK
<1>3. TablesOK
  BY DEF Init, TablesOK, Entered
<1>4. RequestsOK /\ AnswersOK /\ OnlineOK
  BY DEF Init, RequestsOK, AnswersOK, OnlineOK, Quiet
<1>5. BudgetOK
  BY DeviceListBounds DEF Init, BudgetOK
<1>6. QED
  BY <1>1, <1>2, <1>3, <1>4, <1>5 DEF TypeOK

\* What a table has after requests: their entries, and the others as before.
HasAlso(t, table, requests) ==
  /\ DOMAIN t = DOMAIN table \cup {requests[i].id : i \in DOMAIN requests}
  /\ \A id \in DOMAIN t :
       \/ id \in DOMAIN table /\ t[id] = table[id]
       \/ \E i \in DOMAIN requests : requests[i].id = id /\ t[id] = requests[i].entry

\* What Added makes.
LEMMA AddedIs ==
  ASSUME NEW table, NEW requests PROVE HasAlso(Added(table, requests), table, requests)
<1> DEFINE ids == {requests[i].id : i \in DOMAIN requests}
           new(id) == CHOOSE i \in DOMAIN requests : requests[i].id = id
           t == Added(table, requests)
<1>1. t = [id \in DOMAIN table \cup ids |-> IF id \in ids THEN requests[new(id)].entry ELSE table[id]]
  BY DEF Added
<1>2. \A id \in ids : new(id) \in DOMAIN requests /\ requests[new(id)].id = id
  OBVIOUS
<1> HIDE DEF new, t
<1>3. ASSUME NEW id \in DOMAIN table \cup ids
      PROVE  \/ id \in DOMAIN table /\ t[id] = table[id]
             \/ \E i \in DOMAIN requests : requests[i].id = id /\ t[id] = requests[i].entry
  <2>1. CASE id \in ids
    <3>1. t[id] = requests[new(id)].entry
      BY <1>1, <1>3, <2>1
    <3>2. QED
      BY <1>2, <2>1, <3>1
  <2>2. CASE id \notin ids
    <3>1. t[id] = table[id]
      BY <1>1, <1>3, <2>2
    <3>2. QED
      BY <1>3, <2>2, <3>1
  <2>3. QED
    BY <2>1, <2>2
<1>4. DOMAIN t = DOMAIN table \cup ids
  BY <1>1
<1>5. \A id \in DOMAIN t : \/ id \in DOMAIN table /\ t[id] = table[id]
                          \/ \E i \in DOMAIN requests : requests[i].id = id /\ t[id] = requests[i].entry
  BY <1>3, <1>4
<1>6. QED
  BY <1>4, <1>5 DEF t, HasAlso

\* Entries taken out, and entries of requests put in.
LEMMA EnteredKept ==
  ASSUME NEW table, Entered(table), NEW requests \in Seq(Requests)
  PROVE  /\ Entered(Added(table, requests))
         /\ \A S \in SUBSET DOMAIN table : Entered(Restrict(table, S))
<1> DEFINE t == Added(table, requests)
<1>0. HasAlso(t, table, requests)
  BY AddedIs
<1> HIDE DEF t
<1>1. ASSUME NEW id \in DOMAIN t PROVE \E r \in Requests : r.id = id /\ r.entry = t[id]
  <2>1. CASE id \in DOMAIN table /\ t[id] = table[id]
    BY <2>1 DEF Entered
  <2>2. CASE \E i \in DOMAIN requests : requests[i].id = id /\ t[id] = requests[i].entry
    <3>1. PICK i \in DOMAIN requests : requests[i].id = id /\ t[id] = requests[i].entry
      BY <2>2
    <3>2. requests[i] \in Requests
      OBVIOUS
    <3>3. QED
      BY <3>1, <3>2
  <2>3. QED
    BY <1>0, <1>1, <2>1, <2>2 DEF HasAlso
<1>2. \A S \in SUBSET DOMAIN table : Entered(Restrict(table, S))
  BY DEF Entered, Restrict
<1>3. QED
  BY <1>1, <1>2 DEF Entered, t

\* The stanzas of requests.
Stanzas(requests) == [i \in DOMAIN requests |-> [id |-> requests[i].id, op |-> requests[i].op]]

\* They are the stanzas that are sent.
LEMMA StanzasAre ==
  ASSUME NEW requests \in Seq(Requests)
  PROVE  /\ Stanzas(requests) \in Seq({Sent(r) : r \in Requests}) /\ Len(Stanzas(requests)) = Len(requests)
         /\ \A i \in DOMAIN requests : Stanzas(requests)[i] = Sent(requests[i])
<1>1. \A i \in 1 .. Len(requests) : requests[i] \in Requests
  OBVIOUS
<1>2. DOMAIN requests = 1 .. Len(requests) /\ Len(requests) \in Nat
  OBVIOUS
<1>3. \A i \in DOMAIN requests : Stanzas(requests)[i] = Sent(requests[i])
  BY DEF Stanzas, Sent
<1>4. Stanzas(requests) \in [1 .. Len(requests) -> {Sent(r) : r \in Requests}]
  BY <1>1, <1>2 DEF Stanzas, Sent
<1>5. QED
  BY <1>2, <1>3, <1>4

\* A client's requests keep table and stream what they are.
LEMMA RequestType ==
  ASSUME TablesOK, RequestsOK, NEW c \in Client, NEW table, Entered(table),
         NEW requests \in Seq(Requests), Request(c, table, requests)
  PROVE  TablesOK' /\ RequestsOK'
<1>1. Entered(Added(table, requests))
  BY EnteredKept
<1>2. TablesOK'
  BY <1>1 DEF TablesOK, Request, Entered
<1>3. up' = [up EXCEPT ![c] = @ \o Stanzas(requests)]
  BY DEF Request, Stanzas
<1>4. RequestsOK'
  <2> DEFINE T == {Sent(r) : r \in Requests}
  <2>1. up \in [Client -> Seq(T)] /\ Stanzas(requests) \in Seq(T)
    BY StanzasAre DEF RequestsOK
  <2> HIDE DEF T
  <2>2. up[c] \o Stanzas(requests) \in Seq(T)
    BY <2>1
  <2>3. up' \in [Client -> Seq(T)]
    BY <1>3, <2>1, <2>2
  <2>4. QED
    BY <2>3 DEF T, RequestsOK
<1>5. QED
  BY <1>2, <1>4

-----------------------------------------------------------------------------
\* The answer to a request r, by what was asked for

OwnListComes(c, rest, r, s) ==
  r.op.name = "list" /\ s.kind = "result" /\ r.entry.own /\ OwnList(c, rest, s.payload)

ListComes(c, rest, r, s) ==
  r.op.name = "list" /\ s.kind = "result" /\ ~r.entry.own /\ OtherList(c, rest, r.entry.jid, s.payload)

NoListComes(c, rest, r, s) ==
  r.op.name = "list" /\ s.kind = "error" /\ NoList(c, rest, r.entry.own /\ s.condition = "item-not-found")

PublishedComes(c, rest, r, s) ==
  r.op.name = "publish" /\ s.kind = "result" /\ ListPublished(c, rest)

RefusedComes(c, rest, r, s) ==
  r.op.name = "publish" /\ s.kind = "error" /\ PublishRefused(c, rest, r.entry.retry, s.condition)

PurgedComes(c, rest, r, s) ==
  r.op.name = "purge" /\ PublishAnyway(c, rest, r.entry.devices, "v0")

ConfiguredComes(c, rest, r, s) ==
  r.op.name = "configure" /\ PublishAnyway(c, rest, r.entry.devices, "retry")

BundlesCome(c, rest, r, s) ==
  /\ r.op.name = "bundles"
  /\ BundlesFound(c, rest, r.entry.jid, IF s.kind = "result" THEN s.payload ELSE {})

BundleComes(c, rest, r, s) ==
  /\ r.op.name = "bundle"
  /\ BundleFound(c, rest, IF s.kind = "result" THEN {r.entry.device} ELSE {})

BundlePublishedComes(c, rest, r, s) ==
  r.op.name = "publish-bundle" /\ BundleFound(c, rest, {})

Comes(c, rest, r, s) ==
  \/ OwnListComes(c, rest, r, s) \/ ListComes(c, rest, r, s) \/ NoListComes(c, rest, r, s)
  \/ PublishedComes(c, rest, r, s) \/ RefusedComes(c, rest, r, s)
  \/ PurgedComes(c, rest, r, s) \/ ConfiguredComes(c, rest, r, s)
  \/ BundlesCome(c, rest, r, s) \/ BundleComes(c, rest, r, s) \/ BundlePublishedComes(c, rest, r, s)

\* The table without the entry that s answers.
Rest(c, s) == Restrict(pending[c], DOMAIN pending[c] \ {s.id})

Answers(c, s, r) ==
  s.kind # "live" /\ s.id = r.id /\ s.id \in DOMAIN pending[c] /\ pending[c][s.id] = r.entry

Takes(c, s) ==
  /\ down[c] # <<>> /\ s = Head(down[c]) /\ down' = [down EXCEPT ![c] = Tail(@)]
  /\ UNCHANGED <<server, initial, serverVars, online, disturbed, left>>

\* The entry of the table says what becomes of an answer.
LEMMA ResultComes ==
  ASSUME NEW c, NEW rest, NEW r \in Requests, NEW s, s.kind = "result",
         HandleResult(c, rest, r.entry, s.payload)
  PROVE  Comes(c, rest, r, s)
<1>1. CASE r \in ListRequests
  <2>1. r.entry.type = "DeviceList" /\ r.op.name = "list"
    BY <1>1, ListIs
  <2>2. QED
    BY <2>1 DEF HandleResult, Comes, OwnListComes, ListComes
<1>2. CASE r \in PublishRequests
  <2>1. r.entry.type = "DeviceListPublish" /\ r.op.name = "publish"
    BY <1>2, PublishIs
  <2>2. QED
    BY <2>1 DEF HandleResult, Comes, PublishedComes
<1>3. CASE r \in PurgeRequests
  <2>1. r.entry.type = "PurgeV0DeviceList" /\ r.op.name = "purge"
    BY <1>3, PurgeIs
  <2>2. QED
    BY <2>1 DEF HandleResult, Comes, PurgedComes, Purged
<1>4. CASE r \in ConfigureRequests
  <2>1. r.entry.type = "ConfigureNode" /\ r.op.name = "configure"
    BY <1>4, ConfigureIs
  <2>2. QED
    BY <2>1 DEF HandleResult, Comes, ConfiguredComes, Configured
<1>5. CASE r \in BundlesRequests
  <2>1. r.entry.type = "Bundle" /\ r.op.name = "bundles"
    BY <1>5, BundlesIs
  <2>2. QED
    BY <2>1 DEF HandleResult, Comes, BundlesCome
<1>6. CASE r \in BundleRequests
  <2>1. r.entry.type = "BundleDevice" /\ r.op.name = "bundle"
    BY <1>6, BundleIs
  <2>2. QED
    BY <2>1 DEF HandleResult, Comes, BundleComes
<1>7. CASE r = PublishBundle
  <2>1. r.entry.type = "BundlePublish" /\ r.op.name = "publish-bundle"
    BY <1>7, PublishBundleIs
  <2>2. QED
    BY <2>1 DEF HandleResult, Comes, BundlePublishedComes
<1>8. QED
  BY <1>1, <1>2, <1>3, <1>4, <1>5, <1>6, <1>7 DEF Requests

\* The same of errors.
LEMMA ErrorComes ==
  ASSUME NEW c, NEW rest, NEW r \in Requests, NEW s, s.kind = "error",
         HandleError(c, rest, r.entry, s.condition)
  PROVE  Comes(c, rest, r, s)
<1>1. CASE r \in ListRequests
  <2>1. r.entry.type = "DeviceList" /\ r.op.name = "list"
    BY <1>1, ListIs
  <2>2. QED
    BY <2>1 DEF HandleError, Comes, NoListComes
<1>2. CASE r \in PublishRequests
  <2>1. r.entry.type = "DeviceListPublish" /\ r.op.name = "publish"
    BY <1>2, PublishIs
  <2>2. QED
    BY <2>1 DEF HandleError, Comes, RefusedComes
<1>3. CASE r \in PurgeRequests
  <2>1. r.entry.type = "PurgeV0DeviceList" /\ r.op.name = "purge"
    BY <1>3, PurgeIs
  <2>2. QED
    BY <2>1 DEF HandleError, Comes, PurgedComes
<1>4. CASE r \in ConfigureRequests
  <2>1. r.entry.type = "ConfigureNode" /\ r.op.name = "configure"
    BY <1>4, ConfigureIs
  <2>2. QED
    BY <2>1 DEF HandleError, Comes, ConfiguredComes
<1>5. CASE r \in BundlesRequests
  <2>1. r.entry.type = "Bundle" /\ r.op.name = "bundles"
    BY <1>5, BundlesIs
  <2>2. QED
    BY <2>1 DEF HandleError, Comes, BundlesCome, NoBundles
<1>6. CASE r \in BundleRequests
  <2>1. r.entry.type = "BundleDevice" /\ r.op.name = "bundle"
    BY <1>6, BundleIs
  <2>2. QED
    BY <2>1 DEF HandleError, Comes, BundleComes
<1>7. CASE r = PublishBundle
  <2>1. r.entry.type = "BundlePublish" /\ r.op.name = "publish-bundle"
    BY <1>7, PublishBundleIs
  <2>2. QED
    BY <2>1 DEF HandleError, Comes, BundlePublishedComes
<1>8. QED
  BY <1>1, <1>2, <1>3, <1>4, <1>5, <1>6, <1>7 DEF Requests

\* A client takes a stanza: a live update, an answer that nothing waits for, or
\* the answer to a request of the table.
LEMMA HandleDoes ==
  ASSUME TablesOK, AnswersOK, NEW c \in Client, HandleStanza(c)
  PROVE  \E s \in Stanza :
           /\ Takes(c, s)
           /\ \/ \E D \in SUBSET Id : s = Live(D) /\ LiveUpdate(c, D)
              \/ s.kind # "live" /\ s.id \notin DOMAIN pending[c] /\ Ignored
              \/ \E r \in Requests : Answers(c, s, r) /\ Comes(c, Rest(c, s), r, s)
<1> DEFINE s == Head(down[c])
<1>1. down[c] \in Seq(Stanza) /\ down[c] # <<>>
  BY DEF AnswersOK, HandleStanza
<1>2. s \in Stanza
  BY <1>1
<1>3. Takes(c, s)
  BY DEF HandleStanza, Takes
<1>4. CASE s \in Stanza /\ \E D \in SUBSET Id : s = Live(D)
  <2>1. PICK D \in SUBSET Id : s = Live(D)
    BY <1>4
  <2>2. s.kind = "live" /\ s.devices = D
    BY <2>1 DEF Live
  <2>3. LiveUpdate(c, D)
    BY <2>2 DEF HandleStanza
  <2>4. QED
    BY <1>2, <1>3, <2>1, <2>3
<1>5. CASE s.kind \in {"result", "error"} /\ s.id \notin DOMAIN pending[c]
  <2>1. s.kind # "live" /\ Ignored
    BY <1>5 DEF HandleStanza
  <2>2. QED
    BY <1>2, <1>3, <1>5, <2>1
<1>6. CASE s.kind \in {"result", "error"} /\ s.id \in DOMAIN pending[c]
  <2>1. PICK r \in Requests : r.id = s.id /\ r.entry = pending[c][s.id]
    BY <1>6 DEF TablesOK, Entered
  <2>2. Answers(c, s, r)
    BY <1>6, <2>1 DEF Answers
  <2>3. CASE s.kind = "result"
    <3>1. HandleResult(c, Rest(c, s), pending[c][s.id], s.payload)
      BY <1>6, <2>3 DEF HandleStanza, Rest
    <3>2. HandleResult(c, Rest(c, s), r.entry, s.payload)
      BY <2>1, <3>1
    <3>3. QED
      BY <1>2, <1>3, <2>2, <2>3, <3>2, ResultComes
  <2>4. CASE s.kind = "error"
    <3>1. HandleError(c, Rest(c, s), pending[c][s.id], s.condition)
      BY <1>6, <2>4 DEF HandleStanza, Rest
    <3>2. HandleError(c, Rest(c, s), r.entry, s.condition)
      BY <2>1, <3>1
    <3>3. QED
      BY <1>2, <1>3, <2>2, <2>4, <3>2, ErrorComes
  <2>5. QED
    BY <1>6, <2>3, <2>4
<1>7. s.kind \in {"result", "error"} \/ \E D \in SUBSET Id : s = Live(D)
  BY <1>2, StanzaIs
<1>8. QED
  BY <1>2, <1>4, <1>5, <1>6, <1>7

-----------------------------------------------------------------------------
\* Every step keeps the types

\* The server's answers are stanzas.
LEMMA AnswersAre ==
  ASSUME NEW r \in Requests
  PROVE  /\ \A condition \in {"item-not-found", "precondition-not-met", "forbidden"} : Failure(r.id, condition) \in Stanza
         /\ Result(r.id, {}) \in Stanza
         /\ r \in ListRequests => \A items \in SUBSET Item : Result(r.id, items) \in Stanza
         /\ r \in BundlesRequests => \A D \in SUBSET Id : Result(r.id, D) \in Stanza
BY DEF Stanza

\* The kinds of requests.
LEMMA KindsOfRequests ==
  ASSUME NEW r \in Requests
  PROVE  \/ r \in ListRequests \/ r \in PublishRequests \/ r \in PurgeRequests \/ r \in ConfigureRequests
         \/ r \in BundlesRequests \/ r \in BundleRequests \/ r = PublishBundle
BY DEF Requests

\* What is published is a node.
LEMMA PublishedIs ==
  ASSUME NEW n \in Node \cup {None}, NEW D \in SUBSET Id PROVE Published(n, D) \in Node
<1>1. Current(D) \in Item
  BY DEF Current, Item
<1>2. CASE n = None
  <2>1. Published(n, D) = [options |-> TRUE, items |-> {Current(D)}]
    BY <1>2 DEF Published
  <2>2. QED
    BY <1>1, <2>1 DEF Node
<1>3. CASE n \in Node /\ n # None
  <2>1. CASE n.options
    <3>1. Published(n, D) = [options |-> n = None \/ n.options, items |-> {Current(D)}]
      BY <2>1 DEF Published
    <3>2. QED
      BY <1>1, <3>1, <2>1 DEF Node
  <2>2. CASE ~n.options
    <3>1. Published(n, D) = [n EXCEPT !.items = {i \in @ : i.id # "current"} \cup {Current(D)}]
      BY <1>3, <2>2 DEF Published
    <3>2. QED
      BY <1>1, <1>3, <3>1 DEF Node
  <2>3. QED
    BY <1>3, <2>1, <2>2 DEF Node
<1>4. QED
  BY <1>2, <1>3

\* The answer to each request.
LEMMA ListAnswer ==
  ASSUME NEW id, NEW op, op.name = "list"
  PROVE  Answer(id, op) =
           <<IF node[op.jid] = None THEN Failure(id, "item-not-found") ELSE Result(id, node[op.jid].items), node[Own]>>
BY DEF Answer

\* To a publication.
LEMMA PublishAnswer ==
  ASSUME NEW id, NEW op, op.name = "publish"
  PROVE  Answer(id, op) =
           IF server.strict /\ node[Own] # None /\ ~node[Own].options
           THEN <<Failure(id, "precondition-not-met"), node[Own]>>
           ELSE <<Result(id, {}), Published(node[Own], op.devices)>>
BY DEF Answer

\* To a purge.
LEMMA PurgeAnswer ==
  ASSUME NEW id, NEW op, op.name = "purge"
  PROVE  Answer(id, op) =
           IF node[Own] = None THEN <<Failure(id, "item-not-found"), None>>
           ELSE <<Result(id, {}), [node[Own] EXCEPT !.items = {}]>>
BY DEF Answer

\* To a configuration.
LEMMA ConfigureAnswer ==
  ASSUME NEW id, NEW op, op.name = "configure"
  PROVE  Answer(id, op) =
           IF server.refuses \/ node[Own] = None THEN <<Failure(id, "forbidden"), node[Own]>>
           ELSE <<Result(id, {}), [node[Own] EXCEPT !.options = TRUE,
                                     !.items = IF Cardinality(@) > 1 THEN {i \in @ : i.id = "current"} ELSE @]>>
BY DEF Answer

\* To a request for all bundles.
LEMMA BundlesAnswer ==
  ASSUME NEW id, NEW op, op.name = "bundles"
  PROVE  LET all == {d \in Client : op.jid = Own /\ <<"account", d>> \in bundles}
         IN  Answer(id, op) = <<IF all # {} THEN Result(id, all) ELSE Failure(id, "item-not-found"), node[Own]>>
BY DEF Answer

\* To a request for one bundle.
LEMMA BundleAnswer ==
  ASSUME NEW id, NEW op, op.name = "bundle"
  PROVE  Answer(id, op) =
           <<IF <<"device", op.device>> \in bundles THEN Result(id, {}) ELSE Failure(id, "item-not-found"), node[Own]>>
BY DEF Answer

\* To the publication of a bundle.
LEMMA PublishBundleAnswer ==
  ASSUME NEW id, NEW op, op.name = "publish-bundle"
  PROVE  Answer(id, op) = <<Result(id, {}), node[Own]>>
BY DEF Answer

\* An answer is a stanza with the id, and what is left is a node.
LEMMA AnswerType ==
  ASSUME ServerOK, NEW r \in Requests
  PROVE  LET a == Answer(r.id, r.op)
         IN  a[1] \in Stanza /\ a[1].kind \in {"result", "error"} /\ a[1].id = r.id /\ a[2] \in Node \cup {None}
<1> DEFINE a == Answer(r.id, r.op)
           Fails(s) == \E condition \in {"item-not-found", "precondition-not-met", "forbidden"} : s = Failure(r.id, condition)
           Succeeds(s) == \E x : s = Result(r.id, x) /\ Result(r.id, x) \in Stanza
<1>0. ASSUME NEW s, NEW n, a = <<s, n>>, Fails(s) \/ Succeeds(s), n \in Node \cup {None}
      PROVE  a[1] \in Stanza /\ a[1].kind \in {"result", "error"} /\ a[1].id = r.id /\ a[2] \in Node \cup {None}
  <2>1. CASE Fails(s)
    BY <1>0, <2>1, AnswersAre DEF Failure
  <2>2. CASE Succeeds(s)
    BY <1>0, <2>2 DEF Result
  <2>3. QED
    BY <1>0, <2>1, <2>2
<1>n. node[Own] \in Node \cup {None} /\ \A b \in Account : node[b] \in Node \cup {None}
  BY DEF ServerOK, Account
<1>1. CASE r \in ListRequests
  <2>1. PICK b \in Account : r.op.name = "list" /\ r.op.jid = b
    BY <1>1, ListIs
  <2>2. CASE node[b] = None
    <3>1. a = <<Failure(r.id, "item-not-found"), node[Own]>>
      BY <2>1, <2>2, ListAnswer
    <3>2. QED
      BY <1>0, <1>n, <3>1
  <2>3. CASE node[b] # None
    <3>1. a = <<Result(r.id, node[b].items), node[Own]>>
      BY <2>1, <2>3, ListAnswer
    <3>2. node[b].items \in SUBSET Item
      BY <1>n, <2>3 DEF Node
    <3>3. Result(r.id, node[b].items) \in Stanza
      BY <1>1, <3>2, AnswersAre
    <3>4. QED
      BY <1>0, <1>n, <3>1, <3>3
  <2>4. QED
    BY <2>2, <2>3
<1>2. CASE r \in PublishRequests
  <2>1. PICK D \in SUBSET Id : r.op.name = "publish" /\ r.op.devices = D
    BY <1>2, PublishIs
  <2>2. CASE server.strict /\ node[Own] # None /\ ~node[Own].options
    <3>1. a = <<Failure(r.id, "precondition-not-met"), node[Own]>>
      BY <2>1, <2>2, PublishAnswer
    <3>2. QED
      BY <1>0, <1>n, <3>1
  <2>3. CASE ~(server.strict /\ node[Own] # None /\ ~node[Own].options)
    <3>1. a = <<Result(r.id, {}), Published(node[Own], D)>>
      BY <2>1, <2>3, PublishAnswer
    <3>2. Published(node[Own], D) \in Node
      BY <1>n, PublishedIs
    <3>3. QED
      BY <1>0, <3>1, <3>2, AnswersAre
  <2>4. QED
    BY <2>2, <2>3
<1>3. CASE r \in PurgeRequests
  <2>1. r.op.name = "purge"
    BY <1>3, PurgeIs
  <2>2. CASE node[Own] = None
    <3>1. a = <<Failure(r.id, "item-not-found"), None>>
      BY <2>1, <2>2, PurgeAnswer
    <3>2. QED
      BY <1>0, <3>1
  <2>3. CASE node[Own] # None
    <3>1. a = <<Result(r.id, {}), [node[Own] EXCEPT !.items = {}]>>
      BY <2>1, <2>3, PurgeAnswer
    <3>2. [node[Own] EXCEPT !.items = {}] \in Node
      BY <1>n, <2>3 DEF Node
    <3>3. QED
      BY <1>0, <3>1, <3>2, AnswersAre
  <2>4. QED
    BY <2>2, <2>3
<1>4. CASE r \in ConfigureRequests
  <2>1. r.op.name = "configure"
    BY <1>4, ConfigureIs
  <2>2. CASE server.refuses \/ node[Own] = None
    <3>1. a = <<Failure(r.id, "forbidden"), node[Own]>>
      BY <2>1, <2>2, ConfigureAnswer
    <3>2. QED
      BY <1>0, <1>n, <3>1
  <2>3. CASE ~(server.refuses \/ node[Own] = None)
    <3> DEFINE n == [node[Own] EXCEPT !.options = TRUE,
                       !.items = IF Cardinality(@) > 1 THEN {i \in @ : i.id = "current"} ELSE @]
    <3>1. a = <<Result(r.id, {}), n>>
      BY <2>1, <2>3, ConfigureAnswer
    <3>2. n \in Node
      BY <1>n, <2>3 DEF Node
    <3> HIDE DEF n
    <3>3. QED
      BY <1>0, <3>1, <3>2, AnswersAre
  <2>4. QED
    BY <2>2, <2>3
<1>5. CASE r \in BundlesRequests
  <2> DEFINE all == {d \in Client : r.op.jid = Own /\ <<"account", d>> \in bundles}
  <2>1. r.op.name = "bundles" /\ all \in SUBSET Id
    BY <1>5, BundlesIs DEF Id
  <2>2. a = <<IF all # {} THEN Result(r.id, all) ELSE Failure(r.id, "item-not-found"), node[Own]>>
    BY <2>1, BundlesAnswer
  <2> HIDE DEF all
  <2>3. Result(r.id, all) \in Stanza
    BY <1>5, <2>1, AnswersAre
  <2>4. QED
    BY <1>0, <1>n, <2>2, <2>3
<1>6. CASE r \in BundleRequests
  <2>1. r.op.name = "bundle"
    BY <1>6, BundleIs
  <2>2. a = <<IF <<"device", r.op.device>> \in bundles THEN Result(r.id, {}) ELSE Failure(r.id, "item-not-found"), node[Own]>>
    BY <2>1, BundleAnswer
  <2>3. QED
    BY <1>0, <1>n, <2>2, AnswersAre
<1>7. CASE r = PublishBundle
  <2>1. a = <<Result(r.id, {}), node[Own]>>
    BY <1>7, PublishBundleIs, PublishBundleAnswer
  <2>2. QED
    BY <1>0, <1>n, <2>1, AnswersAre
<1>8. QED
  BY <1>1, <1>2, <1>3, <1>4, <1>5, <1>6, <1>7, KindsOfRequests

\* What the server sends to a client d when it serves the request r of c.
Told(d, r) ==
  d \in online /\ server.live /\ r.op.name = "publish" /\ Answer(r.id, r.op)[1].kind = "result"

Event(d, r) == IF Told(d, r) THEN << Live(r.op.devices) >> ELSE <<>>
Reply(c, d, r) == IF d = c THEN << Answer(r.id, r.op)[1] >> ELSE <<>>

Serves(c, r) ==
  /\ up[c] # <<>> /\ Head(up[c]) = Sent(r) /\ up' = [up EXCEPT ![c] = Tail(@)]
  /\ node' = [node EXCEPT ![Own] = Answer(r.id, r.op)[2]]
  /\ bundles' = IF r.op.name = "publish-bundle" THEN bundles \cup BundleNodes(c) ELSE bundles
  /\ down' = [d \in Client |-> down[d] \o Event(d, r) \o Reply(c, d, r)]
  /\ UNCHANGED <<server, initial, online, lists, sessions, pending, unfetched, disturbed, left>>

\* Serve does this with the request at the head of the stream.
LEMMA ServeDoes ==
  ASSUME RequestsOK, NEW c \in Client, Serve(c)
  PROVE  \E r \in Requests : Serves(c, r)
<1>1. up[c] \in Seq({Sent(r) : r \in Requests}) /\ up[c] # <<>>
  BY DEF RequestsOK, Serve
<1>2. Head(up[c]) \in {Sent(r) : r \in Requests}
  BY <1>1
<1>3. PICK r \in Requests : Head(up[c]) = Sent(r)
  BY <1>2
<1>4. Head(up[c]).id = r.id /\ Head(up[c]).op = r.op
  BY <1>3 DEF Sent
<1>5. \A d : d \in {b \in online : server.live /\ Head(up[c]).op.name = "publish"
                                   /\ Answer(Head(up[c]).id, Head(up[c]).op)[1].kind = "result"} <=> Told(d, r)
  BY <1>4 DEF Told
<1>6. down' = [d \in Client |-> down[d] \o Event(d, r) \o Reply(c, d, r)]
  BY <1>4, <1>5 DEF Serve, Event, Reply
<1>7. QED
  BY <1>1, <1>3, <1>4, <1>6 DEF Serve, Serves

\* The requests of a client are of the kinds above.
LEMMA OneRequest ==
  ASSUME NEW r \in Requests PROVE << r >> \in Seq(Requests)
OBVIOUS

\* Two of them.
LEMMA TwoRequests ==
  ASSUME NEW r \in Requests, NEW s \in Requests PROVE << r, s >> \in Seq(Requests)
OBVIOUS

\* The requests for lists.
LEMMA ListRequest ==
  /\ \A a \in Account : FetchList(a, FALSE) \in Requests
  /\ FetchList(Own, TRUE) \in Requests
BY DEF Requests, ListRequests

\* The publications.
LEMMA PublishRequest ==
  \A D \in SUBSET Id, v \in {"merged", "v0", "retry"} : PublishList(D, v) \in Requests
BY DEF Requests, PublishRequests

\* The other requests.
LEMMA OtherRequests ==
  /\ \A D \in SUBSET Id : Purge(D) \in Requests /\ ConfigureNode(D) \in Requests
  /\ \A a \in Account : FetchBundles(a) \in Requests
  /\ \A a \in Account, d \in Id : FetchBundle(a, d) \in Requests
  /\ PublishBundle \in Requests
BY DEF Requests, PurgeRequests, ConfigureRequests, BundlesRequests, BundleRequests

\* What is known of devices.
LEMMA KnownType ==
  ASSUME ManagersOK, NEW c \in Client, NEW a \in Account
  PROVE  Known(c, a) \subseteq Id
BY DEF ManagersOK, Known

\* A list gets more devices, the others stay.
LEMMA UpdateType ==
  ASSUME ManagersOK, NEW c \in Client, NEW a \in Account, NEW D \in SUBSET Id, UpdateDeviceList(c, a, D)
  PROVE  /\ lists' \in [Client -> [Account -> (SUBSET Id) \cup {None}]]
         /\ \A d \in Client, b \in Account :
              Known(d, b)' = IF d = c /\ b = a THEN Known(c, a) \cup D ELSE Known(d, b)
<1> DEFINE K == Known(c, a) \cup D
<1>1. K \in SUBSET Id
  BY KnownType
<1>2. K # None
  BY <1>1, NoneAssumption
<1> HIDE DEF K
<1>3. lists' = [lists EXCEPT ![c] = [lists[c] EXCEPT ![a] = K]]
  BY DEF UpdateDeviceList, K, ManagersOK
<1>4. lists \in [Client -> [Account -> (SUBSET Id) \cup {None}]]
  BY DEF ManagersOK
<1>5. lists[c] \in [Account -> (SUBSET Id) \cup {None}]
  BY <1>4
<1>6. [lists[c] EXCEPT ![a] = K] \in [Account -> (SUBSET Id) \cup {None}]
  BY <1>1, <1>5
<1>7. lists' \in [Client -> [Account -> (SUBSET Id) \cup {None}]]
  BY <1>3, <1>4, <1>6
<1>8. \A d \in Client, b \in Account : lists'[d][b] = IF d = c /\ b = a THEN K ELSE lists[d][b]
  BY <1>3, <1>4, <1>5
<1>9. \A d \in Client, b \in Account :
        Known(d, b)' = IF d = c /\ b = a THEN K ELSE Known(d, b)
  BY <1>2, <1>8 DEF Known
<1>10. QED
  BY <1>7, <1>9 DEF K

\* The requests are those for the bundles of each of D.
AsksEach(a, D, requests) ==
  /\ \A d \in D : \E i \in DOMAIN requests : requests[i] = FetchBundle(a, d)
  /\ \A i \in DOMAIN requests : \E d \in D : requests[i] = FetchBundle(a, d)

\* The requests that follow a failed or successful request for all bundles.
LEMMA EachRequest ==
  ASSUME NEW c \in Client, NEW rest, NEW a \in Account, NEW D \in SUBSET Id, FetchEach(c, rest, a, D)
  PROVE  \E requests \in Seq(Requests) : Request(c, rest, requests) /\ AsksEach(a, D, requests)
<1>1. PICK order \in [1 .. Cardinality(D) -> D] :
        /\ \A d \in D : \E i \in DOMAIN order : order[i] = d
        /\ Request(c, rest, [i \in DOMAIN order |-> FetchBundle(a, order[i])])
  BY DEF FetchEach
<1>2. Cardinality(D) \in Nat
  BY DevicesFinite, FS_Subset, FS_CardinalityType
<1> DEFINE requests == [i \in DOMAIN order |-> FetchBundle(a, order[i])]
<1>3. DOMAIN requests = 1 .. Cardinality(D) /\ \A i \in DOMAIN requests : order[i] \in D
  BY <1>1
<1>4. \A i \in DOMAIN requests : requests[i] = FetchBundle(a, order[i]) /\ requests[i] \in Requests
  BY <1>3, OtherRequests
<1>5. requests \in Seq(Requests)
  BY <1>2, <1>3, <1>4
<1>6. \A d \in D : \E i \in DOMAIN requests : requests[i] = FetchBundle(a, d)
  BY <1>1, <1>3, <1>4
<1>7. AsksEach(a, D, requests)
  BY <1>3, <1>4, <1>6 DEF AsksEach
<1>8. QED
  BY <1>1, <1>5, <1>7

\* What an answer leads to: devices D of an account become known and are no
\* longer unfetched, sessions with those found, and requests.
Effect(c, rest, a, D, found, requests) ==
  /\ requests \in Seq(Requests) /\ Request(c, rest, requests)
  /\ lists' \in [Client -> [Account -> (SUBSET Id) \cup {None}]]
  /\ \A d \in Client, b \in Account :
       Known(d, b)' = IF d = c /\ b = a THEN Known(c, a) \cup D ELSE Known(d, b)
  /\ sessions' = [sessions EXCEPT ![c] = @ \cup found]
  /\ unfetched' = [unfetched EXCEPT ![c] = @ \ D]

\* An answer that only leads to requests.
LEMMA OnlyRequests ==
  ASSUME ManagersOK, NEW c \in Client, NEW rest, NEW requests \in Seq(Requests), Request(c, rest, requests),
         UNCHANGED <<lists, sessions, unfetched>>
  PROVE  Effect(c, rest, Own, {}, {}, requests)
<1>1. \A d \in Client, b \in Account : Known(d, b)' = Known(d, b)
  BY DEF Known
<1>2. sessions' = [sessions EXCEPT ![c] = @ \cup {}] /\ unfetched' = [unfetched EXCEPT ![c] = @ \ {}]
  BY DEF ManagersOK
<1>3. lists' \in [Client -> [Account -> (SUBSET Id) \cup {None}]]
  BY DEF ManagersOK
<1>4. \A d \in Client, b \in Account :
        Known(d, b)' = IF d = c /\ b = Own THEN Known(c, Own) \cup {} ELSE Known(d, b)
  BY <1>1
<1>5. QED
  BY <1>2, <1>3, <1>4 DEF Effect

\* The devices of items.
LEMMA AllType == ASSUME NEW items \in SUBSET Item PROVE AllDevices(items) \subseteq Id
BY DEF AllDevices, Item

\* The own list at a login.
LEMMA OwnListDoes ==
  ASSUME ManagersOK, NEW c \in Client, NEW rest, NEW r \in Requests, NEW s \in Stanza,
         s.kind # "live", s.id = r.id, OwnListComes(c, rest, r, s)
  PROVE  /\ s.payload \in SUBSET Item /\ r.entry.jid = Own
         /\ \E requests :
              /\ Effect(c, rest, Own, AllDevices(s.payload) \cup {c}, {}, requests)
              /\ requests[1] = PublishList(AllDevices(s.payload) \cup {c}, "merged")
              /\ requests[2] = IF Cardinality(s.payload) > 1 THEN Purge(AllDevices(s.payload) \cup {c})
                               ELSE PublishList(AllDevices(s.payload) \cup {c}, "v0")
              /\ requests[3] = FetchBundles(Own) /\ Len(requests) = 3
<1> DEFINE D == AllDevices(s.payload) \cup {c}
           second == IF Cardinality(s.payload) > 1 THEN Purge(D) ELSE PublishList(D, "v0")
           requests == << PublishList(D, "merged"), second, FetchBundles(Own) >>
<1>1. s.payload \in SUBSET Item
  BY AnswerIs DEF OwnListComes
<1>2. r \in ListRequests /\ r.entry.own
  BY RequestOf DEF OwnListComes
<1>3. r.entry.jid = Own
  BY <1>2, ListIs
<1>4. D \in SUBSET Id
  BY <1>1, AllType DEF Id
<1>5. /\ Request(c, rest, requests) /\ UpdateDeviceList(c, Own, D)
      /\ Fetched(c, D) /\ UNCHANGED sessions
  <2>1. OwnList(c, rest, s.payload)
    BY DEF OwnListComes
  <2>2. Request(c, rest, requests)
    BY <2>1 DEF OwnList
  <2>3. UpdateDeviceList(c, Own, D)
    BY <2>1 DEF OwnList
  <2>4. Fetched(c, D) /\ UNCHANGED sessions
    BY <2>1 DEF OwnList
  <2>5. QED
    BY <2>2, <2>3, <2>4
<1> HIDE DEF D
<1>6. second \in Requests /\ PublishList(D, "merged") \in Requests /\ FetchBundles(Own) \in Requests
  BY <1>4, PublishRequest, OtherRequests DEF Account
<1> HIDE DEF second
<1>7. requests \in Seq(Requests)
  BY <1>6
<1>8. requests[1] = PublishList(D, "merged") /\ requests[2] = second /\ requests[3] = FetchBundles(Own) /\ Len(requests) = 3
  OBVIOUS
<1> HIDE DEF requests
<1>9. Own \in Account
  BY DEF Account
<1>10. /\ lists' \in [Client -> [Account -> (SUBSET Id) \cup {None}]]
       /\ \A d \in Client, b \in Account :
            Known(d, b)' = IF d = c /\ b = Own THEN Known(c, Own) \cup D ELSE Known(d, b)
  BY <1>4, <1>5, <1>9, UpdateType
<1>11. sessions' = [sessions EXCEPT ![c] = @ \cup {}] /\ unfetched' = [unfetched EXCEPT ![c] = @ \ D]
  BY <1>5 DEF ManagersOK, Fetched
<1>12. Effect(c, rest, Own, D, {}, requests)
  BY <1>5, <1>7, <1>10, <1>11 DEF Effect
<1>13. QED
  BY <1>1, <1>3, <1>8, <1>12 DEF D, second

\* Any other list.
LEMMA ListDoes ==
  ASSUME ManagersOK, NEW c \in Client, NEW rest, NEW r \in Requests, NEW s \in Stanza,
         s.kind # "live", s.id = r.id, ListComes(c, rest, r, s)
  PROVE  /\ s.payload \in SUBSET Item /\ r.entry.jid \in Account
         /\ \E requests :
              /\ Effect(c, rest, r.entry.jid, AllDevices(s.payload), {}, requests)
              /\ \A i \in DOMAIN requests : requests[i] = FetchBundles(r.entry.jid)
              /\ AllDevices(s.payload) # {} => Len(requests) = 1
<1> DEFINE D == AllDevices(s.payload)
<1>1. s.payload \in SUBSET Item
  BY AnswerIs DEF ListComes
<1>2. r \in ListRequests
  BY RequestOf DEF ListComes
<1>3. PICK a \in Account : r.entry.jid = a
  BY <1>2, ListIs
<1>4. D \in SUBSET Id
  BY <1>1, AllType
<1>5. OtherList(c, rest, a, s.payload)
  BY <1>3 DEF ListComes
<1>6. CASE D = {}
  <2>1. Request(c, rest, <<>>) /\ UNCHANGED <<lists, sessions, unfetched>>
    BY <1>5, <1>6 DEF OtherList
  <2>2. <<>> \in Seq(Requests)
    OBVIOUS
  <2>3. Effect(c, rest, Own, {}, {}, <<>>)
    BY <2>1, <2>2, OnlyRequests
  <2>4. Effect(c, rest, a, {}, {}, <<>>)
    BY <2>3 DEF Effect
  <2>5. QED
    BY <1>1, <1>3, <1>6, <2>4
<1>7. CASE D # {}
  <2>1. /\ Request(c, rest, << FetchBundles(a) >>) /\ UpdateDeviceList(c, a, D)
        /\ Fetched(c, D) /\ UNCHANGED sessions
    BY <1>5, <1>7 DEF OtherList
  <2> HIDE DEF D
  <2>2. << FetchBundles(a) >> \in Seq(Requests)
    BY OtherRequests
  <2>3. /\ lists' \in [Client -> [Account -> (SUBSET Id) \cup {None}]]
        /\ \A d \in Client, b \in Account :
             Known(d, b)' = IF d = c /\ b = a THEN Known(c, a) \cup D ELSE Known(d, b)
    BY <1>4, <2>1, UpdateType
  <2>4. sessions' = [sessions EXCEPT ![c] = @ \cup {}] /\ unfetched' = [unfetched EXCEPT ![c] = @ \ D]
    BY <2>1 DEF ManagersOK, Fetched
  <2>5. Effect(c, rest, a, D, {}, << FetchBundles(a) >>)
    BY <2>1, <2>2, <2>3, <2>4 DEF Effect
  <2>6. \A i \in DOMAIN << FetchBundles(a) >> : << FetchBundles(a) >>[i] = FetchBundles(a)
    OBVIOUS
  <2>7. Len(<< FetchBundles(a) >>) = 1
    OBVIOUS
  <2>8. QED
    BY <1>1, <1>3, <2>5, <2>6, <2>7 DEF D
<1>8. QED
  BY <1>6, <1>7

\* No list.
LEMMA NoListDoes ==
  ASSUME ManagersOK, NEW c \in Client, NEW rest, NEW r \in Requests, NEW s \in Stanza,
         NoListComes(c, rest, r, s)
  PROVE  \E requests :
           /\ Effect(c, rest, Own, {}, {}, requests)
           /\ IF r.entry.own /\ s.condition = "item-not-found"
              THEN requests = << PublishList({c}, "merged"), PublishList({c}, "v0") >>
              ELSE requests = <<>>
<1> DEFINE requests == IF r.entry.own /\ s.condition = "item-not-found"
                       THEN << PublishList({c}, "merged"), PublishList({c}, "v0") >> ELSE <<>>
<1>1. Request(c, rest, requests) /\ UNCHANGED <<lists, sessions, unfetched>>
  BY DEF NoListComes, NoList
<1>2. PublishList({c}, "merged") \in Requests /\ PublishList({c}, "v0") \in Requests
  BY PublishRequest DEF Id
<1>3. requests \in Seq(Requests)
  BY <1>2
<1>4. Effect(c, rest, Own, {}, {}, requests)
  BY <1>1, <1>3, OnlyRequests
<1>5. QED
  BY <1>4

\* A list that was published.
LEMMA PublishedDoes ==
  ASSUME ManagersOK, NEW c \in Client, NEW rest, NEW r \in Requests, NEW s \in Stanza,
         PublishedComes(c, rest, r, s)
  PROVE  Effect(c, rest, Own, {}, {}, << FetchList(Own, FALSE) >>)
<1>1. FetchList(Own, FALSE) \in Requests
  BY ListRequest DEF Account
<1>2. << FetchList(Own, FALSE) >> \in Seq(Requests)
  BY <1>1, OneRequest
<1>3. QED
  BY <1>2, OnlyRequests DEF PublishedComes, ListPublished

\* A list that was not.
LEMMA RefusedDoes ==
  ASSUME ManagersOK, NEW c \in Client, NEW rest, NEW r \in Requests, NEW s \in Stanza,
         RefusedComes(c, rest, r, s)
  PROVE  IF r.entry.retry \/ s.condition # "precondition-not-met"
         THEN Effect(c, rest, Own, {}, {}, <<>>)
         ELSE \E D \in SUBSET Id :
                /\ D = IF lists[c][Own] = None THEN {c} ELSE lists[c][Own]
                /\ Effect(c, rest, Own, {}, {}, << ConfigureNode(D) >>)
<1> DEFINE D == IF lists[c][Own] = None THEN {c} ELSE lists[c][Own]
<1>1. UNCHANGED <<lists, sessions, unfetched>>
  BY DEF RefusedComes, PublishRefused
<1>2. CASE r.entry.retry \/ s.condition # "precondition-not-met"
  <2>1. Request(c, rest, <<>>)
    BY <1>2 DEF RefusedComes, PublishRefused
  <2>2. <<>> \in Seq(Requests)
    OBVIOUS
  <2>3. QED
    BY <1>1, <1>2, <2>1, <2>2, OnlyRequests
<1>3. CASE ~(r.entry.retry \/ s.condition # "precondition-not-met")
  <2>1. Request(c, rest, << ConfigureNode(D) >>)
    BY <1>3 DEF RefusedComes, PublishRefused
  <2>2. D \in SUBSET Id
    BY DEF ManagersOK, Id, Account
  <2>3. << ConfigureNode(D) >> \in Seq(Requests)
    BY <2>2, OtherRequests
  <2>4. Effect(c, rest, Own, {}, {}, << ConfigureNode(D) >>)
    BY <1>1, <2>1, <2>3, OnlyRequests
  <2>5. QED
    BY <1>3, <2>2, <2>4
<1>4. QED
  BY <1>2, <1>3

\* A node that was emptied.
LEMMA PurgedDoes ==
  ASSUME ManagersOK, NEW c \in Client, NEW rest, NEW r \in Requests, NEW s \in Stanza,
         PurgedComes(c, rest, r, s)
  PROVE  /\ r.entry.devices \in SUBSET Id
         /\ Effect(c, rest, Own, {}, {}, << PublishList(r.entry.devices, "v0") >>)
<1>1. r \in PurgeRequests
  BY RequestOf DEF PurgedComes
<1>2. PICK D \in SUBSET Id : r.entry.devices = D
  BY <1>1, PurgeIs
<1>3. << PublishList(D, "v0") >> \in Seq(Requests)
  BY PublishRequest
<1>4. Request(c, rest, << PublishList(D, "v0") >>) /\ UNCHANGED <<lists, sessions, unfetched>>
  BY <1>2 DEF PurgedComes, PublishAnyway
<1>5. QED
  BY <1>2, <1>3, <1>4, OnlyRequests

\* A node that was configured.
LEMMA ConfiguredDoes ==
  ASSUME ManagersOK, NEW c \in Client, NEW rest, NEW r \in Requests, NEW s \in Stanza,
         ConfiguredComes(c, rest, r, s)
  PROVE  /\ r.entry.devices \in SUBSET Id
         /\ Effect(c, rest, Own, {}, {}, << PublishList(r.entry.devices, "retry") >>)
<1>1. r \in ConfigureRequests
  BY RequestOf DEF ConfiguredComes
<1>2. PICK D \in SUBSET Id : r.entry.devices = D
  BY <1>1, ConfigureIs
<1>3. << PublishList(D, "retry") >> \in Seq(Requests)
  BY PublishRequest
<1>4. Request(c, rest, << PublishList(D, "retry") >>) /\ UNCHANGED <<lists, sessions, unfetched>>
  BY <1>2 DEF ConfiguredComes, PublishAnyway
<1>5. QED
  BY <1>2, <1>3, <1>4, OnlyRequests

\* All bundles of an account.
LEMMA BundlesDoes ==
  ASSUME ManagersOK, NEW c \in Client, NEW rest, NEW r \in Requests, NEW s \in Stanza,
         s.kind # "live", s.id = r.id, BundlesCome(c, rest, r, s)
  PROVE  /\ r.entry.jid \in Account
         /\ \E requests \in Seq(Requests), found \in SUBSET Id :
              /\ Effect(c, rest, Own, {}, found, requests)
              /\ AsksEach(r.entry.jid, (Known(c, r.entry.jid) \ {c}) \ found, requests)
<1> DEFINE found == IF s.kind = "result" THEN s.payload ELSE {}
<1>1. found \in SUBSET Id
  BY AnswerIs DEF BundlesCome
<1>2. r \in BundlesRequests
  BY RequestOf DEF BundlesCome
<1>3. PICK a \in Account : r.entry.jid = a
  BY <1>2, BundlesIs
<1>4. BundlesFound(c, rest, a, found)
  BY <1>3 DEF BundlesCome
<1> HIDE DEF found
<1> DEFINE D == (Known(c, a) \ {c}) \ found
<1>5. D \in SUBSET Id
  BY KnownType
<1>6. /\ sessions' = [sessions EXCEPT ![c] = @ \cup found] /\ FetchEach(c, rest, a, D)
      /\ UNCHANGED <<lists, unfetched>>
  BY <1>4 DEF BundlesFound
<1>7. PICK requests \in Seq(Requests) : Request(c, rest, requests) /\ AsksEach(a, D, requests)
  <2> HIDE DEF D
  <2>1. QED
    BY <1>3, <1>5, <1>6, EachRequest
<1>8. /\ lists' \in [Client -> [Account -> (SUBSET Id) \cup {None}]]
      /\ \A d \in Client, b \in Account :
           Known(d, b)' = IF d = c /\ b = Own THEN Known(c, Own) \cup {} ELSE Known(d, b)
  BY <1>6 DEF Known, ManagersOK
<1>9. unfetched' = [unfetched EXCEPT ![c] = @ \ {}]
  BY <1>6 DEF ManagersOK
<1>10. Effect(c, rest, Own, {}, found, requests)
  BY <1>6, <1>7, <1>8, <1>9 DEF Effect
<1>11. QED
  BY <1>1, <1>3, <1>7, <1>10

\* Sessions with those found.
LEMMA BundleDoes ==
  ASSUME ManagersOK, NEW c \in Client, NEW rest, NEW r \in Requests, NEW found \in SUBSET Id,
         BundleFound(c, rest, found)
  PROVE  Effect(c, rest, Own, {}, found, <<>>)
<1>1. /\ lists' \in [Client -> [Account -> (SUBSET Id) \cup {None}]]
      /\ \A d \in Client, b \in Account :
           Known(d, b)' = IF d = c /\ b = Own THEN Known(c, Own) \cup {} ELSE Known(d, b)
  BY DEF Known, ManagersOK, BundleFound
<1>2. unfetched' = [unfetched EXCEPT ![c] = @ \ {}]
  BY DEF ManagersOK, BundleFound
<1>3. <<>> \in Seq(Requests)
  OBVIOUS
<1>4. QED
  BY <1>1, <1>2, <1>3 DEF Effect, BundleFound

\* The bundle of one device.
LEMMA BundleComesDoes ==
  ASSUME ManagersOK, NEW c \in Client, NEW rest, NEW r \in Requests, NEW s \in Stanza,
         BundleComes(c, rest, r, s)
  PROVE  /\ r.entry.device \in Id
         /\ Effect(c, rest, Own, {}, IF s.kind = "result" THEN {r.entry.device} ELSE {}, <<>>)
<1>1. r \in BundleRequests
  BY RequestOf DEF BundleComes
<1>2. r.entry.device \in Id
  BY <1>1, BundleIs
<1>3. QED
  BY <1>2, BundleDoes DEF BundleComes

\* The effect of an answer has its types.
LEMMA EffectType ==
  ASSUME ManagersOK, TablesOK, RequestsOK, NEW c \in Client, NEW s, NEW a, NEW D, NEW found \in SUBSET Id,
         NEW requests, Effect(c, Rest(c, s), a, D, found, requests)
  PROVE  ManagersOK' /\ TablesOK' /\ RequestsOK'
<1>1. Entered(Rest(c, s))
  BY DEF TablesOK, Entered, Rest, Restrict
<1>2. TablesOK' /\ RequestsOK'
  <2>1. requests \in Seq(Requests) /\ Request(c, Rest(c, s), requests)
    BY DEF Effect
  <2>2. QED
    BY <1>1, <2>1, RequestType
<1>3. ManagersOK'
  BY DEF Effect, ManagersOK
<1>4. QED
  BY <1>2, <1>3

\* Each answer has such an effect.
LEMMA ComesDoes ==
  ASSUME ManagersOK, NEW c \in Client, NEW rest, NEW r \in Requests, NEW s \in Stanza,
         s.kind # "live", s.id = r.id, Comes(c, rest, r, s)
  PROVE  \E a, D, found, requests : found \in SUBSET Id /\ Effect(c, rest, a, D, found, requests)
<1>0. {} \in SUBSET Id
  OBVIOUS
<1>1. CASE OwnListComes(c, rest, r, s)
  BY <1>0, <1>1, OwnListDoes
<1>2. CASE ListComes(c, rest, r, s)
  BY <1>0, <1>2, ListDoes
<1>3. CASE NoListComes(c, rest, r, s)
  BY <1>0, <1>3, NoListDoes
<1>4. CASE PublishedComes(c, rest, r, s)
  BY <1>0, <1>4, PublishedDoes
<1>5. CASE RefusedComes(c, rest, r, s)
  BY <1>0, <1>5, RefusedDoes
<1>6. CASE PurgedComes(c, rest, r, s)
  BY <1>0, <1>6, PurgedDoes
<1>7. CASE ConfiguredComes(c, rest, r, s)
  BY <1>0, <1>7, ConfiguredDoes
<1>8. CASE BundlesCome(c, rest, r, s)
  BY <1>8, BundlesDoes
<1>9. CASE BundleComes(c, rest, r, s)
  <2> DEFINE found == IF s.kind = "result" THEN {r.entry.device} ELSE {}
  <2>1. r.entry.device \in Id /\ Effect(c, rest, Own, {}, found, <<>>)
    BY <1>9, BundleComesDoes
  <2>2. found \in SUBSET Id
    BY <2>1
  <2>3. QED
    BY <2>1, <2>2
<1>10. CASE BundlePublishedComes(c, rest, r, s)
  BY <1>0, <1>10, BundleDoes DEF BundlePublishedComes
<1>11. QED
  BY <1>1, <1>2, <1>3, <1>4, <1>5, <1>6, <1>7, <1>8, <1>9, <1>10 DEF Comes

\* A live update adds devices that are not asked for.
LEMMA LiveDoes ==
  ASSUME ManagersOK, NEW c \in Client, NEW D \in SUBSET Id, LiveUpdate(c, D)
  PROVE  /\ ManagersOK' /\ UNCHANGED <<sessions, pending, up>>
         /\ \A d \in Client, b \in Account :
              Known(d, b)' = IF d = c /\ b = Own THEN Known(c, Own) \cup D ELSE Known(d, b)
         /\ unfetched' = [unfetched EXCEPT ![c] = @ \cup (D \ Known(c, Own))]
<1>1. Own \in Account /\ UpdateDeviceList(c, Own, D)
  BY DEF Account, LiveUpdate
<1>2. /\ lists' \in [Client -> [Account -> (SUBSET Id) \cup {None}]]
      /\ \A d \in Client, b \in Account :
           Known(d, b)' = IF d = c /\ b = Own THEN Known(c, Own) \cup D ELSE Known(d, b)
  BY <1>1, UpdateType
<1>3. ManagersOK'
  BY <1>2 DEF LiveUpdate, ManagersOK
<1>4. QED
  BY <1>2, <1>3 DEF LiveUpdate

\* What is left of a queue.
LEMMA TailType ==
  ASSUME NEW S, NEW q \in Seq(S), q # <<>>
  PROVE  /\ Tail(q) \in Seq(S) /\ Head(q) \in S /\ Head(q) = q[1] /\ Len(q) \in Nat /\ Len(q) >= 1
         /\ Len(Tail(q)) = Len(q) - 1
         /\ \A i \in DOMAIN Tail(q) : Tail(q)[i] = q[i + 1] /\ i + 1 \in DOMAIN q
         /\ \A i \in DOMAIN q : i # 1 => i - 1 \in DOMAIN Tail(q) /\ Tail(q)[i - 1] = q[i]
OBVIOUS

\* A client reads a stanza.
LEMMA HandleType ==
  ASSUME TypeOK, NEW c \in Client, HandleStanza(c) PROVE TypeOK'
<1>0. ServerOK /\ ManagersOK /\ TablesOK /\ RequestsOK /\ AnswersOK /\ OnlineOK /\ BudgetOK
  BY DEF TypeOK
<1>1. PICK s \in Stanza :
        /\ Takes(c, s)
        /\ \/ \E D \in SUBSET Id : s = Live(D) /\ LiveUpdate(c, D)
           \/ s.kind # "live" /\ s.id \notin DOMAIN pending[c] /\ Ignored
           \/ \E r \in Requests : Answers(c, s, r) /\ Comes(c, Rest(c, s), r, s)
  BY <1>0, HandleDoes
<1>2. ServerOK' /\ BudgetOK'
  BY <1>0, <1>1 DEF Takes, ServerOK, BudgetOK, serverVars
<1>3. AnswersOK'
  <2>1. down \in [Client -> Seq(Stanza)] /\ down[c] # <<>> /\ down' = [down EXCEPT ![c] = Tail(@)]
    BY <1>0, <1>1 DEF AnswersOK, Takes
  <2>2. Tail(down[c]) \in Seq(Stanza)
    BY <2>1, TailType
  <2>3. QED
    BY <2>1, <2>2 DEF AnswersOK
<1>4. c \in online
  BY <1>0, <1>1 DEF OnlineOK, Takes, Quiet
<1>5. ManagersOK' /\ TablesOK' /\ RequestsOK' /\ \A d \in Client : d # c => up'[d] = up[d]
  <2>1. CASE \E D \in SUBSET Id : s = Live(D) /\ LiveUpdate(c, D)
    <3>1. PICK D \in SUBSET Id : LiveUpdate(c, D)
      BY <2>1
    <3>2. ManagersOK' /\ UNCHANGED <<pending, up>>
      BY <1>0, <3>1, LiveDoes
    <3>3. QED
      BY <1>0, <3>2 DEF TablesOK, RequestsOK, Entered
  <2>2. CASE Ignored
    BY <1>0, <2>2 DEF Ignored, TablesOK, RequestsOK, ManagersOK, Entered
  <2>3. CASE \E r \in Requests : Answers(c, s, r) /\ Comes(c, Rest(c, s), r, s)
    <3>1. PICK r \in Requests : Answers(c, s, r) /\ Comes(c, Rest(c, s), r, s)
      BY <2>3
    <3>2. s.kind # "live" /\ s.id = r.id
      BY <3>1 DEF Answers
    <3>3. PICK a, D, found, requests : found \in SUBSET Id /\ Effect(c, Rest(c, s), a, D, found, requests)
      BY <1>0, <3>1, <3>2, ComesDoes
    <3>4. ManagersOK' /\ TablesOK' /\ RequestsOK'
      BY <1>0, <3>3, EffectType
    <3>5. \A d \in Client : d # c => up'[d] = up[d]
      BY <1>0, <3>3 DEF Effect, Request, RequestsOK
    <3>6. QED
      BY <3>4, <3>5
  <2>4. QED
    BY <1>1, <2>1, <2>2, <2>3
<1>6. OnlineOK'
  <2>1. online' = online /\ \A d \in Client : d # c => down'[d] = down[d]
    BY <1>0, <1>1 DEF Takes, AnswersOK
  <2>2. \A d \in Client \ online' : d # c
    BY <1>4, <2>1
  <2>3. QED
    BY <1>0, <1>5, <2>1, <2>2 DEF OnlineOK, Quiet
<1>7. QED
  BY <1>2, <1>3, <1>5, <1>6 DEF TypeOK

\* The server answers.
LEMMA ServeType ==
  ASSUME TypeOK, NEW c \in Client, Serve(c) PROVE TypeOK'
<1>0. ServerOK /\ ManagersOK /\ TablesOK /\ RequestsOK /\ AnswersOK /\ OnlineOK /\ BudgetOK
  BY DEF TypeOK
<1>1. PICK r \in Requests : Serves(c, r)
  BY <1>0, ServeDoes
<1>2. /\ Answer(r.id, r.op)[1] \in Stanza /\ Answer(r.id, r.op)[2] \in Node \cup {None}
  BY <1>0, AnswerType
<1>3. ServerOK'
  <2>1. node' \in [Account -> Node \cup {None}]
    BY <1>0, <1>1, <1>2 DEF Serves, ServerOK
  <2>2. bundles' \subseteq {"account", "device"} \X Id
    BY <1>0, <1>1 DEF Serves, ServerOK, BundleNodes, Id
  <2>3. QED
    BY <1>0, <1>1, <2>1, <2>2 DEF Serves, ServerOK
<1>4. RequestsOK'
  <2> DEFINE T == {Sent(x) : x \in Requests}
  <2>1. up \in [Client -> Seq(T)] /\ up[c] # <<>> /\ up' = [up EXCEPT ![c] = Tail(@)]
    BY <1>0, <1>1 DEF RequestsOK, Serves
  <2> HIDE DEF T
  <2>2. Tail(up[c]) \in Seq(T)
    BY <2>1, TailType
  <2>3. up' \in [Client -> Seq(T)]
    BY <2>1, <2>2
  <2>4. QED
    BY <2>3 DEF T, RequestsOK
<1>5. \A d \in Client : Event(d, r) \in Seq(Stanza) /\ Reply(c, d, r) \in Seq(Stanza)
  <2>1. \A d : Told(d, r) => Live(r.op.devices) \in Stanza
    <3>1. SUFFICES ASSUME r.op.name = "publish" PROVE Live(r.op.devices) \in Stanza
      BY DEF Told
    <3>2. r \in PublishRequests
      BY <3>1, RequestOf
    <3>3. PICK D \in SUBSET Id : r.op.devices = D
      BY <3>2, PublishIs
    <3>4. QED
      BY <3>3 DEF Stanza
  <2>2. \A d : Event(d, r) \in Seq(Stanza)
    <3>1. TAKE d
    <3>2. CASE Told(d, r)
      <4>1. Live(r.op.devices) \in Stanza
        BY <2>1, <3>2
      <4>2. QED
        BY <3>2, <4>1 DEF Event
    <3>3. CASE ~Told(d, r)
      BY <3>3 DEF Event
    <3>4. QED
      BY <3>2, <3>3
  <2>3. \A d : Reply(c, d, r) \in Seq(Stanza)
    BY <1>2 DEF Reply
  <2>4. QED
    BY <2>2, <2>3
<1>6. AnswersOK'
  <2>1. down' = [d \in Client |-> down[d] \o Event(d, r) \o Reply(c, d, r)]
    BY <1>1 DEF Serves
  <2>2. \A d \in Client : down[d] \o Event(d, r) \o Reply(c, d, r) \in Seq(Stanza)
    <3>1. TAKE d \in Client
    <3>2. down[d] \in Seq(Stanza)
      BY <1>0 DEF AnswersOK
    <3>3. down[d] \o Event(d, r) \in Seq(Stanza)
      BY <1>5, <3>2
    <3>4. QED
      BY <1>5, <3>3
  <2>3. QED
    BY <2>1, <2>2 DEF AnswersOK
<1>7. OnlineOK'
  <2>1. c \in online
    BY <1>0, <1>1 DEF Serves, OnlineOK, Quiet
  <2>2. ASSUME NEW d \in Client \ online PROVE up'[d] = <<>> /\ down'[d] = <<>>
    <3>1. d # c /\ up[d] = <<>> /\ down[d] = <<>>
      BY <1>0, <2>1, <2>2 DEF OnlineOK, Quiet
    <3>2. Event(d, r) = <<>> /\ Reply(c, d, r) = <<>>
      BY <2>2, <3>1 DEF Event, Told, Reply
    <3>3. down'[d] = (<<>> \o <<>>) \o <<>>
      BY <1>1, <2>2, <3>1, <3>2 DEF Serves
    <3>4. (<<>> \o <<>>) \o <<>> = <<>>
      OBVIOUS
    <3>5. up'[d] = up[d]
      BY <1>0, <1>1, <2>2, <3>1 DEF Serves, RequestsOK
    <3>6. QED
      BY <3>1, <3>3, <3>4, <3>5
  <2>3. online' = online
    BY <1>1 DEF Serves
  <2>4. QED
    BY <1>0, <2>2, <2>3 DEF OnlineOK, Quiet
<1>8. ManagersOK' /\ TablesOK' /\ BudgetOK'
  BY <1>0, <1>1 DEF Serves, ManagersOK, TablesOK, BudgetOK, Entered
<1>9. QED
  BY <1>3, <1>4, <1>6, <1>7, <1>8 DEF TypeOK

\* A login.
LEMMA OnlineType ==
  ASSUME TypeOK, NEW c \in Client, Online(c) PROVE TypeOK'
<1>0. ServerOK /\ ManagersOK /\ TablesOK /\ RequestsOK /\ AnswersOK /\ OnlineOK /\ BudgetOK
  BY DEF TypeOK
<1>1. << PublishBundle, FetchList(Own, TRUE) >> \in Seq(Requests)
  <2>1. PublishBundle \in Requests /\ FetchList(Own, TRUE) \in Requests
    BY ListRequest, OtherRequests
  <2>2. QED
    BY <2>1, TwoRequests
<1>2. Request(c, pending[c], << PublishBundle, FetchList(Own, TRUE) >>) /\ Entered(pending[c])
  BY <1>0 DEF Online, TablesOK
<1>3. TablesOK' /\ RequestsOK'
  BY <1>0, <1>1, <1>2, RequestType
<1>4. ServerOK' /\ ManagersOK' /\ AnswersOK'
  BY <1>0 DEF Online, ServerOK, ManagersOK, AnswersOK, serverVars
<1>5. OnlineOK'
  BY <1>0, <1>2 DEF OnlineOK, Online, Quiet, Request, RequestsOK
<1>6. BudgetOK'
  <2>1. left \in [logins : Nat, selects : Nat, breaks : Nat] /\ left.logins > 0
    BY <1>0 DEF BudgetOK, Online
  <2>2. left' = [left EXCEPT !.logins = @ - 1]
    BY DEF Online
  <2>3. left' \in [logins : Nat, selects : Nat, breaks : Nat]
    BY <2>1, <2>2
  <2>4. disturbed' \subseteq {"overlap", "refetched", "broken"}
    BY <1>0 DEF BudgetOK, Online
  <2>5. QED
    BY <2>3, <2>4 DEF BudgetOK
<1>7. QED
  BY <1>3, <1>4, <1>5, <1>6 DEF TypeOK

\* A conversation is opened.
LEMMA SelectType ==
  ASSUME TypeOK, NEW c \in Client, NEW a \in Account, SelectConversation(c, a) PROVE TypeOK'
<1>0. ServerOK /\ ManagersOK /\ TablesOK /\ RequestsOK /\ AnswersOK /\ OnlineOK /\ BudgetOK
  BY DEF TypeOK
<1>1. << FetchList(a, FALSE) >> \in Seq(Requests)
  BY ListRequest, OneRequest
<1>2. Request(c, pending[c], << FetchList(a, FALSE) >>) /\ Entered(pending[c])
  BY <1>0 DEF SelectConversation, TablesOK
<1>3. TablesOK' /\ RequestsOK'
  BY <1>0, <1>1, <1>2, RequestType
<1>4. ServerOK' /\ ManagersOK' /\ AnswersOK'
  BY <1>0 DEF SelectConversation, ServerOK, ManagersOK, AnswersOK, serverVars
<1>5. OnlineOK'
  BY <1>0, <1>2 DEF OnlineOK, SelectConversation, Quiet, Request, RequestsOK
<1>6. BudgetOK'
  <2>1. left \in [logins : Nat, selects : Nat, breaks : Nat] /\ left.selects > 0
    BY <1>0 DEF BudgetOK, SelectConversation
  <2>2. left' = [left EXCEPT !.selects = @ - 1]
    BY DEF SelectConversation
  <2>3. left' \in [logins : Nat, selects : Nat, breaks : Nat]
    BY <2>1, <2>2
  <2>4. disturbed' \subseteq {"overlap", "refetched", "broken"}
    BY <1>0 DEF BudgetOK, SelectConversation
  <2>5. QED
    BY <2>3, <2>4 DEF BudgetOK
<1>7. QED
  BY <1>3, <1>4, <1>5, <1>6 DEF TypeOK

\* A stream ends.
LEMMA BreaksType ==
  ASSUME TypeOK, NEW c \in Client, Breaks(c), UNCHANGED pending \/ pending' = [pending EXCEPT ![c] = <<>>]
  PROVE  TypeOK'
<1>0. ServerOK /\ ManagersOK /\ TablesOK /\ RequestsOK /\ AnswersOK /\ OnlineOK /\ BudgetOK
  BY DEF TypeOK
<1>1. TablesOK'
  BY <1>0 DEF TablesOK, Entered
<1>2. RequestsOK' /\ AnswersOK'
  BY <1>0 DEF Breaks, RequestsOK, AnswersOK
<1>3. ServerOK'
  BY <1>0 DEF Breaks, ServerOK, serverVars
<1>4. ManagersOK'
  <2>1. AllKnown(c) \subseteq Id
    BY <1>0, KnownType DEF AllKnown
  <2>2. QED
    BY <1>0, <2>1 DEF Breaks, ManagersOK
<1>5. OnlineOK'
  BY <1>0 DEF OnlineOK, Breaks, Quiet, RequestsOK, AnswersOK
<1>6. BudgetOK'
  <2>1. left \in [logins : Nat, selects : Nat, breaks : Nat] /\ left.breaks > 0
    BY <1>0 DEF BudgetOK, Breaks
  <2>2. left' = [left EXCEPT !.breaks = @ - 1]
    BY DEF Breaks
  <2>3. left' \in [logins : Nat, selects : Nat, breaks : Nat]
    BY <2>1, <2>2
  <2>4. disturbed' \subseteq {"overlap", "refetched", "broken"}
    BY <1>0 DEF BudgetOK, Breaks
  <2>5. QED
    BY <2>3, <2>4 DEF BudgetOK
<1>7. QED
  BY <1>1, <1>2, <1>3, <1>4, <1>5, <1>6 DEF TypeOK

\* Every step keeps the types.
LEMMA NextType ==
  ASSUME TypeOK, [Next]_vars PROVE TypeOK'
<1>1. CASE UNCHANGED vars
  BY <1>1 DEF vars, serverVars, TypeOK, ServerOK, ManagersOK, TablesOK, Entered, RequestsOK, AnswersOK,
                OnlineOK, Quiet, BudgetOK
<1>2. CASE Next
  <2>1. PICK c \in Client :
          \/ Online(c) \/ StreamLost(c) \/ Logout(c)
          \/ \E a \in Account : SelectConversation(c, a)
          \/ Serve(c) \/ HandleStanza(c)
    BY <1>2 DEF Next
  <2>2. CASE Online(c)
    BY <2>2, OnlineType
  <2>3. CASE StreamLost(c)
    BY <2>3, BreaksType DEF StreamLost
  <2>4. CASE Logout(c)
    BY <2>4, BreaksType DEF Logout
  <2>5. CASE \E a \in Account : SelectConversation(c, a)
    BY <2>5, SelectType
  <2>6. CASE Serve(c)
    BY <2>6, ServeType
  <2>7. CASE HandleStanza(c)
    BY <2>7, HandleType
  <2>8. QED
    BY <2>1, <2>2, <2>3, <2>4, <2>5, <2>6, <2>7
<1>3. QED
  BY <1>1, <1>2

\* The tables of requests, what is on the streams, and what the managers know
\* keep their types; who is not connected has nothing on its stream.
THEOREM TypeCorrect == Spec => []TypeOK
<1>1. Init => TypeOK
  BY InitType
<1>2. TypeOK /\ [Next]_vars => TypeOK'
  BY NextType
<1>3. QED
  BY <1>1, <1>2, PTL DEF Spec

-----------------------------------------------------------------------------
\* KnowsListed: what the list of the own account names, every client that is
\* connected knows, or is about to be told: by a live update on its stream, or
\* by the answer to a request for the list that its table still waits for.

OwnListId == <<"devicelist", Own>>

IsListAnswer(s) == s.kind # "live" /\ s.id = OwnListId

\* The first answer on a stream that has the own list names d.
FirstNames(q, d) ==
  \E i \in DOMAIN q :
    /\ IsListAnswer(q[i]) /\ q[i].kind = "result" /\ d \in AllDevices(q[i].payload)
    /\ \A j \in DOMAIN q : j < i => ~IsListAnswer(q[j])

NoListOn(q) == \A i \in DOMAIN q : ~IsListAnswer(q[i])

RequestOn(u, id) == \E i \in DOMAIN u : u[i].id = id

LiveOn(q, d) == \E i \in DOMAIN q : q[i].kind = "live" /\ d \in q[i].devices

ToBeTold(table, u, q, d) ==
  \/ LiveOn(q, d)
  \/ OwnListId \in DOMAIN table /\ (FirstNames(q, d) \/ (NoListOn(q) /\ RequestOn(u, OwnListId)))

Informed(c, d) == d \in Known(c, Own) \/ ToBeTold(pending[c], up[c], down[c], d)

ListedInv ==
  server.live => \A c \in online, d \in Devices(node[Own]) : Informed(c, d)

\* What a client knows or is to be told, now and after a step.
LEMMA InformedIs ==
  ASSUME NEW c, NEW d
  PROVE  /\ Informed(c, d) <=>
              \/ d \in Known(c, Own)
              \/ LiveOn(down[c], d)
              \/ OwnListId \in DOMAIN pending[c] /\ FirstNames(down[c], d)
              \/ OwnListId \in DOMAIN pending[c] /\ NoListOn(down[c]) /\ RequestOn(up[c], OwnListId)
         /\ Informed(c, d)' <=>
              \/ d \in Known(c, Own)'
              \/ LiveOn(down'[c], d)
              \/ OwnListId \in DOMAIN pending'[c] /\ FirstNames(down'[c], d)
              \/ OwnListId \in DOMAIN pending'[c] /\ NoListOn(down'[c]) /\ RequestOn(up'[c], OwnListId)
<1>1. ToBeTold(pending[c], up[c], down[c], d)' = ToBeTold(pending'[c], up'[c], down'[c], d)
  OBVIOUS
<1>2. Informed(c, d)' <=> d \in Known(c, Own)' \/ ToBeTold(pending'[c], up'[c], down'[c], d)
  BY <1>1 DEF Informed
<1>3. Informed(c, d) <=> d \in Known(c, Own) \/ ToBeTold(pending[c], up[c], down[c], d)
  BY DEF Informed
<1>4. QED
  BY <1>2, <1>3 DEF ToBeTold

\* The own list's id is that of requests for it.
LEMMA OwnListIdIs ==
  ASSUME NEW r \in Requests
  PROVE  r.id = OwnListId <=> r.op.name = "list" /\ r.op.jid = Own
<1>1. FetchList(Own, FALSE) \in Requests /\ FetchList(Own, FALSE).id = OwnListId
      /\ FetchList(Own, FALSE).op.name = "list" /\ FetchList(Own, FALSE).op.jid = Own
  BY ListRequest DEF Account, FetchList, OwnListId
<1>2. ASSUME r.id = OwnListId PROVE r.op.name = "list" /\ r.op.jid = Own
  BY <1>1, <1>2, SameId
<1>3. ASSUME r.op.name = "list", r.op.jid = Own PROVE r.id = OwnListId
  <2>1. r \in ListRequests
    BY <1>3, RequestOf
  <2>2. PICK a \in Account : r.id = <<"devicelist", a>> /\ r.op.jid = a
    BY <2>1, ListIs
  <2>3. QED
    BY <1>3, <2>2 DEF OwnListId
<1>4. QED
  BY <1>2, <1>3

\* More on a stream: what is told stays told.
LEMMA ToldLonger ==
  ASSUME NEW q \in Seq(Stanza), NEW more \in Seq(Stanza), NEW table, NEW u, NEW d
  PROVE  /\ LiveOn(q, d) => LiveOn(q \o more, d)
         /\ LiveOn(more, d) => LiveOn(q \o more, d)
         /\ FirstNames(q, d) => FirstNames(q \o more, d)
         /\ NoListOn(q) /\ FirstNames(more, d) => FirstNames(q \o more, d)
         /\ NoListOn(q) /\ NoListOn(more) => NoListOn(q \o more)
<1> DEFINE qm == q \o more
<1>1. /\ Len(q) \in Nat /\ Len(more) \in Nat
      /\ DOMAIN q = 1 .. Len(q) /\ DOMAIN more = 1 .. Len(more) /\ DOMAIN qm = 1 .. Len(q) + Len(more)
      /\ \A i \in DOMAIN q : i \in DOMAIN qm /\ qm[i] = q[i]
      /\ \A i \in DOMAIN more : Len(q) + i \in DOMAIN qm /\ qm[Len(q) + i] = more[i]
  OBVIOUS
<1>2. \A i \in DOMAIN qm : \/ i \in DOMAIN q /\ qm[i] = q[i]
                           \/ i > Len(q) /\ i - Len(q) \in DOMAIN more /\ qm[i] = more[i - Len(q)]
  OBVIOUS
<1> HIDE DEF qm
<1>3. LiveOn(q, d) => LiveOn(qm, d)
  BY <1>1 DEF LiveOn
<1>4. LiveOn(more, d) => LiveOn(qm, d)
  BY <1>1 DEF LiveOn
<1>5. ASSUME FirstNames(q, d) PROVE FirstNames(qm, d)
  <2>1. PICK i \in DOMAIN q :
          /\ IsListAnswer(q[i]) /\ q[i].kind = "result" /\ d \in AllDevices(q[i].payload)
          /\ \A j \in DOMAIN q : j < i => ~IsListAnswer(q[j])
    BY <1>5 DEF FirstNames
  <2>2. i \in DOMAIN qm /\ qm[i] = q[i]
    BY <1>1
  <2>3. \A j \in DOMAIN qm : j < i => j \in DOMAIN q /\ qm[j] = q[j]
    BY <1>1
  <2>4. \A j \in DOMAIN qm : j < i => ~IsListAnswer(qm[j])
    BY <2>1, <2>3
  <2>5. QED
    BY <2>1, <2>2, <2>4 DEF FirstNames
<1>6. ASSUME NoListOn(q), FirstNames(more, d) PROVE FirstNames(qm, d)
  <2>1. PICK i \in DOMAIN more :
          /\ IsListAnswer(more[i]) /\ more[i].kind = "result" /\ d \in AllDevices(more[i].payload)
          /\ \A j \in DOMAIN more : j < i => ~IsListAnswer(more[j])
    BY <1>6 DEF FirstNames
  <2> DEFINE k == Len(q) + i
  <2>2. k \in DOMAIN qm /\ qm[k] = more[i]
    BY <1>1
  <2>3. ASSUME NEW j \in DOMAIN qm, j < k PROVE ~IsListAnswer(qm[j])
    <3>1. CASE j \in DOMAIN q /\ qm[j] = q[j]
      BY <1>6, <3>1 DEF NoListOn
    <3>2. CASE j > Len(q) /\ j - Len(q) \in DOMAIN more /\ qm[j] = more[j - Len(q)]
      <4>1. j - Len(q) < i
        BY <1>1, <2>3, <3>2
      <4>2. QED
        BY <2>1, <3>2, <4>1
    <3>3. QED
      BY <1>2, <3>1, <3>2
  <2> HIDE DEF k
  <2>4. QED
    BY <2>1, <2>2, <2>3 DEF FirstNames
<1>7. ASSUME NoListOn(q), NoListOn(more) PROVE NoListOn(qm)
  BY <1>2, <1>7 DEF NoListOn
<1>8. QED
  BY <1>3, <1>4, <1>5, <1>6, <1>7 DEF qm

\* The first stanza is taken, and it was not the one that tells.
LEMMA ToldTail ==
  ASSUME NEW q \in Seq(Stanza), q # <<>>, NEW d
  PROVE  /\ LiveOn(q, d) => LiveOn(Tail(q), d) \/ (Head(q).kind = "live" /\ d \in Head(q).devices)
         /\ FirstNames(q, d) =>
              \/ IsListAnswer(Head(q)) /\ Head(q).kind = "result" /\ d \in AllDevices(Head(q).payload)
              \/ ~IsListAnswer(Head(q)) /\ FirstNames(Tail(q), d)
         /\ NoListOn(q) => NoListOn(Tail(q)) /\ ~IsListAnswer(Head(q))
<1> DEFINE t == Tail(q)
<1>1. /\ Head(q) = q[1] /\ 1 \in DOMAIN q /\ DOMAIN q = 1 .. Len(q) /\ Len(q) \in Nat
      /\ \A i \in DOMAIN t : t[i] = q[i + 1] /\ i + 1 \in DOMAIN q
      /\ \A i \in DOMAIN q : i # 1 => i - 1 \in DOMAIN t /\ t[i - 1] = q[i]
      /\ DOMAIN t \subseteq Nat
  BY TailType
<1> HIDE DEF t
<1>2. ASSUME LiveOn(q, d) PROVE LiveOn(t, d) \/ (Head(q).kind = "live" /\ d \in Head(q).devices)
  BY <1>1, <1>2 DEF LiveOn
<1>3. ASSUME FirstNames(q, d)
      PROVE  \/ IsListAnswer(Head(q)) /\ Head(q).kind = "result" /\ d \in AllDevices(Head(q).payload)
             \/ ~IsListAnswer(Head(q)) /\ FirstNames(t, d)
  <2>1. PICK i \in DOMAIN q :
          /\ IsListAnswer(q[i]) /\ q[i].kind = "result" /\ d \in AllDevices(q[i].payload)
          /\ \A j \in DOMAIN q : j < i => ~IsListAnswer(q[j])
    BY <1>3 DEF FirstNames
  <2>2. CASE i = 1
    BY <1>1, <2>1, <2>2
  <2>3. CASE i # 1
    <3>1. ~IsListAnswer(Head(q))
      BY <1>1, <2>1, <2>3
    <3>2. i - 1 \in DOMAIN t /\ t[i - 1] = q[i]
      BY <1>1, <2>3
    <3>3. ASSUME NEW j \in DOMAIN t, j < i - 1 PROVE ~IsListAnswer(t[j])
      <4>1. t[j] = q[j + 1] /\ j + 1 \in DOMAIN q /\ j + 1 < i
        BY <1>1, <3>3
      <4>2. QED
        BY <2>1, <4>1
    <3> DEFINE k == i - 1
    <3>4. k \in DOMAIN t /\ t[k] = q[i] /\ \A j \in DOMAIN t : j < k => ~IsListAnswer(t[j])
      BY <3>2, <3>3
    <3> HIDE DEF k
    <3>5. FirstNames(t, d)
      BY <2>1, <3>4 DEF FirstNames
    <3>6. QED
      BY <3>1, <3>5
  <2>4. QED
    BY <2>2, <2>3
<1>4. ASSUME NoListOn(q) PROVE NoListOn(t) /\ ~IsListAnswer(Head(q))
  BY <1>1, <1>4 DEF NoListOn
<1>5. QED
  BY <1>2, <1>3, <1>4 DEF t

\* A request more or less does not take the entries of others.
LEMMA RequestKeeps ==
  ASSUME TablesOK, RequestsOK, NEW c \in Client, NEW table, NEW requests \in Seq(Requests), Request(c, table, requests)
  PROVE  /\ \A d \in Client : d # c => pending'[d] = pending[d] /\ up'[d] = up[d]
         /\ DOMAIN table \subseteq DOMAIN pending'[c]
         /\ \A i \in DOMAIN requests : requests[i].id \in DOMAIN pending'[c]
         /\ up'[c] = up[c] \o Stanzas(requests)
<1>1. pending' = [pending EXCEPT ![c] = Added(table, requests)] /\ up' = [up EXCEPT ![c] = @ \o Stanzas(requests)]
  BY DEF Request, Stanzas
<1>2. pending'[c] = Added(table, requests) /\ up'[c] = up[c] \o Stanzas(requests)
  BY <1>1 DEF TablesOK, RequestsOK
<1>3. HasAlso(Added(table, requests), table, requests)
  BY AddedIs
<1>4. \A d \in Client : d # c => pending'[d] = pending[d] /\ up'[d] = up[d]
  BY <1>1 DEF TablesOK, RequestsOK
<1>5. QED
  BY <1>2, <1>3, <1>4 DEF HasAlso

\* More requests on a stream.
LEMMA AsksLonger ==
  ASSUME NEW u \in Seq({Sent(r) : r \in Requests}), NEW requests \in Seq(Requests), NEW id
  PROVE  /\ RequestOn(u, id) => RequestOn(u \o Stanzas(requests), id)
         /\ \A i \in DOMAIN requests : requests[i].id = id => RequestOn(u \o Stanzas(requests), id)
<1> DEFINE v == u \o Stanzas(requests)
           T == {Sent(r) : r \in Requests}
<1>1. Stanzas(requests) \in Seq(T) /\ Len(Stanzas(requests)) = Len(requests)
      /\ \A i \in DOMAIN requests : Stanzas(requests)[i] = Sent(requests[i])
  BY StanzasAre
<1>2. DOMAIN requests = 1 .. Len(requests) /\ Len(requests) \in Nat
  OBVIOUS
<1> HIDE DEF T
<1>3. u \in Seq(T)
  BY DEF T
<1>4. /\ \A i \in DOMAIN u : i \in DOMAIN v /\ v[i] = u[i]
      /\ \A i \in DOMAIN requests : Len(u) + i \in DOMAIN v /\ v[Len(u) + i] = Sent(requests[i])
  BY <1>1, <1>2, <1>3
<1> HIDE DEF v
<1>5. \A i \in DOMAIN requests : Sent(requests[i]).id = requests[i].id
  BY DEF Sent
<1>6. QED
  BY <1>4, <1>5 DEF RequestOn, v

\* The same of the stream of the client that makes them.
LEMMA AsksMore ==
  ASSUME TablesOK, RequestsOK, NEW c \in Client, NEW table, NEW requests \in Seq(Requests),
         Request(c, table, requests), NEW id
  PROVE  /\ RequestOn(up[c], id) => RequestOn(up'[c], id)
         /\ \A i \in DOMAIN requests : requests[i].id = id => RequestOn(up'[c], id)
<1>1. PICK u \in Seq({Sent(r) : r \in Requests}) : u = up[c]
  BY DEF RequestsOK
<1>2. up'[c] = u \o Stanzas(requests)
  BY <1>1, RequestKeeps
<1>3. /\ RequestOn(u, id) => RequestOn(u \o Stanzas(requests), id)
      /\ \A i \in DOMAIN requests : requests[i].id = id => RequestOn(u \o Stanzas(requests), id)
  BY AsksLonger
<1>4. QED
  BY <1>1, <1>2, <1>3

\* What a client was told or is to be told stays so when it makes requests.
LEMMA InformedStays ==
  ASSUME TypeOK, NEW c \in Client, NEW table, NEW requests \in Seq(Requests), Request(c, table, requests),
         NEW d, OwnListId \in DOMAIN pending[c] => OwnListId \in DOMAIN table, UNCHANGED <<lists, down>>
  PROVE  Informed(c, d) => Informed(c, d)'
<1>0. TablesOK /\ RequestsOK
  BY DEF TypeOK
<1>1. DOMAIN table \subseteq DOMAIN pending'[c]
  BY <1>0, RequestKeeps
<1>3. RequestOn(up[c], OwnListId) => RequestOn(up'[c], OwnListId)
  BY <1>0, AsksMore
<1>4. Known(c, Own)' = Known(c, Own)
  BY DEF Known
<1>5. QED
  BY <1>1, <1>3, <1>4 DEF Informed, ToBeTold

\* Nothing happens to a client.
LEMMA InformedRests ==
  ASSUME NEW c, NEW d, pending'[c] = pending[c], up'[c] = up[c], down'[c] = down[c],
         Known(c, Own)' = Known(c, Own)
  PROVE  Informed(c, d) <=> Informed(c, d)'
BY DEF Informed

\* A login asks for the list: its devices are to come.
LEMMA OnlineListed ==
  ASSUME TypeOK, ListedInv, NEW c \in Client, Online(c) PROVE ListedInv'
<1>0. TablesOK /\ RequestsOK /\ OnlineOK
  BY DEF TypeOK
<1> DEFINE requests == << PublishBundle, FetchList(Own, TRUE) >>
<1>1. requests \in Seq(Requests)
  <2>1. PublishBundle \in Requests /\ FetchList(Own, TRUE) \in Requests
    BY ListRequest, OtherRequests
  <2>2. QED
    BY <2>1, TwoRequests
<1>2. requests[2] = FetchList(Own, TRUE) /\ 2 \in DOMAIN requests
  OBVIOUS
<1>3. Request(c, pending[c], requests)
  BY DEF Online
<1> HIDE DEF requests
<1>4. requests[2].id = OwnListId
  BY <1>2 DEF FetchList, OwnListId
<1>5. ASSUME NEW e \in online', NEW d \in Devices(node[Own]), server.live PROVE Informed(e, d)'
  <2>1. CASE e = c
    <3>1. OwnListId \in DOMAIN pending'[c]
      BY <1>0, <1>1, <1>2, <1>3, <1>4, RequestKeeps
    <3>3. RequestOn(up'[c], OwnListId)
      BY <1>0, <1>1, <1>2, <1>3, <1>4, AsksMore
    <3>4. down[c] = <<>> /\ down' = down
      BY <1>0 DEF Online, OnlineOK, Quiet
    <3>5. NoListOn(down'[c])
      BY <3>4 DEF NoListOn
    <3>6. QED
      BY <2>1, <3>1, <3>3, <3>5 DEF Informed, ToBeTold
  <2>2. CASE e # c
    <3>1. e \in online /\ e \in Client
      BY <1>0, <1>5, <2>2 DEF Online, OnlineOK
    <3>2. pending'[e] = pending[e] /\ up'[e] = up[e]
      BY <1>0, <1>1, <1>3, <2>2, <3>1, RequestKeeps
    <3>3. down'[e] = down[e] /\ Known(e, Own)' = Known(e, Own)
      BY DEF Online, Known
    <3>4. Informed(e, d)
      BY <1>5, <3>1 DEF ListedInv
    <3>5. QED
      BY <3>2, <3>3, <3>4, InformedRests
  <2>3. QED
    BY <2>1, <2>2
<1>6. node' = node /\ server' = server
  BY DEF Online, serverVars
<1>7. Devices(node[Own])' = Devices(node[Own])
  BY <1>6
<1>8. QED
  BY <1>5, <1>6, <1>7 DEF ListedInv

\* A conversation that is opened takes nothing away.
LEMMA SelectListed ==
  ASSUME TypeOK, ListedInv, NEW c \in Client, NEW a \in Account, SelectConversation(c, a) PROVE ListedInv'
<1>0. TablesOK /\ RequestsOK /\ OnlineOK
  BY DEF TypeOK
<1>1. << FetchList(a, FALSE) >> \in Seq(Requests)
  BY ListRequest, OneRequest
<1>2. Request(c, pending[c], << FetchList(a, FALSE) >>)
  BY DEF SelectConversation
<1>3. UNCHANGED <<lists, down, node, server, online>>
  BY DEF SelectConversation, serverVars
<1>4. ASSUME NEW e \in online, NEW d \in Devices(node[Own]), server.live PROVE Informed(e, d)'
  <2>0. Informed(e, d) /\ e \in Client
    BY <1>0, <1>4 DEF ListedInv, OnlineOK
  <2>1. CASE e = c
    BY <1>1, <1>2, <1>3, <2>0, <2>1, InformedStays
  <2>2. CASE e # c
    <3>1. pending'[e] = pending[e] /\ up'[e] = up[e]
      BY <1>0, <1>1, <1>2, <2>0, <2>2, RequestKeeps
    <3>2. down'[e] = down[e] /\ Known(e, Own)' = Known(e, Own)
      BY <1>3 DEF Known
    <3>3. QED
      BY <2>0, <3>1, <3>2, InformedRests
  <2>3. QED
    BY <2>1, <2>2
<1>5. Devices(node[Own])' = Devices(node[Own])
  BY <1>3
<1>6. QED
  BY <1>3, <1>4, <1>5 DEF ListedInv

\* A client whose stream ends is not connected any more.
LEMMA BreaksListed ==
  ASSUME TypeOK, ListedInv, NEW c \in Client, Breaks(c), UNCHANGED pending \/ pending' = [pending EXCEPT ![c] = <<>>]
  PROVE  ListedInv'
<1>0. TablesOK /\ RequestsOK /\ AnswersOK /\ OnlineOK
  BY DEF TypeOK
<1>1. ASSUME NEW e \in online', NEW d \in Devices(node[Own]), server.live PROVE Informed(e, d)'
  <2>1. e \in online /\ e # c /\ e \in Client
    BY <1>0, <1>1 DEF Breaks, OnlineOK
  <2>2. pending'[e] = pending[e] /\ up'[e] = up[e] /\ down'[e] = down[e]
    BY <1>0, <2>1 DEF Breaks, TablesOK, RequestsOK, AnswersOK
  <2>3. Known(e, Own)' = Known(e, Own)
    BY DEF Breaks, Known
  <2>4. Informed(e, d)
    BY <1>1, <2>1 DEF ListedInv
  <2>5. QED
    BY <2>2, <2>3, <2>4, InformedRests
<1>2. node' = node /\ server' = server
  BY DEF Breaks, serverVars
<1>3. Devices(node[Own])' = Devices(node[Own])
  BY <1>2
<1>4. QED
  BY <1>1, <1>2, <1>3 DEF ListedInv

\* The list only gets the devices of a publication, of which the server tells.
LEMMA NodeAfter ==
  ASSUME ServerOK, NEW r \in Requests, NEW d \in Devices(Answer(r.id, r.op)[2])
  PROVE  \/ d \in Devices(node[Own])
         \/ r.op.name = "publish" /\ Answer(r.id, r.op)[1].kind = "result" /\ d \in r.op.devices
<1> DEFINE a == Answer(r.id, r.op)
           n == node[Own]
<1>n. n \in Node \cup {None}
  BY DEF ServerOK, Account
<1>1. CASE r.op.name \in {"list", "bundles", "bundle", "publish-bundle"}
  <2>1. \E x : a = <<x, n>>
    <3>1. CASE r.op.name = "list"
      BY <3>1, ListAnswer
    <3>2. CASE r.op.name = "bundles"
      BY <3>2, BundlesAnswer
    <3>3. CASE r.op.name = "bundle"
      BY <3>3, BundleAnswer
    <3>4. CASE r.op.name = "publish-bundle"
      BY <3>4, PublishBundleAnswer
    <3>5. QED
      BY <1>1, <3>1, <3>2, <3>3, <3>4
  <2>2. QED
    BY <2>1
<1>2. CASE r.op.name = "publish"
  <2>1. CASE server.strict /\ n # None /\ ~n.options
    <3>1. a[2] = n
      BY <1>2, <2>1, PublishAnswer
    <3>2. QED
      BY <3>1
  <2>2. CASE ~(server.strict /\ n # None /\ ~n.options)
    <3>1. a = <<Result(r.id, {}), Published(n, r.op.devices)>>
      BY <1>2, <2>2, PublishAnswer
    <3>2. a[1].kind = "result" /\ a[2] = Published(n, r.op.devices)
      BY <3>1 DEF Result
    <3>3. d \in Devices(Published(n, r.op.devices))
      BY <3>2
    <3>4. \A i \in Published(n, r.op.devices).items : i = Current(r.op.devices) \/ (n # None /\ i \in n.items)
      <4>1. CASE n = None
        BY <4>1 DEF Published
      <4>2. CASE n \in Node /\ n # None /\ n.options
        BY <4>2 DEF Published
      <4>3. CASE n \in Node /\ n # None /\ ~n.options
        BY <4>3 DEF Published, Node
      <4>4. QED
        BY <1>n, <4>1, <4>2, <4>3
    <3>5. PICK i \in Published(n, r.op.devices).items : d \in i.devices
      BY <3>3 DEF Devices, AllDevices
    <3>6. CASE i = Current(r.op.devices)
      BY <1>2, <3>2, <3>5, <3>6 DEF Current
    <3>7. CASE n # None /\ i \in n.items
      BY <3>5, <3>7 DEF Devices, AllDevices
    <3>8. QED
      BY <3>4, <3>5, <3>6, <3>7
  <2>3. QED
    BY <2>1, <2>2
<1>3. CASE r.op.name = "purge"
  <2>1. CASE n = None
    <3>1. a[2] = None
      BY <1>3, <2>1, PurgeAnswer
    <3>2. QED
      BY <3>1 DEF Devices
  <2>2. CASE n # None
    <3>1. a[2] = [n EXCEPT !.items = {}]
      BY <1>3, <2>2, PurgeAnswer
    <3>2. a[2].items = {}
      BY <1>n, <2>2, <3>1 DEF Node
    <3>3. QED
      BY <3>2 DEF Devices, AllDevices
  <2>3. QED
    BY <2>1, <2>2
<1>4. CASE r.op.name = "configure"
  <2>1. CASE server.refuses \/ n = None
    <3>1. a = <<Failure(r.id, "forbidden"), n>>
      BY <1>4, <2>1, ConfigureAnswer
    <3>2. QED
      BY <3>1
  <2>2. CASE ~(server.refuses \/ n = None)
    <3>1. a = <<Result(r.id, {}), [n EXCEPT !.options = TRUE,
                    !.items = IF Cardinality(@) > 1 THEN {i \in @ : i.id = "current"} ELSE @]>>
      BY <1>4, <2>2, ConfigureAnswer
    <3>2. a[2].items \subseteq n.items
      <4> DEFINE few == IF Cardinality(n.items) > 1 THEN {i \in n.items : i.id = "current"} ELSE n.items
      <4>1. a[2] = [n EXCEPT !.options = TRUE, !.items = few]
        BY <3>1
      <4>2. few \subseteq n.items /\ n \in Node
        BY <1>n, <2>2
      <4> HIDE DEF few, n, a
      <4>3. QED
        BY <4>1, <4>2 DEF Node
    <3>3. d \in AllDevices(n.items)
      BY <3>2 DEF Devices, AllDevices
    <3>4. QED
      BY <2>2, <3>3 DEF Devices
  <2>3. QED
    BY <2>1, <2>2
<1>5. QED
  BY <1>1, <1>2, <1>3, <1>4, RequestOf

\* The reply tells the client of what the list had, if it asked for the list.
LEMMA ServeListed ==
  ASSUME TypeOK, ListedInv, NEW c \in Client, Serve(c) PROVE ListedInv'
<1>0. ServerOK /\ TablesOK /\ RequestsOK /\ AnswersOK /\ OnlineOK
  BY DEF TypeOK
<1>1. PICK r \in Requests : Serves(c, r)
  BY <1>0, ServeDoes
<1> DEFINE a == Answer(r.id, r.op)
<1>2. a[1] \in Stanza /\ a[1].kind \in {"result", "error"} /\ a[1].id = r.id
  BY <1>0, AnswerType
<1>3. ASSUME NEW e \in online, NEW d \in Devices(a[2]), server.live PROVE Informed(e, d)'
  <2>0. e \in Client /\ down[e] \in Seq(Stanza)
    BY <1>0, <1>3 DEF OnlineOK, AnswersOK
  <2>q. down'[e] = (down[e] \o Event(e, r)) \o Reply(c, e, r)
    BY <1>1, <2>0 DEF Serves
  <2>u. UNCHANGED <<lists, pending>>
    BY <1>1 DEF Serves
  <2>p. \/ Event(e, r) = <<>>
        \/ Told(e, r) /\ Event(e, r) = << Live(r.op.devices) >> /\ Live(r.op.devices) \in Stanza
    <3>1. ASSUME Told(e, r) PROVE Live(r.op.devices) \in Stanza
      <4>1. r \in PublishRequests
        BY <3>1, RequestOf DEF Told
      <4>2. PICK D \in SUBSET Id : r.op.devices = D
        BY <4>1, PublishIs
      <4>3. QED
        BY <4>2 DEF Stanza
    <3>2. QED
      BY <3>1 DEF Event
  <2>e. Event(e, r) \in Seq(Stanza) /\ Reply(c, e, r) \in Seq(Stanza)
    <3>1. Event(e, r) \in Seq(Stanza)
      <4>1. CASE Event(e, r) = <<>>
        BY <4>1
      <4>2. CASE Event(e, r) = << Live(r.op.devices) >> /\ Live(r.op.devices) \in Stanza
        BY <4>2
      <4>3. QED
        BY <2>p, <4>1, <4>2
    <3>2. CASE e = c
      BY <1>2, <3>1, <3>2 DEF Reply
    <3>3. CASE e # c
      BY <3>1, <3>3 DEF Reply
    <3>4. QED
      BY <3>2, <3>3
  <2>n. NoListOn(Event(e, r))
    BY <2>p DEF NoListOn, IsListAnswer, Live
  <2> DEFINE q == down[e] \o Event(e, r)
  <2>m. q \in Seq(Stanza)
    BY <2>0, <2>e
  <2>k. /\ LiveOn(down[e], d) => LiveOn(q, d)
        /\ LiveOn(Event(e, r), d) => LiveOn(q, d)
        /\ FirstNames(down[e], d) => FirstNames(q, d)
        /\ NoListOn(down[e]) /\ NoListOn(Event(e, r)) => NoListOn(q)
    BY <2>0, <2>e, ToldLonger
  <2> HIDE DEF q
  <2>l. /\ LiveOn(q, d) => LiveOn(down'[e], d)
        /\ FirstNames(q, d) => FirstNames(down'[e], d)
        /\ NoListOn(q) /\ FirstNames(Reply(c, e, r), d) => FirstNames(down'[e], d)
        /\ NoListOn(q) /\ NoListOn(Reply(c, e, r)) => NoListOn(down'[e])
    <3>1. down'[e] = q \o Reply(c, e, r)
      BY <2>q DEF q
    <3>2. QED
      BY <2>e, <2>m, <3>1, ToldLonger
  <2>1. CASE r.op.name = "publish" /\ a[1].kind = "result" /\ d \in r.op.devices
    <3>1. Event(e, r) = << Live(r.op.devices) >>
      BY <1>3, <2>1 DEF Event, Told
    <3>2. LiveOn(Event(e, r), d)
      BY <2>1, <3>1 DEF LiveOn, Live
    <3>3. QED
      BY <2>k, <2>l, <3>2, InformedIs
  <2>2. CASE d \in Devices(node[Own])
    <3>1. Informed(e, d)
      BY <1>3, <2>2 DEF ListedInv
    <3>2. CASE d \in Known(e, Own) \/ LiveOn(down[e], d)
      BY <2>k, <2>l, <2>u, <3>2, InformedIs DEF Known
    <3>3. CASE OwnListId \in DOMAIN pending[e] /\ FirstNames(down[e], d)
      BY <2>k, <2>l, <2>u, <3>3, InformedIs
    <3>4. CASE OwnListId \in DOMAIN pending[e] /\ NoListOn(down[e]) /\ RequestOn(up[e], OwnListId)
      <4>1. NoListOn(q)
        BY <2>k, <2>n, <3>4
      <4>2. CASE e = c /\ r.id = OwnListId
        <5>1. r.op.name = "list" /\ r.op.jid = Own
          BY <4>2, OwnListIdIs
        <5>2. node[Own] # None
          BY <2>2 DEF Devices
        <5>3. a = <<Result(r.id, node[Own].items), node[Own]>>
          BY <5>1, <5>2, ListAnswer
        <5>4. Reply(c, e, r) = << Result(r.id, node[Own].items) >>
          BY <4>2, <5>3 DEF Reply
        <5>5. d \in AllDevices(node[Own].items)
          BY <2>2, <5>2 DEF Devices
        <5>6. FirstNames(Reply(c, e, r), d)
          BY <4>2, <5>4, <5>5 DEF FirstNames, IsListAnswer, Result
        <5>7. QED
          BY <2>l, <2>u, <3>4, <4>1, <5>6, InformedIs
      <4>3. CASE e = c /\ r.id # OwnListId
        <5>1. NoListOn(Reply(c, e, r))
          BY <1>2, <4>3 DEF NoListOn, IsListAnswer, Reply
        <5>2. NoListOn(down'[e])
          BY <2>l, <4>1, <5>1
        <5>3. RequestOn(up'[e], OwnListId)
          <6> DEFINE T == {Sent(x) : x \in Requests}
          <6>1. up[c] \in Seq(T) /\ up[c] # <<>> /\ Head(up[c]) = Sent(r) /\ up'[c] = Tail(up[c])
            BY <1>0, <1>1 DEF RequestsOK, Serves
          <6> HIDE DEF T
          <6>2. Head(up[c]) = up[c][1]
                /\ \A i \in DOMAIN up[c] : i # 1 => i - 1 \in DOMAIN Tail(up[c]) /\ Tail(up[c])[i - 1] = up[c][i]
            BY <6>1, TailType
          <6>3. up[c][1].id = r.id
            BY <6>1, <6>2 DEF Sent
          <6>4. PICK i \in DOMAIN up[c] : up[c][i].id = OwnListId
            BY <3>4, <4>3 DEF RequestOn
          <6>5. i # 1
            BY <4>3, <6>3, <6>4
          <6>6. QED
            BY <4>3, <6>1, <6>2, <6>4, <6>5 DEF RequestOn
        <5>4. QED
          BY <2>u, <3>4, <5>2, <5>3, InformedIs
      <4>4. CASE e # c
        <5>1. Reply(c, e, r) = <<>> /\ up'[e] = up[e]
          BY <1>0, <1>1, <2>0, <4>4 DEF Reply, Serves, RequestsOK
        <5>2. NoListOn(Reply(c, e, r))
          BY <5>1 DEF NoListOn
        <5>3. QED
          BY <2>l, <2>u, <3>4, <4>1, <5>1, <5>2, InformedIs
      <4>5. QED
        BY <4>2, <4>3, <4>4
    <3>5. QED
      BY <3>1, <3>2, <3>3, <3>4, InformedIs
  <2>3. QED
    BY <1>0, <1>3, <2>1, <2>2, NodeAfter
<1>4. online' = online /\ server' = server /\ node'[Own] = a[2]
  BY <1>0, <1>1 DEF Serves, ServerOK, Account
<1>5. Devices(node[Own])' = Devices(a[2])
  BY <1>4 DEF Devices
<1>6. QED
  BY <1>3, <1>4, <1>5 DEF ListedInv

\* Once the first answer that has the list is read, its devices are known.
LEMMA ListAnswerRead ==
  ASSUME ManagersOK, NEW c \in Client, NEW rest, NEW r \in Requests, NEW s \in Stanza,
         s.kind = "result", s.id = r.id, r.id = OwnListId, Comes(c, rest, r, s)
  PROVE  AllDevices(s.payload) \subseteq Known(c, Own)'
<1>1. r.op.name = "list" /\ r.op.jid = Own /\ s.kind # "live"
  BY OwnListIdIs
<1>2. r.entry.jid = Own
  <2>1. r \in ListRequests
    BY <1>1, RequestOf
  <2>2. QED
    BY <1>1, <2>1, ListIs
<1>3. OwnListComes(c, rest, r, s) \/ ListComes(c, rest, r, s)
  BY <1>1 DEF Comes, NoListComes, PublishedComes, RefusedComes, PurgedComes, ConfiguredComes, BundlesCome,
              BundleComes, BundlePublishedComes
<1>4. CASE OwnListComes(c, rest, r, s)
  <2>1. PICK requests : Effect(c, rest, Own, AllDevices(s.payload) \cup {c}, {}, requests)
    BY <1>1, <1>4, OwnListDoes
  <2>2. QED
    BY <2>1 DEF Effect, Account
<1>5. CASE ListComes(c, rest, r, s)
  <2>1. PICK requests : Effect(c, rest, Own, AllDevices(s.payload), {}, requests)
    BY <1>1, <1>2, <1>5, ListDoes
  <2>2. QED
    BY <2>1 DEF Effect, Account
<1>6. QED
  BY <1>3, <1>4, <1>5

\* What a client still has to be told is still to come after it reads a stanza,
\* or it was told by it.
LEMMA HandleListed ==
  ASSUME TypeOK, ListedInv, NEW c \in Client, HandleStanza(c) PROVE ListedInv'
<1>0. ServerOK /\ ManagersOK /\ TablesOK /\ RequestsOK /\ AnswersOK /\ OnlineOK
  BY DEF TypeOK
<1>1. PICK s \in Stanza :
        /\ Takes(c, s)
        /\ \/ \E D \in SUBSET Id : s = Live(D) /\ LiveUpdate(c, D)
           \/ s.kind # "live" /\ s.id \notin DOMAIN pending[c] /\ Ignored
           \/ \E r \in Requests : Answers(c, s, r) /\ Comes(c, Rest(c, s), r, s)
  BY <1>0, HandleDoes
<1> DEFINE q == down[c]
           t == Tail(down[c])
<1>2. q \in Seq(Stanza) /\ q # <<>> /\ s = Head(q) /\ down'[c] = t
      /\ \A e \in Client : e # c => down'[e] = down[e]
  BY <1>0, <1>1 DEF AnswersOK, Takes
<1>3. online' = online /\ server' = server /\ node' = node
  BY <1>1 DEF Takes, serverVars
<1> HIDE DEF q, t
\* Of the client that reads: what is not known yet is still to come.
<1>4. ASSUME NEW d, Informed(c, d) PROVE Informed(c, d)'
  <2>t. /\ LiveOn(q, d) => LiveOn(t, d) \/ (s.kind = "live" /\ d \in s.devices)
        /\ FirstNames(q, d) =>
             \/ IsListAnswer(s) /\ s.kind = "result" /\ d \in AllDevices(s.payload)
             \/ ~IsListAnswer(s) /\ FirstNames(t, d)
        /\ NoListOn(q) => NoListOn(t) /\ ~IsListAnswer(s)
    <3>1. t = Tail(q)
      BY DEF t, q
    <3>2. QED
      BY <1>2, <3>1, ToldTail
  <2>i. \/ d \in Known(c, Own)
        \/ LiveOn(q, d)
        \/ OwnListId \in DOMAIN pending[c] /\ FirstNames(q, d)
        \/ OwnListId \in DOMAIN pending[c] /\ NoListOn(q) /\ RequestOn(up[c], OwnListId)
    BY <1>4, InformedIs DEF q
  <2>1. CASE \E D \in SUBSET Id : s = Live(D) /\ LiveUpdate(c, D)
    <3>1. PICK D \in SUBSET Id : s = Live(D) /\ LiveUpdate(c, D)
      BY <2>1
    <3>2. s.kind = "live" /\ s.devices = D /\ ~IsListAnswer(s)
      BY <3>1 DEF Live, IsListAnswer
    <3>3. pending' = pending /\ up' = up /\ Known(c, Own)' = Known(c, Own) \cup D
      BY <1>0, <3>1, LiveDoes DEF Account
    <3>4. QED
      BY <1>2, <2>t, <2>i, <3>2, <3>3, InformedIs
  <2>2. CASE s.kind # "live" /\ s.id \notin DOMAIN pending[c] /\ Ignored
    <3>1. pending' = pending /\ up' = up /\ Known(c, Own)' = Known(c, Own)
      BY <2>2 DEF Ignored, Known
    <3>2. OwnListId \in DOMAIN pending[c] => ~IsListAnswer(s)
      BY <2>2 DEF IsListAnswer
    <3>3. QED
      BY <1>2, <2>t, <2>i, <2>2, <3>1, <3>2, InformedIs
  <2>3. CASE \E r \in Requests : Answers(c, s, r) /\ Comes(c, Rest(c, s), r, s)
    <3>1. PICK r \in Requests : Answers(c, s, r) /\ Comes(c, Rest(c, s), r, s)
      BY <2>3
    <3>2. s.kind # "live" /\ s.id = r.id
      BY <3>1 DEF Answers
    <3>3. PICK a, D, found, requests : Effect(c, Rest(c, s), a, D, found, requests)
      BY <1>0, <3>1, <3>2, ComesDoes
    <3>4. Known(c, Own) \subseteq Known(c, Own)'
      BY <3>3 DEF Effect, Account
    <3>5. /\ DOMAIN Rest(c, s) \subseteq DOMAIN pending'[c] /\ up'[c] = up[c] \o Stanzas(requests)
          /\ requests \in Seq(Requests)
      BY <1>0, <3>3, RequestKeeps DEF Effect
    <3>6. s.id # OwnListId /\ OwnListId \in DOMAIN pending[c] => OwnListId \in DOMAIN pending'[c]
      BY <3>5 DEF Rest, Restrict
    <3>7. RequestOn(up[c], OwnListId) => RequestOn(up'[c], OwnListId)
      BY <1>0, <3>3, <3>5, AsksMore DEF Effect
    <3>8. CASE s.id = OwnListId
      <4>1. IsListAnswer(s)
        BY <3>2, <3>8 DEF IsListAnswer
      <4>2. s.kind = "result" => AllDevices(s.payload) \subseteq Known(c, Own)'
        BY <1>0, <3>1, <3>2, <3>8, ListAnswerRead
      <4>3. QED
        BY <1>2, <2>t, <2>i, <3>2, <3>4, <4>1, <4>2, InformedIs
    <3>9. CASE s.id # OwnListId
      <4>1. ~IsListAnswer(s)
        BY <3>9 DEF IsListAnswer
      <4>2. QED
        BY <1>2, <2>t, <2>i, <3>2, <3>4, <3>6, <3>7, <3>9, <4>1, InformedIs
    <3>10. QED
      BY <3>8, <3>9
  <2>4. QED
    BY <1>1, <2>1, <2>2, <2>3
<1>5. ASSUME NEW e \in Client, e # c, NEW d, Informed(e, d) PROVE Informed(e, d)'
  <2>1. pending'[e] = pending[e] /\ up'[e] = up[e] /\ Known(e, Own)' = Known(e, Own)
    <3>1. CASE \E D \in SUBSET Id : s = Live(D) /\ LiveUpdate(c, D)
      <4>1. PICK D \in SUBSET Id : LiveUpdate(c, D)
        BY <3>1
      <4>2. QED
        BY <1>0, <1>5, <4>1, LiveDoes DEF Account
    <3>2. CASE Ignored
      BY <3>2 DEF Ignored, Known
    <3>3. CASE \E r \in Requests : Answers(c, s, r) /\ Comes(c, Rest(c, s), r, s)
      <4>1. PICK r \in Requests : Answers(c, s, r) /\ Comes(c, Rest(c, s), r, s)
        BY <3>3
      <4>2. s.kind # "live" /\ s.id = r.id
        BY <4>1 DEF Answers
      <4>3. PICK a, D, found, requests : Effect(c, Rest(c, s), a, D, found, requests)
        BY <1>0, <4>1, <4>2, ComesDoes
      <4>4. pending'[e] = pending[e] /\ up'[e] = up[e]
        BY <1>0, <1>5, <4>3, RequestKeeps DEF Effect
      <4>5. Known(e, Own)' = Known(e, Own)
        BY <1>5, <4>3 DEF Effect, Account
      <4>6. QED
        BY <4>4, <4>5
    <3>4. QED
      BY <1>1, <3>1, <3>2, <3>3
  <2>2. down'[e] = down[e]
    BY <1>2, <1>5
  <2>3. QED
    BY <1>5, <2>1, <2>2, InformedRests
<1>6. Devices(node[Own])' = Devices(node[Own])
  BY <1>3 DEF Devices
<1>7. ASSUME NEW e \in online, NEW d \in Devices(node[Own]), server.live PROVE Informed(e, d)'
  <2>1. Informed(e, d) /\ e \in Client
    BY <1>0, <1>7 DEF ListedInv, OnlineOK
  <2>2. QED
    BY <1>4, <1>5, <2>1
<1>8. QED
  BY <1>3, <1>6, <1>7 DEF ListedInv

\* Every step keeps what is to be told.
LEMMA NextListed ==
  ASSUME TypeOK, ListedInv, [Next]_vars PROVE ListedInv'
<1>1. CASE UNCHANGED vars
  <2>1. /\ server' = server /\ node' = node /\ online' = online /\ lists' = lists
        /\ pending' = pending /\ up' = up /\ down' = down
    BY <1>1 DEF vars, serverVars
  <2>2. Devices(node[Own])' = Devices(node[Own]) /\ \A e : Known(e, Own)' = Known(e, Own)
    BY <2>1 DEF Devices, Known
  <2>3. \A e, d : Informed(e, d) => Informed(e, d)'
    BY <2>1, <2>2, InformedRests
  <2>4. QED
    BY <2>1, <2>2, <2>3 DEF ListedInv
<1>2. CASE Next
  <2>1. PICK c \in Client :
          \/ Online(c) \/ StreamLost(c) \/ Logout(c)
          \/ \E a \in Account : SelectConversation(c, a)
          \/ Serve(c) \/ HandleStanza(c)
    BY <1>2 DEF Next
  <2>2. CASE Online(c)
    BY <2>2, OnlineListed
  <2>3. CASE StreamLost(c)
    BY <2>3, BreaksListed DEF StreamLost
  <2>4. CASE Logout(c)
    BY <2>4, BreaksListed DEF Logout
  <2>5. CASE \E a \in Account : SelectConversation(c, a)
    BY <2>5, SelectListed
  <2>6. CASE Serve(c)
    BY <2>6, ServeListed
  <2>7. CASE HandleStanza(c)
    BY <2>7, HandleListed
  <2>8. QED
    BY <2>1, <2>2, <2>3, <2>4, <2>5, <2>6, <2>7
<1>3. QED
  BY <1>1, <1>2

\* With nothing on its way, what was to be told is known.
LEMMA ListedKnown == ASSUME TypeOK, ListedInv PROVE KnowsListed
<1> SUFFICES ASSUME server.live, Settled, NEW c \in online, NEW d \in Devices(node[Own])
             PROVE  d \in Known(c, Own)
  BY DEF KnowsListed
<1>1. c \in Client /\ Informed(c, d)
  BY DEF TypeOK, OnlineOK, ListedInv
<1>2. up[c] = <<>> /\ down[c] = <<>>
  BY <1>1 DEF Settled, Quiet
<1>3. ~LiveOn(down[c], d) /\ ~FirstNames(down[c], d) /\ ~RequestOn(up[c], OwnListId)
  BY <1>2 DEF LiveOn, FirstNames, RequestOn
<1>4. QED
  BY <1>1, <1>3, InformedIs

\* Where live updates are sent, a client that is connected knows every device
\* the account's list names once nothing is on its way, for any number of
\* clients, logins and breaks: what was published before it came is in the list
\* it fetches, what was published since is in an update (client.rs, lines 241,
\* 1600 and 2219).
THEOREM ListedDevicesKnown == Spec => []KnowsListed
<1>1. Init => ListedInv
  BY DEF Init, ListedInv
<1>2. TypeOK /\ ListedInv /\ [Next]_vars => ListedInv'
  BY NextListed
<1>3. TypeOK /\ ListedInv => KnowsListed
  BY ListedKnown
<1>4. QED
  BY <1>1, <1>2, <1>3, TypeCorrect, PTL DEF Spec

-----------------------------------------------------------------------------
\* SessionsFollowFetch, first part: whatever a client knows of has published its
\* bundle in its own node before, so that no request for that bundle is in vain.

\* The bundles b have one of every device of D, in the device's node.
Announced(b, D) == \A d \in D : <<"device", d>> \in b

EntryDue(b, e) == e.type \in {"PurgeV0DeviceList", "ConfigureNode"} => Announced(b, e.devices)

OpDue(b, op) ==
  /\ op.name = "publish" => Announced(b, op.devices)
  /\ op.name = "bundle" => Announced(b, {op.device})

RequestDue(b, r) == EntryDue(b, r.entry) /\ OpDue(b, r.op)

StanzaDue(b, s) ==
  /\ s.kind = "live" => Announced(b, s.devices)
  /\ s.kind = "result" /\ Asked(s.id) = "list" => Announced(b, AllDevices(s.payload))
  /\ s.kind = "error" => Asked(s.id) # "bundle"

TableDue(b, table) == \A id \in DOMAIN table : EntryDue(b, table[id])
StreamDue(b, u) == \A i \in DOMAIN u : OpDue(b, u[i].op)
AnswersDue(b, q) == \A i \in DOMAIN q : StanzaDue(b, q[i])

\* A client that has not published its bundle yet is about to do so first.
Begins(u, q) ==
  /\ u # <<>> /\ Head(u).op.name = "publish-bundle"
  /\ \A i \in DOMAIN q : q[i].kind = "live"

NodesDue   == \A a \in Account : Announced(bundles, Devices(node[a]))
KnownDue   == \A c \in Client, a \in Account : Announced(bundles, Known(c, a))
TablesDue  == \A c \in Client : TableDue(bundles, pending[c])
StreamsDue == \A c \in Client : StreamDue(bundles, up[c]) /\ AnswersDue(bundles, down[c])
OnlineDue  == \A c \in online : Announced(bundles, {c}) \/ Begins(up[c], down[c])

AnnouncedInv == NodesDue /\ KnownDue /\ TablesDue /\ StreamsDue /\ OnlineDue

\* No bundle is withdrawn.
LEMMA DueGrows ==
  ASSUME NEW b, NEW more, b \subseteq more
  PROVE  /\ \A D : Announced(b, D) => Announced(more, D)
         /\ \A t : TableDue(b, t) => TableDue(more, t)
         /\ \A u : StreamDue(b, u) => StreamDue(more, u)
         /\ \A s : StanzaDue(b, s) => StanzaDue(more, s)
         /\ \A q : AnswersDue(b, q) => AnswersDue(more, q)
<1>1. \A D : Announced(b, D) => Announced(more, D)
  BY DEF Announced
<1>2. /\ \A e : EntryDue(b, e) => EntryDue(more, e)
      /\ \A op : OpDue(b, op) => OpDue(more, op)
      /\ \A s : StanzaDue(b, s) => StanzaDue(more, s)
  BY <1>1 DEF EntryDue, OpDue, StanzaDue
<1>3. QED
  BY <1>1, <1>2 DEF TableDue, StreamDue, AnswersDue

\* Which requests are about announced devices.
LEMMA DueRequests ==
  ASSUME NEW b
  PROVE  /\ \A a, own : RequestDue(b, FetchList(a, own))
         /\ \A D, v : Announced(b, D) => RequestDue(b, PublishList(D, v))
         /\ \A D : Announced(b, D) => RequestDue(b, Purge(D)) /\ RequestDue(b, ConfigureNode(D))
         /\ \A a : RequestDue(b, FetchBundles(a))
         /\ \A a, d : Announced(b, {d}) => RequestDue(b, FetchBundle(a, d))
         /\ RequestDue(b, PublishBundle)
BY DEF RequestDue, EntryDue, OpDue, FetchList, PublishList, Purge, ConfigureNode, FetchBundles, FetchBundle, PublishBundle

\* One or two requests.
LEMMA DueOfFew ==
  ASSUME NEW b, NEW r, NEW q, RequestDue(b, r), RequestDue(b, q)
  PROVE  /\ \A i \in DOMAIN << r >> : RequestDue(b, << r >>[i])
         /\ \A i \in DOMAIN << r, q >> : RequestDue(b, << r, q >>[i])
<1>1. \A i \in DOMAIN << r >> : << r >>[i] = r
  OBVIOUS
<1>2. \A i \in DOMAIN << r, q >> : << r, q >>[i] = r \/ << r, q >>[i] = q
  OBVIOUS
<1>3. QED
  BY <1>1, <1>2

\* Requests of announced devices join others.
LEMMA RequestsJoin ==
  ASSUME TablesOK, RequestsOK, NEW c \in Client, NEW table, NEW requests \in Seq(Requests),
         Request(c, table, requests), NEW b, TableDue(b, table), StreamDue(b, up[c]),
         \A i \in DOMAIN requests : RequestDue(b, requests[i])
  PROVE  TableDue(b, pending'[c]) /\ StreamDue(b, up'[c])
<1>1. pending'[c] = Added(table, requests)
  BY DEF Request, TablesOK
<1>2. TableDue(b, pending'[c])
  <2>1. PICK t : t = Added(table, requests)
    OBVIOUS
  <2>2. HasAlso(t, table, requests)
    BY <2>1, AddedIs
  <2>3. ASSUME NEW id \in DOMAIN t PROVE EntryDue(b, t[id])
    <3>1. CASE id \in DOMAIN table /\ t[id] = table[id]
      BY <3>1 DEF TableDue
    <3>2. CASE \E i \in DOMAIN requests : requests[i].id = id /\ t[id] = requests[i].entry
      BY <3>2 DEF RequestDue
    <3>3. QED
      BY <2>2, <2>3, <3>1, <3>2 DEF HasAlso
  <2>4. QED
    BY <1>1, <2>1, <2>3 DEF TableDue
<1>3. StreamDue(b, up'[c])
  <2>1. PICK u \in Seq({Sent(r) : r \in Requests}) : u = up[c]
    BY DEF RequestsOK
  <2>2. up'[c] = u \o Stanzas(requests)
    BY <2>1, RequestKeeps
  <2>3. /\ Stanzas(requests) \in Seq({Sent(r) : r \in Requests}) /\ Len(Stanzas(requests)) = Len(requests)
        /\ \A i \in DOMAIN requests : Stanzas(requests)[i] = Sent(requests[i])
    BY StanzasAre
  <2> DEFINE T == {Sent(r) : r \in Requests}
             v == u \o Stanzas(requests)
             more == Stanzas(requests)
  <2>4. u \in Seq(T) /\ more \in Seq(T) /\ DOMAIN more = DOMAIN requests /\ StreamDue(b, u)
    BY <2>1, <2>3
  <2> HIDE DEF T, more
  <2>5. \A i \in DOMAIN (u \o more) :
          \/ i \in DOMAIN u /\ (u \o more)[i] = u[i]
          \/ i - Len(u) \in DOMAIN more /\ (u \o more)[i] = more[i - Len(u)]
    BY <2>4
  <2>6. \A i \in DOMAIN more : OpDue(b, more[i].op)
    BY <2>3, <2>4 DEF more, Sent, RequestDue
  <2>7. StreamDue(b, u \o more)
    BY <2>4, <2>5, <2>6 DEF StreamDue
  <2>8. QED
    BY <2>2, <2>7 DEF more
<1>4. QED
  BY <1>2, <1>3

\* More on a stream, and one less.
LEMMA AnswersJoin ==
  ASSUME NEW b, NEW q \in Seq(Stanza), NEW more \in Seq(Stanza)
  PROVE  /\ AnswersDue(b, q) /\ AnswersDue(b, more) => AnswersDue(b, q \o more)
         /\ AnswersDue(b, q) /\ q # <<>> => AnswersDue(b, Tail(q)) /\ StanzaDue(b, Head(q))
<1>1. \A i \in DOMAIN (q \o more) :
        \/ i \in DOMAIN q /\ (q \o more)[i] = q[i]
        \/ i - Len(q) \in DOMAIN more /\ (q \o more)[i] = more[i - Len(q)]
  OBVIOUS
<1>2. AnswersDue(b, q) /\ AnswersDue(b, more) => AnswersDue(b, q \o more)
  BY <1>1 DEF AnswersDue
<1>3. ASSUME AnswersDue(b, q), q # <<>> PROVE AnswersDue(b, Tail(q)) /\ StanzaDue(b, Head(q))
  <2>1. /\ \A i \in DOMAIN Tail(q) : Tail(q)[i] = q[i + 1] /\ i + 1 \in DOMAIN q
        /\ Head(q) = q[1] /\ 1 \in DOMAIN q
    BY <1>3, TailType
  <2>2. QED
    BY <1>3, <2>1 DEF AnswersDue
<1>4. QED
  BY <1>2, <1>3

\* The server names announced devices, and does not refuse an announced bundle.
LEMMA AnswerDue ==
  ASSUME ServerOK, NEW r \in Requests, NodesDue, OpDue(bundles, r.op)
  PROVE  /\ StanzaDue(bundles, Answer(r.id, r.op)[1])
         /\ Announced(bundles, Devices(Answer(r.id, r.op)[2]))
<1> DEFINE a == Answer(r.id, r.op)
<1>1. a[1].kind \in {"result", "error"} /\ a[1].id = r.id /\ Asked(r.id) = r.op.name
  BY AnswerType, RequestOf
<1>2. Announced(bundles, Devices(a[2]))
  <2>1. SUFFICES ASSUME NEW d \in Devices(a[2]) PROVE <<"device", d>> \in bundles
    BY DEF Announced
  <2>2. CASE d \in Devices(node[Own])
    BY <2>2 DEF NodesDue, Announced, Account
  <2>3. CASE r.op.name = "publish" /\ d \in r.op.devices
    BY <2>3 DEF OpDue, Announced
  <2>4. QED
    BY <2>2, <2>3, NodeAfter
<1>3. ASSUME a[1].kind = "result", r.op.name = "list" PROVE Announced(bundles, AllDevices(a[1].payload))
  <2>1. PICK x \in Account : r.op.jid = x
    BY <1>3, RequestOf, ListIs
  <2>2. a[1] = IF node[x] = None THEN Failure(r.id, "item-not-found") ELSE Result(r.id, node[x].items)
    BY <1>3, <2>1, ListAnswer
  <2>3. node[x] # None /\ a[1].payload = node[x].items
    BY <1>3, <2>2 DEF Failure, Result
  <2>4. Devices(node[x]) = AllDevices(a[1].payload)
    BY <2>3 DEF Devices
  <2>5. Announced(bundles, Devices(node[x]))
    BY DEF NodesDue
  <2>6. QED
    BY <2>4, <2>5
<1>4. ASSUME r.op.name = "bundle" PROVE a[1].kind # "error"
  <2>1. <<"device", r.op.device>> \in bundles
    BY <1>4 DEF OpDue, Announced
  <2>2. a[1] = Result(r.id, {})
    BY <1>4, <2>1, BundleAnswer
  <2>3. QED
    BY <2>2 DEF Result
<1>5. QED
  BY <1>1, <1>2, <1>3, <1>4 DEF StanzaDue

\* What an answer leads to is about announced devices.
EffectDue(c, rest, r) ==
  \E a \in Account : \E D, found, requests :
    /\ Effect(c, rest, a, D, found, requests)
    /\ Announced(bundles, D) /\ \A i \in DOMAIN requests : RequestDue(bundles, requests[i])

\* The answers to a request for a list.
LEMMA ListsDue ==
  ASSUME ManagersOK, NEW c \in Client, NEW rest, NEW r \in Requests, NEW s \in Stanza,
         s.kind # "live", s.id = r.id, StanzaDue(bundles, s), Announced(bundles, {c}),
         OwnListComes(c, rest, r, s) \/ ListComes(c, rest, r, s) \/ NoListComes(c, rest, r, s)
  PROVE  EffectDue(c, rest, r)
<1>0. Own \in Account
  BY DEF Account
<1>1. CASE OwnListComes(c, rest, r, s)
  <2> DEFINE D == AllDevices(s.payload) \cup {c}
  <2>1. PICK requests :
          /\ Effect(c, rest, Own, D, {}, requests)
          /\ requests[1] = PublishList(D, "merged")
          /\ requests[2] = IF Cardinality(s.payload) > 1 THEN Purge(D) ELSE PublishList(D, "v0")
          /\ requests[3] = FetchBundles(Own) /\ Len(requests) = 3
    BY <1>1, OwnListDoes
  <2>2. Announced(bundles, D)
    <3>1. s.kind = "result" /\ Asked(s.id) = "list"
      BY <1>1, RequestOf DEF OwnListComes
    <3>2. QED
      BY <3>1 DEF StanzaDue, Announced
  <2> HIDE DEF D
  <2>3. requests \in Seq(Requests)
    BY <2>1 DEF Effect
  <2>4. \A i \in DOMAIN requests : i = 1 \/ i = 2 \/ i = 3
    BY <2>1, <2>3
  <2>5. \A i \in DOMAIN requests : RequestDue(bundles, requests[i])
    BY <2>1, <2>2, <2>4, DueRequests
  <2>6. QED
    BY <1>0, <2>1, <2>2, <2>5 DEF EffectDue
<1>2. CASE ListComes(c, rest, r, s)
  <2>1. PICK requests :
          /\ Effect(c, rest, r.entry.jid, AllDevices(s.payload), {}, requests)
          /\ \A i \in DOMAIN requests : requests[i] = FetchBundles(r.entry.jid)
          /\ AllDevices(s.payload) # {} => Len(requests) = 1
    BY <1>2, ListDoes
  <2>2. r.entry.jid \in Account
    BY <1>2, ListDoes
  <2>3. Announced(bundles, AllDevices(s.payload))
    <3>1. s.kind = "result" /\ Asked(s.id) = "list"
      BY <1>2, RequestOf DEF ListComes
    <3>2. QED
      BY <3>1 DEF StanzaDue
  <2>4. \A i \in DOMAIN requests : RequestDue(bundles, requests[i])
    BY <2>1, DueRequests
  <2>5. QED
    BY <2>1, <2>2, <2>3, <2>4 DEF EffectDue
<1>3. CASE NoListComes(c, rest, r, s)
  <2>1. PICK requests :
           /\ Effect(c, rest, Own, {}, {}, requests)
           /\ IF r.entry.own /\ s.condition = "item-not-found"
              THEN requests = << PublishList({c}, "merged"), PublishList({c}, "v0") >>
              ELSE requests = <<>>
    BY <1>3, NoListDoes
  <2>2. RequestDue(bundles, PublishList({c}, "merged")) /\ RequestDue(bundles, PublishList({c}, "v0"))
    BY DueRequests
  <2>3. \A i \in DOMAIN requests : RequestDue(bundles, requests[i])
    <3>1. CASE requests = << PublishList({c}, "merged"), PublishList({c}, "v0") >>
      BY <2>2, <3>1
    <3>2. CASE requests = <<>>
      BY <3>2
    <3>3. QED
      BY <2>1, <3>1, <3>2
  <2>4. Announced(bundles, {})
    BY DEF Announced
  <2>5. QED
    BY <1>0, <2>1, <2>3, <2>4 DEF EffectDue
<1>4. QED
  BY <1>1, <1>2, <1>3

\* One request, or none.
LEMMA OneDue ==
  ASSUME NEW c \in Client, NEW rest, NEW r, NEW q, RequestDue(bundles, q), Effect(c, rest, Own, {}, {}, << q >>)
  PROVE  EffectDue(c, rest, r)
<1>1. Announced(bundles, {}) /\ Own \in Account
  BY DEF Announced, Account
<1>2. \A i \in DOMAIN << q >> : RequestDue(bundles, << q >>[i])
  OBVIOUS
<1>3. QED
  BY <1>1, <1>2 DEF EffectDue

\* An answer that leads to no request.
LEMMA NoneDue ==
  ASSUME NEW c \in Client, NEW rest, NEW r, NEW found, Effect(c, rest, Own, {}, found, <<>>)
  PROVE  EffectDue(c, rest, r)
<1>1. Announced(bundles, {}) /\ Own \in Account
  BY DEF Announced, Account
<1>2. \A i \in DOMAIN <<>> : RequestDue(bundles, <<>>[i])
  OBVIOUS
<1>3. QED
  BY <1>1, <1>2 DEF EffectDue

\* Every answer leads to devices and requests that are announced: those of the
\* list that came, of the lists known, of the entry, or the client itself.
LEMMA ComesDue ==
  ASSUME ManagersOK, NEW c \in Client, NEW rest, NEW r \in Requests, NEW s \in Stanza,
         s.kind # "live", s.id = r.id, Comes(c, rest, r, s),
         StanzaDue(bundles, s), EntryDue(bundles, r.entry), KnownDue, Announced(bundles, {c})
  PROVE  EffectDue(c, rest, r)
<1>1. CASE OwnListComes(c, rest, r, s) \/ ListComes(c, rest, r, s) \/ NoListComes(c, rest, r, s)
  BY <1>1, ListsDue
<1>2. CASE PublishedComes(c, rest, r, s)
  BY <1>2, PublishedDoes, DueRequests, OneDue
<1>3. CASE RefusedComes(c, rest, r, s)
  <2>1. CASE r.entry.retry \/ s.condition # "precondition-not-met"
    BY <1>3, <2>1, RefusedDoes, NoneDue
  <2>2. CASE ~(r.entry.retry \/ s.condition # "precondition-not-met")
    <3>1. PICK D \in SUBSET Id :
            /\ D = IF lists[c][Own] = None THEN {c} ELSE lists[c][Own]
            /\ Effect(c, rest, Own, {}, {}, << ConfigureNode(D) >>)
      BY <1>3, <2>2, RefusedDoes
    <3>2. D = {c} \/ D = Known(c, Own)
      BY <3>1 DEF Known
    <3>3. Announced(bundles, D)
      BY <3>2 DEF KnownDue, Account
    <3>4. QED
      BY <3>1, <3>3, DueRequests, OneDue
  <2>3. QED
    BY <2>1, <2>2
<1>4. CASE PurgedComes(c, rest, r, s)
  <2>1. r \in PurgeRequests
    BY <1>4, RequestOf DEF PurgedComes
  <2>2. r.entry.type = "PurgeV0DeviceList"
    BY <2>1, PurgeIs
  <2>3. Announced(bundles, r.entry.devices)
    BY <2>2 DEF EntryDue
  <2>4. QED
    BY <1>4, <2>3, PurgedDoes, DueRequests, OneDue
<1>5. CASE ConfiguredComes(c, rest, r, s)
  <2>1. r \in ConfigureRequests
    BY <1>5, RequestOf DEF ConfiguredComes
  <2>2. r.entry.type = "ConfigureNode"
    BY <2>1, ConfigureIs
  <2>3. Announced(bundles, r.entry.devices)
    BY <2>2 DEF EntryDue
  <2>4. QED
    BY <1>5, <2>3, ConfiguredDoes, DueRequests, OneDue
<1>6. CASE BundlesCome(c, rest, r, s)
  <2>1. PICK a \in Account, requests \in Seq(Requests), found \in SUBSET Id :
          /\ Effect(c, rest, Own, {}, found, requests)
          /\ AsksEach(a, (Known(c, a) \ {c}) \ found, requests)
    BY <1>6, BundlesDoes
  <2>2. ASSUME NEW i \in DOMAIN requests PROVE RequestDue(bundles, requests[i])
    <3>1. PICK d \in Known(c, a) : requests[i] = FetchBundle(a, d)
      BY <2>1 DEF AsksEach
    <3>2. Announced(bundles, {d})
      BY DEF KnownDue, Announced
    <3>3. QED
      BY <3>1, <3>2, DueRequests
  <2>3. Announced(bundles, {}) /\ Own \in Account
    BY DEF Announced, Account
  <2>4. QED
    BY <2>1, <2>2, <2>3 DEF EffectDue
<1>7. CASE BundleComes(c, rest, r, s)
  BY <1>7, BundleComesDoes, NoneDue
<1>8. CASE BundlePublishedComes(c, rest, r, s)
  BY <1>8, BundleDoes, NoneDue DEF BundlePublishedComes
<1>9. QED
  BY <1>1, <1>2, <1>3, <1>4, <1>5, <1>6, <1>7, <1>8 DEF Comes

\* A client whose stream has another answer than live updates has published its bundle.
LEMMA AnsweredDue ==
  ASSUME TypeOK, OnlineDue, NEW c \in Client, down[c] # <<>>, Head(down[c]).kind # "live"
  PROVE  Announced(bundles, {c})
<1>1. c \in online
  BY DEF TypeOK, OnlineOK, Quiet
<1>2. down[c] \in Seq(Stanza)
  BY DEF TypeOK, AnswersOK
<1>3. 1 \in DOMAIN down[c] /\ Head(down[c]) = down[c][1]
  BY <1>2, TailType
<1>4. QED
  BY <1>1, <1>3 DEF OnlineDue, Begins

\* What a client reads and does about it is of announced devices.
LEMMA HandleDue ==
  ASSUME TypeOK, AnnouncedInv, NEW c \in Client, HandleStanza(c) PROVE AnnouncedInv'
<1>0. ServerOK /\ ManagersOK /\ TablesOK /\ RequestsOK /\ AnswersOK /\ OnlineOK
  BY DEF TypeOK
<1>i. NodesDue /\ KnownDue /\ TablesDue /\ StreamsDue /\ OnlineDue
  BY DEF AnnouncedInv
<1>1. PICK s \in Stanza :
        /\ Takes(c, s)
        /\ \/ \E D \in SUBSET Id : s = Live(D) /\ LiveUpdate(c, D)
           \/ s.kind # "live" /\ s.id \notin DOMAIN pending[c] /\ Ignored
           \/ \E r \in Requests : Answers(c, s, r) /\ Comes(c, Rest(c, s), r, s)
  BY <1>0, HandleDoes
<1>2. /\ down[c] \in Seq(Stanza) /\ down[c] # <<>> /\ s = Head(down[c]) /\ down'[c] = Tail(down[c])
      /\ \A e \in Client : e # c => down'[e] = down[e]
  BY <1>0, <1>1 DEF AnswersOK, Takes
<1>3. online' = online /\ server' = server /\ node' = node /\ bundles' = bundles
  BY <1>1 DEF Takes, serverVars
<1>4. StanzaDue(bundles, s) /\ AnswersDue(bundles, down'[c])
  BY <1>i, <1>2, AnswersJoin DEF StreamsDue
<1>5. NodesDue'
  BY <1>i, <1>3 DEF NodesDue
<1>6. s.kind # "live" => Announced(bundles, {c})
  BY <1>i, <1>2, AnsweredDue
<1>7. \A e \in Client : AnswersDue(bundles, down'[e])
  BY <1>i, <1>2, <1>4 DEF StreamsDue
\* What is left is of the managers, the tables and the requests.
<1>8. SUFFICES
        /\ \A e \in Client, b \in Account : Announced(bundles, Known(e, b)')
        /\ \A e \in Client : TableDue(bundles, pending'[e]) /\ StreamDue(bundles, up'[e])
        /\ \A e \in Client : up'[e] = up[e] \/ (e = c /\ s.kind # "live")
  <2>1. KnownDue' /\ TablesDue' /\ StreamsDue'
    BY <1>3, <1>7, <1>8 DEF KnownDue, TablesDue, StreamsDue
  <2>2. OnlineDue'
    <3>1. ASSUME NEW e \in online PROVE Announced(bundles, {e}) \/ Begins(up'[e], down'[e])
      <4>0. e \in Client
        BY <1>0 DEF OnlineOK
      <4>1. CASE e = c /\ s.kind # "live"
        BY <1>6, <4>1
      <4>2. CASE up'[e] = up[e] /\ Begins(up[e], down[e])
        <5>1. CASE e = c
          <6>1. \A i \in DOMAIN down'[c] : down'[c][i] = down[c][i + 1] /\ i + 1 \in DOMAIN down[c]
            BY <1>2, TailType
          <6>2. QED
            BY <4>2, <5>1, <6>1 DEF Begins
        <5>2. CASE e # c
          BY <1>2, <4>0, <4>2, <5>2
        <5>3. QED
          BY <5>1, <5>2
      <4>3. QED
        BY <1>i, <1>8, <4>0, <4>1, <4>2 DEF OnlineDue
    <3>2. QED
      BY <1>3, <3>1 DEF OnlineDue
  <2>3. QED
    BY <1>5, <2>1, <2>2 DEF AnnouncedInv
<1>9. CASE \E D \in SUBSET Id : s = Live(D) /\ LiveUpdate(c, D)
  <2>1. PICK D \in SUBSET Id : s = Live(D) /\ LiveUpdate(c, D)
    BY <1>9
  <2>2. pending' = pending /\ up' = up
        /\ \A d \in Client, b \in Account :
             Known(d, b)' = IF d = c /\ b = Own THEN Known(c, Own) \cup D ELSE Known(d, b)
    BY <1>0, <2>1, LiveDoes
  <2>3. Announced(bundles, D)
    BY <1>4, <2>1 DEF Live, StanzaDue
  <2>4. \A e \in Client, b \in Account : Announced(bundles, Known(e, b)')
    BY <1>i, <2>2, <2>3 DEF KnownDue, Announced
  <2>5. QED
    BY <1>i, <2>2, <2>4 DEF TablesDue, StreamsDue
<1>10. CASE Ignored
  <2>1. pending' = pending /\ up' = up /\ \A e, b : Known(e, b)' = Known(e, b)
    BY <1>10 DEF Ignored, Known
  <2>2. QED
    BY <1>i, <2>1 DEF TablesDue, StreamsDue, KnownDue
<1>11. CASE \E r \in Requests : Answers(c, s, r) /\ Comes(c, Rest(c, s), r, s)
  <2>1. PICK r \in Requests : Answers(c, s, r) /\ Comes(c, Rest(c, s), r, s)
    BY <1>11
  <2>2. s.kind # "live" /\ s.id = r.id /\ s.id \in DOMAIN pending[c] /\ pending[c][s.id] = r.entry
    BY <2>1 DEF Answers
  <2>3. EntryDue(bundles, r.entry)
    BY <1>i, <2>2 DEF TablesDue, TableDue
  <2>4. EffectDue(c, Rest(c, s), r)
    BY <1>0, <1>i, <1>4, <1>6, <2>1, <2>2, <2>3, ComesDue
  <2>5. PICK a, D, found, requests :
          /\ a \in Account /\ Effect(c, Rest(c, s), a, D, found, requests)
          /\ Announced(bundles, D) /\ \A i \in DOMAIN requests : RequestDue(bundles, requests[i])
    BY <2>4 DEF EffectDue
  <2>6. /\ requests \in Seq(Requests) /\ Request(c, Rest(c, s), requests)
        /\ \A d \in Client, b \in Account :
             Known(d, b)' = IF d = c /\ b = a THEN Known(c, a) \cup D ELSE Known(d, b)
    BY <2>5 DEF Effect
  <2>7. TableDue(bundles, Rest(c, s))
    BY <1>i DEF TablesDue, TableDue, Rest, Restrict
  <2>8. TableDue(bundles, pending'[c]) /\ StreamDue(bundles, up'[c])
    BY <1>0, <1>i, <2>5, <2>6, <2>7, RequestsJoin DEF StreamsDue
  <2>9. \A e \in Client : e # c => pending'[e] = pending[e] /\ up'[e] = up[e]
    BY <1>0, <2>6, RequestKeeps
  <2>10. \A e \in Client, b \in Account : Announced(bundles, Known(e, b)')
    BY <1>i, <2>5, <2>6 DEF KnownDue, Announced
  <2>11. QED
    BY <1>i, <2>2, <2>8, <2>9, <2>10 DEF TablesDue, StreamsDue
<1>12. QED
  BY <1>1, <1>9, <1>10, <1>11

\* What the server answers, tells and stores is of announced devices.
LEMMA ServeDue ==
  ASSUME TypeOK, AnnouncedInv, NEW c \in Client, Serve(c) PROVE AnnouncedInv'
<1>0. ServerOK /\ ManagersOK /\ TablesOK /\ RequestsOK /\ AnswersOK /\ OnlineOK
  BY DEF TypeOK
<1>i. NodesDue /\ KnownDue /\ TablesDue /\ StreamsDue /\ OnlineDue
  BY DEF AnnouncedInv
<1>1. PICK r \in Requests : Serves(c, r)
  BY <1>0, ServeDoes
<1> DEFINE a == Answer(r.id, r.op)
<1>2. a[1] \in Stanza /\ a[1].kind \in {"result", "error"} /\ a[1].id = r.id
  BY <1>0, AnswerType
<1>3. bundles \subseteq bundles'
  BY <1>1 DEF Serves
<1>4. up[c] # <<>> /\ Head(up[c]) = Sent(r) /\ up'[c] = Tail(up[c]) /\ \A e \in Client : e # c => up'[e] = up[e]
  BY <1>0, <1>1 DEF Serves, RequestsOK
<1>u. StreamDue(bundles, up'[c]) /\ OpDue(bundles, r.op)
  <2> DEFINE T == {Sent(x) : x \in Requests}
  <2>1. up[c] \in Seq(T)
    BY <1>0 DEF RequestsOK
  <2> HIDE DEF T
  <2>2. /\ Head(up[c]) = up[c][1] /\ 1 \in DOMAIN up[c]
        /\ \A i \in DOMAIN Tail(up[c]) : Tail(up[c])[i] = up[c][i + 1] /\ i + 1 \in DOMAIN up[c]
    BY <1>4, <2>1, TailType
  <2>3. StreamDue(bundles, up[c])
    BY <1>i DEF StreamsDue
  <2>4. Sent(r).op = r.op
    BY DEF Sent
  <2>5. QED
    BY <1>4, <2>2, <2>3, <2>4 DEF StreamDue
<1>5. StanzaDue(bundles, a[1]) /\ Announced(bundles, Devices(a[2]))
  BY <1>0, <1>i, <1>u, AnswerDue
<1>6. NodesDue'
  <2>1. node' = [node EXCEPT ![Own] = a[2]]
    BY <1>1 DEF Serves
  <2>2. \A x \in Account : node'[x] = IF x = Own THEN a[2] ELSE node[x]
    BY <1>0, <2>1 DEF ServerOK
  <2>3. \A x \in Account : Announced(bundles, Devices(node'[x]))
    BY <1>i, <1>5, <2>2 DEF NodesDue
  <2>4. \A x \in Account : Announced(bundles', Devices(node'[x]))
    BY <1>3, <2>3, DueGrows
  <2>5. \A x : Devices(node[x])' = Devices(node'[x])
    BY DEF Devices
  <2>6. QED
    BY <2>4, <2>5 DEF NodesDue
<1>7. KnownDue' /\ TablesDue'
  <2>1. UNCHANGED <<lists, pending>>
    BY <1>1 DEF Serves
  <2>2. \A e, x : Known(e, x)' = Known(e, x)
    BY <2>1 DEF Known
  <2>3. KnownDue'
    BY <1>i, <1>3, <2>2, DueGrows DEF KnownDue
  <2>4. TablesDue'
    BY <1>i, <1>3, <2>1, DueGrows DEF TablesDue
  <2>5. QED
    BY <2>3, <2>4
\* What each client is sent.
<1>8. ASSUME NEW e \in Client
      PROVE  /\ AnswersDue(bundles, down'[e])
             /\ e # c /\ (\A i \in DOMAIN down[e] : down[e][i].kind = "live")
                  => \A i \in DOMAIN down'[e] : down'[e][i].kind = "live"
  <2>1. down'[e] = (down[e] \o Event(e, r)) \o Reply(c, e, r) /\ down[e] \in Seq(Stanza)
    BY <1>0, <1>1, <1>8 DEF Serves, AnswersOK
  <2>2. \/ Event(e, r) = <<>>
        \/ r.op.name = "publish" /\ Event(e, r) = << Live(r.op.devices) >> /\ Live(r.op.devices) \in Stanza
    <3>1. ASSUME Told(e, r) PROVE r.op.name = "publish" /\ Live(r.op.devices) \in Stanza
      <4>1. r \in PublishRequests
        BY <3>1, RequestOf DEF Told
      <4>2. PICK D \in SUBSET Id : r.op.devices = D
        BY <4>1, PublishIs
      <4>3. QED
        BY <3>1, <4>2 DEF Stanza, Told
    <3>2. QED
      BY <3>1 DEF Event
  <2>3. /\ Event(e, r) \in Seq(Stanza) /\ AnswersDue(bundles, Event(e, r))
        /\ \A i \in DOMAIN Event(e, r) : Event(e, r)[i].kind = "live"
    <3>1. CASE Event(e, r) = <<>>
      BY <3>1 DEF AnswersDue
    <3>2. CASE r.op.name = "publish" /\ Event(e, r) = << Live(r.op.devices) >> /\ Live(r.op.devices) \in Stanza
      <4>1. Live(r.op.devices).kind = "live" /\ Live(r.op.devices).devices = r.op.devices
        BY DEF Live
      <4>2. StanzaDue(bundles, Live(r.op.devices))
        BY <1>u, <3>2, <4>1 DEF OpDue, StanzaDue
      <4>3. QED
        BY <3>2, <4>1, <4>2 DEF AnswersDue
    <3>3. QED
      BY <2>2, <3>1, <3>2
  <2>4. Reply(c, e, r) \in Seq(Stanza) /\ AnswersDue(bundles, Reply(c, e, r)) /\ (e # c => Reply(c, e, r) = <<>>)
    <3>1. CASE e = c
      BY <1>2, <1>5, <3>1 DEF Reply, AnswersDue
    <3>2. CASE e # c
      BY <3>2 DEF Reply, AnswersDue
    <3>3. QED
      BY <3>1, <3>2
  <2>5. AnswersDue(bundles, down[e])
    BY <1>i DEF StreamsDue
  <2> DEFINE q == down[e] \o Event(e, r)
  <2>6. q \in Seq(Stanza) /\ AnswersDue(bundles, q)
    <3>1. PICK x \in Seq(Stanza), y \in Seq(Stanza) : x = down[e] /\ y = Event(e, r)
      BY <2>1, <2>3
    <3>2. AnswersDue(bundles, x \o y) /\ x \o y \in Seq(Stanza)
      BY <2>3, <2>5, <3>1, AnswersJoin
    <3>3. QED
      BY <3>1, <3>2
  <2>7. ASSUME \A i \in DOMAIN down[e] : down[e][i].kind = "live" PROVE \A i \in DOMAIN q : q[i].kind = "live"
    <3>1. \A i \in DOMAIN q :
            \/ i \in DOMAIN down[e] /\ q[i] = down[e][i]
            \/ i - Len(down[e]) \in DOMAIN Event(e, r) /\ q[i] = Event(e, r)[i - Len(down[e])]
      BY <2>1, <2>3
    <3>2. QED
      BY <2>3, <2>7, <3>1
  <2> HIDE DEF q
  <2>8. down'[e] = q \o Reply(c, e, r)
    BY <2>1 DEF q
  <2>9. AnswersDue(bundles, down'[e])
    BY <2>4, <2>6, <2>8, AnswersJoin
  <2>10. e # c => down'[e] = q
    <3>1. q \o <<>> = q
      BY <2>6
    <3>2. QED
      BY <2>4, <2>8, <3>1
  <2>11. QED
    BY <2>7, <2>9, <2>10
<1>9. StreamsDue'
  <2>1. \A e \in Client : StreamDue(bundles, up'[e]) /\ AnswersDue(bundles, down'[e])
    BY <1>i, <1>4, <1>u, <1>8 DEF StreamsDue
  <2>2. QED
    BY <1>3, <2>1, DueGrows DEF StreamsDue
<1>10. OnlineDue'
  <2>1. ASSUME NEW e \in online PROVE Announced(bundles', {e}) \/ Begins(up'[e], down'[e])
    <3>0. e \in Client
      BY <1>0 DEF OnlineOK
    <3>1. CASE Announced(bundles, {e})
      BY <1>3, <3>1, DueGrows
    <3>2. CASE Begins(up[e], down[e]) /\ e = c
      <4>1. Head(up[c]).op.name = "publish-bundle"
        BY <3>2 DEF Begins
      <4>2. r.op.name = "publish-bundle"
        BY <1>4, <4>1 DEF Sent
      <4>3. bundles' = bundles \cup BundleNodes(c)
        BY <1>1, <4>2 DEF Serves
      <4>4. QED
        BY <3>2, <4>3 DEF BundleNodes, Announced
    <3>3. CASE Begins(up[e], down[e]) /\ e # c
      BY <1>4, <1>8, <3>0, <3>3 DEF Begins
    <3>4. QED
      BY <1>i, <3>1, <3>2, <3>3 DEF OnlineDue
  <2>2. online' = online
    BY <1>1 DEF Serves
  <2>3. QED
    BY <2>1, <2>2 DEF OnlineDue
<1>11. QED
  BY <1>6, <1>7, <1>9, <1>10 DEF AnnouncedInv

\* A login begins with the publication of the bundle.
LEMMA OnlineStepDue ==
  ASSUME TypeOK, AnnouncedInv, NEW c \in Client, Online(c) PROVE AnnouncedInv'
<1>0. TablesOK /\ RequestsOK /\ AnswersOK /\ OnlineOK
  BY DEF TypeOK
<1>i. NodesDue /\ KnownDue /\ TablesDue /\ StreamsDue /\ OnlineDue
  BY DEF AnnouncedInv
<1> DEFINE requests == << PublishBundle, FetchList(Own, TRUE) >>
<1>1. requests \in Seq(Requests)
  <2>1. PublishBundle \in Requests /\ FetchList(Own, TRUE) \in Requests
    BY ListRequest, OtherRequests
  <2>2. QED
    BY <2>1, TwoRequests
<1>2. Request(c, pending[c], requests)
  BY DEF Online
<1>3. \A i \in DOMAIN requests : RequestDue(bundles, requests[i])
  <2>1. RequestDue(bundles, PublishBundle) /\ RequestDue(bundles, FetchList(Own, TRUE))
    BY DueRequests
  <2>2. QED
    BY <2>1, DueOfFew
<1>4. requests[1] = PublishBundle /\ 1 \in DOMAIN requests
  OBVIOUS
<1> HIDE DEF requests
<1>5. UNCHANGED <<bundles, node, lists, down>> /\ up[c] = <<>> /\ down[c] = <<>> /\ online' = online \cup {c}
  BY <1>0 DEF Online, serverVars, OnlineOK, Quiet
<1>6. TableDue(bundles, pending'[c]) /\ StreamDue(bundles, up'[c])
  BY <1>0, <1>i, <1>1, <1>2, <1>3, RequestsJoin DEF TablesDue, StreamsDue
<1>7. \A e \in Client : e # c => pending'[e] = pending[e] /\ up'[e] = up[e]
  BY <1>0, <1>1, <1>2, RequestKeeps
<1>8. NodesDue' /\ KnownDue'
  BY <1>i, <1>5 DEF NodesDue, KnownDue, Devices, Known
<1>9. TablesDue' /\ StreamsDue'
  BY <1>i, <1>5, <1>6, <1>7 DEF TablesDue, StreamsDue
<1>10. Begins(up'[c], down'[c])
  <2>1. up'[c] = <<>> \o Stanzas(requests)
    BY <1>0, <1>1, <1>2, <1>5, RequestKeeps
  <2>2. /\ Stanzas(requests) \in Seq({Sent(r) : r \in Requests}) /\ Len(Stanzas(requests)) = Len(requests)
        /\ Stanzas(requests)[1] = Sent(PublishBundle)
    BY <1>1, <1>4, StanzasAre
  <2>3. Len(requests) \in Nat /\ Len(requests) >= 1
    BY <1>1, <1>4
  <2> DEFINE T == {Sent(r) : r \in Requests}
             more == Stanzas(requests)
  <2>4. more \in Seq(T) /\ Len(more) >= 1 /\ more[1] = Sent(PublishBundle)
    BY <2>2, <2>3
  <2> HIDE DEF T, more
  <2>5. <<>> \o more # <<>> /\ Head(<<>> \o more) = Sent(PublishBundle)
    BY <2>4
  <2>6. Sent(PublishBundle).op.name = "publish-bundle"
    BY PublishBundleIs DEF Sent
  <2>7. up'[c] # <<>> /\ Head(up'[c]).op.name = "publish-bundle"
    BY <2>1, <2>5, <2>6 DEF more
  <2>8. QED
    BY <1>5, <2>7 DEF Begins
<1>11. OnlineDue'
  BY <1>0, <1>i, <1>5, <1>7, <1>10 DEF OnlineDue, OnlineOK
<1>12. QED
  BY <1>8, <1>9, <1>11 DEF AnnouncedInv

\* A conversation that is opened fetches a list.
LEMMA SelectDue ==
  ASSUME TypeOK, AnnouncedInv, NEW c \in Client, NEW a \in Account, SelectConversation(c, a) PROVE AnnouncedInv'
<1>0. TablesOK /\ RequestsOK /\ OnlineOK
  BY DEF TypeOK
<1>i. NodesDue /\ KnownDue /\ TablesDue /\ StreamsDue /\ OnlineDue
  BY DEF AnnouncedInv
<1>1. PICK requests \in Seq(Requests) :
        Request(c, pending[c], requests) /\ \A i \in DOMAIN requests : RequestDue(bundles, requests[i])
  <2>1. << FetchList(a, FALSE) >> \in Seq(Requests)
    BY ListRequest, OneRequest
  <2>2. RequestDue(bundles, FetchList(a, FALSE))
    BY DueRequests
  <2>3. Request(c, pending[c], << FetchList(a, FALSE) >>)
    BY DEF SelectConversation
  <2>4. \A i \in DOMAIN << FetchList(a, FALSE) >> : RequestDue(bundles, << FetchList(a, FALSE) >>[i])
    BY <2>2, DueOfFew
  <2>5. QED
    BY <2>1, <2>3, <2>4
<1>2. UNCHANGED <<bundles, node, lists, down, online>>
  BY DEF SelectConversation, serverVars
<1>3. TableDue(bundles, pending'[c]) /\ StreamDue(bundles, up'[c])
  BY <1>0, <1>i, <1>1, RequestsJoin DEF TablesDue, StreamsDue
<1>4. \A e \in Client : e # c => pending'[e] = pending[e] /\ up'[e] = up[e]
  BY <1>0, <1>1, RequestKeeps
<1>5. NodesDue' /\ KnownDue'
  BY <1>i, <1>2 DEF NodesDue, KnownDue, Devices, Known
<1>6. TablesDue' /\ StreamsDue'
  BY <1>i, <1>2, <1>3, <1>4 DEF TablesDue, StreamsDue
<1>7. up[c] # <<>> => up'[c] # <<>> /\ Head(up'[c]) = Head(up[c])
  <2>1. up'[c] = up[c] \o Stanzas(requests)
    BY <1>0, <1>1, RequestKeeps
  <2> DEFINE T == {Sent(r) : r \in Requests}
             more == Stanzas(requests)
  <2>2. up[c] \in Seq(T) /\ more \in Seq(T)
    BY <1>0, StanzasAre DEF RequestsOK
  <2> HIDE DEF T, more
  <2>3. up[c] # <<>> => up[c] \o more # <<>> /\ Head(up[c] \o more) = Head(up[c])
    BY <2>2
  <2>4. QED
    BY <2>1, <2>3 DEF more
<1>8. OnlineDue'
  <2>1. ASSUME NEW e \in online PROVE Announced(bundles, {e}) \/ Begins(up'[e], down'[e])
    BY <1>0, <1>i, <1>2, <1>4, <1>7 DEF OnlineDue, Begins, OnlineOK
  <2>2. QED
    BY <1>2, <2>1 DEF OnlineDue
<1>9. QED
  BY <1>5, <1>6, <1>8 DEF AnnouncedInv

\* A stream that ends takes requests and answers away.
LEMMA BreaksDue ==
  ASSUME TypeOK, AnnouncedInv, NEW c \in Client, Breaks(c), UNCHANGED pending \/ pending' = [pending EXCEPT ![c] = <<>>]
  PROVE  AnnouncedInv'
<1>0. TablesOK /\ RequestsOK /\ AnswersOK /\ OnlineOK
  BY DEF TypeOK
<1>i. NodesDue /\ KnownDue /\ TablesDue /\ StreamsDue /\ OnlineDue
  BY DEF AnnouncedInv
<1>1. UNCHANGED <<bundles, node, lists>> /\ online' = online \ {c}
      /\ \A e \in Client : e # c => up'[e] = up[e] /\ down'[e] = down[e]
  BY <1>0 DEF Breaks, serverVars, RequestsOK, AnswersOK
<1>2. \A e \in Client : /\ up'[e] = up[e] \/ up'[e] = <<>>
                        /\ down'[e] = down[e] \/ down'[e] = <<>>
                        /\ pending'[e] = pending[e] \/ pending'[e] = <<>>
  BY <1>0 DEF Breaks, RequestsOK, AnswersOK, TablesOK
<1>3. StreamDue(bundles, <<>>) /\ AnswersDue(bundles, <<>>) /\ TableDue(bundles, <<>>)
  BY DEF StreamDue, AnswersDue, TableDue
<1>4. NodesDue' /\ KnownDue'
  BY <1>i, <1>1 DEF NodesDue, KnownDue, Devices, Known
<1>5. TablesDue' /\ StreamsDue'
  <2>1. \A e \in Client : TableDue(bundles, pending'[e]) /\ StreamDue(bundles, up'[e]) /\ AnswersDue(bundles, down'[e])
    BY <1>i, <1>2, <1>3 DEF TablesDue, StreamsDue
  <2>2. QED
    BY <1>1, <2>1 DEF TablesDue, StreamsDue
<1>6. OnlineDue'
  BY <1>0, <1>i, <1>1 DEF OnlineDue, OnlineOK
<1>7. QED
  BY <1>4, <1>5, <1>6 DEF AnnouncedInv

\* Every step keeps all devices announced.
LEMMA NextDue ==
  ASSUME TypeOK, AnnouncedInv, [Next]_vars PROVE AnnouncedInv'
<1>1. CASE UNCHANGED vars
  <2>1. UNCHANGED <<bundles, node, lists, pending, up, down, online>>
    BY <1>1 DEF vars, serverVars
  <2>2. QED
    BY <2>1 DEF AnnouncedInv, NodesDue, KnownDue, TablesDue, StreamsDue, OnlineDue, Devices, Known
<1>2. CASE Next
  <2>1. PICK c \in Client :
          \/ Online(c) \/ StreamLost(c) \/ Logout(c)
          \/ \E a \in Account : SelectConversation(c, a)
          \/ Serve(c) \/ HandleStanza(c)
    BY <1>2 DEF Next
  <2>2. CASE Online(c)
    BY <2>2, OnlineStepDue
  <2>3. CASE StreamLost(c)
    BY <2>3, BreaksDue DEF StreamLost
  <2>4. CASE Logout(c)
    BY <2>4, BreaksDue DEF Logout
  <2>5. CASE \E a \in Account : SelectConversation(c, a)
    BY <2>5, SelectDue
  <2>6. CASE Serve(c)
    BY <2>6, ServeDue
  <2>7. CASE HandleStanza(c)
    BY <2>7, HandleDue
  <2>8. QED
    BY <2>1, <2>2, <2>3, <2>4, <2>5, <2>6, <2>7
<1>3. QED
  BY <1>1, <1>2

\* The devices that the accounts list at first are not those that log in.
OthersListed == \A n \in Nodes, a \in Account : Devices(n[a]) \subseteq Other

\* The devices listed at first have their bundles.
LEMMA InitDue == ASSUME OthersListed, Init PROVE AnnouncedInv
<1>1. NodesDue
  BY DEF Init, OthersListed, NodesDue, Announced
<1>2. KnownDue
  BY DEF Init, KnownDue, Known, Announced
<1>3. TablesDue /\ StreamsDue /\ OnlineDue
  BY DEF Init, TablesDue, TableDue, StreamsDue, StreamDue, AnswersDue, OnlineDue
<1>4. QED
  BY <1>1, <1>2, <1>3 DEF AnnouncedInv

-----------------------------------------------------------------------------
\* SessionsFollowFetch, second part: of what a client knows and has asked for,
\* a request is on its way or there is a session.

AnswerOn(q, id) == \E i \in DOMAIN q : q[i].kind # "live" /\ q[i].id = id

Outstanding(table, u, q, id) == id \in DOMAIN table /\ (AnswerOn(q, id) \/ RequestOn(u, id))

Waits(c, id) == Outstanding(pending[c], up[c], down[c], id)

Covered(c, d) ==
  \/ d \in sessions[c]
  \/ \E a \in Account : d \in Known(c, a) /\ Waits(c, <<"bundle", a>>)
  \/ \E a \in Account : Waits(c, <<"bundle", a, d>>)

AskedInv == \A c \in Client : \A d \in AllKnown(c) \ {c} : d \notin unfetched[c] => Covered(c, d)

\* What a client waits for, now and after a step.
LEMMA WaitsIs ==
  ASSUME NEW c, NEW id
  PROVE  /\ Waits(c, id) <=> id \in DOMAIN pending[c] /\ (AnswerOn(down[c], id) \/ RequestOn(up[c], id))
         /\ Waits(c, id)' <=> id \in DOMAIN pending'[c] /\ (AnswerOn(down'[c], id) \/ RequestOn(up'[c], id))
<1>1. Waits(c, id)' = Outstanding(pending'[c], up'[c], down'[c], id)
  BY DEF Waits
<1>2. QED
  BY <1>1 DEF Waits, Outstanding

\* A step that leaves a client's sessions and lists, or adds to them.
LEMMA CoveredStays ==
  ASSUME NEW c, NEW d, Covered(c, d), sessions[c] \subseteq sessions'[c],
         \A a \in Account : Known(c, a) \subseteq Known(c, a)',
         \A a \in Account : d \in Known(c, a) /\ Waits(c, <<"bundle", a>>) => Waits(c, <<"bundle", a>>)',
         \A a \in Account : Waits(c, <<"bundle", a, d>>) => Waits(c, <<"bundle", a, d>>)'
  PROVE  Covered(c, d)'
<1>1. Covered(c, d)' <=>
        \/ d \in sessions'[c]
        \/ \E a \in Account : d \in Known(c, a)' /\ Waits(c, <<"bundle", a>>)'
        \/ \E a \in Account : Waits(c, <<"bundle", a, d>>)'
  BY DEF Covered
<1>2. CASE d \in sessions[c]
  BY <1>1, <1>2
<1>3. CASE \E a \in Account : d \in Known(c, a) /\ Waits(c, <<"bundle", a>>)
  BY <1>1, <1>3
<1>4. CASE \E a \in Account : Waits(c, <<"bundle", a, d>>)
  BY <1>1, <1>4
<1>5. QED
  BY <1>2, <1>3, <1>4 DEF Covered

\* Requests of a client do not end its waiting.
LEMMA WaitsOn ==
  ASSUME TablesOK, RequestsOK, NEW c \in Client, NEW table, NEW requests \in Seq(Requests),
         Request(c, table, requests), NEW id
  PROVE  /\ Waits(c, id) /\ id \in DOMAIN table /\ (AnswerOn(down[c], id) => AnswerOn(down'[c], id)) => Waits(c, id)'
         /\ \A i \in DOMAIN requests : requests[i].id = id => Waits(c, id)'
<1>1. /\ RequestOn(up[c], id) => RequestOn(up'[c], id)
      /\ \A i \in DOMAIN requests : requests[i].id = id => RequestOn(up'[c], id)
  BY AsksMore
<1>2. DOMAIN table \subseteq DOMAIN pending'[c] /\ \A i \in DOMAIN requests : requests[i].id \in DOMAIN pending'[c]
  BY RequestKeeps
<1>3. QED
  BY <1>1, <1>2, WaitsIs

\* Nothing happens to a client.
LEMMA CoveredRests ==
  ASSUME NEW c, NEW d, Covered(c, d), sessions'[c] = sessions[c], pending'[c] = pending[c], up'[c] = up[c],
         \A id : AnswerOn(down[c], id) => AnswerOn(down'[c], id), \A a \in Account : Known(c, a)' = Known(c, a)
  PROVE  Covered(c, d)'
<1>1. \A id : Waits(c, id) => Waits(c, id)'
  BY WaitsIs
<1>2. QED
  BY <1>1, CoveredStays

\* A login, or a conversation that is opened: requests for lists.
LEMMA RequestAsked ==
  ASSUME TypeOK, AskedInv, NEW c \in Client, NEW requests \in Seq(Requests), Request(c, pending[c], requests),
         UNCHANGED <<lists, sessions, unfetched, down>>
  PROVE  AskedInv'
<1>0. TablesOK /\ RequestsOK
  BY DEF TypeOK
<1>1. \A e, a : Known(e, a)' = Known(e, a)
  BY DEF Known
<1>2. \A e : AllKnown(e)' = AllKnown(e)
  BY <1>1 DEF AllKnown
<1>3. ASSUME NEW e \in Client, NEW d \in AllKnown(e) \ {e}, d \notin unfetched[e] PROVE Covered(e, d)'
  <2>1. Covered(e, d)
    BY <1>3 DEF AskedInv
  <2>2. CASE e = c
    <3>1. \A id : Waits(c, id) => Waits(c, id)'
      BY <1>0, WaitsOn, WaitsIs
    <3>2. QED
      BY <1>1, <2>1, <2>2, <3>1, CoveredStays
  <2>3. CASE e # c
    <3>1. pending'[e] = pending[e] /\ up'[e] = up[e]
      BY <1>0, <2>3, RequestKeeps
    <3>2. QED
      BY <1>1, <2>1, <3>1, CoveredRests
  <2>4. QED
    BY <2>2, <2>3
<1>4. QED
  BY <1>2, <1>3 DEF AskedInv

\* A stream that ends: what has no session yet is no longer asked for.
LEMMA BreaksAsked ==
  ASSUME TypeOK, AskedInv, NEW c \in Client, Breaks(c), UNCHANGED pending \/ pending' = [pending EXCEPT ![c] = <<>>]
  PROVE  AskedInv'
<1>0. TablesOK /\ RequestsOK /\ AnswersOK /\ ManagersOK
  BY DEF TypeOK
<1>1. \A e, a : Known(e, a)' = Known(e, a)
  BY DEF Breaks, Known
<1>2. \A e : AllKnown(e)' = AllKnown(e)
  BY <1>1 DEF AllKnown
<1>3. ASSUME NEW e \in Client, NEW d \in AllKnown(e) \ {e}, d \notin unfetched'[e] PROVE Covered(e, d)'
  <2>1. CASE e = c
    <3>1. unfetched'[c] = AllKnown(c) \ sessions[c] /\ sessions' = sessions
      BY <1>0 DEF Breaks, ManagersOK
    <3>2. QED
      BY <1>3, <2>1, <3>1 DEF Covered
  <2>2. CASE e # c
    <3>1. pending'[e] = pending[e] /\ up'[e] = up[e] /\ down'[e] = down[e] /\ unfetched'[e] = unfetched[e]
      BY <1>0, <2>2 DEF Breaks, TablesOK, RequestsOK, AnswersOK, ManagersOK
    <3>2. Covered(e, d) /\ sessions'[e] = sessions[e]
      BY <1>3, <3>1 DEF AskedInv, Breaks
    <3>3. QED
      BY <1>1, <3>1, <3>2, CoveredRests
  <2>3. QED
    BY <2>1, <2>2
<1>4. QED
  BY <1>2, <1>3 DEF AskedInv

\* A stream that gets longer, and one whose first stanza is taken.
LEMMA AnswerStays ==
  ASSUME NEW q \in Seq(Stanza), NEW more \in Seq(Stanza), NEW id
  PROVE  /\ AnswerOn(q, id) => AnswerOn(q \o more, id)
         /\ AnswerOn(more, id) => AnswerOn(q \o more, id)
         /\ q # <<>> /\ AnswerOn(q, id) => AnswerOn(Tail(q), id) \/ (Head(q).kind # "live" /\ Head(q).id = id)
<1>1. /\ \A i \in DOMAIN q : i \in DOMAIN (q \o more) /\ (q \o more)[i] = q[i]
      /\ \A i \in DOMAIN more : Len(q) + i \in DOMAIN (q \o more) /\ (q \o more)[Len(q) + i] = more[i]
  OBVIOUS
<1>2. ASSUME q # <<>>, AnswerOn(q, id) PROVE AnswerOn(Tail(q), id) \/ (Head(q).kind # "live" /\ Head(q).id = id)
  <2>1. PICK i \in DOMAIN q : q[i].kind # "live" /\ q[i].id = id
    BY <1>2 DEF AnswerOn
  <2>2. Head(q) = q[1] /\ (i # 1 => i - 1 \in DOMAIN Tail(q) /\ Tail(q)[i - 1] = q[i])
    BY <1>2, TailType
  <2>3. QED
    BY <2>1, <2>2 DEF AnswerOn
<1>3. QED
  BY <1>1, <1>2 DEF AnswerOn

\* A request that is served becomes an answer.
LEMMA ServeAsked ==
  ASSUME TypeOK, AskedInv, NEW c \in Client, Serve(c) PROVE AskedInv'
<1>0. ServerOK /\ TablesOK /\ RequestsOK /\ AnswersOK
  BY DEF TypeOK
<1>1. PICK r \in Requests : Serves(c, r)
  BY <1>0, ServeDoes
<1>2. UNCHANGED <<lists, sessions, unfetched, pending>>
  BY <1>1 DEF Serves
<1> DEFINE a == Answer(r.id, r.op)
<1>3. a[1] \in Stanza /\ a[1].kind \in {"result", "error"} /\ a[1].id = r.id
  BY <1>0, AnswerType
<1>4. ASSUME NEW e \in Client, NEW id
      PROVE  /\ AnswerOn(down[e], id) => AnswerOn(down'[e], id)
             /\ e = c /\ r.id = id => AnswerOn(down'[e], id)
  <2>1. down'[e] = (down[e] \o Event(e, r)) \o Reply(c, e, r) /\ down[e] \in Seq(Stanza)
    BY <1>0, <1>1, <1>4 DEF Serves, AnswersOK
  <2>2. Event(e, r) \in Seq(Stanza)
    <3>1. ASSUME Told(e, r) PROVE Live(r.op.devices) \in Stanza
      <4>1. r \in PublishRequests
        BY <3>1, RequestOf DEF Told
      <4>2. PICK D \in SUBSET Id : r.op.devices = D
        BY <4>1, PublishIs
      <4>3. QED
        BY <4>2 DEF Stanza
    <3>2. CASE Told(e, r)
      <4>1. Live(r.op.devices) \in Stanza
        BY <3>1, <3>2
      <4>2. QED
        BY <3>2, <4>1 DEF Event
    <3>3. CASE ~Told(e, r)
      BY <3>3 DEF Event
    <3>4. QED
      BY <3>2, <3>3
  <2>3. Reply(c, e, r) \in Seq(Stanza)
    BY <1>3 DEF Reply
  <2>4. PICK x \in Seq(Stanza), y \in Seq(Stanza), z \in Seq(Stanza) :
          x = down[e] /\ y = Event(e, r) /\ z = Reply(c, e, r)
    BY <2>1, <2>2, <2>3
  <2>5. x \o y \in Seq(Stanza) /\ (AnswerOn(x, id) => AnswerOn(x \o y, id))
    BY AnswerStays
  <2>6. PICK w \in Seq(Stanza) : w = x \o y
    BY <2>5
  <2>7. (AnswerOn(w, id) => AnswerOn(w \o z, id)) /\ (AnswerOn(z, id) => AnswerOn(w \o z, id))
    BY AnswerStays
  <2>8. down'[e] = w \o z
    BY <2>1, <2>4, <2>6
  <2>9. e = c /\ r.id = id => AnswerOn(z, id)
    BY <1>3, <2>4 DEF Reply, AnswerOn
  <2>10. QED
    BY <2>4, <2>5, <2>6, <2>7, <2>8, <2>9
<1>5. ASSUME NEW e \in Client, NEW id, Waits(e, id) PROVE Waits(e, id)'
  <2>1. CASE e # c
    <3>1. up'[e] = up[e]
      BY <1>0, <1>1, <1>5, <2>1 DEF Serves, RequestsOK
    <3>2. QED
      BY <1>2, <1>4, <1>5, <3>1, WaitsIs
  <2>2. CASE e = c
    <3> DEFINE T == {Sent(x) : x \in Requests}
    <3>1. up[c] \in Seq(T) /\ up[c] # <<>> /\ Head(up[c]) = Sent(r) /\ up'[c] = Tail(up[c])
      BY <1>0, <1>1 DEF RequestsOK, Serves
    <3> HIDE DEF T
    <3>2. /\ Head(up[c]) = up[c][1]
          /\ \A i \in DOMAIN up[c] : i # 1 => i - 1 \in DOMAIN Tail(up[c]) /\ Tail(up[c])[i - 1] = up[c][i]
      BY <3>1, TailType
    <3>3. RequestOn(up[c], id) => RequestOn(up'[c], id) \/ r.id = id
      <4>1. Sent(r).id = r.id
        BY DEF Sent
      <4>2. QED
        BY <3>1, <3>2, <4>1 DEF RequestOn
    <3>4. QED
      BY <1>2, <1>4, <1>5, <2>2, <3>3, WaitsIs
  <2>3. QED
    BY <2>1, <2>2
<1>6. \A e, x : Known(e, x)' = Known(e, x)
  BY <1>2 DEF Known
<1>7. \A e : AllKnown(e)' = AllKnown(e)
  BY <1>6 DEF AllKnown
<1>8. ASSUME NEW e \in Client, NEW d \in AllKnown(e) \ {e}, d \notin unfetched[e] PROVE Covered(e, d)'
  <2>1. Covered(e, d)
    BY <1>8 DEF AskedInv
  <2>2. QED
    BY <1>2, <1>5, <1>6, <2>1, CoveredStays
<1>9. QED
  BY <1>2, <1>7, <1>8 DEF AskedInv

\* What an answer leads to: devices that become known are asked for, those of
\* an account that were asked for together are found or asked for one by one,
\* and one that was asked for is found.
EffectAsks(c, rest, r, s) ==
  \E a \in Account : \E D, found, requests :
    /\ Effect(c, rest, a, D, found, requests)
    /\ D # {} => \E i \in DOMAIN requests : requests[i].id = <<"bundle", a>>
    /\ r.op.name = "bundles" =>
         \A d \in Known(c, r.entry.jid) \ {c} :
           d \in found \/ \E x \in Account, i \in DOMAIN requests : requests[i].id = <<"bundle", x, d>>
    /\ r.op.name = "bundle" /\ s.kind = "result" => r.entry.device \in found

\* An answer that is not about bundles, and makes no device known.
LEMMA OnlyAsks ==
  ASSUME NEW c \in Client, NEW rest, NEW r \in Requests, NEW s, NEW requests, Effect(c, rest, Own, {}, {}, requests),
         r.op.name \notin {"bundles", "bundle"}
  PROVE  EffectAsks(c, rest, r, s)
<1>1. Own \in Account
  BY DEF Account
<1>2. QED
  BY <1>1 DEF EffectAsks

\* Every answer does so.
LEMMA ComesAsks ==
  ASSUME ManagersOK, NEW c \in Client, NEW rest, NEW r \in Requests, NEW s \in Stanza,
         s.kind # "live", s.id = r.id, Comes(c, rest, r, s)
  PROVE  EffectAsks(c, rest, r, s)
<1>0. /\ Own \in Account /\ \A a : FetchBundles(a).id = <<"bundle", a>>
      /\ \A a, d : FetchBundle(a, d).id = <<"bundle", a, d>>
  BY DEF Account, FetchBundles, FetchBundle
<1>1. CASE OwnListComes(c, rest, r, s)
  <2> DEFINE D == AllDevices(s.payload) \cup {c}
  <2>1. PICK requests :
          /\ Effect(c, rest, Own, D, {}, requests)
          /\ requests[1] = PublishList(D, "merged")
          /\ requests[2] = IF Cardinality(s.payload) > 1 THEN Purge(D) ELSE PublishList(D, "v0")
          /\ requests[3] = FetchBundles(Own) /\ Len(requests) = 3
    BY <1>1, OwnListDoes
  <2> HIDE DEF D
  <2>2. requests \in Seq(Requests)
    BY <2>1 DEF Effect
  <2>3. 3 \in DOMAIN requests
    BY <2>1, <2>2
  <2>4. requests[3].id = <<"bundle", Own>>
    BY <1>0, <2>1
  <2>5. r.op.name = "list"
    BY <1>1 DEF OwnListComes
  <2>6. QED
    BY <1>0, <2>1, <2>3, <2>4, <2>5 DEF EffectAsks
<1>2. CASE ListComes(c, rest, r, s)
  <2>1. PICK requests :
          /\ Effect(c, rest, r.entry.jid, AllDevices(s.payload), {}, requests)
          /\ \A i \in DOMAIN requests : requests[i] = FetchBundles(r.entry.jid)
          /\ AllDevices(s.payload) # {} => Len(requests) = 1
    BY <1>2, ListDoes
  <2>2. r.entry.jid \in Account
    BY <1>2, ListDoes
  <2>3. requests \in Seq(Requests)
    BY <2>1 DEF Effect
  <2>4. AllDevices(s.payload) # {} => 1 \in DOMAIN requests
    BY <2>1, <2>3
  <2>5. AllDevices(s.payload) # {} => \E i \in DOMAIN requests : requests[i].id = <<"bundle", r.entry.jid>>
    BY <1>0, <2>1, <2>4
  <2>6. r.op.name = "list"
    BY <1>2 DEF ListComes
  <2>7. QED
    BY <2>1, <2>2, <2>5, <2>6 DEF EffectAsks
<1>3. CASE NoListComes(c, rest, r, s)
  <2>1. PICK requests : Effect(c, rest, Own, {}, {}, requests)
    BY <1>3, NoListDoes
  <2>2. r.op.name = "list"
    BY <1>3 DEF NoListComes
  <2>3. QED
    BY <2>1, <2>2, OnlyAsks
<1>4. CASE PublishedComes(c, rest, r, s)
  BY <1>4, PublishedDoes, OnlyAsks DEF PublishedComes
<1>5. CASE RefusedComes(c, rest, r, s)
  <2>1. \E requests : Effect(c, rest, Own, {}, {}, requests)
    BY <1>5, RefusedDoes
  <2>2. r.op.name = "publish"
    BY <1>5 DEF RefusedComes
  <2>3. QED
    BY <2>1, <2>2, OnlyAsks
<1>6. CASE PurgedComes(c, rest, r, s)
  BY <1>6, PurgedDoes, OnlyAsks DEF PurgedComes
<1>7. CASE ConfiguredComes(c, rest, r, s)
  BY <1>7, ConfiguredDoes, OnlyAsks DEF ConfiguredComes
<1>8. CASE BundlesCome(c, rest, r, s)
  <2>1. PICK requests \in Seq(Requests), found \in SUBSET Id :
          /\ Effect(c, rest, Own, {}, found, requests)
          /\ AsksEach(r.entry.jid, (Known(c, r.entry.jid) \ {c}) \ found, requests)
    BY <1>8, BundlesDoes
  <2>2. r.entry.jid \in Account /\ r.op.name = "bundles"
    BY <1>8, BundlesDoes DEF BundlesCome
  <2>3. ASSUME NEW d \in Known(c, r.entry.jid) \ {c}, d \notin found
        PROVE  \E x \in Account, i \in DOMAIN requests : requests[i].id = <<"bundle", x, d>>
    <3>1. PICK i \in DOMAIN requests : requests[i] = FetchBundle(r.entry.jid, d)
      BY <2>1, <2>3 DEF AsksEach
    <3>2. QED
      BY <1>0, <2>2, <3>1
  <2>4. QED
    BY <1>0, <2>1, <2>2, <2>3 DEF EffectAsks
<1>9. CASE BundleComes(c, rest, r, s)
  <2>1. Effect(c, rest, Own, {}, IF s.kind = "result" THEN {r.entry.device} ELSE {}, <<>>)
    BY <1>9, BundleComesDoes
  <2>2. r.op.name = "bundle"
    BY <1>9 DEF BundleComes
  <2>3. QED
    BY <1>0, <2>1, <2>2 DEF EffectAsks
<1>10. CASE BundlePublishedComes(c, rest, r, s)
  <2>1. Effect(c, rest, Own, {}, {}, <<>>) /\ r.op.name = "publish-bundle"
    BY <1>10, BundleDoes DEF BundlePublishedComes
  <2>2. QED
    BY <2>1, OnlyAsks
<1>11. QED
  BY <1>1, <1>2, <1>3, <1>4, <1>5, <1>6, <1>7, <1>8, <1>9, <1>10 DEF Comes

\* The requests for bundles by their ids.
LEMMA BundleIds ==
  ASSUME NEW r \in Requests, NEW a \in Account, NEW d \in Id
  PROVE  /\ r.id = <<"bundle", a>> => r.op.name = "bundles" /\ r.entry.jid = a
         /\ r.id = <<"bundle", a, d>> => r.op.name = "bundle" /\ r.entry.device = d
<1>1. FetchBundles(a) \in Requests /\ FetchBundle(a, d) \in Requests
  BY OtherRequests
<1>2. /\ FetchBundles(a).id = <<"bundle", a>> /\ FetchBundles(a).op.name = "bundles" /\ FetchBundles(a).entry.jid = a
      /\ FetchBundle(a, d).id = <<"bundle", a, d>> /\ FetchBundle(a, d).op.name = "bundle"
      /\ FetchBundle(a, d).entry.device = d
  BY DEF FetchBundles, FetchBundle
<1>3. PICK many \in Requests, one \in Requests : many = FetchBundles(a) /\ one = FetchBundle(a, d)
  BY <1>1
<1>4. r.id = many.id => r.op.name = many.op.name
                       /\ (r.op.name \in {"list", "bundles"} => r.entry.jid = many.entry.jid)
  BY SameId
<1>5. r.id = one.id => r.op.name = one.op.name /\ (r.op.name = "bundle" => r.entry.device = one.entry.device)
  BY SameId
<1>6. QED
  BY <1>2, <1>3, <1>4, <1>5

\* A client that reads an answer asks for what it leaves open.
LEMMA HandleAsked ==
  ASSUME TypeOK, AnnouncedInv, AskedInv, NEW c \in Client, HandleStanza(c) PROVE AskedInv'
<1>0. ServerOK /\ ManagersOK /\ TablesOK /\ RequestsOK /\ AnswersOK /\ OnlineOK
  BY DEF TypeOK
<1>1. PICK s \in Stanza :
        /\ Takes(c, s)
        /\ \/ \E D \in SUBSET Id : s = Live(D) /\ LiveUpdate(c, D)
           \/ s.kind # "live" /\ s.id \notin DOMAIN pending[c] /\ Ignored
           \/ \E r \in Requests : Answers(c, s, r) /\ Comes(c, Rest(c, s), r, s)
  BY <1>0, HandleDoes
<1>2. /\ down[c] \in Seq(Stanza) /\ down[c] # <<>> /\ s = Head(down[c]) /\ down'[c] = Tail(down[c])
      /\ \A e \in Client : e # c => down'[e] = down[e]
  BY <1>0, <1>1 DEF AnswersOK, Takes
<1>3. StanzaDue(bundles, s)
  <2>1. AnswersDue(bundles, down[c])
    BY DEF AnnouncedInv, StreamsDue
  <2>2. QED
    BY <1>2, <2>1, AnswersJoin
<1>4. \A id : AnswerOn(down[c], id) => AnswerOn(down'[c], id) \/ (s.kind # "live" /\ s.id = id)
  BY <1>2, AnswerStays
<1>5. CASE \E D \in SUBSET Id : s = Live(D) /\ LiveUpdate(c, D)
  <2>1. PICK D \in SUBSET Id : s = Live(D) /\ LiveUpdate(c, D)
    BY <1>5
  <2>2. s.kind = "live"
    BY <2>1 DEF Live
  <2>3. /\ UNCHANGED <<sessions, pending, up>>
        /\ \A e \in Client, b \in Account :
             Known(e, b)' = IF e = c /\ b = Own THEN Known(c, Own) \cup D ELSE Known(e, b)
        /\ unfetched' = [unfetched EXCEPT ![c] = @ \cup (D \ Known(c, Own))]
    BY <1>0, <2>1, LiveDoes
  <2>4. ASSUME NEW e \in Client, NEW d \in AllKnown(e)' \ {e}, d \notin unfetched'[e] PROVE Covered(e, d)'
    <3>1. PICK b \in Account : d \in Known(e, b)'
      BY <2>4 DEF AllKnown
    <3>2. d \in Known(e, b) /\ d \notin unfetched[e]
      BY <1>0, <2>3, <2>4, <3>1 DEF ManagersOK
    <3>3. Covered(e, d)
      BY <2>4, <3>2 DEF AskedInv, AllKnown
    <3>4. \A id : Waits(e, id) => Waits(e, id)'
      <4>1. \A id : AnswerOn(down[e], id) => AnswerOn(down'[e], id)
        BY <1>2, <1>4, <2>2
      <4>2. QED
        BY <2>3, <4>1, WaitsIs
    <3>5. \A x \in Account : Known(e, x) \subseteq Known(e, x)'
      BY <2>3
    <3>6. QED
      BY <2>3, <3>3, <3>4, <3>5, CoveredStays
  <2>5. QED
    BY <2>4 DEF AskedInv
<1>6. CASE s.kind # "live" /\ s.id \notin DOMAIN pending[c] /\ Ignored
  <2>1. UNCHANGED <<sessions, pending, up, unfetched>> /\ \A e, b : Known(e, b)' = Known(e, b)
    BY <1>6 DEF Ignored, Known
  <2>2. \A e : AllKnown(e)' = AllKnown(e)
    BY <2>1 DEF AllKnown
  <2>3. ASSUME NEW e \in Client, NEW d \in AllKnown(e) \ {e}, d \notin unfetched[e] PROVE Covered(e, d)'
    <3>1. Covered(e, d)
      BY <2>3 DEF AskedInv
    <3>2. \A id : Waits(e, id) => Waits(e, id)'
      <4>1. \A id : id \in DOMAIN pending[e] /\ AnswerOn(down[e], id) => AnswerOn(down'[e], id)
        BY <1>2, <1>4, <1>6
      <4>2. QED
        BY <2>1, <4>1, WaitsIs
    <3>3. QED
      BY <2>1, <3>1, <3>2, CoveredStays
  <2>4. QED
    BY <2>1, <2>2, <2>3 DEF AskedInv
<1>7. CASE \E r \in Requests : Answers(c, s, r) /\ Comes(c, Rest(c, s), r, s)
  <2>1. PICK r \in Requests : Answers(c, s, r) /\ Comes(c, Rest(c, s), r, s)
    BY <1>7
  <2>2. s.kind # "live" /\ s.id = r.id
    BY <2>1 DEF Answers
  <2>3. EffectAsks(c, Rest(c, s), r, s)
    BY <1>0, <2>1, <2>2, ComesAsks
  <2>4. PICK a, D, found, requests :
          /\ a \in Account /\ Effect(c, Rest(c, s), a, D, found, requests)
          /\ D # {} => \E i \in DOMAIN requests : requests[i].id = <<"bundle", a>>
          /\ r.op.name = "bundles" =>
               \A d \in Known(c, r.entry.jid) \ {c} :
                 d \in found \/ \E x \in Account, i \in DOMAIN requests : requests[i].id = <<"bundle", x, d>>
          /\ r.op.name = "bundle" /\ s.kind = "result" => r.entry.device \in found
    BY <2>3 DEF EffectAsks
  <2>5. /\ requests \in Seq(Requests) /\ Request(c, Rest(c, s), requests)
        /\ \A e \in Client, b \in Account :
             Known(e, b)' = IF e = c /\ b = a THEN Known(c, a) \cup D ELSE Known(e, b)
        /\ sessions' = [sessions EXCEPT ![c] = @ \cup found]
        /\ unfetched' = [unfetched EXCEPT ![c] = @ \ D]
    BY <2>4 DEF Effect
  <2>6. sessions'[c] = sessions[c] \cup found /\ unfetched'[c] = unfetched[c] \ D
        /\ \A e \in Client : e # c => sessions'[e] = sessions[e] /\ unfetched'[e] = unfetched[e]
    BY <1>0, <2>5 DEF ManagersOK
  <2>7. \A i \in DOMAIN requests : Waits(c, requests[i].id)'
    BY <1>0, <2>5, WaitsOn
  <2>8. ASSUME NEW id, id # s.id, Waits(c, id) PROVE Waits(c, id)'
    <3>1. id \in DOMAIN Rest(c, s)
      BY <2>8, WaitsIs DEF Rest, Restrict
    <3>2. AnswerOn(down[c], id) => AnswerOn(down'[c], id)
      BY <1>4, <2>8
    <3>3. QED
      BY <1>0, <2>5, <2>8, <3>1, <3>2, WaitsOn
  <2>k. \A x \in Account : Known(c, x) \subseteq Known(c, x)'
    BY <2>5
  \* Of the client that reads: new devices are asked for, and what the answer
  \* was about is found, or asked for one by one.
  <2>9. ASSUME NEW d \in AllKnown(c)' \ {c}, d \notin unfetched'[c] PROVE Covered(c, d)'
    <3>c. Covered(c, d)' <=>
            \/ d \in sessions'[c]
            \/ \E x \in Account : d \in Known(c, x)' /\ Waits(c, <<"bundle", x>>)'
            \/ \E x \in Account : Waits(c, <<"bundle", x, d>>)'
      BY DEF Covered
    <3>1. CASE d \in D
      <4>1. a \in Account /\ d \in Known(c, a)'
        BY <2>4, <2>5, <3>1
      <4>2. Waits(c, <<"bundle", a>>)'
        BY <2>4, <2>7, <3>1
      <4>3. QED
        BY <3>c, <4>1, <4>2
    <3>2. CASE d \notin D
      <4>1. PICK b \in Account : d \in Known(c, b)'
        BY <2>9 DEF AllKnown
      <4>2. d \in Known(c, b) /\ d \notin unfetched[c]
        BY <2>5, <2>6, <2>9, <3>2, <4>1
      <4>3. Covered(c, d)
        BY <2>9, <4>2 DEF AskedInv, AllKnown
      <4>4. CASE d \in sessions[c]
        BY <2>6, <3>c, <4>4
      <4>5. CASE \E x \in Account : d \in Known(c, x) /\ Waits(c, <<"bundle", x>>)
        <5>1. PICK x \in Account : d \in Known(c, x) /\ Waits(c, <<"bundle", x>>)
          BY <4>5
        <5>2. CASE s.id # <<"bundle", x>>
          BY <2>8, <2>k, <3>c, <5>1, <5>2
        <5>3. CASE s.id = <<"bundle", x>>
          <6>1. d \in Id
            BY <1>0, <5>1, KnownType
          <6>2. r.op.name = "bundles" /\ r.entry.jid = x
            BY <2>2, <5>3, <6>1, BundleIds
          <6>3. CASE d \in found
            BY <2>6, <3>c, <6>3
          <6>4. CASE \E y \in Account, i \in DOMAIN requests : requests[i].id = <<"bundle", y, d>>
            BY <2>7, <3>c, <6>4
          <6>5. QED
            BY <2>4, <2>9, <5>1, <6>2, <6>3, <6>4
        <5>4. QED
          BY <5>2, <5>3
      <4>6. CASE \E x \in Account : Waits(c, <<"bundle", x, d>>)
        <5>1. PICK x \in Account : Waits(c, <<"bundle", x, d>>)
          BY <4>6
        <5>2. CASE s.id # <<"bundle", x, d>>
          BY <2>8, <3>c, <5>1, <5>2
        <5>3. CASE s.id = <<"bundle", x, d>>
          <6>1. d \in Id
            BY <1>0, <4>2, KnownType
          <6>i. r.id = <<"bundle", x, d>>
            BY <2>2, <5>3
          <6>2. r.op.name = "bundle" /\ r.entry.device = d
            BY <6>1, <6>i, BundleIds
          <6>3. s.kind = "result"
            <7>1. Asked(s.id) = "bundle"
              BY <2>2, <6>2, RequestOf
            <7>2. s.kind \in {"result", "error"}
              BY <2>2, AnswerIs
            <7>3. QED
              BY <1>3, <7>1, <7>2 DEF StanzaDue
          <6>4. QED
            BY <2>4, <2>6, <3>c, <6>2, <6>3
        <5>4. QED
          BY <5>2, <5>3
      <4>7. QED
        BY <4>3, <4>4, <4>5, <4>6 DEF Covered
    <3>3. QED
      BY <3>1, <3>2
  <2>10. ASSUME NEW e \in Client, e # c, NEW d \in AllKnown(e)' \ {e}, d \notin unfetched'[e] PROVE Covered(e, d)'
    <3>1. \A x \in Account : Known(e, x)' = Known(e, x)
      BY <2>5, <2>10
    <3>2. d \in AllKnown(e)
      BY <2>10, <3>1 DEF AllKnown
    <3>3. Covered(e, d) /\ sessions'[e] = sessions[e]
      BY <2>6, <2>10, <3>2 DEF AskedInv
    <3>4. pending'[e] = pending[e] /\ up'[e] = up[e]
      BY <1>0, <2>5, <2>10, RequestKeeps
    <3>5. down'[e] = down[e]
      BY <1>2, <2>10
    <3>6. QED
      BY <3>1, <3>3, <3>4, <3>5, CoveredRests
  <2>11. QED
    BY <2>9, <2>10 DEF AskedInv
<1>8. QED
  BY <1>1, <1>5, <1>6, <1>7

\* Every step keeps what is asked for.
LEMMA NextAsked ==
  ASSUME TypeOK, AnnouncedInv, AskedInv, [Next]_vars PROVE AskedInv'
<1>1. CASE UNCHANGED vars
  <2>1. UNCHANGED <<lists, sessions, pending, up, down, unfetched>>
    BY <1>1 DEF vars, serverVars
  <2>2. \A e, a : Known(e, a)' = Known(e, a)
    BY <2>1 DEF Known
  <2>3. \A e : AllKnown(e)' = AllKnown(e)
    BY <2>2 DEF AllKnown
  <2>4. ASSUME NEW e \in Client, NEW d \in AllKnown(e) \ {e}, d \notin unfetched[e] PROVE Covered(e, d)'
    <3>1. Covered(e, d)
      BY <2>4 DEF AskedInv
    <3>2. QED
      BY <2>1, <2>2, <3>1, CoveredRests
  <2>5. QED
    BY <2>1, <2>3, <2>4 DEF AskedInv
<1>2. CASE Next
  <2>1. PICK c \in Client :
          \/ Online(c) \/ StreamLost(c) \/ Logout(c)
          \/ \E a \in Account : SelectConversation(c, a)
          \/ Serve(c) \/ HandleStanza(c)
    BY <1>2 DEF Next
  <2>2. CASE Online(c)
    <3>1. PublishBundle \in Requests /\ FetchList(Own, TRUE) \in Requests
      BY ListRequest, OtherRequests
    <3>2. << PublishBundle, FetchList(Own, TRUE) >> \in Seq(Requests)
      BY <3>1, TwoRequests
    <3>3. Request(c, pending[c], << PublishBundle, FetchList(Own, TRUE) >>)
          /\ UNCHANGED <<lists, sessions, unfetched, down>>
      BY <2>2 DEF Online
    <3>4. QED
      BY <3>2, <3>3, RequestAsked
  <2>3. CASE StreamLost(c)
    BY <2>3, BreaksAsked DEF StreamLost
  <2>4. CASE Logout(c)
    BY <2>4, BreaksAsked DEF Logout
  <2>5. CASE \E a \in Account : SelectConversation(c, a)
    <3>1. PICK a \in Account : SelectConversation(c, a)
      BY <2>5
    <3>2. << FetchList(a, FALSE) >> \in Seq(Requests)
      BY ListRequest, OneRequest
    <3>3. Request(c, pending[c], << FetchList(a, FALSE) >>) /\ UNCHANGED <<lists, sessions, unfetched, down>>
      BY <3>1 DEF SelectConversation
    <3>4. QED
      BY <3>2, <3>3, RequestAsked
  <2>6. CASE Serve(c)
    BY <2>6, ServeAsked
  <2>7. CASE HandleStanza(c)
    BY <2>7, HandleAsked
  <2>8. QED
    BY <2>1, <2>2, <2>3, <2>4, <2>5, <2>6, <2>7
<1>3. QED
  BY <1>1, <1>2

\* With nothing on its way, what was asked for has a session.
LEMMA AskedSessions == ASSUME TypeOK, AskedInv PROVE SessionsFollowFetch
<1> SUFFICES ASSUME Settled, NEW c \in online, NEW d \in AllKnown(c) \ {c}, d \notin unfetched[c]
             PROVE  d \in sessions[c]
  BY DEF SessionsFollowFetch
<1>1. c \in Client
  BY DEF TypeOK, OnlineOK
<1>2. up[c] = <<>> /\ down[c] = <<>>
  BY <1>1 DEF Settled, Quiet
<1>3. \A id : ~AnswerOn(down[c], id) /\ ~RequestOn(up[c], id)
  BY <1>2 DEF AnswerOn, RequestOn
<1>4. Covered(c, d)
  BY <1>1 DEF AskedInv
<1>5. QED
  BY <1>3, <1>4, WaitsIs DEF Covered

\* Once nothing is on its way, a connected client has a session with every
\* device it has asked for, for any number of clients, servers of any kind,
\* breaks and logins: a bundle that is not in the account's node is asked for
\* in the device's (client.rs, lines 1898 and 2029), where every device that
\* is listed has put it before it was.  Devices that the accounts list at
\* first must be others': one that was listed before it ever published a
\* bundle is not asked again.
THEOREM FetchedHaveSessions == ASSUME OthersListed PROVE Spec => []SessionsFollowFetch
<1>1. Init => AnnouncedInv
  BY InitDue
<1>2. Init => AskedInv
  BY DEF Init, AskedInv, AllKnown, Known
<1>3. TypeOK /\ AnnouncedInv /\ [Next]_vars => AnnouncedInv'
  BY NextDue
<1>4. TypeOK /\ AnnouncedInv /\ AskedInv /\ [Next]_vars => AskedInv'
  BY NextAsked
<1>5. TypeOK /\ AskedInv => SessionsFollowFetch
  BY AskedSessions
<1>6. QED
  BY <1>1, <1>2, <1>3, <1>4, <1>5, TypeCorrect, PTL DEF Spec

-----------------------------------------------------------------------------
\* The list is complete, or what a client is about to do completes it

Writes == {"publish", "purge", "configure"}

PurgeId     == <<"purge-devices", Own>>
ConfigureId == <<"configure", Own>>

\* The devices the list is to name.
Whole == online \cup initial

\* The server would refuse a publication.
Refuses == server.strict /\ node[Own] # None /\ ~node[Own].options

OwnEntry(table)     == OwnListId \in DOMAIN table /\ table[OwnListId].own
WriteEntries(table) == {id \in DOMAIN table : Asked(id) \in Writes}
PublishOn(u)        == \E i \in DOMAIN u : u[i].op.name = "publish"
WriteOn(u)          == \E i \in DOMAIN u : u[i].op.name \in Writes
WrittenOn(q)        == \E i \in DOMAIN q : q[i].kind # "live" /\ Asked(q[i].id) \in Writes

IsRefusal(s)        == s.kind = "error" /\ Asked(s.id) = "publish"
RefusalOn(q)        == \E i \in DOMAIN q : IsRefusal(q[i])
MayRetry(table, id) == id \in DOMAIN table /\ Asked(id) = "publish" /\ ~table[id].retry

\* A client between the fetch of a login and the answer to what follows from it.
Busy(table, u) == OwnEntry(table) \/ WriteEntries(table) # {} \/ PublishOn(u)

\* A refusal that leads to the configuration of the node; a publication that
\* is not refused, or leads to one that is not.
RefusedFirst(q, id) ==
  \E i \in DOMAIN q :
    /\ IsRefusal(q[i]) /\ q[i].id = id
    /\ \A j \in DOMAIN q : j < i /\ q[j].kind # "live" /\ q[j].id = id => q[j].kind = "error"

WillConfigure(table, q) == \E id \in DOMAIN table : MayRetry(table, id) /\ RefusedFirst(q, id)

WillPublish(table, u, refuses) ==
  \E i \in DOMAIN u : u[i].op.name = "publish" /\ (refuses => MayRetry(table, u[i].id))

\* What completes the list in the end.
Mends(table, u, q, refuses) ==
  \/ OwnEntry(table)
  \/ Outstanding(table, u, q, PurgeId) \/ Outstanding(table, u, q, ConfigureId)
  \/ WillConfigure(table, q) \/ WillPublish(table, u, refuses)

\* The answer to the fetch of a login brings the devices W but the client's own.
Brings(s, c, W, refuses) ==
  IF s.kind = "result" THEN W \subseteq AllDevices(s.payload) \cup {c}
  ELSE s.condition = "item-not-found" /\ W \subseteq {c} /\ ~refuses

FirstBrings(q, c, W, refuses) ==
  \E i \in DOMAIN q :
    /\ IsListAnswer(q[i]) /\ Brings(q[i], c, W, refuses)
    /\ \A j \in DOMAIN q : j < i => ~IsListAnswer(q[j])

\* A login that waits for the list N of its account: nothing was written yet.
LoginGood(c, table, u, q, W, N, refuses) ==
  OwnEntry(table) =>
    /\ WriteEntries(table) = {} /\ ~WriteOn(u) /\ ~WrittenOn(q)
    /\ W \subseteq N \cup {c}
    /\ (NoListOn(q) /\ RequestOn(u, OwnListId)) \/ FirstBrings(q, c, W, refuses)

\* What is written, or will be, are lists of all devices.
AimGood(table, u, q, K, W, refuses) ==
  /\ \A i \in DOMAIN u : u[i].op.name = "publish" => W \subseteq u[i].op.devices
  /\ \A id \in {PurgeId, ConfigureId} \cap DOMAIN table : W \subseteq table[id].devices
  /\ WriteEntries(table) # {} /\ (refuses \/ RefusalOn(q)) => W \subseteq K

\* A purge and a configuration are followed by a publication: their entry is in
\* the table, or the publication is behind them already.
OrderGood(table, u, q) ==
  /\ \A i \in DOMAIN u : u[i].op.name = "purge" =>
       /\ PurgeId \in DOMAIN table /\ ~AnswerOn(q, PurgeId)
       /\ \A j \in DOMAIN u : u[j].op.name = "purge" => j = i
  /\ \A i \in DOMAIN u : u[i].op.name = "configure" =>
       ConfigureId \in DOMAIN table \/ \E j \in DOMAIN u : j > i /\ u[j].op.name = "publish"

\* What answers say of the node.
TrueGood(q, refuses) ==
  \A i \in DOMAIN q : q[i].kind # "live" =>
    /\ Asked(q[i].id) = "publish" /\ q[i].kind = "result" => ~refuses
    /\ Asked(q[i].id) = "configure" => ~refuses
    /\ IsRefusal(q[i]) => q[i].condition = "precondition-not-met"

Good(c, table, u, q, K, W, N, refuses) ==
  /\ LoginGood(c, table, u, q, W, N, refuses)
  /\ AimGood(table, u, q, K, W, refuses)
  /\ OrderGood(table, u, q)
  /\ TrueGood(q, refuses)

\* Nothing happened that the publication of a list does not allow for.
Allowed == disturbed = {} /\ ~(server.strict /\ server.refuses)

IsBusy(c)  == Busy(pending[c], up[c])
IsGood(c)  == Good(c, pending[c], up[c], down[c], Known(c, Own), Whole, Devices(node[Own]), Refuses)
IsMending(c) == Mends(pending[c], up[c], down[c], Refuses)

CompleteInv ==
  Allowed =>
    /\ \A c \in Client : IsBusy(c) => c \in online
    /\ \A c, d \in Client : IsBusy(c) /\ IsBusy(d) => c = d
    /\ \A c \in Client : IsGood(c)
    /\ Whole \subseteq Devices(node[Own]) \/ \E c \in Client : IsMending(c)

\* The three, now and after a step.
LEMMA CompleteIs ==
  ASSUME NEW c
  PROVE  /\ IsBusy(c)' <=> Busy(pending'[c], up'[c])
         /\ IsGood(c)' <=> Good(c, pending'[c], up'[c], down'[c], Known(c, Own)', Whole', Devices(node[Own])', Refuses')
         /\ IsMending(c)' <=> Mends(pending'[c], up'[c], down'[c], Refuses')
BY DEF IsBusy, IsGood, IsMending

\* A table and streams as a client has them.
Typed(table, u, q) == Entered(table) /\ u \in Seq({Sent(r) : r \in Requests}) /\ q \in Seq(Stanza)

\* A stanza on the stream is of a request.
LEMMA SentIs ==
  ASSUME NEW u \in Seq({Sent(r) : r \in Requests}), NEW i \in DOMAIN u
  PROVE  /\ \E r \in Requests : u[i] = Sent(r) /\ u[i].id = r.id /\ u[i].op = r.op
         /\ Asked(u[i].id) = u[i].op.name
<1>1. u[i] \in {Sent(r) : r \in Requests}
  OBVIOUS
<1>2. PICK r \in Requests : u[i] = Sent(r)
  BY <1>1
<1>3. u[i].id = r.id /\ u[i].op = r.op
  BY <1>2 DEF Sent
<1>4. QED
  BY <1>2, <1>3, RequestOf

\* The ids of requests that write.
LEMMA WriteIds ==
  /\ Asked(PurgeId) = "purge" /\ Asked(ConfigureId) = "configure" /\ Asked(OwnListId) = "list"
  /\ \A r \in Requests : /\ Asked(r.id) = r.op.name
                         /\ r.op.name = "purge" <=> r.id = PurgeId
                         /\ r.op.name = "configure" <=> r.id = ConfigureId
<1>1. Asked(PurgeId) = "purge" /\ Asked(ConfigureId) = "configure" /\ Asked(OwnListId) = "list"
  BY DEF Asked, PurgeId, ConfigureId, OwnListId
<1>2. ASSUME NEW r \in Requests
      PROVE  /\ Asked(r.id) = r.op.name
             /\ r.op.name = "purge" <=> r.id = PurgeId
             /\ r.op.name = "configure" <=> r.id = ConfigureId
  <2>1. Asked(r.id) = r.op.name
    BY RequestOf
  <2>2. r.op.name = "purge" => r.id = PurgeId
    BY RequestOf, PurgeIs DEF PurgeId
  <2>3. r.op.name = "configure" => r.id = ConfigureId
    BY RequestOf, ConfigureIs DEF ConfigureId
  <2>4. QED
    BY <1>1, <2>1, <2>2, <2>3
<1>3. QED
  BY <1>1, <1>2

\* The entries of requests that write.
LEMMA WriteEntryIs ==
  ASSUME NEW table, Entered(table), NEW id \in DOMAIN table
  PROVE  /\ Asked(id) = "purge" <=> id = PurgeId
         /\ Asked(id) = "configure" <=> id = ConfigureId
         /\ \E r \in Requests : r.id = id /\ r.entry = table[id] /\ r.op.name = Asked(id)
<1>1. PICK r \in Requests : r.id = id /\ r.entry = table[id]
  BY DEF Entered
<1>2. QED
  BY <1>1, WriteIds

\* A client is busy while what it does is to complete the list.
LEMMA MendsBusy ==
  ASSUME NEW table, NEW u, NEW q, NEW refuses, Mends(table, u, q, refuses)
  PROVE  Busy(table, u)
<1>1. CASE OwnEntry(table)
  BY <1>1 DEF Busy
<1>2. CASE Outstanding(table, u, q, PurgeId)
  BY <1>2, WriteIds DEF Busy, Outstanding, WriteEntries, Writes
<1>3. CASE Outstanding(table, u, q, ConfigureId)
  BY <1>3, WriteIds DEF Busy, Outstanding, WriteEntries, Writes
<1>4. CASE WillConfigure(table, q)
  BY <1>4 DEF Busy, WillConfigure, MayRetry, WriteEntries, Writes
<1>5. CASE WillPublish(table, u, refuses)
  BY <1>5 DEF Busy, WillPublish, PublishOn
<1>6. QED
  BY <1>1, <1>2, <1>3, <1>4, <1>5 DEF Mends

\* One that is not writes nothing.
LEMMA IdleWrites ==
  ASSUME NEW table, NEW u, NEW q, OrderGood(table, u, q), ~Busy(table, u)
  PROVE  ~WriteOn(u)
<1> SUFFICES ASSUME NEW i \in DOMAIN u, u[i].op.name \in Writes PROVE FALSE
  BY DEF WriteOn
<1>1. CASE u[i].op.name = "publish"
  BY <1>1 DEF Busy, PublishOn
<1>2. CASE u[i].op.name = "purge"
  BY <1>2, WriteIds DEF Busy, OrderGood, WriteEntries, Writes
<1>3. CASE u[i].op.name = "configure"
  BY <1>3, WriteIds DEF Busy, OrderGood, WriteEntries, Writes, PublishOn
<1>4. QED
  BY <1>1, <1>2, <1>3 DEF Writes

\* Publishing is what the model calls it.
LEMMA PublishingIs ==
  ASSUME TablesOK, NEW c \in Client PROVE Publishing(c) <=> IsBusy(c)
<1> DEFINE t == pending[c]
<1>1. Entered(t)
  BY DEF TablesOK
<1>2. ASSUME NEW id \in DOMAIN t
      PROVE  t[id].type \in PublishTypes \/ (t[id].type = "DeviceList" /\ t[id].own)
             <=> Asked(id) \in Writes \/ (id = OwnListId /\ t[id].own)
  <2>1. PICK r \in Requests : r.id = id /\ r.entry = t[id] /\ r.op.name = Asked(id)
    BY <1>1, WriteEntryIs
  <2>2. CASE r \in ListRequests
    <3>1. PICK a \in Account, own \in BOOLEAN :
            /\ own => a = Own
            /\ r.id = <<"devicelist", a>> /\ r.entry.type = "DeviceList" /\ r.entry.own = own /\ r.op.name = "list"
      BY <2>2, ListIs
    <3>2. own => r.id = OwnListId
      BY <3>1 DEF OwnListId
    <3>3. QED
      BY <2>1, <3>1, <3>2 DEF Writes, PublishTypes
  <2>3. CASE r \in PublishRequests
    BY <2>1, <2>3, PublishIs DEF Writes, PublishTypes
  <2>4. CASE r \in PurgeRequests
    BY <2>1, <2>4, PurgeIs DEF Writes, PublishTypes
  <2>5. CASE r \in ConfigureRequests
    BY <2>1, <2>5, ConfigureIs DEF Writes, PublishTypes
  <2>6. CASE r \in BundlesRequests
    BY <2>1, <2>6, BundlesIs, WriteIds DEF Writes, PublishTypes
  <2>7. CASE r \in BundleRequests
    BY <2>1, <2>7, BundleIs, WriteIds DEF Writes, PublishTypes
  <2>8. CASE r = PublishBundle
    BY <2>1, <2>8, PublishBundleIs, WriteIds DEF Writes, PublishTypes
  <2>9. QED
    BY <2>2, <2>3, <2>4, <2>5, <2>6, <2>7, <2>8, KindsOfRequests
<1>3. (\E id \in DOMAIN t : t[id].type \in PublishTypes \/ (t[id].type = "DeviceList" /\ t[id].own))
      <=> OwnEntry(t) \/ WriteEntries(t) # {}
  BY <1>2 DEF OwnEntry, WriteEntries
<1>4. QED
  BY <1>3 DEF Publishing, IsBusy, Busy, PublishOn

\* A table after a step: entries of requests in, those of X out.
Follows(table, t, X, requests) ==
  /\ DOMAIN t = (DOMAIN table \ X) \cup {requests[i].id : i \in DOMAIN requests}
  /\ \A id \in DOMAIN t :
       \/ \E i \in DOMAIN requests : requests[i].id = id /\ t[id] = requests[i].entry
       \/ id \in DOMAIN table \ X /\ t[id] = table[id] /\ \A i \in DOMAIN requests : requests[i].id # id

\* A stream after requests.
Longer(u, v, requests) ==
  /\ \A i \in DOMAIN u : i \in DOMAIN v /\ v[i] = u[i]
  /\ \A i \in DOMAIN requests :
       LET k == Len(u) + i
       IN  k \in DOMAIN v /\ v[k].id = requests[i].id /\ v[k].op = requests[i].op /\ \A j \in DOMAIN u : j < k
  /\ \A k \in DOMAIN v :
       \/ k \in DOMAIN u /\ v[k] = u[k]
       \/ \E i \in DOMAIN requests : k = Len(u) + i /\ v[k].id = requests[i].id /\ v[k].op = requests[i].op

\* What Added makes of a table.
LEMMA AddedNew ==
  ASSUME NEW table, NEW requests PROVE Follows(table, Added(table, requests), {}, requests)
<1> DEFINE ids == {requests[i].id : i \in DOMAIN requests}
           new(id) == CHOOSE i \in DOMAIN requests : requests[i].id = id
           t == Added(table, requests)
<1>1. t = [id \in DOMAIN table \cup ids |-> IF id \in ids THEN requests[new(id)].entry ELSE table[id]]
  BY DEF Added
<1>2. \A id \in ids : new(id) \in DOMAIN requests /\ requests[new(id)].id = id
  OBVIOUS
<1>3. \A id : id \in ids <=> \E i \in DOMAIN requests : requests[i].id = id
  OBVIOUS
<1> HIDE DEF new, t, ids
<1>4. DOMAIN t = DOMAIN table \cup ids
  BY <1>1
<1>5. ASSUME NEW id \in DOMAIN t
      PROVE  \/ \E i \in DOMAIN requests : requests[i].id = id /\ t[id] = requests[i].entry
             \/ id \in DOMAIN table /\ t[id] = table[id] /\ \A i \in DOMAIN requests : requests[i].id # id
  <2>1. CASE id \in ids
    <3>1. t[id] = requests[new(id)].entry
      BY <1>1, <1>4, <1>5, <2>1
    <3>2. QED
      BY <1>2, <2>1, <3>1
  <2>2. CASE id \notin ids
    <3>1. id \in DOMAIN table /\ t[id] = table[id]
      BY <1>1, <1>4, <1>5, <2>2
    <3>2. QED
      BY <1>3, <2>2, <3>1
  <2>3. QED
    BY <2>1, <2>2
<1>6. QED
  BY <1>4, <1>5 DEF Follows, t, ids

\* And of one from which entries were taken.
LEMMA AddedFollows ==
  ASSUME NEW table, NEW X, NEW requests
  PROVE  Follows(table, Added(Restrict(table, DOMAIN table \ X), requests), X, requests)
<1> DEFINE rest == Restrict(table, DOMAIN table \ X)
           t == Added(rest, requests)
<1>1. DOMAIN rest = DOMAIN table \ X /\ \A id \in DOMAIN table \ X : rest[id] = table[id]
  BY DEF Restrict
<1> HIDE DEF rest
<1>2. Follows(rest, t, {}, requests)
  BY AddedNew
<1> HIDE DEF t
<1>3. Follows(table, t, X, requests)
  BY <1>1, <1>2 DEF Follows
<1>4. QED
  BY <1>3 DEF t, rest

\* Two queues in a row.
LEMMA InARow ==
  ASSUME NEW S, NEW p \in Seq(S), NEW q \in Seq(S)
  PROVE  /\ p \o q \in Seq(S) /\ Len(p) \in Nat /\ Len(q) \in Nat
         /\ DOMAIN p = 1 .. Len(p) /\ DOMAIN q = 1 .. Len(q) /\ DOMAIN (p \o q) = 1 .. Len(p) + Len(q)
         /\ \A i \in DOMAIN p : i \in DOMAIN (p \o q) /\ (p \o q)[i] = p[i]
         /\ \A i \in DOMAIN q : Len(p) + i \in DOMAIN (p \o q) /\ (p \o q)[Len(p) + i] = q[i]
         /\ \A i \in DOMAIN q : \A j \in DOMAIN p : j < Len(p) + i
         /\ \A k \in DOMAIN (p \o q) : k \in DOMAIN p \/ \E i \in DOMAIN q : k = Len(p) + i
<1> DEFINE v == p \o q
<1>1. /\ v \in Seq(S) /\ Len(p) \in Nat /\ Len(q) \in Nat
      /\ DOMAIN p = 1 .. Len(p) /\ DOMAIN q = 1 .. Len(q) /\ DOMAIN v = 1 .. Len(p) + Len(q)
  OBVIOUS
<1>2. /\ \A i \in DOMAIN p : i \in DOMAIN v /\ v[i] = p[i]
      /\ \A i \in DOMAIN q : Len(p) + i \in DOMAIN v /\ v[Len(p) + i] = q[i]
  OBVIOUS
<1> HIDE DEF v
<1>3. \A i \in DOMAIN q : \A j \in DOMAIN p : j < Len(p) + i
  BY <1>1
<1>4. ASSUME NEW k \in DOMAIN v PROVE k \in DOMAIN p \/ \E i \in DOMAIN q : k = Len(p) + i
  <2>1. CASE k <= Len(p)
    BY <1>1, <2>1
  <2>2. CASE ~(k <= Len(p))
    <3>1. k - Len(p) \in DOMAIN q /\ k = Len(p) + (k - Len(p))
      BY <1>1, <2>2
    <3>2. QED
      BY <3>1
  <2>3. QED
    BY <2>1, <2>2
<1>5. QED
  BY <1>1, <1>2, <1>3, <1>4 DEF v

\* What requests make of a stream.
LEMMA StanzasLonger ==
  ASSUME NEW u \in Seq({Sent(r) : r \in Requests}), NEW requests \in Seq(Requests)
  PROVE  Longer(u, u \o Stanzas(requests), requests)
<1> DEFINE T == {Sent(r) : r \in Requests}
<1>1. Stanzas(requests) \in Seq(T) /\ Len(Stanzas(requests)) = Len(requests)
      /\ \A i \in DOMAIN requests : Stanzas(requests)[i] = Sent(requests[i])
  BY StanzasAre
<1> HIDE DEF T
<1>3. u \in Seq(T)
  BY DEF T
<1>4. PICK w \in Seq(T) : w = Stanzas(requests)
  BY <1>1
<1>5. DOMAIN w = DOMAIN requests
  BY <1>1, <1>4
<1>6. \A r \in Requests : Sent(r).id = r.id /\ Sent(r).op = r.op
  BY DEF Sent
<1>7. \A i \in DOMAIN w : w[i].id = requests[i].id /\ w[i].op = requests[i].op
  BY <1>1, <1>4, <1>5, <1>6
<1> DEFINE v == u \o w
<1>8. /\ \A i \in DOMAIN u : i \in DOMAIN v /\ v[i] = u[i]
      /\ \A i \in DOMAIN w : Len(u) + i \in DOMAIN v /\ v[Len(u) + i] = w[i]
      /\ \A i \in DOMAIN w : \A j \in DOMAIN u : j < Len(u) + i
      /\ \A k \in DOMAIN v : k \in DOMAIN u \/ \E i \in DOMAIN w : k = Len(u) + i
  BY <1>3, InARow
<1> HIDE DEF v
<1>9. Longer(u, v, requests)
  BY <1>5, <1>7, <1>8 DEF Longer
<1>10. QED
  BY <1>4, <1>9 DEF v

\* A stanza is read: what is left on the stream.
LEMMA ReadFirst ==
  ASSUME NEW q \in Seq(Stanza), q # <<>>, NEW s, s = Head(q), NEW t, t = Tail(q)
  PROVE  /\ WrittenOn(t) => WrittenOn(q)
         /\ s.kind # "live" /\ Asked(s.id) \in Writes => WrittenOn(q)
         /\ RefusalOn(t) => RefusalOn(q)
         /\ IsRefusal(s) => RefusalOn(q)
         /\ \A id : AnswerOn(t, id) => AnswerOn(q, id)
         /\ \A id : AnswerOn(q, id) => AnswerOn(t, id) \/ (s.kind # "live" /\ s.id = id)
         /\ \A id : s.kind # "live" /\ s.id = id => AnswerOn(q, id)
         /\ \A refuses : TrueGood(q, refuses) => TrueGood(t, refuses)
         /\ \A refuses : TrueGood(q, refuses) /\ s.kind # "live" =>
              /\ Asked(s.id) = "publish" /\ s.kind = "result" => ~refuses
              /\ Asked(s.id) = "configure" => ~refuses
              /\ IsRefusal(s) => s.condition = "precondition-not-met"
         /\ NoListOn(q) => NoListOn(t) /\ ~IsListAnswer(s)
<1>1. /\ s = q[1] /\ 1 \in DOMAIN q
      /\ \A i \in DOMAIN t : t[i] = q[i + 1] /\ i + 1 \in DOMAIN q
      /\ \A i \in DOMAIN q : i # 1 => i - 1 \in DOMAIN t /\ t[i - 1] = q[i]
  BY TailType
<1>2. /\ WrittenOn(t) => WrittenOn(q)
      /\ s.kind # "live" /\ Asked(s.id) \in Writes => WrittenOn(q)
  BY <1>1 DEF WrittenOn
<1>3. /\ RefusalOn(t) => RefusalOn(q)
      /\ IsRefusal(s) => RefusalOn(q)
  BY <1>1 DEF RefusalOn
<1>4. /\ \A id : AnswerOn(t, id) => AnswerOn(q, id)
      /\ \A id : AnswerOn(q, id) => AnswerOn(t, id) \/ (s.kind # "live" /\ s.id = id)
      /\ \A id : s.kind # "live" /\ s.id = id => AnswerOn(q, id)
  <2>1. \A id : AnswerOn(t, id) => AnswerOn(q, id)
    BY <1>1 DEF AnswerOn
  <2>2. ASSUME NEW id, AnswerOn(q, id) PROVE AnswerOn(t, id) \/ (s.kind # "live" /\ s.id = id)
    <3>1. PICK i \in DOMAIN q : q[i].kind # "live" /\ q[i].id = id
      BY <2>2 DEF AnswerOn
    <3>2. CASE i = 1
      BY <1>1, <3>1, <3>2
    <3>3. CASE i # 1
      <4>1. i - 1 \in DOMAIN t /\ t[i - 1] = q[i]
        BY <1>1, <3>3
      <4>2. QED
        BY <3>1, <4>1 DEF AnswerOn
    <3>4. QED
      BY <3>2, <3>3
  <2>3. \A id : s.kind # "live" /\ s.id = id => AnswerOn(q, id)
    BY <1>1 DEF AnswerOn
  <2>4. QED
    BY <2>1, <2>2, <2>3
<1>5. \A refuses : TrueGood(q, refuses) => TrueGood(t, refuses)
  BY <1>1 DEF TrueGood
<1>6. \A refuses : TrueGood(q, refuses) /\ s.kind # "live" =>
        /\ Asked(s.id) = "publish" /\ s.kind = "result" => ~refuses
        /\ Asked(s.id) = "configure" => ~refuses
        /\ IsRefusal(s) => s.condition = "precondition-not-met"
  BY <1>1 DEF TrueGood
<1>7. NoListOn(q) => NoListOn(t) /\ ~IsListAnswer(s)
  BY <1>1 DEF NoListOn
<1>8. QED
  BY <1>2, <1>3, <1>4, <1>5, <1>6, <1>7

\* The first of certain stanzas is read, or still to be read.
LEMMA FirstsRead ==
  ASSUME NEW q \in Seq(Stanza), q # <<>>, NEW s, s = Head(q), NEW t, t = Tail(q)
  PROVE  /\ \A id : RefusedFirst(q, id) =>
              \/ IsRefusal(s) /\ s.id = id
              \/ (s.kind = "live" \/ s.id # id) /\ RefusedFirst(t, id)
         /\ \A c, W, refuses : FirstBrings(q, c, W, refuses) =>
              \/ IsListAnswer(s) /\ Brings(s, c, W, refuses)
              \/ ~IsListAnswer(s) /\ FirstBrings(t, c, W, refuses)
<1>1. /\ s = q[1] /\ 1 \in DOMAIN q /\ DOMAIN q \subseteq Nat /\ DOMAIN t \subseteq Nat
      /\ \A i \in DOMAIN q : i # 1 => 1 < i
      /\ \A i \in DOMAIN t : t[i] = q[i + 1] /\ i + 1 \in DOMAIN q
      /\ \A i \in DOMAIN q : i # 1 => i - 1 \in DOMAIN t /\ t[i - 1] = q[i]
  <2>1. DOMAIN q = 1 .. Len(q) /\ Len(q) \in Nat
    OBVIOUS
  <2>2. DOMAIN t \subseteq Nat
    BY TailType
  <2>3. \A i \in DOMAIN q : i # 1 => 1 < i
    BY <2>1
  <2>4. QED
    BY <2>1, <2>2, <2>3, TailType
<1>2. ASSUME NEW id, RefusedFirst(q, id)
      PROVE  \/ IsRefusal(s) /\ s.id = id
             \/ (s.kind = "live" \/ s.id # id) /\ RefusedFirst(t, id)
  <2>1. PICK i \in DOMAIN q :
          /\ IsRefusal(q[i]) /\ q[i].id = id
          /\ \A j \in DOMAIN q : j < i /\ q[j].kind # "live" /\ q[j].id = id => q[j].kind = "error"
    BY <1>2 DEF RefusedFirst
  <2>2. CASE i = 1
    BY <1>1, <2>1, <2>2
  <2>3. CASE i # 1
    <3>1. s.kind # "live" /\ s.id = id => IsRefusal(s)
      BY <1>1, <2>1, <2>3 DEF IsRefusal
    <3>2. i - 1 \in DOMAIN t /\ t[i - 1] = q[i]
      BY <1>1, <2>3
    <3>3. ASSUME NEW j \in DOMAIN t, j < i - 1, t[j].kind # "live", t[j].id = id PROVE t[j].kind = "error"
      <4>1. t[j] = q[j + 1] /\ j + 1 \in DOMAIN q /\ j + 1 < i
        BY <1>1, <3>3
      <4>2. QED
        BY <2>1, <3>3, <4>1
    <3> DEFINE k == i - 1
    <3>4. k \in DOMAIN t /\ t[k] = q[i]
          /\ \A j \in DOMAIN t : j < k /\ t[j].kind # "live" /\ t[j].id = id => t[j].kind = "error"
      BY <3>2, <3>3
    <3> HIDE DEF k
    <3>5. RefusedFirst(t, id)
      BY <2>1, <3>4 DEF RefusedFirst
    <3>6. QED
      BY <3>1, <3>5
  <2>4. QED
    BY <2>2, <2>3
<1>3. ASSUME NEW c, NEW W, NEW refuses, FirstBrings(q, c, W, refuses)
      PROVE  \/ IsListAnswer(s) /\ Brings(s, c, W, refuses)
             \/ ~IsListAnswer(s) /\ FirstBrings(t, c, W, refuses)
  <2>1. PICK i \in DOMAIN q :
          /\ IsListAnswer(q[i]) /\ Brings(q[i], c, W, refuses)
          /\ \A j \in DOMAIN q : j < i => ~IsListAnswer(q[j])
    BY <1>3 DEF FirstBrings
  <2>2. CASE i = 1
    BY <1>1, <2>1, <2>2
  <2>3. CASE i # 1
    <3>1. ~IsListAnswer(s)
      BY <1>1, <2>1, <2>3
    <3>2. i - 1 \in DOMAIN t /\ t[i - 1] = q[i]
      BY <1>1, <2>3
    <3>3. ASSUME NEW j \in DOMAIN t, j < i - 1 PROVE ~IsListAnswer(t[j])
      <4>1. t[j] = q[j + 1] /\ j + 1 \in DOMAIN q /\ j + 1 < i
        BY <1>1, <3>3
      <4>2. QED
        BY <2>1, <4>1
    <3> DEFINE k == i - 1
    <3>4. k \in DOMAIN t /\ t[k] = q[i] /\ \A j \in DOMAIN t : j < k => ~IsListAnswer(t[j])
      BY <3>2, <3>3
    <3> HIDE DEF k
    <3>5. FirstBrings(t, c, W, refuses)
      BY <2>1, <3>4 DEF FirstBrings
    <3>6. QED
      BY <3>1, <3>5
  <2>4. QED
    BY <2>2, <2>3
<1>4. QED
  BY <1>2, <1>3

\* A client with this table and this stream asks: entries X go, the requests come.
Asks(table, u, X, requests, t, v) ==
  requests \in Seq(Requests) /\ Follows(table, t, X, requests) /\ Longer(u, v, requests)

\* It reads the stanza s, and asks.
Reads(table, u, q, s, X, requests, t, v, p) ==
  /\ Typed(table, u, q) /\ q # <<>> /\ s = Head(q) /\ p = Tail(q)
  /\ Asks(table, u, X, requests, t, v)
  /\ \/ X = {} /\ (s.kind = "live" \/ s.id \notin DOMAIN table)
     \/ X = {s.id} /\ s.kind \in {"result", "error"}

\* The requests write nothing, and none is the fetch of a login.
Plain(requests) ==
  \A i \in DOMAIN requests : /\ requests[i].op.name \notin Writes
                             /\ requests[i].id = OwnListId => ~requests[i].entry.own

\* After requests that write nothing, what is there that writes was there before.
LEMMA PlainRequests ==
  ASSUME NEW table, NEW u, NEW X, NEW requests, NEW t, NEW v,
         Asks(table, u, X, requests, t, v), Plain(requests)
  PROVE  /\ \A id \in DOMAIN t : Asked(id) \in Writes => id \in DOMAIN table \ X /\ t[id] = table[id]
         /\ \A id \in DOMAIN table \ X : Asked(id) \in Writes => id \in DOMAIN t /\ t[id] = table[id]
         /\ OwnEntry(t) => OwnEntry(table) /\ OwnListId \notin X /\ \A i \in DOMAIN requests : requests[i].id # OwnListId
         /\ OwnEntry(table) /\ OwnListId \notin X /\ (\A i \in DOMAIN requests : requests[i].id # OwnListId) => OwnEntry(t)
         /\ \A i \in DOMAIN u : i \in DOMAIN v /\ v[i] = u[i]
         /\ \A k \in DOMAIN v : v[k].op.name \in Writes => k \in DOMAIN u /\ v[k] = u[k]
<1>1. \A i \in DOMAIN requests : Asked(requests[i].id) \notin Writes
  <2>1. \A i \in DOMAIN requests : requests[i] \in Requests
    BY DEF Asks
  <2>2. QED
    BY <2>1, WriteIds DEF Plain
<1>2. \A id \in DOMAIN t : Asked(id) \in Writes => id \in DOMAIN table \ X /\ t[id] = table[id]
  BY <1>1 DEF Asks, Follows
<1>3. \A id \in DOMAIN table \ X : id \in DOMAIN t
  BY DEF Asks, Follows
<1>4. \A id \in DOMAIN table \ X : Asked(id) \in Writes => id \in DOMAIN t /\ t[id] = table[id]
  BY <1>2, <1>3
<1>5. ASSUME OwnEntry(t)
      PROVE  OwnEntry(table) /\ OwnListId \notin X /\ \A i \in DOMAIN requests : requests[i].id # OwnListId
  <2>1. ~\E i \in DOMAIN requests : requests[i].id = OwnListId /\ t[OwnListId] = requests[i].entry
    BY <1>5 DEF Plain, OwnEntry
  <2>2. OwnListId \in DOMAIN t
    BY <1>5 DEF OwnEntry
  <2>3. OwnListId \in DOMAIN table \ X /\ t[OwnListId] = table[OwnListId] /\ \A i \in DOMAIN requests : requests[i].id # OwnListId
    BY <2>1, <2>2 DEF Asks, Follows
  <2>4. QED
    BY <1>5, <2>3 DEF OwnEntry
<1>6. ASSUME OwnEntry(table), OwnListId \notin X, \A i \in DOMAIN requests : requests[i].id # OwnListId
      PROVE  OwnEntry(t)
  <2>1. OwnListId \in DOMAIN t
    BY <1>3, <1>6 DEF OwnEntry
  <2>2. t[OwnListId] = table[OwnListId]
    BY <1>6, <2>1 DEF Asks, Follows
  <2>3. QED
    BY <1>6, <2>1, <2>2 DEF OwnEntry
<1>7. \A i \in DOMAIN u : i \in DOMAIN v /\ v[i] = u[i]
  BY DEF Asks, Longer
<1>8. \A k \in DOMAIN v : v[k].op.name \in Writes => k \in DOMAIN u /\ v[k] = u[k]
  BY DEF Asks, Longer, Plain
<1>9. QED
  BY <1>2, <1>4, <1>5, <1>6, <1>7, <1>8

\* What is read does not write: it is no answer to a purge, a configuration or
\* the fetch of a login, and a refusal is not of a publication to be retried.
Harmless(table, s, X, requests) ==
  /\ Plain(requests)
  /\ OwnEntry(table) => \A i \in DOMAIN requests : requests[i].id # OwnListId
  /\ X # {} => /\ s.id \notin {PurgeId, ConfigureId} /\ (s.id = OwnListId => ~OwnEntry(table))
               /\ Asked(s.id) = "publish" => s.kind = "result" \/ table[s.id].retry

\* Such a stanza changes nothing of what completes the list.
LEMMA HarmlessMends ==
  ASSUME NEW table, NEW u, NEW q, NEW s, NEW X, NEW requests, NEW t, NEW v, NEW p,
         Reads(table, u, q, s, X, requests, t, v, p), Harmless(table, s, X, requests),
         NEW refuses, TrueGood(q, refuses), Mends(table, u, q, refuses)
  PROVE  Mends(t, v, p, refuses)
<1>1. /\ \A id \in DOMAIN table \ X : Asked(id) \in Writes => id \in DOMAIN t /\ t[id] = table[id]
      /\ OwnEntry(table) /\ OwnListId \notin X /\ (\A i \in DOMAIN requests : requests[i].id # OwnListId) => OwnEntry(t)
      /\ \A i \in DOMAIN u : i \in DOMAIN v /\ v[i] = u[i]
  BY PlainRequests DEF Harmless, Reads
<1>2. q \in Seq(Stanza) /\ q # <<>> /\ s = Head(q) /\ p = Tail(q)
  BY DEF Reads, Typed
<1>3. \/ X = {} /\ (s.kind = "live" \/ s.id \notin DOMAIN table)
      \/ X = {s.id} /\ s.kind \in {"result", "error"}
  BY DEF Reads
<1>4. CASE OwnEntry(table)
  <2>1. OwnListId \notin X
    BY <1>3, <1>4 DEF Harmless
  <2>2. QED
    BY <1>1, <1>4, <2>1 DEF Harmless, Mends
<1>5. ASSUME NEW id \in {PurgeId, ConfigureId}, Outstanding(table, u, q, id) PROVE Mends(t, v, p, refuses)
  <2>1. id \in DOMAIN table \ X /\ ~(s.kind # "live" /\ s.id = id)
    BY <1>3, <1>5 DEF Harmless, Outstanding
  <2>2. id \in DOMAIN t
    BY <1>1, <1>5, <2>1, WriteIds DEF Writes
  <2>3. AnswerOn(q, id) => AnswerOn(p, id)
    BY <1>2, <2>1, ReadFirst
  <2>4. RequestOn(u, id) => RequestOn(v, id)
    BY <1>1 DEF RequestOn
  <2>5. Outstanding(t, v, p, id)
    BY <1>5, <2>2, <2>3, <2>4 DEF Outstanding
  <2>6. QED
    BY <1>5, <2>5 DEF Mends
<1>6. CASE WillConfigure(table, q)
  <2>1. PICK id \in DOMAIN table : MayRetry(table, id) /\ RefusedFirst(q, id)
    BY <1>6 DEF WillConfigure
  <2>2. ~(IsRefusal(s) /\ s.id = id)
    BY <1>3, <2>1 DEF Harmless, MayRetry, IsRefusal
  <2>3. (s.kind = "live" \/ s.id # id) /\ RefusedFirst(p, id)
    BY <1>2, <2>1, <2>2, FirstsRead
  <2>4. id \notin X
    BY <1>3, <2>3
  <2>5. id \in DOMAIN t /\ MayRetry(t, id)
    BY <1>1, <2>1, <2>4 DEF MayRetry, Writes
  <2>6. QED
    BY <2>3, <2>5 DEF WillConfigure, Mends
<1>7. CASE WillPublish(table, u, refuses)
  <2>1. PICK i \in DOMAIN u : u[i].op.name = "publish" /\ (refuses => MayRetry(table, u[i].id))
    BY <1>7 DEF WillPublish
  <2>2. ASSUME refuses PROVE MayRetry(t, v[i].id)
    <3>1. MayRetry(table, u[i].id) /\ v[i].id = u[i].id
      BY <1>1, <2>1, <2>2
    <3>2. u[i].id \notin X
      <4>1. SUFFICES ASSUME X = {s.id}, s.kind \in {"result", "error"}, s.id = u[i].id PROVE FALSE
        BY <1>3
      <4>2. Asked(s.id) = "publish" /\ ~table[s.id].retry
        BY <3>1, <4>1 DEF MayRetry
      <4>3. s.kind = "result"
        BY <4>1, <4>2 DEF Harmless
      <4>4. ~refuses
        BY <1>2, <4>1, <4>2, <4>3, ReadFirst
      <4>5. QED
        BY <2>2, <4>4
    <3>3. QED
      BY <1>1, <3>1, <3>2 DEF MayRetry, Writes
  <2>3. i \in DOMAIN v /\ v[i].op.name = "publish"
    BY <1>1, <2>1
  <2>4. QED
    BY <2>2, <2>3 DEF WillPublish, Mends
<1>8. QED
  BY <1>4, <1>5, <1>6, <1>7 DEF Mends

\* Nor of what is good about the client.
LEMMA HarmlessGood ==
  ASSUME NEW table, NEW u, NEW q, NEW s, NEW X, NEW requests, NEW t, NEW v, NEW p,
         Reads(table, u, q, s, X, requests, t, v, p), Harmless(table, s, X, requests),
         NEW c, NEW K, NEW L, K \subseteq L, NEW W, NEW N, NEW refuses, Good(c, table, u, q, K, W, N, refuses)
  PROVE  Good(c, t, v, p, L, W, N, refuses) /\ (Busy(t, v) => Busy(table, u))
<1>1. /\ \A id \in DOMAIN t : Asked(id) \in Writes => id \in DOMAIN table \ X /\ t[id] = table[id]
      /\ \A id \in DOMAIN table \ X : Asked(id) \in Writes => id \in DOMAIN t /\ t[id] = table[id]
      /\ OwnEntry(t) => OwnEntry(table) /\ OwnListId \notin X
      /\ \A i \in DOMAIN u : i \in DOMAIN v /\ v[i] = u[i]
      /\ \A k \in DOMAIN v : v[k].op.name \in Writes => k \in DOMAIN u /\ v[k] = u[k]
  BY PlainRequests DEF Harmless, Reads
<1>2. q \in Seq(Stanza) /\ q # <<>> /\ s = Head(q) /\ p = Tail(q)
  BY DEF Reads, Typed
<1>3. \/ X = {} /\ (s.kind = "live" \/ s.id \notin DOMAIN table)
      \/ X = {s.id} /\ s.kind \in {"result", "error"}
  BY DEF Reads
<1>4. /\ WriteEntries(t) # {} => WriteEntries(table) # {}
      /\ WriteOn(v) => WriteOn(u)
      /\ PublishOn(v) => PublishOn(u)
  BY <1>1 DEF WriteEntries, WriteOn, PublishOn, Writes
<1>5. Busy(t, v) => Busy(table, u)
  BY <1>1, <1>4 DEF Busy
<1>6. ASSUME OwnEntry(t)
      PROVE  /\ WriteEntries(t) = {} /\ ~WriteOn(v) /\ ~WrittenOn(p)
             /\ W \subseteq N \cup {c}
             /\ (NoListOn(p) /\ RequestOn(v, OwnListId)) \/ FirstBrings(p, c, W, refuses)
  <2>1. /\ WriteEntries(table) = {} /\ ~WriteOn(u) /\ ~WrittenOn(q)
        /\ W \subseteq N \cup {c}
        /\ (NoListOn(q) /\ RequestOn(u, OwnListId)) \/ FirstBrings(q, c, W, refuses)
    BY <1>1, <1>6 DEF Good, LoginGood
  <2>2. ~WrittenOn(p)
    BY <1>2, <2>1, ReadFirst
  <2>3. CASE NoListOn(q) /\ RequestOn(u, OwnListId)
    <3>1. RequestOn(v, OwnListId)
      BY <1>1, <2>3 DEF RequestOn
    <3>2. NoListOn(p)
      BY <1>2, <2>3, ReadFirst
    <3>3. QED
      BY <1>4, <2>1, <2>2, <3>1, <3>2
  <2>4. CASE FirstBrings(q, c, W, refuses)
    <3>1. ~IsListAnswer(s)
      BY <1>1, <1>3, <1>6 DEF IsListAnswer, OwnEntry
    <3>2. FirstBrings(p, c, W, refuses)
      BY <1>2, <2>4, <3>1, FirstsRead
    <3>3. QED
      BY <1>4, <2>1, <2>2, <3>2
  <2>5. QED
    BY <2>1, <2>3, <2>4
<1>7. AimGood(t, v, p, L, W, refuses)
  <2>0. AimGood(table, u, q, K, W, refuses)
    BY DEF Good
  <2>1. \A i \in DOMAIN v : v[i].op.name = "publish" => W \subseteq v[i].op.devices
    BY <1>1, <2>0 DEF AimGood, Writes
  <2>2. \A id \in {PurgeId, ConfigureId} \cap DOMAIN t : W \subseteq t[id].devices
    BY <1>1, <2>0, WriteIds DEF AimGood, Writes
  <2>3. RefusalOn(p) => RefusalOn(q)
    BY <1>2, ReadFirst
  <2>4. WriteEntries(t) # {} /\ (refuses \/ RefusalOn(p)) => W \subseteq L
    BY <1>4, <2>0, <2>3 DEF AimGood
  <2>5. QED
    BY <2>1, <2>2, <2>4 DEF AimGood
<1>8. OrderGood(t, v, p)
  <2>0. OrderGood(table, u, q)
    BY DEF Good
  <2>1. \A id \in {PurgeId, ConfigureId} \cap DOMAIN table : id \in DOMAIN t
    BY <1>1, <1>3, WriteIds DEF Harmless, Writes
  <2>2. ASSUME NEW i \in DOMAIN v, v[i].op.name = "purge"
        PROVE  /\ PurgeId \in DOMAIN t /\ ~AnswerOn(p, PurgeId)
               /\ \A j \in DOMAIN v : v[j].op.name = "purge" => j = i
    <3>1. i \in DOMAIN u /\ u[i].op.name = "purge"
      BY <1>1, <2>2 DEF Writes
    <3>2. /\ PurgeId \in DOMAIN table /\ ~AnswerOn(q, PurgeId)
          /\ \A j \in DOMAIN u : u[j].op.name = "purge" => j = i
      BY <2>0, <3>1 DEF OrderGood
    <3>3. ~AnswerOn(p, PurgeId)
      BY <1>2, <3>2, ReadFirst
    <3>4. \A j \in DOMAIN v : v[j].op.name = "purge" => j = i
      BY <1>1, <3>2 DEF Writes
    <3>5. QED
      BY <2>1, <3>2, <3>3, <3>4
  <2>3. ASSUME NEW i \in DOMAIN v, v[i].op.name = "configure"
        PROVE  ConfigureId \in DOMAIN t \/ \E j \in DOMAIN v : j > i /\ v[j].op.name = "publish"
    <3>1. i \in DOMAIN u /\ u[i].op.name = "configure"
      BY <1>1, <2>3 DEF Writes
    <3>2. ConfigureId \in DOMAIN table \/ \E j \in DOMAIN u : j > i /\ u[j].op.name = "publish"
      BY <2>0, <3>1 DEF OrderGood
    <3>3. QED
      BY <1>1, <2>1, <3>2
  <2>4. QED
    BY <2>2, <2>3 DEF OrderGood
<1>9. TrueGood(p, refuses)
  BY <1>2, ReadFirst DEF Good
<1>10. QED
  BY <1>5, <1>6, <1>7, <1>8, <1>9 DEF Good, LoginGood

\* The requests write lists of all devices W, as a client may that knows K.
Writing(table, u, q, s, requests, K, W, refuses) ==
  /\ s.id = OwnListId \/ ~OwnEntry(table)
  /\ \A i \in DOMAIN requests :
       /\ requests[i].id # OwnListId
       /\ requests[i].op.name = "publish" => W \subseteq requests[i].op.devices
       /\ requests[i].op.name \in {"purge", "configure"} => W \subseteq requests[i].entry.devices
       /\ requests[i].op.name = "purge" =>
            ~WriteOn(u) /\ ~WrittenOn(q) /\ \A j \in DOMAIN requests : requests[j].op.name = "purge" => j = i
  /\ WriteEntries(table) # {} \/ W \subseteq K \/ (~refuses /\ ~WrittenOn(q))
  /\ s.id = ConfigureId => \E i \in DOMAIN requests : requests[i].op.name = "publish"

\* The items of a sequence.
LEMMA ItemsAre == ASSUME NEW S, NEW q \in Seq(S) PROVE \A i \in DOMAIN q : q[i] \in S
OBVIOUS

\* The fields of a publication.
LEMMA PublishFields ==
  ASSUME NEW D, NEW version
  PROVE  LET r == PublishList(D, version)
         IN  /\ r.op.name = "publish" /\ r.op.devices = D /\ (r.entry.retry <=> version = "retry")
             /\ r.id = << IF version = "merged" THEN "pub-devices" ELSE "pub-devices-v0", Own >>
BY DEF PublishList

\* After such requests the client is good still.
LEMMA WritingGood ==
  ASSUME NEW table, NEW u, NEW q, NEW s, NEW requests, NEW t, NEW v, NEW p,
         Reads(table, u, q, s, {s.id}, requests, t, v, p),
         NEW c, NEW K, NEW L, K \subseteq L, NEW W, NEW N, NEW refuses, Good(c, table, u, q, K, W, N, refuses),
         Writing(table, u, q, s, requests, L, W, refuses)
  PROVE  Good(c, t, v, p, L, W, N, refuses)
<1>1. q \in Seq(Stanza) /\ q # <<>> /\ s = Head(q) /\ p = Tail(q) /\ s.kind # "live" /\ requests \in Seq(Requests)
  BY DEF Asks, Reads, Typed
<1>2. /\ DOMAIN t = (DOMAIN table \ {s.id}) \cup {requests[i].id : i \in DOMAIN requests}
      /\ \A id \in DOMAIN t :
           \/ \E i \in DOMAIN requests : requests[i].id = id /\ t[id] = requests[i].entry
           \/ id \in DOMAIN table \ {s.id} /\ t[id] = table[id] /\ \A i \in DOMAIN requests : requests[i].id # id
  BY DEF Asks, Reads, Follows
<1>3. /\ \A i \in DOMAIN u : i \in DOMAIN v /\ v[i] = u[i]
      /\ \A i \in DOMAIN requests :
           \E k \in DOMAIN v : v[k].id = requests[i].id /\ v[k].op = requests[i].op /\ \A j \in DOMAIN u : j < k
      /\ \A k \in DOMAIN v :
           \/ k \in DOMAIN u /\ v[k] = u[k]
           \/ \E i \in DOMAIN requests : k = Len(u) + i /\ v[k].id = requests[i].id /\ v[k].op = requests[i].op
  BY DEF Asks, Reads, Longer
<1>r. \A i \in DOMAIN requests : /\ requests[i] \in Requests
                                 /\ requests[i].op.name = "purge" <=> requests[i].id = PurgeId
                                 /\ requests[i].op.name = "configure" <=> requests[i].id = ConfigureId
  BY <1>1, WriteIds
<1>4. ~OwnEntry(t)
  <2>1. SUFFICES ASSUME OwnListId \in DOMAIN t PROVE ~t[OwnListId].own
    BY DEF OwnEntry
  <2>2. OwnListId \in DOMAIN table \ {s.id} /\ t[OwnListId] = table[OwnListId]
    BY <1>2, <2>1 DEF Writing
  <2>3. QED
    BY <2>2 DEF Writing, OwnEntry
<1>5. AimGood(t, v, p, L, W, refuses)
  <2>0. AimGood(table, u, q, K, W, refuses)
    BY DEF Good
  <2>1. ASSUME NEW k \in DOMAIN v, v[k].op.name = "publish" PROVE W \subseteq v[k].op.devices
    BY <1>3, <2>0, <2>1 DEF AimGood, Writing
  <2>2. ASSUME NEW id \in {PurgeId, ConfigureId} \cap DOMAIN t PROVE W \subseteq t[id].devices
    <3>1. CASE \E i \in DOMAIN requests : requests[i].id = id /\ t[id] = requests[i].entry
      BY <1>r, <2>2, <3>1 DEF Writing
    <3>2. CASE id \in DOMAIN table \ {s.id} /\ t[id] = table[id]
      BY <2>0, <2>2, <3>2 DEF AimGood
    <3>3. QED
      BY <1>2, <2>2, <3>1, <3>2
  <2>3. ASSUME refuses \/ RefusalOn(p) PROVE W \subseteq L
    <3>1. RefusalOn(p) => RefusalOn(q)
      BY <1>1, ReadFirst
    <3>2. RefusalOn(q) => WrittenOn(q)
      BY DEF RefusalOn, IsRefusal, WrittenOn, Writes
    <3>3. QED
      BY <2>0, <2>3, <3>1, <3>2 DEF AimGood, Writing
  <2>4. QED
    BY <2>1, <2>2, <2>3 DEF AimGood
<1>6. OrderGood(t, v, p)
  <2>0. OrderGood(table, u, q)
    BY DEF Good
  <2>1. ASSUME NEW k \in DOMAIN v, v[k].op.name = "purge"
        PROVE  /\ PurgeId \in DOMAIN t /\ ~AnswerOn(p, PurgeId)
               /\ \A j \in DOMAIN v : v[j].op.name = "purge" => j = k
    <3>1. CASE \E i \in DOMAIN requests : requests[i].op.name = "purge"
      <4>1. PICK i \in DOMAIN requests : requests[i].op.name = "purge"
        BY <3>1
      <4>2. ~WriteOn(u) /\ ~WrittenOn(q) /\ \A j \in DOMAIN requests : requests[j].op.name = "purge" => j = i
        BY <4>1 DEF Writing
      <4>3. PurgeId \in DOMAIN t
        BY <1>2, <1>r, <4>1
      <4>4. ~AnswerOn(p, PurgeId)
        <5>1. ~AnswerOn(q, PurgeId)
          BY <4>2, WriteIds DEF WrittenOn, AnswerOn, Writes
        <5>2. QED
          BY <1>1, <5>1, ReadFirst
      <4>5. \A j \in DOMAIN v : v[j].op.name = "purge" => j = Len(u) + i
        BY <1>3, <4>2 DEF WriteOn, Writes
      <4>6. QED
        BY <2>1, <4>3, <4>4, <4>5
    <3>2. CASE \A i \in DOMAIN requests : requests[i].op.name # "purge"
      <4>1. \A j \in DOMAIN v : v[j].op.name = "purge" => j \in DOMAIN u /\ v[j] = u[j]
        BY <1>3, <3>2
      <4>2. /\ PurgeId \in DOMAIN table /\ ~AnswerOn(q, PurgeId)
            /\ \A j \in DOMAIN u : u[j].op.name = "purge" => j = k
        BY <2>0, <2>1, <4>1 DEF OrderGood
      <4>3. s.id # PurgeId
        BY <1>1, <4>2, ReadFirst
      <4>4. PurgeId \in DOMAIN t
        BY <1>2, <4>2, <4>3
      <4>5. ~AnswerOn(p, PurgeId)
        BY <1>1, <4>2, ReadFirst
      <4>6. QED
        BY <4>1, <4>2, <4>4, <4>5
    <3>3. QED
      BY <3>1, <3>2
  <2>2. ASSUME NEW k \in DOMAIN v, v[k].op.name = "configure"
        PROVE  ConfigureId \in DOMAIN t \/ \E j \in DOMAIN v : j > k /\ v[j].op.name = "publish"
    <3>1. CASE \E i \in DOMAIN requests : requests[i].op.name = "configure"
      BY <1>2, <1>r, <3>1
    <3>2. CASE \A i \in DOMAIN requests : requests[i].op.name # "configure"
      <4>1. k \in DOMAIN u /\ u[k].op.name = "configure"
        BY <1>3, <2>2, <3>2
      <4>2. CASE \E j \in DOMAIN u : j > k /\ u[j].op.name = "publish"
        BY <1>3, <4>2
      <4>3. CASE ConfigureId \in DOMAIN table /\ s.id # ConfigureId
        BY <1>2, <4>3
      <4>4. CASE s.id = ConfigureId
        <5>1. PICK i \in DOMAIN requests : requests[i].op.name = "publish"
          BY <4>4 DEF Writing
        <5>2. PICK l \in DOMAIN v : v[l].op = requests[i].op /\ \A j \in DOMAIN u : j < l
          BY <1>3
        <5>3. DOMAIN v \subseteq Int
          <6>1. u \in Seq({Sent(r) : r \in Requests}) /\ DOMAIN u \subseteq Int /\ Len(u) \in Int /\ DOMAIN requests \subseteq Int
            BY <1>1 DEF Asks, Reads, Typed
          <6>2. QED
            BY <1>3, <6>1
        <5>4. l > k
          BY <4>1, <5>2, <5>3
        <5>5. QED
          BY <5>1, <5>2, <5>4
      <4>5. QED
        BY <2>0, <4>1, <4>2, <4>3, <4>4 DEF OrderGood
    <3>3. QED
      BY <3>1, <3>2
  <2>3. QED
    BY <2>1, <2>2 DEF OrderGood
<1>7. TrueGood(p, refuses)
  BY <1>1, ReadFirst DEF Good
<1>8. QED
  BY <1>4, <1>5, <1>6, <1>7 DEF Good, LoginGood

\* A client that writes, or waits to.
LEMMA BusyBecause ==
  ASSUME NEW table, NEW u, NEW c, NEW q, NEW K, NEW W, NEW N, NEW refuses, Good(c, table, u, q, K, W, N, refuses),
         NEW id \in DOMAIN table, Asked(id) \in Writes
  PROVE  Busy(table, u) /\ WriteEntries(table) # {} /\ ~OwnEntry(table)
BY DEF Busy, WriteEntries, Good, LoginGood

\* Publications on the way complete the list, if one of them may be retried or
\* none is refused.
LEMMA PublishMends ==
  ASSUME NEW table, NEW u, NEW q, NEW s, NEW requests, NEW t, NEW v, NEW p,
         Reads(table, u, q, s, {s.id}, requests, t, v, p), NEW refuses,
         NEW i \in DOMAIN requests, requests[i].op.name = "publish",
         refuses => ~requests[i].entry.retry /\ \A j \in DOMAIN requests : requests[j].id = requests[i].id => j = i
  PROVE  Mends(t, v, p, refuses)
<1>1. requests[i] \in Requests
  BY DEF Asks, Reads
<1>2. Asked(requests[i].id) = "publish"
  BY <1>1, WriteIds
<1>3. PICK k \in DOMAIN v : v[k].id = requests[i].id /\ v[k].op = requests[i].op
  BY DEF Asks, Reads, Longer
<1>4. requests[i].id \in DOMAIN t
  BY DEF Asks, Reads, Follows
<1>5. refuses => ~t[requests[i].id].retry
  <2>1. SUFFICES ASSUME refuses PROVE ~t[requests[i].id].retry
    OBVIOUS
  <2>2. \E j \in DOMAIN requests : requests[j].id = requests[i].id /\ t[requests[i].id] = requests[j].entry
    BY <1>4 DEF Asks, Reads, Follows
  <2>3. QED
    BY <2>1, <2>2
<1>6. WillPublish(t, v, refuses)
  BY <1>2, <1>3, <1>4, <1>5 DEF WillPublish, MayRetry
<1>7. QED
  BY <1>6 DEF Mends

\* A publication is refused, and the node is to be configured.
LEMMA RefusedWrites ==
  ASSUME NEW table, NEW u, NEW q, NEW s, NEW requests, NEW t, NEW v, NEW p,
         Reads(table, u, q, s, {s.id}, requests, t, v, p),
         NEW c, NEW K, NEW W, NEW N, NEW refuses, Good(c, table, u, q, K, W, N, refuses),
         IsRefusal(s), s.id \in DOMAIN table, NEW D, K \subseteq D, requests = << ConfigureNode(D) >>
  PROVE  Good(c, t, v, p, K, W, N, refuses) /\ Mends(t, v, p, refuses) /\ Busy(table, u)
<1>1. Busy(table, u) /\ WriteEntries(table) # {} /\ ~OwnEntry(table)
  BY BusyBecause DEF IsRefusal, Writes
<1>2. RefusalOn(q)
  BY ReadFirst DEF Asks, Reads, Typed
<1>3. W \subseteq D
  BY <1>1, <1>2 DEF Good, AimGood
<1>4. /\ DOMAIN requests = {1} /\ requests[1].id = ConfigureId /\ requests[1].op.name = "configure"
      /\ requests[1].entry.devices = D
  BY DEF ConfigureNode, ConfigureId
<1>5. s.id # ConfigureId /\ ConfigureId # OwnListId
  BY WriteIds DEF IsRefusal
<1>6. Writing(table, u, q, s, requests, K, W, refuses)
  BY <1>1, <1>3, <1>4, <1>5 DEF Writing
<1>7. Outstanding(t, v, p, ConfigureId)
  <2>1. ConfigureId \in DOMAIN t
    BY <1>4 DEF Asks, Reads, Follows
  <2>2. PICK k \in DOMAIN v : v[k].id = requests[1].id
    BY <1>4 DEF Asks, Reads, Longer
  <2>3. QED
    BY <1>4, <2>1, <2>2 DEF Outstanding, RequestOn
<1>8. QED
  BY <1>1, <1>6, <1>7, WritingGood DEF Mends

\* A purge or a configuration is answered: its devices are published.
LEMMA AnsweredWrites ==
  ASSUME NEW table, NEW u, NEW q, NEW s, NEW requests, NEW t, NEW v, NEW p,
         Reads(table, u, q, s, {s.id}, requests, t, v, p),
         NEW c, NEW K, NEW W, NEW N, NEW refuses, Good(c, table, u, q, K, W, N, refuses),
         s.id \in DOMAIN table, DOMAIN requests = {1}, requests[1].op.name = "publish",
         requests[1].op.devices = table[s.id].devices,
         s.id = ConfigureId \/ (s.id = PurgeId /\ ~requests[1].entry.retry)
  PROVE  Good(c, t, v, p, K, W, N, refuses) /\ Mends(t, v, p, refuses) /\ Busy(table, u)
<1>1. Busy(table, u) /\ WriteEntries(table) # {} /\ ~OwnEntry(table)
  BY BusyBecause, WriteIds DEF Writes
<1>2. W \subseteq table[s.id].devices
  BY DEF Good, AimGood
<1>3. requests[1] \in Requests
  BY ItemsAre DEF Asks, Reads
<1>4. requests[1].id # OwnListId
  BY <1>3, WriteIds
<1>5. Writing(table, u, q, s, requests, K, W, refuses)
  BY <1>1, <1>2, <1>3, <1>4 DEF Writing
<1>6. s.id = ConfigureId => ~refuses
  <2>1. q \in Seq(Stanza) /\ q # <<>> /\ s = Head(q) /\ s.kind # "live" /\ TrueGood(q, refuses)
    BY DEF Asks, Reads, Typed, Good
  <2>2. s.id = ConfigureId => Asked(s.id) = "configure"
    BY WriteIds
  <2>3. \A b : TrueGood(q, b) /\ s.kind # "live" => (Asked(s.id) = "configure" => ~b)
    BY <2>1, ReadFirst
  <2>4. QED
    BY <2>1, <2>2, <2>3
<1>7. Mends(t, v, p, refuses)
  <2>1. PurgeId # ConfigureId
    BY WriteIds
  <2>2. refuses => ~requests[1].entry.retry /\ \A j \in DOMAIN requests : requests[j].id = requests[1].id => j = 1
    BY <1>3, <1>6, <2>1
  <2>3. QED
    BY <1>3, <2>2, PublishMends
<1>8. QED
  BY <1>1, <1>5, <1>7, WritingGood

\* The list a login waits for is on the stream: it brings all devices.
LEMMA LoginReads ==
  ASSUME NEW table, NEW u, NEW q, NEW s, NEW X, NEW requests, NEW t, NEW v, NEW p,
         Reads(table, u, q, s, X, requests, t, v, p),
         NEW c, NEW K, NEW W, NEW N, NEW refuses, Good(c, table, u, q, K, W, N, refuses),
         OwnEntry(table), X = {s.id}, s.id = OwnListId
  PROVE  Brings(s, c, W, refuses) /\ ~WriteOn(u) /\ ~WrittenOn(q)
<1>1. q \in Seq(Stanza) /\ q # <<>> /\ s = Head(q) /\ IsListAnswer(s)
  BY DEF Asks, Reads, Typed, IsListAnswer
<1>2. ~WriteOn(u) /\ ~WrittenOn(q) /\ (NoListOn(q) \/ FirstBrings(q, c, W, refuses))
  BY DEF Good, LoginGood
<1>3. ~NoListOn(q)
  BY <1>1, ReadFirst
<1>4. QED
  BY <1>1, <1>2, <1>3, FirstsRead

\* A login that is told the list publishes it.
LoginRequests(requests, D) ==
  /\ Len(requests) = 3 /\ requests[1] = PublishList(D, "merged")
  /\ requests[2] = Purge(D) \/ requests[2] = PublishList(D, "v0")
  /\ requests[3] = FetchBundles(Own)

\* The fields of these requests.
LEMMA LoginRequestsAre ==
  ASSUME NEW requests \in Seq(Requests), NEW D, LoginRequests(requests, D)
  PROVE  /\ DOMAIN requests = {1, 2, 3} /\ \A i \in DOMAIN requests : requests[i] \in Requests
         /\ requests[1].op.name = "publish" /\ requests[1].op.devices = D /\ ~requests[1].entry.retry
         /\ requests[1].id = <<"pub-devices", Own>>
         /\ \/ requests[2].op.name = "purge" /\ requests[2].entry.devices = D /\ requests[2].id = <<"purge-devices", Own>>
            \/ requests[2].op.name = "publish" /\ requests[2].op.devices = D /\ requests[2].id = <<"pub-devices-v0", Own>>
         /\ requests[3].op.name = "bundles" /\ requests[3].id = <<"bundle", Own>>
<1>1. DOMAIN requests = {1, 2, 3}
  BY DEF LoginRequests
<1>2. \A i \in DOMAIN requests : requests[i] \in Requests
  BY ItemsAre
<1>3. /\ requests[1].op.name = "publish" /\ requests[1].op.devices = D /\ ~requests[1].entry.retry
      /\ requests[1].id = <<"pub-devices", Own>>
  BY PublishFields DEF LoginRequests
<1>4. \/ requests[2].op.name = "purge" /\ requests[2].entry.devices = D /\ requests[2].id = <<"purge-devices", Own>>
      \/ requests[2].op.name = "publish" /\ requests[2].op.devices = D /\ requests[2].id = <<"pub-devices-v0", Own>>
  BY PublishFields DEF LoginRequests, Purge
<1>5. requests[3].op.name = "bundles" /\ requests[3].id = <<"bundle", Own>>
  BY DEF LoginRequests, FetchBundles
<1>6. QED
  BY <1>1, <1>2, <1>3, <1>4, <1>5

\* It is good still.
LEMMA LoginWrites ==
  ASSUME NEW table, NEW u, NEW q, NEW s, NEW requests, NEW t, NEW v, NEW p,
         Reads(table, u, q, s, {s.id}, requests, t, v, p),
         NEW c, NEW K, NEW L, K \subseteq L, NEW W, NEW N, NEW refuses, Good(c, table, u, q, K, W, N, refuses),
         OwnEntry(table), s.id = OwnListId, s.kind = "result",
         LoginRequests(requests, AllDevices(s.payload) \cup {c}), AllDevices(s.payload) \cup {c} \subseteq L
  PROVE  Good(c, t, v, p, L, W, N, refuses)
<1> DEFINE D == AllDevices(s.payload) \cup {c}
<1>1. W \subseteq D /\ ~WriteOn(u) /\ ~WrittenOn(q)
  BY LoginReads DEF Brings
<1> HIDE DEF D
<1>2. LoginRequests(requests, D) /\ D \subseteq L /\ requests \in Seq(Requests)
  BY DEF Asks, Reads, D
<1>3. /\ DOMAIN requests = {1, 2, 3} /\ \A i \in DOMAIN requests : requests[i] \in Requests
      /\ requests[1].op.name = "publish" /\ requests[1].op.devices = D
      /\ \/ requests[2].op.name = "purge" /\ requests[2].entry.devices = D
         \/ requests[2].op.name = "publish" /\ requests[2].op.devices = D
      /\ requests[3].op.name = "bundles"
  BY <1>2, LoginRequestsAre
<1>4. s.id # ConfigureId /\ \A i \in DOMAIN requests : requests[i].id # OwnListId
  BY <1>3, WriteIds
<1>5. Writing(table, u, q, s, requests, L, W, refuses)
  BY <1>1, <1>2, <1>3, <1>4 DEF Writing
<1>6. QED
  BY <1>5, WritingGood

\* And completes the list.
LEMMA LoginMends ==
  ASSUME NEW table, NEW u, NEW q, NEW s, NEW requests, NEW t, NEW v, NEW p,
         Reads(table, u, q, s, {s.id}, requests, t, v, p), NEW refuses, NEW D, LoginRequests(requests, D)
  PROVE  Mends(t, v, p, refuses)
<1>1. requests \in Seq(Requests)
  BY DEF Asks, Reads
<1>2. /\ DOMAIN requests = {1, 2, 3} /\ requests[1].op.name = "publish" /\ ~requests[1].entry.retry
      /\ \A j \in DOMAIN requests : requests[j].id = requests[1].id => j = 1
  BY <1>1, LoginRequestsAre
<1>3. QED
  BY <1>2, PublishMends

\* There is no list: the first one is published.
LEMMA FirstWrites ==
  ASSUME NEW table, NEW u, NEW q, NEW s, NEW requests, NEW t, NEW v, NEW p,
         Reads(table, u, q, s, {s.id}, requests, t, v, p),
         NEW c, NEW K, NEW W, NEW N, NEW refuses, Good(c, table, u, q, K, W, N, refuses),
         OwnEntry(table), s.id = OwnListId, s.kind = "error",
         s.condition = "item-not-found" => requests = << PublishList({c}, "merged"), PublishList({c}, "v0") >>
  PROVE  Good(c, t, v, p, K, W, N, refuses) /\ Mends(t, v, p, refuses)
<1>1. W \subseteq {c} /\ ~refuses /\ s.condition = "item-not-found"
  BY LoginReads DEF Brings
<1>2. /\ DOMAIN requests = {1, 2} /\ requests[1] = PublishList({c}, "merged") /\ requests[2] = PublishList({c}, "v0")
      /\ \A i \in DOMAIN requests : requests[i] \in Requests
  BY <1>1 DEF Asks, Reads
<1>3. \A i \in DOMAIN requests : requests[i].op.name = "publish" /\ requests[i].op.devices = {c}
  BY <1>2, PublishFields
<1>4. s.id # ConfigureId /\ \A i \in DOMAIN requests : requests[i].id # OwnListId
  BY <1>2, <1>3, WriteIds
<1>5. Brings(s, c, W, refuses) /\ ~WriteOn(u) /\ ~WrittenOn(q)
  BY LoginReads
<1>6. Writing(table, u, q, s, requests, K, W, refuses)
  BY <1>1, <1>3, <1>4, <1>5 DEF Writing
<1>7. Mends(t, v, p, refuses)
  BY <1>1, <1>2, <1>3, PublishMends
<1>8. QED
  BY <1>6, <1>7, WritingGood

\* It may know more.
LEMMA GoodKnows ==
  ASSUME NEW c, NEW t, NEW u, NEW q, NEW K, NEW L, K \subseteq L, NEW W, NEW N, NEW refuses,
         Good(c, t, u, q, K, W, N, refuses)
  PROVE  Good(c, t, u, q, L, W, N, refuses)
<1>1. AimGood(t, u, q, L, W, refuses)
  BY DEF Good, AimGood
<1>2. QED
  BY <1>1 DEF Good

\* What a step makes of a client: it is good still, and does not stop to
\* complete the list.
Proceeds(c) ==
  /\ Good(c, pending'[c], up'[c], down'[c], Known(c, Own)', Whole, Devices(node[Own]), Refuses)
  /\ Busy(pending'[c], up'[c]) => IsBusy(c)
  /\ IsMending(c) => Mends(pending'[c], up'[c], down'[c], Refuses)

\* The client reads s, and does the requests.
ClientReads(c, s, X, requests) ==
  /\ Reads(pending[c], up[c], down[c], s, X, requests, pending'[c], up'[c], down'[c])
  /\ Known(c, Own) \subseteq Known(c, Own)'

\* An answer that leads to requests.
LEMMA EffectReads ==
  ASSUME TypeOK, NEW c \in Client, NEW s \in Stanza, Takes(c, s), NEW r \in Requests, Answers(c, s, r),
         NEW a, NEW D, NEW found, NEW requests, Effect(c, Rest(c, s), a, D, found, requests)
  PROVE  /\ ClientReads(c, s, {s.id}, requests)
         /\ pending[c][s.id] = r.entry /\ s.id = r.id /\ s.id \in DOMAIN pending[c] /\ s.kind # "live"
         /\ \A e \in Client : e # c => pending'[e] = pending[e] /\ up'[e] = up[e] /\ Known(e, Own)' = Known(e, Own)
<1>0. TablesOK /\ RequestsOK /\ AnswersOK
  BY DEF TypeOK
<1>1. /\ requests \in Seq(Requests) /\ Request(c, Rest(c, s), requests)
      /\ \A d \in Client, b \in Account :
           Known(d, b)' = IF d = c /\ b = a THEN Known(c, a) \cup D ELSE Known(d, b)
  BY DEF Effect
<1>2. /\ s.kind # "live" /\ s.id = r.id /\ s.id \in DOMAIN pending[c] /\ pending[c][s.id] = r.entry
  BY DEF Answers
<1>3. s.kind \in {"result", "error"}
  BY <1>2, AnswerIs
<1>4. Typed(pending[c], up[c], down[c])
  BY <1>0 DEF Typed, TablesOK, RequestsOK, AnswersOK
<1>5. down[c] # <<>> /\ s = Head(down[c]) /\ down'[c] = Tail(down[c])
  BY <1>0 DEF Takes, AnswersOK
<1>6. Follows(pending[c], pending'[c], {s.id}, requests)
  <2>1. pending'[c] = Added(Rest(c, s), requests)
    BY <1>0, <1>1 DEF Request, TablesOK
  <2>2. QED
    BY <2>1, AddedFollows DEF Rest
<1>7. /\ \A d \in Client : d # c => pending'[d] = pending[d] /\ up'[d] = up[d]
      /\ up'[c] = up[c] \o Stanzas(requests)
  BY <1>0, <1>1, RequestKeeps
<1>8. Longer(up[c], up'[c], requests)
  BY <1>1, <1>4, <1>7, StanzasLonger DEF Typed
<1>9. Reads(pending[c], up[c], down[c], s, {s.id}, requests, pending'[c], up'[c], down'[c])
  BY <1>1, <1>3, <1>4, <1>5, <1>6, <1>8 DEF Asks, Reads
<1>10. Own \in Account
  BY DEF Account
<1>11. QED
  BY <1>1, <1>2, <1>7, <1>9, <1>10 DEF ClientReads

\* A harmless stanza.
LEMMA HarmlessProceeds ==
  ASSUME NEW c \in Client, IsGood(c), NEW s, NEW X, NEW requests,
         ClientReads(c, s, X, requests), Harmless(pending[c], s, X, requests)
  PROVE  Proceeds(c)
<1>1. Reads(pending[c], up[c], down[c], s, X, requests, pending'[c], up'[c], down'[c])
      /\ Known(c, Own) \subseteq Known(c, Own)'
  BY DEF ClientReads
<1>2. Good(c, pending[c], up[c], down[c], Known(c, Own), Whole, Devices(node[Own]), Refuses)
  BY DEF IsGood
<1>3. TrueGood(down[c], Refuses)
  BY <1>2 DEF Good
<1>4. /\ Good(c, pending'[c], up'[c], down'[c], Known(c, Own)', Whole, Devices(node[Own]), Refuses)
      /\ Busy(pending'[c], up'[c]) => Busy(pending[c], up[c])
  BY <1>1, <1>2, HarmlessGood
<1>5. IsMending(c) => Mends(pending'[c], up'[c], down'[c], Refuses)
  BY <1>1, <1>3, HarmlessMends DEF IsMending
<1>6. QED
  BY <1>4, <1>5 DEF Proceeds, IsBusy

\* An answer that leads to nothing, or to requests for bundles.
LEMMA BundlesHarmless ==
  ASSUME NEW table, NEW s, NEW r \in Requests, s.id = r.id, NEW requests,
         \A i \in DOMAIN requests : requests[i] \in Requests /\ requests[i].op.name \in {"bundles", "bundle"},
         \/ r.op.name \notin Writes /\ (r.op.name = "list" => ~table[s.id].own)
         \/ r.op.name = "publish" /\ table[s.id].retry
  PROVE  Harmless(table, s, {s.id}, requests)
<1>1. \A i \in DOMAIN requests : requests[i].op.name \notin Writes /\ requests[i].id # OwnListId
  BY WriteIds DEF Writes
<1>2. Plain(requests)
  BY <1>1 DEF Plain
<1>3. s.id \notin {PurgeId, ConfigureId}
  BY WriteIds DEF Writes
<1>4. s.id = OwnListId => ~OwnEntry(table)
  <2>1. s.id = OwnListId => r.op.name = "list"
    BY OwnListIdIs
  <2>2. QED
    BY <2>1 DEF OwnEntry, Writes
<1>5. Asked(s.id) = "publish" => table[s.id].retry
  BY WriteIds DEF Writes
<1>6. QED
  BY <1>1, <1>2, <1>3, <1>4, <1>5 DEF Harmless

\* The answers to requests for lists.
LEMMA ListsProceed ==
  ASSUME TypeOK, NEW c \in Client, IsGood(c), NEW s \in Stanza, Takes(c, s), NEW r \in Requests, Answers(c, s, r),
         OwnListComes(c, Rest(c, s), r, s) \/ ListComes(c, Rest(c, s), r, s) \/ NoListComes(c, Rest(c, s), r, s)
  PROVE  /\ Proceeds(c)
         /\ \A e \in Client : e # c => pending'[e] = pending[e] /\ up'[e] = up[e] /\ Known(e, Own)' = Known(e, Own)
<1> DEFINE table == pending[c]
<1>0. ManagersOK /\ s.kind # "live" /\ s.id = r.id /\ s.id \in DOMAIN table /\ table[s.id] = r.entry
  BY DEF TypeOK, Answers
<1>1. Good(c, table, up[c], down[c], Known(c, Own), Whole, Devices(node[Own]), Refuses)
  BY DEF IsGood
<1>2. ASSUME r.op.name = "list", r.entry.own PROVE s.id = OwnListId /\ OwnEntry(table) /\ IsBusy(c)
  <2>1. r \in ListRequests
    BY <1>2, RequestOf
  <2>2. r.id = OwnListId
    BY <1>2, <2>1, ListIs DEF OwnListId
  <2>3. OwnEntry(table)
    BY <1>0, <1>2, <2>2 DEF OwnEntry
  <2>4. QED
    BY <1>0, <2>2, <2>3 DEF IsBusy, Busy
<1>3. CASE OwnListComes(c, Rest(c, s), r, s)
  <2>0. r.op.name = "list" /\ s.kind = "result" /\ r.entry.own
    BY <1>3 DEF OwnListComes
  <2>1. PICK D : D = AllDevices(s.payload) \cup {c}
    OBVIOUS
  <2>2. PICK requests :
          /\ Effect(c, Rest(c, s), Own, D, {}, requests)
          /\ requests[1] = PublishList(D, "merged")
          /\ requests[2] = IF Cardinality(s.payload) > 1 THEN Purge(D) ELSE PublishList(D, "v0")
          /\ requests[3] = FetchBundles(Own) /\ Len(requests) = 3
    BY <1>0, <1>3, <2>1, OwnListDoes
  <2>3. requests[2] = Purge(D) \/ requests[2] = PublishList(D, "v0")
    BY <2>2
  <2>4. /\ ClientReads(c, s, {s.id}, requests)
        /\ \A e \in Client : e # c => pending'[e] = pending[e] /\ up'[e] = up[e] /\ Known(e, Own)' = Known(e, Own)
    BY <2>2, EffectReads
  <2>5. D \subseteq Known(c, Own)'
    BY <2>2 DEF Effect, Account
  <2>6. s.id = OwnListId /\ OwnEntry(table) /\ IsBusy(c)
    BY <1>2, <2>0
  <2>7. /\ Reads(table, up[c], down[c], s, {s.id}, requests, pending'[c], up'[c], down'[c])
        /\ Known(c, Own) \subseteq Known(c, Own)'
    BY <2>4 DEF ClientReads
  <2>l. LoginRequests(requests, D)
    BY <2>2, <2>3 DEF LoginRequests
  <2>m. Mends(pending'[c], up'[c], down'[c], Refuses)
    BY <2>7, <2>l, LoginMends
  <2>n. Good(c, pending'[c], up'[c], down'[c], Known(c, Own)', Whole, Devices(node[Own]), Refuses)
    BY <1>1, <2>0, <2>1, <2>5, <2>6, <2>7, <2>l, LoginWrites
  <2>9. QED
    BY <2>4, <2>6, <2>m, <2>n DEF Proceeds
<1>4. CASE ListComes(c, Rest(c, s), r, s)
  <2>1. PICK requests :
          /\ Effect(c, Rest(c, s), r.entry.jid, AllDevices(s.payload), {}, requests)
          /\ \A i \in DOMAIN requests : requests[i] = FetchBundles(r.entry.jid)
          /\ AllDevices(s.payload) # {} => Len(requests) = 1
    BY <1>0, <1>4, ListDoes
  <2>2. /\ ClientReads(c, s, {s.id}, requests)
        /\ \A e \in Client : e # c => pending'[e] = pending[e] /\ up'[e] = up[e] /\ Known(e, Own)' = Known(e, Own)
    BY <2>1, EffectReads
  <2>3. r.entry.jid \in Account /\ r.op.name = "list" /\ ~r.entry.own
    BY <1>0, <1>4, ListDoes DEF ListComes
  <2>4. \A i \in DOMAIN requests : requests[i] \in Requests /\ requests[i].op.name \in {"bundles", "bundle"}
    BY <2>1, <2>3, OtherRequests DEF FetchBundles
  <2>5. Harmless(table, s, {s.id}, requests)
    BY <1>0, <2>3, <2>4, BundlesHarmless DEF Writes
  <2>6. QED
    BY <2>2, <2>5, HarmlessProceeds
<1>5. CASE NoListComes(c, Rest(c, s), r, s)
  <2>0. r.op.name = "list" /\ s.kind = "error"
    BY <1>5 DEF NoListComes
  <2>1. PICK requests :
          /\ Effect(c, Rest(c, s), Own, {}, {}, requests)
          /\ IF r.entry.own /\ s.condition = "item-not-found"
             THEN requests = << PublishList({c}, "merged"), PublishList({c}, "v0") >>
             ELSE requests = <<>>
    BY <1>0, <1>5, NoListDoes
  <2>2. /\ ClientReads(c, s, {s.id}, requests)
        /\ \A e \in Client : e # c => pending'[e] = pending[e] /\ up'[e] = up[e] /\ Known(e, Own)' = Known(e, Own)
    BY <2>1, EffectReads
  <2>3. CASE ~r.entry.own
    <3>1. DOMAIN requests = {}
      BY <2>1, <2>3
    <3>2. Harmless(table, s, {s.id}, requests)
      BY <1>0, <2>0, <2>3, <3>1, BundlesHarmless DEF Writes
    <3>3. QED
      BY <2>2, <3>2, HarmlessProceeds
  <2>4. CASE r.entry.own
    <3>1. s.id = OwnListId /\ OwnEntry(table) /\ IsBusy(c)
      BY <1>2, <2>0, <2>4
    <3>2. /\ Reads(table, up[c], down[c], s, {s.id}, requests, pending'[c], up'[c], down'[c])
          /\ Known(c, Own) \subseteq Known(c, Own)'
      BY <2>2 DEF ClientReads
    <3>3. /\ Good(c, pending'[c], up'[c], down'[c], Known(c, Own), Whole, Devices(node[Own]), Refuses)
          /\ Mends(pending'[c], up'[c], down'[c], Refuses)
      BY <1>1, <2>0, <2>1, <2>4, <3>1, <3>2, FirstWrites
    <3>4. Good(c, pending'[c], up'[c], down'[c], Known(c, Own)', Whole, Devices(node[Own]), Refuses)
      BY <3>2, <3>3, GoodKnows
    <3>5. QED
      BY <2>2, <3>1, <3>3, <3>4 DEF Proceeds
  <2>5. QED
    BY <2>3, <2>4
<1>6. QED
  BY <1>3, <1>4, <1>5

\* What a step leaves of a client's own state.
Untouched(e) == pending'[e] = pending[e] /\ up'[e] = up[e] /\ Known(e, Own)' = Known(e, Own)

\* The answers to requests that write.
LEMMA WritesProceed ==
  ASSUME TypeOK, NEW c \in Client, IsGood(c), NEW s \in Stanza, Takes(c, s), NEW r \in Requests, Answers(c, s, r),
         \/ PublishedComes(c, Rest(c, s), r, s) \/ RefusedComes(c, Rest(c, s), r, s)
         \/ PurgedComes(c, Rest(c, s), r, s) \/ ConfiguredComes(c, Rest(c, s), r, s)
  PROVE  Proceeds(c) /\ \A e \in Client : e # c => Untouched(e)
<1> DEFINE table == pending[c]
<1>0. ManagersOK /\ s.kind # "live" /\ s.id = r.id /\ s.id \in DOMAIN table /\ table[s.id] = r.entry
  BY DEF TypeOK, Answers
<1>1. Good(c, table, up[c], down[c], Known(c, Own), Whole, Devices(node[Own]), Refuses)
  BY DEF IsGood
<1>2. r.op.name \in {"publish", "purge", "configure"} /\ Asked(s.id) = r.op.name
  BY <1>0, WriteIds DEF PublishedComes, RefusedComes, PurgedComes, ConfiguredComes
<1>3. IsBusy(c) /\ ~OwnEntry(table)
  <2>1. Asked(s.id) \in Writes
    BY <1>2 DEF Writes
  <2>2. QED
    BY <1>0, <1>1, <2>1, BusyBecause DEF IsBusy
<1>4. CASE PublishedComes(c, Rest(c, s), r, s)
  <2>0. r.op.name = "publish" /\ s.kind = "result"
    BY <1>4 DEF PublishedComes
  <2>1. Effect(c, Rest(c, s), Own, {}, {}, << FetchList(Own, FALSE) >>)
    BY <1>0, <1>4, PublishedDoes
  <2>2. PICK requests : requests = << FetchList(Own, FALSE) >>
    OBVIOUS
  <2>3. /\ ClientReads(c, s, {s.id}, requests)
        /\ \A e \in Client : e # c => Untouched(e)
    BY <2>1, <2>2, EffectReads DEF Untouched
  <2>4. DOMAIN requests = {1} /\ requests[1] = FetchList(Own, FALSE)
    BY <2>2
  <2>5. requests[1].op.name = "list" /\ ~requests[1].entry.own
    BY <2>4 DEF FetchList
  <2>6. Plain(requests)
    BY <2>4, <2>5 DEF Plain, Writes
  <2>7. s.id \notin {PurgeId, ConfigureId} /\ s.id # OwnListId
    BY <1>2, <2>0, WriteIds
  <2>8. Harmless(table, s, {s.id}, requests)
    BY <1>3, <2>0, <2>6, <2>7 DEF Harmless
  <2>9. QED
    BY <2>3, <2>8, HarmlessProceeds
<1>5. CASE RefusedComes(c, Rest(c, s), r, s)
  <2>0. r.op.name = "publish" /\ s.kind = "error" /\ IsRefusal(s)
    BY <1>2, <1>5 DEF RefusedComes, IsRefusal
  <2>1. s.condition = "precondition-not-met"
    <3>1. down[c] \in Seq(Stanza) /\ down[c] # <<>> /\ s = Head(down[c]) /\ TrueGood(down[c], Refuses)
      BY <1>1 DEF TypeOK, AnswersOK, Takes, Good
    <3>2. \A b : TrueGood(down[c], b) /\ s.kind # "live" => (IsRefusal(s) => s.condition = "precondition-not-met")
      BY <3>1, ReadFirst
    <3>3. QED
      BY <1>0, <2>0, <3>1, <3>2
  <2>2. CASE r.entry.retry
    <3>1. Effect(c, Rest(c, s), Own, {}, {}, <<>>)
      BY <1>0, <1>5, <2>2, RefusedDoes
    <3>2. ClientReads(c, s, {s.id}, <<>>) /\ \A e \in Client : e # c => Untouched(e)
      BY <3>1, EffectReads DEF Untouched
    <3>3. Harmless(table, s, {s.id}, <<>>)
      BY <1>0, <2>0, <2>2, BundlesHarmless
    <3>4. QED
      BY <3>2, <3>3, HarmlessProceeds
  <2>3. CASE ~r.entry.retry
    <3>1. PICK D \in SUBSET Id :
            /\ D = IF lists[c][Own] = None THEN {c} ELSE lists[c][Own]
            /\ Effect(c, Rest(c, s), Own, {}, {}, << ConfigureNode(D) >>)
      BY <1>0, <1>5, <2>1, <2>3, RefusedDoes
    <3>2. Known(c, Own) \subseteq D
      BY <3>1 DEF Known
    <3>3. PICK requests : requests = << ConfigureNode(D) >>
      OBVIOUS
    <3>4. ClientReads(c, s, {s.id}, requests) /\ \A e \in Client : e # c => Untouched(e)
      BY <3>1, <3>3, EffectReads DEF Untouched
    <3>5. /\ Reads(table, up[c], down[c], s, {s.id}, requests, pending'[c], up'[c], down'[c])
          /\ Known(c, Own) \subseteq Known(c, Own)'
      BY <3>4 DEF ClientReads
    <3>6. /\ Good(c, pending'[c], up'[c], down'[c], Known(c, Own), Whole, Devices(node[Own]), Refuses)
          /\ Mends(pending'[c], up'[c], down'[c], Refuses)
      BY <1>0, <1>1, <2>0, <3>2, <3>3, <3>5, RefusedWrites
    <3>7. Good(c, pending'[c], up'[c], down'[c], Known(c, Own)', Whole, Devices(node[Own]), Refuses)
      BY <3>5, <3>6, GoodKnows
    <3>8. QED
      BY <1>3, <3>4, <3>6, <3>7 DEF Proceeds
  <2>4. QED
    BY <2>2, <2>3
<1>6. ASSUME NEW version, Effect(c, Rest(c, s), Own, {}, {}, << PublishList(r.entry.devices, version) >>),
             \/ s.id = PurgeId /\ version = "v0"
             \/ s.id = ConfigureId /\ version = "retry"
      PROVE  Proceeds(c) /\ \A e \in Client : e # c => Untouched(e)
  <2>1. PICK requests : requests = << PublishList(table[s.id].devices, version) >>
    OBVIOUS
  <2>2. Effect(c, Rest(c, s), Own, {}, {}, requests)
    BY <1>0, <1>6, <2>1
  <2>3. ClientReads(c, s, {s.id}, requests) /\ \A e \in Client : e # c => Untouched(e)
    BY <2>2, EffectReads DEF Untouched
  <2>4. /\ Reads(table, up[c], down[c], s, {s.id}, requests, pending'[c], up'[c], down'[c])
        /\ Known(c, Own) \subseteq Known(c, Own)'
    BY <2>3 DEF ClientReads
  <2> HIDE DEF table
  <2>5. /\ Good(c, pending'[c], up'[c], down'[c], Known(c, Own), Whole, Devices(node[Own]), Refuses)
        /\ Mends(pending'[c], up'[c], down'[c], Refuses)
    <3>1. s.id \in DOMAIN table
      BY <1>0
    <3>2. DOMAIN requests = {1} /\ requests[1] = PublishList(table[s.id].devices, version)
      BY <2>1
    <3>3. /\ requests[1].op.name = "publish" /\ requests[1].op.devices = table[s.id].devices
          /\ s.id = ConfigureId \/ (s.id = PurgeId /\ ~requests[1].entry.retry)
      BY <1>6, <3>2, PublishFields
    <3>4. QED
      BY <1>1, <2>4, <3>1, <3>2, <3>3, AnsweredWrites
  <2>6. Good(c, pending'[c], up'[c], down'[c], Known(c, Own)', Whole, Devices(node[Own]), Refuses)
    BY <2>4, <2>5, GoodKnows
  <2>7. QED
    BY <1>3, <2>3, <2>5, <2>6 DEF Proceeds
<1>7. CASE PurgedComes(c, Rest(c, s), r, s)
  <2>1. Effect(c, Rest(c, s), Own, {}, {}, << PublishList(r.entry.devices, "v0") >>)
    BY <1>0, <1>7, PurgedDoes
  <2>2. s.id = PurgeId
    BY <1>0, <1>7, WriteIds DEF PurgedComes
  <2>3. QED
    BY <1>6, <2>1, <2>2
<1>8. CASE ConfiguredComes(c, Rest(c, s), r, s)
  <2>1. Effect(c, Rest(c, s), Own, {}, {}, << PublishList(r.entry.devices, "retry") >>)
    BY <1>0, <1>8, ConfiguredDoes
  <2>2. s.id = ConfigureId
    BY <1>0, <1>8, WriteIds DEF ConfiguredComes
  <2>3. QED
    BY <1>6, <2>1, <2>2
<1>9. QED
  BY <1>4, <1>5, <1>7, <1>8

\* The answers about bundles.
LEMMA BundlesProceed ==
  ASSUME TypeOK, NEW c \in Client, IsGood(c), NEW s \in Stanza, Takes(c, s), NEW r \in Requests, Answers(c, s, r),
         \/ BundlesCome(c, Rest(c, s), r, s) \/ BundleComes(c, Rest(c, s), r, s)
         \/ BundlePublishedComes(c, Rest(c, s), r, s)
  PROVE  Proceeds(c) /\ \A e \in Client : e # c => Untouched(e)
<1>0. ManagersOK /\ s.kind # "live" /\ s.id = r.id
  BY DEF TypeOK, Answers
<1>1. r.op.name \in {"bundles", "bundle", "publish-bundle"}
  BY DEF BundlesCome, BundleComes, BundlePublishedComes
<1>2. ASSUME NEW found, NEW requests, Effect(c, Rest(c, s), Own, {}, found, requests),
             \A i \in DOMAIN requests : requests[i] \in Requests /\ requests[i].op.name \in {"bundles", "bundle"}
      PROVE  Proceeds(c) /\ \A e \in Client : e # c => Untouched(e)
  <2>1. ClientReads(c, s, {s.id}, requests) /\ \A e \in Client : e # c => Untouched(e)
    BY <1>2, EffectReads DEF Untouched
  <2>2. Harmless(pending[c], s, {s.id}, requests)
    BY <1>0, <1>1, <1>2, BundlesHarmless DEF Writes
  <2>3. QED
    BY <2>1, <2>2, HarmlessProceeds
<1>3. CASE BundlesCome(c, Rest(c, s), r, s)
  <2>1. PICK requests \in Seq(Requests), found \in SUBSET Id :
          /\ Effect(c, Rest(c, s), Own, {}, found, requests)
          /\ AsksEach(r.entry.jid, (Known(c, r.entry.jid) \ {c}) \ found, requests)
    BY <1>0, <1>3, BundlesDoes
  <2>2. \A i \in DOMAIN requests : requests[i].op.name = "bundle"
    BY <2>1 DEF AsksEach, FetchBundle
  <2>3. \A i \in DOMAIN requests : requests[i] \in Requests
    BY ItemsAre
  <2>4. QED
    BY <1>2, <2>1, <2>2, <2>3
<1>4. CASE BundleComes(c, Rest(c, s), r, s)
  <2>1. Effect(c, Rest(c, s), Own, {}, IF s.kind = "result" THEN {r.entry.device} ELSE {}, <<>>)
    BY <1>0, <1>4, BundleComesDoes
  <2>2. QED
    BY <1>2, <2>1
<1>5. CASE BundlePublishedComes(c, Rest(c, s), r, s)
  <2>1. Effect(c, Rest(c, s), Own, {}, {}, <<>>)
    BY <1>0, <1>5, BundleDoes DEF BundlePublishedComes
  <2>2. QED
    BY <1>2, <2>1
<1>6. QED
  BY <1>3, <1>4, <1>5

\* A client that reads what is no answer to a request of its table.
LEMMA OthersProceed ==
  ASSUME TypeOK, NEW c \in Client, IsGood(c), NEW s \in Stanza, Takes(c, s),
         \/ \E D \in SUBSET Id : s = Live(D) /\ LiveUpdate(c, D)
         \/ s.kind # "live" /\ s.id \notin DOMAIN pending[c] /\ Ignored
  PROVE  Proceeds(c) /\ \A e \in Client : e # c => Untouched(e)
<1>0. ManagersOK /\ TablesOK /\ RequestsOK /\ AnswersOK
  BY DEF TypeOK
<1>1. s.kind = "live" \/ s.id \notin DOMAIN pending[c]
  BY DEF Live
<1>2. /\ pending' = pending /\ up' = up
      /\ Known(c, Own) \subseteq Known(c, Own)' /\ \A e \in Client : e # c => Known(e, Own)' = Known(e, Own)
  <2>1. CASE \E D \in SUBSET Id : s = Live(D) /\ LiveUpdate(c, D)
    BY <1>0, <2>1, LiveDoes DEF Account
  <2>2. CASE Ignored
    BY <2>2 DEF Ignored, Known
  <2>3. QED
    BY <2>1, <2>2
<1>3. Typed(pending[c], up[c], down[c]) /\ down[c] # <<>> /\ s = Head(down[c]) /\ down'[c] = Tail(down[c])
  BY <1>0 DEF Typed, TablesOK, RequestsOK, AnswersOK, Takes
<1>4. <<>> \in Seq(Requests) /\ DOMAIN <<>> = {}
  OBVIOUS
<1>5. Follows(pending[c], pending[c], {}, <<>>) /\ Longer(up[c], up[c], <<>>)
  BY <1>4 DEF Follows, Longer
<1>6. ClientReads(c, s, {}, <<>>)
  BY <1>1, <1>2, <1>3, <1>4, <1>5 DEF ClientReads, Asks, Reads
<1>7. Harmless(pending[c], s, {}, <<>>)
  BY <1>4 DEF Harmless, Plain
<1>8. QED
  BY <1>2, <1>6, <1>7, HarmlessProceeds DEF Untouched

\* A client that reads is as good, and as busy, as before; the others rest.
LEMMA HandleProceeds ==
  ASSUME TypeOK, NEW c \in Client, IsGood(c), HandleStanza(c)
  PROVE  /\ Proceeds(c) /\ \A e \in Client : e # c => Untouched(e) /\ down'[e] = down[e]
         /\ UNCHANGED <<server, initial, node, online, disturbed>>
<1>0. ManagersOK /\ TablesOK /\ AnswersOK
  BY DEF TypeOK
<1>1. PICK s \in Stanza :
        /\ Takes(c, s)
        /\ \/ \E D \in SUBSET Id : s = Live(D) /\ LiveUpdate(c, D)
           \/ s.kind # "live" /\ s.id \notin DOMAIN pending[c] /\ Ignored
           \/ \E r \in Requests : Answers(c, s, r) /\ Comes(c, Rest(c, s), r, s)
  BY <1>0, HandleDoes
<1>2. /\ \A e \in Client : e # c => down'[e] = down[e]
      /\ UNCHANGED <<server, initial, node, online, disturbed>>
  BY <1>0, <1>1 DEF Takes, AnswersOK, serverVars
<1>3. CASE \/ \E D \in SUBSET Id : s = Live(D) /\ LiveUpdate(c, D)
           \/ s.kind # "live" /\ s.id \notin DOMAIN pending[c] /\ Ignored
  BY <1>1, <1>2, <1>3, OthersProceed
<1>4. CASE \E r \in Requests : Answers(c, s, r) /\ Comes(c, Rest(c, s), r, s)
  <2>1. PICK r \in Requests : Answers(c, s, r) /\ Comes(c, Rest(c, s), r, s)
    BY <1>4
  <2>2. CASE \/ OwnListComes(c, Rest(c, s), r, s) \/ ListComes(c, Rest(c, s), r, s)
             \/ NoListComes(c, Rest(c, s), r, s)
    BY <1>1, <1>2, <2>1, <2>2, ListsProceed DEF Untouched
  <2>3. CASE \/ PublishedComes(c, Rest(c, s), r, s) \/ RefusedComes(c, Rest(c, s), r, s)
             \/ PurgedComes(c, Rest(c, s), r, s) \/ ConfiguredComes(c, Rest(c, s), r, s)
    BY <1>1, <1>2, <2>1, <2>3, WritesProceed
  <2>4. CASE \/ BundlesCome(c, Rest(c, s), r, s) \/ BundleComes(c, Rest(c, s), r, s)
             \/ BundlePublishedComes(c, Rest(c, s), r, s)
    BY <1>1, <1>2, <2>1, <2>4, BundlesProceed
  <2>5. QED
    BY <2>1, <2>2, <2>3, <2>4 DEF Comes
<1>5. QED
  BY <1>1, <1>3, <1>4

\* When one client proceeds, and the others and the server rest, what is to
\* complete the list still does.
LEMMA HandleComplete ==
  ASSUME TypeOK, CompleteInv, NEW c \in Client, HandleStanza(c) PROVE CompleteInv'
<1> SUFFICES ASSUME Allowed'
             PROVE  /\ \A e \in Client : IsBusy(e)' => e \in online'
                    /\ \A e, d \in Client : IsBusy(e)' /\ IsBusy(d)' => e = d
                    /\ \A e \in Client : IsGood(e)'
                    /\ Whole' \subseteq Devices(node[Own])' \/ \E e \in Client : IsMending(e)'
  BY DEF CompleteInv
<1>1. UNCHANGED <<server, disturbed>>
  BY DEF HandleStanza
<1>2. Allowed
  BY <1>1 DEF Allowed
<1>3. /\ \A e \in Client : IsBusy(e) => e \in online
      /\ \A e, d \in Client : IsBusy(e) /\ IsBusy(d) => e = d
      /\ \A e \in Client : IsGood(e)
      /\ Whole \subseteq Devices(node[Own]) \/ \E e \in Client : IsMending(e)
  BY <1>2 DEF CompleteInv
<1>4. /\ Proceeds(c) /\ \A e \in Client : e # c => Untouched(e) /\ down'[e] = down[e]
      /\ UNCHANGED <<server, initial, node, online, disturbed>>
  BY <1>3, HandleProceeds
<1>5. Whole' = Whole /\ Devices(node[Own])' = Devices(node[Own]) /\ (Refuses' <=> Refuses)
  BY <1>4 DEF Whole, Devices, Refuses
<1>6. \A e \in Client : /\ IsGood(e)'
                        /\ IsBusy(e)' => IsBusy(e)
                        /\ IsMending(e) => IsMending(e)'
  <2>1. ASSUME NEW e \in Client, e # c PROVE IsGood(e)' /\ (IsBusy(e)' => IsBusy(e)) /\ (IsMending(e) => IsMending(e)')
    <3>1. Untouched(e) /\ down'[e] = down[e] /\ IsGood(e)
      BY <1>3, <1>4, <2>1
    <3>2. QED
      BY <1>5, <3>1, CompleteIs DEF Untouched, IsGood, IsBusy, IsMending
  <2>2. IsGood(c)' /\ (IsBusy(c)' => IsBusy(c)) /\ (IsMending(c) => IsMending(c)')
    BY <1>4, <1>5, CompleteIs DEF Proceeds
  <2>3. QED
    BY <2>1, <2>2
<1>7. QED
  BY <1>3, <1>4, <1>5, <1>6

\* A stream with an answer x more, and before it some live updates.
Served(q, p, x) ==
  /\ \A i \in DOMAIN q : i \in DOMAIN p /\ p[i] = q[i] /\ \A j \in DOMAIN p : j < i => j \in DOMAIN q
  /\ \A k \in DOMAIN p : k \in DOMAIN q \/ p[k].kind = "live" \/ p[k] = x
  /\ \E k \in DOMAIN p : p[k] = x /\ \A j \in DOMAIN p : j < k => j \in DOMAIN q \/ p[j].kind = "live"

\* A stream is served so.
LEMMA ServedStream ==
  ASSUME NEW q \in Seq(Stanza), NEW events \in Seq(Stanza), \A i \in DOMAIN events : events[i].kind = "live",
         NEW x \in Stanza
  PROVE  Served(q, (q \o events) \o << x >>, x)
<1> DEFINE m == q \o events
           l == << x >>
           p == m \o l
<1>1. l \in Seq(Stanza) /\ DOMAIN l = {1} /\ l[1] = x
  OBVIOUS
<1>2. /\ m \in Seq(Stanza) /\ DOMAIN q = 1 .. Len(q) /\ Len(q) \in Nat
      /\ \A i \in DOMAIN q : i \in DOMAIN m /\ m[i] = q[i]
      /\ \A i \in DOMAIN events : Len(q) + i \in DOMAIN m /\ m[Len(q) + i] = events[i]
      /\ \A k \in DOMAIN m : k \in DOMAIN q \/ \E i \in DOMAIN events : k = Len(q) + i
  BY InARow
<1> HIDE DEF m, l
<1>3. /\ DOMAIN p = 1 .. Len(m) + Len(l) /\ Len(m) \in Nat /\ Len(l) \in Nat /\ DOMAIN m = 1 .. Len(m)
      /\ \A i \in DOMAIN m : i \in DOMAIN p /\ p[i] = m[i]
      /\ \A i \in DOMAIN l : Len(m) + i \in DOMAIN p /\ p[Len(m) + i] = l[i]
      /\ \A k \in DOMAIN p : k \in DOMAIN m \/ \E i \in DOMAIN l : k = Len(m) + i
  BY <1>1, <1>2, InARow
<1> HIDE DEF p
<1>4. ASSUME NEW i \in DOMAIN q
      PROVE  i \in DOMAIN p /\ p[i] = q[i] /\ \A j \in DOMAIN p : j < i => j \in DOMAIN q
  BY <1>2, <1>3
<1>5. \A k \in DOMAIN m : k \in DOMAIN q \/ m[k].kind = "live"
  BY <1>2
<1>6. \A k \in DOMAIN p : k \in DOMAIN q \/ p[k].kind = "live" \/ p[k] = x
  BY <1>1, <1>3, <1>5
<1>7. \E k \in DOMAIN p : p[k] = x /\ \A j \in DOMAIN p : j < k => j \in DOMAIN q \/ p[j].kind = "live"
  <2>1. Len(m) + 1 \in DOMAIN p /\ p[Len(m) + 1] = x
    BY <1>1, <1>3
  <2>2. \A j \in DOMAIN p : j < Len(m) + 1 => j \in DOMAIN m
    BY <1>3
  <2>3. QED
    BY <1>3, <1>5, <2>1, <2>2
<1>8. QED
  BY <1>4, <1>6, <1>7 DEF Served, p, m, l

\* What an answer x to r says of the server, that refuses before it and after.
AnswerTrue(r, x, refuses, then) ==
  /\ then => refuses
  /\ r.op.name = "publish" => /\ x.kind = "error" <=> refuses
                              /\ x.kind = "error" => x.condition = "precondition-not-met"
  /\ r.op.name = "configure" => ~then

\* The list N an answer to the fetch of the own list brings.
ListTrue(r, x, N, refuses) ==
  r.id = OwnListId =>
    IF x.kind = "result" THEN N = AllDevices(x.payload)
    ELSE N = {} /\ x.condition = "item-not-found" /\ ~refuses

\* The request r of a client with this table and these streams is answered by x.
ServesTo(table, u, q, r, x, v, p) ==
  /\ Typed(table, u, q) /\ u # <<>> /\ r \in Requests /\ Head(u) = Sent(r) /\ v = Tail(u)
  /\ x.kind \in {"result", "error"} /\ x.id = r.id /\ Served(q, p, x)

\* The first request is taken.
LEMMA TakenFirst ==
  ASSUME NEW table, NEW u, NEW q, NEW r, NEW x, NEW v, NEW p, ServesTo(table, u, q, r, x, v, p)
  PROVE  /\ 1 \in DOMAIN u /\ u[1].id = r.id /\ u[1].op = r.op /\ DOMAIN u \subseteq Nat /\ DOMAIN v \subseteq Nat
         /\ \A i \in DOMAIN v : v[i] = u[i + 1] /\ i + 1 \in DOMAIN u
         /\ \A i \in DOMAIN u : i # 1 => i - 1 \in DOMAIN v /\ v[i - 1] = u[i]
<1> DEFINE T == {Sent(o) : o \in Requests}
<1>1. u \in Seq(T) /\ u # <<>> /\ Head(u) = Sent(r) /\ v = Tail(u)
  BY DEF ServesTo, Typed
<1> HIDE DEF T
<1>2. /\ v \in Seq(T) /\ Head(u) = u[1] /\ Len(u) \in Nat /\ Len(u) >= 1
      /\ \A i \in DOMAIN v : v[i] = u[i + 1] /\ i + 1 \in DOMAIN u
      /\ \A i \in DOMAIN u : i # 1 => i - 1 \in DOMAIN v /\ v[i - 1] = u[i]
  BY <1>1, TailType
<1>3. DOMAIN u = 1 .. Len(u) /\ DOMAIN v \subseteq Nat
  BY <1>1, <1>2
<1>4. u[1].id = r.id /\ u[1].op = r.op
  BY <1>1, <1>2 DEF Sent
<1>5. QED
  BY <1>2, <1>3, <1>4

\* The client is good still.
LEMMA ServedGood ==
  ASSUME NEW table, NEW u, NEW q, NEW r, NEW x, NEW v, NEW p, ServesTo(table, u, q, r, x, v, p),
         NEW c, NEW K, NEW W, NEW N, NEW refuses, Good(c, table, u, q, K, W, N, refuses),
         NEW M, NEW then, AnswerTrue(r, x, refuses, then), ListTrue(r, x, N, refuses),
         r.op.name \notin Writes => M = N
  PROVE  Good(c, table, v, p, K, W, M, then)
<1>1. /\ 1 \in DOMAIN u /\ u[1].id = r.id /\ u[1].op = r.op /\ DOMAIN u \subseteq Nat /\ DOMAIN v \subseteq Nat
      /\ \A i \in DOMAIN v : v[i] = u[i + 1] /\ i + 1 \in DOMAIN u
      /\ \A i \in DOMAIN u : i # 1 => i - 1 \in DOMAIN v /\ v[i - 1] = u[i]
  BY TakenFirst
<1>2. /\ \A i \in DOMAIN q : i \in DOMAIN p /\ p[i] = q[i] /\ \A j \in DOMAIN p : j < i => j \in DOMAIN q
      /\ \A k \in DOMAIN p : k \in DOMAIN q \/ p[k].kind = "live" \/ p[k] = x
      /\ \E k \in DOMAIN p : p[k] = x /\ \A j \in DOMAIN p : j < k => j \in DOMAIN q \/ p[j].kind = "live"
  BY DEF ServesTo, Served
<1>3. x.kind \in {"result", "error"} /\ x.id = r.id /\ Asked(x.id) = r.op.name /\ r \in Requests
  BY WriteIds DEF ServesTo
<1>4. ASSUME OwnEntry(table)
      PROVE  /\ WriteEntries(table) = {} /\ ~WriteOn(v) /\ ~WrittenOn(p)
             /\ W \subseteq M \cup {c}
             /\ (NoListOn(p) /\ RequestOn(v, OwnListId)) \/ FirstBrings(p, c, W, then)
  <2>1. /\ WriteEntries(table) = {} /\ ~WriteOn(u) /\ ~WrittenOn(q)
        /\ W \subseteq N \cup {c}
        /\ (NoListOn(q) /\ RequestOn(u, OwnListId)) \/ FirstBrings(q, c, W, refuses)
    BY <1>4 DEF Good, LoginGood
  <2>2. r.op.name \notin Writes /\ M = N
    BY <1>1, <2>1 DEF WriteOn
  <2>3. ~WriteOn(v)
    BY <1>1, <2>1 DEF WriteOn
  <2>4. ~WrittenOn(p)
    BY <1>2, <1>3, <2>1, <2>2 DEF WrittenOn
  <2>5. CASE FirstBrings(q, c, W, refuses)
    <3>1. PICK i \in DOMAIN q :
            /\ IsListAnswer(q[i]) /\ Brings(q[i], c, W, refuses)
            /\ \A j \in DOMAIN q : j < i => ~IsListAnswer(q[j])
      BY <2>5 DEF FirstBrings
    <3>2. Brings(q[i], c, W, then)
      BY <3>1 DEF Brings, AnswerTrue
    <3>3. \A j \in DOMAIN p : j < i => ~IsListAnswer(p[j])
      BY <1>2, <3>1
    <3>4. FirstBrings(p, c, W, then)
      BY <1>2, <3>1, <3>2, <3>3 DEF FirstBrings
    <3>5. QED
      BY <2>1, <2>2, <2>3, <2>4, <3>4
  <2>6. CASE NoListOn(q) /\ RequestOn(u, OwnListId) /\ r.id = OwnListId
    <3>1. IsListAnswer(x)
      BY <1>3, <2>6 DEF IsListAnswer
    <3>2. Brings(x, c, W, then)
      <4>1. CASE x.kind = "result"
        BY <2>1, <2>6, <4>1 DEF Brings, ListTrue
      <4>2. CASE x.kind # "result"
        <5>1. N = {} /\ x.condition = "item-not-found" /\ ~refuses
          BY <2>6, <4>2 DEF ListTrue
        <5>2. W \subseteq {c}
          BY <2>1, <5>1
        <5>3. ~then
          BY <5>1 DEF AnswerTrue
        <5>4. QED
          BY <4>2, <5>1, <5>2, <5>3 DEF Brings
      <4>3. QED
        BY <4>1, <4>2
    <3>3. PICK k \in DOMAIN p : p[k] = x /\ \A j \in DOMAIN p : j < k => j \in DOMAIN q \/ p[j].kind = "live"
      BY <1>2
    <3>4. \A j \in DOMAIN p : j < k => ~IsListAnswer(p[j])
      BY <1>2, <2>6, <3>3 DEF NoListOn, IsListAnswer
    <3>5. FirstBrings(p, c, W, then)
      BY <3>1, <3>2, <3>3, <3>4 DEF FirstBrings
    <3>6. QED
      BY <2>1, <2>2, <2>3, <2>4, <3>5
  <2>7. CASE NoListOn(q) /\ RequestOn(u, OwnListId) /\ r.id # OwnListId
    <3>1. NoListOn(p)
      BY <1>2, <1>3, <2>7 DEF NoListOn, IsListAnswer
    <3>2. RequestOn(v, OwnListId)
      BY <1>1, <2>7 DEF RequestOn
    <3>3. QED
      BY <2>1, <2>2, <2>3, <2>4, <3>1, <3>2
  <2>8. QED
    BY <2>1, <2>5, <2>6, <2>7
<1>5. RefusalOn(p) => RefusalOn(q) \/ refuses
  <2>1. SUFFICES ASSUME NEW k \in DOMAIN p, IsRefusal(p[k]), ~RefusalOn(q) PROVE refuses
    BY DEF RefusalOn
  <2>2. p[k] = x
    BY <1>2, <2>1 DEF RefusalOn, IsRefusal
  <2>3. r.op.name = "publish" /\ x.kind = "error"
    BY <1>3, <2>1, <2>2 DEF IsRefusal
  <2>4. QED
    BY <2>3 DEF AnswerTrue
<1>6. AimGood(table, v, p, K, W, then)
  <2>0. AimGood(table, u, q, K, W, refuses)
    BY DEF Good
  <2>1. \A i \in DOMAIN v : v[i].op.name = "publish" => W \subseteq v[i].op.devices
    BY <1>1, <2>0 DEF AimGood
  <2>2. then => refuses
    BY DEF AnswerTrue
  <2>3. QED
    BY <1>5, <2>0, <2>1, <2>2 DEF AimGood
<1>7. OrderGood(table, v, p)
  <2>0. OrderGood(table, u, q)
    BY DEF Good
  <2>1. ASSUME NEW i \in DOMAIN v, v[i].op.name = "purge"
        PROVE  /\ PurgeId \in DOMAIN table /\ ~AnswerOn(p, PurgeId)
               /\ \A j \in DOMAIN v : v[j].op.name = "purge" => j = i
    <3>1. i + 1 \in DOMAIN u /\ u[i + 1].op.name = "purge" /\ i \in Nat
      BY <1>1, <2>1
    <3>2. /\ PurgeId \in DOMAIN table /\ ~AnswerOn(q, PurgeId)
          /\ \A j \in DOMAIN u : u[j].op.name = "purge" => j = i + 1
      BY <2>0, <3>1 DEF OrderGood
    <3>3. \A j \in DOMAIN v : v[j].op.name = "purge" => j = i
      <4>1. ASSUME NEW j \in DOMAIN v, v[j].op.name = "purge" PROVE j = i
        <5>1. j + 1 = i + 1 /\ j \in Nat
          BY <1>1, <3>2, <4>1
        <5>2. QED
          BY <3>1, <5>1
      <4>2. QED
        BY <4>1
    <3>4. x.id # PurgeId
      <4>0. i >= 1
        BY <2>1 DEF ServesTo, Typed
      <4>1. u[1].op.name # "purge"
        <5>1. 1 # i + 1
          BY <3>1, <4>0
        <5>2. QED
          BY <1>1, <3>2, <5>1
      <4>2. QED
        BY <1>1, <1>3, <4>1, WriteIds
    <3>5. ~AnswerOn(p, PurgeId)
      BY <1>2, <3>2, <3>4 DEF AnswerOn
    <3>6. QED
      BY <3>2, <3>3, <3>5
  <2>2. ASSUME NEW i \in DOMAIN v, v[i].op.name = "configure", ConfigureId \notin DOMAIN table
        PROVE  \E j \in DOMAIN v : j > i /\ v[j].op.name = "publish"
    <3>1. i + 1 \in DOMAIN u /\ u[i + 1].op.name = "configure" /\ i \in Nat
      BY <1>1, <2>2
    <3>2. PICK j \in DOMAIN u : j > i + 1 /\ u[j].op.name = "publish"
      BY <2>0, <2>2, <3>1 DEF OrderGood
    <3>3. j # 1 /\ j \in Nat /\ j - 1 > i
      BY <1>1, <3>1, <3>2
    <3>4. j - 1 \in DOMAIN v /\ v[j - 1].op.name = "publish"
      BY <1>1, <3>2, <3>3
    <3>5. QED
      BY <3>3, <3>4
  <2>3. QED
    BY <2>1, <2>2 DEF OrderGood
<1>8. TrueGood(p, then)
  <2>0. TrueGood(q, refuses) /\ (then => refuses)
    BY DEF Good, AnswerTrue
  <2>1. ASSUME NEW k \in DOMAIN p, p[k].kind # "live"
        PROVE  /\ Asked(p[k].id) = "publish" /\ p[k].kind = "result" => ~then
               /\ Asked(p[k].id) = "configure" => ~then
               /\ IsRefusal(p[k]) => p[k].condition = "precondition-not-met"
    <3>1. CASE k \in DOMAIN q
      <4>1. p[k] = q[k]
        BY <1>2, <3>1
      <4>2. QED
        BY <2>0, <2>1, <3>1, <4>1 DEF TrueGood
    <3>2. CASE p[k] = x
      <4>1. r.op.name = "publish" /\ x.kind = "result" => ~then
        BY <2>0 DEF AnswerTrue
      <4>2. r.op.name = "configure" => ~then
        BY DEF AnswerTrue
      <4>3. IsRefusal(x) => x.condition = "precondition-not-met"
        BY <1>3 DEF AnswerTrue, IsRefusal
      <4>4. QED
        BY <1>3, <3>2, <4>1, <4>2, <4>3
    <3>3. QED
      BY <1>2, <2>1, <3>1, <3>2
  <2>2. QED
    BY <2>1 DEF TrueGood
<1>9. QED
  BY <1>4, <1>6, <1>7, <1>8 DEF Good, LoginGood

\* What the list M of the node is after the answer x to r.
NodeTrue(r, x, N, M) ==
  /\ r.op.name = "publish" /\ x.kind = "result" => r.op.devices \subseteq M
  /\ r.op.name \notin Writes \/ (r.op.name = "publish" /\ x.kind = "error") => M = N

\* The list is complete, or is to be, also after a request is served.
LEMMA ServedMends ==
  ASSUME NEW table, NEW u, NEW q, NEW r, NEW x, NEW v, NEW p, ServesTo(table, u, q, r, x, v, p),
         NEW c, NEW K, NEW W, NEW N, NEW refuses, Good(c, table, u, q, K, W, N, refuses),
         NEW M, NEW then, AnswerTrue(r, x, refuses, then), NodeTrue(r, x, N, M),
         W \subseteq N \/ Mends(table, u, q, refuses)
  PROVE  W \subseteq M \/ Mends(table, v, p, then)
<1>1. /\ 1 \in DOMAIN u /\ u[1].id = r.id /\ u[1].op = r.op /\ DOMAIN u \subseteq Nat /\ DOMAIN v \subseteq Nat
      /\ \A i \in DOMAIN u : i # 1 => i - 1 \in DOMAIN v /\ v[i - 1] = u[i]
  BY TakenFirst
<1>2. /\ \A i \in DOMAIN q : i \in DOMAIN p /\ p[i] = q[i] /\ \A j \in DOMAIN p : j < i => j \in DOMAIN q
      /\ \E k \in DOMAIN p : p[k] = x /\ \A j \in DOMAIN p : j < k => j \in DOMAIN q \/ p[j].kind = "live"
  BY DEF ServesTo, Served
<1>3. /\ x.kind \in {"result", "error"} /\ x.kind # "live" /\ x.id = r.id /\ Asked(x.id) = r.op.name
      /\ r \in Requests
      /\ r.op.name = "purge" <=> r.id = PurgeId
      /\ r.op.name = "configure" <=> r.id = ConfigureId
  BY WriteIds DEF ServesTo
<1>4. AnswerOn(p, r.id)
  BY <1>2, <1>3 DEF AnswerOn
<1>5. then => refuses
  BY DEF AnswerTrue
<1>6. ASSUME NEW id \in DOMAIN table, id = r.id, id \in {PurgeId, ConfigureId} PROVE Mends(table, v, p, then)
  BY <1>4, <1>6 DEF Outstanding, Mends
<1>7. ASSUME r.op.name = "publish", x.kind = "result" PROVE W \subseteq M
  <2>1. W \subseteq r.op.devices
    BY <1>1, <1>7 DEF Good, AimGood
  <2>2. QED
    BY <1>7, <2>1 DEF NodeTrue
<1>8. ASSUME NEW i \in DOMAIN u, u[i].op.name = "publish", i # 1, then => MayRetry(table, u[i].id)
      PROVE  Mends(table, v, p, then)
  BY <1>1, <1>8 DEF WillPublish, Mends
<1>9. CASE OwnEntry(table)
  BY <1>9 DEF Mends
<1>10. ASSUME NEW id \in {PurgeId, ConfigureId}, Outstanding(table, u, q, id) PROVE Mends(table, v, p, then)
  <2>1. AnswerOn(q, id) => AnswerOn(p, id)
    BY <1>2 DEF AnswerOn
  <2>2. RequestOn(u, id) => RequestOn(v, id) \/ r.id = id
    BY <1>1 DEF RequestOn
  <2>3. Outstanding(table, v, p, id)
    BY <1>4, <1>10, <2>1, <2>2 DEF Outstanding
  <2>4. QED
    BY <2>3 DEF Mends
<1>11. CASE WillConfigure(table, q)
  <2>1. PICK id \in DOMAIN table : MayRetry(table, id) /\ RefusedFirst(q, id)
    BY <1>11 DEF WillConfigure
  <2>2. PICK i \in DOMAIN q :
          /\ IsRefusal(q[i]) /\ q[i].id = id
          /\ \A j \in DOMAIN q : j < i /\ q[j].kind # "live" /\ q[j].id = id => q[j].kind = "error"
    BY <2>1 DEF RefusedFirst
  <2>3. i \in DOMAIN p /\ p[i] = q[i]
    BY <1>2
  <2>4. \A j \in DOMAIN p : j < i /\ p[j].kind # "live" /\ p[j].id = id => p[j].kind = "error"
    BY <1>2, <2>2
  <2>5. RefusedFirst(p, id)
    BY <2>2, <2>3, <2>4 DEF RefusedFirst
  <2>6. QED
    BY <2>1, <2>5 DEF WillConfigure, Mends
<1>12. CASE WillPublish(table, u, refuses)
  <2>1. PICK i \in DOMAIN u : u[i].op.name = "publish" /\ (refuses => MayRetry(table, u[i].id))
    BY <1>12 DEF WillPublish
  <2>2. CASE i # 1
    BY <1>5, <1>8, <2>1, <2>2
  <2>3. CASE i = 1 /\ x.kind = "result"
    BY <1>1, <1>7, <2>1, <2>3
  <2>4. CASE i = 1 /\ x.kind = "error"
    <3>1. r.op.name = "publish" /\ refuses /\ MayRetry(table, r.id)
      BY <1>1, <2>1, <2>4 DEF AnswerTrue
    <3>2. IsRefusal(x)
      BY <1>3, <2>4, <3>1 DEF IsRefusal
    <3>3. Asked(r.id) = "publish"
      BY <1>3, <3>1
    <3>4. ASSUME NEW j \in DOMAIN q, q[j].kind # "live", q[j].id = r.id PROVE q[j].kind = "error"
      <4>1. ~(q[j].kind = "result")
        BY <3>1, <3>3, <3>4 DEF Good, TrueGood
      <4>2. q[j] \in Stanza
        BY ItemsAre DEF ServesTo, Typed
      <4>3. q[j].kind \in {"result", "error"}
        BY <1>3, <3>4, <4>2, AnswerIs
      <4>4. QED
        BY <4>1, <4>3
    <3>5. PICK k \in DOMAIN p : p[k] = x /\ \A j \in DOMAIN p : j < k => j \in DOMAIN q \/ p[j].kind = "live"
      BY <1>2
    <3>6. \A j \in DOMAIN p : j < k /\ p[j].kind # "live" /\ p[j].id = r.id => p[j].kind = "error"
      BY <1>2, <3>4, <3>5
    <3>7. RefusedFirst(p, r.id)
      BY <1>3, <3>2, <3>5, <3>6 DEF RefusedFirst
    <3>8. WillConfigure(table, p)
      BY <3>1, <3>7 DEF WillConfigure, MayRetry
    <3>9. QED
      BY <3>8 DEF Mends
  <2>5. QED
    BY <1>3, <2>2, <2>3, <2>4
<1>13. CASE W \subseteq N
  <2>1. CASE r.op.name \notin Writes \/ (r.op.name = "publish" /\ x.kind = "error")
    BY <1>13, <2>1 DEF NodeTrue
  <2>2. CASE r.op.name = "publish" /\ x.kind = "result"
    BY <1>7, <2>2
  <2>3. CASE r.op.name = "purge"
    <3>1. PurgeId \in DOMAIN table
      BY <1>1, <2>3 DEF Good, OrderGood
    <3>2. QED
      BY <1>3, <1>6, <2>3, <3>1
  <2>4. CASE r.op.name = "configure"
    <3>1. ~then
      BY <2>4 DEF AnswerTrue
    <3>2. CASE ConfigureId \in DOMAIN table
      BY <1>3, <1>6, <2>4, <3>2
    <3>3. CASE ConfigureId \notin DOMAIN table
      <4>1. PICK j \in DOMAIN u : j > 1 /\ u[j].op.name = "publish"
        BY <1>1, <2>4, <3>3 DEF Good, OrderGood
      <4>2. j # 1
        BY <1>1, <4>1
      <4>3. QED
        BY <1>8, <3>1, <4>1, <4>2
    <3>4. QED
      BY <3>2, <3>3
  <2>5. QED
    BY <1>3, <2>1, <2>2, <2>3, <2>4 DEF Writes
<1>14. QED
  BY <1>9, <1>10, <1>11, <1>12, <1>13 DEF Mends

\* Whether a server refuses a publication to the node n.
RefusesFor(n) == server.strict /\ n # None /\ ~n.options

\* What the server answers is true of it.
LEMMA AnswersTrue ==
  ASSUME TypeOK, Allowed, NEW r \in Requests
  PROVE  LET a == Answer(r.id, r.op)
         IN  /\ AnswerTrue(r, a[1], Refuses, RefusesFor(a[2]))
             /\ ListTrue(r, a[1], Devices(node[Own]), Refuses)
             /\ NodeTrue(r, a[1], Devices(node[Own]), Devices(a[2]))
<1> DEFINE a == Answer(r.id, r.op)
           n == node[Own]
<1>0. n \in Node \cup {None} /\ (n # None => n \in [options : BOOLEAN, items : SUBSET Item]) /\ ServerOK
  BY DEF TypeOK, ServerOK, Account, Node
<1>1. /\ r.op.name \in {"list", "publish", "purge", "configure", "bundles", "bundle", "publish-bundle"}
      /\ r.id = OwnListId => r.op.name = "list" /\ r.op.jid = Own
  BY RequestOf, OwnListIdIs
<1>2. Refuses <=> RefusesFor(n)
  BY DEF Refuses, RefusesFor
<1>3. ~(server.strict /\ server.refuses)
  BY DEF Allowed
<1> HIDE DEF n, a
<1>4. CASE r.op.name \in {"bundles", "bundle", "publish-bundle"}
  <2>1. a[2] = n
    <3>1. CASE r.op.name = "bundles"
      <4>1. \E x : a = <<x, n>>
        BY <3>1, BundlesAnswer DEF a, n
      <4>2. QED
        BY <4>1
    <3>2. CASE r.op.name = "bundle"
      <4>1. \E x : a = <<x, n>>
        BY <3>2, BundleAnswer DEF a, n
      <4>2. QED
        BY <4>1
    <3>3. CASE r.op.name = "publish-bundle"
      <4>1. \E x : a = <<x, n>>
        BY <3>3, PublishBundleAnswer DEF a, n
      <4>2. QED
        BY <4>1
    <3>4. QED
      BY <1>4, <3>1, <3>2, <3>3
  <2>2. r.op.name \notin Writes /\ r.op.name \notin {"list", "publish", "configure"}
    BY <1>4 DEF Writes
  <2>3. QED
    BY <1>1, <1>2, <2>1, <2>2 DEF AnswerTrue, ListTrue, NodeTrue, a, n
<1>5. CASE r.op.name = "list"
  <2>1. a = <<IF node[r.op.jid] = None THEN Failure(r.id, "item-not-found") ELSE Result(r.id, node[r.op.jid].items), n>>
    BY <1>5, ListAnswer DEF a, n
  <2>2. a[2] = n
    BY <2>1
  <2>3. r.op.name \notin Writes /\ r.op.name \notin {"publish", "configure"}
    BY <1>5 DEF Writes
  <2>4. ListTrue(r, a[1], Devices(n), Refuses)
    <3>1. SUFFICES ASSUME r.id = OwnListId
                   PROVE  IF a[1].kind = "result" THEN Devices(n) = AllDevices(a[1].payload)
                          ELSE Devices(n) = {} /\ a[1].condition = "item-not-found" /\ ~Refuses
      BY DEF ListTrue
    <3>2. a[1] = IF n = None THEN Failure(r.id, "item-not-found") ELSE Result(r.id, n.items)
      BY <1>1, <2>1, <3>1 DEF n
    <3>3. CASE n = None
      BY <1>2, <3>2, <3>3 DEF Failure, Devices, RefusesFor
    <3>4. CASE n # None
      BY <3>2, <3>4 DEF Result, Devices
    <3>5. QED
      BY <3>3, <3>4
  <2>5. QED
    BY <1>2, <2>2, <2>3, <2>4 DEF AnswerTrue, NodeTrue, a, n
<1>6. CASE r.op.name = "publish"
  <2>0. r.id # OwnListId
    BY <1>1, <1>6
  <2>1. a = IF RefusesFor(n) THEN <<Failure(r.id, "precondition-not-met"), n>>
            ELSE <<Result(r.id, {}), Published(n, r.op.devices)>>
    BY <1>6, PublishAnswer DEF a, n, RefusesFor
  <2>2. CASE RefusesFor(n)
    <3>1. a[1].kind = "error" /\ a[1].condition = "precondition-not-met" /\ a[2] = n
      BY <2>1, <2>2 DEF Failure
    <3>2. QED
      BY <1>2, <1>6, <2>0, <2>2, <3>1 DEF AnswerTrue, ListTrue, NodeTrue, a, n
  <2>3. CASE ~RefusesFor(n)
    <3>1. a[1].kind = "result" /\ a[2] = Published(n, r.op.devices)
      BY <2>1, <2>3 DEF Result
    <3>2. ~RefusesFor(a[2])
      <4>1. CASE n = None \/ n.options
        <5>1. a[2].options = (n = None \/ n.options)
          BY <3>1, <4>1 DEF Published
        <5>2. QED
          BY <4>1, <5>1 DEF RefusesFor
      <4>2. CASE ~(n = None \/ n.options)
        BY <2>3, <4>2 DEF RefusesFor
      <4>3. QED
        BY <4>1, <4>2
    <3>3. r.op.devices \subseteq Devices(a[2])
      <4>1. PICK D \in SUBSET Id : r.op.devices = D
        BY <1>6, RequestOf, PublishIs
      <4>2. a[2] \in Node /\ a[2] # None
        BY <1>0, <3>1, <4>1, PublishedIs, NoneAssumption
      <4>3. Current(D) \in a[2].items
        <5>1. CASE n = None \/ n.options
          BY <3>1, <4>1, <5>1 DEF Published
        <5>2. CASE ~(n = None \/ n.options)
          BY <1>0, <3>1, <4>1, <5>2 DEF Published
        <5>3. QED
          BY <5>1, <5>2
      <4>4. Current(D).devices = D
        BY DEF Current
      <4>5. D \subseteq AllDevices(a[2].items)
        BY <4>3, <4>4 DEF AllDevices
      <4>6. QED
        BY <4>1, <4>2, <4>5 DEF Devices
    <3>4. QED
      BY <1>2, <1>6, <2>0, <2>3, <3>1, <3>2, <3>3 DEF AnswerTrue, ListTrue, NodeTrue, Writes, a, n
  <2>4. QED
    BY <2>2, <2>3
<1>7. CASE r.op.name = "purge"
  <2>1. a = IF n = None THEN <<Failure(r.id, "item-not-found"), None>>
            ELSE <<Result(r.id, {}), [n EXCEPT !.items = {}]>>
    BY <1>7, PurgeAnswer DEF a, n
  <2>2. RefusesFor(a[2]) => RefusesFor(n)
    <3>1. CASE n = None
      BY <2>1, <3>1 DEF RefusesFor
    <3>2. CASE n # None
      BY <1>0, <2>1, <3>2 DEF RefusesFor
    <3>3. QED
      BY <3>1, <3>2
  <2>3. QED
    BY <1>1, <1>2, <1>7, <2>2 DEF AnswerTrue, ListTrue, NodeTrue, Writes, a, n
<1>8. CASE r.op.name = "configure"
  <2>1. a = IF server.refuses \/ n = None THEN <<Failure(r.id, "forbidden"), n>>
            ELSE <<Result(r.id, {}), [n EXCEPT !.options = TRUE,
                                       !.items = IF Cardinality(@) > 1 THEN {i \in @ : i.id = "current"} ELSE @]>>
    BY <1>8, ConfigureAnswer DEF a, n
  <2>2. ~RefusesFor(a[2])
    <3>1. CASE server.refuses \/ n = None
      BY <1>3, <2>1, <3>1 DEF RefusesFor
    <3>2. CASE ~(server.refuses \/ n = None)
      <4>1. a[2] = [n EXCEPT !.options = TRUE,
                             !.items = IF Cardinality(@) > 1 THEN {i \in @ : i.id = "current"} ELSE @]
        BY <2>1, <3>2
      <4>2. a[2].options = TRUE
        BY <1>0, <3>2, <4>1
      <4>3. QED
        BY <4>2 DEF RefusesFor
    <3>3. QED
      BY <3>1, <3>2
  <2>3. QED
    BY <1>1, <1>2, <1>8, <2>2 DEF AnswerTrue, ListTrue, NodeTrue, Writes, a, n
<1>9. QED
  BY <1>1, <1>4, <1>5, <1>6, <1>7, <1>8

\* A client that is not busy has nothing to be good about but what it is told.
LEMMA IdleGood ==
  ASSUME NEW table, NEW u, NEW q, ~Busy(table, u), ~WriteOn(u),
         NEW c, NEW K, NEW W, NEW N, NEW refuses, TrueGood(q, refuses)
  PROVE  Good(c, table, u, q, K, W, N, refuses)
<1>1. ~OwnEntry(table) /\ WriteEntries(table) = {} /\ \A i \in DOMAIN u : u[i].op.name \notin Writes
  BY DEF Busy, WriteOn
<1>2. AimGood(table, u, q, K, W, refuses)
  BY <1>1, WriteIds DEF AimGood, WriteEntries, Writes
<1>3. OrderGood(table, u, q)
  BY <1>1 DEF OrderGood, Writes
<1>4. QED
  BY <1>1, <1>2, <1>3 DEF Good, LoginGood

\* A client is as good for fewer devices, and where less is refused.
LEMMA GoodEasier ==
  ASSUME NEW table, NEW u, NEW q, NEW c, NEW K, NEW W, NEW N, NEW refuses, Good(c, table, u, q, K, W, N, refuses),
         NEW V, V \subseteq W, NEW then, then => refuses
  PROVE  Good(c, table, u, q, K, V, N, then)
<1>1. \A s : Brings(s, c, W, refuses) => Brings(s, c, V, then)
  BY DEF Brings
<1>2. FirstBrings(q, c, W, refuses) => FirstBrings(q, c, V, then)
  BY <1>1 DEF FirstBrings
<1>3. LoginGood(c, table, u, q, V, N, then)
  BY <1>2 DEF Good, LoginGood
<1>4. AimGood(table, u, q, K, V, then)
  <2>0. AimGood(table, u, q, K, W, refuses)
    BY DEF Good
  <2>1. \A i \in DOMAIN u : u[i].op.name = "publish" => V \subseteq u[i].op.devices
    BY <2>0 DEF AimGood
  <2>2. \A id \in {PurgeId, ConfigureId} \cap DOMAIN table : V \subseteq table[id].devices
    BY <2>0 DEF AimGood
  <2>3. WriteEntries(table) # {} /\ (then \/ RefusalOn(q)) => V \subseteq K
    BY <2>0 DEF AimGood
  <2>4. QED
    BY <2>1, <2>2, <2>3 DEF AimGood
<1>5. TrueGood(q, then)
  BY DEF Good, TrueGood
<1>6. QED
  BY <1>3, <1>4, <1>5 DEF Good

\* And completes the list where less is refused.
LEMMA MendsEasier ==
  ASSUME NEW table, NEW u, NEW q, NEW refuses, Mends(table, u, q, refuses), NEW then, then => refuses
  PROVE  Mends(table, u, q, then)
BY DEF Mends, WillPublish

\* What is true of what a client was told is true of updates as well.
LEMMA UpdatesTrue ==
  ASSUME NEW q, NEW refuses, TrueGood(q, refuses), NEW then, then => refuses, NEW p,
         \A i \in DOMAIN p : p[i].kind = "live" \/ (i \in DOMAIN q /\ p[i] = q[i])
  PROVE  TrueGood(p, then)
BY DEF TrueGood

\* The server serves a client: the streams.
LEMMA ServesStreams ==
  ASSUME TypeOK, NEW c \in Client, NEW r \in Requests, Serves(c, r)
  PROVE  /\ ServesTo(pending[c], up[c], down[c], r, Answer(r.id, r.op)[1], up'[c], down'[c])
         /\ \A e \in Client : e # c =>
              /\ up'[e] = up[e]
              /\ r.op.name # "publish" => down'[e] = down[e]
              /\ \A i \in DOMAIN down'[e] : down'[e][i].kind = "live" \/ (i \in DOMAIN down[e] /\ down'[e][i] = down[e][i])
<1>0. ServerOK /\ TablesOK /\ RequestsOK /\ AnswersOK
  BY DEF TypeOK
<1>1. PICK x : x = Answer(r.id, r.op)[1]
  OBVIOUS
<1>2. x \in Stanza /\ x.kind \in {"result", "error"} /\ x.id = r.id
  BY <1>0, <1>1, AnswerType
<1>3. ASSUME NEW e \in Client
      PROVE  /\ down[e] \in Seq(Stanza) /\ Event(e, r) \in Seq(Stanza)
             /\ \A i \in DOMAIN Event(e, r) : Event(e, r)[i].kind = "live"
             /\ down'[e] = (down[e] \o Event(e, r)) \o Reply(c, e, r)
  <2>1. down[e] \in Seq(Stanza) /\ down'[e] = (down[e] \o Event(e, r)) \o Reply(c, e, r)
    BY <1>0 DEF AnswersOK, Serves
  <2>2. CASE Told(e, r)
    <3>1. r \in PublishRequests
      BY <2>2, RequestOf DEF Told
    <3>2. PICK D \in SUBSET Id : r.op.devices = D
      BY <3>1, PublishIs
    <3>3. PICK l : l = Live(D)
      OBVIOUS
    <3>4. l \in Stanza /\ l.kind = "live"
      BY <3>3 DEF Stanza, Live
    <3>5. Event(e, r) = << l >>
      BY <2>2, <3>2, <3>3 DEF Event
    <3>6. << l >> \in Seq(Stanza) /\ \A i \in DOMAIN << l >> : << l >>[i] = l
      BY <3>4
    <3>7. QED
      BY <2>1, <3>4, <3>5, <3>6
  <2>3. CASE ~Told(e, r)
    <3>1. Event(e, r) = <<>>
      BY <2>3 DEF Event
    <3>2. QED
      BY <2>1, <3>1
  <2>4. QED
    BY <2>2, <2>3
<1>4. ServesTo(pending[c], up[c], down[c], r, x, up'[c], down'[c])
  <2>1. Typed(pending[c], up[c], down[c])
    BY <1>0 DEF Typed, TablesOK, RequestsOK, AnswersOK
  <2>2. up[c] # <<>> /\ Head(up[c]) = Sent(r) /\ up'[c] = Tail(up[c])
    BY <1>0 DEF Serves, RequestsOK
  <2>3. PICK q \in Seq(Stanza), events \in Seq(Stanza) : q = down[c] /\ events = Event(c, r)
    BY <1>3
  <2>4. down'[c] = (q \o events) \o << x >> /\ \A i \in DOMAIN events : events[i].kind = "live"
    BY <1>1, <1>3, <2>3 DEF Reply
  <2>5. Served(down[c], down'[c], x)
    BY <1>2, <2>3, <2>4, ServedStream
  <2>6. QED
    BY <1>2, <2>1, <2>2, <2>5 DEF ServesTo
<1>5. ASSUME NEW e \in Client, e # c
      PROVE  /\ up'[e] = up[e]
             /\ r.op.name # "publish" => down'[e] = down[e]
             /\ \A i \in DOMAIN down'[e] : down'[e][i].kind = "live" \/ (i \in DOMAIN down[e] /\ down'[e][i] = down[e][i])
  <2>1. up'[e] = up[e]
    BY <1>0, <1>5 DEF Serves, RequestsOK
  <2>2. PICK q \in Seq(Stanza), events \in Seq(Stanza) : q = down[e] /\ events = Event(e, r)
    BY <1>3
  <2> DEFINE p == q \o events
  <2>3. p \o <<>> = p
    OBVIOUS
  <2>4. down'[e] = p
    BY <1>3, <1>5, <2>2, <2>3 DEF Reply
  <2>5. r.op.name # "publish" => p = q
    <3>1. SUFFICES ASSUME r.op.name # "publish" PROVE p = q
      OBVIOUS
    <3>2. events = <<>>
      BY <2>2, <3>1 DEF Event, Told
    <3>3. QED
      BY <2>2, <3>2
  <2>6. \A i \in DOMAIN events : events[i].kind = "live"
    BY <1>3, <2>2
  <2>7. \A i \in DOMAIN p : p[i].kind = "live" \/ (i \in DOMAIN q /\ p[i] = q[i])
    <3>1. /\ \A i \in DOMAIN q : p[i] = q[i]
          /\ \A i \in DOMAIN events : p[Len(q) + i] = events[i]
          /\ \A k \in DOMAIN p : k \in DOMAIN q \/ \E i \in DOMAIN events : k = Len(q) + i
      BY InARow
    <3> HIDE DEF p
    <3>2. QED
      BY <2>6, <3>1
  <2> HIDE DEF p
  <2>8. QED
    BY <2>1, <2>2, <2>4, <2>5, <2>7
<1>6. QED
  BY <1>1, <1>4, <1>5

\* What is to complete the list still does when the server serves a client.
LEMMA ServeComplete ==
  ASSUME TypeOK, CompleteInv, NEW c \in Client, Serve(c) PROVE CompleteInv'
<1> SUFFICES ASSUME Allowed'
             PROVE  /\ \A e \in Client : IsBusy(e)' => e \in online'
                    /\ \A e, d \in Client : IsBusy(e)' /\ IsBusy(d)' => e = d
                    /\ \A e \in Client : IsGood(e)'
                    /\ Whole' \subseteq Devices(node[Own])' \/ \E e \in Client : IsMending(e)'
  BY DEF CompleteInv
<1>0. ServerOK /\ RequestsOK /\ TablesOK
  BY DEF TypeOK
<1>1. PICK r \in Requests : Serves(c, r)
  BY <1>0, ServeDoes
<1>2. UNCHANGED <<server, disturbed, online, initial, pending, lists>>
  BY <1>1 DEF Serves
<1>3. Allowed
  BY <1>2 DEF Allowed
<1>4. /\ \A e \in Client : IsBusy(e) => e \in online
      /\ \A e, d \in Client : IsBusy(e) /\ IsBusy(d) => e = d
      /\ \A e \in Client : IsGood(e)
      /\ Whole \subseteq Devices(node[Own]) \/ \E e \in Client : IsMending(e)
  BY <1>3 DEF CompleteInv
<1>5. PICK x, n : x = Answer(r.id, r.op)[1] /\ n = Answer(r.id, r.op)[2]
  OBVIOUS
<1>6. node'[Own] = n
  BY <1>0, <1>1, <1>5 DEF Serves, ServerOK, Account
<1>7. Devices(node[Own])' = Devices(n) /\ Refuses' = RefusesFor(n) /\ Whole' = Whole
      /\ \A e \in Client : Known(e, Own)' = Known(e, Own)
  BY <1>2, <1>6 DEF Devices, Refuses, RefusesFor, Whole, Known
<1>8. /\ AnswerTrue(r, x, Refuses, RefusesFor(n))
      /\ ListTrue(r, x, Devices(node[Own]), Refuses)
      /\ NodeTrue(r, x, Devices(node[Own]), Devices(n))
  BY <1>3, <1>5, AnswersTrue
<1>9. /\ ServesTo(pending[c], up[c], down[c], r, x, up'[c], down'[c])
      /\ \A e \in Client : e # c =>
           /\ up'[e] = up[e]
           /\ r.op.name # "publish" => down'[e] = down[e]
           /\ \A i \in DOMAIN down'[e] : down'[e][i].kind = "live" \/ (i \in DOMAIN down[e] /\ down'[e][i] = down[e][i])
  BY <1>1, <1>5, ServesStreams
<1>10. RefusesFor(n) => Refuses
  BY <1>8 DEF AnswerTrue
<1>11. /\ 1 \in DOMAIN up[c] /\ up[c][1].op = r.op
       /\ \A i \in DOMAIN up'[c] : up'[c][i] = up[c][i + 1] /\ i + 1 \in DOMAIN up[c]
  BY <1>9, TakenFirst
<1>12. r.op.name \in Writes => IsBusy(c)
  <2>1. OrderGood(pending[c], up[c], down[c])
    BY <1>4 DEF IsGood, Good
  <2>2. r.op.name \in Writes => WriteOn(up[c])
    BY <1>11 DEF WriteOn
  <2>3. QED
    BY <2>1, <2>2, IdleWrites DEF IsBusy
<1>13. r.op.name \notin Writes => Devices(n) = Devices(node[Own])
  BY <1>8 DEF NodeTrue
<1>14. \A e \in Client : IsBusy(e)' => IsBusy(e)
  <2>1. ASSUME NEW e \in Client, e # c PROVE IsBusy(e)' => IsBusy(e)
    BY <1>2, <1>9, <2>1, CompleteIs DEF IsBusy
  <2>2. PublishOn(up'[c]) => PublishOn(up[c])
    BY <1>11 DEF PublishOn
  <2>3. IsBusy(c)' => IsBusy(c)
    BY <1>2, <2>2, CompleteIs DEF IsBusy, Busy
  <2>4. QED
    BY <2>1, <2>3
<1>15. IsGood(c)'
  <2>1. Good(c, pending[c], up[c], down[c], Known(c, Own), Whole, Devices(node[Own]), Refuses)
    BY <1>4 DEF IsGood
  <2>2. Good(c, pending[c], up'[c], down'[c], Known(c, Own), Whole, Devices(n), RefusesFor(n))
    BY <1>8, <1>9, <1>13, <2>1, ServedGood
  <2>3. QED
    BY <1>2, <1>7, <2>2, CompleteIs
<1>16. ASSUME NEW e \in Client, e # c PROVE IsGood(e)' /\ (IsMending(e) => IsMending(e)')
  <2>1. Good(e, pending[e], up[e], down[e], Known(e, Own), Whole, Devices(node[Own]), Refuses)
    BY <1>4 DEF IsGood
  <2>2. CASE r.op.name \notin Writes
    <3>1. down'[e] = down[e] /\ up'[e] = up[e] /\ Devices(n) = Devices(node[Own])
      BY <1>9, <1>13, <1>16, <2>2 DEF Writes
    <3>2. Good(e, pending[e], up[e], down[e], Known(e, Own), Whole, Devices(node[Own]), RefusesFor(n))
      BY <1>10, <2>1, GoodEasier
    <3>3. IsMending(e) => Mends(pending[e], up[e], down[e], RefusesFor(n))
      BY <1>10, MendsEasier DEF IsMending
    <3>4. QED
      BY <1>2, <1>7, <3>1, <3>2, <3>3, CompleteIs
  <2>3. CASE r.op.name \in Writes
    <3>1. ~Busy(pending[e], up[e])
      BY <1>4, <1>12, <1>16, <2>3 DEF IsBusy
    <3>2. ~WriteOn(up[e])
      BY <2>1, <3>1, IdleWrites DEF Good
    <3>3. TrueGood(down'[e], RefusesFor(n))
      <4>1. TrueGood(down[e], Refuses)
        BY <2>1 DEF Good
      <4>2. QED
        BY <1>9, <1>10, <1>16, <4>1, UpdatesTrue
    <3>4. Good(e, pending[e], up[e], down'[e], Known(e, Own), Whole, Devices(n), RefusesFor(n))
      BY <3>1, <3>2, <3>3, IdleGood
    <3>5. ~IsMending(e)
      BY <3>1, MendsBusy DEF IsMending
    <3>6. up'[e] = up[e]
      BY <1>9, <1>16
    <3>7. QED
      BY <1>2, <1>7, <3>4, <3>5, <3>6, CompleteIs
  <2>4. QED
    BY <2>2, <2>3
<1>17. Whole' \subseteq Devices(node[Own])' \/ \E e \in Client : IsMending(e)'
  <2>1. CASE \E e \in Client : e # c /\ IsMending(e)
    BY <1>16, <2>1
  <2>2. CASE Whole \subseteq Devices(node[Own]) \/ IsMending(c)
    <3>1. Good(c, pending[c], up[c], down[c], Known(c, Own), Whole, Devices(node[Own]), Refuses)
      BY <1>4 DEF IsGood
    <3>2. Whole \subseteq Devices(node[Own]) \/ Mends(pending[c], up[c], down[c], Refuses)
      BY <2>2 DEF IsMending
    <3>3. Whole \subseteq Devices(n) \/ Mends(pending[c], up'[c], down'[c], RefusesFor(n))
      BY <1>8, <1>9, <3>1, <3>2, ServedMends
    <3>4. QED
      BY <1>2, <1>7, <3>3, CompleteIs
  <2>3. QED
    BY <1>4, <2>1, <2>2
<1>18. QED
  BY <1>2, <1>4, <1>14, <1>15, <1>16, <1>17

\* A client asks: its table and its stream.
LEMMA RequestAsks ==
  ASSUME TypeOK, NEW c \in Client, NEW requests \in Seq(Requests), Request(c, pending[c], requests)
  PROVE  /\ Asks(pending[c], up[c], {}, requests, pending'[c], up'[c])
         /\ \A e \in Client : e # c => pending'[e] = pending[e] /\ up'[e] = up[e]
<1>0. TablesOK /\ RequestsOK
  BY DEF TypeOK
<1>1. /\ \A e \in Client : e # c => pending'[e] = pending[e] /\ up'[e] = up[e]
      /\ up'[c] = up[c] \o Stanzas(requests)
  BY <1>0, RequestKeeps
<1>2. up[c] \in Seq({Sent(r) : r \in Requests})
  BY <1>0 DEF RequestsOK
<1>3. Longer(up[c], up'[c], requests)
  BY <1>1, <1>2, StanzasLonger
<1>4. Follows(pending[c], pending'[c], {}, requests)
  BY <1>0, AddedNew DEF Request, TablesOK
<1>5. QED
  BY <1>1, <1>3, <1>4 DEF Asks

\* A login of a client that is not busy is to complete the list.
LEMMA LoginAsks ==
  ASSUME NEW table, NEW u, NEW requests, NEW t, NEW v, Asks(table, u, {}, requests, t, v),
         requests = << PublishBundle, FetchList(Own, TRUE) >>, ~Busy(table, u), ~WriteOn(u),
         NEW c, NEW K, NEW N, NEW W, W \subseteq N \cup {c}, NEW refuses
  PROVE  Good(c, t, v, <<>>, K, W, N, refuses) /\ Mends(t, v, <<>>, refuses)
<1>1. /\ DOMAIN requests = {1, 2}
      /\ requests[1].op.name = "publish-bundle" /\ Asked(requests[1].id) = "publish-bundle"
      /\ requests[2].op.name = "list" /\ requests[2].id = OwnListId /\ requests[2].entry.own
  <2>1. DOMAIN requests = {1, 2} /\ requests[1] = PublishBundle /\ requests[2] = FetchList(Own, TRUE)
    OBVIOUS
  <2>2. /\ FetchList(Own, TRUE).op.name = "list" /\ FetchList(Own, TRUE).id = OwnListId
        /\ FetchList(Own, TRUE).entry.own
    BY DEF FetchList, OwnListId
  <2>3. QED
    BY <2>1, <2>2, PublishBundleIs
<1>2. Asked(OwnListId) = "list"
  BY WriteIds
<1>3. /\ DOMAIN t = DOMAIN table \cup {requests[i].id : i \in DOMAIN requests}
      /\ \A id \in DOMAIN t :
           \/ \E i \in DOMAIN requests : requests[i].id = id /\ t[id] = requests[i].entry
           \/ id \in DOMAIN table /\ \A i \in DOMAIN requests : requests[i].id # id
  BY DEF Asks, Follows
<1>4. OwnEntry(t)
  <2>1. OwnListId \in DOMAIN t
    BY <1>1, <1>3
  <2>2. PICK i \in DOMAIN requests : requests[i].id = OwnListId /\ t[OwnListId] = requests[i].entry
    BY <1>1, <1>3, <2>1
  <2>3. i = 2
    BY <1>1, <1>2, <2>2
  <2>4. QED
    BY <1>1, <2>1, <2>2, <2>3 DEF OwnEntry
<1>5. WriteEntries(t) = {}
  <2>1. WriteEntries(table) = {}
    BY DEF Busy
  <2>2. \A i \in DOMAIN requests : Asked(requests[i].id) \notin Writes
    BY <1>1, <1>2 DEF Writes
  <2>3. QED
    BY <1>3, <2>1, <2>2 DEF WriteEntries
<1>6. \A k \in DOMAIN v : v[k].op.name \notin Writes
  <2>1. \A k \in DOMAIN v : \/ k \in DOMAIN u /\ v[k] = u[k]
                            \/ \E i \in DOMAIN requests : v[k].op = requests[i].op
    BY DEF Asks, Longer
  <2>2. \A i \in DOMAIN requests : requests[i].op.name \notin Writes
    BY <1>1 DEF Writes
  <2>3. QED
    BY <2>1, <2>2 DEF WriteOn
<1>7. RequestOn(v, OwnListId)
  <2>1. \A i \in DOMAIN requests : \E k \in DOMAIN v : v[k].id = requests[i].id
    BY DEF Asks, Longer
  <2>2. QED
    BY <1>1, <2>1 DEF RequestOn
<1>8. DOMAIN << >> = {}
  OBVIOUS
<1>9. LoginGood(c, t, v, << >>, W, N, refuses)
  BY <1>5, <1>6, <1>7, <1>8 DEF LoginGood, WriteOn, WrittenOn, NoListOn
<1>10. AimGood(t, v, << >>, K, W, refuses)
  BY <1>5, <1>6, WriteIds DEF AimGood, WriteEntries, Writes
<1>11. OrderGood(t, v, << >>) /\ TrueGood(<< >>, refuses)
  BY <1>6, <1>8 DEF OrderGood, TrueGood, Writes
<1>12. QED
  BY <1>4, <1>9, <1>10, <1>11 DEF Good, Mends

\* Requests that write nothing change nothing of what completes the list.
LEMMA PlainMends ==
  ASSUME NEW table, NEW u, NEW q, NEW requests, NEW t, NEW v, Asks(table, u, {}, requests, t, v), Plain(requests),
         OwnEntry(table) => \A i \in DOMAIN requests : requests[i].id # OwnListId,
         NEW refuses, Mends(table, u, q, refuses)
  PROVE  Mends(t, v, q, refuses)
<1>1. /\ \A id \in DOMAIN table : Asked(id) \in Writes => id \in DOMAIN t /\ t[id] = table[id]
      /\ OwnEntry(table) => OwnEntry(t)
      /\ \A i \in DOMAIN u : i \in DOMAIN v /\ v[i] = u[i]
  BY PlainRequests
<1>2. RequestOn(u, PurgeId) => RequestOn(v, PurgeId)
  BY <1>1 DEF RequestOn
<1>3. RequestOn(u, ConfigureId) => RequestOn(v, ConfigureId)
  BY <1>1 DEF RequestOn
<1>4. \A id \in {PurgeId, ConfigureId} : id \in DOMAIN table => id \in DOMAIN t
  BY <1>1, WriteIds DEF Writes
<1>5. \A id : MayRetry(table, id) => MayRetry(t, id)
  BY <1>1 DEF MayRetry, Writes
<1>6. WillConfigure(table, q) => WillConfigure(t, q)
  BY <1>5 DEF WillConfigure, MayRetry
<1>7. WillPublish(table, u, refuses) => WillPublish(t, v, refuses)
  BY <1>1, <1>5 DEF WillPublish
<1>8. QED
  BY <1>1, <1>2, <1>3, <1>4, <1>6, <1>7 DEF Mends, Outstanding

\* Nor of what is good about the client.
LEMMA PlainGood ==
  ASSUME NEW table, NEW u, NEW q, NEW requests, NEW t, NEW v, Asks(table, u, {}, requests, t, v), Plain(requests),
         NEW c, NEW K, NEW W, NEW N, NEW refuses, Good(c, table, u, q, K, W, N, refuses)
  PROVE  Good(c, t, v, q, K, W, N, refuses) /\ (Busy(t, v) => Busy(table, u))
<1>1. /\ \A id \in DOMAIN t : Asked(id) \in Writes => id \in DOMAIN table /\ t[id] = table[id]
      /\ \A id \in DOMAIN table : Asked(id) \in Writes => id \in DOMAIN t /\ t[id] = table[id]
      /\ OwnEntry(t) => OwnEntry(table)
      /\ \A i \in DOMAIN u : i \in DOMAIN v /\ v[i] = u[i]
      /\ \A k \in DOMAIN v : v[k].op.name \in Writes => k \in DOMAIN u /\ v[k] = u[k]
  BY PlainRequests
<1>2. /\ WriteEntries(t) # {} => WriteEntries(table) # {}
      /\ WriteOn(v) => WriteOn(u)
      /\ PublishOn(v) => PublishOn(u)
  BY <1>1 DEF WriteEntries, WriteOn, PublishOn, Writes
<1>3. RequestOn(u, OwnListId) => RequestOn(v, OwnListId)
  BY <1>1 DEF RequestOn
<1>4. LoginGood(c, t, v, q, W, N, refuses)
  BY <1>1, <1>2, <1>3 DEF Good, LoginGood
<1>5. AimGood(t, v, q, K, W, refuses)
  <2>0. AimGood(table, u, q, K, W, refuses)
    BY DEF Good
  <2>1. \A i \in DOMAIN v : v[i].op.name = "publish" => W \subseteq v[i].op.devices
    BY <1>1, <2>0 DEF AimGood, Writes
  <2>2. \A id \in {PurgeId, ConfigureId} \cap DOMAIN t : W \subseteq t[id].devices
    BY <1>1, <2>0, WriteIds DEF AimGood, Writes
  <2>3. WriteEntries(t) # {} /\ (refuses \/ RefusalOn(q)) => W \subseteq K
    BY <1>2, <2>0 DEF AimGood
  <2>4. QED
    BY <2>1, <2>2, <2>3 DEF AimGood
<1>6. OrderGood(t, v, q)
  <2>0. OrderGood(table, u, q)
    BY DEF Good
  <2>1. \A id \in {PurgeId, ConfigureId} \cap DOMAIN table : id \in DOMAIN t
    BY <1>1, WriteIds DEF Writes
  <2>2. ASSUME NEW i \in DOMAIN v, v[i].op.name = "purge"
        PROVE  /\ PurgeId \in DOMAIN t /\ ~AnswerOn(q, PurgeId)
               /\ \A j \in DOMAIN v : v[j].op.name = "purge" => j = i
    <3>1. i \in DOMAIN u /\ u[i].op.name = "purge"
      BY <1>1, <2>2 DEF Writes
    <3>2. /\ PurgeId \in DOMAIN table /\ ~AnswerOn(q, PurgeId)
          /\ \A j \in DOMAIN u : u[j].op.name = "purge" => j = i
      BY <2>0, <3>1 DEF OrderGood
    <3>3. \A j \in DOMAIN v : v[j].op.name = "purge" => j = i
      BY <1>1, <3>2 DEF Writes
    <3>4. QED
      BY <2>1, <3>2, <3>3
  <2>3. ASSUME NEW i \in DOMAIN v, v[i].op.name = "configure"
        PROVE  ConfigureId \in DOMAIN t \/ \E j \in DOMAIN v : j > i /\ v[j].op.name = "publish"
    <3>1. i \in DOMAIN u /\ u[i].op.name = "configure"
      BY <1>1, <2>3 DEF Writes
    <3>2. ConfigureId \in DOMAIN table \/ \E j \in DOMAIN u : j > i /\ u[j].op.name = "publish"
      BY <2>0, <3>1 DEF OrderGood
    <3>3. QED
      BY <1>1, <2>1, <3>2
  <2>4. QED
    BY <2>2, <2>3 DEF OrderGood
<1>7. Busy(t, v) => Busy(table, u)
  BY <1>1, <1>2 DEF Busy
<1>8. QED
  BY <1>4, <1>5, <1>6, <1>7 DEF Good

\* A login starts to complete the list: nobody else is about to.
LEMMA OnlineComplete ==
  ASSUME TypeOK, CompleteInv, NEW c \in Client, Online(c) PROVE CompleteInv'
<1> SUFFICES ASSUME Allowed'
             PROVE  /\ \A e \in Client : IsBusy(e)' => e \in online'
                    /\ \A e, d \in Client : IsBusy(e)' /\ IsBusy(d)' => e = d
                    /\ \A e \in Client : IsGood(e)'
                    /\ Whole' \subseteq Devices(node[Own])' \/ \E e \in Client : IsMending(e)'
  BY DEF CompleteInv
<1>0. TablesOK /\ OnlineOK
  BY DEF TypeOK
<1>1. /\ UNCHANGED <<server, initial, node, lists, down>> /\ online' = online \cup {c} /\ c \notin online
      /\ Request(c, pending[c], << PublishBundle, FetchList(Own, TRUE) >>)
  BY DEF Online, serverVars
<1>2. disturbed = {} /\ Allowed /\ ~\E d \in online : Publishing(d)
  BY <1>1 DEF Online, Allowed
<1>3. /\ \A e \in Client : IsBusy(e) => e \in online
      /\ \A e \in Client : IsGood(e)
      /\ Whole \subseteq Devices(node[Own]) \/ \E e \in Client : IsMending(e)
  BY <1>2 DEF CompleteInv
<1>4. \A e \in Client : ~IsBusy(e)
  BY <1>0, <1>2, <1>3, PublishingIs DEF OnlineOK
<1>5. Whole \subseteq Devices(node[Own])
  BY <1>3, <1>4, MendsBusy DEF IsMending, IsBusy
<1>6. Whole' \subseteq Devices(node[Own]) \cup {c} /\ Devices(node[Own])' = Devices(node[Own]) /\ Refuses' = Refuses
      /\ \A e : Known(e, Own)' = Known(e, Own)
  BY <1>1, <1>5 DEF Whole, Devices, Refuses, Known
<1>7. PICK requests : requests = << PublishBundle, FetchList(Own, TRUE) >>
  OBVIOUS
<1>8. requests \in Seq(Requests)
  <2>1. PublishBundle \in Requests /\ FetchList(Own, TRUE) \in Requests
    BY ListRequest, OtherRequests
  <2>2. QED
    BY <1>7, <2>1, TwoRequests
<1>9. /\ Asks(pending[c], up[c], {}, requests, pending'[c], up'[c])
      /\ \A e \in Client : e # c => pending'[e] = pending[e] /\ up'[e] = up[e]
  BY <1>1, <1>7, <1>8, RequestAsks
<1>10. \A e \in Client : ~WriteOn(up[e])
  BY <1>3, <1>4, IdleWrites DEF IsGood, Good, IsBusy
<1>11. IsGood(c)' /\ IsMending(c)'
  <2>1. ~Busy(pending[c], up[c]) /\ ~WriteOn(up[c]) /\ down'[c] = <<>>
    BY <1>0, <1>1, <1>4, <1>10 DEF IsBusy, OnlineOK, Quiet
  <2>2. PICK W, N, refuses, K : W = Whole' /\ N = Devices(node[Own])' /\ refuses = Refuses' /\ K = Known(c, Own)'
    OBVIOUS
  <2>3. W \subseteq N \cup {c}
    BY <1>6, <2>2
  <2>4. Good(c, pending'[c], up'[c], <<>>, K, W, N, refuses) /\ Mends(pending'[c], up'[c], <<>>, refuses)
    BY <1>7, <1>9, <2>1, <2>3, LoginAsks
  <2>5. QED
    BY <2>1, <2>2, <2>4, CompleteIs
<1>12. ASSUME NEW e \in Client, e # c PROVE ~IsBusy(e)' /\ IsGood(e)'
  <2>1. pending'[e] = pending[e] /\ up'[e] = up[e] /\ down'[e] = down[e]
    BY <1>1, <1>9, <1>12
  <2>2. ~Busy(pending[e], up[e]) /\ ~WriteOn(up[e]) /\ TrueGood(down[e], Refuses)
    BY <1>3, <1>4, <1>10 DEF IsBusy, IsGood, Good
  <2>3. \A W, N, K : Good(e, pending[e], up[e], down[e], K, W, N, Refuses)
    BY <2>2, IdleGood
  <2>4. QED
    BY <1>6, <2>1, <2>2, <2>3, CompleteIs
<1>13. QED
  BY <1>1, <1>11, <1>12

\* A conversation is opened: a list is fetched, and not in place of a login's.
LEMMA SelectComplete ==
  ASSUME TypeOK, CompleteInv, NEW c \in Client, NEW a \in Account, SelectConversation(c, a) PROVE CompleteInv'
<1> SUFFICES ASSUME Allowed'
             PROVE  /\ \A e \in Client : IsBusy(e)' => e \in online'
                    /\ \A e, d \in Client : IsBusy(e)' /\ IsBusy(d)' => e = d
                    /\ \A e \in Client : IsGood(e)'
                    /\ Whole' \subseteq Devices(node[Own])' \/ \E e \in Client : IsMending(e)'
  BY DEF CompleteInv
<1>0. TablesOK
  BY DEF TypeOK
<1>1. /\ UNCHANGED <<server, initial, node, lists, down, online>>
      /\ Request(c, pending[c], << FetchList(a, FALSE) >>)
  BY DEF SelectConversation, serverVars
<1>2. Allowed /\ ~(a = Own /\ Publishing(c))
  BY <1>1 DEF SelectConversation, Allowed
<1>3. /\ \A e \in Client : IsBusy(e) => e \in online
      /\ \A e, d \in Client : IsBusy(e) /\ IsBusy(d) => e = d
      /\ \A e \in Client : IsGood(e)
      /\ Whole \subseteq Devices(node[Own]) \/ \E e \in Client : IsMending(e)
  BY <1>2 DEF CompleteInv
<1>4. Whole' = Whole /\ Devices(node[Own])' = Devices(node[Own]) /\ Refuses' = Refuses
      /\ \A e : Known(e, Own)' = Known(e, Own)
  BY <1>1 DEF Whole, Devices, Refuses, Known
<1>5. PICK requests : requests = << FetchList(a, FALSE) >>
  OBVIOUS
<1>6. requests \in Seq(Requests)
  BY <1>5, ListRequest, OneRequest
<1>7. /\ Asks(pending[c], up[c], {}, requests, pending'[c], up'[c])
      /\ \A e \in Client : e # c => pending'[e] = pending[e] /\ up'[e] = up[e]
  BY <1>1, <1>5, <1>6, RequestAsks
<1>8. DOMAIN requests = {1} /\ requests[1].op.name = "list" /\ ~requests[1].entry.own
      /\ requests[1].id = <<"devicelist", a>>
  <2>1. DOMAIN requests = {1} /\ requests[1] = FetchList(a, FALSE)
    BY <1>5
  <2>2. QED
    BY <2>1 DEF FetchList
<1>9. Plain(requests)
  BY <1>8 DEF Plain, Writes
<1>10. OwnEntry(pending[c]) => \A i \in DOMAIN requests : requests[i].id # OwnListId
  <2>1. SUFFICES ASSUME OwnEntry(pending[c]), requests[1].id = OwnListId PROVE FALSE
    BY <1>8
  <2>2. <<"devicelist", a>> = <<"devicelist", Own>>
    BY <1>8, <2>1 DEF OwnListId
  <2>3. a = Own
    BY <2>2, PairsEqual
  <2>4. IsBusy(c)
    BY <2>1 DEF IsBusy, Busy
  <2>5. QED
    BY <1>0, <1>2, <2>3, <2>4, PublishingIs
<1>11. ASSUME NEW e \in Client PROVE IsGood(e)' /\ (IsBusy(e)' => IsBusy(e)) /\ (IsMending(e) => IsMending(e)')
  <2>1. Good(e, pending[e], up[e], down[e], Known(e, Own), Whole, Devices(node[Own]), Refuses)
    BY <1>3 DEF IsGood
  <2>2. CASE e # c
    <3>1. pending'[e] = pending[e] /\ up'[e] = up[e] /\ down'[e] = down[e]
      BY <1>1, <1>7, <2>2
    <3>2. QED
      BY <1>4, <2>1, <3>1, CompleteIs DEF IsBusy, IsMending
  <2>3. CASE e = c
    <3>1. /\ Good(c, pending'[c], up'[c], down[c], Known(c, Own), Whole, Devices(node[Own]), Refuses)
          /\ Busy(pending'[c], up'[c]) => IsBusy(c)
      BY <1>7, <1>9, <2>1, <2>3, PlainGood DEF IsBusy
    <3>2. IsMending(c) => Mends(pending'[c], up'[c], down[c], Refuses)
      BY <1>7, <1>9, <1>10, PlainMends DEF IsMending
    <3>3. QED
      BY <1>1, <1>4, <2>3, <3>1, <3>2, CompleteIs
  <2>4. QED
    BY <2>2, <2>3
<1>12. QED
  BY <1>1, <1>3, <1>4, <1>11

\* A stream ends of a client that was not busy.
LEMMA BreaksComplete ==
  ASSUME TypeOK, CompleteInv, NEW c \in Client, Breaks(c), UNCHANGED pending \/ pending' = [pending EXCEPT ![c] = <<>>]
  PROVE  CompleteInv'
<1> SUFFICES ASSUME Allowed'
             PROVE  /\ \A e \in Client : IsBusy(e)' => e \in online'
                    /\ \A e, d \in Client : IsBusy(e)' /\ IsBusy(d)' => e = d
                    /\ \A e \in Client : IsGood(e)'
                    /\ Whole' \subseteq Devices(node[Own])' \/ \E e \in Client : IsMending(e)'
  BY DEF CompleteInv
<1>0. TablesOK /\ RequestsOK /\ AnswersOK
  BY DEF TypeOK
<1>1. /\ UNCHANGED <<server, initial, node, lists>> /\ online' = online \ {c}
      /\ up'[c] = <<>> /\ down'[c] = <<>> /\ (pending'[c] = pending[c] \/ pending'[c] = <<>>)
      /\ \A e \in Client : e # c => pending'[e] = pending[e] /\ up'[e] = up[e] /\ down'[e] = down[e]
  BY <1>0 DEF Breaks, serverVars, TablesOK, RequestsOK, AnswersOK
<1>2. Allowed /\ ~Publishing(c)
  BY <1>1 DEF Breaks, Allowed
<1>3. /\ \A e \in Client : IsBusy(e) => e \in online
      /\ \A e, d \in Client : IsBusy(e) /\ IsBusy(d) => e = d
      /\ \A e \in Client : IsGood(e)
      /\ Whole \subseteq Devices(node[Own]) \/ \E e \in Client : IsMending(e)
  BY <1>2 DEF CompleteInv
<1>4. Whole' \subseteq Whole /\ Devices(node[Own])' = Devices(node[Own]) /\ Refuses' = Refuses
      /\ \A e : Known(e, Own)' = Known(e, Own)
  BY <1>1 DEF Whole, Devices, Refuses, Known
<1>5. ~IsBusy(c)
  BY <1>0, <1>2, PublishingIs
<1>6. ~IsMending(c)
  BY <1>5, MendsBusy DEF IsMending, IsBusy
<1>7. ~IsBusy(c)' /\ IsGood(c)'
  <2>0. DOMAIN << >> = {}
    OBVIOUS
  <2>1. ~Busy(pending'[c], << >>)
    BY <1>1, <1>5, <2>0 DEF IsBusy, Busy, OwnEntry, WriteEntries, PublishOn
  <2>2. ~WriteOn(<< >>) /\ TrueGood(<< >>, Refuses)
    BY <2>0 DEF WriteOn, TrueGood
  <2>3. \A W, N, K : Good(c, pending'[c], << >>, << >>, K, W, N, Refuses)
    BY <2>1, <2>2, IdleGood
  <2>4. QED
    BY <1>1, <1>4, <2>1, <2>3, CompleteIs
<1>8. ASSUME NEW e \in Client, e # c
      PROVE  IsGood(e)' /\ (IsBusy(e)' => IsBusy(e)) /\ (IsMending(e) => IsMending(e)')
  <2>1. Good(e, pending[e], up[e], down[e], Known(e, Own), Whole, Devices(node[Own]), Refuses)
    BY <1>3 DEF IsGood
  <2>2. pending'[e] = pending[e] /\ up'[e] = up[e] /\ down'[e] = down[e]
    BY <1>1, <1>8
  <2>3. PICK W : W = Whole'
    OBVIOUS
  <2>4. Good(e, pending[e], up[e], down[e], Known(e, Own), W, Devices(node[Own]), Refuses)
    BY <1>4, <2>1, <2>3, GoodEasier
  <2>5. QED
    BY <1>4, <2>2, <2>3, <2>4, CompleteIs DEF IsBusy, IsMending
<1>9. \A e, d \in Client : IsBusy(e)' /\ IsBusy(d)' => e = d
  BY <1>3, <1>7, <1>8
<1>10. \A e \in Client : IsBusy(e)' => e \in online'
  BY <1>1, <1>3, <1>7, <1>8
<1>11. Whole' \subseteq Devices(node[Own])' \/ \E e \in Client : IsMending(e)'
  BY <1>3, <1>4, <1>6, <1>8
<1>12. QED
  BY <1>7, <1>8, <1>9, <1>10, <1>11

\* At first nobody is connected, and the list is what it was.
LEMMA InitComplete == ASSUME Init PROVE CompleteInv
<1>0. DOMAIN << >> = {}
  OBVIOUS
<1>1. ASSUME NEW c \in Client
      PROVE  ~IsBusy(c) /\ IsGood(c)
  <2>1. pending[c] = << >> /\ up[c] = << >> /\ down[c] = << >>
    BY DEF Init
  <2>2. ~Busy(<< >>, << >>)
    BY <1>0 DEF Busy, OwnEntry, WriteEntries, PublishOn
  <2>3. ~WriteOn(<< >>) /\ TrueGood(<< >>, Refuses)
    BY <1>0 DEF WriteOn, TrueGood
  <2>4. \A W, N, K : Good(c, << >>, << >>, << >>, K, W, N, Refuses)
    BY <2>2, <2>3, IdleGood
  <2>5. QED
    BY <2>1, <2>2, <2>4 DEF IsBusy, IsGood
<1>2. Whole = Devices(node[Own])
  BY DEF Init, Whole, Devices
<1>3. QED
  BY <1>1, <1>2 DEF CompleteInv

\* Every step.
LEMMA NextComplete ==
  ASSUME TypeOK, CompleteInv, [Next]_vars PROVE CompleteInv'
<1>1. CASE UNCHANGED vars
  <2>1. /\ UNCHANGED <<server, initial, node, lists, online, disturbed>>
        /\ pending' = pending /\ up' = up /\ down' = down
    BY <1>1 DEF vars, serverVars
  <2>2. /\ Whole' = Whole /\ Devices(node[Own])' = Devices(node[Own]) /\ Refuses' = Refuses
        /\ (Allowed' <=> Allowed) /\ \A e : Known(e, Own)' = Known(e, Own)
    BY <2>1 DEF Whole, Devices, Refuses, Known, Allowed
  <2>3. \A c : (IsBusy(c)' <=> IsBusy(c)) /\ (IsGood(c)' <=> IsGood(c)) /\ (IsMending(c)' <=> IsMending(c))
    BY <2>1, <2>2, CompleteIs DEF IsBusy, IsGood, IsMending
  <2>4. QED
    BY <2>1, <2>2, <2>3 DEF CompleteInv
<1>2. CASE Next
  <2>1. PICK c \in Client :
          \/ Online(c) \/ StreamLost(c) \/ Logout(c)
          \/ \E a \in Account : SelectConversation(c, a)
          \/ Serve(c) \/ HandleStanza(c)
    BY <1>2 DEF Next
  <2>2. CASE Online(c)
    BY <2>2, OnlineComplete
  <2>3. CASE StreamLost(c)
    BY <2>3, BreaksComplete DEF StreamLost
  <2>4. CASE Logout(c)
    BY <2>4, BreaksComplete DEF Logout
  <2>5. CASE \E a \in Account : SelectConversation(c, a)
    BY <2>5, SelectComplete
  <2>6. CASE Serve(c)
    BY <2>6, ServeComplete
  <2>7. CASE HandleStanza(c)
    BY <2>7, HandleComplete
  <2>8. QED
    BY <2>1, <2>2, <2>3, <2>4, <2>5, <2>6, <2>7
<1>3. QED
  BY <1>1, <1>2

\* With nothing on its way, no client is to complete the list any more.
LEMMA SettledComplete == ASSUME TypeOK, CompleteInv PROVE ListComplete
<1> SUFFICES ASSUME Allowed, Settled PROVE Whole \subseteq Devices(node[Own])
  BY DEF ListComplete, Complete, Allowed, Whole
<1>1. SUFFICES ASSUME NEW c \in Client, IsMending(c) PROVE FALSE
  BY DEF CompleteInv
<1>2. up[c] = << >> /\ down[c] = << >> /\ DOMAIN << >> = {}
  BY DEF Settled, Quiet
<1>3. LoginGood(c, pending[c], << >>, << >>, Whole, Devices(node[Own]), Refuses)
  BY <1>2 DEF CompleteInv, IsGood, Good
<1>4. ~OwnEntry(pending[c])
  <2>1. ~RequestOn(<< >>, OwnListId)
    BY <1>2 DEF RequestOn
  <2>2. ~FirstBrings(<< >>, c, Whole, Refuses)
    BY <1>2 DEF FirstBrings
  <2>3. QED
    BY <1>3, <2>1, <2>2 DEF LoginGood
<1>5. Mends(pending[c], << >>, << >>, Refuses)
  BY <1>1, <1>2 DEF IsMending
<1>6. QED
  BY <1>2, <1>4, <1>5 DEF Mends, Outstanding, AnswerOn, RequestOn, WillConfigure, RefusedFirst, WillPublish

\* When all requests are answered, the account's list names every client that
\* is connected and every device it named at first, for any number of clients,
\* logins, breaks and opened conversations, on any server but one that checks
\* the node's options and lets nobody change them, and unless two logins
\* overlap, a stream breaks before the list is published or the own
\* conversation is opened before (client.rs, lines 241, 2221 and 2301): whoever
\* takes devices off the list is about to publish them again.
THEOREM ListStaysComplete == Spec => []ListComplete
<1>1. Init => CompleteInv
  BY InitComplete
<1>2. TypeOK /\ CompleteInv /\ [Next]_vars => CompleteInv'
  BY NextComplete
<1>3. TypeOK /\ CompleteInv => ListComplete
  BY SettledComplete
<1>4. QED
  BY <1>1, <1>2, <1>3, TypeCorrect, PTL DEF Spec
=============================================================================
