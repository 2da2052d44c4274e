---------------------------- MODULE Calls_proofs ----------------------------
(***************************************************************************)
(* Calls for every set of parties and every number of calls, breaks and    *)
(* duplicated requests: types, which party can have and say what of a      *)
(* session, that a session that is over stays over, that the screen shows  *)
(* no call the worker does not have, unless its end is about to be told,   *)
(* and that undisturbed the ends of a call agree.  Each invariant is       *)
(* inductive together with the ones before it; the proof that Next         *)
(* preserves it has a lemma for each kind of step.                         *)
(***************************************************************************)
EXTENDS Calls, TLAPS, FiniteSetTheorems

-----------------------------------------------------------------------------
\* Shapes

Call == [with : Party, sid : Sid]

MaybeCall == Call \cup {None}

Screen == [engine : {"Idle", "Active"}, call : MaybeCall, incoming : MaybeCall]

Session == [peer : Party, state : {"PendingOutgoing", "PendingIncoming", "Active"}]

Commands ==
  [type : {"InitiateCall", "AcceptCall", "RejectCall", "EndCall"}, with : Party, sid : Sid]
    \cup {Command("Connect", None, None), Command("Disconnect", None, None)}

CallEvent == [type : {"IncomingCall", "CallAccepted", "CallEnded"}, with : Party, sid : Sid]

Events == CallEvent \cup {Event("Disconnected", None, None)}

Stanzas ==
  [action : {"session-initiate", "session-accept", "session-terminate"}, sid : Sid]

\* The calls a click of the user has still to start.
Clicked(p) == {c \in cmds[p] : c.type = "InitiateCall"}

\* The worker makes no more ids than there were clicks, so it does not run out.
ClicksCounted ==
  \A p \in Party :
    /\ IsFiniteSet(Clicked(p))
    /\ Cardinality(Clicked(p)) + initiated[p] <= started[p]

TypeOK ==
  /\ ui \in [Party -> Screen]
  /\ cmds \in [Party -> SUBSET Commands]
  /\ events \in [Party -> Seq(Events)]
  /\ jingle \in [Party -> [Sid -> Session \cup {None}]]
  /\ client \in [Party -> {"none", "connecting", "online"}]
  /\ healthy \in [Party -> BOOLEAN]
  /\ wire \in [Party -> [Party -> Seq(Stanzas)]]
  /\ started \in [Party -> 0 .. MaxCalls]
  /\ initiated \in [Party -> Nat]
  /\ breaks \in Nat /\ duplicates \in Nat
  /\ held \in [Party -> SUBSET Sid]
  /\ ClicksCounted

-----------------------------------------------------------------------------
\* Who may have and say what of a session

\* A session that is held was made, by the worker of its initiator.
HeldMade ==
  \A p \in Party : \A s \in held[p] : s[3] = "worker" /\ s[2] <= initiated[s[1]]

\* The peer of a session someone else initiated is who did.
SessionSides ==
  \A p \in Party : \A s \in Sid : jingle[p][s] # None =>
    /\ s \in held[p]
    /\ IF s[1] = p
       THEN jingle[p][s].peer # p /\ jingle[p][s].state # "PendingIncoming"
       ELSE jingle[p][s].peer = s[1] /\ jingle[p][s].state # "PendingOutgoing"

\* A request is of the initiator or to it; session-initiate is of the initiator.
WireSides ==
  \A p, q \in Party : \A i \in DOMAIN wire[p][q] :
    LET m == wire[p][q][i]
    IN  /\ m.sid[3] = "worker" /\ m.sid[2] <= initiated[m.sid[1]]
        /\ p # q
        /\ m.sid[1] \in {p, q}
        /\ m.action = "session-initiate" => m.sid[1] = p

\* A call that comes in, as event, on the screen or in an answer of the user.
Incomes(p, call) == call.sid \in held[p] /\ call.sid[1] = call.with /\ call.with # p

CommandSides ==
  \A p \in Party : \A c \in cmds[p] :
    /\ c.type = "InitiateCall" => c.with # p
    /\ c.type \in {"AcceptCall", "RejectCall"} => Incomes(p, c)

ScreenSides ==
  \A p \in Party :
    /\ ui[p].incoming # None => Incomes(p, ui[p].incoming)
    /\ \A i \in DOMAIN events[p] :
         /\ events[p][i].type = "IncomingCall" => Incomes(p, events[p][i])
         /\ events[p][i].type = "CallAccepted" => events[p][i].sid \in held[p]

SidInv == HeldMade /\ SessionSides /\ WireSides /\ CommandSides /\ ScreenSides

-----------------------------------------------------------------------------
\* Without requests delivered twice, each session comes in once

Initiates(p, q, i) == i \in DOMAIN wire[p][q] /\ wire[p][q][i].action = "session-initiate"

InitiatesOnce ==
  \A p, q \in Party : \A i \in DOMAIN wire[p][q] : Initiates(p, q, i) =>
    /\ wire[p][q][i].sid \notin held[q]
    /\ \A j \in DOMAIN wire[p][q] :
         Initiates(p, q, j) /\ wire[p][q][j].sid = wire[p][q][i].sid => i = j

Answering(p, s) ==
  \E c \in cmds[p] : c.type \in {"AcceptCall", "RejectCall"} /\ c.sid = s

\* A user is asked once.
AskedOnce ==
  \A p \in Party :
    /\ ui[p].incoming # None => ~Answering(p, ui[p].incoming.sid)
    /\ \A i \in DOMAIN events[p] : events[p][i].type = "IncomingCall" =>
         /\ ~Answering(p, events[p][i].sid)
         /\ ui[p].incoming # None => ui[p].incoming.sid # events[p][i].sid
         /\ \A j \in DOMAIN events[p] :
              events[p][j].type = "IncomingCall" /\ events[p][j].sid = events[p][i].sid => i = j

OnceInv == duplicates = 0 => InitiatesOnce /\ AskedOnce

-----------------------------------------------------------------------------
\* What is shown is live

Ends(e, s) == (e.type = "CallEnded" /\ e.sid = s) \/ e.type = "Disconnected"

EndsAfter(p, i, s) == \E j \in DOMAIN events[p] : i < j /\ Ends(events[p][j], s)

Talking(p, call) == SessionWith(p, call.sid, call.with) /\ jingle[p][call.sid].state = "Active"

\* An event of a call is of a session that is as it says, or the end is told later.
EventsLive(p) ==
  \A i \in DOMAIN events[p] : \A e \in Events : e = events[p][i] =>
    /\ e.type = "IncomingCall" => Incoming(p, e) \/ EndsAfter(p, i, e.sid)
    /\ e.type = "CallAccepted" => Talking(p, e) \/ EndsAfter(p, i, e.sid)

OfflineAfter(p, i) == \E j \in DOMAIN events[p] : i < j /\ events[p][j].type = "Disconnected"

\* A worker without a client serves no answers: but then the interface hears
\* that it is disconnected, after all it has heard of calls.
OfflineTold(p) ==
  client[p] = "none" =>
    /\ ui[p].incoming # None => OfflineAfter(p, 0)
    /\ ui[p].call # None /\ ui[p].call.sid[3] = "worker" => OfflineAfter(p, 0)
    /\ \A i \in DOMAIN events[p] :
         events[p][i].type \in {"IncomingCall", "CallAccepted"} => OfflineAfter(p, i)

\* What ShownIsLive says of a party, with the events to come after position 0.
ScreenLive(p) ==
  \A c \in Call : c # None =>
    /\ ui[p].incoming = c => Incoming(p, c) \/ EndsAfter(p, 0, c.sid)
    /\ ui[p].call = c /\ c.sid[3] = "worker" => Answered(p, c) \/ EndsAfter(p, 0, c.sid)

ShownInv ==
  /\ \A p \in Party : OfflineTold(p)
  /\ duplicates = 0 => \A p \in Party : EventsLive(p) /\ ScreenLive(p)

-----------------------------------------------------------------------------
\* Sequences: what Append, Tail and the loss of the last element leave.

LEMMA Appended ==
  ASSUME NEW S, NEW s \in Seq(S), NEW e \in S
  PROVE  /\ Append(s, e) \in Seq(S)
         /\ Len(s) \in Nat /\ DOMAIN s = 1 .. Len(s)
         /\ DOMAIN Append(s, e) = 1 .. Len(s) + 1
         /\ \A i \in 1 .. Len(s) : Append(s, e)[i] = s[i]
         /\ Append(s, e)[Len(s) + 1] = e
OBVIOUS

LEMMA Shortened ==
  ASSUME NEW S, NEW s \in Seq(S), s # <<>>
  PROVE  /\ Head(s) \in S /\ Head(s) = s[1]
         /\ Tail(s) \in Seq(S)
         /\ Len(s) \in Nat /\ DOMAIN s = 1 .. Len(s) /\ 1 \in DOMAIN s
         /\ DOMAIN Tail(s) = 1 .. Len(s) - 1
         /\ \A i \in DOMAIN Tail(s) : i + 1 \in DOMAIN s /\ Tail(s)[i] = s[i + 1]
         /\ \A i \in DOMAIN s : i # 1 => i - 1 \in DOMAIN Tail(s) /\ Tail(s)[i - 1] = s[i]
OBVIOUS

LEMMA Cut ==
  ASSUME NEW S, NEW s \in Seq(S), s # <<>>
  PROVE  /\ SubSeq(s, 1, Len(s) - 1) \in Seq(S)
         /\ Len(s) \in Nat /\ DOMAIN s = 1 .. Len(s)
         /\ DOMAIN SubSeq(s, 1, Len(s) - 1) = 1 .. Len(s) - 1
         /\ \A i \in 1 .. Len(s) - 1 : SubSeq(s, 1, Len(s) - 1)[i] = s[i]
OBVIOUS

-----------------------------------------------------------------------------
\* Types

LEMMA PerformType ==
  ASSUME TypeOK, NEW p \in Party, NEW c \in Commands, Perform(p, c)
  PROVE  cmds' \in [Party -> SUBSET Commands]
BY DEF TypeOK, Perform

LEMMA TellType ==
  ASSUME TypeOK, NEW p \in Party, NEW e \in Events, Tell(p, e)
  PROVE  events' \in [Party -> Seq(Events)]
BY DEF TypeOK, Tell

LEMMA SendType ==
  ASSUME TypeOK, NEW p \in Party, NEW q \in Party, NEW m \in Stanzas, Send(p, q, m)
  PROVE  wire' \in [Party -> [Party -> Seq(Stanzas)]]
BY DEF TypeOK, Send

LEMMA OpenType ==
  ASSUME TypeOK, NEW p \in Party, NEW q \in Party, NEW s \in Sid,
         NEW state \in {"PendingOutgoing", "PendingIncoming"}, Open(p, s, q, state)
  PROVE  /\ jingle' \in [Party -> [Sid -> Session \cup {None}]]
         /\ held' \in [Party -> SUBSET Sid]
BY DEF TypeOK, Open, Session

LEMMA NoneApart == (\A r \in Session : r # None) /\ (\A c \in Call : c # None)
BY NoneAssumption DEF Session, Call

LEMMA ActivatedRecord ==
  ASSUME NEW r \in Session
  PROVE  [r EXCEPT !.state = "Active"] = [peer |-> r.peer, state |-> "Active"]
BY DEF Session

LEMMA ActivateIs ==
  ASSUME TypeOK, NEW p \in Party, NEW s \in Sid, jingle[p][s] # None, Activate(p, s)
  PROVE  jingle' = [jingle EXCEPT ![p] = [jingle[p] EXCEPT ![s] =
                       [peer |-> jingle[p][s].peer, state |-> "Active"]]]
<1>1. jingle[p][s] \in Session
  BY DEF TypeOK
<1>2. [jingle[p][s] EXCEPT !.state = "Active"] = [peer |-> jingle[p][s].peer, state |-> "Active"]
  BY <1>1, ActivatedRecord
<1>3. QED
  BY <1>2, Zenon DEF Activate

LEMMA ActivateType ==
  ASSUME TypeOK, NEW p \in Party, NEW s \in Sid, jingle[p][s] # None, Activate(p, s)
  PROVE  jingle' \in [Party -> [Sid -> Session \cup {None}]]
<1> DEFINE r == [peer |-> jingle[p][s].peer, state |-> "Active"]
<1>1. r \in Session
  BY DEF TypeOK, Session
<1>2. jingle \in [Party -> [Sid -> Session \cup {None}]]
  BY DEF TypeOK
<1>3. jingle' = [jingle EXCEPT ![p] = [jingle[p] EXCEPT ![s] = r]]
  BY ActivateIs
<1>4. QED
  BY <1>1, <1>2, <1>3

\* One session changes.
LEMMA Opened ==
  ASSUME TypeOK, NEW p \in Party, NEW s \in Sid, NEW q, NEW state, Open(p, s, q, state)
  PROVE  /\ \A r \in Party, t \in Sid : jingle'[r][t] =
              IF r = p /\ t = s THEN [peer |-> q, state |-> state] ELSE jingle[r][t]
         /\ \A r \in Party : held'[r] = IF r = p THEN held[p] \cup {s} ELSE held[r]
<1>1. jingle \in [Party -> [Sid -> Session \cup {None}]] /\ held \in [Party -> SUBSET Sid]
  BY DEF TypeOK
<1>2. QED
  BY <1>1 DEF Open

LEMMA Removed ==
  ASSUME TypeOK, NEW p \in Party, NEW s \in Sid, Remove(p, s)
  PROVE  \A r \in Party, t \in Sid : jingle'[r][t] =
           IF r = p /\ t = s THEN None ELSE jingle[r][t]
BY DEF TypeOK, Remove

LEMMA Activated ==
  ASSUME TypeOK, NEW p \in Party, NEW s \in Sid, jingle[p][s] # None, Activate(p, s)
  PROVE  \A r \in Party, t \in Sid : jingle'[r][t] =
           IF r = p /\ t = s THEN [peer |-> jingle[p][s].peer, state |-> "Active"]
           ELSE jingle[r][t]
<1> DEFINE a == [peer |-> jingle[p][s].peer, state |-> "Active"]
<1>1. jingle \in [Party -> [Sid -> Session \cup {None}]]
  BY DEF TypeOK
<1>2. jingle' = [jingle EXCEPT ![p] = [jingle[p] EXCEPT ![s] = a]]
  BY ActivateIs
<1> HIDE DEF a
<1>3. \A r \in Party, t \in Sid : jingle'[r][t] = IF r = p /\ t = s THEN a ELSE jingle[r][t]
  BY <1>1, <1>2
<1>4. QED
  BY <1>3 DEF a

\* The other sessions stay.
LEMMA OpenedElsewhere ==
  ASSUME TypeOK, NEW p \in Party, NEW s \in Sid, NEW q, NEW state, Open(p, s, q, state)
  PROVE  \A r \in Party, t \in Sid : r # p \/ t # s => jingle'[r][t] = jingle[r][t]
<1> DEFINE a == [peer |-> q, state |-> state]
<1>1. jingle' = [jingle EXCEPT ![p][s] = a]
  BY DEF Open
<1> HIDE DEF a
<1>2. QED
  BY <1>1 DEF TypeOK

LEMMA ActivatedElsewhere ==
  ASSUME TypeOK, NEW p \in Party, NEW s \in Sid, jingle[p][s] # None, Activate(p, s)
  PROVE  \A r \in Party, t \in Sid : r # p \/ t # s => jingle'[r][t] = jingle[r][t]
<1> DEFINE a == [peer |-> jingle[p][s].peer, state |-> "Active"]
<1>1. \A r \in Party, t \in Sid : jingle'[r][t] =
         IF r = p /\ t = s THEN a ELSE jingle[r][t]
  BY Activated
<1> HIDE DEF a
<1>2. QED
  BY <1>1

LEMMA RemoveType ==
  ASSUME TypeOK, NEW p \in Party, NEW s \in Sid, Remove(p, s)
  PROVE  jingle' \in [Party -> [Sid -> Session \cup {None}]]
BY DEF TypeOK, Remove

\* Clicks are counted still when none is added.
LEMMA NoClick ==
  ASSUME TypeOK, UNCHANGED <<started, initiated>>,
         \A p \in Party : Clicked(p)' \subseteq Clicked(p)
  PROVE  ClicksCounted'
<1> SUFFICES ASSUME NEW p \in Party
             PROVE  /\ IsFiniteSet(Clicked(p)')
                    /\ Cardinality(Clicked(p)') + initiated[p] <= started[p]
  BY DEF ClicksCounted
<1>1. /\ IsFiniteSet(Clicked(p)') /\ Cardinality(Clicked(p)') <= Cardinality(Clicked(p))
      /\ Cardinality(Clicked(p)') \in Nat /\ Cardinality(Clicked(p)) \in Nat
  BY FS_Subset, FS_CardinalityType DEF TypeOK, ClicksCounted
<1>2. QED
  BY <1>1 DEF TypeOK, ClicksCounted

LEMMA TakenType ==
  ASSUME TypeOK, NEW p \in Party, NEW c, cmds' = [cmds EXCEPT ![p] = @ \ {c}]
  PROVE  /\ cmds' \in [Party -> SUBSET Commands]
         /\ \A q \in Party : Clicked(q)' \subseteq Clicked(q)
BY DEF TypeOK, Clicked

\* Only StartCall puts a click among the commands.
LEMMA PerformedNoClick ==
  ASSUME TypeOK, NEW p \in Party, NEW c \in Commands, Perform(p, c), c.type # "InitiateCall"
  PROVE  \A q \in Party : Clicked(q)' \subseteq Clicked(q)
BY DEF TypeOK, Perform, Clicked

LEMMA CommandsType ==
  /\ \A q \in Party, s \in Sid : \A t \in {"InitiateCall", "AcceptCall", "RejectCall", "EndCall"} :
       /\ Command(t, q, s) \in Commands
       /\ Command(t, q, s).type = t /\ Command(t, q, s).with = q /\ Command(t, q, s).sid = s
  /\ \A c \in Commands : c.type \in {"InitiateCall", "AcceptCall", "RejectCall", "EndCall"} =>
       c.with \in Party /\ c.sid \in Sid
  /\ \A t \in {"Connect", "Disconnect"} :
       Command(t, None, None) \in Commands /\ Command(t, None, None).type = t
BY DEF Command, Commands

LEMMA EventsType ==
  /\ \A q \in Party, s \in Sid : \A t \in {"IncomingCall", "CallAccepted", "CallEnded"} :
       /\ Event(t, q, s) \in Events
       /\ Event(t, q, s).type = t /\ Event(t, q, s).with = q /\ Event(t, q, s).sid = s
  /\ \A e \in Events : e.type # "Disconnected" =>
       /\ e.type \in {"IncomingCall", "CallAccepted", "CallEnded"}
       /\ e.with \in Party /\ e.sid \in Sid
  /\ Event("Disconnected", None, None) \in Events
  /\ Event("Disconnected", None, None).type = "Disconnected"
BY DEF Event, Events, CallEvent

LEMMA StanzasType ==
  /\ \A s \in Sid : \A a \in {"session-initiate", "session-accept", "session-terminate"} :
       Stanza(a, s) \in Stanzas /\ Stanza(a, s).action = a /\ Stanza(a, s).sid = s
  /\ \A m \in Stanzas : m = Stanza(m.action, m.sid) /\ m.sid \in Sid
       /\ m.action \in {"session-initiate", "session-accept", "session-terminate"}
BY DEF Stanza, Stanzas

\* What a click may act on.
LEMMA ShownType ==
  ASSUME TypeOK, NEW p \in Party
  PROVE  /\ ui[p].call # None => ui[p].call.with \in Party /\ ui[p].call.sid \in Sid
         /\ ui[p].incoming # None => ui[p].incoming.with \in Party /\ ui[p].incoming.sid \in Sid
         /\ ui[p].call # None => ui[p].call \in Call
         /\ ui[p].incoming # None => ui[p].incoming \in Call
BY DEF TypeOK, Screen, MaybeCall, Call

\* What a party's interface shows after a step of it.
Shows(p, engine, call, incoming) ==
  /\ ui' \in [Party -> Screen]
  /\ ui'[p].engine = engine /\ ui'[p].call = call /\ ui'[p].incoming = incoming
  /\ \A r \in Party : r # p => ui'[r] = ui[r]

LEMMA ScreenAfter ==
  ASSUME TypeOK, NEW p \in Party
  PROVE  /\ \A x \in MaybeCall :
              ui' = [ui EXCEPT ![p].engine = "Active", ![p].call = x]
                => Shows(p, "Active", x, ui[p].incoming)
         /\ ui' = [ui EXCEPT ![p].engine = "Idle", ![p].call = None]
                => Shows(p, "Idle", None, ui[p].incoming)
         /\ \A x \in MaybeCall :
              ui' = [ui EXCEPT ![p].incoming = x] => Shows(p, ui[p].engine, ui[p].call, x)
         /\ \A x \in MaybeCall :
              ui' = [ui EXCEPT ![p] = [engine |-> "Active", call |-> x, incoming |-> None]]
                => Shows(p, "Active", x, None)
         /\ ui' = [ui EXCEPT ![p] = Idle] => Shows(p, "Idle", None, None)
<1>1. ui \in [Party -> Screen] /\ None \in MaybeCall
  BY DEF TypeOK, MaybeCall
<1>2. ASSUME NEW x \in MaybeCall, ui' = [ui EXCEPT ![p].engine = "Active", ![p].call = x]
      PROVE  Shows(p, "Active", x, ui[p].incoming)
  BY <1>1, <1>2 DEF Shows, Screen
<1>3. ASSUME ui' = [ui EXCEPT ![p].engine = "Idle", ![p].call = None]
      PROVE  Shows(p, "Idle", None, ui[p].incoming)
  BY <1>1, <1>3 DEF Shows, Screen
<1>4. ASSUME NEW x \in MaybeCall, ui' = [ui EXCEPT ![p].incoming = x]
      PROVE  Shows(p, ui[p].engine, ui[p].call, x)
  BY <1>1, <1>4 DEF Shows, Screen
<1>5. ASSUME NEW x \in MaybeCall,
             ui' = [ui EXCEPT ![p] = [engine |-> "Active", call |-> x, incoming |-> None]]
      PROVE  Shows(p, "Active", x, None)
  BY <1>1, <1>5 DEF Shows, Screen
<1>6. ASSUME ui' = [ui EXCEPT ![p] = Idle]
      PROVE  Shows(p, "Idle", None, None)
  BY <1>1, <1>6 DEF Shows, Screen, Idle
<1>7. QED
  BY <1>2, <1>3, <1>4, <1>5, <1>6

LEMMA InitType == Init => TypeOK
<1> SUFFICES ASSUME Init PROVE TypeOK
  OBVIOUS
<1>1. ClicksCounted
  <2>1. ASSUME NEW p \in Party
        PROVE  Clicked(p) = {} /\ initiated[p] = 0 /\ started[p] = 0
    BY DEF Init, Clicked
  <2>2. IsFiniteSet({}) /\ Cardinality({}) = 0
    BY FS_EmptySet
  <2>3. ASSUME NEW p \in Party
        PROVE  /\ IsFiniteSet(Clicked(p))
               /\ Cardinality(Clicked(p)) + initiated[p] <= started[p]
    BY <2>1, <2>2
  <2>4. QED
    BY <2>3 DEF ClicksCounted
<1>2. QED
  BY <1>1, CallBounds DEF Init, TypeOK, Idle, Screen, MaybeCall

\* The user: what is on the screen and what it asks of the worker.
LEMMA StartCallType ==
  ASSUME TypeOK, NEW p \in Party, NEW q \in Party, StartCall(p, q)
  PROVE  TypeOK'
<1> DEFINE sid == <<p, started[p] + 1, "ui">>
           c   == Command("InitiateCall", q, sid)
<1>1. sid \in Sid /\ started[p] + 1 \in 0 .. MaxCalls
  BY CallBounds DEF TypeOK, StartCall, Sid, Maker
<1>2. c \in Commands /\ c.type = "InitiateCall"
  BY <1>1, CommandsType
<1>3. cmds' = [cmds EXCEPT ![p] = @ \cup {c}]
  BY DEF StartCall, Perform
<1>4. cmds' \in [Party -> SUBSET Commands]
  BY <1>2, <1>3, PerformType DEF Perform
<1>5. ui' \in [Party -> Screen]
  <2>1. [with |-> q, sid |-> sid] \in MaybeCall
    BY <1>1 DEF Call, MaybeCall
  <2>2. QED
    BY <2>1, ScreenAfter DEF StartCall, Shows
<1>6. started' = [started EXCEPT ![p] = @ + 1] /\ UNCHANGED initiated
  BY DEF StartCall, worker
<1>7. ClicksCounted'
  <2> SUFFICES ASSUME NEW r \in Party
               PROVE  /\ IsFiniteSet(Clicked(r)')
                      /\ Cardinality(Clicked(r)') + initiated[r] <= started'[r]
    BY <1>6 DEF ClicksCounted
  <2>0. IsFiniteSet(Clicked(r)) /\ Cardinality(Clicked(r)) \in Nat
        /\ Cardinality(Clicked(r)) + initiated[r] <= started[r]
    BY FS_CardinalityType DEF TypeOK, ClicksCounted
  <2>1. CASE r = p
    <3> HIDE DEF c
    <3>1. Clicked(r)' = Clicked(r) \cup {c}
      BY <1>2, <1>3, <2>1 DEF TypeOK, Clicked
    <3>2. /\ IsFiniteSet(Clicked(r)')
          /\ Cardinality(Clicked(r)') <= Cardinality(Clicked(r)) + 1
          /\ Cardinality(Clicked(r)') \in Nat
      <4>1. /\ IsFiniteSet(Clicked(r) \cup {c})
            /\ Cardinality(Clicked(r) \cup {c})
                 = IF c \in Clicked(r) THEN Cardinality(Clicked(r)) ELSE Cardinality(Clicked(r)) + 1
        BY <2>0, FS_AddElement
      <4>2. QED
        BY <2>0, <3>1, <4>1
    <3>3. QED
      BY <1>6, <2>0, <2>1, <3>2 DEF TypeOK
  <2>2. CASE r # p
    <3>1. Clicked(r)' = Clicked(r) /\ started'[r] = started[r]
      BY <1>3, <1>6, <2>2 DEF TypeOK, Clicked
    <3>2. QED
      BY <2>0, <3>1
  <2>3. QED
    BY <2>1, <2>2
<1>8. started' \in [Party -> 0 .. MaxCalls]
  BY <1>1, <1>6 DEF TypeOK
<1>9. QED
  BY <1>4, <1>5, <1>7, <1>8 DEF TypeOK, StartCall, worker, network

LEMMA AnswerType ==
  ASSUME TypeOK, NEW p \in Party,
         EndCallClicked(p) \/ AcceptClicked(p) \/ DeclineClicked(p)
  PROVE  TypeOK'
<1>1. \E c \in Commands : c.type # "InitiateCall" /\ Perform(p, c)
  BY ShownType, CommandsType DEF EndCallClicked, AcceptClicked, DeclineClicked
<1>2. cmds' \in [Party -> SUBSET Commands] /\ \A q \in Party : Clicked(q)' \subseteq Clicked(q)
  BY <1>1, PerformType, PerformedNoClick
<1>3. UNCHANGED <<events, worker, network, started, breaks>>
  BY DEF EndCallClicked, AcceptClicked, DeclineClicked
<1>4. ClicksCounted'
  BY <1>2, <1>3, NoClick DEF worker
<1>5. ui' \in [Party -> Screen]
  BY ShownType, ScreenAfter DEF EndCallClicked, AcceptClicked, DeclineClicked, Shows, MaybeCall
<1>6. QED
  BY <1>2, <1>3, <1>4, <1>5 DEF TypeOK, worker, network

LEMMA LogType ==
  ASSUME TypeOK, NEW p \in Party, Login(p) \/ Logout(p)
  PROVE  TypeOK'
<1>1. \E c \in Commands : c.type # "InitiateCall" /\ Perform(p, c)
  BY CommandsType DEF Login, Logout
<1>2. cmds' \in [Party -> SUBSET Commands] /\ \A q \in Party : Clicked(q)' \subseteq Clicked(q)
  BY <1>1, PerformType, PerformedNoClick
<1>3. UNCHANGED <<ui, events, worker, network, started>> /\ breaks' \in Nat
  BY DEF Login, Logout, TypeOK
<1>4. ClicksCounted'
  BY <1>2, <1>3, NoClick DEF worker
<1>5. QED
  BY <1>2, <1>3, <1>4 DEF TypeOK, worker, network

\* The screen after a click on the call button.
LEMMA StartCallShows ==
  ASSUME TypeOK, NEW p \in Party, NEW q \in Party, StartCall(p, q)
  PROVE  /\ <<p, started[p] + 1, "ui">> \in Sid
         /\ Shows(p, "Active", [with |-> q, sid |-> <<p, started[p] + 1, "ui">>], ui[p].incoming)
<1> DEFINE sid == <<p, started[p] + 1, "ui">>
<1>1. sid \in Sid
  BY CallBounds DEF TypeOK, StartCall, Sid, Maker
<1>2. [with |-> q, sid |-> sid] \in MaybeCall
  BY <1>1 DEF Call, MaybeCall
<1>3. QED
  BY <1>1, <1>2, ScreenAfter DEF StartCall

\* The next event.
LEMMA NextEvent ==
  ASSUME TypeOK, NEW p \in Party, events[p] # <<>>
  PROVE  /\ Head(events[p]) \in Events /\ Head(events[p]) = events[p][1]
         /\ 1 \in DOMAIN events[p]
         /\ Tail(events[p]) \in Seq(Events)
BY Shortened DEF TypeOK

LEMMA HandleEventType ==
  ASSUME TypeOK, NEW p \in Party, HandleEvent(p)
  PROVE  TypeOK'
<1> DEFINE e == Head(events[p])
<1>1. e \in Events /\ Tail(events[p]) \in Seq(Events)
  BY NextEvent DEF HandleEvent
<1>2. events' \in [Party -> Seq(Events)]
  BY <1>1 DEF HandleEvent, TypeOK
<1>3. UNCHANGED <<worker, network, started, breaks>>
  BY DEF HandleEvent
<1>4. /\ ui' \in [Party -> Screen]
      /\ cmds' \in [Party -> SUBSET Commands]
      /\ \A q \in Party : Clicked(q)' \subseteq Clicked(q)
  <2>1. CASE OnCallEnded(p, e)
    BY <2>1, ScreenAfter DEF OnCallEnded, TypeOK, Shows, Clicked
  <2>2. CASE OnCallAccepted(p, e)
    <3>1. [with |-> e.with, sid |-> e.sid] \in MaybeCall
      BY <1>1, <2>2, EventsType DEF OnCallAccepted, Call, MaybeCall
    <3>2. QED
      BY <2>2, <3>1, ScreenAfter DEF OnCallAccepted, TypeOK, Shows, Clicked
  <2>3. CASE OnIncomingCall(p, e)
    <3>1. e.with \in Party /\ e.sid \in Sid
      BY <1>1, <2>3, EventsType DEF OnIncomingCall
    <3>2. CASE ui[p].engine = "Active"
      <4>1. /\ Command("RejectCall", e.with, e.sid) \in Commands
            /\ Command("RejectCall", e.with, e.sid).type # "InitiateCall"
        BY <3>1, CommandsType
      <4>2. Perform(p, Command("RejectCall", e.with, e.sid)) /\ UNCHANGED ui
        BY <2>3, <3>2 DEF OnIncomingCall
      <4>3. QED
        BY <4>1, <4>2, PerformType, PerformedNoClick DEF TypeOK
    <3>3. CASE ui[p].engine # "Active"
      <4>1. [with |-> e.with, sid |-> e.sid] \in MaybeCall
        BY <3>1 DEF Call, MaybeCall
      <4>2. QED
        BY <2>3, <3>3, <4>1, ScreenAfter DEF OnIncomingCall, TypeOK, Shows, Clicked
    <3>4. QED
      BY <3>2, <3>3
  <2>4. QED
    BY <2>1, <2>2, <2>3 DEF HandleEvent
<1>5. ClicksCounted'
  BY <1>3, <1>4, NoClick DEF worker
<1>6. QED
  BY <1>2, <1>3, <1>4, <1>5 DEF TypeOK, worker, network

-----------------------------------------------------------------------------
\* The worker's commands

LEMMA TakeType ==
  ASSUME TypeOK, NEW p \in Party, NEW c, NEW type, Take(p, c, type)
  PROVE  /\ c \in Commands /\ c.type = type
         /\ cmds' \in [Party -> SUBSET Commands]
         /\ \A q \in Party : Clicked(q)' \subseteq Clicked(q)
<1>1. c \in Commands /\ c.type = type
  BY DEF Take, TypeOK
<1>2. cmds' = [cmds EXCEPT ![p] = @ \ {c}]
  BY DEF Take
<1>3. QED
  BY <1>1, <1>2, TakenType

\* There is an id left for every click.
LEMMA IdLeft ==
  ASSUME TypeOK, NEW p \in Party, NEW c, InitiateCall(p, c)
  PROVE  /\ <<p, initiated[p] + 1, "worker">> \in Sid
         /\ ClicksCounted'
<1>1. /\ IsFiniteSet(Clicked(p)) /\ Cardinality(Clicked(p)) \in Nat
      /\ Cardinality(Clicked(p)) + initiated[p] <= started[p]
      /\ started[p] \in 0 .. MaxCalls /\ initiated[p] \in Nat
  BY FS_CardinalityType DEF TypeOK, ClicksCounted
<1>2. c \in Clicked(p) /\ cmds' = [cmds EXCEPT ![p] = @ \ {c}]
  BY DEF InitiateCall, Take, Clicked
<1>3. /\ IsFiniteSet(Clicked(p) \ {c})
      /\ Cardinality(Clicked(p) \ {c}) = Cardinality(Clicked(p)) - 1
      /\ Cardinality(Clicked(p) \ {c}) \in Nat
  BY <1>1, <1>2, FS_RemoveElement, FS_CardinalityType
<1>4. <<p, initiated[p] + 1, "worker">> \in Sid
  BY <1>1, <1>3, CallBounds DEF Sid, Maker
<1>5. initiated' = [initiated EXCEPT ![p] = @ + 1] /\ UNCHANGED started
  BY DEF InitiateCall
<1>6. ClicksCounted'
  <2> SUFFICES ASSUME NEW r \in Party
               PROVE  /\ IsFiniteSet(Clicked(r)')
                      /\ Cardinality(Clicked(r)') + initiated'[r] <= started[r]
    BY <1>5 DEF ClicksCounted
  <2>1. CASE r = p
    <3>1. Clicked(r)' = Clicked(p) \ {c}
      BY <1>2, <2>1 DEF TypeOK, Clicked
    <3>2. initiated'[r] = initiated[p] + 1
      BY <1>5, <2>1 DEF TypeOK
    <3>3. QED
      BY <1>1, <1>3, <2>1, <3>1, <3>2
  <2>2. CASE r # p
    <3>1. Clicked(r)' = Clicked(r) /\ initiated'[r] = initiated[r]
      BY <1>2, <1>5, <2>2 DEF TypeOK, Clicked
    <3>2. QED
      BY <3>1 DEF TypeOK, ClicksCounted
  <2>3. QED
    BY <2>1, <2>2
<1>7. QED
  BY <1>4, <1>6

LEMMA InitiateCallType ==
  ASSUME TypeOK, NEW p \in Party, NEW c, InitiateCall(p, c)
  PROVE  TypeOK'
<1> DEFINE sid == <<p, initiated[p] + 1, "worker">>
<1>1. sid \in Sid /\ ClicksCounted'
  BY IdLeft
<1>2. c.with \in Party /\ cmds' \in [Party -> SUBSET Commands]
  BY TakeType, CommandsType DEF InitiateCall
<1>3. /\ jingle' \in [Party -> [Sid -> Session \cup {None}]]
      /\ held' \in [Party -> SUBSET Sid]
  BY <1>1, <1>2, OpenType DEF InitiateCall
<1>4. wire' \in [Party -> [Party -> Seq(Stanzas)]]
  BY <1>1, <1>2, SendType, StanzasType DEF InitiateCall
<1>5. initiated' \in [Party -> Nat]
  BY DEF InitiateCall, TypeOK
<1>6. QED
  BY <1>1, <1>2, <1>3, <1>4, <1>5 DEF TypeOK, InitiateCall

\* The three commands about a session.
LEMMA SessionCommandType ==
  ASSUME TypeOK, NEW p \in Party, NEW c,
         AcceptCall(p, c) \/ RejectCall(p, c) \/ EndCall(p, c)
  PROVE  TypeOK'
<1>1. /\ c \in Commands /\ c.type \in {"AcceptCall", "RejectCall", "EndCall"}
      /\ cmds' \in [Party -> SUBSET Commands]
      /\ \A q \in Party : Clicked(q)' \subseteq Clicked(q)
  BY TakeType DEF AcceptCall, RejectCall, EndCall
<1>2. c.with \in Party /\ c.sid \in Sid
  BY <1>1, CommandsType
<1>3. jingle' \in [Party -> [Sid -> Session \cup {None}]]
  BY <1>2, ActivateType, RemoveType DEF AcceptCall, RejectCall, EndCall, SessionWith
<1>4. wire' \in [Party -> [Party -> Seq(Stanzas)]]
  BY <1>2, SendType, StanzasType DEF AcceptCall, RejectCall, EndCall
<1>5. events' \in [Party -> Seq(Events)]
  BY <1>2, TellType, EventsType DEF AcceptCall, RejectCall, EndCall
<1>6. UNCHANGED <<ui, client, healthy, started, initiated, breaks, duplicates, held>>
  BY DEF AcceptCall, RejectCall, EndCall
<1>7. ClicksCounted'
  BY <1>1, <1>6, NoClick
<1>8. QED
  BY <1>1, <1>3, <1>4, <1>5, <1>6, <1>7 DEF TypeOK

LEMMA OtherCommandType ==
  ASSUME TypeOK, NEW p \in Party, NEW c,
         IgnoreCommand(p, c) \/ Connect(p, c) \/ Disconnect(p, c)
  PROVE  TypeOK'
<1>1. cmds' = [cmds EXCEPT ![p] = @ \ {c}]
  BY DEF IgnoreCommand, Connect, Disconnect, Take
<1>2. /\ cmds' \in [Party -> SUBSET Commands]
      /\ \A q \in Party : Clicked(q)' \subseteq Clicked(q)
  BY <1>1, TakenType
<1>3. UNCHANGED <<ui, jingle, wire, started, initiated, breaks, duplicates, held>>
  BY DEF IgnoreCommand, Connect, Disconnect, worker, network
<1>4. events' \in [Party -> Seq(Events)]
  BY TellType, EventsType DEF TypeOK, IgnoreCommand, Connect, Disconnect
<1>5. client' \in [Party -> {"none", "connecting", "online"}] /\ healthy' \in [Party -> BOOLEAN]
  BY DEF TypeOK, IgnoreCommand, Connect, Disconnect, worker
<1>6. ClicksCounted'
  BY <1>2, <1>3, NoClick
<1>7. QED
  BY <1>2, <1>3, <1>4, <1>5, <1>6 DEF TypeOK

-----------------------------------------------------------------------------
\* Requests and connections

\* The next request.
LEMMA NextRequest ==
  ASSUME TypeOK, NEW p \in Party, NEW q \in Party, wire[p][q] # <<>>
  PROVE  /\ Head(wire[p][q]) \in Stanzas /\ Head(wire[p][q]) = wire[p][q][1]
         /\ 1 \in DOMAIN wire[p][q]
         /\ Tail(wire[p][q]) \in Seq(Stanzas)
         /\ SubSeq(wire[p][q], 1, Len(wire[p][q]) - 1) \in Seq(Stanzas)
<1>1. wire[p][q] \in Seq(Stanzas)
  BY DEF TypeOK
<1>2. QED
  BY <1>1, Shortened, Cut

LEMMA WireShorterType ==
  ASSUME TypeOK, NEW p \in Party, NEW q \in Party, NEW t \in Seq(Stanzas),
         wire' = [wire EXCEPT ![p][q] = t]
  PROVE  wire' \in [Party -> [Party -> Seq(Stanzas)]]
BY DEF TypeOK

LEMMA HandleRequestType ==
  ASSUME TypeOK, NEW p \in Party, NEW q \in Party, NEW m \in Stanzas, HandleRequest(p, q, m)
  PROVE  /\ jingle' \in [Party -> [Sid -> Session \cup {None}]]
         /\ held' \in [Party -> SUBSET Sid]
         /\ events' \in [Party -> Seq(Events)]
<1>1. m.sid \in Sid
  BY StanzasType
<1>2. CASE OnSessionInitiate(p, q, m)
  <2>1. CASE jingle[p][m.sid] # None /\ ~SessionWith(p, m.sid, q)
    BY <1>2, <2>1 DEF OnSessionInitiate, TypeOK
  <2>2. CASE ~(jingle[p][m.sid] # None /\ ~SessionWith(p, m.sid, q))
    <3>1. Open(p, m.sid, q, "PendingIncoming") /\ Tell(p, Event("IncomingCall", q, m.sid))
      BY <1>2, <2>2 DEF OnSessionInitiate
    <3>2. QED
      BY <1>1, <3>1, OpenType, TellType, EventsType
  <2>3. QED
    BY <2>1, <2>2
<1>3. CASE OnSessionAccept(p, q, m)
  <2>1. CASE SessionWith(p, m.sid, q) /\ jingle[p][m.sid].state = "PendingOutgoing"
    <3>1. Activate(p, m.sid) /\ Tell(p, Event("CallAccepted", q, m.sid)) /\ UNCHANGED held
      BY <1>3, <2>1 DEF OnSessionAccept
    <3>2. jingle' \in [Party -> [Sid -> Session \cup {None}]]
      BY <1>1, <2>1, <3>1, ActivateType DEF SessionWith
    <3>3. events' \in [Party -> Seq(Events)]
      BY <1>1, <3>1, TellType, EventsType
    <3>4. QED
      BY <3>1, <3>2, <3>3 DEF TypeOK
  <2>2. CASE ~(SessionWith(p, m.sid, q) /\ jingle[p][m.sid].state = "PendingOutgoing")
    BY <1>3, <2>2 DEF OnSessionAccept, TypeOK
  <2>3. QED
    BY <2>1, <2>2
<1>4. CASE OnSessionTerminate(p, q, m)
  BY <1>1, <1>4, RemoveType, TellType, EventsType DEF OnSessionTerminate, TypeOK
<1>5. QED
  BY <1>2, <1>3, <1>4 DEF HandleRequest

LEMMA RequestType ==
  ASSUME TypeOK, NEW p \in Party, NEW q \in Party, Deliver(p, q) \/ Duplicate(p, q)
  PROVE  TypeOK'
<1> DEFINE m == Head(wire[q][p])
<1>1. m \in Stanzas /\ Tail(wire[q][p]) \in Seq(Stanzas)
  BY NextRequest DEF Deliver, Duplicate
<1>2. HandleRequest(p, q, m)
  BY DEF Deliver, Duplicate
<1>3. /\ jingle' \in [Party -> [Sid -> Session \cup {None}]]
      /\ held' \in [Party -> SUBSET Sid]
      /\ events' \in [Party -> Seq(Events)]
  BY <1>1, <1>2, HandleRequestType
<1>4. wire' \in [Party -> [Party -> Seq(Stanzas)]] /\ duplicates' \in Nat
  <2>1. wire' = [wire EXCEPT ![q][p] = Tail(@)] \/ UNCHANGED wire
    BY DEF Deliver, Duplicate
  <2>2. duplicates' = duplicates \/ duplicates' = duplicates + 1
    BY DEF Deliver, Duplicate
  <2>3. wire' = [wire EXCEPT ![q][p] = Tail(wire[q][p])] \/ UNCHANGED wire
    BY <2>1
  <2>4. wire' \in [Party -> [Party -> Seq(Stanzas)]]
    <3>1. CASE wire' = [wire EXCEPT ![q][p] = Tail(wire[q][p])]
      BY <1>1, <3>1, WireShorterType
    <3>2. CASE UNCHANGED wire
      BY <3>2 DEF TypeOK
    <3>3. QED
      BY <2>3, <3>1, <3>2
  <2>5. QED
    BY <2>2, <2>4 DEF TypeOK
<1>5. UNCHANGED <<ui, cmds, client, healthy, started, initiated, breaks>>
  BY <1>2 DEF HandleRequest
<1>6. ClicksCounted'
  BY <1>5, NoClick DEF Clicked
<1>7. QED
  BY <1>3, <1>4, <1>5, <1>6 DEF TypeOK

LEMMA ConnectionType ==
  ASSUME TypeOK, NEW p \in Party,
         \/ Online(p) \/ SendFails(p) \/ StreamLost(p)
         \/ \E q \in Party : Bounce(p, q) \/ LoseTail(p, q)
  PROVE  TypeOK'
<1>1. UNCHANGED <<ui, cmds, started, initiated, duplicates, held>>
  BY DEF Online, SendFails, StreamLost, Bounce, LoseTail, worker, network
<1>2. ClicksCounted'
  BY <1>1, NoClick DEF Clicked
<1>3. wire' \in [Party -> [Party -> Seq(Stanzas)]]
  <2>1. CASE Online(p) \/ SendFails(p) \/ StreamLost(p)
    BY <2>1 DEF Online, SendFails, StreamLost, network, TypeOK
  <2>2. ASSUME NEW q \in Party, Bounce(p, q)
        PROVE  wire' \in [Party -> [Party -> Seq(Stanzas)]]
    BY <2>2, NextRequest, WireShorterType DEF Bounce
  <2>3. ASSUME NEW q \in Party, LoseTail(p, q)
        PROVE  wire' \in [Party -> [Party -> Seq(Stanzas)]]
    BY <2>3, NextRequest, WireShorterType DEF LoseTail
  <2>4. QED
    BY <2>1, <2>2, <2>3
<1>4. events' \in [Party -> Seq(Events)]
  <2>1. UNCHANGED events \/ Tell(p, Event("Disconnected", None, None))
    BY DEF Online, SendFails, StreamLost, Bounce, LoseTail
  <2>2. QED
    BY <2>1, TellType, EventsType DEF TypeOK
<1>5. jingle' \in [Party -> [Sid -> Session \cup {None}]]
  <2>1. UNCHANGED jingle \/ jingle' = [jingle EXCEPT ![p] = [s \in Sid |-> None]]
    BY DEF Online, SendFails, StreamLost, Bounce, LoseTail, worker
  <2>2. [s \in Sid |-> None] \in [Sid -> Session \cup {None}]
    OBVIOUS
  <2>3. jingle \in [Party -> [Sid -> Session \cup {None}]]
    BY DEF TypeOK
  <2>4. QED
    BY <2>1, <2>2, <2>3
<1>6. /\ client' \in [Party -> {"none", "connecting", "online"}]
      /\ healthy' \in [Party -> BOOLEAN] /\ breaks' \in Nat
  <2>1. /\ client \in [Party -> {"none", "connecting", "online"}]
        /\ healthy \in [Party -> BOOLEAN] /\ breaks \in Nat
    BY DEF TypeOK
  <2>2. CASE Online(p)
    BY <2>1, <2>2 DEF Online
  <2>3. CASE SendFails(p)
    BY <2>1, <2>3 DEF SendFails
  <2>4. CASE StreamLost(p)
    BY <2>1, <2>4 DEF StreamLost
  <2>5. CASE \E q \in Party : Bounce(p, q) \/ LoseTail(p, q)
    BY <2>1, <2>5 DEF Bounce, LoseTail, worker
  <2>6. QED
    BY <2>2, <2>3, <2>4, <2>5, <2>1
<1>7. QED
  BY <1>1, <1>2, <1>3, <1>4, <1>5, <1>6 DEF TypeOK

\* The steps, in the groups that the lemmas treat together.
LEMMA Steps ==
  ASSUME Next
  PROVE  \E p \in Party :
    \/ \E q \in Party : StartCall(p, q)
    \/ EndCallClicked(p) \/ AcceptClicked(p) \/ DeclineClicked(p)
    \/ Login(p) \/ Logout(p)
    \/ HandleEvent(p)
    \/ \E c : InitiateCall(p, c)
    \/ \E c : AcceptCall(p, c) \/ RejectCall(p, c) \/ EndCall(p, c)
    \/ \E c : IgnoreCommand(p, c) \/ Connect(p, c) \/ Disconnect(p, c)
    \/ \E q \in Party : Deliver(p, q) \/ Duplicate(p, q)
    \/ Online(p) \/ SendFails(p) \/ StreamLost(p)
    \/ \E q \in Party : Bounce(p, q) \/ LoseTail(p, q)
BY DEF Next, Serve

LEMMA NextType == TypeOK /\ [Next]_vars => TypeOK'
<1> SUFFICES ASSUME TypeOK, [Next]_vars PROVE TypeOK'
  OBVIOUS
<1>1. CASE Next
  BY <1>1, Steps, StartCallType, AnswerType, LogType, HandleEventType, InitiateCallType,
     SessionCommandType, OtherCommandType, RequestType, ConnectionType
<1>2. CASE UNCHANGED vars
  BY <1>2 DEF vars, TypeOK, ClicksCounted, Clicked
<1>3. QED
  BY <1>1, <1>2

\* The sessions, commands, events and requests keep their shape; in particular
\* a worker never makes more ids than its user has clicked for (InitiateCall).
THEOREM TypeCorrect == Spec => []TypeOK
BY InitType, NextType, PTL DEF Spec

-----------------------------------------------------------------------------
\* What a step does to a queue of requests or of events, element by element.

LEMMA SidParts ==
  ASSUME NEW s \in Sid
  PROVE  s[1] \in Party /\ s[2] \in 1 .. MaxCalls /\ s[3] \in Maker /\ s = <<s[1], s[2], s[3]>>
BY DEF Sid

LEMMA Elements ==
  ASSUME TypeOK
  PROVE  /\ \A x, y \in Party : \A i \in DOMAIN wire[x][y] : wire[x][y][i] \in Stanzas /\ i \in Nat
         /\ \A x \in Party : \A i \in DOMAIN events[x] : events[x][i] \in Events /\ i \in Nat
<1>1. ASSUME NEW S, NEW s \in Seq(S), NEW i \in DOMAIN s
      PROVE  s[i] \in S /\ i \in Nat
  OBVIOUS
<1>2. \A x, y \in Party : wire[x][y] \in Seq(Stanzas)
  BY DEF TypeOK
<1>3. \A x \in Party : events[x] \in Seq(Events)
  BY DEF TypeOK
<1>4. QED
  BY <1>1, <1>2, <1>3

Grown(s, t, e) ==
  /\ DOMAIN s \subseteq Nat /\ DOMAIN t \subseteq Nat
  /\ \A i \in DOMAIN t : i > 0
  /\ \A i \in DOMAIN s : i \in DOMAIN t /\ t[i] = s[i]
  /\ \A i \in DOMAIN t : i \notin DOMAIN s => t[i] = e /\ \A j \in DOMAIN t : i # j => j < i
  /\ \E i \in DOMAIN t : i \notin DOMAIN s /\ t[i] = e

Shifted(s, t) ==
  /\ DOMAIN s \subseteq Nat /\ DOMAIN t \subseteq Nat
  /\ 1 \in DOMAIN s
  /\ \A i \in DOMAIN s : i > 0
  /\ \A i \in DOMAIN t : i > 0
  /\ \A i \in DOMAIN t : i + 1 \in DOMAIN s /\ t[i] = s[i + 1]
  /\ \A i \in DOMAIN s : i # 1 => i - 1 \in DOMAIN t /\ t[i - 1] = s[i]

\* A queue after one more element and after one less.
LEMMA AppendGrown ==
  ASSUME NEW S, NEW s \in Seq(S), NEW e \in S
  PROVE  Grown(s, Append(s, e), e)
<1> DEFINE t == Append(s, e)
<1>1. /\ Len(s) \in Nat /\ DOMAIN s = 1 .. Len(s) /\ DOMAIN t = 1 .. Len(s) + 1
      /\ \A i \in 1 .. Len(s) : t[i] = s[i]
      /\ t[Len(s) + 1] = e
  BY Appended
<1> HIDE DEF t
<1>2. QED
  BY <1>1 DEF Grown, t

LEMMA TailShifted ==
  ASSUME NEW S, NEW s \in Seq(S), s # <<>>
  PROVE  Shifted(s, Tail(s))
BY Shortened DEF Shifted

LEMMA ShiftedOld ==
  ASSUME NEW s, NEW t, Shifted(s, t)
  PROVE  \A i \in DOMAIN t : \E j \in DOMAIN s : t[i] = s[j]
BY DEF Shifted

LEMMA Sent ==
  ASSUME TypeOK, NEW p \in Party, NEW q \in Party, NEW m \in Stanzas, Send(p, q, m)
  PROVE  /\ healthy[p] => Grown(wire[p][q], wire'[p][q], m)
         /\ ~healthy[p] => UNCHANGED wire
         /\ \A x, y \in Party : x # p \/ y # q => wire'[x][y] = wire[x][y]
<1>1. wire[p][q] \in Seq(Stanzas)
  BY DEF TypeOK
<1>2. Grown(wire[p][q], Append(wire[p][q], m), m)
  BY <1>1, AppendGrown
<1>3. QED
  BY <1>2 DEF Send, TypeOK

LEMMA EventTold ==
  ASSUME TypeOK, NEW p \in Party, NEW e \in Events, Tell(p, e)
  PROVE  /\ Grown(events[p], events'[p], e)
         /\ \A q \in Party : q # p => events'[q] = events[q]
<1>1. events[p] \in Seq(Events)
  BY DEF TypeOK
<1>2. Grown(events[p], Append(events[p], e), e)
  BY <1>1, AppendGrown
<1>3. QED
  BY <1>2 DEF Tell, TypeOK

\* What of the requests and events is new.
NoneSent ==
  \A x, y \in Party : \A i \in DOMAIN wire'[x][y] :
    \E j \in DOMAIN wire[x][y] : wire'[x][y][i] = wire[x][y][j]

NoneTold ==
  \A x \in Party : \A i \in DOMAIN events'[x] :
    \E j \in DOMAIN events[x] : events'[x][i] = events[x][j]

LEMMA Delivered ==
  ASSUME TypeOK, NEW p \in Party, NEW q \in Party, Deliver(p, q)
  PROVE  /\ Shifted(wire[q][p], wire'[q][p])
         /\ \A x, y \in Party : x # q \/ y # p => wire'[x][y] = wire[x][y]
         /\ Head(wire[q][p]) = wire[q][p][1] /\ 1 \in DOMAIN wire[q][p]
         /\ Head(wire[q][p]) \in Stanzas
<1>1. wire[q][p] \in Seq(Stanzas) /\ wire[q][p] # <<>>
  BY DEF TypeOK, Deliver
<1>2. Shifted(wire[q][p], Tail(wire[q][p]))
  BY <1>1, TailShifted
<1>3. wire' = [wire EXCEPT ![q][p] = Tail(@)]
  BY DEF Deliver
<1>4. QED
  BY <1>1, <1>2, <1>3, NextRequest DEF TypeOK

\* Requests that are delivered, returned or lost.
LEMMA WireShrinks ==
  ASSUME TypeOK, NEW p \in Party, NEW q \in Party,
         Deliver(p, q) \/ Duplicate(p, q) \/ Bounce(p, q) \/ LoseTail(p, q)
  PROVE  NoneSent
<1>1. CASE Duplicate(p, q)
  BY <1>1 DEF Duplicate, NoneSent
<1>2. CASE Deliver(p, q) \/ Bounce(p, q)
  <2>1. wire[q][p] \in Seq(Stanzas) /\ wire[q][p] # <<>>
    BY <1>2 DEF TypeOK, Deliver, Bounce
  <2>2. Shifted(wire[q][p], Tail(wire[q][p]))
    BY <2>1, TailShifted
  <2>3. wire' = [wire EXCEPT ![q][p] = Tail(@)]
    BY <1>2 DEF Deliver, Bounce
  <2>4. /\ wire'[q][p] = Tail(wire[q][p])
        /\ \A x, y \in Party : x # q \/ y # p => wire'[x][y] = wire[x][y]
    BY <2>3 DEF TypeOK
  <2>5. QED
    BY <2>2, <2>4, ShiftedOld DEF NoneSent
<1>3. CASE LoseTail(p, q)
  <2>1. wire[p][q] \in Seq(Stanzas) /\ wire[p][q] # <<>>
    BY <1>3 DEF TypeOK, LoseTail
  <2> DEFINE t == SubSeq(wire[p][q], 1, Len(wire[p][q]) - 1)
  <2>2. \A i \in DOMAIN t : i \in DOMAIN wire[p][q] /\ t[i] = wire[p][q][i]
    BY <2>1, Cut
  <2>3. wire' = [wire EXCEPT ![p][q] = t]
    BY <1>3 DEF LoseTail
  <2>4. /\ wire'[p][q] = t
        /\ \A x, y \in Party : x # p \/ y # q => wire'[x][y] = wire[x][y]
    BY <2>3 DEF TypeOK
  <2>5. QED
    BY <2>2, <2>4 DEF NoneSent
<1>4. QED
  BY <1>1, <1>2, <1>3

LEMMA EventHandled ==
  ASSUME TypeOK, NEW p \in Party, HandleEvent(p)
  PROVE  /\ Shifted(events[p], events'[p])
         /\ \A x \in Party : x # p => events'[x] = events[x]
         /\ Head(events[p]) = events[p][1] /\ 1 \in DOMAIN events[p]
         /\ Head(events[p]) \in Events
         /\ NoneTold
<1>1. events[p] \in Seq(Events) /\ events[p] # <<>>
  BY DEF TypeOK, HandleEvent
<1>2. Shifted(events[p], Tail(events[p]))
  BY <1>1, TailShifted
<1>3. events' = [events EXCEPT ![p] = Tail(@)]
  BY DEF HandleEvent
<1>4. events'[p] = Tail(events[p]) /\ \A x \in Party : x # p => events'[x] = events[x]
  BY <1>3 DEF TypeOK
<1>5. NoneTold
  BY <1>2, <1>4, ShiftedOld DEF NoneTold
<1>6. QED
  BY <1>1, <1>2, <1>4, <1>5, NextEvent

-----------------------------------------------------------------------------
\* Who may have and say what of a session: each part is kept by steps that add
\* nothing to what it reads, and by one addition of the right sides.

HeldGrows == \A p \in Party : held[p] \subseteq held'[p]

MoreIds == \A p \in Party : initiated[p] <= initiated'[p]

\* Each part of SidInv through the steps that leave it alone or add to it.
LEMMA HeldMadeKept ==
  ASSUME TypeOK, TypeOK', HeldMade, UNCHANGED held, MoreIds
  PROVE  HeldMade'
<1> SUFFICES ASSUME NEW p \in Party, NEW s \in held[p]
             PROVE  s[3] = "worker" /\ s[2] <= initiated'[s[1]]
  BY DEF HeldMade
<1>1. s \in Sid
  BY DEF TypeOK
<1>2. s[1] \in Party /\ s[2] \in Nat
  BY <1>1, SidParts
<1>3. initiated[s[1]] \in Nat /\ initiated'[s[1]] \in Nat
  BY <1>2 DEF TypeOK
<1>4. QED
  BY <1>2, <1>3 DEF HeldMade, MoreIds

LEMMA SessionSidesKept ==
  ASSUME SessionSides, HeldGrows,
         \A p \in Party, s \in Sid : jingle'[p][s] \in {jingle[p][s], None}
  PROVE  SessionSides'
BY DEF SessionSides, HeldGrows

LEMMA WireSidesKept ==
  ASSUME TypeOK, TypeOK', WireSides, NoneSent, MoreIds
  PROVE  WireSides'
<1> SUFFICES ASSUME NEW p \in Party, NEW q \in Party, NEW i \in DOMAIN wire'[p][q]
             PROVE  LET m == wire'[p][q][i]
                    IN  /\ m.sid[3] = "worker" /\ m.sid[2] <= initiated'[m.sid[1]]
                        /\ p # q
                        /\ m.sid[1] \in {p, q}
                        /\ m.action = "session-initiate" => m.sid[1] = p
  BY DEF WireSides
<1>1. PICK j \in DOMAIN wire[p][q] : wire'[p][q][i] = wire[p][q][j]
  BY DEF NoneSent
<1> DEFINE m == wire[p][q][j]
<1>2. m \in Stanzas
  BY Elements
<1>3. m.sid[1] \in Party /\ m.sid[2] \in Nat
  BY <1>2, StanzasType, SidParts
<1>4. initiated[m.sid[1]] \in Nat /\ initiated'[m.sid[1]] \in Nat
  BY <1>3 DEF TypeOK
<1>5. QED
  BY <1>1, <1>3, <1>4 DEF WireSides, MoreIds

LEMMA WireSidesSent ==
  ASSUME TypeOK, TypeOK', WireSides, MoreIds,
         NEW p \in Party, NEW q \in Party, NEW m \in Stanzas, Send(p, q, m),
         m.sid[3] = "worker", m.sid[2] <= initiated'[m.sid[1]], p # q, m.sid[1] \in {p, q},
         m.action = "session-initiate" => m.sid[1] = p
  PROVE  WireSides'
<1>1. CASE ~healthy[p]
  <2>1. NoneSent
    BY <1>1, Sent DEF NoneSent
  <2>2. QED
    BY <2>1, WireSidesKept
<1>2. CASE healthy[p]
  <2> SUFFICES ASSUME NEW x \in Party, NEW y \in Party, NEW i \in DOMAIN wire'[x][y]
               PROVE  LET n == wire'[x][y][i]
                      IN  /\ n.sid[3] = "worker" /\ n.sid[2] <= initiated'[n.sid[1]]
                          /\ x # y
                          /\ n.sid[1] \in {x, y}
                          /\ n.action = "session-initiate" => n.sid[1] = x
    BY DEF WireSides
  <2>1. \/ i \in DOMAIN wire[x][y] /\ wire'[x][y][i] = wire[x][y][i]
        \/ x = p /\ y = q /\ wire'[x][y][i] = m
    BY <1>2, Sent DEF Grown
  <2>2. CASE i \in DOMAIN wire[x][y] /\ wire'[x][y][i] = wire[x][y][i]
    <3> DEFINE n == wire[x][y][i]
    <3>1. n \in Stanzas
      BY <2>2, Elements
    <3>2. n.sid[1] \in Party /\ n.sid[2] \in Nat
      BY <3>1, StanzasType, SidParts
    <3>3. initiated[n.sid[1]] \in Nat /\ initiated'[n.sid[1]] \in Nat
      BY <3>2 DEF TypeOK
    <3>4. QED
      BY <2>2, <3>2, <3>3 DEF WireSides, MoreIds
  <2>3. QED
    BY <2>1, <2>2
<1>3. QED
  BY <1>1, <1>2 DEF TypeOK

LEMMA CommandSidesKept ==
  ASSUME CommandSides, HeldGrows, \A p \in Party : cmds'[p] \subseteq cmds[p]
  PROVE  CommandSides'
BY DEF CommandSides, HeldGrows, Incomes

LEMMA CommandSidesAdded ==
  ASSUME TypeOK, CommandSides, UNCHANGED held, NEW p \in Party, NEW c, Perform(p, c),
         c.type = "InitiateCall" => c.with # p,
         c.type \in {"AcceptCall", "RejectCall"} => Incomes(p, c)
  PROVE  CommandSides'
<1>1. \A q \in Party : cmds'[q] \subseteq cmds[q] \cup (IF q = p THEN {c} ELSE {})
  BY DEF TypeOK, Perform
<1>2. QED
  BY <1>1 DEF CommandSides, Incomes

LEMMA ScreenSidesKept ==
  ASSUME ScreenSides, HeldGrows, NoneTold,
         \A p \in Party : ui'[p].incoming \in {ui[p].incoming, None}
  PROVE  ScreenSides'
<1> SUFFICES ASSUME NEW p \in Party
             PROVE  /\ ui'[p].incoming # None => Incomes(p, ui[p].incoming)'
                    /\ \A i \in DOMAIN events'[p] :
                         /\ events'[p][i].type = "IncomingCall" => Incomes(p, events[p][i])'
                         /\ events'[p][i].type = "CallAccepted" => events'[p][i].sid \in held'[p]
  BY DEF ScreenSides
<1>1. ui'[p].incoming # None => Incomes(p, ui[p].incoming)'
  BY DEF ScreenSides, HeldGrows, Incomes
<1>2. ASSUME NEW i \in DOMAIN events'[p]
      PROVE  /\ events'[p][i].type = "IncomingCall" => Incomes(p, events[p][i])'
             /\ events'[p][i].type = "CallAccepted" => events'[p][i].sid \in held'[p]
  <2>1. PICK j \in DOMAIN events[p] : events'[p][i] = events[p][j]
    BY <1>2 DEF NoneTold
  <2>2. /\ events[p][j].type = "IncomingCall" => Incomes(p, events[p][j])
        /\ events[p][j].type = "CallAccepted" => events[p][j].sid \in held[p]
    BY DEF ScreenSides
  <2>3. QED
    BY <2>1, <2>2 DEF HeldGrows, Incomes
<1>3. QED
  BY <1>1, <1>2

LEMMA ScreenSidesTold ==
  ASSUME TypeOK, ScreenSides, HeldGrows, UNCHANGED ui,
         NEW p \in Party, NEW e \in Events, Tell(p, e),
         e.type = "IncomingCall" => e.sid \in held'[p] /\ e.sid[1] = e.with /\ e.with # p,
         e.type = "CallAccepted" => e.sid \in held'[p]
  PROVE  ScreenSides'
<1> SUFFICES ASSUME NEW x \in Party, NEW i \in DOMAIN events'[x]
             PROVE  /\ events'[x][i].type = "IncomingCall" => Incomes(x, events[x][i])'
                    /\ events'[x][i].type = "CallAccepted" => events'[x][i].sid \in held'[x]
  BY DEF ScreenSides, HeldGrows, Incomes
<1>1. \/ i \in DOMAIN events[x] /\ events'[x][i] = events[x][i]
      \/ x = p /\ events'[x][i] = e
  BY EventTold DEF Grown
<1>2. CASE i \in DOMAIN events[x] /\ events'[x][i] = events[x][i]
  <2>1. /\ events[x][i].type = "IncomingCall" => Incomes(x, events[x][i])
        /\ events[x][i].type = "CallAccepted" => events[x][i].sid \in held[x]
    BY <1>2 DEF ScreenSides
  <2>2. QED
    BY <1>2, <2>1 DEF HeldGrows, Incomes
<1>3. CASE x = p /\ events'[x][i] = e
  BY <1>3 DEF Incomes
<1>4. QED
  BY <1>1, <1>2, <1>3

-----------------------------------------------------------------------------
\* The sides of sessions, action by action.

LEMMA WorkerRests ==
  ASSUME TypeOK, TypeOK', HeldMade, SessionSides, WireSides, UNCHANGED <<worker, wire>>
  PROVE  HeldMade' /\ SessionSides' /\ WireSides'
BY DEF worker, HeldMade, SessionSides, WireSides

\* SidInv through the steps of the user, of events, commands and requests.
LEMMA UserSids ==
  ASSUME TypeOK, TypeOK', SidInv, NEW p \in Party,
         \/ \E q \in Party : StartCall(p, q)
         \/ EndCallClicked(p) \/ AcceptClicked(p) \/ DeclineClicked(p)
         \/ Login(p) \/ Logout(p)
  PROVE  SidInv'
<1>1. UNCHANGED <<worker, wire, events>>
  BY DEF StartCall, EndCallClicked, AcceptClicked, DeclineClicked, Login, Logout, network
<1>2. HeldMade' /\ SessionSides' /\ WireSides'
  BY <1>1, WorkerRests DEF SidInv
<1>3. \A x \in Party : ui'[x].incoming \in {ui[x].incoming, None}
  <2>1. CASE \E q \in Party : StartCall(p, q)
    <3>1. PICK q \in Party : StartCall(p, q)
      BY <2>1
    <3>2. QED
      BY <3>1, StartCallShows DEF Shows
  <2>2. CASE EndCallClicked(p) \/ AcceptClicked(p) \/ DeclineClicked(p)
    BY <2>2, ShownType, ScreenAfter
       DEF EndCallClicked, AcceptClicked, DeclineClicked, Shows, MaybeCall
  <2>3. CASE Login(p) \/ Logout(p)
    BY <2>3 DEF Login, Logout
  <2>4. QED
    BY <2>1, <2>2, <2>3
<1>4. ScreenSides'
  <2>1. HeldGrows /\ NoneTold
    BY <1>1 DEF HeldGrows, NoneTold, worker
  <2>2. QED
    BY <1>3, <2>1, ScreenSidesKept DEF SidInv
<1>5. CommandSides'
  <2>1. UNCHANGED held
    BY <1>1 DEF worker
  <2>2. \E c : /\ Perform(p, c)
               /\ c.type = "InitiateCall" => c.with # p
               /\ c.type \in {"AcceptCall", "RejectCall"} => Incomes(p, c)
    <3>1. CASE \E q \in Party : StartCall(p, q)
      BY <3>1 DEF StartCall, Command
    <3>2. CASE EndCallClicked(p)
      BY <3>2 DEF EndCallClicked, Command
    <3>3. CASE AcceptClicked(p)
      BY <3>3 DEF AcceptClicked, Command, SidInv, ScreenSides, Incomes
    <3>4. CASE DeclineClicked(p)
      BY <3>4 DEF DeclineClicked, Command, SidInv, ScreenSides, Incomes
    <3>5. CASE Login(p) \/ Logout(p)
      BY <3>5 DEF Login, Logout, Command
    <3>6. QED
      BY <3>1, <3>2, <3>3, <3>4, <3>5
  <2>3. QED
    BY <2>1, <2>2, CommandSidesAdded DEF SidInv
<1>6. QED
  BY <1>2, <1>4, <1>5 DEF SidInv

LEMMA HandleEventSids ==
  ASSUME TypeOK, TypeOK', SidInv, NEW p \in Party, HandleEvent(p)
  PROVE  SidInv'
<1> DEFINE e == Head(events[p])
<1>1. UNCHANGED <<worker, wire>> /\ HeldGrows /\ UNCHANGED held
  BY DEF HandleEvent, network, worker, HeldGrows
<1>2. HeldMade' /\ SessionSides' /\ WireSides'
  BY <1>1, WorkerRests DEF SidInv
<1>3. e = events[p][1] /\ 1 \in DOMAIN events[p] /\ e \in Events /\ NoneTold
  BY EventHandled
<1>4. e.type = "IncomingCall" => e.with \in Party /\ e.sid \in Sid /\ Incomes(p, e)
  BY <1>3, EventsType DEF SidInv, ScreenSides
<1>5. CASE OnCallEnded(p, e)
  <2>1. \A x \in Party : ui'[x].incoming \in {ui[x].incoming, None}
    BY <1>5, ScreenAfter DEF OnCallEnded, Shows
  <2>2. QED
    BY <1>1, <1>2, <1>3, <1>5, <2>1, ScreenSidesKept, CommandSidesKept DEF SidInv, OnCallEnded
<1>6. CASE OnCallAccepted(p, e)
  <2>1. [with |-> e.with, sid |-> e.sid] \in MaybeCall
    BY <1>3, <1>6, EventsType DEF OnCallAccepted, Call, MaybeCall
  <2>2. Shows(p, "Active", [with |-> e.with, sid |-> e.sid], ui[p].incoming)
    BY <1>6, <2>1, ScreenAfter DEF OnCallAccepted
  <2>3. \A x \in Party : ui'[x].incoming \in {ui[x].incoming, None}
    BY <2>2 DEF Shows
  <2>4. QED
    BY <1>1, <1>2, <1>3, <1>6, <2>3, ScreenSidesKept, CommandSidesKept DEF SidInv, OnCallAccepted
<1>7. CASE OnIncomingCall(p, e)
  <2> USE DEF OnIncomingCall
  <2>1. CASE ui[p].engine = "Active"
    <3>1. Perform(p, Command("RejectCall", e.with, e.sid)) /\ UNCHANGED ui
      BY <1>7, <2>1
    <3>2. CommandSides'
      BY <1>1, <1>4, <1>7, <3>1, CommandSidesAdded DEF SidInv, Incomes, Command
    <3>3. QED
      BY <1>1, <1>2, <1>3, <3>1, <3>2, ScreenSidesKept DEF SidInv
  <2>2. CASE ui[p].engine # "Active"
    <3>1. [with |-> e.with, sid |-> e.sid] \in MaybeCall
      BY <1>4, <1>7 DEF Call, MaybeCall
    <3>2. Shows(p, ui[p].engine, ui[p].call, [with |-> e.with, sid |-> e.sid]) /\ UNCHANGED cmds
      BY <1>7, <2>2, <3>1, ScreenAfter
    <3>3. CommandSides'
      BY <1>1, <3>2, CommandSidesKept DEF SidInv
    <3>4. \A x \in Party : ui'[x].incoming # None => Incomes(x, ui[x].incoming)'
      BY <1>1, <1>4, <1>7, <3>2 DEF SidInv, ScreenSides, Incomes, Shows
    <3>5. \A x \in Party : \A i \in DOMAIN events'[x] :
            /\ events'[x][i].type = "IncomingCall" => Incomes(x, events[x][i])'
            /\ events'[x][i].type = "CallAccepted" => events'[x][i].sid \in held'[x]
      BY <1>1, <1>3 DEF SidInv, ScreenSides, Incomes, NoneTold
    <3>6. QED
      BY <1>2, <3>3, <3>4, <3>5 DEF SidInv, ScreenSides
  <2>3. QED
    BY <2>1, <2>2
<1>8. QED
  BY <1>5, <1>6, <1>7 DEF HandleEvent

LEMMA InitiateCallSids ==
  ASSUME TypeOK, TypeOK', SidInv, NEW p \in Party, NEW c, InitiateCall(p, c)
  PROVE  SidInv'
<1> DEFINE sid == <<p, initiated[p] + 1, "worker">>
<1>1. sid \in Sid
  BY IdLeft
<1>2. c \in cmds[p] /\ c.with \in Party /\ c.with # p
  <2>1. c \in cmds[p] /\ c.type = "InitiateCall"
    BY DEF InitiateCall, Take
  <2>2. c \in Commands
    BY <2>1 DEF TypeOK
  <2>3. QED
    BY <2>1, <2>2, CommandsType DEF SidInv, CommandSides
<1>3. initiated' = [initiated EXCEPT ![p] = @ + 1]
  BY DEF InitiateCall
<1>4. MoreIds /\ initiated'[p] = initiated[p] + 1
  <2>1. initiated \in [Party -> Nat]
    BY DEF TypeOK
  <2>2. QED
    BY <1>3, <2>1 DEF MoreIds
<1>5. /\ held' = [held EXCEPT ![p] = @ \cup {sid}]
      /\ Open(p, sid, c.with, "PendingOutgoing")
      /\ Send(p, c.with, Stanza("session-initiate", sid))
      /\ UNCHANGED <<ui, events>>
  BY DEF InitiateCall, Open
<1>6. HeldGrows /\ \A x \in Party : \A s \in held'[x] : s \in held[x] \/ (x = p /\ s = sid)
  BY <1>5 DEF HeldGrows, TypeOK
<1>7. HeldMade'
  <2> SUFFICES ASSUME NEW x \in Party, NEW s \in held'[x]
               PROVE  s[3] = "worker" /\ s[2] <= initiated'[s[1]]
    BY DEF HeldMade
  <2>1. CASE s \in held[x]
    <3>1. s \in Sid
      BY <2>1 DEF TypeOK
    <3>2. s[1] \in Party /\ s[2] \in Nat
      BY <3>1, SidParts
    <3>3. initiated[s[1]] \in Nat /\ initiated'[s[1]] \in Nat
      BY <3>2 DEF TypeOK
    <3>4. QED
      BY <1>4, <2>1, <3>2, <3>3 DEF SidInv, HeldMade, MoreIds
  <2>2. CASE s = sid
    BY <1>4, <2>2 DEF TypeOK
  <2>3. QED
    BY <1>6, <2>1, <2>2
<1>8. SessionSides'
  <2>1. \A x \in Party, s \in Sid : jingle'[x][s] =
          IF x = p /\ s = sid THEN [peer |-> c.with, state |-> "PendingOutgoing"] ELSE jingle[x][s]
    <3> HIDE DEF sid
    <3>1. QED
      BY <1>1, <1>5, Opened
  <2>2. sid \in held'[p] /\ sid[1] = p
    BY <1>5 DEF TypeOK
  <2>3. QED
    BY <1>2, <1>6, <2>1, <2>2 DEF SidInv, SessionSides, HeldGrows
<1>9. WireSides'
  <2> DEFINE m == Stanza("session-initiate", sid)
  <2>1. m \in Stanzas /\ m.sid = sid
    BY <1>1, StanzasType
  <2>2. sid[3] = "worker" /\ sid[2] <= initiated'[sid[1]] /\ sid[1] = p
    BY <1>4 DEF TypeOK
  <2> HIDE DEF m, sid
  <2>3. QED
    BY <1>2, <1>4, <1>5, <2>1, <2>2, WireSidesSent DEF SidInv, m
<1>10. CommandSides'
  <2>1. \A x \in Party : cmds'[x] \subseteq cmds[x]
    BY DEF InitiateCall, Take, TypeOK
  <2>2. QED
    BY <1>6, <2>1, CommandSidesKept DEF SidInv
<1>11. ScreenSides'
  <2>1. NoneTold
    BY <1>5 DEF NoneTold
  <2>2. QED
    BY <1>5, <1>6, <2>1, ScreenSidesKept DEF SidInv
<1>12. QED
  BY <1>7, <1>8, <1>9, <1>10, <1>11 DEF SidInv

LEMMA SessionCommandSids ==
  ASSUME TypeOK, TypeOK', SidInv, NEW p \in Party, NEW c,
         AcceptCall(p, c) \/ RejectCall(p, c) \/ EndCall(p, c)
  PROVE  SidInv'
<1>1. c \in cmds[p] /\ c \in Commands /\ c.type \in {"AcceptCall", "RejectCall", "EndCall"}
      /\ cmds' = [cmds EXCEPT ![p] = @ \ {c}]
  BY TakeType DEF AcceptCall, RejectCall, EndCall, Take
<1>2. c.with \in Party /\ c.sid \in Sid
  BY <1>1, CommandsType
<1>3. UNCHANGED <<ui, held, initiated>>
  BY DEF AcceptCall, RejectCall, EndCall
<1>4. HeldGrows /\ MoreIds
  BY <1>3 DEF HeldGrows, MoreIds, TypeOK
<1>5. HeldMade /\ SessionSides /\ WireSides /\ CommandSides /\ ScreenSides
  BY DEF SidInv
<1>6. c.sid \in held[p] /\ c.sid[1] \in {p, c.with} /\ p # c.with
  <2>1. CASE RejectCall(p, c)
    BY <1>1, <1>5, <2>1 DEF RejectCall, Take, CommandSides, Incomes
  <2>2. CASE AcceptCall(p, c) \/ EndCall(p, c)
    <3>1. jingle[p][c.sid] # None /\ jingle[p][c.sid].peer = c.with
      BY <2>2 DEF AcceptCall, EndCall, SessionWith
    <3>2. QED
      BY <1>2, <1>5, <3>1, <2>2 DEF SessionSides
  <2>3. QED
    BY <2>1, <2>2
<1>7. c.sid[3] = "worker" /\ c.sid[2] <= initiated'[c.sid[1]]
  BY <1>3, <1>5, <1>6 DEF HeldMade
<1>8. HeldMade'
  BY <1>3, <1>4, <1>5, HeldMadeKept
<1>9. SessionSides'
  <2>1. CASE AcceptCall(p, c)
    <3>1. /\ Activate(p, c.sid) /\ jingle[p][c.sid] # None
          /\ jingle[p][c.sid].state = "PendingIncoming"
      BY <2>1 DEF AcceptCall, SessionWith
    <3> DEFINE a == [peer |-> jingle[p][c.sid].peer, state |-> "Active"]
    <3>2. \A r \in Party, t \in Sid : jingle'[r][t] =
             IF r = p /\ t = c.sid THEN a ELSE jingle[r][t]
      BY <1>2, <3>1, Activated
    <3>3. /\ c.sid[1] # p /\ a.peer = c.sid[1] /\ a.state = "Active"
      BY <1>2, <1>5, <3>1 DEF SessionSides
    <3> HIDE DEF a
    <3>4. QED
      BY <1>3, <1>5, <1>6, <3>2, <3>3 DEF SessionSides
  <2>2. CASE RejectCall(p, c) \/ EndCall(p, c)
    <3>1. Remove(p, c.sid)
      BY <2>2 DEF RejectCall, EndCall
    <3>2. \A r \in Party, t \in Sid : jingle'[r][t] \in {jingle[r][t], None}
      BY <1>2, <3>1, Removed
    <3>3. QED
      BY <1>4, <1>5, <3>2, SessionSidesKept
  <2>3. QED
    BY <2>1, <2>2
<1>10. WireSides'
  <2>1. \E a \in {"session-accept", "session-terminate"} : Send(p, c.with, Stanza(a, c.sid))
    BY DEF AcceptCall, RejectCall, EndCall
  <2>2. PICK a \in {"session-accept", "session-terminate"} : Send(p, c.with, Stanza(a, c.sid))
    BY <2>1
  <2>3. /\ Stanza(a, c.sid) \in Stanzas /\ Stanza(a, c.sid).sid = c.sid
        /\ Stanza(a, c.sid).action # "session-initiate"
    BY <1>2, <2>2, StanzasType
  <2>4. QED
    BY <1>2, <1>4, <1>5, <1>6, <1>7, <2>2, <2>3, WireSidesSent
<1>11. CommandSides'
  <2>1. \A q \in Party : cmds'[q] \subseteq cmds[q]
    BY <1>1 DEF TypeOK
  <2>2. QED
    BY <1>4, <1>5, <2>1, CommandSidesKept
<1>12. ScreenSides'
  <2>1. \E t \in {"CallAccepted", "CallEnded"} : Tell(p, Event(t, c.with, c.sid))
    BY DEF AcceptCall, RejectCall, EndCall
  <2>2. PICK t \in {"CallAccepted", "CallEnded"} : Tell(p, Event(t, c.with, c.sid))
    BY <2>1
  <2>3. /\ Event(t, c.with, c.sid) \in Events /\ Event(t, c.with, c.sid).type # "IncomingCall"
        /\ Event(t, c.with, c.sid).sid = c.sid
    BY <1>2, <2>2, EventsType
  <2>4. QED
    BY <1>3, <1>4, <1>5, <1>6, <2>2, <2>3, ScreenSidesTold
<1>13. QED
  BY <1>8, <1>9, <1>10, <1>11, <1>12 DEF SidInv

LEMMA OtherCommandSids ==
  ASSUME TypeOK, TypeOK', SidInv, NEW p \in Party, NEW c,
         IgnoreCommand(p, c) \/ Connect(p, c) \/ Disconnect(p, c)
  PROVE  SidInv'
<1>1. cmds' = [cmds EXCEPT ![p] = @ \ {c}] /\ UNCHANGED <<ui, jingle, wire, initiated, held>>
  BY DEF IgnoreCommand, Connect, Disconnect, Take, worker, network
<1>2. HeldGrows /\ \A q \in Party : cmds'[q] \subseteq cmds[q]
  BY <1>1 DEF HeldGrows, TypeOK
<1>3. HeldMade' /\ SessionSides' /\ WireSides'
  BY <1>1 DEF SidInv, HeldMade, SessionSides, WireSides
<1>4. CommandSides'
  BY <1>2, CommandSidesKept DEF SidInv
<1>5. ScreenSides'
  <2>1. CASE UNCHANGED events
    BY <1>1, <2>1 DEF SidInv, ScreenSides, Incomes
  <2>2. CASE Tell(p, Event("Disconnected", None, None))
    BY <1>1, <1>2, <2>2, EventsType, ScreenSidesTold DEF SidInv
  <2>3. QED
    BY <2>1, <2>2 DEF IgnoreCommand, Connect, Disconnect
<1>6. QED
  BY <1>3, <1>4, <1>5 DEF SidInv

LEMMA RequestSids ==
  ASSUME TypeOK, TypeOK', SidInv, NEW p \in Party, NEW q \in Party,
         Deliver(p, q) \/ Duplicate(p, q)
  PROVE  SidInv'
<1> DEFINE m == Head(wire[q][p])
<1>1. HandleRequest(p, q, m) /\ wire[q][p] # <<>>
  BY DEF Deliver, Duplicate
<1>2. m = wire[q][p][1] /\ 1 \in DOMAIN wire[q][p] /\ m \in Stanzas
  BY <1>1, NextRequest
<1>3. HeldMade /\ SessionSides /\ WireSides /\ CommandSides /\ ScreenSides
  BY DEF SidInv
<1>4. /\ m.sid[3] = "worker" /\ m.sid[2] <= initiated[m.sid[1]]
      /\ p # q /\ m.sid[1] \in {p, q}
      /\ m.action = "session-initiate" => m.sid[1] = q
  BY <1>2, <1>3 DEF WireSides
<1>5. m.sid \in Sid
  BY <1>2, StanzasType
<1> HIDE DEF m
<1>6. UNCHANGED <<ui, cmds, initiated>> /\ MoreIds
  BY <1>1 DEF HandleRequest, MoreIds, TypeOK
<1>7. WireSides'
  BY <1>3, <1>6, WireShrinks, WireSidesKept
<1>8. HeldGrows /\ HeldMade' /\ SessionSides' /\ ScreenSides'
  <2>1. CASE OnSessionInitiate(p, q, m)
    <3>1. CASE UNCHANGED <<jingle, held, events>>
      BY <1>3, <1>6, <3>1 DEF HeldGrows, HeldMade, SessionSides, ScreenSides, Incomes
    <3>2. CASE Open(p, m.sid, q, "PendingIncoming") /\ Tell(p, Event("IncomingCall", q, m.sid))
      <4> DEFINE a == [peer |-> q, state |-> "PendingIncoming"]
      <4>1. /\ \A r \in Party, t \in Sid : jingle'[r][t] =
                 IF r = p /\ t = m.sid THEN a ELSE jingle[r][t]
            /\ \A r \in Party : held'[r] = IF r = p THEN held[p] \cup {m.sid} ELSE held[r]
        BY <1>5, <3>2, Opened
      <4>2. a.peer = q /\ a.state = "PendingIncoming" /\ m.sid[1] = q
        BY <1>4, <2>1 DEF OnSessionInitiate
      <4> HIDE DEF a
      <4>3. HeldGrows
        BY <4>1 DEF HeldGrows
      <4>4. SessionSides'
        BY <1>3, <1>4, <4>1, <4>2, <4>3 DEF SessionSides, HeldGrows
      <4>5. HeldMade'
        <5> SUFFICES ASSUME NEW x \in Party, NEW s \in held'[x]
                     PROVE  s[3] = "worker" /\ s[2] <= initiated[s[1]]
          BY <1>6 DEF HeldMade
        <5>1. s \in held[x] \/ s = m.sid
          BY <4>1
        <5>2. QED
          BY <1>3, <1>4, <5>1 DEF HeldMade
      <4>6. ScreenSides'
        <5>1. /\ Event("IncomingCall", q, m.sid) \in Events
              /\ Event("IncomingCall", q, m.sid).type = "IncomingCall"
              /\ Event("IncomingCall", q, m.sid).sid = m.sid
              /\ Event("IncomingCall", q, m.sid).with = q
          BY <1>5, EventsType
        <5>2. m.sid \in held'[p]
          BY <4>1
        <5>3. QED
          BY <1>3, <1>4, <1>6, <3>2, <4>2, <4>3, <5>1, <5>2, ScreenSidesTold
      <4>7. QED
        BY <4>3, <4>4, <4>5, <4>6
    <3>3. QED
      BY <2>1, <3>1, <3>2 DEF OnSessionInitiate
  <2>2. CASE OnSessionAccept(p, q, m)
    <3>1. UNCHANGED held /\ HeldGrows /\ HeldMade'
      BY <1>3, <1>6, <2>2, HeldMadeKept DEF OnSessionAccept, HeldGrows
    <3>2. CASE UNCHANGED <<jingle, events>>
      BY <1>3, <1>6, <3>1, <3>2 DEF SessionSides, ScreenSides, Incomes
    <3>3. CASE /\ SessionWith(p, m.sid, q) /\ jingle[p][m.sid].state = "PendingOutgoing"
               /\ Activate(p, m.sid) /\ Tell(p, Event("CallAccepted", q, m.sid))
      <4> DEFINE a == [peer |-> jingle[p][m.sid].peer, state |-> "Active"]
      <4>1. \A r \in Party, t \in Sid : jingle'[r][t] =
               IF r = p /\ t = m.sid THEN a ELSE jingle[r][t]
        BY <1>5, <3>3, Activated DEF SessionWith
      <4>2. a.state = "Active" /\ a.peer = q /\ m.sid[1] = p /\ m.sid \in held[p]
        BY <1>3, <1>5, <3>3 DEF SessionSides, SessionWith
      <4> HIDE DEF a
      <4>3. SessionSides'
        BY <1>3, <1>4, <3>1, <4>1, <4>2 DEF SessionSides
      <4>4. ScreenSides'
        <5>1. /\ Event("CallAccepted", q, m.sid) \in Events
              /\ Event("CallAccepted", q, m.sid).type = "CallAccepted"
              /\ Event("CallAccepted", q, m.sid).sid = m.sid
          BY <1>5, EventsType
        <5>2. QED
          BY <1>3, <1>6, <3>1, <3>3, <4>2, <5>1, ScreenSidesTold
      <4>5. QED
        BY <3>1, <4>3, <4>4
    <3>4. QED
      BY <2>2, <3>2, <3>3 DEF OnSessionAccept
  <2>3. CASE OnSessionTerminate(p, q, m)
    <3>1. UNCHANGED held /\ HeldGrows /\ HeldMade'
      BY <1>3, <1>6, <2>3, HeldMadeKept DEF OnSessionTerminate, HeldGrows
    <3>2. \A r \in Party, t \in Sid : jingle'[r][t] \in {jingle[r][t], None}
      BY <1>5, <2>3, Removed DEF OnSessionTerminate
    <3>3. ScreenSides'
      <4>1. /\ Event("CallEnded", q, m.sid) \in Events
            /\ Event("CallEnded", q, m.sid).type = "CallEnded"
        BY <1>5, EventsType
      <4>2. QED
        BY <1>3, <1>6, <2>3, <3>1, <4>1, ScreenSidesTold DEF OnSessionTerminate
    <3>4. QED
      BY <1>3, <3>1, <3>2, <3>3, SessionSidesKept
  <2>4. QED
    BY <1>1, <2>1, <2>2, <2>3 DEF HandleRequest
<1>9. CommandSides'
  BY <1>3, <1>6, <1>8, CommandSidesKept
<1>10. QED
  BY <1>7, <1>8, <1>9 DEF SidInv

LEMMA ConnectionSids ==
  ASSUME TypeOK, TypeOK', SidInv, NEW p \in Party,
         \/ Online(p) \/ SendFails(p) \/ StreamLost(p)
         \/ \E q \in Party : Bounce(p, q) \/ LoseTail(p, q)
  PROVE  SidInv'
<1>1. UNCHANGED <<ui, cmds, initiated, held>> /\ HeldGrows /\ MoreIds
  <2>1. UNCHANGED <<ui, cmds, initiated, held>>
    BY DEF Online, SendFails, StreamLost, Bounce, LoseTail, worker, network
  <2>2. \A r \in Party : initiated[r] <= initiated[r]
    BY DEF TypeOK
  <2>3. QED
    BY <2>1, <2>2 DEF HeldGrows, MoreIds
<1>2. HeldMade' /\ CommandSides'
  BY <1>1 DEF SidInv, HeldMade, CommandSides, Incomes
<1>3. SessionSides'
  <2>1. \A r \in Party, t \in Sid : jingle'[r][t] \in {jingle[r][t], None}
    <3>1. UNCHANGED jingle \/ jingle' = [jingle EXCEPT ![p] = [s \in Sid |-> None]]
      BY DEF Online, SendFails, StreamLost, Bounce, LoseTail, worker
    <3>2. jingle \in [Party -> [Sid -> Session \cup {None}]]
      BY DEF TypeOK
    <3>3. QED
      BY <3>1, <3>2
  <2>2. QED
    BY <1>1, <2>1, SessionSidesKept DEF SidInv
<1>4. WireSides'
  <2>1. NoneSent
    <3>1. CASE Online(p) \/ SendFails(p) \/ StreamLost(p)
      BY <3>1 DEF Online, SendFails, StreamLost, network, NoneSent
    <3>2. QED
      BY <3>1, WireShrinks
  <2>2. QED
    BY <1>1, <2>1, WireSidesKept DEF SidInv
<1>5. ScreenSides'
  <2>1. CASE UNCHANGED events
    BY <1>1, <2>1 DEF SidInv, ScreenSides, Incomes
  <2>2. CASE Tell(p, Event("Disconnected", None, None))
    BY <1>1, <2>2, EventsType, ScreenSidesTold DEF SidInv
  <2>3. QED
    BY <2>1, <2>2 DEF Online, SendFails, StreamLost, Bounce, LoseTail
<1>6. QED
  BY <1>2, <1>3, <1>4, <1>5 DEF SidInv

LEMMA InitSids == Init => SidInv
BY DEF Init, SidInv, HeldMade, SessionSides, WireSides, CommandSides, ScreenSides, Idle

LEMMA NextSids == TypeOK /\ TypeOK' /\ SidInv /\ [Next]_vars => SidInv'
<1> SUFFICES ASSUME TypeOK, TypeOK', SidInv, [Next]_vars PROVE SidInv'
  OBVIOUS
<1>1. CASE Next
  BY <1>1, Steps, UserSids, HandleEventSids, InitiateCallSids, SessionCommandSids,
     OtherCommandSids, RequestSids, ConnectionSids
<1>2. CASE UNCHANGED vars
  BY <1>2 DEF vars, SidInv, HeldMade, SessionSides, WireSides, CommandSides, ScreenSides, Incomes
<1>3. QED
  BY <1>1, <1>2

\* Whatever is said of a session is said by one of its two parties: a sid is only
\* held by who made it or was called with it, and the requests, the user's answers
\* and the screen name the peer the session was made for (handle_jingle_event,
\* InitiateCall, CallView).
THEOREM SidsCorrect == Spec => []SidInv
BY InitType, NextType, InitSids, NextSids, PTL DEF Spec

-----------------------------------------------------------------------------
\* Each session comes in once

Moved(s, t) ==
  /\ DOMAIN s \subseteq Nat /\ DOMAIN t \subseteq Nat
  /\ \E k \in {0, 1} : \A i \in DOMAIN t : i + k \in DOMAIN s /\ t[i] = s[i + k]

LEMMA SameMoved == \A S : \A s \in Seq(S) : Moved(s, s)
<1> SUFFICES ASSUME NEW S, NEW s \in Seq(S) PROVE Moved(s, s)
  OBVIOUS
<1>1. DOMAIN s \subseteq Nat
  OBVIOUS
<1>2. \A i \in DOMAIN s : i + 0 \in DOMAIN s /\ s[i] = s[i + 0]
  BY <1>1
<1>3. QED
  BY <1>1, <1>2 DEF Moved

LEMMA ShiftedMoved == ASSUME NEW s, NEW t, Shifted(s, t) PROVE Moved(s, t)
BY DEF Shifted, Moved

\* Requests keep their order, so that two of them are not made of one.
LEMMA WireMoves ==
  ASSUME TypeOK, NEW p \in Party, NEW q \in Party,
         Deliver(p, q) \/ Duplicate(p, q) \/ Bounce(p, q) \/ LoseTail(p, q)
  PROVE  \A x, y \in Party : Moved(wire[x][y], wire'[x][y])
<1>0. \A x, y \in Party : Moved(wire[x][y], wire[x][y])
  BY SameMoved DEF TypeOK
<1>1. CASE Duplicate(p, q)
  BY <1>0, <1>1 DEF Duplicate
<1>2. CASE Deliver(p, q) \/ Bounce(p, q)
  <2>1. wire[q][p] \in Seq(Stanzas) /\ wire[q][p] # <<>>
    BY <1>2 DEF TypeOK, Deliver, Bounce
  <2>2. Moved(wire[q][p], Tail(wire[q][p]))
    BY <2>1, TailShifted, ShiftedMoved
  <2>3. wire' = [wire EXCEPT ![q][p] = Tail(@)]
    BY <1>2 DEF Deliver, Bounce
  <2>4. /\ wire'[q][p] = Tail(wire[q][p])
        /\ \A x, y \in Party : x # q \/ y # p => wire'[x][y] = wire[x][y]
    BY <2>3 DEF TypeOK
  <2>5. QED
    BY <1>0, <2>2, <2>4
<1>3. CASE LoseTail(p, q)
  <2>1. wire[p][q] \in Seq(Stanzas) /\ wire[p][q] # <<>>
    BY <1>3 DEF TypeOK, LoseTail
  <2> DEFINE t == SubSeq(wire[p][q], 1, Len(wire[p][q]) - 1)
  <2>2. /\ Len(wire[p][q]) \in Nat /\ DOMAIN wire[p][q] = 1 .. Len(wire[p][q])
        /\ DOMAIN t = 1 .. Len(wire[p][q]) - 1
        /\ \A i \in 1 .. Len(wire[p][q]) - 1 : t[i] = wire[p][q][i]
    BY <2>1, Cut
  <2>3. wire' = [wire EXCEPT ![p][q] = t]
    BY <1>3 DEF LoseTail
  <2> HIDE DEF t
  <2>4. DOMAIN t \subseteq Nat /\ \A i \in DOMAIN t :
          i + 0 \in DOMAIN wire[p][q] /\ t[i] = wire[p][q][i + 0]
    BY <2>2
  <2>5. Moved(wire[p][q], t)
    BY <2>2, <2>4 DEF Moved
  <2>6. /\ wire'[p][q] = t
        /\ \A x, y \in Party : x # p \/ y # q => wire'[x][y] = wire[x][y]
    BY <2>3 DEF TypeOK
  <2>7. QED
    BY <1>0, <2>5, <2>6
<1>4. QED
  BY <1>1, <1>2, <1>3

LEMMA InitiatesMoved ==
  ASSUME InitiatesOnce, UNCHANGED held, \A x, y \in Party : Moved(wire[x][y], wire'[x][y])
  PROVE  InitiatesOnce'
<1> SUFFICES ASSUME NEW p \in Party, NEW q \in Party, NEW i \in DOMAIN wire'[p][q],
                    Initiates(p, q, i)'
             PROVE  /\ wire'[p][q][i].sid \notin held[q]
                    /\ \A j \in DOMAIN wire'[p][q] :
                         Initiates(p, q, j)' /\ wire'[p][q][j].sid = wire'[p][q][i].sid => i = j
  BY DEF InitiatesOnce
<1>1. PICK k \in {0, 1} : \A j \in DOMAIN wire'[p][q] :
        j + k \in DOMAIN wire[p][q] /\ wire'[p][q][j] = wire[p][q][j + k]
  BY DEF Moved
<1>2. DOMAIN wire'[p][q] \subseteq Nat
  BY DEF Moved
<1>3. i + k \in DOMAIN wire[p][q] /\ Initiates(p, q, i + k)
  BY <1>1 DEF Initiates
<1>4. wire'[p][q][i].sid \notin held[q]
  BY <1>1, <1>3 DEF InitiatesOnce
<1>5. ASSUME NEW j \in DOMAIN wire'[p][q], Initiates(p, q, j)',
             wire'[p][q][j].sid = wire'[p][q][i].sid
      PROVE  i = j
  <2>1. j + k \in DOMAIN wire[p][q] /\ Initiates(p, q, j + k)
    BY <1>1, <1>5 DEF Initiates
  <2>2. wire[p][q][j + k].sid = wire[p][q][i + k].sid
    BY <1>1, <1>5
  <2>3. i + k = j + k
    BY <1>3, <2>1, <2>2 DEF InitiatesOnce
  <2>4. QED
    BY <1>2, <2>3
<1>6. QED
  BY <1>4, <1>5

LEMMA InitiatesSent ==
  ASSUME TypeOK, InitiatesOnce, UNCHANGED held, NEW p \in Party, NEW q \in Party,
         NEW m \in Stanzas, Send(p, q, m), m.action # "session-initiate"
  PROVE  InitiatesOnce'
<1>1. \A x, y \in Party : \A i \in DOMAIN wire'[x][y] : Initiates(x, y, i)' =>
        Initiates(x, y, i) /\ wire'[x][y][i] = wire[x][y][i]
  BY Sent DEF Grown, Initiates
<1>2. QED
  BY <1>1 DEF InitiatesOnce, Initiates

\* What is asked of a user, and answered.
Asks(p, i) == i \in DOMAIN events[p] /\ events[p][i].type = "IncomingCall"

AskedMove ==
  \A p \in Party :
    /\ \E k \in {0, 1} : \A i : Asks(p, i)' =>
         i \in Nat /\ Asks(p, i + k) /\ events'[p][i] = events[p][i + k]
    /\ ui'[p].incoming \in {ui[p].incoming, None}

LEMMA AskedOnceIs ==
  AskedOnce <=>
    \A p \in Party :
      /\ ui[p].incoming # None => ~Answering(p, ui[p].incoming.sid)
      /\ \A i : Asks(p, i) =>
           /\ ~Answering(p, events[p][i].sid)
           /\ ui[p].incoming # None => ui[p].incoming.sid # events[p][i].sid
           /\ \A j : Asks(p, j) /\ events[p][j].sid = events[p][i].sid => i = j
BY DEF AskedOnce, Asks

LEMMA AskedMoved ==
  ASSUME AskedOnce, AskedMove,
         \A p \in Party, s \in Sid : Answering(p, s)' => Answering(p, s),
         \A p \in Party : ui[p].incoming # None => ui[p].incoming.sid \in Sid,
         \A p \in Party : \A i : Asks(p, i) => events[p][i].sid \in Sid
  PROVE  AskedOnce'
<1> SUFFICES ASSUME NEW p \in Party
             PROVE  /\ ui'[p].incoming # None => ~Answering(p, ui[p].incoming.sid)'
                    /\ \A i : Asks(p, i)' =>
                         /\ ~Answering(p, events[p][i].sid)'
                         /\ ui'[p].incoming # None => ui'[p].incoming.sid # events'[p][i].sid
                         /\ \A j : Asks(p, j)' /\ events'[p][j].sid = events'[p][i].sid => i = j
  BY DEF AskedOnce, Asks
<1>1. PICK k \in {0, 1} : \A i : Asks(p, i)' =>
         i \in Nat /\ Asks(p, i + k) /\ events'[p][i] = events[p][i + k]
  BY DEF AskedMove
<1>2. ui'[p].incoming \in {ui[p].incoming, None}
  BY DEF AskedMove
<1>3. ui'[p].incoming # None => ~Answering(p, ui[p].incoming.sid)'
  BY <1>2 DEF AskedOnce
<1>4. ASSUME NEW i, Asks(p, i)'
      PROVE  /\ ~Answering(p, events[p][i].sid)'
             /\ ui'[p].incoming # None => ui'[p].incoming.sid # events'[p][i].sid
             /\ \A j : Asks(p, j)' /\ events'[p][j].sid = events'[p][i].sid => i = j
  <2>1. i \in Nat /\ Asks(p, i + k) /\ events'[p][i] = events[p][i + k]
    BY <1>1, <1>4
  <2>2. events[p][i + k].sid \in Sid
    BY <2>1
  <2>3. ~Answering(p, events[p][i + k].sid)
    BY <2>1, AskedOnceIs
  <2>4. ~Answering(p, events[p][i].sid)'
    BY <2>1, <2>2, <2>3
  <2>5. ui'[p].incoming # None => ui'[p].incoming.sid # events'[p][i].sid
    BY <1>2, <2>1, AskedOnceIs
  <2>6. ASSUME NEW j, Asks(p, j)', events'[p][j].sid = events'[p][i].sid
        PROVE  i = j
    <3>1. j \in Nat /\ Asks(p, j + k) /\ events'[p][j] = events[p][j + k]
      BY <1>1, <2>6
    <3>2. events[p][j + k].sid = events[p][i + k].sid
      BY <2>1, <2>6, <3>1
    <3>3. i + k = j + k
      BY <2>1, <3>1, <3>2, AskedOnceIs
    <3>4. QED
      BY <2>1, <3>1, <3>3
  <2>7. QED
    BY <2>4, <2>5, <2>6
<1>5. QED
  BY <1>3, <1>4

LEMMA AskedType ==
  ASSUME TypeOK
  PROVE  /\ \A p \in Party : ui[p].incoming # None => ui[p].incoming.sid \in Sid
         /\ \A p \in Party : \A i : Asks(p, i) => events[p][i].sid \in Sid /\ i \in Nat
<1>1. ASSUME NEW p \in Party, NEW i, Asks(p, i)
      PROVE  events[p][i].sid \in Sid /\ i \in Nat
  <2>1. i \in DOMAIN events[p] /\ events[p][i].type = "IncomingCall"
    BY <1>1 DEF Asks
  <2>2. events[p][i] \in Events /\ i \in Nat
    BY <2>1, Elements
  <2>3. QED
    BY <2>1, <2>2, EventsType
<1>2. QED
  BY <1>1, ShownType

LEMMA AskedRests ==
  ASSUME TypeOK, UNCHANGED events, \A p \in Party : ui'[p].incoming \in {ui[p].incoming, None}
  PROVE  AskedMove
<1> SUFFICES ASSUME NEW p \in Party
             PROVE  \E k \in {0, 1} : \A i : Asks(p, i)' =>
                      i \in Nat /\ Asks(p, i + k) /\ events'[p][i] = events[p][i + k]
  BY DEF AskedMove
<1>1. \A i : Asks(p, i)' => i \in Nat /\ Asks(p, i + 0) /\ events'[p][i] = events[p][i + 0]
  BY AskedType DEF Asks
<1>2. QED
  BY <1>1

LEMMA AskedTold ==
  ASSUME TypeOK, UNCHANGED ui, NEW p \in Party, NEW e \in Events, Tell(p, e),
         e.type # "IncomingCall"
  PROVE  AskedMove
<1> SUFFICES ASSUME NEW x \in Party
             PROVE  \E k \in {0, 1} : \A i : Asks(x, i)' =>
                      i \in Nat /\ Asks(x, i + k) /\ events'[x][i] = events[x][i + k]
  BY DEF AskedMove
<1>1. \A i : Asks(x, i)' => Asks(x, i) /\ events'[x][i] = events[x][i]
  BY EventTold DEF Asks, Grown
<1>2. \A i : Asks(x, i)' => i \in Nat /\ Asks(x, i + 0) /\ events'[x][i] = events[x][i + 0]
  BY <1>1, AskedType
<1>3. QED
  BY <1>2

LEMMA AskedHandled ==
  ASSUME TypeOK, NEW p \in Party, HandleEvent(p)
  PROVE  \A x \in Party : \E k \in {0, 1} : \A i : Asks(x, i)' =>
           i \in Nat /\ Asks(x, i + k) /\ events'[x][i] = events[x][i + k]
<1> SUFFICES ASSUME NEW x \in Party
             PROVE  \E k \in {0, 1} : \A i : Asks(x, i)' =>
                      i \in Nat /\ Asks(x, i + k) /\ events'[x][i] = events[x][i + k]
  OBVIOUS
<1>1. CASE x = p
  <2>1. \A i : Asks(x, i)' => i \in Nat /\ Asks(x, i + 1) /\ events'[x][i] = events[x][i + 1]
    BY <1>1, EventHandled DEF Asks, Shifted
  <2>2. QED
    BY <2>1
<1>2. CASE x # p
  <2>1. \A i : Asks(x, i)' => Asks(x, i) /\ events'[x][i] = events[x][i]
    BY <1>2, EventHandled DEF Asks
  <2>2. \A i : Asks(x, i)' => i \in Nat /\ Asks(x, i + 0) /\ events'[x][i] = events[x][i + 0]
    BY <2>1, AskedType
  <2>3. QED
    BY <2>2
<1>3. QED
  BY <1>1, <1>2

\* The screen and the commands after a click or a request of the user.
LEMMA UserDoes ==
  ASSUME TypeOK, NEW p \in Party,
         \/ \E q \in Party : StartCall(p, q)
         \/ EndCallClicked(p) \/ AcceptClicked(p) \/ DeclineClicked(p)
         \/ Login(p) \/ Logout(p)
  PROVE  /\ UNCHANGED <<events, worker, network, jingle, client, healthy, held, wire, duplicates>>
         /\ \A x \in Party : x # p => ui'[x] = ui[x] /\ cmds'[x] = cmds[x]
         /\ cmds[p] \subseteq cmds'[p]
         /\ \A c \in cmds'[p] : c \notin cmds[p] =>
              \/ c.type \in {"InitiateCall", "EndCall", "Connect", "Disconnect"}
              \/ /\ ui[p].incoming # None /\ ui'[p].incoming = None
                 /\ c.sid = ui[p].incoming.sid
         /\ ui'[p].incoming \in {ui[p].incoming, None}
<1>1. UNCHANGED <<events, worker, network, jingle, client, healthy, held, wire, duplicates>>
  BY DEF StartCall, EndCallClicked, AcceptClicked, DeclineClicked, Login, Logout, network, worker
<1>2. CASE \E q \in Party : StartCall(p, q)
  <2>1. PICK q \in Party : StartCall(p, q)
    BY <1>2
  <2> DEFINE c == Command("InitiateCall", q, <<p, started[p] + 1, "ui">>)
  <2>2. Perform(p, c) /\ c.type = "InitiateCall"
    BY <2>1 DEF StartCall, Command
  <2> HIDE DEF c
  <2>3. QED
    BY <1>1, <2>1, <2>2, StartCallShows DEF Shows, Perform, TypeOK
<1>3. CASE EndCallClicked(p)
  <2> DEFINE c == Command("EndCall", ui[p].call.with, ui[p].call.sid)
  <2>1. Perform(p, c) /\ c.type = "EndCall"
    BY <1>3 DEF EndCallClicked, Command
  <2>2. Shows(p, "Idle", None, ui[p].incoming)
    BY <1>3, ScreenAfter DEF EndCallClicked
  <2> HIDE DEF c
  <2>3. QED
    BY <1>1, <2>1, <2>2 DEF Shows, Perform, TypeOK
<1>4. CASE AcceptClicked(p)
  <2> DEFINE c == Command("AcceptCall", ui[p].incoming.with, ui[p].incoming.sid)
  <2>1. Perform(p, c) /\ ui[p].incoming # None /\ c.sid = ui[p].incoming.sid
    BY <1>4 DEF AcceptClicked, Command
  <2>2. Shows(p, "Active", ui[p].incoming, None)
    BY <1>4, ScreenAfter, ShownType DEF AcceptClicked, MaybeCall
  <2> HIDE DEF c
  <2>3. QED
    BY <1>1, <2>1, <2>2 DEF Shows, Perform, TypeOK
<1>5. CASE DeclineClicked(p)
  <2> DEFINE c == Command("RejectCall", ui[p].incoming.with, ui[p].incoming.sid)
  <2>1. Perform(p, c) /\ ui[p].incoming # None /\ c.sid = ui[p].incoming.sid
    BY <1>5 DEF DeclineClicked, Command
  <2>2. Shows(p, ui[p].engine, ui[p].call, None)
    BY <1>5, ScreenAfter DEF DeclineClicked, MaybeCall
  <2> HIDE DEF c
  <2>3. QED
    BY <1>1, <2>1, <2>2 DEF Shows, Perform, TypeOK
<1>6. CASE Login(p) \/ Logout(p)
  <2>1. \E t \in {"Connect", "Disconnect"} : Perform(p, Command(t, None, None))
    BY <1>6 DEF Login, Logout
  <2>2. PICK t \in {"Connect", "Disconnect"} : Perform(p, Command(t, None, None))
    BY <2>1
  <2> DEFINE c == Command(t, None, None)
  <2>3. Perform(p, c) /\ c.type \in {"Connect", "Disconnect"}
    BY <2>2, CommandsType
  <2>4. UNCHANGED ui
    BY <1>6 DEF Login, Logout
  <2> HIDE DEF c
  <2>5. QED
    BY <1>1, <2>3, <2>4 DEF Perform, TypeOK
<1>7. QED
  BY <1>2, <1>3, <1>4, <1>5, <1>6

LEMMA UserOnce ==
  ASSUME TypeOK, InitiatesOnce, AskedOnce, NEW p \in Party,
         \/ \E q \in Party : StartCall(p, q)
         \/ EndCallClicked(p) \/ AcceptClicked(p) \/ DeclineClicked(p)
         \/ Login(p) \/ Logout(p)
  PROVE  InitiatesOnce' /\ AskedOnce'
<1>1. /\ UNCHANGED <<events, held, wire>>
      /\ \A x \in Party : x # p => ui'[x] = ui[x] /\ cmds'[x] = cmds[x]
      /\ \A c \in cmds'[p] : c \notin cmds[p] =>
              \/ c.type \in {"InitiateCall", "EndCall", "Connect", "Disconnect"}
              \/ /\ ui[p].incoming # None /\ ui'[p].incoming = None
                 /\ c.sid = ui[p].incoming.sid
      /\ ui'[p].incoming \in {ui[p].incoming, None}
  BY UserDoes
<1>2. InitiatesOnce'
  BY <1>1 DEF InitiatesOnce, Initiates
<1>3. AskedOnce'
  <2> SUFFICES ASSUME NEW x \in Party
               PROVE  /\ ui'[x].incoming # None => ~Answering(x, ui[x].incoming.sid)'
                      /\ \A i : Asks(x, i) =>
                           /\ ~Answering(x, events[x][i].sid)'
                           /\ ui'[x].incoming # None => ui'[x].incoming.sid # events[x][i].sid
                           /\ \A j : Asks(x, j) /\ events[x][j].sid = events[x][i].sid => i = j
    BY <1>1 DEF AskedOnce, Asks
  <2>1. ui'[x].incoming # None =>
          /\ ui'[x].incoming = ui[x].incoming
          /\ \A s : Answering(x, s)' => Answering(x, s)
    BY <1>1 DEF Answering
  <2>2. \A s : Answering(x, s)' =>
          Answering(x, s) \/ (ui[x].incoming # None /\ s = ui[x].incoming.sid)
    BY <1>1 DEF Answering
  <2>3. ASSUME NEW i, Asks(x, i)
        PROVE  /\ ~Answering(x, events[x][i].sid)'
               /\ ui'[x].incoming # None => ui'[x].incoming.sid # events[x][i].sid
               /\ \A j : Asks(x, j) /\ events[x][j].sid = events[x][i].sid => i = j
    <3>1. /\ ~Answering(x, events[x][i].sid)
          /\ ui[x].incoming # None => ui[x].incoming.sid # events[x][i].sid
          /\ \A j : Asks(x, j) /\ events[x][j].sid = events[x][i].sid => i = j
      BY <2>3, AskedOnceIs
    <3>2. events' = events
      BY <1>1
    <3>3. ~Answering(x, events[x][i].sid)'
      BY <2>2, <3>1, <3>2
    <3>4. QED
      BY <2>1, <3>1, <3>3
  <2>4. QED
    BY <2>1, <2>3, AskedOnceIs
<1>4. QED
  BY <1>2, <1>3

LEMMA HandleEventOnce ==
  ASSUME TypeOK, InitiatesOnce, AskedOnce, NEW p \in Party, HandleEvent(p)
  PROVE  InitiatesOnce' /\ AskedOnce'
<1> DEFINE e == Head(events[p])
<1>1. UNCHANGED <<wire, held>>
  BY DEF HandleEvent, network, worker
<1>2. InitiatesOnce'
  BY <1>1 DEF InitiatesOnce, Initiates
<1>3. e = events[p][1] /\ 1 \in DOMAIN events[p] /\ e \in Events
  BY EventHandled
<1>4. \A x \in Party : \E k \in {0, 1} : \A i : Asks(x, i)' =>
           i \in Nat /\ Asks(x, i + k) /\ events'[x][i] = events[x][i + k]
  BY AskedHandled
<1>5. CASE OnCallEnded(p, e) \/ OnCallAccepted(p, e)
  <2>1. \A x \in Party : ui'[x].incoming \in {ui[x].incoming, None}
    <3>1. CASE OnCallEnded(p, e)
      BY <3>1, ScreenAfter DEF OnCallEnded, Shows
    <3>2. CASE OnCallAccepted(p, e)
      <4>1. [with |-> e.with, sid |-> e.sid] \in MaybeCall
        BY <1>3, <3>2, EventsType DEF OnCallAccepted, Call, MaybeCall
      <4>2. Shows(p, "Active", [with |-> e.with, sid |-> e.sid], ui[p].incoming)
        BY <3>2, <4>1, ScreenAfter DEF OnCallAccepted
      <4>3. QED
        BY <4>2 DEF Shows
    <3>3. QED
      BY <1>5, <3>1, <3>2
  <2>2. AskedMove
    BY <1>4, <2>1 DEF AskedMove
  <2>3. UNCHANGED cmds
    BY <1>5 DEF OnCallEnded, OnCallAccepted
  <2>4. QED
    BY <1>2, <2>2, <2>3, AskedType, AskedMoved DEF Answering
<1>6. CASE OnIncomingCall(p, e)
  <2>1. Asks(p, 1) /\ events[p][1] = e /\ e.with \in Party /\ e.sid \in Sid
    BY <1>3, <1>6, EventsType DEF Asks, OnIncomingCall
  <2>2. \A x \in Party : x # p => events'[x] = events[x] /\ ui'[x] = ui[x] /\ cmds'[x] = cmds[x]
    <3>1. UNCHANGED ui \/ \E y : ui' = [ui EXCEPT ![p] = y]
      BY <1>6 DEF OnIncomingCall
    <3>2. UNCHANGED cmds \/ \E y : cmds' = [cmds EXCEPT ![p] = y]
      BY <1>6 DEF OnIncomingCall, Perform
    <3>3. QED
      BY <3>1, <3>2, EventHandled DEF TypeOK
  <2>3. \A i : Asks(p, i)' => i \in Nat /\ Asks(p, i + 1) /\ events'[p][i] = events[p][i + 1]
    BY EventHandled DEF Asks, Shifted
  <2>4. /\ \A s : Answering(p, s)' => Answering(p, s) \/ (s = e.sid /\ UNCHANGED ui)
        /\ ui'[p].incoming # None /\ ~(UNCHANGED ui) => ui'[p].incoming.sid = e.sid
    <3>1. CASE ui[p].engine = "Active"
      <4> DEFINE c == Command("RejectCall", e.with, e.sid)
      <4>1. c.sid = e.sid /\ Perform(p, c) /\ UNCHANGED ui
        BY <1>6, <3>1 DEF OnIncomingCall, Command
      <4> HIDE DEF c, e
      <4>2. \A d \in cmds'[p] : d \in cmds[p] \/ d = c
        BY <4>1 DEF Perform, TypeOK
      <4>3. QED
        BY <4>1, <4>2 DEF Answering
    <3>2. CASE ui[p].engine # "Active"
      <4>1. [with |-> e.with, sid |-> e.sid] \in MaybeCall
        BY <2>1 DEF Call, MaybeCall
      <4>2. Shows(p, ui[p].engine, ui[p].call, [with |-> e.with, sid |-> e.sid]) /\ UNCHANGED cmds
        BY <1>6, <3>2, <4>1, ScreenAfter DEF OnIncomingCall
      <4>3. ui'[p].incoming.sid = e.sid
        BY <4>2 DEF Shows
      <4>4. QED
        BY <4>2, <4>3 DEF Answering
    <3>3. QED
      BY <3>1, <3>2
  <2> HIDE DEF e
  <2>5. /\ \A i : Asks(p, i) /\ i # 1 => events[p][i].sid # e.sid
        /\ ui[p].incoming # None => ui[p].incoming.sid # e.sid
        /\ ~Answering(p, e.sid)
    BY <2>1, AskedOnceIs
  <2>6. \A i : Asks(p, i)' => i \in Nat /\ i + 1 # 1
    <3>1. \A i \in DOMAIN events'[p] : i \in Nat /\ i + 1 # 1
      <4>1. events'[p] = Tail(events[p]) /\ events[p] \in Seq(Events) /\ events[p] # <<>>
        BY DEF HandleEvent, TypeOK
      <4>2. QED
        BY <4>1
    <3>2. QED
      BY <3>1 DEF Asks
  <2>7. ASSUME NEW x \in Party
        PROVE  /\ ui'[x].incoming # None => ~Answering(x, ui[x].incoming.sid)'
               /\ \A i : Asks(x, i)' =>
                    /\ ~Answering(x, events[x][i].sid)'
                    /\ ui'[x].incoming # None => ui'[x].incoming.sid # events'[x][i].sid
                    /\ \A j : Asks(x, j)' /\ events'[x][j].sid = events'[x][i].sid => i = j
    <3>1. CASE x # p
      <4>1. /\ events'[x] = events[x] /\ ui'[x] = ui[x]
            /\ \A i : Asks(x, i)' <=> Asks(x, i)
            /\ \A s : Answering(x, s)' <=> Answering(x, s)
        BY <2>2, <3>1 DEF Asks, Answering
      <4>2. QED
        BY <4>1, AskedOnceIs
    <3>2. CASE x = p
      <4>1. ui'[p].incoming # None => ~Answering(p, ui[p].incoming.sid)'
        BY <2>4, <2>5, AskedOnceIs
      <4>2. ASSUME NEW i, Asks(p, i)'
            PROVE  /\ ~Answering(p, events[p][i].sid)'
                   /\ ui'[p].incoming # None => ui'[p].incoming.sid # events'[p][i].sid
                   /\ \A j : Asks(p, j)' /\ events'[p][j].sid = events'[p][i].sid => i = j
        <5>1. /\ i \in Nat /\ Asks(p, i + 1) /\ events'[p][i] = events[p][i + 1]
              /\ events'[p][i].sid # e.sid
          BY <2>3, <2>5, <2>6, <4>2
        <5>2. ~Answering(p, events[p][i].sid)'
          BY <2>4, <5>1, AskedOnceIs
        <5>3. ui'[p].incoming # None => ui'[p].incoming.sid # events'[p][i].sid
          BY <2>4, <5>1, AskedOnceIs
        <5>4. ASSUME NEW j, Asks(p, j)', events'[p][j].sid = events'[p][i].sid
              PROVE  i = j
          <6>1. j \in Nat /\ Asks(p, j + 1) /\ events'[p][j] = events[p][j + 1]
            BY <2>3, <5>4
          <6>2. i + 1 = j + 1
            BY <5>1, <5>4, <6>1, AskedOnceIs
          <6>3. QED
            BY <5>1, <6>1, <6>2
        <5>5. QED
          BY <5>2, <5>3, <5>4
      <4>3. QED
        BY <3>2, <4>1, <4>2
    <3>3. QED
      BY <3>1, <3>2
  <2>8. AskedOnce'
    BY <2>7 DEF AskedOnce, Asks
  <2>9. QED
    BY <1>2, <2>8
<1>7. QED
  BY <1>5, <1>6 DEF HandleEvent

LEMMA TakenAnswers ==
  ASSUME TypeOK, NEW p \in Party, NEW c, cmds' = [cmds EXCEPT ![p] = @ \ {c}]
  PROVE  \A x \in Party : /\ cmds'[x] \subseteq cmds[x]
                          /\ \A s : Answering(x, s)' => Answering(x, s)
<1>1. \A x \in Party : cmds'[x] \subseteq cmds[x]
  BY DEF TypeOK
<1>2. QED
  BY <1>1 DEF Answering

\* OnceInv through the commands.
LEMMA InitiateCallOnce ==
  ASSUME TypeOK, SidInv, InitiatesOnce, AskedOnce, NEW p \in Party, NEW c, InitiateCall(p, c)
  PROVE  InitiatesOnce' /\ AskedOnce'
<1> DEFINE sid == <<p, initiated[p] + 1, "worker">>
           m == Stanza("session-initiate", sid)
<1>1. /\ sid \in Sid
      /\ cmds' = [cmds EXCEPT ![p] = @ \ {c}] /\ UNCHANGED <<ui, events>>
      /\ held' = [held EXCEPT ![p] = @ \cup {sid}]
      /\ Send(p, c.with, m)
  BY IdLeft DEF InitiateCall, Take, Open
<1>2. c.with \in Party /\ m \in Stanzas /\ m.sid = sid /\ m.action = "session-initiate"
  <2>1. c.with \in Party
    BY TakeType, CommandsType DEF InitiateCall
  <2> HIDE DEF sid
  <2>2. m \in Stanzas /\ m.sid = sid /\ m.action = "session-initiate"
    BY <1>1, StanzasType
  <2>3. QED
    BY <2>1, <2>2
<1>3. AskedOnce'
  BY <1>1, AskedRests, AskedType, TakenAnswers, AskedMoved
<1>4. sid[1] = p /\ sid[2] = initiated[p] + 1 /\ initiated[p] \in Nat
  BY DEF TypeOK
<1> HIDE DEF sid, m
<1>5. \A x \in Party : sid \notin held[x]
  BY <1>4 DEF SidInv, HeldMade
<1>6. \A x, y \in Party : \A i \in DOMAIN wire[x][y] : wire[x][y][i].sid # sid
  BY <1>4 DEF SidInv, WireSides
<1>7. InitiatesOnce'
  <2> SUFFICES ASSUME NEW x \in Party, NEW y \in Party, NEW i \in DOMAIN wire'[x][y],
                      Initiates(x, y, i)'
               PROVE  /\ wire'[x][y][i].sid \notin held'[y]
                      /\ \A j \in DOMAIN wire'[x][y] :
                           Initiates(x, y, j)' /\ wire'[x][y][j].sid = wire'[x][y][i].sid => i = j
    BY DEF InitiatesOnce
  <2>1. \A j \in DOMAIN wire'[x][y] :
          \/ j \in DOMAIN wire[x][y] /\ wire'[x][y][j] = wire[x][y][j]
          \/ /\ j \notin DOMAIN wire[x][y] /\ wire'[x][y][j] = m
             /\ x = p /\ y = c.with
    BY <1>1, <1>2, Sent DEF Grown
  <2>2. \A j, k \in DOMAIN wire'[x][y] :
          j \notin DOMAIN wire[x][y] /\ k \notin DOMAIN wire[x][y] => j = k
    <3>1. CASE x = p /\ y = c.with /\ healthy[p]
      <4>1. Grown(wire[x][y], wire'[x][y], m)
        BY <1>1, <1>2, <3>1, Sent
      <4>2. QED
        BY <4>1 DEF Grown
    <3>2. CASE ~(x = p /\ y = c.with /\ healthy[p])
      BY <1>1, <1>2, <3>2, Sent
    <3>3. QED
      BY <3>1, <3>2
  <2>3. CASE i \in DOMAIN wire[x][y]
    <3>1. wire'[x][y][i] = wire[x][y][i] /\ Initiates(x, y, i)
      BY <2>1, <2>3 DEF Initiates
    <3>2. wire[x][y][i].sid \notin held[y] /\ wire[x][y][i].sid # sid
      BY <1>6, <3>1 DEF InitiatesOnce, Initiates
    <3>3. wire'[x][y][i].sid \notin held'[y]
      BY <1>1, <3>1, <3>2 DEF TypeOK
    <3>4. ASSUME NEW j \in DOMAIN wire'[x][y], Initiates(x, y, j)',
                 wire'[x][y][j].sid = wire'[x][y][i].sid
          PROVE  i = j
      <4>1. j \in DOMAIN wire[x][y] /\ wire'[x][y][j] = wire[x][y][j]
        BY <1>2, <2>1, <3>1, <3>2, <3>4
      <4>2. Initiates(x, y, j)
        BY <3>4, <4>1 DEF Initiates
      <4>3. QED
        BY <2>3, <3>1, <3>4, <4>1, <4>2 DEF InitiatesOnce
    <3>5. QED
      BY <3>3, <3>4
  <2>4. CASE i \notin DOMAIN wire[x][y]
    <3>1. wire'[x][y][i] = m /\ x = p /\ y = c.with
      BY <2>1, <2>4
    <3>2. x # y
      <4>1. c \in cmds[p] /\ c.type = "InitiateCall"
        BY DEF InitiateCall, Take
      <4>2. QED
        BY <3>1, <4>1 DEF SidInv, CommandSides
    <3>3. wire'[x][y][i].sid \notin held'[y]
      BY <1>1, <1>2, <1>5, <3>1, <3>2 DEF TypeOK
    <3>4. \A j \in DOMAIN wire'[x][y] : wire'[x][y][j].sid = sid => j \notin DOMAIN wire[x][y]
      BY <1>6, <2>1
    <3>5. QED
      BY <1>2, <2>2, <2>4, <3>1, <3>3, <3>4
  <2>5. QED
    BY <2>3, <2>4
<1>8. QED
  BY <1>3, <1>7

LEMMA SessionCommandOnce ==
  ASSUME TypeOK, InitiatesOnce, AskedOnce, NEW p \in Party, NEW c,
         AcceptCall(p, c) \/ RejectCall(p, c) \/ EndCall(p, c)
  PROVE  InitiatesOnce' /\ AskedOnce'
<1>1. c \in Commands /\ c.type \in {"AcceptCall", "RejectCall", "EndCall"}
      /\ cmds' = [cmds EXCEPT ![p] = @ \ {c}] /\ UNCHANGED <<ui, held>>
  BY TakeType DEF AcceptCall, RejectCall, EndCall, Take
<1>2. c.with \in Party /\ c.sid \in Sid
  BY <1>1, CommandsType
<1>3. InitiatesOnce'
  <2>1. \E a \in {"session-accept", "session-terminate"} : Send(p, c.with, Stanza(a, c.sid))
    BY DEF AcceptCall, RejectCall, EndCall
  <2>2. PICK a \in {"session-accept", "session-terminate"} : Send(p, c.with, Stanza(a, c.sid))
    BY <2>1
  <2>3. Stanza(a, c.sid) \in Stanzas /\ Stanza(a, c.sid).action # "session-initiate"
    BY <1>2, StanzasType
  <2>4. QED
    BY <1>1, <1>2, <2>2, <2>3, InitiatesSent
<1>4. AskedOnce'
  <2>1. \E t \in {"CallAccepted", "CallEnded"} : Tell(p, Event(t, c.with, c.sid))
    BY DEF AcceptCall, RejectCall, EndCall
  <2>2. PICK t \in {"CallAccepted", "CallEnded"} : Tell(p, Event(t, c.with, c.sid))
    BY <2>1
  <2>3. Event(t, c.with, c.sid) \in Events /\ Event(t, c.with, c.sid).type # "IncomingCall"
    BY <1>2, EventsType
  <2>4. AskedMove
    BY <1>1, <2>2, <2>3, AskedTold
  <2>5. QED
    BY <1>1, <2>4, AskedType, TakenAnswers, AskedMoved
<1>5. QED
  BY <1>3, <1>4

LEMMA OtherCommandOnce ==
  ASSUME TypeOK, InitiatesOnce, AskedOnce, NEW p \in Party, NEW c,
         IgnoreCommand(p, c) \/ Connect(p, c) \/ Disconnect(p, c)
  PROVE  InitiatesOnce' /\ AskedOnce'
<1>1. cmds' = [cmds EXCEPT ![p] = @ \ {c}] /\ UNCHANGED <<ui, wire, held>>
  BY DEF IgnoreCommand, Connect, Disconnect, Take, worker, network
<1>2. AskedMove
  <2>1. UNCHANGED events \/ Tell(p, Event("Disconnected", None, None))
    BY DEF IgnoreCommand, Connect, Disconnect
  <2>2. QED
    BY <1>1, <2>1, EventsType, AskedTold, AskedRests
<1>3. AskedOnce'
  BY <1>1, <1>2, AskedType, TakenAnswers, AskedMoved
<1>4. QED
  BY <1>1, <1>3 DEF InitiatesOnce, Initiates

LEMMA ConnectionOnce ==
  ASSUME TypeOK, InitiatesOnce, AskedOnce, NEW p \in Party,
         \/ Online(p) \/ SendFails(p) \/ StreamLost(p)
         \/ \E q \in Party : Bounce(p, q) \/ LoseTail(p, q)
  PROVE  InitiatesOnce' /\ AskedOnce'
<1>1. UNCHANGED <<ui, cmds, held>>
  BY DEF Online, SendFails, StreamLost, Bounce, LoseTail, worker
<1>2. AskedMove
  <2>1. UNCHANGED events \/ Tell(p, Event("Disconnected", None, None))
    BY DEF Online, SendFails, StreamLost, Bounce, LoseTail
  <2>2. QED
    BY <1>1, <2>1, EventsType, AskedTold, AskedRests
<1>3. AskedOnce'
  BY <1>1, <1>2, AskedType, AskedMoved DEF Answering
<1>4. InitiatesOnce'
  <2>1. CASE Online(p) \/ SendFails(p) \/ StreamLost(p)
    BY <1>1, <2>1 DEF Online, SendFails, StreamLost, network, InitiatesOnce, Initiates
  <2>2. CASE \E q \in Party : Bounce(p, q) \/ LoseTail(p, q)
    BY <1>1, <2>2, WireMoves, InitiatesMoved
  <2>3. QED
    BY <2>1, <2>2
<1>5. QED
  BY <1>3, <1>4

\* OnceInv through the requests that come in.
LEMMA DeliverOnce ==
  ASSUME TypeOK, SidInv, InitiatesOnce, AskedOnce, NEW p \in Party, NEW q \in Party, Deliver(p, q)
  PROVE  InitiatesOnce' /\ AskedOnce'
<1> DEFINE m == Head(wire[q][p])
<1>1. /\ HandleRequest(p, q, m) /\ wire[q][p] # <<>>
      /\ UNCHANGED <<ui, cmds>>
  BY DEF Deliver, HandleRequest
<1>2. /\ m = wire[q][p][1] /\ 1 \in DOMAIN wire[q][p] /\ m \in Stanzas /\ m.sid \in Sid
      /\ Shifted(wire[q][p], wire'[q][p])
      /\ \A x, y \in Party : x # q \/ y # p => wire'[x][y] = wire[x][y]
  BY <1>1, Delivered, StanzasType
<1>3. \A x \in Party, s \in Sid : Answering(x, s)' => Answering(x, s)
  BY <1>1 DEF Answering
<1>4. CASE UNCHANGED held /\ (UNCHANGED events \/ \E t \in {"CallAccepted", "CallEnded"} :
                                                     Tell(p, Event(t, q, m.sid)))
  <2>1. InitiatesOnce'
    BY <1>4, WireMoves, InitiatesMoved
  <2>2. AskedMove
    <3>1. CASE UNCHANGED events
      BY <1>1, <3>1, AskedRests
    <3>2. CASE \E t \in {"CallAccepted", "CallEnded"} : Tell(p, Event(t, q, m.sid))
      <4>1. PICK t \in {"CallAccepted", "CallEnded"} : Tell(p, Event(t, q, m.sid))
        BY <3>2
      <4>2. Event(t, q, m.sid) \in Events /\ Event(t, q, m.sid).type # "IncomingCall"
        BY <1>2, EventsType
      <4>3. QED
        BY <1>1, <4>1, <4>2, AskedTold
    <3>3. QED
      BY <1>4, <3>1, <3>2
  <2>3. QED
    BY <1>3, <2>1, <2>2, AskedType, AskedMoved
<1>5. CASE /\ m.action = "session-initiate"
           /\ Open(p, m.sid, q, "PendingIncoming") /\ Tell(p, Event("IncomingCall", q, m.sid))
  <2> DEFINE e == Event("IncomingCall", q, m.sid)
  <2>1. /\ e \in Events /\ e.type = "IncomingCall" /\ e.sid = m.sid
        /\ Grown(events[p], events'[p], e)
        /\ \A x \in Party : x # p => events'[x] = events[x]
    BY <1>2, <1>5, EventsType, EventTold
  <2> HIDE DEF m, e
  <2>2. /\ m.sid \notin held[p]
        /\ \A j \in DOMAIN wire[q][p] : Initiates(q, p, j) /\ wire[q][p][j].sid = m.sid => j = 1
    BY <1>2, <1>5 DEF InitiatesOnce, Initiates
  <2>3. \A r \in Party : held'[r] = IF r = p THEN held[p] \cup {m.sid} ELSE held[r]
    BY <1>5 DEF Open, TypeOK
  <2>4. m.sid[1] = q
    BY <1>2, <1>5 DEF SidInv, WireSides
  <2>5. InitiatesOnce'
    <3> SUFFICES ASSUME NEW x \in Party, NEW y \in Party, NEW i \in DOMAIN wire'[x][y],
                        Initiates(x, y, i)'
                 PROVE  /\ wire'[x][y][i].sid \notin held'[y]
                        /\ \A j \in DOMAIN wire'[x][y] :
                             Initiates(x, y, j)' /\ wire'[x][y][j].sid = wire'[x][y][i].sid => i = j
      BY DEF InitiatesOnce
    <3>1. CASE x = q /\ y = p
      <4>1. \A j \in DOMAIN wire'[x][y] :
              /\ j \in Nat /\ j + 1 # 1
              /\ j + 1 \in DOMAIN wire[x][y] /\ wire'[x][y][j] = wire[x][y][j + 1]
        <5>1. Shifted(wire[q][p], wire'[q][p])
          BY <1>2
        <5>2. \A j \in DOMAIN wire'[q][p] : j \in Nat /\ j + 1 # 1
          <6>1. wire'[q][p] = Tail(wire[q][p]) /\ wire[q][p] \in Seq(Stanzas) /\ wire[q][p] # <<>>
            BY DEF Deliver, TypeOK
          <6>2. QED
            BY <6>1
        <5>3. QED
          BY <3>1, <5>1, <5>2 DEF Shifted
      <4>2. /\ Initiates(x, y, i + 1) /\ i + 1 # 1 /\ i + 1 \in DOMAIN wire[x][y]
            /\ wire'[x][y][i] = wire[x][y][i + 1]
        BY <4>1 DEF Initiates
      <4>3. wire'[x][y][i].sid \notin held'[y]
        <5>1. wire[x][y][i + 1].sid \notin held[y]
          BY <4>2 DEF InitiatesOnce
        <5>2. wire[x][y][i + 1].sid # m.sid
          BY <2>2, <3>1, <4>2
        <5>3. QED
          BY <2>3, <3>1, <4>2, <5>1, <5>2
      <4>4. ASSUME NEW j \in DOMAIN wire'[x][y], Initiates(x, y, j)',
                   wire'[x][y][j].sid = wire'[x][y][i].sid
            PROVE  i = j
        <5>1. /\ Initiates(x, y, j + 1) /\ j + 1 \in DOMAIN wire[x][y]
              /\ wire'[x][y][j] = wire[x][y][j + 1]
          BY <4>1, <4>4 DEF Initiates
        <5>2. wire[x][y][j + 1].sid = wire[x][y][i + 1].sid
          BY <4>2, <4>4, <5>1
        <5>3. i + 1 = j + 1
          BY <4>2, <5>1, <5>2 DEF InitiatesOnce
        <5>4. QED
          BY <4>1, <5>3
      <4>5. QED
        BY <4>3, <4>4
    <3>2. CASE ~(x = q /\ y = p)
      <4>1. wire'[x][y] = wire[x][y]
        BY <1>2, <3>2
      <4>2. \A j : Initiates(x, y, j)' <=> Initiates(x, y, j)
        BY <4>1 DEF Initiates
      <4>3. wire[x][y][i].sid \notin held[y]
        BY <4>1, <4>2 DEF InitiatesOnce
      <4>4. y = p => wire[x][y][i].sid # m.sid
        <5>1. wire[x][y][i].sid[1] = x
          BY <4>1, <4>2 DEF SidInv, WireSides, Initiates
        <5>2. QED
          BY <2>4, <3>2, <5>1
      <4>5. QED
        BY <2>3, <4>1, <4>2, <4>3, <4>4 DEF InitiatesOnce
    <3>3. QED
      BY <3>1, <3>2
  <2>6. AskedOnce'
    <3> SUFFICES ASSUME NEW x \in Party
                 PROVE  /\ ui[x].incoming # None => ~Answering(x, ui[x].incoming.sid)
                        /\ \A i : Asks(x, i)' =>
                             /\ ~Answering(x, events'[x][i].sid)
                             /\ ui[x].incoming # None => ui[x].incoming.sid # events'[x][i].sid
                             /\ \A j : Asks(x, j)' /\ events'[x][j].sid = events'[x][i].sid => i = j
      <4>1. ui' = ui /\ cmds' = cmds
        BY <1>1
      <4>2. QED
        BY <4>1 DEF AskedOnce, Asks, Answering
    <3>1. ui[x].incoming # None => ~Answering(x, ui[x].incoming.sid)
      BY AskedOnceIs
    <3>2. CASE x # p
      <4>1. events'[x] = events[x] /\ \A i : Asks(x, i)' <=> Asks(x, i)
        BY <2>1, <3>2 DEF Asks
      <4>2. QED
        BY <3>1, <4>1, AskedOnceIs
    <3>3. CASE x = p
      <4>1. \A i : Asks(p, i)' =>
              \/ Asks(p, i) /\ events'[p][i] = events[p][i] /\ events'[p][i].sid # m.sid
              \/ events'[p][i].sid = m.sid
        BY <2>1 DEF Asks, Grown
      <4>2. \A i, j \in DOMAIN events'[p] :
              i \notin DOMAIN events[p] /\ j \notin DOMAIN events[p] => i = j
        BY <2>1 DEF Grown
      <4>3. \A i : Asks(p, i)' /\ events'[p][i].sid = m.sid =>
              i \in DOMAIN events'[p] /\ i \notin DOMAIN events[p]
        <5>1. \A i \in DOMAIN events[p] : events[p][i].type = "IncomingCall" =>
                events[p][i].sid # m.sid
          BY <2>2 DEF SidInv, ScreenSides, Incomes
        <5>2. QED
          BY <2>1, <5>1 DEF Asks, Grown
      <4>4. ~Answering(p, m.sid)
        BY <2>2 DEF SidInv, CommandSides, Incomes, Answering
      <4>5. ui[p].incoming # None => ui[p].incoming.sid # m.sid
        BY <2>2 DEF SidInv, ScreenSides, Incomes
      <4>6. ASSUME NEW i, Asks(p, i)'
            PROVE  /\ ~Answering(p, events'[p][i].sid)
                   /\ ui[p].incoming # None => ui[p].incoming.sid # events'[p][i].sid
                   /\ \A j : Asks(p, j)' /\ events'[p][j].sid = events'[p][i].sid => i = j
        <5>1. CASE events'[p][i].sid = m.sid
          BY <4>2, <4>3, <4>4, <4>5, <4>6, <5>1
        <5>2. CASE events'[p][i].sid # m.sid
          <6>1. Asks(p, i) /\ events'[p][i] = events[p][i]
            BY <4>1, <4>6, <5>2
          <6>2. \A j : Asks(p, j)' /\ events'[p][j].sid = events'[p][i].sid =>
                  Asks(p, j) /\ events'[p][j] = events[p][j]
            BY <4>1, <5>2
          <6>3. QED
            BY <6>1, <6>2, AskedOnceIs
        <5>3. QED
          BY <5>1, <5>2
      <4>7. QED
        BY <3>1, <3>3, <4>6
    <3>4. QED
      BY <3>2, <3>3
  <2>7. QED
    BY <2>5, <2>6
<1>6. CASE m.action = "session-initiate" /\ UNCHANGED <<jingle, held, events>>
  BY <1>4, <1>6
<1>7. QED
  BY <1>1, <1>4, <1>5, <1>6
     DEF HandleRequest, OnSessionInitiate, OnSessionAccept, OnSessionTerminate

LEMMA InitOnce == Init => InitiatesOnce /\ AskedOnce
BY DEF Init, InitiatesOnce, AskedOnce, Idle

\* What is delivered twice is counted.
LEMMA NoneDoubled ==
  ASSUME TypeOK, [Next]_vars, duplicates' = 0
  PROVE  duplicates = 0 /\ \A p, q \in Party : ~Duplicate(p, q)
<1>1. \A p, q \in Party : Duplicate(p, q) => duplicates' = duplicates + 1
  BY DEF Duplicate
<1>2. \A p, q \in Party : ~Duplicate(p, q)
  BY <1>1 DEF TypeOK
<1>3. CASE Next
  <2>1. PICK p \in Party :
      \/ \E q \in Party : StartCall(p, q)
      \/ EndCallClicked(p) \/ AcceptClicked(p) \/ DeclineClicked(p)
      \/ Login(p) \/ Logout(p)
      \/ HandleEvent(p)
      \/ \E c : InitiateCall(p, c)
      \/ \E c : AcceptCall(p, c) \/ RejectCall(p, c) \/ EndCall(p, c)
      \/ \E c : IgnoreCommand(p, c) \/ Connect(p, c) \/ Disconnect(p, c)
      \/ \E q \in Party : Deliver(p, q) \/ Duplicate(p, q)
      \/ Online(p) \/ SendFails(p) \/ StreamLost(p)
      \/ \E q \in Party : Bounce(p, q) \/ LoseTail(p, q)
    BY <1>3, Steps
  <2>2. UNCHANGED duplicates
    BY <1>2, <2>1 DEF StartCall, EndCallClicked, AcceptClicked, DeclineClicked, Login, Logout,
       HandleEvent, InitiateCall, AcceptCall, RejectCall, EndCall, IgnoreCommand, Connect,
       Disconnect, Deliver, Online, SendFails, StreamLost, Bounce, LoseTail, network
  <2>3. QED
    BY <1>2, <2>2
<1>4. CASE UNCHANGED vars
  BY <1>2, <1>4 DEF vars
<1>5. QED
  BY <1>3, <1>4

LEMMA NextOnce == TypeOK /\ SidInv /\ OnceInv /\ [Next]_vars => OnceInv'
<1> SUFFICES ASSUME TypeOK, SidInv, OnceInv, [Next]_vars, duplicates' = 0
             PROVE  InitiatesOnce' /\ AskedOnce'
  BY DEF OnceInv
<1>1. InitiatesOnce /\ AskedOnce /\ \A p, q \in Party : ~Duplicate(p, q)
  BY NoneDoubled DEF OnceInv
<1>2. CASE Next
  BY <1>1, <1>2, Steps, UserOnce, HandleEventOnce, InitiateCallOnce, SessionCommandOnce,
     OtherCommandOnce, DeliverOnce, ConnectionOnce
<1>3. CASE UNCHANGED vars
  BY <1>1, <1>3 DEF vars, InitiatesOnce, Initiates, AskedOnce, Answering
<1>4. QED
  BY <1>2, <1>3

\* While no request is delivered twice, a session is started by one request, the
\* user is asked once whether to take it, and answers once (IncomingCall, the
\* answer buttons).
THEOREM OnceCorrect == Spec => []OnceInv
<1>1. Init => OnceInv
  BY InitOnce DEF OnceInv
<1>2. QED
  BY <1>1, NextOnce, TypeCorrect, SidsCorrect, PTL DEF Spec

-----------------------------------------------------------------------------
\* What is closed stays closed

\* Only a session-initiate of its own brings a session back.
LEMMA ClosedKept ==
  ASSUME TypeOK, SidInv, Next, NEW p \in Party, NEW s \in held[p], jingle[p][s] = None,
         \A q \in Party : Deliver(p, q) \/ Duplicate(p, q) =>
           wire[q][p][1] # Stanza("session-initiate", s)
  PROVE  jingle'[p][s] = None
<1>0. s \in Sid
  BY DEF TypeOK
<1>1. PICK x \in Party :
    \/ \E q \in Party : StartCall(x, q)
    \/ EndCallClicked(x) \/ AcceptClicked(x) \/ DeclineClicked(x)
    \/ Login(x) \/ Logout(x)
    \/ HandleEvent(x)
    \/ \E c : InitiateCall(x, c)
    \/ \E c : AcceptCall(x, c) \/ RejectCall(x, c) \/ EndCall(x, c)
    \/ \E c : IgnoreCommand(x, c) \/ Connect(x, c) \/ Disconnect(x, c)
    \/ \E q \in Party : Deliver(x, q) \/ Duplicate(x, q)
    \/ Online(x) \/ SendFails(x) \/ StreamLost(x)
    \/ \E q \in Party : Bounce(x, q) \/ LoseTail(x, q)
  BY Steps
<1>2. CASE \/ \E q \in Party : StartCall(x, q)
           \/ EndCallClicked(x) \/ AcceptClicked(x) \/ DeclineClicked(x)
           \/ Login(x) \/ Logout(x) \/ HandleEvent(x)
           \/ \E c : IgnoreCommand(x, c) \/ Connect(x, c) \/ Disconnect(x, c)
  BY <1>2 DEF StartCall, EndCallClicked, AcceptClicked, DeclineClicked, Login, Logout,
     HandleEvent, IgnoreCommand, Connect, Disconnect, worker
<1>3. ASSUME NEW c, InitiateCall(x, c)
      PROVE  jingle'[p][s] = None
  <2> DEFINE sid == <<x, initiated[x] + 1, "worker">>
  <2>1. sid \in Sid /\ Open(x, sid, c.with, "PendingOutgoing")
    BY <1>3, IdLeft DEF InitiateCall
  <2>2. ~(p = x /\ s = sid)
    <3>1. initiated[x] \in Nat /\ s[2] <= initiated[s[1]]
      BY DEF TypeOK, SidInv, HeldMade
    <3>2. QED
      BY <3>1
  <2> HIDE DEF sid
  <2>3. QED
    BY <1>0, <2>1, <2>2, OpenedElsewhere
<1>4. ASSUME NEW c, AcceptCall(x, c) \/ RejectCall(x, c) \/ EndCall(x, c)
      PROVE  jingle'[p][s] = None
  <2>1. c.sid \in Sid
    BY <1>4, TakeType, CommandsType DEF AcceptCall, RejectCall, EndCall
  <2>2. CASE AcceptCall(x, c)
    <3>1. jingle[x][c.sid] # None /\ Activate(x, c.sid)
      BY <2>2 DEF AcceptCall, SessionWith
    <3>2. QED
      BY <1>0, <2>1, <3>1, ActivatedElsewhere
  <2>3. CASE RejectCall(x, c) \/ EndCall(x, c)
    <3>1. Remove(x, c.sid)
      BY <2>3 DEF RejectCall, EndCall
    <3>2. QED
      BY <1>0, <2>1, <3>1, Removed
  <2>4. QED
    BY <1>4, <2>2, <2>3
<1>5. ASSUME NEW q \in Party, Deliver(x, q) \/ Duplicate(x, q)
      PROVE  jingle'[p][s] = None
  <2> DEFINE m == Head(wire[q][x])
  <2>1. m \in Stanzas /\ m = wire[q][x][1] /\ 1 \in DOMAIN wire[q][x] /\ HandleRequest(x, q, m)
    BY <1>5, NextRequest DEF Deliver, Duplicate
  <2>2. m = Stanza(m.action, m.sid) /\ m.sid \in Sid
    BY <2>1, StanzasType
  <2>3. m.action = "session-initiate" => x # p \/ m.sid # s
    BY <1>5, <2>1, <2>2
  <2> HIDE DEF m
  <2>4. CASE UNCHANGED jingle
    BY <2>4
  <2>5. CASE m.action = "session-initiate" /\ Open(x, m.sid, q, "PendingIncoming")
    BY <1>0, <2>2, <2>3, <2>5, OpenedElsewhere
  <2>6. CASE SessionWith(x, m.sid, q) /\ Activate(x, m.sid)
    BY <1>0, <2>2, <2>6, ActivatedElsewhere DEF SessionWith
  <2>7. CASE Remove(x, m.sid)
    BY <1>0, <2>2, <2>7, Removed
  <2>8. QED
    BY <2>1, <2>4, <2>5, <2>6, <2>7
       DEF HandleRequest, OnSessionInitiate, OnSessionAccept, OnSessionTerminate
<1>6. CASE \/ Online(x) \/ SendFails(x) \/ StreamLost(x)
           \/ \E q \in Party : Bounce(x, q) \/ LoseTail(x, q)
  <2>1. UNCHANGED jingle \/ jingle' = [jingle EXCEPT ![x] = [t \in Sid |-> None]]
    BY <1>6 DEF Online, SendFails, StreamLost, Bounce, LoseTail, worker
  <2>2. jingle \in [Party -> [Sid -> Session \cup {None}]]
    BY DEF TypeOK
  <2>3. QED
    BY <1>0, <2>1, <2>2
<1>7. QED
  BY <1>1, <1>2, <1>3, <1>4, <1>5, <1>6

\* A session that its own party has started and that is over is never opened again,
\* whatever is lost, broken or delivered twice: nobody else can send the
\* session-initiate that would open it (handle_jingle_event).
THEOREM OwnCallsStayClosed == Spec => OwnCallStaysClosed
<1> DEFINE Kept == \A p \in Party : \A s \in held[p] :
                     s[1] = p /\ jingle[p][s] = None => jingle'[p][s] = None
<1>1. ASSUME TypeOK, SidInv, Next PROVE Kept
  <2> SUFFICES ASSUME NEW p \in Party, NEW s \in held[p], s[1] = p, jingle[p][s] = None
               PROVE  jingle'[p][s] = None
    OBVIOUS
  <2>1. ASSUME NEW q \in Party, Deliver(p, q) \/ Duplicate(p, q)
        PROVE  wire[q][p][1] # Stanza("session-initiate", s)
    <3>1. 1 \in DOMAIN wire[q][p]
      BY <1>1, <2>1, NextRequest DEF Deliver, Duplicate
    <3>2. QED
      BY <1>1, <3>1 DEF SidInv, WireSides, Stanza
  <2>2. QED
    BY <1>1, <2>1, ClosedKept
<1>2. TypeOK /\ SidInv /\ [Next]_vars => [Kept]_vars
  BY <1>1
<1>3. QED
  BY <1>2, TypeCorrect, SidsCorrect, PTL DEF Spec, OwnCallStaysClosed

LEMMA StaysClosed ==
  ASSUME TypeOK, SidInv, OnceInv, Next, duplicates' = 0, NEW p \in Party, NEW s \in held[p],
         jingle[p][s] = None
  PROVE  jingle'[p][s] = None
<1>1. InitiatesOnce
  BY NoneDoubled DEF OnceInv
<1>2. ASSUME NEW q \in Party, Deliver(p, q) \/ Duplicate(p, q)
      PROVE  wire[q][p][1] # Stanza("session-initiate", s)
  <2>1. 1 \in DOMAIN wire[q][p]
    BY <1>2, NextRequest DEF Deliver, Duplicate
  <2>2. QED
    BY <1>1, <2>1 DEF InitiatesOnce, Initiates, Stanza
<1>3. QED
  BY <1>2, ClosedKept

\* A session that is over is never opened again, as long as no request is delivered
\* twice: the worker of the callee keeps no record of sessions it has ended, so this
\* rests on a session having one session-initiate.
THEOREM SessionsStayClosed == Spec => ClosedStaysClosed
<1> DEFINE Kept == \A p \in Party : \A s \in held[p] :
                     jingle[p][s] = None => jingle'[p][s] = None
<1>1. TypeOK /\ SidInv /\ OnceInv /\ [Next]_vars => [duplicates' = 0 => Kept]_vars
  BY StaysClosed
<1>2. QED
  BY <1>1, TypeCorrect, SidsCorrect, OnceCorrect, PTL DEF Spec, ClosedStaysClosed

-----------------------------------------------------------------------------
\* What is shown is live

Same(x) ==
  /\ ui'[x] = ui[x] /\ cmds'[x] = cmds[x] /\ events'[x] = events[x]
  /\ client'[x] = client[x] /\ healthy'[x] = healthy[x]
  /\ held'[x] = held[x]
  /\ \A t \in Sid : jingle'[x][t] = jingle[x][t]

\* A step is one party's: nothing else of the others changes than their wires.
LEMMA Local ==
  ASSUME TypeOK, NEW p \in Party,
    \/ \E q \in Party : StartCall(p, q)
    \/ EndCallClicked(p) \/ AcceptClicked(p) \/ DeclineClicked(p)
    \/ Login(p) \/ Logout(p)
    \/ HandleEvent(p)
    \/ \E c : InitiateCall(p, c)
    \/ \E c : AcceptCall(p, c) \/ RejectCall(p, c) \/ EndCall(p, c)
    \/ \E c : IgnoreCommand(p, c) \/ Connect(p, c) \/ Disconnect(p, c)
    \/ \E q \in Party : Deliver(p, q) \/ Duplicate(p, q)
    \/ Online(p) \/ SendFails(p) \/ StreamLost(p)
    \/ \E q \in Party : Bounce(p, q) \/ LoseTail(p, q)
  PROVE  \A x \in Party : x # p => Same(x)
<1> SUFFICES ASSUME NEW x \in Party, x # p PROVE Same(x)
  OBVIOUS
<1>0. /\ client \in [Party -> {"none", "connecting", "online"}]
      /\ healthy \in [Party -> BOOLEAN] /\ cmds \in [Party -> SUBSET Commands]
      /\ ui \in [Party -> Screen] /\ events \in [Party -> Seq(Events)]
      /\ jingle \in [Party -> [Sid -> Session \cup {None}]]
  BY DEF TypeOK
<1>1. CASE \/ \E q \in Party : StartCall(p, q)
           \/ EndCallClicked(p) \/ AcceptClicked(p) \/ DeclineClicked(p)
           \/ Login(p) \/ Logout(p)
  BY <1>1, UserDoes DEF Same
<1>2. CASE HandleEvent(p)
  <2>1. UNCHANGED ui \/ \E y : ui' = [ui EXCEPT ![p] = y]
    BY <1>2 DEF HandleEvent, OnCallEnded, OnCallAccepted, OnIncomingCall
  <2>2. UNCHANGED cmds \/ \E y : cmds' = [cmds EXCEPT ![p] = y]
    BY <1>2 DEF HandleEvent, OnCallEnded, OnCallAccepted, OnIncomingCall, Perform
  <2>3. UNCHANGED <<jingle, client, healthy, held>>
    BY <1>2 DEF HandleEvent, worker
  <2>4. ui'[x] = ui[x] /\ cmds'[x] = cmds[x]
    BY <1>0, <2>1, <2>2
  <2>5. QED
    BY <1>2, <2>3, <2>4, EventHandled DEF Same
<1>3. ASSUME NEW c, InitiateCall(p, c) PROVE Same(x)
  <2> DEFINE sid == <<p, initiated[p] + 1, "worker">>
  <2>1. /\ sid \in Sid
        /\ cmds' = [cmds EXCEPT ![p] = @ \ {c}] /\ UNCHANGED <<ui, events, client, healthy>>
        /\ Open(p, sid, c.with, "PendingOutgoing")
    BY <1>3, IdLeft DEF InitiateCall, Take
  <2> HIDE DEF sid
  <2>2. held'[x] = held[x] /\ cmds'[x] = cmds[x]
    BY <1>0, <2>1 DEF Open, TypeOK
  <2>3. \A t \in Sid : jingle'[x][t] = jingle[x][t]
    BY <2>1, OpenedElsewhere
  <2>4. QED
    BY <2>1, <2>2, <2>3 DEF Same
<1>4. ASSUME NEW c, AcceptCall(p, c) \/ RejectCall(p, c) \/ EndCall(p, c) PROVE Same(x)
  <2>1. c \in Commands /\ c.type \in {"AcceptCall", "RejectCall", "EndCall"}
        /\ cmds' = [cmds EXCEPT ![p] = @ \ {c}] /\ UNCHANGED <<ui, client, healthy, held>>
    BY <1>4, TakeType DEF AcceptCall, RejectCall, EndCall, Take
  <2>2. c.sid \in Sid
    BY <2>1, CommandsType
  <2>3. cmds'[x] = cmds[x]
    BY <1>0, <2>1
  <2>4. \A t \in Sid : jingle'[x][t] = jingle[x][t]
    <3>1. CASE AcceptCall(p, c)
      BY <2>2, <3>1, ActivatedElsewhere DEF AcceptCall, SessionWith
    <3>2. CASE RejectCall(p, c) \/ EndCall(p, c)
      BY <2>2, <3>2, Removed DEF RejectCall, EndCall
    <3>3. QED
      BY <1>4, <3>1, <3>2
  <2>5. events'[x] = events[x]
    BY <1>0, <1>4 DEF AcceptCall, RejectCall, EndCall, Tell
  <2>6. QED
    BY <2>1, <2>3, <2>4, <2>5 DEF Same
<1>5. ASSUME NEW c, IgnoreCommand(p, c) \/ Connect(p, c) \/ Disconnect(p, c) PROVE Same(x)
  <2>1. cmds' = [cmds EXCEPT ![p] = @ \ {c}] /\ UNCHANGED <<ui, jingle, held>>
    BY <1>5 DEF IgnoreCommand, Connect, Disconnect, Take, worker
  <2>2. cmds'[x] = cmds[x]
    BY <1>0, <2>1
  <2>3. events'[x] = events[x] /\ client'[x] = client[x] /\ healthy'[x] = healthy[x]
    BY <1>0, <1>5 DEF IgnoreCommand, Connect, Disconnect, worker, Tell
  <2>4. QED
    BY <2>1, <2>2, <2>3 DEF Same
<1>6. ASSUME NEW q \in Party, Deliver(p, q) \/ Duplicate(p, q) PROVE Same(x)
  <2> DEFINE m == Head(wire[q][p])
  <2>1. m \in Stanzas /\ HandleRequest(p, q, m)
    BY <1>6, NextRequest DEF Deliver, Duplicate
  <2>2. m.sid \in Sid
    BY <2>1, StanzasType
  <2> HIDE DEF m
  <2>3. UNCHANGED <<ui, cmds, client, healthy>>
    BY <2>1 DEF HandleRequest
  <2>4. events'[x] = events[x]
    BY <1>0, <2>1 DEF HandleRequest, OnSessionInitiate, OnSessionAccept, OnSessionTerminate, Tell
  <2>5. held'[x] = held[x]
    BY <2>1 DEF HandleRequest, OnSessionInitiate, OnSessionAccept, OnSessionTerminate, Open, TypeOK
  <2>6. \A t \in Sid : jingle'[x][t] = jingle[x][t]
    BY <2>1, <2>2, OpenedElsewhere, ActivatedElsewhere, Removed
       DEF HandleRequest, OnSessionInitiate, OnSessionAccept, OnSessionTerminate, SessionWith
  <2>7. QED
    BY <2>3, <2>4, <2>5, <2>6 DEF Same
<1>7. CASE Online(p) \/ SendFails(p) \/ StreamLost(p)
  <2>1. UNCHANGED <<ui, cmds, held>>
    BY <1>7 DEF Online, SendFails, StreamLost
  <2>2. events'[x] = events[x] /\ client'[x] = client[x] /\ healthy'[x] = healthy[x]
        /\ jingle'[x] = jingle[x]
    BY <1>0, <1>7 DEF Online, SendFails, StreamLost, Tell
  <2>3. QED
    BY <2>1, <2>2 DEF Same
<1>8. CASE \E q \in Party : Bounce(p, q) \/ LoseTail(p, q)
  BY <1>8 DEF Bounce, LoseTail, worker, Same
<1>9. QED
  BY <1>1, <1>2, <1>3, <1>4, <1>5, <1>6, <1>7, <1>8

LEMMA OthersShown ==
  ASSUME TypeOK, NEW x \in Party, Same(x)
  PROVE  /\ OfflineTold(x) => OfflineTold(x)'
         /\ EventsLive(x) => EventsLive(x)'
         /\ ScreenLive(x) => ScreenLive(x)'
<1>1. ui'[x] = ui[x] /\ cmds'[x] = cmds[x] /\ events'[x] = events[x] /\ client'[x] = client[x]
      /\ \A t \in Sid : jingle'[x][t] = jingle[x][t]
  BY DEF Same
<1>2. OfflineTold(x) => OfflineTold(x)'
  BY <1>1 DEF OfflineTold, OfflineAfter
<1>3. \A i, s : EndsAfter(x, i, s)' <=> EndsAfter(x, i, s)
  BY <1>1 DEF EndsAfter
<1>4. EventsLive(x) => EventsLive(x)'
  <2>1. \A e \in Events : e.type \in {"IncomingCall", "CallAccepted"} => e.sid \in Sid
    BY EventsType
  <2>2. QED
    BY <1>1, <1>3, <2>1 DEF EventsLive, Incoming, Talking, SessionWith
<1>5. ScreenLive(x) => ScreenLive(x)'
  BY <1>1, <1>3 DEF ScreenLive, Call, Incoming, Answered, SessionWith
<1>6. QED
  BY <1>2, <1>4, <1>5

\* ShownIsLive is the screen's part of the invariant.
LEMMA ShownIs ==
  ASSUME TypeOK
  PROVE  ShownIsLive <=> (duplicates = 0 => \A p \in Party : ScreenLive(p))
<1>1. \A p \in Party, s \in Sid : EndsAfter(p, 0, s) <=>
        Told(p, "CallEnded", s) \/ Told(p, "Disconnected", None)
  <2> SUFFICES ASSUME NEW p \in Party, NEW s \in Sid
               PROVE  EndsAfter(p, 0, s) <=>
                        Told(p, "CallEnded", s) \/ Told(p, "Disconnected", None)
    OBVIOUS
  <2>1. \A i \in DOMAIN events[p] : 0 < i
    BY DEF TypeOK
  <2>2. \A i \in DOMAIN events[p] : events[p][i].type = "Disconnected" => events[p][i].sid = None
    BY Elements DEF Events, CallEvent, Event
  <2>3. QED
    BY <2>1, <2>2 DEF EndsAfter, Ends, Told
<1>2. QED
  BY <1>1, ShownType DEF ShownIsLive, ScreenLive

\* What is told later, after one more event.
LEMMA ToldLater ==
  ASSUME TypeOK, NEW p \in Party, NEW e \in Events, Tell(p, e)
  PROVE  /\ \A i, s : EndsAfter(p, i, s) => EndsAfter(p, i, s)'
         /\ \A i : OfflineAfter(p, i) => OfflineAfter(p, i)'
         /\ \A s : Ends(e, s) => \A i \in DOMAIN events[p] \cup {0} : EndsAfter(p, i, s)'
         /\ e.type = "Disconnected" =>
              \A i \in DOMAIN events[p] \cup {0} : OfflineAfter(p, i)'
         /\ \A i \in DOMAIN events'[p] :
              \/ i \in DOMAIN events[p] /\ events'[p][i] = events[p][i]
              \/ i \notin DOMAIN events[p] /\ events'[p][i] = e
<1>1. Grown(events[p], events'[p], e)
  BY EventTold
<1>2. \A i, s : EndsAfter(p, i, s) => EndsAfter(p, i, s)'
  BY <1>1 DEF Grown, EndsAfter
<1>3. \A i : OfflineAfter(p, i) => OfflineAfter(p, i)'
  BY <1>1 DEF Grown, OfflineAfter
<1>4. PICK j \in DOMAIN events'[p] :
        /\ j \notin DOMAIN events[p] /\ events'[p][j] = e
        /\ \A i \in DOMAIN events[p] \cup {0} : i < j
  BY <1>1 DEF Grown
<1>5. \A s : Ends(e, s) => \A i \in DOMAIN events[p] \cup {0} : EndsAfter(p, i, s)'
  BY <1>4 DEF EndsAfter
<1>6. e.type = "Disconnected" => \A i \in DOMAIN events[p] \cup {0} : OfflineAfter(p, i)'
  BY <1>4 DEF OfflineAfter
<1>7. QED
  BY <1>1, <1>2, <1>3, <1>5, <1>6 DEF Grown

LEMMA ToldLive ==
  ASSUME TypeOK, NEW p \in Party, NEW e \in Events, Tell(p, e), UNCHANGED ui,
         EventsLive(p), ScreenLive(p),
         \A c \in Call : c # None =>
           /\ ui[p].incoming = c /\ Incoming(p, c) => Incoming(p, c)' \/ Ends(e, c.sid)
           /\ ui[p].call = c /\ Answered(p, c) => Answered(p, c)' \/ Ends(e, c.sid),
         \A i \in DOMAIN events[p] : \A f \in Events : f = events[p][i] =>
           /\ f.type = "IncomingCall" /\ Incoming(p, f) => Incoming(p, f)' \/ Ends(e, f.sid)
           /\ f.type = "CallAccepted" /\ Talking(p, f) => Talking(p, f)' \/ Ends(e, f.sid),
         e.type = "IncomingCall" => Incoming(p, e)',
         e.type = "CallAccepted" => Talking(p, e)'
  PROVE  EventsLive(p)' /\ ScreenLive(p)'
<1>1. ScreenLive(p)'
  BY ToldLater DEF ScreenLive
<1>2. ASSUME NEW i \in DOMAIN events'[p], NEW f \in Events, f = events'[p][i]
      PROVE  /\ f.type = "IncomingCall" => Incoming(p, f)' \/ EndsAfter(p, i, f.sid)'
             /\ f.type = "CallAccepted" => Talking(p, f)' \/ EndsAfter(p, i, f.sid)'
  <2>1. CASE i \in DOMAIN events[p] /\ f = events[p][i]
    <3>1. /\ f.type = "IncomingCall" => Incoming(p, f) \/ EndsAfter(p, i, f.sid)
          /\ f.type = "CallAccepted" => Talking(p, f) \/ EndsAfter(p, i, f.sid)
      BY <2>1 DEF EventsLive
    <3>2. /\ f.type = "IncomingCall" /\ Incoming(p, f) => Incoming(p, f)' \/ Ends(e, f.sid)
          /\ f.type = "CallAccepted" /\ Talking(p, f) => Talking(p, f)' \/ Ends(e, f.sid)
      BY <2>1
    <3>3. /\ EndsAfter(p, i, f.sid) => EndsAfter(p, i, f.sid)'
          /\ Ends(e, f.sid) => EndsAfter(p, i, f.sid)'
      BY <2>1, ToldLater
    <3>4. QED
      BY <3>1, <3>2, <3>3
  <2>2. CASE f = e
    BY <2>2
  <2>3. QED
    BY <1>2, <2>1, <2>2, ToldLater
<1>3. EventsLive(p)'
  BY <1>2 DEF EventsLive
<1>4. QED
  BY <1>1, <1>3

LEMMA QuietLive ==
  ASSUME TypeOK, NEW p \in Party, UNCHANGED <<ui, events>>,
         EventsLive(p), ScreenLive(p),
         \A c \in Call : ui[p].call = c /\ c # None /\ c.sid[3] = "worker" /\ Answered(p, c) =>
           Answered(p, c)' \/ EndsAfter(p, 0, c.sid),
         \A s \in Sid : jingle[p][s] # None => jingle'[p][s] = jingle[p][s]
  PROVE  EventsLive(p)' /\ ScreenLive(p)'
<1>1. ui' = ui /\ events' = events
  OBVIOUS
<1>2. \A i, s : EndsAfter(p, i, s) <=> EndsAfter(p, i, s)'
  BY <1>1 DEF EndsAfter
<1>3. \A c : c.sid \in Sid => /\ Incoming(p, c) => Incoming(p, c)'
                              /\ Talking(p, c) => Talking(p, c)'
  BY DEF Incoming, Talking, SessionWith
<1>4. ScreenLive(p)'
  <2>1. \A c \in Call : c.sid \in Sid
    BY DEF Call
  <2>2. QED
    BY <1>1, <1>2, <1>3, <2>1 DEF ScreenLive
<1>5. EventsLive(p)'
  <2>1. \A e \in Events : e.type \in {"IncomingCall", "CallAccepted"} => e.sid \in Sid
    BY EventsType
  <2>2. QED
    BY <1>1, <1>2, <1>3, <2>1 DEF EventsLive
<1>6. QED
  BY <1>4, <1>5

\* An answer of the user that the worker drops is one it has acted on.
LEMMA AnswerDropped ==
  ASSUME TypeOK, SidInv, NEW p \in Party, NEW c,
         cmds' = [cmds EXCEPT ![p] = @ \ {c}], UNCHANGED jingle,
         c.type = "AcceptCall" =>
           ~(SessionWith(p, c.sid, c.with) /\ jingle[p][c.sid].state = "PendingIncoming")
  PROVE  \A d \in Call : Answered(p, d) => Answered(p, d)'
<1> SUFFICES ASSUME NEW d \in Call, Answered(p, d), jingle[p][d.sid].state # "Active"
             PROVE  Command("AcceptCall", d.with, d.sid) \in cmds'[p]
  BY DEF Answered, SessionWith
<1> DEFINE a == Command("AcceptCall", d.with, d.sid)
<1>1. d.sid \in Sid /\ d.with \in Party
  BY DEF Call
<1>2. /\ a \in cmds[p] /\ a.type = "AcceptCall" /\ a.sid = d.sid /\ a.with = d.with
      /\ SessionWith(p, d.sid, d.with)
  BY DEF Answered, Command
<1> HIDE DEF a
<1>3. d.sid[1] # p
  BY <1>2 DEF SidInv, CommandSides, Incomes
<1>4. jingle[p][d.sid] \in Session /\ jingle[p][d.sid].state # "PendingOutgoing"
  BY <1>1, <1>2, <1>3 DEF SidInv, SessionSides, SessionWith, TypeOK
<1>5. jingle[p][d.sid].state = "PendingIncoming"
  BY <1>4 DEF Session
<1>6. a # c
  BY <1>2, <1>5
<1>7. QED
  BY <1>2, <1>6 DEF a, TypeOK

\* The screen through the commands.
LEMMA InitiateCallShown ==
  ASSUME TypeOK, SidInv, NEW p \in Party, NEW c, InitiateCall(p, c), EventsLive(p), ScreenLive(p)
  PROVE  EventsLive(p)' /\ ScreenLive(p)'
<1> DEFINE sid == <<p, initiated[p] + 1, "worker">>
<1>1. /\ sid \in Sid
      /\ cmds' = [cmds EXCEPT ![p] = @ \ {c}] /\ c.type = "InitiateCall"
      /\ UNCHANGED <<ui, events>>
      /\ Open(p, sid, c.with, "PendingOutgoing")
  BY IdLeft DEF InitiateCall, Take
<1>2. \A x \in Party : sid \notin held[x]
  <2>1. sid[1] = p /\ sid[2] = initiated[p] + 1 /\ initiated[p] \in Nat
    BY DEF TypeOK
  <2> HIDE DEF sid
  <2>2. QED
    BY <2>1 DEF SidInv, HeldMade
<1> HIDE DEF sid
<1>3. \A s \in Sid : jingle[p][s] # None => jingle'[p][s] = jingle[p][s]
  BY <1>1, <1>2, OpenedElsewhere DEF SidInv, SessionSides
<1>4. ASSUME NEW d \in Call, Answered(p, d) PROVE Answered(p, d)'
  <2>1. jingle'[p][d.sid] = jingle[p][d.sid]
    BY <1>3, <1>4 DEF Answered, SessionWith, Call
  <2>2. Command("AcceptCall", d.with, d.sid) # c
    BY <1>1 DEF Command
  <2>3. Command("AcceptCall", d.with, d.sid) \in cmds[p] =>
          Command("AcceptCall", d.with, d.sid) \in cmds'[p]
    BY <1>1, <2>2 DEF TypeOK
  <2>4. QED
    BY <1>4, <2>1, <2>3 DEF Answered, SessionWith
<1>5. QED
  BY <1>1, <1>3, <1>4, QuietLive

LEMMA AcceptCallShown ==
  ASSUME TypeOK, SidInv, AskedOnce, NEW p \in Party, NEW c, AcceptCall(p, c),
         EventsLive(p), ScreenLive(p)
  PROVE  EventsLive(p)' /\ ScreenLive(p)'
<1> DEFINE e == Event("CallAccepted", c.with, c.sid)
           a == [peer |-> jingle[p][c.sid].peer, state |-> "Active"]
<1>1. /\ c \in cmds[p] /\ c \in Commands /\ c.type = "AcceptCall"
      /\ cmds' = [cmds EXCEPT ![p] = @ \ {c}] /\ UNCHANGED ui
      /\ SessionWith(p, c.sid, c.with) /\ jingle[p][c.sid].state = "PendingIncoming"
      /\ Activate(p, c.sid) /\ Tell(p, e)
  BY TakeType DEF AcceptCall, Take
<1>2. c.with \in Party /\ c.sid \in Sid
  BY <1>1, CommandsType
<1>3. e \in Events /\ e.type = "CallAccepted" /\ e.with = c.with /\ e.sid = c.sid
  BY <1>2, EventsType
<1>4. \A r \in Party, t \in Sid : jingle'[r][t] = IF r = p /\ t = c.sid THEN a ELSE jingle[r][t]
  BY <1>1, <1>2, Activated DEF SessionWith
<1>5. a.peer = c.with /\ a.state = "Active" /\ a # None
  <2>1. a \in Session
    BY <1>1, <1>2 DEF TypeOK, SessionWith, Session
  <2>2. a.peer = c.with /\ a.state = "Active"
    BY <1>1 DEF SessionWith
  <2> HIDE DEF a
  <2>3. QED
    BY <2>1, <2>2, NoneApart
<1>6. Answering(p, c.sid)
  BY <1>1 DEF Answering
<1> HIDE DEF e, a
<1>7. \A d : d.sid \in Sid /\ d.sid # c.sid =>
         /\ Incoming(p, d) => Incoming(p, d)'
         /\ Talking(p, d) => Talking(p, d)'
  BY <1>4 DEF Incoming, Talking, SessionWith
<1>8. ASSUME NEW d \in Call
      PROVE  /\ ui[p].incoming = d /\ d # None /\ Incoming(p, d) => Incoming(p, d)'
             /\ Answered(p, d) => Answered(p, d)'
  <2>0. d.sid \in Sid
    BY DEF Call
  <2>1. ui[p].incoming = d /\ d # None => d.sid # c.sid
    BY <1>6 DEF AskedOnce
  <2>2. Answered(p, d) /\ d.sid # c.sid => Answered(p, d)'
    <3>1. Command("AcceptCall", d.with, d.sid) \in cmds[p] /\ d.sid # c.sid =>
            Command("AcceptCall", d.with, d.sid) \in cmds'[p]
      BY <1>1 DEF Command, TypeOK
    <3>2. d.sid # c.sid => jingle'[p][d.sid] = jingle[p][d.sid]
      BY <1>4, <2>0
    <3>3. QED
      BY <3>1, <3>2 DEF Answered, SessionWith
  <2>3. Answered(p, d) /\ d.sid = c.sid => Answered(p, d)'
    <3>1. jingle'[p][c.sid] = a
      BY <1>2, <1>4
    <3>2. QED
      BY <1>1, <1>5, <3>1 DEF Answered, SessionWith
  <2>4. QED
    BY <1>7, <2>0, <2>1, <2>2, <2>3
<1>9. ASSUME NEW i \in DOMAIN events[p], NEW f \in Events, f = events[p][i]
      PROVE  /\ f.type = "IncomingCall" /\ Incoming(p, f) => Incoming(p, f)'
             /\ f.type = "CallAccepted" /\ Talking(p, f) => Talking(p, f)'
  <2>1. f.type \in {"IncomingCall", "CallAccepted"} => f.sid \in Sid
    BY EventsType
  <2>2. f.type = "IncomingCall" => f.sid # c.sid
    BY <1>6, <1>9 DEF AskedOnce
  <2>3. Talking(p, f) => f.sid # c.sid
    BY <1>1 DEF Talking
  <2>4. QED
    BY <1>7, <2>1, <2>2, <2>3
<1>10. Talking(p, e)'
  BY <1>2, <1>3, <1>4, <1>5 DEF Talking, SessionWith
<1>11. QED
  BY <1>1, <1>3, <1>8, <1>9, <1>10, ToldLive

LEMMA EndShown ==
  ASSUME TypeOK, SidInv, NEW p \in Party, NEW c, RejectCall(p, c) \/ EndCall(p, c),
         EventsLive(p), ScreenLive(p)
  PROVE  EventsLive(p)' /\ ScreenLive(p)'
<1> DEFINE e == Event("CallEnded", c.with, c.sid)
<1>1. /\ c \in Commands /\ c.type \in {"RejectCall", "EndCall"}
      /\ cmds' = [cmds EXCEPT ![p] = @ \ {c}] /\ UNCHANGED ui
      /\ Remove(p, c.sid) /\ Tell(p, e)
  BY TakeType DEF RejectCall, EndCall, Take
<1>2. c.with \in Party /\ c.sid \in Sid
  BY <1>1, CommandsType
<1>3. e \in Events /\ e.type = "CallEnded" /\ e.sid = c.sid /\ Ends(e, c.sid)
  BY <1>2, EventsType DEF Ends
<1> HIDE DEF e
<1>4. \A d : d.sid \in Sid /\ d.sid # c.sid => jingle'[p][d.sid] = jingle[p][d.sid]
  BY <1>1, <1>2, Removed
<1>5. \A d : d.sid \in Sid =>
         /\ Incoming(p, d) => Incoming(p, d)' \/ Ends(e, d.sid)
         /\ Talking(p, d) => Talking(p, d)' \/ Ends(e, d.sid)
  BY <1>3, <1>4 DEF Incoming, Talking, SessionWith
<1>6. \A d : d.sid \in Sid => (Answered(p, d) => Answered(p, d)' \/ Ends(e, d.sid))
  <2>1. \A d : Command("AcceptCall", d.with, d.sid) \in cmds[p] =>
          Command("AcceptCall", d.with, d.sid) \in cmds'[p]
    BY <1>1 DEF Command, TypeOK
  <2>2. QED
    BY <1>3, <1>4, <2>1 DEF Answered, SessionWith
<1>7. /\ \A d \in Call : d.sid \in Sid
      /\ \A f \in Events : f.type \in {"IncomingCall", "CallAccepted"} => f.sid \in Sid
  BY EventsType DEF Call
<1>8. QED
  BY <1>1, <1>3, <1>5, <1>6, <1>7, ToldLive

LEMMA OtherCommandShown ==
  ASSUME TypeOK, SidInv, NEW p \in Party, NEW c,
         IgnoreCommand(p, c) \/ Connect(p, c) \/ Disconnect(p, c), OfflineTold(p),
         EventsLive(p), ScreenLive(p)
  PROVE  EventsLive(p)' /\ ScreenLive(p)'
<1>1. cmds' = [cmds EXCEPT ![p] = @ \ {c}] /\ UNCHANGED <<ui, jingle>>
  BY DEF IgnoreCommand, Connect, Disconnect, Take, worker
<1>2. \A s \in Sid : jingle'[p][s] = jingle[p][s]
  BY <1>1
<1>3. CASE (IgnoreCommand(p, c) /\ client[p] # "none") \/ Connect(p, c)
  <2>1. c.type = "AcceptCall" =>
          ~(SessionWith(p, c.sid, c.with) /\ jingle[p][c.sid].state = "PendingIncoming")
    BY <1>3 DEF IgnoreCommand, Rejected, Connect
  <2>2. \A d \in Call : Answered(p, d) => Answered(p, d)'
    BY <1>1, <2>1, AnswerDropped
  <2>3. UNCHANGED <<ui, events>>
    BY <1>3 DEF IgnoreCommand, Connect
  <2>4. QED
    BY <1>2, <2>2, <2>3, QuietLive
<1>4. CASE IgnoreCommand(p, c) /\ client[p] = "none"
  <2>1. \A d \in Call : ui[p].call = d /\ d # None /\ d.sid[3] = "worker" => EndsAfter(p, 0, d.sid)
    BY <1>4 DEF OfflineTold, OfflineAfter, EndsAfter, Ends
  <2>2. UNCHANGED <<ui, events>>
    BY <1>4 DEF IgnoreCommand
  <2>3. QED
    BY <1>2, <2>1, <2>2, QuietLive
<1>5. CASE Disconnect(p, c)
  <2> DEFINE e == Event("Disconnected", None, None)
  <2>1. /\ e \in Events /\ e.type = "Disconnected" /\ \A s : Ends(e, s)
        /\ Tell(p, e)
    BY <1>5, EventsType DEF Ends, Disconnect
  <2> HIDE DEF e
  <2>2. QED
    BY <1>1, <2>1, ToldLive
<1>6. QED
  BY <1>3, <1>4, <1>5

\* The screen through the requests, the connection and the user.
LEMMA DeliverShown ==
  ASSUME TypeOK, SidInv, InitiatesOnce, NEW p \in Party, NEW q \in Party, Deliver(p, q),
         EventsLive(p), ScreenLive(p)
  PROVE  EventsLive(p)' /\ ScreenLive(p)'
<1>1. PICK m \in Stanzas : m = Head(wire[q][p]) /\ HandleRequest(p, q, m) /\ UNCHANGED <<ui, cmds>>
  BY Delivered DEF Deliver, HandleRequest
<1>2. m = wire[q][p][1] /\ 1 \in DOMAIN wire[q][p] /\ m \in Stanzas /\ m.sid \in Sid
  BY <1>1, Delivered, StanzasType
<1>3. m.action = "session-initiate" => m.sid \notin held[p]
  BY <1>2 DEF InitiatesOnce, Initiates
<1>4. /\ \A d \in Call : d.sid \in Sid
      /\ \A f \in Events : f.type \in {"IncomingCall", "CallAccepted"} => f.sid \in Sid
  BY EventsType DEF Call
<1>5. CASE OnSessionInitiate(p, q, m)
  <2> DEFINE e == Event("IncomingCall", q, m.sid)
             a == [peer |-> q, state |-> "PendingIncoming"]
  <2>1. m.sid \notin held[p] /\ jingle[p][m.sid] = None
    BY <1>2, <1>3, <1>5 DEF OnSessionInitiate, SidInv, SessionSides
  <2>2. Open(p, m.sid, q, "PendingIncoming") /\ Tell(p, e)
    BY <1>5, <2>1 DEF OnSessionInitiate
  <2>3. e \in Events /\ e.type = "IncomingCall" /\ e.sid = m.sid /\ e.with = q
    BY <1>2, EventsType
  <2>4. a.peer = q /\ a.state = "PendingIncoming" /\ a # None
    <3>1. a \in Session
      BY DEF Session
    <3> HIDE DEF a
    <3>2. a # None
      BY <3>1, NoneApart
    <3>3. QED
      BY <3>2 DEF a
  <2>5. /\ \A r \in Party, t \in Sid : jingle'[r][t] =
              IF r = p /\ t = m.sid THEN a ELSE jingle[r][t]
        /\ \A r \in Party : held'[r] = IF r = p THEN held[p] \cup {m.sid} ELSE held[r]
    BY <1>2, <2>2, Opened
  <2> HIDE DEF e, a
  <2>6. \A t \in Sid : jingle[p][t] # None => jingle'[p][t] = jingle[p][t]
    BY <2>1, <2>5
  <2>7. \A d : d.sid \in Sid =>
          /\ Incoming(p, d) => Incoming(p, d)'
          /\ Talking(p, d) => Talking(p, d)'
          /\ Answered(p, d) => Answered(p, d)'
    BY <1>1, <2>6 DEF Incoming, Talking, Answered, SessionWith
  <2>8. Incoming(p, e)'
    BY <1>2, <2>3, <2>4, <2>5 DEF Incoming, SessionWith
  <2>9. QED
    BY <1>1, <1>4, <2>2, <2>3, <2>7, <2>8, ToldLive
<1>6. CASE OnSessionAccept(p, q, m)
  <2>1. CASE UNCHANGED <<jingle, events>>
    <3>1. \A d : Answered(p, d) => Answered(p, d)'
      BY <1>1, <2>1 DEF Answered, SessionWith
    <3>2. QED
      BY <1>1, <2>1, <3>1, QuietLive
  <2>2. CASE /\ SessionWith(p, m.sid, q) /\ jingle[p][m.sid].state = "PendingOutgoing"
             /\ Activate(p, m.sid) /\ Tell(p, Event("CallAccepted", q, m.sid))
    <3> DEFINE e == Event("CallAccepted", q, m.sid)
               a == [peer |-> jingle[p][m.sid].peer, state |-> "Active"]
    <3>1. e \in Events /\ e.type = "CallAccepted" /\ e.sid = m.sid /\ e.with = q /\ Tell(p, e)
      BY <1>2, <2>2, EventsType
    <3>2. a.peer = q /\ a.state = "Active" /\ a # None
      <4>1. a \in Session
        BY <1>2, <2>2 DEF TypeOK, SessionWith, Session
      <4>2. a.peer = q /\ a.state = "Active"
        BY <2>2 DEF SessionWith
      <4> HIDE DEF a
      <4>3. QED
        BY <4>1, <4>2, NoneApart
    <3>3. \A r \in Party, t \in Sid : jingle'[r][t] = IF r = p /\ t = m.sid THEN a ELSE jingle[r][t]
      BY <1>2, <2>2, Activated DEF SessionWith
    <3> HIDE DEF e, a
    <3>4. \A d : d.sid \in Sid =>
            /\ Incoming(p, d) => Incoming(p, d)'
            /\ Talking(p, d) => Talking(p, d)'
      BY <2>2, <3>3 DEF Incoming, Talking, SessionWith
    <3>5. \A d : d.sid \in Sid => (Answered(p, d) => Answered(p, d)')
      <4>1. \A d : d.sid \in Sid /\ d.sid # m.sid => (Answered(p, d) => Answered(p, d)')
        BY <1>1, <3>3 DEF Answered, SessionWith
      <4>2. \A d : d.sid = m.sid => (Answered(p, d) => Answered(p, d)')
        <5>1. jingle'[p][m.sid] = a
          BY <1>2, <3>3
        <5>2. QED
          BY <2>2, <3>2, <5>1 DEF Answered, SessionWith
      <4>3. QED
        BY <4>1, <4>2
    <3>6. Talking(p, e)'
      BY <1>2, <3>1, <3>2, <3>3 DEF Talking, SessionWith
    <3>7. QED
      BY <1>1, <1>4, <3>1, <3>4, <3>5, <3>6, ToldLive
  <2>3. QED
    BY <1>6, <2>1, <2>2 DEF OnSessionAccept
<1>7. CASE OnSessionTerminate(p, q, m)
  <2> DEFINE e == Event("CallEnded", q, m.sid)
  <2>1. Remove(p, m.sid) /\ Tell(p, e)
    BY <1>7 DEF OnSessionTerminate
  <2>2. e \in Events /\ e.type = "CallEnded" /\ Ends(e, m.sid)
    BY <1>2, EventsType DEF Ends
  <2> HIDE DEF e
  <2>3. \A d : d.sid \in Sid /\ d.sid # m.sid => jingle'[p][d.sid] = jingle[p][d.sid]
    BY <1>2, <2>1, Removed
  <2>4. \A d : d.sid \in Sid =>
         /\ Incoming(p, d) => Incoming(p, d)' \/ Ends(e, d.sid)
         /\ Talking(p, d) => Talking(p, d)' \/ Ends(e, d.sid)
         /\ Answered(p, d) => Answered(p, d)' \/ Ends(e, d.sid)
    BY <1>1, <2>2, <2>3 DEF Incoming, Talking, Answered, SessionWith
  <2>5. QED
    BY <1>1, <1>4, <2>1, <2>2, <2>4, ToldLive
<1>8. QED
  BY <1>1, <1>5, <1>6, <1>7 DEF HandleRequest

LEMMA ConnectionShown ==
  ASSUME TypeOK, NEW p \in Party,
         \/ Online(p) \/ SendFails(p) \/ StreamLost(p)
         \/ \E q \in Party : Bounce(p, q) \/ LoseTail(p, q),
         EventsLive(p), ScreenLive(p)
  PROVE  EventsLive(p)' /\ ScreenLive(p)'
<1>1. CASE StreamLost(p)
  <2> DEFINE e == Event("Disconnected", None, None)
  <2>1. /\ e \in Events /\ e.type = "Disconnected" /\ \A s : Ends(e, s)
        /\ Tell(p, e) /\ UNCHANGED ui
    BY <1>1, EventsType DEF Ends, StreamLost
  <2> HIDE DEF e
  <2>2. QED
    BY <2>1, ToldLive
<1>2. CASE \/ Online(p) \/ SendFails(p)
           \/ \E q \in Party : Bounce(p, q) \/ LoseTail(p, q)
  <2>1. UNCHANGED <<ui, cmds, events, jingle>>
    BY <1>2 DEF Online, SendFails, Bounce, LoseTail, worker
  <2>2. \A d : Answered(p, d) => Answered(p, d)'
    BY <2>1 DEF Answered, SessionWith
  <2>3. QED
    BY <2>1, <2>2, QuietLive
<1>3. QED
  BY <1>1, <1>2

LEMMA UserShown ==
  ASSUME TypeOK, NEW p \in Party,
         \/ \E q \in Party : StartCall(p, q)
         \/ EndCallClicked(p) \/ AcceptClicked(p) \/ DeclineClicked(p)
         \/ Login(p) \/ Logout(p)
  PROVE  /\ OfflineTold(p) => OfflineTold(p)'
         /\ EventsLive(p) /\ ScreenLive(p) => EventsLive(p)' /\ ScreenLive(p)'
<1>1. /\ UNCHANGED <<events, client, jingle>>
      /\ cmds[p] \subseteq cmds'[p]
  BY UserDoes
<1>2. /\ ui'[p].incoming # None => ui'[p].incoming = ui[p].incoming
      /\ \A c \in Call : ui'[p].call = c /\ c # None /\ c.sid[3] = "worker" =>
           \/ ui[p].call = c
           \/ ui[p].incoming = c /\ Command("AcceptCall", c.with, c.sid) \in cmds'[p]
  <2>1. CASE \E q \in Party : StartCall(p, q)
    <3>1. PICK q \in Party : StartCall(p, q)
      BY <2>1
    <3> DEFINE d == [with |-> q, sid |-> <<p, started[p] + 1, "ui">>]
    <3>2. Shows(p, "Active", d, ui[p].incoming) /\ d.sid[3] # "worker"
      BY <3>1, StartCallShows
    <3> HIDE DEF d
    <3>3. QED
      BY <3>2 DEF Shows
  <2>2. CASE EndCallClicked(p)
    BY <2>2, ScreenAfter DEF EndCallClicked, Shows
  <2>3. CASE DeclineClicked(p)
    BY <2>3, ScreenAfter DEF DeclineClicked, Shows, MaybeCall
  <2>4. CASE AcceptClicked(p)
    <3>1. Shows(p, "Active", ui[p].incoming, None)
      BY <2>4, ScreenAfter, ShownType DEF AcceptClicked, MaybeCall
    <3>2. Command("AcceptCall", ui[p].incoming.with, ui[p].incoming.sid) \in cmds'[p]
      BY <2>4 DEF AcceptClicked, Perform, TypeOK
    <3>3. QED
      BY <3>1, <3>2 DEF Shows
  <2>5. CASE Login(p) \/ Logout(p)
    BY <2>5 DEF Login, Logout
  <2>6. QED
    BY <2>1, <2>2, <2>3, <2>4, <2>5
<1>3. events' = events /\ client' = client /\ jingle' = jingle
  BY <1>1
<1>4. \A i, s : EndsAfter(p, i, s) <=> EndsAfter(p, i, s)'
  BY <1>3 DEF EndsAfter
<1>5. \A i : OfflineAfter(p, i) <=> OfflineAfter(p, i)'
  BY <1>3 DEF OfflineAfter
<1>6. OfflineTold(p) => OfflineTold(p)'
  <2>0. ui' \in [Party -> Screen]
    BY UserDoes, StartCallType, AnswerType, LogType DEF TypeOK
  <2>1. ui'[p].call # None => ui'[p].call \in Call
    BY <2>0 DEF Screen, MaybeCall
  <2>2. QED
    BY <1>2, <1>3, <1>5, <2>1 DEF OfflineTold
<1>7. ASSUME EventsLive(p), ScreenLive(p) PROVE EventsLive(p)' /\ ScreenLive(p)'
  <2>1. EventsLive(p)'
    BY <1>3, <1>4, <1>7 DEF EventsLive, Incoming, Talking, SessionWith
  <2>2. ScreenLive(p)'
    <3> SUFFICES ASSUME NEW c \in Call, c # None
                 PROVE  /\ ui'[p].incoming = c => Incoming(p, c)' \/ EndsAfter(p, 0, c.sid)'
                        /\ ui'[p].call = c /\ c.sid[3] = "worker" =>
                             Answered(p, c)' \/ EndsAfter(p, 0, c.sid)'
      BY DEF ScreenLive
    <3>1. /\ Incoming(p, c) <=> Incoming(p, c)'
          /\ Answered(p, c) => Answered(p, c)'
          /\ Incoming(p, c) /\ Command("AcceptCall", c.with, c.sid) \in cmds'[p] => Answered(p, c)'
      BY <1>1, <1>3 DEF Incoming, Answered, SessionWith
    <3>2. /\ ui[p].incoming = c => Incoming(p, c) \/ EndsAfter(p, 0, c.sid)
          /\ ui[p].call = c /\ c.sid[3] = "worker" => Answered(p, c) \/ EndsAfter(p, 0, c.sid)
      BY <1>7 DEF ScreenLive
    <3>3. ui'[p].incoming = c => Incoming(p, c)' \/ EndsAfter(p, 0, c.sid)'
      BY <1>2, <1>4, <3>1, <3>2
    <3>4. ui'[p].call = c /\ c.sid[3] = "worker" => Answered(p, c)' \/ EndsAfter(p, 0, c.sid)'
      BY <1>2, <1>4, <3>1, <3>2
    <3>5. QED
      BY <3>3, <3>4
  <2>3. QED
    BY <2>1, <2>2
<1>8. QED
  BY <1>6, <1>7

\* What is told later, after the next event is handled.
LEMMA HandledLater ==
  ASSUME TypeOK, NEW p \in Party, HandleEvent(p)
  PROVE  /\ \A s : EndsAfter(p, 0, s) /\ ~Ends(events[p][1], s) => EndsAfter(p, 0, s)'
         /\ OfflineAfter(p, 0) /\ events[p][1].type # "Disconnected" => OfflineAfter(p, 0)'
         /\ \A i \in DOMAIN events'[p] :
              /\ i + 1 \in DOMAIN events[p] /\ events'[p][i] = events[p][i + 1]
              /\ \A s : EndsAfter(p, i + 1, s) => EndsAfter(p, i, s)'
              /\ OfflineAfter(p, i + 1) => OfflineAfter(p, i)'
         /\ \A s : EndsAfter(p, 1, s) => EndsAfter(p, 0, s)'
         /\ OfflineAfter(p, 1) => OfflineAfter(p, 0)'
<1>1. /\ \A i \in DOMAIN events[p] : i \in Nat /\ i > 0
      /\ \A i \in DOMAIN events'[p] : /\ i \in Nat /\ i > 0
                                      /\ i + 1 \in DOMAIN events[p] /\ events'[p][i] = events[p][i + 1]
      /\ \A i \in DOMAIN events[p] : i # 1 => i - 1 \in DOMAIN events'[p] /\ events'[p][i - 1] = events[p][i]
  BY EventHandled DEF Shifted
<1>2. ASSUME NEW i \in Nat, NEW j \in DOMAIN events[p], i + 1 < j
      PROVE  \E k \in DOMAIN events'[p] : i < k /\ events'[p][k] = events[p][j]
  <2>1. j \in Nat /\ j # 1
    BY <1>1, <1>2
  <2>2. j - 1 \in DOMAIN events'[p] /\ events'[p][j - 1] = events[p][j] /\ i < j - 1
    BY <1>1, <1>2, <2>1
  <2>3. QED
    BY <2>2
<1>3. ASSUME NEW j \in DOMAIN events[p], j # 1
      PROVE  \E k \in DOMAIN events'[p] : 0 < k /\ events'[p][k] = events[p][j]
  BY <1>1, <1>3
<1>4. \A i \in Nat : \A s : EndsAfter(p, i + 1, s) => EndsAfter(p, i, s)'
  BY <1>2 DEF EndsAfter
<1>5. \A i \in Nat : OfflineAfter(p, i + 1) => OfflineAfter(p, i)'
  BY <1>2 DEF OfflineAfter
<1>6. \A s : EndsAfter(p, 0, s) /\ ~Ends(events[p][1], s) => EndsAfter(p, 0, s)'
  BY <1>3 DEF EndsAfter
<1>7. OfflineAfter(p, 0) /\ events[p][1].type # "Disconnected" => OfflineAfter(p, 0)'
  BY <1>3 DEF OfflineAfter
<1>8. 0 + 1 = 1
  OBVIOUS
<1>9. (\A s : EndsAfter(p, 1, s) => EndsAfter(p, 0, s)') /\ (OfflineAfter(p, 1) => OfflineAfter(p, 0)')
  BY <1>4, <1>5, <1>8
<1>10. QED
  BY <1>1, <1>4, <1>5, <1>6, <1>7, <1>9

\* The screen and the commands after an event.
LEMMA EventShows ==
  ASSUME TypeOK, NEW p \in Party, HandleEvent(p)
  PROVE  /\ UNCHANGED <<worker, network, jingle, client, healthy, held, wire>>
         /\ cmds[p] \subseteq cmds'[p]
         /\ \/ /\ events[p][1].type \in {"CallEnded", "Disconnected"}
               /\ Shows(p, "Idle", None, None) /\ UNCHANGED cmds
            \/ \E f \in Call :
                 /\ f.with = events[p][1].with /\ f.sid = events[p][1].sid
                 /\ events[p][1].type = "CallAccepted"
                 /\ Shows(p, "Active", f, ui[p].incoming) /\ UNCHANGED cmds
            \/ \E f \in Call :
                 /\ f.with = events[p][1].with /\ f.sid = events[p][1].sid
                 /\ events[p][1].type = "IncomingCall" /\ ui[p].engine # "Active"
                 /\ Shows(p, ui[p].engine, ui[p].call, f) /\ UNCHANGED cmds
            \/ /\ events[p][1].type = "IncomingCall" /\ ui[p].engine = "Active"
               /\ UNCHANGED ui
               /\ Perform(p, Command("RejectCall", events[p][1].with, events[p][1].sid))
<1> DEFINE e == events[p][1]
           f == [with |-> e.with, sid |-> e.sid]
<1>1. /\ UNCHANGED <<worker, network, jingle, client, healthy, held, wire>>
      /\ OnCallEnded(p, e) \/ OnCallAccepted(p, e) \/ OnIncomingCall(p, e)
      /\ e \in Events
  BY EventHandled DEF HandleEvent, worker, network
<1>2. e.type # "Disconnected" => f \in Call /\ f \in MaybeCall
  BY <1>1, EventsType DEF Call, MaybeCall
<1>3. f.with = e.with /\ f.sid = e.sid
  OBVIOUS
<1>4. CASE OnCallEnded(p, e)
  BY <1>1, <1>4, ScreenAfter DEF OnCallEnded
<1>5. CASE OnCallAccepted(p, e)
  <2>1. Shows(p, "Active", f, ui[p].incoming) /\ UNCHANGED cmds /\ e.type = "CallAccepted"
    BY <1>2, <1>5, ScreenAfter DEF OnCallAccepted
  <2> HIDE DEF f
  <2>2. QED
    BY <1>1, <1>2, <1>3, <2>1
<1>6. CASE OnIncomingCall(p, e) /\ ui[p].engine = "Active"
  <2>1. UNCHANGED ui /\ Perform(p, Command("RejectCall", e.with, e.sid)) /\ e.type = "IncomingCall"
    BY <1>6 DEF OnIncomingCall
  <2>2. cmds[p] \subseteq cmds'[p]
    BY <2>1 DEF Perform, TypeOK
  <2>3. QED
    BY <1>1, <1>6, <2>1, <2>2
<1>7. CASE OnIncomingCall(p, e) /\ ui[p].engine # "Active"
  <2>1. Shows(p, ui[p].engine, ui[p].call, f) /\ UNCHANGED cmds /\ e.type = "IncomingCall"
    BY <1>2, <1>7, ScreenAfter DEF OnIncomingCall
  <2> HIDE DEF f
  <2>2. QED
    BY <1>1, <1>2, <1>3, <1>7, <2>1
<1>8. QED
  BY <1>1, <1>4, <1>5, <1>6, <1>7

LEMMA HandleEventShown ==
  ASSUME TypeOK, NEW p \in Party, HandleEvent(p)
  PROVE  /\ OfflineTold(p) => OfflineTold(p)'
         /\ EventsLive(p) /\ ScreenLive(p) => EventsLive(p)' /\ ScreenLive(p)'
<1>1. PICK e \in Events : e = events[p][1] /\ 1 \in DOMAIN events[p]
  BY EventHandled
<1>2. client' = client /\ jingle' = jingle /\ cmds[p] \subseteq cmds'[p]
  BY EventShows
<1>3. \A c : /\ Incoming(p, c) <=> Incoming(p, c)'
             /\ Talking(p, c) <=> Talking(p, c)'
             /\ Answered(p, c) => Answered(p, c)'
  BY <1>2 DEF Incoming, Talking, Answered, SessionWith
<1>4. \A c \in Call : c # None /\ ui'[p].incoming = c =>
        /\ ~Ends(e, c.sid) /\ e.type # "Disconnected"
        /\ \/ ui[p].incoming = c
           \/ e.type = "IncomingCall" /\ c.with = e.with /\ c.sid = e.sid
  BY <1>1, EventShows DEF Shows, Ends
<1>5. \A c \in Call : c # None /\ ui'[p].call = c =>
        /\ ~Ends(e, c.sid) /\ e.type # "Disconnected"
        /\ \/ ui[p].call = c
           \/ e.type = "CallAccepted" /\ c.with = e.with /\ c.sid = e.sid
  BY <1>1, EventShows DEF Shows, Ends
<1>6. OfflineTold(p) => OfflineTold(p)'
  <2> SUFFICES ASSUME OfflineTold(p), client[p] = "none"
               PROVE  /\ ui'[p].incoming # None => OfflineAfter(p, 0)'
                      /\ ui'[p].call # None /\ ui'[p].call.sid[3] = "worker" => OfflineAfter(p, 0)'
                      /\ \A i \in DOMAIN events'[p] :
                           events'[p][i].type \in {"IncomingCall", "CallAccepted"} =>
                             OfflineAfter(p, i)'
    BY <1>2 DEF OfflineTold
  <2>0. /\ ui'[p].incoming # None => ui'[p].incoming \in Call
        /\ ui'[p].call # None => ui'[p].call \in Call
    BY HandleEventType DEF TypeOK, Screen, MaybeCall
  <2>1. ui'[p].incoming # None => OfflineAfter(p, 0)'
    <3>1. SUFFICES ASSUME ui'[p].incoming # None PROVE OfflineAfter(p, 0)'
      OBVIOUS
    <3>2. e.type # "Disconnected" /\ (ui[p].incoming # None \/ e.type = "IncomingCall")
      BY <1>4, <2>0, <3>1
    <3>3. QED
      BY <1>1, <3>2, HandledLater DEF OfflineTold
  <2>2. ui'[p].call # None /\ ui'[p].call.sid[3] = "worker" => OfflineAfter(p, 0)'
    <3>1. SUFFICES ASSUME ui'[p].call # None, ui'[p].call.sid[3] = "worker"
                   PROVE OfflineAfter(p, 0)'
      OBVIOUS
    <3>2. /\ e.type # "Disconnected"
          /\ (ui[p].call # None /\ ui[p].call.sid[3] = "worker") \/ e.type = "CallAccepted"
      BY <1>5, <2>0, <3>1
    <3>3. QED
      BY <1>1, <3>2, HandledLater DEF OfflineTold
  <2>3. ASSUME NEW i \in DOMAIN events'[p], events'[p][i].type \in {"IncomingCall", "CallAccepted"}
        PROVE  OfflineAfter(p, i)'
    BY <2>3, HandledLater DEF OfflineTold
  <2>4. QED
    BY <2>1, <2>2, <2>3
<1>7. ASSUME EventsLive(p), ScreenLive(p) PROVE EventsLive(p)' /\ ScreenLive(p)'
  <2>1. EventsLive(p)'
    <3> SUFFICES ASSUME NEW i \in DOMAIN events'[p], NEW f \in Events, f = events'[p][i]
                 PROVE  /\ f.type = "IncomingCall" => Incoming(p, f)' \/ EndsAfter(p, i, f.sid)'
                        /\ f.type = "CallAccepted" => Talking(p, f)' \/ EndsAfter(p, i, f.sid)'
      BY DEF EventsLive
    <3>1. /\ i + 1 \in DOMAIN events[p] /\ f = events[p][i + 1]
          /\ EndsAfter(p, i + 1, f.sid) => EndsAfter(p, i, f.sid)'
      BY HandledLater
    <3>2. /\ f.type = "IncomingCall" => Incoming(p, f) \/ EndsAfter(p, i + 1, f.sid)
          /\ f.type = "CallAccepted" => Talking(p, f) \/ EndsAfter(p, i + 1, f.sid)
      BY <1>7, <3>1 DEF EventsLive
    <3>3. QED
      BY <1>3, <3>1, <3>2
  <2>2. ScreenLive(p)'
    <3> SUFFICES ASSUME NEW c \in Call, c # None
                 PROVE  /\ ui'[p].incoming = c => Incoming(p, c)' \/ EndsAfter(p, 0, c.sid)'
                        /\ ui'[p].call = c /\ c.sid[3] = "worker" =>
                             Answered(p, c)' \/ EndsAfter(p, 0, c.sid)'
      BY DEF ScreenLive
    <3>1. /\ EndsAfter(p, 0, c.sid) /\ ~Ends(e, c.sid) => EndsAfter(p, 0, c.sid)'
          /\ EndsAfter(p, 1, c.sid) => EndsAfter(p, 0, c.sid)'
      BY <1>1, HandledLater
    <3>2. ui[p].incoming = c => Incoming(p, c) \/ EndsAfter(p, 0, c.sid)
      BY <1>7 DEF ScreenLive
    <3>3. ui[p].call = c /\ c.sid[3] = "worker" => Answered(p, c) \/ EndsAfter(p, 0, c.sid)
      BY <1>7 DEF ScreenLive
    <3>4. /\ e.type = "IncomingCall" /\ c.with = e.with /\ c.sid = e.sid =>
                Incoming(p, c) \/ EndsAfter(p, 1, c.sid)
          /\ e.type = "CallAccepted" /\ c.with = e.with /\ c.sid = e.sid =>
                Answered(p, c) \/ EndsAfter(p, 1, c.sid)
      <4>1. /\ e.type = "IncomingCall" => Incoming(p, e) \/ EndsAfter(p, 1, e.sid)
            /\ e.type = "CallAccepted" => Talking(p, e) \/ EndsAfter(p, 1, e.sid)
        BY <1>1, <1>7 DEF EventsLive
      <4>2. QED
        BY <4>1 DEF Incoming, Talking, Answered
    <3>5. ui'[p].incoming = c => Incoming(p, c)' \/ EndsAfter(p, 0, c.sid)'
      BY <1>3, <1>4, <3>1, <3>2, <3>4
    <3>6. ui'[p].call = c /\ c.sid[3] = "worker" => Answered(p, c)' \/ EndsAfter(p, 0, c.sid)'
      BY <1>3, <1>5, <3>1, <3>3, <3>4
    <3>7. QED
      BY <3>5, <3>6
  <2>3. QED
    BY <2>1, <2>2
<1>8. QED
  BY <1>6, <1>7

\* A worker without a client tells nothing; one that loses its client says so.
LEMMA WorkerOffline ==
  ASSUME TypeOK, NEW p \in Party, OfflineTold(p),
    \/ \E c : InitiateCall(p, c)
    \/ \E c : AcceptCall(p, c) \/ RejectCall(p, c) \/ EndCall(p, c)
    \/ \E c : IgnoreCommand(p, c) \/ Connect(p, c) \/ Disconnect(p, c)
    \/ \E q \in Party : Deliver(p, q) \/ Duplicate(p, q)
    \/ Online(p) \/ SendFails(p) \/ StreamLost(p)
    \/ \E q \in Party : Bounce(p, q) \/ LoseTail(p, q)
  PROVE  OfflineTold(p)'
<1>1. CASE (\E c : Disconnect(p, c)) \/ StreamLost(p)
  <2> DEFINE e == Event("Disconnected", None, None)
  <2>1. e \in Events /\ e.type = "Disconnected" /\ Tell(p, e) /\ UNCHANGED ui
    BY <1>1, EventsType DEF Disconnect, StreamLost
  <2>2. ~(e.type \in {"IncomingCall", "CallAccepted"})
    BY <2>1
  <2> HIDE DEF e
  <2>3. /\ \A i \in DOMAIN events[p] \cup {0} : OfflineAfter(p, i)'
        /\ \A i \in DOMAIN events'[p] :
              events'[p][i].type \in {"IncomingCall", "CallAccepted"} => i \in DOMAIN events[p]
    BY <2>1, <2>2, ToldLater
  <2>4. QED
    BY <2>3 DEF OfflineTold
<1>2. CASE \/ \E c : InitiateCall(p, c)
           \/ \E c : AcceptCall(p, c) \/ RejectCall(p, c) \/ EndCall(p, c)
  <2>1. client[p] # "none" /\ client' = client
    BY <1>2 DEF InitiateCall, AcceptCall, RejectCall, EndCall, Take
  <2>2. QED
    BY <2>1 DEF OfflineTold
<1>3. CASE \E q \in Party : Deliver(p, q) \/ Duplicate(p, q)
  <2>1. client[p] # "none" /\ client' = client
    BY <1>3 DEF Deliver, Duplicate, HandleRequest
  <2>2. QED
    BY <2>1 DEF OfflineTold
<1>4. CASE \/ \E c : IgnoreCommand(p, c) \/ Connect(p, c)
           \/ Online(p) \/ SendFails(p)
           \/ \E q \in Party : Bounce(p, q) \/ LoseTail(p, q)
  <2>1. ui' = ui /\ events' = events
    BY <1>4 DEF IgnoreCommand, Connect, Online, SendFails, Bounce, LoseTail
  <2>2. client'[p] = "none" => client[p] = "none"
    BY <1>4 DEF IgnoreCommand, Connect, Online, SendFails, Bounce, LoseTail, worker, TypeOK
  <2>3. QED
    BY <2>1, <2>2 DEF OfflineTold, OfflineAfter
<1>5. QED
  BY <1>1, <1>2, <1>3, <1>4

LEMMA NextShown == TypeOK /\ SidInv /\ OnceInv /\ ShownInv /\ [Next]_vars => ShownInv'
<1> SUFFICES ASSUME TypeOK, SidInv, OnceInv, ShownInv, [Next]_vars PROVE ShownInv'
  OBVIOUS
<1>1. CASE Next
  <2>1. PICK p \in Party :
      \/ \E q \in Party : StartCall(p, q)
      \/ EndCallClicked(p) \/ AcceptClicked(p) \/ DeclineClicked(p)
      \/ Login(p) \/ Logout(p)
      \/ HandleEvent(p)
      \/ \E c : InitiateCall(p, c)
      \/ \E c : AcceptCall(p, c) \/ RejectCall(p, c) \/ EndCall(p, c)
      \/ \E c : IgnoreCommand(p, c) \/ Connect(p, c) \/ Disconnect(p, c)
      \/ \E q \in Party : Deliver(p, q) \/ Duplicate(p, q)
      \/ Online(p) \/ SendFails(p) \/ StreamLost(p)
      \/ \E q \in Party : Bounce(p, q) \/ LoseTail(p, q)
    BY <1>1, Steps
  <2>2. \A x \in Party : x # p => Same(x)
    BY <2>1, Local
  <2>3. \A x \in Party : OfflineTold(x)
    BY DEF ShownInv
  <2>4. OfflineTold(p)'
    BY <2>1, <2>3, UserShown, HandleEventShown, WorkerOffline
  <2>5. ASSUME duplicates' = 0 PROVE EventsLive(p)' /\ ScreenLive(p)'
    <3>1. duplicates = 0 /\ \A x, q \in Party : ~Duplicate(x, q)
      BY <2>5, NoneDoubled
    <3>2. InitiatesOnce /\ AskedOnce /\ EventsLive(p) /\ ScreenLive(p)
      BY <3>1 DEF OnceInv, ShownInv
    <3>3. QED
      BY <2>1, <2>3, <3>1, <3>2, UserShown, HandleEventShown, InitiateCallShown, AcceptCallShown,
         EndShown, OtherCommandShown, DeliverShown, ConnectionShown
  <2>6. ASSUME NEW x \in Party, x # p
        PROVE  /\ OfflineTold(x)'
               /\ duplicates' = 0 => EventsLive(x)' /\ ScreenLive(x)'
    <3>1. duplicates' = 0 => EventsLive(x) /\ ScreenLive(x)
      BY NoneDoubled DEF ShownInv
    <3>2. QED
      BY <2>2, <2>3, <2>6, <3>1, OthersShown
  <2>7. QED
    BY <2>4, <2>5, <2>6 DEF ShownInv
<1>2. CASE UNCHANGED vars
  <2>1. \A x \in Party : Same(x)
    BY <1>2 DEF vars, Same
  <2>2. duplicates' = duplicates
    BY <1>2 DEF vars
  <2>3. QED
    BY <2>1, <2>2, OthersShown DEF ShownInv
<1>3. QED
  BY <1>1, <1>2

LEMMA InitShown == Init => ShownInv
BY NoneApart DEF Init, ShownInv, OfflineTold, EventsLive, ScreenLive, Idle

\* For each event of a call that the interface has still to handle, the worker's
\* session is as the event says or its end is told after it; a worker without a
\* client says so last (the events channel of the worker).
THEOREM ShownCorrect == Spec => []ShownInv
BY InitShown, NextShown, TypeCorrect, SidsCorrect, OnceCorrect, PTL DEF Spec

\* What the screen shows is a call the worker has, or the screen is about to
\* change: whatever order commands are taken in, events come in and connections
\* break in, as long as no request is delivered twice.
THEOREM ScreenIsLive == Spec => []ShownIsLive
<1>1. TypeOK /\ ShownInv => ShownIsLive
  BY ShownIs DEF ShownInv
<1>2. QED
  BY <1>1, TypeCorrect, ShownCorrect, PTL

-----------------------------------------------------------------------------
(***************************************************************************)
(* What the two ends of a call and the two halves of a program agree on    *)
(* as long as no connection breaks and no request is delivered twice: the  *)
(* only call of a party is on its screen, and both ends of a call have it  *)
(* in the same state once nothing about it is in transit.                  *)
(*                                                                         *)
(* A step that touches a session has one of six effects (Starts, Answers,  *)
(* HangsUp, Rings, Connects, IsOver); the invariants are proved from the   *)
(* effects, so that each action is looked into once.                       *)
(***************************************************************************)

\* Nothing breaks

Calm ==
  breaks = 0 => \A p \in Party :
    /\ client[p] = "online" /\ healthy[p]
    /\ \A c \in cmds[p] : c.type # "Disconnect"
    /\ \A i \in DOMAIN events[p] : events[p][i].type # "Disconnected"

On(p, q, action, s) == \E i \in DOMAIN wire[p][q] : wire[p][q][i] = Stanza(action, s)

Ahead(p, q, j, m) == \E i \in DOMAIN wire[p][q] : i < j /\ wire[p][q][i] = m

Behind(p, q, i, m) == \E j \in DOMAIN wire[p][q] : i < j /\ wire[p][q][j] = m

InState(p, s, q, state) == SessionWith(p, s, q) /\ jingle[p][s].state = state

\* The callee holds the session or is about to.
Reached(q, s) == s \in held[q] \/ On(s[1], q, "session-initiate", s)

CalleeReached ==
  \A p, q \in Party : \A s \in Sid :
    s[1] = p /\ SessionWith(p, s, q) => Reached(q, s)

\* A hang-up does not overtake the call.
TerminateBehind ==
  \A p, q \in Party : \A s \in Sid : \A j \in DOMAIN wire[p][q] :
    wire[p][q][j] = Stanza("session-terminate", s) =>
      /\ s \in held[p] /\ jingle[p][s] = None
      /\ s \in held[q] \/ Ahead(p, q, j, Stanza("session-initiate", s))

EndedTold ==
  \A p \in Party : \A s \in Sid :
    Told(p, "CallEnded", s) => s \in held[p] /\ jingle[p][s] = None

EngineBusy == \A p \in Party : ui[p].call # None => ui[p].engine = "Active"

Undisturbed == breaks = 0 /\ duplicates = 0

\* What the worker of a party has made an id for it holds.
OwnHeld ==
  \A s \in Sid : s[3] = "worker" /\ s[2] <= initiated[s[1]] => s \in held[s[1]]

OnlyInv ==
  /\ EngineBusy /\ OwnHeld
  /\ Undisturbed => CalleeReached /\ TerminateBehind /\ EndedTold /\ OnlyCallIsShown

\* Nobody but the callee has a call of another.
OneCallee ==
  \A s \in Sid : \A q, r \in Party :
    q # s[1] /\ r # s[1] /\ Reached(q, s) /\ Reached(r, s) => q = r

\* What each state of a session says of the other end, or of what is on its way.
CallerWaits ==
  \A p, q \in Party : \A s \in Sid :
    s[1] = p /\ InState(p, s, q, "PendingOutgoing") =>
      \/ On(p, q, "session-initiate", s)
      \/ InState(q, s, p, "PendingIncoming")
      \/ On(q, p, "session-accept", s)
      \/ On(q, p, "session-terminate", s)

CallerTalks ==
  \A p, q \in Party : \A s \in Sid :
    s[1] = p /\ InState(p, s, q, "Active") =>
      InState(q, s, p, "Active") \/ On(q, p, "session-terminate", s)

CalleeRings ==
  \A p, q \in Party : \A s \in Sid :
    s[1] = p /\ InState(q, s, p, "PendingIncoming") =>
      InState(p, s, q, "PendingOutgoing") \/ On(p, q, "session-terminate", s)

CalleeTalks ==
  \A p, q \in Party : \A s \in Sid :
    s[1] = p /\ p # q /\ InState(q, s, p, "Active") =>
      \/ InState(p, s, q, "Active")
      \/ InState(p, s, q, "PendingOutgoing") /\ On(q, p, "session-accept", s)
      \/ On(p, q, "session-terminate", s)

\* What a request on its way says of its sender.
InitiateOpen ==
  \A p, q \in Party : \A s \in Sid : \A i \in DOMAIN wire[p][q] :
    wire[p][q][i] = Stanza("session-initiate", s) =>
      InState(p, s, q, "PendingOutgoing") \/ Behind(p, q, i, Stanza("session-terminate", s))

AcceptOpen ==
  \A p, q \in Party : \A s \in Sid : On(q, p, "session-accept", s) =>
    /\ s[1] = p /\ s \in held[q]
    /\ \/ jingle[p][s] = None
       \/ InState(q, s, p, "Active")
       \/ On(q, p, "session-terminate", s)

SidesInv ==
  Undisturbed =>
    /\ OneCallee
    /\ CallerWaits /\ CallerTalks /\ CalleeRings /\ CalleeTalks
    /\ InitiateOpen /\ AcceptOpen

-----------------------------------------------------------------------------
\* The one call of a party is on its screen

LEMMA HeldOnlyGrows ==
  ASSUME TypeOK, [Next]_vars
  PROVE  HeldGrows
<1>1. CASE UNCHANGED held
  BY <1>1 DEF HeldGrows
<1>2. CASE \E p \in Party : \E s : held' = [held EXCEPT ![p] = @ \cup {s}]
  BY <1>2 DEF HeldGrows, TypeOK
<1>3. CASE Next
  <2>1. PICK p \in Party :
      \/ \E q \in Party : StartCall(p, q)
      \/ EndCallClicked(p) \/ AcceptClicked(p) \/ DeclineClicked(p)
      \/ Login(p) \/ Logout(p)
      \/ HandleEvent(p)
      \/ \E c : InitiateCall(p, c)
      \/ \E c : AcceptCall(p, c) \/ RejectCall(p, c) \/ EndCall(p, c)
      \/ \E c : IgnoreCommand(p, c) \/ Connect(p, c) \/ Disconnect(p, c)
      \/ \E q \in Party : Deliver(p, q) \/ Duplicate(p, q)
      \/ Online(p) \/ SendFails(p) \/ StreamLost(p)
      \/ \E q \in Party : Bounce(p, q) \/ LoseTail(p, q)
    BY <1>3, Steps
  <2>2. CASE \/ \E q \in Party : StartCall(p, q)
             \/ EndCallClicked(p) \/ AcceptClicked(p) \/ DeclineClicked(p)
             \/ Login(p) \/ Logout(p) \/ HandleEvent(p)
             \/ \E c : IgnoreCommand(p, c) \/ Connect(p, c) \/ Disconnect(p, c)
             \/ \E c : AcceptCall(p, c) \/ RejectCall(p, c) \/ EndCall(p, c)
             \/ Online(p) \/ SendFails(p) \/ StreamLost(p)
             \/ \E q \in Party : Bounce(p, q) \/ LoseTail(p, q)
    BY <1>1, <2>2 DEF StartCall, EndCallClicked, AcceptClicked, DeclineClicked, Login, Logout,
       HandleEvent, IgnoreCommand, Connect, Disconnect, AcceptCall, RejectCall, EndCall,
       Online, SendFails, StreamLost, Bounce, LoseTail, worker
  <2>3. CASE \E c : InitiateCall(p, c)
    BY <1>2, <2>3 DEF InitiateCall, Open
  <2>4. CASE \E q \in Party : Deliver(p, q) \/ Duplicate(p, q)
    BY <1>1, <1>2, <2>4 DEF Deliver, Duplicate, HandleRequest, OnSessionInitiate,
       OnSessionAccept, OnSessionTerminate, Open
  <2>5. QED
    BY <2>1, <2>2, <2>3, <2>4
<1>4. QED
  BY <1>1, <1>3 DEF vars

LEMMA OwnHeldKept ==
  ASSUME TypeOK, OwnHeld, [Next]_vars
  PROVE  OwnHeld'
<1>1. HeldGrows
  BY HeldOnlyGrows
<1>2. CASE UNCHANGED initiated
  <2> SUFFICES ASSUME NEW s \in Sid, s[3] = "worker", s[2] <= initiated[s[1]]
               PROVE  s \in held'[s[1]]
    BY <1>2 DEF OwnHeld
  <2>1. s[1] \in Party
    BY SidParts
  <2>2. QED
    BY <1>1, <2>1 DEF OwnHeld, HeldGrows
<1>3. ASSUME NEW p \in Party, NEW c, InitiateCall(p, c)
      PROVE  OwnHeld'
  <2> DEFINE sid == <<p, initiated[p] + 1, "worker">>
  <2>1. /\ initiated' = [initiated EXCEPT ![p] = @ + 1]
        /\ held' = [held EXCEPT ![p] = @ \cup {sid}]
    BY <1>3 DEF InitiateCall, Open
  <2>2. sid \in held'[p]
    BY <2>1 DEF TypeOK
  <2> SUFFICES ASSUME NEW s \in Sid, s[3] = "worker", s[2] <= initiated'[s[1]]
               PROVE  s \in held'[s[1]]
    BY DEF OwnHeld
  <2>3. s[1] \in Party /\ s[2] \in Nat /\ s = <<s[1], s[2], "worker">>
    BY SidParts
  <2>4. initiated[s[1]] \in Nat /\ (s[1] # p => initiated'[s[1]] = initiated[s[1]])
        /\ initiated'[p] = initiated[p] + 1
    BY <2>1, <2>3 DEF TypeOK
  <2>5. CASE s[2] <= initiated[s[1]]
    BY <1>1, <2>3, <2>5 DEF OwnHeld, HeldGrows
  <2>6. CASE ~(s[2] <= initiated[s[1]])
    <3>1. s[1] = p /\ s[2] = initiated[p] + 1
      BY <2>3, <2>4, <2>6
    <3>2. s = sid
      BY <2>3, <3>1
    <3>3. QED
      BY <2>2, <3>1, <3>2
  <2>7. QED
    BY <2>5, <2>6
<1>4. CASE Next
  <2>1. PICK p \in Party :
      \/ \E q \in Party : StartCall(p, q)
      \/ EndCallClicked(p) \/ AcceptClicked(p) \/ DeclineClicked(p)
      \/ Login(p) \/ Logout(p)
      \/ HandleEvent(p)
      \/ \E c : InitiateCall(p, c)
      \/ \E c : AcceptCall(p, c) \/ RejectCall(p, c) \/ EndCall(p, c)
      \/ \E c : IgnoreCommand(p, c) \/ Connect(p, c) \/ Disconnect(p, c)
      \/ \E q \in Party : Deliver(p, q) \/ Duplicate(p, q)
      \/ Online(p) \/ SendFails(p) \/ StreamLost(p)
      \/ \E q \in Party : Bounce(p, q) \/ LoseTail(p, q)
    BY <1>4, Steps
  <2>2. CASE \/ \E q \in Party : StartCall(p, q)
             \/ EndCallClicked(p) \/ AcceptClicked(p) \/ DeclineClicked(p)
             \/ Login(p) \/ Logout(p) \/ HandleEvent(p)
             \/ \E c : IgnoreCommand(p, c) \/ Connect(p, c) \/ Disconnect(p, c)
             \/ \E c : AcceptCall(p, c) \/ RejectCall(p, c) \/ EndCall(p, c)
             \/ \E q \in Party : Deliver(p, q) \/ Duplicate(p, q)
             \/ Online(p) \/ SendFails(p) \/ StreamLost(p)
             \/ \E q \in Party : Bounce(p, q) \/ LoseTail(p, q)
    <3>1. UNCHANGED initiated
      BY <2>2 DEF StartCall, EndCallClicked, AcceptClicked, DeclineClicked, Login, Logout,
         HandleEvent, IgnoreCommand, Connect, Disconnect, AcceptCall, RejectCall, EndCall,
         Deliver, Duplicate, HandleRequest, Online, SendFails, StreamLost, Bounce, LoseTail, worker
    <3>2. QED
      BY <1>2, <3>1
  <2>3. QED
    BY <1>3, <2>1, <2>2
<1>5. QED
  BY <1>2, <1>4 DEF vars

LEMMA EngineKept ==
  ASSUME TypeOK, EngineBusy, Next
  PROVE  EngineBusy'
<1> USE DEF EngineBusy
<1>1. CASE UNCHANGED ui
  BY <1>1
<1>2. ASSUME NEW p \in Party, NEW q \in Party, StartCall(p, q) PROVE EngineBusy'
  BY <1>2, StartCallShows DEF Shows
<1>3. ASSUME NEW p \in Party, EndCallClicked(p) \/ AcceptClicked(p) \/ DeclineClicked(p)
      PROVE  EngineBusy'
  <2>1. CASE EndCallClicked(p)
    BY <2>1, ScreenAfter DEF EndCallClicked, Shows
  <2>2. CASE AcceptClicked(p)
    BY <2>2, ScreenAfter, ShownType DEF AcceptClicked, MaybeCall, Shows
  <2>3. CASE DeclineClicked(p)
    BY <2>3, ScreenAfter DEF DeclineClicked, MaybeCall, Shows
  <2>4. QED
    BY <1>3, <2>1, <2>2, <2>3
<1>4. ASSUME NEW p \in Party, HandleEvent(p) PROVE EngineBusy'
  BY <1>4, EventShows DEF Shows
<1>5. \/ UNCHANGED ui
      \/ \E p \in Party : \/ \E q \in Party : StartCall(p, q)
                          \/ EndCallClicked(p) \/ AcceptClicked(p) \/ DeclineClicked(p)
                          \/ HandleEvent(p)
  BY DEF Next, Serve, Login, Logout, InitiateCall, IgnoreCommand, Connect, Disconnect,
     AcceptCall, RejectCall, EndCall, Deliver, Duplicate, HandleRequest, Online, SendFails,
     StreamLost, Bounce, LoseTail
<1>6. QED
  BY <1>1, <1>2, <1>3, <1>4, <1>5

\* The steps when nothing breaks and nothing is delivered twice.
CalmStep(p) ==
  \/ \E q \in Party : StartCall(p, q)
  \/ EndCallClicked(p) \/ AcceptClicked(p) \/ DeclineClicked(p)
  \/ HandleEvent(p)
  \/ \E c : InitiateCall(p, c)
  \/ \E c : AcceptCall(p, c) \/ RejectCall(p, c) \/ EndCall(p, c)
  \/ \E c : IgnoreCommand(p, c) /\ client[p] # "none"
  \/ \E q \in Party : Deliver(p, q)

\* A step that leaves the counters of breaks and duplicates is an ordinary one.
LEMMA CalmBreaks ==
  ASSUME TypeOK, Calm, [Next]_vars, breaks' = 0
  PROVE  /\ breaks = 0
         /\ Next => \E p \in Party : CalmStep(p) \/ \E q \in Party : Duplicate(p, q)
<1>1. breaks = 0
  <2>1. \A p \in Party : Logout(p) \/ SendFails(p) => breaks' = breaks + 1
    BY DEF Logout, SendFails
  <2>2. \A p \in Party : StreamLost(p) => breaks' = breaks + 1 \/ breaks' = breaks
    BY DEF StreamLost
  <2>3. CASE Next
    <3>1. PICK p \in Party :
        \/ \E q \in Party : StartCall(p, q)
        \/ EndCallClicked(p) \/ AcceptClicked(p) \/ DeclineClicked(p)
        \/ Login(p) \/ Logout(p)
        \/ HandleEvent(p)
        \/ \E c : InitiateCall(p, c)
        \/ \E c : AcceptCall(p, c) \/ RejectCall(p, c) \/ EndCall(p, c)
        \/ \E c : IgnoreCommand(p, c) \/ Connect(p, c) \/ Disconnect(p, c)
        \/ \E q \in Party : Deliver(p, q) \/ Duplicate(p, q)
        \/ Online(p) \/ SendFails(p) \/ StreamLost(p)
        \/ \E q \in Party : Bounce(p, q) \/ LoseTail(p, q)
      BY <2>3, Steps
    <3>2. CASE Logout(p) \/ SendFails(p) \/ StreamLost(p)
      BY <2>1, <2>2, <3>2 DEF TypeOK
    <3>3. CASE \/ \E q \in Party : StartCall(p, q)
               \/ EndCallClicked(p) \/ AcceptClicked(p) \/ DeclineClicked(p)
               \/ Login(p) \/ HandleEvent(p)
               \/ \E c : InitiateCall(p, c)
               \/ \E c : IgnoreCommand(p, c) \/ Connect(p, c) \/ Disconnect(p, c)
               \/ \E c : AcceptCall(p, c) \/ RejectCall(p, c) \/ EndCall(p, c)
               \/ \E q \in Party : Deliver(p, q) \/ Duplicate(p, q)
               \/ Online(p)
               \/ \E q \in Party : Bounce(p, q) \/ LoseTail(p, q)
      BY <3>3 DEF StartCall, EndCallClicked, AcceptClicked, DeclineClicked, Login, HandleEvent,
         InitiateCall, IgnoreCommand, Connect, Disconnect, AcceptCall, RejectCall, EndCall,
         Deliver, Duplicate, HandleRequest, Online, Bounce, LoseTail
    <3>4. QED
      BY <3>1, <3>2, <3>3
  <2>4. QED
    BY <2>3 DEF vars
<1>2. /\ \A p \in Party : client[p] = "online" /\ healthy[p]
      /\ \A p \in Party : \A c \in cmds[p] : c.type # "Disconnect"
  BY <1>1 DEF Calm
<1>3. ASSUME Next PROVE \E p \in Party : CalmStep(p) \/ \E q \in Party : Duplicate(p, q)
  <2>1. PICK p \in Party :
      \/ \E q \in Party : StartCall(p, q)
      \/ EndCallClicked(p) \/ AcceptClicked(p) \/ DeclineClicked(p)
      \/ Login(p) \/ Logout(p)
      \/ HandleEvent(p)
      \/ \E c : InitiateCall(p, c)
      \/ \E c : AcceptCall(p, c) \/ RejectCall(p, c) \/ EndCall(p, c)
      \/ \E c : IgnoreCommand(p, c) \/ Connect(p, c) \/ Disconnect(p, c)
      \/ \E q \in Party : Deliver(p, q) \/ Duplicate(p, q)
      \/ Online(p) \/ SendFails(p) \/ StreamLost(p)
      \/ \E q \in Party : Bounce(p, q) \/ LoseTail(p, q)
    BY <1>3, Steps
  <2>2. ~Logout(p) /\ ~SendFails(p)
    BY <1>1 DEF Logout, SendFails
  <2>3. ~StreamLost(p)
    BY <1>1, <1>2 DEF StreamLost
  <2>4. ~Login(p) /\ ~Online(p) /\ \A c : ~Connect(p, c) /\ ~Disconnect(p, c)
    BY <1>2 DEF Login, Online, Connect, Disconnect, Take
  <2>5. \A q \in Party : ~Bounce(p, q) /\ ~LoseTail(p, q)
    BY <1>2 DEF Bounce, LoseTail
  <2>6. client[p] # "none"
    BY <1>2
  <2>7. QED
    BY <2>1, <2>2, <2>3, <2>4, <2>5, <2>6 DEF CalmStep
<1>4. QED
  BY <1>1, <1>3

LEMMA CalmKept ==
  ASSUME TypeOK, Calm, [Next]_vars
  PROVE  Calm'
<1> SUFFICES ASSUME breaks' = 0
             PROVE  \A p \in Party :
                      /\ client'[p] = "online" /\ healthy'[p]
                      /\ \A c \in cmds'[p] : c.type # "Disconnect"
                      /\ \A i \in DOMAIN events'[p] : events'[p][i].type # "Disconnected"
  BY DEF Calm
<1>1. breaks = 0 /\ (Next => \E p \in Party : CalmStep(p) \/ \E q \in Party : Duplicate(p, q))
  BY CalmBreaks
<1>2. \A p \in Party :
        /\ client[p] = "online" /\ healthy[p]
        /\ \A c \in cmds[p] : c.type # "Disconnect"
        /\ \A i \in DOMAIN events[p] : events[p][i].type # "Disconnected"
  BY <1>1 DEF Calm
<1>3. ASSUME NEW p \in Party, CalmStep(p) \/ \E q \in Party : Duplicate(p, q)
      PROVE  UNCHANGED <<client, healthy>>
  BY <1>3 DEF CalmStep, StartCall, EndCallClicked, AcceptClicked, DeclineClicked, HandleEvent,
     InitiateCall, IgnoreCommand, AcceptCall, RejectCall, EndCall, Deliver, Duplicate,
     HandleRequest, worker
<1>4. ASSUME NEW p \in Party, CalmStep(p) \/ \E q \in Party : Duplicate(p, q), NEW c \in cmds'[p]
      PROVE  c.type # "Disconnect"
  <2>1. CASE cmds'[p] \subseteq cmds[p]
    BY <1>2, <1>4, <2>1
  <2>2. CASE \E q \in Party : StartCall(p, q)
    BY <1>2, <1>4, <2>2 DEF StartCall, Perform, Command, TypeOK
  <2>3. CASE EndCallClicked(p) \/ AcceptClicked(p) \/ DeclineClicked(p)
    BY <1>2, <1>4, <2>3 DEF EndCallClicked, AcceptClicked, DeclineClicked, Perform, Command, TypeOK
  <2>4. CASE HandleEvent(p)
    <3> DEFINE d == Command("RejectCall", events[p][1].with, events[p][1].sid)
    <3>1. d.type = "RejectCall"
      BY DEF Command
    <3> HIDE DEF d
    <3>2. UNCHANGED cmds \/ cmds' = [cmds EXCEPT ![p] = @ \cup {d}]
      BY <2>4, EventShows DEF Perform, d
    <3>3. c \in cmds[p] \/ c = d
      BY <1>4, <3>2 DEF TypeOK
    <3>4. QED
      BY <1>2, <3>1, <3>3
  <2>5. CASE \E d : InitiateCall(p, d) \/ AcceptCall(p, d) \/ RejectCall(p, d) \/ EndCall(p, d)
                    \/ IgnoreCommand(p, d)
    <3>1. \E d : cmds' = [cmds EXCEPT ![p] = @ \ {d}]
      BY <2>5 DEF InitiateCall, AcceptCall, RejectCall, EndCall, IgnoreCommand, Take
    <3>2. QED
      BY <2>1, <3>1, TakenAnswers
  <2>6. CASE \E q \in Party : Deliver(p, q) \/ Duplicate(p, q)
    BY <2>1, <2>6 DEF Deliver, Duplicate, HandleRequest
  <2>7. QED
    BY <1>4, <2>2, <2>3, <2>4, <2>5, <2>6 DEF CalmStep
<1>5. ASSUME NEW p \in Party, CalmStep(p) \/ \E q \in Party : Duplicate(p, q),
             NEW i \in DOMAIN events'[p]
      PROVE  events'[p][i].type # "Disconnected"
  <2>1. CASE UNCHANGED events
    BY <1>2, <1>5, <2>1
  <2>2. CASE HandleEvent(p)
    BY <1>2, <1>5, <2>2, EventHandled DEF NoneTold
  <2>3. CASE \E e \in Events : e.type # "Disconnected" /\ Tell(p, e)
    BY <1>2, <1>5, <2>3, ToldLater
  <2>4. CASE \E d : AcceptCall(p, d) \/ RejectCall(p, d) \/ EndCall(p, d)
    <3>1. PICK d : AcceptCall(p, d) \/ RejectCall(p, d) \/ EndCall(p, d)
      BY <2>4
    <3>2. d.with \in Party /\ d.sid \in Sid
      BY <3>1, TakeType, CommandsType DEF AcceptCall, RejectCall, EndCall
    <3>3. \E t \in {"CallAccepted", "CallEnded"} : Tell(p, Event(t, d.with, d.sid))
      BY <3>1 DEF AcceptCall, RejectCall, EndCall
    <3>4. QED
      BY <2>3, <3>2, <3>3, EventsType
  <2>5. CASE \E q \in Party : Deliver(p, q) \/ Duplicate(p, q)
    <3>1. PICK q \in Party : Deliver(p, q) \/ Duplicate(p, q)
      BY <2>5
    <3> DEFINE m == Head(wire[q][p])
    <3>2. m \in Stanzas /\ HandleRequest(p, q, m)
      BY <3>1, NextRequest DEF Deliver, Duplicate
    <3>3. m.sid \in Sid
      BY <3>2, StanzasType
    <3> HIDE DEF m
    <3>4. \/ UNCHANGED events
          \/ \E t \in {"IncomingCall", "CallAccepted", "CallEnded"} : Tell(p, Event(t, q, m.sid))
      BY <3>2 DEF HandleRequest, OnSessionInitiate, OnSessionAccept, OnSessionTerminate
    <3>5. QED
      BY <2>1, <2>3, <3>3, <3>4, EventsType
  <2>6. QED
    BY <1>5, <2>1, <2>2, <2>4, <2>5 DEF CalmStep, StartCall, EndCallClicked, AcceptClicked,
       DeclineClicked, InitiateCall, IgnoreCommand
<1>6. ASSUME NEW p \in Party, CalmStep(p) \/ \E q \in Party : Duplicate(p, q),
             NEW x \in Party, x # p
      PROVE  Same(x)
  BY <1>6, Local DEF CalmStep
<1>7. CASE UNCHANGED vars
  BY <1>2, <1>7 DEF vars
<1>8. CASE Next
  <2>1. PICK p \in Party : CalmStep(p) \/ \E q \in Party : Duplicate(p, q)
    BY <1>1, <1>8
  <2>2. UNCHANGED <<client, healthy>>
    BY <1>3, <2>1
  <2>3. \A c \in cmds'[p] : c.type # "Disconnect"
    BY <1>4, <2>1
  <2>4. \A i \in DOMAIN events'[p] : events'[p][i].type # "Disconnected"
    BY <1>5, <2>1
  <2>5. \A x \in Party : x # p => Same(x)
    BY <1>6, <2>1
  <2>6. QED
    BY <1>2, <2>2, <2>3, <2>4, <2>5 DEF Same
<1>9. QED
  BY <1>7, <1>8

-----------------------------------------------------------------------------
\* What a step does to the sessions and requests when nothing breaks

Entry(peer, state) == [peer |-> peer, state |-> state]

Becomes(p, s, v) ==
  /\ jingle'[p][s] = v
  /\ \A r \in Party, t \in Sid : r # p \/ t # s => jingle'[r][t] = jingle[r][t]

Holds(p, s) == \A r \in Party : held'[r] = IF r = p THEN held[p] \cup {s} ELSE held[r]

Sends(p, q, m) ==
  /\ Grown(wire[p][q], wire'[p][q], m)
  /\ \A x, y \in Party : x # p \/ y # q => wire'[x][y] = wire[x][y]

Takes(p, q, m) ==
  /\ Shifted(wire[q][p], wire'[q][p]) /\ wire[q][p][1] = m
  /\ \A x, y \in Party : x # q \/ y # p => wire'[x][y] = wire[x][y]

\* Between p and q about s.
Between(p, q, s) == p # q /\ s \in Sid /\ s[1] \in {p, q}

Starts(p, s, q) ==
  /\ Between(p, q, s) /\ s[1] = p
  /\ \A x \in Party : s \notin held[x] /\ jingle[x][s] = None
  /\ \A x, y \in Party : \A i \in DOMAIN wire[x][y] : wire[x][y][i].sid # s
  /\ Becomes(p, s, Entry(q, "PendingOutgoing")) /\ Holds(p, s)
  /\ Sends(p, q, Stanza("session-initiate", s))
  /\ UNCHANGED events

Answers(p, s, q) ==
  /\ Between(p, q, s) /\ s[1] = q
  /\ InState(p, s, q, "PendingIncoming")
  /\ Becomes(p, s, Entry(q, "Active")) /\ UNCHANGED held
  /\ Sends(p, q, Stanza("session-accept", s))
  /\ Tell(p, Event("CallAccepted", q, s))

HangsUp(p, s, q) ==
  /\ Between(p, q, s) /\ s \in held[p]
  /\ s[1] = p => SessionWith(p, s, q)
  /\ Becomes(p, s, None) /\ UNCHANGED held
  /\ Sends(p, q, Stanza("session-terminate", s))
  /\ Tell(p, Event("CallEnded", q, s))

Rings(p, s, q) ==
  /\ Between(p, q, s) /\ s[1] = q
  /\ s \notin held[p] /\ jingle[p][s] = None
  /\ Takes(p, q, Stanza("session-initiate", s))
  /\ Becomes(p, s, Entry(q, "PendingIncoming")) /\ Holds(p, s)
  /\ Tell(p, Event("IncomingCall", q, s))

Connects(p, s, q) ==
  /\ Between(p, q, s)
  /\ Takes(p, q, Stanza("session-accept", s))
  /\ UNCHANGED held
  /\ IF InState(p, s, q, "PendingOutgoing")
     THEN /\ Becomes(p, s, Entry(q, "Active"))
          /\ Tell(p, Event("CallAccepted", q, s))
     ELSE UNCHANGED <<jingle, events>>

IsOver(p, s, q) ==
  /\ Between(p, q, s)
  /\ Takes(p, q, Stanza("session-terminate", s))
  /\ Becomes(p, s, None) /\ UNCHANGED held
  /\ Tell(p, Event("CallEnded", q, s))

\* The calls stay as they are.
Rests == UNCHANGED <<jingle, held, wire>> /\ NoneTold

Effect(p, s, q) ==
  \/ Starts(p, s, q) \/ Answers(p, s, q) \/ HangsUp(p, s, q)
  \/ Rings(p, s, q) \/ Connects(p, s, q) \/ IsOver(p, s, q)

LEMMA SameTold == ASSUME UNCHANGED events PROVE NoneTold
BY DEF NoneTold

\* What each worker action does to a call, in terms of the six effects.
LEMMA InitiateDoes ==
  ASSUME TypeOK, SidInv, NEW p \in Party, healthy[p], NEW c, InitiateCall(p, c)
  PROVE  Starts(p, <<p, initiated[p] + 1, "worker">>, c.with) /\ c.with \in Party
<1> DEFINE s == <<p, initiated[p] + 1, "worker">>
<1>1. s \in Sid /\ s[1] = p /\ s[2] = initiated[p] + 1 /\ initiated[p] \in Nat
  BY IdLeft DEF TypeOK
<1>2. /\ Open(p, s, c.with, "PendingOutgoing")
      /\ Send(p, c.with, Stanza("session-initiate", s))
      /\ UNCHANGED events
      /\ c \in cmds[p] /\ c.type = "InitiateCall"
  BY DEF InitiateCall, Take
<1>3. c.with \in Party
  BY TakeType, CommandsType DEF InitiateCall
<1>4. c.with # p
  BY <1>2 DEF SidInv, CommandSides
<1> HIDE DEF s
<1>5. \A x \in Party : s \notin held[x]
  BY <1>1 DEF SidInv, HeldMade
<1>6. \A x \in Party : jingle[x][s] = None
  BY <1>1, <1>5 DEF SidInv, SessionSides
<1>7. \A x, y \in Party : \A i \in DOMAIN wire[x][y] : wire[x][y][i].sid # s
  BY <1>1 DEF SidInv, WireSides
<1>8. Becomes(p, s, Entry(c.with, "PendingOutgoing"))
  <2> DEFINE v == Entry(c.with, "PendingOutgoing")
  <2>1. /\ \A r \in Party, t \in Sid : jingle'[r][t] =
             IF r = p /\ t = s THEN v ELSE jingle[r][t]
        /\ Holds(p, s)
    BY <1>1, <1>2, Opened DEF Holds, Entry
  <2> HIDE DEF v
  <2>2. Becomes(p, s, v)
    BY <1>1, <2>1 DEF Becomes
  <2>3. QED
    BY <2>2 DEF v
<1>9. Holds(p, s)
  BY <1>1, <1>2, Opened DEF Holds, Entry
<1>10. Sends(p, c.with, Stanza("session-initiate", s))
  <2>1. Stanza("session-initiate", s) \in Stanzas
    BY <1>1, StanzasType
  <2>2. QED
    BY <1>2, <1>3, <2>1, Sent DEF Sends
<1>11. Starts(p, s, c.with)
  BY <1>1, <1>2, <1>4, <1>5, <1>6, <1>7, <1>8, <1>9, <1>10 DEF Starts, Between
<1>12. QED
  BY <1>3, <1>11 DEF s

LEMMA AcceptDoes ==
  ASSUME TypeOK, SidInv, NEW p \in Party, healthy[p], NEW c, AcceptCall(p, c)
  PROVE  Answers(p, c.sid, c.with) /\ c.sid \in Sid /\ c.with \in Party
<1>1. c.sid \in Sid /\ c.with \in Party
  BY TakeType, CommandsType DEF AcceptCall
<1>2. /\ c \in cmds[p] /\ c.type = "AcceptCall"
      /\ SessionWith(p, c.sid, c.with) /\ jingle[p][c.sid].state = "PendingIncoming"
      /\ Activate(p, c.sid)
      /\ Send(p, c.with, Stanza("session-accept", c.sid))
      /\ Tell(p, Event("CallAccepted", c.with, c.sid))
      /\ UNCHANGED held
  BY DEF AcceptCall, Take
<1>3. c.sid[1] = c.with /\ c.with # p
  BY <1>2 DEF SidInv, CommandSides, Incomes
<1>4. Becomes(p, c.sid, Entry(c.with, "Active"))
  <2> DEFINE v == Entry(c.with, "Active")
  <2>1. jingle[p][c.sid] # None /\ jingle[p][c.sid].peer = c.with
    BY <1>2 DEF SessionWith
  <2>2. \A r \in Party, t \in Sid : jingle'[r][t] = IF r = p /\ t = c.sid THEN v ELSE jingle[r][t]
    BY <1>1, <1>2, <2>1, Activated DEF Entry
  <2> HIDE DEF v
  <2>3. Becomes(p, c.sid, v)
    BY <1>1, <2>2 DEF Becomes
  <2>4. QED
    BY <2>3 DEF v
<1>5. Sends(p, c.with, Stanza("session-accept", c.sid))
  <2>1. Stanza("session-accept", c.sid) \in Stanzas
    BY <1>1, StanzasType
  <2>2. QED
    BY <1>1, <1>2, <2>1, Sent DEF Sends
<1>6. QED
  BY <1>1, <1>2, <1>3, <1>4, <1>5 DEF Answers, Between, InState

LEMMA HangUpDoes ==
  ASSUME TypeOK, SidInv, NEW p \in Party, healthy[p], NEW c, RejectCall(p, c) \/ EndCall(p, c)
  PROVE  HangsUp(p, c.sid, c.with) /\ c.sid \in Sid /\ c.with \in Party
<1>1. c.sid \in Sid /\ c.with \in Party
  BY TakeType, CommandsType DEF RejectCall, EndCall
<1>2. /\ c \in cmds[p]
      /\ c.type = "RejectCall" \/ SessionWith(p, c.sid, c.with)
      /\ Remove(p, c.sid)
      /\ Send(p, c.with, Stanza("session-terminate", c.sid))
      /\ Tell(p, Event("CallEnded", c.with, c.sid))
      /\ UNCHANGED held
  BY DEF RejectCall, EndCall, Take
<1>3. /\ Between(p, c.with, c.sid) /\ c.sid \in held[p]
      /\ c.sid[1] = p => SessionWith(p, c.sid, c.with)
  <2>1. CASE c.type = "RejectCall"
    BY <1>1, <1>2, <2>1 DEF SidInv, CommandSides, Incomes, Between
  <2>2. CASE SessionWith(p, c.sid, c.with)
    BY <1>1, <2>2 DEF SidInv, SessionSides, SessionWith, Between
  <2>3. QED
    BY <1>2, <2>1, <2>2
<1>4. Becomes(p, c.sid, None)
  BY <1>1, <1>2, Removed DEF Becomes
<1>5. Sends(p, c.with, Stanza("session-terminate", c.sid))
  <2>1. Stanza("session-terminate", c.sid) \in Stanzas
    BY <1>1, StanzasType
  <2>2. QED
    BY <1>1, <1>2, <2>1, Sent DEF Sends
<1>6. QED
  BY <1>1, <1>2, <1>3, <1>4, <1>5 DEF HangsUp

LEMMA DeliverDoes ==
  ASSUME TypeOK, SidInv, InitiatesOnce, NEW p \in Party, NEW q \in Party, Deliver(p, q)
  PROVE  \E s \in Sid : Rings(p, s, q) \/ Connects(p, s, q) \/ IsOver(p, s, q)
<1>1. PICK m \in Stanzas : m = Head(wire[q][p])
  BY Delivered
<1>2. PICK s \in Sid : s = m.sid
  BY StanzasType
<1>3. /\ m = Stanza(m.action, s)
      /\ m.action \in {"session-initiate", "session-accept", "session-terminate"}
  BY <1>2, StanzasType
<1>4. /\ m = wire[q][p][1] /\ 1 \in DOMAIN wire[q][p]
      /\ Takes(p, q, m)
      /\ HandleRequest(p, q, m)
  BY <1>1, Delivered DEF Deliver, Takes
<1>5. Between(p, q, s) /\ (m.action = "session-initiate" => s[1] = q /\ s \notin held[p])
  BY <1>2, <1>4 DEF SidInv, WireSides, Between, InitiatesOnce, Initiates
<1>6. CASE OnSessionInitiate(p, q, m)
  <2>1. jingle[p][s] = None
    BY <1>5, <1>6 DEF SidInv, SessionSides, OnSessionInitiate
  <2>2. Open(p, s, q, "PendingIncoming") /\ Tell(p, Event("IncomingCall", q, s))
    BY <1>2, <1>6, <2>1 DEF OnSessionInitiate
  <2>3. Becomes(p, s, Entry(q, "PendingIncoming"))
    <3> DEFINE v == Entry(q, "PendingIncoming")
    <3>1. /\ \A r \in Party, t \in Sid : jingle'[r][t] =
               IF r = p /\ t = s THEN v ELSE jingle[r][t]
          /\ Holds(p, s)
      BY <2>2, Opened DEF Holds, Entry
    <3> HIDE DEF v
    <3>2. Becomes(p, s, v)
      BY <3>1 DEF Becomes
    <3>3. QED
      BY <3>2 DEF v
  <2>4. Holds(p, s)
    BY <2>2, Opened DEF Holds, Entry
  <2>5. m = Stanza("session-initiate", s)
    BY <1>3, <1>6 DEF OnSessionInitiate
  <2>6. Rings(p, s, q)
    BY <1>4, <1>5, <1>6, <2>1, <2>2, <2>3, <2>4, <2>5 DEF Rings, OnSessionInitiate
  <2>7. QED
    BY <2>6
<1>7. CASE OnSessionAccept(p, q, m)
  <2>1. m = Stanza("session-accept", s) /\ UNCHANGED held
    BY <1>3, <1>7 DEF OnSessionAccept
  <2>2. CASE InState(p, s, q, "PendingOutgoing")
    <3>1. Activate(p, s) /\ Tell(p, Event("CallAccepted", q, s))
      BY <1>2, <1>7, <2>2 DEF OnSessionAccept, InState
    <3>2. jingle[p][s] # None /\ jingle[p][s].peer = q
      BY <2>2 DEF InState, SessionWith
    <3> DEFINE v == Entry(q, "Active")
    <3>3. \A r \in Party, t \in Sid : jingle'[r][t] = IF r = p /\ t = s THEN v ELSE jingle[r][t]
      BY <3>1, <3>2, Activated DEF Entry
    <3> HIDE DEF v
    <3>4. Becomes(p, s, v)
      BY <3>3 DEF Becomes
    <3>5. Connects(p, s, q)
      BY <1>4, <1>5, <2>1, <2>2, <3>1, <3>4 DEF Connects, v
    <3>6. QED
      BY <3>5
  <2>3. CASE ~InState(p, s, q, "PendingOutgoing")
    <3>1. UNCHANGED <<jingle, events>>
      BY <1>2, <1>7, <2>3 DEF OnSessionAccept, InState
    <3>2. Connects(p, s, q)
      BY <1>4, <1>5, <2>1, <2>3, <3>1 DEF Connects
    <3>3. QED
      BY <3>2
  <2>4. QED
    BY <2>2, <2>3
<1>8. CASE OnSessionTerminate(p, q, m)
  <2>1. /\ m = Stanza("session-terminate", s) /\ UNCHANGED held /\ Remove(p, s)
        /\ Tell(p, Event("CallEnded", q, s))
    BY <1>2, <1>3, <1>8 DEF OnSessionTerminate
  <2>2. Becomes(p, s, None)
    BY <2>1, Removed DEF Becomes
  <2>3. IsOver(p, s, q)
    BY <1>4, <1>5, <2>1, <2>2 DEF IsOver
  <2>4. QED
    BY <2>3
<1>9. QED
  BY <1>4, <1>6, <1>7, <1>8 DEF HandleRequest

\* Every step of a party without breaks and duplicates is one of these.
LEMMA CalmDoes ==
  ASSUME TypeOK, SidInv, InitiatesOnce, NEW p \in Party, healthy[p], CalmStep(p)
  PROVE  Rests \/ \E s \in Sid, q \in Party : Effect(p, s, q)
<1>1. CASE (\E q \in Party : StartCall(p, q))
           \/ EndCallClicked(p) \/ AcceptClicked(p) \/ DeclineClicked(p)
  BY <1>1, UserDoes, SameTold DEF Rests
<1>2. CASE HandleEvent(p)
  BY <1>2, EventHandled, EventShows DEF Rests
<1>3. CASE \E c : IgnoreCommand(p, c)
  BY <1>3, SameTold DEF Rests, IgnoreCommand, worker, network
<1>4. ASSUME NEW c, InitiateCall(p, c) PROVE \E s \in Sid, q \in Party : Effect(p, s, q)
  <2>1. Starts(p, <<p, initiated[p] + 1, "worker">>, c.with) /\ c.with \in Party
    BY <1>4, InitiateDoes
  <2>2. <<p, initiated[p] + 1, "worker">> \in Sid
    BY <1>4, IdLeft
  <2>3. Effect(p, <<p, initiated[p] + 1, "worker">>, c.with)
    BY <2>1 DEF Effect
  <2>4. QED
    BY <2>1, <2>2, <2>3
<1>5. ASSUME NEW c, AcceptCall(p, c) PROVE \E s \in Sid, q \in Party : Effect(p, s, q)
  BY <1>5, AcceptDoes DEF Effect
<1>6. ASSUME NEW c, RejectCall(p, c) \/ EndCall(p, c)
      PROVE  \E s \in Sid, q \in Party : Effect(p, s, q)
  BY <1>6, HangUpDoes DEF Effect
<1>7. ASSUME NEW q \in Party, Deliver(p, q) PROVE \E s \in Sid, r \in Party : Effect(p, s, r)
  BY <1>7, DeliverDoes DEF Effect
<1>8. QED
  BY <1>1, <1>2, <1>3, <1>4, <1>5, <1>6, <1>7 DEF CalmStep

-----------------------------------------------------------------------------
\* What is on its way after a request is sent or taken

LEMMA StanzaIs ==
  \A a, b, s, t : Stanza(a, s) = Stanza(b, t) => a = b /\ s = t
BY DEF Stanza

\* Which requests are on their way after one more is sent, or one is taken.
LEMMA OnSent ==
  ASSUME NEW p \in Party, NEW q \in Party, NEW a, NEW s, Sends(p, q, Stanza(a, s))
  PROVE  /\ On(p, q, a, s)'
         /\ \A x, y \in Party : \A b, t :
              /\ On(x, y, b, t) => On(x, y, b, t)'
              /\ On(x, y, b, t)' => On(x, y, b, t) \/ (x = p /\ y = q /\ b = a /\ t = s)
<1> DEFINE m == Stanza(a, s)
<1>1. /\ \A i \in DOMAIN wire[p][q] : i \in DOMAIN wire'[p][q] /\ wire'[p][q][i] = wire[p][q][i]
      /\ \A i \in DOMAIN wire'[p][q] : i \notin DOMAIN wire[p][q] => wire'[p][q][i] = m
      /\ \E i \in DOMAIN wire'[p][q] : wire'[p][q][i] = m
      /\ \A x, y \in Party : x # p \/ y # q => wire'[x][y] = wire[x][y]
  BY DEF Sends, Grown
<1> HIDE DEF m
<1>2. On(p, q, a, s)'
  BY <1>1 DEF On, m
<1>3. ASSUME NEW x \in Party, NEW y \in Party, NEW b, NEW t, On(x, y, b, t)
      PROVE  On(x, y, b, t)'
  <2>1. CASE x = p /\ y = q
    BY <1>1, <1>3, <2>1 DEF On
  <2>2. CASE x # p \/ y # q
    BY <1>1, <1>3, <2>2 DEF On
  <2>3. QED
    BY <2>1, <2>2
<1>4. ASSUME NEW x \in Party, NEW y \in Party, NEW b, NEW t, On(x, y, b, t)', ~On(x, y, b, t)
      PROVE  x = p /\ y = q /\ b = a /\ t = s
  <2>1. x = p /\ y = q
    BY <1>1, <1>4 DEF On
  <2>2. PICK i \in DOMAIN wire'[p][q] : wire'[p][q][i] = Stanza(b, t)
    BY <1>4, <2>1 DEF On
  <2>3. wire'[p][q][i] = m
    BY <1>1, <1>4, <2>1, <2>2 DEF On
  <2>4. Stanza(b, t) = Stanza(a, s)
    BY <2>2, <2>3 DEF m
  <2>5. QED
    BY <2>1, <2>4, StanzaIs
<1>5. QED
  BY <1>2, <1>3, <1>4

LEMMA OnTaken ==
  ASSUME NEW p \in Party, NEW q \in Party, NEW a, NEW s, Takes(p, q, Stanza(a, s))
  PROVE  /\ On(q, p, a, s)
         /\ \A x, y \in Party : \A b, t :
              /\ On(x, y, b, t)' => On(x, y, b, t)
              /\ On(x, y, b, t) => On(x, y, b, t)' \/ (x = q /\ y = p /\ b = a /\ t = s)
<1> DEFINE m == Stanza(a, s)
<1>1. /\ 1 \in DOMAIN wire[q][p] /\ wire[q][p][1] = m
      /\ \A i \in DOMAIN wire'[q][p] : i + 1 \in DOMAIN wire[q][p] /\ wire'[q][p][i] = wire[q][p][i + 1]
      /\ \A i \in DOMAIN wire[q][p] :
           i # 1 => i - 1 \in DOMAIN wire'[q][p] /\ wire'[q][p][i - 1] = wire[q][p][i]
      /\ \A x, y \in Party : x # q \/ y # p => wire'[x][y] = wire[x][y]
  BY DEF Takes, Shifted
<1> HIDE DEF m
<1>2. On(q, p, a, s)
  BY <1>1 DEF On, m
<1>3. ASSUME NEW x \in Party, NEW y \in Party, NEW b, NEW t, On(x, y, b, t)'
      PROVE  On(x, y, b, t)
  <2>1. CASE x = q /\ y = p
    BY <1>1, <1>3, <2>1 DEF On
  <2>2. CASE x # q \/ y # p
    BY <1>1, <1>3, <2>2 DEF On
  <2>3. QED
    BY <2>1, <2>2
<1>4. ASSUME NEW x \in Party, NEW y \in Party, NEW b, NEW t, On(x, y, b, t), ~On(x, y, b, t)'
      PROVE  x = q /\ y = p /\ b = a /\ t = s
  <2>1. x = q /\ y = p
    BY <1>1, <1>4 DEF On
  <2>2. PICK i \in DOMAIN wire[q][p] : wire[q][p][i] = Stanza(b, t)
    BY <1>4, <2>1 DEF On
  <2>3. i = 1
    BY <1>1, <1>4, <2>1, <2>2 DEF On
  <2>4. QED
    BY <1>1, <2>1, <2>2, <2>3, StanzaIs DEF m
<1>5. QED
  BY <1>2, <1>3, <1>4

\* What is ahead of and behind a request.
LEMMA OrderSent ==
  ASSUME NEW p \in Party, NEW q \in Party, NEW m, Sends(p, q, m)
  PROVE  /\ \A x, y \in Party : \A i, n :
              /\ Behind(x, y, i, n) => Behind(x, y, i, n)'
              /\ Ahead(x, y, i, n) => Ahead(x, y, i, n)'
         /\ \A x, y \in Party : \A i \in DOMAIN wire'[x][y] :
              \/ i \in DOMAIN wire[x][y] /\ wire'[x][y][i] = wire[x][y][i]
              \/ /\ x = p /\ y = q /\ wire'[x][y][i] = m
                 /\ \A b, t : On(p, q, b, t) => Ahead(p, q, i, Stanza(b, t))'
         /\ \A i \in DOMAIN wire[p][q] : Behind(p, q, i, m)'
<1>1. /\ \A i \in DOMAIN wire'[p][q] : i > 0
      /\ \A i \in DOMAIN wire[p][q] : i \in DOMAIN wire'[p][q] /\ wire'[p][q][i] = wire[p][q][i]
      /\ \A x, y \in Party : x # p \/ y # q => wire'[x][y] = wire[x][y]
      /\ \A i \in DOMAIN wire'[p][q] : i \notin DOMAIN wire[p][q] =>
           wire'[p][q][i] = m /\ \A j \in DOMAIN wire'[p][q] : i # j => j < i
      /\ \E i \in DOMAIN wire'[p][q] : i \notin DOMAIN wire[p][q] /\ wire'[p][q][i] = m
  BY DEF Sends, Grown
<1>2. ASSUME NEW x \in Party, NEW y \in Party, NEW i, NEW n
      PROVE  /\ Behind(x, y, i, n) => Behind(x, y, i, n)'
             /\ Ahead(x, y, i, n) => Ahead(x, y, i, n)'
  <2>1. CASE x = p /\ y = q
    BY <1>1, <2>1 DEF Behind, Ahead
  <2>2. CASE x # p \/ y # q
    BY <1>1, <2>2 DEF Behind, Ahead
  <2>3. QED
    BY <2>1, <2>2
<1>3. ASSUME NEW i \in DOMAIN wire'[p][q], i \notin DOMAIN wire[p][q], NEW b, NEW t, On(p, q, b, t)
      PROVE  Ahead(p, q, i, Stanza(b, t))'
  <2>1. PICK j \in DOMAIN wire[p][q] : wire[p][q][j] = Stanza(b, t)
    BY <1>3 DEF On
  <2>2. j \in DOMAIN wire'[p][q] /\ wire'[p][q][j] = Stanza(b, t) /\ j < i
    BY <1>1, <1>3, <2>1
  <2>3. QED
    BY <2>2 DEF Ahead
<1>4. \A i \in DOMAIN wire[p][q] : Behind(p, q, i, m)'
  BY <1>1 DEF Behind
<1>5. ASSUME NEW x \in Party, NEW y \in Party, NEW i \in DOMAIN wire'[x][y]
      PROVE  \/ i \in DOMAIN wire[x][y] /\ wire'[x][y][i] = wire[x][y][i]
             \/ /\ x = p /\ y = q /\ wire'[x][y][i] = m
                /\ \A b, t : On(p, q, b, t) => Ahead(p, q, i, Stanza(b, t))'
  <2>1. CASE i \in DOMAIN wire[x][y]
    BY <1>1, <2>1
  <2>2. CASE i \notin DOMAIN wire[x][y]
    <3>1. x = p /\ y = q
      BY <1>1, <2>2
    <3>2. QED
      BY <1>1, <1>3, <1>5, <2>2, <3>1
  <2>3. QED
    BY <2>1, <2>2
<1>6. QED
  BY <1>2, <1>4, <1>5

LEMMA OrderTaken ==
  ASSUME NEW p \in Party, NEW q \in Party, NEW m, Takes(p, q, m)
  PROVE  \A x, y \in Party : \A i \in DOMAIN wire'[x][y] : \E j \in DOMAIN wire[x][y] :
           /\ wire'[x][y][i] = wire[x][y][j]
           /\ \A n : /\ Behind(x, y, j, n) => Behind(x, y, i, n)'
                     /\ Ahead(x, y, j, n) =>
                          Ahead(x, y, i, n)' \/ (x = q /\ y = p /\ n = m)
<1>1. /\ DOMAIN wire[q][p] \subseteq Nat /\ DOMAIN wire'[q][p] \subseteq Nat
      /\ \A i \in DOMAIN wire[q][p] : i > 0
      /\ \A i \in DOMAIN wire'[q][p] : i > 0
      /\ wire[q][p][1] = m
      /\ \A i \in DOMAIN wire'[q][p] : i + 1 \in DOMAIN wire[q][p] /\ wire'[q][p][i] = wire[q][p][i + 1]
      /\ \A i \in DOMAIN wire[q][p] :
           i # 1 => i - 1 \in DOMAIN wire'[q][p] /\ wire'[q][p][i - 1] = wire[q][p][i]
      /\ \A x, y \in Party : x # q \/ y # p => wire'[x][y] = wire[x][y]
  BY DEF Takes, Shifted
<1> SUFFICES ASSUME NEW x \in Party, NEW y \in Party, NEW i \in DOMAIN wire'[x][y]
             PROVE  \E j \in DOMAIN wire[x][y] :
                      /\ wire'[x][y][i] = wire[x][y][j]
                      /\ \A n : /\ Behind(x, y, j, n) => Behind(x, y, i, n)'
                                /\ Ahead(x, y, j, n) =>
                                     Ahead(x, y, i, n)' \/ (x = q /\ y = p /\ n = m)
  OBVIOUS
<1>2. CASE x # q \/ y # p
  BY <1>1, <1>2 DEF Behind, Ahead
<1>3. CASE x = q /\ y = p
  <2>1. i + 1 \in DOMAIN wire[q][p] /\ wire'[q][p][i] = wire[q][p][i + 1] /\ i \in Nat
    BY <1>1, <1>3
  <2>2. ASSUME NEW n, NEW k \in DOMAIN wire[q][p], wire[q][p][k] = n, i + 1 < k
        PROVE  Behind(q, p, i, n)'
    <3>1. k \in Nat /\ k # 1
      BY <1>1, <2>1, <2>2
    <3>2. k - 1 \in DOMAIN wire'[q][p] /\ wire'[q][p][k - 1] = n /\ i < k - 1
      BY <1>1, <2>1, <2>2, <3>1
    <3>3. QED
      BY <3>2 DEF Behind
  <2>3. ASSUME NEW n, NEW k \in DOMAIN wire[q][p], wire[q][p][k] = n, k < i + 1, n # m
        PROVE  Ahead(q, p, i, n)'
    <3>1. k \in Nat /\ k # 1
      BY <1>1, <2>3
    <3>2. k - 1 \in DOMAIN wire'[q][p] /\ wire'[q][p][k - 1] = n /\ k - 1 < i
      BY <1>1, <2>1, <2>3, <3>1
    <3>3. QED
      BY <3>2 DEF Ahead
  <2>4. \A n : /\ Behind(q, p, i + 1, n) => Behind(q, p, i, n)'
               /\ Ahead(q, p, i + 1, n) => Ahead(q, p, i, n)' \/ n = m
    BY <2>2, <2>3 DEF Behind, Ahead
  <2>5. QED
    BY <1>3, <2>1, <2>4
<1>4. QED
  BY <1>2, <1>3

\* What the sessions are after one of them changes.
LEMMA StatesAfter ==
  ASSUME TypeOK, NEW p \in Party, NEW s \in Sid
  PROVE  /\ \A v : Becomes(p, s, v) =>
              \A x, y \in Party, t \in Sid : x # p \/ t # s =>
                /\ jingle'[x][t] = jingle[x][t]
                /\ SessionWith(x, t, y)' <=> SessionWith(x, t, y)
                /\ \A state : InState(x, t, y, state)' <=> InState(x, t, y, state)
         /\ Becomes(p, s, None) =>
              \A y \in Party : ~SessionWith(p, s, y)' /\ \A state : ~InState(p, s, y, state)'
         /\ \A q \in Party, st \in {"PendingOutgoing", "PendingIncoming", "Active"} :
              Becomes(p, s, Entry(q, st)) =>
                /\ jingle'[p][s] # None
                /\ \A y \in Party : /\ SessionWith(p, s, y)' <=> y = q
                                    /\ \A state : InState(p, s, y, state)' <=> y = q /\ state = st
<1>1. ASSUME NEW v, Becomes(p, s, v), NEW x \in Party, NEW y \in Party, NEW t \in Sid,
             x # p \/ t # s
      PROVE  /\ jingle'[x][t] = jingle[x][t]
             /\ SessionWith(x, t, y)' <=> SessionWith(x, t, y)
             /\ \A state : InState(x, t, y, state)' <=> InState(x, t, y, state)
  <2>1. jingle'[x][t] = jingle[x][t]
    BY <1>1 DEF Becomes
  <2>2. QED
    BY <2>1 DEF SessionWith, InState
<1>2. Becomes(p, s, None) =>
        \A y \in Party : ~SessionWith(p, s, y)' /\ \A state : ~InState(p, s, y, state)'
  BY DEF Becomes, SessionWith, InState
<1>3. ASSUME NEW q \in Party, NEW st \in {"PendingOutgoing", "PendingIncoming", "Active"},
             Becomes(p, s, Entry(q, st))
      PROVE  /\ jingle'[p][s] # None
             /\ \A y \in Party : /\ SessionWith(p, s, y)' <=> y = q
                                 /\ \A state : InState(p, s, y, state)' <=> y = q /\ state = st
  <2> DEFINE v == Entry(q, st)
  <2>1. v \in Session /\ v.peer = q /\ v.state = st
    BY DEF Session, Entry
  <2>2. v # None
    BY <2>1, NoneApart
  <2>3. jingle'[p][s] = v
    BY <1>3 DEF Becomes
  <2> HIDE DEF v
  <2>4. QED
    BY <2>1, <2>2, <2>3 DEF SessionWith, InState
<1>4. QED
  BY <1>1, <1>2, <1>3

\* A session has one state and one peer.
LEMMA OneState ==
  \A x, t, y, z, a, b : InState(x, t, y, a) /\ InState(x, t, z, b) => y = z /\ a = b
BY DEF InState, SessionWith

LEMMA ActionsDiffer ==
  \A s, t : /\ Stanza("session-initiate", s) # Stanza("session-accept", t)
            /\ Stanza("session-initiate", s) # Stanza("session-terminate", t)
            /\ Stanza("session-accept", s) # Stanza("session-terminate", t)
BY StanzaIs

LEMMA OnOf ==
  ASSUME TypeOK, SidInv, NEW p \in Party, NEW q \in Party, NEW a, NEW s, On(p, q, a, s)
  PROVE  p # q /\ s[1] \in {p, q} /\ (a = "session-initiate" => s[1] = p)
<1>1. PICK i \in DOMAIN wire[p][q] : wire[p][q][i] = Stanza(a, s)
  BY DEF On
<1>2. Stanza(a, s).sid = s /\ Stanza(a, s).action = a
  BY DEF Stanza
<1>3. QED
  BY <1>1, <1>2 DEF SidInv, WireSides

LEMMA HeldIfThere ==
  ASSUME SidInv, NEW p \in Party, NEW s \in Sid, jingle[p][s] # None
  PROVE  s \in held[p]
BY DEF SidInv, SessionSides

LEMMA InitiateNew ==
  ASSUME InitiatesOnce, NEW p \in Party, NEW q \in Party, NEW s, On(p, q, "session-initiate", s)
  PROVE  s \notin held[q]
<1>1. PICK i \in DOMAIN wire[p][q] : wire[p][q][i] = Stanza("session-initiate", s)
  BY DEF On
<1>2. Stanza("session-initiate", s).sid = s /\ Stanza("session-initiate", s).action = "session-initiate"
  BY DEF Stanza
<1>3. QED
  BY <1>1, <1>2 DEF InitiatesOnce, Initiates

-----------------------------------------------------------------------------
\* The callee is reached, and the end of a call is told once it is over

StillClosed ==
  \A x \in Party : \A t \in held[x] : jingle[x][t] = None => jingle'[x][t] = None

\* OnlyInv, part by part, through the effects.
LEMMA ReachedLater ==
  ASSUME NEW p \in Party, NEW s \in Sid, NEW q \in Party, TypeOK, Effect(p, s, q)
  PROVE  /\ HeldGrows
         /\ \A x \in Party, t \in Sid :
              /\ Reached(x, t) => Reached(x, t)'
              /\ Reached(x, t)' => Reached(x, t) \/ (Starts(p, s, q) /\ t = s /\ x \in {p, q})
<1>1. HeldGrows
  BY DEF Effect, Starts, Answers, HangsUp, Rings, Connects, IsOver, Holds, HeldGrows
<1>2. \A t \in Sid : t[1] \in Party
  BY SidParts
<1>3. CASE Starts(p, s, q)
  <2>1. \A x, y \in Party : \A b, t :
          /\ On(x, y, b, t) => On(x, y, b, t)'
          /\ On(x, y, b, t)' => On(x, y, b, t) \/ (x = p /\ y = q /\ t = s)
    BY <1>3, OnSent DEF Starts
  <2>2. \A x \in Party : held'[x] = IF x = p THEN held[p] \cup {s} ELSE held[x]
    BY <1>3 DEF Starts, Holds
  <2>3. QED
    BY <1>1, <1>2, <1>3, <2>1, <2>2 DEF Reached, HeldGrows
<1>4. CASE Answers(p, s, q) \/ HangsUp(p, s, q)
  <2>1. \A x, y \in Party : \A t :
          On(x, y, "session-initiate", t)' <=> On(x, y, "session-initiate", t)
    BY <1>4, OnSent DEF Answers, HangsUp
  <2>2. UNCHANGED held
    BY <1>4 DEF Answers, HangsUp
  <2>3. QED
    BY <1>1, <1>2, <2>1, <2>2 DEF Reached
<1>5. CASE Connects(p, s, q) \/ IsOver(p, s, q)
  <2>1. \A x, y \in Party : \A t :
          On(x, y, "session-initiate", t)' <=> On(x, y, "session-initiate", t)
    BY <1>5, OnTaken DEF Connects, IsOver
  <2>2. UNCHANGED held
    BY <1>5 DEF Connects, IsOver
  <2>3. QED
    BY <1>1, <1>2, <2>1, <2>2 DEF Reached
<1>6. CASE Rings(p, s, q)
  <2>1. /\ On(q, p, "session-initiate", s)
        /\ \A x, y \in Party : \A b, t :
             /\ On(x, y, b, t)' => On(x, y, b, t)
             /\ On(x, y, b, t) => On(x, y, b, t)' \/ (x = q /\ y = p /\ t = s)
    BY <1>6, OnTaken DEF Rings
  <2>2. s[1] = q /\ \A x \in Party : held'[x] = IF x = p THEN held[p] \cup {s} ELSE held[x]
    BY <1>6 DEF Rings, Holds
  <2>3. QED
    BY <1>1, <1>2, <2>1, <2>2 DEF Reached, HeldGrows
<1>7. QED
  BY <1>1, <1>3, <1>4, <1>5, <1>6 DEF Effect

\* The callee of a session comes to hold it.
LEMMA CalleeReachedKept ==
  ASSUME NEW p \in Party, NEW s \in Sid, NEW q \in Party, TypeOK, Effect(p, s, q), CalleeReached
  PROVE  CalleeReached'
<1> SUFFICES ASSUME NEW x \in Party, NEW y \in Party, NEW t \in Sid, t[1] = x,
                    SessionWith(x, t, y)'
             PROVE  Reached(y, t)'
  BY DEF CalleeReached
<1>1. Reached(y, t) => Reached(y, t)'
  BY ReachedLater
<1>2. SessionWith(x, t, y) => Reached(y, t)
  BY DEF CalleeReached
<1>3. CASE UNCHANGED jingle
  BY <1>1, <1>2, <1>3 DEF SessionWith
<1>4. CASE \E v : Becomes(p, s, v) /\ (x # p \/ t # s)
  BY <1>1, <1>2, <1>4, StatesAfter
<1>5. CASE Starts(p, s, q) /\ x = p /\ t = s
  <2>1. y = q
    BY <1>5, StatesAfter DEF Starts
  <2>2. On(p, q, "session-initiate", s)'
    BY <1>5, OnSent DEF Starts
  <2>3. QED
    BY <1>5, <2>1, <2>2 DEF Reached
<1>6. CASE (HangsUp(p, s, q) \/ IsOver(p, s, q)) /\ x = p /\ t = s
  BY <1>6, StatesAfter DEF HangsUp, IsOver
<1>7. CASE InState(p, s, q, "PendingOutgoing") /\ x = p /\ t = s
           /\ Becomes(p, s, Entry(q, "Active"))
  <2>1. y = q
    BY <1>7, StatesAfter
  <2>2. QED
    BY <1>1, <1>2, <1>7, <2>1 DEF InState
<1>8. QED
  BY <1>3, <1>4, <1>5, <1>6, <1>7
     DEF Effect, Starts, Answers, HangsUp, Rings, Connects, IsOver, Between

\* A terminate is sent after the call and is taken after it.
LEMMA TerminateBehindKept ==
  ASSUME NEW p \in Party, NEW s \in Sid, NEW q \in Party, TypeOK, SidInv, Effect(p, s, q),
         OwnHeld, CalleeReached, TerminateBehind, StillClosed
  PROVE  TerminateBehind'
<1> DEFINE Start(t) == Stanza("session-initiate", t)
           Term(t)  == Stanza("session-terminate", t)
<1>0. HeldGrows
  BY ReachedLater
<1> SUFFICES ASSUME NEW x \in Party, NEW y \in Party, NEW t \in Sid,
                    NEW j \in DOMAIN wire'[x][y], wire'[x][y][j] = Term(t)
             PROVE  /\ t \in held'[x] /\ jingle'[x][t] = None
                    /\ t \in held'[y] \/ Ahead(x, y, j, Start(t))'
  BY DEF TerminateBehind
<1>1. ASSUME NEW i \in DOMAIN wire[x][y], wire[x][y][i] = Term(t)
      PROVE  /\ t \in held'[x] /\ jingle'[x][t] = None
             /\ t \in held'[y] \/ Ahead(x, y, i, Start(t))
  BY <1>0, <1>1 DEF TerminateBehind, StillClosed, HeldGrows
<1>2. ASSUME NEW m, Sends(p, q, m), m = Term(s) => HangsUp(p, s, q),
             \A u \in Sid : m = Term(u) => u = s
      PROVE  /\ t \in held'[x] /\ jingle'[x][t] = None
             /\ t \in held'[y] \/ Ahead(x, y, j, Start(t))'
  <2>1. \/ j \in DOMAIN wire[x][y] /\ wire'[x][y][j] = wire[x][y][j]
        \/ /\ x = p /\ y = q /\ wire'[x][y][j] = m
           /\ \A b, u : On(p, q, b, u) => Ahead(p, q, j, Stanza(b, u))'
    BY <1>2, OrderSent
  <2>2. CASE j \in DOMAIN wire[x][y] /\ wire'[x][y][j] = wire[x][y][j]
    <3>1. Ahead(x, y, j, Start(t)) => Ahead(x, y, j, Start(t))'
      BY <1>2, OrderSent
    <3>2. QED
      BY <1>1, <2>2, <3>1
  <2>3. CASE /\ x = p /\ y = q /\ wire'[x][y][j] = m
             /\ \A b, u : On(p, q, b, u) => Ahead(p, q, j, Stanza(b, u))'
    <3>1. t = s /\ HangsUp(p, s, q)
      BY <1>2, <2>3
    <3>2. s \in held[p] /\ jingle'[p][s] = None /\ s[1] \in {p, q}
      BY <3>1 DEF HangsUp, Becomes, Between
    <3>3. s \in held[q] \/ On(p, q, "session-initiate", s)
      <4>1. CASE s[1] = p
        BY <3>1, <4>1 DEF HangsUp, CalleeReached, Reached
      <4>2. CASE s[1] = q
        BY <3>2, <4>2 DEF SidInv, HeldMade, OwnHeld
      <4>3. QED
        BY <3>2, <4>1, <4>2
    <3>4. QED
      BY <1>0, <2>3, <3>1, <3>2, <3>3 DEF HeldGrows
  <2>4. QED
    BY <2>1, <2>2, <2>3
<1>3. ASSUME NEW m, Takes(p, q, m), \A u \in Sid : m = Start(u) => u \in held'[p]
      PROVE  /\ t \in held'[x] /\ jingle'[x][t] = None
             /\ t \in held'[y] \/ Ahead(x, y, j, Start(t))'
  <2>1. PICK i \in DOMAIN wire[x][y] :
          /\ wire'[x][y][j] = wire[x][y][i]
          /\ \A n : Ahead(x, y, i, n) => Ahead(x, y, j, n)' \/ (x = q /\ y = p /\ n = m)
    BY <1>3, OrderTaken
  <2>2. /\ t \in held'[x] /\ jingle'[x][t] = None
        /\ t \in held'[y] \/ Ahead(x, y, i, Start(t))
    BY <1>1, <2>1
  <2>3. QED
    BY <1>3, <2>1, <2>2
<1>4. \A u : Term(u) # Start(s) /\ Term(u) # Stanza("session-accept", s) /\ (Term(u) = Term(s) => u = s)
  BY StanzaIs
<1>5. \A u : Start(u) # Term(s) /\ Start(u) # Stanza("session-accept", s) /\ (Start(u) = Start(s) => u = s)
  BY StanzaIs
<1> HIDE DEF Start, Term
<1>6. CASE Starts(p, s, q) \/ Answers(p, s, q)
  <2>1. Sends(p, q, Start(s)) \/ Sends(p, q, Stanza("session-accept", s))
    BY <1>6 DEF Starts, Answers, Start
  <2>2. QED
    BY <1>2, <1>4, <2>1
<1>7. CASE HangsUp(p, s, q)
  <2>1. Sends(p, q, Term(s))
    BY <1>7 DEF HangsUp, Term
  <2>2. QED
    BY <1>2, <1>4, <1>7, <2>1
<1>8. CASE Rings(p, s, q)
  <2>1. Takes(p, q, Start(s)) /\ s \in held'[p]
    BY <1>8 DEF Rings, Holds, Start
  <2>2. QED
    BY <1>3, <1>5, <2>1
<1>9. CASE Connects(p, s, q) \/ IsOver(p, s, q)
  <2>1. Takes(p, q, Term(s)) \/ Takes(p, q, Stanza("session-accept", s))
    BY <1>9 DEF Connects, IsOver, Term
  <2>2. QED
    BY <1>3, <1>5, <2>1
<1>10. QED
  BY <1>6, <1>7, <1>8, <1>9 DEF Effect

LEMMA ToldNew ==
  ASSUME TypeOK, NEW p \in Party, NEW e \in Events, Tell(p, e)
  PROVE  /\ Told(p, e.type, e.sid)'
         /\ \A x \in Party : \A type, t :
              /\ Told(x, type, t) => Told(x, type, t)'
              /\ Told(x, type, t)' => Told(x, type, t) \/ (x = p /\ type = e.type /\ t = e.sid)
<1>1. /\ Grown(events[p], events'[p], e)
      /\ \A q \in Party : q # p => events'[q] = events[q]
  BY EventTold
<1>2. QED
  BY <1>1 DEF Told, Grown

LEMMA NoneToldIs ==
  ASSUME NoneTold, NEW x \in Party, NEW type, NEW t, Told(x, type, t)'
  PROVE  Told(x, type, t)
BY DEF NoneTold, Told

\* A session that ends is one that was held.
LEMMA OverHeld ==
  ASSUME NEW p \in Party, NEW s \in Sid, NEW q \in Party, TypeOK, TerminateBehind, IsOver(p, s, q)
  PROVE  /\ s \in held[p] /\ s \in held[q] /\ jingle[q][s] = None
<1>1. /\ 1 \in DOMAIN wire[q][p] /\ wire[q][p][1] = Stanza("session-terminate", s)
      /\ \A i \in DOMAIN wire[q][p] : i \in Nat /\ i > 0
  BY DEF IsOver, Takes, Shifted
<1>2. ~Ahead(q, p, 1, Stanza("session-initiate", s))
  BY <1>1 DEF Ahead
<1>3. QED
  BY <1>1, <1>2 DEF TerminateBehind

LEMMA EndedToldKept ==
  ASSUME NEW p \in Party, NEW s \in Sid, NEW q \in Party, TypeOK, Effect(p, s, q),
         TerminateBehind, EndedTold, StillClosed
  PROVE  EndedTold'
<1>0. HeldGrows
  BY ReachedLater
<1> SUFFICES ASSUME NEW x \in Party, NEW t \in Sid, Told(x, "CallEnded", t)'
             PROVE  t \in held'[x] /\ jingle'[x][t] = None
  BY DEF EndedTold
<1>1. CASE Told(x, "CallEnded", t)
  BY <1>0, <1>1 DEF EndedTold, StillClosed, HeldGrows
<1>2. CASE ~Told(x, "CallEnded", t)
  <2>1. \A type \in {"CallAccepted", "IncomingCall", "CallEnded"} :
          /\ Event(type, q, s) \in Events
          /\ Event(type, q, s).type = type /\ Event(type, q, s).sid = s
    BY EventsType
  <2>2. /\ Tell(p, Event("CallEnded", q, s)) /\ x = p /\ t = s
    <3>1. ~UNCHANGED events
      BY <1>2 DEF Told
    <3>2. \/ Tell(p, Event("CallAccepted", q, s))
          \/ Tell(p, Event("IncomingCall", q, s))
          \/ Tell(p, Event("CallEnded", q, s))
      BY <3>1 DEF Effect, Starts, Answers, HangsUp, Rings, Connects, IsOver
    <3>3. ASSUME NEW type \in {"CallAccepted", "IncomingCall", "CallEnded"},
                 Tell(p, Event(type, q, s))
          PROVE  type = "CallEnded" /\ x = p /\ t = s
      BY <1>2, <2>1, <3>3, ToldNew
    <3>4. QED
      BY <3>2, <3>3
  <2>3. HangsUp(p, s, q) \/ IsOver(p, s, q)
    <3>1. ~UNCHANGED events
      BY <1>2 DEF Told
    <3>2. ASSUME NEW type \in {"CallAccepted", "IncomingCall"}, Tell(p, Event(type, q, s))
          PROVE  FALSE
      BY <1>2, <2>1, <3>2, ToldNew
    <3>3. QED
      BY <3>1, <3>2 DEF Effect, Starts, Answers, Rings, Connects
  <2>4. s \in held[p] /\ jingle'[p][s] = None
    BY <2>3, OverHeld DEF HangsUp, IsOver, Becomes
  <2>5. QED
    BY <1>0, <2>2, <2>4 DEF HeldGrows
<1>3. QED
  BY <1>1, <1>2

-----------------------------------------------------------------------------
\* The only call is shown

OnlyCall(p, s) == held[p] = {s} /\ jingle[p][s] # None /\ jingle[p][s].state = "Active"

IsShown(p, s) ==
  \/ ui[p].call # None /\ ui[p].call.sid = s
  \/ Told(p, "CallAccepted", s)
  \/ Command("EndCall", jingle[p][s].peer, s) \in cmds[p]

LEMMA OnlyIs == OnlyCallIsShown <=> \A p \in Party, s \in Sid : OnlyCall(p, s) => IsShown(p, s)
BY DEF OnlyCallIsShown, OnlyCall, IsShown

\* Nothing ends a call that is there, when nothing breaks.
Unbroken(p) == client[p] # "none" /\ \A i \in DOMAIN events[p] : events[p][i].type # "Disconnected"

LEMMA NotEnding ==
  ASSUME TypeOK, EndedTold, NEW p \in Party, Unbroken(p), NEW s \in Sid, jingle[p][s] # None
  PROVE  ~EndsAfter(p, 0, s) /\ \A i \in DOMAIN events[p] : ~Ends(events[p][i], s)
<1>1. ~Told(p, "CallEnded", s)
  BY DEF EndedTold
<1>2. \A i \in DOMAIN events[p] : ~Ends(events[p][i], s)
  BY <1>1 DEF Told, Ends, Unbroken
<1>3. QED
  BY <1>2 DEF EndsAfter

\* Steps that leave the sessions alone.
LEMMA ClickOnly ==
  ASSUME TypeOK, SidInv, EngineBusy, EndedTold, NEW p \in Party, Unbroken(p), ScreenLive(p),
         (\E q \in Party : StartCall(p, q))
           \/ EndCallClicked(p) \/ AcceptClicked(p) \/ DeclineClicked(p),
         NEW s \in Sid, OnlyCall(p, s), IsShown(p, s)
  PROVE  IsShown(p, s)'
<1>1. UNCHANGED <<events, jingle, held>> /\ cmds[p] \subseteq cmds'[p]
  BY UserDoes
<1>2. CASE Told(p, "CallAccepted", s) \/ Command("EndCall", jingle[p][s].peer, s) \in cmds[p]
  <2>1. Told(p, "CallAccepted", s) => Told(p, "CallAccepted", s)'
    BY <1>1 DEF Told
  <2>2. QED
    BY <1>1, <1>2, <2>1 DEF IsShown
<1>3. CASE ui[p].call # None /\ ui[p].call.sid = s
  <2>1. CASE \E q \in Party : StartCall(p, q)
    BY <1>3, <2>1 DEF StartCall, EngineBusy
  <2>2. CASE EndCallClicked(p)
    <3>1. ui[p].call \in Call /\ s \in held[p] /\ s[3] = "worker"
      BY <1>3, ShownType DEF OnlyCall, SidInv, HeldMade
    <3>2. SessionWith(p, s, ui[p].call.with)
      BY <1>3, <3>1, NotEnding DEF ScreenLive, Answered, OnlyCall
    <3>3. Command("EndCall", jingle[p][s].peer, s) \in cmds'[p]
      <4> DEFINE d == Command("EndCall", ui[p].call.with, ui[p].call.sid)
      <4>1. Perform(p, d)
        BY <2>2 DEF EndCallClicked
      <4>2. d \in cmds'[p]
        BY <4>1 DEF Perform, TypeOK
      <4>3. QED
        BY <1>3, <3>2, <4>2 DEF SessionWith
    <3>4. QED
      BY <1>1, <3>3 DEF IsShown
  <2>3. CASE AcceptClicked(p)
    <3>1. ui[p].incoming # None /\ ui'[p].call = ui[p].incoming
      BY <2>3, ScreenAfter, ShownType DEF AcceptClicked, Shows, MaybeCall
    <3>2. ui[p].incoming.sid \in held[p]
      BY <3>1 DEF SidInv, ScreenSides, Incomes
    <3>3. QED
      BY <3>1, <3>2 DEF OnlyCall, IsShown
  <2>4. CASE DeclineClicked(p)
    <3>1. ui'[p].call = ui[p].call
      BY <2>4, ScreenAfter DEF DeclineClicked, Shows, MaybeCall
    <3>2. QED
      BY <1>3, <3>1 DEF IsShown
  <2>5. QED
    BY <2>1, <2>2, <2>3, <2>4
<1>4. QED
  BY <1>2, <1>3 DEF IsShown

LEMMA EventOnly ==
  ASSUME TypeOK, SidInv, EndedTold, NEW p \in Party, Unbroken(p), HandleEvent(p),
         NEW s \in Sid, OnlyCall(p, s), IsShown(p, s)
  PROVE  IsShown(p, s)'
<1>1. PICK e \in Events : e = events[p][1] /\ 1 \in DOMAIN events[p]
  BY EventHandled
<1>2. UNCHANGED <<jingle, held>> /\ cmds[p] \subseteq cmds'[p]
  BY EventShows
<1>3. ~Ends(e, s) /\ e.type # "Disconnected"
  BY <1>1, NotEnding DEF OnlyCall, Unbroken
<1>4. e.type # "CallEnded"
  <2>1. ASSUME e.type = "CallEnded" PROVE FALSE
    <3>1. e.sid \in Sid /\ Told(p, "CallEnded", e.sid)
      BY <1>1, <2>1, EventsType DEF Told
    <3>2. e.sid \in held[p]
      BY <3>1 DEF EndedTold
    <3>3. e.sid = s
      BY <3>2 DEF OnlyCall
    <3>4. QED
      BY <1>3, <2>1, <3>3 DEF Ends
  <2>2. QED
    BY <2>1
<1>5. CASE e.type = "CallAccepted"
  <2>1. e.sid = s
    BY <1>1, <1>5 DEF SidInv, ScreenSides, OnlyCall
  <2>2. \E f \in Call : f.sid = e.sid /\ Shows(p, "Active", f, ui[p].incoming)
    BY <1>1, <1>5, EventShows
  <2>3. ui'[p].call # None /\ ui'[p].call.sid = s
    BY <2>1, <2>2, NoneApart DEF Shows
  <2>4. QED
    BY <2>3 DEF IsShown
<1>6. CASE e.type = "IncomingCall"
  <2>1. ui'[p].call = ui[p].call
    BY <1>1, <1>6, EventShows DEF Shows
  <2>2. Told(p, "CallAccepted", s) => Told(p, "CallAccepted", s)'
    <3>1. Shifted(events[p], events'[p])
      BY EventHandled
    <3>2. QED
      BY <1>1, <1>6, <3>1 DEF Told, Shifted
  <2>3. QED
    BY <1>2, <2>1, <2>2 DEF IsShown
<1>7. QED
  BY <1>3, <1>4, <1>5, <1>6, EventsType

LEMMA IgnoreOnly ==
  ASSUME TypeOK, NEW p \in Party, NEW c, IgnoreCommand(p, c), Unbroken(p),
         NEW s \in Sid, OnlyCall(p, s), IsShown(p, s)
  PROVE  IsShown(p, s)'
<1>1. /\ UNCHANGED <<ui, events, jingle, held>> /\ cmds' = [cmds EXCEPT ![p] = @ \ {c}]
      /\ Rejected(p, c)
  BY DEF IgnoreCommand, worker, Unbroken
<1> DEFINE d == Command("EndCall", jingle[p][s].peer, s)
<1>2. d.type = "EndCall" /\ d.sid = s /\ d.with = jingle[p][s].peer
  BY DEF Command
<1>3. SessionWith(p, s, jingle[p][s].peer)
  BY DEF OnlyCall, SessionWith
<1> HIDE DEF d
<1>4. d # c
  BY <1>1, <1>2, <1>3 DEF Rejected
<1>5. d \in cmds[p] => d \in cmds'[p]
  BY <1>1, <1>4 DEF TypeOK
<1>6. Told(p, "CallAccepted", s) => Told(p, "CallAccepted", s)'
  BY <1>1 DEF Told
<1>7. d \in cmds'[p] => IsShown(p, s)'
  BY <1>1 DEF IsShown, d
<1>8. IsShown(p, s) => d \in cmds[p] \/ Told(p, "CallAccepted", s)
                         \/ (ui[p].call # None /\ ui[p].call.sid = s)
  BY DEF IsShown, d
<1>9. QED
  BY <1>1, <1>5, <1>6, <1>7, <1>8 DEF IsShown

\* Steps of the worker about a session.
LEMMA EffectOnly ==
  ASSUME NEW p \in Party, NEW s \in Sid, NEW q \in Party, TypeOK, SidInv, TerminateBehind,
         Effect(p, s, q), UNCHANGED ui, Connects(p, s, q) => UNCHANGED cmds,
         NEW t \in Sid, OnlyCall(p, t)', OnlyCall(p, t) => IsShown(p, t)
  PROVE  IsShown(p, t)'
<1>1. ASSUME s \in held'[p] PROVE t = s
  BY <1>1 DEF OnlyCall
<1>2. ASSUME Starts(p, s, q) \/ Rings(p, s, q) PROVE FALSE
  <2>1. s \in held'[p]
    BY <1>2 DEF Starts, Rings, Holds
  <2>2. \E state \in {"PendingOutgoing", "PendingIncoming"} : Becomes(p, s, Entry(q, state))
    BY <1>2 DEF Starts, Rings
  <2>3. \E state \in {"PendingOutgoing", "PendingIncoming"} : jingle'[p][s].state = state
    BY <2>2 DEF Becomes, Entry
  <2>4. QED
    BY <1>1, <2>1, <2>3 DEF OnlyCall
<1>3. ASSUME HangsUp(p, s, q) \/ IsOver(p, s, q) PROVE FALSE
  <2>1. s \in held'[p] /\ jingle'[p][s] = None
    BY <1>3, OverHeld DEF HangsUp, IsOver, Becomes
  <2>2. QED
    BY <1>1, <2>1 DEF OnlyCall
<1>4. CASE \/ Answers(p, s, q)
           \/ Connects(p, s, q) /\ InState(p, s, q, "PendingOutgoing")
  <2>1. jingle[p][s] # None /\ UNCHANGED held /\ Tell(p, Event("CallAccepted", q, s))
    BY <1>4 DEF Answers, Connects, InState, SessionWith
  <2>2. t = s
    BY <1>1, <2>1, HeldIfThere
  <2>3. /\ Event("CallAccepted", q, s) \in Events
        /\ Event("CallAccepted", q, s).type = "CallAccepted" /\ Event("CallAccepted", q, s).sid = s
    BY EventsType
  <2>4. Told(p, "CallAccepted", s)'
    BY <2>1, <2>3, ToldNew
  <2>5. QED
    BY <2>2, <2>4 DEF IsShown
<1>5. CASE Connects(p, s, q) /\ ~InState(p, s, q, "PendingOutgoing")
  <2>1. UNCHANGED <<ui, cmds, events, jingle, held>>
    BY <1>5 DEF Connects
  <2>2. OnlyCall(p, t) /\ (IsShown(p, t) => IsShown(p, t)')
    BY <2>1 DEF OnlyCall, IsShown, Told
  <2>3. QED
    BY <2>2
<1>6. QED
  BY <1>2, <1>3, <1>4, <1>5 DEF Effect

LEMMA SentNotTaken ==
  ASSUME NEW p \in Party, NEW q \in Party, p # q, NEW m, Sends(p, q, m)
  PROVE  \A n : ~Takes(p, q, n)
<1>1. wire'[p][q] # wire[p][q]
  BY DEF Sends, Grown
<1>2. QED
  BY <1>1 DEF Takes

\* The worker's steps, and who else is idle in them.
LEMMA WorkerDoes ==
  ASSUME TypeOK, SidInv, InitiatesOnce, NEW p \in Party, healthy[p],
         \/ \E c : InitiateCall(p, c)
         \/ \E c : AcceptCall(p, c) \/ RejectCall(p, c) \/ EndCall(p, c)
         \/ \E q \in Party : Deliver(p, q)
  PROVE  UNCHANGED ui /\ \E s \in Sid, q \in Party :
           Effect(p, s, q) /\ (Connects(p, s, q) => UNCHANGED cmds)
<1>1. UNCHANGED ui
  BY DEF InitiateCall, AcceptCall, RejectCall, EndCall, Deliver, HandleRequest
<1>2. ASSUME NEW c, InitiateCall(p, c)
      PROVE  \E s \in Sid, q \in Party : Effect(p, s, q) /\ (Connects(p, s, q) => UNCHANGED cmds)
  <2>1. PICK s \in Sid : s = <<p, initiated[p] + 1, "worker">>
    BY <1>2, IdLeft
  <2>2. Starts(p, s, c.with) /\ c.with \in Party
    BY <1>2, <2>1, InitiateDoes
  <2>3. ~Connects(p, s, c.with)
    BY <2>2, SentNotTaken DEF Starts, Connects, Between
  <2>4. QED
    BY <2>2, <2>3 DEF Effect
<1>3. ASSUME NEW c, AcceptCall(p, c)
      PROVE  \E s \in Sid, q \in Party : Effect(p, s, q) /\ (Connects(p, s, q) => UNCHANGED cmds)
  <2>1. Answers(p, c.sid, c.with) /\ c.sid \in Sid /\ c.with \in Party
    BY <1>3, AcceptDoes
  <2>2. ~Connects(p, c.sid, c.with)
    BY <2>1, SentNotTaken DEF Answers, Connects, Between
  <2>3. QED
    BY <2>1, <2>2 DEF Effect
<1>4. ASSUME NEW c, RejectCall(p, c) \/ EndCall(p, c)
      PROVE  \E s \in Sid, q \in Party : Effect(p, s, q) /\ (Connects(p, s, q) => UNCHANGED cmds)
  <2>1. HangsUp(p, c.sid, c.with) /\ c.sid \in Sid /\ c.with \in Party
    BY <1>4, HangUpDoes
  <2>2. ~Connects(p, c.sid, c.with)
    BY <2>1, SentNotTaken DEF HangsUp, Connects, Between
  <2>3. QED
    BY <2>1, <2>2 DEF Effect
<1>5. ASSUME NEW q \in Party, Deliver(p, q)
      PROVE  \E s \in Sid, r \in Party : Effect(p, s, r) /\ (Connects(p, s, r) => UNCHANGED cmds)
  <2>1. UNCHANGED cmds
    BY <1>5 DEF Deliver, HandleRequest
  <2>2. QED
    BY <1>5, <2>1, DeliverDoes DEF Effect
<1>6. QED
  BY <1>1, <1>2, <1>3, <1>4, <1>5

\* The only call stays shown.
LEMMA OnlyKept ==
  ASSUME TypeOK, SidInv, InitiatesOnce, EngineBusy, TerminateBehind, EndedTold,
         NEW p \in Party, healthy[p], Unbroken(p), ScreenLive(p), CalmStep(p), OnlyCallIsShown
  PROVE  OnlyCallIsShown'
<1> SUFFICES ASSUME NEW x \in Party, NEW t \in Sid, OnlyCall(x, t)'
             PROVE  IsShown(x, t)'
  BY DEF OnlyCallIsShown, OnlyCall, IsShown
<1>1. OnlyCall(x, t) => IsShown(x, t)
  BY OnlyIs
<1>2. CASE x # p
  <2>1. Same(x)
    BY <1>2, Local DEF CalmStep
  <2>2. OnlyCall(x, t) /\ (IsShown(x, t) => IsShown(x, t)')
    BY <2>1 DEF OnlyCall, IsShown, Same, Told
  <2>3. QED
    BY <1>1, <2>2
<1>3. CASE x = p /\ UNCHANGED <<jingle, held>>
  <2>1. OnlyCall(p, t) /\ IsShown(p, t)
    BY <1>1, <1>3 DEF OnlyCall
  <2>2. CASE (\E q \in Party : StartCall(p, q))
             \/ EndCallClicked(p) \/ AcceptClicked(p) \/ DeclineClicked(p)
    BY <1>3, <2>1, <2>2, ClickOnly
  <2>3. CASE HandleEvent(p)
    BY <1>3, <2>1, <2>3, EventOnly
  <2>4. CASE \E c : IgnoreCommand(p, c)
    BY <1>3, <2>1, <2>4, IgnoreOnly
  <2>5. CASE \/ \E c : InitiateCall(p, c)
             \/ \E c : AcceptCall(p, c) \/ RejectCall(p, c) \/ EndCall(p, c)
             \/ \E q \in Party : Deliver(p, q)
    <3>1. UNCHANGED ui /\ \E s \in Sid, q \in Party :
            Effect(p, s, q) /\ (Connects(p, s, q) => UNCHANGED cmds)
      BY <2>5, WorkerDoes
    <3>2. QED
      BY <1>1, <1>3, <3>1, EffectOnly
  <2>6. QED
    BY <2>2, <2>3, <2>4, <2>5 DEF CalmStep
<1>4. CASE x = p /\ ~UNCHANGED <<jingle, held>>
  <2>1. ~((\E q \in Party : StartCall(p, q))
           \/ EndCallClicked(p) \/ AcceptClicked(p) \/ DeclineClicked(p))
    BY <1>4, UserDoes
  <2>2. ~HandleEvent(p)
    BY <1>4, EventShows
  <2>3. \A c : ~IgnoreCommand(p, c)
    BY <1>4 DEF IgnoreCommand, worker
  <2>4. UNCHANGED ui /\ \E s \in Sid, q \in Party :
          Effect(p, s, q) /\ (Connects(p, s, q) => UNCHANGED cmds)
    BY <2>1, <2>2, <2>3, WorkerDoes DEF CalmStep
  <2>5. QED
    BY <1>1, <1>4, <2>4, EffectOnly
<1>5. QED
  BY <1>2, <1>3, <1>4

\* The invariants that hold while nothing breaks and nothing is delivered twice.
OnlyCalm == CalleeReached /\ TerminateBehind /\ EndedTold /\ OnlyCallIsShown

LEMMA CallRests ==
  ASSUME Rests
  PROVE  /\ CalleeReached => CalleeReached'
         /\ TerminateBehind => TerminateBehind'
         /\ EndedTold => EndedTold'
<1>1. CalleeReached => CalleeReached'
  BY DEF Rests, CalleeReached, Reached, SessionWith, On
<1>2. TerminateBehind => TerminateBehind'
  BY DEF Rests, TerminateBehind, Ahead
<1>3. ASSUME EndedTold, NEW x \in Party, NEW t \in Sid, Told(x, "CallEnded", t)'
      PROVE  t \in held'[x] /\ jingle'[x][t] = None
  BY <1>3, NoneToldIs DEF EndedTold, Rests
<1>4. QED
  BY <1>1, <1>2, <1>3 DEF EndedTold

LEMMA CalmOf ==
  ASSUME Calm, breaks = 0, NEW p \in Party
  PROVE  healthy[p] /\ Unbroken(p)
BY DEF Calm, Unbroken

LEMMA OnlyCalmKept ==
  ASSUME TypeOK, SidInv, OnceInv, ShownInv, Calm, EngineBusy, OwnHeld, OnlyCalm,
         breaks' = 0, duplicates' = 0, Next
  PROVE  OnlyCalm'
<1>1. duplicates = 0 /\ \A p, q \in Party : ~Duplicate(p, q)
  BY NoneDoubled
<1>2. breaks = 0 /\ \E p \in Party : CalmStep(p) \/ \E q \in Party : Duplicate(p, q)
  BY CalmBreaks
<1>3. PICK p \in Party : CalmStep(p)
  BY <1>1, <1>2
<1>4. healthy[p] /\ Unbroken(p)
  BY <1>2, CalmOf
<1>5. InitiatesOnce /\ ScreenLive(p)
  BY <1>1 DEF OnceInv, ShownInv
<1>6. StillClosed
  BY StaysClosed DEF StillClosed
<1>7. CASE Rests
  BY <1>7, CallRests, <1>3, <1>4, <1>5, OnlyKept DEF OnlyCalm
<1>8. ASSUME NEW s \in Sid, NEW q \in Party, Effect(p, s, q)
      PROVE  CalleeReached' /\ TerminateBehind' /\ EndedTold'
  BY <1>6, <1>8, CalleeReachedKept, TerminateBehindKept, EndedToldKept DEF OnlyCalm
<1>9. OnlyCallIsShown'
  BY <1>3, <1>4, <1>5, OnlyKept DEF OnlyCalm
<1>10. QED
  BY <1>3, <1>4, <1>5, <1>7, <1>8, <1>9, CalmDoes DEF OnlyCalm

LEMMA OnlyInvIs == OnlyInv <=> EngineBusy /\ OwnHeld /\ (Undisturbed => OnlyCalm)
BY DEF OnlyInv, OnlyCalm

LEMMA NextOnly ==
  TypeOK /\ SidInv /\ OnceInv /\ ShownInv /\ Calm /\ OnlyInv /\ [Next]_vars => OnlyInv' /\ Calm'
<1> SUFFICES ASSUME TypeOK, SidInv, OnceInv, ShownInv, Calm, OnlyInv, [Next]_vars
             PROVE  OnlyInv' /\ Calm'
  OBVIOUS
<1>1. Calm' /\ OwnHeld'
  BY CalmKept, OwnHeldKept, OnlyInvIs
<1>2. CASE UNCHANGED vars
  <2>1. UNCHANGED <<ui, cmds, events, jingle, wire, initiated, breaks, duplicates, held>>
    BY <1>2 DEF vars
  <2>2. EngineBusy'
    BY <2>1 DEF OnlyInv, EngineBusy
  <2>3. Rests
    BY <2>1, SameTold DEF Rests
  <2>4. OnlyCallIsShown => OnlyCallIsShown'
    BY <2>1 DEF OnlyCallIsShown, Told
  <2>5. Undisturbed' => OnlyCalm'
    BY <2>1, <2>3, <2>4, CallRests DEF OnlyInv, OnlyCalm, Undisturbed
  <2>6. QED
    BY <1>1, <2>2, <2>5 DEF OnlyInv, OnlyCalm
<1>3. CASE Next
  <2>1. EngineBusy'
    BY <1>3, EngineKept, OnlyInvIs
  <2>2. ASSUME breaks' = 0, duplicates' = 0 PROVE OnlyCalm'
    <3>1. breaks = 0 /\ duplicates = 0
      BY <1>3, <2>2, NoneDoubled, CalmBreaks
    <3>2. QED
      BY <1>3, <2>2, <3>1, OnlyInvIs, OnlyCalmKept DEF Undisturbed
  <2>3. QED
    BY <1>1, <2>1, <2>2 DEF OnlyInv, OnlyCalm, Undisturbed
<1>4. QED
  BY <1>2, <1>3

LEMMA InitOnly == Init => OnlyInv /\ Calm
<1> SUFFICES ASSUME Init PROVE OnlyInv /\ Calm
  OBVIOUS
<1>1. \A p \in Party : /\ ui[p] = Idle /\ cmds[p] = {} /\ events[p] = <<>>
                       /\ client[p] = "online" /\ healthy[p]
                       /\ initiated[p] = 0 /\ held[p] = {}
                       /\ \A s \in Sid : jingle[p][s] = None
                       /\ \A q \in Party : wire[p][q] = <<>>
  BY DEF Init
<1>2. Calm
  BY <1>1 DEF Calm
<1>3. EngineBusy
  BY <1>1 DEF EngineBusy, Idle
<1>4. OwnHeld
  <2>1. \A s \in Sid : s[1] \in Party /\ s[2] \in Nat /\ s[2] > 0
    BY SidParts, CallBounds
  <2>2. \A s \in Sid : ~(s[2] <= initiated[s[1]])
    BY <1>1, <2>1
  <2>3. QED
    BY <2>2 DEF OwnHeld
<1>5. CalleeReached /\ TerminateBehind /\ EndedTold /\ OnlyCallIsShown
  BY <1>1 DEF CalleeReached, SessionWith, TerminateBehind, EndedTold, Told, OnlyCallIsShown
<1>6. QED
  BY <1>2, <1>3, <1>4, <1>5 DEF OnlyInv

\* While nothing breaks and nothing is delivered twice, a party holds all sessions
\* it has made ids for, a terminate does not overtake its call, and an active
\* session that is the only one is on the screen; the engine of a party with a call
\* on the screen is active (CallView, the worker's select loop).
THEOREM OnlyCorrect == Spec => [](OnlyInv /\ Calm)
<1>1. TypeOK /\ SidInv /\ OnceInv /\ ShownInv /\ (OnlyInv /\ Calm) /\ [Next]_vars
        => (OnlyInv /\ Calm)'
  BY NextOnly
<1>2. QED
  BY <1>1, InitOnly, TypeCorrect, SidsCorrect, OnceCorrect, ShownCorrect, PTL DEF Spec

\* A party that has had one call only, and has it active, has it on its screen or is
\* about to, or its user has hung up, as long as no connection breaks and no
\* request is delivered twice.
THEOREM UndisturbedOnlyCallShown == Spec => [](Undisturbed => OnlyCallIsShown)
<1>1. OnlyInv => (Undisturbed => OnlyCallIsShown)
  BY DEF OnlyInv
<1>2. QED
  BY <1>1, OnlyCorrect, PTL

-----------------------------------------------------------------------------
\* The two ends of a call

LEMMA OneCalleeKept ==
  ASSUME NEW p \in Party, NEW s \in Sid, NEW q \in Party, TypeOK, Effect(p, s, q), OneCallee
  PROVE  OneCallee'
<1>1. ASSUME NEW x \in Party, Starts(p, s, q), Reached(x, s) PROVE FALSE
  <2>1. CASE s \in held[x]
    BY <1>1, <2>1 DEF Starts
  <2>2. CASE On(s[1], x, "session-initiate", s)
    <3>1. PICK i \in DOMAIN wire[s[1]][x] : wire[s[1]][x][i] = Stanza("session-initiate", s)
      BY <2>2 DEF On
    <3>2. wire[s[1]][x][i].sid = s
      BY <3>1, StanzasType
    <3>3. QED
      BY <1>1, <3>1, <3>2, SidParts DEF Starts
  <2>3. QED
    BY <1>1, <2>1, <2>2 DEF Reached
<1>2. Starts(p, s, q) => s[1] = p
  BY DEF Starts
<1>3. ASSUME NEW t \in Sid, NEW x \in Party, NEW y \in Party, x # t[1], y # t[1],
             Reached(x, t)', Reached(y, t)'
      PROVE  x = y
  <2>1. CASE Starts(p, s, q) /\ t = s
    BY <1>1, <1>2, <1>3, <2>1, ReachedLater
  <2>2. CASE ~(Starts(p, s, q) /\ t = s)
    <3>1. Reached(x, t) /\ Reached(y, t)
      BY <1>3, <2>2, ReachedLater
    <3>2. QED
      BY <1>3, <3>1 DEF OneCallee
  <2>3. QED
    BY <2>1, <2>2
<1>4. QED
  BY <1>3 DEF OneCallee

BothEnds ==
  CallerWaits /\ CallerTalks /\ CalleeRings /\ CalleeTalks /\ InitiateOpen /\ AcceptOpen

\* Both ends of every call through each effect.
LEMMA StartsEnds ==
  ASSUME NEW p \in Party, NEW s \in Sid, NEW q \in Party, TypeOK, SidInv, Starts(p, s, q), BothEnds
  PROVE  BothEnds'
<1>1. s[1] = p /\ p # q
  BY DEF Starts, Between
<1>2. \A x, y \in Party, t \in Sid : x # p \/ t # s =>
        /\ jingle'[x][t] = jingle[x][t]
        /\ \A state : InState(x, t, y, state)' <=> InState(x, t, y, state)
  BY StatesAfter DEF Starts
<1>3. \A y \in Party : \A state : InState(p, s, y, state)' <=> y = q /\ state = "PendingOutgoing"
  BY StatesAfter DEF Starts
<1>4. /\ On(p, q, "session-initiate", s)'
      /\ \A x, y \in Party : \A b, t :
           /\ On(x, y, b, t) => On(x, y, b, t)'
           /\ On(x, y, b, t)' =>
                On(x, y, b, t) \/ (x = p /\ y = q /\ b = "session-initiate" /\ t = s)
  BY OnSent DEF Starts
<1>5. \A x, y \in Party : \A state : ~InState(x, s, y, state)
  BY DEF Starts, InState, SessionWith
<1>6. \A x, y \in Party : \A b : ~On(x, y, b, s)
  <2>1. \A b : Stanza(b, s).sid = s
    BY DEF Stanza
  <2>2. QED
    BY <2>1 DEF On, Starts
<1>7. HeldGrows
  BY DEF Starts, Holds, HeldGrows
<1>8. CallerWaits'
  BY <1>1, <1>2, <1>3, <1>4 DEF BothEnds, CallerWaits
<1>9. CallerTalks'
  BY <1>1, <1>2, <1>3, <1>4 DEF BothEnds, CallerTalks
<1>10. CalleeRings'
  BY <1>1, <1>2, <1>3, <1>4, <1>5 DEF BothEnds, CalleeRings
<1>11. CalleeTalks'
  BY <1>1, <1>2, <1>3, <1>4, <1>5 DEF BothEnds, CalleeTalks
<1>12. InitiateOpen'
  <2> SUFFICES ASSUME NEW x \in Party, NEW y \in Party, NEW t \in Sid, NEW i \in DOMAIN wire'[x][y],
                      wire'[x][y][i] = Stanza("session-initiate", t)
               PROVE  InState(x, t, y, "PendingOutgoing")'
                        \/ Behind(x, y, i, Stanza("session-terminate", t))'
    BY DEF InitiateOpen
  <2>1. \/ i \in DOMAIN wire[x][y] /\ wire'[x][y][i] = wire[x][y][i]
        \/ x = p /\ y = q /\ wire'[x][y][i] = Stanza("session-initiate", s)
    BY OrderSent DEF Starts
  <2>2. CASE i \in DOMAIN wire[x][y] /\ wire'[x][y][i] = wire[x][y][i]
    <3>1. InState(x, t, y, "PendingOutgoing") \/ Behind(x, y, i, Stanza("session-terminate", t))
      BY <2>2 DEF BothEnds, InitiateOpen
    <3>2. Behind(x, y, i, Stanza("session-terminate", t))
            => Behind(x, y, i, Stanza("session-terminate", t))'
      BY OrderSent DEF Starts
    <3>3. QED
      BY <1>2, <1>5, <3>1, <3>2
  <2>3. CASE x = p /\ y = q /\ wire'[x][y][i] = Stanza("session-initiate", s)
    BY <1>3, <2>3, StanzaIs
  <2>4. QED
    BY <2>1, <2>2, <2>3
<1>13. AcceptOpen'
  <2> SUFFICES ASSUME NEW x \in Party, NEW y \in Party, NEW t \in Sid, On(y, x, "session-accept", t)'
               PROVE  /\ t[1] = x /\ t \in held'[y]
                      /\ \/ jingle'[x][t] = None
                         \/ InState(y, t, x, "Active")'
                         \/ On(y, x, "session-terminate", t)'
    BY DEF AcceptOpen
  <2>1. On(y, x, "session-accept", t) /\ t # s
    BY <1>4, <1>6
  <2>2. /\ t[1] = x /\ t \in held[y]
        /\ jingle[x][t] = None \/ InState(y, t, x, "Active") \/ On(y, x, "session-terminate", t)
    BY <2>1 DEF BothEnds, AcceptOpen
  <2>3. QED
    BY <1>2, <1>4, <1>7, <2>1, <2>2 DEF HeldGrows
<1>14. QED
  BY <1>8, <1>9, <1>10, <1>11, <1>12, <1>13 DEF BothEnds

LEMMA AnswersEnds ==
  ASSUME NEW p \in Party, NEW s \in Sid, NEW q \in Party, TypeOK, SidInv, Answers(p, s, q), BothEnds
  PROVE  BothEnds'
<1>1. s[1] = q /\ p # q /\ InState(p, s, q, "PendingIncoming") /\ UNCHANGED held
  BY DEF Answers, Between
<1>2. \A x, y \in Party, t \in Sid : x # p \/ t # s =>
        /\ jingle'[x][t] = jingle[x][t]
        /\ \A state : InState(x, t, y, state)' <=> InState(x, t, y, state)
  BY StatesAfter DEF Answers
<1>3. \A y \in Party : \A state : InState(p, s, y, state)' <=> y = q /\ state = "Active"
  BY StatesAfter DEF Answers
<1>4. /\ On(p, q, "session-accept", s)'
      /\ \A x, y \in Party : \A b, t :
           /\ On(x, y, b, t) => On(x, y, b, t)'
           /\ On(x, y, b, t)' =>
                On(x, y, b, t) \/ (x = p /\ y = q /\ b = "session-accept" /\ t = s)
  BY OnSent DEF Answers
<1>5. \A y \in Party : \A state : InState(p, s, y, state) => y = q /\ state = "PendingIncoming"
  BY <1>1, OneState
<1>6. s \in held[p]
  BY <1>1, HeldIfThere DEF InState, SessionWith
<1>7. InState(q, s, p, "PendingOutgoing") \/ On(q, p, "session-terminate", s)
  BY <1>1 DEF BothEnds, CalleeRings
<1>8. CallerWaits'
  BY <1>1, <1>2, <1>3, <1>4, <1>5 DEF BothEnds, CallerWaits
<1>9. CallerTalks'
  BY <1>1, <1>2, <1>3, <1>4, <1>5 DEF BothEnds, CallerTalks
<1>10. CalleeRings'
  BY <1>1, <1>2, <1>3, <1>4 DEF BothEnds, CalleeRings
<1>11. CalleeTalks'
  BY <1>1, <1>2, <1>3, <1>4, <1>7 DEF BothEnds, CalleeTalks
<1>12. InitiateOpen'
  <2> SUFFICES ASSUME NEW x \in Party, NEW y \in Party, NEW t \in Sid, NEW i \in DOMAIN wire'[x][y],
                      wire'[x][y][i] = Stanza("session-initiate", t)
               PROVE  InState(x, t, y, "PendingOutgoing")'
                        \/ Behind(x, y, i, Stanza("session-terminate", t))'
    BY DEF InitiateOpen
  <2>1. i \in DOMAIN wire[x][y] /\ wire'[x][y][i] = wire[x][y][i]
    BY OrderSent, ActionsDiffer DEF Answers
  <2>2. InState(x, t, y, "PendingOutgoing") \/ Behind(x, y, i, Stanza("session-terminate", t))
    BY <2>1 DEF BothEnds, InitiateOpen
  <2>3. Behind(x, y, i, Stanza("session-terminate", t))
          => Behind(x, y, i, Stanza("session-terminate", t))'
    BY OrderSent DEF Answers
  <2>4. QED
    BY <1>2, <1>5, <2>2, <2>3
<1>13. AcceptOpen'
  <2> SUFFICES ASSUME NEW x \in Party, NEW y \in Party, NEW t \in Sid, On(y, x, "session-accept", t)'
               PROVE  /\ t[1] = x /\ t \in held'[y]
                      /\ \/ jingle'[x][t] = None
                         \/ InState(y, t, x, "Active")'
                         \/ On(y, x, "session-terminate", t)'
    BY DEF AcceptOpen
  <2>1. CASE y = p /\ x = q /\ t = s
    BY <1>1, <1>3, <1>6, <2>1
  <2>2. CASE ~(y = p /\ x = q /\ t = s)
    <3>1. On(y, x, "session-accept", t)
      BY <1>4, <2>2
    <3>2. /\ t[1] = x /\ t \in held[y]
          /\ jingle[x][t] = None \/ InState(y, t, x, "Active") \/ On(y, x, "session-terminate", t)
      BY <3>1 DEF BothEnds, AcceptOpen
    <3>3. (y # p \/ t # s) /\ (x # p \/ t # s)
      BY <1>1, <2>2, <3>2
    <3>4. QED
      BY <1>1, <1>2, <1>4, <3>2, <3>3
  <2>3. QED
    BY <2>1, <2>2
<1>14. QED
  BY <1>8, <1>9, <1>10, <1>11, <1>12, <1>13 DEF BothEnds

LEMMA HangsUpEnds ==
  ASSUME NEW p \in Party, NEW s \in Sid, NEW q \in Party, TypeOK, SidInv, HangsUp(p, s, q),
         CalleeReached, OneCallee, BothEnds
  PROVE  BothEnds'
<1>1. /\ s[1] \in {p, q} /\ p # q /\ UNCHANGED held
      /\ s[1] = p => SessionWith(p, s, q)
  BY DEF HangsUp, Between
<1>2. \A x, y \in Party, t \in Sid : x # p \/ t # s =>
        /\ jingle'[x][t] = jingle[x][t]
        /\ \A state : InState(x, t, y, state)' <=> InState(x, t, y, state)
  BY StatesAfter DEF HangsUp
<1>3. jingle'[p][s] = None /\ \A y \in Party : \A state : ~InState(p, s, y, state)'
  BY StatesAfter DEF HangsUp, Becomes
<1>4. /\ On(p, q, "session-terminate", s)'
      /\ \A x, y \in Party : \A b, t :
           /\ On(x, y, b, t) => On(x, y, b, t)'
           /\ On(x, y, b, t)' =>
                On(x, y, b, t) \/ (x = p /\ y = q /\ b = "session-terminate" /\ t = s)
  BY OnSent DEF HangsUp
\* Who else has the call of p is q.
<1>5. ASSUME s[1] = p, NEW y \in Party, y # p, Reached(y, s) PROVE y = q
  <2>1. Reached(q, s)
    BY <1>1, <1>5 DEF CalleeReached
  <2>2. QED
    BY <1>1, <1>5, <2>1 DEF OneCallee
<1>6. ASSUME NEW y \in Party, NEW x \in Party, NEW state, InState(y, s, x, state)
      PROVE  s \in held[y]
  BY <1>6, HeldIfThere DEF InState, SessionWith
<1>7. CallerWaits'
  BY <1>1, <1>2, <1>3, <1>4 DEF BothEnds, CallerWaits
<1>8. CallerTalks'
  BY <1>1, <1>2, <1>3, <1>4 DEF BothEnds, CallerTalks
<1>9. CalleeRings'
  <2> SUFFICES ASSUME NEW x \in Party, NEW y \in Party, NEW t \in Sid, t[1] = x,
                      InState(y, t, x, "PendingIncoming")'
               PROVE  InState(x, t, y, "PendingOutgoing")' \/ On(x, y, "session-terminate", t)'
    BY DEF CalleeRings
  <2>1. InState(y, t, x, "PendingIncoming") /\ (y # p \/ t # s)
    BY <1>2, <1>3
  <2>2. CASE x = p /\ t = s
    BY <1>4, <1>5, <1>6, <2>1, <2>2 DEF Reached
  <2>3. CASE x # p \/ t # s
    BY <1>2, <1>4, <2>1, <2>3 DEF BothEnds, CalleeRings
  <2>4. QED
    BY <2>2, <2>3
<1>10. CalleeTalks'
  <2> SUFFICES ASSUME NEW x \in Party, NEW y \in Party, NEW t \in Sid, t[1] = x, x # y,
                      InState(y, t, x, "Active")'
               PROVE  \/ InState(x, t, y, "Active")'
                      \/ InState(x, t, y, "PendingOutgoing")' /\ On(y, x, "session-accept", t)'
                      \/ On(x, y, "session-terminate", t)'
    BY DEF CalleeTalks
  <2>1. InState(y, t, x, "Active") /\ (y # p \/ t # s)
    BY <1>2, <1>3
  <2>2. CASE x = p /\ t = s
    BY <1>4, <1>5, <1>6, <2>1, <2>2 DEF Reached
  <2>3. CASE x # p \/ t # s
    BY <1>2, <1>4, <2>1, <2>3 DEF BothEnds, CalleeTalks
  <2>4. QED
    BY <2>2, <2>3
<1>11. InitiateOpen'
  <2> SUFFICES ASSUME NEW x \in Party, NEW y \in Party, NEW t \in Sid, NEW i \in DOMAIN wire'[x][y],
                      wire'[x][y][i] = Stanza("session-initiate", t)
               PROVE  InState(x, t, y, "PendingOutgoing")'
                        \/ Behind(x, y, i, Stanza("session-terminate", t))'
    BY DEF InitiateOpen
  <2>1. i \in DOMAIN wire[x][y] /\ wire'[x][y][i] = wire[x][y][i]
    BY OrderSent, ActionsDiffer DEF HangsUp
  <2>2. InState(x, t, y, "PendingOutgoing") \/ Behind(x, y, i, Stanza("session-terminate", t))
    BY <2>1 DEF BothEnds, InitiateOpen
  <2>3. Behind(x, y, i, Stanza("session-terminate", t))
          => Behind(x, y, i, Stanza("session-terminate", t))'
    BY OrderSent DEF HangsUp
  <2>4. CASE x = p /\ t = s
    <3>1. On(x, y, "session-initiate", t)
      BY <2>1 DEF On
    <3>2. s[1] = p /\ y # p
      BY <2>4, <3>1, OnOf
    <3>3. y = q
      BY <1>5, <2>4, <3>1, <3>2 DEF Reached
    <3>4. Behind(p, q, i, Stanza("session-terminate", s))'
      BY <2>1, <2>4, <3>3, OrderSent DEF HangsUp
    <3>5. QED
      BY <2>4, <3>3, <3>4
  <2>5. CASE x # p \/ t # s
    BY <1>2, <2>2, <2>3, <2>5
  <2>6. QED
    BY <2>4, <2>5
<1>12. AcceptOpen'
  <2> SUFFICES ASSUME NEW x \in Party, NEW y \in Party, NEW t \in Sid, On(y, x, "session-accept", t)'
               PROVE  /\ t[1] = x /\ t \in held'[y]
                      /\ \/ jingle'[x][t] = None
                         \/ InState(y, t, x, "Active")'
                         \/ On(y, x, "session-terminate", t)'
    BY DEF AcceptOpen
  <2>1. On(y, x, "session-accept", t)
    BY <1>4
  <2>2. /\ t[1] = x /\ t \in held[y]
        /\ jingle[x][t] = None \/ InState(y, t, x, "Active") \/ On(y, x, "session-terminate", t)
    BY <2>1 DEF BothEnds, AcceptOpen
  <2>3. x # y
    BY <2>1, OnOf
  <2>4. jingle[x][t] = None => jingle'[x][t] = None
    BY <1>2, <1>3
  <2>5. CASE y = p /\ t = s
    <3>1. x = q
      BY <1>1, <2>2, <2>3, <2>5
    <3>2. QED
      BY <1>1, <1>4, <2>2, <2>5, <3>1
  <2>6. CASE y # p \/ t # s
    BY <1>1, <1>2, <1>4, <2>2, <2>4, <2>6
  <2>7. QED
    BY <2>5, <2>6
<1>13. QED
  BY <1>7, <1>8, <1>9, <1>10, <1>11, <1>12 DEF BothEnds

LEMMA RingsEnds ==
  ASSUME NEW p \in Party, NEW s \in Sid, NEW q \in Party, TypeOK, SidInv, Rings(p, s, q), BothEnds
  PROVE  BothEnds'
<1>1. s[1] = q /\ p # q /\ s \notin held[p] /\ jingle[p][s] = None
  BY DEF Rings, Between
<1>2. \A x, y \in Party, t \in Sid : x # p \/ t # s =>
        /\ jingle'[x][t] = jingle[x][t]
        /\ \A state : InState(x, t, y, state)' <=> InState(x, t, y, state)
  BY StatesAfter DEF Rings
<1>3. \A y \in Party : \A state : InState(p, s, y, state)' <=> y = q /\ state = "PendingIncoming"
  BY StatesAfter DEF Rings
<1>4. /\ On(q, p, "session-initiate", s)
      /\ \A x, y \in Party : \A b, t :
           /\ On(x, y, b, t)' => On(x, y, b, t)
           /\ On(x, y, b, t) =>
                On(x, y, b, t)' \/ (x = q /\ y = p /\ b = "session-initiate" /\ t = s)
  BY OnTaken DEF Rings
<1>5. \A y \in Party : \A state : ~InState(p, s, y, state)
  BY <1>1 DEF InState, SessionWith
<1>6. HeldGrows
  BY DEF Rings, Holds, HeldGrows
<1>7. InState(q, s, p, "PendingOutgoing")' \/ On(q, p, "session-terminate", s)'
  <2>1. 1 \in DOMAIN wire[q][p] /\ wire[q][p][1] = Stanza("session-initiate", s)
    BY DEF Rings, Takes, Shifted
  <2>2. InState(q, s, p, "PendingOutgoing") \/ Behind(q, p, 1, Stanza("session-terminate", s))
    BY <2>1 DEF BothEnds, InitiateOpen
  <2>3. Behind(q, p, 1, Stanza("session-terminate", s)) => On(q, p, "session-terminate", s)
    BY DEF Behind, On
  <2>4. QED
    BY <1>1, <1>2, <1>4, <2>2, <2>3
<1>8. CallerWaits'
  BY <1>1, <1>2, <1>3, <1>4, <1>5 DEF BothEnds, CallerWaits
<1>9. CallerTalks'
  BY <1>1, <1>2, <1>3, <1>4, <1>5 DEF BothEnds, CallerTalks
<1>10. CalleeRings'
  BY <1>1, <1>2, <1>3, <1>4, <1>5, <1>7 DEF BothEnds, CalleeRings
<1>11. CalleeTalks'
  BY <1>1, <1>2, <1>3, <1>4, <1>5 DEF BothEnds, CalleeTalks
<1>12. InitiateOpen'
  <2> SUFFICES ASSUME NEW x \in Party, NEW y \in Party, NEW t \in Sid, NEW i \in DOMAIN wire'[x][y],
                      wire'[x][y][i] = Stanza("session-initiate", t)
               PROVE  InState(x, t, y, "PendingOutgoing")'
                        \/ Behind(x, y, i, Stanza("session-terminate", t))'
    BY DEF InitiateOpen
  <2>1. PICK j \in DOMAIN wire[x][y] :
          /\ wire'[x][y][i] = wire[x][y][j]
          /\ \A n : Behind(x, y, j, n) => Behind(x, y, i, n)'
    BY OrderTaken DEF Rings
  <2>2. InState(x, t, y, "PendingOutgoing") \/ Behind(x, y, j, Stanza("session-terminate", t))
    BY <2>1 DEF BothEnds, InitiateOpen
  <2>3. QED
    BY <1>2, <1>5, <2>1, <2>2
<1>13. AcceptOpen'
  <2> SUFFICES ASSUME NEW x \in Party, NEW y \in Party, NEW t \in Sid, On(y, x, "session-accept", t)'
               PROVE  /\ t[1] = x /\ t \in held'[y]
                      /\ \/ jingle'[x][t] = None
                         \/ InState(y, t, x, "Active")'
                         \/ On(y, x, "session-terminate", t)'
    BY DEF AcceptOpen
  <2>1. On(y, x, "session-accept", t)
    BY <1>4
  <2>2. /\ t[1] = x /\ t \in held[y]
        /\ jingle[x][t] = None \/ InState(y, t, x, "Active") \/ On(y, x, "session-terminate", t)
    BY <2>1 DEF BothEnds, AcceptOpen
  <2>3. (x # p \/ t # s) /\ (y # p \/ t # s)
    BY <1>1, <2>2
  <2>4. On(y, x, "session-terminate", t) => On(y, x, "session-terminate", t)'
    BY <1>4
  <2>5. QED
    BY <1>2, <1>6, <2>2, <2>3, <2>4 DEF HeldGrows
<1>14. QED
  BY <1>8, <1>9, <1>10, <1>11, <1>12, <1>13 DEF BothEnds

LEMMA ConnectsEnds ==
  ASSUME NEW p \in Party, NEW s \in Sid, NEW q \in Party, TypeOK, SidInv, InitiatesOnce,
         Connects(p, s, q), TerminateBehind, BothEnds
  PROVE  BothEnds'
<1>1. p # q /\ UNCHANGED held
  BY DEF Connects, Between
<1>2. /\ On(q, p, "session-accept", s)
      /\ \A x, y \in Party : \A b, t :
           /\ On(x, y, b, t)' => On(x, y, b, t)
           /\ On(x, y, b, t) =>
                On(x, y, b, t)' \/ (x = q /\ y = p /\ b = "session-accept" /\ t = s)
  BY OnTaken DEF Connects
<1>3. /\ s[1] = p /\ s \in held[q]
      /\ jingle[p][s] = None \/ InState(q, s, p, "Active") \/ On(q, p, "session-terminate", s)
  BY <1>2 DEF BothEnds, AcceptOpen
<1>4. \A x, y \in Party : \A i \in DOMAIN wire'[x][y] : \E j \in DOMAIN wire[x][y] :
        /\ wire'[x][y][i] = wire[x][y][j]
        /\ \A n : Behind(x, y, j, n) => Behind(x, y, i, n)'
  BY OrderTaken DEF Connects
<1>5. ~On(p, q, "session-initiate", s)
  BY <1>3, InitiateNew
<1>6. CASE ~InState(p, s, q, "PendingOutgoing")
  <2>1. /\ UNCHANGED jingle
        /\ \A x, y \in Party, t \in Sid : \A state : InState(x, t, y, state)' <=> InState(x, t, y, state)
    BY <1>6 DEF Connects, InState, SessionWith
  <2>2. CallerWaits'
    BY <1>2, <1>6, <2>1 DEF BothEnds, CallerWaits
  <2>3. CallerTalks'
    BY <1>2, <2>1 DEF BothEnds, CallerTalks
  <2>4. CalleeRings'
    BY <1>2, <2>1 DEF BothEnds, CalleeRings
  <2>5. CalleeTalks'
    BY <1>2, <1>6, <2>1 DEF BothEnds, CalleeTalks
  <2>6. InitiateOpen'
    <3> SUFFICES ASSUME NEW x \in Party, NEW y \in Party, NEW t \in Sid, NEW i \in DOMAIN wire'[x][y],
                        wire'[x][y][i] = Stanza("session-initiate", t)
                 PROVE  InState(x, t, y, "PendingOutgoing")'
                          \/ Behind(x, y, i, Stanza("session-terminate", t))'
      BY DEF InitiateOpen
    <3>1. PICK j \in DOMAIN wire[x][y] :
            /\ wire'[x][y][i] = wire[x][y][j]
            /\ \A n : Behind(x, y, j, n) => Behind(x, y, i, n)'
      BY <1>4
    <3>2. InState(x, t, y, "PendingOutgoing") \/ Behind(x, y, j, Stanza("session-terminate", t))
      BY <3>1 DEF BothEnds, InitiateOpen
    <3>3. QED
      BY <2>1, <3>1, <3>2
  <2>7. AcceptOpen'
    BY <1>1, <1>2, <2>1 DEF BothEnds, AcceptOpen
  <2>8. QED
    BY <2>2, <2>3, <2>4, <2>5, <2>6, <2>7 DEF BothEnds
<1>7. CASE InState(p, s, q, "PendingOutgoing")
  <2>1. Becomes(p, s, Entry(q, "Active"))
    BY <1>7 DEF Connects
  <2>2. \A x, y \in Party, t \in Sid : x # p \/ t # s =>
          /\ jingle'[x][t] = jingle[x][t]
          /\ \A state : InState(x, t, y, state)' <=> InState(x, t, y, state)
    BY <2>1, StatesAfter
  <2>3. \A y \in Party : \A state : InState(p, s, y, state)' <=> y = q /\ state = "Active"
    BY <2>1, StatesAfter
  <2>4. \A y \in Party : \A state : InState(p, s, y, state) => y = q /\ state = "PendingOutgoing"
    BY <1>7, OneState
  <2>5. InState(q, s, p, "Active") \/ On(q, p, "session-terminate", s)
    BY <1>3, <1>7 DEF InState, SessionWith
  <2>6. ~InState(q, s, p, "PendingIncoming")
    <3>1. CASE InState(q, s, p, "Active")
      BY <3>1, OneState
    <3>2. CASE On(q, p, "session-terminate", s)
      BY <3>2 DEF On, TerminateBehind, InState, SessionWith
    <3>3. QED
      BY <2>5, <3>1, <3>2
  <2>7. CallerWaits'
    BY <1>1, <1>2, <1>3, <2>2, <2>3, <2>4 DEF BothEnds, CallerWaits
  <2>8. CallerTalks'
    <3> SUFFICES ASSUME NEW x \in Party, NEW y \in Party, NEW t \in Sid, t[1] = x,
                        InState(x, t, y, "Active")'
                 PROVE  InState(y, t, x, "Active")' \/ On(y, x, "session-terminate", t)'
      BY DEF CallerTalks
    <3>1. CASE x = p /\ t = s
      BY <1>1, <1>2, <2>2, <2>3, <2>5, <3>1
    <3>2. CASE x # p \/ t # s
      <4>1. InState(y, t, x, "Active") \/ On(y, x, "session-terminate", t)
        BY <2>2, <3>2 DEF BothEnds, CallerTalks
      <4>2. InState(y, t, x, "Active") => y # p \/ t # s
        BY <2>4
      <4>3. QED
        BY <1>2, <2>2, <4>1, <4>2
    <3>3. QED
      BY <3>1, <3>2
  <2>9. CalleeRings'
    <3> SUFFICES ASSUME NEW x \in Party, NEW y \in Party, NEW t \in Sid, t[1] = x,
                        InState(y, t, x, "PendingIncoming")'
                 PROVE  InState(x, t, y, "PendingOutgoing")' \/ On(x, y, "session-terminate", t)'
      BY DEF CalleeRings
    <3>1. InState(y, t, x, "PendingIncoming") /\ (y # p \/ t # s)
      BY <2>2, <2>3
    <3>2. InState(x, t, y, "PendingOutgoing") \/ On(x, y, "session-terminate", t)
      BY <3>1 DEF BothEnds, CalleeRings
    <3>3. CASE x = p /\ t = s
      <4>1. y # q
        BY <2>6, <3>1, <3>3
      <4>2. QED
        BY <1>2, <2>4, <3>2, <3>3, <4>1
    <3>4. CASE x # p \/ t # s
      BY <1>2, <2>2, <3>2, <3>4
    <3>5. QED
      BY <3>3, <3>4
  <2>10. CalleeTalks'
    <3> SUFFICES ASSUME NEW x \in Party, NEW y \in Party, NEW t \in Sid, t[1] = x, x # y,
                        InState(y, t, x, "Active")'
                 PROVE  \/ InState(x, t, y, "Active")'
                        \/ InState(x, t, y, "PendingOutgoing")' /\ On(y, x, "session-accept", t)'
                        \/ On(x, y, "session-terminate", t)'
      BY DEF CalleeTalks
    <3>1. y # p \/ t # s
      BY <1>3
    <3>2. \/ InState(x, t, y, "Active")
          \/ InState(x, t, y, "PendingOutgoing") /\ On(y, x, "session-accept", t)
          \/ On(x, y, "session-terminate", t)
      BY <2>2, <3>1 DEF BothEnds, CalleeTalks
    <3>3. CASE x = p /\ t = s
      BY <1>2, <2>3, <2>4, <3>2, <3>3
    <3>4. CASE x # p \/ t # s
      BY <1>2, <2>2, <3>2, <3>4
    <3>5. QED
      BY <3>3, <3>4
  <2>11. InitiateOpen'
    <3> SUFFICES ASSUME NEW x \in Party, NEW y \in Party, NEW t \in Sid, NEW i \in DOMAIN wire'[x][y],
                        wire'[x][y][i] = Stanza("session-initiate", t)
                 PROVE  InState(x, t, y, "PendingOutgoing")'
                          \/ Behind(x, y, i, Stanza("session-terminate", t))'
      BY DEF InitiateOpen
    <3>1. PICK j \in DOMAIN wire[x][y] :
            /\ wire'[x][y][i] = wire[x][y][j]
            /\ \A n : Behind(x, y, j, n) => Behind(x, y, i, n)'
      BY <1>4
    <3>2. InState(x, t, y, "PendingOutgoing") \/ Behind(x, y, j, Stanza("session-terminate", t))
      BY <3>1 DEF BothEnds, InitiateOpen
    <3>3. On(x, y, "session-initiate", t)
      BY <3>1 DEF On
    <3>4. InState(x, t, y, "PendingOutgoing") => x # p \/ t # s
      BY <1>5, <2>4, <3>3
    <3>5. QED
      BY <2>2, <3>1, <3>2, <3>4
  <2>12. AcceptOpen'
    <3> SUFFICES ASSUME NEW x \in Party, NEW y \in Party, NEW t \in Sid, On(y, x, "session-accept", t)'
                 PROVE  /\ t[1] = x /\ t \in held'[y]
                        /\ \/ jingle'[x][t] = None
                           \/ InState(y, t, x, "Active")'
                           \/ On(y, x, "session-terminate", t)'
      BY DEF AcceptOpen
    <3>1. On(y, x, "session-accept", t)
      BY <1>2
    <3>2. /\ t[1] = x /\ t \in held[y]
          /\ jingle[x][t] = None \/ InState(y, t, x, "Active") \/ On(y, x, "session-terminate", t)
      BY <3>1 DEF BothEnds, AcceptOpen
    <3>3. jingle[x][t] = None => jingle'[x][t] = None
      BY <1>7, <2>2 DEF InState, SessionWith
    <3>4. InState(y, t, x, "Active") => InState(y, t, x, "Active")'
      BY <2>2, <2>4
    <3>5. QED
      BY <1>1, <1>2, <3>2, <3>3, <3>4
  <2>13. QED
    BY <2>7, <2>8, <2>9, <2>10, <2>11, <2>12 DEF BothEnds
<1>8. QED
  BY <1>6, <1>7

LEMMA IsOverEnds ==
  ASSUME NEW p \in Party, NEW s \in Sid, NEW q \in Party, TypeOK, SidInv, InitiatesOnce,
         IsOver(p, s, q), TerminateBehind, OneCallee, BothEnds
  PROVE  BothEnds'
<1>1. /\ p # q /\ s[1] \in {p, q} /\ UNCHANGED held
      /\ s \in held[p] /\ s \in held[q] /\ jingle[q][s] = None
  BY OverHeld DEF IsOver, Between
<1>2. /\ On(q, p, "session-terminate", s)
      /\ \A x, y \in Party : \A b, t :
           /\ On(x, y, b, t)' => On(x, y, b, t)
           /\ On(x, y, b, t) =>
                On(x, y, b, t)' \/ (x = q /\ y = p /\ b = "session-terminate" /\ t = s)
  BY OnTaken DEF IsOver
<1>3. \A x, y \in Party, t \in Sid : x # p \/ t # s =>
        /\ jingle'[x][t] = jingle[x][t]
        /\ \A state : InState(x, t, y, state)' <=> InState(x, t, y, state)
  BY StatesAfter DEF IsOver
<1>4. jingle'[p][s] = None /\ \A y \in Party : \A state : ~InState(p, s, y, state)'
  BY StatesAfter DEF IsOver, Becomes
<1>5. \A y \in Party : \A state : ~InState(q, s, y, state)
  BY <1>1 DEF InState, SessionWith
\* Of a call of p, nobody else has heard.
<1>6. ASSUME s[1] = p, NEW y \in Party, y # p, Reached(y, s) PROVE y = q
  BY <1>1, <1>6 DEF OneCallee, Reached
<1>7. ASSUME s[1] = p, NEW y \in Party, y # p, NEW x \in Party, NEW state
      PROVE  ~InState(y, s, x, state)
  <2>1. InState(y, s, x, state) => Reached(y, s)
    BY <1>7, HeldIfThere DEF InState, SessionWith, Reached
  <2>2. QED
    BY <1>5, <1>6, <1>7, <2>1
<1>8. CallerWaits'
  BY <1>1, <1>2, <1>3, <1>4, <1>5 DEF BothEnds, CallerWaits
<1>9. CallerTalks'
  BY <1>1, <1>2, <1>3, <1>4, <1>5 DEF BothEnds, CallerTalks
<1>10. CalleeRings'
  <2> SUFFICES ASSUME NEW x \in Party, NEW y \in Party, NEW t \in Sid, t[1] = x,
                      InState(y, t, x, "PendingIncoming")'
               PROVE  InState(x, t, y, "PendingOutgoing")' \/ On(x, y, "session-terminate", t)'
    BY DEF CalleeRings
  <2>1. InState(y, t, x, "PendingIncoming") /\ (y # p \/ t # s)
    BY <1>3, <1>4
  <2>2. x # p \/ t # s
    BY <1>7, <2>1
  <2>3. InState(x, t, y, "PendingOutgoing") \/ On(x, y, "session-terminate", t)
    BY <2>1 DEF BothEnds, CalleeRings
  <2>4. QED
    BY <1>2, <1>3, <2>1, <2>2, <2>3
<1>11. CalleeTalks'
  <2> SUFFICES ASSUME NEW x \in Party, NEW y \in Party, NEW t \in Sid, t[1] = x, x # y,
                      InState(y, t, x, "Active")'
               PROVE  \/ InState(x, t, y, "Active")'
                      \/ InState(x, t, y, "PendingOutgoing")' /\ On(y, x, "session-accept", t)'
                      \/ On(x, y, "session-terminate", t)'
    BY DEF CalleeTalks
  <2>1. InState(y, t, x, "Active") /\ (y # p \/ t # s)
    BY <1>3, <1>4
  <2>2. x # p \/ t # s
    BY <1>7, <2>1
  <2>3. \/ InState(x, t, y, "Active")
        \/ InState(x, t, y, "PendingOutgoing") /\ On(y, x, "session-accept", t)
        \/ On(x, y, "session-terminate", t)
    BY <2>1 DEF BothEnds, CalleeTalks
  <2>4. QED
    BY <1>2, <1>3, <2>1, <2>2, <2>3
<1>12. InitiateOpen'
  <2> SUFFICES ASSUME NEW x \in Party, NEW y \in Party, NEW t \in Sid, NEW i \in DOMAIN wire'[x][y],
                      wire'[x][y][i] = Stanza("session-initiate", t)
               PROVE  InState(x, t, y, "PendingOutgoing")'
                        \/ Behind(x, y, i, Stanza("session-terminate", t))'
    BY DEF InitiateOpen
  <2>1. PICK j \in DOMAIN wire[x][y] :
          /\ wire'[x][y][i] = wire[x][y][j]
          /\ \A n : Behind(x, y, j, n) => Behind(x, y, i, n)'
    BY OrderTaken DEF IsOver
  <2>2. InState(x, t, y, "PendingOutgoing") \/ Behind(x, y, j, Stanza("session-terminate", t))
    BY <2>1 DEF BothEnds, InitiateOpen
  <2>3. On(x, y, "session-initiate", t)
    BY <2>1 DEF On
  <2>4. ASSUME x = p, t = s PROVE FALSE
    <3>1. s[1] = p /\ y # p
      BY <2>3, <2>4, OnOf
    <3>2. y = q
      BY <1>6, <2>3, <2>4, <3>1 DEF Reached
    <3>3. QED
      BY <1>1, <2>3, <2>4, <3>2, InitiateNew
  <2>5. QED
    BY <1>3, <2>1, <2>2, <2>4
<1>13. AcceptOpen'
  <2> SUFFICES ASSUME NEW x \in Party, NEW y \in Party, NEW t \in Sid, On(y, x, "session-accept", t)'
               PROVE  /\ t[1] = x /\ t \in held'[y]
                      /\ \/ jingle'[x][t] = None
                         \/ InState(y, t, x, "Active")'
                         \/ On(y, x, "session-terminate", t)'
    BY DEF AcceptOpen
  <2>1. On(y, x, "session-accept", t)
    BY <1>2
  <2>2. /\ t[1] = x /\ t \in held[y]
        /\ jingle[x][t] = None \/ InState(y, t, x, "Active") \/ On(y, x, "session-terminate", t)
    BY <2>1 DEF BothEnds, AcceptOpen
  <2>3. x # y
    BY <2>1, OnOf
  <2>4. CASE x = p /\ t = s
    BY <1>1, <1>4, <2>2, <2>4
  <2>5. CASE t = s /\ x # p
    <3>1. x = q
      BY <1>1, <2>2, <2>5
    <3>2. jingle'[q][s] = None
      BY <1>1, <1>3
    <3>3. QED
      BY <1>1, <2>2, <2>5, <3>1, <3>2
  <2>6. CASE t # s
    BY <1>1, <1>2, <1>3, <2>2, <2>6
  <2>7. QED
    BY <2>4, <2>5, <2>6
<1>14. QED
  BY <1>8, <1>9, <1>10, <1>11, <1>12, <1>13 DEF BothEnds

LEMMA EndsRest == ASSUME Rests, TypeOK PROVE (OneCallee => OneCallee') /\ (BothEnds => BothEnds')
<1>1. /\ UNCHANGED <<jingle, held, wire>>
      /\ \A x, y : \A t, state : InState(x, t, y, state)' <=> InState(x, t, y, state)
      /\ \A x, y : \A b, t : On(x, y, b, t)' <=> On(x, y, b, t)
      /\ \A x, y : \A i, m : Behind(x, y, i, m)' <=> Behind(x, y, i, m)
  BY DEF Rests, InState, SessionWith, On, Behind
<1>2. OneCallee => OneCallee'
  BY <1>1 DEF OneCallee, Reached
<1>3. (CallerWaits => CallerWaits') /\ (CallerTalks => CallerTalks')
  BY <1>1 DEF CallerWaits, CallerTalks
<1>4. (CalleeRings => CalleeRings') /\ (CalleeTalks => CalleeTalks')
  BY <1>1 DEF CalleeRings, CalleeTalks
<1>5. (InitiateOpen => InitiateOpen') /\ (AcceptOpen => AcceptOpen')
  BY <1>1 DEF InitiateOpen, AcceptOpen
<1>6. QED
  BY <1>2, <1>3, <1>4, <1>5 DEF BothEnds

LEMMA SidesKept ==
  ASSUME TypeOK, SidInv, OnceInv, Calm, OnlyCalm, OneCallee, BothEnds,
         breaks' = 0, duplicates' = 0, Next
  PROVE  OneCallee' /\ BothEnds'
<1>1. duplicates = 0 /\ \A p, q \in Party : ~Duplicate(p, q)
  BY NoneDoubled
<1>2. breaks = 0 /\ \E p \in Party : CalmStep(p) \/ \E q \in Party : Duplicate(p, q)
  BY CalmBreaks
<1>3. PICK p \in Party : CalmStep(p)
  BY <1>1, <1>2
<1>4. healthy[p] /\ InitiatesOnce
  BY <1>1, <1>2, CalmOf DEF OnceInv
<1>5. CalleeReached /\ TerminateBehind
  BY DEF OnlyCalm
<1>6. CASE Rests
  BY <1>6, EndsRest
<1>7. ASSUME NEW s \in Sid, NEW q \in Party, Effect(p, s, q) PROVE OneCallee' /\ BothEnds'
  <2>1. OneCallee'
    BY <1>7, OneCalleeKept
  <2>2. CASE Starts(p, s, q)
    BY <2>1, <2>2, StartsEnds
  <2>3. CASE Answers(p, s, q)
    BY <2>1, <2>3, AnswersEnds
  <2>4. CASE HangsUp(p, s, q)
    BY <1>5, <2>1, <2>4, HangsUpEnds
  <2>5. CASE Rings(p, s, q)
    BY <2>1, <2>5, RingsEnds
  <2>6. CASE Connects(p, s, q)
    BY <1>4, <1>5, <2>1, <2>6, ConnectsEnds
  <2>7. CASE IsOver(p, s, q)
    BY <1>4, <1>5, <2>1, <2>7, IsOverEnds
  <2>8. QED
    BY <1>7, <2>2, <2>3, <2>4, <2>5, <2>6, <2>7 DEF Effect
<1>8. QED
  BY <1>3, <1>4, <1>6, <1>7, CalmDoes

LEMMA SidesInvIs == SidesInv <=> (Undisturbed => OneCallee /\ BothEnds)
BY DEF SidesInv, BothEnds

LEMMA NextSides ==
  TypeOK /\ SidInv /\ OnceInv /\ Calm /\ OnlyInv /\ SidesInv /\ [Next]_vars => SidesInv'
<1> SUFFICES ASSUME TypeOK, SidInv, OnceInv, Calm, OnlyInv, SidesInv, [Next]_vars,
                    breaks' = 0, duplicates' = 0
             PROVE  OneCallee' /\ BothEnds'
  BY DEF SidesInv, BothEnds, Undisturbed
<1>1. CASE UNCHANGED vars
  <2>1. Rests /\ breaks = 0 /\ duplicates = 0
    BY <1>1, SameTold DEF vars, Rests
  <2>2. QED
    BY <2>1, EndsRest, SidesInvIs DEF Undisturbed
<1>2. CASE Next
  <2>1. breaks = 0 /\ duplicates = 0
    BY <1>2, NoneDoubled, CalmBreaks
  <2>2. QED
    BY <1>2, <2>1, SidesKept, SidesInvIs, OnlyInvIs DEF Undisturbed
<1>3. QED
  BY <1>1, <1>2

LEMMA InitSides == Init => SidesInv
<1> SUFFICES ASSUME Init PROVE SidesInv
  OBVIOUS
<1>1. \A p \in Party : /\ held[p] = {}
                       /\ \A s \in Sid : jingle[p][s] = None
                       /\ \A q \in Party : wire[p][q] = <<>>
  BY DEF Init
<1>2. /\ \A x, y \in Party : \A b, t : ~On(x, y, b, t)
      /\ \A x \in Party, t \in Sid : \A y, state : ~InState(x, t, y, state)
  BY <1>1 DEF On, InState, SessionWith
<1>3. OneCallee
  BY <1>1, <1>2, SidParts DEF OneCallee, Reached
<1>4. CallerWaits /\ CallerTalks /\ CalleeRings /\ CalleeTalks
  BY <1>2 DEF CallerWaits, CallerTalks, CalleeRings, CalleeTalks
<1>5. InitiateOpen
  BY <1>1 DEF InitiateOpen
<1>6. AcceptOpen
  BY <1>2 DEF AcceptOpen
<1>7. QED
  BY <1>3, <1>4, <1>5, <1>6 DEF SidesInv

\* While nothing breaks and nothing is delivered twice, each state of a session
\* tells the state of the other end, or which request about it is on its way.
THEOREM SidesCorrect == Spec => []SidesInv
<1>1. TypeOK /\ SidInv /\ OnceInv /\ OnlyInv /\ Calm /\ SidesInv /\ [Next]_vars => SidesInv'
  BY NextSides
<1>2. QED
  BY <1>1, InitSides, TypeCorrect, SidsCorrect, OnceCorrect, OnlyCorrect, PTL DEF Spec

\* Once no request about a call is on its way, both ends have it in states that
\* match, as long as no connection breaks and no request is delivered twice: the
\* requests and answers of Jingle keep two workers together that share nothing.
THEOREM UndisturbedSidesAgree == Spec => [](Undisturbed => SidesAgree)
<1>1. ASSUME TypeOK, SidInv, SidesInv, Undisturbed PROVE SidesAgree
  <2> SUFFICES ASSUME NEW p \in Party, NEW q \in Party, NEW n \in 1 .. initiated[p], p # q,
                      NEW s \in Sid, s = <<p, n, "worker">>,
                      SessionWith(p, s, q) \/ SessionWith(q, s, p),
                      ~InTransit(p, q, s), ~InTransit(q, p, s)
               PROVE  /\ jingle[p][s] # None /\ jingle[q][s] # None
                      /\ \/ /\ jingle[p][s].state = "PendingOutgoing"
                            /\ jingle[q][s].state = "PendingIncoming"
                         \/ jingle[p][s].state = "Active" /\ jingle[q][s].state = "Active"
    <3>1. ASSUME NEW p \in Party, NEW n \in 1 .. initiated[p] PROVE <<p, n, "worker">> \in Sid
      <4>1. /\ Cardinality(Clicked(p)) \in Nat /\ initiated[p] \in Nat /\ started[p] \in 0 .. MaxCalls
            /\ Cardinality(Clicked(p)) + initiated[p] <= started[p]
        BY <1>1, FS_CardinalityType DEF TypeOK, ClicksCounted
      <4>2. n \in 1 .. MaxCalls
        BY <4>1, CallBounds
      <4>3. QED
        BY <4>2 DEF Sid, Maker
    <3>2. QED
      BY <3>1 DEF SidesAgree
  <2>1. s[1] = p
    OBVIOUS
  <2>2. \A b : ~On(p, q, b, s) /\ ~On(q, p, b, s)
    <3>1. \A b : Stanza(b, s).sid = s
      BY DEF Stanza
    <3>2. QED
      BY <3>1 DEF On, InTransit
  <2>3. CASE SessionWith(p, s, q)
    <3>1. jingle[p][s] \in Session /\ jingle[p][s].state # "PendingIncoming"
      BY <1>1, <2>1, <2>3 DEF TypeOK, SidInv, SessionSides, SessionWith
    <3>2. CASE InState(p, s, q, "PendingOutgoing")
      <4>1. InState(q, s, p, "PendingIncoming")
        BY <1>1, <2>1, <2>2, <3>2, SidesInvIs DEF BothEnds, CallerWaits
      <4>2. QED
        BY <3>2, <4>1 DEF InState, SessionWith
    <3>3. CASE InState(p, s, q, "Active")
      <4>1. InState(q, s, p, "Active")
        BY <1>1, <2>1, <2>2, <3>3, SidesInvIs DEF BothEnds, CallerTalks
      <4>2. QED
        BY <3>3, <4>1 DEF InState, SessionWith
    <3>4. QED
      BY <2>3, <3>1, <3>2, <3>3 DEF InState, Session
  <2>4. CASE SessionWith(q, s, p)
    <3>1. jingle[q][s] \in Session /\ jingle[q][s].state # "PendingOutgoing"
      BY <1>1, <2>1, <2>4 DEF TypeOK, SidInv, SessionSides, SessionWith
    <3>2. CASE InState(q, s, p, "PendingIncoming")
      <4>1. InState(p, s, q, "PendingOutgoing")
        BY <1>1, <2>1, <2>2, <3>2, SidesInvIs DEF BothEnds, CalleeRings
      <4>2. QED
        BY <3>2, <4>1 DEF InState, SessionWith
    <3>3. CASE InState(q, s, p, "Active")
      <4>1. InState(p, s, q, "Active")
        BY <1>1, <2>1, <2>2, <3>3, SidesInvIs DEF BothEnds, CalleeTalks
      <4>2. QED
        BY <3>3, <4>1 DEF InState, SessionWith
    <3>4. QED
      BY <2>4, <3>1, <3>2, <3>3 DEF InState, Session
  <2>5. QED
    BY <2>3, <2>4
<1>2. TypeOK /\ SidInv /\ SidesInv => (Undisturbed => SidesAgree)
  BY <1>1
<1>3. QED
  BY <1>2, TypeCorrect, SidsCorrect, SidesCorrect, PTL
=============================================================================
