------------------------------- MODULE Calls -------------------------------
(***************************************************************************)
(* Voice calls: the Jingle sessions the XMPP worker keeps (xmpp/client.rs) *)
(* and the call the user interface shows (ui/app.rs), for every party of   *)
(* the calls.  A click makes a task that puts one command into the channel *)
(* of the worker, and the tasks run concurrently, so the worker may take   *)
(* any pending command next.  The worker's events reach the interface in   *)
(* order.  Jingle requests travel over XMPP, in order between two parties; *)
(* what a broken connection had in transit may be lost.                    *)
(*                                                                         *)
(* Ringing notices and candidates (session-info, transport-info) change no *)
(* session and no call and are left out, and so are error replies: no      *)
(* request of a call is in pending_iqs, so an answer to one is dropped.    *)
(***************************************************************************)
EXTENDS Naturals, Sequences, FiniteSets

CONSTANTS Party,         \* the accounts, each with one running program
          Caller,        \* those whose user starts calls
          None,          \* Rust's None
          MaxCalls,      \* how many calls each party starts
          MaxBreaks,     \* how many connections break or are closed
          MaxDuplicates  \* how many requests are delivered twice

ASSUME CallerAssumption == Caller \subseteq Party
ASSUME CallBounds == MaxCalls \in Nat /\ MaxBreaks \in Nat /\ MaxDuplicates \in Nat

VARIABLES
  ui,         \* AppState: audio engine, active_call_with and _sid, pending_incoming_call
  cmds,       \* the commands whose tasks have not been served by the worker
  events,     \* what the worker told the interface, oldest first
  jingle,     \* jingle_sessions: peer and state (PendingOutgoing, PendingIncoming,
              \* Active), None where the map has no entry
  client,     \* whether the worker has a client, and whether it is online
  healthy,    \* stream_healthy
  wire,       \* wire[p][q]: the requests from p on their way to q
  started,    \* how many call ids the interface has made
  initiated,  \* how many call ids the worker has made
  breaks, duplicates,
  held        \* the sessions each worker has ever held

worker  == <<jingle, client, healthy, initiated, held>>
network == <<wire, duplicates>>
vars    == <<ui, cmds, events, jingle, client, healthy, wire, started,
             initiated, breaks, duplicates, held>>

\* StartCallClicked makes a session id and so does InitiateCall: they differ.
Maker == {"ui", "worker"}
Sid   == Party \X (1 .. MaxCalls) \X Maker

\* None is no session and no call.
ASSUME NoneAssumption ==
  /\ None \notin [peer : Party, state : {"PendingOutgoing", "PendingIncoming", "Active"}]
  /\ None \notin [with : Party, sid : Sid]

Idle == [engine |-> "Idle", call |-> None, incoming |-> None]

Init ==
  /\ ui = [p \in Party |-> Idle]
  /\ cmds = [p \in Party |-> {}]
  /\ events = [p \in Party |-> <<>>]
  /\ jingle = [p \in Party |-> [s \in Sid |-> None]]
  /\ client = [p \in Party |-> "online"]
  /\ healthy = [p \in Party |-> TRUE]
  /\ wire = [p \in Party |-> [q \in Party |-> <<>>]]
  /\ started = [p \in Party |-> 0]
  /\ initiated = [p \in Party |-> 0]
  /\ breaks = 0
  /\ duplicates = 0
  /\ held = [p \in Party |-> {}]

-----------------------------------------------------------------------------
\* The user interface: clicks

Command(type, with, sid) == [type |-> type, with |-> with, sid |-> sid]

Perform(p, c) == cmds' = [cmds EXCEPT ![p] = @ \cup {c}]

\* The id is that of the interface; it goes with the command only to tell two
\* tasks apart.
StartCall(p, q) ==
  LET sid == <<p, started[p] + 1, "ui">>
  IN  /\ p \in Caller /\ p # q
      /\ started[p] < MaxCalls
      /\ ui[p].engine = "Idle"
      /\ ui' = [ui EXCEPT ![p].engine = "Active", ![p].call = [with |-> q, sid |-> sid]]
      /\ started' = [started EXCEPT ![p] = @ + 1]
      /\ Perform(p, Command("InitiateCall", q, sid))
      /\ UNCHANGED <<events, worker, network, breaks>>

EndCallClicked(p) ==
  LET call == ui[p].call
  IN  /\ call # None
      /\ ui' = [ui EXCEPT ![p].engine = "Idle", ![p].call = None]
      /\ Perform(p, Command("EndCall", call.with, call.sid))
      /\ UNCHANGED <<events, worker, network, started, breaks>>

\* start_call does nothing when the engine is in a call already.
AcceptClicked(p) ==
  LET call == ui[p].incoming
  IN  /\ call # None
      /\ ui' = [ui EXCEPT ![p] = [engine |-> "Active", call |-> call, incoming |-> None]]
      /\ Perform(p, Command("AcceptCall", call.with, call.sid))
      /\ UNCHANGED <<events, worker, network, started, breaks>>

DeclineClicked(p) ==
  LET call == ui[p].incoming
  IN  /\ call # None
      /\ ui' = [ui EXCEPT ![p].incoming = None]
      /\ Perform(p, Command("RejectCall", call.with, call.sid))
      /\ UNCHANGED <<events, worker, network, started, breaks>>

Login(p) ==
  /\ client[p] = "none"
  /\ Perform(p, Command("Connect", None, None))
  /\ UNCHANGED <<ui, events, worker, network, started, breaks>>

Logout(p) ==
  /\ breaks < MaxBreaks
  /\ breaks' = breaks + 1
  /\ Perform(p, Command("Disconnect", None, None))
  /\ UNCHANGED <<ui, events, worker, network, started>>

-----------------------------------------------------------------------------
\* The user interface: the worker's events

Event(type, with, sid) == [type |-> type, with |-> with, sid |-> sid]

\* CallEnded and Disconnected: whichever call it was, none is left.
OnCallEnded(p, e) ==
  /\ e.type \in {"CallEnded", "Disconnected"}
  /\ ui' = [ui EXCEPT ![p] = Idle]
  /\ UNCHANGED cmds

OnCallAccepted(p, e) ==
  /\ e.type = "CallAccepted"
  /\ ui' = [ui EXCEPT ![p].engine = "Active", ![p].call = [with |-> e.with, sid |-> e.sid]]
  /\ UNCHANGED cmds

\* A call that comes during another is turned away, any other is shown.
OnIncomingCall(p, e) ==
  /\ e.type = "IncomingCall"
  /\ IF ui[p].engine = "Active"
     THEN Perform(p, Command("RejectCall", e.with, e.sid)) /\ UNCHANGED ui
     ELSE /\ ui' = [ui EXCEPT ![p].incoming = [with |-> e.with, sid |-> e.sid]]
          /\ UNCHANGED cmds

HandleEvent(p) ==
  /\ events[p] # <<>>
  /\ LET e == Head(events[p])
     IN  OnCallEnded(p, e) \/ OnCallAccepted(p, e) \/ OnIncomingCall(p, e)
  /\ events' = [events EXCEPT ![p] = Tail(@)]
  /\ UNCHANGED <<worker, network, started, breaks>>

-----------------------------------------------------------------------------
\* The worker: helpers

Stanza(action, sid) == [action |-> action, sid |-> sid]

\* safe_send_stanza: nothing is sent on a stream that failed.
Send(p, q, m) ==
  wire' = IF healthy[p] THEN [wire EXCEPT ![p][q] = Append(@, m)] ELSE wire

Tell(p, e) == events' = [events EXCEPT ![p] = Append(@, e)]

Open(p, sid, q, state) ==
  /\ jingle' = [jingle EXCEPT ![p][sid] = [peer |-> q, state |-> state]]
  /\ held' = [held EXCEPT ![p] = @ \cup {sid}]

Activate(p, sid) == jingle' = [jingle EXCEPT ![p][sid].state = "Active"]

Remove(p, sid) == jingle' = [jingle EXCEPT ![p][sid] = None]

SessionWith(p, sid, q) == jingle[p][sid] # None /\ jingle[p][sid].peer = q

\* The worker takes a command of this type while it has a client.
Take(p, c, type) ==
  /\ c \in cmds[p]
  /\ c.type = type
  /\ client[p] # "none"
  /\ cmds' = [cmds EXCEPT ![p] = @ \ {c}]

-----------------------------------------------------------------------------
\* The worker: commands

InitiateCall(p, c) ==
  LET sid == <<p, initiated[p] + 1, "worker">>
  IN  /\ Take(p, c, "InitiateCall")
      /\ initiated' = [initiated EXCEPT ![p] = @ + 1]
      /\ Open(p, sid, c.with, "PendingOutgoing")
      /\ Send(p, c.with, Stanza("session-initiate", sid))
      /\ UNCHANGED <<ui, events, client, healthy, started, breaks, duplicates>>

\* Mutant: the state of the session is not looked at, nor whether it is there.
AcceptAnyCall(p, c) ==
  /\ Take(p, c, "AcceptCall")
  /\ Open(p, c.sid, c.with, "Active")
  /\ Send(p, c.with, Stanza("session-accept", c.sid))
  /\ Tell(p, Event("CallAccepted", c.with, c.sid))
  /\ UNCHANGED <<ui, client, healthy, started, initiated, breaks, duplicates>>

AcceptCall(p, c) ==
  /\ Take(p, c, "AcceptCall")
  /\ SessionWith(p, c.sid, c.with) /\ jingle[p][c.sid].state = "PendingIncoming"
  /\ Activate(p, c.sid)
  /\ Send(p, c.with, Stanza("session-accept", c.sid))
  /\ Tell(p, Event("CallAccepted", c.with, c.sid))
  /\ UNCHANGED <<ui, client, healthy, started, initiated, breaks, duplicates, held>>

\* Mutant: the caller is not told.
RejectSilently(p, c) ==
  /\ Take(p, c, "RejectCall")
  /\ jingle[p][c.sid] # None => jingle[p][c.sid].peer = c.with
  /\ Remove(p, c.sid)
  /\ Tell(p, Event("CallEnded", c.with, c.sid))
  /\ UNCHANGED <<ui, client, healthy, wire, started, initiated, breaks, duplicates, held>>

\* A call that is gone is rejected too.
RejectCall(p, c) ==
  /\ Take(p, c, "RejectCall")
  /\ jingle[p][c.sid] # None => jingle[p][c.sid].peer = c.with
  /\ Remove(p, c.sid)
  /\ Send(p, c.with, Stanza("session-terminate", c.sid))
  /\ Tell(p, Event("CallEnded", c.with, c.sid))
  /\ UNCHANGED <<ui, client, healthy, started, initiated, breaks, duplicates, held>>

EndCall(p, c) ==
  /\ Take(p, c, "EndCall")
  /\ SessionWith(p, c.sid, c.with)
  /\ Remove(p, c.sid)
  /\ Send(p, c.with, Stanza("session-terminate", c.sid))
  /\ Tell(p, Event("CallEnded", c.with, c.sid))
  /\ UNCHANGED <<ui, client, healthy, started, initiated, breaks, duplicates, held>>

\* Commands without effect: those for a session that is not as they expect it,
\* Connect with a client, anything but Connect without one.
Rejected(p, c) ==
  CASE c.type = "AcceptCall" ->
         ~(SessionWith(p, c.sid, c.with) /\ jingle[p][c.sid].state = "PendingIncoming")
    [] c.type = "EndCall"    -> ~SessionWith(p, c.sid, c.with)
    [] c.type = "RejectCall" -> jingle[p][c.sid] # None /\ ~SessionWith(p, c.sid, c.with)
    [] OTHER                 -> c.type = "Connect"

IgnoreCommand(p, c) ==
  /\ c \in cmds[p]
  /\ IF client[p] = "none" THEN c.type # "Connect" ELSE Rejected(p, c)
  /\ cmds' = [cmds EXCEPT ![p] = @ \ {c}]
  /\ UNCHANGED <<ui, events, worker, network, started, breaks>>

Connect(p, c) ==
  /\ c \in cmds[p]
  /\ c.type = "Connect"
  /\ client[p] = "none"
  /\ cmds' = [cmds EXCEPT ![p] = @ \ {c}]
  /\ client' = [client EXCEPT ![p] = "connecting"]
  /\ UNCHANGED <<ui, events, jingle, healthy, wire, started, initiated, breaks, duplicates, held>>

\* The sessions stay in the map.
Disconnect(p, c) ==
  /\ Take(p, c, "Disconnect")
  /\ healthy' = [healthy EXCEPT ![p] = FALSE]
  /\ client' = [client EXCEPT ![p] = "none"]
  /\ Tell(p, Event("Disconnected", None, None))
  /\ UNCHANGED <<ui, jingle, wire, started, initiated, breaks, duplicates, held>>

Serve(p, c) ==
  \/ InitiateCall(p, c) \/ AcceptCall(p, c) \/ RejectCall(p, c) \/ EndCall(p, c)
  \/ IgnoreCommand(p, c) \/ Connect(p, c) \/ Disconnect(p, c)

-----------------------------------------------------------------------------
\* The worker: requests

\* Only an id that another peer already uses is refused.
OnSessionInitiate(p, q, m) ==
  /\ m.action = "session-initiate"
  /\ IF jingle[p][m.sid] # None /\ ~SessionWith(p, m.sid, q)
     THEN UNCHANGED <<jingle, held, events>>
     ELSE /\ Open(p, m.sid, q, "PendingIncoming")
          /\ Tell(p, Event("IncomingCall", q, m.sid))

\* Mutants: the session is not looked up; the guard is that of AcceptCall; the
\* interface is not told.
OnAnySessionAccept(p, q, m) ==
  /\ m.action = "session-accept"
  /\ Open(p, m.sid, q, "Active")
  /\ Tell(p, Event("CallAccepted", q, m.sid))

OnSessionAcceptIncoming(p, q, m) ==
  /\ m.action = "session-accept"
  /\ IF SessionWith(p, m.sid, q) /\ jingle[p][m.sid].state = "PendingIncoming"
     THEN Activate(p, m.sid) /\ Tell(p, Event("CallAccepted", q, m.sid))
     ELSE UNCHANGED <<jingle, events>>
  /\ UNCHANGED held

OnSessionAcceptQuiet(p, q, m) ==
  /\ m.action = "session-accept"
  /\ IF SessionWith(p, m.sid, q) /\ jingle[p][m.sid].state = "PendingOutgoing"
     THEN Activate(p, m.sid)
     ELSE UNCHANGED jingle
  /\ UNCHANGED <<held, events>>

OnSessionAccept(p, q, m) ==
  /\ m.action = "session-accept"
  /\ IF SessionWith(p, m.sid, q) /\ jingle[p][m.sid].state = "PendingOutgoing"
     THEN Activate(p, m.sid) /\ Tell(p, Event("CallAccepted", q, m.sid))
     ELSE UNCHANGED <<jingle, events>>
  /\ UNCHANGED held

\* Mutant: the entry is marked and never removed.
OnSessionTerminateMark(p, q, m) ==
  /\ m.action = "session-terminate"
  /\ jingle' = [jingle EXCEPT ![p][m.sid] =
                  IF @ = None THEN None ELSE [@ EXCEPT !.state = "Terminating"]]
  /\ Tell(p, Event("CallEnded", q, m.sid))
  /\ UNCHANGED held

OnSessionTerminate(p, q, m) ==
  /\ m.action = "session-terminate"
  /\ Remove(p, m.sid)
  /\ Tell(p, Event("CallEnded", q, m.sid))
  /\ UNCHANGED held

HandleRequest(p, q, m) ==
  /\ OnSessionInitiate(p, q, m) \/ OnSessionAccept(p, q, m) \/ OnSessionTerminate(p, q, m)
  /\ UNCHANGED <<ui, cmds, client, healthy, started, initiated, breaks>>

Deliver(p, q) ==
  /\ client[p] = "online" /\ wire[q][p] # <<>>
  /\ HandleRequest(p, q, Head(wire[q][p]))
  /\ wire' = [wire EXCEPT ![q][p] = Tail(@)]
  /\ UNCHANGED duplicates

Duplicate(p, q) ==
  /\ client[p] = "online" /\ wire[q][p] # <<>>
  /\ duplicates < MaxDuplicates
  /\ HandleRequest(p, q, Head(wire[q][p]))
  /\ duplicates' = duplicates + 1
  /\ UNCHANGED wire

-----------------------------------------------------------------------------
\* Connections

Online(p) ==
  /\ client[p] = "connecting"
  /\ client' = [client EXCEPT ![p] = "online"]
  /\ healthy' = [healthy EXCEPT ![p] = TRUE]
  /\ UNCHANGED <<ui, cmds, events, jingle, network, started, initiated, breaks, held>>

\* send_stanza fails before the worker learns that the stream is gone.
SendFails(p) ==
  /\ healthy[p]
  /\ breaks < MaxBreaks
  /\ breaks' = breaks + 1
  /\ healthy' = [healthy EXCEPT ![p] = FALSE]
  /\ UNCHANGED <<ui, cmds, events, jingle, client, network, started, initiated, held>>

\* Mutant: the interface is not told.
StreamLostQuiet(p) ==
  LET noticed == client[p] = "online" /\ ~healthy[p]
  IN  /\ client[p] # "none"
      /\ noticed \/ breaks < MaxBreaks
      /\ breaks' = IF noticed THEN breaks ELSE breaks + 1
      /\ healthy' = [healthy EXCEPT ![p] = FALSE]
      /\ client' = [client EXCEPT ![p] = "none"]
      /\ jingle' = [jingle EXCEPT ![p] = [s \in Sid |-> None]]
      /\ UNCHANGED <<ui, cmds, events, network, started, initiated, held>>

\* XmppEventRaw::Disconnected, or the end of the stream.
StreamLost(p) ==
  LET noticed == client[p] = "online" /\ ~healthy[p]
  IN  /\ client[p] # "none"
      /\ noticed \/ breaks < MaxBreaks
      /\ breaks' = IF noticed THEN breaks ELSE breaks + 1
      /\ healthy' = [healthy EXCEPT ![p] = FALSE]
      /\ client' = [client EXCEPT ![p] = "none"]
      /\ jingle' = [jingle EXCEPT ![p] = [s \in Sid |-> None]]
      /\ Tell(p, Event("Disconnected", None, None))
      /\ UNCHANGED <<ui, cmds, network, started, initiated, held>>

\* What the server had for a party that is not online it returns to the sender,
\* where the error is dropped.
Bounce(p, q) ==
  /\ client[p] # "online" /\ wire[q][p] # <<>>
  /\ wire' = [wire EXCEPT ![q][p] = Tail(@)]
  /\ UNCHANGED <<ui, cmds, events, worker, started, breaks, duplicates>>

\* What a failed stream had not delivered to the server is lost, the last first.
LoseTail(p, q) ==
  /\ ~healthy[p] /\ wire[p][q] # <<>>
  /\ wire' = [wire EXCEPT ![p][q] = SubSeq(@, 1, Len(@) - 1)]
  /\ UNCHANGED <<ui, cmds, events, worker, started, breaks, duplicates>>

-----------------------------------------------------------------------------
Next ==
  \E p \in Party :
    \/ \E q \in Party : StartCall(p, q)
    \/ EndCallClicked(p) \/ AcceptClicked(p) \/ DeclineClicked(p)
    \/ Login(p) \/ Logout(p) \/ HandleEvent(p)
    \/ \E c \in cmds[p] : Serve(p, c)
    \/ \E q \in Party : Deliver(p, q) \/ Duplicate(p, q) \/ Bounce(p, q) \/ LoseTail(p, q)
    \/ Online(p) \/ SendFails(p) \/ StreamLost(p)

Spec == Init /\ [][Next]_vars

\* The worker serves its commands while there are any, the subscription hands
\* over the worker's events, and the worker reads its stream.  Users owe nothing.
Fairness ==
  \A p \in Party :
    /\ WF_vars(HandleEvent(p))
    /\ WF_vars(\E c \in cmds[p] : Serve(p, c))
    /\ \A q \in Party : WF_vars(Deliver(p, q))

FairSpec == Spec /\ Fairness

-----------------------------------------------------------------------------
\* Properties

Told(p, type, sid) ==
  \E i \in DOMAIN events[p] : events[p][i].type = type /\ events[p][i].sid = sid

InTransit(p, q, sid) ==
  \E i \in DOMAIN wire[p][q] : wire[p][q][i].sid = sid

\* The two ends of a call agree whenever nothing about it is in transit: both
\* are waiting, both are talking, or neither has it.  This must survive answers
\* and hang-ups that cross, busy callees, and clicks whose commands overtake
\* one another.
SidesAgree ==
  \A p, q \in Party : \A n \in 1 .. initiated[p] :
    LET s == <<p, n, "worker">>
        a == jingle[p][s]
        b == jingle[q][s]
    IN  (p # q /\ (SessionWith(p, s, q) \/ SessionWith(q, s, p))
         /\ ~InTransit(p, q, s) /\ ~InTransit(q, p, s))
        => /\ a # None /\ b # None
           /\ \/ a.state = "PendingOutgoing" /\ b.state = "PendingIncoming"
              \/ a.state = "Active" /\ b.state = "Active"

\* A session that is over does not come back, whatever commands and requests
\* about it are still under way and whatever connections fail, as long as no
\* request is delivered twice.
ClosedStaysClosed ==
  [][duplicates' = 0 => \A p \in Party : \A s \in held[p] :
       jingle[p][s] = None => jingle'[p][s] = None]_vars

\* The same of the sessions a party initiated, even when requests are delivered
\* twice: a second session-accept does not revive one.
OwnCallStaysClosed ==
  [][\A p \in Party : \A s \in held[p] :
       s[1] = p /\ jingle[p][s] = None => jingle'[p][s] = None]_vars

Incoming(p, call) ==
  SessionWith(p, call.sid, call.with) /\ jingle[p][call.sid].state = "PendingIncoming"

Answered(p, call) ==
  /\ SessionWith(p, call.sid, call.with)
  /\ \/ jingle[p][call.sid].state = "Active"
     \/ Command("AcceptCall", call.with, call.sid) \in cmds[p]

\* The call a user is asked about is one the worker can still accept, and an
\* answered call on the screen is one the worker has, accepted or about to be;
\* or the interface is about to hear that it is not, as long as no request is
\* delivered twice.
ShownIsLive ==
  duplicates = 0 => \A p \in Party :
    LET Over(call) == Told(p, "CallEnded", call.sid) \/ Told(p, "Disconnected", None)
    IN  /\ ui[p].incoming # None => Incoming(p, ui[p].incoming) \/ Over(ui[p].incoming)
        /\ ui[p].call # None /\ ui[p].call.sid[3] = "worker"
             => Answered(p, ui[p].call) \/ Over(ui[p].call)

\* A party that has been in one call only has its answered call on the screen,
\* or is about to.  With a second call this fails: CallEnded is handled without
\* a look at its sid, so turning away or declining one call hides the other.
OnlyCallIsShown ==
  \A p \in Party : \A s \in Sid :
    held[p] = {s} /\ jingle[p][s] # None /\ jingle[p][s].state = "Active" =>
      \/ ui[p].call # None /\ ui[p].call.sid = s
      \/ Told(p, "CallAccepted", s)
      \/ Command("EndCall", jingle[p][s].peer, s) \in cmds[p]

WorkerSid == Caller \X (1 .. MaxCalls) \X {"worker"}

\* What the users and their programs cannot help.
Disturbed == breaks > 0 \/ duplicates > 0

\* Hanging up a call the worker knows ends it at both ends.
HangUpReaches ==
  \A p \in Party : \A q \in Party \ {p}, s \in WorkerSid :
    (Command("EndCall", q, s) \in cmds[p] /\ SessionWith(p, s, q))
      ~> (jingle[p][s] = None /\ jingle[q][s] = None) \/ Disturbed

\* A call that is accepted becomes active at the caller, or is over.
AnswerReaches ==
  \A p \in Party : \A q \in Party \ {p}, s \in WorkerSid :
    (SessionWith(p, s, q) /\ jingle[p][s].state = "Active")
      ~> \/ jingle[q][s] # None /\ jingle[q][s].state = "Active"
         \/ jingle[p][s] = None
         \/ Disturbed

=============================================================================
