----------------------------- MODULE RatchetPair -----------------------------
(***************************************************************************)
(* Two devices and one OMEMO session between them: Alice, who created the  *)
(* session from Bob's bundle, and Bob, who gets his half from Alice's      *)
(* first message.  Each side sends and receives the way OmemoManager does  *)
(* (encrypt_message, decrypt_message); the sessions are those of           *)
(* SignalSession.  Between the two is the XMPP stream and the message      *)
(* archive, which decide in what order messages arrive, whether they       *)
(* arrive, and whether they come again.                                    *)
(***************************************************************************)
EXTENDS SignalSession, FiniteSets

CONSTANTS Alice, Bob,
          AliceSends, BobSends, \* how many messages each side sends
          Networks              \* what the network may be like

Orders == {"fifo",  \* no reordering: one uninterrupted stream
           "chain", \* among the messages of one sending chain
           "any"}   \* any: live messages and archive pages, newest page first

\* Which reorderings a network makes, whether it loses messages, how many the
\* archive returns again, and whether these include PreKeySignalMessages.
Network == [order : Orders, lossy : BOOLEAN, replays : Nat, pre_keys : BOOLEAN]

ASSUME DeviceAssumption  == Device = {Alice, Bob} /\ Alice # Bob
ASSUME BoundsAssumption  == AliceSends \in Nat /\ BobSends \in Nat
ASSUME NetworkAssumption == Networks \subseteq Network

Peer(p) == IF p = Alice THEN Bob ELSE Alice
MaxSend(p) == IF p = Alice THEN AliceSends ELSE BobSends

VARIABLES
  network,   \* what the network is like: it stays so
  session,   \* the session each device holds for the other, or None
  generated, \* the number of the next key pair each device generates
  net,       \* the messages on their way to each device, oldest first
  sent,      \* what each device has sent
  received,  \* the messages each device has been given, readable or not
  reads,     \* how often each device has shown each text of its peer
  failures,  \* the deliveries that showed nothing: text and error
  replays    \* how many messages were delivered again

vars == <<network, session, generated, net, sent, received, reads, failures, replays>>

-----------------------------------------------------------------------------
\* Key pairs.  Numbers up to 2 are those of the account or of new_alice.

IdentityKey(p) == <<p, 0>>
SignedPreKey   == <<Bob, 1>>
OneTimePreKey  == <<Bob, 2>>
AliceBaseKey   == <<Alice, 1>>
AliceFirstKey  == <<Alice, 2>>
FirstGenerated == 3

BobBundle == [identity_key   |-> IdentityKey(Bob),
              signed_pre_key |-> SignedPreKey,
              pre_key        |-> OneTimePreKey]

Init ==
  /\ network \in Networks
  /\ session = [p \in Device |->
       IF p = Alice
       THEN NewAlice(IdentityKey(Alice), BobBundle, AliceBaseKey, AliceFirstKey)
       ELSE None]
  /\ generated = [p \in Device |-> FirstGenerated]
  /\ net = [p \in Device |-> <<>>]
  /\ sent = [p \in Device |-> {}]
  /\ received = [p \in Device |-> {}]
  /\ reads = [p \in Device |-> [n \in 1 .. MaxSend(Peer(p)) |-> 0]]
  /\ failures = [p \in Device |-> {}]
  /\ replays = 0

\* encrypt_message for the one device of the peer; the texts are numbered.
Send(p) ==
  LET s     == session[p]
      fresh == <<p, generated[p]>>
      m     == EncryptedMessage(s, fresh, Cardinality(sent[p]) + 1)
  IN  /\ s # None
      /\ Cardinality(sent[p]) < MaxSend(p)
      /\ session' = [session EXCEPT ![p] = AfterEncrypt(s, fresh)]
      /\ generated' = [generated EXCEPT ![p] = IF NeedsRatchet(s) THEN @ + 1 ELSE @]
      /\ net' = [net EXCEPT ![Peer(p)] = Append(@, m)]
      /\ sent' = [sent EXCEPT ![p] = @ \cup {m}]
      /\ UNCHANGED <<received, reads, failures, replays>>

\* decrypt_message: a PreKeySignalMessage always makes a new session, which
\* replaces the old one if its message decrypts; any other message goes to the
\* session held for its sender, which it may change even if it is not readable.
DecryptMessage(p, m) ==
  CASE m.pre_key # None ->
         LET bob == NewBob(IdentityKey(p), m.pre_key.signed_pre_key, m.pre_key.pre_key, m)
         IN  IF bob.outcome = "ok" THEN bob ELSE [bob EXCEPT !.session = session[p]]
    [] m.pre_key = None /\ session[p] = None ->
         [session |-> None, outcome |-> "NoSession"]
    [] OTHER -> Decrypt(session[p], m)

Receive(p, m) ==
  LET d == DecryptMessage(p, m)
  IN  /\ session' = [session EXCEPT ![p] = d.session]
      /\ received' = [received EXCEPT ![p] = @ \cup {m}]
      /\ IF d.outcome = "ok"
         THEN /\ reads' = [reads EXCEPT ![p][m.text] = @ + 1]
              /\ UNCHANGED failures
         ELSE /\ failures' = [failures EXCEPT ![p] = @ \cup {[text |-> m.text, error |-> d.outcome]}]
              /\ UNCHANGED reads
      /\ UNCHANGED <<generated, sent>>

\* What may be delivered next.
Deliverable(p) ==
  {i \in DOMAIN net[p] :
     CASE network.order = "fifo"  -> i = 1
       [] network.order = "chain" -> \A j \in 1 .. i : net[p][j].ratchet_key = net[p][i].ratchet_key
       [] OTHER                   -> TRUE}

Deliver(p) ==
  \E i \in Deliverable(p) :
    /\ Receive(p, net[p][i])
    /\ net' = [net EXCEPT ![p] = RemoveAt(@, i)]
    /\ UNCHANGED replays

\* A stanza that never arrives: the stream broke under it.
Lose(p) ==
  \E i \in DOMAIN net[p] :
    /\ network.lossy
    /\ net' = [net EXCEPT ![p] = RemoveAt(@, i)]
    /\ UNCHANGED <<session, generated, sent, received, reads, failures, replays>>

\* After a reconnect the archive returns its last page, with messages the
\* device has already handled.
Replay(p) ==
  \E m \in received[p] :
    /\ replays < network.replays
    /\ network.pre_keys \/ m.pre_key = None
    /\ Receive(p, m)
    /\ replays' = replays + 1
    /\ UNCHANGED net

Next ==
  /\ \E p \in Device : Send(p) \/ Deliver(p) \/ Lose(p) \/ Replay(p)
  /\ UNCHANGED network

Spec == Init /\ [][Next]_vars

\* The worker reads its stream whenever there is something to read (the biased
\* select of run_xmpp_worker); nothing obliges a user to send.
Fairness == \A p \in Device : WF_vars(Deliver(p) /\ UNCHANGED network)

FairSpec == Spec /\ Fairness

-----------------------------------------------------------------------------
\* Properties

Error == {"NoSession", "DuplicateMessage", "MessageGapTooLarge", "BadMac"}

\* The shape of the state: sessions, messages and the histories of both sides.
TypeOK ==
  /\ DOMAIN session = Device /\ \A p \in Device : session[p] # None => IsSession(session[p])
  /\ generated \in [Device -> Nat]
  /\ net \in [Device -> Seq(Message)]
  /\ sent \in [Device -> SUBSET Message] /\ \A p \in Device : IsFiniteSet(sent[p])
  /\ received \in [Device -> SUBSET Message]
  /\ DOMAIN reads = Device /\ \A p \in Device : reads[p] \in [1 .. MaxSend(Peer(p)) -> Nat]
  /\ failures \in [Device -> SUBSET [text : Text, error : Error]]
  /\ replays \in Nat

\* A message key encrypts one message.  encrypt takes the key from the chain,
\* ratchet_if_needed restarts the counter at 0: whatever arrives in whatever
\* order in between, the two never produce the same chain and counter twice.
NoKeyReuse ==
  \A p, q \in Device : \A m \in sent[p], n \in sent[q] :
    m.keys = n.keys => m = n

\* Why NoKeyReuse holds.  Every chain is made with a key pair of its sender that
\* no chain was made with before, the initial pair of a responder is never sent
\* with, and what arrives changes only what the next ratchet step starts from.
Known(k, p) == k[1] = p /\ k[2] < generated[p]

EndsIn(root, dh) == root # <<>> /\ root[Len(root)] = dh

IsBobPreKey(p, pre_key) ==
  p = Alice /\ pre_key.base_key = AliceBaseKey /\ pre_key.signed_pre_key = SignedPreKey

SentInv(p, m) ==
  /\ Known(m.ratchet_key, p) /\ m.ratchet_key[2] >= 2
  /\ m.keys[2] = m.counter
  /\ \E x \in {Peer(p)} \X (0 .. generated[Peer(p)] - 1) :
       EndsIn(m.keys[1], DiffieHellman(m.ratchet_key, x))
  /\ m.pre_key # None => IsBobPreKey(p, m.pre_key)

SessionInv(p, s) ==
  /\ Known(s.our_ratchet_key, p)
  /\ Known(s.their_ratchet_key, Peer(p)) /\ Known(s.sending_chain_remote_key, Peer(p))
  /\ s.our_ratchet_key[2] >= 2 =>
       EndsIn(s.sending_chain.key, DiffieHellman(s.our_ratchet_key, s.sending_chain_remote_key))
  /\ s.our_ratchet_key[2] < 2 =>
       s.sending_chain_remote_key[2] < 2 /\ s.their_ratchet_key[2] >= 2
  /\ s.pending_pre_key # None => IsBobPreKey(p, s.pending_pre_key)
  /\ \A m \in sent[p] : m.ratchet_key = s.our_ratchet_key =>
       m.keys[1] = s.sending_chain.key /\ m.counter < s.sending_chain.index

\* The chains a device has sent with, and the one it would send with.
ChainKeys(p) ==
  {m.keys[1] : m \in sent[p]} \cup
  {s.sending_chain.key : s \in {t \in {session[p]} \ {None} : t.our_ratchet_key[2] >= 2}}

KeyInv ==
  /\ \A p \in Device :
       /\ generated[p] >= FirstGenerated
       /\ net[p] \in Seq(sent[Peer(p)])
       /\ received[p] \subseteq sent[Peer(p)]
       /\ \A m \in sent[p] : SentInv(p, m)
       /\ \A m, n \in sent[p] :
            m.ratchet_key = n.ratchet_key /\ m.counter = n.counter => m = n
       /\ session[p] # None => SessionInv(p, session[p])
  /\ ChainKeys(Alice) \cap ChainKeys(Bob) = {}

\* A message is shown once, however often the stream and the archive deliver
\* it: its key leaves the session when it is used, and no later ratchet step
\* brings it back.
ReadOnce ==
  \A p \in Device : \A n \in DOMAIN reads[p] : reads[p][n] <= 1

\* The keys a session can still derive or has stored for reading.
HoldsKey(s, keys) ==
  \/ \E i \in DOMAIN s.skipped_message_keys : s.skipped_message_keys[i].keys = keys
  \/ \E k \in DOMAIN s.receiving_chains :
       s.receiving_chains[k].key = keys[1] /\ s.receiving_chains[k].index <= keys[2]

\* Why a message is read once: the session that showed it can no longer produce
\* its key, neither from a chain nor from the skipped keys.
ReadKeysErased ==
  \A p \in Device : session[p] # None =>
    \A m \in received[p] :
      reads[p][m.text] > 0 => ~HoldsKey(session[p], m.keys)

InOrder == network.order # "any" /\ network.replays = 0

\* When the messages of a sending chain arrive before those of the next one,
\* lost ones aside, a session reads everything it is given for the first time:
\* the two sides' ratchets stay in step although both send at once.  Only a gap
\* longer than MAX_FORWARD_JUMPS stops it, and it says so.
InOrderReadable ==
  InOrder => \A p \in Device : \A f \in failures[p] :
    f.error \in {"NoSession", "MessageGapTooLarge"}

\* The reason for InOrderReadable: the two root keys never diverge.  One side
\* is at most one ratchet step ahead, and the other will take that very step.
RootsInStep ==
  InOrder /\ session[Bob] # None =>
    LET a == session[Alice].root_key
        b == session[Bob].root_key
    IN  \/ IsPrefix(a, b) /\ Len(b) <= Len(a) + 1
        \/ IsPrefix(b, a) /\ Len(a) <= Len(b) + 1

\* One delivery makes a session store at most what two jumps allow: one to the
\* end of the old chain, one in the new chain.
SkippedKeysBounded ==
  [][\A p \in Device :
       session[p] # None /\ session'[p] # None =>
         Len(session'[p].skipped_message_keys)
           <= Len(session[p].skipped_message_keys) + 2 * MAX_FORWARD_JUMPS]_vars

\* On a stream that loses nothing every message is shown in the end: when the
\* users stop sending, both sides have shown all that was sent.
AllRead ==
  \A p \in Device : \A m \in sent[Peer(p)] : reads[p][m.text] = 1

EventuallyRead ==
  <>[](network.order = "fifo" /\ ~network.lossy => AllRead)

-----------------------------------------------------------------------------
\* What a comment in session.rs says and the code does not do.

\* "A set of derived message keys that have been skipped while waiting for an
\* out-of-order message" (line 34): a message that was never shown and comes
\* late, no further than the gap allows, can be read.
LateMessageReadable ==
  \A p \in Device : \A f \in failures[p] : f.error # "BadMac"
=============================================================================
