---------------------------- MODULE SignalSession ----------------------------
(***************************************************************************)
(* The double-ratchet session of omemo/src/signal_ratchet/session.rs as    *)
(* operators on session records: a module that holds sessions              *)
(* (RatchetPair) calls them the way the Rust code calls the methods of     *)
(* Session.                                                                *)
(*                                                                         *)
(* Cryptography is symbolic.  A key pair is <<owner, number>> and stands   *)
(* for its public half too.  A Diffie-Hellman output is the unordered pair *)
(* of the two key pairs, so both sides compute the same one.  A root key   *)
(* is the sequence of all Diffie-Hellman outputs that were mixed into it:  *)
(* two roots are equal exactly when both sides mixed the same outputs in   *)
(* the same order.  kdf_root returns a root and a chain key from the same  *)
(* derivation, so the chain is identified by the root it came with, and    *)
(* the key of the i-th message of a chain is <<chain, i>>.  A message      *)
(* carries the key it was made with in place of its MAC and ciphertext:    *)
(* the MAC verifies and the text decrypts iff the receiver derives that    *)
(* very key.  Identities are inputs of X3DH and so part of every key.      *)
(***************************************************************************)
EXTENDS Naturals, SequencesExt

CONSTANTS Device,              \* the devices that own key pairs
          MAX_FORWARD_JUMPS,   \* how far a counter may jump over a chain index
          None                 \* Rust's None

ASSUME MaxForwardJumpsAssumption == MAX_FORWARD_JUMPS \in Nat

-----------------------------------------------------------------------------
\* Keys

DiffieHellman(k1, k2) == {k1, k2}

\* The master secret: the four outputs both sides of X3DH concatenate.
X3dhMasterSecretAlice(identity, base, bundle) ==
  << DiffieHellman(identity, bundle.signed_pre_key),
     DiffieHellman(base, bundle.identity_key),
     DiffieHellman(base, bundle.signed_pre_key),
     DiffieHellman(base, bundle.pre_key) >>

X3dhMasterSecretBob(identity, signed_pre_key, pre_key, pkm) ==
  << DiffieHellman(signed_pre_key, pkm.identity_key),
     DiffieHellman(identity, pkm.base_key),
     DiffieHellman(signed_pre_key, pkm.base_key),
     DiffieHellman(pre_key, pkm.base_key) >>

KdfRoot(root, dh) == Append(root, dh)

MessageKeys(chain, index) == <<chain.key, index>>

NewChain(key, previous) ==
  [key |-> key, index |-> 0, previous_counter |-> previous]

-----------------------------------------------------------------------------
\* Creating sessions

\* Session::new_alice with freshly generated base and ratchet key pairs.
NewAlice(identity, bundle, base, ratchet) ==
  LET master == X3dhMasterSecretAlice(identity, base, bundle)
      their  == bundle.signed_pre_key
      root   == KdfRoot(master, DiffieHellman(ratchet, their))
  IN  [root_key                 |-> root,
       our_ratchet_key          |-> ratchet,
       their_ratchet_key        |-> their,
       sending_chain            |-> NewChain(root, 0),
       sending_chain_remote_key |-> their,
       receiving_chains         |-> [k \in {their} |-> NewChain(master, 0)],
       skipped_message_keys     |-> <<>>,
       pending_pre_key          |-> [pre_key        |-> bundle.pre_key,
                                     signed_pre_key |-> bundle.signed_pre_key,
                                     base_key       |-> base,
                                     identity_key   |-> identity]]

\* Session::new_bob up to the decryption of the inner message.
BobInitial(identity, signed_pre_key, pre_key, pkm) ==
  LET master == X3dhMasterSecretBob(identity, signed_pre_key, pre_key, pkm)
  IN  [root_key                 |-> master,
       our_ratchet_key          |-> signed_pre_key,
       their_ratchet_key        |-> pkm.base_key,
       sending_chain            |-> NewChain(master, 0),
       sending_chain_remote_key |-> pkm.base_key,
       receiving_chains         |-> [k \in {} |-> NewChain(master, 0)],
       skipped_message_keys     |-> <<>>,
       pending_pre_key          |-> None]

-----------------------------------------------------------------------------
\* Sending

NeedsRatchet(s) == s.sending_chain_remote_key # s.their_ratchet_key

\* Mutants of ratchet_if_needed, of which the checks must notice each: the last
\* counter instead of the number of messages; the old key pair in the new root;
\* sending_chain_remote_key left as it was.
RatchetToLastCounter(s, fresh) ==
  LET root == KdfRoot(s.root_key, DiffieHellman(fresh, s.their_ratchet_key))
  IN  IF NeedsRatchet(s)
      THEN [s EXCEPT !.root_key                 = root,
                     !.our_ratchet_key          = fresh,
                     !.sending_chain            = NewChain(root, s.sending_chain.index - 1),
                     !.sending_chain_remote_key = s.their_ratchet_key]
      ELSE s

RatchetWithOldKey(s, fresh) ==
  LET root == KdfRoot(s.root_key, DiffieHellman(s.our_ratchet_key, s.their_ratchet_key))
  IN  IF NeedsRatchet(s)
      THEN [s EXCEPT !.root_key                 = root,
                     !.our_ratchet_key          = fresh,
                     !.sending_chain            = NewChain(root, s.sending_chain.index),
                     !.sending_chain_remote_key = s.their_ratchet_key]
      ELSE s

RatchetEveryMessage(s, fresh) ==
  LET root == KdfRoot(s.root_key, DiffieHellman(fresh, s.their_ratchet_key))
  IN  IF NeedsRatchet(s)
      THEN [s EXCEPT !.root_key        = root,
                     !.our_ratchet_key = fresh,
                     !.sending_chain   = NewChain(root, s.sending_chain.index)]
      ELSE s

\* ratchet_if_needed, with the key pair the generator would produce.
RatchetIfNeeded(s, fresh) ==
  LET root == KdfRoot(s.root_key, DiffieHellman(fresh, s.their_ratchet_key))
  IN  IF NeedsRatchet(s)
      THEN [s EXCEPT !.root_key                 = root,
                     !.our_ratchet_key          = fresh,
                     !.sending_chain            = NewChain(root, s.sending_chain.index),
                     !.sending_chain_remote_key = s.their_ratchet_key]
      ELSE s

\* encrypt: the message, and the session afterwards.  The first message of an
\* initiated session is wrapped in a PreKeySignalMessage, the later ones are not.
EncryptedMessage(s, fresh, text) ==
  LET t == RatchetIfNeeded(s, fresh)
  IN  [ratchet_key      |-> t.our_ratchet_key,
       counter          |-> t.sending_chain.index,
       previous_counter |-> t.sending_chain.previous_counter,
       keys             |-> MessageKeys(t.sending_chain, t.sending_chain.index),
       pre_key          |-> s.pending_pre_key,
       text             |-> text]

\* Mutant: the chain is not advanced past the counter just used.
AfterEncryptSameIndex(s, fresh) ==
  [RatchetIfNeeded(s, fresh) EXCEPT !.pending_pre_key = None]

AfterEncrypt(s, fresh) ==
  [RatchetIfNeeded(s, fresh) EXCEPT !.sending_chain.index = @ + 1,
                                    !.pending_pre_key = None]

-----------------------------------------------------------------------------
\* Receiving

\* Mutant: no limit on how far a counter jumps.
FillWithoutLimit(chain, target) ==
  IF target < chain.index THEN "DuplicateMessage" ELSE "ok"

\* The error fill_message_keys returns for a chain at this index, or "ok".
FillOutcome(chain, target) ==
  CASE target < chain.index                     -> "DuplicateMessage"
    [] target > chain.index + MAX_FORWARD_JUMPS -> "MessageGapTooLarge"
    [] OTHER                                    -> "ok"

\* Mutant: the key of the target counter is stored as well as returned.
FilledKeysWithTarget(chain, target, ratchet_key) ==
  IF FillOutcome(chain, target) = "ok"
  THEN [i \in 1 .. target - chain.index + 1 |->
          [ratchet_key |-> ratchet_key,
           counter     |-> chain.index + i - 1,
           keys        |-> MessageKeys(chain, chain.index + i - 1)]]
  ELSE <<>>

\* The keys fill_message_keys stores for the counters it jumps over.
FilledKeys(chain, target, ratchet_key) ==
  IF FillOutcome(chain, target) = "ok"
  THEN [i \in 1 .. target - chain.index |->
          [ratchet_key |-> ratchet_key,
           counter     |-> chain.index + i - 1,
           keys        |-> MessageKeys(chain, chain.index + i - 1)]]
  ELSE <<>>

\* Mutant: the new chain is made, the root key is not replaced.
StepWithoutRoot(s, m) ==
  LET root == KdfRoot(s.root_key, DiffieHellman(s.our_ratchet_key, m.ratchet_key))
  IN  IF m.ratchet_key \in DOMAIN s.receiving_chains
      THEN s
      ELSE [s EXCEPT !.receiving_chains  = [k \in {m.ratchet_key} |-> NewChain(root, 0)],
                     !.their_ratchet_key = m.ratchet_key]

\* maybe_step_receiving_ratchet: an unknown ratchet key starts a new receiving
\* chain; the chain of their current key is dropped, its keys up to the
\* message's previous_counter kept, an error in doing so ignored.
StepReceivingRatchet(s, m) ==
  LET known == DOMAIN s.receiving_chains
      old   == s.their_ratchet_key
      root  == KdfRoot(s.root_key, DiffieHellman(s.our_ratchet_key, m.ratchet_key))
  IN  IF m.ratchet_key \in known
      THEN s
      ELSE [s EXCEPT
             !.root_key             = root,
             !.receiving_chains     = [k \in (known \ {old}) \cup {m.ratchet_key} |->
                                         IF k = m.ratchet_key THEN NewChain(root, 0) ELSE @[k]],
             !.skipped_message_keys =
                IF old \in known
                THEN @ \o FilledKeys(s.receiving_chains[old], m.previous_counter, old)
                ELSE @,
             !.their_ratchet_key    = m.ratchet_key]

\* Where the skipped keys of a message are stored.
SkippedAt(s, m) ==
  {i \in DOMAIN s.skipped_message_keys :
     /\ s.skipped_message_keys[i].ratchet_key = m.ratchet_key
     /\ s.skipped_message_keys[i].counter = m.counter}

\* Mutant: the skipped key is read and kept.
KeepSkipped(s, pos) == s

TakeSkipped(s, pos) == [s EXCEPT !.skipped_message_keys = RemoveAt(@, pos)]

\* fill_message_keys on the chain of the message: it moves past the counter.
Advance(s, m) ==
  LET chain == s.receiving_chains[m.ratchet_key]
      moved == [chain EXCEPT !.index = m.counter + 1]
  IN  [s EXCEPT
         !.receiving_chains     = [@ EXCEPT ![m.ratchet_key] = moved],
         !.skipped_message_keys = @ \o FilledKeys(chain, m.counter, m.ratchet_key)]

Fail(s, error) == [session |-> s, outcome |-> error]

CheckMac(s, keys, m) ==
  [session |-> s, outcome |-> IF keys = m.keys THEN "ok" ELSE "BadMac"]

\* decrypt_signal_message after the ratchet step: a counter below the chain's
\* index takes a skipped key, any other derives forward.  The key is consumed
\* before the MAC is looked at, so BadMac changes the session too.
Consume(s, m) ==
  LET chain == s.receiving_chains[m.ratchet_key]
      pos   == Min(SkippedAt(s, m))
      fill  == FillOutcome(chain, m.counter)
  IN  IF m.counter < chain.index
      THEN IF SkippedAt(s, m) = {}
           THEN Fail(s, "DuplicateMessage")
           ELSE CheckMac(TakeSkipped(s, pos), s.skipped_message_keys[pos].keys, m)
      ELSE IF fill # "ok"
           THEN Fail(s, fill)
           ELSE CheckMac(Advance(s, m), MessageKeys(chain, m.counter), m)

\* Session::decrypt: the session afterwards and "ok" or the error.
Decrypt(s, m) == Consume(StepReceivingRatchet(s, m), m)

\* Session::new_bob: as Decrypt; the caller keeps the session only on "ok".
NewBob(identity, signed_pre_key, pre_key, m) ==
  Decrypt(BobInitial(identity, signed_pre_key, pre_key, m.pre_key), m)

-----------------------------------------------------------------------------
\* The types of the above, for the invariants of the modules that hold sessions.

Key        == Device \X Nat
RootKey    == Seq(SUBSET Key)
MessageKey == RootKey \X Nat
Chain      == [key : RootKey, index : Nat, previous_counter : Nat]
PreKey     == [pre_key : Key, signed_pre_key : Key, base_key : Key, identity_key : Key]
Text       == Nat
Message    == [ratchet_key : Key, counter : Nat, previous_counter : Nat,
               keys : MessageKey, pre_key : PreKey \cup {None}, text : Text]
Skipped    == [ratchet_key : Key, counter : Nat, keys : MessageKey]

\* A record with the fields of struct Session.
IsSession(s) ==
  /\ s \in [root_key : RootKey,
            our_ratchet_key : Key,
            their_ratchet_key : Key,
            sending_chain : Chain,
            sending_chain_remote_key : Key,
            receiving_chains : {s.receiving_chains},
            skipped_message_keys : Seq(Skipped),
            pending_pre_key : PreKey \cup {None}]
  /\ DOMAIN s.receiving_chains \subseteq Key
  /\ s.receiving_chains \in [DOMAIN s.receiving_chains -> Chain]
=============================================================================
