-------------------------- MODULE RatchetPair_proofs --------------------------
(***************************************************************************)
(* RatchetPair for every number of messages and replays, every gap limit   *)
(* and every network: the state is well formed, a delivery stores a        *)
(* bounded number of skipped keys, no message key is used twice, and, if   *)
(* no PreKeySignalMessage comes again, no message is shown twice.  Where   *)
(* messages come in order, the two ratchets stay in step and everything is *)
(* readable.  These rest on lemmas about the operators of SignalSession,   *)
(* which come first.                                                       *)
(***************************************************************************)
EXTENDS RatchetPair, SequenceTheorems, FiniteSetTheorems, WellFoundedInduction, TLAPS

-----------------------------------------------------------------------------
\* Sessions: each operator keeps a session a session, a delivery stores a bounded
\* number of skipped keys, and a session that holds each key once goes on doing so.

\* A chain key extended by one Diffie-Hellman output is a root key.
LEMMA KdfRootType ==
  ASSUME NEW root \in RootKey, NEW k1 \in Key, NEW k2 \in Key
  PROVE  /\ KdfRoot(root, DiffieHellman(k1, k2)) \in RootKey
         /\ NewChain(KdfRoot(root, DiffieHellman(k1, k2)), 0) \in Chain
<1>1. DiffieHellman(k1, k2) \in SUBSET Key
  BY DEF DiffieHellman
<1>2. KdfRoot(root, DiffieHellman(k1, k2)) \in RootKey
  BY <1>1, AppendProperties DEF KdfRoot, RootKey
<1> QED
  BY <1>2 DEF NewChain, Chain

\* ratchet_if_needed returns a session.
LEMMA RatchetIfNeededType ==
  ASSUME NEW s, IsSession(s), NEW fresh \in Key
  PROVE  IsSession(RatchetIfNeeded(s, fresh))
<1> DEFINE root == KdfRoot(s.root_key, DiffieHellman(fresh, s.their_ratchet_key))
<1>1. s.root_key \in RootKey /\ s.their_ratchet_key \in Key /\ s.sending_chain.index \in Nat
  BY DEF IsSession, Chain
<1>2. root \in RootKey
  BY <1>1, KdfRootType
<1>3. NewChain(root, s.sending_chain.index) \in Chain
  BY <1>1, <1>2 DEF NewChain, Chain
<1> HIDE DEF root
<1>4. CASE NeedsRatchet(s)
  <2>1. RatchetIfNeeded(s, fresh) =
          [s EXCEPT !.root_key = root, !.our_ratchet_key = fresh,
                    !.sending_chain = NewChain(root, s.sending_chain.index),
                    !.sending_chain_remote_key = s.their_ratchet_key]
    BY <1>4 DEF RatchetIfNeeded, root
  <2> QED
    BY <1>1, <1>2, <1>3, <2>1 DEF IsSession
<1>5. CASE ~NeedsRatchet(s)
  BY <1>5 DEF RatchetIfNeeded
<1> QED
  BY <1>4, <1>5

\* encrypt returns a message and leaves a session.
LEMMA EncryptType ==
  ASSUME NEW s, IsSession(s), NEW fresh \in Key, NEW text \in Text
  PROVE  /\ EncryptedMessage(s, fresh, text) \in Message
         /\ IsSession(AfterEncrypt(s, fresh))
<1> DEFINE t == RatchetIfNeeded(s, fresh)
<1>1. IsSession(t)
  BY RatchetIfNeededType
<1> HIDE DEF t
<1>2. EncryptedMessage(s, fresh, text) =
        [ratchet_key |-> t.our_ratchet_key, counter |-> t.sending_chain.index,
         previous_counter |-> t.sending_chain.previous_counter,
         keys |-> <<t.sending_chain.key, t.sending_chain.index>>,
         pre_key |-> s.pending_pre_key, text |-> text]
  BY DEF EncryptedMessage, MessageKeys, t
<1>3. EncryptedMessage(s, fresh, text) \in Message
  BY <1>1, <1>2 DEF IsSession, Message, MessageKey, Chain
<1>4. [t.sending_chain EXCEPT !.index = @ + 1] \in Chain
  <2>1. t.sending_chain \in Chain
    BY <1>1 DEF IsSession
  <2> QED
    BY <2>1 DEF Chain
<1>5. IsSession(AfterEncrypt(s, fresh))
  <2> DEFINE next == [t.sending_chain EXCEPT !.index = @ + 1]
  <2>1. AfterEncrypt(s, fresh) = [t EXCEPT !.sending_chain = next, !.pending_pre_key = None]
    BY DEF AfterEncrypt, t
  <2> HIDE DEF next
  <2> QED
    BY <1>1, <1>4, <2>1 DEF IsSession, next
<1> QED
  BY <1>3, <1>5

\* A record with just the fields of a session.
HasFields(s) ==
  s = [root_key                 |-> s.root_key,
       our_ratchet_key          |-> s.our_ratchet_key,
       their_ratchet_key        |-> s.their_ratchet_key,
       sending_chain            |-> s.sending_chain,
       sending_chain_remote_key |-> s.sending_chain_remote_key,
       receiving_chains         |-> s.receiving_chains,
       skipped_message_keys     |-> s.skipped_message_keys,
       pending_pre_key          |-> s.pending_pre_key]

\* What encrypt leaves: the sending half of the ratcheted session one further,
\* the receiving half as it was.
LEMMA EncryptFrame ==
  ASSUME NEW s, IsSession(s), NEW fresh
  PROVE  LET t == RatchetIfNeeded(s, fresh)
             e == AfterEncrypt(s, fresh)
         IN  /\ e.our_ratchet_key = t.our_ratchet_key
             /\ e.their_ratchet_key = s.their_ratchet_key
             /\ e.sending_chain_remote_key = t.sending_chain_remote_key
             /\ e.sending_chain = [t.sending_chain EXCEPT !.index = @ + 1]
             /\ e.skipped_message_keys = s.skipped_message_keys
             /\ e.pending_pre_key = None
<1> DEFINE t    == RatchetIfNeeded(s, fresh)
           next == [t.sending_chain EXCEPT !.index = @ + 1]
<1>1. HasFields(s)
  BY DEF IsSession, HasFields
<1>2. /\ t.their_ratchet_key = s.their_ratchet_key
      /\ t.skipped_message_keys = s.skipped_message_keys
      /\ HasFields(t)
  <2>1. CASE NeedsRatchet(s)
    BY <1>1, <2>1 DEF RatchetIfNeeded, HasFields
  <2>2. CASE ~NeedsRatchet(s)
    BY <1>1, <2>2 DEF RatchetIfNeeded
  <2> QED
    BY <2>1, <2>2
<1>3. AfterEncrypt(s, fresh) = [t EXCEPT !.sending_chain = next, !.pending_pre_key = None]
  BY DEF AfterEncrypt
<1> HIDE DEF t, next
<1>4. /\ AfterEncrypt(s, fresh).our_ratchet_key = t.our_ratchet_key
      /\ AfterEncrypt(s, fresh).their_ratchet_key = t.their_ratchet_key
      /\ AfterEncrypt(s, fresh).sending_chain_remote_key = t.sending_chain_remote_key
      /\ AfterEncrypt(s, fresh).sending_chain = next
      /\ AfterEncrypt(s, fresh).skipped_message_keys = t.skipped_message_keys
      /\ AfterEncrypt(s, fresh).pending_pre_key = None
  BY <1>2, <1>3 DEF HasFields
<1> QED
  BY <1>2, <1>4 DEF t, next

\* fill_message_keys stores at most MAX_FORWARD_JUMPS keys.
LEMMA FilledKeysType ==
  ASSUME NEW chain \in Chain, NEW target \in Nat, NEW key \in Key
  PROVE  /\ FilledKeys(chain, target, key) \in Seq(Skipped)
         /\ Len(FilledKeys(chain, target, key)) <= MAX_FORWARD_JUMPS
<1>1. chain.index \in Nat /\ chain.key \in RootKey /\ MAX_FORWARD_JUMPS \in Nat
  BY MaxForwardJumpsAssumption DEF Chain
<1>2. CASE FillOutcome(chain, target) = "ok"
  <2> DEFINE n == target - chain.index
             entry(i) == [ratchet_key |-> key, counter |-> chain.index + i - 1,
                          keys |-> MessageKeys(chain, chain.index + i - 1)]
  <2>1. n \in Nat /\ n <= MAX_FORWARD_JUMPS
    BY <1>1, <1>2 DEF FillOutcome
  <2>2. FilledKeys(chain, target, key) = [i \in 1 .. n |-> entry(i)]
    BY <1>2 DEF FilledKeys
  <2>3. \A i \in 1 .. n : entry(i) \in Skipped
    BY <1>1, <2>1 DEF Skipped, MessageKeys, MessageKey
  <2> HIDE DEF n, entry
  <2>4. [i \in 1 .. n |-> entry(i)] \in Seq(Skipped)
    BY <2>1, <2>3, IsASeq
  <2>5. Len([i \in 1 .. n |-> entry(i)]) = n
    BY <2>1, <2>4, LenProperties
  <2> QED
    BY <2>1, <2>2, <2>4, <2>5
<1>3. CASE FillOutcome(chain, target) # "ok"
  BY <1>1, <1>3, EmptySeq DEF FilledKeys
<1> QED
  BY <1>2, <1>3

\* maybe_step_receiving_ratchet returns a session that knows the message's
\* ratchet key and has stored at most one jump.
LEMMA StepType ==
  ASSUME NEW s, IsSession(s), NEW m \in Message
  PROVE  /\ IsSession(StepReceivingRatchet(s, m))
         /\ m.ratchet_key \in DOMAIN StepReceivingRatchet(s, m).receiving_chains
         /\ Len(StepReceivingRatchet(s, m).skipped_message_keys)
              <= Len(s.skipped_message_keys) + MAX_FORWARD_JUMPS
<1> DEFINE known == DOMAIN s.receiving_chains
           old   == s.their_ratchet_key
           root  == KdfRoot(s.root_key, DiffieHellman(s.our_ratchet_key, m.ratchet_key))
           chains == [k \in (known \ {old}) \cup {m.ratchet_key} |->
                        IF k = m.ratchet_key THEN NewChain(root, 0) ELSE s.receiving_chains[k]]
           skipped == IF old \in known
                      THEN s.skipped_message_keys
                             \o FilledKeys(s.receiving_chains[old], m.previous_counter, old)
                      ELSE s.skipped_message_keys
<1>1. /\ s.root_key \in RootKey /\ s.our_ratchet_key \in Key /\ old \in Key
      /\ known \subseteq Key /\ s.receiving_chains \in [known -> Chain]
      /\ s.skipped_message_keys \in Seq(Skipped)
      /\ m.ratchet_key \in Key /\ m.previous_counter \in Nat
      /\ MAX_FORWARD_JUMPS \in Nat
  BY MaxForwardJumpsAssumption DEF IsSession, Message
<1>2. root \in RootKey /\ NewChain(root, 0) \in Chain
  BY <1>1, KdfRootType
<1>3. CASE m.ratchet_key \in known
  <2>1. StepReceivingRatchet(s, m) = s
    BY <1>3 DEF StepReceivingRatchet
  <2>2. Len(s.skipped_message_keys) \in Nat
    BY <1>1, LenProperties
  <2> QED
    BY <1>1, <1>3, <2>1, <2>2
<1>4. CASE m.ratchet_key \notin known
  <2>1. StepReceivingRatchet(s, m) =
          [s EXCEPT !.root_key = root, !.receiving_chains = chains,
                    !.skipped_message_keys = skipped, !.their_ratchet_key = m.ratchet_key]
    BY <1>4 DEF StepReceivingRatchet
  <2>2. /\ skipped \in Seq(Skipped)
        /\ Len(skipped) <= Len(s.skipped_message_keys) + MAX_FORWARD_JUMPS
    <3>1. CASE old \in known
      <4> DEFINE new == FilledKeys(s.receiving_chains[old], m.previous_counter, old)
      <4>1. s.receiving_chains[old] \in Chain
        BY <1>1, <3>1
      <4>2. new \in Seq(Skipped) /\ Len(new) <= MAX_FORWARD_JUMPS
        BY <1>1, <4>1, FilledKeysType
      <4>3. skipped = s.skipped_message_keys \o new
        BY <3>1
      <4> HIDE DEF new, skipped
      <4>4. Len(skipped) = Len(s.skipped_message_keys) + Len(new) /\ skipped \in Seq(Skipped)
        BY <1>1, <4>2, <4>3, ConcatProperties
      <4> QED
        BY <1>1, <4>2, <4>4, LenProperties
    <3>2. CASE old \notin known
      BY <1>1, <3>2, LenProperties
    <3> QED
      BY <3>1, <3>2
  <2>3. chains \in [DOMAIN chains -> Chain] /\ DOMAIN chains \subseteq Key
    BY <1>1, <1>2
  <2>4. m.ratchet_key \in DOMAIN chains
    OBVIOUS
  <2> HIDE DEF root, chains, skipped
  <2> QED
    BY <1>1, <1>2, <2>1, <2>2, <2>3, <2>4 DEF IsSession
<1> QED
  BY <1>3, <1>4

\* A nonempty set of natural numbers has a least element, which Min chooses.
LEMMA MinType ==
  ASSUME NEW S \in SUBSET Nat, S # {}
  PROVE  Min(S) \in S /\ \A i \in S : Min(S) <= i
<1>1. \E i \in S : \A j \in S : ~(<<j, i>> \in OpToRel(<, Nat))
  BY NatLessThanWellFounded, WFMin
<1>2. OpToRel(<, Nat) = {ss \in Nat \X Nat : ss[1] < ss[2]}
  BY DEF OpToRel
<1>3. PICK i \in S : \A j \in S : ~(<<j, i>> \in OpToRel(<, Nat))
  BY <1>1
<1>4. ASSUME NEW j \in S PROVE i <= j
  <2>1. i \in Nat /\ j \in Nat /\ <<j, i>> \in Nat \X Nat
    OBVIOUS
  <2>2. ~(j < i)
    BY <1>2, <1>3, <2>1
  <2> QED
    BY <2>1, <2>2
<1> QED
  BY <1>4 DEF Min

\* Taking a skipped key out leaves a shorter sequence of skipped keys.
LEMMA RemoveAtType ==
  ASSUME NEW T, NEW q \in Seq(T), NEW i \in 1 .. Len(q)
  PROVE  RemoveAt(q, i) \in Seq(T) /\ Len(RemoveAt(q, i)) = Len(q) - 1
<1> DEFINE before == SubSeq(q, 1, i - 1)
           after  == SubSeq(q, i + 1, Len(q))
<1>1. Len(q) \in Nat
  BY LenProperties
<1>2. before \in Seq(T) /\ Len(before) = i - 1
  BY <1>1, SubSeqProperties
<1>3. after \in Seq(T) /\ Len(after) = Len(q) - i
  BY <1>1, SubSeqProperties
<1>4. RemoveAt(q, i) = before \o after
  BY DEF RemoveAt
<1> HIDE DEF before, after
<1>5. before \o after \in Seq(T) /\ Len(before \o after) = Len(before) + Len(after)
  BY <1>2, <1>3, ConcatProperties
<1> QED
  BY <1>1, <1>2, <1>3, <1>4, <1>5

\* Taking a skipped key leaves a session with no more of them.
LEMMA TakeSkippedType ==
  ASSUME NEW s, IsSession(s), NEW pos \in 1 .. Len(s.skipped_message_keys)
  PROVE  /\ IsSession(TakeSkipped(s, pos))
         /\ Len(TakeSkipped(s, pos).skipped_message_keys) <= Len(s.skipped_message_keys)
<1> DEFINE rest == RemoveAt(s.skipped_message_keys, pos)
<1>1. s.skipped_message_keys \in Seq(Skipped) /\ Len(s.skipped_message_keys) \in Nat
  BY LenProperties DEF IsSession
<1>2. rest \in Seq(Skipped) /\ Len(rest) <= Len(s.skipped_message_keys)
  BY <1>1, RemoveAtType
<1>3. TakeSkipped(s, pos) = [s EXCEPT !.skipped_message_keys = rest]
  BY DEF TakeSkipped
<1> HIDE DEF rest
<1> QED
  BY <1>2, <1>3 DEF IsSession

\* Moving along a chain leaves a session that has stored at most one jump.
LEMMA AdvanceType ==
  ASSUME NEW s, IsSession(s), NEW m \in Message,
         m.ratchet_key \in DOMAIN s.receiving_chains
  PROVE  /\ IsSession(Advance(s, m))
         /\ Len(Advance(s, m).skipped_message_keys)
              <= Len(s.skipped_message_keys) + MAX_FORWARD_JUMPS
<1> DEFINE chain  == s.receiving_chains[m.ratchet_key]
           new    == FilledKeys(chain, m.counter, m.ratchet_key)
           moved  == [chain EXCEPT !.index = m.counter + 1]
           chains == [s.receiving_chains EXCEPT ![m.ratchet_key] = moved]
           skipped == s.skipped_message_keys \o new
<1>1. /\ chain \in Chain /\ m.counter \in Nat /\ m.ratchet_key \in Key
      /\ s.skipped_message_keys \in Seq(Skipped) /\ Len(s.skipped_message_keys) \in Nat
      /\ s.receiving_chains \in [DOMAIN s.receiving_chains -> Chain]
      /\ DOMAIN s.receiving_chains \subseteq Key
      /\ MAX_FORWARD_JUMPS \in Nat
  BY MaxForwardJumpsAssumption, LenProperties DEF IsSession, Message
<1>2. new \in Seq(Skipped) /\ Len(new) <= MAX_FORWARD_JUMPS
  BY <1>1, FilledKeysType
<1>3. Advance(s, m) = [s EXCEPT !.receiving_chains = chains, !.skipped_message_keys = skipped]
  BY DEF Advance
<1> HIDE DEF chain, new
<1>4. moved \in Chain
  BY <1>1 DEF Chain
<1> HIDE DEF moved
<1>5. chains \in [DOMAIN s.receiving_chains -> Chain]
  BY <1>1, <1>4
<1>6. skipped \in Seq(Skipped) /\ Len(skipped) = Len(s.skipped_message_keys) + Len(new)
  BY <1>1, <1>2, ConcatProperties
<1> HIDE DEF chains, skipped
<1>7. IsSession(Advance(s, m)) /\ Advance(s, m).skipped_message_keys = skipped
  BY <1>1, <1>3, <1>5, <1>6 DEF IsSession
<1>8. Len(new) \in Nat
  BY <1>2, LenProperties
<1> QED
  BY <1>1, <1>2, <1>6, <1>7, <1>8

\* The rest of decrypt_signal_message returns a session, stores at most one
\* more jump, and reports one of four outcomes.
LEMMA ConsumeType ==
  ASSUME NEW s, IsSession(s), NEW m \in Message,
         m.ratchet_key \in DOMAIN s.receiving_chains
  PROVE  /\ IsSession(Consume(s, m).session)
         /\ Len(Consume(s, m).session.skipped_message_keys)
              <= Len(s.skipped_message_keys) + MAX_FORWARD_JUMPS
         /\ Consume(s, m).outcome \in {"ok", "DuplicateMessage", "MessageGapTooLarge", "BadMac"}
<1> DEFINE chain == s.receiving_chains[m.ratchet_key]
           pos   == Min(SkippedAt(s, m))
           fill  == FillOutcome(chain, m.counter)
<1>1. /\ s.skipped_message_keys \in Seq(Skipped) /\ Len(s.skipped_message_keys) \in Nat
      /\ MAX_FORWARD_JUMPS \in Nat
  BY MaxForwardJumpsAssumption, LenProperties DEF IsSession
<1>2. CASE m.counter < chain.index /\ SkippedAt(s, m) = {}
  <2>1. Consume(s, m) = Fail(s, "DuplicateMessage")
    BY <1>2 DEF Consume
  <2> QED
    BY <1>1, <2>1 DEF Fail
<1>3. CASE m.counter < chain.index /\ SkippedAt(s, m) # {}
  <2>1. Consume(s, m) = CheckMac(TakeSkipped(s, pos), s.skipped_message_keys[pos].keys, m)
    BY <1>3 DEF Consume
  <2>2. SkippedAt(s, m) \subseteq 1 .. Len(s.skipped_message_keys)
    BY <1>1, LenProperties DEF SkippedAt
  <2>3. pos \in 1 .. Len(s.skipped_message_keys)
    BY <1>1, <1>3, <2>2, MinType
  <2> HIDE DEF pos
  <2>4. /\ IsSession(TakeSkipped(s, pos))
        /\ Len(TakeSkipped(s, pos).skipped_message_keys) <= Len(s.skipped_message_keys)
    BY <2>3, TakeSkippedType
  <2>5. Len(TakeSkipped(s, pos).skipped_message_keys) \in Nat
    BY <2>4, LenProperties DEF IsSession
  <2> QED
    BY <1>1, <2>1, <2>4, <2>5 DEF CheckMac
<1>4. CASE ~(m.counter < chain.index) /\ fill # "ok"
  <2>1. Consume(s, m) = Fail(s, fill)
    BY <1>4 DEF Consume
  <2>2. fill \in {"DuplicateMessage", "MessageGapTooLarge"}
    BY <1>4 DEF FillOutcome
  <2> QED
    BY <1>1, <2>1, <2>2 DEF Fail
<1>5. CASE ~(m.counter < chain.index) /\ fill = "ok"
  <2>1. Consume(s, m) = CheckMac(Advance(s, m), MessageKeys(chain, m.counter), m)
    BY <1>5 DEF Consume
  <2>2. /\ IsSession(Advance(s, m))
        /\ Len(Advance(s, m).skipped_message_keys)
             <= Len(s.skipped_message_keys) + MAX_FORWARD_JUMPS
    BY AdvanceType
  <2> QED
    BY <2>1, <2>2 DEF CheckMac
<1> QED
  BY <1>2, <1>3, <1>4, <1>5

\* decrypt, whatever it returns, leaves a session that stored at most two jumps.
LEMMA DecryptType ==
  ASSUME NEW s, IsSession(s), NEW m \in Message
  PROVE  /\ IsSession(Decrypt(s, m).session)
         /\ Len(Decrypt(s, m).session.skipped_message_keys)
              <= Len(s.skipped_message_keys) + 2 * MAX_FORWARD_JUMPS
         /\ Decrypt(s, m).outcome \in {"ok", "DuplicateMessage", "MessageGapTooLarge", "BadMac"}
<1> DEFINE t == StepReceivingRatchet(s, m)
<1>1. /\ IsSession(t) /\ m.ratchet_key \in DOMAIN t.receiving_chains
      /\ Len(t.skipped_message_keys) <= Len(s.skipped_message_keys) + MAX_FORWARD_JUMPS
  BY StepType
<1>2. Decrypt(s, m) = Consume(t, m)
  BY DEF Decrypt
<1> HIDE DEF t
<1>3. /\ IsSession(Consume(t, m).session)
      /\ Len(Consume(t, m).session.skipped_message_keys)
           <= Len(t.skipped_message_keys) + MAX_FORWARD_JUMPS
      /\ Consume(t, m).outcome \in {"ok", "DuplicateMessage", "MessageGapTooLarge", "BadMac"}
  BY <1>1, ConsumeType
<1>4. /\ Len(s.skipped_message_keys) \in Nat /\ Len(t.skipped_message_keys) \in Nat
      /\ Len(Consume(t, m).session.skipped_message_keys) \in Nat
      /\ MAX_FORWARD_JUMPS \in Nat
  BY <1>1, <1>3, MaxForwardJumpsAssumption, LenProperties DEF IsSession
<1>5. Len(Consume(t, m).session.skipped_message_keys)
        <= Len(s.skipped_message_keys) + 2 * MAX_FORWARD_JUMPS
  BY <1>1, <1>3, <1>4
<1> QED
  BY <1>2, <1>3, <1>5

\* What decrypt leaves alone: the sending half of the session.  Their ratchet
\* key is the old one, or the message's when it was not known before.
LEMMA DecryptFrame ==
  ASSUME NEW s, IsSession(s), NEW m \in Message
  PROVE  LET d == Decrypt(s, m).session
         IN  /\ d.our_ratchet_key = s.our_ratchet_key
             /\ d.sending_chain = s.sending_chain
             /\ d.sending_chain_remote_key = s.sending_chain_remote_key
             /\ d.pending_pre_key = s.pending_pre_key
             /\ d.their_ratchet_key =
                  IF m.ratchet_key \in DOMAIN s.receiving_chains
                  THEN s.their_ratchet_key ELSE m.ratchet_key
<1> DEFINE t == StepReceivingRatchet(s, m)
           d == Consume(t, m).session
<1>1. HasFields(s)
  BY DEF IsSession, HasFields
<1>2. /\ HasFields(t)
      /\ t.our_ratchet_key = s.our_ratchet_key
      /\ t.sending_chain = s.sending_chain
      /\ t.sending_chain_remote_key = s.sending_chain_remote_key
      /\ t.pending_pre_key = s.pending_pre_key
      /\ t.their_ratchet_key =
           IF m.ratchet_key \in DOMAIN s.receiving_chains
           THEN s.their_ratchet_key ELSE m.ratchet_key
  <2>1. CASE m.ratchet_key \in DOMAIN s.receiving_chains
    BY <1>1, <2>1 DEF StepReceivingRatchet
  <2>2. CASE m.ratchet_key \notin DOMAIN s.receiving_chains
    <3>1. \E root, chains, skipped :
            t = [s EXCEPT !.root_key = root, !.receiving_chains = chains,
                          !.skipped_message_keys = skipped, !.their_ratchet_key = m.ratchet_key]
      BY <2>2 DEF StepReceivingRatchet
    <3> HIDE DEF t
    <3> QED
      BY <1>1, <2>2, <3>1 DEF HasFields
  <2> QED
    BY <2>1, <2>2
<1>3. d = t \/ (\E pos : d = TakeSkipped(t, pos)) \/ d = Advance(t, m)
  BY DEF Consume, Fail, CheckMac
<1>4. Decrypt(s, m).session = d
  BY DEF Decrypt
<1> HIDE DEF t, d
<1>5. /\ d.our_ratchet_key = t.our_ratchet_key
      /\ d.sending_chain = t.sending_chain
      /\ d.sending_chain_remote_key = t.sending_chain_remote_key
      /\ d.pending_pre_key = t.pending_pre_key
      /\ d.their_ratchet_key = t.their_ratchet_key
  <2>1. CASE d = t
    BY <2>1
  <2>2. CASE \E pos : d = TakeSkipped(t, pos)
    BY <1>2, <2>2 DEF TakeSkipped, HasFields
  <2>3. CASE d = Advance(t, m)
    <3>1. \E chains, skipped :
            d = [t EXCEPT !.receiving_chains = chains, !.skipped_message_keys = skipped]
      BY <2>3 DEF Advance
    <3> QED
      BY <1>2, <3>1 DEF HasFields
  <2> QED
    BY <1>3, <2>1, <2>2, <2>3
<1> QED
  BY <1>2, <1>4, <1>5

\* new_bob starts from a session without skipped keys.
LEMMA BobInitialType ==
  ASSUME NEW identity \in Key, NEW signed_pre_key \in Key, NEW pre_key \in Key,
         NEW pkm \in PreKey
  PROVE  /\ IsSession(BobInitial(identity, signed_pre_key, pre_key, pkm))
         /\ BobInitial(identity, signed_pre_key, pre_key, pkm).skipped_message_keys = <<>>
<1> DEFINE master == X3dhMasterSecretBob(identity, signed_pre_key, pre_key, pkm)
           s == BobInitial(identity, signed_pre_key, pre_key, pkm)
<1>1. pkm.identity_key \in Key /\ pkm.base_key \in Key
  BY DEF PreKey
<1>2. master \in RootKey
  BY <1>1 DEF X3dhMasterSecretBob, DiffieHellman, RootKey
<1> HIDE DEF master
<1>3. NewChain(master, 0) \in Chain
  BY <1>2 DEF NewChain, Chain
<1>4. s = [root_key |-> master, our_ratchet_key |-> signed_pre_key,
           their_ratchet_key |-> pkm.base_key, sending_chain |-> NewChain(master, 0),
           sending_chain_remote_key |-> pkm.base_key,
           receiving_chains |-> [k \in {} |-> NewChain(master, 0)],
           skipped_message_keys |-> <<>>, pending_pre_key |-> None]
  BY DEF BobInitial, master
<1>5. s.receiving_chains \in [DOMAIN s.receiving_chains -> Chain]
      /\ DOMAIN s.receiving_chains \subseteq Key
  BY <1>4
<1> HIDE DEF s
<1>6. IsSession(s)
  BY <1>1, <1>2, <1>3, <1>4, <1>5, EmptySeq DEF IsSession
<1>7. s.skipped_message_keys = <<>>
  BY <1>4
<1> QED
  BY <1>6, <1>7 DEF s

-----------------------------------------------------------------------------
\* Which keys a session holds.

\* Chains that go on, and those of skipped keys, are no longer than the root key,
\* so a chain that a later ratchet step starts is none of them.
NoLonger(chains, skipped, n) ==
  /\ \A k \in DOMAIN chains : Len(chains[k].key) <= n
  /\ \A i \in DOMAIN skipped : Len(skipped[i].keys[1]) <= n

ChainsDiffer(chains) == \A k, l \in DOMAIN chains : chains[k].key = chains[l].key => k = l

SkippedDiffer(skipped) == \A i, j \in DOMAIN skipped : skipped[i].keys = skipped[j].keys => i = j

\* A skipped key is behind its chain.
SkippedBehind(chains, skipped) ==
  \A i \in DOMAIN skipped, k \in DOMAIN chains :
    skipped[i].keys[1] = chains[k].key => skipped[i].keys[2] < chains[k].index

\* So a session holds each key once.
SoundKeys(chains, skipped, n) ==
  NoLonger(chains, skipped, n) /\ ChainsDiffer(chains) /\ SkippedDiffer(skipped) /\ SkippedBehind(chains, skipped)

Sound(s) == SoundKeys(s.receiving_chains, s.skipped_message_keys, Len(s.root_key))

Holds(chains, skipped, keys) ==
  \/ \E i \in DOMAIN skipped : skipped[i].keys = keys
  \/ \E k \in DOMAIN chains : chains[k].key = keys[1] /\ chains[k].index <= keys[2]

Chains == UNION {[K -> Chain] : K \in SUBSET Key}

\* Chains by key pair, and what each is.
LEMMA ChainsType ==
  ASSUME NEW chains \in Chains
  PROVE  /\ DOMAIN chains \subseteq Key /\ chains \in [DOMAIN chains -> Chain]
         /\ \A k \in DOMAIN chains : /\ chains[k] \in Chain /\ chains[k].key \in RootKey
                                     /\ Len(chains[k].key) \in Nat /\ chains[k].index \in Nat
<1>1. DOMAIN chains \subseteq Key /\ chains \in [DOMAIN chains -> Chain]
  BY DEF Chains
<1>2. \A c \in Chain : c.key \in RootKey /\ c.index \in Nat
  BY DEF Chain
<1>3. \A r \in RootKey : Len(r) \in Nat
  BY LenProperties DEF RootKey
<1>4. QED
  BY <1>1, <1>2, <1>3

\* Skipped keys, and what each is.
LEMMA SkippedType ==
  ASSUME NEW skipped \in Seq(Skipped)
  PROVE  /\ DOMAIN skipped = 1 .. Len(skipped) /\ Len(skipped) \in Nat
         /\ \A i \in DOMAIN skipped : /\ skipped[i].keys = <<skipped[i].keys[1], skipped[i].keys[2]>>
                                      /\ Len(skipped[i].keys[1]) \in Nat /\ skipped[i].keys[2] \in Nat
<1>1. DOMAIN skipped = 1 .. Len(skipped) /\ Len(skipped) \in Nat
  BY LenProperties
<1>2. \A i \in DOMAIN skipped : skipped[i] \in Skipped
  BY <1>1, ElementOfSeq
<1>3. \A k \in MessageKey : k = <<k[1], k[2]>> /\ k[1] \in RootKey /\ k[2] \in Nat
  BY DEF MessageKey
<1>4. \A r \in RootKey : Len(r) \in Nat
  BY LenProperties DEF RootKey
<1>5. \A x \in Skipped : x.keys \in MessageKey
  BY DEF Skipped
<1>6. QED
  BY <1>1, <1>2, <1>3, <1>4, <1>5

\* The keys fill_message_keys stores are those of the chain from its index on,
\* each once, and before the target.
LEMMA FilledKeysAre ==
  ASSUME NEW chain \in Chain, NEW target \in Nat, NEW key \in Key
  PROVE  LET f == FilledKeys(chain, target, key)
         IN  /\ f \in Seq(Skipped)
             /\ \A i \in DOMAIN f : /\ f[i].keys = <<chain.key, chain.index + i - 1>>
                                    /\ f[i].keys[1] = chain.key /\ f[i].keys[2] = chain.index + i - 1
                                    /\ chain.index <= f[i].keys[2] /\ f[i].keys[2] < target
             /\ \A i, j \in DOMAIN f : f[i].keys = f[j].keys => i = j
<1> DEFINE f == FilledKeys(chain, target, key)
<1>1. f \in Seq(Skipped)
  BY FilledKeysType
<1>2. chain.index \in Nat
  BY DEF Chain
<1>3. CASE FillOutcome(chain, target) = "ok"
  <2> DEFINE n == target - chain.index
             entry(i) == [ratchet_key |-> key, counter |-> chain.index + i - 1,
                          keys |-> MessageKeys(chain, chain.index + i - 1)]
  <2>1. f = [i \in 1 .. n |-> entry(i)]
    BY <1>3 DEF FilledKeys
  <2>2. \A i : entry(i).keys = <<chain.key, chain.index + i - 1>>
    BY DEF MessageKeys
  <2> HIDE DEF f, entry
  <2>3. DOMAIN f = 1 .. n /\ \A i \in DOMAIN f : f[i].keys = <<chain.key, chain.index + i - 1>>
    BY <2>1, <2>2
  <2>4. \A i \in DOMAIN f : /\ f[i].keys[1] = chain.key /\ f[i].keys[2] = chain.index + i - 1
    BY <2>3
  <2>5. \A i \in 1 .. n : i \in Nat /\ chain.index <= chain.index + i - 1 /\ chain.index + i - 1 < target
    BY <1>2
  <2>6. \A i, j \in 1 .. n : chain.index + i - 1 = chain.index + j - 1 => i = j
    BY <1>2
  <2>7. \A i, j \in DOMAIN f : f[i].keys = f[j].keys => i = j
    BY <2>3, <2>4, <2>6
  <2>8. QED
    BY <1>1, <2>3, <2>4, <2>5, <2>7 DEF f
<1>4. CASE FillOutcome(chain, target) # "ok"
  <2>1. f = <<>>
    BY <1>4 DEF FilledKeys
  <2>2. QED
    BY <1>1, <2>1
<1>5. QED
  BY <1>3, <1>4

\* What storing the keys before the target does to the keys held.
LEMMA FillSound ==
  ASSUME NEW chains \in Chains, NEW skipped \in Seq(Skipped), NEW n \in Nat,
         SoundKeys(chains, skipped, n), NEW old \in DOMAIN chains, NEW target \in Nat
  PROVE  LET c == chains[old]
             f == skipped \o FilledKeys(c, target, old)
         IN  /\ f \in Seq(Skipped)
             /\ \A i \in DOMAIN f : Len(f[i].keys[1]) <= n
             /\ \A i, j \in DOMAIN f : f[i].keys = f[j].keys => i = j
             /\ \A i \in DOMAIN f : \/ \E j \in DOMAIN skipped : f[i].keys = skipped[j].keys
                                    \/ f[i].keys[1] = c.key /\ c.index <= f[i].keys[2] /\ f[i].keys[2] < target
<1> DEFINE c == chains[old]
           g == FilledKeys(c, target, old)
           f == skipped \o g
<1>1. c \in Chain /\ old \in Key /\ c.index \in Nat /\ Len(c.key) <= n
  BY ChainsType DEF SoundKeys, NoLonger
<1>2. /\ g \in Seq(Skipped)
      /\ \A i \in DOMAIN g : /\ g[i].keys = <<c.key, c.index + i - 1>>
                             /\ g[i].keys[1] = c.key /\ g[i].keys[2] = c.index + i - 1
                             /\ c.index <= g[i].keys[2] /\ g[i].keys[2] < target
      /\ \A i, j \in DOMAIN g : g[i].keys = g[j].keys => i = j
  BY <1>1, FilledKeysAre
<1> HIDE DEF g, c
<1>3. /\ f \in Seq(Skipped) /\ DOMAIN f = 1 .. Len(skipped) + Len(g)
      /\ DOMAIN skipped = 1 .. Len(skipped) /\ DOMAIN g = 1 .. Len(g) /\ Len(skipped) \in Nat /\ Len(g) \in Nat
      /\ \A i \in DOMAIN f : f[i] = IF i <= Len(skipped) THEN skipped[i] ELSE g[i - Len(skipped)]
  BY <1>2, ConcatProperties, LenProperties
<1> HIDE DEF f
<1>4. \A i \in DOMAIN f : \/ i \in DOMAIN skipped /\ f[i] = skipped[i]
                          \/ i - Len(skipped) \in DOMAIN g /\ f[i] = g[i - Len(skipped)]
  BY <1>3
<1>5. ASSUME NEW i \in DOMAIN skipped, NEW j \in DOMAIN g PROVE skipped[i].keys # g[j].keys
  <2>1. c.index <= g[j].keys[2] /\ g[j].keys[1] = c.key /\ g[j].keys[2] \in Nat /\ skipped[i].keys[2] \in Nat
    BY <1>2, SkippedType
  <2>2. skipped[i].keys[1] = c.key => skipped[i].keys[2] < c.index
    BY DEF SoundKeys, SkippedBehind, c
  <2>3. skipped[i].keys[1] = c.key /\ skipped[i].keys[2] < c.index => skipped[i].keys[2] # g[j].keys[2]
    BY <1>1, <2>1
  <2>4. QED
    BY <2>1, <2>2, <2>3
<1>6. ASSUME NEW i \in DOMAIN f PROVE Len(f[i].keys[1]) <= n
  <2>1. CASE i \in DOMAIN skipped /\ f[i] = skipped[i]
    BY <2>1 DEF SoundKeys, NoLonger
  <2>2. CASE i - Len(skipped) \in DOMAIN g /\ f[i] = g[i - Len(skipped)]
    BY <1>1, <1>2, <2>2
  <2>3. QED
    BY <1>4, <2>1, <2>2
<1>7. ASSUME NEW i \in DOMAIN f, NEW j \in DOMAIN f, f[i].keys = f[j].keys PROVE i = j
  <2>1. CASE i \in DOMAIN skipped /\ f[i] = skipped[i] /\ j \in DOMAIN skipped /\ f[j] = skipped[j]
    BY <1>7, <2>1 DEF SoundKeys, SkippedDiffer
  <2>2. CASE /\ i - Len(skipped) \in DOMAIN g /\ f[i] = g[i - Len(skipped)]
             /\ j - Len(skipped) \in DOMAIN g /\ f[j] = g[j - Len(skipped)]
    <3>1. i - Len(skipped) = j - Len(skipped)
      BY <1>2, <1>7, <2>2
    <3>2. i \in Nat /\ j \in Nat
      BY <1>3
    <3>3. QED
      BY <1>3, <3>1, <3>2
  <2>3. QED
    BY <1>4, <1>5, <1>7, <2>1, <2>2
<1>8. \A i \in DOMAIN f : \/ \E j \in DOMAIN skipped : f[i].keys = skipped[j].keys
                          \/ f[i].keys[1] = c.key /\ c.index <= f[i].keys[2] /\ f[i].keys[2] < target
  BY <1>2, <1>4
<1>9. QED
  BY <1>3, <1>6, <1>7, <1>8 DEF f, g, c

\* The chains after a ratchet step, and after moving along one of them.
Stepped(chains, later, old, new, chain) ==
  /\ DOMAIN later = (DOMAIN chains \ {old}) \cup {new} /\ later[new] = chain
  /\ \A k \in DOMAIN later : k # new => later[k] = chains[k]

Moved(chains, later, key, target) ==
  /\ DOMAIN later = DOMAIN chains /\ \A k \in DOMAIN chains : k # key => later[k] = chains[k]
  /\ later[key].key = chains[key].key /\ later[key].index = target + 1

\* The skipped keys after it.
Stored(chains, skipped, more, old, target) ==
  more = IF old \in DOMAIN chains THEN skipped \o FilledKeys(chains[old], target, old) ELSE skipped

\* The same of the list decrypt is left with.
LEMMA StoredSound ==
  ASSUME NEW chains \in Chains, NEW skipped \in Seq(Skipped), NEW n \in Nat,
         SoundKeys(chains, skipped, n), NEW old \in DOMAIN chains, NEW target \in Nat,
         NEW more, Stored(chains, skipped, more, old, target)
  PROVE  /\ more \in Seq(Skipped)
         /\ \A i \in DOMAIN more : Len(more[i].keys[1]) <= n
         /\ \A i, j \in DOMAIN more : more[i].keys = more[j].keys => i = j
         /\ \A i \in DOMAIN more :
              \/ \E j \in DOMAIN skipped : more[i].keys = skipped[j].keys
              \/ /\ more[i].keys[1] = chains[old].key /\ chains[old].index <= more[i].keys[2]
                 /\ more[i].keys[2] < target
<1> DEFINE f == skipped \o FilledKeys(chains[old], target, old)
<1>1. /\ f \in Seq(Skipped)
      /\ \A i \in DOMAIN f : Len(f[i].keys[1]) <= n
      /\ \A i, j \in DOMAIN f : f[i].keys = f[j].keys => i = j
      /\ \A i \in DOMAIN f :
           \/ \E j \in DOMAIN skipped : f[i].keys = skipped[j].keys
           \/ /\ f[i].keys[1] = chains[old].key /\ chains[old].index <= f[i].keys[2]
              /\ f[i].keys[2] < target
  BY FillSound
<1>2. more = f
  BY DEF Stored
<1> HIDE DEF f
<1>3. QED
  BY <1>1, <1>2

\* A ratchet step: one chain fewer, whose keys are stored, and a new one that is
\* longer than all others.
LEMMA StepSound ==
  ASSUME NEW chains \in Chains, NEW skipped \in Seq(Skipped), NEW n \in Nat,
         SoundKeys(chains, skipped, n), NEW old, NEW new \in Key \ DOMAIN chains,
         NEW target \in Nat, NEW chain \in Chain, Len(chain.key) = n + 1,
         NEW later, Stepped(chains, later, old, new, chain),
         NEW more, Stored(chains, skipped, more, old, target)
  PROVE  /\ SoundKeys(later, more, n + 1)
         /\ \A keys \in MessageKey : Holds(later, more, keys) => Holds(chains, skipped, keys) \/ n < Len(keys[1])
<1> DEFINE c == chains[old]
<1>1. /\ \A k \in DOMAIN chains : /\ Len(chains[k].key) \in Nat /\ Len(chains[k].key) <= n
                                  /\ chains[k].index \in Nat
      /\ DOMAIN skipped = 1 .. Len(skipped) /\ chains \in [DOMAIN chains -> Chain]
  BY ChainsType, SkippedType DEF SoundKeys, NoLonger
<1>2. /\ more \in Seq(Skipped)
      /\ \A i \in DOMAIN more : Len(more[i].keys[1]) <= n
      /\ \A i, j \in DOMAIN more : more[i].keys = more[j].keys => i = j
      /\ \A i \in DOMAIN more :
           \/ \E j \in DOMAIN skipped : more[i].keys = skipped[j].keys
           \/ old \in DOMAIN chains /\ more[i].keys[1] = c.key /\ c.index <= more[i].keys[2]
  <2>1. CASE old \in DOMAIN chains
    <3> HIDE DEF c
    <3>1. QED
      BY <2>1, StoredSound DEF c
  <2>2. CASE old \notin DOMAIN chains
    BY <2>2 DEF Stored, SoundKeys, NoLonger, SkippedDiffer
  <2>3. QED
    BY <2>1, <2>2
<1>3. /\ DOMAIN later = (DOMAIN chains \ {old}) \cup {new} /\ later[new] = chain
      /\ \A k \in DOMAIN later : k # new => k \in DOMAIN chains /\ k # old /\ later[k] = chains[k]
  BY DEF Stepped
<1>4. \A i \in DOMAIN more : Len(more[i].keys[1]) \in Nat /\ more[i].keys[2] \in Nat
                             /\ more[i].keys[1] # chain.key
  <2>1. \A i \in DOMAIN more : Len(more[i].keys[1]) \in Nat /\ more[i].keys[2] \in Nat
    BY <1>2, SkippedType
  <2>2. QED
    BY <1>2, <2>1
<1>5. \A k \in DOMAIN chains : chains[k].key # chain.key
  BY <1>1
<1> HIDE DEF c
<1>6. \A k \in DOMAIN later : Len(later[k].key) <= n + 1
  <2>1. \A a \in Nat : a <= n => a <= n + 1
    OBVIOUS
  <2>2. n + 1 <= n + 1
    OBVIOUS
  <2>3. QED
    BY <1>1, <1>3, <2>1, <2>2
<1>7. \A i \in DOMAIN more : Len(more[i].keys[1]) <= n + 1
  BY <1>2, <1>4
<1>8. \A k, l \in DOMAIN later : later[k].key = later[l].key => k = l
  BY <1>3, <1>5 DEF SoundKeys, ChainsDiffer
<1>9. ASSUME NEW i \in DOMAIN more, NEW k \in DOMAIN later, more[i].keys[1] = later[k].key
      PROVE  more[i].keys[2] < later[k].index
  <2>1. k # new /\ k \in DOMAIN chains /\ k # old /\ later[k] = chains[k]
    BY <1>3, <1>4, <1>9
  <2>2. CASE \E j \in DOMAIN skipped : more[i].keys = skipped[j].keys
    BY <1>9, <2>1, <2>2 DEF SoundKeys, SkippedBehind
  <2>3. CASE old \in DOMAIN chains /\ more[i].keys[1] = c.key
    BY <1>9, <2>1, <2>3 DEF SoundKeys, ChainsDiffer, c
  <2>4. QED
    BY <1>2, <2>2, <2>3
<1>10. ASSUME NEW keys \in MessageKey, Holds(later, more, keys)
       PROVE  Holds(chains, skipped, keys) \/ n < Len(keys[1])
  <2>1. CASE \E i \in DOMAIN more : more[i].keys = keys
    BY <1>2, <2>1 DEF Holds, c
  <2>2. CASE \E k \in DOMAIN later : later[k].key = keys[1] /\ later[k].index <= keys[2]
    <3>1. PICK k \in DOMAIN later : later[k].key = keys[1] /\ later[k].index <= keys[2]
      BY <2>2
    <3>2. CASE k = new
      BY <1>3, <3>1, <3>2
    <3>3. CASE k # new
      BY <1>3, <3>1, <3>3 DEF Holds
    <3>4. QED
      BY <3>2, <3>3
  <2>3. QED
    BY <1>10, <2>1, <2>2 DEF Holds
<1>11. SoundKeys(later, more, n + 1)
  BY <1>6, <1>7, <1>2, <1>8, <1>9 DEF SoundKeys, NoLonger, ChainsDiffer, SkippedDiffer, SkippedBehind
<1>12. QED
  BY <1>10, <1>11

\* Moving along a chain: the key of the counter is held before and not after.
LEMMA AdvanceSound ==
  ASSUME NEW chains \in Chains, NEW skipped \in Seq(Skipped), NEW n \in Nat,
         SoundKeys(chains, skipped, n), NEW key \in DOMAIN chains, NEW target \in Nat,
         ~(target < chains[key].index),
         NEW later, Moved(chains, later, key, target),
         NEW more, Stored(chains, skipped, more, key, target)
  PROVE  /\ SoundKeys(later, more, n)
         /\ \A keys \in MessageKey : Holds(later, more, keys) => Holds(chains, skipped, keys)
         /\ Holds(chains, skipped, <<chains[key].key, target>>)
         /\ ~Holds(later, more, <<chains[key].key, target>>)
         /\ Len(chains[key].key) <= n
<1> DEFINE c == chains[key]
<1>1. /\ c \in Chain /\ c.index \in Nat /\ Len(c.key) <= n /\ c.index <= target
      /\ DOMAIN skipped = 1 .. Len(skipped) /\ chains \in [DOMAIN chains -> Chain]
  BY ChainsType, SkippedType DEF SoundKeys, NoLonger
<1>2. /\ more \in Seq(Skipped)
      /\ \A i \in DOMAIN more : Len(more[i].keys[1]) <= n
      /\ \A i, j \in DOMAIN more : more[i].keys = more[j].keys => i = j
      /\ \A i \in DOMAIN more :
           \/ \E j \in DOMAIN skipped : more[i].keys = skipped[j].keys
           \/ more[i].keys[1] = c.key /\ c.index <= more[i].keys[2] /\ more[i].keys[2] < target
  <2> HIDE DEF c
  <2>1. QED
    BY StoredSound DEF c
<1>3. \A k \in DOMAIN chains : chains[k].index \in Nat
  BY ChainsType
<1>4. /\ DOMAIN later = DOMAIN chains
      /\ \A k \in DOMAIN chains : later[k].key = chains[k].key
      /\ \A k \in DOMAIN chains : k # key => later[k].index = chains[k].index
      /\ later[key].index = target + 1
  BY DEF Moved
<1>5. /\ \A k \in DOMAIN chains : chains[k].key = c.key => k = key
      /\ \A i \in DOMAIN skipped : skipped[i].keys[1] = c.key => skipped[i].keys[2] < c.index
  BY DEF SoundKeys, ChainsDiffer, SkippedBehind
<1>6. \A i \in DOMAIN more : more[i].keys[2] \in Nat
  BY <1>2, SkippedType
<1> HIDE DEF c
<1>7. \A i \in DOMAIN more : more[i].keys[1] = c.key => more[i].keys[2] < target
  <2>1. \A a \in Nat : a < c.index => a < target
    BY <1>1
  <2>2. ASSUME NEW i \in DOMAIN more, more[i].keys[1] = c.key, ~(more[i].keys[2] < target) PROVE FALSE
    <3>1. PICK j \in DOMAIN skipped : more[i].keys = skipped[j].keys
      BY <1>2, <2>2
    <3>2. QED
      BY <1>5, <1>6, <2>1, <2>2, <3>1
  <2>3. QED
    BY <2>2
<1>8. ASSUME NEW i \in DOMAIN more, NEW k \in DOMAIN later, more[i].keys[1] = later[k].key
      PROVE  more[i].keys[2] < later[k].index
  <2>1. CASE k = key
    <3>1. more[i].keys[2] < target /\ more[i].keys[2] \in Nat
      BY <1>4, <1>6, <1>7, <1>8, <2>1 DEF c
    <3>2. QED
      BY <1>4, <2>1, <3>1
  <2>2. CASE k # key
    <3>1. more[i].keys[1] # c.key
      BY <1>4, <1>5, <1>8, <2>2
    <3>2. PICK j \in DOMAIN skipped : more[i].keys = skipped[j].keys
      BY <1>2, <3>1
    <3>3. QED
      BY <1>4, <1>8, <2>2, <3>2 DEF SoundKeys, SkippedBehind
  <2>3. QED
    BY <2>1, <2>2
<1>9. SoundKeys(later, more, n)
  <2>1. \A k \in DOMAIN later : Len(later[k].key) <= n
    BY <1>4 DEF SoundKeys, NoLonger
  <2>2. \A k, l \in DOMAIN later : later[k].key = later[l].key => k = l
    BY <1>4 DEF SoundKeys, ChainsDiffer
  <2> HIDE DEF c
  <2>3. QED
    BY <1>2, <1>8, <2>1, <2>2 DEF SoundKeys, NoLonger, ChainsDiffer, SkippedDiffer, SkippedBehind
<1>10. ASSUME NEW keys \in MessageKey, Holds(later, more, keys) PROVE Holds(chains, skipped, keys)
  <2>1. CASE \E i \in DOMAIN more : more[i].keys = keys
    BY <1>2, <2>1 DEF Holds, c
  <2>2. CASE \E k \in DOMAIN later : later[k].key = keys[1] /\ later[k].index <= keys[2]
    <3>1. PICK k \in DOMAIN chains : chains[k].key = keys[1] /\ later[k].index <= keys[2]
      BY <1>4, <2>2
    <3>2. keys[2] \in Nat
      BY DEF MessageKey
    <3>3. chains[k].index <= keys[2]
      <4>1. CASE k = key
        BY <1>1, <1>4, <3>1, <3>2, <4>1 DEF c
      <4>2. CASE k # key
        BY <1>4, <3>1, <4>2
      <4>3. QED
        BY <4>1, <4>2
    <3>4. QED
      BY <3>1, <3>3 DEF Holds
  <2>3. QED
    BY <1>10, <2>1, <2>2 DEF Holds
<1>11. Holds(chains, skipped, <<c.key, target>>)
  BY <1>1 DEF Holds, c
<1>12. ~Holds(later, more, <<c.key, target>>)
  <2>1. ASSUME NEW i \in DOMAIN more PROVE more[i].keys # <<c.key, target>>
    <3>1. more[i].keys[1] = c.key => more[i].keys[2] # target
      BY <1>6, <1>7
    <3>2. QED
      BY <3>1
  <2>2. ASSUME NEW k \in DOMAIN later, later[k].key = c.key PROVE ~(later[k].index <= target)
    BY <1>4, <1>5, <2>2
  <2>3. QED
    BY <2>1, <2>2 DEF Holds
<1>13. QED
  BY <1>1, <1>9, <1>10, <1>11, <1>12 DEF c

\* What is left when an element is removed, and where it was.
LEMMA RemoveAtElements ==
  ASSUME NEW T, NEW q \in Seq(T), NEW pos \in 1 .. Len(q)
  PROVE  \A i \in DOMAIN RemoveAt(q, pos) : RemoveAt(q, pos)[i] = q[IF i < pos THEN i ELSE i + 1]
<1> DEFINE less == RemoveAt(q, pos)
<1>1. less \in Seq(T) /\ Len(less) = Len(q) - 1 /\ Len(q) \in Nat
  BY RemoveAtType, LenProperties
<1>2. DOMAIN less = 1 .. Len(less)
  BY <1>1, LenProperties
<1>3. \A i \in DOMAIN less : less[i] = q[IF i < pos THEN i ELSE i + 1]
  <2> DEFINE before == SubSeq(q, 1, pos - 1)
             after  == SubSeq(q, pos + 1, Len(q))
  <2>1. \A i \in 1 .. Len(q) : q[i] \in T
    BY ElementOfSeq
  <2>2. before \in Seq(T) /\ Len(before) = pos - 1 /\ \A i \in 1 .. pos - 1 : before[i] = q[i]
    BY <1>1, <2>1, SubSeqProperties
  <2>3. after \in Seq(T) /\ Len(after) = Len(q) - pos
        /\ \A i \in 1 .. Len(q) - pos : after[i] = q[pos + i]
    <3>1. /\ after \in Seq(T) /\ Len(after) = IF pos + 1 <= Len(q) THEN Len(q) - (pos + 1) + 1 ELSE 0
          /\ \A i \in 1 .. Len(q) - (pos + 1) + 1 : after[i] = q[(pos + 1) + i - 1]
      BY <1>1, <2>1, SubSeqProperties
    <3> HIDE DEF after
    <3>2. Len(q) - (pos + 1) + 1 = Len(q) - pos
      BY <1>1
    <3>3. \A i \in 1 .. Len(q) - pos : (pos + 1) + i - 1 = pos + i
      BY <1>1
    <3>4. QED
      BY <1>1, <3>1, <3>2, <3>3
  <2>4. less = before \o after
    BY DEF RemoveAt
  <2> HIDE DEF before, after, less
  <2>5. \A i \in 1 .. Len(before) + Len(after) :
          less[i] = IF i <= Len(before) THEN before[i] ELSE after[i - Len(before)]
    <3>1. before \in Seq(T) /\ after \in Seq(T)
      BY <2>2, <2>3
    <3>2. QED
      BY <2>4, <3>1, ConcatProperties
  <2>6. ASSUME NEW i \in DOMAIN less PROVE less[i] = q[IF i < pos THEN i ELSE i + 1]
    <3>1. i \in 1 .. Len(before) + Len(after)
      BY <1>1, <1>2, <2>2, <2>3
    <3>2. CASE i < pos
      <4>1. i <= Len(before) /\ i \in 1 .. pos - 1
        BY <1>2, <2>2, <3>2
      <4>2. QED
        BY <2>2, <2>5, <3>1, <3>2, <4>1
    <3>3. CASE ~(i < pos)
      <4>1. ~(i <= Len(before)) /\ i - Len(before) \in 1 .. Len(q) - pos /\ pos + (i - Len(before)) = i + 1
        BY <1>1, <1>2, <2>2, <3>3
      <4>2. QED
        BY <2>3, <2>5, <3>1, <3>3, <4>1
    <3>4. QED
      BY <3>2, <3>3
  <2>7. QED
    BY <2>6
<1>4. QED
  BY <1>3

\* Taking a skipped key: it is held before and not after.
LEMMA TakeSound ==
  ASSUME NEW chains \in Chains, NEW skipped \in Seq(Skipped), NEW n \in Nat,
         SoundKeys(chains, skipped, n), NEW pos \in 1 .. Len(skipped),
         NEW less, less = RemoveAt(skipped, pos)
  PROVE  /\ SoundKeys(chains, less, n)
         /\ \A keys \in MessageKey : Holds(chains, less, keys) => Holds(chains, skipped, keys)
         /\ Holds(chains, skipped, skipped[pos].keys)
         /\ ~Holds(chains, less, skipped[pos].keys)
         /\ Len(skipped[pos].keys[1]) <= n
<1>1. less \in Seq(Skipped) /\ Len(less) = Len(skipped) - 1 /\ DOMAIN skipped = 1 .. Len(skipped) /\ Len(skipped) \in Nat
  BY RemoveAtType, SkippedType
<1>2. DOMAIN less = 1 .. Len(less)
  BY <1>1, SkippedType
<1>3. \A i \in DOMAIN less : less[i] = skipped[IF i < pos THEN i ELSE i + 1]
  BY RemoveAtElements
<1> DEFINE at(i) == IF i < pos THEN i ELSE i + 1
<1>4. \A i \in DOMAIN less : at(i) \in DOMAIN skipped /\ at(i) # pos
  BY <1>1, <1>2
<1>5. \A i, j \in DOMAIN less : at(i) = at(j) => i = j
  BY <1>1, <1>2
<1>6. \A i \in DOMAIN less : less[i] = skipped[at(i)]
  BY <1>3
<1> HIDE DEF at
<1>7. SoundKeys(chains, less, n)
  BY <1>4, <1>5, <1>6 DEF SoundKeys, NoLonger, SkippedDiffer, SkippedBehind
<1>8. \A keys : Holds(chains, less, keys) => Holds(chains, skipped, keys)
  BY <1>4, <1>6 DEF Holds
<1>9. Holds(chains, skipped, skipped[pos].keys) /\ Len(skipped[pos].keys[1]) <= n
  BY <1>1 DEF Holds, SoundKeys, NoLonger
<1>10. ~Holds(chains, less, skipped[pos].keys)
  <2>1. \A i \in DOMAIN less : less[i].keys # skipped[pos].keys
    BY <1>1, <1>4, <1>6 DEF SoundKeys, SkippedDiffer
  <2>2. ASSUME NEW k \in DOMAIN chains, chains[k].key = skipped[pos].keys[1]
        PROVE  ~(chains[k].index <= skipped[pos].keys[2])
    <3>1. skipped[pos].keys[2] < chains[k].index
      BY <1>1, <2>2 DEF SoundKeys, SkippedBehind
    <3>2. skipped[pos].keys[2] \in Nat /\ chains[k].index \in Nat
      BY <1>1, SkippedType, ChainsType
    <3>3. QED
      BY <3>1, <3>2
  <2>3. QED
    BY <2>1, <2>2 DEF Holds
<1>11. QED
  BY <1>7, <1>8, <1>9, <1>10

-----------------------------------------------------------------------------
\* The two devices

\* Each device has the other for its peer.
LEMMA PeerType ==
  ASSUME NEW p \in Device
  PROVE  Peer(p) \in Device /\ Peer(p) # p /\ Peer(Peer(p)) = p
BY DeviceAssumption DEF Peer

\* The key pairs both sides start with.
LEMMA BobKeysType ==
  /\ \A p \in Device : IdentityKey(p) \in Key
  /\ SignedPreKey \in Key /\ OneTimePreKey \in Key /\ AliceBaseKey \in Key /\ AliceFirstKey \in Key
BY DeviceAssumption DEF IdentityKey, SignedPreKey, OneTimePreKey, AliceBaseKey, AliceFirstKey, Key

\* The session Alice starts with.
LEMMA AliceInitialType ==
  IsSession(NewAlice(IdentityKey(Alice), BobBundle, AliceBaseKey, AliceFirstKey))
<1> DEFINE id     == IdentityKey(Alice)
           master == X3dhMasterSecretAlice(id, AliceBaseKey, BobBundle)
           root   == KdfRoot(master, DiffieHellman(AliceFirstKey, SignedPreKey))
           pre    == [pre_key |-> OneTimePreKey, signed_pre_key |-> SignedPreKey,
                      base_key |-> AliceBaseKey, identity_key |-> id]
           s      == NewAlice(id, BobBundle, AliceBaseKey, AliceFirstKey)
<1>1. /\ id \in Key /\ IdentityKey(Bob) \in Key /\ SignedPreKey \in Key
      /\ OneTimePreKey \in Key /\ AliceBaseKey \in Key /\ AliceFirstKey \in Key
  BY BobKeysType, DeviceAssumption
<1>2. /\ BobBundle.identity_key = IdentityKey(Bob)
      /\ BobBundle.signed_pre_key = SignedPreKey /\ BobBundle.pre_key = OneTimePreKey
  BY DEF BobBundle
<1>3. master \in RootKey
  BY <1>1, <1>2 DEF X3dhMasterSecretAlice, DiffieHellman, RootKey
<1>4. root \in RootKey /\ NewChain(root, 0) \in Chain
  BY <1>1, <1>3, KdfRootType
<1>5. NewChain(master, 0) \in Chain
  BY <1>3 DEF NewChain, Chain
<1>6. pre \in PreKey
  BY <1>1 DEF PreKey
<1>7. s = [root_key |-> root, our_ratchet_key |-> AliceFirstKey,
           their_ratchet_key |-> SignedPreKey, sending_chain |-> NewChain(root, 0),
           sending_chain_remote_key |-> SignedPreKey,
           receiving_chains |-> [k \in {SignedPreKey} |-> NewChain(master, 0)],
           skipped_message_keys |-> <<>>, pending_pre_key |-> pre]
  BY <1>2 DEF NewAlice
<1>8. s.receiving_chains \in [DOMAIN s.receiving_chains -> Chain]
      /\ DOMAIN s.receiving_chains \subseteq Key
  BY <1>1, <1>5, <1>7
<1> HIDE DEF master, root, pre, s, id
<1>9. IsSession(s)
  BY <1>1, <1>4, <1>6, <1>7, <1>8, EmptySeq DEF IsSession
<1> QED
  BY <1>9 DEF s, id

\* What decrypt_message leaves in the place of a session.
LEMMA DecryptMessageType ==
  ASSUME TypeOK, NEW p \in Device, NEW m \in Message
  PROVE  /\ DecryptMessage(p, m).session # None => IsSession(DecryptMessage(p, m).session)
         /\ DecryptMessage(p, m).outcome \in Error \cup {"ok"}
         /\ session[p] # None /\ DecryptMessage(p, m).session # None =>
              Len(DecryptMessage(p, m).session.skipped_message_keys)
                <= Len(session[p].skipped_message_keys) + 2 * MAX_FORWARD_JUMPS
<1>1. session[p] # None => IsSession(session[p])
  BY DEF TypeOK
<1>2. session[p] # None => Len(session[p].skipped_message_keys) \in Nat
  BY <1>1, LenProperties DEF IsSession
<1>3. MAX_FORWARD_JUMPS \in Nat /\ 2 * MAX_FORWARD_JUMPS \in Nat
  BY MaxForwardJumpsAssumption
<1>4. CASE m.pre_key # None
  <2> DEFINE bob == NewBob(IdentityKey(p), m.pre_key.signed_pre_key, m.pre_key.pre_key, m)
             start == BobInitial(IdentityKey(p), m.pre_key.signed_pre_key, m.pre_key.pre_key, m.pre_key)
  <2>1. m.pre_key \in PreKey
    BY <1>4 DEF Message
  <2>2. m.pre_key.signed_pre_key \in Key /\ m.pre_key.pre_key \in Key
    BY <2>1 DEF PreKey
  <2>3. IsSession(start) /\ start.skipped_message_keys = <<>>
    BY <2>1, <2>2, BobKeysType, BobInitialType
  <2>4. bob = Decrypt(start, m)
    BY DEF NewBob
  <2> HIDE DEF start
  <2>5. /\ IsSession(bob.session)
        /\ Len(bob.session.skipped_message_keys) <= Len(start.skipped_message_keys) + 2 * MAX_FORWARD_JUMPS
        /\ bob.outcome \in {"ok", "DuplicateMessage", "MessageGapTooLarge", "BadMac"}
    BY <2>3, <2>4, DecryptType
  <2>6. Len(bob.session.skipped_message_keys) <= 2 * MAX_FORWARD_JUMPS
    BY <2>3, <2>5, <1>3
  <2>7. Len(bob.session.skipped_message_keys) \in Nat
    BY <2>5, LenProperties DEF IsSession
  <2>8. CASE bob.outcome = "ok"
    <3>1. DecryptMessage(p, m) = bob
      BY <1>4, <2>8 DEF DecryptMessage
    <3> HIDE DEF bob
    <3>2. session[p] # None =>
            Len(bob.session.skipped_message_keys)
              <= Len(session[p].skipped_message_keys) + 2 * MAX_FORWARD_JUMPS
      <4>1. \A a, b, c \in Nat : a <= c => a <= b + c
        OBVIOUS
      <4> QED
        BY <1>2, <1>3, <2>6, <2>7, <4>1
    <3> QED
      BY <2>5, <3>1, <3>2 DEF Error
  <2>9. CASE bob.outcome # "ok"
    <3>1. DecryptMessage(p, m) = [bob EXCEPT !.session = session[p]]
      BY <1>4, <2>9 DEF DecryptMessage
    <3>2. \E s, o : bob = [session |-> s, outcome |-> o]
      BY <2>4 DEF Decrypt, Consume, Fail, CheckMac
    <3> HIDE DEF bob
    <3>3. DecryptMessage(p, m).session = session[p] /\ DecryptMessage(p, m).outcome = bob.outcome
      BY <3>1, <3>2
    <3>4. session[p] # None =>
            Len(session[p].skipped_message_keys)
              <= Len(session[p].skipped_message_keys) + 2 * MAX_FORWARD_JUMPS
      <4>1. \A a, c \in Nat : a <= a + c
        OBVIOUS
      <4> QED
        BY <1>2, <1>3, <4>1
    <3> QED
      BY <1>1, <2>5, <3>3, <3>4 DEF Error
  <2> QED
    BY <2>8, <2>9
<1>5. CASE m.pre_key = None /\ session[p] = None
  BY <1>5 DEF DecryptMessage, Error
<1>6. CASE m.pre_key = None /\ session[p] # None
  <2>1. DecryptMessage(p, m) = Decrypt(session[p], m)
    BY <1>6 DEF DecryptMessage
  <2> QED
    BY <1>1, <1>6, <2>1, DecryptType DEF Error
<1> QED
  BY <1>4, <1>5, <1>6

\* Counting one more keeps a function a function to the natural numbers.
LEMMA CountType ==
  ASSUME NEW S, NEW f \in [S -> Nat], NEW x
  PROVE  [f EXCEPT ![x] = @ + 1] \in [S -> Nat]
<1>1. [f EXCEPT ![x] = @ + 1] = [y \in S |-> IF y = x THEN f[y] + 1 ELSE f[y]]
  OBVIOUS
<1>2. \A y \in S : f[y] \in Nat
  OBVIOUS
<1>3. \A n \in Nat : n + 1 \in Nat
  OBVIOUS
<1>4. \A y \in S : (IF y = x THEN f[y] + 1 ELSE f[y]) \in Nat
  BY <1>2, <1>3
<1> QED
  BY <1>1, <1>4

\* Receive keeps the state well formed.
LEMMA ReceiveType ==
  ASSUME TypeOK, NEW p \in Device, NEW m \in Message, Receive(p, m)
  PROVE  /\ DOMAIN session' = Device
         /\ \A q \in Device : session'[q] # None => IsSession(session'[q])
         /\ received' \in [Device -> SUBSET Message]
         /\ DOMAIN reads' = Device
         /\ \A q \in Device : reads'[q] \in [1 .. MaxSend(Peer(q)) -> Nat]
         /\ failures' \in [Device -> SUBSET [text : Text, error : Error]]
         /\ UNCHANGED <<generated, sent>>
<1> DEFINE d == DecryptMessage(p, m)
<1>1. /\ d.session # None => IsSession(d.session)
      /\ d.outcome \in Error \cup {"ok"}
  BY DecryptMessageType
<1>2. /\ session' = [session EXCEPT ![p] = d.session]
      /\ received' = [received EXCEPT ![p] = @ \cup {m}]
      /\ UNCHANGED <<generated, sent>>
      /\ \/ /\ reads' = [reads EXCEPT ![p][m.text] = @ + 1]
            /\ UNCHANGED failures
         \/ /\ d.outcome # "ok"
            /\ failures' = [failures EXCEPT ![p] = @ \cup {[text |-> m.text, error |-> d.outcome]}]
            /\ UNCHANGED reads
  BY DEF Receive
<1> HIDE DEF d
<1>3. DOMAIN session' = Device /\ \A q \in Device : session'[q] # None => IsSession(session'[q])
  BY <1>1, <1>2 DEF TypeOK
<1>4. received' \in [Device -> SUBSET Message]
  BY <1>2 DEF TypeOK
<1>5. DOMAIN reads' = Device /\ \A q \in Device : reads'[q] \in [1 .. MaxSend(Peer(q)) -> Nat]
  <2> DEFINE again == [reads[p] EXCEPT ![m.text] = @ + 1]
  <2>1. reads[p] \in [1 .. MaxSend(Peer(p)) -> Nat]
    BY DEF TypeOK
  <2>2. again \in [1 .. MaxSend(Peer(p)) -> Nat]
    BY <2>1, CountType
  <2>3. reads' = [reads EXCEPT ![p] = again] \/ reads' = reads
    BY <1>2
  <2> HIDE DEF again
  <2> QED
    BY <2>2, <2>3 DEF TypeOK
<1>6. failures' \in [Device -> SUBSET [text : Text, error : Error]]
  <2>1. CASE d.outcome # "ok"
    <3> DEFINE failure == [text |-> m.text, error |-> d.outcome]
    <3>1. failure \in [text : Text, error : Error]
      BY <1>1, <2>1 DEF Message
    <3>2. \/ failures' = [failures EXCEPT ![p] = @ \cup {failure}]
          \/ failures' = failures
      BY <1>2
    <3> HIDE DEF failure
    <3>3. failures \in [Device -> SUBSET [text : Text, error : Error]]
      BY DEF TypeOK
    <3> DEFINE T == [text : Text, error : Error]
    <3> HIDE DEF T
    <3>4. failures \in [Device -> SUBSET T] /\ failure \in T
      BY <3>1, <3>3 DEF T
    <3>5. failures' \in [Device -> SUBSET T]
      BY <3>2, <3>4
    <3> QED
      BY <3>5 DEF T
  <2>2. CASE d.outcome = "ok"
    BY <1>2, <2>2 DEF TypeOK
  <2> QED
    BY <2>1, <2>2
<1> QED
  BY <1>2, <1>3, <1>4, <1>5, <1>6

\* Taking a message out of the network leaves a network.
LEMMA NetWithoutType ==
  ASSUME TypeOK, NEW p \in Device, NEW i \in DOMAIN net[p]
  PROVE  /\ net[p][i] \in Message
         /\ [net EXCEPT ![p] = RemoveAt(@, i)] \in [Device -> Seq(Message)]
<1>1. net[p] \in Seq(Message)
  BY DEF TypeOK
<1>2. i \in 1 .. Len(net[p])
  BY <1>1, LenProperties
<1>3. RemoveAt(net[p], i) \in Seq(Message)
  BY <1>1, <1>2, RemoveAtType
<1> QED
  BY <1>1, <1>2, <1>3, ElementOfSeq DEF TypeOK

\* The initial state is well formed.
LEMMA InitType == Init => TypeOK
<1> SUFFICES ASSUME Init PROVE TypeOK
  OBVIOUS
<1>1. DOMAIN session = Device /\ \A p \in Device : session[p] # None => IsSession(session[p])
  BY AliceInitialType DEF Init
<1>2. generated \in [Device -> Nat]
  BY DEF Init, FirstGenerated
<1>3. net \in [Device -> Seq(Message)]
  BY EmptySeq DEF Init
<1>4. sent \in [Device -> SUBSET Message] /\ \A p \in Device : IsFiniteSet(sent[p])
  BY FS_EmptySet DEF Init
<1>5. received \in [Device -> SUBSET Message] /\ failures \in [Device -> SUBSET [text : Text, error : Error]]
  BY DEF Init
<1>6. DOMAIN reads = Device /\ \A p \in Device : reads[p] \in [1 .. MaxSend(Peer(p)) -> Nat]
  BY DEF Init
<1>7. replays \in Nat
  BY DEF Init
<1> QED
  BY <1>1, <1>2, <1>3, <1>4, <1>5, <1>6, <1>7 DEF TypeOK

\* Sending keeps the state well formed: encrypt returns a message and a session.
LEMMA SendType ==
  ASSUME TypeOK, NEW p \in Device, Send(p)
  PROVE  TypeOK'
<1> DEFINE s     == session[p]
           fresh == <<p, generated[p]>>
           m     == EncryptedMessage(s, fresh, Cardinality(sent[p]) + 1)
<1>1. /\ IsSession(s)
      /\ session' = [session EXCEPT ![p] = AfterEncrypt(s, fresh)]
      /\ generated' = [generated EXCEPT ![p] = IF NeedsRatchet(s) THEN @ + 1 ELSE @]
      /\ net' = [net EXCEPT ![Peer(p)] = Append(@, m)]
      /\ sent' = [sent EXCEPT ![p] = @ \cup {m}]
      /\ UNCHANGED <<received, reads, failures, replays>>
  BY DEF Send, TypeOK
<1>2. fresh \in Key
  BY DEF TypeOK, Key
<1>3. Cardinality(sent[p]) + 1 \in Text
  BY FS_CardinalityType DEF TypeOK, Text
<1>4. m \in Message /\ IsSession(AfterEncrypt(s, fresh))
  BY <1>1, <1>2, <1>3, EncryptType
<1> HIDE DEF s, fresh, m
<1>5. DOMAIN session' = Device /\ \A q \in Device : session'[q] # None => IsSession(session'[q])
  BY <1>1, <1>4 DEF TypeOK
<1>6. generated' \in [Device -> Nat]
  BY <1>1 DEF TypeOK
<1>7. net' \in [Device -> Seq(Message)]
  <2>1. Append(net[Peer(p)], m) \in Seq(Message)
    BY <1>4, PeerType, AppendProperties DEF TypeOK
  <2> QED
    BY <1>1, <2>1 DEF TypeOK
<1>8. sent' \in [Device -> SUBSET Message]
  BY <1>1, <1>4 DEF TypeOK
<1>9. \A q \in Device : IsFiniteSet(sent'[q])
  BY <1>1, FS_AddElement DEF TypeOK
<1> QED
  BY <1>1, <1>5, <1>6, <1>7, <1>8, <1>9 DEF TypeOK

\* Every step keeps the state well formed.
LEMMA NextType ==
  TypeOK /\ [Next]_vars => TypeOK'
<1> SUFFICES ASSUME TypeOK, [Next]_vars PROVE TypeOK'
  OBVIOUS
<1>1. ASSUME NEW p \in Device, Send(p) PROVE TypeOK'
  BY <1>1, SendType
<1>2. ASSUME NEW p \in Device, Deliver(p) PROVE TypeOK'
  <2>1. PICK i \in Deliverable(p) :
          /\ Receive(p, net[p][i])
          /\ net' = [net EXCEPT ![p] = RemoveAt(@, i)]
          /\ UNCHANGED replays
    BY <1>2 DEF Deliver
  <2>2. i \in DOMAIN net[p]
    BY DEF Deliverable
  <2>3. net[p][i] \in Message /\ net' \in [Device -> Seq(Message)]
    BY <2>1, <2>2, NetWithoutType
  <2> QED
    BY <2>1, <2>3, ReceiveType DEF TypeOK
<1>3. ASSUME NEW p \in Device, Lose(p) PROVE TypeOK'
  BY <1>3, NetWithoutType DEF Lose, TypeOK
<1>4. ASSUME NEW p \in Device, Replay(p) PROVE TypeOK'
  <2>1. PICK m \in received[p] :
          Receive(p, m) /\ replays' = replays + 1 /\ UNCHANGED net
    BY <1>4 DEF Replay
  <2>2. m \in Message
    BY DEF TypeOK
  <2> QED
    BY <2>1, <2>2, ReceiveType DEF TypeOK
<1>5. CASE UNCHANGED vars
  BY <1>5 DEF vars, TypeOK
<1> QED
  BY <1>1, <1>2, <1>3, <1>4, <1>5 DEF Next

\* Every state the pair of devices reaches is well formed: what encrypt, decrypt
\* and new_bob make of a session is a session again.
THEOREM TypeCorrect == Spec => []TypeOK
<1>1. Init => TypeOK
  BY InitType
<1>2. TypeOK /\ [Next]_vars => TypeOK'
  BY NextType
<1> QED
  BY <1>1, <1>2, PTL DEF Spec

-----------------------------------------------------------------------------
\* A delivery stores at most two jumps of skipped keys; encrypt stores none.
THEOREM SkippedBounded == Spec => SkippedKeysBounded
<1> DEFINE Bounded(p) ==
      session[p] # None /\ session'[p] # None =>
        Len(session'[p].skipped_message_keys)
          <= Len(session[p].skipped_message_keys) + 2 * MAX_FORWARD_JUMPS
<1>1. ASSUME TypeOK, [Next]_vars PROVE [\A p \in Device : Bounded(p)]_vars
  <2>1. ASSUME NEW p \in Device, session'[p] = session[p] PROVE Bounded(p)
    <3>1. MAX_FORWARD_JUMPS \in Nat
      BY MaxForwardJumpsAssumption
    <3>2. session[p] # None => Len(session[p].skipped_message_keys) \in Nat
      BY <1>1, LenProperties DEF TypeOK, IsSession
    <3>3. \A a, c \in Nat : a <= a + 2 * c
      OBVIOUS
    <3> QED
      BY <2>1, <3>1, <3>2, <3>3
  <2>2. ASSUME NEW p \in Device, NEW m \in Message, Receive(p, m)
        PROVE  \A q \in Device : Bounded(q)
    <3>1. session' = [session EXCEPT ![p] = DecryptMessage(p, m).session]
      BY <2>2 DEF Receive
    <3>2. DOMAIN session = Device
      BY <1>1 DEF TypeOK
    <3>3. session'[p] = DecryptMessage(p, m).session
          /\ \A q \in Device : q # p => session'[q] = session[q]
      BY <3>1, <3>2
    <3>4. Bounded(p)
      BY <1>1, <3>3, DecryptMessageType
    <3> HIDE DEF Bounded
    <3> QED
      BY <2>1, <3>3, <3>4
  <2>3. ASSUME NEW p \in Device, Send(p) PROVE \A q \in Device : Bounded(q)
    <3> DEFINE fresh == <<p, generated[p]>>
    <3>1. /\ session[p] # None
          /\ session' = [session EXCEPT ![p] = AfterEncrypt(session[p], fresh)]
      BY <2>3 DEF Send
    <3>2. DOMAIN session = Device /\ IsSession(session[p])
      BY <1>1, <3>1 DEF TypeOK
    <3> HIDE DEF fresh
    <3>3. AfterEncrypt(session[p], fresh).skipped_message_keys = session[p].skipped_message_keys
      BY <3>2, EncryptFrame
    <3>4. session'[p].skipped_message_keys = session[p].skipped_message_keys
          /\ \A q \in Device : q # p => session'[q] = session[q]
      BY <3>1, <3>2, <3>3
    <3>5. Bounded(p)
      <4>1. Len(session[p].skipped_message_keys) \in Nat /\ MAX_FORWARD_JUMPS \in Nat
        BY <3>2, MaxForwardJumpsAssumption, LenProperties DEF IsSession
      <4>2. \A a, c \in Nat : a <= a + 2 * c
        OBVIOUS
      <4> QED
        BY <3>4, <4>1, <4>2
    <3> HIDE DEF Bounded
    <3> QED
      BY <2>1, <3>4, <3>5
  <2>4. ASSUME NEW p \in Device, Deliver(p) PROVE \A q \in Device : Bounded(q)
    <3>1. PICK i \in DOMAIN net[p] : Receive(p, net[p][i])
      BY <2>4 DEF Deliver, Deliverable
    <3>2. net[p][i] \in Message
      BY <1>1, NetWithoutType
    <3> HIDE DEF Bounded
    <3> QED
      BY <2>2, <3>1, <3>2
  <2>5. ASSUME NEW p \in Device, Replay(p) PROVE \A q \in Device : Bounded(q)
    <3>1. PICK m \in received[p] : Receive(p, m)
      BY <2>5 DEF Replay
    <3>2. m \in Message
      BY <1>1 DEF TypeOK
    <3> HIDE DEF Bounded
    <3> QED
      BY <2>2, <3>1, <3>2
  <2>6. ASSUME NEW p \in Device, Lose(p) PROVE \A q \in Device : Bounded(q)
    <3>1. session' = session
      BY <2>6 DEF Lose
    <3> HIDE DEF Bounded
    <3> QED
      BY <2>1, <3>1
  <2> HIDE DEF Bounded
  <2> QED
    BY <1>1, <2>3, <2>4, <2>5, <2>6 DEF Next
<1>2. Spec => []TypeOK
  BY TypeCorrect
<1> QED
  BY <1>1, <1>2, PTL DEF Spec, SkippedKeysBounded

-----------------------------------------------------------------------------
\* No message key is used twice: KeyInv is inductive.

\* A chain key ends in one Diffie-Hellman output,
LEMMA EndsInUnique ==
  ASSUME NEW root, NEW dh1, NEW dh2, EndsIn(root, dh1), EndsIn(root, dh2)
  PROVE  dh1 = dh2
BY DEF EndsIn

\* the one kdf_root derived it with.
LEMMA KdfRootEnds ==
  ASSUME NEW root \in RootKey, NEW k1 \in Key, NEW k2 \in Key
  PROVE  EndsIn(KdfRoot(root, DiffieHellman(k1, k2)), DiffieHellman(k1, k2))
<1> DEFINE dh == DiffieHellman(k1, k2)
<1>1. dh \in SUBSET Key /\ root \in Seq(SUBSET Key)
  BY DEF DiffieHellman, RootKey
<1> HIDE DEF dh
<1>2. /\ Append(root, dh) # <<>>
      /\ Len(Append(root, dh)) = Len(root) + 1
      /\ Append(root, dh)[Len(root) + 1] = dh
  BY <1>1, AppendProperties
<1>3. Append(root, dh)[Len(Append(root, dh))] = dh
  BY <1>2
<1> QED
  BY <1>2, <1>3 DEF EndsIn, KdfRoot, dh

\* Each chain of a device ends in a pair of one of its keys and a known one of
\* its peer.
LEMMA ChainKeysEnd ==
  ASSUME TypeOK, KeyInv, NEW q \in Device, NEW c \in ChainKeys(q)
  PROVE  \E k, x : /\ k[1] = q /\ x[1] = Peer(q) /\ x[2] < generated[Peer(q)]
                   /\ EndsIn(c, DiffieHellman(k, x))
<1>1. CASE \E m \in sent[q] : c = m.keys[1]
  <2>1. PICK m \in sent[q] : c = m.keys[1]
    BY <1>1
  <2>2. SentInv(q, m)
    BY DEF KeyInv
  <2>3. PICK x \in {Peer(q)} \X (0 .. generated[Peer(q)] - 1) :
          EndsIn(c, DiffieHellman(m.ratchet_key, x))
    BY <2>1, <2>2 DEF SentInv
  <2>4. x[1] = Peer(q) /\ x[2] \in 0 .. generated[Peer(q)] - 1
    OBVIOUS
  <2>5. generated[Peer(q)] \in Nat
    BY PeerType DEF TypeOK
  <2>6. x[2] < generated[Peer(q)]
    BY <2>4, <2>5
  <2> QED
    BY <2>2, <2>3, <2>4, <2>6 DEF SentInv, Known
<1>2. CASE session[q] # None /\ session[q].our_ratchet_key[2] >= 2
           /\ c = session[q].sending_chain.key
  <2>1. SessionInv(q, session[q])
    BY <1>2 DEF KeyInv
  <2> QED
    BY <1>2, <2>1 DEF SessionInv, Known
<1> QED
  BY <1>1, <1>2 DEF ChainKeys

\* What encrypt does to the keys, whether or not it starts a chain: the message
\* continues the chain the session is left with, and that chain is no one else's.
LEMMA SendKeys ==
  ASSUME TypeOK, KeyInv, NEW p \in Device, Send(p)
  PROVE  LET s == session[p]
             e == session'[p]
             m == EncryptedMessage(s, <<p, generated[p]>>, Cardinality(sent[p]) + 1)
         IN  /\ m.ratchet_key = e.our_ratchet_key /\ e.our_ratchet_key[2] >= 2
             /\ e.our_ratchet_key[1] = p /\ e.our_ratchet_key[2] < generated'[p]
             /\ m.keys = <<e.sending_chain.key, m.counter>>
             /\ m.counter \in Nat /\ e.sending_chain.index = m.counter + 1
             /\ m.pre_key = s.pending_pre_key /\ e.pending_pre_key = None
             /\ e.their_ratchet_key = s.their_ratchet_key
             /\ Known(e.sending_chain_remote_key, Peer(p))
             /\ e.sending_chain_remote_key \in Key
             /\ EndsIn(e.sending_chain.key,
                       DiffieHellman(e.our_ratchet_key, e.sending_chain_remote_key))
             /\ \A n \in sent[p] : n.ratchet_key = e.our_ratchet_key =>
                  n.keys[1] = e.sending_chain.key /\ n.counter < m.counter
             /\ e.sending_chain.key \notin ChainKeys(Peer(p))
<1> DEFINE s     == session[p]
           fresh == <<p, generated[p]>>
           m     == EncryptedMessage(s, fresh, Cardinality(sent[p]) + 1)
           t     == RatchetIfNeeded(s, fresh)
           e     == AfterEncrypt(s, fresh)
           root  == KdfRoot(s.root_key, DiffieHellman(fresh, s.their_ratchet_key))
<1>1. /\ IsSession(s) /\ s # None /\ SessionInv(p, s)
      /\ session' = [session EXCEPT ![p] = e]
      /\ generated' = [generated EXCEPT ![p] = IF NeedsRatchet(s) THEN @ + 1 ELSE @]
  BY DEF Send, TypeOK, KeyInv
<1>2. session'[p] = e /\ generated[p] \in Nat /\ generated[p] >= FirstGenerated
      /\ generated'[p] = IF NeedsRatchet(s) THEN generated[p] + 1 ELSE generated[p]
  BY <1>1 DEF TypeOK, KeyInv
<1>3. fresh \in Key /\ s.our_ratchet_key \in Key /\ s.their_ratchet_key \in Key
      /\ s.sending_chain_remote_key \in Key /\ s.sending_chain \in Chain
  BY <1>1, <1>2 DEF IsSession, Key
<1>4. /\ m.ratchet_key = t.our_ratchet_key
      /\ m.counter = t.sending_chain.index
      /\ m.keys = <<t.sending_chain.key, t.sending_chain.index>>
      /\ m.pre_key = s.pending_pre_key
  BY DEF EncryptedMessage, MessageKeys
<1>5. /\ e.our_ratchet_key = t.our_ratchet_key
      /\ e.their_ratchet_key = s.their_ratchet_key
      /\ e.sending_chain_remote_key = t.sending_chain_remote_key
      /\ e.sending_chain = [t.sending_chain EXCEPT !.index = @ + 1]
      /\ e.pending_pre_key = None
  BY <1>1, EncryptFrame
<1>6. /\ t.sending_chain \in Chain
      /\ t.our_ratchet_key[2] >= 2 /\ t.our_ratchet_key[1] = p
      /\ t.our_ratchet_key[2] < generated'[p]
      /\ Known(t.sending_chain_remote_key, Peer(p)) /\ t.sending_chain_remote_key \in Key
      /\ EndsIn(t.sending_chain.key, DiffieHellman(t.our_ratchet_key, t.sending_chain_remote_key))
      /\ \A n \in sent[p] : n.ratchet_key = t.our_ratchet_key =>
           n.keys[1] = t.sending_chain.key /\ n.counter < t.sending_chain.index
      /\ t.sending_chain.key \notin ChainKeys(Peer(p))
  <2>1. CASE NeedsRatchet(s)
    <3>1. root \in RootKey /\ NewChain(root, 0) \in Chain
      BY <1>1, <1>3, KdfRootType DEF IsSession
    <3>2. s.sending_chain.index \in Nat
      BY <1>3 DEF Chain
    <3>3. /\ t.our_ratchet_key = fresh
          /\ t.sending_chain = NewChain(root, s.sending_chain.index)
          /\ t.sending_chain_remote_key = s.their_ratchet_key
      <4>1. HasFields(s)
        BY <1>1 DEF IsSession, HasFields
      <4> HIDE DEF s
      <4> QED
        BY <2>1, <4>1 DEF RatchetIfNeeded, HasFields
    <3>4. t.sending_chain.key = root /\ t.sending_chain \in Chain
      BY <3>1, <3>2, <3>3 DEF NewChain, Chain
    <3>5. fresh[1] = p /\ fresh[2] = generated[p] /\ fresh[2] >= 2 /\ fresh[2] < generated'[p]
      BY <1>2, <2>1 DEF FirstGenerated
    <3>6. EndsIn(root, DiffieHellman(fresh, s.their_ratchet_key))
      BY <1>1, <1>3, KdfRootEnds DEF IsSession
    <3>7. \A n \in sent[p] : n.ratchet_key # fresh
      <4> SUFFICES ASSUME NEW n \in sent[p] PROVE n.ratchet_key # fresh
        OBVIOUS
      <4>1. n.ratchet_key[2] < generated[p]
        BY DEF KeyInv, SentInv, Known
      <4> QED
        BY <1>2, <3>5, <4>1
    <3>8. root \notin ChainKeys(Peer(p))
      <4> SUFFICES ASSUME root \in ChainKeys(Peer(p)) PROVE FALSE
        OBVIOUS
      <4>1. PICK k, x : /\ k[1] = Peer(p) /\ x[1] = p /\ x[2] < generated[p]
                        /\ EndsIn(root, DiffieHellman(k, x))
        BY ChainKeysEnd, PeerType
      <4>2. DiffieHellman(k, x) = DiffieHellman(fresh, s.their_ratchet_key)
        BY <3>6, <4>1, EndsInUnique
      <4>3. fresh = k \/ fresh = x
        BY <4>2 DEF DiffieHellman
      <4>4. fresh[1] # k[1]
        BY <3>5, <4>1, PeerType
      <4>5. fresh[2] # x[2]
        BY <1>2, <3>5, <4>1
      <4> QED
        BY <4>3, <4>4, <4>5
    <3>9. Known(s.their_ratchet_key, Peer(p))
      BY <1>1 DEF SessionInv
    <3> HIDE DEF s, fresh, t, root
    <3> QED
      BY <1>3, <3>3, <3>4, <3>5, <3>6, <3>7, <3>8, <3>9
  <2>2. CASE ~NeedsRatchet(s)
    <3>1. t = s
      BY <2>2 DEF RatchetIfNeeded
    <3>2. s.our_ratchet_key[2] >= 2
      <4>1. s.sending_chain_remote_key = s.their_ratchet_key
        BY <2>2 DEF NeedsRatchet
      <4>2. s.our_ratchet_key[2] < 2 =>
              s.sending_chain_remote_key[2] < 2 /\ s.their_ratchet_key[2] >= 2
        BY <1>1 DEF SessionInv
      <4>3. s.our_ratchet_key[2] \in Nat /\ s.their_ratchet_key[2] \in Nat
        BY <1>3 DEF Key
      <4> QED
        BY <4>1, <4>2, <4>3
    <3>3. s.sending_chain.key \in ChainKeys(p)
      BY <1>1, <3>2 DEF ChainKeys
    <3>4. s.sending_chain.key \notin ChainKeys(Peer(p))
      BY <3>3, DeviceAssumption DEF KeyInv, Peer
    <3>5. s.our_ratchet_key[1] = p /\ s.our_ratchet_key[2] < generated'[p]
      BY <1>1, <1>2, <2>2 DEF SessionInv, Known
    <3> HIDE DEF s, t
    <3> QED
      BY <1>1, <1>3, <3>1, <3>2, <3>4, <3>5 DEF SessionInv
  <2> QED
    BY <2>1, <2>2
<1>7. /\ e.sending_chain.key = t.sending_chain.key
      /\ e.sending_chain.index = t.sending_chain.index + 1
      /\ t.sending_chain.index \in Nat
  BY <1>5, <1>6 DEF Chain
<1> HIDE DEF s, fresh, m, t, e
<1>8. /\ m.ratchet_key = e.our_ratchet_key /\ e.our_ratchet_key[2] >= 2
      /\ e.our_ratchet_key[1] = p /\ e.our_ratchet_key[2] < generated'[p]
      /\ m.keys = <<e.sending_chain.key, m.counter>>
      /\ m.counter \in Nat /\ e.sending_chain.index = m.counter + 1
      /\ m.pre_key = s.pending_pre_key /\ e.pending_pre_key = None
      /\ e.their_ratchet_key = s.their_ratchet_key
  BY <1>4, <1>5, <1>6, <1>7
<1>9. /\ Known(e.sending_chain_remote_key, Peer(p))
      /\ e.sending_chain_remote_key \in Key
      /\ EndsIn(e.sending_chain.key,
                DiffieHellman(e.our_ratchet_key, e.sending_chain_remote_key))
      /\ \A n \in sent[p] : n.ratchet_key = e.our_ratchet_key =>
           n.keys[1] = e.sending_chain.key /\ n.counter < m.counter
      /\ e.sending_chain.key \notin ChainKeys(Peer(p))
  BY <1>4, <1>5, <1>6, <1>7
<1> QED
  BY <1>2, <1>8, <1>9 DEF s, m, fresh

\* More keys generated leaves what was known of a message true,
LEMMA SentInvMonotone ==
  ASSUME TypeOK, NEW q \in Device, NEW m \in Message, SentInv(q, m),
         \A r \in Device : generated'[r] \in Nat /\ generated'[r] >= generated[r]
  PROVE  SentInv(q, m)'
<1>1. Peer(q) \in Device /\ m.ratchet_key \in Key
  BY PeerType DEF Message
<1>2. generated[q] \in Nat /\ generated[Peer(q)] \in Nat
  BY <1>1 DEF TypeOK
<1>3. generated'[q] \in Nat /\ generated'[q] >= generated[q]
      /\ generated'[Peer(q)] \in Nat /\ generated'[Peer(q)] >= generated[Peer(q)]
  BY <1>1
<1>4. m.ratchet_key[2] < generated'[q]
  BY <1>1, <1>2, <1>3 DEF SentInv, Known, Key
<1>5. 0 .. generated[Peer(q)] - 1 \subseteq 0 .. generated'[Peer(q)] - 1
  BY <1>2, <1>3
<1> QED
  BY <1>4, <1>5 DEF SentInv, Known

\* and of the session of a device that has sent nothing meanwhile.
LEMMA SessionInvMonotone ==
  ASSUME TypeOK, NEW q \in Device, NEW s, IsSession(s), SessionInv(q, s),
         \A r \in Device : generated'[r] \in Nat /\ generated'[r] >= generated[r],
         sent'[q] = sent[q]
  PROVE  SessionInv(q, s)'
<1>1. /\ Peer(q) \in Device
      /\ s.our_ratchet_key \in Key /\ s.their_ratchet_key \in Key
      /\ s.sending_chain_remote_key \in Key
  BY PeerType DEF IsSession
<1>2. generated[q] \in Nat /\ generated[Peer(q)] \in Nat
  BY <1>1 DEF TypeOK
<1>3. generated'[q] \in Nat /\ generated'[q] >= generated[q]
      /\ generated'[Peer(q)] \in Nat /\ generated'[Peer(q)] >= generated[Peer(q)]
  BY <1>1
<1>4. s.our_ratchet_key[2] < generated'[q]
  BY <1>1, <1>2, <1>3 DEF SessionInv, Known, Key
<1>5. s.their_ratchet_key[2] < generated'[Peer(q)]
  BY <1>1, <1>2, <1>3 DEF SessionInv, Known, Key
<1>6. s.sending_chain_remote_key[2] < generated'[Peer(q)]
  BY <1>1, <1>2, <1>3 DEF SessionInv, Known, Key
<1> QED
  BY <1>4, <1>5, <1>6 DEF SessionInv, Known

\* Sending keeps KeyInv: encrypt continues the chain or starts one that is new.
LEMMA SendKeyInv ==
  ASSUME TypeOK, TypeOK', KeyInv, NEW p \in Device, Send(p)
  PROVE  KeyInv'
<1>0. PICK s, e, m :
        /\ s = session[p] /\ e = session'[p]
        /\ m = EncryptedMessage(s, <<p, generated[p]>>, Cardinality(sent[p]) + 1)
  OBVIOUS
<1>1. /\ sent' = [sent EXCEPT ![p] = sent[p] \cup {m}]
      /\ net' = [net EXCEPT ![Peer(p)] = Append(net[Peer(p)], m)]
      /\ received' = received
      /\ \A q \in Device : q # p => session'[q] = session[q]
      /\ generated' = [generated EXCEPT ![p] = IF NeedsRatchet(s) THEN @ + 1 ELSE @]
      /\ s # None
  BY <1>0 DEF Send, TypeOK
<1>2. /\ m.ratchet_key = e.our_ratchet_key /\ e.our_ratchet_key[2] >= 2
      /\ e.our_ratchet_key[1] = p /\ e.our_ratchet_key[2] < generated'[p]
      /\ m.keys = <<e.sending_chain.key, m.counter>>
      /\ m.counter \in Nat /\ e.sending_chain.index = m.counter + 1
      /\ m.pre_key = s.pending_pre_key /\ e.pending_pre_key = None
      /\ e.their_ratchet_key = s.their_ratchet_key
      /\ Known(e.sending_chain_remote_key, Peer(p))
      /\ e.sending_chain_remote_key \in Key
      /\ EndsIn(e.sending_chain.key,
                DiffieHellman(e.our_ratchet_key, e.sending_chain_remote_key))
      /\ \A n \in sent[p] : n.ratchet_key = e.our_ratchet_key =>
           n.keys[1] = e.sending_chain.key /\ n.counter < m.counter
      /\ e.sending_chain.key \notin ChainKeys(Peer(p))
  BY <1>0, SendKeys
<1>3. \A r \in Device : /\ generated[r] \in Nat /\ generated'[r] \in Nat
                        /\ generated'[r] >= generated[r]
  BY <1>1 DEF TypeOK
<1>4. sent'[p] = sent[p] \cup {m} /\ \A q \in Device : q # p => sent'[q] = sent[q]
  BY <1>1 DEF TypeOK
<1>5. \A q \in Device : sent[q] \subseteq Message /\ sent'[q] \subseteq Message
  BY DEF TypeOK
<1>6. /\ Peer(p) \in Device /\ Peer(p) # p /\ Peer(Peer(p)) = p
      /\ \A q \in Device : q # p => q = Peer(p)
  BY DeviceAssumption DEF Peer
<1>7. SessionInv(p, s) /\ IsSession(s)
  BY <1>0, <1>1 DEF KeyInv, TypeOK
<1>9. SentInv(p, m)'
  <2>1. m \in Message
    BY <1>4, <1>5
  <2>2. m.keys[2] = m.counter /\ m.keys[1] = e.sending_chain.key
    BY <1>2
  <2>3. Known(m.ratchet_key, p)' /\ m.ratchet_key[2] >= 2
    BY <1>2 DEF Known
  <2>4. generated'[Peer(p)] = generated[Peer(p)]
    BY <1>1, <1>6 DEF TypeOK
  <2>5. e.sending_chain_remote_key \in {Peer(p)} \X (0 .. generated'[Peer(p)] - 1)
    <3>1. PICK a \in Device, b \in Nat : e.sending_chain_remote_key = <<a, b>>
      BY <1>2 DEF Key
    <3>2. a = Peer(p) /\ b < generated'[Peer(p)]
      BY <1>2, <2>4, <3>1 DEF Known
    <3>3. b \in 0 .. generated'[Peer(p)] - 1
      BY <1>3, <1>6, <3>2
    <3> QED
      BY <3>1, <3>2, <3>3
  <2>6. EndsIn(m.keys[1], DiffieHellman(m.ratchet_key, e.sending_chain_remote_key))
    BY <1>2, <2>2
  <2>7. m.pre_key # None => IsBobPreKey(p, m.pre_key)
    BY <1>2, <1>7 DEF SessionInv
  <2> QED
    BY <2>2, <2>3, <2>5, <2>6, <2>7 DEF SentInv
<1>10. \A q \in Device : \A n \in sent'[q] : SentInv(q, n)'
  <2> SUFFICES ASSUME NEW q \in Device, NEW n \in sent'[q] PROVE SentInv(q, n)'
    OBVIOUS
  <2>1. CASE q = p /\ n = m
    BY <1>9, <2>1
  <2>2. CASE n \in sent[q]
    <3>1. SentInv(q, n) /\ n \in Message
      BY <2>2, <1>5 DEF KeyInv
    <3> QED
      BY <3>1, <1>3, SentInvMonotone
  <2> QED
    BY <1>4, <2>1, <2>2
<1>11. \A q \in Device : \A n, o \in sent'[q] :
         n.ratchet_key = o.ratchet_key /\ n.counter = o.counter => n = o
  <2>1. \A n \in sent[p] : n.ratchet_key = m.ratchet_key => n.counter # m.counter
    <3> SUFFICES ASSUME NEW n \in sent[p], n.ratchet_key = m.ratchet_key
                 PROVE  n.counter # m.counter
      OBVIOUS
    <3>1. n.counter < m.counter /\ m.counter \in Nat
      BY <1>2
    <3> QED
      BY <3>1
  <2> QED
    BY <1>4, <2>1 DEF KeyInv
<1>12. SessionInv(p, e)' /\ e.our_ratchet_key[2] >= 2
  <2>1. /\ Known(e.our_ratchet_key, p)'
        /\ \A n \in sent'[p] : n.ratchet_key = e.our_ratchet_key =>
             n.keys[1] = e.sending_chain.key /\ n.counter < e.sending_chain.index
    <3>1. \A n \in sent[p] : n.counter \in Nat
      BY <1>5 DEF Message
    <3> QED
      BY <1>2, <1>4, <3>1 DEF Known
  <2>2. generated'[Peer(p)] = generated[Peer(p)]
    BY <1>1, <1>6 DEF TypeOK
  <2>3. Known(e.their_ratchet_key, Peer(p))' /\ Known(e.sending_chain_remote_key, Peer(p))'
    BY <1>2, <1>7, <2>2 DEF SessionInv, Known
  <2>4. ~(e.our_ratchet_key[2] < 2)
    <3>1. e.our_ratchet_key[2] \in Nat
      <4>1. m \in Message
        BY <1>4, <1>5
      <4> QED
        BY <1>2, <4>1 DEF Message, Key
    <3> QED
      BY <1>2, <3>1
  <2> QED
    BY <1>2, <2>1, <2>3, <2>4 DEF SessionInv
<1>13. \A q \in Device : (session[q] # None => SessionInv(q, session[q]))'
  <2> SUFFICES ASSUME NEW q \in Device
               PROVE  (session[q] # None => SessionInv(q, session[q]))'
    OBVIOUS
  <2>1. CASE q = p
    <3>1. session'[q] = e
      BY <1>0, <2>1
    <3> QED
      BY <1>12, <2>1, <3>1 DEF SessionInv, Known
  <2>2. CASE q # p
    <3>1. PICK z : z = session[q]
      OBVIOUS
    <3>2. session'[q] = z /\ sent'[q] = sent[q]
      BY <1>1, <1>4, <2>2, <3>1
    <3>3. z # None => SessionInv(q, z) /\ IsSession(z)
      BY <3>1 DEF KeyInv, TypeOK
    <3>4. z # None => SessionInv(q, z)'
      BY <3>3, <3>2, <1>3, SessionInvMonotone
    <3> QED
      BY <3>2, <3>4 DEF SessionInv, Known
  <2> QED
    BY <2>1, <2>2
<1>14. \A q \in Device : net'[q] \in Seq(sent'[Peer(q)])
  <2> SUFFICES ASSUME NEW q \in Device PROVE net'[q] \in Seq(sent'[Peer(q)])
    OBVIOUS
  <2>1. net[q] \in Seq(sent[Peer(q)])
    BY DEF KeyInv
  <2>2. CASE q = p
    <3>1. net'[q] = net[q] /\ sent'[Peer(q)] = sent[Peer(q)]
      BY <1>1, <1>4, <1>6, <2>2 DEF TypeOK
    <3> QED
      BY <2>1, <3>1
  <2>3. CASE q = Peer(p)
    <3>1. net'[q] = Append(net[q], m) /\ sent'[Peer(q)] = sent[Peer(q)] \cup {m}
      BY <1>1, <1>4, <1>6, <2>3 DEF TypeOK
    <3>2. net[q] \in Seq(sent[Peer(q)] \cup {m})
      BY <2>1, SeqMonotonic
    <3> QED
      BY <3>1, <3>2, AppendProperties
  <2> QED
    BY <1>6, <2>2, <2>3
<1>15. ChainKeys(Alice)' \cap ChainKeys(Bob)' = {}
  <2>1. ChainKeys(p)' \subseteq ChainKeys(p) \cup {e.sending_chain.key}
    BY <1>0, <1>2, <1>4 DEF ChainKeys
  <2>2. ChainKeys(Peer(p))' = ChainKeys(Peer(p))
    BY <1>1, <1>4, <1>6 DEF ChainKeys
  <2>3. ChainKeys(p) \cap ChainKeys(Peer(p)) = {}
    BY DeviceAssumption DEF KeyInv, Peer
  <2>4. ChainKeys(p)' \cap ChainKeys(Peer(p))' = {}
    BY <1>2, <2>1, <2>2, <2>3
  <2> QED
    BY <2>4, DeviceAssumption DEF Peer
<1>16. \A q \in Device : generated'[q] >= FirstGenerated /\ received'[q] \subseteq sent'[Peer(q)]
  <2> SUFFICES ASSUME NEW q \in Device
               PROVE generated'[q] >= FirstGenerated /\ received'[q] \subseteq sent'[Peer(q)]
    OBVIOUS
  <2>1. generated[q] >= FirstGenerated /\ received[q] \subseteq sent[Peer(q)]
    BY DEF KeyInv
  <2>2. generated'[q] >= FirstGenerated
    BY <2>1, <1>3 DEF FirstGenerated
  <2>3. sent[Peer(q)] \subseteq sent'[Peer(q)]
    BY <1>4, PeerType
  <2> QED
    BY <2>1, <2>2, <2>3, <1>1
<1> QED
  BY <1>10, <1>11, <1>13, <1>14, <1>15, <1>16 DEF KeyInv

\* What arrives never touches a sending chain: a session is left with the one it
\* had, or is a new one that has to ratchet before it sends.
LEMMA DecryptKeys ==
  ASSUME TypeOK, KeyInv, NEW p \in Device, NEW m \in sent[Peer(p)]
  PROVE  LET d == DecryptMessage(p, m).session
         IN  d # None => /\ SessionInv(p, d)
                         /\ d.our_ratchet_key[2] >= 2 =>
                              /\ session[p] # None
                              /\ d.our_ratchet_key = session[p].our_ratchet_key
                              /\ d.sending_chain = session[p].sending_chain
<1> DEFINE s == session[p]
           d == DecryptMessage(p, m).session
<1>1. /\ Peer(p) \in Device /\ Peer(p) # p /\ m \in Message
      /\ s # None => IsSession(s) /\ SessionInv(p, s)
      /\ SentInv(Peer(p), m)
  BY PeerType DEF TypeOK, KeyInv
<1>2. m.ratchet_key \in Key /\ Known(m.ratchet_key, Peer(p)) /\ m.ratchet_key[2] >= 2
  BY <1>1 DEF SentInv, Message
<1>3. CASE m.pre_key # None
  <2> DEFINE b   == BobInitial(IdentityKey(p), m.pre_key.signed_pre_key,
                                m.pre_key.pre_key, m.pre_key)
             new == Decrypt(b, m).session
  <2>1. m.pre_key \in PreKey /\ IsBobPreKey(Peer(p), m.pre_key) /\ p = Bob /\ Peer(p) = Alice
    BY <1>1, <1>3, DeviceAssumption DEF SentInv, IsBobPreKey, Peer, Message
  <2>2. IsSession(b)
    <3>1. IdentityKey(p) \in Key /\ m.pre_key.signed_pre_key \in Key /\ m.pre_key.pre_key \in Key
      BY <2>1 DEF IdentityKey, Key, PreKey
    <3> QED
      BY <2>1, <3>1, BobInitialType
  <2>3. /\ b.our_ratchet_key = SignedPreKey /\ b.sending_chain_remote_key = AliceBaseKey
        /\ b.pending_pre_key = None /\ DOMAIN b.receiving_chains = {}
    BY <2>1 DEF BobInitial, IsBobPreKey
  <2>4. /\ new.our_ratchet_key = SignedPreKey
        /\ new.sending_chain_remote_key = AliceBaseKey
        /\ new.pending_pre_key = None
        /\ new.their_ratchet_key = m.ratchet_key
    <3> HIDE DEF b
    <3> QED
      BY <1>1, <2>2, <2>3, DecryptFrame
  <2>5. SessionInv(p, new) /\ ~(new.our_ratchet_key[2] >= 2)
    <3>1. generated[Alice] \in Nat /\ generated[Alice] >= FirstGenerated
          /\ generated[Bob] \in Nat /\ generated[Bob] >= FirstGenerated
      BY DeviceAssumption DEF TypeOK, KeyInv
    <3>2. Known(SignedPreKey, Bob) /\ Known(AliceBaseKey, Alice)
      BY <3>1 DEF Known, SignedPreKey, AliceBaseKey, FirstGenerated
    <3>3. SignedPreKey[2] = 1 /\ AliceBaseKey[2] = 1
      BY DEF SignedPreKey, AliceBaseKey
    <3>4. \A n \in sent[p] : n.ratchet_key # SignedPreKey
      <4> SUFFICES ASSUME NEW n \in sent[p], n.ratchet_key = SignedPreKey PROVE FALSE
        OBVIOUS
      <4>1. n.ratchet_key[2] >= 2
        BY DEF KeyInv, SentInv
      <4> QED
        BY <3>3, <4>1
    <3> HIDE DEF new
    <3> QED
      BY <1>2, <2>1, <2>4, <3>2, <3>3, <3>4 DEF SessionInv
  <2>6. d = new \/ d = s
    <3>1. NewBob(IdentityKey(p), m.pre_key.signed_pre_key, m.pre_key.pre_key, m) = Decrypt(b, m)
      BY DEF NewBob
    <3>2. Decrypt(b, m) = [session |-> new, outcome |-> Decrypt(b, m).outcome]
      <4> HIDE DEF b
      <4> QED
        BY DEF Decrypt, Consume, CheckMac, Fail
    <3>3. [Decrypt(b, m) EXCEPT !.session = s].session = s
      BY <3>2
    <3> HIDE DEF b, new
    <3> QED
      BY <1>3, <3>1, <3>2, <3>3 DEF DecryptMessage, new
  <2> HIDE DEF d, s, new, b
  <2> QED
    BY <1>1, <2>5, <2>6 DEF d, s
<1>4. CASE m.pre_key = None /\ s = None
  BY <1>4 DEF DecryptMessage
<1>5. CASE m.pre_key = None /\ s # None
  <2>1. d = Decrypt(s, m).session
    BY <1>5 DEF DecryptMessage
  <2>2. /\ d.our_ratchet_key = s.our_ratchet_key
        /\ d.sending_chain = s.sending_chain
        /\ d.sending_chain_remote_key = s.sending_chain_remote_key
        /\ d.pending_pre_key = s.pending_pre_key
        /\ d.their_ratchet_key = s.their_ratchet_key \/ d.their_ratchet_key = m.ratchet_key
    <3> HIDE DEF s, d
    <3> QED
      BY <1>1, <1>5, <2>1, DecryptFrame
  <2> HIDE DEF d, s
  <2>3. SessionInv(p, d)
    BY <1>1, <1>2, <1>5, <2>2 DEF SessionInv
  <2> QED
    BY <1>5, <2>2, <2>3 DEF d, s
<1> QED
  BY <1>3, <1>4, <1>5

\* A delivery keeps KeyInv: decrypt never touches a sending chain.
LEMMA ReceiveKeyInv ==
  ASSUME TypeOK, KeyInv, NEW p \in Device, NEW m \in sent[Peer(p)], Receive(p, m),
         \A q \in Device : net'[q] \in Seq(sent[Peer(q)])
  PROVE  KeyInv'
<1>1. PICK d : d = DecryptMessage(p, m).session
  OBVIOUS
<1>2. /\ session'[p] = d /\ \A q \in Device : q # p => session'[q] = session[q]
      /\ generated' = generated /\ sent' = sent
      /\ received' = [received EXCEPT ![p] = received[p] \cup {m}]
  BY <1>1 DEF Receive, TypeOK
<1>3. d # None => /\ SessionInv(p, d)
                  /\ d.our_ratchet_key[2] >= 2 =>
                       /\ session[p] # None
                       /\ d.our_ratchet_key = session[p].our_ratchet_key
                       /\ d.sending_chain = session[p].sending_chain
  BY <1>1, DecryptKeys
<1>4. \A q \in Device : /\ generated'[q] >= FirstGenerated
                        /\ net'[q] \in Seq(sent'[Peer(q)])
                        /\ received'[q] \subseteq sent'[Peer(q)]
  BY <1>2 DEF KeyInv, TypeOK
<1>5. \A q \in Device : \A n \in sent'[q] : SentInv(q, n)'
  BY <1>2 DEF KeyInv, SentInv, Known
<1>6. \A q \in Device : \A n, o \in sent'[q] :
         n.ratchet_key = o.ratchet_key /\ n.counter = o.counter => n = o
  BY <1>2 DEF KeyInv
<1>7. \A q \in Device : (session[q] # None => SessionInv(q, session[q]))'
  <2> SUFFICES ASSUME NEW q \in Device
               PROVE  (session[q] # None => SessionInv(q, session[q]))'
    OBVIOUS
  <2>1. PICK z : z = session'[q]
    OBVIOUS
  <2>2. z # None => SessionInv(q, z)
    BY <1>2, <1>3, <2>1 DEF KeyInv
  <2>3. z # None => SessionInv(q, z)'
    BY <1>2, <2>2 DEF SessionInv, Known
  <2> QED
    BY <2>1, <2>3 DEF SessionInv, Known
<1>8. ChainKeys(Alice)' \cap ChainKeys(Bob)' = {}
  <2>1. ChainKeys(p)' \subseteq ChainKeys(p)
    BY <1>2, <1>3 DEF ChainKeys
  <2>2. \A q \in Device : q # p => ChainKeys(q)' = ChainKeys(q)
    BY <1>2 DEF ChainKeys
  <2> QED
    BY <2>1, <2>2, DeviceAssumption DEF KeyInv
<1> QED
  BY <1>4, <1>5, <1>6, <1>7, <1>8 DEF KeyInv

\* Alice's first chain is made with a key pair of hers; Bob has none.
LEMMA InitKeyInv == Init => KeyInv
<1> SUFFICES ASSUME Init PROVE KeyInv
  OBVIOUS
<1> DEFINE master == X3dhMasterSecretAlice(IdentityKey(Alice), AliceBaseKey, BobBundle)
           root == KdfRoot(master, DiffieHellman(AliceFirstKey, SignedPreKey))
<1>1. PICK a : a = NewAlice(IdentityKey(Alice), BobBundle, AliceBaseKey, AliceFirstKey)
  OBVIOUS
<1>2. /\ session[Alice] = a /\ session[Bob] = None
      /\ \A p \in Device : /\ generated[p] = FirstGenerated /\ net[p] = <<>>
                           /\ sent[p] = {} /\ received[p] = {}
  BY <1>1, DeviceAssumption DEF Init
<1>3. BobBundle.signed_pre_key = SignedPreKey
  BY DEF BobBundle
<1>4. /\ a.our_ratchet_key = AliceFirstKey /\ a.their_ratchet_key = SignedPreKey
      /\ a.sending_chain_remote_key = SignedPreKey
      /\ a.sending_chain.key = root
      /\ a.pending_pre_key.base_key = AliceBaseKey
      /\ a.pending_pre_key.signed_pre_key = SignedPreKey
  <2> HIDE DEF root
  <2> QED
    BY <1>1, <1>3 DEF NewAlice, NewChain, root
<1>5. master \in RootKey /\ AliceFirstKey \in Key /\ SignedPreKey \in Key
  <2>1. Alice \in Device /\ Bob \in Device
    BY DeviceAssumption
  <2> QED
    BY <2>1 DEF X3dhMasterSecretAlice, DiffieHellman, RootKey, BobBundle, IdentityKey,
                SignedPreKey, OneTimePreKey, AliceBaseKey, AliceFirstKey, Key
<1> HIDE DEF master
<1>6. EndsIn(root, DiffieHellman(AliceFirstKey, SignedPreKey))
  BY <1>5, KdfRootEnds
<1> HIDE DEF root
<1>7. SessionInv(Alice, a)
  <2>1. Peer(Alice) = Bob /\ Alice \in Device /\ Bob \in Device
    BY DeviceAssumption DEF Peer
  <2>2. AliceFirstKey[2] = 2 /\ AliceFirstKey[1] = Alice
        /\ SignedPreKey[2] = 1 /\ SignedPreKey[1] = Bob
    BY DEF AliceFirstKey, SignedPreKey
  <2>3. Known(AliceFirstKey, Alice) /\ Known(SignedPreKey, Bob)
    BY <1>2, <2>1, <2>2 DEF Known, FirstGenerated
  <2> QED
    BY <1>2, <1>4, <1>6, <2>1, <2>2, <2>3 DEF SessionInv, IsBobPreKey
<1>8. \A p \in Device : session[p] # None => SessionInv(p, session[p])
  BY <1>2, <1>7, DeviceAssumption
<1>9. ChainKeys(Bob) = {}
  BY <1>2, DeviceAssumption DEF ChainKeys
<1>10. \A p \in Device : net[p] \in Seq(sent[Peer(p)])
  <2>1. <<>> \in Seq({})
    OBVIOUS
  <2> QED
    BY <1>2, <2>1, PeerType
<1>11. FirstGenerated >= FirstGenerated
  BY DEF FirstGenerated
<1> QED
  BY <1>2, <1>8, <1>9, <1>10, <1>11 DEF KeyInv

\* What the network does alone keeps KeyInv.
LEMMA StutterKeyInv ==
  ASSUME KeyInv, UNCHANGED <<session, generated, sent, received>>,
         \A q \in Device : net'[q] \in Seq(sent[Peer(q)])
  PROVE  KeyInv'
<1>1. \A p \in Device : /\ generated'[p] >= FirstGenerated
                        /\ net'[p] \in Seq(sent'[Peer(p)])
                        /\ received'[p] \subseteq sent'[Peer(p)]
                        /\ \A m, n \in sent'[p] :
                             m.ratchet_key = n.ratchet_key /\ m.counter = n.counter => m = n
  BY DEF KeyInv
<1>2. \A p \in Device : \A m \in sent'[p] : SentInv(p, m)'
  BY DEF KeyInv, SentInv, Known
<1>3. \A p \in Device : (session[p] # None => SessionInv(p, session[p]))'
  BY DEF KeyInv, SessionInv, Known
<1>4. ChainKeys(Alice)' \cap ChainKeys(Bob)' = {}
  BY DEF KeyInv, ChainKeys
<1> QED
  BY <1>1, <1>2, <1>3, <1>4 DEF KeyInv

\* Every step keeps KeyInv.
LEMMA NextKeyInv ==
  ASSUME TypeOK, TypeOK', KeyInv, [Next]_vars
  PROVE  KeyInv'
<1>1. ASSUME NEW p \in Device, NEW i \in DOMAIN net[p],
             net' = [net EXCEPT ![p] = RemoveAt(@, i)]
      PROVE  /\ net[p][i] \in sent[Peer(p)]
             /\ \A q \in Device : net'[q] \in Seq(sent[Peer(q)])
  <2>1. net[p] \in Seq(sent[Peer(p)])
    BY DEF KeyInv
  <2>2. i \in 1 .. Len(net[p])
    BY <2>1, LenProperties
  <2>3. net[p][i] \in sent[Peer(p)]
    BY <2>1, <2>2, ElementOfSeq
  <2>4. RemoveAt(net[p], i) \in Seq(sent[Peer(p)])
    BY <2>1, <2>2, RemoveAtType
  <2> QED
    BY <1>1, <2>3, <2>4 DEF KeyInv, TypeOK
<1>2. ASSUME NEW p \in Device, Send(p) PROVE KeyInv'
  BY <1>2, SendKeyInv
<1>3. ASSUME NEW p \in Device, Deliver(p) PROVE KeyInv'
  <2>1. PICK i \in DOMAIN net[p] : /\ Receive(p, net[p][i])
                                   /\ net' = [net EXCEPT ![p] = RemoveAt(@, i)]
    BY <1>3 DEF Deliver, Deliverable
  <2> QED
    BY <1>1, <2>1, ReceiveKeyInv
<1>4. ASSUME NEW p \in Device, Lose(p) PROVE KeyInv'
  <2>1. PICK i \in DOMAIN net[p] : net' = [net EXCEPT ![p] = RemoveAt(@, i)]
    BY <1>4 DEF Lose
  <2>2. UNCHANGED <<session, generated, sent, received>>
    BY <1>4 DEF Lose
  <2>3. \A q \in Device : net'[q] \in Seq(sent[Peer(q)])
    BY <1>1, <2>1
  <2> QED
    BY <2>2, <2>3, StutterKeyInv
<1>5. ASSUME NEW p \in Device, Replay(p) PROVE KeyInv'
  <2>1. PICK m \in received[p] : Receive(p, m) /\ net' = net
    BY <1>5 DEF Replay
  <2>2. m \in sent[Peer(p)] /\ \A q \in Device : net'[q] \in Seq(sent[Peer(q)])
    BY <2>1 DEF KeyInv
  <2> QED
    BY <2>1, <2>2, ReceiveKeyInv
<1>6. CASE UNCHANGED vars
  BY <1>6, StutterKeyInv DEF vars, KeyInv
<1> QED
  BY <1>2, <1>3, <1>4, <1>5, <1>6 DEF Next

\* KeyInv, for any number of messages, any loss, any order of arrival and any
\* number of replays: the keys a device sends with are made from key pairs of its
\* own that it never makes keys from again.
THEOREM KeysFresh == Spec => []KeyInv
<1>1. Spec => []TypeOK
  BY TypeCorrect
<1>2. KeyInv /\ TypeOK /\ TypeOK' /\ [Next]_vars => KeyInv'
  BY NextKeyInv
<1> QED
  BY <1>1, <1>2, InitKeyInv, PTL DEF Spec

\* KeyInv makes two messages with the same key one message.
LEMMA FreshKeysNotReused ==
  ASSUME TypeOK, KeyInv
  PROVE  NoKeyReuse
<1> SUFFICES ASSUME NEW p \in Device, NEW q \in Device,
                    NEW m \in sent[p], NEW n \in sent[q], m.keys = n.keys
             PROVE  m = n
  BY DEF NoKeyReuse
<1>1. CASE p = q
  <2>1. SentInv(p, m) /\ SentInv(p, n)
    BY <1>1 DEF KeyInv
  <2>2. PICK x : x[1] = Peer(p) /\ EndsIn(m.keys[1], DiffieHellman(m.ratchet_key, x))
    BY <2>1 DEF SentInv
  <2>3. PICK y : y[1] = Peer(p) /\ EndsIn(n.keys[1], DiffieHellman(n.ratchet_key, y))
    BY <2>1 DEF SentInv
  <2>4. DiffieHellman(m.ratchet_key, x) = DiffieHellman(n.ratchet_key, y)
    BY <2>2, <2>3, EndsInUnique
  <2>5. m.ratchet_key[1] = p /\ n.ratchet_key[1] = p
    BY <2>1 DEF SentInv, Known
  <2>6. m.ratchet_key = n.ratchet_key
    BY <2>2, <2>3, <2>4, <2>5, PeerType DEF DiffieHellman
  <2>7. m.counter = n.counter
    BY <2>1 DEF SentInv
  <2> QED
    BY <1>1, <2>6, <2>7 DEF KeyInv
<1>2. CASE p # q
  <2>1. m.keys[1] \in ChainKeys(p) /\ m.keys[1] \in ChainKeys(q)
    BY DEF ChainKeys
  <2> QED
    BY <1>2, <2>1, DeviceAssumption DEF KeyInv
<1> QED
  BY <1>1, <1>2

\* encrypt never makes two messages with one message key, whatever arrives in
\* between: for every number of messages and replays and every gap limit.
THEOREM NoReuse == Spec => []NoKeyReuse
BY TypeCorrect, KeysFresh, FreshKeysNotReused, PTL

-----------------------------------------------------------------------------
\* The parts of a session that hold keys.
LEMMA SessionParts ==
  ASSUME NEW s, IsSession(s)
  PROVE  /\ s.receiving_chains \in Chains /\ s.skipped_message_keys \in Seq(Skipped)
         /\ s.root_key \in RootKey /\ Len(s.root_key) \in Nat /\ HasFields(s)
         /\ \A keys : HoldsKey(s, keys) <=> Holds(s.receiving_chains, s.skipped_message_keys, keys)
<1>1. DOMAIN s.receiving_chains \in SUBSET Key /\ s.receiving_chains \in [DOMAIN s.receiving_chains -> Chain]
  BY DEF IsSession
<1>2. s.receiving_chains \in Chains
  BY <1>1 DEF Chains
<1>3. s.skipped_message_keys \in Seq(Skipped) /\ s.root_key \in RootKey /\ HasFields(s)
  BY DEF IsSession, HasFields
<1>4. Len(s.root_key) \in Nat
  BY <1>3, LenProperties DEF RootKey
<1>5. \A keys : HoldsKey(s, keys) <=> Holds(s.receiving_chains, s.skipped_message_keys, keys)
  BY DEF HoldsKey, Holds
<1>6. QED
  BY <1>2, <1>3, <1>4, <1>5

\* maybe_step_receiving_ratchet brings no key back: what the session holds after
\* it was held before or is of a chain longer than the root.
LEMMA StepReads ==
  ASSUME NEW s, IsSession(s), Sound(s), NEW m \in Message
  PROVE  LET t == StepReceivingRatchet(s, m)
         IN  /\ Sound(t) /\ Len(s.root_key) <= Len(t.root_key)
             /\ \A keys \in MessageKey :
                  HoldsKey(t, keys) => HoldsKey(s, keys) \/ Len(s.root_key) < Len(keys[1])
<1> DEFINE t     == StepReceivingRatchet(s, m)
           known == DOMAIN s.receiving_chains
           old   == s.their_ratchet_key
           root  == KdfRoot(s.root_key, DiffieHellman(s.our_ratchet_key, m.ratchet_key))
           later == [k \in (known \ {old}) \cup {m.ratchet_key} |->
                       IF k = m.ratchet_key THEN NewChain(root, 0) ELSE s.receiving_chains[k]]
           more  == IF old \in known
                    THEN s.skipped_message_keys
                           \o FilledKeys(s.receiving_chains[old], m.previous_counter, old)
                    ELSE s.skipped_message_keys
<1>1. /\ s.receiving_chains \in Chains /\ s.skipped_message_keys \in Seq(Skipped)
      /\ s.root_key \in RootKey /\ Len(s.root_key) \in Nat /\ HasFields(s)
      /\ SoundKeys(s.receiving_chains, s.skipped_message_keys, Len(s.root_key))
  BY SessionParts DEF Sound
<1>2. CASE m.ratchet_key \in known
  <2>1. t = s
    BY <1>2 DEF StepReceivingRatchet
  <2> HIDE DEF t
  <2>2. QED
    BY <1>1, <2>1 DEF t
<1>3. CASE m.ratchet_key \notin known
  <2>1. /\ m.ratchet_key \in Key \ known /\ m.previous_counter \in Nat /\ s.our_ratchet_key \in Key
    BY <1>3 DEF Message, IsSession
  <2>2. root \in RootKey /\ NewChain(root, 0) \in Chain
    BY <1>1, <2>1, KdfRootType
  <2>3. Len(root) = Len(s.root_key) + 1
    <3>1. DiffieHellman(s.our_ratchet_key, m.ratchet_key) \in SUBSET Key
      BY <2>1 DEF DiffieHellman
    <3>2. QED
      BY <1>1, <3>1, AppendProperties DEF KdfRoot, RootKey
  <2>4. NewChain(root, 0).key = root
    BY DEF NewChain
  <2>5. t.receiving_chains = later /\ t.skipped_message_keys = more /\ t.root_key = root
    <3>1. t = [s EXCEPT !.root_key = root, !.receiving_chains = later,
                        !.skipped_message_keys = more, !.their_ratchet_key = m.ratchet_key]
      BY <1>3 DEF StepReceivingRatchet
    <3> HIDE DEF t, later, more, root
    <3>2. QED
      BY <1>1, <3>1 DEF HasFields
  <2>6. /\ SoundKeys(later, more, Len(s.root_key) + 1)
        /\ \A keys \in MessageKey : Holds(later, more, keys) =>
             Holds(s.receiving_chains, s.skipped_message_keys, keys) \/ Len(s.root_key) < Len(keys[1])
    <3> DEFINE chain == NewChain(root, 0)
    <3>1. chain \in Chain /\ Len(chain.key) = Len(s.root_key) + 1
      BY <2>2, <2>3, <2>4
    <3>2. /\ later = [k \in (known \ {old}) \cup {m.ratchet_key} |->
                        IF k = m.ratchet_key THEN chain ELSE s.receiving_chains[k]]
          /\ more = IF old \in known
                    THEN s.skipped_message_keys
                           \o FilledKeys(s.receiving_chains[old], m.previous_counter, old)
                    ELSE s.skipped_message_keys
      OBVIOUS
    <3> HIDE DEF chain, later, more, root, old
    <3>3. PICK C, K, n, L, M : C = s.receiving_chains /\ K = s.skipped_message_keys /\ n = Len(s.root_key) /\ L = later /\ M = more
      OBVIOUS
    <3>4. /\ C \in Chains /\ K \in Seq(Skipped) /\ n \in Nat /\ SoundKeys(C, K, n)
          /\ m.ratchet_key \in Key \ DOMAIN C
          /\ Stepped(C, L, old, m.ratchet_key, chain)
          /\ Stored(C, K, M, old, m.previous_counter)
      BY <1>1, <2>1, <3>2, <3>3 DEF Stepped, Stored
    <3>5. /\ SoundKeys(L, M, n + 1)
          /\ \A keys \in MessageKey : Holds(L, M, keys) => Holds(C, K, keys) \/ n < Len(keys[1])
      BY <2>1, <3>1, <3>3, <3>4, StepSound
    <3>6. QED
      BY <3>3, <3>5
  <2>7. \A keys : HoldsKey(t, keys) <=> Holds(later, more, keys)
    <3> HIDE DEF t, later, more
    <3>1. QED
      BY <2>5 DEF HoldsKey, Holds
  <2> HIDE DEF t, later, more, root
  <2>8. Sound(t) /\ Len(s.root_key) <= Len(t.root_key)
    BY <1>1, <2>3, <2>5, <2>6 DEF Sound
  <2>9. QED
    BY <1>1, <2>6, <2>7, <2>8, SessionParts DEF t
<1>4. QED
  BY <1>2, <1>3

\* What decrypt does to the keys a session holds, with the text's keys if it shows it.
Reads(s, c, m) ==
  /\ Sound(c.session) /\ c.session.root_key = s.root_key
  /\ \A keys \in MessageKey : HoldsKey(c.session, keys) => HoldsKey(s, keys)
  /\ c.outcome = "ok" => /\ HoldsKey(s, m.keys) /\ ~HoldsKey(c.session, m.keys)
                         /\ Len(m.keys[1]) <= Len(s.root_key)

\* A step to other chains and skipped keys and the look at the MAC that follows.
LEMMA CheckMacReads ==
  ASSUME NEW s, IsSession(s), NEW t, NEW keys, NEW m, t.root_key = s.root_key,
         SoundKeys(t.receiving_chains, t.skipped_message_keys, Len(s.root_key)),
         \A k \in MessageKey : Holds(t.receiving_chains, t.skipped_message_keys, k) =>
           Holds(s.receiving_chains, s.skipped_message_keys, k),
         Holds(s.receiving_chains, s.skipped_message_keys, keys),
         ~Holds(t.receiving_chains, t.skipped_message_keys, keys),
         Len(keys[1]) <= Len(s.root_key)
  PROVE  Reads(s, CheckMac(t, keys, m), m)
<1>1. CheckMac(t, keys, m).session = t /\ (CheckMac(t, keys, m).outcome = "ok" => keys = m.keys)
  BY DEF CheckMac
<1>2. \A k : HoldsKey(s, k) <=> Holds(s.receiving_chains, s.skipped_message_keys, k)
  BY DEF HoldsKey, Holds
<1>3. \A k : HoldsKey(t, k) <=> Holds(t.receiving_chains, t.skipped_message_keys, k)
  BY DEF HoldsKey, Holds
<1>4. Sound(t)
  BY DEF Sound
<1>5. QED
  BY <1>1, <1>2, <1>3, <1>4 DEF Reads

\* decrypt_signal_message after the ratchet step.
LEMMA ConsumeReads ==
  ASSUME NEW s, IsSession(s), Sound(s), NEW m \in Message, m.ratchet_key \in DOMAIN s.receiving_chains
  PROVE  Reads(s, Consume(s, m), m)
<1> DEFINE chain == s.receiving_chains[m.ratchet_key]
           pos   == Min(SkippedAt(s, m))
           fill  == FillOutcome(chain, m.counter)
<1>1. /\ s.receiving_chains \in Chains /\ s.skipped_message_keys \in Seq(Skipped)
      /\ Len(s.root_key) \in Nat /\ HasFields(s)
      /\ SoundKeys(s.receiving_chains, s.skipped_message_keys, Len(s.root_key))
      /\ m.counter \in Nat
  BY SessionParts DEF Sound, Message
<1>2. ASSUME NEW error, error # "ok" PROVE Reads(s, Fail(s, error), m)
  BY <1>2 DEF Reads, Fail
<1>3. CASE m.counter < chain.index /\ SkippedAt(s, m) = {}
  <2>1. Consume(s, m) = Fail(s, "DuplicateMessage")
    BY <1>3 DEF Consume
  <2>2. QED
    BY <1>2, <2>1
<1>4. CASE m.counter < chain.index /\ SkippedAt(s, m) # {}
  <2> DEFINE t == TakeSkipped(s, pos)
             less == RemoveAt(s.skipped_message_keys, pos)
  <2>1. Consume(s, m) = CheckMac(t, s.skipped_message_keys[pos].keys, m)
    BY <1>4 DEF Consume
  <2>2. SkippedAt(s, m) \subseteq 1 .. Len(s.skipped_message_keys) /\ Len(s.skipped_message_keys) \in Nat
    BY <1>1, LenProperties DEF SkippedAt
  <2>3. pos \in 1 .. Len(s.skipped_message_keys)
    BY <1>4, <2>2, MinType
  <2> HIDE DEF pos
  <2>4. t.receiving_chains = s.receiving_chains /\ t.skipped_message_keys = less /\ t.root_key = s.root_key
    <3>1. t = [s EXCEPT !.skipped_message_keys = less]
      BY DEF TakeSkipped
    <3> HIDE DEF t, less
    <3>2. QED
      BY <1>1, <3>1 DEF HasFields
  <2> HIDE DEF t
  <2>5. /\ SoundKeys(s.receiving_chains, less, Len(s.root_key))
        /\ \A keys \in MessageKey : Holds(s.receiving_chains, less, keys) =>
             Holds(s.receiving_chains, s.skipped_message_keys, keys)
        /\ Holds(s.receiving_chains, s.skipped_message_keys, s.skipped_message_keys[pos].keys)
        /\ ~Holds(s.receiving_chains, less, s.skipped_message_keys[pos].keys)
        /\ Len(s.skipped_message_keys[pos].keys[1]) <= Len(s.root_key)
    BY <1>1, <2>3, TakeSound
  <2> HIDE DEF less
  <2>6. QED
    BY <2>1, <2>4, <2>5, CheckMacReads
<1>5. CASE ~(m.counter < chain.index) /\ fill # "ok"
  <2>1. Consume(s, m) = Fail(s, fill)
    BY <1>5 DEF Consume
  <2>2. QED
    BY <1>2, <1>5, <2>1
<1>6. CASE ~(m.counter < chain.index) /\ fill = "ok"
  <2> DEFINE t == Advance(s, m)
             later == [s.receiving_chains EXCEPT ![m.ratchet_key] = [chain EXCEPT !.index = m.counter + 1]]
             more  == s.skipped_message_keys \o FilledKeys(chain, m.counter, m.ratchet_key)
             keys  == MessageKeys(chain, m.counter)
  <2>1. Consume(s, m) = CheckMac(t, keys, m)
    BY <1>6 DEF Consume
  <2>2. t.receiving_chains = later /\ t.skipped_message_keys = more /\ t.root_key = s.root_key
    <3>1. t = [s EXCEPT !.receiving_chains = later, !.skipped_message_keys = more]
      BY DEF Advance
    <3> HIDE DEF t, later, more
    <3>2. QED
      BY <1>1, <3>1 DEF HasFields
  <2>3. keys = <<chain.key, m.counter>> /\ keys[1] = chain.key
    BY DEF MessageKeys
  <2> HIDE DEF t, keys
  <2>4. /\ SoundKeys(later, more, Len(s.root_key))
        /\ \A k \in MessageKey : Holds(later, more, k) => Holds(s.receiving_chains, s.skipped_message_keys, k)
        /\ Holds(s.receiving_chains, s.skipped_message_keys, <<chain.key, m.counter>>)
        /\ ~Holds(later, more, <<chain.key, m.counter>>)
        /\ Len(chain.key) <= Len(s.root_key)
    <3> DEFINE key == m.ratchet_key
    <3>1. PICK C, K, n, L, M : C = s.receiving_chains /\ K = s.skipped_message_keys /\ n = Len(s.root_key) /\ L = later /\ M = more
      OBVIOUS
    <3>2. /\ C \in Chains /\ K \in Seq(Skipped) /\ n \in Nat /\ SoundKeys(C, K, n)
          /\ key \in DOMAIN C /\ ~(m.counter < C[key].index)
          /\ Moved(C, L, key, m.counter) /\ Stored(C, K, M, key, m.counter)
      <4>1. chain \in Chain /\ s.receiving_chains \in [DOMAIN s.receiving_chains -> Chain]
        BY <1>1, ChainsType
      <4>2. PICK moved : moved = [chain EXCEPT !.index = m.counter + 1]
        OBVIOUS
      <4>3. moved.key = chain.key /\ moved.index = m.counter + 1
        BY <4>1, <4>2 DEF Chain
      <4>4. later = [s.receiving_chains EXCEPT ![m.ratchet_key] = moved]
        BY <4>2
      <4>5. QED
        BY <1>1, <1>6, <3>1, <4>1, <4>3, <4>4 DEF Moved, Stored
    <3> HIDE DEF key
    <3>3. /\ SoundKeys(L, M, n)
          /\ \A k \in MessageKey : Holds(L, M, k) => Holds(C, K, k)
          /\ Holds(C, K, <<C[key].key, m.counter>>) /\ ~Holds(L, M, <<C[key].key, m.counter>>)
          /\ Len(C[key].key) <= n
      BY <1>1, <3>2, AdvanceSound
    <3> HIDE DEF later, more
    <3>4. QED
      BY <3>1, <3>3 DEF key
  <2> HIDE DEF later, more, chain
  <2>5. QED
    BY <2>1, <2>2, <2>3, <2>4, CheckMacReads
<1>7. QED
  BY <1>3, <1>4, <1>5, <1>6

\* What decrypt does to the keys of the session s: a message is shown whose key
\* was held, or whose chain is longer than the root was, and its key is not held
\* afterwards; no key of a chain no longer than the root comes back.
Erases(s, d, m) ==
  /\ Sound(d.session) /\ Len(s.root_key) <= Len(d.session.root_key)
  /\ \A keys \in MessageKey :
       HoldsKey(d.session, keys) => HoldsKey(s, keys) \/ Len(s.root_key) < Len(keys[1])
  /\ d.outcome = "ok" =>
       /\ HoldsKey(s, m.keys) \/ Len(s.root_key) < Len(m.keys[1])
       /\ ~HoldsKey(d.session, m.keys) /\ Len(m.keys[1]) <= Len(d.session.root_key)

\* decrypt does so.
LEMMA DecryptReads ==
  ASSUME NEW s, IsSession(s), Sound(s), NEW m \in Message
  PROVE  Erases(s, Decrypt(s, m), m)
<1> DEFINE t == StepReceivingRatchet(s, m)
<1>1. /\ Sound(t) /\ Len(s.root_key) <= Len(t.root_key)
      /\ \A keys \in MessageKey : HoldsKey(t, keys) => HoldsKey(s, keys) \/ Len(s.root_key) < Len(keys[1])
  BY StepReads
<1>2. IsSession(t) /\ m.ratchet_key \in DOMAIN t.receiving_chains
  BY StepType
<1>3. Decrypt(s, m) = Consume(t, m)
  BY DEF Decrypt
<1>4. m.keys \in MessageKey
  BY DEF Message
<1> HIDE DEF t
<1>5. Reads(t, Consume(t, m), m)
  BY <1>1, <1>2, ConsumeReads
<1>6. QED
  BY <1>1, <1>3, <1>4, <1>5 DEF Reads, Erases

-----------------------------------------------------------------------------
\* What is shown, and how often.

\* A PreKeySignalMessage is not delivered again: it would make the session again,
\* with all its keys.  The networks of the runs are all like this.
PreKeysComeOnce == network.replays = 0 \/ ~network.pre_keys

\* The texts of what a device sends are the numbers of its messages.
TextsInv(p) ==
  /\ Cardinality(sent[p]) <= MaxSend(p)
  /\ \A m \in sent[p] : m.text \in 1 .. Cardinality(sent[p])
  /\ \A m, n \in sent[p] : m.text = n.text => m = n

\* Alice's first message is the only one that can make Bob's session, and until
\* he has it he has shown nothing.
Unread == session[Bob] = None /\ \A n \in DOMAIN reads[Bob] : reads[Bob][n] = 0

OnePreKey(q) == \A i, j \in DOMAIN q : q[i].pre_key # None /\ q[j].pre_key # None => i = j

SomePreKey(q) == \E i \in DOMAIN q : q[i].pre_key # None

PreKeyInv ==
  /\ OnePreKey(net[Bob])
  /\ SomePreKey(net[Bob]) => Unread
  /\ session[Alice] # None /\ session[Alice].pending_pre_key # None =>
       Unread /\ \A m \in sent[Alice] : m.pre_key = None

\* A text is shown once, of a message that has come,
Counted(got, count) ==
  \A n \in DOMAIN count : count[n] > 0 => count[n] = 1 /\ \E m \in got : m.text = n

\* and the session neither holds its key nor can get it by a ratchet step.
Erased(s, got, count) ==
  \A m \in got : count[m.text] > 0 => ~HoldsKey(s, m.keys) /\ Len(m.keys[1]) <= Len(s.root_key)

ReadInv(p) ==
  /\ Counted(received[p], reads[p])
  /\ session[p] # None => Sound(session[p]) /\ Erased(session[p], received[p], reads[p])

ShownInv == PreKeyInv /\ \A p \in Device : TextsInv(p) /\ ReadInv(p)

\* encrypt touches neither receiving chains nor skipped keys, and the root key
\* only grows.
LEMMA EncryptReads ==
  ASSUME NEW s, IsSession(s), Sound(s), NEW fresh \in Key
  PROVE  LET e == AfterEncrypt(s, fresh)
         IN  /\ Sound(e) /\ Len(s.root_key) <= Len(e.root_key)
             /\ \A keys : HoldsKey(e, keys) <=> HoldsKey(s, keys)
<1> DEFINE t    == RatchetIfNeeded(s, fresh)
           root == KdfRoot(s.root_key, DiffieHellman(fresh, s.their_ratchet_key))
           next == [t.sending_chain EXCEPT !.index = @ + 1]
<1>1. HasFields(s) /\ s.root_key \in RootKey /\ s.their_ratchet_key \in Key /\ Len(s.root_key) \in Nat
  BY SessionParts DEF IsSession
<1>2. Len(root) = Len(s.root_key) + 1
  <2>1. DiffieHellman(fresh, s.their_ratchet_key) \in SUBSET Key
    BY <1>1 DEF DiffieHellman
  <2>2. QED
    BY <1>1, <2>1, AppendProperties DEF KdfRoot, RootKey
<1> HIDE DEF root
<1>3. /\ HasFields(t) /\ t.receiving_chains = s.receiving_chains
      /\ t.skipped_message_keys = s.skipped_message_keys
      /\ t.root_key = s.root_key \/ t.root_key = root
  <2>1. CASE NeedsRatchet(s)
    BY <1>1, <2>1 DEF RatchetIfNeeded, HasFields, root
  <2>2. CASE ~NeedsRatchet(s)
    BY <1>1, <2>2 DEF RatchetIfNeeded
  <2>3. QED
    BY <2>1, <2>2
<1>4. PICK e : e = AfterEncrypt(s, fresh)
  OBVIOUS
<1>5. e = [t EXCEPT !.sending_chain = next, !.pending_pre_key = None]
  BY <1>4 DEF AfterEncrypt
<1> HIDE DEF t, next
<1>6. /\ e.receiving_chains = s.receiving_chains /\ e.skipped_message_keys = s.skipped_message_keys
      /\ e.root_key = s.root_key \/ e.root_key = root
  BY <1>3, <1>5 DEF HasFields
<1>7. \A keys : HoldsKey(e, keys) <=> HoldsKey(s, keys)
  BY <1>6 DEF HoldsKey
<1>8. Len(s.root_key) <= Len(e.root_key) /\ Len(e.root_key) \in Nat
  BY <1>1, <1>2, <1>6
<1>9. Sound(e)
  <2>1. PICK C, K, n, k : C = s.receiving_chains /\ K = s.skipped_message_keys
                          /\ n = Len(s.root_key) /\ k = Len(e.root_key)
    OBVIOUS
  <2>2. C \in Chains /\ K \in Seq(Skipped) /\ SoundKeys(C, K, n) /\ n \in Nat /\ k \in Nat /\ n <= k
    BY <1>1, <1>8, <2>1, SessionParts DEF Sound
  <2>3. /\ \A i \in DOMAIN C : Len(C[i].key) \in Nat
        /\ \A i \in DOMAIN K : Len(K[i].keys[1]) \in Nat
    BY <2>2, ChainsType, SkippedType
  <2>4. SoundKeys(C, K, k)
    BY <2>2, <2>3 DEF SoundKeys, NoLonger
  <2>5. QED
    BY <1>6, <2>1, <2>4 DEF Sound
<1>10. QED
  BY <1>4, <1>7, <1>8, <1>9

\* The sessions both sides start with hold each key once: Bob's has neither chains
\* nor skipped keys,
LEMMA NoKeysSound ==
  ASSUME NEW s, DOMAIN s.receiving_chains = {}, s.skipped_message_keys = <<>>
  PROVE  Sound(s)
<1>1. DOMAIN s.skipped_message_keys = {}
  OBVIOUS
<1>2. QED
  BY <1>1 DEF Sound, SoundKeys, NoLonger, ChainsDiffer, SkippedDiffer, SkippedBehind

\* and Alice's one chain has a key shorter than the root.
LEMMA AliceInitialSound ==
  Sound(NewAlice(IdentityKey(Alice), BobBundle, AliceBaseKey, AliceFirstKey))
<1> DEFINE master == X3dhMasterSecretAlice(IdentityKey(Alice), AliceBaseKey, BobBundle)
           root   == KdfRoot(master, DiffieHellman(AliceFirstKey, SignedPreKey))
           chain  == NewChain(master, 0)
<1>1. PICK s : s = NewAlice(IdentityKey(Alice), BobBundle, AliceBaseKey, AliceFirstKey)
  OBVIOUS
<1>2. BobBundle.signed_pre_key = SignedPreKey
  BY DEF BobBundle
<1>3. /\ s.root_key = root /\ s.skipped_message_keys = <<>>
      /\ s.receiving_chains = [k \in {SignedPreKey} |-> chain]
  <2> HIDE DEF master, chain
  <2>1. s.root_key = KdfRoot(master, DiffieHellman(AliceFirstKey, BobBundle.signed_pre_key))
    BY <1>1 DEF NewAlice, master
  <2>2. s.skipped_message_keys = <<>> /\ s.receiving_chains = [k \in {BobBundle.signed_pre_key} |-> chain]
    BY <1>1 DEF NewAlice, master, chain
  <2>3. QED
    BY <1>2, <2>1, <2>2
<1>4. \A S : \A q \in Seq(S) : \A x \in S : Len(q) \in Nat /\ Len(Append(q, x)) = Len(q) + 1
  BY AppendProperties, LenProperties
<1>5. Len(master) \in Nat /\ Len(root) = Len(master) + 1
  <2>1. master \in Seq(SUBSET (Device \X Nat))
    BY BobKeysType, DeviceAssumption DEF X3dhMasterSecretAlice, DiffieHellman, BobBundle, Key
  <2>2. DiffieHellman(AliceFirstKey, SignedPreKey) \in SUBSET (Device \X Nat)
    BY BobKeysType DEF DiffieHellman, Key
  <2> HIDE DEF master
  <2>3. QED
    BY <1>4, <2>1, <2>2 DEF KdfRoot
<1>6. chain.key = master
  BY DEF NewChain
<1> HIDE DEF master, root, chain
<1>7. /\ DOMAIN s.receiving_chains = {SignedPreKey} /\ s.receiving_chains[SignedPreKey].key = master
      /\ DOMAIN s.skipped_message_keys = {}
  BY <1>3, <1>6
<1>8. Len(master) <= Len(root)
  BY <1>5
<1>9. Sound(s)
  BY <1>3, <1>7, <1>8 DEF Sound, SoundKeys, NoLonger, ChainsDiffer, SkippedDiffer, SkippedBehind
<1>10. QED
  BY <1>1, <1>9

\* The texts of messages name them,
Numbered(S, N) ==
  (\A a, b \in S : a.text = b.text => a = b) /\ \A a \in S : a.text \in N

\* and the outcome of a delivery counts the text it shows.
Recounted(d, m, count, later) ==
  \A n \in DOMAIN count : later[n] = IF d.outcome = "ok" /\ n = m.text THEN count[n] + 1 ELSE count[n]

\* Showing a message that the session can read, and what is left of its key:
\* it was not shown before.
LEMMA ShowOnce ==
  ASSUME NEW N, NEW S \in SUBSET Message, Numbered(S, N), NEW got \in SUBSET S, NEW m \in S,
         NEW count \in [N -> Nat], NEW later \in [N -> Nat],
         NEW s, IsSession(s), Sound(s), Counted(got, count), Erased(s, got, count),
         NEW d, IsSession(d.session), Erases(s, d, m), Recounted(d, m, count, later)
  PROVE  Counted(got \cup {m}, later) /\ Erased(d.session, got \cup {m}, later)
<1>0. /\ \A a, b \in S : a.text = b.text => a = b
      /\ \A a \in S : a.text \in N
      /\ \A n \in N : later[n] = IF d.outcome = "ok" /\ n = m.text THEN count[n] + 1 ELSE count[n]
  BY DEF Numbered, Recounted
<1> DEFINE more == got \cup {m}
<1>1. /\ Len(s.root_key) \in Nat /\ Len(d.session.root_key) \in Nat
      /\ Len(s.root_key) <= Len(d.session.root_key)
  BY SessionParts DEF Erases
<1>2. \A a \in S : a.keys \in MessageKey /\ Len(a.keys[1]) \in Nat
  <2>1. \A k \in MessageKey : Len(k[1]) \in Nat
    BY LenProperties DEF MessageKey, RootKey
  <2>2. QED
    BY <2>1 DEF Message
<1>3. \A n \in N : count[n] \in Nat
  OBVIOUS
<1>4. ASSUME d.outcome = "ok", count[m.text] > 0 PROVE FALSE
  <2>1. m \in got
    BY <1>0, <1>4 DEF Counted
  <2>2. ~HoldsKey(s, m.keys) /\ Len(m.keys[1]) <= Len(s.root_key)
    BY <1>4, <2>1 DEF Erased
  <2>3. Len(s.root_key) < Len(m.keys[1])
    BY <1>4, <2>2 DEF Erases
  <2>4. QED
    BY <1>1, <1>2, <2>2, <2>3
<1>5. d.outcome = "ok" => count[m.text] = 0
  BY <1>0, <1>3, <1>4
<1>6. Counted(more, later)
  <2>1. ASSUME NEW n \in N, later[n] > 0 PROVE later[n] = 1 /\ \E a \in more : a.text = n
    <3>1. CASE d.outcome = "ok" /\ n = m.text
      BY <1>0, <1>5, <3>1
    <3>2. CASE ~(d.outcome = "ok" /\ n = m.text)
      BY <1>0, <2>1, <3>2 DEF Counted
    <3>3. QED
      BY <3>1, <3>2
  <2>2. QED
    BY <2>1 DEF Counted
<1>7. ASSUME NEW a \in more, later[a.text] > 0
      PROVE  ~HoldsKey(d.session, a.keys) /\ Len(a.keys[1]) <= Len(d.session.root_key)
  <2>1. a \in S /\ (a.text = m.text => a = m)
    BY <1>0
  <2>2. CASE d.outcome = "ok" /\ a = m
    BY <2>2 DEF Erases
  <2>3. CASE ~(d.outcome = "ok" /\ a = m)
    <3>1. a.text \in N
      BY <1>0, <2>1
    <3>2. count[a.text] > 0
      BY <1>0, <1>7, <2>1, <2>3, <3>1
    <3>3. a \in got
      <4>1. PICK b \in got : b.text = a.text
        BY <3>1, <3>2 DEF Counted
      <4>2. QED
        BY <1>0, <2>1, <4>1
    <3>4. ~HoldsKey(s, a.keys) /\ Len(a.keys[1]) <= Len(s.root_key)
      BY <3>2, <3>3 DEF Erased
    <3>5. ~(Len(s.root_key) < Len(a.keys[1])) /\ Len(a.keys[1]) <= Len(d.session.root_key)
      BY <1>1, <1>2, <2>1, <3>4
    <3>6. ~HoldsKey(d.session, a.keys)
      BY <1>2, <2>1, <3>4, <3>5 DEF Erases
    <3>7. QED
      BY <3>5, <3>6
  <2>4. QED
    BY <2>2, <2>3
<1>8. QED
  BY <1>6, <1>7 DEF Erased

\* Numbers of texts.
LEMMA TextsType ==
  ASSUME TypeOK, KeyInv, NEW p \in Device, TextsInv(Peer(p))
  PROVE  /\ sent[Peer(p)] \in SUBSET Message /\ received[p] \in SUBSET sent[Peer(p)]
         /\ reads[p] \in [1 .. MaxSend(Peer(p)) -> Nat]
         /\ Numbered(sent[Peer(p)], 1 .. MaxSend(Peer(p)))
<1>1. PICK q : q = Peer(p) /\ q \in Device
  BY PeerType
<1>2. /\ sent[q] \in SUBSET Message /\ received[p] \in SUBSET sent[q]
      /\ reads[p] \in [1 .. MaxSend(q) -> Nat]
  BY <1>1 DEF TypeOK, KeyInv
<1>3. MaxSend(q) \in Nat /\ Cardinality(sent[q]) \in Nat
  BY <1>1, BoundsAssumption, FS_CardinalityType DEF MaxSend, TypeOK
<1>4. Cardinality(sent[q]) <= MaxSend(q)
  BY <1>1 DEF TextsInv
<1>5. \A i \in 1 .. Cardinality(sent[q]) : i \in 1 .. MaxSend(q)
  BY <1>3, <1>4
<1>6. /\ \A a, b \in sent[q] : a.text = b.text => a = b
      /\ \A a \in sent[q] : a.text \in 1 .. Cardinality(sent[q])
  BY <1>1 DEF TextsInv
<1>7. QED
  BY <1>1, <1>2, <1>5, <1>6 DEF Numbered

\* decrypt_message either changes nothing and shows nothing, or decrypts: with the
\* session held or, for the first message, with one that has shown nothing.
LEMMA DecryptMessageReads ==
  ASSUME TypeOK, KeyInv, NEW p \in Device, NEW m \in sent[Peer(p)],
         m.pre_key # None => Unread, TextsInv(Peer(p)), ReadInv(p)
  PROVE  LET d == DecryptMessage(p, m)
         IN  \/ d.session = session[p] /\ d.outcome # "ok"
             \/ \E s : /\ IsSession(s) /\ Sound(s) /\ Erased(s, received[p], reads[p])
                       /\ IsSession(d.session) /\ Erases(s, d, m)
<1>1. /\ Peer(p) \in Device /\ m \in Message /\ SentInv(Peer(p), m)
      /\ session[p] # None => IsSession(session[p])
  BY PeerType DEF TypeOK, KeyInv
<1>2. CASE m.pre_key # None
  <2> DEFINE b   == BobInitial(IdentityKey(p), m.pre_key.signed_pre_key,
                                m.pre_key.pre_key, m.pre_key)
             bob == NewBob(IdentityKey(p), m.pre_key.signed_pre_key, m.pre_key.pre_key, m)
  <2>1. m.pre_key \in PreKey /\ p = Bob
    BY <1>1, <1>2, DeviceAssumption DEF SentInv, IsBobPreKey, Peer, Message
  <2>2. m.pre_key.signed_pre_key \in Key /\ m.pre_key.pre_key \in Key /\ IdentityKey(p) \in Key
    BY <2>1, BobKeysType DEF PreKey
  <2>3. IsSession(b)
    BY <2>1, <2>2, BobInitialType
  <2>4. Sound(b)
    <3>1. DOMAIN b.receiving_chains = {} /\ b.skipped_message_keys = <<>>
      BY DEF BobInitial
    <3> HIDE DEF b
    <3>2. QED
      BY <3>1, NoKeysSound
  <2>5. bob = Decrypt(b, m)
    BY DEF NewBob
  <2> HIDE DEF b, bob
  <2>6. IsSession(bob.session) /\ Erases(b, bob, m)
    BY <1>1, <2>3, <2>4, <2>5, DecryptType, DecryptReads
  <2>7. Erased(b, received[p], reads[p])
    <3>1. \A n \in DOMAIN reads[p] : reads[p][n] = 0
      BY <1>2, <2>1 DEF Unread
    <3>2. \A a \in received[p] : a.text \in DOMAIN reads[p]
      BY TextsType DEF Numbered
    <3>3. \A a \in received[p] : ~(reads[p][a.text] > 0)
      BY <3>1, <3>2
    <3>4. QED
      BY <3>3 DEF Erased
  <2>8. CASE bob.outcome = "ok"
    <3>1. DecryptMessage(p, m) = bob
      BY <1>2, <2>8 DEF DecryptMessage, bob
    <3>2. QED
      BY <2>3, <2>4, <2>6, <2>7, <3>1
  <2>9. CASE bob.outcome # "ok"
    <3>1. DecryptMessage(p, m) = [bob EXCEPT !.session = session[p]]
      BY <1>2, <2>9 DEF DecryptMessage, bob
    <3>2. \E s, o : bob = [session |-> s, outcome |-> o]
      BY <2>5 DEF Decrypt, Consume, Fail, CheckMac
    <3>3. DecryptMessage(p, m).session = session[p] /\ DecryptMessage(p, m).outcome = bob.outcome
      BY <3>1, <3>2
    <3>4. QED
      BY <2>9, <3>3
  <2>10. QED
    BY <2>8, <2>9
<1>3. CASE m.pre_key = None /\ session[p] = None
  BY <1>3 DEF DecryptMessage
<1>4. CASE m.pre_key = None /\ session[p] # None
  <2>1. DecryptMessage(p, m) = Decrypt(session[p], m)
    BY <1>4 DEF DecryptMessage
  <2>2. PICK s : s = session[p]
    OBVIOUS
  <2>3. IsSession(s) /\ Sound(s) /\ Erased(s, received[p], reads[p])
    BY <1>1, <1>4, <2>2 DEF ReadInv
  <2>4. IsSession(Decrypt(s, m).session) /\ Erases(s, Decrypt(s, m), m)
    BY <1>1, <2>3, DecryptType, DecryptReads
  <2>5. QED
    BY <2>1, <2>2, <2>3, <2>4
<1>5. QED
  BY <1>2, <1>3, <1>4

\* A delivery shows each text once.
LEMMA ReceiveReads ==
  ASSUME TypeOK, TypeOK', KeyInv, NEW p \in Device, NEW m \in sent[Peer(p)], Receive(p, m),
         m.pre_key # None => Unread, TextsInv(Peer(p)), ReadInv(p)
  PROVE  ReadInv(p)'
<1>1. PICK d : d = DecryptMessage(p, m)
  OBVIOUS
<1>2. PICK got, count, more, later, N :
        /\ got = received[p] /\ count = reads[p] /\ more = received'[p] /\ later = reads'[p]
        /\ N = 1 .. MaxSend(Peer(p))
  OBVIOUS
<1>3. PICK S : S = sent[Peer(p)]
  OBVIOUS
<1>4. /\ S \in SUBSET Message /\ got \in SUBSET S /\ m \in S /\ count \in [N -> Nat]
      /\ Numbered(S, N) /\ \A a, b \in S : a.text = b.text => a = b
      /\ \A a \in S : a.text \in N
  BY <1>2, <1>3, TextsType DEF Numbered
<1>5. later \in [N -> Nat]
  BY <1>2 DEF TypeOK
<1>6. session'[p] = d.session /\ more = got \cup {m}
  BY <1>1, <1>2 DEF Receive, TypeOK
<1>7. \A n \in N : later[n] = IF d.outcome = "ok" /\ n = m.text THEN count[n] + 1 ELSE count[n]
  <2>1. CASE d.outcome = "ok"
    <3>1. reads' = [reads EXCEPT ![p] = [count EXCEPT ![m.text] = @ + 1]]
      BY <1>1, <1>2, <2>1 DEF Receive
    <3>2. later = [count EXCEPT ![m.text] = @ + 1]
      BY <1>2, <3>1 DEF TypeOK
    <3>3. QED
      BY <1>4, <2>1, <3>2
  <2>2. CASE d.outcome # "ok"
    <3>1. reads' = reads
      BY <1>1, <2>2 DEF Receive
    <3>2. QED
      BY <1>2, <2>2, <3>1
  <2>3. QED
    BY <2>1, <2>2
<1>8. Counted(got, count) /\ (session[p] # None => Sound(session[p]) /\ Erased(session[p], got, count))
  BY <1>2 DEF ReadInv
<1>9. CASE d.session = session[p] /\ d.outcome # "ok"
  <2>1. \A n \in N : later[n] = count[n]
    BY <1>7, <1>9
  <2>2. Counted(more, later)
    BY <1>4, <1>5, <1>6, <1>8, <2>1 DEF Counted
  <2>3. \A a \in more : later[a.text] > 0 => a \in got
    <3>1. SUFFICES ASSUME NEW a \in more, later[a.text] > 0 PROVE a \in got
      OBVIOUS
    <3>2. a \in S /\ a.text \in N /\ count[a.text] > 0
      BY <1>4, <1>6, <2>1, <3>1
    <3>3. PICK b \in got : b.text = a.text
      BY <1>4, <1>8, <3>2 DEF Counted
    <3>4. QED
      BY <1>4, <3>2, <3>3
  <2>4. session[p] # None => Erased(session[p], more, later)
    BY <1>4, <1>6, <1>8, <2>1, <2>3 DEF Erased
  <2>5. QED
    BY <1>2, <1>6, <1>8, <1>9, <2>2, <2>4 DEF ReadInv
<1>10. ASSUME NEW s, IsSession(s), Sound(s), Erased(s, received[p], reads[p]),
              IsSession(d.session), Erases(s, d, m)
       PROVE  ReadInv(p)'
  <2>1. Erased(s, got, count)
    BY <1>2, <1>10
  <2>2. Counted(more, later) /\ Erased(d.session, more, later)
    <3>1. /\ IsSession(s) /\ Sound(s) /\ Counted(got, count) /\ Erased(s, got, count)
          /\ IsSession(d.session) /\ Erases(s, d, m) /\ Recounted(d, m, count, later)
      BY <1>4, <1>7, <1>8, <1>10, <2>1 DEF Recounted
    <3>2. Counted(got \cup {m}, later) /\ Erased(d.session, got \cup {m}, later)
      BY <1>4, <1>5, <3>1, ShowOnce
    <3>3. QED
      BY <1>6, <3>2
  <2>3. Sound(d.session)
    BY <1>10 DEF Erases
  <2>4. QED
    BY <1>2, <1>6, <2>2, <2>3 DEF ReadInv
<1>11. \/ d.session = session[p] /\ d.outcome # "ok"
       \/ \E s : /\ IsSession(s) /\ Sound(s) /\ Erased(s, received[p], reads[p])
                 /\ IsSession(d.session) /\ Erases(s, d, m)
  BY <1>1, DecryptMessageReads
<1>12. CASE \E s : /\ IsSession(s) /\ Sound(s) /\ Erased(s, received[p], reads[p])
                    /\ IsSession(d.session) /\ Erases(s, d, m)
  <2>1. PICK s : /\ IsSession(s) /\ Sound(s) /\ Erased(s, received[p], reads[p])
                 /\ IsSession(d.session) /\ Erases(s, d, m)
    BY <1>12
  <2>2. QED
    BY <1>10, <2>1
<1>13. QED
  BY <1>9, <1>11, <1>12

\* Taking a message out of those on their way to Bob.
LEMMA RemovePreKey ==
  ASSUME NEW T, NEW q \in Seq(T), NEW i \in DOMAIN q, NEW less, less = RemoveAt(q, i), OnePreKey(q)
  PROVE  OnePreKey(less) /\ (SomePreKey(less) => SomePreKey(q) /\ q[i].pre_key = None)
<1>1. i \in 1 .. Len(q) /\ DOMAIN q = 1 .. Len(q) /\ Len(q) \in Nat
  BY LenProperties
<1>2. less \in Seq(T) /\ Len(less) = Len(q) - 1
  BY <1>1, RemoveAtType
<1>3. DOMAIN less = 1 .. Len(less)
  BY <1>2, LenProperties
<1> DEFINE at(j) == IF j < i THEN j ELSE j + 1
<1>4. \A j \in DOMAIN less : less[j] = q[at(j)]
  BY <1>1, RemoveAtElements
<1>5. \A j \in DOMAIN less : at(j) \in DOMAIN q /\ at(j) # i
  BY <1>1, <1>2, <1>3
<1>6. \A j, k \in DOMAIN less : at(j) = at(k) => j = k
  BY <1>1, <1>2, <1>3
<1> HIDE DEF at
<1>7. OnePreKey(less)
  BY <1>4, <1>5, <1>6 DEF OnePreKey
<1>8. SomePreKey(less) => SomePreKey(q) /\ q[i].pre_key = None
  BY <1>4, <1>5 DEF OnePreKey, SomePreKey
<1>9. QED
  BY <1>7, <1>8

\* A message on its way to a device was sent by its peer.
LEMMA NetSent ==
  ASSUME KeyInv, NEW p \in Device, NEW i \in DOMAIN net[p]
  PROVE  net[p] \in Seq(sent[Peer(p)]) /\ net[p][i] \in sent[Peer(p)]
<1>1. net[p] \in Seq(sent[Peer(p)])
  BY DEF KeyInv
<1>2. QED
  BY <1>1, LenProperties, ElementOfSeq

\* Only Alice wraps a message in a PreKeySignalMessage.
LEMMA PreKeysOfAlice ==
  ASSUME KeyInv, NEW p \in Device, NEW m \in sent[Peer(p)], m.pre_key # None
  PROVE  p = Bob
<1>1. Peer(p) \in Device /\ SentInv(Peer(p), m)
  BY PeerType DEF KeyInv
<1>2. QED
  BY <1>1, DeviceAssumption DEF SentInv, IsBobPreKey, Peer

\* A message of the session itself makes no session, and changes no pending key.
LEMMA ReceivePending ==
  ASSUME TypeOK, KeyInv, NEW p \in Device, NEW m \in sent[Peer(p)], Receive(p, m), m.pre_key = None
  PROVE  /\ session[p] = None => session'[p] = None /\ reads' = reads
         /\ session[p] # None => session'[p].pending_pre_key = session[p].pending_pre_key
<1>1. /\ m \in Message /\ session'[p] = DecryptMessage(p, m).session
      /\ DecryptMessage(p, m).outcome # "ok" => reads' = reads
  BY PeerType DEF Receive, TypeOK
<1>2. CASE session[p] = None
  <2>1. DecryptMessage(p, m) = [session |-> None, outcome |-> "NoSession"]
    BY <1>2 DEF DecryptMessage
  <2>2. QED
    BY <1>1, <1>2, <2>1
<1>3. CASE session[p] # None
  <2>1. DecryptMessage(p, m) = Decrypt(session[p], m)
    BY <1>3 DEF DecryptMessage
  <2>2. PICK s : s = session[p]
    OBVIOUS
  <2>3. IsSession(s)
    BY <1>3, <2>2 DEF TypeOK
  <2>4. Decrypt(s, m).session.pending_pre_key = s.pending_pre_key
    BY <1>1, <2>3, DecryptFrame
  <2>5. QED
    BY <1>1, <1>3, <2>1, <2>2, <2>4
<1>4. QED
  BY <1>2, <1>3

\* A delivery keeps the one PreKeySignalMessage in its place.  If it is the
\* message delivered, none is left.
LEMMA ReceivePreKey ==
  ASSUME TypeOK, KeyInv, PreKeyInv, NEW p \in Device, NEW m \in sent[Peer(p)], Receive(p, m),
         OnePreKey(net'[Bob]),
         SomePreKey(net'[Bob]) => SomePreKey(net[Bob]) /\ (p = Bob => m.pre_key = None)
  PROVE  PreKeyInv'
<1>1. Alice \in Device /\ Bob \in Device /\ Alice # Bob
  BY DeviceAssumption
<1>2. sent' = sent /\ \A q \in Device : q # p => session'[q] = session[q] /\ reads'[q] = reads[q]
  <2>1. /\ sent' = sent /\ session' = [session EXCEPT ![p] = DecryptMessage(p, m).session]
        /\ reads' = [reads EXCEPT ![p] = [reads[p] EXCEPT ![m.text] = @ + 1]] \/ reads' = reads
    BY DEF Receive
  <2>2. DOMAIN session = Device /\ DOMAIN reads = Device
    BY DEF TypeOK
  <2>3. QED
    BY <2>1, <2>2
<1>3. Unread /\ (p = Bob => m.pre_key = None) => Unread'
  <2>1. CASE p = Bob
    BY <2>1, ReceivePending DEF Unread
  <2>2. CASE p # Bob
    BY <1>1, <1>2, <2>2 DEF Unread
  <2>3. QED
    BY <2>1, <2>2
<1>4. SomePreKey(net'[Bob]) => Unread'
  BY <1>3 DEF PreKeyInv
<1>5. ASSUME session'[Alice] # None, session'[Alice].pending_pre_key # None
      PROVE  Unread' /\ \A a \in sent[Alice] : a.pre_key = None
  <2>1. session[Alice] # None /\ session[Alice].pending_pre_key # None
    <3>1. CASE p = Alice
      <4>1. m.pre_key = None
        BY <1>1, <3>1, PreKeysOfAlice
      <4>2. QED
        BY <1>5, <3>1, <4>1, ReceivePending
    <3>2. CASE p # Alice
      BY <1>1, <1>2, <1>5, <3>2
    <3>3. QED
      BY <3>1, <3>2
  <2>2. Unread /\ \A a \in sent[Alice] : a.pre_key = None
    BY <2>1 DEF PreKeyInv
  <2>3. p = Bob => m.pre_key = None
    BY <1>1, <2>2, DeviceAssumption DEF Peer
  <2>4. QED
    BY <1>3, <2>2, <2>3
<1>6. QED
  BY <1>2, <1>4, <1>5 DEF PreKeyInv

\* Sending: the message has the next number, and carries the pending key, which
\* is gone then.
LEMMA SendShown ==
  ASSUME TypeOK, KeyInv, ShownInv, NEW p \in Device, Send(p)
  PROVE  ShownInv'
<1> DEFINE fresh == <<p, generated[p]>>
<1>1. PICK s, m, k : /\ s = session[p] /\ k = Cardinality(sent[p])
                     /\ m = EncryptedMessage(s, fresh, k + 1)
  OBVIOUS
<1>2. PICK e : e = AfterEncrypt(s, fresh)
  OBVIOUS
<1>3. fresh \in Key /\ IsSession(s) /\ k \in Nat
  <2>1. k \in Nat
    BY <1>1, FS_CardinalityType DEF TypeOK
  <2>2. QED
    BY <1>1, <2>1 DEF TypeOK, Key, Send
<1> HIDE DEF fresh
<1>4. /\ session[p] # None /\ k < MaxSend(p)
      /\ session' = [session EXCEPT ![p] = e]
      /\ net' = [net EXCEPT ![Peer(p)] = Append(net[Peer(p)], m)]
      /\ sent' = [sent EXCEPT ![p] = sent[p] \cup {m}]
      /\ received' = received /\ reads' = reads
  BY <1>1, <1>2 DEF Send, fresh
<1>5. Peer(p) \in Device /\ Peer(p) # p /\ \A q \in Device : q # p => q = Peer(p)
  BY DeviceAssumption DEF Peer
<1>6. /\ session'[p] = e /\ \A q \in Device : q # p => session'[q] = session[q]
      /\ net'[p] = net[p] /\ net'[Peer(p)] = Append(net[Peer(p)], m)
      /\ sent'[p] = sent[p] \cup {m} /\ \A q \in Device : q # p => sent'[q] = sent[q]
  BY <1>4, <1>5 DEF TypeOK
<1>7. m.text = k + 1 /\ m.pre_key = s.pending_pre_key
  BY <1>1 DEF EncryptedMessage
<1>8. e.pending_pre_key = None
  BY <1>2, <1>3, EncryptFrame
<1>9. TextsInv(p)'
  <2>1. \A a \in sent[p] : a.text \in 1 .. k
    BY <1>1 DEF ShownInv, TextsInv
  <2>2. m \notin sent[p]
    BY <1>3, <1>7, <2>1
  <2>3. Cardinality(sent'[p]) = k + 1
    <3>1. PICK T, U : T = sent[p] /\ U = sent'[p]
      OBVIOUS
    <3>2. IsFiniteSet(T) /\ k = Cardinality(T) /\ U = T \cup {m} /\ m \notin T
      BY <1>1, <1>6, <2>2, <3>1 DEF TypeOK
    <3>3. Cardinality(T \cup {m}) = Cardinality(T) + 1
      <4>1. IsFiniteSet(T) /\ m \notin T
        BY <3>2
      <4>2. QED
        BY <4>1, FS_AddElement
    <3>4. QED
      BY <3>1, <3>2, <3>3
  <2>4. k + 1 <= MaxSend(p)
    BY <1>3, <1>4, BoundsAssumption DEF MaxSend
  <2>5. \A a \in sent'[p] : a.text \in 1 .. k + 1
    BY <1>3, <1>6, <1>7, <2>1
  <2>6. \A a, b \in sent'[p] : a.text = b.text => a = b
    <3>1. \A a \in sent[p] : a.text # m.text
      BY <1>3, <1>7, <2>1
    <3>2. \A a, b \in sent[p] : a.text = b.text => a = b
      BY DEF ShownInv, TextsInv
    <3>3. QED
      BY <1>6, <3>1, <3>2
  <2>7. QED
    BY <2>3, <2>4, <2>5, <2>6 DEF TextsInv, MaxSend
<1>10. \A q \in Device : q # p => TextsInv(q)'
  BY <1>6 DEF ShownInv, TextsInv, MaxSend
<1>11. ReadInv(p)'
  <2>1. Counted(received[p], reads[p]) /\ Sound(s) /\ Erased(s, received[p], reads[p])
    BY <1>1, <1>4 DEF ShownInv, ReadInv
  <2>2. /\ Sound(e) /\ Len(s.root_key) <= Len(e.root_key)
        /\ \A keys : HoldsKey(e, keys) <=> HoldsKey(s, keys)
    BY <1>2, <1>3, <2>1, EncryptReads
  <2>3. IsSession(e)
    <3>1. 1 \in Text
      BY DEF Text
    <3>2. QED
      BY <1>2, <1>3, <3>1, EncryptType
  <2>4. Len(s.root_key) \in Nat /\ Len(e.root_key) \in Nat
    BY <1>3, <2>3, SessionParts
  <2>5. \A a \in received[p] : Len(a.keys[1]) \in Nat
    <3>1. received[p] \in SUBSET Message
      BY DEF TypeOK
    <3>2. \A keys \in MessageKey : Len(keys[1]) \in Nat
      BY LenProperties DEF MessageKey, RootKey
    <3>3. QED
      BY <3>1, <3>2 DEF Message
  <2>6. Erased(e, received[p], reads[p])
    BY <2>1, <2>2, <2>4, <2>5 DEF Erased
  <2>7. QED
    BY <1>4, <1>6, <2>1, <2>2, <2>6 DEF ReadInv
<1>12. \A q \in Device : q # p => ReadInv(q)'
  BY <1>4, <1>6 DEF ShownInv, ReadInv
<1>13. PreKeyInv'
  <2>1. /\ Alice \in Device /\ Bob \in Device /\ Alice # Bob
        /\ Peer(Alice) = Bob /\ Peer(Bob) = Alice
    BY DeviceAssumption DEF Peer
  <2>2. /\ OnePreKey(net[Bob])
        /\ SomePreKey(net[Bob]) => Unread
        /\ session[Alice] # None /\ session[Alice].pending_pre_key # None =>
             Unread /\ \A a \in sent[Alice] : a.pre_key = None
    BY DEF ShownInv, PreKeyInv
  <2>3. CASE p = Alice
    <3>1. Unread => Unread'
      BY <1>4, <1>6, <2>1, <2>3 DEF Unread
    <3>2. session'[Alice].pending_pre_key = None
      BY <1>6, <1>8, <2>3
    <3>3. PICK q, n, S : q = net[Bob] /\ n = net'[Bob] /\ S = sent[Alice] \cup {m}
      OBVIOUS
    <3>4. n = Append(q, m) /\ q \in Seq(sent[Alice])
      BY <1>6, <2>1, <2>3, <3>3 DEF KeyInv
    <3>5. /\ Len(q) \in Nat /\ DOMAIN q = 1 .. Len(q) /\ DOMAIN n = 1 .. Len(q) + 1
          /\ n[Len(q) + 1] = m /\ \A i \in 1 .. Len(q) : n[i] = q[i] /\ q[i] \in sent[Alice]
      <4>1. q \in Seq(S) /\ m \in S
        BY <3>3, <3>4, SeqMonotonic
      <4>2. n \in Seq(S) /\ Len(n) = Len(q) + 1 /\ n[Len(q) + 1] = m /\ \A i \in 1 .. Len(q) : n[i] = q[i]
        BY <3>4, <4>1, AppendProperties
      <4>3. QED
        BY <3>4, <4>1, <4>2, LenProperties, ElementOfSeq
    <3>6. \A i \in DOMAIN n : i \in DOMAIN q \/ i = Len(q) + 1
      BY <3>5
    <3>7. CASE s.pending_pre_key = None
      <4>1. m.pre_key = None
        BY <1>7, <3>7
      <4>2. \A i \in DOMAIN n : n[i].pre_key # None => i \in DOMAIN q /\ n[i] = q[i]
        BY <3>5, <3>6, <4>1
      <4>3. OnePreKey(q)
        BY <2>2, <3>3
      <4>4. OnePreKey(n)
        BY <4>2, <4>3 DEF OnePreKey
      <4>5. SomePreKey(n) => SomePreKey(q)
        BY <4>2 DEF SomePreKey
      <4>6. QED
        BY <2>2, <3>1, <3>2, <3>3, <4>4, <4>5 DEF PreKeyInv
    <3>8. CASE s.pending_pre_key # None
      <4>1. Unread /\ \A a \in sent[Alice] : a.pre_key = None
        BY <1>1, <1>4, <2>2, <2>3, <3>8
      <4>2. \A i \in DOMAIN n : n[i].pre_key # None => i = Len(q) + 1
        BY <3>5, <3>6, <4>1
      <4>3. OnePreKey(n)
        BY <4>2 DEF OnePreKey
      <4>4. QED
        BY <3>1, <3>2, <3>3, <4>1, <4>3 DEF PreKeyInv
    <3>9. QED
      BY <3>7, <3>8
  <2>4. CASE p = Bob
    <3>1. ~Unread
      BY <1>4, <2>4 DEF Unread
    <3>2. net'[Bob] = net[Bob] /\ session'[Alice] = session[Alice] /\ sent'[Alice] = sent[Alice]
      BY <1>6, <2>1, <2>4
    <3>3. QED
      BY <2>2, <3>1, <3>2 DEF PreKeyInv
  <2>5. QED
    BY <2>3, <2>4, DeviceAssumption
<1>14. QED
  BY <1>9, <1>10, <1>11, <1>12, <1>13 DEF ShownInv

\* Everything but Send leaves what was sent, and what the peer has shown.
LEMMA ReceiveShown ==
  ASSUME TypeOK, TypeOK', KeyInv, ShownInv, NEW p \in Device, NEW m \in sent[Peer(p)],
         Receive(p, m), m.pre_key # None => Unread, PreKeyInv'
  PROVE  ShownInv'
<1>1. Peer(p) \in Device
  BY PeerType
<1>2. /\ sent' = sent
      /\ \A q \in Device : q # p => /\ session'[q] = session[q] /\ reads'[q] = reads[q]
                                    /\ received'[q] = received[q]
  <2>1. /\ sent' = sent /\ session' = [session EXCEPT ![p] = DecryptMessage(p, m).session]
        /\ received' = [received EXCEPT ![p] = received[p] \cup {m}]
        /\ reads' = [reads EXCEPT ![p] = [reads[p] EXCEPT ![m.text] = @ + 1]] \/ reads' = reads
    BY DEF Receive
  <2>2. DOMAIN session = Device /\ DOMAIN reads = Device /\ DOMAIN received = Device
    BY DEF TypeOK
  <2>3. QED
    BY <2>1, <2>2
<1>3. \A q \in Device : TextsInv(q)'
  BY <1>2 DEF ShownInv, TextsInv, MaxSend
<1>4. ReadInv(p)'
  BY <1>1, ReceiveReads DEF ShownInv
<1>5. \A q \in Device : q # p => ReadInv(q)'
  BY <1>2 DEF ShownInv, ReadInv
<1>6. QED
  BY <1>3, <1>4, <1>5 DEF ShownInv

\* A step of the network alone.
LEMMA UntouchedShown ==
  ASSUME ShownInv, UNCHANGED <<session, sent, received, reads>>,
         OnePreKey(net'[Bob]), SomePreKey(net'[Bob]) => SomePreKey(net[Bob])
  PROVE  ShownInv'
<1>1. PreKeyInv'
  BY DEF ShownInv, PreKeyInv, Unread
<1>2. \A p \in Device : TextsInv(p)' /\ ReadInv(p)'
  BY DEF ShownInv, TextsInv, ReadInv, MaxSend
<1>3. QED
  BY <1>1, <1>2 DEF ShownInv

\* Nothing is shown at first, and Alice's session holds each key once.
LEMMA InitShown == Init => ShownInv
<1> SUFFICES ASSUME Init PROVE ShownInv
  OBVIOUS
<1>1. PICK a : a = NewAlice(IdentityKey(Alice), BobBundle, AliceBaseKey, AliceFirstKey)
  OBVIOUS
<1>2. /\ session[Alice] = a /\ session[Bob] = None
      /\ \A p \in Device : net[p] = <<>> /\ sent[p] = {} /\ received[p] = {}
                           /\ \A n \in DOMAIN reads[p] : reads[p][n] = 0
  BY <1>1, DeviceAssumption DEF Init
<1>3. Sound(a)
  BY <1>1, AliceInitialSound
<1>4. PreKeyInv
  <2>1. net[Bob] = <<>> /\ sent[Alice] = {} /\ Unread
    BY <1>2, DeviceAssumption DEF Unread
  <2>2. QED
    BY <2>1 DEF PreKeyInv, OnePreKey, SomePreKey
<1>5. ASSUME NEW p \in Device PROVE TextsInv(p)
  <2>1. Cardinality(sent[p]) = 0
    BY <1>2, FS_EmptySet
  <2>2. MaxSend(p) \in Nat
    BY BoundsAssumption DEF MaxSend
  <2>3. QED
    BY <1>2, <2>1, <2>2 DEF TextsInv
<1>6. ASSUME NEW p \in Device PROVE ReadInv(p)
  BY <1>2, <1>3, DeviceAssumption DEF ReadInv, Counted, Erased
<1>7. QED
  BY <1>4, <1>5, <1>6 DEF ShownInv

\* Every step keeps ShownInv where the first message does not come again.
LEMMA NextShown ==
  ASSUME TypeOK, TypeOK', KeyInv, PreKeysComeOnce, ShownInv, [Next]_vars
  PROVE  ShownInv'
<1>1. Alice \in Device /\ Bob \in Device /\ Alice # Bob
  BY DeviceAssumption
<1>2. OnePreKey(net[Bob])
  BY DEF ShownInv, PreKeyInv
\* A message leaves the network.
<1>3. ASSUME NEW p \in Device, NEW i \in DOMAIN net[p], net' = [net EXCEPT ![p] = RemoveAt(@, i)]
      PROVE  /\ OnePreKey(net'[Bob])
             /\ SomePreKey(net'[Bob]) => SomePreKey(net[Bob]) /\ (p = Bob => net[p][i].pre_key = None)
  <2>1. CASE p = Bob
    <3>1. net'[Bob] = RemoveAt(net[Bob], i) /\ net[Bob] \in Seq(sent[Peer(Bob)])
      BY <1>1, <1>3, <2>1, NetSent DEF TypeOK
    <3>2. PICK q, less : q = net[Bob] /\ less = net'[Bob]
      OBVIOUS
    <3>3. OnePreKey(less) /\ (SomePreKey(less) => SomePreKey(q) /\ q[i].pre_key = None)
      BY <1>2, <2>1, <3>1, <3>2, RemovePreKey
    <3>4. QED
      BY <2>1, <3>2, <3>3
  <2>2. CASE p # Bob
    BY <1>1, <1>2, <1>3, <2>2 DEF TypeOK
  <2>3. QED
    BY <2>1, <2>2
<1>4. ASSUME NEW p \in Device, Send(p) PROVE ShownInv'
  BY <1>4, SendShown
<1>5. ASSUME NEW p \in Device, Deliver(p) PROVE ShownInv'
  <2>1. PICK i \in DOMAIN net[p] : /\ Receive(p, net[p][i])
                                   /\ net' = [net EXCEPT ![p] = RemoveAt(@, i)]
    BY <1>5 DEF Deliver, Deliverable
  <2>2. PICK m : m = net[p][i]
    OBVIOUS
  <2>3. m \in sent[Peer(p)] /\ Receive(p, m)
    BY <2>1, <2>2, NetSent
  <2>4. m.pre_key # None => Unread
    <3>1. ASSUME m.pre_key # None PROVE SomePreKey(net[Bob])
      BY <2>2, <2>3, <3>1, PreKeysOfAlice DEF SomePreKey
    <3>2. QED
      BY <3>1 DEF ShownInv, PreKeyInv
  <2>5. /\ OnePreKey(net'[Bob])
        /\ SomePreKey(net'[Bob]) => SomePreKey(net[Bob]) /\ (p = Bob => m.pre_key = None)
    BY <1>3, <2>1, <2>2
  <2>6. PreKeyInv'
    BY <2>3, <2>5, ReceivePreKey DEF ShownInv
  <2>7. QED
    BY <2>3, <2>4, <2>6, ReceiveShown
<1>6. ASSUME NEW p \in Device, Lose(p) PROVE ShownInv'
  <2>1. PICK i \in DOMAIN net[p] : net' = [net EXCEPT ![p] = RemoveAt(@, i)]
    BY <1>6 DEF Lose
  <2>2. UNCHANGED <<session, sent, received, reads>>
    BY <1>6 DEF Lose
  <2>3. OnePreKey(net'[Bob]) /\ (SomePreKey(net'[Bob]) => SomePreKey(net[Bob]))
    BY <1>3, <2>1
  <2>4. QED
    BY <2>2, <2>3, UntouchedShown
<1>7. ASSUME NEW p \in Device, Replay(p) PROVE ShownInv'
  <2>1. PICK m \in received[p] : /\ Receive(p, m) /\ net' = net /\ replays < network.replays
                                 /\ network.pre_keys \/ m.pre_key = None
    BY <1>7 DEF Replay
  <2>2. m \in sent[Peer(p)]
    BY <2>1 DEF KeyInv
  <2>3. m.pre_key = None
    <3>1. replays \in Nat
      BY DEF TypeOK
    <3>2. network.replays # 0
      BY <2>1, <3>1
    <3>3. QED
      BY <2>1, <3>2 DEF PreKeysComeOnce
  <2>4. PreKeyInv'
    BY <1>2, <2>1, <2>2, <2>3, ReceivePreKey DEF ShownInv
  <2>5. QED
    BY <2>1, <2>2, <2>3, <2>4, ReceiveShown
<1>8. CASE UNCHANGED vars
  <2>1. net' = net /\ UNCHANGED <<session, sent, received, reads>>
    BY <1>8 DEF vars
  <2>2. QED
    BY <1>2, <2>1, UntouchedShown
<1>9. QED
  BY <1>4, <1>5, <1>6, <1>7, <1>8 DEF Next

\* The networks stay what they are.
LEMMA NetworkStays == PreKeysComeOnce' /\ [Next]_vars => PreKeysComeOnce
BY DEF PreKeysComeOnce, Next, vars

\* The same as an implication, for the temporal step.
LEMMA NextShownIf ==
  TypeOK /\ TypeOK' /\ KeyInv /\ (PreKeysComeOnce => ShownInv) /\ [Next]_vars
    => (PreKeysComeOnce' => ShownInv')
BY NextShown, NetworkStays

\* ShownInv, on every network that does not bring a PreKeySignalMessage again.
THEOREM ShownCorrect == Spec => [](PreKeysComeOnce => ShownInv)
<1>1. Spec => []TypeOK /\ []KeyInv
  BY TypeCorrect, KeysFresh
<1>2. Init => (PreKeysComeOnce => ShownInv)
  BY InitShown
<1>3. QED
  BY <1>1, <1>2, NextShownIf, PTL DEF Spec

\* ShownInv says of each text that it was shown once, and of its key that it is gone.
LEMMA ShownIsOnce == TypeOK /\ ShownInv => ReadOnce /\ ReadKeysErased
<1> SUFFICES ASSUME TypeOK, ShownInv PROVE ReadOnce /\ ReadKeysErased
  OBVIOUS
<1>1. ASSUME NEW p \in Device, NEW n \in DOMAIN reads[p] PROVE reads[p][n] <= 1
  <2>1. PICK x : x = reads[p][n]
    OBVIOUS
  <2>2. x \in Nat /\ (x > 0 => x = 1)
    BY <1>1, <2>1 DEF TypeOK, ShownInv, ReadInv, Counted
  <2>3. x <= 1
    BY <2>2
  <2>4. QED
    BY <2>1, <2>3
<1>2. ReadKeysErased
  BY DEF ReadKeysErased, ShownInv, ReadInv, Erased
<1>3. QED
  BY <1>1, <1>2 DEF ReadOnce

\* Every message is shown at most once, for every number of messages, every order
\* of arrival, any loss, any number of replays and any gap limit: on a network
\* that does not bring the message again that made the session.
THEOREM ReadOnceCorrect == Spec => [](PreKeysComeOnce => ReadOnce)
BY TypeCorrect, ShownCorrect, ShownIsOnce, PTL

\* The reason: a session that has shown a message does not hold its key, and no
\* later ratchet step brings it back.
THEOREM KeysErased == Spec => [](PreKeysComeOnce => ReadKeysErased)
BY TypeCorrect, ShownCorrect, ShownIsOnce, PTL

-----------------------------------------------------------------------------
\* Streams in order: the two ratchets stay in step, and everything is readable

\* The chain of their current key, of which the next message is.
Receiving(s) == s.receiving_chains[s.their_ratchet_key]

\* Both sides have the same root.  The first has read a message of the chain the
\* second sends with, and starts the next chain when it sends.
Level(s, t) ==
  /\ s.root_key = t.root_key
  /\ s.their_ratchet_key = t.our_ratchet_key /\ t.their_ratchet_key = s.our_ratchet_key
  /\ NeedsRatchet(s) /\ ~NeedsRatchet(t)
  /\ Receiving(s).key = t.sending_chain.key /\ Receiving(t).key = s.sending_chain.key

\* The first has started a chain of which the second has read nothing, and is ahead
\* by the ratchet step the second makes when it does.
Ahead(s, t) ==
  /\ s.root_key = KdfRoot(t.root_key, DiffieHellman(t.our_ratchet_key, s.our_ratchet_key))
  /\ s.sending_chain.key = s.root_key
  /\ s.their_ratchet_key = t.our_ratchet_key /\ t.their_ratchet_key # s.our_ratchet_key
  /\ ~NeedsRatchet(s) /\ ~NeedsRatchet(t)
  /\ Receiving(s).key = t.sending_chain.key

Linked(s, t) == Level(s, t) \/ Level(t, s) \/ Ahead(s, t) \/ Ahead(t, s)

\* The key of a message is that of the chain it is of, or was put aside when the
\* chain went past it.
Readable(s, m) ==
  /\ m.keys = MessageKeys(Receiving(s), m.counter)
  /\ m.counter < Receiving(s).index => SkippedAt(s, m) # {}

\* The keys put aside are those of their chains.
KeptFits(s, t) ==
  \A i \in DOMAIN s.skipped_message_keys :
    LET kept == s.skipped_message_keys[i]
    IN  /\ kept.ratchet_key = s.their_ratchet_key => kept.keys = MessageKeys(Receiving(s), kept.counter)
        /\ kept.ratchet_key = t.our_ratchet_key => s.their_ratchet_key = t.our_ratchet_key

\* The messages of a chain are behind those of the chain before it.
InTurn(q, key) == \A i, j \in DOMAIN q : i <= j /\ q[i].ratchet_key = key => q[j].ratchet_key = key

\* What is on its way from t to s is of the chain s reads or of the one t sends with.
Follows(s, t, q) ==
  /\ DOMAIN s.receiving_chains = {s.their_ratchet_key}
  /\ s.their_ratchet_key = t.our_ratchet_key => Receiving(s).index <= t.sending_chain.index
  /\ \A i \in DOMAIN q : q[i].ratchet_key \in {s.their_ratchet_key, t.our_ratchet_key}
  /\ InTurn(q, t.our_ratchet_key)
  /\ \A i \in DOMAIN q : q[i].ratchet_key = s.their_ratchet_key => Readable(s, q[i])
  /\ KeptFits(s, t)

AlicePreKey ==
  [pre_key |-> OneTimePreKey, signed_pre_key |-> SignedPreKey,
   base_key |-> AliceBaseKey, identity_key |-> IdentityKey(Alice)]

Master == X3dhMasterSecretAlice(IdentityKey(Alice), AliceBaseKey, BobBundle)

\* Alice's session before she has received anything.
Initiated(a) ==
  /\ a.root_key = KdfRoot(Master, DiffieHellman(AliceFirstKey, SignedPreKey))
  /\ a.our_ratchet_key = AliceFirstKey
  /\ a.their_ratchet_key = SignedPreKey /\ ~NeedsRatchet(a)
  /\ a.sending_chain.key = a.root_key
  /\ a.receiving_chains = [k \in {SignedPreKey} |-> NewChain(Master, 0)]
  /\ a.skipped_message_keys = <<>>
  /\ a.pending_pre_key \in {AlicePreKey, None}

\* Until Bob has a session, Alice goes on with the one she started with, and any
\* of her messages that has a prekey makes one that fits it.
Waiting ==
  /\ Initiated(session[Alice])
  /\ net[Alice] = <<>>
  /\ \A i \in DOMAIN net[Bob] : /\ net[Bob][i].ratchet_key = AliceFirstKey
                                /\ net[Bob][i].pre_key \in {AlicePreKey, None}

Paired ==
  /\ Linked(session[Alice], session[Bob])
  /\ \A p \in Device : Follows(session[p], session[Peer(p)], net[p])

\* A device puts aside only keys of its peer's chains.
KeptOfPeer ==
  \A p \in Device : session[p] # None =>
    \A i \in DOMAIN session[p].skipped_message_keys :
      Known(session[p].skipped_message_keys[i].ratchet_key, Peer(p))

NoRepeats(q) == \A i, j \in DOMAIN q : q[i] = q[j] => i = j

Unreadable == {"NoSession", "MessageGapTooLarge"}

InStepInv ==
  /\ network \in Network
  /\ session[Alice] # None
  /\ IF session[Bob] = None THEN Waiting ELSE Paired
  /\ KeptOfPeer
  /\ \A p \in Device : NoRepeats(net[p]) /\ \A f \in failures[p] : f.error \in Unreadable

\* None is not a session.
NoneIsNoSession == \A s : IsSession(s) => s # None

-----------------------------------------------------------------------------
\* What fill_message_keys stores is a key of the chain for each counter it jumps over.
LEMMA FilledKeysFields ==
  ASSUME NEW chain \in Chain, NEW target \in Nat, NEW key \in Key
  PROVE  LET f == FilledKeys(chain, target, key)
         IN  /\ f \in Seq(Skipped) /\ Len(f) \in Nat /\ DOMAIN f = 1 .. Len(f)
             /\ \A i \in DOMAIN f : /\ f[i].ratchet_key = key
                                    /\ f[i].counter \in Nat
                                    /\ chain.index <= f[i].counter /\ f[i].counter < target
                                    /\ f[i].keys = MessageKeys(chain, f[i].counter)
             /\ FillOutcome(chain, target) = "ok" =>
                  \A c \in Nat : chain.index <= c /\ c < target => \E i \in DOMAIN f : f[i].counter = c
<1> DEFINE f == FilledKeys(chain, target, key)
<1>1. f \in Seq(Skipped) /\ Len(f) \in Nat /\ DOMAIN f = 1 .. Len(f)
  BY FilledKeysType, LenProperties
<1>2. chain.index \in Nat
  BY DEF Chain
<1>3. CASE FillOutcome(chain, target) = "ok"
  <2> DEFINE n == target - chain.index
             entry(i) == [ratchet_key |-> key, counter |-> chain.index + i - 1,
                          keys |-> MessageKeys(chain, chain.index + i - 1)]
  <2>1. f = [i \in 1 .. n |-> entry(i)]
    BY <1>3 DEF FilledKeys
  <2>2. \A i : /\ entry(i).ratchet_key = key /\ entry(i).counter = chain.index + i - 1
               /\ entry(i).keys = MessageKeys(chain, chain.index + i - 1)
    OBVIOUS
  <2> HIDE DEF f, entry
  <2>3. DOMAIN f = 1 .. n /\ \A i \in 1 .. n : /\ f[i].ratchet_key = key
                                               /\ f[i].counter = chain.index + i - 1
                                               /\ f[i].keys = MessageKeys(chain, chain.index + i - 1)
    BY <2>1, <2>2
  <2>4. \A i \in 1 .. n : /\ chain.index + i - 1 \in Nat
                          /\ chain.index <= chain.index + i - 1 /\ chain.index + i - 1 < target
    BY <1>2
  <2>5. ASSUME NEW c \in Nat, chain.index <= c, c < target PROVE \E i \in DOMAIN f : f[i].counter = c
    <3>1. c - chain.index + 1 \in 1 .. n /\ chain.index + (c - chain.index + 1) - 1 = c
      BY <1>2, <2>5
    <3>2. QED
      BY <2>3, <3>1
  <2>6. QED
    BY <1>1, <2>3, <2>4, <2>5 DEF f
<1>4. CASE FillOutcome(chain, target) # "ok"
  <2>1. f = <<>>
    BY <1>4 DEF FilledKeys
  <2>2. QED
    BY <1>1, <1>4, <2>1
<1>5. QED
  BY <1>3, <1>4

\* What is in a sequence with another one behind it.
Joined(q, r) == q \o r

LEMMA JoinedElements ==
  ASSUME NEW T, NEW q \in Seq(T), NEW r \in Seq(T)
  PROVE  /\ Joined(q, r) \in Seq(T)
         /\ \A i \in DOMAIN q : i \in DOMAIN Joined(q, r) /\ Joined(q, r)[i] = q[i]
         /\ \A i \in DOMAIN r : \E j \in DOMAIN Joined(q, r) : Joined(q, r)[j] = r[i]
         /\ \A i \in DOMAIN Joined(q, r) : (\E j \in DOMAIN q : Joined(q, r)[i] = q[j])
                                        \/ (\E j \in DOMAIN r : Joined(q, r)[i] = r[j])
<1>1. PICK both : both = Joined(q, r)
  OBVIOUS
<1>2. /\ both \in Seq(T) /\ Len(both) = Len(q) + Len(r)
      /\ \A i \in 1 .. Len(q) + Len(r) : both[i] = IF i <= Len(q) THEN q[i] ELSE r[i - Len(q)]
  BY <1>1, ConcatProperties DEF Joined
<1>3. /\ Len(q) \in Nat /\ Len(r) \in Nat /\ DOMAIN q = 1 .. Len(q) /\ DOMAIN r = 1 .. Len(r)
      /\ DOMAIN both = 1 .. Len(q) + Len(r)
  BY <1>2, LenProperties
<1>4. \A i \in DOMAIN q : i \in DOMAIN both /\ both[i] = q[i]
  BY <1>2, <1>3
<1>5. ASSUME NEW i \in DOMAIN r PROVE \E j \in DOMAIN both : both[j] = r[i]
  <2>1. Len(q) + i \in DOMAIN both /\ ~(Len(q) + i <= Len(q)) /\ (Len(q) + i) - Len(q) = i
    BY <1>3
  <2>2. both[Len(q) + i] = r[i]
    BY <1>2, <1>3, <2>1
  <2>3. QED
    BY <2>1, <2>2
<1>6. ASSUME NEW i \in DOMAIN both
      PROVE  (\E j \in DOMAIN q : both[i] = q[j]) \/ (\E j \in DOMAIN r : both[i] = r[j])
  <2>1. CASE i <= Len(q)
    BY <1>2, <1>3, <2>1
  <2>2. CASE ~(i <= Len(q))
    <3>1. i - Len(q) \in DOMAIN r
      BY <1>3, <2>2
    <3>2. both[i] = r[i - Len(q)]
      BY <1>2, <1>3, <2>2
    <3>3. QED
      BY <3>1, <3>2
  <2>3. QED
    BY <2>1, <2>2
<1>7. QED
  BY <1>1, <1>2, <1>4, <1>5, <1>6

\* Skipped keys with those of a jump behind them.
LEMMA FilledElements ==
  ASSUME NEW skipped \in Seq(Skipped), NEW chain \in Chain, NEW target \in Nat, NEW key \in Key,
         NEW more, more = Joined(skipped, FilledKeys(chain, target, key))
  PROVE  /\ \A k \in DOMAIN skipped : k \in DOMAIN more /\ more[k] = skipped[k]
         /\ \A k \in DOMAIN more :
              \/ \E l \in DOMAIN skipped : more[k] = skipped[l]
              \/ more[k].ratchet_key = key /\ more[k].keys = MessageKeys(chain, more[k].counter)
         /\ FillOutcome(chain, target) = "ok" =>
              \A c \in Nat : chain.index <= c /\ c < target =>
                \E k \in DOMAIN more : more[k].ratchet_key = key /\ more[k].counter = c
<1>1. PICK f : f = FilledKeys(chain, target, key)
  OBVIOUS
<1>2. /\ f \in Seq(Skipped)
      /\ \A i \in DOMAIN f : /\ f[i].ratchet_key = key /\ f[i].keys = MessageKeys(chain, f[i].counter)
      /\ FillOutcome(chain, target) = "ok" =>
           \A c \in Nat : chain.index <= c /\ c < target => \E i \in DOMAIN f : f[i].counter = c
  BY <1>1, FilledKeysFields
<1>3. /\ \A i \in DOMAIN skipped : i \in DOMAIN more /\ more[i] = skipped[i]
      /\ \A i \in DOMAIN f : \E j \in DOMAIN more : more[j] = f[i]
      /\ \A i \in DOMAIN more : (\E j \in DOMAIN skipped : more[i] = skipped[j])
                             \/ (\E j \in DOMAIN f : more[i] = f[j])
  <2>1. more = Joined(skipped, f) /\ skipped \in Seq(Skipped) /\ f \in Seq(Skipped)
    BY <1>1, <1>2
  <2>2. QED
    BY <2>1, JoinedElements
<1>4. ASSUME NEW k \in DOMAIN more
      PROVE  \/ \E l \in DOMAIN skipped : more[k] = skipped[l]
             \/ more[k].ratchet_key = key /\ more[k].keys = MessageKeys(chain, more[k].counter)
  BY <1>2, <1>3
<1>5. ASSUME FillOutcome(chain, target) = "ok", NEW c \in Nat, chain.index <= c, c < target
      PROVE  \E k \in DOMAIN more : more[k].ratchet_key = key /\ more[k].counter = c
  <2>1. PICK l \in DOMAIN f : f[l].counter = c /\ f[l].ratchet_key = key
    BY <1>2, <1>5
  <2>2. PICK k \in DOMAIN more : more[k] = f[l]
    BY <1>3
  <2>3. QED
    BY <2>1, <2>2
<1>6. QED
  BY <1>3, <1>4, <1>5

\* What the two sides' link depends on.
SameLinks(s, u) ==
  /\ u.root_key = s.root_key
  /\ u.our_ratchet_key = s.our_ratchet_key /\ u.their_ratchet_key = s.their_ratchet_key
  /\ u.sending_chain.key = s.sending_chain.key
  /\ u.sending_chain_remote_key = s.sending_chain_remote_key
  /\ Receiving(u).key = Receiving(s).key

LEMMA LinkedStays ==
  ASSUME NEW s, NEW t, NEW u, Linked(s, t), SameLinks(s, u)
  PROVE  Linked(u, t)
BY DEF Linked, SameLinks, Level, Ahead, NeedsRatchet

LEMMA LinkedBoth ==
  ASSUME NEW s, NEW t, Linked(s, t)
  PROVE  Linked(t, s)
BY DEF Linked

\* An element that stays when another is removed.
LEMMA RemoveAtKeeps ==
  ASSUME NEW T, NEW q \in Seq(T), NEW pos \in DOMAIN q, NEW less, less = RemoveAt(q, pos)
  PROVE  /\ less \in Seq(T)
         /\ \A l \in DOMAIN q : l # pos => \E j \in DOMAIN less : less[j] = q[l]
         /\ \A j \in DOMAIN less : \E l \in DOMAIN q \ {pos} : less[j] = q[l]
         /\ \A j, k \in DOMAIN less : j <= k =>
              \E l, n \in DOMAIN q \ {pos} : /\ l <= n /\ less[j] = q[l] /\ less[k] = q[n]
                                             /\ (l = n => j = k)
<1>1. DOMAIN q = 1 .. Len(q) /\ Len(q) \in Nat
  BY LenProperties
<1>2. less \in Seq(T) /\ Len(less) = Len(q) - 1
  BY <1>1, RemoveAtType
<1>3. DOMAIN less = 1 .. Len(q) - 1
  BY <1>2, LenProperties
<1> DEFINE at(j) == IF j < pos THEN j ELSE j + 1
<1>4. \A j \in DOMAIN less : less[j] = q[at(j)]
  BY <1>1, RemoveAtElements
<1>5. \A j \in DOMAIN less : at(j) \in DOMAIN q \ {pos}
  BY <1>1, <1>3
<1>6. \A j, k \in DOMAIN less : j <= k => at(j) <= at(k) /\ (at(j) = at(k) => j = k)
  BY <1>1, <1>3
<1>7. ASSUME NEW l \in DOMAIN q, l # pos PROVE \E j \in DOMAIN less : less[j] = q[l]
  <2> DEFINE j == IF l < pos THEN l ELSE l - 1
  <2>1. j \in DOMAIN less /\ at(j) = l
    BY <1>1, <1>3, <1>7
  <2>2. QED
    BY <1>4, <2>1
<1> HIDE DEF at
<1>8. \A j \in DOMAIN less : \E l \in DOMAIN q \ {pos} : less[j] = q[l]
  BY <1>4, <1>5
<1>9. ASSUME NEW j \in DOMAIN less, NEW k \in DOMAIN less, j <= k
      PROVE  \E l, n \in DOMAIN q \ {pos} : /\ l <= n /\ less[j] = q[l] /\ less[k] = q[n]
                                            /\ (l = n => j = k)
  BY <1>4, <1>5, <1>6, <1>9
<1>10. QED
  BY <1>2, <1>7, <1>8, <1>9

\* A message is taken out of the queue: the others are as they were, if the session
\* that took it can still read them.
LEMMA FollowsLess ==
  ASSUME NEW u, NEW v, NEW t, NEW q \in Seq(Message), NEW i \in DOMAIN q,
         NEW less, less = RemoveAt(q, i), Follows(u, t, q),
         v.their_ratchet_key = u.their_ratchet_key,
         DOMAIN v.receiving_chains = DOMAIN u.receiving_chains,
         KeptFits(v, t),
         v.their_ratchet_key = t.our_ratchet_key => Receiving(v).index <= t.sending_chain.index,
         \A j \in DOMAIN q \ {i} :
           q[j].ratchet_key = u.their_ratchet_key /\ Readable(u, q[j]) => Readable(v, q[j])
  PROVE  Follows(v, t, less)
<1>1. /\ \A j \in DOMAIN less : \E l \in DOMAIN q \ {i} : less[j] = q[l]
      /\ \A j, k \in DOMAIN less : j <= k =>
           \E l, n \in DOMAIN q \ {i} : l <= n /\ less[j] = q[l] /\ less[k] = q[n]
  <2>1. /\ \A j \in DOMAIN less : \E l \in DOMAIN q \ {i} : less[j] = q[l]
        /\ \A j, k \in DOMAIN less : j <= k =>
             \E l, n \in DOMAIN q \ {i} : /\ l <= n /\ less[j] = q[l] /\ less[k] = q[n]
                                          /\ (l = n => j = k)
    BY RemoveAtKeeps
  <2>2. QED
    BY <2>1
<1>2. \A j \in DOMAIN less : less[j].ratchet_key \in {v.their_ratchet_key, t.our_ratchet_key}
  BY <1>1 DEF Follows
<1>3. InTurn(less, t.our_ratchet_key)
  BY <1>1 DEF Follows, InTurn
<1>4. \A j \in DOMAIN less : less[j].ratchet_key = v.their_ratchet_key => Readable(v, less[j])
  BY <1>1 DEF Follows
<1>5. QED
  BY <1>2, <1>3, <1>4 DEF Follows

\* A message of a chain not yet known starts it: the ratchets are level then, and
\* the whole queue is of the new chain.
LEMMA StepFollows ==
  ASSUME NEW s, IsSession(s), NEW t, IsSession(t), NEW q \in Seq(Message), NEW i \in DOMAIN q,
         NEW m, m = q[i], Linked(s, t), Follows(s, t, q),
         \A j \in DOMAIN q : j <= i => q[j].ratchet_key = m.ratchet_key,
         \A j \in DOMAIN q : q[j].ratchet_key = t.our_ratchet_key =>
           q[j].keys = MessageKeys(t.sending_chain, q[j].counter)
  PROVE  LET u == StepReceivingRatchet(s, m)
         IN  /\ IsSession(u) /\ u.their_ratchet_key = m.ratchet_key
             /\ Linked(u, t) /\ Follows(u, t, q)
             /\ \A k \in DOMAIN u.skipped_message_keys :
                  \/ u.skipped_message_keys[k].ratchet_key = s.their_ratchet_key
                  \/ \E l \in DOMAIN s.skipped_message_keys :
                       u.skipped_message_keys[k] = s.skipped_message_keys[l]
<1>1. PICK u : u = StepReceivingRatchet(s, m)
  OBVIOUS
<1>2. m \in Message /\ DOMAIN q = 1 .. Len(q) /\ Len(q) \in Nat
  BY LenProperties, ElementOfSeq
<1>3. IsSession(u)
  BY <1>1, <1>2, StepType
<1>4. DOMAIN s.receiving_chains = {s.their_ratchet_key}
  BY DEF Follows
<1>5. CASE m.ratchet_key = s.their_ratchet_key
  <2>1. u = s
    BY <1>1, <1>4, <1>5 DEF StepReceivingRatchet
  <2>2. QED
    BY <1>1, <1>3, <1>5, <2>1
<1>6. CASE m.ratchet_key # s.their_ratchet_key
  <2>1. m.ratchet_key = t.our_ratchet_key /\ s.their_ratchet_key # t.our_ratchet_key
    BY <1>6 DEF Follows
  <2>2. Ahead(t, s)
    BY <2>1 DEF Linked, Level, Ahead
  <2> DEFINE old    == s.their_ratchet_key
             root   == KdfRoot(s.root_key, DiffieHellman(s.our_ratchet_key, m.ratchet_key))
             chains == [k \in ({old} \ {old}) \cup {m.ratchet_key} |->
                          IF k = m.ratchet_key THEN NewChain(root, 0) ELSE s.receiving_chains[k]]
             more   == FilledKeys(s.receiving_chains[old], m.previous_counter, old)
             both   == s.skipped_message_keys \o more
  <2>3. u = [s EXCEPT !.root_key = root, !.receiving_chains = chains,
                      !.skipped_message_keys = both, !.their_ratchet_key = m.ratchet_key]
    BY <1>1, <1>4, <1>6 DEF StepReceivingRatchet
  <2>4. HasFields(s)
    BY SessionParts
  <2>5. root = t.root_key
    BY <2>1, <2>2 DEF Ahead
  <2>6. DOMAIN chains = {m.ratchet_key} /\ chains[m.ratchet_key] = NewChain(root, 0)
    OBVIOUS
  <2>7. /\ s.skipped_message_keys \in Seq(Skipped)
        /\ s.receiving_chains[old] \in Chain /\ old \in Key /\ m.previous_counter \in Nat
    BY <1>2, <1>4 DEF IsSession, Message
  <2>8. PICK first, c, n, k : /\ first = s.skipped_message_keys /\ c = s.receiving_chains[old]
                              /\ n = m.previous_counter /\ k = old
    OBVIOUS
  <2> HIDE DEF root, chains
  <2>9. \A j \in DOMAIN both : \/ both[j].ratchet_key = old
                               \/ \E l \in DOMAIN s.skipped_message_keys : both[j] = s.skipped_message_keys[l]
    <3>1. /\ first \in Seq(Skipped) /\ c \in Chain /\ n \in Nat /\ k \in Key
          /\ both = Joined(first, FilledKeys(c, n, k))
      BY <2>7, <2>8 DEF Joined
    <3> HIDE DEF old, both, more
    <3>2. \A j \in DOMAIN both : \/ \E l \in DOMAIN first : both[j] = first[l]
                                 \/ both[j].ratchet_key = k
      BY <3>1, FilledElements
    <3>3. QED
      BY <2>8, <3>2
  <2> HIDE DEF both, more
  <2>10. /\ u.root_key = root /\ u.receiving_chains = chains /\ u.skipped_message_keys = both
         /\ u.their_ratchet_key = m.ratchet_key /\ u.our_ratchet_key = s.our_ratchet_key
         /\ u.sending_chain = s.sending_chain
         /\ u.sending_chain_remote_key = s.sending_chain_remote_key
    BY <2>3, <2>4 DEF HasFields
  <2>11. Receiving(u) = NewChain(root, 0) /\ Receiving(u).key = root /\ Receiving(u).index = 0
    BY <2>6, <2>10 DEF Receiving, NewChain
  <2>12. Level(u, t)
    BY <2>1, <2>2, <2>5, <2>10, <2>11 DEF Level, Ahead, NeedsRatchet
  <2>13. \A j \in DOMAIN q : q[j].ratchet_key = m.ratchet_key
    <3>1. \A j \in DOMAIN q : j <= i \/ i <= j
      BY <1>2
    <3>2. QED
      BY <2>1, <3>1 DEF Follows, InTurn
  <2>14. \A j \in DOMAIN q : Readable(u, q[j])
    <3>1. ASSUME NEW j \in DOMAIN q PROVE Readable(u, q[j])
      <4>1. q[j].keys = MessageKeys(t.sending_chain, q[j].counter)
        BY <2>1, <2>13
      <4>2. q[j].keys = MessageKeys(Receiving(u), q[j].counter)
        BY <2>2, <2>5, <2>11, <4>1 DEF Ahead, MessageKeys
      <4>3. q[j].counter \in Nat
        <5>1. q[j] \in Message
          BY <1>2, ElementOfSeq
        <5>2. QED
          BY <5>1 DEF Message
      <4>4. ~(q[j].counter < Receiving(u).index)
        BY <2>11, <4>3
      <4>5. QED
        BY <4>2, <4>4 DEF Readable
    <3>2. QED
      BY <3>1
  <2>15. KeptFits(u, t)
    <3>1. \A j \in DOMAIN both : both[j].ratchet_key # t.our_ratchet_key
      BY <2>1, <2>9 DEF KeptFits, Follows
    <3>2. QED
      BY <2>1, <2>10, <3>1 DEF KeptFits
  <2>16. Receiving(u).index <= t.sending_chain.index
    <3>1. t.sending_chain.index \in Nat
      BY DEF IsSession, Chain
    <3>2. QED
      BY <2>11, <3>1
  <2>17. Follows(u, t, q)
    BY <2>6, <2>10, <2>13, <2>14, <2>15, <2>16 DEF Follows
  <2>18. QED
    BY <1>1, <1>3, <2>9, <2>10, <2>12, <2>17 DEF Linked
<1>7. QED
  BY <1>5, <1>6

\* What the message keys of a chain are, and where a skipped one is found.
LEMMA SomeSkipped ==
  ASSUME NEW s, NEW m
  PROVE  SkippedAt(s, m) # {} <=>
           \E k \in DOMAIN s.skipped_message_keys :
             /\ s.skipped_message_keys[k].ratchet_key = m.ratchet_key
             /\ s.skipped_message_keys[k].counter = m.counter
BY DEF SkippedAt

\* A readable message of the current chain is read, unless the gap is too large;
\* what the session can read of the others it still can.
LEMMA ConsumeFits ==
  ASSUME NEW u, IsSession(u), NEW t, IsSession(t), NEW q \in Seq(Message), NEW i \in DOMAIN q,
         NEW m, m = q[i], NEW less, less = RemoveAt(q, i), Linked(u, t), Follows(u, t, q),
         m.ratchet_key = u.their_ratchet_key,
         \A j \in DOMAIN q \ {i} : q[j].ratchet_key = m.ratchet_key => q[j].counter # m.counter,
         m.ratchet_key = t.our_ratchet_key => m.counter < t.sending_chain.index,
         NEW d, d = Consume(u, m)
  PROVE  /\ d.outcome \in {"ok", "MessageGapTooLarge"}
         /\ Linked(d.session, t) /\ Follows(d.session, t, less)
         /\ \A k \in DOMAIN d.session.skipped_message_keys :
              \/ d.session.skipped_message_keys[k].ratchet_key = u.their_ratchet_key
              \/ \E l \in DOMAIN u.skipped_message_keys :
                   d.session.skipped_message_keys[k] = u.skipped_message_keys[l]
<1> DEFINE kept  == u.skipped_message_keys
           chain == Receiving(u)
<1>1. HasFields(u) /\ kept \in Seq(Skipped) /\ DOMAIN kept = 1 .. Len(kept) /\ Len(kept) \in Nat
  BY SessionParts, LenProperties
<1>2. /\ DOMAIN u.receiving_chains = {u.their_ratchet_key}
      /\ chain = u.receiving_chains[m.ratchet_key] /\ chain \in Chain
  BY DEF Follows, Receiving, IsSession
<1>3. /\ m \in Message /\ m.counter \in Nat /\ m.ratchet_key \in Key
      /\ chain.index \in Nat /\ t.sending_chain.index \in Nat
      /\ \A j \in DOMAIN q : q[j] \in Message /\ q[j].counter \in Nat
  <2>1. \A j \in DOMAIN q : q[j] \in Message
    BY LenProperties, ElementOfSeq
  <2>2. QED
    BY <1>2, <2>1 DEF Message, Chain, IsSession
<1>4. Readable(u, m) /\ KeptFits(u, t)
  BY DEF Follows
<1> HIDE DEF kept, chain
<1>5. ASSUME NEW v, v.their_ratchet_key = u.their_ratchet_key, SameLinks(u, v),
             DOMAIN v.receiving_chains = DOMAIN u.receiving_chains, KeptFits(v, t),
             v.their_ratchet_key = t.our_ratchet_key => Receiving(v).index <= t.sending_chain.index,
             \A j \in DOMAIN q \ {i} :
               q[j].ratchet_key = u.their_ratchet_key /\ Readable(u, q[j]) => Readable(v, q[j])
      PROVE  Linked(v, t) /\ Follows(v, t, less)
  BY <1>5, LinkedStays, FollowsLess
<1>6. CASE m.counter < chain.index
  <2>1. SkippedAt(u, m) # {} /\ SkippedAt(u, m) \in SUBSET (1 .. Len(kept))
    BY <1>1, <1>4, <1>6 DEF Readable, SkippedAt, kept, chain
  <2>2. PICK pos : pos = Min(SkippedAt(u, m))
    OBVIOUS
  <2>3. SkippedAt(u, m) \in SUBSET Nat
    BY <1>1, <2>1
  <2>4. pos \in SkippedAt(u, m)
    BY <2>1, <2>2, <2>3, MinType
  <2>5. /\ pos \in DOMAIN kept
        /\ kept[pos].ratchet_key = m.ratchet_key /\ kept[pos].counter = m.counter
    BY <2>4 DEF SkippedAt, kept
  <2>6. kept[pos].keys = m.keys
    BY <1>4, <2>5 DEF KeptFits, Readable, kept, chain
  <2>7. PICK v : v = TakeSkipped(u, pos)
    OBVIOUS
  <2>8. d = [session |-> v, outcome |-> "ok"]
    <3>1. d = CheckMac(TakeSkipped(u, pos), kept[pos].keys, m)
      BY <1>2, <1>6, <2>1, <2>2 DEF Consume, kept
    <3>2. QED
      BY <2>6, <2>7, <3>1 DEF CheckMac
  <2>9. PICK rest : rest = RemoveAt(kept, pos)
    OBVIOUS
  <2>10. /\ v.skipped_message_keys = rest /\ v.receiving_chains = u.receiving_chains
         /\ v.their_ratchet_key = u.their_ratchet_key /\ SameLinks(u, v)
         /\ Receiving(v) = Receiving(u)
    <3>1. v = [u EXCEPT !.skipped_message_keys = rest]
      BY <2>7, <2>9 DEF TakeSkipped, kept
    <3>2. QED
      BY <1>1, <3>1 DEF HasFields, SameLinks, Receiving
  <2>11. /\ \A l \in DOMAIN kept : l # pos => \E j \in DOMAIN rest : rest[j] = kept[l]
         /\ \A j \in DOMAIN rest : \E l \in DOMAIN kept \ {pos} : rest[j] = kept[l]
    <3>1. kept \in Seq(Skipped) /\ pos \in DOMAIN kept /\ rest = RemoveAt(kept, pos)
      BY <1>1, <2>5, <2>9
    <3>2. QED
      BY <3>1, RemoveAtKeeps
  <2>12. ASSUME NEW j \in DOMAIN q \ {i}, q[j].ratchet_key = u.their_ratchet_key, Readable(u, q[j])
         PROVE  Readable(v, q[j])
    <3>1. ASSUME SkippedAt(u, q[j]) # {} PROVE SkippedAt(v, q[j]) # {}
      <4>1. PICK l \in DOMAIN kept : kept[l].ratchet_key = q[j].ratchet_key /\ kept[l].counter = q[j].counter
        BY <3>1, SomeSkipped DEF kept
      <4>2. l # pos
        BY <2>5, <2>12, <4>1
      <4>3. QED
        BY <2>10, <2>11, <4>1, <4>2, SomeSkipped
    <3>2. QED
      BY <2>10, <2>12, <3>1 DEF Readable
  <2>13. KeptFits(v, t)
    BY <1>4, <2>10, <2>11 DEF KeptFits, kept
  <2>14. v.their_ratchet_key = t.our_ratchet_key => Receiving(v).index <= t.sending_chain.index
    BY <2>10 DEF Follows
  <2>15. Linked(v, t) /\ Follows(v, t, less)
    BY <1>5, <2>10, <2>12, <2>13, <2>14
  <2>16. QED
    BY <2>8, <2>10, <2>11, <2>15 DEF kept
<1>7. CASE ~(m.counter < chain.index) /\ FillOutcome(chain, m.counter) # "ok"
  <2>1. FillOutcome(chain, m.counter) = "MessageGapTooLarge"
    BY <1>7 DEF FillOutcome
  <2>2. d = [session |-> u, outcome |-> "MessageGapTooLarge"]
    BY <1>2, <1>7, <2>1 DEF Consume, Fail
  <2>3. Linked(u, t) /\ Follows(u, t, less)
    <3>1. SameLinks(u, u)
      BY DEF SameLinks
    <3>2. u.their_ratchet_key = t.our_ratchet_key => Receiving(u).index <= t.sending_chain.index
      BY DEF Follows
    <3>3. QED
      BY <1>4, <1>5, <3>1, <3>2
  <2>4. QED
    BY <2>2, <2>3
<1>8. CASE ~(m.counter < chain.index) /\ FillOutcome(chain, m.counter) = "ok"
  <2> DEFINE moved  == [chain EXCEPT !.index = m.counter + 1]
             chains == [u.receiving_chains EXCEPT ![m.ratchet_key] = moved]
  <2>1. PICK v, more : v = Advance(u, m) /\ more = Joined(kept, FilledKeys(chain, m.counter, m.ratchet_key))
    OBVIOUS
  <2>2. m.keys = MessageKeys(chain, m.counter)
    BY <1>4 DEF Readable, chain
  <2>3. d = [session |-> v, outcome |-> "ok"]
    BY <1>2, <1>8, <2>1, <2>2 DEF Consume, CheckMac
  <2>4. v = [u EXCEPT !.receiving_chains = chains, !.skipped_message_keys = more]
    BY <1>2, <2>1 DEF Advance, Joined, kept
  <2>5. /\ DOMAIN chains = DOMAIN u.receiving_chains /\ chains[m.ratchet_key] = moved
        /\ moved.key = chain.key /\ moved.index = m.counter + 1
    BY <1>2 DEF Chain
  <2> HIDE DEF chains, moved
  <2>6. /\ v.skipped_message_keys = more /\ v.receiving_chains = chains
        /\ v.their_ratchet_key = u.their_ratchet_key
        /\ v.root_key = u.root_key /\ v.our_ratchet_key = u.our_ratchet_key
        /\ v.sending_chain = u.sending_chain
        /\ v.sending_chain_remote_key = u.sending_chain_remote_key
    BY <1>1, <2>4 DEF HasFields
  <2>7. /\ Receiving(v) = moved /\ Receiving(v).key = chain.key
        /\ Receiving(v).index = m.counter + 1 /\ SameLinks(u, v)
    BY <2>5, <2>6 DEF Receiving, SameLinks, chain
  <2>8. \A c : MessageKeys(Receiving(v), c) = MessageKeys(chain, c)
    BY <2>7 DEF MessageKeys
  <2>9. /\ \A k \in DOMAIN kept : k \in DOMAIN more /\ more[k] = kept[k]
        /\ \A k \in DOMAIN more :
             \/ \E l \in DOMAIN kept : more[k] = kept[l]
             \/ more[k].ratchet_key = m.ratchet_key /\ more[k].keys = MessageKeys(chain, more[k].counter)
        /\ \A c \in Nat : chain.index <= c /\ c < m.counter =>
             \E k \in DOMAIN more : more[k].ratchet_key = m.ratchet_key /\ more[k].counter = c
    <3>1. /\ kept \in Seq(Skipped) /\ chain \in Chain /\ m.counter \in Nat /\ m.ratchet_key \in Key
          /\ more = Joined(kept, FilledKeys(chain, m.counter, m.ratchet_key))
          /\ FillOutcome(chain, m.counter) = "ok"
      BY <1>1, <1>2, <1>3, <1>8, <2>1
    <3>2. PICK c, key : c = m.counter /\ key = m.ratchet_key
      OBVIOUS
    <3>3. QED
      BY <3>1, <3>2, FilledElements
  <2>10. ASSUME NEW j \in DOMAIN q \ {i}, q[j].ratchet_key = u.their_ratchet_key, Readable(u, q[j])
         PROVE  Readable(v, q[j])
    <3>1. q[j].keys = MessageKeys(Receiving(v), q[j].counter)
      BY <2>8, <2>10 DEF Readable, chain
    <3>2. ASSUME q[j].counter < Receiving(v).index PROVE SkippedAt(v, q[j]) # {}
      <4>1. q[j].counter # m.counter /\ q[j].counter < m.counter + 1
        BY <2>7, <2>10, <3>2
      <4>2. q[j].counter < m.counter
        BY <1>3, <4>1
      <4>3. CASE q[j].counter < chain.index
        <5>1. PICK l \in DOMAIN kept : kept[l].ratchet_key = q[j].ratchet_key /\ kept[l].counter = q[j].counter
          BY <2>10, <4>3, SomeSkipped DEF Readable, kept, chain
        <5>2. l \in DOMAIN v.skipped_message_keys /\ v.skipped_message_keys[l] = kept[l]
          BY <2>6, <2>9
        <5>3. QED
          BY <5>1, <5>2, SomeSkipped
      <4>4. CASE ~(q[j].counter < chain.index)
        <5>1. chain.index <= q[j].counter
          BY <1>3, <4>4
        <5>2. PICK k \in DOMAIN more : more[k].ratchet_key = m.ratchet_key /\ more[k].counter = q[j].counter
          BY <1>3, <2>9, <4>2, <5>1
        <5>3. QED
          BY <2>6, <2>10, <5>2, SomeSkipped
      <4>5. QED
        BY <4>3, <4>4
    <3>3. QED
      BY <3>1, <3>2 DEF Readable
  <2>11. KeptFits(v, t)
    <3>1. ASSUME NEW k \in DOMAIN more
          PROVE  /\ more[k].ratchet_key = v.their_ratchet_key =>
                      more[k].keys = MessageKeys(Receiving(v), more[k].counter)
                 /\ more[k].ratchet_key = t.our_ratchet_key => v.their_ratchet_key = t.our_ratchet_key
      <4>1. CASE \E l \in DOMAIN kept : more[k] = kept[l]
        BY <1>4, <2>6, <2>8, <4>1 DEF KeptFits, kept, chain
      <4>2. CASE more[k].ratchet_key = m.ratchet_key /\ more[k].keys = MessageKeys(chain, more[k].counter)
        BY <2>6, <2>8, <4>2
      <4>3. QED
        BY <2>9, <4>1, <4>2
    <3>2. QED
      BY <2>6, <3>1 DEF KeptFits
  <2>12. v.their_ratchet_key = t.our_ratchet_key => Receiving(v).index <= t.sending_chain.index
    BY <1>3, <2>6, <2>7
  <2>13. Linked(v, t) /\ Follows(v, t, less)
    BY <1>5, <2>5, <2>6, <2>7, <2>10, <2>11, <2>12
  <2>14. QED
    BY <2>3, <2>6, <2>9, <2>13 DEF kept
<1>9. QED
  BY <1>6, <1>7, <1>8

\* What decrypt does to a session that is in step with its peer's.
LEMMA DecryptFits ==
  ASSUME NEW s, IsSession(s), NEW t, IsSession(t), NEW q \in Seq(Message), NEW i \in DOMAIN q,
         NEW m, m = q[i], NEW less, less = RemoveAt(q, i), Linked(s, t), Follows(s, t, q),
         \A j \in DOMAIN q : j <= i => q[j].ratchet_key = m.ratchet_key,
         \A j \in DOMAIN q : q[j].ratchet_key = t.our_ratchet_key =>
           q[j].keys = MessageKeys(t.sending_chain, q[j].counter) /\ q[j].counter < t.sending_chain.index,
         \A j \in DOMAIN q \ {i} : q[j].ratchet_key = m.ratchet_key => q[j].counter # m.counter,
         NEW d, d = Decrypt(s, m)
  PROVE  /\ d.outcome \in {"ok", "MessageGapTooLarge"}
         /\ Linked(d.session, t) /\ Follows(d.session, t, less)
         /\ \A k \in DOMAIN d.session.skipped_message_keys :
              \/ d.session.skipped_message_keys[k].ratchet_key \in {s.their_ratchet_key, m.ratchet_key}
              \/ \E l \in DOMAIN s.skipped_message_keys :
                   d.session.skipped_message_keys[k] = s.skipped_message_keys[l]
<1>1. PICK u : u = StepReceivingRatchet(s, m)
  OBVIOUS
<1>2. /\ IsSession(u) /\ u.their_ratchet_key = m.ratchet_key
      /\ Linked(u, t) /\ Follows(u, t, q)
      /\ \A k \in DOMAIN u.skipped_message_keys :
           \/ u.skipped_message_keys[k].ratchet_key = s.their_ratchet_key
           \/ \E l \in DOMAIN s.skipped_message_keys :
                u.skipped_message_keys[k] = s.skipped_message_keys[l]
  BY <1>1, StepFollows
<1>3. d = Consume(u, m)
  BY <1>1 DEF Decrypt
<1>4. m.ratchet_key = t.our_ratchet_key => m.counter < t.sending_chain.index
  OBVIOUS
<1>5. /\ d.outcome \in {"ok", "MessageGapTooLarge"}
      /\ Linked(d.session, t) /\ Follows(d.session, t, less)
      /\ \A k \in DOMAIN d.session.skipped_message_keys :
           \/ d.session.skipped_message_keys[k].ratchet_key = u.their_ratchet_key
           \/ \E l \in DOMAIN u.skipped_message_keys :
                d.session.skipped_message_keys[k] = u.skipped_message_keys[l]
  BY <1>2, <1>3, <1>4, ConsumeFits
<1>6. QED
  BY <1>2, <1>5

\* The other way round, only what is sent with counts.
LEMMA FollowsPeer ==
  ASSUME NEW s, NEW t, NEW u, NEW q, Follows(t, s, q),
         u.our_ratchet_key = s.our_ratchet_key, u.sending_chain = s.sending_chain
  PROVE  Follows(t, u, q)
BY DEF Follows, KeptFits

\* What is on its way to a device was sent by its peer, with the keys the peer has.
Arriving(r, t, q) ==
  /\ q \in Seq(Message) /\ IsSession(t)
  /\ \A j \in DOMAIN q : q[j] \in sent[r] /\ Known(q[j].ratchet_key, r)
  /\ \A j \in DOMAIN q : q[j].ratchet_key = t.our_ratchet_key =>
       q[j].keys = MessageKeys(t.sending_chain, q[j].counter) /\ q[j].counter < t.sending_chain.index
  /\ \A j, k \in DOMAIN q :
       q[j].ratchet_key = q[k].ratchet_key /\ q[j].counter = q[k].counter => j = k

LEMMA QueueFacts ==
  ASSUME TypeOK, KeyInv, NEW p \in Device, NEW r, r = Peer(p), NEW t, t = session[r], t # None,
         NEW q, q = net[p], NoRepeats(q)
  PROVE  Arriving(r, t, q)
<1>1. r = Peer(p) /\ r \in Device
  BY PeerType
<1>2. q \in Seq(Message) /\ q \in Seq(sent[r]) /\ IsSession(t) /\ SessionInv(r, t)
  BY <1>1 DEF TypeOK, KeyInv
<1>3. \A j \in DOMAIN q : q[j] \in sent[r] /\ q[j] \in Message /\ SentInv(r, q[j])
  <2>1. \A j \in DOMAIN q : q[j] \in sent[r] /\ q[j] \in Message
    BY <1>2, LenProperties, ElementOfSeq
  <2>2. QED
    BY <1>1, <2>1 DEF KeyInv
<1>4. ASSUME NEW j \in DOMAIN q, q[j].ratchet_key = t.our_ratchet_key
      PROVE  q[j].keys = MessageKeys(t.sending_chain, q[j].counter) /\ q[j].counter < t.sending_chain.index
  <2>1. /\ q[j].keys[1] = t.sending_chain.key /\ q[j].counter < t.sending_chain.index
        /\ q[j].keys[2] = q[j].counter
    BY <1>2, <1>3, <1>4 DEF SessionInv, SentInv
  <2>2. q[j].keys \in RootKey \X Nat
    BY <1>3 DEF Message, MessageKey
  <2>3. q[j].keys = <<q[j].keys[1], q[j].keys[2]>>
    BY <2>2
  <2>4. QED
    BY <2>1, <2>3 DEF MessageKeys
<1>5. ASSUME NEW j \in DOMAIN q, NEW k \in DOMAIN q,
             q[j].ratchet_key = q[k].ratchet_key, q[j].counter = q[k].counter
      PROVE  j = k
  <2>1. q[j] = q[k]
    BY <1>1, <1>3, <1>5 DEF KeyInv
  <2>2. QED
    BY <2>1 DEF NoRepeats
<1>6. \A j \in DOMAIN q : q[j] \in sent[r] /\ Known(q[j].ratchet_key, r)
  BY <1>1, <1>3 DEF SentInv
<1>7. QED
  BY <1>2, <1>4, <1>5, <1>6 DEF Arriving

\* In order, what comes before the message delivered is of the same chain.
LEMMA InOrderDeliverable ==
  ASSUME TypeOK, network \in Network, InOrder, NEW p \in Device, NEW i \in Deliverable(p),
         NEW q, q = net[p]
  PROVE  i \in DOMAIN q /\ \A j \in DOMAIN q : j <= i => q[j].ratchet_key = q[i].ratchet_key
<1>1. i \in DOMAIN q /\ DOMAIN q = 1 .. Len(q) /\ Len(q) \in Nat
  BY LenProperties DEF Deliverable, TypeOK
<1>2. network.order \in {"fifo", "chain"}
  BY DEF InOrder, Network, Orders
<1>3. CASE network.order = "fifo"
  <2>1. i = 1
    BY <1>3 DEF Deliverable
  <2>2. \A j \in DOMAIN q : j <= 1 => j = 1
    BY <1>1
  <2>3. QED
    BY <1>1, <2>1, <2>2
<1>4. CASE network.order = "chain"
  <2>1. \A j \in 1 .. i : q[j].ratchet_key = q[i].ratchet_key
    BY <1>4 DEF Deliverable
  <2>2. \A j \in DOMAIN q : j <= i => j \in 1 .. i
    BY <1>1
  <2>3. QED
    BY <1>1, <2>1, <2>2
<1>5. QED
  BY <1>2, <1>3, <1>4

\* Taking a message out leaves no message twice.
LEMMA NoRepeatsLess ==
  ASSUME NEW T, NEW q \in Seq(T), NEW i \in DOMAIN q, NoRepeats(q), NEW less, less = RemoveAt(q, i)
  PROVE  NoRepeats(less)
<1>1. \A j, k \in DOMAIN less : j <= k =>
        \E l, n \in DOMAIN q \ {i} : /\ l <= n /\ less[j] = q[l] /\ less[k] = q[n]
                                     /\ (l = n => j = k)
  BY RemoveAtKeeps
<1>2. \A j, k \in DOMAIN less : j <= k /\ less[j] = less[k] => j = k
  BY <1>1 DEF NoRepeats
<1>3. \A j, k \in DOMAIN less : j <= k \/ k <= j
  <2>1. less \in Seq(T)
    BY RemoveAtKeeps
  <2>2. DOMAIN less = 1 .. Len(less) /\ Len(less) \in Nat
    BY <2>1, LenProperties
  <2>3. QED
    BY <2>2
<1>4. QED
  BY <1>2, <1>3 DEF NoRepeats

\* What a delivery changes.
LEMMA ReceiveFrame ==
  ASSUME TypeOK, NEW p \in Device, NEW m, Receive(p, m), NEW d, d = DecryptMessage(p, m)
  PROVE  /\ session'[p] = d.session /\ \A r \in Device : r # p => session'[r] = session[r]
         /\ generated' = generated /\ sent' = sent
         /\ \A r \in Device : \A f \in failures'[r] :
              f \in failures[r] \/ (d.outcome # "ok" /\ f.error = d.outcome)
<1>1. /\ session' = [session EXCEPT ![p] = d.session]
      /\ generated' = generated /\ sent' = sent
      /\ \/ failures' = failures
         \/ /\ d.outcome # "ok"
            /\ failures' = [failures EXCEPT ![p] = failures[p] \cup {[text |-> m.text, error |-> d.outcome]}]
  BY DEF Receive
<1>2. DOMAIN session = Device /\ DOMAIN failures = Device
  BY DEF TypeOK
<1>3. \A r \in Device : \A f \in failures'[r] :
        f \in failures[r] \/ (d.outcome # "ok" /\ f.error = d.outcome)
  BY <1>1, <1>2
<1>4. QED
  BY <1>1, <1>2, <1>3

\* A message leaves the network: no message is twice in what stays.
LEMMA NetWithout ==
  ASSUME TypeOK, InStepInv, NEW p \in Device, NEW i \in DOMAIN net[p],
         net' = [net EXCEPT ![p] = RemoveAt(@, i)]
  PROVE  /\ net[p] \in Seq(Message) /\ net'[p] = RemoveAt(net[p], i)
         /\ \A r \in Device : r # p => net'[r] = net[r]
         /\ \A r \in Device : NoRepeats(net'[r])
<1>1. /\ net[p] \in Seq(Message) /\ net'[p] = RemoveAt(net[p], i)
      /\ \A r \in Device : r # p => net'[r] = net[r]
  BY DEF TypeOK
<1>2. PICK q, less : q = net[p] /\ less = net'[p]
  OBVIOUS
<1>3. q \in Seq(Message) /\ i \in DOMAIN q /\ NoRepeats(q) /\ less = RemoveAt(q, i)
  BY <1>1, <1>2 DEF InStepInv
<1>4. NoRepeats(less)
  BY <1>3, NoRepeatsLess
<1>5. \A r \in Device : r # p => NoRepeats(net'[r])
  BY <1>1 DEF InStepInv
<1>6. QED
  BY <1>1, <1>2, <1>4, <1>5

\* Both sides have a session: a delivery keeps them in step.
LEMMA ReceivePaired ==
  ASSUME NoneIsNoSession, TypeOK, KeyInv, InOrder, InStepInv, session[Bob] # None,
         NEW p \in Device, NEW i \in Deliverable(p), NEW m, m = net[p][i], m.pre_key = None,
         Receive(p, m), net' = [net EXCEPT ![p] = RemoveAt(@, i)], network' = network
  PROVE  InStepInv'
<1>1. PICK r, s, t, q, back, less, d :
        /\ r = Peer(p) /\ s = session[p] /\ t = session[r] /\ q = net[p] /\ back = net[r]
        /\ less = RemoveAt(q, i) /\ d = DecryptMessage(p, m)
  OBVIOUS
<1>2. /\ r \in Device /\ r # p /\ Peer(r) = p /\ Device = {p, r}
      /\ p \in {Alice, Bob} /\ r \in {Alice, Bob}
  BY <1>1, PeerType, DeviceAssumption DEF Peer
<1>3. /\ s # None /\ t # None /\ IsSession(s) /\ IsSession(t)
      /\ SessionInv(p, s) /\ SessionInv(r, t)
  BY <1>1, <1>2 DEF InStepInv, TypeOK, KeyInv
<1>4. /\ Linked(s, t) /\ Follows(s, t, q) /\ Follows(t, s, back)
  <2>1. Paired
    BY DEF InStepInv
  <2>2. Linked(s, t)
    BY <1>1, <1>2, <2>1, LinkedBoth DEF Paired
  <2>3. QED
    BY <1>1, <1>2, <2>1, <2>2 DEF Paired
<1>5. i \in DOMAIN q /\ m = q[i] /\ \A j \in DOMAIN q : j <= i => q[j].ratchet_key = m.ratchet_key
  BY <1>1, InOrderDeliverable DEF InStepInv
<1>6. /\ q \in Seq(Message)
      /\ \A j \in DOMAIN q : q[j] \in sent[r] /\ Known(q[j].ratchet_key, r)
      /\ \A j \in DOMAIN q : q[j].ratchet_key = t.our_ratchet_key =>
           q[j].keys = MessageKeys(t.sending_chain, q[j].counter) /\ q[j].counter < t.sending_chain.index
      /\ \A j, k \in DOMAIN q :
           q[j].ratchet_key = q[k].ratchet_key /\ q[j].counter = q[k].counter => j = k
  <2>1. q = net[p] /\ t = session[r] /\ t # None /\ NoRepeats(q)
    BY <1>1, <1>3 DEF InStepInv
  <2>2. r = Peer(p)
    BY <1>1
  <2>3. Arriving(r, t, q)
    BY <2>1, <2>2, QueueFacts
  <2>4. QED
    BY <2>3 DEF Arriving
<1>7. \A j \in DOMAIN q \ {i} : q[j].ratchet_key = m.ratchet_key => q[j].counter # m.counter
  BY <1>5, <1>6
<1>8. d = Decrypt(s, m)
  BY <1>1, <1>3 DEF DecryptMessage
<1>9. PICK u : u = d.session
  OBVIOUS
<1>10. /\ d.outcome \in {"ok", "MessageGapTooLarge"}
       /\ Linked(u, t) /\ Follows(u, t, less)
       /\ \A k \in DOMAIN u.skipped_message_keys :
            \/ u.skipped_message_keys[k].ratchet_key \in {s.their_ratchet_key, m.ratchet_key}
            \/ \E l \in DOMAIN s.skipped_message_keys :
                 u.skipped_message_keys[k] = s.skipped_message_keys[l]
  <2>1. \A j \in DOMAIN q : q[j].ratchet_key = t.our_ratchet_key =>
           q[j].keys = MessageKeys(t.sending_chain, q[j].counter) /\ q[j].counter < t.sending_chain.index
    BY <1>6
  <2>2. /\ d.outcome \in {"ok", "MessageGapTooLarge"}
        /\ Linked(d.session, t) /\ Follows(d.session, t, less)
        /\ \A k \in DOMAIN d.session.skipped_message_keys :
             \/ d.session.skipped_message_keys[k].ratchet_key \in {s.their_ratchet_key, m.ratchet_key}
             \/ \E l \in DOMAIN s.skipped_message_keys :
                  d.session.skipped_message_keys[k] = s.skipped_message_keys[l]
    <3>1. /\ IsSession(s) /\ IsSession(t) /\ q \in Seq(Message) /\ i \in DOMAIN q /\ m = q[i]
          /\ less = RemoveAt(q, i) /\ d = Decrypt(s, m)
      BY <1>1, <1>3, <1>5, <1>6, <1>8
    <3>2. Linked(s, t) /\ Follows(s, t, q)
      BY <1>4
    <3>3. \A j \in DOMAIN q : j <= i => q[j].ratchet_key = m.ratchet_key
      BY <1>5
    <3>4. QED
      BY <1>7, <2>1, <3>1, <3>2, <3>3, DecryptFits
  <2>3. QED
    BY <1>9, <2>2
<1>11. m \in Message
  BY <1>5, <1>6, LenProperties, ElementOfSeq
<1>12. /\ IsSession(u) /\ u # None
       /\ u.our_ratchet_key = s.our_ratchet_key /\ u.sending_chain = s.sending_chain
  BY <1>3, <1>8, <1>9, <1>11, DecryptType, DecryptFrame DEF NoneIsNoSession
<1>13. Follows(t, u, back)
  BY <1>4, <1>12, FollowsPeer
<1>14. /\ session'[p] = u /\ session'[r] = t /\ generated' = generated
       /\ net'[p] = less /\ net'[r] = back /\ \A x \in Device : NoRepeats(net'[x])
       /\ \A x \in Device : \A f \in failures'[x] : f \in failures[x] \/ f.error \in Unreadable
  <2>1. /\ session'[p] = u /\ session'[r] = t /\ generated' = generated
        /\ \A x \in Device : \A f \in failures'[x] :
             f \in failures[x] \/ (d.outcome # "ok" /\ f.error = d.outcome)
    BY <1>1, <1>2, <1>9, ReceiveFrame
  <2>2. /\ net'[p] = less /\ net'[r] = back /\ \A x \in Device : NoRepeats(net'[x])
    BY <1>1, <1>2, <1>5, NetWithout
  <2>3. QED
    BY <1>10, <2>1, <2>2 DEF Unreadable
<1>15. Paired'
  <2>1. Linked(session'[Alice], session'[Bob])
    BY <1>2, <1>10, <1>14, LinkedBoth
  <2>2. \A x \in Device : Follows(session'[x], session'[Peer(x)], net'[x])
    BY <1>1, <1>2, <1>10, <1>13, <1>14
  <2>3. QED
    BY <2>1, <2>2 DEF Paired
<1>16. KeptOfPeer'
  <2>1. ASSUME NEW k \in DOMAIN u.skipped_message_keys
        PROVE  Known(u.skipped_message_keys[k].ratchet_key, r)
    <3>1. Known(s.their_ratchet_key, r) /\ Known(m.ratchet_key, r)
      BY <1>1, <1>3, <1>5, <1>6 DEF SessionInv
    <3>2. \A l \in DOMAIN s.skipped_message_keys : Known(s.skipped_message_keys[l].ratchet_key, r)
      BY <1>1, <1>3 DEF InStepInv, KeptOfPeer
    <3>3. QED
      BY <1>10, <3>1, <3>2
  <2>2. \A l \in DOMAIN t.skipped_message_keys : Known(t.skipped_message_keys[l].ratchet_key, p)
    BY <1>1, <1>2, <1>3 DEF InStepInv, KeptOfPeer
  <2>3. QED
    BY <1>1, <1>2, <1>14, <2>1, <2>2 DEF KeptOfPeer, Known
<1>17. session'[Alice] # None /\ session'[Bob] # None
  BY <1>2, <1>3, <1>12, <1>14
<1>18. QED
  BY <1>14, <1>15, <1>16, <1>17 DEF InStepInv

\* Bob's half, up to the first message: the ratchets are level.
LEMMA FirstStep ==
  ASSUME NEW a, Initiated(a), NEW m \in Message, m.ratchet_key = AliceFirstKey,
         NEW b, b = BobInitial(IdentityKey(Bob), SignedPreKey, OneTimePreKey, AlicePreKey),
         NEW u, u = StepReceivingRatchet(b, m)
  PROVE  /\ IsSession(b) /\ b.our_ratchet_key = SignedPreKey /\ b.sending_chain.index = 0
         /\ IsSession(u) /\ Level(u, a)
         /\ u.their_ratchet_key = AliceFirstKey /\ DOMAIN u.receiving_chains = {AliceFirstKey}
         /\ Receiving(u).key = a.sending_chain.key /\ Receiving(u).index = 0
         /\ u.skipped_message_keys = <<>>
<1> DEFINE pkm    == AlicePreKey
           master == X3dhMasterSecretBob(IdentityKey(Bob), SignedPreKey, OneTimePreKey, pkm)
           root   == KdfRoot(master, DiffieHellman(SignedPreKey, AliceFirstKey))
<1>1. /\ pkm.pre_key = OneTimePreKey /\ pkm.signed_pre_key = SignedPreKey
      /\ pkm.base_key = AliceBaseKey /\ pkm.identity_key = IdentityKey(Alice)
  BY DEF AlicePreKey
<1>2. /\ BobBundle.identity_key = IdentityKey(Bob)
      /\ BobBundle.signed_pre_key = SignedPreKey /\ BobBundle.pre_key = OneTimePreKey
  BY DEF BobBundle
<1>3. \A x, y : DiffieHellman(x, y) = DiffieHellman(y, x)
  BY DEF DiffieHellman
<1> HIDE DEF pkm
<1>4. master = Master
  <2>1. master = << DiffieHellman(SignedPreKey, IdentityKey(Alice)),
                    DiffieHellman(IdentityKey(Bob), AliceBaseKey),
                    DiffieHellman(SignedPreKey, AliceBaseKey),
                    DiffieHellman(OneTimePreKey, AliceBaseKey) >>
    BY <1>1 DEF X3dhMasterSecretBob
  <2>2. Master = << DiffieHellman(IdentityKey(Alice), SignedPreKey),
                    DiffieHellman(AliceBaseKey, IdentityKey(Bob)),
                    DiffieHellman(AliceBaseKey, SignedPreKey),
                    DiffieHellman(AliceBaseKey, OneTimePreKey) >>
    BY <1>2 DEF Master, X3dhMasterSecretAlice
  <2> HIDE DEF master
  <2>3. QED
    BY <1>3, <2>1, <2>2
<1> HIDE DEF master
<1>5. root = a.root_key
  BY <1>3, <1>4 DEF Initiated
<1> HIDE DEF root
<1>6. b = [root_key |-> master, our_ratchet_key |-> SignedPreKey,
           their_ratchet_key |-> AliceBaseKey, sending_chain |-> NewChain(master, 0),
           sending_chain_remote_key |-> AliceBaseKey,
           receiving_chains |-> [k \in {} |-> NewChain(master, 0)],
           skipped_message_keys |-> <<>>, pending_pre_key |-> None]
  BY <1>1 DEF BobInitial, master, pkm
<1>7. IsSession(b)
  <2>1. /\ IdentityKey(Bob) \in Key /\ SignedPreKey \in Key /\ OneTimePreKey \in Key
        /\ IdentityKey(Alice) \in Key /\ AliceBaseKey \in Key
    BY BobKeysType, DeviceAssumption
  <2>2. AlicePreKey \in PreKey
    BY <2>1 DEF AlicePreKey, PreKey
  <2>3. QED
    BY <2>1, <2>2, BobInitialType
<1>8. IsSession(u)
  BY <1>7, StepType
<1> DEFINE chains == [k \in ({} \ {AliceBaseKey}) \cup {AliceFirstKey} |->
                        IF k = AliceFirstKey THEN NewChain(root, 0) ELSE b.receiving_chains[k]]
<1>9. u = [b EXCEPT !.root_key = root, !.receiving_chains = chains,
                    !.skipped_message_keys = <<>>, !.their_ratchet_key = AliceFirstKey]
  <2>1. /\ DOMAIN b.receiving_chains = {} /\ b.their_ratchet_key = AliceBaseKey
        /\ b.skipped_message_keys = <<>> /\ b.our_ratchet_key = SignedPreKey /\ b.root_key = master
    BY <1>6
  <2>2. KdfRoot(b.root_key, DiffieHellman(b.our_ratchet_key, m.ratchet_key)) = root
    BY <2>1 DEF root
  <2>3. u = [b EXCEPT !.root_key = root, !.receiving_chains = chains,
                      !.skipped_message_keys = b.skipped_message_keys, !.their_ratchet_key = AliceFirstKey]
    BY <2>1, <2>2 DEF StepReceivingRatchet
  <2>4. QED
    BY <2>1, <2>3
<1>10. DOMAIN chains = {AliceFirstKey} /\ chains[AliceFirstKey] = NewChain(root, 0)
  OBVIOUS
<1> HIDE DEF chains
<1>11. /\ b.our_ratchet_key = SignedPreKey /\ b.sending_chain = NewChain(master, 0)
       /\ u.root_key = root /\ u.receiving_chains = chains /\ u.skipped_message_keys = <<>>
       /\ u.their_ratchet_key = AliceFirstKey /\ u.our_ratchet_key = SignedPreKey
       /\ u.sending_chain = NewChain(master, 0) /\ u.sending_chain_remote_key = AliceBaseKey
  <2>1. PICK first, signed, base, key : /\ first = NewChain(master, 0) /\ signed = SignedPreKey
                                        /\ base = AliceBaseKey /\ key = AliceFirstKey
    OBVIOUS
  <2>2. /\ b.our_ratchet_key = signed /\ b.sending_chain = first /\ b.sending_chain_remote_key = base
    BY <1>6, <2>1
  <2>3. HasFields(b)
    BY <1>7, SessionParts
  <2>4. u = [b EXCEPT !.root_key = root, !.receiving_chains = chains,
                      !.skipped_message_keys = <<>>, !.their_ratchet_key = key]
    BY <1>9, <2>1
  <2>5. /\ u.root_key = root /\ u.receiving_chains = chains /\ u.skipped_message_keys = <<>>
        /\ u.their_ratchet_key = key /\ u.our_ratchet_key = b.our_ratchet_key
        /\ u.sending_chain = b.sending_chain
        /\ u.sending_chain_remote_key = b.sending_chain_remote_key
    BY <2>3, <2>4 DEF HasFields
  <2>6. QED
    BY <2>1, <2>2, <2>5
<1>12. \A k : NewChain(k, 0).key = k /\ NewChain(k, 0).index = 0
  BY DEF NewChain
<1>13. Receiving(u).key = root /\ Receiving(u).index = 0 /\ Receiving(a).key = Master
  <2>1. a.receiving_chains[SignedPreKey] = NewChain(Master, 0) /\ a.their_ratchet_key = SignedPreKey
    BY DEF Initiated
  <2>2. QED
    BY <1>10, <1>11, <1>12, <2>1 DEF Receiving
<1>14. AliceBaseKey # AliceFirstKey
  BY DEF AliceBaseKey, AliceFirstKey
<1>15. Level(u, a)
  BY <1>4, <1>5, <1>11, <1>12, <1>13, <1>14 DEF Level, Initiated, NeedsRatchet
<1>16. QED
  BY <1>5, <1>7, <1>8, <1>10, <1>11, <1>12, <1>13, <1>15 DEF Initiated

\* Until Bob has a session: his first one is in step with Alice's, and he has one
\* as soon as the message that brings the prekey can be read.
LEMMA ReceiveFirst ==
  ASSUME NoneIsNoSession, TypeOK, KeyInv, InOrder, InStepInv, session[Bob] = None,
         NEW i \in Deliverable(Bob), NEW m, m = net[Bob][i],
         Receive(Bob, m), net' = [net EXCEPT ![Bob] = RemoveAt(@, i)], network' = network
  PROVE  InStepInv'
<1>1. PICK a, q, less, d :
        /\ a = session[Alice] /\ q = net[Bob] /\ less = RemoveAt(q, i) /\ d = DecryptMessage(Bob, m)
  OBVIOUS
<1>2. /\ Alice \in Device /\ Bob \in Device /\ Alice # Bob /\ Device = {Alice, Bob}
      /\ Peer(Alice) = Bob /\ Peer(Bob) = Alice
  BY DeviceAssumption DEF Peer
<1>3. /\ Initiated(a) /\ net[Alice] = <<>>
      /\ \A j \in DOMAIN q : q[j].ratchet_key = AliceFirstKey /\ q[j].pre_key \in {AlicePreKey, None}
  BY <1>1 DEF InStepInv, Waiting
<1>4. a # None /\ IsSession(a)
  BY <1>1, <1>2 DEF InStepInv, TypeOK
<1>5. i \in DOMAIN q /\ m = q[i]
  BY <1>1, <1>2, InOrderDeliverable DEF InStepInv
<1>6. Arriving(Alice, a, q)
  <2>1. q = net[Bob] /\ a = session[Alice] /\ a # None /\ NoRepeats(q)
    BY <1>1, <1>2, <1>4 DEF InStepInv
  <2>2. QED
    BY <1>2, <2>1, QueueFacts
<1>7. m \in Message
  BY <1>5, <1>6, LenProperties, ElementOfSeq DEF Arriving
<1>8. /\ session'[Bob] = d.session /\ session'[Alice] = a /\ generated' = generated
      /\ net'[Bob] = less /\ net'[Alice] = <<>> /\ \A x \in Device : NoRepeats(net'[x])
      /\ \A x \in Device : \A f \in failures'[x] :
           f \in failures[x] \/ (d.outcome # "ok" /\ f.error = d.outcome)
  <2>1. /\ session'[Bob] = d.session /\ session'[Alice] = a /\ generated' = generated
        /\ \A x \in Device : \A f \in failures'[x] :
             f \in failures[x] \/ (d.outcome # "ok" /\ f.error = d.outcome)
    BY <1>1, <1>2, ReceiveFrame
  <2>2. /\ net'[Bob] = less /\ net'[Alice] = <<>> /\ \A x \in Device : NoRepeats(net'[x])
    BY <1>1, <1>2, <1>3, <1>5, NetWithout
  <2>3. QED
    BY <2>1, <2>2
<1>9. \A j \in DOMAIN less : \E l \in DOMAIN q : less[j] = q[l]
  BY <1>1, <1>5, <1>6, RemoveAtKeeps DEF Arriving
<1>10. ASSUME d.session = None, d.outcome \in Unreadable \cup {"ok"}
       PROVE  InStepInv'
  <2>1. Waiting'
    BY <1>3, <1>8, <1>9 DEF Waiting, Initiated
  <2>2. KeptOfPeer'
    BY <1>1, <1>2, <1>8, <1>10 DEF InStepInv, KeptOfPeer, Known
  <2>3. QED
    BY <1>4, <1>8, <1>10, <2>1, <2>2 DEF InStepInv
<1>11. CASE m.pre_key = None
  <2>1. d.session = None /\ d.outcome = "NoSession"
    BY <1>1, <1>11 DEF DecryptMessage
  <2>2. QED
    BY <1>10, <2>1 DEF Unreadable
<1>12. CASE m.pre_key # None
  <2>1. PICK b, u, e : /\ b = BobInitial(IdentityKey(Bob), SignedPreKey, OneTimePreKey, AlicePreKey)
                       /\ u = StepReceivingRatchet(b, m) /\ e = Consume(u, m)
    OBVIOUS
  <2>2. m.pre_key = AlicePreKey /\ m.ratchet_key = AliceFirstKey
    BY <1>3, <1>5, <1>12
  <2>3. /\ IsSession(b) /\ b.our_ratchet_key = SignedPreKey /\ b.sending_chain.index = 0
        /\ IsSession(u) /\ Level(u, a)
        /\ u.their_ratchet_key = AliceFirstKey /\ DOMAIN u.receiving_chains = {AliceFirstKey}
        /\ Receiving(u).key = a.sending_chain.key /\ Receiving(u).index = 0
        /\ u.skipped_message_keys = <<>>
    BY <1>3, <1>7, <2>1, <2>2, FirstStep
  <2>4. a.our_ratchet_key = AliceFirstKey
    BY <1>3 DEF Initiated
  <2>5. Follows(u, a, q)
    <3>1. ASSUME NEW j \in DOMAIN q PROVE Readable(u, q[j])
      <4>1. q[j].keys = MessageKeys(Receiving(u), q[j].counter)
        BY <1>3, <1>6, <2>3, <2>4 DEF Arriving, MessageKeys
      <4>2. q[j].counter \in Nat
        <5>1. q[j] \in Message
          BY <1>6, LenProperties, ElementOfSeq DEF Arriving
        <5>2. QED
          BY <5>1 DEF Message
      <4>3. QED
        BY <2>3, <4>1, <4>2 DEF Readable
    <3>2. DOMAIN u.skipped_message_keys = {} /\ a.sending_chain.index \in Nat
      BY <1>4, <2>3 DEF IsSession, Chain
    <3>3. Receiving(u).index <= a.sending_chain.index
      BY <2>3, <3>2
    <3>4. KeptFits(u, a)
      BY <3>2 DEF KeptFits
    <3>5. QED
      BY <1>3, <2>3, <2>4, <3>1, <3>3, <3>4 DEF Follows, InTurn
  <2>6. /\ e.outcome \in {"ok", "MessageGapTooLarge"}
        /\ Linked(e.session, a) /\ Follows(e.session, a, less)
        /\ \A k \in DOMAIN e.session.skipped_message_keys :
             \/ e.session.skipped_message_keys[k].ratchet_key = u.their_ratchet_key
             \/ \E l \in DOMAIN u.skipped_message_keys :
                  e.session.skipped_message_keys[k] = u.skipped_message_keys[l]
    <3>1. /\ IsSession(u) /\ IsSession(a) /\ q \in Seq(Message) /\ i \in DOMAIN q /\ m = q[i]
          /\ less = RemoveAt(q, i) /\ e = Consume(u, m) /\ m.ratchet_key = u.their_ratchet_key
      BY <1>1, <1>4, <1>5, <1>6, <2>1, <2>2, <2>3 DEF Arriving
    <3>2. Linked(u, a) /\ Follows(u, a, q)
      BY <2>3, <2>5 DEF Linked
    <3>3. /\ \A j \in DOMAIN q \ {i} : q[j].ratchet_key = m.ratchet_key => q[j].counter # m.counter
          /\ m.ratchet_key = a.our_ratchet_key => m.counter < a.sending_chain.index
      BY <1>5, <1>6 DEF Arriving
    <3>4. QED
      BY <3>1, <3>2, <3>3, ConsumeFits
  <2>7. e = Decrypt(b, m) /\ e = NewBob(IdentityKey(Bob), SignedPreKey, OneTimePreKey, m)
    BY <2>1, <2>2 DEF Decrypt, NewBob
  <2>8. m.pre_key.signed_pre_key = SignedPreKey /\ m.pre_key.pre_key = OneTimePreKey
    BY <2>2 DEF AlicePreKey
  <2>9. CASE e.outcome # "ok"
    <3>1. d = [e EXCEPT !.session = None]
      BY <1>1, <1>12, <2>7, <2>8, <2>9 DEF DecryptMessage
    <3>2. \E s, o : e = [session |-> s, outcome |-> o]
      BY <2>1 DEF Consume, Fail, CheckMac
    <3>3. d.session = None /\ d.outcome = "MessageGapTooLarge"
      BY <2>6, <2>9, <3>1, <3>2
    <3>4. QED
      BY <1>10, <3>3 DEF Unreadable
  <2>10. CASE e.outcome = "ok"
    <3>1. d = e
      BY <1>1, <1>12, <2>7, <2>8, <2>10 DEF DecryptMessage
    <3>2. PICK v : v = d.session
      OBVIOUS
    <3>3. /\ IsSession(v) /\ v # None /\ v.our_ratchet_key = SignedPreKey /\ v.sending_chain.index = 0
      <4>1. v = Decrypt(b, m).session
        BY <2>7, <3>1, <3>2
      <4>2. IsSession(v)
        BY <1>7, <2>3, <4>1, DecryptType
      <4>3. v.our_ratchet_key = b.our_ratchet_key /\ v.sending_chain = b.sending_chain
        BY <1>7, <2>3, <4>1, DecryptFrame
      <4>4. QED
        BY <2>3, <4>2, <4>3 DEF NoneIsNoSession
    <3>4. Linked(v, a) /\ Follows(v, a, less)
      BY <2>6, <3>1, <3>2
    <3>5. Follows(a, v, <<>>)
      <4>1. /\ a.their_ratchet_key = SignedPreKey /\ DOMAIN a.receiving_chains = {SignedPreKey}
            /\ Receiving(a).index = 0 /\ DOMAIN a.skipped_message_keys = {}
        <5>1. NewChain(Master, 0).index = 0
          BY DEF NewChain
        <5>2. QED
          BY <1>3, <5>1 DEF Initiated, Receiving
      <4>2. KeptFits(a, v)
        BY <4>1 DEF KeptFits
      <4>3. DOMAIN <<>> = {} /\ 0 <= 0
        OBVIOUS
      <4>4. QED
        BY <3>3, <4>1, <4>2, <4>3 DEF Follows, InTurn
    <3>6. Paired'
      <4>1. Linked(session'[Alice], session'[Bob])
        BY <1>8, <3>2, <3>4, LinkedBoth
      <4>2. \A x \in Device : Follows(session'[x], session'[Peer(x)], net'[x])
        BY <1>2, <1>8, <3>2, <3>4, <3>5
      <4>3. QED
        BY <4>1, <4>2 DEF Paired
    <3>7. KeptOfPeer'
      <4>1. Known(AliceFirstKey, Alice)
        BY <1>2, <1>3, <1>5, <1>6 DEF Arriving
      <4>2. \A k \in DOMAIN v.skipped_message_keys : Known(v.skipped_message_keys[k].ratchet_key, Alice)
        <5>1. DOMAIN u.skipped_message_keys = {}
          BY <2>3
        <5>2. QED
          BY <2>3, <2>6, <3>1, <3>2, <4>1, <5>1
      <4>3. DOMAIN a.skipped_message_keys = {}
        BY <1>3 DEF Initiated
      <4>4. QED
        BY <1>2, <1>8, <3>2, <4>2, <4>3 DEF KeptOfPeer, Known
    <3>8. QED
      <4>1. session'[Alice] # None /\ session'[Bob] # None /\ network' \in Network
        BY <1>4, <1>8, <3>2, <3>3 DEF InStepInv
      <4>2. \A x \in Device : NoRepeats(net'[x]) /\ \A f \in failures'[x] : f.error \in Unreadable
        BY <1>8, <2>10, <3>1 DEF InStepInv
      <4>3. QED
        BY <3>6, <3>7, <4>1, <4>2 DEF InStepInv
  <2>11. QED
    BY <2>9, <2>10
<1>13. QED
  BY <1>11, <1>12

\* What encrypt leaves of a session's links.
LEMMA EncryptLinks ==
  ASSUME NEW s, IsSession(s), NEW fresh \in Key, NEW e, e = AfterEncrypt(s, fresh)
  PROVE  /\ e.their_ratchet_key = s.their_ratchet_key /\ e.receiving_chains = s.receiving_chains
         /\ e.skipped_message_keys = s.skipped_message_keys /\ e.pending_pre_key = None
         /\ ~NeedsRatchet(s) =>
              /\ SameLinks(s, e) /\ e.sending_chain.index = s.sending_chain.index + 1
              /\ e.our_ratchet_key = s.our_ratchet_key
         /\ NeedsRatchet(s) =>
              /\ e.root_key = KdfRoot(s.root_key, DiffieHellman(fresh, s.their_ratchet_key))
              /\ e.our_ratchet_key = fresh /\ e.sending_chain.key = e.root_key
              /\ e.sending_chain_remote_key = s.their_ratchet_key
<1> DEFINE root == KdfRoot(s.root_key, DiffieHellman(fresh, s.their_ratchet_key))
<1>1. PICK t, next : t = RatchetIfNeeded(s, fresh) /\ next = [t.sending_chain EXCEPT !.index = @ + 1]
  OBVIOUS
<1>2. HasFields(s)
  BY SessionParts
<1>3. PICK k, chain : k = root /\ chain = NewChain(k, s.sending_chain.index) /\ chain.key = k
  <2>1. \A x, y : NewChain(x, y).key = x
    BY DEF NewChain
  <2> HIDE DEF root
  <2>2. QED
    BY <2>1
<1>4. IsSession(t)
  BY <1>1, RatchetIfNeededType
<1>5. HasFields(t) /\ t.sending_chain \in Chain
  BY <1>4, SessionParts DEF IsSession
<1>6. next.key = t.sending_chain.key /\ next.index = t.sending_chain.index + 1
  BY <1>1, <1>5 DEF Chain
<1>7. /\ t.their_ratchet_key = s.their_ratchet_key /\ t.receiving_chains = s.receiving_chains
      /\ t.skipped_message_keys = s.skipped_message_keys
      /\ ~NeedsRatchet(s) => t = s
      /\ NeedsRatchet(s) =>
           /\ t.root_key = k /\ t.our_ratchet_key = fresh /\ t.sending_chain = chain
           /\ t.sending_chain_remote_key = s.their_ratchet_key
  <2>1. CASE NeedsRatchet(s)
    <3>1. t = [s EXCEPT !.root_key = k, !.our_ratchet_key = fresh, !.sending_chain = chain,
                        !.sending_chain_remote_key = s.their_ratchet_key]
      BY <1>1, <1>3, <2>1 DEF RatchetIfNeeded
    <3> HIDE DEF root
    <3>2. QED
      BY <1>2, <2>1, <3>1 DEF HasFields
  <2>2. CASE ~NeedsRatchet(s)
    BY <1>1, <2>2 DEF RatchetIfNeeded
  <2>3. QED
    BY <2>1, <2>2
<1>8. e = [t EXCEPT !.sending_chain = next, !.pending_pre_key = None]
  BY <1>1 DEF AfterEncrypt
<1> HIDE DEF root
<1>9. /\ e.root_key = t.root_key /\ e.our_ratchet_key = t.our_ratchet_key
      /\ e.their_ratchet_key = t.their_ratchet_key /\ e.sending_chain = next
      /\ e.sending_chain_remote_key = t.sending_chain_remote_key
      /\ e.receiving_chains = t.receiving_chains
      /\ e.skipped_message_keys = t.skipped_message_keys /\ e.pending_pre_key = None
  BY <1>5, <1>8 DEF HasFields
<1>10. ASSUME ~NeedsRatchet(s)
       PROVE  /\ SameLinks(s, e) /\ e.sending_chain.index = s.sending_chain.index + 1
              /\ e.our_ratchet_key = s.our_ratchet_key
  BY <1>6, <1>7, <1>9, <1>10 DEF SameLinks, Receiving
<1>11. ASSUME NeedsRatchet(s)
       PROVE  /\ e.root_key = root /\ e.our_ratchet_key = fresh /\ e.sending_chain.key = e.root_key
              /\ e.sending_chain_remote_key = s.their_ratchet_key
  BY <1>3, <1>6, <1>7, <1>9, <1>11
<1>12. QED
  BY <1>7, <1>9, <1>10, <1>11 DEF root

\* A ratchet step of the sender puts it ahead; without one the link stays.
LEMMA SendLinks ==
  ASSUME NEW s, IsSession(s), NEW t, NEW fresh \in Key, NEW e, e = AfterEncrypt(s, fresh),
         Linked(s, t), t.their_ratchet_key # fresh
  PROVE  Linked(e, t)
<1>1. CASE ~NeedsRatchet(s)
  BY <1>1, EncryptLinks, LinkedStays
<1>2. CASE NeedsRatchet(s)
  <2>1. Level(s, t)
    BY <1>2 DEF Linked, Level, Ahead
  <2>2. /\ e.root_key = KdfRoot(s.root_key, DiffieHellman(fresh, s.their_ratchet_key))
        /\ e.our_ratchet_key = fresh /\ e.sending_chain.key = e.root_key
        /\ e.sending_chain_remote_key = s.their_ratchet_key
        /\ e.their_ratchet_key = s.their_ratchet_key /\ e.receiving_chains = s.receiving_chains
    BY <1>2, EncryptLinks
  <2>3. DiffieHellman(fresh, s.their_ratchet_key) = DiffieHellman(s.their_ratchet_key, fresh)
    BY DEF DiffieHellman
  <2>4. Ahead(e, t)
    BY <2>1, <2>2, <2>3 DEF Level, Ahead, NeedsRatchet, Receiving
  <2>5. QED
    BY <2>4 DEF Linked
<1>3. QED
  BY <1>1, <1>2

\* What is on its way to the sender does not notice.
LEMMA FollowsSame ==
  ASSUME NEW s, NEW t, NEW u, NEW q, Follows(s, t, q),
         u.their_ratchet_key = s.their_ratchet_key, u.receiving_chains = s.receiving_chains,
         u.skipped_message_keys = s.skipped_message_keys
  PROVE  Follows(u, t, q)
BY DEF Follows, KeptFits, Readable, SkippedAt, Receiving

\* What is added to a queue.
LEMMA Appended ==
  ASSUME NEW T, NEW q \in Seq(T), NEW x \in T, NEW more, more = Append(q, x)
  PROVE  \A i \in DOMAIN more : \/ i \in DOMAIN q /\ more[i] = q[i]
                                \/ more[i] = x /\ i \notin DOMAIN q /\ \A j \in DOMAIN more : i <= j => i = j
<1>1. /\ more \in Seq(T) /\ Len(more) = Len(q) + 1
      /\ \A i \in 1 .. Len(q) : more[i] = q[i]
      /\ more[Len(q) + 1] = x
  BY AppendProperties
<1>2. DOMAIN q = 1 .. Len(q) /\ Len(q) \in Nat /\ DOMAIN more = 1 .. Len(q) + 1
  BY <1>1, LenProperties
<1>3. \A i \in DOMAIN more : i \in DOMAIN q \/ (i = Len(q) + 1 /\ i \notin DOMAIN q)
  BY <1>2
<1>4. \A j \in DOMAIN more : Len(q) + 1 <= j => Len(q) + 1 = j
  BY <1>2
<1>5. QED
  BY <1>1, <1>2, <1>3, <1>4

\* A message that is sent can be read, after those sent before.
LEMMA FollowsSent ==
  ASSUME NEW s, IsSession(s), NEW t, IsSession(t), NEW e, NEW back \in Seq(Message),
         NEW m \in Message, NEW more, more = Append(back, m),
         Follows(t, s, back), Linked(s, t), m.ratchet_key = e.our_ratchet_key,
         m.keys = MessageKeys(e.sending_chain, m.counter), e.sending_chain.index = m.counter + 1,
         \/ /\ e.our_ratchet_key = s.our_ratchet_key /\ s.sending_chain.index = m.counter
            /\ e.sending_chain.key = s.sending_chain.key
         \/ /\ NeedsRatchet(s) /\ e.our_ratchet_key # t.their_ratchet_key
            /\ \A k \in DOMAIN t.skipped_message_keys :
                 t.skipped_message_keys[k].ratchet_key # e.our_ratchet_key
  PROVE  Follows(t, e, more)
<1>1. \A i \in DOMAIN more : \/ i \in DOMAIN back /\ more[i] = back[i]
                             \/ more[i] = m /\ i \notin DOMAIN back /\ \A j \in DOMAIN more : i <= j => i = j
  BY Appended
<1>2. m.counter \in Nat
  BY DEF Message
<1>3. DOMAIN t.receiving_chains = {t.their_ratchet_key}
  BY DEF Follows
<1>4. Receiving(t).index \in Nat
  BY <1>3 DEF IsSession, Receiving, Chain
<1>5. CASE /\ e.our_ratchet_key = s.our_ratchet_key /\ s.sending_chain.index = m.counter
           /\ e.sending_chain.key = s.sending_chain.key
  <2>1. t.their_ratchet_key = e.our_ratchet_key => Receiving(t).index <= m.counter
    BY <1>5 DEF Follows
  <2>2. t.their_ratchet_key = e.our_ratchet_key => Receiving(t).index <= e.sending_chain.index
    BY <1>2, <1>4, <2>1
  <2>3. t.their_ratchet_key = e.our_ratchet_key => Readable(t, m)
    <3>1. ASSUME t.their_ratchet_key = e.our_ratchet_key PROVE Receiving(t).key = e.sending_chain.key
      BY <1>5, <3>1 DEF Linked, Level, Ahead
    <3>2. t.their_ratchet_key = e.our_ratchet_key => ~(m.counter < Receiving(t).index)
      BY <1>2, <1>4, <2>1
    <3>3. QED
      BY <3>1, <3>2 DEF Readable, MessageKeys
  <2>4. \A i \in DOMAIN more : more[i].ratchet_key \in {t.their_ratchet_key, e.our_ratchet_key}
    BY <1>1, <1>5 DEF Follows
  <2>5. InTurn(more, e.our_ratchet_key)
    <3>1. InTurn(back, e.our_ratchet_key)
      BY <1>5 DEF Follows
    <3>2. QED
      BY <1>1, <3>1 DEF InTurn
  <2>6. \A i \in DOMAIN more : more[i].ratchet_key = t.their_ratchet_key => Readable(t, more[i])
    BY <1>1, <2>3 DEF Follows
  <2>7. KeptFits(t, e)
    BY <1>5 DEF Follows, KeptFits
  <2>8. QED
    BY <1>3, <2>2, <2>4, <2>5, <2>6, <2>7 DEF Follows
<1>6. CASE /\ NeedsRatchet(s) /\ e.our_ratchet_key # t.their_ratchet_key
           /\ \A k \in DOMAIN t.skipped_message_keys :
                t.skipped_message_keys[k].ratchet_key # e.our_ratchet_key
  <2>1. t.their_ratchet_key = s.our_ratchet_key
    BY <1>6 DEF Linked, Level, Ahead
  <2>2. \A i \in DOMAIN back : back[i].ratchet_key = t.their_ratchet_key /\ Readable(t, back[i])
    BY <2>1 DEF Follows
  <2>3. \A i \in DOMAIN more : more[i].ratchet_key \in {t.their_ratchet_key, e.our_ratchet_key}
    BY <1>1, <2>2
  <2>4. InTurn(more, e.our_ratchet_key)
    BY <1>1, <1>6, <2>2 DEF InTurn
  <2>5. \A i \in DOMAIN more : more[i].ratchet_key = t.their_ratchet_key => Readable(t, more[i])
    BY <1>1, <1>6, <2>2
  <2>6. KeptFits(t, e)
    BY <1>6 DEF Follows, KeptFits
  <2>7. QED
    BY <1>3, <1>6, <2>3, <2>4, <2>5, <2>6 DEF Follows
<1>7. QED
  BY <1>5, <1>6

\* Sending keeps the two sides in step.
LEMMA SendInStep ==
  ASSUME NoneIsNoSession, TypeOK, TypeOK', KeyInv, InStepInv, NEW p \in Device, Send(p),
         network' = network
  PROVE  InStepInv'
<1>1. PICK r, s, t, e, m, fresh, q, back, more :
        /\ r = Peer(p) /\ s = session[p] /\ t = session[r] /\ e = session'[p]
        /\ fresh = <<p, generated[p]>> /\ m = EncryptedMessage(s, fresh, Cardinality(sent[p]) + 1)
        /\ q = net[p] /\ back = net[r] /\ more = Append(back, m)
  OBVIOUS
<1>2. /\ r \in Device /\ r # p /\ Peer(r) = p /\ Device = {p, r}
      /\ p \in {Alice, Bob} /\ r \in {Alice, Bob}
      /\ Alice \in Device /\ Bob \in Device /\ Alice # Bob
  BY <1>1, PeerType, DeviceAssumption DEF Peer
<1>3. /\ s # None /\ e = AfterEncrypt(s, fresh)
      /\ \A x \in Device : x # p => session'[x] = session[x]
      /\ generated' = [generated EXCEPT ![p] = IF NeedsRatchet(s) THEN @ + 1 ELSE @]
      /\ net'[p] = q /\ net'[r] = more /\ failures' = failures
  <2>1. /\ s # None
        /\ session' = [session EXCEPT ![p] = AfterEncrypt(s, fresh)]
        /\ generated' = [generated EXCEPT ![p] = IF NeedsRatchet(s) THEN @ + 1 ELSE @]
        /\ net' = [net EXCEPT ![r] = Append(net[r], m)]
        /\ failures' = failures
    BY <1>1 DEF Send
  <2>2. DOMAIN session = Device /\ DOMAIN net = Device
    BY DEF TypeOK
  <2>3. QED
    BY <1>1, <1>2, <2>1, <2>2
<1>4. IsSession(s) /\ SessionInv(p, s) /\ generated[p] \in Nat /\ generated[r] \in Nat
  BY <1>1, <1>2, <1>3 DEF TypeOK, KeyInv
<1>5. fresh \in Key /\ fresh[1] = p /\ fresh[2] = generated[p]
  BY <1>1, <1>4 DEF Key
<1>6. m \in Message /\ IsSession(e) /\ e # None
  <2>1. Cardinality(sent[p]) + 1 \in Text
    BY FS_CardinalityType DEF TypeOK, Text
  <2>2. QED
    BY <1>1, <1>3, <1>4, <1>5, <2>1, EncryptType DEF NoneIsNoSession
<1>7. /\ m.ratchet_key = e.our_ratchet_key /\ m.keys = MessageKeys(e.sending_chain, m.counter)
      /\ e.sending_chain.index = m.counter + 1 /\ m.counter \in Nat
      /\ m.pre_key = s.pending_pre_key
      /\ \A n \in sent[p] : n.ratchet_key = e.our_ratchet_key => n.counter < m.counter
  BY <1>1, SendKeys DEF MessageKeys
<1>8. m \notin sent[p]
  <2>1. ~(m.counter < m.counter)
    BY <1>7
  <2>2. QED
    BY <1>7, <2>1
<1>9. \A x \in Device : NoRepeats(net'[x])
  <2>1. back \in Seq(sent[p]) /\ NoRepeats(back) /\ NoRepeats(q)
    BY <1>1, <1>2 DEF KeyInv, InStepInv
  <2>2. \A i \in DOMAIN back : back[i] \in sent[p]
    BY <2>1, LenProperties, ElementOfSeq
  <2>3. \A i \in DOMAIN more : \/ i \in DOMAIN back /\ more[i] = back[i]
                               \/ more[i] = m /\ i \notin DOMAIN back /\ \A j \in DOMAIN more : i <= j => i = j
    <3>1. PICK T : T = sent[p] \cup {m}
      OBVIOUS
    <3>2. back \in Seq(T) /\ m \in T /\ more = Append(back, m)
      BY <1>1, <2>1, <3>1, SeqMonotonic
    <3>3. QED
      BY <3>2, Appended
  <2>4. DOMAIN more \subseteq Nat
    <3>1. back \in Seq(Message)
      BY <1>1, <1>2 DEF TypeOK
    <3>2. more \in Seq(Message)
      BY <1>1, <1>6, <3>1, AppendProperties
    <3>3. QED
      BY <3>2, LenProperties
  <2>5. NoRepeats(more)
    <3>1. ASSUME NEW i \in DOMAIN more, NEW j \in DOMAIN more, more[i] = more[j] PROVE i = j
      <4>1. i \in Nat /\ j \in Nat /\ (i <= j \/ j <= i)
        BY <2>4
      <4>2. QED
        BY <1>8, <2>1, <2>2, <2>3, <3>1, <4>1 DEF NoRepeats
    <3>2. QED
      BY <3>1 DEF NoRepeats
  <2>6. QED
    BY <1>2, <1>3, <2>1, <2>5
<1>10. /\ e.their_ratchet_key = s.their_ratchet_key /\ e.receiving_chains = s.receiving_chains
       /\ e.skipped_message_keys = s.skipped_message_keys /\ e.pending_pre_key = None
       /\ ~NeedsRatchet(s) =>
            /\ SameLinks(s, e) /\ e.sending_chain.index = s.sending_chain.index + 1
            /\ e.our_ratchet_key = s.our_ratchet_key
       /\ NeedsRatchet(s) => e.our_ratchet_key = fresh
  BY <1>3, <1>4, <1>5, EncryptLinks
\* A key pair of a device that is new to it is one its peer has not seen.
<1>11. \A k \in Key : Known(k, p) => k # fresh
  BY <1>4, <1>5 DEF Known
<1>12. KeptOfPeer'
  <2>1. \A x \in Device : generated[x] \in Nat /\ generated'[x] \in Nat /\ generated[x] <= generated'[x]
    BY <1>3 DEF TypeOK
  <2>2. \A k \in Key : \A x \in Device : Known(k, x) => k[1] = x /\ k[2] < generated'[x]
    BY <2>1 DEF Known, Key
  <2>3. ASSUME NEW x \in Device, session'[x] # None, NEW k \in DOMAIN session'[x].skipped_message_keys
        PROVE  /\ session'[x].skipped_message_keys[k].ratchet_key[1] = Peer(x)
               /\ session'[x].skipped_message_keys[k].ratchet_key[2] < generated'[Peer(x)]
    <3>1. PICK kept : kept = session[x].skipped_message_keys
      OBVIOUS
    <3>2. /\ session[x] # None /\ kept = session'[x].skipped_message_keys
          /\ IsSession(session[x])
      BY <1>1, <1>2, <1>3, <1>10, <2>3, <3>1 DEF TypeOK
    <3>3. kept \in Seq(Skipped)
      BY <3>1, <3>2 DEF IsSession
    <3>4. kept[k] \in Skipped
      BY <2>3, <3>2, <3>3, LenProperties, ElementOfSeq
    <3>5. kept[k].ratchet_key \in Key /\ Known(kept[k].ratchet_key, Peer(x))
      BY <2>3, <3>1, <3>2, <3>4 DEF InStepInv, KeptOfPeer, Skipped
    <3>6. kept[k].ratchet_key[1] = Peer(x) /\ kept[k].ratchet_key[2] < generated'[Peer(x)]
      BY <2>2, <3>5, PeerType
    <3>7. QED
      BY <3>2, <3>6
  <2>4. QED
    BY <2>3 DEF KeptOfPeer, Known
<1>13. session'[Alice] # None
  BY <1>1, <1>2, <1>3, <1>6 DEF InStepInv
<1>14. CASE session[Bob] = None
  <2>1. p = Alice /\ r = Bob
    BY <1>1, <1>2, <1>3, <1>14
  <2>2. /\ Initiated(s) /\ q = <<>>
        /\ \A i \in DOMAIN back : back[i].ratchet_key = AliceFirstKey /\ back[i].pre_key \in {AlicePreKey, None}
    BY <1>1, <1>14, <2>1 DEF InStepInv, Waiting
  <2>3. Initiated(e)
    BY <1>10, <2>2 DEF Initiated, SameLinks, NeedsRatchet
  <2>4. m.ratchet_key = AliceFirstKey /\ m.pre_key \in {AlicePreKey, None}
    BY <1>7, <2>2, <2>3 DEF Initiated
  <2>5. \A i \in DOMAIN more : more[i].ratchet_key = AliceFirstKey /\ more[i].pre_key \in {AlicePreKey, None}
    <3>1. back \in Seq(Message) /\ more = Append(back, m)
      BY <1>1, <1>2 DEF TypeOK
    <3>2. \A i \in DOMAIN more : (i \in DOMAIN back /\ more[i] = back[i]) \/ more[i] = m
      BY <1>6, <3>1, Appended
    <3>3. QED
      BY <2>2, <2>4, <3>2
  <2>6. Waiting'
    <3>1. Initiated(session'[Alice])
      BY <1>1, <2>1, <2>3
    <3>2. QED
      BY <1>3, <2>1, <2>2, <2>5, <3>1 DEF Waiting, Initiated
  <2>7. session'[Bob] = None
    BY <1>2, <1>3, <1>14, <2>1
  <2>8. QED
    BY <1>3, <1>9, <1>12, <1>13, <2>6, <2>7 DEF InStepInv
<1>15. CASE session[Bob] # None
  <2>1. /\ t # None /\ IsSession(t) /\ SessionInv(r, t)
    BY <1>1, <1>2, <1>15 DEF InStepInv, TypeOK, KeyInv
  <2>2. Linked(s, t) /\ Follows(s, t, q) /\ Follows(t, s, back)
    <3>1. Paired
      BY <1>15 DEF InStepInv
    <3>2. Linked(s, t)
      BY <1>1, <1>2, <3>1, LinkedBoth DEF Paired
    <3>3. QED
      BY <1>1, <1>2, <3>1, <3>2 DEF Paired
  <2>3. t.their_ratchet_key # fresh
    BY <1>2, <1>11, <2>1 DEF SessionInv, IsSession
  <2>4. Linked(e, t)
    BY <1>3, <1>4, <1>5, <2>2, <2>3, SendLinks
  <2>5. Follows(e, t, q)
    BY <1>10, <2>2, FollowsSame
  <2>6. Follows(t, e, more)
    <3>1. \/ /\ e.our_ratchet_key = s.our_ratchet_key /\ s.sending_chain.index = m.counter
             /\ e.sending_chain.key = s.sending_chain.key
          \/ /\ NeedsRatchet(s) /\ e.our_ratchet_key # t.their_ratchet_key
             /\ \A k \in DOMAIN t.skipped_message_keys :
                  t.skipped_message_keys[k].ratchet_key # e.our_ratchet_key
      <4>1. CASE ~NeedsRatchet(s)
        <5>1. s.sending_chain.index \in Nat
          BY <1>4 DEF IsSession, Chain
        <5>2. s.sending_chain.index = m.counter
          BY <1>7, <1>10, <4>1, <5>1
        <5>3. QED
          BY <1>10, <4>1, <5>2 DEF SameLinks
      <4>2. CASE NeedsRatchet(s)
        <5>1. ASSUME NEW k \in DOMAIN t.skipped_message_keys
              PROVE  t.skipped_message_keys[k].ratchet_key # fresh
          <6>1. t.skipped_message_keys[k] \in Skipped
            BY <2>1, LenProperties, ElementOfSeq DEF IsSession
          <6>2. Known(t.skipped_message_keys[k].ratchet_key, p)
            BY <1>1, <1>2, <2>1 DEF InStepInv, KeptOfPeer
          <6>3. QED
            BY <1>11, <6>1, <6>2 DEF Skipped
        <5>2. QED
          BY <1>10, <2>3, <4>2, <5>1
      <4>3. QED
        BY <4>1, <4>2
    <3>2. back \in Seq(Message) /\ more = Append(back, m)
      BY <1>1, <1>2 DEF TypeOK
    <3>3. QED
      BY <1>4, <1>6, <1>7, <2>1, <2>2, <3>1, <3>2, FollowsSent
  <2>7. Paired'
    <3>1. session'[p] = e /\ session'[r] = t
      BY <1>1, <1>2, <1>3
    <3>2. Linked(session'[Alice], session'[Bob])
      BY <1>2, <2>4, <3>1, LinkedBoth
    <3>3. \A x \in Device : Follows(session'[x], session'[Peer(x)], net'[x])
      BY <1>1, <1>2, <1>3, <2>5, <2>6, <3>1
    <3>4. QED
      BY <3>2, <3>3 DEF Paired
  <2>8. session'[Bob] # None
    BY <1>1, <1>2, <1>3, <1>6, <1>15
  <2>9. QED
    BY <1>3, <1>9, <1>12, <1>13, <2>7, <2>8 DEF InStepInv
<1>16. QED
  BY <1>14, <1>15

\* Losing a message does too: what comes after it is as readable as before.
LEMMA LoseInStep ==
  ASSUME TypeOK, KeyInv, InStepInv, NEW p \in Device, Lose(p), network' = network
  PROVE  InStepInv'
<1>1. PICK i \in DOMAIN net[p] : net' = [net EXCEPT ![p] = RemoveAt(@, i)]
  BY DEF Lose
<1>2. UNCHANGED <<session, generated, failures>>
  BY DEF Lose
<1>3. PICK r, q, less : r = Peer(p) /\ q = net[p] /\ less = RemoveAt(q, i)
  OBVIOUS
<1>4. /\ r \in Device /\ r # p /\ Peer(r) = p /\ Device = {p, r}
      /\ p \in {Alice, Bob} /\ r \in {Alice, Bob} /\ Peer(Alice) = Bob /\ Peer(Bob) = Alice
  BY <1>3, PeerType, DeviceAssumption DEF Peer
<1>5. /\ q \in Seq(Message) /\ i \in DOMAIN q /\ net'[p] = less /\ net'[r] = net[r]
      /\ \A x \in Device : NoRepeats(net'[x])
  BY <1>1, <1>3, <1>4, NetWithout
<1>6. KeptOfPeer'
  BY <1>2 DEF InStepInv, KeptOfPeer, Known
<1>7. CASE session[Bob] = None
  <2>1. \A j \in DOMAIN less : \E l \in DOMAIN q : less[j] = q[l]
    BY <1>3, <1>5, RemoveAtKeeps
  <2>2. Waiting
    BY <1>7 DEF InStepInv
  <2>3. p = Bob /\ r = Alice
    <3>1. net[Alice] = <<>> /\ DOMAIN <<>> = {}
      BY <2>2 DEF Waiting
    <3>2. QED
      BY <1>3, <1>4, <1>5, <3>1
  <2>4. Waiting'
    BY <1>2, <1>3, <1>5, <2>1, <2>2, <2>3 DEF Waiting, Initiated
  <2>5. QED
    BY <1>2, <1>5, <1>6, <1>7, <2>4 DEF InStepInv
<1>8. CASE session[Bob] # None
  <2>1. PICK s, t : s = session[p] /\ t = session[r]
    OBVIOUS
  <2>2. Paired
    BY <1>8 DEF InStepInv
  <2>3. Follows(s, t, q) /\ Follows(t, s, net[r])
    BY <1>3, <1>4, <2>1, <2>2 DEF Paired
  <2>4. Follows(s, t, less)
    <3>1. KeptFits(s, t) /\ (s.their_ratchet_key = t.our_ratchet_key => Receiving(s).index <= t.sending_chain.index)
      BY <2>3 DEF Follows
    <3>2. QED
      BY <1>3, <1>5, <2>3, <3>1, FollowsLess
  <2>5. Paired'
    <3>1. Linked(session'[Alice], session'[Bob])
      BY <1>2, <2>2 DEF Paired
    <3>2. \A x \in Device : Follows(session'[x], session'[Peer(x)], net'[x])
      BY <1>2, <1>3, <1>4, <1>5, <2>1, <2>3, <2>4
    <3>3. QED
      BY <3>1, <3>2 DEF Paired
  <2>6. QED
    BY <1>2, <1>5, <1>6, <1>8, <2>5 DEF InStepInv
<1>9. QED
  BY <1>7, <1>8

\* At first nothing is on its way, and Alice has the session she started.
LEMMA InitInStep == NoneIsNoSession /\ Init => InStepInv
<1> SUFFICES ASSUME NoneIsNoSession, Init PROVE InStepInv
  OBVIOUS
<1>1. PICK a : a = NewAlice(IdentityKey(Alice), BobBundle, AliceBaseKey, AliceFirstKey)
  OBVIOUS
<1>2. /\ session[Alice] = a /\ session[Bob] = None
      /\ \A p \in Device : net[p] = <<>> /\ failures[p] = {}
      /\ Alice \in Device /\ Bob \in Device /\ Device = {Alice, Bob}
  BY <1>1, DeviceAssumption DEF Init
<1>3. a # None
  BY <1>1, AliceInitialType DEF NoneIsNoSession
<1>4. Initiated(a)
  <2>1. /\ BobBundle.identity_key = IdentityKey(Bob)
        /\ BobBundle.signed_pre_key = SignedPreKey /\ BobBundle.pre_key = OneTimePreKey
    BY DEF BobBundle
  <2>2. PICK root : root = KdfRoot(Master, DiffieHellman(AliceFirstKey, SignedPreKey))
    OBVIOUS
  <2>3. PICK chain, first : chain = NewChain(root, 0) /\ first = NewChain(Master, 0) /\ chain.key = root
    <3>1. \A x, y : NewChain(x, y).key = x
      BY DEF NewChain
    <3>2. QED
      BY <3>1
  <2>4. a = [root_key |-> root, our_ratchet_key |-> AliceFirstKey,
             their_ratchet_key |-> SignedPreKey, sending_chain |-> chain,
             sending_chain_remote_key |-> SignedPreKey,
             receiving_chains |-> [k \in {SignedPreKey} |-> first],
             skipped_message_keys |-> <<>>, pending_pre_key |-> AlicePreKey]
    BY <1>1, <2>1, <2>2, <2>3 DEF NewAlice, Master, AlicePreKey
  <2>5. /\ a.root_key = root /\ a.our_ratchet_key = AliceFirstKey
        /\ a.their_ratchet_key = SignedPreKey /\ a.sending_chain = chain
        /\ a.sending_chain_remote_key = SignedPreKey
        /\ a.receiving_chains = [k \in {SignedPreKey} |-> first]
        /\ a.skipped_message_keys = <<>> /\ a.pending_pre_key = AlicePreKey
    BY <2>4
  <2>6. QED
    BY <2>2, <2>3, <2>5 DEF Initiated, NeedsRatchet
<1>5. DOMAIN <<>> = {}
  OBVIOUS
<1>6. Waiting
  BY <1>2, <1>4, <1>5 DEF Waiting
<1>7. DOMAIN a.skipped_message_keys = {}
  BY <1>4 DEF Initiated
<1>8. KeptOfPeer
  BY <1>2, <1>7 DEF KeptOfPeer
<1>9. network \in Network
  BY NetworkAssumption DEF Init
<1>10. \A p \in Device : NoRepeats(net[p]) /\ \A f \in failures[p] : f.error \in Unreadable
  BY <1>2, <1>5 DEF NoRepeats
<1>11. QED
  BY <1>2, <1>3, <1>6, <1>8, <1>9, <1>10 DEF InStepInv

\* Every step keeps the two sides in step where messages come in order.
LEMMA NextInStep ==
  ASSUME NoneIsNoSession, TypeOK, TypeOK', KeyInv, ShownInv, InOrder, InStepInv, [Next]_vars
  PROVE  InStepInv'
<1>1. Alice \in Device /\ Bob \in Device /\ Device = {Alice, Bob}
  BY DeviceAssumption
<1>2. ASSUME NEW p \in Device, Deliver(p), network' = network PROVE InStepInv'
  <2>1. PICK i \in Deliverable(p) : /\ Receive(p, net[p][i])
                                    /\ net' = [net EXCEPT ![p] = RemoveAt(@, i)]
    BY <1>2 DEF Deliver
  <2>2. PICK m : m = net[p][i]
    OBVIOUS
  <2>3. i \in DOMAIN net[p]
    BY DEF Deliverable
  <2>4. m \in sent[Peer(p)]
    BY <2>2, <2>3, NetSent
  <2>5. CASE session[Bob] = None
    <3>1. p = Bob
      <4>1. net[Alice] = <<>> /\ DOMAIN <<>> = {}
        BY <2>5 DEF InStepInv, Waiting
      <4>2. QED
        BY <1>1, <2>3, <4>1
    <3>2. QED
      BY <1>2, <2>1, <2>2, <2>5, <3>1, ReceiveFirst
  <2>6. CASE session[Bob] # None
    <3>1. m.pre_key = None
      <4>1. ASSUME m.pre_key # None PROVE SomePreKey(net[Bob])
        BY <2>2, <2>3, <2>4, <4>1, PreKeysOfAlice DEF SomePreKey
      <4>2. QED
        BY <2>6, <4>1 DEF ShownInv, PreKeyInv, Unread
    <3>2. QED
      BY <1>2, <2>1, <2>2, <2>6, <3>1, ReceivePaired
  <2>7. QED
    BY <2>5, <2>6
<1>3. ASSUME NEW p \in Device, Replay(p) PROVE FALSE
  <2>1. replays < network.replays /\ network.replays = 0 /\ replays \in Nat
    BY <1>3 DEF Replay, InOrder, TypeOK
  <2>2. QED
    BY <2>1
<1>4. CASE UNCHANGED vars
  <2>1. UNCHANGED <<network, session, generated, net, failures>>
    BY <1>4 DEF vars
  <2>2. Waiting => Waiting'
    BY <2>1 DEF Waiting, Initiated
  <2>3. Paired => Paired'
    BY <2>1 DEF Paired
  <2>4. KeptOfPeer'
    BY <2>1 DEF InStepInv, KeptOfPeer, Known
  <2>5. QED
    BY <2>1, <2>2, <2>3, <2>4 DEF InStepInv
<1>5. QED
  BY <1>2, <1>3, <1>4, SendInStep, LoseInStep DEF Next

\* The same as an implication, for the temporal step.
LEMMA NextInStepIf ==
  ASSUME NoneIsNoSession
  PROVE  TypeOK /\ TypeOK' /\ KeyInv /\ (PreKeysComeOnce => ShownInv)
         /\ (InOrder => InStepInv) /\ [Next]_vars => (InOrder' => InStepInv')
<1>1. ASSUME TypeOK, TypeOK', KeyInv, PreKeysComeOnce => ShownInv,
             InOrder => InStepInv, [Next]_vars, InOrder'
      PROVE  InStepInv'
  <2>1. InOrder
    BY <1>1 DEF InOrder, Next, vars
  <2>2. ShownInv
    BY <1>1, <2>1 DEF InOrder, PreKeysComeOnce
  <2>3. InStepInv
    BY <1>1, <2>1
  <2>4. QED
    BY <1>1, <2>1, <2>2, <2>3, NextInStep
<1>2. QED
  BY <1>1

\* InStepInv, where messages come in order.
THEOREM InStepCorrect == NoneIsNoSession => (Spec => [](InOrder => InStepInv))
<1> SUFFICES ASSUME NoneIsNoSession PROVE Spec => [](InOrder => InStepInv)
  OBVIOUS
<1>1. Spec => []TypeOK /\ []KeyInv /\ [](PreKeysComeOnce => ShownInv)
  BY TypeCorrect, KeysFresh, ShownCorrect
<1>2. Init => (InOrder => InStepInv)
  BY InitInStep
<1>3. TypeOK /\ TypeOK' /\ KeyInv /\ (PreKeysComeOnce => ShownInv)
      /\ (InOrder => InStepInv) /\ [Next]_vars => (InOrder' => InStepInv')
  BY NextInStepIf
<1>4. QED
  BY <1>1, <1>2, <1>3, PTL DEF Spec

\* One side's root is the other's, or that with one output appended.
LEMMA StepApart ==
  ASSUME NEW a \in RootKey, NEW b \in RootKey, NEW dh, dh \in SUBSET Key,
         b = a \/ b = KdfRoot(a, dh)
  PROVE  IsPrefix(a, b) /\ Len(b) <= Len(a) + 1
<1>1. a \in Seq(SUBSET Key) /\ b \in Seq(SUBSET Key) /\ Len(a) \in Nat /\ DOMAIN a = 1 .. Len(a)
  BY LenProperties DEF RootKey
<1>2. CASE b = a
  BY <1>1, <1>2 DEF IsPrefix
<1>3. CASE b = KdfRoot(a, dh)
  <2>1. /\ Len(b) = Len(a) + 1 /\ \A i \in 1 .. Len(a) : b[i] = a[i]
    BY <1>1, <1>3, AppendProperties DEF KdfRoot
  <2>2. Len(a) <= Len(b) /\ \A i \in 1 .. Len(a) : a[i] = b[i]
    BY <1>1, <2>1
  <2>3. QED
    BY <1>1, <2>1, <2>2 DEF IsPrefix
<1>4. QED
  BY <1>2, <1>3

\* Paired sides are in step.
LEMMA LinkedInStep ==
  ASSUME TypeOK, InOrder, InStepInv
  PROVE  RootsInStep
<1> SUFFICES ASSUME session[Bob] # None
             PROVE  LET a == session[Alice].root_key
                        b == session[Bob].root_key
                    IN  \/ IsPrefix(a, b) /\ Len(b) <= Len(a) + 1
                        \/ IsPrefix(b, a) /\ Len(a) <= Len(b) + 1
  BY DEF RootsInStep
<1> DEFINE s == session[Alice]
           t == session[Bob]
<1>1. s # None /\ Linked(s, t)
  BY DEF InStepInv, Paired
<1>2. IsSession(s) /\ IsSession(t)
  BY <1>1, DeviceAssumption DEF TypeOK
<1>3. s.root_key \in RootKey /\ t.root_key \in RootKey
  BY <1>2 DEF IsSession
<1>5. CASE Level(s, t) \/ Level(t, s)
  <2>1. t.root_key = s.root_key
    BY <1>5 DEF Level
  <2>2. {} \in SUBSET Key
    OBVIOUS
  <2>3. QED
    BY <1>3, <2>1, <2>2, StepApart
<1>6. CASE Ahead(s, t)
  <2>1. /\ s.root_key = KdfRoot(t.root_key, DiffieHellman(t.our_ratchet_key, s.our_ratchet_key))
        /\ DiffieHellman(t.our_ratchet_key, s.our_ratchet_key) \in SUBSET Key
    BY <1>2, <1>6 DEF Ahead, IsSession, DiffieHellman
  <2>2. QED
    BY <1>3, <2>1, StepApart
<1>7. CASE Ahead(t, s)
  <2>1. /\ t.root_key = KdfRoot(s.root_key, DiffieHellman(s.our_ratchet_key, t.our_ratchet_key))
        /\ DiffieHellman(s.our_ratchet_key, t.our_ratchet_key) \in SUBSET Key
    BY <1>2, <1>7 DEF Ahead, IsSession, DiffieHellman
  <2>2. QED
    BY <1>3, <2>1, StepApart
<1>8. QED
  BY <1>1, <1>5, <1>6, <1>7 DEF Linked

\* Two devices whose messages come in the order they were sent, each once or not at
\* all, take the steps of the double ratchet in turn: encrypt and decrypt of session.rs
\* never take the root of one more than one step from the root of the other.
THEOREM RatchetsInStep == NoneIsNoSession => (Spec => []RootsInStep)
<1> SUFFICES ASSUME NoneIsNoSession PROVE Spec => []RootsInStep
  OBVIOUS
<1>1. TypeOK /\ (InOrder => InStepInv) => RootsInStep
  <2>1. CASE InOrder
    BY <2>1, LinkedInStep
  <2>2. CASE ~InOrder
    BY <2>2 DEF RootsInStep
  <2>3. QED
    BY <2>1, <2>2
<1>2. Spec => [](InOrder => InStepInv)
  BY InStepCorrect
<1>3. QED
  BY <1>1, <1>2, TypeCorrect, PTL

\* A message that comes in order is refused only by a device that has no session, or
\* when more messages before it were lost than fill_message_keys jumps over: no
\* message comes as a duplicate, none as of an old chain, and no key is missing.
THEOREM ReadableInOrder == NoneIsNoSession => (Spec => []InOrderReadable)
<1> SUFFICES ASSUME NoneIsNoSession PROVE Spec => []InOrderReadable
  OBVIOUS
<1>1. (InOrder => InStepInv) => InOrderReadable
  BY DEF InOrderReadable, InStepInv, Unreadable
<1>2. Spec => [](InOrder => InStepInv)
  BY InStepCorrect
<1>3. QED
  BY <1>1, <1>2, PTL
=============================================================================
