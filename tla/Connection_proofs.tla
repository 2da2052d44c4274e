-------------------------- MODULE Connection_proofs --------------------------
(***************************************************************************)
(* The messages of an account, side by side with its device lists, for any *)
(* roster, page size and scenarios: each is shown once, what was not on    *)
(* the screen is counted, the screen shows the table of messages but for   *)
(* what was edited since the login, and what comes in leaves the selection *)
(* where it is.                                                            *)
(*                                                                         *)
(* Everything is typed over the ids that have been given out, so that a    *)
(* new message from here cannot be there already.  A list that is sorted,  *)
(* corrected, delivered or loaded is compared with the one it comes from:  *)
(* it has the same conversations and messages, each once.                  *)
(***************************************************************************)
EXTENDS Connection, SequenceTheorems, FiniteSetTheorems, TLAPS

-----------------------------------------------------------------------------
\* Order: what is arranged is every element once

\* A set has as many elements in the instance.
LEMMA SameCardinality == \A S : Messages!Cardinality(S) = Cardinality(S)
BY DEF Cardinality, Messages!Cardinality

\* Order numbers the indexes that have a key.
LEMMA OrderIsBijection ==
  ASSUME NEW n \in Nat, NEW key, DOMAIN key \subseteq 1 .. n,
         \A i \in DOMAIN key : key[i] \in Int
  PROVE  /\ Cardinality(DOMAIN key) \in Nat
         /\ DOMAIN Messages!Order(key) = 1 .. Cardinality(DOMAIN key)
         /\ \A k \in DOMAIN Messages!Order(key) : Messages!Order(key)[k] \in DOMAIN key
         /\ \A k, l \in DOMAIN Messages!Order(key) :
              Messages!Order(key)[k] = Messages!Order(key)[l] => k = l
         /\ \A i \in DOMAIN key : \E k \in DOMAIN Messages!Order(key) : Messages!Order(key)[k] = i
<1> DEFINE I == DOMAIN key
           c == Cardinality(I)
           before(i) == {j \in I : key[j] < key[i] \/ (key[j] = key[i] /\ j <= i)}
           rank == [i \in I |-> Cardinality(before(i))]
           o == [k \in 1 .. c |-> CHOOSE i \in I : rank[i] = k]
<1>1. IsFiniteSet(I) /\ c \in Nat
  <2>1. IsFiniteSet(1 .. n)
    BY FS_Interval
  <2>2. QED
    BY <2>1, FS_Subset, FS_CardinalityType
<1>2. \A i \in I : /\ i \in before(i) /\ IsFiniteSet(before(i))
                   /\ Cardinality(before(i)) \in 1 .. c
  <2> SUFFICES ASSUME NEW i \in I
               PROVE  /\ i \in before(i) /\ IsFiniteSet(before(i))
                      /\ Cardinality(before(i)) \in 1 .. c
    OBVIOUS
  <2>1. i \in before(i)
    OBVIOUS
  <2> DEFINE b == before(i)
  <2>2. b \in SUBSET I /\ i \in b
    BY <2>1
  <2> HIDE DEF b
  <2>3. IsFiniteSet(b) /\ Cardinality(b) <= c
    BY <1>1, <2>2, FS_Subset
  <2>4. Cardinality(b) \in Nat /\ Cardinality(b) # 0
    BY <2>2, <2>3, FS_CardinalityType, FS_EmptySet
  <2>5. QED
    BY <1>1, <2>1, <2>3, <2>4 DEF b
<1>3. ASSUME NEW i \in I, NEW j \in I, key[i] < key[j] \/ (key[i] = key[j] /\ i < j)
      PROVE  rank[i] # rank[j]
  <2> DEFINE a == before(i)
             b == before(j)
  <2>1. /\ i \in Int /\ j \in Int /\ key[i] \in Int /\ key[j] \in Int
    OBVIOUS
  <2>2. a \subseteq b
    BY <1>3
  <2>3. j \notin a /\ j \in b
    BY <1>2, <1>3, <2>1
  <2>4. IsFiniteSet(b)
    BY <1>2
  <2>5. rank[i] = Cardinality(a) /\ rank[j] = Cardinality(b)
    OBVIOUS
  <2> HIDE DEF a, b, rank
  <2>6. Cardinality(a) # Cardinality(b)
    BY <2>2, <2>3, <2>4, FS_Subset
  <2>7. QED
    BY <2>5, <2>6
<1>4. rank \in Injection(I, 1 .. c)
  <2>1. rank \in [I -> 1 .. c]
    BY <1>2
  <2>2. ASSUME NEW i \in I, NEW j \in I, i # j PROVE rank[i] # rank[j]
    <3>1. \/ key[i] < key[j] \/ (key[i] = key[j] /\ i < j)
          \/ key[j] < key[i] \/ (key[j] = key[i] /\ j < i)
      BY <2>2
    <3> HIDE DEF rank
    <3>2. QED
      BY <1>3, <3>1
  <2> HIDE DEF rank
  <2>3. QED
    BY <2>1, <2>2 DEF Injection, IsInjective
<1>5. rank \in Surjection(I, 1 .. c)
  <2>1. IsFiniteSet(1 .. c) /\ Cardinality(1 .. c) = c
    BY <1>1, FS_Interval
  <2> HIDE DEF rank
  <2>2. QED
    BY <1>4, <2>1, FS_Injection
<1>6. \A k \in 1 .. c : \E i \in I : rank[i] = k
  BY <1>5 DEF Surjection
<1>7. \A i, j \in I : rank[i] = rank[j] => i = j
  <2> HIDE DEF rank
  <2>1. QED
    BY <1>4 DEF Injection, IsInjective
<1>8. \A i \in I : rank[i] \in 1 .. c
  BY <1>2
<1>9. Messages!Order(key) = o
  <2> DEFINE mrank == [i \in I |-> Messages!Cardinality(before(i))]
             mc == Messages!Cardinality(I)
  <2>1. Messages!Order(key) = [k \in 1 .. mc |-> CHOOSE i \in I : mrank[i] = k]
    BY DEF Messages!Order
  <2>2. mrank = rank /\ mc = c
    BY SameCardinality
  <2> HIDE DEF mrank, mc, rank, c
  <2>3. QED
    BY <2>1, <2>2
<1> HIDE DEF rank
<1>10. \A k \in 1 .. c : o[k] \in I /\ rank[o[k]] = k
  <2> SUFFICES ASSUME NEW k \in 1 .. c
               PROVE  o[k] \in I /\ rank[o[k]] = k
    OBVIOUS
  <2>1. o[k] = CHOOSE i \in I : rank[i] = k
    OBVIOUS
  <2> HIDE DEF o, I
  <2>2. QED
    BY <1>6, <2>1
<1>11. DOMAIN o = 1 .. c
  OBVIOUS
<1> HIDE DEF o, c
<1>12. \A k, l \in 1 .. c : o[k] = o[l] => k = l
  BY <1>10
<1>13. \A i \in I : o[rank[i]] = i
  BY <1>7, <1>8, <1>10
<1>14. QED
  BY <1>1, <1>8, <1>9, <1>10, <1>11, <1>12, <1>13 DEF c

\* The list a has the elements of s at the indexes I, each once; p says which where.
Arranges(p, a, s, I) ==
  /\ DOMAIN p = DOMAIN a
  /\ \A k \in DOMAIN a : p[k] \in I /\ a[k] = s[p[k]]
  /\ \A k, l \in DOMAIN a : p[k] = p[l] => k = l
  /\ \A i \in I : \E k \in DOMAIN a : p[k] = i

\* Arranged by an order, the elements of the indexes that have a key are there once.
LEMMA OrderArranges ==
  ASSUME NEW S, NEW s \in Seq(S), NEW key, DOMAIN key \subseteq DOMAIN s,
         \A i \in DOMAIN key : key[i] \in Int
  PROVE  /\ Messages!At(s, Messages!Order(key)) \in Seq(S)
         /\ Len(Messages!At(s, Messages!Order(key))) = Cardinality(DOMAIN key)
         /\ Arranges(Messages!Order(key), Messages!At(s, Messages!Order(key)), s, DOMAIN key)
<1> DEFINE o == Messages!Order(key)
           a == Messages!At(s, o)
           c == Cardinality(DOMAIN key)
<1>1. /\ c \in Nat /\ DOMAIN o = 1 .. c
      /\ \A k \in DOMAIN o : o[k] \in DOMAIN key
      /\ \A k, l \in DOMAIN o : o[k] = o[l] => k = l
      /\ \A i \in DOMAIN key : \E k \in DOMAIN o : o[k] = i
  <2>1. PICK n : n = Len(s)
    OBVIOUS
  <2>2. n \in Nat /\ DOMAIN key \subseteq 1 .. n
    BY <2>1, LenProperties
  <2>3. QED
    BY <2>2, OrderIsBijection
<1>2. DOMAIN a = DOMAIN o /\ \A k \in DOMAIN o : a[k] = s[o[k]]
  BY DEF Messages!At
<1>3. \A i \in DOMAIN s : s[i] \in S
  BY LenProperties, ElementOfSeq
<1>4. a = [k \in 1 .. c |-> s[o[k]]]
  BY <1>1 DEF Messages!At
<1> HIDE DEF o, c
<1>5. \A k \in 1 .. c : s[o[k]] \in S
  BY <1>1, <1>3
<1>6. a \in Seq(S) /\ Len(a) = c
  <2>1. [k \in 1 .. c |-> s[o[k]]] \in Seq(S)
    BY <1>1, <1>5, IsASeq
  <2>2. a \in Seq(S) /\ DOMAIN a = 1 .. c
    BY <1>1, <1>2, <1>4, <2>1
  <2>3. Len(a) \in Nat /\ DOMAIN a = 1 .. Len(a)
    BY <2>2, LenProperties
  <2> HIDE DEF a
  <2>4. QED
    BY <1>1, <2>2, <2>3
<1>7. Arranges(o, a, s, DOMAIN key)
  BY <1>1, <1>2 DEF Arranges
<1>8. QED
  BY <1>6, <1>7 DEF o, c

-----------------------------------------------------------------------------
\* What the scenarios are made of

\* The ids of what others send to the account.
Incoming == {s.id : s \in {t \in Messages!Traffic : t.direction = "incoming"}}

Status    == {"sent", "received", "pending", "delivered"}

MessageOf(ids) ==
  [id : ids, body : Int, direction : Messages!Direction, time : Int, status : Status]

\* A message has the direction in which it was sent, wherever it is but on the screen
\* after an edit.
AsSent(m) == m.direction = "incoming" <=> m.id \in Incoming

ConversationOf(ids) == [contact : Messages!People, messages : Seq(MessageOf(ids)), unread : Nat]

ListOf(ids) == Seq(ConversationOf(ids))

\* Each message and each contact is in the list once.
OnceIn(list) ==
  /\ \A i, j \in DOMAIN list : list[i].contact = list[j].contact => i = j
  /\ \A i, j \in DOMAIN list : \A k \in DOMAIN list[i].messages, l \in DOMAIN list[j].messages :
       list[i].messages[k].id = list[j].messages[l].id => i = j /\ k = l

IsIn(list, id) ==
  \E i \in DOMAIN list : \E k \in DOMAIN list[i].messages : list[i].messages[k].id = id

\* A message that others sent is in the conversation of its contact.
Fits(contact, id) == \A t \in Messages!Traffic : t.id = id => t.contact = contact

FitsIn(list) ==
  \A i \in DOMAIN list : \A k \in DOMAIN list[i].messages :
    Fits(list[i].contact, list[i].messages[k].id)

\* The fields of a conversation.
LEMMA ConversationFields ==
  ASSUME NEW ids, NEW list \in ListOf(ids)
  PROVE  /\ Len(list) \in Nat /\ DOMAIN list = 1 .. Len(list)
         /\ \A i \in DOMAIN list :
              LET c == list[i]
              IN  /\ c \in ConversationOf(ids)
                  /\ c.contact \in Messages!People /\ c.unread \in Nat
                  /\ c.messages \in Seq(MessageOf(ids))
                  /\ Len(c.messages) \in Nat /\ DOMAIN c.messages = 1 .. Len(c.messages)
                  /\ \A k \in DOMAIN c.messages : c.messages[k] \in MessageOf(ids)
<1>1. Len(list) \in Nat /\ DOMAIN list = 1 .. Len(list)
  BY LenProperties DEF ListOf
<1>2. ASSUME NEW i \in DOMAIN list
      PROVE  LET c == list[i]
              IN  /\ c \in ConversationOf(ids)
                  /\ c.contact \in Messages!People /\ c.unread \in Nat
                  /\ c.messages \in Seq(MessageOf(ids))
                  /\ Len(c.messages) \in Nat /\ DOMAIN c.messages = 1 .. Len(c.messages)
                  /\ \A k \in DOMAIN c.messages : c.messages[k] \in MessageOf(ids)
  <2>1. list[i] \in ConversationOf(ids)
    BY <1>1, <1>2, ElementOfSeq DEF ListOf
  <2>2. PICK s : s = list[i].messages
    OBVIOUS
  <2>3. s \in Seq(MessageOf(ids)) /\ list[i].contact \in Messages!People /\ list[i].unread \in Nat
    BY <2>1, <2>2 DEF ConversationOf
  <2>4. /\ Len(s) \in Nat /\ DOMAIN s = 1 .. Len(s)
        /\ \A k \in DOMAIN s : s[k] \in MessageOf(ids)
    BY <2>3, LenProperties, ElementOfSeq
  <2>5. QED
    BY <2>1, <2>2, <2>3, <2>4
<1>3. QED
  BY <1>1, <1>2

\* sort_conversations keeps every conversation, once.
LEMMA NewestFirstArranges ==
  ASSUME NEW ids, NEW list \in ListOf(ids)
  PROVE  /\ Messages!NewestFirst(list) \in ListOf(ids)
         /\ Len(Messages!NewestFirst(list)) = Len(list)
         /\ DOMAIN Messages!NewestFirst(list) = DOMAIN list
         /\ \E p : Arranges(p, Messages!NewestFirst(list), list, DOMAIN list)
<1> DEFINE key == [i \in DOMAIN list |-> -Messages!LastTime(list[i])]
<1>1. \A i \in DOMAIN list : Messages!LastTime(list[i]) \in Int
  <2> SUFFICES ASSUME NEW i \in DOMAIN list PROVE Messages!LastTime(list[i]) \in Int
    OBVIOUS
  <2>1. PICK s : s = list[i].messages
    OBVIOUS
  <2>2. s \in Seq(MessageOf(ids)) /\ Len(s) \in Nat /\ DOMAIN s = 1 .. Len(s)
        /\ \A k \in DOMAIN s : s[k] \in MessageOf(ids)
    BY <2>1, ConversationFields
  <2>3. CASE s = <<>>
    BY <2>1, <2>3 DEF Messages!LastTime
  <2>4. CASE s # <<>>
    <3>1. Len(s) \in DOMAIN s
      BY <2>2, <2>4, EmptySeq
    <3>2. s[Len(s)].time \in Int
      BY <2>2, <3>1 DEF MessageOf
    <3>3. QED
      BY <2>1, <2>4, <3>2 DEF Messages!LastTime, Messages!Last
  <2>5. QED
    BY <2>3, <2>4
<1>2. DOMAIN key = DOMAIN list /\ \A i \in DOMAIN key : key[i] \in Int
  BY <1>1
<1>3. Len(list) \in Nat /\ DOMAIN list = 1 .. Len(list)
  BY ConversationFields
<1>4. Cardinality(DOMAIN list) = Len(list)
  <2>1. PICK n : n = Len(list)
    OBVIOUS
  <2>2. n \in Nat /\ Cardinality(1 .. n) = n
    <3>1. n \in Nat /\ 1 \in Int /\ n \in Int
      BY <1>3, <2>1
    <3>2. Cardinality(1 .. n) = IF 1 > n THEN 0 ELSE n - 1 + 1
      BY <3>1, FS_Interval
    <3>3. QED
      BY <3>1, <3>2
  <2>3. QED
    BY <1>3, <2>1, <2>2
<1>5. Messages!NewestFirst(list) = Messages!At(list, Messages!Order(key))
  BY DEF Messages!NewestFirst
<1> HIDE DEF key
<1>6. /\ Messages!At(list, Messages!Order(key)) \in Seq(ConversationOf(ids))
      /\ Len(Messages!At(list, Messages!Order(key))) = Cardinality(DOMAIN key)
      /\ Arranges(Messages!Order(key), Messages!At(list, Messages!Order(key)), list, DOMAIN key)
  BY <1>2, OrderArranges DEF ListOf
<1>7. Messages!NewestFirst(list) \in ListOf(ids) /\ Len(Messages!NewestFirst(list)) = Len(list)
  BY <1>2, <1>4, <1>5, <1>6 DEF ListOf
<1>8. QED
  BY <1>2, <1>3, <1>5, <1>6, <1>7, ConversationFields

\* What is in a list once is so in any arrangement of it.
LEMMA OnceArranged ==
  ASSUME NEW a, NEW s, NEW p, Arranges(p, a, s, DOMAIN s), OnceIn(s)
  PROVE  OnceIn(a)
BY DEF Arranges, OnceIn

-----------------------------------------------------------------------------
\* Conversations: a message is added, and a contact has its place

\* The position of a contact is that of its conversation, if it has one.
LEMMA PositionOf ==
  ASSUME Messages!NoneIsApart, NEW ids, NEW list \in ListOf(ids), OnceIn(list), NEW contact
  PROVE  /\ Messages!Position(list, contact) # None =>
              Messages!Position(list, contact) \in DOMAIN list
                /\ list[Messages!Position(list, contact)].contact = contact
         /\ Messages!Position(list, contact) = None =>
              \A i \in DOMAIN list : list[i].contact # contact
         /\ \A i \in DOMAIN list : list[i].contact = contact => Messages!Position(list, contact) = i
<1>1. ASSUME NEW i \in DOMAIN list, list[i].contact = contact
      PROVE  Messages!Position(list, contact) = i
  <2>1. i \in Int
    BY ConversationFields
  <2>2. {j \in DOMAIN list : list[j].contact = contact} = {i}
    BY <1>1 DEF OnceIn
  <2>3. Messages!Min({i}) = i
    BY <2>1 DEF Messages!Min
  <2>4. QED
    BY <1>1, <2>2, <2>3 DEF Messages!Position
<1>2. CASE \E i \in DOMAIN list : list[i].contact = contact
  <2>1. PICK i \in DOMAIN list : list[i].contact = contact
    BY <1>2
  <2>2. Messages!Position(list, contact) = i /\ i \in Int
    BY <1>1, <2>1, ConversationFields
  <2>3. QED
    BY <1>1, <2>1, <2>2 DEF Messages!NoneIsApart
<1>3. CASE ~\E i \in DOMAIN list : list[i].contact = contact
  BY <1>3 DEF Messages!Position
<1>4. QED
  BY <1>2, <1>3

\* What Append does.
LEMMA AppendToList ==
  ASSUME NEW S, NEW s \in Seq(S), NEW e \in S
  PROVE  /\ Append(s, e) \in Seq(S) /\ Len(s) \in Nat /\ Len(Append(s, e)) = Len(s) + 1
         /\ DOMAIN s = 1 .. Len(s) /\ DOMAIN Append(s, e) = 1 .. Len(s) + 1
         /\ \A i \in DOMAIN s : Append(s, e)[i] = s[i]
         /\ Append(s, e)[Len(s) + 1] = e
<1>1. /\ Append(s, e) \in Seq(S) /\ Len(s) \in Nat /\ Len(Append(s, e)) = Len(s) + 1
      /\ DOMAIN s = 1 .. Len(s)
      /\ \A i \in 1 .. Len(s) : Append(s, e)[i] = s[i]
      /\ Append(s, e)[Len(s) + 1] = e
  BY LenProperties, AppendProperties
<1>2. DOMAIN Append(s, e) = 1 .. Len(Append(s, e))
  BY <1>1, LenProperties
<1>3. QED
  BY <1>1, <1>2

\* A contact without a conversation gets an empty one at the end.
LEMMA WithContactAdds ==
  ASSUME Messages!NoneIsApart, NEW ids, NEW list \in ListOf(ids), OnceIn(list),
         NEW contact \in Messages!People
  PROVE  LET all == Messages!WithContact(list, contact)
         IN  /\ all \in ListOf(ids) /\ OnceIn(all)
             /\ Messages!Position(all, contact) # None
             /\ DOMAIN list \subseteq DOMAIN all
             /\ \A i \in DOMAIN list : all[i] = list[i]
             /\ \A i \in DOMAIN all \ DOMAIN list :
                  all[i].contact = contact /\ all[i].messages = <<>> /\ all[i].unread = 0
             /\ \A i, j \in DOMAIN all \ DOMAIN list : i = j
<1>1. CASE Messages!Position(list, contact) # None
  BY <1>1 DEF Messages!WithContact
<1>2. CASE Messages!Position(list, contact) = None
  <2> DEFINE c == Messages!NewConversation(contact)
             all == Append(list, c)
  <2>1. c \in ConversationOf(ids) /\ c.contact = contact /\ c.messages = <<>> /\ c.unread = 0
    BY EmptySeq DEF Messages!NewConversation, ConversationOf
  <2> HIDE DEF c
  <2>2. /\ all \in ListOf(ids) /\ Len(list) \in Nat /\ Len(all) = Len(list) + 1
        /\ DOMAIN list = 1 .. Len(list) /\ DOMAIN all = 1 .. Len(list) + 1
        /\ \A i \in DOMAIN list : all[i] = list[i]
        /\ all[Len(list) + 1] = c
    BY <2>1, AppendToList DEF ListOf
  <2>3. Messages!WithContact(list, contact) = all
    BY <1>2 DEF Messages!WithContact, c
  <2> HIDE DEF all
  <2>4. \A i \in DOMAIN list : list[i].contact # contact
    BY <1>2, PositionOf
  <2>5. \A i \in DOMAIN all : i \in DOMAIN list \/ (i = Len(list) + 1 /\ all[i] = c)
    BY <2>2
  <2>6. DOMAIN <<>> = {}
    OBVIOUS
  <2>7. OnceIn(all)
    <3>1. ASSUME NEW i \in DOMAIN all, NEW j \in DOMAIN all, all[i].contact = all[j].contact
          PROVE  i = j
      BY <2>1, <2>2, <2>4, <2>5, <3>1 DEF OnceIn
    <3>2. \A i \in DOMAIN all : \A k \in DOMAIN all[i].messages : i \in DOMAIN list
      BY <2>1, <2>5, <2>6
    <3>3. ASSUME NEW i \in DOMAIN all, NEW j \in DOMAIN all,
                 NEW k \in DOMAIN all[i].messages, NEW l \in DOMAIN all[j].messages,
                 all[i].messages[k].id = all[j].messages[l].id
          PROVE  i = j /\ k = l
      <4>1. i \in DOMAIN list /\ j \in DOMAIN list
        BY <3>2
      <4>2. all[i] = list[i] /\ all[j] = list[j]
        BY <2>2, <4>1
      <4>3. QED
        BY <3>3, <4>1, <4>2 DEF OnceIn
    <3>4. QED
      BY <3>1, <3>3 DEF OnceIn
  <2>8. Messages!Position(all, contact) # None
    <3>1. Len(list) + 1 \in DOMAIN all
      BY <2>2
    <3>2. QED
      BY <2>1, <2>2, <2>7, <3>1, PositionOf
  <2>9. QED
    BY <2>1, <2>2, <2>3, <2>5, <2>7, <2>8
<1>3. QED
  BY <1>1, <1>2

\* The message becomes the last of its contact's conversation, and the others stay.
LEMMA AddMessageIs ==
  ASSUME Messages!NoneIsApart, NEW ids, NEW list \in ListOf(ids), OnceIn(list),
         NEW contact \in Messages!People, NEW m \in MessageOf(ids), ~IsIn(list, m.id)
  PROVE  LET new == Messages!AddMessage(list, contact, m)
             all == Messages!WithContact(list, contact)
             p   == Messages!Position(all, contact)
             one == IF m.direction = "incoming" THEN 1 ELSE 0
         IN  /\ new \in ListOf(ids) /\ OnceIn(new)
             /\ DOMAIN list \subseteq DOMAIN new /\ p \in DOMAIN new
             /\ \A i \in DOMAIN new : i \in DOMAIN list \/ i = p
             /\ \A i \in DOMAIN list \ {p} : new[i] = list[i]
             /\ new[p].contact = contact
             /\ p \in DOMAIN list =>
                  /\ list[p].contact = contact
                  /\ new[p].messages = Append(list[p].messages, m)
                  /\ new[p].unread = list[p].unread + one
             /\ p \notin DOMAIN list => new[p].messages = <<m>> /\ new[p].unread = one
<1> DEFINE new == Messages!AddMessage(list, contact, m)
           all == Messages!WithContact(list, contact)
           p   == Messages!Position(all, contact)
           one == IF m.direction = "incoming" THEN 1 ELSE 0
           c == all[p]
           d == [c EXCEPT !.messages = Append(@, m),
                          !.unread = IF m.direction = "incoming" THEN @ + 1 ELSE @]
<1>1. /\ all \in ListOf(ids) /\ OnceIn(all) /\ p # None
      /\ DOMAIN list \subseteq DOMAIN all
      /\ \A i \in DOMAIN list : all[i] = list[i]
      /\ \A i \in DOMAIN all \ DOMAIN list :
           all[i].contact = contact /\ all[i].messages = <<>> /\ all[i].unread = 0
      /\ \A i, j \in DOMAIN all \ DOMAIN list : i = j
  BY WithContactAdds
<1>2. new = [all EXCEPT ![p] = d]
  BY DEF Messages!AddMessage
<1> HIDE DEF all
<1>3. p \in DOMAIN all /\ c.contact = contact
  BY <1>1, PositionOf
<1> HIDE DEF p, new
<1>4. /\ Len(all) \in Nat /\ DOMAIN all = 1 .. Len(all) /\ all \in Seq(ConversationOf(ids))
      /\ c \in ConversationOf(ids) /\ c.messages \in Seq(MessageOf(ids)) /\ c.unread \in Nat
  BY <1>1, <1>3, ConversationFields DEF ListOf
<1>5. Append(c.messages, m) \in Seq(MessageOf(ids))
  BY <1>4, AppendToList
<1>6. /\ d.contact = contact /\ d.messages = Append(c.messages, m) /\ d.unread = c.unread + one
      /\ d \in ConversationOf(ids)
  <2>1. DOMAIN c = {"contact", "messages", "unread"}
    BY <1>4 DEF ConversationOf
  <2>2. DOMAIN d = DOMAIN c /\ d.contact = c.contact /\ d.messages = Append(c.messages, m)
    BY <2>1
  <2>3. d.unread = IF m.direction = "incoming" THEN c.unread + 1 ELSE c.unread
    BY <2>1
  <2>4. d.unread = c.unread + one /\ d.unread \in Nat
    BY <1>4, <2>3
  <2>5. d \in ConversationOf(ids)
    BY <1>3, <1>4, <1>5, <2>1, <2>2, <2>4 DEF ConversationOf
  <2>6. QED
    BY <1>3, <2>2, <2>4, <2>5
<1> HIDE DEF c, d
<1>7. new \in ListOf(ids) /\ DOMAIN new = DOMAIN all /\ new[p] = d
      /\ \A i \in DOMAIN all \ {p} : new[i] = all[i]
  BY <1>2, <1>3, <1>4, <1>6, ExceptSeq DEF ListOf
<1>8. ~IsIn(all, m.id)
  BY <1>1 DEF IsIn
<1>9. OnceIn(new)
  <2>1. \A i \in DOMAIN new : new[i].contact = all[i].contact
    BY <1>3, <1>6, <1>7 DEF c
  <2>2. /\ Len(c.messages) \in Nat /\ DOMAIN c.messages = 1 .. Len(c.messages)
        /\ DOMAIN d.messages = 1 .. Len(c.messages) + 1
        /\ \A k \in DOMAIN c.messages : d.messages[k] = c.messages[k]
        /\ d.messages[Len(c.messages) + 1] = m
    BY <1>4, <1>6, AppendToList
  <2>3. \A k \in DOMAIN d.messages : k \in DOMAIN c.messages \/ k = Len(c.messages) + 1
    BY <2>2
  <2>4. \A k \in DOMAIN c.messages : c.messages[k].id # m.id
    BY <1>3, <1>8 DEF IsIn, c
  <2>5. ASSUME NEW k \in DOMAIN d.messages, NEW l \in DOMAIN d.messages,
               d.messages[k].id = d.messages[l].id
        PROVE  k = l
    <3>1. \A a, b \in DOMAIN c.messages : c.messages[a].id = c.messages[b].id => a = b
      BY <1>1, <1>3 DEF OnceIn, c
    <3>2. QED
      BY <2>2, <2>3, <2>4, <2>5, <3>1
  <2>6. ASSUME NEW i \in DOMAIN new, NEW j \in DOMAIN new,
               NEW k \in DOMAIN new[i].messages, NEW l \in DOMAIN new[j].messages,
               new[i].messages[k].id = new[j].messages[l].id
        PROVE  i = j /\ k = l
    <3>1. CASE i = p /\ j = p
      BY <1>7, <2>5, <2>6, <3>1
    <3>2. CASE i # p /\ j # p
      BY <1>1, <1>7, <2>6, <3>2 DEF OnceIn
    <3>3. ASSUME NEW h \in DOMAIN new, h # p, NEW a \in DOMAIN new[p].messages,
                 NEW b \in DOMAIN new[h].messages
          PROVE  new[p].messages[a].id # new[h].messages[b].id
      <4>1. new[h] = all[h] /\ h \in DOMAIN all /\ b \in DOMAIN all[h].messages
        BY <1>7, <3>3
      <4>2. all[h].messages[b].id # m.id
        BY <1>8, <4>1 DEF IsIn
      <4>3. \A e \in DOMAIN c.messages : c.messages[e].id # all[h].messages[b].id
        BY <1>1, <1>3, <3>3, <4>1 DEF OnceIn, c
      <4>4. a \in DOMAIN d.messages /\ new[p].messages[a] = d.messages[a]
        BY <1>7, <3>3
      <4>5. QED
        BY <2>2, <2>3, <4>1, <4>2, <4>3, <4>4
    <3>4. QED
      BY <2>6, <3>1, <3>2, <3>3
  <2>7. QED
    BY <1>1, <1>7, <2>1, <2>6 DEF OnceIn
<1>10. p \in DOMAIN list => c = list[p] /\ list[p].contact = contact
  BY <1>1, <1>3 DEF c
<1>11. p \notin DOMAIN list => d.messages = <<m>> /\ d.unread = one
  <2>1. PICK a : a = c.messages
    OBVIOUS
  <2>2. p \notin DOMAIN list => a = <<>> /\ c.unread = 0
    BY <1>1, <1>3, <2>1 DEF c
  <2>3. Append(<<>>, m) = <<m>>
    OBVIOUS
  <2>4. p \notin DOMAIN list => d.messages = <<m>>
    BY <1>6, <2>1, <2>2, <2>3
  <2>5. one \in Int
    OBVIOUS
  <2>6. p \notin DOMAIN list => d.unread = one
    BY <1>6, <2>2, <2>5
  <2>7. QED
    BY <2>4, <2>6
<1> HIDE DEF one
<1>12. /\ DOMAIN list \subseteq DOMAIN new /\ p \in DOMAIN new
       /\ \A i \in DOMAIN new : i \in DOMAIN list \/ i = p
       /\ \A i \in DOMAIN list \ {p} : new[i] = list[i]
       /\ new[p].contact = contact
  <2>1. \A i \in DOMAIN all : i \in DOMAIN list \/ i = p
    BY <1>1, <1>3, <1>4 DEF OnceIn, c
  <2>2. QED
    BY <1>1, <1>3, <1>6, <1>7, <2>1
<1>13. p \in DOMAIN list =>
            /\ list[p].contact = contact
            /\ new[p].messages = Append(list[p].messages, m)
            /\ new[p].unread = list[p].unread + one
  BY <1>6, <1>7, <1>10
<1>14. p \notin DOMAIN list => new[p].messages = <<m>> /\ new[p].unread = one
  BY <1>7, <1>11
<1>15. QED
  BY <1>7, <1>9, <1>12, <1>13, <1>14 DEF new, all, p, one

-----------------------------------------------------------------------------
\* What is unread is counted

IdsOf(c) == {c.messages[k].id : k \in DOMAIN c.messages}

\* Of each conversation at least the messages of u are counted.
Counted(list, u) == \A i \in DOMAIN list : list[i].unread >= Cardinality(u \cap IdsOf(list[i]))

\* A conversation has finitely many ids.
LEMMA IdsFinite ==
  ASSUME NEW ids, NEW c \in ConversationOf(ids), NEW u
  PROVE  /\ IsFiniteSet(u \cap IdsOf(c)) /\ Cardinality(u \cap IdsOf(c)) \in Nat
         /\ IsFiniteSet(IdsOf(c))
<1>1. PICK s : s = c.messages
  OBVIOUS
<1>2. Len(s) \in Nat /\ DOMAIN s = 1 .. Len(s)
  BY <1>1, LenProperties DEF ConversationOf
<1>3. PICK n \in Nat : DOMAIN s = 1 .. n
  BY <1>2
<1> DEFINE f == [k \in 1 .. n |-> s[k].id]
<1>4. f \in Surjection(1 .. n, IdsOf(c))
  BY <1>1, <1>3 DEF Surjection, IdsOf
<1>5. IsFiniteSet(1 .. n)
  BY <1>3, FS_Interval
<1> HIDE DEF f
<1>6. IsFiniteSet(IdsOf(c))
  BY <1>4, <1>5, FS_Surjection
<1>7. u \cap IdsOf(c) \in SUBSET IdsOf(c)
  OBVIOUS
<1>8. IsFiniteSet(u \cap IdsOf(c))
  BY <1>6, <1>7, FS_Subset
<1>9. QED
  BY <1>6, <1>8, FS_CardinalityType

\* Fewer unseen messages are counted, too.
LEMMA CountedFewer ==
  ASSUME NEW ids, NEW list \in ListOf(ids), NEW u, NEW v \in SUBSET u, Counted(list, u)
  PROVE  Counted(list, v)
<1> SUFFICES ASSUME NEW i \in DOMAIN list
             PROVE  list[i].unread >= Cardinality(v \cap IdsOf(list[i]))
  BY DEF Counted
<1>1. list[i] \in ConversationOf(ids) /\ list[i].unread \in Nat
  BY ConversationFields
<1>2. /\ IsFiniteSet(u \cap IdsOf(list[i])) /\ Cardinality(u \cap IdsOf(list[i])) \in Nat
      /\ Cardinality(v \cap IdsOf(list[i])) \in Nat
  BY <1>1, IdsFinite
<1>3. v \cap IdsOf(list[i]) \in SUBSET (u \cap IdsOf(list[i]))
  OBVIOUS
<1>4. Cardinality(v \cap IdsOf(list[i])) <= Cardinality(u \cap IdsOf(list[i]))
  BY <1>2, <1>3, FS_Subset
<1>5. QED
  BY <1>1, <1>2, <1>4 DEF Counted

\* Counts stay right when the conversations are arranged.
LEMMA CountedArranged ==
  ASSUME NEW a, NEW s, NEW p, Arranges(p, a, s, DOMAIN s), NEW u, Counted(s, u)
  PROVE  Counted(a, u)
BY DEF Arranges, Counted

\* A message that was not in the list is counted if it is a new one of u.
LEMMA CountedAdded ==
  ASSUME Messages!NoneIsApart, NEW ids, NEW list \in ListOf(ids), OnceIn(list),
         NEW contact \in Messages!People, NEW m \in MessageOf(ids), AsSent(m), ~IsIn(list, m.id),
         NEW u \in SUBSET Incoming, NEW v \in SUBSET (u \cup {m.id}),
         m.direction # "incoming" => v \subseteq u, Counted(list, u)
  PROVE  Counted(Messages!AddMessage(list, contact, m), v)
<1> DEFINE new == Messages!AddMessage(list, contact, m)
           p   == Messages!Position(Messages!WithContact(list, contact), contact)
           one == IF m.direction = "incoming" THEN 1 ELSE 0
<1>1. /\ new \in ListOf(ids) /\ DOMAIN list \subseteq DOMAIN new /\ p \in DOMAIN new
      /\ \A i \in DOMAIN new : i \in DOMAIN list \/ i = p
      /\ \A i \in DOMAIN list \ {p} : new[i] = list[i]
      /\ p \in DOMAIN list =>
           /\ new[p].messages = Append(list[p].messages, m)
           /\ new[p].unread = list[p].unread + one
      /\ p \notin DOMAIN list => new[p].messages = <<m>> /\ new[p].unread = one
  BY AddMessageIs
<1>2. one \in Nat /\ (m.direction = "incoming" => one = 1) /\ (m.direction # "incoming" => one = 0)
  OBVIOUS
<1>3. m.direction # "incoming" => m.id \notin v
  BY DEF AsSent
<1> HIDE DEF new, p, one
<1>4. ASSUME NEW i \in DOMAIN list \ {p}
      PROVE  new[i].unread >= Cardinality(v \cap IdsOf(new[i]))
  <2>1. m.id \notin IdsOf(list[i])
    BY <1>4 DEF IsIn, IdsOf
  <2>2. v \cap IdsOf(list[i]) = (v \cap u) \cap IdsOf(list[i])
    BY <2>1
  <2>3. Counted(list, v \cap u)
    BY CountedFewer
  <2>4. QED
    BY <1>1, <1>4, <2>2, <2>3 DEF Counted
<1>5. ASSUME p \in DOMAIN list
      PROVE  new[p].unread >= Cardinality(v \cap IdsOf(new[p]))
  <2> DEFINE A == (v \cap u) \cap IdsOf(list[p])
             B == v \cap IdsOf(new[p])
  <2>1. /\ list[p] \in ConversationOf(ids) /\ list[p].messages \in Seq(MessageOf(ids))
        /\ list[p].unread \in Nat /\ new[p] \in ConversationOf(ids) /\ new[p].unread \in Nat
    BY <1>1, <1>5, ConversationFields
  <2>2. PICK s : s = list[p].messages
    OBVIOUS
  <2>3. /\ DOMAIN s = 1 .. Len(s) /\ DOMAIN Append(s, m) = 1 .. Len(s) + 1 /\ Len(s) \in Nat
        /\ \A k \in DOMAIN s : Append(s, m)[k] = s[k]
        /\ Append(s, m)[Len(s) + 1] = m
    BY <2>1, <2>2, AppendToList
  <2>4. \A k \in DOMAIN Append(s, m) : k \in DOMAIN s \/ k = Len(s) + 1
    BY <2>3
  <2>5. IdsOf(new[p]) \subseteq IdsOf(list[p]) \cup {m.id}
    <3>1. new[p].messages = Append(s, m)
      BY <1>1, <1>5, <2>2
    <3>2. ASSUME NEW k \in DOMAIN Append(s, m)
          PROVE  Append(s, m)[k].id \in IdsOf(list[p]) \cup {m.id}
      <4>1. CASE k \in DOMAIN s
        BY <2>2, <2>3, <4>1 DEF IdsOf
      <4>2. CASE k = Len(s) + 1
        BY <2>3, <4>2
      <4>3. QED
        BY <2>4, <3>2, <4>1, <4>2
    <3>3. QED
      BY <3>1, <3>2 DEF IdsOf
  <2>6. /\ IsFiniteSet(A) /\ Cardinality(A) \in Nat
        /\ IsFiniteSet(B) /\ Cardinality(B) \in Nat
    BY <2>1, IdsFinite
  <2>7. list[p].unread >= Cardinality(A)
    BY <1>5, CountedFewer DEF Counted
  <2>8. B \in SUBSET (A \cup {m.id}) /\ (m.id \notin v => B \in SUBSET A)
    BY <2>5
  <2> HIDE DEF A, B
  <2>9. CASE m.direction = "incoming"
    <3>1. IsFiniteSet(A \cup {m.id}) /\ Cardinality(A \cup {m.id}) <= Cardinality(A) + 1
      <4>1. /\ IsFiniteSet(A \cup {m.id})
            /\ Cardinality(A \cup {m.id}) =
                 IF m.id \in A THEN Cardinality(A) ELSE Cardinality(A) + 1
        BY <2>6, FS_AddElement
      <4>2. QED
        BY <2>6, <4>1
    <3>2. Cardinality(B) <= Cardinality(A \cup {m.id}) /\ Cardinality(A \cup {m.id}) \in Nat
      BY <2>8, <3>1, FS_Subset, FS_CardinalityType
    <3>3. QED
      BY <1>1, <1>2, <1>5, <2>1, <2>6, <2>7, <2>9, <3>1, <3>2 DEF B
  <2>10. CASE m.direction # "incoming"
    <3>1. B \in SUBSET A
      BY <1>3, <2>8, <2>10
    <3>2. Cardinality(B) <= Cardinality(A)
      BY <2>6, <3>1, FS_Subset
    <3>3. QED
      BY <1>1, <1>2, <1>5, <2>1, <2>6, <2>7, <2>10, <3>2 DEF B
  <2>11. QED
    BY <2>9, <2>10
<1>6. ASSUME p \notin DOMAIN list
      PROVE  new[p].unread >= Cardinality(v \cap IdsOf(new[p]))
  <2>1. IdsOf(new[p]) = {m.id}
    <3>1. DOMAIN <<m>> = 1 .. 1 /\ <<m>>[1] = m
      OBVIOUS
    <3>2. 1 .. 1 = {1}
      OBVIOUS
    <3>3. QED
      BY <1>1, <1>6, <3>1, <3>2 DEF IdsOf
  <2>2. CASE m.id \in v
    <3>1. v \cap IdsOf(new[p]) = {m.id} /\ one = 1
      BY <1>2, <1>3, <2>1, <2>2
    <3>2. QED
      <4>1. Cardinality({m.id}) = 1
        BY FS_Singleton
      <4>2. new[p].unread = 1 /\ 1 >= 1
        BY <1>1, <1>6, <3>1
      <4>3. QED
        BY <3>1, <4>1, <4>2
  <2>3. CASE m.id \notin v
    <3>1. v \cap IdsOf(new[p]) = {}
      BY <2>1, <2>3
    <3>2. QED
      <4>1. new[p].unread = one /\ one >= 0
        BY <1>1, <1>2, <1>6
      <4>2. QED
        BY <3>1, <4>1, FS_EmptySet
  <2>4. QED
    BY <2>2, <2>3
<1>7. QED
  BY <1>1, <1>4, <1>5, <1>6 DEF Counted, new

-----------------------------------------------------------------------------
\* Messages are changed in their places

\* The conversations have the same messages, whatever has become of them.
SameIds(a, s) ==
  /\ DOMAIN a = DOMAIN s
  /\ \A i \in DOMAIN s :
       /\ a[i].contact = s[i].contact /\ DOMAIN a[i].messages = DOMAIN s[i].messages
       /\ \A k \in DOMAIN s[i].messages : a[i].messages[k].id = s[i].messages[k].id

\* With the same contacts and ids, each message is there once.
LEMMA SameIdsKeep ==
  ASSUME NEW a, NEW s, SameIds(a, s), OnceIn(s)
  PROVE  OnceIn(a) /\ \A i \in DOMAIN s : IdsOf(a[i]) = IdsOf(s[i])
<1>1. OnceIn(a)
  BY DEF SameIds, OnceIn
<1>2. \A i \in DOMAIN s : IdsOf(a[i]) = IdsOf(s[i])
  BY DEF SameIds, IdsOf
<1>3. QED
  BY <1>1, <1>2

\* With the same contacts and ids, each message is with its contact.
LEMMA SameIdsFit ==
  ASSUME NEW a, NEW s, SameIds(a, s), FitsIn(s)
  PROVE  FitsIn(a)
BY DEF SameIds, FitsIn

\* With the same contacts, ids and counts, the counts stay right.
LEMMA SameIdsCounted ==
  ASSUME NEW a, NEW s, SameIds(a, s), OnceIn(s), NEW u, Counted(s, u),
         \A i \in DOMAIN s : a[i].unread = s[i].unread
  PROVE  Counted(a, u)
BY SameIdsKeep DEF SameIds, Counted

\* A conversation whose messages change, and not their ids.
LEMMA MessagesChanged ==
  ASSUME NEW ids, NEW c \in ConversationOf(ids), NEW s, DOMAIN s = DOMAIN c.messages,
         s = [k \in DOMAIN s |-> s[k]],
         \A k \in DOMAIN s : s[k] \in MessageOf(ids) /\ s[k].id = c.messages[k].id
  PROVE  LET d == [c EXCEPT !.messages = s]
         IN  /\ d \in ConversationOf(ids) /\ d.messages = s
             /\ d.contact = c.contact /\ d.unread = c.unread
<1>1. PICK n \in Nat : DOMAIN s = 1 .. n
  <2>1. PICK t : t = c.messages
    OBVIOUS
  <2>2. Len(t) \in Nat /\ DOMAIN t = 1 .. Len(t)
    BY <2>1, LenProperties DEF ConversationOf
  <2>3. QED
    BY <2>1, <2>2
<1>2. s \in Seq(MessageOf(ids))
  <2>1. [k \in 1 .. n |-> s[k]] \in Seq(MessageOf(ids))
    BY <1>1, IsASeq
  <2>2. QED
    BY <1>1, <2>1
<1>3. QED
  BY <1>2 DEF ConversationOf

\* A list whose conversations change, and not their ids.
LEMMA ConversationsChanged ==
  ASSUME NEW ids, NEW list \in ListOf(ids), NEW a, a = [i \in DOMAIN list |-> a[i]],
         \A i \in DOMAIN list :
           /\ a[i] \in ConversationOf(ids) /\ a[i].contact = list[i].contact
           /\ DOMAIN a[i].messages = DOMAIN list[i].messages
           /\ \A k \in DOMAIN list[i].messages : a[i].messages[k].id = list[i].messages[k].id
  PROVE  a \in ListOf(ids) /\ SameIds(a, list)
<1>1. PICK n \in Nat : DOMAIN list = 1 .. n
  BY ConversationFields
<1>2. [i \in 1 .. n |-> a[i]] \in Seq(ConversationOf(ids))
  BY <1>1, IsASeq
<1>3. a \in ListOf(ids)
  BY <1>1, <1>2 DEF ListOf
<1>4. QED
  BY <1>3 DEF SameIds

\* A message with another body is a message of the same id.
LEMMA BodyUpdated ==
  ASSUME NEW ids, NEW m \in MessageOf(ids), NEW body \in Int
  PROVE  /\ [m EXCEPT !.body = body] \in MessageOf(ids) /\ [m EXCEPT !.body = body].id = m.id
         /\ AsSent(m) => AsSent([m EXCEPT !.body = body])
BY DEF MessageOf, AsSent

\* A message that is delivered is a message of the same id.
LEMMA StatusUpdated ==
  ASSUME NEW ids, NEW m \in MessageOf(ids)
  PROVE  /\ [m EXCEPT !.status = "delivered"] \in MessageOf(ids)
         /\ [m EXCEPT !.status = "delivered"].id = m.id
         /\ AsSent(m) => AsSent([m EXCEPT !.status = "delivered"])
BY DEF MessageOf, Status, AsSent

\* What becomes of the message of an id: with a new body, or edited.
Rewritten(m, body, now) == [m EXCEPT !.body = body, !.time = now]
Edited(m, now) ==
  [m EXCEPT !.body = 2, !.direction = "outgoing", !.time = now, !.status = "sent"]

\* A correction changes the body of one message, in the conversation of its contact.
LEMMA CorrectedIs ==
  ASSUME NEW ids, conversations \in ListOf(ids), NEW contact, NEW target, NEW body \in Int,
         Len(archive) \in Nat
  PROVE  /\ Messages!Corrected(contact, target, body) \in ListOf(ids)
         /\ SameIds(Messages!Corrected(contact, target, body), conversations)
         /\ \A i \in DOMAIN conversations :
              Messages!Corrected(contact, target, body)[i].unread = conversations[i].unread
         /\ \A i \in DOMAIN conversations : \A k \in DOMAIN conversations[i].messages :
              Messages!Corrected(contact, target, body)[i].messages[k] =
                IF conversations[i].contact = contact /\ conversations[i].messages[k].id = target
                THEN Rewritten(conversations[i].messages[k], body, Len(archive))
                ELSE conversations[i].messages[k]
<1> DEFINE new == Messages!Corrected(contact, target, body)
           changed(m) == IF m.id = target THEN Rewritten(m, body, Len(archive)) ELSE m
<1>1. ASSUME NEW m \in MessageOf(ids)
      PROVE  changed(m) \in MessageOf(ids) /\ changed(m).id = m.id
  <2>1. PICK n \in Int : n = Len(archive)
    OBVIOUS
  <2>2. /\ [m EXCEPT !.body = body, !.time = n] \in MessageOf(ids)
        /\ [m EXCEPT !.body = body, !.time = n].id = m.id
    BY DEF MessageOf
  <2>3. QED
    BY <2>1, <2>2 DEF Rewritten
<1>2. ASSUME NEW i \in DOMAIN conversations
      PROVE  LET c == conversations[i]
             IN  /\ new[i] \in ConversationOf(ids) /\ new[i].contact = c.contact
                 /\ new[i].unread = c.unread
                 /\ new[i].messages = IF c.contact = contact
                                      THEN [k \in DOMAIN c.messages |-> changed(c.messages[k])]
                                      ELSE c.messages
  <2> DEFINE c == conversations[i]
             s == [k \in DOMAIN c.messages |-> changed(c.messages[k])]
  <2>1. c \in ConversationOf(ids) /\ \A k \in DOMAIN c.messages : c.messages[k] \in MessageOf(ids)
    BY ConversationFields
  <2>2. new[i] = IF c.contact # contact THEN c ELSE [c EXCEPT !.messages = s]
    BY DEF Messages!Corrected, Messages!InMessages, Rewritten
  <2>3. /\ DOMAIN s = DOMAIN c.messages /\ s = [k \in DOMAIN s |-> s[k]]
        /\ \A k \in DOMAIN s : s[k] \in MessageOf(ids) /\ s[k].id = c.messages[k].id
    BY <1>1, <2>1
  <2> HIDE DEF c, s
  <2>4. LET d == [c EXCEPT !.messages = s]
        IN  /\ d \in ConversationOf(ids) /\ d.messages = s
            /\ d.contact = c.contact /\ d.unread = c.unread
    BY <2>1, <2>3, MessagesChanged
  <2>5. QED
    BY <2>1, <2>2, <2>4 DEF c, s
<1>3. new = [i \in DOMAIN conversations |-> new[i]]
  BY DEF Messages!Corrected
<1>4. \A i \in DOMAIN conversations : \A k \in DOMAIN conversations[i].messages :
        conversations[i].messages[k] \in MessageOf(ids)
  BY ConversationFields
<1> HIDE DEF new
<1>5. \A i \in DOMAIN conversations :
        /\ new[i] \in ConversationOf(ids) /\ new[i].contact = conversations[i].contact
        /\ DOMAIN new[i].messages = DOMAIN conversations[i].messages
        /\ \A k \in DOMAIN conversations[i].messages :
             /\ new[i].messages[k] = IF conversations[i].contact = contact
                                     THEN changed(conversations[i].messages[k])
                                     ELSE conversations[i].messages[k]
             /\ new[i].messages[k].id = conversations[i].messages[k].id
  BY <1>1, <1>2, <1>4
<1>6. new \in ListOf(ids) /\ SameIds(new, conversations)
  BY <1>3, <1>5, ConversationsChanged
<1>7. QED
  BY <1>2, <1>5, <1>6 DEF new

AsDelivered(id) ==
  [i \in DOMAIN conversations |-> Messages!InMessages(conversations[i], id, Messages!Delivered)]

\* A delivery changes the status of one message.
LEMMA DeliveredIs ==
  ASSUME NEW ids, conversations \in ListOf(ids), NEW id
  PROVE  /\ AsDelivered(id) \in ListOf(ids) /\ SameIds(AsDelivered(id), conversations)
         /\ \A i \in DOMAIN conversations : AsDelivered(id)[i].unread = conversations[i].unread
         /\ \A i \in DOMAIN conversations : \A k \in DOMAIN conversations[i].messages :
              AsDelivered(id)[i].messages[k] =
                IF conversations[i].messages[k].id = id
                THEN [conversations[i].messages[k] EXCEPT !.status = "delivered"]
                ELSE conversations[i].messages[k]
<1> DEFINE new == AsDelivered(id)
           changed(m) == IF m.id = id THEN [m EXCEPT !.status = "delivered"] ELSE m
<1>1. ASSUME NEW m \in MessageOf(ids)
      PROVE  changed(m) \in MessageOf(ids) /\ changed(m).id = m.id
  BY StatusUpdated
<1>2. ASSUME NEW i \in DOMAIN conversations
      PROVE  LET c == conversations[i]
             IN  /\ new[i] \in ConversationOf(ids) /\ new[i].contact = c.contact
                 /\ new[i].unread = c.unread
                 /\ new[i].messages = [k \in DOMAIN c.messages |-> changed(c.messages[k])]
  <2> DEFINE c == conversations[i]
             s == [k \in DOMAIN c.messages |-> changed(c.messages[k])]
  <2>1. c \in ConversationOf(ids) /\ \A k \in DOMAIN c.messages : c.messages[k] \in MessageOf(ids)
    BY ConversationFields
  <2>2. new[i] = [c EXCEPT !.messages = s]
    BY DEF AsDelivered, Messages!InMessages, Messages!Delivered
  <2>3. /\ DOMAIN s = DOMAIN c.messages /\ s = [k \in DOMAIN s |-> s[k]]
        /\ \A k \in DOMAIN s : s[k] \in MessageOf(ids) /\ s[k].id = c.messages[k].id
    BY <1>1, <2>1
  <2> HIDE DEF c, s
  <2>4. LET d == [c EXCEPT !.messages = s]
        IN  /\ d \in ConversationOf(ids) /\ d.messages = s
            /\ d.contact = c.contact /\ d.unread = c.unread
    BY <2>1, <2>3, MessagesChanged
  <2>5. QED
    BY <2>1, <2>2, <2>4 DEF c, s
<1>3. new = [i \in DOMAIN conversations |-> new[i]]
  BY DEF AsDelivered
<1>4. \A i \in DOMAIN conversations : \A k \in DOMAIN conversations[i].messages :
        conversations[i].messages[k] \in MessageOf(ids)
  BY ConversationFields
<1> HIDE DEF new
<1>5. \A i \in DOMAIN conversations :
        /\ new[i] \in ConversationOf(ids) /\ new[i].contact = conversations[i].contact
        /\ DOMAIN new[i].messages = DOMAIN conversations[i].messages
        /\ \A k \in DOMAIN conversations[i].messages :
             /\ new[i].messages[k] = changed(conversations[i].messages[k])
             /\ new[i].messages[k].id = conversations[i].messages[k].id
  BY <1>1, <1>2, <1>4
<1>6. new \in ListOf(ids) /\ SameIds(new, conversations)
  BY <1>3, <1>5, ConversationsChanged
<1>7. QED
  BY <1>2, <1>5, <1>6 DEF new

\* EditMessage changes one message of the selected conversation.
Again(list, at, id) ==
  [list EXCEPT ![at] = Messages!InMessages(list[at], id,
     LAMBDA m : [m EXCEPT !.body = 2, !.direction = "outgoing", !.time = Len(archive),
                          !.status = "sent"])]

\* An edit changes one message of the selected conversation.
LEMMA AgainIs ==
  ASSUME NEW ids, conversations \in ListOf(ids), NEW at \in DOMAIN conversations, NEW id,
         Len(archive) \in Nat
  PROVE  /\ Again(conversations, at, id) \in ListOf(ids)
         /\ SameIds(Again(conversations, at, id), conversations)
         /\ \A i \in DOMAIN conversations :
              Again(conversations, at, id)[i].unread = conversations[i].unread
         /\ \A i \in DOMAIN conversations : \A k \in DOMAIN conversations[i].messages :
              Again(conversations, at, id)[i].messages[k] =
                IF i = at /\ conversations[i].messages[k].id = id
                THEN Edited(conversations[i].messages[k], Len(archive))
                ELSE conversations[i].messages[k]
<1> DEFINE new == Again(conversations, at, id)
           changed(m) == IF m.id = id THEN Edited(m, Len(archive)) ELSE m
<1>1. ASSUME NEW m \in MessageOf(ids)
      PROVE  changed(m) \in MessageOf(ids) /\ changed(m).id = m.id
  <2>1. PICK n \in Int : n = Len(archive)
    OBVIOUS
  <2>2. /\ [m EXCEPT !.body = 2, !.direction = "outgoing", !.time = n, !.status = "sent"]
             \in MessageOf(ids)
        /\ [m EXCEPT !.body = 2, !.direction = "outgoing", !.time = n, !.status = "sent"].id = m.id
    <3>1. 2 \in Int /\ "sent" \in Status /\ "outgoing" \in Messages!Direction
      BY DEF Status, Messages!Direction
    <3>2. QED
      BY <3>1 DEF MessageOf
  <2>3. QED
    BY <2>1, <2>2 DEF Edited
<1>2. ASSUME NEW i \in DOMAIN conversations
      PROVE  LET c == conversations[i]
             IN  /\ new[i] \in ConversationOf(ids) /\ new[i].contact = c.contact
                 /\ new[i].unread = c.unread
                 /\ new[i].messages = IF i = at
                                      THEN [k \in DOMAIN c.messages |-> changed(c.messages[k])]
                                      ELSE c.messages
  <2> DEFINE c == conversations[i]
             s == [k \in DOMAIN c.messages |-> changed(c.messages[k])]
  <2>1. c \in ConversationOf(ids) /\ \A k \in DOMAIN c.messages : c.messages[k] \in MessageOf(ids)
    BY ConversationFields
  <2>2. new[i] = IF i = at THEN [c EXCEPT !.messages = s] ELSE c
    BY DEF Again, Messages!InMessages, Edited
  <2>3. /\ DOMAIN s = DOMAIN c.messages /\ s = [k \in DOMAIN s |-> s[k]]
        /\ \A k \in DOMAIN s : s[k] \in MessageOf(ids) /\ s[k].id = c.messages[k].id
    BY <1>1, <2>1
  <2> HIDE DEF c, s
  <2>4. LET d == [c EXCEPT !.messages = s]
        IN  /\ d \in ConversationOf(ids) /\ d.messages = s
            /\ d.contact = c.contact /\ d.unread = c.unread
    BY <2>1, <2>3, MessagesChanged
  <2>5. QED
    BY <2>1, <2>2, <2>4 DEF c, s
<1>3. new = [i \in DOMAIN conversations |-> new[i]]
  <2>1. new = [i \in DOMAIN conversations |->
                 IF i = at THEN Messages!InMessages(conversations[at], id,
                   LAMBDA m : [m EXCEPT !.body = 2, !.direction = "outgoing",
                                        !.time = Len(archive), !.status = "sent"])
                 ELSE conversations[i]]
    BY DEF Again
  <2>2. QED
    BY <2>1
<1>4. \A i \in DOMAIN conversations : \A k \in DOMAIN conversations[i].messages :
        conversations[i].messages[k] \in MessageOf(ids)
  BY ConversationFields
<1> HIDE DEF new
<1>5. \A i \in DOMAIN conversations :
        /\ new[i] \in ConversationOf(ids) /\ new[i].contact = conversations[i].contact
        /\ DOMAIN new[i].messages = DOMAIN conversations[i].messages
        /\ \A k \in DOMAIN conversations[i].messages :
             /\ new[i].messages[k] = IF i = at THEN changed(conversations[i].messages[k])
                                     ELSE conversations[i].messages[k]
             /\ new[i].messages[k].id = conversations[i].messages[k].id
  BY <1>1, <1>2, <1>4
<1>6. new \in ListOf(ids) /\ SameIds(new, conversations)
  BY <1>3, <1>5, ConversationsChanged
<1>7. QED
  BY <1>2, <1>5, <1>6 DEF new

-----------------------------------------------------------------------------
\* What there is, made of the ids that are given out

OwnStanza(ids) ==
  [id : ids \cap Messages!OwnIds, contact : Messages!People, direction : {"outgoing"},
   replaces : ids \cup {None},
   body : Int, encrypted : {FALSE}, own : {TRUE}]

StanzaOf(ids) == Messages!Traffic \cup OwnStanza(ids)

\* The server has n messages.
DownOf(ids, n) ==
  [kind : {"live", "carbon"}, stanza : Messages!Traffic] \cup
  [kind : {"archived"}, stanza : StanzaOf(ids), time : Int] \cup
  [kind : {"receipt"}, id : ids] \cup [kind : {"roster"}] \cup
  [kind : {"fin"}, complete : BOOLEAN, first : 1 .. n + 1]

Reception(ids) ==
  {e \in [type : {"MessageReceived"}, contact : Messages!People, message : MessageOf(ids)] :
     AsSent(e.message) /\ Fits(e.contact, e.message.id)}

\* A correction is one of a message from the same contact.
Correction ==
  {e \in [type : {"MessageCorrected"}, contact : Messages!People, target : Messages!Id,
          body : Int] :
     \E t \in Messages!Traffic : t.id = e.target /\ t.contact = e.contact}

EventOf(ids, jids) ==
  [type : {"Connected"}, jid : jids] \cup [type : {"Disconnected"}] \cup
  [type : {"RosterItem"}, contact : Messages!People] \cup Reception(ids) \cup Correction \cup
  [type : {"MessageDelivered"}, id : ids]

RowOf(ids, jids) ==
  {r \in [account : jids, contact : Messages!People, message : MessageOf(ids)] :
     AsSent(r.message) /\ Fits(r.contact, r.message.id)}

\* With more ids there is more of everything.
LEMMA MoreIds ==
  ASSUME NEW ids, NEW more, NEW jids, ids \subseteq more, NEW n \in Nat, NEW o \in Nat, n <= o
  PROVE  /\ Seq(StanzaOf(ids)) \subseteq Seq(StanzaOf(more))
         /\ Seq(DownOf(ids, n)) \subseteq Seq(DownOf(more, o))
         /\ Seq(EventOf(ids, jids)) \subseteq Seq(EventOf(more, jids))
         /\ ListOf(ids) \subseteq ListOf(more)
         /\ Seq(RowOf(ids, jids)) \subseteq Seq(RowOf(more, jids))
<1>1. MessageOf(ids) \subseteq MessageOf(more)
  BY DEF MessageOf
<1>2. StanzaOf(ids) \subseteq StanzaOf(more)
  BY DEF StanzaOf, OwnStanza
<1>3. DownOf(ids, n) \subseteq DownOf(more, o)
  BY <1>2 DEF DownOf
<1>4. EventOf(ids, jids) \subseteq EventOf(more, jids)
  BY <1>1 DEF EventOf, Reception
<1>5. RowOf(ids, jids) \subseteq RowOf(more, jids)
  BY <1>1 DEF RowOf
<1>6. ConversationOf(ids) \subseteq ConversationOf(more)
  <2>1. Seq(MessageOf(ids)) \subseteq Seq(MessageOf(more))
    BY <1>1, SeqMonotonic
  <2>2. QED
    BY <2>1 DEF ConversationOf
<1>7. QED
  BY <1>2, <1>3, <1>4, <1>5, <1>6, SeqMonotonic DEF ListOf

-----------------------------------------------------------------------------
\* Loaded: the rows of a jid become conversations

\* A set of indexes in ascending order has each once.
LEMMA AscendingIs ==
  ASSUME NEW n \in Nat, NEW I, I \subseteq 1 .. n
  PROVE  /\ Cardinality(I) \in Nat /\ DOMAIN Messages!Ascending(I) = 1 .. Cardinality(I)
         /\ \A k \in DOMAIN Messages!Ascending(I) : Messages!Ascending(I)[k] \in I
         /\ \A k, l \in DOMAIN Messages!Ascending(I) :
              Messages!Ascending(I)[k] = Messages!Ascending(I)[l] => k = l
         /\ \A i \in I : \E k \in DOMAIN Messages!Ascending(I) : Messages!Ascending(I)[k] = i
<1> DEFINE key == [i \in I |-> i]
<1>1. DOMAIN key = I /\ \A i \in DOMAIN key : key[i] \in Int
  OBVIOUS
<1>2. Messages!Ascending(I) = Messages!Order(key)
  BY DEF Messages!Ascending
<1> HIDE DEF key
<1>3. /\ Cardinality(DOMAIN key) \in Nat
      /\ DOMAIN Messages!Order(key) = 1 .. Cardinality(DOMAIN key)
      /\ \A k \in DOMAIN Messages!Order(key) : Messages!Order(key)[k] \in DOMAIN key
      /\ \A k, l \in DOMAIN Messages!Order(key) :
           Messages!Order(key)[k] = Messages!Order(key)[l] => k = l
      /\ \A i \in DOMAIN key : \E k \in DOMAIN Messages!Order(key) : Messages!Order(key)[k] = i
  <2>1. DOMAIN key \subseteq 1 .. n
    BY <1>1
  <2>2. QED
    BY <1>1, <2>1, OrderIsBijection
<1>4. QED
  BY <1>1, <1>2, <1>3

\* The ids of these rows differ.
RowsOnce(s) == \A i, j \in DOMAIN s : s[i].message.id = s[j].message.id => i = j

OfContact(s, c)  == Messages!Ascending({i \in DOMAIN s : s[i].contact = c})
MessagesIn(s, c) == [k \in DOMAIN OfContact(s, c) |-> s[OfContact(s, c)[k]].message]
Firsts(s) ==
  Messages!Ascending({i \in DOMAIN s : \A j \in 1 .. i - 1 : s[j].contact # s[i].contact})
IncomingIn(list) == {k \in DOMAIN list : list[k].direction = "incoming"}

\* The messages that rows have for a contact, each once.
LEMMA MessagesInAre ==
  ASSUME NEW ids, NEW jids, NEW s \in Seq(RowOf(ids, jids)), RowsOnce(s), NEW c
  PROVE  LET list == MessagesIn(s, c)
         IN  /\ list \in Seq(MessageOf(ids))
             /\ \A k, l \in DOMAIN list : list[k].id = list[l].id => k = l
             /\ \A k \in DOMAIN list : \E i \in DOMAIN s :
                  s[i].contact = c /\ list[k] = s[i].message
             /\ \A i \in DOMAIN s : s[i].contact = c =>
                  \E k \in DOMAIN list : list[k] = s[i].message
<1> DEFINE I == {i \in DOMAIN s : s[i].contact = c}
           o == OfContact(s, c)
           list == MessagesIn(s, c)
<1>1. PICK n \in Nat : DOMAIN s = 1 .. n
  BY LenProperties
<1>2. /\ Cardinality(I) \in Nat /\ DOMAIN o = 1 .. Cardinality(I)
      /\ \A k \in DOMAIN o : o[k] \in I
      /\ \A k, l \in DOMAIN o : o[k] = o[l] => k = l
      /\ \A i \in I : \E k \in DOMAIN o : o[k] = i
  <2>1. I \subseteq 1 .. n /\ o = Messages!Ascending(I)
    BY <1>1 DEF OfContact
  <2> HIDE DEF I, o
  <2>2. QED
    BY <2>1, AscendingIs
<1>3. list = [k \in DOMAIN o |-> s[o[k]].message]
  BY DEF MessagesIn
<1>4. \A i \in DOMAIN s : s[i].message \in MessageOf(ids)
  BY LenProperties, ElementOfSeq DEF RowOf
<1>5. PICK m \in Nat : DOMAIN o = 1 .. m
  BY <1>2
<1> HIDE DEF o, list
<1>6. list \in Seq(MessageOf(ids))
  <2>1. \A k \in 1 .. m : s[o[k]].message \in MessageOf(ids)
    BY <1>2, <1>4, <1>5
  <2>2. [k \in 1 .. m |-> s[o[k]].message] \in Seq(MessageOf(ids))
    BY <2>1, IsASeq
  <2>3. QED
    BY <1>3, <1>5, <2>2
<1>7. \A k, l \in DOMAIN list : list[k].id = list[l].id => k = l
  BY <1>2, <1>3 DEF RowsOnce
<1>8. \A k \in DOMAIN list : \E i \in DOMAIN s : s[i].contact = c /\ list[k] = s[i].message
  BY <1>2, <1>3
<1>9. \A i \in DOMAIN s : s[i].contact = c => \E k \in DOMAIN list : list[k] = s[i].message
  BY <1>2, <1>3
<1>10. QED
  BY <1>6, <1>7, <1>8, <1>9 DEF list

\* A loaded conversation counts as many unread as it has incoming messages.
LEMMA IncomingInIs ==
  ASSUME NEW ids, NEW list \in Seq(MessageOf(ids)), \A k \in DOMAIN list : AsSent(list[k]),
         NEW u \in SUBSET Incoming
  PROVE  /\ Cardinality(IncomingIn(list)) \in Nat
         /\ Cardinality(IncomingIn(list)) >= Cardinality(u \cap {list[k].id : k \in DOMAIN list})
<1> DEFINE I == IncomingIn(list)
           T == {list[k].id : k \in I}
           U == u \cap {list[k].id : k \in DOMAIN list}
           f == [k \in I |-> list[k].id]
<1>1. PICK n \in Nat : DOMAIN list = 1 .. n
  BY LenProperties
<1>2. IsFiniteSet(I) /\ Cardinality(I) \in Nat
  <2>1. IsFiniteSet(1 .. n) /\ I \in SUBSET (1 .. n)
    BY <1>1, FS_Interval DEF IncomingIn
  <2>2. QED
    BY <2>1, FS_Subset, FS_CardinalityType
<1>3. \A k \in DOMAIN list : list[k] \in MessageOf(ids)
  BY LenProperties, ElementOfSeq
<1>4. U \in SUBSET T
  BY <1>3 DEF IncomingIn, AsSent
<1>5. f \in Surjection(I, T)
  BY DEF Surjection
<1> HIDE DEF I, T, U, f
<1>6. IsFiniteSet(T) /\ Cardinality(T) <= Cardinality(I)
  BY <1>2, <1>5, FS_Surjection
<1>7. Cardinality(U) <= Cardinality(T) /\ Cardinality(U) \in Nat /\ Cardinality(T) \in Nat
  BY <1>4, <1>6, FS_Subset, FS_CardinalityType
<1>8. Cardinality(I) \in Nat /\ Cardinality(I) >= Cardinality(U)
  BY <1>2, <1>6, <1>7
<1>9. QED
  BY <1>8 DEF I, U

\* There is one first row for every contact of the rows.
LEMMA FirstsAre ==
  ASSUME NEW S, NEW s \in Seq(S)
  PROVE  LET f == Firsts(s)
         IN  /\ \E n \in Nat : DOMAIN f = 1 .. n
             /\ \A k \in DOMAIN f : f[k] \in DOMAIN s
             /\ \A k, l \in DOMAIN f : s[f[k]].contact = s[f[l]].contact => k = l
             /\ \A i \in DOMAIN s : \E k \in DOMAIN f : s[f[k]].contact = s[i].contact
<1> DEFINE I == {i \in DOMAIN s : \A j \in 1 .. i - 1 : s[j].contact # s[i].contact}
           f == Firsts(s)
<1>1. PICK n \in Nat : DOMAIN s = 1 .. n
  BY LenProperties
<1>2. /\ Cardinality(I) \in Nat /\ DOMAIN f = 1 .. Cardinality(I)
      /\ \A k \in DOMAIN f : f[k] \in I
      /\ \A k, l \in DOMAIN f : f[k] = f[l] => k = l
      /\ \A i \in I : \E k \in DOMAIN f : f[k] = i
  <2>1. I \subseteq 1 .. n /\ f = Messages!Ascending(I)
    BY <1>1 DEF Firsts
  <2> HIDE DEF I, f
  <2>2. QED
    BY <2>1, AscendingIs
<1>3. \A i, j \in I : s[i].contact = s[j].contact => i = j
  BY <1>1
<1>4. ASSUME NEW i \in DOMAIN s
      PROVE  \E j \in I : s[j].contact = s[i].contact
  <2> DEFINE same == {j \in DOMAIN s : s[j].contact = s[i].contact}
  <2>1. same \subseteq Nat /\ same # {}
    BY <1>1
  <2>2. PICK j \in same : \A h \in same : ~ (<<h, j>> \in OpToRel(<, Nat))
    <3> HIDE DEF same
    <3>1. QED
      BY <2>1, NatLessThanWellFounded, WFMin
  <2>3. \A h \in same : ~(h < j)
    <3> HIDE DEF same
    <3>1. QED
      BY <2>1, <2>2 DEF OpToRel
  <2>4. j \in I
    BY <1>1, <2>3
  <2>5. QED
    BY <2>4
<1> HIDE DEF I, f
<1>5. \A k \in DOMAIN f : f[k] \in DOMAIN s
  BY <1>2 DEF I
<1>6. QED
  BY <1>2, <1>3, <1>4, <1>5 DEF f

\* load_messages gives each message of the rows of an address once, with its contact,
\* and counts every incoming one.
LEMMA LoadedIs ==
  ASSUME NEW ids, NEW jids, rows \in Seq(RowOf(ids, jids)), RowsOnce(rows), NEW jid,
         NEW u \in SUBSET Incoming
  PROVE  LET list == Messages!Loaded(jid)
         IN  /\ list \in ListOf(ids) /\ OnceIn(list) /\ FitsIn(list) /\ Counted(list, u)
             /\ \A j \in DOMAIN list : \A k \in DOMAIN list[j].messages :
                  \E i \in DOMAIN rows : rows[i].account = jid
                    /\ list[j].messages[k] = rows[i].message
             /\ \A i \in DOMAIN rows : rows[i].account = jid =>
                  \E j \in DOMAIN list : \E k \in DOMAIN list[j].messages :
                    list[j].messages[k] = rows[i].message
<1> DEFINE own == {i \in DOMAIN rows : rows[i].account = jid}
           key == [i \in own |-> rows[i].message.time]
           s == Messages!At(rows, Messages!Order(key))
           f == Firsts(s)
           from(c) == [contact |-> c, messages |-> MessagesIn(s, c),
                       unread |-> Cardinality(IncomingIn(MessagesIn(s, c)))]
           list == Messages!Loaded(jid)
<1>1. list = [k \in DOMAIN f |-> from(s[f[k]].contact)]
  BY SameCardinality DEF Messages!Loaded, MessagesIn, OfContact, IncomingIn, Firsts
<1>2. \A i \in DOMAIN rows : rows[i] \in RowOf(ids, jids)
  BY LenProperties, ElementOfSeq
<1>3. /\ s \in Seq(RowOf(ids, jids)) /\ \E p : Arranges(p, s, rows, own)
  <2>1. DOMAIN key = own /\ DOMAIN key \subseteq DOMAIN rows
    OBVIOUS
  <2>2. \A i \in DOMAIN key : key[i] \in Int
    BY <1>2 DEF RowOf, MessageOf
  <2> HIDE DEF key, own
  <2>3. s \in Seq(RowOf(ids, jids)) /\ Arranges(Messages!Order(key), s, rows, DOMAIN key)
    BY <2>1, <2>2, OrderArranges
  <2>4. QED
    BY <2>1, <2>3
<1> HIDE DEF s, key, f, from, list
<1>4. /\ \A k \in DOMAIN s : \E i \in own : s[k] = rows[i]
      /\ \A i \in own : \E k \in DOMAIN s : s[k] = rows[i]
      /\ RowsOnce(s)
  <2>1. PICK p : Arranges(p, s, rows, own)
    BY <1>3
  <2> HIDE DEF own
  <2>2. own \subseteq DOMAIN rows
    BY DEF own
  <2>3. RowsOnce(s)
    BY <2>1, <2>2 DEF Arranges, RowsOnce
  <2>4. QED
    BY <2>1, <2>3 DEF Arranges
<1>5. \A i \in DOMAIN s : s[i] \in RowOf(ids, jids)
  BY <1>3, LenProperties, ElementOfSeq
<1> DEFINE of(c) == MessagesIn(s, c)
<1>6. ASSUME NEW c
      PROVE  /\ of(c) \in Seq(MessageOf(ids))
             /\ \A k, l \in DOMAIN of(c) : of(c)[k].id = of(c)[l].id => k = l
             /\ \A k \in DOMAIN of(c) : \E i \in DOMAIN s : s[i].contact = c
                  /\ of(c)[k] = s[i].message
             /\ \A i \in DOMAIN s : s[i].contact = c =>
                  \E k \in DOMAIN of(c) : of(c)[k] = s[i].message
             /\ Cardinality(IncomingIn(of(c))) \in Nat
             /\ Cardinality(IncomingIn(of(c))) >=
                  Cardinality(u \cap {of(c)[k].id : k \in DOMAIN of(c)})
  <2>1. /\ of(c) \in Seq(MessageOf(ids))
        /\ \A k, l \in DOMAIN of(c) : of(c)[k].id = of(c)[l].id => k = l
        /\ \A k \in DOMAIN of(c) : \E i \in DOMAIN s : s[i].contact = c /\ of(c)[k] = s[i].message
        /\ \A i \in DOMAIN s : s[i].contact = c => \E k \in DOMAIN of(c) : of(c)[k] = s[i].message
    BY <1>3, <1>4, MessagesInAre
  <2> HIDE DEF of
  <2>4. \A k \in DOMAIN of(c) : AsSent(of(c)[k])
    BY <1>5, <2>1 DEF RowOf
  <2>2. /\ Cardinality(IncomingIn(of(c))) \in Nat
        /\ Cardinality(IncomingIn(of(c))) >= Cardinality(u \cap {of(c)[k].id : k \in DOMAIN of(c)})
    BY <2>1, <2>4, IncomingInIs
  <2>3. QED
    BY <2>1, <2>2
<1> HIDE DEF of
<1>7. /\ \E n \in Nat : DOMAIN f = 1 .. n
      /\ \A k \in DOMAIN f : f[k] \in DOMAIN s
      /\ \A k, l \in DOMAIN f : s[f[k]].contact = s[f[l]].contact => k = l
      /\ \A i \in DOMAIN s : \E k \in DOMAIN f : s[f[k]].contact = s[i].contact
  BY <1>3, FirstsAre DEF f
<1>8. DOMAIN list = DOMAIN f
      /\ \A k \in DOMAIN f : /\ list[k].contact = s[f[k]].contact
                             /\ list[k].messages = MessagesIn(s, s[f[k]].contact)
                             /\ list[k].unread =
                                  Cardinality(IncomingIn(MessagesIn(s, s[f[k]].contact)))
  BY <1>1 DEF from
<1>9. list \in ListOf(ids)
  <2>1. ASSUME NEW k \in DOMAIN f PROVE from(s[f[k]].contact) \in ConversationOf(ids)
    <3>1. s[f[k]].contact \in Messages!People
      BY <1>5, <1>7 DEF RowOf
    <3>2. QED
      BY <1>6, <3>1 DEF from, ConversationOf, of
  <2>2. PICK n \in Nat : DOMAIN f = 1 .. n
    BY <1>7
  <2>3. [k \in 1 .. n |-> from(s[f[k]].contact)] \in Seq(ConversationOf(ids))
    BY <2>1, <2>2, IsASeq
  <2>4. QED
    BY <1>1, <2>2, <2>3 DEF ListOf
<1>10. \A j \in DOMAIN list : \A k \in DOMAIN list[j].messages :
         \E i \in DOMAIN s : s[i].contact = list[j].contact /\ list[j].messages[k] = s[i].message
  <2> SUFFICES ASSUME NEW j \in DOMAIN list, NEW k \in DOMAIN list[j].messages
               PROVE  \E i \in DOMAIN s :
                        s[i].contact = list[j].contact /\ list[j].messages[k] = s[i].message
    OBVIOUS
  <2>1. list[j].messages = of(list[j].contact)
    BY <1>8 DEF of
  <2>2. PICK c : c = list[j].contact
    OBVIOUS
  <2>3. \A l \in DOMAIN of(c) : \E i \in DOMAIN s : s[i].contact = c /\ of(c)[l] = s[i].message
    BY <1>6
  <2>4. QED
    BY <2>1, <2>2, <2>3
<1>11. OnceIn(list)
  <2>1. \A i, j \in DOMAIN list : list[i].contact = list[j].contact => i = j
    BY <1>7, <1>8
  <2>2. ASSUME NEW i \in DOMAIN list, NEW j \in DOMAIN list,
               NEW k \in DOMAIN list[i].messages, NEW l \in DOMAIN list[j].messages,
               list[i].messages[k].id = list[j].messages[l].id
        PROVE  i = j /\ k = l
    <3>1. PICK a \in DOMAIN s : s[a].contact = list[i].contact /\ list[i].messages[k] = s[a].message
      BY <1>10
    <3>2. PICK b \in DOMAIN s : s[b].contact = list[j].contact /\ list[j].messages[l] = s[b].message
      BY <1>10
    <3>3. a = b
      BY <1>4, <2>2, <3>1, <3>2 DEF RowsOnce
    <3>4. i = j
      BY <2>1, <3>1, <3>2, <3>3
    <3>5. list[i].messages = of(list[i].contact)
      BY <1>8 DEF of
    <3>6. \A g, h \in DOMAIN list[i].messages :
            list[i].messages[g].id = list[i].messages[h].id => g = h
      <4>1. PICK c : c = list[i].contact
        OBVIOUS
      <4>2. \A g, h \in DOMAIN of(c) : of(c)[g].id = of(c)[h].id => g = h
        BY <1>6
      <4>3. QED
        BY <3>5, <4>1, <4>2
    <3>7. QED
      BY <2>2, <3>4, <3>6
  <2>3. QED
    BY <2>1, <2>2 DEF OnceIn
<1>12. FitsIn(list)
  BY <1>5, <1>10 DEF FitsIn, RowOf
<1>13. Counted(list, u)
  BY <1>6, <1>8 DEF Counted, IdsOf, of
<1>14. ASSUME NEW j \in DOMAIN list, NEW k \in DOMAIN list[j].messages
       PROVE  \E i \in DOMAIN rows : rows[i].account = jid /\ list[j].messages[k] = rows[i].message
  BY <1>4, <1>10
<1>15. ASSUME NEW i \in DOMAIN rows, rows[i].account = jid
       PROVE  \E j \in DOMAIN list : \E k \in DOMAIN list[j].messages :
                list[j].messages[k] = rows[i].message
  <2>1. PICK a \in DOMAIN s : s[a] = rows[i]
    BY <1>4, <1>15
  <2>2. PICK j \in DOMAIN f : s[f[j]].contact = s[a].contact
    BY <1>7
  <2>3. \E k \in DOMAIN list[j].messages : list[j].messages[k] = s[a].message
    <3>1. list[j].messages = of(s[a].contact)
      BY <1>8, <2>2 DEF of
    <3>2. PICK c : c = s[a].contact
      OBVIOUS
    <3>3. \A h \in DOMAIN s : s[h].contact = c => \E k \in DOMAIN of(c) : of(c)[k] = s[h].message
      BY <1>6
    <3>4. QED
      BY <3>1, <3>2, <3>3
  <2>4. QED
    BY <1>8, <2>1, <2>3
<1>16. QED
  BY <1>9, <1>11, <1>12, <1>13, <1>14, <1>15 DEF list

-----------------------------------------------------------------------------
\* SortConversations

\* sort_conversations arranges the conversations and keeps who is selected.
LEMMA SortedIs ==
  ASSUME Messages!NoneIsApart, NEW ids, NEW list \in ListOf(ids), OnceIn(list), FitsIn(list),
         NEW u, Counted(list, u), selected \in {None} \cup (Nat \ {0}),
           Messages!SortConversations(list)
  PROVE  /\ conversations' \in ListOf(ids) /\ OnceIn(conversations') /\ FitsIn(conversations')
         /\ Counted(conversations', u)
         /\ selected' \in {None} \cup (Nat \ {0})
         /\ \E p : Arranges(p, conversations', list, DOMAIN list)
         /\ Messages!Selected(list) # None =>
              Messages!Selected(conversations)' = Messages!Selected(list)
<1>1. /\ Messages!NewestFirst(list) \in ListOf(ids)
      /\ \E p : Arranges(p, Messages!NewestFirst(list), list, DOMAIN list)
  BY NewestFirstArranges
<1>2. /\ conversations' = Messages!NewestFirst(list)
      /\ selected' = IF Messages!Selected(list) = None THEN selected
                     ELSE Messages!Position(conversations', Messages!Selected(list))
  BY DEF Messages!SortConversations
<1>3. PICK p : Arranges(p, conversations', list, DOMAIN list)
  BY <1>1, <1>2
<1>4. OnceIn(conversations') /\ Counted(conversations', u)
  BY <1>3, OnceArranged, CountedArranged
<1>5. FitsIn(conversations')
  BY <1>3 DEF Arranges, FitsIn
<1>6. ASSUME Messages!Selected(list) # None
      PROVE  selected' \in DOMAIN conversations'
             /\ conversations'[selected'].contact = Messages!Selected(list)
  <2>1. selected \in DOMAIN list /\ Messages!Selected(list) = list[selected].contact
    BY <1>6, ConversationFields DEF Messages!Selected, Messages!NoneIsApart
  <2>2. PICK k \in DOMAIN conversations' : conversations'[k].contact = Messages!Selected(list)
    BY <1>3, <2>1 DEF Arranges
  <2>3. Messages!Position(conversations', Messages!Selected(list)) = k
    BY <1>1, <1>2, <1>4, <2>2, PositionOf
  <2>4. QED
    BY <1>2, <1>6, <2>2, <2>3
<1>7. DOMAIN conversations' = 1 .. Len(conversations') /\ Len(conversations') \in Nat
  BY <1>1, <1>2, ConversationFields
<1>8. selected' \in {None} \cup (Nat \ {0})
  BY <1>2, <1>6, <1>7
<1>9. Messages!Selected(list) # None => Messages!Selected(conversations)' = Messages!Selected(list)
  BY <1>6, <1>7 DEF Messages!Selected, Messages!NoneIsApart
<1>10. QED
  BY <1>1, <1>2, <1>3, <1>4, <1>5, <1>8, <1>9

-----------------------------------------------------------------------------
\* The table

\* save_message adds a row for an id that has none, and leaves the others.
LEMMA SavedIs ==
  ASSUME NEW ids, NEW jids, rows \in Seq(RowOf(ids, jids)), RowsOnce(rows), account \in jids,
         NEW contact \in Messages!People, NEW m \in MessageOf(ids), AsSent(m),
         Fits(contact, m.id), Messages!SaveMessage(m, contact)
  PROVE  /\ rows' \in Seq(RowOf(ids, jids)) /\ RowsOnce(rows')
         /\ (\A i \in DOMAIN rows : rows[i].message.id # m.id) =>
              /\ \A i \in DOMAIN rows : i \in DOMAIN rows' /\ rows'[i] = rows[i]
              /\ \E i \in DOMAIN rows' : rows'[i].message = m
              /\ \A i \in DOMAIN rows' : i \in DOMAIN rows \/ rows'[i].message = m
<1> DEFINE r == [account |-> account, contact |-> contact, message |-> m]
<1>1. r \in RowOf(ids, jids) /\ r.message = m
  BY DEF RowOf
<1>2. CASE \E i \in DOMAIN rows : rows[i].message.id = m.id
  <2>1. rows' = rows
    BY <1>2 DEF Messages!SaveMessage, Messages!ToSet
  <2>2. QED
    BY <1>2, <2>1
<1>3. CASE \A i \in DOMAIN rows : rows[i].message.id # m.id
  <2>1. rows' = Append(rows, r)
    BY <1>3 DEF Messages!SaveMessage, Messages!ToSet
  <2> HIDE DEF r
  <2>2. /\ rows' \in Seq(RowOf(ids, jids)) /\ Len(rows) \in Nat
        /\ DOMAIN rows = 1 .. Len(rows) /\ DOMAIN rows' = 1 .. Len(rows) + 1
        /\ \A i \in DOMAIN rows : rows'[i] = rows[i]
        /\ rows'[Len(rows) + 1] = r
    BY <1>1, <2>1, AppendToList
  <2>3. \A i \in DOMAIN rows' : i \in DOMAIN rows \/ i = Len(rows) + 1
    BY <2>2
  <2>4. RowsOnce(rows')
    BY <1>1, <1>3, <2>2, <2>3 DEF RowsOnce
  <2>5. /\ \A i \in DOMAIN rows : i \in DOMAIN rows' /\ rows'[i] = rows[i]
        /\ \E i \in DOMAIN rows' : rows'[i].message = m
        /\ \A i \in DOMAIN rows' : i \in DOMAIN rows \/ rows'[i].message = m
    <3>1. Len(rows) + 1 \in DOMAIN rows'
      BY <2>2
    <3>2. QED
      BY <1>1, <2>2, <2>3, <3>1
  <2>6. QED
    BY <2>2, <2>4, <2>5
<1>4. QED
  BY <1>2, <1>3

\* Rows that change, and not their ids.
LEMMA RowsChanged ==
  ASSUME NEW ids, NEW jids, rows \in Seq(RowOf(ids, jids)), RowsOnce(rows),
         NEW new, new = [i \in DOMAIN rows |-> new[i]],
         \A i \in DOMAIN rows : new[i] \in RowOf(ids, jids)
           /\ new[i].message.id = rows[i].message.id
  PROVE  new \in Seq(RowOf(ids, jids)) /\ RowsOnce(new) /\ DOMAIN new = DOMAIN rows
<1>1. PICK n \in Nat : DOMAIN rows = 1 .. n
  BY LenProperties
<1>2. [i \in 1 .. n |-> new[i]] \in Seq(RowOf(ids, jids))
  BY <1>1, IsASeq
<1>3. RowsOnce(new)
  BY DEF RowsOnce
<1>4. QED
  BY <1>1, <1>2, <1>3

\* update_message_body changes the rows of one id.
LEMMA InRowsBody ==
  ASSUME NEW ids, NEW jids, rows \in Seq(RowOf(ids, jids)), RowsOnce(rows), NEW id, NEW body \in Int
  PROVE  LET new == Messages!InRows(id, "body", body)
         IN  /\ new \in Seq(RowOf(ids, jids)) /\ RowsOnce(new) /\ DOMAIN new = DOMAIN rows
             /\ \A i \in DOMAIN rows :
                  new[i].message = IF rows[i].message.id = id
                                   THEN [rows[i].message EXCEPT !.body = body] ELSE rows[i].message
<1> DEFINE new == Messages!InRows(id, "body", body)
<1>1. \A i \in DOMAIN rows : rows[i] \in RowOf(ids, jids)
  BY LenProperties, ElementOfSeq
<1>2. ASSUME NEW i \in DOMAIN rows
      PROVE  /\ new[i] \in RowOf(ids, jids) /\ new[i].message.id = rows[i].message.id
             /\ new[i].message = IF rows[i].message.id = id
                                 THEN [rows[i].message EXCEPT !.body = body] ELSE rows[i].message
  <2>1. CASE rows[i].message.id # id
    BY <1>1, <2>1 DEF Messages!InRows
  <2>2. CASE rows[i].message.id = id
    <3>1. PICK r \in RowOf(ids, jids) : r = rows[i]
      BY <1>1
    <3>2. r.message \in MessageOf(ids) /\ AsSent(r.message)
      BY DEF RowOf
    <3>3. PICK m \in MessageOf(ids) :
            m = [r.message EXCEPT !.body = body] /\ m.id = r.message.id /\ AsSent(m)
      BY <3>2, BodyUpdated
    <3>4. new[i] = [r EXCEPT !.message = m]
      BY <2>2, <3>1, <3>3 DEF Messages!InRows
    <3>5. new[i] \in RowOf(ids, jids) /\ new[i].message = m
      BY <3>3, <3>4 DEF RowOf
    <3>6. QED
      BY <2>2, <3>1, <3>3, <3>5
  <2>3. QED
    BY <2>1, <2>2
<1>3. new = [i \in DOMAIN rows |-> new[i]]
  BY DEF Messages!InRows
<1> HIDE DEF new
<1>4. new \in Seq(RowOf(ids, jids)) /\ RowsOnce(new) /\ DOMAIN new = DOMAIN rows
  BY <1>2, <1>3, RowsChanged
<1>5. QED
  BY <1>2, <1>4 DEF new

\* update_message_status changes the rows of one id.
LEMMA InRowsStatus ==
  ASSUME NEW ids, NEW jids, rows \in Seq(RowOf(ids, jids)), RowsOnce(rows), NEW id
  PROVE  LET new == Messages!InRows(id, "status", "delivered")
         IN  /\ new \in Seq(RowOf(ids, jids)) /\ RowsOnce(new) /\ DOMAIN new = DOMAIN rows
             /\ \A i \in DOMAIN rows :
                  new[i].message = IF rows[i].message.id = id
                                   THEN [rows[i].message EXCEPT !.status = "delivered"]
                                   ELSE rows[i].message
<1> DEFINE new == Messages!InRows(id, "status", "delivered")
<1>1. \A i \in DOMAIN rows : rows[i] \in RowOf(ids, jids)
  BY LenProperties, ElementOfSeq
<1>2. ASSUME NEW i \in DOMAIN rows
      PROVE  /\ new[i] \in RowOf(ids, jids) /\ new[i].message.id = rows[i].message.id
             /\ new[i].message = IF rows[i].message.id = id
                                 THEN [rows[i].message EXCEPT !.status = "delivered"]
                                 ELSE rows[i].message
  <2>1. CASE rows[i].message.id # id
    BY <1>1, <2>1 DEF Messages!InRows
  <2>2. CASE rows[i].message.id = id
    <3>1. PICK r \in RowOf(ids, jids) : r = rows[i]
      BY <1>1
    <3>2. r.message \in MessageOf(ids) /\ AsSent(r.message)
      BY DEF RowOf
    <3>3. PICK m \in MessageOf(ids) :
            m = [r.message EXCEPT !.status = "delivered"] /\ m.id = r.message.id /\ AsSent(m)
      BY <3>2, StatusUpdated
    <3>4. new[i] = [r EXCEPT !.message = m]
      BY <2>2, <3>1, <3>3 DEF Messages!InRows
    <3>5. new[i] \in RowOf(ids, jids) /\ new[i].message = m
      BY <3>3, <3>4 DEF RowOf
    <3>6. QED
      BY <2>2, <3>1, <3>3, <3>5
  <2>3. QED
    BY <2>1, <2>2
<1>3. new = [i \in DOMAIN rows |-> new[i]]
  BY DEF Messages!InRows
<1> HIDE DEF new
<1>4. new \in Seq(RowOf(ids, jids)) /\ RowsOnce(new) /\ DOMAIN new = DOMAIN rows
  BY <1>2, <1>3, RowsChanged
<1>5. QED
  BY <1>2, <1>4 DEF new

-----------------------------------------------------------------------------
\* The screen and the table

\* An edited message, of e, may have another direction and status in the table, and one
\* that was edited elsewhere, of f, another body.
Same(m, n, e, f) ==
  /\ m.id = n.id
  /\ m.id \in f \/ m.body = n.body
  /\ m.id \in e \/ (m.direction = n.direction /\ m.status = n.status)

\* Each message of the list is in the table, and each of the table in the list.
Matches(list, table, e, f) ==
  /\ \A j \in DOMAIN list : \A k \in DOMAIN list[j].messages :
       \E i \in DOMAIN table : Same(list[j].messages[k], table[i].message, e, f)
  /\ \A i \in DOMAIN table : \E j \in DOMAIN list : \E k \in DOMAIN list[j].messages :
       Same(list[j].messages[k], table[i].message, e, f)

\* The screen matches the table in any arrangement.
LEMMA MatchesArranged ==
  ASSUME NEW a, NEW s, NEW p, Arranges(p, a, s, DOMAIN s), NEW table, NEW e, NEW f,
         Matches(s, table, e, f)
  PROVE  Matches(a, table, e, f)
<1>1. ASSUME NEW j \in DOMAIN a, NEW k \in DOMAIN a[j].messages
      PROVE  \E i \in DOMAIN table : Same(a[j].messages[k], table[i].message, e, f)
  BY DEF Arranges, Matches
<1>2. ASSUME NEW i \in DOMAIN table
      PROVE  \E j \in DOMAIN a : \E k \in DOMAIN a[j].messages :
               Same(a[j].messages[k], table[i].message, e, f)
  <2>1. PICK j \in DOMAIN s :
          \E k \in DOMAIN s[j].messages : Same(s[j].messages[k], table[i].message, e, f)
    BY DEF Matches
  <2>2. PICK h \in DOMAIN a : a[h] = s[j]
    BY DEF Arranges
  <2>3. QED
    BY <2>1, <2>2
<1>3. QED
  BY <1>1, <1>2 DEF Matches

\* If what is the same stays the same, the list matches the table as before.
LEMMA MatchesChanged ==
  ASSUME NEW a, NEW s, SameIds(a, s), NEW t, NEW b, DOMAIN b = DOMAIN t,
         NEW e, NEW f, NEW g, NEW h, Matches(s, t, e, f),
         \A j \in DOMAIN s : \A k \in DOMAIN s[j].messages : \A i \in DOMAIN t :
           Same(s[j].messages[k], t[i].message, e, f) => Same(a[j].messages[k], b[i].message, g, h)
  PROVE  Matches(a, b, g, h)
BY DEF SameIds, Matches

\* The message that is added to the list is added to the table.
LEMMA MatchesAdded ==
  ASSUME Messages!NoneIsApart, NEW ids, NEW list \in ListOf(ids), OnceIn(list),
         NEW contact \in Messages!People, NEW m \in MessageOf(ids), ~IsIn(list, m.id),
         NEW table, NEW more, NEW e, NEW f, Matches(list, table, e, f),
         \A i \in DOMAIN table : i \in DOMAIN more /\ more[i] = table[i],
         \E i \in DOMAIN more : more[i].message = m,
         \A i \in DOMAIN more : i \in DOMAIN table \/ more[i].message = m
  PROVE  Matches(Messages!AddMessage(list, contact, m), more, e, f)
<1> DEFINE new == Messages!AddMessage(list, contact, m)
           p   == Messages!Position(Messages!WithContact(list, contact), contact)
<1>1. /\ DOMAIN list \subseteq DOMAIN new /\ p \in DOMAIN new
      /\ \A i \in DOMAIN new : i \in DOMAIN list \/ i = p
      /\ \A i \in DOMAIN list \ {p} : new[i] = list[i]
      /\ p \in DOMAIN list => new[p].messages = Append(list[p].messages, m)
      /\ p \notin DOMAIN list => new[p].messages = <<m>>
  BY AddMessageIs
<1> HIDE DEF new, p
\* The messages of the list are where they were, and m is the last of its conversation.
<1>2. ASSUME NEW j \in DOMAIN list, NEW k \in DOMAIN list[j].messages
      PROVE  j \in DOMAIN new /\ k \in DOMAIN new[j].messages
             /\ new[j].messages[k] = list[j].messages[k]
  <2>1. CASE j # p
    BY <1>1, <2>1
  <2>2. CASE j = p
    <3>1. PICK s : s = list[j].messages
      OBVIOUS
    <3>2. s \in Seq(MessageOf(ids)) /\ new[j].messages = Append(s, m)
      BY <1>1, <2>2, <3>1, ConversationFields
    <3>3. /\ Len(s) \in Nat /\ DOMAIN s = 1 .. Len(s) /\ DOMAIN Append(s, m) = 1 .. Len(s) + 1
          /\ Append(s, m)[k] = s[k]
      BY <3>1, <3>2, AppendToList
    <3>4. QED
      BY <1>1, <3>1, <3>2, <3>3
  <2>3. QED
    BY <2>1, <2>2
<1>3. \E k \in DOMAIN new[p].messages : new[p].messages[k] = m
  <2>1. CASE p \in DOMAIN list
    <3>1. PICK s : s = list[p].messages
      OBVIOUS
    <3>2. s \in Seq(MessageOf(ids)) /\ new[p].messages = Append(s, m)
      BY <1>1, <2>1, <3>1, ConversationFields
    <3>3. /\ Len(s) \in Nat /\ DOMAIN Append(s, m) = 1 .. Len(s) + 1
          /\ Append(s, m)[Len(s) + 1] = m
      BY <3>2, AppendToList
    <3>4. QED
      BY <3>2, <3>3
  <2>2. CASE p \notin DOMAIN list
    <3>1. 1 \in DOMAIN <<m>> /\ <<m>>[1] = m
      OBVIOUS
    <3>2. QED
      BY <1>1, <2>2, <3>1
  <2>3. QED
    BY <2>1, <2>2
<1>4. ASSUME NEW j \in DOMAIN new, NEW k \in DOMAIN new[j].messages
      PROVE  \/ new[j].messages[k] = m
             \/ j \in DOMAIN list /\ k \in DOMAIN list[j].messages
                /\ new[j].messages[k] = list[j].messages[k]
  <2>1. CASE j # p
    BY <1>1, <2>1
  <2>2. CASE j = p /\ p \in DOMAIN list
    <3>1. PICK s : s = list[p].messages
      OBVIOUS
    <3>2. s \in Seq(MessageOf(ids)) /\ new[p].messages = Append(s, m)
      BY <1>1, <2>2, <3>1, ConversationFields
    <3>3. /\ Len(s) \in Nat /\ DOMAIN s = 1 .. Len(s) /\ DOMAIN Append(s, m) = 1 .. Len(s) + 1
          /\ \A h \in DOMAIN s : Append(s, m)[h] = s[h]
          /\ Append(s, m)[Len(s) + 1] = m
      BY <3>2, AppendToList
    <3>4. k \in DOMAIN s \/ k = Len(s) + 1
      BY <2>2, <3>2, <3>3
    <3>5. QED
      BY <2>2, <3>1, <3>2, <3>3, <3>4
  <2>3. CASE j = p /\ p \notin DOMAIN list
    <3>1. DOMAIN <<m>> = {1} /\ <<m>>[1] = m
      OBVIOUS
    <3>2. QED
      BY <1>1, <2>3, <3>1
  <2>4. QED
    BY <2>1, <2>2, <2>3
<1>5. Same(m, m, e, f)
  BY DEF Same
<1>6. ASSUME NEW j \in DOMAIN new, NEW k \in DOMAIN new[j].messages
      PROVE  \E i \in DOMAIN more : Same(new[j].messages[k], more[i].message, e, f)
  <2>1. CASE new[j].messages[k] = m
    BY <1>5, <2>1
  <2>2. CASE new[j].messages[k] # m
    <3>1. /\ j \in DOMAIN list /\ k \in DOMAIN list[j].messages
          /\ new[j].messages[k] = list[j].messages[k]
      BY <1>4, <2>2
    <3>2. PICK i \in DOMAIN table : Same(list[j].messages[k], table[i].message, e, f)
      BY <3>1 DEF Matches
    <3>3. QED
      BY <3>1, <3>2
  <2>3. QED
    BY <2>1, <2>2
<1>7. ASSUME NEW i \in DOMAIN more
      PROVE  \E j \in DOMAIN new : \E k \in DOMAIN new[j].messages :
               Same(new[j].messages[k], more[i].message, e, f)
  <2>1. CASE more[i].message = m
    BY <1>1, <1>3, <1>5, <2>1
  <2>2. CASE i \in DOMAIN table
    <3>1. PICK j \in DOMAIN list :
            \E k \in DOMAIN list[j].messages : Same(list[j].messages[k], table[i].message, e, f)
      BY <2>2 DEF Matches
    <3>2. PICK k \in DOMAIN list[j].messages : Same(list[j].messages[k], table[i].message, e, f)
      BY <3>1
    <3>3. more[i] = table[i]
      BY <2>2
    <3>4. QED
      BY <1>2, <3>2, <3>3
  <2>3. QED
    BY <2>1, <2>2
<1>8. QED
  BY <1>6, <1>7 DEF Matches, new

-----------------------------------------------------------------------------
\* The inductive invariant

\* The ids that are given out, and the addresses that a login can have.
IssuedOf(l) == Messages!Id \ Messages!ToSet(l.own)
JidsOf(l)   == IF l.naming = "given" THEN {0} ELSE Int

\* What is archived, on its way and waiting is what a scenario can bring.
ServerOK ==
  /\ scenario \in Messages!Scenario
  /\ archive \in Seq(StanzaOf(IssuedOf(scenario)))
  /\ stanzas \in Seq(DownOf(IssuedOf(scenario), Len(archive)))
  /\ query \in {None} \cup 0 .. Len(archive) + 1
  /\ connection \in JidsOf(scenario) \cup {None}
  /\ events \in Seq(EventOf(IssuedOf(scenario), JidsOf(scenario)))
  /\ ~Messages!Online => stanzas = <<>>

\* A message is in the table once, and on the screen once, with its contact; what was
\* not on the screen since it came is counted.
ScreenOK ==
  /\ account \in JidsOf(scenario) \cup {None}
  /\ conversations \in ListOf(IssuedOf(scenario)) /\ selected \in {None} \cup (Nat \ {0})
  /\ rows \in Seq(RowOf(IssuedOf(scenario), JidsOf(scenario))) /\ RowsOnce(rows)
  /\ OnceIn(conversations) /\ FitsIn(conversations)
  /\ unseen \in SUBSET Incoming /\ Counted(conversations, unseen)

\* Before the first login is handled the screen is empty, and nothing else comes.
StartOK ==
  account = None =>
    /\ conversations = <<>>
    /\ events # <<>> => Head(events).type = "Connected"
    /\ Messages!Online => events # <<>>

\* With one address for all logins, the screen and the table have the same messages, but
\* for what was edited since the login.
TableOK ==
  scenario.naming = "given" /\ account # None => Matches(conversations, rows, edited, strayed)

HistoryOK == ServerOK /\ ScreenOK /\ StartOK /\ TableOK

\* What an action spends of the scenario is none of its ids.
LEMMA SpendKeeps ==
  ASSUME scenario \in Messages!Scenario, NEW what \in {"logins", "losses", "quits", "receipts"},
         Messages!Spend(what)
  PROVE  /\ scenario' \in Messages!Scenario /\ IssuedOf(scenario') = IssuedOf(scenario)
            /\ JidsOf(scenario') = JidsOf(scenario)
         /\ scenario'.naming = scenario.naming
<1>1. scenario[what] \in Nat /\ scenario[what] > 0
  BY DEF Messages!Scenario, Messages!Spend
<1>2. scenario' = [scenario EXCEPT ![what] = scenario[what] - 1] /\ scenario[what] - 1 \in Nat
  BY <1>1 DEF Messages!Spend
<1>3. /\ scenario' \in Messages!Scenario /\ scenario'.own = scenario.own
      /\ scenario'.naming = scenario.naming
  BY <1>2 DEF Messages!Scenario
<1>4. QED
  BY <1>3 DEF IssuedOf, JidsOf

\* The next id of those from here is a new one.
LEMMA NextIdIs ==
  ASSUME Messages!ScenariosFit, scenario \in Messages!Scenario, scenario.own # <<>>,
         scenario' = [scenario EXCEPT !.own = Tail(@)]
  PROVE  /\ scenario' \in Messages!Scenario /\ JidsOf(scenario') = JidsOf(scenario)
            /\ scenario'.naming = scenario.naming
         /\ IssuedOf(scenario) \subseteq IssuedOf(scenario')
         /\ Head(scenario.own) \in Messages!OwnIds /\ Head(scenario.own) \in IssuedOf(scenario')
         /\ Head(scenario.own) \notin IssuedOf(scenario)
<1>1. PICK o \in Seq(Messages!OwnIds) : o = scenario.own
        /\ \A i, j \in DOMAIN o : o[i] = o[j] => i = j
  BY DEF Messages!Scenario, Messages!IsInjective
<1>2. /\ Head(o) \in Messages!OwnIds /\ Tail(o) \in Seq(Messages!OwnIds)
      /\ Len(Tail(o)) = Len(o) - 1
      /\ \A i \in 1 .. Len(Tail(o)) : Tail(o)[i] = o[i + 1]
  BY <1>1, HeadTailProperties
<1>3. /\ Len(o) \in Nat /\ DOMAIN o = 1 .. Len(o) /\ DOMAIN Tail(o) = 1 .. Len(o) - 1
      /\ Head(o) = o[1] /\ Len(o) > 0
  <2>1. Len(o) \in Nat \ {0}
    BY <1>1, EmptySeq
  <2>2. DOMAIN o = 1 .. Len(o) /\ DOMAIN Tail(o) = 1 .. Len(Tail(o))
    BY <1>2, LenProperties
  <2>3. Head(o) = o[1]
    OBVIOUS
  <2>4. QED
    BY <1>2, <2>1, <2>2, <2>3
<1> DEFINE r == Tail(o)
<1>4. \A i, j \in DOMAIN r : r[i] = r[j] => i = j
  <2>1. \A i \in DOMAIN r : i \in Nat /\ i + 1 \in DOMAIN o /\ r[i] = o[i + 1]
    BY <1>2, <1>3
  <2> HIDE DEF r
  <2>2. QED
    BY <1>1, <2>1
<1>5. scenario' = [scenario EXCEPT !.own = r]
  BY <1>1
<1> HIDE DEF r
<1>6. scenario' \in Messages!Scenario /\ scenario'.own = r /\ scenario'.naming = scenario.naming
  BY <1>2, <1>4, <1>5 DEF Messages!Scenario, Messages!IsInjective, r
<1>7. Messages!ToSet(o) = {o[i] : i \in DOMAIN o} /\ Messages!ToSet(r) = {r[i] : i \in DOMAIN r}
  BY DEF Messages!ToSet
<1>8. Head(o) \in Messages!ToSet(o) /\ Messages!ToSet(r) \subseteq Messages!ToSet(o)
  BY <1>2, <1>3, <1>7 DEF r
<1>9. Head(o) \notin Messages!ToSet(r)
  <2>1. \A i \in DOMAIN r : i + 1 \in DOMAIN o /\ i + 1 # 1 /\ r[i] = o[i + 1]
    BY <1>2, <1>3 DEF r
  <2>2. 1 \in DOMAIN o
    BY <1>3
  <2>3. QED
    BY <1>1, <1>3, <1>7, <2>1, <2>2
<1>10. /\ IssuedOf(scenario) = Messages!Id \ Messages!ToSet(o)
       /\ IssuedOf(scenario') = Messages!Id \ Messages!ToSet(r)
              /\ JidsOf(scenario') = JidsOf(scenario)
  BY <1>1, <1>6 DEF IssuedOf, JidsOf
<1>11. QED
  BY <1>1, <1>2, <1>6, <1>8, <1>9, <1>10 DEF Messages!Id

\* What others send is no message from here, and is with its contact.
LEMMA TrafficIs ==
  ASSUME Messages!ScenariosFit, NEW l \in Messages!Scenario, NEW s \in Messages!Traffic
  PROVE  /\ s.id \in IssuedOf(l) /\ s.contact \in Messages!People
         /\ s.direction \in Messages!Direction /\ s.body \in Int
         /\ s.direction = "incoming" <=> s.id \in Incoming
         /\ Fits(s.contact, s.id)
<1>1. s.id \in Messages!Id /\ s.id \notin Messages!OwnIds /\ s.contact \in Messages!People
  BY DEF Messages!ScenariosFit, Messages!Id, Messages!People
<1>2. Messages!ToSet(l.own) \subseteq Messages!OwnIds
  <2>1. PICK o \in Seq(Messages!OwnIds) : o = l.own
    BY DEF Messages!Scenario
  <2>2. \A i \in DOMAIN o : o[i] \in Messages!OwnIds
    BY LenProperties, ElementOfSeq
  <2>3. QED
    BY <2>1, <2>2 DEF Messages!ToSet
<1>3. s.direction = "incoming" <=> s.id \in Incoming
  BY DEF Messages!ScenariosFit, Incoming
<1>4. QED
  BY <1>1, <1>2, <1>3 DEF Messages!ScenariosFit, IssuedOf, Fits

-----------------------------------------------------------------------------
\* The server and the worker

\* The first event stays the first when others are added.
LEMMA HeadStays ==
  ASSUME NEW S, NEW s \in Seq(S), s # <<>>
  PROVE  /\ \A e \in S : Append(s, e) # <<>> /\ Head(Append(s, e)) = Head(s)
         /\ \A t \in Seq(S) : s \o t # <<>> /\ Head(s \o t) = Head(s)
<1>1. Len(s) \in Nat \ {0}
  BY EmptySeq
<1>2. ASSUME NEW e \in S PROVE Append(s, e) # <<>> /\ Head(Append(s, e)) = Head(s)
  <2>1. /\ Append(s, e) \in Seq(S) /\ Len(Append(s, e)) = Len(s) + 1 /\ Append(s, e)[1] = s[1]
    BY <1>1, AppendProperties
  <2>2. QED
    BY <1>1, <2>1
<1>3. ASSUME NEW t \in Seq(S) PROVE s \o t # <<>> /\ Head(s \o t) = Head(s)
  <2>1. /\ s \o t \in Seq(S) /\ Len(s \o t) = Len(s) + Len(t) /\ (s \o t)[1] = s[1]
        /\ Len(t) \in Nat
    BY <1>1, ConcatProperties, LenProperties
  <2>2. QED
    BY <1>1, <2>1
<1>4. QED
  BY <1>2, <1>3

\* ScreenOK is about the interface and the rows.
LEMMA ScreenStays ==
  ASSUME ScreenOK, UNCHANGED <<Messages!uiVars, rows, unseen>>,
         IssuedOf(scenario') = IssuedOf(scenario), JidsOf(scenario') = JidsOf(scenario)
  PROVE  ScreenOK'
BY DEF ScreenOK, Messages!uiVars

\* TableOK is about the interface and the rows.
LEMMA TableStays ==
  ASSUME TableOK, UNCHANGED <<account, conversations, rows, edited, strayed>>,
         scenario'.naming = scenario.naming
  PROVE  TableOK'
BY DEF TableOK

\* A message reaches the server.
LEMMA ArriveKeeps ==
  ASSUME Messages!ScenariosFit, HistoryOK, NEW s \in scenario.traffic, Messages!Arrive(s)
  PROVE  HistoryOK'
<1> USE DEF HistoryOK
<1> DEFINE ids == IssuedOf(scenario)
<1>1. /\ s \in Messages!Traffic /\ scenario' \in Messages!Scenario /\ IssuedOf(scenario') = ids
      /\ JidsOf(scenario') = JidsOf(scenario)
      /\ scenario'.naming = scenario.naming
  <2>1. scenario \in Messages!Scenario /\ scenario' = [scenario EXCEPT !.traffic = @ \ {s}]
    BY DEF ServerOK, Messages!Arrive
  <2>2. s \in Messages!Traffic
    BY <2>1 DEF Messages!Scenario
  <2>3. /\ scenario' \in Messages!Scenario /\ scenario'.own = scenario.own
        /\ scenario'.naming = scenario.naming
    BY <2>1 DEF Messages!Scenario
  <2>4. QED
    BY <2>2, <2>3 DEF IssuedOf, JidsOf
<1>2. /\ archive' \in Seq(StanzaOf(ids)) /\ Len(archive) \in Nat /\ Len(archive') = Len(archive) + 1
  BY <1>1, AppendToList DEF ServerOK, Messages!Arrive, StanzaOf
<1>3. stanzas' \in Seq(DownOf(ids, Len(archive')))
  <2>1. stanzas \in Seq(DownOf(ids, Len(archive')))
    <3>1. Len(archive') \in Nat /\ Len(archive) <= Len(archive') /\ ids \subseteq ids
      BY <1>2
    <3>2. Seq(DownOf(ids, Len(archive))) \subseteq Seq(DownOf(ids, Len(archive')))
      BY <1>2, <3>1, MoreIds
    <3>3. QED
      BY <3>2 DEF ServerOK
  <2>2. /\ Messages!Live(s) \in DownOf(ids, Len(archive'))
        /\ Messages!Carbon(s) \in DownOf(ids, Len(archive'))
    BY <1>1 DEF Messages!Live, Messages!Carbon, DownOf
  <2>3. QED
    BY <2>1, <2>2, AppendToList DEF Messages!Arrive
<1>4. ServerOK'
  BY <1>1, <1>2, <1>3 DEF ServerOK, Messages!Arrive, Messages!Online
<1>5. ScreenOK' /\ TableOK'
  BY <1>1, ScreenStays, TableStays DEF Messages!Arrive, Messages!uiVars, Messages!outside
<1>6. StartOK'
  BY DEF StartOK, Messages!Arrive, Messages!Online, Messages!uiVars
<1>7. QED
  BY <1>4, <1>5, <1>6

\* A receipt reaches the server.
LEMMA ReceiptKeeps ==
  ASSUME Messages!ScenariosFit, HistoryOK, NEW i \in DOMAIN archive, Messages!Receipt(i)
  PROVE  HistoryOK'
<1> USE DEF HistoryOK
<1> DEFINE ids == IssuedOf(scenario)
<1>1. /\ scenario' \in Messages!Scenario /\ IssuedOf(scenario') = ids
      /\ JidsOf(scenario') = JidsOf(scenario)
      /\ scenario'.naming = scenario.naming
  BY SpendKeeps DEF ServerOK, Messages!Receipt
<1>2. archive[i].id \in ids
  <2>1. archive[i] \in StanzaOf(ids)
    BY LenProperties, ElementOfSeq DEF ServerOK
  <2>2. CASE archive[i] \in Messages!Traffic
    BY <2>2, TrafficIs DEF ServerOK
  <2>3. CASE archive[i] \in OwnStanza(ids)
    BY <2>3 DEF OwnStanza
  <2>4. QED
    BY <2>1, <2>2, <2>3 DEF StanzaOf
<1>3. stanzas' \in Seq(DownOf(ids, Len(archive)))
  <2>1. [kind |-> "receipt", id |-> archive[i].id] \in DownOf(ids, Len(archive))
    BY <1>2 DEF DownOf
  <2>2. QED
    BY <2>1, AppendToList DEF Messages!Receipt, ServerOK
<1>4. ServerOK'
  BY <1>1, <1>3 DEF ServerOK, Messages!Receipt, Messages!Online
<1>5. ScreenOK' /\ TableOK'
  BY <1>1, ScreenStays, TableStays DEF Messages!Receipt, Messages!uiVars, Messages!outside
<1>6. StartOK'
  BY DEF StartOK, Messages!Receipt, Messages!Online, Messages!uiVars
<1>7. QED
  BY <1>4, <1>5, <1>6

\* The archive answers with a page.
LEMMA ServePageKeeps ==
  ASSUME Messages!ScenariosFit, HistoryOK, Messages!ServePage
  PROVE  HistoryOK'
<1> USE DEF HistoryOK
<1> DEFINE ids    == IssuedOf(scenario)
           D      == DownOf(ids, Len(archive))
           before == IF query = 0 THEN Len(archive) + 1 ELSE query
           first  == Messages!Max({1, before - PageSize})
           page   == [k \in 1 .. before - first |-> Messages!Archived(first + k - 1)]
           fin    == [kind |-> "fin", complete |-> first = 1, first |-> first]
<1>1. /\ Len(archive) \in Nat /\ DOMAIN archive = 1 .. Len(archive)
      /\ \A i \in 1 .. Len(archive) : archive[i] \in StanzaOf(ids)
  BY LenProperties, ElementOfSeq DEF ServerOK
<1>2. before \in 0 .. Len(archive) + 1
  BY <1>1 DEF ServerOK, Messages!ServePage
<1>3. first \in 1 .. Len(archive) + 1 /\ (first > 1 => first <= before)
  <2>1. PICK n : n = before - PageSize
    OBVIOUS
  <2>2. n \in Int /\ n <= before
    BY <1>2, <2>1 DEF Messages!ScenariosFit
  <2>3. Messages!Max({1, n}) = IF n > 1 THEN n ELSE 1
    BY <2>2 DEF Messages!Max
  <2>4. QED
    BY <1>1, <1>2, <2>1, <2>2, <2>3
<1> HIDE DEF first, before
<1>4. page \in Seq(D)
  <2>1. CASE before - first < 1
    <3>1. 1 .. before - first = {}
      BY <1>2, <1>3, <2>1
    <3>2. page = <<>>
      BY <3>1
    <3>3. QED
      BY <3>2, EmptySeq
  <2>2. CASE before - first >= 1
    <3>1. before - first \in Nat
      BY <1>2, <1>3, <2>2
    <3>2. ASSUME NEW k \in 1 .. before - first
          PROVE  Messages!Archived(first + k - 1) \in D
      <4>1. first + k - 1 \in 1 .. Len(archive)
        BY <1>1, <1>2, <1>3
      <4>2. archive[first + k - 1] \in StanzaOf(ids) /\ first + k - 1 \in Int
        BY <1>1, <4>1
      <4>3. QED
        BY <4>2 DEF Messages!Archived, DownOf
    <3>3. QED
      BY <3>1, <3>2, IsASeq
  <2>3. QED
    BY <1>2, <1>3, <2>1, <2>2
<1>5. fin \in D
  BY <1>3 DEF DownOf
<1> HIDE DEF page, fin, D
<1>6. stanzas' = (stanzas \o page) \o <<fin>>
  BY DEF Messages!ServePage, page, fin, first, before
<1>7. stanzas' \in Seq(D)
  <2>1. <<fin>> \in Seq(D)
    BY <1>5
  <2>2. QED
    BY <1>4, <1>6, <2>1, ConcatProperties DEF ServerOK, D
<1>8. ServerOK'
  BY <1>7 DEF ServerOK, Messages!ServePage, Messages!Online, D
<1>9. ScreenOK' /\ TableOK'
  BY ScreenStays, TableStays DEF Messages!ServePage, Messages!uiVars, Messages!outside
<1>10. StartOK'
  BY DEF StartOK, Messages!ServePage, Messages!Online, Messages!uiVars
<1>11. QED
  BY <1>8, <1>9, <1>10

\* A login.
LEMMA LoginKeeps ==
  ASSUME Messages!ScenariosFit, HistoryOK, Messages!Login
  PROVE  HistoryOK'
<1> USE DEF HistoryOK
<1> DEFINE ids  == IssuedOf(scenario)
           jids == JidsOf(scenario)
           E    == EventOf(ids, jids)
           e    == [type |-> "Connected", jid |-> connection']
<1>1. /\ scenario' \in Messages!Scenario /\ IssuedOf(scenario') = ids
      /\ JidsOf(scenario') = jids /\ scenario'.naming = scenario.naming
  BY SpendKeeps DEF ServerOK, Messages!Login
<1>2. connection' \in jids /\ connection' # None
  BY DEF Messages!Login, JidsOf, ServerOK, Messages!Scenario, Messages!ScenariosFit,
     Messages!NoneIsApart
<1>3. e \in E /\ events' = Append(events, e)
  BY <1>2 DEF Messages!Login, EventOf
<1>4. /\ events' \in Seq(E) /\ events' # <<>>
      /\ events # <<>> => Head(events') = Head(events)
      /\ events = <<>> => Head(events') = e
  <2> HIDE DEF e, E
  <2>1. events \in Seq(E)
    BY DEF ServerOK, E
  <2>2. events' \in Seq(E) /\ Len(events') = Len(events) + 1 /\ Len(events) \in Nat
        /\ events'[Len(events) + 1] = e
    BY <1>3, <2>1, AppendToList
  <2>3. events # <<>> => Head(events') = Head(events)
    BY <1>3, <2>1, HeadStays
  <2>4. events = <<>> => Head(events') = e
    BY <1>3
  <2>5. QED
    BY <2>2, <2>3, <2>4
<1>5. stanzas' \in Seq(DownOf(ids, Len(archive)))
  <2>1. [kind |-> "roster"] \in DownOf(ids, Len(archive))
    BY DEF DownOf
  <2>2. QED
    BY <2>1 DEF Messages!Login
<1>6. ServerOK'
  <2>1. Len(archive) \in Nat
    BY LenProperties DEF ServerOK
  <2>2. 0 \in 0 .. Len(archive) + 1
    BY <2>1
  <2>3. QED
    BY <1>1, <1>2, <1>4, <1>5, <2>2 DEF ServerOK, Messages!Login, Messages!Online
<1>7. ScreenOK' /\ TableOK'
  BY <1>1, ScreenStays, TableStays DEF Messages!Login, Messages!uiVars, Messages!outside
<1>8. StartOK'
  BY <1>4 DEF StartOK, Messages!Login, Messages!uiVars
<1>9. QED
  BY <1>6, <1>7, <1>8

\* The stream is lost.
LEMMA StreamLostKeeps ==
  ASSUME Messages!ScenariosFit, HistoryOK, Messages!StreamLost
  PROVE  HistoryOK'
<1> USE DEF HistoryOK
<1> DEFINE ids  == IssuedOf(scenario)
           jids == JidsOf(scenario)
           E    == EventOf(ids, jids)
           e    == [type |-> "Disconnected"]
<1>1. /\ scenario' \in Messages!Scenario /\ IssuedOf(scenario') = ids
      /\ JidsOf(scenario') = jids /\ scenario'.naming = scenario.naming
  BY SpendKeeps DEF ServerOK, Messages!StreamLost
<1>2. e \in E /\ events' = Append(events, e)
  BY DEF Messages!StreamLost, EventOf
<1>3. /\ events' \in Seq(E)
      /\ events # <<>> => events' # <<>> /\ Head(events') = Head(events)
  <2> HIDE DEF e, E
  <2>1. events \in Seq(E)
    BY DEF ServerOK, E
  <2>2. QED
    BY <1>2, <2>1, AppendToList, HeadStays
<1>4. stanzas' \in Seq(DownOf(ids, Len(archive)))
  BY EmptySeq DEF Messages!StreamLost
<1>5. ServerOK'
  BY <1>1, <1>3, <1>4 DEF ServerOK, Messages!StreamLost, Messages!Online
<1>6. ScreenOK' /\ TableOK'
  BY <1>1, ScreenStays, TableStays DEF Messages!StreamLost, Messages!uiVars, Messages!outside
<1>7. StartOK'
  BY <1>3 DEF StartOK, Messages!StreamLost, Messages!uiVars, Messages!Online
<1>8. QED
  BY <1>5, <1>6, <1>7

\* What the worker makes of a stanza.
LEMMA ReceivedIs ==
  ASSUME Messages!ScenariosFit, NEW l \in Messages!Scenario, NEW s \in StanzaOf(IssuedOf(l)),
         NEW jids,
         NEW body \in Int, NEW time \in Int
  PROVE  /\ Messages!MessageReceived(s, body, time) \in EventOf(IssuedOf(l), jids)
         /\ s.body \in Int
<1>1. /\ s.id \in IssuedOf(l) /\ s.contact \in Messages!People /\ s.direction \in Messages!Direction
      /\ s.direction = "incoming" <=> s.id \in Incoming
      /\ Fits(s.contact, s.id) /\ s.body \in Int
  <2>1. CASE s \in Messages!Traffic
    BY <2>1, TrafficIs
  <2>2. CASE s \in OwnStanza(IssuedOf(l))
    <3>1. /\ s.id \in IssuedOf(l) /\ s.id \in Messages!OwnIds /\ s.contact \in Messages!People
          /\ s.direction = "outgoing" /\ s.body \in Int
      BY <2>2 DEF OwnStanza
    <3>2. \A t \in Messages!Traffic : t.id # s.id
      BY <3>1 DEF Messages!ScenariosFit
    <3>3. QED
      BY <3>1, <3>2 DEF Messages!Direction, Incoming, Fits
  <2>3. QED
    BY <2>1, <2>2 DEF StanzaOf
<1> DEFINE m == [id |-> s.id, body |-> body, direction |-> s.direction, time |-> time,
                 status |-> IF s.direction = "outgoing" THEN "sent" ELSE "received"]
<1>2. m \in MessageOf(IssuedOf(l)) /\ m.id = s.id /\ AsSent(m)
  BY <1>1 DEF MessageOf, Status, AsSent
<1>3. Messages!MessageReceived(s, body, time) = [type |-> "MessageReceived",
        contact |-> s.contact, message |-> m]
  BY DEF Messages!MessageReceived
<1> HIDE DEF m
<1>4. Messages!MessageReceived(s, body, time) \in Reception(IssuedOf(l))
  BY <1>1, <1>2, <1>3 DEF Reception
<1>5. QED
  BY <1>1, <1>4 DEF EventOf

\* A correction is for a message of the contact it comes from.
LEMMA CorrectionIs ==
  ASSUME Messages!ScenariosFit, NEW l \in Messages!Scenario, NEW s \in Messages!Traffic,
         s.replaces # None
  PROVE  Messages!MessageCorrected(s) \in Correction
<1>1. s.contact \in Messages!People /\ s.body \in Int
  BY TrafficIs
<1>2. PICK t \in Messages!Traffic : t.id = s.replaces /\ t.contact = s.contact
  BY DEF Messages!ScenariosFit
<1>3. s.replaces \in Messages!Id
  BY <1>2 DEF Messages!Id
<1>4. QED
  BY <1>1, <1>2, <1>3 DEF Messages!MessageCorrected, Correction

\* A decrypted message is an event of a message, or of a correction.
LEMMA DecryptedIs ==
  ASSUME Messages!ScenariosFit, NEW l \in Messages!Scenario, NEW s \in Messages!Traffic,
         NEW jids, Len(archive) \in Nat
  PROVE  Messages!OmemoMessageReceived(s) \in EventOf(IssuedOf(l), jids)
<1>1. CASE s.replaces # None
  BY <1>1, CorrectionIs DEF Messages!OmemoMessageReceived, EventOf
<1>2. CASE s.replaces = None
  <2> DEFINE m == [id |-> s.id, body |-> s.body, direction |-> s.direction,
                   time |-> Len(archive), status |-> "pending"]
  <2>1. m \in MessageOf(IssuedOf(l)) /\ m.id = s.id /\ AsSent(m)
    BY TrafficIs DEF MessageOf, Status, AsSent
  <2>2. Messages!OmemoMessageReceived(s) = [type |-> "MessageReceived", contact |-> s.contact,
          message |-> m]
    BY <1>2 DEF Messages!OmemoMessageReceived
  <2> HIDE DEF m
  <2>3. Messages!OmemoMessageReceived(s) \in Reception(IssuedOf(l))
    BY <2>1, <2>2, TrafficIs DEF Reception
  <2>4. QED
    BY <2>3 DEF EventOf
<1>3. QED
  BY <1>1, <1>2

\* An event at most, of a stanza that comes live, as a copy or from the archive.
LEMMA ProcessedIs ==
  ASSUME Messages!ScenariosFit, ServerOK, NEW s \in StanzaOf(IssuedOf(scenario)), NEW time \in Int,
         Messages!ProcessMessage(s, time)
  PROVE  \/ events' = events
         \/ \E e \in EventOf(IssuedOf(scenario), JidsOf(scenario)) : events' = Append(events, e)
<1>1. scenario \in Messages!Scenario /\ Len(archive) \in Nat
  BY LenProperties DEF ServerOK
<1>2. CASE ~s.encrypted
  BY <1>1, <1>2, ReceivedIs DEF Messages!ProcessMessage
<1>3. CASE s.encrypted
  <2>1. s \in Messages!Traffic
    BY <1>3 DEF StanzaOf, OwnStanza
  <2>2. Messages!OmemoMessageReceived(s) \in EventOf(IssuedOf(scenario), JidsOf(scenario))
    BY <1>1, <2>1, DecryptedIs
  <2>3. Messages!MessageReceived(s, 0, time) \in EventOf(IssuedOf(scenario), JidsOf(scenario))
    BY <1>1, ReceivedIs
  <2>4. QED
    BY <1>3, <2>2, <2>3 DEF Messages!ProcessMessage
<1>4. QED
  BY <1>2, <1>3

\* The worker handles a stanza.
LEMMA HandleStanzaKeeps ==
  ASSUME Messages!ScenariosFit, HistoryOK, Messages!HandleStanza
  PROVE  HistoryOK'
<1> USE DEF HistoryOK
<1> DEFINE ids  == IssuedOf(scenario)
           jids == JidsOf(scenario)
           D    == DownOf(ids, Len(archive))
           E    == EventOf(ids, jids)
           d    == Head(stanzas)
           n    == Len(archive)
           roster == [i \in DOMAIN Roster |-> [type |-> "RosterItem", contact |-> Roster[i]]]
<1>1. /\ stanzas # <<>> /\ stanzas' = Tail(stanzas)
      /\ UNCHANGED <<archive, connection, Messages!uiVars, rows, scenario, Messages!outside>>
  BY DEF Messages!HandleStanza
<1>2. d \in D /\ stanzas' \in Seq(D)
  BY <1>1, HeadTailProperties DEF ServerOK
<1>3. n \in Nat /\ events \in Seq(E) /\ scenario \in Messages!Scenario
  BY LenProperties DEF ServerOK
<1>4. Messages!Online
  BY <1>1 DEF ServerOK
\* What comes of it: an event, those of the roster, or the next query.
<1>5. /\ \/ events' = events
         \/ \E e \in E : events' = Append(events, e)
         \/ events' = events \o roster
      /\ query' \in {None} \cup 0 .. n + 1
  <2>1. CASE d.kind = "receipt"
    <3>1. events' = Append(events, [type |-> "MessageDelivered", id |-> d.id]) /\ query' = query
      BY <2>1 DEF Messages!HandleStanza
    <3>2. [type |-> "MessageDelivered", id |-> d.id] \in E
      BY <1>2, <2>1 DEF DownOf, EventOf
    <3>3. QED
      BY <3>1, <3>2 DEF ServerOK
  <2>2. CASE d.kind = "roster"
    BY <2>2 DEF Messages!HandleStanza, ServerOK
  <2>3. CASE d.kind = "fin"
    <3>1. events' = events /\ (query' = query \/ query' = d.first)
      BY <2>3 DEF Messages!HandleStanza, Messages!NextPage
    <3>2. d.first \in 1 .. n + 1
      BY <1>2, <2>3 DEF DownOf
    <3>3. QED
      BY <1>3, <3>1, <3>2 DEF ServerOK
  <2>4. CASE d.kind = "live" /\ d.stanza.replaces # None /\ ~d.stanza.encrypted
    <3>1. events' = Append(events, Messages!MessageCorrected(d.stanza)) /\ query' = query
      BY <2>4 DEF Messages!HandleStanza
    <3>2. d.stanza \in Messages!Traffic
      BY <1>2, <2>4 DEF DownOf
    <3>3. Messages!MessageCorrected(d.stanza) \in E
      BY <1>3, <2>4, <3>2, CorrectionIs DEF EventOf
    <3>4. QED
      BY <3>1, <3>3 DEF ServerOK
  <2>5. CASE /\ d.kind \notin {"receipt", "roster", "fin"}
             /\ ~(d.kind = "live" /\ d.stanza.replaces # None /\ ~d.stanza.encrypted)
    <3> DEFINE time == IF d.kind = "archived" THEN d.time ELSE n
    <3>1. Messages!ProcessMessage(d.stanza, time) /\ query' = query
      BY <2>5 DEF Messages!HandleStanza
    <3>2. d.stanza \in StanzaOf(ids) /\ time \in Int
      BY <1>2, <1>3, <2>5 DEF DownOf, StanzaOf
    <3> HIDE DEF time
    <3>3. events' = events \/ \E e \in E : events' = Append(events, e)
      BY <3>1, <3>2, ProcessedIs
    <3>4. QED
      BY <3>1, <3>3 DEF ServerOK
  <2>6. QED
    BY <2>1, <2>2, <2>3, <2>4, <2>5
<1>6. roster \in Seq(E)
  <2>1. PICK k \in Nat : DOMAIN Roster = 1 .. k /\ \A i \in 1 .. k : Roster[i] \in Messages!People
    <3>1. Roster \in Seq(Messages!People)
      BY DEF Messages!ScenariosFit
    <3>2. QED
      BY <3>1, LenProperties, ElementOfSeq
  <2>2. ASSUME NEW i \in 1 .. k PROVE [type |-> "RosterItem", contact |-> Roster[i]] \in E
    BY <2>1 DEF EventOf
  <2>3. QED
    BY <2>1, <2>2, IsASeq
<1> HIDE DEF E, roster, D
<1>7. /\ events' \in Seq(E)
      /\ events # <<>> => events' # <<>> /\ Head(events') = Head(events)
  <2>1. CASE events' = events
    BY <1>3, <2>1
  <2>2. CASE \E e \in E : events' = Append(events, e)
    BY <1>3, <2>2, AppendToList, HeadStays
  <2>3. CASE events' = events \o roster
    <3>1. events \o roster \in Seq(E)
      BY <1>3, <1>6, ConcatProperties
    <3>2. events # <<>> => events \o roster # <<>> /\ Head(events \o roster) = Head(events)
      BY <1>3, <1>6, HeadStays
    <3>3. QED
      BY <2>3, <3>1, <3>2
  <2>4. QED
    BY <1>5, <2>1, <2>2, <2>3
<1>8. ServerOK'
  BY <1>1, <1>2, <1>4, <1>5, <1>7 DEF ServerOK, Messages!Online, D, E
<1>9. ScreenOK' /\ TableOK'
  BY <1>1, ScreenStays, TableStays DEF Messages!uiVars, Messages!outside
<1>10. StartOK'
  BY <1>1, <1>4, <1>7 DEF StartOK, Messages!uiVars, Messages!Online
<1>11. QED
  BY <1>8, <1>9, <1>10

\* The program ends.
LEMMA QuitKeeps ==
  ASSUME Messages!ScenariosFit, HistoryOK, Messages!Quit
  PROVE  HistoryOK'
<1> USE DEF HistoryOK
<1>1. /\ scenario' \in Messages!Scenario /\ IssuedOf(scenario') = IssuedOf(scenario)
      /\ JidsOf(scenario') = JidsOf(scenario)
      /\ scenario'.naming = scenario.naming
  BY SpendKeeps DEF ServerOK, Messages!Quit
<1>2. ServerOK'
  BY <1>1, EmptySeq DEF ServerOK, Messages!Quit, Messages!Online
<1>3. ScreenOK'
  <2>1. DOMAIN <<>> = {}
    OBVIOUS
  <2>2. <<>> \in ListOf(IssuedOf(scenario))
    BY EmptySeq DEF ListOf
  <2>3. OnceIn(<<>>) /\ FitsIn(<<>>) /\ Counted(<<>>, unseen)
    BY <2>1 DEF OnceIn, FitsIn, Counted
  <2>4. QED
    BY <1>1, <2>2, <2>3 DEF ScreenOK, Messages!Quit
<1>4. StartOK' /\ TableOK'
  BY DEF StartOK, TableOK, Messages!Quit, Messages!Online
<1>5. QED
  BY <1>2, <1>3, <1>4

-----------------------------------------------------------------------------
\* The interface

\* The user selects a conversation: what it has is seen.
LEMMA ConversationSelectedKeeps ==
  ASSUME Messages!ScenariosFit, HistoryOK, NEW i \in DOMAIN conversations,
         Messages!ConversationSelected(i)
  PROVE  HistoryOK'
<1> USE DEF HistoryOK
<1> DEFINE ids == IssuedOf(scenario)
           c   == conversations[i]
           d   == [c EXCEPT !.unread = 0]
           new == [conversations EXCEPT ![i] = d]
<1>1. /\ conversations' = new /\ selected' = i
      /\ unseen' = unseen \ {m.id : m \in Messages!ToSet(c.messages)}
      /\ UNCHANGED <<archive, stanzas, query, connection, events, account, rows, decrypted,
           scenario,
                     dropped, edited, strayed>>
  BY DEF Messages!ConversationSelected
<1>2. c \in ConversationOf(ids) /\ i \in Nat \ {0}
  BY ConversationFields DEF ScreenOK
<1>3. d \in ConversationOf(ids) /\ d.contact = c.contact /\ d.messages = c.messages /\ d.unread = 0
  BY <1>2 DEF ConversationOf
<1> HIDE DEF d, c
<1>4. /\ new \in ListOf(ids) /\ DOMAIN new = DOMAIN conversations
      /\ new[i] = d /\ \A j \in DOMAIN conversations \ {i} : new[j] = conversations[j]
  BY <1>3, ConversationFields, ExceptSeq DEF ScreenOK, ListOf
<1> HIDE DEF new
<1>5. \A j \in DOMAIN conversations : /\ new[j].contact = conversations[j].contact
                                      /\ new[j].messages = conversations[j].messages
  BY <1>3, <1>4 DEF c
<1>6. OnceIn(new) /\ FitsIn(new)
  BY <1>4, <1>5 DEF ScreenOK, OnceIn, FitsIn
<1>7. unseen' \in SUBSET unseen /\ unseen' \cap IdsOf(new[i]) = {}
  <2>1. IdsOf(new[i]) = {m.id : m \in Messages!ToSet(c.messages)}
    BY <1>3, <1>4 DEF IdsOf, Messages!ToSet
  <2>2. QED
    BY <1>1, <2>1
<1>8. Counted(new, unseen')
  <2>1. Counted(conversations, unseen')
    BY <1>7, CountedFewer DEF ScreenOK
  <2>2. ASSUME NEW j \in DOMAIN new
        PROVE  new[j].unread >= Cardinality(unseen' \cap IdsOf(new[j]))
    <3>1. CASE j # i
      BY <1>4, <2>1, <3>1 DEF Counted
    <3>2. CASE j = i
      <4>1. Cardinality({}) = 0 /\ new[i].unread = 0
        BY <1>3, <1>4, FS_EmptySet
      <4>2. QED
        BY <1>7, <3>2, <4>1
    <3>3. QED
      BY <3>1, <3>2
  <2>3. QED
    BY <2>2 DEF Counted
<1>9. ScreenOK'
  BY <1>1, <1>2, <1>4, <1>6, <1>7, <1>8 DEF ScreenOK
<1>10. TableOK'
  <2>1. Matches(conversations, rows, edited, strayed) => Matches(new, rows, edited, strayed)
    BY <1>4, <1>5 DEF Matches
  <2>2. QED
    BY <1>1, <2>1 DEF TableOK
<1>11. ServerOK'
  BY <1>1 DEF ServerOK, Messages!Online
<1>12. StartOK'
  <2>1. account # None
    BY DEF StartOK
  <2>2. QED
    BY <1>1, <2>1 DEF StartOK
<1>13. QED
  BY <1>9, <1>10, <1>11, <1>12

\* A new message of a contact, shown, stored and counted.
LEMMA AddedIs ==
  ASSUME Messages!NoneIsApart, NEW ids, NEW jids,
         conversations \in ListOf(ids), OnceIn(conversations), FitsIn(conversations),
         selected \in {None} \cup (Nat \ {0}),
         rows \in Seq(RowOf(ids, jids)), RowsOnce(rows), account \in jids,
         unseen \in SUBSET Incoming, Counted(conversations, unseen),
         NEW contact \in Messages!People, NEW m \in MessageOf(ids), AsSent(m),
         Fits(contact, m.id), ~IsIn(conversations, m.id),
         Messages!SaveMessage(m, contact),
           Messages!SortConversations(Messages!AddMessage(conversations, contact, m)),
         NEW u \in SUBSET (unseen \cup {m.id}), m.direction # "incoming" => u \subseteq unseen
  PROVE  /\ conversations' \in ListOf(ids) /\ OnceIn(conversations') /\ FitsIn(conversations')
         /\ Counted(conversations', u) /\ selected' \in {None} \cup (Nat \ {0})
         /\ rows' \in Seq(RowOf(ids, jids)) /\ RowsOnce(rows')
         /\ \A e, f : Matches(conversations, rows, e, f) => Matches(conversations', rows', e, f)
         /\ Messages!Selected(conversations) # None =>
              Messages!Selected(conversations)' = Messages!Selected(conversations)
<1> DEFINE new == Messages!AddMessage(conversations, contact, m)
           p   == Messages!Position(Messages!WithContact(conversations, contact), contact)
<1>1. /\ new \in ListOf(ids) /\ OnceIn(new)
      /\ DOMAIN conversations \subseteq DOMAIN new /\ p \in DOMAIN new
      /\ \A i \in DOMAIN new : i \in DOMAIN conversations \/ i = p
      /\ \A i \in DOMAIN conversations \ {p} : new[i] = conversations[i]
      /\ new[p].contact = contact
      /\ p \in DOMAIN conversations =>
           /\ conversations[p].contact = contact
           /\ new[p].messages = Append(conversations[p].messages, m)
      /\ p \notin DOMAIN conversations => new[p].messages = <<m>>
  BY AddMessageIs
<1>2. Counted(new, u)
  BY CountedAdded
<1>3. Messages!SortConversations(new)
  OBVIOUS
<1> HIDE DEF new, p
<1>4. FitsIn(new)
  <2>1. ASSUME NEW k \in DOMAIN new[p].messages
        PROVE  Fits(contact, new[p].messages[k].id)
    <3>1. CASE p \in DOMAIN conversations
      <4>1. PICK s : s = conversations[p].messages
        OBVIOUS
      <4>2. s \in Seq(MessageOf(ids)) /\ new[p].messages = Append(s, m)
        BY <1>1, <3>1, <4>1, ConversationFields
      <4>3. /\ Len(s) \in Nat /\ DOMAIN s = 1 .. Len(s) /\ DOMAIN Append(s, m) = 1 .. Len(s) + 1
            /\ \A h \in DOMAIN s : Append(s, m)[h] = s[h]
            /\ Append(s, m)[Len(s) + 1] = m
        BY <4>2, AppendToList
      <4>4. k \in DOMAIN s \/ k = Len(s) + 1
        BY <4>2, <4>3
      <4>5. \A h \in DOMAIN s : Fits(contact, s[h].id)
        BY <1>1, <3>1, <4>1 DEF FitsIn
      <4>6. QED
        BY <4>2, <4>3, <4>4, <4>5
    <3>2. CASE p \notin DOMAIN conversations
      <4>1. DOMAIN <<m>> = {1} /\ <<m>>[1] = m
        OBVIOUS
      <4>2. QED
        BY <1>1, <3>2, <4>1
    <3>3. QED
      BY <3>1, <3>2
  <2>2. QED
    BY <1>1, <2>1 DEF FitsIn
<1>5. /\ conversations' \in ListOf(ids) /\ OnceIn(conversations') /\ FitsIn(conversations')
      /\ Counted(conversations', u) /\ selected' \in {None} \cup (Nat \ {0})
      /\ \E o : Arranges(o, conversations', new, DOMAIN new)
      /\ Messages!Selected(new) # None => Messages!Selected(conversations)' = Messages!Selected(new)
  BY <1>1, <1>2, <1>3, <1>4, SortedIs
<1>6. /\ rows' \in Seq(RowOf(ids, jids)) /\ RowsOnce(rows')
      /\ (\A i \in DOMAIN rows : rows[i].message.id # m.id) =>
           /\ \A i \in DOMAIN rows : i \in DOMAIN rows' /\ rows'[i] = rows[i]
           /\ \E i \in DOMAIN rows' : rows'[i].message = m
           /\ \A i \in DOMAIN rows' : i \in DOMAIN rows \/ rows'[i].message = m
  BY SavedIs
<1>7. ASSUME NEW e, NEW f, Matches(conversations, rows, e, f)
      PROVE  Matches(conversations', rows', e, f)
  <2>1. \A i \in DOMAIN rows : rows[i].message.id # m.id
    BY <1>7 DEF Matches, Same, IsIn
  <2>2. Matches(new, rows', e, f)
    BY <1>6, <1>7, <2>1, MatchesAdded DEF new
  <2>3. QED
    BY <1>5, <2>2, MatchesArranged
<1>8. Messages!Selected(conversations) # None =>
        Messages!Selected(new) = Messages!Selected(conversations)
  BY <1>1, ConversationFields DEF Messages!Selected, Messages!NoneIsApart
<1>9. QED
  BY <1>5, <1>6, <1>7, <1>8

\* The ways to add a message: what comes, and what is sent from here.
LEMMA OnMessageReceivedKeeps ==
  ASSUME Messages!ScenariosFit, ServerOK, ScreenOK, TableOK, account # None,
         UNCHANGED <<scenario, edited, strayed>>,
         NEW e \in Reception(IssuedOf(scenario)), Messages!OnMessageReceived(e.contact, e.message)
  PROVE  /\ ScreenOK' /\ TableOK' /\ account' # None
         /\ Messages!Selected(conversations) # None =>
              Messages!Selected(conversations)' = Messages!Selected(conversations)
<1> DEFINE ids  == IssuedOf(scenario)
           jids == JidsOf(scenario)
           m    == e.message
<1>1. m \in MessageOf(ids) /\ AsSent(m) /\ e.contact \in Messages!People /\ Fits(e.contact, m.id)
  BY DEF Reception
<1>2. CASE Messages!MessageExists(m.id)
  <2>1. UNCHANGED <<account, conversations, selected, rows, unseen>>
    BY <1>2 DEF Messages!OnMessageReceived, Messages!uiVars
  <2>2. QED
    BY <2>1 DEF ScreenOK, TableOK, Messages!Selected
<1>3. CASE ~Messages!MessageExists(m.id)
  <2> DEFINE u == unseen \cup (IF m.direction = "incoming"
                  /\ Messages!Selected(conversations) # e.contact
                               THEN {m.id} ELSE {})
  <2>1. /\ Messages!SaveMessage(m, e.contact)
        /\ Messages!SortConversations(Messages!AddMessage(conversations, e.contact, m))
        /\ unseen' = u /\ UNCHANGED account
    BY <1>3 DEF Messages!OnMessageReceived
  <2>2. ~IsIn(conversations, m.id)
    BY <1>3 DEF Messages!MessageExists, IsIn, Messages!ToSet
  <2>3. u \in SUBSET (unseen \cup {m.id}) /\ (m.direction # "incoming" => u \subseteq unseen)
    OBVIOUS
  <2>4. u \in SUBSET Incoming
    BY <1>1 DEF ScreenOK, AsSent
  <2> HIDE DEF u, m
  <2>5. /\ conversations' \in ListOf(ids) /\ OnceIn(conversations') /\ FitsIn(conversations')
        /\ Counted(conversations', u) /\ selected' \in {None} \cup (Nat \ {0})
        /\ rows' \in Seq(RowOf(ids, jids)) /\ RowsOnce(rows')
        /\ \A f, g : Matches(conversations, rows, f, g) => Matches(conversations', rows', f, g)
        /\ Messages!Selected(conversations) # None =>
             Messages!Selected(conversations)' = Messages!Selected(conversations)
    <3>1. account \in jids /\ Messages!NoneIsApart
      BY DEF ScreenOK, Messages!ScenariosFit
    <3>2. QED
      BY <1>1, <2>1, <2>2, <2>3, <3>1, AddedIs DEF ScreenOK
  <2>6. ScreenOK' /\ TableOK'
    BY <2>1, <2>4, <2>5 DEF ScreenOK, TableOK
  <2>7. QED
    BY <2>1, <2>5, <2>6
<1>4. QED
  BY <1>2, <1>3

\* The conversations are loaded: they match the table, whatever was on the screen.
LEMMA OnConnectedKeeps ==
  ASSUME Messages!ScenariosFit, ServerOK, ScreenOK, UNCHANGED scenario,
         NEW jid \in JidsOf(scenario), Messages!OnConnected(jid)
  PROVE  ScreenOK' /\ TableOK' /\ account' # None
<1> DEFINE ids  == IssuedOf(scenario)
           jids == JidsOf(scenario)
           list == Messages!Loaded(jid)
<1>1. account' \in jids /\ account' # None /\ rows' = rows /\ unseen' = unseen
  BY DEF Messages!OnConnected, ScreenOK, Messages!ScenariosFit, Messages!NoneIsApart, JidsOf
<1>2. /\ list \in ListOf(ids) /\ OnceIn(list) /\ FitsIn(list) /\ Counted(list, unseen)
      /\ \A j \in DOMAIN list : \A k \in DOMAIN list[j].messages :
           \E i \in DOMAIN rows : rows[i].account = jid /\ list[j].messages[k] = rows[i].message
      /\ \A i \in DOMAIN rows : rows[i].account = jid =>
           \E j \in DOMAIN list : \E k \in DOMAIN list[j].messages :
             list[j].messages[k] = rows[i].message
  BY LoadedIs DEF ScreenOK
<1>3. Messages!SortConversations(list)
  BY DEF Messages!OnConnected
<1> HIDE DEF list
<1>4. /\ conversations' \in ListOf(ids) /\ OnceIn(conversations') /\ FitsIn(conversations')
      /\ Counted(conversations', unseen)
      /\ selected' \in {None} \cup (Nat \ {0})
      /\ \E p : Arranges(p, conversations', list, DOMAIN list)
  BY <1>2, <1>3, SortedIs DEF ScreenOK, Messages!ScenariosFit
<1>5. ScreenOK'
  BY <1>1, <1>4 DEF ScreenOK
<1>6. ASSUME scenario.naming = "given"
      PROVE  Matches(conversations', rows', edited', strayed')
  <2>1. \A i \in DOMAIN rows : rows[i].account = jid
    <3>1. jids = {0} /\ jid = 0
      BY <1>6 DEF JidsOf
    <3>2. \A i \in DOMAIN rows : rows[i] \in RowOf(ids, jids)
      BY LenProperties, ElementOfSeq DEF ScreenOK
    <3>3. QED
      BY <3>1, <3>2 DEF RowOf
  <2>2. \A m : Same(m, m, edited', strayed')
    BY DEF Same
  <2>3. Matches(list, rows, edited', strayed')
    BY <1>2, <2>1, <2>2 DEF Matches
  <2>4. QED
    BY <1>1, <1>4, <2>3, MatchesArranged
<1>7. TableOK'
  BY <1>6 DEF TableOK
<1>8. QED
  BY <1>1, <1>5, <1>7

\* A contact of the roster gets its conversation.
LEMMA OnRosterItemKeeps ==
  ASSUME Messages!ScenariosFit, ServerOK, ScreenOK, TableOK, account # None,
         UNCHANGED <<scenario, edited, strayed>>,
         NEW contact \in Messages!People, Messages!OnRosterItem(contact)
  PROVE  /\ ScreenOK' /\ TableOK' /\ account' # None
         /\ Messages!Selected(conversations) # None =>
              Messages!Selected(conversations)' = Messages!Selected(conversations)
<1> DEFINE ids == IssuedOf(scenario)
           all == Messages!WithContact(conversations, contact)
<1>1. CASE Messages!Position(conversations, contact) # None
  <2>1. UNCHANGED <<account, conversations, selected, rows, unseen>>
    BY <1>1 DEF Messages!OnRosterItem, Messages!uiVars
  <2>2. QED
    BY <2>1 DEF ScreenOK, TableOK, Messages!Selected
<1>2. CASE Messages!Position(conversations, contact) = None
  <2>1. Messages!SortConversations(all) /\ UNCHANGED <<account, rows, unseen>>
    BY <1>2 DEF Messages!OnRosterItem
  <2>2. /\ all \in ListOf(ids) /\ OnceIn(all)
        /\ DOMAIN conversations \subseteq DOMAIN all
        /\ \A i \in DOMAIN conversations : all[i] = conversations[i]
        /\ \A i \in DOMAIN all \ DOMAIN conversations :
             all[i].contact = contact /\ all[i].messages = <<>> /\ all[i].unread = 0
    BY WithContactAdds DEF ScreenOK, Messages!ScenariosFit
  <2> HIDE DEF all
  <2>3. DOMAIN <<>> = {} /\ Cardinality({}) = 0
    BY FS_EmptySet
  <2>4. FitsIn(all)
    BY <2>2, <2>3 DEF FitsIn, ScreenOK
  <2>5. Counted(all, unseen)
    <3>1. ASSUME NEW i \in DOMAIN all \ DOMAIN conversations
          PROVE  all[i].unread >= Cardinality(unseen \cap IdsOf(all[i]))
      <4>1. unseen \cap IdsOf(all[i]) = {}
        BY <2>2, <2>3, <3>1 DEF IdsOf
      <4>2. all[i].unread = 0 /\ Cardinality(unseen \cap IdsOf(all[i])) = 0
        BY <2>2, <2>3, <3>1, <4>1
      <4>3. QED
        BY <4>2
    <3>2. QED
      BY <2>2, <3>1 DEF Counted, ScreenOK
  <2>6. /\ conversations' \in ListOf(ids) /\ OnceIn(conversations') /\ FitsIn(conversations')
        /\ Counted(conversations', unseen)
        /\ selected' \in {None} \cup (Nat \ {0})
        /\ \E p : Arranges(p, conversations', all, DOMAIN all)
        /\ Messages!Selected(all) # None =>
             Messages!Selected(conversations)' = Messages!Selected(all)
    BY <2>1, <2>2, <2>4, <2>5, SortedIs DEF ScreenOK, Messages!ScenariosFit
  <2>7. ScreenOK'
    BY <2>1, <2>6 DEF ScreenOK
  <2>8. Matches(conversations, rows, edited, strayed) =>
          Matches(conversations', rows', edited', strayed')
    <3>1. Matches(conversations, rows, edited, strayed) => Matches(all, rows, edited, strayed)
      BY <2>2, <2>3 DEF Matches
    <3>2. QED
      BY <2>1, <2>6, <3>1, MatchesArranged
  <2>9. Messages!Selected(conversations) # None =>
          Messages!Selected(all) = Messages!Selected(conversations)
    BY <2>2, ConversationFields DEF Messages!Selected, ScreenOK, Messages!ScenariosFit,
       Messages!NoneIsApart
  <2>10. QED
    BY <2>1, <2>6, <2>7, <2>8, <2>9 DEF TableOK
<1>3. QED
  BY <1>1, <1>2

\* What changes messages in their places keeps the conversation that is selected.
LEMMA SelectedStays ==
  ASSUME Messages!NoneIsApart, NEW ids, conversations \in ListOf(ids), NEW new, new \in ListOf(ids),
         SameIds(new, conversations), conversations' = new, selected' = selected,
         selected \in {None} \cup (Nat \ {0})
  PROVE  Messages!Selected(conversations)' = Messages!Selected(conversations)
<1>1. /\ DOMAIN new = DOMAIN conversations
      /\ \A i \in DOMAIN conversations : new[i].contact = conversations[i].contact
  BY DEF SameIds
<1>2. PICK m \in Nat : m = Len(new) /\ DOMAIN new = 1 .. m
  BY ConversationFields
<1>3. PICK n \in Nat : n = Len(conversations) /\ DOMAIN conversations = 1 .. n
  BY ConversationFields
<1>4. m = n
  <2>1. 1 .. m = 1 .. n
    BY <1>1, <1>2, <1>3
  <2>2. m \in 1 .. m \/ m = 0
    OBVIOUS
  <2>3. n \in 1 .. n \/ n = 0
    OBVIOUS
  <2>4. QED
    BY <2>1, <2>2, <2>3
<1>5. CASE selected # None /\ selected <= n
  <2>1. selected \in DOMAIN conversations
    BY <1>3, <1>5
  <2>2. QED
    BY <1>1, <1>2, <1>3, <1>4, <1>5, <2>1 DEF Messages!Selected
<1>6. CASE ~(selected # None /\ selected <= n)
  BY <1>2, <1>3, <1>4, <1>6 DEF Messages!Selected
<1>7. QED
  BY <1>5, <1>6

\* A correction is shown and stored.
LEMMA OnMessageCorrectedKeeps ==
  ASSUME Messages!ScenariosFit, ServerOK, ScreenOK, TableOK, account # None,
         UNCHANGED <<scenario, edited, strayed>>,
         NEW e \in Correction, Messages!OnMessageCorrected(e.contact, e.target, e.body)
  PROVE  /\ ScreenOK' /\ TableOK' /\ account' # None
         /\ Messages!Selected(conversations) # None =>
              Messages!Selected(conversations)' = Messages!Selected(conversations)
<1> DEFINE ids  == IssuedOf(scenario)
           jids == JidsOf(scenario)
           new  == Messages!Corrected(e.contact, e.target, e.body)
           table == Messages!InRows(e.target, "body", e.body)
<1>1. /\ conversations' = new /\ rows' = table /\ account' = account /\ selected' = selected
      /\ unseen' = unseen
  BY DEF Messages!OnMessageCorrected
<1>2. e.body \in Int /\ \E t \in Messages!Traffic : t.id = e.target /\ t.contact = e.contact
  BY DEF Correction
<1>3. Len(archive) \in Nat
  BY LenProperties DEF ServerOK
<1>4. /\ new \in ListOf(ids) /\ SameIds(new, conversations)
      /\ \A i \in DOMAIN conversations : new[i].unread = conversations[i].unread
      /\ \A i \in DOMAIN conversations : \A k \in DOMAIN conversations[i].messages :
           new[i].messages[k] =
             IF conversations[i].contact = e.contact /\ conversations[i].messages[k].id = e.target
             THEN Rewritten(conversations[i].messages[k], e.body, Len(archive))
             ELSE conversations[i].messages[k]
  <2>1. conversations \in ListOf(ids)
    BY DEF ScreenOK
  <2>2. QED
    BY <1>2, <1>3, <2>1, CorrectedIs
<1>5. /\ table \in Seq(RowOf(ids, jids)) /\ RowsOnce(table) /\ DOMAIN table = DOMAIN rows
      /\ \A i \in DOMAIN rows :
           table[i].message = IF rows[i].message.id = e.target
                              THEN [rows[i].message EXCEPT !.body = e.body] ELSE rows[i].message
  BY <1>2, InRowsBody DEF ScreenOK
<1>6. \A i \in DOMAIN conversations : \A k \in DOMAIN conversations[i].messages :
        conversations[i].messages[k] \in MessageOf(ids)
  BY ConversationFields DEF ScreenOK
<1>7. \A i \in DOMAIN rows : rows[i].message \in MessageOf(ids)
  <2>1. \A i \in DOMAIN rows : rows[i] \in RowOf(ids, jids)
    BY LenProperties, ElementOfSeq DEF ScreenOK
  <2>2. QED
    BY <2>1 DEF RowOf
<1> HIDE DEF new, table
<1>8. OnceIn(new) /\ FitsIn(new) /\ Counted(new, unseen)
  <2>1. OnceIn(new) /\ Counted(new, unseen)
    BY <1>4, SameIdsKeep, SameIdsCounted DEF ScreenOK
  <2>2. FitsIn(new)
    BY <1>4, SameIdsFit DEF ScreenOK
  <2>3. QED
    BY <2>1, <2>2
<1>9. ScreenOK'
  BY <1>1, <1>4, <1>5, <1>8 DEF ScreenOK
<1>10. ASSUME NEW j \in DOMAIN conversations, NEW k \in DOMAIN conversations[j].messages,
              NEW i \in DOMAIN rows,
              Same(conversations[j].messages[k], rows[i].message, edited, strayed)
       PROVE  Same(new[j].messages[k], table[i].message, edited, strayed)
  <2>1. PICK m \in MessageOf(ids) : m = conversations[j].messages[k]
    BY <1>6
  <2>2. PICK r \in MessageOf(ids) : r = rows[i].message
    BY <1>7
  <2>3. /\ m.id = r.id /\ (m.id \in strayed \/ m.body = r.body)
        /\ m.id \in edited \/ (m.direction = r.direction /\ m.status = r.status)
    BY <1>10, <2>1, <2>2 DEF Same
  <2>4. CASE m.id = e.target
    <3>1. conversations[j].contact = e.contact
      BY <1>2, <2>1, <2>4 DEF ScreenOK, FitsIn, Fits
    <3>2. PICK now \in Int : now = Len(archive)
      BY <1>3
    <3>3. new[j].messages[k] = [m EXCEPT !.body = e.body, !.time = now]
      BY <1>4, <2>1, <2>4, <3>1, <3>2 DEF Rewritten
    <3>4. table[i].message = [r EXCEPT !.body = e.body]
      BY <1>5, <2>2, <2>3, <2>4
    <3>5. /\ new[j].messages[k].id = m.id /\ new[j].messages[k].body = e.body
          /\ new[j].messages[k].status = m.status /\ new[j].messages[k].direction = m.direction
      BY <3>3 DEF MessageOf
    <3>6. /\ table[i].message.id = r.id /\ table[i].message.body = e.body
          /\ table[i].message.status = r.status /\ table[i].message.direction = r.direction
      BY <3>4 DEF MessageOf
    <3>7. QED
      BY <2>3, <3>5, <3>6 DEF Same
  <2>5. CASE m.id # e.target
    <3>1. new[j].messages[k] = m /\ table[i].message = r
      BY <1>4, <1>5, <2>1, <2>2, <2>3, <2>5
    <3>2. QED
      BY <2>3, <3>1 DEF Same
  <2>6. QED
    BY <2>4, <2>5
<1>11. Matches(conversations, rows, edited, strayed) => Matches(new, table, edited, strayed)
  <2>1. SameIds(new, conversations) /\ DOMAIN table = DOMAIN rows
    BY <1>4, <1>5
  <2>2. QED
    BY <1>10, <2>1, MatchesChanged
<1>12. TableOK'
  BY <1>1, <1>11 DEF TableOK
<1>13. Messages!Selected(conversations)' = Messages!Selected(conversations)
  BY <1>1, <1>4, SelectedStays DEF ScreenOK, Messages!ScenariosFit
<1>14. QED
  BY <1>1, <1>9, <1>12, <1>13

\* A delivery is shown and stored.
LEMMA OnMessageDeliveredKeeps ==
  ASSUME Messages!ScenariosFit, ServerOK, ScreenOK, TableOK, account # None,
         UNCHANGED <<scenario, edited, strayed>>,
         NEW id, Messages!OnMessageDelivered(id)
  PROVE  /\ ScreenOK' /\ TableOK' /\ account' # None
         /\ Messages!Selected(conversations) # None =>
              Messages!Selected(conversations)' = Messages!Selected(conversations)
<1> DEFINE ids  == IssuedOf(scenario)
           jids == JidsOf(scenario)
           new  == AsDelivered(id)
           table == Messages!InRows(id, "status", "delivered")
<1>1. /\ conversations' = new /\ rows' = table /\ account' = account /\ selected' = selected
      /\ unseen' = unseen
  BY DEF Messages!OnMessageDelivered, AsDelivered
<1>2. /\ new \in ListOf(ids) /\ SameIds(new, conversations)
      /\ \A i \in DOMAIN conversations : new[i].unread = conversations[i].unread
      /\ \A i \in DOMAIN conversations : \A k \in DOMAIN conversations[i].messages :
           new[i].messages[k] = IF conversations[i].messages[k].id = id
                                THEN [conversations[i].messages[k] EXCEPT !.status = "delivered"]
                                ELSE conversations[i].messages[k]
  <2>1. conversations \in ListOf(ids)
    BY DEF ScreenOK
  <2>2. QED
    BY <2>1, DeliveredIs
<1>3. /\ table \in Seq(RowOf(ids, jids)) /\ RowsOnce(table) /\ DOMAIN table = DOMAIN rows
      /\ \A i \in DOMAIN rows :
           table[i].message = IF rows[i].message.id = id
                              THEN [rows[i].message EXCEPT !.status = "delivered"]
                              ELSE rows[i].message
  BY InRowsStatus DEF ScreenOK
<1>4. \A i \in DOMAIN conversations : \A k \in DOMAIN conversations[i].messages :
        conversations[i].messages[k] \in MessageOf(ids)
  BY ConversationFields DEF ScreenOK
<1>5. \A i \in DOMAIN rows : rows[i].message \in MessageOf(ids)
  <2>1. \A i \in DOMAIN rows : rows[i] \in RowOf(ids, jids)
    BY LenProperties, ElementOfSeq DEF ScreenOK
  <2>2. QED
    BY <2>1 DEF RowOf
<1> HIDE DEF new, table
<1>6. OnceIn(new) /\ FitsIn(new) /\ Counted(new, unseen)
  <2>1. OnceIn(new) /\ Counted(new, unseen)
    BY <1>2, SameIdsKeep, SameIdsCounted DEF ScreenOK
  <2>2. FitsIn(new)
    BY <1>2, SameIdsFit DEF ScreenOK
  <2>3. QED
    BY <2>1, <2>2
<1>7. ScreenOK'
  BY <1>1, <1>2, <1>3, <1>6 DEF ScreenOK
<1>8. ASSUME NEW j \in DOMAIN conversations, NEW k \in DOMAIN conversations[j].messages,
             NEW i \in DOMAIN rows,
             Same(conversations[j].messages[k], rows[i].message, edited, strayed)
      PROVE  Same(new[j].messages[k], table[i].message, edited, strayed)
  <2>1. PICK m \in MessageOf(ids) : m = conversations[j].messages[k]
    BY <1>4
  <2>2. PICK r \in MessageOf(ids) : r = rows[i].message
    BY <1>5
  <2>3. /\ m.id = r.id /\ (m.id \in strayed \/ m.body = r.body)
        /\ m.id \in edited \/ (m.direction = r.direction /\ m.status = r.status)
    BY <1>8, <2>1, <2>2 DEF Same
  <2>4. CASE m.id = id
    <3>1. new[j].messages[k] = [m EXCEPT !.status = "delivered"]
      BY <1>2, <2>1, <2>4
    <3>2. table[i].message = [r EXCEPT !.status = "delivered"]
      BY <1>3, <2>2, <2>3, <2>4
    <3>3. /\ new[j].messages[k].id = m.id /\ new[j].messages[k].body = m.body
          /\ new[j].messages[k].status = "delivered" /\ new[j].messages[k].direction = m.direction
      BY <3>1 DEF MessageOf
    <3>4. /\ table[i].message.id = r.id /\ table[i].message.body = r.body
          /\ table[i].message.status = "delivered" /\ table[i].message.direction = r.direction
      BY <3>2 DEF MessageOf
    <3>5. QED
      BY <2>3, <3>3, <3>4 DEF Same
  <2>5. CASE m.id # id
    <3>1. new[j].messages[k] = m /\ table[i].message = r
      BY <1>2, <1>3, <2>1, <2>2, <2>3, <2>5
    <3>2. QED
      BY <2>3, <3>1 DEF Same
  <2>6. QED
    BY <2>4, <2>5
<1>9. Matches(conversations, rows, edited, strayed) => Matches(new, table, edited, strayed)
  <2>1. SameIds(new, conversations) /\ DOMAIN table = DOMAIN rows
    BY <1>2, <1>3
  <2>2. QED
    BY <1>8, <2>1, MatchesChanged
<1>10. TableOK'
  BY <1>1, <1>9 DEF TableOK
<1>11. Messages!Selected(conversations)' = Messages!Selected(conversations)
  BY <1>1, <1>2, SelectedStays DEF ScreenOK, Messages!ScenariosFit
<1>12. QED
  BY <1>1, <1>7, <1>10, <1>11

\* A message that is sent from here has the next id.
LEMMA SentKeeps ==
  ASSUME Messages!ScenariosFit, ServerOK, scenario.own # <<>>,
         scenario' = [scenario EXCEPT !.own = Tail(@)],
         NEW contact \in Messages!People, NEW replaces \in IssuedOf(scenario) \cup {None},
           NEW body \in Int,
         Messages!Sent(Head(scenario.own), contact, replaces, body),
         UNCHANGED <<stanzas, query, connection, events>>
  PROVE  ServerOK'
<1> DEFINE ids  == IssuedOf(scenario)
           more == IssuedOf(scenario')
           jids == JidsOf(scenario)
           id   == Head(scenario.own)
           s    == [id |-> id, contact |-> contact, direction |-> "outgoing",
                    replaces |-> replaces, body |-> body, encrypted |-> FALSE, own |-> TRUE]
<1>1. /\ scenario' \in Messages!Scenario /\ JidsOf(scenario') = jids /\ ids \subseteq more
      /\ id \in Messages!OwnIds /\ id \in more
  BY NextIdIs DEF ServerOK
<1>2. s \in StanzaOf(more)
  BY <1>1 DEF StanzaOf, OwnStanza
<1>3. archive' = archive \/ archive' = Append(archive, s)
  BY DEF Messages!Sent
<1> HIDE DEF s, id
<1>4. Len(archive) \in Nat
  BY LenProperties DEF ServerOK
<1>5. archive \in Seq(StanzaOf(more))
  <2>1. 0 \in Nat /\ 0 <= 0
    OBVIOUS
  <2>2. Seq(StanzaOf(ids)) \subseteq Seq(StanzaOf(more))
    BY <1>1, <2>1, MoreIds
  <2>3. QED
    BY <2>2 DEF ServerOK
<1>6. /\ archive' \in Seq(StanzaOf(more)) /\ Len(archive') \in Nat
      /\ Len(archive) <= Len(archive')
  <2>1. /\ Append(archive, s) \in Seq(StanzaOf(more))
        /\ Len(Append(archive, s)) = Len(archive) + 1
    BY <1>2, <1>5, AppendToList
  <2>2. QED
    BY <1>3, <1>4, <1>5, <2>1
<1>7. stanzas \in Seq(DownOf(more, Len(archive'))) /\ events \in Seq(EventOf(more, jids))
  <2>1. PICK n \in Nat : n = Len(archive)
    BY <1>4
  <2>2. PICK o \in Nat : o = Len(archive') /\ n <= o
    BY <1>6, <2>1
  <2>3. /\ Seq(DownOf(ids, n)) \subseteq Seq(DownOf(more, o))
        /\ Seq(EventOf(ids, jids)) \subseteq Seq(EventOf(more, jids))
    BY <1>1, <2>2, MoreIds
  <2>4. QED
    BY <2>1, <2>2, <2>3 DEF ServerOK
<1>8. query \in {None} \cup 0 .. Len(archive') + 1
  BY <1>4, <1>6 DEF ServerOK
<1>9. QED
  BY <1>1, <1>6, <1>7, <1>8 DEF ServerOK, Messages!Online

\* A message is sent, shown and stored under an id that nothing else has.
LEMMA SendMessageClickedKeeps ==
  ASSUME Messages!ScenariosFit, HistoryOK, Messages!SendMessageClicked
  PROVE  /\ HistoryOK'
         /\ Messages!Selected(conversations) # None =>
              Messages!Selected(conversations)' = Messages!Selected(conversations)
<1> USE DEF HistoryOK
<1> DEFINE contact == Messages!Selected(conversations)
           id   == Head(scenario.own)
           m    == [id |-> id, body |-> 1, direction |-> "outgoing",
                    time |-> Len(archive), status |-> "pending"]
           ids  == IssuedOf(scenario)
           more == IssuedOf(scenario')
           jids == JidsOf(scenario)
<1>1. /\ scenario.own # <<>> /\ contact # None
      /\ scenario' = [scenario EXCEPT !.own = Tail(@)]
      /\ Messages!SaveMessage(m, contact)
      /\ Messages!SortConversations(Messages!AddMessage(conversations, contact, m))
      /\ Messages!Sent(m.id, contact, None, 1)
      /\ UNCHANGED <<stanzas, query, connection, events, account, decrypted, Messages!outside>>
  BY DEF Messages!SendMessageClicked
<1>2. /\ scenario' \in Messages!Scenario /\ JidsOf(scenario') = jids
      /\ scenario'.naming = scenario.naming
      /\ ids \subseteq more /\ id \in Messages!OwnIds /\ id \in more /\ id \notin ids
  BY <1>1, NextIdIs DEF ServerOK
<1>3. selected \in DOMAIN conversations /\ contact \in Messages!People
  BY <1>1, ConversationFields DEF Messages!Selected, ScreenOK, Messages!ScenariosFit,
     Messages!NoneIsApart
<1>4. account # None
  <2>1. DOMAIN <<>> = {}
    OBVIOUS
  <2>2. QED
    BY <1>3, <2>1 DEF StartOK
<1>5. Len(archive) \in Nat
  BY LenProperties DEF ServerOK
<1>6. \A t \in Messages!Traffic : t.id # id
  BY <1>2 DEF Messages!ScenariosFit
<1>7. /\ m \in MessageOf(more) /\ AsSent(m) /\ m.id = id /\ m.direction = "outgoing"
      /\ Fits(contact, m.id)
  <2>1. id \notin Incoming
    BY <1>6 DEF Incoming
  <2>2. m \in MessageOf(more) /\ AsSent(m)
    BY <1>2, <1>5, <2>1 DEF MessageOf, AsSent, Messages!Direction, Status
  <2>3. QED
    BY <1>6, <2>2 DEF Fits
<1> HIDE DEF m, contact, id
<1>8. ~IsIn(conversations, m.id)
  <2>1. \A i \in DOMAIN conversations : \A k \in DOMAIN conversations[i].messages :
          conversations[i].messages[k] \in MessageOf(ids)
    BY ConversationFields DEF ScreenOK
  <2>2. QED
    BY <1>2, <1>7, <2>1 DEF IsIn, MessageOf
<1>9. conversations \in ListOf(more) /\ rows \in Seq(RowOf(more, jids))
  <2>1. 0 \in Nat /\ 0 <= 0
    OBVIOUS
  <2>2. ListOf(ids) \subseteq ListOf(more) /\ Seq(RowOf(ids, jids)) \subseteq Seq(RowOf(more, jids))
    BY <1>2, <2>1, MoreIds
  <2>3. QED
    BY <2>2 DEF ScreenOK
<1>10. /\ conversations' \in ListOf(more) /\ OnceIn(conversations') /\ FitsIn(conversations')
       /\ Counted(conversations', unseen) /\ selected' \in {None} \cup (Nat \ {0})
       /\ rows' \in Seq(RowOf(more, jids)) /\ RowsOnce(rows')
       /\ \A e, f : Matches(conversations, rows, e, f) => Matches(conversations', rows', e, f)
       /\ Messages!Selected(conversations) # None =>
            Messages!Selected(conversations)' = Messages!Selected(conversations)
  <2>1. account \in jids /\ Messages!NoneIsApart
    BY <1>4 DEF ScreenOK, Messages!ScenariosFit
  <2>2. /\ unseen \in SUBSET (unseen \cup {m.id})
        /\ (m.direction # "incoming" => unseen \subseteq unseen)
    OBVIOUS
  <2>3. QED
    BY <1>1, <1>3, <1>7, <1>8, <1>9, <2>1, <2>2, AddedIs DEF ScreenOK
<1>11. ScreenOK'
  BY <1>1, <1>2, <1>10 DEF ScreenOK, Messages!outside
<1>12. TableOK'
  BY <1>1, <1>2, <1>4, <1>10 DEF TableOK, Messages!outside
<1>13. StartOK'
  BY <1>1, <1>4 DEF StartOK
<1>14. ServerOK'
  <2>1. Messages!Sent(id, contact, None, 1) /\ 1 \in Int
    BY <1>1, <1>7
  <2>2. QED
    BY <1>1, <1>3, <2>1, SentKeeps DEF id
<1>15. QED
  BY <1>10, <1>11, <1>12, <1>13, <1>14

\* What can be named in an edit has been given out.
LEMMA NamedIs ==
  ASSUME Messages!ScenariosFit, ServerOK, ScreenOK, NEW at \in Messages!Named
  PROVE  at \in IssuedOf(scenario)
<1> DEFINE ids == IssuedOf(scenario)
<1>1. CASE at \in {s.id : s \in scenario.traffic}
  <2>1. scenario.traffic \in SUBSET Messages!Traffic
    BY DEF ServerOK, Messages!Scenario
  <2>2. PICK s \in Messages!Traffic : s.id = at
    BY <1>1, <2>1
  <2>3. QED
    BY <2>2, TrafficIs DEF ServerOK
<1>2. CASE at \in {s.id : s \in Messages!ToSet(archive)}
  <2>1. PICK s \in StanzaOf(ids) : s.id = at
    <3>1. \A i \in DOMAIN archive : archive[i] \in StanzaOf(ids)
      BY LenProperties, ElementOfSeq DEF ServerOK
    <3>2. QED
      BY <1>2, <3>1 DEF Messages!ToSet
  <2>2. CASE s \in Messages!Traffic
    BY <2>1, <2>2, TrafficIs DEF ServerOK
  <2>3. CASE s \in OwnStanza(ids)
    BY <2>1, <2>3 DEF OwnStanza
  <2>4. QED
    BY <2>2, <2>3 DEF StanzaOf
<1>3. CASE at \in {r.message.id : r \in Messages!ToSet(rows)}
  <2>1. \A i \in DOMAIN rows : rows[i] \in RowOf(ids, JidsOf(scenario))
    BY LenProperties, ElementOfSeq DEF ScreenOK
  <2>2. PICK r \in RowOf(ids, JidsOf(scenario)) : r.message.id = at
    BY <1>3, <2>1 DEF Messages!ToSet
  <2>3. r.message \in MessageOf(ids)
    BY DEF RowOf
  <2>4. QED
    BY <2>2, <2>3 DEF MessageOf
<1>4. QED
  BY <1>1, <1>2, <1>3 DEF Messages!Named

\* A message is edited: on the screen it has another direction and status than in the
\* table, or its old body, if it is in another conversation.
LEMMA EditMessageKeeps ==
  ASSUME Messages!ScenariosFit, HistoryOK, NEW at \in Messages!Named, Messages!EditMessage(at)
  PROVE  /\ HistoryOK'
         /\ Messages!Selected(conversations) # None =>
              Messages!Selected(conversations)' = Messages!Selected(conversations)
<1> USE DEF HistoryOK
<1> DEFINE contact == Messages!Selected(conversations)
           id   == Head(scenario.own)
           ids  == IssuedOf(scenario)
           more == IssuedOf(scenario')
           jids == JidsOf(scenario)
           new  == Again(conversations, selected, at)
           table == Messages!InRows(at, "body", 2)
<1>1. /\ scenario.own # <<>> /\ contact # None
      /\ scenario' = [scenario EXCEPT !.own = Tail(@)]
      /\ conversations' = new /\ rows' = table
      /\ IF at \in Messages!Ids(Messages!ToSet(conversations[selected].messages))
         THEN edited' = edited \cup {at} /\ strayed' = strayed
         ELSE edited' = edited /\ strayed' = strayed \cup {at}
      /\ Messages!Sent(id, contact, at, 2)
      /\ UNCHANGED <<stanzas, query, connection, events, account, selected, decrypted,
                     unseen, dropped>>
  BY DEF Messages!EditMessage, Again
<1>2. /\ scenario' \in Messages!Scenario /\ JidsOf(scenario') = jids
      /\ scenario'.naming = scenario.naming
      /\ ids \subseteq more
  BY <1>1, NextIdIs DEF ServerOK
<1>3. selected \in DOMAIN conversations /\ contact \in Messages!People
  BY <1>1, ConversationFields DEF Messages!Selected, ScreenOK, Messages!ScenariosFit,
     Messages!NoneIsApart
<1>4. account # None
  <2>1. DOMAIN <<>> = {}
    OBVIOUS
  <2>2. QED
    BY <1>3, <2>1 DEF StartOK
<1>6. \A i \in DOMAIN conversations : \A k \in DOMAIN conversations[i].messages :
        conversations[i].messages[k] \in MessageOf(ids)
  BY ConversationFields DEF ScreenOK
<1>7. at \in ids
  BY NamedIs DEF ServerOK, ScreenOK
<1>8. ServerOK'
  <2>1. 2 \in Int /\ at \in ids \cup {None}
    BY <1>7
  <2>2. QED
    BY <1>1, <1>3, <2>1, SentKeeps
<1>9. Len(archive) \in Nat
  BY LenProperties DEF ServerOK
<1>10. /\ new \in ListOf(ids) /\ SameIds(new, conversations)
       /\ \A i \in DOMAIN conversations : new[i].unread = conversations[i].unread
       /\ \A i \in DOMAIN conversations : \A k \in DOMAIN conversations[i].messages :
            new[i].messages[k] = IF i = selected /\ conversations[i].messages[k].id = at
                                 THEN Edited(conversations[i].messages[k], Len(archive))
                                 ELSE conversations[i].messages[k]
  <2>1. conversations \in ListOf(ids)
    BY DEF ScreenOK
  <2>2. QED
    BY <1>3, <1>9, <2>1, AgainIs
<1>11. /\ table \in Seq(RowOf(ids, jids)) /\ RowsOnce(table) /\ DOMAIN table = DOMAIN rows
       /\ \A i \in DOMAIN rows :
            table[i].message = IF rows[i].message.id = at
                               THEN [rows[i].message EXCEPT !.body = 2] ELSE rows[i].message
  <2>1. 2 \in Int
    OBVIOUS
  <2>2. QED
    BY <2>1, InRowsBody DEF ScreenOK
<1>12. \A i \in DOMAIN rows : rows[i].message \in MessageOf(ids)
  <2>1. \A i \in DOMAIN rows : rows[i] \in RowOf(ids, jids)
    BY LenProperties, ElementOfSeq DEF ScreenOK
  <2>2. QED
    BY <2>1 DEF RowOf
<1> HIDE DEF new, table, contact, id
<1>13. OnceIn(new) /\ FitsIn(new) /\ Counted(new, unseen)
  BY <1>10, SameIdsKeep, SameIdsFit, SameIdsCounted DEF ScreenOK
<1>14. new \in ListOf(more) /\ table \in Seq(RowOf(more, jids))
  <2>1. 0 \in Nat /\ 0 <= 0
    OBVIOUS
  <2>2. ListOf(ids) \subseteq ListOf(more) /\ Seq(RowOf(ids, jids)) \subseteq Seq(RowOf(more, jids))
    BY <1>2, <2>1, MoreIds
  <2>3. QED
    BY <1>10, <1>11, <2>2
<1>15. ScreenOK'
  BY <1>1, <1>2, <1>11, <1>13, <1>14 DEF ScreenOK
<1>16. ASSUME NEW j \in DOMAIN conversations, NEW k \in DOMAIN conversations[j].messages,
              NEW i \in DOMAIN rows,
              Same(conversations[j].messages[k], rows[i].message, edited, strayed)
       PROVE  Same(new[j].messages[k], table[i].message, edited', strayed')
  <2>1. PICK a \in MessageOf(ids) : a = conversations[j].messages[k]
    BY <1>6
  <2>2. PICK r \in MessageOf(ids) : r = rows[i].message
    BY <1>12
  <2>3. /\ a.id = r.id /\ (a.id \in strayed \/ a.body = r.body)
        /\ a.id \in edited \/ (a.direction = r.direction /\ a.status = r.status)
    BY <1>16, <2>1, <2>2 DEF Same
  <2>4. CASE a.id = at /\ j = selected
    <3>1. PICK now \in Int : now = Len(archive)
      BY <1>9
    <3>2. new[j].messages[k] =
            [a EXCEPT !.body = 2, !.direction = "outgoing", !.time = now, !.status = "sent"]
      BY <1>10, <2>1, <2>4, <3>1 DEF Edited
    <3>3. table[i].message = [r EXCEPT !.body = 2]
      BY <1>11, <2>2, <2>3, <2>4
    <3>4. new[j].messages[k].id = a.id /\ new[j].messages[k].body = 2
      BY <3>2 DEF MessageOf
    <3>5. table[i].message.id = r.id /\ table[i].message.body = 2
      BY <3>3 DEF MessageOf
    <3>6. at \in Messages!Ids(Messages!ToSet(conversations[selected].messages))
      BY <2>1, <2>4 DEF Messages!Ids, Messages!ToSet
    <3>7. a.id \in edited'
      BY <1>1, <2>4, <3>6
    <3>8. QED
      BY <2>3, <3>4, <3>5, <3>7 DEF Same
  <2>7. CASE a.id = at /\ j # selected
    <3>1. new[j].messages[k] = a
      BY <1>10, <2>1, <2>7
    <3>2. table[i].message = [r EXCEPT !.body = 2]
      BY <1>11, <2>2, <2>3, <2>7
    <3>3. /\ table[i].message.id = r.id /\ table[i].message.direction = r.direction
          /\ table[i].message.status = r.status
      BY <3>2 DEF MessageOf
    <3>4. at \notin Messages!Ids(Messages!ToSet(conversations[selected].messages))
      BY <1>3, <2>1, <2>7 DEF Messages!Ids, Messages!ToSet, ScreenOK, OnceIn
    <3>5. a.id \in strayed' /\ edited' = edited
      BY <1>1, <2>7, <3>4
    <3>6. QED
      BY <2>3, <3>1, <3>3, <3>5 DEF Same
  <2>5. CASE a.id # at
    <3>1. new[j].messages[k] = a /\ table[i].message = r
      BY <1>10, <1>11, <2>1, <2>2, <2>3, <2>5
    <3>2. QED
      BY <1>1, <2>3, <3>1 DEF Same
  <2>6. QED
    BY <2>4, <2>5, <2>7
<1>17. Matches(conversations, rows, edited, strayed) => Matches(new, table, edited', strayed')
  <2>1. SameIds(new, conversations) /\ DOMAIN table = DOMAIN rows
    BY <1>10, <1>11
  <2>2. QED
    BY <1>16, <2>1, MatchesChanged
<1>18. TableOK'
  BY <1>1, <1>2, <1>4, <1>17 DEF TableOK
<1>19. StartOK'
  BY <1>1, <1>4 DEF StartOK
<1>20. Messages!Selected(conversations)' = Messages!Selected(conversations)
  BY <1>1, <1>10, SelectedStays DEF ScreenOK, Messages!ScenariosFit
<1>21. QED
  BY <1>8, <1>15, <1>18, <1>19, <1>20

\* The interface handles an event; unless it is a login or a disconnection, who is
\* selected stays so.
LEMMA HandleEventKeeps ==
  ASSUME Messages!ScenariosFit, HistoryOK, Messages!HandleEvent
  PROVE  /\ HistoryOK'
         /\ Head(events).type \notin {"Connected", "Disconnected"}
              /\ Messages!Selected(conversations) # None
              => Messages!Selected(conversations)' = Messages!Selected(conversations)
<1> USE DEF HistoryOK
<1> DEFINE ids  == IssuedOf(scenario)
           jids == JidsOf(scenario)
           e    == Head(events)
<1>1. /\ events # <<>> /\ events' = Tail(events)
      /\ e.type # "Connected" => UNCHANGED <<edited, strayed>>
      /\ UNCHANGED <<archive, stanzas, query, connection, decrypted, scenario, dropped>>
  BY DEF Messages!HandleEvent
<1>2. e \in EventOf(ids, jids) /\ events' \in Seq(EventOf(ids, jids))
  BY <1>1, HeadTailProperties DEF ServerOK
<1>3. ServerOK'
  BY <1>1, <1>2 DEF ServerOK, Messages!Online
<1>4. account = None => e.type = "Connected"
  BY <1>1 DEF StartOK
<1>5. /\ ScreenOK' /\ TableOK' /\ account' # None
      /\ e.type \notin {"Connected", "Disconnected"} /\ Messages!Selected(conversations) # None
           => Messages!Selected(conversations)' = Messages!Selected(conversations)
  <2>1. CASE e.type = "Connected"
    <3>1. Messages!OnConnected(e.jid) /\ e.jid \in jids
      BY <1>2, <2>1 DEF Messages!HandleEvent, EventOf, Reception, Correction
    <3>2. QED
      BY <1>1, <2>1, <3>1, OnConnectedKeeps
  <2>2. CASE e.type = "Disconnected"
    <3>1. Messages!OnDisconnected /\ account # None
      BY <1>4, <2>2 DEF Messages!HandleEvent
    <3>2. ScreenOK'
      BY <1>1, <3>1 DEF Messages!OnDisconnected, ScreenOK
    <3>3. TableOK' /\ account' # None
      BY <1>1, <2>2, <3>1 DEF Messages!OnDisconnected, TableOK
    <3>4. QED
      BY <2>2, <3>2, <3>3
  <2>3. CASE e.type = "RosterItem"
    <3>1. Messages!OnRosterItem(e.contact) /\ e.contact \in Messages!People /\ account # None
      BY <1>2, <1>4, <2>3 DEF Messages!HandleEvent, EventOf, Reception, Correction
    <3>2. QED
      BY <1>1, <2>3, <3>1, OnRosterItemKeeps
  <2>4. CASE e.type = "MessageReceived"
    <3>1. Messages!OnMessageReceived(e.contact, e.message) /\ e \in Reception(ids) /\ account # None
      BY <1>2, <1>4, <2>4 DEF Messages!HandleEvent, EventOf, Reception, Correction
    <3>2. QED
      BY <1>1, <2>4, <3>1, OnMessageReceivedKeeps
  <2>5. CASE e.type = "MessageCorrected"
    <3>1. /\ Messages!OnMessageCorrected(e.contact, e.target, e.body) /\ e \in Correction
          /\ account # None
      BY <1>2, <1>4, <2>5 DEF Messages!HandleEvent, EventOf, Reception, Correction
    <3>2. QED
      BY <1>1, <2>5, <3>1, OnMessageCorrectedKeeps
  <2>6. CASE e.type = "MessageDelivered"
    <3>1. Messages!OnMessageDelivered(e.id) /\ account # None
      BY <1>4, <2>6 DEF Messages!HandleEvent
    <3>2. QED
      BY <1>1, <2>6, <3>1, OnMessageDeliveredKeeps
  <2>7. QED
    BY <1>2, <2>1, <2>2, <2>3, <2>4, <2>5, <2>6 DEF EventOf, Reception, Correction
<1>6. StartOK'
  BY <1>5 DEF StartOK
<1>7. QED
  BY <1>3, <1>5, <1>6

-----------------------------------------------------------------------------
\* The theorems

\* Nothing is there yet.
LEMMA InitHolds ==
  ASSUME Messages!ScenariosFit, Messages!Init
  PROVE  HistoryOK
<1>1. scenario \in Messages!Scenario
  BY DEF Messages!Init, Messages!ScenariosFit
<1>2. DOMAIN <<>> = {} /\ Len(<<>>) = 0
  OBVIOUS
<1>3. ServerOK
  <2>1. /\ <<>> \in Seq(StanzaOf(IssuedOf(scenario)))
        /\ <<>> \in Seq(DownOf(IssuedOf(scenario), Len(<<>>)))
        /\ <<>> \in Seq(EventOf(IssuedOf(scenario), JidsOf(scenario)))
    BY EmptySeq
  <2>2. QED
    BY <1>1, <2>1 DEF ServerOK, Messages!Init
<1>4. ScreenOK
  <2>1. /\ <<>> \in ListOf(IssuedOf(scenario))
        /\ <<>> \in Seq(RowOf(IssuedOf(scenario), JidsOf(scenario)))
    BY EmptySeq DEF ListOf
  <2>2. OnceIn(<<>>) /\ FitsIn(<<>>) /\ Counted(<<>>, {}) /\ RowsOnce(<<>>)
    BY <1>2 DEF OnceIn, FitsIn, Counted, RowsOnce
  <2>3. QED
    BY <2>1, <2>2 DEF ScreenOK, Messages!Init
<1>5. StartOK /\ TableOK
  BY DEF StartOK, TableOK, Messages!Init, Messages!Online
<1>6. QED
  BY <1>3, <1>4, <1>5 DEF HistoryOK

\* Each step keeps the invariant.
LEMMA StepKeeps ==
  ASSUME Messages!ScenariosFit, HistoryOK, [Messages!Next]_(Messages!vars)
  PROVE  HistoryOK'
<1>1. ASSUME NEW s \in scenario.traffic, Messages!Arrive(s) PROVE HistoryOK'
  BY <1>1, ArriveKeeps
<1>2. ASSUME NEW i \in DOMAIN archive, Messages!Receipt(i) PROVE HistoryOK'
  BY <1>2, ReceiptKeeps
<1>3. CASE Messages!ServePage
  BY <1>3, ServePageKeeps
<1>4. CASE Messages!Login
  BY <1>4, LoginKeeps
<1>5. CASE Messages!StreamLost
  BY <1>5, StreamLostKeeps
<1>6. CASE Messages!HandleStanza
  BY <1>6, HandleStanzaKeeps
<1>7. CASE Messages!HandleEvent
  BY <1>7, HandleEventKeeps
<1>8. CASE Messages!Quit
  BY <1>8, QuitKeeps
<1>9. ASSUME NEW i \in DOMAIN conversations, Messages!ConversationSelected(i) PROVE HistoryOK'
  BY <1>9, ConversationSelectedKeeps
<1>10. CASE Messages!SendMessageClicked
  BY <1>10, SendMessageClickedKeeps
<1>11. ASSUME NEW id \in Messages!Named, Messages!EditMessage(id) PROVE HistoryOK'
  BY <1>11, EditMessageKeeps
<1>12. CASE UNCHANGED Messages!vars
  BY <1>12 DEF Messages!vars, Messages!uiVars, Messages!outside, HistoryOK, ServerOK, ScreenOK,
     StartOK, TableOK, Messages!Online
<1>13. QED
  BY <1>1, <1>2, <1>3, <1>4, <1>5, <1>6, <1>7, <1>8, <1>9, <1>10, <1>11, <1>12 DEF Messages!Next

-----------------------------------------------------------------------------
\* What the connection shows

\* A step of the connection is one of the messages, or leaves them as they are.
LEMMA ConnectionSteps ==
  ASSUME [ConnectionNext]_connectionVars
  PROVE  [Messages!Next]_(Messages!vars)
<1>1. CASE UNCHANGED connectionVars
  BY <1>1 DEF connectionVars, messageVars, Messages!vars, Messages!uiVars, Messages!outside
<1>2. CASE ConnectionNext
  BY <1>2 DEF ConnectionNext, messageVars, Messages!vars, Messages!uiVars, Messages!outside
<1>3. QED
  BY <1>1, <1>2

\* The invariant holds of every connection, for any roster, page size and scenarios.
THEOREM HistoryCorrect == ConnectionSpec => []HistoryOK
<1>1. ConnectionInit => HistoryOK
  BY MessagesFit, InitHolds DEF ConnectionInit
<1>2. HistoryOK /\ [ConnectionNext]_connectionVars => HistoryOK'
  BY MessagesFit, ConnectionSteps, StepKeeps
<1>3. QED
  BY <1>1, <1>2, PTL DEF ConnectionSpec

\* ChatHistory.ShownOnce: a message is shown once, and a contact has one conversation.
THEOREM MessagesShownOnce == ConnectionSpec => []ShownOnce
<1>1. HistoryOK => ShownOnce
  <2> SUFFICES ASSUME HistoryOK PROVE ShownOnce
    OBVIOUS
  <2>1. OnceIn(conversations)
    BY DEF HistoryOK, ScreenOK
  <2>2. \A c \in Messages!ToSet(conversations) :
          Messages!IsInjective([i \in DOMAIN c.messages |-> c.messages[i].id])
    BY <2>1 DEF OnceIn, Messages!ToSet, Messages!IsInjective
  <2>3. \A i, j \in DOMAIN conversations : i # j =>
          /\ conversations[i].contact # conversations[j].contact
          /\ Messages!Ids(Messages!ToSet(conversations[i].messages))
               \cap Messages!Ids(Messages!ToSet(conversations[j].messages)) = {}
    BY <2>1 DEF OnceIn, Messages!Ids, Messages!ToSet
  <2>4. QED
    BY <2>2, <2>3 DEF ShownOnce, Messages!ShownOnce
<1>2. QED
  BY <1>1, HistoryCorrect, PTL

\* ChatHistory.NoneOverlooked: what was not on the screen since it came is counted.
THEOREM UnseenAreCounted == ConnectionSpec => []NoneOverlooked
<1>1. HistoryOK => NoneOverlooked
  <2> SUFFICES ASSUME HistoryOK, NEW i \in DOMAIN conversations
               PROVE  conversations[i].unread >=
                        Cardinality(unseen \cap
                                      Messages!Ids(Messages!ToSet(conversations[i].messages)))
    BY SameCardinality DEF NoneOverlooked, Messages!NoneOverlooked, Messages!ToSet
  <2>1. Messages!Ids(Messages!ToSet(conversations[i].messages)) = IdsOf(conversations[i])
    BY DEF Messages!Ids, Messages!ToSet, IdsOf
  <2>2. QED
    BY <2>1 DEF HistoryOK, ScreenOK, Counted
<1>2. QED
  BY <1>1, HistoryCorrect, PTL

\* ChatHistory.ScreenIsTable: the screen shows what the table has, corrections and
\* deliveries included, as long as each login has the same address; except what an edit
\* has changed on one side since the login.
THEOREM ScreenShowsTable == ConnectionSpec => []ScreenIsTable
<1>1. HistoryOK => ScreenIsTable
  <2> SUFFICES ASSUME HistoryOK, scenario.naming = "given", account # None
               PROVE  {Messages!Text(m) : m \in Messages!Shown} =
                      {Messages!Text(r.message) : r \in Messages!ToSet(rows)}
    BY DEF ScreenIsTable, Messages!ScreenIsTable
  <2>1. Matches(conversations, rows, edited, strayed)
    BY DEF HistoryOK, TableOK
  <2>2. \A m, n : Same(m, n, edited, strayed) => Messages!Text(m) = Messages!Text(n)
    BY DEF Same, Messages!Text
  <2>3. ASSUME NEW m \in Messages!Shown
        PROVE \E r \in Messages!ToSet(rows) : Messages!Text(m) = Messages!Text(r.message)
    <3>1. PICK j \in DOMAIN conversations :
            \E k \in DOMAIN conversations[j].messages : m = conversations[j].messages[k]
      BY DEF Messages!Shown, Messages!ToSet
    <3>2. PICK i \in DOMAIN rows : Same(m, rows[i].message, edited, strayed)
      BY <2>1, <3>1 DEF Matches
    <3>3. QED
      BY <2>2, <3>2 DEF Messages!ToSet
  <2>4. ASSUME NEW r \in Messages!ToSet(rows)
        PROVE \E m \in Messages!Shown : Messages!Text(m) = Messages!Text(r.message)
    <3>1. PICK i \in DOMAIN rows : r = rows[i]
      BY DEF Messages!ToSet
    <3>2. PICK j \in DOMAIN conversations : \E k \in DOMAIN conversations[j].messages :
            Same(conversations[j].messages[k], r.message, edited, strayed)
      BY <2>1, <3>1 DEF Matches
    <3>3. PICK k \in DOMAIN conversations[j].messages :
            Same(conversations[j].messages[k], r.message, edited, strayed)
      BY <3>2
    <3>4. conversations[j].messages[k] \in Messages!Shown
      BY DEF Messages!Shown, Messages!ToSet
    <3>5. QED
      BY <2>2, <3>3, <3>4
  <2>5. QED
    BY <2>3, <2>4
<1>2. QED
  BY <1>1, HistoryCorrect, PTL

\* ChatHistory.SelectionKept: what comes in does not change whom the user writes to.
THEOREM SelectionStays == ConnectionSpec => SelectionKept
<1> DEFINE Kept ==
      \/ selected = None
      \/ selected > Len(conversations)
      \/ \E i \in DOMAIN conversations : Messages!ConversationSelected(i)
      \/ Messages!Quit
      \/ Messages!HandleEvent /\ Head(events).type \in {"Connected", "Disconnected"}
      \/ Messages!Selected(conversations) = Messages!Selected(conversations)'
<1>1. HistoryOK /\ [ConnectionNext]_connectionVars => [Kept]_(Messages!vars)
  <2> SUFFICES ASSUME HistoryOK, Messages!Next, selected # None,
                      ~(selected > Len(conversations)), ~Messages!Quit,
                      ~\E i \in DOMAIN conversations : Messages!ConversationSelected(i),
                      ~(Messages!HandleEvent /\ Head(events).type \in {"Connected", "Disconnected"})
               PROVE  Messages!Selected(conversations) = Messages!Selected(conversations)'
    BY ConnectionSteps
  <2>1. Messages!Selected(conversations) # None
    <3>1. selected \in DOMAIN conversations
      BY ConversationFields DEF HistoryOK, ScreenOK
    <3>2. QED
      BY <3>1, MessagesFit, ConversationFields
         DEF Messages!Selected, HistoryOK, ScreenOK, Messages!ScenariosFit, Messages!NoneIsApart
  <2>2. CASE Messages!HandleEvent
    BY <2>1, <2>2, MessagesFit, HandleEventKeeps
  <2>3. CASE Messages!SendMessageClicked
    BY <2>1, <2>3, MessagesFit, SendMessageClickedKeeps
  <2>4. ASSUME NEW id \in Messages!Named, Messages!EditMessage(id)
        PROVE Messages!Selected(conversations) = Messages!Selected(conversations)'
    BY <2>1, <2>4, MessagesFit, EditMessageKeeps
  <2>5. CASE \/ \E s \in scenario.traffic : Messages!Arrive(s)
             \/ \E i \in DOMAIN archive : Messages!Receipt(i)
             \/ Messages!ServePage \/ Messages!Login \/ Messages!StreamLost \/ Messages!HandleStanza
    <3>1. UNCHANGED <<conversations, selected>>
      BY <2>5 DEF Messages!Arrive, Messages!Receipt, Messages!ServePage, Messages!Login,
         Messages!StreamLost, Messages!HandleStanza, Messages!uiVars
    <3>2. QED
      BY <3>1 DEF Messages!Selected
  <2>6. QED
    BY <2>2, <2>3, <2>4, <2>5 DEF Messages!Next
<1>2. SelectionKept <=> [][Kept]_(Messages!vars)
  BY DEF SelectionKept, Messages!SelectionKept
<1>3. QED
  BY <1>1, <1>2, HistoryCorrect, PTL DEF ConnectionSpec
==============================================================================
