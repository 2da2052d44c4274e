--------------------------- MODULE OmemoStore_proofs ---------------------------
(***************************************************************************)
(* The OMEMO state in memory and on disk, for every set of peers and       *)
(* devices and every number of messages, chains, restarts and faults:      *)
(* types, that a message key is used again only after an unsaved send was  *)
(* dropped, that the worker keeps the account it first saved, that no      *)
(* single fault mixes the sessions of two accounts, and that without       *)
(* faults a save is atomic.  Each invariant says what is known at each     *)
(* place of a load or of a save; the next ones rest on the ones before.    *)
(***************************************************************************)
EXTENDS OmemoStore, SequenceTheorems, FiniteSetTheorems, TLAPS

-----------------------------------------------------------------------------
(***************************************************************************)
(* The places of OmemoStore's programs.  A thread's program is a sequence  *)
(* of statements; every sequence a thread can have is one of a finite      *)
(* number of places of a load or of a save, before one of a few ends.      *)
(* From here the proofs take, for each place, which statement comes first, *)
(* which place follows when it succeeds and which when it fails, and that  *)
(* no two places are alike.                                                *)
(***************************************************************************)

\* Programs

Op == {"LoadKey", "DeleteKey", "InsertKey", "LoadAccount", "DeleteAccount", "InsertAccount",
       "LoadSessions", "LoadDevices", "DeleteSessions", "InsertSession", "DeleteDevices",
       "InsertDevice", "MakeAccount", "Install", "Close", "Saved", "Drop"}

Unit == {"load", "key", "generate", "regenerate", "save", "install", "drop", "close"}

Statement == [op : Op, unit : Unit]

\* A program that begins with a statement.
C(op, unit, k) == <<Stmt(op, unit)>> \o k

\* Where a thread is: what is left to execute, from each statement on.  A save
\* ends with e, a load with k.
AtSaved(e)          == C("Saved", "save", e)
AtInsertDevice(e)   == C("InsertDevice", "save", AtSaved(e))
AtDeleteDevices(e)  == C("DeleteDevices", "save", AtInsertDevice(e))
AtInsertSession(e)  == C("InsertSession", "save", AtDeleteDevices(e))
AtDeleteSessions(e) == C("DeleteSessions", "save", AtInsertSession(e))
AtInsertAccount(e)  == C("InsertAccount", "save", AtDeleteSessions(e))
AtDeleteAccount(e)  == C("DeleteAccount", "save", AtInsertAccount(e))

AtLoadDevices(k)    == C("LoadDevices", "load", k)
AtLoadSessions(k)   == C("LoadSessions", "load", AtLoadDevices(k))

AtInsertAccount2(k) == C("InsertAccount", "regenerate", k)
AtDeleteAccount2(k) == C("DeleteAccount", "regenerate", AtInsertAccount2(k))
AtInsertAccount1(k) == C("InsertAccount", "generate", AtDeleteAccount2(k))
AtDeleteAccount1(k) == C("DeleteAccount", "generate", AtInsertAccount1(k))
AtMakeAccount(k)    == C("MakeAccount", "load", AtDeleteAccount1(k))
AtInsertKey2(k)     == C("InsertKey", "key", AtMakeAccount(k))
AtDeleteKey2(k)     == C("DeleteKey", "key", AtInsertKey2(k))
AtLoadKey2(k)       == C("LoadKey", "load", AtMakeAccount(k))

AtLoadAccount(k)    == C("LoadAccount", "load", k)
AtInsertKey(k)      == C("InsertKey", "key", AtLoadAccount(k))
AtDeleteKey(k)      == C("DeleteKey", "key", AtInsertKey(k))
AtLoadKey(k)        == C("LoadKey", "load", AtLoadAccount(k))

Programs == Seq(Statement)

\* The ops and units of the statements are among Op and Unit.
LEMMA Named ==
  /\ "LoadKey" \in Op /\ "DeleteKey" \in Op /\ "InsertKey" \in Op /\ "LoadAccount" \in Op
  /\ "DeleteAccount" \in Op /\ "InsertAccount" \in Op /\ "LoadSessions" \in Op
  /\ "LoadDevices" \in Op /\ "DeleteSessions" \in Op /\ "InsertSession" \in Op
  /\ "DeleteDevices" \in Op /\ "InsertDevice" \in Op /\ "MakeAccount" \in Op
  /\ "Install" \in Op /\ "Close" \in Op /\ "Saved" \in Op /\ "Drop" \in Op
  /\ "load" \in Unit /\ "key" \in Unit /\ "generate" \in Unit /\ "regenerate" \in Unit
  /\ "save" \in Unit /\ "install" \in Unit /\ "drop" \in Unit /\ "close" \in Unit
BY DEF Op, Unit

\* What a statement is made of.
LEMMA StmtFacts ==
  \A op \in Op, unit \in Unit : Stmt(op, unit) \in Statement /\ Stmt(op, unit).op = op /\ Stmt(op, unit).unit = unit
BY DEF Stmt, Statement

\* A program that begins with a statement is one, and is followed by the rest.
LEMMA ConsFacts ==
  ASSUME NEW op \in Op, NEW unit \in Unit, NEW k \in Programs
  PROVE  /\ C(op, unit, k) \in Programs
         /\ C(op, unit, k) # <<>>
         /\ Head(C(op, unit, k)) = Stmt(op, unit)
         /\ Tail(C(op, unit, k)) = k
         /\ Len(C(op, unit, k)) = Len(k) + 1
         /\ C(op, unit, k)[1] = Stmt(op, unit)
         /\ \A i \in 1 .. Len(k) : C(op, unit, k)[i + 1] = k[i]
<1> DEFINE c == C(op, unit, k)
           h == <<Stmt(op, unit)>>
<1>1. h \in Programs /\ Len(h) = 1 /\ h[1] = Stmt(op, unit)
  BY StmtFacts DEF Programs
<1>2. c \in Programs /\ Len(c) = 1 + Len(k) /\ \A i \in 1 .. 1 + Len(k) : c[i] = IF i <= 1 THEN h[i] ELSE k[i - 1]
  BY <1>1, ConcatProperties DEF Programs, C
<1>3. Len(k) \in Nat
  BY LenProperties DEF Programs
<1> HIDE DEF c, h
<1>4. c # <<>>
  <2>1. Len(c) # 0
    BY <1>2, <1>3
  <2>2. Len(<<>>) = 0
    OBVIOUS
  <2>3. QED
    BY <2>1, <2>2
<1>5. c[1] = Stmt(op, unit) /\ \A i \in 1 .. Len(k) : c[i + 1] = k[i]
  <2>1. c[1] = Stmt(op, unit)
    <3>1. 1 \in 1 .. 1 + Len(k) /\ 1 <= 1
      BY <1>3
    <3>2. c[1] = h[1]
      BY <1>2, <3>1
    <3>3. QED
      BY <1>1, <3>2
  <2>2. ASSUME NEW i \in 1 .. Len(k) PROVE c[i + 1] = k[i]
    <3>1. i + 1 \in 1 .. 1 + Len(k) /\ ~(i + 1 <= 1) /\ (i + 1) - 1 = i
      BY <1>3
    <3>2. QED
      BY <1>2, <3>1
  <2>3. QED
    BY <2>1, <2>2
<1>6. Head(c) = Stmt(op, unit)
  <2>1. Head(c) = c[1]
    OBVIOUS
  <2>2. QED
    BY <1>5, <2>1
<1>7. Tail(c) \in Programs /\ Len(Tail(c)) = Len(c) - 1 /\ \A i \in 1 .. Len(Tail(c)) : Tail(c)[i] = c[i + 1]
  BY <1>2, <1>4, HeadTailProperties DEF Programs
<1>8. Len(Tail(c)) = Len(k) /\ \A i \in 1 .. Len(Tail(c)) : Tail(c)[i] = k[i]
  BY <1>2, <1>3, <1>5, <1>7
<1>9. Tail(c) = k
  BY <1>7, <1>8, SeqEqual DEF Programs
<1>10. c \in Programs /\ Len(c) = Len(k) + 1
  BY <1>2, <1>3
<1>11. QED
  BY <1>4, <1>5, <1>6, <1>9, <1>10 DEF c

\* One statement before a program that is known.
LEMMA Prefix ==
  ASSUME NEW op \in Op, NEW unit \in Unit, NEW s \in Programs, NEW k \in Programs
  PROVE  C(op, unit, s) \o k = C(op, unit, s \o k)
BY StmtFacts, ConcatAssociative DEF Programs, C

\* The prefix that is one longer has one element more.
LEMMA PrefixLast ==
  ASSUME NEW op \in Op, NEW unit \in Unit, NEW k \in Programs
  PROVE  C(op, unit, <<>>) \o k = C(op, unit, k)
<1>1. <<>> \in Programs /\ <<>> \o k = k
  BY ConcatEmptySeq, EmptySeq DEF Programs
<1>2. QED
  <2>1. C(op, unit, <<>>) \o k = C(op, unit, <<>> \o k)
    BY <1>1, Prefix
  <2>2. QED
    BY <1>1, <2>1

\* The first m statements of s are of a unit, the rest is k and is not.
Front(s, unit, m, k) ==
  /\ s \in Programs /\ k \in Programs /\ m \in Nat
  /\ Len(s) = m + Len(k)
  /\ \A i \in 1 .. m : s[i].unit = unit
  /\ \A i \in 1 .. Len(k) : s[m + i] = k[i] /\ k[i].unit # unit

\* A statement of a unit before a program makes its front one longer.
LEMMA FrontGrows ==
  ASSUME NEW op \in Op, NEW unit \in Unit, NEW s, NEW m, NEW k, Front(s, unit, m, k)
  PROVE  Front(C(op, unit, s), unit, m + 1, k)
<1> DEFINE c == C(op, unit, s)
<1>1. s \in Programs /\ Len(s) \in Nat /\ m \in Nat /\ k \in Programs /\ Len(k) \in Nat
  BY LenProperties DEF Front, Programs
<1>2. c \in Programs /\ Len(c) = Len(s) + 1 /\ (\A i \in 1 .. Len(s) : c[i + 1] = s[i]) /\ c[1].unit = unit
  <2>1. c[1] = Stmt(op, unit)
    BY <1>1, ConsFacts
  <2>2. QED
    <3>1. c[1].unit = unit
      BY <2>1 DEF Stmt
    <3>2. QED
      BY <1>1, <3>1, ConsFacts
<1> HIDE DEF c
<1>3. ASSUME NEW i \in 1 .. m + 1 PROVE c[i].unit = unit
  <2>1. CASE i = 1
    BY <1>2, <2>1
  <2>2. CASE i # 1
    <3>1. i - 1 \in 1 .. m /\ i - 1 \in 1 .. Len(s) /\ (i - 1) + 1 = i
      BY <1>1, <2>2 DEF Front
    <3>2. QED
      <4>1. c[i] = s[i - 1]
        BY <1>2, <3>1
      <4>2. QED
        BY <3>1, <4>1 DEF Front
  <2>3. QED
    BY <2>1, <2>2
<1>4. ASSUME NEW i \in 1 .. Len(k) PROVE c[(m + 1) + i] = k[i] /\ k[i].unit # unit
  <2>1. m + i \in 1 .. Len(s) /\ (m + i) + 1 = (m + 1) + i
    BY <1>1 DEF Front
  <2>2. QED
    BY <1>2, <2>1 DEF Front
<1>5. QED
  BY <1>1, <1>2, <1>3, <1>4 DEF Front, c

\* No statement of a program is of a unit.
Without(k, unit) == k \in Programs /\ \A i \in 1 .. Len(k) : k[i].unit # unit

\* A statement of another unit before a program adds nothing of the unit.
LEMMA WithoutGrows ==
  ASSUME NEW op \in Op, NEW u \in Unit, NEW unit \in Unit, u # unit, NEW k, Without(k, unit)
  PROVE  Without(C(op, u, k), unit)
<1> DEFINE c == C(op, u, k)
<1>1. k \in Programs /\ Len(k) \in Nat
  BY LenProperties DEF Without, Programs
<1>2. c \in Programs /\ Len(c) = Len(k) + 1 /\ (\A i \in 1 .. Len(k) : c[i + 1] = k[i]) /\ c[1].unit = u
  <2>1. c[1] = Stmt(op, u)
    BY <1>1, ConsFacts
  <2>2. QED
    <3>1. c[1].unit = u
      BY <2>1 DEF Stmt
    <3>2. QED
      BY <1>1, <3>1, ConsFacts
<1> HIDE DEF c
<1>3. ASSUME NEW i \in 1 .. Len(c), i # 1 PROVE c[i].unit # unit
  <2>1. i - 1 \in 1 .. Len(k) /\ (i - 1) + 1 = i
    BY <1>1, <1>2, <1>3
  <2>2. QED
    BY <1>2, <2>1 DEF Without
<1>4. QED
  BY <1>2, <1>3 DEF Without, c

\* A program without statements of a unit has an empty front of it.
LEMMA FrontEmpty == ASSUME NEW unit, NEW k, Without(k, unit) PROVE Front(k, unit, 0, k)
BY LenProperties DEF Without, Front, Programs

\* After an error in the unit k is left.
LEMMA FrontCut ==
  ASSUME NEW t, NEW unit, NEW m, NEW k, Front(program[t], unit, m, k), m > 0, Head(program[t]).unit = unit
  PROVE  AfterError(t) = k
<1> DEFINE s == program[t]
           left == {i \in DOMAIN s : s[i].unit = Head(s).unit}
<1>1. s \in Programs /\ m \in Nat /\ k \in Programs /\ Len(k) \in Nat /\ Len(s) = m + Len(k) /\ DOMAIN s = 1 .. Len(s)
  BY LenProperties DEF Front, Programs
<1>2. \A i \in 1 .. m : s[i].unit = unit
  BY DEF Front
<1>3. ASSUME NEW i \in 1 .. Len(s), i \notin 1 .. m PROVE s[i].unit # unit
  <2>1. i - m \in 1 .. Len(k) /\ m + (i - m) = i
    BY <1>1, <1>3
  <2>2. QED
    BY <2>1 DEF Front
<1>4. left = 1 .. m
  BY <1>1, <1>2, <1>3
<1>5. Cardinality(left) = m
  <2>1. Cardinality(1 .. m) = IF 1 > m THEN 0 ELSE m - 1 + 1
    BY <1>1, FS_Interval
  <2>2. QED
    <3>1. (IF 1 > m THEN 0 ELSE m - 1 + 1) = m
      BY <1>1
    <3>2. QED
      BY <1>4, <2>1, <3>1
<1>6. AfterError(t) = SubSeq(s, m + 1, Len(s))
  BY <1>5 DEF AfterError
<1> DEFINE r == SubSeq(s, m + 1, Len(s))
<1>7. \A i \in (m + 1) .. Len(s) : s[i] \in Statement
  BY <1>1, ElementOfSeq DEF Programs
<1>8. r \in Programs /\ Len(r) = (IF m + 1 <= Len(s) THEN Len(s) - (m + 1) + 1 ELSE 0)
      /\ \A i \in 1 .. Len(s) - (m + 1) + 1 : r[i] = s[(m + 1) + i - 1]
  <2> DEFINE a == m + 1
             b == Len(s)
  <2>1. a \in Int /\ b \in Int
    BY <1>1
  <2>2. \A i \in a .. b : s[i] \in Statement
    BY <1>7
  <2> HIDE DEF a, b
  <2>3. /\ SubSeq(s, a, b) \in Seq(Statement)
        /\ Len(SubSeq(s, a, b)) = IF a <= b THEN b - a + 1 ELSE 0
        /\ \A i \in 1 .. b - a + 1 : SubSeq(s, a, b)[i] = s[a + i - 1]
    BY <2>1, <2>2, SubSeqProperties
  <2>4. QED
    BY <2>3 DEF a, b, Programs
<1> HIDE DEF r
<1>9. Len(r) = Len(k)
  BY <1>1, <1>8
<1>10. ASSUME NEW i \in 1 .. Len(r) PROVE r[i] = k[i]
  <2>1. i \in 1 .. Len(s) - (m + 1) + 1 /\ (m + 1) + i - 1 = m + i
    BY <1>1, <1>9
  <2>2. QED
    BY <1>8, <1>9, <2>1 DEF Front
<1>11. r = k
  BY <1>1, <1>8, <1>9, <1>10, SeqEqual DEF Programs
<1>12. QED
  BY <1>6, <1>11 DEF r

\* The statements of a unit that are left come before k.
Left(s, unit, k) == \E m \in Nat : m > 0 /\ Front(s, unit, m, k)

\* What an error of the first statement leaves, where only that one is of the unit.
LEMMA LeftBegins ==
  ASSUME NEW op \in Op, NEW unit \in Unit, NEW k, Without(k, unit)
  PROVE  Left(C(op, unit, k), unit, k)
<1>1. Front(C(op, unit, k), unit, 0 + 1, k)
  BY FrontEmpty, FrontGrows
<1>2. QED
  BY <1>1 DEF Left

\* What it leaves, where more statements of the unit follow.
LEMMA LeftGrows ==
  ASSUME NEW op \in Op, NEW unit \in Unit, NEW s, NEW k, Left(s, unit, k)
  PROVE  Left(C(op, unit, s), unit, k)
<1>1. PICK m \in Nat : m > 0 /\ Front(s, unit, m, k)
  BY DEF Left
<1>2. Front(C(op, unit, s), unit, m + 1, k)
  BY <1>1, FrontGrows
<1>3. QED
  BY <1>1, <1>2 DEF Left

\* AfterError leaves what follows the unit.
LEMMA LeftCut ==
  ASSUME NEW t, NEW unit, NEW k, Left(program[t], unit, k), Head(program[t]).unit = unit
  PROVE  AfterError(t) = k
BY FrontCut DEF Left

-----------------------------------------------------------------------------
\* Places

Installing == C("Install", "install", <<>>)
Dropping   == C("Drop", "drop", <<>>)
Closing    == C("Close", "close", <<>>)

\* How the program of a thread ends.
Ends(t) == IF t = "worker" THEN {<<>>, Installing, Dropping} ELSE {<<>>, Closing}

LoadPlace == {"LoadKey", "DeleteKey", "InsertKey", "LoadAccount", "LoadKey2", "DeleteKey2",
              "InsertKey2", "MakeAccount", "DeleteAccount1", "InsertAccount1",
              "DeleteAccount2", "InsertAccount2", "LoadSessions", "LoadDevices"}

SavePlace == {"DeleteAccount", "InsertAccount", "DeleteSessions", "InsertSession",
              "DeleteDevices", "InsertDevice", "Saved"}

\* What follows a load: the worker saves what it has loaded.
Loadeds(t) == IF t = "worker" THEN AtDeleteAccount(Installing) ELSE Closing

LoadAt(l, k) ==
  CASE l = "LoadKey"        -> AtLoadKey(k)
    [] l = "DeleteKey"      -> AtDeleteKey(k)
    [] l = "InsertKey"      -> AtInsertKey(k)
    [] l = "LoadAccount"    -> AtLoadAccount(k)
    [] l = "LoadKey2"       -> AtLoadKey2(k)
    [] l = "DeleteKey2"     -> AtDeleteKey2(k)
    [] l = "InsertKey2"     -> AtInsertKey2(k)
    [] l = "MakeAccount"    -> AtMakeAccount(k)
    [] l = "DeleteAccount1" -> AtDeleteAccount1(k)
    [] l = "InsertAccount1" -> AtInsertAccount1(k)
    [] l = "DeleteAccount2" -> AtDeleteAccount2(k)
    [] l = "InsertAccount2" -> AtInsertAccount2(k)
    [] l = "LoadSessions"   -> AtLoadSessions(k)
    [] l = "LoadDevices"    -> AtLoadDevices(k)

SaveAt(l, e) ==
  CASE l = "DeleteAccount"  -> AtDeleteAccount(e)
    [] l = "InsertAccount"  -> AtInsertAccount(e)
    [] l = "DeleteSessions" -> AtDeleteSessions(e)
    [] l = "InsertSession"  -> AtInsertSession(e)
    [] l = "DeleteDevices"  -> AtDeleteDevices(e)
    [] l = "InsertDevice"   -> AtInsertDevice(e)
    [] l = "Saved"          -> AtSaved(e)
    [] l = "end"            -> e

\* The thread is at place l of a program that ends with e.
At(t, l, e) ==
  \/ /\ l \in LoadPlace
     /\ e = (IF t = "worker" THEN Installing ELSE Closing)
     /\ program[t] = LoadAt(l, Loadeds(t))
  \/ /\ l \in SavePlace /\ t = "worker"
     /\ e \in Ends(t)
     /\ program[t] = SaveAt(l, e)
  \/ /\ l = "end"
     /\ e \in Ends(t)
     /\ program[t] = e

\* The ends of programs are programs, of units of their own.
LEMMA EndPrograms ==
  /\ <<>> \in Programs
  /\ Installing \in Programs /\ Dropping \in Programs /\ Closing \in Programs
  /\ \A unit \in {"key", "generate", "regenerate", "save"} :
       /\ Without(<<>>, unit)
       /\ Without(Installing, unit) /\ Without(Dropping, unit) /\ Without(Closing, unit)
<1>1. <<>> \in Programs
  BY EmptySeq DEF Programs
<1>2. Installing \in Programs /\ Dropping \in Programs /\ Closing \in Programs
  BY <1>1, ConsFacts, Named DEF Installing, Dropping, Closing
<1>3. ASSUME NEW unit \in {"key", "generate", "regenerate", "save"}
      PROVE  /\ Without(<<>>, unit)
             /\ Without(Installing, unit) /\ Without(Dropping, unit) /\ Without(Closing, unit)
  <2>1. Without(<<>>, unit)
    BY <1>1, EmptySeq DEF Without
  <2>2. Without(Installing, unit)
    BY <2>1, WithoutGrows, Named DEF Installing
  <2>3. Without(Dropping, unit)
    BY <2>1, WithoutGrows, Named DEF Dropping
  <2>4. Without(Closing, unit)
    BY <2>1, WithoutGrows, Named DEF Closing
  <2>5. QED
    BY <2>1, <2>2, <2>3, <2>4
<1>4. QED
  BY <1>1, <1>2, <1>3

\* The programs of a save.
LEMMA SavePrograms ==
  ASSUME NEW e \in Programs, \A unit \in {"key", "generate", "regenerate", "save"} : Without(e, unit)
  PROVE  /\ \A l \in SavePlace : SaveAt(l, e) \in Programs /\ Left(SaveAt(l, e), "save", e)
         /\ \A unit \in {"key", "generate", "regenerate"} : Without(AtDeleteAccount(e), unit)
<1>1. AtSaved(e) \in Programs /\ Left(AtSaved(e), "save", e)
  BY ConsFacts, LeftBegins, Named DEF AtSaved
<1>2. AtInsertDevice(e) \in Programs /\ Left(AtInsertDevice(e), "save", e)
  BY <1>1, ConsFacts, LeftGrows, Named DEF AtInsertDevice
<1>3. AtDeleteDevices(e) \in Programs /\ Left(AtDeleteDevices(e), "save", e)
  BY <1>2, ConsFacts, LeftGrows, Named DEF AtDeleteDevices
<1>4. AtInsertSession(e) \in Programs /\ Left(AtInsertSession(e), "save", e)
  BY <1>3, ConsFacts, LeftGrows, Named DEF AtInsertSession
<1>5. AtDeleteSessions(e) \in Programs /\ Left(AtDeleteSessions(e), "save", e)
  BY <1>4, ConsFacts, LeftGrows, Named DEF AtDeleteSessions
<1>6. AtInsertAccount(e) \in Programs /\ Left(AtInsertAccount(e), "save", e)
  BY <1>5, ConsFacts, LeftGrows, Named DEF AtInsertAccount
<1>7. AtDeleteAccount(e) \in Programs /\ Left(AtDeleteAccount(e), "save", e)
  BY <1>6, ConsFacts, LeftGrows, Named DEF AtDeleteAccount
<1>8. ASSUME NEW l \in SavePlace PROVE SaveAt(l, e) \in Programs /\ Left(SaveAt(l, e), "save", e)
  BY <1>1, <1>2, <1>3, <1>4, <1>5, <1>6, <1>7 DEF SavePlace, SaveAt
<1>9. ASSUME NEW unit \in {"key", "generate", "regenerate"} PROVE Without(AtDeleteAccount(e), unit)
  <2>1. Without(AtSaved(e), unit)
    BY WithoutGrows, Named DEF AtSaved
  <2>2. Without(AtInsertDevice(e), unit)
    BY <2>1, WithoutGrows, Named DEF AtInsertDevice
  <2>3. Without(AtDeleteDevices(e), unit)
    BY <2>2, WithoutGrows, Named DEF AtDeleteDevices
  <2>4. Without(AtInsertSession(e), unit)
    BY <2>3, WithoutGrows, Named DEF AtInsertSession
  <2>5. Without(AtDeleteSessions(e), unit)
    BY <2>4, WithoutGrows, Named DEF AtDeleteSessions
  <2>6. Without(AtInsertAccount(e), unit)
    BY <2>5, WithoutGrows, Named DEF AtInsertAccount
  <2>7. QED
    BY <2>6, WithoutGrows, Named DEF AtDeleteAccount
<1>10. QED
  BY <1>8, <1>9

\* The programs of a load.
LEMMA LoadPrograms ==
  ASSUME NEW k \in Programs, \A unit \in {"key", "generate", "regenerate"} : Without(k, unit)
  PROVE  /\ \A l \in LoadPlace : LoadAt(l, k) \in Programs
         /\ \A l \in {"DeleteKey", "InsertKey"} : Left(LoadAt(l, k), "key", AtLoadAccount(k))
         /\ \A l \in {"DeleteKey2", "InsertKey2"} : Left(LoadAt(l, k), "key", AtMakeAccount(k))
         /\ \A l \in {"DeleteAccount1", "InsertAccount1"} : Left(LoadAt(l, k), "generate", AtDeleteAccount2(k))
         /\ \A l \in {"DeleteAccount2", "InsertAccount2"} : Left(LoadAt(l, k), "regenerate", k)
<1>1. AtLoadDevices(k) \in Programs
  BY ConsFacts, Named DEF AtLoadDevices
<1>2. AtLoadSessions(k) \in Programs
  BY <1>1, ConsFacts, Named DEF AtLoadSessions
<1>3. AtInsertAccount2(k) \in Programs
  BY ConsFacts, Named DEF AtInsertAccount2
<1>4. AtDeleteAccount2(k) \in Programs
  BY <1>3, ConsFacts, Named DEF AtDeleteAccount2
<1>5. AtInsertAccount1(k) \in Programs
  BY <1>4, ConsFacts, Named DEF AtInsertAccount1
<1>6. AtDeleteAccount1(k) \in Programs
  BY <1>5, ConsFacts, Named DEF AtDeleteAccount1
<1>7. AtMakeAccount(k) \in Programs
  BY <1>6, ConsFacts, Named DEF AtMakeAccount
<1>8. AtInsertKey2(k) \in Programs
  BY <1>7, ConsFacts, Named DEF AtInsertKey2
<1>9. AtDeleteKey2(k) \in Programs
  BY <1>8, ConsFacts, Named DEF AtDeleteKey2
<1>10. AtLoadKey2(k) \in Programs
  BY <1>7, ConsFacts, Named DEF AtLoadKey2
<1>11. AtLoadAccount(k) \in Programs
  BY ConsFacts, Named DEF AtLoadAccount
<1>12. AtInsertKey(k) \in Programs
  BY <1>11, ConsFacts, Named DEF AtInsertKey
<1>13. AtDeleteKey(k) \in Programs
  BY <1>12, ConsFacts, Named DEF AtDeleteKey
<1>14. AtLoadKey(k) \in Programs
  BY <1>11, ConsFacts, Named DEF AtLoadKey
<1>15. ASSUME NEW l \in LoadPlace PROVE LoadAt(l, k) \in Programs
  BY <1>1, <1>2, <1>3, <1>4, <1>5, <1>6, <1>7, <1>8, <1>9, <1>10, <1>11, <1>12, <1>13, <1>14 DEF LoadPlace, LoadAt
<1>16. Left(AtInsertAccount2(k), "regenerate", k) /\ Left(AtDeleteAccount2(k), "regenerate", k)
  BY LeftBegins, LeftGrows, Named DEF AtInsertAccount2, AtDeleteAccount2
<1>17. Without(AtDeleteAccount2(k), "generate") /\ Without(AtDeleteAccount2(k), "key")
  BY WithoutGrows, Named DEF AtInsertAccount2, AtDeleteAccount2
<1>18. Left(AtInsertAccount1(k), "generate", AtDeleteAccount2(k)) /\ Left(AtDeleteAccount1(k), "generate", AtDeleteAccount2(k))
  BY <1>17, LeftBegins, LeftGrows, Named DEF AtInsertAccount1, AtDeleteAccount1
<1>19. Without(AtMakeAccount(k), "key")
  BY <1>17, WithoutGrows, Named DEF AtInsertAccount1, AtDeleteAccount1, AtMakeAccount
<1>20. Left(AtInsertKey2(k), "key", AtMakeAccount(k)) /\ Left(AtDeleteKey2(k), "key", AtMakeAccount(k))
  BY <1>19, LeftBegins, LeftGrows, Named DEF AtInsertKey2, AtDeleteKey2
<1>21. Without(AtLoadAccount(k), "key")
  BY WithoutGrows, Named DEF AtLoadAccount
<1>22. Left(AtInsertKey(k), "key", AtLoadAccount(k)) /\ Left(AtDeleteKey(k), "key", AtLoadAccount(k))
  BY <1>21, LeftBegins, LeftGrows, Named DEF AtInsertKey, AtDeleteKey
<1>23. QED
  BY <1>15, <1>16, <1>18, <1>20, <1>22 DEF LoadAt

\* The programs of the module are made of these.
LEMMA Pair ==
  ASSUME NEW a \in Statement, NEW b \in Statement
  PROVE  <<a, b>> = <<a>> \o <<b>>
<1>1. <<a>> \in Seq(Statement) /\ <<b>> \in Seq(Statement) /\ <<a, b>> \in Seq(Statement)
  OBVIOUS
<1>2. Len(<<a>> \o <<b>>) = 2 /\ \A i \in 1 .. 2 : (<<a>> \o <<b>>)[i] = <<a, b>>[i]
  BY <1>1
<1>3. QED
  BY <1>1, <1>2, SeqEqual, ConcatProperties

\* Sequences of three statements, built from the front.
LEMMA Three ==
  ASSUME NEW a \in Statement, NEW b \in Statement, NEW c \in Statement
  PROVE  <<a, b, c>> = <<a>> \o <<b, c>>
<1>1. <<a>> \in Seq(Statement) /\ <<b, c>> \in Seq(Statement) /\ <<a, b, c>> \in Seq(Statement)
  OBVIOUS
<1>2. Len(<<a>> \o <<b, c>>) = 3 /\ \A i \in 1 .. 3 : (<<a>> \o <<b, c>>)[i] = <<a, b, c>>[i]
  BY <1>1
<1>3. QED
  BY <1>1, <1>2, SeqEqual, ConcatProperties

\* The program that is done.
Nil == <<>>

\* The parts of programs in OmemoStore, built from the front.
LEMMA Wholes ==
  /\ SaveKey = C("DeleteKey", "key", C("InsertKey", "key", Nil))
  /\ \A unit \in {"generate", "regenerate", "save"} :
       SaveAccount(unit) = C("DeleteAccount", unit, C("InsertAccount", unit, Nil))
  /\ Load = C("LoadKey", "load", C("LoadAccount", "load", Nil))
  /\ LoadRest = C("LoadSessions", "load", C("LoadDevices", "load", Nil))
<1>1. \A a, b \in Statement : <<a, b>> = <<a>> \o (<<b>> \o <<>>)
  <2>1. \A b \in Statement : <<b>> \in Seq(Statement)
    OBVIOUS
  <2>2. \A b \in Statement : <<b>> \o <<>> = <<b>>
    BY <2>1, ConcatEmptySeq
  <2>3. QED
    BY <2>2, Pair
<1>2. SaveKey = C("DeleteKey", "key", C("InsertKey", "key", Nil))
  <2>1. Stmt("DeleteKey", "key") \in Statement /\ Stmt("InsertKey", "key") \in Statement
    BY StmtFacts, Named
  <2>2. QED
    BY <1>1, <2>1 DEF SaveKey, C, Nil
<1>3. ASSUME NEW unit \in {"generate", "regenerate", "save"}
      PROVE  SaveAccount(unit) = C("DeleteAccount", unit, C("InsertAccount", unit, Nil))
  <2>1. Stmt("DeleteAccount", unit) \in Statement /\ Stmt("InsertAccount", unit) \in Statement
    BY StmtFacts, Named
  <2>2. QED
    BY <1>1, <2>1 DEF SaveAccount, C, Nil
<1>4. Load = C("LoadKey", "load", C("LoadAccount", "load", Nil))
  <2>1. Stmt("LoadKey", "load") \in Statement /\ Stmt("LoadAccount", "load") \in Statement
    BY StmtFacts, Named
  <2>2. QED
    BY <1>1, <2>1 DEF Load, C, Nil
<1>5. LoadRest = C("LoadSessions", "load", C("LoadDevices", "load", Nil))
  <2>1. Stmt("LoadSessions", "load") \in Statement /\ Stmt("LoadDevices", "load") \in Statement
    BY StmtFacts, Named
  <2>2. QED
    BY <1>1, <2>1 DEF LoadRest, C, Nil
<1>6. QED
  BY <1>2, <1>3, <1>4, <1>5

\* Two statements before a program that is known.
Cat(s, k) == s \o k

\* Concatenation, when the first statement is taken off.
LEMMA CatPrefix ==
  ASSUME NEW op \in Op, NEW unit \in Unit, NEW s \in Programs, NEW k \in Programs
  PROVE  Cat(C(op, unit, s), k) = C(op, unit, Cat(s, k))
BY Prefix DEF Cat

\* Concatenation is associative.
LEMMA CatAssoc ==
  \A s, t, u \in Programs : Cat(Cat(s, t), u) = Cat(s, Cat(t, u))
BY ConcatAssociative DEF Programs, Cat

\* A sequence of two statements before a program.
LEMMA CatTwo ==
  ASSUME NEW o1 \in Op, NEW u1 \in Unit, NEW o2 \in Op, NEW u2 \in Unit, NEW k \in Programs
  PROVE  Cat(C(o1, u1, C(o2, u2, Nil)), k) = C(o1, u1, C(o2, u2, k))
<1> DEFINE s == C(o2, u2, Nil)
<1>1. s \in Programs
  BY ConsFacts, EmptySeq DEF Programs, Nil
<1>2. Cat(s, k) = C(o2, u2, k)
  BY PrefixLast DEF Cat, Nil
<1> HIDE DEF s
<1>3. Cat(C(o1, u1, s), k) = C(o1, u1, C(o2, u2, k))
  BY <1>1, <1>2, CatPrefix
<1>4. QED
  BY <1>3 DEF s

\* A statement before a program makes a program.
LEMMA ConsIn ==
  ASSUME NEW op \in Op, NEW unit \in Unit, NEW k \in Programs PROVE C(op, unit, k) \in Programs
BY ConsFacts

\* Load and SaveKey before a program are places of it.
LEMMA KeyBefore ==
  ASSUME NEW k \in Programs
  PROVE  /\ Cat(SaveKey, AtLoadAccount(k)) = AtDeleteKey(k)
         /\ Cat(SaveKey, AtMakeAccount(k)) = AtDeleteKey2(k)
         /\ Cat(LoadRest, k) = AtLoadSessions(k)
         /\ Cat(Load, k) = AtLoadKey(k)
<1>1. AtLoadAccount(k) \in Programs
  BY ConsIn, Named DEF AtLoadAccount
<1>2. AtMakeAccount(k) \in Programs
  BY ConsIn, Named DEF AtInsertAccount2, AtDeleteAccount2, AtInsertAccount1, AtDeleteAccount1, AtMakeAccount
<1>3. Cat(SaveKey, AtLoadAccount(k)) = AtDeleteKey(k)
  <2>1. Cat(C("DeleteKey", "key", C("InsertKey", "key", Nil)), AtLoadAccount(k))
        = C("DeleteKey", "key", C("InsertKey", "key", AtLoadAccount(k)))
    BY <1>1, Named, CatTwo
  <2>2. QED
    BY <2>1, Wholes DEF AtDeleteKey, AtInsertKey
<1>4. Cat(SaveKey, AtMakeAccount(k)) = AtDeleteKey2(k)
  BY <1>2, Wholes, CatTwo, Named DEF AtDeleteKey2, AtInsertKey2
<1>5. Cat(LoadRest, k) = AtLoadSessions(k)
  BY Wholes, CatTwo, Named DEF AtLoadSessions, AtLoadDevices
<1>6. Cat(Load, k) = AtLoadKey(k)
  BY Wholes, CatTwo, Named DEF AtLoadKey, AtLoadAccount
<1>7. QED
  BY <1>3, <1>4, <1>5, <1>6

\* So is Generate.
LEMMA GenerateBefore == ASSUME NEW k \in Programs PROVE Cat(Generate, k) = AtLoadKey2(k)
<1> DEFINE a == Stmt("LoadKey", "load")
           b == Stmt("MakeAccount", "load")
           g == SaveAccount("generate")
           r == SaveAccount("regenerate")
<1>1. a \in Statement /\ b \in Statement
  BY StmtFacts, Named
<1>2. /\ g = C("DeleteAccount", "generate", C("InsertAccount", "generate", Nil))
      /\ r = C("DeleteAccount", "regenerate", C("InsertAccount", "regenerate", Nil))
  BY Wholes
<1>3. g \in Programs /\ r \in Programs /\ <<a>> \in Programs /\ <<b>> \in Programs
  <2>1. Nil \in Programs
    BY EmptySeq DEF Programs, Nil
  <2>2. g \in Programs /\ r \in Programs
    <3> HIDE DEF g, r
    <3>1. QED
      BY <1>2, <2>1, ConsIn, Named
  <2>3. QED
    BY <1>1, <2>2 DEF Programs
<1>4. Generate = ((<<a>> \o <<b>>) \o g) \o r
  BY <1>1, Pair DEF Generate
<1> HIDE DEF g, r
<1>5. Cat(r, k) = AtDeleteAccount2(k) /\ AtDeleteAccount2(k) \in Programs
  <2>1. Cat(r, k) = AtDeleteAccount2(k)
    BY <1>2, CatTwo, Named DEF AtDeleteAccount2, AtInsertAccount2
  <2>2. AtDeleteAccount2(k) \in Programs
    BY ConsIn, Named DEF AtDeleteAccount2, AtInsertAccount2
  <2>3. QED
    BY <2>1, <2>2
<1>6. Cat(g, AtDeleteAccount2(k)) = AtDeleteAccount1(k) /\ AtDeleteAccount1(k) \in Programs
  <2>1. Cat(g, AtDeleteAccount2(k)) = AtDeleteAccount1(k)
    <3>1. Cat(C("DeleteAccount", "generate", C("InsertAccount", "generate", Nil)), AtDeleteAccount2(k))
          = C("DeleteAccount", "generate", C("InsertAccount", "generate", AtDeleteAccount2(k)))
      <4> HIDE DEF a, b
      <4>1. AtDeleteAccount2(k) \in Programs
        BY <1>5
      <4>2. QED
        BY <4>1, Named, CatTwo
    <3>2. QED
      BY <1>2, <3>1 DEF AtDeleteAccount1, AtInsertAccount1
  <2>2. AtDeleteAccount1(k) \in Programs
    BY <1>5, ConsIn, Named DEF AtDeleteAccount1, AtInsertAccount1
  <2>3. QED
    BY <2>1, <2>2
<1>7. g \in Programs /\ r \o k = AtDeleteAccount2(k) /\ g \o AtDeleteAccount2(k) = AtDeleteAccount1(k)
  BY <1>3, <1>5, <1>6 DEF Cat
<1>8. Generate \o k = <<a>> \o (<<b>> \o (g \o (r \o k)))
  <2> HIDE DEF a, b
  <2>1. <<a>> \o <<b>> \in Programs /\ (<<a>> \o <<b>>) \o g \in Programs
    BY <1>3, ConcatProperties DEF Programs
  <2>2. (((<<a>> \o <<b>>) \o g) \o r) \o k = ((<<a>> \o <<b>>) \o g) \o (r \o k)
    BY <1>3, <2>1, ConcatAssociative DEF Programs
  <2>3. r \o k \in Programs
    BY <1>5, <1>7
  <2>4. ((<<a>> \o <<b>>) \o g) \o (r \o k) = (<<a>> \o <<b>>) \o (g \o (r \o k))
    BY <1>3, <2>1, <2>3, ConcatAssociative DEF Programs
  <2>5. g \o (r \o k) \in Programs
    BY <1>6, <1>7
  <2>6. (<<a>> \o <<b>>) \o (g \o (r \o k)) = <<a>> \o (<<b>> \o (g \o (r \o k)))
    BY <1>3, <2>5, ConcatAssociative DEF Programs
  <2>7. QED
    BY <1>4, <2>2, <2>4, <2>6
<1>9. QED
  BY <1>7, <1>8 DEF Cat, AtLoadKey2, AtMakeAccount, C

\* So is Save.
LEMMA SaveBefore == ASSUME NEW e \in Programs PROVE Cat(Save, e) = AtDeleteAccount(e)
<1> DEFINE a == Stmt("DeleteSessions", "save")
           b == Stmt("InsertSession", "save")
           c == Stmt("DeleteDevices", "save")
           d == Stmt("InsertDevice", "save")
           f == Stmt("Saved", "save")
           s == SaveAccount("save")
           five == <<a, b, c, d, f>>
<1>1. a \in Statement /\ b \in Statement /\ c \in Statement /\ d \in Statement /\ f \in Statement
  BY StmtFacts, Named
<1>2. five = <<a>> \o (<<b>> \o (<<c>> \o (<<d>> \o <<f>>)))
  <2> HIDE DEF a, b, c, d, f
  <2>1. <<d, f>> = <<d>> \o <<f>>
    BY <1>1, Pair
  <2>2. <<c, d, f>> = <<c>> \o <<d, f>>
    BY <1>1, Three
  <2>3. <<b, c, d, f>> = <<b>> \o <<c, d, f>>
    <3>1. <<b>> \in Seq(Statement) /\ <<c, d, f>> \in Seq(Statement) /\ <<b, c, d, f>> \in Seq(Statement)
      BY <1>1
    <3>2. Len(<<b>> \o <<c, d, f>>) = 4 /\ \A i \in 1 .. 4 : (<<b>> \o <<c, d, f>>)[i] = <<b, c, d, f>>[i]
      BY <3>1
    <3>3. QED
      BY <3>1, <3>2, SeqEqual, ConcatProperties
  <2>4. <<a, b, c, d, f>> = <<a>> \o <<b, c, d, f>>
    <3>1. <<a>> \in Seq(Statement) /\ <<b, c, d, f>> \in Seq(Statement) /\ <<a, b, c, d, f>> \in Seq(Statement)
      BY <1>1
    <3>2. Len(<<a>> \o <<b, c, d, f>>) = 5 /\ \A i \in 1 .. 5 : (<<a>> \o <<b, c, d, f>>)[i] = <<a, b, c, d, f>>[i]
      BY <3>1
    <3>3. QED
      BY <3>1, <3>2, SeqEqual, ConcatProperties
  <2>5. QED
    BY <2>1, <2>2, <2>3, <2>4
<1>3. s = C("DeleteAccount", "save", C("InsertAccount", "save", Nil))
  BY Wholes
<1>4. <<>> \in Programs
  BY EmptySeq DEF Programs
<1>5. <<f>> = AtSaved(<<>>)
  <2>1. <<f>> \in Programs
    BY <1>1 DEF Programs
  <2>2. QED
    BY <2>1, ConcatEmptySeq DEF AtSaved, C, Programs
<1>6. AtSaved(e) \in Programs /\ AtSaved(<<>>) \in Programs /\ Cat(AtSaved(<<>>), e) = AtSaved(e)
  BY <1>4, ConsIn, PrefixLast, Named DEF Cat, AtSaved
<1>7. AtInsertDevice(e) \in Programs /\ AtInsertDevice(<<>>) \in Programs /\ Cat(AtInsertDevice(<<>>), e) = AtInsertDevice(e)
  <2>1. AtInsertDevice(e) \in Programs /\ AtInsertDevice(<<>>) \in Programs
    BY <1>6, ConsIn, Named DEF AtInsertDevice
  <2>2. Cat(C("InsertDevice", "save", AtSaved(<<>>)), e) = C("InsertDevice", "save", Cat(AtSaved(<<>>), e))
    BY <1>6, CatPrefix, Named
  <2>3. QED
    BY <1>6, <2>1, <2>2 DEF AtInsertDevice
<1>8. AtDeleteDevices(e) \in Programs /\ AtDeleteDevices(<<>>) \in Programs /\ Cat(AtDeleteDevices(<<>>), e) = AtDeleteDevices(e)
  <2>1. AtDeleteDevices(e) \in Programs /\ AtDeleteDevices(<<>>) \in Programs
    BY <1>7, ConsIn, Named DEF AtDeleteDevices
  <2>2. Cat(C("DeleteDevices", "save", AtInsertDevice(<<>>)), e) = C("DeleteDevices", "save", Cat(AtInsertDevice(<<>>), e))
    BY <1>7, CatPrefix, Named
  <2>3. QED
    BY <1>7, <2>1, <2>2 DEF AtDeleteDevices
<1>9. AtInsertSession(e) \in Programs /\ AtInsertSession(<<>>) \in Programs /\ Cat(AtInsertSession(<<>>), e) = AtInsertSession(e)
  <2>1. AtInsertSession(e) \in Programs /\ AtInsertSession(<<>>) \in Programs
    BY <1>8, ConsIn, Named DEF AtInsertSession
  <2>2. Cat(C("InsertSession", "save", AtDeleteDevices(<<>>)), e) = C("InsertSession", "save", Cat(AtDeleteDevices(<<>>), e))
    BY <1>8, CatPrefix, Named
  <2>3. QED
    BY <1>8, <2>1, <2>2 DEF AtInsertSession
<1>10. AtDeleteSessions(e) \in Programs /\ AtDeleteSessions(<<>>) \in Programs /\ Cat(AtDeleteSessions(<<>>), e) = AtDeleteSessions(e)
  <2>1. AtDeleteSessions(e) \in Programs /\ AtDeleteSessions(<<>>) \in Programs
    BY <1>9, ConsIn, Named DEF AtDeleteSessions
  <2>2. Cat(C("DeleteSessions", "save", AtInsertSession(<<>>)), e) = C("DeleteSessions", "save", Cat(AtInsertSession(<<>>), e))
    BY <1>9, CatPrefix, Named
  <2>3. QED
    BY <1>9, <2>1, <2>2 DEF AtDeleteSessions
<1>11. five = AtDeleteSessions(<<>>)
  BY <1>2, <1>5 DEF AtDeleteSessions, AtInsertSession, AtDeleteDevices, AtInsertDevice, C
<1>12. s \in Programs
  BY <1>3, <1>4, ConsIn, Named DEF Nil
<1>13. Save = s \o five
  BY DEF Save
<1> HIDE DEF s, five
<1>14. five \in Programs /\ five \o e = AtDeleteSessions(e)
  BY <1>10, <1>11 DEF Cat
<1>15. Save \o e = s \o (five \o e)
  <2>1. (s \o five) \o e = s \o (five \o e)
    BY <1>12, <1>14, CatAssoc DEF Cat
  <2>2. QED
    BY <1>13, <2>1
<1>16. Cat(Save, e) = Cat(s, AtDeleteSessions(e))
  BY <1>14, <1>15 DEF Cat
<1>17. QED
  BY <1>3, <1>10, <1>16, CatTwo, Named DEF AtDeleteAccount, AtInsertAccount

-----------------------------------------------------------------------------
\* Where a statement leads

\* The first statement of a program, and the program after it.
First(s, op, unit, k) == s # <<>> /\ Head(s) = Stmt(op, unit) /\ Tail(s) = k

\* The first statement is the one in front.
LEMMA FirstOf ==
  ASSUME NEW op \in Op, NEW unit \in Unit, NEW k \in Programs
  PROVE  First(C(op, unit, k), op, unit, k)
BY ConsFacts DEF First

\* The first statement at each place of a load.
LEMMA LoadFirst ==
  ASSUME NEW k \in Programs, \A unit \in {"key", "generate", "regenerate"} : Without(k, unit)
  PROVE  /\ First(AtLoadKey(k), "LoadKey", "load", AtLoadAccount(k))
         /\ First(AtDeleteKey(k), "DeleteKey", "key", AtInsertKey(k))
         /\ First(AtInsertKey(k), "InsertKey", "key", AtLoadAccount(k))
         /\ First(AtLoadAccount(k), "LoadAccount", "load", k)
         /\ First(AtLoadKey2(k), "LoadKey", "load", AtMakeAccount(k))
         /\ First(AtDeleteKey2(k), "DeleteKey", "key", AtInsertKey2(k))
         /\ First(AtInsertKey2(k), "InsertKey", "key", AtMakeAccount(k))
         /\ First(AtMakeAccount(k), "MakeAccount", "load", AtDeleteAccount1(k))
         /\ First(AtDeleteAccount1(k), "DeleteAccount", "generate", AtInsertAccount1(k))
         /\ First(AtInsertAccount1(k), "InsertAccount", "generate", AtDeleteAccount2(k))
         /\ First(AtDeleteAccount2(k), "DeleteAccount", "regenerate", AtInsertAccount2(k))
         /\ First(AtInsertAccount2(k), "InsertAccount", "regenerate", k)
         /\ First(AtLoadSessions(k), "LoadSessions", "load", AtLoadDevices(k))
         /\ First(AtLoadDevices(k), "LoadDevices", "load", k)
<1>1. \A l \in LoadPlace : LoadAt(l, k) \in Programs
  BY LoadPrograms
<1>2. AtLoadKey(k) \in Programs /\ AtDeleteKey(k) \in Programs /\ AtInsertKey(k) \in Programs /\ AtLoadAccount(k) \in Programs /\ AtLoadKey2(k) \in Programs
      /\ AtDeleteKey2(k) \in Programs /\ AtInsertKey2(k) \in Programs /\ AtMakeAccount(k) \in Programs /\ AtDeleteAccount1(k) \in Programs
      /\ AtInsertAccount1(k) \in Programs /\ AtDeleteAccount2(k) \in Programs /\ AtInsertAccount2(k) \in Programs /\ AtLoadSessions(k) \in Programs /\ AtLoadDevices(k) \in Programs
  BY <1>1 DEF LoadPlace, LoadAt
<1>3. First(AtLoadKey(k), "LoadKey", "load", AtLoadAccount(k))
  BY <1>2, FirstOf, Named DEF AtLoadKey
<1>4. First(AtDeleteKey(k), "DeleteKey", "key", AtInsertKey(k))
  BY <1>2, FirstOf, Named DEF AtDeleteKey
<1>5. First(AtInsertKey(k), "InsertKey", "key", AtLoadAccount(k))
  BY <1>2, FirstOf, Named DEF AtInsertKey
<1>6. First(AtLoadAccount(k), "LoadAccount", "load", k)
  BY <1>2, FirstOf, Named DEF AtLoadAccount
<1>7. First(AtLoadKey2(k), "LoadKey", "load", AtMakeAccount(k))
  BY <1>2, FirstOf, Named DEF AtLoadKey2
<1>8. First(AtDeleteKey2(k), "DeleteKey", "key", AtInsertKey2(k))
  BY <1>2, FirstOf, Named DEF AtDeleteKey2
<1>9. First(AtInsertKey2(k), "InsertKey", "key", AtMakeAccount(k))
  BY <1>2, FirstOf, Named DEF AtInsertKey2
<1>10. First(AtMakeAccount(k), "MakeAccount", "load", AtDeleteAccount1(k))
  BY <1>2, FirstOf, Named DEF AtMakeAccount
<1>11. First(AtDeleteAccount1(k), "DeleteAccount", "generate", AtInsertAccount1(k))
  BY <1>2, FirstOf, Named DEF AtDeleteAccount1
<1>12. First(AtInsertAccount1(k), "InsertAccount", "generate", AtDeleteAccount2(k))
  BY <1>2, FirstOf, Named DEF AtInsertAccount1
<1>13. First(AtDeleteAccount2(k), "DeleteAccount", "regenerate", AtInsertAccount2(k))
  BY <1>2, FirstOf, Named DEF AtDeleteAccount2
<1>14. First(AtInsertAccount2(k), "InsertAccount", "regenerate", k)
  BY <1>2, FirstOf, Named DEF AtInsertAccount2
<1>15. First(AtLoadSessions(k), "LoadSessions", "load", AtLoadDevices(k))
  BY <1>2, FirstOf, Named DEF AtLoadSessions
<1>16. First(AtLoadDevices(k), "LoadDevices", "load", k)
  BY <1>2, FirstOf, Named DEF AtLoadDevices
<1>17. QED
  BY <1>3, <1>4, <1>5, <1>6, <1>7, <1>8, <1>9, <1>10, <1>11, <1>12, <1>13, <1>14, <1>15, <1>16

\* The first statement at each place of a save.
LEMMA SaveFirst ==
  ASSUME NEW e \in Programs, \A unit \in {"key", "generate", "regenerate", "save"} : Without(e, unit)
  PROVE  /\ First(AtDeleteAccount(e), "DeleteAccount", "save", AtInsertAccount(e))
         /\ First(AtInsertAccount(e), "InsertAccount", "save", AtDeleteSessions(e))
         /\ First(AtDeleteSessions(e), "DeleteSessions", "save", AtInsertSession(e))
         /\ First(AtInsertSession(e), "InsertSession", "save", AtDeleteDevices(e))
         /\ First(AtDeleteDevices(e), "DeleteDevices", "save", AtInsertDevice(e))
         /\ First(AtInsertDevice(e), "InsertDevice", "save", AtSaved(e))
         /\ First(AtSaved(e), "Saved", "save", e)
<1>1. \A l \in SavePlace : SaveAt(l, e) \in Programs
  BY SavePrograms
<1>2. AtDeleteAccount(e) \in Programs /\ AtInsertAccount(e) \in Programs /\ AtDeleteSessions(e) \in Programs /\ AtInsertSession(e) \in Programs
      /\ AtDeleteDevices(e) \in Programs /\ AtInsertDevice(e) \in Programs /\ AtSaved(e) \in Programs
  BY <1>1 DEF SavePlace, SaveAt
<1>3. First(AtDeleteAccount(e), "DeleteAccount", "save", AtInsertAccount(e))
  BY <1>2, FirstOf, Named DEF AtDeleteAccount
<1>4. First(AtInsertAccount(e), "InsertAccount", "save", AtDeleteSessions(e))
  BY <1>2, FirstOf, Named DEF AtInsertAccount
<1>5. First(AtDeleteSessions(e), "DeleteSessions", "save", AtInsertSession(e))
  BY <1>2, FirstOf, Named DEF AtDeleteSessions
<1>6. First(AtInsertSession(e), "InsertSession", "save", AtDeleteDevices(e))
  BY <1>2, FirstOf, Named DEF AtInsertSession
<1>7. First(AtDeleteDevices(e), "DeleteDevices", "save", AtInsertDevice(e))
  BY <1>2, FirstOf, Named DEF AtDeleteDevices
<1>8. First(AtInsertDevice(e), "InsertDevice", "save", AtSaved(e))
  BY <1>2, FirstOf, Named DEF AtInsertDevice
<1>9. First(AtSaved(e), "Saved", "save", e)
  BY <1>2, FirstOf, Named DEF AtSaved
<1>10. QED
  BY <1>3, <1>4, <1>5, <1>6, <1>7, <1>8, <1>9

\* The first statement of each end.
LEMMA EndFirst ==
  /\ First(Installing, "Install", "install", <<>>)
  /\ First(Dropping, "Drop", "drop", <<>>)
  /\ First(Closing, "Close", "close", <<>>)
<1>1. <<>> \in Programs
  BY EndPrograms
<1>2. QED
  BY <1>1, FirstOf, Named DEF Installing, Dropping, Closing

\* What follows a load is known.
LEMMA LoadedProgram ==
  ASSUME NEW t \in Thread
  PROVE  /\ Loadeds(t) \in Programs
         /\ \A unit \in {"key", "generate", "regenerate"} : Without(Loadeds(t), unit)
BY EndPrograms, SavePrograms DEF Loadeds, SavePlace, SaveAt

\* The ends of programs have no statement of a load or a save.
LEMMA EndsKnown ==
  ASSUME NEW t \in Thread, NEW e \in Ends(t)
  PROVE  e \in Programs /\ \A unit \in {"key", "generate", "regenerate", "save"} : Without(e, unit)
BY EndPrograms DEF Ends


AfterKey(l) == IF l \in {"LoadKey", "DeleteKey", "InsertKey"} THEN "LoadAccount" ELSE "MakeAccount"

NewKey(l) == IF l = "LoadKey" THEN "DeleteKey" ELSE "DeleteKey2"

AfterLoad(t) == IF t = "worker" THEN "DeleteAccount" ELSE "end"

\* The account can be read with the key that was loaded.
Readable(t) == disk.account # None /\ disk.account.key = local[t].key

\* What a statement does and to which place it leads.
Goes(t, l, e, m, f) ==
  \/ /\ l \in {"LoadKey", "LoadKey2"} /\ LoadKey(t, TRUE)
     /\ m = (IF disk.key # None THEN AfterKey(l) ELSE NewKey(l)) /\ f = e
  \/ /\ l \in {"DeleteKey", "DeleteKey2"} /\ Write(t, [disk EXCEPT !.key = None])
     /\ m = (IF l = "DeleteKey" THEN "InsertKey" ELSE "InsertKey2") /\ f = e
  \/ /\ l \in {"InsertKey", "InsertKey2"} /\ InsertKey(t)
     /\ m = AfterKey(l) /\ f = e
  \/ /\ l = "LoadAccount" /\ LoadAccount(t, TRUE)
     /\ m = (IF Readable(t) THEN "LoadSessions" ELSE "LoadKey2") /\ f = e
  \/ /\ l = "MakeAccount" /\ MakeAccount(t)
     /\ m = "DeleteAccount1" /\ f = e
  \/ /\ l \in {"DeleteAccount1", "DeleteAccount2", "DeleteAccount"} /\ Write(t, [disk EXCEPT !.account = None])
     /\ m = (IF l = "DeleteAccount1" THEN "InsertAccount1"
             ELSE IF l = "DeleteAccount2" THEN "InsertAccount2" ELSE "InsertAccount") /\ f = e
  \/ /\ l = "InsertAccount1" /\ InsertAccount(t)
     /\ m = "DeleteAccount2" /\ f = e
  \/ /\ l = "InsertAccount2" /\ InsertAccount(t)
     /\ m = AfterLoad(t) /\ f = e
  \/ /\ l = "InsertAccount" /\ InsertAccount(t)
     /\ m = (IF disk.account # None THEN "end" ELSE "DeleteSessions") /\ f = e
  \/ /\ l = "LoadSessions" /\ LoadSessions(t, TRUE)
     /\ m = "LoadDevices" /\ f = e
  \/ /\ l = "LoadDevices" /\ LoadDevices(t, TRUE)
     /\ m = AfterLoad(t) /\ f = e
  \/ /\ l = "DeleteSessions" /\ Write(t, [disk EXCEPT !.sessions = NoSessions])
     /\ m = "InsertSession" /\ f = e
  \/ /\ l = "InsertSession" /\ f = e
     /\ \/ /\ m = "DeleteDevices" /\ \A p \in Peer : disk.sessions[p] = Manager(t).sessions[p]
           /\ Write(t, disk)
        \/ /\ m = "end" /\ Fails(t)
           /\ \E p \in Peer : disk.sessions[p] # None /\ disk.sessions[p] # Manager(t).sessions[p]
        \/ /\ m = "InsertSession"
           /\ \E p \in Peer : /\ disk.sessions[p] = None
                              /\ disk' = [disk EXCEPT !.sessions[p] = Manager(t).sessions[p]]
           /\ UNCHANGED <<mem, local, program, fresh, identity, unsaved>>
  \/ /\ l = "DeleteDevices" /\ Write(t, [disk EXCEPT !.devices = {}])
     /\ m = "InsertDevice" /\ f = e
  \/ /\ l = "InsertDevice" /\ f = e
     /\ \/ m = "Saved" /\ Manager(t).devices \subseteq disk.devices /\ Write(t, disk)
        \/ /\ m = "InsertDevice"
           /\ \E d \in Manager(t).devices : disk' = [disk EXCEPT !.devices = @ \cup {d}]
           /\ UNCHANGED <<mem, local, program, fresh, identity, unsaved>>
  \/ /\ l = "Saved" /\ Saved(t)
     /\ m = "end" /\ f = e
  \/ /\ l = "end" /\ m = "end" /\ f = <<>>
     /\ \/ e = Installing /\ Install(t)
        \/ e = Dropping /\ Drop(t)
        \/ e = Closing /\ Close(t) /\ UNCHANGED mem

\* The programs of the other thread stay.
Alone(t) ==
  /\ program' \in [Thread -> Programs]
  /\ \A s \in Thread : s # t => program'[s] = program[s]

\* A thread is given another program; the other keeps its own.
LEMMA RunAlone ==
  ASSUME NEW t \in Thread, program \in [Thread -> Programs], NEW s \in Programs, Run(t, s)
  PROVE  Alone(t) /\ program'[t] = s
BY DEF Run, Alone

\* It goes on to the next statement.
LEMMA NextAlone ==
  ASSUME NEW t \in Thread, program \in [Thread -> Programs], NEW op, NEW unit, NEW k \in Programs,
         First(program[t], op, unit, k), Next1(t)
  PROVE  Alone(t) /\ program'[t] = k
BY RunAlone DEF Next1, First

\* It stays.
LEMMA StillAlone ==
  ASSUME NEW t \in Thread, program \in [Thread -> Programs], UNCHANGED program
  PROVE  Alone(t) /\ program'[t] = program[t]
BY DEF Alone

\* The statement that is executed.
LEMMA Executed ==
  ASSUME NEW t, NEW op, NEW unit, NEW k, First(program[t], op, unit, k), Step(t)
  PROVE  Execute(t, op)
<1>1. Head(program[t]).op = op
  BY DEF First, Stmt
<1>2. QED
  BY <1>1 DEF Step

\* From a place of a load to another.
LEMMA ToLoad ==
  ASSUME NEW t \in Thread, NEW l \in LoadPlace, NEW e, At(t, l, e), NEW m \in LoadPlace,
         program'[t] = LoadAt(m, Loadeds(t))
  PROVE  At(t, m, e)'
<1>1. e = IF t = "worker" THEN Installing ELSE Closing
  BY DEF At, LoadPlace, SavePlace
<1>2. QED
  BY <1>1 DEF At

\* From a place of a load to what follows it.
LEMMA ToLoaded ==
  ASSUME NEW t \in Thread, NEW l \in LoadPlace, NEW e, At(t, l, e), program'[t] = Loadeds(t)
  PROVE  At(t, AfterLoad(t), e)'
<1>1. e = IF t = "worker" THEN Installing ELSE Closing
  BY DEF At, LoadPlace, SavePlace
<1>2. QED
  BY <1>1 DEF At, AfterLoad, Loadeds, SaveAt, SavePlace, Ends, Thread

\* Where a statement of a load leads, when it succeeds.
LEMMA LoadGoes ==
  ASSUME NEW t \in Thread, program \in [Thread -> Programs], NEW l \in LoadPlace, NEW e, At(t, l, e), Step(t)
  PROVE  Alone(t) /\ \E m, f : At(t, m, f)' /\ Goes(t, l, e, m, f)
<1> DEFINE k == Loadeds(t)
<1>1. k \in Programs /\ \A unit \in {"key", "generate", "regenerate"} : Without(k, unit)
  BY LoadedProgram
<1>2. program[t] = LoadAt(l, k)
  BY DEF At, LoadPlace, SavePlace
<1>3. \A x \in LoadPlace : LoadAt(x, k) \in Programs
  BY <1>1, LoadPrograms
<1>4. CASE l = "DeleteKey"
  <2>1. First(program[t], "DeleteKey", "key", AtInsertKey(k)) /\ AtInsertKey(k) \in Programs
    <3>1. program[t] = AtDeleteKey(k)
      BY <1>2, <1>4 DEF LoadAt
    <3>2. AtInsertKey(k) \in Programs
      BY <1>1, <1>3 DEF LoadAt, LoadPlace
    <3>3. QED
      BY <1>1, <3>1, <3>2, LoadFirst
  <2>2. Write(t, [disk EXCEPT !.key = None])
    BY <2>1, Executed DEF Execute
  <2>3. Next1(t)
    BY <2>2 DEF Write
  <2>4. Alone(t) /\ program'[t] = AtInsertKey(k)
    BY <2>1, <2>3, NextAlone
  <2>5. At(t, "InsertKey", e)'
    BY <2>4, ToLoad DEF LoadAt, LoadPlace
  <2>6. Goes(t, l, e, "InsertKey", e)
    BY <1>4, <2>2 DEF Goes
  <2>7. QED
    BY <2>4, <2>5, <2>6
<1>5. CASE l = "DeleteKey2"
  <2>1. First(program[t], "DeleteKey", "key", AtInsertKey2(k)) /\ AtInsertKey2(k) \in Programs
    <3>1. program[t] = AtDeleteKey2(k)
      BY <1>2, <1>5 DEF LoadAt
    <3>2. AtInsertKey2(k) \in Programs
      BY <1>1, <1>3 DEF LoadAt, LoadPlace
    <3>3. QED
      BY <1>1, <3>1, <3>2, LoadFirst
  <2>2. Write(t, [disk EXCEPT !.key = None])
    BY <2>1, Executed DEF Execute
  <2>3. Next1(t)
    BY <2>2 DEF Write
  <2>4. Alone(t) /\ program'[t] = AtInsertKey2(k)
    BY <2>1, <2>3, NextAlone
  <2>5. At(t, "InsertKey2", e)'
    BY <2>4, ToLoad DEF LoadAt, LoadPlace
  <2>6. Goes(t, l, e, "InsertKey2", e)
    BY <1>5, <2>2 DEF Goes
  <2>7. QED
    BY <2>4, <2>5, <2>6
<1>6. CASE l = "MakeAccount"
  <2>1. First(program[t], "MakeAccount", "load", AtDeleteAccount1(k)) /\ AtDeleteAccount1(k) \in Programs
    <3>1. program[t] = AtMakeAccount(k)
      BY <1>2, <1>6 DEF LoadAt
    <3>2. AtDeleteAccount1(k) \in Programs
      BY <1>1, <1>3 DEF LoadAt, LoadPlace
    <3>3. QED
      BY <1>1, <3>1, <3>2, LoadFirst
  <2>2. MakeAccount(t)
    BY <2>1, Executed DEF Execute
  <2>3. Next1(t)
    BY <2>2 DEF MakeAccount
  <2>4. Alone(t) /\ program'[t] = AtDeleteAccount1(k)
    BY <2>1, <2>3, NextAlone
  <2>5. At(t, "DeleteAccount1", e)'
    BY <2>4, ToLoad DEF LoadAt, LoadPlace
  <2>6. Goes(t, l, e, "DeleteAccount1", e)
    BY <1>6, <2>2 DEF Goes
  <2>7. QED
    BY <2>4, <2>5, <2>6
<1>7. CASE l = "DeleteAccount1"
  <2>1. First(program[t], "DeleteAccount", "generate", AtInsertAccount1(k)) /\ AtInsertAccount1(k) \in Programs
    <3>1. program[t] = AtDeleteAccount1(k)
      BY <1>2, <1>7 DEF LoadAt
    <3>2. AtInsertAccount1(k) \in Programs
      BY <1>1, <1>3 DEF LoadAt, LoadPlace
    <3>3. QED
      BY <1>1, <3>1, <3>2, LoadFirst
  <2>2. Write(t, [disk EXCEPT !.account = None])
    BY <2>1, Executed DEF Execute
  <2>3. Next1(t)
    BY <2>2 DEF Write
  <2>4. Alone(t) /\ program'[t] = AtInsertAccount1(k)
    BY <2>1, <2>3, NextAlone
  <2>5. At(t, "InsertAccount1", e)'
    BY <2>4, ToLoad DEF LoadAt, LoadPlace
  <2>6. Goes(t, l, e, "InsertAccount1", e)
    BY <1>7, <2>2 DEF Goes
  <2>7. QED
    BY <2>4, <2>5, <2>6
<1>8. CASE l = "DeleteAccount2"
  <2>1. First(program[t], "DeleteAccount", "regenerate", AtInsertAccount2(k)) /\ AtInsertAccount2(k) \in Programs
    <3>1. program[t] = AtDeleteAccount2(k)
      BY <1>2, <1>8 DEF LoadAt
    <3>2. AtInsertAccount2(k) \in Programs
      BY <1>1, <1>3 DEF LoadAt, LoadPlace
    <3>3. QED
      BY <1>1, <3>1, <3>2, LoadFirst
  <2>2. Write(t, [disk EXCEPT !.account = None])
    BY <2>1, Executed DEF Execute
  <2>3. Next1(t)
    BY <2>2 DEF Write
  <2>4. Alone(t) /\ program'[t] = AtInsertAccount2(k)
    BY <2>1, <2>3, NextAlone
  <2>5. At(t, "InsertAccount2", e)'
    BY <2>4, ToLoad DEF LoadAt, LoadPlace
  <2>6. Goes(t, l, e, "InsertAccount2", e)
    BY <1>8, <2>2 DEF Goes
  <2>7. QED
    BY <2>4, <2>5, <2>6
<1>9. CASE l = "LoadSessions"
  <2>1. First(program[t], "LoadSessions", "load", AtLoadDevices(k)) /\ AtLoadDevices(k) \in Programs
    <3>1. program[t] = AtLoadSessions(k)
      BY <1>2, <1>9 DEF LoadAt
    <3>2. AtLoadDevices(k) \in Programs
      BY <1>1, <1>3 DEF LoadAt, LoadPlace
    <3>3. QED
      BY <1>1, <3>1, <3>2, LoadFirst
  <2>2. LoadSessions(t, TRUE)
    BY <2>1, Executed DEF Execute
  <2>3. Next1(t)
    BY <2>2 DEF LoadSessions
  <2>4. Alone(t) /\ program'[t] = AtLoadDevices(k)
    BY <2>1, <2>3, NextAlone
  <2>5. At(t, "LoadDevices", e)'
    BY <2>4, ToLoad DEF LoadAt, LoadPlace
  <2>6. Goes(t, l, e, "LoadDevices", e)
    BY <1>9, <2>2 DEF Goes
  <2>7. QED
    BY <2>4, <2>5, <2>6
<1>10. CASE l = "LoadDevices"
  <2>1. First(program[t], "LoadDevices", "load", k) /\ k \in Programs
    <3>1. program[t] = AtLoadDevices(k)
      BY <1>2, <1>10 DEF LoadAt
    <3>2. k \in Programs
      BY <1>1, <1>3 DEF LoadAt, LoadPlace
    <3>3. QED
      BY <1>1, <3>1, <3>2, LoadFirst
  <2>2. LoadDevices(t, TRUE)
    BY <2>1, Executed DEF Execute
  <2>3. Next1(t)
    BY <2>2 DEF LoadDevices
  <2>4. Alone(t) /\ program'[t] = k
    BY <2>1, <2>3, NextAlone
  <2>5. At(t, AfterLoad(t), e)'
    BY <2>4, ToLoaded
  <2>6. Goes(t, l, e, AfterLoad(t), e)
    BY <1>10, <2>2 DEF Goes
  <2>7. QED
    BY <2>4, <2>5, <2>6
<1>11. CASE l = "LoadKey"
  <2>1. First(program[t], "LoadKey", "load", AtLoadAccount(k)) /\ AtLoadAccount(k) \in Programs /\ AtDeleteKey(k) \in Programs
    <3>1. program[t] = AtLoadKey(k)
      BY <1>2, <1>11 DEF LoadAt
    <3>2. AtLoadAccount(k) \in Programs /\ AtDeleteKey(k) \in Programs
      BY <1>1, <1>3 DEF LoadAt, LoadPlace
    <3>3. QED
      BY <1>1, <3>1, <3>2, LoadFirst
  <2>2. LoadKey(t, TRUE)
    BY <2>1, Executed DEF Execute
  <2>3. SaveKey \o AtLoadAccount(k) = AtDeleteKey(k)
    BY <1>1, KeyBefore DEF Cat
  <2>4. Run(t, IF disk.key # None THEN AtLoadAccount(k) ELSE AtDeleteKey(k))
    BY <2>1, <2>2, <2>3 DEF LoadKey, First
  <2>5. Alone(t) /\ program'[t] = IF disk.key # None THEN AtLoadAccount(k) ELSE AtDeleteKey(k)
    BY <2>1, <2>4, RunAlone
  <2>6. CASE disk.key # None
    <3>1. At(t, "LoadAccount", e)'
      BY <2>5, <2>6, ToLoad DEF LoadAt, LoadPlace
    <3>2. Goes(t, l, e, "LoadAccount", e)
      BY <1>11, <2>2, <2>6 DEF Goes, AfterKey
    <3>3. QED
      BY <2>5, <3>1, <3>2
  <2>7. CASE ~(disk.key # None)
    <3>1. At(t, "DeleteKey", e)'
      BY <2>5, <2>7, ToLoad DEF LoadAt, LoadPlace
    <3>2. Goes(t, l, e, "DeleteKey", e)
      BY <1>11, <2>2, <2>7 DEF Goes, NewKey
    <3>3. QED
      BY <2>5, <3>1, <3>2
  <2>8. QED
    BY <2>6, <2>7
<1>12. CASE l = "LoadKey2"
  <2>1. First(program[t], "LoadKey", "load", AtMakeAccount(k)) /\ AtMakeAccount(k) \in Programs /\ AtDeleteKey2(k) \in Programs
    <3>1. program[t] = AtLoadKey2(k)
      BY <1>2, <1>12 DEF LoadAt
    <3>2. AtMakeAccount(k) \in Programs /\ AtDeleteKey2(k) \in Programs
      BY <1>1, <1>3 DEF LoadAt, LoadPlace
    <3>3. QED
      BY <1>1, <3>1, <3>2, LoadFirst
  <2>2. LoadKey(t, TRUE)
    BY <2>1, Executed DEF Execute
  <2>3. SaveKey \o AtMakeAccount(k) = AtDeleteKey2(k)
    BY <1>1, KeyBefore DEF Cat
  <2>4. Run(t, IF disk.key # None THEN AtMakeAccount(k) ELSE AtDeleteKey2(k))
    BY <2>1, <2>2, <2>3 DEF LoadKey, First
  <2>5. Alone(t) /\ program'[t] = IF disk.key # None THEN AtMakeAccount(k) ELSE AtDeleteKey2(k)
    BY <2>1, <2>4, RunAlone
  <2>6. CASE disk.key # None
    <3>1. At(t, "MakeAccount", e)'
      BY <2>5, <2>6, ToLoad DEF LoadAt, LoadPlace
    <3>2. Goes(t, l, e, "MakeAccount", e)
      BY <1>12, <2>2, <2>6 DEF Goes, AfterKey
    <3>3. QED
      BY <2>5, <3>1, <3>2
  <2>7. CASE ~(disk.key # None)
    <3>1. At(t, "DeleteKey2", e)'
      BY <2>5, <2>7, ToLoad DEF LoadAt, LoadPlace
    <3>2. Goes(t, l, e, "DeleteKey2", e)
      BY <1>12, <2>2, <2>7 DEF Goes, NewKey
    <3>3. QED
      BY <2>5, <3>1, <3>2
  <2>8. QED
    BY <2>6, <2>7
<1>13. CASE l = "InsertKey"
  <2>1. First(program[t], "InsertKey", "key", AtLoadAccount(k)) /\ AtLoadAccount(k) \in Programs
    <3>1. program[t] = AtInsertKey(k)
      BY <1>2, <1>13 DEF LoadAt
    <3>2. AtLoadAccount(k) \in Programs
      BY <1>1, <1>3 DEF LoadAt, LoadPlace
    <3>3. QED
      BY <1>1, <3>1, <3>2, LoadFirst
  <2>2. InsertKey(t)
    BY <2>1, Executed DEF Execute
  <2>3. AfterError(t) = AtLoadAccount(k)
    <3>1. Left(program[t], "key", AtLoadAccount(k))
      BY <1>1, <1>2, <1>13, LoadPrograms
    <3>2. Head(program[t]).unit = "key"
      BY <2>1 DEF First, Stmt
    <3>3. QED
      BY <3>1, <3>2, LeftCut
  <2>4. Run(t, AtLoadAccount(k))
    BY <2>1, <2>2, <2>3 DEF InsertKey, Fails, Write, Next1, First
  <2>5. Alone(t) /\ program'[t] = AtLoadAccount(k)
    BY <2>1, <2>4, RunAlone
  <2>6. At(t, "LoadAccount", e)'
    BY <2>5, ToLoad DEF LoadAt, LoadPlace
  <2>7. Goes(t, l, e, "LoadAccount", e)
    BY <1>13, <2>2 DEF Goes, AfterKey
  <2>8. QED
    BY <2>5, <2>6, <2>7
<1>14. CASE l = "InsertKey2"
  <2>1. First(program[t], "InsertKey", "key", AtMakeAccount(k)) /\ AtMakeAccount(k) \in Programs
    <3>1. program[t] = AtInsertKey2(k)
      BY <1>2, <1>14 DEF LoadAt
    <3>2. AtMakeAccount(k) \in Programs
      BY <1>1, <1>3 DEF LoadAt, LoadPlace
    <3>3. QED
      BY <1>1, <3>1, <3>2, LoadFirst
  <2>2. InsertKey(t)
    BY <2>1, Executed DEF Execute
  <2>3. AfterError(t) = AtMakeAccount(k)
    <3>1. Left(program[t], "key", AtMakeAccount(k))
      BY <1>1, <1>2, <1>14, LoadPrograms
    <3>2. Head(program[t]).unit = "key"
      BY <2>1 DEF First, Stmt
    <3>3. QED
      BY <3>1, <3>2, LeftCut
  <2>4. Run(t, AtMakeAccount(k))
    BY <2>1, <2>2, <2>3 DEF InsertKey, Fails, Write, Next1, First
  <2>5. Alone(t) /\ program'[t] = AtMakeAccount(k)
    BY <2>1, <2>4, RunAlone
  <2>6. At(t, "MakeAccount", e)'
    BY <2>5, ToLoad DEF LoadAt, LoadPlace
  <2>7. Goes(t, l, e, "MakeAccount", e)
    BY <1>14, <2>2 DEF Goes, AfterKey
  <2>8. QED
    BY <2>5, <2>6, <2>7
<1>15. CASE l = "InsertAccount1"
  <2>1. First(program[t], "InsertAccount", "generate", AtDeleteAccount2(k)) /\ AtDeleteAccount2(k) \in Programs
    <3>1. program[t] = AtInsertAccount1(k)
      BY <1>2, <1>15 DEF LoadAt
    <3>2. AtDeleteAccount2(k) \in Programs
      BY <1>1, <1>3 DEF LoadAt, LoadPlace
    <3>3. QED
      BY <1>1, <3>1, <3>2, LoadFirst
  <2>2. InsertAccount(t)
    BY <2>1, Executed DEF Execute
  <2>3. AfterError(t) = AtDeleteAccount2(k)
    <3>1. Left(program[t], "generate", AtDeleteAccount2(k))
      BY <1>1, <1>2, <1>15, LoadPrograms
    <3>2. Head(program[t]).unit = "generate"
      BY <2>1 DEF First, Stmt
    <3>3. QED
      BY <3>1, <3>2, LeftCut
  <2>4. Run(t, AtDeleteAccount2(k))
    BY <2>1, <2>2, <2>3 DEF InsertAccount, Fails, Next1, First
  <2>5. Alone(t) /\ program'[t] = AtDeleteAccount2(k)
    BY <2>1, <2>4, RunAlone
  <2>6. At(t, "DeleteAccount2", e)'
    BY <2>5, ToLoad DEF LoadAt, LoadPlace
  <2>7. Goes(t, l, e, "DeleteAccount2", e)
    BY <1>15, <2>2 DEF Goes
  <2>8. QED
    BY <2>5, <2>6, <2>7
<1>16. CASE l = "InsertAccount2"
  <2>1. First(program[t], "InsertAccount", "regenerate", k) /\ k \in Programs
    <3>1. program[t] = AtInsertAccount2(k)
      BY <1>2, <1>16 DEF LoadAt
    <3>2. k \in Programs
      BY <1>1, <1>3 DEF LoadAt, LoadPlace
    <3>3. QED
      BY <1>1, <3>1, <3>2, LoadFirst
  <2>2. InsertAccount(t)
    BY <2>1, Executed DEF Execute
  <2>3. AfterError(t) = k
    <3>1. Left(program[t], "regenerate", k)
      BY <1>1, <1>2, <1>16, LoadPrograms
    <3>2. Head(program[t]).unit = "regenerate"
      BY <2>1 DEF First, Stmt
    <3>3. QED
      BY <3>1, <3>2, LeftCut
  <2>4. Run(t, k)
    BY <2>1, <2>2, <2>3 DEF InsertAccount, Fails, Next1, First
  <2>5. Alone(t) /\ program'[t] = k
    BY <2>1, <2>4, RunAlone
  <2>6. At(t, AfterLoad(t), e)'
    BY <2>5, ToLoaded
  <2>7. Goes(t, l, e, AfterLoad(t), e)
    BY <1>16, <2>2 DEF Goes
  <2>8. QED
    BY <2>5, <2>6, <2>7
<1>17. CASE l = "LoadAccount"
  <2>1. First(program[t], "LoadAccount", "load", k)
    <3>1. program[t] = AtLoadAccount(k)
      BY <1>2, <1>17 DEF LoadAt
    <3>2. QED
      BY <1>1, <3>1, LoadFirst
  <2>2. LoadAccount(t, TRUE)
    BY <2>1, Executed DEF Execute
  <2>3. LoadRest \o k = AtLoadSessions(k) /\ Generate \o k = AtLoadKey2(k)
    <3>1. Cat(LoadRest, k) = AtLoadSessions(k)
      BY <1>1, KeyBefore
    <3>2. Cat(Generate, k) = AtLoadKey2(k)
      BY <1>1, GenerateBefore
    <3>3. QED
      BY <3>1, <3>2 DEF Cat
  <2>4. CASE Readable(t)
    <3>1. Run(t, AtLoadSessions(k)) /\ AtLoadSessions(k) \in Programs
      <4>1. Run(t, AtLoadSessions(k))
        BY <2>1, <2>2, <2>3, <2>4 DEF LoadAccount, Readable, First
      <4>2. QED
        BY <1>3, <4>1 DEF LoadAt, LoadPlace
    <3>2. Alone(t) /\ program'[t] = AtLoadSessions(k)
      BY <3>1, RunAlone
    <3>3. At(t, "LoadSessions", e)'
      BY <3>2, ToLoad DEF LoadAt, LoadPlace
    <3>4. Goes(t, l, e, "LoadSessions", e)
      BY <1>17, <2>2, <2>4 DEF Goes
    <3>5. QED
      BY <3>2, <3>3, <3>4
  <2>5. CASE ~Readable(t)
    <3>1. Run(t, AtLoadKey2(k)) /\ AtLoadKey2(k) \in Programs
      <4>1. Run(t, AtLoadKey2(k))
        BY <2>1, <2>2, <2>3, <2>5 DEF LoadAccount, Readable, First
      <4>2. QED
        BY <1>3, <4>1 DEF LoadAt, LoadPlace
    <3>2. Alone(t) /\ program'[t] = AtLoadKey2(k)
      BY <3>1, RunAlone
    <3>3. At(t, "LoadKey2", e)'
      BY <3>2, ToLoad DEF LoadAt, LoadPlace
    <3>4. Goes(t, l, e, "LoadKey2", e)
      BY <1>17, <2>2, <2>5 DEF Goes
    <3>5. QED
      BY <3>2, <3>3, <3>4
  <2>6. QED
    BY <2>4, <2>5
<1>18. QED
  BY <1>4, <1>5, <1>6, <1>7, <1>8, <1>9, <1>10, <1>11, <1>12, <1>13, <1>14, <1>15, <1>16, <1>17 DEF LoadPlace

\* From a place of a save to another.
LEMMA ToSave ==
  ASSUME NEW l \in SavePlace, NEW e, At("worker", l, e), NEW m \in SavePlace, program'["worker"] = SaveAt(m, e)
  PROVE  At("worker", m, e)'
<1>1. e \in Ends("worker")
  BY DEF At, LoadPlace, SavePlace
<1>2. QED
  BY <1>1 DEF At

\* From a place of a save to its end.
LEMMA ToEnd ==
  ASSUME NEW l \in SavePlace, NEW e, At("worker", l, e), program'["worker"] = e
  PROVE  At("worker", "end", e)'
<1>1. e \in Ends("worker")
  BY DEF At, LoadPlace, SavePlace
<1>2. QED
  BY <1>1 DEF At

\* Where a statement of a save leads, when it succeeds.
LEMMA SaveGoes ==
  ASSUME program \in [Thread -> Programs], NEW l \in SavePlace, NEW e, At("worker", l, e), Step("worker")
  PROVE  Alone("worker") /\ \E m, f : At("worker", m, f)' /\ Goes("worker", l, e, m, f)
<1>1. e \in Programs /\ \A unit \in {"key", "generate", "regenerate", "save"} : Without(e, unit)
  <2>1. e \in Ends("worker")
    BY DEF At, LoadPlace, SavePlace
  <2>2. QED
    BY <2>1, EndsKnown DEF Thread
<1>2. program["worker"] = SaveAt(l, e)
  BY DEF At, LoadPlace, SavePlace
<1>3. \A x \in SavePlace : SaveAt(x, e) \in Programs /\ Left(SaveAt(x, e), "save", e)
  BY <1>1, SavePrograms
<1>4. "worker" \in Thread
  BY DEF Thread
<1>5. CASE l = "DeleteAccount"
  <2>1. First(program["worker"], "DeleteAccount", "save", AtInsertAccount(e)) /\ AtInsertAccount(e) \in Programs
    <3>1. program["worker"] = AtDeleteAccount(e)
      BY <1>2, <1>5 DEF SaveAt
    <3>2. AtInsertAccount(e) \in Programs
      BY <1>1, <1>3 DEF SaveAt, SavePlace
    <3>3. QED
      BY <1>1, <3>1, <3>2, SaveFirst
  <2>2. Write("worker", [disk EXCEPT !.account = None])
    BY <2>1, Executed DEF Execute
  <2>3. Next1("worker")
    BY <2>2 DEF Write
  <2>4. Alone("worker") /\ program'["worker"] = AtInsertAccount(e)
    BY <1>4, <2>1, <2>3, NextAlone
  <2>5. At("worker", "InsertAccount", e)'
    BY <2>4, ToSave DEF SaveAt, SavePlace
  <2>6. Goes("worker", l, e, "InsertAccount", e)
    BY <1>5, <2>2 DEF Goes
  <2>7. QED
    BY <2>4, <2>5, <2>6
<1>6. CASE l = "DeleteSessions"
  <2>1. First(program["worker"], "DeleteSessions", "save", AtInsertSession(e)) /\ AtInsertSession(e) \in Programs
    <3>1. program["worker"] = AtDeleteSessions(e)
      BY <1>2, <1>6 DEF SaveAt
    <3>2. AtInsertSession(e) \in Programs
      BY <1>1, <1>3 DEF SaveAt, SavePlace
    <3>3. QED
      BY <1>1, <3>1, <3>2, SaveFirst
  <2>2. Write("worker", [disk EXCEPT !.sessions = NoSessions])
    BY <2>1, Executed DEF Execute
  <2>3. Next1("worker")
    BY <2>2 DEF Write
  <2>4. Alone("worker") /\ program'["worker"] = AtInsertSession(e)
    BY <1>4, <2>1, <2>3, NextAlone
  <2>5. At("worker", "InsertSession", e)'
    BY <2>4, ToSave DEF SaveAt, SavePlace
  <2>6. Goes("worker", l, e, "InsertSession", e)
    BY <1>6, <2>2 DEF Goes
  <2>7. QED
    BY <2>4, <2>5, <2>6
<1>7. CASE l = "DeleteDevices"
  <2>1. First(program["worker"], "DeleteDevices", "save", AtInsertDevice(e)) /\ AtInsertDevice(e) \in Programs
    <3>1. program["worker"] = AtDeleteDevices(e)
      BY <1>2, <1>7 DEF SaveAt
    <3>2. AtInsertDevice(e) \in Programs
      BY <1>1, <1>3 DEF SaveAt, SavePlace
    <3>3. QED
      BY <1>1, <3>1, <3>2, SaveFirst
  <2>2. Write("worker", [disk EXCEPT !.devices = {}])
    BY <2>1, Executed DEF Execute
  <2>3. Next1("worker")
    BY <2>2 DEF Write
  <2>4. Alone("worker") /\ program'["worker"] = AtInsertDevice(e)
    BY <1>4, <2>1, <2>3, NextAlone
  <2>5. At("worker", "InsertDevice", e)'
    BY <2>4, ToSave DEF SaveAt, SavePlace
  <2>6. Goes("worker", l, e, "InsertDevice", e)
    BY <1>7, <2>2 DEF Goes
  <2>7. QED
    BY <2>4, <2>5, <2>6
<1>8. CASE l = "Saved"
  <2>1. First(program["worker"], "Saved", "save", e) /\ e \in Programs
    <3>1. program["worker"] = AtSaved(e)
      BY <1>2, <1>8 DEF SaveAt
    <3>2. e \in Programs
      BY <1>1, <1>3 DEF SaveAt, SavePlace
    <3>3. QED
      BY <1>1, <3>1, <3>2, SaveFirst
  <2>2. Saved("worker")
    BY <2>1, Executed DEF Execute
  <2>3. Next1("worker")
    BY <2>2 DEF Saved
  <2>4. Alone("worker") /\ program'["worker"] = e
    BY <1>4, <2>1, <2>3, NextAlone
  <2>5. At("worker", "end", e)'
    BY <2>4, ToEnd
  <2>6. Goes("worker", l, e, "end", e)
    BY <1>8, <2>2 DEF Goes
  <2>7. QED
    BY <2>4, <2>5, <2>6
<1>9. CASE l = "InsertAccount"
  <2>1. First(program["worker"], "InsertAccount", "save", AtDeleteSessions(e)) /\ AtDeleteSessions(e) \in Programs
    <3>1. program["worker"] = AtInsertAccount(e)
      BY <1>2, <1>9 DEF SaveAt
    <3>2. AtDeleteSessions(e) \in Programs
      BY <1>3 DEF SaveAt, SavePlace
    <3>3. QED
      BY <1>1, <3>1, <3>2, SaveFirst
  <2>2. InsertAccount("worker")
    BY <2>1, Executed DEF Execute
  <2>3. AfterError("worker") = e
    <3>1. Left(program["worker"], "save", e)
      BY <1>2, <1>3
    <3>2. Head(program["worker"]).unit = "save"
      BY <2>1 DEF First, Stmt
    <3>3. QED
      BY <3>1, <3>2, LeftCut
  <2>4. CASE disk.account # None
    <3>1. Run("worker", e)
      BY <2>2, <2>3, <2>4 DEF InsertAccount, Fails
    <3>2. Alone("worker") /\ program'["worker"] = e
      BY <1>1, <1>4, <3>1, RunAlone
    <3>3. At("worker", "end", e)'
      BY <3>2, ToEnd
    <3>4. Goes("worker", l, e, "end", e)
      BY <1>9, <2>2, <2>4 DEF Goes
    <3>5. QED
      BY <3>2, <3>3, <3>4
  <2>5. CASE ~(disk.account # None)
    <3>1. Next1("worker")
      BY <2>2, <2>5 DEF InsertAccount
    <3>2. Alone("worker") /\ program'["worker"] = AtDeleteSessions(e)
      BY <1>4, <2>1, <3>1, NextAlone
    <3>3. At("worker", "DeleteSessions", e)'
      BY <3>2, ToSave DEF SaveAt, SavePlace
    <3>4. Goes("worker", l, e, "DeleteSessions", e)
      BY <1>9, <2>2, <2>5 DEF Goes
    <3>5. QED
      BY <3>2, <3>3, <3>4
  <2>6. QED
    BY <2>4, <2>5
<1>10. CASE l = "InsertSession"
  <2>1. First(program["worker"], "InsertSession", "save", AtDeleteDevices(e)) /\ AtDeleteDevices(e) \in Programs
    <3>1. program["worker"] = AtInsertSession(e)
      BY <1>2, <1>10 DEF SaveAt
    <3>2. AtDeleteDevices(e) \in Programs
      BY <1>3 DEF SaveAt, SavePlace
    <3>3. QED
      BY <1>1, <3>1, <3>2, SaveFirst
  <2>2. InsertSession("worker")
    BY <2>1, Executed DEF Execute
  <2>3. AfterError("worker") = e
    <3>1. Left(program["worker"], "save", e)
      BY <1>2, <1>3
    <3>2. Head(program["worker"]).unit = "save"
      BY <2>1 DEF First, Stmt
    <3>3. QED
      BY <3>1, <3>2, LeftCut
  <2>4. CASE Write("worker", disk) /\ \A p \in Peer : disk.sessions[p] = Manager("worker").sessions[p]
    <3>1. Alone("worker") /\ program'["worker"] = AtDeleteDevices(e)
      BY <1>4, <2>1, <2>4, NextAlone DEF Write
    <3>2. At("worker", "DeleteDevices", e)'
      BY <3>1, ToSave DEF SaveAt, SavePlace
    <3>3. Goes("worker", l, e, "DeleteDevices", e)
      BY <1>10, <2>4 DEF Goes
    <3>4. QED
      BY <3>1, <3>2, <3>3
  <2>5. CASE /\ Fails("worker")
             /\ \E p \in Peer : disk.sessions[p] # None /\ disk.sessions[p] # Manager("worker").sessions[p]
    <3>1. Alone("worker") /\ program'["worker"] = e
      BY <1>1, <1>4, <2>3, <2>5, RunAlone DEF Fails
    <3>2. At("worker", "end", e)'
      BY <3>1, ToEnd
    <3>3. Goes("worker", l, e, "end", e)
      BY <1>10, <2>5 DEF Goes
    <3>4. QED
      BY <3>1, <3>2, <3>3
  <2>6. CASE /\ \E p \in Peer : /\ disk.sessions[p] = None
                               /\ disk' = [disk EXCEPT !.sessions[p] = Manager("worker").sessions[p]]
             /\ UNCHANGED <<mem, local, program, fresh, identity, unsaved>>
    <3>1. Alone("worker") /\ program'["worker"] = program["worker"]
      BY <1>4, <2>6, StillAlone
    <3>2. At("worker", "InsertSession", e)'
      BY <1>2, <1>10, <3>1, ToSave DEF SavePlace
    <3>3. Goes("worker", l, e, "InsertSession", e)
      BY <1>10, <2>6 DEF Goes
    <3>4. QED
      BY <3>1, <3>2, <3>3
  <2>7. QED
    <3>1. \/ Write("worker", disk) /\ \A p \in Peer : disk.sessions[p] = Manager("worker").sessions[p]
          \/ /\ Fails("worker")
             /\ \E p \in Peer : disk.sessions[p] # None /\ disk.sessions[p] # Manager("worker").sessions[p]
          \/ /\ \E p \in Peer : /\ disk.sessions[p] = None
                               /\ disk' = [disk EXCEPT !.sessions[p] = Manager("worker").sessions[p]]
             /\ UNCHANGED <<mem, local, program, fresh, identity, unsaved>>
      BY <2>2 DEF InsertSession
    <3>2. QED
      BY <2>4, <2>5, <2>6, <3>1
<1>11. CASE l = "InsertDevice"
  <2>1. First(program["worker"], "InsertDevice", "save", AtSaved(e)) /\ AtSaved(e) \in Programs
    <3>1. program["worker"] = AtInsertDevice(e)
      BY <1>2, <1>11 DEF SaveAt
    <3>2. AtSaved(e) \in Programs
      BY <1>3 DEF SaveAt, SavePlace
    <3>3. QED
      BY <1>1, <3>1, <3>2, SaveFirst
  <2>2. InsertDevice("worker")
    BY <2>1, Executed DEF Execute
  <2>4. CASE Write("worker", disk) /\ Manager("worker").devices \subseteq disk.devices
    <3>1. Alone("worker") /\ program'["worker"] = AtSaved(e)
      BY <1>4, <2>1, <2>4, NextAlone DEF Write
    <3>2. At("worker", "Saved", e)'
      BY <3>1, ToSave DEF SaveAt, SavePlace
    <3>3. Goes("worker", l, e, "Saved", e)
      BY <1>11, <2>4 DEF Goes
    <3>4. QED
      BY <3>1, <3>2, <3>3
  <2>5. CASE /\ \E d \in Manager("worker").devices : disk' = [disk EXCEPT !.devices = @ \cup {d}]
             /\ UNCHANGED <<mem, local, program, fresh, identity, unsaved>>
    <3>1. Alone("worker") /\ program'["worker"] = program["worker"]
      BY <1>4, <2>5, StillAlone
    <3>2. At("worker", "InsertDevice", e)'
      BY <1>2, <1>11, <3>1, ToSave DEF SavePlace
    <3>3. Goes("worker", l, e, "InsertDevice", e)
      BY <1>11, <2>5 DEF Goes
    <3>4. QED
      BY <3>1, <3>2, <3>3
  <2>6. QED
    BY <2>2, <2>4, <2>5 DEF InsertDevice
<1>12. QED
  BY <1>5, <1>6, <1>7, <1>8, <1>9, <1>10, <1>11 DEF SavePlace

\* Where the last statement of a program leads.
LEMMA EndGoes ==
  ASSUME NEW t \in Thread, program \in [Thread -> Programs], NEW e, At(t, "end", e), Step(t)
  PROVE  Alone(t) /\ \E m, f : At(t, m, f)' /\ Goes(t, "end", e, m, f)
<1>1. e \in Ends(t) /\ program[t] = e /\ e # <<>>
  BY DEF At, LoadPlace, SavePlace, Step, Idle
<1>2. <<>> \in Programs
  BY EndPrograms
<1>3. ASSUME program'[t] = <<>> PROVE At(t, "end", <<>>)'
  BY <1>3 DEF At, Ends
<1>4. CASE e = Installing
  <2>1. First(program[t], "Install", "install", <<>>)
    BY <1>1, <1>4, EndFirst
  <2>2. Install(t)
    BY <2>1, Executed DEF Execute
  <2>3. Next1(t)
    BY <2>2 DEF Install, Close
  <2>4. Alone(t) /\ program'[t] = <<>>
    BY <1>2, <2>1, <2>3, NextAlone
  <2>5. Goes(t, "end", e, "end", <<>>)
    BY <1>4, <2>2 DEF Goes
  <2>6. QED
    BY <1>3, <2>4, <2>5
<1>5. CASE e = Dropping
  <2>1. First(program[t], "Drop", "drop", <<>>)
    BY <1>1, <1>5, EndFirst
  <2>2. Drop(t)
    BY <2>1, Executed DEF Execute
  <2>3. Next1(t)
    BY <2>2 DEF Drop
  <2>4. Alone(t) /\ program'[t] = <<>>
    BY <1>2, <2>1, <2>3, NextAlone
  <2>5. Goes(t, "end", e, "end", <<>>)
    BY <1>5, <2>2 DEF Goes
  <2>6. QED
    BY <1>3, <2>4, <2>5
<1>6. CASE e = Closing
  <2>1. First(program[t], "Close", "close", <<>>)
    BY <1>1, <1>6, EndFirst
  <2>2. Close(t) /\ UNCHANGED mem
    BY <2>1, Executed DEF Execute
  <2>3. Next1(t)
    BY <2>2 DEF Close
  <2>4. Alone(t) /\ program'[t] = <<>>
    BY <1>2, <2>1, <2>3, NextAlone
  <2>5. Goes(t, "end", e, "end", <<>>)
    BY <1>6, <2>2 DEF Goes
  <2>6. QED
    BY <1>3, <2>4, <2>5
<1>7. QED
  BY <1>1, <1>4, <1>5, <1>6 DEF Ends

\* Step(t) goes from a place to a place.
LEMMA StepGoes ==
  ASSUME NEW t \in Thread, program \in [Thread -> Programs], NEW l, NEW e, At(t, l, e), Step(t)
  PROVE  Alone(t) /\ \E m, f : At(t, m, f)' /\ Goes(t, l, e, m, f)
<1>1. CASE l \in LoadPlace
  BY <1>1, LoadGoes
<1>2. CASE l \in SavePlace /\ t = "worker"
  BY <1>2, SaveGoes
<1>3. CASE l = "end"
  BY <1>3, EndGoes
<1>4. QED
  BY <1>1, <1>2, <1>3 DEF At

\* What a statement that fails leaves undone and where that leads.
Falls(t, l, e, m) ==
  \/ /\ l \in {"LoadKey", "LoadKey2"} /\ LoadKey(t, FALSE)
     /\ m = NewKey(l)
  \/ /\ l = "LoadAccount" /\ LoadAccount(t, FALSE)
     /\ m = "LoadKey2"
  \/ /\ l = "LoadSessions" /\ LoadSessions(t, FALSE)
     /\ m = "LoadDevices"
  \/ /\ l = "LoadDevices" /\ LoadDevices(t, FALSE)
     /\ m = AfterLoad(t)
  \/ /\ Fails(t)
     /\ \/ l \in {"DeleteKey", "InsertKey", "DeleteKey2", "InsertKey2"} /\ m = AfterKey(l)
        \/ l \in {"DeleteAccount1", "InsertAccount1"} /\ m = "DeleteAccount2"
        \/ l \in {"DeleteAccount2", "InsertAccount2"} /\ m = AfterLoad(t)
        \/ l \in SavePlace /\ m = "end"

\* The statement that fails.
Failing(t, op) ==
  CASE op = "LoadKey"      -> LoadKey(t, FALSE)
    [] op = "LoadAccount"  -> LoadAccount(t, FALSE)
    [] op = "LoadSessions" -> LoadSessions(t, FALSE)
    [] op = "LoadDevices"  -> LoadDevices(t, FALSE)
    [] OTHER               -> op \notin NotSql /\ Fails(t)

\* Error(t) is the failure of the first statement.
LEMMA FailingOp ==
  ASSUME NEW t, NEW op, NEW unit, NEW k, First(program[t], op, unit, k), Error(t)
  PROVE  Failing(t, op)
<1>1. Head(program[t]).op = op
  BY DEF First, Stmt
<1>2. QED
  BY <1>1 DEF Error, Failing

\* Where a statement of a load leads, when it fails.
LEMMA LoadFalls ==
  ASSUME NEW t \in Thread, program \in [Thread -> Programs], NEW l \in LoadPlace, NEW e, At(t, l, e), Error(t)
  PROVE  Alone(t) /\ \E m : At(t, m, e)' /\ Falls(t, l, e, m)
<1> DEFINE k == Loadeds(t)
<1>1. k \in Programs /\ \A unit \in {"key", "generate", "regenerate"} : Without(k, unit)
  BY LoadedProgram
<1>2. program[t] = LoadAt(l, k)
  BY DEF At, LoadPlace, SavePlace
<1>3. \A x \in LoadPlace : LoadAt(x, k) \in Programs
  BY <1>1, LoadPrograms
<1>4. CASE l = "LoadKey"
  <2>1. First(program[t], "LoadKey", "load", AtLoadAccount(k)) /\ AtDeleteKey(k) \in Programs
    <3>1. program[t] = AtLoadKey(k)
      BY <1>2, <1>4 DEF LoadAt
    <3>2. AtDeleteKey(k) \in Programs
      BY <1>1, <1>3 DEF LoadAt, LoadPlace
    <3>3. QED
      BY <1>1, <3>1, <3>2, LoadFirst
  <2>2. LoadKey(t, FALSE)
    BY <2>1, FailingOp DEF Failing
  <2>3. SaveKey \o AtLoadAccount(k) = AtDeleteKey(k)
    BY <1>1, KeyBefore DEF Cat
  <2>4. Run(t, AtDeleteKey(k))
    BY <2>1, <2>2, <2>3 DEF LoadKey, First
  <2>5. Alone(t) /\ program'[t] = AtDeleteKey(k)
    BY <2>1, <2>4, RunAlone
  <2>6. At(t, "DeleteKey", e)'
    BY <2>5, ToLoad DEF LoadAt, LoadPlace
  <2>7. Falls(t, l, e, "DeleteKey")
    BY <1>4, <2>2 DEF Falls, NewKey
  <2>8. QED
    BY <2>5, <2>6, <2>7
<1>5. CASE l = "LoadKey2"
  <2>1. First(program[t], "LoadKey", "load", AtMakeAccount(k)) /\ AtDeleteKey2(k) \in Programs
    <3>1. program[t] = AtLoadKey2(k)
      BY <1>2, <1>5 DEF LoadAt
    <3>2. AtDeleteKey2(k) \in Programs
      BY <1>1, <1>3 DEF LoadAt, LoadPlace
    <3>3. QED
      BY <1>1, <3>1, <3>2, LoadFirst
  <2>2. LoadKey(t, FALSE)
    BY <2>1, FailingOp DEF Failing
  <2>3. SaveKey \o AtMakeAccount(k) = AtDeleteKey2(k)
    BY <1>1, KeyBefore DEF Cat
  <2>4. Run(t, AtDeleteKey2(k))
    BY <2>1, <2>2, <2>3 DEF LoadKey, First
  <2>5. Alone(t) /\ program'[t] = AtDeleteKey2(k)
    BY <2>1, <2>4, RunAlone
  <2>6. At(t, "DeleteKey2", e)'
    BY <2>5, ToLoad DEF LoadAt, LoadPlace
  <2>7. Falls(t, l, e, "DeleteKey2")
    BY <1>5, <2>2 DEF Falls, NewKey
  <2>8. QED
    BY <2>5, <2>6, <2>7
<1>6. CASE l = "LoadAccount"
  <2>1. First(program[t], "LoadAccount", "load", k) /\ AtLoadKey2(k) \in Programs
    <3>1. program[t] = AtLoadAccount(k)
      BY <1>2, <1>6 DEF LoadAt
    <3>2. AtLoadKey2(k) \in Programs
      BY <1>3 DEF LoadAt, LoadPlace
    <3>3. QED
      BY <1>1, <3>1, <3>2, LoadFirst
  <2>2. LoadAccount(t, FALSE)
    BY <2>1, FailingOp DEF Failing
  <2>3. Cat(Generate, k) = AtLoadKey2(k)
    BY <1>1, GenerateBefore
  <2>4. Run(t, AtLoadKey2(k))
    BY <2>1, <2>2, <2>3 DEF LoadAccount, First, Cat
  <2>5. Alone(t) /\ program'[t] = AtLoadKey2(k)
    BY <2>1, <2>4, RunAlone
  <2>6. At(t, "LoadKey2", e)'
    BY <2>5, ToLoad DEF LoadAt, LoadPlace
  <2>7. Falls(t, l, e, "LoadKey2")
    BY <1>6, <2>2 DEF Falls
  <2>8. QED
    BY <2>5, <2>6, <2>7
<1>7. CASE l = "LoadSessions"
  <2>1. First(program[t], "LoadSessions", "load", AtLoadDevices(k)) /\ AtLoadDevices(k) \in Programs
    <3>1. program[t] = AtLoadSessions(k)
      BY <1>2, <1>7 DEF LoadAt
    <3>2. AtLoadDevices(k) \in Programs
      BY <1>1, <1>3 DEF LoadAt, LoadPlace
    <3>3. QED
      BY <1>1, <3>1, <3>2, LoadFirst
  <2>2. LoadSessions(t, FALSE)
    BY <2>1, FailingOp DEF Failing
  <2>3. Next1(t)
    BY <2>2 DEF LoadSessions
  <2>4. Alone(t) /\ program'[t] = AtLoadDevices(k)
    BY <2>1, <2>3, NextAlone
  <2>5. At(t, "LoadDevices", e)'
    BY <2>4, ToLoad DEF LoadAt, LoadPlace
  <2>6. Falls(t, l, e, "LoadDevices")
    BY <1>7, <2>2 DEF Falls
  <2>7. QED
    BY <2>4, <2>5, <2>6
<1>8. CASE l = "LoadDevices"
  <2>1. First(program[t], "LoadDevices", "load", k) /\ k \in Programs
    <3>1. program[t] = AtLoadDevices(k)
      BY <1>2, <1>8 DEF LoadAt
    <3>2. k \in Programs
      BY <1>1, <1>3 DEF LoadAt, LoadPlace
    <3>3. QED
      BY <1>1, <3>1, <3>2, LoadFirst
  <2>2. LoadDevices(t, FALSE)
    BY <2>1, FailingOp DEF Failing
  <2>3. Next1(t)
    BY <2>2 DEF LoadDevices
  <2>4. Alone(t) /\ program'[t] = k
    BY <2>1, <2>3, NextAlone
  <2>5. At(t, AfterLoad(t), e)'
    BY <2>4, ToLoaded
  <2>6. Falls(t, l, e, AfterLoad(t))
    BY <1>8, <2>2 DEF Falls
  <2>7. QED
    BY <2>4, <2>5, <2>6
<1>9. CASE l \in {"DeleteKey", "InsertKey"}
  <2>1. \E op, x : op \in {"DeleteKey", "InsertKey"} /\ First(program[t], op, "key", x)
    <3>1. program[t] \in {AtDeleteKey(k), AtInsertKey(k)}
      BY <1>2, <1>9 DEF LoadAt
    <3>2. First(AtDeleteKey(k), "DeleteKey", "key", AtInsertKey(k)) /\ First(AtInsertKey(k), "InsertKey", "key", AtLoadAccount(k))
      BY <1>1, LoadFirst
    <3>3. QED
      BY <3>1, <3>2
  <2>2. PICK op, x : op \in {"DeleteKey", "InsertKey"} /\ First(program[t], op, "key", x)
    BY <2>1
  <2>3. Fails(t)
    <3>1. Failing(t, op)
      BY <2>2, FailingOp
    <3>2. QED
      BY <2>2, <3>1 DEF Failing
  <2>4. AfterError(t) = AtLoadAccount(k)
    <3>1. Left(program[t], "key", AtLoadAccount(k))
      BY <1>1, <1>2, <1>9, LoadPrograms
    <3>2. Head(program[t]).unit = "key"
      BY <2>2 DEF First, Stmt
    <3>3. QED
      BY <3>1, <3>2, LeftCut
  <2>5. AtLoadAccount(k) \in Programs
    BY <1>1, <1>3 DEF LoadAt, LoadPlace
  <2>6. Alone(t) /\ program'[t] = AtLoadAccount(k)
    BY <2>3, <2>4, <2>5, RunAlone DEF Fails
  <2>7. At(t, "LoadAccount", e)'
    BY <2>6, ToLoad DEF LoadAt, LoadPlace
  <2>8. Falls(t, l, e, "LoadAccount")
    BY <1>9, <2>3 DEF Falls, AfterKey
  <2>9. QED
    BY <2>6, <2>7, <2>8
<1>10. CASE l \in {"DeleteKey2", "InsertKey2"}
  <2>1. \E op, x : op \in {"DeleteKey", "InsertKey"} /\ First(program[t], op, "key", x)
    <3>1. program[t] \in {AtDeleteKey2(k), AtInsertKey2(k)}
      BY <1>2, <1>10 DEF LoadAt
    <3>2. First(AtDeleteKey2(k), "DeleteKey", "key", AtInsertKey2(k)) /\ First(AtInsertKey2(k), "InsertKey", "key", AtMakeAccount(k))
      BY <1>1, LoadFirst
    <3>3. QED
      BY <3>1, <3>2
  <2>2. PICK op, x : op \in {"DeleteKey", "InsertKey"} /\ First(program[t], op, "key", x)
    BY <2>1
  <2>3. Fails(t)
    <3>1. Failing(t, op)
      BY <2>2, FailingOp
    <3>2. QED
      BY <2>2, <3>1 DEF Failing
  <2>4. AfterError(t) = AtMakeAccount(k)
    <3>1. Left(program[t], "key", AtMakeAccount(k))
      BY <1>1, <1>2, <1>10, LoadPrograms
    <3>2. Head(program[t]).unit = "key"
      BY <2>2 DEF First, Stmt
    <3>3. QED
      BY <3>1, <3>2, LeftCut
  <2>5. AtMakeAccount(k) \in Programs
    BY <1>1, <1>3 DEF LoadAt, LoadPlace
  <2>6. Alone(t) /\ program'[t] = AtMakeAccount(k)
    BY <2>3, <2>4, <2>5, RunAlone DEF Fails
  <2>7. At(t, "MakeAccount", e)'
    BY <2>6, ToLoad DEF LoadAt, LoadPlace
  <2>8. Falls(t, l, e, "MakeAccount")
    BY <1>10, <2>3 DEF Falls, AfterKey
  <2>9. QED
    BY <2>6, <2>7, <2>8
<1>11. CASE l \in {"DeleteAccount1", "InsertAccount1"}
  <2>1. \E op, x : op \in {"DeleteAccount", "InsertAccount"} /\ First(program[t], op, "generate", x)
    <3>1. program[t] \in {AtDeleteAccount1(k), AtInsertAccount1(k)}
      BY <1>2, <1>11 DEF LoadAt
    <3>2. First(AtDeleteAccount1(k), "DeleteAccount", "generate", AtInsertAccount1(k)) /\ First(AtInsertAccount1(k), "InsertAccount", "generate", AtDeleteAccount2(k))
      BY <1>1, LoadFirst
    <3>3. QED
      BY <3>1, <3>2
  <2>2. PICK op, x : op \in {"DeleteAccount", "InsertAccount"} /\ First(program[t], op, "generate", x)
    BY <2>1
  <2>3. Fails(t)
    <3>1. Failing(t, op)
      BY <2>2, FailingOp
    <3>2. QED
      BY <2>2, <3>1 DEF Failing
  <2>4. AfterError(t) = AtDeleteAccount2(k)
    <3>1. Left(program[t], "generate", AtDeleteAccount2(k))
      BY <1>1, <1>2, <1>11, LoadPrograms
    <3>2. Head(program[t]).unit = "generate"
      BY <2>2 DEF First, Stmt
    <3>3. QED
      BY <3>1, <3>2, LeftCut
  <2>5. AtDeleteAccount2(k) \in Programs
    BY <1>1, <1>3 DEF LoadAt, LoadPlace
  <2>6. Alone(t) /\ program'[t] = AtDeleteAccount2(k)
    BY <2>3, <2>4, <2>5, RunAlone DEF Fails
  <2>7. At(t, "DeleteAccount2", e)'
    BY <2>6, ToLoad DEF LoadAt, LoadPlace
  <2>8. Falls(t, l, e, "DeleteAccount2")
    BY <1>11, <2>3 DEF Falls, AfterKey
  <2>9. QED
    BY <2>6, <2>7, <2>8
<1>12. CASE l \in {"DeleteAccount2", "InsertAccount2"}
  <2>1. \E op, x : op \in {"DeleteAccount", "InsertAccount"} /\ First(program[t], op, "regenerate", x)
    <3>1. program[t] \in {AtDeleteAccount2(k), AtInsertAccount2(k)}
      BY <1>2, <1>12 DEF LoadAt
    <3>2. First(AtDeleteAccount2(k), "DeleteAccount", "regenerate", AtInsertAccount2(k)) /\ First(AtInsertAccount2(k), "InsertAccount", "regenerate", k)
      BY <1>1, LoadFirst
    <3>3. QED
      BY <3>1, <3>2
  <2>2. PICK op, x : op \in {"DeleteAccount", "InsertAccount"} /\ First(program[t], op, "regenerate", x)
    BY <2>1
  <2>3. Fails(t)
    <3>1. Failing(t, op)
      BY <2>2, FailingOp
    <3>2. QED
      BY <2>2, <3>1 DEF Failing
  <2>4. AfterError(t) = k
    <3>1. Left(program[t], "regenerate", k)
      BY <1>1, <1>2, <1>12, LoadPrograms
    <3>2. Head(program[t]).unit = "regenerate"
      BY <2>2 DEF First, Stmt
    <3>3. QED
      BY <3>1, <3>2, LeftCut
  <2>5. k \in Programs
    BY <1>1, <1>3 DEF LoadAt, LoadPlace
  <2>6. Alone(t) /\ program'[t] = k
    BY <2>3, <2>4, <2>5, RunAlone DEF Fails
  <2>7. At(t, AfterLoad(t), e)'
    BY <2>6, ToLoaded
  <2>8. Falls(t, l, e, AfterLoad(t))
    BY <1>12, <2>3 DEF Falls, AfterKey
  <2>9. QED
    BY <2>6, <2>7, <2>8
<1>13. CASE l = "MakeAccount"
  <2>1. First(program[t], "MakeAccount", "load", AtDeleteAccount1(k))
    <3>1. program[t] = AtMakeAccount(k)
      BY <1>2, <1>13 DEF LoadAt
    <3>2. QED
      BY <1>1, <3>1, LoadFirst
  <2>2. QED
    BY <2>1, FailingOp DEF Failing, NotSql
<1>14. QED
  BY <1>4, <1>5, <1>6, <1>7, <1>8, <1>9, <1>10, <1>11, <1>12, <1>13 DEF LoadPlace

\* Where a statement of a save leads, when it fails.
LEMMA SaveFalls ==
  ASSUME program \in [Thread -> Programs], NEW l \in SavePlace, NEW e, At("worker", l, e), Error("worker")
  PROVE  Alone("worker") /\ \E m : At("worker", m, e)' /\ Falls("worker", l, e, m)
<1>1. e \in Programs /\ \A unit \in {"key", "generate", "regenerate", "save"} : Without(e, unit)
  <2>1. e \in Ends("worker")
    BY DEF At, LoadPlace, SavePlace
  <2>2. QED
    BY <2>1, EndsKnown DEF Thread
<1>2. program["worker"] = SaveAt(l, e)
  BY DEF At, LoadPlace, SavePlace
<1>3. \A x \in SavePlace : SaveAt(x, e) \in Programs /\ Left(SaveAt(x, e), "save", e)
  BY <1>1, SavePrograms
<1>4. \E x : First(program["worker"], l, "save", x)
  BY <1>1, <1>2, SaveFirst DEF SaveAt, SavePlace
<1>5. PICK x : First(program["worker"], l, "save", x)
  BY <1>4
<1>6. Fails("worker")
  <2>1. Failing("worker", l)
    BY <1>5, FailingOp
  <2>2. QED
    BY <2>1 DEF Failing, SavePlace
<1>7. AfterError("worker") = e
  <2>1. Head(program["worker"]).unit = "save"
    BY <1>5 DEF First, Stmt
  <2>2. QED
    BY <1>2, <1>3, <2>1, LeftCut
<1>8. Alone("worker") /\ program'["worker"] = e
  BY <1>1, <1>6, <1>7, RunAlone DEF Fails, Thread
<1>9. At("worker", "end", e)'
  BY <1>8, ToEnd
<1>10. Falls("worker", l, e, "end")
  BY <1>6 DEF Falls
<1>11. QED
  BY <1>8, <1>9, <1>10

\* Error(t) goes from a place to a place.
LEMMA ErrorFalls ==
  ASSUME NEW t \in Thread, program \in [Thread -> Programs], NEW l, NEW e, At(t, l, e), Error(t)
  PROVE  Alone(t) /\ \E m : At(t, m, e)' /\ Falls(t, l, e, m)
<1>1. CASE l \in LoadPlace
  BY <1>1, LoadFalls
<1>2. CASE l \in SavePlace /\ t = "worker"
  BY <1>2, SaveFalls
<1>3. CASE l = "end"
  <2>1. e \in Ends(t) /\ program[t] = e /\ e # <<>>
    BY <1>3 DEF At, LoadPlace, SavePlace, Error, Idle
  <2>2. \E op, unit, k : op \in NotSql /\ First(program[t], op, unit, k)
    BY <2>1, EndFirst DEF Ends, NotSql
  <2>3. PICK op, unit, k : op \in NotSql /\ First(program[t], op, unit, k)
    BY <2>2
  <2>4. Failing(t, op)
    BY <2>3, FailingOp
  <2>5. QED
    BY <2>3, <2>4 DEF Failing, NotSql
<1>4. QED
  BY <1>1, <1>2, <1>3 DEF At


-----------------------------------------------------------------------------
\* Where programs begin.

\* The ends, as they are written in OmemoStore.
LEMMA EndsAlone ==
  /\ << Stmt("Install", "install") >> = Installing
  /\ << Stmt("Drop", "drop") >> = Dropping
  /\ << Stmt("Close", "close") >> = Closing
<1>1. \A s \in Statement : <<s>> \o <<>> = <<s>>
  BY ConcatEmptySeq
<1>2. Stmt("Install", "install") \in Statement /\ Stmt("Drop", "drop") \in Statement /\ Stmt("Close", "close") \in Statement
  BY StmtFacts, Named
<1>3. QED
  BY <1>1, <1>2 DEF Installing, Dropping, Closing, C

\* The programs of a load and of a save are programs.
LEMMA WholesIn == Load \in Programs /\ Save \in Programs
<1>1. Nil \in Programs
  BY EmptySeq DEF Programs, Nil
<1>2. Load \in Programs
  BY <1>1, Wholes, ConsIn, Named
<1>3. SaveAccount("save") \in Programs
  <2>1. C("InsertAccount", "save", Nil) \in Programs
    BY <1>1, ConsIn, Named
  <2>2. SaveAccount("save") = C("DeleteAccount", "save", C("InsertAccount", "save", Nil))
    BY Wholes
  <2>3. QED
    BY <2>1, <2>2, ConsIn, Named
<1> DEFINE a == Stmt("DeleteSessions", "save")
           b == Stmt("InsertSession", "save")
           c == Stmt("DeleteDevices", "save")
           d == Stmt("InsertDevice", "save")
           s == Stmt("Saved", "save")
<1>4. a \in Statement /\ b \in Statement /\ c \in Statement /\ d \in Statement /\ s \in Statement
  BY StmtFacts, Named
<1>5. Save = SaveAccount("save") \o <<a, b, c, d, s>>
  BY DEF Save
<1> HIDE DEF a, b, c, d, s
<1>6. <<a, b, c, d, s>> \in Programs
  BY <1>4 DEF Programs
<1>7. Save \in Programs
  BY <1>3, <1>5, <1>6, ConcatProperties DEF Programs
<1>8. QED
  BY <1>2, <1>7

\* The programs the worker and the interface start with.
LEMMA Begins ==
  ASSUME program \in [Thread -> Programs]
  PROVE  /\ Run("worker", Load \o Save \o << Stmt("Install", "install") >>) =>
              Alone("worker") /\ At("worker", "LoadKey", Installing)'
         /\ Run("worker", Save) => Alone("worker") /\ At("worker", "DeleteAccount", <<>>)'
         /\ Run("worker", Save \o << Stmt("Drop", "drop") >>) =>
              Alone("worker") /\ At("worker", "DeleteAccount", Dropping)'
         /\ Run("qr", Load \o << Stmt("Close", "close") >>) =>
              Alone("qr") /\ At("qr", "LoadKey", Closing)'
<1>1. "worker" \in Thread /\ "qr" \in Thread
  BY DEF Thread
<1>2. <<>> \in Programs /\ Installing \in Programs /\ Dropping \in Programs /\ Closing \in Programs
  BY EndPrograms
<1>3. Cat(Save, Nil) = Save
  BY WholesIn, ConcatEmptySeq DEF Cat, Nil, Programs
<1>4. Save = AtDeleteAccount(<<>>)
  BY <1>2, <1>3, SaveBefore DEF Nil
<1>5. Save \o << Stmt("Drop", "drop") >> = AtDeleteAccount(Dropping)
  BY <1>2, SaveBefore, EndsAlone DEF Cat
<1>6. Load \o << Stmt("Close", "close") >> = AtLoadKey(Closing)
  BY <1>2, KeyBefore, EndsAlone DEF Cat
<1>7. Load \o Save \o << Stmt("Install", "install") >> = AtLoadKey(AtDeleteAccount(Installing))
  <2>1. Cat(Cat(Load, Save), Installing) = Cat(Load, Cat(Save, Installing))
    BY <1>2, WholesIn, CatAssoc
  <2>2. Cat(Save, Installing) = AtDeleteAccount(Installing)
    BY <1>2, SaveBefore
  <2>3. AtDeleteAccount(Installing) \in Programs
    BY <1>1, LoadedProgram DEF Loadeds
  <2>4. Cat(Load, AtDeleteAccount(Installing)) = AtLoadKey(AtDeleteAccount(Installing))
    BY <2>3, KeyBefore
  <2>5. QED
    BY <2>1, <2>2, <2>4, EndsAlone DEF Cat
<1>8. /\ AtDeleteAccount(<<>>) \in Programs /\ AtDeleteAccount(Dropping) \in Programs
      /\ AtLoadKey(Closing) \in Programs /\ AtLoadKey(AtDeleteAccount(Installing)) \in Programs
  <2>1. \A e \in {<<>>, Dropping} : AtDeleteAccount(e) \in Programs
    <3>1. ASSUME NEW e \in {<<>>, Dropping} PROVE SaveAt("DeleteAccount", e) \in Programs
      BY <1>2, EndPrograms, SavePrograms DEF SavePlace
    <3>2. QED
      BY <3>1 DEF SaveAt
  <2>2. \A t \in Thread : LoadAt("LoadKey", Loadeds(t)) \in Programs
    <3>1. ASSUME NEW t \in Thread PROVE LoadAt("LoadKey", Loadeds(t)) \in Programs
      BY LoadedProgram, LoadPrograms DEF LoadPlace
    <3>2. QED
      BY <3>1
  <2>3. QED
    BY <1>1, <2>1, <2>2 DEF LoadAt, Loadeds
<1>9. ASSUME Run("worker", Load \o Save \o << Stmt("Install", "install") >>)
      PROVE  Alone("worker") /\ At("worker", "LoadKey", Installing)'
  <2>1. Alone("worker") /\ program'["worker"] = AtLoadKey(AtDeleteAccount(Installing))
    BY <1>1, <1>7, <1>8, <1>9, RunAlone
  <2>2. QED
    BY <2>1 DEF At, LoadPlace, LoadAt, Loadeds
<1>10. ASSUME Run("worker", Save)
      PROVE  Alone("worker") /\ At("worker", "DeleteAccount", <<>>)'
  <2>1. Alone("worker") /\ program'["worker"] = AtDeleteAccount(<<>>)
    BY <1>1, <1>4, <1>8, <1>10, RunAlone
  <2>2. QED
    BY <2>1 DEF At, SavePlace, SaveAt, Ends
<1>11. ASSUME Run("worker", Save \o << Stmt("Drop", "drop") >>)
      PROVE  Alone("worker") /\ At("worker", "DeleteAccount", Dropping)'
  <2>1. Alone("worker") /\ program'["worker"] = AtDeleteAccount(Dropping)
    BY <1>1, <1>5, <1>8, <1>11, RunAlone
  <2>2. QED
    BY <2>1 DEF At, SavePlace, SaveAt, Ends
<1>12. ASSUME Run("qr", Load \o << Stmt("Close", "close") >>)
      PROVE  Alone("qr") /\ At("qr", "LoadKey", Closing)'
  <2>1. Alone("qr") /\ program'["qr"] = AtLoadKey(Closing)
    BY <1>1, <1>6, <1>8, <1>12, RunAlone
  <2>2. QED
    BY <2>1 DEF At, LoadPlace, LoadAt, Loadeds
<1>13. QED
  BY <1>9, <1>10, <1>11, <1>12

\* A thread without a program is at the end of one, and only there.
LEMMA IdleAt ==
  ASSUME NEW t \in Thread, NEW l, NEW e, At(t, l, e)
  PROVE  Idle(t) <=> l = "end" /\ e = <<>>
<1>1. ASSUME NEW op \in Op, NEW unit \in Unit, NEW k \in Programs PROVE C(op, unit, k) # <<>>
  BY ConsFacts
<1>2. CASE l \in LoadPlace
  <2>1. program[t] = LoadAt(l, Loadeds(t)) /\ l # "end"
    BY <1>2 DEF At, LoadPlace, SavePlace
  <2>2. \E op, unit, k : First(LoadAt(l, Loadeds(t)), op, unit, k)
    <3> DEFINE q == Loadeds(t)
    <3>0. q \in Programs /\ \A unit \in {"key", "generate", "regenerate"} : Without(q, unit)
      BY LoadedProgram
    <3> HIDE DEF q
    <3>1. QED
      BY <1>2, <3>0, LoadFirst DEF LoadPlace, LoadAt, q
  <2>3. QED
    BY <2>1, <2>2 DEF First, Idle
<1>3. CASE l \in SavePlace
  <2>1. program[t] = SaveAt(l, e) /\ l # "end" /\ e \in Ends(t)
    BY <1>3 DEF At, LoadPlace, SavePlace
  <2>2. \E op, unit, k : First(SaveAt(l, e), op, unit, k)
    BY <1>3, <2>1, EndsKnown, SaveFirst DEF SavePlace, SaveAt
  <2>3. QED
    BY <2>1, <2>2 DEF First, Idle
<1>4. CASE l = "end"
  <2>1. program[t] = e
    BY <1>4 DEF At, LoadPlace, SavePlace
  <2>2. QED
    BY <1>4, <2>1 DEF Idle
<1>5. QED
  BY <1>2, <1>3, <1>4 DEF At

-----------------------------------------------------------------------------
\* Types

Maybe(S) == S \cup {None}

Sessions == [Peer -> Maybe(Session)]
Account  == [id : Nat, key : Nat]

\* A manager that is being loaded, and one that runs.
Loading == [key : Maybe(Nat), account : Maybe(Nat), sessions : Sessions, devices : SUBSET Device]
Running == [key : Nat, account : Nat, sessions : Sessions, devices : SUBSET Device]

Tables == [key : Maybe(Nat), account : Maybe(Account), sessions : Sessions, devices : SUBSET Device]

VarsOK ==
  /\ disk \in Tables
  /\ mem \in Maybe(Running)
  /\ local \in [Thread -> Loading]
  /\ program \in [Thread -> Programs]
  /\ fresh \in Nat /\ identity \in Maybe(Nat)
  /\ chains \in Nat /\ sends \in Nat /\ quits \in Nat /\ faults \in Nat /\ qrs \in Nat
  /\ used \subseteq Nat \X Nat
  /\ reused \in BOOLEAN /\ unsaved \in BOOLEAN /\ lost \in BOOLEAN

\* None is no account, session or manager.
LEMMA NoneApart ==
  /\ None \notin Nat /\ None \notin Account /\ None \notin Session /\ None \notin Running
BY NoneAssumption DEF Account, Running, Sessions, Maybe

\* The manager that is not there yet.
LEMMA NoManagerIs ==
  /\ NoManager.key = None /\ NoManager.account = None /\ NoManager.sessions = NoSessions /\ NoManager.devices = {}
  /\ NoSessions \in Sessions /\ \A p \in Peer : NoSessions[p] = None
  /\ NoManager \in Loading /\ NoManager \in Tables
<1>1. NoSessions \in Sessions /\ \A p \in Peer : NoSessions[p] = None
  BY DEF NoSessions, Sessions, Maybe
<1>2. QED
  BY <1>1 DEF NoManager, Loading, Tables, Maybe

\* A manager that runs is of the shape of one that is loaded.
LEMMA RunningLoads == Running \subseteq Loading
BY DEF Running, Loading, Maybe

\* One that has its key and its account can run.
LEMMA LoadedRuns ==
  ASSUME NEW m \in Loading, m.key \in Nat, m.account \in Nat PROVE m \in Running
BY DEF Running, Loading

\* The fields of managers and of the tables.
LEMMA Fields ==
  /\ \A m \in Loading : m.key \in Maybe(Nat) /\ m.account \in Maybe(Nat) /\ m.sessions \in Sessions /\ m.devices \subseteq Device
  /\ \A m \in Running : m.key \in Nat /\ m.account \in Nat /\ m.sessions \in Sessions /\ m.devices \subseteq Device
  /\ \A d \in Tables : d.key \in Maybe(Nat) /\ d.account \in Maybe(Account) /\ d.sessions \in Sessions /\ d.devices \subseteq Device
  /\ \A a \in Account : a.id \in Nat /\ a.key \in Nat
BY DEF Loading, Running, Tables, Account

\* The fields of sessions.
LEMMA SessionFields ==
  /\ \A S \in Sessions, p \in Peer : S[p] # None => S[p] \in Session
  /\ \A s \in Session : s.key \in Nat /\ s.owner \in Nat /\ s.chain \in Nat /\ s.index \in Nat
BY DEF Sessions, Maybe, Session

\* The manager of a thread has the shape of one that is loaded.
LEMMA ManagerLoads ==
  ASSUME VarsOK, NEW t \in Thread PROVE Manager(t) \in Loading
BY RunningLoads DEF VarsOK, Manager, Maybe

\* Tables of which one was written.
LEMMA WithKey ==
  ASSUME NEW d \in Tables, NEW k \in Maybe(Nat), NEW e, e = [d EXCEPT !.key = k]
  PROVE  e \in Tables /\ e.key = k /\ e.account = d.account /\ e.sessions = d.sessions /\ e.devices = d.devices
BY DEF Tables

\* Tables of which the account was written.
LEMMA WithAccount ==
  ASSUME NEW d \in Tables, NEW k \in Maybe(Account), NEW e, e = [d EXCEPT !.account = k]
  PROVE  e \in Tables /\ e.key = d.key /\ e.account = k /\ e.sessions = d.sessions /\ e.devices = d.devices
BY DEF Tables

\* Tables of which the sessions were written.
LEMMA WithSessions ==
  ASSUME NEW d \in Tables, NEW k \in Sessions, NEW e, e = [d EXCEPT !.sessions = k]
  PROVE  e \in Tables /\ e.key = d.key /\ e.account = d.account /\ e.sessions = k /\ e.devices = d.devices
BY DEF Tables

\* Tables of which the devices were written.
LEMMA WithDevices ==
  ASSUME NEW d \in Tables, NEW k \in SUBSET Device, NEW e, e = [d EXCEPT !.devices = k]
  PROVE  e \in Tables /\ e.key = d.key /\ e.account = d.account /\ e.sessions = d.sessions /\ e.devices = k
BY DEF Tables

\* Tables of which one session was written.
LEMMA WithSession ==
  ASSUME NEW d \in Tables, NEW p \in Peer, NEW s \in Maybe(Session), NEW e, e = [d EXCEPT !.sessions[p] = s]
  PROVE  /\ e \in Tables /\ e.key = d.key /\ e.account = d.account /\ e.devices = d.devices
         /\ e.sessions[p] = s /\ \A q \in Peer : q # p => e.sessions[q] = d.sessions[q]
<1>1. e = [d EXCEPT !.sessions = [d.sessions EXCEPT ![p] = s]]
  BY DEF Tables
<1>2. d.sessions \in Sessions
  BY Fields
<1>3. [d.sessions EXCEPT ![p] = s] \in Sessions
  BY <1>2 DEF Sessions
<1>4. e \in Tables /\ e.key = d.key /\ e.account = d.account /\ e.devices = d.devices
      /\ e.sessions = [d.sessions EXCEPT ![p] = s]
  BY <1>1, <1>3, WithSessions
<1>5. e.sessions[p] = s /\ \A q \in Peer : q # p => e.sessions[q] = d.sessions[q]
  BY <1>2, <1>4 DEF Sessions
<1>6. QED
  BY <1>4, <1>5

-----------------------------------------------------------------------------
\* What the statements of a load make of the manager that is loaded.

\* The manager a thread loads is changed, nobody else's.
LoadsAlone(t) ==
  /\ local' \in [Thread -> Loading]
  /\ \A s \in Thread : s # t => local'[s] = local[s]

\* A thread's loaded manager changes; the other thread's stays.
LEMMA LocalChange ==
  ASSUME VarsOK, NEW t \in Thread, NEW m \in Loading, local' = [local EXCEPT ![t] = m]
  PROVE  LoadsAlone(t) /\ local'[t] = m
BY DEF VarsOK, LoadsAlone

\* Neither changes.
LEMMA LocalKept ==
  ASSUME VarsOK, NEW t \in Thread, UNCHANGED local
  PROVE  LoadsAlone(t)
BY DEF VarsOK, LoadsAlone

\* After LoadKey.
LEMMA AfterLoadKey ==
  ASSUME VarsOK, NEW t \in Thread, NEW ok \in BOOLEAN, LoadKey(t, ok)
  PROVE  /\ UNCHANGED <<disk, mem, identity, unsaved>>
         /\ LoadsAlone(t) /\ local'[t].key \in Nat /\ fresh' \in Nat /\ fresh' >= fresh
         /\ local'[t].account = None /\ local'[t].sessions = NoSessions /\ local'[t].devices = {}
         /\ (ok /\ disk.key # None) => local'[t].key = disk.key
<1> DEFINE found == ok /\ disk.key # None
           k == IF found THEN disk.key ELSE fresh + 1
           m == [NoManager EXCEPT !.key = k]
<1>1. k \in Nat
  <2>1. disk.key \in Maybe(Nat) /\ fresh + 1 \in Nat
    BY Fields DEF VarsOK
  <2>2. QED
    BY <2>1 DEF Maybe
<1>2. m \in Loading /\ m.key = k /\ m.account = None /\ m.sessions = NoSessions /\ m.devices = {}
  <2> HIDE DEF k
  <2>1. k \in Maybe(Nat)
    BY <1>1 DEF Maybe
  <2>2. QED
    BY <2>1, NoManagerIs DEF Loading
<1>3. local' = [local EXCEPT ![t] = m] /\ UNCHANGED <<disk, mem, identity, unsaved>>
      /\ fresh' = IF found THEN fresh ELSE fresh + 1
  BY DEF LoadKey
<1>4. fresh' \in Nat /\ fresh' >= fresh
  BY <1>3 DEF VarsOK
<1> HIDE DEF m
<1>5. LoadsAlone(t) /\ local'[t] = m
  BY <1>2, <1>3, LocalChange
<1>6. QED
  BY <1>1, <1>2, <1>3, <1>4, <1>5

\* After LoadAccount.
LEMMA AfterLoadAccount ==
  ASSUME VarsOK, NEW t \in Thread, NEW ok \in BOOLEAN, LoadAccount(t, ok)
  PROVE  /\ UNCHANGED <<disk, mem, fresh, identity, unsaved>>
         /\ LoadsAlone(t)
         /\ local'[t].key = local[t].key /\ local'[t].sessions = local[t].sessions
         /\ local'[t].devices = local[t].devices
         /\ local'[t].account = IF ok /\ Readable(t) THEN disk.account.id ELSE None
<1> DEFINE a == IF ok /\ Readable(t) THEN disk.account.id ELSE None
           m == [local[t] EXCEPT !.account = a]
<1>1. a \in Maybe(Nat)
  <2>1. disk.account # None => disk.account.id \in Nat
    BY Fields DEF VarsOK, Maybe
  <2>2. QED
    BY <2>1 DEF Maybe, Readable
<1>2. local' = [local EXCEPT ![t] = m] /\ UNCHANGED <<disk, mem, fresh, identity, unsaved>>
  BY DEF LoadAccount, VarsOK, Readable
<1> HIDE DEF a
<1>3. m \in Loading /\ m.key = local[t].key /\ m.account = a /\ m.sessions = local[t].sessions /\ m.devices = local[t].devices
  BY <1>1 DEF Loading, VarsOK
<1> HIDE DEF m
<1>4. LoadsAlone(t) /\ local'[t] = m
  BY <1>2, <1>3, LocalChange
<1>5. QED
  BY <1>2, <1>3, <1>4 DEF a

\* After LoadSessions.
LEMMA AfterLoadSessions ==
  ASSUME VarsOK, NEW t \in Thread, NEW ok \in BOOLEAN, LoadSessions(t, ok)
  PROVE  /\ UNCHANGED <<disk, mem, fresh, identity, unsaved>>
         /\ LoadsAlone(t)
         /\ local'[t].key = local[t].key /\ local'[t].account = local[t].account
         /\ local'[t].devices = local[t].devices
         /\ \A p \in Peer : local'[t].sessions[p] =
              IF ok /\ disk.sessions[p] # None /\ disk.sessions[p].key = local[t].key
              THEN disk.sessions[p] ELSE None
<1> DEFINE a == [p \in Peer |-> IF ok /\ disk.sessions[p] # None /\ disk.sessions[p].key = local[t].key
                                THEN disk.sessions[p] ELSE None]
           m == [local[t] EXCEPT !.sessions = a]
<1>1. a \in Sessions
  <2>1. disk.sessions \in Sessions
    BY Fields DEF VarsOK
  <2>2. QED
    BY <2>1 DEF Sessions, Maybe
<1>2. local' = [local EXCEPT ![t] = m] /\ UNCHANGED <<disk, mem, fresh, identity, unsaved>>
  BY DEF LoadSessions, VarsOK
<1>a. \A p \in Peer : a[p] = IF ok /\ disk.sessions[p] # None /\ disk.sessions[p].key = local[t].key
                             THEN disk.sessions[p] ELSE None
  OBVIOUS
<1> HIDE DEF a
<1>3. m \in Loading /\ m.key = local[t].key /\ m.account = local[t].account /\ m.sessions = a /\ m.devices = local[t].devices
  BY <1>1 DEF Loading, VarsOK
<1> HIDE DEF m
<1>4. LoadsAlone(t) /\ local'[t] = m
  BY <1>2, <1>3, LocalChange
<1>5. QED
  BY <1>2, <1>3, <1>4, <1>a

\* After LoadDevices.
LEMMA AfterLoadDevices ==
  ASSUME VarsOK, NEW t \in Thread, NEW ok \in BOOLEAN, LoadDevices(t, ok)
  PROVE  /\ UNCHANGED <<disk, mem, fresh, identity, unsaved>>
         /\ LoadsAlone(t)
         /\ local'[t].key = local[t].key /\ local'[t].account = local[t].account
         /\ local'[t].sessions = local[t].sessions
         /\ local'[t].devices = IF ok THEN disk.devices ELSE {}
<1> DEFINE a == IF ok THEN disk.devices ELSE {}
           m == [local[t] EXCEPT !.devices = a]
<1>1. a \subseteq Device
  BY Fields DEF VarsOK
<1>2. local' = [local EXCEPT ![t] = m] /\ UNCHANGED <<disk, mem, fresh, identity, unsaved>>
  BY DEF LoadDevices, VarsOK
<1> HIDE DEF a
<1>3. m \in Loading /\ m.key = local[t].key /\ m.account = local[t].account /\ m.sessions = local[t].sessions /\ m.devices = a
  BY <1>1 DEF Loading, VarsOK
<1> HIDE DEF m
<1>4. LoadsAlone(t) /\ local'[t] = m
  BY <1>2, <1>3, LocalChange
<1>5. QED
  BY <1>2, <1>3, <1>4 DEF a

\* After MakeAccount.
LEMMA AfterMakeAccount ==
  ASSUME VarsOK, NEW t \in Thread, MakeAccount(t)
  PROVE  /\ UNCHANGED <<disk, mem, identity, unsaved>>
         /\ LoadsAlone(t) /\ fresh' = fresh + 1
         /\ local'[t].key = local[t].key /\ local'[t].account = fresh + 1
         /\ local'[t].sessions = local[t].sessions /\ local'[t].devices = local[t].devices
<1> DEFINE a == fresh + 1
           m == [local[t] EXCEPT !.account = a]
<1>1. a \in Maybe(Nat)
  BY DEF VarsOK, Maybe
<1>2. local' = [local EXCEPT ![t] = m] /\ UNCHANGED <<disk, mem, identity, unsaved>> /\ fresh' = fresh + 1
  BY DEF MakeAccount, VarsOK
<1> HIDE DEF a
<1>3. m \in Loading /\ m.key = local[t].key /\ m.account = a /\ m.sessions = local[t].sessions /\ m.devices = local[t].devices
  BY <1>1 DEF Loading, VarsOK
<1> HIDE DEF m
<1>4. LoadsAlone(t) /\ local'[t] = m
  BY <1>2, <1>3, LocalChange
<1>5. QED
  BY <1>2, <1>3, <1>4 DEF a

\* After Close.
LEMMA AfterClose ==
  ASSUME VarsOK, NEW t \in Thread, Close(t)
  PROVE  /\ UNCHANGED <<disk, fresh, identity, unsaved>>
         /\ LoadsAlone(t) /\ local'[t] = NoManager
BY NoManagerIs, LocalChange DEF Close

\* After InsertKey: a key that is there stays.
LEMMA AfterInsertKey ==
  ASSUME VarsOK, NEW t \in Thread, InsertKey(t)
  PROVE  /\ UNCHANGED <<mem, local, fresh, identity, unsaved>>
         /\ disk' \in Tables /\ disk'.account = disk.account /\ disk'.sessions = disk.sessions
         /\ disk'.devices = disk.devices
         /\ disk'.key = IF disk.key # None THEN disk.key ELSE local[t].key
<1>1. disk \in Tables /\ local[t].key \in Maybe(Nat)
  BY Fields DEF VarsOK
<1>2. CASE disk.key # None
  BY <1>1, <1>2 DEF InsertKey, Fails
<1>3. CASE disk.key = None
  <2>1. disk' = [disk EXCEPT !.key = local[t].key] /\ UNCHANGED <<mem, local, fresh, identity, unsaved>>
    BY <1>3 DEF InsertKey, Write
  <2>2. QED
    BY <1>1, <1>3, <2>1, WithKey
<1>4. QED
  BY <1>2, <1>3

\* After InsertAccount: an account that is there stays.
LEMMA AfterInsertAccount ==
  ASSUME VarsOK, NEW t \in Thread, InsertAccount(t), Manager(t).account \in Nat, Manager(t).key \in Nat
  PROVE  /\ UNCHANGED <<mem, local, fresh, unsaved>>
         /\ disk' \in Tables /\ disk'.key = disk.key /\ disk'.sessions = disk.sessions
         /\ disk'.devices = disk.devices
         /\ disk'.account # None
         /\ disk.account # None => disk' = disk /\ identity' = identity
         /\ disk.account = None =>
              /\ disk'.account.id = Manager(t).account /\ disk'.account.key = Manager(t).key
              /\ identity' = IF identity = None THEN Manager(t).account ELSE identity
<1>1. disk \in Tables
  BY DEF VarsOK
<1>2. CASE disk.account # None
  BY <1>1, <1>2 DEF InsertAccount, Fails
<1>3. CASE disk.account = None
  <2> DEFINE a == [id |-> Manager(t).account, key |-> Manager(t).key]
  <2>1. /\ disk' = [disk EXCEPT !.account = a] /\ UNCHANGED <<mem, local, fresh, unsaved>>
        /\ identity' = IF identity = None THEN Manager(t).account ELSE identity
    BY <1>3 DEF InsertAccount
  <2>2. a \in Account /\ a.id = Manager(t).account /\ a.key = Manager(t).key
    BY DEF Account
  <2>3. a \in Maybe(Account) /\ a # None
    BY <2>2, NoneApart DEF Maybe
  <2> HIDE DEF a
  <2>4. QED
    BY <1>1, <1>3, <2>1, <2>2, <2>3, WithAccount
<1>4. QED
  BY <1>2, <1>3

\* A statement that deletes the rows of a table.
LEMMA AfterDelete ==
  ASSUME VarsOK, NEW t \in Thread
  PROVE  /\ Write(t, [disk EXCEPT !.key = None]) =>
              /\ UNCHANGED <<mem, local, fresh, identity, unsaved>> /\ disk' \in Tables
              /\ disk'.key = None /\ disk'.account = disk.account /\ disk'.sessions = disk.sessions
              /\ disk'.devices = disk.devices
         /\ Write(t, [disk EXCEPT !.account = None]) =>
              /\ UNCHANGED <<mem, local, fresh, identity, unsaved>> /\ disk' \in Tables
              /\ disk'.key = disk.key /\ disk'.account = None /\ disk'.sessions = disk.sessions
              /\ disk'.devices = disk.devices
         /\ Write(t, [disk EXCEPT !.sessions = NoSessions]) =>
              /\ UNCHANGED <<mem, local, fresh, identity, unsaved>> /\ disk' \in Tables
              /\ disk'.key = disk.key /\ disk'.account = disk.account /\ disk'.sessions = NoSessions
              /\ disk'.devices = disk.devices
         /\ Write(t, [disk EXCEPT !.devices = {}]) =>
              /\ UNCHANGED <<mem, local, fresh, identity, unsaved>> /\ disk' \in Tables
              /\ disk'.key = disk.key /\ disk'.account = disk.account /\ disk'.sessions = disk.sessions
              /\ disk'.devices = {}
<1>1. disk \in Tables /\ None \in Maybe(Nat) /\ None \in Maybe(Account) /\ NoSessions \in Sessions /\ {} \in SUBSET Device
  BY NoManagerIs DEF VarsOK, Maybe
<1>2. ASSUME Write(t, [disk EXCEPT !.key = None])
      PROVE  /\ UNCHANGED <<mem, local, fresh, identity, unsaved>> /\ disk' \in Tables
             /\ disk'.key = None /\ disk'.account = disk.account /\ disk'.sessions = disk.sessions
             /\ disk'.devices = disk.devices
  BY <1>1, <1>2, WithKey DEF Write
<1>3. ASSUME Write(t, [disk EXCEPT !.account = None])
      PROVE  /\ UNCHANGED <<mem, local, fresh, identity, unsaved>> /\ disk' \in Tables
             /\ disk'.key = disk.key /\ disk'.account = None /\ disk'.sessions = disk.sessions
             /\ disk'.devices = disk.devices
  BY <1>1, <1>3, WithAccount DEF Write
<1>4. ASSUME Write(t, [disk EXCEPT !.sessions = NoSessions])
      PROVE  /\ UNCHANGED <<mem, local, fresh, identity, unsaved>> /\ disk' \in Tables
             /\ disk'.key = disk.key /\ disk'.account = disk.account /\ disk'.sessions = NoSessions
             /\ disk'.devices = disk.devices
  BY <1>1, <1>4, WithSessions DEF Write
<1>5. ASSUME Write(t, [disk EXCEPT !.devices = {}])
      PROVE  /\ UNCHANGED <<mem, local, fresh, identity, unsaved>> /\ disk' \in Tables
             /\ disk'.key = disk.key /\ disk'.account = disk.account /\ disk'.sessions = disk.sessions
             /\ disk'.devices = {}
  BY <1>1, <1>5, WithDevices DEF Write
<1>6. QED
  BY <1>2, <1>3, <1>4, <1>5

-----------------------------------------------------------------------------
\* Places and what is loaded there

\* The places of a load without an account.
Nameless == {"LoadKey", "DeleteKey", "InsertKey", "LoadAccount", "LoadKey2", "DeleteKey2", "InsertKey2", "MakeAccount"}

Prepared(t, l, e) ==
  /\ l \in LoadPlace => local[t].devices = {} /\ (l # "LoadDevices" => local[t].sessions = NoSessions)
  /\ l \in Nameless => local[t].account = None
  /\ e \in {Installing, Closing} =>
       /\ l # "LoadKey" => local[t].key \in Nat
       /\ l \notin Nameless => local[t].account \in Nat
       /\ t = "worker" => mem = None
  /\ e \in {<<>>, Dropping} =>
       /\ local[t] = NoManager
       /\ t = "worker" /\ (l \in SavePlace \/ e = Dropping) => mem # None

TypeOK ==
  /\ VarsOK
  /\ \A t \in Thread : \E l, e : At(t, l, e) /\ Prepared(t, l, e)

\* The ends of programs are different.
LEMMA EndsApart ==
  /\ Installing # <<>> /\ Dropping # <<>> /\ Closing # <<>>
  /\ Installing # Dropping /\ Installing # Closing /\ Dropping # Closing
<1>1. /\ Installing # <<>> /\ Head(Installing) = Stmt("Install", "install")
      /\ Dropping # <<>> /\ Head(Dropping) = Stmt("Drop", "drop")
      /\ Closing # <<>> /\ Head(Closing) = Stmt("Close", "close")
  BY EndFirst DEF First
<1>2. /\ Stmt("Install", "install").op = "Install" /\ Stmt("Drop", "drop").op = "Drop"
      /\ Stmt("Close", "close").op = "Close"
  BY DEF Stmt
<1>3. QED
  BY <1>1, <1>2

\* The places of loads and of saves are different.
LEMMA PlacesApart ==
  /\ Nameless \subseteq LoadPlace /\ "end" \notin LoadPlace /\ "end" \notin SavePlace
  /\ \A l \in SavePlace : l \notin LoadPlace
BY DEF Nameless, LoadPlace, SavePlace

\* What is at a place.
LEMMA AtLoad ==
  ASSUME NEW t \in Thread, NEW l, NEW e, At(t, l, e)
  PROVE  /\ e \in Ends(t) /\ l \in LoadPlace \cup SavePlace \cup {"end"}
         /\ l \in LoadPlace => e = IF t = "worker" THEN Installing ELSE Closing
         /\ l \in SavePlace => t = "worker"
         /\ t = "qr" => e \in {<<>>, Closing}
         /\ t = "worker" => e \in {<<>>, Installing, Dropping}
BY PlacesApart DEF At, Ends, Thread

\* What a step of thread t to m must keep of the types.
Typed(t, m, f) ==
  /\ disk' \in Tables /\ mem' \in Maybe(Running) /\ LoadsAlone(t)
  /\ fresh' \in Nat /\ identity' \in Maybe(Nat) /\ unsaved' \in BOOLEAN
  /\ t = "qr" => mem' = mem
  /\ Prepared(t, m, f)'

\* Where a save is, the manager has its key and its account.
LEMMA ManagerNamed ==
  ASSUME VarsOK, NEW t \in Thread, NEW l, NEW e, At(t, l, e), Prepared(t, l, e),
         l \in SavePlace \cup (LoadPlace \ Nameless) \/ (e \in {Installing, Closing, Dropping} /\ l = "end")
  PROVE  Manager(t).account \in Nat /\ Manager(t).key \in Nat
<1>1. e \in {<<>>, Installing, Closing, Dropping} /\ (l \in LoadPlace => e \in {Installing, Closing})
  BY AtLoad DEF Thread
<1>2. CASE e \in {Installing, Closing}
  <2>1. local[t].key \in Nat /\ local[t].account \in Nat
    BY <1>2, PlacesApart DEF Prepared, Nameless
  <2>2. Manager(t) = local[t]
    BY <1>2 DEF Prepared, Manager
  <2>3. QED
    BY <2>1, <2>2
<1>3. CASE e \in {<<>>, Dropping}
  <2>1. l \in SavePlace \/ e = Dropping
    BY <1>1, <1>3, EndsApart
  <2>2. t = "worker"
    BY <1>3, <2>1, AtLoad, EndsApart DEF Thread
  <2>3. mem # None
    BY <1>3, <2>1, <2>2 DEF Prepared
  <2>4. Manager(t) = mem /\ mem \in Running
    BY <2>2, <2>3 DEF Manager, VarsOK, Maybe
  <2>5. QED
    BY <2>4, Fields
<1>4. QED
  BY <1>1, <1>2, <1>3

\* The statements of a load keep the types.
LEMMA LoadTyped ==
  ASSUME VarsOK, NEW t \in Thread, NEW ok \in BOOLEAN, NEW l \in LoadPlace, NEW e, At(t, l, e), Prepared(t, l, e)
  PROVE  /\ \A m \in {"DeleteKey", "LoadAccount", "DeleteKey2", "MakeAccount"} : LoadKey(t, ok) => Typed(t, m, e)
         /\ l = "LoadAccount" /\ LoadAccount(t, ok) =>
              IF ok /\ Readable(t) THEN Typed(t, "LoadSessions", e) ELSE Typed(t, "LoadKey2", e)
         /\ l = "LoadSessions" /\ LoadSessions(t, ok) => Typed(t, "LoadDevices", e)
         /\ l = "LoadDevices" /\ LoadDevices(t, ok) => Typed(t, AfterLoad(t), e)
         /\ l = "MakeAccount" /\ MakeAccount(t) => Typed(t, "DeleteAccount1", e)
<1>1. e \in {Installing, Closing} /\ e \notin {<<>>, Dropping}
  BY AtLoad, EndsApart
<1>2. ASSUME NEW m \in {"DeleteKey", "LoadAccount", "DeleteKey2", "MakeAccount"}, LoadKey(t, ok)
      PROVE  Typed(t, m, e)
  <2>1. /\ UNCHANGED <<disk, mem, identity, unsaved>>
        /\ LoadsAlone(t) /\ local'[t].key \in Nat /\ fresh' \in Nat
        /\ local'[t].account = None /\ local'[t].sessions = NoSessions /\ local'[t].devices = {}
    BY <1>2, AfterLoadKey
  <2>2. Prepared(t, m, e)'
    BY <1>1, <2>1 DEF Prepared, Nameless
  <2>3. QED
    BY <2>1, <2>2 DEF Typed, VarsOK
<1>3. ASSUME l = "LoadAccount", LoadAccount(t, ok)
      PROVE  IF ok /\ Readable(t) THEN Typed(t, "LoadSessions", e) ELSE Typed(t, "LoadKey2", e)
  <2>1. /\ UNCHANGED <<disk, mem, fresh, identity, unsaved>>
        /\ LoadsAlone(t)
        /\ local'[t].key = local[t].key /\ local'[t].sessions = local[t].sessions
        /\ local'[t].devices = local[t].devices
        /\ local'[t].account = IF ok /\ Readable(t) THEN disk.account.id ELSE None
    BY <1>3, AfterLoadAccount
  <2>2. local[t].key \in Nat /\ local[t].devices = {} /\ local[t].sessions = NoSessions
    BY <1>1, <1>3 DEF Prepared
  <2>3. CASE ok /\ Readable(t)
    <3>1. disk.account.id \in Nat
      BY <2>3, Fields DEF Readable, VarsOK, Maybe
    <3>2. Prepared(t, "LoadSessions", e)'
      BY <1>1, <2>1, <2>2, <2>3, <3>1 DEF Prepared, Nameless
    <3>3. QED
      BY <2>1, <2>3, <3>2 DEF Typed, VarsOK
  <2>4. CASE ~(ok /\ Readable(t))
    <3>1. Prepared(t, "LoadKey2", e)'
      BY <1>1, <2>1, <2>2, <2>4 DEF Prepared, Nameless
    <3>2. QED
      BY <2>1, <2>4, <3>1 DEF Typed, VarsOK
  <2>5. QED
    BY <2>3, <2>4
<1>4. ASSUME l = "LoadSessions", LoadSessions(t, ok) PROVE Typed(t, "LoadDevices", e)
  <2>1. /\ UNCHANGED <<disk, mem, fresh, identity, unsaved>>
        /\ LoadsAlone(t)
        /\ local'[t].key = local[t].key /\ local'[t].account = local[t].account
        /\ local'[t].devices = local[t].devices
    BY <1>4, AfterLoadSessions
  <2>2. Prepared(t, "LoadDevices", e)'
    BY <1>1, <1>4, <2>1 DEF Prepared, Nameless
  <2>3. QED
    BY <2>1, <2>2 DEF Typed, VarsOK
<1>5. ASSUME l = "LoadDevices", LoadDevices(t, ok) PROVE Typed(t, AfterLoad(t), e)
  <2>1. /\ UNCHANGED <<disk, mem, fresh, identity, unsaved>>
        /\ LoadsAlone(t)
        /\ local'[t].key = local[t].key /\ local'[t].account = local[t].account
    BY <1>5, AfterLoadDevices
  <2>2. Prepared(t, AfterLoad(t), e)'
    BY <1>1, <1>5, <2>1 DEF Prepared, Nameless, AfterLoad, LoadPlace
  <2>3. QED
    BY <2>1, <2>2 DEF Typed, VarsOK
<1>6. ASSUME l = "MakeAccount", MakeAccount(t) PROVE Typed(t, "DeleteAccount1", e)
  <2>1. /\ UNCHANGED <<disk, mem, identity, unsaved>>
        /\ LoadsAlone(t) /\ fresh' = fresh + 1
        /\ local'[t].key = local[t].key /\ local'[t].account = fresh + 1
        /\ local'[t].sessions = local[t].sessions /\ local'[t].devices = local[t].devices
    BY <1>6, AfterMakeAccount
  <2>2. fresh + 1 \in Nat
    BY DEF VarsOK
  <2>3. Prepared(t, "DeleteAccount1", e)'
    BY <1>1, <1>6, <2>1, <2>2 DEF Prepared, Nameless
  <2>4. QED
    BY <2>1, <2>2, <2>3 DEF Typed, VarsOK
<1>7. QED
  BY <1>2, <1>3, <1>4, <1>5, <1>6

\* A statement that changes only the tables: what is loaded stays as it has to
\* be at the next place.
LEMMA DiskTyped ==
  ASSUME VarsOK, NEW t \in Thread, NEW l, NEW e, At(t, l, e), Prepared(t, l, e), NEW m,
         UNCHANGED <<mem, local>>, disk' \in Tables, fresh' \in Nat, identity' \in Maybe(Nat), unsaved' \in BOOLEAN,
         l # "LoadKey", l # "end", l \in Nameless => m \in Nameless,
         m \in LoadPlace => l \in LoadPlace /\ l # "LoadDevices", m \in Nameless => l \in Nameless,
         m \in SavePlace => l \in SavePlace \/ e = Installing
  PROVE  Typed(t, m, e)
<1>1. LoadsAlone(t) /\ mem' \in Maybe(Running)
  BY LocalKept DEF VarsOK
<1>2. e \in {Installing, Closing} => e \notin {<<>>, Dropping}
  BY EndsApart
<1>3. e \in {<<>>, Dropping} => l \notin LoadPlace
  BY AtLoad, EndsApart
<1>4. Prepared(t, m, e)'
  <2>1. (m \in LoadPlace => local[t].devices = {} /\ (m # "LoadDevices" => local[t].sessions = NoSessions))'
    BY DEF Prepared
  <2>2. (m \in Nameless => local[t].account = None)'
    BY DEF Prepared
  <2>3. (e \in {Installing, Closing} =>
          /\ m # "LoadKey" => local[t].key \in Nat
          /\ m \notin Nameless => local[t].account \in Nat
          /\ t = "worker" => mem = None)'
    BY DEF Prepared
  <2>4. (e \in {<<>>, Dropping} =>
          /\ local[t] = NoManager
          /\ t = "worker" /\ (m \in SavePlace \/ e = Dropping) => mem # None)'
    BY <1>2 DEF Prepared
  <2>5. QED
    BY <2>1, <2>2, <2>3, <2>4 DEF Prepared
<1>5. QED
  BY <1>1, <1>4 DEF Typed

\* Which places there are.
LEMMA PlaceNames ==
  /\ LoadPlace \cap {"end"} = {} /\ Nameless \subseteq LoadPlace
  /\ \A l \in Nameless : l \notin {"DeleteAccount1", "InsertAccount1", "DeleteAccount2", "InsertAccount2", "LoadSessions", "LoadDevices"}
  /\ {"DeleteAccount1", "InsertAccount1", "DeleteAccount2", "InsertAccount2", "LoadSessions", "LoadDevices"} \subseteq LoadPlace
  /\ \A l \in SavePlace : l \notin LoadPlace /\ l # "end"
BY DEF Nameless, LoadPlace, SavePlace

\* The next place after the tables changed.
LEMMA DiskPlaces ==
  ASSUME NEW t \in Thread, NEW l, NEW m, NEW e,
         \/ l \in {"DeleteKey", "DeleteKey2"} /\ m = (IF l = "DeleteKey" THEN "InsertKey" ELSE "InsertKey2")
         \/ l \in {"DeleteKey", "DeleteKey2", "InsertKey", "InsertKey2"} /\ m = AfterKey(l)
         \/ l = "DeleteAccount1" /\ m = "InsertAccount1"
         \/ l \in {"DeleteAccount1", "InsertAccount1"} /\ m = "DeleteAccount2"
         \/ l = "DeleteAccount2" /\ m = "InsertAccount2"
         \/ l \in {"DeleteAccount2", "InsertAccount2"} /\ m = AfterLoad(t) /\ (t = "worker" => e = Installing)
         \/ l \in SavePlace /\ m \in SavePlace \cup {"end"}
  PROVE  /\ l # "LoadKey" /\ l # "end" /\ (l \in Nameless => m \in Nameless)
         /\ m \in LoadPlace => l \in LoadPlace /\ l # "LoadDevices"
         /\ m \in Nameless => l \in Nameless
         /\ m \in SavePlace => l \in SavePlace \/ e = Installing
<1>1. CASE l \in {"DeleteKey", "DeleteKey2"} /\ m = (IF l = "DeleteKey" THEN "InsertKey" ELSE "InsertKey2")
  BY <1>1, PlaceNames DEF Nameless
<1>2. CASE l \in {"DeleteKey", "DeleteKey2", "InsertKey", "InsertKey2"} /\ m = AfterKey(l)
  BY <1>2, PlaceNames DEF Nameless, AfterKey
<1>3. CASE l = "DeleteAccount1" /\ m = "InsertAccount1"
  BY <1>3, PlaceNames
<1>4. CASE l \in {"DeleteAccount1", "InsertAccount1"} /\ m = "DeleteAccount2"
  BY <1>4, PlaceNames
<1>5. CASE l = "DeleteAccount2" /\ m = "InsertAccount2"
  BY <1>5, PlaceNames
<1>6. CASE l \in {"DeleteAccount2", "InsertAccount2"} /\ m = AfterLoad(t) /\ (t = "worker" => e = Installing)
  BY <1>6, PlaceNames DEF AfterLoad, Thread, LoadPlace, Nameless, SavePlace
<1>7. CASE l \in SavePlace /\ m \in SavePlace \cup {"end"}
  BY <1>7, PlaceNames DEF SavePlace
<1>8. QED
  BY <1>1, <1>2, <1>3, <1>4, <1>5, <1>6, <1>7

\* A statement that writes keeps the types.
LEMMA WriteTyped ==
  ASSUME VarsOK, NEW t \in Thread, NEW l, NEW e, At(t, l, e), Prepared(t, l, e), NEW m, NEW f, Goes(t, l, e, m, f),
         l \notin {"LoadKey", "LoadKey2", "LoadAccount", "MakeAccount", "LoadSessions", "LoadDevices", "end"}
  PROVE  Typed(t, m, f)
<1>1. fresh \in Nat /\ identity \in Maybe(Nat) /\ unsaved \in BOOLEAN /\ disk \in Tables
  BY DEF VarsOK
<1>2. (l \in LoadPlace /\ t = "worker") => e = Installing
  BY AtLoad
<1>3. CASE l \in {"DeleteKey", "DeleteKey2"}
  <2>1. Write(t, [disk EXCEPT !.key = None]) /\ f = e /\ m = (IF l = "DeleteKey" THEN "InsertKey" ELSE "InsertKey2")
    BY <1>3 DEF Goes
  <2>2. UNCHANGED <<mem, local, fresh, identity, unsaved>> /\ disk' \in Tables
    BY <2>1, AfterDelete
  <2>3. /\ l # "LoadKey" /\ l # "end" /\ (l \in Nameless => m \in Nameless)
        /\ m \in LoadPlace => l \in LoadPlace /\ l # "LoadDevices"
        /\ m \in Nameless => l \in Nameless
        /\ m \in SavePlace => l \in SavePlace \/ e = Installing
    BY <1>3, <2>1, DiskPlaces
  <2>4. QED
    BY <1>1, <2>1, <2>2, <2>3, DiskTyped
<1>4. CASE l \in {"InsertKey", "InsertKey2"}
  <2>1. InsertKey(t) /\ f = e /\ m = AfterKey(l)
    BY <1>4 DEF Goes
  <2>2. UNCHANGED <<mem, local, fresh, identity, unsaved>> /\ disk' \in Tables
    BY <2>1, AfterInsertKey
  <2>3. QED
    BY <1>1, <1>4, <2>1, <2>2, DiskPlaces, DiskTyped
<1>5. CASE l \in {"DeleteAccount1", "DeleteAccount2", "DeleteAccount"}
  <2>1. Write(t, [disk EXCEPT !.account = None]) /\ f = e
        /\ m = (IF l = "DeleteAccount1" THEN "InsertAccount1"
                ELSE IF l = "DeleteAccount2" THEN "InsertAccount2" ELSE "InsertAccount")
    BY <1>5 DEF Goes
  <2>2. UNCHANGED <<mem, local, fresh, identity, unsaved>> /\ disk' \in Tables
    BY <2>1, AfterDelete
  <2>3. l = "DeleteAccount" => l \in SavePlace /\ m \in SavePlace
    BY <2>1 DEF SavePlace
  <2>4. QED
    BY <1>1, <1>5, <2>1, <2>2, <2>3, DiskPlaces, DiskTyped
<1>6. CASE l \in {"InsertAccount1", "InsertAccount2", "InsertAccount"}
  <2>1. InsertAccount(t) /\ f = e
        /\ (l = "InsertAccount1" => m = "DeleteAccount2")
        /\ (l = "InsertAccount2" => m = AfterLoad(t))
        /\ (l = "InsertAccount" => m \in {"end", "DeleteSessions"})
    BY <1>6 DEF Goes
  <2>2. l \in SavePlace \cup (LoadPlace \ Nameless) \/ (e \in {Installing, Closing, Dropping} /\ l = "end")
    BY <1>6 DEF SavePlace, LoadPlace, Nameless
  <2>3. Manager(t).account \in Nat /\ Manager(t).key \in Nat
    BY <2>2, ManagerNamed
  <2>4. /\ UNCHANGED <<mem, local, fresh, unsaved>> /\ disk' \in Tables
        /\ identity' = identity \/ identity' = Manager(t).account
    BY <2>1, <2>3, AfterInsertAccount
  <2>5. identity' \in Maybe(Nat)
    BY <1>1, <2>3, <2>4 DEF Maybe
  <2>6. l = "InsertAccount" => l \in SavePlace /\ m \in SavePlace \cup {"end"}
    BY <2>1 DEF SavePlace
  <2>7. /\ l # "LoadKey" /\ l # "end" /\ (l \in Nameless => m \in Nameless)
        /\ m \in LoadPlace => l \in LoadPlace /\ l # "LoadDevices"
        /\ m \in Nameless => l \in Nameless
        /\ m \in SavePlace => l \in SavePlace \/ e = Installing
    <3>1. CASE l = "InsertAccount1"
      BY <2>1, <3>1, DiskPlaces
    <3>2. CASE l = "InsertAccount2"
      BY <1>2, <2>1, <2>2, <3>2, PlaceNames, DiskPlaces
    <3>3. CASE l = "InsertAccount"
      BY <2>6, <3>3, DiskPlaces
    <3>4. QED
      BY <1>6, <3>1, <3>2, <3>3
  <2>8. QED
    BY <1>1, <2>1, <2>4, <2>5, <2>7, DiskTyped
<1>7. CASE l = "DeleteSessions"
  <2>1. Write(t, [disk EXCEPT !.sessions = NoSessions]) /\ f = e /\ m = "InsertSession"
    BY <1>7 DEF Goes
  <2>2. UNCHANGED <<mem, local, fresh, identity, unsaved>> /\ disk' \in Tables
    BY <2>1, AfterDelete
  <2>3. l \in SavePlace /\ m \in SavePlace
    BY <1>7, <2>1 DEF SavePlace
  <2>4. QED
    BY <1>1, <2>1, <2>2, <2>3, DiskPlaces, DiskTyped
<1>8. CASE l = "InsertSession"
  <2>1. f = e /\ m \in {"DeleteDevices", "end", "InsertSession"} /\ l \in SavePlace /\ m \in SavePlace \cup {"end"}
    BY <1>8 DEF Goes, SavePlace
  <2>2. UNCHANGED <<mem, local, fresh, identity, unsaved>>
    BY <1>8 DEF Goes, Write, Fails
  <2>3. disk' \in Tables
    <3>1. CASE disk' = disk
      BY <1>1, <3>1
    <3>2. CASE disk' # disk
      <4>1. PICK p \in Peer : disk' = [disk EXCEPT !.sessions[p] = Manager(t).sessions[p]]
        BY <1>8, <3>2 DEF Goes, Write, Fails
      <4>2. Manager(t).sessions[p] \in Maybe(Session)
        BY ManagerLoads, Fields DEF Sessions
      <4>3. QED
        BY <1>1, <4>1, <4>2, WithSession
    <3>3. QED
      BY <3>1, <3>2
  <2>4. QED
    BY <1>1, <2>1, <2>2, <2>3, DiskPlaces, DiskTyped
<1>9. CASE l = "DeleteDevices"
  <2>1. Write(t, [disk EXCEPT !.devices = {}]) /\ f = e /\ m = "InsertDevice"
    BY <1>9 DEF Goes
  <2>2. UNCHANGED <<mem, local, fresh, identity, unsaved>> /\ disk' \in Tables
    BY <2>1, AfterDelete
  <2>3. l \in SavePlace /\ m \in SavePlace
    BY <1>9, <2>1 DEF SavePlace
  <2>4. QED
    BY <1>1, <2>1, <2>2, <2>3, DiskPlaces, DiskTyped
<1>10. CASE l = "InsertDevice"
  <2>1. f = e /\ m \in {"InsertDevice", "Saved"} /\ l \in SavePlace /\ m \in SavePlace
    BY <1>10 DEF Goes, SavePlace
  <2>2. UNCHANGED <<mem, local, fresh, identity, unsaved>>
    BY <1>10 DEF Goes, Write
  <2>3. disk' \in Tables
    <3>1. CASE disk' = disk
      BY <1>1, <3>1
    <3>2. CASE disk' # disk
      <4>1. PICK d \in Manager(t).devices : disk' = [disk EXCEPT !.devices = @ \cup {d}]
        BY <1>10, <3>2 DEF Goes, Write
      <4> DEFINE D == disk.devices \cup {d}
      <4>2. D \in SUBSET Device
        BY <1>1, ManagerLoads, Fields
      <4>3. disk' = [disk EXCEPT !.devices = D]
        BY <4>1
      <4> HIDE DEF D
      <4>4. QED
        BY <1>1, <4>2, <4>3, WithDevices
    <3>3. QED
      BY <3>1, <3>2
  <2>4. QED
    BY <1>1, <2>1, <2>2, <2>3, DiskPlaces, DiskTyped
<1>11. CASE l = "Saved"
  <2>1. f = e /\ m = "end" /\ Saved(t) /\ l \in SavePlace
    BY <1>11 DEF Goes, SavePlace
  <2>2. UNCHANGED <<disk, mem, local, fresh, identity>> /\ unsaved' \in BOOLEAN
    BY <2>1 DEF Saved
  <2>3. QED
    BY <1>1, <2>1, <2>2, DiskPlaces, DiskTyped
<1>12. l \in {"DeleteKey", "DeleteKey2", "InsertKey", "InsertKey2", "DeleteAccount1", "DeleteAccount2", "DeleteAccount",
              "InsertAccount1", "InsertAccount2", "InsertAccount", "DeleteSessions", "InsertSession", "DeleteDevices",
              "InsertDevice", "Saved"}
  BY AtLoad DEF LoadPlace, SavePlace
<1>13. QED
  BY <1>3, <1>4, <1>5, <1>6, <1>7, <1>8, <1>9, <1>10, <1>11, <1>12

\* The last statement of a program keeps the types.
LEMMA EndTyped ==
  ASSUME VarsOK, NEW t \in Thread, NEW e, At(t, "end", e), Prepared(t, "end", e), NEW m, NEW f, Goes(t, "end", e, m, f)
  PROVE  Typed(t, m, f)
<1>1. m = "end" /\ f = <<>>
      /\ \/ e = Installing /\ Install(t)
         \/ e = Dropping /\ Drop(t)
         \/ e = Closing /\ Close(t) /\ UNCHANGED mem
  BY PlaceNames DEF Goes, LoadPlace, SavePlace
<1>2. "end" \notin LoadPlace /\ "end" \notin Nameless /\ "end" \notin SavePlace
  BY PlaceNames
<1>3. <<>> \notin {Installing, Closing, Dropping}
  BY EndsApart
<1>4. t = "qr" => e \in {<<>>, Closing}
  BY AtLoad
<1>5. CASE e = Installing /\ Install(t)
  <2>1. mem' = local[t] /\ Close(t)
    BY <1>5 DEF Install
  <2>2. UNCHANGED <<disk, fresh, identity, unsaved>> /\ LoadsAlone(t) /\ local'[t] = NoManager
    BY <2>1, AfterClose
  <2>3. t # "qr"
    BY <1>4, <1>5, EndsApart
  <2>4. mem' \in Maybe(Running)
    <3>1. local[t].key \in Nat /\ local[t].account \in Nat /\ local[t] \in Loading
      BY <1>2, <1>5, EndsApart DEF Prepared, VarsOK
    <3>2. QED
      BY <2>1, <3>1, LoadedRuns DEF Maybe
  <2>5. Prepared(t, "end", <<>>)'
    BY <1>2, <1>3, <2>2 DEF Prepared
  <2>6. QED
    BY <1>1, <2>2, <2>3, <2>4, <2>5 DEF Typed, VarsOK
<1>6. CASE e = Dropping /\ Drop(t)
  <2>1. UNCHANGED <<disk, local, fresh, identity>> /\ unsaved' = FALSE /\ mem' = None
    BY <1>6 DEF Drop
  <2>2. t # "qr"
    BY <1>4, <1>6, EndsApart
  <2>3. LoadsAlone(t) /\ local'[t] = NoManager
    BY <1>6, <2>1, LocalKept DEF Prepared
  <2>4. Prepared(t, "end", <<>>)'
    BY <1>2, <1>3, <2>3 DEF Prepared
  <2>5. QED
    BY <1>1, <2>1, <2>2, <2>3, <2>4 DEF Typed, VarsOK, Maybe
<1>7. CASE e = Closing /\ Close(t) /\ UNCHANGED mem
  <2>1. UNCHANGED <<disk, fresh, identity, unsaved>> /\ LoadsAlone(t) /\ local'[t] = NoManager
    BY <1>7, AfterClose
  <2>2. Prepared(t, "end", <<>>)'
    BY <1>2, <1>3, <2>1 DEF Prepared
  <2>3. QED
    BY <1>1, <1>7, <2>1, <2>2 DEF Typed, VarsOK
<1>8. QED
  BY <1>1, <1>5, <1>6, <1>7

\* A statement keeps the types.
LEMMA GoesTyped ==
  ASSUME VarsOK, NEW t \in Thread, NEW l, NEW e, At(t, l, e), Prepared(t, l, e), NEW m, NEW f, Goes(t, l, e, m, f)
  PROVE  Typed(t, m, f)
<1>1. CASE l \in {"LoadKey", "LoadKey2"}
  <2>1. LoadKey(t, TRUE) /\ f = e /\ m \in {"DeleteKey", "LoadAccount", "DeleteKey2", "MakeAccount"} /\ l \in LoadPlace
    BY <1>1 DEF Goes, AfterKey, NewKey, LoadPlace
  <2>2. QED
    BY <2>1, LoadTyped
<1>2. CASE l = "LoadAccount"
  <2>1. LoadAccount(t, TRUE) /\ f = e /\ m = (IF Readable(t) THEN "LoadSessions" ELSE "LoadKey2") /\ l \in LoadPlace
    BY <1>2 DEF Goes, LoadPlace
  <2>2. IF TRUE /\ Readable(t) THEN Typed(t, "LoadSessions", e) ELSE Typed(t, "LoadKey2", e)
    BY <1>2, <2>1, LoadTyped
  <2>3. QED
    BY <2>1, <2>2
<1>3. CASE l = "LoadSessions"
  <2>1. LoadSessions(t, TRUE) /\ f = e /\ m = "LoadDevices" /\ l \in LoadPlace
    BY <1>3 DEF Goes, LoadPlace
  <2>2. QED
    BY <1>3, <2>1, LoadTyped
<1>4. CASE l = "LoadDevices"
  <2>1. LoadDevices(t, TRUE) /\ f = e /\ m = AfterLoad(t) /\ l \in LoadPlace
    BY <1>4 DEF Goes, LoadPlace
  <2>2. QED
    BY <1>4, <2>1, LoadTyped
<1>5. CASE l = "MakeAccount"
  <2>1. MakeAccount(t) /\ f = e /\ m = "DeleteAccount1" /\ l \in LoadPlace
    BY <1>5 DEF Goes, LoadPlace
  <2>2. QED
    BY <1>5, <2>1, LoadTyped
<1>6. CASE l = "end"
  BY <1>6, EndTyped
<1>7. QED
  BY <1>1, <1>2, <1>3, <1>4, <1>5, <1>6, WriteTyped

\* A statement that fails keeps the types.
LEMMA FallsTyped ==
  ASSUME VarsOK, NEW t \in Thread, NEW l, NEW e, At(t, l, e), Prepared(t, l, e), NEW m, Falls(t, l, e, m)
  PROVE  Typed(t, m, e)
<1>1. CASE l \in {"LoadKey", "LoadKey2"} /\ LoadKey(t, FALSE) /\ m = NewKey(l)
  <2>1. m \in {"DeleteKey", "LoadAccount", "DeleteKey2", "MakeAccount"} /\ l \in LoadPlace
    BY <1>1 DEF NewKey, LoadPlace
  <2>2. QED
    BY <1>1, <2>1, LoadTyped
<1>2. CASE l = "LoadAccount" /\ LoadAccount(t, FALSE) /\ m = "LoadKey2"
  <2>1. l \in LoadPlace
    BY <1>2 DEF LoadPlace
  <2>2. IF FALSE /\ Readable(t) THEN Typed(t, "LoadSessions", e) ELSE Typed(t, "LoadKey2", e)
    BY <1>2, <2>1, LoadTyped
  <2>3. QED
    BY <1>2, <2>2
<1>3. CASE l = "LoadSessions" /\ LoadSessions(t, FALSE) /\ m = "LoadDevices"
  <2>1. l \in LoadPlace
    BY <1>3 DEF LoadPlace
  <2>2. QED
    BY <1>3, <2>1, LoadTyped
<1>4. CASE l = "LoadDevices" /\ LoadDevices(t, FALSE) /\ m = AfterLoad(t)
  <2>1. l \in LoadPlace
    BY <1>4 DEF LoadPlace
  <2>2. QED
    BY <1>4, <2>1, LoadTyped
<1>5. CASE Fails(t) /\ \/ l \in {"DeleteKey", "InsertKey", "DeleteKey2", "InsertKey2"} /\ m = AfterKey(l)
                       \/ l \in {"DeleteAccount1", "InsertAccount1"} /\ m = "DeleteAccount2"
                       \/ l \in {"DeleteAccount2", "InsertAccount2"} /\ m = AfterLoad(t)
                       \/ l \in SavePlace /\ m = "end"
  <2>1. UNCHANGED <<disk, mem, local, fresh, identity, unsaved>>
    BY <1>5 DEF Fails
  <2>2. disk' \in Tables /\ fresh' \in Nat /\ identity' \in Maybe(Nat) /\ unsaved' \in BOOLEAN
    BY <2>1 DEF VarsOK
  <2>3. l \in {"DeleteAccount2", "InsertAccount2"} => (t = "worker" => e = Installing)
    BY AtLoad, PlaceNames
  <2>4. /\ l # "LoadKey" /\ l # "end" /\ (l \in Nameless => m \in Nameless)
        /\ m \in LoadPlace => l \in LoadPlace /\ l # "LoadDevices"
        /\ m \in Nameless => l \in Nameless
        /\ m \in SavePlace => l \in SavePlace \/ e = Installing
    <3>1. CASE l \in {"DeleteKey", "InsertKey", "DeleteKey2", "InsertKey2"} /\ m = AfterKey(l)
      BY <3>1, DiskPlaces
    <3>2. CASE l \in {"DeleteAccount1", "InsertAccount1"} /\ m = "DeleteAccount2"
      BY <3>2, DiskPlaces
    <3>3. CASE l \in {"DeleteAccount2", "InsertAccount2"} /\ m = AfterLoad(t)
      BY <2>3, <3>3, DiskPlaces
    <3>4. CASE l \in SavePlace /\ m = "end"
      BY <3>4, DiskPlaces
    <3>5. QED
      BY <1>5, <3>1, <3>2, <3>3, <3>4
  <2>5. QED
    BY <2>1, <2>2, <2>4, DiskTyped
<1>6. QED
  BY <1>1, <1>2, <1>3, <1>4, <1>5 DEF Falls

-----------------------------------------------------------------------------
\* Type correctness

\* The other thread stays where it is.
LEMMA OtherStays ==
  ASSUME NEW t \in Thread, NEW s \in Thread, s # t, NEW l, NEW e, At(s, l, e), Prepared(s, l, e),
         Alone(t), local'[s] = local[s], t = "qr" => mem' = mem
  PROVE  (At(s, l, e) /\ Prepared(s, l, e))'
<1>1. program'[s] = program[s]
  BY DEF Alone
<1>2. s = "worker" => mem' = mem
  BY DEF Thread
<1>3. At(s, l, e)'
  BY <1>1 DEF At
<1>4. Prepared(s, l, e)'
  BY <1>2 DEF Prepared
<1>5. QED
  BY <1>3, <1>4

\* A thread's step that keeps the types of what it changes keeps all of them.
LEMMA TypedKeeps ==
  ASSUME TypeOK, NEW t \in Thread, NEW m, NEW f, Alone(t), At(t, m, f)', Typed(t, m, f),
         chains' \in Nat, sends' \in Nat, quits' \in Nat, faults' \in Nat, qrs' \in Nat,
         used' \subseteq Nat \X Nat, reused' \in BOOLEAN, lost' \in BOOLEAN
  PROVE  TypeOK'
<1>1. VarsOK'
  BY DEF Typed, VarsOK, LoadsAlone, Alone
<1>2. ASSUME NEW s \in Thread PROVE (\E l, e : At(s, l, e) /\ Prepared(s, l, e))'
  <2>1. CASE s = t
    BY <2>1 DEF Typed
  <2>2. CASE s # t
    <3>1. PICK l, e : At(s, l, e) /\ Prepared(s, l, e)
      BY DEF TypeOK
    <3>2. local'[s] = local[s] /\ (t = "qr" => mem' = mem)
      BY <2>2 DEF Typed, LoadsAlone
    <3>3. (At(s, l, e) /\ Prepared(s, l, e))'
      BY <2>2, <3>1, <3>2, OtherStays
    <3>4. QED
      BY <3>3
  <2>3. QED
    BY <2>1, <2>2
<1>3. QED
  BY <1>1, <1>2 DEF TypeOK

\* Step(t) keeps the types.
LEMMA StepTyped == ASSUME TypeOK, NEW t \in Thread, Step(t) PROVE TypeOK'
<1>1. PICK l, e : At(t, l, e) /\ Prepared(t, l, e)
  BY DEF TypeOK
<1>2. VarsOK /\ program \in [Thread -> Programs]
  BY DEF TypeOK, VarsOK
<1>3. Alone(t) /\ \E m, f : At(t, m, f)' /\ Goes(t, l, e, m, f)
  BY <1>1, <1>2, StepGoes
<1>4. PICK m, f : At(t, m, f)' /\ Goes(t, l, e, m, f)
  BY <1>3
<1>5. Typed(t, m, f)
  BY <1>1, <1>2, <1>4, GoesTyped
<1>6. UNCHANGED <<chains, sends, quits, faults, qrs, used, reused>> /\ lost' \in BOOLEAN
  BY <1>2 DEF Step, VarsOK, bounds
<1>7. QED
  BY <1>2, <1>3, <1>4, <1>5, <1>6, TypedKeeps DEF VarsOK

\* Error(t) keeps the types.
LEMMA ErrorTyped == ASSUME TypeOK, NEW t \in Thread, Error(t) PROVE TypeOK'
<1>1. PICK l, e : At(t, l, e) /\ Prepared(t, l, e)
  BY DEF TypeOK
<1>2. VarsOK /\ program \in [Thread -> Programs]
  BY DEF TypeOK, VarsOK
<1>3. Alone(t) /\ \E m : At(t, m, e)' /\ Falls(t, l, e, m)
  BY <1>1, <1>2, ErrorFalls
<1>4. PICK m : At(t, m, e)' /\ Falls(t, l, e, m)
  BY <1>3
<1>5. Typed(t, m, e)
  BY <1>1, <1>2, <1>4, FallsTyped
<1>6. UNCHANGED <<chains, sends, quits, qrs, used, reused, lost>> /\ faults' \in Nat
  BY <1>2 DEF Error, VarsOK
<1>7. QED
  BY <1>2, <1>3, <1>4, <1>5, <1>6, TypedKeeps DEF VarsOK

\* A session of a running manager that is changed.
LEMMA WithRunning ==
  ASSUME NEW m \in Running, NEW p \in Peer, NEW s \in Session, NEW n, n = [m EXCEPT !.sessions[p] = s]
  PROVE  /\ n \in Running /\ n.key = m.key /\ n.account = m.account /\ n.devices = m.devices
         /\ n.sessions[p] = s /\ \A q \in Peer : q # p => n.sessions[q] = m.sessions[q]
<1>1. m.sessions \in Sessions
  BY Fields
<1>2. n = [m EXCEPT !.sessions = [m.sessions EXCEPT ![p] = s]]
  BY DEF Running
<1>3. [m.sessions EXCEPT ![p] = s] \in Sessions
  BY <1>1 DEF Sessions, Maybe
<1>4. n \in Running /\ n.key = m.key /\ n.account = m.account /\ n.devices = m.devices
      /\ n.sessions = [m.sessions EXCEPT ![p] = s]
  BY <1>2, <1>3 DEF Running
<1>5. n.sessions[p] = s /\ \A q \in Peer : q # p => n.sessions[q] = m.sessions[q]
  BY <1>1, <1>4 DEF Sessions
<1>6. QED
  BY <1>4, <1>5

\* After Encrypt.
LEMMA AfterEncrypt ==
  ASSUME VarsOK, NEW p \in Peer, Encrypt(p)
  PROVE  /\ mem \in Running /\ mem.sessions[p] \in Session
         /\ mem' \in Running /\ mem'.key = mem.key /\ mem'.account = mem.account /\ mem'.devices = mem.devices
         /\ mem'.sessions[p] \in Session
         /\ mem'.sessions[p].key = mem.sessions[p].key /\ mem'.sessions[p].owner = mem.sessions[p].owner
         /\ mem'.sessions[p].chain = mem.sessions[p].chain
         /\ mem'.sessions[p].index = mem.sessions[p].index + 1
         /\ \A q \in Peer : q # p => mem'.sessions[q] = mem.sessions[q]
<1>1. mem \in Running /\ mem.sessions[p] # None
  BY DEF VarsOK, Maybe, Encrypt, Ready
<1>2. mem.sessions \in Sessions /\ mem.sessions[p] \in Session
  BY <1>1, Fields, SessionFields
<1> DEFINE s == [mem.sessions[p] EXCEPT !.index = @ + 1]
<1>3. /\ s \in Session /\ s.key = mem.sessions[p].key /\ s.owner = mem.sessions[p].owner
      /\ s.chain = mem.sessions[p].chain /\ s.index = mem.sessions[p].index + 1
  BY <1>2 DEF Session
<1>4. mem' = [mem EXCEPT !.sessions[p] = s]
  BY DEF Encrypt
<1> HIDE DEF s
<1>5. QED
  BY <1>1, <1>2, <1>3, <1>4, WithRunning

\* After StartChain.
LEMMA AfterStartChain ==
  ASSUME VarsOK, NEW p \in Peer, mem # None, StartChain(p)
  PROVE  /\ mem \in Running /\ fresh' = fresh + 1 /\ chains' = chains + 1
         /\ mem' \in Running /\ mem'.key = mem.key /\ mem'.account = mem.account /\ mem'.devices = mem.devices
         /\ mem'.sessions[p] \in Session
         /\ mem'.sessions[p].key = mem.key /\ mem'.sessions[p].owner = mem.account
         /\ mem'.sessions[p].chain = fresh + 1 /\ mem'.sessions[p].index = 0
         /\ \A q \in Peer : q # p => mem'.sessions[q] = mem.sessions[q]
<1>1. mem \in Running
  BY DEF VarsOK, Maybe
<1>2. PICK s : s = [key |-> mem.key, owner |-> mem.account, chain |-> fresh + 1, index |-> 0]
  OBVIOUS
<1>3. s \in Session /\ s.key = mem.key /\ s.owner = mem.account /\ s.chain = fresh + 1 /\ s.index = 0
  BY <1>1, <1>2, Fields DEF Session, VarsOK
<1>4. mem' = [mem EXCEPT !.sessions[p] = s] /\ fresh' = fresh + 1 /\ chains' = chains + 1
  BY <1>2 DEF StartChain
<1>5. \A n : n = [mem EXCEPT !.sessions[p] = s] =>
        /\ n \in Running /\ n.key = mem.key /\ n.account = mem.account /\ n.devices = mem.devices
        /\ n.sessions[p] = s /\ \A q \in Peer : q # p => n.sessions[q] = mem.sessions[q]
  BY <1>1, <1>3, WithRunning
<1>6. QED
  BY <1>1, <1>3, <1>4, <1>5

\* The worker's manager changes while it runs and the worker is idle.
LEMMA RunsOn ==
  ASSUME TypeOK, Ready, NEW l, NEW e, At("worker", l, e), Prepared("worker", l, e)
  PROVE  l = "end" /\ e = <<>> /\ mem \in Running /\ local["worker"] = NoManager
<1>1. l = "end" /\ e = <<>>
  BY IdleAt DEF Ready, Thread
<1>2. QED
  BY <1>1 DEF Ready, Prepared, TypeOK, VarsOK, Maybe

\* A thread that starts a program, or goes on idling.
LEMMA StartTyped ==
  ASSUME TypeOK, NEW t \in Thread, NEW m, NEW f, Alone(t), At(t, m, f)', UNCHANGED <<disk, local, identity>>,
         mem' \in Maybe(Running), t = "qr" => mem' = mem, fresh' \in Nat, unsaved' \in BOOLEAN,
         local[t] = NoManager, m \in {"LoadKey", "DeleteAccount", "end"},
         m = "LoadKey" /\ t = "worker" => mem' = None,
         m # "LoadKey" => f \in {<<>>, Dropping} /\ (t = "worker" /\ (m # "end" \/ f # <<>>) => mem' # None),
         chains' \in Nat, sends' \in Nat, quits' \in Nat, faults' \in Nat, qrs' \in Nat,
         used' \subseteq Nat \X Nat, reused' \in BOOLEAN, lost' \in BOOLEAN
  PROVE  TypeOK'
<1>1. VarsOK
  BY DEF TypeOK
<1>2. disk' \in Tables /\ identity' \in Maybe(Nat) /\ LoadsAlone(t)
  BY <1>1, LocalKept DEF VarsOK
<1>3. local'[t] = NoManager
  OBVIOUS
<1>4. {"LoadKey", "end"} \cap SavePlace = {} /\ {"DeleteAccount", "end"} \cap LoadPlace = {} /\ {"DeleteAccount", "end"} \cap Nameless = {}
      /\ "LoadKey" \in Nameless
  BY DEF SavePlace, LoadPlace, Nameless
<1>5. m = "LoadKey" => f \in {Installing, Closing}
  <2>1. m = "LoadKey" => (f = IF t = "worker" THEN Installing ELSE Closing)
    BY DEF At, SavePlace
  <2>2. QED
    BY <2>1
<1>6. Prepared(t, m, f)'
  <2>1. CASE m = "LoadKey"
    BY <1>3, <1>4, <1>5, <2>1, NoManagerIs, EndsApart DEF Prepared
  <2>2. CASE m # "LoadKey"
    BY <1>3, <1>4, <2>2, NoManagerIs, EndsApart DEF Prepared
  <2>3. QED
    BY <2>1, <2>2
<1>7. Typed(t, m, f)
  BY <1>2, <1>6 DEF Typed
<1>8. QED
  BY <1>7, TypedKeeps

\* Online, Logout and OpenQr keep the types.
LEMMA WorkerTyped == ASSUME TypeOK, Online \/ Logout \/ OpenQr PROVE TypeOK'
<1>1. VarsOK /\ program \in [Thread -> Programs] /\ "worker" \in Thread /\ "qr" \in Thread
  BY DEF TypeOK, VarsOK, Thread
<1>2. CASE Online
  <2>1. Alone("worker") /\ At("worker", "LoadKey", Installing)'
    BY <1>1, <1>2, Begins DEF Online
  <2>2. PICK l, e : At("worker", l, e) /\ Prepared("worker", l, e)
    BY <1>1 DEF TypeOK
  <2>3. local["worker"] = NoManager
    BY <1>1, <1>2, <2>2, IdleAt DEF Online, Prepared
  <2>4. UNCHANGED <<disk, mem, local, fresh, identity, chains, sends, quits, faults, qrs, used, reused, unsaved, lost>> /\ mem = None
    BY <1>2 DEF Online, bounds, sendVars
  <2>5. QED
    BY <1>1, <2>1, <2>3, <2>4, StartTyped DEF VarsOK, Maybe
<1>3. CASE Logout
  <2>1. Alone("worker") /\ At("worker", "DeleteAccount", Dropping)'
    BY <1>1, <1>3, Begins DEF Logout
  <2>2. PICK l, e : At("worker", l, e) /\ Prepared("worker", l, e)
    BY <1>1 DEF TypeOK
  <2>3. local["worker"] = NoManager
    BY <1>3, <2>2, RunsOn DEF Logout
  <2>4. UNCHANGED <<disk, mem, local, fresh, identity, chains, sends, quits, faults, qrs, used, reused, unsaved, lost>> /\ mem # None
    BY <1>3 DEF Logout, bounds, sendVars, Ready
  <2>5. QED
    BY <1>1, <2>1, <2>3, <2>4, StartTyped DEF VarsOK
<1>4. CASE OpenQr
  <2>1. Alone("qr") /\ At("qr", "LoadKey", Closing)'
    BY <1>1, <1>4, Begins DEF OpenQr
  <2>2. PICK l, e : At("qr", l, e) /\ Prepared("qr", l, e)
    BY <1>1 DEF TypeOK
  <2>3. local["qr"] = NoManager
    BY <1>1, <1>4, <2>2, IdleAt DEF OpenQr, Prepared
  <2>4. UNCHANGED <<disk, mem, local, fresh, identity, chains, sends, quits, faults, used, reused, unsaved, lost>> /\ qrs' = qrs + 1
    BY <1>4 DEF OpenQr, sendVars
  <2>5. qrs' \in Nat
    BY <1>1, <2>4 DEF VarsOK
  <2>6. QED
    BY <1>1, <2>1, <2>3, <2>4, <2>5, StartTyped DEF VarsOK
<1>5. QED
  BY <1>2, <1>3, <1>4

\* Encrypt keeps the types.
LEMMA EncryptTyped == ASSUME TypeOK, NEW p \in Peer, Encrypt(p) PROVE TypeOK'
<1>1. VarsOK /\ program \in [Thread -> Programs] /\ "worker" \in Thread
  BY DEF TypeOK, VarsOK, Thread
<1>2. PICK l, e : At("worker", l, e) /\ Prepared("worker", l, e)
  BY <1>1 DEF TypeOK
<1>3. l = "end" /\ e = <<>> /\ mem \in Running /\ local["worker"] = NoManager
  BY <1>2, RunsOn DEF Encrypt
<1>4. mem' \in Running /\ mem.sessions[p] \in Session
  BY <1>1, AfterEncrypt
<1>5. /\ UNCHANGED <<disk, local, program, fresh, chains, quits, faults, qrs, identity, lost>>
      /\ sends' = sends + 1 /\ used' = used \cup {<<mem.sessions[p].chain, mem.sessions[p].index>>}
      /\ unsaved' = TRUE /\ reused' \in BOOLEAN
  <2>1. reused' = (reused \/ <<mem.sessions[p].chain, mem.sessions[p].index>> \in used)
    BY DEF Encrypt
  <2>2. reused' \in BOOLEAN
    BY <1>1, <2>1 DEF VarsOK
  <2>3. QED
    BY <2>2 DEF Encrypt
<1>6. mem.sessions[p].chain \in Nat /\ mem.sessions[p].index \in Nat
  BY <1>4, SessionFields
<1>7. used' \subseteq Nat \X Nat /\ sends' \in Nat /\ unsaved' \in BOOLEAN
  BY <1>1, <1>5, <1>6 DEF VarsOK
<1>8. Alone("worker") /\ program'["worker"] = program["worker"]
  BY <1>1, <1>5, StillAlone
<1>9. At("worker", "end", <<>>)'
  BY <1>2, <1>3, <1>8 DEF At
<1>10. disk' = disk /\ local' = local /\ identity' = identity /\ fresh' \in Nat /\ chains' \in Nat /\ quits' \in Nat
       /\ faults' \in Nat /\ qrs' \in Nat /\ lost' \in BOOLEAN
  BY <1>1, <1>5 DEF VarsOK
<1>11. mem' \in Maybe(Running)
  BY <1>4 DEF Maybe
<1>12. QED
  BY <1>1, <1>3, <1>5, <1>7, <1>8, <1>9, <1>10, <1>11, StartTyped

\* UpdateDeviceList keeps the types.
LEMMA UpdateTyped == ASSUME TypeOK, NEW D \in SUBSET Device, UpdateDeviceList(D) PROVE TypeOK'
<1>1. VarsOK /\ program \in [Thread -> Programs] /\ "worker" \in Thread
  BY DEF TypeOK, VarsOK, Thread
<1>2. PICK l, e : At("worker", l, e) /\ Prepared("worker", l, e)
  BY <1>1 DEF TypeOK
<1>3. l = "end" /\ e = <<>> /\ mem \in Running /\ local["worker"] = NoManager
  BY <1>2, RunsOn DEF UpdateDeviceList
<1>4. mem' \in Running
  BY <1>3 DEF UpdateDeviceList, Running
<1>5. UNCHANGED <<disk, local, program, fresh, chains, sends, quits, faults, qrs, identity, used, reused, unsaved, lost>>
  BY DEF UpdateDeviceList, bounds, sendVars
<1>6. Alone("worker") /\ program'["worker"] = program["worker"]
  BY <1>1, <1>5, StillAlone
<1>7. At("worker", "end", <<>>)'
  BY <1>2, <1>3, <1>6 DEF At
<1>8. mem' \in Maybe(Running)
  BY <1>4 DEF Maybe
<1>9. QED
  BY <1>1, <1>3, <1>5, <1>6, <1>7, <1>8, StartTyped DEF VarsOK

\* Receive keeps the types.
LEMMA ReceiveTyped == ASSUME TypeOK, NEW p \in Peer, Receive(p) PROVE TypeOK'
<1>1. VarsOK /\ program \in [Thread -> Programs] /\ "worker" \in Thread
  BY DEF TypeOK, VarsOK, Thread
<1>2. PICK l, e : At("worker", l, e) /\ Prepared("worker", l, e)
  BY <1>1 DEF TypeOK
<1>3. l = "end" /\ e = <<>> /\ mem \in Running /\ mem # None /\ local["worker"] = NoManager
  BY <1>2, RunsOn DEF Receive, Ready
<1>4. Alone("worker") /\ At("worker", "DeleteAccount", <<>>)'
  BY <1>1, Begins DEF Receive
<1>5. mem' \in Running /\ fresh' \in Nat /\ chains' \in Nat
  <2>1. CASE StartChain(p)
    BY <1>1, <1>3, <2>1, AfterStartChain DEF VarsOK
  <2>2. CASE KeepChain(p)
    BY <1>1, <1>3, <2>2 DEF KeepChain, VarsOK
  <2>3. QED
    BY <2>1, <2>2 DEF Receive
<1>6. UNCHANGED <<disk, local, sends, quits, faults, qrs, identity, used, reused, unsaved, lost>>
  BY DEF Receive, sendVars
<1>7. mem' \in Maybe(Running) /\ mem' # None
  BY <1>5, NoneApart DEF Maybe
<1>8. QED
  BY <1>1, <1>3, <1>4, <1>5, <1>6, <1>7, StartTyped DEF VarsOK

\* The end of the program keeps the types.
LEMMA EndTypes == ASSUME TypeOK, End, faults' \in Nat, quits' \in Nat PROVE TypeOK'
<1>1. VarsOK
  BY DEF TypeOK
<1>2. /\ mem' = None /\ local' = [t \in Thread |-> NoManager] /\ program' = [t \in Thread |-> <<>>]
      /\ lost' = (lost \/ unsaved) /\ unsaved' = FALSE
      /\ UNCHANGED <<disk, fresh, chains, sends, qrs, identity, used, reused>>
  BY DEF End
<1>3. VarsOK'
  <2>1. local' \in [Thread -> Loading] /\ program' \in [Thread -> Programs]
    BY <1>2, NoManagerIs, EndPrograms
  <2>2. lost' \in BOOLEAN
    BY <1>1, <1>2 DEF VarsOK
  <2>3. QED
    BY <1>1, <1>2, <2>1, <2>2 DEF VarsOK, Maybe
<1>4. ASSUME NEW t \in Thread PROVE (\E l, e : At(t, l, e) /\ Prepared(t, l, e))'
  <2>1. program'[t] = <<>> /\ local'[t] = NoManager
    BY <1>2
  <2>2. At(t, "end", <<>>)'
    BY <2>1 DEF At, Ends
  <2>3. Prepared(t, "end", <<>>)'
    BY <2>1, EndsApart, PlaceNames DEF Prepared, LoadPlace, SavePlace
  <2>4. QED
    BY <2>2, <2>3
<1>5. QED
  BY <1>3, <1>4 DEF TypeOK

\* Every step keeps the types.
LEMMA NextTyped == ASSUME TypeOK, [Next]_vars PROVE TypeOK'
<1>1. VarsOK
  BY DEF TypeOK
<1>2. CASE Online \/ Logout \/ OpenQr
  BY <1>2, WorkerTyped
<1>3. CASE Quit
  <2>1. End /\ faults' \in Nat /\ quits' \in Nat
    BY <1>1, <1>3 DEF Quit, VarsOK
  <2>2. QED
    BY <2>1, EndTypes
<1>4. CASE Crash
  <2>1. End /\ faults' \in Nat /\ quits' \in Nat
    BY <1>1, <1>4 DEF Crash, VarsOK
  <2>2. QED
    BY <2>1, EndTypes
<1>5. CASE \E p \in Peer : Encrypt(p) \/ Receive(p)
  BY <1>5, EncryptTyped, ReceiveTyped
<1>6. CASE \E D \in SUBSET Device : UpdateDeviceList(D)
  BY <1>6, UpdateTyped
<1>7. CASE \E t \in Thread : Step(t) \/ Error(t)
  BY <1>7, StepTyped, ErrorTyped
<1>8. CASE UNCHANGED vars
  <2>1. UNCHANGED <<disk, mem, local, program, fresh, identity, chains, sends, quits, faults, qrs, used, reused, unsaved, lost>>
    BY <1>8 DEF vars, bounds, sendVars
  <2>2. VarsOK'
    BY <1>1, <2>1 DEF VarsOK
  <2>3. ASSUME NEW t \in Thread PROVE (\E l, e : At(t, l, e) /\ Prepared(t, l, e))'
    <3>1. PICK l, e : At(t, l, e) /\ Prepared(t, l, e)
      BY DEF TypeOK
    <3>2. At(t, l, e)' /\ Prepared(t, l, e)'
      BY <2>1, <3>1 DEF At, Prepared
    <3>3. QED
      BY <3>2
  <2>4. QED
    BY <2>2, <2>3 DEF TypeOK
<1>9. QED
  BY <1>2, <1>3, <1>4, <1>5, <1>6, <1>7, <1>8 DEF Next

\* At first they are right.
LEMMA InitTyped == ASSUME Init PROVE TypeOK
<1>1. /\ disk = NoManager /\ mem = None /\ local = [t \in Thread |-> NoManager] /\ program = [t \in Thread |-> <<>>]
      /\ fresh = 0 /\ chains = 0 /\ sends = 0 /\ quits = 0 /\ faults = 0 /\ qrs = 0 /\ identity = None
      /\ used = {} /\ reused = FALSE /\ unsaved = FALSE /\ lost = FALSE
  BY DEF Init
<1>2. VarsOK
  <2>1. local \in [Thread -> Loading] /\ program \in [Thread -> Programs]
    BY <1>1, NoManagerIs, EndPrograms
  <2>2. QED
    BY <1>1, <2>1, NoManagerIs DEF VarsOK, Maybe
<1>3. ASSUME NEW t \in Thread PROVE \E l, e : At(t, l, e) /\ Prepared(t, l, e)
  <2>1. program[t] = <<>> /\ local[t] = NoManager
    BY <1>1
  <2>2. At(t, "end", <<>>)
    BY <2>1 DEF At, Ends
  <2>3. Prepared(t, "end", <<>>)
    BY <2>1, EndsApart, PlaceNames DEF Prepared, LoadPlace, SavePlace
  <2>4. QED
    BY <2>2, <2>3
<1>4. QED
  BY <1>2, <1>3 DEF TypeOK

\* TypeOK: the tables hold rows of keys, accounts and sessions, each thread is
\* at a place of a load or a save of its own, and what it has loaded so far
\* fits the place: OmemoManager's fields are set before they are used.
THEOREM TypeCorrect == Spec => []TypeOK
<1>1. Init => TypeOK
  BY InitTyped
<1>2. TypeOK /\ [Next]_vars => TypeOK'
  BY NextTyped
<1>3. QED
  BY <1>1, <1>2, PTL DEF Spec

-----------------------------------------------------------------------------
\* Counters

\* No chain is of two peers.
OneEach(S, T) ==
  \A p, q \in Peer : S[p] # None /\ T[q] # None /\ S[p].chain = T[q].chain => p = q

Started(S, n) == \A p \in Peer : S[p] # None => S[p].chain <= n

\* The counters are past those that encrypted a message.
Ahead(S, U) == \A p \in Peer : S[p] # None => \A u \in U : u[1] = S[p].chain => u[2] < S[p].index

Counters ==
  /\ \A u \in used : u[1] <= fresh
  /\ Started(Manager("worker").sessions, fresh) /\ Started(disk.sessions, fresh)
  /\ OneEach(Manager("worker").sessions, Manager("worker").sessions)
  /\ OneEach(Manager("worker").sessions, disk.sessions)
  /\ OneEach(disk.sessions, disk.sessions)
  /\ mem = None => ~unsaved
  /\ reused => lost
  /\ ~lost => Ahead(Manager("worker").sessions, used)
  /\ ~lost /\ ~unsaved => Ahead(disk.sessions, used)

\* The sessions are written.
Copying == {"DeleteDevices", "InsertDevice", "Saved"}

Copied(l) == l \in Copying => disk.sessions = Manager("worker").sessions

CountersInv == Counters /\ \E l, e : At("worker", l, e) /\ Prepared("worker", l, e) /\ Copied(l)

\* Sessions taken from the manager or the disk.
Taken(T, S, D) == \A p \in Peer : T[p] \in {None, S[p], D[p]}

\* Sessions taken from sessions of which no chain is of two peers are such sessions.
LEMMA OneEachTaken ==
  ASSUME NEW S, NEW D, NEW S1, NEW D1, Taken(S1, S, D), Taken(D1, S, D),
         OneEach(S, S), OneEach(S, D), OneEach(D, D)
  PROVE  OneEach(S1, D1)
BY DEF Taken, OneEach

\* Sessions taken from sessions of started chains are such sessions.
LEMMA StartedTaken ==
  ASSUME NEW S \in Sessions, NEW D \in Sessions, NEW S1, Taken(S1, S, D), NEW n \in Nat, NEW n1 \in Nat, n1 >= n,
         Started(S, n), Started(D, n)
  PROVE  Started(S1, n1)
<1>1. \A p \in Peer : (S[p] # None => S[p].chain \in Nat) /\ (D[p] # None => D[p].chain \in Nat)
  BY SessionFields
<1>2. QED
  BY <1>1 DEF Taken, Started

\* Counters taken from counters past those used are past them.
LEMMA AheadTaken ==
  ASSUME NEW S, NEW S1, NEW U, \A p \in Peer : S1[p] \in {None, S[p]}, Ahead(S, U)
  PROVE  Ahead(S1, U)
BY DEF Ahead

\* They are past fewer ones.
LEMMA AheadTaken2 ==
  ASSUME NEW S, NEW D, NEW S1, NEW U, Taken(S1, S, D), Ahead(S, U), Ahead(D, U)
  PROVE  Ahead(S1, U)
BY DEF Ahead, Taken

\* Sessions go between the manager and the disk, or are dropped.
LEMMA CountersTaken ==
  ASSUME Counters, TypeOK, fresh' \in Nat, fresh' >= fresh,
         NEW S1, S1 = Manager("worker").sessions', NEW D1, D1 = disk.sessions',
         Taken(S1, Manager("worker").sessions, disk.sessions),
         mem # None => \A p \in Peer : S1[p] \in {None, Manager("worker").sessions[p]},
         Taken(D1, Manager("worker").sessions, disk.sessions),
         used' = used, reused' = reused, mem' = None => ~unsaved', lost => lost',
         ~lost' /\ ~unsaved' /\ unsaved => \A p \in Peer : D1[p] \in {None, Manager("worker").sessions[p]}
  PROVE  Counters'
<1>1. PICK S : S = Manager("worker").sessions
  OBVIOUS
<1>2. PICK D : D = disk.sessions
  OBVIOUS
<1>3. S \in Sessions /\ D \in Sessions /\ fresh \in Nat /\ used \subseteq Nat \X Nat
  BY <1>1, <1>2, ManagerLoads, Fields DEF TypeOK, VarsOK, Thread
<1>4. /\ \A u \in used : u[1] <= fresh
      /\ Started(S, fresh) /\ Started(D, fresh)
      /\ OneEach(S, S) /\ OneEach(S, D) /\ OneEach(D, D)
      /\ mem = None => ~unsaved
      /\ reused => lost
      /\ ~lost => Ahead(S, used)
      /\ ~lost /\ ~unsaved => Ahead(D, used)
  BY <1>1, <1>2 DEF Counters
<1>5. \A u \in used' : u[1] <= fresh'
  BY <1>3, <1>4
<1>6. Started(S1, fresh') /\ Started(D1, fresh')
  BY <1>1, <1>2, <1>3, <1>4, StartedTaken
<1>7. Taken(S1, S, D) /\ Taken(D1, S, D)
  BY <1>1, <1>2
<1>8. OneEach(S1, S1) /\ OneEach(S1, D1) /\ OneEach(D1, D1)
  BY <1>4, <1>7, OneEachTaken
<1>9. ~lost' => Ahead(S1, used')
  <2>1. CASE mem # None
    BY <1>1, <1>4, <2>1, AheadTaken
  <2>2. CASE mem = None
    BY <1>4, <1>7, <2>2, AheadTaken2
  <2>3. QED
    BY <2>1, <2>2
<1>10. ~lost' /\ ~unsaved' => Ahead(D1, used')
  <2>1. CASE unsaved
    BY <1>1, <1>4, <2>1, AheadTaken
  <2>2. CASE ~unsaved
    BY <1>4, <1>7, <2>2, AheadTaken2
  <2>3. QED
    BY <2>1, <2>2
<1>11. QED
  BY <1>4, <1>5, <1>6, <1>8, <1>9, <1>10 DEF Counters

\* The manager of the worker, while one runs.
LEMMA ManagerIs ==
  /\ mem # None => Manager("worker") = mem
  /\ mem = None => Manager("worker") = local["worker"]
BY DEF Manager

\* Encrypt takes the next counter, which no message was encrypted with unless one was lost.
LEMMA CountersEncrypt == ASSUME Counters, TypeOK, NEW p \in Peer, Encrypt(p) PROVE Counters'
<1>1. VarsOK
  BY DEF TypeOK
<1>2. /\ mem \in Running /\ mem.sessions[p] \in Session
      /\ mem' \in Running /\ mem'.sessions[p] \in Session
      /\ mem'.sessions[p].chain = mem.sessions[p].chain
      /\ mem'.sessions[p].index = mem.sessions[p].index + 1
      /\ \A q \in Peer : q # p => mem'.sessions[q] = mem.sessions[q]
  BY <1>1, AfterEncrypt
<1>3. mem # None /\ mem' # None
  BY <1>2, NoneApart
<1>4. PICK S : S = mem.sessions
  OBVIOUS
<1>5. PICK S1 : S1 = mem'.sessions
  OBVIOUS
<1>6. PICK D : D = disk.sessions
  OBVIOUS
<1>7. PICK c, i : c = S[p].chain /\ i = S[p].index
  OBVIOUS
<1>8. /\ S[p] # None /\ S1[p] # None /\ S1[p].chain = c /\ S1[p].index = i + 1 /\ c \in Nat /\ i \in Nat
      /\ \A q \in Peer : q # p => S1[q] = S[q]
  BY <1>2, <1>4, <1>5, <1>7, SessionFields, NoneApart
<1>9. /\ UNCHANGED <<disk, local, fresh, lost>>
      /\ used' = used \cup {<<c, i>>} /\ unsaved' = TRUE /\ reused' = (reused \/ <<c, i>> \in used)
  BY <1>4, <1>7 DEF Encrypt
<1>10. Manager("worker") = mem /\ Manager("worker")' = mem'
  BY <1>3 DEF Manager
<1>11. S \in Sessions /\ D \in Sessions /\ S1 \in Sessions
  BY <1>1, <1>2, <1>4, <1>5, <1>6, Fields DEF VarsOK
<1>12. /\ \A u \in used : u[1] <= fresh
       /\ Started(S, fresh) /\ Started(D, fresh)
       /\ OneEach(S, S) /\ OneEach(S, D) /\ OneEach(D, D)
       /\ reused => lost
       /\ ~lost => Ahead(S, used)
  BY <1>4, <1>6, <1>10 DEF Counters
<1>13. \A u \in used' : u[1] <= fresh'
  <2>1. c <= fresh
    BY <1>7, <1>8, <1>12 DEF Started
  <2>2. QED
    BY <1>9, <1>12, <2>1
<1>14. \A q \in Peer : (S1[q] = None <=> S[q] = None) /\ (S[q] # None => S1[q].chain = S[q].chain)
  BY <1>7, <1>8
<1>15. Started(S1, fresh)
  BY <1>12, <1>14 DEF Started
<1>16. OneEach(S1, S1) /\ OneEach(S1, D)
  BY <1>12, <1>14 DEF OneEach
<1>17. reused' => lost'
  <2>1. ASSUME <<c, i>> \in used PROVE lost
    <3>1. ASSUME ~lost PROVE FALSE
      <4>1. PICK u \in used : u = <<c, i>>
        BY <2>1
      <4>2. u[1] = S[p].chain /\ u[2] = i
        BY <1>7, <4>1
      <4>3. u[2] < S[p].index
        BY <1>8, <1>12, <3>1, <4>1, <4>2 DEF Ahead
      <4>4. QED
        BY <1>7, <1>8, <4>2, <4>3
    <3>2. QED
      BY <3>1
  <2>2. QED
    BY <1>9, <1>12, <2>1
<1>18. ASSUME ~lost, NEW q \in Peer, S1[q] # None, NEW u \in used', u[1] = S1[q].chain
       PROVE  u[2] < S1[q].index
  <2>1. S[q] # None /\ u[1] = S[q].chain
    BY <1>14, <1>18
  <2>2. CASE u \in used
    <3>1. u[2] < S[q].index
      BY <1>12, <1>18, <2>1, <2>2 DEF Ahead
    <3>2. S[q].index \in Nat /\ u[2] \in Nat
      <4>1. S[q] \in Session
        BY <1>11, <2>1, SessionFields
      <4>2. used \subseteq Nat \X Nat
        BY <1>1 DEF VarsOK
      <4>3. QED
        BY <2>2, <4>1, <4>2, SessionFields
    <3>3. CASE q = p
      BY <1>7, <1>8, <3>1, <3>2, <3>3
    <3>4. CASE q # p
      BY <1>8, <3>1, <3>4
    <3>5. QED
      BY <3>3, <3>4
  <2>3. CASE u = <<c, i>>
    <3>1. u[1] = c /\ u[2] = i
      BY <2>3
    <3>2. S[q].chain = S[p].chain
      BY <1>7, <2>1, <3>1
    <3>3. q = p
      BY <1>8, <1>12, <2>1, <3>2 DEF OneEach
    <3>4. QED
      BY <1>8, <3>1, <3>3
  <2>4. QED
    BY <1>9, <2>2, <2>3
<1>19. ~lost' => Ahead(S1, used')
  BY <1>9, <1>18 DEF Ahead
<1>20. disk'.sessions = D /\ Manager("worker").sessions' = S1
  BY <1>5, <1>6, <1>9, <1>10
<1>21. QED
  BY <1>3, <1>9, <1>12, <1>13, <1>15, <1>16, <1>17, <1>19, <1>20 DEF Counters

\* StartChain starts a chain no message was encrypted with.
LEMMA CountersStart ==
  ASSUME Counters, TypeOK, NEW p \in Peer, mem # None, StartChain(p),
         UNCHANGED <<disk, local, used, reused, unsaved, lost>>
  PROVE  Counters'
<1>1. VarsOK
  BY DEF TypeOK
<1>2. /\ mem \in Running /\ fresh' = fresh + 1
      /\ mem' \in Running /\ mem'.sessions[p] \in Session
      /\ mem'.sessions[p].chain = fresh + 1 /\ mem'.sessions[p].index = 0
      /\ \A q \in Peer : q # p => mem'.sessions[q] = mem.sessions[q]
  BY <1>1, AfterStartChain
<1>3. mem # None /\ mem' # None
  BY <1>2, NoneApart
<1>4. PICK S : S = mem.sessions
  OBVIOUS
<1>5. PICK S1 : S1 = mem'.sessions
  OBVIOUS
<1>6. PICK D : D = disk.sessions
  OBVIOUS
<1>8. /\ S1[p] # None /\ S1[p].chain = fresh + 1
      /\ \A q \in Peer : q # p => S1[q] = S[q]
  BY <1>2, <1>4, <1>5, NoneApart
<1>10. Manager("worker") = mem /\ Manager("worker")' = mem'
  BY <1>3 DEF Manager
<1>11. /\ S \in Sessions /\ D \in Sessions /\ S1 \in Sessions /\ fresh \in Nat /\ used \subseteq Nat \X Nat
  BY <1>1, <1>2, <1>4, <1>5, <1>6, Fields DEF VarsOK
<1>12. /\ \A u \in used : u[1] <= fresh
       /\ Started(S, fresh) /\ Started(D, fresh)
       /\ OneEach(S, S) /\ OneEach(S, D) /\ OneEach(D, D)
       /\ reused => lost
       /\ ~lost => Ahead(S, used)
       /\ ~lost /\ ~unsaved => Ahead(D, used)
  BY <1>4, <1>6, <1>10 DEF Counters
<1>13. /\ \A q \in Peer : S[q] # None => S[q].chain \in Nat /\ S[q].chain <= fresh
       /\ \A q \in Peer : D[q] # None => D[q].chain \in Nat /\ D[q].chain <= fresh
       /\ \A u \in used : u[1] \in Nat /\ u[1] <= fresh
  BY <1>11, <1>12, SessionFields DEF Started
<1>14. (\A u \in used : u[1] <= fresh)'
  BY <1>2, <1>11, <1>13
<1>15. Started(S1, fresh + 1) /\ Started(D, fresh + 1)
  BY <1>8, <1>11, <1>13 DEF Started
<1>16. OneEach(S1, S1) /\ OneEach(S1, D)
  <2>1. \A q \in Peer : (S[q] # None => S[q].chain # fresh + 1) /\ (D[q] # None => D[q].chain # fresh + 1)
    BY <1>11, <1>13
  <2>2. QED
    BY <1>8, <1>12, <2>1 DEF OneEach
<1>17. ~lost => Ahead(S1, used)
  <2>1. \A u \in used : u[1] # fresh + 1
    BY <1>11, <1>13
  <2>2. QED
    BY <1>8, <1>12, <2>1 DEF Ahead
<1>20. disk'.sessions = D /\ Manager("worker").sessions' = S1
  BY <1>5, <1>6, <1>10
<1>21. QED
  BY <1>2, <1>3, <1>12, <1>14, <1>15, <1>16, <1>17, <1>20 DEF Counters

\* One session is inserted.
LEMMA AfterInsertRow ==
  ASSUME VarsOK, NEW t \in Thread, NEW q \in Peer, disk' = [disk EXCEPT !.sessions[q] = Manager(t).sessions[q]]
  PROVE  /\ disk' \in Tables /\ disk'.key = disk.key /\ disk'.account = disk.account /\ disk'.devices = disk.devices
         /\ disk'.sessions[q] = Manager(t).sessions[q]
         /\ \A p \in Peer : p # q => disk'.sessions[p] = disk.sessions[p]
<1>1. disk \in Tables /\ disk.sessions \in Sessions
  BY Fields DEF VarsOK
<1>2. Manager(t).sessions \in Sessions
  BY ManagerLoads, Fields
<1>3. PICK T : T = [disk.sessions EXCEPT ![q] = Manager(t).sessions[q]]
  OBVIOUS
<1>4. T \in Sessions /\ T[q] = Manager(t).sessions[q] /\ \A p \in Peer : p # q => T[p] = disk.sessions[p]
  BY <1>1, <1>2, <1>3 DEF Sessions
<1>5. disk' = [disk EXCEPT !.sessions = T]
  BY <1>1, <1>3 DEF Tables
<1>6. disk' \in Tables /\ disk'.key = disk.key /\ disk'.account = disk.account /\ disk'.sessions = T
      /\ disk'.devices = disk.devices
  BY <1>1, <1>4, <1>5 DEF Tables
<1>7. QED
  BY <1>4, <1>6

\* The statements that leave all sessions alone.
SessionsStay(t) ==
  /\ mem' = mem /\ local'[t].sessions = local[t].sessions /\ disk'.sessions = disk.sessions
  /\ unsaved' = unsaved /\ fresh' >= fresh

\* Statements of a load that leave the sessions alone.
LEMMA LoadStays ==
  ASSUME TypeOK, NEW t \in Thread, NEW ok \in BOOLEAN
  PROVE  /\ LoadKey(t, ok) /\ local[t].sessions = NoSessions => SessionsStay(t)
         /\ LoadAccount(t, ok) => SessionsStay(t)
         /\ LoadDevices(t, ok) => SessionsStay(t)
         /\ MakeAccount(t) => SessionsStay(t)
         /\ Fails(t) => SessionsStay(t)
<1>1. VarsOK /\ fresh \in Nat
  BY DEF TypeOK, VarsOK
<1>2. ASSUME LoadKey(t, ok), local[t].sessions = NoSessions PROVE SessionsStay(t)
  BY <1>1, <1>2, AfterLoadKey DEF SessionsStay
<1>3. ASSUME LoadAccount(t, ok) PROVE SessionsStay(t)
  BY <1>1, <1>3, AfterLoadAccount DEF SessionsStay
<1>4. ASSUME LoadDevices(t, ok) PROVE SessionsStay(t)
  BY <1>1, <1>4, AfterLoadDevices DEF SessionsStay
<1>5. ASSUME MakeAccount(t) PROVE SessionsStay(t)
  BY <1>1, <1>5, AfterMakeAccount DEF SessionsStay
<1>6. ASSUME Fails(t) PROVE SessionsStay(t)
  BY <1>1, <1>6 DEF SessionsStay, Fails
<1>7. QED
  BY <1>2, <1>3, <1>4, <1>5, <1>6

\* A write of another table.
LEMMA WriteStays ==
  ASSUME TypeOK, NEW t \in Thread, UNCHANGED <<mem, local, fresh, unsaved>>, disk'.sessions = disk.sessions
  PROVE  SessionsStay(t)
BY DEF SessionsStay, TypeOK, VarsOK

\* All statements that leave the sessions alone.
LEMMA GoesStays ==
  ASSUME TypeOK, NEW t \in Thread, NEW l, NEW e, At(t, l, e), Prepared(t, l, e), NEW m, NEW f, Goes(t, l, e, m, f),
         l \notin {"LoadSessions", "DeleteSessions", "InsertSession", "Saved", "end"}
  PROVE  SessionsStay(t)
<1>1. VarsOK /\ disk \in Tables
  BY DEF TypeOK, VarsOK
<1>2. CASE l \in {"LoadKey", "LoadKey2"}
  <2>1. LoadKey(t, TRUE) /\ local[t].sessions = NoSessions
    BY <1>2 DEF Goes, Prepared, LoadPlace
  <2>2. QED
    BY <2>1, LoadStays
<1>3. CASE l \in {"DeleteKey", "DeleteKey2"}
  <2>1. Write(t, [disk EXCEPT !.key = None])
    BY <1>3 DEF Goes
  <2>2. UNCHANGED <<mem, local, fresh, unsaved>> /\ disk'.sessions = disk.sessions
    BY <1>1, <2>1, AfterDelete
  <2>3. QED
    BY <2>2, WriteStays
<1>4. CASE l \in {"InsertKey", "InsertKey2"}
  <2>1. InsertKey(t)
    BY <1>4 DEF Goes
  <2>2. UNCHANGED <<mem, local, fresh, unsaved>> /\ disk'.sessions = disk.sessions
    BY <1>1, <2>1, AfterInsertKey
  <2>3. QED
    BY <2>2, WriteStays
<1>5. CASE l = "LoadAccount"
  BY <1>5, LoadStays DEF Goes
<1>6. CASE l = "MakeAccount"
  <2>1. MakeAccount(t)
    BY <1>6 DEF Goes
  <2>2. QED
    BY <2>1, LoadStays
<1>7. CASE l = "LoadDevices"
  BY <1>7, LoadStays DEF Goes
<1>8. CASE l \in {"DeleteAccount1", "DeleteAccount2", "DeleteAccount"}
  <2>1. Write(t, [disk EXCEPT !.account = None])
    BY <1>8 DEF Goes
  <2>2. UNCHANGED <<mem, local, fresh, unsaved>> /\ disk'.sessions = disk.sessions
    BY <1>1, <2>1, AfterDelete
  <2>3. QED
    BY <2>2, WriteStays
<1>9. CASE l \in {"InsertAccount1", "InsertAccount2", "InsertAccount"}
  <2>1. InsertAccount(t)
    BY <1>9 DEF Goes
  <2>2. l \in SavePlace \cup (LoadPlace \ Nameless) \/ (e \in {Installing, Closing, Dropping} /\ l = "end")
    BY <1>9 DEF SavePlace, LoadPlace, Nameless
  <2>3. Manager(t).account \in Nat /\ Manager(t).key \in Nat
    BY <1>1, <2>2, ManagerNamed
  <2>4. UNCHANGED <<mem, local, fresh, unsaved>> /\ disk'.sessions = disk.sessions
    BY <1>1, <2>1, <2>3, AfterInsertAccount
  <2>5. QED
    BY <2>4, WriteStays
<1>10. CASE l = "DeleteDevices"
  <2>1. Write(t, [disk EXCEPT !.devices = {}])
    BY <1>10 DEF Goes
  <2>2. UNCHANGED <<mem, local, fresh, unsaved>> /\ disk'.sessions = disk.sessions
    BY <1>1, <2>1, AfterDelete
  <2>3. QED
    BY <2>2, WriteStays
<1>11. CASE l = "InsertDevice"
  <2>1. UNCHANGED <<mem, local, fresh, unsaved>>
    BY <1>11 DEF Goes, Write
  <2>2. disk'.sessions = disk.sessions
    <3>1. CASE disk' = disk
      BY <3>1
    <3>2. CASE disk' # disk
      <4>1. PICK d \in Manager(t).devices : disk' = [disk EXCEPT !.devices = @ \cup {d}]
        BY <1>11, <3>2 DEF Goes, Write
      <4>2. QED
        BY <1>1, <4>1 DEF Tables
    <3>3. QED
      BY <3>1, <3>2
  <2>3. QED
    BY <2>1, <2>2, WriteStays
<1>12. l \in LoadPlace \cup SavePlace \cup {"end"}
  BY AtLoad
<1>13. QED
  BY <1>2, <1>3, <1>4, <1>5, <1>6, <1>7, <1>8, <1>9, <1>10, <1>11, <1>12 DEF LoadPlace, SavePlace

\* The worker's manager after a statement of thread t.
LEMMA ManagerStays ==
  ASSUME TypeOK, NEW t \in Thread, SessionsStay(t), LoadsAlone(t)
  PROVE  Manager("worker").sessions' = Manager("worker").sessions
<1>1. mem' = mem
  BY DEF SessionsStay
<1>2. local'["worker"].sessions = local["worker"].sessions
  BY DEF SessionsStay, LoadsAlone, Thread
<1>3. CASE mem # None
  <2>1. Manager("worker") = mem /\ Manager("worker")' = mem'
    BY <1>1, <1>3 DEF Manager
  <2>2. QED
    BY <1>1, <2>1
<1>4. CASE mem = None
  <2>1. Manager("worker") = local["worker"] /\ Manager("worker")' = local'["worker"]
    BY <1>1, <1>4 DEF Manager
  <2>2. QED
    BY <1>2, <2>1
<1>5. QED
  BY <1>3, <1>4

\* Where the sessions stay, so do the facts about counters.
LEMMA CountersStay ==
  ASSUME Counters, TypeOK, NEW t \in Thread, SessionsStay(t), LoadsAlone(t), fresh' \in Nat,
         UNCHANGED <<used, reused>>, lost => lost'
  PROVE  Counters'
<1>1. Manager("worker").sessions' = Manager("worker").sessions
  BY ManagerStays
<1>2. /\ disk'.sessions = disk.sessions /\ fresh' >= fresh /\ mem' = mem /\ unsaved' = unsaved
  BY DEF SessionsStay
<1>3. Taken(Manager("worker").sessions, Manager("worker").sessions, disk.sessions)
      /\ Taken(disk.sessions, Manager("worker").sessions, disk.sessions)
  BY DEF Taken
<1>4. mem = None => ~unsaved
  BY DEF Counters
<1>5. QED
  BY <1>1, <1>2, <1>3, <1>4, CountersTaken

\* And what is known of a written table.
LEMMA CopiedStays ==
  ASSUME TypeOK, NEW t \in Thread, SessionsStay(t), LoadsAlone(t), NEW l, Copied(l), NEW m, m \in Copying => l \in Copying
  PROVE  Copied(m)'
<1>1. Manager("worker").sessions' = Manager("worker").sessions /\ disk'.sessions = disk.sessions
  BY ManagerStays DEF SessionsStay
<1>2. QED
  BY <1>1 DEF Copied

\* Only the worker is where sessions are written.
LEMMA CopyingPlaces ==
  ASSUME NEW t \in Thread, NEW l, NEW e, At(t, l, e), NEW m, NEW f, Goes(t, l, e, m, f), l # "InsertSession", m \in Copying
  PROVE  l \in Copying
<1>1. CASE l \in {"LoadKey", "LoadKey2", "InsertKey", "InsertKey2"}
  BY <1>1 DEF Goes, Copying, AfterKey, NewKey
<1>2. CASE l \in {"InsertAccount2", "LoadDevices"}
  BY <1>2 DEF Goes, Copying, AfterLoad
<1>3. CASE l \notin {"LoadKey", "LoadKey2", "InsertKey", "InsertKey2", "InsertAccount2", "LoadDevices"}
  BY <1>3 DEF Goes, Copying
<1>4. QED
  BY <1>1, <1>2, <1>3

\* A statement keeps the facts about counters.
LEMMA CountersGoes ==
  ASSUME Counters, TypeOK, NEW t \in Thread, NEW l, NEW e, At(t, l, e), Prepared(t, l, e), t = "worker" => Copied(l),
         NEW m, NEW f, Goes(t, l, e, m, f), Typed(t, m, f), UNCHANGED <<used, reused>>,
         lost => lost', l = "end" /\ e = Dropping /\ unsaved => lost'
  PROVE  Counters' /\ (t = "worker" => Copied(m)')
<1>1. VarsOK /\ disk \in Tables /\ fresh \in Nat /\ LoadsAlone(t) /\ fresh' \in Nat /\ "worker" \in Thread
  BY DEF TypeOK, VarsOK, Typed, Thread
<1>2. mem = None => ~unsaved
  BY DEF Counters
<1>3. CASE l \notin {"LoadSessions", "DeleteSessions", "InsertSession", "Saved", "end"}
  <2>1. SessionsStay(t)
    BY <1>3, GoesStays
  <2>2. m \in Copying => l \in Copying
    BY <1>3, CopyingPlaces
  <2>3. Counters'
    BY <1>1, <2>1, CountersStay
  <2>4. ASSUME t = "worker" PROVE Copied(m)'
    BY <1>1, <2>1, <2>2, <2>4, CopiedStays
  <2>5. QED
    BY <2>3, <2>4
<1>4. CASE l = "LoadSessions"
  <2>1. LoadSessions(t, TRUE) /\ m = "LoadDevices"
    BY <1>4 DEF Goes
  <2>2. /\ UNCHANGED <<disk, mem, fresh, identity, unsaved>>
        /\ \A p \in Peer : local'[t].sessions[p] =
              IF TRUE /\ disk.sessions[p] # None /\ disk.sessions[p].key = local[t].key
              THEN disk.sessions[p] ELSE None
    BY <1>1, <2>1, AfterLoadSessions
  <2>3. Taken(disk.sessions, Manager("worker").sessions, disk.sessions)
    BY DEF Taken
  <2>4. /\ Taken(Manager("worker").sessions', Manager("worker").sessions, disk.sessions)
        /\ mem # None => \A p \in Peer : (Manager("worker").sessions')[p] \in {None, Manager("worker").sessions[p]}
    <3>1. CASE mem # None
      <4>1. Manager("worker")' = Manager("worker")
        BY <2>2, <3>1 DEF Manager
      <4>2. QED
        BY <4>1 DEF Taken
    <3>2. CASE mem = None
      <4>1. Manager("worker") = local["worker"] /\ Manager("worker")' = local'["worker"]
        BY <2>2, <3>2 DEF Manager
      <4>2. CASE t = "worker"
        BY <2>2, <3>2, <4>1, <4>2 DEF Taken
      <4>3. CASE t # "worker"
        <5>1. local'["worker"] = local["worker"]
          BY <1>1, <4>3 DEF LoadsAlone
        <5>2. QED
          BY <3>2, <4>1, <5>1 DEF Taken
      <4>4. QED
        BY <4>2, <4>3
    <3>3. QED
      BY <3>1, <3>2
  <2>5. Counters'
    BY <1>1, <1>2, <2>2, <2>3, <2>4, CountersTaken
  <2>6. QED
    BY <2>1, <2>5 DEF Copied, Copying
<1>5. CASE l \in {"DeleteSessions", "InsertSession"}
  <2>1. t = "worker"
    BY <1>5, AtLoad DEF SavePlace
  <2>2. UNCHANGED <<mem, local, fresh, unsaved>>
    BY <1>5 DEF Goes, Write, Fails
  <2>3. Manager("worker")' = Manager("worker")
    BY <2>2 DEF Manager
  <2>4. \A p \in Peer : disk'.sessions[p] \in {None, disk.sessions[p], Manager("worker").sessions[p]}
    <3>1. CASE l = "DeleteSessions"
      <4>1. Write(t, [disk EXCEPT !.sessions = NoSessions])
        BY <3>1 DEF Goes
      <4>2. disk'.sessions = NoSessions
        BY <1>1, <4>1, AfterDelete
      <4>3. QED
        BY <4>2, NoManagerIs
    <3>2. CASE l = "InsertSession" /\ disk' # disk
      <4>1. PICK q \in Peer : disk' = [disk EXCEPT !.sessions[q] = Manager(t).sessions[q]]
        BY <3>2 DEF Goes, Write, Fails
      <4>3. disk'.sessions[q] = Manager(t).sessions[q] /\ \A p \in Peer : p # q => disk'.sessions[p] = disk.sessions[p]
        BY <1>1, <4>1, AfterInsertRow
      <4>4. QED
        BY <2>1, <4>3
    <3>3. CASE disk' = disk
      BY <3>3
    <3>4. QED
      BY <1>5, <3>1, <3>2, <3>3
  <2>5. Counters'
    <3>1. Taken(Manager("worker").sessions, Manager("worker").sessions, disk.sessions)
      BY DEF Taken
    <3>2. Taken(disk'.sessions, Manager("worker").sessions, disk.sessions)
      BY <2>4 DEF Taken
    <3>3. QED
      BY <1>1, <1>2, <2>2, <2>3, <3>1, <3>2, CountersTaken
  <2>6. Copied(m)'
    <3>1. CASE m = "DeleteDevices"
      <4>1. \A p \in Peer : disk.sessions[p] = Manager(t).sessions[p]
        BY <1>5, <3>1 DEF Goes
      <4>2. disk' = disk
        BY <1>5, <3>1 DEF Goes, Write
      <4>3. disk.sessions \in Sessions /\ Manager("worker").sessions \in Sessions
        BY <1>1, ManagerLoads, Fields
      <4>4. disk.sessions = Manager("worker").sessions
        BY <2>1, <4>1, <4>3 DEF Sessions
      <4>5. QED
        BY <2>3, <4>2, <4>4 DEF Copied
    <3>2. CASE m # "DeleteDevices"
      <4>1. m \in {"InsertSession", "end"}
        BY <1>5, <3>2 DEF Goes
      <4>2. QED
        BY <4>1 DEF Copied, Copying
    <3>3. QED
      BY <3>1, <3>2
  <2>7. QED
    BY <2>5, <2>6
<1>6. CASE l = "Saved"
  <2>1. t = "worker" /\ Saved(t) /\ m = "end"
    BY <1>6, AtLoad DEF Goes, SavePlace
  <2>2. UNCHANGED <<disk, mem, local, fresh>> /\ unsaved' = FALSE
    BY <2>1 DEF Saved
  <2>3. Manager("worker")' = Manager("worker")
    BY <2>2 DEF Manager
  <2>4. disk.sessions = Manager("worker").sessions
    BY <1>6, <2>1 DEF Copied, Copying
  <2>5. Taken(Manager("worker").sessions, Manager("worker").sessions, disk.sessions)
        /\ Taken(disk.sessions, Manager("worker").sessions, disk.sessions)
    BY DEF Taken
  <2>6. Counters'
    BY <1>1, <2>2, <2>3, <2>4, <2>5, CountersTaken
  <2>7. QED
    BY <2>1, <2>6 DEF Copied, Copying
<1>7. CASE l = "end"
  <2>1. m = "end" /\ \/ e = Installing /\ Install(t)
                     \/ e = Dropping /\ Drop(t)
                     \/ e = Closing /\ Close(t) /\ UNCHANGED mem
    BY <1>7 DEF Goes
  <2>2. Taken(disk.sessions, Manager("worker").sessions, disk.sessions) /\ Taken(Manager("worker").sessions, Manager("worker").sessions, disk.sessions)
    BY DEF Taken
  <2>3. CASE e = Installing /\ Install(t)
    <3>1. t = "worker" /\ mem = None
      BY <2>3, AtLoad, EndsApart DEF Prepared, Thread
    <3>2. mem' = local[t] /\ Close(t)
      BY <2>3 DEF Install
    <3>3. UNCHANGED <<disk, fresh, unsaved>> /\ local'[t] = NoManager
      BY <1>1, <3>2, AfterClose
    <3>4. Manager("worker").sessions' = Manager("worker").sessions
      <4>1. Manager("worker") = local["worker"]
        BY <3>1 DEF Manager
      <4>2. mem' # None
        <5>1. local[t].key \in Nat /\ local[t].account \in Nat /\ local[t] \in Loading
          BY <1>1, <1>7, <2>3, PlaceNames DEF Prepared, VarsOK
        <5>2. QED
          BY <3>2, <5>1, LoadedRuns, NoneApart
      <4>3. Manager("worker")' = mem'
        BY <4>2 DEF Manager
      <4>4. QED
        BY <3>1, <3>2, <4>1, <4>3
    <3>5. QED
      BY <1>1, <1>2, <2>1, <2>2, <3>1, <3>3, <3>4, CountersTaken DEF Copied, Copying
  <2>4. CASE e = Dropping /\ Drop(t)
    <3>1. t = "worker" /\ local["worker"] = NoManager
      BY <2>4, AtLoad, EndsApart DEF Prepared, Thread
    <3>2. UNCHANGED <<disk, local, fresh>> /\ unsaved' = FALSE /\ mem' = None
      BY <2>4 DEF Drop
    <3>3. Manager("worker").sessions' = NoSessions
      BY <3>1, <3>2, NoManagerIs DEF Manager
    <3>4. \A p \in Peer : (Manager("worker").sessions')[p] = None
      BY <3>3, NoManagerIs
    <3>5. Counters'
      BY <1>1, <1>2, <1>7, <2>2, <2>4, <3>2, <3>4, CountersTaken DEF Taken
    <3>6. QED
      BY <2>1, <3>5 DEF Copied, Copying
  <2>5. CASE e = Closing /\ Close(t) /\ UNCHANGED mem
    <3>1. t # "worker"
      BY <2>5, AtLoad, EndsApart
    <3>2. UNCHANGED <<disk, fresh, unsaved>>
      BY <1>1, <2>5, AfterClose
    <3>3. local'["worker"] = local["worker"]
      BY <1>1, <3>1 DEF LoadsAlone
    <3>4. Manager("worker")' = Manager("worker")
      BY <2>5, <3>3 DEF Manager
    <3>5. QED
      BY <1>1, <1>2, <2>2, <2>5, <3>1, <3>2, <3>4, CountersTaken
  <2>6. QED
    BY <2>1, <2>3, <2>4, <2>5
<1>8. QED
  BY <1>3, <1>4, <1>5, <1>6, <1>7

\* A statement that fails changes no table; a load goes on with less.
LEMMA CountersFalls ==
  ASSUME Counters, TypeOK, NEW t \in Thread, NEW l, NEW e, At(t, l, e), Prepared(t, l, e), t = "worker" => Copied(l),
         NEW m, Falls(t, l, e, m), Typed(t, m, e), UNCHANGED <<used, reused, lost>>
  PROVE  Counters' /\ (t = "worker" => Copied(m)')
<1>1. VarsOK /\ disk \in Tables /\ fresh \in Nat /\ LoadsAlone(t) /\ fresh' \in Nat /\ "worker" \in Thread
  BY DEF TypeOK, VarsOK, Typed, Thread
<1>2. mem = None => ~unsaved
  BY DEF Counters
<1>3. m \notin Copying
  BY DEF Falls, Copying, NewKey, AfterKey, AfterLoad
<1>4. Copied(m)'
  BY <1>3 DEF Copied
<1>5. CASE SessionsStay(t)
  BY <1>1, <1>4, <1>5, CountersStay
<1>6. CASE l = "LoadSessions" /\ LoadSessions(t, FALSE)
  <2>2. /\ UNCHANGED <<disk, mem, fresh, identity, unsaved>>
        /\ \A p \in Peer : local'[t].sessions[p] =
              IF FALSE /\ disk.sessions[p] # None /\ disk.sessions[p].key = local[t].key
              THEN disk.sessions[p] ELSE None
    BY <1>1, <1>6, AfterLoadSessions
  <2>3. \A p \in Peer : (Manager("worker").sessions')[p] \in {None, Manager("worker").sessions[p]}
    <3>1. CASE mem # None
      <4>1. Manager("worker")' = Manager("worker")
        BY <2>2, <3>1 DEF Manager
      <4>2. QED
        BY <4>1
    <3>2. CASE mem = None
      <4>1. Manager("worker") = local["worker"] /\ Manager("worker")' = local'["worker"]
        BY <2>2, <3>2 DEF Manager
      <4>2. CASE t = "worker"
        BY <2>2, <4>1, <4>2
      <4>3. CASE t # "worker"
        <5>1. local'["worker"] = local["worker"]
          BY <1>1, <4>3 DEF LoadsAlone
        <5>2. QED
          BY <4>1, <5>1
      <4>4. QED
        BY <4>2, <4>3
    <3>3. QED
      BY <3>1, <3>2
  <2>4. Taken(disk.sessions, Manager("worker").sessions, disk.sessions)
        /\ Taken(Manager("worker").sessions', Manager("worker").sessions, disk.sessions)
    BY <2>3 DEF Taken
  <2>5. Counters'
    BY <1>1, <1>2, <2>2, <2>3, <2>4, CountersTaken
  <2>6. QED
    BY <1>4, <2>5
<1>7. SessionsStay(t) \/ (l = "LoadSessions" /\ LoadSessions(t, FALSE))
  <2>1. l \in {"LoadKey", "LoadKey2"} => local[t].sessions = NoSessions
    BY DEF Prepared, LoadPlace
  <2>2. QED
    BY <2>1, LoadStays DEF Falls
<1>8. QED
  BY <1>5, <1>6, <1>7

\* Every step keeps them.
LEMMA CountersNext == ASSUME Counters, TypeOK, TypeOK', CountersInv, [Next]_vars PROVE CountersInv'
<1>1. PICK l, e : At("worker", l, e) /\ Prepared("worker", l, e) /\ Copied(l)
  BY DEF CountersInv
<1>2. VarsOK /\ program \in [Thread -> Programs] /\ "worker" \in Thread /\ fresh \in Nat /\ fresh' \in Nat
  BY DEF TypeOK, VarsOK, Thread
<1>3. mem = None => ~unsaved
  BY DEF Counters
<1>4. Taken(disk.sessions, Manager("worker").sessions, disk.sessions) /\ Taken(Manager("worker").sessions, Manager("worker").sessions, disk.sessions)
  BY DEF Taken
\* A place other than those of the last part of a save will do.
<1>5. ASSUME NEW m \in {"LoadKey", "DeleteAccount", "end"}, NEW f, At("worker", m, f)', Prepared("worker", m, f)', Counters'
      PROVE  CountersInv'
  <2>1. Copied(m)'
    BY DEF Copied, Copying
  <2>2. QED
    BY <1>5, <2>1 DEF CountersInv
<1>6. ASSUME NEW t \in Thread, Step(t) PROVE CountersInv'
  <2>1. PICK x, y : At(t, x, y) /\ Prepared(t, x, y) /\ (t = "worker" => Copied(x))
    BY <1>1 DEF TypeOK
  <2>2. Alone(t) /\ \E m, f : At(t, m, f)' /\ Goes(t, x, y, m, f)
    BY <1>2, <1>6, <2>1, StepGoes
  <2>3. PICK m, f : At(t, m, f)' /\ Goes(t, x, y, m, f)
    BY <2>2
  <2>4. Typed(t, m, f)
    BY <1>2, <2>1, <2>3, GoesTyped
  <2>5. UNCHANGED <<used, reused>> /\ lost' = (lost \/ (unsaved /\ Head(program[t]).op = "Drop"))
    BY <1>6 DEF Step, bounds
  <2>6. x = "end" /\ y = Dropping => Head(program[t]).op = "Drop"
    <3>1. ASSUME x = "end", y = Dropping PROVE Head(program[t]).op = "Drop"
      <4>1. program[t] = Dropping
        BY <2>1, <3>1, PlaceNames DEF At
      <4>2. Head(Dropping) = Stmt("Drop", "drop")
        BY EndFirst DEF First
      <4>3. QED
        BY <4>1, <4>2 DEF Stmt
    <3>2. QED
      BY <3>1
  <2>7. Counters' /\ (t = "worker" => Copied(m)')
    BY <2>1, <2>3, <2>4, <2>5, <2>6, CountersGoes
  <2>8. CASE t = "worker"
    BY <2>3, <2>4, <2>7, <2>8 DEF CountersInv, Typed
  <2>9. CASE t # "worker"
    <3>1. local'["worker"] = local["worker"] /\ mem' = mem
      BY <2>4, <2>9 DEF Typed, LoadsAlone, Thread
    <3>2. At("worker", l, e)' /\ Prepared("worker", l, e)'
      BY <1>1, <1>2, <2>2, <2>9, <3>1, OtherStays
    <3>3. disk'.sessions = disk.sessions
      <4>1. x \notin {"DeleteSessions", "InsertSession"}
        BY <2>1, <2>9, AtLoad DEF SavePlace
      <4>2. CASE x \in {"LoadSessions", "Saved", "end"}
        <5>1. UNCHANGED disk
          BY <2>3, <4>2 DEF Goes, LoadSessions, Saved, Install, Drop, Close
        <5>2. QED
          BY <5>1
      <4>3. CASE x \notin {"LoadSessions", "Saved", "end"}
        BY <2>1, <2>3, <4>1, <4>3, GoesStays DEF SessionsStay
      <4>4. QED
        BY <4>2, <4>3
    <3>4. Manager("worker")' = Manager("worker")
      BY <3>1 DEF Manager
    <3>5. Copied(l)'
      BY <1>1, <3>3, <3>4 DEF Copied
    <3>6. QED
      BY <2>7, <3>2, <3>5 DEF CountersInv
  <2>10. QED
    BY <2>8, <2>9
<1>7. ASSUME NEW t \in Thread, Error(t) PROVE CountersInv'
  <2>1. PICK x, y : At(t, x, y) /\ Prepared(t, x, y) /\ (t = "worker" => Copied(x))
    BY <1>1 DEF TypeOK
  <2>2. Alone(t) /\ \E m : At(t, m, y)' /\ Falls(t, x, y, m)
    BY <1>2, <1>7, <2>1, ErrorFalls
  <2>3. PICK m : At(t, m, y)' /\ Falls(t, x, y, m)
    BY <2>2
  <2>4. Typed(t, m, y)
    BY <1>2, <2>1, <2>3, FallsTyped
  <2>5. UNCHANGED <<used, reused, lost>>
    BY <1>7 DEF Error
  <2>7. Counters' /\ (t = "worker" => Copied(m)')
    BY <2>1, <2>3, <2>4, <2>5, CountersFalls
  <2>8. CASE t = "worker"
    BY <2>3, <2>4, <2>7, <2>8 DEF CountersInv, Typed
  <2>9. CASE t # "worker"
    <3>1. local'["worker"] = local["worker"] /\ mem' = mem
      BY <2>4, <2>9 DEF Typed, LoadsAlone, Thread
    <3>2. At("worker", l, e)' /\ Prepared("worker", l, e)'
      BY <1>1, <1>2, <2>2, <2>9, <3>1, OtherStays
    <3>3. disk' = disk
      BY <2>3 DEF Falls, LoadKey, LoadAccount, LoadSessions, LoadDevices, Fails
    <3>4. Manager("worker")' = Manager("worker")
      BY <3>1 DEF Manager
    <3>5. Copied(l)'
      BY <1>1, <3>3, <3>4 DEF Copied
    <3>6. QED
      BY <2>7, <3>2, <3>5 DEF CountersInv
  <2>10. QED
    BY <2>8, <2>9
<1>8. CASE End
  <2>1. /\ mem' = None /\ local' = [t \in Thread |-> NoManager] /\ program' = [t \in Thread |-> <<>>]
        /\ lost' = (lost \/ unsaved) /\ unsaved' = FALSE /\ UNCHANGED <<disk, fresh, used, reused>>
    BY <1>8 DEF End
  <2>2. Manager("worker").sessions' = NoSessions
    BY <1>2, <2>1, NoManagerIs DEF Manager
  <2>3. \A p \in Peer : (Manager("worker").sessions')[p] = None
    BY <2>2, NoManagerIs
  <2>4. Counters'
    <3>1. Taken(Manager("worker").sessions', Manager("worker").sessions, disk.sessions)
      BY <2>3 DEF Taken
    <3>2. Taken(disk.sessions', Manager("worker").sessions, disk.sessions)
      BY <1>4, <2>1
    <3>3. \A p \in Peer : (Manager("worker").sessions')[p] \in {None, Manager("worker").sessions[p]}
      BY <2>3
    <3>4. ~(~lost' /\ ~unsaved' /\ unsaved) /\ ~unsaved' /\ used' = used /\ reused' = reused /\ (lost => lost')
      BY <2>1, Zenon
    <3>5. fresh' >= fresh
      BY <1>2, <2>1
    <3>6. QED
      BY <1>2, <3>1, <3>2, <3>3, <3>4, <3>5, CountersTaken
  <2>5. At("worker", "end", <<>>)'
    BY <1>2, <2>1 DEF At, Ends
  <2>6. Prepared("worker", "end", <<>>)'
    BY <1>2, <2>1, EndsApart, PlaceNames DEF Prepared, LoadPlace, SavePlace
  <2>7. QED
    BY <1>5, <2>4, <2>5, <2>6
\* The worker is idle and changes nothing that counts, or starts a chain.
<1>9. ASSUME UNCHANGED <<disk, local, used, reused, unsaved, lost>>,
             \/ mem' = mem /\ fresh' = fresh
             \/ \E p \in Peer : mem # None /\ StartChain(p)
             \/ \E D \in SUBSET Device : mem # None /\ fresh' = fresh /\ mem' = [mem EXCEPT !.devices = @ \cup D]
      PROVE  Counters'
  <2>1. CASE mem' = mem /\ fresh' = fresh
    <3>1. Manager("worker").sessions' = Manager("worker").sessions
      BY <1>9, <2>1 DEF Manager
    <3>2. QED
      BY <1>2, <1>3, <1>4, <1>9, <2>1, <3>1, CountersTaken
  <2>2. CASE \E p \in Peer : mem # None /\ StartChain(p)
    BY <1>9, <2>2, CountersStart
  <2>3. CASE \E D \in SUBSET Device : mem # None /\ fresh' = fresh /\ mem' = [mem EXCEPT !.devices = @ \cup D]
    <3>1. mem \in Running /\ mem' \in Maybe(Running)
      BY <1>2, <2>3 DEF VarsOK, Maybe, TypeOK
    <3>2. mem'.sessions = mem.sessions /\ mem' # None
      <4>1. mem' \in Running /\ mem'.sessions = mem.sessions
        BY <2>3, <3>1 DEF Running
      <4>2. QED
        BY <4>1, NoneApart
    <3>3. Manager("worker").sessions' = Manager("worker").sessions
      BY <2>3, <3>2 DEF Manager
    <3>4. QED
      BY <1>2, <1>3, <1>4, <1>9, <2>3, <3>2, <3>3, CountersTaken
  <2>4. QED
    BY <1>9, <2>1, <2>2, <2>3
<1>10. ASSUME Alone("worker") \/ program' = program, mem # None, Idle("worker") PROVE l = "end" /\ e = <<>>
  BY <1>1, <1>2, <1>10, IdleAt
<1>11. CASE Online
  <2>1. Alone("worker") /\ At("worker", "LoadKey", Installing)'
    BY <1>2, <1>11, Begins DEF Online
  <2>2. UNCHANGED <<disk, mem, local, fresh, used, reused, unsaved, lost>> /\ mem = None /\ Idle("worker")
    BY <1>11 DEF Online, bounds, sendVars
  <2>3. l = "end" /\ e = <<>>
    BY <1>1, <1>2, <2>2, IdleAt
  <2>4. local'["worker"] = NoManager
    BY <1>1, <2>2, <2>3 DEF Prepared
  <2>5. Prepared("worker", "LoadKey", Installing)'
    BY <2>2, <2>4, NoManagerIs, EndsApart DEF Prepared, Nameless
  <2>6. QED
    BY <1>5, <1>9, <2>1, <2>2, <2>5
<1>12. CASE Logout
  <2>1. Alone("worker") /\ At("worker", "DeleteAccount", Dropping)'
    BY <1>2, <1>12, Begins DEF Logout
  <2>2. UNCHANGED <<disk, mem, local, fresh, used, reused, unsaved, lost>> /\ mem # None /\ Idle("worker")
    BY <1>12 DEF Logout, bounds, sendVars, Ready
  <2>3. l = "end" /\ e = <<>>
    BY <1>1, <1>2, <2>2, IdleAt
  <2>4. Prepared("worker", "DeleteAccount", Dropping)'
    BY <1>1, <2>2, <2>3, NoManagerIs, EndsApart DEF Prepared, Nameless, LoadPlace
  <2>5. QED
    BY <1>5, <1>9, <2>1, <2>2, <2>4
<1>13. CASE OpenQr
  <2>1. Alone("qr")
    BY <1>2, <1>13, Begins DEF OpenQr
  <2>2. UNCHANGED <<disk, mem, local, fresh, used, reused, unsaved, lost>>
    BY <1>13 DEF OpenQr, sendVars
  <2>3. program'["worker"] = program["worker"]
    BY <1>2, <2>1 DEF Alone
  <2>4. At("worker", l, e)' /\ Prepared("worker", l, e)'
    BY <1>1, <2>2, <2>3 DEF At, Prepared
  <2>5. Copied(l)'
    BY <1>1, <2>2 DEF Copied, Manager
  <2>6. QED
    BY <1>9, <2>2, <2>4, <2>5 DEF CountersInv
<1>14. ASSUME NEW p \in Peer, Encrypt(p) PROVE CountersInv'
  <2>1. l = "end" /\ e = <<>> /\ local["worker"] = NoManager
    BY <1>1, <1>14, RunsOn DEF Encrypt
  <2>2. UNCHANGED <<program, local>>
    BY <1>14 DEF Encrypt
  <2>3. At("worker", "end", <<>>)'
    BY <1>1, <2>1, <2>2 DEF At
  <2>4. Prepared("worker", "end", <<>>)'
    BY <2>1, <2>2, EndsApart, PlaceNames DEF Prepared, LoadPlace, SavePlace
  <2>5. Counters'
    BY <1>14, CountersEncrypt
  <2>6. QED
    BY <1>5, <2>3, <2>4, <2>5
<1>15. ASSUME NEW p \in Peer, Receive(p) PROVE CountersInv'
  <2>1. l = "end" /\ e = <<>> /\ local["worker"] = NoManager /\ mem # None
    BY <1>1, <1>15, RunsOn DEF Receive, Ready
  <2>2. Alone("worker") /\ At("worker", "DeleteAccount", <<>>)'
    BY <1>2, <1>15, Begins DEF Receive
  <2>3. UNCHANGED <<disk, local, used, reused, unsaved, lost>>
    BY <1>15 DEF Receive, sendVars
  <2>4. Counters'
    <3>1. StartChain(p) \/ (mem' = mem /\ fresh' = fresh)
      BY <1>15 DEF Receive, KeepChain
    <3>2. QED
      BY <1>9, <2>1, <2>3, <3>1
  <2>5. mem' # None
    <3>1. mem \in Running
      BY <1>2, <2>1 DEF VarsOK, Maybe
    <3>2. CASE StartChain(p)
      BY <1>2, <2>1, <3>2, AfterStartChain, NoneApart
    <3>3. CASE KeepChain(p)
      BY <2>1, <3>3 DEF KeepChain
    <3>4. QED
      BY <1>15, <3>2, <3>3 DEF Receive
  <2>6. Prepared("worker", "DeleteAccount", <<>>)'
    BY <2>1, <2>3, <2>5, EndsApart DEF Prepared, LoadPlace, Nameless
  <2>7. QED
    BY <1>5, <2>2, <2>4, <2>6
<1>16. ASSUME NEW D \in SUBSET Device, UpdateDeviceList(D) PROVE CountersInv'
  <2>1. l = "end" /\ e = <<>> /\ local["worker"] = NoManager /\ mem # None
    BY <1>1, <1>16, RunsOn DEF UpdateDeviceList, Ready
  <2>2. /\ UNCHANGED <<disk, local, program, fresh, used, reused, unsaved, lost>>
        /\ mem' = [mem EXCEPT !.devices = @ \cup D]
    BY <1>16 DEF UpdateDeviceList, sendVars
  <2>3. At("worker", "end", <<>>)'
    BY <1>1, <2>1, <2>2 DEF At
  <2>4. Prepared("worker", "end", <<>>)'
    BY <2>1, <2>2, EndsApart, PlaceNames DEF Prepared, LoadPlace, SavePlace
  <2>5. Counters'
    BY <1>9, <2>1, <2>2
  <2>6. QED
    BY <1>5, <2>3, <2>4, <2>5
<1>17. CASE UNCHANGED vars
  <2>1. UNCHANGED <<disk, mem, local, program, fresh, used, reused, unsaved, lost>>
    BY <1>17 DEF vars, sendVars
  <2>2. At("worker", l, e)' /\ Prepared("worker", l, e)' /\ Copied(l)'
    BY <1>1, <2>1 DEF At, Prepared, Copied, Manager
  <2>3. QED
    BY <1>9, <2>1, <2>2 DEF CountersInv
<1>18. QED
  BY <1>6, <1>7, <1>8, <1>11, <1>12, <1>13, <1>14, <1>15, <1>16, <1>17 DEF Next, Quit, Crash

\* At first they hold.
LEMMA CountersInit == ASSUME Init PROVE CountersInv
<1>1. TypeOK
  BY InitTyped
<1>2. disk = NoManager /\ mem = None /\ local = [t \in Thread |-> NoManager] /\ program = [t \in Thread |-> <<>>]
      /\ used = {} /\ reused = FALSE /\ unsaved = FALSE
  BY DEF Init
<1>3. "worker" \in Thread
  BY DEF Thread
<1>4. Manager("worker").sessions = NoSessions /\ disk.sessions = NoSessions /\ \A p \in Peer : NoSessions[p] = None
  BY <1>2, <1>3, NoManagerIs DEF Manager
<1>5. Counters
  BY <1>2, <1>4 DEF Counters, Started, OneEach, Ahead
<1>6. At("worker", "end", <<>>) /\ Prepared("worker", "end", <<>>)
  BY <1>2, <1>3, EndsApart, PlaceNames DEF At, Ends, Prepared, LoadPlace, SavePlace
<1>7. Copied("end")
  BY DEF Copied, Copying
<1>8. QED
  BY <1>1, <1>5, <1>6, <1>7 DEF CountersInv

\* ReuseOnlyOfUnsavedSends, for every number of faults of every kind: wherever
\* save stops in its DELETEs and INSERTs, each row on disk is one of the session
\* in memory, an old one is gone before the new one is written, and a load finds
\* no counter behind a key that was used, unless a sent message was not saved.
THEOREM ReuseCorrect == Spec => []ReuseOnlyOfUnsavedSends
<1>1. Init => TypeOK /\ CountersInv
  BY InitTyped, CountersInit
<1>2. TypeOK /\ CountersInv /\ [Next]_vars => (TypeOK /\ CountersInv)'
  BY NextTyped, CountersNext DEF CountersInv
<1>3. CountersInv => ReuseOnlyOfUnsavedSends
  BY DEF CountersInv, Counters, ReuseOnlyOfUnsavedSends
<1>4. QED
  BY <1>1, <1>2, <1>3, PTL DEF Spec

-----------------------------------------------------------------------------
\* What is stored as long as nothing fails and the QR code is not opened

\* The end of a program counts as a place of its own: the manager is installed
\* next, runs, or there is none.
Stage(l, e) ==
  IF l # "end" THEN l
  ELSE IF e = Installing THEN "install" ELSE IF mem # None THEN "run" ELSE "off"

\* Nothing but perhaps a key is stored.
Empty(d, i) == i = None /\ d.account = None /\ d.sessions = NoSessions /\ d.devices = {}

\* The account is stored.
Holds(d, i, k) == d.account # None /\ d.account.id = i /\ d.account.key = k

\* The sessions can be loaded with the key and are of the account.
OwnSessions(S, k, i) == \A p \in Peer : S[p] # None => S[p].key = k /\ S[p].owner = i

Kept(d, i) ==
  /\ i # None /\ d.key # None /\ Holds(d, i, d.key)
  /\ OwnSessions(d.sessions, d.key, i)

\* The manager is of the identity.
Has(d, m, i) ==
  /\ i # None /\ i = m.account /\ d.key = m.key
  /\ OwnSessions(d.sessions, d.key, i) /\ OwnSessions(m.sessions, d.key, i)

Same(d, m) == d.sessions = m.sessions /\ d.devices = m.devices

\* With the tables d, the manager m and the identity i at the stage s.
FactsAt(s, d, m, i) ==
  /\ s \notin {"DeleteKey2", "InsertKey2"}
  /\ s \in {"off", "LoadKey", "LoadAccount"} => Empty(d, i) \/ Kept(d, i)
  /\ s \in {"DeleteKey", "InsertKey"} => Empty(d, i) /\ d.key = None
  /\ s \in {"LoadAccount", "LoadKey2", "MakeAccount", "DeleteAccount1", "InsertAccount1"} => d.key = m.key
  /\ s \in {"LoadKey2", "MakeAccount", "DeleteAccount1", "InsertAccount1"} => Empty(d, i)
  /\ s \in {"DeleteAccount2", "InsertAccount2", "LoadSessions", "LoadDevices", "install", "run"} \cup SavePlace => Has(d, m, i)
  /\ s \in {"InsertAccount2", "InsertAccount"} => d.account = None
  /\ s \in ({"DeleteAccount2", "LoadSessions", "LoadDevices", "install", "run"} \cup SavePlace) \ {"InsertAccount"} => Kept(d, i)
  /\ s \in {"DeleteAccount2", "InsertAccount2", "install"} => Same(d, m)
  /\ s \in {"LoadDevices", "DeleteDevices", "InsertDevice", "Saved"} => d.sessions = m.sessions
  /\ s = "InsertSession" => \A p \in Peer : d.sessions[p] \in {None, m.sessions[p]}
  /\ s = "InsertDevice" => d.devices \subseteq m.devices
  /\ s = "Saved" => d.devices = m.devices

Facts(l, e) == FactsAt(Stage(l, e), disk, Manager("worker"), identity)

Undisturbed == faults = 0 /\ qrs = 0

KeptInv ==
  Undisturbed => Idle("qr") /\ \E l, e : At("worker", l, e) /\ Prepared("worker", l, e) /\ Facts(l, e)

\* What the manager of the worker is while one is loaded, and while one runs.
LEMMA StageIs ==
  ASSUME NEW l, NEW e, At("worker", l, e), Prepared("worker", l, e)
  PROVE  /\ l # "end" => Stage(l, e) = l
         /\ l \in LoadPlace \/ e = Installing => mem = None /\ Manager("worker") = local["worker"]
         /\ l = "end" /\ e = Installing => Stage(l, e) = "install"
         /\ l = "end" /\ e = Dropping => Stage(l, e) = "run"
         /\ l = "end" /\ e # Installing /\ mem # None => Stage(l, e) = "run"
         /\ l = "end" /\ mem = None /\ e # Installing => Stage(l, e) = "off"
<1>1. "worker" \in Thread
  BY DEF Thread
<1>2. l \in LoadPlace => e = Installing
  BY <1>1, AtLoad
<1>3. e = Installing => mem = None
  BY DEF Prepared
<1>4. e = Dropping => mem # None /\ e # Installing
  BY EndsApart DEF Prepared
<1>5. QED
  BY <1>2, <1>3, <1>4 DEF Stage, Manager

\* What is loaded.
LEMMA FactsLoads ==
  ASSUME TypeOK, NEW l \in LoadPlace, NEW e, At("worker", l, e), Prepared("worker", l, e), Facts(l, e),
         l \in {"LoadKey", "LoadKey2", "LoadAccount", "MakeAccount", "LoadSessions", "LoadDevices"},
         NEW m, NEW f, Goes("worker", l, e, m, f)
  PROVE  FactsAt(m, disk', local'["worker"], identity')
<1>1. VarsOK /\ "worker" \in Thread
  BY DEF TypeOK, Thread
<1>2. PICK D, M, I : D = disk /\ M = local["worker"] /\ I = identity
  OBVIOUS
<1>3. PICK N : N = local'["worker"]
  OBVIOUS
<1>4. FactsAt(l, D, M, I)
  BY <1>2, StageIs, PlaceNames DEF Facts
<1>5. D \in Tables /\ M \in Loading /\ D.sessions \in Sessions /\ M.sessions \in Sessions
  BY <1>1, <1>2, Fields DEF VarsOK
<1>6. e = Installing
  BY <1>1, AtLoad
<1>7. /\ l # "LoadKey" => M.key \in Nat
      /\ l # "LoadDevices" => M.sessions = NoSessions
      /\ \A p \in Peer : NoSessions[p] = None
  BY <1>2, <1>6, NoManagerIs DEF Prepared
<1>8. CASE l \in {"LoadKey", "LoadKey2"}
  <2>1. LoadKey("worker", TRUE) /\ m = (IF D.key # None THEN AfterKey(l) ELSE NewKey(l))
    BY <1>2, <1>8 DEF Goes
  <2>2. disk' = D /\ identity' = I /\ N.key \in Nat /\ (D.key # None => N.key = D.key)
    BY <1>1, <1>2, <1>3, <2>1, AfterLoadKey
  <2>3. CASE l = "LoadKey" /\ D.key # None
    <3>1. m = "LoadAccount"
      BY <2>1, <2>3 DEF AfterKey
    <3>2. QED
      BY <1>3, <1>4, <2>2, <2>3, <3>1 DEF FactsAt, SavePlace
  <2>4. CASE l = "LoadKey" /\ D.key = None
    <3>1. m = "DeleteKey"
      BY <2>1, <2>4 DEF NewKey
    <3>2. Empty(D, I)
      BY <1>4, <2>4 DEF FactsAt, Kept
    <3>3. QED
      BY <1>3, <2>2, <2>4, <3>1, <3>2 DEF FactsAt, SavePlace
  <2>5. CASE l = "LoadKey2"
    <3>1. D.key = M.key /\ Empty(D, I)
      BY <1>4, <2>5 DEF FactsAt
    <3>2. D.key # None
      BY <1>7, <2>5, <3>1, NoneApart
    <3>3. m = "MakeAccount"
      BY <2>1, <2>5, <3>2 DEF AfterKey
    <3>4. QED
      BY <1>3, <2>2, <3>1, <3>2, <3>3 DEF FactsAt, SavePlace
  <2>6. QED
    BY <1>8, <2>3, <2>4, <2>5
<1>9. CASE l = "LoadAccount"
  <2>1. LoadAccount("worker", TRUE) /\ m = (IF Readable("worker") THEN "LoadSessions" ELSE "LoadKey2")
    BY <1>9 DEF Goes
  <2>2. disk' = D /\ identity' = I /\ N.key = M.key /\ N.sessions = NoSessions
        /\ N.account = IF TRUE /\ Readable("worker") THEN D.account.id ELSE None
    BY <1>1, <1>2, <1>3, <1>7, <1>9, <2>1, AfterLoadAccount
  <2>3. D.key = M.key /\ (Empty(D, I) \/ Kept(D, I))
    BY <1>4, <1>9 DEF FactsAt
  <2>4. Readable("worker") <=> D.account # None /\ D.account.key = M.key
    BY <1>2 DEF Readable
  <2>5. CASE Empty(D, I)
    <3>1. m = "LoadKey2"
      BY <2>1, <2>4, <2>5 DEF Empty
    <3>2. QED
      BY <1>3, <2>2, <2>3, <2>5, <3>1 DEF FactsAt, SavePlace
  <2>6. CASE Kept(D, I)
    <3>1. Readable("worker") /\ D.account.id = I
      BY <2>3, <2>4, <2>6 DEF Kept, Holds
    <3>2. m = "LoadSessions" /\ N.account = I
      BY <2>1, <2>2, <3>1
    <3>3. Has(D, N, I)
      BY <1>7, <2>2, <2>3, <2>6, <3>2 DEF Has, Kept, OwnSessions
    <3>4. QED
      BY <1>3, <2>2, <2>6, <3>2, <3>3 DEF FactsAt, SavePlace
  <2>7. QED
    BY <2>3, <2>5, <2>6
<1>10. CASE l = "LoadSessions"
  <2>1. LoadSessions("worker", TRUE) /\ m = "LoadDevices"
    BY <1>10 DEF Goes
  <2>2. /\ disk' = D /\ identity' = I /\ N.key = M.key /\ N.account = M.account
        /\ \A p \in Peer : N.sessions[p] = IF TRUE /\ D.sessions[p] # None /\ D.sessions[p].key = M.key
                                          THEN D.sessions[p] ELSE None
    BY <1>1, <1>2, <1>3, <2>1, AfterLoadSessions
  <2>3. Has(D, M, I) /\ Kept(D, I)
    BY <1>4, <1>10 DEF FactsAt
  <2>4. \A p \in Peer : N.sessions[p] = D.sessions[p]
    BY <2>2, <2>3 DEF Has, OwnSessions
  <2>5. N.sessions \in Sessions
    <3>1. LoadsAlone("worker")
      BY <1>1, <2>1, AfterLoadSessions
    <3>2. QED
      BY <1>1, <1>3, <3>1, Fields DEF LoadsAlone
  <2>6. N.sessions = D.sessions
    BY <1>5, <2>4, <2>5 DEF Sessions
  <2>7. Has(D, N, I)
    BY <2>2, <2>3, <2>6 DEF Has
  <2>8. QED
    BY <1>3, <2>1, <2>2, <2>3, <2>6, <2>7 DEF FactsAt, SavePlace
<1>11. CASE l = "LoadDevices"
  <2>1. LoadDevices("worker", TRUE) /\ m = "DeleteAccount"
    BY <1>11 DEF Goes, AfterLoad
  <2>2. disk' = D /\ identity' = I /\ N.key = M.key /\ N.account = M.account /\ N.sessions = M.sessions
    BY <1>1, <1>2, <1>3, <2>1, AfterLoadDevices
  <2>3. Has(D, M, I) /\ Kept(D, I)
    BY <1>4, <1>11 DEF FactsAt
  <2>4. Has(D, N, I)
    BY <2>2, <2>3 DEF Has
  <2>5. QED
    BY <1>3, <2>1, <2>2, <2>3, <2>4 DEF FactsAt, SavePlace
<1>12. CASE l = "MakeAccount"
  <2>1. MakeAccount("worker") /\ m = "DeleteAccount1"
    BY <1>12 DEF Goes
  <2>2. disk' = D /\ identity' = I /\ N.key = M.key
    BY <1>1, <1>2, <1>3, <2>1, AfterMakeAccount
  <2>3. D.key = M.key /\ Empty(D, I)
    BY <1>4, <1>12 DEF FactsAt
  <2>4. QED
    BY <1>3, <2>1, <2>2, <2>3 DEF FactsAt, SavePlace
<1>13. QED
  BY <1>8, <1>9, <1>10, <1>11, <1>12

\* What is written.
LEMMA FactsWrites ==
  ASSUME TypeOK, NEW l \in LoadPlace \cup SavePlace, NEW e, At("worker", l, e), Prepared("worker", l, e), Facts(l, e),
         l \notin {"LoadKey", "LoadKey2", "LoadAccount", "MakeAccount", "LoadSessions", "LoadDevices"},
         NEW m, NEW f, Goes("worker", l, e, m, f)
  PROVE  /\ Manager("worker")' = Manager("worker") /\ mem' = mem /\ f = e
         /\ m = "end" => l = "Saved"
         /\ IF m # "end" THEN FactsAt(m, disk', Manager("worker"), identity')
            ELSE /\ disk' = disk /\ identity' = identity
                 /\ FactsAt("run", disk, Manager("worker"), identity) /\ FactsAt("install", disk, Manager("worker"), identity)
<1>1. VarsOK /\ "worker" \in Thread
  BY DEF TypeOK, Thread
<1>2. PICK D, M, I : D = disk /\ M = Manager("worker") /\ I = identity
  OBVIOUS
<1>3. PICK D1, I1 : D1 = disk' /\ I1 = identity'
  OBVIOUS
<1>4. FactsAt(l, D, M, I)
  BY <1>2, StageIs, PlaceNames DEF Facts
<1>5. D \in Tables /\ M \in Loading /\ D.sessions \in Sessions /\ M.sessions \in Sessions
  BY <1>1, <1>2, ManagerLoads, Fields DEF VarsOK
<1>6. \A p \in Peer : NoSessions[p] = None
  BY NoManagerIs
<1>7. mem' = mem /\ Manager("worker")' = M /\ f = e
  <2>1. UNCHANGED <<mem, local>> /\ f = e
    BY PlaceNames DEF Goes, Write, InsertKey, InsertAccount, Fails, Saved
  <2>2. QED
    BY <1>2, <2>1 DEF Manager
<1>8. SUFFICES /\ m = "end" => l = "Saved"
               /\ IF m # "end" THEN FactsAt(m, D1, M, I1)
                  ELSE D1 = D /\ I1 = I /\ FactsAt("run", D, M, I) /\ FactsAt("install", D, M, I)
  BY <1>2, <1>3, <1>7
<1>9. CASE l \in {"DeleteKey", "DeleteKey2"}
  <2>1. l = "DeleteKey" /\ Empty(D, I) /\ D.key = None
    BY <1>4, <1>9 DEF FactsAt
  <2>2. Write("worker", [disk EXCEPT !.key = None]) /\ m = "InsertKey"
    BY <2>1 DEF Goes
  <2>3. I1 = I /\ D1.key = None /\ D1.account = D.account /\ D1.sessions = D.sessions /\ D1.devices = D.devices
    BY <1>1, <1>2, <1>3, <2>2, AfterDelete
  <2>4. Empty(D1, I1)
    BY <2>1, <2>3 DEF Empty
  <2>5. QED
    BY <2>2, <2>3, <2>4 DEF FactsAt, SavePlace
<1>10. CASE l \in {"InsertKey", "InsertKey2"}
  <2>1. l = "InsertKey" /\ Empty(D, I) /\ D.key = None
    BY <1>4, <1>10 DEF FactsAt
  <2>2. InsertKey("worker") /\ m = "LoadAccount"
    BY <2>1 DEF Goes, AfterKey
  <2>3. I1 = I /\ D1.key = M.key /\ D1.account = D.account /\ D1.sessions = D.sessions /\ D1.devices = D.devices
    <3>1. M = local["worker"]
      BY <1>2, <2>1, StageIs, PlaceNames DEF LoadPlace
    <3>2. QED
      BY <1>1, <1>2, <1>3, <2>1, <2>2, <3>1, AfterInsertKey
  <2>4. Empty(D1, I1)
    BY <2>1, <2>3 DEF Empty
  <2>5. QED
    BY <2>2, <2>3, <2>4 DEF FactsAt, SavePlace
<1>11. CASE l \in {"DeleteAccount1", "DeleteAccount2", "DeleteAccount"}
  <2>1. Write("worker", [disk EXCEPT !.account = None])
        /\ m = (IF l = "DeleteAccount1" THEN "InsertAccount1"
                ELSE IF l = "DeleteAccount2" THEN "InsertAccount2" ELSE "InsertAccount")
    BY <1>11 DEF Goes
  <2>2. I1 = I /\ D1.key = D.key /\ D1.account = None /\ D1.sessions = D.sessions /\ D1.devices = D.devices
    BY <1>1, <1>2, <1>3, <2>1, AfterDelete
  <2>3. CASE l = "DeleteAccount1"
    <3>1. Empty(D, I) /\ D.key = M.key
      BY <1>4, <2>3 DEF FactsAt
    <3>2. Empty(D1, I1)
      BY <2>2, <3>1 DEF Empty
    <3>3. QED
      BY <2>1, <2>2, <2>3, <3>1, <3>2 DEF FactsAt, SavePlace
  <2>4. CASE l = "DeleteAccount2"
    <3>1. Has(D, M, I) /\ Same(D, M)
      BY <1>4, <2>4 DEF FactsAt
    <3>2. Has(D1, M, I1) /\ Same(D1, M)
      BY <2>2, <3>1 DEF Has, Same
    <3>3. QED
      BY <2>1, <2>2, <2>4, <3>2 DEF FactsAt, SavePlace
  <2>5. CASE l = "DeleteAccount"
    <3>1. Has(D, M, I)
      BY <1>4, <2>5 DEF FactsAt, SavePlace
    <3>2. Has(D1, M, I1)
      BY <2>2, <3>1 DEF Has
    <3>3. QED
      BY <2>1, <2>2, <2>5, <3>2 DEF FactsAt, SavePlace
  <2>6. QED
    BY <1>11, <2>3, <2>4, <2>5
<1>12. CASE l \in {"InsertAccount1", "InsertAccount2", "InsertAccount"}
  <2>1. D.account = None
    BY <1>4, <1>12 DEF FactsAt, Empty
  <2>2. InsertAccount("worker")
        /\ m = (IF l = "InsertAccount1" THEN "DeleteAccount2" ELSE IF l = "InsertAccount2" THEN "DeleteAccount" ELSE "DeleteSessions")
    BY <1>2, <1>12, <2>1 DEF Goes, AfterLoad
  <2>3. l \in SavePlace \cup (LoadPlace \ Nameless) \/ (e \in {Installing, Closing, Dropping} /\ l = "end")
    BY <1>12 DEF SavePlace, LoadPlace, Nameless
  <2>4. M.account \in Nat /\ M.key \in Nat
    BY <1>1, <1>2, <2>3, ManagerNamed
  <2>5. /\ D1.key = D.key /\ D1.sessions = D.sessions /\ D1.devices = D.devices
        /\ D1.account # None /\ D1.account.id = M.account /\ D1.account.key = M.key
        /\ I1 = IF I = None THEN M.account ELSE I
    BY <1>1, <1>2, <1>3, <2>1, <2>2, <2>4, AfterInsertAccount
  <2>6. M.account # None /\ M.key # None
    BY <2>4, NoneApart
  <2>7. CASE l = "InsertAccount1"
    <3>1. Empty(D, I) /\ D.key = M.key
      BY <1>4, <2>7 DEF FactsAt
    <3>2. M.sessions = NoSessions /\ M.devices = {}
      BY <1>2, <2>7, StageIs, PlaceNames DEF Prepared, LoadPlace
    <3>3. I1 = M.account /\ D1.sessions = NoSessions /\ D1.devices = {}
      BY <2>5, <3>1 DEF Empty
    <3>4. Has(D1, M, I1) /\ Same(D1, M) /\ Kept(D1, I1)
      BY <1>6, <2>5, <2>6, <3>1, <3>2, <3>3 DEF Has, Same, Kept, Holds, OwnSessions
    <3>5. QED
      BY <2>2, <2>7, <3>4 DEF FactsAt, SavePlace
  <2>8. CASE l \in {"InsertAccount2", "InsertAccount"}
    <3>1. Has(D, M, I)
      BY <1>4, <2>8 DEF FactsAt, SavePlace
    <3>2. I1 = I /\ I = M.account
      BY <2>5, <3>1 DEF Has
    <3>3. Has(D1, M, I1) /\ Kept(D1, I1)
      BY <2>5, <2>6, <3>1, <3>2 DEF Has, Kept, Holds
    <3>4. QED
      BY <2>2, <2>8, <3>3 DEF FactsAt, SavePlace
  <2>9. QED
    BY <1>12, <2>7, <2>8
<1>13. CASE l = "DeleteSessions"
  <2>1. Write("worker", [disk EXCEPT !.sessions = NoSessions]) /\ m = "InsertSession"
    BY <1>13 DEF Goes
  <2>2. I1 = I /\ D1.key = D.key /\ D1.account = D.account /\ D1.sessions = NoSessions /\ D1.devices = D.devices
    BY <1>1, <1>2, <1>3, <2>1, AfterDelete
  <2>3. Has(D, M, I) /\ Kept(D, I)
    BY <1>4, <1>13 DEF FactsAt, SavePlace
  <2>4. Has(D1, M, I1) /\ Kept(D1, I1)
    BY <1>6, <2>2, <2>3 DEF Has, Kept, Holds, OwnSessions
  <2>5. QED
    BY <1>6, <2>1, <2>2, <2>4 DEF FactsAt, SavePlace
<1>14. CASE l = "InsertSession"
  <2>1. Has(D, M, I) /\ Kept(D, I) /\ \A p \in Peer : D.sessions[p] \in {None, M.sessions[p]}
    BY <1>4, <1>14 DEF FactsAt, SavePlace
  <2>2. CASE m = "DeleteDevices"
    <3>1. (\A p \in Peer : D.sessions[p] = M.sessions[p]) /\ D1 = D /\ I1 = I
      BY <1>2, <1>3, <1>14, <2>2 DEF Goes, Write
    <3>2. D.sessions = M.sessions
      BY <1>5, <3>1 DEF Sessions
    <3>3. QED
      BY <2>1, <2>2, <3>1, <3>2 DEF FactsAt, SavePlace
  <2>3. CASE m = "end"
    <3>1. \E p \in Peer : D.sessions[p] # None /\ D.sessions[p] # M.sessions[p]
      BY <1>2, <1>14, <2>3 DEF Goes
    <3>2. QED
      BY <2>1, <3>1
  <2>4. CASE m = "InsertSession"
    <3>1. I1 = I /\ \E p \in Peer : disk' = [disk EXCEPT !.sessions[p] = Manager("worker").sessions[p]]
      BY <1>2, <1>3, <1>14, <2>4 DEF Goes
    <3>2. PICK q \in Peer : disk' = [disk EXCEPT !.sessions[q] = Manager("worker").sessions[q]]
      BY <3>1
    <3>3. /\ D1.key = D.key /\ D1.account = D.account /\ D1.devices = D.devices
          /\ D1.sessions[q] = M.sessions[q] /\ \A p \in Peer : p # q => D1.sessions[p] = D.sessions[p]
      BY <1>1, <1>2, <1>3, <3>2, AfterInsertRow
    <3>4. \A p \in Peer : D1.sessions[p] \in {None, M.sessions[p]}
      BY <2>1, <3>3
    <3>5. Has(D1, M, I1) /\ Kept(D1, I1)
      <4>1. OwnSessions(D1.sessions, D1.key, I1)
        BY <2>1, <3>1, <3>3, <3>4 DEF Has, OwnSessions
      <4>2. QED
        BY <2>1, <3>1, <3>3, <4>1 DEF Has, Kept, Holds
    <3>6. QED
      BY <2>4, <3>4, <3>5 DEF FactsAt, SavePlace
  <2>5. QED
    BY <1>14, <2>2, <2>3, <2>4 DEF Goes
<1>15. CASE l = "DeleteDevices"
  <2>1. Write("worker", [disk EXCEPT !.devices = {}]) /\ m = "InsertDevice"
    BY <1>15 DEF Goes
  <2>2. I1 = I /\ D1.key = D.key /\ D1.account = D.account /\ D1.sessions = D.sessions /\ D1.devices = {}
    BY <1>1, <1>2, <1>3, <2>1, AfterDelete
  <2>3. Has(D, M, I) /\ Kept(D, I) /\ D.sessions = M.sessions
    BY <1>4, <1>15 DEF FactsAt, SavePlace
  <2>4. Has(D1, M, I1) /\ Kept(D1, I1)
    BY <2>2, <2>3 DEF Has, Kept, Holds
  <2>5. QED
    BY <2>1, <2>2, <2>3, <2>4 DEF FactsAt, SavePlace
<1>16. CASE l = "InsertDevice"
  <2>1. Has(D, M, I) /\ Kept(D, I) /\ D.sessions = M.sessions /\ D.devices \subseteq M.devices
    BY <1>4, <1>16 DEF FactsAt, SavePlace
  <2>2. CASE m = "Saved"
    <3>1. M.devices \subseteq D.devices /\ D1 = D /\ I1 = I
      BY <1>2, <1>3, <1>16, <2>2 DEF Goes, Write
    <3>2. D.devices = M.devices
      BY <2>1, <3>1
    <3>3. QED
      BY <2>1, <2>2, <3>1, <3>2 DEF FactsAt, SavePlace
  <2>3. CASE m = "InsertDevice"
    <3>1. PICK d \in M.devices : D1 = [D EXCEPT !.devices = @ \cup {d}]
      BY <1>2, <1>3, <1>16, <2>3 DEF Goes
    <3>2. I1 = I
      BY <1>2, <1>3, <1>16, <2>3 DEF Goes
    <3>3. /\ D1.key = D.key /\ D1.account = D.account /\ D1.sessions = D.sessions /\ D1.devices = D.devices \cup {d}
      BY <1>5, <3>1 DEF Tables
    <3>4. Has(D1, M, I1) /\ Kept(D1, I1) /\ D1.devices \subseteq M.devices
      BY <2>1, <3>2, <3>3 DEF Has, Kept, Holds
    <3>5. QED
      BY <2>1, <2>3, <3>3, <3>4 DEF FactsAt, SavePlace
  <2>4. QED
    BY <1>16, <2>2, <2>3 DEF Goes
<1>17. CASE l = "Saved"
  <2>1. Saved("worker") /\ m = "end"
    BY <1>17 DEF Goes
  <2>2. D1 = D /\ I1 = I
    BY <1>2, <1>3, <2>1 DEF Saved
  <2>3. Has(D, M, I) /\ Kept(D, I) /\ Same(D, M)
    BY <1>4, <1>17 DEF FactsAt, SavePlace, Same
  <2>4. QED
    BY <1>17, <2>1, <2>2, <2>3 DEF FactsAt, SavePlace
<1>18. l \in {"DeleteKey", "DeleteKey2", "InsertKey", "InsertKey2", "DeleteAccount1", "DeleteAccount2", "DeleteAccount",
              "InsertAccount1", "InsertAccount2", "InsertAccount", "DeleteSessions", "InsertSession", "DeleteDevices",
              "InsertDevice", "Saved"}
  BY DEF LoadPlace, SavePlace
<1>19. QED
  BY <1>9, <1>10, <1>11, <1>12, <1>13, <1>14, <1>15, <1>16, <1>17, <1>18

\* A statement of the worker keeps what is known of its stage.
LEMMA FactsGoes ==
  ASSUME TypeOK, NEW l, NEW e, At("worker", l, e), Prepared("worker", l, e), Facts(l, e),
         NEW m, NEW f, Goes("worker", l, e, m, f), Typed("worker", m, f)
  PROVE  Facts(m, f)'
<1>1. VarsOK /\ "worker" \in Thread /\ l \in LoadPlace \cup SavePlace \cup {"end"}
  BY AtLoad DEF TypeOK, Thread
<1>2. CASE l \in {"LoadKey", "LoadKey2", "LoadAccount", "MakeAccount", "LoadSessions", "LoadDevices"}
  <2>1. l \in LoadPlace
    BY <1>2 DEF LoadPlace
  <2>2. FactsAt(m, disk', local'["worker"], identity')
    BY <1>2, <2>1, FactsLoads
  <2>3. mem = None /\ mem' = mem
    <3>1. mem = None
      BY <2>1, StageIs
    <3>2. QED
      BY <1>2, <3>1 DEF Goes, LoadKey, LoadAccount, MakeAccount, LoadSessions, LoadDevices
  <2>4. m # "end"
    BY <1>2 DEF Goes, AfterKey, NewKey, AfterLoad
  <2>5. Manager("worker")' = local'["worker"] /\ Stage(m, f)' = m
    BY <2>3, <2>4 DEF Manager, Stage
  <2>6. QED
    BY <2>2, <2>5 DEF Facts
<1>3. CASE l \in LoadPlace \cup SavePlace
           /\ l \notin {"LoadKey", "LoadKey2", "LoadAccount", "MakeAccount", "LoadSessions", "LoadDevices"}
  <2>1. /\ Manager("worker")' = Manager("worker") /\ mem' = mem /\ f = e
        /\ m = "end" => l = "Saved"
        /\ IF m # "end" THEN FactsAt(m, disk', Manager("worker"), identity')
           ELSE /\ disk' = disk /\ identity' = identity
                /\ FactsAt("run", disk, Manager("worker"), identity) /\ FactsAt("install", disk, Manager("worker"), identity)
    BY <1>3, FactsWrites
  <2>2. CASE m # "end"
    <3>1. Stage(m, f)' = m
      BY <2>2 DEF Stage
    <3>2. QED
      BY <2>1, <2>2, <3>1 DEF Facts
  <2>3. CASE m = "end"
    <3>1. e # Installing => mem # None
      <4>1. e \in {<<>>, Installing, Dropping} /\ l \in SavePlace
        BY <1>1, <2>1, <2>3, AtLoad DEF SavePlace
      <4>2. QED
        BY <4>1 DEF Prepared
    <3>2. Stage(m, f)' \in {"run", "install"}
      BY <2>1, <2>3, <3>1 DEF Stage
    <3>3. QED
      BY <2>1, <2>3, <3>2 DEF Facts
  <2>4. QED
    BY <2>2, <2>3
<1>4. CASE l = "end"
  <2>1. m = "end" /\ f = <<>>
        /\ \/ e = Installing /\ Install("worker")
           \/ e = Dropping /\ Drop("worker")
           \/ e = Closing /\ Close("worker") /\ UNCHANGED mem
    BY <1>4, PlaceNames DEF Goes, LoadPlace, SavePlace
  <2>2. e # Closing /\ f # Installing
    BY <1>1, <2>1, AtLoad, EndsApart
  <2>3. CASE e = Installing /\ Install("worker")
    <3>1. FactsAt("install", disk, Manager("worker"), identity) /\ Manager("worker") = local["worker"]
      BY <1>4, <2>3, StageIs DEF Facts
    <3>2. Has(disk, Manager("worker"), identity) /\ Kept(disk, identity)
      BY <3>1 DEF FactsAt
    <3>3. mem' = local["worker"] /\ UNCHANGED <<disk, identity>>
      BY <2>3 DEF Install, Close
    <3>4. mem' # None
      <4>1. mem' \in Loading /\ mem'.key \in Nat /\ mem'.account \in Nat
        <5>1. local["worker"] \in Loading
          BY <1>1 DEF VarsOK
        <5>2. local["worker"].key \in Nat /\ local["worker"].account \in Nat
          BY <1>4, <2>3, PlaceNames DEF Prepared, Nameless
        <5>3. QED
          BY <3>3, <5>1, <5>2
      <4>2. QED
        BY <4>1, LoadedRuns, NoneApart
    <3>5. Manager("worker")' = Manager("worker") /\ Stage(m, f)' = "run"
      BY <2>1, <2>2, <3>1, <3>3, <3>4 DEF Manager, Stage
    <3>6. QED
      BY <3>2, <3>3, <3>5 DEF Facts, FactsAt, SavePlace
  <2>4. CASE e = Dropping /\ Drop("worker")
    <3>1. FactsAt("run", disk, Manager("worker"), identity)
      BY <1>4, <2>4, StageIs DEF Facts
    <3>2. Kept(disk, identity)
      BY <3>1 DEF FactsAt
    <3>3. mem' = None /\ UNCHANGED <<disk, identity>>
      BY <2>4 DEF Drop
    <3>4. Stage(m, f)' = "off"
      BY <2>1, <2>2, <3>3 DEF Stage
    <3>5. QED
      BY <3>2, <3>3, <3>4 DEF Facts, FactsAt, SavePlace
  <2>5. QED
    BY <2>1, <2>2, <2>3, <2>4
<1>5. QED
  BY <1>1, <1>2, <1>3, <1>4

\* The running manager goes on with sessions of the same account.
LEMMA FactsRun ==
  ASSUME Facts("end", <<>>), At("worker", "end", <<>>), Prepared("worker", "end", <<>>), mem # None, mem' # None,
         UNCHANGED <<disk, identity>>, mem'.key = mem.key, mem'.account = mem.account,
         \A p \in Peer : mem'.sessions[p] # None =>
           \/ mem'.sessions[p].key = mem.key /\ mem'.sessions[p].owner = mem.account
           \/ /\ mem.sessions[p] # None
              /\ mem'.sessions[p].key = mem.sessions[p].key /\ mem'.sessions[p].owner = mem.sessions[p].owner
  PROVE  \A s \in {"run", "DeleteAccount"} : FactsAt(s, disk', Manager("worker")', identity')
<1>1. FactsAt("run", disk, mem, identity)
  BY EndsApart, StageIs, ManagerIs DEF Facts
<1>2. Has(disk, mem, identity) /\ Kept(disk, identity)
  BY <1>1 DEF FactsAt
<1>3. Manager("worker")' = mem'
  BY DEF Manager
<1>4. Has(disk, mem', identity)
  BY <1>2 DEF Has, OwnSessions
<1>5. QED
  BY <1>2, <1>3, <1>4 DEF FactsAt, SavePlace

\* Every step keeps what is stored, until the first disturbance.
LEMMA KeptNext == ASSUME TypeOK, TypeOK', KeptInv, [Next]_vars PROVE KeptInv'
<1> SUFFICES ASSUME Undisturbed' PROVE (Idle("qr") /\ \E l, e : At("worker", l, e) /\ Prepared("worker", l, e) /\ Facts(l, e))'
  BY DEF KeptInv
<1>1. VarsOK /\ VarsOK' /\ program \in [Thread -> Programs] /\ "worker" \in Thread /\ "qr" \in Thread /\ "qr" # "worker"
      /\ \A t \in Thread : t \in {"worker", "qr"}
  BY DEF TypeOK, VarsOK, Thread
<1>2. faults \in Nat /\ qrs \in Nat /\ faults' = 0 /\ qrs' = 0
  BY <1>1 DEF VarsOK, Undisturbed
<1>3. ~Crash /\ ~OpenQr /\ \A t \in Thread : ~Error(t)
  <2>1. Crash => faults' = faults + 1
    BY DEF Crash
  <2>2. OpenQr => qrs' = qrs + 1
    BY DEF OpenQr
  <2>3. ASSUME NEW t \in Thread, Error(t) PROVE faults' = faults + 1
    BY <2>3 DEF Error
  <2>4. faults' # faults + 1 /\ qrs' # qrs + 1
    BY <1>2
  <2>5. QED
    BY <2>1, <2>2, <2>3, <2>4
<1>4. Undisturbed
  <2>1. [Online \/ Logout \/ Quit \/ (\E p \in Peer : Encrypt(p) \/ Receive(p)) \/ (\E D \in SUBSET Device : UpdateDeviceList(D))
         \/ (\E t \in Thread : Step(t))]_vars
    BY <1>3 DEF Next
  <2>2. UNCHANGED <<faults, qrs>>
    BY <2>1 DEF Online, Logout, Quit, End, Encrypt, Receive, UpdateDeviceList, Step, vars, bounds
  <2>3. QED
    BY <1>2, <2>2 DEF Undisturbed
<1>5. Idle("qr") /\ \E l, e : At("worker", l, e) /\ Prepared("worker", l, e) /\ Facts(l, e)
  BY <1>4 DEF KeptInv
<1>6. PICK l, e : At("worker", l, e) /\ Prepared("worker", l, e) /\ Facts(l, e)
  BY <1>5
<1>7. ASSUME Alone("worker") \/ program' = program PROVE Idle("qr")'
  BY <1>1, <1>5, <1>7 DEF Alone, Idle
<1>8. ASSUME mem # None, Idle("worker")
      PROVE  /\ l = "end" /\ e = <<>> /\ local["worker"] = NoManager
             /\ Prepared("worker", "end", <<>>) /\ Stage("end", <<>>) = "run" /\ Facts("end", <<>>) /\ At("worker", "end", <<>>)
  <2>1. l = "end" /\ e = <<>>
    BY <1>1, <1>6, <1>8, IdleAt
  <2>2. QED
    BY <1>6, <1>8, <2>1, EndsApart, StageIs DEF Prepared
<1>9. CASE Online
  <2>1. Alone("worker") /\ At("worker", "LoadKey", Installing)'
    BY <1>1, <1>9, Begins DEF Online
  <2>2. UNCHANGED <<disk, mem, local, identity>> /\ mem = None /\ Idle("worker")
    BY <1>9 DEF Online
  <2>3. l = "end" /\ e = <<>>
    BY <1>1, <1>6, <2>2, IdleAt
  <2>4. Prepared("worker", "LoadKey", Installing)'
    <3>1. local'["worker"] = NoManager
      BY <1>6, <2>2, <2>3 DEF Prepared
    <3>2. QED
      BY <2>2, <3>1, NoManagerIs, EndsApart DEF Prepared, Nameless
  <2>5. FactsAt("off", disk, Manager("worker"), identity)
    BY <1>6, <2>2, <2>3, EndsApart, StageIs DEF Facts
  <2>6. Facts("LoadKey", Installing)'
    <3>1. Stage("LoadKey", Installing)' = "LoadKey" /\ Manager("worker")' = Manager("worker")
      BY <2>2 DEF Stage, Manager
    <3>2. QED
      BY <2>2, <2>5, <3>1 DEF Facts, FactsAt, SavePlace
  <2>7. QED
    BY <1>7, <2>1, <2>4, <2>6
<1>10. CASE Logout
  <2>1. Alone("worker") /\ At("worker", "DeleteAccount", Dropping)'
    BY <1>1, <1>10, Begins DEF Logout
  <2>2. UNCHANGED <<disk, mem, local, identity>> /\ mem # None /\ Idle("worker")
    BY <1>10 DEF Logout, Ready
  <2>3. Prepared("worker", "DeleteAccount", Dropping)'
    BY <1>8, <2>2, NoManagerIs, EndsApart DEF Prepared, Nameless, LoadPlace
  <2>4. FactsAt("run", disk, Manager("worker"), identity)
    BY <1>8, <2>2 DEF Facts
  <2>5. Facts("DeleteAccount", Dropping)'
    <3>1. Stage("DeleteAccount", Dropping)' = "DeleteAccount" /\ Manager("worker")' = Manager("worker")
      BY <2>2 DEF Stage, Manager
    <3>2. QED
      BY <2>2, <2>4, <3>1 DEF Facts, FactsAt, SavePlace
  <2>6. QED
    BY <1>7, <2>1, <2>3, <2>5
\* The worker goes on idling with a manager.
<1>11. ASSUME UNCHANGED <<program, local>>, mem # None, mem' # None, Idle("worker"),
              FactsAt("run", disk', Manager("worker")', identity')
       PROVE  (Idle("qr") /\ \E l1, e1 : At("worker", l1, e1) /\ Prepared("worker", l1, e1) /\ Facts(l1, e1))'
  <2>1. At("worker", "end", <<>>)'
    BY <1>8, <1>11 DEF At
  <2>2. Prepared("worker", "end", <<>>)'
    BY <1>8, <1>11, EndsApart, PlaceNames DEF Prepared, LoadPlace, SavePlace
  <2>3. Facts("end", <<>>)'
    <3>1. Stage("end", <<>>)' = "run"
      BY <1>11, EndsApart DEF Stage
    <3>2. QED
      BY <1>11, <3>1 DEF Facts
  <2>4. QED
    BY <1>7, <1>11, <2>1, <2>2, <2>3
<1>12. CASE \E p \in Peer : Encrypt(p)
  <2>1. PICK p \in Peer : Encrypt(p)
    BY <1>12
  <2>2. UNCHANGED <<disk, local, program, identity>> /\ mem # None /\ Idle("worker")
    BY <2>1 DEF Encrypt, Ready
  <2>3. /\ mem' \in Running /\ mem.sessions[p] \in Session /\ mem'.key = mem.key /\ mem'.account = mem.account
        /\ mem'.sessions[p].key = mem.sessions[p].key /\ mem'.sessions[p].owner = mem.sessions[p].owner
        /\ \A q \in Peer : q # p => mem'.sessions[q] = mem.sessions[q]
    BY <1>1, <2>1, AfterEncrypt
  <2>4. mem' # None /\ mem.sessions[p] # None
    BY <2>3, NoneApart
  <2>5. \A q \in Peer : mem'.sessions[q] # None =>
           \/ mem'.sessions[q].key = mem.key /\ mem'.sessions[q].owner = mem.account
           \/ /\ mem.sessions[q] # None
              /\ mem'.sessions[q].key = mem.sessions[q].key /\ mem'.sessions[q].owner = mem.sessions[q].owner
    BY <2>3, <2>4
  <2>6. FactsAt("run", disk', Manager("worker")', identity')
    BY <1>8, <2>2, <2>3, <2>4, <2>5, FactsRun
  <2>7. QED
    BY <1>11, <2>2, <2>4, <2>6
<1>13. CASE \E p \in Peer : Receive(p)
  <2>1. PICK p \in Peer : Receive(p)
    BY <1>13
  <2>2. UNCHANGED <<disk, local, identity>> /\ mem # None /\ Idle("worker") /\ (StartChain(p) \/ KeepChain(p))
    BY <2>1 DEF Receive, Ready
  <2>3. Alone("worker") /\ At("worker", "DeleteAccount", <<>>)'
    BY <1>1, <2>1, Begins DEF Receive
  <2>4. /\ mem' # None /\ mem'.key = mem.key /\ mem'.account = mem.account
        /\ \A q \in Peer : mem'.sessions[q] # None =>
             \/ mem'.sessions[q].key = mem.key /\ mem'.sessions[q].owner = mem.account
             \/ /\ mem.sessions[q] # None
                /\ mem'.sessions[q].key = mem.sessions[q].key /\ mem'.sessions[q].owner = mem.sessions[q].owner
    <3>1. CASE StartChain(p)
      <4>1. /\ mem' \in Running /\ mem'.key = mem.key /\ mem'.account = mem.account
            /\ mem'.sessions[p].key = mem.key /\ mem'.sessions[p].owner = mem.account
            /\ \A q \in Peer : q # p => mem'.sessions[q] = mem.sessions[q]
        BY <1>1, <2>2, <3>1, AfterStartChain
      <4>2. mem' # None
        BY <4>1, NoneApart
      <4>3. QED
        BY <4>1, <4>2
    <3>2. CASE KeepChain(p)
      BY <2>2, <3>2 DEF KeepChain
    <3>3. QED
      BY <2>2, <3>1, <3>2
  <2>5. FactsAt("DeleteAccount", disk', Manager("worker")', identity')
    BY <1>8, <2>2, <2>4, FactsRun
  <2>6. Prepared("worker", "DeleteAccount", <<>>)'
    BY <1>8, <2>2, <2>4, EndsApart DEF Prepared, LoadPlace, Nameless
  <2>7. Facts("DeleteAccount", <<>>)'
    BY <2>5 DEF Facts, Stage
  <2>8. QED
    BY <1>7, <2>3, <2>6, <2>7
<1>14. CASE \E D \in SUBSET Device : UpdateDeviceList(D)
  <2>1. PICK D \in SUBSET Device : UpdateDeviceList(D)
    BY <1>14
  <2>2. UNCHANGED <<disk, local, program, identity>> /\ mem # None /\ Idle("worker") /\ mem' = [mem EXCEPT !.devices = @ \cup D]
    BY <2>1 DEF UpdateDeviceList, Ready
  <2>3. mem' \in Running /\ mem'.key = mem.key /\ mem'.account = mem.account /\ mem'.sessions = mem.sessions
    <3>1. mem \in Running
      BY <1>1, <2>2 DEF VarsOK, Maybe
    <3>2. QED
      BY <2>2, <3>1 DEF Running
  <2>4. mem' # None
    BY <2>3, NoneApart
  <2>5. FactsAt("run", disk', Manager("worker")', identity')
    BY <1>8, <2>2, <2>3, <2>4, FactsRun
  <2>6. QED
    BY <1>11, <2>2, <2>4, <2>5
<1>15. CASE Quit
  <2>1. mem' = None /\ local' = [t \in Thread |-> NoManager] /\ program' = [t \in Thread |-> <<>>] /\ UNCHANGED <<disk, identity>>
        /\ mem # None /\ Idle("worker")
    BY <1>15 DEF Quit, End
  <2>2. Idle("qr")' /\ At("worker", "end", <<>>)'
    BY <1>1, <2>1 DEF Idle, At, Ends
  <2>3. Prepared("worker", "end", <<>>)'
    BY <1>1, <2>1, EndsApart, PlaceNames DEF Prepared, LoadPlace, SavePlace
  <2>4. Facts("end", <<>>)'
    <3>1. FactsAt("run", disk, Manager("worker"), identity)
      BY <1>8, <2>1 DEF Facts
    <3>2. Stage("end", <<>>)' = "off"
      BY <2>1, EndsApart DEF Stage
    <3>3. QED
      BY <2>1, <3>1, <3>2 DEF Facts, FactsAt, SavePlace
  <2>5. QED
    BY <2>2, <2>3, <2>4
<1>16. CASE \E t \in Thread : Step(t)
  <2>1. Step("worker")
    BY <1>1, <1>5, <1>16 DEF Step
  <2>2. Alone("worker") /\ \E m, f : At("worker", m, f)' /\ Goes("worker", l, e, m, f)
    BY <1>1, <1>6, <2>1, StepGoes
  <2>3. PICK m, f : At("worker", m, f)' /\ Goes("worker", l, e, m, f)
    BY <2>2
  <2>4. Typed("worker", m, f)
    BY <1>1, <1>6, <2>3, GoesTyped
  <2>5. Facts(m, f)'
    BY <1>6, <2>3, <2>4, FactsGoes
  <2>6. QED
    BY <1>7, <2>2, <2>3, <2>4, <2>5 DEF Typed
<1>17. CASE UNCHANGED vars
  <2>1. UNCHANGED <<disk, mem, local, program, identity>>
    BY <1>17 DEF vars
  <2>2. At("worker", l, e)' /\ Prepared("worker", l, e)' /\ Facts(l, e)'
    BY <1>6, <2>1 DEF At, Prepared, Facts, Stage, Manager
  <2>3. QED
    BY <1>7, <2>1, <2>2
<1>18. QED
  BY <1>3, <1>9, <1>10, <1>12, <1>13, <1>14, <1>15, <1>16, <1>17 DEF Next

\* At first nothing is stored.
LEMMA KeptInit == ASSUME Init PROVE KeptInv
<1>1. disk = NoManager /\ mem = None /\ local = [t \in Thread |-> NoManager] /\ program = [t \in Thread |-> <<>>]
      /\ identity = None /\ "worker" \in Thread /\ "qr" \in Thread
  BY DEF Init, Thread
<1>2. At("worker", "end", <<>>) /\ Prepared("worker", "end", <<>>) /\ Idle("qr")
  BY <1>1, EndsApart, PlaceNames DEF At, Ends, Prepared, LoadPlace, SavePlace, Idle
<1>3. Empty(disk, identity)
  BY <1>1, NoManagerIs DEF Empty
<1>4. Stage("end", <<>>) = "off"
  BY <1>1, EndsApart DEF Stage
<1>5. Facts("end", <<>>)
  BY <1>3, <1>4 DEF Facts, FactsAt, SavePlace
<1>6. QED
  BY <1>2, <1>5 DEF KeptInv

\* IdentityKept, as long as no statement fails, the program does not end while
\* one is executed and the QR code is not opened: load_or_generate finds the key
\* and the account together and finds the ones first saved, however often the
\* program is restarted.  Run OmemoStore_qr shows that it needs the hypothesis.
THEOREM IdentityCorrect == Spec => [](Undisturbed => IdentityKept)
<1>1. Init => TypeOK /\ KeptInv
  BY InitTyped, KeptInit
<1>2. TypeOK /\ KeptInv /\ [Next]_vars => (TypeOK /\ KeptInv)'
  BY NextTyped, KeptNext
<1>3. KeptInv => (Undisturbed => IdentityKept)
  <2> SUFFICES ASSUME KeptInv, Undisturbed, mem # None PROVE mem.account = identity
    BY DEF IdentityKept
  <2>1. PICK l, e : At("worker", l, e) /\ Prepared("worker", l, e) /\ Facts(l, e)
    BY DEF KeptInv
  <2>2. Manager("worker") = mem /\ l \notin LoadPlace /\ e # Installing /\ l \in LoadPlace \cup SavePlace \cup {"end"}
    BY <2>1, StageIs, ManagerIs, AtLoad DEF Thread
  <2>3. Stage(l, e) \in {"run"} \cup SavePlace
    BY <2>1, <2>2, StageIs, PlaceNames
  <2>4. Has(disk, mem, identity)
    BY <2>1, <2>2, <2>3 DEF Facts, FactsAt
  <2>5. QED
    BY <2>4 DEF Has
<1>4. QED
  BY <1>1, <1>2, <1>3, PTL DEF Spec

-----------------------------------------------------------------------------
\* The store is atomic

\* Which statements are yet to be executed.
HasOp(s, op) == \E i \in DOMAIN s : s[i].op = op

\* The statements of a program are the first one and those of the rest.
LEMMA HasOpFirst ==
  ASSUME NEW o \in Op, NEW unit \in Unit, NEW k \in Programs, NEW op
  PROVE  HasOp(C(o, unit, k), op) <=> o = op \/ HasOp(k, op)
<1> DEFINE c == C(o, unit, k)
<1>1. c \in Programs /\ Len(c) = Len(k) + 1 /\ c[1] = Stmt(o, unit) /\ (\A i \in 1 .. Len(k) : c[i + 1] = k[i]) /\ Stmt(o, unit).op = o
  BY ConsFacts, StmtFacts
<1>2. DOMAIN c = 1 .. Len(c) /\ DOMAIN k = 1 .. Len(k) /\ Len(k) \in Nat
  BY <1>1 DEF Programs
<1> HIDE DEF c
<1>3. ASSUME o = op PROVE HasOp(c, op)
  <2>1. 1 \in DOMAIN c /\ c[1].op = op
    BY <1>1, <1>2, <1>3
  <2>2. QED
    BY <2>1 DEF HasOp
<1>4. ASSUME HasOp(k, op) PROVE HasOp(c, op)
  <2>1. PICK i \in DOMAIN k : k[i].op = op
    BY <1>4 DEF HasOp
  <2>2. i + 1 \in DOMAIN c /\ c[i + 1] = k[i]
    BY <1>1, <1>2
  <2>3. QED
    BY <2>1, <2>2 DEF HasOp
<1>5. ASSUME HasOp(c, op), o # op PROVE HasOp(k, op)
  <2>1. PICK i \in DOMAIN c : c[i].op = op
    BY <1>5 DEF HasOp
  <2>2. i # 1
    BY <1>1, <1>5, <2>1
  <2>3. i - 1 \in 1 .. Len(k) /\ (i - 1) + 1 = i
    BY <1>1, <1>2, <2>2
  <2>4. c[(i - 1) + 1] = k[i - 1]
    BY <1>1, <2>3
  <2>5. k[i - 1].op = op
    BY <2>1, <2>3, <2>4
  <2>6. QED
    BY <1>2, <2>3, <2>5 DEF HasOp
<1>6. QED
  BY <1>3, <1>4, <1>5 DEF c

\* Which statements the ends have.
LEMMA HasOpEnds ==
  \A e \in {<<>>, Installing, Dropping} :
    e \in Programs /\ ~HasOp(e, "Saved") /\ ~HasOp(e, "LoadSessions") /\ ~HasOp(e, "LoadDevices")
<1>1. <<>> \in Programs /\ \A op : ~HasOp(<<>>, op)
  BY EndPrograms DEF HasOp
<1>2. QED
  BY <1>1, EndPrograms, HasOpFirst, Named DEF Installing, Dropping

\* Which statements are yet to be executed at the places of a save.
LEMMA HasOpSave ==
  ASSUME NEW e \in {<<>>, Installing, Dropping}, NEW l \in SavePlace
  PROVE  HasOp(SaveAt(l, e), "Saved") /\ ~HasOp(SaveAt(l, e), "LoadSessions") /\ ~HasOp(SaveAt(l, e), "LoadDevices")
         /\ SaveAt(l, e) \in Programs
<1> DEFINE Q(s) == s \in Programs /\ HasOp(s, "Saved") /\ ~HasOp(s, "LoadSessions") /\ ~HasOp(s, "LoadDevices")
<1>1. Q(AtSaved(e))
  <2>1. e \in Programs /\ ~HasOp(e, "LoadSessions") /\ ~HasOp(e, "LoadDevices") /\ "Saved" \in Op /\ "save" \in Unit
    BY HasOpEnds, Named
  <2>2. \A op : HasOp(AtSaved(e), op) <=> "Saved" = op \/ HasOp(e, op)
    BY <2>1, HasOpFirst DEF AtSaved
  <2>3. AtSaved(e) \in Programs
    BY <2>1, ConsFacts DEF AtSaved
  <2>4. QED
    BY <2>1, <2>2, <2>3
<1>2. ASSUME NEW s, Q(s), NEW op \in {"InsertDevice", "DeleteDevices", "InsertSession", "DeleteSessions", "InsertAccount", "DeleteAccount"}
      PROVE  Q(C(op, "save", s))
  BY <1>2, HasOpFirst, ConsFacts, Named
<1>3. Q(AtInsertDevice(e)) /\ Q(AtDeleteDevices(e)) /\ Q(AtInsertSession(e)) /\ Q(AtDeleteSessions(e))
      /\ Q(AtInsertAccount(e)) /\ Q(AtDeleteAccount(e))
  <2> HIDE DEF Q
  <2>1. Q(AtInsertDevice(e))
    BY <1>1, <1>2 DEF AtInsertDevice
  <2>2. Q(AtDeleteDevices(e))
    BY <1>2, <2>1 DEF AtDeleteDevices
  <2>3. Q(AtInsertSession(e))
    BY <1>2, <2>2 DEF AtInsertSession
  <2>4. Q(AtDeleteSessions(e))
    BY <1>2, <2>3 DEF AtDeleteSessions
  <2>5. Q(AtInsertAccount(e))
    BY <1>2, <2>4 DEF AtInsertAccount
  <2>6. Q(AtDeleteAccount(e))
    BY <1>2, <2>5 DEF AtDeleteAccount
  <2>7. QED
    BY <2>1, <2>2, <2>3, <2>4, <2>5, <2>6
<1>4. Q(SaveAt(l, e))
  <2> HIDE DEF Q
  <2>1. QED
    BY <1>1, <1>3 DEF SaveAt, SavePlace
<1>5. QED
  BY <1>4

\* Which are at the places of a load.
LEMMA HasOpLoad ==
  ASSUME NEW l \in LoadPlace, NEW k \in Programs, HasOp(k, "Saved"), ~HasOp(k, "LoadSessions"), ~HasOp(k, "LoadDevices")
  PROVE  /\ HasOp(LoadAt(l, k), "Saved")
         /\ HasOp(LoadAt(l, k), "LoadSessions") <=> l = "LoadSessions"
         /\ HasOp(LoadAt(l, k), "LoadDevices") <=> l \in {"LoadSessions", "LoadDevices"}
<1> DEFINE Q(s) == s \in Programs /\ HasOp(s, "Saved") /\ ~HasOp(s, "LoadSessions") /\ ~HasOp(s, "LoadDevices")
<1>1. Q(k)
  OBVIOUS
<1>2. ASSUME NEW s, Q(s), NEW unit \in {"load", "key", "generate", "regenerate"},
             NEW op \in {"LoadKey", "DeleteKey", "InsertKey", "LoadAccount", "MakeAccount", "DeleteAccount", "InsertAccount"}
      PROVE  Q(C(op, unit, s))
  <2>1. op \in Op /\ unit \in Unit /\ s \in Programs /\ op \notin {"LoadSessions", "LoadDevices"}
    BY <1>2, Named
  <2>2. \A o : HasOp(C(op, unit, s), o) <=> op = o \/ HasOp(s, o)
    BY <2>1, HasOpFirst
  <2>3. C(op, unit, s) \in Programs
    BY <2>1, ConsFacts
  <2>4. QED
    BY <1>2, <2>1, <2>2, <2>3
<1>3. AtLoadDevices(k) \in Programs /\ HasOp(AtLoadDevices(k), "Saved") /\ ~HasOp(AtLoadDevices(k), "LoadSessions")
      /\ HasOp(AtLoadDevices(k), "LoadDevices")
  BY HasOpFirst, ConsFacts, Named DEF AtLoadDevices
<1>4. HasOp(AtLoadSessions(k), "Saved") /\ HasOp(AtLoadSessions(k), "LoadSessions") /\ HasOp(AtLoadSessions(k), "LoadDevices")
  BY <1>3, HasOpFirst, Named DEF AtLoadSessions
<1>5. Q(AtLoadAccount(k)) /\ Q(AtInsertKey(k)) /\ Q(AtDeleteKey(k)) /\ Q(AtLoadKey(k))
  <2> HIDE DEF Q
  <2>1. Q(AtLoadAccount(k))
    BY <1>1, <1>2 DEF AtLoadAccount
  <2>2. Q(AtInsertKey(k))
    BY <1>2, <2>1 DEF AtInsertKey
  <2>3. QED
    BY <1>2, <2>1, <2>2 DEF AtDeleteKey, AtLoadKey
<1>6. /\ Q(AtInsertAccount2(k)) /\ Q(AtDeleteAccount2(k)) /\ Q(AtInsertAccount1(k)) /\ Q(AtDeleteAccount1(k))
      /\ Q(AtMakeAccount(k)) /\ Q(AtInsertKey2(k)) /\ Q(AtDeleteKey2(k)) /\ Q(AtLoadKey2(k))
  <2> HIDE DEF Q
  <2>1. Q(AtInsertAccount2(k))
    BY <1>1, <1>2 DEF AtInsertAccount2
  <2>2. Q(AtDeleteAccount2(k))
    BY <1>2, <2>1 DEF AtDeleteAccount2
  <2>3. Q(AtInsertAccount1(k))
    BY <1>2, <2>2 DEF AtInsertAccount1
  <2>4. Q(AtDeleteAccount1(k))
    BY <1>2, <2>3 DEF AtDeleteAccount1
  <2>5. Q(AtMakeAccount(k))
    BY <1>2, <2>4 DEF AtMakeAccount
  <2>6. Q(AtInsertKey2(k))
    BY <1>2, <2>5 DEF AtInsertKey2
  <2>7. QED
    BY <1>2, <2>1, <2>2, <2>3, <2>4, <2>5, <2>6 DEF AtDeleteKey2, AtLoadKey2
<1>7. CASE l \in {"LoadSessions", "LoadDevices"}
  BY <1>3, <1>4, <1>7 DEF LoadAt
<1>8. CASE l \notin {"LoadSessions", "LoadDevices"}
  <2>1. Q(LoadAt(l, k))
    <3> HIDE DEF Q
    <3>1. QED
      BY <1>5, <1>6, <1>8 DEF LoadAt, LoadPlace
  <2>2. QED
    BY <1>8, <2>1
<1>9. QED
  BY <1>7, <1>8

\* Pending, at each place.
LEMMA PendingAt ==
  ASSUME NEW l, NEW e, At("worker", l, e)
  PROVE  /\ Pending("Saved") <=> l # "end"
         /\ Pending("LoadSessions") <=> l = "LoadSessions"
         /\ Pending("LoadDevices") <=> l \in {"LoadSessions", "LoadDevices"}
<1>1. \A op : Pending(op) <=> HasOp(program["worker"], op)
  BY DEF Pending, HasOp
<1>2. e \in {<<>>, Installing, Dropping} /\ l \in LoadPlace \cup SavePlace \cup {"end"}
  BY AtLoad DEF Thread
<1>3. CASE l \in LoadPlace
  <2>1. program["worker"] = LoadAt(l, AtDeleteAccount(Installing))
    BY <1>3, PlaceNames DEF At, Loadeds
  <2>2. AtDeleteAccount(Installing) = SaveAt("DeleteAccount", Installing) /\ "DeleteAccount" \in SavePlace
    BY DEF SaveAt, SavePlace
  <2>3. AtDeleteAccount(Installing) \in Programs /\ HasOp(AtDeleteAccount(Installing), "Saved")
        /\ ~HasOp(AtDeleteAccount(Installing), "LoadSessions") /\ ~HasOp(AtDeleteAccount(Installing), "LoadDevices")
    BY <2>2, HasOpSave
  <2>4. QED
    BY <1>1, <1>3, <2>1, <2>3, HasOpLoad, PlaceNames
<1>4. CASE l \in SavePlace
  <2>1. program["worker"] = SaveAt(l, e)
    BY <1>4, PlaceNames DEF At
  <2>2. QED
    BY <1>1, <1>2, <1>4, <2>1, HasOpSave, PlaceNames
<1>5. CASE l = "end"
  <2>1. program["worker"] = e
    BY <1>5, PlaceNames DEF At
  <2>2. QED
    BY <1>1, <1>2, <1>5, <2>1, HasOpEnds
<1>6. QED
  BY <1>2, <1>3, <1>4, <1>5

\* What is saved, at a stage.
OnDisk(d) == IF d.account = None THEN None ELSE [Content(d) EXCEPT !.account = d.account.id]

Writing == {"DeleteAccount1", "InsertAccount1", "DeleteAccount2", "InsertAccount2"} \cup SavePlace

SavedAt(s, d, m) == IF s \in Writing THEN Content(m) ELSE OnDisk(d)

Memory(m) == IF m = None THEN None ELSE Content(m)

\* SavedState, at each place.
LEMMA SavedStateIs ==
  ASSUME VarsOK, NEW l, NEW e, At("worker", l, e), Prepared("worker", l, e)
  PROVE  SavedState = SavedAt(l, disk, Manager("worker"))
<1>1. "worker" \in Thread /\ l \in LoadPlace \cup SavePlace \cup {"end"}
  BY AtLoad DEF Thread
<1>2. l # "end" => (Manager("worker").account # None <=> l \notin Nameless)
  <2>1. CASE l \in Nameless
    BY <2>1, StageIs, PlaceNames DEF Prepared
  <2>2. CASE l \in SavePlace \cup (LoadPlace \ Nameless)
    BY <1>1, <2>2, ManagerNamed, PlaceNames, NoneApart
  <2>3. QED
    BY <1>1, <2>1, <2>2
<1>3. l # "end" => (Loaded <=> l \in Writing)
  <2>1. l \in Writing <=> l \notin Nameless /\ l \notin {"LoadSessions", "LoadDevices"} /\ l # "end"
    BY <1>1 DEF Writing, Nameless, LoadPlace, SavePlace
  <2>2. l # "end" => (Loaded <=> l \notin Nameless /\ l \notin {"LoadSessions", "LoadDevices"})
    BY <1>2, PendingAt DEF Loaded
  <2>3. QED
    BY <2>1, <2>2
<1>4. (Pending("Saved") /\ Loaded) <=> l \in Writing
  <2>1. "end" \notin Writing
    BY DEF Writing, SavePlace
  <2>2. QED
    BY <1>3, <2>1, PendingAt
<1>5. QED
  BY <1>4 DEF SavedState, SavedAt, OnDisk

\* The same as one formula.
LEMMA SavedStateAlways ==
  VarsOK => \A l, e : At("worker", l, e) /\ Prepared("worker", l, e) => SavedState = SavedAt(l, disk, Manager("worker"))
BY SavedStateIs

\* The same in the next state.
LEMMA SavedStateNext ==
  VarsOK' => \A l, e : At("worker", l, e)' /\ Prepared("worker", l, e)' => SavedState' = SavedAt(l, disk', Manager("worker")')
<1>1. (VarsOK => \A l, e : At("worker", l, e) /\ Prepared("worker", l, e) => SavedState = SavedAt(l, disk, Manager("worker")))'
  BY SavedStateAlways, PTL
<1>2. QED
  BY <1>1 DEF SavedAt, OnDisk, Content

\* The content of a manager.
LEMMA ContentIs ==
  ASSUME NEW m, m \in Running \/ (m \in Loading /\ m.account \in Nat)
  PROVE  /\ Content(m).account = m.account /\ Content(m).sessions = m.sessions /\ Content(m).devices = m.devices
         /\ Content(m) # None
<1>1. m.account \in Nat /\ m.sessions \in Sessions /\ m.devices \subseteq Device
  BY Fields
<1>2. PICK a, s, d : a = m.account /\ s = m.sessions /\ d = m.devices
  OBVIOUS
<1>3. Content(m) = [account |-> a, sessions |-> s, devices |-> d]
  BY <1>2 DEF Content
<1>4. Content(m) # None
  <2>1. Content(m) \in [account : Nat, sessions : [Peer -> Session \cup {None}], devices : SUBSET Device]
    BY <1>1, <1>2, <1>3 DEF Sessions, Maybe
  <2>2. QED
    BY <2>1, NoneAssumption
<1>5. QED
  BY <1>2, <1>3, <1>4

\* The tables hold what the manager holds.
LEMMA KeptSame ==
  ASSUME NEW d, NEW m, NEW i, Has(d, m, i), Kept(d, i), d.sessions = m.sessions, d.devices = m.devices
  PROVE  OnDisk(d) = Content(m)
<1>1. d.account # None /\ d.account.id = m.account
  BY DEF Kept, Holds, Has
<1>2. Content(d) = [account |-> d.account, sessions |-> m.sessions, devices |-> m.devices]
  BY DEF Content
<1>3. [Content(d) EXCEPT !.account = d.account.id] = [account |-> d.account.id, sessions |-> m.sessions, devices |-> m.devices]
  BY <1>2
<1>4. QED
  BY <1>1, <1>3 DEF OnDisk, Content

\* Steps of the abstract store.
Stutters(m, m1, s, s1) == m1 = m /\ s1 = s

Creates(m, m1, s, s1) ==
  /\ s = None /\ m = None /\ m1 = m /\ s1 # None
  /\ s1.sessions = NoSessions /\ s1.devices = {}

Starts(m, m1, s, s1) == m = None /\ s # None /\ m1 = s /\ s1 = s

Stops(m, m1, s, s1) == m # None /\ m1 = None /\ s1 = s

\* A statement of the worker.
LEMMA GoesAtomic ==
  ASSUME TypeOK, NEW l, NEW e, At("worker", l, e), Prepared("worker", l, e), Facts(l, e),
         NEW m, NEW f, Goes("worker", l, e, m, f), At("worker", m, f)', Typed("worker", m, f),
         NEW S, S = SavedAt(l, disk, Manager("worker")), NEW S1, S1 = SavedAt(m, disk', Manager("worker")')
  PROVE  \/ Stutters(Memory(mem), Memory(mem'), S, S1)
         \/ Creates(Memory(mem), Memory(mem'), S, S1)
         \/ Starts(Memory(mem), Memory(mem'), S, S1)
         \/ Stops(Memory(mem), Memory(mem'), S, S1)
<1>1. VarsOK /\ "worker" \in Thread /\ l \in LoadPlace \cup SavePlace \cup {"end"}
  BY AtLoad DEF TypeOK, Thread
<1>2. CASE l \in {"LoadKey", "LoadKey2", "LoadAccount", "LoadSessions"}
  <2>1. mem' = mem /\ disk' = disk
    BY <1>2 DEF Goes, LoadKey, LoadAccount, LoadSessions
  <2>2. l \notin Writing /\ m \notin Writing
    BY <1>2 DEF Goes, Writing, SavePlace, AfterKey, NewKey
  <2>3. QED
    BY <2>1, <2>2 DEF SavedAt, Stutters
<1>3. CASE l = "LoadDevices"
  <2>1. LoadDevices("worker", TRUE) /\ m = "DeleteAccount"
    BY <1>3 DEF Goes, AfterLoad
  <2>2. l \in LoadPlace /\ mem = None /\ Manager("worker") = local["worker"]
    BY <1>3, StageIs DEF LoadPlace
  <2>3. PICK D, M, I, N : D = disk /\ M = local["worker"] /\ I = identity /\ N = local'["worker"]
    OBVIOUS
  <2>4. disk' = D /\ mem' = mem /\ N.account = M.account /\ N.key = M.key /\ N.sessions = M.sessions /\ N.devices = D.devices
    <3>1. /\ UNCHANGED <<disk, mem, fresh, identity, unsaved>>
          /\ local'["worker"].key = local["worker"].key /\ local'["worker"].account = local["worker"].account
          /\ local'["worker"].sessions = local["worker"].sessions
          /\ local'["worker"].devices = IF TRUE THEN disk.devices ELSE {}
      BY <1>1, <2>1, AfterLoadDevices
    <3>2. QED
      BY <2>3, <3>1
  <2>5. Manager("worker")' = N
    BY <2>2, <2>3, <2>4 DEF Manager
  <2>6. Has(D, M, I) /\ Kept(D, I) /\ D.sessions = M.sessions
    BY <1>3, <2>2, <2>3, StageIs DEF Facts, FactsAt
  <2>7. Has(D, N, I)
    BY <2>4, <2>6 DEF Has
  <2>8. OnDisk(D) = Content(N)
    BY <2>4, <2>6, <2>7, KeptSame
  <2>9. S = OnDisk(D) /\ S1 = Content(N)
    BY <1>3, <2>1, <2>3, <2>5 DEF SavedAt, Writing, SavePlace
  <2>10. QED
    BY <2>4, <2>8, <2>9 DEF Stutters
<1>4. CASE l = "MakeAccount"
  <2>1. MakeAccount("worker") /\ m = "DeleteAccount1"
    BY <1>4 DEF Goes
  <2>2. l \in LoadPlace /\ mem = None /\ Manager("worker") = local["worker"]
    BY <1>4, StageIs DEF LoadPlace
  <2>3. PICK N : N = local'["worker"]
    OBVIOUS
  <2>4. /\ UNCHANGED <<disk, mem>> /\ N.account = fresh + 1
        /\ N.sessions = local["worker"].sessions /\ N.devices = local["worker"].devices /\ N \in Loading
    BY <1>1, <2>1, <2>3, AfterMakeAccount DEF LoadsAlone
  <2>5. N.account \in Nat /\ N.sessions = NoSessions /\ N.devices = {}
    BY <1>1, <1>4, <2>2, <2>4 DEF Prepared, VarsOK
  <2>6. Manager("worker")' = N
    BY <2>2, <2>3, <2>4 DEF Manager
  <2>7. Empty(disk, identity)
    BY <1>4, StageIs DEF Facts, FactsAt
  <2>8. S = None /\ S1 = Content(N)
    BY <1>4, <2>1, <2>6, <2>7 DEF SavedAt, Writing, SavePlace, OnDisk, Empty
  <2>9. Content(N) # None /\ Content(N).sessions = NoSessions /\ Content(N).devices = {}
    BY <2>4, <2>5, ContentIs
  <2>10. Memory(mem) = None /\ Memory(mem') = None
    BY <2>2, <2>4 DEF Memory
  <2>11. QED
    BY <2>8, <2>9, <2>10 DEF Creates
<1>5. CASE l \in LoadPlace \cup SavePlace
           /\ l \notin {"LoadKey", "LoadKey2", "LoadAccount", "MakeAccount", "LoadSessions", "LoadDevices"}
  <2>1. /\ Manager("worker")' = Manager("worker") /\ mem' = mem /\ f = e
        /\ m = "end" => l = "Saved"
        /\ m = "end" => disk' = disk /\ identity' = identity
    BY <1>5, FactsWrites
  <2>2. CASE l \in {"DeleteKey", "DeleteKey2", "InsertKey", "InsertKey2"}
    <3>1. l \notin Writing /\ m \notin Writing
      BY <2>2 DEF Goes, AfterKey, Writing, SavePlace
    <3>2. Empty(disk, identity)
      <4>1. Facts(l, e) /\ Stage(l, e) = l
        BY <2>2, StageIs
      <4>2. QED
        BY <2>2, <4>1 DEF Facts, FactsAt
    <3>3. disk'.account = disk.account
      <4>1. Write("worker", [disk EXCEPT !.key = None]) \/ InsertKey("worker")
        BY <2>2 DEF Goes
      <4>2. QED
        BY <1>1, <4>1, AfterDelete, AfterInsertKey
    <3>4. OnDisk(disk) = None /\ OnDisk(disk') = None
      BY <3>2, <3>3 DEF OnDisk, Empty
    <3>5. QED
      BY <2>1, <3>1, <3>4 DEF SavedAt, Stutters
  <2>3. CASE l \in Writing /\ m \in Writing
    BY <2>1, <2>3 DEF SavedAt, Stutters
  <2>4. CASE l = "Saved" /\ m = "end"
    <3>1. FactsAt("Saved", disk, Manager("worker"), identity)
      BY <2>4, StageIs DEF Facts
    <3>2. Has(disk, Manager("worker"), identity) /\ Kept(disk, identity)
          /\ disk.sessions = Manager("worker").sessions /\ disk.devices = Manager("worker").devices
      BY <3>1 DEF FactsAt, SavePlace
    <3>3. OnDisk(disk) = Content(Manager("worker"))
      BY <3>2, KeptSame
    <3>4. S = Content(Manager("worker")) /\ S1 = OnDisk(disk)
      BY <2>1, <2>4 DEF SavedAt, Writing, SavePlace
    <3>5. QED
      BY <2>1, <3>3, <3>4 DEF Stutters
  <2>5. l \in {"DeleteKey", "DeleteKey2", "InsertKey", "InsertKey2"} \/ (l \in Writing /\ m \in Writing) \/ (l = "Saved" /\ m = "end")
    <3>1. l \in {"DeleteKey", "DeleteKey2", "InsertKey", "InsertKey2"} \/ l \in Writing
      BY <1>5 DEF LoadPlace, SavePlace, Writing
    <3>2. ASSUME l \in Writing, m # "end" PROVE m \in Writing
      <4>1. l \in {"DeleteAccount1", "InsertAccount1", "DeleteAccount2", "InsertAccount2", "DeleteAccount", "InsertAccount",
                   "DeleteSessions", "InsertSession", "DeleteDevices", "InsertDevice", "Saved"}
        BY <3>2 DEF Writing, SavePlace
      <4>2. m \in {"InsertAccount1", "DeleteAccount2", "InsertAccount2", "DeleteAccount", "InsertAccount",
                   "DeleteSessions", "InsertSession", "DeleteDevices", "InsertDevice", "Saved"}
        BY <3>2, <4>1 DEF Goes, AfterLoad
      <4>3. QED
        BY <4>2 DEF Writing, SavePlace
    <3>3. QED
      BY <2>1, <3>1, <3>2
  <2>6. QED
    BY <2>2, <2>3, <2>4, <2>5
<1>6. CASE l = "end"
  <2>1. m = "end" /\ f = <<>>
        /\ \/ e = Installing /\ Install("worker")
           \/ e = Dropping /\ Drop("worker")
           \/ e = Closing /\ Close("worker") /\ UNCHANGED mem
    BY <1>6, PlaceNames DEF Goes, LoadPlace, SavePlace
  <2>2. e # Closing
    BY <1>1, AtLoad, EndsApart
  <2>3. S = OnDisk(disk) /\ S1 = OnDisk(disk')
    BY <1>6, <2>1 DEF SavedAt, Writing, SavePlace
  <2>4. CASE e = Installing /\ Install("worker")
    <3>1. FactsAt("install", disk, Manager("worker"), identity) /\ Manager("worker") = local["worker"] /\ mem = None
      BY <1>6, <2>4, StageIs DEF Facts
    <3>2. Has(disk, Manager("worker"), identity) /\ Kept(disk, identity) /\ Same(disk, Manager("worker"))
      BY <3>1 DEF FactsAt
    <3>3. OnDisk(disk) = Content(Manager("worker"))
      BY <3>2, KeptSame DEF Same
    <3>4. mem' = Manager("worker") /\ disk' = disk
      BY <2>4, <3>1 DEF Install, Close
    <3>5. Manager("worker") \in Loading /\ Manager("worker").account \in Nat /\ Manager("worker").key \in Nat
      <4>1. e \in {Installing, Closing, Dropping} /\ l = "end"
        BY <1>6, <2>4
      <4>2. l \in SavePlace \cup (LoadPlace \ Nameless) \/ (e \in {Installing, Closing, Dropping} /\ l = "end")
        BY <4>1
      <4>3. QED
        BY <1>1, <4>2, ManagerNamed, ManagerLoads
    <3>6. mem' # None /\ Content(Manager("worker")) # None
      BY <3>4, <3>5, LoadedRuns, NoneApart, ContentIs
    <3>7. Memory(mem) = None /\ Memory(mem') = Content(Manager("worker"))
      BY <3>1, <3>4, <3>6 DEF Memory
    <3>8. QED
      BY <2>3, <3>3, <3>4, <3>6, <3>7 DEF Starts
  <2>5. CASE e = Dropping /\ Drop("worker")
    <3>1. mem # None /\ mem \in Running
      BY <1>1, <2>5 DEF Prepared, VarsOK, Maybe
    <3>2. mem' = None /\ disk' = disk
      BY <2>5 DEF Drop
    <3>3. Memory(mem) # None /\ Memory(mem') = None
      BY <3>1, <3>2, ContentIs DEF Memory
    <3>4. QED
      BY <2>3, <3>2, <3>3 DEF Stops
  <2>6. QED
    BY <2>1, <2>2, <2>4, <2>5
<1>7. QED
  BY <1>1, <1>2, <1>3, <1>4, <1>5, <1>6

\* The running manager goes on.
GoesOn(m, m1) ==
  /\ m1.account = m.account /\ m.devices \subseteq m1.devices
  /\ \A p \in Peer : m.sessions[p] # None =>
       /\ m1.sessions[p] # None
       /\ m1.sessions[p].chain = m.sessions[p].chain => m1.sessions[p].index >= m.sessions[p].index

\* Nothing is disturbed where no kind of fault is possible.
LEMMA UndisturbedNext == ASSUME Faults = {}, Undisturbed, [Next]_vars PROVE Undisturbed'
<1>1. ~MayDisturb("crash") /\ ~MayDisturb("error") /\ ~MayDisturb("qr")
  BY DEF MayDisturb
<1>2. ~Crash /\ ~OpenQr
  BY <1>1 DEF Crash, OpenQr
<1>3. \A t \in Thread : ~Error(t)
  BY <1>1 DEF Error
<1>4. [Online \/ Logout \/ Quit \/ (\E p \in Peer : Encrypt(p) \/ Receive(p)) \/ (\E D \in SUBSET Device : UpdateDeviceList(D))
       \/ (\E t \in Thread : Step(t))]_vars
  BY <1>2, <1>3 DEF Next
<1>5. UNCHANGED <<faults, qrs>>
  BY <1>4 DEF Online, Logout, Quit, End, Encrypt, Receive, UpdateDeviceList, Step, vars, bounds
<1>6. QED
  BY <1>5 DEF Undisturbed

\* What the worker does while its manager runs.
LEMMA ManagerGoesOn ==
  ASSUME TypeOK, Counters, mem # None
  PROVE  /\ \A p \in Peer : Encrypt(p) \/ (Receive(p)) => mem \in Running /\ mem' \in Running /\ GoesOn(mem, mem')
         /\ \A D \in SUBSET Device : UpdateDeviceList(D) => mem \in Running /\ mem' \in Running /\ GoesOn(mem, mem')
<1>1. VarsOK /\ mem \in Running
  BY DEF TypeOK, VarsOK, Maybe
<1>2. \A p \in Peer : mem.sessions[p] # None => mem.sessions[p] \in Session /\ mem.sessions[p].index \in Nat /\ mem.sessions[p].chain \in Nat
  BY <1>1, Fields, SessionFields
<1>3. ASSUME NEW p \in Peer, Encrypt(p) PROVE mem' \in Running /\ GoesOn(mem, mem')
  <2>1. /\ mem.sessions[p] \in Session
        /\ mem' \in Running /\ mem'.account = mem.account /\ mem'.devices = mem.devices
        /\ mem'.sessions[p] \in Session
        /\ mem'.sessions[p].index = mem.sessions[p].index + 1
        /\ \A q \in Peer : q # p => mem'.sessions[q] = mem.sessions[q]
    BY <1>1, <1>3, AfterEncrypt
  <2>2. mem'.sessions[p] # None /\ mem.sessions[p] # None
    BY <2>1, NoneApart
  <2>3. mem'.sessions[p].index >= mem.sessions[p].index
    BY <1>2, <2>1, <2>2
  <2>4. \A q \in Peer : mem.sessions[q] # None => mem.sessions[q].index >= mem.sessions[q].index
    BY <1>2
  <2>5. QED
    BY <2>1, <2>2, <2>3, <2>4 DEF GoesOn
<1>4. ASSUME NEW p \in Peer, Receive(p) PROVE mem' \in Running /\ GoesOn(mem, mem')
  <2>1. CASE StartChain(p)
    <3>1. /\ mem' \in Running /\ mem'.account = mem.account /\ mem'.devices = mem.devices
          /\ mem'.sessions[p] \in Session
          /\ mem'.sessions[p].chain = fresh + 1
          /\ \A q \in Peer : q # p => mem'.sessions[q] = mem.sessions[q]
      BY <1>1, <2>1, AfterStartChain
    <3>2. mem'.sessions[p] # None
      BY <3>1, NoneApart
    <3>3. mem.sessions[p] # None => mem.sessions[p].chain # fresh + 1
      <4>1. Started(mem.sessions, fresh)
        BY ManagerIs DEF Counters
      <4>2. mem.sessions[p] # None => mem.sessions[p].chain <= fresh
        BY <4>1 DEF Started
      <4>3. fresh \in Nat
        BY <1>1 DEF VarsOK
      <4>4. QED
        BY <1>2, <4>2, <4>3
    <3>4. \A q \in Peer : mem.sessions[q] # None => mem.sessions[q].index >= mem.sessions[q].index
      BY <1>2
    <3>5. QED
      BY <3>1, <3>2, <3>3, <3>4 DEF GoesOn
  <2>2. CASE KeepChain(p)
    <3>1. mem' = mem
      BY <2>2 DEF KeepChain
    <3>2. QED
      BY <1>1, <1>2, <3>1 DEF GoesOn
  <2>3. QED
    BY <1>4, <2>1, <2>2 DEF Receive
<1>5. ASSUME NEW D \in SUBSET Device, UpdateDeviceList(D) PROVE mem' \in Running /\ GoesOn(mem, mem')
  <2>1. mem' = [mem EXCEPT !.devices = @ \cup D]
    BY <1>5 DEF UpdateDeviceList
  <2>2. mem' \in Running /\ mem'.account = mem.account /\ mem'.sessions = mem.sessions /\ mem.devices \subseteq mem'.devices
    BY <1>1, <2>1 DEF Running
  <2>3. QED
    BY <1>2, <2>2 DEF GoesOn
<1>6. QED
  BY <1>1, <1>3, <1>4, <1>5

\* Changes of the abstract store.
Changes(m, m1, s, s1) == m # None /\ m1 # None /\ GoesOn(m, m1) /\ s1 \in {s, m1}

Saves(m, m1, s, s1) == m # None /\ m1 = m /\ s1 = m

\* A manager that goes on has a content that does.
LEMMA ContentGoesOn ==
  ASSUME NEW m \in Running, NEW n \in Running, GoesOn(m, n)
  PROVE  Content(m) # None /\ Content(n) # None /\ GoesOn(Content(m), Content(n))
BY ContentIs DEF GoesOn

\* A step of the abstract store, or none.
AtomicStep(m, m1, s, s1) ==
  \/ Stutters(m, m1, s, s1) \/ Creates(m, m1, s, s1) \/ Starts(m, m1, s, s1) \/ Stops(m, m1, s, s1)
  \/ Changes(m, m1, s, s1) \/ Saves(m, m1, s, s1)

\* Every step of the store is one of the abstract store.
LEMMA NextAtomic ==
  ASSUME TypeOK, TypeOK', Counters, KeptInv, Undisturbed, Undisturbed', [Next]_vars,
         NEW S, S = SavedState, NEW S1, S1 = SavedState'
  PROVE  AtomicStep(Memory(mem), Memory(mem'), S, S1)
<1>1. VarsOK /\ VarsOK' /\ program \in [Thread -> Programs] /\ "worker" \in Thread /\ "qr" \in Thread
      /\ \A t \in Thread : t \in {"worker", "qr"}
  BY DEF TypeOK, VarsOK, Thread
<1>2. Idle("qr") /\ \E l, e : At("worker", l, e) /\ Prepared("worker", l, e) /\ Facts(l, e)
  BY DEF KeptInv
<1>3. PICK l, e : At("worker", l, e) /\ Prepared("worker", l, e) /\ Facts(l, e)
  BY <1>2
<1>4. S = SavedAt(l, disk, Manager("worker"))
  BY <1>1, <1>3, SavedStateIs
<1>5. ASSUME NEW m, NEW f, At("worker", m, f)', Prepared("worker", m, f)'
      PROVE  S1 = SavedAt(m, disk', Manager("worker")')
  BY <1>1, <1>5, SavedStateNext
<1>6. \A d, m : SavedAt("end", d, m) = OnDisk(d) /\ SavedAt("LoadKey", d, m) = OnDisk(d)
                /\ SavedAt("DeleteAccount", d, m) = Content(m)
  BY DEF SavedAt, Writing, SavePlace
<1>7. ~Crash /\ ~OpenQr /\ \A t \in Thread : ~Error(t)
  <2>1. faults \in Nat /\ qrs \in Nat /\ faults' = 0 /\ qrs' = 0
    BY <1>1 DEF VarsOK, Undisturbed
  <2>2. Crash => faults' = faults + 1
    BY DEF Crash
  <2>3. OpenQr => qrs' = qrs + 1
    BY DEF OpenQr
  <2>4. ASSUME NEW t \in Thread, Error(t) PROVE faults' = faults + 1
    BY <2>4 DEF Error
  <2>5. faults' # faults + 1 /\ qrs' # qrs + 1
    BY <2>1
  <2>6. QED
    BY <2>2, <2>3, <2>4, <2>5
<1>8. ASSUME mem # None, Idle("worker")
      PROVE  /\ S = OnDisk(disk) /\ mem \in Running /\ local["worker"] = NoManager
             /\ At("worker", "end", <<>>) /\ Prepared("worker", "end", <<>>)
  <2>1. l = "end" /\ e = <<>>
    BY <1>1, <1>3, <1>8, IdleAt
  <2>2. QED
    BY <1>1, <1>3, <1>4, <1>6, <1>8, <2>1, EndsApart DEF Prepared, VarsOK, Maybe
<1>9. \A n \in Running : Memory(n) = Content(n) /\ Memory(n) # None
  BY NoneApart, ContentIs DEF Memory
<1>10. CASE Online
  <2>1. At("worker", "LoadKey", Installing)'
    BY <1>1, <1>10, Begins DEF Online
  <2>2. UNCHANGED <<disk, mem, local>> /\ mem = None /\ Idle("worker")
    BY <1>10 DEF Online
  <2>3. l = "end" /\ e = <<>>
    BY <1>1, <1>3, <2>2, IdleAt
  <2>4. Prepared("worker", "LoadKey", Installing)'
    <3>1. local'["worker"] = NoManager
      BY <1>3, <2>2, <2>3 DEF Prepared
    <3>2. QED
      BY <2>2, <3>1, NoManagerIs, EndsApart DEF Prepared, Nameless
  <2>5. S1 = OnDisk(disk')
    BY <1>5, <1>6, <2>1, <2>4
  <2>6. S = OnDisk(disk)
    BY <1>4, <1>6, <2>3
  <2>7. Stutters(Memory(mem), Memory(mem'), S, S1)
    BY <2>2, <2>5, <2>6 DEF Stutters
  <2>8. QED
    BY <2>7 DEF AtomicStep
<1>11. CASE Logout
  <2>1. At("worker", "DeleteAccount", Dropping)'
    BY <1>1, <1>11, Begins DEF Logout
  <2>2. UNCHANGED <<disk, mem, local>> /\ mem # None /\ Idle("worker")
    BY <1>11 DEF Logout, Ready
  <2>3. Prepared("worker", "DeleteAccount", Dropping)'
    BY <1>8, <2>2, NoManagerIs, EndsApart DEF Prepared, Nameless, LoadPlace
  <2>4. S1 = Content(mem')
    BY <1>5, <1>6, <2>1, <2>2, <2>3 DEF Manager
  <2>5. Saves(Memory(mem), Memory(mem'), S, S1)
    BY <1>8, <1>9, <2>2, <2>4 DEF Saves
  <2>6. QED
    BY <2>5 DEF AtomicStep
\* The worker goes on idling with a manager, or begins to save it.
<1>12. ASSUME mem \in Running, mem' \in Running, GoesOn(mem, mem'), UNCHANGED <<program, local, disk>>, Idle("worker")
       PROVE  AtomicStep(Memory(mem), Memory(mem'), S, S1)
  <2>1. mem # None /\ mem' # None
    BY <1>12, NoneApart
  <2>2. At("worker", "end", <<>>)'
    BY <1>8, <1>12, <2>1 DEF At
  <2>3. Prepared("worker", "end", <<>>)'
    BY <1>8, <1>12, <2>1, EndsApart, PlaceNames DEF Prepared, LoadPlace, SavePlace
  <2>4. S1 = OnDisk(disk')
    BY <1>5, <1>6, <2>2, <2>3
  <2>5. S1 = S
    BY <1>8, <1>12, <2>1, <2>4
  <2>6. Memory(mem) # None /\ Memory(mem') # None /\ GoesOn(Memory(mem), Memory(mem'))
    BY <1>9, <1>12, ContentGoesOn
  <2>7. Changes(Memory(mem), Memory(mem'), S, S1)
    BY <2>5, <2>6 DEF Changes
  <2>8. QED
    BY <2>7 DEF AtomicStep
<1>13. CASE \E p \in Peer : Encrypt(p)
  <2>1. PICK p \in Peer : Encrypt(p)
    BY <1>13
  <2>2. UNCHANGED <<disk, local, program>> /\ mem # None /\ Idle("worker")
    BY <2>1 DEF Encrypt, Ready
  <2>3. mem \in Running /\ mem' \in Running /\ GoesOn(mem, mem')
    BY <2>1, <2>2, ManagerGoesOn
  <2>4. QED
    BY <1>12, <2>2, <2>3
<1>14. CASE \E D \in SUBSET Device : UpdateDeviceList(D)
  <2>1. PICK D \in SUBSET Device : UpdateDeviceList(D)
    BY <1>14
  <2>2. UNCHANGED <<disk, local, program>> /\ mem # None /\ Idle("worker")
    BY <2>1 DEF UpdateDeviceList, Ready
  <2>3. mem \in Running /\ mem' \in Running /\ GoesOn(mem, mem')
    BY <2>1, <2>2, ManagerGoesOn
  <2>4. QED
    BY <1>12, <2>2, <2>3
<1>15. CASE \E p \in Peer : Receive(p)
  <2>1. PICK p \in Peer : Receive(p)
    BY <1>15
  <2>2. UNCHANGED <<disk, local>> /\ mem # None /\ Idle("worker")
    BY <2>1 DEF Receive, Ready
  <2>3. At("worker", "DeleteAccount", <<>>)'
    BY <1>1, <2>1, Begins DEF Receive
  <2>4. mem \in Running /\ mem' \in Running /\ GoesOn(mem, mem')
    BY <2>1, <2>2, ManagerGoesOn
  <2>5. mem' # None
    BY <2>4, NoneApart
  <2>6. Prepared("worker", "DeleteAccount", <<>>)'
    BY <1>8, <2>2, <2>5, EndsApart DEF Prepared, LoadPlace, Nameless
  <2>7. S1 = Content(mem')
    BY <1>5, <1>6, <2>3, <2>5, <2>6 DEF Manager
  <2>8. Memory(mem) # None /\ Memory(mem') # None /\ GoesOn(Memory(mem), Memory(mem')) /\ S1 = Memory(mem')
    BY <1>9, <2>4, <2>7, ContentGoesOn
  <2>9. Changes(Memory(mem), Memory(mem'), S, S1)
    BY <2>8 DEF Changes
  <2>10. QED
    BY <2>9 DEF AtomicStep
<1>16. CASE Quit
  <2>1. mem' = None /\ local' = [t \in Thread |-> NoManager] /\ program' = [t \in Thread |-> <<>>] /\ UNCHANGED disk
        /\ mem # None /\ Idle("worker")
    BY <1>16 DEF Quit, End
  <2>2. At("worker", "end", <<>>)'
    BY <1>1, <2>1 DEF At, Ends
  <2>3. Prepared("worker", "end", <<>>)'
    BY <1>1, <2>1, EndsApart, PlaceNames DEF Prepared, LoadPlace, SavePlace
  <2>4. S1 = OnDisk(disk')
    BY <1>5, <1>6, <2>2, <2>3
  <2>5. S1 = S
    BY <1>8, <2>1, <2>4
  <2>6. Memory(mem') = None /\ Memory(mem) # None
    BY <1>8, <1>9, <2>1 DEF Memory
  <2>7. Stops(Memory(mem), Memory(mem'), S, S1)
    BY <2>5, <2>6 DEF Stops
  <2>8. QED
    BY <2>7 DEF AtomicStep
<1>17. CASE \E t \in Thread : Step(t)
  <2>1. Step("worker")
    BY <1>1, <1>2, <1>17 DEF Step
  <2>2. Alone("worker") /\ \E m, f : At("worker", m, f)' /\ Goes("worker", l, e, m, f)
    BY <1>1, <1>3, <2>1, StepGoes
  <2>3. PICK m, f : At("worker", m, f)' /\ Goes("worker", l, e, m, f)
    BY <2>2
  <2>4. Typed("worker", m, f)
    BY <1>1, <1>3, <2>3, GoesTyped
  <2>5. S1 = SavedAt(m, disk', Manager("worker")')
    BY <1>5, <2>3, <2>4 DEF Typed
  <2>6. \/ Stutters(Memory(mem), Memory(mem'), S, S1)
        \/ Creates(Memory(mem), Memory(mem'), S, S1)
        \/ Starts(Memory(mem), Memory(mem'), S, S1)
        \/ Stops(Memory(mem), Memory(mem'), S, S1)
    BY <1>3, <1>4, <2>3, <2>4, <2>5, GoesAtomic
  <2>7. QED
    BY <2>6 DEF AtomicStep
<1>18. CASE UNCHANGED vars
  <2>1. UNCHANGED <<disk, mem, local, program>>
    BY <1>18 DEF vars
  <2>2. At("worker", l, e)' /\ Prepared("worker", l, e)'
    BY <1>3, <2>1 DEF At, Prepared
  <2>3. S1 = SavedAt(l, disk', Manager("worker")')
    BY <1>5, <2>2
  <2>4. disk' = disk /\ Manager("worker")' = Manager("worker")
    BY <2>1 DEF Manager
  <2>5. S1 = S
    BY <1>4, <2>3, <2>4
  <2>6. Stutters(Memory(mem), Memory(mem'), S, S1)
    BY <2>1, <2>5 DEF Stutters
  <2>7. QED
    BY <2>6 DEF AtomicStep
<1>19. QED
  BY <1>7, <1>10, <1>11, <1>13, <1>14, <1>15, <1>16, <1>17, <1>18 DEF Next

\* These steps are those of AtomicStore.
LEMMA AtomicStepNext ==
  ASSUME NEW S, S = SavedState, NEW S1, S1 = SavedState', AtomicStep(Memory(mem), Memory(mem'), S, S1)
  PROVE  [Atomic!Next]_(Atomic!vars)
<1>1. CASE Stutters(Memory(mem), Memory(mem'), S, S1)
  BY <1>1 DEF Stutters, Memory, Atomic!vars
<1>2. CASE Creates(Memory(mem), Memory(mem'), S, S1)
  BY <1>2 DEF Creates, Memory, NoSessions, Atomic!Next, Atomic!Create
<1>3. CASE Starts(Memory(mem), Memory(mem'), S, S1)
  BY <1>3 DEF Starts, Memory, Atomic!Next, Atomic!Start
<1>4. CASE Stops(Memory(mem), Memory(mem'), S, S1)
  BY <1>4 DEF Stops, Memory, Atomic!Next, Atomic!Stop
<1>5. CASE Changes(Memory(mem), Memory(mem'), S, S1)
  BY <1>5 DEF Changes, GoesOn, Memory, Atomic!Next, Atomic!Change, Atomic!ChangeAndSave, Atomic!Advances
<1>6. CASE Saves(Memory(mem), Memory(mem'), S, S1)
  BY <1>6 DEF Saves, Memory, Atomic!Next, Atomic!Save
<1>7. QED
  BY <1>1, <1>2, <1>3, <1>4, <1>5, <1>6 DEF AtomicStep

\* The first states are those of AtomicStore.
LEMMA InitAtomic == ASSUME Init PROVE Atomic!Init
<1>1. disk = NoManager /\ mem = None /\ program["worker"] = <<>>
  BY DEF Init, Thread
<1>2. ~Pending("Saved")
  BY <1>1 DEF Pending
<1>3. SavedState = None
  BY <1>1, <1>2, NoManagerIs DEF SavedState
<1>4. QED
  BY <1>1, <1>3 DEF Atomic!Init

\* ImplementsAtomicStore where no kind of fault is possible: the statements of
\* save and load_or_generate, one at a time, are one atomic write and one
\* atomic read of what the manager holds.
THEOREM AtomicCorrect == Faults = {} => (Spec => ImplementsAtomicStore)
<1> SUFFICES ASSUME Faults = {} PROVE Spec => ImplementsAtomicStore
  OBVIOUS
<1> DEFINE I == TypeOK /\ CountersInv /\ KeptInv /\ Undisturbed
<1>1. Init => I /\ Atomic!Init
  BY InitTyped, CountersInit, KeptInit, InitAtomic DEF Init, Undisturbed
<1>2. I /\ [Next]_vars => I'
  BY NextTyped, CountersNext, KeptNext, UndisturbedNext DEF CountersInv
<1>3. I /\ I' /\ [Next]_vars => [Atomic!Next]_(Atomic!vars)
  BY NextAtomic, AtomicStepNext DEF CountersInv
<1>4. QED
  BY <1>1, <1>2, <1>3, PTL DEF Spec, ImplementsAtomicStore, Atomic!Spec
-----------------------------------------------------------------------------
\* The owners of sessions, with one fault

\* Sessions that can be loaded with the account are of it.
Match(d) ==
  d.account # None => \A p \in Peer :
    d.sessions[p] # None /\ d.sessions[p].key = d.account.key => d.sessions[p].owner = d.account.id

\* So are those that can be loaded with the account that will be saved.
Clean(d, m) ==
  \A p \in Peer : d.sessions[p] # None /\ d.sessions[p].key = m.key => d.sessions[p].owner = m.account

Own(m) == \A p \in Peer : m.sessions[p] # None => m.sessions[p].key = m.key /\ m.sessions[p].owner = m.account

\* The account was just made: the rows of an earlier one are there still, if it
\* was the fault that made it unreadable.
New(n, d, m) == m.sessions = NoSessions /\ (n = 0 => d.sessions = NoSessions)

\* With n faults, the tables d and the manager m at the stage s.
OwnersAt(s, n, d, m) ==
  /\ Own(m)
  /\ s \in Nameless \cup {"LoadSessions", "LoadDevices", "off"} => Match(d)
  /\ s \in {"DeleteAccount1", "InsertAccount1", "DeleteAccount2", "InsertAccount2"} => New(n, d, m)
  /\ s \in {"LoadSessions", "LoadDevices", "DeleteSessions", "InsertSession"} => Holds(d, m.account, m.key)
  /\ s \in {"DeleteAccount", "InsertAccount", "DeleteSessions"} => (Clean(d, m) /\ Match(d)) \/ New(n, d, m)
  /\ s \in {"InsertSession", "DeleteDevices", "InsertDevice", "Saved", "install", "run"} => Clean(d, m) /\ Match(d)
  /\ s = "InsertAccount" => d.account = None

Owners(l, e) == OwnersAt(Stage(l, e), faults, disk, Manager("worker"))

OwnersInv ==
  faults <= 1 /\ qrs = 0 =>
    Idle("qr") /\ \E l, e : At("worker", l, e) /\ Prepared("worker", l, e) /\ Owners(l, e)

\* Where the statement to be executed makes an account.
LEMMA Making ==
  ASSUME NEW l, NEW e, At("worker", l, e)
  PROVE  l = "MakeAccount" <=> program["worker"] # <<>> /\ Head(program["worker"]).op = "MakeAccount"
<1>1. "worker" \in Thread /\ e \in {<<>>, Installing, Dropping} /\ l \in LoadPlace \cup SavePlace \cup {"end"}
  BY AtLoad DEF Thread
<1>2. \A s, op, unit, k : First(s, op, unit, k) => s # <<>> /\ Head(s).op = op
  BY DEF First, Stmt
<1>3. CASE l \in LoadPlace
  <2> DEFINE k == Loadeds("worker")
  <2>1. program["worker"] = LoadAt(l, k)
    BY <1>3, PlaceNames DEF At
  <2>2. k \in Programs /\ \A unit \in {"key", "generate", "regenerate"} : Without(k, unit)
    BY <1>1, LoadedProgram
  <2> HIDE DEF k
  <2>3. CASE l = "MakeAccount"
    <3>1. First(AtMakeAccount(k), "MakeAccount", "load", AtDeleteAccount1(k))
      BY <2>2, LoadFirst
    <3>2. program["worker"] = AtMakeAccount(k)
      BY <2>1, <2>3 DEF LoadAt
    <3>3. QED
      BY <1>2, <2>3, <3>1, <3>2
  <2>4. CASE l # "MakeAccount"
    <3>1. \E op, unit, x : op # "MakeAccount" /\ First(LoadAt(l, k), op, unit, x)
      BY <1>3, <2>2, <2>4, LoadFirst DEF LoadPlace, LoadAt
    <3>2. QED
      BY <1>2, <2>1, <2>4, <3>1
  <2>5. QED
    BY <2>3, <2>4
<1>4. CASE l \in SavePlace
  <2>1. program["worker"] = SaveAt(l, e) /\ e \in Ends("worker")
    BY <1>4, PlaceNames DEF At
  <2>2. e \in Programs /\ \A unit \in {"key", "generate", "regenerate", "save"} : Without(e, unit)
    BY <1>1, <2>1, EndsKnown
  <2>3. \E op, unit, x : op # "MakeAccount" /\ First(SaveAt(l, e), op, unit, x)
    BY <1>4, <2>2, SaveFirst DEF SavePlace, SaveAt
  <2>4. l # "MakeAccount"
    BY <1>4 DEF SavePlace
  <2>5. QED
    BY <1>2, <2>1, <2>3, <2>4
<1>5. CASE l = "end"
  <2>1. program["worker"] = e
    BY <1>5, PlaceNames DEF At
  <2>2. e = <<>> \/ \E op, unit, x : op # "MakeAccount" /\ First(e, op, unit, x)
    BY <1>1, EndFirst
  <2>3. QED
    BY <1>2, <1>5, <2>1, <2>2
<1>6. QED
  BY <1>1, <1>3, <1>4, <1>5

\* Before any fault an account is only made where there are no sessions.
LEMMA MakingEmpty ==
  ASSUME KeptInv, Undisturbed, NEW e, At("worker", "MakeAccount", e)
  PROVE  disk.sessions = NoSessions
<1>1. PICK l, f : At("worker", l, f) /\ Prepared("worker", l, f) /\ Facts(l, f)
  BY DEF KeptInv
<1>2. l = "MakeAccount"
  BY <1>1, Making
<1>3. FactsAt("MakeAccount", disk, Manager("worker"), identity)
  BY <1>1, <1>2 DEF Facts, Stage
<1>4. QED
  BY <1>3 DEF FactsAt, Empty

\* A load, with a statement that succeeds or fails.
Loads(l, ok, m) ==
  \/ l \in {"LoadKey", "LoadKey2"} /\ LoadKey("worker", ok) /\ m \in {AfterKey(l), NewKey(l)}
  \/ l = "LoadAccount" /\ LoadAccount("worker", ok) /\ m = (IF ok /\ Readable("worker") THEN "LoadSessions" ELSE "LoadKey2")
  \/ l = "LoadSessions" /\ LoadSessions("worker", ok) /\ m = "LoadDevices"
  \/ l = "LoadDevices" /\ LoadDevices("worker", ok) /\ m = "DeleteAccount"
  \/ l = "MakeAccount" /\ MakeAccount("worker") /\ m = "DeleteAccount1"

\* A statement of a load, succeeding or failing.
LEMMA OwnersLoads ==
  ASSUME TypeOK, NEW l \in LoadPlace, NEW e, At("worker", l, e), Prepared("worker", l, e),
         NEW n, OwnersAt(l, n, disk, local["worker"]), NEW ok \in BOOLEAN, NEW m, Loads(l, ok, m),
         NEW n1, l = "MakeAccount" /\ n1 = 0 => disk.sessions = NoSessions
  PROVE  OwnersAt(m, n1, disk', local'["worker"]) /\ disk' = disk /\ mem' = mem /\ m # "end"
<1>1. VarsOK /\ "worker" \in Thread
  BY DEF TypeOK, Thread
<1>2. PICK D, M : D = disk /\ M = local["worker"]
  OBVIOUS
<1>3. PICK N : N = local'["worker"]
  OBVIOUS
<1>4. OwnersAt(l, n, D, M)
  BY <1>2
<1>5. (l # "LoadDevices" => M.sessions = NoSessions) /\ \A p \in Peer : NoSessions[p] = None
  BY <1>2, NoManagerIs DEF Prepared
<1>6. SUFFICES OwnersAt(m, n1, D, N) /\ disk' = D /\ mem' = mem /\ m # "end"
  BY <1>2, <1>3
<1>7. CASE l \in {"LoadKey", "LoadKey2"} /\ LoadKey("worker", ok) /\ m \in {AfterKey(l), NewKey(l)}
  <2>1. disk' = D /\ mem' = mem /\ N.sessions = NoSessions
    BY <1>1, <1>2, <1>3, <1>7, AfterLoadKey
  <2>2. m \in {"LoadAccount", "MakeAccount", "DeleteKey", "DeleteKey2"}
    BY <1>7 DEF AfterKey, NewKey
  <2>3. Match(D)
    BY <1>4, <1>7 DEF OwnersAt, Nameless
  <2>4. Own(N)
    BY <1>5, <2>1 DEF Own
  <2>5. QED
    BY <2>1, <2>2, <2>3, <2>4 DEF OwnersAt
<1>8. CASE l = "LoadAccount" /\ LoadAccount("worker", ok) /\ m = (IF ok /\ Readable("worker") THEN "LoadSessions" ELSE "LoadKey2")
  <2>1. disk' = D /\ mem' = mem /\ N.key = M.key /\ N.sessions = NoSessions
        /\ N.account = IF ok /\ Readable("worker") THEN D.account.id ELSE None
    BY <1>1, <1>2, <1>3, <1>5, <1>8, AfterLoadAccount
  <2>2. Match(D)
    BY <1>4, <1>8 DEF OwnersAt, Nameless
  <2>3. Own(N)
    BY <1>5, <2>1 DEF Own
  <2>4. CASE ok /\ Readable("worker")
    <3>1. Holds(D, N.account, N.key)
      BY <1>2, <2>1, <2>4 DEF Holds, Readable
    <3>2. m = "LoadSessions"
      BY <1>8, <2>4
    <3>3. QED
      BY <2>1, <2>2, <2>3, <3>1, <3>2 DEF OwnersAt
  <2>5. CASE ~(ok /\ Readable("worker"))
    <3>1. m = "LoadKey2"
      BY <1>8, <2>5
    <3>2. QED
      BY <2>1, <2>2, <2>3, <3>1 DEF OwnersAt
  <2>6. QED
    BY <2>4, <2>5
<1>9. CASE l = "LoadSessions" /\ LoadSessions("worker", ok) /\ m = "LoadDevices"
  <2>1. /\ disk' = D /\ mem' = mem /\ N.key = M.key /\ N.account = M.account
        /\ \A p \in Peer : N.sessions[p] = IF ok /\ D.sessions[p] # None /\ D.sessions[p].key = M.key
                                          THEN D.sessions[p] ELSE None
    BY <1>1, <1>2, <1>3, <1>9, AfterLoadSessions
  <2>2. Match(D) /\ Holds(D, M.account, M.key)
    BY <1>4, <1>9 DEF OwnersAt
  <2>3. Own(N)
    BY <2>1, <2>2 DEF Own, Match, Holds
  <2>4. QED
    BY <1>9, <2>1, <2>2, <2>3 DEF OwnersAt
<1>10. CASE l = "LoadDevices" /\ LoadDevices("worker", ok) /\ m = "DeleteAccount"
  <2>1. disk' = D /\ mem' = mem /\ N.key = M.key /\ N.account = M.account /\ N.sessions = M.sessions
    BY <1>1, <1>2, <1>3, <1>10, AfterLoadDevices
  <2>2. Match(D) /\ Holds(D, M.account, M.key) /\ Own(M)
    BY <1>4, <1>10 DEF OwnersAt
  <2>3. Clean(D, N) /\ Own(N)
    BY <2>1, <2>2 DEF Clean, Own, Match, Holds
  <2>4. QED
    BY <1>10, <2>1, <2>2, <2>3, PlaceNames DEF OwnersAt, Nameless
<1>11. CASE l = "MakeAccount" /\ MakeAccount("worker") /\ m = "DeleteAccount1"
  <2>1. disk' = D /\ mem' = mem /\ N.sessions = NoSessions
    BY <1>1, <1>2, <1>3, <1>5, <1>11, AfterMakeAccount
  <2>2. Own(N) /\ New(n1, D, N)
    BY <1>2, <1>5, <1>11, <2>1 DEF Own, New
  <2>3. QED
    BY <1>11, <2>1, <2>2, PlaceNames DEF OwnersAt
<1>12. QED
  BY <1>7, <1>8, <1>9, <1>10, <1>11 DEF Loads

\* A save leaves the manager in place.
Settled(d, m) == Own(m) /\ Clean(d, m) /\ Match(d)

\* What a save leaves is what the next stages need.
LEMMA SettledAt ==
  ASSUME NEW d, NEW m, NEW n, Settled(d, m), NEW s \in {"install", "run", "DeleteAccount"}
  PROVE  OwnersAt(s, n, d, m)
BY PlaceNames DEF Settled, OwnersAt, Nameless

\* What is written.
LEMMA OwnersWrites ==
  ASSUME TypeOK, NEW l \in LoadPlace \cup SavePlace, NEW e, At("worker", l, e), Prepared("worker", l, e), NEW n,
         OwnersAt(l, n, disk, Manager("worker")),
         l \notin {"LoadKey", "LoadKey2", "LoadAccount", "MakeAccount", "LoadSessions", "LoadDevices"},
         NEW m, NEW f, Goes("worker", l, e, m, f)
  PROVE  /\ Manager("worker")' = Manager("worker") /\ mem' = mem /\ f = e
         /\ IF m # "end" THEN OwnersAt(m, n, disk', Manager("worker"))
            ELSE l \in SavePlace /\ Settled(disk', Manager("worker"))
<1>1. VarsOK /\ "worker" \in Thread
  BY DEF TypeOK, Thread
<1>2. PICK D, M : D = disk /\ M = Manager("worker")
  OBVIOUS
<1>3. PICK D1 : D1 = disk'
  OBVIOUS
<1>4. OwnersAt(l, n, D, M) /\ Own(M)
  BY <1>2 DEF OwnersAt
<1>5. D \in Tables /\ M \in Loading /\ D.sessions \in Sessions /\ M.sessions \in Sessions
  BY <1>1, <1>2, ManagerLoads, Fields DEF VarsOK
<1>6. \A p \in Peer : NoSessions[p] = None
  BY NoManagerIs
<1>7. mem' = mem /\ Manager("worker")' = M /\ f = e
  <2>1. UNCHANGED <<mem, local>> /\ f = e
    BY PlaceNames DEF Goes, Write, InsertKey, InsertAccount, Fails, Saved
  <2>2. QED
    BY <1>2, <2>1 DEF Manager
<1>8. SUFFICES IF m # "end" THEN OwnersAt(m, n, D1, M) ELSE l \in SavePlace /\ Settled(D1, M)
  BY <1>2, <1>3, <1>7
<1>9. CASE l \in {"DeleteKey", "DeleteKey2", "InsertKey", "InsertKey2"}
  <2>1. m \in {"InsertKey", "InsertKey2", "LoadAccount", "MakeAccount"}
    BY <1>9 DEF Goes, AfterKey
  <2>2. D1.account = D.account /\ D1.sessions = D.sessions
    <3>1. Write("worker", [disk EXCEPT !.key = None]) \/ InsertKey("worker")
      BY <1>9 DEF Goes
    <3>2. QED
      BY <1>1, <1>2, <1>3, <3>1, AfterDelete, AfterInsertKey
  <2>3. Match(D)
    BY <1>4, <1>9 DEF OwnersAt, Nameless
  <2>4. Match(D1)
    BY <2>2, <2>3 DEF Match
  <2>5. QED
    BY <1>4, <2>1, <2>4 DEF OwnersAt
<1>10. CASE l \in {"DeleteAccount1", "DeleteAccount2", "DeleteAccount"}
  <2>1. Write("worker", [disk EXCEPT !.account = None])
        /\ m = (IF l = "DeleteAccount1" THEN "InsertAccount1"
                ELSE IF l = "DeleteAccount2" THEN "InsertAccount2" ELSE "InsertAccount")
    BY <1>10 DEF Goes
  <2>2. D1.account = None /\ D1.sessions = D.sessions
    BY <1>1, <1>2, <1>3, <2>1, AfterDelete
  <2>3. CASE l \in {"DeleteAccount1", "DeleteAccount2"}
    <3>1. New(n, D1, M)
      BY <1>4, <2>2, <2>3 DEF OwnersAt, New
    <3>2. m \in {"InsertAccount1", "InsertAccount2"}
      BY <2>1, <2>3
    <3>3. QED
      BY <1>4, <3>1, <3>2, PlaceNames DEF OwnersAt
  <2>4. CASE l = "DeleteAccount"
    <3>1. (Clean(D, M) /\ Match(D)) \/ New(n, D, M)
      BY <1>4, <2>4 DEF OwnersAt
    <3>2. (Clean(D1, M) /\ Match(D1)) \/ New(n, D1, M)
      BY <2>2, <3>1 DEF Clean, Match, New
    <3>3. m = "InsertAccount"
      BY <2>1, <2>4
    <3>4. QED
      BY <1>4, <2>2, <3>2, <3>3 DEF OwnersAt, Nameless
  <2>5. QED
    BY <1>10, <2>3, <2>4
<1>11. CASE l \in {"InsertAccount1", "InsertAccount2"}
  <2>1. InsertAccount("worker") /\ m \in {"DeleteAccount2", "DeleteAccount"}
    BY <1>11 DEF Goes, AfterLoad
  <2>2. l \in SavePlace \cup (LoadPlace \ Nameless) \/ (e \in {Installing, Closing, Dropping} /\ l = "end")
    BY <1>11 DEF SavePlace, LoadPlace, Nameless
  <2>3. Manager("worker").account \in Nat /\ Manager("worker").key \in Nat
    BY <1>1, <2>2, ManagerNamed
  <2>4. D1.sessions = D.sessions
    BY <1>1, <1>2, <1>3, <2>1, <2>3, AfterInsertAccount
  <2>5. New(n, D1, M)
    BY <1>4, <1>11, <2>4 DEF OwnersAt, New
  <2>6. QED
    BY <1>4, <2>1, <2>5, PlaceNames DEF OwnersAt, Nameless
<1>12. CASE l = "InsertAccount"
  <2>1. D.account = None /\ ((Clean(D, M) /\ Match(D)) \/ New(n, D, M))
    BY <1>4, <1>12 DEF OwnersAt
  <2>2. InsertAccount("worker") /\ m = "DeleteSessions"
    BY <1>2, <1>12, <2>1 DEF Goes
  <2>3. l \in SavePlace \cup (LoadPlace \ Nameless) \/ (e \in {Installing, Closing, Dropping} /\ l = "end")
    BY <1>12 DEF SavePlace
  <2>4. M.account \in Nat /\ M.key \in Nat
    BY <1>1, <1>2, <2>3, ManagerNamed
  <2>5. D1.sessions = D.sessions /\ D1.account # None /\ D1.account.id = M.account /\ D1.account.key = M.key
    BY <1>1, <1>2, <1>3, <2>1, <2>2, <2>4, AfterInsertAccount
  <2>6. Holds(D1, M.account, M.key)
    BY <2>5 DEF Holds
  <2>7. (Clean(D1, M) /\ Match(D1)) \/ New(n, D1, M)
    BY <2>1, <2>5 DEF Clean, Match, New
  <2>8. QED
    BY <1>4, <2>2, <2>6, <2>7 DEF OwnersAt, Nameless
<1>13. CASE l = "DeleteSessions"
  <2>1. Write("worker", [disk EXCEPT !.sessions = NoSessions]) /\ m = "InsertSession"
    BY <1>13 DEF Goes
  <2>2. D1.account = D.account /\ D1.sessions = NoSessions
    BY <1>1, <1>2, <1>3, <2>1, AfterDelete
  <2>3. Holds(D, M.account, M.key)
    BY <1>4, <1>13 DEF OwnersAt
  <2>4. Holds(D1, M.account, M.key) /\ Clean(D1, M) /\ Match(D1)
    BY <1>6, <2>2, <2>3 DEF Holds, Clean, Match
  <2>5. QED
    BY <1>4, <2>1, <2>4 DEF OwnersAt, Nameless
<1>14. CASE l = "InsertSession"
  <2>1. Clean(D, M) /\ Match(D) /\ Holds(D, M.account, M.key)
    BY <1>4, <1>14 DEF OwnersAt
  <2>2. CASE m \in {"DeleteDevices", "end"}
    <3>1. D1 = D
      BY <1>2, <1>3, <1>14, <2>2 DEF Goes, Write, Fails
    <3>2. QED
      BY <1>4, <1>14, <2>1, <2>2, <3>1 DEF OwnersAt, Settled, Nameless, SavePlace
  <2>3. CASE m = "InsertSession"
    <3>1. \E p \in Peer : disk' = [disk EXCEPT !.sessions[p] = Manager("worker").sessions[p]]
      BY <1>14, <2>3 DEF Goes
    <3>2. PICK q \in Peer : disk' = [disk EXCEPT !.sessions[q] = Manager("worker").sessions[q]]
      BY <3>1
    <3>3. /\ D1.account = D.account
          /\ D1.sessions[q] = M.sessions[q] /\ \A p \in Peer : p # q => D1.sessions[p] = D.sessions[p]
      BY <1>1, <1>2, <1>3, <3>2, AfterInsertRow
    <3>4. Clean(D1, M)
      BY <1>4, <2>1, <3>3 DEF Clean, Own
    <3>5. Match(D1)
      BY <1>4, <2>1, <3>3 DEF Match, Own, Holds
    <3>6. Holds(D1, M.account, M.key)
      BY <2>1, <3>3 DEF Holds
    <3>7. QED
      BY <1>4, <2>3, <3>4, <3>5, <3>6 DEF OwnersAt, Nameless
  <2>4. QED
    BY <1>14, <2>2, <2>3 DEF Goes
<1>15. CASE l \in {"DeleteDevices", "InsertDevice", "Saved"}
  <2>1. Clean(D, M) /\ Match(D)
    BY <1>4, <1>15 DEF OwnersAt
  <2>2. m \in {"InsertDevice", "Saved", "end"}
    BY <1>15 DEF Goes
  <2>3. D1.account = D.account /\ D1.sessions = D.sessions
    <3>1. CASE l = "DeleteDevices"
      <4>1. Write("worker", [disk EXCEPT !.devices = {}])
        BY <3>1 DEF Goes
      <4>2. QED
        BY <1>1, <1>2, <1>3, <4>1, AfterDelete
    <3>2. CASE l = "InsertDevice"
      <4>1. disk' = disk \/ \E d \in Manager("worker").devices : disk' = [disk EXCEPT !.devices = @ \cup {d}]
        BY <3>2 DEF Goes, Write
      <4>2. D1 = D \/ \E d \in M.devices : D1 = [D EXCEPT !.devices = D.devices \cup {d}]
        BY <1>2, <1>3, <4>1
      <4>3. QED
        BY <1>5, <4>2 DEF Tables
    <3>3. CASE l = "Saved"
      BY <1>2, <1>3, <3>3 DEF Goes, Saved
    <3>4. QED
      BY <1>15, <3>1, <3>2, <3>3
  <2>4. Clean(D1, M) /\ Match(D1)
    BY <2>1, <2>3 DEF Clean, Match
  <2>5. QED
    BY <1>4, <1>15, <2>2, <2>4 DEF OwnersAt, Settled, Nameless, SavePlace
<1>16. l \in {"DeleteKey", "DeleteKey2", "InsertKey", "InsertKey2", "DeleteAccount1", "DeleteAccount2", "DeleteAccount",
              "InsertAccount1", "InsertAccount2", "InsertAccount", "DeleteSessions", "InsertSession", "DeleteDevices",
              "InsertDevice", "Saved"}
  BY DEF LoadPlace, SavePlace
<1>17. QED
  BY <1>9, <1>10, <1>11, <1>12, <1>13, <1>14, <1>15, <1>16

\* A statement that fails is the first fault: until then all is in order.
LEMMA OwnersFails ==
  ASSUME NEW l, NEW m, NEW d, NEW M, NEW n, OwnersAt(l, 0, d, M),
         \/ l \in {"DeleteKey", "InsertKey", "DeleteKey2", "InsertKey2"} /\ m = AfterKey(l)
         \/ l \in {"DeleteAccount1", "InsertAccount1"} /\ m = "DeleteAccount2"
         \/ l \in {"DeleteAccount2", "InsertAccount2"} /\ m = "DeleteAccount"
         \/ l \in SavePlace /\ m = "end",
         n # 0
  PROVE  IF m # "end" THEN OwnersAt(m, n, d, M) ELSE Settled(d, M)
<1>1. CASE l \in {"DeleteKey", "InsertKey", "DeleteKey2", "InsertKey2"} /\ m = AfterKey(l)
  <2>1. m \in {"LoadAccount", "MakeAccount"}
    BY <1>1 DEF AfterKey
  <2>2. QED
    BY <1>1, <2>1 DEF OwnersAt, Nameless
<1>2. CASE l \in {"DeleteAccount1", "InsertAccount1"} /\ m = "DeleteAccount2"
  BY <1>2, PlaceNames DEF OwnersAt, New
<1>3. CASE l \in {"DeleteAccount2", "InsertAccount2"} /\ m = "DeleteAccount"
  BY <1>3, PlaceNames DEF OwnersAt, New, Nameless
<1>4. CASE l \in SavePlace /\ m = "end"
  <2>1. Own(M) /\ ((Clean(d, M) /\ Match(d)) \/ New(0, d, M))
    BY <1>4 DEF OwnersAt, SavePlace
  <2>2. New(0, d, M) => Clean(d, M) /\ Match(d)
    BY NoManagerIs DEF New, Clean, Match
  <2>3. QED
    BY <1>4, <2>1, <2>2 DEF Settled
<1>5. QED
  BY <1>1, <1>2, <1>3, <1>4

\* A statement of the worker.
LEMMA OwnersGoes ==
  ASSUME TypeOK, KeptInv, qrs = 0, UNCHANGED faults, NEW l, NEW e, At("worker", l, e), Prepared("worker", l, e), Owners(l, e),
         NEW m, NEW f, Goes("worker", l, e, m, f)
  PROVE  Owners(m, f)'
<1>1. VarsOK /\ "worker" \in Thread /\ l \in LoadPlace \cup SavePlace \cup {"end"}
  BY AtLoad DEF TypeOK, Thread
<1>2. PICK n : n = faults
  OBVIOUS
<1>3. CASE l \in {"LoadKey", "LoadKey2", "LoadAccount", "MakeAccount", "LoadSessions", "LoadDevices"}
  <2>1. l \in LoadPlace
    BY <1>3 DEF LoadPlace
  <2>2. mem = None /\ Manager("worker") = local["worker"] /\ OwnersAt(l, n, disk, local["worker"])
    BY <1>2, <2>1, StageIs, PlaceNames DEF Owners
  <2>3. Loads(l, TRUE, m)
    BY <1>3 DEF Goes, Loads, AfterLoad
  <2>4. l = "MakeAccount" /\ n = 0 => disk.sessions = NoSessions
    BY <1>2, MakingEmpty DEF Undisturbed
  <2>5. OwnersAt(m, n, disk', local'["worker"]) /\ mem' = mem /\ m # "end"
    <3>1. \A n1 : \A ok \in BOOLEAN : Loads(l, ok, m) /\ (l = "MakeAccount" /\ n1 = 0 => disk.sessions = NoSessions) =>
            OwnersAt(m, n1, disk', local'["worker"]) /\ mem' = mem /\ m # "end"
      BY <2>1, <2>2, OwnersLoads
    <3>2. TRUE \in BOOLEAN
      OBVIOUS
    <3>3. QED
      BY <2>3, <2>4, <3>1, <3>2
  <2>6. Manager("worker")' = local'["worker"] /\ Stage(m, f)' = m
    BY <2>2, <2>5 DEF Manager, Stage
  <2>7. QED
    BY <1>2, <2>5, <2>6 DEF Owners
<1>4. CASE l \in LoadPlace \cup SavePlace
           /\ l \notin {"LoadKey", "LoadKey2", "LoadAccount", "MakeAccount", "LoadSessions", "LoadDevices"}
  <2>1. OwnersAt(l, n, disk, Manager("worker"))
    BY <1>2, <1>4, StageIs, PlaceNames DEF Owners
  <2>2. /\ Manager("worker")' = Manager("worker") /\ mem' = mem /\ f = e
        /\ IF m # "end" THEN OwnersAt(m, n, disk', Manager("worker"))
           ELSE l \in SavePlace /\ Settled(disk', Manager("worker"))
    BY <1>4, <2>1, OwnersWrites
  <2>3. CASE m # "end"
    <3>1. Stage(m, f)' = m
      BY <2>3 DEF Stage
    <3>2. QED
      BY <1>2, <2>2, <2>3, <3>1 DEF Owners
  <2>4. CASE m = "end"
    <3>1. e # Installing => mem # None
      <4>1. e \in {<<>>, Installing, Dropping}
        BY <1>1, AtLoad
      <4>2. QED
        BY <2>2, <2>4, <4>1 DEF Prepared
    <3>2. Stage(m, f)' \in {"run", "install"}
      BY <2>2, <2>4, <3>1 DEF Stage
    <3>3. OwnersAt(Stage(m, f)', n, disk', Manager("worker"))
      BY <2>2, <2>4, <3>2, SettledAt
    <3>4. QED
      BY <1>2, <2>2, <3>3 DEF Owners
  <2>5. QED
    BY <2>3, <2>4
<1>5. CASE l = "end"
  <2>1. m = "end" /\ f = <<>>
        /\ \/ e = Installing /\ Install("worker")
           \/ e = Dropping /\ Drop("worker")
           \/ e = Closing /\ Close("worker") /\ UNCHANGED mem
    BY <1>5, PlaceNames DEF Goes, LoadPlace, SavePlace
  <2>2. e # Closing /\ f # Installing
    BY <1>1, <2>1, AtLoad, EndsApart
  <2>3. CASE e = Installing /\ Install("worker")
    <3>1. OwnersAt("install", n, disk, Manager("worker")) /\ Manager("worker") = local["worker"]
      BY <1>2, <1>5, <2>3, StageIs DEF Owners
    <3>2. Settled(disk, Manager("worker"))
      BY <3>1 DEF OwnersAt, Settled
    <3>3. mem' = local["worker"] /\ UNCHANGED disk
      BY <2>3 DEF Install, Close
    <3>4. mem' # None
      <4>1. mem' \in Loading /\ mem'.key \in Nat /\ mem'.account \in Nat
        <5>1. local["worker"] \in Loading
          BY <1>1 DEF VarsOK
        <5>2. local["worker"].key \in Nat /\ local["worker"].account \in Nat
          BY <1>5, <2>3, PlaceNames DEF Prepared, Nameless
        <5>3. QED
          BY <3>3, <5>1, <5>2
      <4>2. QED
        BY <4>1, LoadedRuns, NoneApart
    <3>5. Manager("worker")' = Manager("worker") /\ Stage(m, f)' = "run"
      BY <2>1, <2>2, <3>1, <3>3, <3>4 DEF Manager, Stage
    <3>6. OwnersAt("run", n, disk', Manager("worker"))
      BY <3>2, <3>3, SettledAt
    <3>7. QED
      BY <1>2, <3>5, <3>6 DEF Owners
  <2>4. CASE e = Dropping /\ Drop("worker")
    <3>1. OwnersAt("run", n, disk, Manager("worker"))
      BY <1>2, <1>5, <2>4, StageIs DEF Owners
    <3>2. Match(disk)
      BY <3>1 DEF OwnersAt
    <3>3. mem' = None /\ UNCHANGED <<disk, local>>
      BY <2>4 DEF Drop
    <3>4. Stage(m, f)' = "off"
      BY <2>1, <2>2, <3>3 DEF Stage
    <3>5. Manager("worker")' = NoManager
      BY <2>4, <3>3 DEF Manager, Prepared
    <3>6. OwnersAt("off", n, disk', NoManager)
      BY <3>2, <3>3, NoManagerIs, PlaceNames DEF OwnersAt, Own, Nameless
    <3>7. QED
      BY <1>2, <3>4, <3>5, <3>6 DEF Owners
  <2>5. QED
    BY <2>1, <2>2, <2>3, <2>4
<1>6. QED
  BY <1>1, <1>3, <1>4, <1>5

\* A statement of the worker that fails.
LEMMA OwnersFalls ==
  ASSUME TypeOK, faults = 0, faults' # 0, NEW l, NEW e, At("worker", l, e), Prepared("worker", l, e), Owners(l, e),
         NEW m, Falls("worker", l, e, m)
  PROVE  Owners(m, e)'
<1>1. VarsOK /\ "worker" \in Thread /\ l \in LoadPlace \cup SavePlace \cup {"end"}
  BY AtLoad DEF TypeOK, Thread
<1>2. PICK n1 : n1 = faults' /\ n1 # 0
  OBVIOUS
<1>3. CASE Loads(l, FALSE, m) /\ l \in LoadPlace /\ l # "MakeAccount"
  <2>1. mem = None /\ Manager("worker") = local["worker"] /\ OwnersAt(l, 0, disk, local["worker"])
    BY <1>3, StageIs, PlaceNames DEF Owners
  <2>2. OwnersAt(m, n1, disk', local'["worker"]) /\ mem' = mem /\ m # "end"
    BY <1>3, <2>1, OwnersLoads
  <2>3. Manager("worker")' = local'["worker"] /\ Stage(m, e)' = m
    BY <2>1, <2>2 DEF Manager, Stage
  <2>4. QED
    BY <1>2, <2>2, <2>3 DEF Owners
<1>4. CASE /\ Fails("worker")
           /\ \/ l \in {"DeleteKey", "InsertKey", "DeleteKey2", "InsertKey2"} /\ m = AfterKey(l)
              \/ l \in {"DeleteAccount1", "InsertAccount1"} /\ m = "DeleteAccount2"
              \/ l \in {"DeleteAccount2", "InsertAccount2"} /\ m = "DeleteAccount"
              \/ l \in SavePlace /\ m = "end"
  <2>1. UNCHANGED <<disk, mem, local>>
    BY <1>4 DEF Fails
  <2>2. Manager("worker")' = Manager("worker")
    BY <2>1 DEF Manager
  <2>3. OwnersAt(l, 0, disk, Manager("worker"))
    <3>1. l # "end"
      BY <1>4, PlaceNames
    <3>2. QED
      BY <3>1, StageIs DEF Owners
  <2>4. \/ l \in {"DeleteKey", "InsertKey", "DeleteKey2", "InsertKey2"} /\ m = AfterKey(l)
        \/ l \in {"DeleteAccount1", "InsertAccount1"} /\ m = "DeleteAccount2"
        \/ l \in {"DeleteAccount2", "InsertAccount2"} /\ m = "DeleteAccount"
        \/ l \in SavePlace /\ m = "end"
    BY <1>4
  <2>5. IF m # "end" THEN OwnersAt(m, n1, disk, Manager("worker")) ELSE Settled(disk, Manager("worker"))
    BY <1>2, <2>3, <2>4, OwnersFails
  <2>6. CASE m # "end"
    <3>1. Stage(m, e)' = m
      BY <2>6 DEF Stage
    <3>2. QED
      BY <1>2, <2>1, <2>2, <2>5, <2>6, <3>1 DEF Owners
  <2>7. CASE m = "end"
    <3>1. e # Installing => mem # None
      <4>1. e \in {<<>>, Installing, Dropping} /\ l \in SavePlace
        BY <1>1, <1>4, <2>7, AtLoad DEF AfterKey
      <4>2. QED
        BY <4>1 DEF Prepared
    <3>2. Stage(m, e)' \in {"run", "install"}
      BY <2>1, <2>7, <3>1 DEF Stage
    <3>3. OwnersAt(Stage(m, e)', n1, disk, Manager("worker"))
      BY <2>5, <2>7, <3>2, SettledAt
    <3>4. QED
      BY <1>2, <2>1, <2>2, <3>3 DEF Owners
  <2>8. QED
    BY <2>6, <2>7
<1>5. (Loads(l, FALSE, m) /\ l \in LoadPlace /\ l # "MakeAccount")
      \/ /\ Fails("worker")
         /\ \/ l \in {"DeleteKey", "InsertKey", "DeleteKey2", "InsertKey2"} /\ m = AfterKey(l)
            \/ l \in {"DeleteAccount1", "InsertAccount1"} /\ m = "DeleteAccount2"
            \/ l \in {"DeleteAccount2", "InsertAccount2"} /\ m = "DeleteAccount"
            \/ l \in SavePlace /\ m = "end"
  BY DEF Falls, Loads, AfterLoad, LoadPlace
<1>6. QED
  BY <1>3, <1>4, <1>5

\* At no stage is there a session of another account that could be loaded.
LEMMA OwnersMatch ==
  ASSUME NEW s, NEW d, NEW m, OwnersAt(s, 0, d, m),
         s \in LoadPlace \cup SavePlace \cup {"install", "run", "off"}
  PROVE  Match(d)
<1>1. New(0, d, m) => Match(d)
  BY NoManagerIs DEF New, Match
<1>2. d.account = None => Match(d)
  BY DEF Match
<1>3. QED
  BY <1>1, <1>2 DEF OwnersAt, Nameless, LoadPlace, SavePlace

\* The running manager goes on with sessions of the same account.
LEMMA OwnersRun ==
  ASSUME Owners("end", <<>>), At("worker", "end", <<>>), Prepared("worker", "end", <<>>), mem # None, mem' # None,
         UNCHANGED <<disk, faults>>, mem'.key = mem.key, mem'.account = mem.account,
         \A p \in Peer : mem'.sessions[p] # None =>
           \/ mem'.sessions[p].key = mem.key /\ mem'.sessions[p].owner = mem.account
           \/ /\ mem.sessions[p] # None
              /\ mem'.sessions[p].key = mem.sessions[p].key /\ mem'.sessions[p].owner = mem.sessions[p].owner
  PROVE  Settled(disk', mem')
<1>1. OwnersAt("run", faults, disk, mem)
  BY EndsApart, StageIs, ManagerIs DEF Owners
<1>2. Own(mem) /\ Clean(disk, mem) /\ Match(disk)
  BY <1>1 DEF OwnersAt
<1>3. Own(mem')
  BY <1>2 DEF Own
<1>4. Clean(disk', mem') /\ Match(disk')
  BY <1>2 DEF Clean, Match
<1>5. QED
  BY <1>3, <1>4 DEF Settled

\* Every step keeps the owners of sessions, up to the first fault.
LEMMA OwnersNext == ASSUME TypeOK, TypeOK', KeptInv, OwnersInv, [Next]_vars PROVE OwnersInv'
<1> SUFFICES ASSUME faults' <= 1, qrs' = 0
             PROVE  (Idle("qr") /\ \E l, e : At("worker", l, e) /\ Prepared("worker", l, e) /\ Owners(l, e))'
  BY DEF OwnersInv
<1>1. VarsOK /\ VarsOK' /\ program \in [Thread -> Programs] /\ "worker" \in Thread /\ "qr" \in Thread /\ "qr" # "worker"
      /\ \A t \in Thread : t \in {"worker", "qr"}
  BY DEF TypeOK, VarsOK, Thread
<1>2. faults \in Nat /\ qrs \in Nat /\ faults' \in Nat
  BY <1>1 DEF VarsOK
<1>3. ~OpenQr
  <2>1. OpenQr => qrs' = qrs + 1
    BY DEF OpenQr
  <2>2. QED
    BY <1>2, <2>1
<1>4. ASSUME Crash \/ \E t \in Thread : Error(t) PROVE faults = 0 /\ faults' # 0 /\ qrs = 0
  <2>1. faults' = faults + 1 /\ qrs' = qrs
    BY <1>4 DEF Crash, Error, End
  <2>2. QED
    BY <1>2, <2>1
<1>5. ASSUME ~Crash, \A t \in Thread : ~Error(t) PROVE faults' = faults /\ qrs' = qrs
  <2>1. [Online \/ Logout \/ Quit \/ (\E p \in Peer : Encrypt(p) \/ Receive(p)) \/ (\E D \in SUBSET Device : UpdateDeviceList(D))
         \/ (\E t \in Thread : Step(t))]_vars
    BY <1>3, <1>5 DEF Next
  <2>2. QED
    BY <2>1 DEF Online, Logout, Quit, End, Encrypt, Receive, UpdateDeviceList, Step, vars, bounds
<1>6. faults <= 1 /\ qrs = 0
  BY <1>2, <1>4, <1>5
<1>7. Idle("qr") /\ \E l, e : At("worker", l, e) /\ Prepared("worker", l, e) /\ Owners(l, e)
  BY <1>6 DEF OwnersInv
<1>8. PICK l, e : At("worker", l, e) /\ Prepared("worker", l, e) /\ Owners(l, e)
  BY <1>7
<1>9. ASSUME Alone("worker") \/ program' = program PROVE Idle("qr")'
  BY <1>1, <1>7, <1>9 DEF Alone, Idle
<1>10. ASSUME mem # None, Idle("worker")
       PROVE  /\ l = "end" /\ e = <<>> /\ local["worker"] = NoManager
              /\ Prepared("worker", "end", <<>>) /\ Owners("end", <<>>) /\ At("worker", "end", <<>>)
  <2>1. l = "end" /\ e = <<>>
    BY <1>1, <1>8, <1>10, IdleAt
  <2>2. QED
    BY <1>8, <2>1, EndsApart DEF Prepared
\* There is no manager any more.
<1>11. ASSUME Match(disk), mem' = None, local' = [t \in Thread |-> NoManager], program' = [t \in Thread |-> <<>>], UNCHANGED disk
       PROVE  (Idle("qr") /\ \E l1, e1 : At("worker", l1, e1) /\ Prepared("worker", l1, e1) /\ Owners(l1, e1))'
  <2>1. Idle("qr")' /\ At("worker", "end", <<>>)'
    BY <1>1, <1>11 DEF Idle, At, Ends
  <2>2. Prepared("worker", "end", <<>>)'
    BY <1>1, <1>11, EndsApart, PlaceNames DEF Prepared, LoadPlace, SavePlace
  <2>3. Stage("end", <<>>)' = "off" /\ Manager("worker")' = NoManager
    BY <1>1, <1>11, EndsApart DEF Stage, Manager
  <2>4. OwnersAt("off", faults', disk', NoManager)
    BY <1>11, NoManagerIs, PlaceNames DEF OwnersAt, Own, Nameless
  <2>5. Owners("end", <<>>)'
    BY <2>3, <2>4 DEF Owners
  <2>6. QED
    BY <2>1, <2>2, <2>5
\* The worker goes on idling with a manager.
<1>12. ASSUME UNCHANGED <<program, local>>, mem # None, mem' # None, Idle("worker"), Settled(disk', mem')
       PROVE  (Idle("qr") /\ \E l1, e1 : At("worker", l1, e1) /\ Prepared("worker", l1, e1) /\ Owners(l1, e1))'
  <2>1. At("worker", "end", <<>>)'
    BY <1>10, <1>12 DEF At
  <2>2. Prepared("worker", "end", <<>>)'
    BY <1>10, <1>12, EndsApart, PlaceNames DEF Prepared, LoadPlace, SavePlace
  <2>3. Stage("end", <<>>)' = "run" /\ Manager("worker")' = mem'
    BY <1>12, EndsApart DEF Stage, Manager
  <2>4. OwnersAt("run", faults', disk', mem')
    BY <1>12, SettledAt
  <2>5. Owners("end", <<>>)'
    BY <2>3, <2>4 DEF Owners
  <2>6. QED
    BY <1>9, <1>12, <2>1, <2>2, <2>5
\* The worker begins a save.
<1>13. ASSUME NEW f \in {<<>>, Dropping}, Alone("worker"), At("worker", "DeleteAccount", f)', UNCHANGED local,
              mem # None, mem' # None, Idle("worker"), Settled(disk', mem')
       PROVE  (Idle("qr") /\ \E l1, e1 : At("worker", l1, e1) /\ Prepared("worker", l1, e1) /\ Owners(l1, e1))'
  <2>1. Prepared("worker", "DeleteAccount", f)'
    BY <1>10, <1>13, EndsApart DEF Prepared, LoadPlace, Nameless
  <2>2. Stage("DeleteAccount", f)' = "DeleteAccount" /\ Manager("worker")' = mem'
    BY <1>13 DEF Stage, Manager
  <2>3. OwnersAt("DeleteAccount", faults', disk', mem')
    BY <1>13, SettledAt
  <2>4. Owners("DeleteAccount", f)'
    BY <2>2, <2>3 DEF Owners
  <2>5. QED
    BY <1>9, <1>13, <2>1, <2>4
<1>14. CASE Online
  <2>1. Alone("worker") /\ At("worker", "LoadKey", Installing)'
    BY <1>1, <1>14, Begins DEF Online
  <2>2. UNCHANGED <<disk, mem, local>> /\ mem = None /\ Idle("worker")
    BY <1>14 DEF Online
  <2>3. l = "end" /\ e = <<>>
    BY <1>1, <1>8, <2>2, IdleAt
  <2>4. local["worker"] = NoManager
    BY <1>8, <2>3 DEF Prepared
  <2>5. Prepared("worker", "LoadKey", Installing)'
    BY <2>2, <2>4, NoManagerIs, EndsApart DEF Prepared, Nameless
  <2>6. OwnersAt("off", faults, disk, Manager("worker"))
    BY <1>8, <2>2, <2>3, EndsApart, StageIs DEF Owners
  <2>7. Match(disk)
    BY <2>6 DEF OwnersAt
  <2>8. OwnersAt("LoadKey", faults', disk', NoManager)
    BY <2>2, <2>7, NoManagerIs DEF OwnersAt, Own
  <2>9. Stage("LoadKey", Installing)' = "LoadKey" /\ Manager("worker")' = NoManager
    BY <2>2, <2>4 DEF Stage, Manager
  <2>10. Owners("LoadKey", Installing)'
    BY <2>8, <2>9 DEF Owners
  <2>11. QED
    BY <1>9, <2>1, <2>5, <2>10
<1>15. CASE Logout
  <2>1. Alone("worker") /\ At("worker", "DeleteAccount", Dropping)'
    BY <1>1, <1>15, Begins DEF Logout
  <2>2. UNCHANGED <<disk, mem, local, faults>> /\ mem # None /\ Idle("worker")
    BY <1>15 DEF Logout, Ready, bounds
  <2>3. Settled(disk', mem')
    BY <1>10, <2>2, OwnersRun
  <2>4. QED
    BY <1>13, <2>1, <2>2, <2>3
<1>16. CASE \E p \in Peer : Encrypt(p)
  <2>1. PICK p \in Peer : Encrypt(p)
    BY <1>16
  <2>2. UNCHANGED <<disk, local, program, faults>> /\ mem # None /\ Idle("worker")
    BY <2>1 DEF Encrypt, Ready
  <2>3. /\ mem' \in Running /\ mem.sessions[p] \in Session /\ mem'.key = mem.key /\ mem'.account = mem.account
        /\ mem'.sessions[p].key = mem.sessions[p].key /\ mem'.sessions[p].owner = mem.sessions[p].owner
        /\ \A q \in Peer : q # p => mem'.sessions[q] = mem.sessions[q]
    BY <1>1, <2>1, AfterEncrypt
  <2>4. mem' # None /\ mem.sessions[p] # None
    BY <2>3, NoneApart
  <2>5. \A q \in Peer : mem'.sessions[q] # None =>
           \/ mem'.sessions[q].key = mem.key /\ mem'.sessions[q].owner = mem.account
           \/ /\ mem.sessions[q] # None
              /\ mem'.sessions[q].key = mem.sessions[q].key /\ mem'.sessions[q].owner = mem.sessions[q].owner
    BY <2>3, <2>4
  <2>6. Settled(disk', mem')
    BY <1>10, <2>2, <2>3, <2>4, <2>5, OwnersRun
  <2>7. QED
    BY <1>12, <2>2, <2>4, <2>6
<1>17. CASE \E p \in Peer : Receive(p)
  <2>1. PICK p \in Peer : Receive(p)
    BY <1>17
  <2>2. UNCHANGED <<disk, local, faults>> /\ mem # None /\ Idle("worker") /\ (StartChain(p) \/ KeepChain(p))
    BY <2>1 DEF Receive, Ready
  <2>3. Alone("worker") /\ At("worker", "DeleteAccount", <<>>)'
    BY <1>1, <2>1, Begins DEF Receive
  <2>4. /\ mem' # None /\ mem'.key = mem.key /\ mem'.account = mem.account
        /\ \A q \in Peer : mem'.sessions[q] # None =>
             \/ mem'.sessions[q].key = mem.key /\ mem'.sessions[q].owner = mem.account
             \/ /\ mem.sessions[q] # None
                /\ mem'.sessions[q].key = mem.sessions[q].key /\ mem'.sessions[q].owner = mem.sessions[q].owner
    <3>1. CASE StartChain(p)
      <4>1. /\ mem' \in Running /\ mem'.key = mem.key /\ mem'.account = mem.account
            /\ mem'.sessions[p].key = mem.key /\ mem'.sessions[p].owner = mem.account
            /\ \A q \in Peer : q # p => mem'.sessions[q] = mem.sessions[q]
        BY <1>1, <2>2, <3>1, AfterStartChain
      <4>2. mem' # None
        BY <4>1, NoneApart
      <4>3. QED
        BY <4>1, <4>2
    <3>2. CASE KeepChain(p)
      BY <2>2, <3>2 DEF KeepChain
    <3>3. QED
      BY <2>2, <3>1, <3>2
  <2>5. Settled(disk', mem')
    BY <1>10, <2>2, <2>4, OwnersRun
  <2>6. QED
    BY <1>13, <2>2, <2>3, <2>4, <2>5
<1>18. CASE \E D \in SUBSET Device : UpdateDeviceList(D)
  <2>1. PICK D \in SUBSET Device : UpdateDeviceList(D)
    BY <1>18
  <2>2. UNCHANGED <<disk, local, program, faults>> /\ mem # None /\ Idle("worker") /\ mem' = [mem EXCEPT !.devices = @ \cup D]
    BY <2>1 DEF UpdateDeviceList, Ready, bounds
  <2>3. mem' \in Running /\ mem'.key = mem.key /\ mem'.account = mem.account /\ mem'.sessions = mem.sessions
    <3>1. mem \in Running
      BY <1>1, <2>2 DEF VarsOK, Maybe
    <3>2. QED
      BY <2>2, <3>1 DEF Running
  <2>4. mem' # None
    BY <2>3, NoneApart
  <2>5. Settled(disk', mem')
    BY <1>10, <2>2, <2>3, <2>4, OwnersRun
  <2>6. QED
    BY <1>12, <2>2, <2>4, <2>5
<1>19. CASE Quit
  <2>1. mem' = None /\ local' = [t \in Thread |-> NoManager] /\ program' = [t \in Thread |-> <<>>] /\ UNCHANGED disk
        /\ mem # None /\ Idle("worker")
    BY <1>19 DEF Quit, End
  <2>2. OwnersAt("run", faults, disk, mem)
    BY <1>10, <2>1, EndsApart, StageIs, ManagerIs DEF Owners
  <2>3. Match(disk)
    BY <2>2 DEF OwnersAt
  <2>4. QED
    BY <1>11, <2>1, <2>3
<1>20. CASE Crash
  <2>1. mem' = None /\ local' = [t \in Thread |-> NoManager] /\ program' = [t \in Thread |-> <<>>] /\ UNCHANGED disk
    BY <1>20 DEF Crash, End
  <2>2. OwnersAt(Stage(l, e), 0, disk, Manager("worker"))
    BY <1>4, <1>8, <1>20 DEF Owners
  <2>3. l \in LoadPlace \cup SavePlace \cup {"end"}
    BY <1>1, <1>8, AtLoad
  <2>4. Stage(l, e) \in LoadPlace \cup SavePlace \cup {"install", "run", "off"}
    BY <2>3 DEF Stage
  <2>5. Match(disk)
    BY <2>2, <2>4, OwnersMatch
  <2>6. QED
    BY <1>11, <2>1, <2>5
<1>21. CASE \E t \in Thread : Step(t)
  <2>1. Step("worker")
    BY <1>1, <1>7, <1>21 DEF Step
  <2>2. Alone("worker") /\ \E m, f : At("worker", m, f)' /\ Goes("worker", l, e, m, f)
    BY <1>1, <1>8, <2>1, StepGoes
  <2>3. PICK m, f : At("worker", m, f)' /\ Goes("worker", l, e, m, f)
    BY <2>2
  <2>4. Typed("worker", m, f)
    BY <1>1, <1>8, <2>3, GoesTyped
  <2>5. UNCHANGED faults
    BY <2>1 DEF Step, bounds
  <2>6. Owners(m, f)'
    BY <1>6, <1>8, <2>3, <2>5, OwnersGoes
  <2>7. QED
    BY <1>9, <2>2, <2>3, <2>4, <2>6 DEF Typed
<1>22. CASE \E t \in Thread : Error(t)
  <2>1. Error("worker")
    BY <1>1, <1>7, <1>22 DEF Error
  <2>2. Alone("worker") /\ \E m : At("worker", m, e)' /\ Falls("worker", l, e, m)
    BY <1>1, <1>8, <2>1, ErrorFalls
  <2>3. PICK m : At("worker", m, e)' /\ Falls("worker", l, e, m)
    BY <2>2
  <2>4. Typed("worker", m, e)
    BY <1>1, <1>8, <2>3, FallsTyped
  <2>5. faults = 0 /\ faults' # 0
    BY <1>4, <1>22
  <2>6. Owners(m, e)'
    BY <1>8, <2>3, <2>5, OwnersFalls
  <2>7. QED
    BY <1>9, <2>2, <2>3, <2>4, <2>6 DEF Typed
<1>23. CASE UNCHANGED vars
  <2>1. UNCHANGED <<disk, mem, local, program, faults>>
    BY <1>23 DEF vars, bounds
  <2>2. At("worker", l, e)' /\ Prepared("worker", l, e)' /\ Owners(l, e)'
    BY <1>8, <2>1 DEF At, Prepared, Owners, Stage, Manager
  <2>3. QED
    BY <1>9, <2>1, <2>2
<1>24. QED
  BY <1>3, <1>14, <1>15, <1>16, <1>17, <1>18, <1>19, <1>20, <1>21, <1>22, <1>23 DEF Next

\* At first there are none.
LEMMA OwnersInit == ASSUME Init PROVE OwnersInv
<1>1. disk = NoManager /\ mem = None /\ local = [t \in Thread |-> NoManager] /\ program = [t \in Thread |-> <<>>]
      /\ "worker" \in Thread /\ "qr" \in Thread
  BY DEF Init, Thread
<1>2. At("worker", "end", <<>>) /\ Prepared("worker", "end", <<>>) /\ Idle("qr")
  BY <1>1, EndsApart, PlaceNames DEF At, Ends, Prepared, LoadPlace, SavePlace, Idle
<1>3. Stage("end", <<>>) = "off" /\ Manager("worker") = NoManager
  BY <1>1, EndsApart DEF Stage, Manager
<1>4. OwnersAt("off", faults, disk, NoManager)
  BY <1>1, NoManagerIs, PlaceNames DEF OwnersAt, Own, Match, Nameless
<1>5. Owners("end", <<>>)
  BY <1>3, <1>4 DEF Owners
<1>6. QED
  BY <1>2, <1>5 DEF OwnersInv

\* SessionsOfIdentity, as long as there is at most one fault: whichever
\* statement fails, or wherever in a load or a save the program ends, the
\* manager never holds sessions made for another account.
THEOREM OwnersCorrect == Spec => [](faults <= 1 => SessionsOfIdentity)
<1>1. Init => TypeOK /\ KeptInv /\ OwnersInv
  BY InitTyped, KeptInit, OwnersInit
<1>2. TypeOK /\ KeptInv /\ OwnersInv /\ [Next]_vars => (TypeOK /\ KeptInv /\ OwnersInv)'
  BY NextTyped, KeptNext, OwnersNext
<1>3. OwnersInv => (faults <= 1 => SessionsOfIdentity)
  <2> SUFFICES ASSUME OwnersInv, faults <= 1, qrs = 0, mem # None
               PROVE  \A p \in Peer : mem.sessions[p] # None => mem.sessions[p].owner = mem.account
    BY DEF SessionsOfIdentity
  <2>1. PICK l, e : Owners(l, e)
    BY DEF OwnersInv
  <2>2. Own(mem)
    BY <2>1 DEF Owners, OwnersAt, Manager
  <2>3. QED
    BY <2>2 DEF Own
<1>4. QED
  BY <1>1, <1>2, <1>3, PTL DEF Spec
=============================================================================
