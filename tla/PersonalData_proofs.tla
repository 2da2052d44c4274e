-------------------------- MODULE PersonalData_proofs --------------------------
(***************************************************************************)
(* The accounts and the filters, as they are in the composition, for any   *)
(* kinds, configurations and scripts, any number of starts, saves and      *)
(* keyring faults, and any number of tasks, changes and faults: every row  *)
(* has its password, saved settings are those in use, and what an          *)
(* undisturbed task leaves is what the server has.                         *)
(***************************************************************************)
EXTENDS PersonalData, SequenceTheorems, TLAPS

-----------------------------------------------------------------------------
\* The accounts

Row == [id : Nat, config : Config]

\* An id is the primary key of its table.
Keyed(table) == \A i, j \in DOMAIN table : table[i].id = table[j].id => i = j

TablesOK ==
  /\ accountRows \in [Accounts!Kind -> Seq(Row)] /\ \A k \in Accounts!Kind : Keyed(accountRows[k])
  /\ secrets \in [Accounts!Kind -> SUBSET Nat]
  /\ ids \in Nat /\ keyringFaults \in Nat /\ migrations \in Nat

FormsOK ==
  /\ legacy \in Config \cup {None}
  /\ account \in [Accounts!Kind -> Row \cup {None}]
  /\ form \in [Accounts!Kind -> [id : Nat \cup {None}, fields : Config \cup {None}]]

SecretsInv == TablesOK /\ FormsOK /\ Accounts!SecretsOfRows

-----------------------------------------------------------------------------
\* Tables

\* Without takes out the row of the id, and leaves all others.
LEMMA WithoutRow ==
  ASSUME NEW t \in Seq(Row), Keyed(t), NEW id
  PROVE  /\ Accounts!Without(t, id) \in Seq(Row) /\ Keyed(Accounts!Without(t, id))
         /\ Accounts!IdsIn(Accounts!Without(t, id)) = Accounts!IdsIn(t) \ {id}
         /\ Len(Accounts!Without(t, id)) = IF id \in Accounts!IdsIn(t) THEN Len(t) - 1 ELSE Len(t)
<1>1. CASE id \notin Accounts!IdsIn(t)
  BY <1>1 DEF Accounts!Without
<1>2. CASE id \in Accounts!IdsIn(t)
  <2> DEFINE n == CHOOSE i \in DOMAIN t : t[i].id = id
             w == Accounts!Without(t, id)
  <2>1. n \in 1 .. Len(t) /\ t[n].id = id /\ Len(t) \in Nat
    BY <1>2, LenProperties DEF Accounts!IdsIn
  <2> DEFINE before == SubSeq(t, 1, n - 1)
             after  == SubSeq(t, n + 1, Len(t))
  <2>2. w = before \o after
    BY <1>2 DEF Accounts!Without, Accounts!RemoveAt
  <2> HIDE DEF n, w
  <2>3. /\ before \in Seq(Row) /\ Len(before) = n - 1
        /\ \A i \in 1 .. n - 1 : before[i] = t[i]
    <3>1. \A i \in 1 .. n - 1 : t[i] \in Row
      BY <2>1, ElementOfSeq
    <3> QED
      BY <2>1, <3>1, SubSeqProperties
  <2>4. /\ after \in Seq(Row) /\ Len(after) = Len(t) - n
        /\ \A i \in 1 .. Len(t) - n : after[i] = t[n + i]
    <3>1. \A i \in n + 1 .. Len(t) : t[i] \in Row
      BY <2>1, ElementOfSeq
    <3>2. /\ after \in Seq(Row)
          /\ Len(after) = IF n + 1 <= Len(t) THEN Len(t) - (n + 1) + 1 ELSE 0
          /\ \A i \in 1 .. Len(t) - (n + 1) + 1 : after[i] = t[(n + 1) + i - 1]
      BY <2>1, <3>1, SubSeqProperties
    <3> HIDE DEF after
    <3>3. Len(t) - (n + 1) + 1 = Len(t) - n
      BY <2>1
    <3>4. \A i \in 1 .. Len(t) - n : (n + 1) + i - 1 = n + i
      BY <2>1
    <3>5. \A i \in 1 .. Len(t) - n : after[i] = t[n + i]
      BY <3>2, <3>3, <3>4
    <3>6. Len(after) = IF n + 1 <= Len(t) THEN Len(t) - n ELSE 0
      BY <3>2, <3>3
    <3>7. Len(after) = Len(t) - n
      BY <2>1, <3>6
    <3> QED
      BY <3>2, <3>5, <3>7
  <2> HIDE DEF before, after
  <2>5. /\ w \in Seq(Row) /\ Len(w) = Len(t) - 1 /\ DOMAIN w = 1 .. Len(t) - 1
        /\ \A i \in 1 .. Len(before) + Len(after) :
             w[i] = IF i <= Len(before) THEN before[i] ELSE after[i - Len(before)]
    <3>1. /\ w \in Seq(Row) /\ Len(w) = Len(before) + Len(after)
          /\ \A i \in 1 .. Len(before) + Len(after) :
               w[i] = IF i <= Len(before) THEN before[i] ELSE after[i - Len(before)]
      BY <2>2, <2>3, <2>4, ConcatProperties
    <3>2. Len(w) = Len(t) - 1
      BY <2>1, <2>3, <2>4, <3>1
    <3> QED
      BY <3>1, <3>2, LenProperties
  <2>6. \A i \in DOMAIN w : w[i] = IF i < n THEN t[i] ELSE t[i + 1]
    <3> SUFFICES ASSUME NEW i \in DOMAIN w PROVE w[i] = IF i < n THEN t[i] ELSE t[i + 1]
      OBVIOUS
    <3>1. i \in 1 .. Len(t) - 1 /\ i \in 1 .. Len(before) + Len(after) /\ Len(before) = n - 1
      BY <2>1, <2>3, <2>4, <2>5
    <3>2. CASE i < n
      <4>1. i <= Len(before) /\ i \in 1 .. n - 1
        BY <2>1, <3>1, <3>2
      <4>2. w[i] = before[i]
        BY <2>5, <3>1, <4>1
      <4>3. before[i] = t[i]
        BY <2>3, <4>1
      <4> QED
        BY <3>2, <4>2, <4>3
    <3>3. CASE ~(i < n)
      <4>1. /\ i - Len(before) \in 1 .. Len(t) - n /\ n + (i - Len(before)) = i + 1
            /\ ~(i <= Len(before))
        BY <2>1, <3>1, <3>3
      <4> QED
        BY <2>4, <2>5, <3>1, <3>3, <4>1
    <3> QED
      BY <3>2, <3>3
  <2>7. DOMAIN t = 1 .. Len(t)
    BY LenProperties
  <2>8. Keyed(w)
    BY <2>1, <2>5, <2>6, <2>7 DEF Keyed
  <2>9. Accounts!IdsIn(w) \subseteq Accounts!IdsIn(t) \ {id}
    <3> SUFFICES ASSUME NEW i \in DOMAIN w PROVE w[i].id \in Accounts!IdsIn(t) /\ w[i].id # id
      BY DEF Accounts!IdsIn
    <3>1. PICK j \in DOMAIN t : w[i] = t[j] /\ j # n
      BY <2>1, <2>5, <2>6, <2>7
    <3> QED
      BY <2>1, <2>7, <3>1 DEF Accounts!IdsIn, Keyed
  <2>10. Accounts!IdsIn(t) \ {id} \subseteq Accounts!IdsIn(w)
    <3> SUFFICES ASSUME NEW j \in DOMAIN t, t[j].id # id PROVE \E i \in DOMAIN w : w[i] = t[j]
      BY DEF Accounts!IdsIn
    <3>1. j < n \/ j > n
      BY <2>1, <2>7
    <3>2. CASE j < n
      BY <2>1, <2>5, <2>6, <2>7, <3>2
    <3>3. CASE j > n
      <4>1. j - 1 \in DOMAIN w /\ ~(j - 1 < n) /\ (j - 1) + 1 = j
        BY <2>1, <2>5, <2>7, <3>3
      <4> QED
        BY <2>6, <4>1
    <3> QED
      BY <3>1, <3>2, <3>3
  <2> QED
    BY <1>2, <2>5, <2>8, <2>9, <2>10 DEF w
<1> QED
  BY <1>1, <1>2

\* replace_into makes the row the last of its table, and the only one of its id.
LEMMA ReplacedRow ==
  ASSUME NEW t \in Seq(Row), Keyed(t), NEW a \in Row
  PROVE  LET r == Append(Accounts!Without(t, a.id), a)
         IN  /\ r \in Seq(Row) /\ Keyed(r)
             /\ Accounts!IdsIn(r) = Accounts!IdsIn(t) \cup {a.id}
             /\ Len(r) <= 1 => r = <<a>>
<1> DEFINE w == Accounts!Without(t, a.id)
           r == Append(w, a)
<1>1. w \in Seq(Row) /\ Keyed(w) /\ Accounts!IdsIn(w) = Accounts!IdsIn(t) \ {a.id}
  BY WithoutRow
<1> HIDE DEF w
<1>2. /\ r \in Seq(Row) /\ Len(r) = Len(w) + 1 /\ DOMAIN r = 1 .. Len(w) + 1
      /\ \A i \in 1 .. Len(w) : r[i] = w[i]
      /\ r[Len(w) + 1] = a
  BY <1>1, AppendProperties, LenProperties
<1>3. DOMAIN w = 1 .. Len(w) /\ Len(w) \in Nat
  BY <1>1, LenProperties
<1> HIDE DEF r
<1>4. \A i \in 1 .. Len(w) : w[i].id # a.id
  BY <1>1, <1>3 DEF Accounts!IdsIn
<1>5. Keyed(r)
  BY <1>1, <1>2, <1>3, <1>4 DEF Keyed
<1>6. Accounts!IdsIn(r) = Accounts!IdsIn(w) \cup {a.id}
  <2>1. Accounts!IdsIn(r) \subseteq Accounts!IdsIn(w) \cup {a.id}
    BY <1>2, <1>3 DEF Accounts!IdsIn
  <2>2. Accounts!IdsIn(w) \subseteq Accounts!IdsIn(r)
    BY <1>2, <1>3 DEF Accounts!IdsIn
  <2>3. a.id \in Accounts!IdsIn(r)
    BY <1>2, <1>3 DEF Accounts!IdsIn
  <2> QED
    BY <2>1, <2>2, <2>3
<1>7. Accounts!IdsIn(r) = Accounts!IdsIn(t) \cup {a.id}
  BY <1>1, <1>6
<1>8. ASSUME Len(r) <= 1 PROVE r = <<a>>
  <2>1. Len(w) = 0
    BY <1>2, <1>3, <1>8
  <2>2. w = <<>>
    BY <1>1, <2>1, EmptySeq
  <2> QED
    BY <1>1, <2>2, AppendProperties DEF r
<1> QED
  BY <1>2, <1>5, <1>7, <1>8 DEF r, w

-----------------------------------------------------------------------------
\* A table and its passwords

\* The passwords that starts without tables left with those of a kind.
LeftOf(k) == IF k = Head(Kinds) THEN left ELSE {}

\* What a row and a password are changed to is a table again, with the passwords
\* it needs; and if the keyring worked, with no others that it did not have.
Stored(k, t, ok) ==
  /\ t.rows \in Seq(Row) /\ Keyed(t.rows) /\ t.secret \in SUBSET Nat
  /\ Accounts!IdsIn(accountRows[k]) \subseteq secrets[k] =>
       Accounts!IdsIn(t.rows) \subseteq t.secret
  /\ ok => t.secret \ Accounts!IdsIn(t.rows) \subseteq secrets[k] \ Accounts!IdsIn(accountRows[k])

LEMMA SaveStores ==
  ASSUME TablesOK, NEW k \in Accounts!Kind, NEW a \in Row, NEW ok \in BOOLEAN
  PROVE  Stored(k, Accounts!SaveAccount(k, a, ok), ok)
<1>1. accountRows[k] \in Seq(Row) /\ Keyed(accountRows[k]) /\ secrets[k] \in SUBSET Nat
        /\ a.id \in Nat
  BY DEF TablesOK, Row
<1>2. CASE ok
  <2> DEFINE r == Append(Accounts!Without(accountRows[k], a.id), a)
  <2>1. r \in Seq(Row) /\ Keyed(r) /\ Accounts!IdsIn(r) = Accounts!IdsIn(accountRows[k]) \cup {a.id}
    BY <1>1, ReplacedRow
  <2>2. Accounts!SaveAccount(k, a, ok) = [rows |-> r, secret |-> secrets[k] \cup {a.id}]
    BY <1>2 DEF Accounts!SaveAccount
  <2> HIDE DEF r
  <2> QED
    BY <1>1, <2>1, <2>2 DEF Stored
<1>3. CASE ~ok
  BY <1>1, <1>3 DEF Stored, Accounts!SaveAccount
<1> QED
  BY <1>2, <1>3

LEMMA DeleteStores ==
  ASSUME TablesOK, NEW k \in Accounts!Kind, NEW a \in Row, NEW ok \in BOOLEAN
  PROVE  Stored(k, Accounts!DeleteAccount(k, a, ok), ok)
<1> DEFINE r == Accounts!Without(accountRows[k], a.id)
<1>1. accountRows[k] \in Seq(Row) /\ Keyed(accountRows[k]) /\ secrets[k] \in SUBSET Nat
  BY DEF TablesOK
<1>2. r \in Seq(Row) /\ Keyed(r) /\ Accounts!IdsIn(r) = Accounts!IdsIn(accountRows[k]) \ {a.id}
  BY <1>1, WithoutRow
<1>3. Accounts!DeleteAccount(k, a, ok) =
        [rows |-> r, secret |-> IF ok THEN secrets[k] \ {a.id} ELSE secrets[k]]
  BY DEF Accounts!DeleteAccount
<1> HIDE DEF r
<1> QED
  BY <1>1, <1>2, <1>3 DEF Stored

LEMMA UnchangedStores ==
  ASSUME TablesOK, NEW k \in Accounts!Kind, NEW ok \in BOOLEAN
  PROVE  Stored(k, Accounts!Unchanged(k), ok)
BY DEF TablesOK, Stored, Accounts!Unchanged

\* When every kind gets such a table, all have their passwords.
LEMMA StoreKeeps ==
  ASSUME TablesOK, Accounts!SecretsOfRows, NEW failing \in SUBSET Accounts!Kind, NEW table,
         \A k \in Accounts!Kind : Stored(k, table[k], k \notin failing),
         Accounts!Store(table, failing), ids' \in Nat, migrations' \in Nat, UNCHANGED left
  PROVE  TablesOK' /\ Accounts!SecretsOfRows'
<1>1. /\ accountRows' = [k \in Accounts!Kind |-> table[k].rows]
           /\ secrets' = [k \in Accounts!Kind |-> table[k].secret]
      /\ keyringFaults' \in Nat /\ (keyringFaults' = 0 => keyringFaults = 0 /\ failing = {})
  BY DEF TablesOK, Accounts!Store
<1>2. TablesOK'
  BY <1>1 DEF TablesOK, Stored
<1>3. \A k \in Accounts!Kind : Accounts!IdsIn(accountRows[k]) \subseteq secrets[k]
        /\ (keyringFaults = 0 => secrets[k] \ Accounts!IdsIn(accountRows[k]) \subseteq LeftOf(k))
  BY DEF LeftOf, Accounts!SecretsOfRows, Accounts!IdsOf
<1>4. ASSUME NEW k \in Accounts!Kind
      PROVE  Accounts!IdsIn(accountRows'[k]) \subseteq secrets'[k]
             /\ (keyringFaults' = 0 =>
                   secrets'[k] \ Accounts!IdsIn(accountRows'[k]) \subseteq LeftOf(k))
  <2>1. accountRows'[k] = table[k].rows /\ secrets'[k] = table[k].secret
          /\ Stored(k, table[k], k \notin failing)
    BY <1>1
  <2>2. Accounts!IdsIn(accountRows[k]) \subseteq secrets[k]
          /\ (keyringFaults' = 0 => k \notin failing
                /\ secrets[k] \ Accounts!IdsIn(accountRows[k]) \subseteq LeftOf(k))
    BY <1>1, <1>3
  <2> QED
    BY <2>1, <2>2 DEF Stored
<1>5. Accounts!SecretsOfRows'
  <2>1. \A k \in Accounts!Kind : Accounts!IdsOf(k)' = Accounts!IdsIn(accountRows'[k])
    BY DEF Accounts!IdsOf, Accounts!IdsIn
  <2> QED
    BY <1>4, <2>1 DEF Accounts!SecretsOfRows, LeftOf
<1> QED
  BY <1>2, <1>5

-----------------------------------------------------------------------------
\* Passwords

\* The account of an earlier version goes into the tables before the first
\* whose password the keyring refuses, and into no other.
LEMMA MigrateKeeps ==
  ASSUME SecretsInv, legacy # None, NEW failing \in SUBSET Accounts!Kind, Accounts!Migrate(failing)
  PROVE  TablesOK' /\ Accounts!SecretsOfRows'
<1> DEFINE new  == [id |-> ids + 1, config |-> legacy]
           done == {k \in Accounts!Kind : \A i \in DOMAIN Kinds : Kinds[i] \in failing =>
                      \A j \in DOMAIN Kinds : Kinds[j] = k => j < i}
           table == [k \in Accounts!Kind |-> IF k \in done
             THEN Accounts!SaveAccount(k, new, TRUE) ELSE Accounts!Unchanged(k)]
<1>1. new \in Row /\ ids' \in Nat /\ migrations' \in Nat /\ UNCHANGED left
  BY DEF SecretsInv, TablesOK, FormsOK, Row, Accounts!Migrate
<1>2. Accounts!Store(table, failing)
  BY DEF Accounts!Migrate
<1> HIDE DEF new, done
<1>3. ASSUME NEW k \in Accounts!Kind PROVE Stored(k, table[k], k \notin failing)
  <2>1. CASE k \in done
    <3>1. Stored(k, Accounts!SaveAccount(k, new, TRUE), TRUE)
      BY <1>1, SaveStores DEF SecretsInv
    <3> QED
      BY <2>1, <3>1 DEF Stored
  <2>2. CASE k \notin done
    BY <2>2, UnchangedStores DEF SecretsInv
  <2> QED
    BY <2>1, <2>2
<1> HIDE DEF table
<1> QED
  BY <1>1, <1>2, <1>3, StoreKeeps DEF SecretsInv

\* Before there are tables, a password is stored that no row gets, and is left.
LEMMA MigrateEarlyKeeps ==
  ASSUME SecretsInv, NEW failing \in SUBSET Accounts!Kind,
         Accounts!MigrateWithoutTables(failing)
  PROVE  TablesOK' /\ Accounts!SecretsOfRows'
<1> DEFINE new == IF Head(Kinds) \in failing THEN {} ELSE {ids + 1}
           table == [k \in Accounts!Kind |-> [rows |-> accountRows[k], secret |->
             IF k = Head(Kinds) THEN secrets[k] \cup new ELSE secrets[k]]]
<1>1. /\ Accounts!Store(table, failing) /\ ids' = ids + 1 /\ left' = left \cup new
      /\ UNCHANGED migrations
  BY DEF Accounts!MigrateWithoutTables
<1>2. new \subseteq Nat
  BY DEF SecretsInv, TablesOK
<1> HIDE DEF new
<1>3. /\ accountRows' = accountRows
      /\ secrets' = [k \in Accounts!Kind |->
           IF k = Head(Kinds) THEN secrets[k] \cup new ELSE secrets[k]]
      /\ keyringFaults' \in Nat /\ (keyringFaults' = 0 => keyringFaults = 0)
  BY <1>1 DEF SecretsInv, TablesOK, Accounts!Store
<1>4. TablesOK'
  <2>1. secrets' \in [Accounts!Kind -> SUBSET Nat]
    BY <1>2, <1>3 DEF SecretsInv, TablesOK
  <2> QED
    BY <1>1, <1>3, <2>1 DEF SecretsInv, TablesOK
<1>5. ASSUME NEW k \in Accounts!Kind
      PROVE  Accounts!IdsIn(accountRows'[k]) \subseteq secrets'[k]
             /\ (keyringFaults' = 0 =>
                   secrets'[k] \ Accounts!IdsIn(accountRows'[k]) \subseteq LeftOf(k)')
  BY <1>1, <1>3 DEF SecretsInv, Accounts!SecretsOfRows, Accounts!IdsOf, LeftOf
<1> QED
  BY <1>4, <1>5 DEF Accounts!SecretsOfRows, Accounts!IdsOf, Accounts!IdsIn, LeftOf

\* load_personal_data_accounts takes accounts out of tables.
LEMMA LoadKeeps ==
  ASSUME TablesOK', Accounts!LoadAccounts
  PROVE  /\ account' \in [Accounts!Kind -> Row \cup {None}]
         /\ form' \in [Accounts!Kind -> [id : Nat \cup {None}, fields : Config \cup {None}]]
<1> DEFINE first == [k \in Accounts!Kind |-> IF accountRows'[k] = <<>>
                    THEN None ELSE Head(accountRows'[k])]
<1>1. ASSUME NEW k \in Accounts!Kind PROVE first[k] \in Row \cup {None}
  <2>1. accountRows'[k] \in Seq(Row)
    BY DEF TablesOK
  <2> QED
    BY <2>1, HeadTailProperties
<1>2. account' = first /\ form' = [k \in Accounts!Kind |-> Accounts!FormOf(first[k])]
  BY DEF Accounts!LoadAccounts
<1>3. ASSUME NEW a \in Row \cup {None}
      PROVE  Accounts!FormOf(a) \in [id : Nat \cup {None}, fields : Config \cup {None}]
  BY DEF Accounts!FormOf, Accounts!NoForm, Row
<1> HIDE DEF first
<1>4. account' \in [Accounts!Kind -> Row \cup {None}]
  BY <1>1, <1>2 DEF Accounts!LoadAccounts
<1> QED
  BY <1>1, <1>2, <1>3, <1>4

LEMMA StartKeeps ==
  ASSUME SecretsInv, NEW failing \in SUBSET Accounts!Kind, Accounts!Start(failing)
  PROVE  SecretsInv'
<1>1. TablesOK' /\ Accounts!SecretsOfRows'
  <2>1. CASE legacy # None /\ accountTables
    BY <2>1, MigrateKeeps DEF Accounts!Start
  <2>2. CASE legacy # None /\ ~accountTables
    BY <2>2, MigrateEarlyKeeps DEF Accounts!Start
  <2>3. CASE legacy = None
    <3>1. UNCHANGED <<accountRows, secrets, keyringFaults, ids, migrations, left>>
      BY <2>3 DEF Accounts!Start
    <3> QED
      BY <3>1 DEF SecretsInv, TablesOK, Accounts!SecretsOfRows, Accounts!IdsOf, Accounts!IdsIn
  <2> QED
    BY <2>1, <2>2, <2>3
<1>2. FormsOK'
  BY <1>1, LoadKeeps DEF Accounts!Start, SecretsInv, FormsOK
<1> QED
  BY <1>1, <1>2 DEF SecretsInv

\* to_configs: an account, or none.
LEMMA ToConfigType ==
  ASSUME FormsOK, ids \in Nat, NEW k \in Accounts!Kind
  PROVE  Accounts!ToConfig(k) \in Row \cup {None}
BY DEF FormsOK, Accounts!ToConfig, Row

LEMMA SaveKeeps ==
  ASSUME SecretsInv, NEW failing \in SUBSET Accounts!Kind, Accounts!SavePersonalDataConfig(failing)
  PROVE  SecretsInv'
<1> DEFINE new == [k \in Accounts!Kind |-> Accounts!ToConfig(k)]
           table == [k \in Accounts!Kind |->
             CASE new[k] # None     -> Accounts!SaveAccount(k, new[k], k \notin failing)
               [] new[k] = None /\ account[k] # None ->
                                       Accounts!DeleteAccount(k, account[k], k \notin failing)
               [] OTHER             -> Accounts!Unchanged(k)]
<1>1. \A k \in Accounts!Kind : new[k] \in Row \cup {None} /\ account[k] \in Row \cup {None}
  BY ToConfigType DEF SecretsInv, TablesOK, FormsOK
<1>2. /\ Accounts!Store(table, failing) /\ account' = new
      /\ ids' = ids + 1 /\ UNCHANGED <<migrations, legacy, form, left>>
  BY DEF Accounts!SavePersonalDataConfig
<1>3. new \in [Accounts!Kind -> Row \cup {None}]
  BY <1>1
<1> HIDE DEF new
<1>4. ASSUME NEW k \in Accounts!Kind PROVE Stored(k, table[k], k \notin failing)
  <2>1. CASE new[k] # None
    BY <1>1, <2>1, SaveStores DEF SecretsInv
  <2>2. CASE new[k] = None /\ account[k] # None
    BY <1>1, <2>2, DeleteStores DEF SecretsInv
  <2>3. CASE new[k] = None /\ account[k] = None
    BY <2>3, UnchangedStores DEF SecretsInv
  <2> QED
    BY <2>1, <2>2, <2>3
<1> HIDE DEF table
<1>5. ids' \in Nat /\ migrations' \in Nat
  BY <1>2 DEF SecretsInv, TablesOK
<1>6. TablesOK' /\ Accounts!SecretsOfRows'
  BY <1>2, <1>4, <1>5, StoreKeeps DEF SecretsInv
<1> QED
  BY <1>2, <1>3, <1>6 DEF SecretsInv, FormsOK

LEMMA ClearKeeps ==
  ASSUME SecretsInv, NEW failing \in SUBSET Accounts!Kind, Accounts!ClearPersonalDataConfig(failing)
  PROVE  SecretsInv'
<1> DEFINE table == [k \in Accounts!Kind |->
             IF account[k] = None THEN Accounts!Unchanged(k)
               ELSE Accounts!DeleteAccount(k, account[k], k \notin failing)]
<1>1. /\ Accounts!Store(table, failing) /\ account' = [k \in Accounts!Kind |-> None]
      /\ form' = [k \in Accounts!Kind |-> Accounts!NoForm] /\ UNCHANGED <<ids, migrations, legacy, left>>
  BY DEF Accounts!ClearPersonalDataConfig
<1>2. ASSUME NEW k \in Accounts!Kind PROVE Stored(k, table[k], k \notin failing)
  <2>1. account[k] \in Row \cup {None}
    BY DEF SecretsInv, FormsOK
  <2>2. CASE account[k] = None
    BY <2>2, UnchangedStores DEF SecretsInv
  <2>3. CASE account[k] # None
    BY <2>1, <2>3, DeleteStores DEF SecretsInv
  <2> QED
    BY <2>2, <2>3
<1> HIDE DEF table
<1>3. ids' \in Nat /\ migrations' \in Nat
  BY <1>1 DEF SecretsInv, TablesOK
<1>4. TablesOK' /\ Accounts!SecretsOfRows'
  BY <1>1, <1>2, <1>3, StoreKeeps DEF SecretsInv
<1>5. FormsOK'
  BY <1>1 DEF SecretsInv, FormsOK, Accounts!NoForm
<1> QED
  BY <1>4, <1>5 DEF SecretsInv

LEMMA SecretsNext ==
  ASSUME SecretsInv, [Accounts!Next]_(Accounts!vars)
  PROVE  SecretsInv'
<1>1. ASSUME UNCHANGED <<accountRows, secrets, ids, keyringFaults, migrations, left>>
      PROVE TablesOK' /\ Accounts!SecretsOfRows'
  BY <1>1 DEF SecretsInv, TablesOK, Accounts!SecretsOfRows, Accounts!IdsOf, Accounts!IdsIn
<1>2. CASE Accounts!Ready \/ Accounts!Connected \/ UNCHANGED Accounts!vars
  <2>1. UNCHANGED <<accountRows, secrets, ids, keyringFaults, migrations, account, form, left>>
          /\ legacy' \in {legacy, None}
    BY <1>2 DEF Accounts!Ready, Accounts!Connected, Accounts!vars, Accounts!bounds
  <2>2. FormsOK'
    BY <2>1 DEF SecretsInv, FormsOK
  <2> QED
    BY <1>1, <2>1, <2>2 DEF SecretsInv
<1>3. ASSUME NEW k \in Accounts!Kind, NEW fields \in Config \cup {None}, Accounts!Changed(k, fields)
      PROVE  SecretsInv'
  <2>1. /\ UNCHANGED <<accountRows, secrets, ids, keyringFaults, migrations, account, legacy,
                       left>>
        /\ form' = [form EXCEPT ![k].fields = fields]
    BY <1>3 DEF Accounts!Changed, Accounts!bounds
  <2>2. FormsOK'
    BY <2>1 DEF SecretsInv, FormsOK
  <2> QED
    BY <1>1, <2>1, <2>2 DEF SecretsInv
<1>4. ASSUME NEW failing \in SUBSET Accounts!Kind,
             Accounts!Start(failing) \/ Accounts!SavePersonalDataConfig(failing)
               \/ Accounts!ClearPersonalDataConfig(failing)
      PROVE  SecretsInv'
  BY <1>4, StartKeeps, SaveKeeps, ClearKeeps
<1> QED
  BY <1>2, <1>3, <1>4 DEF Accounts!Next

LEMMA SecretsInit ==
  ASSUME Accounts!Init
  PROVE  SecretsInv
<1>1. TablesOK
  BY DEF Accounts!Init, TablesOK, Keyed
<1>2. FormsOK
  BY DEF Accounts!Init, FormsOK, Accounts!NoForm
<1>3. Accounts!SecretsOfRows
  BY DEF Accounts!Init, Accounts!SecretsOfRows, Accounts!IdsOf, Accounts!IdsIn
<1> QED
  BY <1>1, <1>2, <1>3 DEF SecretsInv

-----------------------------------------------------------------------------
\* Settings

\* The account in use is none of the values a variable has instead of one.
NoneIsNoAccount == None \notin Row

\* A table that never had two rows is what the account in use was written to, or
\* read from.
RowsInUse ==
  keyringFaults = 0 => \A k \in Accounts!Kind \ doubled :
                  accountRows[k] = IF account[k] = None THEN <<>> ELSE <<account[k]>>

\* IntendedInUse says nothing of the rows the next start will read, nor of what
\* there is to migrate: this is its inductive form.
UseInv ==
  /\ RowsInUse
  /\ legacy # None => legacy = earlier
  /\ Accounts!IntendedInUse

\* If the keyring worked, the rows of a table that still has only one are those
\* that were stored.
LEMMA StoreRows ==
  ASSUME TablesOK, NEW failing \in SUBSET Accounts!Kind, NEW table, Accounts!Store(table, failing)
  PROVE  /\ keyringFaults' = 0 => keyringFaults = 0 /\ failing = {}
         /\ \A k \in Accounts!Kind \ doubled' : /\ k \notin doubled
                                       /\ accountRows'[k] = table[k].rows
                                       /\ ~(Len(accountRows'[k]) > 1)
BY DEF TablesOK, Accounts!Store

\* A row that is saved into a table that then has no other is its only one.
LEMMA SavedRow ==
  ASSUME TablesOK, NEW k \in Accounts!Kind, NEW a \in Row,
         ~(Len(Accounts!SaveAccount(k, a, TRUE).rows) > 1)
  PROVE  Accounts!SaveAccount(k, a, TRUE).rows = <<a>>
<1> DEFINE r == Append(Accounts!Without(accountRows[k], a.id), a)
<1>1. accountRows[k] \in Seq(Row) /\ Keyed(accountRows[k])
  BY DEF TablesOK
<1>2. r \in Seq(Row) /\ (Len(r) <= 1 => r = <<a>>)
  BY <1>1, ReplacedRow
<1>3. Accounts!SaveAccount(k, a, TRUE).rows = r
  BY DEF Accounts!SaveAccount
<1> HIDE DEF r
<1>4. Len(r) \in Nat /\ ~(Len(r) > 1)
  BY <1>2, <1>3, LenProperties
<1>5. Len(r) <= 1
  BY <1>4
<1>6. r = <<a>>
  BY <1>2, <1>5
<1> QED
  BY <1>3, <1>6, Zenon

\* Deleting the only row leaves none.
LEMMA DeletedRow ==
  ASSUME TablesOK, NEW k \in Accounts!Kind, NEW a \in Row, accountRows[k] = <<a>>, NEW ok
  PROVE  Accounts!DeleteAccount(k, a, ok).rows = <<>>
<1> DEFINE r == Accounts!Without(accountRows[k], a.id)
<1>1. accountRows[k] \in Seq(Row) /\ Keyed(accountRows[k]) /\ Len(accountRows[k]) = 1
        /\ accountRows[k][1] = a
  BY DEF TablesOK
<1>2. a.id \in Accounts!IdsIn(accountRows[k])
  BY <1>1, LenProperties DEF Accounts!IdsIn
<1>3. r \in Seq(Row) /\ Len(r) = Len(accountRows[k]) - 1
  BY <1>1, <1>2, WithoutRow
<1> HIDE DEF r
<1>4. r = <<>>
  BY <1>1, <1>3, EmptySeq
<1> QED
  BY <1>4 DEF Accounts!DeleteAccount, r

\* A start: what it migrates is in use from then on, and otherwise it finds what
\* was in use.
LEMMA StartUse ==
  ASSUME NoneIsNoAccount, SecretsInv, UseInv, NEW failing \in SUBSET Accounts!Kind,
         Accounts!Start(failing)
  PROVE  UseInv'
<1>1. UNCHANGED <<legacy, earlier>> /\ Accounts!LoadAccounts
  BY DEF Accounts!Start
<1>2. \A k \in Accounts!Kind : account'[k] = IF accountRows'[k] = <<>>
        THEN None ELSE Head(accountRows'[k])
  BY <1>1 DEF Accounts!LoadAccounts
<1>3. CASE legacy # None /\ accountTables
  <2> DEFINE new  == [id |-> ids + 1, config |-> legacy]
             done == {k \in Accounts!Kind : \A i \in DOMAIN Kinds : Kinds[i] \in failing =>
                        \A j \in DOMAIN Kinds : Kinds[j] = k => j < i}
             table == [k \in Accounts!Kind |-> IF k \in done
               THEN Accounts!SaveAccount(k, new, TRUE) ELSE Accounts!Unchanged(k)]
  <2>1. /\ Accounts!Store(table, failing) /\ migrations' = migrations + 1 /\ migrations \in Nat
        /\ intended' = IF migrations = 0 THEN [k \in Accounts!Kind |-> legacy] ELSE intended
    BY <1>3 DEF Accounts!Start, Accounts!Migrate, SecretsInv, TablesOK
  <2>2. new \in Row /\ new.config = legacy
    BY <1>3 DEF SecretsInv, TablesOK, FormsOK, Row
  <2>3. failing = {} => \A k \in Accounts!Kind : table[k] = Accounts!SaveAccount(k, new, TRUE)
    OBVIOUS
  <2> HIDE DEF new, table
  <2>4. ASSUME keyringFaults' = 0, NEW k \in Accounts!Kind \ doubled'
        PROVE  accountRows'[k] = <<new>> /\ account'[k] = new /\ new # None
    <3>1. failing = {} /\ accountRows'[k] = table[k].rows /\ ~(Len(accountRows'[k]) > 1)
      BY <2>1, <2>4, StoreRows DEF SecretsInv
    <3>2. accountRows'[k] = <<new>>
      BY <2>2, <2>3, <3>1, SavedRow DEF SecretsInv
    <3> QED
      BY <1>2, <2>2, <3>2 DEF NoneIsNoAccount
  <2>5. RowsInUse'
    BY <2>4 DEF RowsInUse
  <2>6. earlier # None
    BY <1>3 DEF UseInv
  <2>7. Accounts!IntendedInUse'
    BY <1>1, <2>1, <2>2, <2>4, <2>6 DEF Accounts!IntendedInUse
  <2> QED
    BY <1>1, <2>5, <2>7 DEF UseInv
<1>4. CASE ~(legacy # None /\ accountTables)
  <2>1. /\ UNCHANGED <<accountRows, migrations, intended>>
        /\ keyringFaults' = 0 => keyringFaults = 0
        /\ doubled \subseteq doubled'
    <3>1. CASE legacy = None
      BY <1>4, <3>1 DEF Accounts!Start
    <3>2. CASE legacy # None
      BY <1>4, <3>2 DEF Accounts!Start, Accounts!MigrateWithoutTables, Accounts!Store, SecretsInv,
         TablesOK
    <3> QED
      BY <3>1, <3>2
  <2>2. ASSUME keyringFaults = 0, NEW k \in Accounts!Kind \ doubled PROVE account'[k] = account[k]
    <3>1. accountRows'[k] = IF account[k] = None THEN <<>> ELSE <<account[k]>>
      BY <2>1, <2>2 DEF UseInv, RowsInUse
    <3> QED
      BY <1>2, <3>1
  <2>3. RowsInUse'
    BY <2>1, <2>2 DEF UseInv, RowsInUse
  <2>4. Accounts!IntendedInUse'
    BY <1>1, <2>1, <2>2 DEF UseInv, Accounts!IntendedInUse
  <2> QED
    BY <1>1, <2>3, <2>4 DEF UseInv
<1> QED
  BY <1>3, <1>4

\* Saving the form: an account takes the place of the one in use, and an empty
\* form removes that one.
LEMMA SaveUse ==
  ASSUME NoneIsNoAccount, SecretsInv, UseInv, NEW failing \in SUBSET Accounts!Kind,
         Accounts!SavePersonalDataConfig(failing)
  PROVE  UseInv'
<1> DEFINE new == [k \in Accounts!Kind |-> Accounts!ToConfig(k)]
           table == [k \in Accounts!Kind |->
             CASE new[k] # None     -> Accounts!SaveAccount(k, new[k], k \notin failing)
               [] new[k] = None /\ account[k] # None ->
                                       Accounts!DeleteAccount(k, account[k], k \notin failing)
               [] OTHER             -> Accounts!Unchanged(k)]
<1>1. /\ Accounts!Store(table, failing) /\ account' = new
           /\ intended' = [k \in Accounts!Kind |-> form[k].fields]
      /\ UNCHANGED <<migrations, legacy, earlier>>
  BY DEF Accounts!SavePersonalDataConfig
<1>2. \A k \in Accounts!Kind : new[k] \in Row \cup {None} /\ account[k] \in Row \cup {None}
  BY ToConfigType DEF SecretsInv, TablesOK, FormsOK
<1>3. \A k \in Accounts!Kind : form[k].fields = IF new[k] = None THEN None ELSE new[k].config
  <2> SUFFICES ASSUME NEW k \in Accounts!Kind
               PROVE  form[k].fields = IF Accounts!ToConfig(k) = None
                      THEN None ELSE Accounts!ToConfig(k).config
    OBVIOUS
  <2>1. CASE form[k].fields = None
    BY <2>1 DEF Accounts!ToConfig
  <2>2. CASE form[k].fields # None
    <3>1. Accounts!ToConfig(k) \in Row
      BY <2>2 DEF Accounts!ToConfig, SecretsInv, TablesOK, FormsOK, Row
    <3> QED
      BY <2>2, <3>1 DEF NoneIsNoAccount, Accounts!ToConfig
  <2> QED
    BY <2>1, <2>2
<1> HIDE DEF new
<1>4. /\ \A k \in Accounts!Kind : new[k] # None =>
           table[k] = Accounts!SaveAccount(k, new[k], k \notin failing)
      /\ \A k \in Accounts!Kind : new[k] = None /\ account[k] # None =>
           table[k] = Accounts!DeleteAccount(k, account[k], k \notin failing)
      /\ \A k \in Accounts!Kind : new[k] = None /\ account[k] = None =>
           table[k] = Accounts!Unchanged(k)
  OBVIOUS
<1> HIDE DEF table
<1>5. ASSUME keyringFaults' = 0, NEW k \in Accounts!Kind \ doubled'
      PROVE  accountRows'[k] = IF new[k] = None THEN <<>> ELSE <<new[k]>>
  <2>1. /\ keyringFaults = 0 /\ failing = {} /\ k \notin doubled
        /\ accountRows'[k] = table[k].rows /\ ~(Len(accountRows'[k]) > 1)
    BY <1>1, <1>5, StoreRows DEF SecretsInv
  <2>2. accountRows[k] = IF account[k] = None THEN <<>> ELSE <<account[k]>>
    BY <2>1 DEF UseInv, RowsInUse
  <2>3. CASE new[k] # None
    <3>1. table[k] = Accounts!SaveAccount(k, new[k], TRUE) /\ new[k] \in Row
      BY <1>2, <1>4, <2>1, <2>3
    <3> QED
      BY <2>1, <2>3, <3>1, SavedRow DEF SecretsInv
  <2>4. CASE new[k] = None /\ account[k] # None
    <3>1. account[k] \in Row /\ accountRows[k] = <<account[k]>>
      BY <1>2, <2>2, <2>4
    <3> QED
      BY <1>4, <2>1, <2>4, <3>1, DeletedRow DEF SecretsInv
  <2>5. CASE new[k] = None /\ account[k] = None
    <3>1. table[k] = Accounts!Unchanged(k) /\ accountRows[k] = <<>>
      BY <1>4, <2>2, <2>5
    <3> QED
      BY <2>1, <2>5, <3>1 DEF Accounts!Unchanged
  <2> QED
    BY <2>3, <2>4, <2>5
<1>6. RowsInUse'
  BY <1>1, <1>5 DEF RowsInUse
<1>7. Accounts!IntendedInUse'
  BY <1>1, <1>3 DEF Accounts!IntendedInUse
<1> QED
  BY <1>1, <1>6, <1>7 DEF UseInv

LEMMA ClearUse ==
  ASSUME NoneIsNoAccount, SecretsInv, UseInv, NEW failing \in SUBSET Accounts!Kind,
         Accounts!ClearPersonalDataConfig(failing)
  PROVE  UseInv'
<1> DEFINE table == [k \in Accounts!Kind |->
             IF account[k] = None THEN Accounts!Unchanged(k)
               ELSE Accounts!DeleteAccount(k, account[k], k \notin failing)]
<1>1. /\ Accounts!Store(table, failing) /\ account' = [k \in Accounts!Kind |-> None]
      /\ intended' = [k \in Accounts!Kind |-> None] /\ UNCHANGED <<migrations, legacy, earlier>>
  BY DEF Accounts!ClearPersonalDataConfig
<1>2. ASSUME keyringFaults' = 0, NEW k \in Accounts!Kind \ doubled' PROVE accountRows'[k] = <<>>
  <2>1. keyringFaults = 0 /\ k \notin doubled /\ accountRows'[k] = table[k].rows
    BY <1>1, <1>2, StoreRows DEF SecretsInv
  <2>2. accountRows[k] = IF account[k] = None THEN <<>> ELSE <<account[k]>>
    BY <2>1 DEF UseInv, RowsInUse
  <2>3. CASE account[k] = None
    BY <2>1, <2>2, <2>3 DEF Accounts!Unchanged
  <2>4. CASE account[k] # None
    <3>1. account[k] \in Row /\ accountRows[k] = <<account[k]>>
      BY <2>2, <2>4 DEF SecretsInv, FormsOK
    <3> QED
      BY <2>1, <2>4, <3>1, DeletedRow DEF SecretsInv
  <2> QED
    BY <2>3, <2>4
<1> HIDE DEF table
<1>3. RowsInUse'
  BY <1>1, <1>2 DEF RowsInUse
<1>4. Accounts!IntendedInUse'
  BY <1>1 DEF Accounts!IntendedInUse
<1> QED
  BY <1>1, <1>3, <1>4 DEF UseInv

LEMMA UseNext ==
  ASSUME NoneIsNoAccount, SecretsInv, UseInv, [Accounts!Next]_(Accounts!vars)
  PROVE  UseInv'
<1>1. ASSUME UNCHANGED <<accountRows, account, keyringFaults, migrations, earlier, intended,
             doubled>>,
             legacy' \in {legacy, None}
      PROVE  UseInv'
  BY <1>1 DEF UseInv, RowsInUse, Accounts!IntendedInUse
<1>2. CASE Accounts!Ready \/ Accounts!Connected \/ UNCHANGED Accounts!vars
  BY <1>1, <1>2 DEF Accounts!Ready, Accounts!Connected, Accounts!vars, Accounts!bounds
<1>3. ASSUME NEW k \in Accounts!Kind, NEW fields \in Config \cup {None}, Accounts!Changed(k, fields)
      PROVE  UseInv'
  BY <1>1, <1>3 DEF Accounts!Changed, Accounts!bounds
<1>4. ASSUME NEW failing \in SUBSET Accounts!Kind,
             Accounts!Start(failing) \/ Accounts!SavePersonalDataConfig(failing)
               \/ Accounts!ClearPersonalDataConfig(failing)
      PROVE  UseInv'
  BY <1>4, StartUse, SaveUse, ClearUse
<1> QED
  BY <1>2, <1>3, <1>4 DEF Accounts!Next

LEMMA UseInit ==
  ASSUME Accounts!Init
  PROVE  UseInv
BY DEF Accounts!Init, UseInv, RowsInUse, Accounts!IntendedInUse

-----------------------------------------------------------------------------
\* The filters

TaskShape(task) ==
  /\ DOMAIN task = {"op", "name", "script", "at", "todo", "active", "got"}
  /\ task.at \in {"command", "list", "get", "delete", "insert", "done"}
  /\ task.todo \subseteq Name /\ (task.at = "get" => task.todo # {})
  /\ task.got = [n \in Name |-> task.got[n]]

\* None, which stands for a free slot, is no task.
NoneIsNoTask == \A task : TaskShape(task) => task # None

ShapesOK ==
  /\ DOMAIN filterTasks = Slot
  /\ \A t \in Filters!Running : TaskShape(filterTasks[t])
  /\ filterSelected # None => DOMAIN filterSelected = {"name", "filter"}
       /\ filterSelected.name \in Name
  /\ filterFresh \in BOOLEAN /\ filterAlone \in BOOLEAN

\* What a task has got is what the server has, of all it has asked for.
UpToDate(task) ==
  /\ task.at \in {"command", "list"} => task.got = Filters!NoFilters
  /\ task.at = "get" =>
       /\ task.active = active
       /\ \A n \in Name : task.got[n] = IF n \in task.todo THEN None ELSE Filters!AtServer(n)
  /\ task.at \in {"delete", "insert", "done"} => \A n \in Name : task.got[n] = Filters!AtServer(n)

\* A task that is alone has it to itself: the table, too.
Alone(t) ==
  /\ Filters!Running = {t}
  /\ UpToDate(filterTasks[t])
  /\ filterTasks[t].at = "insert" => filterRows = Filters!NoFilters
  /\ filterTasks[t].at = "done" => \A n \in Name : filterRows[n] = Filters!AtServer(n)

\* A task has deleted the rows, and has not delivered.
Saving == \E t \in Filters!Running : filterTasks[t].at \in {"insert", "done"}

Agree ==
  /\ \A n \in Name : filters[n] = Filters!AtServer(n) /\ filterRows[n] = Filters!AtServer(n)
  /\ filterSelected # None => filterSelected.filter = Filters!AtServer(filterSelected.name)

\* FiltersAsStored speaks of moments in which no task runs: this is its inductive
\* form.  Once a task has touched the table, what was fresh is to be fresh again
\* when it delivers, if nothing disturbs it until then.
FilterInv ==
  /\ ShapesOK
  /\ filterAlone => \A t \in Filters!Running : Alone(t)
  /\ filterFresh /\ ~Saving => Agree

-----------------------------------------------------------------------------

\* What a task becomes is where it was, and the others stay.
LEMMA BecomesTask ==
  ASSUME NoneIsNoTask, ShapesOK, NEW t \in Filters!Running, NEW new, Filters!Becomes(t, new),
         new = None \/ TaskShape(new)
  PROVE  /\ DOMAIN filterTasks' = Slot
         /\ filterTasks'[t] = new
         /\ Filters!Running' = IF new = None THEN Filters!Running \ {t} ELSE Filters!Running
         /\ \A u \in Filters!Running \ {t} : filterTasks'[u] = filterTasks[u]
         /\ \A u \in Filters!Running' : TaskShape(filterTasks'[u])
BY DEF NoneIsNoTask, ShapesOK, Filters!Running, Filters!Becomes

\* What the server has is the same while the server is.
LEMMA SameServer ==
  ASSUME UNCHANGED Filters!server, NEW n
  PROVE  Filters!AtServer(n)' = Filters!AtServer(n)
BY DEF Filters!server, Filters!AtServer

\* A step in which a task goes on, no request of it fails, and nothing else
\* changes but the table.
LEMMA GoesOn ==
  ASSUME NoneIsNoTask, FilterInv, NEW t \in Filters!Running, NEW new, Filters!Becomes(t, new),
         new = None \/ TaskShape(new), UNCHANGED <<Filters!server, Filters!screen>>,
         filterFresh' \in BOOLEAN, filterAlone' \in BOOLEAN,
         filterFresh' /\ new # None /\ new.at \notin {"insert", "done"} =>
           filterFresh /\ filterTasks[t].at \notin {"insert", "done"} /\ filterRows' = filterRows,
         filterFresh' /\ new = None => filterFresh
           /\ filterTasks[t].at \notin {"insert", "done"} /\ filterRows' = filterRows,
         filterAlone' => filterAlone,
         Alone(t) /\ filterAlone' /\ new # None =>
           /\ UpToDate(new)
           /\ new.at = "insert" => filterRows' = Filters!NoFilters
           /\ new.at = "done" => \A n \in Name : filterRows'[n] = Filters!AtServer(n)
  PROVE  FilterInv'
<1>1. /\ DOMAIN filterTasks' = Slot
      /\ filterTasks'[t] = new
      /\ Filters!Running' = IF new = None THEN Filters!Running \ {t} ELSE Filters!Running
      /\ \A u \in Filters!Running \ {t} : filterTasks'[u] = filterTasks[u]
      /\ \A u \in Filters!Running' : TaskShape(filterTasks'[u])
  BY BecomesTask DEF FilterInv
<1>2. UNCHANGED <<active, filters, filterSelected>>
        /\ \A n \in Name : Filters!AtServer(n)' = Filters!AtServer(n)
  BY SameServer DEF Filters!server, Filters!screen
<1>3. ShapesOK'
  BY <1>1, <1>2 DEF FilterInv, ShapesOK, TaskShape
<1>4. ASSUME filterAlone', NEW u \in Filters!Running' PROVE Alone(u)'
  <2>1. Filters!Running = {t} /\ Alone(t)
    BY <1>4 DEF FilterInv, Alone
  <2>2. u = t /\ new # None /\ Filters!Running' = {t}
    BY <1>1, <2>1
  <2>3. UpToDate(filterTasks[u])'
    BY <1>1, <1>2, <1>4, <2>1, <2>2 DEF UpToDate
  <2> QED
    BY <1>1, <1>2, <1>4, <2>1, <2>2, <2>3 DEF Alone
<1>5. ASSUME filterFresh', ~Saving' PROVE Agree'
  <2>1. filterFresh /\ filterTasks[t].at \notin {"insert", "done"} /\ filterRows' = filterRows
    BY <1>1, <1>5 DEF Saving
  <2>2. ~Saving
    BY <1>1, <1>5, <2>1 DEF Saving
  <2>3. Agree
    BY <2>1, <2>2 DEF FilterInv
  <2> QED
    BY <1>2, <2>1, <2>3 DEF Agree, FilterInv, ShapesOK
<1> QED
  BY <1>3, <1>4, <1>5 DEF FilterInv

-----------------------------------------------------------------------------
\* The requests

LEMMA CommandFilters ==
  ASSUME NoneIsNoTask, FilterInv, NEW t \in Filters!Running, NEW outcome,
         Filters!Command(t, outcome),
         filterAlone' = (filterAlone /\ outcome = "ok")
  PROVE  FilterInv'
<1> DEFINE task == filterTasks[t]
           done == outcome # "error" /\ ~Filters!Refused(task)
           new == IF done /\ outcome = "ok" THEN [task EXCEPT !.at = "list"] ELSE None
<1>1. TaskShape(task) /\ task.at = "command"
  BY DEF FilterInv, ShapesOK, Filters!Command
<1>2. /\ Filters!Becomes(t, new)
      /\ filterFresh' = FALSE
      /\ UNCHANGED <<filterRows, filters, filterSelected>>
  BY DEF Filters!Command, Filters!screen
<1>3. new # None => TaskShape(new) /\ new.at = "list" /\ new.got = task.got
  BY <1>1 DEF TaskShape
<1> HIDE DEF new
<1>4. /\ DOMAIN filterTasks' = Slot
      /\ filterTasks'[t] = new
      /\ Filters!Running' = IF new = None THEN Filters!Running \ {t} ELSE Filters!Running
      /\ \A u \in Filters!Running' : TaskShape(filterTasks'[u])
  BY <1>2, <1>3, BecomesTask DEF FilterInv
<1>5. ShapesOK'
  BY <1>2, <1>4 DEF FilterInv, ShapesOK, TaskShape
<1>6. ASSUME filterAlone', NEW u \in Filters!Running' PROVE Alone(u)'
  <2>1. Filters!Running = {t} /\ task.got = Filters!NoFilters
    BY <1>1, <1>6 DEF FilterInv, Alone, UpToDate
  <2>2. u = t /\ new # None /\ Filters!Running' = {t}
    BY <1>4, <2>1
  <2>3. filterTasks'[u].at = "list" /\ filterTasks'[u].got = Filters!NoFilters
    BY <1>3, <1>4, <2>1, <2>2
  <2> QED
    BY <2>2, <2>3 DEF Alone, UpToDate, Filters!NoFilters
<1> QED
  BY <1>2, <1>5, <1>6 DEF FilterInv

LEMMA ListScriptsFilters ==
  ASSUME NoneIsNoTask, FilterInv, NEW t \in Filters!Running, NEW outcome,
         Filters!ListScripts(t, outcome),
         filterAlone' = (filterAlone /\ outcome = "ok")
  PROVE  FilterInv'
<1> DEFINE task == filterTasks[t]
           names == {n \in Name : scripts[n] # None}
           goes == [task EXCEPT !.at = IF names = {} THEN "delete" ELSE "get",
                                !.todo = names, !.active = active]
           new == IF outcome # "ok" THEN None ELSE goes
<1>1. TaskShape(task) /\ task.at = "list"
  BY DEF FilterInv, ShapesOK, Filters!ListScripts
<1>2. Filters!Becomes(t, new)
        /\ UNCHANGED <<Filters!server, filterRows, Filters!screen, filterFresh>>
  BY DEF Filters!ListScripts
<1>3. /\ TaskShape(goes) /\ goes.at = (IF names = {} THEN "delete" ELSE "get")
      /\ goes.todo = names /\ goes.active = active /\ goes.got = task.got
  BY <1>1 DEF TaskShape
<1>4. ASSUME Alone(t) PROVE UpToDate(goes)
  <2>1. \A n \in Name : goes.got[n] = None
    BY <1>1, <1>3, <1>4 DEF Alone, UpToDate, Filters!NoFilters
  <2>2. \A n \in Name \ names : Filters!AtServer(n) = None
    BY DEF Filters!AtServer
  <2> HIDE DEF goes
  <2> QED
    BY <1>3, <2>1, <2>2 DEF UpToDate
<1> HIDE DEF goes, names
<1>5. new # None => new = goes
  OBVIOUS
<1>6. new = None \/ TaskShape(new)
  BY <1>3, <1>5
<1>7. filterFresh' \in BOOLEAN /\ filterAlone' \in BOOLEAN
  BY <1>2 DEF FilterInv, ShapesOK
<1>8. Alone(t) /\ new # None => UpToDate(new) /\ new.at \notin {"insert", "done"}
  BY <1>3, <1>4, <1>5
<1> HIDE DEF new
<1> QED
  BY <1>1, <1>2, <1>6, <1>7, <1>8, GoesOn

LEMMA GetScriptFilters ==
  ASSUME NoneIsNoTask, FilterInv, NEW t \in Filters!Running, NEW outcome,
         Filters!GetScript(t, outcome),
         filterAlone' = (filterAlone /\ outcome = "ok")
  PROVE  FilterInv'
<1> DEFINE task == filterTasks[t]
           n == CHOOSE m \in task.todo : TRUE
           found == outcome = "ok" /\ scripts[n] # None /\ Filters!Extracted(scripts[n]) # None
           goes == [task EXCEPT !.todo = @ \ {n},
                      !.at = IF task.todo = {n} THEN "delete" ELSE "get",
                      !.got[n] = [script |-> Filters!Extracted(scripts[n]),
                        active |-> task.active = n]]
           new == IF ~found THEN None ELSE goes
<1>1. TaskShape(task) /\ task.at = "get"
  BY DEF FilterInv, ShapesOK, Filters!GetScript
<1>2. Filters!Becomes(t, new)
        /\ UNCHANGED <<Filters!server, filterRows, Filters!screen, filterFresh>>
  BY DEF Filters!GetScript
<1>3. n \in task.todo /\ n \in Name
  <2>1. task.todo # {} /\ task.todo \subseteq Name
    BY <1>1 DEF TaskShape
  <2> QED
    BY <2>1
<1> HIDE DEF n
<1>4. /\ TaskShape(goes) /\ goes.at = (IF task.todo = {n} THEN "delete" ELSE "get")
      /\ goes.todo = task.todo \ {n} /\ goes.active = task.active
      /\ goes.got = [task.got EXCEPT ![n] = [script |-> Filters!Extracted(scripts[n]),
           active |-> task.active = n]]
  BY <1>1, <1>3 DEF TaskShape
<1> HIDE DEF goes
<1>5. ASSUME Alone(t), found PROVE UpToDate(goes)
  <2>1. task.active = active /\ \A m \in Name : task.got[m] = IF m \in task.todo
          THEN None ELSE Filters!AtServer(m)
    BY <1>1, <1>5 DEF Alone, UpToDate
  <2>2. goes.got[n] = Filters!AtServer(n)
    BY <1>1, <1>3, <1>4, <1>5, <2>1 DEF Filters!AtServer, TaskShape
  <2>3. \A m \in Name \ {n} : goes.got[m] = task.got[m]
    BY <1>1, <1>4 DEF TaskShape
  <2>4. \A m \in Name : goes.got[m] = IF m \in goes.todo THEN None ELSE Filters!AtServer(m)
    BY <1>4, <2>1, <2>2, <2>3
  <2>5. goes.at = "delete" => goes.todo = {}
    BY <1>4
  <2> QED
    BY <1>4, <2>1, <2>4, <2>5 DEF UpToDate
<1>6. new # None => new = goes /\ found
  OBVIOUS
<1>7. new = None \/ TaskShape(new)
  BY <1>4, <1>6
<1>8. filterFresh' \in BOOLEAN /\ filterAlone' \in BOOLEAN
  BY <1>2 DEF FilterInv, ShapesOK
<1>9. Alone(t) /\ new # None => UpToDate(new) /\ new.at \notin {"insert", "done"}
  BY <1>4, <1>5, <1>6
<1> HIDE DEF new
<1> QED
  BY <1>1, <1>2, <1>7, <1>8, <1>9, GoesOn

-----------------------------------------------------------------------------
\* What a task does with what it got

LEMMA DeleteRowsFilters ==
  ASSUME NoneIsNoTask, FilterInv, NEW t \in Filters!Running, Filters!DeleteRows(t)
  PROVE  FilterInv'
<1> DEFINE task == filterTasks[t]
           new == [task EXCEPT !.at = "insert"]
<1>1. TaskShape(task) /\ task.at = "delete"
  BY DEF FilterInv, ShapesOK, Filters!DeleteRows
<1>2. Filters!Becomes(t, new) /\ filterRows' = Filters!NoFilters
        /\ UNCHANGED <<Filters!server, Filters!screen, filterFresh, filterAlone>>
  BY DEF Filters!DeleteRows, Filters!Local
<1>3. TaskShape(new) /\ new.at = "insert" /\ new.got = task.got /\ new # None
  BY <1>1 DEF TaskShape, NoneIsNoTask
<1>4. Alone(t) => UpToDate(new)
  BY <1>1, <1>3 DEF Alone, UpToDate
<1>5. filterFresh' \in BOOLEAN /\ filterAlone' \in BOOLEAN /\ filterAlone' = filterAlone
  BY <1>2 DEF FilterInv, ShapesOK
<1> HIDE DEF new
<1> QED
  BY <1>2, <1>3, <1>4, <1>5, GoesOn

LEMMA InsertRowsFilters ==
  ASSUME NoneIsNoTask, FilterInv, NEW t \in Filters!Running, Filters!InsertRows(t)
  PROVE  FilterInv'
<1> DEFINE task == filterTasks[t]
           new == [task EXCEPT !.at = "done"]
<1>1. TaskShape(task) /\ task.at = "insert"
  BY DEF FilterInv, ShapesOK, Filters!InsertRows
<1>2. Filters!Becomes(t, new)
        /\ UNCHANGED <<Filters!server, Filters!screen, filterFresh, filterAlone>>
  BY DEF Filters!InsertRows, Filters!Local
<1>3. TaskShape(new) /\ new.at = "done" /\ new.got = task.got /\ new # None
  BY <1>1 DEF TaskShape, NoneIsNoTask
<1>4. ASSUME Alone(t) PROVE UpToDate(new) /\ \A n \in Name : filterRows'[n] = Filters!AtServer(n)
  <2>1. filterRows = Filters!NoFilters /\ \A n \in Name : task.got[n] = Filters!AtServer(n)
    BY <1>1, <1>4 DEF Alone, UpToDate
  <2>2. filterRows' = [n \in Name |-> IF task.got[n] # None THEN task.got[n] ELSE filterRows[n]]
    BY <2>1 DEF Filters!InsertRows, Filters!NoFilters
  <2>3. \A n \in Name : filterRows'[n] = Filters!AtServer(n)
    BY <2>1, <2>2 DEF Filters!NoFilters
  <2> QED
    BY <1>3, <2>1, <2>3 DEF UpToDate
<1>5. filterFresh' \in BOOLEAN /\ filterAlone' \in BOOLEAN /\ filterAlone' = filterAlone
  BY <1>2 DEF FilterInv, ShapesOK
<1> HIDE DEF new
<1> QED
  BY <1>2, <1>3, <1>4, <1>5, GoesOn

LEMMA FiltersFilters ==
  ASSUME NoneIsNoTask, FilterInv, NEW t \in Filters!Running, Filters!Filters(t)
  PROVE  FilterInv'
<1> DEFINE task == filterTasks[t]
<1>1. TaskShape(task) /\ task.at = "done"
  BY DEF FilterInv, ShapesOK, Filters!Filters
<1>2. /\ Filters!Becomes(t, None) /\ filters' = task.got
      /\ filterSelected' = IF filterSelected = None \/ task.got[filterSelected.name] = None
           THEN None
                     ELSE [filterSelected EXCEPT !.filter = task.got[filterSelected.name]]
      /\ filterFresh' = filterAlone /\ UNCHANGED <<Filters!server, filterRows, filterAlone>>
  BY DEF Filters!Filters, Filters!Local
<1>3. /\ DOMAIN filterTasks' = Slot
      /\ Filters!Running' = Filters!Running \ {t}
      /\ \A u \in Filters!Running' : TaskShape(filterTasks'[u])
  BY <1>2, BecomesTask DEF FilterInv
<1>4. \A n : Filters!AtServer(n)' = Filters!AtServer(n)
  BY <1>2, SameServer
<1>5. filterSelected' # None =>
        /\ DOMAIN filterSelected' = {"name", "filter"} /\ filterSelected'.name \in Name
        /\ filterSelected'.filter = task.got[filterSelected'.name]
  BY <1>2 DEF FilterInv, ShapesOK
<1>6. ShapesOK'
  BY <1>2, <1>3, <1>5 DEF FilterInv, ShapesOK, TaskShape
<1>7. ASSUME filterAlone PROVE Filters!Running' = {} /\ Agree'
  <2>1. Filters!Running = {t} /\ \A n \in Name : filterRows[n] = Filters!AtServer(n)
          /\ task.got[n] = Filters!AtServer(n)
    BY <1>1, <1>7 DEF FilterInv, Alone, UpToDate
  <2> QED
    BY <1>2, <1>3, <1>4, <1>5, <2>1 DEF Agree
<1> QED
  BY <1>2, <1>6, <1>7 DEF FilterInv

LEMMA StepFilters ==
  ASSUME NoneIsNoTask, FilterInv, NEW t \in Slot, Filters!Step(t)
  PROVE  FilterInv'
BY CommandFilters, ListScriptsFilters, GetScriptFilters, DeleteRowsFilters,
   InsertRowsFilters, FiltersFilters DEF Filters!Step, Filters!Request

-----------------------------------------------------------------------------
\* The view, and other clients

\* A task that begins has got nothing, and is alone if it is the only one.
LEMMA BeginFilters ==
  ASSUME NoneIsNoTask, FilterInv, NEW op, NEW name, NEW script, Filters!Begin(op, name, script),
         UNCHANGED <<Filters!server, filterRows, filters, filterFresh>>,
         filterSelected' = filterSelected \/ filterSelected' = None
  PROVE  FilterInv'
<1> DEFINE new == [op |-> op, name |-> name, script |-> script,
                   at |-> IF op = "fetch" THEN "list" ELSE "command",
                   todo |-> {}, active |-> None, got |-> Filters!NoFilters]
<1>1. PICK t \in Slot \ Filters!Running : filterTasks' = [filterTasks EXCEPT ![t] = new]
  BY DEF Filters!Begin
<1>2. TaskShape(new) /\ new.at \in {"command", "list"} /\ new.got = Filters!NoFilters
  BY DEF TaskShape, Filters!NoFilters
<1> HIDE DEF new
<1>3. /\ DOMAIN filterTasks' = Slot /\ filterTasks'[t] = new
           /\ Filters!Running' = Filters!Running \cup {t}
      /\ \A u \in Filters!Running : filterTasks'[u] = filterTasks[u]
  BY <1>1, <1>2 DEF NoneIsNoTask, FilterInv, ShapesOK, Filters!Running
<1>4. ShapesOK'
  <2>1. \A u \in Filters!Running' : TaskShape(filterTasks[u])'
    BY <1>2, <1>3 DEF FilterInv, ShapesOK, TaskShape
  <2>2. filterAlone' \in BOOLEAN
    BY DEF Filters!Begin
  <2> QED
    BY <1>3, <2>1, <2>2 DEF FilterInv, ShapesOK
<1>5. ASSUME filterAlone', NEW u \in Filters!Running' PROVE Alone(u)'
  <2>1. Filters!Running' = {u} /\ filterTasks'[u] = new
    BY <1>3, <1>5 DEF Filters!Begin
  <2> QED
    BY <1>2, <2>1 DEF Alone, UpToDate, Filters!NoFilters
<1>6. ASSUME filterFresh', ~Saving' PROVE Agree'
  <2>1. ~Saving
    BY <1>3, <1>6 DEF Saving
  <2> QED
    BY <1>6, <2>1, SameServer DEF FilterInv, Agree, ShapesOK
<1> QED
  BY <1>4, <1>5, <1>6 DEF FilterInv

\* Only the view changes, and it shows what is listed.
LEMMA ViewFilters ==
  ASSUME FilterInv, UNCHANGED <<Filters!server, filterRows, filterTasks, filterFresh, filterAlone>>,
         filters' = filters \/ filters' = filterRows,
         \/ filterSelected' = filterSelected
         \/ filterSelected' = None
         \/ \E n \in Name : filterSelected' = [name |-> n, filter |-> filters'[n]]
  PROVE  FilterInv'
<1>1. ShapesOK'
  BY DEF FilterInv, ShapesOK, Filters!Running, TaskShape
<1>2. ASSUME filterAlone', NEW u \in Filters!Running' PROVE Alone(u)'
  BY <1>2, SameServer DEF FilterInv, Filters!Running, Alone, UpToDate, Filters!NoFilters,
     Filters!server
<1>3. ASSUME filterFresh', ~Saving' PROVE Agree'
  BY <1>3, SameServer DEF FilterInv, Saving, Filters!Running, Agree, ShapesOK
<1> QED
  BY <1>1, <1>2, <1>3 DEF FilterInv

LEMMA ElsewhereFilters ==
  ASSUME FilterInv, Filters!Elsewhere
  PROVE  FilterInv'
<1>1. filterFresh' = FALSE /\ filterAlone' = FALSE /\ UNCHANGED <<filterTasks, filterSelected>>
  BY DEF Filters!Elsewhere, Filters!screen
<1>2. ShapesOK'
  BY <1>1 DEF FilterInv, ShapesOK, Filters!Running, TaskShape
<1> QED
  BY <1>1, <1>2 DEF FilterInv

LEMMA NextFilters ==
  ASSUME NoneIsNoTask, FilterInv, [Filters!Next]_(Filters!vars)
  PROVE  FilterInv'
<1>1. CASE Filters!FiltersClicked
  BY <1>1, BeginFilters DEF Filters!FiltersClicked, Filters!screen
<1>2. CASE Filters!SaveFilter \/ Filters!DeleteFilter
  BY <1>2, BeginFilters DEF Filters!SaveFilter, Filters!DeleteFilter
<1>3. CASE Filters!ActivateFilter
  BY <1>3, BeginFilters DEF Filters!ActivateFilter, Filters!screen
<1>4. CASE Filters!NewFilter \/ Filters!CancelFilterEdit \/ Filters!Reload
  BY <1>4, ViewFilters DEF Filters!NewFilter, Filters!CancelFilterEdit, Filters!Reload
<1>5. CASE \E n \in Name : Filters!FilterSelected(n) \/ \E s \in Script : Filters!Type(n, s)
  BY <1>5, ViewFilters DEF Filters!FilterSelected, Filters!Type
<1>6. CASE Filters!Elsewhere
  BY <1>6, ElsewhereFilters
<1>7. CASE \E t \in Slot : Filters!Step(t)
  BY <1>7, StepFilters
<1>8. CASE UNCHANGED Filters!vars
  BY <1>8, ViewFilters DEF Filters!vars, Filters!screen
<1> QED
  BY <1>1, <1>2, <1>3, <1>4, <1>5, <1>6, <1>7, <1>8 DEF Filters!Next

LEMMA InitFilters ==
  ASSUME Filters!Init
  PROVE  FilterInv
<1>1. DOMAIN filterTasks = Slot /\ Filters!Running = {}
  BY DEF Filters!Init, Filters!Running
<1> QED
  BY <1>1 DEF Filters!Init, FilterInv, ShapesOK

-----------------------------------------------------------------------------
\* The composition

\* The part a behaviour is of is as its own module has it.
AccountsInv == part = "accounts" => SecretsInv

SettingsInv == part = "accounts" => SecretsInv /\ UseInv

FiltersInv == part = "filters" => FilterInv

\* A step is one of the part, or leaves it alone.
LEMMA DataSteps ==
  ASSUME [DataNext]_dataVars
  PROVE  /\ part' = part
         /\ part = "accounts" => [Accounts!Next]_(Accounts!vars)
         /\ part = "filters" => [Filters!Next]_(Filters!vars)
<1>1. CASE UNCHANGED dataVars
  BY <1>1 DEF dataVars, accountVars, filterVars, Accounts!vars, Accounts!bounds, Filters!vars,
              Filters!server, Filters!screen
<1>2. CASE DataNext
  BY <1>2 DEF DataNext
<1> QED
  BY <1>1, <1>2

\* Every row has its password in the keyring, at each start, save and clear and
\* wherever the keyring fails; and as long as it does not fail, the only passwords
\* without a row are those that starts with an earlier configuration and no tables
\* left there.
THEOREM SecretsCorrect == DataSpec => []SecretsOfRows
<1>1. DataInit => AccountsInv
  BY SecretsInit DEF DataInit, AccountsInv
<1>2. AccountsInv /\ [DataNext]_dataVars => AccountsInv'
  BY DataSteps, SecretsNext DEF AccountsInv
<1>3. AccountsInv => SecretsOfRows
  BY DEF AccountsInv, SecretsInv, SecretsOfRows
<1> QED
  BY <1>1, <1>2, <1>3, PTL DEF DataSpec

\* The saved configuration is the one in use, in the process it was saved in and
\* after every later start, and a cleared one does not come back: unless the
\* keyring failed, for every kind whose table never had two rows, and if an
\* earlier configuration was made into accounts exactly once.
THEOREM SettingsStayInUse == NoneIsNoAccount => (DataSpec => []IntendedInUse)
<1> SUFFICES ASSUME NoneIsNoAccount PROVE DataSpec => []IntendedInUse
  OBVIOUS
<1>1. DataInit => SettingsInv
  BY SecretsInit, UseInit DEF DataInit, SettingsInv
<1>2. SettingsInv /\ [DataNext]_dataVars => SettingsInv'
  BY DataSteps, SecretsNext, UseNext DEF SettingsInv
<1>3. SettingsInv => IntendedInUse
  BY DEF SettingsInv, UseInv, IntendedInUse
<1> QED
  BY <1>1, <1>2, <1>3, PTL DEF DataSpec

\* After a fetch that no other task, change or error fell into, and until
\* something changes, what is listed, selected and stored is what the server has,
\* up to what becomes of GETSCRIPT's answer: for any scripts and number of tasks,
\* whatever overlapped or failed before.  save_filters deletes the rows and
\* inserts the new ones in two statements.
THEOREM FiltersStayStored == NoneIsNoTask => (DataSpec => []FiltersAsStored)
<1> SUFFICES ASSUME NoneIsNoTask PROVE DataSpec => []FiltersAsStored
  OBVIOUS
<1>1. DataInit => FiltersInv
  BY InitFilters DEF DataInit, FiltersInv
<1>2. FiltersInv /\ [DataNext]_dataVars => FiltersInv'
  BY DataSteps, NextFilters DEF FiltersInv
<1>3. FiltersInv => FiltersAsStored
  BY DEF FiltersInv, FilterInv, FiltersAsStored, Filters!FiltersAsStored, Saving, Agree
<1> QED
  BY <1>1, <1>2, <1>3, PTL DEF DataSpec
=============================================================================
