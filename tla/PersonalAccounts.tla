-------------------------- MODULE PersonalAccounts --------------------------
(***************************************************************************)
(* The mail, contacts and calendar accounts: the settings form, the        *)
(* account the program uses, the row in the table of its kind, its         *)
(* password in the keyring, and the combined configuration of earlier      *)
(* versions in config.json, which every start turns into new accounts.     *)
(***************************************************************************)
EXTENDS Naturals, Sequences, SequencesExt, FiniteSets

CONSTANTS Kinds,     \* mail, contacts, calendar: one table each, in this order
          Config,    \* what a filled form holds: server, user, password, protocol
          None,
          MaxSaves,  \* how often the form is saved or cleared
          MaxStarts, \* how often the program is started
          MaxFaults  \* how often the keyring fails

VARIABLES
  tables,   \* whether the tables exist (run_migrations has run)
  rows,     \* the account table of each kind, in the order a load returns it
  secrets,  \* the ids the keyring has a password for
  legacy,   \* config.json's personal_data, or None
  account,  \* the account in use, or None
  form,     \* the id a form was filled from, and its fields if all are filled
  ids,      \* the last uuid
  starts, saves, faults,
  earlier,  \* what legacy was when this version was started first
  migrations, \* how often it was made into accounts
  intended, \* the configuration the user last asked for, or None
  doubled,  \* the kinds whose table has had two rows
  left      \* the ids whose password a start without tables left in the keyring

bounds == <<ids, starts, saves, faults>>
vars == <<tables, rows, secrets, legacy, account, form, bounds, earlier, migrations,
          intended, doubled, left>>

Kind == ToSet(Kinds)

NoForm == [id |-> None, fields |-> None]

FormOf(a) == IF a = None THEN NoForm ELSE [id |-> a.id, fields |-> a.config]

Init ==
  /\ tables = FALSE
  /\ rows = [k \in Kind |-> <<>>]
  /\ secrets = [k \in Kind |-> {}]
  /\ legacy \in {None} \cup Config
  /\ account = [k \in Kind |-> None]
  /\ form = [k \in Kind |-> NoForm]
  /\ ids = 0 /\ starts = 0 /\ saves = 0 /\ faults = 0
  /\ earlier = legacy /\ migrations = 0
  /\ intended = [k \in Kind |-> None]
  /\ doubled = {} /\ left = {}

-----------------------------------------------------------------------------
\* Rows and passwords

IdsIn(table) == {table[i].id : i \in DOMAIN table}

\* The id is the primary key of the table: at most one row has it.
Without(table, id) ==
  IF id \in IdsIn(table)
  THEN RemoveAt(table, CHOOSE i \in DOMAIN table : table[i].id = id)
  ELSE table

\* Mutant: the password is stored after the row.
RowAlone(k, a, ok) ==
  [rows   |-> Append(Without(rows[k], a.id), a),
   secret |-> IF ok THEN secrets[k] \cup {a.id} ELSE secrets[k]]

\* save_account: the password first, which can fail; then replace_into, which
\* deletes the row of that id and inserts it anew, as the last.
SaveAccount(k, a, ok) ==
  IF ok
  THEN [rows   |-> Append(Without(rows[k], a.id), a),
        secret |-> secrets[k] \cup {a.id}]
  ELSE [rows |-> rows[k], secret |-> secrets[k]]

\* Mutant: only the password is deleted.
PasswordAlone(k, a, ok) ==
  [rows |-> rows[k], secret |-> IF ok THEN secrets[k] \ {a.id} ELSE secrets[k]]

\* delete_account: the row, then the password, whose failure is ignored.
DeleteAccount(k, a, ok) ==
  [rows   |-> Without(rows[k], a.id),
   secret |-> IF ok THEN secrets[k] \ {a.id} ELSE secrets[k]]

Unchanged(k) == [rows |-> rows[k], secret |-> secrets[k]]

\* Every kind gets its new table, and the keyring fails for the kinds in failing.
Store(table, failing) ==
  /\ rows' = [k \in Kind |-> table[k].rows]
  /\ secrets' = [k \in Kind |-> table[k].secret]
  /\ failing # {} => faults < MaxFaults
  /\ faults' = IF failing = {} THEN faults ELSE faults + 1
  /\ doubled' = doubled \cup {k \in Kind : Len(rows'[k]) > 1}

-----------------------------------------------------------------------------
\* Actions

\* migrate_personal_data_config: a new account of each kind, up to the first
\* error.
Migrate(failing) ==
  LET new  == [id |-> ids + 1, config |-> legacy]
      done == {k \in Kind : \A i \in DOMAIN Kinds : Kinds[i] \in failing =>
                 \A j \in DOMAIN Kinds : Kinds[j] = k => j < i}
  IN  /\ Store([k \in Kind |-> IF k \in done THEN SaveAccount(k, new, TRUE) ELSE Unchanged(k)],
               failing)
      /\ ids' = ids + 1
      /\ migrations' = migrations + 1
      /\ intended' = IF migrations = 0 THEN [k \in Kind |-> legacy] ELSE intended
      /\ UNCHANGED left

\* The same before the tables exist: the first account's password is stored, its
\* row fails, and the others are not tried.
MigrateWithoutTables(failing) ==
  LET first == Head(Kinds)
      new   == IF first \in failing THEN {} ELSE {ids + 1}
  IN  /\ failing \subseteq {first}
      /\ Store([k \in Kind |-> [rows   |-> rows[k],
                                secret |-> IF k = first THEN secrets[k] \cup new ELSE secrets[k]]],
               failing)
      /\ ids' = ids + 1
      /\ left' = left \cup new
      /\ UNCHANGED <<migrations, intended>>

\* load_personal_data_accounts: the first row of each table.
LoadAccounts ==
  LET first == [k \in Kind |-> IF rows'[k] = <<>> THEN None ELSE Head(rows'[k])]
  IN  /\ account' = first
      /\ form' = [k \in Kind |-> FormOf(first[k])]

\* The process starts: AppState::default.
Start(failing) ==
  /\ starts < MaxStarts
  /\ starts' = starts + 1
  /\ \/ legacy # None /\ tables /\ Migrate(failing)
     \/ legacy # None /\ ~tables /\ MigrateWithoutTables(failing)
     \/ /\ legacy = None /\ failing = {}
        /\ UNCHANGED <<rows, secrets, faults, ids, migrations, intended, doubled, left>>
  /\ LoadAccounts
  /\ UNCHANGED <<tables, legacy, saves, earlier>>

\* XmppEvent::Ready: the tables are made, after the accounts were looked for.
Ready ==
  /\ starts > 0
  /\ tables' = TRUE
  /\ UNCHANGED <<rows, secrets, legacy, account, form, bounds, earlier, migrations, intended,
                 doubled, left>>

\* XmppEvent::Connected, the first time in a process: the new Account that
\* save_config writes has no personal_data.
Connected ==
  /\ tables
  /\ legacy' = None
  /\ UNCHANGED <<tables, rows, secrets, account, form, bounds, earlier, migrations, intended,
                 doubled, left>>

\* SettingsMessage::Changed, until the form of a kind is filled or is not.
Changed(k, fields) ==
  /\ tables
  /\ form' = [form EXCEPT ![k].fields = fields]
  /\ UNCHANGED <<tables, rows, secrets, legacy, account, bounds, earlier, migrations, intended,
                 doubled, left>>

\* to_configs: an account made from a form without id gets a new one.
ToConfig(k) ==
  IF form[k].fields = None THEN None
  ELSE [id |-> IF form[k].id = None THEN ids + 1 ELSE form[k].id, config |-> form[k].fields]

\* The form keeps the id it was filled from, or none.
SavePersonalDataConfig(failing) ==
  LET new == [k \in Kind |-> ToConfig(k)]
  IN  /\ tables /\ saves < MaxSaves
      /\ saves' = saves + 1
      /\ account' = new
      /\ Store([k \in Kind |->
           CASE new[k] # None     -> SaveAccount(k, new[k], k \notin failing)
             [] new[k] = None /\ account[k] # None ->
                                     DeleteAccount(k, account[k], k \notin failing)
             [] OTHER             -> Unchanged(k)], failing)
      /\ ids' = ids + 1
      /\ intended' = [k \in Kind |-> form[k].fields]
      /\ UNCHANGED <<tables, legacy, form, starts, earlier, migrations, left>>

ClearPersonalDataConfig(failing) ==
  /\ tables /\ saves < MaxSaves
  /\ saves' = saves + 1
  /\ account' = [k \in Kind |-> None]
  /\ Store([k \in Kind |->
       IF account[k] = None THEN Unchanged(k) ELSE DeleteAccount(k, account[k], k \notin failing)],
       failing)
  /\ form' = [k \in Kind |-> NoForm]
  /\ intended' = [k \in Kind |-> None]
  /\ UNCHANGED <<tables, legacy, ids, starts, earlier, migrations, left>>

Next ==
  \/ Ready \/ Connected
  \/ \E k \in Kind, fields \in Config \cup {None} : Changed(k, fields)
  \/ \E failing \in SUBSET Kind :
       Start(failing) \/ SavePersonalDataConfig(failing) \/ ClearPersonalDataConfig(failing)

Spec == Init /\ [][Next]_vars

-----------------------------------------------------------------------------
\* Properties

IdsOf(k) == IdsIn(rows[k])

\* Every row has its password in the keyring, wherever the keyring fails; and
\* unless it failed, no password is without a row, except those that starts
\* without tables left there: save_account and delete_account touch the two in
\* opposite orders.
SecretsOfRows ==
  \A k \in Kind :
    /\ IdsOf(k) \subseteq secrets[k]
    /\ faults = 0 => secrets[k] \ IdsOf(k) \subseteq (IF k = Head(Kinds) THEN left ELSE {})

\* Saved settings are those in use, now and after the next start, and cleared
\* ones do not come back: as long as no table had two rows (a form without id
\* saved twice makes two) and an earlier configuration is made into accounts
\* exactly once.
IntendedInUse ==
  faults = 0 /\ migrations = (IF earlier = None THEN 0 ELSE 1) =>
    \A k \in Kind \ doubled :
      intended[k] = (IF account[k] = None THEN None ELSE account[k].config)
=============================================================================
