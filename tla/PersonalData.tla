---------------------------- MODULE PersonalData ----------------------------
(***************************************************************************)
(* Three parts of the personal data that share no variable, side by side:  *)
(* the mail of an account, its filters, and the accounts.  A behaviour is  *)
(* one of one of them; the mail stays as it was at first without a mailbox *)
(* in use, and the variables of the others are None.                       *)
(***************************************************************************)
EXTENDS MailSync, Sequences

CONSTANTS
  Part,                                                    \* the parts there are
  Kinds, Config, MaxSaves, MaxStarts, MaxKeyringFaults,    \* of PersonalAccounts
  Name, Script, BlockLine, MaxFilterChanges, MaxFilterFaults \* of MailFilters

VARIABLES
  part,
  accountTables, accountRows, secrets, legacy, account, form, ids, starts, saves,
  keyringFaults, earlier, migrations, intended, doubled, left,
  scripts, active, filterRows, filters, filterSelected, editor, filterTasks, filterChanges,
  filterFaults, filterFresh, filterAlone

Accounts == INSTANCE PersonalAccounts
  WITH MaxFaults <- MaxKeyringFaults, tables <- accountTables, rows <- accountRows,
       faults <- keyringFaults

Filters == INSTANCE MailFilters
  WITH MaxChanges <- MaxFilterChanges, MaxFaults <- MaxFilterFaults, rows <- filterRows,
       selected <- filterSelected, tasks <- filterTasks, changes <- filterChanges,
       faults <- filterFaults, fresh <- filterFresh, alone <- filterAlone

-----------------------------------------------------------------------------

accountVars == <<accountTables, accountRows, secrets, legacy, account, form, ids, starts, saves,
                 keyringFaults, earlier, migrations, intended, doubled, left>>

filterVars == <<scripts, active, filterRows, filters, filterSelected, editor, filterTasks,
                filterChanges, filterFaults, filterFresh, filterAlone>>

dataVars == <<part, vars, accountVars, filterVars>>

NoAccounts ==
  /\ accountTables = None /\ accountRows = None /\ secrets = None /\ legacy = None
  /\ account = None /\ form = None /\ ids = None /\ starts = None /\ saves = None
  /\ keyringFaults = None /\ earlier = None /\ migrations = None /\ intended = None
  /\ doubled = None /\ left = None

NoFilters ==
  /\ scripts = None /\ active = None /\ filterRows = None /\ filters = None
  /\ filterSelected = None /\ editor = None /\ filterTasks = None /\ filterChanges = None
  /\ filterFaults = None /\ filterFresh = None /\ filterAlone = None

DataInit ==
  /\ part \in Part
  /\ Init
  /\ part # "mail" => protocol = "jmap" /\ server = NoMail
  /\ IF part = "accounts" THEN Accounts!Init ELSE NoAccounts
  /\ IF part = "filters" THEN Filters!Init ELSE NoFilters

DataNext ==
  /\ UNCHANGED part
  /\ \/ part = "mail" /\ Next /\ UNCHANGED <<accountVars, filterVars>>
     \/ part = "accounts" /\ Accounts!Next /\ UNCHANGED <<vars, filterVars>>
     \/ part = "filters" /\ Filters!Next /\ UNCHANGED <<vars, accountVars>>

DataSpec == DataInit /\ [][DataNext]_dataVars

\* MailSync's: the five minutes pass, and every task runs.
DataFairness ==
  /\ WF_dataVars(part = "mail" /\ SyncPersonalData /\ UNCHANGED <<part, accountVars, filterVars>>)
  /\ \A t \in Slot :
       WF_dataVars(part = "mail" /\ Step(t) /\ UNCHANGED <<part, accountVars, filterVars>>)

FairDataSpec == DataSpec /\ DataFairness

-----------------------------------------------------------------------------

\* PersonalAccounts: every row has its password, and a password without a row is
\* one that a start without tables left.
SecretsOfRows == part = "accounts" => Accounts!SecretsOfRows

\* PersonalAccounts: saved settings are in use, now and after the next start.
IntendedInUse == part = "accounts" => Accounts!IntendedInUse

\* MailFilters: after an undisturbed task the filters are those of the server.
FiltersAsStored == part = "filters" => Filters!FiltersAsStored
=============================================================================
