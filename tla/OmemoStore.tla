------------------------------ MODULE OmemoStore ------------------------------
(***************************************************************************)
(* The OMEMO state in memory (OmemoManager) and on disk (db/omemo.rs), one *)
(* SQL statement at a time.  Every statement commits by itself: a save     *)
(* deletes the rows of a table and inserts them again, table after table,  *)
(* and ends at the first error, which its callers ignore.  A load takes an *)
(* error for an empty table.  Two threads use the tables, each through a   *)
(* manager of its own: the worker, and the interface when it shows the QR  *)
(* code of the account.  The program can end at any statement.             *)
(*                                                                         *)
(* A session is the chain it sends with and the counter of the next        *)
(* message.  Reading a peer's answer makes the next message start a new    *)
(* chain.  The tables of trusted devices and of bundles are saved like     *)
(* that of the device lists, after it, and are left out.                   *)
(***************************************************************************)
EXTENDS Naturals, Sequences, FiniteSets

CONSTANTS Peer,      \* the peers' devices there are sessions with
          Device,    \* the ids device lists name
          None,      \* Rust's None; no row
          MaxChains, \* how many chains are started
          MaxSends,  \* how many messages are encrypted
          MaxQuits,  \* how often the program is ended while the worker is idle
          MaxFaults, \* how many disturbances of these kinds there are
          Faults

FaultKinds == {"crash", \* the program ends while a statement is to be executed
               "error", \* a statement fails, as with SQLITE_BUSY
               "qr"}    \* the QR code is opened

ASSUME StoreBounds ==
  /\ {MaxChains, MaxSends, MaxQuits, MaxFaults} \subseteq Nat
  /\ Faults \subseteq FaultKinds

Thread == {"worker", "qr"}

Session == [key : Nat, owner : Nat, chain : Nat, index : Nat]

\* None is none of the numbers and records that are None until they are made.
ASSUME NoneAssumption ==
  /\ None \notin Nat
  /\ None \notin [id : Nat, key : Nat]
  /\ None \notin Session
  /\ None \notin [key : Nat, account : Nat, sessions : [Peer -> Session \cup {None}],
                  devices : SUBSET Device]
  /\ None \notin [account : Nat, sessions : [Peer -> Session \cup {None}], devices : SUBSET Device]

VARIABLES
  disk,     \* the tables: pickle key, account, sessions, device list
  mem,      \* the worker's manager, or None
  local,    \* the manager each thread is loading
  program,  \* the statements each thread has yet to execute
  fresh,    \* how many keys, accounts and chains have been made
  chains, sends, quits, faults, qrs,
  identity, \* the first account that was saved
  used,     \* the message keys that encrypted a message
  reused,   \* whether one encrypted two
  unsaved,  \* whether a message was sent since the last complete save
  lost      \* whether the manager was dropped while one was

bounds == <<chains, sends, quits, faults, qrs>>
sendVars == <<used, reused, unsaved, lost>>
vars == <<disk, mem, local, program, fresh, bounds, identity, sendVars>>

NoSessions == [p \in Peer |-> None]
NoManager  == [key |-> None, account |-> None, sessions |-> NoSessions, devices |-> {}]

Init ==
  /\ disk = NoManager
  /\ mem = None
  /\ local = [t \in Thread |-> NoManager]
  /\ program = [t \in Thread |-> <<>>]
  /\ fresh = 0
  /\ chains = 0 /\ sends = 0 /\ quits = 0 /\ faults = 0 /\ qrs = 0
  /\ identity = None
  /\ used = {} /\ reused = FALSE /\ unsaved = FALSE /\ lost = FALSE

-----------------------------------------------------------------------------
\* Programs.  A statement belongs to a unit; an error ends the unit.

Stmt(op, unit) == [op |-> op, unit |-> unit]

SaveKey == << Stmt("DeleteKey", "key"), Stmt("InsertKey", "key") >>

SaveAccount(unit) == << Stmt("DeleteAccount", unit), Stmt("InsertAccount", unit) >>

Save ==
  SaveAccount("save") \o
  << Stmt("DeleteSessions", "save"), Stmt("InsertSession", "save"),
     Stmt("DeleteDevices", "save"), Stmt("InsertDevice", "save"), Stmt("Saved", "save") >>

Load == << Stmt("LoadKey", "load"), Stmt("LoadAccount", "load") >>

LoadRest == << Stmt("LoadSessions", "load"), Stmt("LoadDevices", "load") >>

\* generate loads the key again, makes an account and saves it;
\* load_or_generate saves it a second time.
Generate ==
  << Stmt("LoadKey", "load"), Stmt("MakeAccount", "load") >>
  \o SaveAccount("generate") \o SaveAccount("regenerate")

\* Mutant: a save goes on after an error.
AfterErrorIgnored(t) == Tail(program[t])

\* What is left of a unit stands together, before the rest of the program.
AfterError(t) ==
  LET s    == program[t]
      left == {i \in DOMAIN s : s[i].unit = Head(s).unit}
  IN  SubSeq(s, Cardinality(left) + 1, Len(s))

Run(t, statements) == program' = [program EXCEPT ![t] = statements]

Idle(t) == program[t] = <<>>

MayDisturb(kind) == kind \in Faults /\ faults + qrs < MaxFaults

\* The manager whose state a thread saves.
Manager(t) == IF t = "worker" /\ mem # None THEN mem ELSE local[t]

-----------------------------------------------------------------------------
\* What the worker does with its manager

Ready == mem # None /\ Idle("worker")

\* XmppEventRaw::Online: load_or_generate, save, omemo = Some(mgr).
Online ==
  /\ mem = None /\ Idle("worker")
  /\ Run("worker", Load \o Save \o << Stmt("Install", "install") >>)
  /\ UNCHANGED <<disk, mem, local, fresh, bounds, identity, sendVars>>

\* SendMessage: encrypted and sent, not saved.
Encrypt(p) ==
  LET s   == mem.sessions[p]
      key == <<s.chain, s.index>>
  IN  /\ Ready /\ s # None
      /\ sends < MaxSends
      /\ mem' = [mem EXCEPT !.sessions[p].index = @ + 1]
      /\ sends' = sends + 1
      /\ used' = used \cup {key}
      /\ reused' = (reused \/ key \in used)
      /\ unsaved' = TRUE
      /\ UNCHANGED <<disk, local, program, fresh, chains, quits, faults, qrs, identity, lost>>

\* A bundle is received for a peer without a session, or the first message of
\* a chain of the peer is read.
StartChain(p) ==
  /\ chains < MaxChains
  /\ mem' = [mem EXCEPT !.sessions[p] = [key   |-> mem.key,   owner |-> mem.account,
                                         chain |-> fresh + 1, index |-> 0]]
  /\ fresh' = fresh + 1 /\ chains' = chains + 1

\* Another message of that chain is read.
KeepChain(p) == mem.sessions[p] # None /\ UNCHANGED <<mem, fresh, chains>>

\* Each is followed by a save.
Receive(p) ==
  /\ Ready
  /\ StartChain(p) \/ KeepChain(p)
  /\ Run("worker", Save)
  /\ UNCHANGED <<disk, local, sends, quits, faults, qrs, identity, sendVars>>

\* Mutant: the list replaces what was known.
ReplaceDeviceList(D) ==
  /\ Ready
  /\ mem' = [mem EXCEPT !.devices = D]
  /\ UNCHANGED <<disk, local, program, fresh, bounds, identity, sendVars>>

UpdateDeviceList(D) ==
  /\ Ready
  /\ mem' = [mem EXCEPT !.devices = @ \cup D]
  /\ UNCHANGED <<disk, local, program, fresh, bounds, identity, sendVars>>

\* Disconnect, or the end of the stream: save, then omemo = None.
Logout ==
  /\ Ready
  /\ Run("worker", Save \o << Stmt("Drop", "drop") >>)
  /\ UNCHANGED <<disk, mem, local, fresh, bounds, identity, sendVars>>

\* ToggleOmemoQr: build_share_uri loads, or makes, a manager of its own.
OpenQr ==
  /\ Idle("qr")
  /\ MayDisturb("qr")
  /\ qrs' = qrs + 1
  /\ Run("qr", Load \o << Stmt("Close", "close") >>)
  /\ UNCHANGED <<disk, mem, local, fresh, chains, sends, quits, faults, identity, sendVars>>

\* process::exit, and the next start.
End ==
  /\ mem' = None
  /\ local' = [t \in Thread |-> NoManager]
  /\ program' = [t \in Thread |-> <<>>]
  /\ lost' = (lost \/ unsaved)
  /\ unsaved' = FALSE
  /\ UNCHANGED <<disk, fresh, chains, sends, qrs, identity, used, reused>>

\* The program is ended while nothing is loaded or saved.
Quit ==
  /\ Idle("worker") /\ Idle("qr") /\ mem # None
  /\ quits < MaxQuits
  /\ quits' = quits + 1
  /\ End
  /\ UNCHANGED faults

\* It is ended, or ends, between two statements.
Crash ==
  /\ MayDisturb("crash")
  /\ ~Idle("worker") \/ ~Idle("qr")
  /\ faults' = faults + 1
  /\ End
  /\ UNCHANGED quits

-----------------------------------------------------------------------------
\* Statements.  Each is followed by the statements after it, except where it
\* fails because its row is there already.

Next1(t) == Run(t, Tail(program[t]))

\* Mutant: a new key is not saved.
LoadKeyUnsaved(t, ok) ==
  LET found == ok /\ disk.key # None
  IN  /\ local' = [local EXCEPT ![t] = [NoManager EXCEPT !.key = IF found THEN disk.key ELSE fresh + 1]]
      /\ fresh' = IF found THEN fresh ELSE fresh + 1
      /\ Next1(t)
      /\ UNCHANGED <<disk, mem, identity, unsaved>>

\* The key: one that cannot be read is replaced.
LoadKey(t, ok) ==
  LET found == ok /\ disk.key # None
      rest  == Tail(program[t])
  IN  /\ local' = [local EXCEPT ![t] = [NoManager EXCEPT !.key = IF found THEN disk.key ELSE fresh + 1]]
      /\ fresh' = IF found THEN fresh ELSE fresh + 1
      /\ Run(t, IF found THEN rest ELSE SaveKey \o rest)
      /\ UNCHANGED <<disk, mem, identity, unsaved>>

\* Mutant: the sessions are loaded with a new account as well.
LoadAccountAndRest(t, ok) ==
  LET found == ok /\ disk.account # None /\ disk.account.key = local[t].key
  IN  /\ local' = [local EXCEPT ![t].account = IF found THEN disk.account.id ELSE None]
      /\ Run(t, (IF found THEN LoadRest ELSE Generate \o LoadRest) \o Tail(program[t]))
      /\ UNCHANGED <<disk, mem, fresh, identity, unsaved>>

\* The account: one that cannot be read, or not with this key, is replaced.
LoadAccount(t, ok) ==
  LET found == ok /\ disk.account # None /\ disk.account.key = local[t].key
  IN  /\ local' = [local EXCEPT ![t].account = IF found THEN disk.account.id ELSE None]
      /\ Run(t, (IF found THEN LoadRest ELSE Generate) \o Tail(program[t]))
      /\ UNCHANGED <<disk, mem, fresh, identity, unsaved>>

\* Sessions of another key are left out.
LoadSessions(t, ok) ==
  /\ local' = [local EXCEPT ![t].sessions = [p \in Peer |->
       IF ok /\ disk.sessions[p] # None /\ disk.sessions[p].key = local[t].key
       THEN disk.sessions[p] ELSE None]]
  /\ Next1(t)
  /\ UNCHANGED <<disk, mem, fresh, identity, unsaved>>

LoadDevices(t, ok) ==
  /\ local' = [local EXCEPT ![t].devices = IF ok THEN disk.devices ELSE {}]
  /\ Next1(t)
  /\ UNCHANGED <<disk, mem, fresh, identity, unsaved>>

Write(t, newDisk) ==
  /\ disk' = newDisk
  /\ Next1(t)
  /\ UNCHANGED <<mem, local, fresh, identity, unsaved>>

Fails(t) ==
  /\ Run(t, AfterError(t))
  /\ UNCHANGED <<disk, mem, local, fresh, identity, unsaved>>

InsertKey(t) ==
  IF disk.key # None THEN Fails(t) ELSE Write(t, [disk EXCEPT !.key = local[t].key])

InsertAccount(t) ==
  LET m == Manager(t)
  IN  IF disk.account # None
      THEN Fails(t)
      ELSE /\ disk' = [disk EXCEPT !.account = [id |-> m.account, key |-> m.key]]
           /\ identity' = IF identity = None THEN m.account ELSE identity
           /\ Next1(t)
           /\ UNCHANGED <<mem, local, fresh, unsaved>>

\* One row after another, in the order of a hash map.  No two rows are of one
\* peer.
InsertSession(t) ==
  LET todo == {p \in Peer : disk.sessions[p] # Manager(t).sessions[p]}
  IN  IF todo = {}
      THEN Write(t, disk)
      ELSE \E p \in todo :
             IF disk.sessions[p] # None
             THEN Fails(t)
             ELSE /\ disk' = [disk EXCEPT !.sessions[p] = Manager(t).sessions[p]]
                  /\ UNCHANGED <<mem, local, program, fresh, identity, unsaved>>

InsertDevice(t) ==
  LET todo == Manager(t).devices \ disk.devices
  IN  IF todo = {}
      THEN Write(t, disk)
      ELSE \E d \in todo :
             /\ disk' = [disk EXCEPT !.devices = @ \cup {d}]
             /\ UNCHANGED <<mem, local, program, fresh, identity, unsaved>>

\* Not SQL: an account is made, the manager is put in place or let go, the save
\* is complete, omemo = None.
MakeAccount(t) ==
  /\ local' = [local EXCEPT ![t].account = fresh + 1]
  /\ fresh' = fresh + 1
  /\ Next1(t)
  /\ UNCHANGED <<disk, mem, identity, unsaved>>

Close(t) ==
  /\ local' = [local EXCEPT ![t] = NoManager]
  /\ Next1(t)
  /\ UNCHANGED <<disk, fresh, identity, unsaved>>

Install(t) == mem' = local[t] /\ Close(t)

Saved(t) ==
  /\ unsaved' = FALSE
  /\ Next1(t)
  /\ UNCHANGED <<disk, mem, local, fresh, identity>>

Drop(t) ==
  /\ mem' = None
  /\ unsaved' = FALSE
  /\ Next1(t)
  /\ UNCHANGED <<disk, local, fresh, identity>>

Execute(t, op) ==
  CASE op = "LoadKey"        -> LoadKey(t, TRUE)
    [] op = "DeleteKey"      -> Write(t, [disk EXCEPT !.key = None])
    [] op = "InsertKey"      -> InsertKey(t)
    [] op = "LoadAccount"    -> LoadAccount(t, TRUE)
    [] op = "DeleteAccount"  -> Write(t, [disk EXCEPT !.account = None])
    [] op = "InsertAccount"  -> InsertAccount(t)
    [] op = "LoadSessions"   -> LoadSessions(t, TRUE)
    [] op = "LoadDevices"    -> LoadDevices(t, TRUE)
    [] op = "DeleteSessions" -> Write(t, [disk EXCEPT !.sessions = NoSessions])
    [] op = "InsertSession"  -> InsertSession(t)
    [] op = "DeleteDevices"  -> Write(t, [disk EXCEPT !.devices = {}])
    [] op = "InsertDevice"   -> InsertDevice(t)
    [] op = "MakeAccount"    -> MakeAccount(t)
    [] op = "Install"        -> Install(t)
    [] op = "Close"          -> Close(t) /\ UNCHANGED mem
    [] op = "Saved"          -> Saved(t)
    [] op = "Drop"           -> Drop(t)

Step(t) ==
  /\ ~Idle(t)
  /\ Execute(t, Head(program[t]).op)
  /\ lost' = (lost \/ (unsaved /\ Head(program[t]).op = "Drop"))
  /\ UNCHANGED <<bounds, used, reused>>

NotSql == {"MakeAccount", "Install", "Close", "Saved", "Drop"}

\* The statement fails: a load goes on without it, a save ends.
Error(t) ==
  /\ ~Idle(t)
  /\ MayDisturb("error")
  /\ faults' = faults + 1
  /\ LET op == Head(program[t]).op
     IN  CASE op = "LoadKey"      -> LoadKey(t, FALSE)
           [] op = "LoadAccount"  -> LoadAccount(t, FALSE)
           [] op = "LoadSessions" -> LoadSessions(t, FALSE)
           [] op = "LoadDevices"  -> LoadDevices(t, FALSE)
           [] OTHER               -> op \notin NotSql /\ Fails(t)
  /\ UNCHANGED <<chains, sends, quits, qrs, used, reused, lost>>

Next ==
  \/ Online \/ Logout \/ OpenQr \/ Quit \/ Crash
  \/ \E p \in Peer : Encrypt(p) \/ Receive(p)
  \/ \E D \in SUBSET Device : UpdateDeviceList(D)
  \/ \E t \in Thread : Step(t) \/ Error(t)

Spec == Init /\ [][Next]_vars

-----------------------------------------------------------------------------
\* Properties

\* The identity that others have verified stays: once an account was saved, the
\* worker runs with it (load_or_generate, save_omemo_account).
IdentityKept ==
  mem # None /\ identity # None => mem.account = identity

\* A message key is used again only after a manager was dropped with a message
\* sent and not saved: every other way to the disk and back, with a statement
\* failing or the program ending anywhere in a save, keeps the counters.
ReuseOnlyOfUnsavedSends == reused => lost

\* One fault never brings the sessions of one identity together with another,
\* although a fault can replace the account: the device would write under an id
\* its sessions were not made for.  (While the QR code is not opened.)
SessionsOfIdentity ==
  qrs = 0 /\ mem # None => \A p \in Peer :
    mem.sessions[p] # None => mem.sessions[p].owner = mem.account

\* Without faults and with the worker as the only user, a save is atomic and a
\* start finds what was saved: while it is being written, what is saved is what
\* the manager holds, or the account that was just made.
Content(m) == [account |-> m.account, sessions |-> m.sessions, devices |-> m.devices]

Pending(op) == \E i \in DOMAIN program["worker"] : program["worker"][i].op = op

Loaded ==
  /\ Manager("worker").account # None
  /\ ~Pending("LoadSessions") /\ ~Pending("LoadDevices")

SavedState ==
  IF Pending("Saved") /\ Loaded THEN Content(Manager("worker"))
  ELSE IF disk.account = None THEN None
  ELSE [Content(disk) EXCEPT !.account = disk.account.id]

Atomic == INSTANCE AtomicStore WITH
  memory <- IF mem = None THEN None ELSE Content(mem),
  saved  <- SavedState

ImplementsAtomicStore == Atomic!Spec
=============================================================================
