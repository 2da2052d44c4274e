------------------------------- MODULE DavSync -------------------------------
(***************************************************************************)
(* The contacts of one account, or the events and tasks of one, over       *)
(* CardDAV and CalDAV or over JMAP: at the server, in the tables, in the   *)
(* lists on the screen, and in the form.  What is selected is a copy, and  *)
(* the form is filled from it; a save writes the form over the copy and    *)
(* asks the server to take it if it still has the version the copy came    *)
(* with (If-Match), which JMAP is not asked.  Nothing is changed here      *)
(* before the sync that follows.                                           *)
(*                                                                         *)
(* An item is its version; the collection (address book, calendar) is one. *)
(* An event is of the current year, which is what is asked for.            *)
(***************************************************************************)
EXTENDS Naturals, FiniteSets

CONSTANTS Contact, Event, Todo, \* the items there can be of each kind
          None,
          Slot,       \* how many tasks run at once
          MaxChanges, \* how often a user, here or elsewhere, changes something
          MaxFaults,  \* how many requests and statements fail, or processes end
          Protocols,  \* {"dav", "jmap"} or a part of it
          Accounts    \* {"contacts", "calendar"} or a part of it

VARIABLES
  protocol,
  account,  \* contacts or calendar
  server,   \* the version of each item there, or None
  rows,     \* the version of each item in the tables, or None
  table,    \* whether the collection is in its table
  list,     \* contacts_state.contacts; calendar_state.events and tasks
  shown,    \* whether the collection is listed on the screen
  chosen,   \* whether it is selected
  selected, \* the copy selected of each kind: its item and version, or None
  form,     \* while an item is edited: its kind, the copy it was filled from, and
            \* whether something was selected since
  tasks,    \* what runs: [Slot -> task or None]
  last,     \* the last version made
  changes, faults,
  fresh,    \* a sync finished undisturbed, and nothing changed since
  alone,    \* nothing disturbed the sync that is running
  lost      \* the versions made elsewhere that an edit of another replaced

tables == <<rows, table>>
screen == <<list, shown, chosen, selected, form>>
vars == <<protocol, account, server, tables, screen, tasks, last, changes, faults,
          fresh, alone, lost>>

Items(kind) == CASE kind = "contact" -> Contact [] kind = "event" -> Event [] OTHER -> Todo

Kinds(a) == IF a = "contacts" THEN {"contact"} ELSE {"event", "task"}

Kind == {"contact", "event", "task"}

Item == Contact \cup Event \cup Todo

Mine == UNION {Items(kind) : kind \in Kinds(account)}

Nothing == [i \in Item |-> None]

Init ==
  /\ protocol \in Protocols
  /\ account \in Accounts
  /\ \E there \in SUBSET Mine : server = [i \in Item |-> IF i \in there THEN 0 ELSE None]
  /\ rows = Nothing /\ table = FALSE
  /\ list = Nothing /\ shown = FALSE /\ chosen = FALSE
  /\ selected = [kind \in Kind |-> None] /\ form = None
  /\ tasks = [t \in Slot |-> None]
  /\ last = 0 /\ changes = 0 /\ faults = 0
  /\ fresh = FALSE /\ alone = FALSE /\ lost = {}

-----------------------------------------------------------------------------
\* Tasks

\* A task has what it writes and the copies it was made from, and what it got.
Task(op, at, write) == [op |-> op, at |-> at, write |-> write, todo |-> {}, got |-> Nothing]

NoWrite == [item |-> None, etag |-> None, base |-> None, version |-> None]

SyncTask == Task("sync", "collections", NoWrite)

Running == {t \in Slot : tasks[t] # None}

\* A task starts in a free slot.
Begin(task) ==
  /\ \E t \in Slot \ Running :
       /\ t = CHOOSE v \in Slot \ Running : TRUE
       /\ tasks' = [tasks EXCEPT ![t] = task]
  /\ alone' = (task.op = "sync" /\ Running = {})

Becomes(t, task) == tasks' = [tasks EXCEPT ![t] = task]

Change == changes < MaxChanges /\ changes' = changes + 1

-----------------------------------------------------------------------------
\* The interface

SyncPersonalData ==
  /\ Begin(SyncTask)
  /\ UNCHANGED <<protocol, account, server, tables, screen, last, changes, faults, fresh, lost>>

\* Something is selected while an item is edited: the form is no longer what
\* the selection was when it was filled.
SelectedAgain == IF form = None THEN None ELSE [form EXCEPT !.again = TRUE]

CollectionSelected(of) ==
  /\ Change
  /\ account = of
  /\ shown
  /\ chosen' = TRUE
  /\ selected' = [kind \in Kind |-> None]
  /\ form' = SelectedAgain
  /\ Begin(Task("fetch", "collections", NoWrite))
  /\ UNCHANGED <<protocol, account, server, tables, list, shown, last, faults, fresh, lost>>

AddressbookSelected == CollectionSelected("contacts")
CalendarSelected == CollectionSelected("calendar")

\* An event or a task, one of which excludes the other, or a contact.  The list
\* stays in reach while an item is edited.
Selected(i) ==
  /\ list[i] # None
  /\ selected' = [kind \in Kind |-> IF i \in Items(kind) THEN [item |-> i, version |-> list[i]] ELSE None]
  /\ form' = SelectedAgain
  /\ UNCHANGED <<protocol, account, server, tables, list, shown, chosen, tasks, last,
                 changes, faults, fresh, alone, lost>>

ContactSelected(i) == i \in Contact /\ Selected(i)
EventSelected(i) == i \in Event /\ Selected(i)
TaskSelected(i) == i \in Todo /\ Selected(i)

\* Of what is selected the form is filled, also for what is to be new.
Edit(kind) ==
  /\ form = None /\ kind \in Kinds(account)
  /\ form' = [kind |-> kind, copy |-> selected[kind], again |-> FALSE]
  /\ UNCHANGED <<protocol, account, server, tables, list, shown, chosen, selected, tasks, last,
                 changes, faults, fresh, alone, lost>>

NewContact == Edit("contact")
NewEvent == Edit("event")
NewTask == Edit("task")

CancelEdit ==
  /\ form # None /\ form' = None
  /\ UNCHANGED <<protocol, account, server, tables, list, shown, chosen, selected, tasks, last,
                 changes, faults, fresh, alone, lost>>

\* Mutant: the etag is that of the list by now.
SaveListed(kind) ==
  /\ Change
  /\ form # None /\ form.kind = kind /\ selected[kind] # None
  /\ Begin(Task("save", "request",
       [item    |-> selected[kind].item,
        etag    |-> list[selected[kind].item],
        base    |-> IF form.again THEN None ELSE form.copy,
        version |-> last + 1]))
  /\ last' = last + 1
  /\ form' = None
  /\ UNCHANGED <<protocol, account, server, tables, list, shown, chosen, selected, faults, fresh, lost>>

\* The form is written over a clone of what is selected now, its etag included;
\* without a selection it is a new item with a new id, of no version.
Save(kind) ==
  /\ Change
  /\ form # None /\ form.kind = kind
  /\ \E i \in Items(kind) :
       /\ IF selected[kind] = None
          THEN /\ server[i] = None /\ list[i] = None /\ rows[i] = None
               /\ \A t \in Running : tasks[t].write.item # i
          ELSE i = selected[kind].item
       /\ Begin(Task("save", "request",
            [item    |-> i,
             etag    |-> IF selected[kind] = None THEN None ELSE selected[kind].version,
             base    |-> IF form.again THEN None ELSE form.copy,
             version |-> last + 1]))
  /\ last' = last + 1
  /\ form' = None
  /\ UNCHANGED <<protocol, account, server, tables, list, shown, chosen, selected, faults, fresh, lost>>

SaveContact == Save("contact")
SaveEvent == Save("event")
SaveTask == Save("task")

\* The list keeps the item until the sync that follows.
Delete(kind) ==
  /\ Change
  /\ selected[kind] # None /\ form = None
  /\ Begin(Task("delete", "request",
       [item |-> selected[kind].item, etag |-> selected[kind].version,
        base |-> selected[kind], version |-> None]))
  /\ selected' = [selected EXCEPT ![kind] = None]
  /\ UNCHANGED <<protocol, account, server, tables, list, shown, chosen, form, last, faults, fresh, lost>>

DeleteContact == Delete("contact")
DeleteEvent == Delete("event")
DeleteTask == Delete("task")

\* An item of a file, which has no etag.
Import(i) ==
  /\ Change
  /\ i \in Mine /\ form = None /\ chosen /\ shown
  /\ Begin(Task("import", "request", [item |-> i, etag |-> None, base |-> None, version |-> last + 1]))
  /\ last' = last + 1
  /\ UNCHANGED <<protocol, account, server, tables, screen, faults, fresh, lost>>

ImportVcf == \E i \in Contact : Import(i)
ImportIcs == \E i \in Event \cup Todo : Import(i)

-----------------------------------------------------------------------------
\* What a task does next.  Between the steps anything else can happen.

\* A request fails before or after the server did what was asked, or it is
\* refused: a status of 400 and more, or an error in a JMAP answer.
Outcome == {"ok", "error", "lost", "refused"}

Failed(outcome) == outcome \in {"error", "lost"}

Answered(outcome) ==
  /\ outcome # "ok" => faults < MaxFaults
  /\ faults' = IF outcome = "ok" THEN faults ELSE faults + 1

\* Refused is an empty list.  A fetch ends with an error, and with an empty list
\* if its collection is not there.
ListCollections(t, of, outcome) ==
  LET task == tasks[t]
      next == IF outcome = "ok" THEN "items" ELSE IF task.op = "sync" THEN "wipe" ELSE "done"
      todo == IF task.op = "sync" THEN Kinds(account) ELSE Kinds(account) \ {"task"}
  IN  /\ task.at = "collections" /\ account = of
      /\ IF task.op = "fetch" /\ Failed(outcome)
         THEN Becomes(t, None)
         ELSE Becomes(t, [task EXCEPT !.at = next, !.todo = todo])
      /\ table' = IF task.op = "sync" /\ ~Failed(outcome) THEN outcome = "ok" ELSE table
      /\ UNCHANGED <<server, rows, lost>>

ListAddressbooks(t, outcome) == ListCollections(t, "contacts", outcome)
ListCalendars(t, outcome) == ListCollections(t, "calendar", outcome)

\* Refused is an empty list, and in a sync so is an error.
ListItems(t, kind, outcome) ==
  LET task == tasks[t]
      rest == task.todo \ {kind}
      next == IF rest # {} THEN "items" ELSE IF task.op = "sync" THEN "wipe" ELSE "done"
  IN  /\ task.at = "items" /\ kind \in task.todo
      /\ kind = "task" => "event" \notin task.todo
      /\ IF task.op = "fetch" /\ Failed(outcome)
         THEN Becomes(t, None)
         ELSE Becomes(t, [task EXCEPT !.at = next, !.todo = rest,
                !.got = [i \in Item |-> IF outcome = "ok" /\ i \in Items(kind) THEN server[i] ELSE @[i]]])
      /\ UNCHANGED <<server, table, lost>> /\ UNCHANGED rows

ListContacts(t, outcome) == ListItems(t, "contact", outcome)
ListEvents(t, outcome) == ListItems(t, "event", outcome)
ListTasks(t, outcome) == ListItems(t, "task", outcome)

\* What a write leads to: an edit or a deletion that succeeded is followed by a
\* sync, and an import goes on, one way or the other.
Written(t, taken, ok) ==
  LET write == tasks[t].write
      i     == write.item
  IN  /\ tasks[t].at = "request"
      /\ server' = IF taken THEN [server EXCEPT ![i] = write.version] ELSE server
      /\ lost' = IF /\ taken /\ server[i] # None
                    /\ write.base # None /\ write.base.item = i
                    /\ write.base.version # server[i]
                 THEN lost \cup {server[i]} ELSE lost
      /\ Becomes(t, IF ok \/ tasks[t].op = "import" THEN [tasks[t] EXCEPT !.at = IF ok THEN "done" ELSE "end"]
                    ELSE None)
      /\ UNCHANGED tables

\* Over DAV the server takes a write if the version is the one in If-Match, or
\* there is none; a status of 400 and more is an error.
DavWrite(t, outcome) ==
  LET write == tasks[t].write
      match == write.etag = None \/ server[write.item] = write.etag
  IN  /\ protocol = "dav"
      /\ Written(t, match /\ outcome \in {"ok", "lost"}, match /\ outcome = "ok")

\* Over JMAP it takes it if it has the item: what is new here has an id already,
\* and is sent as an update.  That it was not is not looked at.
JmapWrite(t, outcome) ==
  /\ protocol = "jmap"
  /\ Written(t, server[tasks[t].write.item] # None /\ outcome \in {"ok", "lost"}, ~Failed(outcome))

Write(t, kind, outcome) ==
  /\ tasks[t].write.item \in Items(kind)
  /\ DavWrite(t, outcome) \/ JmapWrite(t, outcome)

PutContact(t, outcome) == tasks[t].op # "delete" /\ Write(t, "contact", outcome)
PutEvent(t, outcome) == tasks[t].op # "delete" /\ Write(t, "event", outcome)
PutTask(t, outcome) == tasks[t].op # "delete" /\ Write(t, "task", outcome)

RemoveContact(t, outcome) == tasks[t].op = "delete" /\ Write(t, "contact", outcome)
RemoveEvent(t, outcome) == tasks[t].op = "delete" /\ Write(t, "event", outcome)
RemoveTask(t, outcome) == tasks[t].op = "delete" /\ Write(t, "task", outcome)

Request(t) ==
  \E outcome \in Outcome :
    /\ Answered(outcome)
    /\ \/ ListAddressbooks(t, outcome) \/ ListCalendars(t, outcome)
       \/ ListContacts(t, outcome) \/ ListEvents(t, outcome) \/ ListTasks(t, outcome)
       \/ PutContact(t, outcome) \/ PutEvent(t, outcome) \/ PutTask(t, outcome)
       \/ RemoveContact(t, outcome) \/ RemoveEvent(t, outcome) \/ RemoveTask(t, outcome)
    /\ alone' = (alone /\ outcome = "ok" /\ server' = server)
    /\ fresh' = (fresh /\ outcome = "ok" /\ server' = server)
    /\ UNCHANGED <<protocol, account, screen, last, changes>>

\* Mutant: the rows of what is no longer there are kept.
KeepRows(t) ==
  /\ tasks[t].at = "wipe"
  /\ Becomes(t, [tasks[t] EXCEPT !.at = "fill"])
  /\ UNCHANGED <<protocol, account, server, tables, screen, last, changes, faults, fresh, alone, lost>>

\* save_contacts, or save_events and save_tasks: the rows of the account are
\* deleted and those that came are inserted, by statements of their own.
WipeRows(t) ==
  /\ tasks[t].at = "wipe"
  /\ rows' = Nothing
  /\ Becomes(t, [tasks[t] EXCEPT !.at = "fill"])
  /\ UNCHANGED <<protocol, account, server, table, screen, last, changes, faults, fresh, alone, lost>>

FillRows(t) ==
  /\ tasks[t].at = "fill"
  /\ rows' = [i \in Item |-> IF tasks[t].got[i] # None THEN tasks[t].got[i] ELSE rows[i]]
  /\ Becomes(t, [tasks[t] EXCEPT !.at = "done"])
  /\ UNCHANGED <<protocol, account, server, table, screen, last, changes, faults, fresh, alone, lost>>

\* The collections replace those in their table, and the delete or an insert fails.
CollectionsUnsaved(t) ==
  /\ tasks[t].op = "sync" /\ tasks[t].at = "collections"
  /\ table' \in {table, FALSE}
  /\ Becomes(t, [tasks[t] EXCEPT !.at = "items", !.todo = Kinds(account)])
  /\ UNCHANGED rows

\* A delete fails: the rows of this kind stay, and nothing is inserted.
RowsUnwiped(t, kind) ==
  /\ tasks[t].at = "wipe"
  /\ rows' = [i \in Item |-> IF i \in Items(kind) THEN rows[i] ELSE None]
  /\ Becomes(t, [tasks[t] EXCEPT !.at = "fill",
                   !.got = [i \in Item |-> IF i \in Items(kind) THEN None ELSE @[i]]])
  /\ UNCHANGED table

\* An insert fails: it and those after it are left out.
RowsUnfilled(t, kind) ==
  /\ tasks[t].at = "fill"
  /\ \E out \in SUBSET Items(kind) :
       rows' = [i \in Item |-> IF tasks[t].got[i] # None /\ i \notin out
                               THEN tasks[t].got[i] ELSE rows[i]]
  /\ Becomes(t, [tasks[t] EXCEPT !.at = "done"])
  /\ UNCHANGED table

\* A statement fails.  The sync goes on, and reports nothing.
Unsaved(t) ==
  /\ faults < MaxFaults /\ faults' = faults + 1
  /\ \/ CollectionsUnsaved(t)
     \/ \E kind \in Kinds(account) : RowsUnwiped(t, kind) \/ RowsUnfilled(t, kind)
  /\ alone' = FALSE /\ fresh' = FALSE
  /\ UNCHANGED <<protocol, account, server, screen, last, changes, lost>>

\* The message a task ends with.  What was saved or deleted is fetched by a
\* sync; what was imported is not.
Deliver(t) ==
  LET task == tasks[t]
  IN  /\ task.at \in {"done", "end"}
      /\ Becomes(t, IF task.op \in {"save", "delete"} THEN SyncTask ELSE None)
      /\ alone' = IF task.op \in {"save", "delete"} THEN Running = {t} ELSE alone /\ task.op # "sync"
      /\ fresh' = (fresh \/ (task.op = "sync" /\ alone))
      /\ CASE task.op = "fetch" ->
                /\ list' = [i \in Item |-> IF i \in Todo THEN list[i] ELSE task.got[i]]
                /\ UNCHANGED shown
           [] task.op \in {"sync", "import"} /\ task.at = "done" ->
                list' = rows /\ shown' = table
           [] OTHER -> UNCHANGED <<list, shown>>
      /\ UNCHANGED <<protocol, account, server, tables, chosen, selected, form, last, changes,
                     faults, lost>>

Step(t) == t \in Running /\ (Request(t) \/ WipeRows(t) \/ FillRows(t) \/ Unsaved(t) \/ Deliver(t))

-----------------------------------------------------------------------------
\* The process ends and is started; the lists are loaded, the tasks are gone.
Restart ==
  /\ faults < MaxFaults /\ faults' = faults + 1
  /\ tasks' = [t \in Slot |-> None]
  /\ list' = rows /\ shown' = table /\ chosen' = FALSE
  /\ selected' = [kind \in Kind |-> None] /\ form' = None
  /\ alone' = FALSE /\ fresh' = FALSE
  /\ UNCHANGED <<protocol, account, server, tables, last, changes, lost>>

\* Another client makes, changes or deletes an item.
Elsewhere(i) ==
  /\ Change
  /\ i \in Mine
  /\ server[i] = None => \A t \in Running : tasks[t].write.item # i
  /\ \E v \in {None, last + 1} : v # server[i] /\ server' = [server EXCEPT ![i] = v]
  /\ last' = last + 1
  /\ fresh' = FALSE /\ alone' = FALSE
  /\ UNCHANGED <<protocol, account, tables, screen, tasks, faults, lost>>

Next ==
  \/ SyncPersonalData \/ AddressbookSelected \/ CalendarSelected
  \/ NewContact \/ NewEvent \/ NewTask \/ CancelEdit
  \/ SaveContact \/ SaveEvent \/ SaveTask
  \/ DeleteContact \/ DeleteEvent \/ DeleteTask
  \/ ImportVcf \/ ImportIcs
  \/ \E i \in Item : ContactSelected(i) \/ EventSelected(i) \/ TaskSelected(i) \/ Elsewhere(i)
  \/ \E t \in Slot : Step(t)
  \/ Restart

Spec == Init /\ [][Next]_vars

\* Every task runs, its requests are answered, and the five minutes pass.
Fairness == WF_vars(SyncPersonalData) /\ \A t \in Slot : WF_vars(Step(t))

FairSpec == Spec /\ Fairness

-----------------------------------------------------------------------------
\* Properties

InStep == rows = server

Filling == \E t \in Running : tasks[t].at = "fill"

\* After a sync that nothing fell into, and until something changes, the tables
\* are what the server has, ghosts of what was deleted there gone, and the
\* screen shows nothing else: except while a later sync is between its
\* statements.
FreshAfterSync ==
  fresh =>
    /\ Filling \/ InStep
    /\ \A i \in Item : list[i] \in {server[i], None}

\* Over DAV an edit never replaces a version it was not made from, whatever the
\* lists and the server went through since the form was opened, however many
\* edits wait, and whether or not their answers were lost: unless something is
\* selected while the form is open, for then the form is saved over that, with
\* the version of that.
NoLostUpdate == protocol = "dav" => lost = {}

\* Whatever overlapped, failed or was interrupted, the five-minute sync repairs
\* it: the tables become what the server has, and stay so but for the moment
\* in which a sync has deleted the rows and not inserted them.
EventuallyInStep == <>[](Filling \/ InStep)
=============================================================================
