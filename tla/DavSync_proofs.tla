---------------------------- MODULE DavSync_proofs ----------------------------
(***************************************************************************)
(* DavSync for any number of items, tasks, users' changes and faults: over *)
(* DAV no edit or deletion replaces a version it was not made from, and    *)
(* after a sync that nothing disturbed, what is stored and shown is what   *)
(* the server has.                                                         *)
(***************************************************************************)
EXTENDS DavSync, TLAPS

\* A write that was made from a copy of the item it writes has the version of
\* that copy as its etag, and there is one: so If-Match is a real condition.
\* An etag that is None, of a new or an imported item, would match anything.
Guarded(write) ==
  write.base # None /\ write.base.item = write.item =>
    write.etag = write.base.version /\ write.etag # None

TaskShape(task) == DOMAIN task = {"op", "at", "write", "todo", "got"}

WritesGuarded ==
  /\ DOMAIN tasks = Slot
  /\ \A t \in Slot : tasks[t] # None => TaskShape(tasks[t]) /\ Guarded(tasks[t].write)

\* What is selected came from a list, with a version.
SelectionListed ==
  /\ DOMAIN selected = Kind
  /\ \A kind \in Kind : selected[kind] # None => selected[kind].version # None

\* Unless something was selected since, a form was filled from what is selected:
\* the copy whose version its save will send.
FormOfSelection ==
  form # None =>
    /\ DOMAIN form = {"kind", "copy", "again"}
    /\ form.kind \in Kind
    /\ form.again \in BOOLEAN
    /\ ~form.again => form.copy = selected[form.kind]

\* NoLostUpdate itself says nothing of the writes that wait, nor of the forms
\* they will be made of: this is its inductive form.
CopiesInv ==
  /\ WritesGuarded
  /\ SelectionListed
  /\ FormOfSelection
  /\ NoLostUpdate

-----------------------------------------------------------------------------

\* The state the invariant reads.
copyVars == <<protocol, selected, form, tasks, lost>>

\* Any task that starts is one whose write is guarded.
LEMMA BeginGuarded ==
  ASSUME WritesGuarded, NEW task, TaskShape(task), Guarded(task.write), Begin(task)
  PROVE  WritesGuarded'
BY DEF Begin, WritesGuarded

\* So is any task that goes on, or ends.
LEMMA BecomesGuarded ==
  ASSUME WritesGuarded, NEW t, NEW task, Becomes(t, task),
         task # None => TaskShape(task) /\ Guarded(task.write)
  PROVE  WritesGuarded'
BY DEF Becomes, WritesGuarded

LEMMA NothingWritten ==
  ASSUME NEW op, NEW at
  PROVE  TaskShape(Task(op, at, NoWrite)) /\ Guarded(Task(op, at, NoWrite).write)
BY DEF Task, TaskShape, Guarded, NoWrite

LEMMA TaskOf ==
  ASSUME NEW op, NEW at, NEW write, Guarded(write)
  PROVE  TaskShape(Task(op, at, write)) /\ Guarded(Task(op, at, write).write)
BY DEF Task, TaskShape

\* Selecting keeps the invariant, whatever is selected with a version: the form
\* is marked.
LEMMA SelectedAgainForm ==
  ASSUME FormOfSelection, form' = SelectedAgain
  PROVE  FormOfSelection'
BY DEF FormOfSelection, SelectedAgain

LEMMA InitCopies == Init => CopiesInv
BY DEF Init, CopiesInv, WritesGuarded, SelectionListed, FormOfSelection, NoLostUpdate, Kind

LEMMA Untouched ==
  ASSUME CopiesInv, UNCHANGED copyVars
  PROVE  CopiesInv'
BY DEF copyVars, CopiesInv, WritesGuarded, SelectionListed, FormOfSelection, NoLostUpdate

-----------------------------------------------------------------------------
\* The interface

LEMMA SyncPersonalDataCopies ==
  ASSUME CopiesInv, SyncPersonalData
  PROVE  CopiesInv'
<1>1. WritesGuarded'
  BY NothingWritten, BeginGuarded DEF CopiesInv, SyncPersonalData, SyncTask
<1>2. QED
  BY <1>1 DEF SyncPersonalData, screen, CopiesInv, SelectionListed, FormOfSelection, NoLostUpdate

LEMMA CollectionSelectedCopies ==
  ASSUME CopiesInv, NEW of, CollectionSelected(of)
  PROVE  CopiesInv'
<1>1. WritesGuarded'
  BY NothingWritten, BeginGuarded DEF CopiesInv, CollectionSelected
<1>2. SelectionListed'
  BY DEF CollectionSelected, SelectionListed
<1>3. FormOfSelection'
  BY SelectedAgainForm DEF CopiesInv, CollectionSelected
<1>4. QED
  BY <1>1, <1>2, <1>3 DEF CollectionSelected, CopiesInv, NoLostUpdate

LEMMA SelectedCopies ==
  ASSUME CopiesInv, NEW i, Selected(i)
  PROVE  CopiesInv'
<1>1. SelectionListed'
  BY DEF Selected, SelectionListed
<1>2. FormOfSelection'
  BY SelectedAgainForm DEF CopiesInv, Selected
<1>3. QED
  BY <1>1, <1>2 DEF Selected, CopiesInv, WritesGuarded, NoLostUpdate

LEMMA EditCopies ==
  ASSUME CopiesInv, NEW kind \in Kind, Edit(kind)
  PROVE  CopiesInv'
BY DEF Edit, CopiesInv, WritesGuarded, SelectionListed, FormOfSelection, NoLostUpdate

LEMMA CancelEditCopies ==
  ASSUME CopiesInv, CancelEdit
  PROVE  CopiesInv'
BY DEF CancelEdit, CopiesInv, WritesGuarded, SelectionListed, FormOfSelection, NoLostUpdate

\* The etag is that of what is selected, and so is the copy the form was filled
\* from, if nothing was selected since.
LEMMA SaveCopies ==
  ASSUME CopiesInv, NEW kind \in Kind, Save(kind)
  PROVE  CopiesInv'
<1>1. PICK i \in Items(kind) :
        Begin(Task("save", "request",
          [item    |-> i,
           etag    |-> IF selected[kind] = None THEN None ELSE selected[kind].version,
           base    |-> IF form.again THEN None ELSE form.copy,
           version |-> last + 1]))
  BY DEF Save
<1> DEFINE write == [item    |-> i,
                     etag    |-> IF selected[kind] = None THEN None ELSE selected[kind].version,
                     base    |-> IF form.again THEN None ELSE form.copy,
                     version |-> last + 1]
<1>2. ASSUME write.base # None
      PROVE  write.etag = write.base.version /\ write.etag # None
  <2>1. form.copy = selected[kind] /\ write.base = form.copy
    BY <1>2 DEF CopiesInv, FormOfSelection, Save
  <2>2. selected[kind] # None /\ selected[kind].version # None
    BY <1>2, <2>1 DEF CopiesInv, SelectionListed
  <2>3. QED
    BY <2>1, <2>2
<1>3. Guarded(write)
  BY <1>2 DEF Guarded
<1>4. WritesGuarded'
  BY <1>1, <1>3, TaskOf, BeginGuarded DEF CopiesInv
<1>5. QED
  BY <1>4 DEF Save, CopiesInv, SelectionListed, FormOfSelection, NoLostUpdate

LEMMA DeleteCopies ==
  ASSUME CopiesInv, NEW kind \in Kind, Delete(kind)
  PROVE  CopiesInv'
<1> DEFINE write == [item |-> selected[kind].item, etag |-> selected[kind].version,
                     base |-> selected[kind], version |-> None]
<1>1. Guarded(write)
  BY DEF Guarded, Delete, CopiesInv, SelectionListed
<1>2. WritesGuarded'
  BY <1>1, TaskOf, BeginGuarded DEF Delete, CopiesInv
<1>3. SelectionListed' /\ FormOfSelection'
  BY DEF Delete, CopiesInv, SelectionListed, FormOfSelection
<1>4. QED
  BY <1>2, <1>3 DEF Delete, CopiesInv, NoLostUpdate

LEMMA ImportCopies ==
  ASSUME CopiesInv, NEW i, Import(i)
  PROVE  CopiesInv'
<1> DEFINE write == [item |-> i, etag |-> None, base |-> None, version |-> last + 1]
<1>1. Guarded(write)
  BY DEF Guarded
<1>2. WritesGuarded'
  BY <1>1, TaskOf, BeginGuarded DEF Import, CopiesInv
<1>3. QED
  BY <1>2 DEF Import, screen, CopiesInv, SelectionListed, FormOfSelection, NoLostUpdate

-----------------------------------------------------------------------------
\* The tasks

\* What goes on with the write it had.
LEMMA GoesOnGuarded ==
  ASSUME WritesGuarded, NEW t \in Running, NEW task,
         \/ task = None
         \/ DOMAIN task = DOMAIN tasks[t] /\ task.write = tasks[t].write,
         Becomes(t, task)
  PROVE  WritesGuarded'
BY BecomesGuarded DEF Running, WritesGuarded, TaskShape

LEMMA ListCollectionsGuarded ==
  ASSUME WritesGuarded, NEW t \in Running, NEW of, NEW outcome, ListCollections(t, of, outcome)
  PROVE  WritesGuarded' /\ lost' = lost
<1> DEFINE task == tasks[t]
           next == IF outcome = "ok" THEN "items" ELSE IF task.op = "sync" THEN "wipe" ELSE "done"
           todo == IF task.op = "sync" THEN Kinds(account) ELSE Kinds(account) \ {"task"}
           goes == [task EXCEPT !.at = next, !.todo = todo]
<1>1. DOMAIN goes = DOMAIN task /\ goes.write = task.write
  BY DEF WritesGuarded, Running, TaskShape
<1>2. Becomes(t, None) \/ Becomes(t, goes)
  BY DEF ListCollections
<1>3. QED
  BY <1>1, <1>2, GoesOnGuarded DEF ListCollections

LEMMA ListItemsGuarded ==
  ASSUME WritesGuarded, NEW t \in Running, NEW kind, NEW outcome, ListItems(t, kind, outcome)
  PROVE  WritesGuarded' /\ lost' = lost
<1> DEFINE task == tasks[t]
           rest == task.todo \ {kind}
           next == IF rest # {} THEN "items" ELSE IF task.op = "sync" THEN "wipe" ELSE "done"
           goes == [task EXCEPT !.at = next, !.todo = rest,
                      !.got = [i \in Item |-> IF outcome = "ok" /\ i \in Items(kind) THEN server[i] ELSE @[i]]]
<1>1. DOMAIN goes = DOMAIN task /\ goes.write = task.write
  BY DEF WritesGuarded, Running, TaskShape
<1>2. Becomes(t, None) \/ Becomes(t, goes)
  BY DEF ListItems
<1>3. QED
  BY <1>1, <1>2, GoesOnGuarded DEF ListItems

LEMMA WrittenGuarded ==
  ASSUME WritesGuarded, NEW t \in Running, NEW taken, NEW ok, Written(t, taken, ok)
  PROVE  WritesGuarded'
<1> DEFINE goes == [tasks[t] EXCEPT !.at = IF ok THEN "done" ELSE "end"]
<1>1. DOMAIN goes = DOMAIN tasks[t] /\ goes.write = tasks[t].write
  BY DEF WritesGuarded, Running, TaskShape
<1>2. Becomes(t, None) \/ Becomes(t, goes)
  BY DEF Written
<1>3. QED
  BY <1>1, <1>2, GoesOnGuarded

\* The core: a write the server takes has its version as etag, or no etag, and a
\* write that was made from a copy of its item has the copy's version as etag.
LEMMA DavWriteLosesNothing ==
  ASSUME WritesGuarded, NEW t \in Running, NEW outcome, DavWrite(t, outcome)
  PROVE  lost' = lost
<1> DEFINE write == tasks[t].write
           match == write.etag = None \/ server[write.item] = write.etag
           taken == match /\ outcome \in {"ok", "lost"}
<1>1. Guarded(write)
  BY DEF Running, WritesGuarded
<1>2. ~ /\ taken /\ server[write.item] # None
        /\ write.base # None /\ write.base.item = write.item
        /\ write.base.version # server[write.item]
  BY <1>1 DEF Guarded
<1>3. Written(t, taken, match /\ outcome = "ok")
  BY DEF DavWrite
<1>4. QED
  BY <1>2, <1>3 DEF Written

LEMMA WriteCopies ==
  ASSUME WritesGuarded, NEW t \in Running, NEW kind, NEW outcome, Write(t, kind, outcome)
  PROVE  WritesGuarded' /\ (protocol = "dav" => lost' = lost)
<1>1. CASE DavWrite(t, outcome)
  BY <1>1, DavWriteLosesNothing, WrittenGuarded DEF DavWrite
<1>2. CASE JmapWrite(t, outcome)
  BY <1>2, WrittenGuarded DEF JmapWrite
<1>3. QED
  BY <1>1, <1>2 DEF Write

LEMMA RequestCopies ==
  ASSUME CopiesInv, NEW t \in Running, Request(t)
  PROVE  CopiesInv'
<1>1. PICK outcome \in Outcome :
        \/ ListAddressbooks(t, outcome) \/ ListCalendars(t, outcome)
        \/ ListContacts(t, outcome) \/ ListEvents(t, outcome) \/ ListTasks(t, outcome)
        \/ PutContact(t, outcome) \/ PutEvent(t, outcome) \/ PutTask(t, outcome)
        \/ RemoveContact(t, outcome) \/ RemoveEvent(t, outcome) \/ RemoveTask(t, outcome)
  BY DEF Request
<1>2. WritesGuarded' /\ (protocol = "dav" => lost' = lost)
  <2>0. WritesGuarded
    BY DEF CopiesInv
  <2>1. CASE ListAddressbooks(t, outcome) \/ ListCalendars(t, outcome)
    BY <2>0, <2>1, ListCollectionsGuarded DEF ListAddressbooks, ListCalendars
  <2>2. CASE ListContacts(t, outcome) \/ ListEvents(t, outcome) \/ ListTasks(t, outcome)
    BY <2>0, <2>2, ListItemsGuarded DEF ListContacts, ListEvents, ListTasks
  <2>3. CASE PutContact(t, outcome) \/ PutEvent(t, outcome) \/ PutTask(t, outcome)
    BY <2>0, <2>3, WriteCopies DEF PutContact, PutEvent, PutTask
  <2>4. CASE RemoveContact(t, outcome) \/ RemoveEvent(t, outcome) \/ RemoveTask(t, outcome)
    BY <2>0, <2>4, WriteCopies DEF RemoveContact, RemoveEvent, RemoveTask
  <2>5. QED
    BY <1>1, <2>1, <2>2, <2>3, <2>4
<1>3. UNCHANGED <<protocol, selected, form>>
  BY DEF Request, screen
<1>4. QED
  BY <1>2, <1>3 DEF CopiesInv, SelectionListed, FormOfSelection, NoLostUpdate

LEMMA StepCopies ==
  ASSUME CopiesInv, NEW t \in Slot, Step(t)
  PROVE  CopiesInv'
<1>0. t \in Running /\ WritesGuarded
  BY DEF Step, CopiesInv
<1>1. CASE Request(t)
  BY <1>0, <1>1, RequestCopies
<1> DEFINE on(at) == [tasks[t] EXCEPT !.at = at]
<1>2. \A at : DOMAIN on(at) = DOMAIN tasks[t] /\ on(at).write = tasks[t].write
  BY <1>0 DEF WritesGuarded, Running, TaskShape
<1>3. CASE WipeRows(t) \/ FillRows(t)
  <2>1. Becomes(t, on("fill")) \/ Becomes(t, on("done"))
    BY <1>3 DEF WipeRows, FillRows
  <2>2. WritesGuarded'
    BY <1>0, <1>2, <2>1, GoesOnGuarded
  <2>3. UNCHANGED <<protocol, selected, form, lost>>
    BY <1>3 DEF WipeRows, FillRows, screen
  <2>4. QED
    BY <2>2, <2>3 DEF CopiesInv, SelectionListed, FormOfSelection, NoLostUpdate
<1>4. CASE Unsaved(t)
  <2>1. ASSUME CollectionsUnsaved(t) PROVE WritesGuarded'
    <3> DEFINE goes == [tasks[t] EXCEPT !.at = "items", !.todo = Kinds(account)]
    <3>1. DOMAIN goes = DOMAIN tasks[t] /\ goes.write = tasks[t].write
      BY <1>0 DEF WritesGuarded, Running, TaskShape
    <3>2. Becomes(t, goes)
      BY <2>1 DEF CollectionsUnsaved
    <3> QED
      BY <1>0, <3>1, <3>2, GoesOnGuarded
  <2>2. ASSUME NEW kind, RowsUnwiped(t, kind) PROVE WritesGuarded'
    <3> DEFINE goes == [tasks[t] EXCEPT !.at = "fill",
                         !.got = [i \in Item |-> IF i \in Items(kind) THEN None ELSE @[i]]]
    <3>1. DOMAIN goes = DOMAIN tasks[t] /\ goes.write = tasks[t].write
      BY <1>0 DEF WritesGuarded, Running, TaskShape
    <3>2. Becomes(t, goes)
      BY <2>2 DEF RowsUnwiped
    <3> QED
      BY <1>0, <3>1, <3>2, GoesOnGuarded
  <2>3. ASSUME NEW kind, RowsUnfilled(t, kind) PROVE WritesGuarded'
    BY <1>0, <1>2, <2>3, GoesOnGuarded DEF RowsUnfilled
  <2>4. WritesGuarded'
    <3>1. \/ CollectionsUnsaved(t)
          \/ \E kind \in Kinds(account) : RowsUnwiped(t, kind) \/ RowsUnfilled(t, kind)
      BY <1>4 DEF Unsaved
    <3> QED
      BY <2>1, <2>2, <2>3, <3>1
  <2>5. UNCHANGED <<protocol, selected, form, lost>>
    BY <1>4 DEF Unsaved, screen
  <2>6. QED
    BY <2>4, <2>5 DEF CopiesInv, SelectionListed, FormOfSelection, NoLostUpdate
<1>5. CASE Deliver(t)
  <2>1. Becomes(t, SyncTask) \/ Becomes(t, None)
    BY <1>5 DEF Deliver
  <2>2. WritesGuarded'
    BY <1>0, <2>1, NothingWritten, BecomesGuarded DEF SyncTask
  <2>3. UNCHANGED <<protocol, selected, form, lost>>
    BY <1>5 DEF Deliver
  <2>4. QED
    BY <2>2, <2>3 DEF CopiesInv, SelectionListed, FormOfSelection, NoLostUpdate
<1>6. QED
  BY <1>1, <1>3, <1>4, <1>5 DEF Step

LEMMA RestartCopies ==
  ASSUME CopiesInv, Restart
  PROVE  CopiesInv'
BY DEF Restart, CopiesInv, WritesGuarded, SelectionListed, FormOfSelection, NoLostUpdate

-----------------------------------------------------------------------------

LEMMA NextCopies ==
  ASSUME CopiesInv, [Next]_vars
  PROVE  CopiesInv'
<1>1. CASE SyncPersonalData
  BY <1>1, SyncPersonalDataCopies
<1>2. CASE AddressbookSelected \/ CalendarSelected
  BY <1>2, CollectionSelectedCopies DEF AddressbookSelected, CalendarSelected
<1>3. CASE NewContact \/ NewEvent \/ NewTask
  BY <1>3, EditCopies DEF NewContact, NewEvent, NewTask, Kind
<1>4. CASE CancelEdit
  BY <1>4, CancelEditCopies
<1>5. CASE SaveContact \/ SaveEvent \/ SaveTask
  BY <1>5, SaveCopies DEF SaveContact, SaveEvent, SaveTask, Kind
<1>6. CASE DeleteContact \/ DeleteEvent \/ DeleteTask
  BY <1>6, DeleteCopies DEF DeleteContact, DeleteEvent, DeleteTask, Kind
<1>7. CASE ImportVcf \/ ImportIcs
  BY <1>7, ImportCopies DEF ImportVcf, ImportIcs
<1>8. CASE \E i \in Item : ContactSelected(i) \/ EventSelected(i) \/ TaskSelected(i)
  BY <1>8, SelectedCopies DEF ContactSelected, EventSelected, TaskSelected
<1>9. CASE \E i \in Item : Elsewhere(i)
  <2>1. UNCHANGED copyVars
    BY <1>9 DEF Elsewhere, copyVars, screen
  <2>2. QED
    BY <2>1, Untouched
<1>10. CASE \E t \in Slot : Step(t)
  BY <1>10, StepCopies
<1>11. CASE Restart
  BY <1>11, RestartCopies
<1>12. CASE UNCHANGED vars
  <2>1. UNCHANGED copyVars
    BY <1>12 DEF vars, copyVars, screen
  <2>2. QED
    BY <2>1, Untouched
<1>13. QED
  BY <1>1, <1>2, <1>3, <1>4, <1>5, <1>6, <1>7, <1>8, <1>9, <1>10, <1>11, <1>12 DEF Next

\* Over CardDAV and CalDAV no edit or deletion ever replaces a version it was not
\* made from, for any number of items, overlapping tasks and other clients,
\* whatever requests fail or are taken without an answer: If-Match of save_contact,
\* save_event, save_task and their deletions, with the etag of the copy.
THEOREM NoUpdateLost == Spec => []NoLostUpdate
<1>1. CopiesInv /\ [Next]_vars => CopiesInv'
  BY NextCopies
<1>2. CopiesInv => NoLostUpdate
  BY DEF CopiesInv
<1>3. QED
  BY InitCopies, <1>1, <1>2, PTL DEF Spec

-----------------------------------------------------------------------------
\* Syncs

\* None, which stands for a free slot, is no task.
NoneIsNoTask == \A task : TaskShape(task) => task # None

TaskOK(task) ==
  /\ TaskShape(task)
  /\ task.write.version # None => task.write.item \in Mine
  /\ task.op = "sync" => task.at \in {"collections", "items", "wipe", "fill", "done"}
  /\ task.at \in {"wipe", "fill"} => task.op = "sync"

ServerOK ==
  /\ server = [i \in Item |-> server[i]]
  /\ \A i \in Item : server[i] # None => i \in Mine

FormOK == form # None => DOMAIN form = {"kind", "copy", "again"} /\ form.kind \in Kinds(account)

ShapesOK ==
  /\ DOMAIN tasks = Slot
  /\ \A t \in Running : TaskOK(tasks[t])
  /\ FormOK
  /\ ServerOK

\* Copies of which each is the one at the server, or missing.
Partly(copies) == \A i \in Item : copies[i] \in {server[i], None}

\* What a task has is what the server has, and all of it of each kind that a sync
\* has asked for.
Fetched(task, kind) ==
  task.at \in {"wipe", "fill", "done"} \/ (task.at = "items" /\ kind \notin task.todo)

UpToDate(task) ==
  /\ Partly(task.got)
  /\ task.op = "sync" =>
       \A kind \in Kinds(account) :
         Fetched(task, kind) => \A i \in Items(kind) : task.got[i] = server[i]

\* FreshAfterSync says nothing of the tasks that run, whose copies will be the
\* rows: this is its inductive form.  As long as nothing disturbed the sync that
\* runs alone, or nothing changed since one that was not disturbed, every task has
\* what the server has.
FreshInv ==
  /\ ShapesOK
  /\ fresh \in BOOLEAN /\ alone \in BOOLEAN
  /\ alone => \A t, u \in Running : t = u /\ tasks[t].op = "sync"
  /\ fresh \/ alone => \A t \in Running : UpToDate(tasks[t])
  /\ fresh => (Filling \/ InStep) /\ Partly(rows) /\ Partly(list)
  /\ alone => \A t \in Running : /\ tasks[t].at = "fill" => Partly(rows)
                                 /\ tasks[t].at = "done" => InStep

LEMMA SameMine == UNCHANGED account => Mine' = Mine
BY DEF Mine, Kinds

\* A task begins: it is in a slot that was free.
LEMMA BeginFresh ==
  ASSUME NoneIsNoTask, FreshInv, NEW task, TaskOK(task), task.got = Nothing,
         task.at \in {"collections", "request"}, task.op = "sync" => task.at = "collections",
         Begin(task), UNCHANGED <<account, server, rows, list, fresh>>, FormOK'
  PROVE  FreshInv'
<1>1. PICK t \in Slot \ Running : tasks' = [tasks EXCEPT ![t] = task]
  BY DEF Begin
<1>2. /\ DOMAIN tasks' = Slot /\ Running' = Running \cup {t}
      /\ tasks'[t] = task /\ \A u \in Running : tasks'[u] = tasks[u]
  BY <1>1 DEF FreshInv, ShapesOK, Running, NoneIsNoTask, TaskOK
<1>3. ShapesOK'
  <2>1. \A u \in Running' : TaskOK(tasks[u])'
    BY <1>2, SameMine DEF FreshInv, ShapesOK, TaskOK, TaskShape
  <2>2. ServerOK'
    BY SameMine DEF FreshInv, ShapesOK, ServerOK
  <2> QED
    BY <1>2, <2>1, <2>2 DEF ShapesOK
<1>4. alone' => Running = {} /\ task.op = "sync"
  BY DEF Begin
<1>5. UpToDate(tasks[t])'
  BY <1>2 DEF UpToDate, Partly, Nothing, Fetched
<1>6. fresh' => \A u \in Running' : UpToDate(tasks[u])'
  <2> SUFFICES ASSUME fresh', NEW u \in Running PROVE UpToDate(tasks[u])'
    BY <1>2, <1>5
  <2>1. UpToDate(tasks[u])
    BY DEF FreshInv, Begin
  <2> QED
    BY <1>2, <2>1 DEF UpToDate, Partly, Fetched, Kinds
<1>7. fresh' => (Filling \/ InStep)' /\ Partly(rows)' /\ Partly(list)'
  BY <1>2 DEF FreshInv, Filling, InStep, Partly
<1>8. fresh' \in BOOLEAN /\ alone' \in BOOLEAN
  BY DEF FreshInv, Begin
<1> QED
  BY <1>2, <1>3, <1>4, <1>5, <1>6, <1>7, <1>8 DEF FreshInv

\* What leaves the tasks, the tables and the lists alone keeps the invariant.
LEMMA UntouchedFresh ==
  ASSUME FreshInv, UNCHANGED <<account, server, rows, list, tasks, fresh, alone>>, FormOK'
  PROVE  FreshInv'
<1>1. Running' = Running
  BY DEF Running
<1>2. ShapesOK'
  <2>1. \A u \in Running' : TaskOK(tasks[u])'
    BY <1>1, SameMine DEF FreshInv, ShapesOK, TaskOK, TaskShape
  <2>2. ServerOK'
    BY SameMine DEF FreshInv, ShapesOK, ServerOK
  <2> QED
    BY <2>1, <2>2 DEF FreshInv, ShapesOK
<1>3. fresh \/ alone => \A u \in Running' : UpToDate(tasks[u])'
  BY <1>1 DEF FreshInv, UpToDate, Partly, Fetched, Kinds
<1> QED
  BY <1>1, <1>2, <1>3 DEF FreshInv, Filling, InStep, Partly

\* So does what disturbs, as long as the shapes are kept.
LEMMA DisturbedFresh ==
  ASSUME ShapesOK', fresh' = FALSE, alone' = FALSE
  PROVE  FreshInv'
BY DEF FreshInv

-----------------------------------------------------------------------------
\* Syncs: the interface

LEMMA SelectedAgainOK ==
  ASSUME FormOK, UNCHANGED account, form' = SelectedAgain
  PROVE  FormOK'
BY DEF FormOK, SelectedAgain, Kinds

LEMMA SyncPersonalDataFresh ==
  ASSUME NoneIsNoTask, FreshInv, SyncPersonalData
  PROVE  FreshInv'
<1>1. TaskOK(SyncTask) /\ SyncTask.got = Nothing /\ SyncTask.at = "collections"
  BY DEF SyncTask, Task, NoWrite, TaskOK, TaskShape
<1>2. FormOK'
  BY DEF SyncPersonalData, screen, FreshInv, ShapesOK, FormOK, Kinds
<1> QED
  BY <1>1, <1>2, BeginFresh DEF SyncPersonalData, tables, screen

LEMMA CollectionSelectedFresh ==
  ASSUME NoneIsNoTask, FreshInv, NEW of, CollectionSelected(of)
  PROVE  FreshInv'
<1> DEFINE task == Task("fetch", "collections", NoWrite)
<1>1. TaskOK(task) /\ task.got = Nothing /\ task.at = "collections"
  BY DEF Task, NoWrite, TaskOK, TaskShape
<1>2. FormOK'
  BY SelectedAgainOK DEF CollectionSelected, FreshInv, ShapesOK
<1>3. Begin(task) /\ UNCHANGED <<account, server, rows, list, fresh>>
  BY DEF CollectionSelected, tables
<1> HIDE DEF task
<1> QED
  BY <1>1, <1>2, <1>3, BeginFresh

LEMMA SelectedFresh ==
  ASSUME FreshInv, NEW i, Selected(i)
  PROVE  FreshInv'
<1>1. FormOK'
  BY SelectedAgainOK DEF Selected, FreshInv, ShapesOK
<1> QED
  BY <1>1, UntouchedFresh DEF Selected, tables

LEMMA EditFresh ==
  ASSUME FreshInv, NEW kind, Edit(kind) \/ CancelEdit
  PROVE  FreshInv'
<1>1. FormOK'
  BY DEF Edit, CancelEdit, FormOK, Kinds
<1> QED
  BY <1>1, UntouchedFresh DEF Edit, CancelEdit, tables

\* A task that writes: an item of the account, if it is not a deletion.
LEMMA WriterFresh ==
  ASSUME NoneIsNoTask, FreshInv, NEW op \in {"save", "delete", "import"}, NEW write,
         write.version # None => write.item \in Mine, Begin(Task(op, "request", write)),
         UNCHANGED <<account, server, rows, list, fresh>>, FormOK'
  PROVE  FreshInv'
<1> DEFINE task == Task(op, "request", write)
<1>1. TaskOK(task) /\ task.got = Nothing /\ task.at = "request" /\ task.op # "sync"
  BY DEF Task, TaskOK, TaskShape
<1> HIDE DEF task
<1> QED
  BY <1>1, BeginFresh DEF task

LEMMA SaveFresh ==
  ASSUME NoneIsNoTask, FreshInv, NEW kind, Save(kind)
  PROVE  FreshInv'
<1>1. PICK i \in Items(kind) :
        Begin(Task("save", "request",
          [item    |-> i,
           etag    |-> IF selected[kind] = None THEN None ELSE selected[kind].version,
           base    |-> IF form.again THEN None ELSE form.copy,
           version |-> last + 1]))
  BY DEF Save
<1>2. i \in Mine
  BY DEF Save, FreshInv, ShapesOK, FormOK, Mine
<1>3. UNCHANGED <<account, server, rows, list, fresh>> /\ FormOK'
  BY DEF Save, tables, FormOK
<1> QED
  BY <1>1, <1>2, <1>3, WriterFresh

LEMMA DeleteFresh ==
  ASSUME NoneIsNoTask, FreshInv, NEW kind, Delete(kind)
  PROVE  FreshInv'
<1>1. Begin(Task("delete", "request",
        [item |-> selected[kind].item, etag |-> selected[kind].version,
         base |-> selected[kind], version |-> None]))
  BY DEF Delete
<1>2. UNCHANGED <<account, server, rows, list, fresh>> /\ FormOK'
  BY DEF Delete, tables, FormOK
<1> QED
  BY <1>1, <1>2, WriterFresh

LEMMA ImportFresh ==
  ASSUME NoneIsNoTask, FreshInv, NEW i, Import(i)
  PROVE  FreshInv'
<1>1. /\ i \in Mine
      /\ Begin(Task("import", "request", [item |-> i, etag |-> None, base |-> None, version |-> last + 1]))
  BY DEF Import
<1>2. UNCHANGED <<account, server, rows, list, fresh>> /\ FormOK'
  BY DEF Import, tables, screen, FormOK
<1> QED
  BY <1>1, <1>2, WriterFresh

-----------------------------------------------------------------------------
\* Syncs: the tasks

\* A running task becomes another, or ends.
LEMMA BecomesTask ==
  ASSUME NoneIsNoTask, ShapesOK, NEW t \in Running, NEW goes, Becomes(t, goes),
         goes = None \/ TaskShape(goes)
  PROVE  /\ DOMAIN tasks' = Slot /\ tasks'[t] = goes
         /\ Running' = IF goes = None THEN Running \ {t} ELSE Running
         /\ \A u \in Running \ {t} : tasks'[u] = tasks[u]
BY DEF ShapesOK, Running, NoneIsNoTask, Becomes

LEMMA BecomesShapes ==
  ASSUME NoneIsNoTask, ShapesOK, NEW t \in Running, NEW goes, Becomes(t, goes),
         goes = None \/ TaskOK(goes), UNCHANGED <<account, form>>, ServerOK'
  PROVE  ShapesOK'
<1>1. /\ DOMAIN tasks' = Slot /\ tasks'[t] = goes
      /\ Running' = IF goes = None THEN Running \ {t} ELSE Running
      /\ \A u \in Running \ {t} : tasks'[u] = tasks[u]
  BY BecomesTask DEF TaskOK
<1>2. \A u \in Running' : TaskOK(tasks[u])'
  BY <1>1, SameMine DEF ShapesOK, TaskOK, TaskShape
<1>3. FormOK'
  BY DEF ShapesOK, FormOK, Kinds
<1> QED
  BY <1>1, <1>2, <1>3 DEF ShapesOK

\* A task that goes on without touching tables or lists, up to date if it was.
LEMMA GoesOnFresh ==
  ASSUME NoneIsNoTask, FreshInv, NEW t \in Running, NEW goes, Becomes(t, goes),
         tasks[t].at \notin {"wipe", "fill", "done"},
         goes # None => /\ TaskOK(goes) /\ goes.op = tasks[t].op /\ goes.at # "fill"
                        /\ goes.op = "sync" => goes.at # "done"
                        /\ UpToDate(tasks[t]) => UpToDate(goes),
         UNCHANGED <<account, server, rows, list, form, fresh, alone>>
  PROVE  FreshInv'
<1>1. /\ tasks'[t] = goes
      /\ Running' = IF goes = None THEN Running \ {t} ELSE Running
      /\ \A u \in Running \ {t} : tasks'[u] = tasks[u]
  BY BecomesTask DEF FreshInv, TaskOK
<1>2. ShapesOK'
  <2>1. ServerOK'
    BY SameMine DEF FreshInv, ShapesOK, ServerOK
  <2> QED
    BY <2>1, BecomesShapes DEF FreshInv
<1>3. ASSUME fresh \/ alone, NEW u \in Running'
      PROVE  UpToDate(tasks[u])'
  <2>1. UpToDate(tasks'[u])
    BY <1>1, <1>3 DEF FreshInv
  <2> QED
    BY <2>1 DEF UpToDate, Partly, Fetched, Kinds
<1>4. alone => \A u, v \in Running' : u = v /\ tasks'[u].op = "sync"
  BY <1>1 DEF FreshInv
<1>5. Filling => Filling'
  BY <1>1, NoneIsNoTask DEF Filling
<1>6. alone => \A u \in Running' : /\ tasks'[u].at = "fill" => Partly(rows)'
                                   /\ tasks'[u].at = "done" => InStep'
  BY <1>1, <1>4 DEF FreshInv, Partly, InStep
<1> QED
  BY <1>2, <1>3, <1>4, <1>5, <1>6 DEF FreshInv, Partly, InStep

LEMMA ListCollectionsFresh ==
  ASSUME NoneIsNoTask, FreshInv, NEW t \in Running, NEW of, NEW outcome,
         ListCollections(t, of, outcome), UNCHANGED <<account, list, form>>,
         \/ outcome = "ok" /\ UNCHANGED <<fresh, alone>>
         \/ fresh' = FALSE /\ alone' = FALSE
  PROVE  FreshInv'
<1> DEFINE task == tasks[t]
           next == IF outcome = "ok" THEN "items" ELSE IF task.op = "sync" THEN "wipe" ELSE "done"
           todo == IF task.op = "sync" THEN Kinds(account) ELSE Kinds(account) \ {"task"}
           goes == [task EXCEPT !.at = next, !.todo = todo]
<1>1. TaskOK(task) /\ task.at = "collections"
  BY DEF FreshInv, ShapesOK, ListCollections
<1>2. /\ TaskShape(goes) /\ goes.at = next /\ goes.todo = todo
      /\ goes.op = task.op /\ goes.write = task.write /\ goes.got = task.got
  BY <1>1 DEF TaskOK, TaskShape
<1>3. \E new \in {None, goes} : Becomes(t, new) /\ (new = goes \/ outcome # "ok")
  BY DEF ListCollections, Failed
<1>4. UNCHANGED <<server, rows>>
  BY DEF ListCollections
<1>5. TaskOK(goes)
  BY <1>1, <1>2 DEF TaskOK
<1>6. CASE outcome = "ok" /\ UNCHANGED <<fresh, alone>>
  <2>1. goes.at = "items" /\ Becomes(t, goes)
    BY <1>2, <1>3, <1>6
  <2>2. UpToDate(task) => UpToDate(goes)
    BY <1>2, <2>1 DEF UpToDate, Fetched
  <2> HIDE DEF goes
  <2> QED
    BY <1>1, <1>2, <1>4, <1>5, <1>6, <2>1, <2>2, GoesOnFresh
<1>7. CASE fresh' = FALSE /\ alone' = FALSE
  <2> HIDE DEF goes
  <2>1. ServerOK'
    BY <1>4, SameMine DEF FreshInv, ShapesOK, ServerOK
  <2>2. ShapesOK'
    BY <1>3, <1>5, <2>1, BecomesShapes DEF FreshInv
  <2> QED
    BY <1>7, <2>2, DisturbedFresh
<1> QED
  BY <1>6, <1>7

LEMMA ListItemsFresh ==
  ASSUME NoneIsNoTask, FreshInv, NEW t \in Running, NEW kind, NEW outcome,
         ListItems(t, kind, outcome), UNCHANGED <<account, list, form>>,
         \/ outcome = "ok" /\ UNCHANGED <<fresh, alone>>
         \/ fresh' = FALSE /\ alone' = FALSE
  PROVE  FreshInv'
<1> DEFINE task == tasks[t]
           rest == task.todo \ {kind}
           next == IF rest # {} THEN "items" ELSE IF task.op = "sync" THEN "wipe" ELSE "done"
           got  == [i \in Item |-> IF outcome = "ok" /\ i \in Items(kind) THEN server[i] ELSE task.got[i]]
           goes == [task EXCEPT !.at = next, !.todo = rest, !.got = got]
<1>1. TaskOK(task) /\ task.at = "items"
  BY DEF FreshInv, ShapesOK, ListItems
<1>2. /\ TaskShape(goes) /\ goes.at = next /\ goes.todo = rest
      /\ goes.op = task.op /\ goes.write = task.write /\ goes.got = got
  BY <1>1 DEF TaskOK, TaskShape
<1>3. \E new \in {None, goes} : Becomes(t, new) /\ (new = goes \/ outcome # "ok")
  BY <1>1 DEF ListItems, Failed, TaskOK, TaskShape
<1>4. UNCHANGED <<server, rows>>
  BY DEF ListItems
<1>5. TaskOK(goes)
  BY <1>1, <1>2 DEF TaskOK
<1>6. CASE outcome = "ok" /\ UNCHANGED <<fresh, alone>>
  <2>1. Becomes(t, goes)
    BY <1>3, <1>6
  <2>2. UpToDate(task) => UpToDate(goes)
    <3> SUFFICES ASSUME UpToDate(task) PROVE UpToDate(goes)
      OBVIOUS
    <3>1. Partly(goes.got)
      BY <1>2, <1>6 DEF UpToDate, Partly
    <3>2. ASSUME goes.op = "sync", NEW k \in Kinds(account), Fetched(goes, k), NEW i \in Items(k)
          PROVE  goes.got[i] = server[i]
      <4>1. i \in Item
        BY DEF Items, Item
      <4>2. CASE i \in Items(kind)
        BY <1>2, <1>6, <4>1, <4>2
      <4>3. CASE i \notin Items(kind)
        <5>1. k # kind
          BY <4>3
        <5>2. k \notin task.todo
          BY <1>2, <3>2, <5>1 DEF Fetched
        <5>3. task.got[i] = server[i]
          BY <1>1, <1>2, <3>2, <5>2 DEF UpToDate, Fetched
        <5> QED
          BY <1>2, <4>1, <4>3, <5>3
      <4> QED
        BY <4>2, <4>3
    <3> QED
      BY <3>1, <3>2 DEF UpToDate
  <2>3. goes.at # "fill" /\ (goes.op = "sync" => goes.at # "done")
    BY <1>2
  <2> HIDE DEF goes
  <2> QED
    BY <1>1, <1>2, <1>4, <1>5, <1>6, <2>1, <2>2, <2>3, GoesOnFresh
<1>7. CASE fresh' = FALSE /\ alone' = FALSE
  <2> HIDE DEF goes
  <2>1. ServerOK'
    BY <1>4, SameMine DEF FreshInv, ShapesOK, ServerOK
  <2>2. ShapesOK'
    BY <1>3, <1>5, <2>1, BecomesShapes DEF FreshInv
  <2> QED
    BY <1>7, <2>2, DisturbedFresh
<1> QED
  BY <1>6, <1>7

\* A write that is taken disturbs, and one that is not leaves the server as it is.
LEMMA WrittenFresh ==
  ASSUME NoneIsNoTask, FreshInv, NEW t \in Running, NEW taken, NEW ok,
         Written(t, taken, ok), UNCHANGED <<account, list, form>>,
         \/ UNCHANGED <<server, fresh, alone>>
         \/ fresh' = FALSE /\ alone' = FALSE
  PROVE  FreshInv'
<1> DEFINE task == tasks[t]
           goes == [task EXCEPT !.at = IF ok THEN "done" ELSE "end"]
<1>1. TaskOK(task) /\ task.at = "request" /\ task.op # "sync"
  BY DEF FreshInv, ShapesOK, Written, TaskOK
<1>2. /\ TaskShape(goes) /\ goes.at \in {"done", "end"} /\ goes.todo = task.todo
      /\ goes.op = task.op /\ goes.write = task.write /\ goes.got = task.got
  BY <1>1 DEF TaskOK, TaskShape
<1>3. \E new \in {None, goes} : Becomes(t, new)
  BY DEF Written
<1>4. TaskOK(goes)
  BY <1>1, <1>2 DEF TaskOK
<1>5. UNCHANGED rows
  BY DEF Written, tables
<1>6. ServerOK'
  <2>1. server' = server \/ server' = [server EXCEPT ![task.write.item] = task.write.version]
    BY DEF Written
  <2>2. server' = [i \in Item |-> server'[i]]
    BY <2>1 DEF FreshInv, ShapesOK, ServerOK
  <2>3. \A i \in Item : server'[i] # None => i \in Mine
    BY <1>1, <2>1 DEF FreshInv, ShapesOK, ServerOK, TaskOK
  <2> QED
    BY <2>2, <2>3, SameMine DEF ServerOK
<1>7. CASE UNCHANGED <<server, fresh, alone>>
  <2>1. UpToDate(task) => UpToDate(goes)
    BY <1>1, <1>2 DEF UpToDate
  <2> HIDE DEF goes
  <2> QED
    BY <1>1, <1>2, <1>3, <1>4, <1>5, <1>7, <2>1, GoesOnFresh
<1>8. CASE fresh' = FALSE /\ alone' = FALSE
  <2> HIDE DEF goes
  <2>1. ShapesOK'
    BY <1>3, <1>4, <1>6, BecomesShapes DEF FreshInv
  <2> QED
    BY <1>8, <2>1, DisturbedFresh
<1> QED
  BY <1>7, <1>8

LEMMA RequestFresh ==
  ASSUME NoneIsNoTask, FreshInv, NEW t \in Running, Request(t)
  PROVE  FreshInv'
<1>1. PICK outcome \in Outcome :
        /\ \/ ListAddressbooks(t, outcome) \/ ListCalendars(t, outcome)
           \/ ListContacts(t, outcome) \/ ListEvents(t, outcome) \/ ListTasks(t, outcome)
           \/ PutContact(t, outcome) \/ PutEvent(t, outcome) \/ PutTask(t, outcome)
           \/ RemoveContact(t, outcome) \/ RemoveEvent(t, outcome) \/ RemoveTask(t, outcome)
        /\ alone' = (alone /\ outcome = "ok" /\ server' = server)
        /\ fresh' = (fresh /\ outcome = "ok" /\ server' = server)
  BY DEF Request
<1>2. UNCHANGED <<account, list, form>>
  BY DEF Request, screen
<1>3. \/ outcome = "ok" /\ UNCHANGED <<server, fresh, alone>>
      \/ fresh' = FALSE /\ alone' = FALSE
  BY <1>1 DEF FreshInv
<1>4. CASE ListAddressbooks(t, outcome) \/ ListCalendars(t, outcome)
  BY <1>2, <1>3, <1>4, ListCollectionsFresh DEF ListAddressbooks, ListCalendars
<1>5. CASE ListContacts(t, outcome) \/ ListEvents(t, outcome) \/ ListTasks(t, outcome)
  BY <1>2, <1>3, <1>5, ListItemsFresh DEF ListContacts, ListEvents, ListTasks
<1>6. ASSUME NEW kind, Write(t, kind, outcome) PROVE FreshInv'
  <2>1. \E taken, ok : Written(t, taken, ok)
    BY <1>6 DEF Write, DavWrite, JmapWrite
  <2> QED
    BY <1>2, <1>3, <2>1, WrittenFresh
<1>7. CASE \/ PutContact(t, outcome) \/ PutEvent(t, outcome) \/ PutTask(t, outcome)
           \/ RemoveContact(t, outcome) \/ RemoveEvent(t, outcome) \/ RemoveTask(t, outcome)
  BY <1>6, <1>7 DEF PutContact, PutEvent, PutTask, RemoveContact, RemoveEvent, RemoveTask
<1> QED
  BY <1>1, <1>4, <1>5, <1>7

\* While every row is the server's or missing, a sync that is up to date makes the
\* tables those of the server.
LEMMA FillsUp ==
  ASSUME ServerOK, NEW task, UpToDate(task), task.op = "sync", task.at = "fill", Partly(rows),
         rows' = [i \in Item |-> IF task.got[i] # None THEN task.got[i] ELSE rows[i]]
  PROVE  rows' = server
<1>1. ASSUME NEW i \in Item PROVE rows'[i] = server[i]
  <2>1. CASE i \in Mine
    <3>1. PICK kind \in Kinds(account) : i \in Items(kind)
      BY <2>1 DEF Mine
    <3>2. task.got[i] = server[i]
      BY <3>1 DEF UpToDate, Fetched
    <3> QED
      BY <3>2 DEF Partly
  <2>2. CASE i \notin Mine
    BY <2>2 DEF ServerOK, UpToDate, Partly
  <2> QED
    BY <2>1, <2>2
<1> QED
  BY <1>1 DEF ServerOK

LEMMA RowsFresh ==
  ASSUME NoneIsNoTask, FreshInv, NEW t \in Running, WipeRows(t) \/ FillRows(t)
  PROVE  FreshInv'
<1> DEFINE task == tasks[t]
           goes == [task EXCEPT !.at = IF task.at = "wipe" THEN "fill" ELSE "done"]
<1>1. TaskOK(task) /\ task.at \in {"wipe", "fill"} /\ task.op = "sync"
  BY DEF FreshInv, ShapesOK, WipeRows, FillRows, TaskOK
<1>2. /\ TaskShape(goes) /\ goes.at = (IF task.at = "wipe" THEN "fill" ELSE "done")
      /\ goes.todo = task.todo /\ goes.op = task.op /\ goes.write = task.write /\ goes.got = task.got
  BY <1>1 DEF TaskOK, TaskShape
<1>3. Becomes(t, goes) /\ UNCHANGED <<account, server, list, form, fresh, alone>>
  BY DEF WipeRows, FillRows, screen
<1>4. /\ task.at = "wipe" => rows' = Nothing
      /\ task.at = "fill" =>
           rows' = [i \in Item |-> IF task.got[i] # None THEN task.got[i] ELSE rows[i]]
  BY DEF WipeRows, FillRows
<1>5. TaskOK(goes) /\ goes # None
  BY <1>1, <1>2 DEF TaskOK, NoneIsNoTask
<1> HIDE DEF goes
<1>6. /\ tasks'[t] = goes /\ Running' = Running
      /\ \A u \in Running \ {t} : tasks'[u] = tasks[u]
  BY <1>2, <1>3, <1>5, BecomesTask DEF FreshInv
<1>7. ServerOK' /\ ShapesOK'
  <2>1. ServerOK'
    BY <1>3, SameMine DEF FreshInv, ShapesOK, ServerOK
  <2> QED
    BY <1>3, <1>5, <2>1, BecomesShapes DEF FreshInv
<1>8. ASSUME fresh \/ alone PROVE \A u \in Running' : UpToDate(tasks[u])'
  <2>1. UpToDate(goes)
    BY <1>1, <1>2, <1>8 DEF FreshInv, UpToDate, Fetched
  <2>2. \A u \in Running : UpToDate(tasks'[u])
    BY <1>6, <1>8, <2>1 DEF FreshInv
  <2> QED
    BY <1>3, <1>6, <2>2 DEF UpToDate, Partly, Fetched, Kinds
<1>9. ASSUME fresh \/ alone, task.at = "fill", Partly(rows) PROVE rows' = server
  BY <1>1, <1>4, <1>9, FillsUp DEF FreshInv, ShapesOK
<1>10. Partly(Nothing) /\ Partly(server)
  BY DEF Partly, Nothing
<1>11. ASSUME fresh PROVE (Filling \/ InStep)' /\ Partly(rows)' /\ Partly(list)'
  <2>1. CASE task.at = "wipe"
    BY <1>2, <1>3, <1>4, <1>6, <1>10, <1>11, <2>1 DEF FreshInv, Filling, Partly
  <2>2. CASE task.at = "fill"
    BY <1>3, <1>9, <1>10, <1>11, <2>2 DEF FreshInv, InStep, Partly
  <2> QED
    BY <1>1, <2>1, <2>2
<1>12. ASSUME alone PROVE \A u \in Running' : /\ tasks'[u].at = "fill" => Partly(rows)'
                                              /\ tasks'[u].at = "done" => InStep'
  <2>1. Running' = {t} /\ tasks'[t] = goes
    BY <1>6, <1>12 DEF FreshInv
  <2>2. CASE task.at = "wipe"
    BY <1>2, <1>3, <1>4, <1>10, <2>1, <2>2 DEF Partly
  <2>3. CASE task.at = "fill"
    BY <1>2, <1>3, <1>9, <1>12, <2>1, <2>3 DEF FreshInv, InStep
  <2> QED
    BY <1>1, <2>2, <2>3
<1>13. alone => \A u, v \in Running' : u = v /\ tasks'[u].op = "sync"
  BY <1>1, <1>2, <1>6 DEF FreshInv
<1> QED
  BY <1>3, <1>7, <1>8, <1>11, <1>12, <1>13 DEF FreshInv

\* A statement that fails disturbs.
LEMMA UnsavedFresh ==
  ASSUME NoneIsNoTask, FreshInv, NEW t \in Running, Unsaved(t)
  PROVE  FreshInv'
<1>1. TaskOK(tasks[t])
  BY DEF FreshInv, ShapesOK
<1>2. /\ UNCHANGED <<account, server, form>> /\ fresh' = FALSE /\ alone' = FALSE
  BY DEF Unsaved, screen
<1>3. PICK goes : Becomes(t, goes) /\ TaskOK(goes)
  <2>1. CASE CollectionsUnsaved(t)
    <3> DEFINE goes == [tasks[t] EXCEPT !.at = "items", !.todo = Kinds(account)]
    <3>1. Becomes(t, goes)
      BY <2>1 DEF CollectionsUnsaved
    <3>2. TaskOK(goes)
      BY <1>1, <2>1 DEF CollectionsUnsaved, TaskOK, TaskShape
    <3> QED
      BY <3>1, <3>2
  <2>2. ASSUME NEW kind, RowsUnwiped(t, kind) PROVE \E goes : Becomes(t, goes) /\ TaskOK(goes)
    <3> DEFINE goes == [tasks[t] EXCEPT !.at = "fill",
                         !.got = [i \in Item |-> IF i \in Items(kind) THEN None ELSE @[i]]]
    <3>1. Becomes(t, goes)
      BY <2>2 DEF RowsUnwiped
    <3>2. TaskOK(goes)
      BY <1>1, <2>2 DEF RowsUnwiped, TaskOK, TaskShape
    <3> QED
      BY <3>1, <3>2
  <2>3. ASSUME NEW kind, RowsUnfilled(t, kind) PROVE \E goes : Becomes(t, goes) /\ TaskOK(goes)
    <3> DEFINE goes == [tasks[t] EXCEPT !.at = "done"]
    <3>1. Becomes(t, goes)
      BY <2>3 DEF RowsUnfilled
    <3>2. TaskOK(goes)
      BY <1>1, <2>3 DEF RowsUnfilled, TaskOK, TaskShape
    <3> QED
      BY <3>1, <3>2
  <2> QED
    BY <2>1, <2>2, <2>3 DEF Unsaved
<1>4. ServerOK'
  BY <1>2, SameMine DEF FreshInv, ShapesOK, ServerOK
<1>5. ShapesOK'
  BY <1>2, <1>3, <1>4, BecomesShapes DEF FreshInv
<1> QED
  BY <1>2, <1>5, DisturbedFresh

\* A sync that nothing disturbed ends, and the lists are loaded; or another task
\* ends, and what was saved or deleted leads to a sync.
LEMMA DeliverFresh ==
  ASSUME NoneIsNoTask, FreshInv, NEW t \in Running, Deliver(t)
  PROVE  FreshInv'
<1> DEFINE task == tasks[t]
           goes == IF task.op \in {"save", "delete"} THEN SyncTask ELSE None
<1>1. TaskOK(task) /\ task.at \in {"done", "end"}
  BY DEF FreshInv, ShapesOK, Deliver
<1>2. /\ Becomes(t, goes) /\ UNCHANGED <<account, server, rows, form>>
      /\ alone' = IF task.op \in {"save", "delete"} THEN Running = {t} ELSE alone /\ task.op # "sync"
      /\ fresh' = (fresh \/ (task.op = "sync" /\ alone))
  BY DEF Deliver, tables
<1>3. \/ list' = [i \in Item |-> IF i \in Todo THEN list[i] ELSE task.got[i]] /\ task.op = "fetch"
      \/ list' = rows
      \/ list' = list /\ (task.op # "sync" \/ task.at # "done")
  BY DEF Deliver
<1>4. TaskOK(SyncTask) /\ SyncTask.got = Nothing /\ SyncTask.at = "collections" /\ SyncTask.op = "sync"
  BY DEF SyncTask, Task, NoWrite, TaskOK, TaskShape
<1>5. goes = None \/ (TaskOK(goes) /\ goes = SyncTask)
  BY <1>4
<1> HIDE DEF goes
<1>6. /\ tasks'[t] = goes
      /\ Running' = IF goes = None THEN Running \ {t} ELSE Running
      /\ \A u \in Running \ {t} : tasks'[u] = tasks[u]
  BY <1>2, <1>5, BecomesTask DEF FreshInv, TaskOK
<1>7. ShapesOK'
  <2>1. ServerOK'
    BY <1>2, SameMine DEF FreshInv, ShapesOK, ServerOK
  <2> QED
    BY <1>2, <1>5, <2>1, BecomesShapes DEF FreshInv
<1>8. fresh' \in BOOLEAN /\ alone' \in BOOLEAN
  BY <1>2 DEF FreshInv
<1>9. ASSUME alone, task.op = "sync" PROVE Running = {t} /\ goes = None /\ InStep
  BY <1>1, <1>9 DEF FreshInv, goes, TaskOK
<1>10. alone' => \A u \in Running' : u = t
  <2>1. CASE task.op \in {"save", "delete"}
    BY <1>2, <1>6, <2>1
  <2>2. CASE task.op \notin {"save", "delete"}
    BY <1>2, <2>2 DEF FreshInv
  <2> QED
    BY <2>1, <2>2
<1>11. ASSUME NEW u \in Running', u = t PROVE tasks'[u] = SyncTask
  BY <1>5, <1>6, <1>11
<1>12. ASSUME fresh' \/ alone', NEW u \in Running' PROVE UpToDate(tasks[u])'
  <2>1. CASE u = t
    BY <1>4, <1>11, <2>1 DEF UpToDate, Partly, Fetched, Nothing
  <2>2. CASE u # t
    <3>1. fresh
      BY <1>2, <1>6, <1>9, <1>10, <1>12, <2>2
    <3>2. UpToDate(tasks'[u])
      BY <1>6, <2>2, <3>1 DEF FreshInv
    <3> QED
      BY <1>2, <3>2 DEF UpToDate, Partly, Fetched, Kinds
  <2> QED
    BY <2>1, <2>2
<1>13. ASSUME fresh' PROVE (Filling \/ InStep)' /\ Partly(rows)' /\ Partly(list)'
  <2>1. (Filling \/ InStep) /\ Partly(rows) /\ (list' = rows \/ Partly(list))
    <3>1. CASE fresh
      BY <3>1 DEF FreshInv
    <3>2. CASE ~fresh
      <4>1. task.op = "sync" /\ alone /\ task.at = "done"
        BY <1>1, <1>2, <1>13, <3>2 DEF TaskOK
      <4> QED
        BY <1>3, <1>9, <4>1 DEF InStep, Partly
    <3> QED
      BY <3>1, <3>2
  <2>2. Filling => Filling'
    BY <1>1, <1>6 DEF Filling
  <2>3. Partly(list')
    <3>1. CASE list' = [i \in Item |-> IF i \in Todo THEN list[i] ELSE task.got[i]] /\ task.op = "fetch"
      <4>1. fresh
        BY <1>2, <1>13, <3>1
      <4>2. Partly(list) /\ Partly(task.got)
        BY <4>1 DEF FreshInv, UpToDate
      <4> QED
        BY <3>1, <4>2 DEF Partly
    <3>2. CASE list' = rows
      BY <2>1, <3>2
    <3>3. CASE list' = list /\ (task.op # "sync" \/ task.at # "done")
      BY <2>1, <3>3
    <3> QED
      BY <1>3, <3>1, <3>2, <3>3
  <2> QED
    BY <1>2, <2>1, <2>2, <2>3 DEF InStep, Partly
<1> QED
  BY <1>4, <1>7, <1>8, <1>10, <1>11, <1>12, <1>13 DEF FreshInv

-----------------------------------------------------------------------------

LEMMA RestartFresh ==
  ASSUME FreshInv, Restart
  PROVE  FreshInv'
<1>1. /\ tasks' = [t \in Slot |-> None] /\ form' = None /\ alone' = FALSE /\ fresh' = FALSE
      /\ UNCHANGED <<account, server>>
  BY DEF Restart
<1>2. DOMAIN tasks' = Slot /\ Running' = {} /\ FormOK'
  BY <1>1 DEF Running, FormOK
<1>3. ServerOK'
  BY <1>1, SameMine DEF FreshInv, ShapesOK, ServerOK
<1>4. ShapesOK'
  BY <1>2, <1>3 DEF ShapesOK
<1> QED
  BY <1>1, <1>4, DisturbedFresh

LEMMA ElsewhereFresh ==
  ASSUME FreshInv, NEW i, Elsewhere(i)
  PROVE  FreshInv'
<1>1. PICK v : server' = [server EXCEPT ![i] = v]
  BY DEF Elsewhere
<1>2. /\ i \in Mine /\ UNCHANGED <<account, tasks, form>> /\ fresh' = FALSE /\ alone' = FALSE
  BY DEF Elsewhere, screen
<1>3. ServerOK'
  <2>1. server' = [j \in Item |-> server'[j]]
    BY <1>1 DEF FreshInv, ShapesOK, ServerOK
  <2>2. \A j \in Item : server'[j] # None => j \in Mine
    BY <1>1, <1>2 DEF FreshInv, ShapesOK, ServerOK
  <2> QED
    BY <1>2, <2>1, <2>2, SameMine DEF ServerOK
<1>4. \A u \in Running' : TaskOK(tasks[u])'
  BY <1>2, SameMine DEF FreshInv, ShapesOK, Running, TaskOK, TaskShape
<1>5. ShapesOK'
  BY <1>2, <1>3, <1>4 DEF FreshInv, ShapesOK, FormOK, Kinds
<1> QED
  BY <1>2, <1>5, DisturbedFresh

LEMMA NextFresh ==
  ASSUME NoneIsNoTask, FreshInv, [Next]_vars
  PROVE  FreshInv'
<1>1. CASE SyncPersonalData
  BY <1>1, SyncPersonalDataFresh
<1>2. CASE AddressbookSelected \/ CalendarSelected
  BY <1>2, CollectionSelectedFresh DEF AddressbookSelected, CalendarSelected
<1>3. CASE NewContact \/ NewEvent \/ NewTask \/ CancelEdit
  BY <1>3, EditFresh DEF NewContact, NewEvent, NewTask
<1>4. CASE SaveContact \/ SaveEvent \/ SaveTask
  BY <1>4, SaveFresh DEF SaveContact, SaveEvent, SaveTask
<1>5. CASE DeleteContact \/ DeleteEvent \/ DeleteTask
  BY <1>5, DeleteFresh DEF DeleteContact, DeleteEvent, DeleteTask
<1>6. CASE ImportVcf \/ ImportIcs
  BY <1>6, ImportFresh DEF ImportVcf, ImportIcs
<1>7. CASE \E i \in Item : ContactSelected(i) \/ EventSelected(i) \/ TaskSelected(i)
  BY <1>7, SelectedFresh DEF ContactSelected, EventSelected, TaskSelected
<1>8. CASE \E i \in Item : Elsewhere(i)
  BY <1>8, ElsewhereFresh
<1>9. CASE \E t \in Slot : Step(t)
  BY <1>9, RequestFresh, RowsFresh, UnsavedFresh, DeliverFresh DEF Step
<1>10. CASE Restart
  BY <1>10, RestartFresh
<1>11. CASE UNCHANGED vars
  <2>1. UNCHANGED <<account, server, rows, list, form, tasks, fresh, alone>>
    BY <1>11 DEF vars, tables, screen
  <2>2. FormOK'
    BY <2>1 DEF FreshInv, ShapesOK, FormOK, Kinds
  <2> QED
    BY <2>1, <2>2, UntouchedFresh
<1> QED
  BY <1>1, <1>2, <1>3, <1>4, <1>5, <1>6, <1>7, <1>8, <1>9, <1>10, <1>11 DEF Next

LEMMA InitFresh ==
  ASSUME Init
  PROVE  FreshInv
<1>1. PICK there \in SUBSET Mine : server = [i \in Item |-> IF i \in there THEN 0 ELSE None]
  BY DEF Init
<1>2. ServerOK
  BY <1>1 DEF ServerOK
<1>3. DOMAIN tasks = Slot /\ Running = {}
  BY DEF Init, Running
<1>4. FormOK /\ fresh = FALSE /\ alone = FALSE
  BY DEF Init, FormOK
<1> QED
  BY <1>2, <1>3, <1>4 DEF FreshInv, ShapesOK

\* After a sync that no other task, change or fault fell into, and until something
\* changes, the tables are what the server has, unless a later sync is between
\* deleting and inserting the rows, and the screen shows nothing that is not there:
\* for any number of items and tasks, and whatever ran or failed before.
THEOREM FreshAfterEverySync == NoneIsNoTask => (Spec => []FreshAfterSync)
<1> SUFFICES ASSUME NoneIsNoTask PROVE Spec => []FreshAfterSync
  OBVIOUS
<1>1. FreshInv /\ [Next]_vars => FreshInv'
  BY NextFresh
<1>2. FreshInv => FreshAfterSync
  BY DEF FreshInv, FreshAfterSync, Partly
<1> QED
  BY InitFresh, <1>1, <1>2, PTL DEF Spec
=============================================================================
